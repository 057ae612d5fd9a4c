--------------------------- MODULE HttpConnection ---------------------------
(***************************************************************************)
(* http/http_connection.{hpp,cpp} and http/http_parser.{hpp,cpp}: one      *)
(* connection of the HTTP server. The coroutine handle() reads and parses; *)
(* the parser's callbacks build a request and start, for each complete     *)
(* one, a coroutine handle_request() that waits until the socket takes the *)
(* response. Both coroutines run on the loop's thread, in turns.           *)
(*                                                                         *)
(* The byte stream is a sequence of units. A unit is a piece of a part of  *)
(* a message (a span of llhttp); where a read ends, a span ends too, so a  *)
(* part of several units may reach its callback in several pieces.         *)
(***************************************************************************)
EXTENDS Integers, Sequences

CONSTANTS
  Messages,   \* the requests of the client: sequence of [version, body]
  SpanLen,    \* units of a span of the head
  Pipelines,  \* does the client send a request before the last answer?
  TimesOut    \* has the file a timeout (HttpServer::with_timeout)?

(* Only the last request may be one of HTTP/1.0: llhttp takes nothing more *)
(* from a client after it.                                                 *)
ASSUME ConnectionAssumption ==
  /\ Messages \in Seq([version : {"1.0", "1.1"}, body : Nat]) \ {<<>>}
  /\ \A m \in DOMAIN Messages : Messages[m].version = "1.0" => m = Len(Messages)
  /\ SpanLen \in Nat \ {0}
  /\ Pipelines \in BOOLEAN /\ TimesOut \in BOOLEAN

VARIABLES
  sent,       \* how many units of Wire the client has sent
  eof,        \* the client has closed its side
  taken,      \* how many units handle() has read
  chunk,      \* the rest of the span that parse() works on
  message,    \* the message llhttp is in
  req, last_header_field, content_length,  \* HttpPraser
  writer,     \* the request of the frame that waits to write: {} or {req}
  lost,       \* requests whose frame will never be resumed
  responses,  \* the requests answered, in the order of the answers
  stop,
  pc          \* handle(): "reading" | "parsing" | "closed" | "terminated"

client == <<sent, eof>>
parser == <<message, req, last_header_field, content_length>>
replies == <<writer, lost, responses, stop>>
vars == <<client, taken, chunk, parser, replies, pc>>

-----------------------------------------------------------------------------
(* What the client sends *)

Spans == <<"method", "url", "version", "field", "value">>

HeadLen == 5 * SpanLen
Size(m) == HeadLen + 1 + Messages[m].body

Units(m, part, n) == [k \in 1 .. n |-> [msg |-> m, part |-> part, k |-> k]]

(* The k-th unit of message m; its head ends with an empty line.           *)
Span(k) == CHOOSE i \in 1 .. 5 : (i - 1) * SpanLen < k /\ k <= i * SpanLen

Unit(m, k) ==
  IF k <= HeadLen
  THEN [msg |-> m, part |-> Spans[Span(k)], k |-> k - (Span(k) - 1) * SpanLen]
  ELSE IF k = HeadLen + 1 THEN [msg |-> m, part |-> "end", k |-> 1]
  ELSE [msg |-> m, part |-> "body", k |-> k - HeadLen - 1]

MessageUnits(m) == [k \in 1 .. Size(m) |-> Unit(m, k)]

(* The first m messages, and all of them *)
Stream[m \in 0 .. Len(Messages)] ==
  IF m = 0 THEN <<>> ELSE Stream[m - 1] \o MessageUnits(m)

Wire == Stream[Len(Messages)]
Ends(m) == Len(Stream[m])

(* A whole part of message m, and the request as the client means it *)
Part(m, part) == Units(m, part, SpanLen)

Meant(m) == [method  |-> Part(m, "method"),
             url     |-> Part(m, "url"),
             version |-> Part(m, "version"),
             headers |-> {<<Part(m, "field"), Part(m, "value")>>},
             body    |-> Units(m, "body", Messages[m].body)]

-----------------------------------------------------------------------------
(* HttpRequest: a request that was moved or cleared has empty strings and  *)
(* maps, its method and version stay.                                      *)
Emptied(r) == [r EXCEPT !.url = <<>>, !.headers = {}, !.body = <<>>]

NoRequest == [method |-> <<>>, url |-> <<>>, version |-> <<>>,
              headers |-> {}, body |-> <<>>]

Init ==
  /\ sent = 0 /\ eof = FALSE
  /\ taken = 0
  /\ chunk = <<>>
  /\ message = 1
  /\ req = NoRequest /\ last_header_field = <<>> /\ content_length = 0
  /\ writer = {} /\ lost = {} /\ responses = <<>> /\ stop = FALSE
  /\ pc = "reading"

(* The client *)
Send ==
  /\ ~eof
  /\ sent < Len(Wire)
  /\ Pipelines \/ Wire[sent + 1].msg <= Len(responses) + 1
  /\ sent' = sent + 1
  /\ UNCHANGED <<eof, taken, chunk, parser, replies, pc>>

Leave ==
  /\ ~eof
  /\ eof' = TRUE
  /\ UNCHANGED <<sent, taken, chunk, parser, replies, pc>>

-----------------------------------------------------------------------------
(* handle(): the read returns what there is, or it ends the connection;    *)
(* the file is then closed under a frame that waits to write.              *)
Read ==
  /\ pc = "reading"
  /\ taken < sent
  /\ chunk' = SubSeq(Wire, taken + 1, sent)
  /\ taken' = sent
  /\ pc' = "parsing"
  /\ UNCHANGED <<client, parser, replies>>

LeaveWriter == UNCHANGED <<writer, lost>>  \* mutant
CloseFile == writer' = {} /\ lost' = lost \cup writer

EndConnection ==
  /\ pc' = "closed"
  /\ chunk' = <<>>
  /\ CloseFile
  /\ UNCHANGED <<client, taken, parser, responses, stop>>

ReadEof == pc = "reading" /\ eof /\ taken = sent /\ EndConnection
ReadTimesOut == pc = "reading" /\ TimesOut /\ EndConnection

(* parse() has returned: handle() reads again unless it has to stop. *)
ParseEnds ==
  /\ pc = "parsing"
  /\ chunk = <<>>
  /\ IF stop
     THEN EndConnection
     ELSE pc' = "reading" /\ UNCHANGED <<client, taken, chunk, parser, replies>>

-----------------------------------------------------------------------------
(* llhttp calls back with the next piece of one part, if any.              *)
SamePart(u, v) == u.msg = v.msg /\ u.part = v.part

PieceLen == CHOOSE n \in 1 .. Len(chunk) :
              /\ \A k \in 1 .. n : SamePart(chunk[k], chunk[1])
              /\ n < Len(chunk) => ~SamePart(chunk[n + 1], chunk[1])

Piece == SubSeq(chunk, 1, PieceLen)

AtPart(part) ==
  /\ pc = "parsing"
  /\ chunk # <<>>
  /\ chunk[1].msg = message
  /\ chunk[1].part = part

Callback(part) ==
  /\ AtPart(part)
  /\ chunk' = SubSeq(chunk, PieceLen + 1, Len(chunk))
  /\ UNCHANGED <<client, taken, message>>

(* A message begins on a parser that has finished one. *)
OnReset ==
  /\ pc = "parsing"
  /\ chunk # <<>>
  /\ chunk[1].msg # message
  /\ message' = chunk[1].msg
  /\ req' = Emptied(req)
  /\ last_header_field' = <<>>
  /\ content_length' = 0
  /\ UNCHANGED <<client, taken, chunk, replies, pc>>

(* A part of a method or of a version is unknown: the conversion throws,   *)
(* which ends the process.                                                 *)
OnMethod ==
  /\ Callback("method")
  /\ req' = [req EXCEPT !.method = Piece]
  /\ pc' = IF Piece = Part(message, "method") THEN pc ELSE "terminated"
  /\ UNCHANGED <<last_header_field, content_length, replies>>

OnVersion ==
  /\ Callback("version")
  /\ req' = [req EXCEPT !.version = Piece]
  /\ pc' = IF Piece = Part(message, "version") THEN pc ELSE "terminated"
  /\ UNCHANGED <<last_header_field, content_length, replies>>

OnUrl ==
  /\ Callback("url")
  /\ req' = [req EXCEPT !.url = Piece]
  /\ UNCHANGED <<last_header_field, content_length, replies, pc>>

OnHeaderField ==
  /\ Callback("field")
  /\ last_header_field' = Piece
  /\ UNCHANGED <<req, content_length, replies, pc>>

(* A second piece of a value has no field: parse() fails. *)
OnHeaderValue ==
  IF last_header_field = <<>>
  THEN AtPart("value") /\ EndConnection
  ELSE /\ Callback("value")
       /\ req' = [req EXCEPT !.headers =
                    {h \in @ : h[1] # last_header_field} \cup {<<last_header_field, Piece>>}]
       /\ last_header_field' = <<>>
       /\ UNCHANGED <<content_length, replies, pc>>

(* run_task(handle_request(req)): the router answers and the frame waits   *)
(* for the socket, in the place of a frame that may still be waiting.      *)
Complete(r) ==
  /\ writer' = {r}
  /\ lost' = lost \cup writer
  /\ req' = Emptied(r)
  /\ UNCHANGED <<responses, stop>>

(* on_message_complete, which llhttp calls when the headers are complete *)
OnHeadersComplete ==
  /\ Callback("end")
  /\ IF Messages[message].body = 0
     THEN Complete(req) /\ UNCHANGED content_length
     ELSE content_length' = Messages[message].body /\ UNCHANGED <<req, replies>>
  /\ UNCHANGED <<last_header_field, pc>>

HasSomeBody(r) == r.body # <<>>  \* mutant
HasBodyNever(r) == Len(r.body) > content_length  \* mutant
HasBody(r) == Len(r.body) = content_length

OnBody ==
  LET r == [req EXCEPT !.body = @ \o Piece] IN
  /\ Callback("body")
  /\ IF HasBody(r) THEN Complete(r) ELSE req' = r /\ UNCHANGED replies
  /\ UNCHANGED <<last_header_field, content_length, pc>>

Parse == \/ OnReset \/ OnMethod \/ OnVersion \/ OnUrl
         \/ OnHeaderField \/ OnHeaderValue
         \/ OnHeadersComplete \/ OnBody \/ ParseEnds

-----------------------------------------------------------------------------
(* handle_request() goes on when the socket is writable and handle() is    *)
(* suspended. The request was moved to the router: keep_alive() sees no    *)
(* header any more, only the version.                                      *)
KeepAlive(r) == Messages[r.version[1].msg].version # "1.0"

FrameStays == UNCHANGED writer  \* mutant
FrameEnds == writer' = {}

Write ==
  /\ pc = "reading"
  /\ \E r \in writer : /\ responses' = Append(responses, r)
                       /\ stop' = (stop \/ ~KeepAlive(r))
  /\ FrameEnds
  /\ UNCHANGED <<client, taken, chunk, parser, lost, pc>>

WriteFails ==
  /\ pc = "reading"
  /\ writer # {}
  /\ eof
  /\ stop' = TRUE
  /\ FrameEnds
  /\ UNCHANGED <<client, taken, chunk, parser, lost, responses, pc>>

Handle == Read \/ ReadEof \/ Parse
Respond == Write \/ WriteFails

Next == Send \/ Leave \/ ReadTimesOut \/ Handle \/ Respond

Spec == Init /\ [][Next]_vars

(* The loop resumes handle() when there is something to read and           *)
(* handle_request() when the socket is writable, which it is again and     *)
(* again as long as the client reads. The client has to do nothing.        *)
FairSpec == Spec /\ WF_vars(Handle) /\ WF_vars(Respond)
-----------------------------------------------------------------------------
(* Every variable has its type, only a connection that is open has a frame *)
(* waiting to write, and an open one parses what it has read.              *)
Fields == Seq([msg : DOMAIN Messages, part : {Spans[i] : i \in 1 .. 5}, k : 1 .. SpanLen])

TypeOK ==
  /\ sent \in 0 .. Len(Wire) /\ taken \in 0 .. sent
  /\ {eof, stop} \subseteq BOOLEAN
  /\ message \in 1 .. Len(Messages)
  /\ req.method \in Fields /\ req.url \in Fields /\ req.version \in Fields
  /\ last_header_field \in Fields
  /\ Len(req.body) <= content_length
  /\ Len(responses) <= Len(Messages)
  /\ pc \in {"reading", "parsing", "closed", "terminated"}
  /\ writer # {} => pc # "closed"
  /\ chunk # <<>> => pc \in {"parsing", "terminated"}

(* The answers are those to the client's requests, in their order, one for *)
(* each, and each request reached the router as the client meant it,       *)
(* however the stream was cut into reads and whatever request the parser   *)
(* had built before.                                                       *)
AnswersMatch == \A m \in DOMAIN responses : responses[m] = Meant(m)

(* As long as the connection is open no handle_request() frame is dropped  *)
(* from the poller: two of them never wait for the socket together.        *)
NoFrameLost == pc \in {"reading", "parsing"} => lost = {}

(* A request sent completely is answered unless the connection is closed.  *)
EveryRequestAnswered ==
  \A m \in DOMAIN Messages :
    sent >= Ends(m) ~> (Len(responses) >= m \/ pc = "closed")
=============================================================================
