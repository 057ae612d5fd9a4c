-------------------------- MODULE StructuredTasks --------------------------
(***************************************************************************)
(* What the tasks, when_any and when_all promise together, without frames  *)
(* and handles: structured concurrency. A statement of a task is over when *)
(* its expression has ended; whatever of it is still open is dropped then, *)
(* and never ends. when_any ends with the first end of an argument, before *)
(* anything else can end; when_all ends with the last. An exception that   *)
(* comes as far as the root ends all of it, as it is then.                 *)
(***************************************************************************)
EXTENDS Integers, Sequences

CONSTANTS Trees, Root, MaxTries

VARIABLES
  tree,   \* the program
  phase,  \* node -> "idle" | "open" | "dropped" | how it has ended
  at      \* task -> its statement, or try

vars == <<tree, phase, at>>

Endings == {"value", "thrown", "timeout"}
Kind(n) == tree.kind[n]
Subs(n) == tree.subs[n]
Open(n) == phase[n] = "open"
Ended(n) == phase[n] \in Endings
Statement(n, k) == Subs(n)[IF Kind(n) = "io" THEN 1 ELSE k]
Temporaries(n, k) == {m \in DOMAIN tree.kind \ {Root} : tree.owner[m] = n /\ tree.stmt[m] = k}
Made(n, k) == Temporaries(n, k) \cup UNION {Temporaries(m, 0) : m \in Temporaries(n, k)}

(* Arguments are opened with their combinator, one after the other. *)
Init ==
  /\ tree \in Trees
  /\ phase = [n \in DOMAIN tree.kind |-> IF n \in {Root} \cup Made(Root, 1) THEN "open" ELSE "idle"]
  /\ at = [n \in DOMAIN tree.kind |-> 0]

(* The phases when the statement of n is left: the rest is dropped. *)
Left(n) ==
  LET S == IF at[n] = 0 THEN {}
           ELSE UNION {tree.inside[m] :
                         m \in Temporaries(n, IF Kind(n) = "io" THEN 1 ELSE at[n])}
  IN  [m \in DOMAIN phase |-> IF m \in S /\ Open(m) THEN "dropped" ELSE phase[m]]

Begin(n, k) ==
  /\ at' = [at EXCEPT ![n] = k]
  /\ phase' = [m \in DOMAIN phase |->
                 IF m \in Made(n, tree.stmt[Statement(n, k)]) THEN "open" ELSE Left(n)[m]]
  /\ UNCHANGED tree

Over(n) == {i \in DOMAIN Subs(n) : Ended(Subs(n)[i])}

(* Of a wait for a file and a timer, the timer has ended. *)
TimedOut(n) ==
  /\ Kind(n) = "io"
  /\ Kind(Subs(n)[1]) = "any"
  /\ Over(Subs(n)[1]) = {2}

(* A task begins its first statement, the next one, or tries again. *)
Step(n) ==
  /\ Kind(n) \in {"run", "task", "io"} /\ Open(n)
  /\ at[n] < (IF Kind(n) = "io" THEN MaxTries ELSE Len(Subs(n)))
  /\ at[n] > 0 => Ended(Statement(n, at[n])) /\ phase[Statement(n, at[n])] # "thrown" /\ ~TimedOut(n)
  /\ Begin(n, at[n] + 1)

EndAs(n, ending) ==
  /\ Open(n)
  /\ phase' = [Left(n) EXCEPT ![n] = ending]
  /\ UNCHANGED <<tree, at>>

Abort ==
  /\ Open(Root)
  /\ phase' = [phase EXCEPT ![Root] = "thrown"]
  /\ UNCHANGED <<tree, at>>

Aborted == phase[Root] = "thrown"

EndTask(n) ==
  /\ Kind(n) \in {"run", "task", "io"} /\ at[n] > 0
  /\ LET e == Statement(n, at[n]) IN
     /\ Ended(e)
     /\ \/ phase[e] = "thrown" /\ IF n = Root THEN Abort ELSE EndAs(n, "thrown")
        \/ phase[e] # "thrown" /\ TimedOut(n) /\ EndAs(n, "timeout")
        \/ /\ phase[e] # "thrown" /\ ~TimedOut(n)
           /\ Kind(n) = "io" \/ at[n] = Len(Subs(n))
           /\ EndAs(n, "value")

EndLeaf(n) ==
  \/ Kind(n) \in {"event", "timer", "now"} /\ EndAs(n, "value")
  \/ Kind(n) = "fail" /\ EndAs(n, "thrown")

EndAny(n) ==
  /\ Kind(n) = "any"
  /\ Subs(n) # <<>> => \E i \in DOMAIN Subs(n) : Over(n) = {i}
  /\ EndAs(n, "value")

EndAll(n) ==
  /\ Kind(n) = "all"
  /\ Over(n) = DOMAIN Subs(n)
  /\ \A i \in Over(n) : phase[Subs(n)[i]] # "thrown"
  /\ EndAs(n, "value")

Progress ==
  ~ Aborted /\ \E n \in DOMAIN tree.kind : Step(n) \/ EndTask(n) \/ EndAny(n) \/ EndAll(n)

Next == Progress \/ (~ Aborted /\ \E n \in DOMAIN tree.kind : EndLeaf(n))

Safety == Init /\ [][Next]_vars

(* What can go on without a leaf goes on. *)
Spec == Safety /\ WF_vars(Progress)
=============================================================================
