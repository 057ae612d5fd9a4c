# Verification of co_io

co_io is a C++20 coroutine I/O library: a single-threaded event loop over
`epoll`, timers over one `timerfd`, coroutine combinators, an HTTP/1.1 server
with a radix-tree router, and a blocking queue between threads. This directory
holds TLA+ models of its stateful parts, the TLC configurations that check them
on small instances, and TLAPS proofs for every value of the constants.

Line numbers below refer to files under `src/src/`.

## 1. The system

| Component | State | Operations | Talks to |
|---|---|---|---|
| `TimerContext` (`io/timer_context`) | heap `timers_`, set `cancel_timers_`, counter `next_timer_id_`, flag `stop_`, one timerfd | `add_timer`, `cancel_timer`, `reset`, `poll_timer`, `stop`, the sleep coroutines | its timerfd is a descriptor of the poller; calls coroutine handles |
| `EPollPoller`, `SelectPoller`, `PollerBase` (`io/poller`) | map `handles_` of descriptor to two callbacks and a mask; for epoll the kernel's one-shot mask and the batch `events_`, for select two `fd_set`s, `max_fd_` and an iterator over `handles_` | `register_fd`, `unregister_fd`, `add_event`, `remove_event`, `poll`, `waiting_for_event` | calls coroutine handles, which call back into it |
| `Loop` (`io/loop.hpp`) | `stop_`, `count_`, a poller, a `TimerContext` | `run`, `stop` | polls, and is stopped, from coroutines |
| `AsyncFile`, `FileDescriptor`, `AddressSolver` (`io/async_file`) | a descriptor, a timeout | `async_read`, `async_write`, `async_accept`, `async_connect`, construction, destruction | waits on the poller, on the timer through `when_any` |
| `Task`, `Promise`, `run_task` (`coroutine/task.hpp`) | a coroutine frame and its `previous_handle_` | `co_await`, destruction | all coroutines |
| `when_any`, `when_all` (`coroutine/`) | helper tasks, `index` or `complete_count` | start all, resume the parent at the first or last end | frames, destructors of the losers |
| `HttpPraser`, `HttpConnection` (`http/`) | the request being built, `last_header_field`, `content_length`, `stop` | llhttp callbacks, `handle`, `handle_request` | reads and writes an `AsyncFile`, asks the router |
| `HttpRouter`, `HttpEndpoint`, `AdaptiveRadixTree` | a radix tree of endpoints | `add_route`, `handle`; `insert`, `search`, `remove`, iterator | pure, except for the tree |
| `HttpWorker`, `HttpServer` | a loop, a listener, threads | `accept`, `client`, `start` | one connection coroutine per client |
| `NotificationQueue` (`utils/notification_queue.hpp`) | a queue, `done_`, a mutex, a condition variable | `push`, `try_push`, `pop`, `try_pop`, `done` | threads |
| `Execpted`, `ByteBuffer`, `Uninitialized`, ... | values | conversions | - |

What is hard in it, apart from the queue's threads, is reentrancy on one
thread: `poll()` and `poll_timer()` call coroutines in the middle of a loop
over their own tables, and these coroutines sleep, wait, open and close files
and destroy each other. `PROJECT.json` lists each hazard at its line with the
properties about it. What makes each part correct:

* **Timers** - a sleeper is woken after its deadline, in order, exactly once,
  not after it was destroyed, and the one timerfd is always armed for it although
  arming is skipped for all but the earliest deadline and cancellation is lazy.
* **Poller** - the callbacks in `handles_` are exactly the frames that wait,
  across drops, closes and reuse of descriptor numbers in the middle of a batch;
  the one-shot mask spent by a report is armed again for whoever still waits.
  `SelectPoller` walks over `handles_` while its handlers change the map.
* **Coroutines** - control never comes to a frame that has ended or is gone; the
  end of a `when_any` leaves nothing of its losers, no frame, callback or timer; a
  parent is resumed once, by the right end of its subtasks; everything that
  `run_task` started is freed with it.
* **Queue** - no item is lost, doubled or reordered; no thread is blocked beside
  an item; `done()` releases everybody.
* **Tree** - it is an ordered map, whatever order of operations led through the
  splits, merges and the four node layouts.
* **Connection** - each request is answered once, in order, and as it was sent.

## 2. Modules

| Code | Model | Abstract or reference specification | Proofs |
|---|---|---|---|
| `TimerContext` | `TimerContext` | `SleepService` | `TimerContext_proofs` |
| `EPollPoller`, `waiting_for_event`, polling of `Loop::run` | `EPollPoller` | - | `Loop_proofs` |
| `SelectPoller`, `waiting_for_event` | `SelectPoller` | - | `SelectPoller_proofs` |
| `Loop<POLLER>` | `Loop`, which composes the two pollers | - | `Loop_proofs` |
| `Task`, `Promise`, `run_task`, `when_any`, `when_all`, the loops of `AsyncFile` | `Coroutines` | `StructuredTasks` | `Coroutines_proofs`, `Coroutines_control_proofs` |
| `NotificationQueue` | `NotificationQueue` | `WaitingQueue` | `NotificationQueue_proofs` |
| `AdaptiveRadixTree` | `RadixNode` (layouts), `AdaptiveRadixTree` | `OrderedMap` | `RadixNode_proofs` |
| `HttpConnection`, `HttpPraser`, `HttpWorker::client` | `HttpConnection` | - | `HttpConnection_proofs` |

An `MC...` module gives each its small instances. `SleepService`, `WaitingQueue` and
`StructuredTasks` are abstract state machines that the models implement;
`OrderedMap` is a reference definition that the tree's operators are compared
with in every state; what a layout of `RadixNode` promises, to be a map from bytes to
children, is `Children` in `RadixNode_proofs`. They say what a component promises and translate no
code, so `map` has no entry for them. `SleepService` remembers who was woken, so a
wake-up cannot pass for a cancellation.

**TimerContext.** The priority queue is a set; since `TimerEntry::operator<`
answers true for equal times too, any entry with the least time may be its top
(`Tops`). One action is one uninterrupted stretch of code: `Sleep` is
`SleepAwaiter::await_suspend` with all of `add_timer` and, if it comes to that,
`reset`; `Destroy` is `~TimerPromise` with `cancel_timer`. `poll_timer` is cut
where it calls coroutines (`pc = "callback"`), where it waits
(`"waiting"`) and where it reads the clock again. The clock and the timerfd are
`Tick` and `Expire`. `timerfd_settime` with a relative time of zero disarms it
(`Settime`). A frame that was destroyed may be the address of the next frame.

**EPollPoller.** `pc = "run"` is any coroutine of the application running, called
from `poll()` or before it; `Wait`, `Drop`, `Open`, `Close` and `Consume` are
what it may do to the poller until all are suspended (`Yield`). `EpollWait` takes
a batch of any order, and the dispatch actions handle one entry after the
other, with the iterator that is kept between the write and the read handler
(`it`). A resumed frame of `waiting_for_event` ends and is destroyed, with the
`remove_event` of `~PollerPromise`, before its caller goes on (`Call`). The
kernel keeps `armed`, cleared by a report and set by each `EPOLL_CTL_MOD`.

**SelectPoller.** The same application actions over a poller that is level
triggered, whose `register_fd` does nothing and whose entries stay in `handles_` until
`poll()` finds them without callbacks. `Pselect` copies the sets up to `max_fd_`.
The walk visits the entries of `todo` in any order, one action for each stretch
between two handlers: `Visit` up to the first handler, `GoOn` after one (`entry` is the
iterator), `EndWalk` for what follows the loop. A new entry may lie ahead of the walk,
unless its place has been passed (`behind`), and it may make the table rehash, after
which any entries lie ahead. The iterator itself survives a rehash, as it does in the
libraries of the common compilers, though the standard does not promise it.

**Loop.** The template parameter is chosen once, in `LoopInit`; the state of the
poller that is not chosen does not change. `EPollLoop` and `SelectLoop` are the two
instances that `io/loop.hpp` names.

**Coroutines.** A program is a tree: `run_task`'s wrapper, tasks that await one expression
after the other, calls of `when_any` and `when_all`, and leaves that wait for the
poller (`"event"`), for a timer (`"timer"`), that end at once (`"now"`) or throw (`"fail"`).
The tasks named in an expression are temporaries of the statement or parameters of the
task, which decides when their frames are destroyed. Each node has a frame, and a
combinator one more for each helper; `state` is the frame's life, `prev` its
`previous_handle_`. One action is one stretch of one coroutine between two transfers of
control: `running` is the frame that has it, `loops` the stack of the `await_suspend()`
of combinators that are in the middle of resuming their helpers. `Await` is
`Task::Awaiter`, `Finish` the final suspension, `StatementFrames` what the end of a
statement destroys, `TakesHandlesBack` the destructors of `PollerPromise` and
`TimerPromise`. A file operation (`"io"`) is a loop over its wait, with or without a
timer under `when_any`: `Retry` after EAGAIN, `ReturnIo` with a result or `ETIMEDOUT`.
`armed` is what the poller and the timers hold; how they hold it is the business of the
other modules, which show that a destroyed frame is not called.

**StructuredTasks** says what tasks and combinators promise without frames: when a
statement is over whatever is still open of it is dropped and never ends; `when_any`
ends with the first end of an argument, before any second; `when_all` with the last; and
what can go on without a leaf goes on. An exception in a task drops what is open of its statement;
one that comes as far as `run_task()` ends all, and destroys nothing (`Abort`): parameters of a task that were not begun
are left as they are, which a program of the run shows (`Do(<<F, All(<<Param(T), Param(Read)>>)>>)`).

**NotificationQueue.** Critical sections are atomic; the notification after the
unlock, a woken thread's test of the predicate, and spurious wake-ups are steps.
`front()` of an empty queue is `Garbage`, which `TypeOK` excludes.

**RadixNode, AdaptiveRadixTree.** Nodes are values with their `keys_` and
`childs_` arrays as the layouts keep them, unused places included (`LayoutOK`); `LowerBound` is
the place that `std::lower_bound` returns. `NextOrEqual` has the two ways in which the layouts find
the next child, `lower_bound` (`NextSorted`) and a loop over the bytes (`ScanEnd`), and returns a pair, as
the code does. Node48 and Node256 do not test whether the key is beyond 256 and would read outside
their arrays; only a byte from 128 on leads there, and the model has `Null`, the
mildest outcome. An operation of the tree is a recursive operator
that returns the node to be stored for a place, where the code stores through a
pointer to a pointer. The shrink of a parent and the upward merge of `remove()`
are kept in their order. The iterator is a stack; its next key goes through the
signed `char` of the code.

**HttpConnection.** The byte stream is cut into units, one per piece of a
message part (`Stream`, a recursive function of how many requests are laid out); a read takes any run of units that were sent, so each read may end
between any two units. One action is one callback of llhttp. The request that
`handle_request` waits to answer is `writer`: there is one write event per file,
so a second frame takes the place of the first (`lost`). After `std::move(req)`
strings and maps are empty, method and version stay (`Emptied`), and `keep_alive()`
sees only the version.

## 3. Runs

Every run ends within three minutes on two workers. Deadlock
checking is off where the system may really stop (no data comes, nobody pushes,
the loop has ended, or the bounds on time and timers are used up); in `art` it is
on.

| Run | Checks | Instance |
|---|---|---|
| `timer` | `TypeOK`, `EntriesMatchFrames`, `CancelledStillQueued`, `WakeupArmed`, `NeverResumesNull`, `ImplementsSleepService` | 2 frames, deadlines 1 and 2, time to 3, 4 timers, `stop()` between polls |
| `timer_exact_deadline` | `SleepersWake` violated | `ClockReadsRepeat`, no `stop()` |
| `timer_stop_in_callback` | `NeverResumesNull` violated | `stop()` from a coroutine that a timer resumed |
| `epoll` | `TypeOK`, `CallbacksMatchWaits`, `MaskArmed`, `ReadyWaitersResume`; `SelectTypeOK`, `SelectIteratorValid`, `SelectCallbacksMatchWaits` | `Loop` with either poller: 2 descriptors; 3 frames with `EPollPoller`; 2 frames, one rehash in each walk with `SelectPoller` |
| `select_max_fd` | `ReadyWaitersResume` violated | 3 descriptors, 3 frames that read, no rehash |
| `tasks` | `TypeOK`, `ControlLive`, `OnlyAwaitedFramesRemain`, `StartedBeforeDestroyed`, `LastEndResumes`, `ImplementsStructuredTasks`, `RunReturns` | 33 programs, operations tried twice |
| `queue` | `TypeOK`, `NoLostWakeup`, `ImplementsWaitingQueue` | 3 threads, 2 items, length 2 |
| `queue_done` | `DoneReleases` violated | same |
| `art` | `TypeOK`, `Compressed`, `OperationsExact`, `LookupsAgree`, `IterationSorted` | 9 keys, layouts of 2, 3 and 5 children |
| `art_high_byte` | `IterationSorted` violated | 5 keys with bytes from 128 on |
| `http` | `TypeOK`, `AnswersMatch`, `NoFrameLost`, `EveryRequestAnswered` | 3 requests with bodies of 2, 0 and 3 units, the last of HTTP/1.0 |
| `http_pipelined` | `AnswersMatch` violated | 2 GET requests sent without waiting |

### Bounds, and what a passing run assumes

* `timer`: two frames make every pair of a destroyed and a reused handle, of two
  equal and of two different deadlines; a frame can sleep, be destroyed, and
  sleep again with its old entry still queued, which takes three timers, and
  `stop()` takes the fourth. `MaxTimers` and `MaxTime` cut behaviours; at
  `MaxTime` armed timers expire, so that liveness is not vacuous at the bound.
  `ClockReadsRepeat = FALSE` and `StopContexts = {"waiting", "done"}` leave out
  the two behaviours that the violation runs show; the theorems name the same
  conditions.
* `epoll`: two descriptors give batches of two entries, so a handler can close,
  and open again, the descriptor of the entry that follows; three frames give
  both directions of one descriptor and a waiter of the other. The flags leave out
  three uses that the library itself does not make: two frames on one event
  (`SharedWaits`; the pipelining run shows where the HTTP server does), a write
  handler that closes its own file before the read handler of the same entry
  (`WriterCloses`), and a frame destroyed after its file (`LateDrops`). The safety
  theorems hold without these restrictions where they do not name them.
  With `SelectPoller`, whose entries outlive their files, two descriptors and two
  frames suffice for an entry that is left by the walk, reused, met again or
  erased while the other is visited; handlers may close the file they are called for.
  A wait for a descriptor is dropped before its file is closed, as with `LateDrops`.
  Three descriptors are needed for `select_max_fd`: the one erased, the one waited for
  again, and the one forgotten in between.
* `tasks`: the programs hold each combinator with each kind of argument and nest two of
  them, under and above a task and a file operation, with one more statement after it to
  see what is left; two tries give one retry with a new timer. Programs that
  this code does not run safely are left out, and with any of the following the run fails:
  an argument of `when_any` that ends at once before the last one
  (`when_any.hpp:24`: the parent is resumed, and may be gone, inside the loop); a bare wait
  for the poller directly under `when_all` (`poller.hpp:103`: it holds the handle of a
  finished frame until that is destroyed); tasks under a `when_all` of temporaries, or
  parameters of a task with later statements, whose `when_any` has a loser that outlives its
  helper (`when_any.hpp:66`); an exception under `when_all` (`when_all.hpp:39`: the
  parent is never resumed). `async_read` and the other callers in the repository are
  within the programs of the run. `All(<<N, T>>)` is safe, as the parent is resumed by the
  last end only. `SafeTree` states these rules but for the one on exceptions, which is
  `AllSucceed`; the theorems name the two. All programs of the run keep to both, as TLC evaluates
  (`CoveredPrograms`), but the two that give parameters to a `when_any`, which are safe only because
  the task has nothing after it.
* `queue`: three threads make one notifier, one woken and one third thread that
  takes the item in between, or two blocked ones for one notification.
* `art`: sizes 2, 3 and 5 for 4, 16 and 48 let nine keys reach each layout and
  come back; the conversions compare sizes with these constants only. `Fuel = 12`
  exceeds the number of keys, so an iteration cut short by it is not sorted. The first bytes 0
  and 127 make the scans start at the first place and cross a wide gap; bytes from 128 on are for `art_high_byte`.
* `http`: `SpanLen = 1`, reads end between the parts of a head, and inside a
  body. With `SpanLen = 2`, reads that end inside a URL, field, value or method,
  the model shows truncated URLs, headers cut in two and thrown conversions; no
  document promises anything there, so it is a hazard and not a finding.
  `Pipelines = FALSE`: the client waits for an answer before it sends again, so this run says
  nothing of two requests in one read, which is the question of `http_pipelined`. `NoFrameLost` is about open
  connections: when a read times out, or the client leaves, while a frame waits to
  write, the code drops that frame's callback and the frame with it, and the model does so too.

### Fairness

Nothing obliges the application, a client or a calling thread to act. `timer`:
time passes, an armed timerfd expires, a resumed coroutine suspends again, and until
`stop()` the loop resumes `poll_timer()` when the timerfd is readable (`Polled`).
`Loop::stop` ends `run()` with the current poll, so afterwards a drain in progress goes on but nothing
makes the loop read the timerfd again: `poll_timer()` is normally left suspended, and the
null entry that `TimerContext::stop` queues wakes it up only if the loop still polls. `epoll`: coroutines suspend at last and
`Loop::run` polls for ever; nothing of a `SelectLoop` is required in that run.
`select_max_fd`: the same fairness, which the counterexample meets by waiting in
`pselect()`, as no watched descriptor is ready. `tasks`: the thread goes on with its code
(`Run`), and what each leaf waits for happens at last and is reported by the loop. `queue`: a thread inside a call goes on, and a woken
thread gets the mutex. `http`: the loop resumes `handle()` when there is input,
and `handle_request()` while the socket is writable, which is so again and again
as long as the client reads; the read timeout is not fair.

### What the violation runs show

1. `TimerContext::reset` (`timer_context.cpp:38`) replaces only a negative
   relative time by one nanosecond; zero disarms the timerfd, and the
   sleepers hang until an earlier timer is added.
2. `stop()` called in a coroutine that `poll_timer` resumed queues a null handle
   that the same drain loop calls (`timer_context.cpp:59-67`).
3. After `NotificationQueue::done()` the predicate of `pop()` is false for
   ever; its `return false` is unreachable (`notification_queue.hpp:38-39`).
4. The iterator of the tree takes the next key from a signed `char`
   (`adaptive_radix_tree.hpp:85`); keys with bytes from 128 on break its order.
5. Two requests in one read: the second frame replaces the write callback of
   the first, which is never answered (`http_connection.cpp:23`).
6. The walk of `SelectPoller::poll` erases the entry of the greatest descriptor and sets
   `max_fd_ = -1`; a handler called later in the same walk waits on a smaller
   descriptor, which becomes `max_fd_`, so it is not computed again after the walk: the
   descriptors in between are not watched any more, and who waits for them hangs
   until somebody waits for a greater one (`poller.cpp:62`, `98-109`).

## 4. Proofs

Constants are arbitrary, up to the named assumptions of the modules
(`TimerAssumption`, `PollerAssumption`, `QueueAssumption`, `LoopAssumption`, which is
`SelectAssumption` of `SelectPoller`: descriptors are below `FD_SETSIZE`;
`ConnectionAssumption`: the requests are a sequence of requests, a span is not empty;
`SizeAssumption`: the capacities of the four layouts increase up to all bytes;
`TreesAssumption`: the programs are finite trees in which who makes and who destroys a frame
is as C++ has it, and a file operation waits for its file, alone or with a timer under `when_any`, as the
loops of `async_file.cpp` do; combinators and tasks nest as they like; `above`, `inside` and `owner` agree on
the way from the root to each node).

**TimerContext_proofs.** `TypeInv` adds to `TypeOK` that a sleeping frame has an id
that `add_timer` returned, and gives `TypeCorrect`. `EntriesMatchFrames` is not inductive: a step
needs to know that ids are unique and at most `next_timer_id_`, and that
cancelled ids belong to queued entries (`QueueInv`). Both together form `HeapInv`,
which gives `SleepersKept` and `CancelSetClean`. `NoWakeupLost`: `WakeupArmed` is
inductive with `TypeOK` under `~ClockReadsRepeat`, since `poll_timer()` waits again only
after `reset()`, which arms for the top of the heap. `NullNeverCalled` needs `"callback" \notin StopContexts` and the
invariant `StopInv`: a null entry is queued only when `stop_` holds, and then
`poll_timer` does not enter the drain. `RefinesSleepService` maps each step
to a step of `SleepService!Safety` or a stutter.

**Loop_proofs.** First a loop of `EPollPoller`. `CoreInv` is `TypeOK`, `BatchInv` (a batch is over when
`epoll_pwait` is called again, and the iterator names a registered descriptor
unless it dangles) and `CallbacksLive`; it is inductive for all values of the flags, and gives `TypeCorrect` and `CallsOnlyWaiters`: a
callback is always that of a frame suspended on that event. `NoWaiterLost` adds
the converse and needs `~SharedWaits` and `~LateDrops`. `MaskNeverSpent` is
inductive relative to `CoreInv`.
`LoopImplementsPollers`: a behaviour of the loop is one of `EPollPoller`
and one of `SelectPoller`, of which the one that is not used stutters. So what is
proved about the pollers holds of the loop (`SelectTypeCorrect`, `SelectIteratorSafe`,
`SelectWaitersMatch`, `EPollLoopSafe`); the rest equates the loop's instance of
`SelectPoller` with the one that `SelectPoller_proofs` brings.

**SelectPoller_proofs.** `Inv` is the conjunction of `TypeOK`, `IteratorValid` and
`CallbacksMatchWaits`, regrouped by what a step can disturb (tables, walk, scalars);
together they are inductive. One lemma says what each change of the tables keeps
(`AddKeeps`, `DestroyKeeps`, `CloseKeeps`, `EraseKeeps`). The walk can stay valid because only
`poll()` erases entries: `todo` and `behind` are disjoint and the current entry is
behind, even when a handler makes the table rehash. `GreatestType` (the new `max_fd_`
is a descriptor of the table or -1) is where descriptors have to be bounded.
`SelectSafe` is the result.

**NotificationQueue_proofs.** `NoLostWakeup` is inductive with `TypeOK`; the leaves
count threads with the theorems on finite sets. `RefinesWaitingQueue` maps each
step to `WaitingQueue!Safety`.

**HttpConnection_proofs.** `TypeCorrect` holds for any sequence of requests, pipelined or not,
and any `SpanLen`. For a client that waits for its answer (`~Pipelines`, the condition under
which the run checks it and without which `http_pipelined` refutes it) `NoFrameLostInTurn` and
`AnswersMatchInTurn` hold for every number of requests and length of bodies. `AnswersMatchInTurn`
needs `SpanLen = 1` too: reads that cut a URL or a field are the hazard described under Bounds.
`NoFrameLost` says nothing of the units of the stream, but follows only from where
the parser is in them: `StreamInv` ties what is read and not yet parsed to the stream and to the
message being parsed, `RequestInv` the body to the place in it, and `ReplyInv` the answers to the
messages that are finished; `InTurnInv` says that what is sent ends with the first
request without an answer. So no second request can come to its end while a frame waits.
`MatchInv` adds that the request being built agrees with the one sent in every piece that has been
parsed. `Stream` is recursive, so facts about it are proved by induction over naturals: lemma
`UpTo` takes the set of numbers that have a property, not an operator, and comes from
the well-foundedness of the order.

**RadixNode_proofs.** Each node layout is a map from bytes to children, exactly, for all
capacities: `NewExact`, `InsertExact`, `RemoveExact` and `ReplaceExact` say that
the operation keeps `LayoutOK` and what it does to `Children(n)`. `NextExact` says that `next_or_equal_key`
finds the least byte with a child from the key on, and its child, in every layout: with `lower_bound` for any
key, with the loop for keys up to 256, beyond which Node48 and Node256 read outside their arrays and nothing is
claimed. `ScanEnd` is a recursive function: `ScanExists` shows that it exists, by a witness, and `ScanIs` follows by induction
from the end of the array down. `FirstExact`: `first_key` is `next_or_equal_key(0)`. `GrowExact` and `ShrinkExact` say that a
conversion changes the layout and not the map; `AddExact`, that `GrowIfFull` always makes room and that the
node it made is not one that `ShouldShrink`, so insertion and removal do not undo each other.
For these, `LowerBoundIs` shows that the place found in a sorted array splits it, `FreeSlotIs` that a node
with fewer children than slots has a free one (a pigeonhole), and `SortedBytesIs` that walking
the bytes in order fills the sorted arrays.

**Coroutines_proofs.** `TypeCorrect` holds for every set of trees, unsafe ones included. Its
bounds are where the difficulty is: that `await_suspend()` resumes no helper beyond the last, that
`complete_count` is at most the number of helpers, and that `armed` holds only leaves that wait or
are done. `Inv` adds to the types that nothing of a statement is made before it and that
helpers come with their combinator (`MadeInTurn`, `RootFirst`, `HelpersAfter`), that `complete_count` counts helpers
that have ended (`CountsEnded`), that a leaf is nobody's `previous_handle_`, so a finish never goes to
one (`NoLeafBefore`), and that a combinator is in the middle of its `await_suspend()` at most
once (`LoopsOnce`). A file operation makes the same `when_any` again with every try: `WaitsInTurn` says that
its helpers are resumed without anybody else having control, so no try begins while the loop of
the one before is on the stack. The parts are stated of trees and values, not of the variables, so that one
lemma on how frames change (`Become`) serves every action. `LastEnds`, also for every tree, states
`LastEndResumes`: the awaiter of a `when_all` goes on with the end of the last helper and of no other,
even when helpers end inside the loop that starts the others, or one throws. It needs that a helper that has not ended
has nobody as its `previous_handle_` (`AllReturn`), and `CountsEnded`: if the count is complete, all have ended.

**Coroutines_control_proofs.** The theorems on where control is, for every program that keeps the
rules of `SafeTree`, of any size and nesting. `ControlStaysLive` states `ControlLive`. `Main` is what
is invariant with `Inv` until `run_task()` is over (`Over`). `FramesWait` says how frames depend on each other: a suspended
one has its awaiter as `previous_handle_`, suspended as well, unless it is a loser; an argument does not begin
before its combinator and ends before its helper; of a task's temporaries only those of the current statement are there.
`ControlGoes` says who may have control: it was resumed because what it waits for has ended; while a wait for the poller
or a `when_any` is ended and not destroyed, control is on its way up to the task that destroys it (`GoesToOwner`), so no event can
call the handle of an ended frame; combinators that are resuming helpers are nested and above whoever
has control, and what has ended below them ended at once (`EndedAtOnce`), which is where `SafeTree` excludes
that a parent is resumed inside the loop. Each of its rules is used: the one on what ends at once for
the loops, the ones on `when_all` for frames that stay behind with their handle, the one on parameters for what
the end of a statement destroys. Steps come in two forms, a coroutine that awaits (`AwaitIs`) and one that ends
(`FinishIs`), with what they destroy (`Swept`); each of the invariant's parts is proved once for both.

`WaitsStart` states `StartedBeforeDestroyed`. `Ahead` is its invariant: what has been made and has not begun
is below a coroutine that has control and is about to begin it, or below a helper that a combinator has
still to resume. A task that goes on and destroys its statement is below neither (`FreedBegan`), for arguments of one node have
nothing in common (`OneArgument`). This needs that a tree is connected, which follows by
induction on the number of nodes above one (`TreeInduction`, over a set, from the well-foundedness of the order).

`OnlyAwaitedRemain` states `OnlyAwaitedFramesRemain`, for programs that keep `AllSucceed` as well: without it the
awaiter of a `when_all` is suspended for ever over helpers that have all ended. `Waiting` is the invariant: a suspended leaf is
armed or being called; what a suspended coroutine awaits is suspended, has control or has just given it back; a combinator has
a helper that is suspended, running or still to be resumed; and `complete_count` misses no helper that has ended
(`CountsAll`), for only nodes of `MayThrow` throw. When control is nowhere, the alternatives fall away.
`Gone` says that `run_task()` has destroyed all frames when it ends without an exception.

`ImplementsTasks`: under `SafeTree`, `Coroutines` implements `StructuredTasks!Safety`, exceptions under a `when_all` included.
A node's phase is read from its frame's life and what its promise holds; a coroutine that awaits is a `Step`, one that
returns an `EndTask`, `EndAny` or `EndAll`, and the start of a combinator, its loop and the steps of its helpers are hidden
(`Hidden`). That a statement leaves exactly what the abstract one leaves is `LeftBody`; at the end of
`run_task()` it is everything (`AllOfRoot`). What the guards of the abstract actions ask of the arguments comes from `Firsts`: while a `when_any`
goes on, only one of its arguments has ended, and control is on the way up from it (`FirstComesUp`, `OneEnds`); `index`
names that one (`FirstKept`), from which a file operation knows that its timer was first (`TimerIs`), as neither the
wait nor the timer throws (`LeavesThrow`); and a `when_all` has control only when it has counted all of its arguments,
each of which has ended and thrown nothing (`CountsValues`).

Only model-checked: liveness (`ReadyWaitersResume`, `RunReturns`,
`EveryRequestAnswered`, the fairness of the abstract specifications), which
is out of the prover's reach; the operations of the whole tree (`OperationsExact`,
`LookupsAgree`, `IterationSorted`, `Compressed`, `TypeOK`), whose operators are `RECURSIVE` and walk over
nodes of any depth. The refinement properties (`ImplementsSleepService`, `ImplementsWaitingQueue`,
`ImplementsStructuredTasks`) are proved for the `Safety` of the abstract specification, their fairness is checked.

## 5. Not modelled

The server's threads and `accept()`, and the router's lookup are planned (below).
`AddressSolver` is I/O without state; `Execpted`, `ByteBuffer` and the type
helpers have no protocol. Left out of modelled parts: failures of `epoll_ctl` (an entry
of `handles_` stays for a descriptor that is not polled), interrupted system calls,
`EPOLLERR`, descriptors beyond `FD_SETSIZE`, the count limit of `Loop`, the values that
tasks return, short writes, chunked bodies, ids beyond 2^32, `debug()`, and
`prev_or_equal_key` and `last_key`, which nothing calls.

## 6. Plan

Done: the timers, the pollers and the loop, the coroutines, the queue, the tree, and one HTTP
connection; theorems for all of them, but for the operations of the whole radix tree.

1. An abstract specification for a connection (requests in, answers out), and the
   server's threads, which share only the router; the lookup of the router.
2. Error readiness (`EPOLLERR`) and short writes.
