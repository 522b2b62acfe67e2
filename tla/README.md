# Verification of cool

cool is a C++ server framework built on fibers. This directory holds TLA+
models of its core, the TLC instances that check them, and TLAPS proofs. All
paths are relative to the repository's root; the implementation is `src/src/`.

## The system

    TcpServer, HttpServer, HttpSession      accept loops, requests
    Socket, Stream, ByteArray, Address      what they are made of
    hook.cpp, FdManager                     blocking calls become waits of the fiber
    IOManager  (a Scheduler and a TimerManager)
    Scheduler, Fiber        TimerManager    threads that run fibers; timers
    Thread, locks           Config, Log     used everywhere

A *fiber* is a coroutine. The *scheduler's* threads take fibers and callbacks
from one list and switch to them. A fiber that must wait leaves a pointer to
itself with the *event table* (epoll) or with a *timer* and yields; whoever sees
the event or the time come puts it back on the list. The *hooked* system calls
do this for ordinary blocking code. `stop()` waits until list, active threads,
registered events and timers are all gone.

### Inventory

| part | source | lines | state |
|---|---|---|---|
| Scheduler | `scheduler.cpp/.h` | 338 | modelled |
| Fiber | `fiber.cpp/.h` | 234 | modelled, in `Scheduler` |
| TimerManager, Timer | `timer.cpp/.h` | 249 | modelled |
| IOManager | `iomanager.cpp/.h` | 412 | partly: not the tickle pipe |
| hooked calls | `hook.cpp/.h` | 602 | partly: not the durations |
| FdManager | `fd_manager.cpp/.h` | 149 | modelled, in `FdTables` and `Hook` |
| ByteArray | `bytearray.cpp/.h`, `endian.h` | 799 | modelled |
| Stream, SocketStream | `stream.cpp/.h`, `socket_stream.cpp/.h` | 186 | modelled, in `HttpConnection` and `ByteArray` |
| Socket | `socket.cpp/.h` | 531 | partly: what servers use of it |
| TcpServer | `tcp_server.cpp/.h` | 161 | modelled |
| HTTP server, session, servlets | `http/http_server*`, `http_session*`, `servlet*` | 402 | modelled |
| HTTP parsers | `http/http_parser.*`, `*.rl`, `*.rl.cpp` | 10,900 | modelled, the generated automata included |
| HTTP messages | `http/http.*` | 531 | not modelled |
| Config | `config.cpp/.h` | 455 | partly: not the conversions |
| Log | `log.cpp/.h` | 841 | partly: not the formatting |
| Thread, locks | `thread.cpp/.h` | 289 | partly: the start handshake, the scoped locks |
| Address | `address.cpp/.h` | 624 | not modelled |
| utilities | `util.*`, `macro.h`, ... | 160 | `ASSERT` only |

## Modules

| module | models |
|---|---|
| `Scheduler` | Scheduler and Fiber |
| `TimerManager` | TimerManager, Timer and the clock |
| `WakeSource` | abstract: waiters, wake-ups and the count of both |
| `Epoll` | external: the kernel's side of an edge-triggered epoll |
| `IOManager` | the event table and idle()'s handling of events |
| `Hook` | the hooked calls, and what they use of FdCtx |
| `FdTables` | the tables `m_datas` of FdManager and `m_fdContexts` of IOManager |
| `ByteArray` | the list of nodes and the raw operations |
| `ByteSequence` | abstract: a flat sequence of bytes with a position |
| `ByteCodec`, `ByteValues` | the encodings, as functions, and typed values written and read back |
| `RequestMachine`, `ResponseMachine` | the two generated automata, over classes of characters |
| `HttpParser` | the parsers with their callbacks, and recvRequest's reading of a head |
| `TcpServer` | binding, accepting and stopping |
| `HttpConnection` | one client: session, streams and socket |
| `Servlets` | the dispatch table |
| `Settings` | the variable "logs", its listener and the loggers |
| `ListenerKeys` | add_listener and its keys |
| `ThreadStart` | the Thread constructor's handshake |
| `MC*` | instances for TLC |
| `*Proofs` | theorems and their proofs |

How they fit together: `Scheduler` is written against an abstract set of waiting
fibers and a pending count. `WakeSource` says how these two behave. `IOManager`
is shown to implement `WakeSource` (`ImplementsWakeSource`), `Scheduler` to use
nothing else (`UsesWakeSource`). `Hook` takes the event table and the timers at
their word and looks at what calls, timeouts and `close` do to each other.
`ByteArray` is shown to implement `ByteSequence`, and `ByteValues` is built on it.
`TcpServer` and `HttpConnection` take the hooked calls at their word.

`MCHook`, `MCMessages`, `MCServer` and `MCSettings` put components that do not
share state into one instance. A variable `part` (`mode` in `MCMessages`) is
chosen at the start and says which of them a behaviour is about; the others keep
their initial state, so the state spaces add up and do not multiply.

Definitions named `...Keeps`, `...Early`, `...Drops` and the like, under a
comment that begins with "Mutant", are wrong versions of the definition that
follows them. They are used to see that each property notices such a mistake.

### Scheduler

State: the run queue `m_fibers`, the counters `m_active_thread_count` and
`m_pendingEventCount`, each fiber's `m_state` and the real condition of its
context (`ctx`), each thread's place in `run()` (`pc`) with its locals `ft` and
`cb_fiber`, and the owner's place in `stop()`.

One action is one critical section, one access to a fiber's state, one change of
a counter or one context switch. `Take` and `TakeNothing` are the scan of the
queue; `EnterFiber` and `EnterCb` are `swapIn`; `YieldToHold`, `YieldToReady`,
`Finish` set the state and `swapOut` leaves the stack; `Deactivate`, `Requeue`,
`Retire`, `SeesHold` and `SetHold` are what `run()` does afterwards;
`IdleChecksPending` and `IdleChecksQueue` are the two halves of
`IOManager::stopping`; its third test, for timers, and the callbacks of expired timers
that `idle()` schedules are left to `TimerManager`, so `StopReturns` is about schedulers
without timers. An `ASSERT` that fails sets `failed`, and nothing follows.
`late` records that a thread took a task after its idle fiber had ended: `run()`
goes round once more then and leaves without asking `stopping()` again.

### TimerManager

State: the set `m_timers`, each timer's fields, `m_tickled`,
`m_previous_time`, the clock, and the locals of each thread's call. What happens
before a lock is taken or after it is given up is an action of its own:
`listExpiredCb` reads the clock, looks whether there are timers, and takes them
in three steps. The clock may be set back, which is what `detectClockRollover`
is there for; `rolled` records that it has returned true. `overtaken` has the threads
that are between the two locks of `listExpiredCb` when a timer is taken out.

### Epoll, WakeSource, IOManager

A call locks the descriptor's context, so it is one action, cut after each
`schedule()` and each change of the count, which others see without the lock.
`EpollWait` fills a thread's array `batch`; `HandleFd`, `triggerEvent` and
`Count` work it off while other threads add, delete and cancel events.
`stopping()` passes the timeout by value, so `epoll_wait` always polls; the
tickle pipe wakes nobody and is left out. `outdated` records, for each thread, what its
array stands for although nobody waits for it: a direction a hangup is widened to, or
an event that has left the table since. `epoll_ctl` is refused for an ADD of what is
there and a MOD or DEL of what is not; that it lacks memory is not modelled, so the
error returns are taken only if table and kernel come apart, which `EpollMatches` and
`NoLostWakeup` exclude.

### Hook

A fiber in a call goes through the steps `Try`, `AddTimer`, `AddEvent` (with
YieldToHold), `Resume` and `Woken`. `Deliver`, `Expire` with `RunCallback` and
`CancelEvent`, and `close` wake it. The kernel gives out numbers of closed
sockets again. `Running` counts the fibers and callbacks that are in the middle
of something; no more than `m_threadCount` are, so with one thread a call runs
undisturbed from one yield to the next.

### FdTables

Fibers that open, wait on and close descriptors of any number, with one action
per critical section of `FdManager::get` and `del`, of `addEvent`'s lookup and of
`resizeContext`. `close` is the two steps `del` and `close_f`. A write behind the
end of `m_datas` sets `wild`, and nothing follows.

### ByteArray, ByteSequence, ByteCodec, ByteValues

An array is a record of its nodes' contents, `m_pos`, `m_size`, `m_capacity` and
the node `m_cur`, which may be null. A call is one action: arrays have no lock
and one user. A read or write that walks off the list sets `broken`; what is
read from memory nobody wrote is `Junk`. Variable-length integers are built of
groups of bits as in the code, with fewer bits in a group and fewer groups; the
fixed ones are sequences of bytes that are swapped or not.

### RequestMachine, ResponseMachine, HttpParser

The automata are tables from states and classes of characters to states and
actions, taken from the generated C++. `HttpParser` feeds them one character at
a time and ends a piece anywhere. A text handed to a callback is abstracted to
the part it is of, and to whether its beginning and its end are right. An offset is
where it was set, or that an earlier call set it; the bytes a call leaves of its piece
(`Remainders`) are none, fewer than the calls before it read, or as many: the asserts
and check()s at the end of `httpclient_parser_execute` tell no more apart. A check()
that fails makes `execute` move memory from before the buffer ("wild").

### TcpServer, HttpConnection, Servlets

`TcpServer`: the caller's `bind`, `start`, a second `bind` and `stop`; an accept
loop per socket, in the steps of the hooked `accept`; the closing task of
`stop()`, one socket and one call at a time; a backlog, clients and a limit of
descriptors. A fiber keeps its thread (`running`) until it waits or ends. A loop that
reads the `m_sock` of a closed Socket calls `accept(-1)`, and `FdManager::get(-1)` reads
in front of `m_datas` (`fd_manager.cpp:72`): `wild` is set and nothing follows. `missed`
has the loops that registered between the last cancel and `close_f`.

`HttpConnection`: a stream of units, a head or a piece of a body. `recv` and
`send` move any number of units, or fail; the loops of `Stream` keep `offset` and
`left` with the arithmetic of `size_t`. What `recvRequest` reads after the head lands
behind the end of the body's string: that is harmless as far as the string has
memory there, and anything ("wild") beyond, so the model takes both ways. `send` on a
session that the servlet has closed is `send(-1)`, with `FdManager::get(-1)` as above.

`Servlets`: the exact names, the globs in order, and every call that changes
either; `last` records the last call for each name and pattern. Which pattern
covers which name is a table.

### Settings, ListenerKeys, ThreadStart

A call of `Settings` is the list `todo` of the steps it still has to make: take or give
back a lock, log, or a turn of one of the two loops of `LogIniter`'s listener. A turn
`<<loop, j, k>>` is at the k-th call on the logger of the j-th name in the order of
`std::set<LogDefine>` (`NameSeq`); `Change` makes that call, `Turn` goes on to the next
name or loop. `Malformed` has the patterns in which `LogFormatter` finds an error:
`Logger::set_formatter` ignores them, while an appender takes them. So two calls interleave wherever the code's locks let them. `ListenerKeys`
reads and writes the shared `s_fun_id` in two steps under the variable's own lock.
`ThreadStart` has the object's owner and `run` step by step, and an object that may be
destroyed.

## Runs

| run | instance | distinct states | shows |
|---|---|---|---|
| `sched_workers` | 2 workers, a user fiber, 2 callbacks, one YieldToReady, no waits | 95,885 | no fiber is on two threads, no assertion fails, nothing is lost or run twice, threads leave only when all is done, every callback starts (`EveryCbStarts`) |
| `sched_waits` | 2 workers, 2 callbacks, two waits | 90,380 | the counters `stopping()` reads are exact; not all threads leave while a fiber waits; waiting follows `WakeSource` |
| `sched_pins` | a worker and the caller, tasks pinned to either | 40,471 | `stop()` returns |
| `sched_stack` | 2 workers, one wait | violation | see Findings |
| `timer_calls` | 2 threads, 2 timers, periods 1 and 5 | 2,596,069 | timer and queue agree, nothing is early, a new first timer tickles, `begin()` of an empty set needs a removal after the call's own look |
| `timer_due` | an idle thread, a clock set back once | 176,724 | what is due is handed out |
| `io_table` | 2 descriptors, 2 threads, 2 waiters, both directions, hangups | 454,126 | no event is lost, the assertion of `triggerEvent` fails only for what is `outdated`, `WakeSource` is implemented |
| `io_live` | the same, input only, no hangups | 15,880 | an event that stays ready is handed out (`ReadyIsHandled`) |
| `hook` | calls: 2 fibers, 1 descriptor number, recv, connect and sleep, 1 and 2 threads; tables: 2 fibers, 6 numbers | 1,326,892 | a fiber is woken once; no call is timed out by another call's timer; with one thread nobody waits on a closed descriptor or without the timeout it asked for; a socket's FdCtx is its own; a waiter is found in the table |
| `messages` | raw arrays, typed values, requests and responses in up to 3 pieces | 339,792 | an array is a flat sequence of bytes until it breaks, and breaks in three named ways only; values are read back; callbacks get their own part of a message, and a cut harms only the part it is in (`OnlyCutPartsSuffer`, `ResponseCuts`) |
| `server` | 2 addresses and a third, 1 and 2 threads; a connection with 2 requests | 28,844 | no descriptor outlives the server, clients are accepted, `stop()` ends the loops; what a servlet sees of a body and a client of a response is exact, requests are answered in order, a connection is closed once (`ClosedOnce`) and ends |
| `settings` | 2 threads, 2 loggers, 5 values, 3 calls; 3 listeners on 2 variables; a Thread object; 5 calls on the servlet table | 126,309 | loggers end as defined (`LoggersMatch`), calls end, keys are their owner's, a thread has what it needs before its constructor returns, dispatch follows the last calls (`MatchesLastCalls`) |

### Bounds

Two threads are enough for every race of two critical sections over one fiber,
timer or descriptor, and two waiters for one to take what was meant for the
other; most of the theorems below are for any number. `MaxReady` and `MaxWaits`
bound yields and waits per behaviour; one yield and two waits reach every point of
`run()`, and the second wait a thread that goes round after its idle fiber ended.
The clock runs from `Epoch` to `MaxTime`, with an `Hour` small enough to be set
back by more than it; a period of 5 does not come due in the bounded time and a
period of 1 does. `NeverEarly` assumes that no call stands still for more than an
hour, or `detectClockRollover` takes its old time for a clock set back;
`timer_calls` shows it with `MaxBack = 0`. `DueTimersFire` is about periods of at
least 1: a recurring timer of period 0 is due again when it is handed out.

* `FdTables`: `FirstContexts = 2` and the numbers 0 to 5 make the table of events
  grow several times (to 3, 4, 6 or 7 entries, one and a half times the number
  that did not fit); `DatasSize = 5`
  has numbers on both sides of its end; `MaxOpens = 4` lets each fiber get a
  number the other has had.
* `ByteArray`: nodes of 1 to 3 bytes (2 and 3 for the raw operations) and
  `MaxBytes = 6` give lists of several nodes, and sizes that are below, at and
  above each multiple of a node's.
  5-bit integers in groups of 2 bits need one, two or three groups, the last one
  partly filled, as the 32 bits of the code in groups of 7 do.
* `HttpParser`: `MaxPieces = 3` has a piece that neither begins nor ends the
  message. The automata's own states are all there, so messages are of any length.
* `TcpServer`: with `MaxFds = 1` one client uses all descriptors up. `HttpConnection`:
  two requests, bodies and responses of two units, so that every transfer may be
  partial; `MaxFails` bounds the calls that fail, and with them how far a loop
  goes back. With two threads the caller passes a new vector to every `bind`: the
  old one matters before `start()` only, when the second thread has nothing to run.
* `Servlets`: five calls on two names and three overlapping patterns let an entry
  be added, replaced, deleted and added again.
* `Settings`: three calls are two that race and one that sees the result; one of the
  values has a malformed formatter for a logger and for an appender.

`IOManager` and the calls of `Hook` need no bounds besides their sets.

The runs without a deadlock check are those in which the system may stop: a
process that aborted, a clock at its end, or nobody left who wants anything.

### Fairness

* `Scheduler`: weak fairness of each thread's next step and of `stop()`, since
  they are threads of the operating system; strong fairness of each waiter's
  wake-up, since events that never come are not the scheduler's business.
* `TimerManager`: weak fairness of the clock and of calls that have begun, strong
  fairness of an idle thread's next look at the timers, since it comes round to
  `idle()` again and again.
* `IOManager`: weak fairness of a thread at work on its array, strong fairness of
  `EpollWait`, for the same reason.
* `TcpServer`: strong fairness of each accept loop, the closing task, the handlers
  and the caller's retries: the scheduler's queue is served in order, so what is
  ready gets a thread if threads keep becoming free. Weak fairness of the kernel's
  reports and of addresses becoming free.
* `HttpConnection`: weak fairness of the handler. Nothing is assumed of the client.
* `Settings`: strong fairness of each thread's step: a lock that keeps becoming
  free is had in the end.

## Findings

* `sched_stack`: `YieldToHold` marks the fiber HOLD and then saves its context
  (`fiber.cpp:132-133`). It is registered with the event table by then, so
  another thread can switch to it while the first is still on its stack.

### Limits that properties state

Where the code keeps a promise only under a condition, the property has the
condition in it, and the model has the behaviours on both sides:

| property | condition | source |
|---|---|---|
| `WaiterHasThread`, `StopDrains` | no thread took a task after its idle fiber had ended (`StopDrains`: or no task is pinned); it leaves then without asking `stopping()`, whatever came of that task | `scheduler.cpp:195` |
| `UsesWakeSource` | no `YieldToReady` beside waits: `run()` reads a fiber's state after another thread may have run it on, takes that thread's READY for its own and queues the fiber twice; then it waits twice | `scheduler.cpp:162` |
| `EarlierTimerTickles`, `NeverEarly` | `detectClockRollover` has seen no rollover; a listing that waits an hour for the lock looks like one | `timer.cpp:178` |
| `StopReturns` | pinned tasks, but no `YieldToReady` beside them | `scheduler.cpp:138`, `161` |
| `EmptyBeginNeedsRemoval` | `begin()` of an empty set only if a timer was taken out between the two locks of this call of `listExpiredCb` | `timer.cpp:147`, `154` |
| `AssertNeedsOutdated` | `triggerEvent`'s assertion fails for a direction a hangup was widened to and nobody waits for, or for an event that left the table after `epoll_wait` reported it, and was not registered again | `iomanager.cpp:33`, `299` |
| `OneThreadCalls` | one thread; with two, a close or an expiry falls between a call's failed attempt and its registration | `hook.cpp:128`, `356` |
| `AssertNeedsReuse` | `addEvent`'s assertion fails only where two calls meet at a number closed after one of them was made | `hook.cpp:147` |
| `TablesKept` (`OwnFdCtx`) | up to the first descriptor number behind the end of `m_datas` | `fd_manager.cpp:80` |
| `TablesKept` (`WaiterInTable`) | no two fibers find the table too small at one time | `iomanager.cpp:97` |
| `BreaksOnlyWhen` | a write for which `addCapacity` counts a node too few (the bytes that need the last node are no more than were free before), a read of no byte with no current node: these always break; a file written from the middle of a node with less than a node's worth left: may | `bytearray.cpp:410`, `428`, `469` |
| `ReadsBack` | up to the first string written with a varint length | `bytearray.cpp:282` |
| `OnlyCutPartsSuffer` | the part in which a piece of a request ends is not whole | `http11_parser.rl:44` |
| `ResponseCuts` | the part of a response in which its first piece ends is not whole; a piece without a NUL behind it, and a second piece that leaves fewer bytes than the first had, fail an assertion | `httpclient_parser.rl.cpp:106`, `3293` |
| `LoopsExact` | until a `recv` has returned -1, which `size_t` makes a great length; a body is zeros and then what came with the head, and the rest of it lies behind the string | `stream.cpp:9`, `http_session.cpp:53`, `62` |
| `ConnectionEnds` | the handler may end with the process: by SIGPIPE, behind a body's string, or with `send(-1)` after a servlet closed the session | `socket.cpp:208`, `fd_manager.cpp:72` |
| `RequestsAnswered` | clients that wait for each answer; up to a failing `recv`, and as long as the handler has not got out of bounds | `http_session.cpp:40`, `62` |
| `OpenIsOwned`, `StopEndsLoops` | no bind failed after `start()` | `tcp_server.cpp:55` |
| `StopEndsLoops` | with two threads, the loop did not register between the last cancel and `close_f`, and none called `accept` on a closed Socket | `tcp_server.cpp:66`, `fd_manager.cpp:72` |
| `ClientsAccepted` | accept loops out of descriptors do not hold all threads | `tcp_server.cpp:73` |
| `LoggersMatch` | no two calls of `set_value` overlapped; a malformed formatter leaves the logger its old one | `config.h:290`, `log.cpp:392` |
| `CallsEnd` | the definition of the root logger does not change, and no value keeps one definition and changes another | `log.cpp:409` |
| `KeyIsOwn` | no two variables of a type were given listeners at one time | `config.h:298` |
| `HandedOver` | `sem_wait` was not interrupted | `thread.cpp:25` |

## Theorems

All are for arbitrary constants under the named assumptions of the modules. An
invariant is proved by an inductive one that implies it, with a lemma per action or
kind of action.

`SchedulerProofs`, `SchedulerWorkProofs`:

* `CountersCorrect`: the type invariant, `ActiveCountExact`, `PendingCovers`.
  `CountInv` adds `OwnerInv` (which threads are off until `start()` or `stop()` sets
  them going) and `CurInv` (from `swapIn` on, `run()` has a fiber), and that finitely
  many fibers wait. A thread moves between labels, and `GotoCount` says what that
  does to the number of threads at a set of labels.
* `CallbacksConserved`: `CbConserved`. `CbInv` adds `OneOfTwo`, that an entry has a
  fiber or a callback and a thread holds a callback only where it has just taken one.
  The lemmas count the entries for one callback when the queue grows or shrinks.
* `WaitersAreServed`, `StopLeavesNothing`: `WaiterHasThread`, and what is left of
  `StopDrains` when fibers wait and tasks are pinned. `ThreadInv` says where threads
  can be at each step of the owner's `stop()`; `LeaveInv` that a thread whose idle
  fiber has ended only leaves, that while a fiber waits some thread has not read a
  pending count of 0, and that the last thread to ask `stopping()` saw an empty queue.
* `PlainAssertsHold`, `PlainStacksAreOwn`, `PlainSchedulerDrains`: `AssertsHold`,
  `OneThreadPerFiber` and `StopDrains`, if no fiber waits or is scheduled while under
  way, which is what `sched_stack` shows to be necessary. `PlainInv` gives every fiber
  one place (the queue, a thread's hands, a stack, or nowhere) and the state and context
  that belong to it; `LateInv` is what a thread that took a task late still guarantees
  when no task is pinned.
* `WaitsAreWakeSource`: `UsesWakeSource`, if no fiber calls `YieldToReady` or is
  scheduled while under way (see Limits). Every step is one of `WakeSource` or leaves
  the waiters and the count alone. The step that could fail is a fiber that starts to
  wait while it is waiting; `TurnInv` excludes it: a fiber waits, or is queued once, or
  is in one thread's hands (`OneTurn`), and has no turn once it has ended (`TurnState`).
  Together with `Refinement` below it says that the scheduler needs of waiting and
  waking only what the event table does.

The lemmas that count threads and entries have the facts about finite sets they use as
a hypothesis (`FiniteSetFacts`), which `FiniteSetsAreCounted` proves from the library;
no theorem has it as an assumption.

`TimerManagerProofs`:

* `TimersConsistent`: `CbIffQueued`, `StartNeverWraps`, `DeadStaysDead`. `CallInv`
  adds what a thread knows about the timer it has made and not yet inserted,
  `TimerInv` that only inserted timers are queued.
* `SleepersAreTickled`, `NothingIsEarly`: `EarlierTimerTickles` and the action property
  `NeverEarly`. `ClockInv` says that while the clock runs forward a listing uses a time
  that is past; `TickleInv` that `m_tickled` is set only when somebody was told to
  tickle. That the first timer is the earliest is `WFMin` on the order of timers.
* `EmptyBeginExplained`: `EmptyBeginNeedsRemoval`. `EmptyInv` says that whoever saw a
  timer and waits for the second lock finds the set not empty or was overtaken, and that
  a timer that was made, and neither cancelled nor handed out, has its callback.

`IOManagerProofs`:

* `NothingLost`: `EpollMatches` and `NoLostWakeup`. `TableInv` is made of `Types`,
  `Locks` (who holds a descriptor's lock, and at which step), `Armed` (the kernel is
  asked for what the table holds) and `OnItsWay` (what is ready and registered is in
  the ready list or in some thread's array).
* `Refinement`: every step of the table is a step of `WakeSource` or changes nothing
  in it.
* `PendingCorrect`: type invariant and `PendingExact`. The count of `WakeSource` is
  exact (`NextCountInv`), and `Refinement` carries that over to the real one.
* `AssertExplained`: `AssertNeedsOutdated`, with hangups and both directions.
  `EntriesExcused` says of every direction that an entry of a thread's array stands for
  that it is registered or `outdated`, and of a thread at `trigger` the same of what it
  has still to trigger.

`HookProofs`:

* `WokenOnceAlways`: `WokenOnce`. The event, the timeout and `close` all take the fiber
  out of the table (`TriggerWakesOne`); a fiber in `sleep` has no entry there, and
  `WakeInv` adds that its timer, the timer's callback and its place in the queue
  exclude each other (`Sleepers`).
* `TimeoutsAreOwn`: `TimeoutIsOwn`; `OwnInv` adds that a callback whose weak pointer is
  alive is of a call whose own timer expired.
* `AssertOnlyOnReuse`: `AssertNeedsReuse`; `ReuseInv` adds that two calls at one number
  wait for different events, unless one is from before a close.
* `OneThreadCallsEnd`: `OneThreadCalls`. `CallInv` holds for any number of threads (who
  waits for an event is in the table, and a live callback is of the call its fiber
  makes); `OneInv` is what one thread adds: one fiber or callback is in the middle of
  something (`OneRuns`), so nothing falls between a failed attempt and its
  registration, and a call with a timeout has its timer or its callback
  (`TimeoutComes`).
* `FdCtxIsOwn`, `WaiterIsFound`, `TablesAreKept`: `OwnFdCtx` and `WaiterInTable`, for
  `FdTables` and for the composition. `DatasInv` says that a number is one fiber's until
  `close_f`, and that an entry is empty or its owner's in between; `TableInv` that
  entries stay where they are (`ResizeKeeps`) as long as at most one fiber is about to
  resize.

`ServerProofs`:

* `DescriptorClosedOnce`: `ClosedOnce`; `CloseInv` ties the number of calls of `close_f`
  to `m_sock`.
* `LoopsAreExact`: `LoopsExact`, for requests, bodies and responses of any number and
  length, cut into calls in any way. `WireInv` says that what is on the wire is a
  contiguous piece of what the client sends, up to the last unit sent; `ExactInv` that
  the body is filled up to `left`, in the string up to `buffer` and behind it from
  there, that the next unit on the wire is the next one missing, and that the response
  has gone out up to `offset`; `WildInv` that memory is left only behind a string or
  with a closed session.
* `OpenSocketsAreOwned`: `OpenIsOwned`. `OwnInv` has a part for each of the caller, the
  vector of sockets, the accept loops, the closing task and the network, and that a
  socket with a loop is still in the vector or is held by that loop.

`SettingsProofs`:

* `LoggersAreAsDefined`: `LoggersMatch`, for any threads, names, values and calls.
  A logger is rebuilt in many steps, with other threads' between them, so `LogsInv` says
  how far the listener has come. What a thread has still to do is a `SetPlan` (log, at
  most one turn of a loop, unlock, lock, assign) if it is between comparison and
  assignment, else a `PlainPlan` without these. While no two calls have overlapped, one
  thread at most has a `SetPlan`, and `Progress` relates its turn to every logger: those
  whose turn is over are as the new value says, those whose turn will come as the old
  one says, and the one whose turn it is has had the first k - 1 calls (`Rebuilt`,
  `Silenced`). The steps are counted from the end of the plan, where they do not move
  when others are put in front.
* `KeysAreOwn`: `KeyIsOwn`. Until calls overlap, `KeysInv` says that at most one thread is
  in `add_listener` (`OneAdds`), that the counter is behind the calls by what is still
  to be stored (`Counts`), and that every key given out is below the next one and still
  its owner's (`Given`).
* `ConstructorHandsOver`: `HandedOver`. `StartInv` says that until `run` notifies the
  semaphore is 0 and the object is there, and that `run` has done what it passed.
* `DispatchFollowsCalls`: `MatchesLastCalls`. `GlobInv` says that `m_globs` has one entry
  for each registered pattern, that of its last call, in the order of the calls, so
  that the first entry that matches is the oldest.

`ByteArrayProofs`:

* `ArrayConsistent`: the type invariant and `CurMatchesPos`, for nodes of any size.
  `Good` has what the capacity and the nodes have to do with each other; the arithmetic
  of a position's node and offset is in `DivMod`, `NodeStart` and `CurAtMatches`, and
  there is one lemma per kind of call.

The assumptions on constants are named in the modules or are hypotheses of the theorem:
that bounds and descriptor numbers are natural numbers, that threads, callbacks and
addresses are finitely many (`ThreadsAssumption`, `TasksAssumption`, `AddrsAssumption`),
that the clock is far from 1970 (`ClockAssumption`), that the first table of events has
at least two entries, that "none" is no thread's name, that each logger name has one
place in the order and a value one definition at most for it (`LoggersAssumption`).

Model-checked only:

* liveness (`EveryCbStarts`, `StopReturns`, `DueTimersFire`, `ReadyIsHandled`,
  `ClientsAccepted`, `StopEndsLoops`, `RequestsAnswered`, `ConnectionEnds`, `CallsEnd`),
  which the prover does not do;
* `FlatSpec`, `BreaksOnlyWhen` and `ReadsBack`, where a result is computed by recursion
  over bytes or nodes, which needs induction over data;
* `OnlyCutPartsSuffer` and `ResponseCuts`: the automata are tables of some hundred
  states, and TLC goes through all of them.

Proved only: the type invariants of `Scheduler`, `TimerManager`, `IOManager` and
`ByteArray`, `PendingCovers`, `StartNeverWraps`, `DeadStaysDead`, `EpollMatches`,
`PendingExact` and `CurMatchesPos`. The theorems hold for every instance, so no run
repeats them. The types of the other modules are conjuncts of one of their checked
properties.

## Not modelled

* `Address`: name resolution, interface lists and printing are input and output;
  the mask functions are pure and of a few bits' work each.
* HTTP messages: maps of headers, parameters and cookies with getters, setters and
  printing, without shared state.
* Conversions between YAML and values, the formatting of log lines, the parsing of
  patterns, log files.
* Of `Socket`: `connect` and the getters, options, `sendto` and `recvfrom`, which hand
  system calls through.
* Of `Thread`: `SetName` and `GetThis`. Mutexes, spinlocks and semaphores are what
  pthread promises.
* Of `IOManager`: the tickle pipe, which wakes nobody since `idle()` polls.
* Of the hooked calls: durations (they are in `TimerManager`), calls with hooks
  disabled, `dlsym`, changes of `tcp.connect.timeout`.
* Stack sizes, ucontext and memory are abstracted to whether a context may be
  entered. Failures of `epoll_create`, `pipe` and of memory end the process in the
  code and are not steps of the models.
