------------------------------ MODULE Scheduler ------------------------------
(***************************************************************************)
(* cool::Scheduler and cool::Fiber (scheduler.h, scheduler.cpp, fiber.cpp). *)
(*                                                                         *)
(* Worker threads, and the calling thread when use_caller is set, execute  *)
(* Scheduler::run: they take fibers and callbacks from one list under      *)
(* m_mutex, switch to them with swapIn, and look at the fiber's m_state    *)
(* when it switches back.  One action is one critical section of m_mutex,  *)
(* one read or write of a fiber's m_state, one change of an atomic counter *)
(* or one context switch, so that every interleaving of two threads over a *)
(* fiber is there.                                                         *)
(*                                                                         *)
(* A fiber that blocks does what hook.cpp does: it leaves a Fiber::ptr to  *)
(* itself in a wake source (IOManager::addEvent) and calls YieldToHold.    *)
(* With MaxWaits = 0 this is the plain Scheduler; with MaxWaits > 0 it is  *)
(* the scheduler under an IOManager, whose fd contexts are abstracted to   *)
(* the set "waiting".                                                      *)
(***************************************************************************)
EXTENDS Naturals, FiniteSets, Sequences, Functions

CONSTANTS Workers,     \* the threads start() creates (m_threads)
          Caller,      \* the thread that owns the scheduler and calls stop()
          UseCaller,   \* use_caller: Caller runs the loop too, inside stop()
          UserFibers,  \* Fiber objects the user makes, keeps and schedules
          CbFibers,    \* Fiber objects run() makes for callbacks
          Cbs,         \* callbacks, each scheduled at most once
          Pins,        \* the values users pass as schedule's thread_id
          MaxReady,    \* bound: YieldToReady calls
          MaxWaits,    \* bound: waits on a wake source
          Resubmit,    \* may the user schedule a fiber it scheduled before?
          AnyThread, None    \* thread_id = -1, the null pointer

RunThreads == Workers \cup (IF UseCaller THEN {Caller} ELSE {})
Fibers == UserFibers \cup CbFibers

ASSUME ThreadsAssumption ==
  /\ IsFiniteSet(Workers) /\ Caller \notin Workers
  /\ UseCaller \in BOOLEAN /\ RunThreads # {}
  /\ AnyThread \notin RunThreads /\ Pins \subseteq RunThreads \cup {AnyThread}
ASSUME TasksAssumption ==
  /\ UserFibers \cap CbFibers = {} /\ UserFibers \cap Cbs = {}
  /\ None \notin Fibers \cup Cbs
  /\ IsFiniteSet(Cbs) /\ IsFiniteSet(CbFibers)
  /\ Cardinality(CbFibers) >= Cardinality(Cbs)  \* `new Fiber' never runs out
ASSUME BoundsAssumption ==
  MaxReady \in Nat /\ MaxWaits \in Nat /\ Resubmit \in BOOLEAN

VARIABLES
  m_fibers,               \* the run queue, a list of FiberAndThread
  m_active_thread_count,
  m_stop, m_autostop,
  m_pendingEventCount,    \* IOManager's count of registered events
  waiting,                \* fibers a wake source holds a Fiber::ptr to
  state,                  \* m_state of every fiber
  ctx,                    \* what the fiber's ucontext and stack really are
  pc,                     \* where each thread is in run()
  ft,                     \* run()'s local ft
  cb_fiber,               \* run()'s local cb_fiber
  idleTerm,               \* run()'s idle_fiber is TERM
  caller,                 \* where the owner is: user code or inside stop()
  given,                  \* history: what was passed to schedule()
  started,                \* history: how often each callback was started
  readies, waits,         \* YieldToReady and wait calls so far
  late,                   \* history: a thread took a task after its idle fiber ended
  failed                  \* the ASSERT that ended the process, or None

queue   == <<m_fibers, m_active_thread_count, m_stop, m_autostop>>
events  == <<m_pendingEventCount, waiting>>
fibers  == <<state, ctx>>
threads == <<pc, ft, cb_fiber, idleTerm>>
bounds  == <<given, started, readies, waits, late>>
vars    == <<queue, events, fibers, threads, caller, bounds, failed>>

FiberState == {"INIT", "HOLD", "EXEC", "TERM", "READY", "ERROR"}
Context    == {"fresh", "running", "suspended", "done"}
PC == {"off", "take", "taken", "body", "registered", "yield", "finish", "dec",
       "post", "sethold", "idle", "check2", "poll", "woke", "bodywoke",
       "exit"}

Task == [fiber: Fibers \cup {None}, cb: Cbs \cup {None},
         thread: RunThreads \cup {AnyThread}]
NoTask == [fiber |-> None, cb |-> None, thread |-> AnyThread]
FiberTask(f, thr) == [fiber |-> f, cb |-> None, thread |-> thr]
CbTask(c, thr)    == [fiber |-> None, cb |-> c, thread |-> thr]

Init ==
  /\ m_fibers = <<>> /\ m_active_thread_count = 0
  /\ m_stop = TRUE /\ m_autostop = FALSE
  /\ m_pendingEventCount = 0 /\ waiting = {}
  /\ state = [f \in Fibers |-> "INIT"]
  /\ ctx = [f \in Fibers |-> "fresh"]
  /\ pc = [t \in RunThreads |-> "off"]
  /\ ft = [t \in RunThreads |-> NoTask]
  /\ cb_fiber = [t \in RunThreads |-> None]
  /\ idleTerm = [t \in RunThreads |-> FALSE]
  /\ caller = "init"
  /\ given = {} /\ started = [c \in Cbs |-> 0]
  /\ readies = 0 /\ waits = 0 /\ late = FALSE
  /\ failed = None

-----------------------------------------------------------------------------
(* Helpers *)

\* A failed ASSERT ends the process.
Abort(where) ==
  /\ failed' = where
  /\ UNCHANGED <<queue, events, fibers, threads, caller, bounds>>

Goto(t, label) == pc' = [pc EXCEPT ![t] = label]

\* scheduleNoLock: every entry goes to the back of the list.
schedule(task) == m_fibers' = Append(m_fibers, task)

\* The fiber run() switched to: ft.fiber, or cb_fiber when ft held a callback.
Cur(t) == IF ft[t].fiber # None THEN ft[t].fiber ELSE cb_fiber[t]

\* Who owns a Fiber::ptr to f besides thread t.  A fiber that has started and
\* not finished owns one to itself: the local cur of MainFunc.
ReferencedBesides(t, f) ==
  \/ \E i \in DOMAIN m_fibers : m_fibers[i].fiber = f
  \/ \E u \in RunThreads \ {t} : ft[u].fiber = f \/ cb_fiber[u] = f
  \/ f \in waiting
  \/ ctx[f] \in {"running", "suspended"}

Free == {f \in CbFibers : /\ \A t \in RunThreads : ft[t].fiber # f /\ cb_fiber[t] # f
                          /\ \A t \in RunThreads : ~ReferencedBesides(t, f)}

Stopping == /\ m_autostop /\ m_stop
            /\ m_fibers = <<>> /\ m_active_thread_count = 0

-----------------------------------------------------------------------------
(* The owner: construct, start, schedule, stop *)

\* start() holds m_mutex until every Thread constructor has seen its thread run.
Start ==
  /\ caller = "init" /\ caller' = "user"
  /\ m_stop' = FALSE
  /\ pc' = [t \in RunThreads |-> IF t \in Workers THEN "take" ELSE "off"]
  /\ UNCHANGED <<m_fibers, m_active_thread_count, m_autostop, events, fibers,
                 ft, cb_fiber, idleTerm, bounds, failed>>

UserSchedulesCb(c, thr) ==
  /\ caller \in {"init", "user"}
  /\ c \notin given /\ given' = given \cup {c}
  /\ schedule(CbTask(c, thr))
  /\ UNCHANGED <<m_active_thread_count, m_stop, m_autostop, events, fibers,
                 threads, caller, started, readies, waits, late, failed>>

UserSchedulesFiber(f, thr) ==
  /\ caller \in {"init", "user"}
  /\ f \notin given \/ (Resubmit /\ Len(m_fibers) < Cardinality(UserFibers))
  /\ given' = given \cup {f}
  /\ schedule(FiberTask(f, thr))
  /\ UNCHANGED <<m_active_thread_count, m_stop, m_autostop, events, state, ctx,
                 threads, caller, started, readies, waits, late, failed>>

\* stop(): both flags are up before anything can observe them together.
Stop ==
  /\ caller = "user"
  /\ m_autostop' = TRUE /\ m_stop' = TRUE
  /\ caller' = IF UseCaller THEN "check" ELSE "join"
  /\ UNCHANGED <<m_fibers, m_active_thread_count, events, fibers, threads,
                 bounds, failed>>

\* if (!stopping()) m_root_fiber->call(): the pending count is read first, then
\* Scheduler::stopping() looks at the queue under m_mutex.
StopChecksPending ==
  /\ caller = "check"
  /\ IF m_pendingEventCount = 0
       THEN caller' = "check2" /\ UNCHANGED pc
       ELSE caller' = "call" /\ Goto(Caller, "take")
  /\ UNCHANGED <<queue, events, fibers, ft, cb_fiber, idleTerm, bounds, failed>>

StopChecksQueue ==
  /\ caller = "check2"
  /\ IF Stopping
       THEN caller' = "join" /\ UNCHANGED pc
       ELSE caller' = "call" /\ Goto(Caller, "take")
  /\ UNCHANGED <<queue, events, fibers, ft, cb_fiber, idleTerm, bounds, failed>>

RootFiberReturns ==
  /\ caller = "call" /\ pc[Caller] = "exit"
  /\ caller' = "join"
  /\ UNCHANGED <<queue, events, fibers, threads, bounds, failed>>

Join ==
  /\ caller = "join" /\ \A w \in Workers : pc[w] = "exit"
  /\ caller' = "done"
  /\ UNCHANGED <<queue, events, fibers, threads, bounds, failed>>
-----------------------------------------------------------------------------
(* run(): take a task *)

\* Mutant: the scan skips every pinned task.
TakeableUnpinned(task, t) ==
  /\ task.thread = AnyThread
  /\ task.fiber # None => state[task.fiber] # "EXEC"

\* The scan of m_fibers under m_mutex: entries for another thread and fibers
\* that are executing are skipped, the first other one is taken.
Takeable(task, t) ==
  /\ task.thread \in {AnyThread, t}
  /\ task.fiber # None => state[task.fiber] # "EXEC"

\* m_fibers.erase(it).
Erase(s, i) == SubSeq(s, 1, i - 1) \o SubSeq(s, i + 1, Len(s))

\* Mutant: the entry is copied and not erased.
TakeKeeps(t) ==
  /\ pc[t] = "take"
  /\ \E i \in 1 .. Len(m_fibers) :
       /\ Takeable(m_fibers[i], t)
       /\ ft' = [ft EXCEPT ![t] = m_fibers[i]]
  /\ m_active_thread_count' = m_active_thread_count + 1
  /\ Goto(t, "taken")
  /\ UNCHANGED <<m_fibers, m_stop, m_autostop, events, fibers, cb_fiber,
                 idleTerm, caller, bounds, failed>>

Take(t) ==
  /\ pc[t] = "take"
  /\ \E i \in 1 .. Len(m_fibers) :
       /\ Takeable(m_fibers[i], t)
       /\ \A j \in 1 .. i - 1 : ~Takeable(m_fibers[j], t)
       /\ ft' = [ft EXCEPT ![t] = m_fibers[i]]
       /\ m_fibers' = Erase(m_fibers, i)
  /\ m_active_thread_count' = m_active_thread_count + 1
  /\ late' = (late \/ idleTerm[t])
  /\ Goto(t, "taken")
  /\ UNCHANGED <<m_stop, m_autostop, events, fibers, cb_fiber, idleTerm, caller,
                 given, started, readies, waits, failed>>

\* Mutant: run() returns without asking its idle fiber.
TakeNothingLeaves(t) ==
  /\ pc[t] = "take"
  /\ \A i \in 1 .. Len(m_fibers) : ~Takeable(m_fibers[i], t)
  /\ Goto(t, "exit")
  /\ UNCHANGED <<queue, events, fibers, ft, cb_fiber, idleTerm, caller, bounds,
                 failed>>

\* Nothing to take: run() returns once its idle fiber has, else it switches to
\* the idle fiber.
TakeNothing(t) ==
  /\ pc[t] = "take"
  /\ \A i \in 1 .. Len(m_fibers) : ~Takeable(m_fibers[i], t)
  /\ Goto(t, IF idleTerm[t] THEN "exit" ELSE "idle")
  /\ UNCHANGED <<queue, events, fibers, ft, cb_fiber, idleTerm, caller, bounds,
                 failed>>

\* Fiber::swapIn and the switch.  run()'s test for TERM and ERROR is always
\* true, so a finished fiber is switched to as well and falls off the end of
\* MainFunc.
Enter(t, f) ==
  IF state[f] = "EXEC" THEN Abort("swapIn")
  ELSE IF ctx[f] = "done" THEN Abort("MainFunc")
  ELSE /\ state' = [state EXCEPT ![f] = "EXEC"]
       /\ ctx' = [ctx EXCEPT ![f] = "running"]
       /\ Goto(t, "body")
       /\ UNCHANGED <<queue, events, ft, cb_fiber, idleTerm, caller,
                      bounds, failed>>

EnterFiber(t) ==
  /\ pc[t] = "taken" /\ ft[t].fiber # None
  /\ Enter(t, ft[t].fiber)

\* A callback runs in the thread's cb_fiber, reset(), or in a new Fiber.
EnterCb(t, f) ==
  /\ pc[t] = "taken" /\ ft[t].cb # None
  /\ IF cb_fiber[t] # None THEN f = cb_fiber[t] ELSE f \in Free
  /\ IF cb_fiber[t] # None /\ state[f] \notin {"TERM", "INIT", "ERROR"}
       THEN Abort("reset")
       ELSE /\ cb_fiber' = [cb_fiber EXCEPT ![t] = f]
            /\ state' = [state EXCEPT ![f] = "EXEC"]
            /\ ctx' = [ctx EXCEPT ![f] = "running"]
            /\ started' = [started EXCEPT ![ft[t].cb] = @ + 1]
            /\ ft' = [ft EXCEPT ![t] = NoTask]
            /\ Goto(t, "body")
            /\ UNCHANGED <<queue, events, idleTerm, caller, given, readies,
                           waits, late, failed>>

-----------------------------------------------------------------------------
(* What the fiber's own code does, on the thread's time *)

BodySchedulesCb(t, c, thr) ==
  /\ pc[t] = "body"
  /\ c \notin given /\ given' = given \cup {c}
  /\ schedule(CbTask(c, thr))
  /\ UNCHANGED <<m_active_thread_count, m_stop, m_autostop, events, fibers,
                 threads, caller, started, readies, waits, late, failed>>

\* addEvent without a callback, the first half of a blocking call.
addEvent(t) ==
  /\ pc[t] = "body" /\ waits < MaxWaits
  /\ IF state[Cur(t)] # "EXEC" THEN Abort("addEvent")
     ELSE /\ waits' = waits + 1
          /\ m_pendingEventCount' = m_pendingEventCount + 1
          /\ waiting' = waiting \cup {Cur(t)}
          /\ Goto(t, "registered")
          /\ UNCHANGED <<queue, fibers, ft, cb_fiber, idleTerm, caller, given,
                         started, readies, late, failed>>

\* The second half: m_state changes before the context is saved.
YieldToHold(t) ==
  /\ pc[t] = "registered"
  /\ state' = [state EXCEPT ![Cur(t)] = "HOLD"]
  /\ Goto(t, "yield")
  /\ UNCHANGED <<queue, events, ctx, ft, cb_fiber, idleTerm, caller,
                 bounds, failed>>

\* Mutant: the fiber puts itself into the queue before it switches out.
YieldToReadyEarly(t) ==
  /\ pc[t] = "body" /\ readies < MaxReady
  /\ readies' = readies + 1
  /\ state' = [state EXCEPT ![Cur(t)] = "READY"]
  /\ schedule(FiberTask(Cur(t), AnyThread))
  /\ Goto(t, "yield")
  /\ UNCHANGED <<m_active_thread_count, m_stop, m_autostop, events, ctx,
                 ft, cb_fiber, idleTerm, caller, given, started, waits, late, failed>>

YieldToReady(t) ==
  /\ pc[t] = "body" /\ readies < MaxReady
  /\ readies' = readies + 1
  /\ state' = [state EXCEPT ![Cur(t)] = "READY"]
  /\ Goto(t, "yield")
  /\ UNCHANGED <<queue, events, ctx, ft, cb_fiber, idleTerm, caller,
                 given, started, waits, late, failed>>

\* MainFunc: the callback returns or throws.
Finish(t) ==
  /\ pc[t] = "body"
  /\ \E s \in {"TERM", "ERROR"} : state' = [state EXCEPT ![Cur(t)] = s]
  /\ Goto(t, "finish")
  /\ UNCHANGED <<queue, events, ctx, ft, cb_fiber, idleTerm, caller,
                 bounds, failed>>

\* swapcontext saves the fiber's context and returns to run().
swapOut(t) ==
  /\ pc[t] \in {"yield", "finish"}
  /\ ctx' = [ctx EXCEPT ![Cur(t)] =
                IF pc[t] = "yield" THEN "suspended" ELSE "done"]
  /\ Goto(t, "dec")
  /\ UNCHANGED <<queue, events, state, ft, cb_fiber, idleTerm, caller,
                 bounds, failed>>

-----------------------------------------------------------------------------
(* run(): after swapIn has returned *)

\* Mutant: the decrement is missing.
DeactivateNever(t) ==
  /\ pc[t] = "dec"
  /\ Goto(t, "post")
  /\ UNCHANGED <<queue, events, fibers, ft, cb_fiber, idleTerm, caller, bounds,
                 failed>>

Deactivate(t) ==
  /\ pc[t] = "dec"
  /\ m_active_thread_count' = m_active_thread_count - 1
  /\ Goto(t, "post")
  /\ UNCHANGED <<m_fibers, m_stop, m_autostop, events, fibers, ft, cb_fiber,
                 idleTerm, caller, bounds, failed>>

\* Mutant: cb_fiber.reset() is missing.
RequeueKeeps(t) ==
  /\ pc[t] = "post" /\ state[Cur(t)] = "READY"
  /\ schedule(FiberTask(Cur(t), AnyThread))
  /\ ft' = [ft EXCEPT ![t] = NoTask]
  /\ Goto(t, "take")
  /\ UNCHANGED <<m_active_thread_count, m_stop, m_autostop, events, fibers,
                 cb_fiber, idleTerm, caller, bounds, failed>>

\* Mutant: the READY fiber is released and not scheduled.
RequeueDrops(t) ==
  /\ pc[t] = "post" /\ state[Cur(t)] = "READY"
  /\ cb_fiber' = [cb_fiber EXCEPT ![t] = None]
  /\ ft' = [ft EXCEPT ![t] = NoTask]
  /\ Goto(t, "take")
  /\ UNCHANGED <<queue, events, fibers, idleTerm, caller, bounds, failed>>

\* READY: back into the queue, for any thread.
Requeue(t) ==
  /\ pc[t] = "post" /\ state[Cur(t)] = "READY"
  /\ schedule(FiberTask(Cur(t), AnyThread))
  /\ cb_fiber' = [cb_fiber EXCEPT ![t] = None]
  /\ ft' = [ft EXCEPT ![t] = NoTask]
  /\ Goto(t, "take")
  /\ UNCHANGED <<m_active_thread_count, m_stop, m_autostop, events, fibers,
                 idleTerm, caller, bounds, failed>>

\* TERM or ERROR: a taken fiber is dropped, cb_fiber is kept for the next
\* callback.
Retire(t) ==
  /\ pc[t] = "post" /\ state[Cur(t)] \in {"TERM", "ERROR"}
  /\ IF ft[t].fiber = None
       THEN /\ state' = [state EXCEPT ![Cur(t)] = "INIT"]
            /\ ctx' = [ctx EXCEPT ![Cur(t)] = "fresh"]
       ELSE UNCHANGED <<state, ctx>>
  /\ ft' = [ft EXCEPT ![t] = NoTask]
  /\ Goto(t, "take")
  /\ UNCHANGED <<queue, events, cb_fiber, idleTerm, caller, bounds,
                 failed>>

\* Any other state: run() will write HOLD, whatever happens to the fiber
\* between this test and the write.
SeesHold(t) ==
  /\ pc[t] = "post" /\ state[Cur(t)] \notin {"READY", "TERM", "ERROR"}
  /\ Goto(t, "sethold")
  /\ UNCHANGED <<queue, events, fibers, ft, cb_fiber, idleTerm, caller, bounds,
                 failed>>

\* The write, and the release of ft or cb_fiber, which destroys the fiber when
\* nobody else has a pointer to it.
SetHold(t) ==
  /\ pc[t] = "sethold"
  /\ LET f == Cur(t) IN
       IF f \in CbFibers /\ ~ReferencedBesides(t, f) THEN Abort("destructor")
       ELSE /\ state' = [state EXCEPT ![f] = "HOLD"]
            /\ cb_fiber' = IF ft[t].fiber = None
                              THEN [cb_fiber EXCEPT ![t] = None] ELSE cb_fiber
            /\ ft' = [ft EXCEPT ![t] = NoTask]
            /\ Goto(t, "take")
            /\ UNCHANGED <<queue, events, ctx, idleTerm, caller, bounds,
                           failed>>

-----------------------------------------------------------------------------
(* run(): nothing to take *)

\* Mutant: IOManager::stopping ignores the pending count.
IdleIgnoresPending(t) ==
  /\ pc[t] = "idle"
  /\ Goto(t, "check2")
  /\ UNCHANGED <<queue, events, fibers, ft, cb_fiber, idleTerm, caller, bounds,
                 failed>>

\* idle(): IOManager::stopping reads the pending count ...
IdleChecksPending(t) ==
  /\ pc[t] = "idle"
  /\ Goto(t, IF m_pendingEventCount = 0 THEN "check2" ELSE "poll")
  /\ UNCHANGED <<queue, events, fibers, ft, cb_fiber, idleTerm, caller, bounds,
                 failed>>

\* ... and then the queue, under m_mutex.  idle() returns when both allow it.
IdleChecksQueue(t) ==
  /\ pc[t] = "check2"
  /\ idleTerm' = [idleTerm EXCEPT ![t] = Stopping]
  /\ Goto(t, IF Stopping THEN "take" ELSE "poll")
  /\ UNCHANGED <<queue, events, fibers, ft, cb_fiber, caller, bounds, failed>>

\* Mutant: the pending count falls before the fiber is queued, and after.
WakeDecrements(t, f) ==
  /\ f \in waiting
  /\ \/ pc[t] = "poll" /\ Goto(t, "woke")
     \/ pc[t] = "body" /\ Cur(t) # f /\ Goto(t, "bodywoke")
  /\ waiting' = waiting \ {f}
  /\ schedule(FiberTask(f, AnyThread))
  /\ m_pendingEventCount' = m_pendingEventCount - 1
  /\ UNCHANGED <<m_active_thread_count, m_stop, m_autostop, fibers, ft,
                 cb_fiber, idleTerm, caller, bounds, failed>>

\* A wake source puts the fiber it holds into the queue: idle() for an event
\* epoll reported, or the code of another fiber through cancelEvent.
Wake(t, f) ==
  /\ f \in waiting
  /\ \/ pc[t] = "poll" /\ Goto(t, "woke")
     \/ pc[t] = "body" /\ Cur(t) # f /\ Goto(t, "bodywoke")
  /\ waiting' = waiting \ {f}
  /\ schedule(FiberTask(f, AnyThread))
  /\ UNCHANGED <<m_active_thread_count, m_stop, m_autostop,
                 m_pendingEventCount, fibers, ft, cb_fiber, idleTerm, caller,
                 bounds, failed>>

WakeDone(t) ==
  /\ pc[t] \in {"woke", "bodywoke"}
  /\ m_pendingEventCount' = m_pendingEventCount - 1
  /\ Goto(t, IF pc[t] = "woke" THEN "poll" ELSE "body")
  /\ UNCHANGED <<queue, waiting, fibers, ft, cb_fiber, idleTerm, caller, bounds,
                 failed>>

\* The idle fiber switches back to run().  epoll_wait polls: stopping() takes
\* its timeout by value and leaves the wait at 0.
LeaveIdle(t) ==
  /\ pc[t] = "poll"
  /\ Goto(t, "take")
  /\ UNCHANGED <<queue, events, fibers, ft, cb_fiber, idleTerm, caller, bounds,
                 failed>>

-----------------------------------------------------------------------------
Run(t) ==
  \/ Take(t) \/ TakeNothing(t) \/ EnterFiber(t)
  \/ (\E f \in CbFibers : EnterCb(t, f))
  \/ (\E c \in Cbs, thr \in Pins : BodySchedulesCb(t, c, thr))
  \/ addEvent(t) \/ YieldToHold(t) \/ YieldToReady(t) \/ Finish(t)
  \/ swapOut(t) \/ Deactivate(t) \/ Requeue(t) \/ Retire(t)
  \/ SeesHold(t) \/ SetHold(t)
  \/ IdleChecksPending(t) \/ IdleChecksQueue(t) \/ LeaveIdle(t)
  \/ (\E f \in Fibers : Wake(t, f)) \/ WakeDone(t)

User ==
  \/ Start \/ Stop
  \/ (\E c \in Cbs, thr \in Pins : UserSchedulesCb(c, thr))
  \/ (\E f \in UserFibers, thr \in Pins : UserSchedulesFiber(f, thr))

StopStep == StopChecksPending \/ StopChecksQueue \/ RootFiberReturns \/ Join

OnStack(t) == pc[t] \in {"body", "registered", "yield", "finish", "bodywoke"}

\* No two threads are ever on the stack of the same fiber (fiber.cpp:102-112).
OneThreadPerFiber ==
  \A t, u \in RunThreads :
    t # u /\ OnStack(t) /\ OnStack(u) => Cur(t) # Cur(u)

\* The process goes on: no ASSERT has failed, and no stack is shared, after
\* which C++ gives no meaning to what follows.
Alive == failed = None /\ OneThreadPerFiber

Terminated == caller = "done" /\ UNCHANGED vars

Next == \/ Alive /\ (User \/ StopStep \/ \E t \in RunThreads : Run(t))
        \/ Terminated

Spec == Init /\ [][Next]_vars

\* The operating system runs every thread; whoever calls stop() keeps running;
\* an event a fiber waits for happens and epoll reports it.
FairSpec ==
  /\ Spec
  /\ \A t \in RunThreads : WF_vars(Alive /\ Run(t))
  /\ WF_vars(Alive /\ StopStep)
  /\ \A f \in Fibers : SF_vars(Alive /\ \E t \in RunThreads : Wake(t, f))

-----------------------------------------------------------------------------
(* Properties *)

TypeOK ==
  /\ m_fibers \in Seq(Task) /\ m_active_thread_count \in Nat
  /\ m_stop \in BOOLEAN /\ m_autostop \in BOOLEAN
  /\ m_pendingEventCount \in Nat /\ waiting \subseteq Fibers
  /\ state \in [Fibers -> FiberState] /\ ctx \in [Fibers -> Context]
  /\ pc \in [RunThreads -> PC] /\ ft \in [RunThreads -> Task]
  /\ cb_fiber \in [RunThreads -> CbFibers \cup {None}]
  /\ idleTerm \in [RunThreads -> BOOLEAN]
  /\ caller \in {"init", "user", "check", "check2", "call", "join", "done"}
  /\ given \subseteq Cbs \cup UserFibers /\ started \in [Cbs -> Nat]
  /\ readies \in 0 .. MaxReady /\ waits \in 0 .. MaxWaits /\ late \in BOOLEAN
  /\ failed \in {None, "swapIn", "MainFunc", "reset", "addEvent", "destructor"}

\* The number of threads at one of these points of run().
CountAt(labels) == Cardinality({t \in RunThreads : pc[t] \in labels})

ActiveLabels == {"taken", "body", "registered", "yield", "finish", "bodywoke", "dec"}

\* stopping() trusts m_active_thread_count: it is exactly the number of threads
\* between taking a task (scheduler.cpp:150) and giving it up (161, 179).
ActiveCountExact ==
  m_active_thread_count = CountAt(ActiveLabels)

\* stopping() trusts m_pendingEventCount too: it never falls below the number of
\* registered fibers plus the wake-ups still to be subtracted.
PendingCovers ==
  m_pendingEventCount >=
    Cardinality(waiting) + CountAt({"woke", "bodywoke"})

\* None of the ASSERTs of Fiber::swapIn, reset, MainFunc, ~Fiber and of
\* IOManager::addEvent fails.
AssertsHold == failed = None

\* A callback given to schedule() is in the queue, in the hands of one thread,
\* or has been started, exactly one of these and only once.
CbConserved ==
  \A c \in Cbs :
      Cardinality({i \in DOMAIN m_fibers : m_fibers[i].cb = c})
    + Cardinality({t \in RunThreads : ft[t].cb = c})
    + started[c]
    = IF c \in given THEN 1 ELSE 0

\* When stop() returns, all the work is done: nothing is queued, no fiber is
\* suspended or waiting, and every callback that was scheduled has run.  The
\* exception are pinned tasks, and only if a thread took another task after its
\* idle fiber had ended: it leaves then without asking stopping() again, and
\* what that task pinned to a thread that has left stays (scheduler.cpp:195).
StopDrains ==
  caller = "done" /\ (late => Pins = {AnyThread}) =>
    /\ m_fibers = <<>> /\ waiting = {}
    /\ \A f \in Fibers : ctx[f] # "suspended"
    /\ \A c \in given \cap Cbs : started[c] = 1

\* Threads leave one by one during shutdown, but as long as a fiber waits for
\* an event some thread is still there to be woken (iomanager.cpp:249-252
\* reads the pending count and the queue at different moments), unless a thread
\* ran another fiber after its idle fiber had ended (scheduler.cpp:195).
WaiterHasThread ==
  waiting # {} /\ caller # "init" /\ ~late =>
    \E t \in RunThreads : pc[t] # "exit"

\* Once the threads are there, every callback given to schedule() is started,
\* whenever it comes: also while threads leave during shutdown.
EveryCbStarts ==
  \A c \in Cbs : c \in given /\ caller # "init" ~> started[c] = 1

\* stop() returns.
StopReturns == caller \in {"check", "join"} ~> caller = "done"
-----------------------------------------------------------------------------
(* What the scheduler relies on when fibers wait *)

Wakes == INSTANCE WakeSource WITH Places <- Fibers, Agents <- RunThreads,
           waking <- {t \in RunThreads : pc[t] \in {"woke", "bodywoke"}}

\* Fibers wait and are woken the way IOManager's event table does it: the set
\* "waiting" and the count behave as a WakeSource, which IOManager implements.
UsesWakeSource == Wakes!Spec
=============================================================================
