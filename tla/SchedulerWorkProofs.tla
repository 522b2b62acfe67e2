------------------------- MODULE SchedulerWorkProofs -------------------------
(***************************************************************************)
(* What becomes of the work given to the scheduler: a fiber is in one      *)
(* place at a time, and stop() leaves nothing behind.  At the end are the  *)
(* theorems of this module and of SchedulerProofs.                         *)
(***************************************************************************)
EXTENDS SchedulerProofs

-----------------------------------------------------------------------------
(* Threads leave *)

\* A step of run() that neither takes a task nor asks stopping().
Working(t) ==
  /\ pc[t] \notin {"off", "exit", "take", "idle", "check2"}
  /\ pc'[t] \notin {"off", "exit", "check2"}
  /\ UNCHANGED <<idleTerm, late>>

\* The steps of run() by what they mean for the shutdown.
LEMMA RunKinds ==
  ASSUME TypeOK, NEW t \in RunThreads, Run(t)
  PROVE  Working(t) \/ Take(t) \/ TakeNothing(t) \/ IdleChecksPending(t) \/ IdleChecksQueue(t)
<1> USE Zenon
<1>0. pc \in [RunThreads -> PC]
  BY DEF TypeOK
<1>3. CASE EnterFiber(t)
  BY <1>0, <1>3 DEF EnterFiber, Enter, Abort, Working, Goto, threads, bounds
<1>4. CASE \E f \in CbFibers : EnterCb(t, f)
  BY <1>0, <1>4 DEF EnterCb, Abort, Working, Goto, threads, bounds
<1>5. CASE \E c \in Cbs, thr \in Pins : BodySchedulesCb(t, c, thr)
  BY <1>0, <1>5 DEF BodySchedulesCb, Working, Goto, threads, bounds
<1>6. CASE addEvent(t)
  BY <1>0, <1>6 DEF addEvent, Abort, Working, Goto, threads, bounds
<1>7. CASE YieldToHold(t)
  BY <1>0, <1>7 DEF YieldToHold, Working, Goto, threads, bounds
<1>8. CASE YieldToReady(t)
  BY <1>0, <1>8 DEF YieldToReady, Working, Goto, threads, bounds
<1>9. CASE Finish(t)
  BY <1>0, <1>9 DEF Finish, Working, Goto, threads, bounds
<1>10. CASE swapOut(t)
  BY <1>0, <1>10 DEF swapOut, Working, Goto, threads, bounds
<1>11. CASE Deactivate(t)
  BY <1>0, <1>11 DEF Deactivate, Working, Goto, threads, bounds
<1>12. CASE Requeue(t)
  BY <1>0, <1>12 DEF Requeue, Working, Goto, threads, bounds
<1>13. CASE Retire(t)
  BY <1>0, <1>13 DEF Retire, Working, Goto, threads, bounds
<1>14. CASE SeesHold(t)
  BY <1>0, <1>14 DEF SeesHold, Working, Goto, threads, bounds
<1>15. CASE SetHold(t)
  BY <1>0, <1>15 DEF SetHold, Abort, Working, Goto, threads, bounds
<1>18. CASE LeaveIdle(t)
  BY <1>0, <1>18 DEF LeaveIdle, Working, Goto, threads, bounds
<1>19. CASE \E f \in Fibers : Wake(t, f)
  BY <1>0, <1>19 DEF Wake, Working, Goto, threads, bounds
<1>20. CASE WakeDone(t)
  BY <1>0, <1>20 DEF WakeDone, Working, Goto, threads, bounds
<1> QED BY <1>3, <1>4, <1>5, <1>6, <1>7, <1>8, <1>9, <1>10, <1>11, <1>12, <1>13, <1>14, <1>15, <1>18, <1>19, <1>20, ZenonT(30) DEF Run

\* Every thread has ended its idle fiber or was never started.
Gone == \A t \in RunThreads : idleTerm[t] \/ pc[t] = "off"

\* How far the threads are depends on how far the owner is.
ThreadInv ==
  /\ \A t \in RunThreads : /\ pc[t] = "exit" => idleTerm[t]
                           /\ idleTerm[t] => m_autostop /\ pc[t] # "off"
  /\ m_autostop => caller \notin {"init", "user"}
  /\ caller # "init" => \A w \in Workers : pc[w] # "off"
  /\ caller \in {"join", "done"} /\ UseCaller => pc[Caller] \in {"off", "exit"}
  /\ caller = "done" => \A w \in Workers : pc[w] = "exit"

\* After its idle fiber has ended a thread only leaves, unless it was late.  As
\* long as a fiber waits, one thread has not yet read a pending count of 0; and
\* the last thread to read stopping() saw an empty queue.
LeaveInv ==
  ~late =>
    /\ \A t \in RunThreads : idleTerm[t] => pc[t] \in {"take", "exit"}
    /\ waiting # {} => \E t \in RunThreads : ~idleTerm[t] /\ pc[t] \notin {"off", "check2"}
    /\ /\ Gone
       /\ \/ caller \in {"call", "join", "done"}
          \/ caller \in {"check", "check2"} /\ Workers # {}
       => m_fibers = <<>>

StopInv == CbInv /\ ThreadInv /\ LeaveInv

\* A step of run() keeps ThreadInv.
LEMMA RunThread ==
  ASSUME TypeOK, ThreadInv, NEW t \in RunThreads, Run(t)
  PROVE  ThreadInv'
<1> USE Zenon
<1>0. /\ pc \in [RunThreads -> PC] /\ idleTerm \in [RunThreads -> BOOLEAN]
      /\ Workers \subseteq RunThreads /\ (UseCaller => Caller \in RunThreads)
  BY DEF TypeOK, RunThreads
<1>1. /\ caller' = caller /\ m_autostop' = m_autostop /\ pc[t] # "off" /\ pc[t] # "exit"
      /\ \A u \in RunThreads \ {t} : pc'[u] = pc[u] /\ idleTerm'[u] = idleTerm[u]
  BY RunLocal
<1>2. ASSUME pc'[t] # "off", pc'[t] = "exit" => idleTerm'[t], idleTerm'[t] => m_autostop
      PROVE  ThreadInv'
  BY <1>0, <1>1, <1>2 DEF ThreadInv
<1>3. CASE Working(t)
  BY <1>0, <1>2, <1>3 DEF Working, ThreadInv
<1>4. CASE Take(t)
  BY <1>0, <1>2, <1>4 DEF Take, Goto, ThreadInv
<1>5. CASE TakeNothing(t)
  BY <1>0, <1>2, <1>5 DEF TakeNothing, Goto, ThreadInv
<1>6. CASE IdleChecksPending(t)
  BY <1>0, <1>2, <1>6 DEF IdleChecksPending, Goto, ThreadInv
<1>7. CASE IdleChecksQueue(t)
  BY <1>0, <1>2, <1>7 DEF IdleChecksQueue, Goto, Stopping
<1> QED BY <1>3, <1>4, <1>5, <1>6, <1>7, RunKinds

\* A step of run() keeps LeaveInv.
LEMMA RunLeave ==
  ASSUME FiniteSetFacts, CountInv, ThreadInv, LeaveInv, NEW t \in RunThreads, Run(t)
  PROVE  LeaveInv'
<1> USE Zenon
<1>0. /\ pc \in [RunThreads -> PC] /\ idleTerm \in [RunThreads -> BOOLEAN] /\ TypeOK
      /\ late \in BOOLEAN /\ IsFiniteSet(waiting) /\ PendingCovers /\ m_pendingEventCount \in Nat
  BY DEF CountInv, TypeOK
<1>1. /\ caller' = caller /\ pc[t] # "off" /\ pc[t] # "exit"
      /\ \A u \in RunThreads \ {t} : pc'[u] = pc[u] /\ idleTerm'[u] = idleTerm[u]
  BY <1>0, RunLocal
<1>2. CASE Working(t)
  <2>1. CASE late
    BY <1>2, <2>1 DEF Working, LeaveInv
  <2>2. CASE ~late
    <3>1. ~idleTerm[t] /\ ~idleTerm'[t] /\ pc'[t] \notin {"off", "check2"}
      BY <1>0, <1>2, <2>2 DEF Working, LeaveInv
    <3> QED BY <1>1, <2>2, <3>1 DEF LeaveInv, Gone
  <2> QED BY <2>1, <2>2
<1>3. CASE Take(t)
  <2>1. CASE late \/ idleTerm[t]
    BY <1>3, <2>1 DEF Take, LeaveInv
  <2>2. CASE ~late /\ ~idleTerm[t]
    <3>1. ~idleTerm'[t] /\ pc'[t] = "taken"
      BY <1>0, <1>3, <2>2 DEF Take, Goto
    <3> QED BY <1>1, <2>2, <3>1 DEF LeaveInv, Gone
  <2> QED BY <2>1, <2>2
<1>4. CASE TakeNothing(t)
  <2>1. /\ UNCHANGED <<m_fibers, waiting, late, idleTerm>>
        /\ pc[t] = "take" /\ pc'[t] = IF idleTerm[t] THEN "exit" ELSE "idle"
    BY <1>0, <1>4 DEF TakeNothing, Goto, queue, events, bounds
  <2> QED BY <1>0, <1>1, <2>1 DEF LeaveInv, Gone
<1>5. CASE IdleChecksPending(t)
  <2>1. /\ UNCHANGED <<m_fibers, waiting, late, idleTerm>>
        /\ pc[t] = "idle" /\ pc'[t] = IF m_pendingEventCount = 0 THEN "check2" ELSE "poll"
    BY <1>0, <1>5 DEF IdleChecksPending, Goto, queue, events, bounds
  <2>2. m_pendingEventCount = 0 => waiting = {}
    <3>1. CountAt({"woke", "bodywoke"}) \in Nat
      BY RunThreadsFinite, SubsetFinite, CountType DEF CountAt
    <3>2. Cardinality(waiting) \in Nat
      BY <1>0, CountType
    <3>3. m_pendingEventCount = 0 => Cardinality(waiting) = 0
      BY <1>0, <3>1, <3>2, SMT DEF PendingCovers
    <3> QED BY <1>0, <3>3, EmptyCount
  <2> QED BY <1>0, <1>1, <2>1, <2>2 DEF LeaveInv, Gone
<1>6. CASE IdleChecksQueue(t)
  <2>1. /\ UNCHANGED <<m_fibers, waiting, late>> /\ pc[t] = "check2"
        /\ idleTerm'[t] = Stopping /\ pc'[t] = IF Stopping THEN "take" ELSE "poll"
    BY <1>0, <1>6 DEF IdleChecksQueue, Goto, queue, events, bounds
  <2>2. CASE Stopping
    <3>1. m_fibers' = <<>>
      BY <2>1, <2>2 DEF Stopping
    <3> QED BY <1>0, <1>1, <2>1, <2>2, <3>1 DEF LeaveInv, Gone
  <2>3. CASE ~Stopping
    BY <1>0, <1>1, <2>1, <2>3 DEF LeaveInv, Gone
  <2> QED BY <2>2, <2>3
<1> QED BY <1>0, <1>2, <1>3, <1>4, <1>5, <1>6, RunKinds

\* A step of the owner keeps both.
LEMMA OwnerLeave ==
  ASSUME TypeOK, OwnerInv, ThreadInv, LeaveInv, User \/ StopStep
  PROVE  ThreadInv' /\ LeaveInv'
<1> USE Zenon
<1>0. /\ pc \in [RunThreads -> PC] /\ idleTerm \in [RunThreads -> BOOLEAN]
      /\ RunThreads = Workers \cup (IF UseCaller THEN {Caller} ELSE {}) /\ RunThreads # {}
      /\ Caller \notin Workers /\ UseCaller \in BOOLEAN
  BY ThreadsAssumption DEF TypeOK, RunThreads
<1>1. /\ UNCHANGED <<idleTerm, waiting>>
      /\ \A t \in RunThreads : pc'[t] = pc[t] \/ (pc[t] = "off" /\ pc'[t] \in {"off", "take"})
  <2>1. UNCHANGED idleTerm
    BY DEF User, Start, Stop, UserSchedulesCb, UserSchedulesFiber, StopStep, StopChecksPending,
         StopChecksQueue, RootFiberReturns, Join, threads
  <2>2. UNCHANGED waiting
    BY OwnerMoves
  <2>3. \A t \in RunThreads : pc'[t] = pc[t] \/ (pc[t] = "off" /\ pc'[t] \in {"off", "take"})
    BY OwnerMoves
  <2> QED BY <2>1, <2>2, <2>3
<1>2. late' = late
  BY DEF User, Start, Stop, UserSchedulesCb, UserSchedulesFiber, StopStep, StopChecksPending,
       StopChecksQueue, RootFiberReturns, Join, bounds
<1>a. ASSUME \/ caller' \in {"init", "user"}
             \/ Gone' /\ (caller' \in {"check", "check2"} => Workers # {}) => m_fibers' = <<>>
      PROVE  LeaveInv'
  BY <1>0, <1>1, <1>2, <1>a DEF LeaveInv, ThreadInv
<1>3. CASE Start
  <2>1. ThreadInv'
    BY <1>0, <1>1, <1>3 DEF Start, ThreadInv, OwnerInv
  <2> QED BY <1>3, <1>a, <2>1 DEF Start
<1>4. CASE Stop
  <2>1. ThreadInv'
    BY <1>0, <1>1, <1>4 DEF Stop, ThreadInv, OwnerInv, threads
  <2>2. caller = "user" /\ pc' = pc /\ \A t \in RunThreads : ~idleTerm[t]
    BY <1>0, <1>4 DEF Stop, ThreadInv, threads
  <2>3. caller' = IF UseCaller THEN "check" ELSE "join"
    BY <1>4 DEF Stop
  <2>4. Gone' => Workers = {} /\ UseCaller
    BY <1>0, <1>1, <2>2 DEF Gone, ThreadInv
  <2>5. Gone' /\ (caller' \in {"check", "check2"} => Workers # {}) => m_fibers' = <<>>
    BY <2>3, <2>4
  <2> QED BY <1>a, <2>1, <2>5
<1>5. CASE (\E c \in Cbs, thr \in Pins : UserSchedulesCb(c, thr)) \/ (\E f \in UserFibers, thr \in Pins : UserSchedulesFiber(f, thr))
  <2>1. caller \in {"init", "user"} /\ caller' = caller /\ UNCHANGED <<pc, m_autostop>>
    BY <1>5 DEF UserSchedulesCb, UserSchedulesFiber, threads
  <2> QED BY <1>0, <1>1, <1>a, <2>1 DEF ThreadInv
<1>6. CASE StopChecksPending
  <2>1. /\ caller = "check" /\ UNCHANGED <<m_fibers, m_autostop>> /\ UseCaller
        /\ \/ caller' = "check2" /\ pc' = pc
           \/ caller' = "call" /\ pc' = [pc EXCEPT ![Caller] = "take"]
    BY <1>6 DEF StopChecksPending, Goto, queue, OwnerInv
  <2>2. ThreadInv'
    BY <1>0, <1>1, <2>1, SMTT(20) DEF ThreadInv
  <2>3. CASE caller' = "check2" /\ pc' = pc
    BY <1>1, <1>2, <2>1, <2>2, <2>3 DEF LeaveInv, Gone
  <2>4. CASE caller' = "call" /\ pc' = [pc EXCEPT ![Caller] = "take"]
    <3>1. pc'[Caller] = "take" /\ ~idleTerm'[Caller] /\ Caller \in RunThreads
      BY <1>0, <1>1, <2>1, <2>4 DEF ThreadInv, OwnerInv
    <3>2. ~Gone'
      BY <3>1 DEF Gone
    <3> QED BY <1>a, <2>2, <3>2
  <2> QED BY <2>1, <2>3, <2>4
<1>7. CASE StopChecksQueue
  <2>1. /\ caller = "check2" /\ UNCHANGED <<m_fibers, m_autostop>> /\ UseCaller
        /\ \/ caller' = "join" /\ pc' = pc /\ m_fibers = <<>>
           \/ caller' = "call" /\ pc' = [pc EXCEPT ![Caller] = "take"]
    BY <1>7 DEF StopChecksQueue, Goto, queue, OwnerInv, Stopping
  <2>2. ThreadInv'
    BY <1>0, <1>1, <2>1, SMT DEF ThreadInv, OwnerInv
  <2>3. CASE caller' = "join" /\ pc' = pc /\ m_fibers = <<>>
    BY <1>a, <2>1, <2>2, <2>3
  <2>4. CASE caller' = "call" /\ pc' = [pc EXCEPT ![Caller] = "take"]
    <3>1. pc'[Caller] = "take" /\ ~idleTerm'[Caller] /\ Caller \in RunThreads
      BY <1>0, <1>1, <2>1, <2>4 DEF ThreadInv, OwnerInv
    <3>2. ~Gone'
      BY <3>1 DEF Gone
    <3> QED BY <1>a, <2>2, <3>2
  <2> QED BY <2>1, <2>3, <2>4
<1>8. CASE RootFiberReturns \/ Join
  <2>1. /\ UNCHANGED <<m_fibers, m_autostop, pc>>
        /\ \/ caller = "call" /\ pc[Caller] = "exit" /\ caller' = "join"
           \/ caller = "join" /\ caller' = "done" /\ \A w \in Workers : pc[w] = "exit"
    BY <1>8 DEF RootFiberReturns, Join, queue, threads
  <2>2. ThreadInv'
    BY <1>0, <1>1, <2>1 DEF ThreadInv
  <2>3. LeaveInv'
    BY <1>1, <1>2, <2>1 DEF LeaveInv, Gone
  <2> QED BY <2>2, <2>3
<1> QED BY <1>3, <1>4, <1>5, <1>6, <1>7, <1>8 DEF User, StopStep

\* The shutdown's invariant is inductive.
LEMMA NextStopInv ==
  ASSUME FiniteSetFacts
  PROVE  StopInv /\ [Next]_vars => StopInv'
<1> USE Zenon
<1> SUFFICES ASSUME StopInv, [Next]_vars PROVE StopInv'
  OBVIOUS
<1>0. CbInv /\ CountInv /\ TypeOK /\ OwnerInv /\ ThreadInv /\ LeaveInv
  BY DEF StopInv, CbInv, CountInv
<1>1. CbInv'
  BY <1>0, NextCbInv
<1>2. ThreadInv' /\ LeaveInv'
  <2>1. CASE User \/ StopStep
    BY <1>0, <2>1, OwnerLeave
  <2>2. ASSUME NEW t \in RunThreads, Run(t) PROVE ThreadInv' /\ LeaveInv'
    BY <1>0, <2>2, RunThread, RunLeave
  <2>3. CASE UNCHANGED vars
    <3>1. UNCHANGED <<pc, idleTerm, m_autostop, caller, late, waiting, m_fibers>>
      BY <2>3 DEF vars, queue, events, threads, bounds
    <3> QED BY <1>0, <3>1 DEF ThreadInv, LeaveInv, Gone
  <2> QED BY <2>1, <2>2, <2>3 DEF Next, Terminated
<1> QED BY <1>1, <1>2 DEF StopInv

\* The constructor establishes it: no thread runs.
LEMMA InitStopInv ==
  ASSUME FiniteSetFacts
  PROVE  Init => StopInv
<1> USE Zenon
<1> SUFFICES ASSUME Init PROVE StopInv
  OBVIOUS
<1>1. ThreadInv
  BY DEF Init, ThreadInv
<1>2. LeaveInv
  BY DEF Init, LeaveInv
<1> QED BY <1>1, <1>2, InitCbInv DEF StopInv

\* A callback that was given and is neither queued nor taken was started once.
LEMMA QuietCbStarted ==
  ASSUME FiniteSetFacts, CbInv, NEW c \in given \cap Cbs, m_fibers = <<>>,
         \A t \in RunThreads : pc[t] \in {"off", "exit"}
  PROVE  started[c] = 1
<1> USE Zenon
<1>1. PlacesOf(m_fibers, c) = {}
  BY SMT DEF PlacesOf
<1>2. HandsOn(c) = {}
  BY TasksAssumption DEF HandsOn, CbInv, OneOfTwo
<1>3. CbSum(c) = 1
  BY ConservedSum DEF CbInv
<1>4. started[c] \in Nat
  BY DEF CbInv, CountInv, TypeOK
<1>5. Cardinality(PlacesOf(m_fibers, c)) = 0 /\ Cardinality(HandsOn(c)) = 0
  BY <1>1, <1>2, EmptyCount
<1> QED BY <1>3, <1>4, <1>5, SMT DEF CbSum

-----------------------------------------------------------------------------
(* The plain scheduler: no waits, no fiber scheduled twice *)

\* No fiber is in two of: the queue, some thread's ft, some thread's cb_fiber.
OnePlace ==
  /\ \A i, j \in DOMAIN m_fibers :
       m_fibers[i].fiber # None /\ m_fibers[i].fiber = m_fibers[j].fiber => i = j
  /\ \A i \in DOMAIN m_fibers, t \in RunThreads :
       m_fibers[i].fiber # None =>
         ft[t].fiber # m_fibers[i].fiber /\ cb_fiber[t] # m_fibers[i].fiber
  /\ \A t, u \in RunThreads :
       /\ ft[t].fiber # None => cb_fiber[u] # ft[t].fiber
       /\ ft[t].fiber # None /\ ft[t].fiber = ft[u].fiber => t = u
       /\ cb_fiber[t] # None /\ cb_fiber[t] = cb_fiber[u] => t = u

\* A fiber that nobody runs: new or reset, or switched out by YieldToReady.
Resting(f) == \/ state[f] = "INIT" /\ ctx[f] = "fresh"
              \/ state[f] = "READY" /\ ctx[f] = "suspended"

\* What thread t's place in run() says about the fiber it runs.
Phase(t) ==
  /\ pc[t] \notin {"registered", "bodywoke", "woke", "sethold"}
  /\ ft[t].fiber # None => pc[t] \in {"taken", "body", "yield", "finish", "dec", "post"}
  /\ pc[t] = "taken" /\ ft[t].fiber # None => Resting(ft[t].fiber)
  /\ pc[t] = "body" => state[Cur(t)] = "EXEC" /\ ctx[Cur(t)] = "running"
  /\ pc[t] = "yield" => state[Cur(t)] = "READY" /\ ctx[Cur(t)] = "running"
  /\ pc[t] = "finish" => state[Cur(t)] \in {"TERM", "ERROR"} /\ ctx[Cur(t)] = "running"
  /\ pc[t] \in {"dec", "post"} =>
       \/ state[Cur(t)] = "READY" /\ ctx[Cur(t)] = "suspended"
       \/ state[Cur(t)] \in {"TERM", "ERROR"} /\ ctx[Cur(t)] = "done"
  /\ cb_fiber[t] # None
       /\ (ft[t].fiber # None \/ pc[t] \notin {"body", "yield", "finish", "dec", "post"})
     => state[cb_fiber[t]] = "INIT" /\ ctx[cb_fiber[t]] = "fresh"

QueueRests ==
  \A i \in DOMAIN m_fibers : m_fibers[i].fiber # None => Resting(m_fibers[i].fiber)

\* A suspended fiber is in the queue, about to be resumed or about to be queued.
Suspended ==
  \A f \in Fibers : ctx[f] = "suspended" =>
    \/ \E i \in DOMAIN m_fibers : m_fibers[i].fiber = f
    \/ \E t \in RunThreads : pc[t] \in {"taken", "dec", "post"} /\ Cur(t) = f

\* Where fibers are, and in which state, when no fiber waits and none is scheduled
\* while it is still on its way.
PlainInv ==
  /\ failed = None /\ waiting = {} /\ OnePlace /\ Suspended
  /\ QueueRests /\ \A t \in RunThreads : Phase(t)
  /\ \A f \in UserFibers \ given :
       /\ state[f] = "INIT" /\ ctx[f] = "fresh"
       /\ \A i \in DOMAIN m_fibers : m_fibers[i].fiber # f
       /\ \A t \in RunThreads : ft[t].fiber # f

\* No other thread has f, and the queue has not.
Mine(t, f) ==
  /\ \A i \in DOMAIN m_fibers : m_fibers[i].fiber # f
  /\ \A u \in RunThreads \ {t} : ft[u].fiber # f /\ cb_fiber[u] # f

\* A thread's fibers are its own.
LEMMA OwnFibers ==
  ASSUME OnePlace, NEW t \in RunThreads
  PROVE  /\ ft[t].fiber # None => Mine(t, ft[t].fiber) /\ cb_fiber[t] # ft[t].fiber
         /\ cb_fiber[t] # None => Mine(t, cb_fiber[t])
<1> USE Zenon
<1>1. ft[t].fiber # None => Mine(t, ft[t].fiber) /\ cb_fiber[t] # ft[t].fiber
  BY DEF OnePlace, Mine
<1>2. cb_fiber[t] # None => Mine(t, cb_fiber[t])
  BY DEF OnePlace, Mine
<1> QED BY <1>1, <1>2

\* A step that leaves the queue alone and changes only fibers of its own keeps
\* PlainInv, if its own thread is in order after it.
LEMMA LocalStep ==
  ASSUME PlainInv, TypeOK, CurInv, NEW t \in RunThreads,
         UNCHANGED <<m_fibers, given, failed, waiting>>,
         \A u \in RunThreads \ {t} : pc'[u] = pc[u] /\ ft'[u] = ft[u] /\ cb_fiber'[u] = cb_fiber[u],
         \A g \in Fibers : \/ state'[g] = state[g] /\ ctx'[g] = ctx[g]
                           \/ Mine(t, g) /\ g \notin UserFibers \ given,
         ft'[t].fiber # None => /\ Mine(t, ft'[t].fiber) /\ cb_fiber'[t] # ft'[t].fiber
                                /\ ft'[t].fiber \notin UserFibers \ given,
         cb_fiber'[t] # None => Mine(t, cb_fiber'[t]),
         Phase(t)',
         \A g \in Fibers : ctx'[g] = "suspended" =>
           \/ ctx[g] = "suspended" /\ ~(pc[t] \in {"taken", "dec", "post"} /\ Cur(t) = g)
           \/ pc'[t] \in {"taken", "dec", "post"} /\ Cur(t)' = g
  PROVE  PlainInv'
<1> USE Zenon
<1>0. /\ m_fibers \in Seq(Task) /\ ft \in [RunThreads -> Task]
      /\ cb_fiber \in [RunThreads -> CbFibers \cup {None}] /\ UserFibers \subseteq Fibers
  BY DEF TypeOK, Fibers
<1>t. ASSUME NEW i \in DOMAIN m_fibers PROVE m_fibers[i].fiber \in Fibers \cup {None}
  BY <1>0, QueueEntry
<1>1. OnePlace'
  <2>0. OnePlace /\ m_fibers' = m_fibers
    BY DEF PlainInv
  <2>k. ASSUME NEW u \in RunThreads, u # t
        PROVE  ft'[u].fiber = ft[u].fiber /\ cb_fiber'[u] = cb_fiber[u]
    <3>1. ft'[u] = ft[u] /\ cb_fiber'[u] = cb_fiber[u]
      BY <2>k
    <3> QED BY <3>1
  <2>n. ASSUME NEW u \in RunThreads, u # t
        PROVE  /\ ft'[t].fiber # None => ft[u].fiber # ft'[t].fiber /\ cb_fiber[u] # ft'[t].fiber
               /\ cb_fiber'[t] # None => ft[u].fiber # cb_fiber'[t] /\ cb_fiber[u] # cb_fiber'[t]
    <3>1. u \in RunThreads \ {t}
      BY <2>n
    <3> QED BY <3>1 DEF Mine
  <2>1. \A i, j \in DOMAIN m_fibers' :
          m_fibers'[i].fiber # None /\ m_fibers'[i].fiber = m_fibers'[j].fiber => i = j
    BY <2>0, ZenonT(30) DEF OnePlace
  <2>2. ASSUME NEW i \in DOMAIN m_fibers', NEW u \in RunThreads, m_fibers'[i].fiber # None
        PROVE  ft'[u].fiber # m_fibers'[i].fiber /\ cb_fiber'[u] # m_fibers'[i].fiber
    <3>1. CASE u = t
      BY <2>0, <2>2, <3>1 DEF Mine
    <3>2. CASE u # t
      <4>1. ft[u].fiber # m_fibers[i].fiber /\ cb_fiber[u] # m_fibers[i].fiber
        BY <2>0, <2>2 DEF OnePlace
      <4> QED BY <2>0, <2>k, <3>2, <4>1
    <3> QED BY <3>1, <3>2
  <2>3. ASSUME NEW v \in RunThreads, NEW u \in RunThreads
        PROVE  /\ ft'[v].fiber # None => cb_fiber'[u] # ft'[v].fiber
               /\ ft'[v].fiber # None /\ ft'[v].fiber = ft'[u].fiber => v = u
               /\ cb_fiber'[v] # None /\ cb_fiber'[v] = cb_fiber'[u] => v = u
    <3>1. CASE v = t /\ u = t
      BY <3>1
    <3>2. CASE v = t /\ u # t
      BY <2>k, <2>n, <3>2
    <3>3. CASE v # t /\ u = t
      BY <2>k, <2>n, <3>3
    <3>4. CASE v # t /\ u # t
      <4>1. /\ ft[v].fiber # None => cb_fiber[u] # ft[v].fiber
            /\ ft[v].fiber # None /\ ft[v].fiber = ft[u].fiber => v = u
            /\ cb_fiber[v] # None /\ cb_fiber[v] = cb_fiber[u] => v = u
        BY <2>0 DEF OnePlace
      <4> QED BY <2>k, <3>4, <4>1
    <3> QED BY <3>1, <3>2, <3>3, <3>4
  <2> QED BY <2>1, <2>2, <2>3 DEF OnePlace
<1>2. ASSUME NEW u \in RunThreads PROVE Phase(u)'
  <2>1. CASE u = t
    BY <2>1
  <2>2. CASE u # t
    <3>1. /\ pc'[u] = pc[u] /\ ft'[u] = ft[u] /\ cb_fiber'[u] = cb_fiber[u]
          /\ Phase(u) /\ Cur(u)' = Cur(u)
      BY <2>2 DEF PlainInv, Cur
    <3>2. \A g \in Fibers : g = ft[u].fiber \/ g = cb_fiber[u] => state'[g] = state[g] /\ ctx'[g] = ctx[g]
      BY <2>2, ZenonT(40) DEF Mine
    <3>3. /\ ft[u].fiber \in Fibers \cup {None} /\ cb_fiber[u] \in Fibers \cup {None}
          /\ Cur(u) = ft[u].fiber \/ Cur(u) = cb_fiber[u]
      BY <1>0 DEF Task, Fibers, Cur
    <3>4. ft[u].fiber # None => state'[ft[u].fiber] = state[ft[u].fiber] /\ ctx'[ft[u].fiber] = ctx[ft[u].fiber]
      BY <3>2, <3>3
    <3>5. cb_fiber[u] # None => state'[cb_fiber[u]] = state[cb_fiber[u]] /\ ctx'[cb_fiber[u]] = ctx[cb_fiber[u]]
      BY <3>2, <3>3
    <3>6. Cur(u) # None => state'[Cur(u)] = state[Cur(u)] /\ ctx'[Cur(u)] = ctx[Cur(u)]
      BY <3>3, <3>4, <3>5
    <3>7. pc[u] \in {"body", "yield", "finish", "dec", "post"} => Cur(u) # None
      BY TasksAssumption DEF CurInv, ActiveLabels
    <3>8. ft[u].fiber # None /\ Resting(ft[u].fiber) => Resting(ft[u].fiber)'
      BY <3>1, <3>4 DEF Resting
    <3>9. /\ pc'[u] \notin {"registered", "bodywoke", "woke", "sethold"}
          /\ ft'[u].fiber # None => pc'[u] \in {"taken", "body", "yield", "finish", "dec", "post"}
      BY <3>1 DEF Phase
    <3>10. pc'[u] = "taken" /\ ft'[u].fiber # None => Resting(ft[u].fiber)'
      BY <3>1, <3>8 DEF Phase
    <3>11. pc[u] \in {"body", "yield", "finish", "dec", "post"} =>
             state'[Cur(u)'] = state[Cur(u)] /\ ctx'[Cur(u)'] = ctx[Cur(u)]
      BY <3>1, <3>6, <3>7
    <3>12. /\ pc'[u] = "body" => state'[Cur(u)'] = "EXEC" /\ ctx'[Cur(u)'] = "running"
           /\ pc'[u] = "yield" => state'[Cur(u)'] = "READY" /\ ctx'[Cur(u)'] = "running"
      BY <3>1, <3>11 DEF Phase
    <3>13. pc'[u] = "finish" => state'[Cur(u)'] \in {"TERM", "ERROR"} /\ ctx'[Cur(u)'] = "running"
      BY <3>1, <3>11 DEF Phase
    <3>14. pc'[u] \in {"dec", "post"} =>
             \/ state'[Cur(u)'] = "READY" /\ ctx'[Cur(u)'] = "suspended"
             \/ state'[Cur(u)'] \in {"TERM", "ERROR"} /\ ctx'[Cur(u)'] = "done"
      BY <3>1, <3>11 DEF Phase
    <3>15. cb_fiber'[u] # None
             /\ (ft'[u].fiber # None \/ pc'[u] \notin {"body", "yield", "finish", "dec", "post"})
           => state'[cb_fiber'[u]] = "INIT" /\ ctx'[cb_fiber'[u]] = "fresh"
      BY <3>1, <3>5, ZenonT(30) DEF Phase
    <3> QED BY <3>9, <3>10, <3>12, <3>13, <3>14, <3>15 DEF Phase
  <2> QED BY <2>1, <2>2
<1>3. QueueRests'
  <2> SUFFICES ASSUME NEW i \in DOMAIN m_fibers, m_fibers[i].fiber # None
               PROVE  Resting(m_fibers[i].fiber)'
    BY DEF QueueRests, Resting
  <2>1. Resting(m_fibers[i].fiber)
    BY DEF PlainInv, QueueRests
  <2>2. m_fibers' = m_fibers /\ ~Mine(t, m_fibers[i].fiber)
    BY DEF Mine
  <2>3. /\ state'[m_fibers[i].fiber] = state[m_fibers[i].fiber]
        /\ ctx'[m_fibers[i].fiber] = ctx[m_fibers[i].fiber]
    BY <1>t, <2>2
  <2> QED BY <2>1, <2>2, <2>3 DEF Resting
<1>4. Suspended'
  <2> SUFFICES ASSUME NEW g \in Fibers, ctx'[g] = "suspended"
               PROVE  \/ \E i \in DOMAIN m_fibers' : m_fibers'[i].fiber = g
                      \/ \E u \in RunThreads : pc'[u] \in {"taken", "dec", "post"} /\ Cur(u)' = g
    BY DEF Suspended
  <2>1. CASE pc'[t] \in {"taken", "dec", "post"} /\ Cur(t)' = g
    BY <2>1
  <2>2. CASE ctx[g] = "suspended" /\ ~(pc[t] \in {"taken", "dec", "post"} /\ Cur(t) = g)
    <3>1. \/ \E i \in DOMAIN m_fibers : m_fibers[i].fiber = g
          \/ \E u \in RunThreads : pc[u] \in {"taken", "dec", "post"} /\ Cur(u) = g
      BY <2>2 DEF PlainInv, Suspended
    <3>2. ASSUME NEW u \in RunThreads \ {t} PROVE pc'[u] = pc[u] /\ Cur(u)' = Cur(u)
      BY DEF Cur
    <3>3. CASE \E i \in DOMAIN m_fibers : m_fibers[i].fiber = g
      BY <3>3
    <3>4. CASE \E u \in RunThreads : pc[u] \in {"taken", "dec", "post"} /\ Cur(u) = g
      <4>1. PICK u \in RunThreads : pc[u] \in {"taken", "dec", "post"} /\ Cur(u) = g
        BY <3>4
      <4>2. u \in RunThreads \ {t}
        BY <2>2, <4>1
      <4> QED BY <3>2, <4>1, <4>2
    <3> QED BY <3>1, <3>3, <3>4
  <2> QED BY <2>1, <2>2
<1>5. \A f \in UserFibers \ given' :
        /\ state'[f] = "INIT" /\ ctx'[f] = "fresh"
        /\ \A i \in DOMAIN m_fibers' : m_fibers'[i].fiber # f
        /\ \A u \in RunThreads : ft'[u].fiber # f
  <2> SUFFICES ASSUME NEW f \in UserFibers \ given
               PROVE  /\ state'[f] = "INIT" /\ ctx'[f] = "fresh"
                      /\ \A i \in DOMAIN m_fibers : m_fibers[i].fiber # f
                      /\ \A u \in RunThreads : ft'[u].fiber # f
    OBVIOUS
  <2>1. /\ state[f] = "INIT" /\ ctx[f] = "fresh" /\ f \in Fibers /\ f # None
        /\ \A i \in DOMAIN m_fibers : m_fibers[i].fiber # f
        /\ \A u \in RunThreads : ft[u].fiber # f
    BY <1>0, TasksAssumption DEF PlainInv, Fibers
  <2>2. state'[f] = state[f] /\ ctx'[f] = ctx[f]
    BY <2>1
  <2>3. ASSUME NEW u \in RunThreads PROVE ft'[u].fiber # f
    <3>1. CASE u = t
      BY <2>1, <3>1
    <3>2. CASE u # t
      BY <2>1, <3>2
    <3> QED BY <3>1, <3>2
  <2> QED BY <2>1, <2>2, <2>3
<1> QED BY <1>1, <1>2, <1>3, <1>4, <1>5 DEF PlainInv

\* The steps of run() that leave the queue alone keep PlainInv.
LEMMA RunPlainLocal ==
  ASSUME CbInv, PlainInv, NEW t \in RunThreads,
         \/ TakeNothing(t) \/ EnterFiber(t) \/ \E f \in CbFibers : EnterCb(t, f)
         \/ YieldToReady(t) \/ Finish(t) \/ swapOut(t) \/ Deactivate(t) \/ Retire(t)
         \/ IdleChecksPending(t) \/ IdleChecksQueue(t) \/ LeaveIdle(t)
  PROVE  PlainInv'
<1> USE Zenon
<1>0. /\ pc \in [RunThreads -> PC] /\ ft \in [RunThreads -> Task]
      /\ cb_fiber \in [RunThreads -> CbFibers \cup {None}] /\ CbFibers \subseteq Fibers
      /\ state \in [Fibers -> FiberState] /\ ctx \in [Fibers -> Context]
      /\ TypeOK /\ CurInv /\ OneOfTwo /\ OnePlace /\ Phase(t) /\ failed = None
  BY DEF CbInv, CountInv, TypeOK, PlainInv, Fibers
<1>r. Run(t)
  BY DEF Run
<1>l. \A u \in RunThreads \ {t} : pc'[u] = pc[u] /\ ft'[u] = ft[u] /\ cb_fiber'[u] = cb_fiber[u]
  BY <1>0, <1>r, RunLocal
<1>m. /\ ft[t].fiber # None => /\ Mine(t, ft[t].fiber) /\ cb_fiber[t] # ft[t].fiber
                               /\ ft[t].fiber \notin UserFibers \ given
      /\ cb_fiber[t] # None => Mine(t, cb_fiber[t]) /\ cb_fiber[t] \notin UserFibers
  <2>1. cb_fiber[t] # None => cb_fiber[t] \notin UserFibers
    BY <1>0, TasksAssumption
  <2>2. ft[t].fiber \notin UserFibers \ given
    BY DEF PlainInv
  <2> QED BY <1>0, <2>1, <2>2, OwnFibers
<1>c. Cur(t) \in Fibers => Mine(t, Cur(t)) /\ Cur(t) \notin UserFibers \ given
  BY <1>m, TasksAssumption DEF Cur
<1>a. ASSUME UNCHANGED <<m_fibers, given, failed, waiting, ft, cb_fiber>>,
             \A g \in Fibers : g = Cur(t) \/ (state'[g] = state[g] /\ ctx'[g] = ctx[g]),
             Phase(t)', Cur(t) \in Fibers /\ ctx'[Cur(t)] = "suspended" => pc'[t] \in {"taken", "dec", "post"}
      PROVE  PlainInv'
  <2>1. Cur(t)' = Cur(t)
    BY <1>a DEF Cur
  <2>2. \A g \in Fibers : \/ state'[g] = state[g] /\ ctx'[g] = ctx[g]
                          \/ Mine(t, g) /\ g \notin UserFibers \ given
    BY <1>a, <1>c
  <2>3. \A g \in Fibers : ctx'[g] = "suspended" =>
          \/ ctx[g] = "suspended" /\ ~(pc[t] \in {"taken", "dec", "post"} /\ Cur(t) = g)
          \/ pc'[t] \in {"taken", "dec", "post"} /\ Cur(t)' = g
    BY <1>a, <2>1
  <2>4. ft'[t].fiber # None => /\ Mine(t, ft'[t].fiber) /\ cb_fiber'[t] # ft'[t].fiber
                               /\ ft'[t].fiber \notin UserFibers \ given
    BY <1>a, <1>m
  <2>5. cb_fiber'[t] # None => Mine(t, cb_fiber'[t])
    BY <1>a, <1>m
  <2> QED BY <1>0, <1>a, <1>l, <2>2, <2>3, <2>4, <2>5, LocalStep, ZenonT(30)
<1>1. CASE \/ TakeNothing(t) \/ Deactivate(t) \/ IdleChecksPending(t)
           \/ IdleChecksQueue(t) \/ LeaveIdle(t)
  <2>1. UNCHANGED <<m_fibers, given, failed, waiting, state, ctx, ft, cb_fiber>>
    BY <1>1 DEF TakeNothing, Deactivate, IdleChecksPending, IdleChecksQueue, LeaveIdle,
                queue, events, fibers, threads, bounds
  <2>2. \/ pc[t] = "dec" /\ pc'[t] = "post"
        \/ /\ pc[t] \in {"take", "idle", "check2", "poll"}
           /\ pc'[t] \in {"take", "idle", "check2", "poll", "exit"}
    BY <1>0, <1>1 DEF TakeNothing, Deactivate, IdleChecksPending, IdleChecksQueue, LeaveIdle, Goto
  <2>3. Cur(t)' = Cur(t)
    BY <2>1 DEF Cur
  <2>4. Phase(t)'
    BY <1>0, <2>1, <2>2, <2>3 DEF Phase, Resting
  <2>5. Cur(t) \in Fibers /\ ctx'[Cur(t)] = "suspended" => pc'[t] \in {"taken", "dec", "post"}
    BY <1>0, <2>1, <2>2, TasksAssumption DEF Phase, Cur
  <2> QED BY <1>a, <2>1, <2>4, <2>5, ZenonT(30)
<1>2. CASE EnterFiber(t)
  <2>1. ft[t].fiber # None /\ pc[t] = "taken" /\ Cur(t) = ft[t].fiber /\ Cur(t) \in Fibers
    BY <1>0, <1>2 DEF EnterFiber, Cur, Task
  <2>2. state[ft[t].fiber] # "EXEC" /\ ctx[ft[t].fiber] # "done"
    BY <1>0, <2>1 DEF Phase, Resting
  <2>3. /\ state' = [state EXCEPT ![Cur(t)] = "EXEC"] /\ ctx' = [ctx EXCEPT ![Cur(t)] = "running"]
        /\ pc' = [pc EXCEPT ![t] = "body"]
        /\ UNCHANGED <<m_fibers, given, failed, waiting, ft, cb_fiber>>
    BY <1>2, <2>1, <2>2 DEF EnterFiber, Enter, Goto, queue, events, bounds
  <2>4. /\ state'[Cur(t)] = "EXEC" /\ ctx'[Cur(t)] = "running" /\ pc'[t] = "body" /\ Cur(t)' = Cur(t)
        /\ \A g \in Fibers : g = Cur(t) \/ (state'[g] = state[g] /\ ctx'[g] = ctx[g])
    BY <1>0, <2>1, <2>3 DEF Cur
  <2>5. Phase(t)'
    <3>1. cb_fiber[t] # None => state'[cb_fiber[t]] = "INIT" /\ ctx'[cb_fiber[t]] = "fresh"
      BY <1>0, <1>m, <2>1, <2>4, ZenonT(30) DEF Phase
    <3> QED BY <2>1, <2>3, <2>4, <3>1 DEF Phase
  <2> QED BY <1>a, <2>3, <2>4, <2>5, ZenonT(30)
<1>3. CASE \E f \in CbFibers : EnterCb(t, f)
  <2>1. PICK f \in CbFibers : EnterCb(t, f)
    BY <1>3
  <2>2. pc[t] = "taken" /\ ft[t].fiber = None /\ Cur(t) = cb_fiber[t] /\ f \in Fibers /\ f # None
    BY <1>0, <2>1, TasksAssumption DEF EnterCb, OneOfTwo, Cur
  <2>3. cb_fiber[t] # None => state[cb_fiber[t]] = "INIT"
    BY <1>0, <2>2 DEF Phase
  <2>4. /\ state' = [state EXCEPT ![f] = "EXEC"] /\ ctx' = [ctx EXCEPT ![f] = "running"]
        /\ pc' = [pc EXCEPT ![t] = "body"] /\ cb_fiber' = [cb_fiber EXCEPT ![t] = f]
        /\ ft' = [ft EXCEPT ![t] = NoTask] /\ UNCHANGED <<m_fibers, given, failed, waiting>>
    BY <2>1, <2>3 DEF EnterCb, Goto, queue, events
  <2>5. /\ state'[f] = "EXEC" /\ ctx'[f] = "running" /\ pc'[t] = "body"
        /\ cb_fiber'[t] = f /\ ft'[t].fiber = None /\ Cur(t)' = f
        /\ \A g \in Fibers : g = f \/ (state'[g] = state[g] /\ ctx'[g] = ctx[g])
    BY <1>0, <2>2, <2>4 DEF Cur, NoTask
  <2>6. Mine(t, f) /\ f \notin UserFibers
    <3>1. CASE cb_fiber[t] # None
      BY <1>m, <2>1, <3>1 DEF EnterCb
    <3>2. CASE cb_fiber[t] = None
      BY <2>1, <3>2, TasksAssumption DEF EnterCb, Free, ReferencedBesides, Mine
    <3> QED BY <3>1, <3>2
  <2>7. Phase(t)'
    BY <2>5 DEF Phase
  <2>8. cb_fiber[t] # None => f = cb_fiber[t]
    BY <2>1 DEF EnterCb
  <2>9. \A g \in Fibers : ctx'[g] = "suspended" =>
          \/ ctx[g] = "suspended" /\ ~(pc[t] \in {"taken", "dec", "post"} /\ Cur(t) = g)
          \/ pc'[t] \in {"taken", "dec", "post"} /\ Cur(t)' = g
    BY <2>2, <2>5, <2>8, TasksAssumption
  <2>10. \A g \in Fibers : \/ state'[g] = state[g] /\ ctx'[g] = ctx[g]
                           \/ Mine(t, g) /\ g \notin UserFibers \ given
    BY <2>5, <2>6
  <2>11. /\ ft'[t].fiber # None => /\ Mine(t, ft'[t].fiber) /\ cb_fiber'[t] # ft'[t].fiber
                                  /\ ft'[t].fiber \notin UserFibers \ given
         /\ cb_fiber'[t] # None => Mine(t, cb_fiber'[t])
    BY <2>5, <2>6
  <2>12. /\ UNCHANGED <<m_fibers, given, failed, waiting>>
         /\ \A u \in RunThreads \ {t} : pc'[u] = pc[u] /\ ft'[u] = ft[u] /\ cb_fiber'[u] = cb_fiber[u]
    BY <1>l, <2>4
  <2> QED BY <1>0, <2>7, <2>9, <2>10, <2>11, <2>12, LocalStep, ZenonT(30)
<1>4. CASE YieldToReady(t) \/ Finish(t) \/ swapOut(t)
  <2>1. /\ pc[t] \in {"body", "yield", "finish"} /\ Cur(t) \in Fibers /\ Cur(t) # None
        /\ cb_fiber[t] # None /\ ft[t].fiber # None => state[cb_fiber[t]] = "INIT" /\ ctx[cb_fiber[t]] = "fresh"
    BY <1>0, <1>4, TasksAssumption DEF YieldToReady, Finish, swapOut, CurInv, ActiveLabels, Phase
  <2>2. /\ UNCHANGED <<m_fibers, given, failed, waiting, ft, cb_fiber>> /\ Cur(t)' = Cur(t)
        /\ \A g \in Fibers : g = Cur(t) \/ (state'[g] = state[g] /\ ctx'[g] = ctx[g])
    BY <1>0, <1>4 DEF YieldToReady, Finish, swapOut, queue, events, bounds, Cur
  <2>3. \/ pc'[t] = "yield" /\ state'[Cur(t)] = "READY" /\ ctx'[Cur(t)] = "running"
        \/ pc'[t] = "finish" /\ state'[Cur(t)] \in {"TERM", "ERROR"} /\ ctx'[Cur(t)] = "running"
        \/ /\ pc'[t] = "dec"
           /\ \/ state'[Cur(t)] = "READY" /\ ctx'[Cur(t)] = "suspended"
              \/ state'[Cur(t)] \in {"TERM", "ERROR"} /\ ctx'[Cur(t)] = "done"
    <3>1. CASE YieldToReady(t)
      BY <1>0, <2>1, <3>1 DEF YieldToReady, Goto, Phase
    <3>2. CASE Finish(t)
      BY <1>0, <2>1, <3>2 DEF Finish, Goto, Phase
    <3>3. CASE swapOut(t)
      BY <1>0, <2>1, <3>3 DEF swapOut, Goto, Phase
    <3> QED BY <1>4, <3>1, <3>2, <3>3
  <2>4. Phase(t)'
    <3>1. cb_fiber[t] # None /\ ft[t].fiber # None => state'[cb_fiber[t]] = "INIT" /\ ctx'[cb_fiber[t]] = "fresh"
      BY <1>0, <1>m, <2>1, <2>2, ZenonT(30) DEF Cur
    <3> QED BY <2>2, <2>3, <3>1 DEF Phase
  <2> QED BY <1>a, <2>2, <2>3, <2>4
<1>5. CASE Retire(t)
  <2>1. /\ pc[t] = "post" /\ Cur(t) \in Fibers /\ state[Cur(t)] \in {"TERM", "ERROR"} /\ ctx[Cur(t)] = "done"
        /\ pc' = [pc EXCEPT ![t] = "take"] /\ ft' = [ft EXCEPT ![t] = NoTask]
        /\ UNCHANGED <<m_fibers, given, failed, waiting, cb_fiber>>
    BY <1>0, <1>5 DEF Retire, CurInv, Phase, Goto, queue, events, bounds
  <2>2. ft'[t].fiber = None /\ pc'[t] = "take" /\ ft'[t].cb = None
    BY <1>0, <2>1 DEF NoTask
  <2>3. /\ \A g \in Fibers : g = Cur(t) \/ (state'[g] = state[g] /\ ctx'[g] = ctx[g])
        /\ ctx'[Cur(t)] # "suspended"
        /\ cb_fiber[t] # None => state'[cb_fiber[t]] = "INIT" /\ ctx'[cb_fiber[t]] = "fresh"
    <3>1. CASE ft[t].fiber = None
      <4>1. Cur(t) = cb_fiber[t]
        BY <3>1 DEF Cur
      <4> QED BY <1>0, <1>5, <2>1, <3>1, <4>1 DEF Retire
    <3>2. CASE ft[t].fiber # None
      BY <1>0, <1>5, <2>1, <3>2 DEF Retire, Phase
    <3> QED BY <3>1, <3>2
  <2>4. Phase(t)'
    BY <2>1, <2>2, <2>3 DEF Phase
  <2>5. \A g \in Fibers : \/ state'[g] = state[g] /\ ctx'[g] = ctx[g]
                          \/ Mine(t, g) /\ g \notin UserFibers \ given
    BY <1>c, <2>3
  <2>6. \A g \in Fibers : ctx'[g] = "suspended" =>
          ctx[g] = "suspended" /\ ~(pc[t] \in {"taken", "dec", "post"} /\ Cur(t) = g)
    BY <2>3
  <2> QED BY <1>0, <1>l, <1>m, <2>1, <2>2, <2>4, <2>5, <2>6, LocalStep, ZenonT(30)
<1> QED BY <1>1, <1>2, <1>3, <1>4, <1>5

\* A step that adds an entry keeps PlainInv if the entry's fiber rests and is
\* given up by everybody else.
LEMMA AppendPlain ==
  ASSUME PlainInv, TypeOK, NEW e \in Task, schedule(e),
         UNCHANGED <<state, ctx, failed, waiting>>, given \subseteq given',
         e.fiber # None => /\ Resting(e.fiber) /\ e.fiber \notin UserFibers \ given'
                           /\ \A i \in DOMAIN m_fibers : m_fibers[i].fiber # e.fiber
                           /\ \A u \in RunThreads : ft'[u].fiber # e.fiber /\ cb_fiber'[u] # e.fiber,
         \A u \in RunThreads : /\ ft'[u] \in {ft[u], NoTask} /\ cb_fiber'[u] \in {cb_fiber[u], None}
                               /\ Phase(u)',
         \A u \in RunThreads : pc[u] \in {"taken", "dec", "post"} =>
           (pc'[u] = pc[u] /\ Cur(u)' = Cur(u)) \/ Cur(u) = e.fiber
  PROVE  PlainInv'
<1> USE Zenon
<1> DEFINE n == Len(m_fibers) + 1
<1>0. m_fibers \in Seq(Task) /\ NoTask.fiber = None
  BY DEF TypeOK, NoTask
<1>1. m_fibers' = Append(m_fibers, e)
  BY DEF schedule
<1>a. Added(m_fibers', m_fibers, e, n)
  BY <1>0, <1>1, AppendEntries
<1> HIDE DEF n
<1>2. /\ \A i \in DOMAIN m_fibers : i \in DOMAIN m_fibers' /\ m_fibers'[i] = m_fibers[i]
      /\ n \in DOMAIN m_fibers' /\ m_fibers'[n] = e /\ n \notin DOMAIN m_fibers
      /\ \A j \in DOMAIN m_fibers' : j \in DOMAIN m_fibers \/ j = n
  BY <1>a DEF Added
<1>e. /\ \A i \in DOMAIN m_fibers : m_fibers'[i].fiber = m_fibers[i].fiber
      /\ m_fibers'[n].fiber = e.fiber
  BY <1>2
<1>o. /\ OnePlace /\ QueueRests
      /\ e.fiber # None => Resting(e.fiber)
  BY DEF PlainInv
<1>n. e.fiber # None => /\ \A i \in DOMAIN m_fibers : m_fibers[i].fiber # e.fiber
                        /\ \A u \in RunThreads : ft'[u].fiber # e.fiber /\ cb_fiber'[u] # e.fiber
  OBVIOUS
<1>3. \A u \in RunThreads : ft'[u].fiber \in {ft[u].fiber, None} /\ cb_fiber'[u] \in {cb_fiber[u], None}
  BY <1>0
<1>4. OnePlace'
  <2>1. ASSUME NEW i \in DOMAIN m_fibers', NEW j \in DOMAIN m_fibers',
               m_fibers'[i].fiber # None, m_fibers'[i].fiber = m_fibers'[j].fiber
        PROVE  i = j
    <3>1. CASE i \in DOMAIN m_fibers /\ j \in DOMAIN m_fibers
      <4>1. m_fibers[i].fiber # None /\ m_fibers[i].fiber = m_fibers[j].fiber
        BY <1>e, <2>1, <3>1
      <4> QED BY <1>o, <3>1, <4>1 DEF OnePlace
    <3>2. CASE i = n \/ j = n
      BY <1>2, <1>e, <1>n, <2>1, <3>2
    <3> QED BY <1>2, <3>1, <3>2
  <2>2. ASSUME NEW i \in DOMAIN m_fibers', NEW t \in RunThreads, m_fibers'[i].fiber # None
        PROVE  ft'[t].fiber # m_fibers'[i].fiber /\ cb_fiber'[t] # m_fibers'[i].fiber
    <3>1. CASE i \in DOMAIN m_fibers
      <4>1. ft[t].fiber # m_fibers[i].fiber /\ cb_fiber[t] # m_fibers[i].fiber
        BY <1>e, <1>o, <2>2, <3>1 DEF OnePlace
      <4> QED BY <1>3, <1>e, <2>2, <3>1, <4>1
    <3>2. CASE i = n
      BY <1>e, <1>n, <2>2, <3>2
    <3> QED BY <1>2, <3>1, <3>2
  <2>3. ASSUME NEW t \in RunThreads, NEW u \in RunThreads
        PROVE  /\ ft'[t].fiber # None => cb_fiber'[u] # ft'[t].fiber
               /\ ft'[t].fiber # None /\ ft'[t].fiber = ft'[u].fiber => t = u
               /\ cb_fiber'[t] # None /\ cb_fiber'[t] = cb_fiber'[u] => t = u
    <3>1. /\ ft[t].fiber # None => cb_fiber[u] # ft[t].fiber
          /\ ft[t].fiber # None /\ ft[t].fiber = ft[u].fiber => t = u
          /\ cb_fiber[t] # None /\ cb_fiber[t] = cb_fiber[u] => t = u
      BY <1>o DEF OnePlace
    <3>2. /\ ft'[t].fiber = ft[t].fiber \/ ft'[t].fiber = None
          /\ ft'[u].fiber = ft[u].fiber \/ ft'[u].fiber = None
          /\ cb_fiber'[t] = cb_fiber[t] \/ cb_fiber'[t] = None
          /\ cb_fiber'[u] = cb_fiber[u] \/ cb_fiber'[u] = None
      BY <1>3
    <3> QED BY <3>1, <3>2
  <2> QED BY <2>1, <2>2, <2>3 DEF OnePlace
<1>5. QueueRests'
  <2> SUFFICES ASSUME NEW i \in DOMAIN m_fibers', m_fibers'[i].fiber # None
               PROVE  Resting(m_fibers'[i].fiber)
    BY DEF QueueRests, Resting
  <2> QED BY <1>2, <1>e, <1>o DEF QueueRests
<1>6. Suspended'
  <2> SUFFICES ASSUME NEW g \in Fibers, ctx'[g] = "suspended"
               PROVE  \/ \E i \in DOMAIN m_fibers' : m_fibers'[i].fiber = g
                      \/ \E u \in RunThreads : pc'[u] \in {"taken", "dec", "post"} /\ Cur(u)' = g
    BY DEF Suspended
  <2>1. \/ \E i \in DOMAIN m_fibers : m_fibers[i].fiber = g
        \/ \E u \in RunThreads : pc[u] \in {"taken", "dec", "post"} /\ Cur(u) = g
    BY DEF PlainInv, Suspended
  <2> QED BY <1>2, <2>1
<1>7. \A f \in UserFibers \ given' :
        /\ state'[f] = "INIT" /\ ctx'[f] = "fresh"
        /\ \A i \in DOMAIN m_fibers' : m_fibers'[i].fiber # f
        /\ \A u \in RunThreads : ft'[u].fiber # f
  <2> TAKE f \in UserFibers \ given'
  <2>1. f # None /\ f \in UserFibers \ given
    BY TasksAssumption DEF Fibers
  <2>2. /\ state[f] = "INIT" /\ ctx[f] = "fresh"
        /\ \A i \in DOMAIN m_fibers : m_fibers[i].fiber # f
        /\ \A u \in RunThreads : ft[u].fiber # f
    BY <2>1 DEF PlainInv
  <2>3. ASSUME NEW i \in DOMAIN m_fibers' PROVE m_fibers'[i].fiber # f
    BY <1>2, <1>e, <2>1, <2>2, ZenonT(30)
  <2>4. ASSUME NEW u \in RunThreads PROVE ft'[u].fiber # f
    BY <1>3, <2>1, <2>2
  <2> QED BY <2>2, <2>3, <2>4
<1> QED BY <1>4, <1>5, <1>6, <1>7 DEF PlainInv

\* Taking a task keeps PlainInv: the fiber moves from the queue to ft.
LEMMA TakePlain ==
  ASSUME CbInv, PlainInv, NEW t \in RunThreads, Take(t)
  PROVE  PlainInv'
<1> USE Zenon
<1>0. /\ pc \in [RunThreads -> PC] /\ ft \in [RunThreads -> Task] /\ TypeOK
      /\ m_fibers \in Seq(Task) /\ OnePlace /\ Phase(t) /\ pc[t] = "take" /\ ft[t].fiber = None
  BY DEF CbInv, CountInv, TypeOK, PlainInv, Phase, Take
<1>d. DOMAIN m_fibers = 1 .. Len(m_fibers)
  BY <1>0, SMT
<1>1. PICK k \in DOMAIN m_fibers : /\ ft' = [ft EXCEPT ![t] = m_fibers[k]]
                                   /\ m_fibers' = Erase(m_fibers, k)
  BY <1>d DEF Take
<1>2. /\ UNCHANGED <<state, ctx, failed, waiting, given, cb_fiber>> /\ pc'[t] = "taken"
      /\ \A u \in RunThreads \ {t} : pc'[u] = pc[u] /\ ft'[u] = ft[u]
      /\ ft'[t] = m_fibers[k]
  BY <1>0, <1>1 DEF Take, Goto, events, fibers, bounds
<1> DEFINE old(j) == Was(j, k)
<1>3. Removed(m_fibers', m_fibers, k)
  BY <1>0, <1>1, RemoveEntries
<1>e. \A j \in DOMAIN m_fibers' :
        old(j) \in DOMAIN m_fibers /\ old(j) # k /\ m_fibers'[j].fiber = m_fibers[old(j)].fiber
  BY <1>3 DEF Removed
<1>k. /\ ft'[t].fiber = m_fibers[k].fiber /\ cb_fiber' = cb_fiber
      /\ \A u \in RunThreads \ {t} : ft'[u].fiber = ft[u].fiber
  BY <1>2
<1>4. OnePlace'
  <2>1. ASSUME NEW i \in DOMAIN m_fibers', NEW j \in DOMAIN m_fibers',
               m_fibers'[i].fiber # None, m_fibers'[i].fiber = m_fibers'[j].fiber
        PROVE  i = j
    <3>1. old(i) \in DOMAIN m_fibers /\ old(j) \in DOMAIN m_fibers
      BY <1>e
    <3>2. m_fibers[old(i)].fiber # None /\ m_fibers[old(i)].fiber = m_fibers[old(j)].fiber
      BY <1>e, <2>1
    <3>3. old(i) = old(j)
      BY <1>0, <3>1, <3>2 DEF OnePlace
    <3> QED BY <1>3, <3>3 DEF Removed
  <2>2. ASSUME NEW i \in DOMAIN m_fibers', NEW u \in RunThreads, m_fibers'[i].fiber # None
        PROVE  ft'[u].fiber # m_fibers'[i].fiber /\ cb_fiber'[u] # m_fibers'[i].fiber
    <3>1. /\ old(i) \in DOMAIN m_fibers /\ old(i) # k
          /\ m_fibers'[i].fiber = m_fibers[old(i)].fiber /\ m_fibers[old(i)].fiber # None
      BY <1>e, <2>2
    <3>2. ft[u].fiber # m_fibers[old(i)].fiber /\ cb_fiber[u] # m_fibers[old(i)].fiber
      BY <1>0, <3>1 DEF OnePlace
    <3>3. m_fibers[k].fiber # m_fibers[old(i)].fiber
      BY <1>0, <3>1 DEF OnePlace
    <3>4. CASE u = t
      BY <1>k, <3>1, <3>2, <3>3, <3>4
    <3>5. CASE u # t
      BY <1>k, <3>1, <3>2, <3>5
    <3> QED BY <3>4, <3>5
  <2>3. \A u \in RunThreads : m_fibers[k].fiber # None =>
          ft[u].fiber # m_fibers[k].fiber /\ cb_fiber[u] # m_fibers[k].fiber
    BY <1>0 DEF OnePlace
  <2>4. ASSUME NEW v \in RunThreads, NEW u \in RunThreads
        PROVE  /\ ft'[v].fiber # None => cb_fiber'[u] # ft'[v].fiber
               /\ ft'[v].fiber # None /\ ft'[v].fiber = ft'[u].fiber => v = u
               /\ cb_fiber'[v] # None /\ cb_fiber'[v] = cb_fiber'[u] => v = u
    <3>1. /\ ft[v].fiber # None => cb_fiber[u] # ft[v].fiber
          /\ ft[v].fiber # None /\ ft[v].fiber = ft[u].fiber => v = u
          /\ cb_fiber[v] # None /\ cb_fiber[v] = cb_fiber[u] => v = u
      BY <1>0 DEF OnePlace
    <3>2. CASE v = t /\ u = t
      BY <1>k, <2>3, <3>2
    <3>3. CASE v = t /\ u # t
      BY <1>k, <2>3, <3>1, <3>3, ZenonT(30)
    <3>4. CASE v # t /\ u = t
      BY <1>k, <2>3, <3>1, <3>4
    <3>5. CASE v # t /\ u # t
      BY <1>k, <3>1, <3>5
    <3> QED BY <3>2, <3>3, <3>4, <3>5, ZenonT(30)
  <2> QED BY <2>1, <2>2, <2>4 DEF OnePlace
<1>r. /\ QueueRests
      /\ \A g : Resting(g) => Resting(g)'
  BY <1>2 DEF PlainInv, Resting
<1>5. QueueRests'
  <2> SUFFICES ASSUME NEW i \in DOMAIN m_fibers', m_fibers'[i].fiber # None
               PROVE  Resting(m_fibers'[i].fiber)
    BY <1>2 DEF QueueRests, Resting
  <2> QED BY <1>e, <1>r DEF QueueRests
<1>6. ASSUME NEW u \in RunThreads PROVE Phase(u)'
  <2>1. CASE u = t
    <3>1. ft'[t].fiber # None => Resting(ft[t].fiber)'
      <4> SUFFICES ASSUME m_fibers[k].fiber # None PROVE Resting(m_fibers[k].fiber)
        BY <1>2 DEF Resting
      <4> QED BY <1>r DEF QueueRests
    <3>2. cb_fiber[t] # None => state[cb_fiber[t]] = "INIT" /\ ctx[cb_fiber[t]] = "fresh"
      BY <1>0 DEF Phase
    <3> QED BY <1>2, <2>1, <3>1, <3>2 DEF Phase
  <2>2. CASE u # t
    <3>1. Phase(u) /\ pc'[u] = pc[u] /\ ft'[u] = ft[u] /\ UNCHANGED <<cb_fiber, state, ctx>>
      BY <1>2, <2>2 DEF PlainInv
    <3> QED BY <3>1, ZenonT(30) DEF Phase, Cur, Resting
  <2> QED BY <2>1, <2>2
<1>7. Suspended'
  <2> SUFFICES ASSUME NEW g \in Fibers, ctx'[g] = "suspended"
               PROVE  \/ \E i \in DOMAIN m_fibers' : m_fibers'[i].fiber = g
                      \/ \E u \in RunThreads : pc'[u] \in {"taken", "dec", "post"} /\ Cur(u)' = g
    BY DEF Suspended
  <2>1. \/ \E i \in DOMAIN m_fibers : m_fibers[i].fiber = g
        \/ \E u \in RunThreads : pc[u] \in {"taken", "dec", "post"} /\ Cur(u) = g
    BY <1>2 DEF PlainInv, Suspended
  <2>2. CASE m_fibers[k].fiber = g
    <3>1. g # None
      BY TasksAssumption
    <3> QED BY <1>2, <2>2, <3>1 DEF Cur
  <2>3. CASE \E i \in DOMAIN m_fibers \ {k} : m_fibers[i].fiber = g
    BY <1>3, <2>3 DEF Removed
  <2>4. CASE \E u \in RunThreads : pc[u] \in {"taken", "dec", "post"} /\ Cur(u) = g
    BY <1>0, <1>2, <2>4 DEF Cur
  <2> QED BY <2>1, <2>2, <2>3, <2>4
<1>8. \A f \in UserFibers \ given' :
        /\ state'[f] = "INIT" /\ ctx'[f] = "fresh"
        /\ \A i \in DOMAIN m_fibers' : m_fibers'[i].fiber # f
        /\ \A u \in RunThreads : ft'[u].fiber # f
  <2> SUFFICES ASSUME NEW f \in UserFibers \ given
               PROVE  /\ state[f] = "INIT" /\ ctx[f] = "fresh"
                      /\ \A i \in DOMAIN m_fibers' : m_fibers'[i].fiber # f
                      /\ \A u \in RunThreads : ft'[u].fiber # f
    BY <1>2
  <2>1. /\ state[f] = "INIT" /\ ctx[f] = "fresh"
        /\ \A i \in DOMAIN m_fibers : m_fibers[i].fiber # f
        /\ \A u \in RunThreads : ft[u].fiber # f
    BY DEF PlainInv
  <2>2. ASSUME NEW u \in RunThreads PROVE ft'[u].fiber # f
    <3>1. CASE u = t
      BY <1>k, <2>1, <3>1
    <3>2. CASE u # t
      BY <1>k, <2>1, <3>2
    <3> QED BY <3>1, <3>2
  <2> QED BY <1>e, <2>1, <2>2
<1> QED BY <1>2, <1>4, <1>5, <1>6, <1>7, <1>8, ZenonT(30) DEF PlainInv

\* A READY fiber that goes back into the queue was its thread's alone.
LEMMA RequeuePlain ==
  ASSUME CbInv, PlainInv, NEW t \in RunThreads, Requeue(t)
  PROVE  PlainInv'
<1> USE Zenon
<1> DEFINE f == Cur(t)
           e == FiberTask(f, AnyThread)
<1>0. /\ pc \in [RunThreads -> PC] /\ ft \in [RunThreads -> Task] /\ TypeOK
      /\ cb_fiber \in [RunThreads -> CbFibers \cup {None}]
      /\ OnePlace /\ Phase(t) /\ pc[t] = "post" /\ state[f] = "READY" /\ f \in Fibers
  BY DEF CbInv, CountInv, TypeOK, PlainInv, CurInv, Requeue
<1>1. e \in Task /\ e.fiber = f /\ f # None
  BY <1>0, Tasks, TasksAssumption DEF FiberTask
<1>2. /\ schedule(e) /\ UNCHANGED <<state, ctx, failed, waiting, given>>
      /\ pc'[t] = "take" /\ ft'[t] = NoTask /\ cb_fiber'[t] = None
      /\ \A u \in RunThreads \ {t} : pc'[u] = pc[u] /\ ft'[u] = ft[u] /\ cb_fiber'[u] = cb_fiber[u]
  BY <1>0 DEF Requeue, Goto, events, fibers, bounds
<1>3. Mine(t, f) /\ f \notin UserFibers \ given
  <2>1. ft[t].fiber \notin UserFibers \ given /\ cb_fiber[t] \notin UserFibers
    BY <1>0, TasksAssumption DEF PlainInv, Fibers
  <2> QED BY <1>0, <1>1, <2>1, OwnFibers DEF Cur
<1>4. Resting(f)
  BY <1>0 DEF Phase, Resting
<1>5. ASSUME NEW u \in RunThreads PROVE Phase(u)'
  <2>1. CASE u = t
    <3>0. NoTask.fiber = None
      BY DEF NoTask
    <3>1. pc'[t] = "take" /\ ft'[t].fiber = None /\ cb_fiber'[t] = None
      BY <1>2, <3>0
    <3> QED BY <2>1, <3>1 DEF Phase
  <2>2. CASE u # t
    <3>1. /\ Phase(u) /\ pc'[u] = pc[u] /\ ft'[u] = ft[u] /\ cb_fiber'[u] = cb_fiber[u]
          /\ UNCHANGED <<state, ctx>>
      BY <1>2, <2>2 DEF PlainInv
    <3> QED BY <3>1 DEF Phase, Cur, Resting
  <2> QED BY <2>1, <2>2
<1>6. ASSUME NEW u \in RunThreads, pc[u] \in {"taken", "dec", "post"}
      PROVE  (pc'[u] = pc[u] /\ Cur(u)' = Cur(u)) \/ Cur(u) = e.fiber
  BY <1>1, <1>2, <1>6 DEF Cur
<1>7. /\ Resting(e.fiber) /\ e.fiber \notin UserFibers \ given'
      /\ \A i \in DOMAIN m_fibers : m_fibers[i].fiber # e.fiber
      /\ \A u \in RunThreads : ft'[u].fiber # e.fiber /\ cb_fiber'[u] # e.fiber
  <2>1. ASSUME NEW u \in RunThreads PROVE ft'[u].fiber # e.fiber /\ cb_fiber'[u] # e.fiber
    <3>1. CASE u = t
      <4>0. NoTask.fiber = None
        BY DEF NoTask
      <4>1. ft'[t].fiber = None /\ cb_fiber'[t] = None
        BY <1>2, <4>0
      <4> QED BY <1>1, <3>1, <4>1
    <3>2. CASE u # t
      <4>1. ft'[u] = ft[u] /\ cb_fiber'[u] = cb_fiber[u]
        BY <1>2, <3>2
      <4>2. ft[u].fiber # f /\ cb_fiber[u] # f
        BY <1>3, <3>2 DEF Mine
      <4> QED BY <1>1, <4>1, <4>2
    <3> QED BY <3>1, <3>2
  <2>2. e.fiber \notin UserFibers \ given' /\ Resting(e.fiber)
    BY <1>1, <1>2, <1>3, <1>4
  <2>3. \A i \in DOMAIN m_fibers : m_fibers[i].fiber # e.fiber
    BY <1>1, <1>3 DEF Mine
  <2> QED BY <2>1, <2>2, <2>3
<1>8. \A u \in RunThreads : ft'[u] \in {ft[u], NoTask} /\ cb_fiber'[u] \in {cb_fiber[u], None}
  BY <1>2
<1> HIDE DEF e, f
<1> QED BY <1>0, <1>1, <1>2, <1>5, <1>6, <1>7, <1>8, AppendPlain, ZenonT(30)

\* Queueing a callback keeps PlainInv.
LEMMA CbAppendPlain ==
  ASSUME PlainInv, TypeOK, NEW c \in Cbs, NEW thr, CbTask(c, thr) \in Task,
         schedule(CbTask(c, thr)), UNCHANGED <<threads, state, ctx, failed, waiting>>,
         given \subseteq given'
  PROVE  PlainInv'
<1> USE Zenon
<1>1. PICK e \in Task : e = CbTask(c, thr)
  OBVIOUS
<1>2. e.fiber = None /\ schedule(e) /\ UNCHANGED <<pc, ft, cb_fiber>>
  BY <1>1 DEF CbTask, threads
<1>3. ASSUME NEW u \in RunThreads PROVE Phase(u)' /\ Cur(u)' = Cur(u)
  <2>1. Phase(u) /\ UNCHANGED <<pc, ft, cb_fiber, state, ctx>>
    BY <1>2 DEF PlainInv
  <2> QED BY <2>1, ZenonT(30) DEF Phase, Resting, Cur
<1> QED BY <1>2, <1>3, AppendPlain

\* A step of run() keeps PlainInv.
LEMMA RunPlain ==
  ASSUME MaxWaits = 0, CbInv, PlainInv, NEW t \in RunThreads, Run(t)
  PROVE  PlainInv'
<1> USE Zenon
<1>0. /\ waits \in 0 .. MaxWaits /\ waiting = {} /\ Phase(t) /\ TypeOK /\ CurInv
  BY DEF CbInv, CountInv, TypeOK, PlainInv
<1>1. ~addEvent(t)
  BY <1>0, SMT DEF addEvent
<1>2. ~YieldToHold(t) /\ ~SetHold(t) /\ ~WakeDone(t)
  BY <1>0 DEF YieldToHold, SetHold, WakeDone, Phase
<1>3. ~SeesHold(t)
  BY <1>0 DEF SeesHold, Phase
<1>4. ~\E f \in Fibers : Wake(t, f)
  BY <1>0 DEF Wake
<1>5. CASE \E c \in Cbs, thr \in Pins : BodySchedulesCb(t, c, thr)
  <2>1. PICK c \in Cbs, thr \in Pins : BodySchedulesCb(t, c, thr)
    BY <1>5
  <2>2. /\ UNCHANGED <<threads, state, ctx, failed, waiting>> /\ given \subseteq given'
        /\ schedule(CbTask(c, thr)) /\ CbTask(c, thr) \in Task
    BY <2>1, ThreadsAssumption, Tasks DEF BodySchedulesCb, fibers, events
  <2> QED BY <1>0, <2>2, CbAppendPlain
<1>6. CASE Take(t) \/ Requeue(t)
  BY <1>6, TakePlain, RequeuePlain
<1> QED BY <1>1, <1>2, <1>3, <1>4, <1>5, <1>6, RunPlainLocal DEF Run

\* A step of the owner keeps PlainInv.
LEMMA OwnerPlain ==
  ASSUME ~Resubmit, CbInv, PlainInv, User \/ StopStep
  PROVE  PlainInv'
<1> USE Zenon
<1>0. TypeOK /\ OwnerInv /\ cb_fiber \in [RunThreads -> CbFibers \cup {None}]
  BY DEF CbInv, CountInv, TypeOK
<1>m. /\ UNCHANGED <<ft, cb_fiber, waiting>>
      /\ \A t \in RunThreads : pc'[t] = pc[t] \/ (pc[t] = "off" /\ pc'[t] \in {"off", "take"})
  <2>1. UNCHANGED <<ft, cb_fiber, waiting>>
    BY <1>0, OwnerMoves
  <2>2. \A t \in RunThreads : pc'[t] = pc[t] \/ (pc[t] = "off" /\ pc'[t] \in {"off", "take"})
    BY <1>0, OwnerMoves
  <2> QED BY <2>1, <2>2
<1>1. CASE UNCHANGED <<m_fibers, state, ctx, given, failed>>
  <2>1. ASSUME NEW t \in RunThreads PROVE Phase(t)'
    <3>1. Phase(t) /\ UNCHANGED <<ft, cb_fiber, state, ctx>>
      BY <1>m, <1>1 DEF PlainInv
    <3>2. CASE pc'[t] = pc[t]
      BY <3>1, <3>2 DEF Phase, Resting, Cur
    <3>3. CASE pc[t] = "off" /\ pc'[t] \in {"off", "take"}
      BY <3>1, <3>3 DEF Phase, Resting, Cur
    <3> QED BY <1>m, <3>2, <3>3
  <2>2. OnePlace' /\ QueueRests'
    <3>1. OnePlace /\ QueueRests /\ UNCHANGED <<m_fibers, ft, cb_fiber, state, ctx>>
      BY <1>m, <1>1 DEF PlainInv
    <3> QED BY <3>1 DEF OnePlace, QueueRests, Resting
  <2>3. Suspended'
    <3>1. Suspended /\ UNCHANGED <<m_fibers, ctx>> /\ \A t \in RunThreads : Cur(t)' = Cur(t)
      BY <1>m, <1>1 DEF PlainInv, Cur
    <3>2. \A t \in RunThreads : pc[t] \in {"taken", "dec", "post"} => pc'[t] = pc[t]
      BY <1>m
    <3> QED BY <3>1, <3>2 DEF Suspended
  <2> QED BY <1>m, <1>1, <2>1, <2>2, <2>3, ZenonT(40) DEF PlainInv
<1>2. CASE \E c \in Cbs, thr \in Pins : UserSchedulesCb(c, thr)
  <2>1. PICK c \in Cbs, thr \in Pins : UserSchedulesCb(c, thr)
    BY <1>2
  <2>2. /\ UNCHANGED <<threads, state, ctx, failed, waiting>> /\ given \subseteq given'
        /\ schedule(CbTask(c, thr)) /\ CbTask(c, thr) \in Task
    BY <2>1, ThreadsAssumption, Tasks DEF UserSchedulesCb, fibers, events
  <2> QED BY <1>0, <2>2, CbAppendPlain
<1>3. CASE \E f \in UserFibers, thr \in Pins : UserSchedulesFiber(f, thr)
  <2>1. PICK f \in UserFibers, thr \in Pins : UserSchedulesFiber(f, thr)
    BY <1>3
  <2>2. PICK e \in Task : e = FiberTask(f, thr)
    BY ThreadsAssumption, Tasks DEF Fibers
  <2>3. /\ UNCHANGED <<pc, ft, cb_fiber, state, ctx, failed, waiting>> /\ schedule(e)
        /\ f \notin given /\ given' = given \cup {f} /\ e.fiber = f
    BY <2>1, <2>2 DEF UserSchedulesFiber, FiberTask, threads, events
  <2>4. /\ Resting(e.fiber) /\ e.fiber \notin UserFibers \ given'
        /\ \A i \in DOMAIN m_fibers : m_fibers[i].fiber # e.fiber
        /\ \A u \in RunThreads : ft'[u].fiber # e.fiber /\ cb_fiber'[u] # e.fiber
    <3>1. /\ state[f] = "INIT" /\ ctx[f] = "fresh"
          /\ \A i \in DOMAIN m_fibers : m_fibers[i].fiber # f
          /\ \A u \in RunThreads : ft[u].fiber # f
      BY <1>0, <2>3 DEF PlainInv
    <3>2. ASSUME NEW u \in RunThreads PROVE cb_fiber[u] # f
      BY <1>0, TasksAssumption DEF TypeOK, Fibers
    <3> QED BY <2>3, <3>1, <3>2 DEF Resting
  <2>5. ASSUME NEW u \in RunThreads PROVE Phase(u)' /\ Cur(u)' = Cur(u)
    BY <2>3, ZenonT(40) DEF PlainInv, Phase, Resting, Cur
  <2> QED BY <1>0, <2>3, <2>4, <2>5, AppendPlain
<1>4. CASE Start \/ Stop \/ StopStep
  BY <1>1, <1>4 DEF Start, Stop, StopStep, StopChecksPending, StopChecksQueue,
       RootFiberReturns, Join, queue, fibers, bounds
<1> QED BY <1>2, <1>3, <1>4 DEF User

\* Every task in the queue is for any thread or for one the user named.
PinsKept == \A i \in DOMAIN m_fibers : m_fibers[i].thread \in Pins \cup {AnyThread}

\* With tasks for any thread only, the last thread to leave found the queue empty.
LateInv ==
  /\ Pins = {AnyThread} /\ \A t \in RunThreads : pc[t] \in {"off", "exit"}
  /\ \/ caller \in {"call", "join", "done"}
     \/ caller \in {"check", "check2"} /\ Workers # {}
  => m_fibers = <<>>

\* Scheduling a task with a pin of the user's, or without one, keeps PinsKept.
LEMMA AppendPins ==
  ASSUME PinsKept, m_fibers \in Seq(Task), NEW e \in Task, schedule(e),
         e.thread \in Pins \cup {AnyThread}
  PROVE  PinsKept'
<1> USE Zenon
<1>1. m_fibers' = Append(m_fibers, e)
  BY DEF schedule
<1>a. Added(m_fibers', m_fibers, e, Len(m_fibers) + 1)
  BY <1>1, AppendEntries
<1> SUFFICES ASSUME NEW j \in DOMAIN m_fibers'
             PROVE  m_fibers'[j].thread \in Pins \cup {AnyThread}
  BY DEF PinsKept
<1>2. CASE j \in DOMAIN m_fibers
  <2>1. m_fibers'[j] = m_fibers[j]
    BY <1>a, <1>2 DEF Added
  <2> QED BY <1>2, <2>1 DEF PinsKept
<1>3. CASE j = Len(m_fibers) + 1
  <2>1. m_fibers'[j] = e
    BY <1>a, <1>3 DEF Added
  <2> QED BY <2>1
<1> QED BY <1>a, <1>2, <1>3 DEF Added

\* A step of run() puts only tasks with a pin of the user's, or without one, into
\* the queue.
LEMMA RunPins ==
  ASSUME CbInv, PinsKept, NEW t \in RunThreads, Run(t)
  PROVE  PinsKept'
<1> USE Zenon
<1>0. TypeOK /\ CurInv /\ m_fibers \in Seq(Task)
  BY DEF CbInv, CountInv, TypeOK
<1>a. ASSUME m_fibers' = m_fibers PROVE PinsKept'
  BY <1>a DEF PinsKept
<1>b. ASSUME NEW e \in Task, schedule(e), e.thread \in Pins \cup {AnyThread} PROVE PinsKept'
  BY <1>0, <1>b, AppendPins
<1>1. CASE Take(t)
  <2>1. DOMAIN m_fibers = 1 .. Len(m_fibers)
    BY <1>0, SMT
  <2>2. PICK k \in DOMAIN m_fibers : m_fibers' = Erase(m_fibers, k)
    BY <1>1, <2>1 DEF Take
  <2>3. \A j \in DOMAIN m_fibers' : \E i \in DOMAIN m_fibers : m_fibers'[j] = m_fibers[i]
    <3>1. Removed(m_fibers', m_fibers, k)
      BY <1>0, <2>2, RemoveEntries
    <3> QED BY <3>1 DEF Removed
  <2> QED BY <2>3 DEF PinsKept
<1>2. CASE TakeNothing(t) \/ EnterFiber(t) \/ \E f \in CbFibers : EnterCb(t, f)
  BY <1>2, <1>a DEF TakeNothing, EnterFiber, Enter, EnterCb, Abort, queue
<1>3. CASE addEvent(t) \/ YieldToHold(t) \/ YieldToReady(t) \/ Finish(t) \/ swapOut(t) \/ Deactivate(t)
  BY <1>3, <1>a DEF addEvent, Abort, YieldToHold, YieldToReady, Finish, swapOut, Deactivate, queue
<1>4. CASE Retire(t) \/ SeesHold(t) \/ SetHold(t) \/ WakeDone(t)
  BY <1>4, <1>a DEF Retire, SeesHold, SetHold, Abort, WakeDone, queue
<1>5. CASE IdleChecksPending(t) \/ IdleChecksQueue(t) \/ LeaveIdle(t)
  BY <1>5, <1>a DEF IdleChecksPending, IdleChecksQueue, LeaveIdle, queue
<1>6. CASE Requeue(t)
  <2>1. Cur(t) \in Fibers
    BY <1>0, <1>6 DEF Requeue, CurInv
  <2>2. PICK e \in Task : e = FiberTask(Cur(t), AnyThread)
    BY <2>1, Tasks
  <2> QED BY <1>6, <1>b, <2>2 DEF Requeue, FiberTask
<1>7. CASE \E f \in Fibers : Wake(t, f)
  <2>1. PICK f \in Fibers : Wake(t, f)
    BY <1>7
  <2>2. PICK e \in Task : e = FiberTask(f, AnyThread)
    BY Tasks
  <2> QED BY <1>b, <2>1, <2>2 DEF Wake, FiberTask
<1>8. CASE \E c \in Cbs, thr \in Pins : BodySchedulesCb(t, c, thr)
  <2>1. PICK c \in Cbs, thr \in Pins : BodySchedulesCb(t, c, thr)
    BY <1>8
  <2>2. PICK e \in Task : e = CbTask(c, thr)
    BY ThreadsAssumption, Tasks
  <2> QED BY <1>b, <2>1, <2>2 DEF BodySchedulesCb, CbTask
<1> QED BY <1>1, <1>2, <1>3, <1>4, <1>5, <1>6, <1>7, <1>8, ZenonT(30) DEF Run

\* A thread leaves only when it finds nothing to take: an empty queue, when no task
\* is for another thread and no queued fiber executes.
LEMMA RunLate ==
  ASSUME TypeOK, PlainInv, PinsKept, LateInv, NEW t \in RunThreads, Run(t)
  PROVE  LateInv'
<1> USE Zenon
<1> SUFFICES ASSUME Pins = {AnyThread}, \A u \in RunThreads : pc'[u] \in {"off", "exit"}
             PROVE  m_fibers' = <<>>
  BY DEF LateInv
<1>0. pc \in [RunThreads -> PC] /\ m_fibers \in Seq(Task)
  BY DEF TypeOK
<1>1. TakeNothing(t)
  BY <1>0, RunKinds DEF Working, Take, IdleChecksPending, IdleChecksQueue, Goto
<1>2. ASSUME NEW i \in DOMAIN m_fibers PROVE Takeable(m_fibers[i], t)
  <2>1. m_fibers[i].thread = AnyThread
    BY DEF PinsKept
  <2>2. m_fibers[i].fiber # None => state[m_fibers[i].fiber] # "EXEC"
    BY DEF PlainInv, QueueRests, Resting
  <2> QED BY <2>1, <2>2 DEF Takeable
<1>3. DOMAIN m_fibers = 1 .. Len(m_fibers) /\ Len(m_fibers) \in Nat
  BY <1>0, SMT
<1>4. m_fibers' = m_fibers /\ \A i \in DOMAIN m_fibers : ~Takeable(m_fibers[i], t)
  BY <1>1, <1>3 DEF TakeNothing, queue
<1>5. Len(m_fibers) = 0
  <2>1. Len(m_fibers) # 0 => 1 \in DOMAIN m_fibers
    BY <1>3, SMT
  <2> QED BY <1>2, <1>4, <2>1
<1> QED BY <1>0, <1>4, <1>5, SMT

\* A step of the owner keeps the two.
LEMMA OwnerLate ==
  ASSUME CbInv, ThreadInv, PinsKept, LateInv, User \/ StopStep
  PROVE  PinsKept' /\ LateInv'
<1> USE Zenon
<1>0. /\ TypeOK /\ OwnerInv /\ m_fibers \in Seq(Task) /\ pc \in [RunThreads -> PC]
      /\ RunThreads = Workers \cup (IF UseCaller THEN {Caller} ELSE {}) /\ RunThreads # {}
      /\ UseCaller \in BOOLEAN
  BY ThreadsAssumption DEF CbInv, CountInv, TypeOK, RunThreads
<1>b. ASSUME NEW e \in Task, schedule(e), e.thread \in Pins \cup {AnyThread} PROVE PinsKept'
  BY <1>0, <1>b, AppendPins
<1>1. CASE \E c \in Cbs, thr \in Pins : UserSchedulesCb(c, thr)
  <2>1. PICK c \in Cbs, thr \in Pins : UserSchedulesCb(c, thr)
    BY <1>1
  <2>2. PICK e \in Task : e = CbTask(c, thr)
    BY ThreadsAssumption, Tasks
  <2> QED BY <1>b, <2>1, <2>2 DEF UserSchedulesCb, CbTask, LateInv
<1>2. CASE \E f \in UserFibers, thr \in Pins : UserSchedulesFiber(f, thr)
  <2>1. PICK f \in UserFibers, thr \in Pins : UserSchedulesFiber(f, thr)
    BY <1>2
  <2>2. PICK e \in Task : e = FiberTask(f, thr)
    BY ThreadsAssumption, Tasks DEF Fibers
  <2> QED BY <1>b, <2>1, <2>2 DEF UserSchedulesFiber, FiberTask, LateInv
<1>3. CASE Start \/ Stop \/ StopStep
  <2>1. m_fibers' = m_fibers
    BY <1>3 DEF Start, Stop, StopStep, StopChecksPending, StopChecksQueue, RootFiberReturns,
         Join, queue
  <2>2. PinsKept'
    BY <2>1 DEF PinsKept
  <2>3. CASE Start
    BY <2>2, <2>3 DEF Start, LateInv
  <2>4. CASE Stop
    <3>1. caller = "user" /\ pc' = pc /\ caller' = IF UseCaller THEN "check" ELSE "join"
      BY <2>4 DEF Stop, threads
    <3>2. \A w \in Workers : pc[w] \notin {"off", "exit"}
      BY <1>0, <3>1 DEF ThreadInv
    <3>3. (\A t \in RunThreads : pc'[t] \in {"off", "exit"}) => Workers = {} /\ UseCaller
      BY <1>0, <3>1, <3>2
    <3> QED BY <2>2, <3>1, <3>3 DEF LateInv
  <2>5. CASE StopChecksPending \/ StopChecksQueue
    <3>1. /\ caller \in {"check", "check2"} /\ UseCaller /\ Caller \in RunThreads
          /\ \/ caller = "check" /\ caller' = "check2" /\ pc' = pc
             \/ caller' = "join" /\ m_fibers = <<>>
             \/ pc' = [pc EXCEPT ![Caller] = "take"]
      BY <1>0, <2>5 DEF StopChecksPending, StopChecksQueue, Stopping, Goto, OwnerInv
    <3>2. CASE caller = "check" /\ caller' = "check2" /\ pc' = pc
      BY <2>1, <2>2, <3>2 DEF LateInv
    <3>3. CASE caller' = "join" /\ m_fibers = <<>>
      BY <2>1, <2>2, <3>3 DEF LateInv
    <3>4. CASE pc' = [pc EXCEPT ![Caller] = "take"]
      <4>1. pc'[Caller] = "take"
        BY <1>0, <3>1, <3>4
      <4> QED BY <2>2, <3>1, <4>1 DEF LateInv
    <3> QED BY <3>1, <3>2, <3>3, <3>4
  <2>6. CASE RootFiberReturns \/ Join
    BY <2>1, <2>2, <2>6 DEF RootFiberReturns, Join, LateInv, threads
  <2> QED BY <1>3, <2>3, <2>4, <2>5, <2>6 DEF StopStep
<1> QED BY <1>1, <1>2, <1>3, ZenonT(30) DEF User

\* Everything the plain scheduler keeps.
AllPlain == StopInv /\ PlainInv /\ PinsKept /\ LateInv

\* Every step keeps it.
LEMMA NextAllPlain ==
  ASSUME FiniteSetFacts, MaxWaits = 0, ~Resubmit, AllPlain, [Next]_vars
  PROVE  AllPlain'
<1> USE Zenon
<1>0. StopInv /\ CbInv /\ CountInv /\ TypeOK /\ ThreadInv /\ PlainInv /\ PinsKept /\ LateInv
  BY DEF AllPlain, StopInv, CbInv, CountInv
<1>1. StopInv'
  BY <1>0, NextStopInv
<1>2. PlainInv' /\ PinsKept' /\ LateInv'
  <2>1. CASE User \/ StopStep
    BY <1>0, <2>1, OwnerPlain, OwnerLate
  <2>2. ASSUME NEW t \in RunThreads, Run(t) PROVE PlainInv' /\ PinsKept' /\ LateInv'
    BY <1>0, <2>2, RunPlain, RunPins, RunLate
  <2>3. CASE UNCHANGED vars
    <3>1. /\ UNCHANGED <<m_fibers, waiting, state, ctx, pc, ft, cb_fiber>>
          /\ UNCHANGED <<caller, given, failed>>
      BY <2>3 DEF vars, queue, events, fibers, threads, bounds
    <3>2. OnePlace' /\ QueueRests' /\ Suspended'
      <4>1. OnePlace /\ QueueRests /\ Suspended
        BY <1>0 DEF PlainInv
      <4>2. OnePlace' /\ QueueRests'
        BY <3>1, <4>1 DEF OnePlace, QueueRests, Resting
      <4>3. Suspended'
        BY <3>1, <4>1 DEF Suspended, Cur
      <4> QED BY <4>2, <4>3
    <3>3. ASSUME NEW t \in RunThreads PROVE Phase(t)'
      <4>1. Phase(t)
        BY <1>0 DEF PlainInv
      <4> QED BY <3>1, <4>1 DEF Phase, Resting, Cur
    <3> QED BY <1>0, <3>1, <3>2, <3>3 DEF PlainInv, PinsKept, LateInv
  <2> QED BY <2>1, <2>2, <2>3 DEF Next, Terminated
<1> QED BY <1>1, <1>2 DEF AllPlain

\* In the constructor no fiber was given.
LEMMA InitAllPlain ==
  ASSUME FiniteSetFacts
  PROVE  Init => AllPlain
<1> USE Zenon
<1> SUFFICES ASSUME Init PROVE AllPlain
  OBVIOUS
<1>1. /\ m_fibers = <<>> /\ DOMAIN m_fibers = {} /\ failed = None /\ waiting = {} /\ caller = "init"
      /\ \A t \in RunThreads : ft[t].fiber = None /\ cb_fiber[t] = None /\ pc[t] = "off"
      /\ \A f \in Fibers : state[f] = "INIT" /\ ctx[f] = "fresh"
  BY SMT DEF Init, NoTask
<1>2. PlainInv
  <2>1. OnePlace /\ QueueRests /\ Suspended
    BY <1>1 DEF OnePlace, QueueRests, Suspended
  <2>2. \A t \in RunThreads : Phase(t)
    BY <1>1 DEF Phase
  <2>3. \A f \in UserFibers \ given :
          /\ state[f] = "INIT" /\ ctx[f] = "fresh"
          /\ \A i \in DOMAIN m_fibers : m_fibers[i].fiber # f
          /\ \A t \in RunThreads : ft[t].fiber # f
    <3> TAKE f \in UserFibers \ given
    <3>1. f \in Fibers /\ f # None
      BY TasksAssumption DEF Fibers
    <3> QED BY <1>1, <3>1
  <2> QED BY <1>1, <2>1, <2>2, <2>3 DEF PlainInv
<1>3. PinsKept /\ LateInv
  BY <1>1 DEF PinsKept, LateInv
<1> QED BY <1>2, <1>3, InitStopInv DEF AllPlain

\* Threads that have ended, after their idle fiber, left nothing, unless one took a
\* task in between.
LEMMA NothingLeft ==
  ASSUME FiniteSetFacts, StopInv, caller = "done", ~late
  PROVE  /\ m_fibers = <<>> /\ waiting = {}
         /\ \A c \in given \cap Cbs : started[c] = 1
<1> USE Zenon
<1>1. \A t \in RunThreads : pc[t] \in {"off", "exit"} /\ (pc[t] = "off" \/ idleTerm[t])
  BY DEF StopInv, ThreadInv, RunThreads
<1>2. m_fibers = <<>> /\ waiting = {}
  BY <1>1 DEF StopInv, LeaveInv, Gone
<1>3. ASSUME NEW c \in given \cap Cbs PROVE started[c] = 1
  BY <1>1, <1>2, QuietCbStarted DEF StopInv
<1> QED BY <1>2, <1>3

\* Fibers that are in one place each are on one stack each.
LEMMA OwnStacks == ASSUME AllPlain PROVE OneThreadPerFiber
<1> SUFFICES ASSUME NEW t \in RunThreads, NEW u \in RunThreads, t # u, OnStack(t), OnStack(u)
             PROVE  Cur(t) # Cur(u)
  BY DEF OneThreadPerFiber
<1>1. Cur(t) \in Fibers /\ Cur(u) \in Fibers /\ OnePlace
  BY Zenon DEF AllPlain, StopInv, CbInv, CountInv, CurInv, PlainInv, OnStack, ActiveLabels
<1> QED BY <1>1, TasksAssumption, Zenon DEF Cur, OnePlace

\* The plain scheduler leaves nothing, late tasks or not.
LEMMA PlainDrains == ASSUME FiniteSetFacts, AllPlain PROVE StopDrains
<1> USE Zenon
<1> SUFFICES ASSUME caller = "done", late => Pins = {AnyThread}
             PROVE  /\ m_fibers = <<>> /\ waiting = {}
                    /\ \A f \in Fibers : ctx[f] # "suspended"
                    /\ \A c \in given \cap Cbs : started[c] = 1
  BY DEF StopDrains
<1>1. \A t \in RunThreads : pc[t] \in {"off", "exit"} /\ (pc[t] = "off" \/ idleTerm[t])
  BY DEF AllPlain, StopInv, ThreadInv, RunThreads
<1>2. m_fibers = <<>>
  <2>1. CASE late
    BY <1>1, <2>1 DEF AllPlain, LateInv
  <2>2. CASE ~late
    BY <1>1, <2>2 DEF AllPlain, StopInv, LeaveInv, Gone
  <2> QED BY <2>1, <2>2
<1>3. waiting = {} /\ \A f \in Fibers : ctx[f] # "suspended"
  BY <1>1, <1>2, SMT DEF AllPlain, PlainInv, Suspended
<1>4. ASSUME NEW c \in given \cap Cbs PROVE started[c] = 1
  BY <1>1, <1>2, QuietCbStarted DEF AllPlain, StopInv
<1> QED BY <1>2, <1>3, <1>4

-----------------------------------------------------------------------------
(* The theorems.  The library's facts about finite sets are instantiated here: the
   lemmas above have what they use of them as the assumption FiniteSetFacts. *)
INSTANCE FiniteSetTheorems

\* Finite sets count as the lemmas assume.
LEMMA FiniteSetsAreCounted == FiniteSetFacts
<1> USE Zenon
<1>1. /\ IsFiniteSet({}) /\ Cardinality({}) = 0
      /\ \A S : IsFiniteSet(S) => (Cardinality(S) = 0 <=> S = {})
  BY FS_EmptySet
<1>2. \A S : IsFiniteSet(S) => Cardinality(S) \in Nat
  BY FS_CardinalityType
<1>3. \A S : IsFiniteSet(S) => \A R \in SUBSET S : IsFiniteSet(R)
  BY FS_Subset
<1>4. \A S, x : IsFiniteSet(S) =>
        /\ IsFiniteSet(S \cup {x})
        /\ Cardinality(S \cup {x}) = IF x \in S THEN Cardinality(S) ELSE Cardinality(S) + 1
  BY FS_AddElement
<1>5. \A S, x : IsFiniteSet(S) =>
        /\ IsFiniteSet(S \ {x})
        /\ Cardinality(S \ {x}) = IF x \in S THEN Cardinality(S) - 1 ELSE Cardinality(S)
  BY FS_RemoveElement
<1>6. ASSUME NEW n \in Nat PROVE IsFiniteSet(1 .. n)
  <2>1. 1 \in Int /\ n \in Int
    BY SMT
  <2> QED BY <2>1, FS_Interval
<1>7. ASSUME NEW S, NEW R, NEW f \in Bijection(S, R), IsFiniteSet(S) PROVE Cardinality(R) = Cardinality(S)
  <2>1. ExistsBijection(S, R)
    BY DEF ExistsBijection
  <2> QED BY <1>7, <2>1, FS_Bijection, ZenonT(30)
<1> QED BY <1>1, <1>2, <1>3, <1>4, <1>5, <1>6, <1>7, ZenonT(30) DEF FiniteSetFacts

\* The type invariant and the two counters stopping() relies on, for every number
\* of threads, fibers, callbacks, waits and yields.
THEOREM CountersCorrect == Spec => [](TypeOK /\ ActiveCountExact /\ PendingCovers)
<1>1. Init => CountInv
  BY FiniteSetsAreCounted, InitCountInv, SMTT(20)
<1>2. CountInv /\ [Next]_vars => CountInv'
  BY FiniteSetsAreCounted, NextCountInv, SMTT(20)
<1>3. CountInv => TypeOK /\ ActiveCountExact /\ PendingCovers
  BY DEF CountInv
<1> QED BY <1>1, <1>2, <1>3, PTL DEF Spec

\* No callback is lost and none is run twice: what was passed to schedule() is in
\* the queue, with one thread, or started once, in every execution.
THEOREM CallbacksConserved == Spec => []CbConserved
<1>1. CbInv => CbConserved
  BY DEF CbInv
<1>2. Init => CbInv
  BY FiniteSetsAreCounted, InitCbInv, ZenonT(30)
<1>3. CbInv /\ [Next]_vars => CbInv'
  BY FiniteSetsAreCounted, NextCbInv, ZenonT(30)
<1> QED BY <1>1, <1>2, <1>3, PTL DEF Spec

\* While a fiber waits for an event, a thread that has not left run() is there to
\* be woken, for any number of threads, fibers and waits.
THEOREM WaitersAreServed == Spec => []WaiterHasThread
<1>1. StopInv => WaiterHasThread
  BY SMTT(20) DEF StopInv, ThreadInv, LeaveInv, WaiterHasThread
<1>2. Init => StopInv
  BY FiniteSetsAreCounted, InitStopInv, Zenon
<1>3. StopInv /\ [Next]_vars => StopInv'
  BY FiniteSetsAreCounted, NextStopInv, Zenon
<1> QED BY <1>1, <1>2, <1>3, PTL DEF Spec

\* Once stop() has returned, and no thread took a task after its idle fiber had
\* ended, the queue is empty, no fiber waits and every callback given to schedule()
\* was started: with waits, with yields, with pinned tasks and with fibers
\* scheduled again.
THEOREM StopLeavesNothing ==
  Spec => [](caller = "done" /\ ~late =>
               /\ m_fibers = <<>> /\ waiting = {}
               /\ \A c \in given \cap Cbs : started[c] = 1)
<1>1. ASSUME StopInv, caller = "done", ~late
      PROVE  /\ m_fibers = <<>> /\ waiting = {}
             /\ \A c \in given \cap Cbs : started[c] = 1
  BY <1>1, FiniteSetsAreCounted, NothingLeft, ZenonT(30)
<1>2. Init => StopInv
  BY FiniteSetsAreCounted, InitStopInv, Zenon
<1>3. StopInv /\ [Next]_vars => StopInv'
  BY FiniteSetsAreCounted, NextStopInv, Zenon
<1> QED BY <1>1, <1>2, <1>3, PTL DEF Spec

\* The invariant of the plain scheduler holds in every state.
LEMMA PlainAlways ==
  ASSUME MaxWaits = 0, ~Resubmit
  PROVE  Spec => []AllPlain
<1>1. AllPlain /\ [Next]_vars => AllPlain'
  BY FiniteSetsAreCounted, NextAllPlain, SMTT(20)
<1>2. Init => AllPlain
  BY FiniteSetsAreCounted, InitAllPlain, SMTT(20)
<1> QED BY <1>1, <1>2, PTL DEF Spec

\* Without waits, and with every fiber scheduled once, no ASSERT of the scheduler
\* and of Fiber (swapIn, reset, MainFunc, the destructor) fails, for any number of
\* threads, fibers, callbacks and yields.
THEOREM PlainAssertsHold ==
  ASSUME MaxWaits = 0, ~Resubmit
  PROVE  Spec => []AssertsHold
<1>1. AllPlain => AssertsHold
  BY DEF AllPlain, PlainInv, AssertsHold
<1> QED BY <1>1, PlainAlways, PTL

\* Under the same conditions no two threads are ever on the stack of one fiber.
THEOREM PlainStacksAreOwn ==
  ASSUME MaxWaits = 0, ~Resubmit
  PROVE  Spec => []OneThreadPerFiber
<1>1. AllPlain => OneThreadPerFiber
  BY OwnStacks, ZenonT(30)
<1> QED BY <1>1, PlainAlways, PTL

\* And nothing is left when stop() returns: no entry, no suspended fiber and no
\* callback that was not run.
THEOREM PlainSchedulerDrains ==
  ASSUME MaxWaits = 0, ~Resubmit
  PROVE  Spec => []StopDrains
<1>1. AllPlain => StopDrains
  BY FiniteSetsAreCounted, PlainDrains, ZenonT(30)
<1> QED BY <1>1, PlainAlways, PTL

\* Under the scheduler fibers wait and are woken as WakeSource says, for any number
\* of threads, fibers, callbacks and waits, where no fiber calls YieldToReady and
\* each is scheduled once: nobody waits who is waiting already, and the count falls
\* only after the waiter is queued.
THEOREM WaitsAreWakeSource ==
  ASSUME MaxReady = 0, ~Resubmit
  PROVE  Spec => UsesWakeSource
<1>1. Init => CountInv /\ TurnInv
  BY FiniteSetsAreCounted, InitCountInv, InitTurns, SMTT(20)
<1>2. CountInv /\ TurnInv /\ [Next]_vars => CountInv' /\ TurnInv'
  BY FiniteSetsAreCounted, NextCountInv, NextTurns, SMTT(20)
<1>3. Init => Wakes!Init
  BY DEF Init, Wakes!Init
<1>4. CountInv /\ TurnInv /\ [Next]_vars => [Wakes!Next]_(Wakes!vars)
  <2> SUFFICES ASSUME CountInv, TurnInv, [Next]_vars
               PROVE  Wakes!Next \/ UNCHANGED <<waiting, Waking, m_pendingEventCount>>
    BY Zenon DEF Wakes!vars, Waking
  <2> QED BY NextWakes
<1> QED BY <1>1, <1>2, <1>3, <1>4, PTL DEF Spec, UsesWakeSource, Wakes!Spec
=============================================================================
