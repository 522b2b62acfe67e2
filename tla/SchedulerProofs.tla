--------------------------- MODULE SchedulerProofs ---------------------------
(***************************************************************************)
(* Three invariants of the scheduler, for any number of threads, fibers    *)
(* and callbacks.  CountInv: m_active_thread_count is the number of        *)
(* threads that hold work, and m_pendingEventCount covers every registered *)
(* wait; one step of run() moves one thread (GotoCount).  TurnInv: a fiber *)
(* waits, is queued, or is in one thread's hands, so it does not wait      *)
(* twice (NextTurns), and every step is one of WakeSource (NextWakes).     *)
(* CbInv: a callback given to schedule() is in the queue, with one thread  *)
(* or started, and in one of them only.  The theorems are at the end of    *)
(* SchedulerWorkProofs.                                                    *)
(***************************************************************************)
EXTENDS Scheduler, TLAPS

-----------------------------------------------------------------------------
(* Counting.  The lemmas of this module and of SchedulerWorkProofs that count
   have these facts about finite sets as an assumption, which is proved from the
   library where the theorems are (FiniteSetsAreCounted): the library's many
   theorems stay out of the proofs that do not need them.                    *)

FiniteSetFacts ==
  /\ IsFiniteSet({}) /\ Cardinality({}) = 0
  /\ \A S : IsFiniteSet(S) => Cardinality(S) \in Nat /\ (Cardinality(S) = 0 <=> S = {})
  /\ \A S : IsFiniteSet(S) => \A R \in SUBSET S : IsFiniteSet(R)
  /\ \A S, x : IsFiniteSet(S) =>
       /\ IsFiniteSet(S \cup {x})
       /\ Cardinality(S \cup {x}) = IF x \in S THEN Cardinality(S) ELSE Cardinality(S) + 1
  /\ \A S, x : IsFiniteSet(S) =>
       /\ IsFiniteSet(S \ {x})
       /\ Cardinality(S \ {x}) = IF x \in S THEN Cardinality(S) - 1 ELSE Cardinality(S)
  /\ \A n \in Nat : IsFiniteSet(1 .. n)
  /\ \A S, R : \A f \in Bijection(S, R) : IsFiniteSet(S) => Cardinality(R) = Cardinality(S)

\* Nothing counts 0.
LEMMA EmptyCount ==
  ASSUME FiniteSetFacts
  PROVE  /\ IsFiniteSet({}) /\ Cardinality({}) = 0
         /\ \A S : IsFiniteSet(S) => (Cardinality(S) = 0 <=> S = {})
BY Zenon DEF FiniteSetFacts

\* A count is a natural number.
LEMMA CountType == ASSUME FiniteSetFacts, NEW S, IsFiniteSet(S) PROVE Cardinality(S) \in Nat
BY Zenon DEF FiniteSetFacts

\* What is part of a finite set is finite.
LEMMA SubsetFinite == ASSUME FiniteSetFacts, NEW S, IsFiniteSet(S), NEW R \in SUBSET S PROVE IsFiniteSet(R)
BY Zenon DEF FiniteSetFacts

\* One more thread, entry or waiter counts one more.
LEMMA OneMore ==
  ASSUME FiniteSetFacts, NEW S, NEW x, IsFiniteSet(S)
  PROVE  /\ IsFiniteSet(S \cup {x})
         /\ Cardinality(S \cup {x}) = IF x \in S THEN Cardinality(S) ELSE Cardinality(S) + 1
BY Zenon DEF FiniteSetFacts

\* One less counts one less.
LEMMA OneLess ==
  ASSUME FiniteSetFacts, NEW S, NEW x, IsFiniteSet(S)
  PROVE  /\ IsFiniteSet(S \ {x})
         /\ Cardinality(S \ {x}) = IF x \in S THEN Cardinality(S) - 1 ELSE Cardinality(S)
BY Zenon DEF FiniteSetFacts

\* A list has finitely many places.
LEMMA PlacesOfList == ASSUME FiniteSetFacts, NEW n \in Nat PROVE IsFiniteSet(1 .. n)
BY Zenon DEF FiniteSetFacts

\* Sets that match one to one count the same.
LEMMA SameCount ==
  ASSUME FiniteSetFacts, NEW S, NEW R, NEW f \in Bijection(S, R), IsFiniteSet(S)
  PROVE  Cardinality(R) = Cardinality(S)
BY Zenon DEF FiniteSetFacts

\* Taking one entry out of the run queue (m_fibers.erase(it)) leaves the others in
\* their order.
LEMMA EraseProperties ==
  ASSUME NEW S, NEW s \in Seq(S), NEW i \in 1 .. Len(s)
  PROVE  /\ Erase(s, i) \in Seq(S)
         /\ Len(Erase(s, i)) = Len(s) - 1
         /\ \A j \in 1 .. Len(s) - 1 :
              Erase(s, i)[j] = IF j < i THEN s[j] ELSE s[j + 1]
<1> USE Zenon
<1> DEFINE a == SubSeq(s, 1, i - 1)
           b == SubSeq(s, i + 1, Len(s))
<1>1. /\ a \in Seq(S) /\ Len(a) = i - 1
      /\ \A j \in 1 .. i - 1 : a[j] = s[j]
  BY SMT
<1>2. /\ b \in Seq(S) /\ Len(b) = Len(s) - i
      /\ \A j \in 1 .. Len(s) - i : b[j] = s[i + j]
  BY SMT
<1>3. Erase(s, i) = a \o b
  BY DEF Erase
<1> HIDE DEF a, b
<1>4. /\ a \o b \in Seq(S) /\ Len(a \o b) = Len(a) + Len(b)
      /\ \A j \in 1 .. Len(a) + Len(b) :
           (a \o b)[j] = IF j <= Len(a) THEN a[j] ELSE b[j - Len(a)]
  <2>1. a \in Seq(S) /\ b \in Seq(S) BY <1>1, <1>2
  <2>2. a \o b \in Seq(S) BY <2>1, SMT
  <2>3. Len(a \o b) = Len(a) + Len(b) BY <2>1, SMT
  <2>4. \A j \in 1 .. Len(a) + Len(b) : (a \o b)[j] = IF j <= Len(a) THEN a[j] ELSE b[j - Len(a)] BY <2>1, SMT
  <2> QED BY <2>2, <2>3, <2>4
<1>5. ASSUME NEW j \in 1 .. Len(s) - 1
      PROVE  (a \o b)[j] = IF j < i THEN s[j] ELSE s[j + 1]
  <2>1. CASE j < i
    BY <1>1, <1>2, <1>4, <2>1, SMT
  <2>2. CASE ~(j < i)
    <3>1. (a \o b)[j] = b[j - (i - 1)] /\ j - (i - 1) \in 1 .. Len(s) - i
      BY <1>1, <1>2, <1>4, <2>2, SMT
    <3>2. b[j - (i - 1)] = s[i + (j - (i - 1))]
      BY <1>2, <3>1
    <3> QED BY <2>2, <3>1, <3>2, SMT
  <2> QED BY <2>1, <2>2
<1> QED
  BY <1>1, <1>2, <1>3, <1>4, <1>5, SMT

\* run() executes on finitely many threads.
LEMMA RunThreadsFinite == ASSUME FiniteSetFacts PROVE IsFiniteSet(RunThreads)
<1>1. IsFiniteSet(Workers) /\ IsFiniteSet(Workers \cup {Caller})
  BY ThreadsAssumption, OneMore, Zenon
<1>2. RunThreads = Workers \/ RunThreads = Workers \cup {Caller}
  BY DEF RunThreads
<1> QED BY <1>1, <1>2, Zenon

-----------------------------------------------------------------------------
(* The counters *)

\* Moving one thread to another point of run() changes a count by at most one.
LEMMA GotoCount ==
  ASSUME FiniteSetFacts, TypeOK, NEW t \in RunThreads, NEW l \in PC, Goto(t, l), NEW labels
  PROVE  /\ CountAt(labels) \in Nat /\ CountAt(labels)' \in Nat
         /\ CountAt(labels)' =
              IF pc[t] \notin labels /\ l \in labels THEN CountAt(labels) + 1
              ELSE IF pc[t] \in labels /\ l \notin labels THEN CountAt(labels) - 1
              ELSE CountAt(labels)
<1> USE Zenon
<1> DEFINE old == {u \in RunThreads : pc[u] \in labels}
           new == {u \in RunThreads : pc'[u] \in labels}
<1>1. IsFiniteSet(old) /\ IsFiniteSet(new)
  BY RunThreadsFinite, SubsetFinite
<1>2. Cardinality(old) \in Nat /\ Cardinality(new) \in Nat
  BY <1>1, CountType
<1>3. pc'[t] = l /\ \A u \in RunThreads \ {t} : pc'[u] = pc[u]
  BY DEF TypeOK, Goto
<1>4. CountAt(labels) = Cardinality(old) /\ CountAt(labels)' = Cardinality(new)
  BY DEF CountAt
<1>5. CASE pc[t] \notin labels /\ l \in labels
  <2>1. new = old \cup {t} /\ t \notin old
    BY <1>3, <1>5, SMT
  <2> QED BY <1>1, <1>2, <1>4, <1>5, <2>1, OneMore
<1>6. CASE pc[t] \in labels /\ l \notin labels
  <2>1. new = old \ {t} /\ t \in old
    BY <1>3, <1>6, SMT
  <2> QED BY <1>1, <1>2, <1>4, <1>6, <2>1, OneLess
<1>7. CASE (pc[t] \in labels) = (l \in labels)
  <2>1. new = old
    BY <1>3, <1>7, SMT
  <2> QED BY <1>2, <1>4, <1>7, <2>1
<1> QED BY <1>2, <1>4, <1>5, <1>6, <1>7, SMT

\* Where threads can be depends on how far the owner has got.
OwnerInv ==
  /\ caller = "init" => \A t \in RunThreads : pc[t] = "off"
  /\ UseCaller /\ caller \in {"init", "user", "check", "check2"} => pc[Caller] = "off"
  /\ caller \in {"check", "check2", "call"} => UseCaller

\* From swapIn until ft or cb_fiber is released, run() has a fiber.
CurInv ==
  \A t \in RunThreads :
    pc[t] \in (ActiveLabels \ {"taken"}) \cup {"post", "sethold"} => Cur(t) \in Fibers

CountInv == /\ TypeOK /\ CurInv /\ OwnerInv /\ ActiveCountExact /\ PendingCovers
            /\ IsFiniteSet(waiting)

\* The labels of run() and the fiber states, without expanding the sets each time.
LEMMA Constants ==
  /\ \A l \in {"off", "take", "taken", "body", "registered", "yield", "finish"} : l \in PC
  /\ \A l \in {"dec", "post", "sethold", "idle", "check2", "poll", "woke"} : l \in PC
  /\ "bodywoke" \in PC /\ "exit" \in PC
  /\ \A s \in {"INIT", "HOLD", "EXEC", "TERM", "READY", "ERROR"} : s \in FiberState
  /\ \A x \in {"fresh", "running", "suspended", "done"} : x \in Context
BY DEF PC, FiberState, Context

\* The three ways to build a FiberAndThread build a task.
LEMMA Tasks ==
  /\ NoTask \in Task
  /\ \A f \in Fibers, thr \in RunThreads \cup {AnyThread} : FiberTask(f, thr) \in Task
  /\ \A c \in Cbs, thr \in RunThreads \cup {AnyThread} : CbTask(c, thr) \in Task
BY DEF NoTask, FiberTask, CbTask, Task

\* A step of run() keeps every variable in its type.
LEMMA RunType ==
  ASSUME FiniteSetFacts, CountInv, NEW t \in RunThreads, Run(t)
  PROVE  TypeOK'
<1> USE Zenon
<1>0. /\ TypeOK /\ CurInv /\ ActiveCountExact /\ PendingCovers
      /\ m_fibers \in Seq(Task) /\ ft \in [RunThreads -> Task]
      /\ state \in [Fibers -> FiberState] /\ ctx \in [Fibers -> Context]
      /\ started \in [Cbs -> Nat]
  BY DEF CountInv, TypeOK
<1>n. /\ waits \in 0 .. MaxWaits /\ readies \in 0 .. MaxReady
      /\ MaxWaits \in Nat /\ MaxReady \in Nat
      /\ m_pendingEventCount \in Nat /\ m_active_thread_count \in Nat
  BY BoundsAssumption DEF CountInv, TypeOK
<1>1. CASE Take(t)
  <2>1. PICK i \in 1 .. Len(m_fibers) : /\ ft' = [ft EXCEPT ![t] = m_fibers[i]]
                                        /\ m_fibers' = Erase(m_fibers, i)
    BY <1>1 DEF Take
  <2>2. m_fibers' \in Seq(Task)
    BY <1>0, <2>1, EraseProperties
  <2>3. m_fibers[i] \in Task
    BY <1>0, SMT
  <2>4. ft' \in [RunThreads -> Task]
    BY <1>0, <2>1, <2>3
  <2>6. m_active_thread_count' = m_active_thread_count + 1
    BY <1>1 DEF Take
  <2>5. m_active_thread_count' \in Nat
    BY <1>n, <2>6, SMT
  <2>7. late' \in BOOLEAN
    BY <1>1 DEF Take
  <2> QED BY <1>0, <1>1, <2>2, <2>4, <2>5, <2>7, Constants DEF Take, TypeOK, Goto,
       queue, events, fibers, threads, bounds
<1>2. CASE TakeNothing(t)
  BY <1>0, <1>2, Constants DEF TakeNothing, TypeOK, Goto,
       queue, events, fibers, threads, bounds
<1>3. CASE EnterFiber(t)
  <2>1. CASE state[ft[t].fiber] = "EXEC"
    BY <1>0, <1>3, <2>1 DEF EnterFiber, Enter, Abort, TypeOK, Goto,
       queue, events, fibers, threads, bounds
  <2>2. CASE state[ft[t].fiber] # "EXEC" /\ ctx[ft[t].fiber] = "done"
    BY <1>0, <1>3, <2>2 DEF EnterFiber, Enter, Abort, TypeOK, Goto,
       queue, events, fibers, threads, bounds
  <2>3. CASE state[ft[t].fiber] # "EXEC" /\ ctx[ft[t].fiber] # "done"
    <3>1. state' \in [Fibers -> FiberState] /\ ctx' \in [Fibers -> Context]
      BY <1>0, <1>3, <2>3, Constants DEF EnterFiber, Enter
    <3>2. pc' = [pc EXCEPT ![t] = "body"] /\ "body" \in PC
      BY <1>3, <2>3, Constants DEF EnterFiber, Enter, Goto
    <3>3. UNCHANGED <<queue, events, ft, cb_fiber, idleTerm, caller, bounds, failed>>
      BY <1>3, <2>3 DEF EnterFiber, Enter
    <3>4. pc' \in [RunThreads -> PC]
      BY <1>0, <3>2 DEF TypeOK
    <3> QED BY <1>0, <3>1, <3>3, <3>4 DEF TypeOK, queue, events, bounds
  <2> QED BY <2>1, <2>2, <2>3
<1>4. CASE \E f \in CbFibers : EnterCb(t, f)
  <2>1. PICK f \in CbFibers : EnterCb(t, f)
    BY <1>4
  <2>2. CASE cb_fiber[t] # None /\ state[f] \notin {"TERM", "INIT", "ERROR"}
    BY <1>0, <2>1, <2>2 DEF EnterCb, Abort, TypeOK, Goto,
       queue, events, fibers, threads, bounds
  <2>3. CASE ~(cb_fiber[t] # None /\ state[f] \notin {"TERM", "INIT", "ERROR"})
    <3>1. /\ ft[t].thread \in RunThreads \cup {AnyThread} /\ ft[t].cb \in Cbs
          /\ f \in Fibers
      BY <1>0, <2>1 DEF Task, EnterCb, Fibers
    <3>2. started' = [started EXCEPT ![ft[t].cb] = @ + 1]
      BY <2>1, <2>3 DEF EnterCb
    <3>3. started[ft[t].cb] + 1 \in Nat
      BY <1>0, <3>1, SMT
    <3>4. started' \in [Cbs -> Nat]
      BY <1>0, <3>1, <3>2, <3>3
    <3>5. state' \in [Fibers -> FiberState] /\ ctx' \in [Fibers -> Context]
      BY <1>0, <2>1, <2>3, <3>1, Constants DEF EnterCb
    <3>6. ft' \in [RunThreads -> Task]
      BY <1>0, <2>1, <2>3, Tasks DEF EnterCb
    <3>7. cb_fiber' \in [RunThreads -> CbFibers \cup {None}]
      <4>1. cb_fiber \in [RunThreads -> CbFibers \cup {None}]
        BY <1>0 DEF TypeOK
      <4>2. cb_fiber' = [cb_fiber EXCEPT ![t] = f]
        BY <2>1, <2>3 DEF EnterCb
      <4> QED BY <4>1, <4>2
    <3>8. pc' \in [RunThreads -> PC]
      <4>1. pc \in [RunThreads -> PC] /\ "body" \in PC
        BY <1>0, Constants DEF TypeOK
      <4>2. pc' = [pc EXCEPT ![t] = "body"]
        BY <2>1, <2>3 DEF EnterCb, Goto
      <4> QED BY <4>1, <4>2
    <3>9. UNCHANGED <<queue, events, idleTerm, caller, given, readies, waits, late, failed>>
      BY <2>1, <2>3 DEF EnterCb
    <3> QED BY <1>0, <3>4, <3>5, <3>6, <3>7, <3>8, <3>9
            DEF TypeOK, queue, events
  <2> QED BY <2>2, <2>3
<1>5. CASE \E c \in Cbs, thr \in Pins : BodySchedulesCb(t, c, thr)
  <2>1. PICK c \in Cbs, thr \in Pins : BodySchedulesCb(t, c, thr)
    BY <1>5
  <2>2. CbTask(c, thr) \in Task
    BY ThreadsAssumption, Tasks
  <2>3. m_fibers' \in Seq(Task)
    BY <1>0, <2>1, <2>2, SMT DEF BodySchedulesCb, schedule, TypeOK
  <2> QED BY <1>0, <2>1, <2>3 DEF BodySchedulesCb, TypeOK, Goto,
       queue, events, fibers, threads, bounds
<1>6. CASE addEvent(t)
  <2>1. Cur(t) \in Fibers
    BY <1>0, <1>6 DEF addEvent, CurInv, ActiveLabels
  <2>2. waits < MaxWaits => waits + 1 \in 0 .. MaxWaits
    BY <1>n, SMT
  <2>3. CASE state[Cur(t)] # "EXEC"
    BY <1>0, <1>6, <2>3 DEF addEvent, Abort, TypeOK, Goto,
       queue, events, fibers, threads, bounds
  <2>4. CASE state[Cur(t)] = "EXEC"
    <3>1. waits' \in 0 .. MaxWaits /\ m_pendingEventCount' \in Nat
      BY <1>n, <1>6, <2>2, <2>4, SMT DEF addEvent
    <3>2. waiting' \subseteq Fibers
      BY <1>0, <1>6, <2>1, <2>4 DEF addEvent, TypeOK
    <3> QED BY <1>0, <1>6, <2>4, <3>1, <3>2, Constants DEF addEvent, TypeOK, Goto,
       queue, events, fibers, threads, bounds
  <2> QED BY <2>3, <2>4
<1>7. CASE YieldToHold(t)
  BY <1>0, <1>7, Constants DEF YieldToHold, TypeOK, Goto,
       queue, events, fibers, threads, bounds
<1>8. CASE YieldToReady(t)
  <2>1. readies < MaxReady => readies + 1 \in 0 .. MaxReady
    BY <1>n, SMT
  <2>2. state' \in [Fibers -> FiberState] /\ readies' \in 0 .. MaxReady
    BY <1>0, <1>n, <1>8, <2>1, Constants DEF YieldToReady
  <2> QED BY <1>0, <1>8, <2>2, Constants DEF YieldToReady, TypeOK, Goto,
       queue, events, fibers, threads, bounds
<1>9. CASE Finish(t)
  <2>1. state' \in [Fibers -> FiberState]
    BY <1>0, <1>9, Constants DEF Finish
  <2> QED BY <1>0, <1>9, <2>1, Constants DEF Finish, TypeOK, Goto,
       queue, events, fibers, threads, bounds
<1>10. CASE swapOut(t)
  BY <1>0, <1>10, Constants, ZenonT(30) DEF swapOut, TypeOK, Goto,
       queue, events, fibers, threads, bounds
<1>11. CASE Deactivate(t)
  <2>1. pc[t] \in ActiveLabels /\ "post" \notin ActiveLabels /\ Goto(t, "post") /\ "post" \in PC
    BY <1>11, Constants DEF Deactivate, ActiveLabels
  <2>2. m_active_thread_count - 1 \in Nat
    BY <1>0, <2>1, GotoCount, SMT DEF ActiveCountExact
  <2> QED BY <1>0, <1>11, <2>2, Constants DEF Deactivate, TypeOK, Goto,
       queue, events, fibers, threads, bounds
<1>12. CASE Requeue(t)
  <2>1. Cur(t) \in Fibers
    BY <1>0, <1>12 DEF Requeue, CurInv
  <2>2. FiberTask(Cur(t), AnyThread) \in Task
    BY <2>1, Tasks
  <2>3. m_fibers' \in Seq(Task)
    BY <1>0, <1>12, <2>2, SMT DEF Requeue, schedule, TypeOK
  <2> QED BY <1>0, <1>12, <2>3, Constants, Tasks DEF Requeue, TypeOK, Goto,
       queue, events, fibers, threads, bounds
<1>13. CASE Retire(t)
  BY <1>0, <1>13, Constants, Tasks DEF Retire, TypeOK, Goto,
       queue, events, fibers, threads, bounds
<1>14. CASE SeesHold(t)
  BY <1>0, <1>14, Constants DEF SeesHold, TypeOK, Goto,
       queue, events, fibers, threads, bounds
<1>15. CASE SetHold(t)
  <2>1. CASE Abort("destructor")
    BY <1>0, <2>1 DEF Abort, TypeOK, queue, events, fibers, threads, bounds
  <2>2. CASE ~Abort("destructor")
    <3>1. /\ state' = [state EXCEPT ![Cur(t)] = "HOLD"] /\ ft' = [ft EXCEPT ![t] = NoTask]
          /\ cb_fiber' = IF ft[t].fiber = None THEN [cb_fiber EXCEPT ![t] = None] ELSE cb_fiber
          /\ pc' = [pc EXCEPT ![t] = "take"]
          /\ UNCHANGED <<queue, events, ctx, idleTerm, caller, bounds, failed>>
      BY <1>15, <2>2 DEF SetHold, Goto
    <3>2. state' \in [Fibers -> FiberState] /\ ft' \in [RunThreads -> Task]
      BY <1>0, <3>1, Constants, Tasks DEF TypeOK
    <3>3. cb_fiber' \in [RunThreads -> CbFibers \cup {None}] /\ pc' \in [RunThreads -> PC]
      BY <1>0, <3>1, Constants DEF TypeOK
    <3> QED BY <1>0, <3>1, <3>2, <3>3 DEF TypeOK, queue, events, bounds
  <2> QED BY <2>1, <2>2
<1>16. CASE IdleChecksPending(t)
  BY <1>0, <1>16, Constants DEF IdleChecksPending, TypeOK, Goto,
       queue, events, fibers, threads, bounds
<1>17. CASE IdleChecksQueue(t)
  <2>1. Stopping \in BOOLEAN
    BY DEF Stopping
  <2>2. idleTerm' \in [RunThreads -> BOOLEAN]
    BY <1>0, <1>17, <2>1 DEF IdleChecksQueue, TypeOK
  <2> QED BY <1>0, <1>17, <2>2, Constants DEF IdleChecksQueue, TypeOK, Goto,
       queue, events, fibers, threads, bounds
<1>18. CASE LeaveIdle(t)
  BY <1>0, <1>18, Constants DEF LeaveIdle, TypeOK, Goto,
       queue, events, fibers, threads, bounds
<1>19. CASE \E f \in Fibers : Wake(t, f)
  <2>1. PICK f \in Fibers : Wake(t, f)
    BY <1>19
  <2>2. FiberTask(f, AnyThread) \in Task
    BY Tasks
  <2>3. m_fibers' \in Seq(Task)
    BY <1>0, <2>1, <2>2, SMT DEF Wake, schedule, TypeOK
  <2>4. /\ pc' = [pc EXCEPT ![t] = "woke"] \/ pc' = [pc EXCEPT ![t] = "bodywoke"]
        /\ "woke" \in PC /\ "bodywoke" \in PC /\ waiting' \subseteq waiting
    BY <2>1, Constants DEF Wake, Goto
  <2>5. UNCHANGED <<m_active_thread_count, m_stop, m_autostop, m_pendingEventCount, fibers, ft,
                    cb_fiber, idleTerm, caller, bounds, failed>>
    BY <2>1 DEF Wake
  <2>6. pc' \in [RunThreads -> PC] /\ waiting' \subseteq Fibers
    BY <1>0, <2>4 DEF TypeOK
  <2> QED BY <1>0, <2>3, <2>5, <2>6 DEF TypeOK, fibers, bounds
<1>20. CASE WakeDone(t)
  <2> DEFINE l == IF pc[t] = "woke" THEN "poll" ELSE "body"
  <2>1. /\ pc[t] \in {"woke", "bodywoke"} /\ l \notin {"woke", "bodywoke"}
        /\ Goto(t, l) /\ l \in PC
    BY <1>20, Constants DEF WakeDone, l
  <2>2. CountAt({"woke", "bodywoke"}) - 1 \in Nat
    <3> HIDE DEF l
    <3> QED BY <1>0, <2>1, GotoCount, SMT
  <2>4. Cardinality(waiting) \in Nat /\ CountAt({"woke", "bodywoke"}) \in Nat
    BY <1>0, <2>1, GotoCount, CountType DEF CountInv
  <2>3. m_pendingEventCount - 1 \in Nat
    BY <1>0, <1>n, <2>2, <2>4, SMT DEF PendingCovers
  <2> QED BY <1>0, <1>20, <2>3, Constants DEF WakeDone, TypeOK, Goto,
       queue, events, fibers, threads, bounds
<1> QED BY <1>1, <1>2, <1>3, <1>4, <1>5, <1>6, <1>7, <1>8, <1>9, <1>10, <1>11,
       <1>12, <1>13, <1>14, <1>15, <1>16, <1>17, <1>18, <1>19, <1>20 DEF Run

\* A step of run() moves only its own thread, and keeps m_active_thread_count in
\* step with the move.
LEMMA RunActive ==
  ASSUME FiniteSetFacts, TypeOK, ActiveCountExact, NEW t \in RunThreads, Run(t)
  PROVE  ActiveCountExact'
<1> USE Zenon
<1>a. ASSUME NEW l \in PC, Goto(t, l),
             \/ /\ pc[t] \in ActiveLabels <=> l \in ActiveLabels
                /\ m_active_thread_count' = m_active_thread_count
             \/ /\ pc[t] \notin ActiveLabels /\ l \in ActiveLabels
                /\ m_active_thread_count' = m_active_thread_count + 1
             \/ /\ pc[t] \in ActiveLabels /\ l \notin ActiveLabels
                /\ m_active_thread_count' = m_active_thread_count - 1
      PROVE  ActiveCountExact'
  BY <1>a, GotoCount DEF ActiveCountExact
<1>b. ASSUME UNCHANGED <<pc, m_active_thread_count>>
      PROVE  ActiveCountExact'
  BY <1>b DEF ActiveCountExact, CountAt
<1>1. CASE Take(t)
  <2>1. /\ Goto(t, "taken") /\ "taken" \in PC
        /\ m_active_thread_count' = m_active_thread_count + 1
        /\ pc[t] \notin ActiveLabels /\ "taken" \in ActiveLabels
    BY <1>1, Constants DEF Take, ActiveLabels
  <2> QED BY <2>1, <1>a
<1>2. CASE TakeNothing(t)
  <2> DEFINE l == IF idleTerm[t] THEN "exit" ELSE "idle"
  <2>1. /\ Goto(t, l) /\ l \in PC
        /\ pc[t] \in ActiveLabels <=> l \in ActiveLabels
        /\ m_active_thread_count' = m_active_thread_count
    BY <1>2, Constants DEF TakeNothing, ActiveLabels, queue
  <2> HIDE DEF l
  <2> QED BY <2>1, <1>a
<1>3. CASE EnterFiber(t)
  <2>1. \/ UNCHANGED <<pc, m_active_thread_count>>
        \/ /\ Goto(t, "body") /\ "body" \in PC
           /\ pc[t] \in ActiveLabels <=> "body" \in ActiveLabels
           /\ m_active_thread_count' = m_active_thread_count
    BY <1>3, Constants DEF EnterFiber, Enter, Abort, ActiveLabels, threads, queue, events, bounds
  <2> QED BY <2>1, <1>a, <1>b
<1>4. CASE \E f \in CbFibers : EnterCb(t, f)
  <2>1. \/ UNCHANGED <<pc, m_active_thread_count>>
        \/ /\ Goto(t, "body") /\ "body" \in PC
           /\ pc[t] \in ActiveLabels <=> "body" \in ActiveLabels
           /\ m_active_thread_count' = m_active_thread_count
    BY <1>4, Constants DEF EnterCb, Abort, ActiveLabels, threads, queue, events, bounds
  <2> QED BY <2>1, <1>a, <1>b
<1>5. CASE \E c \in Cbs, thr \in Pins : BodySchedulesCb(t, c, thr)
  BY <1>5, <1>b DEF BodySchedulesCb, schedule, threads, queue, events, bounds
<1>6. CASE addEvent(t)
  <2>1. \/ UNCHANGED <<pc, m_active_thread_count>>
        \/ /\ Goto(t, "registered") /\ "registered" \in PC
           /\ pc[t] \in ActiveLabels <=> "registered" \in ActiveLabels
           /\ m_active_thread_count' = m_active_thread_count
    BY <1>6, Constants DEF addEvent, Abort, ActiveLabels, threads, queue, events, bounds
  <2> QED BY <2>1, <1>a, <1>b
<1>7. CASE YieldToHold(t)
  <2>1. /\ Goto(t, "yield") /\ "yield" \in PC
        /\ pc[t] \in ActiveLabels <=> "yield" \in ActiveLabels
        /\ m_active_thread_count' = m_active_thread_count
    BY <1>7, Constants DEF YieldToHold, ActiveLabels, queue
  <2> QED BY <2>1, <1>a
<1>8. CASE YieldToReady(t)
  <2>1. /\ Goto(t, "yield") /\ "yield" \in PC
        /\ pc[t] \in ActiveLabels <=> "yield" \in ActiveLabels
        /\ m_active_thread_count' = m_active_thread_count
    BY <1>8, Constants DEF YieldToReady, ActiveLabels, queue
  <2> QED BY <2>1, <1>a
<1>9. CASE Finish(t)
  <2>1. /\ Goto(t, "finish") /\ "finish" \in PC
        /\ pc[t] \in ActiveLabels <=> "finish" \in ActiveLabels
        /\ m_active_thread_count' = m_active_thread_count
    BY <1>9, Constants DEF Finish, ActiveLabels, queue
  <2> QED BY <2>1, <1>a
<1>10. CASE swapOut(t)
  <2>1. /\ Goto(t, "dec") /\ "dec" \in PC
        /\ pc[t] \in ActiveLabels <=> "dec" \in ActiveLabels
        /\ m_active_thread_count' = m_active_thread_count
    BY <1>10, Constants DEF swapOut, ActiveLabels, queue
  <2> QED BY <2>1, <1>a
<1>11. CASE Deactivate(t)
  <2>1. /\ Goto(t, "post") /\ "post" \in PC
        /\ m_active_thread_count' = m_active_thread_count - 1
        /\ pc[t] \in ActiveLabels /\ "post" \notin ActiveLabels
    BY <1>11, Constants DEF Deactivate, ActiveLabels
  <2> QED BY <2>1, <1>a
<1>12. CASE Requeue(t)
  <2>1. /\ Goto(t, "take") /\ "take" \in PC
        /\ pc[t] \in ActiveLabels <=> "take" \in ActiveLabels
        /\ m_active_thread_count' = m_active_thread_count
    BY <1>12, Constants DEF Requeue, schedule, ActiveLabels, queue
  <2> QED BY <2>1, <1>a
<1>13. CASE Retire(t)
  <2>1. /\ Goto(t, "take") /\ "take" \in PC
        /\ pc[t] \in ActiveLabels <=> "take" \in ActiveLabels
        /\ m_active_thread_count' = m_active_thread_count
    BY <1>13, Constants DEF Retire, ActiveLabels, queue
  <2> QED BY <2>1, <1>a
<1>14. CASE SeesHold(t)
  <2>1. /\ Goto(t, "sethold") /\ "sethold" \in PC
        /\ pc[t] \in ActiveLabels <=> "sethold" \in ActiveLabels
        /\ m_active_thread_count' = m_active_thread_count
    BY <1>14, Constants DEF SeesHold, ActiveLabels, queue
  <2> QED BY <2>1, <1>a
<1>15. CASE SetHold(t)
  <2>1. \/ UNCHANGED <<pc, m_active_thread_count>>
        \/ /\ Goto(t, "take") /\ "take" \in PC
           /\ pc[t] \in ActiveLabels <=> "take" \in ActiveLabels
           /\ m_active_thread_count' = m_active_thread_count
    BY <1>15, Constants DEF SetHold, Abort, ActiveLabels, threads, queue, events, bounds
  <2> QED BY <2>1, <1>a, <1>b
<1>16. CASE IdleChecksPending(t)
  <2> DEFINE l == IF m_pendingEventCount = 0 THEN "check2" ELSE "poll"
  <2>1. /\ Goto(t, l) /\ l \in PC
        /\ pc[t] \in ActiveLabels <=> l \in ActiveLabels
        /\ m_active_thread_count' = m_active_thread_count
    BY <1>16, Constants DEF IdleChecksPending, ActiveLabels, queue
  <2> HIDE DEF l
  <2> QED BY <2>1, <1>a
<1>17. CASE IdleChecksQueue(t)
  <2> DEFINE l == IF Stopping THEN "take" ELSE "poll"
  <2>1. /\ Goto(t, l) /\ l \in PC
        /\ pc[t] \in ActiveLabels <=> l \in ActiveLabels
        /\ m_active_thread_count' = m_active_thread_count
    BY <1>17, Constants DEF IdleChecksQueue, ActiveLabels, queue
  <2> HIDE DEF l
  <2> QED BY <2>1, <1>a
<1>18. CASE LeaveIdle(t)
  <2>1. /\ Goto(t, "take") /\ "take" \in PC
        /\ pc[t] \in ActiveLabels <=> "take" \in ActiveLabels
        /\ m_active_thread_count' = m_active_thread_count
    BY <1>18, Constants DEF LeaveIdle, ActiveLabels, queue
  <2> QED BY <2>1, <1>a
<1>19. CASE \E f \in Fibers : Wake(t, f)
  <2>1. PICK l \in {"woke", "bodywoke"} : /\ Goto(t, l) /\ l \in PC
                                          /\ pc[t] \in ActiveLabels <=> l \in ActiveLabels
    BY <1>19, Constants DEF Wake, ActiveLabels
  <2>2. m_active_thread_count' = m_active_thread_count
    BY <1>19 DEF Wake
  <2> QED BY <2>1, <2>2, <1>a
<1>20. CASE WakeDone(t)
  <2> DEFINE l == IF pc[t] = "woke" THEN "poll" ELSE "body"
  <2>1. /\ Goto(t, l) /\ l \in PC
        /\ pc[t] \in ActiveLabels <=> l \in ActiveLabels
        /\ m_active_thread_count' = m_active_thread_count
    BY <1>20, Constants DEF WakeDone, ActiveLabels, queue
  <2> HIDE DEF l
  <2> QED BY <2>1, <1>a
<1> QED BY <1>1, <1>2, <1>3, <1>4, <1>5, <1>6, <1>7, <1>8, <1>9, <1>10, <1>11,
       <1>12, <1>13, <1>14, <1>15, <1>16, <1>17, <1>18, <1>19, <1>20 DEF Run

\* m_pendingEventCount, the registered fibers and the wake-ups in progress.
LEMMA RunPending ==
  ASSUME FiniteSetFacts, TypeOK, PendingCovers, IsFiniteSet(waiting), NEW t \in RunThreads, Run(t)
  PROVE  PendingCovers' /\ IsFiniteSet(waiting)'
<1> USE Zenon
<1> DEFINE W == {"woke", "bodywoke"}
<1>n. /\ m_pendingEventCount \in Nat /\ Cardinality(waiting) \in Nat
      /\ m_pendingEventCount >= Cardinality(waiting) + CountAt(W)
  BY CountType DEF TypeOK, PendingCovers
<1>g. ASSUME PendingCovers', IsFiniteSet(waiting')
      PROVE  PendingCovers' /\ IsFiniteSet(waiting)'
  BY <1>g
<1>p. ASSUME m_pendingEventCount' >= Cardinality(waiting') + CountAt(W)'
      PROVE  PendingCovers'
  BY <1>p DEF PendingCovers
<1> HIDE DEF W
<1>a. ASSUME NEW l \in PC, Goto(t, l), pc[t] \notin W, l \notin W,
             UNCHANGED <<m_pendingEventCount, waiting>>
      PROVE  PendingCovers' /\ IsFiniteSet(waiting)'
  <2>1. CountAt(W)' = CountAt(W)
    BY <1>a, GotoCount
  <2> QED BY <1>a, <1>n, <1>p, <1>g, <2>1
<1>b. ASSUME UNCHANGED <<pc, m_pendingEventCount, waiting>>
      PROVE  PendingCovers' /\ IsFiniteSet(waiting)'
  <2>1. CountAt(W)' = CountAt(W)
    BY <1>b DEF CountAt
  <2> QED BY <1>b, <1>n, <1>p, <1>g, <2>1
<1>1. CASE Take(t)
  <2>1. /\ Goto(t, "taken") /\ "taken" \in PC /\ pc[t] \notin W /\ "taken" \notin W
        /\ UNCHANGED <<m_pendingEventCount, waiting>>
    BY <1>1, Constants DEF Take, W, events
  <2> QED BY <2>1, <1>a
<1>2. CASE TakeNothing(t)
  <2> DEFINE l == IF idleTerm[t] THEN "exit" ELSE "idle"
  <2>1. /\ Goto(t, l) /\ l \in PC /\ pc[t] \notin W /\ l \notin W
        /\ UNCHANGED <<m_pendingEventCount, waiting>>
    BY <1>2, Constants DEF TakeNothing, W, events
  <2> HIDE DEF l
  <2> QED BY <2>1, <1>a
<1>3. CASE EnterFiber(t)
  <2>1. \/ UNCHANGED <<pc, m_pendingEventCount, waiting>>
        \/ /\ Goto(t, "body") /\ "body" \in PC
           /\ pc[t] \notin W /\ "body" \notin W
           /\ UNCHANGED <<m_pendingEventCount, waiting>>
    BY <1>3, Constants DEF EnterFiber, Enter, Abort, W, threads, queue, events, bounds
  <2> QED BY <2>1, <1>a, <1>b
<1>4. CASE \E f \in CbFibers : EnterCb(t, f)
  <2>1. \/ UNCHANGED <<pc, m_pendingEventCount, waiting>>
        \/ /\ Goto(t, "body") /\ "body" \in PC
           /\ pc[t] \notin W /\ "body" \notin W
           /\ UNCHANGED <<m_pendingEventCount, waiting>>
    BY <1>4, Constants DEF EnterCb, Abort, W, threads, queue, events, bounds
  <2> QED BY <2>1, <1>a, <1>b
<1>5. CASE \E c \in Cbs, thr \in Pins : BodySchedulesCb(t, c, thr)
  BY <1>5, <1>b DEF BodySchedulesCb, schedule, threads, queue, events, bounds
<1>6. CASE addEvent(t)
  <2>1. CASE UNCHANGED <<pc, m_pendingEventCount, waiting>>
    BY <2>1, <1>b
  <2>2. CASE /\ waiting' = waiting \cup {Cur(t)} /\ Goto(t, "registered")
             /\ m_pendingEventCount' = m_pendingEventCount + 1
    <3>1. pc[t] \notin W /\ "registered" \notin W /\ "registered" \in PC
      BY <1>6, Constants DEF addEvent, W
    <3>2. CountAt(W)' = CountAt(W) /\ CountAt(W) \in Nat
      BY <2>2, <3>1, GotoCount, ZenonT(30)
    <3>3. /\ IsFiniteSet(waiting') /\ Cardinality(waiting') \in Nat
          /\ Cardinality(waiting') <= Cardinality(waiting) + 1
      <4>1. /\ IsFiniteSet(waiting \cup {Cur(t)})
            /\ \/ Cardinality(waiting \cup {Cur(t)}) = Cardinality(waiting)
               \/ Cardinality(waiting \cup {Cur(t)}) = Cardinality(waiting) + 1
        BY OneMore
      <4> QED BY <1>n, <2>2, <4>1, SMT
    <3>4. m_pendingEventCount' >= Cardinality(waiting') + CountAt(W)'
      BY <1>n, <2>2, <3>2, <3>3, SMT
    <3> QED BY <3>3, <3>4, <1>p, <1>g
  <2> QED BY <1>6, <2>1, <2>2 DEF addEvent, Abort, events, threads
<1>7. CASE YieldToHold(t)
  <2>1. /\ Goto(t, "yield") /\ "yield" \in PC /\ pc[t] \notin W /\ "yield" \notin W
        /\ UNCHANGED <<m_pendingEventCount, waiting>>
    BY <1>7, Constants DEF YieldToHold, W, events
  <2> QED BY <2>1, <1>a
<1>8. CASE YieldToReady(t)
  <2>1. /\ Goto(t, "yield") /\ "yield" \in PC /\ pc[t] \notin W /\ "yield" \notin W
        /\ UNCHANGED <<m_pendingEventCount, waiting>>
    BY <1>8, Constants DEF YieldToReady, W, events
  <2> QED BY <2>1, <1>a
<1>9. CASE Finish(t)
  <2>1. /\ Goto(t, "finish") /\ "finish" \in PC /\ pc[t] \notin W /\ "finish" \notin W
        /\ UNCHANGED <<m_pendingEventCount, waiting>>
    BY <1>9, Constants DEF Finish, W, events
  <2> QED BY <2>1, <1>a
<1>10. CASE swapOut(t)
  <2>1. /\ Goto(t, "dec") /\ "dec" \in PC /\ pc[t] \notin W /\ "dec" \notin W
        /\ UNCHANGED <<m_pendingEventCount, waiting>>
    BY <1>10, Constants DEF swapOut, W, events
  <2> QED BY <2>1, <1>a
<1>11. CASE Deactivate(t)
  <2>1. /\ Goto(t, "post") /\ "post" \in PC /\ pc[t] \notin W /\ "post" \notin W
        /\ UNCHANGED <<m_pendingEventCount, waiting>>
    BY <1>11, Constants DEF Deactivate, W, events
  <2> QED BY <2>1, <1>a
<1>12. CASE Requeue(t)
  <2>1. /\ Goto(t, "take") /\ "take" \in PC /\ pc[t] \notin W /\ "take" \notin W
        /\ UNCHANGED <<m_pendingEventCount, waiting>>
    BY <1>12, Constants DEF Requeue, schedule, W, events
  <2> QED BY <2>1, <1>a
<1>13. CASE Retire(t)
  <2>1. /\ Goto(t, "take") /\ "take" \in PC /\ pc[t] \notin W /\ "take" \notin W
        /\ UNCHANGED <<m_pendingEventCount, waiting>>
    BY <1>13, Constants DEF Retire, W, events
  <2> QED BY <2>1, <1>a
<1>14. CASE SeesHold(t)
  <2>1. /\ Goto(t, "sethold") /\ "sethold" \in PC /\ pc[t] \notin W /\ "sethold" \notin W
        /\ UNCHANGED <<m_pendingEventCount, waiting>>
    BY <1>14, Constants DEF SeesHold, W, events
  <2> QED BY <2>1, <1>a
<1>15. CASE SetHold(t)
  <2>1. \/ UNCHANGED <<pc, m_pendingEventCount, waiting>>
        \/ /\ Goto(t, "take") /\ "take" \in PC
           /\ pc[t] \notin W /\ "take" \notin W
           /\ UNCHANGED <<m_pendingEventCount, waiting>>
    BY <1>15, Constants DEF SetHold, Abort, W, threads, queue, events, bounds
  <2> QED BY <2>1, <1>a, <1>b
<1>16. CASE IdleChecksPending(t)
  <2> DEFINE l == IF m_pendingEventCount = 0 THEN "check2" ELSE "poll"
  <2>1. /\ Goto(t, l) /\ l \in PC /\ pc[t] \notin W /\ l \notin W
        /\ UNCHANGED <<m_pendingEventCount, waiting>>
    BY <1>16, Constants DEF IdleChecksPending, W, events
  <2> HIDE DEF l
  <2> QED BY <2>1, <1>a
<1>17. CASE IdleChecksQueue(t)
  <2> DEFINE l == IF Stopping THEN "take" ELSE "poll"
  <2>1. /\ Goto(t, l) /\ l \in PC /\ pc[t] \notin W /\ l \notin W
        /\ UNCHANGED <<m_pendingEventCount, waiting>>
    BY <1>17, Constants DEF IdleChecksQueue, W, events
  <2> HIDE DEF l
  <2> QED BY <2>1, <1>a
<1>18. CASE LeaveIdle(t)
  <2>1. /\ Goto(t, "take") /\ "take" \in PC /\ pc[t] \notin W /\ "take" \notin W
        /\ UNCHANGED <<m_pendingEventCount, waiting>>
    BY <1>18, Constants DEF LeaveIdle, W, events
  <2> QED BY <2>1, <1>a
<1>19. CASE \E f \in Fibers : Wake(t, f)
  <2>1. PICK f \in waiting : waiting' = waiting \ {f}
    BY <1>19 DEF Wake
  <2>2. PICK l \in W : Goto(t, l) /\ l \in PC
    BY <1>19, Constants DEF Wake, W
  <2>3. m_pendingEventCount' = m_pendingEventCount /\ pc[t] \notin W
    BY <1>19 DEF Wake, W
  <2>4. CountAt(W)' = CountAt(W) + 1 /\ CountAt(W) \in Nat
    BY <2>2, <2>3, GotoCount
  <2>5. IsFiniteSet(waiting') /\ Cardinality(waiting') = Cardinality(waiting) - 1
    BY <2>1, OneLess
  <2>6. m_pendingEventCount' >= Cardinality(waiting') + CountAt(W)'
    BY <1>n, <2>3, <2>4, <2>5, SMT
  <2> QED BY <2>5, <2>6, <1>p, <1>g
<1>20. CASE WakeDone(t)
  <2> DEFINE l == IF pc[t] = "woke" THEN "poll" ELSE "body"
  <2>1. /\ Goto(t, l) /\ l \in PC /\ pc[t] \in W /\ l \notin W
        /\ m_pendingEventCount' = m_pendingEventCount - 1 /\ waiting' = waiting
    BY <1>20, Constants DEF WakeDone, W
  <2> HIDE DEF l
  <2>2. CountAt(W)' = CountAt(W) - 1 /\ CountAt(W) \in Nat
    BY <2>1, GotoCount
  <2>3. m_pendingEventCount' >= Cardinality(waiting') + CountAt(W)'
    BY <1>n, <2>1, <2>2, SMT
  <2> QED BY <2>1, <2>3, <1>p, <1>g
<1> QED BY <1>1, <1>2, <1>3, <1>4, <1>5, <1>6, <1>7, <1>8, <1>9, <1>10, <1>11,
       <1>12, <1>13, <1>14, <1>15, <1>16, <1>17, <1>18, <1>19, <1>20 DEF Run

\* The other threads' part of run()'s state is their own.
LEMMA RunLocal ==
  ASSUME TypeOK, NEW t \in RunThreads, Run(t)
  PROVE  /\ caller' = caller /\ m_stop' = m_stop /\ m_autostop' = m_autostop
         /\ pc[t] # "off" /\ pc[t] # "exit"
         /\ \A u \in RunThreads \ {t} : /\ pc'[u] = pc[u] /\ ft'[u] = ft[u]
                                        /\ cb_fiber'[u] = cb_fiber[u]
                                        /\ idleTerm'[u] = idleTerm[u]
<1> USE Zenon
<1>0. /\ pc \in [RunThreads -> PC] /\ ft \in [RunThreads -> Task]
      /\ cb_fiber \in [RunThreads -> CbFibers \cup {None}]
      /\ idleTerm \in [RunThreads -> BOOLEAN]
  BY DEF TypeOK
<1>1. CASE Take(t)
  BY <1>0, <1>1 DEF Take, Goto, threads, queue
<1>2. CASE TakeNothing(t)
  BY <1>0, <1>2 DEF TakeNothing, Goto, threads, queue
<1>3. CASE EnterFiber(t)
  BY <1>0, <1>3 DEF EnterFiber, Enter, Abort, Goto, threads, queue
<1>4. CASE \E f \in CbFibers : EnterCb(t, f)
  BY <1>0, <1>4, ZenonT(30) DEF EnterCb, Abort, Goto, threads, queue
<1>5. CASE \E c \in Cbs, thr \in Pins : BodySchedulesCb(t, c, thr)
  BY <1>0, <1>5 DEF BodySchedulesCb, schedule, Goto, threads, queue
<1>6. CASE addEvent(t)
  BY <1>0, <1>6 DEF addEvent, Abort, Goto, threads, queue
<1>7. CASE YieldToHold(t)
  BY <1>0, <1>7 DEF YieldToHold, Goto, threads, queue
<1>8. CASE YieldToReady(t)
  BY <1>0, <1>8 DEF YieldToReady, Goto, threads, queue
<1>9. CASE Finish(t)
  BY <1>0, <1>9 DEF Finish, Goto, threads, queue
<1>10. CASE swapOut(t)
  BY <1>0, <1>10 DEF swapOut, Goto, threads, queue
<1>11. CASE Deactivate(t)
  BY <1>0, <1>11 DEF Deactivate, Goto, threads, queue
<1>12. CASE Requeue(t)
  BY <1>0, <1>12 DEF Requeue, schedule, Goto, threads, queue
<1>13. CASE Retire(t)
  BY <1>0, <1>13 DEF Retire, Goto, threads, queue
<1>14. CASE SeesHold(t)
  BY <1>0, <1>14 DEF SeesHold, Goto, threads, queue
<1>15. CASE SetHold(t)
  BY <1>0, <1>15 DEF SetHold, Abort, Goto, threads, queue
<1>16. CASE IdleChecksPending(t)
  BY <1>0, <1>16 DEF IdleChecksPending, Goto, threads, queue
<1>17. CASE IdleChecksQueue(t)
  BY <1>0, <1>17 DEF IdleChecksQueue, Goto, threads, queue
<1>18. CASE LeaveIdle(t)
  BY <1>0, <1>18 DEF LeaveIdle, Goto, threads, queue
<1>19. CASE \E f \in Fibers : Wake(t, f)
  BY <1>0, <1>19 DEF Wake, schedule, Goto, threads, queue
<1>20. CASE WakeDone(t)
  BY <1>0, <1>20 DEF WakeDone, Goto, threads, queue
<1> QED BY <1>1, <1>2, <1>3, <1>4, <1>5, <1>6, <1>7, <1>8, <1>9, <1>10, <1>11,
       <1>12, <1>13, <1>14, <1>15, <1>16, <1>17, <1>18, <1>19, <1>20, ZenonT(30) DEF Run

\* A step of run() keeps CurInv: a thread that is on a fiber's stack has a fiber.
LEMMA RunCur ==
  ASSUME TypeOK, CurInv, NEW t \in RunThreads, Run(t)
  PROVE  CurInv'
<1> USE Zenon
<1> DEFINE L == (ActiveLabels \ {"taken"}) \cup {"post", "sethold"}
<1>0. /\ pc \in [RunThreads -> PC] /\ ft \in [RunThreads -> Task]
      /\ cb_fiber \in [RunThreads -> CbFibers \cup {None}]
  BY DEF TypeOK
<1>u. ASSUME NEW u \in RunThreads \ {t}, pc'[u] \in L
      PROVE  Cur(u)' \in Fibers
  BY <1>u, RunLocal DEF CurInv, Cur
<1>a. ASSUME pc'[t] \in L => Cur(t)' \in Fibers
      PROVE  CurInv'
  BY <1>a, <1>u DEF CurInv
<1>b. ASSUME pc'[t] \notin L \/ pc[t] \in L, UNCHANGED <<ft, cb_fiber>>
      PROVE  CurInv'
  BY <1>a, <1>b DEF CurInv, Cur
<1>c. \A l \in {"off", "take", "taken", "idle", "check2", "poll", "woke", "exit"} : l \notin L
  BY DEF ActiveLabels
<1>d. \A l \in {"body", "registered", "yield", "finish", "bodywoke", "dec", "post", "sethold"} : l \in L
  BY DEF ActiveLabels
<1> HIDE DEF L
<1>1. CASE Take(t)
  BY <1>0, <1>1, <1>a, <1>c DEF Take, Goto
<1>2. CASE TakeNothing(t)
  BY <1>0, <1>2, <1>b, <1>c, <1>d DEF TakeNothing, Goto, threads
<1>3. CASE EnterFiber(t)
  <2>1. ft[t].fiber \in Fibers
    BY <1>0, <1>3 DEF EnterFiber, Task
  <2>2. CASE UNCHANGED <<pc, ft, cb_fiber>>
    BY <1>3, <1>b, <1>c, <2>2 DEF EnterFiber
  <2>3. CASE UNCHANGED <<ft, cb_fiber>>
    BY <1>3, <1>a, <2>1, <2>3 DEF EnterFiber, Cur
  <2> QED BY <1>3, <2>2, <2>3 DEF EnterFiber, Enter, Abort, threads
<1>4. CASE \E f \in CbFibers : EnterCb(t, f)
  <2>1. PICK f \in CbFibers : EnterCb(t, f)
    BY <1>4
  <2>2. CASE UNCHANGED <<pc, ft, cb_fiber>>
    BY <2>1, <1>b, <1>c, <2>2 DEF EnterCb
  <2>3. CASE /\ cb_fiber' = [cb_fiber EXCEPT ![t] = f]
             /\ ft' = [ft EXCEPT ![t] = NoTask]
    <3>1. cb_fiber'[t] = f /\ ft'[t].fiber = None /\ f \in Fibers
      BY <1>0, <2>3 DEF NoTask, Fibers
    <3> QED BY <1>a, <3>1 DEF Cur
  <2> QED BY <2>1, <2>2, <2>3 DEF EnterCb, Abort, threads
<1>5. CASE \E c \in Cbs, thr \in Pins : BodySchedulesCb(t, c, thr)
  BY <1>0, <1>5, <1>b, <1>c, <1>d DEF BodySchedulesCb, schedule, Goto, threads
<1>6. CASE addEvent(t)
  BY <1>0, <1>6, <1>b, <1>c, <1>d DEF addEvent, Abort, Goto, threads
<1>7. CASE YieldToHold(t)
  BY <1>0, <1>7, <1>b, <1>c, <1>d DEF YieldToHold, Goto, threads
<1>8. CASE YieldToReady(t)
  BY <1>0, <1>8, <1>b, <1>c, <1>d DEF YieldToReady, Goto, threads
<1>9. CASE Finish(t)
  BY <1>0, <1>9, <1>b, <1>c, <1>d DEF Finish, Goto, threads
<1>10. CASE swapOut(t)
  BY <1>0, <1>10, <1>b, <1>c, <1>d DEF swapOut, Goto, threads
<1>11. CASE Deactivate(t)
  BY <1>0, <1>11, <1>b, <1>c, <1>d DEF Deactivate, Goto, threads
<1>12. CASE Requeue(t)
  BY <1>0, <1>12, <1>a, <1>c DEF Requeue, schedule, Goto
<1>13. CASE Retire(t)
  BY <1>0, <1>13, <1>a, <1>c DEF Retire, Goto
<1>14. CASE SeesHold(t)
  BY <1>0, <1>14, <1>b, <1>c, <1>d DEF SeesHold, Goto, threads
<1>15. CASE SetHold(t)
  <2>1. CASE UNCHANGED <<pc, ft, cb_fiber>>
    BY <1>15, <1>b, <1>d, <2>1 DEF SetHold
  <2>2. CASE Goto(t, "take")
    BY <1>0, <1>a, <1>c, <2>2 DEF Goto
  <2> QED BY <1>15, <2>1, <2>2 DEF SetHold, Abort, threads
<1>16. CASE IdleChecksPending(t)
  BY <1>0, <1>16, <1>b, <1>c, <1>d DEF IdleChecksPending, Goto, threads
<1>17. CASE IdleChecksQueue(t)
  BY <1>0, <1>17, <1>b, <1>c, <1>d DEF IdleChecksQueue, Goto, threads
<1>18. CASE LeaveIdle(t)
  BY <1>0, <1>18, <1>b, <1>c, <1>d DEF LeaveIdle, Goto, threads
<1>19. CASE \E f \in Fibers : Wake(t, f)
  BY <1>0, <1>19, <1>b, <1>c, <1>d DEF Wake, schedule, Goto, threads
<1>20. CASE WakeDone(t)
  BY <1>0, <1>20, <1>b, <1>c, <1>d DEF WakeDone, Goto, threads
<1> QED BY <1>1, <1>2, <1>3, <1>4, <1>5, <1>6, <1>7, <1>8, <1>9, <1>10, <1>11,
       <1>12, <1>13, <1>14, <1>15, <1>16, <1>17, <1>18, <1>19, <1>20 DEF Run

\* A step of run() keeps OwnerInv: only threads that were started take one.
LEMMA RunOwner ==
  ASSUME TypeOK, OwnerInv, NEW t \in RunThreads, Run(t)
  PROVE  OwnerInv'
<1> USE Zenon
<1>1. caller' = caller /\ pc[t] # "off"
  BY RunLocal
<1>2. \A u \in RunThreads \ {t} : pc'[u] = pc[u]
  BY RunLocal
<1>3. UseCaller => Caller \in RunThreads
  BY DEF RunThreads
<1> QED BY <1>1, <1>2, <1>3 DEF OwnerInv

\* A step of the owner (start, schedule, stop) keeps every variable in its type.
LEMMA OwnerType ==
  ASSUME TypeOK, OwnerInv, User \/ StopStep
  PROVE  TypeOK'
<1> USE Zenon
<1>1. CASE Start
  <2>1. pc' \in [RunThreads -> PC]
    BY <1>1, Constants DEF Start
  <2> QED BY <1>1, <2>1 DEF Start, TypeOK, Goto,
       queue, events, fibers, threads, bounds
<1>2. CASE Stop
  BY <1>2 DEF Stop, TypeOK, Goto,
       queue, events, fibers, threads, bounds
<1>3. CASE \E c \in Cbs, thr \in Pins : UserSchedulesCb(c, thr)
  <2>1. PICK c \in Cbs, thr \in Pins : UserSchedulesCb(c, thr)
    BY <1>3
  <2>2. CbTask(c, thr) \in Task
    BY ThreadsAssumption, Tasks
  <2>3. m_fibers' \in Seq(Task)
    BY <2>1, <2>2, SMT DEF UserSchedulesCb, schedule, TypeOK
  <2> QED BY <2>1, <2>3 DEF UserSchedulesCb, TypeOK, Goto,
       queue, events, fibers, threads, bounds
<1>4. CASE \E f \in UserFibers, thr \in Pins : UserSchedulesFiber(f, thr)
  <2>1. PICK f \in UserFibers, thr \in Pins : UserSchedulesFiber(f, thr)
    BY <1>4
  <2>2. thr \in RunThreads \cup {AnyThread} /\ f \in Fibers
    BY ThreadsAssumption DEF Fibers
  <2>3. FiberTask(f, thr) \in Task
    BY <2>2, Tasks
  <2>4. m_fibers' \in Seq(Task)
    BY <2>1, <2>3, SMT DEF UserSchedulesFiber, schedule, TypeOK
  <2> QED BY <2>1, <2>4 DEF UserSchedulesFiber, TypeOK, Goto,
       queue, events, fibers, threads, bounds
<1>5. CASE StopChecksPending
  BY <1>5, Constants DEF StopChecksPending, TypeOK, Goto,
       queue, events, fibers, threads, bounds
<1>6. CASE StopChecksQueue
  BY <1>6, Constants DEF StopChecksQueue, TypeOK, Goto,
       queue, events, fibers, threads, bounds
<1>7. CASE RootFiberReturns
  BY <1>7 DEF RootFiberReturns, TypeOK, Goto,
       queue, events, fibers, threads, bounds
<1>8. CASE Join
  BY <1>8 DEF Join, TypeOK, Goto,
       queue, events, fibers, threads, bounds
<1> QED BY <1>1, <1>2, <1>3, <1>4, <1>5, <1>6, <1>7, <1>8 DEF User, StopStep

\* The owner moves a thread only from "off" to the top of the loop.
LEMMA OwnerMoves ==
  ASSUME TypeOK, OwnerInv, User \/ StopStep
  PROVE  /\ UNCHANGED <<ft, cb_fiber, m_active_thread_count, m_pendingEventCount, waiting>>
         /\ \A t \in RunThreads :
              \/ pc'[t] = pc[t]
              \/ pc[t] = "off" /\ pc'[t] \in {"off", "take"}
<1> USE Zenon
<1>0. pc \in [RunThreads -> PC] /\ (UseCaller => Caller \in RunThreads)
  BY DEF TypeOK, RunThreads
<1>1. CASE Start
  BY <1>0, <1>1 DEF Start, OwnerInv, Goto, queue, events, threads
<1>2. CASE Stop
  BY <1>0, <1>2 DEF Stop, OwnerInv, Goto, queue, events, threads
<1>3. CASE \E c \in Cbs, thr \in Pins : UserSchedulesCb(c, thr)
  BY <1>0, <1>3 DEF UserSchedulesCb, schedule, OwnerInv, Goto, queue, events, threads
<1>4. CASE \E f \in UserFibers, thr \in Pins : UserSchedulesFiber(f, thr)
  BY <1>0, <1>4 DEF UserSchedulesFiber, schedule, OwnerInv, Goto, queue, events, threads
<1>5. CASE StopChecksPending
  BY <1>0, <1>5 DEF StopChecksPending, OwnerInv, Goto, queue, events, threads
<1>6. CASE StopChecksQueue
  BY <1>0, <1>6 DEF StopChecksQueue, OwnerInv, Goto, queue, events, threads
<1>7. CASE RootFiberReturns
  BY <1>0, <1>7 DEF RootFiberReturns, OwnerInv, Goto, queue, events, threads
<1>8. CASE Join
  BY <1>0, <1>8 DEF Join, OwnerInv, Goto, queue, events, threads
<1> QED BY <1>1, <1>2, <1>3, <1>4, <1>5, <1>6, <1>7, <1>8 DEF User, StopStep

\* A step of the owner keeps OwnerInv.
LEMMA OwnerOwner ==
  ASSUME TypeOK, OwnerInv, User \/ StopStep
  PROVE  OwnerInv'
<1> USE Zenon
<1>0. /\ pc \in [RunThreads -> PC] /\ (UseCaller => Caller \in RunThreads)
      /\ Caller \notin Workers
  BY ThreadsAssumption DEF TypeOK, RunThreads
<1>1. CASE Start
  BY <1>0, <1>1 DEF Start, OwnerInv, Goto, threads
<1>2. CASE Stop
  BY <1>0, <1>2 DEF Stop, OwnerInv, Goto, threads
<1>3. CASE \E c \in Cbs, thr \in Pins : UserSchedulesCb(c, thr)
  BY <1>0, <1>3 DEF UserSchedulesCb, schedule, OwnerInv, Goto, threads
<1>4. CASE \E f \in UserFibers, thr \in Pins : UserSchedulesFiber(f, thr)
  BY <1>0, <1>4 DEF UserSchedulesFiber, schedule, OwnerInv, Goto, threads
<1>5. CASE StopChecksPending
  BY <1>0, <1>5 DEF StopChecksPending, OwnerInv, Goto, threads
<1>6. CASE StopChecksQueue
  BY <1>0, <1>6 DEF StopChecksQueue, OwnerInv, Goto, threads
<1>7. CASE RootFiberReturns
  BY <1>0, <1>7 DEF RootFiberReturns, OwnerInv, Goto, threads
<1>8. CASE Join
  BY <1>0, <1>8 DEF Join, OwnerInv, Goto, threads
<1> QED BY <1>1, <1>2, <1>3, <1>4, <1>5, <1>6, <1>7, <1>8 DEF User, StopStep

\* A step of the owner changes no counter and no count.
LEMMA OwnerCounts ==
  ASSUME TypeOK, OwnerInv, CurInv, ActiveCountExact, PendingCovers, User \/ StopStep
  PROVE  CurInv' /\ ActiveCountExact' /\ PendingCovers'
<1> USE Zenon
<1>1. UNCHANGED <<ft, cb_fiber, m_active_thread_count, m_pendingEventCount, waiting>>
  BY OwnerMoves
<1>2. ASSUME NEW labels, "off" \notin labels, "take" \notin labels
      PROVE  /\ CountAt(labels)' = CountAt(labels)
             /\ \A t \in RunThreads : pc'[t] \in labels => pc[t] \in labels
  BY <1>2, OwnerMoves DEF CountAt
<1>3. ActiveCountExact'
  <2>1. "off" \notin ActiveLabels /\ "take" \notin ActiveLabels
    BY DEF ActiveLabels
  <2> QED BY <1>1, <1>2, <2>1 DEF ActiveCountExact
<1>4. PendingCovers'
  BY <1>1, <1>2 DEF PendingCovers
<1>5. CurInv'
  <2> DEFINE L == (ActiveLabels \ {"taken"}) \cup {"post", "sethold"}
  <2>1. "off" \notin L /\ "take" \notin L
    BY DEF ActiveLabels
  <2> QED BY <1>1, <1>2, <2>1 DEF CurInv, Cur
<1> QED BY <1>3, <1>4, <1>5

\* The constructor establishes the invariant.
LEMMA InitCountInv ==
  ASSUME FiniteSetFacts
  PROVE  Init => CountInv
<1> USE Zenon
<1> SUFFICES ASSUME Init PROVE CountInv
  OBVIOUS
<1>1. TypeOK
  <2>1. m_fibers \in Seq(Task)
    BY SMT DEF Init
  <2>2. ft \in [RunThreads -> Task]
    BY Tasks DEF Init
  <2>3. pc \in [RunThreads -> PC] /\ state \in [Fibers -> FiberState] /\ ctx \in [Fibers -> Context]
    BY Constants DEF Init
  <2>4. readies \in 0 .. MaxReady /\ waits \in 0 .. MaxWaits
    BY BoundsAssumption, SMT DEF Init
  <2> QED BY <2>1, <2>2, <2>3, <2>4 DEF Init, TypeOK
<1>2. \A t \in RunThreads : pc[t] = "off"
  BY DEF Init
<1>3. ASSUME NEW labels, "off" \notin labels
      PROVE  CountAt(labels) = 0
  <2>1. {t \in RunThreads : pc[t] \in labels} = {}
    BY <1>2, <1>3
  <2> QED BY <2>1, EmptyCount DEF CountAt
<1>4. ActiveCountExact /\ CurInv
  <2>1. "off" \notin ActiveLabels
    BY DEF ActiveLabels
  <2>2. CountAt(ActiveLabels) = 0
    BY <1>3, <2>1
  <2> QED BY <1>2, <2>1, <2>2 DEF ActiveCountExact, CurInv, Init
<1>5. PendingCovers /\ IsFiniteSet(waiting)
  <2>1. CountAt({"woke", "bodywoke"}) = 0
    BY <1>3
  <2>2. waiting = {} /\ m_pendingEventCount = 0
    BY DEF Init
  <2> QED BY <2>1, <2>2, EmptyCount, SMT DEF PendingCovers
<1>6. OwnerInv
  BY <1>2 DEF OwnerInv, Init, RunThreads
<1> QED BY <1>1, <1>4, <1>5, <1>6 DEF CountInv

\* A step that changes nothing keeps the invariant.
LEMMA StutterCountInv == CountInv /\ UNCHANGED vars => CountInv'
<1> USE Zenon
<1> SUFFICES ASSUME CountInv, UNCHANGED vars PROVE CountInv'
  OBVIOUS
<1>1. /\ UNCHANGED <<m_fibers, m_active_thread_count, m_stop, m_autostop>>
      /\ UNCHANGED <<m_pendingEventCount, waiting, state, ctx, pc, ft, cb_fiber>>
      /\ UNCHANGED <<idleTerm, caller, given, started, readies, waits, late, failed>>
  BY DEF vars, queue, events, fibers, threads, bounds
<1>2. TypeOK'
  BY <1>1 DEF CountInv, TypeOK
<1>3. CurInv' /\ OwnerInv' /\ ActiveCountExact' /\ PendingCovers' /\ IsFiniteSet(waiting)'
  BY <1>1 DEF CountInv, CurInv, OwnerInv, ActiveCountExact, PendingCovers, CountAt, Cur
<1> QED BY <1>2, <1>3 DEF CountInv

\* Every step keeps the invariant.
LEMMA NextCountInv ==
  ASSUME FiniteSetFacts
  PROVE  CountInv /\ [Next]_vars => CountInv'
<1> USE Zenon
<1> SUFFICES ASSUME CountInv, [Next]_vars PROVE CountInv'
  OBVIOUS
<1>0. /\ TypeOK /\ CurInv /\ OwnerInv /\ ActiveCountExact /\ PendingCovers
      /\ IsFiniteSet(waiting)
  BY DEF CountInv
<1>1. CASE User \/ StopStep
  <2>1. waiting' = waiting
    BY <1>0, <1>1, OwnerMoves
  <2> QED BY <1>0, <1>1, <2>1, OwnerType, OwnerOwner, OwnerCounts DEF CountInv
<1>2. ASSUME NEW t \in RunThreads, Run(t) PROVE CountInv'
  BY <1>0, <1>2, RunType, RunActive, RunPending, RunCur, RunOwner DEF CountInv
<1>3. CASE UNCHANGED vars
  BY <1>3, StutterCountInv
<1> QED BY <1>1, <1>2, <1>3 DEF Next, Terminated

-----------------------------------------------------------------------------
(* The run queue *)

\* An entry of the queue is a task.
LEMMA QueueEntry ==
  ASSUME NEW q \in Seq(Task), NEW i \in DOMAIN q
  PROVE  q[i] \in Task /\ q[i].fiber \in Fibers \cup {None}
<1>1. q[i] \in Task
  OBVIOUS
<1> QED BY <1>1, Zenon DEF Task

\* The entries of list r are those of q and, at place n, entry e.
Added(r, q, e, n) ==
  /\ \A i \in DOMAIN q : i \in DOMAIN r /\ r[i] = q[i]
  /\ n \in DOMAIN r /\ r[n] = e /\ n \notin DOMAIN q
  /\ \A j \in DOMAIN r : j \in DOMAIN q \/ j = n

\* The entries of the list after an entry is added.
LEMMA AppendEntries ==
  ASSUME NEW q \in Seq(Task), NEW e \in Task, NEW r, r = Append(q, e)
  PROVE  Added(r, q, e, Len(q) + 1)
<1> USE Zenon
<1>1. /\ r \in Seq(Task) /\ Len(r) = Len(q) + 1
      /\ \A i \in 1 .. Len(q) : r[i] = q[i]
      /\ r[Len(q) + 1] = e
  BY SMT
<1>2. DOMAIN q = 1 .. Len(q) /\ DOMAIN r = 1 .. Len(q) + 1 /\ Len(q) \in Nat
  BY <1>1, SMT
<1>3. ASSUME NEW i \in DOMAIN q PROVE i \in DOMAIN r /\ r[i] = q[i]
  BY <1>1, <1>2, SMT
<1>4. Len(q) + 1 \in DOMAIN r /\ Len(q) + 1 \notin DOMAIN q
  BY <1>2, SMT
<1>5. ASSUME NEW j \in DOMAIN r PROVE j \in DOMAIN q \/ j = Len(q) + 1
  BY <1>2, SMT
<1> QED BY <1>1, <1>3, <1>4, <1>5 DEF Added

\* Where entry j of a list was before entry k was taken out.
Was(j, k) == IF j < k THEN j ELSE j + 1

\* The entries of list r are those of q but for entry k.
Removed(r, q, k) ==
  /\ \A j \in DOMAIN r : Was(j, k) \in DOMAIN q \ {k} /\ r[j] = q[Was(j, k)]
  /\ \A i, j \in DOMAIN r : Was(i, k) = Was(j, k) => i = j
  /\ \A i \in DOMAIN q \ {k} : \E j \in DOMAIN r : r[j] = q[i]

\* The entries of the list after entry k is taken out.
LEMMA RemoveEntries ==
  ASSUME NEW q \in Seq(Task), NEW k \in DOMAIN q, NEW r, r = Erase(q, k)
  PROVE  Removed(r, q, k)
<1> USE Zenon
<1>1. k \in 1 .. Len(q) /\ Len(q) \in Nat
  BY SMT
<1>2. /\ r \in Seq(Task) /\ Len(r) = Len(q) - 1
      /\ \A j \in 1 .. Len(q) - 1 : r[j] = IF j < k THEN q[j] ELSE q[j + 1]
  BY <1>1, EraseProperties
<1>3. DOMAIN q = 1 .. Len(q) /\ DOMAIN r = 1 .. Len(q) - 1
  BY <1>2, SMT
<1>4. \A j \in DOMAIN r : Was(j, k) \in DOMAIN q \ {k} /\ r[j] = q[Was(j, k)]
  BY <1>1, <1>2, <1>3, SMT DEF Was
<1>5. \A i, j \in DOMAIN r : Was(i, k) = Was(j, k) => i = j
  BY <1>1, <1>3, SMT DEF Was
<1>6. ASSUME NEW i \in DOMAIN q \ {k} PROVE \E j \in DOMAIN r : r[j] = q[i]
  <2>1. CASE i < k
    <3>1. i \in DOMAIN r /\ r[i] = q[i]
      BY <1>1, <1>2, <1>3, <2>1, SMT
    <3> QED BY <3>1
  <2>2. CASE ~(i < k)
    <3>1. i - 1 \in 1 .. Len(q) - 1 /\ ~(i - 1 < k) /\ (i - 1) + 1 = i
      BY <1>1, <1>3, <1>6, <2>2, SMT
    <3>2. i - 1 \in DOMAIN r /\ r[i - 1] = q[i]
      BY <1>2, <1>3, <3>1
    <3> QED BY <3>2
  <2> QED BY <2>1, <2>2
<1> QED BY <1>4, <1>5, <1>6 DEF Removed

-----------------------------------------------------------------------------
(* Waiting *)

\* The empty FiberAndThread has no fiber.
LEMMA NoTaskFiber == NoTask.fiber = None
BY Zenon DEF NoTask

\* Thread t has taken f from the queue and f has not given up its turn since.
Runs(t, f) == ft[t].fiber = f /\ pc[t] \in {"taken", "body", "bodywoke"}
\* A callback's fiber has given up its turn from here until run() lets it go.
Past == {"registered", "yield", "finish", "dec", "post", "sethold"}
\* Fiber f is thread t's cb_fiber, running or kept for the next callback.
Keeps(t, f) == cb_fiber[t] = f /\ (ft[t].fiber # None \/ pc[t] \notin Past)
Holder(t, f) == Runs(t, f) \/ Keeps(t, f)
Queued(f) == \E i \in DOMAIN m_fibers : m_fibers[i].fiber = f
QueuedOnce(f) ==
  \A i, j \in DOMAIN m_fibers : m_fibers[i].fiber = f /\ m_fibers[j].fiber = f => i = j
NoHolder(f) == \A t \in RunThreads : ~Holder(t, f)
NoTurn(f) == f \notin waiting /\ ~Queued(f) /\ NoHolder(f)
Ended == {"TERM", "ERROR"}

\* A fiber has one turn at most: it waits, or is queued once, or one thread has it.
OneTurn(f) ==
  /\ f \in waiting => ~Queued(f) /\ NoHolder(f)
  /\ Queued(f) => NoHolder(f)
  /\ QueuedOnce(f)
  /\ \A t, u \in RunThreads : Holder(t, f) /\ Holder(u, f) => t = u
  /\ \A t \in RunThreads : ~(Runs(t, f) /\ Keeps(t, f))

\* A fiber that has ended, or that nobody has scheduled, has none; no fiber is READY.
TurnState(f) ==
  /\ state[f] \in Ended => NoTurn(f)
  /\ state[f] # "READY"
  /\ f \in UserFibers \ given =>
       state[f] = "INIT" /\ NoTurn(f) /\ \A t \in RunThreads : ft[t].fiber # f

\* No two threads have the same cb_fiber.
OwnCb == \A t, u \in RunThreads : cb_fiber[t] = cb_fiber[u] /\ cb_fiber[t] # None => t = u

TurnInv == OwnCb /\ \A f \in Fibers : OneTurn(f) /\ TurnState(f)

\* f has no new place, and is in those it keeps as before.
Fewer(f) ==
  /\ f \in waiting' => f \in waiting
  /\ Queued(f)' => Queued(f)
  /\ QueuedOnce(f)'
  /\ \A t \in RunThreads : (Runs(t, f)' => Runs(t, f)) /\ (Keeps(t, f)' => Keeps(t, f))

\* A step that gives f no new place leaves it at most one.
LEMMA FewerTurns ==
  ASSUME NEW f \in Fibers, OneTurn(f), Fewer(f)
  PROVE  OneTurn(f)' /\ (NoTurn(f) => NoTurn(f)')
<1> USE Zenon
<1>1. ASSUME NEW t \in RunThreads, Holder(t, f)' PROVE Holder(t, f)
  BY <1>1 DEF Fewer, Holder
<1>2. NoHolder(f) => NoHolder(f)'
  BY <1>1 DEF NoHolder
<1>3. (f \in waiting => ~Queued(f) /\ NoHolder(f))' /\ (Queued(f) => NoHolder(f))'
  BY <1>2 DEF OneTurn, Fewer
<1>4. ASSUME NEW t \in RunThreads, NEW u \in RunThreads, Holder(t, f)', Holder(u, f)' PROVE t = u
  BY <1>1, <1>4 DEF OneTurn
<1>5. ASSUME NEW t \in RunThreads PROVE ~(Runs(t, f)' /\ Keeps(t, f)')
  BY DEF OneTurn, Fewer
<1>6. QueuedOnce(f)'
  BY DEF Fewer
<1>7. OneTurn(f)'
  BY <1>3, <1>4, <1>5, <1>6 DEF OneTurn
<1>8. NoTurn(f) => NoTurn(f)'
  BY <1>2 DEF NoTurn, Fewer
<1> QED BY <1>7, <1>8

\* The state of a fiber, and whether it was scheduled, are as before, or a thread
\* runs it or lets it go.
Steady(f) ==
  \/ state'[f] = state[f]
  \/ state'[f] \in {"EXEC", "HOLD"} /\ f \notin UserFibers \ given

\* A step that gives f no new place and does not end it.
LEMMA FewerState ==
  ASSUME NEW f \in Fibers, OneTurn(f), TurnState(f), Fewer(f), Steady(f),
         f \in UserFibers \ given' => f \in UserFibers \ given,
         f \in UserFibers \ given => \A t \in RunThreads : ft'[t].fiber # f
  PROVE  OneTurn(f)' /\ TurnState(f)'
<1> USE Zenon
<1>1. OneTurn(f)' /\ (NoTurn(f) => NoTurn(f)')
  BY FewerTurns
<1>2. "EXEC" \notin Ended /\ "HOLD" \notin Ended
  BY DEF Ended
<1>3. state'[f] \in Ended => NoTurn(f)'
  BY <1>1, <1>2 DEF TurnState, Steady
<1>4. state'[f] # "READY"
  BY DEF TurnState, Steady
<1>5. ASSUME f \in UserFibers \ given'
      PROVE  state'[f] = "INIT" /\ NoTurn(f)' /\ \A t \in RunThreads : ft'[t].fiber # f
  <2>1. f \in UserFibers \ given
    BY <1>5
  <2> QED BY <1>1, <2>1 DEF TurnState, Steady
<1> QED BY <1>1, <1>3, <1>4, <1>5 DEF TurnState

\* An entry for something else changes nothing for f.
LEMMA AppendOther ==
  ASSUME m_fibers \in Seq(Task), NEW e \in Task, schedule(e), NEW f, e.fiber # f, QueuedOnce(f)
  PROVE  (Queued(f)' => Queued(f)) /\ QueuedOnce(f)'
<1> USE Zenon
<1>1. Added(m_fibers', m_fibers, e, Len(m_fibers) + 1)
  BY AppendEntries DEF schedule
<1>2. ASSUME NEW i \in DOMAIN m_fibers', m_fibers'[i].fiber = f
      PROVE  i \in DOMAIN m_fibers /\ m_fibers[i].fiber = f
  BY <1>1, <1>2 DEF Added
<1> QED BY <1>2 DEF Queued, QueuedOnce

\* An entry for a fiber that has none is its only one.
LEMMA AppendFirst ==
  ASSUME m_fibers \in Seq(Task), NEW e \in Task, schedule(e), NEW f, ~Queued(f)
  PROVE  QueuedOnce(f)'
<1> USE Zenon
<1>1. Added(m_fibers', m_fibers, e, Len(m_fibers) + 1)
  BY AppendEntries DEF schedule
<1>2. ASSUME NEW i \in DOMAIN m_fibers', m_fibers'[i].fiber = f
      PROVE  i = Len(m_fibers) + 1
  BY <1>1, <1>2 DEF Added, Queued
<1> QED BY <1>2 DEF QueuedOnce

\* Taking an entry out gives no fiber a new one, and its own fiber has none left.
LEMMA RemoveOne ==
  ASSUME m_fibers \in Seq(Task), NEW k \in DOMAIN m_fibers, m_fibers' = Erase(m_fibers, k),
         NEW f, QueuedOnce(f)
  PROVE  /\ Queued(f)' => Queued(f)
         /\ QueuedOnce(f)'
         /\ m_fibers[k].fiber = f => ~Queued(f)'
<1> USE Zenon
<1>1. Removed(m_fibers', m_fibers, k)
  BY RemoveEntries
<1>2. ASSUME NEW j \in DOMAIN m_fibers', m_fibers'[j].fiber = f
      PROVE  Was(j, k) \in DOMAIN m_fibers /\ Was(j, k) # k /\ m_fibers[Was(j, k)].fiber = f
  BY <1>1, <1>2 DEF Removed
<1>3. ASSUME NEW i \in DOMAIN m_fibers', NEW j \in DOMAIN m_fibers',
             m_fibers'[i].fiber = f, m_fibers'[j].fiber = f
      PROVE  i = j
  <2>1. Was(i, k) = Was(j, k)
    BY <1>2, <1>3 DEF QueuedOnce
  <2> QED BY <1>1, <2>1 DEF Removed
<1>4. m_fibers[k].fiber = f => ~Queued(f)'
  BY <1>2 DEF Queued, QueuedOnce
<1> QED BY <1>2, <1>3, <1>4 DEF Queued, QueuedOnce

\* What a step of thread t does to f's places is what it does to t's.
LEMMA OthersKeep ==
  ASSUME TypeOK, NEW t \in RunThreads, Run(t), NEW f
  PROVE  \A u \in RunThreads \ {t} : Runs(u, f)' = Runs(u, f) /\ Keeps(u, f)' = Keeps(u, f)
<1> SUFFICES ASSUME NEW u \in RunThreads \ {t}
             PROVE  Runs(u, f)' = Runs(u, f) /\ Keeps(u, f)' = Keeps(u, f)
  OBVIOUS
<1>1. pc'[u] = pc[u] /\ ft'[u] = ft[u] /\ cb_fiber'[u] = cb_fiber[u]
  BY RunLocal
<1> QED BY <1>1, Zenon DEF Runs, Keeps

\* Thread t has no fiber it did not have.
Less(t, f) == (Runs(t, f)' => Runs(t, f)) /\ (Keeps(t, f)' => Keeps(t, f))

\* A step of t that gives f no place gives it none anywhere.
LEMMA RunFewer ==
  ASSUME TypeOK, NEW t \in RunThreads, Run(t), NEW f, Less(t, f),
         f \in waiting' => f \in waiting, Queued(f)' => Queued(f), QueuedOnce(f)'
  PROVE  Fewer(f)
<1> USE Zenon
<1>1. ASSUME NEW u \in RunThreads PROVE (Runs(u, f)' => Runs(u, f)) /\ (Keeps(u, f)' => Keeps(u, f))
  <2>1. CASE u = t
    BY <2>1 DEF Less
  <2>2. CASE u # t
    BY <2>2, OthersKeep
  <2> QED BY <2>1, <2>2
<1> QED BY <1>1 DEF Fewer

\* The fiber a thread is on was scheduled.
LEMMA CurGiven ==
  ASSUME TypeOK, TurnInv, NEW t \in RunThreads
  PROVE  /\ cb_fiber[t] \notin UserFibers \ given
         /\ ft[t].fiber \notin UserFibers \ given
         /\ Cur(t) \notin UserFibers \ given
<1> USE Zenon
<1>1. cb_fiber[t] \notin UserFibers
  BY TasksAssumption DEF TypeOK, Fibers
<1>2. ASSUME ft[t].fiber \in UserFibers \ given PROVE FALSE
  <2>1. ft[t].fiber \in Fibers
    BY <1>2 DEF Fibers
  <2> QED BY <1>2, <2>1 DEF TurnInv, TurnState
<1> QED BY <1>1, <1>2 DEF Cur

\* A thread on a fiber's stack that has not given up the turn has it.
LEMMA BodyHolds ==
  ASSUME NEW t \in RunThreads, pc[t] \in {"body", "bodywoke"}
  PROVE  Holder(t, Cur(t))
<1>1. pc[t] \notin Past
  BY DEF Past
<1> QED BY <1>1 DEF Holder, Runs, Keeps, Cur

\* Giving up the turn, by waiting or ending, leaves no holder.
LEMMA TurnGivenUp ==
  ASSUME TypeOK, TurnInv, NEW t \in RunThreads, Run(t), pc[t] = "body", NEW f \in Fibers, f = Cur(t),
         pc'[t] \in {"registered", "finish"}, UNCHANGED <<ft, cb_fiber>>
  PROVE  /\ NoHolder(f)' /\ f \notin waiting /\ ~Queued(f)
         /\ \A g \in Fibers : Less(t, g)
<1> USE Zenon
<1>1. Holder(t, f) /\ OneTurn(f)
  BY BodyHolds DEF TurnInv
<1>2. pc'[t] \in Past /\ pc[t] \notin Past /\ pc'[t] \notin {"taken", "body", "bodywoke"}
  BY DEF Past
<1>3. ASSUME NEW g \in Fibers PROVE Less(t, g)
  BY <1>2 DEF Less, Runs, Keeps
<1>4. ~Holder(t, f)'
  <2>1. ~Runs(t, f)'
    BY <1>2 DEF Runs
  <2>2. CASE ft[t].fiber = None
    BY <1>2, <2>1, <2>2 DEF Holder, Keeps
  <2>3. CASE ft[t].fiber # None
    <3>1. Runs(t, f)
      BY <2>3 DEF Runs, Cur
    <3>2. ~Keeps(t, f)
      BY <1>1, <3>1 DEF OneTurn
    <3> QED BY <1>1, <1>3, <2>1, <3>2 DEF Holder, Less
  <2> QED BY <2>2, <2>3
<1>5. ASSUME NEW u \in RunThreads PROVE ~Holder(u, f)'
  <2>1. CASE u = t
    BY <1>4, <2>1
  <2>2. CASE u # t
    <3>1. ~Holder(u, f)
      BY <1>1, <2>2 DEF OneTurn
    <3> QED BY <2>2, <3>1, OthersKeep DEF Holder
  <2> QED BY <2>1, <2>2
<1>6. f \notin waiting /\ ~Queued(f)
  BY <1>1 DEF OneTurn, NoHolder
<1>7. NoHolder(f)'
  BY <1>5 DEF NoHolder
<1> QED BY <1>3, <1>6, <1>7

\* A step of run() that gives no fiber a new place and ends none.
LEMMA QuietTurns ==
  ASSUME TypeOK, TurnInv, NEW t \in RunThreads, Run(t), UNCHANGED waiting, given \subseteq given', OwnCb',
         ft'[t].fiber = ft[t].fiber \/ ft'[t].fiber = None,
         \A f \in Fibers : Less(t, f) /\ Steady(f) /\ (Queued(f)' => Queued(f)) /\ QueuedOnce(f)'
  PROVE  TurnInv'
<1> USE Zenon
<1> SUFFICES ASSUME NEW f \in Fibers PROVE OneTurn(f)' /\ TurnState(f)'
  BY DEF TurnInv
<1>1. OneTurn(f) /\ TurnState(f)
  BY DEF TurnInv
<1>2. Fewer(f)
  <2>1. /\ Less(t, f) /\ (f \in waiting' => f \in waiting)
        /\ (Queued(f)' => Queued(f)) /\ QueuedOnce(f)'
    OBVIOUS
  <2> QED BY <2>1, RunFewer
<1>3. f \in UserFibers \ given' => f \in UserFibers \ given
  OBVIOUS
<1>4. ASSUME f \in UserFibers \ given, NEW u \in RunThreads PROVE ft'[u].fiber # f
  <2>1. ft[u].fiber # f /\ ft[t].fiber # f
    BY <1>1, <1>4 DEF TurnState
  <2>2. CASE u = t
    <3>1. None # f
      BY TasksAssumption
    <3> QED BY <2>1, <2>2, <3>1
  <2>3. CASE u # t
    <3>1. ft'[u] = ft[u]
      BY <2>3, RunLocal
    <3> QED BY <2>1, <3>1
  <2> QED BY <2>2, <2>3
<1>5. Steady(f)
  OBVIOUS
<1> QED BY <1>1, <1>2, <1>3, <1>4, <1>5, FewerState

\* The queue has not changed.
LEMMA SameQueue ==
  ASSUME UNCHANGED m_fibers, NEW f, QueuedOnce(f)
  PROVE  (Queued(f)' => Queued(f)) /\ QueuedOnce(f)'
BY Zenon DEF Queued, QueuedOnce

\* A thread that goes on with the same fibers.
LEMMA MoveTurns ==
  ASSUME TypeOK, TurnInv, NEW t \in RunThreads, Run(t), UNCHANGED <<waiting, m_fibers, given, ft, cb_fiber>>,
         pc'[t] \in {"taken", "body", "bodywoke"} => pc[t] \in {"taken", "body", "bodywoke"},
         pc[t] \in Past => pc'[t] \in Past,
         \A f \in Fibers : Steady(f)
  PROVE  TurnInv'
<1> USE Zenon
<1>1. OwnCb'
  BY DEF TurnInv, OwnCb
<1>2. ASSUME NEW f \in Fibers
      PROVE  Less(t, f) /\ Steady(f) /\ (Queued(f)' => Queued(f)) /\ QueuedOnce(f)'
  <2>1. Less(t, f)
    BY DEF Less, Runs, Keeps
  <2>2. QueuedOnce(f)
    BY DEF TurnInv, OneTurn
  <2> QED BY <2>1, <2>2, SameQueue
<1>3. ft'[t].fiber = ft[t].fiber /\ given \subseteq given'
  OBVIOUS
<1> QED BY <1>1, <1>2, <1>3, QuietTurns

\* Only fiber f's state changes, and f was scheduled.
LEMMA SteadyAt ==
  ASSUME TypeOK, NEW f \in Fibers, f \notin UserFibers \ given, NEW s \in {"EXEC", "HOLD"},
         state' = [state EXCEPT ![f] = s]
  PROVE  \A g \in Fibers : Steady(g)
<1> SUFFICES ASSUME NEW g \in Fibers PROVE Steady(g)
  OBVIOUS
<1>1. state'[g] = IF g = f THEN s ELSE state[g]
  BY DEF TypeOK
<1> QED BY <1>1, Zenon DEF Steady

\* Steps of run() that leave the places of the fibers alone.
LEMMA RunMoves ==
  ASSUME CountInv, TurnInv, NEW t \in RunThreads, Run(t),
         \/ TakeNothing(t) \/ EnterFiber(t) \/ YieldToHold(t) \/ swapOut(t) \/ Deactivate(t) \/ SeesHold(t)
         \/ IdleChecksPending(t) \/ IdleChecksQueue(t) \/ LeaveIdle(t) \/ WakeDone(t)
         \/ UNCHANGED <<queue, events, fibers, threads, caller, bounds>>
  PROVE  TurnInv'
<1> USE Zenon
<1>0. TypeOK /\ CurInv /\ pc \in [RunThreads -> PC]
  BY DEF CountInv, TypeOK
<1>s. ASSUME UNCHANGED state PROVE \A f \in Fibers : Steady(f)
  BY <1>s DEF Steady
<1>l. /\ \A l \in {"take", "exit", "idle", "check2", "poll", "woke", "taken", "body", "bodywoke"} : l \notin Past
      /\ \A l \in {"registered", "yield", "finish", "dec", "post", "sethold"} : l \in Past
  BY DEF Past
<1>m. ASSUME NEW l, Goto(t, l), UNCHANGED <<waiting, m_fibers, given, ft, cb_fiber>>,
             l \in {"taken", "body", "bodywoke"} => pc[t] \in {"taken", "body", "bodywoke"},
             pc[t] \in Past => l \in Past, \A f \in Fibers : Steady(f)
      PROVE  TurnInv'
  <2>1. pc'[t] = l
    BY <1>0, <1>m DEF Goto
  <2> QED BY <1>0, <1>m, <2>1, MoveTurns
<1>1. CASE TakeNothing(t)
  <2>1. PICK l \in {"exit", "idle"} : Goto(t, l)
    BY <1>1 DEF TakeNothing
  <2>2. UNCHANGED <<waiting, m_fibers, given, ft, cb_fiber, state>> /\ pc[t] \notin Past
    BY <1>1, <1>l DEF TakeNothing, queue, events, fibers, bounds
  <2>3. l \notin {"taken", "body", "bodywoke"}
    BY <2>1
  <2> QED BY <1>m, <1>s, <2>1, <2>2, <2>3
<1>2. CASE EnterFiber(t)
  <2>1. CASE UNCHANGED <<queue, events, fibers, threads, caller, bounds>>
    <3>1. UNCHANGED <<waiting, m_fibers, given, ft, cb_fiber, state, pc>>
      BY <2>1 DEF queue, events, fibers, threads, bounds
    <3> QED BY <1>0, <1>s, <3>1, MoveTurns
  <2>2. CASE Goto(t, "body") /\ state' = [state EXCEPT ![ft[t].fiber] = "EXEC"]
             /\ UNCHANGED <<queue, events, ft, cb_fiber, bounds>>
    <3>1. ft[t].fiber \in Fibers
      BY <1>0, <1>2 DEF EnterFiber, TypeOK, Task
    <3>2. \A f \in Fibers : Steady(f)
      BY <1>0, <2>2, <3>1, CurGiven, SteadyAt
    <3>3. UNCHANGED <<waiting, m_fibers, given, ft, cb_fiber>> /\ pc[t] = "taken"
      BY <1>2, <2>2 DEF EnterFiber, queue, events, bounds
    <3> QED BY <1>l, <1>m, <2>2, <3>2, <3>3
  <2> QED BY <1>2, <2>1, <2>2 DEF EnterFiber, Enter, Abort
<1>3. CASE YieldToHold(t)
  <2>1. Cur(t) \in Fibers
    BY <1>0, <1>3 DEF YieldToHold, CurInv, ActiveLabels
  <2>2. \A f \in Fibers : Steady(f)
    BY <1>0, <1>3, <2>1, CurGiven, SteadyAt DEF YieldToHold
  <2>3. UNCHANGED <<waiting, m_fibers, given, ft, cb_fiber>> /\ Goto(t, "yield")
    BY <1>3 DEF YieldToHold, queue, events, bounds
  <2> QED BY <1>l, <1>m, <2>2, <2>3
<1>4. CASE swapOut(t)
  <2>1. UNCHANGED <<waiting, m_fibers, given, ft, cb_fiber, state>> /\ Goto(t, "dec")
    BY <1>4 DEF swapOut, queue, events, bounds
  <2> QED BY <1>l, <1>m, <1>s, <2>1
<1>5. CASE Deactivate(t)
  <2>1. UNCHANGED <<waiting, m_fibers, given, ft, cb_fiber, state>> /\ Goto(t, "post")
    BY <1>5 DEF Deactivate, events, fibers, bounds
  <2> QED BY <1>l, <1>m, <1>s, <2>1
<1>6. CASE SeesHold(t)
  <2>1. UNCHANGED <<waiting, m_fibers, given, ft, cb_fiber, state>> /\ Goto(t, "sethold")
    BY <1>6 DEF SeesHold, queue, events, fibers, bounds
  <2> QED BY <1>l, <1>m, <1>s, <2>1
<1>7. CASE IdleChecksPending(t) \/ IdleChecksQueue(t) \/ LeaveIdle(t)
  <2>1. PICK l \in {"check2", "poll", "take"} : Goto(t, l)
    BY <1>7 DEF IdleChecksPending, IdleChecksQueue, LeaveIdle
  <2>2. UNCHANGED <<waiting, m_fibers, given, ft, cb_fiber, state>> /\ pc[t] \notin Past
    BY <1>7, <1>l DEF IdleChecksPending, IdleChecksQueue, LeaveIdle, queue, events, fibers, bounds
  <2>3. l \notin {"taken", "body", "bodywoke"}
    BY <2>1
  <2> QED BY <1>m, <1>s, <2>1, <2>2, <2>3
<1>8. CASE WakeDone(t)
  <2>1. UNCHANGED <<waiting, m_fibers, given, ft, cb_fiber, state>> /\ pc[t] \notin Past
    BY <1>8, <1>l DEF WakeDone, queue, fibers, bounds
  <2>2. CASE pc[t] = "woke"
    <3>1. Goto(t, "poll")
      BY <1>8, <2>2 DEF WakeDone
    <3> QED BY <1>m, <1>s, <2>1, <3>1
  <2>3. CASE pc[t] = "bodywoke"
    <3>1. Goto(t, "body")
      BY <1>8, <2>3 DEF WakeDone
    <3> QED BY <1>m, <1>s, <2>1, <2>3, <3>1
  <2> QED BY <1>8, <2>2, <2>3 DEF WakeDone
<1>9. CASE UNCHANGED <<queue, events, fibers, threads, caller, bounds>>
  <2>1. UNCHANGED <<waiting, m_fibers, given, ft, cb_fiber, state, pc>>
    BY <1>9 DEF queue, events, fibers, threads, bounds
  <2> QED BY <1>0, <1>s, <2>1, MoveTurns
<1> QED BY <1>1, <1>2, <1>3, <1>4, <1>5, <1>6, <1>7, <1>8, <1>9

\* run() takes an entry: the fiber's turn goes from the queue to the thread.
LEMMA TakeTurns ==
  ASSUME TypeOK, TurnInv, NEW t \in RunThreads, Run(t), Take(t)
  PROVE  TurnInv'
<1> USE Zenon
<1>0. /\ m_fibers \in Seq(Task) /\ ft \in [RunThreads -> Task] /\ pc \in [RunThreads -> PC]
      /\ DOMAIN m_fibers = 1 .. Len(m_fibers)
  BY SMT DEF TypeOK
<1>1. PICK k \in DOMAIN m_fibers : ft' = [ft EXCEPT ![t] = m_fibers[k]] /\ m_fibers' = Erase(m_fibers, k)
  BY <1>0 DEF Take
<1>2. ft'[t] = m_fibers[k] /\ pc[t] = "take" /\ pc'[t] = "taken"
  BY <1>0, <1>1 DEF Take, Goto
<1>3. UNCHANGED <<waiting, cb_fiber, state, given>>
  BY DEF Take, events, fibers
<1>4. "take" \notin Past /\ "taken" \notin Past
  BY DEF Past
<1>5. OwnCb'
  BY <1>3 DEF TurnInv, OwnCb
<1> SUFFICES ASSUME NEW f \in Fibers PROVE OneTurn(f)' /\ TurnState(f)'
  BY <1>5 DEF TurnInv
<1>6. OneTurn(f) /\ TurnState(f) /\ QueuedOnce(f)
  BY DEF TurnInv, OneTurn
<1>7. /\ Queued(f)' => Queued(f)
      /\ QueuedOnce(f)'
      /\ m_fibers[k].fiber = f => ~Queued(f)'
  BY <1>0, <1>1, <1>6, RemoveOne
<1>8. Keeps(t, f)' => Keeps(t, f)
  BY <1>2, <1>3, <1>4 DEF Keeps
<1>9. CASE m_fibers[k].fiber # f
  <2>1. ~Runs(t, f)'
    BY <1>2, <1>9 DEF Runs
  <2>2. Fewer(f)
    <3>1. Less(t, f) /\ (f \in waiting' => f \in waiting)
      BY <1>3, <1>8, <2>1 DEF Less
    <3> QED BY <1>7, <3>1, RunFewer
  <2>3. ASSUME f \in UserFibers \ given, NEW u \in RunThreads PROVE ft'[u].fiber # f
    <3>1. CASE u = t
      BY <1>2, <1>9, <3>1
    <3>2. CASE u # t
      <4>1. ft'[u] = ft[u]
        BY <3>2, RunLocal
      <4> QED BY <1>6, <2>3, <4>1 DEF TurnState
    <3> QED BY <3>1, <3>2
  <2>4. Steady(f) /\ (f \in UserFibers \ given' => f \in UserFibers \ given)
    BY <1>3 DEF Steady
  <2> QED BY <1>6, <2>2, <2>3, <2>4, FewerState
<1>10. CASE m_fibers[k].fiber = f
  <2>1. Queued(f) /\ NoHolder(f) /\ f \notin waiting
    BY <1>6, <1>10 DEF Queued, OneTurn
  <2>2. ~Keeps(t, f)'
    BY <1>8, <2>1 DEF NoHolder, Holder
  <2>3. ASSUME NEW u \in RunThreads, u # t PROVE ~Holder(u, f)'
    <3>1. ~Holder(u, f)
      BY <2>1 DEF NoHolder
    <3> QED BY <2>3, <3>1, OthersKeep DEF Holder
  <2>4. ASSUME NEW u \in RunThreads PROVE ~(Runs(u, f)' /\ Keeps(u, f)')
    BY <2>2, <2>3 DEF Holder
  <2>5. ~Queued(f)' /\ f \notin waiting' /\ QueuedOnce(f)'
    BY <1>3, <1>7, <1>10, <2>1
  <2>6. ASSUME NEW u \in RunThreads, NEW v \in RunThreads, Holder(u, f)', Holder(v, f)' PROVE u = v
    BY <2>3, <2>6
  <2>7. OneTurn(f)'
    BY <2>4, <2>5, <2>6 DEF OneTurn
  <2>8. state[f] \notin Ended /\ state[f] # "READY" /\ f \notin UserFibers \ given
    BY <1>6, <2>1 DEF TurnState, NoTurn
  <2> QED BY <1>3, <2>7, <2>8 DEF TurnState
<1> QED BY <1>9, <1>10

\* A fiber without a turn that thread t gets as its cb_fiber.
LEMMA KeptTurn ==
  ASSUME TypeOK, NEW t \in RunThreads, Run(t), NEW f \in Fibers, NoTurn(f), f \notin UserFibers \ given',
         f \notin waiting', ~Queued(f)', ~Runs(t, f)', state'[f] \notin Ended, state'[f] # "READY"
  PROVE  OneTurn(f)' /\ TurnState(f)'
<1> USE Zenon
<1>1. ASSUME NEW u \in RunThreads, u # t PROVE ~Holder(u, f)'
  <2>1. ~Holder(u, f)
    BY DEF NoTurn, NoHolder
  <2> QED BY <1>1, <2>1, OthersKeep DEF Holder
<1>2. QueuedOnce(f)'
  BY DEF Queued, QueuedOnce
<1>3. ASSUME NEW u \in RunThreads, NEW v \in RunThreads, Holder(u, f)', Holder(v, f)' PROVE u = v
  BY <1>1, <1>3
<1>4. ASSUME NEW u \in RunThreads PROVE ~(Runs(u, f)' /\ Keeps(u, f)')
  BY <1>1 DEF Holder
<1>5. OneTurn(f)'
  BY <1>2, <1>3, <1>4 DEF OneTurn
<1> QED BY <1>5 DEF TurnState

\* A callback runs in the thread's cb_fiber, or in one that nobody refers to.
LEMMA EnterCbTurns ==
  ASSUME TypeOK, TurnInv, NEW t \in RunThreads, Run(t), NEW k \in CbFibers, EnterCb(t, k),
         cb_fiber' = [cb_fiber EXCEPT ![t] = k]
                /\ state' = [state EXCEPT ![k] = "EXEC"] /\ ft' = [ft EXCEPT ![t] = NoTask]
                /\ Goto(t, "body") /\ UNCHANGED <<queue, events, given>>
  PROVE  TurnInv'
<1> USE Zenon
<1>0. /\ UNCHANGED <<waiting, m_fibers, given>> /\ pc[t] = "taken" /\ k \in Fibers
      /\ k \notin UserFibers /\ k # None
  BY TasksAssumption DEF EnterCb, queue, events, Fibers
<1>1. cb_fiber'[t] = k /\ pc'[t] = "body" /\ ft'[t] = NoTask
  BY DEF TypeOK, Goto
<1>2. ft'[t].fiber = None
  BY <1>1, NoTaskFiber
<1>3. "taken" \notin Past /\ "body" \notin Past
  BY DEF Past
<1>4. \A g \in Fibers : Steady(g)
  BY <1>0, SteadyAt
<1>5. ASSUME NEW f \in Fibers PROVE ~Runs(t, f)'
  <2>1. f # None
    BY TasksAssumption
  <2> QED BY <1>2, <2>1 DEF Runs
<1>6. ASSUME NEW f \in Fibers PROVE (Queued(f)' => Queued(f)) /\ QueuedOnce(f)'
  BY <1>0, SameQueue DEF TurnInv, OneTurn
<1>7. ASSUME NEW u \in RunThreads, u # t PROVE cb_fiber'[u] = cb_fiber[u]
  BY <1>7, RunLocal
<1>8. CASE cb_fiber[t] # None
  <2>1. cb_fiber[t] = k
    BY <1>8 DEF EnterCb
  <2>2. OwnCb'
    <3>1. \A u \in RunThreads : cb_fiber'[u] = cb_fiber[u]
      BY <1>1, <1>7, <2>1
    <3> QED BY <3>1 DEF TurnInv, OwnCb
  <2>3. ASSUME NEW f \in Fibers PROVE Less(t, f)
    BY <1>0, <1>1, <1>3, <1>5, <2>1 DEF Less, Keeps
  <2>4. given \subseteq given'
    BY <1>0
  <2> QED BY <1>0, <1>2, <1>4, <1>6, <2>2, <2>3, <2>4, QuietTurns
<1>9. CASE cb_fiber[t] = None
  <2>1. k \in Free
    BY <1>9 DEF EnterCb
  <2>2. \A u \in RunThreads : ft[u].fiber # k /\ cb_fiber[u] # k /\ ~ReferencedBesides(u, k)
    BY <2>1 DEF Free
  <2>3. NoTurn(k)
    <3>1. NoHolder(k)
      BY <2>2 DEF NoHolder, Holder, Runs, Keeps
    <3>2. k \notin waiting /\ ~Queued(k)
      BY <2>2 DEF ReferencedBesides, Queued
    <3> QED BY <3>1, <3>2 DEF NoTurn
  <2>4. OwnCb'
    <3> SUFFICES ASSUME NEW u \in RunThreads, NEW v \in RunThreads, cb_fiber'[u] = cb_fiber'[v], cb_fiber'[u] # None
                 PROVE  u = v
      BY DEF OwnCb
    <3>1. CASE u # t /\ v # t
      BY <1>7, <3>1 DEF TurnInv, OwnCb
    <3>2. CASE u = t /\ v # t
      BY <1>1, <1>7, <2>2, <3>2
    <3>3. CASE u # t /\ v = t
      BY <1>1, <1>7, <2>2, <3>3
    <3> QED BY <3>1, <3>2, <3>3
  <2>5. ASSUME NEW f \in Fibers PROVE OneTurn(f)' /\ TurnState(f)'
    <3>1. CASE f = k
      <4>1. state'[k] = "EXEC"
        BY <1>0 DEF TypeOK
      <4>2. state'[k] \notin Ended /\ state'[k] # "READY"
        BY <4>1 DEF Ended
      <4>3. k \notin waiting' /\ ~Queued(k)' /\ ~Runs(t, k)' /\ k \notin UserFibers \ given'
        BY <1>0, <1>5, <1>6, <2>3 DEF NoTurn
      <4>4. OneTurn(k)' /\ TurnState(k)'
        BY <1>0, <2>3, <4>2, <4>3, KeptTurn
      <4> QED BY <3>1, <4>4
    <3>2. CASE f # k
      <4>1. Less(t, f)
        BY <1>1, <1>5, <3>2 DEF Less, Keeps
      <4>2. OneTurn(f) /\ TurnState(f) /\ Steady(f)
        BY <1>4 DEF TurnInv
      <4>3. Fewer(f)
        <5>1. f \in waiting' => f \in waiting
          BY <1>0
        <5> QED BY <1>6, <4>1, <5>1, RunFewer
      <4>4. ASSUME f \in UserFibers \ given, NEW u \in RunThreads PROVE ft'[u].fiber # f
        <5>1. CASE u = t
          <6>1. f # None
            BY TasksAssumption
          <6> QED BY <1>2, <5>1, <6>1
        <5>2. CASE u # t
          <6>1. ft'[u] = ft[u]
            BY <5>2, RunLocal
          <6> QED BY <4>2, <4>4, <6>1 DEF TurnState
        <5> QED BY <5>1, <5>2
      <4>5. f \in UserFibers \ given' => f \in UserFibers \ given
        BY <1>0
      <4> QED BY <4>2, <4>3, <4>4, <4>5, FewerState
    <3> QED BY <3>1, <3>2
  <2> QED BY <2>4, <2>5 DEF TurnInv
<1> QED BY <1>8, <1>9

\* A thread lets go of a fiber that has ended: the callback's fiber is kept for the
\* next one, another is dropped.
LEMMA RetireTurns ==
  ASSUME CountInv, TurnInv, NEW t \in RunThreads, Run(t), Retire(t)
  PROVE  TurnInv'
<1> USE Zenon
<1>0. /\ TypeOK /\ pc[t] = "post" /\ pc'[t] = "take" /\ ft'[t] = NoTask /\ state[Cur(t)] \in Ended
      /\ UNCHANGED <<waiting, m_fibers, given, cb_fiber>>
  BY DEF CountInv, TypeOK, Retire, Goto, queue, events, bounds, Ended
<1>1. ft'[t].fiber = None
  BY <1>0, NoTaskFiber
<1>2. Cur(t) \in Fibers
  BY <1>0 DEF CountInv, CurInv
<1>3. OwnCb'
  BY <1>0 DEF TurnInv, OwnCb
<1>4. "post" \in Past /\ "take" \notin Past
  BY DEF Past
<1>5. ASSUME NEW f \in Fibers PROVE ~Runs(t, f)' /\ (Queued(f)' => Queued(f)) /\ QueuedOnce(f)'
  <2>1. f # None
    BY TasksAssumption
  <2>2. ~Runs(t, f)'
    BY <1>1, <2>1 DEF Runs
  <2> QED BY <1>0, <2>2, SameQueue DEF TurnInv, OneTurn
<1>6. given \subseteq given' /\ UNCHANGED waiting
  BY <1>0
<1>7. CASE ft[t].fiber # None
  <2>1. UNCHANGED state
    BY <1>7 DEF Retire
  <2>2. ASSUME NEW f \in Fibers PROVE Less(t, f) /\ Steady(f)
    BY <1>0, <1>5, <1>7, <2>1 DEF Less, Keeps, Steady
  <2> QED BY <1>0, <1>1, <1>3, <1>5, <1>6, <2>2, QuietTurns
<1>8. CASE ft[t].fiber = None
  <2>1. PICK k \in Fibers : k = Cur(t)
    BY <1>2
  <2>2. k = cb_fiber[t] /\ k \notin UserFibers \ given /\ state' = [state EXCEPT ![k] = "INIT"]
    BY <1>0, <1>8, <2>1, CurGiven DEF Cur, Retire
  <2>3. NoTurn(k)
    BY <1>0, <2>1 DEF TurnInv, TurnState
  <2>4. OneTurn(k)' /\ TurnState(k)'
    <3>1. state'[k] = "INIT"
      BY <1>0, <2>2 DEF TypeOK
    <3>2. state'[k] \notin Ended /\ state'[k] # "READY"
      BY <3>1 DEF Ended
    <3>3. k \notin waiting' /\ ~Queued(k)' /\ ~Runs(t, k)' /\ k \notin UserFibers \ given'
      BY <1>0, <1>5, <2>2, <2>3 DEF NoTurn
    <3> QED BY <1>0, <2>3, <3>2, <3>3, KeptTurn
  <2>5. ASSUME NEW f \in Fibers, f # k PROVE OneTurn(f)' /\ TurnState(f)'
    <3>1. state'[f] = state[f]
      BY <1>0, <2>2, <2>5 DEF TypeOK
    <3>2. Less(t, f) /\ Steady(f)
      BY <1>0, <1>5, <2>2, <2>5, <3>1 DEF Less, Keeps, Steady
    <3>3. OneTurn(f) /\ TurnState(f)
      BY DEF TurnInv
    <3>4. Fewer(f)
      BY <1>0, <1>5, <1>6, <3>2, RunFewer
    <3>5. ASSUME f \in UserFibers \ given, NEW u \in RunThreads PROVE ft'[u].fiber # f
      <4>1. CASE u = t
        <5>1. f # None
          BY TasksAssumption
        <5> QED BY <1>1, <4>1, <5>1
      <4>2. CASE u # t
        <5>1. ft'[u] = ft[u]
          BY <1>0, <4>2, RunLocal
        <5> QED BY <3>3, <3>5, <5>1 DEF TurnState
      <4> QED BY <4>1, <4>2
    <3>6. f \in UserFibers \ given' => f \in UserFibers \ given
      BY <1>0
    <3> QED BY <3>2, <3>3, <3>4, <3>5, <3>6, FewerState
  <2> QED BY <1>3, <2>4, <2>5 DEF TurnInv
<1> QED BY <1>7, <1>8

\* run() writes HOLD and lets go of the fiber.
LEMMA SetHoldTurns ==
  ASSUME CountInv, TurnInv, NEW t \in RunThreads, Run(t), SetHold(t),
         ~UNCHANGED <<queue, events, fibers, threads, caller, bounds>>
  PROVE  TurnInv'
<1> USE Zenon
<1>0. /\ TypeOK /\ pc[t] = "sethold" /\ state' = [state EXCEPT ![Cur(t)] = "HOLD"]
      /\ cb_fiber' = (IF ft[t].fiber = None THEN [cb_fiber EXCEPT ![t] = None] ELSE cb_fiber)
      /\ ft' = [ft EXCEPT ![t] = NoTask] /\ Goto(t, "take")
      /\ UNCHANGED <<queue, events, bounds>>
  BY DEF CountInv, SetHold, Abort
<1>1. ft'[t] = NoTask /\ pc'[t] = "take" /\ UNCHANGED <<waiting, m_fibers, given>>
  BY <1>0 DEF TypeOK, Goto, queue, events, bounds
<1>2. ft'[t].fiber = None
  BY <1>1, NoTaskFiber
<1>3. Cur(t) \in Fibers
  BY <1>0 DEF CountInv, CurInv
<1>4. \A f \in Fibers : Steady(f)
  <2>1. Cur(t) \notin UserFibers \ given
    BY <1>0, CurGiven
  <2> QED BY <1>0, <1>3, <2>1, SteadyAt
<1>5. ft[t].fiber = None => cb_fiber'[t] = None
  BY <1>0 DEF TypeOK
<1>6. OwnCb'
  <2>1. ASSUME NEW u \in RunThreads, cb_fiber'[u] # None PROVE cb_fiber'[u] = cb_fiber[u]
    BY <1>0, <2>1 DEF TypeOK
  <2> QED BY <2>1 DEF TurnInv, OwnCb
<1>7. ASSUME NEW f \in Fibers PROVE Less(t, f) /\ Steady(f) /\ (Queued(f)' => Queued(f)) /\ QueuedOnce(f)'
  <2>1. f # None
    BY TasksAssumption
  <2>2. ~Runs(t, f)'
    BY <1>2, <2>1 DEF Runs
  <2>3. Keeps(t, f)' => Keeps(t, f)
    <3>1. CASE ft[t].fiber = None
      BY <1>5, <2>1, <3>1 DEF Keeps
    <3>2. CASE ft[t].fiber # None
      BY <1>0, <3>2 DEF Keeps
    <3> QED BY <3>1, <3>2
  <2>4. QueuedOnce(f)
    BY DEF TurnInv, OneTurn
  <2> QED BY <1>1, <1>4, <2>2, <2>3, <2>4, SameQueue DEF Less
<1>8. given \subseteq given' /\ UNCHANGED waiting
  BY <1>1
<1> QED BY <1>0, <1>2, <1>6, <1>7, <1>8, QuietTurns

\* A fiber that ends gives up its turn.
LEMMA FinishTurns ==
  ASSUME CountInv, TurnInv, NEW t \in RunThreads, Run(t), Finish(t)
  PROVE  TurnInv'
<1> USE Zenon
<1>0. /\ TypeOK /\ pc[t] = "body" /\ pc'[t] = "finish" /\ UNCHANGED <<waiting, m_fibers, given, ft, cb_fiber>>
  BY DEF CountInv, TypeOK, Finish, Goto, queue, events, bounds
<1>1. PICK k \in Fibers : k = Cur(t)
  BY <1>0 DEF CountInv, CurInv, ActiveLabels
<1>2. PICK s \in Ended : state' = [state EXCEPT ![k] = s]
  BY <1>1 DEF Finish, Ended
<1>3. NoHolder(k)' /\ k \notin waiting /\ ~Queued(k) /\ \A g \in Fibers : Less(t, g)
  <2>1. pc'[t] \in {"registered", "finish"} /\ UNCHANGED <<ft, cb_fiber>>
    BY <1>0
  <2> QED BY <1>0, <1>1, <2>1, TurnGivenUp
<1>4. OwnCb'
  BY <1>0 DEF TurnInv, OwnCb
<1>5. ASSUME NEW f \in Fibers PROVE OneTurn(f)' /\ TurnState(f)'
  <2>1. OneTurn(f) /\ TurnState(f) /\ QueuedOnce(f)
    BY DEF TurnInv, OneTurn
  <2>2. (Queued(f)' => Queued(f)) /\ QueuedOnce(f)' /\ (f \in waiting' => f \in waiting)
    BY <1>0, <2>1, SameQueue
  <2>3. Fewer(f)
    BY <1>0, <1>3, <2>2, RunFewer
  <2>4. CASE f # k
    <3>1. state'[f] = state[f]
      BY <1>0, <1>2, <2>4 DEF TypeOK
    <3>2. Steady(f) /\ (f \in UserFibers \ given' => f \in UserFibers \ given)
      BY <1>0, <3>1 DEF Steady
    <3>3. ASSUME f \in UserFibers \ given PROVE \A u \in RunThreads : ft'[u].fiber # f
      BY <1>0, <2>1, <3>3 DEF TurnState
    <3> QED BY <2>1, <2>3, <3>2, <3>3, FewerState
  <2>5. CASE f = k
    <3>1. OneTurn(f)'
      BY <2>1, <2>3, FewerTurns
    <3>2. state'[f] = s /\ s # "READY"
      BY <1>0, <1>2, <2>5 DEF TypeOK, Ended
    <3>3. f \notin UserFibers \ given'
      BY <1>0, <1>1, <2>5, CurGiven
    <3>4. NoTurn(f)'
      BY <1>3, <2>2, <2>5 DEF NoTurn
    <3> QED BY <3>1, <3>2, <3>3, <3>4 DEF TurnState
  <2> QED BY <2>4, <2>5
<1> QED BY <1>4, <1>5 DEF TurnInv

\* A fiber that waits gives up its turn to the wake source.
LEMMA WaitTurns ==
  ASSUME CountInv, TurnInv, NEW t \in RunThreads, Run(t), addEvent(t),
         ~UNCHANGED <<queue, events, fibers, threads, caller, bounds>>
  PROVE  TurnInv' /\ Cur(t) \in Fibers /\ Cur(t) \notin waiting
<1> USE Zenon
<1>0. /\ TypeOK /\ pc[t] = "body" /\ pc'[t] = "registered" /\ waiting' = waiting \cup {Cur(t)}
      /\ UNCHANGED <<m_fibers, given, ft, cb_fiber, state>>
  <2>1. /\ pc[t] = "body" /\ Goto(t, "registered") /\ waiting' = waiting \cup {Cur(t)}
        /\ UNCHANGED <<queue, fibers, ft, cb_fiber, given>>
    BY DEF addEvent, Abort
  <2> QED BY <2>1 DEF CountInv, TypeOK, Goto, queue, fibers
<1>1. PICK k \in Fibers : k = Cur(t)
  BY <1>0 DEF CountInv, CurInv, ActiveLabels
<1>2. NoHolder(k)' /\ k \notin waiting /\ ~Queued(k) /\ \A g \in Fibers : Less(t, g)
  <2>1. pc'[t] \in {"registered", "finish"} /\ UNCHANGED <<ft, cb_fiber>>
    BY <1>0
  <2> QED BY <1>0, <1>1, <2>1, TurnGivenUp
<1>3. OwnCb'
  BY <1>0 DEF TurnInv, OwnCb
<1>4. ASSUME NEW f \in Fibers PROVE OneTurn(f)' /\ TurnState(f)'
  <2>1. OneTurn(f) /\ TurnState(f) /\ QueuedOnce(f)
    BY DEF TurnInv, OneTurn
  <2>2. (Queued(f)' => Queued(f)) /\ QueuedOnce(f)'
    BY <1>0, <2>1, SameQueue
  <2>3. CASE f # k
    <3>1. f \in waiting' => f \in waiting
      BY <1>0, <1>1, <2>3
    <3>2. Fewer(f)
      BY <1>0, <1>2, <2>2, <3>1, RunFewer
    <3>3. Steady(f) /\ (f \in UserFibers \ given' => f \in UserFibers \ given)
      BY <1>0 DEF Steady
    <3>4. ASSUME f \in UserFibers \ given PROVE \A u \in RunThreads : ft'[u].fiber # f
      BY <1>0, <2>1, <3>4 DEF TurnState
    <3> QED BY <2>1, <3>2, <3>3, <3>4, FewerState
  <2>4. CASE f = k
    <3>1. ~Queued(f)' /\ NoHolder(f)'
      BY <1>2, <2>2, <2>4
    <3>2. OneTurn(f)'
      BY <2>2, <3>1 DEF OneTurn, NoHolder, Holder
    <3>3. Holder(t, f)
      BY <1>0, <1>1, <2>4, BodyHolds
    <3>4. state[f] \notin Ended /\ state[f] # "READY" /\ f \notin UserFibers \ given
      BY <2>1, <3>3 DEF TurnState, NoTurn, NoHolder
    <3> QED BY <1>0, <3>2, <3>4 DEF TurnState
  <2> QED BY <2>3, <2>4
<1> QED BY <1>1, <1>2, <1>3, <1>4 DEF TurnInv

\* A fiber that is scheduled and had no place, or had only been waiting, has one.
LEMMA QueuedTurn ==
  ASSUME TypeOK, NEW f \in Fibers, NEW e \in Task, e.fiber = f, schedule(e), ~Queued(f), NoHolder(f)',
         f \notin waiting', f \notin UserFibers \ given', state'[f] \notin Ended, state'[f] # "READY"
  PROVE  OneTurn(f)' /\ TurnState(f)'
<1> USE Zenon
<1>1. QueuedOnce(f)'
  BY AppendFirst DEF TypeOK
<1>2. OneTurn(f)'
  BY <1>1 DEF OneTurn, NoHolder, Holder
<1> QED BY <1>2 DEF TurnState

\* A wake source queues the fiber that waits.
LEMMA WakeTurns ==
  ASSUME TypeOK, TurnInv, NEW t \in RunThreads, Run(t), NEW k \in Fibers, Wake(t, k)
  PROVE  TurnInv'
<1> USE Zenon
<1>0. /\ k \in waiting /\ waiting' = waiting \ {k} /\ schedule(FiberTask(k, AnyThread))
      /\ UNCHANGED <<given, ft, cb_fiber, state>>
  BY DEF Wake, fibers, bounds
<1>1. \/ pc[t] = "poll" /\ pc'[t] = "woke"
      \/ pc[t] = "body" /\ pc'[t] = "bodywoke"
  BY DEF Wake, Goto, TypeOK
<1>2. \A l \in {"poll", "woke", "body", "bodywoke"} : l \notin Past
  BY DEF Past
<1>3. ASSUME NEW f PROVE Less(t, f)
  <2>1. Runs(t, f)' => Runs(t, f)
    BY <1>0, <1>1 DEF Runs
  <2>2. Keeps(t, f)' => Keeps(t, f)
    BY <1>0, <1>1, <1>2 DEF Keeps
  <2> QED BY <2>1, <2>2 DEF Less
<1>4. OwnCb'
  BY <1>0 DEF TurnInv, OwnCb
<1>5. PICK e \in Task : e = FiberTask(k, AnyThread) /\ e.fiber = k
  <2>1. FiberTask(k, AnyThread) \in Task
    BY Tasks
  <2>2. FiberTask(k, AnyThread).fiber = k
    BY DEF FiberTask
  <2> QED BY <2>1, <2>2
<1>6. m_fibers \in Seq(Task) /\ schedule(e)
  BY <1>0, <1>5 DEF TypeOK
<1>7. ASSUME NEW f \in Fibers PROVE OneTurn(f)' /\ TurnState(f)'
  <2>1. OneTurn(f) /\ TurnState(f) /\ QueuedOnce(f)
    BY DEF TurnInv, OneTurn
  <2>2. CASE f # k
    <3>1. (Queued(f)' => Queued(f)) /\ QueuedOnce(f)'
      BY <1>5, <1>6, <2>1, <2>2, AppendOther
    <3>2. f \in waiting' => f \in waiting
      BY <1>0
    <3>3. Fewer(f)
      BY <1>3, <3>1, <3>2, RunFewer
    <3>4. Steady(f) /\ (f \in UserFibers \ given' => f \in UserFibers \ given)
      BY <1>0 DEF Steady
    <3>5. ASSUME f \in UserFibers \ given PROVE \A u \in RunThreads : ft'[u].fiber # f
      BY <1>0, <2>1, <3>5 DEF TurnState
    <3> QED BY <2>1, <3>3, <3>4, <3>5, FewerState
  <2>3. CASE f = k
    <3>1. ~Queued(f) /\ NoHolder(f)
      BY <1>0, <2>1, <2>3 DEF OneTurn
    <3>2. ASSUME NEW u \in RunThreads PROVE ~Holder(u, f)'
      <4>1. ~Holder(u, f)
        BY <3>1 DEF NoHolder
      <4>2. CASE u = t
        BY <1>3, <4>1, <4>2 DEF Holder, Less
      <4>3. CASE u # t
        BY <4>1, <4>3, OthersKeep DEF Holder
      <4> QED BY <4>2, <4>3
    <3>3. NoHolder(f)'
      BY <3>2 DEF NoHolder
    <3>4. state'[f] \notin Ended /\ state'[f] # "READY" /\ f \notin UserFibers \ given'
      BY <1>0, <2>1, <2>3 DEF TurnState, NoTurn
    <3>5. f \notin waiting'
      BY <1>0, <2>3
    <3> QED BY <1>5, <1>6, <2>3, <3>1, <3>3, <3>4, <3>5, QueuedTurn
  <2> QED BY <2>2, <2>3
<1> QED BY <1>4, <1>7 DEF TurnInv

\* An entry for a callback is no fiber's.
LEMMA CbEntry ==
  ASSUME NEW c \in Cbs, NEW thr \in Pins
  PROVE  CbTask(c, thr) \in Task /\ \A f \in Fibers : CbTask(c, thr).fiber # f
<1>1. CbTask(c, thr) \in Task
  BY Tasks, ThreadsAssumption
<1>2. CbTask(c, thr).fiber = None
  BY DEF CbTask
<1> QED BY <1>1, <1>2, TasksAssumption

\* A fiber schedules a callback.
LEMMA CbTurns ==
  ASSUME TypeOK, TurnInv, NEW t \in RunThreads, Run(t), NEW c \in Cbs, NEW thr \in Pins,
         BodySchedulesCb(t, c, thr)
  PROVE  TurnInv'
<1> USE Zenon
<1>0. /\ UNCHANGED <<waiting, ft, cb_fiber, state, pc>> /\ schedule(CbTask(c, thr))
      /\ given \subseteq given' /\ m_fibers \in Seq(Task)
  BY DEF BodySchedulesCb, events, fibers, threads, TypeOK
<1>1. OwnCb'
  BY <1>0 DEF TurnInv, OwnCb
<1>2. ASSUME NEW f \in Fibers PROVE Less(t, f) /\ Steady(f) /\ (Queued(f)' => Queued(f)) /\ QueuedOnce(f)'
  <2>1. QueuedOnce(f)
    BY DEF TurnInv, OneTurn
  <2>2. CbTask(c, thr) \in Task /\ CbTask(c, thr).fiber # f
    BY CbEntry
  <2>3. (Queued(f)' => Queued(f)) /\ QueuedOnce(f)'
    BY <1>0, <2>1, <2>2, AppendOther
  <2>4. Less(t, f) /\ Steady(f)
    BY <1>0 DEF Less, Runs, Keeps, Steady
  <2> QED BY <2>3, <2>4
<1>3. ft'[t].fiber = ft[t].fiber /\ UNCHANGED waiting
  BY <1>0
<1> QED BY <1>0, <1>1, <1>2, <1>3, QuietTurns

\* Every step of run() keeps the turns.
LEMMA RunTurns ==
  ASSUME MaxReady = 0, CountInv, TurnInv, NEW t \in RunThreads, Run(t)
  PROVE  TurnInv'
<1> USE Zenon
<1>0. TypeOK /\ CurInv
  BY DEF CountInv
<1>s. CASE UNCHANGED <<queue, events, fibers, threads, caller, bounds>>
  BY <1>s, RunMoves
<1>1. CASE TakeNothing(t) \/ EnterFiber(t) \/ YieldToHold(t) \/ swapOut(t) \/ Deactivate(t) \/ SeesHold(t)
           \/ IdleChecksPending(t) \/ IdleChecksQueue(t) \/ LeaveIdle(t) \/ WakeDone(t)
  BY <1>1, RunMoves
<1>2. CASE Take(t)
  BY <1>0, <1>2, TakeTurns
<1>3. ASSUME NEW k \in CbFibers, EnterCb(t, k) PROVE TurnInv'
  <2>1. CASE UNCHANGED <<queue, events, fibers, threads, caller, bounds>>
    BY <1>s, <2>1
  <2>2. CASE /\ cb_fiber' = [cb_fiber EXCEPT ![t] = k]
             /\ state' = [state EXCEPT ![k] = "EXEC"] /\ ft' = [ft EXCEPT ![t] = NoTask]
             /\ Goto(t, "body") /\ UNCHANGED <<queue, events, given>>
    BY <1>0, <1>3, <2>2, EnterCbTurns
  <2> QED BY <1>3, <2>1, <2>2 DEF EnterCb, Abort
<1>4. ASSUME NEW c \in Cbs, NEW thr \in Pins, BodySchedulesCb(t, c, thr) PROVE TurnInv'
  BY <1>0, <1>4, CbTurns
<1>5. CASE addEvent(t)
  BY <1>5, <1>s, WaitTurns
<1>6. CASE YieldToReady(t)
  <2>1. readies < 0 /\ readies \in Nat
    BY <1>0, <1>6, SMT DEF YieldToReady, TypeOK
  <2> QED BY <2>1, SMT
<1>7. CASE Finish(t)
  BY <1>7, FinishTurns
<1>8. CASE Requeue(t)
  <2>1. Cur(t) \in Fibers /\ state[Cur(t)] = "READY"
    BY <1>0, <1>8 DEF Requeue, CurInv
  <2> QED BY <2>1 DEF TurnInv, TurnState
<1>9. CASE Retire(t)
  BY <1>9, RetireTurns
<1>10. CASE SetHold(t)
  BY <1>10, <1>s, SetHoldTurns
<1>11. ASSUME NEW k \in Fibers, Wake(t, k) PROVE TurnInv'
  BY <1>0, <1>11, WakeTurns
<1> QED BY <1>1, <1>2, <1>3, <1>4, <1>5, <1>6, <1>7, <1>8, <1>9, <1>10, <1>11 DEF Run

\* A step of the owner changes no thread's fibers.
LEMMA OwnerHolders ==
  ASSUME TypeOK, OwnerInv, User \/ StopStep, NEW f, NEW u \in RunThreads
  PROVE  Runs(u, f)' = Runs(u, f) /\ Keeps(u, f)' = Keeps(u, f) /\ ft'[u] = ft[u] /\ cb_fiber'[u] = cb_fiber[u]
<1> USE Zenon
<1>1. ft' = ft /\ cb_fiber' = cb_fiber
  BY OwnerMoves
<1>2. pc'[u] = pc[u] \/ (pc[u] = "off" /\ pc'[u] \in {"off", "take"})
  BY OwnerMoves
<1>3. "off" \notin Past /\ "take" \notin Past
  BY DEF Past
<1>4. (pc'[u] \in {"taken", "body", "bodywoke"}) = (pc[u] \in {"taken", "body", "bodywoke"})
  BY <1>2, SMT
<1>5. (pc'[u] \in Past) = (pc[u] \in Past)
  BY <1>2, <1>3, SMT
<1> QED BY <1>1, <1>4, <1>5 DEF Runs, Keeps

\* A step of the owner keeps the turns: it schedules a fiber only once.
LEMMA OwnerTurns ==
  ASSUME ~Resubmit, CountInv, TurnInv, User \/ StopStep
  PROVE  TurnInv'
<1> USE Zenon
<1>0. TypeOK /\ OwnerInv /\ waiting' = waiting /\ m_fibers \in Seq(Task)
  BY OwnerMoves DEF CountInv, TypeOK
<1>1. OwnCb'
  BY <1>0, OwnerHolders DEF TurnInv, OwnCb
<1>2. ASSUME NEW f \in Fibers, state'[f] = state[f], given \subseteq given',
             Queued(f)' => Queued(f), QueuedOnce(f)'
      PROVE  OneTurn(f)' /\ TurnState(f)'
  <2>1. OneTurn(f) /\ TurnState(f)
    BY DEF TurnInv
  <2>2. Fewer(f)
    BY <1>0, <1>2, OwnerHolders DEF Fewer
  <2>3. ASSUME f \in UserFibers \ given PROVE \A u \in RunThreads : ft'[u].fiber # f
    BY <1>0, <2>1, <2>3, OwnerHolders DEF TurnState
  <2>4. Steady(f)
    BY <1>2 DEF Steady
  <2>5. f \in UserFibers \ given' => f \in UserFibers \ given
    BY <1>2
  <2> QED BY <2>1, <2>2, <2>3, <2>4, <2>5, FewerState
<1>q. ASSUME NEW f \in Fibers PROVE QueuedOnce(f)
  BY DEF TurnInv, OneTurn
<1>3. CASE Start \/ Stop \/ StopStep
  <2>1. UNCHANGED <<m_fibers, state, given>>
    BY <1>3 DEF Start, Stop, StopStep, StopChecksPending, StopChecksQueue, RootFiberReturns, Join,
                queue, fibers, bounds
  <2>2. ASSUME NEW f \in Fibers PROVE OneTurn(f)' /\ TurnState(f)'
    <3>1. (Queued(f)' => Queued(f)) /\ QueuedOnce(f)'
      BY <1>q, <2>1, SameQueue
    <3>2. state'[f] = state[f] /\ given \subseteq given'
      BY <2>1
    <3> QED BY <1>2, <3>1, <3>2
  <2> QED BY <1>1, <2>2 DEF TurnInv
<1>4. ASSUME NEW c \in Cbs, NEW thr \in Pins, UserSchedulesCb(c, thr) PROVE TurnInv'
  <2>1. UNCHANGED state /\ schedule(CbTask(c, thr)) /\ given \subseteq given'
    BY <1>4 DEF UserSchedulesCb, fibers
  <2>2. ASSUME NEW f \in Fibers PROVE OneTurn(f)' /\ TurnState(f)'
    <3>1. CbTask(c, thr) \in Task /\ CbTask(c, thr).fiber # f
      BY CbEntry
    <3>2. (Queued(f)' => Queued(f)) /\ QueuedOnce(f)'
      BY <1>0, <1>q, <2>1, <3>1, AppendOther
    <3>3. state'[f] = state[f]
      BY <2>1
    <3> QED BY <1>2, <2>1, <3>2, <3>3
  <2> QED BY <1>1, <2>2 DEF TurnInv
<1>5. ASSUME NEW k \in UserFibers, NEW thr \in Pins, UserSchedulesFiber(k, thr) PROVE TurnInv'
  <2>1. UNCHANGED state /\ schedule(FiberTask(k, thr)) /\ k \notin given /\ given' = given \cup {k} /\ k \in Fibers
    BY <1>5 DEF UserSchedulesFiber, Fibers
  <2>2. FiberTask(k, thr) \in Task /\ FiberTask(k, thr).fiber = k
    <3>1. FiberTask(k, thr) \in Task
      BY <2>1, Tasks, ThreadsAssumption
    <3>2. FiberTask(k, thr).fiber = k
      BY DEF FiberTask
    <3> QED BY <3>1, <3>2
  <2>3. ASSUME NEW f \in Fibers PROVE OneTurn(f)' /\ TurnState(f)'
    <3>1. CASE f # k
      <4>1. FiberTask(k, thr).fiber # f
        BY <2>2, <3>1
      <4>2. (Queued(f)' => Queued(f)) /\ QueuedOnce(f)'
        BY <1>0, <1>q, <2>1, <2>2, <4>1, AppendOther
      <4>3. state'[f] = state[f] /\ given \subseteq given'
        BY <2>1
      <4> QED BY <1>2, <4>2, <4>3
    <3>2. CASE f = k
      <4>1. state[k] = "INIT" /\ NoTurn(k)
        BY <2>1 DEF TurnInv, TurnState
      <4>2. state'[k] \notin Ended /\ state'[k] # "READY" /\ k \notin UserFibers \ given'
        BY <2>1, <4>1 DEF Ended
      <4>3. ~Queued(k) /\ k \notin waiting' /\ NoHolder(k)
        BY <1>0, <4>1 DEF NoTurn
      <4>4. NoHolder(k)'
        BY <1>0, <4>3, OwnerHolders DEF NoHolder, Holder
      <4>5. OneTurn(k)' /\ TurnState(k)'
        BY <1>0, <2>1, <2>2, <4>2, <4>3, <4>4, QueuedTurn
      <4> QED BY <3>2, <4>5
    <3> QED BY <3>1, <3>2
  <2> QED BY <1>1, <2>3 DEF TurnInv
<1> QED BY <1>3, <1>4, <1>5 DEF User

\* Nothing has a turn before the first schedule().
LEMMA InitTurns == Init => TurnInv
<1> USE Zenon
<1> SUFFICES ASSUME Init PROVE TurnInv
  OBVIOUS
<1>1. /\ \A t \in RunThreads : cb_fiber[t] = None /\ ft[t] = NoTask
      /\ \A f \in Fibers : state[f] = "INIT" /\ f # None
      /\ m_fibers = <<>> /\ waiting = {}
  BY TasksAssumption DEF Init
<1>2. \A t \in RunThreads : ft[t].fiber = None
  BY <1>1, NoTaskFiber
<1>3. DOMAIN m_fibers = {}
  BY <1>1, SMT
<1>4. OwnCb
  BY <1>1 DEF OwnCb
<1>5. ASSUME NEW f \in Fibers PROVE OneTurn(f) /\ TurnState(f)
  <2>1. ~Queued(f) /\ QueuedOnce(f)
    BY <1>3 DEF Queued, QueuedOnce
  <2>2. ASSUME NEW t \in RunThreads PROVE ~Holder(t, f)
    BY <1>1, <1>2 DEF Holder, Runs, Keeps
  <2>3. NoTurn(f) /\ NoHolder(f)
    BY <1>1, <2>1, <2>2 DEF NoTurn, NoHolder
  <2>4. OneTurn(f)
    BY <2>1, <2>2, <2>3 DEF OneTurn, Holder
  <2>5. state[f] # "READY"
    BY <1>1
  <2> QED BY <1>1, <1>2, <2>3, <2>4, <2>5 DEF TurnState
<1> QED BY <1>4, <1>5 DEF TurnInv

Waking == {t \in RunThreads : pc[t] \in {"woke", "bodywoke"}}

\* A step of run() that wakes nobody leaves WakeSource alone.
LEMMA StaysAwake ==
  ASSUME TypeOK, NEW t \in RunThreads, Run(t), t \in Waking' <=> t \in Waking
  PROVE  Waking' = Waking
<1> USE Zenon
<1>1. ASSUME NEW u \in RunThreads PROVE u \in Waking' <=> u \in Waking
  <2>1. CASE u = t
    BY <2>1
  <2>2. CASE u # t
    <3>1. pc'[u] = pc[u]
      BY <2>2, RunLocal
    <3> QED BY <3>1 DEF Waking
  <2> QED BY <2>1, <2>2
<1>2. Waking \subseteq RunThreads /\ Waking' \subseteq RunThreads
  BY DEF Waking
<1> QED BY <1>1, <1>2

\* One thread more, or one less, is between queueing a waiter and counting it.
LEMMA WakingMoves ==
  ASSUME TypeOK, NEW t \in RunThreads, Run(t)
  PROVE  /\ t \notin Waking /\ t \in Waking' => Waking' = Waking \cup {t}
         /\ t \in Waking /\ t \notin Waking' => Waking' = Waking \ {t}
<1> USE Zenon
<1>1. ASSUME NEW u \in RunThreads \ {t} PROVE u \in Waking' <=> u \in Waking
  <2>1. pc'[u] = pc[u]
    BY <1>1, RunLocal
  <2> QED BY <2>1 DEF Waking
<1>2. Waking \subseteq RunThreads /\ Waking' \subseteq RunThreads
  BY DEF Waking
<1> QED BY <1>1, <1>2

\* Every step of run() registers a fiber that does not wait, wakes one that does,
\* counts a wake-up, or leaves the three alone.
LEMMA RunWakes ==
  ASSUME CountInv, TurnInv, NEW t \in RunThreads, Run(t)
  PROVE  Wakes!Next \/ UNCHANGED <<waiting, Waking, m_pendingEventCount>>
<1> USE Zenon
<1>0. TypeOK /\ pc \in [RunThreads -> PC]
  BY DEF CountInv, TypeOK
<1>w. /\ t \in Waking <=> pc[t] \in {"woke", "bodywoke"}
      /\ t \in Waking' <=> pc'[t] \in {"woke", "bodywoke"}
  BY DEF Waking
<1>m. ASSUME NEW l, Goto(t, l), l \notin {"woke", "bodywoke"}, pc[t] \notin {"woke", "bodywoke"},
             UNCHANGED <<waiting, m_pendingEventCount>>
      PROVE  UNCHANGED <<waiting, Waking, m_pendingEventCount>>
  <2>1. pc'[t] = l
    BY <1>0, <1>m DEF Goto
  <2>2. t \in Waking' <=> t \in Waking
    BY <1>m, <1>w, <2>1
  <2> QED BY <1>0, <1>m, <2>2, StaysAwake
<1>a. ASSUME UNCHANGED <<queue, events, fibers, threads, caller, bounds>>
      PROVE  UNCHANGED <<waiting, Waking, m_pendingEventCount>>
  <2>1. UNCHANGED <<waiting, m_pendingEventCount, pc>>
    BY <1>a DEF events, threads
  <2> QED BY <2>1 DEF Waking
<1>1. CASE Take(t)
  BY <1>1, <1>m DEF Take, events
<1>2. CASE TakeNothing(t)
  BY <1>2, <1>m DEF TakeNothing, events
<1>3. CASE EnterFiber(t)
  <2>1. pc[t] = "taken"
    BY <1>3 DEF EnterFiber
  <2>2. CASE Goto(t, "body") /\ UNCHANGED events
    BY <1>m, <2>1, <2>2 DEF events
  <2> QED BY <1>3, <1>a, <2>2 DEF EnterFiber, Enter, Abort
<1>4. CASE \E f \in CbFibers : EnterCb(t, f)
  <2>1. pc[t] = "taken"
    BY <1>4 DEF EnterCb
  <2>2. CASE Goto(t, "body") /\ UNCHANGED events
    BY <1>m, <2>1, <2>2 DEF events
  <2> QED BY <1>4, <1>a, <2>2 DEF EnterCb, Abort
<1>5. CASE \E c \in Cbs, thr \in Pins : BodySchedulesCb(t, c, thr)
  <2>1. UNCHANGED <<waiting, m_pendingEventCount, pc>>
    BY <1>5 DEF BodySchedulesCb, events, threads
  <2> QED BY <2>1 DEF Waking
<1>6. CASE addEvent(t)
  <2>1. CASE UNCHANGED <<queue, events, fibers, threads, caller, bounds>>
    BY <1>a, <2>1
  <2>2. CASE ~UNCHANGED <<queue, events, fibers, threads, caller, bounds>>
    <3>1. Cur(t) \in Fibers /\ Cur(t) \notin waiting
      BY <1>6, <2>2, WaitTurns
    <3>2. /\ pc[t] = "body" /\ Goto(t, "registered") /\ waiting' = waiting \cup {Cur(t)}
          /\ m_pendingEventCount' = m_pendingEventCount + 1
      BY <1>6, <2>2 DEF addEvent, Abort
    <3>3. Waking' = Waking
      <4>1. pc'[t] = "registered"
        BY <1>0, <3>2 DEF Goto
      <4>2. t \in Waking' <=> t \in Waking
        BY <1>w, <3>2, <4>1
      <4> QED BY <1>0, <4>2, StaysAwake
    <3>4. Wakes!Register(Cur(t))
      BY <3>1, <3>2, <3>3 DEF Wakes!Register, Waking
    <3> QED BY <3>1, <3>4 DEF Wakes!Next
  <2> QED BY <2>1, <2>2
<1>7. CASE YieldToHold(t)
  BY <1>7, <1>m DEF YieldToHold, events
<1>8. CASE YieldToReady(t)
  BY <1>8, <1>m DEF YieldToReady, events
<1>9. CASE Finish(t)
  BY <1>9, <1>m DEF Finish, events
<1>10. CASE swapOut(t)
  BY <1>10, <1>m DEF swapOut, events
<1>11. CASE Deactivate(t)
  BY <1>11, <1>m DEF Deactivate, events
<1>12. CASE Requeue(t)
  BY <1>12, <1>m DEF Requeue, events
<1>13. CASE Retire(t)
  BY <1>13, <1>m DEF Retire, events
<1>14. CASE SeesHold(t)
  BY <1>14, <1>m DEF SeesHold, events
<1>15. CASE SetHold(t)
  <2>1. pc[t] = "sethold"
    BY <1>15 DEF SetHold
  <2>2. CASE Goto(t, "take") /\ UNCHANGED events
    BY <1>m, <2>1, <2>2 DEF events
  <2> QED BY <1>15, <1>a, <2>2 DEF SetHold, Abort
<1>16. CASE IdleChecksPending(t)
  BY <1>16, <1>m DEF IdleChecksPending, events
<1>17. CASE IdleChecksQueue(t)
  BY <1>17, <1>m DEF IdleChecksQueue, events
<1>18. CASE LeaveIdle(t)
  BY <1>18, <1>m DEF LeaveIdle, events
<1>19. ASSUME NEW f \in Fibers, Wake(t, f) PROVE Wakes!Next
  <2>1. /\ f \in waiting /\ waiting' = waiting \ {f} /\ UNCHANGED m_pendingEventCount
        /\ pc[t] \in {"poll", "body"} /\ pc'[t] \in {"woke", "bodywoke"}
    BY <1>0, <1>19 DEF Wake, Goto
  <2>2. t \notin Waking /\ Waking' = Waking \cup {t}
    <3>1. t \notin Waking /\ t \in Waking'
      BY <1>w, <2>1
    <3> QED BY <1>0, <3>1, WakingMoves
  <2>3. Wakes!Wake(t, f)
    BY <2>1, <2>2 DEF Wakes!Wake, Waking
  <2> QED BY <2>3 DEF Wakes!Next
<1>20. CASE WakeDone(t)
  <2>1. /\ m_pendingEventCount' = m_pendingEventCount - 1 /\ UNCHANGED waiting
        /\ pc[t] \in {"woke", "bodywoke"} /\ pc'[t] \in {"poll", "body"}
    BY <1>0, <1>20 DEF WakeDone, Goto
  <2>2. t \in Waking /\ Waking' = Waking \ {t}
    <3>1. t \in Waking /\ t \notin Waking'
      BY <1>w, <2>1
    <3> QED BY <1>0, <3>1, WakingMoves
  <2>3. Wakes!Count(t)
    BY <2>1, <2>2 DEF Wakes!Count, Waking
  <2> QED BY <2>3 DEF Wakes!Next
<1> QED BY <1>1, <1>2, <1>3, <1>4, <1>5, <1>6, <1>7, <1>8, <1>9, <1>10, <1>11,
       <1>12, <1>13, <1>14, <1>15, <1>16, <1>17, <1>18, <1>19, <1>20, ZenonT(30) DEF Run

\* Every step of the owner and of run() keeps the turns.
LEMMA NextTurns ==
  ASSUME MaxReady = 0, ~Resubmit, CountInv, TurnInv, [Next]_vars
  PROVE  TurnInv'
<1> USE Zenon
<1>1. CASE User \/ StopStep
  BY <1>1, OwnerTurns
<1>2. ASSUME NEW t \in RunThreads, Run(t) PROVE TurnInv'
  BY <1>2, RunTurns
<1>3. CASE UNCHANGED vars
  <2>1. UNCHANGED <<m_fibers, waiting, state, pc, ft, cb_fiber, given>>
    BY <1>3 DEF vars, queue, events, fibers, threads, bounds
  <2>2. OwnCb'
    BY <2>1 DEF TurnInv, OwnCb
  <2>3. ASSUME NEW f \in Fibers PROVE OneTurn(f)' /\ TurnState(f)'
    <3>1. OneTurn(f) /\ TurnState(f) /\ QueuedOnce(f)
      BY DEF TurnInv, OneTurn
    <3>2. (Queued(f)' => Queued(f)) /\ QueuedOnce(f)'
      BY <2>1, <3>1, SameQueue
    <3>3. \A t \in RunThreads : (Runs(t, f)' => Runs(t, f)) /\ (Keeps(t, f)' => Keeps(t, f))
      BY <2>1 DEF Runs, Keeps
    <3>4. Fewer(f)
      BY <2>1, <3>2, <3>3 DEF Fewer
    <3>5. Steady(f) /\ (f \in UserFibers \ given' => f \in UserFibers \ given)
      BY <2>1 DEF Steady
    <3>6. ASSUME f \in UserFibers \ given PROVE \A t \in RunThreads : ft'[t].fiber # f
      BY <2>1, <3>1, <3>6 DEF TurnState
    <3> QED BY <3>1, <3>4, <3>5, <3>6, FewerState
  <2> QED BY <2>2, <2>3 DEF TurnInv
<1> QED BY <1>1, <1>2, <1>3 DEF Next, Terminated

\* And every step of them is a step of WakeSource, or leaves the waiting fibers,
\* the threads that wake one and the count alone.
LEMMA NextWakes ==
  ASSUME MaxReady = 0, ~Resubmit, CountInv, TurnInv, [Next]_vars
  PROVE  Wakes!Next \/ UNCHANGED <<waiting, Waking, m_pendingEventCount>>
<1> USE Zenon
<1>1. CASE User \/ StopStep
  <2>1. UNCHANGED <<m_pendingEventCount, waiting>>
    BY <1>1, OwnerMoves DEF CountInv
  <2>2. \A t \in RunThreads : pc'[t] = pc[t] \/ (pc[t] = "off" /\ pc'[t] \in {"off", "take"})
    BY <1>1, OwnerMoves DEF CountInv
  <2>3. Waking' = Waking
    BY <2>2 DEF Waking
  <2> QED BY <2>1, <2>3
<1>2. ASSUME NEW t \in RunThreads, Run(t)
      PROVE  Wakes!Next \/ UNCHANGED <<waiting, Waking, m_pendingEventCount>>
  BY <1>2, RunWakes
<1>3. CASE UNCHANGED vars
  <2>1. UNCHANGED <<waiting, m_pendingEventCount, pc>>
    BY <1>3 DEF vars, events, threads
  <2> QED BY <2>1 DEF Waking
<1> QED BY <1>1, <1>2, <1>3 DEF Next, Terminated

-----------------------------------------------------------------------------
(* Counting the entries for a callback *)

\* the places of a list that hold callback c
PlacesOf(s, c) == {i \in DOMAIN s : s[i].cb = c}

\* The places that hold a callback are finitely many.
LEMMA PlacesFinite ==
  ASSUME FiniteSetFacts, NEW s \in Seq(Task), NEW c
  PROVE  IsFiniteSet(PlacesOf(s, c)) /\ Cardinality(PlacesOf(s, c)) \in Nat
<1>1. IsFiniteSet(1 .. Len(s))
  BY PlacesOfList
<1>2. PlacesOf(s, c) \subseteq 1 .. Len(s)
  BY DEF PlacesOf
<1> QED BY <1>1, <1>2, SubsetFinite, CountType

\* scheduleNoLock adds one place for its own callback and none for another.
LEMMA AppendPlaces ==
  ASSUME FiniteSetFacts, NEW s \in Seq(Task), NEW e \in Task, NEW c
  PROVE  Cardinality(PlacesOf(Append(s, e), c)) =
           Cardinality(PlacesOf(s, c)) + (IF e.cb = c THEN 1 ELSE 0)
<1> USE Zenon
<1>1. /\ Append(s, e) \in Seq(Task) /\ Len(Append(s, e)) = Len(s) + 1
      /\ \A i \in 1 .. Len(s) : Append(s, e)[i] = s[i]
      /\ Append(s, e)[Len(s) + 1] = e
  BY SMT
<1>2. IsFiniteSet(PlacesOf(s, c)) /\ Cardinality(PlacesOf(s, c)) \in Nat
  BY PlacesFinite
<1>3. CASE e.cb = c
  <2>1. PlacesOf(Append(s, e), c) = PlacesOf(s, c) \cup {Len(s) + 1} /\ Len(s) + 1 \notin PlacesOf(s, c)
    BY <1>1, <1>3, SMT DEF PlacesOf
  <2> QED BY <1>2, <1>3, <2>1, OneMore, ZenonT(40)
<1>4. CASE e.cb # c
  <2>1. PlacesOf(Append(s, e), c) = PlacesOf(s, c)
    BY <1>1, <1>4, SMT DEF PlacesOf
  <2> QED BY <1>2, <1>4, <2>1, SMT
<1> QED BY <1>3, <1>4

\* m_fibers.erase(it) takes one place from its own callback and none from another.
LEMMA RemovePlaces ==
  ASSUME FiniteSetFacts, NEW s \in Seq(Task), NEW k \in 1 .. Len(s), NEW c
  PROVE  Cardinality(PlacesOf(Erase(s, k), c)) =
           Cardinality(PlacesOf(s, c)) - (IF s[k].cb = c THEN 1 ELSE 0)
<1> USE Zenon
<1> DEFINE r == Erase(s, k)
           f == [i \in PlacesOf(r, c) |-> IF i < k THEN i ELSE i + 1]
<1>1. /\ r \in Seq(Task) /\ Len(r) = Len(s) - 1
      /\ \A j \in 1 .. Len(s) - 1 : r[j] = IF j < k THEN s[j] ELSE s[j + 1]
  BY EraseProperties
<1> HIDE DEF r
<1>2. IsFiniteSet(PlacesOf(s, c)) /\ Cardinality(PlacesOf(s, c)) \in Nat /\ IsFiniteSet(PlacesOf(r, c))
  BY <1>1, PlacesFinite
<1>3. \A i \in PlacesOf(r, c) : f[i] \in PlacesOf(s, c) \ {k}
  BY <1>1, SMTT(20) DEF PlacesOf
<1>4. \A i, j \in PlacesOf(r, c) : f[i] = f[j] => i = j
  BY <1>1, SMT DEF PlacesOf
<1>5. ASSUME NEW j \in PlacesOf(s, c) \ {k} PROVE \E i \in PlacesOf(r, c) : f[i] = j
  <2>1. j \in 1 .. Len(s) /\ s[j].cb = c /\ j # k /\ k \in 1 .. Len(s)
    BY <1>5, SMT DEF PlacesOf
  <2>2. CASE j < k
    <3>1. j \in PlacesOf(r, c)
      BY <1>1, <2>1, <2>2, SMT DEF PlacesOf
    <3> QED BY <2>2, <3>1
  <2>3. CASE j > k
    <3>1. j - 1 \in 1 .. Len(s) - 1 /\ ~(j - 1 < k)
      BY <2>1, <2>3, SMT
    <3>2. r[j - 1] = s[j]
      BY <1>1, <2>1, <3>1, SMT
    <3>3. j - 1 \in PlacesOf(r, c)
      BY <1>1, <2>1, <3>1, <3>2, SMT DEF PlacesOf
    <3> QED BY <2>1, <3>1, <3>3, SMT
  <2> QED BY <2>1, <2>2, <2>3, SMT
<1>6. f \in Bijection(PlacesOf(r, c), PlacesOf(s, c) \ {k})
  <2>1. f \in [PlacesOf(r, c) -> PlacesOf(s, c) \ {k}]
    BY <1>3
  <2> HIDE DEF f
  <2> QED BY <1>4, <1>5, <2>1 DEF Bijection, Injection, IsInjective, Surjection
<1>7. Cardinality(PlacesOf(r, c)) = Cardinality(PlacesOf(s, c) \ {k})
  BY <1>2, <1>6, SameCount
<1>8. k \in PlacesOf(s, c) <=> s[k].cb = c
  BY SMT DEF PlacesOf
<1>9. CASE s[k].cb = c
  <2>1. Cardinality(PlacesOf(s, c) \ {k}) = Cardinality(PlacesOf(s, c)) - 1
    BY <1>2, <1>8, <1>9, OneLess
  <2> QED BY <1>7, <1>9, <2>1 DEF r
<1>10. CASE s[k].cb # c
  <2>1. PlacesOf(s, c) \ {k} = PlacesOf(s, c)
    BY <1>8, <1>10
  <2>2. Cardinality(PlacesOf(r, c)) = Cardinality(PlacesOf(s, c))
    BY <1>7, <2>1
  <2>3. Cardinality(PlacesOf(s, c)) - 0 = Cardinality(PlacesOf(s, c))
    BY <1>2, SMT
  <2> QED BY <1>10, <2>2, <2>3 DEF r
<1> QED BY <1>9, <1>10

\* The threads whose local ft holds callback c.
HandsOn(c) == {t \in RunThreads : ft[t].cb = c}

\* Assigning one thread's ft changes only that thread's share.
LEMMA HandsChange ==
  ASSUME FiniteSetFacts, TypeOK, NEW t \in RunThreads, NEW e \in Task, ft' = [ft EXCEPT ![t] = e], NEW c
  PROVE  /\ Cardinality(HandsOn(c)) \in Nat
         /\ Cardinality(HandsOn(c)') = Cardinality(HandsOn(c))
              - (IF ft[t].cb = c THEN 1 ELSE 0) + (IF e.cb = c THEN 1 ELSE 0)
<1> USE Zenon
<1>1. IsFiniteSet(HandsOn(c)) /\ Cardinality(HandsOn(c)) \in Nat
  BY RunThreadsFinite, SubsetFinite, CountType DEF HandsOn
<1>2. /\ \A u \in RunThreads \ {t} : ft'[u] = ft[u]
      /\ ft'[t] = e
  BY DEF TypeOK
<1>3. CASE ft[t].cb = c /\ e.cb # c
  <2>1. HandsOn(c)' = HandsOn(c) \ {t} /\ t \in HandsOn(c)
    BY <1>2, <1>3, SMT DEF HandsOn
  <2>2. Cardinality(HandsOn(c) \ {t}) = Cardinality(HandsOn(c)) - 1
    BY <1>1, <2>1, OneLess
  <2> QED BY <1>1, <1>3, <2>1, <2>2, SMT
<1>4. CASE ft[t].cb # c /\ e.cb = c
  <2>1. HandsOn(c)' = HandsOn(c) \cup {t} /\ t \notin HandsOn(c)
    BY <1>2, <1>4 DEF HandsOn
  <2>2. Cardinality(HandsOn(c) \cup {t}) = Cardinality(HandsOn(c)) + 1
    BY <1>1, <2>1, OneMore
  <2> QED BY <1>1, <1>4, <2>1, <2>2, SMT
<1>5. CASE (ft[t].cb = c) = (e.cb = c)
  <2>1. HandsOn(c)' = HandsOn(c)
    BY <1>2, <1>5 DEF HandsOn
  <2> QED BY <1>1, <1>5, <2>1, SMT
<1> QED BY <1>3, <1>4, <1>5

-----------------------------------------------------------------------------
(* Callbacks are conserved *)

\* How often callback c is accounted for.
CbSum(c) == Cardinality(PlacesOf(m_fibers, c)) + Cardinality(HandsOn(c)) + started[c]

\* A FiberAndThread holds a fiber or a callback, not both, and run() clears ft
\* before the callback runs.
OneOfTwo ==
  /\ \A i \in DOMAIN m_fibers : m_fibers[i].fiber = None \/ m_fibers[i].cb = None
  /\ \A t \in RunThreads : /\ ft[t].fiber = None \/ ft[t].cb = None
                           /\ ft[t].cb # None => pc[t] = "taken"

CbInv == CountInv /\ OneOfTwo /\ CbConserved

\* CbConserved in terms of CbSum.
LEMMA ConservedSum == CbConserved <=> \A c \in Cbs : CbSum(c) = IF c \in given THEN 1 ELSE 0
BY DEF CbConserved, CbSum, PlacesOf, HandsOn

\* Adding to the list keeps OneOfTwo if the new entry has it.
LEMMA AppendOneOfTwo ==
  ASSUME TypeOK, OneOfTwo, NEW e \in Task, e.fiber = None \/ e.cb = None, schedule(e)
  PROVE  \A i \in DOMAIN m_fibers' : m_fibers'[i].fiber = None \/ m_fibers'[i].cb = None
<1> USE Zenon
<1>1. /\ Append(m_fibers, e) \in Seq(Task) /\ Len(Append(m_fibers, e)) = Len(m_fibers) + 1
      /\ \A i \in 1 .. Len(m_fibers) : Append(m_fibers, e)[i] = m_fibers[i]
      /\ Append(m_fibers, e)[Len(m_fibers) + 1] = e
  BY SMT DEF TypeOK
<1>2. m_fibers' = Append(m_fibers, e)
  BY DEF schedule
<1>3. m_fibers \in Seq(Task)
  BY DEF TypeOK
<1>4. ASSUME NEW i \in 1 .. Len(m_fibers) + 1
      PROVE  m_fibers'[i].fiber = None \/ m_fibers'[i].cb = None
  <2>1. CASE i = Len(m_fibers) + 1
    BY <1>1, <1>2, <2>1
  <2>2. CASE i # Len(m_fibers) + 1
    <3>1. i \in 1 .. Len(m_fibers)
      BY <1>3, <2>2, SMT
    <3> QED BY <1>1, <1>2, <1>3, <3>1, SMT DEF OneOfTwo
  <2> QED BY <2>1, <2>2
<1> QED BY <1>1, <1>2, <1>4, SMT

\* Queueing a fiber again accounts for no callback.
LEMMA FiberQueued ==
  ASSUME FiniteSetFacts, CbInv, NEW f \in Fibers, NEW thr \in RunThreads \cup {AnyThread},
         schedule(FiberTask(f, thr))
  PROVE  /\ \A c \in Cbs : Cardinality(PlacesOf(m_fibers, c)') = Cardinality(PlacesOf(m_fibers, c))
         /\ \A i \in DOMAIN m_fibers' : m_fibers'[i].fiber = None \/ m_fibers'[i].cb = None
<1> USE Zenon
<1>1. FiberTask(f, thr) \in Task /\ FiberTask(f, thr).cb = None
  BY Tasks DEF FiberTask
<1>2. m_fibers \in Seq(Task) /\ TypeOK /\ OneOfTwo
  BY DEF CbInv, CountInv, TypeOK
<1>3. ASSUME NEW c \in Cbs
      PROVE  Cardinality(PlacesOf(m_fibers, c)') = Cardinality(PlacesOf(m_fibers, c))
  <2>1. FiberTask(f, thr).cb # c
    BY <1>1, TasksAssumption
  <2>2. PlacesOf(m_fibers, c)' = PlacesOf(Append(m_fibers, FiberTask(f, thr)), c)
    BY DEF schedule, PlacesOf
  <2>3. Cardinality(PlacesOf(m_fibers, c)) \in Nat
    BY <1>2, PlacesFinite
  <2>4. Cardinality(PlacesOf(Append(m_fibers, FiberTask(f, thr)), c))
          = Cardinality(PlacesOf(m_fibers, c)) + 0
    BY <1>1, <1>2, <2>1, AppendPlaces
  <2> QED BY <2>2, <2>3, <2>4, SMT
<1> QED BY <1>1, <1>2, <1>3, AppendOneOfTwo

\* Queueing a callback that nobody has accounts for it, and for no other.
LEMMA CbQueued ==
  ASSUME FiniteSetFacts, CbInv, NEW b \in Cbs, NEW thr \in RunThreads \cup {AnyThread}, b \notin given,
         schedule(CbTask(b, thr)), given' = given \cup {b}, UNCHANGED <<ft, started>>,
         \A t \in RunThreads : pc'[t] = pc[t]
  PROVE  OneOfTwo' /\ CbConserved'
<1> USE Zenon
<1>1. CbTask(b, thr) \in Task /\ CbTask(b, thr).cb = b /\ CbTask(b, thr).fiber = None
  BY Tasks DEF CbTask
<1>2. m_fibers \in Seq(Task) /\ TypeOK /\ OneOfTwo /\ started \in [Cbs -> Nat]
  BY DEF CbInv, CountInv, TypeOK
<1>3. ASSUME NEW c \in Cbs PROVE CbSum(c)' = IF c \in given' THEN 1 ELSE 0
  <2>1. CbSum(c) = IF c \in given THEN 1 ELSE 0
    BY ConservedSum DEF CbInv
  <2>2. PlacesOf(m_fibers, c)' = PlacesOf(Append(m_fibers, CbTask(b, thr)), c)
    BY DEF schedule, PlacesOf
  <2>3. Cardinality(PlacesOf(m_fibers, c)') = Cardinality(PlacesOf(m_fibers, c)) + (IF b = c THEN 1 ELSE 0)
    BY <1>1, <1>2, <2>2, AppendPlaces, SMT
  <2>4. HandsOn(c)' = HandsOn(c) /\ started'[c] = started[c]
    BY DEF HandsOn
  <2>5. Cardinality(PlacesOf(m_fibers, c)) \in Nat /\ started[c] \in Nat
    BY <1>2, PlacesFinite
  <2>6. Cardinality(HandsOn(c)) \in Nat
    BY RunThreadsFinite, SubsetFinite, CountType DEF HandsOn
  <2> QED BY <2>1, <2>3, <2>4, <2>5, <2>6, SMT DEF CbSum
<1>4. CbConserved'
  BY <1>3 DEF CbConserved, CbSum, PlacesOf, HandsOn
<1>5. \A i \in DOMAIN m_fibers' : m_fibers'[i].fiber = None \/ m_fibers'[i].cb = None
  BY <1>1, <1>2, AppendOneOfTwo
<1>6. OneOfTwo'
  BY <1>2, <1>5 DEF OneOfTwo
<1> QED BY <1>4, <1>6

\* A step that passes no callback on: ft is kept or, when it held none, cleared.
Quiet(t) ==
  /\ UNCHANGED <<started, given>>
  /\ ft' = ft \/ ft' = [ft EXCEPT ![t] = NoTask]
  /\ pc[t] # "taken" \/ ft[t].cb = None \/ UNCHANGED <<pc, ft>>

\* A step of run() keeps the account of every callback.
LEMMA RunCb ==
  ASSUME FiniteSetFacts, CbInv, NEW t \in RunThreads, Run(t)
  PROVE  OneOfTwo' /\ CbConserved'
<1> USE Zenon
<1>0. /\ TypeOK /\ CurInv /\ OneOfTwo /\ m_fibers \in Seq(Task) /\ ft \in [RunThreads -> Task]
      /\ pc \in [RunThreads -> PC] /\ started \in [Cbs -> Nat]
  BY DEF CbInv, CountInv, TypeOK
<1>s. \A c \in Cbs : CbSum(c) = IF c \in given THEN 1 ELSE 0
  BY ConservedSum DEF CbInv
<1>n. \A c \in Cbs : /\ Cardinality(PlacesOf(m_fibers, c)) \in Nat
                     /\ Cardinality(HandsOn(c)) \in Nat /\ started[c] \in Nat
  <2> TAKE c \in Cbs
  <2>1. Cardinality(PlacesOf(m_fibers, c)) \in Nat
    BY <1>0, PlacesFinite
  <2>2. IsFiniteSet(HandsOn(c))
    BY RunThreadsFinite, SubsetFinite DEF HandsOn
  <2> QED BY <1>0, <2>1, <2>2, CountType
<1>t. TypeOK
  BY <1>0
<1>o. ASSUME \A i \in DOMAIN m_fibers' : m_fibers'[i].fiber = None \/ m_fibers'[i].cb = None,
             ft'[t].fiber = None \/ ft'[t].cb = None, ft'[t].cb # None => pc'[t] = "taken"
      PROVE  OneOfTwo'
  BY <1>0, <1>o, RunLocal, SMT DEF OneOfTwo
<1>r. ASSUME \A c \in Cbs : CbSum(c)' = IF c \in given' THEN 1 ELSE 0
      PROVE  CbConserved'
  BY <1>r DEF CbConserved, CbSum, PlacesOf, HandsOn
<1>q. ASSUME Quiet(t),
             \A c \in Cbs : Cardinality(PlacesOf(m_fibers, c)') = Cardinality(PlacesOf(m_fibers, c)),
             \A i \in DOMAIN m_fibers' : m_fibers'[i].fiber = None \/ m_fibers'[i].cb = None
      PROVE  OneOfTwo' /\ CbConserved'
  <2>1. ft[t].cb = None \/ UNCHANGED <<pc, ft>>
    BY <1>0, <1>q DEF Quiet, OneOfTwo
  <2>2. \A u \in RunThreads : ft'[u].cb = ft[u].cb
    BY <1>0, <1>q, <2>1, SMT DEF Quiet, NoTask
  <2>3. /\ ft'[t].fiber = None \/ ft'[t].cb = None
        /\ ft'[t].cb # None => pc'[t] = "taken"
    BY <1>0, <1>q, <2>1, <2>2 DEF Quiet, NoTask, OneOfTwo
  <2>4. ASSUME NEW c \in Cbs PROVE CbSum(c)' = CbSum(c)
    <3>1. HandsOn(c)' = HandsOn(c)
      BY <2>2 DEF HandsOn
    <3>2. started'[c] = started[c]
      BY <1>q DEF Quiet
    <3> QED BY <1>q, <3>1, <3>2 DEF CbSum
  <2>5. given' = given
    BY <1>q DEF Quiet
  <2> QED BY <1>o, <1>q, <1>r, <1>s, <2>3, <2>4, <2>5
<1>a. ASSUME Quiet(t), m_fibers' = m_fibers
      PROVE  OneOfTwo' /\ CbConserved'
  BY <1>0, <1>q, <1>a DEF PlacesOf, OneOfTwo
<1>1. CASE Take(t)
  <2>1. PICK k \in 1 .. Len(m_fibers) : /\ ft' = [ft EXCEPT ![t] = m_fibers[k]]
                                        /\ m_fibers' = Erase(m_fibers, k)
    BY <1>1 DEF Take
  <2>2. /\ pc[t] = "take" /\ pc' = [pc EXCEPT ![t] = "taken"] /\ UNCHANGED <<given, started>>
        /\ m_fibers[k] \in Task
    BY <1>0, <1>1, SMT DEF Take, Goto
  <2>3. m_fibers' \in Seq(Task) /\ Len(m_fibers') = Len(m_fibers) - 1
    BY <1>0, <2>1, EraseProperties
  <2>4. \A i \in 1 .. Len(m_fibers) - 1 : m_fibers'[i] = IF i < k THEN m_fibers[i] ELSE m_fibers[i + 1]
    BY <1>0, <2>1, EraseProperties
  <2>5. \A i \in DOMAIN m_fibers' : m_fibers'[i].fiber = None \/ m_fibers'[i].cb = None
    <3> TAKE i \in DOMAIN m_fibers'
    <3>1. i \in 1 .. Len(m_fibers) - 1 /\ i \in DOMAIN m_fibers /\ i + 1 \in DOMAIN m_fibers
      BY <1>0, <2>3, SMT
    <3> QED BY <1>0, <2>4, <3>1 DEF OneOfTwo
  <2>6. OneOfTwo'
    <3>1. ft'[t] = m_fibers[k] /\ pc'[t] = "taken" /\ k \in DOMAIN m_fibers
      BY <1>0, <2>1, <2>2, SMTT(20)
    <3> QED BY <1>0, <1>o, <2>5, <3>1 DEF OneOfTwo
  <2>7. ASSUME NEW c \in Cbs PROVE CbSum(c)' = CbSum(c)
    <3>1. ft[t].cb # c
      BY <1>0, <2>2, TasksAssumption DEF OneOfTwo
    <3>2. Cardinality(HandsOn(c)') = Cardinality(HandsOn(c)) + (IF m_fibers[k].cb = c THEN 1 ELSE 0)
      <4>1. PICK e \in Task : e = m_fibers[k]
        BY <2>2
      <4>2. ft' = [ft EXCEPT ![t] = e]
        BY <2>1, <4>1
      <4>3. Cardinality(HandsOn(c)') = Cardinality(HandsOn(c))
              - (IF ft[t].cb = c THEN 1 ELSE 0) + (IF e.cb = c THEN 1 ELSE 0)
        BY <1>t, <4>2, HandsChange, ZenonT(40)
      <4> QED BY <1>n, <3>1, <4>1, <4>3, SMTT(20)
    <3>3. Cardinality(PlacesOf(m_fibers, c)') = Cardinality(PlacesOf(m_fibers, c)) - (IF m_fibers[k].cb = c THEN 1 ELSE 0)
      <4>1. PlacesOf(m_fibers, c)' = PlacesOf(Erase(m_fibers, k), c)
        BY <2>1 DEF PlacesOf
      <4> QED BY <1>0, <4>1, RemovePlaces, SMT
    <3>4. started'[c] = started[c]
      BY <2>2
    <3> QED BY <1>n, <3>2, <3>3, <3>4, SMT DEF CbSum
  <2> QED BY <1>r, <1>s, <2>2, <2>6, <2>7
<1>2. CASE TakeNothing(t)
  BY <1>2, <1>a DEF TakeNothing, Quiet, queue, threads, bounds
<1>3. CASE EnterFiber(t)
  <2>1. ft[t].cb = None
    BY <1>0, <1>3 DEF EnterFiber, OneOfTwo
  <2>2. Quiet(t) /\ m_fibers' = m_fibers
    BY <1>3, <2>1 DEF EnterFiber, Enter, Abort, Quiet, queue, threads, bounds
  <2> QED BY <1>a, <2>2
<1>4. CASE \E f \in CbFibers : EnterCb(t, f)
  <2>1. PICK f \in CbFibers : EnterCb(t, f)
    BY <1>4
  <2>2. CASE UNCHANGED <<queue, threads, bounds>>
    BY <1>a, <2>2 DEF Quiet, queue, threads, bounds
  <2>3. CASE /\ started' = [started EXCEPT ![ft[t].cb] = @ + 1]
             /\ ft' = [ft EXCEPT ![t] = NoTask] /\ UNCHANGED <<m_fibers, given>>
    <3>1. NoTask \in Task /\ NoTask.cb = None /\ NoTask.fiber = None
      BY Tasks DEF NoTask
    <3>2. OneOfTwo'
      <4>1. ft'[t].fiber = None /\ ft'[t].cb = None
        BY <1>0, <2>3, <3>1
      <4> QED BY <1>0, <1>o, <2>3, <4>1 DEF OneOfTwo
    <3>3. ASSUME NEW c \in Cbs PROVE CbSum(c)' = CbSum(c)
      <4>1. Cardinality(HandsOn(c)') = Cardinality(HandsOn(c)) - (IF ft[t].cb = c THEN 1 ELSE 0)
        <5>1. NoTask.cb # c
          BY <3>1, TasksAssumption
        <5>2. PICK e \in Task : e = NoTask
          BY <3>1
        <5>3. ft' = [ft EXCEPT ![t] = e]
          BY <2>3, <5>2
        <5>4. Cardinality(HandsOn(c)') = Cardinality(HandsOn(c))
                - (IF ft[t].cb = c THEN 1 ELSE 0) + (IF e.cb = c THEN 1 ELSE 0)
          BY <1>t, <5>3, HandsChange, ZenonT(40)
        <5> QED BY <1>n, <5>1, <5>2, <5>4, SMT
      <4>2. started'[c] = started[c] + (IF ft[t].cb = c THEN 1 ELSE 0)
        BY <1>0, <1>n, <2>3, SMT
      <4>3. PlacesOf(m_fibers, c)' = PlacesOf(m_fibers, c)
        BY <2>3 DEF PlacesOf
      <4> QED BY <1>n, <4>1, <4>2, <4>3, SMTT(30) DEF CbSum
    <3> QED BY <1>r, <1>s, <2>3, <3>2, <3>3
  <2> QED BY <2>1, <2>2, <2>3 DEF EnterCb, Abort, queue, threads, bounds
<1>5. CASE \E c \in Cbs, thr \in Pins : BodySchedulesCb(t, c, thr)
  <2>1. PICK b \in Cbs, thr \in Pins : BodySchedulesCb(t, b, thr)
    BY <1>5
  <2>2. /\ UNCHANGED <<pc, ft, started>> /\ b \notin given /\ given' = given \cup {b}
        /\ schedule(CbTask(b, thr)) /\ thr \in RunThreads \cup {AnyThread}
    BY <2>1, ThreadsAssumption DEF BodySchedulesCb, threads
  <2> QED BY <1>0, <2>2, CbQueued DEF OneOfTwo
<1>6. CASE addEvent(t)
  BY <1>6, <1>a DEF addEvent, Abort, Quiet, queue, threads, bounds
<1>7. CASE YieldToHold(t)
  BY <1>7, <1>a DEF YieldToHold, Quiet, queue, threads, bounds
<1>8. CASE YieldToReady(t)
  BY <1>8, <1>a DEF YieldToReady, Quiet, queue, threads, bounds
<1>9. CASE Finish(t)
  BY <1>9, <1>a DEF Finish, Quiet, queue, threads, bounds
<1>10. CASE swapOut(t)
  BY <1>10, <1>a DEF swapOut, Quiet, queue, threads, bounds
<1>11. CASE Deactivate(t)
  BY <1>11, <1>a DEF Deactivate, Quiet, queue, threads, bounds
<1>12. CASE Requeue(t)
  <2>1. Cur(t) \in Fibers
    BY <1>0, <1>12 DEF Requeue, CurInv
  <2>2. Quiet(t) /\ schedule(FiberTask(Cur(t), AnyThread))
    BY <1>12 DEF Requeue, Quiet, bounds
  <2> QED BY <1>q, <2>1, <2>2, FiberQueued
<1>13. CASE Retire(t)
  BY <1>13, <1>a DEF Retire, Quiet, queue, threads, bounds
<1>14. CASE SeesHold(t)
  BY <1>14, <1>a DEF SeesHold, Quiet, queue, threads, bounds
<1>15. CASE SetHold(t)
  BY <1>15, <1>a DEF SetHold, Abort, Quiet, queue, threads, bounds
<1>16. CASE IdleChecksPending(t)
  BY <1>16, <1>a DEF IdleChecksPending, Quiet, queue, threads, bounds
<1>17. CASE IdleChecksQueue(t)
  BY <1>17, <1>a DEF IdleChecksQueue, Quiet, queue, threads, bounds
<1>18. CASE LeaveIdle(t)
  BY <1>18, <1>a DEF LeaveIdle, Quiet, queue, threads, bounds
<1>19. CASE \E f \in Fibers : Wake(t, f)
  <2>1. PICK f \in Fibers : Wake(t, f)
    BY <1>19
  <2>2. Quiet(t) /\ schedule(FiberTask(f, AnyThread))
    BY <2>1 DEF Wake, Quiet, bounds
  <2> QED BY <1>q, <2>2, FiberQueued
<1>20. CASE WakeDone(t)
  BY <1>20, <1>a DEF WakeDone, Quiet, queue, threads, bounds
<1> QED BY <1>1, <1>2, <1>3, <1>4, <1>5, <1>6, <1>7, <1>8, <1>9, <1>10, <1>11,
       <1>12, <1>13, <1>14, <1>15, <1>16, <1>17, <1>18, <1>19, <1>20, ZenonT(30) DEF Run

\* A step of the owner keeps the account of every callback.
LEMMA OwnerCb ==
  ASSUME FiniteSetFacts, CbInv, User \/ StopStep
  PROVE  OneOfTwo' /\ CbConserved'
<1> USE Zenon
<1>0. TypeOK /\ OwnerInv /\ OneOfTwo /\ ft \in [RunThreads -> Task]
  BY DEF CbInv, CountInv, TypeOK
<1>1. ft' = ft /\ \A t \in RunThreads : pc[t] = "taken" => pc'[t] = "taken"
  BY <1>0, OwnerMoves
<1>2. CASE UNCHANGED <<m_fibers, started, given>>
  <2>1. OneOfTwo'
    BY <1>0, <1>1, <1>2 DEF OneOfTwo
  <2>2. CbConserved'
    BY <1>1, <1>2 DEF CbInv, CbConserved
  <2> QED BY <2>1, <2>2
<1>3. CASE \E c \in Cbs, thr \in Pins : UserSchedulesCb(c, thr)
  <2>1. PICK c \in Cbs, thr \in Pins : UserSchedulesCb(c, thr)
    BY <1>3
  <2>2. /\ UNCHANGED <<ft, started>> /\ c \notin given /\ given' = given \cup {c}
        /\ schedule(CbTask(c, thr)) /\ \A t \in RunThreads : pc'[t] = pc[t]
        /\ thr \in RunThreads \cup {AnyThread}
    BY <2>1, ThreadsAssumption DEF UserSchedulesCb, threads
  <2> QED BY <2>2, CbQueued
<1>4. CASE \E f \in UserFibers, thr \in Pins : UserSchedulesFiber(f, thr)
  <2>1. PICK f \in UserFibers, thr \in Pins : UserSchedulesFiber(f, thr)
    BY <1>4
  <2>2. /\ UNCHANGED <<ft, pc, started>> /\ given' = given \cup {f}
        /\ schedule(FiberTask(f, thr)) /\ thr \in RunThreads \cup {AnyThread} /\ f \in Fibers
    BY <2>1, ThreadsAssumption DEF UserSchedulesFiber, threads, Fibers
  <2>3. /\ \A c \in Cbs : Cardinality(PlacesOf(m_fibers, c)') = Cardinality(PlacesOf(m_fibers, c))
        /\ \A i \in DOMAIN m_fibers' : m_fibers'[i].fiber = None \/ m_fibers'[i].cb = None
    BY <2>2, FiberQueued
  <2>4. OneOfTwo'
    BY <1>0, <2>2, <2>3 DEF OneOfTwo
  <2>5. ASSUME NEW c \in Cbs PROVE CbSum(c)' = IF c \in given' THEN 1 ELSE 0
    <3>1. c \in given' <=> c \in given
      BY <2>2, TasksAssumption
    <3>2. HandsOn(c)' = HandsOn(c) /\ started'[c] = started[c]
      BY <2>2 DEF HandsOn
    <3>3. CbSum(c) = IF c \in given THEN 1 ELSE 0
      BY ConservedSum DEF CbInv
    <3> QED BY <2>3, <3>1, <3>2, <3>3 DEF CbSum
  <2>6. CbConserved'
    BY <2>5 DEF CbConserved, CbSum, PlacesOf, HandsOn
  <2> QED BY <2>4, <2>6
<1>5. CASE Start \/ Stop \/ StopStep
  BY <1>2, <1>5 DEF Start, Stop, StopStep, StopChecksPending, StopChecksQueue,
       RootFiberReturns, Join, queue, bounds
<1> QED BY <1>3, <1>4, <1>5 DEF User

\* The callbacks' invariant is inductive.
LEMMA NextCbInv ==
  ASSUME FiniteSetFacts
  PROVE  CbInv /\ [Next]_vars => CbInv'
<1> USE Zenon
<1> SUFFICES ASSUME CbInv, [Next]_vars PROVE CbInv'
  OBVIOUS
<1>1. CountInv'
  BY NextCountInv DEF CbInv
<1>2. OneOfTwo' /\ CbConserved'
  <2>1. CASE User \/ StopStep
    BY <2>1, OwnerCb
  <2>2. ASSUME NEW t \in RunThreads, Run(t) PROVE OneOfTwo' /\ CbConserved'
    BY <2>2, RunCb
  <2>3. CASE UNCHANGED vars
    <3>1. UNCHANGED <<m_fibers, ft, pc, started, given>>
      BY <2>3 DEF vars, queue, threads, bounds
    <3> QED BY <3>1 DEF CbInv, OneOfTwo, CbConserved
  <2> QED BY <2>1, <2>2, <2>3 DEF Next, Terminated
<1> QED BY <1>1, <1>2 DEF CbInv

\* In the constructor nothing is scheduled.
LEMMA InitCbInv ==
  ASSUME FiniteSetFacts
  PROVE  Init => CbInv
<1> USE Zenon
<1> SUFFICES ASSUME Init PROVE CbInv
  OBVIOUS
<1>1. m_fibers = <<>> /\ \A t \in RunThreads : ft[t] = NoTask
  BY DEF Init
<1>2. OneOfTwo
  BY <1>1, SMTT(30) DEF OneOfTwo, NoTask
<1>3. ASSUME NEW c \in Cbs PROVE CbSum(c) = 0
  <2>1. PlacesOf(m_fibers, c) = {}
    BY <1>1, SMTT(20) DEF PlacesOf
  <2>2. HandsOn(c) = {}
    BY <1>1, TasksAssumption, SMTT(30) DEF HandsOn, NoTask
  <2>3. started[c] = 0
    BY DEF Init
  <2> QED BY <2>1, <2>2, <2>3, EmptyCount, SMT DEF CbSum
<1>4. CbConserved
  BY <1>3, ConservedSum DEF Init
<1> QED BY <1>2, <1>4, InitCountInv DEF CbInv
=============================================================================
