------------------------- MODULE TimerManagerProofs -------------------------
(***************************************************************************)
(* A timer is queued exactly as long as it has its callback, a finished    *)
(* timer stays finished, reset() never wraps, a sleeping thread is tickled *)
(* for an earlier timer, nothing is handed out early, and an empty set is  *)
(* met only after a removal: for every number of timers and threads, every *)
(* period and every behaviour of the clock.                                *)
(***************************************************************************)
EXTENDS TimerManager, WellFoundedInduction, TLAPS

Arg == [timer: Nat, ms: Nat, from_now: BOOLEAN, now_ms: 0 .. MaxTime]

\* The timer that thread th has constructed and not yet inserted.
Inserting(th, t) == pc[th] = "insert" /\ arg[th].timer = t

\* What is true of a timer from its construction to the insertion, and what a
\* reset() may rely on when it gets the lock.
CallInv ==
  /\ \A th \in Threads :
       pc[th] = "insert" => /\ arg[th].timer \in made
                            /\ m_cb[arg[th].timer] /\ arg[th].timer \notin m_timers
  /\ \A th1, th2 \in Threads :
       pc[th1] = "insert" /\ pc[th2] = "insert" /\ arg[th1].timer = arg[th2].timer
         => th1 = th2
  /\ \A th \in Threads : pc[th] = "reset" => arg[th].timer \in Known

\* Queued timers and finished timers are known to the user; finished timers have
\* no callback.
TimerInv ==
  /\ m_timers \subseteq Known
  /\ \A t \in cancelled \cup done : t \in Known /\ ~m_cb[t]

Inv == TypeOK /\ CallInv /\ TimerInv /\ CbIffQueued /\ StartNeverWraps

\* The values the constants and the fixed locals have.
LEMMA Constants ==
  /\ Timers \subseteq Nat /\ Periods \subseteq Nat /\ Listers \subseteq Threads
  /\ NoArg \in Arg /\ Never \in Nat /\ MaxTime \in Nat
BY TimersAssumption, ClockAssumption DEF NoArg, Never, Arg

\* The constructor of the manager establishes the invariant.
LEMMA InitInv == Init => Inv
<1> SUFFICES ASSUME Init PROVE Inv
  OBVIOUS
<1>1. TypeOK
  <2>1. arg \in [Threads -> Arg]
    BY Constants DEF Init
  <2>2. promised \in Nat
    BY Constants DEF Init
  <2>3. now \in 0 .. MaxTime /\ m_previous_time \in 0 .. MaxTime /\ backs \in 0 .. MaxBack /\ changes \in 0 .. MaxChanges
    BY ClockAssumption DEF Init
  <2> QED BY <2>1, <2>2, <2>3, Zenon DEF Init, TypeOK, PC, Arg
<1>2. Known = {}
  BY DEF Init, Known
<1> QED BY <1>1, <1>2 DEF Init, Inv, CallInv, TimerInv, CbIffQueued, StartNeverWraps

\* The clock moves forward or back without touching a timer.
LEMMA TickInv == Inv /\ (Tick \/ SetBack) => Inv'
<1> SUFFICES ASSUME Inv, Tick \/ SetBack PROVE Inv'
  OBVIOUS
<1>1. now' \in 0 .. MaxTime /\ backs' \in 0 .. MaxBack
  <2>1. now \in 0 .. MaxTime /\ backs \in 0 .. MaxBack
    BY DEF Inv, TypeOK
  <2>2. CASE Tick
    BY <2>1, <2>2, ClockAssumption DEF Tick
  <2>3. CASE SetBack
    <3>1. PICK n \in Epoch - Hour .. now : now' = n
      BY <2>3 DEF SetBack
    <3>2. backs < MaxBack /\ backs' = backs + 1
      BY <2>3 DEF SetBack
    <3> QED BY <2>1, <3>1, <3>2, ClockAssumption
  <2> QED BY <2>2, <2>3
<1>2. /\ UNCHANGED <<m_timers, m_next, m_ms, m_recurring, m_cb, m_tickled>>
      /\ UNCHANGED <<m_previous_time, rolled, pc, arg, made, cancelled, done, overtaken>>
      /\ UNCHANGED <<promised, woken, changes, failed>>
  BY DEF Tick, SetBack, timer, thread, sleep, previous
<1>3. TypeOK'
  BY <1>1, <1>2 DEF Inv, TypeOK
<1>4. Known' = Known
  BY <1>2 DEF Known
<1> QED BY <1>2, <1>3, <1>4 DEF Inv, CallInv, TimerInv, CbIffQueued, StartNeverWraps

\* A timer under construction is nobody's business until it is inserted.
LEMMA NewTimerInv ==
  ASSUME Inv, NEW th \in Threads, NEW t \in Timers, NEW ms \in Periods,
         NEW rec \in BOOLEAN, NewTimer(th, t, ms, rec)
  PROVE  Inv'
<1>0. TypeOK /\ CallInv /\ TimerInv /\ CbIffQueued /\ StartNeverWraps
  BY DEF Inv
<1>1. /\ now \in Nat /\ ms \in Nat /\ t \in Nat /\ now + ms \in Nat /\ now + ms >= ms
      /\ t \notin made
  BY <1>0, Constants DEF TypeOK, NewTimer
<1>2. /\ UNCHANGED <<now, backs, m_timers, m_tickled, m_previous_time, rolled, cancelled>>
      /\ UNCHANGED <<done, overtaken, promised, woken, changes, failed>>
      /\ made' = made \cup {t}
  BY DEF NewTimer, clock, previous, sleep
<1>3. /\ m_ms' \in [Timers -> Nat] /\ m_next' \in [Timers -> Nat]
      /\ m_recurring' \in [Timers -> BOOLEAN] /\ m_cb' \in [Timers -> BOOLEAN]
  BY <1>0, <1>1 DEF TypeOK, NewTimer
<1>4. /\ m_ms'[t] = ms /\ m_next'[t] = now + ms /\ m_cb'[t]
      /\ \A s \in Timers \ {t} : m_ms'[s] = m_ms[s] /\ m_next'[s] = m_next[s] /\ m_cb'[s] = m_cb[s]
  BY <1>0 DEF TypeOK, NewTimer
<1>5. /\ pc[th] = "out" /\ pc'[th] = "insert" /\ arg'[th].timer = t
      /\ \A u \in Threads \ {th} : pc'[u] = pc[u] /\ arg'[u] = arg[u]
  BY <1>0 DEF TypeOK, NewTimer
<1>6. pc' \in [Threads -> PC] /\ arg' \in [Threads -> Arg]
  BY <1>0, <1>1 DEF TypeOK, NewTimer, PC, Arg
<1>7. TypeOK'
  BY <1>0, <1>2, <1>3, <1>6 DEF TypeOK, Arg
<1>8. Known' = Known
  BY <1>1, <1>2, <1>5 DEF Known
<1>9. t \notin Known /\ Known \subseteq Timers /\ made \subseteq Timers
  BY <1>0, <1>1, Zenon DEF Known, TypeOK
<1>10. CallInv'
  <2>1. ASSUME NEW u \in Threads, pc'[u] = "insert"
        PROVE  arg'[u].timer \in made' /\ m_cb'[arg'[u].timer] /\ arg'[u].timer \notin m_timers'
    <3>1. CASE u = th
      <4>1. t \notin m_timers
        BY <1>0, <1>9, Zenon DEF TimerInv
      <4> QED BY <1>2, <1>4, <1>5, <3>1, <4>1, Zenon
    <3>2. CASE u # th
      <4>1. pc[u] = "insert" /\ arg'[u].timer = arg[u].timer
        BY <1>5, <2>1, <3>2, Zenon
      <4>2. arg[u].timer \in made /\ m_cb[arg[u].timer] /\ arg[u].timer \notin m_timers
        BY <1>0, <4>1, Zenon DEF CallInv
      <4>3. arg[u].timer \in Timers \ {t}
        BY <1>1, <1>9, <4>2, Zenon
      <4> QED BY <1>2, <1>4, <4>1, <4>2, <4>3, Zenon
    <3> QED BY <3>1, <3>2, Zenon
  <2>2. \A u, v \in Threads :
          pc'[u] = "insert" /\ pc'[v] = "insert" /\ arg'[u].timer = arg'[v].timer => u = v
    BY <1>0, <1>1, <1>5 DEF CallInv
  <2>3. \A u \in Threads : pc'[u] = "reset" => arg'[u].timer \in Known'
    BY <1>0, <1>5, <1>8 DEF CallInv
  <2> QED BY <2>1, <2>2, <2>3 DEF CallInv
<1>11. TimerInv' /\ CbIffQueued'
  BY <1>0, <1>2, <1>4, <1>8, <1>9 DEF TimerInv, CbIffQueued
<1>12. StartNeverWraps'
  BY <1>0, <1>1, <1>2, <1>4, <1>9, Zenon DEF StartNeverWraps
<1> QED BY <1>7, <1>10, <1>11, <1>12 DEF Inv

\* The insertion makes the timer known, queued and with its callback.
LEMMA addTimerInv ==
  ASSUME Inv, NEW th \in Threads, addTimer(th)
  PROVE  Inv'
<1> DEFINE t == arg[th].timer
<1>0. TypeOK /\ CallInv /\ TimerInv /\ CbIffQueued /\ StartNeverWraps
  BY DEF Inv
<1>1. /\ UNCHANGED <<now, backs, m_next, m_ms, m_recurring, m_cb, m_previous_time, rolled>>
      /\ UNCHANGED <<made, cancelled, done, overtaken, promised, woken, changes, failed>>
      /\ m_timers' = m_timers \cup {t} /\ m_tickled' \in BOOLEAN
  BY <1>0 DEF addTimer, Insert, clock, previous, timer, sleep, TypeOK
<1>2. /\ pc[th] = "insert" /\ pc'[th] \in {"out", "tickle"}
      /\ \A u \in Threads \ {th} : pc'[u] = pc[u] /\ arg'[u] = arg[u]
  BY <1>0 DEF TypeOK, addTimer, Insert
<1>3. pc' \in [Threads -> PC] /\ arg' \in [Threads -> Arg]
  BY <1>0, Constants DEF TypeOK, addTimer, Insert, PC, Arg
<1>4. t \in made /\ m_cb[t] /\ t \in Timers /\ made \subseteq Timers
  BY <1>0, <1>2 DEF CallInv, TypeOK
<1>5. TypeOK'
  BY <1>0, <1>1, <1>3, <1>4 DEF TypeOK, Arg
<1>6. Known' = Known \cup {t} /\ t \notin Known
  <2>1. \A u \in Threads \ {th} : ~(pc[u] = "insert" /\ arg[u].timer = t)
    BY <1>0, <1>2 DEF CallInv
  <2> QED BY <1>1, <1>2, <1>4, <2>1 DEF Known
<1>7. CallInv'
  <2>1. \A u \in Threads : pc'[u] = "insert" =>
           arg'[u].timer \in made' /\ m_cb'[arg'[u].timer] /\ arg'[u].timer \notin m_timers'
    BY <1>0, <1>1, <1>2, SMTT(30) DEF CallInv
  <2>2. \A u, v \in Threads :
          pc'[u] = "insert" /\ pc'[v] = "insert" /\ arg'[u].timer = arg'[v].timer => u = v
    BY <1>0, <1>2 DEF CallInv
  <2>3. \A u \in Threads : pc'[u] = "reset" => arg'[u].timer \in Known'
    BY <1>0, <1>2, <1>6 DEF CallInv
  <2> QED BY <2>1, <2>2, <2>3, SMTT(20) DEF CallInv
<1>8. TimerInv' /\ CbIffQueued' /\ StartNeverWraps'
  BY <1>0, <1>1, <1>4, <1>6 DEF TimerInv, CbIffQueued, StartNeverWraps
<1> QED BY <1>5, <1>7, <1>8 DEF Inv

\* A step that leaves the timers alone and moves one thread between other points
\* of its calls.
LEMMA ThreadStepInv ==
  ASSUME Inv, NEW th \in Threads,
         UNCHANGED <<now, backs, m_timers, m_next, m_ms, m_recurring, m_cb>>,
         UNCHANGED <<m_previous_time, rolled, made, cancelled, done, overtaken, failed>>,
         m_tickled' \in BOOLEAN, woken' \in BOOLEAN, promised' \in Nat,
         changes' \in 0 .. MaxChanges,
         pc' \in [Threads -> PC], arg' \in [Threads -> Arg],
         pc[th] # "insert", pc'[th] # "insert",
         pc'[th] = "reset" => arg'[th].timer \in Known,
         \A u \in Threads \ {th} : pc'[u] = pc[u] /\ arg'[u] = arg[u]
  PROVE  Inv'
<1>0. TypeOK /\ CallInv /\ TimerInv /\ CbIffQueued /\ StartNeverWraps
  BY DEF Inv
<1>1. TypeOK'
  BY <1>0 DEF TypeOK, Arg
<1>2. Known' = Known
  BY DEF Known
<1>3. CallInv'
  BY <1>0, <1>2 DEF CallInv
<1>4. TimerInv' /\ CbIffQueued' /\ StartNeverWraps'
  BY <1>0, <1>2 DEF TimerInv, CbIffQueued, StartNeverWraps
<1> QED BY <1>1, <1>3, <1>4 DEF Inv

\* < on the naturals, as a relation.
Lt == {ss \in Nat \X Nat : ss[1] < ss[2]}

\* The order of the naturals is well founded.
LEMMA LtWF == IsWellFoundedOn(Lt, Nat)
BY NatLessThanWellFounded DEF OpToRel, Lt

\* A nonempty set of naturals has a least element.
LEMMA NatMin ==
  ASSUME NEW S, S \subseteq Nat, S # {}
  PROVE  \E n \in S : \A m \in S : n <= m
<1>1. PICK n \in S : \A m \in S : ~(<<m, n>> \in Lt)
  BY LtWF, WFMin, Zenon
<1>2. ASSUME NEW m \in S PROVE n <= m
  <2>1. m \in Nat /\ n \in Nat /\ ~(<<m, n>> \in Lt)
    BY <1>1
  <2>2. ~(m < n)
    BY <2>1 DEF Lt
  <2> QED BY <2>1, <2>2
<1> QED BY <1>2

\* m_timers.begin() of a nonempty m_timers is the first of its timers.
LEMMA FirstExists ==
  ASSUME NEW S, S \subseteq Timers, S # {}, NEW next \in [Timers -> Nat]
  PROVE  /\ First(S, next) \in S
         /\ \A s \in S \ {First(S, next)} : Before(next, First(S, next), s)
<1> DEFINE N == {next[t] : t \in S}
<1>0. Timers \subseteq Nat
  BY TimersAssumption
<1>1. PICK n \in N : \A m \in N : n <= m
  <2>1. N \subseteq Nat /\ N # {}
    OBVIOUS
  <2> HIDE DEF N
  <2> QED BY <2>1, NatMin, Zenon
<1> DEFINE F == {t \in S : next[t] = n}
<1>2. PICK t \in F : \A s \in F : t <= s
  <2>1. F \subseteq Nat /\ F # {}
    BY <1>0, Zenon
  <2> HIDE DEF F
  <2> QED BY <2>1, NatMin, Zenon
<1>3. ASSUME NEW s \in S \ {t} PROVE Before(next, t, s)
  <2>1. next[s] \in N /\ next[t] = n /\ next[s] \in Nat /\ next[t] \in Nat /\ s \in Nat /\ t \in Nat
    BY <1>0
  <2>2. n <= next[s]
    BY <1>1, <2>1
  <2>3. next[s] = n => t <= s
    BY <1>2
  <2> QED BY <2>1, <2>2, <2>3 DEF Before
<1>4. \E u \in S : \A s \in S \ {u} : Before(next, u, s)
  BY <1>3
<1> QED BY <1>4 DEF First

\* The calls that leave every timer as it is keep the invariant.
LEMMA SimpleCallsInv ==
  ASSUME Inv, NEW th \in Threads,
         \/ onTimerInsertAtFront(th) \/ getNextTimer(th)
         \/ ListReadsClock(th) \/ ListChecksEmpty(th)
         \/ \E t \in Timers, ms \in Periods, f \in BOOLEAN : ResetStarts(th, t, ms, f)
  PROVE  Inv'
<1>0. /\ TypeOK /\ now \in 0 .. MaxTime /\ changes \in 0 .. MaxChanges
      /\ pc \in [Threads -> PC] /\ arg \in [Threads -> Arg]
      /\ m_tickled \in BOOLEAN /\ woken \in BOOLEAN /\ promised \in Nat
      /\ CallInv
  BY DEF Inv, TypeOK, Arg
<1>1. CASE onTimerInsertAtFront(th)
  <2>1. /\ pc[th] = "tickle" /\ pc'[th] = "out" /\ woken' \in BOOLEAN
        /\ pc' \in [Threads -> PC] /\ \A u \in Threads \ {th} : pc'[u] = pc[u]
    BY <1>0, <1>1 DEF onTimerInsertAtFront, PC
  <2>2. /\ UNCHANGED <<now, backs, m_timers, m_next, m_ms, m_recurring, m_cb>>
        /\ UNCHANGED <<m_previous_time, rolled, made, cancelled, done, overtaken, failed>>
        /\ UNCHANGED <<m_tickled, promised, changes, arg>>
    BY <1>1 DEF onTimerInsertAtFront, clock, previous, timer
  <2> QED BY <1>0, <2>1, <2>2, ThreadStepInv
<1>2. CASE getNextTimer(th)
  <2>1. promised' \in Nat
    <3>1. CASE m_timers = {}
      BY <1>2, <3>1, Constants DEF getNextTimer
    <3>2. CASE m_timers # {}
      <4>1. m_timers \subseteq Timers /\ m_next \in [Timers -> Nat]
        BY <1>0 DEF TypeOK
      <4>2. First(m_timers, m_next) \in m_timers
        BY <3>2, <4>1, FirstExists
      <4>3. promised' = m_next[First(m_timers, m_next)]
        BY <1>2, <3>2 DEF getNextTimer
      <4> QED BY <4>1, <4>2, <4>3
    <3> QED BY <3>1, <3>2
  <2>2. /\ UNCHANGED <<now, backs, m_timers, m_next, m_ms, m_recurring, m_cb>>
        /\ UNCHANGED <<m_previous_time, rolled, made, cancelled, done, overtaken, failed>>
        /\ UNCHANGED <<changes, pc, arg>>
        /\ m_tickled' \in BOOLEAN /\ woken' \in BOOLEAN /\ pc[th] = "out"
    BY <1>2, Zenon DEF getNextTimer, clock, previous, timer, thread
  <2> QED BY <1>0, <2>1, <2>2, ThreadStepInv
<1>3. CASE ListReadsClock(th) \/ ListChecksEmpty(th)
  <2>1. /\ pc[th] \in {"out", "list"} /\ pc'[th] \in {"out", "list", "expire"}
        /\ pc' \in [Threads -> PC]
        /\ \A u \in Threads \ {th} : pc'[u] = pc[u] /\ arg'[u] = arg[u]
    BY <1>0, <1>3 DEF ListReadsClock, ListChecksEmpty, PC
  <2>2. arg' \in [Threads -> Arg]
    BY <1>0, <1>3, Constants, SMTT(30) DEF ListReadsClock, ListChecksEmpty, Arg
  <2>3. /\ UNCHANGED <<now, backs, m_timers, m_next, m_ms, m_recurring, m_cb>>
        /\ UNCHANGED <<m_previous_time, rolled, made, cancelled, done, overtaken, failed>>
        /\ UNCHANGED <<m_tickled, promised, woken, changes>>
    BY <1>3 DEF ListReadsClock, ListChecksEmpty, clock, previous, timer, sleep
  <2> QED BY <1>0, <2>1, <2>2, <2>3, ThreadStepInv
<1>4. ASSUME NEW t \in Timers, NEW ms \in Periods, NEW f \in BOOLEAN,
             ResetStarts(th, t, ms, f)
      PROVE  Inv'
  <2>1. /\ pc[th] = "out" /\ pc'[th] = "reset" /\ t \in Known
        /\ pc' \in [Threads -> PC]
        /\ \A u \in Threads \ {th} : pc'[u] = pc[u] /\ arg'[u] = arg[u]
    BY <1>0, <1>4, Zenon DEF ResetStarts, PC
  <2>2. changes' \in 0 .. MaxChanges
    BY <1>0, <1>4, ClockAssumption DEF ResetStarts
  <2>3. arg' \in [Threads -> Arg] /\ arg'[th].timer = t
    <3> DEFINE a == [timer |-> t, ms |-> ms, from_now |-> f, now_ms |-> 0]
    <3>1. a \in Arg /\ a.timer = t
      BY Constants DEF Arg
    <3>2. arg' = [arg EXCEPT ![th] = a]
      BY <1>4, Zenon DEF ResetStarts
    <3> HIDE DEF a
    <3> QED BY <1>0, <3>1, <3>2
  <2>4. /\ UNCHANGED <<now, backs, m_timers, m_next, m_ms, m_recurring, m_cb>>
        /\ UNCHANGED <<m_previous_time, rolled, made, cancelled, done, overtaken, failed>>
        /\ UNCHANGED <<m_tickled, promised, woken>>
    BY <1>4, Zenon DEF ResetStarts, clock, previous, timer, sleep
  <2> QED BY <1>0, <2>1, <2>2, <2>3, <2>4, ThreadStepInv, Zenon
<1> QED BY <1>1, <1>2, <1>3, <1>4

\* cancel() finds the timer it erases, and it is gone for good.
LEMMA cancelInv ==
  ASSUME Inv, Alive, NEW t \in Timers, cancel(t)
  PROVE  Inv'
<1>0. TypeOK /\ CallInv /\ TimerInv /\ CbIffQueued /\ StartNeverWraps
  BY DEF Inv
<1>1. /\ UNCHANGED <<now, backs, m_next, m_ms, m_recurring, m_tickled, pc, arg>>
      /\ UNCHANGED <<m_previous_time, rolled, made, done, promised, woken, changes>>
      /\ m_timers' = m_timers \ {t} /\ cancelled' = cancelled \cup {t}
      /\ t \in Known /\ m_cb[t]
  BY DEF cancel, clock, previous, thread, sleep
<1>2. m_cb' \in [Timers -> BOOLEAN] /\ ~m_cb'[t] /\ \A s \in Timers \ {t} : m_cb'[s] = m_cb[s]
  BY <1>0 DEF cancel, TypeOK
<1>3. failed' = "no"
  BY <1>0, <1>1 DEF CbIffQueued, cancel
<1>o. overtaken' \subseteq Threads
  BY <1>0, Zenon DEF TypeOK, cancel, BetweenLocks
<1>4. TypeOK'
  BY <1>0, <1>1, <1>2, <1>3, <1>o, Zenon DEF TypeOK
<1>5. Known' = Known /\ Known \subseteq Timers
  BY <1>0, <1>1, Zenon DEF Known, TypeOK
<1>6. CallInv'
  <2>1. \A u \in Threads : pc[u] = "insert" => arg[u].timer # t /\ arg[u].timer \in Timers
    BY <1>0, <1>1, Zenon DEF Known, CallInv, TypeOK
  <2> QED BY <1>0, <1>1, <1>2, <1>5, <2>1, Zenon DEF CallInv
<1>7. TimerInv' /\ CbIffQueued' /\ StartNeverWraps'
  BY <1>0, <1>1, <1>2, <1>5, Zenon DEF TimerInv, CbIffQueued, StartNeverWraps
<1> QED BY <1>4, <1>6, <1>7 DEF Inv

\* refresh() puts a queued timer back with a start that does not wrap.
LEMMA refreshInv ==
  ASSUME Inv, NEW t \in Timers, refresh(t)
  PROVE  Inv'
<1>0. TypeOK /\ CallInv /\ TimerInv /\ CbIffQueued /\ StartNeverWraps
  BY DEF Inv
<1>1. /\ UNCHANGED <<now, backs, m_timers, m_ms, m_recurring, m_cb, m_tickled, pc, arg>>
      /\ UNCHANGED <<m_previous_time, rolled, made, cancelled, done, overtaken, promised, woken, failed>>
  BY Zenon DEF refresh, clock, previous, thread, sleep
<1>2. now \in Nat /\ m_ms[t] \in Nat /\ now + m_ms[t] \in Nat /\ now + m_ms[t] >= m_ms[t]
  BY <1>0 DEF TypeOK
<1>3. changes' \in 0 .. MaxChanges
  BY <1>0, ClockAssumption, SMTT(30) DEF refresh, TypeOK
<1>4. /\ m_next' \in [Timers -> Nat] /\ m_next'[t] = now + m_ms[t]
      /\ \A s \in Timers \ {t} : m_next'[s] = m_next[s]
  BY <1>0, <1>2, Zenon DEF refresh, TypeOK
<1>5. TypeOK'
  BY <1>0, <1>1, <1>3, <1>4, Zenon DEF TypeOK
<1>6. Known' = Known
  BY <1>1 DEF Known
<1>7. CallInv' /\ TimerInv' /\ CbIffQueued'
  BY <1>0, <1>1, <1>6, Zenon DEF CallInv, TimerInv, CbIffQueued
<1>8. StartNeverWraps'
  BY <1>0, <1>1, <1>2, <1>4, Zenon DEF StartNeverWraps, TypeOK
<1> QED BY <1>5, <1>7, <1>8 DEF Inv

\* reset() puts a queued timer back, and leaves one that has meanwhile fired or
\* been cancelled alone.
LEMMA resetInv ==
  ASSUME Inv, NEW th \in Threads, reset(th)
  PROVE  Inv'
<1> DEFINE t == arg[th].timer
           ms == arg[th].ms
           start == IF arg[th].from_now THEN now ELSE m_next[t] - m_ms[t]
<1>0. TypeOK /\ CallInv /\ TimerInv /\ CbIffQueued /\ StartNeverWraps
  BY DEF Inv
<1>1. /\ UNCHANGED <<now, backs, m_recurring, m_cb, m_previous_time, rolled, made>>
      /\ UNCHANGED <<cancelled, done, overtaken, promised, woken, changes, failed>>
  BY Zenon DEF reset, clock, previous, sleep
<1>2. pc[th] = "reset" /\ t \in Known /\ t \in made /\ t \in Timers
  BY <1>0, Zenon DEF reset, CallInv, Known, TypeOK
<1>3. /\ m_timers' = m_timers /\ m_tickled' \in BOOLEAN
      /\ pc'[th] \in {"out", "tickle"} /\ pc' \in [Threads -> PC]
      /\ arg' = [arg EXCEPT ![th] = NoArg]
      /\ \A u \in Threads \ {th} : pc'[u] = pc[u]
  <2>1. CASE m_cb[t] /\ t \in m_timers
    <3>1. Insert(th, t, m_next')
      BY <2>1, Zenon DEF reset
    <3> HIDE DEF t
    <3> QED BY <1>0, <2>1, <3>1 DEF Insert, TypeOK, PC
  <2>2. CASE ~(m_cb[t] /\ t \in m_timers)
    BY <1>0, <2>2, Zenon DEF reset, TypeOK, PC
  <2> QED BY <2>1, <2>2, Zenon
<1>4. arg' \in [Threads -> Arg] /\ \A u \in Threads \ {th} : arg'[u] = arg[u]
  BY <1>0, <1>3, Constants DEF TypeOK, Arg
<1>5. start \in Nat /\ ms \in Nat /\ start + ms \in Nat /\ start + ms >= ms
  <2>1. now \in Nat /\ m_next[t] \in Nat /\ m_ms[t] \in Nat /\ m_next[t] >= m_ms[t] /\ ms \in Nat
    BY <1>0, <1>2, SMTT(30) DEF TypeOK, StartNeverWraps
  <2>2. m_next[t] - m_ms[t] \in Nat
    BY <2>1, SMTT(30)
  <2>3. start \in Nat
    BY <2>1, <2>2, Zenon
  <2> HIDE DEF start, ms
  <2> QED BY <2>1, <2>3
<1>6. /\ m_next' \in [Timers -> Nat] /\ m_ms' \in [Timers -> Nat]
      /\ \A s \in made : m_next'[s] >= m_ms'[s]
  <2>1. CASE m_cb[t] /\ t \in m_timers
    <3>1. m_ms' = [m_ms EXCEPT ![t] = ms] /\ m_next' = [m_next EXCEPT ![t] = start + ms]
      BY <2>1, Zenon DEF reset
    <3>2. m_next \in [Timers -> Nat] /\ m_ms \in [Timers -> Nat] /\ made \subseteq Timers
      BY <1>0 DEF TypeOK
    <3> HIDE DEF t, ms, start
    <3> QED BY <1>0, <1>2, <1>5, <3>1, <3>2 DEF StartNeverWraps
  <2>2. CASE ~(m_cb[t] /\ t \in m_timers)
    BY <1>0, <2>2, Zenon DEF reset, TypeOK, StartNeverWraps
  <2> QED BY <2>1, <2>2, Zenon
<1>7. TypeOK'
  BY <1>0, <1>1, <1>3, <1>4, <1>6, Zenon DEF TypeOK, Arg
<1>8. Known' = Known
  BY <1>1, <1>2, <1>3, <1>4, SMTT(30) DEF Known
<1>9. CallInv'
  BY <1>0, <1>1, <1>3, <1>4, <1>8, SMTT(30) DEF CallInv
<1>10. TimerInv' /\ CbIffQueued' /\ StartNeverWraps'
  BY <1>0, <1>1, <1>3, <1>6, <1>8, Zenon DEF TimerInv, CbIffQueued, StartNeverWraps
<1> QED BY <1>7, <1>9, <1>10 DEF Inv

\* listExpiredCb takes the callback of exactly the timers it does not put back.
LEMMA listExpiredCbInv ==
  ASSUME Inv, NEW th \in Threads, listExpiredCb(th)
  PROVE  Inv'
<1> DEFINE now_ms == arg[th].now_ms
           expireds == Expired(now_ms)
           again == {t \in expireds : m_recurring[t]}
<1>0. TypeOK /\ CallInv /\ TimerInv /\ CbIffQueued /\ StartNeverWraps
  BY DEF Inv
<1>1. /\ UNCHANGED <<now, backs, m_ms, m_recurring, m_tickled, made, cancelled>>
      /\ UNCHANGED <<promised, woken, changes>>
      /\ m_previous_time' = now_ms /\ rolled' \in BOOLEAN /\ failed' \in {"no", "begin", "erase"}
      /\ m_timers' = (m_timers \ expireds) \cup again
      /\ m_next' = [t \in Timers |-> IF t \in again THEN now_ms + m_ms[t] ELSE m_next[t]]
      /\ m_cb' = [t \in Timers |-> IF t \in expireds \ again THEN FALSE ELSE m_cb[t]]
      /\ done' = done \cup (expireds \ again)
      /\ pc[th] = "expire"
      /\ pc' = [pc EXCEPT ![th] = "out"] /\ arg' = [arg EXCEPT ![th] = NoArg]
  BY Zenon DEF listExpiredCb, clock, previous, sleep
<1>2. /\ expireds \subseteq m_timers /\ again \subseteq expireds
      /\ m_timers \subseteq Timers /\ m_timers \subseteq Known /\ Known \subseteq made
      /\ made \subseteq Timers
  BY <1>0, Zenon DEF Expired, TypeOK, TimerInv, Known
<1>3. now_ms \in 0 .. MaxTime /\ now_ms \in Nat
  BY <1>0, Constants, SMTT(30) DEF TypeOK
<1> HIDE DEF now_ms, expireds, again
<1>4. /\ pc'[th] = "out" /\ pc' \in [Threads -> PC] /\ arg' \in [Threads -> Arg]
      /\ \A u \in Threads \ {th} : pc'[u] = pc[u] /\ arg'[u] = arg[u]
  BY <1>0, <1>1, Constants, Zenon DEF TypeOK, PC, Arg
<1>5. \A t \in Timers : m_ms[t] \in Nat /\ now_ms + m_ms[t] \in Nat /\ now_ms + m_ms[t] >= m_ms[t]
  BY <1>0, <1>3 DEF TypeOK
<1>6. m_next' \in [Timers -> Nat] /\ m_cb' \in [Timers -> BOOLEAN]
  BY <1>0, <1>1, <1>5, Zenon DEF TypeOK
<1>o. overtaken' \subseteq Threads
  <2>1. overtaken' \subseteq overtaken \cup BetweenLocks
    BY Zenon DEF listExpiredCb
  <2> QED BY <1>0, <2>1, Zenon DEF TypeOK, BetweenLocks
<1>7. TypeOK'
  BY <1>0, <1>1, <1>2, <1>3, <1>4, <1>6, <1>o, Zenon DEF TypeOK, Arg
<1>8. Known' = Known
  BY <1>1, <1>4, ZenonT(30) DEF Known
<1>9. CallInv'
  <2>1. \A u \in Threads : pc'[u] = "insert" =>
           arg'[u].timer \in made' /\ m_cb'[arg'[u].timer] /\ arg'[u].timer \notin m_timers'
    <3> SUFFICES ASSUME NEW u \in Threads, pc'[u] = "insert"
                 PROVE  arg'[u].timer \in made' /\ m_cb'[arg'[u].timer] /\ arg'[u].timer \notin m_timers'
      OBVIOUS
    <3>1. pc[u] = "insert" /\ arg'[u] = arg[u]
      BY <1>4
    <3>2. arg[u].timer \in made /\ m_cb[arg[u].timer] /\ arg[u].timer \notin m_timers
      BY <1>0, <3>1, Zenon DEF CallInv
    <3>3. arg[u].timer \in Timers /\ arg[u].timer \notin expireds BY <1>2, <3>2
    <3>4. m_cb'[arg[u].timer] = m_cb[arg[u].timer] BY <1>1, <3>3, Zenon
    <3> QED BY <1>1, <1>2, <3>1, <3>2, <3>4, SMTT(30)
  <2>2. \A u, v \in Threads :
          pc'[u] = "insert" /\ pc'[v] = "insert" /\ arg'[u].timer = arg'[v].timer => u = v
    BY <1>0, <1>4, SMTT(30) DEF CallInv
  <2>3. \A u \in Threads : pc'[u] = "reset" => arg'[u].timer \in Known'
    BY <1>0, <1>4, <1>8, Zenon DEF CallInv
  <2> QED BY <2>1, <2>2, <2>3, Zenon DEF CallInv
<1>10. TimerInv' /\ CbIffQueued'
  BY <1>0, <1>1, <1>2, <1>8, Zenon DEF TimerInv, CbIffQueued
<1>11. StartNeverWraps'
  BY <1>0, <1>1, <1>2, <1>5, Zenon DEF StartNeverWraps
<1> QED BY <1>7, <1>9, <1>10, <1>11 DEF Inv

\* Every step keeps the invariant.
LEMMA NextInv == Inv /\ [Next]_vars => Inv'
<1> SUFFICES ASSUME Inv, [Next]_vars PROVE Inv'
  BY SMTT(20)
<1>1. CASE UNCHANGED vars
  BY <1>1, SMTT(30) DEF vars, clock, previous, timer, thread, sleep, Inv, TypeOK, CallInv, TimerInv,
              CbIffQueued, StartNeverWraps, Known
<1>2. CASE Next
  <2>1. CASE Tick \/ SetBack
    BY <2>1, TickInv
  <2>2. ASSUME NEW t \in Timers, cancel(t) \/ refresh(t) PROVE Inv'
    BY <1>2, <2>2, cancelInv, refreshInv DEF Next
  <2>3. ASSUME NEW th \in Threads, Call(th) PROVE Inv'
    <3>1. CASE \E t \in Timers, ms \in Periods, rec \in BOOLEAN : NewTimer(th, t, ms, rec)
      BY <3>1, NewTimerInv
    <3>2. CASE addTimer(th) \/ reset(th)
      BY <3>2, addTimerInv, resetInv
    <3>3. CASE \/ onTimerInsertAtFront(th) \/ getNextTimer(th)
               \/ \E t \in Timers, ms \in Periods, f \in BOOLEAN : ResetStarts(th, t, ms, f)
      BY <3>3, SimpleCallsInv
    <3> QED BY <2>3, <3>1, <3>2, <3>3 DEF Call
  <2>4. ASSUME NEW th \in Listers, List(th) PROVE Inv'
    <3>1. th \in Threads
      BY Constants
    <3> QED BY <2>4, <3>1, SimpleCallsInv, listExpiredCbInv DEF List
  <2> QED BY <1>2, <2>1, <2>2, <2>3, <2>4 DEF Next
<1> QED BY <1>1, <1>2

\* In every execution, for any timers, threads, periods and clock: a timer the
\* user holds is queued exactly as long as it has its callback, reset() never
\* computes a start before 0, and a cancelled or finished timer is never queued
\* again.
THEOREM TimersConsistent ==
  Spec => [](TypeOK /\ CbIffQueued /\ StartNeverWraps /\ DeadStaysDead)
<1>1. Inv => TypeOK /\ CbIffQueued /\ StartNeverWraps /\ DeadStaysDead
  BY DEF Inv, TimerInv, CbIffQueued, DeadStaysDead
<1> QED BY <1>1, InitInv, NextInv, PTL DEF Spec

-----------------------------------------------------------------------------
(* Tickles and the time of a listing *)

Awake == woken \/ \E th \in Threads : pc[th] = "tickle"

\* While the clock runs forward no timer is further away than its period, and a
\* listing uses a time that is past.
ClockInv ==
  backs = 0 =>
    /\ \A t \in made : m_next[t] <= now + m_ms[t]
    /\ \A th \in Threads : pc[th] \in {"list", "expire"} => arg[th].now_ms <= now

\* m_tickled is only set when somebody was told to tickle.
TickleInv ==
  /\ ClockInv
  /\ m_tickled => Awake
  /\ backs = 0 /\ ~rolled => \A t \in m_timers : m_next[t] < promised => Awake

\* addTimer(val, lock) tells its caller to tickle when the timer comes before
\* what was promised, unless somebody was told already.
LEMMA InsertTickles ==
  ASSUME Inv, TickleInv, NEW th \in Threads, NEW t \in Timers, NEW next \in [Timers -> Nat],
         \A s \in Timers \ {t} : next[s] = m_next[s],
         Insert(th, t, next), pc[th] # "tickle", UNCHANGED <<promised, woken, backs, rolled>>
  PROVE  /\ m_tickled' => Awake'
         /\ backs' = 0 /\ ~rolled' => \A s \in m_timers' : next[s] < promised' => Awake'
<1>0. /\ pc \in [Threads -> PC] /\ m_tickled \in BOOLEAN /\ m_timers \subseteq Timers
      /\ promised \in Nat
  BY Zenon DEF Inv, TypeOK
<1> DEFINE timers == m_timers \cup {t}
           front == First(timers, next)
           at_front == front = t /\ ~m_tickled
<1>1. /\ m_timers' = timers /\ m_tickled' = (m_tickled \/ at_front)
      /\ pc' = [pc EXCEPT ![th] = IF at_front THEN "tickle" ELSE "out"]
  BY Zenon DEF Insert
<1>2. front \in timers /\ \A s \in timers \ {front} : Before(next, front, s)
  <2>1. timers \subseteq Timers /\ timers # {} BY <1>0
  <2> QED BY <2>1, FirstExists, Zenon
<1> HIDE DEF front
<1>3. Awake => Awake' BY <1>0, <1>1, Zenon DEF Awake
<1>4. at_front => Awake' BY <1>0, <1>1, Zenon DEF Awake
<1>5. m_tickled => Awake' BY <1>3, Zenon DEF TickleInv
<1>6. ASSUME backs = 0, ~rolled, NEW s \in m_timers', next[s] < promised PROVE Awake'
  <2>1. CASE s # t
    <3>1. s \in m_timers /\ m_next[s] < promised BY <1>0, <1>1, <1>6, <2>1, Zenon
    <3> QED BY <1>3, <1>6, <3>1 DEF TickleInv
  <2>2. CASE s = t /\ front # t
    <3>1. front \in m_timers /\ Before(next, front, t) /\ next[front] = m_next[front]
      BY <1>0, <1>2, <2>2, Zenon
    <3>2. next[front] \in Nat /\ next[t] \in Nat BY <1>0, <3>1
    <3>3. m_next[front] < promised BY <1>0, <1>6, <2>2, <3>1, <3>2, SMTT(30) DEF Before
    <3> QED BY <1>3, <1>6, <3>1, <3>3 DEF TickleInv
  <2>3. CASE front = t
    BY <1>4, <1>5, <2>3
  <2> QED BY <2>1, <2>2, <2>3, Zenon
<1> QED BY <1>1, <1>4, <1>5, <1>6, Zenon

\* Every step keeps the promises of ClockInv.
LEMMA ClockStep ==
  ASSUME Inv, ClockInv, [Next]_vars
  PROVE  ClockInv'
<1>0. /\ now \in Nat /\ pc \in [Threads -> PC] /\ arg \in [Threads -> Arg] /\ backs \in Nat
      /\ m_next \in [Timers -> Nat] /\ m_ms \in [Timers -> Nat] /\ made \subseteq Timers
      /\ Listers \subseteq Threads
  BY Constants DEF Inv, TypeOK, Arg
<1>1. ASSUME UNCHANGED <<made, m_next, m_ms, now, backs>>, NEW th \in Threads,
             \A u \in Threads \ {th} : pc'[u] = pc[u] /\ arg'[u] = arg[u],
             \/ pc'[th] \notin {"list", "expire"}
             \/ pc'[th] = "list" /\ arg'[th].now_ms = now
             \/ pc[th] = "list" /\ arg'[th] = arg[th]
      PROVE  ClockInv'
  <2>1. now <= now BY <1>0
  <2> QED BY <1>1, <2>1 DEF ClockInv
<1>2. ASSUME UNCHANGED thread, UNCHANGED <<made, backs, now, m_next, m_ms>> PROVE ClockInv'
  BY <1>2 DEF thread, ClockInv
<1>3. CASE Tick
  <2>1. now' = now + 1 /\ UNCHANGED <<backs, made, pc, arg, m_next, m_ms>>
    BY <1>3 DEF Tick, thread, timer
  <2>2. ASSUME NEW t \in made, m_next[t] <= now + m_ms[t] PROVE m_next[t] <= now' + m_ms[t]
    BY <1>0, <2>1, <2>2
  <2>3. ASSUME NEW th \in Threads, arg[th].now_ms <= now PROVE arg[th].now_ms <= now'
    <3>1. arg[th].now_ms \in Nat BY <1>0, Constants DEF Arg
    <3> QED BY <1>0, <2>1, <2>3, <3>1
  <2> QED BY <2>1, <2>2, <2>3 DEF ClockInv
<1>4. CASE SetBack
  <2>1. backs' # 0 BY <1>0, <1>4 DEF SetBack
  <2> QED BY <2>1 DEF ClockInv
<1>5. ASSUME NEW t \in Timers, cancel(t) PROVE ClockInv'
  BY <1>2, <1>5 DEF cancel, clock
<1>6. ASSUME NEW t \in Timers, refresh(t) PROVE ClockInv'
  <2>1. /\ m_next' = [m_next EXCEPT ![t] = now + m_ms[t]]
        /\ UNCHANGED <<backs, now, made, pc, arg, m_ms>>
    BY <1>6 DEF refresh, thread, clock
  <2>2. \A s \in made : m_next[s] <= now + m_ms[s] => m_next'[s] <= now + m_ms[s]
    BY <1>0, <2>1, SMTT(20)
  <2> QED BY <2>1, <2>2, SMTT(20) DEF ClockInv
<1>7. ASSUME NEW th \in Threads, NEW t \in Timers, NEW ms \in Periods, NEW rec \in BOOLEAN,
             NewTimer(th, t, ms, rec)
      PROVE  ClockInv'
  <2>1. /\ made' = made \cup {t} /\ m_ms' = [m_ms EXCEPT ![t] = ms]
        /\ m_next' = [m_next EXCEPT ![t] = now + ms] /\ UNCHANGED <<now, backs>>
    BY <1>7 DEF NewTimer, clock
  <2>2. ms \in Nat BY Constants
  <2>3. \A s \in made' : (s \in made => m_next[s] <= now + m_ms[s]) => m_next'[s] <= now + m_ms'[s]
    BY <1>0, <2>1, <2>2
  <2>4. pc'[th] = "insert" /\ \A u \in Threads \ {th} : pc'[u] = pc[u] /\ arg'[u] = arg[u]
    BY <1>0, <1>7, SMTT(20) DEF NewTimer
  <2> QED BY <2>1, <2>3, <2>4 DEF ClockInv
<1>8. ASSUME NEW th \in Threads, addTimer(th) \/ onTimerInsertAtFront(th) PROVE ClockInv'
  <2>1. /\ UNCHANGED <<made, m_next, m_ms, now, backs>> /\ pc'[th] \in {"out", "tickle"}
        /\ \A u \in Threads \ {th} : pc'[u] = pc[u] /\ arg'[u] = arg[u]
    BY <1>0, <1>8, SMTT(20) DEF addTimer, Insert, onTimerInsertAtFront, timer, clock
  <2> QED BY <1>1, <2>1, SMTT(20)
<1>9. ASSUME NEW th \in Threads, NEW t \in Timers, NEW ms \in Periods, NEW f \in BOOLEAN,
             ResetStarts(th, t, ms, f)
      PROVE  ClockInv'
  <2>1. /\ UNCHANGED <<made, m_next, m_ms, now, backs>> /\ pc'[th] = "reset"
        /\ \A u \in Threads \ {th} : pc'[u] = pc[u] /\ arg'[u] = arg[u]
    BY <1>0, <1>9, SMTT(20) DEF ResetStarts, timer, clock
  <2> QED BY <1>1, <2>1, ZenonT(30)
<1>10. ASSUME NEW th \in Threads, reset(th) PROVE ClockInv'
  <2> DEFINE t == arg[th].timer
             ms == arg[th].ms
             start == IF arg[th].from_now THEN now ELSE m_next[t] - m_ms[t]
  <2>1. /\ UNCHANGED <<made, now, backs>> /\ pc'[th] \in {"out", "tickle"}
        /\ \A u \in Threads \ {th} : pc'[u] = pc[u] /\ arg'[u] = arg[u]
    BY <1>0, <1>10, SMTT(20) DEF reset, Insert, clock
  <2>2. CASE UNCHANGED <<m_ms, m_next>> BY <1>1, <2>1, <2>2
  <2>3. CASE m_ms' = [m_ms EXCEPT ![t] = ms] /\ m_next' = [m_next EXCEPT ![t] = start + ms]
    <3>1. t \in made /\ t \in Timers /\ ms \in Nat
      BY <1>0, <1>10 DEF Inv, reset, CallInv, Known, Arg
    <3>2. ASSUME m_next[t] <= now + m_ms[t] PROVE start <= now /\ start \in Nat
      <4>1. m_next[t] \in Nat /\ m_ms[t] \in Nat /\ m_next[t] >= m_ms[t]
        BY <1>0, <3>1 DEF Inv, StartNeverWraps
      <4>2. m_next[t] - m_ms[t] <= now /\ m_next[t] - m_ms[t] \in Nat BY <1>0, <3>2, <4>1
      <4> QED BY <1>0, <4>2
    <3> HIDE DEF t, ms, start
    <3>3. ASSUME backs = 0, NEW s \in made PROVE m_next'[s] <= now + m_ms'[s]
      <4>1. m_next[s] <= now + m_ms[s] BY <3>3 DEF ClockInv
      <4>2. CASE s # t BY <1>0, <2>3, <4>1, <4>2, SMTT(20)
      <4>3. CASE s = t
        <5>1. start + ms <= now + ms BY <1>0, <3>1, <3>2, <4>1, <4>3
        <5> QED BY <1>0, <2>3, <3>1, <4>3, <5>1
      <4> QED BY <4>2, <4>3
    <3> QED BY <2>1, <3>3, SMTT(20) DEF ClockInv
  <2> QED BY <1>10, <2>2, <2>3, ZenonT(30) DEF reset
<1>11. ASSUME NEW th \in Threads, getNextTimer(th) PROVE ClockInv'
  BY <1>2, <1>11 DEF getNextTimer, timer, clock
<1>12. ASSUME NEW th \in Threads, ListReadsClock(th) \/ ListChecksEmpty(th) PROVE ClockInv'
  <2>1. /\ UNCHANGED <<made, m_next, m_ms, now, backs>>
        /\ \A u \in Threads \ {th} : pc'[u] = pc[u] /\ arg'[u] = arg[u]
    BY <1>0, <1>12, SMTT(20) DEF ListReadsClock, ListChecksEmpty, timer, clock
  <2>2. CASE ListReadsClock(th)
    <3>1. pc'[th] = "list" /\ arg'[th].now_ms = now BY <1>0, <2>2, SMTT(20) DEF ListReadsClock, Arg
    <3> QED BY <1>1, <2>1, <3>1
  <2>3. CASE ListChecksEmpty(th)
    <3>1. pc'[th] = "out" \/ (pc[th] = "list" /\ arg'[th] = arg[th]) BY <1>0, <2>3 DEF ListChecksEmpty
    <3> QED BY <1>1, <2>1, <3>1
  <2> QED BY <1>12, <2>2, <2>3
<1>13. ASSUME NEW th \in Threads, listExpiredCb(th) PROVE ClockInv'
  <2> DEFINE now_ms == arg[th].now_ms
  <2>1. /\ UNCHANGED <<made, m_ms, now, backs>> /\ pc[th] = "expire" /\ pc'[th] = "out"
        /\ \A u \in Threads \ {th} : pc'[u] = pc[u] /\ arg'[u] = arg[u]
    BY <1>0, <1>13, SMTT(20) DEF listExpiredCb, clock
  <2>2. \A t \in made : m_next'[t] = m_next[t] \/ m_next'[t] = now_ms + m_ms[t]
    BY <1>0, <1>13 DEF listExpiredCb
  <2>3. now_ms \in Nat BY <1>0, Constants DEF Arg
  <2> HIDE DEF now_ms
  <2>4. ASSUME backs = 0, NEW t \in made PROVE m_next'[t] <= now + m_ms[t]
    <3>1. m_next[t] <= now + m_ms[t] BY <2>4 DEF ClockInv
    <3>2. now_ms <= now BY <2>1, <2>4 DEF ClockInv, now_ms
    <3>3. now_ms + m_ms[t] <= now + m_ms[t] BY <1>0, <2>3, <3>2
    <3> QED BY <2>2, <3>1, <3>3, SMTT(20)
  <2> QED BY <2>1, <2>4, SMTT(20) DEF ClockInv
<1>14. CASE UNCHANGED vars
  BY <1>2, <1>14 DEF vars, clock, timer
<1> QED
  BY <1>0, <1>3, <1>4, <1>5, <1>6, <1>7, <1>8, <1>9, <1>10, <1>11, <1>12, <1>13, <1>14 DEF Next, Call, List

\* Every step keeps TickleInv.
LEMMA TickleStep ==
  ASSUME Inv, TickleInv, [Next]_vars
  PROVE  TickleInv'
<1>0. /\ now \in Nat /\ pc \in [Threads -> PC] /\ arg \in [Threads -> Arg] /\ backs \in Nat
      /\ m_next \in [Timers -> Nat] /\ m_ms \in [Timers -> Nat] /\ made \subseteq Timers
      /\ m_timers \subseteq made /\ Listers \subseteq Threads /\ promised \in Nat
      /\ ClockInv /\ (m_tickled => Awake)
      /\ (backs = 0 /\ ~rolled => \A t \in m_timers : m_next[t] < promised => Awake)
  BY Constants DEF Inv, TypeOK, Arg, TimerInv, Known, TickleInv
<1>1. ClockInv' BY <1>0, ClockStep, SMTT(20)
<1>2. ASSUME Awake => Awake', UNCHANGED <<m_tickled, promised>>, m_timers' \subseteq m_timers,
             backs' = 0 /\ ~rolled' => backs = 0 /\ ~rolled /\ \A t \in m_timers' : m_next[t] <= m_next'[t],
             \A t \in m_timers' : m_next'[t] \in Nat
      PROVE  TickleInv'
  <2>1. ASSUME backs' = 0, ~rolled', NEW t \in m_timers', m_next'[t] < promised PROVE Awake'
    <3>1. t \in m_timers /\ m_next[t] \in Nat /\ m_next'[t] \in Nat /\ m_next[t] <= m_next'[t] BY <1>0, <1>2, <2>1
    <3>2. m_next[t] < promised BY <1>0, <2>1, <3>1
    <3> QED BY <1>0, <1>2, <2>1, <3>1, <3>2
  <2> QED BY <1>0, <1>1, <1>2, <2>1 DEF TickleInv
<1>3. ASSUME Awake => Awake', UNCHANGED <<m_tickled, promised, m_next, rolled, backs>>, m_timers' \subseteq m_timers
      PROVE  TickleInv'
  BY <1>0, <1>1, <1>3 DEF TickleInv
<1>4. CASE Tick
  BY <1>3, <1>4 DEF Tick, timer, previous, sleep, thread, Awake
<1>5. CASE SetBack
  <2>1. backs' # 0 BY <1>0, <1>5 DEF SetBack
  <2>2. m_tickled' => Awake' BY <1>0, <1>5 DEF SetBack, sleep, thread, Awake
  <2> QED BY <1>1, <2>1, <2>2 DEF TickleInv
<1>6. ASSUME NEW t \in Timers, cancel(t) PROVE TickleInv'
  BY <1>3, <1>6 DEF cancel, previous, sleep, thread, clock, Awake
<1>7. ASSUME NEW t \in Timers, refresh(t) PROVE TickleInv'
  <2>1. /\ UNCHANGED <<m_tickled, promised, rolled, backs, m_timers>> /\ (Awake => Awake')
        /\ m_next' = [m_next EXCEPT ![t] = now + m_ms[t]] /\ t \in made
    BY <1>7 DEF refresh, previous, sleep, thread, clock, Awake, Known
  <2>2. backs = 0 => \A s \in m_timers : m_next[s] <= m_next'[s]
    BY <1>0, <2>1 DEF ClockInv
  <2>3. \A s \in m_timers : m_next'[s] \in Nat BY <1>0, <2>1
  <2> QED BY <1>2, <2>1, <2>2, <2>3
<1>8. ASSUME NEW th \in Threads, NEW t \in Timers, NEW ms \in Periods, NEW rec \in BOOLEAN,
             NewTimer(th, t, ms, rec)
      PROVE  TickleInv'
  <2>1. /\ UNCHANGED <<m_tickled, promised, rolled, backs, m_timers, woken>> /\ pc[th] = "out"
        /\ pc' = [pc EXCEPT ![th] = "insert"] /\ t \notin made
        /\ m_next' = [m_next EXCEPT ![t] = now + ms]
    BY <1>8 DEF NewTimer, previous, sleep, clock
  <2>2. Awake => Awake' BY <1>0, <2>1 DEF Awake
  <2>3. \A s \in m_timers : m_next'[s] = m_next[s] BY <1>0, <2>1
  <2>4. \A s \in m_timers : m_next[s] <= m_next'[s] /\ m_next'[s] \in Nat BY <1>0, <2>3
  <2> QED BY <1>2, <2>1, <2>2, <2>4
<1>9. ASSUME NEW th \in Threads, addTimer(th) PROVE TickleInv'
  <2>1. arg[th].timer \in Timers /\ pc[th] = "insert" BY <1>0, <1>9 DEF Inv, CallInv, addTimer
  <2>2. Insert(th, arg[th].timer, m_next) /\ UNCHANGED <<promised, woken, backs, rolled, m_next>>
    BY <1>9, Zenon DEF addTimer, sleep, clock, previous, timer
  <2>3. /\ m_tickled' => Awake'
        /\ backs' = 0 /\ ~rolled' => \A s \in m_timers' : m_next[s] < promised' => Awake'
    BY <1>0, <2>1, <2>2, InsertTickles
  <2> QED BY <1>1, <2>2, <2>3 DEF TickleInv
<1>10. ASSUME NEW th \in Threads, reset(th) PROVE TickleInv'
  <2> DEFINE t == arg[th].timer
             start == IF arg[th].from_now THEN now ELSE m_next[t] - m_ms[t]
  <2>1. /\ t \in Timers /\ pc[th] = "reset" /\ UNCHANGED <<promised, woken, backs, rolled>>
    BY <1>0, <1>10, Zenon DEF Inv, CallInv, Known, reset, sleep, clock, previous
  <2>2. CASE m_cb[t] /\ t \in m_timers
    <3>1. /\ m_next' = [m_next EXCEPT ![t] = start + arg[th].ms] /\ Insert(th, t, m_next')
      BY <1>10, <2>2, Zenon DEF reset
    <3>2. m_next' \in [Timers -> Nat]
      <4>1. Inv' BY NextInv
      <4> QED BY <4>1 DEF Inv, TypeOK
    <3> HIDE DEF t, start
    <3>3. \A s \in Timers \ {t} : m_next'[s] = m_next[s] BY <1>0, <3>1
    <3>4. /\ m_tickled' => Awake'
          /\ backs' = 0 /\ ~rolled' => \A s \in m_timers' : m_next'[s] < promised' => Awake'
      BY <2>1, <3>1, <3>2, <3>3, InsertTickles, Zenon
    <3> QED BY <1>1, <3>4, SMTT(20) DEF TickleInv
  <2>3. CASE ~(m_cb[t] /\ t \in m_timers)
    <3>1. pc' = [pc EXCEPT ![th] = "out"] /\ UNCHANGED <<m_timers, m_tickled, m_next>>
      BY <1>10, <2>3 DEF reset
    <3>2. Awake => Awake' BY <1>0, <2>1, <3>1 DEF Awake
    <3> QED BY <1>3, <2>1, <3>1, <3>2, SMTT(20)
  <2> QED BY <2>2, <2>3
<1>11. ASSUME NEW th \in Threads, onTimerInsertAtFront(th) PROVE TickleInv'
  BY <1>3, <1>11 DEF onTimerInsertAtFront, previous, clock, timer, Awake
<1>12. ASSUME NEW th \in Threads, getNextTimer(th) PROVE TickleInv'
  <2>1. /\ ~m_tickled' /\ UNCHANGED <<m_timers, m_next>>
        /\ promised' = IF m_timers = {} THEN Never ELSE m_next[First(m_timers, m_next)]
    BY <1>12 DEF getNextTimer, timer
  <2>2. ASSUME NEW t \in m_timers PROVE ~(m_next[t] < promised')
    <3>1. m_timers \subseteq Timers /\ m_timers # {} BY <1>0
    <3>2. /\ First(m_timers, m_next) \in m_timers
          /\ \A s \in m_timers \ {First(m_timers, m_next)} : Before(m_next, First(m_timers, m_next), s)
      BY <1>0, <3>1, FirstExists
    <3>3. m_next[t] \in Nat /\ m_next[First(m_timers, m_next)] \in Nat BY <1>0, <3>1, <3>2
    <3>4. t = First(m_timers, m_next) \/ Before(m_next, First(m_timers, m_next), t) BY <3>2
    <3>5. m_next[First(m_timers, m_next)] <= m_next[t] BY <3>3, <3>4 DEF Before
    <3> QED BY <2>1, <3>1, <3>3, <3>5
  <2> QED BY <1>1, <2>1, <2>2 DEF TickleInv
<1>13. ASSUME NEW th \in Threads, ListReadsClock(th) \/ ListChecksEmpty(th)
                 \/ \E t \in Timers, ms \in Periods, f \in BOOLEAN : ResetStarts(th, t, ms, f)
       PROVE  TickleInv'
  <2>1. /\ UNCHANGED <<m_tickled, promised, m_next, rolled, backs, m_timers, woken>>
        /\ pc[th] # "tickle" /\ \A u \in Threads \ {th} : pc'[u] = pc[u]
    BY <1>0, <1>13 DEF ListReadsClock, ListChecksEmpty, ResetStarts, previous, clock, timer, sleep
  <2>2. Awake => Awake' BY <2>1 DEF Awake
  <2> QED BY <1>3, <2>1, <2>2
<1>14. ASSUME NEW th \in Threads, listExpiredCb(th) PROVE TickleInv'
  <2> DEFINE now_ms == arg[th].now_ms
             expireds == Expired(now_ms)
             again == {t \in expireds : m_recurring[t]}
  <2>1. /\ UNCHANGED <<m_tickled, promised, backs, woken>> /\ pc[th] = "expire"
        /\ pc' = [pc EXCEPT ![th] = "out"] /\ rolled' = (rolled \/ detectClockRollover(now_ms))
        /\ m_timers' = (m_timers \ expireds) \cup again
        /\ m_next' = [t \in Timers |-> IF t \in again THEN now_ms + m_ms[t] ELSE m_next[t]]
    BY <1>14, Zenon DEF listExpiredCb, sleep, clock
  <2>2. now_ms \in Nat BY <1>0, Constants DEF Arg
  <2>3. /\ expireds \subseteq m_timers /\ again \subseteq expireds
        /\ ~detectClockRollover(now_ms) => \A t \in expireds : m_next[t] <= now_ms
    BY Zenon DEF Expired
  <2> HIDE DEF now_ms, expireds, again
  <2>4. Awake => Awake' BY <1>0, <2>1 DEF Awake
  <2>5. ASSUME ~detectClockRollover(now_ms), NEW t \in m_timers' PROVE m_next[t] <= m_next'[t]
    <3>1. t \in Timers /\ m_next[t] \in Nat /\ m_ms[t] \in Nat BY <1>0, <2>1, <2>3
    <3>2. t \in again => m_next[t] <= now_ms + m_ms[t] BY <2>2, <2>3, <2>5, <3>1
    <3>3. m_next[t] <= m_next[t] BY <3>1
    <3> QED BY <2>1, <3>1, <3>2, <3>3
  <2>6. ASSUME NEW t \in m_timers' PROVE m_next'[t] \in Nat
    <3>1. t \in Timers /\ now_ms + m_ms[t] \in Nat BY <1>0, <2>1, <2>2, <2>3
    <3> QED BY <1>0, <2>1, <3>1
  <2>7. m_timers' \subseteq m_timers BY <2>1, <2>3
  <2> QED BY <1>2, <2>1, <2>4, <2>5, <2>6, <2>7, ZenonT(30)
<1>15. CASE UNCHANGED vars
  BY <1>3, <1>15 DEF vars, clock, timer, previous, sleep, thread, Awake
<1> QED
  BY <1>0, <1>4, <1>5, <1>6, <1>7, <1>8, <1>9, <1>10, <1>11, <1>12, <1>13, <1>14, <1>15, SMTT(20) DEF Next, Call, List

\* A thread that sleeps until the first timer is due is woken for one that comes
\* earlier, for any timers and threads, as long as the clock runs forward and no
\* rollover is seen.
THEOREM SleepersAreTickled == Spec => []EarlierTimerTickles
<1>1. Init => TickleInv BY DEF Init, TickleInv, ClockInv
<1>2. TickleInv => EarlierTimerTickles BY DEF TickleInv, EarlierTimerTickles, Awake
<1> QED BY <1>1, <1>2, InitInv, NextInv, TickleStep, PTL DEF Spec

\* listExpiredCb hands out what is due, with the time it read, and that time has
\* passed: for any timers, threads and periods.
THEOREM NothingIsEarly == Spec => NeverEarly
<1> DEFINE Early(th, t) ==
      /\ backs = 0 /\ pc[th] = "expire" /\ pc'[th] = "out"
      /\ t \notin m_timers' \/ m_next'[t] # m_next[t]
      /\ ~detectClockRollover(arg[th].now_ms)
<1>1. ASSUME Inv, TickleInv, [Next]_vars, NEW th \in Listers, NEW t \in m_timers, Early(th, t)
      PROVE  m_next[t] <= now
  <2>0. /\ th \in Threads /\ pc \in [Threads -> PC] /\ m_timers \subseteq Timers /\ m_timers \subseteq Known
        /\ m_next \in [Timers -> Nat] /\ now \in Nat /\ arg[th].now_ms \in Nat /\ arg[th].now_ms <= now
    <3>1. th \in Threads /\ MaxTime \in Nat BY Constants
    <3> QED BY <1>1, <3>1 DEF Inv, TypeOK, TimerInv, TickleInv, ClockInv
  <2>1. pc'[th] # pc[th] BY <1>1
  <2>2. listExpiredCb(th)
    <3>1. ~UNCHANGED pc BY <2>1
    <3>2. ~(Tick \/ SetBack \/ \E s \in Timers : cancel(s) \/ refresh(s)) /\ ~UNCHANGED vars
      <4>1. Tick \/ SetBack \/ UNCHANGED vars => UNCHANGED pc BY Zenon DEF Tick, SetBack, thread, vars
      <4>2. \A s \in Timers : cancel(s) \/ refresh(s) => UNCHANGED pc BY Zenon DEF cancel, refresh, thread
      <4> QED BY <3>1, <4>1, <4>2, Zenon
    <3>3. ASSUME NEW u \in Threads, Call(u) \/ List(u)
          PROVE  pc' = pc \/ \E l \in PC : pc' = [pc EXCEPT ![u] = l]
      <4>1. {"out", "insert", "tickle", "reset", "list", "expire"} \subseteq PC BY DEF PC
      <4>2. \A s \in Timers, ms \in Periods, b \in BOOLEAN : NewTimer(u, s, ms, b) => pc' = [pc EXCEPT ![u] = "insert"]
        BY Zenon DEF NewTimer
      <4>3. \A s, next : Insert(u, s, next) => pc' = [pc EXCEPT ![u] = "tickle"] \/ pc' = [pc EXCEPT ![u] = "out"]
        BY Zenon DEF Insert
      <4>4. addTimer(u) => pc' = [pc EXCEPT ![u] = "tickle"] \/ pc' = [pc EXCEPT ![u] = "out"]
        BY <4>3, Zenon DEF addTimer
      <4>5. onTimerInsertAtFront(u) => pc' = [pc EXCEPT ![u] = "out"] BY Zenon DEF onTimerInsertAtFront
      <4>6. \A s \in Timers, ms \in Periods, b \in BOOLEAN : ResetStarts(u, s, ms, b) =>
              pc' = pc \/ pc' = [pc EXCEPT ![u] = "reset"]
        BY Zenon DEF ResetStarts
      <4>7. reset(u) => \/ pc' = pc \/ pc' = [pc EXCEPT ![u] = "tickle"] \/ pc' = [pc EXCEPT ![u] = "out"]
        BY <4>3, Zenon DEF reset
      <4>8. getNextTimer(u) => pc' = pc BY Zenon DEF getNextTimer, thread
      <4>9. ListReadsClock(u) => pc' = [pc EXCEPT ![u] = "list"] BY Zenon DEF ListReadsClock
      <4>10. ListChecksEmpty(u) => pc' = [pc EXCEPT ![u] = "out"] \/ pc' = [pc EXCEPT ![u] = "expire"]
        BY Zenon DEF ListChecksEmpty
      <4>11. listExpiredCb(u) => pc' = [pc EXCEPT ![u] = "out"] BY Zenon DEF listExpiredCb
      <4>12. \/ pc' = pc \/ pc' = [pc EXCEPT ![u] = "out"] \/ pc' = [pc EXCEPT ![u] = "insert"]
             \/ pc' = [pc EXCEPT ![u] = "tickle"] \/ pc' = [pc EXCEPT ![u] = "reset"]
             \/ pc' = [pc EXCEPT ![u] = "list"] \/ pc' = [pc EXCEPT ![u] = "expire"]
        BY <3>3, <4>2, <4>4, <4>5, <4>6, <4>7, <4>8, <4>9, <4>10, <4>11, Zenon DEF Call, List
      <4> QED BY <4>1, <4>12, Zenon
    <3>4. \A u \in Threads : Call(u) \/ List(u) => u = th BY <2>0, <2>1, <3>3, Zenon
    <3>5. ~Call(th) /\ ~ListReadsClock(th) /\ ~ListChecksEmpty(th)
      BY <1>1 DEF Call, NewTimer, addTimer, onTimerInsertAtFront, ResetStarts, reset, getNextTimer,
                  ListReadsClock, ListChecksEmpty
    <3>6. Listers \subseteq Threads BY Constants
    <3>7. Next BY <1>1, <3>2
    <3> QED BY <3>2, <3>4, <3>5, <3>6, <3>7 DEF Next, List
  <2>3. t \in Expired(arg[th].now_ms)
    BY <1>1, <2>0, <2>2, Zenon DEF listExpiredCb
  <2>4. m_next[t] <= arg[th].now_ms BY <1>1, <2>3 DEF Expired
  <2> DEFINE due == m_next[t]
             read == arg[th].now_ms
  <2>5. due \in Nat /\ read \in Nat /\ now \in Nat /\ due <= read /\ read <= now
    BY <1>1, <2>0, <2>4, Zenon
  <2> HIDE DEF due, read
  <2>6. due <= now BY <2>5
  <2> QED BY <2>6 DEF due
<1>2. Inv /\ TickleInv /\ [Next]_vars =>
        [\A th \in Listers, t \in m_timers :
           /\ backs = 0 /\ pc[th] = "expire" /\ pc'[th] = "out"
           /\ t \notin m_timers' \/ m_next'[t] # m_next[t]
           /\ ~detectClockRollover(arg[th].now_ms)
           => m_next[t] <= now]_vars
  BY <1>1, Zenon
<1>3. Init => TickleInv BY DEF Init, TickleInv, ClockInv
<1> QED BY <1>2, <1>3, InitInv, NextInv, TickleStep, PTL DEF Spec, NeverEarly

-----------------------------------------------------------------------------
(* The empty set in listExpiredCb *)

\* A timer that is neither cancelled nor handed out has its callback, and who is
\* between the two locks still finds a timer or has been overtaken.
EmptyInv ==
  /\ \A t \in made \ (cancelled \cup done) : m_cb[t]
  /\ \A th \in Threads : pc[th] = "expire" => m_timers # {} \/ th \in overtaken

\* Every step keeps EmptyInv.
LEMMA EmptyStep ==
  ASSUME Inv, EmptyInv, [Next]_vars
  PROVE  EmptyInv'
<1>0. /\ pc \in [Threads -> PC] /\ m_cb \in [Timers -> BOOLEAN] /\ made \subseteq Timers
      /\ m_timers \subseteq Timers /\ Listers \subseteq Threads
  BY Constants DEF Inv, TypeOK
<1>1. ASSUME UNCHANGED <<made, cancelled, done, m_cb, overtaken>>, m_timers \subseteq m_timers',
             \A th \in Threads : pc'[th] = "expire" => pc[th] = "expire" \/ m_timers # {}
      PROVE  EmptyInv'
  BY <1>1 DEF EmptyInv
<1>2. CASE Tick \/ SetBack
  BY <1>2, <1>1 DEF Tick, SetBack, timer, thread, EmptyInv
<1>3. ASSUME NEW t \in Timers, cancel(t) PROVE EmptyInv'
  <2>1. /\ m_cb' = [m_cb EXCEPT ![t] = FALSE] /\ overtaken' = overtaken \cup BetweenLocks
        /\ cancelled' = cancelled \cup {t} /\ UNCHANGED <<made, done, pc>>
    BY <1>3, SMTT(20) DEF cancel, thread
  <2> QED BY <1>0, <2>1 DEF EmptyInv, BetweenLocks
<1>4. ASSUME NEW t \in Timers, refresh(t) PROVE EmptyInv'
  BY <1>1, <1>4 DEF refresh, thread, EmptyInv
<1>5. ASSUME NEW th \in Threads, NEW t \in Timers, NEW ms \in Periods, NEW rec \in BOOLEAN,
             NewTimer(th, t, ms, rec)
      PROVE  EmptyInv'
  <2>1. /\ m_cb' = [m_cb EXCEPT ![t] = TRUE] /\ made' = made \cup {t}
        /\ pc' = [pc EXCEPT ![th] = "insert"]
        /\ UNCHANGED <<m_timers, cancelled, done, overtaken>>
    BY <1>5 DEF NewTimer
  <2> QED BY <1>0, <2>1 DEF EmptyInv
<1>6. ASSUME NEW th \in Threads, addTimer(th) \/ reset(th) PROVE EmptyInv'
  <2>1. /\ UNCHANGED <<made, cancelled, done, m_cb, overtaken>> /\ m_timers \subseteq m_timers'
        /\ \A u \in Threads : pc'[u] = "expire" => pc[u] = "expire"
    BY <1>0, <1>6 DEF addTimer, reset, Insert, timer
  <2> QED BY <1>1, <2>1
<1>7. ASSUME NEW th \in Threads, onTimerInsertAtFront(th) \/ getNextTimer(th) \/ ListReadsClock(th)
               \/ ListChecksEmpty(th)
               \/ \E t \in Timers, ms \in Periods, f \in BOOLEAN : ResetStarts(th, t, ms, f)
      PROVE  EmptyInv'
  <2>1. /\ UNCHANGED <<made, cancelled, done, m_cb, overtaken, m_timers>>
        /\ \A u \in Threads : pc'[u] = "expire" => pc[u] = "expire" \/ m_timers # {}
    BY <1>0, <1>7 DEF onTimerInsertAtFront, getNextTimer, ListReadsClock, ListChecksEmpty, ResetStarts, timer, thread
  <2> QED BY <1>1, <2>1, Zenon
<1>8. ASSUME NEW th \in Threads, listExpiredCb(th) PROVE EmptyInv'
  <2> DEFINE expireds == Expired(arg[th].now_ms)
             again == {t \in expireds : m_recurring[t]}
  <2>1. /\ m_timers' = (m_timers \ expireds) \cup again /\ done' = done \cup (expireds \ again)
        /\ m_cb' = [t \in Timers |-> IF t \in expireds \ again THEN FALSE ELSE m_cb[t]]
        /\ UNCHANGED <<made, cancelled>> /\ pc[th] = "expire" /\ pc' = [pc EXCEPT ![th] = "out"]
        /\ overtaken' = (IF expireds = again THEN overtaken ELSE overtaken \cup BetweenLocks) \ {th}
    BY <1>8, Zenon DEF listExpiredCb
  <2>2. expireds \subseteq m_timers /\ again \subseteq expireds BY DEF Expired
  <2> HIDE DEF expireds, again
  <2>3. \A t \in made \ (cancelled \cup done') : m_cb'[t] BY <1>0, <2>1, <2>2 DEF EmptyInv
  <2>4. ASSUME NEW u \in Threads, pc'[u] = "expire" PROVE m_timers' # {} \/ u \in overtaken'
    <3>1. u # th /\ pc[u] = "expire" BY <1>0, <2>1, <2>4
    <3>2. CASE expireds = again
      <4>1. m_timers' = m_timers /\ overtaken' = overtaken \ {th} BY <2>1, <2>2, <3>2
      <4> QED BY <3>1, <4>1 DEF EmptyInv
    <3>3. CASE expireds # again
      <4>1. overtaken' = (overtaken \cup BetweenLocks) \ {th} BY <2>1, <3>3
      <4> QED BY <3>1, <4>1 DEF BetweenLocks
    <3> QED BY <3>2, <3>3
  <2> QED BY <2>1, <2>3, <2>4, Zenon DEF EmptyInv
<1>9. CASE UNCHANGED vars
  BY <1>9 DEF vars, timer, thread, EmptyInv
<1> QED
  BY <1>0, <1>2, <1>3, <1>4, <1>5, <1>6, <1>7, <1>8, <1>9 DEF Next, Call, List

\* listExpiredCb comes to an empty set after its check only if a timer was taken
\* out after that check, by a cancel() or by another thread's listExpiredCb: for
\* any timers and threads.
THEOREM EmptyBeginExplained == Spec => []EmptyBeginNeedsRemoval
<1>1. Init => EmptyInv BY DEF Init, EmptyInv
<1>2. Inv /\ EmptyInv => EmptyBeginNeedsRemoval
  BY DEF Inv, EmptyInv, EmptyBeginNeedsRemoval, BetweenLocks, TimerInv, CbIffQueued, Known
<1> QED BY <1>1, <1>2, InitInv, NextInv, EmptyStep, PTL DEF Spec
=============================================================================
