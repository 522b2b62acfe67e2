---------------------------- MODULE TimerManager ----------------------------
(***************************************************************************)
(* cool::TimerManager and cool::Timer (timer.h, timer.cpp).                *)
(*                                                                         *)
(* m_timers is a std::set ordered by m_next and then by address; it is a   *)
(* set of timers here, and Before is its order.  A call that holds m_mutex *)
(* for writing is one action.  What the code does before it takes the lock *)
(* or after it gives it up (reading the clock, the first look at m_timers, *)
(* the tickle) is an action of its own, so other threads run in between.   *)
(***************************************************************************)
EXTENDS Naturals, FiniteSets

CONSTANTS Timers,      \* the Timer objects, named by address
          Threads,     \* threads that call addTimer, reset and getNextTimer
          Listers,     \* the threads among them that call listExpiredCb
          Periods,     \* the ms arguments
          Hour,        \* 60 * 60 * 1000 ms, the rollover threshold
          Epoch,       \* the clock when the manager is made
          MaxTime,     \* bound: the clock
          MaxBack,     \* bound: how often the clock is set back
          MaxChanges   \* bound: refresh and reset calls

ASSUME TimersAssumption ==
  /\ Timers \subseteq Nat /\ Periods \subseteq Nat /\ Listers \subseteq Threads
ASSUME ClockAssumption ==
  /\ Hour \in Nat /\ Epoch \in Nat /\ MaxTime \in Nat /\ MaxBack \in Nat
  /\ MaxChanges \in Nat
  /\ 2 * Hour <= Epoch /\ Epoch <= MaxTime   \* GetCurrentMS is far from 1970

VARIABLES
  now,               \* GetCurrentMS()
  backs,             \* how often the clock was set back
  m_timers,
  m_next, m_ms, m_recurring,
  m_cb,              \* is the timer's m_cb set?
  m_tickled, m_previous_time,
  pc,                \* what each thread is doing
  arg,               \* the locals of its call
  made,              \* timers constructed so far
  cancelled,         \* history: timers whose cancel() returned true
  done,              \* history: one-shot timers that were handed out
  overtaken,         \* history: threads since whose check a timer was taken out
  promised,          \* history: the m_next the last getNextTimer was based on
  woken,             \* history: onTimerInsertAtFront was called since
  rolled,            \* history: detectClockRollover has returned true
  changes, failed

clock  == <<now, backs>>
timer  == <<m_next, m_ms, m_recurring, m_cb>>
thread == <<pc, arg>>
previous == <<m_previous_time, rolled>>
sleep  == <<promised, woken>>
vars == <<clock, m_timers, timer, m_tickled, previous, thread, made,
          cancelled, done, overtaken, sleep, changes, failed>>

Never == MaxTime + 10000  \* ~0ull: no timer
PC == {"out", "insert", "tickle", "reset", "list", "expire"}
NoArg == [timer |-> 0, ms |-> 0, from_now |-> FALSE, now_ms |-> 0]

Init ==
  /\ now = Epoch /\ backs = 0
  /\ m_timers = {}
  /\ m_next = [t \in Timers |-> 0] /\ m_ms = [t \in Timers |-> 0]
  /\ m_recurring = [t \in Timers |-> FALSE] /\ m_cb = [t \in Timers |-> FALSE]
  /\ m_tickled = FALSE /\ m_previous_time = Epoch /\ rolled = FALSE
  /\ pc = [th \in Threads |-> "out"] /\ arg = [th \in Threads |-> NoArg]
  /\ made = {} /\ cancelled = {} /\ done = {} /\ overtaken = {}
  /\ promised = Never /\ woken = FALSE
  /\ changes = 0 /\ failed = "no"

-----------------------------------------------------------------------------
(* The clock: it advances, and it may be set back *)

Tick ==
  /\ now < MaxTime /\ now' = now + 1
  /\ UNCHANGED <<backs, m_timers, timer, m_tickled, previous, thread,
                 made, cancelled, done, overtaken, sleep, changes, failed>>

SetBack ==
  /\ backs < MaxBack /\ backs' = backs + 1
  /\ \E n \in Epoch - Hour .. now : now' = n
  /\ UNCHANGED <<m_timers, timer, m_tickled, previous, thread, made,
                 cancelled, done, overtaken, sleep, changes, failed>>

-----------------------------------------------------------------------------
(* addTimer, cancel, refresh, reset *)

\* Timer::Comparator.
Before(next, s, t) == next[s] < next[t] \/ (next[s] = next[t] /\ s < t)
First(S, next) == CHOOSE t \in S : \A s \in S \ {t} : Before(next, t, s)

\* The Timer constructor, which reads the clock before addTimer takes the lock.
NewTimer(th, t, ms, recurring) ==
  /\ pc[th] = "out" /\ t \notin made
  /\ made' = made \cup {t}
  /\ m_ms' = [m_ms EXCEPT ![t] = ms]
  /\ m_next' = [m_next EXCEPT ![t] = now + ms]
  /\ m_recurring' = [m_recurring EXCEPT ![t] = recurring]
  /\ m_cb' = [m_cb EXCEPT ![t] = TRUE]
  /\ pc' = [pc EXCEPT ![th] = "insert"]
  /\ arg' = [arg EXCEPT ![th].timer = t]
  /\ UNCHANGED <<clock, m_timers, m_tickled, previous, cancelled, done, overtaken,
                 sleep, changes, failed>>

\* addTimer(val, lock): the caller is told to tickle when val is the new first
\* timer and nobody was told since the last getNextTimer.
Insert(th, t, next) ==
  LET timers   == m_timers \cup {t}
      at_front == First(timers, next) = t /\ ~m_tickled
  IN /\ m_timers' = timers
     /\ m_tickled' = (m_tickled \/ at_front)
     /\ pc' = [pc EXCEPT ![th] = IF at_front THEN "tickle" ELSE "out"]
     /\ arg' = [arg EXCEPT ![th] = NoArg]

addTimer(th) ==
  /\ pc[th] = "insert"
  /\ Insert(th, arg[th].timer, m_next)
  /\ UNCHANGED <<clock, timer, previous, made, cancelled, done, overtaken,
                 sleep, changes, failed>>

onTimerInsertAtFront(th) ==
  /\ pc[th] = "tickle"
  /\ woken' = TRUE
  /\ pc' = [pc EXCEPT ![th] = "out"]
  /\ UNCHANGED <<clock, m_timers, timer, m_tickled, previous, arg, made,
                 cancelled, done, overtaken, promised, changes, failed>>

\* The user has the pointer once addTimer has inserted the timer.
Known == {t \in made : \A th \in Threads : ~(pc[th] = "insert" /\ arg[th].timer = t)}

\* The threads that have looked at m_timers and wait for the write lock.
BetweenLocks == {th \in Threads : pc[th] = "expire"}

\* cancel() on a timer without callback returns false and changes nothing.
\* Otherwise it erases what find() returns, and erasing end() is an error.
cancel(t) ==
  /\ t \in Known /\ m_cb[t]
  /\ m_cb' = [m_cb EXCEPT ![t] = FALSE]
  /\ failed' = IF t \in m_timers THEN "no" ELSE "erase"
  /\ m_timers' = m_timers \ {t}
  /\ cancelled' = cancelled \cup {t} /\ overtaken' = overtaken \cup BetweenLocks
  /\ UNCHANGED <<clock, m_next, m_ms, m_recurring, m_tickled, previous,
                 thread, made, done, sleep, changes>>

refresh(t) ==
  /\ t \in Known /\ m_cb[t] /\ t \in m_timers
  /\ changes < MaxChanges /\ changes' = changes + 1
  /\ m_next' = [m_next EXCEPT ![t] = now + m_ms[t]]
  /\ UNCHANGED <<clock, m_timers, m_ms, m_recurring, m_cb, m_tickled,
                 previous, thread, made, cancelled, done, overtaken, sleep, failed>>

\* reset() first compares m_ms, without the lock.
ResetStarts(th, t, ms, from_now) ==
  /\ pc[th] = "out" /\ t \in Known
  /\ ms # m_ms[t] \/ from_now
  /\ changes < MaxChanges /\ changes' = changes + 1
  /\ pc' = [pc EXCEPT ![th] = "reset"]
  /\ arg' = [arg EXCEPT ![th] = [timer |-> t, ms |-> ms, from_now |-> from_now,
                                 now_ms |-> 0]]
  /\ UNCHANGED <<clock, m_timers, timer, m_tickled, previous, made,
                 cancelled, done, overtaken, sleep, failed>>

reset(th) ==
  LET t     == arg[th].timer
      ms    == arg[th].ms
      start == IF arg[th].from_now THEN now ELSE m_next[t] - m_ms[t]
  IN /\ pc[th] = "reset"
     /\ IF m_cb[t] /\ t \in m_timers
          THEN /\ m_ms' = [m_ms EXCEPT ![t] = ms]
               /\ m_next' = [m_next EXCEPT ![t] = start + ms]
               /\ Insert(th, t, m_next')
          ELSE /\ pc' = [pc EXCEPT ![th] = "out"]
               /\ arg' = [arg EXCEPT ![th] = NoArg]
               /\ UNCHANGED <<m_timers, m_tickled, m_ms, m_next>>
     /\ UNCHANGED <<clock, m_recurring, m_cb, previous, made,
                    cancelled, done, overtaken, sleep, changes, failed>>

-----------------------------------------------------------------------------
(* getNextTimer and listExpiredCb *)

\* Mutant: m_tickled is not cleared.
getNextTimerTickled(th) ==
  /\ pc[th] = "out"
  /\ promised' = IF m_timers = {} THEN Never ELSE m_next[First(m_timers, m_next)]
  /\ woken' = FALSE
  /\ UNCHANGED <<clock, m_timers, timer, m_tickled, previous, thread,
                 made, cancelled, done, overtaken, changes, failed>>

\* The caller sleeps until the first timer is due: until "promised".
getNextTimer(th) ==
  /\ pc[th] = "out"
  /\ m_tickled' = FALSE
  /\ promised' = IF m_timers = {} THEN Never ELSE m_next[First(m_timers, m_next)]
  /\ woken' = FALSE
  /\ UNCHANGED <<clock, m_timers, timer, previous, thread, made,
                 cancelled, done, overtaken, changes, failed>>

ListReadsClock(th) ==
  /\ pc[th] = "out"
  /\ pc' = [pc EXCEPT ![th] = "list"]
  /\ arg' = [arg EXCEPT ![th].now_ms = now]
  /\ UNCHANGED <<clock, m_timers, timer, m_tickled, previous, made,
                 cancelled, done, overtaken, sleep, changes, failed>>

\* Mutant: the check is missing.
ListSkipsCheck(th) ==
  /\ pc[th] = "list"
  /\ pc' = [pc EXCEPT ![th] = "expire"]
  /\ UNCHANGED <<clock, m_timers, timer, m_tickled, previous, made,
                 cancelled, done, overtaken, sleep, changes, failed, arg>>

ListChecksEmpty(th) ==
  /\ pc[th] = "list"
  /\ IF m_timers = {}
       THEN pc' = [pc EXCEPT ![th] = "out"] /\ arg' = [arg EXCEPT ![th] = NoArg]
       ELSE pc' = [pc EXCEPT ![th] = "expire"] /\ UNCHANGED arg
  /\ UNCHANGED <<clock, m_timers, timer, m_tickled, previous, made,
                 cancelled, done, overtaken, sleep, changes, failed>>

detectClockRollover(now_ms) == now_ms < m_previous_time - Hour

\* Mutants: lower_bound alone, and one position too far.
ExpiredBefore(now_ms) ==
  {t \in m_timers : detectClockRollover(now_ms) \/ m_next[t] < now_ms}
ExpiredAfter(now_ms) ==
  {t \in m_timers : detectClockRollover(now_ms) \/ m_next[t] <= now_ms + 1}

\* Everything is expired after a rollover, else what is due at now_ms.
Expired(now_ms) ==
  {t \in m_timers : detectClockRollover(now_ms) \/ m_next[t] <= now_ms}

\* Mutant: one-shot timers keep their callback.
listExpiredKeepsCb(th) ==
  LET now_ms   == arg[th].now_ms
      expireds == Expired(now_ms)
      again    == {t \in expireds : m_recurring[t]}
  IN /\ pc[th] = "expire"
     /\ pc' = [pc EXCEPT ![th] = "out"] /\ arg' = [arg EXCEPT ![th] = NoArg]
     /\ m_previous_time' = now_ms /\ rolled' = (rolled \/ detectClockRollover(now_ms))
     /\ m_timers' = (m_timers \ expireds) \cup again
     /\ m_next' = [t \in Timers |-> IF t \in again THEN now_ms + m_ms[t] ELSE m_next[t]]
     /\ done' = done \cup (expireds \ again)
     /\ overtaken' = (IF expireds = again THEN overtaken ELSE overtaken \cup BetweenLocks) \ {th}
     /\ UNCHANGED <<clock, m_ms, m_recurring, m_cb, m_tickled, made, cancelled,
                    sleep, changes, failed>>

\* The part under the write lock.  m_timers may have become empty since the
\* check; the code dereferences begin() all the same.
listExpiredCb(th) ==
  LET now_ms   == arg[th].now_ms
      expireds == Expired(now_ms)
      again    == {t \in expireds : m_recurring[t]}
  IN /\ pc[th] = "expire"
     /\ pc' = [pc EXCEPT ![th] = "out"] /\ arg' = [arg EXCEPT ![th] = NoArg]
     /\ m_previous_time' = now_ms /\ rolled' = (rolled \/ detectClockRollover(now_ms))
     /\ failed' = IF m_timers = {} /\ ~detectClockRollover(now_ms) THEN "begin" ELSE "no"
     /\ m_timers' = (m_timers \ expireds) \cup again
     /\ m_next' = [t \in Timers |-> IF t \in again THEN now_ms + m_ms[t] ELSE m_next[t]]
     /\ m_cb' = [t \in Timers |-> IF t \in expireds \ again THEN FALSE ELSE m_cb[t]]
     /\ done' = done \cup (expireds \ again)
     /\ overtaken' = (IF expireds = again THEN overtaken ELSE overtaken \cup BetweenLocks) \ {th}
     /\ UNCHANGED <<clock, m_ms, m_recurring, m_tickled, made, cancelled,
                    sleep, changes>>

-----------------------------------------------------------------------------
Call(th) ==
  \/ (\E t \in Timers, ms \in Periods, rec \in BOOLEAN : NewTimer(th, t, ms, rec))
  \/ addTimer(th) \/ onTimerInsertAtFront(th)
  \/ (\E t \in Timers, ms \in Periods, f \in BOOLEAN : ResetStarts(th, t, ms, f))
  \/ reset(th) \/ getNextTimer(th)

List(th) == ListReadsClock(th) \/ ListChecksEmpty(th) \/ listExpiredCb(th)

Alive == failed = "no"

Next ==
  /\ Alive
  /\ \/ Tick \/ SetBack
     \/ (\E t \in Timers : cancel(t) \/ refresh(t))
     \/ (\E th \in Threads : Call(th))
     \/ (\E th \in Listers : List(th))

Spec == Init /\ [][Next]_vars

\* The clock advances, calls that were begun are finished, and the idle threads
\* keep calling listExpiredCb.
FairSpec ==
  /\ Spec /\ WF_vars(Alive /\ Tick)
  /\ \A th \in Threads :
       WF_vars(Alive /\ (addTimer(th) \/ onTimerInsertAtFront(th) \/ reset(th)))
  /\ \A th \in Listers :
       /\ SF_vars(Alive /\ ListReadsClock(th))
       /\ WF_vars(Alive /\ (ListChecksEmpty(th) \/ listExpiredCb(th)))

-----------------------------------------------------------------------------
(* Properties *)

TypeOK ==
  /\ now \in 0 .. MaxTime /\ backs \in 0 .. MaxBack
  /\ m_timers \subseteq Timers
  /\ m_next \in [Timers -> Nat] /\ m_ms \in [Timers -> Nat]
  /\ m_recurring \in [Timers -> BOOLEAN] /\ m_cb \in [Timers -> BOOLEAN]
  /\ m_tickled \in BOOLEAN /\ m_previous_time \in 0 .. MaxTime /\ rolled \in BOOLEAN
  /\ pc \in [Threads -> PC]
  /\ arg \in [Threads -> [timer: Nat, ms: Nat, from_now: BOOLEAN,
                          now_ms: 0 .. MaxTime]]
  /\ made \subseteq Timers /\ cancelled \subseteq Timers
  /\ done \subseteq Timers /\ overtaken \subseteq Threads
  /\ promised \in Nat /\ woken \in BOOLEAN
  /\ changes \in 0 .. MaxChanges /\ failed \in {"no", "begin", "erase"}

\* A timer the user can name has its callback exactly as long as it is in
\* m_timers.  cancel() relies on it: it erases the result of find() without
\* looking at it (timer.cpp:39-40).
CbIffQueued == \A t \in Known : m_cb[t] <=> t \in m_timers

\* reset() computes m_next - m_ms on uint64_t (timer.cpp:78): it never wraps,
\* whatever order of resets, refreshes, expiries and clock changes came before.
StartNeverWraps == \A t \in made : m_next[t] >= m_ms[t]

\* A timer that was cancelled, or a one-shot timer that was handed out, never
\* comes back, not even through a reset() that began before.
DeadStaysDead == m_timers \cap (cancelled \cup done) = {}

\* A thread that computed its sleep from getNextTimer is woken when an earlier
\* timer arrives: the tickle was sent, or its sender is about to send it.  Held
\* as long as the clock is not set back and no rollover is seen; a lister that
\* waits for the lock for more than an hour sees one too (timer.cpp:178-185).
EarlierTimerTickles ==
  backs = 0 /\ ~rolled =>
    \A t \in m_timers :
      m_next[t] < promised => woken \/ \E th \in Threads : pc[th] = "tickle"

\* No callback is handed out before its time while the clock runs forward, even
\* though listExpiredCb uses a time it read before it had the lock; unless that
\* time is more than an hour older than that of the listing before it.
NeverEarly ==
  [][\A th \in Listers, t \in m_timers :
       /\ backs = 0 /\ pc[th] = "expire" /\ pc'[th] = "out"
       /\ t \notin m_timers' \/ m_next'[t] # m_next[t]
       /\ ~detectClockRollover(arg[th].now_ms)
       => m_next[t] <= now]_vars

\* Every timer that is due is handed out, unless it is cancelled or moved.
DueTimersFire ==
  \A t \in Timers :
    t \in m_timers /\ m_next[t] <= now ~> ~(t \in m_timers /\ m_next[t] <= now)

\* listExpiredCb looks for an empty m_timers under one lock and dereferences
\* begin() under the next (timer.cpp:147, 154).  A call that is about to do so on
\* an empty set has been overtaken: a cancel() or the listExpiredCb of another
\* thread has taken a timer out after this call's look.  And no timer that is
\* neither cancelled nor handed out is missing then, unless its addTimer has not
\* had the lock yet.
EmptyBeginNeedsRemoval ==
  \A th \in BetweenLocks :
    m_timers = {} =>
      /\ th \in overtaken
      /\ \A t \in made \ (cancelled \cup done) :
           \E u \in Threads : pc[u] = "insert" /\ arg[u].timer = t
=============================================================================
