----------------------------- MODULE WakeSource -----------------------------
(***************************************************************************)
(* What the scheduler relies on when fibers wait for events, and what the  *)
(* event table promises: a set of registrations, and a count of them that  *)
(* falls only after the waiter has been queued, so that whoever reads a    *)
(* count of 0 and then an empty queue has missed nobody                    *)
(* (IOManager::stopping, iomanager.cpp:249-252).                           *)
(***************************************************************************)
EXTENDS Naturals, FiniteSets

CONSTANTS Places,    \* what can be waited for
          Agents     \* threads that wake waiters

VARIABLES waiting,   \* the registrations
          waking,    \* agents that have queued a waiter and not yet counted it
          m_pendingEventCount

vars == <<waiting, waking, m_pendingEventCount>>

Init == waiting = {} /\ waking = {} /\ m_pendingEventCount = 0

Register(x) ==
  /\ m_pendingEventCount' = m_pendingEventCount + 1
  /\ x \notin waiting /\ waiting' = waiting \cup {x}
  /\ UNCHANGED waking

Withdraw(x) ==
  /\ m_pendingEventCount' = m_pendingEventCount - 1
  /\ x \in waiting /\ waiting' = waiting \ {x}
  /\ UNCHANGED waking

Wake(a, x) ==
  /\ UNCHANGED m_pendingEventCount
  /\ a \notin waking /\ waking' = waking \cup {a}
  /\ x \in waiting /\ waiting' = waiting \ {x}

Count(a) ==
  /\ m_pendingEventCount' = m_pendingEventCount - 1
  /\ a \in waking /\ waking' = waking \ {a}
  /\ UNCHANGED waiting

Next ==
  \/ \E x \in Places : Register(x) \/ Withdraw(x)
  \/ \E a \in Agents, x \in Places : Wake(a, x)
  \/ \E a \in Agents : Count(a)

Spec == Init /\ [][Next]_vars

TypeOK ==
  /\ waiting \subseteq Places /\ waking \subseteq Agents
  /\ m_pendingEventCount \in Nat

\* The count is the number of registrations and of wake-ups under way.
PendingExact ==
  m_pendingEventCount = Cardinality(waiting) + Cardinality(waking)
=============================================================================
