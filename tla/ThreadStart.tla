---------------------------- MODULE ThreadStart -----------------------------
(***************************************************************************)
(* A Thread object (src/thread.cpp): its constructor, which starts the     *)
(* thread and waits on m_semaphore, run, which takes from the object what  *)
(* it needs and notifies, join and the destructor.  The owner may drop the *)
(* object as soon as it has it, whether the thread has ended or not.       *)
(***************************************************************************)
EXTENDS Naturals

VARIABLES
  owner,        \* where the thread that owns the object is
  runner,       \* where the new one is
  m_semaphore, m_thread,
  m_cb, m_id,   \* is the callback still in the object, is the id known
  interrupted,  \* a signal has ended the constructor's sem_wait
  wild          \* run has used the object after its destructor
vars == <<owner, runner, m_semaphore, m_thread, m_cb, m_id, interrupted, wild>>

Init ==
  /\ owner = "none" /\ runner = "none" /\ m_semaphore = 0 /\ m_thread = FALSE
  /\ m_cb = TRUE /\ m_id = FALSE /\ interrupted = FALSE /\ wild = FALSE

----------------------------------------------------------------------------
(* The owner *)

\* pthread_create; if it fails the constructor throws, and there is no object
Construct ==
  /\ owner = "none"
  /\ \/ owner' = "wait" /\ runner' = "start" /\ m_thread' = TRUE
     \/ owner' = "threw" /\ UNCHANGED <<runner, m_thread>>
  /\ UNCHANGED <<m_semaphore, m_cb, m_id, interrupted, wild>>

wait ==
  /\ owner = "wait" /\ m_semaphore > 0 /\ m_semaphore' = m_semaphore - 1
  /\ owner' = "has" /\ UNCHANGED <<runner, m_thread, m_cb, m_id, interrupted, wild>>

\* wait takes EINTR for its turn
Interrupt ==
  /\ owner = "wait" /\ interrupted' = TRUE
  /\ owner' = "has" /\ UNCHANGED <<runner, m_semaphore, m_thread, m_cb, m_id, wild>>

join ==
  /\ owner = "has" /\ m_thread /\ runner = "ended" /\ m_thread' = FALSE
  /\ UNCHANGED <<owner, runner, m_semaphore, m_cb, m_id, interrupted, wild>>

\* the destructor detaches a thread that was not joined
Destroy ==
  /\ owner = "has" /\ owner' = "gone" /\ m_thread' = FALSE
  /\ UNCHANGED <<runner, m_semaphore, m_cb, m_id, interrupted, wild>>

----------------------------------------------------------------------------
(* Thread::run *)

\* Mutant: notify as soon as the thread runs.
AfterNotifyingFirst(l) == CASE l = "start" -> "notify" [] l = "notify" -> "swap" [] l = "swap" -> "call"
After(l) == CASE l = "start" -> "swap" [] l = "swap" -> "notify" [] l = "notify" -> "call"
Uses(l) == runner = l /\ runner' = After(l) /\ wild' = (wild \/ owner = "gone")

\* its name and id
RunStarts ==
  /\ Uses("start") /\ m_id' = TRUE
  /\ UNCHANGED <<owner, m_semaphore, m_thread, m_cb, interrupted>>
RunSwaps ==
  /\ Uses("swap") /\ m_cb' = FALSE
  /\ UNCHANGED <<owner, m_semaphore, m_thread, m_id, interrupted>>
notify ==
  /\ Uses("notify") /\ m_semaphore' = m_semaphore + 1
  /\ UNCHANGED <<owner, m_thread, m_cb, m_id, interrupted>>
\* the callback is run's own copy by now
RunCalls ==
  /\ runner = "call" /\ runner' = "ended"
  /\ UNCHANGED <<owner, m_semaphore, m_thread, m_cb, m_id, interrupted, wild>>

Runs == ~wild /\ (RunStarts \/ RunSwaps \/ notify \/ RunCalls)
Next == ~wild /\ (Construct \/ wait \/ Interrupt \/ join \/ Destroy \/ Runs)
Spec == Init /\ [][Next]_vars

\* What a constructor promises that was not interrupted: the thread has its id,
\* it has what it needs, and whatever the owner does with the object, run does
\* not use it after its end (thread.cpp:48-53, 73-86).
HandedOver ==
  ~interrupted => ~wild /\ (owner \in {"has", "gone"} => m_id /\ ~m_cb /\ runner \in {"call", "ended"})
=============================================================================
