----------------------------- MODULE IOManager -----------------------------
(***************************************************************************)
(* The event table of cool::IOManager (iomanager.h, iomanager.cpp):        *)
(* addEvent, delEvent, cancelEvent, cancekAll, triggerEvent and the part   *)
(* of idle() that waits for epoll and hands out what it reports.           *)
(*                                                                         *)
(* A call locks the FdContext, changes the epoll set and the context, and  *)
(* unlocks.  Only m_pendingEventCount, the scheduler's queue and epoll can *)
(* be seen from outside the lock; so an action is a critical section, cut  *)
(* after each schedule() and each change of the count.  What epoll_wait    *)
(* returned lies in the thread's own array ("batch") until the thread gets *)
(* the lock of the fd: that is where the interleavings are.                *)
(***************************************************************************)
EXTENDS Naturals, FiniteSets

CONSTANTS Fds,         \* file descriptors
          Threads,     \* threads of the scheduler: each runs fibers, then idle()
          Waiters,     \* fibers and callbacks that wait for events
          Directions,  \* the events they wait for
          Hangups,     \* may a peer hang up?
          Hup, None

Events == {"READ", "WRITE"}

ASSUME IOAssumption ==
  /\ Directions \subseteq Events /\ Hup \notin Events /\ Hangups \in BOOLEAN
  /\ None \notin Threads \cup Waiters \cup Fds

VARIABLES
  events,               \* FdContext::events
  context,              \* FdContext::read and write: who waits
  mutex,                \* FdContext::mutex: the thread that holds it
  m_pendingEventCount,
  interest, ready, rdlist,    \* epoll
  pc, batch,            \* per thread: where it is, and the array events
  fd_ctx, todo,         \* the fd being triggered, and what is left of it
  status,               \* of each waiter: idle, waiting or queued
  failed,               \* the ASSERT that ended the process, if any
  outdated              \* history: what each thread's array says and the table
                        \* does not, or not any more

table   == <<events, context, mutex, m_pendingEventCount>>
epoll   == <<interest, ready, rdlist>>
threads == <<pc, batch, fd_ctx, todo>>
vars    == <<table, epoll, threads, status, failed, outdated>>

E == INSTANCE Epoll

Init ==
  /\ events = [fd \in Fds |-> {}]
  /\ context = [fd \in Fds |-> [e \in Events |-> None]]
  /\ mutex = [fd \in Fds |-> None]
  /\ m_pendingEventCount = 0
  /\ E!Init
  /\ pc = [t \in Threads |-> "run"]
  /\ batch = [t \in Threads |-> [fd \in Fds |-> {}]]
  /\ fd_ctx = [t \in Threads |-> None] /\ todo = [t \in Threads |-> {}]
  /\ status = [w \in Waiters |-> "idle"]
  /\ failed = "none" /\ outdated = [t \in Threads |-> {}]

-----------------------------------------------------------------------------
(* Calls of the fiber that runs on thread t *)

Calling(t, fd) == pc[t] = "run" /\ mutex[fd] = None

OpFor(mask) == IF mask = {} THEN "DEL" ELSE "MOD"

RealEvents(evs) == IF Hup \in evs THEN Events ELSE evs

\* An event leaves the table while it may lie in the arrays of other threads.
Outdates(fd, event) ==
  outdated' = [u \in Threads |-> IF event \in RealEvents(batch[u][fd])
                                THEN outdated[u] \cup {<<fd, event>>} ELSE outdated[u]]

\* It is in the table again.
Renews(fd, event) == outdated' = [u \in Threads |-> outdated[u] \ {<<fd, event>>}]

\* Mutant: the new event replaces those the kernel was asked for.
addEventForgets(t, fd, event, w) ==
  LET op == IF events[fd] = {} THEN "ADD" ELSE "MOD"
  IN /\ Calling(t, fd) /\ status[w] = "idle" /\ event \notin events[fd]
     /\ ~E!CtlFails(op, fd) /\ E!Ctl(op, fd, {event})
     /\ m_pendingEventCount' = m_pendingEventCount + 1
     /\ events' = [events EXCEPT ![fd] = @ \cup {event}]
     /\ context' = [context EXCEPT ![fd][event] = w]
     /\ status' = [status EXCEPT ![w] = "waiting"] /\ Renews(fd, event)
     /\ UNCHANGED <<mutex, threads, failed>>

\* Waiting twice for one event is the caller's error (the ASSERT at line 105).
addEvent(t, fd, event, w) ==
  LET op == IF events[fd] = {} THEN "ADD" ELSE "MOD"
  IN /\ Calling(t, fd) /\ status[w] = "idle" /\ event \notin events[fd]
     /\ ~E!CtlFails(op, fd) /\ E!Ctl(op, fd, events[fd] \cup {event})
     /\ m_pendingEventCount' = m_pendingEventCount + 1
     /\ events' = [events EXCEPT ![fd] = @ \cup {event}]
     /\ context' = [context EXCEPT ![fd][event] = w]
     /\ status' = [status EXCEPT ![w] = "waiting"] /\ Renews(fd, event)
     /\ UNCHANGED <<mutex, threads, failed>>

\* Mutant: epoll_ctl is given the events as they were.
delEventKeepsAsking(t, fd, event) ==
  LET new_events == events[fd] \ {event}
      op         == OpFor(new_events)
  IN /\ Calling(t, fd) /\ event \in events[fd]
     /\ ~E!CtlFails(op, fd) /\ E!Ctl(op, fd, IF op = "DEL" THEN {} ELSE events[fd])
     /\ m_pendingEventCount' = m_pendingEventCount - 1
     /\ events' = [events EXCEPT ![fd] = new_events]
     /\ context' = [context EXCEPT ![fd][event] = None]
     /\ status' = [status EXCEPT ![context[fd][event]] = "idle"]
     /\ Outdates(fd, event)
     /\ UNCHANGED <<mutex, threads, failed>>

\* Whoever deletes an event answers for the one who waited.
delEvent(t, fd, event) ==
  LET new_events == events[fd] \ {event}
      op         == OpFor(new_events)
  IN /\ Calling(t, fd) /\ event \in events[fd]
     /\ ~E!CtlFails(op, fd) /\ E!Ctl(op, fd, new_events)
     /\ m_pendingEventCount' = m_pendingEventCount - 1
     /\ events' = [events EXCEPT ![fd] = new_events]
     /\ context' = [context EXCEPT ![fd][event] = None]
     /\ status' = [status EXCEPT ![context[fd][event]] = "idle"]
     /\ Outdates(fd, event)
     /\ UNCHANGED <<mutex, threads, failed>>

\* The fd stays locked while its events are triggered, READ first.
StartTriggers(t, fd, evs) ==
  /\ mutex' = [mutex EXCEPT ![fd] = t]
  /\ fd_ctx' = [fd_ctx EXCEPT ![t] = fd]
  /\ todo' = [todo EXCEPT ![t] = evs]
  /\ pc' = [pc EXCEPT ![t] = "trigger"]

\* Mutant: the count falls before the waiter is queued.
cancelEventEarly(t, fd, event) ==
  LET new_events == events[fd] \ {event}
      op         == OpFor(new_events)
  IN /\ Calling(t, fd) /\ event \in events[fd]
     /\ ~E!CtlFails(op, fd) /\ E!Ctl(op, fd, new_events)
     /\ m_pendingEventCount' = m_pendingEventCount - 1
     /\ StartTriggers(t, fd, {event})
     /\ UNCHANGED <<events, context, batch, status, failed, outdated>>

cancelEvent(t, fd, event) ==
  LET new_events == events[fd] \ {event}
      op         == OpFor(new_events)
  IN /\ Calling(t, fd) /\ event \in events[fd]
     /\ ~E!CtlFails(op, fd) /\ E!Ctl(op, fd, new_events)
     /\ StartTriggers(t, fd, {event})
     /\ UNCHANGED <<events, context, m_pendingEventCount, batch, status, failed, outdated>>

cancekAll(t, fd) ==
  /\ Calling(t, fd) /\ events[fd] # {}
  /\ ~E!CtlFails("DEL", fd) /\ E!Ctl("DEL", fd, {})
  /\ StartTriggers(t, fd, events[fd])
  /\ UNCHANGED <<events, context, m_pendingEventCount, batch, status, failed, outdated>>

-----------------------------------------------------------------------------
(* idle() *)

\* What a hangup will be taken for although nobody waits for it.
Widened == {p \in Fds \X Events : Hup \in E!Found[p[1]] /\ p[2] \notin events[p[1]]}

\* The thread has nothing to run: epoll_wait fills its array.
EpollWait(t) ==
  /\ pc[t] = "run" /\ E!Wait
  /\ batch' = [batch EXCEPT ![t] = E!Found]
  /\ pc' = [pc EXCEPT ![t] = IF \E fd \in Fds : E!Found[fd] # {} THEN "handle" ELSE "run"]
  /\ outdated' = [outdated EXCEPT ![t] = Widened]
  /\ UNCHANGED <<table, fd_ctx, todo, status, failed>>

\* Back to the loop over the array, or out of idle() when it is done.
Continue(t, left) == IF \E fd \in Fds : left[fd] # {} THEN "handle" ELSE "run"

\* Mutant: an entry out of date ends the loop (break for continue).
HandleFdBreaks(t, fd) ==
  LET real_events == RealEvents(batch[t][fd])
      left_events == events[fd] \ real_events
      op          == OpFor(left_events)
  IN /\ pc[t] = "handle" /\ batch[t][fd] # {} /\ mutex[fd] = None
     /\ IF events[fd] \cap real_events = {} \/ E!CtlFails(op, fd)
          THEN /\ batch' = [batch EXCEPT ![t] = [f \in Fds |-> {}]]
               /\ pc' = [pc EXCEPT ![t] = "run"]
               /\ UNCHANGED <<mutex, fd_ctx, todo, epoll>>
          ELSE /\ batch' = [batch EXCEPT ![t][fd] = {}]
               /\ E!Ctl(op, fd, left_events) /\ StartTriggers(t, fd, real_events)
     /\ UNCHANGED <<events, context, m_pendingEventCount, status, failed, outdated>>

\* The entry of fd is done with.
Forget(t, fd) == outdated' = [outdated EXCEPT ![t] = {p \in @ : p[1] # fd}]

\* One entry of the array.  It may be out of date by now.
HandleFd(t, fd) ==
  LET real_events == RealEvents(batch[t][fd])
      left_events == events[fd] \ real_events
      op          == OpFor(left_events)
  IN /\ pc[t] = "handle" /\ batch[t][fd] # {} /\ mutex[fd] = None
     /\ batch' = [batch EXCEPT ![t][fd] = {}]
     /\ IF events[fd] \cap real_events = {} \/ E!CtlFails(op, fd)
          THEN /\ pc' = [pc EXCEPT ![t] = Continue(t, batch'[t])]
               /\ Forget(t, fd) /\ UNCHANGED <<mutex, fd_ctx, todo, epoll>>
          ELSE /\ E!Ctl(op, fd, left_events) /\ StartTriggers(t, fd, real_events)
               /\ UNCHANGED outdated
     /\ UNCHANGED <<events, context, m_pendingEventCount, status, failed>>

Current(t) == IF "READ" \in todo[t] THEN "READ" ELSE "WRITE"

\* triggerEvent: the waiter goes to the scheduler.
triggerEvent(t) ==
  LET fd == fd_ctx[t]
      e  == Current(t)
  IN /\ pc[t] = "trigger"
     /\ IF e \notin events[fd]
          THEN failed' = "triggerEvent" /\ UNCHANGED <<table, threads, status, outdated>>
          ELSE /\ events' = [events EXCEPT ![fd] = @ \ {e}]
               /\ context' = [context EXCEPT ![fd][e] = None]
               /\ status' = [status EXCEPT ![context[fd][e]] = "queued"]
               /\ todo' = [todo EXCEPT ![t] = @ \ {e}]
               /\ pc' = [pc EXCEPT ![t] = "count"]
               /\ Outdates(fd, e)
               /\ UNCHANGED <<mutex, m_pendingEventCount, batch, fd_ctx, failed>>
     /\ UNCHANGED epoll

\* --m_pendingEventCount, and the lock is released after the last event.
Count(t) ==
  /\ pc[t] = "count"
  /\ m_pendingEventCount' = m_pendingEventCount - 1
  /\ IF todo[t] # {}
       THEN pc' = [pc EXCEPT ![t] = "trigger"] /\ UNCHANGED <<mutex, fd_ctx, outdated>>
       ELSE /\ pc' = [pc EXCEPT ![t] = Continue(t, batch[t])]
            /\ mutex' = [mutex EXCEPT ![fd_ctx[t]] = None]
            /\ fd_ctx' = [fd_ctx EXCEPT ![t] = None]
            /\ Forget(t, fd_ctx[t])
  /\ UNCHANGED <<events, context, epoll, batch, todo, status, failed>>

-----------------------------------------------------------------------------
(* The scheduler runs what was queued; the world outside *)

Resume(w) ==
  /\ status[w] = "queued"
  /\ status' = [status EXCEPT ![w] = "idle"]
  /\ UNCHANGED <<table, epoll, threads, failed, outdated>>

Arrive(fd, e) ==
  /\ e = Hup => Hangups
  /\ E!Arrive(fd, e)
  /\ UNCHANGED <<table, threads, status, failed, outdated>>

Drain(fd, e) == E!Drain(fd, e) /\ UNCHANGED <<table, threads, status, failed, outdated>>

Alive == failed = "none"

Call(t) ==
  \E fd \in Fds :
    \/ \E e \in Directions, w \in Waiters : addEvent(t, fd, e, w)
    \/ \E e \in Directions : delEvent(t, fd, e) \/ cancelEvent(t, fd, e)
    \/ cancekAll(t, fd)

Handle(t) == (\E fd \in Fds : HandleFd(t, fd)) \/ triggerEvent(t) \/ Count(t)

Next ==
  /\ Alive
  /\ \/ \E t \in Threads : Call(t) \/ EpollWait(t) \/ Handle(t)
     \/ \E w \in Waiters : Resume(w)
     \/ \E fd \in Fds, e \in Events \cup {Hup} : Arrive(fd, e)
     \/ \E fd \in Fds, e \in Events : Drain(fd, e)

Spec == Init /\ [][Next]_vars

\* Threads finish what they began, and each runs out of fibers now and then and
\* comes to idle().
FairSpec ==
  /\ Spec
  /\ \A t \in Threads : WF_vars(Alive /\ Handle(t)) /\ SF_vars(Alive /\ EpollWait(t))

-----------------------------------------------------------------------------
(* Properties *)

TypeOK ==
  /\ events \in [Fds -> SUBSET Events]
  /\ context \in [Fds -> [Events -> Waiters \cup {None}]]
  /\ mutex \in [Fds -> Threads \cup {None}]
  /\ m_pendingEventCount \in Nat
  /\ E!TypeOK
  /\ pc \in [Threads -> {"run", "handle", "trigger", "count"}]
  /\ batch \in [Threads -> [Fds -> SUBSET (Events \cup {Hup})]]
  /\ fd_ctx \in [Threads -> Fds \cup {None}] /\ todo \in [Threads -> SUBSET Events]
  /\ status \in [Waiters -> {"idle", "waiting", "queued"}]
  /\ failed \in {"none", "triggerEvent"}
  /\ outdated \in [Threads -> SUBSET (Fds \X Events)]

\* What the holder of the fd's lock has yet to trigger.
Triggering(fd) == UNION {todo[t] : t \in {u \in Threads : fd_ctx[u] = fd}}

\* The kernel is asked for exactly what the table holds, so that ADD, MOD and
\* DEL never fail (iomanager.cpp:107, 150, 182, 313).
EpollMatches == \A fd \in Fds : interest[fd] = events[fd] \ Triggering(fd)

\* The table is a WakeSource.
Registered == {p \in Fds \X Events : p[2] \in events[p[1]]}
Counting == {t \in Threads : pc[t] = "count"}
W == INSTANCE WakeSource WITH Places <- Fds \X Events, Agents <- Threads,
                              waiting <- Registered, waking <- Counting

\* Every step of every call registers, withdraws, wakes or counts one event, or
\* changes nothing the scheduler can see (iomanager.cpp:118, 161, 193-194,
\* 222-229, 322-329).
ImplementsWakeSource == W!Spec

\* stopping() reads 0 only when nobody is registered and no wake-up is half done.
PendingExact == W!PendingExact

\* An event somebody waits for and that has happened is on its way: the fd is
\* in the ready list or in the array of a thread, although an edge-triggered fd
\* is reported once and another thread may take it out of the list.
NoLostWakeup ==
  \A fd \in Fds : \A e \in (events[fd] \ Triggering(fd)) \cap ready[fd] :
    \/ fd \in rdlist
    \/ \E t \in Threads : batch[t][fd] \cap {e, Hup} # {}

\* idle() calls triggerEvent for each direction the entry stands for once one of
\* them is registered (iomanager.cpp:308, 322-329), so ASSERT(events & event) at
\* line 33 can fail.  It fails only for a direction nobody waited for when a
\* hangup was reported and that the hangup was widened to (299), or for one that
\* a delEvent, a cancel or another thread has taken out of the table after this
\* thread's epoll_wait, and that was not registered again since.
AssertNeedsOutdated ==
  \A t \in Threads :
    pc[t] = "trigger" =>
      \A e \in todo[t] \ events[fd_ctx[t]] : <<fd_ctx[t], e>> \in outdated[t]

\* An event that is registered and stays ready is handed out.
ReadyIsHandled ==
  \A fd \in Fds, e \in Events :
    e \in events[fd] /\ e \in ready[fd] ~> ~(e \in events[fd] /\ e \in ready[fd])
=============================================================================
