-------------------------- MODULE IOManagerProofs --------------------------
(***************************************************************************)
(* Proofs about the event table, for any number of fds, threads and        *)
(* waiters.                                                                *)
(***************************************************************************)
EXTENDS IOManager, FiniteSetTheorems, TLAPS

\* TypeOK, but for the count, whose type follows from PendingExact.
Types ==
  /\ events \in [Fds -> SUBSET Events]
  /\ context \in [Fds -> [Events -> Waiters \cup {None}]]
  /\ mutex \in [Fds -> Threads \cup {None}]
  /\ E!TypeOK
  /\ pc \in [Threads -> {"run", "handle", "trigger", "count"}]
  /\ batch \in [Threads -> [Fds -> SUBSET (Events \cup {Hup})]]
  /\ fd_ctx \in [Threads -> Fds \cup {None}] /\ todo \in [Threads -> SUBSET Events]
  /\ status \in [Waiters -> {"idle", "waiting", "queued"}]
  /\ failed \in {"none", "triggerEvent"}

\* A thread that triggers holds the lock of the fd, and of no other; a thread
\* that runs fibers has no array to go through.
Locks ==
  /\ \A t \in Threads :
       /\ pc[t] \in {"trigger", "count"} <=> fd_ctx[t] \in Fds
       /\ fd_ctx[t] \in Fds => mutex[fd_ctx[t]] = t
       /\ pc[t] = "trigger" => todo[t] # {}
       /\ pc[t] = "run" => \A fd \in Fds : batch[t][fd] = {}
  /\ \A fd \in Fds : mutex[fd] # None => fd_ctx[mutex[fd]] = fd

\* EpollMatches in terms of the lock's holder.
Held(fd) == IF mutex[fd] = None THEN {} ELSE todo[mutex[fd]]
Armed == \A fd \in Fds : interest[fd] = events[fd] \ Held(fd)

\* NoLostWakeup in terms of what the kernel was asked for.
OnItsWay ==
  \A fd \in Fds : \A e \in interest[fd] \cap ready[fd] :
    fd \in rdlist \/ \E t \in Threads : batch[t][fd] \cap {e, Hup} # {}

TableInv == Types /\ Locks /\ Armed /\ OnItsWay

-----------------------------------------------------------------------------
(* The invariant *)

\* It holds at first.
LEMMA InitInv == Init => TableInv
<1> SUFFICES ASSUME Init PROVE TableInv
  OBVIOUS
<1>1. Types
  BY IOAssumption DEF Init, Types, E!Init, E!TypeOK
<1>2. Locks
  BY IOAssumption DEF Init, Locks
<1>3. Armed /\ OnItsWay
  BY DEF Init, Armed, Held, OnItsWay, E!Init
<1> QED BY <1>1, <1>2, <1>3 DEF TableInv

\* What a call or idle() finds when it has got the lock of fd: epoll holds what
\* the table holds, and ADD, MOD and DEL succeed.
LEMMA Unlocked ==
  ASSUME TableInv, NEW fd \in Fds, mutex[fd] = None
  PROVE  /\ interest[fd] = events[fd]
         /\ events[fd] = {} => ~E!CtlFails("ADD", fd)
         /\ events[fd] # {} => ~E!CtlFails("MOD", fd) /\ ~E!CtlFails("DEL", fd)
BY DEF TableInv, Armed, Held, E!CtlFails

\* Asking for mask leaves no ready fd off the ready list.
LEMMA CtlWakes ==
  ASSUME TableInv, NEW fd \in Fds, NEW mask \in SUBSET Events, NEW op,
         op = "DEL" => mask = {}, E!Ctl(op, fd, mask),
         \A u \in Threads, f \in Fds \ {fd} : batch'[u][f] = batch[u][f]
  PROVE  OnItsWay' /\ E!TypeOK'
<1>1. E!TypeOK'
  BY DEF TableInv, Types, E!TypeOK, E!Ctl
<1>2. ASSUME NEW f \in Fds, NEW e \in interest'[f] \cap ready'[f]
      PROVE  f \in rdlist' \/ \E t \in Threads : batch'[t][f] \cap {e, Hup} # {}
  <2>1. CASE f = fd
    BY <1>2, <2>1 DEF TableInv, Types, E!TypeOK, E!Ctl, E!Reported
  <2>2. CASE f # fd
    <3>1. interest'[f] = interest[f] /\ ready' = ready /\ (f \in rdlist => f \in rdlist')
      BY <2>2 DEF TableInv, Types, E!TypeOK, E!Ctl
    <3>2. \A u \in Threads : batch'[u][f] = batch[u][f]
      BY <2>2
    <3>3. f \in rdlist \/ \E t \in Threads : batch[t][f] \cap {e, Hup} # {}
      BY <1>2, <3>1 DEF TableInv, OnItsWay
    <3> QED BY <3>1, <3>2, <3>3
  <2> QED BY <2>1, <2>2
<1> QED BY <1>1, <1>2 DEF OnItsWay

\* An event is added or deleted in one critical section.
LEMMA addEventInv ==
  ASSUME TableInv, NEW t \in Threads, NEW fd \in Fds, NEW e \in Directions,
         NEW w \in Waiters, addEvent(t, fd, e, w)
  PROVE  TableInv'
<1>0. e \in Events
  BY IOAssumption
<1> DEFINE op == IF events[fd] = {} THEN "ADD" ELSE "MOD"
<1>1. /\ E!Ctl(op, fd, events[fd] \cup {e}) /\ mutex[fd] = None
      /\ events' = [events EXCEPT ![fd] = @ \cup {e}]
      /\ context' = [context EXCEPT ![fd][e] = w]
      /\ status' = [status EXCEPT ![w] = "waiting"]
      /\ UNCHANGED <<mutex, pc, batch, fd_ctx, todo, failed>>
  BY DEF addEvent, Calling, threads
<1>2. OnItsWay' /\ E!TypeOK'
  <2>1. events[fd] \cup {e} \in SUBSET Events /\ op # "DEL"
    BY <1>0 DEF TableInv, Types
  <2> QED BY <1>1, <2>1, CtlWakes
<1>3. Types'
  BY <1>0, <1>1, <1>2 DEF TableInv, Types
<1>4. Locks'
  BY <1>1 DEF TableInv, Locks
<1>5. Armed'
  BY <1>1 DEF TableInv, Types, E!TypeOK, Armed, Held, E!Ctl
<1> QED BY <1>2, <1>3, <1>4, <1>5 DEF TableInv

\* An event that is deleted arms nothing: the registration only shrinks.
LEMMA delEventInv ==
  ASSUME TableInv, NEW t \in Threads, NEW fd \in Fds, NEW e \in Directions,
         delEvent(t, fd, e)
  PROVE  TableInv'
<1>0. e \in Events
  BY IOAssumption
<1> DEFINE new == events[fd] \ {e}
<1>1. /\ E!Ctl(OpFor(new), fd, new) /\ mutex[fd] = None
      /\ events' = [events EXCEPT ![fd] = new]
      /\ context' = [context EXCEPT ![fd][e] = None]
      /\ status' = [status EXCEPT ![context[fd][e]] = "idle"]
      /\ UNCHANGED <<mutex, pc, batch, fd_ctx, todo, failed>>
  BY DEF delEvent, Calling, threads
<1>2. OnItsWay' /\ E!TypeOK'
  <2>1. new \in SUBSET Events /\ (OpFor(new) = "DEL" => new = {})
    BY DEF TableInv, Types, OpFor
  <2> QED BY <1>1, <2>1, CtlWakes
<1>3. Types'
  BY <1>0, <1>1, <1>2, Zenon DEF TableInv, Types
<1>4. Locks'
  BY <1>1 DEF TableInv, Locks
<1>5. Armed'
  BY <1>1 DEF TableInv, Types, E!TypeOK, Armed, Held, E!Ctl
<1> QED BY <1>2, <1>3, <1>4, <1>5 DEF TableInv

\* The events evs of fd leave epoll and are triggered next.
LEMMA StartInv ==
  ASSUME TableInv, NEW t \in Threads, NEW fd \in Fds, NEW evs \in SUBSET Events,
         evs # {}, NEW op, op = "DEL" => events[fd] \ evs = {},
         mutex[fd] = None, pc[t] \in {"run", "handle"},
         E!Ctl(op, fd, events[fd] \ evs), StartTriggers(t, fd, evs),
         UNCHANGED <<events, context, status, failed>>,
         batch' \in {batch, [batch EXCEPT ![t][fd] = {}]}
  PROVE  TableInv'
<1>0. /\ events[fd] \ evs \in SUBSET Events
      /\ batch' \in [Threads -> [Fds -> SUBSET (Events \cup {Hup})]]
      /\ \A u \in Threads, f \in Fds \ {fd} : batch'[u][f] = batch[u][f]
      /\ \A u \in Threads \ {t} : batch'[u] = batch[u]
  <2>1. CASE batch' = batch
    BY <2>1 DEF TableInv, Types
  <2>2. CASE batch' = [batch EXCEPT ![t][fd] = {}]
    BY <2>2 DEF TableInv, Types
  <2> QED BY <2>1, <2>2 DEF TableInv, Types
<1>1. OnItsWay' /\ E!TypeOK'
  BY <1>0, CtlWakes
<1>2. Types'
  BY <1>0, <1>1, Zenon DEF TableInv, Types, StartTriggers
<1>3. /\ mutex' = [mutex EXCEPT ![fd] = t] /\ fd_ctx' = [fd_ctx EXCEPT ![t] = fd]
      /\ todo' = [todo EXCEPT ![t] = evs] /\ pc' = [pc EXCEPT ![t] = "trigger"]
  BY DEF StartTriggers
<1>4. fd_ctx[t] \notin Fds
  BY DEF TableInv, Locks
<1>5. Locks'
  <2>1. ASSUME NEW u \in Threads
        PROVE  /\ pc'[u] \in {"trigger", "count"} <=> fd_ctx'[u] \in Fds
               /\ fd_ctx'[u] \in Fds => mutex'[fd_ctx'[u]] = u
               /\ pc'[u] = "trigger" => todo'[u] # {}
               /\ pc'[u] = "run" => \A f \in Fds : batch'[u][f] = {}
    <3>1. CASE u = t
      BY <1>3, <3>1 DEF TableInv, Types
    <3>2. CASE u # t
      <4>1. fd_ctx[u] \in Fds => fd_ctx[u] # fd
        BY IOAssumption DEF TableInv, Locks
      <4> QED BY <1>0, <1>3, <3>2, <4>1 DEF TableInv, Types, Locks
    <3> QED BY <3>1, <3>2
  <2>2. ASSUME NEW f \in Fds, mutex'[f] # None PROVE fd_ctx'[mutex'[f]] = f
    BY <1>3, <1>4, <2>2 DEF TableInv, Types, Locks
  <2> QED BY <2>1, <2>2 DEF Locks
<1>6. Armed'
  <2> SUFFICES ASSUME NEW f \in Fds PROVE interest'[f] = events'[f] \ Held(f)'
    BY DEF Armed
  <2>1. CASE f = fd
    BY <1>3, <2>1, IOAssumption DEF TableInv, Types, E!TypeOK, Held, E!Ctl
  <2>2. CASE f # fd
    <3>1. interest'[f] = interest[f] /\ mutex'[f] = mutex[f] /\ events' = events
      BY <1>3, <2>2 DEF TableInv, Types, E!TypeOK, E!Ctl
    <3>2. mutex[f] # t
      <4>1. t # None
        BY IOAssumption
      <4>2. mutex[f] # None => fd_ctx[mutex[f]] \in Fds
        BY DEF TableInv, Locks
      <4> QED BY <1>4, <4>1, <4>2
    <3>3. mutex[f] # None => todo'[mutex[f]] = todo[mutex[f]]
      BY <1>3, <3>2 DEF TableInv, Types
    <3> QED BY <3>1, <3>3 DEF TableInv, Armed, Held
  <2> QED BY <2>1, <2>2
<1> QED BY <1>1, <1>2, <1>5, <1>6 DEF TableInv

\* cancelEvent and cancekAll start to trigger what they cancel.
LEMMA cancelInv ==
  ASSUME TableInv, NEW t \in Threads, NEW fd \in Fds,
         (\E e \in Directions : cancelEvent(t, fd, e)) \/ cancekAll(t, fd)
  PROVE  TableInv'
<1>1. ASSUME NEW e \in Directions, cancelEvent(t, fd, e) PROVE TableInv'
  <2> DEFINE op == OpFor(events[fd] \ {e})
  <2>1. {e} \in SUBSET Events /\ (op = "DEL" => events[fd] \ {e} = {})
    BY IOAssumption DEF OpFor
  <2>2. /\ E!Ctl(op, fd, events[fd] \ {e}) /\ StartTriggers(t, fd, {e})
        /\ mutex[fd] = None /\ pc[t] = "run"
        /\ UNCHANGED <<events, context, status, failed, batch>>
    BY <1>1 DEF cancelEvent, Calling
  <2> QED BY <2>1, <2>2, StartInv
<1>2. CASE cancekAll(t, fd)
  <2>1. events[fd] \in SUBSET Events /\ events[fd] \ events[fd] = {}
    BY DEF TableInv, Types
  <2>2. /\ E!Ctl("DEL", fd, {}) /\ StartTriggers(t, fd, events[fd])
        /\ mutex[fd] = None /\ pc[t] = "run" /\ events[fd] # {}
        /\ UNCHANGED <<events, context, status, failed, batch>>
    BY <1>2 DEF cancekAll, Calling
  <2> QED BY <2>1, <2>2, StartInv
<1> QED BY <1>1, <1>2

\* epoll_wait moves the ready list into the thread's array, which was empty.
LEMMA EpollWaitInv ==
  ASSUME TableInv, NEW t \in Threads, EpollWait(t)
  PROVE  TableInv'
<1>1. /\ pc[t] = "run" /\ rdlist' = {} /\ interest' = interest /\ ready' = ready
      /\ batch' = [batch EXCEPT ![t] = E!Found]
      /\ pc' = [pc EXCEPT ![t] = IF \E fd \in Fds : E!Found[fd] # {} THEN "handle" ELSE "run"]
      /\ UNCHANGED <<events, context, mutex, fd_ctx, todo, status, failed>>
  BY DEF EpollWait, E!Wait, table
<1>2. E!Found \in [Fds -> SUBSET (Events \cup {Hup})]
  BY DEF TableInv, Types, E!TypeOK, E!Found, E!Reported
<1>3. Types'
  BY <1>1, <1>2 DEF TableInv, Types, E!TypeOK
<1>4. Locks'
  BY <1>1 DEF TableInv, Types, Locks
<1>5. Armed'
  BY <1>1, Zenon DEF TableInv, Armed, Held
<1>6. OnItsWay'
  <2> SUFFICES ASSUME NEW fd \in Fds, NEW e \in interest[fd] \cap ready[fd]
               PROVE  \E u \in Threads : batch'[u][fd] \cap {e, Hup} # {}
    BY <1>1 DEF OnItsWay
  <2>1. CASE fd \in rdlist
    <3>1. e \in E!Found[fd]
      BY <2>1 DEF E!Found, E!Reported
    <3>2. batch'[t][fd] = E!Found[fd]
      BY <1>1 DEF TableInv, Types
    <3> QED BY <3>1, <3>2
  <2>2. CASE fd \notin rdlist
    <3>1. PICK u \in Threads : batch[u][fd] \cap {e, Hup} # {}
      BY <2>2 DEF TableInv, OnItsWay
    <3>2. u # t
      BY <1>1, <3>1, Zenon DEF TableInv, Locks
    <3>3. batch'[u] = batch[u]
      BY <1>1, <3>2, Zenon DEF TableInv, Types
    <3> QED BY <3>1, <3>3
  <2> QED BY <2>1, <2>2
<1> QED BY <1>3, <1>4, <1>5, <1>6 DEF TableInv

\* One entry of the array is handed out, or is out of date.
LEMMA HandleFdInv ==
  ASSUME TableInv, NEW t \in Threads, NEW fd \in Fds, HandleFd(t, fd)
  PROVE  TableInv'
<1> DEFINE real == RealEvents(batch[t][fd])
           left == events[fd] \ real
           op   == OpFor(left)
<1>1. /\ pc[t] = "handle" /\ batch[t][fd] # {} /\ mutex[fd] = None
      /\ batch' = [batch EXCEPT ![t][fd] = {}]
      /\ IF events[fd] \cap real = {} \/ E!CtlFails(op, fd)
           THEN /\ pc' = [pc EXCEPT ![t] = Continue(t, batch'[t])]
                /\ UNCHANGED <<mutex, fd_ctx, todo, interest, ready, rdlist>>
           ELSE E!Ctl(op, fd, left) /\ StartTriggers(t, fd, real)
      /\ UNCHANGED <<events, context, status, failed>>
  BY DEF HandleFd, epoll
<1>2. /\ batch[t][fd] \subseteq Events \cup {Hup} /\ real \in SUBSET Events
      /\ batch[t][fd] \cap Events \subseteq real
      /\ Hup \in batch[t][fd] => real = Events
  BY IOAssumption DEF TableInv, Types, RealEvents
<1> HIDE DEF real
<1>3. CASE events[fd] \cap real # {}
  <2>1. ~E!CtlFails(op, fd) /\ real # {} /\ (op = "DEL" => left = {})
    BY <1>1, <1>3, Unlocked DEF OpFor
  <2>2. E!Ctl(op, fd, left) /\ StartTriggers(t, fd, real)
    BY <1>1, <1>3, <2>1
  <2> QED BY <1>1, <1>2, <2>1, <2>2, StartInv, Zenon
<1>4. CASE events[fd] \cap real = {}
  <2>1. /\ pc' = [pc EXCEPT ![t] = Continue(t, batch'[t])]
        /\ UNCHANGED <<mutex, fd_ctx, todo, interest, ready, rdlist>>
    BY <1>1, <1>4
  <2>2. /\ batch' \in [Threads -> [Fds -> SUBSET (Events \cup {Hup})]]
        /\ \A u \in Threads, f \in Fds :
             u # t \/ f # fd => batch'[u][f] = batch[u][f]
    BY <1>1, Zenon DEF TableInv, Types
  <2>3. Continue(t, batch'[t]) \in {"run", "handle"}
    BY DEF Continue
  <2>4. Types'
    BY <1>1, <2>1, <2>2, <2>3, Zenon DEF TableInv, Types, E!TypeOK
  <2>5. pc'[t] = "run" => \A f \in Fds : batch'[t][f] = {}
    BY <2>1, Zenon DEF TableInv, Types, Continue
  <2>6. Locks'
    BY <1>1, <2>1, <2>2, <2>3, <2>5, SMTT(30) DEF TableInv, Types, Locks
  <2>7. Armed'
    BY <1>1, <2>1, Zenon DEF TableInv, Armed, Held
  <2>8. OnItsWay'
    <3> SUFFICES ASSUME NEW f \in Fds, NEW e \in interest[f] \cap ready[f], f \notin rdlist
                 PROVE  \E u \in Threads : batch'[u][f] \cap {e, Hup} # {}
      BY <2>1, Zenon DEF OnItsWay
    <3>1. PICK u \in Threads : batch[u][f] \cap {e, Hup} # {}
      BY DEF TableInv, OnItsWay
    <3>2. ~(u = t /\ f = fd)
      <4> SUFFICES ASSUME u = t, f = fd PROVE FALSE
        OBVIOUS
      <4>1. e \in events[fd] /\ e \in Events
        BY <1>1, Unlocked, Zenon DEF TableInv, Types
      <4>2. e \in real
        BY <1>2, <3>1, <4>1
      <4> QED BY <1>4, <4>1, <4>2
    <3> QED BY <2>2, <3>1, <3>2, Zenon
  <2> QED BY <2>4, <2>6, <2>7, <2>8 DEF TableInv
<1> QED BY <1>3, <1>4

\* triggerEvent takes one event out of the table, or ends the process.
LEMMA triggerEventInv ==
  ASSUME TableInv, NEW t \in Threads, triggerEvent(t)
  PROVE  TableInv'
<1> DEFINE fd == fd_ctx[t]
           e  == Current(t)
<1>0. /\ pc[t] = "trigger" /\ fd \in Fds /\ mutex[fd] = t /\ todo[t] \in SUBSET Events
      /\ e \in todo[t] /\ e \in Events
  <2>1. pc[t] = "trigger"
    BY DEF triggerEvent
  <2>2. fd \in Fds /\ mutex[fd] = t /\ todo[t] # {} /\ todo[t] \in SUBSET Events
    BY <2>1 DEF TableInv, Types, Locks
  <2> QED BY <2>1, <2>2 DEF Current, Events
<1>1. CASE e \notin events[fd]
  <2>1. failed' = "triggerEvent" /\ UNCHANGED <<table, threads, status, epoll>>
    BY <1>1 DEF triggerEvent
  <2> QED BY <2>1, SMTT(30) DEF TableInv, Types, E!TypeOK, Locks, Armed, Held, OnItsWay,
                      table, threads, epoll
<1>2. CASE e \in events[fd]
  <2>1. /\ events' = [events EXCEPT ![fd] = @ \ {e}]
        /\ context' = [context EXCEPT ![fd][e] = None]
        /\ status' = [status EXCEPT ![context[fd][e]] = "queued"]
        /\ todo' = [todo EXCEPT ![t] = @ \ {e}]
        /\ pc' = [pc EXCEPT ![t] = "count"]
        /\ UNCHANGED <<mutex, batch, fd_ctx, failed, interest, ready, rdlist>>
    BY <1>2 DEF triggerEvent, epoll
  <2> HIDE DEF e
  <2>2. Types'
    BY <1>0, <2>1, Zenon DEF TableInv, Types, E!TypeOK
  <2>3. Locks'
    BY <1>0, <2>1, SMTT(30) DEF TableInv, Types, Locks
  <2>4. Armed'
    <3> SUFFICES ASSUME NEW f \in Fds PROVE interest[f] = events'[f] \ Held(f)'
      BY <2>1 DEF Armed
    <3>1. interest[f] = events[f] \ Held(f)
      BY DEF TableInv, Armed
    <3>2. t # None /\ mutex' = mutex
      BY <2>1, IOAssumption, Zenon
    <3>3. CASE f = fd
      BY <1>0, <2>1, <3>1, <3>2, <3>3, SMTT(30) DEF TableInv, Types, Held
    <3>4. CASE f # fd
      <4>1. mutex[f] # t
        <5>1. mutex[f] # None => fd_ctx[mutex[f]] = f
          BY DEF TableInv, Locks
        <5> QED BY <3>2, <3>4, <5>1
      <4>2. mutex[f] # None => todo'[mutex[f]] = todo[mutex[f]]
        BY <2>1, <4>1 DEF TableInv, Types
      <4>3. events'[f] = events[f]
        BY <2>1, <3>4, Zenon DEF TableInv, Types
      <4> QED BY <3>1, <3>2, <4>2, <4>3, Zenon DEF Held
    <3> QED BY <3>3, <3>4
  <2>5. OnItsWay'
    BY <2>1, Zenon DEF TableInv, OnItsWay
  <2> QED BY <2>2, <2>3, <2>4, <2>5 DEF TableInv
<1> QED BY <1>1, <1>2

\* The count falls; after the last event the lock is released.
LEMMA CountStepInv ==
  ASSUME TableInv, NEW t \in Threads, Count(t)
  PROVE  TableInv'
<1> DEFINE fd == fd_ctx[t]
<1>0. /\ pc[t] = "count" /\ fd \in Fds /\ mutex[fd] = t
      /\ UNCHANGED <<events, context, interest, ready, rdlist, batch, todo, status, failed>>
  <2>1. pc[t] = "count"
    BY Zenon DEF Count
  <2> QED BY <2>1, Zenon DEF TableInv, Types, Locks, Count, epoll
<1>1. CASE todo[t] # {}
  <2>1. pc' = [pc EXCEPT ![t] = "trigger"] /\ UNCHANGED <<mutex, fd_ctx>>
    BY <1>1 DEF Count
  <2> QED BY <1>0, <1>1, <2>1, SMTT(30) DEF TableInv, Types, E!TypeOK, Locks, Armed, Held, OnItsWay
<1>2. CASE todo[t] = {}
  <2>1. /\ pc' = [pc EXCEPT ![t] = Continue(t, batch[t])]
        /\ mutex' = [mutex EXCEPT ![fd] = None]
        /\ fd_ctx' = [fd_ctx EXCEPT ![t] = None]
    BY <1>2, Zenon DEF Count
  <2>2. /\ Continue(t, batch[t]) \in {"run", "handle"}
        /\ Continue(t, batch[t]) = "run" => \A f \in Fds : batch[t][f] = {}
    BY DEF Continue
  <2>3. Types'
    BY <1>0, <2>1, <2>2, Zenon DEF TableInv, Types, E!TypeOK
  <2>4. Locks'
    <3>1. ASSUME NEW u \in Threads
          PROVE  /\ pc'[u] \in {"trigger", "count"} <=> fd_ctx'[u] \in Fds
                 /\ fd_ctx'[u] \in Fds => mutex'[fd_ctx'[u]] = u
                 /\ pc'[u] = "trigger" => todo'[u] # {}
                 /\ pc'[u] = "run" => \A f \in Fds : batch'[u][f] = {}
      <4>1. CASE u = t
        BY <1>0, <2>1, <2>2, <4>1, IOAssumption, Zenon DEF TableInv, Types
      <4>2. CASE u # t
        <5>1. fd_ctx[u] \in Fds => fd_ctx[u] # fd
          BY <1>0, <4>2, Zenon DEF TableInv, Locks
        <5> QED BY <1>0, <2>1, <4>2, <5>1, SMTT(30) DEF TableInv, Types, Locks
      <4> QED BY <4>1, <4>2
    <3>2. ASSUME NEW f \in Fds, mutex'[f] # None PROVE fd_ctx'[mutex'[f]] = f
      <4>1. f # fd /\ mutex'[f] = mutex[f] /\ fd_ctx[mutex[f]] = f
        BY <1>0, <2>1, <3>2, SMTT(30) DEF TableInv, Types, Locks
      <4> QED BY <1>0, <2>1, <3>2, <4>1, Zenon DEF TableInv, Types
    <3> QED BY <3>1, <3>2, ZenonT(30) DEF Locks
  <2>5. Armed'
    <3> SUFFICES ASSUME NEW f \in Fds PROVE Held(f)' = Held(f)
      BY <1>0, Zenon DEF TableInv, Armed
    <3>1. CASE f = fd
      BY <1>0, <1>2, <2>1, <3>1, IOAssumption, Zenon DEF TableInv, Types, Held
    <3>2. CASE f # fd
      BY <1>0, <2>1, <3>2, Zenon DEF TableInv, Types, Held
    <3> QED BY <3>1, <3>2
  <2>6. OnItsWay'
    BY <1>0, Zenon DEF TableInv, OnItsWay
  <2> QED BY <2>3, <2>4, <2>5, <2>6 DEF TableInv
<1> QED BY <1>1, <1>2

\* The scheduler and the peers.
LEMMA OutsideInv ==
  ASSUME TableInv,
         \/ \E w \in Waiters : Resume(w)
         \/ \E fd \in Fds, e \in Events \cup {Hup} : Arrive(fd, e)
         \/ \E fd \in Fds, e \in Events : Drain(fd, e)
         \/ UNCHANGED vars
  PROVE  TableInv'
<1>1. ASSUME NEW w \in Waiters, Resume(w) PROVE TableInv'
  BY <1>1, SMTT(30) DEF Resume, TableInv, Types, E!TypeOK, Locks, Armed, Held, OnItsWay,
              table, threads, epoll
<1>2. ASSUME NEW fd \in Fds, NEW e \in Events \cup {Hup}, Arrive(fd, e) PROVE TableInv'
  <2>1. /\ ready' = [ready EXCEPT ![fd] = @ \cup {e}] /\ interest' = interest
        /\ rdlist' = IF interest[fd] # {} /\ e \in interest[fd] \cup {Hup}
                     THEN rdlist \cup {fd} ELSE rdlist
        /\ UNCHANGED <<events, context, mutex, pc, batch, fd_ctx, todo, status, failed>>
    BY <1>2, Zenon DEF Arrive, E!Arrive, table, threads
  <2>2. Types' /\ Locks' /\ Armed'
    BY <2>1, SMTT(30) DEF TableInv, Types, E!TypeOK, Locks, Armed, Held
  <2>3. OnItsWay'
    BY <2>1, SMTT(30) DEF TableInv, Types, E!TypeOK, OnItsWay
  <2> QED BY <2>2, <2>3 DEF TableInv
<1>3. ASSUME NEW fd \in Fds, NEW e \in Events, Drain(fd, e) PROVE TableInv'
  <2>1. /\ ready' = [ready EXCEPT ![fd] = @ \ {e}] /\ interest' = interest
        /\ rdlist' = rdlist
        /\ UNCHANGED <<events, context, mutex, pc, batch, fd_ctx, todo, status, failed>>
    BY <1>3, Zenon DEF Drain, E!Drain, table, threads
  <2>2. Types' /\ Locks' /\ Armed'
    BY <2>1, ZenonT(30) DEF TableInv, Types, E!TypeOK, Locks, Armed, Held
  <2>3. OnItsWay'
    BY <2>1 DEF TableInv, Types, E!TypeOK, OnItsWay
  <2> QED BY <2>2, <2>3 DEF TableInv
<1>4. CASE UNCHANGED vars
  BY <1>4, SMTT(30) DEF vars, TableInv, Types, E!TypeOK, Locks, Armed, Held, OnItsWay,
              table, threads, epoll
<1> QED BY <1>1, <1>2, <1>3, <1>4, SMTT(20)

\* Every step keeps the invariant.
LEMMA NextInv == TableInv /\ [Next]_vars => TableInv'
<1> SUFFICES ASSUME TableInv, [Next]_vars PROVE TableInv'
  OBVIOUS
<1>1. ASSUME NEW t \in Threads, Call(t) PROVE TableInv'
  BY <1>1, addEventInv, delEventInv, cancelInv DEF Call
<1>2. ASSUME NEW t \in Threads, Handle(t) PROVE TableInv'
  BY <1>2, HandleFdInv, triggerEventInv, CountStepInv DEF Handle
<1> QED BY <1>1, <1>2, EpollWaitInv, OutsideInv DEF Next

\* While a thread triggers, Triggering(fd) is what the lock's holder has left.
LEMMA TriggeringIsHeld ==
  ASSUME TableInv, NEW fd \in Fds
  PROVE  Triggering(fd) = Held(fd)
<1>1. CASE mutex[fd] = None
  <2>1. {u \in Threads : fd_ctx[u] = fd} = {}
    BY <1>1, IOAssumption DEF TableInv, Locks
  <2> QED BY <1>1, <2>1 DEF Triggering, Held
<1>2. CASE mutex[fd] # None
  <2>1. {u \in Threads : fd_ctx[u] = fd} = {mutex[fd]}
    BY <1>2 DEF TableInv, Types, Locks
  <2> QED BY <1>2, <2>1 DEF Triggering, Held
<1> QED BY <1>1, <1>2

\* The kernel is always asked for exactly what the table holds, and no event
\* that has happened is lost, whatever threads handle at the same time.
THEOREM NothingLost == Spec => [](EpollMatches /\ NoLostWakeup)
<1>1. TableInv => EpollMatches /\ NoLostWakeup
  <2> SUFFICES ASSUME TableInv PROVE EpollMatches /\ NoLostWakeup
    OBVIOUS
  <2>1. \A fd \in Fds : interest[fd] = events[fd] \ Triggering(fd)
    BY TriggeringIsHeld DEF TableInv, Armed
  <2> QED BY <2>1 DEF TableInv, OnItsWay, EpollMatches, NoLostWakeup
<1> QED BY <1>1, InitInv, NextInv, PTL DEF Spec

-----------------------------------------------------------------------------
(* The table implements a WakeSource *)

\* A step that neither registers nor queues anybody is invisible.
LEMMA Invisible ==
  ASSUME events' = events, m_pendingEventCount' = m_pendingEventCount,
         \A t \in Threads : pc'[t] = "count" <=> pc[t] = "count"
  PROVE  UNCHANGED W!vars
BY DEF W!vars, Registered, Counting

\* Each action is a step of the WakeSource or invisible.
LEMMA NextRefines == TableInv /\ [Next]_vars => [W!Next]_(W!vars)
<1> SUFFICES ASSUME TableInv, [Next]_vars PROVE [W!Next]_(W!vars)
  OBVIOUS
<1>0. /\ events \in [Fds -> SUBSET Events] /\ pc \in [Threads -> {"run", "handle", "trigger", "count"}]
      /\ Directions \subseteq Events
  BY IOAssumption DEF TableInv, Types
<1>1. ASSUME NEW t \in Threads, NEW fd \in Fds, NEW e \in Directions, NEW w \in Waiters,
             addEvent(t, fd, e, w)
      PROVE  W!Next
  <2>1. /\ events' = [events EXCEPT ![fd] = @ \cup {e}] /\ pc' = pc /\ e \notin events[fd]
        /\ m_pendingEventCount' = m_pendingEventCount + 1
    BY <1>1 DEF addEvent, threads
  <2>2. Registered' = Registered \cup {<<fd, e>>} /\ <<fd, e>> \notin Registered
    BY <1>0, <2>1 DEF Registered
  <2>3. W!Register(<<fd, e>>)
    BY <2>1, <2>2 DEF W!Register, Counting
  <2> QED BY <1>0, <2>3 DEF W!Next
<1>2. ASSUME NEW t \in Threads, NEW fd \in Fds, NEW e \in Directions, delEvent(t, fd, e)
      PROVE  W!Next
  <2>1. /\ events' = [events EXCEPT ![fd] = @ \ {e}] /\ pc' = pc /\ e \in events[fd]
        /\ m_pendingEventCount' = m_pendingEventCount - 1
    BY <1>2 DEF delEvent, threads
  <2>2. Registered' = Registered \ {<<fd, e>>} /\ <<fd, e>> \in Registered
    BY <1>0, <2>1 DEF Registered
  <2>3. W!Withdraw(<<fd, e>>)
    BY <2>1, <2>2 DEF W!Withdraw, Counting
  <2> QED BY <1>0, <2>3 DEF W!Next
<1>3. ASSUME NEW t \in Threads, NEW fd \in Fds,
             (\E e \in Directions : cancelEvent(t, fd, e)) \/ cancekAll(t, fd)
      PROVE  UNCHANGED W!vars
  <2>1. /\ pc[t] = "run" /\ pc' = [pc EXCEPT ![t] = "trigger"] /\ events' = events
        /\ m_pendingEventCount' = m_pendingEventCount
    BY <1>3, Zenon DEF cancelEvent, cancekAll, Calling, StartTriggers
  <2> QED BY <1>0, <2>1, Invisible
<1>4. ASSUME NEW t \in Threads, EpollWait(t) PROVE UNCHANGED W!vars
  BY <1>0, <1>4, Invisible, Zenon DEF EpollWait, table
<1>5. ASSUME NEW t \in Threads, NEW fd \in Fds, HandleFd(t, fd) PROVE UNCHANGED W!vars
  <2>1. /\ pc[t] = "handle" /\ events' = events /\ m_pendingEventCount' = m_pendingEventCount
        /\ \/ pc' = [pc EXCEPT ![t] = Continue(t, batch'[t])]
           \/ pc' = [pc EXCEPT ![t] = "trigger"]
    BY <1>5 DEF HandleFd, StartTriggers
  <2> QED BY <1>0, <2>1, Invisible DEF Continue
<1>6. ASSUME NEW t \in Threads, triggerEvent(t) PROVE [W!Next]_(W!vars)
  <2> DEFINE fd == fd_ctx[t]
             e  == Current(t)
  <2>1. pc[t] = "trigger" /\ fd \in Fds /\ e \in Events
    BY <1>6, Zenon DEF triggerEvent, TableInv, Types, Locks, Current, Events
  <2>2. CASE e \notin events[fd]
    BY <1>6, <2>2, Invisible DEF triggerEvent, table, threads
  <2>3. CASE e \in events[fd]
    <3>1. /\ events' = [events EXCEPT ![fd] = @ \ {e}]
          /\ pc' = [pc EXCEPT ![t] = "count"] /\ m_pendingEventCount' = m_pendingEventCount
      BY <1>6, <2>3 DEF triggerEvent
    <3> HIDE DEF e, fd
    <3>2. Registered' = Registered \ {<<fd, e>>} /\ <<fd, e>> \in Registered
      BY <1>0, <2>1, <2>3, <3>1 DEF Registered
    <3>3. Counting' = Counting \cup {t} /\ t \notin Counting
      BY <1>0, <2>1, <3>1 DEF Counting
    <3>4. W!Wake(t, <<fd, e>>)
      BY <3>1, <3>2, <3>3 DEF W!Wake
    <3> QED BY <2>1, <3>4 DEF W!Next
  <2> QED BY <2>2, <2>3
<1>7. ASSUME NEW t \in Threads, Count(t) PROVE W!Next
  <2>1. /\ pc[t] = "count" /\ events' = events
        /\ m_pendingEventCount' = m_pendingEventCount - 1
        /\ \/ pc' = [pc EXCEPT ![t] = Continue(t, batch[t])]
           \/ pc' = [pc EXCEPT ![t] = "trigger"]
    BY <1>7 DEF Count
  <2>2. Counting' = Counting \ {t} /\ t \in Counting
    BY <1>0, <2>1 DEF Counting, Continue
  <2>3. W!Count(t)
    BY <2>1, <2>2 DEF W!Count, Registered
  <2> QED BY <2>3 DEF W!Next
<1>8. ASSUME \/ \E w \in Waiters : Resume(w)
             \/ \E fd \in Fds, e \in Events \cup {Hup} : Arrive(fd, e)
             \/ \E fd \in Fds, e \in Events : Drain(fd, e)
             \/ UNCHANGED vars
      PROVE  UNCHANGED W!vars
  <2>1. UNCHANGED <<events, pc, m_pendingEventCount>>
    BY <1>8 DEF Resume, Arrive, Drain, vars, table, threads
  <2> QED BY <2>1, Invisible
<1>9. ASSUME NEW t \in Threads, Call(t) PROVE [W!Next]_(W!vars)
  BY <1>1, <1>2, <1>3, <1>9 DEF Call
<1>10. ASSUME NEW t \in Threads, Handle(t) PROVE [W!Next]_(W!vars)
  BY <1>5, <1>6, <1>7, <1>10 DEF Handle
<1> QED BY <1>4, <1>8, <1>9, <1>10 DEF Next

\* The event table implements the contract the scheduler relies on.
THEOREM Refinement == Spec => ImplementsWakeSource
<1>1. Init => W!Init
  BY DEF Init, W!Init, Registered, Counting
<1> QED BY <1>1, InitInv, NextInv, NextRefines, PTL DEF Spec, ImplementsWakeSource, W!Spec

-----------------------------------------------------------------------------
(* The count of a wake source is exact, however many threads wake *)

\* The sets that are counted stay finite.
CountInv ==
  /\ Registered \subseteq Fds \X Events /\ Counting \subseteq Threads /\ m_pendingEventCount \in Nat
  /\ m_pendingEventCount = Cardinality(Registered) + Cardinality(Counting)
  /\ IsFiniteSet(Registered) /\ IsFiniteSet(Counting)

\* Adding an element adds one, removing an element removes one.
LEMMA OneMoreOrLess ==
  ASSUME NEW S, IsFiniteSet(S), NEW x
  PROVE  /\ Cardinality(S) \in Nat
         /\ IsFiniteSet(S \cup {x}) /\ IsFiniteSet(S \ {x})
         /\ x \notin S => Cardinality(S \cup {x}) = Cardinality(S) + 1
         /\ x \in S => Cardinality(S \ {x}) = Cardinality(S) - 1 /\ Cardinality(S) >= 1
<1>1. Cardinality(S) \in Nat
  BY FS_CardinalityType
<1>2. IsFiniteSet(S \cup {x}) /\ (x \notin S => Cardinality(S \cup {x}) = Cardinality(S) + 1)
  BY FS_AddElement
<1>3. IsFiniteSet(S \ {x}) /\ (x \in S => Cardinality(S \ {x}) = Cardinality(S) - 1)
  BY FS_RemoveElement
<1>4. x \in S => Cardinality(S) # 0
  BY FS_EmptySet
<1> QED BY <1>1, <1>2, <1>3, <1>4

\* Every step of a wake source changes the count with the sets.
LEMMA NextCountInv == CountInv /\ [W!Next]_(W!vars) => CountInv'
<1> SUFFICES ASSUME CountInv, [W!Next]_(W!vars) PROVE CountInv'
  OBVIOUS
<1>0. /\ Registered \subseteq Fds \X Events /\ Counting \subseteq Threads
      /\ m_pendingEventCount \in Nat
      /\ m_pendingEventCount = Cardinality(Registered) + Cardinality(Counting)
      /\ IsFiniteSet(Registered) /\ IsFiniteSet(Counting)
  BY DEF CountInv
<1>1. Cardinality(Registered) \in Nat /\ Cardinality(Counting) \in Nat
  BY <1>0, FS_CardinalityType
<1>2. ASSUME NEW x \in Fds \X Events, W!Register(x) PROVE CountInv'
  <2>1. /\ IsFiniteSet(Registered') /\ Registered' \subseteq Fds \X Events
        /\ Cardinality(Registered') = Cardinality(Registered) + 1
    BY <1>0, <1>2, OneMoreOrLess DEF W!Register
  <2>2. Counting' = Counting /\ m_pendingEventCount' = m_pendingEventCount + 1
    BY <1>2 DEF W!Register
  <2> QED BY <1>0, <1>1, <2>1, <2>2 DEF CountInv
<1>3. ASSUME NEW x \in Fds \X Events, W!Withdraw(x) PROVE CountInv'
  <2>1. /\ IsFiniteSet(Registered') /\ Registered' \subseteq Fds \X Events
        /\ Cardinality(Registered') = Cardinality(Registered) - 1 /\ Cardinality(Registered) >= 1
    BY <1>0, <1>3, OneMoreOrLess, SMTT(20) DEF W!Withdraw
  <2>2. Counting' = Counting /\ m_pendingEventCount' = m_pendingEventCount - 1
    BY <1>3 DEF W!Withdraw
  <2> QED BY <1>0, <1>1, <2>1, <2>2 DEF CountInv
<1>4. ASSUME NEW a \in Threads, NEW x \in Fds \X Events, W!Wake(a, x) PROVE CountInv'
  <2>1. /\ IsFiniteSet(Registered') /\ Cardinality(Registered') = Cardinality(Registered) - 1
        /\ Registered' \subseteq Fds \X Events
    BY <1>0, <1>4, OneMoreOrLess DEF W!Wake
  <2>2. /\ IsFiniteSet(Counting') /\ Cardinality(Counting') = Cardinality(Counting) + 1
        /\ Counting' \subseteq Threads /\ m_pendingEventCount' = m_pendingEventCount
    BY <1>0, <1>4, OneMoreOrLess DEF W!Wake
  <2> QED BY <1>0, <1>1, <2>1, <2>2 DEF CountInv
<1>5. ASSUME NEW a \in Threads, W!Count(a) PROVE CountInv'
  <2>1. /\ IsFiniteSet(Counting') /\ Counting' \subseteq Threads
        /\ Cardinality(Counting') = Cardinality(Counting) - 1 /\ Cardinality(Counting) >= 1
    BY <1>0, <1>5, OneMoreOrLess DEF W!Count
  <2>2. Registered' = Registered /\ m_pendingEventCount' = m_pendingEventCount - 1
    BY <1>5 DEF W!Count
  <2> QED BY <1>0, <1>1, <2>1, <2>2 DEF CountInv
<1>6. CASE UNCHANGED (W!vars)
  BY <1>0, <1>6 DEF W!vars, CountInv
<1> QED BY <1>2, <1>3, <1>4, <1>5, <1>6 DEF W!Next

-----------------------------------------------------------------------------
(* triggerEvent's ASSERT *)

\* What evs says of fd and the table does not is known to be out of date.
Excused(t, fd, evs) == \A e \in evs \ events[fd] : <<fd, e>> \in outdated[t]

\* So it is with every entry of an array and with what is left to be triggered;
\* the entry of an fd that is being triggered is done with.
EntriesExcused ==
  /\ outdated \in [Threads -> SUBSET (Fds \X Events)]
  /\ \A t \in Threads, fd \in Fds : Excused(t, fd, RealEvents(batch[t][fd]))
  /\ \A t \in Threads : fd_ctx[t] \in Fds =>
       Excused(t, fd_ctx[t], todo[t]) /\ RealEvents(batch[t][fd_ctx[t]]) = {}

\* An empty entry claims nothing.
LEMMA NoClaim == RealEvents({}) = {}
BY DEF RealEvents

\* A step that takes event e of fd out of the table and tells every array.
LEMMA OutdatesStep ==
  ASSUME TableInv, EntriesExcused, NEW fd \in Fds, NEW e \in Events,
         events' = [events EXCEPT ![fd] = @ \ {e}], Outdates(fd, e), batch' = batch
  PROVE  /\ outdated' \in [Threads -> SUBSET (Fds \X Events)]
         /\ \A t \in Threads : outdated[t] \subseteq outdated'[t]
         /\ \A t \in Threads, f \in Fds : Excused(t, f, RealEvents(batch[t][f]))'
<1>1. /\ outdated \in [Threads -> SUBSET (Fds \X Events)] /\ <<fd, e>> \in Fds \X Events
      /\ outdated' = [u \in Threads |-> IF e \in RealEvents(batch[u][fd])
                                        THEN outdated[u] \cup {<<fd, e>>} ELSE outdated[u]]
  BY DEF EntriesExcused, Outdates
<1>2. \A t \in Threads : /\ outdated[t] \subseteq outdated'[t] /\ outdated'[t] \in SUBSET (Fds \X Events)
                         /\ e \in RealEvents(batch[t][fd]) => <<fd, e>> \in outdated'[t]
  BY <1>1
<1>3. outdated' \in [Threads -> SUBSET (Fds \X Events)]
  BY <1>1, <1>2
<1>4. ASSUME NEW t \in Threads, NEW f \in Fds, NEW x \in RealEvents(batch[t][f]) \ events'[f]
      PROVE  <<f, x>> \in outdated'[t]
  <2>1. CASE f = fd /\ x = e
    BY <1>2, <1>4, <2>1
  <2>2. CASE ~(f = fd /\ x = e)
    <3>1. x \notin events[f]
      BY <1>4, <2>2 DEF TableInv, Types
    <3>2. <<f, x>> \in outdated[t]
      BY <1>4, <3>1 DEF EntriesExcused, Excused
    <3> QED BY <1>2, <3>2
  <2> QED BY <2>1, <2>2
<1> QED BY <1>2, <1>3, <1>4 DEF Excused

\* Every step keeps EntriesExcused.
LEMMA NextExcused ==
  ASSUME TableInv, EntriesExcused, [Next]_vars
  PROVE  EntriesExcused'
<1>0. /\ Types /\ Locks /\ Directions \subseteq Events /\ Hup \notin Events
      /\ \A fd \in Fds : interest[fd] \subseteq events[fd]
      /\ outdated \in [Threads -> SUBSET (Fds \X Events)]
  BY IOAssumption, SMTT(20) DEF TableInv, Armed, EntriesExcused
<1>1. ASSUME UNCHANGED <<events, batch, fd_ctx, todo, outdated>> PROVE EntriesExcused'
  BY <1>1 DEF EntriesExcused, Excused
<1>2. ASSUME NEW t \in Threads, NEW fd \in Fds, NEW e \in Directions, NEW w \in Waiters,
             addEvent(t, fd, e, w)
      PROVE  EntriesExcused'
  <2>1. /\ events' = [events EXCEPT ![fd] = @ \cup {e}]
        /\ UNCHANGED <<batch, todo, fd_ctx>>
        /\ outdated' = [u \in Threads |-> outdated[u] \ {<<fd, e>>}]
    BY <1>2, SMTT(20) DEF addEvent, threads, Renews
  <2>2. /\ \A f \in Fds : events[f] \subseteq events'[f] /\ e \in events'[fd]
        /\ \A u \in Threads : outdated'[u] = outdated[u] \ {<<fd, e>>}
        /\ outdated' \in [Threads -> SUBSET (Fds \X Events)]
    BY <1>0, <2>1 DEF Types
  <2>3. ASSUME NEW u \in Threads, NEW f \in Fds, NEW evs, Excused(u, f, evs)
        PROVE  \A x \in evs \ events'[f] : <<f, x>> \in outdated'[u]
    BY <2>2, <2>3 DEF Excused
  <2>4. \A u \in Threads, f \in Fds : Excused(u, f, RealEvents(batch[u][f]))'
    BY <2>1, <2>3, Zenon DEF EntriesExcused, Excused
  <2>5. ASSUME NEW u \in Threads, fd_ctx[u] \in Fds
        PROVE  Excused(u, fd_ctx[u], todo[u])' /\ RealEvents(batch[u][fd_ctx[u]])' = {}
    <3>1. Excused(u, fd_ctx[u], todo[u]) /\ RealEvents(batch[u][fd_ctx[u]]) = {}
      BY <2>5, Zenon DEF EntriesExcused
    <3> QED BY <2>1, <2>3, <2>5, <3>1, Zenon DEF Excused
  <2>6. fd_ctx' = fd_ctx
    BY <2>1
  <2> QED BY <2>2, <2>4, <2>5, <2>6, Zenon DEF EntriesExcused
<1>3. ASSUME NEW t \in Threads, NEW fd \in Fds, NEW e \in Directions, delEvent(t, fd, e)
      PROVE  EntriesExcused'
  <2>1. /\ events' = [events EXCEPT ![fd] = @ \ {e}] /\ mutex[fd] = None /\ e \in Events
        /\ UNCHANGED <<batch, todo, fd_ctx>> /\ Outdates(fd, e)
    BY <1>0, <1>3, SMTT(20) DEF delEvent, Calling, threads
  <2>2. \A u \in Threads : fd_ctx[u] \in Fds => fd_ctx[u] # fd /\ events'[fd_ctx[u]] = events[fd_ctx[u]]
    BY <1>0, <2>1, IOAssumption DEF Locks, Types
  <2>3. /\ outdated' \in [Threads -> SUBSET (Fds \X Events)]
        /\ \A u \in Threads : outdated[u] \subseteq outdated'[u]
        /\ \A u \in Threads, f \in Fds : Excused(u, f, RealEvents(batch[u][f]))'
    BY <2>1, OutdatesStep, Zenon
  <2> QED BY <2>1, <2>2, <2>3, Zenon DEF EntriesExcused, Excused
<1>4. ASSUME NEW t \in Threads, NEW fd \in Fds, NEW evs, StartTriggers(t, fd, evs),
             Excused(t, fd, evs), UNCHANGED <<events, outdated>>,
             batch' \in {batch, [batch EXCEPT ![t][fd] = {}]}, batch'[t][fd] = {}
      PROVE  EntriesExcused'
  <2>0. /\ batch \in [Threads -> [Fds -> SUBSET (Events \cup {Hup})]]
        /\ batch' = batch \/ batch' = [batch EXCEPT ![t][fd] = {}]
    BY <1>0, <1>4, Zenon DEF Types
  <2>1. \A u \in Threads, f \in Fds : batch'[u][f] \in {batch[u][f], {}}
    BY <2>0
  <2>2. \A u \in Threads, f \in Fds : RealEvents(batch'[u][f]) \subseteq RealEvents(batch[u][f])
    BY <2>1, NoClaim, Zenon
  <2>3. \A u \in Threads, f \in Fds : Excused(u, f, RealEvents(batch[u][f]))'
    BY <1>4, <2>2 DEF EntriesExcused, Excused
  <2>4. ASSUME NEW u \in Threads, fd_ctx'[u] \in Fds
        PROVE  Excused(u, fd_ctx[u], todo[u])' /\ RealEvents(batch[u][fd_ctx[u]])' = {}
    <3>1. CASE u = t
      <4>1. fd_ctx'[u] = fd /\ todo'[u] = evs
        BY <1>0, <1>4, <3>1 DEF StartTriggers, Types
      <4> QED BY <1>4, <3>1, <4>1, NoClaim, Zenon DEF Excused
    <3>2. CASE u # t
      <4>1. fd_ctx'[u] = fd_ctx[u] /\ todo'[u] = todo[u]
        BY <1>0, <1>4, <3>2 DEF StartTriggers, Types
      <4> QED BY <1>4, <2>2, <2>4, <4>1, Zenon DEF EntriesExcused, Excused
    <3> QED BY <3>1, <3>2
  <2> QED BY <1>4, <2>3, <2>4, Zenon DEF EntriesExcused
<1>5. ASSUME NEW t \in Threads, NEW fd \in Fds,
             (\E e \in Directions : cancelEvent(t, fd, e)) \/ cancekAll(t, fd)
      PROVE  EntriesExcused'
  <2>1. \E evs : /\ StartTriggers(t, fd, evs) /\ evs \subseteq events[fd]
                 /\ UNCHANGED <<events, batch, outdated>> /\ pc[t] = "run"
    BY <1>5, Zenon DEF cancelEvent, cancekAll, Calling
  <2>2. batch'[t][fd] = {}
    BY <1>0, <2>1 DEF Locks
  <2> QED BY <1>4, <2>1, <2>2 DEF Excused
<1>6. ASSUME NEW t \in Threads, EpollWait(t) PROVE EntriesExcused'
  <2>1. /\ batch' = [batch EXCEPT ![t] = E!Found] /\ outdated' = [outdated EXCEPT ![t] = Widened]
        /\ pc[t] = "run" /\ UNCHANGED <<events, todo, fd_ctx>>
    BY <1>6, Zenon DEF EpollWait, table
  <2>2. fd_ctx[t] \notin Fds /\ Widened \in SUBSET (Fds \X Events)
    BY <1>0, <2>1 DEF Locks, Widened
  <2>3. \A f \in Fds : \A x \in RealEvents(E!Found[f]) \ events[f] : <<f, x>> \in Widened
    <3> SUFFICES ASSUME NEW f \in Fds, NEW x \in RealEvents(E!Found[f]) \ events[f]
                 PROVE  <<f, x>> \in Widened
      BY Zenon
    <3>1. E!Found[f] \subseteq interest[f] \cup {Hup}
      BY DEF E!Found, E!Reported
    <3>2. Hup \in E!Found[f]
      BY <1>0, <3>1 DEF RealEvents
    <3>3. x \in Events
      BY <3>2 DEF RealEvents
    <3> QED BY <3>2, <3>3 DEF Widened
  <2>4. \A u \in Threads : /\ u = t => batch'[u] = E!Found /\ outdated'[u] = Widened
                           /\ u # t => batch'[u] = batch[u] /\ outdated'[u] = outdated[u]
    BY <1>0, <2>1 DEF Types
  <2>5. outdated' \in [Threads -> SUBSET (Fds \X Events)]
    BY <1>0, <2>1, <2>2
  <2> HIDE DEF Widened
  <2> QED BY <2>1, <2>2, <2>3, <2>4, <2>5 DEF EntriesExcused, Excused
<1>7. ASSUME NEW t \in Threads, NEW fd \in Fds, HandleFd(t, fd) PROVE EntriesExcused'
  <2> DEFINE real == RealEvents(batch[t][fd])
             op   == OpFor(events[fd] \ real)
  <2>1. /\ batch' = [batch EXCEPT ![t][fd] = {}] /\ events' = events /\ pc[t] = "handle"
    BY <1>7, Zenon DEF HandleFd
  <2>2. /\ Excused(t, fd, real) /\ batch'[t][fd] = {}
        /\ \A u \in Threads, f \in Fds : u # t \/ f # fd => batch'[u][f] = batch[u][f]
    BY <1>0, <2>1 DEF EntriesExcused, Types
  <2>3. CASE events[fd] \cap real = {} \/ E!CtlFails(op, fd)
    <3>1. /\ outdated' = [outdated EXCEPT ![t] = {p \in @ : p[1] # fd}]
          /\ UNCHANGED <<todo, fd_ctx>>
      BY <1>7, <2>3, Zenon DEF HandleFd, Forget
    <3>2. /\ outdated' \in [Threads -> SUBSET (Fds \X Events)]
          /\ \A u \in Threads, f \in Fds, x \in Events :
               <<f, x>> \in outdated[u] /\ (u # t \/ f # fd) => <<f, x>> \in outdated'[u]
      BY <1>0, <3>1
    <3>3. \A u \in Threads, f \in Fds : \A x \in RealEvents(batch[u][f]) : x \in Events
      BY <1>0 DEF RealEvents, Types
    <3>4. \A u \in Threads, f \in Fds : Excused(u, f, RealEvents(batch[u][f]))'
      <4> SUFFICES ASSUME NEW u \in Threads, NEW f \in Fds, NEW x \in RealEvents(batch'[u][f]) \ events[f]
                   PROVE  <<f, x>> \in outdated'[u]
        BY <2>1, Zenon DEF Excused
      <4>1. u # t \/ f # fd
        BY <2>2, NoClaim, Zenon
      <4>2. x \in RealEvents(batch[u][f]) \ events[f]
        BY <2>2, <4>1
      <4> QED BY <3>2, <3>3, <4>1, <4>2 DEF EntriesExcused, Excused
    <3>5. fd_ctx[t] \notin Fds
      BY <1>0, <2>1 DEF Locks
    <3>6. \A u \in Threads \ {t} : outdated'[u] = outdated[u] /\ batch'[u] = batch[u]
      BY <1>0, <2>1, <3>1 DEF Types
    <3> QED BY <2>1, <3>1, <3>2, <3>4, <3>5, <3>6, Zenon DEF EntriesExcused, Excused
  <2>4. CASE ~(events[fd] \cap real = {} \/ E!CtlFails(op, fd))
    <3>1. StartTriggers(t, fd, real) /\ outdated' = outdated
      BY <1>7, <2>4 DEF HandleFd
    <3> HIDE DEF real
    <3> QED BY <1>4, <2>1, <2>2, <3>1, Zenon
  <2> QED BY <2>3, <2>4
<1>8. ASSUME NEW t \in Threads, triggerEvent(t) PROVE EntriesExcused'
  <2> DEFINE fd == fd_ctx[t]
             e  == Current(t)
  <2>1. pc[t] = "trigger" /\ fd \in Fds /\ mutex[fd] = t /\ e \in todo[t] /\ e \in Events
    <3>1. pc[t] = "trigger"
      BY <1>8 DEF triggerEvent
    <3> QED BY <1>0, <3>1 DEF Types, Locks, Current, Events
  <2>2. CASE e \notin events[fd]
    BY <1>1, <1>8, <2>2 DEF triggerEvent, table, threads
  <2>3. CASE e \in events[fd]
    <3>1. /\ events' = [events EXCEPT ![fd] = @ \ {e}]
          /\ todo' = [todo EXCEPT ![t] = @ \ {e}] /\ Outdates(fd, e)
          /\ UNCHANGED <<batch, fd_ctx>>
      BY <1>8, <2>3 DEF triggerEvent
    <3> HIDE DEF e
    <3>2. \A u \in Threads \ {t} : /\ fd_ctx[u] \in Fds => fd_ctx[u] # fd /\ events'[fd_ctx[u]] = events[fd_ctx[u]]
                                   /\ todo'[u] = todo[u]
      BY <1>0, <2>1, <3>1, SMTT(20) DEF Locks, Types
    <3>3. /\ outdated' \in [Threads -> SUBSET (Fds \X Events)]
          /\ \A u \in Threads : outdated[u] \subseteq outdated'[u]
          /\ \A u \in Threads, f \in Fds : Excused(u, f, RealEvents(batch[u][f]))'
      BY <2>1, <3>1, OutdatesStep, Zenon
    <3>4. todo'[t] \ events'[fd] \subseteq todo[t] \ events[fd]
      BY <1>0, <2>1, <3>1 DEF Types
    <3>5. ASSUME NEW u \in Threads, fd_ctx[u] \in Fds
          PROVE  /\ \A x \in todo'[u] \ events'[fd_ctx[u]] : <<fd_ctx[u], x>> \in outdated'[u]
                 /\ RealEvents(batch[u][fd_ctx[u]]) = {}
      BY <3>2, <3>3, <3>4, <3>5, Zenon DEF EntriesExcused, Excused
    <3> QED BY <3>1, <3>3, <3>5, Zenon DEF EntriesExcused, Excused
  <2> QED BY <2>2, <2>3
<1>9. ASSUME NEW t \in Threads, Count(t) PROVE EntriesExcused'
  <2>1. pc[t] = "count" /\ UNCHANGED <<events, batch, todo>>
    BY <1>9, Zenon DEF Count
  <2>2. CASE todo[t] # {}
    BY <1>1, <1>9, <2>1, <2>2, Zenon DEF Count
  <2>3. CASE todo[t] = {}
    <3> DEFINE fd == fd_ctx[t]
    <3>1. /\ fd_ctx' = [fd_ctx EXCEPT ![t] = None]
          /\ outdated' = [outdated EXCEPT ![t] = {p \in @ : p[1] # fd}]
      BY <1>9, <2>3, Zenon DEF Count, Forget
    <3>2. fd \in Fds /\ RealEvents(batch[t][fd]) = {}
      BY <1>0, <2>1 DEF Locks, EntriesExcused
    <3>3. /\ outdated' \in [Threads -> SUBSET (Fds \X Events)]
          /\ \A u \in Threads \ {t} : outdated'[u] = outdated[u] /\ fd_ctx'[u] = fd_ctx[u]
          /\ \A f \in Fds, x \in Events : <<f, x>> \in outdated[t] /\ f # fd => <<f, x>> \in outdated'[t]
          /\ fd_ctx'[t] \notin Fds
      BY <1>0, <3>1, IOAssumption DEF Types
    <3>4. ASSUME NEW u \in Threads, NEW f \in Fds, NEW x \in RealEvents(batch[u][f]) \ events[f]
          PROVE  <<f, x>> \in outdated'[u]
      <4>1. <<f, x>> \in outdated[u] /\ x \in Events
        BY <1>0, <3>4 DEF EntriesExcused, Excused, RealEvents, Types
      <4> QED BY <3>2, <3>3, <3>4, <4>1
    <3> QED BY <2>1, <3>3, <3>4, Zenon DEF EntriesExcused, Excused
  <2> QED BY <2>2, <2>3
<1>10. ASSUME \/ \E w \in Waiters : Resume(w)
              \/ \E fd \in Fds, e \in Events \cup {Hup} : Arrive(fd, e)
              \/ \E fd \in Fds, e \in Events : Drain(fd, e)
              \/ UNCHANGED vars
       PROVE  EntriesExcused'
  BY <1>1, <1>10 DEF Resume, Arrive, Drain, vars, table, threads
<1>11. ASSUME NEW t \in Threads, Call(t) PROVE EntriesExcused'
  BY <1>2, <1>3, <1>5, <1>11 DEF Call
<1>12. ASSUME NEW t \in Threads, Handle(t) PROVE EntriesExcused'
  BY <1>7, <1>8, <1>9, <1>12 DEF Handle
<1> QED BY <1>6, <1>10, <1>11, <1>12, SMTT(20) DEF Next

\* triggerEvent's ASSERT fails only for a direction that a hangup was widened to,
\* or that has left the table since the thread's epoll_wait: for any descriptors,
\* threads, waiters and directions.
THEOREM AssertExplained == Spec => []AssertNeedsOutdated
<1>1. Init => EntriesExcused
  BY NoClaim, IOAssumption DEF Init, EntriesExcused, Excused
<1>2. TableInv /\ EntriesExcused /\ [Next]_vars => EntriesExcused'
  BY NextExcused
<1>3. TableInv /\ EntriesExcused => AssertNeedsOutdated
  BY DEF TableInv, Locks, EntriesExcused, Excused, AssertNeedsOutdated
<1> QED BY <1>1, <1>2, <1>3, InitInv, NextInv, PTL DEF Spec

-----------------------------------------------------------------------------
(* Types and the count *)

\* m_pendingEventCount is the number of registered events and of wake-ups that
\* are half done, so that stopping() is never misled by it.
THEOREM PendingCorrect == Spec => [](TypeOK /\ PendingExact)
<1>1. W!Init => CountInv
  BY FS_EmptySet DEF W!Init, CountInv
<1>2. Spec => []CountInv
  BY <1>1, NextCountInv, Refinement, PTL DEF ImplementsWakeSource, W!Spec
<1>3. CountInv => m_pendingEventCount \in Nat /\ PendingExact
  BY DEF CountInv, PendingExact, W!PendingExact, W!Cardinality, Cardinality
<1>4. TableInv /\ EntriesExcused /\ m_pendingEventCount \in Nat => TypeOK
  BY DEF TableInv, Types, TypeOK, EntriesExcused
<1>5. Init => EntriesExcused
  BY NoClaim, IOAssumption DEF Init, EntriesExcused, Excused
<1>6. TableInv /\ EntriesExcused /\ [Next]_vars => EntriesExcused'
  BY NextExcused
<1>7. Spec => [](TableInv /\ EntriesExcused)
  BY <1>5, <1>6, InitInv, NextInv, PTL DEF Spec
<1> QED BY <1>2, <1>3, <1>4, <1>7, PTL
=============================================================================
