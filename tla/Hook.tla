-------------------------------- MODULE Hook --------------------------------
(***************************************************************************)
(* The hooked system calls (hook.cpp) and the table of descriptors they    *)
(* keep (fd_manager.cpp): recv, send and their like, connect, sleep,       *)
(* socket, close, setsockopt and fcntl, called by fibers of an IOManager   *)
(* with m_threadCount threads.                                             *)
(*                                                                         *)
(* A fiber in a call goes from one shared access to the next; between them *)
(* other threads run.  Event table and timers are taken at their word:     *)
(* module IOManager shows that a registered event that happens is handed   *)
(* out, TimerManager that a timer that is due is.  YieldToHold is one      *)
(* step, its two halves are the matter of module Scheduler.  The threads   *)
(* run fibers, so hooks are enabled; a call on a descriptor that has no    *)
(* FdCtx, or that the user made non-blocking, is the plain system call and *)
(* changes nothing here.  Callbacks of one call that are equal are one:    *)
(* the second finds the call cancelled, or gone.                           *)
(***************************************************************************)
EXTENDS FiniteSets, Naturals

CONSTANTS Fibers, Fds,
          Ops,           \* the calls they make
          ThreadCounts,  \* sizes of the thread pool
          None

Events == {"READ", "WRITE"}
EventOf(op) == IF op = "recv" THEN "READ" ELSE "WRITE"

ASSUME HookAssumption ==
  /\ Ops \subseteq {"recv", "send", "connect", "sleep"}
  /\ ThreadCounts \subseteq Nat \ {0} /\ None \notin Fibers /\ None \notin Fds

VARIABLES
  m_threadCount,
  m_datas,        \* FdManager: each fd's FdCtx, or None
  open, ready,    \* the kernel: sockets, and calls that would not block
  context,        \* IOManager: who waits for each event of each fd, or None
  interest,       \* epoll
  pc, call,       \* per fiber: where it is in which call
  timer,          \* has its call an armed timer?
  cancelled,      \* fibers whose tinfo->cancelled is set
  fired,          \* timer callbacks that were handed out and have not finished
  queued,         \* fibers in the scheduler's queue
  expired,        \* history: fibers with a call one of whose timers expired
  failed          \* addEvent's ASSERT ended the process

kernel == <<open, ready, interest>>
fiber  == <<pc, call, timer>>
cbs    == <<cancelled, fired, expired>>
vars   == <<m_threadCount, m_datas, kernel, context, fiber, cbs, queued, failed>>

FdCtx == [m_timeout : BOOLEAN]
Calls == [op : Ops \cup {"close", None}, fd : Fds \cup {None}, to : BOOLEAN, old : BOOLEAN]
NoCall == [op |-> None, fd |-> None, to |-> FALSE, old |-> FALSE]

\* A callback of do_io's timer: whose, for which event, and whether the
\* timer_info its weak pointer names still exists.
Callback == [f : Fibers, fd : Fds \cup {None}, e : Events, alive : BOOLEAN,
             at : {"queued", "cancel"}]

Init ==
  /\ m_threadCount \in ThreadCounts
  /\ m_datas = [fd \in Fds |-> None]
  /\ open = {} /\ ready = {} /\ interest = {}
  /\ context = [p \in Fds \X Events |-> None]
  /\ pc = [f \in Fibers |-> "user"] /\ call = [f \in Fibers |-> NoCall]
  /\ timer = [f \in Fibers |-> FALSE]
  /\ cancelled = {} /\ fired = {} /\ expired = {} /\ queued = {} /\ failed = FALSE

\* Some thread has nothing to run but the next task, or idle().
Running == {f \in Fibers : pc[f] \notin {"user", "hold"}}
           \cup {c \in fired : c.at = "cancel"}
ThreadFree == Cardinality(Running) < m_threadCount

Place(f) == <<call[f].fd, EventOf(call[f].op)>>
At(f, l) == pc[f] = l
Go(f, l) == pc' = [pc EXCEPT ![f] = l]

\* The call is over, and with it its timer_info.
Return(f) ==
  /\ Go(f, "user")
  /\ call' = [call EXCEPT ![f] = NoCall]
  /\ fired' = {IF c.f = f THEN [c EXCEPT !.alive = FALSE] ELSE c : c \in fired}
  /\ cancelled' = cancelled \ {f} /\ expired' = expired \ {f}

-----------------------------------------------------------------------------
(* do_io, connect_with_timeout, sleep *)

\* One fiber at a time reads a socket, and one writes it: the users' business.
Begin(f, op, fd) ==
  LET ctx == m_datas[fd]
  IN /\ At(f, "user") /\ ThreadFree
     /\ \A g \in Fibers : call[g].fd = fd /\ ~call[g].old => EventOf(call[g].op) # EventOf(op)
     /\ ctx # None
     /\ call' = [call EXCEPT ![f] = [op |-> op, fd |-> fd, old |-> FALSE,
                                     to |-> ctx.m_timeout \/ op = "connect"]]
     /\ Go(f, "try")
     /\ UNCHANGED <<m_threadCount, m_datas, kernel, context, timer, cbs, queued, failed>>

\* The system call itself.  It may take all there is.  What accept() returns is
\* a new descriptor: action socket.  A connection that is being set up is not
\* ready, and may be there or refused at once.
Try(f) ==
  LET p == Place(f)
  IN /\ At(f, "try")
     /\ \/ p[1] \notin open /\ Return(f) /\ UNCHANGED ready
        \/ /\ p[1] \in open /\ p \in ready /\ Return(f)
           /\ ready' \in {ready, ready \ {p}}
        \/ call[f].op = "connect" /\ Return(f) /\ UNCHANGED ready
        \/ /\ p[1] \in open /\ (p \notin ready \/ call[f].op = "connect")
           /\ Go(f, "again") /\ ready' = ready \ {p} /\ UNCHANGED <<call, cbs>>
     /\ UNCHANGED <<m_threadCount, m_datas, open, interest, context, timer, queued, failed>>

AddTimer(f) ==
  /\ At(f, "again") /\ Go(f, "armed")
  /\ timer' = [timer EXCEPT ![f] = call[f].to]
  /\ UNCHANGED <<m_threadCount, m_datas, kernel, context, call, cbs, queued, failed>>

\* epoll_ctl(op) for fd: ADD wants it not to be there, MOD and DEL to be there.
InEpoll(fd) == \E e \in Events : <<fd, e>> \in interest
Registered(fd) == \E e \in Events : context[<<fd, e>>] # None

AddEvent(f) ==
  LET p  == Place(f)
      fd == p[1]
  IN /\ At(f, "armed")
     /\ \/ /\ context[p] # None /\ failed' = TRUE
           /\ UNCHANGED <<interest, context, fiber, cbs>>
        \/ /\ context[p] = None /\ fd \in open /\ (Registered(fd) <=> InEpoll(fd))
           /\ context' = [context EXCEPT ![p] = f] /\ interest' = interest \cup {p}
           /\ Go(f, "hold") /\ UNCHANGED <<call, timer, cbs, failed>>
        \/ /\ context[p] = None /\ ~(fd \in open /\ (Registered(fd) <=> InEpoll(fd)))
           /\ timer' = [timer EXCEPT ![f] = FALSE]
           /\ Return(f)
           /\ UNCHANGED <<interest, context, failed>>
     /\ UNCHANGED <<m_threadCount, m_datas, open, ready, queued>>

sleep(f) ==
  /\ At(f, "user") /\ ThreadFree /\ Go(f, "hold")
  /\ call' = [call EXCEPT ![f] = [NoCall EXCEPT !.op = "sleep", !.to = TRUE]]
  /\ timer' = [timer EXCEPT ![f] = TRUE]
  /\ UNCHANGED <<m_threadCount, m_datas, kernel, context, cbs, queued, failed>>

\* The scheduler switches to the fiber again.
Resume(f) ==
  /\ At(f, "hold") /\ f \in queued /\ ThreadFree
  /\ queued' = queued \ {f} /\ Go(f, "back")
  /\ UNCHANGED <<m_threadCount, m_datas, kernel, context, call, timer, cbs, failed>>

\* The timer is cancelled.  Its callback may be on its way all the same; if it
\* has come this far, the call has timed out.
Woken(f) ==
  /\ At(f, "back") /\ timer' = [timer EXCEPT ![f] = FALSE]
  /\ IF f \in cancelled \/ call[f].op \in {"connect", "sleep"} THEN Return(f)
       ELSE Go(f, "try") /\ UNCHANGED <<call, cbs>>
  /\ UNCHANGED <<m_threadCount, m_datas, kernel, context, queued, failed>>

-----------------------------------------------------------------------------
(* Wake-ups *)

\* Mutant: the event stays registered.
TriggerKeeps(p) ==
  /\ queued' = queued \cup {context[p]}
  /\ interest' = interest \ {p} /\ UNCHANGED context

\* cancelEvent, or idle() with an event: the waiter goes to the queue.
Trigger(p) ==
  /\ queued' = queued \cup {context[p]}
  /\ context' = [context EXCEPT ![p] = None] /\ interest' = interest \ {p}

Deliver(p) ==
  /\ ThreadFree /\ p \in interest \cap ready /\ context[p] # None /\ Trigger(p)
  /\ UNCHANGED <<m_threadCount, m_datas, open, ready, fiber, cbs, failed>>

\* listExpiredCb in some thread's idle() hands the callback to the scheduler.
Expire(f) ==
  /\ ThreadFree /\ timer[f]
  /\ timer' = [timer EXCEPT ![f] = FALSE] /\ expired' = expired \cup {f}
  /\ fired' = fired \cup {[f |-> f, fd |-> call[f].fd, e |-> EventOf(call[f].op),
                           alive |-> TRUE, at |-> "queued"]}
  /\ UNCHANGED <<m_threadCount, m_datas, kernel, context, pc, call, cancelled, queued, failed>>

\* Mutant: the weak pointer is not looked at.
RunCallbackAlways(c) ==
  /\ ThreadFree /\ c \in fired /\ c.at = "queued"
  /\ \/ /\ c.fd = None /\ queued' = queued \cup {c.f}
        /\ fired' = fired \ {c} /\ UNCHANGED cancelled
     \/ /\ c.fd # None /\ cancelled' = cancelled \cup {c.f}
        /\ fired' = (fired \ {c}) \cup {[c EXCEPT !.at = "cancel"]} /\ UNCHANGED queued
  /\ UNCHANGED <<m_threadCount, m_datas, kernel, context, fiber, expired, failed>>

\* The callback of sleep's timer schedules the fiber, that of the others marks
\* the call and goes on to cancelEvent.
RunCallback(c) ==
  /\ ThreadFree /\ c \in fired /\ c.at = "queued"
  /\ \/ /\ c.fd = None /\ queued' = queued \cup {c.f}
        /\ fired' = fired \ {c} /\ UNCHANGED cancelled
     \/ /\ c.fd # None /\ (~c.alive \/ c.f \in cancelled)
        /\ fired' = fired \ {c} /\ UNCHANGED <<cancelled, queued>>
     \/ /\ c.fd # None /\ c.alive /\ c.f \notin cancelled
        /\ cancelled' = cancelled \cup {c.f}
        /\ fired' = (fired \ {c}) \cup {[c EXCEPT !.at = "cancel"]} /\ UNCHANGED queued
  /\ UNCHANGED <<m_threadCount, m_datas, kernel, context, fiber, expired, failed>>

CancelEvent(c) ==
  LET p == <<c.fd, c.e>>
  IN /\ c \in fired /\ c.at = "cancel" /\ fired' = fired \ {c}
     /\ IF context[p] # None /\ InEpoll(c.fd) THEN Trigger(p)
        ELSE UNCHANGED <<queued, context, interest>>
     /\ UNCHANGED <<m_threadCount, m_datas, open, ready, fiber, cancelled, expired, failed>>

-----------------------------------------------------------------------------
(* socket, close, setsockopt, fcntl *)

\* FdManager::get(fd, true) makes the FdCtx, if there is none, and with it the
\* socket non-blocking.
get(fd) == IF m_datas[fd] # None THEN m_datas
           ELSE [m_datas EXCEPT ![fd] = [m_timeout |-> FALSE]]
del(fd) == [m_datas EXCEPT ![fd] = None]

\* The kernel gives out a free number.
socket(f, fd) ==
  /\ At(f, "user") /\ ThreadFree /\ fd \notin open
  /\ open' = open \cup {fd} /\ m_datas' = get(fd)
  /\ UNCHANGED <<m_threadCount, ready, interest, context, fiber, cbs, queued, failed>>

\* Mutant: cancekAll is missing.
closeSilently(f, fd) ==
  /\ At(f, "user") /\ ThreadFree /\ fd \in open /\ m_datas[fd] # None
  /\ \A g \in Fibers : call[g].op = "close" => call[g].fd # fd
  /\ call' = [call EXCEPT ![f] = [NoCall EXCEPT !.op = "close", !.fd = fd, !.old = TRUE]]
  /\ Go(f, "close")
  /\ UNCHANGED <<m_threadCount, m_datas, kernel, context, timer, cbs, queued, failed>>

\* close: cancekAll wakes who waits ...  (No descriptor is closed twice at once.)
close(f, fd) ==
  /\ At(f, "user") /\ ThreadFree /\ fd \in open /\ m_datas[fd] # None
  /\ \A g \in Fibers : call[g].op = "close" => call[g].fd # fd
  /\ call' = [call EXCEPT ![f] = [NoCall EXCEPT !.op = "close", !.fd = fd, !.old = TRUE]]
  /\ Go(f, "close")
  /\ IF Registered(fd) /\ InEpoll(fd)
       THEN /\ queued' = queued \cup ({context[<<fd, e>>] : e \in Events} \ {None})
            /\ context' = [p \in Fds \X Events |-> IF p[1] = fd THEN None ELSE context[p]]
            /\ interest' = {p \in interest : p[1] # fd}
       ELSE UNCHANGED <<queued, context, interest>>
  /\ UNCHANGED <<m_threadCount, m_datas, open, ready, timer, cbs, failed>>

\* ... FdManager::del forgets the fd, and close_f takes it out of epoll as well.
\* Calls still at work on the number are calls on a socket that is gone.
close_f(f) ==
  LET fd == call[f].fd
  IN /\ At(f, "close") /\ Go(f, "user")
     /\ m_datas' = del(fd) /\ open' = open \ {fd}
     /\ ready' = {p \in ready : p[1] # fd} /\ interest' = {p \in interest : p[1] # fd}
     /\ call' = [[g \in Fibers |-> [call[g] EXCEPT !.old = @ \/ call[g].fd = fd]] EXCEPT ![f] = NoCall]
     /\ UNCHANGED <<m_threadCount, context, timer, cbs, queued, failed>>

\* setsockopt(SO_RCVTIMEO), fcntl(F_SETFL): the FdCtx remembers.
Configure(f, fd) ==
  /\ At(f, "user") /\ ThreadFree /\ m_datas[fd] # None
  /\ \E ctx \in FdCtx : m_datas' = [m_datas EXCEPT ![fd] = ctx]
  /\ UNCHANGED <<m_threadCount, kernel, context, fiber, cbs, queued, failed>>

Arrive(p) ==
  /\ p[1] \in open /\ ready' = ready \cup {p}
  /\ UNCHANGED <<m_threadCount, m_datas, open, interest, context, fiber, cbs, queued, failed>>

-----------------------------------------------------------------------------
InCall(f) == Try(f) \/ AddTimer(f) \/ AddEvent(f) \/ Woken(f) \/ close_f(f)

Next ==
  /\ ~failed
  /\ \/ \E f \in Fibers :
          \/ InCall(f) \/ Resume(f) \/ Expire(f) \/ ("sleep" \in Ops /\ sleep(f))
          \/ \E fd \in Fds : socket(f, fd) \/ close(f, fd) \/ Configure(f, fd)
                            \/ \E op \in Ops \ {"sleep"} : Begin(f, op, fd)
     \/ \E c \in fired : RunCallback(c) \/ CancelEvent(c)
     \/ \E p \in Fds \X Events : Deliver(p) \/ Arrive(p)

Spec == Init /\ [][Next]_vars

-----------------------------------------------------------------------------
(* Properties *)

TypeOK ==
  /\ m_threadCount \in ThreadCounts /\ m_datas \in [Fds -> FdCtx \cup {None}]
  /\ open \subseteq Fds /\ ready \subseteq Fds \X Events /\ interest \subseteq Fds \X Events
  /\ context \in [Fds \X Events -> Fibers \cup {None}]
  /\ pc \in [Fibers -> {"user", "try", "again", "armed", "hold", "back", "close"}]
  /\ call \in [Fibers -> Calls] /\ timer \in [Fibers -> BOOLEAN]
  /\ cancelled \subseteq Fibers /\ fired \subseteq Callback
  /\ queued \subseteq Fibers /\ expired \subseteq Fibers /\ failed \in BOOLEAN

\* An event, a timeout and a close may all want to wake the same fiber.  It is
\* queued only while it waits, and then nobody is left who would queue it again.
WokenOnce ==
  /\ \A f \in queued : At(f, "hold") /\ ~\E p \in Fds \X Events : context[p] = f
  /\ \A p \in Fds \X Events : context[p] # None => At(context[p], "hold") /\ Place(context[p]) = p

\* A call fails with ETIMEDOUT only if a timer of this very call expired: late
\* callbacks of earlier calls change nothing (hook.cpp:117-120).
TimeoutIsOwn == cancelled \subseteq expired

\* addEvent's ASSERT(!(fd_ctx->events & event)) (iomanager.cpp:105) fails only
\* when two calls meet at a number that was closed, and perhaps given out again,
\* after one of them was made: a wake-up never leaves its own registration
\* behind for the retry (hook.cpp:146-148) to run into.
AssertNeedsReuse ==
  failed => \E f, g \in Fibers : /\ f # g /\ At(f, "armed") /\ At(g, "hold")
                                 /\ Place(f) = Place(g) /\ context[Place(f)] = g
                                 /\ (call[f].old \/ call[g].old)

\* With one thread no call is left waiting: close() leaves nobody on what was
\* closed, the kernel is armed for whoever waits, and a call with a timeout has
\* its timer armed or the callback that will wake it on its way (hook.cpp:111-123).
\* (With any number of threads: the types.)
OneThreadCalls ==
  /\ TypeOK
  /\ m_threadCount = 1 =>
       /\ \A p \in Fds \X Events : context[p] # None => p \in interest /\ p[1] \in open
       /\ \A f \in Fibers \ queued :
            At(f, "hold") /\ call[f].to =>
              timer[f] \/ \E c \in fired : /\ c.f = f /\ c.alive
                                          /\ (c.at = "cancel" \/ f \notin cancelled)
=============================================================================
