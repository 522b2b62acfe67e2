----------------------------- MODULE TcpServer ------------------------------
(***************************************************************************)
(* cool::TcpServer (src/tcp_server.cpp) over the listening Sockets of      *)
(* src/socket.cpp: a caller that binds until it succeeds, starts, perhaps  *)
(* binds one more address, and stops; the accept loops, the client         *)
(* handlers and the closing task, all fibers of one IOManager (by default  *)
(* m_worker and m_accept_worker are the same); and the kernel, with clients *)
(* that connect.  A fiber keeps its thread until it waits or ends.         *)
(***************************************************************************)
EXTENDS Integers, Sequences, FiniteSets, Functions

CONSTANTS Addrs,       \* the addresses of the first bind
          Extra,       \* the address of the bind after start
          MaxClients,  \* clients that connect to a socket
          MaxFds       \* client descriptors the process may have
ASSUME AddrsAssumption ==
  /\ IsFiniteSet(Addrs) /\ Extra \notin Addrs /\ MaxClients \in Nat /\ MaxFds \in Nat

\* the Socket that listens at an address is named by the address
Socks == Addrs \cup {Extra}
\* where start_accept is: "accept" is about to read m_sock, "call" about to call
\* accept_f with the number it has read, "register" about to add the event,
\* "wait" in the table of the IOManager
LoopState == {"none", "check", "accept", "call", "register", "wait", "done"}

VARIABLES
  threads,     \* threads of the IOManager
  running,     \* fibers that have a thread: accept loops by socket, and Closer
  user,        \* the caller: "bind", "start", "serve", "stopped"
  keep,        \* the caller passes the same vector to every bind
  fails,       \* that vector is not empty
  late,        \* a bind after start has failed
  busy,        \* addresses somebody else still uses
  m_socks,
  open,        \* sockets whose m_sock is a descriptor
  m_is_start, m_is_stop,
  loop,
  closer,      \* the task of stop(): a step, and the index of a socket
  missed,      \* sockets whose loop registered after the last cancel and before close_f
  wild,        \* an access out of bounds, with which the process ends
  arrived,     \* clients that have connected to a socket
  pending,     \* those in its backlog
  clients      \* those a handler has not finished with
vars == <<threads, running, user, keep, fails, late, busy, m_socks, open,
          m_is_start, m_is_stop, loop, closer, missed, wild, arrived, pending, clients>>

Closer == "closer"
net == <<arrived, pending, clients>>
fate == <<missed, wild>>
calls == <<user, keep, fails, late, busy, m_is_start, m_is_stop>>

Init ==
  /\ threads \in {1, 2} /\ running = {} /\ user = "bind" /\ keep \in BOOLEAN
  /\ fails = FALSE /\ late = FALSE /\ busy \in SUBSET Socks
  /\ m_socks = <<>> /\ open = {} /\ m_is_start = FALSE /\ m_is_stop = FALSE
  /\ loop = [s \in Socks |-> "none"] /\ closer = <<"none", 0>>
  /\ missed = {} /\ wild = FALSE
  /\ arrived = [s \in Socks |-> 0] /\ pending = arrived /\ clients = 0

FreeThread == Cardinality(running) < threads /\ ~wild
\* fiber f, which has a thread or gets one, takes a step and keeps the thread
Step(f) == (f \in running \/ FreeThread) /\ ~wild /\ running' = running \cup {f}
\* the same, for the step with which it waits or ends
LastStep(f) == (f \in running \/ FreeThread) /\ ~wild /\ running' = running \ {f}

\* Mutant: ~Socket does not close.
DestroyNothing(gone, sockets) == sockets
\* ~Socket of the sockets in gone, which closes them
Destroy(gone, sockets) == sockets \ gone
\* descriptors that close lose what is in their backlog
Backlog(left) == [s \in Socks |-> IF s \in left THEN pending[s] ELSE 0]

----------------------------------------------------------------------------
(* The caller, itself a fiber of the IOManager *)

\* addresses of the vector in its order, some order
InOrder(addrs) == CHOOSE f \in Bijection(1 .. Cardinality(addrs), addrs) : TRUE

\* What bind does with m_socks at the end
BindEnds(socks, failed) == IF failed THEN <<>> ELSE socks

\* A Socket per address, pushed when it binds.  If the vector holds anything,
\* from this call or from an earlier one, m_socks is cleared, with what
\* earlier calls put there; what no accept loop holds is destroyed.
bind(addrs, failed, vector) ==
  LET socks == m_socks \o InOrder(addrs \ busy) IN
  /\ failed = (addrs \cap busy # {} \/ vector)
  /\ m_socks' = BindEnds(socks, failed)
  /\ open' = LET opened == open \cup (addrs \ busy)
             IN IF failed THEN Destroy({s \in Socks : loop[s] = "none"}, opened) ELSE opened
  /\ pending' = Backlog(open')

\* what the vector holds when bind is called: the one-address bind has a fresh one
FailedBefore == keep /\ fails

\* while (!server->bind(addrs, fails)) sleep(2)
TryBind ==
  /\ user = "bind" /\ FreeThread
  /\ \E failed \in BOOLEAN : /\ bind(Addrs, failed, FailedBefore)
                             /\ fails' = failed
                             /\ user' = IF failed THEN "bind" ELSE "start"
  /\ UNCHANGED <<threads, running, keep, late, busy, m_is_start, m_is_stop, loop, closer, fate, arrived, clients>>

\* Mutant: a second socket gets no loop.
StartFirst(s) == m_socks # <<>> /\ s = m_socks[1]
StartsLoop(s) == s \in Range(m_socks)

start ==
  /\ user = "start" /\ FreeThread /\ user' = "serve"
  /\ ~m_is_start /\ m_is_start' = TRUE
  /\ loop' = [s \in Socks |-> IF StartsLoop(s) THEN "check" ELSE loop[s]]
  /\ UNCHANGED <<threads, running, keep, fails, late, busy, m_socks, open, m_is_stop, closer, fate, net>>

\* A further bind(addr) and a start(), which only schedules anything the first time
BindMore ==
  /\ user = "serve" /\ FreeThread /\ Extra \notin Range(m_socks) /\ ~late
  /\ bind({Extra}, late', FALSE)
  /\ UNCHANGED <<threads, running, user, keep, fails, busy, m_is_start, m_is_stop, loop, closer, fate, arrived, clients>>

stop ==
  /\ user = "serve" /\ FreeThread /\ user' = "stopped"
  /\ ~m_is_stop /\ m_is_stop' = TRUE /\ closer' = <<"cancel", 1>>
  /\ UNCHANGED <<threads, running, keep, fails, late, busy, m_socks, open, m_is_start, loop, fate, net>>

----------------------------------------------------------------------------
(* start_accept of socket s, with the accept of src/hook.cpp *)

\* Out of descriptors, accept_f fails with EMFILE
Exhausted == clients >= MaxFds

\* Mutant: the loop does not look at m_is_stop.
LoopGoesOn(s) == TRUE
AcceptsAgain(s) == ~m_is_stop

\* while (!m_is_stop).  The fiber that ends lets go of the socket.
CheckStop(s) ==
  /\ loop[s] = "check"
  /\ IF AcceptsAgain(s)
       THEN Step(s) /\ loop' = [loop EXCEPT ![s] = "accept"] /\ UNCHANGED <<open, pending>>
       ELSE /\ LastStep(s) /\ loop' = [loop EXCEPT ![s] = "done"]
            /\ open' = IF s \in Range(m_socks) THEN open ELSE Destroy({s}, open)
            /\ pending' = Backlog(open')
  /\ UNCHANGED <<threads, calls, m_socks, closer, fate, arrived, clients>>

\* Socket::accept reads m_sock.  If it is -1, FdManager::get(-1) copies what is
\* in front of its table.
Accept(s) ==
  /\ loop[s] = "accept" /\ Step(s)
  /\ IF s \in open THEN loop' = [loop EXCEPT ![s] = "call"] /\ UNCHANGED wild
                   ELSE wild' = TRUE /\ UNCHANGED loop
  /\ UNCHANGED <<threads, calls, m_socks, open, closer, missed, net>>

\* accept_f.  A client is scheduled for handle_client; an error (a number closed
\* meanwhile, no descriptor left, which is noticed before the backlog is looked
\* at) is logged; both go back to the test without yielding.
Call(s) ==
  /\ loop[s] = "call" /\ Step(s)
  /\ IF s \notin open \/ Exhausted
       THEN loop' = [loop EXCEPT ![s] = "check"] /\ UNCHANGED <<pending, clients>>
     ELSE IF pending[s] > 0
       THEN /\ loop' = [loop EXCEPT ![s] = "check"]
            /\ pending' = [pending EXCEPT ![s] = @ - 1] /\ clients' = clients + 1
     ELSE loop' = [loop EXCEPT ![s] = "register"] /\ UNCHANGED <<pending, clients>>
  /\ UNCHANGED <<threads, calls, m_socks, open, closer, fate, arrived>>

\* the closing task is done with the cancels of s, but not with its close
BetweenCancelAndClose(s) == closer[1] = "close" /\ m_socks[closer[2]] = s

\* addEvent and the yield; on a descriptor closed meanwhile epoll_ctl fails
Register(s) ==
  /\ loop[s] = "register"
  /\ IF s \in open
       THEN /\ LastStep(s) /\ loop' = [loop EXCEPT ![s] = "wait"]
            /\ missed' = IF BetweenCancelAndClose(s) THEN missed \cup {s} ELSE missed
       ELSE Step(s) /\ loop' = [loop EXCEPT ![s] = "check"] /\ UNCHANGED missed
  /\ UNCHANGED <<threads, calls, m_socks, open, closer, wild, net>>

\* epoll reports the socket, the fiber is scheduled to call accept_f again
Readable(s) ==
  /\ loop[s] = "wait" /\ s \in open /\ pending[s] > 0 /\ ~wild
  /\ loop' = [loop EXCEPT ![s] = "call"]
  /\ UNCHANGED <<threads, running, calls, m_socks, open, closer, fate, net>>

----------------------------------------------------------------------------
(* The task of stop(): for each socket cancelAll, then close, which cancels *)
(* once more before it calls close_f *)

\* cancekAll schedules the fiber that waits
Woken(s) == IF loop[s] = "wait" THEN [loop EXCEPT ![s] = "call"] ELSE loop

\* Mutant: the task only closes, without waking the loop.
WakesNone(s) == loop
Cancelled(s) == Woken(s)

CloseStep ==
  LET k == closer[2] IN
  /\ closer[1] \in {"cancel", "recancel", "close"} /\ k <= Len(m_socks) /\ Step(Closer)
  /\ CASE closer[1] = "cancel" ->
            closer' = <<"recancel", k>> /\ loop' = Cancelled(m_socks[k]) /\ UNCHANGED <<open, pending>>
       [] closer[1] = "recancel" ->
            closer' = <<"close", k>> /\ loop' = Cancelled(m_socks[k]) /\ UNCHANGED <<open, pending>>
       [] closer[1] = "close" ->
            /\ closer' = <<"cancel", k + 1>> /\ open' = open \ {m_socks[k]}
            /\ pending' = Backlog(open') /\ UNCHANGED loop
  /\ UNCHANGED <<threads, calls, m_socks, fate, arrived, clients>>

ClearSocks ==
  /\ closer[1] = "cancel" /\ closer[2] > Len(m_socks) /\ LastStep(Closer)
  /\ closer' = <<"done", 0>> /\ m_socks' = <<>>
  /\ UNCHANGED <<threads, calls, open, loop, fate, net>>

----------------------------------------------------------------------------
(* Clients, the handlers that serve them, and the other user of an address *)

Connect(s) ==
  /\ s \in open /\ arrived[s] < MaxClients
  /\ arrived' = [arrived EXCEPT ![s] = @ + 1] /\ pending' = [pending EXCEPT ![s] = @ + 1]
  /\ UNCHANGED <<threads, running, calls, m_socks, open, loop, closer, fate, clients>>

\* A handler needs a thread; recvTimeout(m_recv_timeout) ends the silent ones
HandlerEnds ==
  /\ clients > 0 /\ FreeThread /\ clients' = clients - 1
  /\ UNCHANGED <<threads, running, calls, m_socks, open, loop, closer, fate, arrived, pending>>

Freed(a) ==
  /\ a \in busy /\ busy' = busy \ {a}
  /\ UNCHANGED <<threads, running, user, keep, fails, late, m_socks, open, m_is_start, m_is_stop, loop, closer, fate, net>>

LoopStep(s) == CheckStop(s) \/ Accept(s) \/ Call(s) \/ Register(s)
Next ==
  \/ TryBind \/ start \/ BindMore \/ stop
  \/ \E s \in Socks : \/ CheckStop(s) \/ Accept(s) \/ Call(s) \/ Register(s) \/ Readable(s)
                      \/ Connect(s) \/ Freed(s)
  \/ CloseStep \/ ClearSocks \/ HandlerEnds

\* Queues of the scheduler are served in order, so a fiber that is ready runs
\* when threads keep becoming free; the kernel reports what is ready.
Fairness ==
  /\ SF_vars(TryBind) /\ SF_vars(CloseStep \/ ClearSocks) /\ SF_vars(HandlerEnds)
  /\ \A s \in Socks : SF_vars(LoopStep(s)) /\ WF_vars(Readable(s)) /\ WF_vars(Freed(s))
Spec == Init /\ [][Next]_vars /\ Fairness

----------------------------------------------------------------------------
TypeOK ==
  /\ threads \in {1, 2} /\ running \subseteq Socks \cup {Closer} /\ Cardinality(running) <= threads
  /\ user \in {"bind", "start", "serve", "stopped"}
  /\ {keep, fails, late, m_is_start, m_is_stop, wild} \subseteq BOOLEAN /\ missed \subseteq Socks
  /\ busy \subseteq Socks /\ Range(m_socks) \subseteq Socks /\ IsInjective(m_socks) /\ open \subseteq Socks
  /\ loop \in [Socks -> LoopState]
  /\ closer \in {"none", "cancel", "recancel", "close", "done"} \X (0 .. Cardinality(Socks) + 1)
  /\ pending \in [Socks -> 0 .. MaxClients] /\ clients \in 0 .. MaxFds

\* No listening descriptor outlives the server's reference to it, so the port
\* is free again after stop(), unless a bind failed after start, which drops
\* the sockets that are being served.  (And the types.)
OpenIsOwned == TypeOK /\ (late \/ open \subseteq Range(m_socks))

\* Every thread is taken by an accept loop that fails for want of descriptors
Spinning == {s \in running \ {Closer} : loop[s] \in {"check", "accept", "call"}}
Livelock == Exhausted /\ Cardinality(Spinning) >= threads

\* A client in the backlog of a socket that start() saw is accepted or the
\* server stops, unless accept loops that fail without yielding hold all
\* threads, so that no handler can give a descriptor back.
ClientsAccepted ==
  \A s \in Addrs : (m_is_start /\ pending[s] > 0) ~> (pending[s] = 0 \/ m_is_stop \/ Livelock)

\* stop() ends every accept loop, unless a bind failed after start (the
\* closing task no longer knows the sockets).  With two threads there are two
\* ways out: the loop registered between the last cancel and close_f and waits
\* for ever, or a loop that had passed the test of m_is_stop read the m_sock of
\* a closed Socket, which ends the process.
StopEndsLoops ==
  \A s \in Addrs : (m_is_stop /\ loop[s] # "none")
                      ~> (loop[s] = "done" \/ late \/ (threads = 2 /\ (wild \/ (s \in missed /\ loop[s] = "wait"))))
=============================================================================
