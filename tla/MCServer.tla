------------------------------ MODULE MCServer ------------------------------
(***************************************************************************)
(* The parts of an HTTP server, each from its own initial states: the      *)
(* listening server (TcpServer) and one connection of it (HttpConnection). *)
(* part says which of them a behaviour runs.                               *)
(***************************************************************************)
EXTENDS TcpServer

CONSTANTS Requests, Length, MaxFails
ASSUME LengthsAssumption ==
  Requests \in Nat /\ Length \in Nat /\ MaxFails \in Nat

VARIABLES part,
          m_is_keep_alive, m_sock, closes, wire, sent, unsent, bodies, waits, peer, pc, req,
          body, buffer, offset, left, failed, out, answered

C == INSTANCE HttpConnection
connection == <<m_is_keep_alive, m_sock, closes, wire, sent, unsent, bodies, waits, peer, pc, req,
                body, buffer, offset, left, failed, out, answered>>

\* The caller's vector matters only before start, where the second thread is idle.
ServerInit ==
  /\ part \in {"listen", "connection"} /\ Init /\ C!Init
  /\ threads = 2 => ~keep
  /\ part # "listen" => threads = 1 /\ keep /\ busy = {}
  /\ part # "connection" => m_is_keep_alive
ServerNext ==
  /\ UNCHANGED part
  /\ \/ part = "listen" /\ Next /\ UNCHANGED connection
     \/ part = "connection" /\ C!Next /\ UNCHANGED vars

\* The fairness of each part's own specification, where it is the part that runs
Listens(A) == part = "listen" /\ A
ServerFairness ==
  /\ SF_vars(Listens(TryBind)) /\ SF_vars(Listens(CloseStep \/ ClearSocks)) /\ SF_vars(Listens(HandlerEnds))
  /\ \A s \in Socks : SF_vars(Listens(LoopStep(s))) /\ WF_vars(Listens(Readable(s))) /\ WF_vars(Listens(Freed(s)))
  /\ WF_(connection)(part = "connection" /\ C!Serve)
ServerSpec == ServerInit /\ [][ServerNext]_<<part, vars, connection>> /\ ServerFairness

\* Without a failing recv the servlet sees of a body exactly what came with the head, behind
\* zeros, and the client the whole response (recvRequest and the loops of src/stream.cpp).
LoopsExact == C!LoopsExact

\* A connection's descriptor is closed exactly once, by whichever of its five closers.
ClosedOnce == C!ClosedOnce

\* Each request of a client that waits for its answers is answered in its turn (handle_client's loop).
RequestsAnswered == C!RequestsAnswered

\* The handler of a client that is gone ends, or the process does.
ConnectionEnds == C!HandlerEnds
=============================================================================
