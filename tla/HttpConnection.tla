--------------------------- MODULE HttpConnection ---------------------------
(***************************************************************************)
(* One connection of cool::http::HttpServer: handle_client                 *)
(* (src/http/http_server.cpp) with recvRequest and sendResponse            *)
(* (src/http/http_session.cpp), the loops of Stream (src/stream.cpp) over  *)
(* SocketStream and Socket, and a client that sends requests, with a body  *)
(* or without, and may go away.  What happens to the text of a head is in  *)
(* module HttpParser; here a head is one unit of the stream, and a body    *)
(* and a response are Length units each.                                   *)
(***************************************************************************)
EXTENDS Integers, Sequences, Functions

CONSTANTS Requests,   \* how many requests the client sends
          Length,     \* units of a body and of a response
          MaxFails    \* recv calls that fail (a timeout)

VARIABLES
  m_is_keep_alive,
  m_sock,      \* the Socket has its descriptor
  closes,      \* calls of close_f for it
  wire,        \* units from the client not yet received: <<request, index>>, index 0 the head
  sent,        \* requests sent, the last one perhaps in part
  unsent,      \* units of its body to come
  bodies,      \* those that have a body
  waits,       \* the client has always waited for the answer before the next request
  peer,        \* "open" or "gone"
  pc,          \* "head", "body", "dispatch", "write", "closing", "closed", "killed"; "wild" after
               \* an access out of bounds that the process need not survive
  req,         \* the request in work
  body,        \* positions that were filled, in the body or behind it, with the unit at each
  buffer,      \* the size of the body, where readFixSize was told to begin
  offset, left,\* of the running fixed-size loop
  failed,      \* recv calls that returned -1
  out,         \* positions of the response that were sent, in order
  answered     \* requests answered, in order
vars == <<m_is_keep_alive, m_sock, closes, wire, sent, unsent, bodies, waits, peer, pc, req,
          body, buffer, offset, left, failed, out, answered>>
stream == <<wire, sent, unsent, bodies, waits, peer>>
socket == <<m_sock, closes>>

Init ==
  /\ m_is_keep_alive \in BOOLEAN /\ m_sock = TRUE /\ closes = 0
  /\ wire = <<>> /\ sent = 0 /\ unsent = 0 /\ bodies = {} /\ waits = TRUE /\ peer = "open"
  /\ pc = "head" /\ req = 0 /\ body = {} /\ buffer = 0 /\ offset = 0 /\ left = 0
  /\ failed = 0 /\ out = <<>> /\ answered = <<>>

\* Mutant: close_f is called whether or not the descriptor is there.
CloseAlways == m_sock' = FALSE /\ closes' = closes + 1
\* Socket::close, also reached from ~SocketStream and ~Socket
close == m_sock' = FALSE /\ closes' = closes + (IF m_sock THEN 1 ELSE 0)

----------------------------------------------------------------------------
(* The client *)

\* A request's head, and then its body unit by unit
SendHead ==
  /\ peer = "open" /\ sent < Requests /\ unsent = 0
  /\ sent' = sent + 1 /\ wire' = Append(wire, <<sent', 0>>) /\ unsent' \in {0, Length}
  /\ bodies' = IF unsent' > 0 THEN bodies \cup {sent'} ELSE bodies
  /\ waits' = (waits /\ Len(answered) = sent)
  /\ UNCHANGED <<m_is_keep_alive, socket, peer, pc, req, body, buffer, offset, left, failed, out, answered>>

SendBody ==
  /\ peer = "open" /\ unsent > 0 /\ unsent' = unsent - 1
  /\ wire' = Append(wire, <<sent, Length - unsent'>>)
  /\ UNCHANGED <<m_is_keep_alive, socket, sent, bodies, waits, peer, pc, req, body, buffer, offset, left, failed, out, answered>>

\* the client closes its end
Leave ==
  /\ peer = "open" /\ peer' = "gone"
  /\ UNCHANGED <<m_is_keep_alive, socket, wire, sent, unsent, bodies, waits, pc, req, body, buffer, offset, left, failed, out, answered>>

----------------------------------------------------------------------------
(* recvRequest *)

Content(i) == IF i \in bodies THEN Length ELSE 0

\* Mutant: what came with the head does not count.
MissingAll(n, rest) == n
\* units of the body still to be read when rest units came with the head
Missing(n, rest) == n - rest

\* recv returns k units.  A head ends the parsing loop; the units after it
\* that belong to the body are appended to a string that resize has given the
\* body's length already, the others are lost with the buffer; the rest of the
\* body is left to readFixSize, which is told to begin at the string's end.
RecvHead(k) ==
  /\ pc = "head" /\ k <= Len(wire) /\ wire[1][2] = 0
  /\ LET i == wire[1][1]
         n == Content(i)
         taken == IF n >= k - 1 THEN k - 1 ELSE n
     IN /\ req' = i /\ body' = {<<n + j, wire[j + 2]>> : j \in 0 .. taken - 1}
        /\ buffer' = n + taken /\ offset' = 0
        /\ left' = IF n > 0 /\ Missing(n, k - 1) > 0 THEN Missing(n, k - 1) ELSE 0
        /\ pc' = IF left' > 0 THEN "body" ELSE "dispatch"
  /\ wire' = SubSeq(wire, k + 1, Len(wire))
  /\ UNCHANGED <<m_is_keep_alive, socket, sent, unsent, bodies, waits, peer, failed, out, answered>>

\* End of stream, an error of recv or of the parser: close() and no request
RecvNothing ==
  /\ pc = "head" /\ pc' = "closing" /\ close
  /\ \/ wire = <<>> /\ peer = "gone" /\ UNCHANGED <<wire, failed>>
     \/ wire = <<>> /\ failed < MaxFails /\ failed' = failed + 1 /\ UNCHANGED wire
     \/ wire # <<>> /\ wire[1][2] # 0 /\ wire' = <<>> /\ UNCHANGED failed
  /\ UNCHANGED <<m_is_keep_alive, sent, unsent, bodies, waits, peer, req, body, buffer, offset, left, out, answered>>

\* Mutant: the next piece overwrites the first.
StaysPut(at, len) == at
\* offset += len, left -= len
Advance(at, len) == at + len

\* One turn of readFixSize with len units.  What goes behind the string's end is
\* harmless as far as the string has reserved memory, and anything else beyond.
ReadBody(len) ==
  /\ pc = "body" /\ len <= left /\ len <= Len(wire)
  /\ body' = body \cup {<<buffer + offset + j, wire[j + 1]>> : j \in 0 .. len - 1}
  /\ wire' = SubSeq(wire, len + 1, Len(wire))
  /\ offset' = Advance(offset, len) /\ left' = left - len
  /\ \/ pc' = IF left' = 0 THEN "dispatch" ELSE "body"
     \/ offset' > 0 /\ pc' = "wild"
  /\ UNCHANGED <<m_is_keep_alive, socket, sent, unsent, bodies, waits, peer, req, buffer, failed, out, answered>>

\* Mutant: only a negative result ends readFixSize.
ReadEndsNot == pc = "body" /\ wire = <<>> /\ peer = "gone" /\ UNCHANGED vars
\* recv returns 0: readFixSize returns it, recvRequest closes
ReadEnds ==
  /\ pc = "body" /\ wire = <<>> /\ peer = "gone" /\ pc' = "closing" /\ close
  /\ UNCHANGED <<m_is_keep_alive, stream, req, body, buffer, offset, left, failed, out, answered>>

\* recv returns -1, in a size_t greater than 0: the loop goes one unit back
\* and asks for one more
ReadFails ==
  /\ pc = "body" /\ wire = <<>> /\ failed < MaxFails /\ failed' = failed + 1
  /\ offset' = Advance(offset, -1) /\ left' = left + 1
  /\ UNCHANGED <<m_is_keep_alive, socket, stream, pc, req, body, buffer, out, answered>>

----------------------------------------------------------------------------
(* handle_client after recvRequest *)

\* The servlet fills the response; it has the session and may close it.
Dispatch ==
  /\ pc = "dispatch" /\ pc' = "write" /\ offset' = 0 /\ left' = Length /\ out' = <<>>
  /\ close \/ UNCHANGED socket
  /\ UNCHANGED <<m_is_keep_alive, stream, req, body, buffer, failed, answered>>

\* while (m_is_keep_alive)
GoesOn == m_is_keep_alive

\* One turn of writeFixSize in sendResponse; after the last the next request
Write(len) ==
  /\ pc = "write" /\ m_sock /\ len <= left
  /\ out' = out \o [j \in 1..len |-> offset + j - 1]
  /\ offset' = Advance(offset, len) /\ left' = left - len
  /\ IF left' > 0 THEN UNCHANGED <<pc, answered>>
                  ELSE /\ answered' = Append(answered, req)
                       /\ pc' = IF GoesOn THEN "head" ELSE "closing"
  /\ UNCHANGED <<m_is_keep_alive, socket, stream, req, body, buffer, failed>>

\* send on a closed Socket, which counts as connected: FdManager::get(-1)
\* copies what is in front of its table
WriteClosed ==
  /\ pc = "write" /\ ~m_sock /\ pc' = "wild"
  /\ UNCHANGED <<m_is_keep_alive, socket, stream, req, body, buffer, offset, left, failed, out, answered>>

\* send to a client that is gone: nothing ignores SIGPIPE
Sigpipe ==
  /\ pc = "write" /\ m_sock /\ peer = "gone" /\ pc' = "killed"
  /\ UNCHANGED <<m_is_keep_alive, socket, stream, req, body, buffer, offset, left, failed, out, answered>>

\* session->close(), ~SocketStream, ~Socket
Close ==
  /\ pc = "closing" /\ pc' = "closed" /\ close
  /\ UNCHANGED <<m_is_keep_alive, stream, req, body, buffer, offset, left, failed, out, answered>>

Received == \E k \in 1 .. Requests * (Length + 1) : RecvHead(k) \/ ReadBody(k)
Sent == \E k \in 1 .. Length : Write(k)
Serve == Received \/ RecvNothing \/ ReadEnds \/ Dispatch \/ Sent \/ WriteClosed \/ Sigpipe \/ Close
Next ==
  \/ SendHead \/ SendBody \/ Leave \/ ReadFails
  \/ RecvNothing \/ ReadEnds \/ Dispatch \/ WriteClosed \/ Sigpipe \/ Close
  \/ \E k \in 1 .. Requests * (Length + 1) : RecvHead(k) \/ ReadBody(k) \/ Write(k)

\* the handler's fiber is resumed whenever its call can return
Spec == Init /\ [][Next]_vars /\ WF_vars(Serve)

----------------------------------------------------------------------------
TypeOK ==
  /\ m_is_keep_alive \in BOOLEAN /\ m_sock \in BOOLEAN /\ closes \in Nat
  /\ sent \in 0..Requests /\ unsent \in 0..Length /\ bodies \subseteq 1..Requests /\ waits \in BOOLEAN /\ peer \in {"open", "gone"}
  /\ Range(wire) \subseteq (1..Requests) \X (0..Length)
  /\ pc \in {"head", "body", "dispatch", "write", "closing", "closed", "killed", "wild"}
  /\ req \in 0..Requests /\ failed \in 0..MaxFails /\ Range(answered) \subseteq 1..Requests
  /\ left \in 0..Length + MaxFails /\ offset \in -MaxFails..Length /\ buffer \in 0..2 * Length

\* units first to last - 1 of the body, each at its place after the zeros
Placed(first, last) == {<<Length + j, <<req, j + 1>>>> : j \in first .. last - 1}
\* what the servlet sees of them, in a string that ends at buffer
Seen == {u \in body : u[1] < buffer}

\* As long as no recv has failed, the servlet's string is the zeros that resize
\* made and then the units that came with the head, all of them and in order;
\* every other unit of the body lies behind its end.  The process gets out of
\* bounds only there, or when a servlet has closed the session.  writeFixSize
\* sends every unit of the response once and in order.  (And the types.)
LoopsExact ==
  /\ TypeOK
  /\ pc = "wild" => ~m_sock \/ body # Seen
  /\ failed = 0 =>
       /\ pc \in {"dispatch", "write"} /\ req \in bodies =>
            Seen = Placed(0, buffer - Length) /\ body \ Seen = Placed(buffer - Length, Length)
       /\ pc = "body" => left + offset + buffer = 2 * Length
       /\ pc = "write" => out = [j \in 1..offset |-> j - 1]

\* However a connection ends (recvRequest, a servlet, handle_client and two
\* destructors call close), its descriptor is closed exactly once: a second
\* close could hit the number's next owner.
ClosedOnce == closes <= 1 /\ (pc = "closed" => closes = 1)

\* On a kept connection a client that waits for each answer has its requests
\* answered once each and in order, unless it leaves, a recv fails, or the
\* handler gets out of bounds: behind the string of a body that came after its
\* head, or with a session that the servlet has closed.
RequestsAnswered ==
  \A i \in 1..Requests : (m_is_keep_alive /\ (sent > i \/ (sent = i /\ unsent = 0)))
    ~> ((Len(answered) >= i /\ answered[i] = i) \/ ~waits \/ failed > 0 \/ peer = "gone" \/ pc = "wild")

\* When the client is gone the handler ends, or the process does: by SIGPIPE, or
\* out of bounds.  No loop goes on for ever.
HandlerEnds == peer = "gone" ~> pc \in {"closed", "killed", "wild"}
=============================================================================
