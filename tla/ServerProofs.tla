---------------------------- MODULE ServerProofs ----------------------------
(***************************************************************************)
(* The parts of an HTTP server: a connection's descriptor is closed once,  *)
(* its transfers are exact, and listening descriptors are the server's:    *)
(* for any addresses, clients, requests and lengths.                       *)
(***************************************************************************)
EXTENDS MCServer, TLAPS

\* Each part takes its own steps or none.
LEMMA ServerSteps ==
  ASSUME [ServerNext]_<<part, vars, connection>>
  PROVE  [Next]_vars /\ [C!Next]_(C!vars)
BY DEF ServerNext, connection, C!vars

\* The entries of a list.
LEMMA Entries ==
  ASSUME NEW S, NEW s \in Seq(S)
  PROVE  Len(s) \in Nat /\ DOMAIN s = 1 .. Len(s) /\ \A i \in 1 .. Len(s) : s[i] \in S
OBVIOUS

\* The entries of two lists, one after the other.
LEMMA Concatenation ==
  ASSUME NEW S, NEW s \in Seq(S), NEW t \in Seq(S)
  PROVE  /\ s \o t \in Seq(S) /\ Len(s \o t) = Len(s) + Len(t)
         /\ \A i \in 1 .. Len(s) + Len(t) : (s \o t)[i] = IF i <= Len(s) THEN s[i] ELSE t[i - Len(s)]
OBVIOUS

\* Two lists with the same entries are the same list.
LEMMA SameEntries ==
  ASSUME NEW S, NEW s \in Seq(S), NEW t \in Seq(S), Len(s) = Len(t),
         \A i \in 1 .. Len(s) : s[i] = t[i]
  PROVE  s = t
OBVIOUS

-----------------------------------------------------------------------------
(* A connection's descriptor *)

\* close_f has been called exactly if the Socket is without its descriptor.
CloseInv == m_sock \in BOOLEAN /\ closes = (IF m_sock THEN 0 ELSE 1) /\ (pc = "closed" => ~m_sock)

\* A connection's descriptor is closed at most once, and exactly once when the
\* handler has ended: for any number of requests, lengths and failing calls.
THEOREM DescriptorClosedOnce == ServerSpec => []ClosedOnce
<1>1. ServerInit => CloseInv
  BY DEF ServerInit, C!Init, CloseInv
<1>2. CloseInv /\ [ServerNext]_<<part, vars, connection>> => CloseInv'
  <2> SUFFICES ASSUME CloseInv, [ServerNext]_<<part, vars, connection>> PROVE CloseInv'
    OBVIOUS
  <2>0. m_sock \in BOOLEAN /\ closes = (IF m_sock THEN 0 ELSE 1) /\ (pc = "closed" => ~m_sock)
    BY DEF CloseInv
  <2>1. ASSUME C!close PROVE ~m_sock' /\ m_sock' \in BOOLEAN /\ closes' = 1
    <3>1. m_sock' = FALSE /\ closes' = closes + (IF m_sock THEN 1 ELSE 0) BY <2>1 DEF C!close
    <3>2. m_sock => closes = 0 /\ closes' = closes + 1 BY <2>0, <3>1, Zenon
    <3>3. ~m_sock => closes = 1 /\ closes' = closes + 0 BY <2>0, <3>1, Zenon
    <3>4. closes' = 1 BY <3>2, <3>3
    <3> QED BY <3>1, <3>4, Zenon
  <2>2. ASSUME UNCHANGED <<m_sock, closes>>, pc' # "closed" \/ pc' = pc PROVE CloseInv'
    BY <2>0, <2>2 DEF CloseInv
  <2>3. ASSUME C!close PROVE CloseInv' BY <2>1, <2>3 DEF CloseInv
  <2>4. CASE C!SendHead \/ C!SendBody \/ C!Leave \/ C!ReadFails \/ C!WriteClosed \/ C!Sigpipe
    BY <2>2, <2>4, Zenon DEF C!SendHead, C!SendBody, C!Leave, C!ReadFails, C!WriteClosed, C!Sigpipe, C!socket
  <2>5. CASE C!RecvNothing \/ C!ReadEnds \/ C!Close
    BY <2>3, <2>5 DEF C!RecvNothing, C!ReadEnds, C!Close
  <2>6. CASE C!Dispatch BY <2>2, <2>3, <2>6 DEF C!Dispatch, C!socket
  <2>7. ASSUME NEW k \in 1 .. Requests * (Length + 1), C!RecvHead(k) \/ C!ReadBody(k) \/ C!Write(k)
        PROVE  CloseInv'
    <3>1. UNCHANGED <<m_sock, closes>> BY <2>7, Zenon DEF C!RecvHead, C!ReadBody, C!Write, C!socket
    <3>2. CASE C!RecvHead(k)
      <4>1. pc' \in {"body", "dispatch"} BY <3>2, Zenon DEF C!RecvHead
      <4> QED BY <2>2, <3>1, <4>1
    <3>3. CASE C!ReadBody(k)
      <4>1. pc' \in {"body", "dispatch", "wild"} BY <3>3, Zenon DEF C!ReadBody
      <4> QED BY <2>2, <3>1, <4>1
    <3>4. CASE C!Write(k)
      <4>1. pc' \in {pc, "head", "closing"} BY <3>4 DEF C!Write
      <4> QED BY <2>2, <3>1, <4>1
    <3> QED BY <2>7, <3>2, <3>3, <3>4
  <2>8. CASE UNCHANGED C!vars BY <2>2, <2>8 DEF C!vars
  <2> QED BY <2>4, <2>5, <2>6, <2>7, <2>8, ServerSteps DEF C!Next
<1>3. CloseInv => ClosedOnce BY DEF CloseInv, ClosedOnce, C!ClosedOnce
<1> QED BY <1>1, <1>2, <1>3, PTL DEF ServerSpec

-----------------------------------------------------------------------------
(* The fixed-size loops of a connection *)

\* <<request, index>>, index 0 the head
Units == (1 .. Requests) \X (0 .. Length)

\* The types, and what a loop has still to do with what it has done.
LoopTypes ==
  /\ wire \in Seq(Units) /\ sent \in 0 .. Requests /\ unsent \in 0 .. Length
  /\ bodies \subseteq 1 .. sent /\ waits \in BOOLEAN /\ peer \in {"open", "gone"}
  /\ m_is_keep_alive \in BOOLEAN /\ m_sock \in BOOLEAN /\ closes \in Nat
  /\ pc \in {"head", "body", "dispatch", "write", "closing", "closed", "killed", "wild"}
  /\ req \in 0 .. sent /\ buffer \in 0 .. 2 * Length /\ failed \in 0 .. MaxFails
  /\ left \in 0 .. Length + failed /\ offset \in -failed .. Length
  /\ answered \in Seq(1 .. Requests)
  /\ pc \in {"body", "dispatch", "write"} => req >= 1
  /\ pc \in {"body", "write"} => offset + left \in 0 .. Length

\* What is on the wire is a piece of the stream the client sends, to its end.
WireInv ==
  /\ unsent > 0 => sent \in bodies
  /\ \A p \in 1 .. Len(wire) : wire[p][1] <= sent
  /\ \A p \in 1 .. Len(wire) : \A q \in p .. Len(wire) :
       wire[p][2] + (q - p) <= C!Content(wire[p][1]) => wire[q] = <<wire[p][1], wire[p][2] + (q - p)>>
  /\ \A p \in 1 .. Len(wire) :
       /\ wire[p][1] = sent => wire[p][2] + (Len(wire) - p) = C!Content(sent) - unsent
       /\ wire[p][1] # sent => wire[p][2] + (Len(wire) - p) >= C!Content(wire[p][1])

Filled(n) == {<<Length + j, <<req, j + 1>>>> : j \in 0 .. n - 1}

\* The loops, until a recv fails.
ExactInv ==
  failed = 0 =>
    /\ pc \in {"body", "dispatch", "write"} /\ req \in bodies => buffer >= Length
    /\ pc \in {"dispatch", "write"} /\ req \in bodies => body = Filled(Length)
    /\ pc = "body" =>
         /\ req \in bodies /\ left \in 1 .. Length /\ left + offset + buffer = 2 * Length
         /\ body = Filled(Length - left)
         /\ wire # <<>> => wire[1] = <<req, Length - left + 1>>
         /\ wire = <<>> => sent = req /\ unsent = left
    /\ pc = "write" => offset \in Nat /\ offset + left = Length /\ out = [j \in 1 .. offset |-> j - 1]

\* What was written behind the string, if the process went wild with an open session.
WildInv == pc = "wild" /\ m_sock => \E u \in body : ~(u[1] < buffer)

LoopInv == LoopTypes /\ WireInv /\ ExactInv /\ WildInv

\* A unit on the wire is a request's head or one of the units of its body.
LEMMA WireUnits ==
  ASSUME LoopTypes, NEW p \in 1 .. Len(wire)
  PROVE  /\ wire[p] \in Units /\ wire[p] = <<wire[p][1], wire[p][2]>>
         /\ wire[p][1] \in 1 .. Requests /\ wire[p][2] \in 0 .. Length
         /\ C!Content(wire[p][1]) \in 0 .. Length
<1>1. wire[p] \in Units BY DEF LoopTypes
<1> QED BY <1>1, LengthsAssumption DEF Units, C!Content

\* Receiving takes units from the front of the wire and leaves a piece of the
\* stream.
LEMMA WireReceived ==
  ASSUME LoopTypes, WireInv, NEW k \in 1 .. Len(wire), wire' = SubSeq(wire, k + 1, Len(wire)),
         UNCHANGED <<sent, unsent, bodies>>
  PROVE  /\ wire' \in Seq(Units) /\ Len(wire') = Len(wire) - k
         /\ \A p \in 1 .. Len(wire) - k : wire'[p] = wire[p + k]
         /\ WireInv'
<1>0. wire \in Seq(Units) /\ Len(wire) \in Nat BY DEF LoopTypes
<1>1. /\ wire' \in Seq(Units) /\ Len(wire') = Len(wire) - k
      /\ \A p \in 1 .. Len(wire) - k : wire'[p] = wire[p + k]
  BY <1>0
<1>2. \A i : C!Content(i)' = C!Content(i) BY DEF C!Content
<1>3. \A p \in 1 .. Len(wire') : p + k \in 1 .. Len(wire) /\ wire'[p] = wire[p + k] BY <1>0, <1>1
<1>4. \A p \in 1 .. Len(wire') : (wire[p][1] <= sent)' BY <1>3 DEF WireInv
<1>5. ASSUME NEW p \in 1 .. Len(wire'), NEW q \in p .. Len(wire'),
             wire'[p][2] + (q - p) <= C!Content(wire'[p][1])
      PROVE  wire'[q] = <<wire'[p][1], wire'[p][2] + (q - p)>>
  <2>1. q + k \in p + k .. Len(wire) /\ (q + k) - (p + k) = q - p BY <1>0, <1>1
  <2>2. wire'[q] = wire[q + k] /\ wire'[p] = wire[p + k] /\ p + k \in 1 .. Len(wire) BY <1>0, <1>1, <1>3
  <2> QED BY <1>5, <2>1, <2>2, Zenon DEF WireInv
<1>6. ASSUME NEW p \in 1 .. Len(wire')
      PROVE  /\ wire'[p][1] = sent => wire'[p][2] + (Len(wire') - p) = C!Content(sent) - unsent
             /\ wire'[p][1] # sent => wire'[p][2] + (Len(wire') - p) >= C!Content(wire'[p][1])
  <2>1. Len(wire') - p = Len(wire) - (p + k) BY <1>0, <1>1
  <2> QED BY <1>3, <2>1 DEF WireInv
<1>7. (unsent > 0 => sent \in bodies)' BY DEF WireInv
<1> QED BY <1>1, <1>2, <1>4, <1>5, <1>6, <1>7, Zenon DEF WireInv

\* A unit is a request and a place in its body.
LEMMA UnitOf == ASSUME NEW w, NEW i, NEW n, w = <<i, n>> PROVE w[1] = i /\ w[2] = n
OBVIOUS

\* The head of a request is the last unit, and none of its body is sent.
LEMMA HeadLast == ASSUME NEW m \in Nat, NEW n \in Nat, NEW i \in Nat
                  PROVE  0 + ((m + 1) - (m + 1)) = n - n /\ i <= i
OBVIOUS

\* Sending puts a unit behind those that are there.
LEMMA WireAppended ==
  ASSUME LoopTypes, NEW u \in Units, wire' = Append(wire, u)
  PROVE  /\ wire' \in Seq(Units) /\ Len(wire') = Len(wire) + 1 /\ wire'[Len(wire) + 1] = u
         /\ \A p \in 1 .. Len(wire) : wire'[p] = wire[p]
BY DEF LoopTypes

\* A request's head is sent when the one before has been sent to its end.
LEMMA HeadSent ==
  ASSUME LoopTypes, WireInv, C!SendHead
  PROVE  WireInv' /\ wire' \in Seq(Units)
<1> DEFINE N(i) == IF i \in bodies' THEN Length ELSE 0
<1>0. /\ sent \in 0 .. Requests /\ unsent = 0 /\ sent' = sent + 1 /\ sent' \in 1 .. Requests
      /\ unsent' \in {0, Length} /\ bodies \subseteq 1 .. sent
      /\ bodies' = (IF unsent' > 0 THEN bodies \cup {sent'} ELSE bodies)
      /\ wire' = Append(wire, <<sent', 0>>) /\ <<sent', 0>> \in Units /\ Len(wire) \in Nat
  BY LengthsAssumption DEF C!SendHead, LoopTypes, Units
<1>1. /\ wire' \in Seq(Units) /\ Len(wire') = Len(wire) + 1 /\ wire'[Len(wire) + 1] = <<sent', 0>>
      /\ \A p \in 1 .. Len(wire) : wire'[p] = wire[p]
  BY <1>0, WireAppended
<1>2. \A i \in 1 .. sent : N(i) = C!Content(i) BY <1>0 DEF C!Content
<1>3. N(sent') = unsent' BY <1>0, LengthsAssumption
<1> HIDE DEF N
<1>4. ASSUME NEW p \in 1 .. Len(wire)
      PROVE  /\ wire[p][1] \in 1 .. sent /\ wire[p][2] \in Nat
             /\ wire[p][2] + (Len(wire) - p) >= C!Content(wire[p][1]) /\ C!Content(wire[p][1]) \in Nat
  <2>1. /\ wire[p][1] \in 1 .. Requests /\ wire[p][2] \in 0 .. Length
        /\ C!Content(wire[p][1]) \in 0 .. Length
    BY WireUnits
  <2>2. wire[p][1] <= sent /\ wire[p][2] + (Len(wire) - p) >= C!Content(wire[p][1])
    BY <1>0, <2>1 DEF WireInv
  <2> QED BY <1>0, <2>1, <2>2, LengthsAssumption, SMTT(20)
<1>5. (unsent > 0 => sent \in bodies)' BY <1>0
<1>6. ASSUME NEW p \in 1 .. Len(wire')
      PROVE  /\ wire'[p][1] <= sent'
             /\ /\ wire'[p][1] = sent' => wire'[p][2] + (Len(wire') - p) = N(sent') - unsent'
                /\ wire'[p][1] # sent' => wire'[p][2] + (Len(wire') - p) >= N(wire'[p][1])
  <2>1. CASE p = Len(wire) + 1
    <3>0. wire'[p] = <<sent', 0>> BY <1>1, <2>1, SMTT(20)
    <3>1. wire'[p][1] = sent' /\ wire'[p][2] = 0 /\ N(sent') = unsent' BY <1>3, <3>0, UnitOf, Zenon
    <3>2. Len(wire') = Len(wire) + 1 /\ Len(wire) \in Nat /\ sent' \in Nat /\ unsent' \in Nat
      BY <1>0, <1>1, LengthsAssumption, SMTT(20)
    <3>3. 0 + (Len(wire') - p) = unsent' - unsent' /\ sent' <= sent' BY <2>1, <3>2, HeadLast, Zenon
    <3> QED BY <3>1, <3>3, Zenon
  <2>2. CASE p \in 1 .. Len(wire)
    <3>1. /\ wire[p][1] \in 1 .. sent /\ wire[p][2] \in Nat
          /\ wire[p][2] + (Len(wire) - p) >= C!Content(wire[p][1]) /\ C!Content(wire[p][1]) \in Nat
      BY <1>4, <2>2, SMTT(20)
    <3>2. wire'[p] = wire[p] /\ N(wire[p][1]) = C!Content(wire[p][1]) BY <1>1, <1>2, <2>2, <3>1
    <3>3. sent' = sent + 1 /\ Len(wire') = Len(wire) + 1 /\ Len(wire) \in Nat /\ sent \in Nat BY <1>0, <1>1
    <3>4. wire[p][1] # sent + 1 /\ wire[p][1] <= sent + 1 BY <3>1, <3>3, SMTT(20)
    <3>5. wire[p][2] + ((Len(wire) + 1) - p) >= C!Content(wire[p][1])
      <4> DEFINE x == wire[p][2]
                 n == Len(wire)
                 c == C!Content(wire[p][1])
      <4>1. x \in Nat /\ n \in Nat /\ c \in Nat /\ p \in Nat /\ x + (n - p) >= c BY <2>2, <3>1, <3>3
      <4> HIDE DEF x, n, c
      <4>2. x + ((n + 1) - p) >= c BY <4>1
      <4> QED BY <4>2 DEF x, n, c
    <3>6. /\ wire'[p][1] = wire[p][1] /\ wire'[p][2] = wire[p][2] /\ sent' = sent + 1
          /\ Len(wire') = Len(wire) + 1 /\ N(wire'[p][1]) = C!Content(wire[p][1])
      BY <3>2, <3>3, Zenon
    <3> QED BY <3>4, <3>5, <3>6
  <2> QED BY <1>0, <1>1, <2>1, <2>2
<1>7. ASSUME NEW p \in 1 .. Len(wire'), NEW q \in p .. Len(wire'),
             wire'[p][2] + (q - p) <= N(wire'[p][1])
      PROVE  wire'[q] = <<wire'[p][1], wire'[p][2] + (q - p)>>
  <2>1. CASE p = Len(wire) + 1
    <3>1. q = p /\ wire'[p] = <<sent', 0>> BY <1>0, <1>1, <2>1
    <3> QED BY <1>0, <3>1
  <2>2. CASE p \in 1 .. Len(wire) /\ q \in p .. Len(wire)
    <3>1. wire'[p] = wire[p] /\ wire'[q] = wire[q] /\ N(wire[p][1]) = C!Content(wire[p][1])
      <4>1. q \in 1 .. Len(wire) /\ wire[p][1] \in 1 .. sent BY <1>0, <1>4, <2>2, SMTT(20)
      <4> QED BY <1>1, <1>2, <2>2, <4>1
    <3> QED BY <1>7, <2>2, <3>1 DEF WireInv
  <2>3. CASE p \in 1 .. Len(wire) /\ q = Len(wire) + 1
    <3>1. wire'[p] = wire[p] /\ N(wire[p][1]) = C!Content(wire[p][1]) BY <1>1, <1>2, <1>4, <2>3
    <3>2. wire[p][2] + (q - p) > C!Content(wire[p][1]) BY <1>0, <1>4, <2>3, SMTT(20)
    <3>3. wire[p][2] + (q - p) \in Int /\ C!Content(wire[p][1]) \in Int BY <1>0, <1>4, <2>3, SMTT(20)
    <3> QED BY <1>7, <3>1, <3>2, <3>3
  <2> QED BY <1>0, <1>1, <2>1, <2>2, <2>3, SMTT(20)
<1> QED BY <1>1, <1>5, <1>6, <1>7, Zenon DEF WireInv, C!Content, N

\* A unit of a body follows the head, or the unit before it, of the same request.
LEMMA BodySent ==
  ASSUME LoopTypes, WireInv, C!SendBody
  PROVE  WireInv' /\ wire' \in Seq(Units)
<1>0. /\ sent \in 1 .. Requests /\ sent \in bodies /\ unsent \in 1 .. Length /\ unsent' = unsent - 1
      /\ UNCHANGED <<sent, bodies>> /\ C!Content(sent) = Length
      /\ wire' = Append(wire, <<sent, Length - unsent'>>) /\ <<sent, Length - unsent'>> \in Units /\ Len(wire) \in Nat
  <2>1. /\ unsent > 0 /\ unsent' = unsent - 1 /\ UNCHANGED <<sent, bodies>>
        /\ wire' = Append(wire, <<sent, Length - unsent'>>)
    BY Zenon DEF C!SendBody
  <2>2. unsent \in 0 .. Length /\ sent \in 0 .. Requests /\ bodies \subseteq 1 .. sent /\ Len(wire) \in Nat
    BY DEF LoopTypes
  <2>3. sent \in bodies /\ C!Content(sent) = Length BY <2>1, Zenon DEF WireInv, C!Content
  <2>4. sent \in 1 .. Requests /\ unsent \in 1 .. Length /\ Length - unsent' \in 0 .. Length
    BY <2>1, <2>2, <2>3, LengthsAssumption, SMTT(20)
  <2> QED BY <2>1, <2>2, <2>3, <2>4 DEF Units
<1>1. /\ wire' \in Seq(Units) /\ Len(wire') = Len(wire) + 1 /\ wire'[Len(wire) + 1] = <<sent, Length - unsent'>>
      /\ \A p \in 1 .. Len(wire) : wire'[p] = wire[p]
  BY <1>0, WireAppended
<1>2. \A i : C!Content(i)' = C!Content(i) BY <1>0 DEF C!Content
<1>4. ASSUME NEW p \in 1 .. Len(wire)
      PROVE  /\ wire[p][1] \in 1 .. sent /\ wire[p][2] \in Nat /\ C!Content(wire[p][1]) \in Nat
             /\ /\ wire[p][1] = sent => wire[p][2] + (Len(wire) - p) = Length - unsent
                /\ wire[p][1] # sent => wire[p][2] + (Len(wire) - p) >= C!Content(wire[p][1])
  <2>1. /\ wire[p][1] \in 1 .. Requests /\ wire[p][2] \in 0 .. Length
        /\ C!Content(wire[p][1]) \in 0 .. Length
    BY WireUnits
  <2>2. wire[p][1] <= sent BY DEF WireInv
  <2>3. /\ wire[p][1] = sent => wire[p][2] + (Len(wire) - p) = Length - unsent
        /\ wire[p][1] # sent => wire[p][2] + (Len(wire) - p) >= C!Content(wire[p][1])
    BY <1>0, Zenon DEF WireInv
  <2> QED BY <1>0, <2>1, <2>2, <2>3, LengthsAssumption, SMTT(20)
<1>6. ASSUME NEW p \in 1 .. Len(wire')
      PROVE  /\ (wire[p][1] <= sent)'
             /\ /\ wire'[p][1] = sent => wire'[p][2] + (Len(wire') - p) = Length - unsent'
                /\ wire'[p][1] # sent => wire'[p][2] + (Len(wire') - p) >= C!Content(wire'[p][1])
  <2>1. CASE p = Len(wire) + 1 BY <1>0, <1>1, <2>1, LengthsAssumption
  <2>2. CASE p \in 1 .. Len(wire)
    <3>1. /\ wire[p][1] \in 1 .. sent /\ wire[p][2] \in Nat /\ C!Content(wire[p][1]) \in Nat
          /\ wire[p][1] = sent => wire[p][2] + (Len(wire) - p) = Length - unsent
          /\ wire[p][1] # sent => wire[p][2] + (Len(wire) - p) >= C!Content(wire[p][1])
      BY <1>4, <2>2, SMTT(20)
    <3>2. wire'[p] = wire[p] /\ Len(wire') = Len(wire) + 1 /\ sent' = sent /\ sent \in Nat BY <1>0, <1>1, <2>2
    <3>3. unsent' = unsent - 1 /\ unsent \in Nat /\ Length \in Nat /\ Len(wire) \in Nat BY <1>0, LengthsAssumption
    <3>4. wire[p][1] = sent => wire[p][2] + ((Len(wire) + 1) - p) = Length - (unsent - 1)
      BY <2>2, <3>1, <3>3, SMTT(20)
    <3>5. wire[p][1] # sent => wire[p][2] + ((Len(wire) + 1) - p) >= C!Content(wire[p][1])
      BY <2>2, <3>1, <3>3
    <3> QED BY <3>1, <3>2, <3>3, <3>4, <3>5
  <2> QED BY <1>0, <1>1, <2>1, <2>2
<1>7. ASSUME NEW p \in 1 .. Len(wire'), NEW q \in p .. Len(wire'),
             wire'[p][2] + (q - p) <= C!Content(wire'[p][1])
      PROVE  wire'[q] = <<wire'[p][1], wire'[p][2] + (q - p)>>
  <2>1. CASE p = Len(wire) + 1
    <3>1. q = p /\ wire'[p] = <<sent, Length - unsent'>> BY <1>0, <1>1, <2>1
    <3> QED BY <1>0, <3>1, LengthsAssumption
  <2>2. CASE p \in 1 .. Len(wire) /\ q \in p .. Len(wire)
    <3>1. wire'[p] = wire[p] /\ wire'[q] = wire[q] BY <1>0, <1>1, <2>2
    <3> QED BY <1>7, <2>2, <3>1 DEF WireInv
  <2>3. CASE p \in 1 .. Len(wire) /\ q = Len(wire) + 1
    <3>1. wire'[p] = wire[p] /\ wire'[q] = <<sent, Length - unsent'>> BY <1>1, <2>3
    <3>2. CASE wire[p][1] = sent
      <4>1. wire[p][2] \in Nat /\ wire[p][2] + (Len(wire) - p) = Length - unsent BY <1>4, <2>3, <3>2
      <4>2. wire[p][2] + (q - p) = Length - unsent'
        <5>1. unsent' = unsent - 1 /\ unsent \in Int /\ Length \in Int /\ Len(wire) \in Int BY <1>0, LengthsAssumption
        <5>2. p \in Int /\ wire[p][2] \in Int /\ q = Len(wire) + 1 BY <2>3, <4>1, <5>1
        <5>3. wire[p][2] + ((Len(wire) + 1) - p) = Length - (unsent - 1)
          <6> DEFINE x == wire[p][2]
                     n == Len(wire)
          <6>1. x \in Int /\ n \in Int /\ x + (n - p) = Length - unsent BY <4>1, <5>1, <5>2, Zenon
          <6> HIDE DEF x, n
          <6>2. x + ((n + 1) - p) = Length - (unsent - 1) BY <5>1, <5>2, <6>1
          <6> QED BY <6>2 DEF x, n
        <5> QED BY <5>1, <5>2, <5>3
      <4> QED BY <3>1, <3>2, <4>2
    <3>3. CASE wire[p][1] # sent
      <4> DEFINE x == wire[p][2]
                 n == Len(wire)
                 c == C!Content(wire[p][1])
      <4>1. x \in Nat /\ c \in Nat /\ x + (n - p) >= c BY <1>4, <2>3, <3>3, Zenon
      <4>2. x + (q - p) <= c BY <1>7, <3>1, Zenon
      <4>3. n \in Nat BY <1>0, Zenon
      <4> HIDE DEF x, n, c
      <4>4. p \in 1 .. n /\ q = n + 1 BY <2>3 DEF n
      <4> QED BY <4>1, <4>2, <4>3, <4>4
    <3> QED BY <3>2, <3>3
  <2> QED BY <1>0, <1>1, <2>1, <2>2, <2>3, SMTT(20)
<1> QED BY <1>0, <1>1, <1>2, <1>6, <1>7, SMTT(20) DEF WireInv

\* A response sent up to a position, and some units from there, is a response
\* sent up to a later position.
LEMMA OutGrows ==
  ASSUME NEW a \in Nat, NEW b \in Nat
  PROVE  [j \in 1 .. a |-> j - 1] \o [j \in 1 .. b |-> a + j - 1] = [j \in 1 .. a + b |-> j - 1]
<1> DEFINE x == [j \in 1 .. a |-> j - 1]
           y == [j \in 1 .. b |-> a + j - 1]
<1>1. x \in Seq(Int) /\ Len(x) = a /\ y \in Seq(Int) /\ Len(y) = b
  <2>1. x \in [1 .. a -> Int] /\ y \in [1 .. b -> Int] OBVIOUS
  <2> QED BY <2>1
<1>2. \A j \in 1 .. a : x[j] = j - 1 OBVIOUS
<1>3. \A j \in 1 .. b : y[j] = a + j - 1 OBVIOUS
<1> HIDE DEF x, y
<1>4. /\ x \o y \in Seq(Int) /\ Len(x \o y) = a + b
      /\ \A j \in 1 .. a + b : (x \o y)[j] = IF j <= a THEN x[j] ELSE y[j - a]
  BY <1>1, Concatenation, Zenon
<1>5. ASSUME NEW j \in 1 .. a + b PROVE (x \o y)[j] = j - 1
  <2>1. CASE j <= a BY <1>2, <1>4, <2>1
  <2>2. CASE j > a
    <3>1. j - a \in 1 .. b BY <2>2
    <3>2. (x \o y)[j] = y[j - a] BY <1>4, <2>2
    <3>3. a + (j - a) - 1 = j - 1 BY <2>2
    <3> QED BY <1>3, <3>1, <3>2, <3>3
  <2>3. j <= a \/ j > a OBVIOUS
  <2> QED BY <2>1, <2>2, <2>3, Zenon
<1> DEFINE z == [j \in 1 .. a + b |-> j - 1]
<1>6. z \in Seq(Int) /\ Len(z) = a + b /\ \A j \in 1 .. a + b : z[j] = j - 1
  <2>1. z \in [1 .. a + b -> Int] /\ a + b \in Nat OBVIOUS
  <2> QED BY <2>1
<1> HIDE DEF z
<1>7. x \o y = z BY <1>4, <1>5, <1>6, SameEntries, Zenon
<1> QED BY <1>7 DEF x, y, z

\* The wire stays a piece of the stream.
LEMMA WireStep ==
  ASSUME LoopInv, C!Next
  PROVE  WireInv' /\ wire' \in Seq(Units)
<1>0. LoopTypes /\ WireInv /\ wire \in Seq(Units) BY DEF LoopInv, LoopTypes
<1>1. CASE UNCHANGED <<wire, sent, unsent, bodies>> BY <1>0, <1>1, Zenon DEF WireInv, C!Content
<1>2. CASE wire' = <<>> /\ UNCHANGED <<sent, unsent, bodies>> BY <1>0, <1>2 DEF WireInv, C!Content
<1>3. CASE \E k \in 1 .. Len(wire) : wire' = SubSeq(wire, k + 1, Len(wire)) /\ UNCHANGED <<sent, unsent, bodies>>
  BY <1>0, <1>3, WireReceived
<1>4. CASE C!SendHead BY <1>0, <1>4, HeadSent
<1>5. CASE C!SendBody BY <1>0, <1>5, BodySent
<1>6. CASE \/ C!Leave \/ C!ReadFails \/ C!ReadEnds \/ C!Dispatch \/ C!WriteClosed \/ C!Sigpipe \/ C!Close
  BY <1>1, <1>6, Zenon DEF C!Leave, C!ReadFails, C!ReadEnds, C!Dispatch, C!WriteClosed, C!Sigpipe, C!Close, C!stream
<1>7. CASE C!RecvNothing BY <1>1, <1>2, <1>7, Zenon DEF C!RecvNothing
<1>8. ASSUME NEW k \in Nat, k >= 1, C!RecvHead(k) \/ C!ReadBody(k) \/ C!Write(k) PROVE WireInv' /\ wire' \in Seq(Units)
  <2>1. CASE C!Write(k) BY <1>1, <2>1, Zenon DEF C!Write, C!stream
  <2>2. CASE C!RecvHead(k) \/ C!ReadBody(k)
    <3>1. k \in 1 .. Len(wire)
      <4>1. k <= Len(wire) BY <2>2, Zenon DEF C!RecvHead, C!ReadBody
      <4>2. Len(wire) \in Nat BY <1>0, Entries
      <4> QED BY <1>8, <4>1, <4>2
    <3>2. wire' = SubSeq(wire, k + 1, Len(wire)) /\ UNCHANGED <<sent, unsent, bodies>>
      BY <2>2, Zenon DEF C!RecvHead, C!ReadBody
    <3> QED BY <1>3, <3>1, <3>2
  <2> QED BY <1>8, <2>1, <2>2
<1>9. \A k \in 1 .. Requests * (Length + 1) : k \in Nat /\ k >= 1 BY LengthsAssumption
<1> QED BY <1>4, <1>5, <1>6, <1>7, <1>8, <1>9, Zenon DEF C!Next

\* So do the types.
LEMMA TypesStep ==
  ASSUME LoopInv, C!Next
  PROVE  LoopTypes'
<1>0. LoopTypes /\ WireInv /\ wire' \in Seq(Units) BY WireStep DEF LoopInv
<1> USE LengthsAssumption DEF LoopTypes
<1>c. C!close \/ UNCHANGED C!socket => m_sock' \in BOOLEAN /\ closes' \in Nat
  <2>1. CASE C!close
    <3>1. m_sock' = FALSE /\ closes' = closes + (IF m_sock THEN 1 ELSE 0) BY <2>1, Zenon DEF C!close
    <3>2. closes' = closes \/ closes' = closes + 1 BY <1>0, <3>1
    <3>3. closes' \in Nat BY <1>0, <3>2
    <3> QED BY <3>1, <3>3, Zenon
  <2>2. CASE UNCHANGED C!socket BY <1>0, <2>2, Zenon DEF C!socket
  <2> QED BY <2>1, <2>2
<1>1. CASE C!SendHead BY <1>0, <1>1 DEF C!SendHead, C!socket
<1>2. CASE C!SendBody BY <1>0, <1>2 DEF C!SendBody, C!socket
<1>3. CASE C!Leave BY <1>0, <1>3 DEF C!Leave, C!socket
<1>4. CASE C!ReadFails
  <2>1. /\ pc = "body" /\ failed < MaxFails /\ failed' = failed + 1 /\ offset' = offset + (-1) /\ left' = left + 1
        /\ UNCHANGED <<m_is_keep_alive, C!socket, C!stream, pc, req, buffer, answered>>
    BY <1>4, Zenon DEF C!ReadFails, C!Advance
  <2>2. /\ failed \in 0 .. MaxFails /\ left \in 0 .. Length + failed /\ offset \in -failed .. Length
        /\ offset + left \in 0 .. Length
    BY <1>0, <2>1
  <2>3. /\ failed' \in 0 .. MaxFails /\ left' \in 0 .. Length + failed' /\ offset' \in -failed' .. Length
        /\ offset' + left' \in 0 .. Length
    BY <2>1, <2>2
  <2> QED BY <1>0, <2>1, <2>3 DEF C!socket, C!stream
<1>5. CASE C!RecvNothing
  <2>1. /\ pc' = "closing" /\ C!close /\ (failed' = failed \/ (failed < MaxFails /\ failed' = failed + 1))
        /\ UNCHANGED <<m_is_keep_alive, sent, unsent, bodies, waits, peer, req, buffer, offset, left, answered>>
    BY <1>5, Zenon DEF C!RecvNothing
  <2>2. failed \in 0 .. MaxFails /\ left \in 0 .. Length + failed /\ offset \in -failed .. Length BY <1>0
  <2>3. failed' \in 0 .. MaxFails /\ left' \in 0 .. Length + failed' /\ offset' \in -failed' .. Length BY <2>1, <2>2
  <2> QED BY <1>0, <1>c, <2>1, <2>3
<1>6. CASE C!ReadEnds BY <1>0, <1>6, <1>c DEF C!ReadEnds, C!stream
<1>7. CASE C!Dispatch BY <1>0, <1>7, <1>c DEF C!Dispatch, C!stream
<1>8. CASE C!WriteClosed BY <1>0, <1>8 DEF C!WriteClosed, C!socket, C!stream
<1>9. CASE C!Sigpipe BY <1>0, <1>9 DEF C!Sigpipe, C!socket, C!stream
<1>10. CASE C!Close BY <1>0, <1>10, <1>c DEF C!Close, C!stream
<1>11. ASSUME NEW k \in Nat, k >= 1, C!RecvHead(k) PROVE LoopTypes'
  <2>1. k <= Len(wire) /\ 1 \in 1 .. Len(wire) BY <1>0, <1>11 DEF C!RecvHead
  <2>2. wire[1][1] \in 1 .. sent /\ C!Content(wire[1][1]) \in 0 .. Length
    <3>1. wire[1][1] \in 1 .. Requests /\ C!Content(wire[1][1]) \in 0 .. Length BY <1>0, <2>1, WireUnits, Zenon
    <3>2. wire[1][1] <= sent BY <1>0, <2>1, Zenon DEF WireInv
    <3>3. sent \in Nat BY <1>0
    <3> QED BY <3>1, <3>2, <3>3
  <2>3. PICK i \in 1 .. sent, n \in 0 .. Length : i = wire[1][1] /\ n = C!Content(wire[1][1]) BY <2>2
  <2>4. /\ req' = i /\ buffer' = n + (IF n >= k - 1 THEN k - 1 ELSE n) /\ offset' = 0
        /\ left' = IF n > 0 /\ C!Missing(n, k - 1) > 0 THEN C!Missing(n, k - 1) ELSE 0
        /\ pc' = IF left' > 0 THEN "body" ELSE "dispatch"
        /\ UNCHANGED <<m_is_keep_alive, C!socket, sent, unsent, bodies, waits, peer, failed, answered>>
    BY <1>11, <2>3 DEF C!RecvHead
  <2>5. left' \in 0 .. Length /\ buffer' \in 0 .. 2 * Length
    <3>1. CASE n > k - 1
      <4>1. left' = n - (k - 1) /\ buffer' = n + (k - 1) BY <1>11, <2>4, <3>1 DEF C!Missing
      <4> QED BY <1>11, <3>1, <4>1
    <3>2. CASE ~(n > k - 1)
      <4>1. left' = 0 /\ buffer' = n + n BY <1>11, <2>4, <3>2, SMTT(20) DEF C!Missing
      <4> QED BY <4>1
    <3> QED BY <3>1, <3>2
  <2> QED BY <1>0, <2>4, <2>5, SMTT(20) DEF C!socket
<1>12. ASSUME NEW k \in Nat, k >= 1, C!ReadBody(k) PROVE LoopTypes'
  <2>1. /\ pc = "body" /\ k <= left /\ offset' = offset + k /\ left' = left - k
        /\ pc' \in {"dispatch", "body", "wild"}
        /\ UNCHANGED <<m_is_keep_alive, C!socket, sent, unsent, bodies, waits, peer, req, buffer, failed, answered>>
    BY <1>12, Zenon DEF C!ReadBody, C!Advance
  <2>2. /\ failed \in 0 .. MaxFails /\ left \in 0 .. Length + failed /\ offset \in -failed .. Length
        /\ offset + left \in 0 .. Length
    BY <1>0, <2>1
  <2>3. left' \in 0 .. Length + failed /\ offset' \in -failed .. Length /\ offset' + left' \in 0 .. Length
    BY <1>12, <2>1, <2>2
  <2> QED BY <1>0, <2>1, <2>3 DEF C!socket
<1>13. ASSUME NEW k \in Nat, k >= 1, C!Write(k) PROVE LoopTypes'
  <2>1. /\ pc = "write" /\ k <= left /\ offset' = offset + k /\ left' = left - k
        /\ pc' \in {"write", "head", "closing"}
        /\ answered' = answered \/ answered' = Append(answered, req)
        /\ UNCHANGED <<m_is_keep_alive, C!socket, C!stream, req, body, buffer, failed>>
    BY <1>0, <1>13 DEF C!Write, C!Advance
  <2>2. req \in 1 .. Requests BY <1>0, <2>1
  <2>3. answered' \in Seq(1 .. Requests)
    <3>1. answered \in Seq(1 .. Requests) BY <1>0
    <3>2. Append(answered, req) \in Seq(1 .. Requests) BY <2>2, <3>1
    <3> QED BY <2>1, <3>1, <3>2, Zenon
  <2> QED BY <1>0, <2>1, <2>3 DEF C!socket, C!stream
<1>14. \A k \in 1 .. Requests * (Length + 1) : k \in Nat /\ k >= 1 OBVIOUS
<1> QED BY <1>1, <1>2, <1>3, <1>4, <1>5, <1>6, <1>7, <1>8, <1>9, <1>10, <1>11, <1>12, <1>13, <1>14, Zenon DEF C!Next

\* The lengths of recvRequest when the whole body has come with the head.
LEMMA NoneMissing ==
  ASSUME NEW n \in Nat, NEW k \in Nat, k >= 1, ~(n > k - 1)
  PROVE  /\ (IF n >= k - 1 THEN k - 1 ELSE n) = n
         /\ (IF n > 0 /\ n - (k - 1) > 0 THEN n - (k - 1) ELSE 0) = 0
OBVIOUS

\* The places of a body's units when left of its Length are missing.
LEMMA NextUnit ==
  ASSUME NEW len \in Nat, NEW rest \in 1 .. len, NEW j \in 0 .. rest - 1
  PROVE  /\ len - rest + 1 + ((j + 1) - 1) = len - rest + 1 + j
         /\ len - rest + 1 + j <= len
         /\ len - rest + 1 + j = (len - rest + j) + 1
OBVIOUS

\* A head is received, with units of its body or more.
LEMMA HeadExact ==
  ASSUME LoopInv, NEW k \in Nat, k >= 1, C!RecvHead(k)
  PROVE  ExactInv'
<1>0. LoopTypes /\ WireInv /\ Len(wire) \in Nat /\ Length \in Nat BY LengthsAssumption DEF LoopInv, LoopTypes
<1>1. k \in 1 .. Len(wire) /\ 1 \in 1 .. Len(wire) /\ wire[1][2] = 0 BY <1>0, SMTT(20) DEF C!RecvHead
<1>2. wire[1][1] \in 1 .. sent /\ sent \in Nat /\ C!Content(wire[1][1]) \in 0 .. Length
  BY <1>0, <1>1, WireUnits DEF WireInv, LoopTypes
<1>3. PICK i \in 1 .. sent, n \in 0 .. Length : i = wire[1][1] /\ n = C!Content(i) BY <1>2, SMTT(20)
<1>4. /\ req' = i /\ body' = {<<n + j, wire[j + 2]>> : j \in 0 .. (IF n >= k - 1 THEN k - 1 ELSE n) - 1}
      /\ buffer' = n + (IF n >= k - 1 THEN k - 1 ELSE n) /\ offset' = 0
      /\ left' = IF n > 0 /\ C!Missing(n, k - 1) > 0 THEN C!Missing(n, k - 1) ELSE 0
      /\ pc' = IF left' > 0 THEN "body" ELSE "dispatch"
      /\ UNCHANGED <<sent, unsent, bodies, failed>>
  BY <1>3 DEF C!RecvHead
<1>5. \A j \in 0 .. n : j + 1 \in 1 .. Len(wire) => wire[j + 1] = <<i, j>>
  <2> SUFFICES ASSUME NEW j \in 0 .. n, j + 1 \in 1 .. Len(wire) PROVE wire[j + 1] = <<i, j>> OBVIOUS
  <2>1. j + 1 \in 1 .. Len(wire) /\ wire[1][2] + ((j + 1) - 1) = j /\ j <= n BY <1>1
  <2>2. wire[1][2] + ((j + 1) - 1) <= C!Content(wire[1][1]) BY <1>3, <2>1
  <2>3. 1 \in 1 .. Len(wire) /\ j + 1 \in 1 .. Len(wire) BY <1>1
  <2>4. wire[j + 1] = <<wire[1][1], wire[1][2] + ((j + 1) - 1)>> BY <1>0, <2>2, <2>3 DEF WireInv
  <2> QED BY <1>3, <2>1, <2>4
<1>6. (i = sent => Len(wire) - 1 = n - unsent) /\ (i # sent => Len(wire) - 1 >= n)
  BY <1>0, <1>1, <1>3 DEF WireInv
<1>7. i \in bodies => n = Length BY <1>3 DEF C!Content
<1>8. i \notin bodies => n = 0 BY <1>3 DEF C!Content
<1>9. CASE n > k - 1
  <2>1. /\ left' = n - (k - 1) /\ buffer' = n + (k - 1) /\ pc' = "body" /\ offset' = 0
        /\ body' = {<<n + j, wire[j + 2]>> : j \in 0 .. (k - 1) - 1}
    BY <1>4, <1>9 DEF C!Missing
  <2>2. i \in bodies /\ n = Length BY <1>7, <1>8, <1>9
  <2>3. /\ left' \in 1 .. Length /\ left' + offset' + buffer' = 2 * Length /\ Length - left' = k - 1
        /\ buffer' >= Length
    BY <1>9, <2>1, <2>2
  <2>4. \A j \in 0 .. (k - 1) - 1 : wire[j + 2] = <<i, j + 1>>
    <3> SUFFICES ASSUME NEW j \in 0 .. (k - 1) - 1 PROVE wire[j + 2] = <<i, j + 1>> OBVIOUS
    <3>1. j + 1 \in 0 .. n /\ (j + 1) + 1 \in 1 .. Len(wire) /\ (j + 1) + 1 = j + 2 BY <1>0, <1>1, <1>9
    <3> QED BY <1>5, <3>1, Zenon
  <2>5. body' = {<<Length + j, <<i, j + 1>>>> : j \in 0 .. (k - 1) - 1} BY <2>1, <2>2, <2>4, SMTT(20)
  <2>6. /\ Len(wire') = Len(wire) - k /\ wire' \in Seq(Units)
        /\ \A p \in 1 .. Len(wire) - k : wire'[p] = wire[p + k]
    BY <1>0, <1>1, <1>4, WireReceived, SMTT(20) DEF C!RecvHead
  <2>7. wire' # <<>> => wire'[1] = <<i, k>>
    <3> SUFFICES ASSUME wire' # <<>> PROVE wire'[1] = <<i, k>> OBVIOUS
    <3>1. Len(wire') > 0 BY <2>6
    <3>2. 1 \in 1 .. Len(wire) - k /\ k \in 0 .. n /\ k + 1 \in 1 .. Len(wire) BY <1>0, <1>1, <1>9, <2>6, <3>1
    <3>3. wire'[1] = wire[1 + k] /\ wire[k + 1] = <<i, k>> BY <1>5, <2>6, <3>2
    <3> QED BY <3>3
  <2>8. wire' = <<>> => sent = i /\ unsent = left'
    <3> SUFFICES ASSUME wire' = <<>> PROVE sent = i /\ unsent = left' OBVIOUS
    <3>1. Len(wire) = k BY <1>0, <2>6
    <3>2. i = sent BY <1>6, <1>9, <3>1
    <3>3. unsent \in Nat BY <1>0 DEF LoopTypes
    <3> QED BY <1>6, <2>1, <3>1, <3>2, <3>3
  <2>9. Length - left' + 1 = k BY <2>3, SMTT(20)
  <2> QED BY <1>4, <2>1, <2>2, <2>3, <2>5, <2>7, <2>8, <2>9, Zenon DEF ExactInv, Filled
<1>10. CASE ~(n > k - 1)
  <2>1. /\ pc' = "dispatch" /\ body' = {<<n + j, wire[j + 2]>> : j \in 0 .. n - 1} /\ buffer' = n + n
    <3>0. n \in Nat BY <1>0
    <3>1. left' = 0 /\ (IF n >= k - 1 THEN k - 1 ELSE n) = n BY <1>4, <1>10, <3>0, NoneMissing, Zenon DEF C!Missing
    <3> QED BY <1>4, <3>1
  <2>2. \A j \in 0 .. n - 1 : wire[j + 2] = <<i, j + 1>>
    <3> SUFFICES ASSUME NEW j \in 0 .. n - 1 PROVE wire[j + 2] = <<i, j + 1>> OBVIOUS
    <3>1. j + 1 \in 0 .. n /\ (j + 1) + 1 \in 1 .. Len(wire) /\ (j + 1) + 1 = j + 2 BY <1>0, <1>1, <1>10, SMTT(20)
    <3> QED BY <1>5, <3>1, Zenon
  <2>3. i \in bodies => body' = {<<Length + j, <<i, j + 1>>>> : j \in 0 .. Length - 1} BY <1>7, <2>1, <2>2
  <2>4. i \in bodies => buffer' >= Length BY <1>0, <1>7, <2>1
  <2> QED BY <1>4, <2>1, <2>3, <2>4, SMTT(20) DEF ExactInv, Filled
<1> QED BY <1>9, <1>10

\* readFixSize gets some more units.
LEMMA BodyExact ==
  ASSUME LoopInv, NEW k \in Nat, k >= 1, C!ReadBody(k)
  PROVE  ExactInv'
<1> SUFFICES ASSUME failed' = 0, pc' # "wild" PROVE ExactInv' BY Zenon DEF ExactInv
<1>0. /\ LoopTypes /\ WireInv /\ Len(wire) \in Nat /\ Length \in Nat /\ unsent \in Nat
      /\ pc = "body" /\ failed = 0 /\ k <= left /\ k \in 1 .. Len(wire) /\ 1 \in 1 .. Len(wire)
  BY LengthsAssumption, SMTT(20) DEF LoopInv, LoopTypes, C!ReadBody
<1>1. /\ req \in bodies /\ left \in 1 .. Length /\ left + offset + buffer = 2 * Length
      /\ body = Filled(Length - left) /\ wire[1] = <<req, Length - left + 1>>
      /\ offset \in Int /\ buffer \in Int /\ buffer >= Length
  BY <1>0, SMTT(20) DEF LoopInv, ExactInv, LoopTypes
<1>n. /\ Length \in Nat /\ left \in 1 .. Length /\ left + offset + buffer = 2 * Length
      /\ offset \in Int /\ buffer \in Int
  BY <1>0, <1>1, Zenon
<1>2. /\ body' = body \cup {<<buffer + offset + j, wire[j + 1]>> : j \in 0 .. k - 1}
      /\ offset' = offset + k /\ left' = left - k /\ pc' = IF left' = 0 THEN "dispatch" ELSE "body"
      /\ UNCHANGED <<req, buffer, sent, unsent, bodies>>
  BY Zenon DEF C!ReadBody, C!Advance
<1>3. \A j \in 0 .. left - 1 : j + 1 \in 1 .. Len(wire) => wire[j + 1] = <<req, Length - left + 1 + j>>
  <2> SUFFICES ASSUME NEW j \in 0 .. left - 1, j + 1 \in 1 .. Len(wire)
               PROVE wire[j + 1] = <<req, Length - left + 1 + j>> BY Zenon
  <2>1. wire[1][1] = req /\ wire[1][2] = Length - left + 1 /\ C!Content(req) = Length
    <3>1. wire[1] = <<req, Length - left + 1>> /\ req \in bodies BY <1>1, ZenonT(30)
    <3>2. wire[1][1] = req /\ wire[1][2] = Length - left + 1 BY <3>1, UnitOf, Zenon
    <3> QED BY <3>1, <3>2, Zenon DEF C!Content
  <2>2. Length - left + 1 + ((j + 1) - 1) = Length - left + 1 + j /\ Length - left + 1 + j <= Length
    BY <1>0, <1>1, NextUnit, ZenonT(30)
  <2> QED BY <1>0, <2>1, <2>2, Zenon DEF WireInv
<1>4. body' = {<<Length + j, <<req, j + 1>>>> : j \in 0 .. Length - left' - 1}
  <2>1. body = {<<Length + j, <<req, j + 1>>>> : j \in 0 .. Length - left - 1} BY <1>1, Zenon DEF Filled
  <2>2. \A j \in 0 .. k - 1 : /\ buffer + offset + j = Length + (Length - left + j)
                              /\ wire[j + 1] = <<req, (Length - left + j) + 1>>
    <3> SUFFICES ASSUME NEW j \in 0 .. k - 1
                 PROVE /\ buffer + offset + j = Length + (Length - left + j)
                       /\ wire[j + 1] = <<req, (Length - left + j) + 1>>
      OBVIOUS
    <3>1. buffer + offset + j = Length + (Length - left + j) BY <1>n, SMTT(20)
    <3>2. j \in 0 .. left - 1 /\ j + 1 \in 1 .. Len(wire) BY <1>0, <1>1
    <3>3. Length - left + 1 + j = (Length - left + j) + 1 BY <1>n, SMTT(20)
    <3> QED BY <1>3, <3>1, <3>2, <3>3
  <2>3. {<<buffer + offset + j, wire[j + 1]>> : j \in 0 .. k - 1}
          = {<<Length + (Length - left + j), <<req, (Length - left + j) + 1>>>> : j \in 0 .. k - 1}
    BY <2>2
  <2>4. {<<Length + (Length - left + j), <<req, (Length - left + j) + 1>>>> : j \in 0 .. k - 1}
          = {<<Length + j, <<req, j + 1>>>> : j \in Length - left .. Length - left + k - 1}
    <3>0. Length \in Int /\ left \in Int /\ k \in Int BY <1>0, <1>1
    <3>1. \A j \in 0 .. k - 1 : Length - left + j \in Length - left .. Length - left + k - 1 BY <3>0
    <3>2. \A m \in Length - left .. Length - left + k - 1 :
            m - (Length - left) \in 0 .. k - 1 /\ Length - left + (m - (Length - left)) = m
      BY <3>0
    <3> QED BY <3>1, <3>2
  <2>5. 0 .. Length - left' - 1 = (0 .. Length - left - 1) \cup (Length - left .. Length - left + k - 1)
    BY <1>0, <1>1, <1>2
  <2> QED BY <1>2, <2>1, <2>3, <2>4, <2>5, ZenonT(30)
<1>5. /\ Len(wire') = Len(wire) - k /\ wire' \in Seq(Units)
      /\ \A p \in 1 .. Len(wire) - k : wire'[p] = wire[p + k]
  BY <1>0, <1>2, WireReceived, SMTT(20) DEF C!ReadBody
<1>6. CASE left' = 0
  <2>1. pc' = "dispatch" BY <1>2, <1>6, Zenon
  <2>2. body' = {<<Length + j, <<req, j + 1>>>> : j \in 0 .. Length - 1}
    <3>1. Length - left' - 1 = Length - 1 BY <1>0, <1>6
    <3> QED BY <1>4, <3>1, Zenon
  <2>3. buffer' >= Length BY <1>1, <1>2, Zenon
  <2> QED BY <1>2, <2>1, <2>2, <2>3 DEF ExactInv, Filled
<1>7. CASE left' # 0
  <2>1. pc' = "body" /\ left' \in 1 .. Length /\ left' + offset' + buffer' = 2 * Length BY <1>0, <1>1, <1>2, <1>7
  <2>2. wire' # <<>> => wire'[1] = <<req, Length - left' + 1>>
    <3> SUFFICES ASSUME wire' # <<>> PROVE wire'[1] = <<req, Length - left' + 1>> OBVIOUS
    <3>1. Len(wire') > 0 BY <1>5
    <3>a. /\ Len(wire) \in Int /\ Len(wire) - k > 0 /\ Length \in Int /\ left \in Int
          /\ left' = left - k /\ left - k # 0 /\ k <= left
      BY <1>0, <1>1, <1>2, <1>5, <1>7, <3>1
    <3>2. /\ 1 \in 1 .. Len(wire) - k /\ k \in 0 .. left - 1 /\ k + 1 \in 1 .. Len(wire)
          /\ Length - left + 1 + k = Length - left' + 1
      BY <3>a
    <3>3. wire'[1] = wire[1 + k] /\ wire[k + 1] = <<req, Length - left' + 1>> BY <1>3, <1>5, <3>2
    <3> QED BY <3>3
  <2>3. wire' = <<>> => sent = req /\ unsent = left'
    <3> SUFFICES ASSUME wire' = <<>> PROVE sent = req /\ unsent = left' OBVIOUS
    <3>1. Len(wire) = k BY <1>0, <1>5
    <3>2. wire[1][1] = req /\ wire[1][2] = Length - left + 1 /\ C!Content(req) = Length BY <1>1 DEF C!Content
    <3>3. /\ req = sent => Length - left + 1 + (k - 1) = Length - unsent
          /\ req # sent => Length - left + 1 + (k - 1) >= Length
      BY <1>0, <3>1, <3>2 DEF WireInv
    <3>4. /\ Length \in Int /\ left \in Int /\ k \in Int /\ unsent \in Int /\ k <= left
          /\ left' = left - k /\ left' # 0
      BY <1>0, <1>1, <1>2, <1>7
    <3>5. ~(Length - left + 1 + (k - 1) >= Length) BY <3>4
    <3>6. sent = req BY <3>3, <3>5, Zenon
    <3> QED BY <3>3, <3>4, <3>6
  <2>4. buffer' >= Length BY <1>1, <1>2, Zenon
  <2>5. (body = Filled(Length - left))' BY <1>2, <1>4, Zenon DEF Filled
  <2>6. req' \in bodies' /\ req' = req /\ sent' = sent /\ unsent' = unsent BY <1>1, <1>2, Zenon
  <2>7. pc' # "dispatch" /\ pc' # "write" BY <2>1
  <2> HIDE DEF Filled
  <2> QED BY <2>1, <2>2, <2>3, <2>4, <2>5, <2>6, <2>7, Zenon DEF ExactInv
<1> QED BY <1>6, <1>7

\* Until a call returns -1 no step disturbs what the loops have done.
LEMMA ExactStep ==
  ASSUME LoopInv, C!Next
  PROVE  ExactInv'
<1> SUFFICES ASSUME failed' = 0 PROVE ExactInv' BY DEF ExactInv
<1>0. LoopTypes /\ WireInv /\ ExactInv /\ Length \in Nat BY LengthsAssumption DEF LoopInv
<1>1. CASE C!SendHead
  <2>1. /\ UNCHANGED <<pc, req, body, buffer, offset, left, failed, out>> /\ unsent = 0
        /\ sent' = sent + 1 /\ req \in 0 .. sent /\ sent \in Nat
        /\ bodies' = (IF unsent' > 0 THEN bodies \cup {sent'} ELSE bodies)
    BY <1>0, <1>1 DEF C!SendHead, LoopTypes
  <2>2. req \in bodies' <=> req \in bodies BY <2>1
  <2>3. pc = "body" => wire # <<>> BY <1>0, <2>1 DEF ExactInv
  <2>4. wire # <<>> => wire' # <<>> /\ wire'[1] = wire[1]
    <3>1. wire \in Seq(Units) /\ wire' = Append(wire, <<sent', 0>>) BY <1>0, <1>1 DEF LoopTypes, C!SendHead
    <3>2. <<sent', 0>> \in Units
      <4>1. sent' \in 1 .. Requests BY <1>0, <1>1, LengthsAssumption DEF C!SendHead, LoopTypes
      <4> QED BY <1>0, <4>1 DEF Units
    <3>3. Len(wire') = Len(wire) + 1 /\ \A i \in 1 .. Len(wire) : wire'[i] = wire[i]
      BY <1>0, <3>1, <3>2, WireAppended, Zenon
    <3>4. Len(wire) \in Nat /\ (wire # <<>> => 1 \in 1 .. Len(wire)) BY <3>1, Entries
    <3>5. wire' # <<>> BY <3>3, <3>4
    <3> QED BY <3>3, <3>4, <3>5, Zenon
  <2> QED BY <1>0, <2>1, <2>2, <2>3, <2>4 DEF ExactInv, Filled
<1>2. CASE C!SendBody
  <2>1. /\ UNCHANGED <<pc, req, body, buffer, offset, left, failed, out, bodies, sent>>
        /\ unsent' = unsent - 1 /\ wire' = Append(wire, <<sent, Length - unsent'>>)
        /\ unsent \in 1 .. Length /\ sent \in bodies /\ sent \in 1 .. Requests
    <3>1. /\ UNCHANGED <<pc, req, body, buffer, offset, left, failed, out, bodies, sent>>
          /\ unsent' = unsent - 1 /\ wire' = Append(wire, <<sent, Length - unsent'>>) /\ unsent > 0
      BY <1>2, Zenon DEF C!SendBody
    <3>2. unsent \in 0 .. Length /\ sent \in 0 .. Requests /\ bodies \subseteq 1 .. sent BY <1>0, SMTT(20) DEF LoopTypes
    <3>3. sent \in bodies BY <1>0, <3>1 DEF WireInv
    <3>4. sent \in 1 .. Requests /\ unsent \in 1 .. Length BY <1>0, <3>1, <3>2, <3>3, LengthsAssumption, SMTT(20)
    <3> QED BY <3>1, <3>3, <3>4
  <2>2. wire' # <<>> /\ (wire # <<>> => wire'[1] = wire[1]) /\ (wire = <<>> => wire'[1] = <<sent, Length - unsent'>>)
    <3>1. wire \in Seq(Units) BY <1>0 DEF LoopTypes
    <3>2. <<sent, Length - unsent'>> \in Units BY <1>0, <2>1 DEF Units
    <3> QED BY <2>1, <3>1, <3>2
  <2>3. pc = "body" /\ wire = <<>> => wire'[1] = <<req, Length - left + 1>>
    <3> SUFFICES ASSUME pc = "body", wire = <<>> PROVE wire'[1] = <<req, Length - left + 1>> OBVIOUS
    <3>1. sent = req /\ unsent = left BY <1>0, <2>1 DEF ExactInv
    <3>2. Length - unsent' = Length - left + 1 BY <1>0, <2>1, <3>1, SMTT(20)
    <3> QED BY <2>2, <3>1, <3>2
  <2> QED BY <1>0, <2>1, <2>2, <2>3, Zenon DEF ExactInv, Filled
<1>3. CASE C!Leave BY <1>0, <1>3 DEF C!Leave, ExactInv, Filled
<1>4. CASE C!ReadFails
  <2>1. failed' = failed + 1 /\ failed \in Nat BY <1>0, <1>4, LengthsAssumption DEF C!ReadFails, LoopTypes
  <2> QED BY <2>1, SMTT(20)
<1>5. CASE C!RecvNothing BY <1>5, Zenon DEF C!RecvNothing, ExactInv
<1>6. CASE C!ReadEnds BY <1>6 DEF C!ReadEnds, ExactInv
<1>7. CASE C!Dispatch
  <2>1. /\ pc = "dispatch" /\ pc' = "write" /\ offset' = 0 /\ left' = Length /\ out' = <<>>
        /\ UNCHANGED <<bodies, req, body, buffer, failed>>
    BY <1>7, Zenon DEF C!Dispatch, C!stream
  <2>2. out' = [j \in 1 .. 0 |-> j - 1] BY <2>1
  <2>3. req \in bodies => body = Filled(Length) /\ buffer >= Length BY <1>0, <2>1 DEF ExactInv
  <2>4. (req \in bodies => body = Filled(Length))' BY <2>1, <2>3, SMTT(20) DEF Filled
  <2> QED BY <1>0, <2>1, <2>2, <2>3, <2>4 DEF ExactInv
<1>8. CASE C!Sigpipe \/ C!WriteClosed BY <1>8, Zenon DEF C!Sigpipe, C!WriteClosed, ExactInv
<1>9. CASE C!Close BY <1>9 DEF C!Close, ExactInv
<1>10. ASSUME NEW k \in 1 .. Requests * (Length + 1), C!RecvHead(k) PROVE ExactInv'
  BY <1>10, HeadExact, LengthsAssumption
<1>11. ASSUME NEW k \in 1 .. Requests * (Length + 1), C!ReadBody(k) PROVE ExactInv'
  BY <1>11, BodyExact, LengthsAssumption, SMTT(20)
<1>12. ASSUME NEW k \in 1 .. Requests * (Length + 1), C!Write(k) PROVE ExactInv'
  <2>1. /\ pc = "write" /\ out' = out \o [j \in 1 .. k |-> offset + j - 1]
        /\ offset' = offset + k /\ left' = left - k /\ UNCHANGED <<req, body, buffer, failed, bodies>>
        /\ pc' \in {"write", "head", "closing"} /\ k \in Nat
    BY <1>12, LengthsAssumption, SMTT(20) DEF C!Write, C!stream, C!Advance
  <2>2. offset \in Nat /\ offset + left = Length /\ out = [j \in 1 .. offset |-> j - 1] /\ left \in Int
        /\ (req \in bodies => body = Filled(Length) /\ buffer >= Length)
    BY <1>0, <2>1 DEF ExactInv, LoopTypes
  <2>3. out' = [j \in 1 .. offset' |-> j - 1] BY <2>1, <2>2, OutGrows
  <2>4. offset' \in Nat /\ offset' + left' = Length BY <1>0, <2>1, <2>2
  <2> QED BY <2>1, <2>2, <2>3, <2>4 DEF ExactInv, Filled
<1> QED BY <1>1, <1>2, <1>3, <1>4, <1>5, <1>6, <1>7, <1>8, <1>9, <1>10, <1>11, <1>12 DEF C!Next

\* Units that readFixSize has written behind the string stay there.
LEMMA WildStep ==
  ASSUME LoopInv, C!Next
  PROVE  WildInv'
<1>0. /\ WildInv /\ m_sock \in BOOLEAN /\ offset \in Int /\ buffer \in Int BY LengthsAssumption DEF LoopInv, LoopTypes
<1>1. ASSUME pc' # "wild" \/ ~m_sock' PROVE WildInv' BY <1>1, Zenon DEF WildInv
<1>2. ASSUME UNCHANGED <<pc, m_sock, body, buffer>> PROVE WildInv' BY <1>0, <1>2, Zenon DEF WildInv
<1>3. CASE C!SendHead \/ C!SendBody \/ C!Leave \/ C!ReadFails
  BY <1>2, <1>3, Zenon DEF C!SendHead, C!SendBody, C!Leave, C!ReadFails, C!socket
<1>4. CASE C!RecvNothing \/ C!ReadEnds \/ C!Dispatch \/ C!Sigpipe \/ C!Close
  BY <1>1, <1>4 DEF C!RecvNothing, C!ReadEnds, C!Dispatch, C!Sigpipe, C!Close
<1>5. CASE C!WriteClosed
  <2>1. ~m_sock /\ m_sock' = m_sock BY <1>5, Zenon DEF C!WriteClosed, C!socket
  <2> QED BY <1>1, <2>1, Zenon
<1>6. ASSUME NEW k \in 1 .. Requests * (Length + 1), C!RecvHead(k) \/ C!Write(k) PROVE WildInv'
  <2>1. CASE C!RecvHead(k)
    <3>1. pc' \in {"body", "dispatch"} BY <2>1, Zenon DEF C!RecvHead
    <3> QED BY <1>1, <3>1
  <2>2. CASE C!Write(k)
    <3>1. pc = "write" /\ pc' \in {pc, "head", "closing"} BY <2>2 DEF C!Write
    <3> QED BY <1>1, <3>1
  <2> QED BY <1>6, <2>1, <2>2
<1>7. ASSUME NEW k \in 1 .. Requests * (Length + 1), C!ReadBody(k), pc' = "wild" PROVE WildInv'
  <2>0. k \in Nat /\ k >= 1 BY LengthsAssumption
  <2>1. /\ offset' = offset + k /\ buffer' = buffer /\ k \in Nat /\ k >= 1
        /\ body' = body \cup {<<buffer + offset + j, wire[j + 1]>> : j \in 0 .. k - 1}
        /\ offset' > 0 \/ pc' \in {"dispatch", "body"}
    BY <1>7, <2>0, Zenon DEF C!ReadBody, C!Advance
  <2>2. k - 1 \in 0 .. k - 1 /\ ~(buffer + offset + (k - 1) < buffer) BY <1>0, <1>7, <2>1
  <2> DEFINE u == <<buffer + offset + (k - 1), wire[(k - 1) + 1]>>
  <2>3. u \in body' BY <2>1, <2>2
  <2>4. u[1] = buffer + offset + (k - 1) OBVIOUS
  <2> HIDE DEF u
  <2>5. ~(u[1] < buffer') BY <2>1, <2>2, <2>4
  <2> QED BY <2>3, <2>5, Zenon DEF WildInv
<1> QED BY <1>1, <1>3, <1>4, <1>5, <1>6, <1>7, Zenon DEF C!Next

\* Nothing is on the wire of a new connection.
LEMMA LoopInit == C!Init => LoopInv
<1> SUFFICES ASSUME C!Init PROVE LoopInv OBVIOUS
<1>1. LoopTypes BY LengthsAssumption, SMTT(20) DEF C!Init, LoopTypes
<1>2. WireInv BY DEF C!Init, WireInv
<1>3. ExactInv BY DEF C!Init, ExactInv
<1>4. WildInv BY DEF C!Init, WildInv
<1> QED BY <1>1, <1>2, <1>3, <1>4 DEF LoopInv

\* A string of some length ends between two units of a body.
LEMMA StringEnds ==
  ASSUME Length \in Nat, buffer \in Int, buffer >= Length, buffer <= 2 * Length, body = Filled(Length)
  PROVE  C!Seen = C!Placed(0, buffer - Length) /\ body \ C!Seen = C!Placed(buffer - Length, Length)
<1> DEFINE unit(j) == <<Length + j, <<req, j + 1>>>>
<1>1. \A j \in Int : unit(j)[1] = Length + j /\ (unit(j)[1] < buffer <=> j < buffer - Length) OBVIOUS
<1>2. /\ body = {unit(j) : j \in 0 .. Length - 1}
      /\ C!Placed(0, buffer - Length) = {unit(j) : j \in 0 .. (buffer - Length) - 1}
      /\ C!Placed(buffer - Length, Length) = {unit(j) : j \in buffer - Length .. Length - 1}
  BY Zenon DEF Filled, C!Placed
<1>3. \A j \in Int : /\ j \in 0 .. (buffer - Length) - 1 <=> j \in 0 .. Length - 1 /\ j < buffer - Length
                    /\ j \in buffer - Length .. Length - 1 <=> j \in 0 .. Length - 1 /\ ~(j < buffer - Length)
  OBVIOUS
<1> HIDE DEF unit
<1>4. C!Seen = {unit(j) : j \in 0 .. (buffer - Length) - 1} BY <1>1, <1>2, <1>3 DEF C!Seen
<1>5. body \ C!Seen = {unit(j) : j \in buffer - Length .. Length - 1} BY <1>1, <1>2, <1>3 DEF C!Seen
<1> QED BY <1>2, <1>4, <1>5

\* The invariant gives the property.
LEMMA LoopExact == LoopInv => LoopsExact
<1> SUFFICES ASSUME LoopInv PROVE LoopsExact OBVIOUS
<1>1. C!TypeOK
  <2>1. C!Range(wire) \subseteq (1 .. Requests) \X (0 .. Length) BY DEF LoopInv, LoopTypes, Units, C!Range
  <2>2. C!Range(answered) \subseteq 1 .. Requests
    <3>1. answered \in Seq(1 .. Requests) BY DEF LoopInv, LoopTypes
    <3>2. \A i \in DOMAIN answered : answered[i] \in 1 .. Requests BY <3>1, Entries, Zenon
    <3> QED BY <3>2 DEF C!Range
  <2> QED BY <2>1, <2>2, LengthsAssumption DEF LoopInv, LoopTypes, C!TypeOK
<1>2. pc = "wild" => ~m_sock \/ body # C!Seen
  <2> SUFFICES ASSUME pc = "wild", m_sock PROVE body # C!Seen BY Zenon
  <2>1. PICK u \in body : ~(u[1] < buffer) BY Zenon DEF LoopInv, WildInv
  <2>2. u \notin C!Seen BY <2>1, Zenon DEF C!Seen
  <2> QED BY <2>2
<1>3. ASSUME failed = 0, pc \in {"dispatch", "write"}, req \in bodies
      PROVE  C!Seen = C!Placed(0, buffer - Length) /\ body \ C!Seen = C!Placed(buffer - Length, Length)
  <2>1. body = Filled(Length) /\ buffer >= Length BY <1>3 DEF LoopInv, ExactInv
  <2>2. Length \in Nat /\ buffer \in Int /\ buffer <= 2 * Length BY LengthsAssumption DEF LoopInv, LoopTypes
  <2> QED BY <2>1, <2>2, StringEnds
<1>4. failed = 0 => /\ (pc = "body" => left + offset + buffer = 2 * Length)
                    /\ (pc = "write" => out = [j \in 1 .. offset |-> j - 1])
  BY Zenon DEF LoopInv, ExactInv
<1> QED BY <1>1, <1>2, <1>3, <1>4, Zenon DEF LoopsExact, C!LoopsExact

\* However the stream is cut into recv and send calls, until a recv fails the
\* servlet's string holds exactly the units that came with the head, the others lie
\* behind its end, and the response is sent once and in order; only such units or a
\* closed session lead out of bounds: for any number and length of requests.
THEOREM LoopsAreExact == ServerSpec => []LoopsExact
<1>1. ServerInit => LoopInv BY LoopInit DEF ServerInit
<1>2. LoopInv /\ [ServerNext]_<<part, vars, connection>> => LoopInv'
  <2> SUFFICES ASSUME LoopInv, [ServerNext]_<<part, vars, connection>> PROVE LoopInv' OBVIOUS
  <2>1. CASE C!Next BY <2>1, WireStep, TypesStep, ExactStep, WildStep DEF LoopInv
  <2>2. CASE UNCHANGED C!vars
    <3>1. UNCHANGED <<m_is_keep_alive, m_sock, closes, wire, sent, unsent, bodies, waits, peer, pc, req,
                      body, buffer, offset, left, failed, out, answered>>
      BY <2>2, ZenonT(30) DEF C!vars
    <3>2. LoopTypes' BY <3>1 DEF LoopInv, LoopTypes
    <3>3. WireInv' BY <3>1, Zenon DEF LoopInv, WireInv, C!Content
    <3>4. ExactInv' BY <3>1, Zenon DEF LoopInv, ExactInv, Filled
    <3>5. WildInv' BY <3>1, Zenon DEF LoopInv, WildInv
    <3> QED BY <3>2, <3>3, <3>4, <3>5 DEF LoopInv
  <2> QED BY <2>1, <2>2, ServerSteps
<1> QED BY <1>1, <1>2, LoopExact, PTL DEF ServerSpec

-----------------------------------------------------------------------------
(* The listening sockets *)

\* A server has finitely many addresses, so bind pushes each of them once, and the
\* sockets of m_socks are at most as many.
FewSocks ==
  /\ Cardinality(Socks) \in Nat
  /\ \A A \in SUBSET Socks :
       InOrder(A) \in Seq(Socks) /\ IsInjective(InOrder(A)) /\ Range(InOrder(A)) = A
  /\ \A q \in Seq(Socks) : IsInjective(q) => Len(q) \in Nat /\ Len(q) <= Cardinality(Socks)

\* Pushing sockets that were not there keeps the sockets apart.
LEMMA PushApart ==
  ASSUME NEW q \in Seq(Socks), IsInjective(q), NEW e \in Seq(Socks), IsInjective(e), Range(q) \cap Range(e) = {}
  PROVE  q \o e \in Seq(Socks) /\ IsInjective(q \o e) /\ Range(q \o e) = Range(q) \cup Range(e)
<1> DEFINE h == q \o e
<1>1. /\ h \in Seq(Socks) /\ Len(h) = Len(q) + Len(e) /\ Len(q) \in Nat /\ Len(e) \in Nat
      /\ DOMAIN h = 1 .. Len(q) + Len(e) /\ DOMAIN q = 1 .. Len(q) /\ DOMAIN e = 1 .. Len(e)
      /\ \A j \in 1 .. Len(q) + Len(e) : h[j] = IF j <= Len(q) THEN q[j] ELSE e[j - Len(q)]
  <2>1. /\ h \in Seq(Socks) /\ Len(h) = Len(q) + Len(e)
        /\ \A j \in 1 .. Len(q) + Len(e) : h[j] = IF j <= Len(q) THEN q[j] ELSE e[j - Len(q)]
    BY Concatenation, Zenon
  <2>2. Len(q) \in Nat /\ Len(e) \in Nat /\ DOMAIN q = 1 .. Len(q) /\ DOMAIN e = 1 .. Len(e)
    BY Entries, Zenon
  <2> HIDE DEF h
  <2>3. DOMAIN h = 1 .. Len(h) BY <2>1, Entries, Zenon
  <2> QED BY <2>1, <2>2, <2>3, Zenon
<1> HIDE DEF h
<1>2. ASSUME NEW j \in DOMAIN h
      PROVE  \/ j \in DOMAIN q /\ h[j] = q[j] /\ h[j] \in Range(q)
             \/ j - Len(q) \in DOMAIN e /\ h[j] = e[j - Len(q)] /\ h[j] \in Range(e)
  <2>1. CASE j <= Len(q)
    <3>1. j \in DOMAIN q /\ h[j] = q[j] BY <1>1, <2>1
    <3> QED BY <3>1, ZenonT(30) DEF Range
  <2>2. CASE ~(j <= Len(q))
    <3>1. j - Len(q) \in DOMAIN e /\ h[j] = e[j - Len(q)] BY <1>1, <2>2
    <3> QED BY <3>1, ZenonT(30) DEF Range
  <2> QED BY <2>1, <2>2, Zenon
<1>3. ASSUME NEW i \in DOMAIN h, NEW j \in DOMAIN h, h[i] = h[j] PROVE i = j
  <2>1. i \in Int /\ j \in Int /\ Len(q) \in Int
    <3>1. DOMAIN h = 1 .. Len(q) + Len(e) /\ Len(q) \in Nat BY <1>1, Zenon
    <3> QED BY <3>1
  <2>2. \A k, l \in DOMAIN q : q[k] = q[l] => k = l BY Zenon DEF IsInjective
  <2>3. \A k, l \in DOMAIN e : e[k] = e[l] => k = l BY Zenon DEF IsInjective
  <2>4. Range(q) \cap Range(e) = {} OBVIOUS
  <2>5. CASE h[i] \in Range(q)
    <3>1. i \in DOMAIN q /\ h[i] = q[i] BY <1>2, <2>4, <2>5, Zenon
    <3>2. j \in DOMAIN q /\ h[j] = q[j] BY <1>2, <1>3, <2>4, <2>5, Zenon
    <3> QED BY <1>3, <2>2, <3>1, <3>2, Zenon
  <2>6. CASE h[i] \in Range(e)
    <3>1. i - Len(q) \in DOMAIN e /\ h[i] = e[i - Len(q)] BY <1>2, <2>4, <2>6, Zenon
    <3>2. j - Len(q) \in DOMAIN e /\ h[j] = e[j - Len(q)] BY <1>2, <1>3, <2>4, <2>6, Zenon
    <3>3. i - Len(q) = j - Len(q) BY <1>3, <2>3, <3>1, <3>2, Zenon
    <3> QED BY <2>1, <3>3
  <2> QED BY <1>2, <2>5, <2>6, Zenon
<1>4. Range(h) \subseteq Range(q) \cup Range(e)
  <2> SUFFICES ASSUME NEW x \in Range(h) PROVE x \in Range(q) \/ x \in Range(e) BY Zenon
  <2>1. PICK j \in DOMAIN h : h[j] = x BY Zenon DEF Range
  <2> QED BY <1>2, <2>1, Zenon
<1>5. ASSUME NEW x \in Range(q) PROVE x \in Range(h)
  <2>1. PICK j \in DOMAIN q : q[j] = x BY ZenonT(30) DEF Range
  <2>2. j \in DOMAIN h /\ h[j] = x BY <1>1, <2>1
  <2> QED BY <2>2, Zenon DEF Range
<1>6. ASSUME NEW x \in Range(e) PROVE x \in Range(h)
  <2>1. PICK j \in DOMAIN e : e[j] = x BY ZenonT(30) DEF Range
  <2>2. j + Len(q) \in DOMAIN h /\ ~(j + Len(q) <= Len(q)) /\ (j + Len(q)) - Len(q) = j BY <1>1, <2>1, SMTT(20)
  <2>3. h[j + Len(q)] = x BY <1>1, <2>1, <2>2
  <2> QED BY <2>2, <2>3, Zenon DEF Range
<1>7. IsInjective(h) BY <1>3, Zenon DEF IsInjective
<1>8. Range(h) = Range(q) \cup Range(e) BY <1>4, <1>5, <1>6, Zenon
<1> QED BY <1>1, <1>7, <1>8, Zenon DEF h

\* The parts of the inductive invariant: threads, the caller, the sockets, the
\* accept loops, the closing task and the clients.
RunningOK ==
  threads \in {1, 2} /\ running \subseteq Socks \cup {Closer} /\ Cardinality(running) <= threads
CallsOK ==
  /\ user \in {"bind", "start", "serve", "stopped"}
  /\ {keep, fails, late, m_is_start, m_is_stop} \subseteq BOOLEAN /\ busy \subseteq Socks
SocksOK == m_socks \in Seq(Socks) /\ IsInjective(m_socks) /\ open \subseteq Socks
LoopsOK == loop \in [Socks -> LoopState]
CloserOK ==
  /\ closer \in {"none", "cancel", "recancel", "close", "done"} \X (0 .. Cardinality(Socks) + 1)
  /\ user # "stopped" => closer[1] = "none"
FateOK == wild \in BOOLEAN /\ missed \subseteq Socks
NetOK ==
  /\ pending \in [Socks -> 0 .. MaxClients] /\ clients \in 0 .. MaxFds
  /\ arrived \in [Socks -> 0 .. MaxClients] /\ \A s \in Socks : pending[s] <= arrived[s]
\* What is open is in m_socks; before the first bind has succeeded nothing is;
\* the closing task has closed what it has passed.
OwnedOK ==
  /\ late \/ open \subseteq Range(m_socks)
  /\ user = "bind" => m_socks = <<>> /\ open = {} /\ \A s \in Socks : loop[s] = "none"
  /\ closer[1] \in {"cancel", "recancel", "close"} =>
       \A j \in 1 .. Len(m_socks) : j < closer[2] => m_socks[j] \notin open
OwnInv == RunningOK /\ CallsOK /\ SocksOK /\ LoopsOK /\ CloserOK /\ FateOK /\ NetOK /\ OwnedOK

\* The flags are flags, and only the caller's calls change them.
LEMMA CallsStep ==
  ASSUME CallsOK, [Next]_vars
  PROVE  CallsOK'
<1>0. /\ user \in {"bind", "start", "serve", "stopped"} /\ busy \subseteq Socks
      /\ keep \in BOOLEAN /\ fails \in BOOLEAN /\ late \in BOOLEAN /\ m_is_start \in BOOLEAN /\ m_is_stop \in BOOLEAN
  BY Zenon DEF CallsOK
<1>1. ASSUME /\ user' \in {"bind", "start", "serve", "stopped"} /\ busy' \subseteq Socks
             /\ keep' \in BOOLEAN /\ fails' \in BOOLEAN /\ late' \in BOOLEAN
             /\ m_is_start' \in BOOLEAN /\ m_is_stop' \in BOOLEAN
      PROVE  CallsOK'
  BY <1>1, Zenon DEF CallsOK
<1>2. CASE UNCHANGED calls BY <1>2 DEF CallsOK, calls
<1>3. CASE TryBind
  <2>1. fails' \in BOOLEAN /\ user' \in {"bind", "start"} BY <1>3, Zenon DEF TryBind
  <2>2. UNCHANGED <<keep, late, busy, m_is_start, m_is_stop>> BY <1>3 DEF TryBind
  <2> QED BY <1>0, <1>1, <2>1, <2>2
<1>4. CASE start BY <1>0, <1>1, <1>4 DEF start
<1>5. CASE BindMore
  <2>1. late' \in BOOLEAN BY <1>5, Zenon DEF BindMore, bind
  <2>2. UNCHANGED <<user, keep, fails, busy, m_is_start, m_is_stop>> BY <1>5 DEF BindMore
  <2> QED BY <1>0, <1>1, <2>1, <2>2
<1>6. CASE stop BY <1>0, <1>1, <1>6 DEF stop
<1>7. CASE HandlerEnds \/ CloseStep \/ ClearSocks
  BY <1>2, <1>7, Zenon DEF HandlerEnds, CloseStep, ClearSocks
<1>8. ASSUME NEW s \in Socks, CheckStop(s) \/ Accept(s) \/ Call(s) \/ Register(s) \/ Readable(s) \/ Connect(s) PROVE CallsOK'
  BY <1>2, <1>8, Zenon DEF CheckStop, Accept, Call, Register, Readable, Connect
<1>9. ASSUME NEW s \in Socks, Freed(s) PROVE CallsOK'
  BY <1>0, <1>1, <1>9 DEF Freed
<1>10. CASE UNCHANGED vars BY <1>2, <1>10, SMTT(20) DEF vars, calls
<1> QED BY <1>3, <1>4, <1>5, <1>6, <1>7, <1>8, <1>9, <1>10 DEF Next

\* A bind of addresses that are not bound leaves m_socks with these as well, or
\* empty; what it does not leave there and no accept loop holds, is closed.
LEMMA BindKeeps ==
  ASSUME FewSocks, SocksOK, NEW A, A \subseteq Socks, Range(m_socks) \cap A = {}, NEW failing \in BOOLEAN, NEW vector,
         bind(A, failing, vector)
  PROVE  /\ SocksOK'
         /\ failing => m_socks' = <<>> /\ open' \subseteq {s \in Socks : loop[s] # "none"}
         /\ ~failing => Range(m_socks') = Range(m_socks) \cup A /\ open' = open \cup A
<1> DEFINE e == InOrder(A \ busy)
<1>0. m_socks \in Seq(Socks) /\ IsInjective(m_socks) /\ open \subseteq Socks BY DEF SocksOK
<1>1. e \in Seq(Socks) /\ IsInjective(e) /\ Range(e) = A \ busy BY DEF FewSocks
<1>2. /\ m_socks' = (IF failing THEN <<>> ELSE m_socks \o e) /\ failing = (A \cap busy # {} \/ vector)
      /\ open' = IF failing THEN (open \cup (A \ busy)) \ {s \in Socks : loop[s] = "none"} ELSE open \cup (A \ busy)
  BY DEF bind, BindEnds, Destroy
<1> HIDE DEF e
<1>3. CASE failing
  <2>1. m_socks' = <<>> /\ <<>> \in Seq(Socks) BY <1>2, <1>3
  <2>2. IsInjective(<<>>) BY DEF IsInjective
  <2>3. open' = (open \cup (A \ busy)) \ {s \in Socks : loop[s] = "none"} BY <1>2, <1>3
  <2>4. open' \subseteq Socks /\ open' \subseteq {s \in Socks : loop[s] # "none"} BY <1>0, <2>3
  <2> QED BY <1>3, <2>1, <2>2, <2>4 DEF SocksOK
<1>4. CASE ~failing
  <2>1. A \ busy = A BY <1>2, <1>4, Zenon
  <2>2. Range(m_socks) \cap Range(e) = {} BY <1>1
  <2>3. m_socks' = m_socks \o e /\ open' = open \cup A BY <1>2, <1>4, <2>1
  <2>4. /\ m_socks \o e \in Seq(Socks) /\ IsInjective(m_socks \o e) /\ Range(m_socks \o e) = Range(m_socks) \cup Range(e)
    BY <1>0, <1>1, <2>2, PushApart
  <2> QED BY <1>0, <1>1, <1>4, <2>1, <2>3, <2>4 DEF SocksOK
<1> QED BY <1>3, <1>4

\* The sockets of m_socks differ, and what is open is a socket of the server.
LEMMA SocksStep ==
  ASSUME FewSocks, OwnInv, [Next]_vars
  PROVE  SocksOK'
<1>0. SocksOK /\ m_socks \in Seq(Socks) /\ open \subseteq Socks BY DEF OwnInv, SocksOK
<1>1. ASSUME UNCHANGED m_socks, open' \subseteq open PROVE SocksOK' BY <1>0, <1>1 DEF SocksOK
<1>2. CASE TryBind
  <2>1. PICK failing \in BOOLEAN : bind(Addrs, failing, FailedBefore) BY <1>2, Zenon DEF TryBind
  <2>2. m_socks = <<>> BY <1>2 DEF TryBind, OwnInv, OwnedOK
  <2>3. Range(m_socks) \cap Addrs = {} /\ Addrs \subseteq Socks BY <2>2 DEF Range, Socks
  <2> QED BY <1>0, <2>1, <2>3, BindKeeps
<1>3. CASE BindMore
  <2>1. PICK failing \in BOOLEAN : bind({Extra}, failing, FALSE)
    <3>1. late' \in BOOLEAN /\ bind({Extra}, late', FALSE) BY <1>3, Zenon DEF BindMore, bind
    <3> QED BY <3>1, Zenon
  <2>2. Range(m_socks) \cap {Extra} = {} /\ {Extra} \subseteq Socks BY <1>3 DEF BindMore, Socks
  <2> QED BY <1>0, <2>1, <2>2, BindKeeps, Zenon
<1>4. CASE ClearSocks
  <2>1. m_socks' = <<>> /\ <<>> \in Seq(Socks) /\ open' = open BY <1>4 DEF ClearSocks
  <2>2. IsInjective(<<>>) BY DEF IsInjective
  <2> QED BY <1>0, <2>1, <2>2, SMTT(20) DEF SocksOK
<1>5. CASE CloseStep
  BY <1>1, <1>5, Zenon DEF CloseStep
<1>6. CASE start \/ stop \/ HandlerEnds
  BY <1>1, <1>6 DEF start, stop, HandlerEnds
<1>7. ASSUME NEW s \in Socks, CheckStop(s) PROVE SocksOK'
  BY <1>1, <1>7 DEF CheckStop, Destroy
<1>8. ASSUME NEW s \in Socks, Accept(s) \/ Call(s) \/ Register(s) \/ Readable(s) \/ Connect(s) \/ Freed(s) PROVE SocksOK'
  BY <1>1, <1>8, Zenon DEF Accept, Call, Register, Readable, Connect, Freed
<1>9. CASE UNCHANGED vars BY <1>1, <1>9 DEF vars
<1> QED BY <1>2, <1>3, <1>4, <1>5, <1>6, <1>7, <1>8, <1>9 DEF Next

\* An accept loop is at one of its points.
LEMMA LoopsStep ==
  ASSUME OwnInv, [Next]_vars
  PROVE  LoopsOK'
<1>0. loop \in [Socks -> LoopState] BY DEF OwnInv, LoopsOK
<1>1. CASE UNCHANGED loop BY <1>0, <1>1 DEF LoopsOK
<1>2. ASSUME NEW s \in Socks, NEW l \in LoopState, loop' = [loop EXCEPT ![s] = l] PROVE LoopsOK'
  BY <1>0, <1>2 DEF LoopsOK
<1>3. CASE TryBind \/ BindMore \/ stop \/ HandlerEnds \/ ClearSocks
  BY <1>1, <1>3, Zenon DEF TryBind, BindMore, stop, HandlerEnds, ClearSocks
<1>4. CASE start BY <1>0, <1>4 DEF start, LoopsOK, LoopState
<1>5. CASE CloseStep
  <2>1. closer[2] <= Len(m_socks) /\ (loop' = loop \/ loop' = Woken(m_socks[closer[2]]))
    BY <1>5, Zenon DEF CloseStep, Cancelled
  <2>2. CASE loop' = Woken(m_socks[closer[2]])
    <3> DEFINE s == m_socks[closer[2]]
    <3>1. CASE loop[s] = "wait"
      <4>1. loop' = [loop EXCEPT ![s] = "call"] BY <2>2, <3>1 DEF Woken
      <4> QED BY <1>0, <4>1, Zenon DEF LoopsOK, LoopState
    <3>2. CASE loop[s] # "wait" BY <1>1, <2>2, <3>2 DEF Woken
    <3> QED BY <3>1, <3>2
  <2> QED BY <1>1, <2>1, <2>2
<1>6. ASSUME NEW s \in Socks, CheckStop(s) \/ Accept(s) \/ Call(s) \/ Register(s) \/ Readable(s) PROVE LoopsOK'
  <2>1. CASE CheckStop(s) BY <1>2, <2>1, Zenon DEF CheckStop, LoopState
  <2>2. CASE Accept(s) BY <1>1, <1>2, <2>2, Zenon DEF Accept, LoopState
  <2>3. CASE Call(s) BY <1>2, <2>3, Zenon DEF Call, LoopState
  <2>4. CASE Register(s) BY <1>2, <2>4, Zenon DEF Register, LoopState
  <2>5. CASE Readable(s) BY <1>2, <2>5, Zenon DEF Readable, LoopState
  <2> QED BY <1>6, <2>1, <2>2, <2>3, <2>4, <2>5
<1>7. ASSUME NEW s \in Socks, Connect(s) \/ Freed(s) PROVE LoopsOK'
  BY <1>1, <1>7, Zenon DEF Connect, Freed
<1>8. CASE UNCHANGED vars BY <1>1, <1>8, Zenon DEF vars
<1> QED BY <1>3, <1>4, <1>5, <1>6, <1>7, <1>8 DEF Next

\* The closing task's index stays within the sockets, and it runs after stop.
LEMMA CloserStep ==
  ASSUME FewSocks, OwnInv, [Next]_vars
  PROVE  CloserOK'
<1> DEFINE steps == {"none", "cancel", "recancel", "close", "done"}
           n == Cardinality(Socks) + 1
<1>0. /\ closer \in steps \X (0 .. n) /\ (user # "stopped" => closer[1] = "none")
      /\ Len(m_socks) \in Nat /\ Len(m_socks) <= Cardinality(Socks) /\ Cardinality(Socks) \in Nat
  BY Zenon DEF FewSocks, OwnInv, CloserOK, SocksOK
<1>1. ASSUME UNCHANGED closer, user' # "stopped" => user # "stopped" PROVE CloserOK' BY <1>0, <1>1, ZenonT(30) DEF CloserOK
<1>2. CASE stop BY <1>0, <1>2, SMTT(30) DEF stop, CloserOK
<1>3. CASE CloseStep
  <2> DEFINE k == closer[2]
  <2>1. closer[1] # "none" /\ user' = user /\ k \in 0 .. n /\ k <= Len(m_socks)
    BY <1>0, <1>3 DEF CloseStep, calls
  <2>2. closer' \in {<<"recancel", k>>, <<"close", k>>, <<"cancel", k + 1>>} BY <1>3, Zenon DEF CloseStep
  <2>3. k + 1 \in 0 .. n BY <1>0, <2>1, SMTT(30)
  <2> HIDE DEF k, n
  <2>4. closer' \in steps \X (0 .. n) BY <2>1, <2>2, <2>3, SMTT(20)
  <2> QED BY <1>0, <2>1, <2>4, Zenon DEF CloserOK, n
<1>4. CASE ClearSocks
  <2>1. closer[1] # "none" /\ user' = user /\ closer' = <<"done", 0>> BY <1>4, Zenon DEF ClearSocks, calls
  <2>2. 0 \in 0 .. n BY <1>0
  <2> HIDE DEF n
  <2>3. closer' \in steps \X (0 .. n) BY <2>1, <2>2, SMTT(20)
  <2> QED BY <1>0, <2>1, <2>3, Zenon DEF CloserOK, n
<1>5. CASE TryBind \/ start \/ BindMore \/ HandlerEnds
  BY <1>1, <1>5, Zenon DEF TryBind, start, BindMore, HandlerEnds, calls
<1>6. ASSUME NEW s \in Socks, CheckStop(s) \/ Accept(s) \/ Call(s) \/ Register(s) \/ Readable(s) \/ Connect(s) \/ Freed(s)
      PROVE  CloserOK'
  BY <1>1, <1>6, Zenon DEF CheckStop, Accept, Call, Register, Readable, Connect, Freed, calls
<1>7. CASE UNCHANGED vars BY <1>1, <1>7 DEF vars
<1> QED BY <1>2, <1>3, <1>4, <1>5, <1>6, <1>7 DEF Next

\* Only sockets of the server are missed.
LEMMA FateStep ==
  ASSUME FateOK, [Next]_vars
  PROVE  FateOK'
<1>1. CASE UNCHANGED fate BY <1>1 DEF FateOK, fate
<1>2. CASE TryBind \/ start \/ BindMore \/ stop \/ HandlerEnds \/ CloseStep \/ ClearSocks
  BY <1>1, <1>2, Zenon DEF TryBind, start, BindMore, stop, HandlerEnds, CloseStep, ClearSocks
<1>3. ASSUME NEW s \in Socks, CheckStop(s) \/ Call(s) \/ Readable(s) \/ Connect(s) \/ Freed(s) PROVE FateOK'
  BY <1>1, <1>3, Zenon DEF CheckStop, Call, Readable, Connect, Freed
<1>4. ASSUME NEW s \in Socks, Accept(s) PROVE FateOK'
  BY <1>4 DEF Accept, FateOK
<1>5. ASSUME NEW s \in Socks, Register(s) PROVE FateOK'
  BY <1>5 DEF Register, FateOK
<1>6. CASE UNCHANGED vars BY <1>1, <1>6 DEF vars, fate
<1> QED BY <1>2, <1>3, <1>4, <1>5, <1>6 DEF Next

\* A backlog holds clients that have arrived, and no more are served than
\* descriptors allow.
LEMMA NetStep ==
  ASSUME OwnInv, [Next]_vars
  PROVE  NetOK'
<1>0. /\ pending \in [Socks -> 0 .. MaxClients] /\ clients \in 0 .. MaxFds
      /\ arrived \in [Socks -> 0 .. MaxClients] /\ \A s \in Socks : pending[s] <= arrived[s]
      /\ MaxClients \in Nat /\ MaxFds \in Nat
  BY AddrsAssumption DEF OwnInv, NetOK
<1>1. CASE UNCHANGED net BY <1>0, <1>1 DEF NetOK, net
<1>2. ASSUME NEW kept, pending' = Backlog(kept), UNCHANGED <<arrived, clients>> PROVE NetOK'
  <2>1. ASSUME NEW s \in Socks PROVE pending'[s] \in 0 .. MaxClients /\ pending'[s] <= arrived[s]
    BY <1>0, <1>2 DEF Backlog
  <2>2. pending' \in [Socks -> 0 .. MaxClients] BY <1>2, <2>1 DEF Backlog
  <2> QED BY <1>0, <1>2, <2>1, <2>2 DEF NetOK
<1>3. CASE UNCHANGED vars BY <1>1, <1>3 DEF vars, net
<1>4. CASE TryBind \/ BindMore
  <2>1. pending' = Backlog(open') /\ UNCHANGED <<arrived, clients>> BY <1>4, Zenon DEF TryBind, BindMore, bind
  <2> QED BY <1>2, <2>1
<1>5. CASE start \/ stop \/ ClearSocks BY <1>1, <1>5, Zenon DEF start, stop, ClearSocks
<1>6. CASE CloseStep
  <2>1. UNCHANGED <<arrived, clients>> /\ (pending' = pending \/ pending' = Backlog(open')) BY <1>6, Zenon DEF CloseStep
  <2> QED BY <1>1, <1>2, <2>1 DEF net
<1>7. CASE HandlerEnds
  <2>1. clients' \in 0 .. MaxFds BY <1>0, <1>7 DEF HandlerEnds
  <2> QED BY <1>0, <1>7, <2>1 DEF HandlerEnds, NetOK
<1>8. ASSUME NEW s \in Socks, CheckStop(s) PROVE NetOK'
  <2>1. UNCHANGED <<arrived, clients>> /\ (pending' = pending \/ pending' = Backlog(open')) BY <1>8, SMTT(20) DEF CheckStop
  <2> QED BY <1>1, <1>2, <2>1 DEF net
<1>9. ASSUME NEW s \in Socks, Call(s) PROVE NetOK'
  <2>1. CASE UNCHANGED <<pending, clients>> BY <1>1, <1>9, <2>1, SMTT(20) DEF Call, net
  <2>2. CASE pending' = [pending EXCEPT ![s] = @ - 1] /\ clients' = clients + 1 /\ pending[s] > 0 /\ ~Exhausted
    <3>1. clients' \in 0 .. MaxFds BY <1>0, <2>2 DEF Exhausted
    <3>2. \A r \in Socks : pending'[r] \in 0 .. MaxClients /\ pending'[r] <= arrived[r] BY <1>0, <2>2
    <3>3. pending' \in [Socks -> 0 .. MaxClients] BY <1>0, <2>2, <3>2
    <3> QED BY <1>0, <1>9, <3>1, <3>2, <3>3, SMTT(20) DEF Call, NetOK
  <2> QED BY <1>9, <2>1, <2>2, SMTT(20) DEF Call
<1>10. ASSUME NEW s \in Socks, Connect(s) PROVE NetOK'
  <2>1. /\ arrived' = [arrived EXCEPT ![s] = @ + 1] /\ pending' = [pending EXCEPT ![s] = @ + 1] /\ clients' = clients
        /\ arrived[s] < MaxClients
    BY <1>10 DEF Connect
  <2>2. \A r \in Socks : arrived'[r] \in 0 .. MaxClients /\ pending'[r] \in 0 .. MaxClients /\ pending'[r] <= arrived'[r]
    BY <1>0, <2>1
  <2>3. arrived' \in [Socks -> 0 .. MaxClients] /\ pending' \in [Socks -> 0 .. MaxClients] BY <1>0, <2>1, <2>2
  <2> QED BY <1>0, <2>1, <2>2, <2>3 DEF NetOK
<1>11. ASSUME NEW s \in Socks, Accept(s) \/ Register(s) \/ Readable(s) \/ Freed(s) PROVE NetOK'
  BY <1>1, <1>11, Zenon DEF Accept, Register, Readable, Freed
<1> QED BY <1>3, <1>4, <1>5, <1>6, <1>7, <1>8, <1>9, <1>10, <1>11, SMTT(20) DEF Next

\* Every step leaves what is open in m_socks, or the closing task has closed it.
LEMMA OwnedStep ==
  ASSUME FewSocks, OwnInv, [Next]_vars
  PROVE  OwnedOK'
<1> DEFINE closing == {"cancel", "recancel", "close"}
<1>0. /\ SocksOK /\ m_socks \in Seq(Socks) /\ late \in BOOLEAN /\ (late \/ open \subseteq Range(m_socks))
      /\ (user = "bind" => m_socks = <<>> /\ open = {} /\ \A s \in Socks : loop[s] = "none")
      /\ (closer[1] \in closing => \A j \in 1 .. Len(m_socks) : j < closer[2] => m_socks[j] \notin open)
      /\ (user # "stopped" => closer[1] = "none")
  BY Zenon DEF OwnInv, OwnedOK, CloserOK, CallsOK, SocksOK
<1>1. closer[2] \in Nat /\ Len(m_socks) \in Nat /\ DOMAIN m_socks = 1 .. Len(m_socks)
  <2>1. closer[2] \in 0 .. Cardinality(Socks) + 1 BY DEF OwnInv, CloserOK
  <2>2. closer[2] \in Nat BY <2>1 DEF FewSocks
  <2>3. Len(m_socks) \in Nat /\ DOMAIN m_socks = 1 .. Len(m_socks) BY <1>0, Entries, Zenon
  <2> QED BY <2>2, <2>3, Zenon
\* closing or destroying sockets that m_socks does not hold
<1>2. ASSUME UNCHANGED <<m_socks, late, closer>>, open' \subseteq open, user' # "bind"
      PROVE  OwnedOK'
  BY <1>0, <1>2 DEF OwnedOK
<1>3. ASSUME UNCHANGED <<m_socks, late, closer, open, user, loop>> PROVE OwnedOK'
  BY <1>3, Zenon DEF OwnedOK, OwnInv
<1>4. CASE TryBind
  <2>1. PICK failing \in BOOLEAN : bind(Addrs, failing, FailedBefore) /\ user' = IF failing THEN "bind" ELSE "start"
    BY <1>4, ZenonT(30) DEF TryBind
  <2>2. /\ m_socks = <<>> /\ open = {} /\ (\A s \in Socks : loop[s] = "none") /\ user = "bind" /\ closer[1] = "none"
        /\ loop' = loop /\ closer' = closer
    BY <1>0, <1>4 DEF TryBind
  <2>3. Range(m_socks) = {} /\ Addrs \subseteq Socks BY <2>2 DEF Range, Socks
  <2>4. /\ failing => m_socks' = <<>> /\ open' \subseteq {s \in Socks : loop[s] # "none"}
        /\ ~failing => Range(m_socks') = Range(m_socks) \cup Addrs /\ open' = open \cup Addrs
    BY <1>0, <2>1, <2>3, BindKeeps, ZenonT(30)
  <2>5. CASE failing
    <3>1. m_socks' = <<>> /\ open' = {} BY <2>2, <2>4, <2>5
    <3> QED BY <2>2, <3>1 DEF OwnedOK
  <2>6. CASE ~failing
    <3>1. open' \subseteq Range(m_socks') /\ user' = "start" BY <2>1, <2>2, <2>3, <2>4, <2>6
    <3> QED BY <2>2, <3>1, Zenon DEF OwnedOK
  <2> QED BY <2>5, <2>6
<1>5. CASE BindMore
  <2>1. PICK failing \in BOOLEAN : late' = failing /\ bind({Extra}, failing, FALSE)
    <3>1. late' \in BOOLEAN /\ bind({Extra}, late', FALSE) BY <1>5, Zenon DEF BindMore, bind
    <3> QED BY <3>1, Zenon
  <2>2. Range(m_socks) \cap {Extra} = {} /\ {Extra} \subseteq Socks /\ ~late /\ user' = user /\ user = "serve" /\ closer' = closer
    BY <1>5 DEF BindMore, Socks
  <2>3. ~failing => Range(m_socks') = Range(m_socks) \cup {Extra} /\ open' = open \cup {Extra}
    BY <1>0, <2>1, <2>2, BindKeeps, ZenonT(30)
  <2>4. ~failing => open' \subseteq Range(m_socks') BY <1>0, <2>2, <2>3, Zenon
  <2>5. late' \/ open' \subseteq Range(m_socks') BY <2>1, <2>4, Zenon
  <2> QED BY <1>0, <2>2, <2>5, Zenon DEF OwnedOK
<1>6. CASE start BY <1>2, <1>6 DEF start
<1>7. CASE stop
  <2>1. UNCHANGED <<m_socks, late, open>> /\ closer' = <<"cancel", 1>> /\ user' = "stopped" BY <1>7 DEF stop
  <2> QED BY <1>0, <1>1, <2>1 DEF OwnedOK
<1>8. CASE HandlerEnds BY <1>3, <1>8 DEF HandlerEnds, calls
<1>9. ASSUME NEW s \in Socks, CheckStop(s) PROVE OwnedOK'
  <2>1. user # "bind" BY <1>0, <1>9, Zenon DEF CheckStop
  <2> QED BY <1>2, <1>9, <2>1 DEF CheckStop, Destroy, calls
<1>10. ASSUME NEW s \in Socks, Accept(s) \/ Call(s) \/ Register(s) \/ Readable(s) PROVE OwnedOK'
  <2>1. user # "bind" BY <1>0, <1>10, Zenon DEF Accept, Call, Register, Readable
  <2> QED BY <1>2, <1>10, <2>1, Zenon DEF Accept, Call, Register, Readable, calls
<1>11. ASSUME NEW s \in Socks, Connect(s) \/ Freed(s) PROVE OwnedOK'
  BY <1>3, <1>11 DEF Connect, Freed, calls
<1>12. CASE CloseStep
  <2> DEFINE k == closer[2]
  <2>1. /\ UNCHANGED <<m_socks, late, user>> /\ closer[1] \in closing /\ user # "bind" /\ k <= Len(m_socks)
    BY <1>0, <1>12, SMTT(20) DEF CloseStep, calls
  <2>2. CASE closer' \in {<<"recancel", k>>, <<"close", k>>} /\ open' = open
    BY <1>0, <2>1, <2>2, SMTT(20) DEF OwnedOK
  <2>3. CASE closer' = <<"cancel", k + 1>> /\ open' = open \ {m_socks[k]}
    <3>1. closer'[2] = k + 1 /\ closer'[1] = "cancel" BY <2>3
    <3>2. ASSUME NEW j \in 1 .. Len(m_socks), j < k + 1 PROVE m_socks[j] \notin open'
      <4>1. CASE j = k BY <2>3, <4>1, SMTT(20)
      <4>2. CASE j < k BY <1>0, <2>1, <2>3, <4>2, SMTT(20)
      <4> QED BY <1>1, <3>2, <4>1, <4>2
    <3>3. late' \/ open' \subseteq Range(m_socks') BY <1>0, <2>1, <2>3
    <3> QED BY <2>1, <3>1, <3>2, <3>3 DEF OwnedOK
  <2> QED BY <1>12, <2>2, <2>3, Zenon DEF CloseStep
<1>13. CASE ClearSocks
  <2>1. /\ closer[1] = "cancel" /\ closer[2] > Len(m_socks) /\ closer' = <<"done", 0>> /\ m_socks' = <<>>
        /\ UNCHANGED <<open, late, user>> /\ user # "bind"
    BY <1>0, <1>13, Zenon DEF ClearSocks, calls
  <2>2. \A j \in 1 .. Len(m_socks) : m_socks[j] \notin open BY <1>0, <1>1, <2>1, SMTT(20)
  <2>3. late \/ open = {} BY <1>0, <1>1, <2>2 DEF Range
  <2> QED BY <2>1, <2>3 DEF OwnedOK
<1>14. CASE UNCHANGED vars BY <1>3, <1>14 DEF vars
<1> QED BY <1>4, <1>5, <1>6, <1>7, <1>8, <1>9, <1>10, <1>11, <1>12, <1>13, <1>14 DEF Next

-----------------------------------------------------------------------------
(* The facts about finite sets the lemmas above rest on, and the theorem that
   needs them.  The library is instantiated here and not
   extended above: the proofs before this line do not use it.                *)
INSTANCE FiniteSetTheorems

\* A server has finitely many addresses.
LEMMA SocksFinite == IsFiniteSet(Socks) /\ Cardinality(Socks) \in Nat
BY AddrsAssumption, FS_AddElement, FS_CardinalityType DEF Socks

\* bind pushes each address once.
LEMMA PushedOnce ==
  ASSUME NEW A, A \subseteq Socks
  PROVE  InOrder(A) \in Seq(Socks) /\ IsInjective(InOrder(A)) /\ Range(InOrder(A)) = A
<1> DEFINE n == Cardinality(A)
           f == InOrder(A)
<1>1. IsFiniteSet(A) BY SocksFinite, FS_Subset
<1>2. n \in Nat /\ ExistsBijection(1 .. n, A) BY <1>1, FS_CardinalityType
<1>3. f \in Bijection(1 .. n, A) BY <1>2 DEF ExistsBijection, InOrder
<1> HIDE DEF n, f
<1>4. f \in [1 .. n -> A] /\ IsInjective(f) BY <1>3 DEF Bijection, Injection
<1>5. Range(f) = A BY <1>3, <1>4 DEF Range, Bijection, Surjection
<1>6. f \in Seq(Socks)
  <2>1. f \in [1 .. n -> Socks] BY <1>4
  <2> QED BY <1>2, <2>1
<1> QED BY <1>4, <1>5, <1>6 DEF f

\* Sockets that differ are at most as many as the addresses.
LEMMA FewSockets ==
  ASSUME NEW q \in Seq(Socks), IsInjective(q)
  PROVE  Len(q) \in Nat /\ Len(q) <= Cardinality(Socks)
<1>1. Len(q) \in Nat /\ DOMAIN q = 1 .. Len(q) BY Entries, Zenon
<1>2. q \in Injection(1 .. Len(q), Socks)
  <2>1. q \in [1 .. Len(q) -> Socks] OBVIOUS
  <2> QED BY <1>1, <2>1, Zenon DEF Injection
<1>3. Cardinality(1 .. Len(q)) = Len(q) BY <1>1, FS_Interval, SMTT(20)
<1> QED BY <1>1, <1>2, <1>3, SocksFinite, FS_Injection

\* So there are few sockets.
LEMMA SocksAreFew == FewSocks
BY SocksFinite, PushedOnce, FewSockets, Zenon DEF FewSocks

\* No more fibers run than there are threads.
LEMMA RunningStep ==
  ASSUME RunningOK, [Next]_vars
  PROVE  RunningOK'
<1>0. /\ threads \in {1, 2} /\ running \subseteq Socks \cup {Closer} /\ Cardinality(running) <= threads
      /\ IsFiniteSet(running) /\ Cardinality(running) \in Nat
  <2>1. IsFiniteSet(Socks \cup {Closer}) BY SocksFinite, FS_AddElement, SMTT(20)
  <2> QED BY <2>1, FS_Subset, FS_CardinalityType DEF RunningOK
<1>1. ASSUME NEW f \in Socks \cup {Closer}, Step(f), threads' = threads PROVE RunningOK'
  <2>1. running' = running \cup {f} /\ (f \in running \/ Cardinality(running) < threads)
    BY <1>1 DEF Step, FreeThread
  <2>2. Cardinality(running') = IF f \in running THEN Cardinality(running) ELSE Cardinality(running) + 1
    BY <1>0, <2>1, FS_AddElement, SMTT(20)
  <2>3. Cardinality(running') <= threads BY <1>0, <2>1, <2>2, SMTT(20)
  <2> QED BY <1>0, <1>1, <2>1, <2>3 DEF RunningOK
<1>2. ASSUME NEW f \in Socks \cup {Closer}, LastStep(f), threads' = threads PROVE RunningOK'
  <2>1. running' = running \ {f} BY <1>2 DEF LastStep
  <2>2. Cardinality(running') = IF f \in running THEN Cardinality(running) - 1 ELSE Cardinality(running)
    BY <1>0, <2>1, FS_RemoveElement
  <2>3. Cardinality(running') <= threads BY <1>0, <2>2
  <2> QED BY <1>0, <1>2, <2>1, <2>3 DEF RunningOK
<1>3. ASSUME UNCHANGED <<threads, running>> PROVE RunningOK' BY <1>0, <1>3 DEF RunningOK
<1>4. CASE TryBind \/ start \/ BindMore \/ stop \/ HandlerEnds
  BY <1>3, <1>4, Zenon DEF TryBind, start, BindMore, stop, HandlerEnds
<1>5. CASE CloseStep \/ ClearSocks
  BY <1>1, <1>2, <1>5, Zenon DEF CloseStep, ClearSocks
<1>6. ASSUME NEW s \in Socks, CheckStop(s) \/ Accept(s) \/ Call(s) \/ Register(s) PROVE RunningOK'
  BY <1>1, <1>2, <1>6, ZenonT(30) DEF CheckStop, Accept, Call, Register
<1>7. ASSUME NEW s \in Socks, Readable(s) \/ Connect(s) \/ Freed(s) PROVE RunningOK'
  BY <1>3, <1>7, SMTT(20) DEF Readable, Connect, Freed
<1>8. CASE UNCHANGED vars BY <1>3, <1>8 DEF vars
<1> QED BY <1>4, <1>5, <1>6, <1>7, <1>8, SMTT(20) DEF Next

\* No listening descriptor outlives the server's reference to it unless a bind
\* failed after start (TcpServer::bind, stop), for any addresses and clients.
THEOREM OpenSocketsAreOwned == ServerSpec => []OpenIsOwned
<1>1. ServerInit => OwnInv
  <2> SUFFICES ASSUME Init PROVE OwnInv BY DEF ServerInit
  <2>1. RunningOK BY FS_EmptySet DEF Init, RunningOK
  <2>2. CallsOK BY Zenon DEF Init, CallsOK
  <2>3. SocksOK
    <3>1. IsInjective(<<>>) BY DEF IsInjective
    <3> QED BY <3>1 DEF Init, SocksOK
  <2>4. LoopsOK BY SMTT(20) DEF Init, LoopsOK, LoopState
  <2>5. CloserOK BY SocksFinite DEF Init, CloserOK
  <2>6. NetOK BY AddrsAssumption, SMTT(20) DEF Init, NetOK
  <2>7. OwnedOK BY DEF Init, OwnedOK
  <2>8. FateOK BY DEF Init, FateOK
  <2> QED BY <2>1, <2>2, <2>3, <2>4, <2>5, <2>6, <2>7, <2>8, SMTT(20) DEF OwnInv
<1>2. OwnInv /\ [ServerNext]_<<part, vars, connection>> => OwnInv'
  <2> SUFFICES ASSUME OwnInv, [Next]_vars PROVE OwnInv' BY ServerSteps
  <2>1. RunningOK' /\ CallsOK' /\ FateOK' BY RunningStep, CallsStep, FateStep DEF OwnInv
  <2>2. FewSocks BY SocksAreFew
  <2> QED BY <2>1, <2>2, SocksStep, LoopsStep, CloserStep, NetStep, OwnedStep, SMTT(20) DEF OwnInv
<1>3. OwnInv => OpenIsOwned
  <2> SUFFICES ASSUME OwnInv PROVE OpenIsOwned OBVIOUS
  <2>1. Range(m_socks) \subseteq Socks BY Entries DEF OwnInv, SocksOK, Range
  <2>2. TypeOK
    BY <2>1, Zenon DEF OwnInv, RunningOK, CallsOK, SocksOK, LoopsOK, CloserOK, FateOK, NetOK, TypeOK
  <2> QED BY <2>2, SMTT(20) DEF OwnInv, OwnedOK, OpenIsOwned
<1> QED BY <1>1, <1>2, <1>3, PTL DEF ServerSpec
=============================================================================
