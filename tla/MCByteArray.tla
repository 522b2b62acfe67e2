---------------------------- MODULE MCByteArray -----------------------------
(* ByteArray for TLC: either its raw operations or values, chosen at first. *)
EXTENDS ByteValues

CONSTANTS Modes   \* "raw", "values" or both

VARIABLE mode
mcVars == <<valueVars, mode>>

MCStrings == {<<1>>, <<1, 2>>, <<2, 2, 1>>}
Of(type, vals) == {[type |-> type, val |-> v] : v \in vals}
MCValues ==
  Of("byte", {0, 7}) \cup Of("wide", {1, 26}) \cup Of("uint", VarRange) \cup Of("int", SignedRange)
  \cup Of("string_f", {<<>>, <<3>>, <<1, 2>>}) \cup Of("string_vint", {<<>>, <<3>>})

\* (with nodes of one byte, every call starts and ends between two nodes: values are enough)
MCInit == InitValues /\ mode \in Modes /\ (mode = "raw" => ~swap /\ ba.m_base_size > 1)
MCNext ==
  \/ mode = "raw" /\ Next /\ UNCHANGED <<swap, wrote, reading, nread, got, mode>>
  \/ mode = "values" /\ NextValues /\ UNCHANGED mode
MCSpec == MCInit /\ [][MCNext]_mcVars

\* the raw operations alone: values make several calls in one step
Raw(x, y) == IF mode = "raw" THEN x ELSE y
Flat ==
  INSTANCE ByteSequence WITH content <- Raw(Slice(ba, 0, ba.m_size), <<>>), pos <- Raw(ba.m_pos, 0),
                             broken <- Raw(ba.broken, FALSE)
\* ByteArray implements ByteSequence: its callers see a sequence of bytes and a
\* position, whatever the nodes, until it breaks.
FlatSpec == Flat!Spec

\* A call walks off the list of nodes only when it writes and addCapacity has
\* counted a node too few (bytearray.cpp:469), when it reads no byte behind the
\* last node (m_cur is null, 411), or when it writes a file from the middle of a
\* node with less than a node's worth left (428); and in the first two cases
\* it always does.
BreaksOnlyWhen ==
  [][mode = "raw" =>
       /\ ba'.broken /\ ~ba.broken => CrampedWrite \/ ReadBehind \/ FileFromMiddle
       /\ CrampedWrite \/ ReadBehind => ba'.broken]_mcVars
=============================================================================
