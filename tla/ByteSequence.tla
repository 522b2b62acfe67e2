---------------------------- MODULE ByteSequence ----------------------------
(***************************************************************************)
(* What ByteArray promises: one sequence of bytes and a position in it, no *)
(* trace of nodes.  A write replaces the bytes at the position and extends *)
(* the sequence; a read returns the bytes at the position or fails; moving *)
(* the position past the end exposes bytes of any value.                   *)
(***************************************************************************)
EXTENDS Integers, Sequences

CONSTANT MaxBytes   \* the longest read, the farthest position

VARIABLES content, pos, ret, broken
vars == <<content, pos, ret, broken>>

Returned(s) == [arg |-> <<>>, ok |-> TRUE, bytes |-> s]
Took(s) == [arg |-> s, ok |-> TRUE, bytes |-> <<>>]
File == <<0>>
Thrown == [arg |-> <<>>, ok |-> FALSE, bytes |-> <<>>]
At(p, n) == SubSeq(content, p + 1, p + n)

Init == content = <<>> /\ pos = 0 /\ ret = Returned(<<>>) /\ ~broken

\* s replaces what is at the position
Put(s) ==
  /\ content' = SubSeq(content, 1, pos) \o s \o SubSeq(content, pos + Len(s) + 1, Len(content))
  /\ pos' = pos + Len(s) /\ ret' = Took(s)

Get(n) ==
  /\ IF pos + n > Len(content) THEN ret' = Thrown /\ pos' = pos
     ELSE ret' = Returned(At(pos, n)) /\ pos' = pos + n
  /\ UNCHANGED content

GetAll == ret' = Returned(At(pos, Len(content) - pos)) /\ UNCHANGED <<content, pos>>

Seek(p) ==
  /\ pos' = p /\ ret' = Returned(<<>>)
  /\ IF p <= Len(content) THEN UNCHANGED content
     ELSE Len(content') = p /\ SubSeq(content', 1, Len(content)) = content
SeekFails == ret' = Thrown /\ UNCHANGED <<content, pos>>

Forget == content' = <<>> /\ pos' = 0 /\ ret' = Returned(<<>>)
Nothing == ret' = Returned(<<>>) /\ UNCHANGED <<content, pos>>
Save == ret'.arg = File /\ UNCHANGED <<content, pos>>

Next ==
  \/ /\ ~broken' /\ UNCHANGED broken
     /\ \/ Put(ret'.arg)
        \/ \E n \in 0..MaxBytes : Get(n) \/ Seek(n)
        \/ GetAll \/ SeekFails \/ Forget \/ Nothing \/ Save
  \/ ~broken /\ broken'

Spec == Init /\ [][Next]_vars
=============================================================================
