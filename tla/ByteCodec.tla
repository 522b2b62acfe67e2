----------------------------- MODULE ByteCodec ------------------------------
(***************************************************************************)
(* How ByteArray turns values into bytes and back: fixed width with        *)
(* byteswap, 7-bit groups, zigzag, and length-prefixed strings.  The       *)
(* widths are constants, so that every value of a scaled-down integer can  *)
(* be tried: a byte has GroupBits + 1 bits (the code's 7 + 1), a variable- *)
(* length integer VarBits (32 and 64), and wide integers Wide bytes (2 to  *)
(* 8).  As in the code, GroupBits need not divide VarBits.                 *)
(***************************************************************************)
EXTENDS Integers, Sequences, FiniteSets, FiniteSetsExt, SequencesExt

CONSTANTS GroupBits, VarBits, Wide

Group == 2 ^ GroupBits          \* 0x80, the flag of a byte that is not the last
VarRange == 0..(2 ^ VarBits - 1)
SignedRange == (-(2 ^ (VarBits - 1)))..(2 ^ (VarBits - 1) - 1)

\* the bytes of an integer in memory, the low one first, and back
LowFirst(v, k) == [i \in 1..k |-> (v \div ((2 * Group) ^ (i - 1))) % (2 * Group)]
FromLowFirst(s) == FoldRight(LAMBDA byte, acc : byte + 2 * Group * acc, s, 0)
\* write_fint16 ... write_fuint64: swapped if m_endian is not COOL_BYTE_ORDER
write_fixed(v, k, swap) == IF swap THEN Reverse(LowFirst(v, k)) ELSE LowFirst(v, k)
read_fixed(s, swap) == FromLowFirst(IF swap THEN Reverse(s) ELSE s)

\* arithmetic of VarBits bits: (uint32_t)(-val) * 2 - 1, and in the decoder
\* the exclusive or with 0 or with all ones
EncodeZigzap(val) == (IF val < 0 THEN (-val) * 2 - 1 ELSE val * 2) % (2 ^ VarBits)
DecodeZigzap(val) ==
  LET half == val \div 2
      bits == IF val % 2 = 1 THEN 2 ^ VarBits - 1 - half ELSE half
  IN IF bits >= 2 ^ (VarBits - 1) THEN bits - 2 ^ VarBits ELSE bits

\* write_uint32 and write_uint64: groups, low first, all but the last flagged
write_uint(val) ==
  LET groups == CHOOSE n \in 1..VarBits :
                  val < Group ^ n /\ \A m \in 1..(n - 1) : val >= Group ^ m
  IN [i \in 1..groups |-> ((val \div (Group ^ (i - 1))) % Group) + (IF i = groups THEN 0 ELSE Group)]

\* Mutant: the shifts of the groups that fit whole.
ShiftsWhole == {i \in 0..(VarBits - GroupBits) : i % GroupBits = 0}
\* read_uint32 and read_uint64: the shifts 0, 7, 14, ... below the width, up
\* to the first byte without the flag; the number of bytes taken, and the value
Shifts == {i \in 0..(VarBits - 1) : i % GroupBits = 0}
TakenBy(s) ==
  LET most == Cardinality(Shifts)
      ends == {i \in 1..Len(s) : i <= most /\ s[i] < Group}
  IN IF ends = {} THEN most ELSE Min(ends)
read_uint(s) ==
  SumFunctionOnSet([i \in 1..Len(s) |-> ((s[i] % Group) * Group ^ (i - 1)) % (2 ^ VarBits)], 1..Len(s))
=============================================================================
