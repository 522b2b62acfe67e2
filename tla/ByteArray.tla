----------------------------- MODULE ByteArray ------------------------------
(***************************************************************************)
(* cool::ByteArray (src/bytearray.cpp): a list of nodes of m_base_size     *)
(* bytes with one position for reading and writing.  A node is its number, *)
(* 0 being nullptr; the bytes of all nodes are one function from addresses,*)
(* node k holding the addresses from (k - 1) * m_base_size on.  A loop     *)
(* that walks the list is given by the addresses it reaches; it breaks     *)
(* when it follows the last node's next.                                   *)
(***************************************************************************)
EXTENDS Integers, Sequences, SequencesExt

CONSTANTS Bases,     \* the values of m_base_size
          Byte,      \* bytes
          Junk,      \* a byte nobody wrote
          Strings,   \* the sequences of bytes that are written
          MaxBytes   \* bound on the bytes of all nodes together
ASSUME BasesAssumption == Bases \subseteq Nat \ {0}
ASSUME StringsAssumption == Strings \subseteq Seq(Byte)
ASSUME JunkAssumption == Junk \notin Byte

\* an array as the constructor leaves it
NewArray(base) ==
  [m_base_size |-> base, m_pos |-> 0, m_size |-> 0, m_capacity |-> base, m_cur |-> 1,
   nodes |-> 1, mem |-> [a \in 0..(base - 1) |-> Junk], broken |-> FALSE]

getReadSize(b) == b.m_size - b.m_pos
getCapacity(b) == b.m_capacity - b.m_pos
\* the address that m_cur and a position stand for
Address(b, pos) == (b.m_cur - 1) * b.m_base_size + (pos % b.m_base_size)
EndOfNodes(b) == b.nodes * b.m_base_size
\* m_cur after a loop that stopped before address a: a full node is left
CurAt(b, a) == IF a = EndOfNodes(b) THEN 0 ELSE (a \div b.m_base_size) + 1
Slice(b, a, n) == [i \in 1..n |-> b.mem[a + i - 1]]

\* Mutant: the quotient alone.
CountForQuotient(base, size, old_cap) == size \div base
\* nodes to append for size more bytes than fit: one more than the quotient
\* only if the remainder is larger than what was free before
CountFor(base, size, old_cap) ==
  (size \div base) + (IF size % base > old_cap THEN 1 ELSE 0)

addCapacity(b, size) ==
  LET old_cap == getCapacity(b)
      count == CountFor(b.m_base_size, size - old_cap, old_cap)
      nodes == b.nodes + count
  IN IF old_cap >= size THEN b
     ELSE [b EXCEPT
             !.nodes = nodes,
             !.m_capacity = @ + count * b.m_base_size,
             !.mem = [a \in 0..(nodes * b.m_base_size - 1) |-> IF a \in DOMAIN @ THEN @[a] ELSE Junk],
             !.m_cur = IF old_cap > 0 THEN @ ELSE IF count = 0 THEN 0 ELSE b.nodes + 1]

Larger(x, y) == IF x > y THEN x ELSE y
Smaller(x, y) == IF x < y THEN x ELSE y

\* Mutant: the size is the new position even when bytes behind it were there.
writeShrinks(b, s) ==
  LET c == addCapacity(b, Len(s))
      a == Address(c, c.m_pos)
  IN IF s = <<>> THEN b
     ELSE IF c.m_cur = 0 \/ a + Len(s) > EndOfNodes(c) THEN [c EXCEPT !.broken = TRUE]
     ELSE [c EXCEPT
             !.mem = [x \in DOMAIN @ |-> IF x \in a..(a + Len(s) - 1) THEN s[x - a + 1] ELSE @[x]],
             !.m_pos = @ + Len(s), !.m_size = c.m_pos + Len(s),
             !.m_cur = CurAt(c, a + Len(s))]

write(b, s) ==
  LET c == addCapacity(b, Len(s))
      a == Address(c, c.m_pos)
  IN IF s = <<>> THEN b
     ELSE IF c.m_cur = 0 \/ a + Len(s) > EndOfNodes(c) THEN [c EXCEPT !.broken = TRUE]
     ELSE [c EXCEPT
             !.mem = [x \in DOMAIN @ |-> IF x \in a..(a + Len(s) - 1) THEN s[x - a + 1] ELSE @[x]],
             !.m_pos = @ + Len(s), !.m_size = Larger(@, c.m_pos + Len(s)),
             !.m_cur = CurAt(c, a + Len(s))]

\* what read(buf, size) copies and leaves; it throws when the bytes are not
\* there, and looks into m_cur even for no byte at all
Throws(b, n) == n > getReadSize(b)
read(b, n) ==
  LET a == Address(b, b.m_pos) IN
  IF b.m_cur = 0 \/ a + n > EndOfNodes(b) THEN [b EXCEPT !.broken = TRUE]
  ELSE [b EXCEPT !.m_pos = @ + n, !.m_cur = IF n = 0 THEN @ ELSE CurAt(b, a + n)]
readBytes(b, n) == Slice(b, Address(b, b.m_pos), n)

\* position(val): walks from the root
position(b, val) ==
  [b EXCEPT !.m_pos = val, !.m_size = Larger(@, val), !.m_cur = CurAt(b, val)]

clear(b) == [NewArray(b.m_base_size) EXCEPT !.mem = [a \in DOMAIN @ |-> b.mem[a]]]

----------------------------------------------------------------------------
(* Files *)

\* One round of writeToFile's loop: the length is right only at the start of a
\* node or when a whole node's worth is left; a negative one fails the stream.
FileRound(b, w) ==
  LET diff == w.pos % b.m_base_size
      len == Smaller(w.left, b.m_base_size) - diff
  IN IF w.left <= 0 \/ w.broken THEN w
     ELSE IF w.cur = 0 THEN [w EXCEPT !.broken = TRUE]
     ELSE [w EXCEPT
             !.out = IF len > 0 /\ ~w.failed
                     THEN @ \o Slice(b, (w.cur - 1) * b.m_base_size + diff, len) ELSE @,
             !.failed = @ \/ len < 0,
             !.cur = IF @ = b.nodes THEN 0 ELSE @ + 1,
             !.pos = @ + len, !.left = @ - len]
\* every round but the last takes a node, so nodes + 1 of them are all
writeToFile(b) ==
  FoldLeft(LAMBDA w, i : FileRound(b, w),
           [left |-> getReadSize(b), pos |-> b.m_pos, cur |-> b.m_cur, out |-> <<>>,
            failed |-> FALSE, broken |-> FALSE],
           [i \in 1..(b.nodes + 1) |-> i])

----------------------------------------------------------------------------
(* The array as its callers drive it *)

VARIABLES ba,    \* the array
          ret,   \* what the last call was given, and what it gave its caller
          left   \* what readFromFile has still to read; empty when it is not running
vars == <<ba, ret, left>>

Returned(s) == [arg |-> <<>>, ok |-> TRUE, bytes |-> s]
Took(s) == [arg |-> s, ok |-> TRUE, bytes |-> <<>>]
File == <<0>>   \* marks a file's contents
Thrown == [arg |-> <<>>, ok |-> FALSE, bytes |-> <<>>]   \* std::out_of_range

Init ==
  /\ \E base \in Bases : ba = NewArray(base)
  /\ ret = Returned(<<>>) /\ left = <<>>

Usable == ~ba.broken /\ left = <<>>
Bounded(b) == EndOfNodes(b) <= MaxBytes

Write(s) ==
  /\ Usable /\ ret' = Took(s) /\ UNCHANGED left
  /\ Bounded(write(ba, s)) /\ ba' = write(ba, s)

Read(n) ==
  /\ Usable
  /\ IF Throws(ba, n) THEN ret' = Thrown /\ UNCHANGED ba
     ELSE ba' = read(ba, n) /\ ret' = Returned(IF ba'.broken THEN <<>> ELSE readBytes(ba, n))
  /\ UNCHANGED left

\* to_string, which reads from m_pos without moving it
to_string ==
  /\ Usable
  /\ ret' = Returned(IF getReadSize(ba) = 0 THEN <<>> ELSE readBytes(ba, getReadSize(ba)))
  /\ UNCHANGED <<ba, left>>

Position(val) ==
  /\ Usable
  /\ IF val > ba.m_capacity THEN ret' = Thrown /\ UNCHANGED ba
     ELSE ba' = position(ba, val) /\ ret' = Returned(<<>>)
  /\ UNCHANGED left

Clear == Usable /\ ba' = clear(ba) /\ ret' = Returned(<<>>) /\ UNCHANGED left

\* the file's contents are what the caller gets; a file that cannot be opened
\* changes nothing
WriteToFile ==
  LET w == writeToFile(ba) IN
  /\ Usable
  /\ ret' = [Returned(w.out) EXCEPT !.arg = File] /\ ba' = [ba EXCEPT !.broken = (w.broken = TRUE)]
  /\ UNCHANGED left

\* readFromFile: opens a file that holds s, then writes a node's worth at a
\* time, the last piece shorter
ReadFromFile(s) ==
  /\ Usable /\ left' = s /\ ret' = Returned(<<>>) /\ UNCHANGED ba
ReadPiece ==
  LET n == Smaller(ba.m_base_size, Len(left))
      piece == SubSeq(left, 1, n)
  IN /\ left # <<>> /\ ~ba.broken /\ ret' = Took(piece)
     /\ left' = SubSeq(left, n + 1, Len(left))
     /\ Bounded(write(ba, piece)) /\ ba' = write(ba, piece)

\* SocketStream::read(ba, length): getWriteBuffers for the whole length, which
\* breaks like a write, then recvmsg fills the first bytes of the buffers and
\* the position is moved behind them
StreamRead(length, s) ==
  LET b == addCapacity(ba, length)
      a == Address(b, b.m_pos)
      filled == [b EXCEPT !.mem = [x \in DOMAIN @ |-> IF x \in a..(a + Len(s) - 1) THEN s[x - a + 1] ELSE @[x]]]
  IN /\ Usable /\ length > 0 /\ Len(s) <= length
     /\ ret' = Took(s) /\ UNCHANGED left /\ Bounded(b)
     /\ ba' = IF b.m_cur = 0 \/ a + length > EndOfNodes(b) THEN [b EXCEPT !.broken = TRUE]
              ELSE IF s = <<>> THEN b ELSE position(filled, b.m_pos + Len(s))

\* SocketStream::write(ba, length): getReadBuffers, of which sendmsg takes the
\* first n bytes
StreamWrite(length, n) ==
  LET len == Smaller(length, getReadSize(ba)) IN
  /\ Usable /\ n \in 1..len
  /\ ret' = Returned(readBytes(ba, n)) /\ ba' = position(ba, ba.m_pos + n)
  /\ UNCHANGED left

Next ==
  \/ \E s \in Strings : Write(s) \/ ReadFromFile(s) \/ \E n \in 1..MaxBytes : StreamRead(n, s)
  \/ \E n \in 0..MaxBytes : Read(n) \/ Position(n) \/ StreamRead(n, <<>>)
  \/ \E length, n \in 1..MaxBytes : StreamWrite(length, n)
  \/ to_string \/ Clear \/ WriteToFile \/ ReadPiece

Spec == Init /\ [][Next]_vars

\* too few nodes for n bytes: the remainder that needs a node of its own is no
\* larger than what was free before, so addCapacity takes it for covered
TooFew(n) == n > getCapacity(ba) /\ (n - getCapacity(ba)) % ba.m_base_size \in 1..getCapacity(ba)

\* a call that puts bytes into the array and is given too few nodes
CrampedWrite ==
  \/ \E s \in Strings : TooFew(Len(s)) /\ Write(s)
  \/ TooFew(Smaller(ba.m_base_size, Len(left))) /\ ReadPiece
  \/ \E n \in {m \in 1..MaxBytes : TooFew(m)}, s \in Strings \cup {<<>>} : StreamRead(n, s)
\* a read of no byte behind the last node
ReadBehind == getCapacity(ba) = 0 /\ Read(0)
\* a file written from the middle of a node with less than a node's worth left
FileFromMiddle ==
  WriteToFile /\ ba.m_pos % ba.m_base_size # 0 /\ getReadSize(ba) < ba.m_base_size

----------------------------------------------------------------------------
(* Properties *)

\* Type invariant of an array: m_capacity is what the nodes hold, and the
\* position never passes the size, nor the size the capacity, so getReadSize
\* and getCapacity, which are unsigned, never wrap.
TypeOK ==
  /\ ba.m_base_size \in Bases /\ ba.nodes \in Nat \ {0} /\ ba.broken \in BOOLEAN
  /\ ba.m_capacity = EndOfNodes(ba) /\ ba.m_cur \in 0..ba.nodes
  /\ ba.mem \in [0..(EndOfNodes(ba) - 1) -> Byte \cup {Junk}]
  /\ 0 <= ba.m_pos /\ ba.m_pos <= ba.m_size /\ ba.m_size <= ba.m_capacity

\* m_cur and m_pos are moved separately by write, read, position, clear and
\* addCapacity; they always name the same place, and m_cur is null exactly when
\* the position is behind the last node.
CurMatchesPos ==
  ~ba.broken => IF ba.m_cur = 0 THEN ba.m_pos = ba.m_capacity
                ELSE ba.m_pos = Address(ba, ba.m_pos)
=============================================================================
