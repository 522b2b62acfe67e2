-------------------------- MODULE ByteArrayProofs ---------------------------
(***************************************************************************)
(* Proof that ByteArray's counters and its m_cur agree, for nodes of any   *)
(* size, any strings and any sequence of calls.                            *)
(***************************************************************************)
EXTENDS ByteArray, TLAPS

Bytes == Byte \cup {Junk}
Memory == UNION {[0..(n - 1) -> Bytes] : n \in Nat}
Arrays == [m_base_size : Bases, m_pos : Nat, m_size : Nat, m_capacity : Nat, m_cur : Nat,
           nodes : Nat \ {0}, mem : Memory, broken : BOOLEAN]

\* TypeOK and CurMatchesPos of one array
Good(b) ==
  /\ b \in Arrays /\ b.m_capacity = EndOfNodes(b) /\ b.m_cur <= b.nodes
  /\ b.mem \in [0..(EndOfNodes(b) - 1) -> Bytes]
  /\ b.m_pos <= b.m_size /\ b.m_size <= b.m_capacity
Matches(b) == IF b.m_cur = 0 THEN b.m_pos = b.m_capacity ELSE b.m_pos = Address(b, b.m_pos)

USE BasesAssumption, StringsAssumption

\* A base size is positive.
LEMMA BasePositive == \A base \in Bases : base \in Nat /\ base > 0
  OBVIOUS

\* Quotient and remainder.
LEMMA DivMod ==
  ASSUME NEW a \in Nat, NEW b \in Nat, b > 0
  PROVE  a \div b \in Nat /\ a % b \in 0..(b - 1) /\ (a \div b) * b + (a % b) = a
  OBVIOUS

\* What comes before the end of n nodes is in one of them.
LEMMA InNodes ==
  ASSUME NEW a \in Nat, NEW b \in Nat, b > 0, NEW n \in Nat, a < n * b
  PROVE  (a \div b) + 1 <= n
<1>1. a \div b \in Nat /\ (a \div b) * b <= a BY DivMod
<1> QED BY <1>1

\* The first byte of a node.
LEMMA NodeStart ==
  ASSUME NEW n \in Nat, NEW b \in Nat, b > 0
  PROVE  (n * b) % b = 0
  OBVIOUS

\* n nodes hold n times what one holds.
LEMMA NodesHold ==
  ASSUME NEW n \in Nat, NEW k \in Nat, NEW b \in Nat
  PROVE  n * b \in Nat /\ (n + k) * b = n * b + k * b /\ (n > 0 => b <= n * b)
  OBVIOUS

\* A memory of any number of bytes is one.
LEMMA MemoryOf == ASSUME NEW n \in Nat, NEW m \in [0..(n - 1) -> Bytes] PROVE m \in Memory
  BY DEF Memory

\* CurAt gives the node of an address, and null behind the last.
LEMMA CurAtMatches ==
  ASSUME NEW b, Good(b), NEW a \in Nat, a <= EndOfNodes(b)
  PROVE  /\ CurAt(b, a) \in Nat /\ CurAt(b, a) <= b.nodes
         /\ IF CurAt(b, a) = 0 THEN a = b.m_capacity
            ELSE a = (CurAt(b, a) - 1) * b.m_base_size + (a % b.m_base_size)
<1> DEFINE base == b.m_base_size
           n == b.nodes
<1>1. base \in Nat /\ base > 0 /\ n \in Nat /\ EndOfNodes(b) = n * base /\ b.m_capacity = n * base
  BY BasePositive, Zenon DEF Good, Arrays, EndOfNodes
<1>2. CASE a = n * base
  BY <1>1, <1>2 DEF CurAt
<1>3. CASE a < n * base
  <2> HIDE DEF base, n
  <2>1. a \div base \in Nat /\ (a \div base) * base + (a % base) = a BY <1>1, DivMod
  <2>2. (a \div base) + 1 <= n BY <1>1, <1>3, InNodes
  <2>3. CurAt(b, a) = (a \div base) + 1 BY <1>1, <1>3 DEF CurAt, base
  <2>4. CurAt(b, a) - 1 = a \div base /\ CurAt(b, a) # 0 BY <2>1, <2>3
  <2> QED BY <2>1, <2>2, <2>3, <2>4, SMTT(20) DEF base, n
<1>4. n * base \in Nat BY <1>1, NodesHold
<1> QED BY <1>1, <1>2, <1>3, <1>4

\* addCapacity appends nodes and sets m_cur if it was behind the last.
LEMMA AddCapacityGood ==
  ASSUME NEW b, Good(b), Matches(b), NEW size \in Nat
  PROVE  LET c == addCapacity(b, size) IN
         /\ Good(c) /\ Matches(c) /\ c.m_pos = b.m_pos /\ c.m_size = b.m_size /\ c.broken = b.broken
         /\ c.m_base_size = b.m_base_size
<1> DEFINE base == b.m_base_size
           old_cap == getCapacity(b)
           count == CountFor(base, size - old_cap, old_cap)
           nodes == b.nodes + count
           mem == [a \in 0..(nodes * base - 1) |-> IF a \in DOMAIN b.mem THEN b.mem[a] ELSE Junk]
           cur == IF old_cap > 0 THEN b.m_cur ELSE IF count = 0 THEN 0 ELSE b.nodes + 1
           c == addCapacity(b, size)
<1>1. CASE old_cap >= size
  BY <1>1 DEF addCapacity
<1>2. CASE ~(old_cap >= size)
  <2>1. base \in Nat /\ base > 0 /\ b.nodes \in Nat \ {0} /\ b.m_cur \in Nat /\ b.m_pos \in Nat /\ b.m_capacity \in Nat
    BY BasePositive, Zenon DEF Good, Arrays
  <2>2. old_cap \in Nat /\ size - old_cap \in Nat
    BY <1>2, <2>1, SMTT(20) DEF getCapacity, Good, Arrays
  <2>3. count \in Nat
    <3> HIDE DEF base, old_cap
    <3>1. (size - old_cap) \div base \in Nat BY <2>1, <2>2, DivMod
    <3> QED BY <3>1 DEF CountFor
  <2>4. c = [b EXCEPT !.nodes = nodes, !.m_capacity = b.m_capacity + count * base, !.mem = mem, !.m_cur = cur]
    BY <1>2 DEF addCapacity
  <2> HIDE DEF count, c
  <2>5. nodes \in Nat \ {0} /\ nodes * base \in Nat /\ count * base \in Nat
        /\ b.nodes * base \in Nat /\ nodes * base = b.nodes * base + count * base
    <3> HIDE DEF base
    <3>1. nodes \in Nat \ {0} BY <2>1, <2>3
    <3> HIDE DEF nodes
    <3>2. nodes * base \in Nat /\ count * base \in Nat /\ b.nodes * base \in Nat
      BY <2>1, <2>3, <3>1, NodesHold
    <3>3. (b.nodes + count) * base = b.nodes * base + count * base
      BY <2>1, <2>3, NodesHold
    <3> QED BY <3>1, <3>2, <3>3 DEF nodes
  <2>6. mem \in [0..(nodes * base - 1) -> Bytes]
    BY Zenon DEF Good, Bytes, EndOfNodes
  <2>7. cur \in Nat /\ cur <= nodes
    BY <2>1, <2>3, SMTT(20) DEF Good
  <2>8. mem \in Memory
    BY <2>5, <2>6, MemoryOf, Zenon
  <2> HIDE DEF mem, cur, nodes, old_cap
  <2>9. /\ c.nodes = nodes /\ c.m_capacity = b.m_capacity + count * base /\ c.mem = mem /\ c.m_cur = cur
        /\ c.m_pos = b.m_pos /\ c.m_size = b.m_size /\ c.broken = b.broken /\ c.m_base_size = base
    BY <2>4 DEF Good, Arrays
  <2>10. c \in Arrays
    <3>1. b.m_capacity + count * base \in Nat BY <2>1, <2>5, SMTT(30)
    <3> QED BY <2>4, <2>5, <2>7, <2>8, <3>1, Zenon DEF Good, Arrays
  <2>11. Good(c)
    <3> HIDE DEF base
    <3>1. EndOfNodes(c) = nodes * base /\ EndOfNodes(b) = b.nodes * base
      BY <2>9 DEF EndOfNodes, base
    <3>2. c.m_capacity = EndOfNodes(c) /\ b.m_capacity <= c.m_capacity
      BY <2>1, <2>5, <2>9, <3>1, SMTT(20) DEF Good
    <3>3. c.m_pos <= c.m_size /\ c.m_size <= c.m_capacity
      BY <2>1, <2>5, <2>9, <3>2, SMTT(20) DEF Good, Arrays
    <3> QED BY <2>6, <2>7, <2>9, <2>10, <3>1, <3>2, <3>3, SMTT(20) DEF Good
  <2>12. Matches(c)
    <3>1. CASE old_cap > 0
      <4>1. b.m_cur # 0 BY <2>1, <3>1 DEF Matches, old_cap, getCapacity
      <4>2. cur = b.m_cur BY <3>1 DEF cur
      <4> QED BY <2>9, <4>1, <4>2 DEF Matches, Address
    <3>2. CASE old_cap = 0
      <4>1. b.m_pos = b.nodes * base
        BY <2>1, <3>2 DEF old_cap, getCapacity, Good, EndOfNodes
      <4>2. CASE count = 0
        <5>1. cur = 0 BY <3>2, <4>2 DEF cur
        <5>2. count * base = 0 BY <2>1, <4>2
        <5>3. c.m_capacity = b.m_pos BY <2>1, <2>9, <4>1, <5>2, SMTT(20) DEF Good, EndOfNodes
        <5> QED BY <2>9, <5>1, <5>3, SMTT(20) DEF Matches
      <4>3. CASE count # 0
        <5>1. cur = b.nodes + 1 BY <3>2, <4>3 DEF cur
        <5>2. b.m_pos % base = 0 BY <2>1, <4>1, NodeStart, ZenonT(30)
        <5>3. cur # 0 /\ cur - 1 = b.nodes BY <2>1, <5>1
        <5> QED BY <2>5, <2>9, <4>1, <5>2, <5>3, SMTT(20) DEF Matches, Address
      <4> QED BY <4>2, <4>3, SMTT(20)
    <3> QED BY <2>2, <3>1, <3>2
  <2> QED BY <2>9, <2>11, <2>12 DEF c
<1> QED BY <1>1, <1>2

\* What an operation may leave behind
Fine(b) == Good(b) /\ (~b.broken => Matches(b))

\* New contents, position and size, with m_cur set for the position
Move(b, mem, pos, size) == [b EXCEPT !.mem = mem, !.m_pos = pos, !.m_size = size, !.m_cur = CurAt(b, pos)]

\* A position up to the capacity, with m_cur set for it.
LEMMA MoveGood ==
  ASSUME NEW b, Good(b), NEW pos \in Nat, NEW size \in Nat, pos <= size, size <= b.m_capacity,
         NEW mem \in [0..(EndOfNodes(b) - 1) -> Bytes]
  PROVE  Fine(Move(b, mem, pos, size))
<1> DEFINE c == Move(b, mem, pos, size)
<1>1. b.m_capacity = EndOfNodes(b) /\ EndOfNodes(b) \in Nat BY DEF Good, Arrays
<1>2. pos <= EndOfNodes(b) BY <1>1
<1>3. /\ CurAt(b, pos) \in Nat /\ CurAt(b, pos) <= b.nodes
      /\ IF CurAt(b, pos) = 0 THEN pos = b.m_capacity
         ELSE pos = (CurAt(b, pos) - 1) * b.m_base_size + (pos % b.m_base_size)
  BY <1>2, CurAtMatches
<1>4. mem \in Memory BY <1>1, MemoryOf, SMTT(20)
<1>5. /\ c.mem = mem /\ c.m_pos = pos /\ c.m_size = size /\ c.m_cur = CurAt(b, pos) /\ c.nodes = b.nodes
      /\ c.m_base_size = b.m_base_size /\ c.m_capacity = b.m_capacity /\ c.broken = b.broken
  BY DEF Good, Arrays, Move
<1>6. c \in Arrays BY <1>3, <1>4, Zenon DEF Good, Arrays, Move
<1> HIDE DEF c
<1>7. EndOfNodes(c) = EndOfNodes(b) BY <1>5 DEF EndOfNodes
<1>8. Good(c) BY <1>1, <1>3, <1>5, <1>6, <1>7, SMTT(20) DEF Good
<1>9. Matches(c) BY <1>3, <1>5 DEF Matches, Address
<1> QED BY <1>8, <1>9 DEF c, Fine

\* An operation that walks off the list changes nothing else.
LEMMA BreakGood ==
  ASSUME NEW b, Good(b), NEW x \in BOOLEAN, x \/ Matches(b)
  PROVE  Fine([b EXCEPT !.broken = x])
<1> DEFINE c == [b EXCEPT !.broken = x]
<1>1. /\ c.mem = b.mem /\ c.m_pos = b.m_pos /\ c.m_size = b.m_size /\ c.m_cur = b.m_cur /\ c.nodes = b.nodes
      /\ c.m_base_size = b.m_base_size /\ c.m_capacity = b.m_capacity /\ c.broken = x /\ c \in Arrays
  BY DEF Good, Arrays
<1> HIDE DEF c
<1>2. EndOfNodes(c) = EndOfNodes(b) BY <1>1 DEF EndOfNodes
<1>3. Good(c) BY <1>1, <1>2 DEF Good
<1>4. ~c.broken => Matches(c) BY <1>1 DEF Matches, Address
<1> QED BY <1>3, <1>4 DEF c, Fine

\* Bytes copied into the nodes are bytes.
LEMMA FillGood ==
  ASSUME NEW b, Good(b), NEW s \in Seq(Byte), NEW a \in Nat
  PROVE  [x \in DOMAIN b.mem |-> IF x \in a..(a + Len(s) - 1) THEN s[x - a + 1] ELSE b.mem[x]]
           \in [0..(EndOfNodes(b) - 1) -> Bytes]
<1>1. EndOfNodes(b) \in Nat BY DEF Good, Arrays
<1>2. DOMAIN b.mem = 0..(EndOfNodes(b) - 1) /\ \A x \in DOMAIN b.mem : b.mem[x] \in Bytes BY Zenon DEF Good
<1>3. ASSUME NEW x \in 0..(EndOfNodes(b) - 1), x \in a..(a + Len(s) - 1) PROVE s[x - a + 1] \in Bytes
  <2>1. x - a + 1 \in 1..Len(s) BY <1>1, <1>3
  <2> QED BY <2>1 DEF Bytes
<1> QED BY <1>2, <1>3

\* Where m_cur is not null, it and the position are one address.
LEMMA AddressIsPos ==
  ASSUME NEW b, Good(b), Matches(b), b.m_cur # 0
  PROVE  Address(b, b.m_pos) = b.m_pos /\ b.m_pos \in Nat
  BY DEF Matches, Good, Arrays

\* write
LEMMA WriteGood ==
  ASSUME NEW b, Good(b), Matches(b), NEW s \in Seq(Byte)
  PROVE  Fine(write(b, s))
<1> DEFINE c == addCapacity(b, Len(s))
           a == Address(c, c.m_pos)
           mem == [x \in DOMAIN c.mem |-> IF x \in a..(a + Len(s) - 1) THEN s[x - a + 1] ELSE c.mem[x]]
           size == Larger(c.m_size, c.m_pos + Len(s))
<1>1. CASE s = <<>>
  BY <1>1 DEF write, Fine
<1>2. CASE s # <<>>
  <2>1. Len(s) \in Nat OBVIOUS
  <2>2. Good(c) /\ Matches(c) BY <2>1, AddCapacityGood
  <2>3. CASE c.m_cur = 0 \/ a + Len(s) > EndOfNodes(c)
    <3>1. write(b, s) = [c EXCEPT !.broken = TRUE] BY <1>2, <2>3 DEF write
    <3> HIDE DEF c
    <3> QED BY <2>2, <3>1, BreakGood, Zenon
  <2>4. CASE ~(c.m_cur = 0 \/ a + Len(s) > EndOfNodes(c))
    <3>1. a = c.m_pos /\ a \in Nat
      <4> HIDE DEF c
      <4> QED BY <2>2, <2>4, AddressIsPos, SMTT(20)
    <3>2. write(b, s) = Move(c, mem, c.m_pos + Len(s), size)
      BY <1>2, <2>4, <3>1, SMTT(20) DEF write, Move
    <3> HIDE DEF c, a
    <3>3. mem \in [0..(EndOfNodes(c) - 1) -> Bytes] BY <2>2, <3>1, FillGood, ZenonT(30)
    <3>4. EndOfNodes(c) \in Nat /\ c.m_size \in Nat /\ c.m_capacity = EndOfNodes(c) /\ c.m_size <= c.m_capacity
      BY <2>2 DEF Good, Arrays
    <3>5. c.m_pos + Len(s) \in Nat /\ c.m_pos + Len(s) <= EndOfNodes(c) BY <2>1, <2>4, <3>1, <3>4, SMTT(20)
    <3>6. size \in Nat /\ c.m_pos + Len(s) <= size /\ size <= c.m_capacity
      BY <3>4, <3>5 DEF Larger
    <3> HIDE DEF mem, size
    <3> QED BY <2>2, <3>2, <3>3, <3>5, <3>6, MoveGood, SMTT(20)
  <2> QED BY <2>3, <2>4
<1> QED BY <1>1, <1>2

\* position
LEMMA PositionGood ==
  ASSUME NEW b, Good(b), NEW val \in Nat, val <= b.m_capacity
  PROVE  Fine(position(b, val))
<1> DEFINE size == Larger(b.m_size, val)
<1>1. b.mem \in [0..(EndOfNodes(b) - 1) -> Bytes] /\ b.m_size \in Nat /\ b.m_size <= b.m_capacity
  BY DEF Good, Arrays
<1>2. size \in Nat /\ val <= size /\ size <= b.m_capacity BY <1>1 DEF Larger
<1>3. position(b, val) = Move(b, b.mem, val, size)
  BY Zenon DEF position, Move, Good, Arrays
<1> HIDE DEF size
<1> QED BY <1>1, <1>2, <1>3, MoveGood, SMTT(20)

\* read
LEMMA ReadGood ==
  ASSUME NEW b, Good(b), Matches(b), NEW n \in Nat, ~Throws(b, n)
  PROVE  Fine(read(b, n))
<1> DEFINE a == Address(b, b.m_pos)
<1>1. CASE b.m_cur = 0 \/ a + n > EndOfNodes(b)
  BY <1>1, BreakGood, Zenon DEF read
<1>2. CASE ~(b.m_cur = 0 \/ a + n > EndOfNodes(b)) /\ n = 0
  <2>1. b.m_pos + n = b.m_pos BY <1>2 DEF Good, Arrays
  <2>2. read(b, n) = b BY <1>2, <2>1, ZenonT(30) DEF read, Good, Arrays
  <2> QED BY <2>2 DEF Fine
<1>3. CASE ~(b.m_cur = 0 \/ a + n > EndOfNodes(b)) /\ n # 0
  <2>1. a = b.m_pos /\ a \in Nat BY <1>3, AddressIsPos
  <2>2. b.mem \in [0..(EndOfNodes(b) - 1) -> Bytes] /\ b.m_size \in Nat /\ b.m_size <= b.m_capacity
    BY DEF Good, Arrays
  <2>3. b.m_pos + n \in Nat /\ b.m_pos + n <= b.m_size
    BY <2>1, <2>2, SMTT(20) DEF Throws, getReadSize
  <2>4. read(b, n) = Move(b, b.mem, b.m_pos + n, b.m_size)
    BY <1>3, <2>1, Zenon DEF read, Move, Good, Arrays
  <2> QED BY <2>2, <2>3, <2>4, MoveGood, SMTT(20)
<1> QED BY <1>1, <1>2, <1>3, SMTT(20)

\* A new array, or one with the node cleared
IsFresh(c, base) ==
  /\ c \in Arrays /\ c.m_base_size = base /\ c.m_pos = 0 /\ c.m_size = 0 /\ c.m_capacity = base /\ c.m_cur = 1
  /\ c.nodes = 1 /\ c.mem \in [0..(base - 1) -> Bytes] /\ c.broken = FALSE

\* Such an array is in order.
LEMMA FreshGood ==
  ASSUME NEW base \in Bases, NEW c, IsFresh(c, base)
  PROVE  Fine(c)
<1>1. base \in Nat /\ base > 0 BY BasePositive
<1>2. EndOfNodes(c) = base BY <1>1 DEF IsFresh, EndOfNodes
<1>3. Good(c) BY <1>1, <1>2, SMTT(20) DEF IsFresh, Good
<1>4. Address(c, c.m_pos) = 0 BY <1>1 DEF IsFresh, Address
<1>5. Matches(c) BY <1>4 DEF IsFresh, Matches
<1> QED BY <1>3, <1>5 DEF Fine

\* The constructor makes one.
LEMMA NewFresh == ASSUME NEW base \in Bases PROVE IsFresh(NewArray(base), base)
<1> DEFINE junk == [a \in 0..(base - 1) |-> Junk]
<1>1. base \in Nat /\ base > 0 BY BasePositive
<1>2. junk \in [0..(base - 1) -> Bytes] BY DEF Bytes
<1>3. NewArray(base) = [m_base_size |-> base, m_pos |-> 0, m_size |-> 0, m_capacity |-> base, m_cur |-> 1,
                        nodes |-> 1, mem |-> junk, broken |-> FALSE]
  BY DEF NewArray
<1> HIDE DEF junk
<1>4. junk \in Memory BY <1>1, <1>2, MemoryOf, SMTT(20)
<1> QED BY <1>1, <1>2, <1>3, <1>4, SMTT(20) DEF IsFresh, Arrays

\* clear
LEMMA ClearGood ==
  ASSUME NEW b, Good(b)
  PROVE  Fine(clear(b))
<1> DEFINE base == b.m_base_size
           mem == [a \in 0..(base - 1) |-> b.mem[a]]
           new == NewArray(base)
<1>1. base \in Bases /\ base \in Nat /\ base > 0 /\ b.nodes \in Nat \ {0}
  BY BasePositive, Zenon DEF Good, Arrays
<1>2. base <= EndOfNodes(b) /\ EndOfNodes(b) \in Nat
  <2> HIDE DEF base
  <2>1. base <= b.nodes * base /\ b.nodes * base \in Nat BY <1>1, NodesHold
  <2> QED BY <2>1 DEF EndOfNodes, base
<1>3. mem \in [0..(base - 1) -> Bytes] BY <1>1, <1>2 DEF Good
<1>4. IsFresh(new, base) BY <1>1, NewFresh, SMTT(20)
<1>5. DOMAIN new.mem = 0..(base - 1) BY <1>4 DEF IsFresh
<1>6. clear(b) = [new EXCEPT !.mem = mem] BY <1>5 DEF clear
<1> HIDE DEF base, mem, new
<1>7. mem \in Memory BY <1>1, <1>3, MemoryOf, SMTT(20)
<1>8. IsFresh([new EXCEPT !.mem = mem], base) BY <1>3, <1>4, <1>7, SMTT(20) DEF IsFresh, Arrays
<1> QED BY <1>1, <1>6, <1>8, FreshGood, SMTT(20)

ArrayInv == Fine(ba) /\ left \in Seq(Byte)

\* Every call keeps the array in order.
LEMMA ArrayStep ==
  ASSUME MaxBytes \in Nat, ArrayInv, [Next]_vars
  PROVE  ArrayInv'
<1>0. Good(ba) /\ (~ba.broken => Matches(ba)) /\ left \in Seq(Byte) BY DEF ArrayInv, Fine
<1>1. CASE UNCHANGED vars
  BY <1>1 DEF vars, ArrayInv
<1>2. ASSUME NEW s \in Strings, Write(s) PROVE ArrayInv'
  BY <1>0, <1>2, WriteGood, SMTT(20) DEF Write, Usable, ArrayInv
<1>3. ASSUME NEW s \in Strings, ReadFromFile(s) PROVE ArrayInv'
  BY <1>3 DEF ReadFromFile, ArrayInv
<1>4. ASSUME NEW n \in Nat, NEW s \in Seq(Byte), StreamRead(n, s) PROVE ArrayInv'
  <2> DEFINE b == addCapacity(ba, n)
             a == Address(b, b.m_pos)
             mem == [x \in DOMAIN b.mem |-> IF x \in a..(a + Len(s) - 1) THEN s[x - a + 1] ELSE b.mem[x]]
             filled == [b EXCEPT !.mem = mem]
  <2>1. Good(b) /\ Matches(b) BY <1>0, <1>4, AddCapacityGood, SMTT(20) DEF StreamRead, Usable
  <2>2. left' = left BY <1>4 DEF StreamRead
  <2>3. CASE b.m_cur = 0 \/ a + n > EndOfNodes(b)
    <3>1. ba' = [b EXCEPT !.broken = TRUE] BY <1>4, <2>3, SMTT(20) DEF StreamRead
    <3> HIDE DEF b
    <3> QED BY <1>0, <2>1, <2>2, <3>1, BreakGood, ZenonT(30) DEF ArrayInv
  <2>4. CASE ~(b.m_cur = 0 \/ a + n > EndOfNodes(b)) /\ s = <<>>
    <3>1. ba' = b BY <1>4, <2>4, SMTT(20) DEF StreamRead
    <3> HIDE DEF b
    <3> QED BY <1>0, <2>1, <2>2, <3>1, SMTT(20) DEF ArrayInv, Fine
  <2>5. CASE ~(b.m_cur = 0 \/ a + n > EndOfNodes(b)) /\ s # <<>>
    <3>1. ba' = position(filled, b.m_pos + Len(s)) /\ Len(s) <= n BY <1>4, <2>5, SMTT(20) DEF StreamRead
    <3> HIDE DEF b
    <3>2. a = b.m_pos /\ a \in Nat BY <2>1, <2>5, AddressIsPos, SMTT(20)
    <3> HIDE DEF a
    <3>3. mem \in [0..(EndOfNodes(b) - 1) -> Bytes] BY <2>1, <3>2, FillGood, SMTT(20)
    <3>4. EndOfNodes(b) \in Nat /\ b.m_size \in Nat /\ b.m_capacity = EndOfNodes(b) /\ b.m_size <= b.m_capacity
      BY <2>1 DEF Good, Arrays
    <3> HIDE DEF mem
    <3>5. mem \in Memory BY <3>3, <3>4, MemoryOf, SMTT(20)
    <3>6. /\ filled.mem = mem /\ filled.m_pos = b.m_pos /\ filled.m_size = b.m_size /\ filled.m_cur = b.m_cur
          /\ filled.nodes = b.nodes /\ filled.m_base_size = b.m_base_size /\ filled.m_capacity = b.m_capacity
          /\ filled \in Arrays
      BY <2>1, <3>5, ZenonT(30) DEF Good, Arrays
    <3> HIDE DEF filled
    <3>7. Good(filled) BY <2>1, <3>3, <3>6, SMTT(20) DEF Good, EndOfNodes
    <3>8. b.m_pos + Len(s) \in Nat /\ b.m_pos + Len(s) <= filled.m_capacity
      BY <2>5, <3>1, <3>2, <3>4, <3>6, SMTT(20)
    <3> QED BY <1>0, <2>2, <3>1, <3>7, <3>8, PositionGood, SMTT(20) DEF ArrayInv
  <2> QED BY <2>3, <2>4, <2>5, SMTT(20)
<1>5. ASSUME NEW n \in Nat, Read(n) PROVE ArrayInv'
  BY <1>0, <1>5, ReadGood, SMTT(20) DEF Read, Usable, ArrayInv
<1>6. ASSUME NEW n \in Nat, Position(n) PROVE ArrayInv'
  <2>1. ba.m_capacity \in Nat BY <1>0 DEF Good, Arrays
  <2> QED BY <1>0, <1>6, <2>1, PositionGood, SMTT(20) DEF Position, ArrayInv
<1>7. ASSUME NEW length \in Nat, NEW n \in Nat, StreamWrite(length, n) PROVE ArrayInv'
  <2>1. ba.m_pos \in Nat /\ ba.m_size \in Nat /\ ba.m_capacity \in Nat /\ ba.m_size <= ba.m_capacity
    BY <1>0 DEF Good, Arrays
  <2>2. n <= ba.m_size - ba.m_pos
    BY <1>7, <2>1, SMTT(20) DEF StreamWrite, Smaller, getReadSize
  <2>3. ba.m_pos + n \in Nat /\ ba.m_pos + n <= ba.m_capacity BY <2>1, <2>2, SMTT(20)
  <2> QED BY <1>0, <1>7, <2>3, PositionGood, SMTT(20) DEF StreamWrite, ArrayInv
<1>8. CASE to_string
  BY <1>8 DEF to_string, ArrayInv
<1>9. CASE Clear
  BY <1>0, <1>9, ClearGood, SMTT(20) DEF Clear, ArrayInv
<1>10. CASE WriteToFile
  <2>1. PICK x \in BOOLEAN : ba' = [ba EXCEPT !.broken = x] BY <1>10, ZenonT(30) DEF WriteToFile
  <2>2. Matches(ba) /\ left' = left BY <1>0, <1>10, SMTT(20) DEF WriteToFile, Usable
  <2> QED BY <1>0, <2>1, <2>2, BreakGood, SMTT(20) DEF ArrayInv
<1>11. CASE ReadPiece
  <2> DEFINE n == Smaller(ba.m_base_size, Len(left))
  <2>1. n \in Nat /\ n <= Len(left)
    <3>1. ba.m_base_size \in Nat BY <1>0, BasePositive, Zenon DEF Good, Arrays
    <3>2. Len(left) \in Nat BY <1>0
    <3> QED BY <3>1, <3>2 DEF Smaller
  <2>2. SubSeq(left, 1, n) \in Seq(Byte) /\ SubSeq(left, n + 1, Len(left)) \in Seq(Byte)
    BY <1>0, <2>1, SMTT(20)
  <2>3. ba' = write(ba, SubSeq(left, 1, n)) /\ left' = SubSeq(left, n + 1, Len(left)) /\ ~ba.broken
    BY <1>11 DEF ReadPiece
  <2> HIDE DEF n
  <2> QED BY <1>0, <2>2, <2>3, WriteGood, ZenonT(30) DEF ArrayInv
<1>12. 0..MaxBytes \subseteq Nat /\ 1..MaxBytes \subseteq Nat /\ <<>> \in Seq(Byte) OBVIOUS
<1>13. CASE \E s \in Strings : Write(s) \/ ReadFromFile(s) \/ \E n \in 1..MaxBytes : StreamRead(n, s)
  BY <1>2, <1>3, <1>4, <1>12, <1>13, SMTT(20)
<1>14. CASE \E n \in 0..MaxBytes : Read(n) \/ Position(n) \/ StreamRead(n, <<>>)
  BY <1>4, <1>5, <1>6, <1>12, <1>14, ZenonT(30)
<1>15. CASE \E length, n \in 1..MaxBytes : StreamWrite(length, n)
  BY <1>7, <1>12, <1>15, SMTT(20)
<1> QED BY <1>1, <1>8, <1>9, <1>10, <1>11, <1>13, <1>14, <1>15, SMTT(20) DEF Next

\* m_pos, m_size and m_capacity stay in order, and m_cur and m_pos name the same
\* place, for nodes of any size, until a call has walked off the list.
THEOREM ArrayConsistent ==
  ASSUME MaxBytes \in Nat
  PROVE  Spec => [](TypeOK /\ CurMatchesPos)
<1>1. ASSUME Init PROVE ArrayInv
  <2>1. PICK base \in Bases : ba = NewArray(base) BY <1>1 DEF Init
  <2>2. Fine(ba) BY <2>1, NewFresh, FreshGood, SMTT(20)
  <2> QED BY <1>1, <2>2, SMTT(20) DEF Init, ArrayInv
<1>2. ArrayInv /\ [Next]_vars => ArrayInv' BY ArrayStep, SMTT(20)
<1>3. ASSUME ArrayInv PROVE TypeOK /\ CurMatchesPos
  <2>1. Good(ba) /\ (~ba.broken => Matches(ba)) BY <1>3 DEF ArrayInv, Fine
  <2> QED BY <2>1 DEF Good, Arrays, Matches, TypeOK, CurMatchesPos, Bytes
<1> QED BY <1>1, <1>2, <1>3, PTL DEF Spec
=============================================================================
