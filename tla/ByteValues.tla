----------------------------- MODULE ByteValues -----------------------------
(***************************************************************************)
(* Values written to a ByteArray and read back: the write_ and read_       *)
(* functions on top of write(buf, size) and read(buf, size), in the order  *)
(* every caller uses them: values are written, the position is set to 0    *)
(* and values of the same types are read.                                  *)
(***************************************************************************)
EXTENDS ByteArray, ByteCodec

CONSTANTS Values,     \* the values, as records [type, val]
          MaxValues   \* values in one array

VARIABLES swap,     \* m_endian is not the machine's byte order
          wrote,    \* the values written
          reading,  \* the position was set back to 0
          nread,    \* values read since
          got       \* the last of them
valueVars == <<ba, ret, left, swap, wrote, reading, nread, got>>

\* the arguments of the calls of write that one write_ function makes
write_args(x) ==
  CASE x.type = "byte"   -> <<write_fixed(x.val, 1, FALSE)>>
    [] x.type = "wide"   -> <<write_fixed(x.val, Wide, swap)>>
    [] x.type = "uint"   -> <<write_uint(x.val)>>
    [] x.type = "int"    -> <<write_uint(EncodeZigzap(x.val))>>
    [] x.type = "string_f"    -> <<write_fixed(Len(x.val), Wide, swap), x.val>>
    [] x.type = "string_vint" -> <<write_uint(Len(x.val)), x.val>>

writeAll(b, args) == FoldLeft(LAMBDA c, s : IF c.broken THEN c ELSE write(c, s), b, args)

\* a read of n bytes: the array afterwards, and the bytes or an exception
Take(b, n) ==
  IF Throws(b, n) THEN [ba |-> b, ret |-> Thrown]
  ELSE [ba |-> read(b, n), ret |-> Returned(IF b.m_cur = 0 THEN <<>> ELSE readBytes(b, n))]
Rest(b) == Slice(b, b.m_pos, getReadSize(b))

\* the length read first, then as many bytes
TakeString(b, first) ==
  IF ~first.ret.ok \/ first.ba.broken THEN first
  ELSE Take(first.ba, read_fixed(first.ret.bytes, swap))

\* what a read_ function leaves and returns; read_string_vint takes its length
\* with read_fuint64, not with the read_uint64 that fits write_string_vint
read_value(b, type) ==
  CASE type = "byte" -> Take(b, 1)
    [] type = "wide" -> Take(b, Wide)
    [] type \in {"uint", "int"} -> Take(b, TakenBy(Rest(b)))
    [] type \in {"string_f", "string_vint"} -> TakeString(b, Take(b, Wide))
decode(type, s) ==
  CASE type = "byte" -> read_fixed(s, FALSE)
    [] type = "wide" -> read_fixed(s, swap)
    [] type = "uint" -> read_uint(s)
    [] type = "int"  -> DecodeZigzap(read_uint(s))
    [] OTHER         -> s

InitValues ==
  /\ Init /\ swap \in BOOLEAN
  /\ wrote = <<>> /\ reading = FALSE /\ nread = 0 /\ got = Thrown

WriteValue(x) ==
  /\ Usable /\ ~reading /\ Len(wrote) < MaxValues
  /\ ba' = writeAll(ba, write_args(x)) /\ wrote' = Append(wrote, x)
  /\ UNCHANGED <<ret, left, swap, reading, nread, got>>

Rewind ==
  /\ Usable /\ ~reading
  /\ ba' = position(ba, 0) /\ reading' = TRUE
  /\ UNCHANGED <<ret, left, swap, wrote, nread, got>>

ReadValue ==
  /\ Usable /\ reading /\ nread < Len(wrote) /\ (nread > 0 => got.ok)
  /\ LET type == wrote[nread + 1].type
         r == read_value(ba, type)
     IN /\ ba' = r.ba
        /\ got' = IF r.ret.ok /\ ~r.ba.broken THEN [ok |-> TRUE, val |-> decode(type, r.ret.bytes)]
                  ELSE Thrown
  /\ nread' = nread + 1
  /\ UNCHANGED <<ret, left, swap, wrote, reading>>

NextValues == (\E x \in Values : WriteValue(x)) \/ Rewind \/ ReadValue

----------------------------------------------------------------------------
(* Properties *)

ReadBack(i) == got.ok /\ got.val = wrote[i].val
NoVint == \A i \in 1..nread : wrote[i].type # "string_vint"

\* Every value of every type but string_vint is read back as it was written,
\* in sequence, for each node size and byte order: the groups that do not
\* divide the integer, the most negative integer, a length of 0.  The one thing
\* that stops a reader is an empty string at the end of the last node, where
\* read(buf, 0) looks into a node that is not there.
ReadsBack ==
  reading /\ nread > 0 /\ NoVint =>
    IF ba.broken THEN wrote[nread].type = "string_f" /\ wrote[nread].val = <<>> /\ nread = Len(wrote)
    ELSE ReadBack(nread)
=============================================================================
