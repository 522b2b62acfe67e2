-------------------------- MODULE ResponseMachine ---------------------------
(***************************************************************************)
(* The automaton of httpclient_parser_execute                              *)
(* (src/http/httpclient_parser.rl.cpp), for HTTP responses and the header  *)
(* lines of chunks, in the form of RequestMachine.  Connection,            *)
(* Transfer-Encoding and Content-Length are recognised letter by letter,   *)
(* in either case, beside the general form of a header: "c" is C or c,     *)
(* while "H" "h", "T" "t" and "P" are told apart by the version.  "!" is   *)
(* any other byte of a token, "0" a digit, "HT" a tab (or byte 11, 12).    *)
(***************************************************************************)
EXTENDS Integers, Sequences, TLC

Hex == {"0", "a", "b", "c", "d", "e", "f"}
Letters == {"a", "b", "c", "d", "e", "f", "g", "H", "h", "i", "k", "l", "n", "o",
            "P", "r", "s", "T", "t", "u"}
Token == Letters \cup {"!", "-", ".", "0"}
Bytes == Token \cup {"hi", "HT", "LF", "CR", "SP", "/", ":", ";", "="}
Blank == {"HT", "SP"}
Space == Blank \cup {"LF", "CR"}
AnyCase(b) == IF b = "t" THEN {"T", "t"} ELSE IF b = "h" THEN {"H", "h"} ELSE {b}

To(bytes, next) == <<bytes, <<>>, next>>
Do(bytes, acts, next) == <<bytes, acts, next>>
\* states s, s+1, ... that spell a word; rest(w) are the rows for other bytes
Spell(s, word, rest(_)) ==
  [x \in s..(s + Len(word) - 1) |->
     LET w == AnyCase(word[x - s + 1]) IN {To(w, x + 1)} \cup rest(w)]
\* the end of the line: LF, or CR in state cr and then LF
Eol(acts, lf, cr) == {Do({"LF"}, acts, lf), Do({"CR"}, acts, cr)}

----------------------------------------------------------------------------
(* Chunk headers *)

ChunkStart == 1 :> {Do(Hex, <<"mark">>, 2), Do({"H"}, <<"mark">>, 8)}
\* chunk_size is the action of the same name, last_chunk included
ChunkSize ==
  2 :> {To(Hex, 2), Do({"LF"}, <<"chunk_size", "done">>, 120),
        Do({"CR"}, <<"chunk_size">>, 3), Do({";"}, <<"chunk_size">>, 4)}
LastLine == 3 :> {Do({"LF"}, <<"done">>, 120)}
ChunkExtName ==
  (4 :> {Do(Token, <<"start_field">>, 5)})
  @@ (5 :> LET end == <<"write_field", "mark", "write_value">> IN
           {To(Token, 5), Do({"="}, <<"write_field", "mark">>, 6), Do({"LF"}, end \o <<"done">>, 120),
            Do({"CR"}, end, 3), Do({";"}, end, 4)})
ChunkExtValue ==
  (6 :> {Do(Token, <<"mark">>, 7)})
  @@ (7 :> {To(Token, 7), Do({"LF"}, <<"write_value", "done">>, 120),
            Do({"CR"}, <<"write_value">>, 3), Do({";"}, <<"write_value">>, 4)})

----------------------------------------------------------------------------
(* Status line *)

\* HTTP/digits.digits
Version ==
  (8 :> {To({"T"}, 9)}) @@ (9 :> {To({"T"}, 10)}) @@ (10 :> {To({"P"}, 11)})
  @@ (11 :> {To({"/"}, 12)}) @@ (12 :> {To({"0"}, 13)})
  @@ (13 :> {To({"0"}, 13), To({"."}, 14)}) @@ (14 :> {To({"0"}, 15)})
  @@ (15 :> {To({"0"}, 15), Do({"SP"}, <<"http_version">>, 16)})
StatusCode ==
  (16 :> {Do({"0"}, <<"mark">>, 17)}) @@ (17 :> {To({"0"}, 17), Do({"SP"}, <<"status_code">>, 18)})
ReasonPhrase ==
  (18 :> {Do(Bytes \ {"LF"}, <<"mark">>, 19)})
  @@ (19 :> {To(Bytes \ {"LF", "CR"}, 19)} \cup Eol(<<"reason_phrase">>, 20, 24))

----------------------------------------------------------------------------
(* Headers *)

\* the start of a header line; pre runs first, c and digit are the states
\* after a C (with their actions) and after a digit
Line(pre, cRow, others) ==
  {Do(Token \ (others \cup {"c", "T", "t"}), pre \o <<"start_field">>, 21), cRow,
   Do({"T", "t"}, pre \o <<"start_field">>, 44)}
HeaderLine ==
  20 :> Line(<<>>, Do({"c"}, <<"start_field">>, 25), {})
        \cup {Do({"LF"}, <<"done">>, 120), To({"CR"}, 3)}
\* any header
FieldName == 21 :> {To(Token, 21), Do({":"}, <<"write_field">>, 22)}
FieldValue ==
  (22 :> {Do(Bytes \ Space, <<"mark">>, 23), Do(Blank, <<"mark">>, 22)}
         \cup Eol(<<"mark", "write_value">>, 20, 24))
  @@ (23 :> {To(Bytes \ {"LF", "CR"}, 23)} \cup Eol(<<"write_value">>, 20, 24))
  @@ (24 :> {To({"LF"}, 20)})

\* in the middle of a name, and of a value, that stops matching
InName(w) == {To(Token \ w, 21), Do({":"}, <<"write_field">>, 22)}
InValue(w) == {To(Bytes \ (w \cup {"LF", "CR"}), 23)} \cup Eol(<<"write_value">>, 20, 24)
Nothing(w) == {}
\* the ":" of a name that matched
Matched(s, value) == s :> {To(Token, 21), Do({":"}, <<"write_field">>, value)}

----------------------------------------------------------------------------
(* Connection: close *)

ConnectionC ==
  Spell(25, <<"o", "n">>, InName)
  @@ (27 :> {To({"n"}, 28), To({"T", "t"}, 101)} \cup InName({"n", "T", "t"}))
  @@ (28 :> {To({"e"}, 29)} \cup InName({"e"}))
Connection ==
  Spell(29, <<"c", "t", "i", "o", "n">>, InName) @@ Matched(34, 35)
\* the value may stop at once, and "close" be looked for on later lines
ConnectionValue ==
  (35 :> {Do(Bytes \ (Space \cup {"c"}), <<"mark">>, 23), Do(Blank, <<"mark">>, 35),
          Do({"c"}, <<"mark">>, 96)} \cup Eol(<<"mark", "write_value">>, 36, 95))
  @@ (36 :> Line(<<>>, Do({"c"}, <<"start_field">>, 90), {})
            \cup {To(Blank, 37), Do({"LF"}, <<"done">>, 122), To({"CR"}, 89)})
  @@ (37 :> {To(Space, 37), To({"c"}, 38)})
  @@ Spell(38, <<"l", "o", "s", "e">>, Nothing) @@ (42 :> Eol(<<>>, 43, 88))
\* write_connection_close runs with the byte after the line's end
Closed ==
  43 :> Line(<<"connection_close">>, Do({"c"}, <<"connection_close", "start_field">>, 25), {})
        \cup {Do({"LF"}, <<"connection_close", "done">>, 120), Do({"CR"}, <<"connection_close">>, 3)}
CloseCr ==
  (88 :> {To({"LF"}, 43)}) @@ (122 :> {To(Space, 37), To({"c"}, 38)})
  @@ (89 :> {To(Blank \cup {"CR"}, 37), Do({"LF"}, <<"done">>, 122), To({"c"}, 38)})
\* a header line that starts with C after an empty Connection value
CloseName ==
  (90 :> {To({"l"}, 91), To({"o"}, 26)} \cup InName({"l", "o"}))
  @@ Spell(91, <<"o", "s", "e">>, InName) @@ (94 :> Eol(<<>>, 43, 88) \cup InName({}))
CloseValue ==
  (95 :> {To(Blank \cup {"CR"}, 37), To({"LF"}, 36), To({"c"}, 38)})
  @@ Spell(96, <<"l", "o", "s", "e">>, InValue)
  @@ (100 :> {To(Bytes \ {"LF", "CR"}, 23)} \cup Eol(<<"write_value">>, 43, 88))

----------------------------------------------------------------------------
(* Transfer-Encoding: chunked *)

Transfer == Spell(44, <<"r", "a", "n", "s", "f", "e">>, InName)
TransferEncoding ==
  Spell(50, <<"r", "-", "e", "n", "c">>, InName)
Encoding ==
  Spell(55, <<"o", "d", "i", "n", "g">>, InName) @@ Matched(60, 61)
EncodingValue ==
  (61 :> {Do(Bytes \ (Space \cup {"c"}), <<"mark">>, 23), Do(Blank, <<"mark">>, 61),
          Do({"c"}, <<"mark">>, 81)} \cup Eol(<<"mark", "write_value">>, 62, 80))
  @@ (62 :> Line(<<>>, Do({"c"}, <<"mark", "start_field">>, 73), {})
            \cup {To(Blank, 63), Do({"LF"}, <<"done">>, 121), To({"CR"}, 72)})
  @@ (63 :> {To(Space, 63), Do({"c"}, <<"mark">>, 64)})
\* "chunked" on a line of its own
Chunked ==
  Spell(64, <<"h", "u", "n", "k", "e", "d">>, Nothing)
  @@ (70 :> {Do({"LF"}, <<"write_value", "trans_chunked">>, 20), Do({"CR"}, <<"write_value">>, 71)})
  @@ (71 :> {Do({"LF"}, <<"trans_chunked">>, 20)})
  @@ (72 :> {To(Blank \cup {"CR"}, 63), Do({"LF"}, <<"done">>, 121), Do({"c"}, <<"mark">>, 64)})
  @@ (121 :> {To(Space, 63), Do({"c"}, <<"mark">>, 64)})
ChunkedName ==
  (73 :> {To({"H", "h"}, 74), To({"o"}, 26)} \cup InName({"H", "h", "o"}))
  @@ Spell(74, <<"u", "n", "k", "e", "d">>, InName)
  @@ (79 :> {Do({"LF"}, <<"write_value", "trans_chunked">>, 20), Do({"CR"}, <<"write_value">>, 71)} \cup InName({}))
ChunkedValue ==
  (80 :> {To(Blank \cup {"CR"}, 63), To({"LF"}, 62), Do({"c"}, <<"mark">>, 64)})
  @@ Spell(81, <<"h", "u", "n", "k", "e", "d">>, InValue)
  @@ (87 :> {To(Bytes \ {"LF", "CR"}, 23), Do({"LF"}, <<"write_value", "trans_chunked">>, 20),
             Do({"CR"}, <<"write_value">>, 71)})

----------------------------------------------------------------------------
(* Content-Length: digits *)

Content == Spell(101, <<"e", "n", "t", "-", "l">>, InName)
Length == Spell(106, <<"e", "n", "g", "t", "h">>, InName) @@ Matched(111, 112)
LengthValue ==
  (112 :> {Do(Bytes \ (Space \cup {"0"}), <<"mark">>, 23), Do(Blank, <<"mark">>, 112),
           Do({"0"}, <<"mark">>, 119)} \cup Eol(<<"mark", "write_value">>, 113, 118))
  @@ (113 :> Line(<<>>, Do({"c"}, <<"start_field">>, 25), {"0"})
             \cup {Do({"0"}, <<"mark", "start_field">>, 117), To(Blank, 114),
                   Do({"LF"}, <<"done">>, 123), To({"CR"}, 116)})
  @@ (114 :> {To(Space, 114), Do({"0"}, <<"mark">>, 115)})
LengthDigits ==
  LET end == Eol(<<"content_len", "write_value">>, 20, 24) IN
  (115 :> {To({"0"}, 115)} \cup end)
  @@ (116 :> {To(Blank \cup {"CR"}, 114), Do({"LF"}, <<"done">>, 123), Do({"0"}, <<"mark">>, 115)})
  @@ (117 :> {To({"0"}, 117)} \cup end \cup InName({"0"}))
  @@ (118 :> {To(Blank \cup {"CR"}, 114), To({"LF"}, 113), Do({"0"}, <<"mark">>, 115)})
  @@ (119 :> {To({"0"}, 119), To(Bytes \ {"LF", "CR", "0"}, 23)} \cup end)
  @@ (123 :> {To(Space, 114), Do({"0"}, <<"mark">>, 115)}) @@ (120 :> {})

----------------------------------------------------------------------------
Rows ==
  ChunkStart @@ ChunkSize @@ LastLine @@ ChunkExtName @@ ChunkExtValue @@ Version
  @@ StatusCode @@ ReasonPhrase @@ HeaderLine @@ FieldName @@ FieldValue
  @@ ConnectionC @@ Connection @@ ConnectionValue @@ Closed @@ CloseCr @@ CloseName
  @@ CloseValue @@ Transfer @@ TransferEncoding @@ Encoding @@ EncodingValue
  @@ Chunked @@ ChunkedName @@ ChunkedValue @@ Content @@ Length @@ LengthValue
  @@ LengthDigits

\* the row the code takes in state cs on byte b
Step(cs, b) ==
  LET matching == {r \in Rows[cs] : b \in r[1]}
  IN IF matching = {} THEN To({b}, 0) ELSE CHOOSE r \in matching : TRUE
=============================================================================
