--------------------------- MODULE RequestMachine ---------------------------
(***************************************************************************)
(* The automaton of http_parser_execute (src/http/http11_parser.rl.cpp):   *)
(* the goto-driven code that ragel generated for HTTP requests.  States    *)
(* keep the numbers of the code's `case' labels.  A region maps each of    *)
(* its states to a set of rows <<bytes, actions, next state>>; a byte in   *)
(* no row goes to st0, the error state.  Bytes are the classes the code    *)
(* tells apart, named by a member: "G" is an upper-case letter that is     *)
(* neither a hex digit nor in "HTTP", "3" is one of 3 4 6 7 8 9, "!" one   *)
(* of ! $ & ' * _ ~, "(" one of ( ) , ; =, and "^B" to "^F" are the bytes  *)
(* 2 to 6, for which ragel took the repetition counts of the IPv6 grammar. *)
(***************************************************************************)
EXTENDS Integers, Sequences, TLC

Digit == {"0", "1", "2", "3", "5"}
AF == {"A", "a"}
Hex == Digit \cup AF
Upper == {"A", "G", "H", "P", "T"}
Alpha == Upper \cup {"a", "g", "v"}
\* { } and ^, which count as delimiters of a URI only when uri_relaxed is set
MoreDelims == {"{", "}", "^"}
\* what reg_name, pchar and query may hold; "more" stands for MoreDelims
Reg == Alpha \cup Digit \cup {"-", ".", "!", "(", "+", "more"}
PChar == Reg \cup {":", "@"}
QChar == PChar \cup {"/", "?"}
\* The token of a header name: HTTP_CTL was written "0 - 31", a difference,
\* so of the control bytes only NUL and DEL are excluded.
Token == Alpha \cup Digit \cup {"-", ".", "!", "+", "#", "%", "^", "ctl", "VT",
          "^B", "^C", "^D", "^E", "^F"}
Bytes == Token \cup (QChar \ {"more"}) \cup MoreDelims \cup
         {"NUL", "HT", "LF", "CR", "SP", "<", ">", "[", "]", "hi", "DEL"}

To(bytes, next) == <<bytes, <<>>, next>>
Do(bytes, acts, next) == <<bytes, acts, next>>
\* a chain of states s, s+1, ... that spell a word
Spell(s, word) == [x \in s..(s + Len(word) - 1) |-> {To(word[x - s + 1], x + 1)}]
\* %XX and back
Pct(s, back) == Spell(s, <<Hex>>) @@ (s + 1 :> {To(Hex, back)})

----------------------------------------------------------------------------
(* Request line *)

Start == 1 :> {Do(Upper \cup Digit, <<"mark">>, 2),
               Do({"<"}, <<"mark">>, 194), Do({"@"}, <<"mark">>, 198)}

\* one to twenty letters or digits
Method ==
  [s \in {2} \cup 175..193 |->
     {Do({"SP"}, <<"request_method">>, 3)} \cup
     (IF s = 193 THEN {} ELSE {To(Upper \cup Digit, IF s = 2 THEN 175 ELSE s + 1)})]

\* a path may end at a space, at "#" or at "?"; pre runs first
PathEnds(pre) ==
  {Do({"SP"}, pre \o <<"request_path", "request_uri">>, 4),
   Do({"#"}, pre \o <<"request_path", "request_uri">>, 20),
   Do({"?"}, pre \o <<"request_path">>, 29)}

UriStart ==
  3 :> PathEnds(<<"mark">>) \cup
       {Do(Alpha, <<"mark">>, 173), Do((Reg \ Alpha) \cup {"@"}, <<"mark">>, 19),
        Do({"%"}, <<"mark">>, 24), Do({"/"}, <<"mark">>, 33)}

\* letters that may turn out to be a scheme; after its ":" the mark is moved,
\* so path and uri of an absolute URI leave the scheme out
Scheme ==
  (173 :> PathEnds(<<>>) \cup
          {To(Alpha \cup Digit \cup {"+", "-", "."}, 173),
           To({"!", "(", "more", "@"}, 19), To({"%"}, 24), To({"/"}, 26), To({":"}, 174)})
  @@ (174 :> PathEnds(<<"mark">>) \cup
             {Do(PChar, <<"mark">>, 26), Do({"%"}, <<"mark">>, 27), Do({"/"}, <<"mark">>, 33)})

\* first segment of a path without a scheme
FirstSegment ==
  (19 :> PathEnds(<<>>) \cup
         {To(Reg \cup {"@"}, 19), To({"%"}, 24), To({"/"}, 26)}) @@ Pct(24, 19)

Segments ==
  (26 :> PathEnds(<<>>) \cup {To(PChar \cup {"/"}, 26), To({"%"}, 27)}) @@ Pct(27, 26)

Fragment ==
  (20 :> {Do({"SP"}, <<"mark", "fragment">>, 4), Do(QChar, <<"mark">>, 21), Do({"%"}, <<"mark">>, 22)})
  @@ (21 :> {Do({"SP"}, <<"fragment">>, 4), To(QChar, 21), To({"%"}, 22)}) @@ Pct(22, 21)

\* the query ends at a space or at "#"
QueryEnds(pre) ==
  {Do({"SP"}, pre \o <<"query_string", "request_uri">>, 4),
   Do({"#"}, pre \o <<"query_string", "request_uri">>, 20)}
QueryStart ==
  29 :> QueryEnds(<<"start_query">>) \cup
        {Do(QChar, <<"start_query">>, 30), Do({"%"}, <<"start_query">>, 31)}
Query ==
  (30 :> QueryEnds(<<>>) \cup {To(QChar, 30), To({"%"}, 31)}) @@ Pct(31, 30)

\* "HTTP/1." then 0 or 1
Version ==
  (4 :> {Do({"H"}, <<"mark">>, 5)})
  @@ Spell(5, <<{"T"}, {"T"}, {"P"}, {"/"}, {"1"}, {"."}, {"0", "1"}>>)
  @@ (12 :> {Do({"LF"}, <<"http_version">>, 13), Do({"CR"}, <<"http_version">>, 17)})

----------------------------------------------------------------------------
(* Headers *)

\* Mutant: the length of the name is not stored.
FieldNameUnwritten ==
  (13 :> {Do(Token, <<"start_field">>, 14), Do({"LF"}, <<"start_field", "done">>, 348),
          Do({"CR"}, <<"start_field">>, 18)})
  @@ (14 :> {To(Token \cup {"LF", "CR"}, 14), To({":"}, 15)})
FieldName ==
  (13 :> {Do(Token, <<"start_field">>, 14), Do({"LF"}, <<"start_field", "done">>, 348),
          Do({"CR"}, <<"start_field">>, 18)})
  @@ (14 :> {To(Token \cup {"LF", "CR"}, 14), Do({":"}, <<"write_field">>, 15)})

\* whatever ends a value: LF, or CR and then LF
FieldValue ==
  (15 :> {Do(Bytes \ {"NUL", "HT", "LF", "CR", "SP", "DEL"}, <<"mark">>, 16),
          Do({"HT", "SP"}, <<"mark">>, 15),
          Do({"LF"}, <<"mark", "write_value">>, 13), Do({"CR"}, <<"mark", "write_value">>, 17)})
  @@ (16 :> {To(Bytes \ {"NUL", "LF", "CR", "DEL"}, 16),
             Do({"LF"}, <<"write_value">>, 13), Do({"CR"}, <<"write_value">>, 17)})
  @@ (17 :> {To({"LF"}, 13)})

\* the CR of the empty line, which a header name may also begin with
LastLine ==
  18 :> {To(Token \cup {"CR"}, 14), Do({"LF"}, <<"done">>, 348), Do({":"}, <<"write_field">>, 15)}

\* after the LF of the empty line, should more bytes be parsed: the line is
\* still the beginning of a header name
Final == 348 :> {To(Token \cup {"LF", "CR"}, 14), Do({":"}, <<"write_field">>, 15)}

----------------------------------------------------------------------------
(* //authority *)

Slashes ==
  (33 :> PathEnds(<<>>) \cup {To(PChar, 26), To({"%"}, 27), To({"/"}, 34)})
  @@ (34 :> PathEnds(<<>>) \cup {To(Reg, 35), To({"%"}, 36), To({"/"}, 26), To({":"}, 38),
                                 To({"@"}, 42), To({"["}, 47)})
UserOrHost ==
  (35 :> PathEnds(<<>>) \cup {To(Reg, 35), To({"%"}, 36), To({"/"}, 26), To({":"}, 38), To({"@"}, 42)})
  @@ Pct(36, 35)
UserOrPort ==
  (38 :> PathEnds(<<>>) \cup {To(Digit, 38), To((Reg \ Digit) \cup {":"}, 39), To({"%"}, 40),
                              To({"/"}, 26), To({"@"}, 42)})
  @@ (39 :> {To(Reg \cup {":"}, 39), To({"%"}, 40), To({"@"}, 42)}) @@ Pct(40, 39)
Host ==
  [s \in {42, 43} |-> PathEnds(<<>>) \cup
     {To(Reg, 43), To({"%"}, 44), To({"/"}, 26), To({":"}, 46)} \cup
     (IF s = 42 THEN {To({"["}, 47)} ELSE {})] @@ Pct(44, 43)
Port == 46 :> PathEnds(<<>>) \cup {To(Digit, 46), To({"/"}, 26)}
AfterLiteral == 61 :> PathEnds(<<>>) \cup {To({"/"}, 26), To({":"}, 46)}

----------------------------------------------------------------------------
(* [IP literal] *)

LiteralStart ==
  47 :> {To(Hex, 91), To({"^F"}, 48), To({":"}, 167), To({"v"}, 169)}

\* "v" hex+ "." any+ "]"
IPvFuture ==
  (169 :> {To(Hex, 170)}) @@ (170 :> {To(Hex, 170), To({"."}, 171)})
  @@ (171 :> {To(Reg \cup {":"}, 172)}) @@ (172 :> {To(Reg \cup {":"}, 172), To({"]"}, 61)})

\* dec_octet; its ranges were written as differences, so it is one digit,
\* "1" and up to two digits, "20" and a digit, "250", or a lone "2"
Octet(first, last, one, two, sep, next) ==
  (first :> {To({"0", "3", "5"}, last), To({"1"}, one), To({"2"}, two)})
  @@ (last :> {To({sep}, next)})
  @@ (one :> {To({sep}, next), To(Digit, one + 1)})
  @@ (one + 1 :> {To({sep}, next), To(Digit, last)})
  @@ (two :> {To({sep}, next), To({"0"}, two + 1), To({"5"}, two + 2)})
  @@ (two + 1 :> {To(Digit, last)}) @@ (two + 2 :> {To({"0"}, last)})
Octets ==
  Octet(55, 56, 72, 74, ".", 57) @@ Octet(57, 58, 67, 69, ".", 59)
  @@ Octet(59, 60, 62, 64, "]", 61)

\* where a group may be a hex number or the first octet of an IPv4 address:
\* d after any other digit, h, h+1, h+2 once it can only be hex, one.. after
\* "1", one+3.. after "2", one+6 after a letter; ends are the rows of them all
Ls32(d, h, one, ends) ==
  LET dot == To({"."}, 55)
      rows == (d :> {dot, To(Hex, h)})
        @@ (h :> {To(Hex, h + 1)}) @@ (h + 1 :> {To(Hex, h + 2)}) @@ (h + 2 :> {})
        @@ (one :> {dot, To(Digit, one + 1), To(AF, h)})
        @@ (one + 1 :> {dot, To(Digit, one + 2), To(AF, h + 1)})
        @@ (one + 2 :> {dot, To(Hex, h + 2)})
        @@ (one + 3 :> {dot, To({"0"}, one + 4), To({"5"}, one + 5), To(Hex \ {"0", "5"}, h)})
        @@ (one + 4 :> {To(Digit, one + 2), To(AF, h + 1)})
        @@ (one + 5 :> {To({"0"}, one + 2), To(Hex \ {"0"}, h + 1)})
        @@ (one + 6 :> {To(Hex, h)})
  IN [s \in DOMAIN rows |-> rows[s] \cup ends]
\* the rows into such a group
Group32(d, one) == {To({"0", "3", "5"}, d), To({"1"}, one), To({"2"}, one + 3), To(AF, one + 6)}

\* one to four hex digits and ":"; dbl is where "::" leads, next where a digit does
H16(s, dbl, next) ==
  [x \in s..(s + 3) |-> {To({":"}, s + 4)} \cup (IF x = s + 3 THEN {} ELSE {To(Hex, x + 1)})]
  @@ (s + 4 :> {To(Hex, next), To({":"}, dbl)})

\* the group before the last 32 bits, and those 32 bits
LastGroup ==
  (48 :> {To(Hex, 49)})
  @@ [x \in 49..52 |-> {To({":"}, 53)} \cup (IF x = 52 THEN {} ELSE {To(Hex, x + 1)})]
  @@ (53 :> Group32(54, 84))
Last32 == Ls32(54, 77, 84, {To({":"}, 80)})
Last16 ==
  (80 :> {To(Hex, 81)}) @@ [x \in 81..83 |-> {To(Hex, IF x = 83 THEN 60 ELSE x + 1), To({"]"}, 61)}]
\* groups before "::"
Groups ==
  H16(91, 166, 96) @@ H16(96, 165, 101) @@ H16(101, 164, 106) @@ H16(106, 163, 111)
MoreGroups == H16(111, 151, 116) @@ H16(116, 150, 121) @@ H16(121, 126, 121)
\* after "::", by how many groups came before it
AfterDouble ==
  (126 :> Group32(127, 143) \cup {To({"^B", "^C"}, 48), To({"]"}, 61)})
  @@ (150 :> Group32(127, 143) \cup {To({"^B", "^C"}, 48)})
FewBeforeDouble ==
  (151 :> Group32(152, 156) \cup {To({"^B", "^C"}, 48)})
  @@ (163 :> {To({"^B", "^C"}, 48), To(Hex, 49)}) @@ (164 :> {To({"^B", "^C"}, 48)})
  @@ (165 :> {To({"^C"}, 48)}) @@ (166 :> {To({"^D"}, 48)}) @@ (167 :> {To({":"}, 168)})
  @@ (168 :> Group32(127, 143) \cup {To({"^B", "^C", "^D", "^E"}, 48), To({"]"}, 61)})
FirstAfterDouble == Ls32(127, 128, 143, {To({":"}, 131), To({"]"}, 61)})
SecondAfterDouble ==
  (131 :> Group32(132, 136)) @@ Ls32(132, 133, 136, {To({":"}, 80), To({"]"}, 61)})
OnlyAfterDouble == Ls32(152, 153, 156, {To({":"}, 131)})

----------------------------------------------------------------------------
(* Socket requests: "<xml ...>NUL" and "@path {json}NUL" *)

XmlName ==
  (194 :> {To(Alpha \cup Digit \cup {"-", "."}, 195)})
  @@ (195 :> {To(Alpha \cup Digit \cup {"-", "."}, 195),
              Do({"HT", "LF", "VT", "CR", "SP", "/", ">"}, <<"request_path">>, 196)})
\* and after its NUL there is nothing more
XmlData ==
  (349 :> {}) @@
  (196 :> {To({">"}, 197), To(Bytes \ {">"}, 196)})
  @@ (197 :> {To({">"}, 197), Do({"NUL"}, <<"xml", "done">>, 349), To(Bytes \ {">", "NUL"}, 196)})
JsonData ==
  (199 :> {Do({"{"}, <<"mark">>, 200)})
  @@ (200 :> {To({"}"}, 201), To(Bytes \ {"}"}, 200)})
  @@ (201 :> {To({"}"}, 201), Do({"NUL"}, <<"json", "done">>, 349), To(Bytes \ {"}", "NUL"}, 200)})

JsonPathEnd == Do({"SP"}, <<"request_path">>, 199)
JsonPath ==
  [s \in {198, 202} |-> {JsonPathEnd, To(Reg \cup {"@"}, 202), To({"%"}, 203),
                         To({"/"}, IF s = 198 THEN 208 ELSE 205)}]
  @@ Pct(203, 202) @@ (205 :> {JsonPathEnd, To(PChar \cup {"/"}, 205), To({"%"}, 206)}) @@ Pct(206, 205)
JsonSlashes ==
  208 :> {JsonPathEnd, To(PChar, 205), To({"%"}, 206), To({"/"}, 209)}

\* the states of //authority again, 175 further on, with "#" and "?" not
\* allowed and the end of the path leading to the data
Json(region, states) ==
  LET twin(r) == CASE r[1] = {"SP"} -> JsonPathEnd
                   [] r[3] = 26     -> To(r[1], 205)
                   [] OTHER         -> To(r[1], r[3] + 175)
  IN [s \in {x + 175 : x \in states} |->
        {twin(r) : r \in {q \in region[s - 175] : q[1] \notin {{"#"}, {"?"}}}}]
JsonAuthority == Json(Slashes @@ UserOrHost @@ UserOrPort, 34..37 \cup 38..41)
JsonHost == Json(Host @@ Port @@ AfterLiteral, 42..46 \cup {61})
JsonLiteral == Json(LiteralStart @@ LastGroup, 47..53)
JsonOctets == Json(Octets, 55..60 \cup 62..76)
JsonLast == Json(Last32 @@ Last16, {54} \cup 77..90)
JsonGroups == Json(Groups, 91..110)
JsonMoreGroups == Json(MoreGroups @@ AfterDouble, 111..126 \cup {150})
JsonAfterDouble == Json(FirstAfterDouble, 127..130 \cup 143..149)
JsonSecond == Json(SecondAfterDouble, 131..142)
JsonFew == Json(FewBeforeDouble @@ OnlyAfterDouble, 151..168)
JsonFuture == Json(IPvFuture, 169..172)

----------------------------------------------------------------------------
Rows ==
  Start @@ Method @@ UriStart @@ Scheme @@ FirstSegment @@ Segments @@ Fragment
  @@ QueryStart @@ Query @@ Version @@ FieldName @@ FieldValue @@ LastLine @@ Final
  @@ Slashes @@ UserOrHost @@ UserOrPort @@ Host @@ Port @@ AfterLiteral
  @@ LiteralStart @@ IPvFuture @@ Octets @@ LastGroup @@ Last32 @@ Last16 @@ Groups
  @@ MoreGroups @@ AfterDouble @@ FewBeforeDouble @@ FirstAfterDouble
  @@ SecondAfterDouble @@ OnlyAfterDouble @@ XmlName @@ XmlData @@ JsonData
  @@ JsonPath @@ JsonSlashes @@ JsonAuthority @@ JsonHost @@ JsonLiteral @@ JsonOctets
  @@ JsonLast @@ JsonGroups @@ JsonMoreGroups @@ JsonAfterDouble @@ JsonSecond
  @@ JsonFew @@ JsonFuture

\* the row the code takes in state cs on byte b (with uri_relaxed set or not)
Step(relaxed, cs, b) ==
  LET matching == {r \in Rows[cs] : b \in r[1] \/ (relaxed /\ b \in MoreDelims /\ "more" \in r[1])}
  IN IF matching = {} THEN To({b}, 0) ELSE CHOOSE r \in matching : TRUE
=============================================================================
