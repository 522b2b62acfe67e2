----------------------------- MODULE HttpParser -----------------------------
(***************************************************************************)
(* HttpRequestParser under HttpSession::recvRequest, and                   *)
(* HttpResponseParser under a caller that feeds it what it receives: the   *)
(* two automata with the offsets, callbacks and error codes around them.   *)
(*                                                                         *)
(* A message arrives in pieces; each is one call of execute, with a buffer *)
(* of its own.  An offset into the buffer (mark, field_start, query_start) *)
(* is abstracted to where it came from: the automaton's state in which     *)
(* this call set it, 0 when it is zero, Stale when an earlier call set it  *)
(* (or nothing did), so that it means nothing in this buffer.  The body of *)
(* a request is read by HttpConnection.                                    *)
(***************************************************************************)
EXTENDS Integers, Sequences, SequencesExt

CONSTANT MaxPieces  \* the calls of execute for one message

Rq == INSTANCE RequestMachine
Rs == INSTANCE ResponseMachine

Stale == -1    \* an offset of another buffer
Torn == -2     \* text from the start of this piece, its own start being lost
Empty == -3    \* no text, for the same reason
Missing == -4  \* the callback was not made
Other == -5    \* the length of an earlier name, used for this one
Thrown == -6   \* no error code: an exception left the callback

VARIABLES
  kind,         \* which parser: "request" or "response"
  cs,           \* the automaton's state
  uri_relaxed,  \* of the request's parser; never assigned by http_parser_init
  off,          \* the offsets: mark, field_start, query_start, and field_len
  data,         \* m_data: what each callback stored, as a start of its text
  m_error,
  pc,           \* "read", "exec", or how it ended
  pieces,       \* calls of execute so far
  fresh,        \* no byte of this piece was looked at yet
  cuts          \* the parts of the message inside which a piece ended

vars == <<kind, cs, uri_relaxed, off, data, m_error, pc, pieces, fresh, cuts>>

NoData == [method |-> Missing, path |-> Missing, query |-> Missing, fragment |-> Missing,
           version |-> Missing, header |-> {}, lost |-> FALSE]
\* http_parser_init sets every field of the parser but query_start and uri_relaxed
http_parser_init ==
  /\ cs = 1
  /\ off = [mark |-> 0, field_start |-> 0, field_len |-> 0, query_start |-> Stale]

Init ==
  /\ http_parser_init
  /\ kind \in {"request", "response"}
  /\ uri_relaxed \in BOOLEAN /\ (kind = "response" => ~uri_relaxed)
  /\ data = NoData /\ m_error = 0
  /\ pc = "read" /\ pieces = 0 /\ fresh = TRUE /\ cuts = {}

\* the state an offset came from; in a response one state stands for all
\* that begin a header line, and one for all that begin a value
Origin ==
  CASE kind = "request"             -> cs
    [] cs \in {36, 43, 62, 113}     -> 20
    [] cs \in {35, 61, 63, 72, 80, 121} \cup 112..123 -> 22
    [] OTHER                        -> cs

----------------------------------------------------------------------------
(* Callbacks.  s holds off, data and err; the verdict v is how a text       *)
(* passes its test where the abstraction leaves that open, "throws" being   *)
(* std::string(at, length) with a start that lies after the current byte.   *)

\* PTR_TO and LEN: the text from an offset up to the current byte
Text(offset) ==
  IF offset = 0 THEN IF fresh THEN Empty ELSE Torn ELSE offset

\* field_start moves, field_len does not
start_field(s) ==
  [s EXCEPT !.off.field_start = Origin, !.off.field_len = IF @ = 0 THEN 0 ELSE Other]

\* chars_to_http_methd compares with the known methods, so no text is none
on_request_method(s, v) ==
  LET t == Text(s.off.mark) IN
  IF v = "good" /\ t # Empty THEN [s EXCEPT !.data.method = t] ELSE [s EXCEPT !.err = 1000]

\* strncmp over the text's own length: nothing equals "HTTP/1.1", and what is
\* left of a version whose start was lost equals neither
on_request_version(s) ==
  LET t == Text(s.off.mark) IN
  IF t = Torn THEN [s EXCEPT !.err = 1001] ELSE [s EXCEPT !.data.version = t]

on_request_query(s, v) ==
  IF s.off.query_start = Stale /\ v = "throws" THEN [s EXCEPT !.err = Thrown]
  ELSE [s EXCEPT !.data.query = Text(s.off.query_start)]

\* a name of no length is skipped
on_request_http_field(s) ==
  IF s.off.field_len \in {0, Empty} THEN [s EXCEPT !.data.lost = TRUE]
  ELSE [s EXCEPT !.data.header = @ \cup {<<s.off.field_len, Text(s.off.mark)>>}]

\* one action of the request's automaton, made in state cs
RequestAction(s, a, v) ==
  CASE a = "mark"           -> [s EXCEPT !.off.mark = Origin]
    [] a = "start_field"    -> start_field(s)
    [] a = "start_query"    -> [s EXCEPT !.off.query_start = Origin]
    [] a = "write_field"    -> [s EXCEPT !.off.field_len = Text(s.off.field_start)]
    [] a = "write_value"    -> on_request_http_field(s)
    [] a = "request_method" -> on_request_method(s, v)
    [] a = "request_path"   -> [s EXCEPT !.data.path = Text(s.off.mark)]
    [] a = "query_string"   -> on_request_query(s, v)
    [] a = "fragment"       -> [s EXCEPT !.data.fragment = Text(s.off.mark)]
    [] a = "http_version"   -> on_request_version(s)
    [] a \in {"request_uri", "xml", "json", "done"} -> s

\* a status line may carry any version; only 1.0 and 1.1 are accepted
on_response_version(s, v) ==
  IF v = "bad" THEN [s EXCEPT !.err = 1001] ELSE [s EXCEPT !.data.version = Text(s.off.mark)]

\* a length counted from a lost start may be 0; once used it is that of some name
on_response_http_field(s, v) ==
  LET name == IF s.off.field_start = Stale THEN Stale ELSE s.off.field_len IN
  IF s.off.field_len = 0 \/ (s.off.field_len = Stale /\ v = "bad") THEN [s EXCEPT !.err = 1002, !.off.field_len = 0]
  ELSE [s EXCEPT !.data.header = @ \cup {<<name, Text(s.off.mark)>>},
                 !.off.field_len = IF @ = Stale THEN Other ELSE @]

\* strtol and atoi read from the mark whatever is there
ResponseAction(s, a, v) ==
  CASE a = "mark"          -> [s EXCEPT !.off.mark = Origin]
    [] a = "start_field"   -> start_field(s)
    [] a = "write_field"   -> [s EXCEPT !.off.field_len = Text(s.off.field_start)]
    [] a = "write_value"   -> IF Stale \in {s.off.field_len, s.off.mark} /\ v = "throws"
                              THEN [s EXCEPT !.err = Thrown] ELSE on_response_http_field(s, v)
    [] a = "reason_phrase" -> IF s.off.mark = Stale /\ v = "throws" THEN [s EXCEPT !.err = Thrown]
                              ELSE [s EXCEPT !.data.path = Text(s.off.mark)]
    [] a = "status_code"   -> [s EXCEPT !.data.method = Text(s.off.mark)]
    [] a = "http_version"  -> on_response_version(s, v)
    [] a \in {"chunk_size", "content_len", "connection_close", "trans_chunked", "done"} -> s

\* all of a row's actions, in the code's order; one that throws is the last
Apply(acts, v) ==
  FoldLeft(LAMBDA s, a : IF s.err = Thrown THEN s
                         ELSE IF kind = "request" THEN RequestAction(s, a, v)
                         ELSE ResponseAction(s, a, v),
           [off |-> off, data |-> data, err |-> m_error], acts)

----------------------------------------------------------------------------
(* The calls of execute *)

\* http_parser_execute starts by zeroing its offsets, query_start excepted;
\* httpclient_parser_execute keeps them all
Rebase(o) ==
  LET kept(x) == IF x > 0 THEN Stale ELSE x IN
  IF kind = "request"
  THEN [mark |-> 0, field_start |-> 0, field_len |-> 0, query_start |-> Stale]
  ELSE [mark |-> kept(o.mark), field_start |-> kept(o.field_start),
        field_len |-> o.field_len, query_start |-> Stale]

\* a read that returned bytes, and the start of execute, which for a response
\* asserts that the caller put a NUL behind them
Receive ==
  /\ pc = "read" /\ pieces < MaxPieces
  /\ off' = Rebase(off) /\ pieces' = pieces + 1 /\ fresh' = TRUE
  /\ \/ pc' = "exec" /\ UNCHANGED cuts
     \/ kind = "response" /\ pc' = "aborted" /\ cuts' = cuts \cup {"nul"}
  /\ UNCHANGED <<kind, cs, uri_relaxed, data, m_error>>

\* a read that failed, timed out or met the peer's close
ReceiveFails ==
  /\ pc = "read" /\ pc' = "closed"
  /\ UNCHANGED <<kind, cs, uri_relaxed, off, data, m_error, pieces, fresh, cuts>>

\* what the next byte may do
Moves ==
  IF kind = "request" THEN {Rq!Step(uri_relaxed, cs, b) : b \in Rq!Bytes}
                      ELSE {Rs!Step(cs, b) : b \in Rs!Bytes}

\* the verdicts the callbacks of a row leave open
Verdicts(acts) ==
  IF Range(acts) \cap {"request_method", "query_string", "http_version", "write_value", "reason_phrase"} = {}
  THEN {"good"} ELSE {"good", "bad", "throws"}

\* one byte that does not end the call
ParseByte ==
  /\ pc = "exec"
  /\ \E row \in Moves :
       /\ row[3] # 0 /\ "done" \notin Range(row[2])
       /\ \E s \in {Apply(row[2], v) : v \in Verdicts(row[2])} :
            /\ off' = s.off /\ data' = s.data /\ m_error' = s.err
            /\ pc' = IF s.err = Thrown THEN "thrown" ELSE "exec"
       /\ cs' = row[3] /\ fresh' = FALSE
  /\ UNCHANGED <<kind, uri_relaxed, pieces, cuts>>

\* What a call that stopped leaves of its piece: nothing, fewer bytes than the
\* calls before it read, or as many at least.
Remainders == {"none", "fewer", "enough"}
\* Mutant: nread = for nread +=, what one call read.
NreadHoldsEach(left) == TRUE
\* nread is zeroed by every call of the request's parser, but added up by the
\* response's and asserted to be no more than len: what the calls before this one
\* read (nothing before the first, something before every other) must fit in
\* what this one leaves
NreadHolds(left) == kind = "request" \/ pieces = 1 \/ left = "enough"
\* How execute ends: by the assert; or its check()s fail, it returns -1, and the
\* memmove starts before the buffer; or as its caller goes on.  When the assert holds
\* every offset is less than len (a kept one is less than nread); a length is at
\* most len unless it was counted from a kept offset after the current byte.
EndsOf(left, field_len, next) ==
  IF ~NreadHolds(left) THEN {"aborted"}
  ELSE {next} \cup (IF field_len = Stale THEN {"wild"} ELSE {})

\* a byte no row allows: cs becomes 0 and the session closes
BadByte ==
  /\ pc = "exec"
  /\ \E row \in Moves : row[3] = 0
  /\ cs' = 0 /\ fresh' = FALSE
  /\ \E left \in Remainders : pc' \in EndsOf(left, off.field_len, "closed")
  /\ UNCHANGED <<kind, uri_relaxed, off, data, m_error, pieces, cuts>>

\* the part of the message that a state is inside of, if any: in a request,
\* and in a response, where a value may continue on the next line
RequestPart(s) ==
  CASE s \in DOMAIN Rq!Method                 -> {"method"}
    [] s \in {1, 3, 4, 13, 17, 20, 29}        -> {}
    [] s \in DOMAIN Rq!Query                  -> {"query"}
    [] s \in DOMAIN Rq!Fragment               -> {"fragment"}
    [] s \in DOMAIN Rq!Version                -> {"version"}
    [] s \in {14, 15, 16, 18}                 -> {"header"}
    [] OTHER                                  -> {"uri"}
ResponsePart(s) ==
  CASE s \in {1, 3, 4, 16, 18, 20, 24, 43, 71, 88} -> {}
    [] s = 2                                  -> {"size"}
    [] s \in DOMAIN Rs!Version                -> {"version"}
    [] s = 17                                 -> {"status"}
    [] s = 19                                 -> {"reason"}
    [] s \in {73, 117} \cup DOMAIN Rs!ChunkedName -> {"name", "value"}
    [] s \in {5, 21} \cup 25..34 \cup 44..60 \cup 90..94 \cup 101..111 -> {"name"}
    [] OTHER                                  -> {"value"}

\* isFinished: the request's parser tests for the first final state or a
\* later one, the response's for the first alone
Finished(state) == IF kind = "request" THEN state >= 348 ELSE state = 120
\* the part a call ends in
PartOf(s) ==
  IF Finished(s) THEN {} ELSE IF kind = "request" THEN RequestPart(s) ELSE ResponsePart(s)
\* what follows execute
AfterExecute(state, err) ==
  IF err # 0 THEN "closed" ELSE IF Finished(state) THEN "handed" ELSE "read"

\* the piece is used up: hasError, or another read; a piece has a byte at least
EndOfPiece ==
  /\ pc = "exec" /\ ~fresh
  /\ pc' \in EndsOf("none", off.field_len, AfterExecute(cs, m_error))
  /\ cuts' = cuts \cup PartOf(cs)
  /\ UNCHANGED <<kind, cs, uri_relaxed, off, data, m_error, pieces, fresh>>

\* the byte that ends the header: the call stops there
Done ==
  /\ pc = "exec"
  /\ \E row \in Moves :
       /\ "done" \in Range(row[2])
       /\ \E s \in {Apply(row[2], v) : v \in Verdicts(row[2])}, left \in Remainders :
            /\ off' = s.off /\ data' = s.data /\ m_error' = s.err
            /\ IF s.err = Thrown THEN pc' = "thrown"
               ELSE pc' \in EndsOf(left, s.off.field_len, AfterExecute(row[3], s.err))
       /\ cs' = row[3] /\ fresh' = FALSE /\ cuts' = cuts \cup PartOf(row[3])
  /\ UNCHANGED <<kind, uri_relaxed, pieces>>

Next == Receive \/ ReceiveFails \/ ParseByte \/ BadByte \/ EndOfPiece \/ Done
Spec == Init /\ [][Next]_vars

----------------------------------------------------------------------------
(* Properties *)

\* Type invariant.  A text is Missing, or says where it starts: the version of
\* a request never starts in the middle, its method is never empty, because
\* on_request_version and on_request_method refuse those.
TypeOK ==
  /\ kind \in {"request", "response"} /\ uri_relaxed \in BOOLEAN
  /\ cs \in 0..349 /\ pieces \in 0..MaxPieces /\ fresh \in BOOLEAN
  /\ pc \in {"read", "exec", "handed", "closed", "aborted", "thrown", "wild"}
  /\ m_error \in {0, 1000, 1001, 1002, Thrown}
  /\ data.method \in {Missing, Torn, Stale} \cup 1..349
  /\ data.version \in {Missing, Empty, Stale} \cup 1..349
  /\ cuts \subseteq {"method", "uri", "query", "fragment", "version", "header",
                "size", "status", "reason", "name", "value", "nul"}

\* Whatever the pieces, a callback never gets the text of another part: the
\* mark that one part left is moved before the next part's callback uses it
\* (request_path after a scheme, the fragment after the path, a value after a
\* name).  The one exception is a response's Transfer-Encoding or
\* Content-Length value on a line of its own, which is also taken for the start
\* of a name: its http_field gets the length of the name before it.
TextsStartRight ==
  IF kind = "request"
  THEN /\ data.method \in {Missing, Torn, 1}
       /\ data.path \in {Missing, Torn, Empty, 1, 3, 174}
       /\ data.query \in {Missing, Stale, 29}
       /\ data.fragment \in {Missing, Torn, Empty, 20}
       /\ data.version \in {Missing, Empty, 4}
       /\ \A h \in data.header : h[1] \in {Torn, 13} /\ h[2] = 15
  ELSE /\ data.method \in {Missing, Stale, 16}
       /\ data.path \in {Missing, Stale, 18}
       /\ data.version \in {Missing, Stale, 1}
       /\ \A h \in data.header :
            /\ h[1] \in {Stale, 4, 20, Other} /\ h[2] \in {Stale, 5, 6, 20, 22}
            /\ h[1] = Other => h[2] \in {Stale, 20}

\* A piece that ends inside one part of a request does no harm to another:
\* http_parser_execute zeroes its offsets on every call, so each part must be
\* looked at from its own first byte by the call that reports it.  And no part,
\* cut or not, is taken for another.  (And the types.)
OnlyCutPartsSuffer ==
  /\ TypeOK /\ TextsStartRight
  /\ kind = "request" =>
    /\ data.method = Torn => "method" \in cuts
    /\ data.path \in {Torn, Empty} => "uri" \in cuts
    /\ data.query = Stale \/ pc = "thrown" => "query" \in cuts
    /\ data.fragment \in {Torn, Empty} => "fragment" \in cuts
    /\ data.version = Empty \/ m_error = 1001 => "version" \in cuts
    /\ data.lost \/ (\E h \in data.header : h[1] = Torn) => "header" \in cuts

\* The response's parser keeps its offsets from one piece to the next.  What a
\* piece that ends inside the version, the status, the reason, a name or a value
\* spoils is that part (and the name of a cut value, whose start is lost too):
\* only a cut reason or header ends in an exception, only a cut name in an error
\* or in a length that fails its check, and no assert fails in the first piece if
\* it ends with a NUL.  A second piece is the last one: the parser survives it
\* only by stopping before its end, and asks for a third only when the header
\* ended behind an empty Transfer-Encoding, Connection or Content-Length, in a
\* state of its own that isFinished does not know.
ResponseCuts ==
  kind = "response" =>
    /\ pc = "aborted" => pieces > 1 \/ "nul" \in cuts
    /\ pc = "thrown" => cuts \cap {"reason", "name", "value"} # {}
    /\ pc = "wild" \/ m_error = 1002 => "name" \in cuts
    /\ data.version = Stale => "version" \in cuts
    /\ data.method = Stale => "status" \in cuts
    /\ data.path = Stale => "reason" \in cuts
    /\ \A h \in data.header :
         /\ h[1] = Stale => cuts \cap {"name", "value"} # {}
         /\ h[2] = Stale => "value" \in cuts
    /\ pc = "read" /\ pieces > 1 => cs \in 121..123
    /\ pc = "read" /\ cs \in 121..123 => data.header # {}
=============================================================================
