--------------------------- MODULE SettingsProofs ---------------------------
(***************************************************************************)
(* Proofs about what the threads of a program share, for any number of     *)
(* threads, variables and calls: the loggers that the values of "logs"     *)
(* define, the keys of add_listener, what the constructor of Thread has    *)
(* handed over when it returns, and the servlet a request is handed to.    *)
(***************************************************************************)
EXTENDS MCSettings, TLAPS

-----------------------------------------------------------------------------
(* The loggers.  LogsInv says how far the listener of the one thread between  *)
(* comparison and assignment has come with every logger. *)

LogKinds == {"log", "spin", "release"}
LockKinds == {"read", "unread", "gread", "gunread", "gwrite", "gunwrite"}
Turns == {"define", "undefine"} \X (1 .. Len(NameSeq)) \X (Nat \ {0})
Steps ==
  {<<s>> : s \in LockKinds \cup {"compare", "write", "assign"}}
    \cup (LogKinds \X Names \X Levels) \cup Turns

\* the step that q others follow
FromEnd(s, q) == s[Len(s) - q]

\* What a call that is not between comparison and assignment has to do.
PlainPlan(s) ==
  \A q \in 0 .. Len(s) - 1 :
    FromEnd(s, q)[1] \in LogKinds \cup LockKinds \/ (q = 0 /\ FromEnd(s, q)[1] = "compare")

\* What a call of set_value has to do from the comparison on.
SetPlan(s) ==
  /\ s # <<>> /\ FromEnd(s, 0)[1] = "assign"
  /\ Len(s) >= 2 => FromEnd(s, 1)[1] = "write"
  /\ Len(s) >= 3 => FromEnd(s, 2)[1] = "unread"
  /\ Len(s) >= 4 => FromEnd(s, 3) \in Turns
  /\ Len(s) >= 5 => FromEnd(s, 3) = <<"define", 1, 1>>
  /\ \A q \in 4 .. Len(s) - 1 : FromEnd(s, q)[1] \in LogKinds

\* formatters; the provers do not know of any string that it is in STRING
Formats == STRING \cup {"default"}
Loggers == [level : Levels \cup {Silent}, formatter : Formats, appenders : Seq(Formats)]
LogTypes ==
  /\ TypeOK /\ arg \in [Threads -> Values \cup {NoValue}] /\ todo \in [Threads -> Seq(Steps)]
  /\ loggers \in [Names -> Loggers] /\ raced \in BOOLEAN /\ defined \subseteq Names
  /\ \A t \in Threads : IF t \in setting THEN SetPlan(todo[t]) ELSE PlainPlan(todo[t])

\* the calls before the appenders are added
Before(d) == IF d.formatter = "" THEN 2 ELSE 3
\* what m appenders of the definition have become
Added(lg, d, m) == [j \in 1 .. m |-> IF d.appenders[j] = "" THEN lg.formatter ELSE d.appenders[j]]
\* Logger lg after the first k - 1 calls that rebuild it for d.
Rebuilt(lg, d, k) ==
  /\ k \in 1 .. Before(d) + Len(d.appenders) + 1
  /\ k >= 2 => lg.level = d.level
  /\ k = 3 => lg.appenders = <<>>
  /\ k >= 4 /\ Accepted(d.formatter) => lg.formatter = d.formatter
  /\ k > Before(d) => lg.appenders = Added(lg, d, k - 1 - Before(d))
\* Logger lg after the first k - 1 calls that silence it.
Silenced(lg, k) == k \in 1 .. 3 /\ (k >= 2 => lg.level = Silent) /\ (k = 3 => lg.appenders = <<>>)

\* Logger lg in the loop over the new definitions: old and new are the two
\* definitions, i its place, and the k-th call on the j-th is next.
Defining(lg, old, new, i, j, k) ==
  /\ new = Undefined => AsDefined(lg, old)
  /\ new # Undefined /\ i < j => AsDefined(lg, new)
  /\ i = j => IF new = Undefined THEN k = 1 ELSE Rebuilt(lg, new, k)
\* The same in the loop over the old definitions.
Undefining(lg, old, new, i, j, k) ==
  /\ new # Undefined \/ i < j => AsDefined(lg, new)
  /\ new = Undefined /\ i > j => AsDefined(lg, old)
  /\ i = j => IF new # Undefined THEN k = 1
              ELSE IF old = Undefined THEN AsDefined(lg, old) /\ k = 1 ELSE Silenced(lg, k)

\* How far the listener of a thread with the steps s has come.
Progress(s, lgs, old, new, names) ==
  IF Len(s) < 4 THEN \A n \in names : AsDefined(lgs[n], new[n])
  ELSE LET turn == FromEnd(s, 3)
       IN \A i \in 1 .. Len(NameSeq) : NameSeq[i] \in names =>
            LET n == NameSeq[i]
            IN IF turn[1] = "define" THEN Defining(lgs[n], old[n], new[n], i, turn[2], turn[3])
               ELSE Undefining(lgs[n], old[n], new[n], i, turn[2], turn[3])

LogsInv ==
  /\ LogTypes
  /\ ~raced =>
       /\ \A t, u \in setting : t = u
       /\ setting = {} => \A n \in defined : AsDefined(loggers[n], m_val[n])
       /\ \A t \in setting : Progress(todo[t], loggers, m_val, arg[t], defined)

-----------------------------------------------------------------------------
(* Plans *)

\* List r is s with its first step replaced by the list more.
Replaced(s, more, r) ==
  /\ r \in Seq(Steps) /\ Len(s) \in Nat \ {0} /\ Len(more) \in Nat /\ Len(r) = Len(more) + Len(s) - 1
  /\ \A q \in 0 .. Len(s) - 2 : FromEnd(r, q) = FromEnd(s, q)
  /\ \A q \in 0 .. Len(r) - 1 : q >= Len(s) - 1 =>
       Len(r) - q \in 1 .. Len(more) /\ FromEnd(r, q) = more[Len(r) - q]

\* A list by its length and its items.
LEMMA ListOf ==
  ASSUME NEW U, NEW n \in Nat, NEW f \in [1 .. n -> U]
  PROVE  f \in Seq(U) /\ Len(f) = n
OBVIOUS

\* List c is b after a.
Chain(a, b, c) ==
  /\ Len(c) = Len(a) + Len(b)
  /\ \A i \in 1 .. Len(a) : c[i] = a[i]
  /\ \A i \in 1 .. Len(b) : c[Len(a) + i] = b[i]

\* Lists that are put together.
LEMMA Joined ==
  ASSUME NEW U, NEW a \in Seq(U), NEW b \in Seq(U)
  PROVE  a \o b \in Seq(U) /\ Chain(a, b, a \o b)
<1>1. a \o b \in Seq(U)
  OBVIOUS
<1>2. Len(a \o b) = Len(a) + Len(b)
  OBVIOUS
<1>3. ASSUME NEW i \in 1 .. Len(a) PROVE (a \o b)[i] = a[i]
  OBVIOUS
<1>4. ASSUME NEW i \in 1 .. Len(b) PROVE (a \o b)[Len(a) + i] = b[i]
  OBVIOUS
<1> QED BY <1>1, <1>2, <1>3, <1>4, Zenon DEF Chain

\* The items of a list after the first.
LEMMA Rest ==
  ASSUME NEW s \in Seq(Steps), s # <<>>
  PROVE  /\ Tail(s) \in Seq(Steps) /\ Len(Tail(s)) = Len(s) - 1
         /\ \A i \in 1 .. Len(s) - 1 : Tail(s)[i] = s[i + 1]
<1>1. Tail(s) \in Seq(Steps) /\ Len(Tail(s)) = Len(s) - 1
  OBVIOUS
<1>2. ASSUME NEW i \in 1 .. Len(s) - 1 PROVE Tail(s)[i] = s[i + 1]
  OBVIOUS
<1> QED BY <1>1, <1>2, Zenon

\* This is what Go does.
LEMMA GoReplaces ==
  ASSUME NEW s \in Seq(Steps), s # <<>>, NEW more \in Seq(Steps)
  PROVE  Replaced(s, more, more \o Tail(s))
<1> USE Zenon
<1>1. Len(s) \in Nat \ {0} /\ Len(more) \in Nat
  BY SMT
<1> DEFINE x == Tail(s)
           r == more \o x
<1>2. x \in Seq(Steps) /\ Len(x) = Len(s) - 1 /\ \A i \in 1 .. Len(s) - 1 : x[i] = s[i + 1]
  BY Rest
<1> HIDE DEF x
<1>3. /\ r \in Seq(Steps) /\ Len(r) = Len(more) + Len(x)
      /\ \A i \in 1 .. Len(more) : r[i] = more[i]
      /\ \A i \in 1 .. Len(x) : r[Len(more) + i] = x[i]
  <2>1. r \in Seq(Steps) /\ Chain(more, x, r)
    BY <1>2, Joined
  <2> QED BY <2>1 DEF Chain
<1> HIDE DEF r
<1>4. Len(r) = Len(more) + Len(s) - 1
  BY <1>1, <1>2, <1>3
<1>5. ASSUME NEW q \in 0 .. Len(s) - 2 PROVE FromEnd(r, q) = FromEnd(s, q)
  <2>1. /\ Len(s) - 1 - q \in 1 .. Len(s) - 1 /\ Len(more) + (Len(s) - 1 - q) = Len(r) - q
        /\ (Len(s) - 1 - q) + 1 = Len(s) - q
    BY <1>1, <1>4, SMT
  <2>2. r[Len(more) + (Len(s) - 1 - q)] = x[Len(s) - 1 - q] /\ x[Len(s) - 1 - q] = s[(Len(s) - 1 - q) + 1]
    BY <1>2, <1>3, <2>1
  <2> QED BY <2>1, <2>2 DEF FromEnd
<1>6. ASSUME NEW q \in 0 .. Len(r) - 1, q >= Len(s) - 1
      PROVE  Len(r) - q \in 1 .. Len(more) /\ FromEnd(r, q) = more[Len(r) - q]
  <2>1. Len(r) - q \in 1 .. Len(more)
    BY <1>1, <1>4, <1>6, SMT
  <2> QED BY <1>3, <2>1 DEF FromEnd
<1> QED BY <1>1, <1>3, <1>4, <1>5, <1>6 DEF Replaced, r, x

\* The first step is the one that all others follow.
LEMMA FirstStep ==
  ASSUME NEW U, NEW s \in Seq(U), s # <<>>
  PROVE  Len(s) \in Nat \ {0} /\ s[1] \in U /\ s[1] = FromEnd(s, Len(s) - 1)
BY DEF FromEnd

\* A call that does not set the value goes on with logging and locking.
LEMMA PlainGoes ==
  ASSUME NEW s \in Seq(Steps), s # <<>>, PlainPlan(s), NEW more \in Seq(Steps),
         \A i \in 1 .. Len(more) : more[i][1] \in LogKinds \cup LockKinds,
         NEW r, Replaced(s, more, r)
  PROVE  r \in Seq(Steps) /\ PlainPlan(r)
<1>1. /\ r \in Seq(Steps) /\ Len(s) \in Nat \ {0} /\ Len(r) \in Nat
      /\ \A q \in 0 .. Len(s) - 2 : FromEnd(r, q) = FromEnd(s, q)
      /\ \A q \in 0 .. Len(r) - 1 : q >= Len(s) - 1 =>
           Len(r) - q \in 1 .. Len(more) /\ FromEnd(r, q) = more[Len(r) - q]
  BY DEF Replaced
<1>2. ASSUME NEW q \in 0 .. Len(r) - 1
      PROVE  FromEnd(r, q)[1] \in LogKinds \cup LockKinds \/ (q = 0 /\ FromEnd(r, q)[1] = "compare")
  <2> USE Zenon
  <2>1. CASE q >= Len(s) - 1
    BY <1>1, <2>1
  <2>2. CASE ~(q >= Len(s) - 1)
    <3>1. q \in 0 .. Len(s) - 2 /\ q \in 0 .. Len(s) - 1
      BY <1>1, <2>2, SMT
    <3> QED BY <1>1, <3>1 DEF PlainPlan
  <2> QED BY <2>1, <2>2
<1> QED BY <1>1, <1>2, Zenon DEF PlainPlan

\* The lengths that matter.
LEMMA Lengths ==
  ASSUME NEW n \in Nat \ {0}
  PROVE  (n = 1 \/ n = 2 \/ n = 3 \/ n = 4 \/ n >= 5) /\ (n <= 1 => n = 1 /\ n + 3 = 4)
OBVIOUS

\* The kind of the first step tells how far a call that sets the value is.
LEMMA SetAt ==
  ASSUME NEW s \in Seq(Steps), SetPlan(s)
  PROVE  /\ s # <<>> /\ Len(s) \in Nat \ {0} /\ s[1] \in Steps
         /\ s[1][1] \in LogKinds => Len(s) >= 5
         /\ s[1][1] \in {"define", "undefine"} => Len(s) = 4 /\ s[1] \in Turns
         /\ s[1][1] \in {"unread", "write", "assign"} => Len(s) <= 3
         /\ s[1][1] = "assign" => Len(s) = 1
         /\ s[1][1] \in LogKinds \cup {"define", "undefine", "unread", "write", "assign"}
<1>1. s # <<>> /\ Len(s) \in Nat \ {0} /\ s[1] \in Steps /\ s[1] = FromEnd(s, Len(s) - 1)
  BY FirstStep DEF SetPlan
<1>2. CASE Len(s) = 1
  <2>1. s[1][1] = "assign"
    BY <1>1, <1>2 DEF SetPlan
  <2> QED BY <1>1, <1>2, <2>1 DEF LogKinds
<1>3. CASE Len(s) = 2
  <2>1. s[1][1] = "write"
    BY <1>1, <1>3 DEF SetPlan
  <2> QED BY <1>1, <1>3, <2>1 DEF LogKinds
<1>4. CASE Len(s) = 3
  <2>1. s[1][1] = "unread"
    BY <1>1, <1>4 DEF SetPlan
  <2> QED BY <1>1, <1>4, <2>1 DEF LogKinds
<1>5. CASE Len(s) = 4
  <2>1. s[1] \in Turns
    BY <1>1, <1>5 DEF SetPlan
  <2>2. s[1][1] \in {"define", "undefine"}
    BY <2>1 DEF Turns
  <2> QED BY <1>1, <1>5, <2>1, <2>2 DEF LogKinds
<1>6. CASE Len(s) >= 5
  <2>1. s[1][1] \in LogKinds
    BY <1>1, <1>6 DEF SetPlan
  <2>2. s[1][1] \notin {"define", "undefine", "unread", "write", "assign"}
    BY <2>1, Zenon DEF LogKinds
  <2> QED BY <1>1, <1>6, <2>1, <2>2, Zenon
<1>7. Len(s) = 1 \/ Len(s) = 2 \/ Len(s) = 3 \/ Len(s) = 4 \/ Len(s) >= 5
  BY <1>1, Lengths, Zenon
<1> QED BY <1>2, <1>3, <1>4, <1>5, <1>6, <1>7, Zenon

\* While it logs, the rest of it stays.
LEMMA SetLogs ==
  ASSUME NEW s \in Seq(Steps), SetPlan(s), s[1][1] \in LogKinds, NEW more \in Seq(Steps),
         \A i \in 1 .. Len(more) : more[i][1] \in LogKinds,
         NEW r, Replaced(s, more, r)
  PROVE  /\ r \in Seq(Steps) /\ SetPlan(r) /\ Len(s) >= 4 /\ Len(r) >= 4
         /\ FromEnd(r, 3) = FromEnd(s, 3)
<1>0. s # <<>> /\ Len(s) \in Nat /\ Len(s) >= 5
  BY SetAt
<1>1. /\ r \in Seq(Steps) /\ Len(more) \in Nat /\ Len(r) = Len(more) + Len(s) - 1
      /\ \A q \in 0 .. Len(s) - 2 : FromEnd(r, q) = FromEnd(s, q)
      /\ \A q \in 0 .. Len(r) - 1 : q >= Len(s) - 1 =>
           Len(r) - q \in 1 .. Len(more) /\ FromEnd(r, q) = more[Len(r) - q]
  BY <1>0 DEF Replaced
<1>2. /\ FromEnd(r, 0) = FromEnd(s, 0) /\ FromEnd(r, 1) = FromEnd(s, 1)
      /\ FromEnd(r, 2) = FromEnd(s, 2) /\ FromEnd(r, 3) = FromEnd(s, 3)
  BY <1>0, <1>1
<1>3. ASSUME NEW q \in 4 .. Len(r) - 1 PROVE FromEnd(r, q)[1] \in LogKinds
  <2>1. q \in 0 .. Len(r) - 1
    BY <1>0, <1>1
  <2>2. CASE q >= Len(s) - 1
    BY <1>1, <2>1, <2>2, Zenon
  <2>3. CASE ~(q >= Len(s) - 1)
    <3>1. q \in 0 .. Len(s) - 2 /\ q \in 4 .. Len(s) - 1
      BY <1>0, <2>3
    <3> QED BY <1>1, <3>1, Zenon DEF SetPlan
  <2> QED BY <2>2, <2>3, Zenon
<1>4. r # <<>> /\ Len(r) >= 4 /\ Len(s) >= 4 /\ Len(s) >= 2 /\ Len(s) >= 3
  BY <1>0, <1>1
<1> QED BY <1>0, <1>1, <1>2, <1>3, <1>4, Zenon DEF SetPlan

\* After the listener the lock is released and taken for writing.
LEMMA SetEnds ==
  ASSUME NEW s \in Seq(Steps), SetPlan(s), s[1][1] \in {"unread", "write"},
         NEW r, Replaced(s, <<>>, r)
  PROVE  r \in Seq(Steps) /\ SetPlan(r) /\ Len(s) < 4 /\ Len(r) < 4
<1>0. s # <<>> /\ Len(s) \in Nat \ {0} /\ Len(s) <= 3
  BY SetAt
<1>1. Len(s) # 1
  <2>1. s[1] = FromEnd(s, Len(s) - 1)
    BY <1>0, FirstStep, Zenon
  <2>2. 1 - 1 = 0
    OBVIOUS
  <2> QED BY <2>1, <2>2, Zenon DEF SetPlan
<1>2. <<>> \in Seq(Steps) /\ Len(<<>>) = 0
  OBVIOUS
<1>3. /\ r \in Seq(Steps) /\ Len(r) = Len(s) - 1
      /\ \A q \in 0 .. Len(s) - 2 : FromEnd(r, q) = FromEnd(s, q)
  <2>1. /\ r \in Seq(Steps) /\ Len(r) = Len(<<>>) + Len(s) - 1
        /\ \A q \in 0 .. Len(s) - 2 : FromEnd(r, q) = FromEnd(s, q)
    BY Zenon DEF Replaced
  <2> QED BY <1>0, <1>2, <2>1
<1>4. Len(r) \in 1 .. 2 /\ r # <<>>
  BY <1>0, <1>1, <1>3
<1>5. FromEnd(r, 0)[1] = "assign"
  BY <1>0, <1>1, <1>3 DEF SetPlan
<1>6. Len(r) >= 2 => FromEnd(r, 1)[1] = "write"
  BY <1>0, <1>3 DEF SetPlan
<1> QED BY <1>0, <1>3, <1>4, <1>5, <1>6 DEF SetPlan

\* The plan r is what a turn leaves that is followed by more.
Follows(more, r) == IF more = <<>> THEN Len(r) = 3 ELSE Len(r) = 4 /\ FromEnd(r, 3) = more[1]

\* A turn is followed by another, or ends the listener.
LEMMA SetTurns ==
  ASSUME NEW s \in Seq(Steps), SetPlan(s), s[1][1] \in {"define", "undefine"},
         NEW more \in Seq(Steps), Len(more) <= 1, more # <<>> => more[1] \in Turns,
         NEW r, Replaced(s, more, r)
  PROVE  /\ r \in Seq(Steps) /\ SetPlan(r) /\ Len(s) = 4 /\ s[1] = FromEnd(s, 3) /\ s[1] \in Turns
         /\ Follows(more, r)
<1>0. s # <<>> /\ Len(s) = 4 /\ s[1] \in Turns /\ s[1] = FromEnd(s, 3)
  <2> USE Zenon
  <2>1. s # <<>> /\ Len(s) = 4 /\ s[1] \in Turns
    BY SetAt
  <2>2. s[1] = FromEnd(s, Len(s) - 1)
    BY <2>1, FirstStep
  <2>3. 4 - 1 = 3
    BY SMT
  <2> QED BY <2>1, <2>2, <2>3
<1>1. /\ r \in Seq(Steps) /\ Len(more) \in Nat /\ Len(r) = Len(more) + 3
      /\ \A q \in 0 .. 2 : FromEnd(r, q) = FromEnd(s, q)
      /\ \A q \in 0 .. Len(r) - 1 : q >= 3 =>
           Len(r) - q \in 1 .. Len(more) /\ FromEnd(r, q) = more[Len(r) - q]
  BY <1>0 DEF Replaced
<1>2. Len(more) \in Nat /\ Len(r) = Len(more) + 3
  BY <1>1
<1>6. /\ FromEnd(r, 0) = FromEnd(s, 0) /\ FromEnd(r, 1) = FromEnd(s, 1) /\ FromEnd(r, 2) = FromEnd(s, 2)
  BY <1>1
<1>3. IF more = <<>> THEN Len(r) = 3 ELSE Len(r) = 4 /\ FromEnd(r, 3) = more[1]
  <2>1. CASE more = <<>>
    BY <1>1, <2>1
  <2>2. CASE more # <<>>
    <3> USE Zenon
    <3>1. Len(more) \in Nat \ {0}
      BY <2>2, FirstStep
    <3>2. Len(more) = 1 /\ Len(r) = 4
      BY <1>2, <3>1, Lengths
    <3>3. 3 \in 0 .. 4 - 1 /\ 3 >= 3 /\ 4 - 3 = 1
      BY SMT
    <3>4. FromEnd(r, 3) = more[1]
      BY <1>1, <3>2, <3>3
    <3> QED BY <2>2, <3>2, <3>4
  <2> QED BY <2>1, <2>2
<1>4. FromEnd(r, 0)[1] = "assign" /\ FromEnd(r, 1)[1] = "write" /\ FromEnd(r, 2)[1] = "unread"
  BY <1>0, <1>6 DEF SetPlan
<1>5. SetPlan(r)
  BY <1>1, <1>3, <1>4 DEF SetPlan
<1> QED BY <1>0, <1>1, <1>3, <1>5, Zenon DEF Follows

\* The steps, by their kinds.
LEMMA StepsOf ==
  /\ \A k \in LockKinds \cup {"compare", "write", "assign"} : <<k>> \in Steps
  /\ \A k \in LogKinds, n \in Names, e \in Levels : <<k, n, e>> \in Steps
  /\ Turns \subseteq Steps
<1> USE Zenon
<1>1. \A k \in LockKinds \cup {"compare", "write", "assign"} : <<k>> \in Steps
  BY DEF Steps
<1>2. \A k \in LogKinds, n \in Names, e \in Levels : <<k, n, e>> \in Steps
  BY DEF Steps
<1>3. Turns \subseteq Steps
  BY DEF Steps
<1> QED BY <1>1, <1>2, <1>3

\* A step of log has a logger and a level, a turn a place and a call.
LEMMA StepParts ==
  ASSUME NEW s \in Steps
  PROVE  /\ s[1] \in LogKinds => s[2] \in Names /\ s[3] \in Levels
         /\ s[1] \in {"define", "undefine"} => s \in Turns
         /\ s \in Turns => /\ s[1] \in {"define", "undefine"} /\ s[2] \in 1 .. Len(NameSeq)
                           /\ s[3] \in Nat \ {0} /\ s = <<s[1], s[2], s[3]>>
<1> USE Zenon
<1>1. CASE s \in {<<k>> : k \in LockKinds \cup {"compare", "write", "assign"}}
  <2>1. PICK k \in LockKinds \cup {"compare", "write", "assign"} : s = <<k>>
    BY <1>1
  <2>2. s[1] = k
    BY <2>1
  <2>3. s[1] \notin LogKinds /\ s[1] \notin {"define", "undefine"}
    BY <2>2 DEF LogKinds, LockKinds
  <2>4. s \notin Turns
    BY <2>3 DEF Turns
  <2> QED BY <2>3, <2>4
<1>2. CASE s \in LogKinds \X Names \X Levels
  <2>1. s[1] \in LogKinds /\ s[2] \in Names /\ s[3] \in Levels
    BY <1>2
  <2>2. s[1] \notin {"define", "undefine"}
    BY <2>1 DEF LogKinds
  <2>3. s \notin Turns
    BY <2>2 DEF Turns
  <2> QED BY <2>1, <2>2, <2>3
<1>3. CASE s \in Turns
  <2>1. /\ s[1] \in {"define", "undefine"} /\ s[2] \in 1 .. Len(NameSeq)
        /\ s[3] \in Nat \ {0} /\ s = <<s[1], s[2], s[3]>>
    BY <1>3, SMT DEF Turns
  <2>2. s[1] \notin LogKinds
    BY <2>1 DEF LogKinds
  <2> QED BY <1>3, <2>1, <2>2
<1> QED BY <1>1, <1>2, <1>3 DEF Steps

\* Lists of one step and of two.
LEMMA ShortLists ==
  ASSUME NEW kinds
  PROVE  /\ <<>> \in Seq(Steps) /\ \A i \in 1 .. Len(<<>>) : <<>>[i][1] \in kinds
         /\ \A a \in Steps : a[1] \in kinds =>
              <<a>> \in Seq(Steps) /\ \A i \in 1 .. Len(<<a>>) : <<a>>[i][1] \in kinds
         /\ \A a, b \in Steps : a[1] \in kinds /\ b[1] \in kinds =>
              <<a, b>> \in Seq(Steps) /\ \A i \in 1 .. Len(<<a, b>>) : <<a, b>>[i][1] \in kinds
<1>1. <<>> \in Seq(Steps) /\ \A i \in 1 .. Len(<<>>) : <<>>[i][1] \in kinds
  OBVIOUS
<1>2. ASSUME NEW a \in Steps, a[1] \in kinds
      PROVE  <<a>> \in Seq(Steps) /\ \A i \in 1 .. Len(<<a>>) : <<a>>[i][1] \in kinds
  BY <1>2
<1>3. ASSUME NEW a \in Steps, NEW b \in Steps, a[1] \in kinds, b[1] \in kinds
      PROVE  <<a, b>> \in Seq(Steps) /\ \A i \in 1 .. Len(<<a, b>>) : <<a, b>>[i][1] \in kinds
  BY <1>3
<1> QED BY <1>1, <1>2, <1>3, Zenon

\* A list of logging and locking is a plan.
LEMMA PlainOf ==
  ASSUME NEW s \in Seq(Steps), \A i \in 1 .. Len(s) : s[i][1] \in LogKinds \cup LockKinds
  PROVE  PlainPlan(s)
<1>1. ASSUME NEW q \in 0 .. Len(s) - 1 PROVE FromEnd(s, q)[1] \in LogKinds \cup LockKinds
  <2>1. Len(s) - q \in 1 .. Len(s)
    OBVIOUS
  <2> QED BY <2>1, Zenon DEF FromEnd
<1> QED BY <1>1, Zenon DEF PlainPlan

\* The plans of the calls when they are made.
LEMMA CallPlans ==
  /\ set_value \in Seq(Steps) /\ PlainPlan(set_value)
  /\ \A steps \in {get_value, lookup, lookup_other, Visit} \cup {log(n, ERROR) : n \in Names} :
       steps \in Seq(Steps) /\ PlainPlan(steps)
<1> USE Zenon
<1> DEFINE kinds == LogKinds \cup LockKinds
<1>1. /\ <<"read">> \in Steps /\ <<"unread">> \in Steps /\ <<"gread">> \in Steps /\ <<"gunread">> \in Steps
      /\ <<"gwrite">> \in Steps /\ <<"gunwrite">> \in Steps /\ <<"compare">> \in Steps
  BY StepsOf DEF LockKinds
<1>2. /\ <<"read">>[1] = "read" /\ <<"unread">>[1] = "unread" /\ <<"gread">>[1] = "gread"
      /\ <<"gunread">>[1] = "gunread" /\ <<"gwrite">>[1] = "gwrite" /\ <<"gunwrite">>[1] = "gunwrite"
      /\ <<"compare">>[1] = "compare"
  OBVIOUS
<1>3. /\ <<"read">>[1] \in kinds /\ <<"unread">>[1] \in kinds /\ <<"gread">>[1] \in kinds
      /\ <<"gunread">>[1] \in kinds /\ <<"gwrite">>[1] \in kinds /\ <<"gunwrite">>[1] \in kinds
  BY <1>2 DEF LockKinds
<1>4. DEBUG \in Levels /\ ERROR \in Levels /\ Root \in Names
  BY LoggersAssumption, SMT DEF DEBUG, ERROR, Levels
<1>5. ASSUME NEW n \in Names, NEW e \in Levels PROVE <<"log", n, e>> \in Steps /\ <<"log", n, e>>[1] \in kinds
  <2>1. <<"log", n, e>>[1] = "log"
    OBVIOUS
  <2> QED BY <2>1, StepsOf DEF LogKinds
<1>6. get_value \in Seq(Steps) /\ PlainPlan(get_value)
  BY <1>1, <1>3, ShortLists, PlainOf DEF get_value
<1>7. ASSUME NEW n \in Names PROVE log(n, ERROR) \in Seq(Steps) /\ PlainPlan(log(n, ERROR))
  BY <1>4, <1>5, ShortLists, PlainOf DEF log
<1>8. ASSUME NEW a \in Steps, NEW b \in Steps, NEW c \in Steps, a[1] \in kinds, b[1] \in kinds, c[1] \in kinds
      PROVE  <<a, b, c>> \in Seq(Steps) /\ PlainPlan(<<a, b, c>>)
  <2>1. <<a, b, c>> \in Seq(Steps) /\ \A i \in 1 .. Len(<<a, b, c>>) : <<a, b, c>>[i][1] \in kinds
    BY <1>8, SMT
  <2> QED BY <2>1, PlainOf
<1>9. ASSUME NEW a \in Steps, NEW b \in Steps, NEW c \in Steps, NEW d \in Steps,
             a[1] \in kinds, b[1] \in kinds, c[1] \in kinds, d[1] \in kinds
      PROVE  <<a, b, c, d>> \in Seq(Steps) /\ PlainPlan(<<a, b, c, d>>)
  <2>1. <<a, b, c, d>> \in Seq(Steps) /\ \A i \in 1 .. Len(<<a, b, c, d>>) : <<a, b, c, d>>[i][1] \in kinds
    BY <1>9, SMT
  <2> QED BY <2>1, PlainOf
<1>10. ASSUME NEW a \in Steps, NEW b \in Steps, NEW c \in Steps, NEW d \in Steps, NEW e \in Steps,
              a[1] \in kinds, b[1] \in kinds, c[1] \in kinds, d[1] \in kinds, e[1] \in kinds
       PROVE  <<a, b, c, d, e>> \in Seq(Steps) /\ PlainPlan(<<a, b, c, d, e>>)
  <2>1. <<a, b, c, d, e>> \in Seq(Steps) /\ \A i \in 1 .. Len(<<a, b, c, d, e>>) : <<a, b, c, d, e>>[i][1] \in kinds
    BY <1>10, SMT
  <2> QED BY <2>1, PlainOf
<1>11. lookup \in Seq(Steps) /\ PlainPlan(lookup)
  BY <1>1, <1>3, <1>4, <1>5, <1>8 DEF lookup
<1>12. lookup_other \in Seq(Steps) /\ PlainPlan(lookup_other)
  BY <1>1, <1>3, <1>4, <1>5, <1>10 DEF lookup_other
<1>13. Visit \in Seq(Steps) /\ PlainPlan(Visit)
  BY <1>1, <1>3, <1>9 DEF Visit
<1>14. set_value \in Seq(Steps) /\ PlainPlan(set_value)
  <2>1. set_value \in Seq(Steps) /\ Len(set_value) = 2
    BY <1>1, SMT DEF set_value
  <2>2. FromEnd(set_value, 0)[1] = "compare" /\ FromEnd(set_value, 1)[1] = "read"
    BY SMT DEF FromEnd, set_value
  <2>3. ASSUME NEW q \in 0 .. 1 PROVE q = 0 \/ q = 1
    BY SMT
  <2>4. 2 - 1 = 1 /\ "read" \in LockKinds
    BY SMT DEF LockKinds
  <2> QED BY <2>1, <2>2, <2>3, <2>4 DEF PlainPlan
<1> QED BY <1>6, <1>7, <1>11, <1>12, <1>13, <1>14

\* From the comparison on, a call of set_value has the listener, the end of the
\* read lock, the write lock and the assignment to come.
LEMMA SetBegins ==
  ASSUME NEW s \in Seq(Steps), s # <<>>, PlainPlan(s), s[1][1] = "compare",
         NEW r, r = (Listener \o AssignAfter) \o Tail(s)
  PROVE  r \in Seq(Steps) /\ SetPlan(r) /\ Len(r) >= 4 /\ FromEnd(r, 3) = <<"define", 1, 1>>
<1>1. s[1] = FromEnd(s, Len(s) - 1) /\ Len(s) \in Nat \ {0}
  BY FirstStep, Zenon
<1>2. Len(s) - 1 \in 0 .. Len(s) - 1
  BY <1>1
<1>3. Len(s) - 1 = 0
  BY <1>1, <1>2, Zenon DEF PlainPlan, LogKinds, LockKinds
<1> DEFINE more == Listener \o AssignAfter
<1>4. DEBUG \in Levels /\ Root \in Names
  BY LoggersAssumption DEF DEBUG, Levels
<1>5. <<"define", 1, 1>> \in Turns
  <2>1. PICK j \in 1 .. Len(NameSeq) : Root = NameSeq[j]
    BY <1>4, Zenon DEF Names
  <2>2. Len(NameSeq) \in Nat
    BY LoggersAssumption
  <2>3. 1 \in 1 .. Len(NameSeq) /\ 1 \in Nat \ {0}
    BY <2>1, <2>2
  <2> QED BY <2>3 DEF Turns
<1>6. /\ <<"log", Root, DEBUG>> \in Steps /\ <<"define", 1, 1>> \in Steps /\ <<"unread">> \in Steps
      /\ <<"write">> \in Steps /\ <<"assign">> \in Steps
  BY <1>4, <1>5, StepsOf, Zenon DEF LogKinds, LockKinds
<1>7. /\ Listener \in Seq(Steps) /\ Len(Listener) = 2
      /\ Listener[1] = <<"log", Root, DEBUG>> /\ Listener[2] = <<"define", 1, 1>>
  BY <1>6 DEF Listener
<1>8. /\ AssignAfter \in Seq(Steps) /\ Len(AssignAfter) = 3
      /\ AssignAfter[1] = <<"unread">> /\ AssignAfter[2] = <<"write">> /\ AssignAfter[3] = <<"assign">>
  BY <1>6 DEF AssignAfter
<1>9. more \in Seq(Steps) /\ Len(more) = 2 + 3 /\ more[1] = Listener[1] /\ more[2] = Listener[2]
      /\ more[2 + 1] = AssignAfter[1] /\ more[2 + 2] = AssignAfter[2] /\ more[2 + 3] = AssignAfter[3]
  <2> USE Zenon
  <2>1. 1 \in 1 .. 2 /\ 2 \in 1 .. 2 /\ 1 \in 1 .. 3 /\ 2 \in 1 .. 3 /\ 3 \in 1 .. 3
    BY SMT
  <2>2. Listener \in Seq(Steps) /\ AssignAfter \in Seq(Steps)
    BY <1>7, <1>8
  <2>3. /\ more \in Seq(Steps) /\ Len(more) = Len(Listener) + Len(AssignAfter)
        /\ \A i \in 1 .. Len(Listener) : more[i] = Listener[i]
        /\ \A i \in 1 .. Len(AssignAfter) : more[Len(Listener) + i] = AssignAfter[i]
    <3>1. more \in Seq(Steps) /\ Chain(Listener, AssignAfter, more)
      BY <2>2, Joined
    <3> QED BY <3>1 DEF Chain
  <2> HIDE DEF more
  <2>4. Len(Listener) = 2 /\ Len(AssignAfter) = 3
    BY <1>7, <1>8
  <2> QED BY <2>1, <2>3, <2>4
<1> HIDE DEF more
<1>10. Replaced(s, more, r)
  BY <1>9, GoReplaces, Zenon DEF more
<1>11. 2 + 1 = 3 /\ 2 + 2 = 4 /\ 2 + 3 = 5 /\ 5 - 0 = 5 /\ 5 - 1 = 4 /\ 5 - 2 = 3 /\ 5 - 3 = 2 /\ 5 - 4 = 1
  OBVIOUS
<1>12. r \in Seq(Steps) /\ Len(r) = 5
  <2>1. r \in Seq(Steps) /\ Len(r) = Len(more) + Len(s) - 1
    BY <1>10, Zenon DEF Replaced
  <2>2. Len(s) = 1 /\ 5 + 1 - 1 = 5
    BY <1>1, <1>3
  <2> QED BY <1>9, <1>11, <2>1, <2>2, Zenon
<1>13. ASSUME NEW q \in 0 .. 4 PROVE FromEnd(r, q) = more[5 - q]
  <2>1. q >= 0
    OBVIOUS
  <2> QED BY <1>3, <1>10, <1>11, <1>12, <2>1, Zenon DEF Replaced
<1>14. /\ FromEnd(r, 0) = <<"assign">> /\ FromEnd(r, 1) = <<"write">> /\ FromEnd(r, 2) = <<"unread">>
       /\ FromEnd(r, 3) = <<"define", 1, 1>> /\ FromEnd(r, 4) = <<"log", Root, DEBUG>>
  <2> USE Zenon
  <2>1. 0 \in 0 .. 4 /\ 1 \in 0 .. 4 /\ 2 \in 0 .. 4 /\ 3 \in 0 .. 4 /\ 4 \in 0 .. 4
    BY SMT
  <2>2. /\ FromEnd(r, 0) = more[5] /\ FromEnd(r, 1) = more[4] /\ FromEnd(r, 2) = more[3]
        /\ FromEnd(r, 3) = more[2] /\ FromEnd(r, 4) = more[1]
    BY <1>11, <1>13, <2>1
  <2>3. more[5] = AssignAfter[3] /\ more[4] = AssignAfter[2] /\ more[3] = AssignAfter[1]
    BY <1>9, <1>11
  <2>4. FromEnd(r, 0) = <<"assign">> /\ FromEnd(r, 1) = <<"write">> /\ FromEnd(r, 2) = <<"unread">>
    BY <1>8, <2>2, <2>3
  <2>5. FromEnd(r, 3) = <<"define", 1, 1>> /\ FromEnd(r, 4) = <<"log", Root, DEBUG>>
    BY <1>7, <1>9, <2>2
  <2> QED BY <2>4, <2>5
<1>15. SetPlan(r)
  <2>1. ASSUME NEW q \in 4 .. 5 - 1 PROVE FromEnd(r, q)[1] \in LogKinds
    <3>1. q = 4
      OBVIOUS
    <3>2. <<"log", Root, DEBUG>>[1] = "log"
      OBVIOUS
    <3> QED BY <1>14, <3>1, <3>2, Zenon DEF LogKinds
  <2>2. r # <<>>
    <3>1. Len(<<>>) = 0 /\ 5 # 0
      OBVIOUS
    <3> QED BY <1>12, <3>1, Zenon
  <2>3. <<"assign">>[1] = "assign" /\ <<"write">>[1] = "write" /\ <<"unread">>[1] = "unread"
    OBVIOUS
  <2> QED BY <1>5, <1>12, <1>14, <2>1, <2>2, <2>3, Zenon DEF SetPlan
<1>16. Len(r) >= 4
  BY <1>12
<1> QED BY <1>12, <1>14, <1>15, <1>16, Zenon

-----------------------------------------------------------------------------
(* The steps *)

\* Thread t has the plan of a call that sets the value, or of another.
Planned(t) == IF t \in setting THEN SetPlan(todo[t]) ELSE PlainPlan(todo[t])
\* Plans s and r leave the listener as far as it is.
SamePlace(s, r) ==
  \/ Len(s) < 4 /\ Len(r) < 4
  \/ Len(s) >= 4 /\ Len(r) >= 4 /\ FromEnd(r, 3) = FromEnd(s, 3)

\* A thread that goes on replaces its first step; the plans of others stay.
LEMMA Goes ==
  ASSUME LogTypes, NEW t \in Threads, todo[t] # <<>>, NEW more \in Seq(Steps), Go(t, more)
  PROVE  /\ todo' \in [Threads -> Seq(Steps)] /\ Replaced(todo[t], more, todo'[t])
         /\ \A u \in Threads \ {t} : todo'[u] = todo[u]
<1> USE Zenon
<1>1. todo \in [Threads -> Seq(Steps)] /\ todo[t] \in Seq(Steps)
  BY DEF LogTypes
<1>2. Replaced(todo[t], more, more \o Tail(todo[t])) /\ more \o Tail(todo[t]) \in Seq(Steps)
  BY <1>1, GoReplaces DEF Replaced
<1>3. todo' = [todo EXCEPT ![t] = more \o Tail(todo[t])]
  BY DEF Go
<1>4. todo'[t] = more \o Tail(todo[t]) /\ \A u \in Threads \ {t} : todo'[u] = todo[u]
  BY <1>1, <1>3
<1>5. todo' \in [Threads -> Seq(Steps)]
  BY <1>1, <1>2, <1>3
<1> QED BY <1>2, <1>4, <1>5

\* A step of log, or one that takes or gives back a lock, keeps the plans and
\* leaves the listener where it is.
LEMMA QuietGoes ==
  ASSUME LogTypes, NEW t \in Threads, todo[t] # <<>>, NEW more \in Seq(Steps), Go(t, more),
         \/ todo[t][1][1] \in LogKinds /\ \A i \in 1 .. Len(more) : more[i][1] \in LogKinds
         \/ todo[t][1][1] \in LockKinds \cup {"write"} /\ more = <<>>,
         setting' = setting
  PROVE  /\ todo' \in [Threads -> Seq(Steps)] /\ \A u \in Threads : Planned(u)'
         /\ \A u \in setting : SamePlace(todo[u], todo'[u])
<1> USE Zenon
<1>1. /\ todo' \in [Threads -> Seq(Steps)] /\ Replaced(todo[t], more, todo'[t])
      /\ \A u \in Threads \ {t} : todo'[u] = todo[u]
  BY Goes
<1>2. todo[t] \in Seq(Steps) /\ setting \subseteq Threads
  BY DEF LogTypes, TypeOK
<1>3. ASSUME t \notin setting PROVE PlainPlan(todo'[t])
  <2>1. PlainPlan(todo[t])
    BY <1>3 DEF LogTypes
  <2>2. \A i \in 1 .. Len(more) : more[i][1] \in LogKinds \cup LockKinds
    <3>1. \A i \in 1 .. Len(<<>>) : <<>>[i][1] \in LogKinds \cup LockKinds
      BY SMT
    <3> QED BY <3>1
  <2> QED BY <1>1, <1>2, <2>1, <2>2, PlainGoes
<1>4. ASSUME t \in setting PROVE SetPlan(todo'[t]) /\ SamePlace(todo[t], todo'[t])
  <2>1. SetPlan(todo[t])
    BY <1>4 DEF LogTypes
  <2>2. CASE todo[t][1][1] \in LogKinds /\ \A i \in 1 .. Len(more) : more[i][1] \in LogKinds
    BY <1>1, <1>2, <2>1, <2>2, SetLogs DEF SamePlace
  <2>3. CASE todo[t][1][1] \in LockKinds \cup {"write"} /\ more = <<>>
    <3>1. todo[t][1][1] \in LogKinds \cup {"define", "undefine", "unread", "write", "assign"}
      BY <1>2, <2>1, SetAt
    <3>2. todo[t][1][1] \in {"unread", "write"}
      BY <2>3, <3>1 DEF LogKinds, LockKinds
    <3> QED BY <1>1, <1>2, <2>1, <2>3, <3>2, SetEnds DEF SamePlace
  <2> QED BY <2>2, <2>3
<1>5. ASSUME NEW u \in Threads \ {t} PROVE Planned(u)' /\ SamePlace(todo[u], todo'[u])
  <2>1. Planned(u) /\ todo'[u] = todo[u] /\ todo[u] \in Seq(Steps)
    BY <1>1 DEF LogTypes, Planned
  <2>2. Len(todo[u]) \in Nat
    BY <2>1, SMT
  <2>3. SamePlace(todo[u], todo[u])
    BY <2>2, SMT DEF SamePlace
  <2> QED BY <2>1, <2>3 DEF Planned
<1>6. Planned(t)'
  BY <1>3, <1>4 DEF Planned
<1> QED BY <1>1, <1>2, <1>4, <1>5, <1>6

\* A step that changes no logger, no value and no listener's place keeps LogsInv.
LEMMA QuietStep ==
  ASSUME LogsInv, UNCHANGED <<m_val, loggers, setting, defined, raced>>, TypeOK',
         arg' \in [Threads -> Values \cup {NoValue}], \A u \in setting : arg'[u] = arg[u],
         todo' \in [Threads -> Seq(Steps)], \A u \in Threads : Planned(u)',
         \A u \in setting : SamePlace(todo[u], todo'[u])
  PROVE  LogsInv'
<1> USE Zenon
<1>1. LogTypes'
  BY DEF LogsInv, LogTypes, Planned
<1>2. ASSUME ~raced, NEW u \in setting
      PROVE  Progress(todo'[u], loggers, m_val, arg[u], defined)
  <2>1. Progress(todo[u], loggers, m_val, arg[u], defined)
    BY <1>2 DEF LogsInv
  <2>2. SamePlace(todo[u], todo'[u]) /\ todo[u] \in Seq(Steps) /\ todo'[u] \in Seq(Steps)
    BY <1>2 DEF LogsInv, LogTypes, TypeOK
  <2>3. Len(todo[u]) \in Nat /\ Len(todo'[u]) \in Nat
    BY <2>2, SMT
  <2>4. Len(todo[u]) < 4 <=> Len(todo'[u]) < 4
    BY <2>2, <2>3, SMT DEF SamePlace
  <2>5. ~(Len(todo[u]) < 4) => FromEnd(todo'[u], 3) = FromEnd(todo[u], 3)
    BY <2>2 DEF SamePlace
  <2> QED BY <2>1, <2>4, <2>5 DEF Progress
<1>3. ASSUME ~raced' PROVE \A u \in setting' : Progress(todo'[u], loggers', m_val', arg'[u], defined')
  BY <1>2, <1>3
<1>4. ~raced' => /\ \A u, w \in setting' : u = w
                 /\ setting' = {} => \A n \in defined' : AsDefined(loggers'[n], m_val'[n])
  BY DEF LogsInv
<1> QED BY <1>1, <1>3, <1>4 DEF LogsInv

\* Taking and giving back the locks of Config and of the variable.
LEMMA LockStep ==
  ASSUME LogsInv, NEW t \in Threads, Lock(t) \/ Unlock(t)
  PROVE  LogsInv'
<1>1. LogTypes /\ TypeOK
  BY DEF LogsInv, LogTypes
<1>2. /\ UNCHANGED <<m_val, loggers, setting, defined, raced>> /\ UNCHANGED <<arg, holder>>
      /\ Go(t, <<>>) /\ todo[t] # <<>> /\ todo[t][1][1] \in LockKinds \cup {"write"}
  BY Zenon DEF Lock, Unlock, At, LockKinds, history
<1>3. TypeOK'
  <2>1. /\ readers' \subseteq Threads /\ greaders' \subseteq Threads
        /\ writer' \in Threads \cup {Nobody} /\ gwriter' \in Threads \cup {Nobody}
    <3>1. /\ readers \subseteq Threads /\ greaders \subseteq Threads
          /\ writer \in Threads \cup {Nobody} /\ gwriter \in Threads \cup {Nobody}
      BY <1>1, Zenon DEF TypeOK
    <3>2. CASE Lock(t)
      BY <3>1, <3>2 DEF Lock
    <3>3. CASE Unlock(t)
      BY <3>1, <3>3 DEF Unlock
    <3> QED BY <3>2, <3>3
  <2> QED BY <1>1, <1>2, <2>1, Zenon DEF TypeOK
<1>4. <<>> \in Seq(Steps)
  OBVIOUS
<1>5. /\ todo' \in [Threads -> Seq(Steps)] /\ \A u \in Threads : Planned(u)'
      /\ \A u \in setting : SamePlace(todo[u], todo'[u])
  BY <1>1, <1>2, <1>4, QuietGoes, Zenon
<1>6. arg' \in [Threads -> Values \cup {NoValue}]
  BY <1>1, <1>2, Zenon DEF LogTypes
<1> QED BY <1>2, <1>3, <1>5, <1>6, QuietStep, Zenon

\* Logging.
LEMMA LogStep ==
  ASSUME LogsInv, NEW t \in Threads, Log(t) \/ Spin(t) \/ Release(t)
  PROVE  LogsInv'
<1> USE Zenon
<1>1. LogTypes /\ TypeOK /\ todo[t] \in Seq(Steps)
  BY DEF LogsInv, LogTypes
<1>2. /\ UNCHANGED <<m_val, loggers, setting, defined, raced>> /\ UNCHANGED <<arg, readers, writer, greaders, gwriter>>
      /\ todo[t] # <<>> /\ todo[t][1][1] \in LogKinds
  BY DEF Log, Spin, Release, At, LogKinds, history, locks
<1>3. TypeOK'
  <2>1. holder' \in [Names -> Threads \cup {Nobody}]
    <3>1. holder \in [Names -> Threads \cup {Nobody}]
      BY <1>1 DEF TypeOK
    <3>2. \/ holder' = holder \/ holder' = [holder EXCEPT ![todo[t][1][2]] = Nobody]
          \/ holder' = [holder EXCEPT ![todo[t][1][2]] = t]
      BY DEF Log, Spin, Release
    <3> QED BY <3>1, <3>2
  <2> QED BY <1>1, <1>2, <2>1 DEF TypeOK
<1>4. todo[t][1] \in Steps /\ todo[t][1][2] \in Names /\ todo[t][1][3] \in Levels
  BY <1>1, <1>2, FirstStep, StepParts
<1>5. ASSUME NEW k \in LogKinds, NEW n \in Names, NEW e \in Levels
      PROVE  <<k, n, e>> \in Steps /\ <<k, n, e>>[1] \in LogKinds
  BY StepsOf
<1>6. Root \in Names /\ "log" \in LogKinds /\ "spin" \in LogKinds /\ "release" \in LogKinds
  BY LoggersAssumption DEF LogKinds
<1>7. \E more \in Seq(Steps) : Go(t, more) /\ \A i \in 1 .. Len(more) : more[i][1] \in LogKinds
  <2>1. CASE Log(t)
    <3>1. Go(t, <<>>) \/ Go(t, <<<<"spin", todo[t][1][2], todo[t][1][3]>>>>)
      BY <2>1 DEF Log
    <3> QED BY <1>4, <1>5, <1>6, <3>1, ShortLists
  <2>2. CASE Spin(t)
    <3>1. \/ Go(t, <<<<"release", todo[t][1][2], todo[t][1][3]>>>>)
          \/ Go(t, <<<<"log", Root, todo[t][1][3]>>, <<"release", todo[t][1][2], todo[t][1][3]>>>>)
      BY <2>2 DEF Spin, HandsUp
    <3> QED BY <1>4, <1>5, <1>6, <3>1, ShortLists
  <2>3. CASE Release(t)
    BY <2>3, ShortLists DEF Release
  <2> QED BY <2>1, <2>2, <2>3
<1>8. /\ todo' \in [Threads -> Seq(Steps)] /\ \A u \in Threads : Planned(u)'
      /\ \A u \in setting : SamePlace(todo[u], todo'[u])
  BY <1>1, <1>2, <1>7, QuietGoes
<1>9. arg' \in [Threads -> Values \cup {NoValue}]
  BY <1>1, <1>2 DEF LogTypes
<1> QED BY <1>2, <1>3, <1>8, <1>9, QuietStep

\* A thread that makes a call is not setting the value.
LEMMA CallStep ==
  ASSUME LogsInv, NEW t \in Threads, Call(t)
  PROVE  LogsInv'
<1> USE Zenon
<1>1. LogTypes /\ TypeOK /\ todo \in [Threads -> Seq(Steps)] /\ arg \in [Threads -> Values \cup {NoValue}]
  BY DEF LogsInv, LogTypes
<1>2. /\ UNCHANGED <<m_val, loggers, setting, defined, raced>> /\ UNCHANGED <<holder, readers, writer, greaders, gwriter>>
      /\ todo[t] = <<>>
  BY DEF Call, history, locks
<1>3. TypeOK'
  BY <1>1, <1>2 DEF TypeOK
<1>4. t \notin setting
  BY <1>1, <1>2 DEF LogTypes, SetPlan
<1>5. \E steps \in Seq(Steps) : PlainPlan(steps) /\ todo' = [todo EXCEPT ![t] = steps]
  BY CallPlans DEF Call
<1>6. /\ todo' \in [Threads -> Seq(Steps)] /\ \A u \in Threads \ {t} : todo'[u] = todo[u]
      /\ PlainPlan(todo'[t])
  BY <1>1, <1>5
<1>7. ASSUME NEW u \in Threads PROVE Planned(u)'
  BY <1>1, <1>2, <1>4, <1>6 DEF Planned, LogTypes
<1>8. ASSUME NEW u \in setting PROVE SamePlace(todo[u], todo'[u])
  <2>1. todo'[u] = todo[u] /\ todo[u] \in Seq(Steps)
    BY <1>1, <1>4, <1>6 DEF TypeOK
  <2>2. Len(todo[u]) \in Nat
    BY <2>1, SMT
  <2>3. SamePlace(todo[u], todo[u])
    BY <2>2, SMT DEF SamePlace
  <2> QED BY <2>1, <2>3
<1>9. arg' \in [Threads -> Values \cup {NoValue}] /\ \A u \in Threads \ {t} : arg'[u] = arg[u]
  <2>1. arg' = arg \/ \E v \in Values : arg' = [arg EXCEPT ![t] = v]
    BY DEF Call
  <2> QED BY <1>1, <2>1
<1>10. \A u \in setting : arg'[u] = arg[u]
  BY <1>1, <1>4, <1>9 DEF TypeOK
<1> QED BY <1>2, <1>3, <1>6, <1>7, <1>8, <1>9, <1>10, QuietStep

\* The comparison: an equal value ends the call, and with another the listener
\* has everything to do.
LEMMA CompareStep ==
  ASSUME LogsInv, NEW t \in Threads, Compare(t)
  PROVE  LogsInv'
<1> USE Zenon
<1>1. LogTypes /\ TypeOK /\ todo[t] \in Seq(Steps)
  BY DEF LogsInv, LogTypes
<1>2. /\ UNCHANGED <<m_val, loggers, arg>> /\ UNCHANGED <<holder, readers, writer, greaders, gwriter>>
      /\ todo[t] # <<>> /\ todo[t][1][1] = "compare"
  BY DEF Compare, At, locks
<1>3. t \notin setting /\ PlainPlan(todo[t])
  <2>1. t \notin setting
    BY <1>1, <1>2, SetAt DEF LogTypes, LogKinds
  <2> QED BY <1>1, <2>1 DEF LogTypes
<1>4. arg' \in [Threads -> Values \cup {NoValue}]
  BY <1>1, <1>2 DEF LogTypes
<1>5. CASE arg[t] = m_val
  <2>1. Go(t, EarlyReturn) /\ UNCHANGED <<setting, defined, raced>>
    BY <1>5 DEF Compare, history
  <2>2. EarlyReturn \in Seq(Steps) /\ \A i \in 1 .. Len(EarlyReturn) : EarlyReturn[i][1] \in LogKinds \cup LockKinds
    <3>1. <<"unread">>[1] = "unread"
      OBVIOUS
    <3>2. <<"unread">> \in Steps /\ <<"unread">>[1] \in LogKinds \cup LockKinds
      BY <3>1, StepsOf DEF LockKinds
    <3> QED BY <3>2, ShortLists DEF EarlyReturn
  <2>3. /\ todo' \in [Threads -> Seq(Steps)] /\ Replaced(todo[t], EarlyReturn, todo'[t])
        /\ \A u \in Threads \ {t} : todo'[u] = todo[u]
    BY <1>1, <1>2, <2>1, <2>2, Goes
  <2>4. PlainPlan(todo'[t])
    BY <1>1, <1>2, <1>3, <2>2, <2>3, PlainGoes
  <2>5. ASSUME NEW u \in Threads PROVE Planned(u)'
    <3>1. u # t => Planned(u) /\ todo'[u] = todo[u]
      BY <1>1, <2>3 DEF Planned, LogTypes
    <3> QED BY <1>3, <2>1, <2>4, <3>1 DEF Planned
  <2>6. ASSUME NEW u \in setting PROVE SamePlace(todo[u], todo'[u])
    <3>1. todo'[u] = todo[u] /\ todo[u] \in Seq(Steps)
      BY <1>1, <1>3, <2>3 DEF TypeOK, LogTypes
    <3>2. Len(todo[u]) \in Nat
      BY <3>1, SMT
    <3>3. SamePlace(todo[u], todo[u])
      BY <3>2, SMT DEF SamePlace
    <3> QED BY <3>1, <3>3
  <2>7. TypeOK'
    BY <1>1, <1>2, <2>1 DEF TypeOK
  <2> QED BY <1>2, <1>4, <2>1, <2>3, <2>5, <2>6, <2>7, QuietStep
<1>6. CASE arg[t] # m_val
  <2>1. /\ Go(t, Listener \o AssignAfter) /\ setting' = setting \cup {t} /\ raced' = (raced \/ setting # {})
        /\ defined' = defined \cup {n \in Names : arg[t][n] # Undefined}
    BY <1>6 DEF Compare
  <2>2. todo' = [todo EXCEPT ![t] = (Listener \o AssignAfter) \o Tail(todo[t])] /\ todo \in [Threads -> Seq(Steps)]
    BY <1>1, <2>1 DEF Go, LogTypes
  <2>3. todo'[t] = (Listener \o AssignAfter) \o Tail(todo[t]) /\ \A u \in Threads \ {t} : todo'[u] = todo[u]
    BY <2>2
  <2>4. todo'[t] \in Seq(Steps) /\ SetPlan(todo'[t]) /\ Len(todo'[t]) >= 4 /\ FromEnd(todo'[t], 3) = <<"define", 1, 1>>
    BY <1>1, <1>2, <1>3, <2>3, SetBegins
  <2>5. todo' \in [Threads -> Seq(Steps)]
    BY <2>2, <2>3, <2>4
  <2>6. ASSUME NEW u \in Threads PROVE Planned(u)'
    BY <1>1, <2>1, <2>3, <2>4 DEF Planned, LogTypes
  <2>7. TypeOK'
    BY <1>1, <1>2, <2>1 DEF TypeOK
  <2>8. LogTypes'
    <3>1. raced' \in BOOLEAN /\ defined' \subseteq Names
      BY <1>1, <2>1 DEF LogTypes
    <3> QED BY <1>1, <1>2, <1>4, <2>5, <2>6, <2>7, <3>1 DEF LogTypes, Planned
  <2>9. ASSUME ~raced'
        PROVE  /\ \A u, w \in setting' : u = w
               /\ setting' = {} => \A n \in defined' : AsDefined(loggers'[n], m_val'[n])
               /\ \A u \in setting' : Progress(todo'[u], loggers', m_val', arg'[u], defined')
    <3>1. ~raced /\ setting = {} /\ setting' = {t}
      BY <2>1, <2>9
    <3>2. \A n \in defined : AsDefined(loggers[n], m_val[n])
      BY <3>1 DEF LogsInv
    <3>3. Progress(todo'[t], loggers, m_val, arg[t], defined')
      <4>1. ASSUME NEW i \in 1 .. Len(NameSeq), NameSeq[i] \in defined'
            PROVE  Defining(loggers[NameSeq[i]], m_val[NameSeq[i]], arg[t][NameSeq[i]], i, 1, 1)
        <5> DEFINE n == NameSeq[i]
        <5>1. arg[t][n] = Undefined => AsDefined(loggers[n], m_val[n])
          BY <2>1, <3>2, <4>1
        <5>2. ~(i < 1)
          BY SMT
        <5>3. arg[t][n] # Undefined => Rebuilt(loggers[n], arg[t][n], 1)
          <6>1. arg[t][n] \in Definitions \cup {Undefined}
            <7>1. n \in Names /\ arg[t] \in Values \cup {NoValue}
              BY <1>1 DEF Names, LogTypes
            <7> QED BY <7>1, LoggersAssumption DEF NoValue
          <6>2. ASSUME NEW d \in Definitions PROVE Rebuilt(loggers[n], d, 1)
            <7>1. Before(d) \in 2 .. 3 /\ Len(d.appenders) \in Nat
              BY SMT DEF Before, Definitions
            <7> QED BY <7>1, SMT DEF Rebuilt
          <6> QED BY <6>1, <6>2
        <5> QED BY <5>1, <5>2, <5>3 DEF Defining
      <4>2. <<"define", 1, 1>>[1] = "define" /\ <<"define", 1, 1>>[2] = 1 /\ <<"define", 1, 1>>[3] = 1
        OBVIOUS
      <4>3. ~(Len(todo'[t]) < 4)
        <5>1. Len(todo'[t]) \in Nat
          BY <2>4, SMT
        <5> QED BY <2>4, <5>1, SMT
      <4> QED BY <2>4, <4>1, <4>2, <4>3 DEF Progress
    <3> QED BY <1>2, <3>1, <3>3
  <2> QED BY <2>8, <2>9 DEF LogsInv
<1> QED BY <1>5, <1>6

\* The assignment ends the call: what the listener has done is what the new value
\* says.
LEMMA AssignStep ==
  ASSUME LogsInv, NEW t \in Threads, Assign(t)
  PROVE  LogsInv'
<1> USE Zenon
<1>1. LogTypes /\ TypeOK /\ todo[t] \in Seq(Steps) /\ arg[t] \in Values \cup {NoValue}
  BY DEF LogsInv, LogTypes
<1>2. /\ UNCHANGED <<loggers, defined, raced>> /\ UNCHANGED <<holder, readers, greaders, gwriter>>
      /\ todo[t] # <<>> /\ todo[t][1][1] = "assign" /\ Go(t, <<>>) /\ writer' = Nobody
      /\ m_val' = arg[t] /\ arg' = [arg EXCEPT ![t] = NoValue] /\ setting' = setting \ {t}
  BY DEF Assign, At, history
<1>3. t \in setting /\ SetPlan(todo[t])
  <2>1. todo[t][1] = FromEnd(todo[t], Len(todo[t]) - 1) /\ Len(todo[t]) \in Nat \ {0}
    BY <1>1, <1>2, FirstStep
  <2>2. Len(todo[t]) - 1 \in 0 .. Len(todo[t]) - 1
    BY <2>1, SMT
  <2>3. ~PlainPlan(todo[t])
    BY <1>2, <2>1, <2>2 DEF PlainPlan, LogKinds, LockKinds
  <2> QED BY <1>1, <2>3 DEF LogTypes
<1>4. Len(todo[t]) = 1
  BY <1>1, <1>2, <1>3, SetAt
<1>5. /\ todo' \in [Threads -> Seq(Steps)] /\ Replaced(todo[t], <<>>, todo'[t])
      /\ \A u \in Threads \ {t} : todo'[u] = todo[u]
  <2>1. <<>> \in Seq(Steps)
    BY SMT
  <2> QED BY <1>1, <1>2, <2>1, Goes
<1>6. PlainPlan(todo'[t])
  <2>1. Len(todo'[t]) = Len(<<>>) + Len(todo[t]) - 1
    BY <1>5 DEF Replaced
  <2>2. Len(<<>>) = 0 /\ 0 + 1 - 1 = 0
    BY SMT
  <2>3. Len(todo'[t]) = 0
    BY <1>4, <2>1, <2>2
  <2>4. \A q \in 0 .. 0 - 1 : FALSE
    BY SMT
  <2> QED BY <2>3, <2>4 DEF PlainPlan
<1>7. ASSUME NEW u \in Threads PROVE Planned(u)'
  <2>1. u # t => Planned(u) /\ todo'[u] = todo[u]
    BY <1>1, <1>5 DEF Planned, LogTypes
  <2> QED BY <1>2, <1>6, <2>1 DEF Planned
<1>8. TypeOK'
  BY <1>1, <1>2 DEF TypeOK
<1>9. LogTypes'
  <2>1. arg' \in [Threads -> Values \cup {NoValue}]
    BY <1>1, <1>2 DEF LogTypes
  <2> QED BY <1>1, <1>2, <1>5, <1>7, <1>8, <2>1 DEF LogTypes, Planned
<1>10. ASSUME ~raced'
       PROVE  /\ \A u, w \in setting' : u = w
              /\ setting' = {} => \A n \in defined' : AsDefined(loggers'[n], m_val'[n])
              /\ \A u \in setting' : Progress(todo'[u], loggers', m_val', arg'[u], defined')
  <2>1. ~raced /\ setting' = {}
    BY <1>2, <1>3, <1>10 DEF LogsInv
  <2>2. Progress(todo[t], loggers, m_val, arg[t], defined)
    BY <1>3, <2>1 DEF LogsInv
  <2>3. 1 < 4
    BY SMT
  <2>4. \A n \in defined : AsDefined(loggers[n], arg[t][n])
    BY <1>4, <2>2, <2>3 DEF Progress
  <2> QED BY <1>2, <2>1, <2>4
<1> QED BY <1>9, <1>10 DEF LogsInv

\* The calls that rebuild a logger.
LEMMA RebuildCalls ==
  ASSUME NEW d \in Definitions
  PROVE  /\ Before(d) \in 2 .. 3 /\ Len(d.appenders) \in Nat
         /\ Len(Rebuild(d)) = Before(d) + Len(d.appenders)
         /\ Rebuild(d)[1] = <<"level", d.level>> /\ Rebuild(d)[2] = <<"clear">>
         /\ d.formatter # "" => Rebuild(d)[3] = <<"formatter", d.formatter>>
         /\ \A j \in 1 .. Len(d.appenders) : Rebuild(d)[Before(d) + j] = <<"add", d.appenders[j]>>
<1> USE Zenon
<1>1. Len(d.appenders) \in Nat
  BY SMT DEF Definitions
<1> DEFINE added == [j \in 1 .. Len(d.appenders) |-> <<"add", d.appenders[j]>>]
           U == {<<"level", d.level>>, <<"clear">>, <<"formatter", d.formatter>>}
                  \cup {<<"add", d.appenders[j]>> : j \in 1 .. Len(d.appenders)}
           first == <<<<"level", d.level>>, <<"clear">>>>
           second == IF d.formatter = "" THEN <<>> ELSE <<<<"formatter", d.formatter>>>>
<1>3. added \in [1 .. Len(d.appenders) -> U] /\ \A j \in 1 .. Len(d.appenders) : added[j] = <<"add", d.appenders[j]>>
  OBVIOUS
<1>4. <<"level", d.level>> \in U /\ <<"clear">> \in U /\ <<"formatter", d.formatter>> \in U
  OBVIOUS
<1> HIDE DEF U, added
<1>5. added \in Seq(U) /\ Len(added) = Len(d.appenders)
  BY <1>1, <1>3, ListOf
<1>6. first \in Seq(U) /\ Len(first) = 2 /\ first[1] = <<"level", d.level>> /\ first[2] = <<"clear">>
  BY <1>4, SMT
<1>7. second \in Seq(U)
  <2>1. <<>> \in Seq(U)
    BY SMT
  <2>2. <<<<"formatter", d.formatter>>>> \in Seq(U)
    BY <1>4, SMT
  <2> QED BY <2>1, <2>2
<1>8. \/ d.formatter = "" /\ second = <<>> /\ Before(d) = 2
      \/ d.formatter # "" /\ second = <<<<"formatter", d.formatter>>>> /\ Before(d) = 3
  BY DEF Before
<1> HIDE DEF first, second
<1> DEFINE both == first \o second
<1>9. both \in Seq(U) /\ Chain(first, second, both)
  BY <1>6, <1>7, Joined
<1>11. Rebuild(d) = both \o added
  BY DEF Rebuild, first, second, added
<1> HIDE DEF both
<1>12. Chain(both, added, Rebuild(d))
  BY <1>5, <1>9, <1>11, Joined
<1>13. /\ 1 \in 1 .. 2 /\ 2 \in 1 .. 2 /\ 1 \in 1 .. 3 /\ 2 \in 1 .. 3 /\ 3 \in 1 .. 3 /\ 1 \in 1 .. 1
       /\ 2 + 0 = 2 /\ 2 + 1 = 3 /\ 2 \in 2 .. 3 /\ 3 \in 2 .. 3
       /\ Len(<<>>) = 0 /\ Len(<<<<"formatter", d.formatter>>>>) = 1
       /\ <<<<"formatter", d.formatter>>>>[1] = <<"formatter", d.formatter>>
  BY SMT
<1>14. /\ Len(both) = Before(d) /\ both[1] = <<"level", d.level>> /\ both[2] = <<"clear">>
       /\ d.formatter # "" => both[3] = <<"formatter", d.formatter>>
  <2>1. Len(both) = 2 + Len(second) /\ both[1] = <<"level", d.level>> /\ both[2] = <<"clear">>
    BY <1>6, <1>9, <1>13 DEF Chain
  <2>2. CASE d.formatter = ""
    BY <1>8, <1>13, <2>1, <2>2
  <2>3. CASE d.formatter # ""
    <3>1. second = <<<<"formatter", d.formatter>>>> /\ Before(d) = 3
      BY <1>8, <2>3
    <3>2. both[2 + 1] = second[1]
      BY <1>6, <1>9, <1>13, <3>1 DEF Chain
    <3> QED BY <1>13, <2>1, <3>1, <3>2
  <2> QED BY <2>2, <2>3
<1>15. Len(Rebuild(d)) = Before(d) + Len(d.appenders)
  BY <1>5, <1>12, <1>14 DEF Chain
<1>16. /\ Rebuild(d)[1] = <<"level", d.level>> /\ Rebuild(d)[2] = <<"clear">>
       /\ d.formatter # "" => Rebuild(d)[3] = <<"formatter", d.formatter>>
  BY <1>8, <1>12, <1>13, <1>14, ZenonT(30) DEF Chain
<1>17. \A j \in 1 .. Len(d.appenders) : Rebuild(d)[Before(d) + j] = <<"add", d.appenders[j]>>
  BY <1>3, <1>5, <1>12, <1>14 DEF Chain
<1> QED BY <1>1, <1>8, <1>13, <1>15, <1>16, <1>17

\* Every call that rebuilds a logger leaves it a logger.
LEMMA ChangedType ==
  ASSUME NEW lg \in Loggers
  PROVE  /\ \A v \in Levels \cup {Silent} : Changed(lg, <<"level", v>>) = [lg EXCEPT !.level = v]
         /\ Changed(lg, <<"clear">>) = [lg EXCEPT !.appenders = <<>>]
         /\ \A f \in Formats : Changed(lg, <<"formatter", f>>) = IF f \in Malformed THEN lg ELSE [lg EXCEPT !.formatter = f]
         /\ \A f \in Formats : Changed(lg, <<"add", f>>) = [lg EXCEPT !.appenders = Append(@, FormatterOf(lg, f))]
<1>1. ASSUME NEW v PROVE Changed(lg, <<"level", v>>) = [lg EXCEPT !.level = v]
  <2>1. <<"level", v>>[1] = "level" /\ <<"level", v>>[2] = v
    OBVIOUS
  <2> QED BY <2>1, Zenon DEF Changed
<1>2. Changed(lg, <<"clear">>) = [lg EXCEPT !.appenders = <<>>]
  <2>1. <<"clear">>[1] = "clear" /\ "clear" # "level"
    OBVIOUS
  <2> QED BY <2>1, Zenon DEF Changed
<1>3. ASSUME NEW f PROVE Changed(lg, <<"formatter", f>>) = IF f \in Malformed THEN lg ELSE [lg EXCEPT !.formatter = f]
  <2>1. <<"formatter", f>>[1] = "formatter" /\ <<"formatter", f>>[2] = f /\ "formatter" \notin {"level", "clear"}
    OBVIOUS
  <2> QED BY <2>1, Zenon DEF Changed
<1>4. ASSUME NEW f PROVE Changed(lg, <<"add", f>>) = [lg EXCEPT !.appenders = Append(@, FormatterOf(lg, f))]
  <2>1. <<"add", f>>[1] = "add" /\ <<"add", f>>[2] = f /\ "add" \notin {"level", "clear", "formatter"}
    OBVIOUS
  <2> QED BY <2>1, Zenon DEF Changed
<1> QED BY <1>1, <1>2, <1>3, <1>4, Zenon

\* Logger c has this level, this formatter and these appenders.
Has(c, level, formatter, appenders) ==
  c \in Loggers /\ c.level = level /\ c.formatter = formatter /\ c.appenders = appenders

\* A record whose field is replaced.
LEMMA Fields ==
  ASSUME NEW A, NEW B, NEW C, NEW lg \in [level : A, formatter : B, appenders : C]
  PROVE  /\ \A v \in A : LET c == [lg EXCEPT !.level = v] IN
              c \in [level : A, formatter : B, appenders : C] /\ c.level = v /\ c.formatter = lg.formatter /\ c.appenders = lg.appenders
         /\ \A v \in B : LET c == [lg EXCEPT !.formatter = v] IN
              c \in [level : A, formatter : B, appenders : C] /\ c.level = lg.level /\ c.formatter = v /\ c.appenders = lg.appenders
         /\ \A v \in C : LET c == [lg EXCEPT !.appenders = v] IN
              c \in [level : A, formatter : B, appenders : C] /\ c.level = lg.level /\ c.formatter = lg.formatter /\ c.appenders = v
OBVIOUS

\* What the calls leave in the fields of a logger.
LEMMA ChangedParts ==
  ASSUME NEW lg \in Loggers
  PROVE  /\ \A v \in Levels \cup {Silent} : Has(Changed(lg, <<"level", v>>), v, lg.formatter, lg.appenders)
         /\ Has(Changed(lg, <<"clear">>), lg.level, lg.formatter, <<>>)
         /\ \A f \in Formats :
              \/ f \in Malformed /\ Has(Changed(lg, <<"formatter", f>>), lg.level, lg.formatter, lg.appenders)
              \/ f \notin Malformed /\ Has(Changed(lg, <<"formatter", f>>), lg.level, f, lg.appenders)
         /\ \A f \in Formats :
              Has(Changed(lg, <<"add", f>>), lg.level, lg.formatter,
                  Append(lg.appenders, IF f = "" THEN lg.formatter ELSE f))
<1> USE Zenon
<1>0. lg.level \in Levels \cup {Silent} /\ lg.formatter \in Formats /\ lg.appenders \in Seq(Formats)
  BY DEF Loggers
<1>1. ASSUME NEW v \in Levels \cup {Silent} PROVE Has([lg EXCEPT !.level = v], v, lg.formatter, lg.appenders)
  BY Fields DEF Has, Loggers
<1>2. ASSUME NEW f \in Formats PROVE Has([lg EXCEPT !.formatter = f], lg.level, f, lg.appenders)
  BY Fields DEF Has, Loggers
<1>3. ASSUME NEW x \in Seq(Formats) PROVE Has([lg EXCEPT !.appenders = x], lg.level, lg.formatter, x)
  BY Fields DEF Has, Loggers
<1>4. <<>> \in Seq(Formats)
  BY SMT
<1>6. ASSUME NEW x \in Formats PROVE Append(lg.appenders, x) \in Seq(Formats)
  BY <1>0, SMT
<1>5. ASSUME NEW f \in Formats
      PROVE  Has(Changed(lg, <<"add", f>>), lg.level, lg.formatter,
                 Append(lg.appenders, IF f = "" THEN lg.formatter ELSE f))
  <2>1. PICK g \in Formats : g = IF f = "" THEN lg.formatter ELSE f
    BY <1>0
  <2>2. Append(lg.appenders, g) \in Seq(Formats)
    BY <1>6, <2>1
  <2>3. Changed(lg, <<"add", f>>) = [lg EXCEPT !.appenders = Append(lg.appenders, g)]
    BY <2>1, ChangedType DEF FormatterOf
  <2> QED BY <1>3, <2>1, <2>2, <2>3
<1>7. ASSUME NEW f \in Formats
      PROVE  \/ f \in Malformed /\ Has(Changed(lg, <<"formatter", f>>), lg.level, lg.formatter, lg.appenders)
             \/ f \notin Malformed /\ Has(Changed(lg, <<"formatter", f>>), lg.level, f, lg.appenders)
  <2>1. CASE f \in Malformed
    <3>1. Changed(lg, <<"formatter", f>>) = lg
      BY <2>1, ChangedType
    <3> QED BY <2>1, <3>1 DEF Has
  <2>2. CASE f \notin Malformed
    <3>1. Changed(lg, <<"formatter", f>>) = [lg EXCEPT !.formatter = f]
      BY <2>2, ChangedType
    <3> QED BY <1>2, <2>2, <3>1
  <2> QED BY <2>1, <2>2
<1> QED BY <1>1, <1>3, <1>4, <1>5, <1>7, ChangedType

\* Where the calls of a definition are: before the appenders, or at one of them.
LEMMA CallNumbers ==
  ASSUME NEW b \in 2 .. 3, NEW m \in Nat, NEW k \in 1 .. b + m
  PROVE  /\ k + 1 \in 1 .. b + m + 1
         /\ \/ k = 1 \/ k = 2 \/ (k = 3 /\ b = 3)
            \/ k > b /\ k - b \in 1 .. m /\ b + (k - b) = k /\ k >= 3 /\ (b = 3 => k >= 4)
OBVIOUS

\* A list grows at its end.
LEMMA Longer ==
  ASSUME NEW U, NEW m \in Nat, NEW g \in [1 .. m + 1 -> U]
  PROVE  Append([j \in 1 .. m |-> g[j]], g[m + 1]) = g
<1>1. g \in Seq(U) /\ Len(g) = m + 1
  OBVIOUS
<1>2. [j \in 1 .. m |-> g[j]] \in Seq(U) /\ Len([j \in 1 .. m |-> g[j]]) = m
  <2>1. [j \in 1 .. m |-> g[j]] \in [1 .. m -> U]
    OBVIOUS
  <2> QED BY <2>1, ListOf, Zenon
<1> QED BY <1>1, <1>2

\* The fields of a definition.
LEMMA DefinitionParts ==
  ASSUME NEW d \in Definitions
  PROVE  /\ d.level \in Levels /\ d.formatter \in Formats /\ Len(d.appenders) \in Nat
         /\ \A j \in 1 .. Len(d.appenders) : d.appenders[j] \in Formats
<1>1. /\ d.level \in Levels /\ d.formatter \in STRING /\ Len(d.appenders) \in Nat
      /\ \A j \in 1 .. Len(d.appenders) : d.appenders[j] \in STRING
  BY DEF Definitions
<1> QED BY <1>1, Zenon DEF Formats

\* The places up to one that a list has.
LEMMA Within ==
  ASSUME NEW n \in Nat, NEW m \in Nat, m + 1 \in 1 .. n
  PROVE  (\A j \in 1 .. m + 1 : j \in 1 .. n) /\ (\A j \in 1 .. m : j \in 1 .. m + 1) /\ m + 1 \in 1 .. m + 1
OBVIOUS

\* One more appender of the definition is added.
LEMMA AddedOne ==
  ASSUME NEW lg \in Loggers, NEW c, NEW d \in Definitions, NEW m \in Nat, m + 1 \in 1 .. Len(d.appenders),
         c.formatter = lg.formatter, lg.appenders = Added(lg, d, m),
         c.appenders = Append(lg.appenders, IF d.appenders[m + 1] = "" THEN lg.formatter ELSE d.appenders[m + 1])
  PROVE  c.appenders = Added(c, d, m + 1)
<1> USE Zenon
<1> DEFINE g == Added(c, d, m + 1)
<1>1. lg.formatter \in Formats /\ \A j \in 1 .. Len(d.appenders) : d.appenders[j] \in Formats
  <2>1. ASSUME NEW x \in Loggers PROVE x.formatter \in Formats
    BY DEF Loggers
  <2> QED BY <2>1, DefinitionParts
<1>3. /\ \A j \in 1 .. m + 1 : j \in 1 .. Len(d.appenders)
      /\ \A j \in 1 .. m : j \in 1 .. m + 1
      /\ m + 1 \in 1 .. m + 1
  BY DefinitionParts, Within
<1>4. g \in [1 .. m + 1 -> Formats]
  BY <1>1, <1>3 DEF Added
<1>5. g[m + 1] = IF d.appenders[m + 1] = "" THEN lg.formatter ELSE d.appenders[m + 1]
  BY <1>3 DEF Added
<1>6. [j \in 1 .. m |-> g[j]] = lg.appenders
  <2>1. \A j \in 1 .. m : g[j] = IF d.appenders[j] = "" THEN lg.formatter ELSE d.appenders[j]
    BY <1>3 DEF Added
  <2> HIDE DEF g
  <2> QED BY <2>1 DEF Added
<1> HIDE DEF g
<1>7. Append([j \in 1 .. m |-> g[j]], g[m + 1]) = g
  BY <1>4, Longer
<1> QED BY <1>5, <1>6, <1>7 DEF g

\* A call that rebuilds a logger is as far as the next one expects.
LEMMA RebuildOne ==
  ASSUME NEW lg \in Loggers, NEW d \in Definitions, NEW k \in Nat \ {0}, k <= Len(Rebuild(d))
  PROVE  /\ Changed(lg, Rebuild(d)[k]) \in Loggers
         /\ Rebuilt(lg, d, k) => Rebuilt(Changed(lg, Rebuild(d)[k]), d, k + 1)
<1> USE Zenon
<1> DEFINE b == Before(d)
           m == Len(d.appenders)
           c == Changed(lg, Rebuild(d)[k])
<1>1. b \in 2 .. 3 /\ m \in Nat /\ Len(Rebuild(d)) = b + m
  BY RebuildCalls
<1>2. /\ Rebuild(d)[1] = <<"level", d.level>> /\ Rebuild(d)[2] = <<"clear">>
      /\ d.formatter # "" => Rebuild(d)[3] = <<"formatter", d.formatter>>
      /\ \A j \in 1 .. m : Rebuild(d)[b + j] = <<"add", d.appenders[j]>>
  BY RebuildCalls
<1>3. /\ d.level \in Levels /\ d.formatter \in Formats /\ \A j \in 1 .. m : d.appenders[j] \in Formats
  BY DefinitionParts
<1>4. d.formatter # "" <=> b = 3
  <2>1. 2 # 3
    BY SMT
  <2> QED BY <2>1 DEF Before
<1> HIDE DEF b, m
<1>5. k \in 1 .. b + m
  BY <1>1, SMT
<1>6. /\ k + 1 \in 1 .. b + m + 1
      /\ \/ k = 1 \/ k = 2 \/ (k = 3 /\ b = 3)
         \/ k > b /\ k - b \in 1 .. m /\ b + (k - b) = k /\ k >= 3 /\ (b = 3 => k >= 4)
  BY <1>1, <1>5, CallNumbers
<1> SUFFICES c \in Loggers /\ (Rebuilt(lg, d, k) => Rebuilt(c, d, k + 1))
  OBVIOUS
<1> HIDE DEF c
<1>7. CASE k = 1
  <2>1. Has(c, d.level, lg.formatter, lg.appenders)
    BY <1>2, <1>3, <1>7, ChangedParts DEF c
  <2>2. Rebuilt(lg, d, k) => Rebuilt(c, d, k + 1)
    <3>1. ~(k + 1 = 3) /\ ~(k + 1 >= 4) /\ ~(k + 1 > b)
      BY <1>1, <1>7, SMT
    <3> QED BY <1>6, <2>1, <3>1 DEF Rebuilt, Has, b, m
  <2> QED BY <2>1, <2>2 DEF Has
<1>8. CASE k = 2
  <2>1. Has(c, lg.level, lg.formatter, <<>>)
    BY <1>2, <1>8, ChangedParts DEF c
  <2>2. Rebuilt(lg, d, k) => Rebuilt(c, d, k + 1)
    <3>1. ~(k + 1 >= 4) /\ k >= 2
      BY <1>8, SMT
    <3>2. k + 1 > b => (k + 1) - 1 - b = 0
      BY <1>1, <1>8, SMT
    <3>3. Added(c, d, 0) = <<>>
      BY SMT DEF Added
    <3>4. k + 1 > b => c.appenders = Added(c, d, (k + 1) - 1 - b)
      <4>1. c.appenders = <<>>
        BY <2>1 DEF Has
      <4> QED BY <3>2, <3>3, <4>1
    <3>5. Rebuilt(lg, d, k) => c.level = d.level
      <4>1. c.level = lg.level
        BY <2>1 DEF Has
      <4> QED BY <3>1, <4>1 DEF Rebuilt
    <3> QED BY <1>6, <2>1, <3>1, <3>4, <3>5 DEF Rebuilt, Has, b, m
  <2> QED BY <2>1, <2>2 DEF Has
<1>9. CASE k = 3 /\ b = 3
  <2>0. \/ d.formatter \in Malformed /\ Has(c, lg.level, lg.formatter, lg.appenders)
        \/ d.formatter \notin Malformed /\ Has(c, lg.level, d.formatter, lg.appenders)
    BY <1>2, <1>3, <1>4, <1>9, ChangedParts DEF c
  <2>1. /\ c \in Loggers /\ c.level = lg.level /\ c.appenders = lg.appenders
        /\ Accepted(d.formatter) => c.formatter = d.formatter
    BY <2>0 DEF Has, Accepted
  <2>2. Rebuilt(lg, d, k) => Rebuilt(c, d, k + 1)
    <3>1. ~(k + 1 = 3) /\ k >= 2 /\ (k + 1) - 1 - b = 0
      BY <1>9, SMT
    <3>2. Added(c, d, 0) = <<>>
      BY SMT DEF Added
    <3>3. Rebuilt(lg, d, k) => c.appenders = Added(c, d, (k + 1) - 1 - b)
      <4>1. c.appenders = lg.appenders
        BY <2>1
      <4>2. Rebuilt(lg, d, k) => lg.appenders = <<>>
        BY <1>9 DEF Rebuilt
      <4> QED BY <3>1, <3>2, <4>1, <4>2
    <3>4. Rebuilt(lg, d, k) => c.level = d.level
      <4>1. c.level = lg.level
        BY <2>1
      <4> QED BY <3>1, <4>1 DEF Rebuilt
    <3> QED BY <1>6, <1>9, <2>1, <3>1, <3>3, <3>4 DEF Rebuilt, b, m
  <2> QED BY <2>1, <2>2
<1>10. CASE k > b /\ k - b \in 1 .. m /\ b + (k - b) = k /\ k >= 3 /\ (b = 3 => k >= 4)
  <2>1. /\ Rebuild(d)[k] = <<"add", d.appenders[k - b]>> /\ d.appenders[k - b] \in Formats
    BY <1>2, <1>3, <1>10
  <2>2. Has(c, lg.level, lg.formatter,
            Append(lg.appenders, IF d.appenders[k - b] = "" THEN lg.formatter ELSE d.appenders[k - b]))
    BY <2>1, ChangedParts DEF c
  <2>3. ASSUME Rebuilt(lg, d, k) PROVE Rebuilt(c, d, k + 1)
    <3>1. k - 1 - b \in Nat /\ (k - 1 - b) + 1 = k - b /\ (k + 1) - 1 - b = k - b
      BY <1>1, <1>10, SMT
    <3>2. lg.appenders = Added(lg, d, k - 1 - b)
      BY <1>10, <2>3 DEF Rebuilt, b
    <3>3. c.appenders = Added(c, d, (k - 1 - b) + 1)
      <4>1. (k - 1 - b) + 1 \in 1 .. Len(d.appenders)
        BY <1>10, <3>1 DEF m
      <4>2. c.formatter = lg.formatter
        BY <2>2 DEF Has
      <4>3. c.appenders = Append(lg.appenders, IF d.appenders[(k - 1 - b) + 1] = "" THEN lg.formatter ELSE d.appenders[(k - 1 - b) + 1])
        BY <2>2, <3>1 DEF Has
      <4> QED BY <3>1, <3>2, <4>1, <4>2, <4>3, AddedOne
    <3>4. ~(k + 1 = 3) /\ k >= 2
      BY <1>10, SMT
    <3>5. lg.level = d.level /\ (Accepted(d.formatter) => lg.formatter = d.formatter)
      BY <1>4, <1>10, <2>3, <3>4 DEF Rebuilt, Accepted
    <3>6. c.appenders = Added(c, d, (k + 1) - 1 - b)
      BY <3>1, <3>3
    <3>7. c.level = d.level /\ (Accepted(d.formatter) => c.formatter = d.formatter)
      <4>1. c.level = lg.level /\ c.formatter = lg.formatter
        BY <2>2 DEF Has
      <4> QED BY <3>5, <4>1
    <3> QED BY <1>6, <3>4, <3>6, <3>7 DEF Rebuilt, b, m
  <2> QED BY <2>2, <2>3 DEF Has
<1> QED BY <1>6, <1>7, <1>8, <1>9, <1>10 DEF c

\* After the last of them it is as defined.
LEMMA RebuiltAll ==
  ASSUME NEW lg \in Loggers, NEW d \in Definitions, NEW k, Rebuilt(lg, d, k), k > Len(Rebuild(d))
  PROVE  AsDefined(lg, d)
<1> USE Zenon
<1> DEFINE b == Before(d)
           m == Len(d.appenders)
<1>1. b \in 2 .. 3 /\ m \in Nat /\ Len(Rebuild(d)) = b + m
  BY RebuildCalls
<1>2. k \in 1 .. b + m + 1
  BY DEF Rebuilt
<1>3. d.formatter # "" => b = 3
  BY DEF Before
<1>4. lg.level = d.level /\ (Accepted(d.formatter) => lg.formatter = d.formatter) /\ lg.appenders = Added(lg, d, m)
  <2> HIDE DEF b, m
  <2>1. k >= 2 /\ k > b /\ k - 1 - b = m /\ (b = 3 => k >= 4)
    BY <1>1, <1>2, SMT
  <2> QED BY <1>3, <2>1 DEF Rebuilt, Accepted, b
<1>5. d # Undefined
  BY LoggersAssumption
<1> QED BY <1>4, <1>5 DEF AsDefined, Added

\* The two calls that silence a logger.
SilenceCalls == <<<<"level", Silent>>, <<"clear">>>>

\* They are as far as the next one expects, and end with a silent logger.
LEMMA SilenceOne ==
  ASSUME NEW lg \in Loggers, NEW k \in Nat \ {0}
  PROVE  /\ Len(SilenceCalls) = 2
         /\ k <= 2 => /\ Changed(lg, SilenceCalls[k]) \in Loggers
                      /\ Silenced(lg, k) => Silenced(Changed(lg, SilenceCalls[k]), k + 1)
         /\ k > 2 /\ Silenced(lg, k) => AsDefined(lg, Undefined)
<1>1. Len(SilenceCalls) = 2 /\ SilenceCalls[1] = <<"level", Silent>> /\ SilenceCalls[2] = <<"clear">>
  BY DEF SilenceCalls
<1>2. CASE k = 1
  <2>1. Has(Changed(lg, SilenceCalls[k]), Silent, lg.formatter, lg.appenders)
    BY <1>1, <1>2, ChangedParts, Zenon
  <2>2. k + 1 \in 1 .. 3 /\ ~(k + 1 = 3) /\ ~(k > 2)
    BY <1>2
  <2> QED BY <1>1, <2>1, <2>2, Zenon DEF Has, Silenced
<1>3. CASE k = 2
  <2> USE Zenon
  <2>1. Has(Changed(lg, SilenceCalls[k]), lg.level, lg.formatter, <<>>)
    BY <1>1, <1>3, ChangedParts
  <2>2. k + 1 \in 1 .. 3 /\ k >= 2 /\ ~(k > 2)
    BY <1>3, SMT
  <2>3. Silenced(lg, k) => Changed(lg, SilenceCalls[k]).level = Silent
    BY <2>1, <2>2 DEF Silenced, Has
  <2> QED BY <1>1, <2>1, <2>2, <2>3 DEF Has, Silenced
<1>4. CASE k > 2
  <2>1. ~(k <= 2) /\ k >= 2 /\ (k \in 1 .. 3 => k = 3)
    BY <1>4
  <2> QED BY <1>1, <2>1, Zenon DEF Silenced, AsDefined
<1>5. k = 1 \/ k = 2 \/ k > 2
  OBVIOUS
<1> QED BY <1>2, <1>3, <1>4, <1>5

\* A thread in a loop of the listener has compared, and is at a turn of a name.
LEMMA Listening ==
  ASSUME LogTypes, NEW t \in Threads, Listens(t)
  PROVE  /\ t \in setting /\ todo[t] \in Seq(Steps) /\ todo[t] # <<>> /\ SetPlan(todo[t])
         /\ todo[t][1][1] \in {"define", "undefine"} /\ todo[t][1] \in Turns
         /\ todo[t][1][2] \in 1 .. Len(NameSeq) /\ CallAt(t) \in Nat \ {0} /\ NameAt(t) \in Names
<1> USE Zenon
<1>1. todo[t] \in Seq(Steps) /\ todo[t] # <<>> /\ todo[t][1][1] \in {"define", "undefine"}
  BY DEF LogTypes, Listens, At
<1>2. todo[t][1] = FromEnd(todo[t], Len(todo[t]) - 1) /\ Len(todo[t]) \in Nat \ {0} /\ todo[t][1] \in Steps
  BY <1>1, FirstStep
<1>3. Len(todo[t]) - 1 \in 0 .. Len(todo[t]) - 1
  BY <1>2, SMT
<1>4. ~PlainPlan(todo[t])
  BY <1>1, <1>2, <1>3 DEF PlainPlan, LogKinds, LockKinds
<1>5. t \in setting /\ SetPlan(todo[t])
  BY <1>4 DEF LogTypes
<1>6. todo[t][1] \in Turns /\ todo[t][1][2] \in 1 .. Len(NameSeq) /\ todo[t][1][3] \in Nat \ {0}
  BY <1>1, <1>2, StepParts
<1> QED BY <1>1, <1>5, <1>6 DEF NameAt, CallAt, Names

\* A turn that is followed by the list more, which is empty or another turn.
LEMMA TurnGoes ==
  ASSUME LogTypes, NEW t \in Threads, Listens(t), NEW more, more = <<>> \/ \E x \in Turns : more = <<x>>,
         Go(t, more), setting' = setting
  PROVE  /\ todo' \in [Threads -> Seq(Steps)] /\ \A u \in Threads : Planned(u)'
         /\ Len(todo[t]) = 4 /\ FromEnd(todo[t], 3) = todo[t][1]
         /\ Follows(more, todo'[t])
<1> USE Zenon
<1>1. /\ t \in setting /\ todo[t] \in Seq(Steps) /\ todo[t] # <<>> /\ SetPlan(todo[t])
      /\ todo[t][1][1] \in {"define", "undefine"}
  BY Listening
<1>2. more \in Seq(Steps) /\ Len(more) <= 1 /\ (more # <<>> => more[1] \in Turns)
  <2>1. CASE more = <<>>
    BY <2>1, SMT
  <2>2. ASSUME NEW x \in Turns, more = <<x>> PROVE more \in Seq(Steps) /\ Len(more) <= 1 /\ more[1] \in Turns
    <3>1. x \in Steps
      BY StepsOf
    <3> QED BY <2>2, <3>1, SMT
  <2> QED BY <2>1, <2>2
<1>3. /\ todo' \in [Threads -> Seq(Steps)] /\ Replaced(todo[t], more, todo'[t])
      /\ \A u \in Threads \ {t} : todo'[u] = todo[u]
  BY <1>1, <1>2, Goes
<1>4. /\ SetPlan(todo'[t]) /\ Len(todo[t]) = 4 /\ todo[t][1] = FromEnd(todo[t], 3)
      /\ Follows(more, todo'[t])
  BY <1>1, <1>2, <1>3, SetTurns
<1>5. ASSUME NEW u \in Threads PROVE Planned(u)'
  <2>1. u # t => Planned(u) /\ todo'[u] = todo[u]
    BY <1>3 DEF Planned, LogTypes
  <2> QED BY <1>1, <1>4, <2>1 DEF Planned
<1> QED BY <1>3, <1>4, <1>5

\* The definition of a name in a value.
LEMMA ValueAt ==
  ASSUME NEW v \in Values \cup {NoValue}, NEW n \in Names
  PROVE  v[n] \in Definitions \cup {Undefined}
BY LoggersAssumption, Zenon DEF NoValue

\* The listener makes its next call: the logger whose turn it is has come as far
\* as the call after it expects, and the others stay.
LEMMA ChangeStep ==
  ASSUME LogsInv, NEW t \in Threads, Change(t)
  PROVE  LogsInv'
<1> USE Zenon
<1> DEFINE turn == todo[t][1]
           loop == turn[1]
           j == turn[2]
           k == turn[3]
           n == NameSeq[j]
           old == m_val[n]
           new == arg[t][n]
           lg == loggers[n]
           c == Changed(lg, Calls(t)[k])
<1>1. LogTypes /\ TypeOK /\ Listens(t)
  BY DEF LogsInv, LogTypes, Change
<1>2. /\ t \in setting /\ turn \in Turns /\ loop \in {"define", "undefine"}
      /\ j \in 1 .. Len(NameSeq) /\ k \in Nat \ {0} /\ n \in Names
  BY <1>1, Listening DEF CallAt, NameAt
<1>3. /\ UNCHANGED <<m_val, arg, setting, defined, raced>> /\ UNCHANGED <<holder, readers, writer, greaders, gwriter>>
      /\ k <= Len(Calls(t)) /\ loggers' = [loggers EXCEPT ![n] = c] /\ Go(t, NextCall(turn))
  BY DEF Change, history, locks, CallAt, NameAt
<1>4. /\ lg \in Loggers /\ loggers \in [Names -> Loggers] /\ old \in Definitions \cup {Undefined} /\ new \in Definitions \cup {Undefined}
  <2>1. m_val \in Values \cup {NoValue} /\ arg[t] \in Values \cup {NoValue} /\ loggers \in [Names -> Loggers]
    BY <1>1 DEF LogTypes, TypeOK
  <2> QED BY <1>2, <2>1, ValueAt
<1>5. \/ loop = "define" /\ new \in Definitions /\ Calls(t) = Rebuild(new)
      \/ loop = "undefine" /\ old # Undefined /\ new = Undefined /\ Calls(t) = SilenceCalls
  <2>1. Calls(t) # <<>>
    <3>1. Len(<<>>) = 0 /\ ~(k <= 0)
      BY <1>2, SMT
    <3> QED BY <1>3, <3>1
  <2>2. At(t, "define") <=> loop = "define"
    BY <1>1 DEF At, Listens
  <2> QED BY <1>2, <1>4, <2>1, <2>2 DEF Calls, Define, Undefine, NameAt, SilenceCalls
<1>6. c \in Loggers
  <2>1. CASE loop = "define" /\ new \in Definitions /\ Calls(t) = Rebuild(new)
    BY <1>2, <1>3, <1>4, <2>1, RebuildOne
  <2>2. CASE Calls(t) = SilenceCalls
    BY <1>2, <1>3, <1>4, <2>2, SilenceOne
  <2> QED BY <1>5, <2>1, <2>2
<1>7. <<loop, j, k + 1>> \in Turns /\ NextCall(turn) = <<<<loop, j, k + 1>>>>
  <2>1. k + 1 \in Nat \ {0}
    BY <1>2, SMTT(20)
  <2>2. ASSUME NEW x \in {"define", "undefine"}, NEW y \in 1 .. Len(NameSeq), NEW z \in Nat \ {0}
        PROVE  <<x, y, z>> \in Turns
    BY DEF Turns
  <2> QED BY <1>2, <2>1, <2>2 DEF NextCall
<1> DEFINE more == NextCall(turn)
           next == <<loop, j, k + 1>>
<1>8. /\ todo' \in [Threads -> Seq(Steps)] /\ \A u \in Threads : Planned(u)'
      /\ Len(todo[t]) = 4 /\ FromEnd(todo[t], 3) = turn /\ Follows(more, todo'[t])
  BY <1>1, <1>3, <1>7, TurnGoes
<1>9. /\ Len(todo'[t]) = 4 /\ FromEnd(todo'[t], 3) = next
      /\ next[1] = loop /\ next[2] = j /\ next[3] = k + 1
  <2>1. ASSUME NEW x PROVE <<x>> # <<>> /\ <<x>>[1] = x
    OBVIOUS
  <2>2. ASSUME NEW x, NEW y, NEW z PROVE <<x, y, z>>[1] = x /\ <<x, y, z>>[2] = y /\ <<x, y, z>>[3] = z
    OBVIOUS
  <2> QED BY <1>7, <1>8, <2>1, <2>2 DEF Follows
<1>10. loggers' \in [Names -> Loggers] /\ loggers'[n] = c /\ \A x \in Names \ {n} : loggers'[x] = loggers[x]
  BY <1>2, <1>3, <1>4, <1>6
<1>11. LogTypes'
  <2>1. TypeOK'
    <3>1. ASSUME NEW x \in Names PROVE loggers'[x].level \in Levels \cup {Silent}
      <4>1. loggers'[x] \in Loggers
        BY <1>10
      <4> QED BY <4>1 DEF Loggers
    <3> QED BY <1>1, <1>3, <3>1 DEF TypeOK
  <2> QED BY <1>1, <1>3, <1>8, <1>10, <2>1 DEF LogTypes, Planned
<1>12. ASSUME ~raced PROVE Progress(todo'[t], loggers', m_val, arg[t], defined)
  <2>0. ~(4 < 4)
    BY SMT
  <2>1. Progress(todo[t], loggers, m_val, arg[t], defined)
    BY <1>2, <1>12 DEF LogsInv
  <2>2. ASSUME NEW i \in 1 .. Len(NameSeq), NameSeq[i] \in defined
        PROVE  IF loop = "define" THEN Defining(loggers[NameSeq[i]], m_val[NameSeq[i]], arg[t][NameSeq[i]], i, j, k)
               ELSE Undefining(loggers[NameSeq[i]], m_val[NameSeq[i]], arg[t][NameSeq[i]], i, j, k)
    BY <1>8, <2>0, <2>1, <2>2 DEF Progress
  <2>3. ASSUME NEW i \in 1 .. Len(NameSeq), NameSeq[i] \in defined
        PROVE  IF loop = "define" THEN Defining(loggers'[NameSeq[i]], m_val[NameSeq[i]], arg[t][NameSeq[i]], i, j, k + 1)
               ELSE Undefining(loggers'[NameSeq[i]], m_val[NameSeq[i]], arg[t][NameSeq[i]], i, j, k + 1)
    <3>1. CASE i # j
      <4>1. NameSeq[i] # n /\ NameSeq[i] \in Names
        BY <1>2, <3>1, LoggersAssumption DEF Names
      <4>2. loggers'[NameSeq[i]] = loggers[NameSeq[i]]
        BY <1>10, <4>1
      <4> QED BY <2>2, <2>3, <3>1, <4>2 DEF Defining, Undefining
    <3>2. CASE i = j
      <4>1. ~(i < j) /\ ~(i > j)
        BY <1>2, <3>2, SMT
      <4>2. CASE loop = "define" /\ new \in Definitions /\ Calls(t) = Rebuild(new)
        <5>1. new # Undefined
          BY <4>2, LoggersAssumption
        <5>2. Rebuilt(lg, new, k)
          BY <2>2, <2>3, <3>2, <4>2, <5>1 DEF Defining
        <5>3. Rebuilt(c, new, k + 1)
          BY <1>2, <1>3, <1>4, <4>2, <5>2, RebuildOne
        <5> QED BY <1>10, <3>2, <4>1, <4>2, <5>1, <5>3 DEF Defining
      <4>3. CASE loop = "undefine" /\ old # Undefined /\ new = Undefined /\ Calls(t) = SilenceCalls
        <5>1. Silenced(lg, k) /\ loop # "define"
          BY <2>2, <2>3, <3>2, <4>3 DEF Undefining
        <5>2. Silenced(c, k + 1)
          BY <1>2, <1>3, <1>4, <4>3, <5>1, SilenceOne
        <5> QED BY <1>10, <3>2, <4>1, <4>3, <5>1, <5>2 DEF Undefining
      <4> QED BY <1>5, <4>2, <4>3
    <3> QED BY <3>1, <3>2
  <2> QED BY <1>9, <2>0, <2>3 DEF Progress
<1>13. ASSUME ~raced'
       PROVE  /\ \A u, w \in setting' : u = w
              /\ setting' = {} => \A x \in defined' : AsDefined(loggers'[x], m_val'[x])
              /\ \A u \in setting' : Progress(todo'[u], loggers', m_val', arg'[u], defined')
  BY <1>2, <1>3, <1>12, <1>13 DEF LogsInv
<1> QED BY <1>11, <1>13 DEF LogsInv

\* The places before, at and after the one whose turn is next.
LEMMA Places ==
  ASSUME NEW i \in Nat, NEW j \in Nat
  PROVE  /\ i < j + 1 => i < j \/ i = j
         /\ i > j + 1 => i > j
         /\ i = j + 1 => i > j
         /\ i <= j => i < j \/ i = j
         /\ ~(1 > 2)
OBVIOUS

\* No call on a logger has been made yet.
LEMMA NoneMade ==
  ASSUME NEW lg, NEW d \in Definitions
  PROVE  Rebuilt(lg, d, 1) /\ Silenced(lg, 1)
<1>1. Before(d) \in 2 .. 3 /\ Len(d.appenders) \in Nat
  BY DEF Before, Definitions
<1>2. Rebuilt(lg, d, 1)
  BY <1>1 DEF Rebuilt
<1>3. Silenced(lg, 1)
  BY DEF Silenced
<1> QED BY <1>2, <1>3

\* The loop over the new definitions goes to its next name, or ends.
LEMMA Defined ==
  ASSUME NEW lg \in Loggers, NEW old \in Definitions \cup {Undefined}, NEW new \in Definitions \cup {Undefined},
         NEW i \in Nat \ {0}, NEW j \in Nat, NEW k, Defining(lg, old, new, i, j, k),
         i = j => k > Len(Define(new))
  PROVE  Defining(lg, old, new, i, j + 1, 1) /\ (i <= j => Undefining(lg, old, new, i, 1, 1))
<1> USE Zenon
<1>1. /\ i < j + 1 => i < j \/ i = j
      /\ i <= j => i < j \/ i = j
  BY Places
<1>2. ~(i < 1)
  BY SMT
<1>3. (i < j \/ i = j) /\ new # Undefined => AsDefined(lg, new)
  <2>1. CASE i = j /\ new # Undefined
    <3>1. Rebuilt(lg, new, k) /\ new \in Definitions /\ k > Len(Rebuild(new))
      BY <2>1 DEF Defining, Define
    <3> QED BY <3>1, RebuiltAll
  <2> QED BY <2>1 DEF Defining
<1>4. new = Undefined => AsDefined(lg, old)
  BY DEF Defining
<1>5. (new # Undefined => Rebuilt(lg, new, 1)) /\ (old # Undefined => Silenced(lg, 1))
  BY NoneMade
<1>6. Defining(lg, old, new, i, j + 1, 1)
  BY <1>1, <1>3, <1>4, <1>5 DEF Defining
<1>7. ASSUME i <= j PROVE Undefining(lg, old, new, i, 1, 1)
  BY <1>1, <1>2, <1>3, <1>4, <1>5, <1>7 DEF Undefining
<1> QED BY <1>6, <1>7

\* The loop over the old definitions goes to its next name, or ends.
LEMMA Undone ==
  ASSUME NEW lg \in Loggers, NEW old \in Definitions \cup {Undefined}, NEW new \in Definitions \cup {Undefined},
         NEW i \in Nat \ {0}, NEW j \in Nat, NEW k \in Nat \ {0}, Undefining(lg, old, new, i, j, k),
         i = j => k > Len(Undefine(old, new))
  PROVE  Undefining(lg, old, new, i, j + 1, 1) /\ (i <= j => AsDefined(lg, new))
<1> USE Zenon
<1>1. /\ i < j + 1 => i < j \/ i = j
      /\ i > j + 1 => i > j
      /\ i = j + 1 => i > j
      /\ i <= j => i < j \/ i = j
  BY Places
<1>2. i < j \/ i = j => AsDefined(lg, new)
  <2>1. CASE i = j /\ new = Undefined /\ old # Undefined
    <3>1. Silenced(lg, k) /\ k > Len(SilenceCalls)
      BY <2>1 DEF Undefining, Undefine, SilenceCalls
    <3>2. Len(SilenceCalls) = 2 /\ (k > 2 /\ Silenced(lg, k) => AsDefined(lg, Undefined))
      BY SilenceOne
    <3> QED BY <2>1, <3>1, <3>2
  <2> QED BY <2>1 DEF Undefining
<1>3. old # Undefined => Silenced(lg, 1)
  BY NoneMade
<1>4. /\ new # Undefined => AsDefined(lg, new)
      /\ new = Undefined /\ i > j => AsDefined(lg, old)
  BY DEF Undefining
<1>5. Undefining(lg, old, new, i, j + 1, 1)
  BY <1>1, <1>2, <1>3, <1>4 DEF Undefining
<1> QED BY <1>1, <1>2, <1>5

\* The listener has made the calls of a turn: the next name's turn comes, the
\* other loop, or the assignment.
LEMMA TurnStep ==
  ASSUME LogsInv, NEW t \in Threads, Turn(t)
  PROVE  LogsInv'
<1> USE Zenon
<1> DEFINE turn == todo[t][1]
           loop == turn[1]
           j == turn[2]
           k == turn[3]
           more == NextTurn(turn)
           size == Len(NameSeq)
<1>1. LogTypes /\ TypeOK /\ Listens(t)
  BY DEF LogsInv, LogTypes, Turn
<1>2. /\ t \in setting /\ turn \in Turns /\ loop \in {"define", "undefine"}
      /\ j \in 1 .. size /\ k \in Nat \ {0}
  BY <1>1, Listening DEF CallAt
<1>3. /\ UNCHANGED <<m_val, arg, loggers, setting, defined, raced>> /\ UNCHANGED <<holder, readers, writer, greaders, gwriter>>
      /\ k > Len(Calls(t)) /\ Go(t, more)
  BY DEF Turn, history, locks, CallAt
<1>4. size \in Nat /\ Names = {NameSeq[i] : i \in 1 .. size}
  BY LoggersAssumption, SMT DEF Names
<1>5. /\ j < size \/ j = size
      /\ j < size => j + 1 \in 1 .. size
      /\ ~(j < size) => 1 \in 1 .. size /\ j = size
      /\ \A i \in 1 .. size : i \in Nat \ {0} /\ i <= size
      /\ j \in Nat /\ 1 \in Nat \ {0}
  <2> HIDE DEF size, j
  <2> QED BY <1>2, <1>4, SMT
<1>6. \/ j < size /\ more = <<<<loop, j + 1, 1>>>> /\ <<loop, j + 1, 1>> \in Turns
      \/ j = size /\ loop = "define" /\ more = <<<<"undefine", 1, 1>>>> /\ <<"undefine", 1, 1>> \in Turns
      \/ j = size /\ loop = "undefine" /\ more = <<>>
  <2>1. ASSUME NEW x \in {"define", "undefine"}, NEW y \in 1 .. size, NEW z \in Nat \ {0}
        PROVE  <<x, y, z>> \in Turns
    BY DEF Turns
  <2> QED BY <1>2, <1>5, <2>1 DEF NextTurn
<1>7. /\ todo' \in [Threads -> Seq(Steps)] /\ \A u \in Threads : Planned(u)'
      /\ Len(todo[t]) = 4 /\ FromEnd(todo[t], 3) = turn /\ Follows(more, todo'[t])
  BY <1>1, <1>3, <1>6, TurnGoes
<1>8. LogTypes'
  <2>1. TypeOK'
    BY <1>1, <1>3 DEF TypeOK
  <2> QED BY <1>1, <1>3, <1>7, <2>1 DEF LogTypes, Planned
<1>9. ASSUME ~raced PROVE Progress(todo'[t], loggers, m_val, arg[t], defined)
  <2>0. ~(4 < 4) /\ 3 < 4
    BY SMT
  <2>1. Progress(todo[t], loggers, m_val, arg[t], defined)
    BY <1>2, <1>9 DEF LogsInv
  <2>2. ASSUME NEW i \in 1 .. size, NameSeq[i] \in defined
        PROVE  IF loop = "define" THEN Defining(loggers[NameSeq[i]], m_val[NameSeq[i]], arg[t][NameSeq[i]], i, j, k)
               ELSE Undefining(loggers[NameSeq[i]], m_val[NameSeq[i]], arg[t][NameSeq[i]], i, j, k)
    BY <1>7, <2>0, <2>1, <2>2 DEF Progress
  <2>3. ASSUME NEW i \in 1 .. size
        PROVE  /\ loggers[NameSeq[i]] \in Loggers /\ m_val[NameSeq[i]] \in Definitions \cup {Undefined}
               /\ arg[t][NameSeq[i]] \in Definitions \cup {Undefined}
    <3>1. m_val \in Values \cup {NoValue} /\ arg[t] \in Values \cup {NoValue} /\ loggers \in [Names -> Loggers]
      BY <1>1 DEF LogTypes, TypeOK
    <3>2. NameSeq[i] \in Names
      BY <1>4
    <3> QED BY <3>1, <3>2, ValueAt
  <2>4. /\ loop = "define" => k > Len(Define(arg[t][NameSeq[j]]))
        /\ loop = "undefine" => k > Len(Undefine(m_val[NameSeq[j]], arg[t][NameSeq[j]]))
    <3>1. At(t, "define") <=> loop = "define"
      BY <1>1 DEF At, Listens
    <3> QED BY <1>3, <3>1 DEF Calls, NameAt
  <2>5. ASSUME NEW i \in 1 .. size, NameSeq[i] \in defined
        PROVE  /\ loop = "define" =>
                    /\ Defining(loggers[NameSeq[i]], m_val[NameSeq[i]], arg[t][NameSeq[i]], i, j + 1, 1)
                    /\ i <= j => Undefining(loggers[NameSeq[i]], m_val[NameSeq[i]], arg[t][NameSeq[i]], i, 1, 1)
               /\ loop = "undefine" =>
                    /\ Undefining(loggers[NameSeq[i]], m_val[NameSeq[i]], arg[t][NameSeq[i]], i, j + 1, 1)
                    /\ i <= j => AsDefined(loggers[NameSeq[i]], arg[t][NameSeq[i]])
    <3>1. /\ loggers[NameSeq[i]] \in Loggers /\ m_val[NameSeq[i]] \in Definitions \cup {Undefined}
          /\ arg[t][NameSeq[i]] \in Definitions \cup {Undefined}
      BY <2>3
    <3>2. ASSUME loop = "define"
          PROVE  /\ Defining(loggers[NameSeq[i]], m_val[NameSeq[i]], arg[t][NameSeq[i]], i, j, k)
                 /\ i = j => k > Len(Define(arg[t][NameSeq[i]]))
      BY <2>2, <2>4, <2>5, <3>2
    <3>3. ASSUME loop = "undefine"
          PROVE  /\ Undefining(loggers[NameSeq[i]], m_val[NameSeq[i]], arg[t][NameSeq[i]], i, j, k)
                 /\ i = j => k > Len(Undefine(m_val[NameSeq[i]], arg[t][NameSeq[i]]))
      BY <2>2, <2>4, <2>5, <3>3
    <3>4. CASE loop = "define"
      BY <1>5, <3>1, <3>2, <3>4, Defined
    <3>5. CASE loop = "undefine"
      <4>1. i \in Nat \ {0} /\ j \in Nat /\ k \in Nat \ {0} /\ loop # "define"
        BY <1>2, <1>5, <3>5
      <4>2. /\ Undefining(loggers[NameSeq[i]], m_val[NameSeq[i]], arg[t][NameSeq[i]], i, j, k)
            /\ i = j => k > Len(Undefine(m_val[NameSeq[i]], arg[t][NameSeq[i]]))
        BY <3>3, <3>5
      <4>3. /\ Undefining(loggers[NameSeq[i]], m_val[NameSeq[i]], arg[t][NameSeq[i]], i, j + 1, 1)
            /\ i <= j => AsDefined(loggers[NameSeq[i]], arg[t][NameSeq[i]])
        <5> HIDE DEF j, k
        <5> QED BY <3>1, <4>1, <4>2, Undone
      <4> QED BY <4>1, <4>3
    <3> QED BY <3>4, <3>5
  <2>6. ASSUME NEW x PROVE <<x>> # <<>> /\ <<x>>[1] = x
    OBVIOUS
  <2>8. CASE j < size /\ more = <<<<loop, j + 1, 1>>>>
    <3>1. Len(todo'[t]) = 4 /\ FromEnd(todo'[t], 3) = <<loop, j + 1, 1>>
      BY <1>7, <2>6, <2>8 DEF Follows
    <3>2. ASSUME NEW i \in 1 .. size, NameSeq[i] \in defined
          PROVE  IF loop = "define" THEN Defining(loggers[NameSeq[i]], m_val[NameSeq[i]], arg[t][NameSeq[i]], i, j + 1, 1)
                 ELSE Undefining(loggers[NameSeq[i]], m_val[NameSeq[i]], arg[t][NameSeq[i]], i, j + 1, 1)
      BY <1>2, <2>5, <3>2
    <3>3. FromEnd(todo'[t], 3)[1] = loop /\ FromEnd(todo'[t], 3)[2] = j + 1 /\ FromEnd(todo'[t], 3)[3] = 1
      <4> HIDE DEF loop, j
      <4>1. <<loop, j + 1, 1>>[1] = loop /\ <<loop, j + 1, 1>>[2] = j + 1 /\ <<loop, j + 1, 1>>[3] = 1
        OBVIOUS
      <4> QED BY <3>1, <4>1
    <3> QED BY <2>0, <3>1, <3>2, <3>3 DEF Progress
  <2>9. CASE j = size /\ loop = "define" /\ more = <<<<"undefine", 1, 1>>>>
    <3>1. Len(todo'[t]) = 4 /\ FromEnd(todo'[t], 3) = <<"undefine", 1, 1>>
      BY <1>7, <2>6, <2>9 DEF Follows
    <3>2. \A i \in 1 .. size : i <= j
      BY <1>5, <2>9
    <3>3. ASSUME NEW i \in 1 .. size, NameSeq[i] \in defined
          PROVE  Undefining(loggers[NameSeq[i]], m_val[NameSeq[i]], arg[t][NameSeq[i]], i, 1, 1)
      BY <2>5, <2>9, <3>2, <3>3
    <3>4. FromEnd(todo'[t], 3)[1] # "define" /\ FromEnd(todo'[t], 3)[2] = 1 /\ FromEnd(todo'[t], 3)[3] = 1
      <4>1. <<"undefine", 1, 1>>[1] = "undefine" /\ <<"undefine", 1, 1>>[2] = 1 /\ <<"undefine", 1, 1>>[3] = 1
        OBVIOUS
      <4> QED BY <3>1, <4>1
    <3> QED BY <2>0, <3>1, <3>3, <3>4 DEF Progress
  <2>10. CASE j = size /\ loop = "undefine" /\ more = <<>>
    <3>1. Len(todo'[t]) = 3
      BY <1>7, <2>10 DEF Follows
    <3>2. \A i \in 1 .. size : i <= j
      BY <1>5, <2>10
    <3>3. ASSUME NEW n \in defined PROVE AsDefined(loggers[n], arg[t][n])
      <4>1. PICK i \in 1 .. size : n = NameSeq[i]
        BY <1>1, <1>4 DEF LogTypes
      <4> QED BY <2>5, <2>10, <3>2, <4>1
    <3> QED BY <2>0, <3>1, <3>3 DEF Progress
  <2> QED BY <1>6, <2>8, <2>9, <2>10
<1>10. ASSUME ~raced'
       PROVE  /\ \A u, w \in setting' : u = w
              /\ setting' = {} => \A x \in defined' : AsDefined(loggers'[x], m_val'[x])
              /\ \A u \in setting' : Progress(todo'[u], loggers', m_val', arg'[u], defined')
  BY <1>2, <1>3, <1>9, <1>10 DEF LogsInv
<1> QED BY <1>8, <1>10 DEF LogsInv

\* The first state.
LEMMA InitLogs == Init => LogsInv
<1> USE Zenon
<1> SUFFICES ASSUME Init PROVE LogsInv
  OBVIOUS
<1>1. loggers \in [Names -> Loggers]
  <2>0. "default" \in Formats
    BY DEF Formats
  <2>1. ASSUME NEW n \in Names PROVE FirstAppenders(n) \in Seq(Formats)
    <3>1. ASSUME NEW U, NEW x \in U PROVE <<x>> \in Seq(U) /\ <<>> \in Seq(U)
      BY SMT
    <3> QED BY <2>0, <3>1 DEF FirstAppenders
  <2>2. DEBUG \in Levels
    BY SMT DEF DEBUG, Levels
  <2>3. ASSUME NEW n \in Names
        PROVE  [level |-> DEBUG, formatter |-> "default", appenders |-> FirstAppenders(n)] \in Loggers
    <3>1. ASSUME NEW l \in Levels, NEW f \in Formats, NEW a \in Seq(Formats)
          PROVE  [level |-> l, formatter |-> f, appenders |-> a] \in Loggers
      BY DEF Loggers
    <3> QED BY <2>0, <2>1, <2>2, <3>1
  <2> QED BY <2>3 DEF Init
<1>2. TypeOK
  <2>1. ASSUME NEW n \in Names PROVE loggers[n].level \in Levels \cup {Silent}
    <3>1. loggers[n] \in Loggers
      BY <1>1
    <3> QED BY <3>1 DEF Loggers
  <2>2. holder \in [Names -> Threads \cup {Nobody}]
    BY DEF Init
  <2> QED BY <2>1, <2>2 DEF Init, TypeOK
<1>3. todo \in [Threads -> Seq(Steps)] /\ \A t \in Threads : PlainPlan(todo[t])
  <2>1. <<>> \in Seq(Steps)
    BY SMT
  <2>2. PlainPlan(<<>>)
    <3>1. \A q \in 0 .. Len(<<>>) - 1 : FALSE
      BY SMT
    <3> QED BY <3>1 DEF PlainPlan
  <2> QED BY <2>1, <2>2 DEF Init
<1>4. LogTypes
  <2>1. arg \in [Threads -> Values \cup {NoValue}]
    BY DEF Init
  <2> QED BY <1>1, <1>2, <1>3, <2>1 DEF Init, LogTypes
<1> QED BY <1>4 DEF Init, LogsInv

\* A step of any thread, or none.
LEMMA NextLogs == LogsInv /\ [Next]_vars => LogsInv'
<1> USE Zenon
<1> SUFFICES ASSUME LogsInv, [Next]_vars PROVE LogsInv'
  OBVIOUS
<1>1. CASE Next
  <2>1. PICK t \in Threads : \/ Call(t) \/ Lock(t) \/ Unlock(t) \/ Compare(t) \/ Assign(t) \/ Change(t) \/ Turn(t)
                             \/ Log(t) \/ Spin(t) \/ Release(t)
    BY <1>1 DEF Next, StepOf
  <2> QED BY <2>1, CallStep, LockStep, CompareStep, AssignStep, ChangeStep, TurnStep, LogStep
<1>2. CASE UNCHANGED vars
  <2>1. UNCHANGED <<m_val, readers, writer, greaders, gwriter, loggers, holder, todo, arg, setting, defined, raced>>
    BY <1>2 DEF vars
  <2>2. TypeOK'
    BY <2>1 DEF TypeOK, LogsInv, LogTypes
  <2>3. LogTypes'
    BY <2>1, <2>2 DEF LogsInv, LogTypes
  <2> QED BY <2>1, <2>3 DEF LogsInv
<1> QED BY <1>1, <1>2

\* Whatever the threads, the names and the values: when no set_value is under
\* way and no two have overlapped, every logger that some value of "logs" has
\* defined is as the current value says, with the level, the formatter and the
\* appenders of its definition, or silent when it has lost it.
THEOREM LoggersAreAsDefined == SettingsSpec => []LoggersMatch
<1> USE Zenon
<1>1. SettingsInit => LogsInv
  BY InitLogs DEF SettingsInit
<1>2. LogsInv /\ [SettingsNext]_<<part, vars, keys, thread, table>> => LogsInv'
  <2>1. [SettingsNext]_<<part, vars, keys, thread, table>> => [Next]_vars
    BY DEF SettingsNext
  <2> QED BY <2>1, NextLogs
<1>3. LogsInv => LoggersMatch
  BY DEF LogsInv, LogTypes, LoggersMatch
<1> QED BY <1>1, <1>2, <1>3, PTL DEF SettingsSpec

-----------------------------------------------------------------------------
(* add_listener and del_listener *)

Labels == {"idle", "load", "store", "insert", "return", "has"}

KeyTypes ==
  /\ s_fun_id \in Nat /\ adds \in Nat /\ adds <= MaxAdds
  /\ m_cbs \in [Vars -> [K!Keys -> Users \cup {K!None}]] /\ owner \in [Vars -> Users \cup {K!None}]
  /\ at \in [Users -> Labels] /\ on \in [Users -> Vars] /\ reg \in [Users -> Nat] /\ key \in [Users -> Nat]

\* One thread at most is in add_listener, and it has its variable's lock.
OneAdds ==
  /\ \A u \in Users : K!Adding(u) => owner[on[u]] = u
  /\ \A u, w \in Users : K!Adding(u) /\ K!Adding(w) => u = w

\* The counter lags behind the calls by what has still to be stored, and
\* reg is not stale.
Counts ==
  /\ s_fun_id <= adds
  /\ \A u \in Users : at[u] \in {"load", "store"} => s_fun_id < adds
  /\ \A u \in Users : at[u] = "store" => reg[u] = s_fun_id
  /\ \A u \in Users : at[u] \in {"insert", "return"} => s_fun_id > 0

\* K!Keys were given out in order, the one about to be used to nobody, and what
\* was inserted is there.
Given ==
  /\ \A u \in Users : at[u] = "return" => m_cbs[on[u]][s_fun_id] = u
  /\ \A u \in Users : at[u] = "has" =>
       /\ key[u] \in K!Keys /\ key[u] <= s_fun_id /\ m_cbs[on[u]][key[u]] = u
  /\ \A u, w \in Users : at[u] = "insert" /\ at[w] = "has" => key[w] < s_fun_id

KeysInv == overlapped \in BOOLEAN /\ (~overlapped => KeyTypes /\ OneAdds /\ Counts /\ Given)

\* One step of any thread keeps the invariant.
LEMMA KeysStep ==
  ASSUME KeysInv, K!Next, ~overlapped'
  PROVE  (KeyTypes /\ OneAdds /\ Counts /\ Given)'
<1> USE Zenon
<1> USE ListenersAssumption DEF Labels, K!Adding, K!Keys
<1>0. ~overlapped /\ KeyTypes /\ OneAdds /\ Counts /\ Given
  BY SMTT(20) DEF KeysInv, K!Next, K!Begin, K!Load, K!Store, K!Insert, K!Return, K!del_listener
<1>1. ASSUME NEW u \in Users, K!Begin(u) PROVE (KeyTypes /\ OneAdds /\ Counts /\ Given)'
  <2>1. \A w \in Users : ~K!Adding(w)
    BY <1>0, <1>1 DEF K!Begin, K!Exclusive, OneAdds, KeyTypes
  <2>2. KeyTypes' BY <1>0, <1>1, SMTT(20) DEF K!Begin, KeyTypes
  <2>3. OneAdds' BY <1>0, <1>1, <2>1 DEF K!Begin, OneAdds, KeyTypes
  <2>4. Counts' BY <1>0, <1>1, <2>1, SMTT(20) DEF K!Begin, Counts, KeyTypes
  <2>5. Given' BY <1>0, <1>1, <2>1 DEF K!Begin, Given, KeyTypes
  <2> QED BY <2>2, <2>3, <2>4, <2>5
<1>2. ASSUME NEW u \in Users, K!Load(u) PROVE (KeyTypes /\ OneAdds /\ Counts /\ Given)'
  <2>2. KeyTypes' BY <1>0, <1>2 DEF K!Load, KeyTypes
  <2>3. OneAdds' BY <1>0, <1>2 DEF K!Load, OneAdds, KeyTypes
  <2>4. Counts' BY <1>0, <1>2 DEF K!Load, Counts, KeyTypes
  <2>5. Given' BY <1>0, <1>2 DEF K!Load, Given, KeyTypes
  <2> QED BY <2>2, <2>3, <2>4, <2>5
<1>3. ASSUME NEW u \in Users, K!Store(u) PROVE (KeyTypes /\ OneAdds /\ Counts /\ Given)'
  <2>1. s_fun_id' = s_fun_id + 1 /\ s_fun_id < adds
    BY <1>0, <1>3 DEF K!Store, Counts
  <2>2. KeyTypes' BY <1>0, <1>3, SMTT(20) DEF K!Store, KeyTypes
  <2>3. OneAdds' BY <1>0, <1>3 DEF K!Store, OneAdds, KeyTypes
  <2>4. \A w \in Users : w # u => ~K!Adding(w) BY <1>0, <1>3 DEF K!Store, OneAdds
  <2>5. Counts' BY <1>0, <1>3, <2>1, <2>4, SMTT(20) DEF K!Store, Counts, KeyTypes
  <2>6. Given' BY <1>0, <1>3, <2>1, <2>4, SMTT(20) DEF K!Store, Given, KeyTypes
  <2> QED BY <2>2, <2>3, <2>5, <2>6
<1>4. ASSUME NEW u \in Users, K!Insert(u) PROVE (KeyTypes /\ OneAdds /\ Counts /\ Given)'
  <2>1. s_fun_id \in K!Keys BY <1>0, <1>4, SMTT(20) DEF K!Insert, Counts, KeyTypes
  <2>2. KeyTypes' BY <1>0, <1>4, <2>1 DEF K!Insert, KeyTypes
  <2>3. OneAdds' BY <1>0, <1>4 DEF K!Insert, OneAdds, KeyTypes
  <2>4. \A w \in Users : w # u => ~K!Adding(w) BY <1>0, <1>4 DEF K!Insert, OneAdds
  <2>5. Counts' BY <1>0, <1>4 DEF K!Insert, Counts, KeyTypes
  <2>6. Given' BY <1>0, <1>4, <2>1, <2>4, SMTT(20) DEF K!Insert, Given, KeyTypes
  <2> QED BY <2>2, <2>3, <2>5, <2>6
<1>5. ASSUME NEW u \in Users, K!Return(u) PROVE (KeyTypes /\ OneAdds /\ Counts /\ Given)'
  <2>1. s_fun_id \in K!Keys BY <1>0, <1>5, SMTT(20) DEF K!Return, Counts, KeyTypes
  <2>2. KeyTypes' BY <1>0, <1>5 DEF K!Return, KeyTypes
  <2>3. OneAdds' BY <1>0, <1>5 DEF K!Return, OneAdds, KeyTypes
  <2>4. Counts' BY <1>0, <1>5 DEF K!Return, Counts, KeyTypes
  <2>5. \A w \in Users : w # u => ~K!Adding(w) BY <1>0, <1>5 DEF K!Return, OneAdds
  <2>6. Given' BY <1>0, <1>5, <2>1, <2>5, SMTT(20) DEF K!Return, Given, KeyTypes
  <2> QED BY <2>2, <2>3, <2>4, <2>6
<1>6. ASSUME NEW u \in Users, K!del_listener(u) PROVE (KeyTypes /\ OneAdds /\ Counts /\ Given)'
  <2>1. key[u] \in K!Keys /\ on[u] \in Vars BY <1>0, <1>6 DEF K!del_listener, Given, KeyTypes
  <2>2. KeyTypes' BY <1>0, <1>6, <2>1 DEF K!del_listener, KeyTypes
  <2>3. OneAdds' BY <1>0, <1>6 DEF K!del_listener, OneAdds, KeyTypes
  <2>4. Counts' BY <1>0, <1>6 DEF K!del_listener, Counts, KeyTypes
  <2>5. \A w \in Users : K!Adding(w) => on[w] # on[u]
    BY <1>0, <1>6 DEF K!del_listener, OneAdds
  <2>6. Given' BY <1>0, <1>6, <2>1, <2>5, SMTT(20) DEF K!del_listener, Given, KeyTypes
  <2> QED BY <2>2, <2>3, <2>4, <2>6
<1> QED BY <1>1, <1>2, <1>3, <1>4, <1>5, <1>6, ZenonT(30) DEF K!Next

\* Whoever has added a listener finds it, and deletes no other, with the key it
\* was given, for any number of threads, variables of the type and calls, as
\* long as no two variables were given listeners at the same time.
THEOREM KeysAreOwn == SettingsSpec => []KeyIsOwn
<1>1. ASSUME SettingsInit PROVE KeysInv
  <2>1. K!Init BY <1>1 DEF SettingsInit
  <2>2. KeyTypes BY <2>1, ListenersAssumption DEF K!Init, KeyTypes, Labels, K!Keys
  <2>3. \A u \in Users : at[u] = "idle"  BY <2>1, SMTT(20) DEF K!Init
  <2>4. OneAdds /\ Given BY <2>3 DEF OneAdds, Given, K!Adding
  <2>5. Counts BY <2>1, <2>3 DEF K!Init, Counts
  <2> QED BY <2>1, <2>2, <2>4, <2>5, Zenon DEF K!Init, KeysInv
<1>2. ASSUME KeysInv, [SettingsNext]_<<part, vars, keys, thread, table>> PROVE KeysInv'
  <2>1. CASE UNCHANGED keys
    BY <1>2, <2>1 DEF keys, KeysInv, KeyTypes, OneAdds, Counts, Given, K!Adding
  <2>2. CASE K!Next
    <3>1. overlapped' \in BOOLEAN
      BY <1>2, <2>2, Zenon DEF KeysInv, K!Next, K!Begin, K!Load, K!Store, K!Insert, K!Return, K!del_listener
    <3>2. ~overlapped' => (KeyTypes /\ OneAdds /\ Counts /\ Given)'
      BY <1>2, <2>2, KeysStep
    <3> QED BY <3>1, <3>2 DEF KeysInv
  <2> QED BY <1>2, <2>1, <2>2, SMTT(20) DEF SettingsNext
<1>3. KeysInv => KeyIsOwn
  BY DEF KeysInv, KeyIsOwn, K!KeyIsOwn, Given
<1> QED BY <1>1, <1>2, <1>3, PTL DEF SettingsSpec

-----------------------------------------------------------------------------
(* The constructor of Thread *)

\* Until run notifies, the semaphore is 0 and the owner has no object to drop;
\* what run passes on its way there it has done.  A signal ends all of this.
StartInv ==
  interrupted \in BOOLEAN /\
  (~interrupted =>
    /\ wild = FALSE /\ m_semaphore \in Nat
    /\ runner \in {"none", "start", "swap", "notify", "call", "ended"}
    /\ thread_owner \in {"none", "threw"} => runner = "none"
    /\ runner \in {"none", "start", "swap", "notify"} =>
         m_semaphore = 0 /\ thread_owner \in {"none", "threw", "wait"}
    /\ runner \in {"swap", "notify", "call", "ended"} => m_id
    /\ runner \in {"notify", "call", "ended"} => ~m_cb)

\* A step of the owner or of run keeps it.
LEMMA StartStep ==
  ASSUME StartInv, S!Next
  PROVE  StartInv'
<1> USE Zenon
<1> USE DEF StartInv
<1>1. CASE S!Construct BY <1>1 DEF S!Construct
<1>2. CASE S!wait BY <1>2, SMTT(20) DEF S!wait
<1>3. CASE S!Interrupt BY <1>3 DEF S!Interrupt
<1>4. CASE S!join BY <1>4 DEF S!join
<1>5. CASE S!Destroy BY <1>5 DEF S!Destroy
<1>6. CASE S!RunStarts BY <1>6 DEF S!RunStarts, S!Uses, S!After
<1>7. CASE S!RunSwaps BY <1>7 DEF S!RunSwaps, S!Uses, S!After
<1>8. CASE S!notify BY <1>8, SMTT(20) DEF S!notify, S!Uses, S!After
<1>9. CASE S!RunCalls BY <1>9 DEF S!RunCalls
<1> QED BY <1>1, <1>2, <1>3, <1>4, <1>5, <1>6, <1>7, <1>8, <1>9 DEF S!Next, S!Runs

\* When the constructor of Thread returns without a signal the thread has its id
\* and the callback, and run does not use the object any more, so that its owner
\* may destroy it at once.
THEOREM ConstructorHandsOver == SettingsSpec => []HandedOver
<1>1. ASSUME SettingsInit PROVE StartInv
  <2>1. m_semaphore = 0 /\ 0 \in Nat
    BY <1>1 DEF SettingsInit, S!Init
  <2>2. /\ thread_owner = "none" /\ runner = "none"
        /\ interrupted = FALSE /\ wild = FALSE
    BY <1>1, Zenon DEF SettingsInit, S!Init
  <2> QED BY <2>1, <2>2, Zenon DEF StartInv
<1>2. ASSUME StartInv, [SettingsNext]_<<part, vars, keys, thread, table>> PROVE StartInv'
  <2>1. CASE UNCHANGED thread
    BY <1>2, <2>1 DEF thread, StartInv
  <2>2. CASE S!Next
    BY <1>2, <2>2, StartStep
  <2> QED BY <1>2, <2>1, <2>2 DEF SettingsNext
<1>3. StartInv => HandedOver
  BY DEF StartInv, HandedOver, S!HandedOver
<1> QED BY <1>1, <1>2, <1>3, PTL DEF SettingsSpec

-----------------------------------------------------------------------------
(* The servlet table *)

\* The entries of a list.
LEMMA Entries ==
  ASSUME NEW E, NEW s \in Seq(E)
  PROVE  Len(s) \in Nat /\ DOMAIN s = 1 .. Len(s) /\ \A i \in 1 .. Len(s) : s[i] \in E
OBVIOUS

\* The entries of two lists, one after the other.
LEMMA Concatenation ==
  ASSUME NEW E, NEW s \in Seq(E), NEW t \in Seq(E)
  PROVE  /\ s \o t \in Seq(E) /\ Len(s \o t) = Len(s) + Len(t)
         /\ \A i \in 1 .. Len(s) + Len(t) : (s \o t)[i] = IF i <= Len(s) THEN s[i] ELSE t[i - Len(s)]
OBVIOUS

\* Two lists with the same entries are the same list.

\* D!Min is the least element of every nonempty set of naturals.
HasLeast == \A E \in SUBSET Nat : E # {} => D!Min(E) \in E /\ \A m \in E : D!Min(E) <= m

\* m_globs.erase(it)
Erase(s, k) == SubSeq(s, 1, k - 1) \o SubSeq(s, k + 1, Len(s))
Old(k, j) == IF j < k THEN j ELSE j + 1

\* Taking one entry out of m_globs leaves the others in their order.
LEMMA EraseProperties ==
  ASSUME NEW E, NEW s \in Seq(E), NEW k \in 1 .. Len(s)
  PROVE  /\ Erase(s, k) \in Seq(E) /\ Len(Erase(s, k)) = Len(s) - 1
         /\ \A j \in 1 .. Len(s) - 1 : Erase(s, k)[j] = s[Old(k, j)]
<1> USE Zenon
<1> DEFINE a == SubSeq(s, 1, k - 1)
           b == SubSeq(s, k + 1, Len(s))
<1>1. /\ a \in Seq(E) /\ Len(a) = k - 1 /\ \A j \in 1 .. k - 1 : a[j] = s[j]
  BY SMTT(20)
<1>2. /\ b \in Seq(E) /\ Len(b) = Len(s) - k /\ \A j \in 1 .. Len(s) - k : b[j] = s[k + j]
  BY SMTT(20)
<1> HIDE DEF a, b
<1>3. /\ a \o b \in Seq(E) /\ Len(a \o b) = Len(a) + Len(b)
      /\ \A j \in 1 .. Len(a) + Len(b) :
           (a \o b)[j] = IF j <= Len(a) THEN a[j] ELSE b[j - Len(a)]
  BY <1>1, <1>2, Concatenation
<1>4. ASSUME NEW j \in 1 .. Len(s) - 1 PROVE (a \o b)[j] = s[Old(k, j)]
  <2>1. CASE j < k BY <1>1, <1>2, <1>3, <2>1, SMTT(20) DEF Old
  <2>2. CASE ~(j < k)
    <3>1. (a \o b)[j] = b[j - (k - 1)] /\ j - (k - 1) \in 1 .. Len(s) - k BY <1>1, <1>2, <1>3, <2>2, SMTT(30)
    <3>2. b[j - (k - 1)] = s[k + (j - (k - 1))] BY <1>2, <3>1
    <3>3. k + (j - (k - 1)) = j + 1 BY SMTT(20)
    <3> QED BY <2>2, <3>1, <3>2, <3>3 DEF Old
  <2> QED BY <2>1, <2>2
<1>5. Len(a \o b) = Len(s) - 1 BY <1>1, <1>2, <1>3, SMTT(20)
<1>6. Erase(s, k) = a \o b BY DEF Erase, a, b
<1> QED BY <1>3, <1>4, <1>5, <1>6

Entry == Patterns \X Nat

\* The entries of m_globs are the last calls for their patterns, oldest first,
\* and every pattern that is registered has one.
GlobInv(globs, glob, n) ==
  /\ globs \in Seq(Entry)
  /\ \A i \in 1 .. Len(globs) : globs[i][2] \in 1 .. n /\ glob[globs[i][1]] = globs[i][2]
  /\ \A i, j \in 1 .. Len(globs) : i < j => globs[i][2] < globs[j][2]
  /\ \A p \in Patterns : glob[p] # D!None => \E i \in 1 .. Len(globs) : globs[i][1] = p

DispatchInv ==
  /\ changes_made \in Nat /\ last.uri = m_datas /\ m_datas \in [Uris -> Int] /\ last.glob \in [Patterns -> Int]
  /\ GlobInv(m_globs, last.glob, changes_made)

\* Erasing the entry of a pattern leaves the other entries, and none of that
\* pattern.
LEMMA EraseFirstKeeps ==
  ASSUME HasLeast, NEW p \in Patterns, DispatchInv, NEW g, g = D!EraseFirst(p)
  PROVE  GlobInv(g, [last.glob EXCEPT ![p] = D!None], changes_made)
<1> USE Zenon
<1> DEFINE hits == {i \in DOMAIN m_globs : m_globs[i][1] = p}
           glob == [last.glob EXCEPT ![p] = D!None]
<1>0. /\ m_globs \in Seq(Entry) /\ DOMAIN m_globs = 1 .. Len(m_globs) /\ Len(m_globs) \in Nat
      /\ last.glob \in [Patterns -> Int] /\ changes_made \in Nat
      /\ \A i \in 1 .. Len(m_globs) : m_globs[i] \in Entry
  <2>1. m_globs \in Seq(Entry) BY DEF DispatchInv, GlobInv
  <2> QED BY <2>1, Entries DEF DispatchInv
<1>1. /\ \A i \in 1 .. Len(m_globs) : /\ m_globs[i][2] \in 1 .. changes_made /\ m_globs[i][1] \in Patterns
                                      /\ last.glob[m_globs[i][1]] = m_globs[i][2] /\ m_globs[i][2] \in Nat
      /\ \A i, j \in 1 .. Len(m_globs) : i < j => m_globs[i][2] < m_globs[j][2]
      /\ \A q \in Patterns : last.glob[q] # D!None => \E i \in 1 .. Len(m_globs) : m_globs[i][1] = q
  BY <1>0 DEF DispatchInv, GlobInv, Entry
<1>2. glob[p] = D!None /\ \A q \in Patterns : q # p => glob[q] = last.glob[q] BY <1>0
<1> HIDE DEF glob
<1>3. CASE hits = {}
  <2>1. g = m_globs BY <1>3 DEF D!EraseFirst
  <2>2. \A i \in 1 .. Len(m_globs) : m_globs[i][1] # p BY <1>0, <1>3
  <2> HIDE DEF hits
  <2>3. \A q \in Patterns : glob[q] # D!None => \E i \in 1 .. Len(g) : g[i][1] = q BY <1>1, <1>2, <2>1
  <2>4. \A i \in 1 .. Len(g) : g[i][2] \in 1 .. changes_made /\ glob[g[i][1]] = g[i][2] BY <1>1, <1>2, <2>1, <2>2, SMTT(20)
  <2> QED BY <1>0, <1>1, <2>1, <2>3, <2>4 DEF GlobInv, glob
<1>4. CASE hits # {}
  <2> DEFINE k == D!Min(hits)
  <2>1. g = Erase(m_globs, k) BY <1>4 DEF D!EraseFirst, Erase
  <2>2. k \in hits
    <3>1. hits \subseteq Nat BY <1>0, SMTT(20)
    <3> HIDE DEF hits
    <3> QED BY <1>4, <3>1 DEF HasLeast
  <2>3. k \in 1 .. Len(m_globs) /\ m_globs[k][1] = p BY <1>0, <2>2
  <2> HIDE DEF hits, k
  <2>4. /\ g \in Seq(Entry) /\ Len(g) = Len(m_globs) - 1
        /\ \A j \in 1 .. Len(m_globs) - 1 : g[j] = m_globs[Old(k, j)]
    BY <1>0, <2>1, <2>3, EraseProperties
  <2>n. Len(m_globs) \in Nat /\ k \in 1 .. Len(m_globs) /\ Len(g) = Len(m_globs) - 1 BY <1>0, <2>3, <2>4
  <2>5. \A j \in 1 .. Len(g) : Old(k, j) \in 1 .. Len(m_globs) /\ Old(k, j) # k BY <2>n, SMTT(20) DEF Old
  <2>6. \A i, j \in 1 .. Len(g) : i < j => Old(k, i) < Old(k, j) BY <1>0, <2>3, <2>4, SMTT(20) DEF Old
  <2>7. \A i \in 1 .. Len(m_globs) : i # k => \E j \in 1 .. Len(g) : Old(k, j) = i
    <3> SUFFICES ASSUME NEW i \in 1 .. Len(m_globs), i # k PROVE \E j \in 1 .. Len(g) : Old(k, j) = i OBVIOUS
    <3>1. CASE i < k BY <1>0, <2>3, <2>4, <3>1, SMTT(30) DEF Old
    <3>2. CASE i > k
      <4>1. i - 1 \in 1 .. Len(g) /\ Old(k, i - 1) = i BY <1>0, <2>3, <2>4, <3>2, SMTT(20) DEF Old
      <4> QED BY <4>1
    <3> QED BY <1>0, <2>3, <3>1, <3>2, SMTT(20)
  <2>8. \A i \in 1 .. Len(m_globs) : i # k => m_globs[i][1] # p
    <3> SUFFICES ASSUME NEW i \in 1 .. Len(m_globs), i # k, m_globs[i][1] = p PROVE FALSE OBVIOUS
    <3>1. m_globs[i][2] = m_globs[k][2] BY <1>1, <2>3, SMTT(20)
    <3>2. i < k \/ k < i BY <1>0, <2>3, SMTT(20)
    <3> QED BY <1>1, <2>3, <3>1, <3>2, SMTT(20)
  <2>9. \A j \in 1 .. Len(g) : g[j] = m_globs[Old(k, j)] BY <2>4
  <2>10. \A j \in 1 .. Len(g) : g[j][2] \in 1 .. changes_made /\ glob[g[j][1]] = g[j][2]
    <3> SUFFICES ASSUME NEW j \in 1 .. Len(g) PROVE g[j][2] \in 1 .. changes_made /\ glob[g[j][1]] = g[j][2]
      OBVIOUS
    <3>1. Old(k, j) \in 1 .. Len(m_globs) /\ m_globs[Old(k, j)][1] # p BY <2>5, <2>8
    <3>2. glob[m_globs[Old(k, j)][1]] = m_globs[Old(k, j)][2] BY <1>1, <1>2, <3>1
    <3> QED BY <1>1, <2>9, <3>1, <3>2
  <2>11. \A i, j \in 1 .. Len(g) : i < j => g[i][2] < g[j][2]
    <3> SUFFICES ASSUME NEW i \in 1 .. Len(g), NEW j \in 1 .. Len(g), i < j PROVE g[i][2] < g[j][2]
      OBVIOUS
    <3>1. Old(k, i) < Old(k, j) BY <2>6
    <3>2. m_globs[Old(k, i)][2] < m_globs[Old(k, j)][2] BY <1>1, <2>5, <3>1
    <3> QED BY <2>9, <3>2
  <2>12. \A q \in Patterns : glob[q] # D!None => \E j \in 1 .. Len(g) : g[j][1] = q
    <3> SUFFICES ASSUME NEW q \in Patterns, glob[q] # D!None PROVE \E j \in 1 .. Len(g) : g[j][1] = q OBVIOUS
    <3>1. PICK i \in 1 .. Len(m_globs) : m_globs[i][1] = q BY <1>1, <1>2
    <3>2. i # k BY <1>2, <2>3, <3>1
    <3> QED BY <2>7, <2>9, <3>1, <3>2
  <2> QED BY <2>4, <2>10, <2>11, <2>12 DEF GlobInv, glob
<1> QED BY <1>3, <1>4

\* Every call keeps the table in step with the last calls.
LEMMA DispatchStep ==
  ASSUME HasLeast, DispatchInv, [D!Next]_(D!vars)
  PROVE  DispatchInv'
<1> USE Zenon
<1>0. /\ changes_made \in Nat /\ last.uri = m_datas /\ m_datas \in [Uris -> Int]
      /\ last.glob \in [Patterns -> Int] /\ GlobInv(m_globs, last.glob, changes_made)
  BY DEF DispatchInv
<1>1. changes_made + 1 \in Int /\ D!None \in Int BY <1>0, SMTT(20) DEF D!None
\* what an older call wrote, a newer call's number still bounds
<1>2. ASSUME NEW g, NEW glob, GlobInv(g, glob, changes_made) PROVE GlobInv(g, glob, changes_made + 1)
  <2>1. \A i \in 1 .. Len(g) : g[i][2] \in 1 .. changes_made + 1 BY <1>0, <1>2, SMTT(20) DEF GlobInv
  <2> QED BY <1>2, <2>1, ZenonT(30) DEF GlobInv
<1>3. ASSUME NEW u \in Uris, D!add_servlet(u) \/ D!del_servlet(u) PROVE DispatchInv'
  <2>1. /\ changes_made' = changes_made + 1 /\ m_globs' = m_globs /\ last'.glob = last.glob /\ last'.uri = m_datas'
        /\ m_datas' \in [Uris -> Int]
    BY <1>0, <1>1, <1>3, SMTT(20) DEF D!add_servlet, D!del_servlet, D!Call
  <2>2. GlobInv(m_globs', last'.glob, changes_made + 1) BY <1>0, <1>2, <2>1
  <2>3. changes_made + 1 \in Nat BY <1>0, SMTT(20)
  <2> QED BY <1>0, <2>1, <2>2, <2>3, ZenonT(30) DEF DispatchInv
<1>4. ASSUME NEW p \in Patterns, D!del_glob_servlet(p) PROVE DispatchInv'
  <2>1. /\ changes_made' = changes_made + 1 /\ m_globs' = D!EraseFirst(p) /\ m_datas' = m_datas
        /\ last'.glob = [last.glob EXCEPT ![p] = D!None] /\ last'.uri = m_datas
    BY <1>0, <1>4 DEF D!del_glob_servlet, D!Call
  <2>2. GlobInv(m_globs', last'.glob, changes_made + 1) BY <1>2, <2>1, EraseFirstKeeps
  <2>3. last'.glob \in [Patterns -> Int] BY <1>0, <1>1, <2>1, ZenonT(30)
  <2>4. changes_made' \in Nat BY <1>0, <2>1, SMTT(20)
  <2>5. GlobInv(m_globs', last'.glob, changes_made') BY <2>1, <2>2
  <2>6. last'.uri = m_datas' /\ m_datas' \in [Uris -> Int] BY <1>0, <2>1
  <2> QED BY <2>3, <2>4, <2>5, <2>6 DEF DispatchInv
<1>5. ASSUME NEW p \in Patterns, D!add_glob_servlet(p) PROVE DispatchInv'
  <2> DEFINE g == D!EraseFirst(p)
             n == changes_made + 1
             glob == [last.glob EXCEPT ![p] = n]
             cut == [last.glob EXCEPT ![p] = D!None]
             h == Append(g, <<p, n>>)
  <2>1. /\ changes_made' = n /\ m_globs' = h /\ m_datas' = m_datas /\ last'.glob = glob /\ last'.uri = m_datas
    BY <1>0, <1>5 DEF D!add_glob_servlet, D!Call
  <2>2. GlobInv(g, cut, changes_made) BY EraseFirstKeeps
  <2>3. /\ glob \in [Patterns -> Int] /\ glob[p] = n /\ cut[p] = D!None
        /\ \A q \in Patterns : q # p => glob[q] = cut[q]
    BY <1>0, <1>1
  <2>n. n \in Nat /\ changes_made < n /\ changes_made \in Nat BY <1>0, SMTT(20)
  <2> HIDE DEF g, cut, glob, n
  <2>4. g \in Seq(Entry) /\ <<p, n>> \in Entry BY <2>2, <2>n DEF GlobInv, Entry
  <2>5. /\ h \in Seq(Entry) /\ Len(h) = Len(g) + 1 /\ h[Len(g) + 1] = <<p, n>> /\ Len(g) \in Nat
        /\ \A i \in 1 .. Len(g) : h[i] = g[i]
    BY <2>4, Entries, SMTT(20)
  <2> HIDE DEF h
  <2>6. \A i \in 1 .. Len(g) : g[i][2] \in 1 .. changes_made /\ cut[g[i][1]] = g[i][2] /\ g[i][1] \in Patterns
    BY <2>2, <2>4, Entries, SMTT(20) DEF GlobInv, Entry
  <2>7. \A i \in 1 .. Len(h) : i \in 1 .. Len(g) \/ i = Len(g) + 1 BY <2>5, SMTT(20)
  <2>8. \A i \in 1 .. Len(g) : g[i][1] # p
    BY <2>3, <2>6, SMTT(20) DEF D!None
  <2>9. \A i \in 1 .. Len(h) : h[i][2] \in 1 .. n /\ glob[h[i][1]] = h[i][2]
    <3> SUFFICES ASSUME NEW i \in 1 .. Len(h) PROVE h[i][2] \in 1 .. n /\ glob[h[i][1]] = h[i][2] OBVIOUS
    <3>1. CASE i \in 1 .. Len(g)
      <4>1. h[i][2] \in 1 .. n BY <2>5, <2>6, <2>n, <3>1, SMTT(20)
      <4>2. glob[g[i][1]] = g[i][2] BY <2>3, <2>6, <2>8, <3>1
      <4> QED BY <2>5, <3>1, <4>1, <4>2
    <3>2. CASE i = Len(g) + 1 BY <2>3, <2>5, <2>n, <3>2, SMTT(20)
    <3> QED BY <2>7, <3>1, <3>2
  <2>10. \A i, j \in 1 .. Len(h) : i < j => h[i][2] < h[j][2]
    <3> SUFFICES ASSUME NEW i \in 1 .. Len(h), NEW j \in 1 .. Len(h), i < j PROVE h[i][2] < h[j][2] OBVIOUS
    <3>1. i \in 1 .. Len(g) BY <2>5, SMTT(20)
    <3>2. CASE j \in 1 .. Len(g)
      <4>1. g[i][2] < g[j][2] BY <2>2, <3>1, <3>2 DEF GlobInv
      <4> QED BY <2>5, <3>1, <3>2, <4>1
    <3>3. CASE j = Len(g) + 1
      <4>1. h[j][2] = n /\ h[i][2] \in 1 .. changes_made BY <2>5, <2>6, <3>1, <3>3, SMTT(20)
      <4> QED BY <2>n, <4>1, SMTT(20)
    <3> QED BY <2>7, <3>2, <3>3
  <2>11. \A q \in Patterns : glob[q] # D!None => \E i \in 1 .. Len(h) : h[i][1] = q
    <3> SUFFICES ASSUME NEW q \in Patterns, glob[q] # D!None PROVE \E i \in 1 .. Len(h) : h[i][1] = q OBVIOUS
    <3>1. CASE q = p
      <4>1. Len(g) + 1 \in 1 .. Len(h) /\ h[Len(g) + 1][1] = q BY <2>5, <3>1, SMTT(20)
      <4> QED BY <4>1
    <3>2. CASE q # p
      <4>1. PICK i \in 1 .. Len(g) : g[i][1] = q BY <2>2, <2>3, <3>2 DEF GlobInv
      <4>2. i \in 1 .. Len(h) /\ h[i][1] = q BY <2>5, <4>1, SMTT(20)
      <4> QED BY <4>2
    <3> QED BY <3>1, <3>2
  <2>12. GlobInv(h, glob, n) BY <2>5, <2>9, <2>10, <2>11 DEF GlobInv
  <2> QED BY <1>0, <2>1, <2>3, <2>12, <2>n DEF DispatchInv
<1>6. CASE UNCHANGED D!vars BY <1>0, <1>6 DEF D!vars, DispatchInv
<1> QED BY <1>3, <1>4, <1>5, <1>6 DEF D!Next

\* The first entry that matches a path is the oldest of the registered patterns
\* that match it.
LEMMA DispatchMatches == ASSUME HasLeast, DispatchInv PROVE MatchesLastCalls
<1> USE Zenon
<1>0. /\ last.uri = m_datas /\ last.glob \in [Patterns -> Int] /\ m_globs \in Seq(Entry)
      /\ DOMAIN m_globs = 1 .. Len(m_globs) /\ Len(m_globs) \in Nat
      /\ \A i \in 1 .. Len(m_globs) : m_globs[i] \in Entry
  <2>1. m_globs \in Seq(Entry) BY DEF DispatchInv, GlobInv
  <2> QED BY <2>1, Entries DEF DispatchInv
<1>1. /\ \A i \in 1 .. Len(m_globs) : /\ m_globs[i][1] \in Patterns /\ last.glob[m_globs[i][1]] = m_globs[i][2]
                                      /\ m_globs[i][2] \in Nat
      /\ \A i, j \in 1 .. Len(m_globs) : i < j => m_globs[i][2] < m_globs[j][2]
      /\ \A p \in Patterns : last.glob[p] # D!None => \E i \in 1 .. Len(m_globs) : m_globs[i][1] = p
  BY <1>0 DEF DispatchInv, GlobInv, Entry
<1> SUFFICES ASSUME NEW u \in Uris
             PROVE  LET live == {p \in Patterns : last.glob[p] # D!None /\ u \in Covers[p]}
                    IN D!get_matched_servlet(u) =
                         IF last.uri[u] # D!None THEN last.uri[u]
                         ELSE IF live = {} THEN D!NotFound
                         ELSE last.glob[CHOOSE p \in live : \A q \in live : last.glob[p] <= last.glob[q]]
  BY DEF MatchesLastCalls, D!MatchesLastCalls
<1> DEFINE live == {p \in Patterns : last.glob[p] # D!None /\ u \in Covers[p]}
           hits == {i \in DOMAIN m_globs : u \in Covers[m_globs[i][1]]}
           i == D!Min(hits)
           c == CHOOSE p \in live : \A q \in live : last.glob[p] <= last.glob[q]
<1>2. D!get_matched_servlet(u) = IF last.uri[u] # D!None THEN last.uri[u]
                                 ELSE IF hits # {} THEN m_globs[i][2] ELSE D!NotFound
  BY <1>0 DEF D!get_matched_servlet
<1>3. ASSUME NEW j \in hits PROVE m_globs[j][1] \in live
  <2>1. /\ j \in 1 .. Len(m_globs) /\ m_globs[j][1] \in Patterns /\ m_globs[j][2] \in Nat
        /\ last.glob[m_globs[j][1]] = m_globs[j][2]
    BY <1>0, <1>1, <1>3
  <2> DEFINE n == m_globs[j][2]
  <2>2. n # D!None
    <3> HIDE DEF n
    <3> QED BY <2>1, SMTT(20) DEF D!None, n
  <2> QED BY <1>3, <2>1, <2>2
<1>4. \A q \in live : \E j \in hits : m_globs[j][1] = q
  BY <1>0, <1>1
<1>5. hits \subseteq 1 .. Len(m_globs) /\ live \subseteq Patterns BY <1>0
<1> HIDE DEF live, hits
<1>6. CASE hits = {}
  <2>1. live = {} BY <1>4, <1>6
  <2> QED BY <1>2, <1>6, <2>1 DEF live
<1>7. CASE hits # {}
  <2>1. i \in hits /\ \A j \in hits : i <= j
    <3>1. hits \subseteq Nat BY <1>0, <1>5, SMTT(20)
    <3> QED BY <1>7, <3>1 DEF HasLeast
  <2> HIDE DEF i
  <2> DEFINE p == m_globs[i][1]
  <2>2. p \in live /\ last.glob[p] = m_globs[i][2] /\ i \in 1 .. Len(m_globs) BY <1>1, <1>3, <1>5, <2>1
  <2>3. ASSUME NEW q \in live PROVE last.glob[p] <= last.glob[q]
    <3>1. PICK j \in hits : m_globs[j][1] = q BY <1>4
    <3>2. j \in 1 .. Len(m_globs) /\ last.glob[q] = m_globs[j][2] BY <1>1, <1>5, <3>1
    <3>3. i = j \/ i < j BY <1>0, <2>1, <2>2, <3>2, SMTT(20)
    <3>4. m_globs[i][2] = m_globs[j][2] \/ m_globs[i][2] < m_globs[j][2] BY <1>1, <2>2, <3>2, <3>3
    <3>5. m_globs[i][2] \in Nat /\ m_globs[j][2] \in Nat BY <1>1, <2>2, <3>2
    <3> QED BY <2>2, <3>2, <3>4, <3>5, SMTT(20)
  <2> HIDE DEF p
  <2>4. c \in live /\ \A q \in live : last.glob[c] <= last.glob[q] BY <2>2, <2>3
  <2> HIDE DEF c
  <2>5. last.glob[c] = last.glob[p]
    <3>1. last.glob[c] <= last.glob[p] /\ last.glob[p] <= last.glob[c] BY <2>2, <2>3, <2>4
    <3>2. last.glob[c] \in Int /\ last.glob[p] \in Int BY <1>0, <1>5, <2>2, <2>4
    <3> QED BY <3>1, <3>2, SMTT(20)
  <2>6. live # {} BY <2>2
  <2> QED BY <1>2, <1>7, <2>2, <2>5, <2>6 DEF live, c
<1> QED BY <1>6, <1>7

-----------------------------------------------------------------------------
(* The least element of a set of naturals, and the theorem that needs it.  The
   library is instantiated here and not extended above: the proofs before this
   line do not use it.                                                       *)
INSTANCE FiniteSetTheorems

\* A nonempty set of naturals has a least element.
LEMMA MinIsLeast ==
  ASSUME NEW E, E \subseteq Nat, E # {}
  PROVE  D!Min(E) \in E /\ \A m \in E : D!Min(E) <= m
<1> USE Zenon
<1> DEFINE Lt == {ss \in Nat \X Nat : ss[1] < ss[2]}
<1>1. IsWellFoundedOn(Lt, Nat) BY NatLessThanWellFounded DEF OpToRel
<1>2. PICK n \in E : \A m \in E : ~(<<m, n>> \in Lt)
  <2> HIDE DEF Lt
  <2> QED BY <1>1, WFMin
<1>3. ASSUME NEW m \in E PROVE n <= m
  <2>1. m \in Nat /\ n \in Nat /\ ~(<<m, n>> \in Lt) BY <1>2
  <2>2. ~(m < n) BY <2>1
  <2> QED BY <2>1, <2>2, SMTT(20)
<1> QED BY <1>3 DEF D!Min

\* So the least element of a set of naturals is where D!Min says it is.
LEMMA LeastExists == HasLeast
BY MinIsLeast, Zenon DEF HasLeast

\* A request is handed to what was last registered for its path, else to the
\* matching pattern whose last registration is the oldest, after any calls of
\* add_servlet, del_servlet, add_glob_servlet and del_glob_servlet.
THEOREM DispatchFollowsCalls == SettingsSpec => []MatchesLastCalls
<1>1. SettingsInit => DispatchInv
  <2>1. ASSUME D!Init PROVE /\ changes_made \in Nat /\ last.uri = m_datas /\ m_datas \in [Uris -> Int]
                            /\ last.glob = [p \in Patterns |-> D!None] /\ m_globs = <<>>
                            /\ last.glob \in [Patterns -> Int]
    BY <2>1, SMTT(20) DEF D!Init, D!None
  <2>2. ASSUME D!Init PROVE GlobInv(m_globs, last.glob, changes_made)
    <3>1. m_globs \in Seq(Entry) /\ Len(m_globs) = 0 BY <2>1, <2>2, SMTT(20)
    <3>2. \A p \in Patterns : last.glob[p] = D!None BY <2>1, <2>2, SMTT(20)
    <3> QED BY <3>1, <3>2, SMTT(20) DEF GlobInv
  <2> QED BY <2>1, <2>2, ZenonT(30) DEF SettingsInit, DispatchInv
<1>2. DispatchInv /\ [SettingsNext]_<<part, vars, keys, thread, table>> => DispatchInv'
  <2> SUFFICES ASSUME DispatchInv, [SettingsNext]_<<part, vars, keys, thread, table>> PROVE DispatchInv' OBVIOUS
  <2>1. [D!Next]_(D!vars) BY Zenon DEF SettingsNext, table, D!vars
  <2> QED BY <2>1, LeastExists, DispatchStep, SMTT(20)
<1>3. DispatchInv => MatchesLastCalls BY LeastExists, DispatchMatches
<1> QED BY <1>1, <1>2, <1>3, PTL DEF SettingsSpec
=============================================================================
