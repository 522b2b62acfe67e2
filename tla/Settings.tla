------------------------------ MODULE Settings ------------------------------
(***************************************************************************)
(* The configuration variable "logs" and the loggers it defines            *)
(* (src/config.h, src/config.cpp, src/log.cpp), used by several threads:   *)
(* set_value with its listener, which rebuilds the loggers one call after  *)
(* the other, log, and the calls of Config that log or convert while they  *)
(* hold a lock.  A call is the list of the steps it still has to make, in  *)
(* which a loop of the listener is one step, <<loop, j, k>>: the turn of   *)
(* the j-th name, with its k-th call next.  A lock that is taken and given *)
(* back within one step is not shown taken.                                *)
(***************************************************************************)
EXTENDS Integers, Sequences

CONSTANTS Threads,
          NameSeq,    \* the names of the loggers, in the order of std::set<LogDefine>
          Root,
          Values,     \* values of the variable: a definition, or Undefined, for every name
          Undefined,
          Malformed,  \* patterns that LogFormatter does not accept
          MaxCalls    \* calls of all threads together

DEBUG == 1
ERROR == 4
Levels == 0 .. 5
\* the level of a logger whose definition is gone
Silent == 100
Nobody == "nobody"
Names == {NameSeq[j] : j \in 1 .. Len(NameSeq)}
Definitions == [level : Levels, formatter : STRING, appenders : Seq(STRING)]

\* A name has one place in the order, and a value is a set of definitions, at
\* most one for a name.
ASSUME LoggersAssumption ==
  /\ NameSeq \in Seq(STRING) /\ Root \in Names
  /\ \A i, j \in 1 .. Len(NameSeq) : NameSeq[i] = NameSeq[j] => i = j
  /\ Undefined \notin Definitions /\ Nobody \notin Threads /\ MaxCalls \in Nat
  /\ \A v \in Values : v \in [Names -> Definitions \cup {Undefined}]

VARIABLES
  m_val,
  readers, writer,         \* the variable's m_mutex
  greaders, gwriter,       \* Config's mutex
  loggers,     \* m_level, m_formatter and the formatters of m_appenders
  holder,      \* the thread that has a logger's spinlock
  todo,        \* the steps left of each thread's call
  arg,         \* the argument of its set_value
  setting,     \* threads between set_value's comparison and its assignment
  calls_made,
  defined,     \* names some value has defined
  raced,       \* two calls of set_value have overlapped
  rooted       \* some value has changed the definition of Root
vars == <<m_val, readers, writer, greaders, gwriter, loggers, holder, todo, arg, setting, calls_made, defined, raced, rooted>>
locks == <<readers, writer, greaders, gwriter>>
history == <<defined, raced, rooted>>

FirstAppenders(n) == IF n = Root THEN <<"default">> ELSE <<>>
NoValue == [n \in Names |-> Undefined]

Init ==
  /\ m_val = NoValue /\ readers = {} /\ writer = Nobody /\ greaders = {} /\ gwriter = Nobody
  /\ loggers = [n \in Names |-> [level |-> DEBUG, formatter |-> "default",
                                 appenders |-> FirstAppenders(n)]]
  /\ holder = [n \in Names |-> Nobody]
  /\ todo = [t \in Threads |-> <<>>] /\ arg = [t \in Threads |-> NoValue] /\ setting = {}
  /\ calls_made = 0 /\ defined = {} /\ raced = FALSE /\ rooted = FALSE

----------------------------------------------------------------------------
(* The listener of LogIniter, which logs and goes through the definitions of *)
(* the new value and then of the old one.  At(t, s): thread t is at step s. *)

At(t, s) == todo[t] # <<>> /\ todo[t][1][1] = s
Listens(t) == At(t, "define") \/ At(t, "undefine")
\* the name whose turn it is, and the number of the call that is next
NameAt(t) == NameSeq[todo[t][1][2]]
CallAt(t) == todo[t][1][3]

Listener == <<<<"log", Root, DEBUG>>, <<"define", 1, 1>>>>
NextCall(s) == <<<<s[1], s[2], s[3] + 1>>>>
NextTurn(s) ==
  IF s[2] < Len(NameSeq) THEN <<<<s[1], s[2] + 1, 1>>>>
  ELSE IF s[1] = "define" THEN <<<<"undefine", 1, 1>>>> ELSE <<>>

\* Mutant: the appenders of the old definition stay.
KeepsAppenders(d) ==
  <<<<"level", d.level>>>> \o (IF d.formatter = "" THEN <<>> ELSE <<<<"formatter", d.formatter>>>>)
    \o [j \in 1 .. Len(d.appenders) |-> <<"add", d.appenders[j]>>]
\* the calls on the logger of a definition that is new or has changed
Rebuild(d) ==
  <<<<"level", d.level>>, <<"clear">>>>
    \o (IF d.formatter = "" THEN <<>> ELSE <<<<"formatter", d.formatter>>>>)
    \o [j \in 1 .. Len(d.appenders) |-> <<"add", d.appenders[j]>>]

\* For a definition that has not changed, logger stays null and is dereferenced.
NullLogger(t) ==
  At(t, "define") /\ arg[t][NameAt(t)] # Undefined /\ arg[t][NameAt(t)] = m_val[NameAt(t)]
Crashed == \E t \in Threads : NullLogger(t)

Define(new) == IF new = Undefined THEN <<>> ELSE Rebuild(new)
Undefine(old, new) ==
  IF old # Undefined /\ new = Undefined THEN <<<<"level", Silent>>, <<"clear">>>> ELSE <<>>
Calls(t) ==
  IF At(t, "define") THEN Define(arg[t][NameAt(t)])
  ELSE Undefine(m_val[NameAt(t)], arg[t][NameAt(t)])

----------------------------------------------------------------------------
(* Calls, as lists of steps *)

set_value == <<<<"read">>, <<"compare">>>>
get_value == <<<<"read">>, <<"unread">>>>
log(n, e) == <<<<"log", n, e>>>>
\* lookup of a name that exists: it logs under the lock, and for another type
\* converts the value first
lookup == <<<<"gwrite">>, <<"log", Root, DEBUG>>, <<"gunwrite">>>>
lookup_other == <<<<"gwrite">>, <<"read">>, <<"unread">>, <<"log", Root, ERROR>>, <<"gunwrite">>>>
\* Visit with a callback that calls to_string
Visit == <<<<"gread">>, <<"read">>, <<"unread">>, <<"gunread">>>>

Call(t) ==
  /\ todo[t] = <<>> /\ calls_made < MaxCalls /\ calls_made' = calls_made + 1
  /\ \/ \E v \in Values : arg' = [arg EXCEPT ![t] = v] /\ todo' = [todo EXCEPT ![t] = set_value]
     \/ /\ UNCHANGED arg
        /\ \E steps \in {get_value, lookup, lookup_other, Visit} \cup {log(n, ERROR) : n \in Names} :
             todo' = [todo EXCEPT ![t] = steps]
  /\ UNCHANGED <<m_val, locks, loggers, holder, setting, history>>

----------------------------------------------------------------------------
(* The steps.  Go(t, more): thread t has made its step, and goes on with the *)
(* steps more before what is left. *)

Go(t, more) == todo' = [todo EXCEPT ![t] = more \o Tail(@)]

Lock(t) ==
  /\ \/ At(t, "read") /\ writer = Nobody /\ readers' = readers \cup {t} /\ UNCHANGED <<writer, greaders, gwriter>>
     \/ At(t, "write") /\ writer = Nobody /\ readers = {} /\ writer' = t /\ UNCHANGED <<readers, greaders, gwriter>>
     \/ At(t, "gread") /\ gwriter = Nobody /\ greaders' = greaders \cup {t} /\ UNCHANGED <<readers, writer, gwriter>>
     \/ At(t, "gwrite") /\ gwriter = Nobody /\ greaders = {} /\ gwriter' = t /\ UNCHANGED <<readers, writer, greaders>>
  /\ Go(t, <<>>) /\ UNCHANGED <<m_val, loggers, holder, arg, setting, calls_made, history>>

Unlock(t) ==
  /\ \/ At(t, "unread") /\ readers' = readers \ {t} /\ UNCHANGED <<writer, greaders, gwriter>>
     \/ At(t, "gunread") /\ greaders' = greaders \ {t} /\ UNCHANGED <<readers, writer, gwriter>>
     \/ At(t, "gunwrite") /\ gwriter' = Nobody /\ UNCHANGED <<readers, writer, greaders>>
  /\ Go(t, <<>>) /\ UNCHANGED <<m_val, loggers, holder, arg, setting, calls_made, history>>

\* return with an equal value, which ends the scope of the read lock
EarlyReturn == <<<<"unread">>>>
\* Mutant: the read lock lasts to the end of the function.
AssignInside == <<<<"write">>, <<"assign">>, <<"unread">>>>
\* the end of the read lock's scope, the write lock and the assignment
AssignAfter == <<<<"unread">>, <<"write">>, <<"assign">>>>

\* set_value under the read lock: equal values end the call, else the listener
\* runs and the value is written under the write lock
Compare(t) ==
  /\ At(t, "compare")
  /\ IF arg[t] = m_val
       THEN Go(t, EarlyReturn) /\ UNCHANGED <<setting, history>>
       ELSE /\ Go(t, Listener \o AssignAfter)
            /\ setting' = setting \cup {t} /\ raced' = (raced \/ setting # {})
            /\ defined' = defined \cup {n \in Names : arg[t][n] # Undefined}
            /\ rooted' = (rooted \/ arg[t][Root] # m_val[Root])
  /\ UNCHANGED <<m_val, locks, loggers, holder, arg, calls_made>>

\* m_val = v, and the end of the write lock
Assign(t) ==
  /\ At(t, "assign") /\ Go(t, <<>>)
  /\ m_val' = arg[t] /\ arg' = [arg EXCEPT ![t] = NoValue] /\ setting' = setting \ {t} /\ writer' = Nobody
  /\ UNCHANGED <<readers, greaders, gwriter, loggers, holder, calls_made, history>>

\* add_appender gives an appender without a formatter the logger's
FormatterOf(lg, f) == IF f = "" THEN lg.formatter ELSE f

\* set_formatter(string) leaves the logger alone when the pattern has an error;
\* an appender's own formatter is set without that test
Changed(lg, step) ==
  CASE step[1] = "level" -> [lg EXCEPT !.level = step[2]]
    [] step[1] = "clear" -> [lg EXCEPT !.appenders = <<>>]
    [] step[1] = "formatter" -> IF step[2] \in Malformed THEN lg ELSE [lg EXCEPT !.formatter = step[2]]
    [] step[1] = "add" -> [lg EXCEPT !.appenders = Append(@, FormatterOf(lg, step[2]))]

\* set_level takes no lock; clear_appenders, set_formatter, add_appender take
\* the logger's spinlock
Change(t) ==
  /\ Listens(t) /\ CallAt(t) <= Len(Calls(t))
  /\ LET step == Calls(t)[CallAt(t)]
         n == NameAt(t)
     IN /\ step[1] # "level" => holder[n] = Nobody
        /\ loggers' = [loggers EXCEPT ![n] = Changed(@, step)]
  /\ Go(t, NextCall(todo[t][1]))
  /\ UNCHANGED <<m_val, locks, holder, arg, setting, calls_made, history>>

\* the next name of the loop, the next loop, or the end of the listener
Turn(t) ==
  /\ Listens(t) /\ CallAt(t) > Len(Calls(t)) /\ Go(t, NextTurn(todo[t][1]))
  /\ UNCHANGED <<m_val, locks, loggers, holder, arg, setting, calls_made, history>>

\* Logger::log compares the level without the lock,
Log(t) ==
  /\ At(t, "log")
  /\ LET step == todo[t][1]
     IN Go(t, IF step[3] >= loggers[step[2]].level THEN <<<<"spin", step[2], step[3]>>>> ELSE <<>>)
  /\ UNCHANGED <<m_val, locks, loggers, holder, arg, setting, calls_made, history>>

\* an event of a logger without appenders is Root's, logged with the lock held
HandsUp(n, e) == <<<<"log", Root, e>>, <<"release", n, e>>>>

\* then takes it and hands the event to the appenders, or to Root
Spin(t) ==
  /\ At(t, "spin")
  /\ LET n == todo[t][1][2]
         e == todo[t][1][3]
     IN /\ holder[n] = Nobody /\ holder' = [holder EXCEPT ![n] = t]
        /\ Go(t, IF loggers[n].appenders # <<>> THEN <<<<"release", n, e>>>> ELSE HandsUp(n, e))
  /\ UNCHANGED <<m_val, locks, loggers, arg, setting, calls_made, history>>

Release(t) ==
  /\ At(t, "release") /\ holder' = [holder EXCEPT ![todo[t][1][2]] = Nobody]
  /\ Go(t, <<>>) /\ UNCHANGED <<m_val, locks, loggers, arg, setting, calls_made, history>>

StepOf(t) ==
  /\ ~Crashed
  /\ \/ Lock(t) \/ Unlock(t) \/ Compare(t) \/ Assign(t) \/ Change(t) \/ Turn(t)
     \/ Log(t) \/ Spin(t) \/ Release(t)
Next == \E t \in Threads : (~Crashed /\ Call(t)) \/ StepOf(t)

\* every thread goes on, and gets a lock that keeps becoming free
Spec == Init /\ [][Next]_vars /\ \A t \in Threads : SF_vars(StepOf(t))

----------------------------------------------------------------------------
TypeOK ==
  /\ m_val \in Values \cup {NoValue} /\ readers \subseteq Threads /\ greaders \subseteq Threads
  /\ {writer, gwriter} \subseteq Threads \cup {Nobody} /\ setting \subseteq Threads
  /\ holder \in [Names -> Threads \cup {Nobody}]
  /\ \A n \in Names : loggers[n].level \in Levels \cup {Silent}

\* thread t has Root's spinlock and waits for it: Root had no appender, and
\* handed the event to itself
Hung(t) == At(t, "spin") /\ todo[t][1][2] = Root /\ holder[Root] = t

\* a definition with this formatter gives its logger a new one
Accepted(f) == f # "" /\ f \notin Malformed
\* logger lg is as the definition d says
AsDefined(lg, d) ==
  IF d = Undefined THEN lg.level = Silent /\ lg.appenders = <<>>
  ELSE /\ lg.level = d.level /\ (Accepted(d.formatter) => lg.formatter = d.formatter)
       /\ lg.appenders = [j \in 1 .. Len(d.appenders) |->
                            IF d.appenders[j] = "" THEN lg.formatter ELSE d.appenders[j]]

\* When no set_value is under way, and no two have overlapped, every logger is
\* as its definition says (without a formatter of its own, or with a malformed
\* one, it keeps the one it had), and one that has lost its definition is silent.
\* (And the types.)
LoggersMatch ==
  TypeOK /\ (setting = {} /\ ~raced => \A n \in defined : AsDefined(loggers[n], m_val[n]))

\* Every call returns: the locks of Config, of the variable and of the loggers
\* are never waited for in a circle.  Two things end this: a value that keeps
\* one definition and changes another (NullLogger); and a Root that logs to itself, but only
\* if some value has changed its definition: a moment between clear_appenders and
\* add_appender is enough, even if old and new definition have appenders.
CallsEnd ==
  \A t \in Threads : todo[t] # <<>>
    ~> (todo[t] = <<>> \/ \E u \in Threads : (rooted /\ Hung(u)) \/ NullLogger(u))
=============================================================================
