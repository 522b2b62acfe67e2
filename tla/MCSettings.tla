----------------------------- MODULE MCSettings -----------------------------
(***************************************************************************)
(* What the threads of a program share: the variable "logs" with its       *)
(* loggers, the listeners of variables, Thread objects, and the servlet    *)
(* table of a server.  part says which a behaviour is about.               *)
(***************************************************************************)
EXTENDS Settings

CONSTANTS Users, Vars, MaxAdds, Uris, Patterns, MaxChanges
Covers == [p \in Patterns |-> CASE p = "/*" -> Uris [] p = "/a/*" -> {"/a/x"} [] p = "*/x" -> {"/a/x", "/b/x"}]
VARIABLES part, s_fun_id, m_cbs, owner, at, on, reg, key, adds, overlapped,
          thread_owner, runner, m_semaphore, m_thread, m_cb, m_id, interrupted, wild,
          m_datas, m_globs, changes_made, last
K == INSTANCE ListenerKeys
S == INSTANCE ThreadStart WITH owner <- thread_owner
D == INSTANCE Servlets WITH MaxCalls <- MaxChanges, calls_made <- changes_made
ASSUME ListenersAssumption == MaxAdds \in Nat /\ K!None \notin Users
keys == <<s_fun_id, m_cbs, owner, at, on, reg, key, adds, overlapped>>
thread == <<thread_owner, runner, m_semaphore, m_thread, m_cb, m_id, interrupted, wild>>
table == <<m_datas, m_globs, changes_made, last>>

SettingsInit ==
  /\ part \in {"logs", "keys", "thread", "dispatch"} /\ Init /\ K!Init /\ S!Init /\ D!Init
  /\ part # "keys" => on = [u \in Users |-> CHOOSE v \in Vars : TRUE]
SettingsNext ==
  /\ UNCHANGED part
  /\ \/ part = "logs" /\ Next /\ UNCHANGED <<keys, thread, table>>
     \/ part = "keys" /\ K!Next /\ UNCHANGED <<vars, thread, table>>
     \/ part = "thread" /\ S!Next /\ UNCHANGED <<vars, keys, table>>
     \/ part = "dispatch" /\ D!Next /\ UNCHANGED <<vars, keys, thread>>
\* a thread that has made no call has no step to be fair to
SettingsFairness == \A t \in Threads : SF_vars(StepOf(t))
SettingsSpec == SettingsInit /\ [][SettingsNext]_<<part, vars, keys, thread, table>> /\ SettingsFairness

\* The constructor of Thread returns when run has what it needs.
HandedOver == S!HandedOver

\* The key add_listener returns is its caller's own.
KeyIsOwn == K!KeyIsOwn

\* The servlet of a request is the one the last calls of ServletDispatch say.
MatchesLastCalls == D!MatchesLastCalls

MCNameSeq == <<"root", "system">>
Def(l, f, a) == [level |-> l, formatter |-> f, appenders |-> a]
Value(root, system) == [n \in Names |-> IF n = Root THEN root ELSE system]

\* Values that define, edit and drop either logger, with formatters, without and malformed
MCValues ==
  {Value(Undefined, Undefined),
   Value(Undefined, Def(ERROR, "f", <<"">>)),
   Value(Undefined, Def(DEBUG, "%", <<"", "%">>)),
   Value(Def(DEBUG, "", <<"">>), Undefined),
   Value(Def(ERROR, "f", <<"g">>), Def(ERROR, "f", <<"">>))}
=============================================================================
