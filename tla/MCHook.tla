------------------------------- MODULE MCHook -------------------------------
(* Small instances for TLC of Hook and of the tables under it (FdTables). *)
(* part says which of the two a behaviour is about.                       *)
EXTENDS Hook, TLC

CONSTANTS Numbers, FirstContexts, DatasSize, MaxOpens
VARIABLES part, datas, contexts, created, at, fd, id, fd_ctx, opens, raced, wild
T == INSTANCE FdTables WITH Users <- Fibers
tables == <<datas, contexts, created, at, fd, id, fd_ctx, opens, raced, wild>>

HookInit ==
  /\ part \in {"calls", "tables"} /\ Init /\ T!Init
  /\ part = "tables" => m_threadCount = CHOOSE n \in ThreadCounts : TRUE
HookNext ==
  /\ UNCHANGED part
  /\ \/ part = "calls" /\ Next /\ UNCHANGED tables
     \/ part = "tables" /\ T!Next /\ UNCHANGED vars
HookSpec == HookInit /\ [][HookNext]_<<part, vars, tables>>

Symmetry == Permutations(Fibers)

\* The tables by descriptor keep what an open socket has in them: its FdCtx is its own, not that
\* of the number's former socket (hook.cpp:352-360, fd_manager.cpp:65-90), and who waits is
\* found in m_fdContexts, as long as no two fibers have found it too small at one time
\* (iomanager.cpp:92-100).
TablesKept == T!OwnFdCtx /\ T!WaiterInTable
=============================================================================
