------------------------------ MODULE FdTables ------------------------------
(***************************************************************************)
(* The two tables that are indexed by descriptor numbers: FdManager's      *)
(* m_datas (src/fd_manager.cpp), of fixed size, and IOManager's            *)
(* m_fdContexts (src/iomanager.cpp), which addEvent makes larger.  Fibers  *)
(* on threads of their own open a socket, wait on it and close it with the *)
(* hooked calls, one critical section or system call at a time.  An entry  *)
(* is told from others that had its place by a number: in m_datas that of  *)
(* the socket it was made for, in m_fdContexts how many were made before.  *)
(***************************************************************************)
EXTENDS Naturals, Sequences

CONSTANTS Users,          \* fibers
          Numbers,        \* descriptor numbers the kernel gives out
          FirstContexts,  \* 32 in the code
          DatasSize,      \* 64 in the code
          MaxOpens

VARIABLES
  datas,       \* m_datas
  contexts,    \* m_fdContexts: entry i + 1 is that of number i
  created,     \* how many FdContexts were made for each number
  at, fd, id,  \* per fiber: where it is, its descriptor, and which socket that is
  fd_ctx,      \* the FdContext it has looked up
  opens,
  raced,       \* history: two fibers have found m_fdContexts too small at one time
  wild         \* something was written behind the end of m_datas
vars == <<datas, contexts, created, at, fd, id, fd_ctx, opens, raced, wild>>

Init ==
  /\ datas = [n \in Numbers |-> 0] /\ contexts = [i \in 1 .. FirstContexts |-> 1]
  /\ created = [n \in Numbers |-> IF n < FirstContexts THEN 1 ELSE 0]
  /\ at = [u \in Users |-> "closed"] /\ fd = [u \in Users |-> 0] /\ id = [u \in Users |-> 0]
  /\ fd_ctx = [u \in Users |-> 0] /\ opens = 0 /\ raced = FALSE /\ wild = FALSE

Go(u, from, to) == at[u] = from /\ at' = [at EXCEPT ![u] = to]

----------------------------------------------------------------------------
(* socket and accept *)

\* Mutant: close gives the number back before del.
TakenUntilCancel(v) == at[v] \notin {"closed", "cancelled"}
\* close gives the number back after del
Taken(v) == at[v] # "closed"

\* the system call: a number that is free
socket_f(u, n) ==
  /\ Go(u, "closed", "get") /\ opens < MaxOpens /\ opens' = opens + 1
  /\ \A v \in Users : Taken(v) => fd[v] # n
  /\ fd' = [fd EXCEPT ![u] = n] /\ id' = [id EXCEPT ![u] = opens + 1]
  /\ UNCHANGED <<datas, contexts, created, fd_ctx, raced, wild>>

\* get(fd, true), under the read lock: an entry that is there is returned
get(u) ==
  /\ Go(u, "get", IF fd[u] < DatasSize /\ datas[fd[u]] # 0 THEN "open" ELSE "make")
  /\ UNCHANGED <<datas, contexts, created, fd, id, fd_ctx, opens, raced, wild>>

\* and under the write lock a new one is stored, whatever the size of the table
make(u) ==
  /\ Go(u, "make", "open")
  /\ IF fd[u] < DatasSize THEN datas' = [datas EXCEPT ![fd[u]] = id[u]] /\ UNCHANGED wild
     ELSE wild' = TRUE /\ UNCHANGED datas
  /\ UNCHANGED <<contexts, created, fd, id, fd_ctx, opens, raced>>

----------------------------------------------------------------------------
(* addEvent, and the wake-ups *)

\* Mutant: every entry is made anew.
ResizeAll(size) ==
  /\ contexts' = [i \in 1 .. size |-> created[i - 1] + 1]
  /\ created' = [n \in Numbers |-> IF n < size THEN created[n] + 1 ELSE created[n]]
\* what is too much is cut off, what is missing is made
resizeContext(size) ==
  /\ contexts' = [i \in 1 .. size |-> IF i <= Len(contexts) THEN contexts[i] ELSE created[i - 1] + 1]
  /\ created' = [n \in Numbers |-> IF Len(contexts) <= n /\ n < size THEN created[n] + 1 ELSE created[n]]

addEvent(u) ==
  /\ Go(u, "open", IF Len(contexts) > fd[u] THEN "found" ELSE "grow")
  /\ fd_ctx' = [fd_ctx EXCEPT ![u] = IF Len(contexts) > fd[u] THEN contexts[fd[u] + 1] ELSE 0]
  /\ raced' = (raced \/ (Len(contexts) <= fd[u] /\ \E v \in Users : at[v] = "grow"))
  /\ UNCHANGED <<datas, contexts, created, fd, id, opens, wild>>

Grow(u) ==
  /\ Go(u, "grow", "found") /\ resizeContext((fd[u] * 3) \div 2)
  /\ fd_ctx' = [fd_ctx EXCEPT ![u] = contexts'[fd[u] + 1]]
  /\ UNCHANGED <<datas, fd, id, opens, raced, wild>>

\* under fd_ctx->mutex; epoll keeps the address of fd_ctx
Register(u) ==
  /\ Go(u, "found", "waits")
  /\ UNCHANGED <<datas, contexts, created, fd, id, fd_ctx, opens, raced, wild>>

\* the entry of the fiber's descriptor is the one it waits in
Found(u) == Len(contexts) > fd[u] /\ contexts[fd[u] + 1] = fd_ctx[u]

\* idle() has the address from epoll; cancelEvent looks in the table
Wake(u) ==
  /\ Go(u, "waits", "open")
  /\ UNCHANGED <<datas, contexts, created, fd, id, fd_ctx, opens, raced, wild>>
cancelEvent(u) ==
  /\ Go(u, "waits", "open") /\ Found(u)
  /\ UNCHANGED <<datas, contexts, created, fd, id, fd_ctx, opens, raced, wild>>

----------------------------------------------------------------------------
(* close *)

\* cancekAll: nobody else waits on the fiber's own socket
cancekAll(u) ==
  /\ Go(u, "open", "cancelled")
  /\ UNCHANGED <<datas, contexts, created, fd, id, fd_ctx, opens, raced, wild>>
del(u) ==
  /\ Go(u, "cancelled", "deleted")
  /\ datas' = IF fd[u] < DatasSize THEN [datas EXCEPT ![fd[u]] = 0] ELSE datas
  /\ UNCHANGED <<contexts, created, fd, id, fd_ctx, opens, raced, wild>>
close_f(u) ==
  /\ Go(u, "deleted", "closed") /\ fd' = [fd EXCEPT ![u] = 0] /\ id' = [id EXCEPT ![u] = 0]
  /\ fd_ctx' = [fd_ctx EXCEPT ![u] = 0]
  /\ UNCHANGED <<datas, contexts, created, opens, raced, wild>>

----------------------------------------------------------------------------
Next ==
  /\ ~wild
  /\ \E u \in Users :
       \/ \E n \in Numbers : socket_f(u, n)
       \/ get(u) \/ make(u) \/ addEvent(u) \/ Grow(u) \/ Register(u) \/ Wake(u) \/ cancelEvent(u)
       \/ cancekAll(u) \/ del(u) \/ close_f(u)
Spec == Init /\ [][Next]_vars

\* A socket's FdCtx is its own, made when it was opened: no number inherits the
\* timeouts and flags of the socket that had it before, and no late del takes
\* a new socket's FdCtx away (hook.cpp:352-360, fd_manager.cpp:65-90).
OwnFdCtx ==
  \A u \in Users : at[u] \in {"open", "found", "grow", "waits"} /\ ~wild => datas[fd[u]] = id[u]

\* Who waits can be found for a cancelEvent, a timeout or a close: the table
\* has the FdContext in which the fiber is registered, as long as no two
\* fibers have found the table too small at one time (iomanager.cpp:92-100).
WaiterInTable == \A u \in Users : at[u] \in {"found", "waits"} /\ ~raced => Found(u)
=============================================================================
