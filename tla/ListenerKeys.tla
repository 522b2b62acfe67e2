---------------------------- MODULE ListenerKeys ----------------------------
(***************************************************************************)
(* The listeners of ConfigVar (src/config.h): m_cbs of several variables   *)
(* of one type, each under its own m_mutex, and the counter s_fun_id,      *)
(* which is a static of the type and so is shared by all of them.  The     *)
(* increment is a load and a store, as in the code the compiler emits.     *)
(***************************************************************************)
EXTENDS Integers, FiniteSets

CONSTANTS Users,     \* threads, each with at most one listener at a time
          Vars,      \* variables of one type
          MaxAdds    \* calls of add_listener

VARIABLES
  s_fun_id,
  m_cbs,      \* for each variable, the listener at each key, or None
  owner,      \* who has a variable's write lock, or None
  at,         \* what each thread does: "idle", a step of add_listener, or "has" a listener
  on,         \* the variable it uses
  reg,        \* the value it has loaded
  key,        \* what add_listener returned
  adds,
  overlapped  \* add_listener of two variables at one time
vars == <<s_fun_id, m_cbs, owner, at, on, reg, key, adds, overlapped>>

None == "none"
Keys == 1..MaxAdds

Init ==
  /\ s_fun_id = 0 /\ m_cbs = [v \in Vars |-> [k \in Keys |-> None]] /\ owner = [v \in Vars |-> None]
  /\ at = [u \in Users |-> "idle"] /\ on \in [Users -> Vars]
  /\ reg = [u \in Users |-> 0] /\ key = [u \in Users |-> 0] /\ adds = 0 /\ overlapped = FALSE

Adding(u) == at[u] \in {"load", "store", "insert", "return"}

\* Mutant: add_listener takes a read lock, which others may hold as well.
Shared(v) == TRUE
\* the write lock can be had
Exclusive(v) == owner[v] = None

Begin(u) ==
  /\ at[u] = "idle" /\ adds < MaxAdds /\ Exclusive(on[u])
  /\ owner' = [owner EXCEPT ![on[u]] = u] /\ at' = [at EXCEPT ![u] = "load"] /\ adds' = adds + 1
  /\ overlapped' = (overlapped \/ \E w \in Users : Adding(w) /\ on[w] # on[u])
  /\ UNCHANGED <<s_fun_id, m_cbs, on, reg, key>>

\* ++s_fun_id
Load(u) ==
  /\ at[u] = "load" /\ reg' = [reg EXCEPT ![u] = s_fun_id] /\ at' = [at EXCEPT ![u] = "store"]
  /\ UNCHANGED <<s_fun_id, m_cbs, owner, on, key, adds, overlapped>>
Store(u) ==
  /\ at[u] = "store" /\ s_fun_id' = reg[u] + 1 /\ at' = [at EXCEPT ![u] = "insert"]
  /\ UNCHANGED <<m_cbs, owner, on, reg, key, adds, overlapped>>

\* m_cbs[s_fun_id] = cb
Insert(u) ==
  /\ at[u] = "insert" /\ m_cbs' = [m_cbs EXCEPT ![on[u]][s_fun_id] = u] /\ at' = [at EXCEPT ![u] = "return"]
  /\ UNCHANGED <<s_fun_id, owner, on, reg, key, adds, overlapped>>

\* return s_fun_id, and the end of the lock
Return(u) ==
  /\ at[u] = "return" /\ key' = [key EXCEPT ![u] = s_fun_id] /\ at' = [at EXCEPT ![u] = "has"]
  /\ owner' = [owner EXCEPT ![on[u]] = None]
  /\ UNCHANGED <<s_fun_id, m_cbs, on, reg, adds, overlapped>>

del_listener(u) ==
  /\ at[u] = "has" /\ owner[on[u]] = None
  /\ m_cbs' = [m_cbs EXCEPT ![on[u]][key[u]] = None] /\ at' = [at EXCEPT ![u] = "idle"]
  /\ UNCHANGED <<s_fun_id, owner, on, reg, key, adds, overlapped>>

Next == \E u \in Users : Begin(u) \/ Load(u) \/ Store(u) \/ Insert(u) \/ Return(u) \/ del_listener(u)
Spec == Init /\ [][Next]_vars

----------------------------------------------------------------------------
\* Whoever has added a listener finds it, and deletes no other, with the key
\* that add_listener returned, as long as no two variables of the type were
\* given listeners at the same time.
KeyIsOwn == overlapped \/ \A u \in Users : at[u] = "has" => m_cbs[on[u]][key[u]] = u
=============================================================================
