------------------------------ MODULE Servlets ------------------------------
(***************************************************************************)
(* cool::http::ServletDispatch (src/http/servlet.cpp): servlets registered *)
(* for a uri or for a pattern, and the one a request is handed to.  Every  *)
(* call holds the table's lock from start to end, so it is one step.  A    *)
(* servlet is named by the number of the call that registered it; the      *)
(* default one, NotFoundServlet, is 0.                                     *)
(***************************************************************************)
EXTENDS Integers, Sequences, FiniteSetsExt

CONSTANTS Uris,       \* paths of requests
          Patterns,   \* patterns of fnmatch
          Covers,     \* the paths a pattern matches
          MaxCalls    \* calls that change the table

VARIABLES
  m_datas,     \* servlet of a uri, or None
  m_globs,     \* pairs of a pattern and a servlet, in order
  calls_made,
  last         \* the call that last registered each uri and each pattern, None if since deleted
vars == <<m_datas, m_globs, calls_made, last>>

None == -1
NotFound == 0

Init ==
  /\ m_datas = [u \in Uris |-> None] /\ m_globs = <<>> /\ calls_made = 0
  /\ last = [uri |-> [u \in Uris |-> None], glob |-> [p \in Patterns |-> None]]

Call(uri, glob) == calls_made' = calls_made + 1 /\ last' = [uri |-> uri, glob |-> glob]

add_servlet(u) ==
  /\ m_datas' = [m_datas EXCEPT ![u] = calls_made + 1] /\ UNCHANGED m_globs
  /\ Call([last.uri EXCEPT ![u] = calls_made + 1], last.glob)

del_servlet(u) ==
  /\ m_datas' = [m_datas EXCEPT ![u] = None] /\ UNCHANGED m_globs
  /\ Call([last.uri EXCEPT ![u] = None], last.glob)

\* Mutant: a pattern that is registered again keeps its old entry as well.
EraseNone(p) == m_globs
\* the list without the first entry for the pattern
EraseFirst(p) ==
  LET at == {i \in DOMAIN m_globs : m_globs[i][1] = p}
  IN IF at = {} THEN m_globs
     ELSE SubSeq(m_globs, 1, Min(at) - 1) \o SubSeq(m_globs, Min(at) + 1, Len(m_globs))

add_glob_servlet(p) ==
  /\ m_globs' = Append(EraseFirst(p), <<p, calls_made + 1>>) /\ UNCHANGED m_datas
  /\ Call(last.uri, [last.glob EXCEPT ![p] = calls_made + 1])

del_glob_servlet(p) ==
  /\ m_globs' = EraseFirst(p) /\ UNCHANGED m_datas
  /\ Call(last.uri, [last.glob EXCEPT ![p] = None])

Next ==
  /\ calls_made < MaxCalls
  /\ \/ \E u \in Uris : add_servlet(u) \/ del_servlet(u)
     \/ \E p \in Patterns : add_glob_servlet(p) \/ del_glob_servlet(p)

Spec == Init /\ [][Next]_vars

\* The servlet of exactly this uri, else of the first pattern that matches
get_matched_servlet(u) ==
  LET at == {i \in DOMAIN m_globs : u \in Covers[m_globs[i][1]]}
  IN IF m_datas[u] # None THEN m_datas[u]
     ELSE IF at # {} THEN m_globs[Min(at)][2] ELSE NotFound

----------------------------------------------------------------------------
\* A request is handed to what was last registered for its path; failing
\* that, of the patterns that match, to the one whose last registration is
\* the oldest; a deleted servlet is never handed anything, however often it
\* was registered.
MatchesLastCalls ==
  \A u \in Uris :
    LET live == {p \in Patterns : last.glob[p] # None /\ u \in Covers[p]}
    IN get_matched_servlet(u) =
         IF last.uri[u] # None THEN last.uri[u]
         ELSE IF live = {} THEN NotFound
         ELSE last.glob[CHOOSE p \in live : \A q \in live : last.glob[p] <= last.glob[q]]
=============================================================================
