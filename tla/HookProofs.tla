----------------------------- MODULE HookProofs -----------------------------
(***************************************************************************)
(* Proofs about the hooked calls, for any fibers, descriptors and number   *)
(* of threads: a fiber is woken once, no call is timed out by another      *)
(* call's timer, with one thread no waiting call is forgotten, and what    *)
(* the tables of descriptors hold is their owner's.                        *)
(***************************************************************************)
EXTENDS MCHook, Sequences, TLAPS

Labels == {"user", "try", "again", "armed", "hold", "back", "close"}

Types ==
  /\ context \in [Fds \X Events -> Fibers \cup {None}]
  /\ pc \in [Fibers -> Labels] /\ call \in [Fibers -> Calls] /\ timer \in [Fibers -> BOOLEAN]
  /\ fired \subseteq Callback /\ queued \subseteq Fibers
  /\ \A f \in Fibers : pc[f] \in {"try", "again", "armed", "close"} => call[f].fd \in Fds
  /\ \A f \in Fibers : pc[f] \in {"hold", "back"} /\ call[f].op # "sleep" => call[f].fd \in Fds
  /\ \A f \in Fibers : timer[f] => pc[f] \in {"armed", "hold", "back"}

\* A sleeper is woken by its timer alone: the timer is armed, or its one
\* callback is on its way, or the fiber is queued.
Sleepers ==
  /\ \A f \in Fibers : timer[f] /\ call[f].fd = None =>
       pc[f] = "hold" /\ f \notin queued /\ \A c \in fired : c.f = f => c.fd # None
  /\ \A c \in fired : c.fd = None =>
       c.at = "queued" /\ pc[c.f] = "hold" /\ call[c.f].fd = None /\ c.f \notin queued
  /\ \A c, d \in fired : c.fd = None /\ d.fd = None /\ c.f = d.f => c = d

WakeInv == Types /\ Sleepers /\ WokenOnce

USE HookAssumption

\* The event EventOf names is one.
LEMMA EventOfType == \A op : EventOf(op) \in Events
  BY DEF EventOf, Events

\* A call that is over leaves no trace but dead callbacks.
LEMMA ReturnKeeps ==
  ASSUME WakeInv, NEW f \in Fibers, pc[f] \in {"try", "armed", "back"}, Return(f),
         timer' \in [Fibers -> BOOLEAN], ~timer'[f], \A g \in Fibers : g # f => timer'[g] = timer[g],
         UNCHANGED <<context, queued>>
  PROVE  WakeInv'
<1> USE DEF Return, Go, At
<1>1. NoCall \in Calls BY DEF NoCall, Calls
<1>2. ASSUME NEW c \in Callback PROVE [c EXCEPT !.alive = FALSE] \in Callback
  BY <1>2, Zenon DEF Callback
<1>3. fired' \subseteq Callback BY <1>2 DEF WakeInv, Types
<1>4. Types'
  BY <1>1, <1>3, Zenon DEF WakeInv, Types, Labels
<1>5. \A c \in fired : c.fd = None => c.f # f
  BY DEF WakeInv, Sleepers
<1>6. \A c \in fired' : \E d \in fired : c.f = d.f /\ c.fd = d.fd /\ c.at = d.at /\ (c.fd = None => c = d)
  <2> TAKE c \in fired'
  <2>1. PICK d \in fired : c = IF d.f = f THEN [d EXCEPT !.alive = FALSE] ELSE d
    OBVIOUS
  <2>2. d \in Callback BY DEF WakeInv, Types
  <2>3. c.f = d.f /\ c.fd = d.fd /\ c.at = d.at BY <2>1, <2>2 DEF Callback
  <2>4. c.fd = None => c = d BY <1>5, <2>1, <2>3
  <2> QED BY <2>3, <2>4
<1> HIDE DEF Return
<1>7. /\ \A g \in Fibers : g # f => pc'[g] = pc[g] /\ call'[g] = call[g]
      /\ pc'[f] = "user" /\ call'[f] = NoCall
  BY DEF Return, WakeInv, Types
<1>8. \A c \in fired' : c.f \in Fibers BY <1>3 DEF Callback
<1>9. Sleepers'
  BY <1>5, <1>6, <1>7, <1>8 DEF WakeInv, Sleepers
<1>10. \A g \in queued : g # f BY DEF WakeInv, WokenOnce
<1>11. \A p \in Fds \X Events : context[p] # f BY DEF WakeInv, WokenOnce
<1>12. WokenOnce'
  BY <1>7, <1>10, <1>11 DEF WakeInv, Types, WokenOnce, Place
<1> QED BY <1>4, <1>9, <1>12 DEF WakeInv

\* An event wakes the one fiber that is registered for it.
LEMMA TriggerWakesOne ==
  ASSUME WakeInv, NEW p \in Fds \X Events, context[p] # None, Trigger(p),
         UNCHANGED fiber, fired' \subseteq fired
  PROVE  WakeInv'
<1> USE DEF Trigger, fiber, At
<1> DEFINE f == context[p]
<1>1. f \in Fibers /\ pc[f] = "hold" /\ call[f].fd \in Fds /\ Place(f) = p
  BY DEF WakeInv, Types, WokenOnce, Place
<1>2. \A q \in Fds \X Events : q # p => context[q] # f
  BY <1>1 DEF WakeInv, WokenOnce
<1>3. Types' BY <1>1 DEF WakeInv, Types
<1>4. Sleepers' BY <1>1 DEF WakeInv, Sleepers
<1>5. WokenOnce' BY <1>1, <1>2 DEF WakeInv, Types, WokenOnce, Place
<1> QED BY <1>3, <1>4, <1>5 DEF WakeInv

\* Every step keeps the invariant.
LEMMA WakeStep ==
  ASSUME WakeInv, [Next]_vars
  PROVE  WakeInv'
<1> USE DEF Go, At, kernel, fiber, cbs, Labels
<1>1. CASE UNCHANGED vars
  BY <1>1 DEF vars, WakeInv, Types, Sleepers, WokenOnce, Place
<1>2. ASSUME NEW f \in Fibers, NEW n \in Fds, NEW op \in Ops \ {"sleep"}, Begin(f, op, n) PROVE WakeInv'
  <2>1. \A p \in Fds \X Events : context[p] # f BY <1>2 DEF Begin, WakeInv, WokenOnce
  <2>2. f \notin queued /\ ~timer[f] BY <1>2 DEF Begin, WakeInv, WokenOnce, Types
  <2>3. \A c \in fired : c.fd = None => c.f # f BY <1>2 DEF Begin, WakeInv, Sleepers
  <2>4. call' \in [Fibers -> Calls]
    BY <1>2 DEF Begin, WakeInv, Types, Calls
  <2>5. Types' BY <1>2, <2>2, <2>4 DEF Begin, WakeInv, Types
  <2>6. Sleepers' BY <1>2, <2>2, <2>3 DEF Begin, WakeInv, Sleepers, Types, Callback
  <2>7. WokenOnce' BY <1>2, <2>1, <2>2 DEF Begin, WakeInv, WokenOnce, Types, Place
  <2> QED BY <2>5, <2>6, <2>7 DEF WakeInv
<1>3. ASSUME NEW f \in Fibers, Try(f) PROVE WakeInv'
  <2>1. ~timer[f] BY <1>3 DEF Try, WakeInv, Types
  <2>2. CASE Return(f)
    BY <1>3, <2>1, <2>2, ReturnKeeps DEF Try, WakeInv, Types
  <2>3. CASE pc' = [pc EXCEPT ![f] = "again"] /\ UNCHANGED <<call, cbs>>
    <3>1. Types' BY <1>3, <2>3 DEF Try, WakeInv, Types
    <3>2. Sleepers' BY <1>3, <2>1, <2>3 DEF Try, WakeInv, Sleepers, Types, Callback
    <3>3. WokenOnce' BY <1>3, <2>3 DEF Try, WakeInv, WokenOnce, Types, Place
    <3> QED BY <3>1, <3>2, <3>3 DEF WakeInv
  <2> QED BY <1>3, <2>2, <2>3 DEF Try
<1>4. ASSUME NEW f \in Fibers, AddTimer(f) PROVE WakeInv'
  <2>1. call[f].to \in BOOLEAN BY DEF WakeInv, Types, Calls
  <2>2. Types' BY <1>4, <2>1 DEF AddTimer, WakeInv, Types
  <2>3. Sleepers' BY <1>4 DEF AddTimer, WakeInv, Sleepers, Types, Callback
  <2>4. WokenOnce' BY <1>4 DEF AddTimer, WakeInv, WokenOnce, Types, Place
  <2> QED BY <2>2, <2>3, <2>4 DEF WakeInv
<1>5. ASSUME NEW f \in Fibers, AddEvent(f) PROVE WakeInv'
  <2> DEFINE p == Place(f)
  <2>1. p \in Fds \X Events BY <1>5, EventOfType DEF AddEvent, WakeInv, Types, Place
  <2>2. pc[f] = "armed" /\ queued' = queued BY <1>5 DEF AddEvent
  <2>3. CASE UNCHANGED <<context, fiber, cbs>>
    BY <2>2, <2>3 DEF WakeInv, Types, Sleepers, WokenOnce, Place
  <2>4. CASE /\ context[p] = None /\ context' = [context EXCEPT ![p] = f]
             /\ pc' = [pc EXCEPT ![f] = "hold"] /\ UNCHANGED <<call, timer, cbs>>
    <3>1. Types' BY <2>1, <2>2, <2>4 DEF WakeInv, Types
    <3>2. Sleepers' BY <2>2, <2>4 DEF WakeInv, Sleepers, Types, Callback
    <3>3. \A q \in Fds \X Events : context[q] # f BY <2>2 DEF WakeInv, WokenOnce
    <3>4. f \notin queued BY <2>2 DEF WakeInv, WokenOnce
    <3>5. \A q \in Fds \X Events : context'[q] = IF q = p THEN f ELSE context[q]
      BY <2>1, <2>4 DEF WakeInv, Types
    <3>6. call' = call BY <2>4
    <3>7. \A g \in Fibers : pc'[g] = IF g = f THEN "hold" ELSE pc[g] BY <2>4 DEF WakeInv, Types
    <3> HIDE DEF p
    <3>8. \A g \in queued' : pc'[g] = "hold" /\ ~\E q \in Fds \X Events : context'[q] = g
      BY <2>2, <3>3, <3>4, <3>5, <3>7 DEF WakeInv, WokenOnce, Types
    <3>9. \A q \in Fds \X Events : context'[q] # None => pc'[context'[q]] = "hold" /\ Place(context[q])' = q
      <4> SUFFICES ASSUME NEW q \in Fds \X Events, context'[q] # None
                   PROVE  pc'[context'[q]] = "hold" /\ Place(context[q])' = q
        OBVIOUS
      <4>1. CASE q = p
        BY <3>5, <3>6, <3>7, <4>1 DEF p, Place
      <4>2. CASE q # p
        BY <3>3, <3>5, <3>6, <3>7, <4>2 DEF WakeInv, WokenOnce, Types, Place
      <4> QED BY <4>1, <4>2
    <3>10. WokenOnce' BY <3>8, <3>9 DEF WokenOnce
    <3> QED BY <3>1, <3>2, <3>10 DEF WakeInv
  <2>5. CASE timer' = [timer EXCEPT ![f] = FALSE] /\ Return(f) /\ UNCHANGED context
    BY <2>2, <2>5, ReturnKeeps, Zenon DEF WakeInv, Types
  <2> QED BY <1>5, <2>3, <2>4, <2>5 DEF AddEvent
<1>6. ASSUME NEW f \in Fibers, "sleep" \in Ops, sleep(f) PROVE WakeInv'
  <2>1. \A p \in Fds \X Events : context[p] # f BY <1>6 DEF sleep, WakeInv, WokenOnce
  <2>2. f \notin queued BY <1>6 DEF sleep, WakeInv, WokenOnce
  <2>3. \A c \in fired : c.fd = None => c.f # f BY <1>6 DEF sleep, WakeInv, Sleepers
  <2>4. [NoCall EXCEPT !.op = "sleep", !.to = TRUE] \in Calls
    BY <1>6, Zenon DEF NoCall, Calls
  <2>5. /\ [NoCall EXCEPT !.op = "sleep", !.to = TRUE].fd = None
        /\ [NoCall EXCEPT !.op = "sleep", !.to = TRUE].op = "sleep"
    BY DEF NoCall
  <2>6. Types' BY <1>6, <2>4, <2>5 DEF sleep, WakeInv, Types
  <2>7. Sleepers' BY <1>6, <2>2, <2>3, <2>5 DEF sleep, WakeInv, Sleepers, Types, Callback
  <2>8. WokenOnce' BY <1>6, <2>1, <2>2 DEF sleep, WakeInv, WokenOnce, Types, Place
  <2> QED BY <2>6, <2>7, <2>8 DEF WakeInv
<1>7. ASSUME NEW f \in Fibers, Resume(f) PROVE WakeInv'
  <2>1. \A p \in Fds \X Events : context[p] # f BY <1>7 DEF Resume, WakeInv, WokenOnce
  <2>2. \A c \in fired : c.fd = None => c.f # f BY <1>7 DEF Resume, WakeInv, Sleepers
  <2>3. Types' BY <1>7 DEF Resume, WakeInv, Types
  <2>4. Sleepers' BY <1>7, <2>2 DEF Resume, WakeInv, Sleepers, Types, Callback
  <2>5. WokenOnce' BY <1>7, <2>1 DEF Resume, WakeInv, WokenOnce, Types, Place
  <2> QED BY <2>3, <2>4, <2>5 DEF WakeInv
<1>8. ASSUME NEW f \in Fibers, Woken(f) PROVE WakeInv'
  <2>1. CASE Return(f)
    BY <1>8, <2>1, ReturnKeeps, Zenon DEF Woken, WakeInv, Types
  <2>2. CASE ~(f \in cancelled \/ call[f].op \in {"connect", "sleep"})
    <3>1. pc' = [pc EXCEPT ![f] = "try"] /\ UNCHANGED <<call, cbs, context, queued>>
      BY <1>8, <2>2 DEF Woken
    <3>2. call[f].fd \in Fds
      BY <1>8, <2>2 DEF Woken, WakeInv, Types
    <3>3. Types' BY <1>8, <3>1, <3>2 DEF Woken, WakeInv, Types
    <3>4. Sleepers' BY <1>8, <3>1 DEF Woken, WakeInv, Sleepers, Types, Callback
    <3>5. WokenOnce' BY <1>8, <3>1 DEF Woken, WakeInv, WokenOnce, Types, Place
    <3> QED BY <3>3, <3>4, <3>5 DEF WakeInv
  <2> QED BY <1>8, <2>1, <2>2 DEF Woken
<1>9. ASSUME NEW p \in Fds \X Events, Deliver(p) PROVE WakeInv'
  BY <1>9, TriggerWakesOne DEF Deliver
<1>10. ASSUME NEW f \in Fibers, Expire(f) PROVE WakeInv'
  <2> DEFINE c == [f |-> f, fd |-> call[f].fd, e |-> EventOf(call[f].op), alive |-> TRUE, at |-> "queued"]
  <2>1. fired' = fired \cup {c} BY <1>10 DEF Expire
  <2>2. c \in Callback BY EventOfType DEF WakeInv, Types, Calls, Callback
  <2>3. c.f = f /\ c.fd = call[f].fd /\ c.at = "queued" OBVIOUS
  <2> HIDE DEF c
  <2>4. Types' BY <1>10, <2>1, <2>2, Zenon DEF Expire, WakeInv, Types
  <2>5. Sleepers' BY <1>10, <2>1, <2>3, SMTT(20) DEF Expire, WakeInv, Sleepers, Types, Callback
  <2>6. WokenOnce' BY <1>10 DEF Expire, WakeInv, WokenOnce, Types, Place
  <2> QED BY <2>4, <2>5, <2>6 DEF WakeInv
<1>11. ASSUME NEW c \in fired, RunCallback(c) PROVE WakeInv'
  <2>1. c \in Callback BY DEF WakeInv, Types
  <2>2. CASE c.fd = None
    <3>1. pc[c.f] = "hold" /\ call[c.f].fd = None /\ c.f \in Fibers
      BY <2>1, <2>2 DEF WakeInv, Sleepers, Callback
    <3>2. \A p \in Fds \X Events : context[p] # c.f
      BY <3>1 DEF WakeInv, WokenOnce, Place
    <3>3. queued' = queued \cup {c.f} /\ fired' = fired \ {c} /\ UNCHANGED <<context, fiber>>
      BY <1>11, <2>2 DEF RunCallback
    <3>4. Types' BY <3>1, <3>3 DEF WakeInv, Types
    <3>5. Sleepers' BY <2>2, <3>3 DEF WakeInv, Sleepers
    <3>6. WokenOnce' BY <3>1, <3>2, <3>3 DEF WakeInv, WokenOnce, Place
    <3> QED BY <3>4, <3>5, <3>6 DEF WakeInv
  <2>3. CASE c.fd # None
    <3> DEFINE d == [c EXCEPT !.at = "cancel"]
    <3>1. d \in Callback /\ d.fd = c.fd BY <2>1 DEF Callback
    <3> HIDE DEF d
    <3>2. fired' \subseteq fired \cup {d} /\ UNCHANGED <<queued, context, fiber>>
      BY <1>11, <2>3 DEF RunCallback, d
    <3>3. Types' BY <3>1, <3>2 DEF WakeInv, Types
    <3>4. Sleepers' BY <2>3, <3>1, <3>2 DEF WakeInv, Sleepers
    <3>5. WokenOnce' BY <3>2 DEF WakeInv, WokenOnce, Place
    <3> QED BY <3>3, <3>4, <3>5 DEF WakeInv
  <2> QED BY <2>2, <2>3
<1>12. ASSUME NEW c \in fired, CancelEvent(c) PROVE WakeInv'
  <2>1. c.fd \in Fds /\ c.e \in Events
    BY <1>12 DEF CancelEvent, WakeInv, Types, Sleepers, Callback
  <2>2. CASE Trigger(<<c.fd, c.e>>) /\ context[<<c.fd, c.e>>] # None
    BY <1>12, <2>1, <2>2, TriggerWakesOne, SMTT(20) DEF CancelEvent
  <2>3. CASE UNCHANGED <<queued, context, interest>>
    <3>1. fired' \subseteq fired /\ UNCHANGED fiber BY <1>12, SMTT(20) DEF CancelEvent
    <3> QED BY <2>3, <3>1, SMTT(20) DEF WakeInv, Types, Sleepers, WokenOnce, Place
  <2> QED BY <1>12, <2>2, <2>3, SMTT(20) DEF CancelEvent
<1>13. ASSUME UNCHANGED <<context, fiber, cbs, queued>> PROVE WakeInv'
  BY <1>13 DEF WakeInv, Types, Sleepers, WokenOnce, Place
<1>14. ASSUME NEW f \in Fibers, NEW n \in Fds, close(f, n) PROVE WakeInv'
  <2> DEFINE k == [NoCall EXCEPT !.op = "close", !.fd = n, !.old = TRUE]
             Own == {context[<<n, e>>] : e \in Events} \ {None}
  <2>1. k \in Calls /\ k.fd = n BY Zenon DEF NoCall, Calls
  <2>2. \A p \in Fds \X Events : context[p] # f BY <1>14 DEF close, WakeInv, WokenOnce
  <2>3. f \notin queued /\ ~timer[f] BY <1>14 DEF close, WakeInv, WokenOnce, Types
  <2>4. \A c \in fired : c.fd = None => c.f # f BY <1>14 DEF close, WakeInv, Sleepers
  <2>5. /\ pc' = [pc EXCEPT ![f] = "close"] /\ call' = [call EXCEPT ![f] = k]
        /\ UNCHANGED <<timer, cbs>>
    BY <1>14 DEF close
  <2>6. \A g \in Own : g \in Fibers /\ pc[g] = "hold" /\ call[g].fd = n
    <3> TAKE g \in Own
    <3>1. PICK e \in Events : g = context[<<n, e>>] /\ g # None OBVIOUS
    <3>2. <<n, e>> \in Fds \X Events OBVIOUS
    <3>3. g \in Fibers BY <3>1, <3>2 DEF WakeInv, Types
    <3>4. pc[g] = "hold" /\ Place(g) = <<n, e>> BY <3>1, <3>2 DEF WakeInv, WokenOnce
    <3> QED BY <3>3, <3>4 DEF Place
  <2> HIDE DEF k
  <2>7. CASE UNCHANGED <<queued, context>>
    <3>1. Types' BY <2>1, <2>3, <2>5, <2>7 DEF WakeInv, Types
    <3>2. Sleepers' BY <2>1, <2>3, <2>4, <2>5, <2>7, SMTT(20) DEF WakeInv, Sleepers, Types, Callback
    <3>3. WokenOnce' BY <2>2, <2>3, <2>5, <2>7 DEF WakeInv, WokenOnce, Types, Place
    <3> QED BY <3>1, <3>2, <3>3 DEF WakeInv
  <2>8. CASE /\ queued' = queued \cup Own
             /\ context' = [p \in Fds \X Events |-> IF p[1] = n THEN None ELSE context[p]]
    <3>1. Types' BY <2>1, <2>3, <2>5, <2>6, <2>8, ZenonT(30) DEF WakeInv, Types
    <3>2. \A p \in Fds \X Events : context[p] # None => context[p] \in Own \/ p[1] # n
      OBVIOUS
    <3>3. \A p \in Fds \X Events : p[1] # n => context[p] \notin Own
      BY <2>6, SMTT(20) DEF WakeInv, WokenOnce, Place
    <3> HIDE DEF Own
    <3>4. Sleepers' BY <2>1, <2>3, <2>4, <2>5, <2>6, <2>8 DEF WakeInv, Sleepers, Types, Callback
    <3>5. \A p \in Fds \X Events : context'[p] = IF p[1] = n THEN None ELSE context[p]
      BY <2>8
    <3>6. \A g \in queued' : pc'[g] = "hold" /\ ~\E p \in Fds \X Events : context'[p] = g
      <4> SUFFICES ASSUME NEW g \in queued'
                   PROVE  pc'[g] = "hold" /\ ~\E p \in Fds \X Events : context'[p] = g
        OBVIOUS
      <4>1. g \in Fibers /\ g # None BY <2>6, <2>8 DEF WakeInv, Types
      <4>2. pc[g] = "hold" /\ pc[f] = "user"
        BY <1>14, <2>6, <2>8 DEF WakeInv, WokenOnce, close
      <4>3. pc'[g] = "hold" BY <2>5, <4>1, <4>2 DEF WakeInv, Types
      <4>4. ASSUME NEW p \in Fds \X Events, context'[p] = g PROVE FALSE
        <5>1. p[1] # n /\ context[p] = g BY <3>5, <4>1, <4>4
        <5>2. g \in queued BY <2>8, <3>3, <5>1, SMTT(20)
        <5> QED BY <5>1, <5>2 DEF WakeInv, WokenOnce
      <4> QED BY <4>3, <4>4
    <3>7. \A p \in Fds \X Events : context'[p] # None => pc'[context'[p]] = "hold" /\ Place(context[p])' = p
      BY <2>2, <2>5, <3>5 DEF WakeInv, WokenOnce, Types, Place
    <3>8. WokenOnce' BY <3>6, <3>7 DEF WokenOnce
    <3> QED BY <3>1, <3>4, <3>8 DEF WakeInv
  <2> QED BY <1>14, <2>7, <2>8, SMTT(20) DEF close
<1>15. ASSUME NEW f \in Fibers, close_f(f) PROVE WakeInv'
  <2>1. \A p \in Fds \X Events : context[p] # f BY <1>15 DEF close_f, WakeInv, WokenOnce
  <2>2. f \notin queued /\ ~timer[f] BY <1>15 DEF close_f, WakeInv, WokenOnce, Types
  <2>3. \A c \in fired : c.fd = None => c.f # f BY <1>15 DEF close_f, WakeInv, Sleepers
  <2>4. NoCall \in Calls BY DEF NoCall, Calls
  <2>5. ASSUME NEW g \in Fibers, NEW b \in BOOLEAN
        PROVE  LET k == [call[g] EXCEPT !.old = b] IN k \in Calls /\ k.fd = call[g].fd /\ k.op = call[g].op
    BY DEF WakeInv, Types, Calls
  <2>6. call' \in [Fibers -> Calls]
    <3>1. \A g \in Fibers : (call[g].old \/ call[g].fd = call[f].fd) \in BOOLEAN OBVIOUS
    <3> QED BY <1>15, <2>4, <2>5, <3>1, Zenon DEF close_f
  <2>7. /\ \A g \in Fibers : g # f => call'[g].fd = call[g].fd /\ call'[g].op = call[g].op
        /\ call'[f] = NoCall
    BY <1>15, <2>5, Zenon DEF close_f
  <2>8. Types' BY <1>15, <2>2, <2>6, <2>7, ZenonT(30) DEF close_f, WakeInv, Types
  <2>9. Sleepers' BY <1>15, <2>2, <2>3, <2>7, SMTT(30) DEF close_f, WakeInv, Sleepers, Types, Callback
  <2>10. WokenOnce' BY <1>15, <2>1, <2>2, <2>7, SMTT(30) DEF close_f, WakeInv, WokenOnce, Types, Place
  <2> QED BY <2>8, <2>9, <2>10 DEF WakeInv
<1>16. ASSUME NEW f \in Fibers, NEW n \in Fds, socket(f, n) \/ Configure(f, n) PROVE WakeInv'
  BY <1>13, <1>16 DEF socket, Configure
<1>17. ASSUME NEW p \in Fds \X Events, Arrive(p) PROVE WakeInv'
  BY <1>13, <1>17 DEF Arrive
<1> QED
  BY <1>1, <1>2, <1>3, <1>4, <1>5, <1>6, <1>7, <1>8, <1>9, <1>10, <1>11, <1>12, <1>14, <1>15, <1>16, <1>17
     DEF Next, InCall

\* The invariant holds at first.
LEMMA WakeInit == Init => WakeInv
<1> SUFFICES ASSUME Init PROVE WakeInv OBVIOUS
<1>1. NoCall \in Calls BY DEF NoCall, Calls
<1>2. \A f \in Fibers : pc[f] = "user" /\ timer[f] = FALSE BY DEF Init
<1>3. /\ context \in [Fds \X Events -> Fibers \cup {None}] /\ pc \in [Fibers -> Labels]
      /\ call \in [Fibers -> Calls] /\ timer \in [Fibers -> BOOLEAN] /\ fired = {} /\ queued = {}
  BY <1>1 DEF Init, Labels
<1>4. Types BY <1>2, <1>3 DEF Types
<1>5. Sleepers BY <1>2, <1>3 DEF Sleepers
<1>6. WokenOnce BY <1>3 DEF Init, WokenOnce
<1> QED BY <1>4, <1>5, <1>6 DEF WakeInv

\* An event, a timeout and a close may all want to wake the same fiber: it is
\* queued only while it waits, and then nobody is left who would queue it
\* again, for any fibers, descriptors and threads.
THEOREM WokenOnceAlways == Spec => []WokenOnce
<1>1. WakeInv => WokenOnce BY DEF WakeInv
<1> QED BY WakeInit, WakeStep, <1>1, PTL DEF Spec

-----------------------------------------------------------------------------
\* A callback whose timer_info is there belongs to the call of that timer.
OwnInv == TimeoutIsOwn /\ \A c \in fired : c.alive => c.f \in expired

\* A call fails with ETIMEDOUT only if a timer of this very call expired: a late
\* callback of an earlier call finds its weak pointer dead.
THEOREM TimeoutsAreOwn == Spec => []TimeoutIsOwn
<1>1. Init => OwnInv BY DEF Init, OwnInv, TimeoutIsOwn
<1>2. ASSUME WakeInv, OwnInv, [Next]_vars PROVE OwnInv'
  <2> USE DEF kernel, fiber, cbs
  <2>1. ASSUME NEW f \in Fibers, Return(f) PROVE OwnInv'
    <3>1. \A c \in fired' : c.alive => c \in fired /\ c.f # f
      <4> SUFFICES ASSUME NEW d \in fired, NEW c, c = IF d.f = f THEN [d EXCEPT !.alive = FALSE] ELSE d, c.alive
                   PROVE  c \in fired /\ c.f # f
        BY <2>1 DEF Return
      <4>1. d \in Callback BY <1>2 DEF WakeInv, Types
      <4>2. [d EXCEPT !.alive = FALSE].alive = FALSE BY <4>1 DEF Callback
      <4> QED BY <4>2
    <3> QED BY <1>2, <2>1, <3>1 DEF Return, OwnInv, TimeoutIsOwn
  <2>2. ASSUME UNCHANGED cbs PROVE OwnInv'
    BY <1>2, <2>2 DEF OwnInv, TimeoutIsOwn
  <2>3. CASE UNCHANGED vars
    BY <2>2, <2>3 DEF vars
  <2>4. ASSUME NEW f \in Fibers, Try(f) \/ AddEvent(f) \/ Woken(f) PROVE OwnInv'
    BY <2>1, <2>2, <2>4, Zenon DEF Try, AddEvent, Woken
  <2>5. ASSUME NEW f \in Fibers, AddTimer(f) \/ close_f(f) \/ Resume(f) \/ sleep(f) PROVE OwnInv'
    BY <2>2, <2>5 DEF AddTimer, close_f, Resume, sleep
  <2>6. ASSUME NEW f \in Fibers, NEW n \in Fds, \/ socket(f, n) \/ close(f, n) \/ Configure(f, n)
                                                 \/ \E op \in Ops : Begin(f, op, n)
        PROVE  OwnInv'
    BY <2>2, <2>6 DEF socket, close, Configure, Begin
  <2>7. ASSUME NEW p \in Fds \X Events, Deliver(p) \/ Arrive(p) PROVE OwnInv'
    BY <2>2, <2>7, Zenon DEF Deliver, Arrive
  <2>8. ASSUME NEW f \in Fibers, Expire(f) PROVE OwnInv'
    <3>1. cancelled' = cancelled /\ expired' = expired \cup {f}
      BY <2>8, Zenon DEF Expire
    <3>2. \A c \in fired' : c \in fired \/ c.f = f
      BY <2>8, SMTT(30) DEF Expire
    <3> QED BY <1>2, <3>1, <3>2 DEF OwnInv, TimeoutIsOwn
  <2>9. ASSUME NEW c \in fired, RunCallback(c) PROVE OwnInv'
    <3>1. [c EXCEPT !.at = "cancel"].f = c.f /\ [c EXCEPT !.at = "cancel"].alive = c.alive
      BY <1>2 DEF WakeInv, Types, Callback
    <3> QED BY <1>2, <2>9, <3>1, Zenon DEF RunCallback, OwnInv, TimeoutIsOwn
  <2>10. ASSUME NEW c \in fired, CancelEvent(c) PROVE OwnInv'
    BY <1>2, <2>10, Zenon DEF CancelEvent, OwnInv, TimeoutIsOwn
  <2> QED BY <1>2, <2>3, <2>4, <2>5, <2>6, <2>7, <2>8, <2>9, <2>10 DEF Next, InCall
<1>3. OwnInv => TimeoutIsOwn BY DEF OwnInv
<1> QED BY WakeInit, WakeStep, <1>1, <1>2, <1>3, PTL DEF Spec

-----------------------------------------------------------------------------
\* Two calls on one socket are for different events.
Apart(f, g) ==
  call[f].fd # None /\ call[f].fd = call[g].fd /\ ~call[f].old /\ ~call[g].old
    => EventOf(call[f].op) # EventOf(call[g].op)
ReuseInv == AssertNeedsReuse /\ \A f, g \in Fibers : f # g => Apart(f, g)

\* addEvent's ASSERT fails only when two calls meet at a number that was closed
\* after one of them was made, for any fibers, descriptors and threads.
THEOREM AssertOnlyOnReuse == Spec => []AssertNeedsReuse
<1>1. Init => ReuseInv
  BY SMTT(30) DEF Init, ReuseInv, AssertNeedsReuse, Apart, NoCall
<1>2. ASSUME WakeInv, ReuseInv, [Next]_vars PROVE ReuseInv'
  <2> USE DEF kernel, fiber, cbs
  <2>1. CASE UNCHANGED vars
    BY <1>2, <2>1, SMTT(30) DEF vars, ReuseInv, AssertNeedsReuse, Apart, At, Place
  <2>2. CASE Next
    <3>1. ~failed BY <2>2 DEF Next
    <3>2. ASSUME failed' PROVE AssertNeedsReuse'
      <4>1. PICK f \in Fibers : AddEvent(f) /\ context[Place(f)] # None /\ UNCHANGED <<context, fiber>>
        <5>1. \A f \in Fibers : Try(f) \/ AddTimer(f) \/ Woken(f) \/ close_f(f) \/ Resume(f) \/ Expire(f) \/ sleep(f)
                => UNCHANGED failed
          BY Zenon DEF Try, AddTimer, Woken, close_f, Resume, Expire, sleep
        <5>2. \A f \in Fibers, n \in Fds : socket(f, n) \/ close(f, n) \/ Configure(f, n) => UNCHANGED failed
          BY DEF socket, close, Configure
        <5>3. \A f \in Fibers, n \in Fds, op \in Ops : Begin(f, op, n) => UNCHANGED failed
          BY Zenon DEF Begin
        <5>4. \A c \in fired : RunCallback(c) \/ CancelEvent(c) => UNCHANGED failed
          BY DEF RunCallback, CancelEvent
        <5>5. \A p \in Fds \X Events : Deliver(p) \/ Arrive(p) => UNCHANGED failed
          BY Zenon DEF Deliver, Arrive
        <5>6. PICK f \in Fibers : AddEvent(f)
          BY <2>2, <3>1, <3>2, <5>1, <5>2, <5>3, <5>4, <5>5, Zenon DEF Next, InCall
        <5> QED BY <3>1, <3>2, <5>6, Zenon DEF AddEvent
      <4> DEFINE g == context[Place(f)]
      <4>2. Place(f) \in Fds \X Events /\ pc[f] = "armed" /\ call[f].fd \in Fds
        BY <1>2, <4>1, EventOfType, ZenonT(30) DEF AddEvent, At, WakeInv, Types, Place
      <4>3. g \in Fibers /\ pc[g] = "hold" /\ Place(g) = Place(f)
        BY <1>2, <4>1, <4>2, SMTT(30) DEF WakeInv, Types, WokenOnce, At
      <4>4. call[f].old \/ call[g].old
        BY <1>2, <4>2, <4>3, Zenon DEF ReuseInv, Apart, Place
      <4> QED BY <4>1, <4>2, <4>3, <4>4, Zenon DEF AssertNeedsReuse, At, Place
    <3> DEFINE AllApart == \A f, g \in Fibers : f # g => Apart(f, g)
    <3>3. ASSUME UNCHANGED call PROVE AllApart'
      BY <1>2, <3>3, Zenon DEF ReuseInv, Apart
    <3>4. ASSUME NEW h \in Fibers, NEW k, call' = [call EXCEPT ![h] = k], k.fd = None \/ k.old PROVE AllApart'
      BY <1>2, <3>4, ZenonT(30) DEF ReuseInv, Apart, WakeInv, Types
    <3>5. NoCall.fd = None BY DEF NoCall
    <3>6. ASSUME NEW f \in Fibers, Try(f) \/ AddEvent(f) \/ Woken(f) PROVE AllApart'
      BY <3>3, <3>4, <3>5, <3>6 DEF Try, AddEvent, Woken, Return
    <3>7. ASSUME NEW f \in Fibers, AddTimer(f) \/ Resume(f) \/ Expire(f) PROVE AllApart'
      BY <3>3, <3>7, Zenon DEF AddTimer, Resume, Expire
    <3>8. ASSUME NEW f \in Fibers, sleep(f) PROVE AllApart'
      <4>1. [NoCall EXCEPT !.op = "sleep", !.to = TRUE].fd = None BY DEF NoCall
      <4> QED BY <3>4, <3>8, <4>1, Zenon DEF sleep
    <3>9. ASSUME NEW f \in Fibers, NEW n \in Fds, close(f, n) PROVE AllApart'
      <4>1. [NoCall EXCEPT !.op = "close", !.fd = n, !.old = TRUE].old BY DEF NoCall
      <4> QED BY <3>4, <3>9, <4>1, Zenon DEF close
    <3>10. ASSUME NEW f \in Fibers, NEW n \in Fds, socket(f, n) \/ Configure(f, n) PROVE AllApart'
      BY <3>3, <3>10, SMTT(20) DEF socket, Configure
    <3>11. ASSUME NEW f \in Fibers, close_f(f) PROVE AllApart'
      <4>1. \A g \in Fibers, b \in BOOLEAN :
              LET k == [call[g] EXCEPT !.old = b] IN k.fd = call[g].fd /\ k.op = call[g].op /\ k.old = b
        BY <1>2 DEF WakeInv, Types, Calls
      <4>2. \A g \in Fibers : (call[g].old \/ call[g].fd = call[f].fd) \in BOOLEAN OBVIOUS
      <4>3. /\ \A g \in Fibers : g # f => /\ call'[g].fd = call[g].fd /\ call'[g].op = call[g].op
                                          /\ ~call'[g].old => ~call[g].old
            /\ call'[f] = NoCall
        BY <3>11, <4>1, <4>2, ZenonT(30) DEF close_f
      <4> QED BY <1>2, <3>5, <4>3, SMTT(30) DEF ReuseInv, Apart
    <3>12. ASSUME NEW f \in Fibers, NEW n \in Fds, NEW op \in Ops, Begin(f, op, n) PROVE AllApart'
      <4>1. /\ call'[f].op = op /\ call'[f].fd = n
            /\ \A g \in Fibers : g # f => call'[g] = call[g]
        BY <1>2, <3>12, Zenon DEF Begin, WakeInv, Types
      <4>2. \A g \in Fibers : call[g].fd = n /\ ~call[g].old => EventOf(call[g].op) # EventOf(op)
        BY <3>12, Zenon DEF Begin
      <4> QED BY <1>2, <4>1, <4>2, SMTT(30) DEF ReuseInv, Apart
    <3>13. ASSUME NEW c \in fired, RunCallback(c) \/ CancelEvent(c) PROVE AllApart'
      BY <3>3, <3>13 DEF RunCallback, CancelEvent
    <3>14. ASSUME NEW p \in Fds \X Events, Deliver(p) \/ Arrive(p) PROVE AllApart'
      BY <3>3, <3>14, Zenon DEF Deliver, Arrive
    <3> HIDE DEF AllApart
    <3>15. AllApart'
      BY <2>2, <3>6, <3>7, <3>8, <3>9, <3>10, <3>11, <3>12, <3>13, <3>14, Zenon DEF Next, InCall
    <3>16. AssertNeedsReuse' BY <3>2, Zenon DEF AssertNeedsReuse
    <3> QED BY <3>15, <3>16 DEF ReuseInv, AllApart
  <2> QED BY <1>2, <2>1, <2>2, SMTT(20)
<1>3. ReuseInv => AssertNeedsReuse BY DEF ReuseInv
<1> QED BY WakeInit, WakeStep, <1>1, <1>2, <1>3, PTL DEF Spec

-----------------------------------------------------------------------------
(* Calls of one thread *)

Busy(f) == pc[f] \notin {"user", "hold"}
Waits(f) == pc[f] = "hold" /\ f \notin queued

\* The rest of TypeOK.
RestTypes ==
  /\ m_threadCount \in ThreadCounts /\ m_datas \in [Fds -> FdCtx \cup {None}]
  /\ open \subseteq Fds /\ ready \subseteq Fds \X Events /\ interest \subseteq Fds \X Events
  /\ cancelled \subseteq Fibers /\ expired \subseteq Fibers /\ failed \in BOOLEAN

\* With any number of threads: a callback whose timer_info is there is one of
\* the call its fiber makes, and who waits for an event is in the table.
CallInv ==
  /\ \A c \in fired : c.alive => /\ pc[c.f] \notin {"user", "close"} /\ call[c.f].fd = c.fd
                                 /\ EventOf(call[c.f].op) = c.e
  /\ \A f \in Fibers : Waits(f) /\ call[f].fd # None => context[Place(f)] = f

\* One fiber runs, or one callback is in cancelEvent, or neither.
OneRuns ==
  /\ \A f, g \in Fibers : Busy(f) /\ Busy(g) => f = g
  /\ \A c, d \in fired : c.at = "cancel" /\ d.at = "cancel" => c = d
  /\ \A f \in Fibers, c \in fired : ~(Busy(f) /\ c.at = "cancel")

KernelArmed ==
  /\ \A p \in Fds \X Events : context[p] # None => p \in interest /\ p[1] \in open
  /\ \A f \in Fibers : pc[f] = "close" => \A e \in Events : context[<<call[f].fd, e>>] = None

\* tinfo->cancelled is set for a fiber that waits or is coming back, and what
\* is in cancelEvent was not late.
CancelledWaits ==
  /\ \A f \in cancelled : pc[f] \in {"hold", "back"}
  /\ \A c \in fired : c.at = "cancel" => c.alive /\ c.fd # None

\* Who waits with a timeout has a callback in cancelEvent, or is not cancelled
\* and has a timer or a callback that is not late.
TimeoutComes ==
  /\ \A f \in Fibers : pc[f] = "armed" /\ call[f].to => timer[f]
  /\ \A f \in Fibers : Waits(f) /\ call[f].to =>
       \/ \E c \in fired : c.f = f /\ c.at = "cancel"
       \/ f \notin cancelled /\ (timer[f] \/ \E c \in fired : c.f = f /\ c.alive)

OneInv == OneRuns /\ KernelArmed /\ CancelledWaits /\ TimeoutComes

\* A thread that is taken counts as one.
LEMMA OneTaken == ASSUME NEW x PROVE Cardinality({x}) = 1
<1> DEFINE S == {x}
           g == [R \in SUBSET S |-> IF R = {} THEN 0 ELSE 1]
           Rec(f, R) == IF R = {} THEN 0 ELSE 1 + f[R \ {CHOOSE y : y \in R}]
           CS == CHOOSE f : f = [R \in SUBSET S |-> Rec(f, R)]
<1>1. ASSUME NEW R \in SUBSET S, R # {} PROVE R = {x} /\ R \ {CHOOSE y : y \in R} = {}
  <2>1. R = {x} BY <1>1
  <2>2. (CHOOSE y : y \in R) = x BY <2>1
  <2> QED BY <2>1, <2>2
<1>2. ASSUME NEW R \in SUBSET S PROVE g[R] = Rec(g, R)
  <2>1. CASE R = {} BY <2>1
  <2>2. CASE R # {}
    <3>1. R \ {CHOOSE y : y \in R} = {} BY <1>1, <2>2
    <3>2. g[{}] = 0 OBVIOUS
    <3> QED BY <2>2, <3>1, <3>2
  <2> QED BY <2>1, <2>2
<1>3. g = [R \in SUBSET S |-> Rec(g, R)] BY <1>2
<1>4. \E f : f = [R \in SUBSET S |-> Rec(f, R)] BY <1>3, Zenon
<1>5. CS = [R \in SUBSET S |-> Rec(CS, R)] BY <1>4, Zenon
<1>6. Cardinality({x}) = CS[S] BY DEF Cardinality
<1> HIDE DEF CS
<1>7. CS[{}] = 0 BY <1>5
<1>8. CS[S] = 1 + CS[S \ {CHOOSE y : y \in S}] BY <1>5
<1>9. S \ {CHOOSE y : y \in S} = {} BY <1>1
<1> QED BY <1>6, <1>7, <1>8, <1>9

\* The one thread is free only when no fiber runs and no callback is in
\* cancelEvent.
LEMMA FreeIsIdle ==
  ASSUME m_threadCount = 1, OneRuns, ThreadFree
  PROVE  (\A f \in Fibers : ~Busy(f)) /\ (\A c \in fired : c.at # "cancel")
<1>1. ASSUME NEW x, Running = {x} PROVE FALSE
  <2>1. Cardinality({x}) = 1 BY OneTaken
  <2> QED BY <1>1, <2>1 DEF ThreadFree
<1>2. ASSUME NEW f \in Fibers, Busy(f) PROVE FALSE
  <2>1. Running = {f} BY <1>2 DEF Running, OneRuns, Busy
  <2> QED BY <1>1, <2>1
<1>3. ASSUME NEW c \in fired, c.at = "cancel" PROVE FALSE
  <2>1. Running = {c} BY <1>3 DEF Running, OneRuns, Busy
  <2> QED BY <1>1, <2>1
<1> QED BY <1>2, <1>3

\* The types of the tables and of the kernel are kept.
LEMMA RestStep ==
  ASSUME WakeInv, RestTypes, [Next]_vars
  PROVE  RestTypes'
<1> USE DEF kernel, fiber, cbs
<1>1. CASE UNCHANGED vars BY <1>1 DEF vars, RestTypes
<1>2. ASSUME NEW f \in Fibers, InCall(f) \/ Resume(f) \/ Expire(f) \/ sleep(f) PROVE RestTypes'
  <2>1. ASSUME Return(f) PROVE cancelled' \subseteq Fibers /\ expired' \subseteq Fibers
    BY <2>1 DEF Return, RestTypes
  <2>2. CASE Try(f) BY <2>1, <2>2, Zenon DEF Try, RestTypes
  <2>3. CASE AddTimer(f) BY <2>3, Zenon DEF AddTimer, RestTypes
  <2>4. CASE AddEvent(f)
    <3>1. pc[f] = "armed" BY <2>4, Zenon DEF AddEvent, At
    <3>2. Place(f) \in Fds \X Events BY <3>1, EventOfType, Zenon DEF WakeInv, Types, Place
    <3> QED BY <2>1, <2>4, <3>2, Zenon DEF AddEvent, RestTypes
  <2>5. CASE Woken(f) BY <2>1, <2>5, Zenon DEF Woken, RestTypes
  <2>6. CASE close_f(f)
    <3>1. m_datas' \in [Fds -> FdCtx \cup {None}] BY <2>6, Zenon DEF close_f, del, RestTypes
    <3> QED BY <2>6, <3>1 DEF close_f, RestTypes
  <2>7. CASE Resume(f) BY <2>7 DEF Resume, RestTypes
  <2>8. CASE Expire(f) BY <2>8, Zenon DEF Expire, RestTypes
  <2>9. CASE sleep(f) BY <2>9 DEF sleep, RestTypes
  <2> QED BY <1>2, <2>2, <2>3, <2>4, <2>5, <2>6, <2>7, <2>8, <2>9 DEF InCall
<1>3. ASSUME NEW f \in Fibers, NEW n \in Fds, socket(f, n) \/ close(f, n) \/ Configure(f, n) PROVE RestTypes'
  <2>1. [m_timeout |-> FALSE] \in FdCtx BY DEF FdCtx
  <2>2. CASE socket(f, n)
    <3>1. m_datas' \in [Fds -> FdCtx \cup {None}] BY <2>1, <2>2, Zenon DEF socket, get, RestTypes
    <3> QED BY <2>2, <3>1 DEF socket, RestTypes
  <2>3. CASE close(f, n) BY <2>3 DEF close, RestTypes
  <2>4. CASE Configure(f, n)
    <3>1. PICK ctx \in FdCtx : m_datas' = [m_datas EXCEPT ![n] = ctx] BY <2>4, Zenon DEF Configure
    <3> QED BY <2>4, <3>1, Zenon DEF Configure, RestTypes
  <2> QED BY <1>3, <2>2, <2>3, <2>4
<1>4. ASSUME NEW f \in Fibers, NEW n \in Fds, NEW op \in Ops, Begin(f, op, n) PROVE RestTypes'
  BY <1>4, Zenon DEF Begin, RestTypes
<1>5. ASSUME NEW c \in fired, RunCallback(c) \/ CancelEvent(c) PROVE RestTypes'
  <2>1. c.f \in Fibers BY DEF WakeInv, Types, Callback
  <2> QED BY <1>5, <2>1 DEF RunCallback, CancelEvent, Trigger, RestTypes
<1>6. ASSUME NEW p \in Fds \X Events, Deliver(p) \/ Arrive(p) PROVE RestTypes'
  BY <1>6, Zenon DEF Deliver, Arrive, Trigger, RestTypes
<1> QED BY <1>1, <1>2, <1>3, <1>4, <1>5, <1>6 DEF Next

\* Who is queued by an event or a cancelEvent is out of the table, and nobody else.
LEMMA TriggerCalls ==
  ASSUME WakeInv, CallInv, NEW p \in Fds \X Events, context[p] # None, Trigger(p),
         UNCHANGED fiber, fired' \subseteq fired
  PROVE  CallInv'
<1> USE DEF fiber, Waits
<1>1. \A f \in Fibers : Waits(f)' /\ call[f].fd # None => Waits(f) /\ Place(f) # p
  BY Zenon DEF Trigger, CallInv
<1>2. \A q \in Fds \X Events : q # p => context'[q] = context[q]
  BY Zenon DEF Trigger, WakeInv, Types
<1>3. \A f \in Fibers : pc[f] = "hold" /\ call[f].fd # None => Place(f) \in Fds \X Events
  BY EventOfType, SMTT(30) DEF WakeInv, Types, Calls, Place
<1>4. \A f \in Fibers : Waits(f)' /\ (call[f].fd # None)' => (context[Place(f)] = f)'
  <2> TAKE f \in Fibers
  <2> HAVE Waits(f)' /\ (call[f].fd # None)'
  <2>1. Waits(f) /\ Place(f) # p /\ call[f].fd # None BY <1>1, Zenon
  <2>2. context[Place(f)] = f /\ Place(f) \in Fds \X Events BY <1>3, <2>1, ZenonT(30) DEF CallInv
  <2>3. Place(f)' = Place(f) BY DEF Place
  <2> QED BY <1>2, <2>1, <2>2, <2>3, Zenon
<1>5. \A c \in fired' : c.alive => /\ pc'[c.f] \notin {"user", "close"} /\ call'[c.f].fd = c.fd
                                   /\ EventOf(call'[c.f].op) = c.e
  BY Zenon DEF CallInv
<1> QED BY <1>4, <1>5, Zenon DEF CallInv

\* A call that is over has no callback left whose timer_info is there.
LEMMA ReturnCalls ==
  ASSUME WakeInv, CallInv, NEW f \in Fibers, Return(f), UNCHANGED <<context, queued>>
  PROVE  CallInv'
<1>1. \A c \in fired' : c.alive => c \in fired /\ c.f # f
  <2> SUFFICES ASSUME NEW d \in fired, NEW c, c = IF d.f = f THEN [d EXCEPT !.alive = FALSE] ELSE d, c.alive
               PROVE  c \in fired /\ c.f # f
    BY DEF Return
  <2>1. d \in Callback BY DEF WakeInv, Types
  <2>2. [d EXCEPT !.alive = FALSE].alive = FALSE BY <2>1 DEF Callback
  <2> QED BY <2>2
<1>2. /\ \A g \in Fibers : g # f => pc'[g] = pc[g] /\ call'[g] = call[g]
      /\ pc'[f] = "user"
  BY DEF Return, Go, WakeInv, Types
<1>3. \A c \in fired : c.f \in Fibers BY Zenon DEF WakeInv, Types, Callback
<1> QED BY <1>1, <1>2, <1>3, ZenonT(30) DEF CallInv, Waits, Place

\* Every step keeps what is said of callbacks and of the table.
LEMMA CallStep ==
  ASSUME WakeInv, CallInv, [Next]_vars
  PROVE  CallInv'
<1> USE DEF Go, At, kernel, fiber, cbs
<1>0. \A c \in fired : c.f \in Fibers BY Zenon DEF WakeInv, Types, Callback
<1>1. ASSUME UNCHANGED <<context, fiber, fired, queued>> PROVE CallInv'
  BY <1>1, Zenon DEF CallInv, Waits, Place
<1>2. ASSUME NEW f \in Fibers, NEW l \in {"try", "again", "armed", "back"}, pc[f] \notin {"user", "close"},
             pc' = [pc EXCEPT ![f] = l], queued' \in {queued, queued \ {f}}, UNCHANGED <<context, call, fired>>
      PROVE  CallInv'
  BY <1>0, <1>2, ZenonT(30) DEF CallInv, Waits, Place, WakeInv, Types
<1>3. ASSUME NEW f \in Fibers, NEW k, NEW l, pc[f] = "user", pc' = [pc EXCEPT ![f] = l],
             call' = [call EXCEPT ![f] = k], l # "hold" \/ k.fd = None, UNCHANGED <<context, queued, fired>>
      PROVE  CallInv'
  BY <1>0, <1>3, ZenonT(40) DEF CallInv, Waits, Place, WakeInv, Types
<1>4. ASSUME NEW f \in Fibers, NEW n \in Fds, NEW op \in Ops \ {"sleep"}, Begin(f, op, n) PROVE CallInv'
  BY <1>4, <1>3, Zenon DEF Begin
<1>5. ASSUME NEW f \in Fibers, Try(f) PROVE CallInv'
  BY <1>2, <1>5, ReturnCalls, Zenon DEF Try
<1>6. ASSUME NEW f \in Fibers, AddTimer(f) \/ Resume(f) PROVE CallInv'
  BY <1>2, <1>6, Zenon DEF AddTimer, Resume
<1>7. ASSUME NEW f \in Fibers, AddEvent(f) PROVE CallInv'
  <2> DEFINE p == Place(f)
  <2>1. CASE UNCHANGED <<context, fiber, cbs>>
    BY <1>1, <1>7, <2>1, Zenon DEF AddEvent
  <2>2. CASE Return(f) /\ UNCHANGED context
    BY <1>7, <2>2, ReturnCalls, Zenon DEF AddEvent
  <2>3. CASE /\ context[p] = None /\ context' = [context EXCEPT ![p] = f]
             /\ pc' = [pc EXCEPT ![f] = "hold"] /\ UNCHANGED <<call, timer, cbs>>
    <3>1. pc[f] = "armed" /\ queued' = queued BY <1>7, Zenon DEF AddEvent
    <3>2. p \in Fds \X Events BY <3>1, EventOfType, Zenon DEF WakeInv, Types, Place
    <3>3. \A g \in Fibers : g # f /\ Waits(g)' => Waits(g)
      BY <2>3, <3>1 DEF Waits
    <3>4. \A g \in Fibers : Place(g)' = Place(g) BY <2>3 DEF Place
    <3>5. \A q \in Fds \X Events : q # p => context'[q] = context[q]
      BY <2>3, <3>2, Zenon DEF WakeInv, Types
    <3>6. context'[p] = f BY <2>3, <3>2, Zenon DEF WakeInv, Types
    <3>7. \A g \in Fibers : Waits(g)' /\ (call[g].fd # None)' => (context[Place(g)] = g)'
      <4> SUFFICES ASSUME NEW g \in Fibers, Waits(g)', call[g].fd # None PROVE context'[Place(g)] = g
        BY <2>3, <3>4, Zenon
      <4>1. CASE g = f
        BY <3>6, <4>1, Zenon
      <4>2. CASE g # f
        <5>1. Waits(g) /\ context[Place(g)] = g
          BY <3>3, <4>2, Zenon DEF CallInv
        <5>2. Place(g) # p
          BY <2>3, <5>1, HookAssumption, Zenon
        <5>3. Place(g) \in Fds \X Events
          <6>1. call[g] \in Calls BY Zenon DEF WakeInv, Types
          <6>2. call[g].fd \in Fds BY <6>1, Zenon DEF Calls
          <6> QED BY <6>2, EventOfType, Zenon DEF Place
        <5> QED BY <3>5, <5>1, <5>2, <5>3, Zenon
      <4> QED BY <4>1, <4>2, Zenon
    <3>8. \A c \in fired : pc'[c.f] \notin {"user", "close"} \/ (pc'[c.f] = pc[c.f])
      BY <2>3, <1>0, Zenon DEF WakeInv, Types
    <3> QED BY <2>3, <3>7, <3>8, Zenon DEF CallInv
  <2> QED BY <1>7, <2>1, <2>2, <2>3, Zenon DEF AddEvent
<1>8. ASSUME NEW f \in Fibers, sleep(f) PROVE CallInv'
  <2>1. [NoCall EXCEPT !.op = "sleep", !.to = TRUE].fd = None BY DEF NoCall
  <2> QED BY <1>3, <1>8, <2>1, Zenon DEF sleep
<1>9. ASSUME NEW f \in Fibers, Woken(f) PROVE CallInv'
  BY <1>2, <1>9, ReturnCalls, Zenon DEF Woken
<1>10. ASSUME NEW p \in Fds \X Events, Deliver(p) PROVE CallInv'
  BY <1>10, TriggerCalls, Zenon DEF Deliver
<1>11. ASSUME NEW f \in Fibers, Expire(f) PROVE CallInv'
  <2> DEFINE c == [f |-> f, fd |-> call[f].fd, e |-> EventOf(call[f].op), alive |-> TRUE, at |-> "queued"]
  <2>1. fired' = fired \cup {c} BY <1>11, ZenonT(30) DEF Expire
  <2>2. c.f = f /\ c.fd = call[f].fd /\ c.e = EventOf(call[f].op) OBVIOUS
  <2> HIDE DEF c
  <2>3. pc[f] \in {"armed", "hold", "back"} BY <1>11, Zenon DEF Expire, WakeInv, Types
  <2> QED BY <1>11, <2>1, <2>2, <2>3, Zenon DEF Expire, CallInv, Waits, Place
<1>12. ASSUME NEW c \in fired, RunCallback(c) PROVE CallInv'
  <2> DEFINE d == [c EXCEPT !.at = "cancel"]
  <2>1. d.f = c.f /\ d.fd = c.fd /\ d.e = c.e /\ d.alive = c.alive BY DEF WakeInv, Types, Callback
  <2>2. fired' \subseteq fired \cup {d} /\ queued \subseteq queued' /\ UNCHANGED <<context, fiber>>
    BY <1>12 DEF RunCallback
  <2> HIDE DEF d
  <2> QED BY <2>1, <2>2, ZenonT(30) DEF CallInv, Waits, Place
<1>13. ASSUME NEW c \in fired, CancelEvent(c) PROVE CallInv'
  <2>1. c.fd \in Fds /\ c.e \in Events
    BY <1>13, Zenon DEF CancelEvent, WakeInv, Types, Sleepers, Callback
  <2>2. CASE Trigger(<<c.fd, c.e>>) /\ context[<<c.fd, c.e>>] # None
    BY <1>13, <2>1, <2>2, TriggerCalls, Zenon DEF CancelEvent
  <2>3. CASE UNCHANGED <<queued, context, interest>>
    BY <1>13, <2>3, Zenon DEF CancelEvent, CallInv, Waits, Place
  <2> QED BY <1>13, <2>2, <2>3, Zenon DEF CancelEvent
<1>14. ASSUME NEW f \in Fibers, NEW n \in Fds, close(f, n) PROVE CallInv'
  <2> DEFINE k == [NoCall EXCEPT !.op = "close", !.fd = n, !.old = TRUE]
             Own == {context[<<n, e>>] : e \in Events} \ {None}
  <2>1. pc[f] = "user" /\ pc' = [pc EXCEPT ![f] = "close"] /\ call' = [call EXCEPT ![f] = k] /\ fired' = fired
    BY <1>14 DEF close
  <2> HIDE DEF k
  <2>2. CASE UNCHANGED <<queued, context>>
    BY <1>3, <2>1, <2>2, Zenon
  <2>3. CASE /\ queued' = queued \cup Own
             /\ context' = [p \in Fds \X Events |-> IF p[1] = n THEN None ELSE context[p]]
    <3>1. \A g \in Fibers : g # f => pc'[g] = pc[g] /\ call'[g] = call[g] BY <2>1, Zenon DEF WakeInv, Types
    <3>2. pc'[f] = "close" BY <2>1, Zenon DEF WakeInv, Types
    <3>3. \A c \in fired : c.alive => c.f # f BY <2>1, Zenon DEF CallInv
    <3>4. ASSUME NEW g \in Fibers, Waits(g)', (call[g].fd # None)' PROVE (context[Place(g)] = g)'
      <4>1. g # f /\ Waits(g) BY <2>3, <3>1, <3>2, <3>4, Zenon DEF Waits
      <4>2. Place(g)' = Place(g) /\ call[g].fd # None BY <3>1, <3>4, <4>1, Zenon DEF Place
      <4>3. context[Place(g)] = g BY <4>1, <4>2, Zenon DEF CallInv
      <4>4. call[g].fd \in Fds /\ EventOf(call[g].op) \in Events
        BY <4>2, EventOfType, Zenon DEF WakeInv, Types, Calls
      <4>5. call[g].fd # n
        <5> SUFFICES ASSUME call[g].fd = n PROVE FALSE OBVIOUS
        <5>1. g \in Own BY <4>3, <4>4, HookAssumption DEF Place
        <5> QED BY <2>3, <3>4, <5>1, Zenon DEF Waits
      <4> HIDE DEF Own
      <4>6. context'[<<call[g].fd, EventOf(call[g].op)>>] = context[<<call[g].fd, EventOf(call[g].op)>>]
        BY <2>3, <4>4, <4>5, ZenonT(30)
      <4> QED BY <4>2, <4>3, <4>6, Zenon DEF Place
    <3>5. \A c \in fired' : c.alive => /\ pc'[c.f] \notin {"user", "close"} /\ call'[c.f].fd = c.fd
                                       /\ EventOf(call'[c.f].op) = c.e
      BY <1>0, <2>1, <3>1, <3>3, SMTT(20) DEF CallInv
    <3> QED BY <3>4, <3>5, Zenon DEF CallInv
  <2> QED BY <1>14, <2>2, <2>3, Zenon DEF close
<1>15. ASSUME NEW f \in Fibers, close_f(f) PROVE CallInv'
  <2>1. \A g \in Fibers, b \in BOOLEAN :
          LET k == [call[g] EXCEPT !.old = b] IN k.fd = call[g].fd /\ k.op = call[g].op
    BY DEF WakeInv, Types, Calls
  <2>2. \A g \in Fibers : (call[g].old \/ call[g].fd = call[f].fd) \in BOOLEAN OBVIOUS
  <2>3. \A g \in Fibers : g # f => call'[g].fd = call[g].fd /\ call'[g].op = call[g].op /\ pc'[g] = pc[g]
    BY <1>15, <2>1, <2>2, ZenonT(30) DEF close_f, WakeInv, Types
  <2>4. pc'[f] = "user" /\ \A c \in fired : c.alive => c.f # f
    BY <1>15 DEF close_f, CallInv, WakeInv, Types
  <2>5. UNCHANGED <<context, queued, fired>> BY <1>15 DEF close_f
  <2> HIDE DEF Go, At
  <2>6. \A c \in fired' : c.alive => /\ pc'[c.f] \notin {"user", "close"} /\ call'[c.f].fd = c.fd
                                     /\ EventOf(call'[c.f].op) = c.e
    BY <1>0, <2>3, <2>4, <2>5, ZenonT(40) DEF CallInv
  <2>7. \A g \in Fibers : Waits(g)' => g # f /\ Waits(g) /\ Place(g)' = Place(g)
    BY <2>3, <2>4, <2>5, Zenon DEF Waits, Place
  <2>8. \A g \in Fibers : Waits(g)' /\ (call[g].fd # None)' => (context[Place(g)] = g)'
    BY <2>3, <2>5, <2>7, ZenonT(40) DEF CallInv
  <2> QED BY <2>6, <2>8, Zenon DEF CallInv
<1>16. ASSUME NEW f \in Fibers, NEW n \in Fds, socket(f, n) \/ Configure(f, n) PROVE CallInv'
  BY <1>1, <1>16, Zenon DEF socket, Configure
<1>17. ASSUME NEW p \in Fds \X Events, Arrive(p) PROVE CallInv'
  BY <1>1, <1>17 DEF Arrive
<1>18. CASE UNCHANGED vars
  BY <1>1, <1>18 DEF vars
<1> QED
  BY <1>4, <1>5, <1>6, <1>7, <1>8, <1>9, <1>10, <1>11, <1>12, <1>13, <1>14, <1>15, <1>16, <1>17, <1>18, Zenon
     DEF Next, InCall

\* With one thread every step keeps OneInv.
LEMMA OneStep ==
  ASSUME WakeInv, RestTypes, CallInv, OneInv, m_threadCount = 1, [Next]_vars
  PROVE  OneInv'
<1> USE DEF Go, At, kernel, fiber, cbs, Busy, Waits
<1>0. /\ \A c \in fired : c.f \in Fibers
      /\ pc \in [Fibers -> Labels] /\ call \in [Fibers -> Calls] /\ timer \in [Fibers -> BOOLEAN]
      /\ context \in [Fds \X Events -> Fibers \cup {None}]
      /\ OneRuns /\ KernelArmed /\ CancelledWaits /\ TimeoutComes
  BY DEF WakeInv, Types, Callback, OneInv
<1>1. ASSUME ThreadFree PROVE (\A f \in Fibers : ~Busy(f)) /\ (\A c \in fired : c.at # "cancel")
  BY <1>0, <1>1, FreeIsIdle
<1>2. ASSUME UNCHANGED <<context, fiber, cancelled, fired, queued, interest>>, open \subseteq open' PROVE OneInv'
  <2>1. OneRuns' BY <1>0, <1>2 DEF OneRuns
  <2>2. KernelArmed' BY <1>0, <1>2, Zenon DEF KernelArmed
  <2>3. CancelledWaits' BY <1>0, <1>2, Zenon DEF CancelledWaits
  <2>4. TimeoutComes' BY <1>0, <1>2, Zenon DEF TimeoutComes
  <2> QED BY <2>1, <2>2, <2>3, <2>4 DEF OneInv
<1>3. ASSUME NEW f \in Fibers, NEW n \in Fds, NEW op \in Ops \ {"sleep"}, Begin(f, op, n) PROVE OneInv'
  <2>1. \A g \in Fibers : pc[g] \in {"user", "hold"} BY <1>1, <1>3, Zenon DEF Begin
  <2>2. \A c \in fired : c.at # "cancel" BY <1>1, <1>3, Zenon DEF Begin
  <2>3. /\ pc[f] = "user" /\ pc' = [pc EXCEPT ![f] = "try"]
        /\ UNCHANGED <<context, timer, cancelled, fired, queued, interest, open>>
        /\ \A g \in Fibers : g # f => call'[g] = call[g]
    BY <1>0, <1>3, Zenon DEF Begin
  <2>a. pc'[f] = "try" /\ \A g \in Fibers : g # f => pc'[g] = pc[g] BY <1>0, <2>3, Zenon
  <2>4. OneRuns' BY <1>0, <2>1, <2>2, <2>3, Zenon DEF OneRuns
  <2>5. KernelArmed' BY <1>0, <2>1, <2>3, Zenon DEF KernelArmed
  <2>6. CancelledWaits'
    <3>1. \A g \in cancelled : g \in Fibers /\ g # f BY <1>0, <2>3, Zenon DEF CancelledWaits, RestTypes
    <3> QED BY <1>0, <2>3, <2>a, <3>1, Zenon DEF CancelledWaits
  <2>7. TimeoutComes' BY <1>0, <2>1, <2>3, ZenonT(40) DEF TimeoutComes
  <2> QED BY <2>4, <2>5, <2>6, <2>7 DEF OneInv
<1>4. ASSUME NEW f \in Fibers, Busy(f), Return(f), UNCHANGED <<context, queued, interest, open>>,
             \A g \in Fibers : g # f => timer'[g] = timer[g]
      PROVE  OneInv'
  <2>1. /\ \A g \in Fibers : g # f => pc[g] \in {"user", "hold"} /\ pc'[g] = pc[g] /\ call'[g] = call[g]
        /\ pc'[f] = "user" /\ cancelled' = cancelled \ {f} /\ \A c \in fired : c.at # "cancel"
    BY <1>0, <1>4 DEF OneRuns, Return
  <2>2. \A c \in fired' : c.at # "cancel"
    <3> SUFFICES ASSUME NEW d \in fired, NEW c, c = IF d.f = f THEN [d EXCEPT !.alive = FALSE] ELSE d
                 PROVE  c.at # "cancel"
      BY <1>4 DEF Return
    <3>1. d \in Callback BY DEF WakeInv, Types
    <3>2. [d EXCEPT !.alive = FALSE].at = d.at BY <3>1 DEF Callback
    <3> QED BY <2>1, <3>2
  <2>3. \A c \in fired : c.f # f => c \in fired' BY <1>4 DEF Return
  <2>4. OneRuns' BY <2>1, <2>2, Zenon DEF OneRuns
  <2>5. KernelArmed' BY <1>0, <1>4, <2>1, Zenon DEF KernelArmed
  <2>6. CancelledWaits' BY <1>0, <2>1, <2>2, RestStep, Zenon DEF CancelledWaits, RestTypes
  <2>7. TimeoutComes'
    <3>1. \A g \in Fibers : (pc[g] # "armed")' BY <2>1, Zenon
    <3>2. ASSUME NEW g \in Fibers, Waits(g)', call'[g].to
          PROVE  g \notin cancelled' /\ (timer'[g] \/ \E c \in fired' : c.f = g /\ c.alive)
      <4>1. g # f /\ Waits(g) /\ call[g].to BY <1>4, <2>1, <3>2, Zenon
      <4>2. g \notin cancelled /\ (timer[g] \/ \E c \in fired : c.f = g /\ c.alive)
        BY <1>0, <2>1, <4>1, ZenonT(30) DEF TimeoutComes
      <4> QED BY <1>4, <2>1, <2>3, <4>1, <4>2, Zenon
    <3> QED BY <3>1, <3>2, Zenon DEF TimeoutComes
  <2> QED BY <2>4, <2>5, <2>6, <2>7 DEF OneInv
<1>5. ASSUME NEW f \in Fibers, NEW l \in {"try", "again", "armed"}, Busy(f), f \notin cancelled, pc' = [pc EXCEPT ![f] = l],
             \A g \in Fibers : g # f => timer'[g] = timer[g], l = "armed" => timer'[f] = call[f].to,
             UNCHANGED <<context, call, cancelled, fired, queued, interest, open>>
      PROVE  OneInv'
  <2>1. /\ \A g \in Fibers : g # f => pc[g] \in {"user", "hold"} /\ pc'[g] = pc[g]
        /\ pc'[f] = l /\ \A c \in fired : c.at # "cancel"
    BY <1>0, <1>5, Zenon DEF OneRuns
  <2>2. OneRuns' BY <1>5, <2>1, Zenon DEF OneRuns
  <2>3. KernelArmed' BY <1>0, <1>5, <2>1, Zenon DEF KernelArmed
  <2>4. CancelledWaits' BY <1>0, <1>5, <2>1, ZenonT(30) DEF CancelledWaits, RestTypes
  <2>5. TimeoutComes' BY <1>0, <1>5, <2>1, ZenonT(40) DEF TimeoutComes
  <2> QED BY <2>2, <2>3, <2>4, <2>5 DEF OneInv
<1>6. ASSUME NEW f \in Fibers, Try(f) PROVE OneInv'
  <2>1. pc[f] = "try" /\ UNCHANGED <<context, timer, queued, interest, open>> BY <1>6, Zenon DEF Try
  <2>2. f \notin cancelled BY <1>0, <2>1, Zenon DEF CancelledWaits
  <2> QED BY <1>4, <1>5, <1>6, <2>1, <2>2, Zenon DEF Try
<1>7. ASSUME NEW f \in Fibers, AddTimer(f) PROVE OneInv'
  <2>1. pc[f] = "again" /\ timer' = [timer EXCEPT ![f] = call[f].to] /\ pc' = [pc EXCEPT ![f] = "armed"]
        /\ UNCHANGED <<context, call, cancelled, fired, queued, interest, open>>
    BY <1>7, Zenon DEF AddTimer
  <2>2. f \notin cancelled BY <1>0, <2>1, Zenon DEF CancelledWaits
  <2>3. (\A g \in Fibers : g # f => timer'[g] = timer[g]) /\ timer'[f] = call[f].to BY <1>0, <2>1
  <2> QED BY <1>5, <2>1, <2>2, <2>3, Zenon
<1>8. ASSUME NEW f \in Fibers, Woken(f) PROVE OneInv'
  <2>1. pc[f] = "back" /\ UNCHANGED <<context, queued, interest, open>>
        /\ \A g \in Fibers : g # f => timer'[g] = timer[g]
    BY <1>0, <1>8 DEF Woken
  <2>2. CASE Return(f) BY <1>4, <2>1, <2>2, Zenon
  <2>3. CASE f \notin cancelled /\ pc' = [pc EXCEPT ![f] = "try"] /\ UNCHANGED <<call, cbs>>
    BY <1>5, <2>1, <2>3, Zenon
  <2> QED BY <1>8, <2>2, <2>3, Zenon DEF Woken
<1>9. ASSUME NEW f \in Fibers, AddEvent(f) PROVE OneInv'
  <2> DEFINE p == Place(f)
  <2>1. pc[f] = "armed" /\ UNCHANGED <<open, queued>> BY <1>9, Zenon DEF AddEvent
  <2>2. p \in Fds \X Events BY <2>1, EventOfType, ZenonT(30) DEF WakeInv, Types, Place
  <2>3. /\ \A g \in Fibers : g # f => pc[g] \in {"user", "hold"}
        /\ f \notin cancelled /\ \A c \in fired : c.at # "cancel"
    BY <1>0, <2>1 DEF OneRuns, CancelledWaits
  <2>4. CASE UNCHANGED <<interest, context, fiber, cbs>> BY <1>2, <2>1, <2>4
  <2>5. CASE /\ p[1] \in open /\ context' = [context EXCEPT ![p] = f] /\ interest' = interest \cup {p}
             /\ pc' = [pc EXCEPT ![f] = "hold"] /\ UNCHANGED <<call, timer, cbs>>
    <3>1. /\ \A g \in Fibers : g # f => pc'[g] = pc[g]
          /\ pc'[f] = "hold" /\ \A q \in Fds \X Events : q # p => context'[q] = context[q]
      BY <1>0, <2>2, <2>5, Zenon DEF RestTypes, WakeInv, Types
    <3> HIDE DEF p
    <3>2. OneRuns' BY <2>3, <2>5, <3>1 DEF OneRuns
    <3>3. KernelArmed' BY <1>0, <2>1, <2>3, <2>5, <3>1, Zenon DEF KernelArmed
    <3>4. CancelledWaits' BY <1>0, <2>5, <2>3, <3>1, ZenonT(30) DEF CancelledWaits, RestTypes
    <3>5. TimeoutComes' BY <1>0, <2>1, <2>3, <2>5, <3>1, SMTT(30) DEF TimeoutComes
    <3> QED BY <3>2, <3>3, <3>4, <3>5 DEF OneInv
  <2>6. CASE timer' = [timer EXCEPT ![f] = FALSE] /\ Return(f) /\ UNCHANGED <<interest, context>>
    <3>1. \A g \in Fibers : g # f => timer'[g] = timer[g] BY <1>0, <2>6
    <3> QED BY <1>4, <2>1, <2>6, <3>1, Zenon
  <2> QED BY <1>9, <2>4, <2>5, <2>6, Zenon DEF AddEvent
<1>10. ASSUME NEW f \in Fibers, sleep(f) PROVE OneInv'
  <2>1. (\A g \in Fibers : pc[g] \in {"user", "hold"}) /\ \A c \in fired : c.at # "cancel"
    BY <1>1, <1>10 DEF sleep
  <2>2. /\ pc[f] = "user" /\ pc'[f] = "hold" /\ timer'[f] = TRUE
        /\ \A g \in Fibers : g # f => pc'[g] = pc[g] /\ call'[g] = call[g] /\ timer'[g] = timer[g]
        /\ UNCHANGED <<context, cancelled, fired, queued, interest, open>>
    BY <1>0, <1>10 DEF sleep
  <2>3. f \notin cancelled BY <1>0, <2>2, Zenon DEF CancelledWaits
  <2>4. OneRuns' BY <2>1, <2>2, Zenon DEF OneRuns
  <2>5. KernelArmed' BY <1>0, <2>1, <2>2, Zenon DEF KernelArmed
  <2>6. CancelledWaits' BY <1>0, <2>2, <2>3, Zenon DEF CancelledWaits, RestTypes
  <2>7. TimeoutComes' BY <1>0, <2>1, <2>2, <2>3, ZenonT(40) DEF TimeoutComes
  <2> QED BY <2>4, <2>5, <2>6, <2>7 DEF OneInv
<1>11. ASSUME NEW f \in Fibers, Resume(f) PROVE OneInv'
  <2>1. (\A g \in Fibers : pc[g] \in {"user", "hold"}) /\ \A c \in fired : c.at # "cancel"
    BY <1>1, <1>11 DEF Resume
  <2>2. /\ pc'[f] = "back" /\ queued' = queued \ {f} /\ \A g \in Fibers : g # f => pc'[g] = pc[g]
        /\ UNCHANGED <<call, timer, context, cancelled, fired, interest, open>>
    BY <1>0, <1>11 DEF Resume
  <2>3. OneRuns' BY <2>1, <2>2, Zenon DEF OneRuns
  <2>4. KernelArmed' BY <1>0, <2>1, <2>2, Zenon DEF KernelArmed
  <2>5. CancelledWaits' BY <1>0, <2>2, Zenon DEF CancelledWaits, RestTypes
  <2>6. TimeoutComes' BY <1>0, <2>1, <2>2, ZenonT(30) DEF TimeoutComes
  <2> QED BY <2>3, <2>4, <2>5, <2>6 DEF OneInv
<1>12. ASSUME NEW p \in Fds \X Events, Trigger(p), \A f \in Fibers : pc[f] # "close"
       PROVE  UNCHANGED <<pc, call, open>> => KernelArmed'
  BY <1>0, <1>12, Zenon DEF Trigger, KernelArmed
<1>13. ASSUME NEW p \in Fds \X Events, Deliver(p) PROVE OneInv'
  <2>1. (\A g \in Fibers : pc[g] \in {"user", "hold"}) /\ \A c \in fired : c.at # "cancel"
    BY <1>1, <1>13 DEF Deliver
  <2>2. queued \subseteq queued' /\ UNCHANGED <<fiber, cbs, open>> BY <1>13 DEF Deliver, Trigger
  <2>3. OneRuns' BY <2>1, <2>2 DEF OneRuns
  <2>4. KernelArmed' BY <1>12, <1>13, <2>1, <2>2, Zenon DEF Deliver
  <2>5. CancelledWaits' BY <1>0, <2>2, Zenon DEF CancelledWaits
  <2>6. TimeoutComes' BY <1>0, <2>2, Zenon DEF TimeoutComes
  <2> QED BY <2>3, <2>4, <2>5, <2>6 DEF OneInv
<1>14. ASSUME NEW f \in Fibers, Expire(f) PROVE OneInv'
  <2> DEFINE c == [f |-> f, fd |-> call[f].fd, e |-> EventOf(call[f].op), alive |-> TRUE, at |-> "queued"]
  <2>1. (\A g \in Fibers : pc[g] \in {"user", "hold"}) /\ \A d \in fired : d.at # "cancel"
    BY <1>1, <1>14, Zenon DEF Expire
  <2>2. /\ fired' = fired \cup {c} /\ \A g \in Fibers : g # f => timer'[g] = timer[g]
        /\ UNCHANGED <<pc, call, context, cancelled, queued, interest, open>>
    BY <1>0, <1>14, Zenon DEF Expire
  <2>3. c.f = f /\ c.alive /\ c.at = "queued" OBVIOUS
  <2> HIDE DEF c
  <2>4. OneRuns' BY <2>1, <2>2, <2>3, Zenon DEF OneRuns
  <2>5. KernelArmed' BY <1>0, <2>2, ZenonT(30) DEF KernelArmed
  <2>6. CancelledWaits' BY <1>0, <2>2, <2>3, Zenon DEF CancelledWaits
  <2>7. TimeoutComes' BY <1>0, <2>1, <2>2, <2>3, ZenonT(40) DEF TimeoutComes
  <2> QED BY <2>4, <2>5, <2>6, <2>7 DEF OneInv
<1>15. ASSUME NEW c \in fired, RunCallback(c) PROVE OneInv'
  <2> DEFINE d == [c EXCEPT !.at = "cancel"]
  <2>1. (\A g \in Fibers : pc[g] \in {"user", "hold"}) /\ \A b \in fired : b.at # "cancel"
    BY <1>1, <1>15 DEF RunCallback
  <2>2. d.f = c.f /\ d.fd = c.fd /\ d.alive = c.alive /\ d.at = "cancel" BY DEF WakeInv, Types, Callback
  <2> HIDE DEF d
  <2>3. UNCHANGED <<fiber, context, interest, open>> BY <1>15 DEF RunCallback
  <2>4. KernelArmed' BY <1>0, <2>3, Zenon DEF KernelArmed
  <2>5. ASSUME NEW g \in Fibers, Waits(g), call[g].to
        PROVE  g \notin cancelled /\ (timer[g] \/ \E b \in fired : b.f = g /\ b.alive)
    BY <1>0, <2>1, <2>5 DEF TimeoutComes
  <2>6. CASE fired' = fired \ {c} /\ cancelled' = cancelled /\ queued \subseteq queued'
             /\ (c.f \in queued' \/ ~c.alive \/ c.f \in cancelled)
    <3>1. OneRuns' BY <2>1, <2>3, <2>6 DEF OneRuns
    <3>2. CancelledWaits' BY <1>0, <2>3, <2>6, ZenonT(30) DEF CancelledWaits
    <3>3. TimeoutComes' BY <2>1, <2>3, <2>5, <2>6 DEF TimeoutComes
    <3> QED BY <2>4, <3>1, <3>2, <3>3 DEF OneInv
  <2>7. CASE /\ c.fd # None /\ c.alive /\ cancelled' = cancelled \cup {c.f}
             /\ fired' = (fired \ {c}) \cup {d} /\ UNCHANGED queued
    <3>1. pc[c.f] = "hold" BY <1>0, <2>1, <2>7, ZenonT(30) DEF CallInv
    <3>2. OneRuns' BY <2>1, <2>3, <2>7 DEF OneRuns
    <3>3. CancelledWaits' BY <1>0, <2>1, <2>2, <2>3, <2>7, <3>1, ZenonT(30) DEF CancelledWaits
    <3>4. ASSUME NEW g \in Fibers, Waits(g), call[g].to, g # c.f
          PROVE  g \notin cancelled' /\ (timer'[g] \/ \E b \in fired' : b.f = g /\ b.alive)
      <4>1. g \notin cancelled /\ (timer[g] \/ \E b \in fired : b.f = g /\ b.alive) BY <2>5, <3>4
      <4> QED BY <2>3, <2>7, <3>4, <4>1, Zenon
    <3>5. \E b \in fired' : b.f = c.f /\ b.at = "cancel" BY <2>2, <2>7, SMTT(20)
    <3>6. TimeoutComes' BY <2>1, <2>3, <2>7, <3>4, <3>5 DEF TimeoutComes
    <3> QED BY <2>4, <3>2, <3>3, <3>6 DEF OneInv
  <2> QED BY <1>15, <2>6, <2>7 DEF RunCallback, d
<1>16. ASSUME NEW c \in fired, CancelEvent(c) PROVE OneInv'
  <2> DEFINE p == <<c.fd, c.e>>
  <2>1. /\ c.at = "cancel" /\ fired' = fired \ {c} /\ UNCHANGED <<fiber, cancelled, open>>
    BY <1>16, Zenon DEF CancelEvent
  <2>2. /\ \A g \in Fibers : pc[g] \in {"user", "hold"}
        /\ \A b \in fired' : b.at # "cancel"
        /\ c.alive /\ c.fd # None /\ c.f \in Fibers
    BY <1>0, <2>1, Zenon DEF OneRuns, CancelledWaits
  <2>3. pc[c.f] = "hold" /\ Place(c.f) = p /\ call[c.f].fd # None
    <3>1. pc[c.f] # "user" /\ call[c.f].fd = c.fd /\ EventOf(call[c.f].op) = c.e BY <2>1, <2>2, Zenon DEF CallInv
    <3> QED BY <2>2, <3>1, Zenon DEF Place
  <2>4. p \in Fds \X Events
    <3>1. call[c.f].fd \in Fds BY <1>0, <2>2, <2>3 DEF Calls
    <3> QED BY <2>3, <3>1, EventOfType, ZenonT(30) DEF Place
  <2>5. c.f \in queued'
    <3>1. CASE c.f \in queued BY <1>16, <3>1, Zenon DEF CancelEvent, Trigger
    <3>2. CASE c.f \notin queued
      <4>1. context[p] = c.f BY <2>2, <2>3, <3>2, Zenon DEF CallInv
      <4>2. context[p] # None /\ p \in interest BY <1>0, <2>2, <2>4, <4>1, HookAssumption, Zenon DEF KernelArmed
      <4>3. c.e \in Events BY <2>4
      <4>4. InEpoll(c.fd) BY <4>2, <4>3 DEF InEpoll
      <4> QED BY <1>16, <4>1, <4>2, <4>4, Zenon DEF CancelEvent, Trigger
    <3> QED BY <3>1, <3>2
  <2>6. queued \subseteq queued' BY <1>16 DEF CancelEvent, Trigger
  <2>7. OneRuns' BY <2>1, <2>2, Zenon DEF OneRuns
  <2>8. KernelArmed'
    <3>1. CASE Trigger(p) BY <1>12, <2>1, <2>2, <2>4, <3>1, Zenon
    <3>2. CASE UNCHANGED <<context, interest>> BY <1>0, <2>1, <3>2, Zenon DEF KernelArmed
    <3> QED BY <1>16, <3>1, <3>2, Zenon DEF CancelEvent
  <2>9. CancelledWaits' BY <1>0, <2>1, <2>2, ZenonT(30) DEF CancelledWaits
  <2>10. ASSUME NEW g \in Fibers, Waits(g)', call[g].to
         PROVE  g \notin cancelled' /\ (timer'[g] \/ \E b \in fired' : b.f = g /\ b.alive)
    <3>1. g # c.f /\ Waits(g) BY <2>1, <2>5, <2>6, <2>10, SMTT(20)
    <3>2. \A b \in fired : b.at = "cancel" => b = c BY <1>0, <2>1 DEF OneRuns
    <3>3. g \notin cancelled /\ (timer[g] \/ \E b \in fired : b.f = g /\ b.alive)
      BY <1>0, <2>10, <3>1, <3>2, Zenon DEF TimeoutComes
    <3> QED BY <2>1, <3>1, <3>3, SMTT(20)
  <2>11. TimeoutComes' BY <2>1, <2>2, <2>10, Zenon DEF TimeoutComes
  <2> QED BY <2>7, <2>8, <2>9, <2>11 DEF OneInv
<1>17. ASSUME NEW f \in Fibers, NEW n \in Fds, close(f, n) PROVE OneInv'
  <2>1. (\A g \in Fibers : pc[g] \in {"user", "hold"}) /\ \A c \in fired : c.at # "cancel"
    BY <1>1, <1>17 DEF close
  <2>2. /\ pc[f] = "user" /\ pc'[f] = "close" /\ queued \subseteq queued'
        /\ \A g \in Fibers : g # f => pc'[g] = pc[g] /\ call'[g] = call[g]
        /\ UNCHANGED <<timer, cancelled, fired, open>>
    BY <1>0, <1>17 DEF close
  <2>3. call'[f].fd = n
    <3>1. [NoCall EXCEPT !.op = "close", !.fd = n, !.old = TRUE].fd = n BY SMTT(20) DEF NoCall
    <3> QED BY <1>0, <1>17, <3>1 DEF close
  <2>4. OneRuns' BY <2>1, <2>2 DEF OneRuns
  <2>5. /\ \A p \in Fds \X Events : context'[p] # None => p \in interest' /\ p[1] \in open'
        /\ \A e \in Events : context'[<<n, e>>] = None
    <3>1. CASE Registered(n) /\ InEpoll(n)
      BY <1>0, <1>17, <2>2, <3>1 DEF close, KernelArmed
    <3>2. CASE ~(Registered(n) /\ InEpoll(n))
      <4>1. UNCHANGED <<context, interest>> BY <1>17, <3>2 DEF close
      <4>2. \A e \in Events : context[<<n, e>>] = None
        BY <1>0, <3>2, Zenon DEF KernelArmed, Registered, InEpoll
      <4> QED BY <1>0, <2>2, <4>1, <4>2, Zenon DEF KernelArmed
    <3> QED BY <3>1, <3>2, Zenon
  <2>6. KernelArmed' BY <2>1, <2>2, <2>3, <2>5, Zenon DEF KernelArmed
  <2>7. CancelledWaits' BY <1>0, <2>2, Zenon DEF CancelledWaits, RestTypes
  <2>8. TimeoutComes' BY <1>0, <2>1, <2>2, ZenonT(30) DEF TimeoutComes
  <2> QED BY <2>4, <2>6, <2>7, <2>8 DEF OneInv
<1>18. ASSUME NEW f \in Fibers, close_f(f) PROVE OneInv'
  <2>1. pc[f] = "close" /\ pc'[f] = "user" /\ UNCHANGED <<context, timer, cancelled, fired, queued>>
    BY <1>0, <1>18 DEF close_f
  <2>2. /\ \A g \in Fibers : g # f => pc[g] \in {"user", "hold"} /\ pc'[g] = pc[g]
        /\ \A c \in fired : c.at # "cancel"
    BY <1>0, <1>18, <2>1 DEF OneRuns, close_f
  <2>3. \A g \in Fibers, b \in BOOLEAN : [call[g] EXCEPT !.old = b].to = call[g].to
    BY <1>0 DEF Calls
  <2>4. \A g \in Fibers : (call[g].old \/ call[g].fd = call[f].fd) \in BOOLEAN OBVIOUS
  <2>5. \A g \in Fibers : g # f => call'[g].to = call[g].to BY <1>18, <2>3, <2>4, ZenonT(30) DEF close_f
  <2>6. OneRuns' BY <2>1, <2>2 DEF OneRuns
  <2>7. KernelArmed'
    <3>1. \A p \in Fds \X Events : context[p] # None => p[1] # call[f].fd
      BY <1>0, <2>1, SMTT(30) DEF KernelArmed
    <3>2. open' = open \ {call[f].fd} /\ interest' = {p \in interest : p[1] # call[f].fd}
      BY <1>18 DEF close_f
    <3> QED BY <1>0, <2>1, <2>2, <3>1, <3>2, ZenonT(30) DEF KernelArmed
  <2>8. CancelledWaits' BY <1>0, <2>1, <2>2, Zenon DEF CancelledWaits, RestTypes
  <2>9. TimeoutComes' BY <1>0, <2>1, <2>2, <2>5, ZenonT(30) DEF TimeoutComes
  <2> QED BY <2>6, <2>7, <2>8, <2>9 DEF OneInv
<1>19. ASSUME NEW f \in Fibers, NEW n \in Fds, socket(f, n) \/ Configure(f, n) PROVE OneInv'
  BY <1>2, <1>19, Zenon DEF socket, Configure
<1>20. ASSUME NEW p \in Fds \X Events, Arrive(p) PROVE OneInv'
  BY <1>2, <1>20 DEF Arrive
<1>21. CASE UNCHANGED vars
  BY <1>2, <1>21 DEF vars
<1> QED
  BY <1>3, <1>6, <1>7, <1>8, <1>9, <1>10, <1>11, <1>13, <1>14, <1>15, <1>16, <1>17, <1>18, <1>19, <1>20, <1>21, ZenonT(30)
     DEF Next, InCall

\* With one thread no call is left waiting, for any fibers and descriptors:
\* close() leaves nobody on what was closed, the kernel is armed for whoever
\* waits, and a call with a timeout has its timer or its callback to wake it.
THEOREM OneThreadCallsEnd == Spec => []OneThreadCalls
<1> DEFINE I == WakeInv /\ RestTypes /\ CallInv /\ (m_threadCount = 1 => OneInv)
<1>1. Init => I
  <2> SUFFICES ASSUME Init PROVE I OBVIOUS
  <2>1. WakeInv BY WakeInit
  <2>2. RestTypes /\ fired = {} /\ cancelled = {} /\ \A f \in Fibers : pc[f] = "user"
    BY Zenon DEF Init, RestTypes
  <2>3. \A p \in Fds \X Events : context[p] = None BY SMTT(20) DEF Init
  <2>4. CallInv BY <2>2 DEF CallInv, Waits
  <2>5. OneInv BY <2>2, <2>3, Zenon DEF OneInv, OneRuns, KernelArmed, CancelledWaits, TimeoutComes, Busy, Waits
  <2> QED BY <2>1, <2>2, <2>4, <2>5
<1>2. I /\ [Next]_vars => I'
  <2> SUFFICES ASSUME I, [Next]_vars PROVE I' OBVIOUS
  <2>1. m_threadCount' = m_threadCount
    BY ZenonT(40) DEF vars, Next, InCall, Try, AddTimer, AddEvent, Woken, close_f, Resume, Expire, sleep, socket, close,
           Configure, Begin, RunCallback, CancelEvent, Deliver, Arrive
  <2> QED BY <2>1, WakeStep, RestStep, CallStep, OneStep
<1>3. I => OneThreadCalls
  <2> SUFFICES ASSUME I PROVE OneThreadCalls OBVIOUS
  <2>1. TypeOK BY Zenon DEF WakeInv, Types, Labels, RestTypes, TypeOK
  <2>2. ASSUME m_threadCount = 1, NEW f \in Fibers \ queued, pc[f] = "hold", call[f].to, ~timer[f]
        PROVE  \E c \in fired : c.f = f /\ c.alive /\ (c.at = "cancel" \/ f \notin cancelled)
    BY <2>2, Zenon DEF OneInv, TimeoutComes, CancelledWaits, Waits
  <2>3. m_threadCount = 1 => \A p \in Fds \X Events : context[p] # None => p \in interest /\ p[1] \in open
    BY Zenon DEF OneInv, KernelArmed
  <2> QED BY <2>1, <2>2, <2>3, Zenon DEF OneThreadCalls, At
<1> QED BY <1>1, <1>2, <1>3, PTL DEF Spec

-----------------------------------------------------------------------------
(* The tables by descriptor (FdTables), for any number of fibers and   *)
(* descriptor numbers and for tables of any size *)

TableLabels == {"closed", "get", "make", "open", "found", "grow", "waits", "cancelled", "deleted"}
\* where a fiber's descriptor has an entry in m_datas
Owning == {"open", "found", "grow", "waits", "cancelled"}

\* What keeps entries apart: descriptors in use have different numbers, and an
\* entry that is there belongs to one of them that has got it and not deleted it
\* (a, f, i, d and w are the values of at, fd, id, datas and wild).
DatasKept(a, f, i, d, w) ==
  /\ a \in [Fibers -> TableLabels] /\ f \in [Fibers -> Nat] /\ i \in [Fibers -> Nat] /\ d \in [Numbers -> Nat]
  /\ \A u \in Fibers : a[u] # "closed" => f[u] \in Numbers
  /\ \A u, v \in Fibers : u # v /\ a[u] # "closed" /\ a[v] # "closed" => f[u] # f[v]
  /\ ~w => \A u \in Fibers : a[u] \in Owning => f[u] < DatasSize /\ d[f[u]] = i[u]
  /\ ~w => \A n \in Numbers : d[n] # 0 => \E u \in Fibers : a[u] \in Owning /\ f[u] = n
DatasInv == opens \in Nat /\ wild \in BOOLEAN /\ DatasKept(at, fd, id, datas, wild)

\* A step of one fiber u after which its own descriptor and entry are right, and
\* which leaves the entries of the others alone.
OneMoves(u, a, f, i, d, a2, f2, i2, d2) ==
  /\ a2 \in [Fibers -> TableLabels] /\ f2 \in [Fibers -> Nat] /\ i2 \in [Fibers -> Nat]
  /\ d2 \in [Numbers -> Nat]
  /\ \A v \in Fibers : v # u => a2[v] = a[v] /\ f2[v] = f[v] /\ i2[v] = i[v]
  /\ a2[u] # "closed" =>
       f2[u] \in Numbers /\ \A v \in Fibers : v # u /\ a[v] # "closed" => f[v] # f2[u]
  /\ a2[u] \in Owning => f2[u] < DatasSize /\ d2[f2[u]] = i2[u]
  /\ \A v \in Fibers : v # u /\ a[v] \in Owning => d2[f[v]] = d[f[v]]
  /\ \A n \in Numbers : d2[n] # 0 =>
       \/ \E v \in Fibers : v # u /\ a[v] \in Owning /\ f[v] = n
       \/ a2[u] \in Owning /\ f2[u] = n

\* Such a step keeps m_datas.
LEMMA OneFiberMoves ==
  ASSUME NEW u \in Fibers, NEW a, NEW f, NEW i, NEW d, NEW a2, NEW f2, NEW i2, NEW d2,
         DatasKept(a, f, i, d, FALSE), OneMoves(u, a, f, i, d, a2, f2, i2, d2)
  PROVE  DatasKept(a2, f2, i2, d2, FALSE)
<1>0. /\ \A v \in Fibers : a[v] # "closed" => f[v] \in Numbers
      /\ \A v, w \in Fibers : v # w /\ a[v] # "closed" /\ a[w] # "closed" => f[v] # f[w]
      /\ \A v \in Fibers : a[v] \in Owning => f[v] < DatasSize /\ d[f[v]] = i[v]
  BY Zenon DEF DatasKept
<1>a. /\ a2 \in [Fibers -> TableLabels] /\ f2 \in [Fibers -> Nat] /\ i2 \in [Fibers -> Nat]
      /\ d2 \in [Numbers -> Nat]
  BY Zenon DEF OneMoves
<1>b. \A v \in Fibers : v # u => a2[v] = a[v] /\ f2[v] = f[v] /\ i2[v] = i[v]
  BY Zenon DEF OneMoves
<1>c. a2[u] # "closed" =>
        f2[u] \in Numbers /\ \A v \in Fibers : v # u /\ a[v] # "closed" => f[v] # f2[u]
  BY Zenon DEF OneMoves
<1>d. /\ a2[u] \in Owning => f2[u] < DatasSize /\ d2[f2[u]] = i2[u]
      /\ \A v \in Fibers : v # u /\ a[v] \in Owning => d2[f[v]] = d[f[v]]
  BY Zenon DEF OneMoves
<1>e. \A n \in Numbers : d2[n] # 0 =>
        \/ \E v \in Fibers : v # u /\ a[v] \in Owning /\ f[v] = n
        \/ a2[u] \in Owning /\ f2[u] = n
  BY Zenon DEF OneMoves
<1>1. \A v \in Fibers : a2[v] # "closed" => f2[v] \in Numbers
  BY <1>0, <1>b, <1>c, Zenon
<1>2. ASSUME NEW v \in Fibers, NEW w \in Fibers, v # w, a2[v] # "closed", a2[w] # "closed"
      PROVE  f2[v] # f2[w]
  <2>1. CASE v = u
    <3>1. w # u /\ a[w] # "closed" /\ f2[w] = f[w] BY <1>2, <1>b, <2>1, Zenon
    <3>2. f[w] # f2[u] BY <1>2, <1>c, <2>1, <3>1, Zenon
    <3> QED BY <2>1, <3>1, <3>2, Zenon
  <2>2. CASE w = u
    <3>1. v # u /\ a[v] # "closed" /\ f2[v] = f[v] BY <1>2, <1>b, <2>2, Zenon
    <3>2. f[v] # f2[u] BY <1>2, <1>c, <2>2, <3>1, Zenon
    <3> QED BY <2>2, <3>1, <3>2, Zenon
  <2>3. CASE v # u /\ w # u
    <3>1. a2[v] = a[v] /\ f2[v] = f[v] /\ a2[w] = a[w] /\ f2[w] = f[w] BY <1>b, <2>3, Zenon
    <3>2. f[v] # f[w] BY <1>0, <1>2, <3>1, Zenon
    <3> QED BY <3>1, <3>2, Zenon
  <2> QED BY <2>1, <2>2, <2>3, Zenon
<1>3. ASSUME NEW v \in Fibers, a2[v] \in Owning PROVE f2[v] < DatasSize /\ d2[f2[v]] = i2[v]
  <2>1. CASE v = u BY <1>3, <1>d, <2>1, Zenon
  <2>2. CASE v # u
    <3>1. a[v] \in Owning /\ f2[v] = f[v] /\ i2[v] = i[v] BY <1>3, <1>b, <2>2, Zenon
    <3>2. f[v] < DatasSize /\ d[f[v]] = i[v] /\ d2[f[v]] = d[f[v]] BY <1>0, <1>d, <2>2, <3>1, Zenon
    <3> QED BY <3>1, <3>2, Zenon
  <2> QED BY <2>1, <2>2, Zenon
<1>4. ASSUME NEW n \in Numbers, d2[n] # 0 PROVE \E v \in Fibers : a2[v] \in Owning /\ f2[v] = n
  <2>1. CASE a2[u] \in Owning /\ f2[u] = n BY <2>1, Zenon
  <2>2. CASE \E v \in Fibers : v # u /\ a[v] \in Owning /\ f[v] = n
    <3>1. PICK v \in Fibers : v # u /\ a[v] \in Owning /\ f[v] = n BY <2>2, Zenon
    <3>2. a2[v] = a[v] /\ f2[v] = f[v] BY <1>b, <3>1, Zenon
    <3> QED BY <3>1, <3>2, ZenonT(30)
  <2> QED BY <1>4, <1>e, <2>1, <2>2, Zenon
<1> QED BY <1>1, <1>2, <1>3, <1>4, <1>a, Zenon DEF DatasKept

\* m_datas is kept by every step.
LEMMA DatasStep ==
  ASSUME Numbers \subseteq Nat, DatasSize \in Nat, DatasInv, [T!Next]_(T!vars)
  PROVE  DatasInv'
<1>0. /\ opens \in Nat /\ wild \in BOOLEAN /\ DatasKept(at, fd, id, datas, wild)
      /\ at \in [Fibers -> TableLabels] /\ fd \in [Fibers -> Nat] /\ id \in [Fibers -> Nat]
      /\ datas \in [Numbers -> Nat]
      /\ \A v \in Fibers : at[v] # "closed" => fd[v] \in Numbers
      /\ \A v, w \in Fibers : v # w /\ at[v] # "closed" /\ at[w] # "closed" => fd[v] # fd[w]
  BY Zenon DEF DatasInv, DatasKept
<1>a. /\ \A l \in Owning : l \in TableLabels /\ l # "closed"
      /\ {"closed", "get", "make", "deleted"} \cap Owning = {}
      /\ {"closed", "get", "make", "deleted"} \subseteq TableLabels /\ {"open", "cancelled"} \subseteq Owning
  BY DEF Owning, TableLabels
<1>b. ~wild => /\ \A v \in Fibers : at[v] \in Owning => fd[v] < DatasSize /\ datas[fd[v]] = id[v]
               /\ \A n \in Numbers : datas[n] # 0 => \E v \in Fibers : at[v] \in Owning /\ fd[v] = n
  BY <1>0, Zenon DEF DatasKept
<1>1. CASE UNCHANGED T!vars
  <2>1. opens' = opens /\ wild' = wild /\ at' = at /\ fd' = fd /\ id' = id /\ datas' = datas
    BY <1>1, Zenon DEF T!vars
  <2> QED BY <1>0, <2>1, Zenon DEF DatasInv
<1>2. ASSUME ~wild, wild' = wild, opens' \in Nat, DatasKept(at', fd', id', datas', FALSE) PROVE DatasInv'
  <2>1. wild' = FALSE BY <1>0, <1>2
  <2> QED BY <1>2, <2>1, Zenon DEF DatasInv
<1>3. ASSUME ~wild PROVE DatasKept(at, fd, id, datas, FALSE)
  <2>1. wild = FALSE BY <1>0, <1>3
  <2> QED BY <1>0, <2>1, Zenon
<1>4. ASSUME NEW u \in Fibers, NEW l \in TableLabels, at' = [at EXCEPT ![u] = l]
      PROVE  /\ at' \in [Fibers -> TableLabels] /\ at'[u] = l
             /\ \A v \in Fibers : v # u => at'[v] = at[v]
  BY <1>0, <1>4, Zenon
<1>5. ASSUME NEW u \in Fibers, NEW n \in Numbers, ~wild, T!socket_f(u, n) PROVE DatasInv'
  <2>1. /\ at[u] = "closed" /\ at' = [at EXCEPT ![u] = "get"] /\ opens' = opens + 1
        /\ fd' = [fd EXCEPT ![u] = n] /\ id' = [id EXCEPT ![u] = opens + 1]
        /\ datas' = datas /\ wild' = wild /\ \A v \in Fibers : at[v] # "closed" => fd[v] # n
    BY <1>5, Zenon DEF T!socket_f, T!Go, T!Taken
  <2>2. opens' \in Nat /\ n \in Nat BY <1>0, <2>1
  <2>3. /\ fd' \in [Fibers -> Nat] /\ fd'[u] = n /\ id' \in [Fibers -> Nat]
        /\ \A v \in Fibers : v # u => fd'[v] = fd[v] /\ id'[v] = id[v]
    BY <1>0, <2>1, <2>2, Zenon
  <2>4. /\ at' \in [Fibers -> TableLabels] /\ at'[u] = "get" /\ at'[u] \notin Owning
        /\ \A v \in Fibers : v # u => at'[v] = at[v]
    BY <1>4, <1>a, <2>1, Zenon
  <2>5. \A m \in Numbers : datas'[m] # 0 => \E v \in Fibers : v # u /\ at[v] \in Owning /\ fd[v] = m
    BY <1>5, <1>a, <1>b, <2>1, ZenonT(30)
  <2>6. DatasKept(at', fd', id', datas', FALSE)
    <3>0. /\ \A v \in Fibers : v # u => at'[v] = at[v] /\ fd'[v] = fd[v] /\ id'[v] = id[v]
          /\ fd'[u] \in Numbers /\ \A v \in Fibers : v # u /\ at[v] # "closed" => fd[v] # fd'[u]
          /\ datas' \in [Numbers -> Nat] /\ \A v \in Fibers : datas'[fd[v]] = datas[fd[v]]
      BY <1>0, <2>1, <2>3, <2>4, Zenon
    <3>1. OneMoves(u, at, fd, id, datas, at', fd', id', datas')
      BY <2>3, <2>4, <2>5, <3>0, Zenon DEF OneMoves
    <3> QED BY <1>3, <1>5, <3>1, OneFiberMoves, Zenon
  <2> QED BY <1>2, <1>5, <2>1, <2>2, <2>6, Zenon
<1>6. ASSUME NEW u \in Fibers, NEW l \in TableLabels, at[u] # "closed", l # "closed",
             l \in Owning <=> at[u] \in Owning, at' = [at EXCEPT ![u] = l], ~wild,
             UNCHANGED <<datas, fd, id, opens, wild>>
      PROVE  DatasInv'
  <2>1. datas' = datas /\ fd' = fd /\ id' = id /\ opens' = opens /\ wild' = wild BY <1>6, Zenon
  <2>2. /\ at' \in [Fibers -> TableLabels] /\ at'[u] = l /\ \A v \in Fibers : v # u => at'[v] = at[v]
    BY <1>4, <1>6, Zenon
  <2>3. \A m \in Numbers : datas'[m] # 0 =>
          \/ \E v \in Fibers : v # u /\ at[v] \in Owning /\ fd[v] = m
          \/ at'[u] \in Owning /\ fd'[u] = m
    BY <1>6, <1>b, <2>1, <2>2, ZenonT(30)
  <2>4. /\ at'[u] \in Owning => fd'[u] < DatasSize /\ datas'[fd'[u]] = id'[u]
        /\ fd'[u] \in Numbers /\ \A v \in Fibers : v # u /\ at[v] # "closed" => fd[v] # fd'[u]
    <3>1. at'[u] \in Owning => fd[u] < DatasSize /\ datas[fd[u]] = id[u] BY <1>6, <1>b, <2>2, Zenon
    <3>2. fd[u] \in Numbers /\ \A v \in Fibers : v # u /\ at[v] # "closed" => fd[v] # fd[u]
      BY <1>0, <1>6, Zenon
    <3> QED BY <2>1, <3>1, <3>2, Zenon
  <2>5. DatasKept(at', fd', id', datas', FALSE)
    <3>1. OneMoves(u, at, fd, id, datas, at', fd', id', datas')
      BY <1>0, <1>6, <2>1, <2>2, <2>3, <2>4, ZenonT(30) DEF OneMoves
    <3> QED BY <1>3, <1>6, <3>1, OneFiberMoves, Zenon
  <2> QED BY <1>0, <1>2, <1>6, <2>1, <2>5, Zenon
<1>7. ASSUME NEW u \in Fibers, ~wild, T!get(u) PROVE DatasInv'
  <2>1. at[u] = "get" /\ fd[u] \in Numbers BY <1>0, <1>7, Zenon DEF T!get, T!Go
  <2>2. \A v \in Fibers : at[v] \in Owning => fd[v] # fd[u]
    BY <1>0, <1>a, <2>1, Zenon
  <2>3. datas[fd[u]] = 0 BY <1>7, <1>b, <2>1, <2>2, ZenonT(30)
  <2>4. at' = [at EXCEPT ![u] = "make"] /\ UNCHANGED <<datas, fd, id, opens, wild>>
    BY <1>7, <2>3, Zenon DEF T!get, T!Go
  <2> QED BY <1>6, <1>7, <1>a, <2>1, <2>4, Zenon
<1>8. ASSUME NEW u \in Fibers, ~wild, T!make(u) PROVE DatasInv'
  <2>1. /\ at[u] = "make" /\ at' = [at EXCEPT ![u] = "open"] /\ fd' = fd /\ id' = id /\ opens' = opens
        /\ IF fd[u] < DatasSize THEN datas' = [datas EXCEPT ![fd[u]] = id[u]] /\ wild' = wild
           ELSE wild' = TRUE /\ datas' = datas
    BY <1>8, Zenon DEF T!make, T!Go
  <2>2. /\ at' \in [Fibers -> TableLabels] /\ at'[u] = "open" /\ \A v \in Fibers : v # u => at'[v] = at[v]
        /\ "open" # "closed" /\ fd[u] \in Numbers /\ id[u] \in Nat
    BY <1>0, <1>4, <1>a, <2>1, Zenon
  <2>3. \A v \in Fibers : v # u /\ at[v] # "closed" => fd[v] # fd[u] BY <1>0, <2>1, Zenon
  <2>4. CASE fd[u] < DatasSize
    <3>1. /\ datas' \in [Numbers -> Nat] /\ datas'[fd[u]] = id[u]
          /\ \A m \in Numbers : m # fd[u] => datas'[m] = datas[m]
      BY <1>0, <2>1, <2>2, <2>4, ZenonT(30)
    <3>2. \A v \in Fibers : v # u /\ at[v] \in Owning => datas'[fd[v]] = datas[fd[v]]
      BY <1>0, <1>a, <2>3, <3>1, Zenon
    <3>3. ASSUME NEW m \in Numbers, datas'[m] # 0
          PROVE  \/ \E v \in Fibers : v # u /\ at[v] \in Owning /\ fd[v] = m
                 \/ at'[u] \in Owning /\ fd'[u] = m
      <4>1. CASE m = fd[u] BY <1>a, <2>1, <2>2, <4>1, Zenon
      <4>2. CASE m # fd[u]
        <5>1. datas[m] # 0 BY <3>1, <3>3, <4>2, Zenon
        <5> QED BY <1>8, <1>a, <1>b, <2>1, <5>1, Zenon
      <4> QED BY <4>1, <4>2, Zenon
    <3>4. DatasKept(at', fd', id', datas', FALSE)
      <4>1. OneMoves(u, at, fd, id, datas, at', fd', id', datas')
        BY <1>0, <1>8, <2>1, <2>2, <2>3, <2>4, <3>1, <3>2, <3>3, Zenon DEF OneMoves
      <4> QED BY <1>3, <1>8, <4>1, OneFiberMoves, Zenon
    <3> QED BY <1>0, <1>2, <1>8, <2>1, <2>4, <3>4, Zenon
  <2>5. CASE ~(fd[u] < DatasSize)
    <3>1. wild' = TRUE /\ datas' = datas BY <2>1, <2>5, Zenon
    <3>2. /\ \A v \in Fibers : at'[v] # "closed" => fd[v] \in Numbers
          /\ \A v \in Fibers : at'[v] # "closed" => at[v] # "closed"
      BY <1>0, <2>1, <2>2, Zenon
    <3>3. \A v, w \in Fibers : v # w /\ at'[v] # "closed" /\ at'[w] # "closed" => fd[v] # fd[w]
      BY <1>0, <3>2, Zenon
    <3>4. DatasKept(at', fd, id, datas, TRUE)
      BY <1>0, <2>2, <3>2, <3>3, Zenon DEF DatasKept
    <3> QED BY <1>0, <2>1, <3>1, <3>4, Zenon DEF DatasInv
  <2> QED BY <2>4, <2>5, Zenon
<1>9. ASSUME NEW u \in Fibers, ~wild, T!del(u) PROVE DatasInv'
  <2>1. /\ at[u] = "cancelled" /\ at' = [at EXCEPT ![u] = "deleted"] /\ fd' = fd /\ id' = id /\ opens' = opens
        /\ datas' = (IF fd[u] < DatasSize THEN [datas EXCEPT ![fd[u]] = 0] ELSE datas) /\ wild' = wild
    BY <1>9, Zenon DEF T!del, T!Go
  <2>2. /\ at' \in [Fibers -> TableLabels] /\ at'[u] = "deleted" /\ \A v \in Fibers : v # u => at'[v] = at[v]
        /\ "deleted" \notin Owning /\ at[u] \in Owning /\ at[u] # "closed" /\ fd[u] \in Numbers /\ 0 \in Nat
    BY <1>0, <1>4, <1>a, <2>1, ZenonT(30)
  <2>3. fd[u] < DatasSize BY <1>9, <1>b, <2>2, Zenon
  <2>4. /\ datas' \in [Numbers -> Nat] /\ datas'[fd[u]] = 0
        /\ \A m \in Numbers : m # fd[u] => datas'[m] = datas[m]
    BY <1>0, <2>1, <2>2, <2>3, Zenon
  <2>5. \A v \in Fibers : v # u /\ at[v] # "closed" => fd[v] # fd[u] BY <1>0, <2>1, <2>2, Zenon
  <2>6. \A v \in Fibers : v # u /\ at[v] \in Owning => datas'[fd[v]] = datas[fd[v]]
    BY <1>0, <1>a, <2>4, <2>5, Zenon
  <2>7. ASSUME NEW m \in Numbers, datas'[m] # 0 PROVE \E v \in Fibers : v # u /\ at[v] \in Owning /\ fd[v] = m
    <3>1. m # fd[u] /\ datas[m] # 0 BY <2>4, <2>7, Zenon
    <3> QED BY <1>9, <1>b, <3>1, Zenon
  <2>8. DatasKept(at', fd', id', datas', FALSE)
    <3>1. OneMoves(u, at, fd, id, datas, at', fd', id', datas')
      BY <1>0, <1>9, <2>1, <2>2, <2>4, <2>5, <2>6, <2>7, ZenonT(30) DEF OneMoves
    <3> QED BY <1>3, <1>9, <3>1, OneFiberMoves, Zenon
  <2> QED BY <1>0, <1>2, <1>9, <2>1, <2>8, Zenon
<1>10. ASSUME NEW u \in Fibers, ~wild, T!close_f(u) PROVE DatasInv'
  <2>1. /\ at[u] = "deleted" /\ at' = [at EXCEPT ![u] = "closed"] /\ opens' = opens
        /\ fd' = [fd EXCEPT ![u] = 0] /\ id' = [id EXCEPT ![u] = 0] /\ datas' = datas /\ wild' = wild
    BY <1>10, Zenon DEF T!close_f, T!Go
  <2>2. 0 \in Nat OBVIOUS
  <2>3. /\ fd' \in [Fibers -> Nat] /\ id' \in [Fibers -> Nat]
        /\ \A v \in Fibers : v # u => fd'[v] = fd[v] /\ id'[v] = id[v]
    BY <1>0, <2>1, <2>2, Zenon
  <2>4. /\ at' \in [Fibers -> TableLabels] /\ at'[u] = "closed" /\ at'[u] \notin Owning
        /\ \A v \in Fibers : v # u => at'[v] = at[v]
    BY <1>4, <1>a, <2>1, Zenon
  <2>5. \A m \in Numbers : datas'[m] # 0 => \E v \in Fibers : v # u /\ at[v] \in Owning /\ fd[v] = m
    BY <1>10, <1>a, <1>b, <2>1, ZenonT(30)
  <2>6. DatasKept(at', fd', id', datas', FALSE)
    <3>1. OneMoves(u, at, fd, id, datas, at', fd', id', datas')
      BY <1>0, <1>10, <2>1, <2>3, <2>4, <2>5, Zenon DEF OneMoves
    <3> QED BY <1>3, <1>10, <3>1, OneFiberMoves, Zenon
  <2> QED BY <1>0, <1>2, <1>10, <2>1, <2>6, Zenon
<1>11. ASSUME NEW u \in Fibers, NEW from \in Owning, NEW to \in Owning, ~wild, T!Go(u, from, to),
             UNCHANGED <<datas, fd, id, opens, wild>>
      PROVE  DatasInv'
  BY <1>6, <1>11, <1>a, Zenon DEF T!Go
<1>12. ASSUME NEW u \in Fibers, ~wild, T!addEvent(u) PROVE DatasInv'
  BY <1>11, <1>12, Zenon DEF T!addEvent, Owning
<1>13. ASSUME NEW u \in Fibers, ~wild, T!Grow(u) PROVE DatasInv'
  BY <1>11, <1>13, Zenon DEF T!Grow, Owning
<1>14. ASSUME NEW u \in Fibers, ~wild, T!Register(u) \/ T!Wake(u) \/ T!cancelEvent(u) \/ T!cancekAll(u)
       PROVE  DatasInv'
  BY <1>11, <1>14, Zenon DEF T!Register, T!Wake, T!cancelEvent, T!cancekAll, Owning
<1> QED BY <1>1, <1>5, <1>7, <1>8, <1>9, <1>10, <1>12, <1>13, <1>14, Zenon DEF T!Next

\* A socket's FdCtx is its own, however sockets are opened and closed side by
\* side, up to the first write behind the end of m_datas.
THEOREM FdCtxIsOwn ==
  ASSUME Numbers \subseteq Nat, DatasSize \in Nat
  PROVE  T!Spec => []T!OwnFdCtx
<1>1. ASSUME T!Init PROVE DatasInv
  <2>1. \A u \in Fibers : at[u] = "closed"  BY <1>1 DEF T!Init
  <2>2. \A n \in Numbers : datas[n] = 0  BY <1>1, Zenon DEF T!Init
  <2>3. /\ at \in [Fibers -> TableLabels] /\ fd \in [Fibers -> Nat] /\ id \in [Fibers -> Nat]
        /\ datas \in [Numbers -> Nat] /\ opens \in Nat /\ wild \in BOOLEAN
    BY <1>1, Zenon DEF T!Init, TableLabels
  <2> QED BY <2>1, <2>2, <2>3, Zenon DEF DatasInv, DatasKept, Owning
<1>2. DatasInv /\ [T!Next]_(T!vars) => DatasInv'
  BY DatasStep
<1>3. DatasInv => T!OwnFdCtx
  BY Zenon DEF DatasInv, DatasKept, T!OwnFdCtx, Owning
<1> QED BY <1>1, <1>2, <1>3, PTL DEF T!Spec

-----------------------------------------------------------------------------
\* Until two fibers have found m_fdContexts too small at one time, one at most
\* is about to enlarge it, and what it asks for is more than there is.
TableInv ==
  /\ at \in [Fibers -> TableLabels] /\ fd \in [Fibers -> Nat] /\ raced \in BOOLEAN
  /\ fd_ctx = [u \in Fibers |-> fd_ctx[u]]
  /\ Len(contexts) \in Nat
  /\ ~raced =>
       /\ Len(contexts) >= 2
       /\ \A u \in Fibers : at[u] = "grow" => Len(contexts) <= fd[u]
       /\ \A u, v \in Fibers : at[u] = "grow" /\ at[v] = "grow" => u = v
       /\ \A u \in Fibers : at[u] \in {"found", "waits"} => T!Found(u)

\* resizeContext with more than there is keeps what there is.
LEMMA ResizeKeeps ==
  ASSUME Len(contexts) \in Nat, NEW size \in Nat, T!resizeContext(size)
  PROVE  /\ Len(contexts') = size
         /\ \A i \in 1 .. size : i <= Len(contexts) => contexts'[i] = contexts[i]
<1> DEFINE table == [i \in 1 .. size |-> IF i <= Len(contexts) THEN contexts[i] ELSE created[i - 1] + 1]
           S == {table[i] : i \in 1 .. size}
<1>1. contexts' = table BY DEF T!resizeContext
<1>2. \A i \in 1 .. size : i <= Len(contexts) => table[i] = contexts[i] OBVIOUS
<1>3. table \in [1 .. size -> S] OBVIOUS
<1> HIDE DEF table, S
<1>4. table \in Seq(S) BY <1>3
<1>5. DOMAIN table = 1 .. size BY <1>3
<1>6. Len(table) = size BY <1>4, <1>5
<1> QED BY <1>1, <1>2, <1>6

\* m_fdContexts is kept by every step.
LEMMA TableStep ==
  ASSUME Numbers \subseteq Nat, TableInv, [T!Next]_(T!vars)
  PROVE  TableInv'
<1> USE DEF TableLabels, T!Go
<1>1. CASE UNCHANGED T!vars
  BY <1>1, Zenon DEF T!vars, TableInv, T!Found
<1>2. ASSUME NEW u \in Fibers, NEW n \in Numbers, T!socket_f(u, n) PROVE TableInv'
  BY <1>2, Zenon DEF T!socket_f, TableInv, T!Found
<1>3. ASSUME NEW u \in Fibers, T!get(u) \/ T!make(u) \/ T!Wake(u) \/ T!cancelEvent(u) \/ T!cancekAll(u) \/ T!del(u)
      PROVE  TableInv'
  <2>1. ASSUME NEW to \in TableLabels \ {"found", "grow", "waits"}, at' = [at EXCEPT ![u] = to],
               UNCHANGED <<contexts, fd, fd_ctx, raced>>
        PROVE  TableInv'
    BY <2>1, Zenon DEF TableInv, T!Found
  <2>2. CASE T!get(u)
    <3>1. \/ at' = [at EXCEPT ![u] = "open"]
          \/ at' = [at EXCEPT ![u] = "make"]
      BY <2>2, Zenon DEF T!get
    <3> QED BY <2>1, <2>2, <3>1, Zenon DEF T!get
  <2>3. CASE T!make(u)  BY <2>1, <2>3, Zenon DEF T!make
  <2>4. CASE T!Wake(u)  BY <2>1, <2>4, Zenon DEF T!Wake
  <2>5. CASE T!cancelEvent(u)  BY <2>1, <2>5, Zenon DEF T!cancelEvent
  <2>6. CASE T!cancekAll(u)  BY <2>1, <2>6, Zenon DEF T!cancekAll
  <2>7. CASE T!del(u)  BY <2>1, <2>7, Zenon DEF T!del
  <2> QED BY <1>3, <2>2, <2>3, <2>4, <2>5, <2>6, <2>7
<1>4. ASSUME NEW u \in Fibers, T!Register(u) PROVE TableInv'
  BY <1>4, Zenon DEF T!Register, TableInv, T!Found
<1>5. ASSUME NEW u \in Fibers, T!close_f(u) PROVE TableInv'
  BY <1>5, Zenon DEF T!close_f, TableInv, T!Found
<1>6. ASSUME NEW u \in Fibers, T!addEvent(u) PROVE TableInv'
  <2>1. CASE Len(contexts) > fd[u]
    BY <1>6, <2>1, Zenon DEF T!addEvent, TableInv, T!Found
  <2>2. CASE ~(Len(contexts) > fd[u])
    <3>1. Len(contexts) <= fd[u] BY <2>2, <1>6 DEF TableInv
    <3>2. at' = [at EXCEPT ![u] = "grow"] /\ fd_ctx' = [fd_ctx EXCEPT ![u] = 0]
      BY <1>6, <2>2, Zenon DEF T!addEvent
    <3>3. /\ at' \in [Fibers -> TableLabels] /\ fd' \in [Fibers -> Nat] /\ Len(contexts)' \in Nat
          /\ fd_ctx' = [v \in Fibers |-> fd_ctx'[v]]
      BY <1>6, <3>2, Zenon DEF T!addEvent, TableInv
    <3>4. raced' \in BOOLEAN BY <1>6, Zenon DEF T!addEvent
    <3>5. ASSUME ~raced' PROVE ~raced /\ \A v \in Fibers : at[v] # "grow"
      BY <1>6, <3>1, <3>5, Zenon DEF T!addEvent
    <3>6. ASSUME ~raced', NEW v \in Fibers, at'[v] \in {"found", "waits"} PROVE T!Found(v)'
      BY <1>6, <3>2, <3>5, <3>6, Zenon DEF T!addEvent, TableInv, T!Found
    <3>7. ASSUME ~raced'
          PROVE  /\ Len(contexts)' >= 2
                 /\ \A v \in Fibers : at'[v] = "grow" => Len(contexts)' <= fd'[v]
                 /\ \A v, w \in Fibers : at'[v] = "grow" /\ at'[w] = "grow" => v = w
      BY <1>6, <3>1, <3>2, <3>5, <3>7, Zenon DEF T!addEvent, TableInv
    <3> QED BY <3>3, <3>4, <3>6, <3>7, Zenon DEF TableInv
  <2> QED BY <2>1, <2>2
<1>7. ASSUME NEW u \in Fibers, T!Grow(u) PROVE TableInv'
  <2> DEFINE size == (fd[u] * 3) \div 2
  <2>1. fd[u] \in Nat /\ size \in Nat /\ (fd[u] >= 2 => size > fd[u])
    BY <1>7, SMTT(30) DEF TableInv
  <2>2. T!resizeContext(size) BY <1>7 DEF T!Grow
  <2> HIDE DEF size
  <2>3. Len(contexts') = size /\ \A i \in 1 .. size : i <= Len(contexts) => contexts'[i] = contexts[i]
    BY <2>1, <2>2, ResizeKeeps, Zenon DEF TableInv
  <2>4. CASE raced
    BY <1>7, <2>1, <2>3, <2>4, Zenon DEF T!Grow, TableInv
  <2>5. CASE ~raced
    <3>1. Len(contexts) <= fd[u] /\ size > fd[u] /\ size >= 2
      BY <1>7, <2>1, <2>5, SMTT(30) DEF T!Grow, TableInv
    <3>2. \A v \in Fibers : at'[v] # "grow"
      BY <1>7, <2>5, Zenon DEF T!Grow, TableInv
    <3>3. T!Found(u)'
      BY <1>7, <2>1, <2>3, <3>1, Zenon DEF T!Grow, TableInv, T!Found
    <3>4. ASSUME NEW v \in Fibers, v # u, at'[v] \in {"found", "waits"} PROVE T!Found(v)'
      <4>1. at[v] = at'[v] /\ fd_ctx'[v] = fd_ctx[v] /\ fd'[v] = fd[v]
        BY <1>7, <3>4, Zenon DEF T!Grow, TableInv
      <4>2. fd[v] \in Nat /\ Len(contexts) \in Nat BY DEF TableInv
      <4>3. Len(contexts) > fd[v] /\ contexts[fd[v] + 1] = fd_ctx[v]
        BY <2>5, <3>4, <4>1, Zenon DEF TableInv, T!Found
      <4>4. fd[v] + 1 \in 1 .. size /\ fd[v] + 1 <= Len(contexts)
        <5>1. size \in Nat /\ fd[v] + 1 <= Len(contexts) BY <2>1, <4>2, <4>3, SMTT(20)
        <5>2. Len(contexts) < size BY <2>1, <3>1, <4>2
        <5> QED BY <4>2, <5>1, <5>2
      <4>5. contexts'[fd[v] + 1] = contexts[fd[v] + 1] BY <2>3, <4>4, Zenon
      <4>6. Len(contexts') > fd[v] BY <2>1, <2>3, <4>2, <4>4, SMTT(30)
      <4>7. Len(contexts') > fd'[v] /\ contexts'[fd'[v] + 1] = fd_ctx'[v] BY <4>1, <4>3, <4>5, <4>6, Zenon
      <4> QED BY <4>7, Zenon DEF T!Found
    <3> QED BY <1>7, <2>1, <2>3, <2>5, <3>1, <3>2, <3>3, <3>4, ZenonT(30) DEF T!Grow, TableInv
  <2> QED BY <2>4, <2>5, Zenon DEF TableInv
<1> QED BY <1>1, <1>2, <1>3, <1>4, <1>5, <1>6, <1>7, Zenon DEF T!Next

\* Who waits is found in m_fdContexts, whatever the numbers and the first size
\* (two entries or more), until two fibers find the table too small at once.
THEOREM WaiterIsFound ==
  ASSUME Numbers \subseteq Nat, FirstContexts \in Nat, FirstContexts >= 2
  PROVE  T!Spec => []T!WaiterInTable
<1>1. ASSUME T!Init PROVE TableInv
  <2>1. contexts \in Seq({1}) /\ Len(contexts) = FirstContexts
    BY <1>1 DEF T!Init
  <2>2. \A u \in Fibers : at[u] = "closed"  BY <1>1 DEF T!Init
  <2>3. /\ at \in [Fibers -> TableLabels] /\ fd \in [Fibers -> Nat] /\ raced \in BOOLEAN
        /\ fd_ctx = [u \in Fibers |-> fd_ctx[u]]
    BY <1>1, Zenon DEF T!Init, TableLabels
  <2> QED BY <2>1, <2>2, <2>3, Zenon DEF TableInv
<1>2. TableInv /\ [T!Next]_(T!vars) => TableInv'
  BY TableStep
<1>3. TableInv => T!WaiterInTable
  BY Zenon DEF TableInv, T!WaiterInTable
<1> QED BY <1>1, <1>2, <1>3, PTL DEF T!Spec

\* Both tables keep what an open socket has in them, in every execution of the
\* hooked calls and of the tables, for any fibers, numbers and sizes.
THEOREM TablesAreKept ==
  ASSUME Numbers \subseteq Nat, DatasSize \in Nat, FirstContexts \in Nat, FirstContexts >= 2
  PROVE  HookSpec => []TablesKept
<1>1. HookInit => T!Init
  BY DEF HookInit
<1>2. [HookNext]_<<part, vars, tables>> => [T!Next]_(T!vars)
  BY Zenon DEF HookNext, tables, T!vars
<1>3. HookSpec => T!Spec
  BY <1>1, <1>2, PTL DEF HookSpec, T!Spec
<1>4. T!OwnFdCtx /\ T!WaiterInTable => TablesKept
  BY DEF TablesKept
<1> QED BY <1>3, <1>4, FdCtxIsOwn, WaiterIsFound, PTL
=============================================================================
