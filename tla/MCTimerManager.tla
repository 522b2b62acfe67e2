--------------------------- MODULE MCTimerManager ---------------------------
(* Small instances of TimerManager for TLC. *)
EXTENDS TimerManager, TLC

\* All threads list and call; the liveness run does not use this.
Symmetry == Permutations(Threads)
=============================================================================
