---------------------------- MODULE MCIOManager ----------------------------
(* Small instances of IOManager for TLC. *)
EXTENDS IOManager, TLC

Symmetry == Permutations(Threads) \cup Permutations(Waiters) \cup Permutations(Fds)
=============================================================================
