----------------------------- MODULE MCScheduler -----------------------------
(* Small instances of Scheduler for TLC. *)
EXTENDS Scheduler, TLC

\* Threads, callbacks and fibers of the same kind are interchangeable; only the
\* runs without liveness properties and without pinned tasks use this.
Symmetry ==
  Permutations(Workers) \cup Permutations(Cbs) \cup Permutations(CbFibers)

=============================================================================
