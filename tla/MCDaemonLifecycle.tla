------------------------- MODULE MCDaemonLifecycle -------------------------
(* TLC instances of DaemonLifecycle. *)
EXTENDS DaemonLifecycle, TLC

Interchangeable == Permutations(Procs) \cup Permutations(Daemons)
=============================================================================
