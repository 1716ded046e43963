---------------------------- MODULE MCDaemonStore ----------------------------
(* Model-checking instance of DaemonStore. *)
EXTENDS DaemonStore, TLC

\* Interchangeable values; sound for the runs without liveness properties.
Symmetry == Permutations(SessionIds) \cup Permutations(Clients)
              \cup Permutations(PtyIds)
=============================================================================
