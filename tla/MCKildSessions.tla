-------------------------- MODULE MCKildSessions --------------------------
(* KildSessions for TLC. *)
EXTENDS KildSessions, TLC

Symmetry == Permutations(Procs)
=============================================================================
