------------------------------- MODULE MCFleet -------------------------------
(* TLC instances of Fleet. *)
EXTENDS Fleet, TLC

Interchangeable == Permutations(Procs)
=============================================================================
