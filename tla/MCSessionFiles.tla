--------------------------- MODULE MCSessionFiles ---------------------------
(* TLC instances of SessionFiles. *)
EXTENDS SessionFiles, TLC
CONSTANTS k1, k2, k3, b1, b2

TwoProjects == [k \in Kilds |-> IF k = k3 THEN b2 ELSE b1]
Old == {<<4, 5>>}
Interchangeable == Permutations(Procs) \cup Permutations({k1, k2})
=============================================================================
