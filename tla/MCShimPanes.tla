---------------------------- MODULE MCShimPanes ----------------------------
(* TLC instances of ShimPanes. *)
EXTENDS ShimPanes, TLC

Interchangeable == Permutations(Shims)
=============================================================================
