----------------------------- MODULE MCMainView -----------------------------
(* TLC instances of MainView. *)
EXTENDS MainView, TLC

Interchangeable == Permutations(Kilds)
=============================================================================
