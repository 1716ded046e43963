--------------------------- MODULE MCTerminalInput ---------------------------
(* TLC instances of TerminalInput: every terminal shows the same session. *)
EXTENDS TerminalInput, TLC

CONSTANTS t1, t2, s1

OneSession == t1 :> s1 @@ t2 :> s1
=============================================================================
