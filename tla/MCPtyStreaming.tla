--------------------------- MODULE MCPtyStreaming ---------------------------
(* The TLC instance of PtyStreaming: the one of PtyStreaming_output.cfg.  Its *)
(* clients and tasks are not interchanged: the run checks liveness.           *)
EXTENDS PtyStreaming
=============================================================================
