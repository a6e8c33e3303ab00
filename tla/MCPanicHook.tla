----------------------------- MODULE MCPanicHook -----------------------------
(* PanicHook, and GlobalFacade in it, for TLC.  Its runs check liveness, so *)
(* threads are not permuted.                                                *)
EXTENDS PanicHook
=============================================================================
