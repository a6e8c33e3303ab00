--------------------------- MODULE MCNoticesWorker ---------------------------
(***************************************************************************)
(* NoticesWorker for TLC: every constant is given by a cfg.                *)
(***************************************************************************)
EXTENDS NoticesWorker
=============================================================================
