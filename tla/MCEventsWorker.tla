--------------------------- MODULE MCEventsWorker ---------------------------
(* Small instances of EventsWorker for TLC. *)
EXTENDS EventsWorker

\* The second line alone reaches a byte limit of 3.
MCSize == [e \in Lines |-> IF e = 2 THEN 3 ELSE 1]
=============================================================================
