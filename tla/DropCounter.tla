---------------------------- MODULE DropCounter ----------------------------
(***************************************************************************)
(* Drop accounting shared by both delivery pipelines (src/drops.rs).       *)
(*                                                                         *)
(* Callers' threads and the delivery worker add to `dropped`; only the     *)
(* worker summarises it, at most once per MIN_LOG_INTERVAL on a success    *)
(* and without a limit at shutdown.  A summary swaps the count to zero, so *)
(* a call of report is one step here: callers only ever add, and an        *)
(* addition before or after the swap is an addition before or after the    *)
(* step.                                                                   *)
(***************************************************************************)
EXTENDS Naturals

VARIABLES
    dropped,    \* drops not summarised yet
    reported,   \* running total of everything ever summarised
    last_log    \* "recent": a summary was logged less than MIN_LOG_INTERVAL ago

dropVars == <<dropped, reported, last_log>>

DropTypeOK ==
    /\ dropped \in Nat
    /\ reported \in Nat
    /\ last_log \in {"old", "recent"}

DropInit ==
    /\ dropped = 0
    /\ reported = 0
    /\ last_log = "old"

\* Everything this counter has ever been told about.
Recorded == dropped + reported

RecordMany(n) ==
    /\ dropped' = dropped + n
    /\ UNCHANGED <<reported, last_log>>

\* Summarise if anything is pending and the last summary is old enough.
Report ==
    IF dropped = 0 \/ last_log = "recent"
    THEN UNCHANGED dropVars
    ELSE /\ reported' = reported + dropped
         /\ dropped' = 0
         /\ last_log' = "recent"

\* Mutant: the summary first, the count after it.
ReportFinalAndRecord(n) ==
    /\ reported' = reported + dropped
    /\ dropped' = n
    /\ last_log' = IF dropped > 0 THEN "recent" ELSE last_log

\* record_many(n) followed by report_final, which ignores the rate limit.
RecordAndReportFinal(n) ==
    /\ reported' = reported + dropped + n
    /\ dropped' = 0
    /\ last_log' = IF dropped + n > 0 THEN "recent" ELSE last_log

\* MIN_LOG_INTERVAL elapses since the last summary.
LogWindowPasses ==
    /\ last_log = "recent"
    /\ last_log' = "old"
    /\ UNCHANGED <<dropped, reported>>
=============================================================================
