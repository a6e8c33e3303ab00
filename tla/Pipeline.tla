------------------------------- MODULE Pipeline -------------------------------
(***************************************************************************)
(* What a delivery pipeline promises the threads that use it, without its  *)
(* channels, batches, retries, throttling and suspensions.                 *)
(*                                                                         *)
(* Items are numbered in the order they are offered.  An item waits, is    *)
(* taken by the API, or is lost; items are taken in the order they were    *)
(* offered.  A call (a flush or a shutdown) that hears "yes" is a barrier: *)
(* nothing offered before it still waits.  A call may also hear that the   *)
(* barrier failed, that nobody will answer, or give up, and then it knows  *)
(* nothing.  The worker leaves only when told to, or when nobody is left   *)
(* to talk to it; after it has acknowledged a shutdown the API hears       *)
(* nothing more.                                                           *)
(*                                                                         *)
(* Both workers implement it, src/events_worker.rs and src/worker.rs, and  *)
(* the client is built on two of them.                                     *)
(***************************************************************************)
EXTENDS Integers, FiniteSets

CONSTANTS
    Calls,          \* the flush and shutdown calls made
    Stops           \* those of them that are shutdowns

VARIABLES
    offered,        \* items offered so far; the next one is offered + 1
    waiting,        \* the items in the pipeline
    delivered,      \* the items the API took
    lost,           \* how many items were lost
    before,         \* items offered before each call
    acks,           \* what each call has heard
    closed,         \* every handle has been dropped
    gone            \* the worker has left

itemVars == <<waiting, delivered, lost>>
vars == <<offered, itemVars, before, acks, closed, gone>>

Init ==
    /\ offered = 0
    /\ waiting = {}
    /\ delivered = {}
    /\ lost = 0
    /\ before = [c \in Calls |-> 0]
    /\ acks = [c \in Calls |-> "idle"]
    /\ closed = FALSE
    /\ gone = FALSE

-----------------------------------------------------------------------------
(* The callers.                                                            *)

\* An item is offered: it is let in, or lost at the gate.
Offer ==
    /\ offered' = offered + 1
    /\ \/ /\ ~closed /\ ~gone
          /\ waiting' = waiting \cup {offered + 1}
          /\ lost' = lost
       \/ /\ waiting' = waiting
          /\ lost' = lost + 1
    /\ UNCHANGED <<delivered, before, acks, closed, gone>>

\* A call is made; if nobody is there to answer it, it learns so at once.
Call(c) ==
    /\ ~closed
    /\ acks[c] = "idle"
    /\ acks' = [acks EXCEPT ![c] = IF gone THEN "lost" ELSE "pending"]
    /\ before' = [before EXCEPT ![c] = offered]
    /\ UNCHANGED <<offered, itemVars, closed, gone>>

\* A caller stops waiting.
GiveUp(c) ==
    /\ acks[c] = "pending"
    /\ acks' = [acks EXCEPT ![c] = "timeout"]

Expire(c) == GiveUp(c) /\ UNCHANGED <<offered, itemVars, before, closed, gone>>

\* The last handle is dropped, perhaps by a caller that stops waiting.
Close ==
    /\ ~closed
    /\ closed' = TRUE
    /\ UNCHANGED acks \/ \E c \in Calls : GiveUp(c)
    /\ UNCHANGED <<offered, itemVars, before, gone>>

-----------------------------------------------------------------------------
(* The worker.                                                             *)

\* The oldest items that wait are delivered.
Take ==
    /\ \A s \in Stops : acks[s] # "yes"
    /\ waiting' \in SUBSET waiting
    /\ \A old \in waiting \ waiting', new \in waiting' : old < new
    /\ delivered' = delivered \cup (waiting \ waiting')
    /\ lost' = lost

\* Some items that wait are lost, and each is counted once.
Lose ==
    /\ waiting' \in SUBSET waiting
    /\ lost' = lost + Cardinality(waiting \ waiting')
    /\ delivered' = delivered

\* The worker may leave if it was told to, or if nobody can reach it.
MayLeave == closed \/ \E s \in Stops : acks[s] # "idle"

\* Calls are answered.  A call that hears "yes" is a barrier, and whoever
\* still waits when the worker leaves hears a disconnect.
Answer ==
    LET waiters == {c \in Calls : acks[c] = "pending"}
    IN  \E heard \in [waiters -> {"pending", "yes", "no", "lost"}] :
            /\ acks' = [c \in Calls |-> IF c \in waiters THEN heard[c] ELSE acks[c]]
            /\ \A c \in waiters :
                  /\ heard[c] = "yes" => \A e \in waiting' : e > before[c]
                  /\ heard[c] = "lost" => gone'
                  /\ heard[c] = "pending" => ~gone'

Work ==
    /\ ~gone
    /\ gone' \in {FALSE, MayLeave}
    /\ Take \/ Lose
    /\ Answer
    /\ UNCHANGED <<offered, before, closed>>

Next ==
    \/ Offer
    \/ \E c \in Calls : Call(c) \/ Expire(c)
    \/ Close
    \/ Work

Spec == Init /\ [][Next]_vars
=============================================================================
