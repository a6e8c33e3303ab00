---------------------------- MODULE NoticesWorker ----------------------------
(***************************************************************************)
(* The notices delivery pipeline of src/worker.rs: callers' threads offer  *)
(* notices to a bounded channel, one worker thread sends each of them      *)
(* once, pauses after every send while the endpoint throttles, and         *)
(* suspends delivery when it refuses the API key.  Flush and shutdown      *)
(* reach it over an unbounded control channel.                             *)
(*                                                                         *)
(* A notice is its sequence number among the notices ever offered.  The    *)
(* worker's own code runs as one step between two points where another     *)
(* thread can interfere: a look at a channel, a receive, a delivery.  A    *)
(* suspension is "none", "armed" or "due"; a pause lasts as long as it     *)
(* likes.                                                                  *)
(***************************************************************************)
EXTENDS DropCounter, Integers, FiniteSets, Sequences

CONSTANTS
    Flushes,        \* the flush() calls made
    Shutdowns,      \* the shutdown() calls made
    NoMsg,          \* no control message in hand
    QueueSize,      \* notice_queue_size
    ThrottleMax,    \* the width of the throttle counter, u32::MAX in the code
    MaxOffers       \* bound: how many notices are ever offered

Notices == 1..MaxOffers
Messages == Flushes \cup Shutdowns

ASSUME LimitsAssumption ==
    /\ QueueSize \in Nat \ {0}
    /\ ThrottleMax \in Nat \ {0}
    /\ MaxOffers \in Nat
ASSUME MessagesAssumption ==
    /\ Flushes \cap Shutdowns = {}
    /\ NoMsg \notin Messages

VARIABLES
    open,           \* a clone of the client, with both senders, still exists
    offered,        \* notices offered so far; the next one is offered + 1
    acks,           \* what each flush or shutdown call has heard
    before,         \* history: notices offered before each call
    notices,        \* the bounded notice channel
    control,        \* the unbounded control channel
    pc,             \* where the worker thread is
    ret,            \* where send_one returns to: run() or drain_and_send()
    ctl,            \* the control message being served
    hand,           \* the notice being sent, 0 if none
    throttle,
    retry_after,    \* a Retry-After waits for the next pause
    until,          \* the end of the suspension
    discarded,      \* notices drain_and_drop has received so far
    delivered,      \* history: notices the API accepted
    failed,         \* history: notices lost to a failed attempt
    refused         \* history: the API key was refused, and the interval the
                    \* worker should wait since then is not over

clientVars == <<open, offered, acks, before>>
throttleVars == <<throttle, retry_after>>
historyVars == <<delivered, failed, refused>>
vars == <<clientVars, notices, control, pc, ret, ctl, hand, throttleVars, until,
          discarded, historyVars, dropVars>>

TypeOK ==
    /\ open \in BOOLEAN
    /\ offered \in 0..MaxOffers
    /\ acks \in [Messages -> {"idle", "pending", "yes", "lost", "timeout"}]
    /\ before \in [Messages -> 0..MaxOffers]
    /\ notices \in Seq(Notices)
    /\ control \in Seq(Messages)
    /\ pc \in {"select", "send", "pause", "drain", "discard", "suspended",
               "leaving", "exited"}
    /\ ret \in {"select", "drain"}
    /\ ctl \in Messages \cup {NoMsg}
    /\ hand \in Notices \cup {0}
    /\ throttle \in 0..ThrottleMax
    /\ retry_after \in BOOLEAN
    /\ until \in {"none", "armed", "due"}
    /\ discarded \in Nat
    /\ delivered \in SUBSET Notices
    /\ failed \in SUBSET Notices
    /\ refused \in BOOLEAN
    /\ DropTypeOK

Init ==
    /\ open = TRUE
    /\ offered = 0
    /\ acks = [m \in Messages |-> "idle"]
    /\ before = [m \in Messages |-> 0]
    /\ notices = <<>>
    /\ control = <<>>
    /\ pc = "select"
    /\ ret = "select"
    /\ ctl = NoMsg
    /\ hand = 0
    /\ throttle = 0
    /\ retry_after = FALSE
    /\ until = "none"
    /\ discarded = 0
    /\ delivered = {}
    /\ failed = {}
    /\ refused = FALSE
    /\ DropInit

-----------------------------------------------------------------------------
(* Mutants: each is a definition below with a plausible bug in it.         *)

\* What was accepted while suspended is drained, and the tally forgotten.
ResumeUncounted ==
    /\ ctl = NoMsg
    /\ until # "none"
    /\ until' = "none"
    /\ pc' = "select"
    /\ UNCHANGED <<acks, dropVars>>

\* A throttled drain stops, and what it was for is answered.
DrainedOrThrottled ==
    \/ pc \in {"drain", "discard"} /\ notices = <<>>
    \/ pc = "drain" /\ throttle > 0

\* A suspension leaves a flush without an answer.
AnswerFlushUnlessSuspended ==
    /\ ctl \in Flushes
    /\ acks' = IF until = "none" THEN [acks EXCEPT ![ctl] = IF @ = "pending" THEN "yes" ELSE @]
               ELSE acks
    /\ pc' = IF until = "none" THEN "select" ELSE "suspended"
    /\ RecordMany(discarded)
    /\ UNCHANGED until

\* A pause lasts until the endpoint no longer throttles.
PauseOverWhenUnthrottled ==
    /\ pc = "pause"
    /\ open
    /\ control = <<>>
    /\ throttle = 0
    /\ pc' = "select"
    /\ UNCHANGED <<clientVars, notices, control, ret, ctl, hand, throttleVars, until,
                   discarded, historyVars, dropVars>>

-----------------------------------------------------------------------------
(* The callers' side: Client and WorkerHandle.                             *)

workerVars == <<pc, ret, ctl, hand, throttleVars, until, discarded, historyVars>>

\* try_enqueue: no lock, no look at any state but the channel's.
Accepting == pc # "exited" /\ Len(notices) < QueueSize

TryEnqueue ==
    /\ open
    /\ offered < MaxOffers
    /\ offered' = offered + 1
    /\ IF Accepting
       THEN /\ notices' = Append(notices, offered + 1)
            /\ UNCHANGED dropVars
       ELSE /\ RecordMany(1)
            /\ UNCHANGED notices
    /\ UNCHANGED <<open, acks, before, control, workerVars>>

\* flush_begin and shutdown send a message, or learn at once that the worker
\* is gone.
Send(m) ==
    /\ open
    /\ acks[m] = "idle"
    /\ before' = [before EXCEPT ![m] = offered]
    /\ IF pc = "exited"
       THEN /\ acks' = [acks EXCEPT ![m] = "lost"]
            /\ UNCHANGED control
       ELSE /\ acks' = [acks EXCEPT ![m] = "pending"]
            /\ control' = Append(control, m)
    /\ UNCHANGED <<open, offered, notices, workerVars, dropVars>>

\* The caller's timeout expires: it returns, and its message stays queued.
Expire(m) ==
    /\ acks[m] = "pending"
    /\ acks' = [acks EXCEPT ![m] = "timeout"]
    /\ UNCHANGED <<open, offered, before, notices, control, workerVars, dropVars>>

\* The last clone of the client goes away; a call in progress holds one.
DropClient ==
    /\ open
    /\ \A m \in Messages : acks[m] # "pending"
    /\ open' = FALSE
    /\ UNCHANGED <<offered, acks, before, notices, control, workerVars, dropVars>>

-----------------------------------------------------------------------------
(* run(): the select loop.                                                 *)

\* handle_control starts on a message: a shutdown of a throttled worker
\* discards the queue, anything else drains it.
Serve(m) ==
    /\ ctl' = m
    /\ pc' = IF m \in Shutdowns /\ throttle > 0 THEN "discard" ELSE "drain"

\* Control can be received from the select loop or from a throttle pause,
\* which it cuts short.
RecvControl ==
    /\ pc \in {"select", "pause"}
    /\ control # <<>>
    /\ control' = Tail(control)
    /\ Serve(Head(control))
    /\ UNCHANGED <<clientVars, notices, ret, hand, throttleVars, until, discarded,
                   historyVars, dropVars>>

\* Receive a notice and hand it to send_one, from run() or drain_and_send().
RecvNotice ==
    /\ pc \in {"select", "drain"}
    /\ notices # <<>>
    /\ hand' = Head(notices)
    /\ notices' = Tail(notices)
    /\ pc' = "send"
    /\ ret' = pc
    /\ UNCHANGED <<clientVars, control, ctl, throttleVars, until, discarded, historyVars,
                   dropVars>>

\* All handles are dropped: select! sees an empty channel as disconnected and
\* may pick it while the other still holds something, a pause or a suspension
\* only watches control.  The worker returns from run() either way.
Disconnected ==
    /\ ~open
    /\ \/ pc = "select" /\ (control = <<>> \/ notices = <<>>)
       \/ pc = "pause" /\ control = <<>>
       \/ pc = "suspended" /\ until = "armed" /\ control = <<>>
    /\ pc' = "leaving"
    /\ until' = "none"
    /\ UNCHANGED <<clientVars, notices, control, ret, ctl, hand, throttleVars, discarded,
                   historyVars, dropVars>>

\* The worker is dropped, and with it both receivers and every message and
\* acknowledgement still in them.
Leave ==
    /\ pc = "leaving"
    /\ pc' = "exited"
    /\ acks' = [m \in Messages |-> IF acks[m] = "pending" THEN "lost" ELSE acks[m]]
    /\ control' = <<>>
    /\ UNCHANGED <<open, offered, before, notices, ret, ctl, hand, throttleVars, until,
                   discarded, historyVars, dropVars>>

-----------------------------------------------------------------------------
(* send_one(), and the throttle pause that follows it in run().            *)

\* One answer per arm of the match; 0 is a transport error or a panic.
Answers == {0, 200, 404, 401, 402, 403, 413, 429, 503}

Outcome(status) ==
    CASE status \in 200..299        -> "Success"
      [] status \in {429, 503}      -> "Throttled"
      [] status \in {401, 402, 403} -> "Refused"
      [] OTHER                      -> "Failed"

Unthrottled == IF throttle = 0 THEN 0 ELSE throttle - 1
Throttled == IF throttle = ThrottleMax THEN throttle ELSE throttle + 1

\* SendOutcome::Continue, with n and after the new throttle and Retry-After:
\* run() pauses, and spends the Retry-After on it, unless there is nothing to
\* wait for; a drain goes straight on to the next notice.
Continue(n, after) ==
    /\ throttle' = n
    /\ IF ret = "select"
       THEN /\ pc' = IF n > 0 \/ after THEN "pause" ELSE "select"
            /\ retry_after' = FALSE
       ELSE /\ pc' = "drain"
            /\ retry_after' = after
    /\ UNCHANGED refused

SendSuccess ==
    /\ delivered' = delivered \cup {hand}
    /\ Continue(Unthrottled, retry_after)
    /\ Report
    /\ UNCHANGED failed

\* The notice itself is lost, and not counted as a drop.
SendThrottled ==
    /\ failed' = failed \cup {hand}
    /\ \E after \in BOOLEAN : Continue(Throttled, after)
    /\ UNCHANGED <<delivered, dropVars>>

SendFailed ==
    /\ failed' = failed \cup {hand}
    /\ Continue(throttle, retry_after)
    /\ UNCHANGED <<delivered, dropVars>>

\* SendOutcome::Suspend: both callers discard the queue first.
SendRefused ==
    /\ failed' = failed \cup {hand}
    /\ refused' = TRUE
    /\ pc' = "discard"
    /\ UNCHANGED <<delivered, throttleVars, dropVars>>

Deliver ==
    /\ pc = "send"
    /\ hand' = 0
    /\ ret' = "select"
    /\ \E status \in Answers :
          \/ Outcome(status) = "Success" /\ SendSuccess
          \/ Outcome(status) = "Throttled" /\ SendThrottled
          \/ Outcome(status) = "Failed" /\ SendFailed
          \/ Outcome(status) = "Refused" /\ SendRefused
    /\ UNCHANGED <<clientVars, notices, control, ctl, until, discarded>>

PauseOver ==
    /\ pc = "pause"
    /\ open
    /\ control = <<>>
    /\ pc' = "select"
    /\ UNCHANGED <<clientVars, notices, control, ret, ctl, hand, throttleVars, until,
                   discarded, historyVars, dropVars>>

-----------------------------------------------------------------------------
(* suspended_wait(): only control is served until the interval ends.       *)

SuspendedRecv ==
    /\ pc = "suspended"
    /\ until = "armed"
    /\ control # <<>>
    /\ ctl' = Head(control)
    /\ control' = Tail(control)
    /\ pc' = "discard"
    /\ UNCHANGED <<clientVars, notices, ret, hand, throttleVars, until, discarded,
                   historyVars, dropVars>>

SuspensionOver ==
    /\ pc = "suspended"
    /\ until = "due"
    /\ throttle' = 0
    /\ pc' = "discard"
    /\ UNCHANGED <<clientVars, notices, control, ret, ctl, hand, retry_after, until,
                   discarded, historyVars, dropVars>>

\* The interval ends, for the worker that waits it out or just in fact.
SuspensionPasses ==
    /\ until = "armed" \/ refused
    /\ until' = IF until = "armed" THEN "due" ELSE until
    /\ refused' = FALSE
    /\ UNCHANGED <<clientVars, notices, control, pc, ret, ctl, hand, throttleVars,
                   discarded, delivered, failed, dropVars>>

-----------------------------------------------------------------------------
(* drain_and_drop() and drain_and_send(), one try_recv at a time: callers   *)
(* may offer in between.                                                    *)

DiscardOne ==
    /\ pc = "discard"
    /\ notices # <<>>
    /\ notices' = Tail(notices)
    /\ discarded' = discarded + 1
    /\ UNCHANGED <<clientVars, control, pc, ret, ctl, hand, throttleVars, until,
                   historyVars, dropVars>>

\* The queue is empty.  What the drain or the discard was for: a suspension
\* that begins,
EnterSuspension ==
    /\ ctl = NoMsg
    /\ until = "none"
    /\ until' = "armed"
    /\ pc' = "suspended"
    /\ RecordMany(discarded)
    /\ UNCHANGED acks

\* one that ends,
Resume ==
    /\ ctl = NoMsg
    /\ until # "none"
    /\ until' = "none"
    /\ pc' = "select"
    /\ RecordMany(discarded)
    /\ UNCHANGED acks

Answer(m) == [acks EXCEPT ![m] = IF @ = "pending" THEN "yes" ELSE @]

\* a flush, served in the loop or by a suspension that goes on,
AnswerFlush ==
    /\ ctl \in Flushes
    /\ acks' = Answer(ctl)
    /\ pc' = IF until = "none" THEN "select" ELSE "suspended"
    /\ RecordMany(discarded)
    /\ UNCHANGED until

\* or a shutdown.
AnswerShutdown ==
    /\ ctl \in Shutdowns
    /\ acks' = Answer(ctl)
    /\ pc' = "leaving"
    /\ until' = "none"
    /\ RecordAndReportFinal(discarded)

Drained == pc \in {"drain", "discard"} /\ notices = <<>>

QueueEmpty ==
    /\ Drained
    /\ ctl' = NoMsg
    /\ discarded' = 0
    /\ EnterSuspension \/ Resume \/ AnswerFlush \/ AnswerShutdown
    /\ UNCHANGED <<open, offered, before, notices, control, ret, hand, throttleVars,
                   historyVars>>

\* MIN_LOG_INTERVAL of the drop counter.
MinutePasses ==
    /\ LogWindowPasses
    /\ UNCHANGED <<clientVars, notices, control, workerVars>>

-----------------------------------------------------------------------------
Callers ==
    \/ TryEnqueue
    \/ \E m \in Messages : Send(m) \/ Expire(m)
    \/ DropClient

Worker ==
    \/ RecvControl \/ RecvNotice \/ Disconnected \/ Leave
    \/ Deliver
    \/ SuspendedRecv \/ SuspensionOver
    \/ DiscardOne \/ QueueEmpty

Clock == PauseOver \/ SuspensionPasses \/ MinutePasses

Next == Callers \/ Worker \/ Clock

Spec == Init /\ [][Next]_vars

\* A worker thread that can run does run, a delivery answers, and pauses and
\* suspensions pass.  Callers owe nothing.
Fairness ==
    /\ WF_vars(Worker)
    /\ WF_vars(PauseOver)
    /\ WF_vars(SuspensionPasses)

FairSpec == Spec /\ Fairness

-----------------------------------------------------------------------------
(* Safety.                                                                 *)

Queued == {notices[i] : i \in DOMAIN notices}
InHand == IF hand = 0 THEN {} ELSE {hand}
Pending == InHand \cup Queued

\* Every notice ever offered is pending in one place, has been attempted once,
\* or is counted as a drop once, on every path: throttled, suspended while
\* running or while draining, flushed, shut down, refused at the gate.
EveryNoticeCounted ==
    offered = Len(notices) + Cardinality(InHand) + discarded
              + Cardinality(delivered) + Cardinality(failed) + Recorded

Promise == INSTANCE Pipeline WITH
    Calls <- Messages,
    Stops <- Shutdowns,
    waiting <- Pending,
    lost <- Recorded + discarded + Cardinality(failed),
    closed <- ~open,
    gone <- pc = "exited"

\* The worker, with its throttling and suspensions, keeps the promise of
\* Pipeline: notices leave in order and at most once, and flush and shutdown
\* are barriers.
Implements == Promise!Spec

-----------------------------------------------------------------------------
(* What the documentation, a comment or a test says and the code does not   *)
(* do: each is the property of a run that finds it violated.                *)

\* "suspending delivery for ...", the log says, and a test that "a 401 must
\* suspend delivery rather than dropping notices one by one": drain_and_send
\* discards the queue and goes back to run() without a wait.
SuspensionHolds == refused => pc # "send"

-----------------------------------------------------------------------------
(* Liveness.                                                               *)

\* Every flush and shutdown call gets its answer, or hears that the worker is
\* gone: no pause, suspension or endless throttling blocks it.
CallsAnswered == \A m \in Messages : acks[m] = "pending" ~> acks[m] # "pending"

\* A queued notice does not wait for ever: it is sent, counted as dropped, or
\* the worker is gone.
NoticeServed == \A e \in Notices : e \in Pending ~> e \notin Pending \/ pc = "exited"
=============================================================================
