---------------------------- MODULE EventsWorker ----------------------------
(***************************************************************************)
(* The Insights delivery pipeline of src/events_worker.rs: caller threads  *)
(* offer lines to a bounded channel; one worker thread collects them into  *)
(* batches, cuts a batch on count, bytes or time, delivers the batches in  *)
(* order and retries, backs off, sheds or suspends as the endpoint and the *)
(* budget demand.  Flush and shutdown reach it over an unbounded control   *)
(* channel.                                                                *)
(*                                                                         *)
(* A line is its sequence number among the lines ever offered.  A batch is *)
(* the set of its lines.  The worker's own code runs as one step between   *)
(* two points where another thread can interfere: a look at the event      *)
(* channel, a receive, a delivery.  Time is abstract: a timer is "none",   *)
(* "armed" or "due", and goes from armed to due whenever it likes.         *)
(***************************************************************************)
EXTENDS DropCounter, Integers, FiniteSets, Sequences

CONSTANTS
    Flushes,        \* the flush() calls made
    Shutdown,       \* the shutdown message
    NoMsg,          \* no control message in hand
    Size,           \* Size[e]: bytes of line e with its joining newline
    ByteLimit,      \* BATCH_BYTE_LIMIT
    BatchSize,      \* events_batch_size
    QueueSize,      \* events_queue_size
    MaxRetries,     \* events_max_retries
    ThrottleMax,    \* the width of the throttle counter, u32::MAX in the code
    Representable,  \* now + events_flush_interval is representable as an Instant
    MaxOffers       \* bound: how many lines are ever offered

Lines == 1..MaxOffers
Messages == Flushes \cup {Shutdown}

ASSUME SizesAssumption == Size \in [Lines -> Nat \ {0}]
ASSUME LimitsAssumption ==
    /\ ByteLimit \in Nat \ {0}
    /\ BatchSize \in Nat \ {0}
    /\ QueueSize \in Nat \ {0}
    /\ MaxRetries \in Nat
    /\ ThrottleMax \in Nat \ {0}
    /\ Representable \in BOOLEAN
    /\ MaxOffers \in Nat
ASSUME MessagesAssumption ==
    /\ Shutdown \notin Flushes
    /\ NoMsg \notin Messages

VARIABLES
    state,          \* the client's EventsState: "Running" or "Stopped"
    open,           \* the handle, with both senders, still exists
    offered,        \* lines offered so far; the next one is offered + 1
    acks,           \* what each flush call has heard
    before,         \* history: lines offered before each flush or shutdown call
    shut,           \* what the shutdown call has heard
    events,         \* the bounded event channel
    control,        \* the unbounded control channel
    pc,             \* where the worker thread is
    ret,            \* where accept or send_pending returns to
    ctl,            \* the message handle_control is serving
    inner,          \* the message suspend is serving
    hand,           \* the line in accept's hand, 0 if none
    current,        \* lines of the accumulating batch
    current_bytes,
    deadline,       \* time trigger of the accumulating batch
    retries,        \* the retry queue
    retry_at,       \* the backoff in force
    outstanding,    \* events held in current and retries
    until,          \* the end of the suspension
    discarded,      \* lines discard_queued has received so far
    throttle,
    stopped,
    delivered       \* history: lines in batches the API accepted

clientVars == <<state, open, offered, acks, before, shut>>
batchVars == <<current, current_bytes, deadline>>
queueVars == <<retries, outstanding>>
suspendVars == <<until, inner, discarded>>
vars == <<clientVars, events, control, pc, ret, ctl, hand, batchVars, queueVars,
          retry_at, suspendVars, throttle, stopped, delivered, dropVars>>

Timers == {"none", "armed", "due"}
Batches == [lines : SUBSET Lines, events : Nat, attempts : Nat]

\* Everything but the counters, whose ranges rest on what they count.
ShapeOK ==
    /\ state \in {"Running", "Stopped"}
    /\ open \in BOOLEAN
    /\ offered \in 0..MaxOffers
    /\ acks \in [Flushes -> {"idle", "pending", "yes", "no", "lost"}]
    /\ before \in [Messages -> 0..MaxOffers]
    /\ shut \in {"idle", "pending", "acked", "detached"}
    /\ events \in Seq(Lines)
    /\ control \in Seq(Messages)
    /\ pc \in {"select", "accept", "drain", "send", "finish",
               "suspended", "discard", "exited"}
    /\ ret \in {"select", "drain", "finish"}
    /\ ctl \in Messages \cup {NoMsg}
    /\ inner \in Messages \cup {NoMsg}
    /\ hand \in Lines \cup {0}
    /\ current \in SUBSET Lines
    /\ current_bytes \in Nat
    /\ deadline \in Timers
    /\ retries \in Seq(Batches)
    /\ retry_at \in Timers
    /\ until \in Timers
    /\ discarded \in Nat
    /\ throttle \in 0..ThrottleMax
    /\ stopped \in BOOLEAN
    /\ delivered \in SUBSET Lines

TypeOK ==
    /\ ShapeOK
    /\ outstanding \in Nat
    /\ DropTypeOK

Init ==
    /\ state = "Running"
    /\ open = TRUE
    /\ offered = 0
    /\ acks = [f \in Flushes |-> "idle"]
    /\ before = [m \in Messages |-> 0]
    /\ shut = "idle"
    /\ events = <<>>
    /\ control = <<>>
    /\ pc = "select"
    /\ ret = "select"
    /\ ctl = NoMsg
    /\ inner = NoMsg
    /\ hand = 0
    /\ current = {}
    /\ current_bytes = 0
    /\ deadline = "none"
    /\ retries = <<>>
    /\ retry_at = "none"
    /\ outstanding = 0
    /\ until = "none"
    /\ discarded = 0
    /\ throttle = 0
    /\ stopped = FALSE
    /\ delivered = {}
    /\ DropInit

-----------------------------------------------------------------------------
(* Mutants: each is a definition below with a plausible bug in it.         *)

\* Return without looking at `stopped`.
ReturnAlways ==
    /\ pc' = ret
    /\ ret' = "select"
    /\ UNCHANGED acks

ReadyAlways == TRUE

\* A cut batch goes to the front of the retry queue.
CutToFront(lines) ==
    /\ current' = {}
    /\ IF lines = {}
       THEN UNCHANGED <<current_bytes, deadline, retries>>
       ELSE /\ current_bytes' = 0
            /\ deadline' = "none"
            /\ retries' = <<[lines |-> lines, events |-> Cardinality(lines), attempts |-> 0]>>
                           \o retries

\* pop_front without giving the budget back.
PopHeadOnly ==
    /\ retries' = Tail(retries)
    /\ UNCHANGED outstanding

\* The byte trigger is missing.
FullByCount(lines, bytes) == Cardinality(lines) >= BatchSize

NeverRearmed == deadline

WrappingThrottle == throttle - 1

\* A batch that aged out is not counted as dropped.
BurnUncounted ==
    LET head == Head(retries)
    IN  IF head.attempts + 1 > MaxRetries
        THEN /\ retries' = Tail(retries)
             /\ outstanding' = outstanding - head.events
             /\ UNCHANGED <<retry_at, pc, ret, acks, dropVars>>
        ELSE /\ retries' = [retries EXCEPT ![1].attempts = @ + 1]
             /\ retry_at' = "armed"
             /\ ReturnAlways
             /\ UNCHANGED <<outstanding, dropVars>>

FlushAnswerAlways == "yes"
FlushAnswerOnlySuccess == IF retries = <<>> THEN "yes" ELSE "pending"

-----------------------------------------------------------------------------
(* The callers' side: what Client does with the handle.                    *)

workerVars == <<pc, ret, ctl, hand, batchVars, queueVars, retry_at,
                suspendVars, throttle, stopped, delivered>>

Accepting == state = "Running" /\ Len(events) < QueueSize

\* enqueue_event: a try_send under the state lock.  A full channel, or a
\* client already stopped, costs the line, and the caller counts it.
TryEnqueue ==
    /\ offered < MaxOffers
    /\ open \/ state = "Stopped"
    /\ offered' = offered + 1
    /\ IF Accepting
       THEN /\ events' = Append(events, offered + 1)
            /\ UNCHANGED dropVars
       ELSE /\ RecordMany(1)
            /\ UNCHANGED events
    /\ UNCHANGED <<state, open, acks, before, shut, control, workerVars>>

FlushBegin(f) ==
    /\ open
    /\ state = "Running"
    /\ acks[f] = "idle"
    /\ acks' = [acks EXCEPT ![f] = "pending"]
    /\ before' = [before EXCEPT ![f] = offered]
    /\ control' = Append(control, f)
    /\ UNCHANGED <<state, open, offered, shut, events, workerVars, dropVars>>

\* Client::shutdown replaces the state under the lock, then sends Shutdown.
ShutdownBegin ==
    /\ open
    /\ state = "Running"
    /\ state' = "Stopped"
    /\ shut' = "pending"
    /\ before' = [before EXCEPT ![Shutdown] = offered]
    /\ control' = Append(control, Shutdown)
    /\ UNCHANGED <<open, offered, acks, events, workerVars, dropVars>>

\* The acknowledgement did not come in time: the handle, and with it both
\* senders, is dropped.
Detach ==
    /\ shut = "pending"
    /\ shut' = "detached"
    /\ open' = FALSE
    /\ UNCHANGED <<state, offered, acks, before, events, control, workerVars, dropVars>>

\* The last clone of the client goes away without a shutdown.  A flush may
\* still be unanswered: its caller has given up waiting.
DropClient ==
    /\ open
    /\ state = "Running"
    /\ open' = FALSE
    /\ UNCHANGED <<state, offered, acks, before, shut, events, control, workerVars, dropVars>>

-----------------------------------------------------------------------------
(* Helpers of the worker.                                                  *)

\* Receivers die with the worker: whoever still waits hears a disconnect.
HangUp(heard) == [f \in Flushes |-> IF heard[f] = "pending" THEN "lost" ELSE heard[f]]

Exit ==
    /\ pc' = "exited"
    /\ ret' = "select"
    /\ acks' = HangUp(acks)

\* accept and send_pending return to the loop that called them; run() tests
\* `stopped` before it selects again.
Return ==
    IF ret = "select" /\ stopped'
    THEN Exit
    ELSE /\ pc' = ret
         /\ ret' = "select"
         /\ UNCHANGED acks

ready_to_send == retry_at # "armed"

NewBatch(lines) == [lines |-> lines, events |-> Cardinality(lines), attempts |-> 0]

\* cut(), for the lines it finds in current.
Cut(lines) ==
    /\ current' = {}
    /\ IF lines = {}
       THEN UNCHANGED <<current_bytes, deadline, retries>>
       ELSE /\ current_bytes' = 0
            /\ deadline' = "none"
            /\ retries' = Append(retries, NewBatch(lines))

PopHead ==
    /\ retries' = Tail(retries)
    /\ outstanding' = outstanding - Head(retries).events

Armed == IF Representable THEN "armed" ELSE "none"

ScheduleRetry == retry_at' = Armed

-----------------------------------------------------------------------------
(* run(): the select loop.                                                 *)

RecvControl ==
    /\ pc = "select"
    /\ control # <<>>
    /\ ctl' = Head(control)
    /\ control' = Tail(control)
    /\ pc' = "drain"
    /\ UNCHANGED <<clientVars, events, ret, hand, batchVars, queueVars, retry_at,
                   suspendVars, throttle, stopped, delivered, dropVars>>

\* Receive a line, from the select loop or from drain_channel's try_recv.
RecvEvent ==
    /\ pc \in {"select", "drain"}
    /\ events # <<>>
    /\ hand' = Head(events)
    /\ events' = Tail(events)
    /\ pc' = "accept"
    /\ ret' = pc
    /\ UNCHANGED <<clientVars, control, ctl, batchVars, queueVars, retry_at,
                   suspendVars, throttle, stopped, delivered, dropVars>>

\* Both senders are gone and one of the channels is empty: its receive
\* returns Err and run() returns, even if the other channel is not empty.
Disconnected ==
    /\ pc = "select"
    /\ ~open
    /\ control = <<>> \/ events = <<>>
    /\ Exit
    /\ UNCHANGED <<state, open, offered, before, shut, events, control, ctl, hand,
                   batchVars, queueVars, retry_at, suspendVars, throttle, stopped,
                   delivered, dropVars>>

\* The default arm, when nothing is ready and next_wake() has passed: at a
\* timer, or after IDLE_PARK, which may be any time at all.
Wake ==
    /\ pc = "select"
    /\ open
    /\ control = <<>>
    /\ events = <<>>
    /\ IF deadline = "due"
       THEN Cut(current)
       ELSE UNCHANGED <<batchVars, retries>>
    /\ pc' = IF ready_to_send THEN "send" ELSE "select"
    /\ UNCHANGED <<clientVars, events, control, ret, ctl, hand, outstanding, retry_at,
                   suspendVars, throttle, stopped, delivered, dropVars>>

-----------------------------------------------------------------------------
(* accept(line).                                                           *)

OverBudget == outstanding + Len(events) >= QueueSize

Shed ==
    /\ pc = "accept"
    /\ OverBudget
    /\ retries # <<>>
    /\ PopHead
    /\ RecordMany(Head(retries).events)
    /\ UNCHANGED <<clientVars, events, control, pc, ret, ctl, hand, batchVars, retry_at,
                   suspendVars, throttle, stopped, delivered>>

Refuse ==
    /\ pc = "accept"
    /\ OverBudget
    /\ retries = <<>>
    /\ RecordMany(1)
    /\ hand' = 0
    /\ UNCHANGED <<state, open, offered, before, shut, events, control, ctl, batchVars,
                   queueVars, retry_at, suspendVars, throttle, stopped, delivered>>
    /\ Return

\* Armed with the first line of a batch.
Deadline == IF current = {} THEN Armed ELSE deadline

Full(lines, bytes) == Cardinality(lines) >= BatchSize \/ bytes >= ByteLimit

\* The line joins the batch; a full batch is cut, and sent unless a backoff
\* is pending.
Admit ==
    LET lines == current \cup {hand}
        bytes == current_bytes + Size[hand]
    IN  /\ pc = "accept"
        /\ ~OverBudget
        /\ hand' = 0
        /\ outstanding' = outstanding + 1
        /\ UNCHANGED <<state, open, offered, before, shut, events, control, ctl,
                       retry_at, suspendVars, throttle, stopped, delivered, dropVars>>
        /\ IF Full(lines, bytes)
           THEN Cut(lines)
           ELSE /\ current' = lines
                /\ current_bytes' = bytes
                /\ deadline' = Deadline
                /\ UNCHANGED retries
        /\ IF Full(lines, bytes) /\ ready_to_send
           THEN /\ pc' = "send"
                /\ UNCHANGED <<ret, acks>>
           ELSE Return

-----------------------------------------------------------------------------
(* send_pending().                                                         *)

\* One answer per arm of classify(); 0 is a transport error or a panic.
Answers == {0, 200, 302, 401, 404, 429, 500, 503}

Classify(status) ==
    CASE status = 0                      -> "Retry"
      [] status \in 200..299             -> "Success"
      [] status \in {401, 402, 403}      -> "Suspend"
      [] status = 429                    -> "Throttle"
      [] status = 503                    -> "ThrottleBurn"
      [] status \in 500..599 \ {503}     -> "Retry"
      [] OTHER                           -> "Drop"

\* The loop of send_pending is at its head with a batch to deliver.
Delivering == pc = "send" /\ retries # <<>>

Unthrottled == IF throttle = 0 THEN 0 ELSE throttle - 1

DeliverSuccess ==
    /\ Delivering
    /\ PopHead
    /\ delivered' = delivered \cup Head(retries).lines
    /\ throttle' = Unthrottled
    /\ Report
    /\ UNCHANGED <<clientVars, events, control, pc, ret, ctl, hand, batchVars, retry_at,
                   suspendVars, stopped>>

DeliverDrop ==
    /\ Delivering
    /\ PopHead
    /\ RecordMany(Head(retries).events)
    /\ UNCHANGED <<clientVars, events, control, pc, ret, ctl, hand, batchVars, retry_at,
                   suspendVars, throttle, stopped, delivered>>

\* charge_attempt(): the attempt ages the head batch out and it is dropped,
AgesOut == Head(retries).attempts + 1 > MaxRetries

\* or it is kept and charged.
Charged == [retries EXCEPT ![1].attempts = @ + 1]

\* A failed attempt that costs one: the loop goes on if the batch aged out,
\* otherwise send_pending schedules the retry and returns.
Burn ==
    IF AgesOut
    THEN /\ PopHead
         /\ RecordMany(Head(retries).events)
         /\ UNCHANGED <<retry_at, pc, ret, acks>>
    ELSE /\ retries' = Charged
         /\ ScheduleRetry
         /\ Return
         /\ UNCHANGED <<outstanding, dropVars>>

DeliverRetry ==
    /\ Delivering
    /\ UNCHANGED <<state, open, offered, before, shut, events, control, ctl, hand,
                   batchVars, suspendVars, throttle, stopped, delivered>>
    /\ Burn

DeliverThrottle(burn) ==
    /\ Delivering
    /\ throttle' = IF throttle = ThrottleMax THEN throttle ELSE throttle + 1
    /\ UNCHANGED <<state, open, offered, before, shut, events, control, ctl, hand,
                   batchVars, suspendVars, stopped, delivered>>
    /\ IF burn
       THEN Burn
       ELSE /\ ScheduleRetry
            /\ Return
            /\ UNCHANGED <<queueVars, dropVars>>

\* suspend() up to its loop: everything held is discarded and counted.
DeliverSuspend ==
    /\ Delivering
    /\ RecordMany(outstanding)
    /\ retries' = <<>>
    /\ current' = {}
    /\ current_bytes' = 0
    /\ deadline' = "none"
    /\ retry_at' = "none"
    /\ outstanding' = 0
    /\ until' = "armed"
    /\ pc' = "suspended"
    /\ UNCHANGED <<clientVars, events, control, ret, ctl, inner, hand, discarded,
                   throttle, stopped, delivered>>

Deliver ==
    \E status \in Answers :
        LET outcome == Classify(status)
        IN  \/ outcome = "Success" /\ DeliverSuccess
            \/ outcome = "Drop" /\ DeliverDrop
            \/ outcome = "Retry" /\ DeliverRetry
            \/ outcome = "Throttle" /\ DeliverThrottle(FALSE)
            \/ outcome = "ThrottleBurn" /\ DeliverThrottle(TRUE)
            \/ outcome = "Suspend" /\ DeliverSuspend

\* Nothing is left to deliver: no backoff is owed.
SendDone ==
    /\ pc = "send"
    /\ retries = <<>>
    /\ retry_at' = "none"
    /\ UNCHANGED <<state, open, offered, before, shut, events, control, ctl, hand,
                   batchVars, queueVars, suspendVars, throttle, stopped, delivered,
                   dropVars>>
    /\ Return

-----------------------------------------------------------------------------
(* The loop of suspend(): only control is served until the interval ends.  *)

SuspendedRecv ==
    /\ pc = "suspended"
    /\ until = "armed"
    /\ control # <<>>
    /\ inner' = Head(control)
    /\ control' = Tail(control)
    /\ pc' = "discard"
    /\ UNCHANGED <<clientVars, events, ret, ctl, hand, batchVars, queueVars, retry_at,
                   until, discarded, throttle, stopped, delivered, dropVars>>

\* The interval is over: discard what was queued meanwhile, then return.
SuspensionOver ==
    /\ pc = "suspended"
    /\ until = "due"
    /\ throttle' = 0
    /\ pc' = "discard"
    /\ UNCHANGED <<clientVars, events, control, ret, ctl, hand, batchVars, queueVars,
                   retry_at, suspendVars, stopped, delivered, dropVars>>

SuspendedDisconnected ==
    /\ pc = "suspended"
    /\ until = "armed"
    /\ ~open
    /\ control = <<>>
    /\ stopped' = TRUE
    /\ until' = "none"
    /\ UNCHANGED <<state, open, offered, before, shut, events, control, ctl, inner, hand,
                   batchVars, queueVars, retry_at, discarded, throttle, delivered,
                   dropVars>>
    /\ Return

\* discard_queued(), one try_recv at a time: callers may offer in between.
DiscardOne ==
    /\ pc = "discard"
    /\ events # <<>>
    /\ events' = Tail(events)
    /\ discarded' = discarded + 1
    /\ UNCHANGED <<clientVars, control, pc, ret, ctl, inner, hand, batchVars, queueVars,
                   retry_at, until, throttle, stopped, delivered, dropVars>>

\* The channel is empty: count what was discarded, then do what the discard
\* was for.
DiscardedForFlush ==
    /\ inner \in Flushes
    /\ RecordMany(discarded)
    /\ acks' = [acks EXCEPT ![inner] = "yes"]
    /\ pc' = "suspended"
    /\ UNCHANGED <<shut, ret, until, stopped>>

DiscardedForShutdown ==
    /\ inner = Shutdown
    /\ RecordAndReportFinal(discarded)
    /\ shut' = IF shut = "pending" THEN "acked" ELSE shut
    /\ stopped' = TRUE
    /\ until' = "none"
    /\ Return

DiscardedForResume ==
    /\ inner = NoMsg
    /\ RecordMany(discarded)
    /\ until' = "none"
    /\ UNCHANGED <<shut, stopped>>
    /\ Return

DiscardDone ==
    /\ pc = "discard"
    /\ events = <<>>
    /\ discarded' = 0
    /\ inner' = NoMsg
    /\ UNCHANGED <<state, open, offered, before, events, control, ctl, hand, batchVars,
                   queueVars, retry_at, throttle, delivered>>
    /\ DiscardedForFlush \/ DiscardedForShutdown \/ DiscardedForResume

-----------------------------------------------------------------------------
(* handle_control(): drain_channel, cut, send_pending, answer.             *)

\* The channel is empty: cut whatever was collected and send regardless of
\* any backoff.
DrainDone ==
    /\ pc = "drain"
    /\ events = <<>>
    /\ Cut(current)
    /\ pc' = "send"
    /\ ret' = "finish"
    /\ UNCHANGED <<clientVars, events, control, ctl, hand, outstanding, retry_at,
                   suspendVars, throttle, stopped, delivered, dropVars>>

\* Head-of-line blocking: one retained batch stops everything behind it.
FlushAnswer == IF retries = <<>> THEN "yes" ELSE "no"

AnswerFlush ==
    /\ pc = "finish"
    /\ ctl \in Flushes
    /\ ctl' = NoMsg
    /\ LET answered == [acks EXCEPT ![ctl] = FlushAnswer]
       IN  IF stopped
           THEN /\ pc' = "exited"
                /\ acks' = HangUp(answered)
           ELSE /\ pc' = "select"
                /\ acks' = answered
    /\ UNCHANGED <<state, open, offered, before, shut, events, control, ret, hand,
                   batchVars, queueVars, retry_at, suspendVars, throttle, stopped,
                   delivered, dropVars>>

\* abandon_outstanding, report_final, the acknowledgement, and the exit.
AnswerShutdown ==
    /\ pc = "finish"
    /\ ctl = Shutdown
    /\ ctl' = NoMsg
    /\ RecordAndReportFinal(outstanding)
    /\ retries' = <<>>
    /\ current' = {}
    /\ current_bytes' = 0
    /\ outstanding' = 0
    /\ shut' = IF shut = "pending" THEN "acked" ELSE shut
    /\ stopped' = TRUE
    /\ Exit
    /\ UNCHANGED <<state, open, offered, before, events, control, hand, deadline,
                   retry_at, suspendVars, throttle, delivered>>

-----------------------------------------------------------------------------
(* Time.                                                                   *)

DeadlinePasses ==
    /\ deadline = "armed"
    /\ deadline' = "due"
    /\ UNCHANGED <<clientVars, events, control, pc, ret, ctl, hand, current,
                   current_bytes, queueVars, retry_at, suspendVars, throttle, stopped,
                   delivered, dropVars>>

BackoffPasses ==
    /\ retry_at = "armed"
    /\ retry_at' = "due"
    /\ UNCHANGED <<clientVars, events, control, pc, ret, ctl, hand, batchVars, queueVars,
                   suspendVars, throttle, stopped, delivered, dropVars>>

SuspensionPasses ==
    /\ until = "armed"
    /\ until' = "due"
    /\ UNCHANGED <<clientVars, events, control, pc, ret, ctl, hand, batchVars, queueVars,
                   retry_at, inner, discarded, throttle, stopped, delivered, dropVars>>

MinutePasses ==
    /\ LogWindowPasses
    /\ UNCHANGED <<clientVars, events, control, workerVars>>

-----------------------------------------------------------------------------
Callers ==
    \/ TryEnqueue
    \/ \E f \in Flushes : FlushBegin(f)
    \/ ShutdownBegin
    \/ Detach
    \/ DropClient

Worker ==
    \/ RecvControl \/ RecvEvent \/ Disconnected \/ Wake
    \/ Shed \/ Refuse \/ Admit
    \/ Deliver \/ SendDone
    \/ SuspendedRecv \/ SuspensionOver \/ SuspendedDisconnected
    \/ DiscardOne \/ DiscardDone
    \/ DrainDone \/ AnswerFlush \/ AnswerShutdown

Clock == DeadlinePasses \/ BackoffPasses \/ SuspensionPasses \/ MinutePasses

Next == Callers \/ Worker \/ Clock

Spec == Init /\ [][Next]_vars

\* A worker thread that can run does run, a delivery answers (an
\* implementation of Transport must not block forever), and timers pass.
\* Callers owe nothing.
Fairness ==
    /\ WF_vars(Worker)
    /\ WF_vars(DeadlinePasses)
    /\ WF_vars(BackoffPasses)
    /\ WF_vars(SuspensionPasses)

FairSpec == Spec /\ Fairness

-----------------------------------------------------------------------------
(* Safety.                                                                 *)

LinesIn(batches) == UNION {batches[i].lines : i \in DOMAIN batches}
Queued(queue) == {queue[i] : i \in DOMAIN queue}
HeldLines == LinesIn(retries) \cup current
InHand == IF hand = 0 THEN {} ELSE {hand}
Pending == HeldLines \cup InHand \cup Queued(events)

\* The worker's counters agree with what it really holds: `outstanding`
\* counts the lines of every batch, and a batch's `events` counts its body.
\* Every path that drops, delivers, sheds, ages out or suspends must keep
\* them so, or the budget drifts and the drop counter lies.
CountersAgree ==
    /\ outstanding = Cardinality(HeldLines)
    /\ \A i \in DOMAIN retries : retries[i].events = Cardinality(retries[i].lines)

\* Every line ever offered is pending in exactly one place, delivered, or
\* counted as a drop exactly once, at every step of every path.
EveryLineCounted ==
    offered = Len(events) + (IF hand = 0 THEN 0 ELSE 1) + outstanding + discarded
              + Cardinality(delivered) + Recorded

Before(S, T) == \A s \in S, t \in T : s < t

InOrder(done, batches, cur, taken, queue) ==
    /\ Before(done, LinesIn(batches) \cup cur \cup taken \cup Queued(queue))
    /\ \A i, j \in DOMAIN batches : i < j => Before(batches[i].lines, batches[j].lines)
    /\ Before(LinesIn(batches), cur \cup taken \cup Queued(queue))
    /\ Before(cur, taken \cup Queued(queue))
    /\ Before(taken, Queued(queue))
    /\ \A i, j \in DOMAIN queue : i < j => queue[i] < queue[j]

\* Order is kept from the channel to the endpoint and no line is in two
\* places: delivered, then each retained batch, then the accumulating batch,
\* then the line in hand, then the channel.
Fifo == InOrder(delivered, retries, current, InHand, events)

\* The worker never holds more than events_queue_size, and nor does the
\* channel.
WorkerWithinBudget ==
    /\ outstanding <= QueueSize
    /\ Len(events) <= QueueSize

\* A full batch or a time trigger never bypasses the backoff: only the
\* barriers, flush and shutdown, send while one is pending, and a batch that
\* has already failed is otherwise tried again only when its backoff is over.
BackoffRespected ==
    pc = "send" /\ ret # "finish" =>
        /\ retry_at # "armed"
        /\ retries # <<>> /\ Head(retries).attempts > 0 => retry_at = "due"

\* The bytes of a set of lines.
Bytes(lines) ==
    LET upto[n \in 0..MaxOffers] ==
            IF n = 0 THEN 0 ELSE upto[n - 1] + (IF n \in lines THEN Size[n] ELSE 0)
    IN  upto[MaxOffers]

\* The line that cut a batch is the only one past BATCH_BYTE_LIMIT.
WithinBytes(lines) ==
    \A e \in lines : (\A f \in lines : f <= e) => Bytes(lines \ {e}) < ByteLimit

\* The accumulating batch is under both limits, and current_bytes is its size
\* and not that of one cut before.  A retained batch is within both and has
\* attempts left, and only the head, which blocks the rest, has spent any.
BatchesBounded ==
    /\ current_bytes = Bytes(current)
    /\ Cardinality(current) < BatchSize /\ current_bytes < ByteLimit
    /\ \A i \in DOMAIN retries :
          LET batch == retries[i]
          IN  /\ batch.lines # {} /\ Cardinality(batch.lines) <= BatchSize
              /\ WithinBytes(batch.lines)
              /\ batch.attempts <= MaxRetries
              /\ i > 1 => batch.attempts = 0

\* When the shutdown call hears its acknowledgement the pipeline is empty, and
\* the only losses not yet summarised in the log are lines offered after the
\* call.
ShutdownLeavesNothing ==
    [][shut' = "acked" /\ shut # "acked" =>
           /\ Pending' = {}
           /\ discarded' = 0
           /\ dropped' <= offered' - before[Shutdown]]_vars

\* What the shutdown call has heard, in the words of a flush, and what each
\* call has.
ShutHeard == CASE shut = "acked"     -> "yes"
               [] shut = "detached"  -> "timeout"
               [] OTHER              -> shut

Heard == [m \in Messages |-> IF m = Shutdown THEN ShutHeard ELSE acks[m]]

Promise == INSTANCE Pipeline WITH
    Calls <- Messages,
    Stops <- {Shutdown},
    waiting <- Pending,
    lost <- Recorded + discarded,
    acks <- Heard,
    closed <- ~open,
    gone <- pc = "exited"

\* The worker, with its batches, retries, backoff, shedding and suspension,
\* keeps the promise of Pipeline: lines leave in order, are lost only if
\* counted, flush and shutdown are barriers, and the worker stops only when it
\* was told to or nobody can reach it.
Implements == Promise!Spec

-----------------------------------------------------------------------------
(* What the documentation, a comment or a test says and the code does not   *)
(* do: each is the property of a run that finds it violated.                *)

\* "events_queue_size bounds everything outstanding at once - queued, batching,
\* and awaiting retry - rather than just the channel": the budget is looked at
\* when a line is taken from the channel, and callers fill the channel again
\* behind a worker that holds a budget's worth and waits.
BudgetBoundsOutstanding == Cardinality(HeldLines \cup Queued(events)) <= QueueSize

\* "Whatever delivery could not place dies with the worker, so it is counted
\* rather than vanishing silently": but once shutdown() has timed out and
\* dropped the senders, select! may pick the disconnected event channel before
\* the Shutdown message that is still queued.
DeathIsCounted == shut # "idle" /\ pc = "exited" => Pending = {}

-----------------------------------------------------------------------------
(* Liveness.                                                               *)

\* Every flush call is answered, or hears that the worker is gone; a
\* suspension or an endpoint that throttles for ever delays it but never
\* blocks it.
FlushAnswered == \A f \in Flushes : acks[f] = "pending" ~> acks[f] # "pending"

\* Nothing the worker keeps waits for ever: a partial batch is cut and handed
\* on, and a retained one is tried again or gone, since a backoff always ends.
KeptIsMovedOn ==
    /\ current # {} ~> current = {} \/ pc = "exited"
    /\ retries # <<>> ~> Delivering \/ retries = <<>> \/ pc = "exited"
=============================================================================
