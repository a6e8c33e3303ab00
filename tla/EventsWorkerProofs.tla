------------------------ MODULE EventsWorkerProofs ------------------------
(***************************************************************************)
(* Theorems about EventsWorker, for every queue size, batch size, number   *)
(* of lines, set of flushes and retry limit.                               *)
(***************************************************************************)
EXTENDS EventsWorker, FiniteSetTheorems, SequenceTheorems, TLAPS

\* Accept is the only place with a line in hand; a suspended worker holds
\* nothing.
ControlOK ==
    /\ pc = "accept" <=> hand # 0
    /\ pc \in {"suspended", "discard"} => retries = <<>> /\ current = {}

\* Sets of lines are finite, so that counting them makes sense.
LEMMA LinesFinite ==
    ASSUME NEW S \in SUBSET Lines
    PROVE  IsFiniteSet(S) /\ Cardinality(S) \in Nat
<1>1. IsFiniteSet(Lines)
  BY LimitsAssumption, FS_Interval DEF Lines
<1>2. IsFiniteSet(S)
  BY <1>1, FS_Subset
<1> QED
  BY <1>2, FS_CardinalityType

\* Cutting a batch keeps the queue and the batch well-typed.
LEMMA CutShape ==
    ASSUME NEW lines \in SUBSET Lines, Cut(lines),
           current_bytes \in Nat, deadline \in Timers, retries \in Seq(Batches)
    PROVE  /\ current' = {}
           /\ current_bytes' \in Nat
           /\ deadline' \in Timers
           /\ retries' \in Seq(Batches)
<1>1. NewBatch(lines) \in Batches
  BY LinesFinite DEF NewBatch, Batches
<1> QED
  BY <1>1 DEF Cut, Timers

\* What the head of the retry queue is, and what is left without it.
LEMMA HeadShape ==
    ASSUME Delivering, retries \in Seq(Batches)
    PROVE  /\ Head(retries) \in Batches
           /\ Tail(retries) \in Seq(Batches)
           /\ Charged \in Seq(Batches)
           /\ DOMAIN Charged = DOMAIN retries
           /\ \A i \in DOMAIN retries : /\ Charged[i].lines = retries[i].lines
                                        /\ Charged[i].events = retries[i].events
<1>1. Len(retries) \in Nat /\ 1 \in 1..Len(retries) /\ retries \in [1..Len(retries) -> Batches]
  BY DEF Delivering
<1>2. Head(retries) = retries[1] /\ retries[1] \in Batches
  BY <1>1
<1>3. Tail(retries) \in Seq(Batches)
  BY <1>1
<1> DEFINE aged == [retries[1] EXCEPT !.attempts = retries[1].attempts + 1]
<1>4. aged \in Batches
  <2>1. retries[1].attempts + 1 \in Nat
    BY <1>2 DEF Batches
  <2> QED
    BY <1>2, <2>1, Zenon DEF Batches
<1>5. Charged = [retries EXCEPT ![1] = aged]
  BY <1>1 DEF Charged
<1>6. Charged \in [1..Len(retries) -> Batches]
  BY <1>1, <1>4, <1>5
<1>7. aged.lines = retries[1].lines /\ aged.events = retries[1].events
  BY <1>2, Zenon DEF Batches
<1>8. \A i \in 1..Len(retries) : /\ Charged[i].lines = retries[i].lines
                                /\ Charged[i].events = retries[i].events
  BY <1>1, <1>5, <1>7
<1> QED
  BY <1>1, <1>2, <1>3, <1>6, <1>8

\* The worker's return leaves it at a known place and the acks well-typed.
LEMMA ReturnShape ==
    ASSUME Return, ShapeOK
    PROVE  /\ pc' \in {"select", "drain", "finish", "exited"}
           /\ ret' = "select"
           /\ acks' \in [Flushes -> {"idle", "pending", "yes", "no", "lost"}]
BY DEF Return, Exit, HangUp, ShapeOK

\* Steps keep the types of everything but the counters.
LEMMA ShapeStep ==
    ShapeOK /\ ControlOK /\ [Next]_vars => ShapeOK' /\ ControlOK'
<1> SUFFICES ASSUME ShapeOK, ControlOK, [Next]_vars
             PROVE  ShapeOK' /\ ControlOK'
  OBVIOUS
<1> USE MessagesAssumption, LimitsAssumption, SizesAssumption
<1>1. CASE TryEnqueue
  <2>1. offered' \in 0..MaxOffers /\ offered + 1 \in Lines
    BY <1>1 DEF TryEnqueue, ShapeOK, Lines
  <2>2. events' \in Seq(Lines)
    <3>1. events' = Append(events, offered + 1) \/ events' = events
      BY <1>1 DEF TryEnqueue
    <3>2. Append(events, offered + 1) \in Seq(Lines)
      BY <2>1, AppendProperties DEF ShapeOK
    <3> QED
      BY <3>1, <3>2 DEF ShapeOK
  <2> QED
    BY <1>1, <2>1, <2>2 DEF TryEnqueue, ShapeOK, ControlOK, workerVars, batchVars,
                            queueVars, suspendVars
<1>2. ASSUME NEW f \in Flushes, FlushBegin(f) PROVE ShapeOK' /\ ControlOK'
  BY <1>2 DEF FlushBegin, ShapeOK, ControlOK, workerVars, batchVars,
              queueVars, suspendVars, Messages
<1>3. CASE ShutdownBegin
  <2>1. control' \in Seq(Messages) /\ before' \in [Messages -> 0..MaxOffers]
    BY <1>3 DEF ShutdownBegin, ShapeOK, Messages
  <2>2. /\ state' \in {"Running", "Stopped"}
        /\ shut' \in {"idle", "pending", "acked", "detached"}
        /\ UNCHANGED <<open, offered, acks, events, workerVars>>
    BY <1>3 DEF ShutdownBegin
  <2> QED
    BY <2>1, <2>2 DEF ShapeOK, ControlOK, workerVars, batchVars, queueVars, suspendVars
<1>4. CASE Detach
  BY <1>4, ZenonT(40)
  DEF Detach, ShapeOK, ControlOK, workerVars, batchVars, queueVars, suspendVars
<1>5. CASE DropClient
  BY <1>5, ZenonT(40)
  DEF DropClient, ShapeOK, ControlOK, workerVars, batchVars, queueVars, suspendVars
<1>6. CASE RecvControl
  BY <1>6 DEF RecvControl, ShapeOK, ControlOK, clientVars, batchVars, queueVars, suspendVars
<1>7. CASE RecvEvent
  <2>1. events \in Seq(Lines) /\ events # <<>>
    BY <1>7 DEF RecvEvent, ShapeOK
  <2>2. Head(events) \in Lines /\ Tail(events) \in Seq(Lines)
    BY <2>1, HeadTailProperties
  <2>3. hand' \in Lines /\ hand' # 0 /\ events' \in Seq(Lines) /\ ret' \in {"select", "drain"}
    BY <1>7, <2>2 DEF RecvEvent, Lines
  <2> QED
    BY <1>7, <2>3 DEF RecvEvent, ShapeOK, ControlOK, clientVars, batchVars, queueVars,
                      suspendVars
<1>8. CASE Disconnected
  BY <1>8
  DEF Disconnected, Exit, HangUp, ShapeOK, ControlOK, batchVars, queueVars, suspendVars
<1>9. CASE Wake
  <2>1. CASE deadline = "due"
    BY <1>9, <2>1, CutShape DEF Wake, ShapeOK, ControlOK, clientVars, suspendVars
  <2>2. CASE deadline # "due"
    BY <1>9, <2>2 DEF Wake, ShapeOK, ControlOK, clientVars, batchVars, suspendVars
  <2> QED BY <2>1, <2>2
<1>10. CASE Shed
  BY <1>10 DEF Shed, PopHead, ShapeOK, ControlOK, clientVars, batchVars, suspendVars
<1>11. CASE Refuse
  BY <1>11, ReturnShape DEF Refuse, ShapeOK, ControlOK, batchVars, queueVars, suspendVars
<1>12. CASE Admit
  <2> DEFINE lines == current \cup {hand}
             bytes == current_bytes + Size[hand]
  <2>1. lines \in SUBSET Lines /\ bytes \in Nat /\ Armed \in Timers
    BY <1>12 DEF Admit, ShapeOK, ControlOK, Armed, Timers
  <2>2. CASE Full(lines, bytes)
    <3>1. Cut(lines)
      BY <1>12, <2>2 DEF Admit
    <3>2. /\ current' = {}
          /\ current_bytes' \in Nat
          /\ deadline' \in Timers
          /\ retries' \in Seq(Batches)
      BY <2>1, <3>1, CutShape DEF ShapeOK
    <3>3. \/ pc' = "send" /\ ret' = ret /\ acks' = acks
          \/ Return
      BY <1>12 DEF Admit
    <3> QED
      BY <1>12, <3>2, <3>3, ReturnShape DEF Admit, ShapeOK, ControlOK, suspendVars
  <2>3. CASE ~Full(lines, bytes)
    <3>1. Return
      BY <1>12, <2>3 DEF Admit
    <3> QED
      BY <1>12, <2>1, <2>3, <3>1, ReturnShape
      DEF Admit, Deadline, ShapeOK, ControlOK, suspendVars
  <2> QED BY <2>2, <2>3
<1>13. CASE DeliverSuccess
  <2>1. Head(retries).lines \in SUBSET Lines /\ Tail(retries) \in Seq(Batches)
    BY <1>13, HeadShape DEF DeliverSuccess, ShapeOK, Batches
  <2>2. Unthrottled \in 0..ThrottleMax
    BY DEF Unthrottled, ShapeOK
  <2> QED
    BY <1>13, <2>1, <2>2 DEF DeliverSuccess, Delivering, PopHead, ShapeOK, ControlOK,
                             clientVars, batchVars, suspendVars
<1>14. CASE DeliverDrop
  BY <1>14 DEF DeliverDrop, Delivering, PopHead, ShapeOK, ControlOK,
               clientVars, batchVars, suspendVars
<1>15. ASSUME Delivering, Burn
       PROVE  /\ retries' \in Seq(Batches)
              /\ retry_at' \in Timers
              /\ pc' \in {"send", "select", "drain", "finish", "exited"}
              /\ ret' \in {"select", "drain", "finish"}
              /\ acks' \in [Flushes -> {"idle", "pending", "yes", "no", "lost"}]
  <2>1. CASE AgesOut
    BY <1>15, <2>1, HeadShape DEF Burn, Delivering, PopHead, ShapeOK
  <2>2. CASE ~AgesOut
    <3>1. Charged \in Seq(Batches)
      BY <1>15, HeadShape DEF ShapeOK
    <3> QED
      BY <1>15, <2>2, <3>1, ReturnShape DEF Burn, ScheduleRetry, Armed, Timers
  <2> QED BY <2>1, <2>2
<1>16. CASE DeliverRetry
  BY <1>15, <1>16 DEF DeliverRetry, Delivering, ShapeOK, ControlOK, batchVars, suspendVars
<1>17. ASSUME NEW burn \in BOOLEAN, DeliverThrottle(burn) PROVE ShapeOK' /\ ControlOK'
  <2>1. CASE burn
    BY <1>15, <1>17, <2>1
    DEF DeliverThrottle, Delivering, ShapeOK, ControlOK, batchVars, suspendVars
  <2>2. CASE ~burn
    BY <1>17, <2>2, ReturnShape
    DEF DeliverThrottle, Delivering, ScheduleRetry, Armed, Timers, ShapeOK, ControlOK,
        batchVars, queueVars, suspendVars
  <2> QED BY <2>1, <2>2
<1>18. CASE DeliverSuspend
  BY <1>18 DEF DeliverSuspend, Delivering, ShapeOK, ControlOK, clientVars, Timers
<1>19. CASE SendDone
  BY <1>19, ReturnShape
  DEF SendDone, ShapeOK, ControlOK, batchVars, queueVars, suspendVars, Timers
<1>20. CASE SuspendedRecv
  BY <1>20 DEF SuspendedRecv, ShapeOK, ControlOK, clientVars, batchVars, queueVars
<1>21. CASE SuspensionOver
  BY <1>21
  DEF SuspensionOver, ShapeOK, ControlOK, clientVars, batchVars, queueVars, suspendVars
<1>22. CASE SuspendedDisconnected
  BY <1>22, ReturnShape
  DEF SuspendedDisconnected, ShapeOK, ControlOK, batchVars, queueVars, Timers
<1>23. CASE DiscardOne
  BY <1>23 DEF DiscardOne, ShapeOK, ControlOK, clientVars, batchVars, queueVars
<1>24. CASE DiscardDone
  <2>1. CASE DiscardedForFlush
    BY <1>24, <2>1
    DEF DiscardDone, DiscardedForFlush, ShapeOK, ControlOK, batchVars, queueVars
  <2>2. CASE DiscardedForShutdown
    BY <1>24, <2>2, ReturnShape
    DEF DiscardDone, DiscardedForShutdown, ShapeOK, ControlOK, batchVars, queueVars, Timers
  <2>3. CASE DiscardedForResume
    BY <1>24, <2>3, ReturnShape
    DEF DiscardDone, DiscardedForResume, ShapeOK, ControlOK, batchVars, queueVars, Timers
  <2> QED BY <1>24, <2>1, <2>2, <2>3 DEF DiscardDone
<1>25. CASE DrainDone
  BY <1>25, CutShape DEF DrainDone, ShapeOK, ControlOK, clientVars, suspendVars
<1>26. CASE AnswerFlush
  BY <1>26 DEF AnswerFlush, FlushAnswer, HangUp, ShapeOK, ControlOK, batchVars, queueVars,
               suspendVars
<1>27. CASE AnswerShutdown
  BY <1>27 DEF AnswerShutdown, Exit, HangUp, ShapeOK, ControlOK, suspendVars
<1>28. CASE DeadlinePasses
  BY <1>28
  DEF DeadlinePasses, ShapeOK, ControlOK, clientVars, queueVars, suspendVars, Timers
<1>29. CASE BackoffPasses
  BY <1>29
  DEF BackoffPasses, ShapeOK, ControlOK, clientVars, batchVars, queueVars, suspendVars,
               Timers
<1>30. CASE SuspensionPasses
  BY <1>30
  DEF SuspensionPasses, ShapeOK, ControlOK, clientVars, batchVars, queueVars, Timers
<1>31. CASE MinutePasses
  BY <1>31 DEF MinutePasses, LogWindowPasses, ShapeOK, ControlOK, clientVars, workerVars,
               batchVars, queueVars, suspendVars
<1>32. CASE UNCHANGED vars
  BY <1>32 DEF vars, ShapeOK, ControlOK, clientVars, batchVars, queueVars, suspendVars
<1> QED
  BY <1>1, <1>2, <1>3, <1>4, <1>5, <1>6, <1>7, <1>8, <1>9, <1>10, <1>11, <1>12, <1>13,
     <1>14, <1>16, <1>17, <1>18, <1>19, <1>20, <1>21, <1>22, <1>23, <1>24, <1>25, <1>26,
     <1>27, <1>28, <1>29, <1>30, <1>31, <1>32
  DEF Next, Callers, Worker, Clock, Deliver

-----------------------------------------------------------------------------
(* Collections of lines: what an append, a tail or a charge does to them.   *)

\* A batch that joins the retry queue brings its lines.
LEMMA LinesInAppend ==
    ASSUME NEW r \in Seq(Batches), NEW b \in Batches
    PROVE  LinesIn(Append(r, b)) = LinesIn(r) \cup b.lines
<1>1. /\ DOMAIN r = 1..Len(r) /\ Len(r) \in Nat
      /\ DOMAIN Append(r, b) = 1..Len(r)+1
      /\ \A i \in 1..Len(r) : Append(r, b)[i] = r[i]
      /\ Append(r, b)[Len(r)+1] = b
  BY LenProperties, AppendProperties
<1>2. \A x : x \in LinesIn(Append(r, b)) <=> x \in LinesIn(r) \cup b.lines
  <2> TAKE x
  <2>1. ASSUME x \in LinesIn(Append(r, b)) PROVE x \in LinesIn(r) \cup b.lines
    <3>1. PICK i \in 1..Len(r)+1 : x \in Append(r, b)[i].lines
      BY <1>1, <2>1 DEF LinesIn
    <3>2. CASE i \in 1..Len(r)
      BY <1>1, <3>1, <3>2 DEF LinesIn
    <3>3. CASE i = Len(r)+1
      BY <1>1, <3>1, <3>3
    <3> QED BY <1>1, <3>2, <3>3
  <2>2. ASSUME x \in LinesIn(r) PROVE x \in LinesIn(Append(r, b))
    <3>1. PICK i \in 1..Len(r) : x \in r[i].lines
      BY <1>1, <2>2 DEF LinesIn
    <3>2. i \in DOMAIN Append(r, b) /\ x \in Append(r, b)[i].lines
      BY <1>1, <3>1
    <3> QED BY <3>2 DEF LinesIn
  <2>3. ASSUME x \in b.lines PROVE x \in LinesIn(Append(r, b))
    <3>1. Len(r)+1 \in DOMAIN Append(r, b) /\ x \in Append(r, b)[Len(r)+1].lines
      BY <1>1, <2>3
    <3> QED BY <3>1 DEF LinesIn
  <2> QED BY <2>1, <2>2, <2>3
<1> QED BY <1>2

\* A batch that leaves it takes its lines along.
LEMMA LinesInTail ==
    ASSUME NEW r \in Seq(Batches), r # <<>>
    PROVE  LinesIn(r) = Head(r).lines \cup LinesIn(Tail(r))
<1>1. /\ Len(r) \in Nat \ {0} /\ DOMAIN r = 1..Len(r)
      /\ DOMAIN Tail(r) = 1..Len(r)-1
      /\ \A i \in 1..Len(r)-1 : Tail(r)[i] = r[i+1]
      /\ Head(r) = r[1]
  BY LenProperties, HeadTailProperties, EmptySeq
<1>2. \A x : x \in LinesIn(r) <=> x \in Head(r).lines \cup LinesIn(Tail(r))
  <2> TAKE x
  <2>1. ASSUME x \in LinesIn(r) PROVE x \in Head(r).lines \cup LinesIn(Tail(r))
    <3>1. PICK i \in 1..Len(r) : x \in r[i].lines
      BY <1>1, <2>1 DEF LinesIn
    <3>2. CASE i = 1
      BY <1>1, <3>1, <3>2
    <3>3. CASE i # 1
      <4>1. i - 1 \in DOMAIN Tail(r) /\ Tail(r)[i-1] = r[i]
        BY <1>1, <3>3
      <4> QED BY <3>1, <4>1 DEF LinesIn
    <3> QED BY <3>2, <3>3
  <2>2. ASSUME x \in LinesIn(Tail(r)) PROVE x \in LinesIn(r)
    <3>1. PICK i \in 1..Len(r)-1 : x \in Tail(r)[i].lines
      BY <1>1, <2>2 DEF LinesIn
    <3>2. i+1 \in DOMAIN r /\ x \in r[i+1].lines
      BY <1>1, <3>1
    <3> QED BY <3>2 DEF LinesIn
  <2>3. ASSUME x \in Head(r).lines PROVE x \in LinesIn(r)
    <3>1. 1 \in DOMAIN r /\ x \in r[1].lines
      BY <1>1, <2>3
    <3> QED BY <3>1 DEF LinesIn
  <2> QED BY <2>1, <2>2, <2>3
<1> QED BY <1>2

\* A line joins the channel.
LEMMA QueuedAppend ==
    ASSUME NEW q \in Seq(Lines), NEW e \in Lines
    PROVE  Queued(Append(q, e)) = Queued(q) \cup {e}
<1>1. /\ DOMAIN q = 1..Len(q) /\ Len(q) \in Nat
      /\ DOMAIN Append(q, e) = 1..Len(q)+1
      /\ \A i \in 1..Len(q) : Append(q, e)[i] = q[i]
      /\ Append(q, e)[Len(q)+1] = e
  BY LenProperties, AppendProperties
<1>2. \A x \in Queued(Append(q, e)) : x \in Queued(q) \cup {e}
  <2> TAKE x \in Queued(Append(q, e))
  <2>1. PICK i \in 1..Len(q)+1 : x = Append(q, e)[i]
    BY <1>1 DEF Queued
  <2>2. CASE i \in 1..Len(q)
    BY <1>1, <2>1, <2>2 DEF Queued
  <2>3. CASE i = Len(q)+1
    BY <1>1, <2>1, <2>3
  <2> QED BY <1>1, <2>2, <2>3
<1>3. \A x \in Queued(q) : x \in Queued(Append(q, e))
  BY <1>1 DEF Queued
<1>4. e \in Queued(Append(q, e))
  BY <1>1 DEF Queued
<1> QED BY <1>2, <1>3, <1>4

\* A line leaves the channel.
LEMMA QueuedTail ==
    ASSUME NEW q \in Seq(Lines), q # <<>>
    PROVE  Queued(q) = {Head(q)} \cup Queued(Tail(q))
<1>1. /\ Len(q) \in Nat \ {0} /\ DOMAIN q = 1..Len(q)
      /\ DOMAIN Tail(q) = 1..Len(q)-1
      /\ \A i \in 1..Len(q)-1 : Tail(q)[i] = q[i+1]
      /\ Head(q) = q[1]
  BY LenProperties, HeadTailProperties, EmptySeq
<1>2. \A x \in Queued(q) : x \in {Head(q)} \cup Queued(Tail(q))
  <2> TAKE x \in Queued(q)
  <2>1. PICK i \in 1..Len(q) : x = q[i]
    BY <1>1 DEF Queued
  <2>2. CASE i = 1
    BY <1>1, <2>1, <2>2
  <2>3. CASE i # 1
    <3>1. i - 1 \in DOMAIN Tail(q) /\ Tail(q)[i-1] = q[i]
      BY <1>1, <2>3
    <3> QED BY <2>1, <3>1 DEF Queued
  <2> QED BY <2>2, <2>3
<1>3. \A x \in Queued(Tail(q)) : x \in Queued(q)
  <2> TAKE x \in Queued(Tail(q))
  <2>1. PICK i \in 1..Len(q)-1 : x = Tail(q)[i]
    BY <1>1 DEF Queued
  <2>2. i+1 \in DOMAIN q /\ x = q[i+1]
    BY <1>1, <2>1
  <2> QED BY <2>2 DEF Queued
<1>4. Head(q) \in Queued(q)
  BY <1>1 DEF Queued
<1> QED BY <1>2, <1>3, <1>4

-----------------------------------------------------------------------------
(* What each movement of lines does to their order.                         *)

\* A line newer than all others may join the channel.
LEMMA OrderEnqueue ==
    ASSUME NEW d, NEW r, NEW c, NEW t, NEW q \in Seq(Lines), NEW e \in Lines,
           InOrder(d, r, c, t, q),
           Before(d \cup LinesIn(r) \cup c \cup t \cup Queued(q), {e})
    PROVE  InOrder(d, r, c, t, Append(q, e))
<1>1. Queued(Append(q, e)) = Queued(q) \cup {e}
  BY QueuedAppend
<1>2. \A i, j \in DOMAIN Append(q, e) : i < j => Append(q, e)[i] < Append(q, e)[j]
  <2>1. /\ DOMAIN q = 1..Len(q) /\ Len(q) \in Nat
        /\ DOMAIN Append(q, e) = 1..Len(q)+1
        /\ \A i \in 1..Len(q) : Append(q, e)[i] = q[i]
        /\ Append(q, e)[Len(q)+1] = e
    BY LenProperties, AppendProperties
  <2>2. \A i \in 1..Len(q) : q[i] < e
    BY <2>1 DEF Before, Queued
  <2> QED
    BY <2>1, <2>2 DEF InOrder
<1> QED
  BY <1>1, <1>2 DEF InOrder, Before

\* The head of the channel may go to an empty hand.
LEMMA OrderReceive ==
    ASSUME NEW d, NEW r, NEW c, NEW q \in Seq(Lines), q # <<>>,
           InOrder(d, r, c, {}, q)
    PROVE  InOrder(d, r, c, {Head(q)}, Tail(q)) /\ InOrder(d, r, c, {}, Tail(q))
<1>1. Queued(q) = {Head(q)} \cup Queued(Tail(q))
  BY QueuedTail
<1>2. /\ Len(q) \in Nat \ {0} /\ DOMAIN q = 1..Len(q)
      /\ DOMAIN Tail(q) = 1..Len(q)-1
      /\ \A i \in 1..Len(q)-1 : Tail(q)[i] = q[i+1]
      /\ Head(q) = q[1]
  BY LenProperties, HeadTailProperties, EmptySeq
<1>3. \A i, j \in DOMAIN Tail(q) : i < j => Tail(q)[i] < Tail(q)[j]
  <2> SUFFICES ASSUME NEW i \in 1..Len(q)-1, NEW j \in 1..Len(q)-1, i < j
               PROVE  Tail(q)[i] < Tail(q)[j]
    BY <1>2
  <2>1. i+1 \in DOMAIN q /\ j+1 \in DOMAIN q /\ i+1 < j+1
    BY <1>2
  <2>2. q[i+1] < q[j+1]
    BY <2>1 DEF InOrder
  <2> QED BY <1>2, <2>2
<1>4. Before({Head(q)}, Queued(Tail(q)))
  <2> SUFFICES ASSUME NEW i \in 1..Len(q)-1 PROVE Head(q) < Tail(q)[i]
    BY <1>2 DEF Before, Queued
  <2>1. 1 \in DOMAIN q /\ i+1 \in DOMAIN q /\ 1 < i+1
    BY <1>2
  <2>2. q[1] < q[i+1]
    BY <2>1 DEF InOrder
  <2> QED BY <1>2, <2>2
<1> QED
  BY <1>1, <1>3, <1>4 DEF InOrder, Before

\* The line in hand may be lost.
LEMMA OrderDropHand ==
    ASSUME NEW d, NEW r, NEW c, NEW t, NEW q, InOrder(d, r, c, t, q)
    PROVE  InOrder(d, r, c, {}, q)
BY DEF InOrder, Before

\* The line in hand may join the accumulating batch.
LEMMA OrderAdmit ==
    ASSUME NEW d, NEW r, NEW c, NEW t, NEW q, InOrder(d, r, c, t, q)
    PROVE  InOrder(d, r, c \cup t, {}, q)
BY DEF InOrder, Before

\* The accumulating batch may join the retry queue.
LEMMA OrderCut ==
    ASSUME NEW d, NEW r \in Seq(Batches), NEW c \in SUBSET Lines, NEW t, NEW q,
           InOrder(d, r, c, t, q)
    PROVE  InOrder(d, Append(r, NewBatch(c)), {}, t, q)
<1>1. NewBatch(c) \in Batches /\ NewBatch(c).lines = c
  BY LinesFinite DEF NewBatch, Batches
<1> DEFINE a == Append(r, NewBatch(c))
<1>2. LinesIn(a) = LinesIn(r) \cup c
  BY <1>1, LinesInAppend
<1>3. \A i, j \in DOMAIN a : i < j => Before(a[i].lines, a[j].lines)
  <2>1. /\ DOMAIN r = 1..Len(r) /\ Len(r) \in Nat
        /\ DOMAIN a = 1..Len(r)+1
        /\ \A i \in 1..Len(r) : a[i] = r[i]
        /\ a[Len(r)+1].lines = c
    BY <1>1, LenProperties, AppendProperties
  <2>2. \A i \in 1..Len(r) : Before(r[i].lines, c)
    BY <2>1 DEF InOrder, Before, LinesIn
  <2> SUFFICES ASSUME NEW i \in 1..Len(r)+1, NEW j \in 1..Len(r)+1, i < j
               PROVE  Before(a[i].lines, a[j].lines)
    BY <2>1
  <2>3. i \in 1..Len(r) /\ a[i] = r[i]
    BY <2>1
  <2>4. CASE j \in 1..Len(r)
    BY <2>1, <2>3, <2>4 DEF InOrder
  <2>5. CASE j = Len(r)+1
    BY <2>1, <2>2, <2>3, <2>5
  <2> QED BY <2>1, <2>4, <2>5
<1> QED
  BY <1>2, <1>3 DEF InOrder, Before

\* Without its head the queue stays in order, and the head may join what is
\* done.
LEMMA OrderPop ==
    ASSUME NEW d, NEW r \in Seq(Batches), r # <<>>, NEW c, NEW t, NEW q,
           InOrder(d, r, c, t, q)
    PROVE  /\ InOrder(d, Tail(r), c, t, q)
           /\ InOrder(d \cup Head(r).lines, Tail(r), c, t, q)
<1>1. LinesIn(r) = Head(r).lines \cup LinesIn(Tail(r))
  BY LinesInTail
<1>2. /\ Len(r) \in Nat \ {0} /\ DOMAIN r = 1..Len(r)
      /\ DOMAIN Tail(r) = 1..Len(r)-1
      /\ \A i \in 1..Len(r)-1 : Tail(r)[i] = r[i+1]
      /\ Head(r) = r[1]
  BY LenProperties, HeadTailProperties, EmptySeq
<1>3. \A i, j \in DOMAIN Tail(r) : i < j => Before(Tail(r)[i].lines, Tail(r)[j].lines)
  <2> SUFFICES ASSUME NEW i \in 1..Len(r)-1, NEW j \in 1..Len(r)-1, i < j
               PROVE  Before(Tail(r)[i].lines, Tail(r)[j].lines)
    BY <1>2
  <2>1. i+1 \in DOMAIN r /\ j+1 \in DOMAIN r /\ i+1 < j+1
    BY <1>2
  <2>2. Before(r[i+1].lines, r[j+1].lines)
    BY <2>1 DEF InOrder
  <2> QED BY <1>2, <2>2
<1>4. Before(Head(r).lines, LinesIn(Tail(r)))
  <2> SUFFICES ASSUME NEW i \in 1..Len(r)-1 PROVE Before(Head(r).lines, Tail(r)[i].lines)
    BY <1>2 DEF Before, LinesIn
  <2>1. 1 \in DOMAIN r /\ i+1 \in DOMAIN r /\ 1 < i+1
    BY <1>2
  <2>2. Before(r[1].lines, r[i+1].lines)
    BY <2>1 DEF InOrder
  <2> QED BY <1>2, <2>2
<1> QED
  BY <1>1, <1>3, <1>4 DEF InOrder, Before

\* Everything held may be lost at once.
LEMMA OrderClear ==
    ASSUME NEW d, NEW r, NEW c, NEW t, NEW q, InOrder(d, r, c, t, q)
    PROVE  InOrder(d, <<>>, {}, t, q)
<1>1. LinesIn(<<>>) = {} /\ DOMAIN <<>> = {}
  BY DEF LinesIn
<1> QED
  BY <1>1 DEF InOrder, Before

-----------------------------------------------------------------------------
(* Every step moves lines and counts them in one of fourteen ways.  The     *)
(* invariants about lines are proved over these and not over the actions.   *)

Counted(n) == dropped' + reported' = (dropped + reported) + n

Still == UNCHANGED <<offered, discarded, delivered>>

Enqueued ==
    /\ offered < MaxOffers
    /\ Len(events) < QueueSize
    /\ offered' = offered + 1
    /\ events' = Append(events, offered + 1)
    /\ UNCHANGED <<hand, current, retries, outstanding, discarded, delivered>>
    /\ Counted(0)

Rejected ==
    /\ offered' = offered + 1
    /\ UNCHANGED <<events, hand, current, retries, outstanding, discarded, delivered>>
    /\ Counted(1)

Received ==
    /\ events # <<>>
    /\ hand = 0
    /\ hand' = Head(events)
    /\ events' = Tail(events)
    /\ UNCHANGED <<current, retries, outstanding>>
    /\ Still
    /\ Counted(0)

Refused ==
    /\ hand # 0
    /\ hand' = 0
    /\ UNCHANGED <<events, current, retries, outstanding>>
    /\ Still
    /\ Counted(1)

Joined ==
    /\ ~OverBudget
    /\ hand # 0
    /\ hand' = 0
    /\ outstanding' = outstanding + 1
    /\ \/ current' = current \cup {hand} /\ retries' = retries
       \/ current' = {} /\ retries' = Append(retries, NewBatch(current \cup {hand}))
    /\ UNCHANGED events
    /\ Still
    /\ Counted(0)

WasCut ==
    /\ current' = {}
    /\ retries' = Append(retries, NewBatch(current))
    /\ UNCHANGED <<events, hand, outstanding>>
    /\ Still
    /\ Counted(0)

HeadLost ==
    /\ retries # <<>>
    /\ PopHead
    /\ UNCHANGED <<events, hand, current>>
    /\ Still
    /\ Counted(Head(retries).events)

HeadDelivered ==
    /\ retries # <<>>
    /\ PopHead
    /\ delivered' = delivered \cup Head(retries).lines
    /\ UNCHANGED <<events, hand, current, offered, discarded>>
    /\ Counted(0)

HeadCharged ==
    /\ Delivering
    /\ retries' = Charged
    /\ UNCHANGED <<events, hand, current, outstanding>>
    /\ Still
    /\ Counted(0)

AllLost ==
    /\ retries' = <<>>
    /\ current' = {}
    /\ outstanding' = 0
    /\ UNCHANGED <<events, hand>>
    /\ Still
    /\ Counted(outstanding)

DiscardedOne ==
    /\ events # <<>>
    /\ events' = Tail(events)
    /\ discarded' = discarded + 1
    /\ UNCHANGED <<hand, current, retries, outstanding, offered, delivered>>
    /\ Counted(0)

DiscardsCounted ==
    /\ discarded' = 0
    /\ UNCHANGED <<events, hand, current, retries, outstanding, offered, delivered>>
    /\ Counted(discarded)

Unmoved ==
    /\ UNCHANGED <<events, hand, current, retries, outstanding>>
    /\ Still
    /\ Counted(0)

Effect ==
    \/ Enqueued \/ Rejected \/ Received \/ Refused \/ Joined \/ WasCut
    \/ HeadLost \/ HeadDelivered \/ HeadCharged \/ AllLost
    \/ DiscardedOne \/ DiscardsCounted \/ Unmoved

\* The counter is summarised or not, but never forgets.
LEMMA DropEffects ==
    ASSUME DropTypeOK
    PROVE  /\ \A n \in Nat : RecordMany(n) => Counted(n) /\ DropTypeOK'
           /\ \A n \in Nat : RecordAndReportFinal(n) => Counted(n) /\ DropTypeOK'
           /\ Report => Counted(0) /\ DropTypeOK'
           /\ LogWindowPasses => Counted(0) /\ DropTypeOK'
           /\ UNCHANGED dropVars => Counted(0) /\ DropTypeOK'
BY DEF DropTypeOK, RecordMany, RecordAndReportFinal, Report, LogWindowPasses, dropVars,
       Counted, Recorded

\* cut() moves the batch, or finds nothing to move.
LEMMA CutEffect ==
    ASSUME Cut(current)
    PROVE  \/ current' = {} /\ retries' = Append(retries, NewBatch(current))
           \/ current' = current /\ retries' = retries
BY DEF Cut

\* Every step has one of these effects.
LEMMA Effects ==
    TypeOK /\ ControlOK /\ [Next]_vars => Effect /\ DropTypeOK'
<1> SUFFICES ASSUME TypeOK, ControlOK, [Next]_vars
             PROVE  Effect /\ DropTypeOK'
  OBVIOUS
<1>a. DropTypeOK /\ outstanding \in Nat /\ discarded \in Nat
  BY DEF TypeOK, ShapeOK
<1>b. 1 \in Nat
  OBVIOUS
<1>1. CASE TryEnqueue
  <2>1. CASE Accepting
    BY <1>1, <2>1, <1>a, DropEffects
    DEF TryEnqueue, Accepting, Enqueued, Effect, workerVars, batchVars, queueVars, suspendVars
  <2>2. CASE ~Accepting
    BY <1>1, <2>2, <1>a, <1>b, DropEffects
    DEF TryEnqueue, Rejected, Effect, workerVars, batchVars, queueVars, suspendVars
  <2> QED BY <2>1, <2>2
<1>2. ASSUME NEW f \in Flushes, FlushBegin(f) PROVE Effect /\ DropTypeOK'
  BY <1>2, <1>a, DropEffects
  DEF FlushBegin, Unmoved, Still, Effect, workerVars, batchVars, queueVars, suspendVars
<1>3. CASE ShutdownBegin \/ Detach \/ DropClient
  BY <1>3, <1>a, DropEffects
  DEF ShutdownBegin, Detach, DropClient, Unmoved, Still, Effect, workerVars, batchVars,
      queueVars, suspendVars
<1>4. CASE RecvControl \/ Disconnected
  BY <1>4, <1>a, DropEffects
  DEF RecvControl, Disconnected, Unmoved, Still, Effect, clientVars, batchVars, queueVars,
      suspendVars
<1>5. CASE RecvEvent
  BY <1>5, <1>a, DropEffects
  DEF RecvEvent, Received, Still, Effect, ControlOK, clientVars, batchVars, queueVars,
      suspendVars
<1>6. CASE Wake
  <2>1. UNCHANGED <<events, hand, outstanding>> /\ Still /\ UNCHANGED dropVars
    BY <1>6 DEF Wake, Still, clientVars, suspendVars
  <2>2. CASE deadline = "due"
    BY <1>6, <2>1, <2>2, <1>a, CutEffect, DropEffects DEF Wake, WasCut, Unmoved, Effect
  <2>3. CASE deadline # "due"
    BY <1>6, <2>1, <2>3, <1>a, DropEffects DEF Wake, Unmoved, Effect, batchVars
  <2> QED BY <2>2, <2>3
<1>7. ASSUME retries # <<>> PROVE Head(retries).events \in Nat
  <2>1. Head(retries) \in Batches
    BY <1>7, HeadTailProperties DEF TypeOK, ShapeOK
  <2> QED BY <2>1 DEF Batches
<1>8. CASE Shed
  BY <1>7, <1>8, <1>a, DropEffects
  DEF Shed, HeadLost, Still, Effect, clientVars, batchVars, suspendVars
<1>9. CASE Refuse
  BY <1>9, <1>a, <1>b, DropEffects
  DEF Refuse, Refused, Still, Effect, ControlOK, batchVars, queueVars, suspendVars
<1>10. CASE Admit
  <2> DEFINE lines == current \cup {hand}
             bytes == current_bytes + Size[hand]
  <2>1. \/ current' = lines /\ retries' = retries
        \/ current' = {} /\ retries' = Append(retries, NewBatch(lines))
    <3>1. CASE Full(lines, bytes)
      BY <1>10, <3>1 DEF Admit, Cut
    <3>2. CASE ~Full(lines, bytes)
      BY <1>10, <3>2 DEF Admit
    <3> QED BY <3>1, <3>2
  <2>2. /\ hand # 0 /\ hand' = 0 /\ ~OverBudget
        /\ outstanding' = outstanding + 1
        /\ UNCHANGED <<events, offered, discarded, delivered, dropVars>>
    BY <1>10 DEF Admit, ControlOK, suspendVars
  <2> QED
    BY <2>1, <2>2, <1>a, DropEffects DEF Joined, Still, Effect
<1>11. CASE DeliverSuccess
  BY <1>11, <1>a, DropEffects
  DEF DeliverSuccess, Delivering, HeadDelivered, Effect, clientVars, batchVars, suspendVars
<1>12. CASE DeliverDrop
  BY <1>7, <1>12, <1>a, DropEffects
  DEF DeliverDrop, Delivering, HeadLost, Still, Effect, clientVars, batchVars, suspendVars
<1>13. ASSUME Delivering, Burn, Still, UNCHANGED <<events, hand, current>>
       PROVE  Effect /\ DropTypeOK'
  <2>1. CASE AgesOut
    BY <1>7, <1>13, <2>1, <1>a, DropEffects DEF Burn, Delivering, HeadLost, Effect
  <2>2. CASE ~AgesOut
    BY <1>13, <2>2, <1>a, DropEffects DEF Burn, HeadCharged, Effect
  <2> QED BY <2>1, <2>2
<1>14. CASE DeliverRetry
  BY <1>13, <1>14 DEF DeliverRetry, Still, batchVars, suspendVars
<1>15. ASSUME NEW burn \in BOOLEAN, DeliverThrottle(burn) PROVE Effect /\ DropTypeOK'
  <2>1. CASE burn
    BY <1>13, <1>15, <2>1 DEF DeliverThrottle, Still, batchVars, suspendVars
  <2>2. CASE ~burn
    BY <1>15, <2>2, <1>a, DropEffects
    DEF DeliverThrottle, Unmoved, Still, Effect, batchVars, queueVars, suspendVars
  <2> QED BY <2>1, <2>2
<1>16. CASE DeliverSuspend
  BY <1>16, <1>a, DropEffects DEF DeliverSuspend, AllLost, Still, Effect, clientVars
<1>17. CASE SendDone
  BY <1>17, <1>a, DropEffects
  DEF SendDone, Unmoved, Still, Effect, batchVars, queueVars, suspendVars
<1>18. CASE SuspendedRecv \/ SuspensionOver \/ SuspendedDisconnected
  BY <1>18, <1>a, DropEffects
  DEF SuspendedRecv, SuspensionOver, SuspendedDisconnected, Unmoved, Still, Effect,
      clientVars, batchVars, queueVars, suspendVars
<1>19. CASE DiscardOne
  BY <1>19, <1>a, DropEffects
  DEF DiscardOne, DiscardedOne, Effect, clientVars, batchVars, queueVars
<1>20. CASE DiscardDone
  BY <1>20, <1>a, DropEffects
  DEF DiscardDone, DiscardedForFlush, DiscardedForShutdown, DiscardedForResume,
      DiscardsCounted, Effect, batchVars, queueVars
<1>21. CASE DrainDone
  BY <1>21, <1>a, CutEffect, DropEffects
  DEF DrainDone, WasCut, Unmoved, Still, Effect, clientVars, suspendVars
<1>22. CASE AnswerFlush
  BY <1>22, <1>a, DropEffects
  DEF AnswerFlush, Unmoved, Still, Effect, batchVars, queueVars, suspendVars
<1>23. CASE AnswerShutdown
  BY <1>23, <1>a, DropEffects DEF AnswerShutdown, AllLost, Still, Effect, suspendVars
<1>24. CASE DeadlinePasses \/ BackoffPasses \/ SuspensionPasses
  BY <1>24, <1>a, DropEffects
  DEF DeadlinePasses, BackoffPasses, SuspensionPasses, Unmoved, Still, Effect, clientVars,
      batchVars, queueVars, suspendVars
<1>25. CASE MinutePasses
  BY <1>25, <1>a, DropEffects
  DEF MinutePasses, Unmoved, Still, Effect, clientVars, workerVars, batchVars, queueVars,
      suspendVars
<1>26. CASE UNCHANGED vars
  BY <1>26, <1>a, DropEffects
  DEF vars, Unmoved, Still, Effect, clientVars, batchVars, queueVars, suspendVars
<1> QED
  BY <1>1, <1>2, <1>3, <1>4, <1>5, <1>6, <1>8, <1>9, <1>10, <1>11, <1>12, <1>14, <1>15,
     <1>16, <1>17, <1>18, <1>19, <1>20, <1>21, <1>22, <1>23, <1>24, <1>25, <1>26
  DEF Next, Callers, Worker, Clock, Deliver

-----------------------------------------------------------------------------
(* Order.                                                                   *)

\* No line is known that was not offered.
Known == \A e \in Pending \cup delivered : e <= offered

\* Batches hold lines,
LEMMA LinesInType ==
    ASSUME NEW r \in Seq(Batches)
    PROVE  LinesIn(r) \in SUBSET Lines
<1> SUFFICES ASSUME NEW i \in DOMAIN r, NEW e \in r[i].lines PROVE e \in Lines
  BY DEF LinesIn
<1>1. r[i] \in Batches
  BY LenProperties, ElementOfSeq
<1> QED BY <1>1 DEF Batches

\* and so does the channel,
LEMMA QueuedType ==
    ASSUME NEW q \in Seq(Lines)
    PROVE  Queued(q) \in SUBSET Lines
<1> SUFFICES ASSUME NEW i \in DOMAIN q PROVE q[i] \in Lines
  BY DEF Queued
<1> QED BY LenProperties, ElementOfSeq

\* and so does whatever is held, pending or delivered.
LEMMA AllAreLines ==
    ASSUME ShapeOK
    PROVE  /\ HeldLines \in SUBSET Lines
           /\ Pending \in SUBSET Lines
           /\ delivered \in SUBSET Lines
<1>1. LinesIn(retries) \in SUBSET Lines /\ Queued(events) \in SUBSET Lines
  BY LinesInType, QueuedType DEF ShapeOK
<1>2. InHand \in SUBSET Lines
  BY DEF InHand, ShapeOK
<1> QED
  BY <1>1, <1>2 DEF Pending, HeldLines, ShapeOK

\* A charged attempt changes no lines.
LEMMA ChargedLines ==
    ASSUME HeadCharged, retries \in Seq(Batches)
    PROVE  LinesIn(retries') = LinesIn(retries)
BY HeadShape DEF HeadCharged, LinesIn

\* Every effect keeps the order.
LEMMA OrderStep ==
    ASSUME TypeOK, ControlOK, Known, Fifo, Effect
    PROVE  Known' /\ Fifo'
<1>1. /\ retries \in Seq(Batches) /\ events \in Seq(Lines) /\ current \in SUBSET Lines
      /\ hand \in Lines \cup {0} /\ offered \in 0..MaxOffers /\ delivered \in SUBSET Lines
      /\ MaxOffers \in Nat
  BY LimitsAssumption DEF TypeOK, ShapeOK
<1>2. InOrder(delivered, retries, current, InHand, events)
  BY DEF Fifo
<1>3. 0 \notin Lines
  BY DEF Lines
<1>4. CASE Enqueued
  <2>1. offered + 1 \in Lines
    BY <1>1, <1>4 DEF Enqueued, Lines
  <2>2. InHand' = InHand
    BY <1>4 DEF Enqueued, InHand
  <2>3. Before(delivered \cup LinesIn(retries) \cup current \cup InHand \cup Queued(events),
               {offered + 1})
    BY <1>1 DEF Known, Pending, HeldLines, Before, Lines, InHand
  <2>4. Queued(events') = Queued(events) \cup {offered + 1}
    BY <1>1, <1>4, <2>1, QueuedAppend DEF Enqueued
  <2>5. InOrder(delivered, retries, current, InHand, Append(events, offered + 1))
    BY <1>1, <1>2, <2>1, <2>3, OrderEnqueue
  <2>6. Fifo'
    BY <1>4, <2>2, <2>5 DEF Fifo, Enqueued
  <2>7. \A e \in Pending' \cup delivered' : e \in Pending \cup delivered \/ e = offered + 1
    BY <1>4, <2>2, <2>4 DEF Enqueued, Pending, HeldLines
  <2>8. Pending \cup delivered \subseteq Int
    BY AllAreLines DEF TypeOK, Lines
  <2>9. Known'
    BY <1>1, <1>4, <2>7, <2>8 DEF Known, Enqueued
  <2> QED BY <2>6, <2>9
<1>5. CASE Rejected
  <2>1. Pending' = Pending /\ InHand' = InHand
    BY <1>5 DEF Rejected, Pending, HeldLines, InHand
  <2>2. Pending \cup delivered \subseteq Int
    BY AllAreLines DEF TypeOK, Lines
  <2> QED BY <1>1, <1>5, <2>1, <2>2 DEF Rejected, Known, Fifo
\* From here on nothing new is offered: it is enough that no line appears.
<1> DEFINE NoneAppears == Pending' \cup delivered' \subseteq Pending \cup delivered
<1>6. ASSUME offered' = offered, NoneAppears PROVE Known'
  BY <1>6 DEF Known
<1>7. CASE Received
  <2>1. InHand = {} /\ InHand' = {Head(events)} /\ Head(events) \in Lines
    BY <1>1, <1>3, <1>7, HeadTailProperties DEF Received, InHand
  <2>2. Queued(events) = {Head(events)} \cup Queued(Tail(events))
    BY <1>1, <1>7, QueuedTail DEF Received
  <2>3. NoneAppears
    BY <1>7, <2>1, <2>2 DEF Received, Still, Pending, HeldLines
  <2>4. Fifo'
    BY <1>1, <1>2, <1>7, <2>1, OrderReceive DEF Received, Still, Fifo
  <2> QED BY <1>6, <1>7, <2>3, <2>4 DEF Received, Still
<1>8. CASE Refused
  <2>1. InHand' = {}
    BY <1>8 DEF Refused, InHand
  <2>2. NoneAppears
    BY <1>8, <2>1 DEF Refused, Still, Pending, HeldLines
  <2>3. Fifo'
    BY <1>2, <1>8, <2>1, OrderDropHand DEF Refused, Still, Fifo
  <2> QED BY <1>6, <1>8, <2>2, <2>3 DEF Refused, Still
<1>9. CASE Joined
  <2> DEFINE lines == current \cup {hand}
  <2>1. InHand = {hand} /\ InHand' = {} /\ lines \in SUBSET Lines
    BY <1>1, <1>9 DEF Joined, InHand
  <2>2. InOrder(delivered, retries, lines, {}, events)
    BY <1>2, <2>1, OrderAdmit
  <2>3. CASE current' = lines /\ retries' = retries
    <3>1. NoneAppears
      BY <1>9, <2>1, <2>3 DEF Joined, Still, Pending, HeldLines
    <3> QED BY <1>6, <1>9, <2>1, <2>2, <2>3, <3>1 DEF Joined, Still, Fifo
  <2>4. CASE current' = {} /\ retries' = Append(retries, NewBatch(lines))
    <3>1. NewBatch(lines) \in Batches /\ NewBatch(lines).lines = lines
      BY <2>1, LinesFinite DEF NewBatch, Batches
    <3>2. LinesIn(retries') = LinesIn(retries) \cup lines
      BY <1>1, <2>4, <3>1, LinesInAppend
    <3>3. NoneAppears
      BY <1>9, <2>1, <2>4, <3>2 DEF Joined, Still, Pending, HeldLines
    <3>4. InOrder(delivered, Append(retries, NewBatch(lines)), {}, {}, events)
      BY <1>1, <2>1, <2>2, OrderCut
    <3> QED BY <1>6, <1>9, <2>1, <2>4, <3>3, <3>4 DEF Joined, Still, Fifo
  <2> QED BY <1>9, <2>3, <2>4 DEF Joined
<1>10. CASE WasCut
  <2>1. InHand' = InHand
    BY <1>10 DEF WasCut, InHand
  <2>2. NewBatch(current) \in Batches /\ NewBatch(current).lines = current
    BY <1>1, LinesFinite DEF NewBatch, Batches
  <2>3. LinesIn(retries') = LinesIn(retries) \cup current
    BY <1>1, <1>10, <2>2, LinesInAppend DEF WasCut
  <2>4. NoneAppears
    BY <1>10, <2>1, <2>3 DEF WasCut, Still, Pending, HeldLines
  <2>5. InOrder(delivered, Append(retries, NewBatch(current)), {}, InHand, events)
    BY <1>1, <1>2, OrderCut
  <2> QED BY <1>6, <1>10, <2>1, <2>4, <2>5 DEF WasCut, Still, Fifo
<1>11. ASSUME retries # <<>>, PopHead
       PROVE  LinesIn(retries) = Head(retries).lines \cup LinesIn(retries')
  BY <1>1, <1>11, LinesInTail DEF PopHead
<1>12. CASE HeadLost
  <2>1. InHand' = InHand
    BY <1>12 DEF HeadLost, InHand
  <2>2. NoneAppears
    BY <1>11, <1>12, <2>1 DEF HeadLost, Still, Pending, HeldLines
  <2>3. Fifo'
    BY <1>1, <1>2, <1>12, <2>1, OrderPop DEF HeadLost, PopHead, Still, Fifo
  <2> QED BY <1>6, <1>12, <2>2, <2>3 DEF HeadLost, Still
<1>13. CASE HeadDelivered
  <2>1. InHand' = InHand
    BY <1>13 DEF HeadDelivered, InHand
  <2>2. NoneAppears
    BY <1>11, <1>13, <2>1 DEF HeadDelivered, Pending, HeldLines
  <2>3. Fifo'
    BY <1>1, <1>2, <1>13, <2>1, OrderPop DEF HeadDelivered, PopHead, Fifo
  <2> QED BY <1>6, <1>13, <2>2, <2>3 DEF HeadDelivered
<1>14. CASE HeadCharged
  <2>1. InHand' = InHand
    BY <1>14 DEF HeadCharged, InHand
  <2>2. LinesIn(retries') = LinesIn(retries)
    BY <1>1, <1>14, ChargedLines
  <2>3. NoneAppears
    BY <1>14, <2>1, <2>2 DEF HeadCharged, Still, Pending, HeldLines
  <2>4. \A i, j \in DOMAIN retries' : i < j => Before(retries'[i].lines, retries'[j].lines)
    BY <1>1, <1>2, <1>14, HeadShape DEF HeadCharged, InOrder
  <2>5. Fifo'
    BY <1>2, <1>14, <2>1, <2>2, <2>4 DEF HeadCharged, Still, Fifo, InOrder
  <2> QED BY <1>6, <1>14, <2>3, <2>5 DEF HeadCharged, Still
<1>15. CASE AllLost
  <2>1. InHand' = InHand
    BY <1>15 DEF AllLost, InHand
  <2>2. LinesIn(<<>>) = {}
    BY DEF LinesIn
  <2>3. NoneAppears
    BY <1>15, <2>1, <2>2 DEF AllLost, Still, Pending, HeldLines
  <2>4. InOrder(delivered, <<>>, {}, InHand, events)
    BY <1>2, OrderClear
  <2> QED BY <1>6, <1>15, <2>1, <2>3, <2>4 DEF AllLost, Still, Fifo
<1>16. CASE DiscardedOne
  <2>1. InHand' = InHand
    BY <1>16 DEF DiscardedOne, InHand
  <2>2. Queued(events) = {Head(events)} \cup Queued(Tail(events))
    BY <1>1, <1>16, QueuedTail DEF DiscardedOne
  <2>3. NoneAppears
    BY <1>16, <2>1, <2>2 DEF DiscardedOne, Pending, HeldLines
  <2>4. InOrder(delivered, retries, current, InHand, Tail(events))
    <3>1. \A i, j \in DOMAIN Tail(events) : i < j => Tail(events)[i] < Tail(events)[j]
      <4>1. InOrder(delivered, retries, current, {}, Tail(events))
        BY <1>1, <1>2, <1>16, OrderDropHand, OrderReceive DEF DiscardedOne
      <4> QED BY <4>1 DEF InOrder
    <3> QED BY <1>2, <2>2, <3>1 DEF InOrder, Before
  <2> QED BY <1>6, <1>16, <2>1, <2>3, <2>4 DEF DiscardedOne, Fifo
<1>17. CASE DiscardsCounted \/ Unmoved
  <2>1. Pending' = Pending /\ InHand' = InHand
    BY <1>17 DEF DiscardsCounted, Unmoved, Pending, HeldLines, InHand
  <2> QED BY <1>6, <1>17, <2>1 DEF DiscardsCounted, Unmoved, Still, Fifo
<1> QED
  BY <1>4, <1>5, <1>7, <1>8, <1>9, <1>10, <1>12, <1>13, <1>14, <1>15, <1>16, <1>17
  DEF Effect

-----------------------------------------------------------------------------
(* Counting.                                                                *)

\* Lines of one set before those of another count apart.
LEMMA DisjointCount ==
    ASSUME NEW S \in SUBSET Lines, NEW T \in SUBSET Lines, Before(S, T)
    PROVE  /\ Cardinality(S \cup T) = Cardinality(S) + Cardinality(T)
           /\ Cardinality(S) \in Nat
           /\ Cardinality(T) \in Nat
<1>1. S \cap T = {}
  BY DEF Before, Lines
<1>2. /\ IsFiniteSet(S) /\ Cardinality(S) \in Nat
      /\ IsFiniteSet(T) /\ Cardinality(T) \in Nat
  BY LinesFinite
<1> QED
  <2>1. Cardinality(S \cup T) = Cardinality(S) + Cardinality(T) - Cardinality(S \cap T)
    BY <1>2, FS_Union
  <2>2. Cardinality(S \cap T) = 0
    BY <1>1, FS_EmptySet
  <2> QED BY <1>2, <2>1, <2>2

\* Every effect keeps the counters in agreement.
LEMMA CountStep ==
    ASSUME TypeOK, ControlOK, ShapeOK', Fifo, CountersAgree, Effect
    PROVE  CountersAgree'
<1> DEFINE EventsCounted(r) ==
             \A i \in DOMAIN r : r[i].events = Cardinality(r[i].lines)
<1>1. /\ retries \in Seq(Batches) /\ events \in Seq(Lines) /\ current \in SUBSET Lines
      /\ hand \in Lines \cup {0} /\ outstanding \in Nat
      /\ HeldLines \in SUBSET Lines /\ LinesIn(retries) \in SUBSET Lines
      /\ InHand \in SUBSET Lines
  BY AllAreLines, LinesInType DEF TypeOK, ShapeOK, InHand
<1>2. outstanding = Cardinality(HeldLines) /\ EventsCounted(retries)
  BY DEF CountersAgree
<1>3. ASSUME NEW lines \in SUBSET Lines
      PROVE  /\ NewBatch(lines) \in Batches
             /\ NewBatch(lines).lines = lines
             /\ EventsCounted(Append(retries, NewBatch(lines)))
             /\ LinesIn(Append(retries, NewBatch(lines))) = LinesIn(retries) \cup lines
  <2>1. NewBatch(lines) \in Batches /\ NewBatch(lines).lines = lines
        /\ NewBatch(lines).events = Cardinality(lines)
    BY LinesFinite DEF NewBatch, Batches
  <2> DEFINE a == Append(retries, NewBatch(lines))
  <2>2. /\ DOMAIN retries = 1..Len(retries) /\ Len(retries) \in Nat
        /\ DOMAIN a = 1..Len(retries)+1
        /\ \A i \in 1..Len(retries) : a[i] = retries[i]
        /\ a[Len(retries)+1] = NewBatch(lines)
    BY <1>1, <2>1, LenProperties, AppendProperties
  <2>3. EventsCounted(a)
    <3> SUFFICES ASSUME NEW i \in 1..Len(retries)+1
                 PROVE  a[i].events = Cardinality(a[i].lines)
      BY <2>2
    <3>1. CASE i \in 1..Len(retries)
      BY <1>2, <2>2, <3>1
    <3>2. CASE i = Len(retries)+1
      BY <2>1, <2>2, <3>2
    <3> QED BY <2>2, <3>1, <3>2
  <2>4. LinesIn(a) = LinesIn(retries) \cup lines
    BY <1>1, <2>1, LinesInAppend
  <2> QED BY <2>1, <2>3, <2>4
<1>4. CASE UNCHANGED <<current, retries, outstanding>>
  BY <1>4 DEF CountersAgree, HeldLines
<1>5. CASE Joined
  <2> DEFINE lines == current \cup {hand}
  <2>1. InHand = {hand} /\ lines \in SUBSET Lines
    BY <1>1, <1>5 DEF Joined, InHand
  <2>2. HeldLines' = HeldLines \cup {hand} /\ EventsCounted(retries')
    <3>1. CASE current' = lines /\ retries' = retries
      BY <1>2, <3>1 DEF HeldLines
    <3>2. CASE current' = {} /\ retries' = Append(retries, NewBatch(lines))
      <4>1. LinesIn(retries') = LinesIn(retries) \cup lines /\ EventsCounted(retries')
        BY <1>3, <2>1, <3>2
      <4> QED BY <3>2, <4>1 DEF HeldLines
    <3> QED BY <1>5, <3>1, <3>2 DEF Joined
  <2>3. Before(HeldLines, {hand})
    BY <2>1 DEF Fifo, InOrder, Before, HeldLines
  <2>4. Cardinality(HeldLines \cup {hand}) = Cardinality(HeldLines) + 1
    <3>1. Cardinality({hand}) = 1
      BY FS_Singleton
    <3>2. {hand} \in SUBSET Lines
      BY <1>1, <2>1
    <3> QED BY <1>1, <2>3, <3>1, <3>2, DisjointCount
  <2> QED
    BY <1>2, <1>5, <2>2, <2>4 DEF Joined, CountersAgree
<1>6. CASE WasCut
  <2>1. HeldLines' = HeldLines /\ EventsCounted(retries')
    BY <1>1, <1>3, <1>6 DEF WasCut, HeldLines
  <2> QED
    BY <1>2, <1>6, <2>1 DEF WasCut, CountersAgree
<1>7. ASSUME retries # <<>>, PopHead, current' = current
      PROVE  CountersAgree'
  <2>1. /\ Len(retries) \in Nat \ {0} /\ DOMAIN retries = 1..Len(retries)
        /\ DOMAIN Tail(retries) = 1..Len(retries)-1
        /\ \A i \in 1..Len(retries)-1 : Tail(retries)[i] = retries[i+1]
        /\ Head(retries) = retries[1]
        /\ Head(retries) \in Batches
        /\ Tail(retries) \in Seq(Batches)
    BY <1>1, <1>7, LenProperties, HeadTailProperties, EmptySeq
  <2> DEFINE head == Head(retries).lines
             rest == LinesIn(Tail(retries)) \cup current
  <2>2. EventsCounted(Tail(retries))
    BY <1>2, <2>1
  <2>3. Head(retries).events = Cardinality(head)
    BY <1>2, <2>1
  <2>4. HeldLines = head \cup rest /\ HeldLines' = rest
    BY <1>1, <1>7, LinesInTail DEF PopHead, HeldLines
  <2>5. head \in SUBSET Lines /\ rest \in SUBSET Lines
    BY <1>1, <2>4
  <2>6. Before(head, rest)
    <3>1. InOrder(delivered \cup head, Tail(retries), current, InHand, events)
      BY <1>1, <1>7, OrderPop DEF Fifo
    <3> QED BY <3>1 DEF InOrder, Before
  <2>7. Cardinality(HeldLines) = Cardinality(head) + Cardinality(rest)
        /\ Cardinality(head) \in Nat /\ Cardinality(rest) \in Nat
    BY <2>4, <2>5, <2>6, DisjointCount
  <2>8. outstanding' = Cardinality(rest)
    BY <1>2, <1>7, <2>3, <2>7 DEF PopHead
  <2> QED
    BY <1>7, <2>2, <2>4, <2>8 DEF PopHead, CountersAgree
<1>8. CASE HeadLost \/ HeadDelivered
  BY <1>7, <1>8 DEF HeadLost, HeadDelivered
<1>9. CASE HeadCharged
  <2>1. HeldLines' = HeldLines
    BY <1>1, <1>9, ChargedLines DEF HeadCharged, HeldLines
  <2>2. EventsCounted(retries')
    BY <1>1, <1>2, <1>9, HeadShape DEF HeadCharged
  <2> QED
    BY <1>2, <1>9, <2>1, <2>2 DEF HeadCharged, CountersAgree
<1>10. CASE AllLost
  <2>1. HeldLines' = {} /\ DOMAIN retries' = {}
    BY <1>10 DEF AllLost, HeldLines, LinesIn
  <2> QED
    BY <1>10, <2>1, FS_EmptySet DEF AllLost, CountersAgree
<1> QED
  BY <1>4, <1>5, <1>6, <1>8, <1>9, <1>10
  DEF Effect, Enqueued, Rejected, Received, Refused, DiscardedOne, DiscardsCounted, Unmoved

\* The length of the channel after a send and a receive.
LEMMA LenAfter ==
    ASSUME NEW q \in Seq(Lines)
    PROVE  /\ Len(q) \in Nat
           /\ \A e \in Lines : Len(Append(q, e)) = Len(q) + 1
           /\ q # <<>> => Len(q) > 0 /\ Len(Tail(q)) = Len(q) - 1 /\ Head(q) \in Lines
BY LenProperties, AppendProperties, HeadTailProperties, EmptySeq

\* A held line is in one batch only, so what a batch adds to the delivered
\* lines, or to the drops, is what it takes away from the held ones.
LEMMA HeadCount ==
    ASSUME TypeOK, Fifo, CountersAgree, retries # <<>>
    PROVE  /\ Head(retries).events \in Nat
           /\ Cardinality(delivered \cup Head(retries).lines)
                = Cardinality(delivered) + Head(retries).events
           /\ Cardinality(delivered) \in Nat
<1>1. /\ retries \in Seq(Batches) /\ delivered \in SUBSET Lines
      /\ Head(retries) \in Batches /\ Head(retries) = retries[1] /\ 1 \in DOMAIN retries
  BY LenProperties, HeadTailProperties, EmptySeq DEF TypeOK, ShapeOK
<1>2. Head(retries).lines \in SUBSET Lines /\ Head(retries).events \in Nat
  BY <1>1 DEF Batches
<1>3. Before(delivered, Head(retries).lines)
  BY <1>1 DEF Fifo, InOrder, Before, LinesIn
<1>4. Head(retries).events = Cardinality(Head(retries).lines)
  BY <1>1 DEF CountersAgree
<1> QED
  BY <1>1, <1>2, <1>3, <1>4, DisjointCount

\* Every effect moves a line from one place, or one count, to another.
LEMMA ConserveStep ==
    ASSUME TypeOK, ControlOK, DropTypeOK', Fifo, CountersAgree, EveryLineCounted, Effect
    PROVE  EveryLineCounted'
<1> DEFINE Held(h) == IF h = 0 THEN 0 ELSE 1
           now == dropped + reported
           later == dropped' + reported'
<1>1. /\ events \in Seq(Lines) /\ hand \in Lines \cup {0} /\ 0 \notin Lines
      /\ offered \in Nat /\ outstanding \in Nat /\ discarded \in Nat
      /\ dropped \in Nat /\ reported \in Nat /\ dropped' \in Nat /\ reported' \in Nat
      /\ delivered \in SUBSET Lines /\ MaxOffers \in Nat
      /\ Cardinality(delivered) \in Nat
  <2>1. delivered \in SUBSET Lines /\ Cardinality(delivered) \in Nat
    BY LinesFinite DEF TypeOK, ShapeOK
  <2>2. /\ dropped \in Nat /\ reported \in Nat
        /\ dropped' \in Nat /\ reported' \in Nat
    BY DEF TypeOK, DropTypeOK
  <2>3. 0 \notin Lines /\ MaxOffers \in Nat /\ offered \in Nat
    BY LimitsAssumption DEF TypeOK, ShapeOK, Lines
  <2> QED BY <2>1, <2>2, <2>3 DEF TypeOK, ShapeOK
<1>2. offered = Len(events) + Held(hand) + outstanding + discarded
                + Cardinality(delivered) + now
  BY DEF EveryLineCounted, Recorded
<1>3. Len(events) \in Nat /\ now \in Nat
  <2>1. Len(events) \in Nat
    BY <1>1, LenAfter
  <2>2. now \in Nat
    BY <1>1
  <2> QED BY <2>1, <2>2
<1> SUFFICES offered' = Len(events') + Held(hand') + outstanding' + discarded'
                        + Cardinality(delivered') + later
  BY DEF EveryLineCounted, Recorded
<1>c. \A n : Counted(n) => later = now + n
  BY DEF Counted
<1>h. Held(hand) \in Nat
  OBVIOUS
<1> HIDE DEF now, later
\* What the six terms do when a line moves from one to another.
<1>d. \A n \in Int :
      LET was == Len(events) + Held(hand) + outstanding + discarded + Cardinality(delivered) + now
      IN  /\ was + 1 = (Len(events) + 1) + Held(hand) + outstanding + discarded
                        + Cardinality(delivered) + now
          /\ was + 1 = Len(events) + Held(hand) + outstanding + discarded
                        + Cardinality(delivered) + (now + 1)
          /\ was = Len(events) + Held(hand) + (outstanding - n) + discarded
                    + Cardinality(delivered) + (now + n)
          /\ was = Len(events) + Held(hand) + (outstanding - n) + discarded
                    + (Cardinality(delivered) + n) + now
          /\ was = (Len(events) - 1) + Held(hand) + outstanding + (discarded + 1)
                    + Cardinality(delivered) + now
  <2> HIDE DEF Held
  <2>2. Len(events) \in Int /\ now \in Int /\ Held(hand) \in Int
    BY <1>3, <1>h
  <2>3. outstanding \in Int /\ discarded \in Int /\ Cardinality(delivered) \in Int
    BY <1>1
  <2> DEFINE l == Len(events)
             c == Cardinality(delivered)
             h == Held(hand)
  <2>4. l \in Int /\ c \in Int /\ h \in Int
    BY <2>2, <2>3
  <2> HIDE DEF l, c, h
  <2>5. \A m \in Int :
           /\ (l + h + outstanding + discarded + c + now) + 1
                = (l + 1) + h + outstanding + discarded + c + now
           /\ (l + h + outstanding + discarded + c + now) + 1
                = l + h + outstanding + discarded + c + (now + 1)
           /\ l + h + outstanding + discarded + c + now
                = l + h + (outstanding - m) + discarded + c + (now + m)
           /\ l + h + outstanding + discarded + c + now
                = l + h + (outstanding - m) + discarded + (c + m) + now
           /\ l + h + outstanding + discarded + c + now
                = (l - 1) + h + outstanding + (discarded + 1) + c + now
    BY <2>2, <2>3, <2>4
  <2> QED BY <2>5 DEF l, c, h
<1>4. CASE Enqueued
  <2>1. offered + 1 \in Lines
    BY <1>1, <1>4 DEF Enqueued, Lines
  <2>2. Len(events') = Len(events) + 1
    BY <1>1, <1>4, <2>1, LenAfter DEF Enqueued
  <2>3. /\ offered' = offered + 1 /\ Held(hand') = Held(hand)
        /\ outstanding' = outstanding /\ discarded' = discarded
        /\ Cardinality(delivered') = Cardinality(delivered)
        /\ later = now
    BY <1>1, <1>3, <1>c, <1>4 DEF Enqueued
  <2> HIDE DEF Held
  <2> QED BY <1>2, <1>d, <2>2, <2>3
<1>5. CASE Rejected
  <2>1. /\ offered' = offered + 1 /\ Held(hand') = Held(hand) /\ Len(events') = Len(events)
        /\ outstanding' = outstanding /\ discarded' = discarded
        /\ Cardinality(delivered') = Cardinality(delivered) /\ later = now + 1
    BY <1>c, <1>5 DEF Rejected
  <2> HIDE DEF Held
  <2> QED BY <1>2, <1>d, <2>1
<1>6. CASE Received
  <2>1. Len(events') = Len(events) - 1 /\ hand' # 0
    BY <1>1, <1>6, LenAfter DEF Received
  <2> QED BY <1>1, <1>2, <1>3, <1>c, <1>6, <2>1 DEF Received, Still
<1>7. CASE Refused
  BY <1>1, <1>2, <1>3, <1>c, <1>7 DEF Refused, Still
<1>8. CASE Joined
  BY <1>1, <1>2, <1>3, <1>c, <1>8 DEF Joined, Still
<1>9. CASE WasCut
  BY <1>1, <1>2, <1>3, <1>c, <1>9 DEF WasCut, Still
<1>10. CASE HeadLost
  <2>1. Head(retries).events \in Nat
    BY <1>10, HeadCount DEF HeadLost
  <2>2. /\ offered' = offered /\ Held(hand') = Held(hand) /\ Len(events') = Len(events)
        /\ outstanding' = outstanding - Head(retries).events /\ discarded' = discarded
        /\ Cardinality(delivered') = Cardinality(delivered)
        /\ later = now + Head(retries).events
    BY <1>c, <1>10 DEF HeadLost, PopHead, Still
  <2> HIDE DEF Held
  <2> QED BY <1>2, <1>d, <2>1, <2>2
<1>11. CASE HeadDelivered
  <2>1. /\ Head(retries).events \in Nat
        /\ Cardinality(delivered \cup Head(retries).lines)
             = Cardinality(delivered) + Head(retries).events
    BY <1>11, HeadCount DEF HeadDelivered
  <2>2. /\ offered' = offered /\ Held(hand') = Held(hand) /\ Len(events') = Len(events)
        /\ outstanding' = outstanding - Head(retries).events /\ discarded' = discarded
        /\ Cardinality(delivered') = Cardinality(delivered) + Head(retries).events
        /\ later = now
    BY <1>1, <1>3, <1>c, <1>11, <2>1 DEF HeadDelivered, PopHead
  <2> HIDE DEF Held
  <2> QED BY <1>2, <1>d, <2>1, <2>2
<1>12. CASE HeadCharged
  BY <1>1, <1>2, <1>3, <1>c, <1>12 DEF HeadCharged, Still
<1>13. CASE AllLost
  BY <1>1, <1>2, <1>3, <1>c, <1>13 DEF AllLost, Still
<1>14. CASE DiscardedOne
  <2>1. Len(events') = Len(events) - 1
    BY <1>1, <1>14, LenAfter DEF DiscardedOne
  <2>2. /\ offered' = offered /\ Held(hand') = Held(hand)
        /\ outstanding' = outstanding /\ discarded' = discarded + 1
        /\ Cardinality(delivered') = Cardinality(delivered)
        /\ later = now
    BY <1>1, <1>3, <1>c, <1>14 DEF DiscardedOne
  <2> HIDE DEF Held
  <2> QED BY <1>2, <1>d, <2>1, <2>2
<1>15. CASE DiscardsCounted
  BY <1>1, <1>2, <1>3, <1>c, <1>15 DEF DiscardsCounted
<1>16. CASE Unmoved
  BY <1>1, <1>2, <1>3, <1>c, <1>16 DEF Unmoved, Still
<1> QED
  BY <1>4, <1>5, <1>6, <1>7, <1>8, <1>9, <1>10, <1>11, <1>12, <1>13, <1>14, <1>15, <1>16
  DEF Effect

-----------------------------------------------------------------------------
(* The budget.                                                              *)

\* No effect takes the worker or its channel past the budget.
LEMMA BudgetStep ==
    ASSUME TypeOK, ControlOK, Fifo, CountersAgree, WorkerWithinBudget, Effect
    PROVE  WorkerWithinBudget'
<1>1. /\ events \in Seq(Lines) /\ outstanding \in Nat /\ QueueSize \in Nat
      /\ offered \in Nat /\ MaxOffers \in Nat /\ Len(events) \in Nat
  BY LenAfter, LimitsAssumption DEF TypeOK, ShapeOK
<1>2. CASE Enqueued
  <2>1. offered + 1 \in Lines
    BY <1>1, <1>2 DEF Enqueued, Lines
  <2>2. Len(events') = Len(events) + 1
    BY <1>1, <1>2, <2>1, LenAfter DEF Enqueued
  <2> QED BY <1>1, <1>2, <2>2 DEF Enqueued, WorkerWithinBudget
<1>3. CASE Received \/ DiscardedOne
  <2>1. Len(events') = Len(events) - 1 /\ outstanding' = outstanding
    BY <1>1, <1>3, LenAfter DEF Received, DiscardedOne
  <2> QED BY <1>1, <2>1 DEF WorkerWithinBudget
<1>4. CASE Joined
  BY <1>1, <1>4 DEF Joined, OverBudget, WorkerWithinBudget
<1>5. CASE HeadLost \/ HeadDelivered
  BY <1>1, <1>5, HeadCount DEF HeadLost, HeadDelivered, PopHead, Still, WorkerWithinBudget
<1>6. CASE AllLost
  BY <1>1, <1>6 DEF AllLost, WorkerWithinBudget
<1>7. CASE Rejected \/ Refused \/ WasCut \/ HeadCharged \/ DiscardsCounted \/ Unmoved
  BY <1>1, <1>7
  DEF Rejected, Refused, WasCut, HeadCharged, DiscardsCounted, Unmoved, WorkerWithinBudget
<1> QED
  BY <1>2, <1>3, <1>4, <1>5, <1>6, <1>7 DEF Effect

-----------------------------------------------------------------------------
(* The invariant, and what follows from it.                                 *)

IInv ==
    /\ TypeOK
    /\ ControlOK
    /\ Known
    /\ Fifo
    /\ CountersAgree
    /\ EveryLineCounted
    /\ WorkerWithinBudget

\* A worker that has started has nothing to account for.
LEMMA InitIInv == Init => IInv
<1> SUFFICES ASSUME Init PROVE IInv
  OBVIOUS
<1>1. TypeOK /\ ControlOK
  <2>1. 0 \in 0..MaxOffers /\ 0 \in 0..ThrottleMax
    BY LimitsAssumption
  <2>2. /\ acks \in [Flushes -> {"idle", "pending", "yes", "no", "lost"}]
        /\ before \in [Messages -> 0..MaxOffers]
    BY <2>1 DEF Init
  <2>3. events \in Seq(Lines) /\ control \in Seq(Messages) /\ retries \in Seq(Batches)
    BY EmptySeq DEF Init
  <2>4. ShapeOK
    BY <2>1, <2>2, <2>3 DEF Init, ShapeOK, Timers
  <2> QED BY <2>4 DEF Init, DropInit, TypeOK, DropTypeOK, ControlOK
<1>2. /\ LinesIn(retries) = {} /\ Queued(events) = {} /\ InHand = {} /\ current = {}
      /\ DOMAIN retries = {} /\ DOMAIN events = {}
  BY DEF Init, LinesIn, Queued, InHand
<1>3. Known /\ Fifo
  BY <1>2 DEF Init, Known, Pending, HeldLines, Fifo, InOrder, Before
<1>4. Cardinality(HeldLines) = 0 /\ Cardinality(delivered) = 0
  BY <1>2, FS_EmptySet DEF Init, HeldLines
<1>5. CountersAgree
  BY <1>2, <1>4 DEF Init, CountersAgree
<1>6. Len(events) = 0
  BY DEF Init
<1>7. EveryLineCounted /\ WorkerWithinBudget
  BY <1>4, <1>6, LimitsAssumption
  DEF Init, DropInit, EveryLineCounted, Recorded, WorkerWithinBudget
<1> QED BY <1>1, <1>3, <1>5, <1>7 DEF IInv

\* Every step keeps the invariant.
LEMMA StepIInv == IInv /\ [Next]_vars => IInv'
<1> SUFFICES ASSUME IInv, [Next]_vars PROVE IInv'
  OBVIOUS
<1>1. ShapeOK' /\ ControlOK'
  BY ShapeStep DEF IInv, TypeOK
<1>2. Effect /\ DropTypeOK'
  BY Effects DEF IInv
<1>3. Known' /\ Fifo'
  BY <1>2, OrderStep DEF IInv
<1>4. CountersAgree'
  BY <1>1, <1>2, CountStep DEF IInv
<1>5. EveryLineCounted'
  BY <1>2, ConserveStep DEF IInv
<1>6. WorkerWithinBudget'
  BY <1>2, BudgetStep DEF IInv
<1>7. HeldLines' \in SUBSET Lines
  <2>1. LinesIn(retries') \in SUBSET Lines /\ current' \in SUBSET Lines
    BY <1>1, LinesInType DEF ShapeOK
  <2> QED BY <2>1 DEF HeldLines
<1>8. outstanding' \in Nat
  BY <1>4, <1>7, LinesFinite DEF CountersAgree
<1> QED
  BY <1>1, <1>2, <1>3, <1>4, <1>5, <1>6, <1>8 DEF IInv, TypeOK

\* Whatever callers, worker and clock do, the worker stays within it.
THEOREM Invariance == Spec => []IInv
BY InitIInv, StepIInv, PTL DEF Spec

\* Every variable keeps its type: in particular `outstanding` never runs below
\* zero, where the code's usize would wrap.
THEOREM TypeCorrect == Spec => []TypeOK
<1>1. IInv => TypeOK
  BY DEF IInv
<1> QED BY <1>1, Invariance, PTL

\* However lines are delivered, retried, shed, refused, aged out, suspended or
\* abandoned, each is in one place or counted once.
THEOREM NothingUncounted == Spec => []EveryLineCounted
<1>1. IInv => EveryLineCounted
  BY DEF IInv
<1> QED BY <1>1, Invariance, PTL

\* The worker's running totals are what it holds, on every path.
THEOREM CountersTrue == Spec => []CountersAgree
<1>1. IInv => CountersAgree
  BY DEF IInv
<1> QED BY <1>1, Invariance, PTL

\* The pipeline is first in, first out, and holds no line twice.
THEOREM OrderKept == Spec => []Fifo
<1>1. IInv => Fifo
  BY DEF IInv
<1> QED BY <1>1, Invariance, PTL

\* What the budget comes to: the batches stay within events_queue_size, however
\* lines are cut, retried, shed, drained or lost, and what the pipeline has
\* taken on is never more than twice that and the line in accept's hand.
PipelineBounded ==
    /\ Cardinality(HeldLines) <= QueueSize
    /\ Cardinality(Pending) <= 2 * QueueSize + 1

\* Lines from two places are no more than those of each together.
LEMMA UnionCount ==
    ASSUME NEW S \in SUBSET Lines, NEW T \in SUBSET Lines
    PROVE  Cardinality(S \cup T) <= Cardinality(S) + Cardinality(T)
<1>1. /\ IsFiniteSet(S) /\ IsFiniteSet(T)
      /\ Cardinality(S) \in Nat /\ Cardinality(T) \in Nat /\ Cardinality(S \cap T) \in Nat
  BY LinesFinite
<1>2. Cardinality(S \cup T) = Cardinality(S) + Cardinality(T) - Cardinality(S \cap T)
  BY <1>1, FS_Union, Zenon
<1> QED
  BY <1>1, <1>2

\* The channel holds no more lines than its length.
LEMMA QueuedCount ==
    ASSUME NEW queue \in Seq(Lines)
    PROVE  Cardinality(Queued(queue)) <= Len(queue)
<1>1. /\ IsFiniteSet(1..Len(queue)) /\ Cardinality(1..Len(queue)) = Len(queue)
  <2>1. Len(queue) \in Nat /\ 1 \in Int /\ Len(queue) \in Int
    OBVIOUS
  <2>2. /\ IsFiniteSet(1..Len(queue))
        /\ Cardinality(1..Len(queue)) = IF 1 > Len(queue) THEN 0 ELSE Len(queue) - 1 + 1
    BY <2>1, FS_Interval, Zenon
  <2> QED BY <2>1, <2>2
<1> DEFINE at == [i \in 1..Len(queue) |-> queue[i]]
<1>2. at \in Surjection(1..Len(queue), Queued(queue))
  BY DEF Surjection, Queued
<1> HIDE DEF at
<1> QED
  BY <1>1, <1>2, FS_Surjection

\* The ceiling of everything outstanding is not events_queue_size but twice
\* that: admission counts the channel's backlog, and callers refill the channel
\* behind it.
THEOREM CeilingKept == Spec => []PipelineBounded
<1>1. IInv => PipelineBounded
  <2> SUFFICES ASSUME IInv PROVE PipelineBounded
    OBVIOUS
  <2>1. events \in Seq(Lines) /\ QueueSize \in Nat /\ Len(events) \in Nat
    BY LenAfter, LimitsAssumption DEF IInv, TypeOK, ShapeOK
  <2>2. HeldLines \in SUBSET Lines /\ Pending \in SUBSET Lines
    BY AllAreLines DEF IInv, TypeOK
  <2>3. InHand \in SUBSET Lines /\ Queued(events) \in SUBSET Lines
    BY <2>2 DEF Pending
  <2>4. Cardinality(HeldLines) <= QueueSize /\ Len(events) <= QueueSize
    BY DEF IInv, CountersAgree, WorkerWithinBudget
  <2>5. Cardinality(Queued(events)) <= Len(events)
    BY <2>1, QueuedCount
  <2>6. Cardinality(InHand) <= 1
    <3>1. Cardinality({}) = 0 /\ Cardinality({hand}) = 1
      BY FS_EmptySet, FS_Singleton, Zenon
    <3> QED BY <3>1 DEF InHand
  <2> DEFINE taken == HeldLines \cup InHand
  <2>7. taken \in SUBSET Lines /\ Pending = taken \cup Queued(events)
    BY <2>2, <2>3 DEF Pending
  <2>8. Cardinality(taken) <= Cardinality(HeldLines) + Cardinality(InHand)
    BY <2>2, <2>3, UnionCount
  <2> HIDE DEF taken
  <2>9. Cardinality(Pending) <= Cardinality(taken) + Cardinality(Queued(events))
    BY <2>3, <2>7, UnionCount
  <2>10. /\ Cardinality(HeldLines) \in Nat /\ Cardinality(InHand) \in Nat
         /\ Cardinality(taken) \in Nat /\ Cardinality(Queued(events)) \in Nat
         /\ Cardinality(Pending) \in Nat
    BY <2>2, <2>3, <2>7, LinesFinite
  <2> QED
    BY <2>1, <2>4, <2>5, <2>6, <2>8, <2>9, <2>10 DEF PipelineBounded
<1> QED BY <1>1, Invariance, PTL
=============================================================================
