------------------------ MODULE EventsPromiseProofs ------------------------
(***************************************************************************)
(* EventsWorker keeps the promise of Pipeline, respects its backoff and    *)
(* leaves nothing behind when it acknowledges a shutdown, for every queue  *)
(* size, batch size, number of lines, set of flushes and retry limit.      *)
(***************************************************************************)
EXTENDS EventsWorkerProofs, WellFoundedInduction

\* The messages in the control channel.
Sent == {control[i] : i \in 1..Len(control)}

\* The client stops once, nobody shuts a dropped client down, and the worker
\* stops, and leaves, only when it was told to or nobody can reach it, and not
\* before the shutdown call, if there is one, has its answer.
Stopping ==
    /\ state = "Stopped" <=> shut # "idle"
    /\ shut = "pending" => open
    /\ stopped \/ pc = "exited" => shut # "pending" /\ (~open \/ shut # "idle")

\* Where the loops return to, and what is left behind by the time they do.
Returning ==
    /\ pc \in {"select", "drain", "finish", "exited"} => ret = "select"
    /\ pc = "accept" => ret # "finish"
    /\ pc # "discard" => discarded = 0 /\ inner = NoMsg

\* A message is in one place; a flush that is there still waits.
Serving ==
    /\ \A i, j \in 1..Len(control) : i # j => control[i] # control[j]
    /\ ctl \notin Sent /\ inner \notin Sent
    /\ ctl = inner => ctl = NoMsg
    /\ Shutdown \in Sent \cup {ctl, inner} => shut # "idle"
    /\ pc # "exited" =>
          \A f \in Flushes : f \in Sent \cup {ctl, inner} => acks[f] = "pending"

\* The worker is past the drain of the message it serves.
Drained == pc = "finish" \/ ret = "finish"

\* After the drain only newer lines are in the channel, and none after a
\* shutdown, which leaves nothing anywhere.
Barriers ==
    /\ \A m \in Messages : before[m] <= offered
    /\ Drained => current = {}
    /\ Drained /\ ctl \in Messages => \A e \in Queued(events) : before[ctl] < e
    /\ Drained /\ ctl = Shutdown => events = <<>>
    /\ shut = "acked" => events = <<>> /\ retries = <<>> /\ current = {} /\ hand = 0

\* Only the head of the retry queue has been tried, and then a backoff is owed
\* or over; no opportunistic send starts before it is over.
Backoffs ==
    /\ \A i \in DOMAIN retries : i > 1 => retries[i].attempts = 0
    /\ Representable /\ retries # <<>> /\ Head(retries).attempts > 0 => retry_at # "none"
    /\ pc = "send" /\ ret # "finish" => retry_at # "armed"

\* A batch that may be retained.
Fits(batch) ==
    /\ batch.lines # {} /\ Cardinality(batch.lines) <= BatchSize
    /\ WithinBytes(batch.lines)
    /\ batch.attempts <= MaxRetries

\* These may all be.
AllFit(batches) == \A i \in DOMAIN batches : Fits(batches[i])

\* The accumulating batch is weighed and under both limits, and the retained
\* ones fit.
Limited ==
    /\ current_bytes = Bytes(current)
    /\ Cardinality(current) < BatchSize /\ current_bytes < ByteLimit
    /\ AllFit(retries)

PInv ==
    /\ IInv
    /\ Stopping
    /\ Returning
    /\ Serving
    /\ Barriers
    /\ Backoffs
    /\ Limited

-----------------------------------------------------------------------------
(* Control.                                                                *)

\* Where a return can lead, and what it does to the flushes that wait.
LEMMA Returns ==
    ASSUME Return, ret \in {"select", "drain", "finish"}
    PROVE  /\ ret' = "select"
           /\ \/ pc' = ret /\ acks' = acks
              \/ pc' = "exited" /\ ret = "select" /\ stopped' /\ acks' = HangUp(acks)
BY DEF Return, Exit

\* The client stops once, and the worker never before it is told to.
LEMMA StoppingStep ==
    ASSUME ShapeOK, Stopping, Serving, Returning, Barriers, [Next]_vars
    PROVE  Stopping'
<1> USE MessagesAssumption DEF Stopping
<1>a. ret \in {"select", "drain", "finish"} /\ shut \in {"idle", "pending", "acked", "detached"}
  BY DEF ShapeOK
<1>1. CASE TryEnqueue \/ MinutePasses
  BY <1>1 DEF TryEnqueue, MinutePasses, workerVars, clientVars
<1>2. ASSUME NEW f \in Flushes, FlushBegin(f) PROVE Stopping'
  BY <1>2 DEF FlushBegin, workerVars
<1>3. CASE ShutdownBegin \/ Detach \/ DropClient
  BY <1>3 DEF ShutdownBegin, Detach, DropClient, workerVars
<1>4. CASE \/ RecvControl \/ RecvEvent \/ Wake \/ Shed \/ DrainDone \/ SuspendedRecv
           \/ SuspensionOver \/ DiscardOne \/ DeadlinePasses \/ BackoffPasses \/ SuspensionPasses
  BY <1>4 DEF RecvControl, RecvEvent, Wake, Shed, DrainDone, SuspendedRecv, SuspensionOver,
              DiscardOne, DeadlinePasses, BackoffPasses, SuspensionPasses, clientVars
<1>5. CASE Disconnected
  BY <1>5 DEF Disconnected, Exit
<1>6. ASSUME Return, UNCHANGED <<state, open, shut, stopped>> PROVE Stopping'
  BY <1>a, <1>6, Returns
<1>7. CASE Refuse \/ SendDone
  BY <1>6, <1>7 DEF Refuse, SendDone, suspendVars
<1>8. CASE Admit
  <2>1. /\ UNCHANGED <<state, open, shut, stopped>>
        /\ Return \/ pc' = "send"
    BY <1>8 DEF Admit, suspendVars
  <2> QED BY <1>6, <2>1
<1>9. CASE Deliver
  <2>1. UNCHANGED <<state, open, shut, stopped>>
    BY <1>9 DEF Deliver, DeliverSuccess, DeliverDrop, DeliverRetry, DeliverThrottle,
                DeliverSuspend, clientVars
  <2>2. Return \/ pc' = pc \/ pc' = "suspended"
    BY <1>9 DEF Deliver, DeliverSuccess, DeliverDrop, DeliverRetry, DeliverThrottle, Burn,
                DeliverSuspend, clientVars
  <2> QED BY <1>6, <2>1, <2>2
<1>10. CASE SuspendedDisconnected
  BY <1>a, <1>10, Returns DEF SuspendedDisconnected
<1>11. CASE DiscardDone
  <2>1. CASE DiscardedForFlush
    BY <1>11, <2>1 DEF DiscardDone, DiscardedForFlush
  <2>2. CASE DiscardedForShutdown
    <3>1. shut # "idle"
      BY <2>2 DEF DiscardedForShutdown, Serving
    <3> QED BY <1>a, <1>11, <2>2, <3>1 DEF DiscardDone, DiscardedForShutdown
  <2>3. CASE DiscardedForResume
    BY <1>6, <1>11, <2>3 DEF DiscardDone, DiscardedForResume
  <2> QED BY <1>11, <2>1, <2>2, <2>3 DEF DiscardDone
<1>12. CASE AnswerFlush
  BY <1>12 DEF AnswerFlush, suspendVars
<1>13. CASE AnswerShutdown
  <2>1. shut # "idle"
    BY <1>13 DEF AnswerShutdown, Serving
  <2> QED BY <1>a, <1>13, <2>1 DEF AnswerShutdown, Exit
<1>14. CASE UNCHANGED vars
  BY <1>14 DEF vars, clientVars
<1> QED
  BY <1>1, <1>2, <1>3, <1>4, <1>5, <1>7, <1>8, <1>9, <1>10, <1>11, <1>12, <1>13, <1>14
  DEF Next, Callers, Worker, Clock

\* The loops of the worker nest as the code nests them.
LEMMA ReturningStep ==
    ASSUME ShapeOK, Returning, [Next]_vars
    PROVE  Returning'
<1> USE DEF Returning
<1>a. ret \in {"select", "drain", "finish"}
  BY DEF ShapeOK
<1>1. CASE TryEnqueue \/ MinutePasses
  BY <1>1 DEF TryEnqueue, MinutePasses, workerVars, suspendVars
<1>2. ASSUME NEW f \in Flushes, FlushBegin(f) PROVE Returning'
  BY <1>2 DEF FlushBegin, workerVars, suspendVars
<1>3. CASE ShutdownBegin \/ Detach \/ DropClient
  BY <1>3 DEF ShutdownBegin, Detach, DropClient, workerVars, suspendVars
<1>4. CASE RecvControl \/ RecvEvent \/ Wake \/ Shed \/ DrainDone
  BY <1>4 DEF RecvControl, RecvEvent, Wake, Shed, DrainDone, suspendVars
<1>5. CASE SuspendedRecv \/ SuspensionOver \/ DiscardOne
  BY <1>5 DEF SuspendedRecv, SuspensionOver, DiscardOne, suspendVars
<1>6. CASE DeadlinePasses \/ BackoffPasses \/ SuspensionPasses
  BY <1>6 DEF DeadlinePasses, BackoffPasses, SuspensionPasses, suspendVars
<1>7. CASE Disconnected
  BY <1>7 DEF Disconnected, Exit, suspendVars
\* A return, from a place where nothing has been discarded.
<1>8. ASSUME Return, discarded' = 0, inner' = NoMsg PROVE Returning'
  BY <1>a, <1>8, Returns
<1>9. CASE Refuse \/ SendDone
  BY <1>8, <1>9 DEF Refuse, SendDone, suspendVars
<1>10. CASE Admit
  <2>1. /\ UNCHANGED suspendVars /\ pc = "accept"
        /\ Return \/ (pc' = "send" /\ ret' = ret)
    BY <1>10 DEF Admit
  <2> QED BY <1>8, <2>1 DEF suspendVars
<1>11. CASE Deliver
  <2>1. pc = "send" /\ UNCHANGED <<inner, discarded>>
    BY <1>11 DEF Deliver, DeliverSuccess, DeliverDrop, DeliverRetry, DeliverThrottle,
                 DeliverSuspend, Delivering, suspendVars
  <2>2. Return \/ (pc' = pc /\ ret' = ret) \/ pc' = "suspended"
    BY <1>11 DEF Deliver, DeliverSuccess, DeliverDrop, DeliverRetry, DeliverThrottle, Burn,
                 DeliverSuspend
  <2> QED BY <1>8, <2>1, <2>2
<1>12. CASE SuspendedDisconnected
  BY <1>8, <1>12 DEF SuspendedDisconnected
<1>13. CASE DiscardDone
  BY <1>8, <1>13
  DEF DiscardDone, DiscardedForFlush, DiscardedForShutdown, DiscardedForResume
<1>14. CASE AnswerFlush
  BY <1>14 DEF AnswerFlush, suspendVars
<1>15. CASE AnswerShutdown
  BY <1>15 DEF AnswerShutdown, Exit, suspendVars
<1>16. CASE UNCHANGED vars
  BY <1>16 DEF vars, suspendVars
<1> QED
  BY <1>1, <1>2, <1>3, <1>4, <1>5, <1>6, <1>7, <1>9, <1>10, <1>11, <1>12, <1>13, <1>14,
     <1>15,
     <1>16
  DEF Next, Callers, Worker, Clock

\* No two messages in the channel are the same.
Distinct(queue) == \A i, j \in 1..Len(queue) : i # j => queue[i] # queue[j]

\* A message that is not in the channel may join it.
LEMMA MessageSent ==
    ASSUME control \in Seq(Messages), Distinct(control), NEW m \in Messages, m \notin Sent,
           control' = Append(control, m)
    PROVE  Distinct(control') /\ Sent' = Sent \cup {m}
<1>1. /\ Len(control) \in Nat /\ Len(control') = Len(control) + 1
      /\ \A i \in 1..Len(control) : control'[i] = control[i]
      /\ control'[Len(control) + 1] = m
  BY LenProperties, AppendProperties
<1>2. \A i \in 1..Len(control) : control[i] # m
  BY DEF Sent
<1>3. 1..Len(control') = 1..Len(control) \cup {Len(control) + 1}
  BY <1>1
<1>4. Distinct(control')
  BY <1>1, <1>2, <1>3 DEF Distinct
<1> QED BY <1>1, <1>3, <1>4 DEF Sent

\* The head leaves the channel and is not in it any more.
LEMMA MessageReceived ==
    ASSUME control \in Seq(Messages), Distinct(control), control # <<>>,
           control' = Tail(control)
    PROVE  /\ Distinct(control')
           /\ Head(control) \in Messages
           /\ Sent = Sent' \cup {Head(control)}
           /\ Head(control) \notin Sent'
<1>1. /\ Len(control) \in Nat \ {0} /\ Len(control') = Len(control) - 1
      /\ \A i \in 1..(Len(control) - 1) : control'[i] = control[i + 1]
      /\ Head(control) = control[1] /\ Head(control) \in Messages
  BY LenProperties, HeadTailProperties, EmptySeq
<1>2. \A i \in 1..Len(control') : i + 1 \in 1..Len(control) /\ i + 1 # 1
  BY <1>1
<1>3. Distinct(control')
  <2> SUFFICES ASSUME NEW i \in 1..Len(control'), NEW j \in 1..Len(control'), i # j
               PROVE  control'[i] # control'[j]
    BY DEF Distinct
  <2>1. i + 1 # j + 1
    OBVIOUS
  <2> QED BY <1>1, <1>2, <2>1 DEF Distinct
<1>4. Head(control) \notin Sent'
  <2> SUFFICES ASSUME NEW i \in 1..Len(control') PROVE control'[i] # Head(control)
    BY DEF Sent
  <2> QED BY <1>1, <1>2 DEF Distinct
<1>5. ASSUME NEW m \in Sent PROVE m \in Sent' \cup {Head(control)}
  <2>1. PICK i \in 1..Len(control) : m = control[i]
    BY <1>5 DEF Sent
  <2>2. CASE i = 1
    BY <1>1, <2>1, <2>2
  <2>3. CASE i # 1
    <3>1. i - 1 \in 1..Len(control') /\ control'[i - 1] = control[i]
      BY <1>1, <2>3
    <3> QED BY <2>1, <3>1 DEF Sent
  <2> QED BY <2>2, <2>3
<1>6. \A m \in Sent' \cup {Head(control)} : m \in Sent
  <2>1. 1 \in 1..Len(control)
    BY <1>1
  <2> QED BY <1>1, <1>2, <2>1 DEF Sent
<1> QED BY <1>1, <1>3, <1>4, <1>5, <1>6

\* A message is in one place, wherever it goes.
LEMMA ServingStep ==
    ASSUME ShapeOK, Stopping, Serving, Returning, [Next]_vars
    PROVE  Serving'
<1> USE MessagesAssumption
<1>a. /\ control \in Seq(Messages) /\ ctl \in Messages \cup {NoMsg}
      /\ inner \in Messages \cup {NoMsg} /\ ret \in {"select", "drain", "finish"}
      /\ acks \in [Flushes -> {"idle", "pending", "yes", "no", "lost"}]
  BY DEF ShapeOK
<1>b. NoMsg \notin Sent /\ Distinct(control)
  BY <1>a DEF Sent, Distinct, Serving
\* The messages stay where they are, and at most the worker leaves.
<1>c. ASSUME UNCHANGED <<control, ctl, inner>>, shut # "idle" => shut' # "idle",
             pc' = "exited" \/ (acks' = acks /\ pc # "exited")
      PROVE  Serving'
  <2>1. Sent' = Sent
    BY <1>c DEF Sent
  <2> QED BY <1>c, <2>1 DEF Serving
<1>d. ASSUME Return PROVE pc' = "exited" \/ acks' = acks
  BY <1>d DEF Return, Exit
<1>1. CASE TryEnqueue \/ MinutePasses \/ UNCHANGED vars
  <2>1. UNCHANGED <<control, ctl, inner, shut, pc, acks>>
    BY <1>1 DEF TryEnqueue, MinutePasses, vars, workerVars, clientVars, suspendVars
  <2> QED BY <2>1 DEF Serving, Sent
<1>2. ASSUME NEW f \in Flushes, FlushBegin(f) PROVE Serving'
  <2>1. /\ UNCHANGED <<ctl, inner, shut, pc>>
        /\ acks[f] = "idle" /\ acks' = [acks EXCEPT ![f] = "pending"]
        /\ control' = Append(control, f) /\ pc # "exited"
    BY <1>2 DEF FlushBegin, workerVars, suspendVars, Stopping
  <2>2. f \notin Sent \cup {ctl, inner} /\ f \in Messages /\ f # Shutdown /\ f # NoMsg
    BY <2>1 DEF Serving, Messages
  <2>3. Distinct(control') /\ Sent' = Sent \cup {f}
    BY <1>a, <1>b, <2>1, <2>2, MessageSent
  <2>4. acks'[f] = "pending" /\ \A g \in Flushes : g # f => acks'[g] = acks[g]
    BY <1>a, <2>1
  <2> QED BY <2>1, <2>2, <2>3, <2>4 DEF Serving, Distinct
<1>3. CASE ShutdownBegin
  <2>1. /\ UNCHANGED <<ctl, inner, pc, acks>> /\ shut = "idle" /\ shut' = "pending"
        /\ control' = Append(control, Shutdown)
    BY <1>3 DEF ShutdownBegin, workerVars, suspendVars, Stopping
  <2>2. Shutdown \notin Sent \cup {ctl, inner} /\ Shutdown \in Messages
    BY <2>1 DEF Serving, Messages
  <2>3. Distinct(control') /\ Sent' = Sent \cup {Shutdown}
    BY <1>a, <1>b, <2>1, <2>2, MessageSent
  <2> QED BY <2>1, <2>2, <2>3 DEF Serving, Distinct
<1>4. CASE Detach \/ DropClient
  <2>1. UNCHANGED <<control, ctl, inner, pc, acks>> /\ (shut # "idle" => shut' # "idle")
    BY <1>4 DEF Detach, DropClient, workerVars, suspendVars
  <2> QED BY <2>1 DEF Serving, Sent
<1>5. CASE RecvControl \/ SuspendedRecv
  <2>1. /\ UNCHANGED <<shut, acks>> /\ pc # "exited"
        /\ control # <<>> /\ control' = Tail(control)
        /\ \/ ctl' = Head(control) /\ inner' = inner
           \/ inner' = Head(control) /\ ctl' = ctl
    BY <1>5 DEF RecvControl, SuspendedRecv, clientVars, suspendVars
  <2>2. /\ Distinct(control') /\ Head(control) \in Messages
        /\ Sent = Sent' \cup {Head(control)} /\ Head(control) \notin Sent'
    BY <1>a, <1>b, <2>1, MessageReceived
  <2> QED BY <2>1, <2>2 DEF Serving, Distinct
<1>6. CASE RecvEvent \/ Disconnected \/ Wake \/ Shed \/ DrainDone
  <2>1. /\ UNCHANGED <<control, ctl, inner, shut>> /\ pc # "exited"
        /\ pc' = "exited" \/ acks' = acks
    BY <1>6
    DEF RecvEvent, Disconnected, Exit, Wake, Shed, DrainDone, clientVars, suspendVars
  <2> QED BY <1>c, <2>1
<1>7. CASE SuspensionOver \/ DiscardOne \/ DeadlinePasses \/ BackoffPasses \/ SuspensionPasses
  <2>1. UNCHANGED <<control, ctl, inner, shut, acks>> /\ (pc # "exited" \/ pc' = pc)
    BY <1>7 DEF SuspensionOver, DiscardOne, DeadlinePasses, BackoffPasses, SuspensionPasses,
                clientVars, suspendVars
  <2> QED BY <1>c, <2>1
<1>8. CASE Refuse \/ Admit \/ SendDone \/ SuspendedDisconnected
  <2>1. UNCHANGED <<control, ctl, inner, shut>> /\ pc # "exited" /\ (Return \/ acks' = acks)
    BY <1>8 DEF Refuse, Admit, SendDone, SuspendedDisconnected, suspendVars
  <2> QED BY <1>c, <1>d, <2>1
<1>9. CASE Deliver
  <2>1. UNCHANGED <<control, ctl, inner, shut>> /\ pc # "exited"
    BY <1>9 DEF Deliver, DeliverSuccess, DeliverDrop, DeliverRetry, DeliverThrottle,
                DeliverSuspend, Delivering, clientVars, suspendVars
  <2>2. Return \/ acks' = acks
    BY <1>9 DEF Deliver, DeliverSuccess, DeliverDrop, DeliverRetry, DeliverThrottle, Burn,
                DeliverSuspend, clientVars
  <2> QED BY <1>c, <1>d, <2>1, <2>2
<1>10. CASE DiscardDone
  <2>1. UNCHANGED <<control, ctl>> /\ inner' = NoMsg /\ pc = "discard"
    BY <1>10 DEF DiscardDone
  <2>2. Sent' = Sent
    BY <2>1 DEF Sent
  <2>3. CASE DiscardedForFlush
    <3>1. /\ shut' = shut /\ inner \in Flushes
          /\ \A g \in Flushes : g # inner => acks'[g] = acks[g]
      BY <1>a, <2>3 DEF DiscardedForFlush
    <3>2. inner \notin Sent /\ inner # ctl
      BY <3>1 DEF Serving, Messages
    <3> QED BY <1>b, <2>1, <2>2, <3>1, <3>2 DEF Serving, Messages
  <2>4. CASE DiscardedForShutdown \/ DiscardedForResume
    <3>1. (shut # "idle" => shut' # "idle") /\ (pc' = "exited" \/ acks' = acks)
      BY <1>d, <2>4 DEF DiscardedForShutdown, DiscardedForResume
    <3> QED BY <1>b, <2>1, <2>2, <3>1 DEF Serving, Messages
  <2> QED BY <1>10, <2>3, <2>4 DEF DiscardDone
<1>11. CASE AnswerFlush
  <2>1. /\ UNCHANGED <<control, shut, inner>> /\ ctl' = NoMsg /\ pc = "finish"
        /\ ctl \in Flushes
        /\ pc' # "exited" => acks' = [acks EXCEPT ![ctl] = FlushAnswer]
    BY <1>11 DEF AnswerFlush, suspendVars
  <2>2. pc' # "exited" => \A g \in Flushes : g # ctl => acks'[g] = acks[g]
    BY <1>a, <2>1
  <2>3. ctl \notin Sent /\ ctl # inner /\ Sent' = Sent
    BY <2>1 DEF Serving, Sent, Messages
  <2> QED BY <1>b, <2>1, <2>2, <2>3 DEF Serving, Messages
<1>12. CASE AnswerShutdown
  <2>1. /\ UNCHANGED <<control, inner>> /\ ctl' = NoMsg /\ pc' = "exited"
        /\ shut # "idle" => shut' # "idle"
    BY <1>12 DEF AnswerShutdown, Exit, suspendVars
  <2>2. Sent' = Sent
    BY <2>1 DEF Sent
  <2> QED BY <1>b, <2>1, <2>2 DEF Serving, Messages
<1> QED
  BY <1>1, <1>2, <1>3, <1>4, <1>5, <1>6, <1>7, <1>8, <1>9, <1>10, <1>11, <1>12
  DEF Next, Callers, Worker, Clock

\* Nothing is anywhere in the pipeline.
Emptied == events = <<>> /\ retries = <<>> /\ current = {} /\ hand = 0

\* Once the client has stopped, a pipeline that is empty stays empty.
LEMMA EmptyStays ==
    ASSUME ShapeOK, ControlOK, state = "Stopped", Emptied, [Next]_vars
    PROVE  Emptied'
<1> USE DEF Emptied
<1>1. CASE TryEnqueue
  BY <1>1 DEF TryEnqueue, Accepting, workerVars, batchVars, queueVars
<1>2. ASSUME NEW f \in Flushes, FlushBegin(f) PROVE Emptied'
  BY <1>2 DEF FlushBegin
<1>3. CASE ShutdownBegin \/ Detach \/ DropClient \/ MinutePasses
  BY <1>3
  DEF ShutdownBegin, Detach, DropClient, MinutePasses, workerVars, batchVars, queueVars
<1>4. CASE RecvControl \/ RecvEvent \/ Disconnected \/ SuspendedRecv \/ SuspensionOver
  BY <1>4
  DEF RecvControl, RecvEvent, Disconnected, SuspendedRecv, SuspensionOver, batchVars,
              queueVars
<1>5. CASE Wake \/ DrainDone
  BY <1>5 DEF Wake, DrainDone, Cut, batchVars
<1>6. CASE Shed \/ Refuse \/ Admit
  BY <1>6 DEF Shed, Refuse, Admit, ControlOK
<1>7. CASE Deliver
  BY <1>7 DEF Deliver, DeliverSuccess, DeliverDrop, DeliverRetry, DeliverThrottle,
              DeliverSuspend, Delivering
<1>8. CASE SendDone \/ SuspendedDisconnected \/ DiscardOne
  BY <1>8 DEF SendDone, SuspendedDisconnected, DiscardOne, batchVars, queueVars
<1>9. CASE DiscardDone \/ AnswerFlush \/ AnswerShutdown
  BY <1>9 DEF DiscardDone, AnswerFlush, AnswerShutdown, batchVars, queueVars
<1>10. CASE DeadlinePasses \/ BackoffPasses \/ SuspensionPasses \/ UNCHANGED vars
  BY <1>10 DEF DeadlinePasses, BackoffPasses, SuspensionPasses, vars, batchVars, queueVars
<1> QED
  BY <1>1, <1>2, <1>3, <1>4, <1>5, <1>6, <1>7, <1>8, <1>9, <1>10
  DEF Next, Callers, Worker, Clock

\* The shutdown call is acknowledged on two paths, and on each of them nothing
\* is left: the barrier has emptied the channel and the worker abandons what it
\* holds, or a suspension has discarded everything already.
LEMMA AckedEmpty ==
    ASSUME ShapeOK, ControlOK, Stopping, Returning, Serving, Barriers, [Next]_vars,
           shut' = "acked", shut # "acked"
    PROVE  /\ Emptied' /\ discarded' = 0 /\ dropped' = 0
           /\ UNCHANGED <<offered, before>>
           /\ shut = "pending"
<1>1. CASE AnswerShutdown
  <2>1. Drained /\ events = <<>> /\ hand = 0 /\ shut = "pending" /\ discarded = 0
    BY <1>1 DEF AnswerShutdown, Drained, Barriers, ControlOK, Returning
  <2> QED
    BY <1>1, <2>1 DEF AnswerShutdown, RecordAndReportFinal, Emptied, suspendVars
<1>2. CASE DiscardDone
  <2>1. DiscardedForShutdown
    BY <1>2 DEF DiscardDone, DiscardedForFlush, DiscardedForResume
  <2>2. retries = <<>> /\ current = {} /\ hand = 0 /\ events = <<>>
    BY <1>2 DEF DiscardDone, ControlOK
  <2> QED
    BY <1>2, <2>1, <2>2
    DEF DiscardDone, DiscardedForShutdown, RecordAndReportFinal, Emptied, batchVars, queueVars
<1>3. CASE TryEnqueue \/ (\E f \in Flushes : FlushBegin(f)) \/ ShutdownBegin \/ Detach
           \/ DropClient
  BY <1>3 DEF TryEnqueue, FlushBegin, ShutdownBegin, Detach, DropClient
<1>4. CASE \/ RecvControl \/ RecvEvent \/ Disconnected \/ Wake \/ Shed \/ Refuse \/ Admit
           \/ SendDone \/ SuspendedRecv \/ SuspensionOver \/ SuspendedDisconnected
           \/ DiscardOne \/ DrainDone \/ AnswerFlush
  BY <1>4 DEF RecvControl, RecvEvent, Disconnected, Wake, Shed, Refuse, Admit, SendDone,
              SuspendedRecv, SuspensionOver, SuspendedDisconnected, DiscardOne, DrainDone,
              AnswerFlush, clientVars
<1>5. CASE Deliver
  BY <1>5 DEF Deliver, DeliverSuccess, DeliverDrop, DeliverRetry, DeliverThrottle,
              DeliverSuspend, clientVars
<1>6. CASE DeadlinePasses \/ BackoffPasses \/ SuspensionPasses \/ MinutePasses \/ UNCHANGED vars
  BY <1>6
  DEF DeadlinePasses, BackoffPasses, SuspensionPasses, MinutePasses, vars, clientVars
<1> QED
  BY <1>1, <1>2, <1>3, <1>4, <1>5, <1>6 DEF Next, Callers, Worker, Clock

\* What is behind a barrier stays behind it.
LEMMA BarriersStep ==
    ASSUME ShapeOK, ControlOK, Known, Stopping, Returning, Serving, Barriers, [Next]_vars
    PROVE  Barriers'
<1> USE MessagesAssumption
<1>a. /\ events \in Seq(Lines) /\ ctl \in Messages \cup {NoMsg} /\ offered \in Nat
      /\ before \in [Messages -> Int] /\ Lines \subseteq Int
      /\ ret \in {"select", "drain", "finish"} /\ MaxOffers \in Nat
  BY LimitsAssumption DEF ShapeOK, Lines
<1> DEFINE Ahead == \A m \in Messages : before[m] <= offered
           Behind == Drained =>
                        /\ current = {}
                        /\ ctl \in Messages => \A e \in Queued(events) : before[ctl] < e
                        /\ ctl = Shutdown => events = <<>>
<1>b. Ahead /\ Behind
  BY DEF Barriers
<1>c. Queued(<<>>) = {}
  BY DEF Queued
\* Nothing left anywhere after a shutdown.
<1>d. ASSUME shut' = "acked"
      PROVE  events' = <<>> /\ retries' = <<>> /\ current' = {} /\ hand' = 0
  <2>1. CASE shut = "acked"
    <3>1. state = "Stopped" /\ Emptied
      BY <2>1 DEF Stopping, Barriers, Emptied
    <3> QED BY <3>1, EmptyStays DEF Emptied
  <2>2. CASE shut # "acked"
    BY <1>d, <2>2, AckedEmpty DEF Emptied
  <2> QED BY <2>1, <2>2
<1>e. ASSUME Ahead', Behind' PROVE Barriers'
  BY <1>d, <1>e DEF Barriers
\* Nobody calls, and a barrier is reached, left or stays.
<1>f. ASSUME UNCHANGED <<offered, before>>,
             Drained' =>
                \/ current' = {} /\ events' = <<>>
                \/ Drained /\ UNCHANGED <<ctl, events>> /\ current' \in {current, {}}
      PROVE  Barriers'
  <2>1. Ahead'
    BY <1>b, <1>f
  <2>2. Behind'
    BY <1>b, <1>c, <1>f
  <2> QED BY <1>e, <2>1, <2>2
<1> HIDE DEF Ahead, Behind
<1>1. CASE TryEnqueue
  <2>1. /\ offered' = offered + 1 /\ UNCHANGED <<before, pc, ret, ctl, current>>
        /\ offered < MaxOffers
        /\ \/ events' = Append(events, offered + 1) /\ state = "Running"
           \/ events' = events
    BY <1>1 DEF TryEnqueue, Accepting, workerVars, batchVars
  <2>2. Ahead'
    BY <1>a, <1>b, <2>1 DEF Ahead
  <2>3. CASE events' = events
    BY <1>b, <1>e, <2>1, <2>2, <2>3 DEF Behind, Drained
  <2>4. CASE events' = Append(events, offered + 1) /\ state = "Running"
    <3>1. offered + 1 \in Lines
      BY <1>a, <2>1 DEF Lines
    <3>2. Queued(events') = Queued(events) \cup {offered + 1}
      BY <1>a, <2>4, <3>1, QueuedAppend
    <3>3. \A m \in Messages : before[m] < offered + 1
      BY <1>a, <1>b DEF Ahead
    <3>4. ctl # Shutdown
      BY <2>4 DEF Stopping, Serving
    <3>5. Behind'
      BY <1>b, <2>1, <3>2, <3>3, <3>4 DEF Behind, Drained
    <3> QED BY <1>e, <2>2, <3>5
  <2> QED BY <2>1, <2>3, <2>4
<1>2. ASSUME NEW m \in Messages, before' = [before EXCEPT ![m] = offered], m # ctl,
             UNCHANGED <<offered, events, pc, ret, ctl, current>>
      PROVE  Barriers'
  <2>1. before'[m] = offered /\ \A n \in Messages : n # m => before'[n] = before[n]
    BY <1>a, <1>2
  <2>2. Ahead'
    BY <1>a, <1>b, <1>2, <2>1 DEF Ahead
  <2>3. Behind'
    BY <1>b, <1>2, <2>1 DEF Behind, Drained
  <2> QED BY <1>e, <2>2, <2>3
<1>3. ASSUME NEW f \in Flushes, FlushBegin(f) PROVE Barriers'
  <2>1. f # ctl
    BY <1>3 DEF FlushBegin, Stopping, Serving
  <2> QED BY <1>2, <1>3, <2>1 DEF FlushBegin, workerVars, batchVars, Messages
<1>4. CASE ShutdownBegin
  <2>1. Shutdown # ctl
    BY <1>4 DEF ShutdownBegin, Stopping, Serving
  <2> QED BY <1>2, <1>4, <2>1 DEF ShutdownBegin, workerVars, batchVars, Messages
<1>5. CASE Detach \/ DropClient \/ MinutePasses \/ UNCHANGED vars
  <2>1. UNCHANGED <<offered, before, events, pc, ret, ctl, current>>
    BY <1>5 DEF Detach, DropClient, MinutePasses, vars, workerVars, batchVars, clientVars
  <2> QED BY <1>f, <2>1 DEF Drained
\* The worker is not at a barrier and does not reach one.
<1>6. CASE RecvControl \/ RecvEvent \/ Disconnected \/ Wake
  <2>1. UNCHANGED <<offered, before>> /\ ~Drained'
    BY <1>6
    DEF RecvControl, RecvEvent, Disconnected, Exit, Wake, Drained, Returning, clientVars
  <2> QED BY <1>f, <2>1
<1>7. CASE Shed \/ Refuse \/ Admit
  <2>1. UNCHANGED <<offered, before>> /\ pc = "accept" /\ ret # "finish"
    BY <1>7 DEF Shed, Refuse, Admit, Returning, clientVars
  <2>2. Return \/ (ret' = ret /\ pc' \in {pc, "send"})
    BY <1>7 DEF Shed, Refuse, Admit
  <2>3. ~Drained'
    BY <1>a, <2>1, <2>2, Returns DEF Drained
  <2> QED BY <1>f, <2>1, <2>3
<1>8. CASE DrainDone
  <2>1. UNCHANGED <<offered, before>> /\ current' = {} /\ events' = <<>>
    BY <1>8 DEF DrainDone, Cut, clientVars
  <2> QED BY <1>f, <2>1
\* A return reaches the barrier that send_pending was called for.
<1>9. ASSUME UNCHANGED <<offered, before, ctl, events>>, current' \in {current, {}},
             Return \/ (ret' = ret /\ pc' # "finish")
      PROVE  Barriers'
  <2>1. Drained' => Drained
    BY <1>a, <1>9, Returns DEF Drained
  <2> QED BY <1>f, <1>9, <2>1
<1>10. CASE Deliver
  <2>1. UNCHANGED <<offered, before, ctl, events>> /\ current' \in {current, {}}
    BY <1>10 DEF Deliver, DeliverSuccess, DeliverDrop, DeliverRetry, DeliverThrottle,
                 DeliverSuspend, clientVars, batchVars
  <2>2. Return \/ (ret' = ret /\ pc' # "finish")
    BY <1>10 DEF Deliver, DeliverSuccess, DeliverDrop, DeliverRetry, DeliverThrottle, Burn,
                 DeliverSuspend, Delivering
  <2> QED BY <1>9, <2>1, <2>2
<1>11. CASE SendDone \/ SuspendedRecv \/ SuspensionOver \/ SuspendedDisconnected
  <2>1. UNCHANGED <<offered, before, ctl, events, current>>
    BY <1>11 DEF SendDone, SuspendedRecv, SuspensionOver, SuspendedDisconnected, clientVars,
                 batchVars
  <2>2. Return \/ (ret' = ret /\ pc' # "finish")
    BY <1>11 DEF SendDone, SuspendedRecv, SuspensionOver, SuspendedDisconnected
  <2> QED BY <1>9, <2>1, <2>2
<1>12. CASE DiscardOne
  <2>1. /\ UNCHANGED <<offered, before, pc, ret, ctl, current>>
        /\ events # <<>> /\ events' = Tail(events)
    BY <1>12 DEF DiscardOne, clientVars, batchVars
  <2>2. Queued(events') \subseteq Queued(events)
    BY <1>a, <2>1, QueuedTail
  <2>3. Ahead'
    BY <1>b, <2>1 DEF Ahead
  <2>4. Behind'
    BY <1>b, <2>1, <2>2 DEF Behind, Drained
  <2> QED BY <1>e, <2>3, <2>4
<1>13. CASE DiscardDone
  <2>1. UNCHANGED <<offered, before, ctl, events, current>>
    BY <1>13 DEF DiscardDone, batchVars
  <2>2. Return \/ (ret' = ret /\ pc' # "finish")
    BY <1>13 DEF DiscardDone, DiscardedForFlush, DiscardedForShutdown, DiscardedForResume
  <2> QED BY <1>9, <2>1, <2>2
<1>14. CASE AnswerFlush \/ AnswerShutdown
  <2>1. UNCHANGED <<offered, before>> /\ ~Drained'
    BY <1>14 DEF AnswerFlush, AnswerShutdown, Exit, Drained, Returning
  <2> QED BY <1>f, <2>1
<1>15. CASE DeadlinePasses \/ BackoffPasses \/ SuspensionPasses
  <2>1. UNCHANGED <<offered, before, events, pc, ret, ctl, current>>
    BY <1>15 DEF DeadlinePasses, BackoffPasses, SuspensionPasses, clientVars, batchVars
  <2> QED BY <1>f, <2>1 DEF Drained
<1> QED
  BY <1>1, <1>3, <1>4, <1>5, <1>6, <1>7, <1>8, <1>10, <1>11, <1>12, <1>13, <1>14, <1>15
  DEF Next, Callers, Worker, Clock

-----------------------------------------------------------------------------
(* The backoff.                                                            *)

\* Only the head of these batches may have been tried.
Untried(batches) == \A i \in DOMAIN batches : i > 1 => batches[i].attempts = 0

\* The head has failed before.
Tried(batches) == batches # <<>> /\ Head(batches).attempts > 0

\* A new batch goes to the end, untried; without the head, nothing is tried.
LEMMA UntriedKept ==
    ASSUME NEW r \in Seq(Batches), Untried(r)
    PROVE  /\ \A lines \in SUBSET Lines :
                 LET more == Append(r, NewBatch(lines))
                 IN  Untried(more) /\ (Tried(more) => Tried(r))
           /\ r # <<>> => Untried(Tail(r)) /\ ~Tried(Tail(r))
           /\ Untried(<<>>) /\ ~Tried(<<>>)
<1>1. DOMAIN r = 1..Len(r) /\ Len(r) \in Nat
  BY LenProperties
<1>2. ASSUME NEW lines \in SUBSET Lines
      PROVE  LET more == Append(r, NewBatch(lines))
             IN  Untried(more) /\ (Tried(more) => Tried(r))
  <2> DEFINE new == NewBatch(lines)
             more == Append(r, new)
  <2>1. new \in Batches /\ new.attempts = 0
    BY LinesFinite DEF NewBatch, Batches
  <2> HIDE DEF new
  <2>2. /\ DOMAIN more = 1..(Len(r) + 1)
        /\ \A i \in 1..Len(r) : more[i] = r[i]
        /\ more[Len(r) + 1] = new
    BY <2>1, LenProperties, AppendProperties
  <2>3. Untried(more)
    <3>1. \A i \in DOMAIN more : i \in 1..Len(r) \/ i = Len(r) + 1
      BY <1>1, <2>2
    <3> QED BY <1>1, <2>1, <2>2, <3>1 DEF Untried
  <2>4. CASE r = <<>>
    <3>1. Len(r) = 0 /\ Head(more) = more[1]
      BY <2>1, <2>4, AppendProperties, HeadTailProperties
    <3>2. Head(more).attempts = 0
      BY <2>1, <2>2, <3>1
    <3> QED BY <2>3, <3>2 DEF Tried, new
  <2>5. CASE r # <<>>
    <3>1. Len(r) > 0 /\ Head(more) = more[1] /\ Head(r) = r[1]
      BY <1>1, <2>1, <2>5, AppendProperties, HeadTailProperties, EmptySeq
    <3>2. Head(more) = Head(r)
      BY <1>1, <2>2, <3>1
    <3> QED BY <2>3, <2>5, <3>2 DEF Tried, new
  <2> QED BY <2>4, <2>5
<1>3. ASSUME r # <<>> PROVE Untried(Tail(r)) /\ ~Tried(Tail(r))
  <2>1. /\ Len(r) > 0 /\ Tail(r) \in Seq(Batches)
        /\ DOMAIN Tail(r) = 1..(Len(r) - 1)
        /\ \A i \in 1..(Len(r) - 1) : Tail(r)[i] = r[i + 1]
    BY <1>3, LenProperties, HeadTailProperties, EmptySeq
  <2>2. \A i \in DOMAIN Tail(r) : Tail(r)[i].attempts = 0
    <3> SUFFICES ASSUME NEW i \in 1..(Len(r) - 1) PROVE Tail(r)[i].attempts = 0
      BY <2>1
    <3>1. i + 1 \in DOMAIN r /\ i + 1 > 1
      BY <1>1
    <3> QED BY <2>1, <3>1 DEF Untried
  <2>3. Tail(r) # <<>> => Head(Tail(r)) = Tail(r)[1] /\ 1 \in DOMAIN Tail(r)
    BY <2>1, LenProperties, HeadTailProperties, EmptySeq
  <2> QED BY <2>2, <2>3 DEF Untried, Tried
<1>4. Untried(<<>>) /\ ~Tried(<<>>)
  BY DEF Untried, Tried
<1> QED BY <1>2, <1>3, <1>4

\* To charge the head is to try no other.
LEMMA ChargedUntried ==
    ASSUME Delivering, retries \in Seq(Batches), Untried(retries)
    PROVE  Untried(Charged)
<1>1. DOMAIN Charged = DOMAIN retries
  BY HeadShape
<1>2. \A i \in DOMAIN retries : i # 1 => Charged[i] = retries[i]
  BY DEF Charged
<1> QED BY <1>1, <1>2 DEF Untried

\* The backoff is owed while the head has failed, and no opportunistic send
\* starts under it.
LEMMA BackoffsStep ==
    ASSUME ShapeOK, ControlOK, Returning, Backoffs, [Next]_vars
    PROVE  Backoffs'
<1>a. /\ retries \in Seq(Batches) /\ current \in SUBSET Lines
      /\ ret \in {"select", "drain", "finish"}
  BY DEF ShapeOK
<1> DEFINE Owed == Representable /\ Tried(retries) => retry_at # "none"
           Quiet == pc = "send" /\ ret # "finish" => retry_at # "armed"
<1>b. Untried(retries) /\ Owed /\ Quiet
  BY DEF Backoffs, Untried, Tried
<1>c. ASSUME Untried(retries)', Owed', Quiet' PROVE Backoffs'
  BY <1>c DEF Backoffs, Untried, Tried
<1>d. Return => pc' # "send"
  BY <1>a DEF Return, Exit
<1>e. Representable => Armed = "armed"
  BY DEF Armed
\* No batch comes or goes.
<1>f. ASSUME UNCHANGED <<retries, retry_at>>,
             pc' # "send" \/ UNCHANGED <<pc, ret>> \/ ready_to_send \/ ret' = "finish"
      PROVE  Backoffs'
  BY <1>b, <1>c, <1>f DEF ready_to_send
\* A batch is cut.
<1>g. ASSUME NEW lines \in SUBSET Lines, retries' = Append(retries, NewBatch(lines)),
             retry_at' = retry_at,
             pc' # "send" \/ UNCHANGED <<pc, ret>> \/ ready_to_send \/ ret' = "finish"
      PROVE  Backoffs'
  <2>1. Untried(retries') /\ (Tried(retries') => Tried(retries))
    BY <1>a, <1>b, <1>g, UntriedKept
  <2> QED BY <1>b, <1>c, <1>g, <2>1 DEF ready_to_send
\* The head goes.
<1>h. ASSUME retries # <<>>, retries' = Tail(retries), UNCHANGED <<pc, ret, retry_at>>
      PROVE  Backoffs'
  <2>1. Untried(retries') /\ ~Tried(retries')
    BY <1>a, <1>b, <1>h, UntriedKept
  <2> QED BY <1>b, <1>c, <1>h, <2>1
\* Everything goes.
<1>i. ASSUME retries' = <<>>, pc' # "send"
      PROVE  Backoffs'
  <2>1. Untried(retries') /\ ~Tried(retries')
    BY <1>a, <1>b, <1>i, UntriedKept
  <2> QED BY <1>c, <1>i, <2>1
<1> HIDE DEF Owed, Quiet
<1>1. CASE TryEnqueue \/ MinutePasses \/ UNCHANGED vars
  <2>1. UNCHANGED <<retries, retry_at, pc, ret>>
    BY <1>1 DEF TryEnqueue, MinutePasses, vars, workerVars, queueVars
  <2> QED BY <1>f, <2>1
<1>2. ASSUME NEW f \in Flushes, FlushBegin(f) PROVE Backoffs'
  BY <1>2, <1>f DEF FlushBegin, workerVars, queueVars
<1>3. CASE ShutdownBegin \/ Detach \/ DropClient
  BY <1>3, <1>f DEF ShutdownBegin, Detach, DropClient, workerVars, queueVars
<1>4. CASE RecvControl \/ RecvEvent \/ Disconnected
  BY <1>4, <1>f DEF RecvControl, RecvEvent, Disconnected, Exit, queueVars
<1>5. CASE Wake
  <2>1. retry_at' = retry_at /\ (pc' # "send" \/ ready_to_send)
    BY <1>5 DEF Wake
  <2>2. retries' = retries \/ retries' = Append(retries, NewBatch(current))
    BY <1>5 DEF Wake, Cut
  <2> QED BY <1>a, <1>f, <1>g, <2>1, <2>2
<1>6. CASE Shed
  BY <1>6, <1>h DEF Shed, PopHead
<1>7. CASE Refuse
  BY <1>7, <1>d, <1>f DEF Refuse, queueVars
<1>8. CASE Admit
  <2>1. retry_at' = retry_at /\ (pc' # "send" \/ ready_to_send)
    BY <1>8, <1>d DEF Admit
  <2>2. current \cup {hand} \in SUBSET Lines
    BY <1>8 DEF Admit, ControlOK, ShapeOK
  <2>3. retries' = retries \/ retries' = Append(retries, NewBatch(current \cup {hand}))
    BY <1>8 DEF Admit, Cut
  <2> QED BY <1>f, <1>g, <2>1, <2>2, <2>3
<1>9. CASE DrainDone
  <2>1. retry_at' = retry_at /\ ret' = "finish"
    BY <1>9 DEF DrainDone
  <2>2. retries' = retries \/ retries' = Append(retries, NewBatch(current))
    BY <1>9 DEF DrainDone, Cut
  <2> QED BY <1>a, <1>f, <1>g, <2>1, <2>2
<1>10. CASE DeliverSuccess \/ DeliverDrop
  BY <1>10, <1>h DEF DeliverSuccess, DeliverDrop, Delivering, PopHead
\* The backoff is armed anew, and send_pending returns.
<1>11. ASSUME Return, retry_at' = Armed, Untried(retries')
       PROVE  Backoffs'
  <2>1. Owed'
    BY <1>11, <1>e DEF Owed
  <2> QED BY <1>c, <1>d, <1>11, <2>1 DEF Quiet
<1>12. ASSUME Delivering, Burn PROVE Backoffs'
  <2>1. CASE AgesOut
    <3>1. retries # <<>> /\ retries' = Tail(retries) /\ UNCHANGED <<pc, ret, retry_at>>
      BY <1>12, <2>1 DEF Burn, Delivering, PopHead
    <3> QED BY <1>h, <3>1
  <2>2. CASE ~AgesOut
    <3>1. Return /\ retry_at' = Armed /\ retries' = Charged
      BY <1>12, <2>2 DEF Burn, ScheduleRetry
    <3>2. Untried(retries')
      BY <1>a, <1>b, <1>12, <3>1, ChargedUntried
    <3> QED BY <1>11, <3>1, <3>2
  <2> QED BY <2>1, <2>2
<1>13. CASE DeliverRetry
  BY <1>12, <1>13 DEF DeliverRetry, Burn
<1>14. ASSUME NEW burn \in BOOLEAN, DeliverThrottle(burn) PROVE Backoffs'
  <2>1. CASE burn
    BY <1>12, <1>14, <2>1 DEF DeliverThrottle, Burn
  <2>2. CASE ~burn
    <3>1. Return /\ retry_at' = Armed /\ retries' = retries
      BY <1>14, <2>2 DEF DeliverThrottle, ScheduleRetry, queueVars
    <3> QED BY <1>b, <1>11, <3>1
  <2> QED BY <2>1, <2>2
<1>15. CASE DeliverSuspend \/ AnswerShutdown
  BY <1>15, <1>i DEF DeliverSuspend, AnswerShutdown, Exit
<1>16. CASE SendDone
  BY <1>16, <1>d, <1>i DEF SendDone, queueVars
<1>17. CASE SuspendedRecv \/ SuspensionOver \/ SuspendedDisconnected \/ DiscardOne
  BY <1>17, <1>d, <1>f
  DEF SuspendedRecv, SuspensionOver, SuspendedDisconnected, DiscardOne, queueVars
<1>18. CASE DiscardDone
  <2>1. UNCHANGED <<retries, retry_at>> /\ (Return \/ pc' = "suspended")
    BY <1>18 DEF DiscardDone, DiscardedForFlush, DiscardedForShutdown, DiscardedForResume,
                 queueVars
  <2> QED BY <1>d, <1>f, <2>1
<1>19. CASE AnswerFlush
  BY <1>19, <1>f DEF AnswerFlush, queueVars
<1>20. CASE DeadlinePasses \/ SuspensionPasses
  BY <1>20, <1>f DEF DeadlinePasses, SuspensionPasses, queueVars
<1>21. CASE BackoffPasses
  <2>1. retries' = retries /\ retry_at' = "due"
    BY <1>21 DEF BackoffPasses, queueVars
  <2> QED BY <1>b, <1>c, <2>1 DEF Owed, Quiet
<1> QED
  BY <1>1, <1>2, <1>3, <1>4, <1>5, <1>6, <1>7, <1>8, <1>9, <1>10, <1>13, <1>14, <1>15,
     <1>16,
     <1>17, <1>18, <1>19, <1>20, <1>21
  DEF Next, Callers, Worker, Clock, Deliver

-----------------------------------------------------------------------------
(* The bytes of a batch.                                                   *)

\* Induction, said of a set of numbers.
LEMMA SetInduction ==
    ASSUME NEW S \in SUBSET Nat, 0 \in S, \A n \in S : n + 1 \in S
    PROVE  S = Nat
<1> DEFINE rest == Nat \ S
<1>1. SUFFICES ASSUME rest # {} PROVE FALSE
  OBVIOUS
<1>2. PICK x \in rest : \A y \in rest : ~ (<<y, x>> \in OpToRel(<, Nat))
  <2> HIDE DEF rest
  <2>1. rest \subseteq Nat
    BY DEF rest
  <2> QED BY <1>1, <2>1, NatLessThanWellFounded, WFMin
<1>3. x - 1 \in Nat /\ <<x - 1, x>> \in OpToRel(<, Nat)
  BY DEF OpToRel
<1>4. x - 1 \in S
  BY <1>2, <1>3
<1> QED BY <1>4

\* What a line adds to the bytes of a set.
Share(n, S) == IF n \in S THEN Size[n] ELSE 0

\* The sums up to each line, which Bytes is the last of, exist.
LEMMA BytesSum ==
    ASSUME NEW S
    PROVE  \E f : /\ f = [n \in 0..MaxOffers |-> IF n = 0 THEN 0 ELSE f[n - 1] + Share(n, S)]
                  /\ Bytes(S) = f[MaxOffers]
<1> DEFINE Sums(f, k) == f = [n \in 0..k |-> IF n = 0 THEN 0 ELSE f[n - 1] + Share(n, S)]
           summed == {k \in Nat : \E f : Sums(f, k)}
<1>1. 0 \in summed
  <2>1. Sums([n \in 0..0 |-> 0], 0)
    OBVIOUS
  <2> QED BY <2>1
<1>2. ASSUME NEW k \in summed PROVE k + 1 \in summed
  <2>1. PICK f : Sums(f, k)
    OBVIOUS
  <2> DEFINE g == [n \in 0..(k + 1) |-> IF n <= k THEN f[n] ELSE f[k] + Share(n, S)]
  <2>2. \A n \in 0..k : g[n] = f[n]
    OBVIOUS
  <2>3. \A n \in 0..k : f[n] = IF n = 0 THEN 0 ELSE f[n - 1] + Share(n, S)
    <3> HIDE DEF g
    <3> QED BY <2>1, Zenon
  <2>4. \A n \in 0..(k + 1) : g[n] = IF n = 0 THEN 0 ELSE g[n - 1] + Share(n, S)
    <3> SUFFICES ASSUME NEW n \in 0..(k + 1)
                 PROVE  g[n] = IF n = 0 THEN 0 ELSE g[n - 1] + Share(n, S)
      OBVIOUS
    <3>1. CASE n = 0
      BY <2>2, <2>3, <3>1
    <3>2. CASE n \in 1..k
      <4>1. n - 1 \in 0..k
        BY <3>2
      <4> QED BY <2>2, <2>3, <3>2, <4>1
    <3>3. CASE n = k + 1
      BY <2>2, <3>3
    <3> QED BY <3>1, <3>2, <3>3
  <2>5. Sums(g, k + 1)
    <3>1. g = [n \in 0..(k + 1) |-> g[n]]
      OBVIOUS
    <3> HIDE DEF g
    <3> QED BY <2>4, <3>1, Zenon
  <2>6. k + 1 \in Nat /\ \E h : Sums(h, k + 1)
    <3> HIDE DEF g, Sums
    <3> QED BY <2>5
  <2> QED BY <2>6
<1>3. summed = Nat
  <2> HIDE DEF summed
  <2> SUFFICES summed \in SUBSET Nat
    BY <1>1, <1>2, SetInduction
  <2> QED BY DEF summed
<1>4. \E f : Sums(f, MaxOffers)
  BY <1>3, LimitsAssumption
<1> DEFINE sum == CHOOSE f : Sums(f, MaxOffers)
<1>5. Sums(sum, MaxOffers)
  BY <1>4
<1>6. Bytes(S) = sum[MaxOffers]
  BY DEF Bytes, Share
<1> QED BY <1>5, <1>6

\* Nothing weighs nothing, and a line adds its own bytes.
LEMMA BytesAdd ==
    /\ Bytes({}) = 0
    /\ \A S \in SUBSET Lines : Bytes(S) \in Nat
    /\ \A S \in SUBSET Lines : \A e \in Lines \ S : Bytes(S \cup {e}) = Bytes(S) + Size[e]
<1> USE LimitsAssumption
<1>1. ASSUME NEW S, NEW f,
             f = [n \in 0..MaxOffers |-> IF n = 0 THEN 0 ELSE f[n - 1] + Share(n, S)],
             NEW n \in 0..MaxOffers
      PROVE  f[n] = IF n = 0 THEN 0 ELSE f[n - 1] + Share(n, S)
  BY <1>1, Zenon
<1>2. ASSUME NEW good \in SUBSET Nat, 0 \in good,
             \A n \in good : n + 1 \in 1..MaxOffers => n + 1 \in good
      PROVE  MaxOffers \in good
  <2> DEFINE up == {n \in Nat : n <= MaxOffers => n \in good}
  <2>1. 0 \in up /\ \A n \in up : n + 1 \in up
    BY <1>2
  <2>2. up = Nat
    <3>1. up \in SUBSET Nat
      OBVIOUS
    <3> HIDE DEF up
    <3> QED BY <2>1, <3>1, SetInduction
  <2> QED BY <2>2
<1>3. Bytes({}) = 0
  <2>1. PICK f : /\ f = [n \in 0..MaxOffers |-> IF n = 0 THEN 0 ELSE f[n - 1] + Share(n, {})]
                 /\ Bytes({}) = f[MaxOffers]
    BY BytesSum
  <2>2. \A n \in 0..MaxOffers : f[n] = IF n = 0 THEN 0 ELSE f[n - 1] + Share(n, {})
    BY <1>1, <2>1
  <2> DEFINE good == {n \in 0..MaxOffers : f[n] = 0}
  <2>3. 0 \in good /\ \A n \in good : n + 1 \in 1..MaxOffers => n + 1 \in good
    BY <2>2 DEF Share
  <2>4. MaxOffers \in good
    <3>1. good \in SUBSET Nat
      OBVIOUS
    <3> HIDE DEF good
    <3> QED BY <1>2,  <2>3, <3>1
  <2> QED BY <2>1, <2>4
<1>4. ASSUME NEW S \in SUBSET Lines PROVE Bytes(S) \in Nat
  <2>1. PICK f : /\ f = [n \in 0..MaxOffers |-> IF n = 0 THEN 0 ELSE f[n - 1] + Share(n, S)]
                 /\ Bytes(S) = f[MaxOffers]
    BY BytesSum
  <2>2. \A n \in 0..MaxOffers : f[n] = IF n = 0 THEN 0 ELSE f[n - 1] + Share(n, S)
    BY <1>1, <2>1
  <2>3. \A n \in 1..MaxOffers : Share(n, S) \in Nat
    BY SizesAssumption DEF Share, Lines
  <2> DEFINE good == {n \in 0..MaxOffers : f[n] \in Nat}
  <2>4. 0 \in good /\ \A n \in good : n + 1 \in 1..MaxOffers => n + 1 \in good
    BY <2>2, <2>3
  <2>5. MaxOffers \in good
    <3>1. good \in SUBSET Nat
      OBVIOUS
    <3> HIDE DEF good
    <3> QED BY <1>2,  <2>4, <3>1
  <2> QED BY <2>1, <2>5
<1>5. ASSUME NEW S \in SUBSET Lines, NEW e \in Lines \ S
      PROVE  Bytes(S \cup {e}) = Bytes(S) + Size[e]
  <2> DEFINE T == S \cup {e}
  <2>1. PICK f : /\ f = [n \in 0..MaxOffers |-> IF n = 0 THEN 0 ELSE f[n - 1] + Share(n, S)]
                 /\ Bytes(S) = f[MaxOffers]
    BY BytesSum
  <2>2. PICK g : /\ g = [n \in 0..MaxOffers |-> IF n = 0 THEN 0 ELSE g[n - 1] + Share(n, T)]
                 /\ Bytes(T) = g[MaxOffers]
    BY BytesSum
  <2>3. \A n \in 0..MaxOffers : f[n] = IF n = 0 THEN 0 ELSE f[n - 1] + Share(n, S)
    BY <1>1, <2>1
  <2>4. \A n \in 0..MaxOffers : g[n] = IF n = 0 THEN 0 ELSE g[n - 1] + Share(n, T)
    BY <1>1, <2>2
  <2>5. /\ e \in 1..MaxOffers /\ Size[e] \in Nat
        /\ \A n \in 1..MaxOffers : /\ Share(n, S) \in Nat
                                   /\ Share(n, T) = IF n = e THEN Size[e] ELSE Share(n, S)
                                   /\ n = e => Share(n, S) = 0
    BY SizesAssumption DEF Share, Lines
  <2> DEFINE good == {n \in 0..MaxOffers :
                         f[n] \in Nat /\ g[n] = IF n >= e THEN f[n] + Size[e] ELSE f[n]}
  <2>6. 0 \in good
    BY <2>3, <2>4, <2>5
  <2>7. ASSUME NEW n \in good, n + 1 \in 1..MaxOffers PROVE n + 1 \in good
    <3> HIDE DEF T
    <3>1. f[n + 1] = f[n] + Share(n + 1, S) /\ g[n + 1] = g[n] + Share(n + 1, T)
      BY <2>3, <2>4, <2>7
    <3> QED BY <2>5, <2>7, <3>1
  <2>8. MaxOffers \in good
    <3>1. good \in SUBSET Nat
      OBVIOUS
    <3> HIDE DEF good
    <3> QED BY <1>2,  <2>6, <2>7, <3>1
  <2> QED BY <2>1, <2>2, <2>5, <2>8
<1> QED BY <1>3, <1>4, <1>5

-----------------------------------------------------------------------------
(* The batches.                                                            *)

\* The batches stay within their limits as they are cut, charged and removed.
LEMMA FitKept ==
    ASSUME NEW r \in Seq(Batches), AllFit(r)
    PROVE  /\ \A lines \in SUBSET Lines :
                 lines # {} /\ Cardinality(lines) <= BatchSize /\ WithinBytes(lines) =>
                     AllFit(Append(r, NewBatch(lines)))
           /\ r # <<>> => AllFit(Tail(r))
           /\ AllFit(<<>>)
<1>1. DOMAIN r = 1..Len(r) /\ Len(r) \in Nat
  BY LenProperties
<1>2. ASSUME NEW lines \in SUBSET Lines, lines # {}, Cardinality(lines) <= BatchSize,
             WithinBytes(lines)
      PROVE  AllFit(Append(r, NewBatch(lines)))
  <2> DEFINE new == NewBatch(lines)
  <2>1. new \in Batches /\ Fits(new)
    BY <1>2, LinesFinite, LimitsAssumption DEF NewBatch, Batches, Fits
  <2> HIDE DEF new
  <2>2. /\ DOMAIN Append(r, new) = 1..(Len(r) + 1)
        /\ \A i \in 1..Len(r) : Append(r, new)[i] = r[i]
        /\ Append(r, new)[Len(r) + 1] = new
    BY <2>1, LenProperties, AppendProperties
  <2>3. \A i \in DOMAIN Append(r, new) : i \in 1..Len(r) \/ i = Len(r) + 1
    BY <1>1, <2>2
  <2> QED BY <1>1, <2>1, <2>2, <2>3 DEF AllFit, new
<1>3. ASSUME r # <<>> PROVE AllFit(Tail(r))
  <2>1. /\ DOMAIN Tail(r) = 1..(Len(r) - 1)
        /\ \A i \in 1..(Len(r) - 1) : Tail(r)[i] = r[i + 1]
    BY <1>3, LenProperties, HeadTailProperties, EmptySeq
  <2>2. \A i \in 1..(Len(r) - 1) : i + 1 \in DOMAIN r
    BY <1>1
  <2> QED BY <2>1, <2>2 DEF AllFit
<1>4. AllFit(<<>>)
  BY DEF AllFit
<1> QED BY <1>2, <1>3, <1>4

\* A batch that is charged has an attempt left.
LEMMA ChargedFits ==
    ASSUME Delivering, retries \in Seq(Batches), AllFit(retries), ~AgesOut
    PROVE  AllFit(Charged)
<1>1. /\ Len(retries) \in Nat /\ 1 \in 1..Len(retries) /\ DOMAIN retries = 1..Len(retries)
      /\ Head(retries) = retries[1] /\ retries[1] \in Batches
  BY DEF Delivering
<1>2. \A i \in DOMAIN retries : i # 1 => Charged[i] = retries[i]
  BY DEF Charged
<1>3. DOMAIN Charged = DOMAIN retries /\ Charged[1].lines = retries[1].lines
  BY <1>1, HeadShape
<1>4. Charged[1].attempts = retries[1].attempts + 1
  <2>1. Charged[1] = [retries[1] EXCEPT !.attempts = retries[1].attempts + 1]
    BY <1>1 DEF Charged
  <2>2. "attempts" \in DOMAIN retries[1]
    BY <1>1 DEF Batches
  <2> QED BY <2>1, <2>2, Zenon
<1>5. retries[1].attempts + 1 <= MaxRetries
  BY <1>1, LimitsAssumption DEF AgesOut, Batches
<1> QED BY <1>1, <1>2, <1>3, <1>4, <1>5 DEF AllFit, Fits

\* A batch is cut before it is over a limit, and dropped before it is tried
\* once too often.
LEMMA LimitedStep ==
    ASSUME ShapeOK, ControlOK, Limited, hand # 0 => \A e \in current : e < hand,
           [Next]_vars
    PROVE  Limited'
<1>a. /\ retries \in Seq(Batches) /\ current \in SUBSET Lines /\ current_bytes \in Nat
      /\ BatchSize \in Nat \ {0} /\ ByteLimit \in Nat \ {0}
  BY LimitsAssumption DEF ShapeOK
<1>b. Cardinality({}) = 0
  BY FS_EmptySet
<1>c. /\ AllFit(retries) /\ Cardinality(current) < BatchSize /\ current_bytes < ByteLimit
      /\ current_bytes = Bytes(current) /\ Bytes({}) = 0
  BY BytesAdd DEF Limited
<1>h. Cardinality(current) <= BatchSize /\ WithinBytes(current)
  <2>1. Cardinality(current) <= BatchSize
    BY <1>a, <1>c, LinesFinite
  <2>2. ASSUME NEW e \in current PROVE Bytes(current \ {e}) < ByteLimit
    <3> DEFINE rest == current \ {e}
    <3>1. rest \in SUBSET Lines /\ e \in Lines \ rest /\ current = rest \cup {e}
      BY <1>a
    <3> HIDE DEF rest
    <3>2. Bytes(current) = Bytes(rest) + Size[e] /\ Bytes(rest) \in Nat /\ Size[e] \in Nat
      BY <3>1, BytesAdd, SizesAssumption
    <3>3. Bytes(rest) < ByteLimit
      BY <1>a, <1>c, <3>2
    <3> QED BY <3>3 DEF rest
  <2> QED BY <2>1, <2>2 DEF WithinBytes
\* The batches are as they were.
<1>d. ASSUME UNCHANGED <<current, current_bytes, retries>> PROVE Limited'
  BY <1>c, <1>d DEF Limited
\* A batch is cut.
<1>e. ASSUME NEW lines \in SUBSET Lines, Cardinality(lines) <= BatchSize, WithinBytes(lines),
             lines = {} => current = {}, Cut(lines)
      PROVE  Limited'
  <2>1. current' = {} /\ current_bytes' = 0
    BY <1>c, <1>e DEF Cut
  <2>2. AllFit(retries')
    BY <1>a, <1>c, <1>e, FitKept DEF Cut
  <2> QED BY <1>a, <1>b, <1>c, <2>1, <2>2 DEF Limited
\* The head goes.
<1>f. ASSUME retries # <<>>, retries' = Tail(retries), UNCHANGED <<current, current_bytes>>
      PROVE  Limited'
  BY <1>a, <1>c, <1>f, FitKept DEF Limited
\* Everything goes.
<1>g. ASSUME retries' = <<>>, current' = {}, current_bytes' = 0 PROVE Limited'
  BY <1>a, <1>b, <1>c, <1>g, FitKept DEF Limited
<1>1. CASE TryEnqueue \/ MinutePasses \/ UNCHANGED vars
  BY <1>1, <1>d DEF TryEnqueue, MinutePasses, vars, workerVars, queueVars, batchVars
<1>2. ASSUME NEW f \in Flushes, FlushBegin(f) PROVE Limited'
  BY <1>2, <1>d DEF FlushBegin, workerVars, queueVars, batchVars
<1>3. CASE ShutdownBegin \/ Detach \/ DropClient
  BY <1>3, <1>d DEF ShutdownBegin, Detach, DropClient, workerVars, queueVars, batchVars
<1>4. CASE RecvControl \/ RecvEvent \/ Disconnected
  BY <1>4, <1>d DEF RecvControl, RecvEvent, Disconnected, queueVars, batchVars
<1>5. CASE Wake
  BY <1>5, <1>a, <1>h, <1>d, <1>e DEF Wake, batchVars
<1>6. CASE Shed
  BY <1>6, <1>f DEF Shed, PopHead, batchVars
<1>7. CASE Refuse
  BY <1>7, <1>d DEF Refuse, queueVars, batchVars
<1>8. CASE Admit
  <2> DEFINE lines == current \cup {hand}
             bytes == current_bytes + Size[hand]
  <2>1. hand \in Lines /\ lines \in SUBSET Lines
    BY <1>8 DEF Admit, ControlOK, ShapeOK
  <2>2. Cardinality(lines) <= Cardinality(current) + 1 /\ Cardinality(current) \in Nat
        /\ Cardinality(lines) \in Nat
    BY <1>a, <2>1, LinesFinite, FS_AddElement
  <2>3. Cardinality(lines) <= BatchSize
    BY <1>a, <1>c, <2>2
  <2>4. bytes \in Nat
    BY <1>a, <2>1, SizesAssumption
  <2>7. \A e \in current : e < hand
    BY <2>1, LimitsAssumption DEF Lines
  <2>8. bytes = Bytes(lines)
    <3>1. hand \in Lines \ current
      BY <1>a, <2>1, <2>7 DEF Lines
    <3> QED BY <1>a, <1>c, <3>1, BytesAdd
  <2>5. CASE Full(lines, bytes)
    <3>1. Cut(lines)
      BY <1>8, <2>5 DEF Admit
    <3>2. WithinBytes(lines)
      <4>1. ASSUME NEW e \in lines, \A f \in lines : f <= e PROVE lines \ {e} = current
        <5>1. e = hand /\ hand \notin current
          BY <1>a, <2>1, <2>7, <4>1 DEF Lines
        <5> QED BY <5>1
      <4>2. Bytes(current) < ByteLimit
        BY <1>c
      <4> HIDE DEF lines
      <4> QED BY <4>1, <4>2 DEF WithinBytes
    <3>3. lines # {}
      OBVIOUS
    <3> HIDE DEF lines
    <3> QED BY <1>e, <2>1, <2>3, <3>1, <3>2, <3>3
  <2>6. CASE ~Full(lines, bytes)
    <3>1. current' = lines /\ current_bytes' = bytes /\ retries' = retries
      BY <1>8, <2>6 DEF Admit
    <3>2. Cardinality(lines) < BatchSize /\ bytes < ByteLimit
      BY <1>a, <2>2, <2>4, <2>6 DEF Full
    <3> HIDE DEF lines, bytes
    <3> QED BY <1>c, <2>8, <3>1, <3>2 DEF Limited
  <2> QED BY <2>5, <2>6
<1>9. CASE DrainDone
  BY <1>9, <1>a, <1>h, <1>e DEF DrainDone
<1>10. CASE DeliverSuccess \/ DeliverDrop
  BY <1>10, <1>f DEF DeliverSuccess, DeliverDrop, Delivering, PopHead, batchVars
<1>11. ASSUME Delivering, Burn, UNCHANGED batchVars PROVE Limited'
  <2>1. CASE AgesOut
    BY <1>11, <2>1, <1>f DEF Burn, Delivering, PopHead, batchVars
  <2>2. CASE ~AgesOut
    <3>1. AllFit(Charged)
      BY <1>a, <1>c, <1>11, <2>2, ChargedFits
    <3> QED BY <1>c, <1>11, <2>2, <3>1 DEF Burn, batchVars, Limited
  <2> QED BY <2>1, <2>2
<1>12. CASE DeliverRetry
  BY <1>11, <1>12 DEF DeliverRetry
<1>13. ASSUME NEW burn \in BOOLEAN, DeliverThrottle(burn) PROVE Limited'
  <2>1. CASE burn
    BY <1>11, <1>13, <2>1 DEF DeliverThrottle
  <2>2. CASE ~burn
    BY <1>13, <2>2, <1>d DEF DeliverThrottle, queueVars, batchVars
  <2> QED BY <2>1, <2>2
<1>14. CASE DeliverSuspend \/ AnswerShutdown
  BY <1>14, <1>g DEF DeliverSuspend, AnswerShutdown
<1>15. CASE SendDone \/ AnswerFlush \/ DiscardDone
  BY <1>15, <1>d DEF SendDone, AnswerFlush, DiscardDone, queueVars, batchVars
<1>16. CASE SuspendedRecv \/ SuspensionOver \/ SuspendedDisconnected \/ DiscardOne
  BY <1>16, <1>d
  DEF SuspendedRecv, SuspensionOver, SuspendedDisconnected, DiscardOne, queueVars, batchVars
<1>17. CASE DeadlinePasses \/ SuspensionPasses \/ BackoffPasses
  BY <1>17, <1>d DEF DeadlinePasses, SuspensionPasses, BackoffPasses, queueVars, batchVars
<1> QED
  BY <1>1, <1>2, <1>3, <1>4, <1>5, <1>6, <1>7, <1>8, <1>9, <1>10, <1>12, <1>13, <1>14,
     <1>15,
     <1>16, <1>17
  DEF Next, Callers, Worker, Clock, Deliver

-----------------------------------------------------------------------------
(* The invariant, and what follows from it.                                *)

\* A worker that has started owes nobody anything.
LEMMA InitPInv == Init => PInv
<1> SUFFICES ASSUME Init PROVE PInv
  OBVIOUS
<1> USE MessagesAssumption
<1>1. IInv
  BY InitIInv
<1>2. Stopping /\ Returning
  BY DEF Init, Stopping, Returning
<1>3. Sent = {} /\ Len(control) = 0
  BY DEF Init, Sent
<1>4. Serving
  BY <1>3 DEF Init, Serving, Messages
<1>5. Barriers
  BY DEF Init, Barriers, Drained
<1>6. Backoffs
  BY DEF Init, Backoffs
<1>7. Limited
  BY LimitsAssumption, FS_EmptySet, BytesAdd DEF Init, Limited, AllFit
<1> QED BY <1>1, <1>2, <1>4, <1>5, <1>6, <1>7 DEF PInv

\* Every step keeps the invariant.
LEMMA StepPInv == PInv /\ [Next]_vars => PInv'
<1> SUFFICES ASSUME PInv, [Next]_vars PROVE PInv'
  OBVIOUS
<1>1. ShapeOK /\ ControlOK /\ Known
  BY DEF PInv, IInv, TypeOK
<1>2. Stopping /\ Returning /\ Serving /\ Barriers /\ Backoffs /\ Limited
  BY DEF PInv
<1>3. IInv'
  BY StepIInv DEF PInv
<1>4. Stopping'
  BY <1>1, <1>2, StoppingStep
<1>5. Returning'
  BY <1>1, <1>2, ReturningStep
<1>6. Serving'
  BY <1>1, <1>2, ServingStep
<1>7. Barriers'
  BY <1>1, <1>2, BarriersStep
<1>8. Backoffs'
  BY <1>1, <1>2, BackoffsStep
<1>9. Limited'
  <2>1. hand # 0 => \A e \in current : e < hand
    <3>1. Before(current, InHand \cup Queued(events))
      BY DEF PInv, IInv, Fifo, InOrder
    <3>2. hand # 0 => hand \in InHand
      BY DEF InHand
    <3> QED BY <3>1, <3>2 DEF Before
  <2> QED BY <1>1, <1>2, <2>1, LimitedStep
<1> QED BY <1>3, <1>4, <1>5, <1>6, <1>7, <1>8, <1>9 DEF PInv

\* Whatever callers, worker and clock do, control and batches stay so.
THEOREM ControlInvariance == Spec => []PInv
BY InitPInv, StepPInv, PTL DEF Spec

\* If a backoff can be represented at all, no full batch and no time trigger
\* ever bypasses it, and a batch that has failed is tried again only when it is
\* over; if it cannot, schedule_retry() arms none and there is none to respect.
THEOREM BackoffKept == Representable => (Spec => []BackoffRespected)
<1> SUFFICES ASSUME Representable PROVE Spec => []BackoffRespected
  OBVIOUS
<1>1. PInv => BackoffRespected
  BY DEF PInv, IInv, TypeOK, ShapeOK, Timers, Backoffs, BackoffRespected
<1> QED BY <1>1, ControlInvariance, PTL

\* No batch ever outgrows events_batch_size, nor the byte limit by more than the
\* line that cut it; current_bytes is what the accumulating one weighs; none is
\* retained that has no attempts left, and none behind the head of the retry
\* queue has spent any.
THEOREM BatchesKept == Spec => []BatchesBounded
<1>1. PInv => BatchesBounded
  BY DEF PInv, Limited, AllFit, Fits, Backoffs, BatchesBounded
<1> QED BY <1>1, ControlInvariance, PTL

\* When shutdown() hears its acknowledgement the pipeline is empty and every
\* loss before it has been summarised, whichever of the two paths answers it.
THEOREM ShutdownIsComplete == Spec => ShutdownLeavesNothing
<1>1. ASSUME PInv, [Next]_vars, shut' = "acked", shut # "acked"
      PROVE  Pending' = {} /\ discarded' = 0 /\ dropped' <= offered' - before[Shutdown]
  <2>1. /\ Emptied' /\ discarded' = 0 /\ dropped' = 0
        /\ UNCHANGED <<offered, before>>
    BY <1>1, AckedEmpty DEF PInv, IInv, TypeOK
  <2>2. Pending' = {}
    BY <2>1 DEF Emptied, Pending, HeldLines, LinesIn, InHand, Queued
  <2>3. before[Shutdown] <= offered /\ before[Shutdown] \in Int /\ offered \in Int
    BY <1>1 DEF PInv, IInv, TypeOK, ShapeOK, Barriers, Messages
  <2> QED BY <2>1, <2>2, <2>3
<1>2. PInv /\ [Next]_vars
        => [shut' = "acked" /\ shut # "acked" =>
              /\ Pending' = {}
              /\ discarded' = 0
              /\ dropped' <= offered' - before[Shutdown]]_vars
  BY <1>1
<1> QED BY <1>2, ControlInvariance, PTL DEF Spec, ShutdownLeavesNothing

-----------------------------------------------------------------------------
(* The promise of Pipeline.                                                *)

\* Promise's count of lost lines.
Lost == Recorded + discarded

\* What comes before has nothing in common with what comes after.
LEMMA Apart ==
    ASSUME NEW S \in SUBSET Lines, NEW T \in SUBSET Lines, Before(S, T)
    PROVE  S \cap T = {}
BY DEF Before, Lines

\* The count of lost lines goes up by what the drop counter is told, or by what
\* is discarded.
LEMMA LossCount ==
    ASSUME DropTypeOK, DropTypeOK', discarded \in Nat
    PROVE  /\ Lost \in Nat
           /\ \A n \in Nat : Counted(n) /\ discarded' = discarded => Lost' = Lost + n
           /\ Counted(0) /\ discarded' = discarded => Lost' = Lost
           /\ Counted(0) /\ discarded' = discarded + 1 => Lost' = Lost + 1
           /\ Counted(discarded) /\ discarded' = 0 => Lost' = Lost
<1> DEFINE now == dropped + reported
           later == dropped' + reported'
<1>1. now \in Nat /\ later \in Nat
  <2>1. ASSUME NEW d \in Nat, NEW r \in Nat PROVE d + r \in Nat
    OBVIOUS
  <2> QED BY <2>1, Zenon DEF DropTypeOK
<1>2. Lost = now + discarded /\ Lost' = later + discarded'
  BY DEF Lost, Recorded
<1>3. \A n : Counted(n) => later = now + n
  BY DEF Counted
<1> HIDE DEF now, later
<1> QED BY <1>1, <1>2, <1>3

\* What the effects are to somebody who sees no batch, no hand and no channel.
LEMMA EffectsOutside ==
    ASSUME TypeOK, ControlOK, Fifo, CountersAgree, DropTypeOK'
    PROVE  /\ Enqueued => Pending' = Pending \cup {offered + 1} /\ Lost' = Lost
           /\ Rejected => Pending' = Pending /\ Lost' = Lost + 1
           /\ (Received \/ Joined \/ WasCut \/ HeadCharged \/ DiscardsCounted \/ Unmoved)
                 => Pending' = Pending /\ Lost' = Lost
           /\ Refused => /\ hand \in Pending /\ Pending' = Pending \ {hand}
                         /\ Lost' = Lost + 1
           /\ DiscardedOne => /\ Head(events) \in Pending
                              /\ Pending' = Pending \ {Head(events)}
                              /\ Lost' = Lost + 1
           /\ AllLost => /\ HeldLines \subseteq Pending /\ Pending' = Pending \ HeldLines
                         /\ Lost' = Lost + Cardinality(HeldLines)
           /\ HeadLost => /\ Head(retries).lines \subseteq Pending
                          /\ Pending' = Pending \ Head(retries).lines
                          /\ Lost' = Lost + Cardinality(Head(retries).lines)
           /\ HeadDelivered => /\ Head(retries).lines \subseteq Pending
                               /\ Pending' = Pending \ Head(retries).lines
                               /\ Before(Head(retries).lines, Pending')
                               /\ Lost' = Lost
<1>1. /\ retries \in Seq(Batches) /\ events \in Seq(Lines) /\ current \in SUBSET Lines
      /\ hand \in Lines \cup {0} /\ offered \in 0..MaxOffers /\ 0 \notin Lines
      /\ MaxOffers \in Nat /\ discarded \in Nat /\ outstanding \in Nat
      /\ DropTypeOK /\ DropTypeOK' /\ 1 \in Nat
  BY LimitsAssumption DEF TypeOK, ShapeOK, Lines
<1>2. /\ LinesIn(retries) \in SUBSET Lines /\ Queued(events) \in SUBSET Lines
      /\ HeldLines \in SUBSET Lines /\ InHand \in SUBSET Lines
  BY <1>1, LinesInType, QueuedType DEF HeldLines, InHand
<1>3. /\ Before(LinesIn(retries), current \cup InHand \cup Queued(events))
      /\ Before(current, InHand \cup Queued(events))
      /\ Before(InHand, Queued(events))
  BY DEF Fifo, InOrder
<1>4. HeldLines \cap (InHand \cup Queued(events)) = {} /\ InHand \cap Queued(events) = {}
  <2>1. Before(HeldLines, InHand \cup Queued(events))
    BY <1>3 DEF Before, HeldLines
  <2> QED BY <1>2, <1>3, <2>1, Apart
<1>5. ASSUME Enqueued PROVE Pending' = Pending \cup {offered + 1} /\ Lost' = Lost
  <2>1. offered + 1 \in Lines
    BY <1>1, <1>5 DEF Enqueued, Lines
  <2>2. Queued(events') = Queued(events) \cup {offered + 1}
    BY <1>1, <1>5, <2>1, QueuedAppend DEF Enqueued
  <2>3. Pending' = Pending \cup {offered + 1}
    BY <1>5, <2>2 DEF Enqueued, Pending, HeldLines, InHand
  <2>4. Lost' = Lost
    BY <1>1, <1>5, LossCount DEF Enqueued
  <2> QED BY <2>3, <2>4
<1>6. ASSUME Rejected PROVE Pending' = Pending /\ Lost' = Lost + 1
  BY <1>1, <1>6, LossCount DEF Rejected, Pending, HeldLines, InHand
<1>7. ASSUME Received PROVE Pending' = Pending /\ Lost' = Lost
  <2>1. InHand = {} /\ InHand' = {Head(events)}
    BY <1>1, <1>7, HeadTailProperties DEF Received, InHand
  <2>2. Queued(events) = {Head(events)} \cup Queued(events')
    BY <1>1, <1>7, QueuedTail DEF Received
  <2>3. Pending' = Pending
    BY <1>7, <2>1, <2>2 DEF Received, Pending, HeldLines
  <2>4. Lost' = Lost
    BY <1>1, <1>7, LossCount DEF Received, Still
  <2> QED BY <2>3, <2>4
<1>8. ASSUME NEW lines \in SUBSET Lines, retries' = Append(retries, NewBatch(lines))
      PROVE  LinesIn(retries') = LinesIn(retries) \cup lines
  <2>1. NewBatch(lines) \in Batches /\ NewBatch(lines).lines = lines
    BY LinesFinite DEF NewBatch, Batches
  <2> QED BY <1>1, <1>8, <2>1, LinesInAppend
<1>9. ASSUME Joined PROVE Pending' = Pending /\ Lost' = Lost
  <2>1. InHand = {hand} /\ InHand' = {} /\ current \cup {hand} \in SUBSET Lines
    BY <1>1, <1>9 DEF Joined, InHand
  <2>2. HeldLines' = HeldLines \cup {hand}
    BY <1>8, <1>9, <2>1 DEF Joined, HeldLines
  <2>3. Pending' = Pending
    BY <1>9, <2>1, <2>2 DEF Joined, Pending
  <2>4. Lost' = Lost
    BY <1>1, <1>9, LossCount DEF Joined, Still
  <2> QED BY <2>3, <2>4
<1>10. ASSUME WasCut PROVE Pending' = Pending /\ Lost' = Lost
  <2>1. HeldLines' = HeldLines
    BY <1>1, <1>8, <1>10 DEF WasCut, HeldLines
  <2> QED BY <1>1, <1>10, <2>1, LossCount DEF WasCut, Still, Pending, InHand
<1>11. ASSUME HeadCharged PROVE Pending' = Pending /\ Lost' = Lost
  <2>1. HeldLines' = HeldLines
    BY <1>1, <1>11, ChargedLines DEF HeadCharged, HeldLines
  <2> QED BY <1>1, <1>11, <2>1, LossCount DEF HeadCharged, Still, Pending, InHand
<1>12. ASSUME DiscardsCounted \/ Unmoved PROVE Pending' = Pending /\ Lost' = Lost
  <2>1. Pending' = Pending
    BY <1>12 DEF DiscardsCounted, Unmoved, Pending, HeldLines, InHand
  <2> QED BY <1>1, <1>12, <2>1, LossCount DEF DiscardsCounted, Unmoved, Still
<1>13. ASSUME Refused
       PROVE  hand \in Pending /\ Pending' = Pending \ {hand} /\ Lost' = Lost + 1
  <2>1. InHand = {hand} /\ InHand' = {}
    BY <1>13 DEF Refused, InHand
  <2>2. Pending' = Pending \ {hand} /\ hand \in Pending
    BY <1>4, <1>13, <2>1 DEF Refused, Pending, HeldLines
  <2>3. Lost' = Lost + 1
    BY <1>1, <1>13, LossCount DEF Refused, Still
  <2> QED BY <2>2, <2>3
<1>14. ASSUME DiscardedOne
       PROVE  /\ Head(events) \in Pending /\ Pending' = Pending \ {Head(events)}
              /\ Lost' = Lost + 1
  <2>1. Queued(events) = {Head(events)} \cup Queued(events')
    BY <1>1, <1>14, QueuedTail DEF DiscardedOne
  <2>2. Head(events) \notin Queued(events')
    <3>1. Before({Head(events)}, Queued(events'))
      <4>1. \A i, j \in DOMAIN events : i < j => events[i] < events[j]
        BY DEF Fifo, InOrder
      <4>2. /\ Len(events) \in Nat \ {0} /\ DOMAIN events = 1..Len(events)
            /\ DOMAIN events' = 1..(Len(events) - 1)
            /\ \A i \in 1..(Len(events) - 1) : events'[i] = events[i + 1]
            /\ Head(events) = events[1]
        BY <1>1, <1>14, LenProperties, HeadTailProperties, EmptySeq DEF DiscardedOne
      <4> SUFFICES ASSUME NEW i \in 1..(Len(events) - 1) PROVE Head(events) < events'[i]
        BY <4>2 DEF Before, Queued
      <4>3. 1 \in DOMAIN events /\ i + 1 \in DOMAIN events /\ 1 < i + 1
        BY <4>2
      <4> QED BY <4>1, <4>2, <4>3
    <3>2. {Head(events)} \in SUBSET Lines /\ Queued(events') \in SUBSET Lines
      BY <1>2, <2>1
    <3> QED BY <3>1, <3>2, Apart
  <2>3. HeldLines' = HeldLines /\ InHand' = InHand
    BY <1>14 DEF DiscardedOne, HeldLines, InHand
  <2>4. Pending' = Pending \ {Head(events)} /\ Head(events) \in Pending
    BY <1>4, <2>1, <2>2, <2>3 DEF Pending
  <2>5. Lost' = Lost + 1
    BY <1>1, <1>14, LossCount DEF DiscardedOne
  <2> QED BY <2>4, <2>5
<1>15. ASSUME AllLost
       PROVE  /\ HeldLines \subseteq Pending /\ Pending' = Pending \ HeldLines
              /\ Lost' = Lost + Cardinality(HeldLines)
  <2>1. HeldLines' = {} /\ InHand' = InHand /\ Queued(events') = Queued(events)
    BY <1>15 DEF AllLost, HeldLines, LinesIn, InHand
  <2>2. HeldLines \subseteq Pending /\ Pending' = Pending \ HeldLines
    BY <1>4, <2>1 DEF Pending
  <2>3. Lost' = Lost + outstanding
    BY <1>1, <1>15, LossCount DEF AllLost, Still
  <2> QED BY <2>2, <2>3 DEF CountersAgree
\* The head of the retry queue leaves with all its lines.
<1>16. ASSUME retries # <<>>, retries' = Tail(retries), UNCHANGED <<events, hand, current>>
       PROVE  /\ Head(retries).lines \subseteq Pending
              /\ Pending' = Pending \ Head(retries).lines
              /\ Before(Head(retries).lines, Pending')
              /\ Head(retries).events = Cardinality(Head(retries).lines)
              /\ Head(retries).events \in Nat
  <2> DEFINE head == Head(retries).lines
             rest == LinesIn(retries') \cup current \cup InHand \cup Queued(events)
  <2>1. LinesIn(retries) = head \cup LinesIn(retries')
    BY <1>1, <1>16, LinesInTail
  <2>2. Pending = head \cup rest /\ Pending' = rest
    BY <1>16, <2>1 DEF Pending, HeldLines, InHand
  <2>3. Before(head, rest)
    <3>1. InOrder(delivered \cup head, retries', current, InHand, events)
      BY <1>1, <1>16, OrderPop DEF Fifo
    <3> QED BY <3>1 DEF InOrder, Before
  <2>4. head \cap rest = {}
    <3>1. head \in SUBSET Lines /\ rest \in SUBSET Lines
      BY <1>1, <1>2, <2>1
    <3> QED BY <2>3, <3>1, Apart
  <2>5. Head(retries).events = Cardinality(head) /\ Head(retries).events \in Nat
    <3>1. Head(retries) = retries[1] /\ 1 \in DOMAIN retries
      BY <1>1, <1>16, LenProperties, HeadTailProperties, EmptySeq
    <3> QED BY <1>16, <3>1, HeadCount DEF CountersAgree
  <2> QED BY <2>2, <2>3, <2>4, <2>5
<1>17. ASSUME HeadLost
       PROVE  /\ Head(retries).lines \subseteq Pending
              /\ Pending' = Pending \ Head(retries).lines
              /\ Lost' = Lost + Cardinality(Head(retries).lines)
  <2>1. retries # <<>> /\ retries' = Tail(retries) /\ UNCHANGED <<events, hand, current>>
    BY <1>17 DEF HeadLost, PopHead
  <2>2. Lost' = Lost + Head(retries).events
    BY <1>1, <1>16, <1>17, <2>1, LossCount DEF HeadLost, Still
  <2> QED BY <1>16, <2>1, <2>2
<1>18. ASSUME HeadDelivered
       PROVE  /\ Head(retries).lines \subseteq Pending
              /\ Pending' = Pending \ Head(retries).lines
              /\ Before(Head(retries).lines, Pending')
              /\ Lost' = Lost
  <2>1. retries # <<>> /\ retries' = Tail(retries) /\ UNCHANGED <<events, hand, current>>
    BY <1>18 DEF HeadDelivered, PopHead
  <2>2. Lost' = Lost
    BY <1>1, <1>18, LossCount DEF HeadDelivered
  <2> QED BY <1>16, <2>1, <2>2
<1> QED
  BY <1>5, <1>6, <1>7, <1>9, <1>10, <1>11, <1>12, <1>13, <1>14, <1>15, <1>17, <1>18

\* The answers a step gives, if it gives any, as Promise gives them.
LEMMA AnswersOutside ==
    ASSUME \A m \in Messages : Heard[m] # "pending" => Heard'[m] = Heard[m],
           \A m \in Messages : Heard[m] = "pending" =>
              /\ Heard'[m] \in {"pending", "yes", "no", "lost"}
              /\ Heard'[m] = "yes" => \A e \in Pending' : e > before[m]
              /\ Heard'[m] = "lost" => pc' = "exited"
              /\ Heard'[m] = "pending" => pc' # "exited"
    PROVE  Promise!Answer
<1> DEFINE waiters == {m \in Messages : Heard[m] = "pending"}
           heard == [m \in waiters |-> Heard'[m]]
<1>1. heard \in [waiters -> {"pending", "yes", "no", "lost"}]
  OBVIOUS
<1>2. Heard' = [m \in Messages |-> IF m \in waiters THEN heard[m] ELSE Heard[m]]
  <2>1. \A m \in Messages : Heard'[m] = IF m \in waiters THEN heard[m] ELSE Heard[m]
    OBVIOUS
  <2>2. Heard' = [m \in Messages |-> Heard'[m]]
    BY DEF Heard
  <2> HIDE DEF heard, waiters
  <2> QED BY <2>1, <2>2
<1>3. \A m \in waiters :
         /\ heard[m] = "yes" => \A e \in Pending' : e > before[m]
         /\ heard[m] = "lost" => (pc = "exited")'
         /\ heard[m] = "pending" => ~(pc = "exited")'
  OBVIOUS
<1> HIDE DEF heard
<1> QED BY <1>1, <1>2, <1>3 DEF Promise!Answer

\* Promise counts as this module does.
LEMMA SameCount ==
    ASSUME NEW S
    PROVE  Promise!Cardinality(S) = Cardinality(S)
BY DEF Promise!Cardinality, Cardinality

\* A step that loses what leaves the pipeline loses it as Promise says.
LEMMA LosesThem ==
    ASSUME Pending' \subseteq Pending, delivered' = delivered,
           Lost' = Lost + Cardinality(Pending \ Pending')
    PROVE  Promise!Lose
<1>1. Pending' \in SUBSET Pending
  OBVIOUS
<1>2. (Recorded + discarded)'
         = Recorded + discarded + Promise!Cardinality(Pending \ Pending')
  BY SameCount, Zenon DEF Lost
<1> QED BY <1>1, <1>2, Zenon DEF Promise!Lose

\* Whatever else a step of the worker does, lines leave the pipeline by being
\* delivered, the oldest first and never after a shutdown is acknowledged, or
\* by being lost and counted.
LEMMA LinesLeave ==
    ASSUME PInv, DropTypeOK', Effect, offered' = offered
    PROVE  Promise!Take \/ Promise!Lose
<1>1. /\ TypeOK /\ ControlOK /\ Fifo /\ CountersAgree /\ Barriers
      /\ offered \in Nat /\ DropTypeOK /\ discarded \in Nat /\ Shutdown \in Messages
  BY LimitsAssumption DEF PInv, IInv, TypeOK, ShapeOK, Messages
<1>2. Lost \in Nat
  BY <1>1, LossCount
<1>3. ~Enqueued /\ ~Rejected
  <2>1. offered + 1 # offered
    BY <1>1
  <2> QED BY <2>1 DEF Enqueued, Rejected
<1>4. CASE Received \/ Joined \/ WasCut \/ HeadCharged \/ DiscardsCounted \/ Unmoved
  <2>1. Pending' = Pending /\ Lost' = Lost
    BY <1>1, <1>4, EffectsOutside
  <2>2. Pending \ Pending' = {} /\ Cardinality({}) = 0
    BY <2>1, FS_EmptySet
  <2>3. Lost' = Lost + Cardinality(Pending \ Pending')
    BY <1>2, <2>1, <2>2
  <2>4. delivered' = delivered
    BY <1>4 DEF Received, Joined, WasCut, HeadCharged, DiscardsCounted, Unmoved, Still
  <2> QED BY <2>1, <2>3, <2>4, LosesThem
<1>5. ASSUME NEW S \in SUBSET Pending, Pending' = Pending \ S, Lost' = Lost + Cardinality(S),
             delivered' = delivered
      PROVE  Promise!Lose
  <2>1. Pending \ Pending' = S
    BY <1>5
  <2> QED BY <1>5, <2>1, LosesThem
<1>6. ASSUME NEW e \in Pending, Pending' = Pending \ {e}, Lost' = Lost + 1,
             delivered' = delivered
      PROVE  Promise!Lose
  <2>1. Cardinality({e}) = 1
    BY FS_Singleton
  <2> QED BY <1>5, <1>6, <2>1
<1>7. CASE Refused
  <2>1. hand \in Pending /\ Pending' = Pending \ {hand} /\ Lost' = Lost + 1
    BY <1>1, <1>7, EffectsOutside
  <2> QED BY <1>6, <1>7, <2>1 DEF Refused, Still
<1>8. CASE DiscardedOne
  <2>1. /\ Head(events) \in Pending /\ Pending' = Pending \ {Head(events)}
        /\ Lost' = Lost + 1
    BY <1>1, <1>8, EffectsOutside
  <2> QED BY <1>6, <1>8, <2>1 DEF DiscardedOne
<1>9. CASE AllLost
  <2>1. /\ HeldLines \subseteq Pending /\ Pending' = Pending \ HeldLines
        /\ Lost' = Lost + Cardinality(HeldLines)
    BY <1>1, <1>9, EffectsOutside
  <2> QED BY <1>5, <1>9, <2>1 DEF AllLost, Still
<1>10. CASE HeadLost
  <2>1. /\ Head(retries).lines \subseteq Pending
        /\ Pending' = Pending \ Head(retries).lines
        /\ Lost' = Lost + Cardinality(Head(retries).lines)
    BY <1>1, <1>10, EffectsOutside
  <2> QED BY <1>5, <1>10, <2>1 DEF HeadLost, Still
<1>11. CASE HeadDelivered
  <2> DEFINE head == Head(retries).lines
  <2>1. /\ head \subseteq Pending /\ Pending' = Pending \ head
        /\ Before(head, Pending') /\ Lost' = Lost
    BY <1>1, <1>11, EffectsOutside
  <2>2. delivered' = delivered \cup head /\ retries # <<>>
    BY <1>11 DEF HeadDelivered
  <2>3. \A s \in {Shutdown} : Heard[s] # "yes"
    <3>1. shut # "acked"
      BY <1>1, <2>2 DEF Barriers
    <3>2. shut \in {"idle", "pending", "detached"}
      BY <1>1, <3>1 DEF TypeOK, ShapeOK
    <3> QED BY <1>1, <3>2, MessagesAssumption DEF Heard, ShutHeard
  <2>4. Pending \ Pending' = head
    BY <2>1
  <2>5. \A old \in Pending \ Pending', new \in Pending' : old < new
    BY <2>1, <2>4 DEF Before
  <2>6. /\ delivered' = delivered \cup (Pending \ Pending')
        /\ Pending' \in SUBSET Pending
        /\ (Recorded + discarded)' = Recorded + discarded
    BY <2>1, <2>2, <2>4, Zenon DEF Lost
  <2> QED BY <2>3, <2>5, <2>6, Zenon DEF Promise!Take
<1> QED BY <1>3, <1>4, <1>7, <1>8, <1>9, <1>10, <1>11 DEF Effect

\* Whoever calls hears what this module keeps for it.
LEMMA HeardBy ==
    /\ \A f \in Flushes : f \in Messages /\ Heard[f] = acks[f] /\ Heard'[f] = acks'[f]
    /\ Shutdown \in Messages
    /\ Heard[Shutdown] = ShutHeard /\ Heard'[Shutdown] = ShutHeard'
<1> USE MessagesAssumption
<1>1. Shutdown \in Messages /\ \A f \in Flushes : f \in Messages /\ f # Shutdown
  BY DEF Messages
<1>2. \A f \in Flushes : Heard[f] = acks[f] /\ Heard'[f] = acks'[f]
  BY <1>1 DEF Heard
<1>3. Heard[Shutdown] = ShutHeard
  BY <1>1 DEF Heard
<1>4. Heard'[Shutdown] = ShutHeard'
  BY <1>1 DEF Heard
<1> QED BY <1>1, <1>2, <1>3, <1>4

\* One call hears something, and nobody else.
LEMMA OneHears ==
    ASSUME NEW m \in Messages, NEW answer, Heard'[m] = answer,
           \A n \in Messages : n # m => Heard'[n] = Heard[n]
    PROVE  Heard' = [Heard EXCEPT ![m] = answer]
<1>1. Heard = [n \in Messages |-> Heard[n]] /\ Heard' = [n \in Messages |-> Heard'[n]]
  BY DEF Heard
<1> QED BY <1>1

\* How a step of the worker moves what the callers hear: not at all, all who
\* wait hear that it leaves, or one call is answered.
LEMMA WorkerHeard ==
    ASSUME PInv, Worker
    PROVE  /\ pc # "exited"
           /\ UNCHANGED <<offered, before, open>>
           /\ \/ acks' = acks /\ pc' # "exited"
              \/ acks' = HangUp(acks) /\ pc' = "exited"
              \/ AnswerFlush
              \/ DiscardDone /\ DiscardedForFlush
           /\ shut' = shut \/ (shut = "pending" /\ shut' = "acked")
<1>a. ret \in {"select", "drain", "finish"}
  BY DEF PInv, IInv, TypeOK, ShapeOK
<1>b. Return => \/ acks' = acks /\ pc' # "exited"
                \/ acks' = HangUp(acks) /\ pc' = "exited"
  BY <1>a, Returns
<1>1. CASE RecvControl \/ RecvEvent \/ Disconnected \/ Wake \/ Shed \/ DrainDone
  BY <1>1 DEF RecvControl, RecvEvent, Disconnected, Exit, Wake, Shed, DrainDone, clientVars
<1>2. CASE Refuse \/ SendDone \/ SuspendedDisconnected
  BY <1>2, <1>b DEF Refuse, SendDone, SuspendedDisconnected
<1>3. CASE Admit
  <2>1. /\ pc # "exited" /\ UNCHANGED <<offered, before, open, shut>>
        /\ Return \/ (acks' = acks /\ pc' # "exited")
    BY <1>3 DEF Admit
  <2> QED BY <1>b, <2>1
<1>4. CASE Deliver
  <2>1. pc # "exited" /\ UNCHANGED <<offered, before, open, shut>>
    BY <1>4 DEF Deliver, DeliverSuccess, DeliverDrop, DeliverRetry, DeliverThrottle,
                DeliverSuspend, Delivering, clientVars
  <2>2. Return \/ (acks' = acks /\ pc' # "exited")
    BY <1>4 DEF Deliver, DeliverSuccess, DeliverDrop, DeliverRetry, DeliverThrottle, Burn,
                DeliverSuspend, Delivering, clientVars
  <2> QED BY <1>b, <2>1, <2>2
<1>5. CASE SuspendedRecv \/ SuspensionOver \/ DiscardOne
  BY <1>5 DEF SuspendedRecv, SuspensionOver, DiscardOne, clientVars
<1>6. CASE DiscardDone
  <2>1. pc # "exited" /\ UNCHANGED <<offered, before, open>>
    BY <1>6 DEF DiscardDone
  <2>2. shut' = shut \/ (shut = "pending" /\ shut' = "acked")
    BY <1>6 DEF DiscardDone, DiscardedForFlush, DiscardedForShutdown, DiscardedForResume
  <2>3. Return \/ DiscardedForFlush
    BY <1>6 DEF DiscardDone, DiscardedForShutdown, DiscardedForResume
  <2> QED BY <1>6, <1>b, <2>1, <2>2, <2>3
<1>7. CASE AnswerFlush
  BY <1>7 DEF AnswerFlush
<1>8. CASE AnswerShutdown
  BY <1>8 DEF AnswerShutdown, Exit
<1> QED BY <1>1, <1>2, <1>3, <1>4, <1>5, <1>6, <1>7, <1>8 DEF Worker

\* Every answer of the worker is a barrier if it says so, and everybody who
\* still waits when it leaves hears that.
LEMMA WorkerAnswers ==
    ASSUME PInv, PInv', Worker
    PROVE  Promise!Answer /\ (pc' = "exited" => Promise!MayLeave)
<1> USE MessagesAssumption
<1>1. /\ ShapeOK /\ ControlOK /\ Stopping /\ Returning /\ Serving /\ Barriers
      /\ Stopping' /\ [Next]_vars
  BY DEF PInv, IInv, TypeOK, Next
<1>2. /\ pc # "exited"
      /\ UNCHANGED <<offered, before, open>>
      /\ \/ acks' = acks /\ pc' # "exited"
         \/ acks' = HangUp(acks) /\ pc' = "exited"
         \/ AnswerFlush
         \/ DiscardDone /\ DiscardedForFlush
      /\ shut' = shut \/ (shut = "pending" /\ shut' = "acked")
  BY WorkerHeard
<1>3. /\ acks \in [Flushes -> {"idle", "pending", "yes", "no", "lost"}]
      /\ shut \in {"idle", "pending", "acked", "detached"}
      /\ before \in [Messages -> Int]
  BY <1>1 DEF ShapeOK
<1>4. /\ \A f \in Flushes : f \in Messages /\ Heard[f] = acks[f] /\ Heard'[f] = acks'[f]
      /\ Shutdown \in Messages
      /\ Heard[Shutdown] = ShutHeard /\ Heard'[Shutdown] = ShutHeard'
  BY HeardBy
\* What a call may hear.
<1> DEFINE Fair(m) ==
             /\ Heard[m] # "pending" => Heard'[m] = Heard[m]
             /\ Heard[m] = "pending" =>
                   /\ Heard'[m] \in {"pending", "yes", "no", "lost"}
                   /\ Heard'[m] = "yes" => \A e \in Pending' : e > before[m]
                   /\ Heard'[m] = "lost" => pc' = "exited"
                   /\ Heard'[m] = "pending" => pc' # "exited"
<1>5. Fair(Shutdown)
  <2>1. CASE shut' = shut
    <3>1. shut = "pending" => pc' # "exited"
      BY <1>1, <2>1 DEF Stopping
    <3> QED BY <1>3, <1>4, <2>1, <3>1 DEF ShutHeard
  <2>2. CASE shut = "pending" /\ shut' = "acked"
    <3>1. Emptied'
      BY <1>1, <2>2, AckedEmpty
    <3>2. Pending' = {}
      BY <3>1 DEF Emptied, Pending, HeldLines, LinesIn, InHand, Queued
    <3> QED BY <1>4, <2>2, <3>2 DEF ShutHeard
  <2> QED BY <1>2, <2>1, <2>2
\* Nobody is answered, or everybody hears that the worker leaves.
<1>6. ASSUME NEW f \in Flushes,
             \/ acks'[f] = acks[f] /\ pc' # "exited"
             \/ acks'[f] = HangUp(acks)[f] /\ pc' = "exited"
      PROVE  Fair(f)
  BY <1>3, <1>4, <1>6 DEF HangUp
<1>7. ASSUME NEW f \in Flushes PROVE Fair(f)
  <2>1. CASE \/ acks' = acks /\ pc' # "exited"
             \/ acks' = HangUp(acks) /\ pc' = "exited"
    BY <1>6, <2>1
  <2>2. CASE AnswerFlush
    <3> DEFINE answered == [acks EXCEPT ![ctl] = FlushAnswer]
    <3>1. /\ ctl \in Flushes /\ pc = "finish"
          /\ UNCHANGED <<events, retries, current, hand>>
          /\ \/ acks' = answered /\ pc' = "select"
             \/ acks' = HangUp(answered) /\ pc' = "exited"
      BY <2>2 DEF AnswerFlush, batchVars, queueVars
    <3>2. /\ answered \in [Flushes -> {"idle", "pending", "yes", "no", "lost"}]
          /\ answered[ctl] = FlushAnswer
          /\ \A g \in Flushes : g # ctl => answered[g] = acks[g]
      BY <1>3, <3>1 DEF FlushAnswer
    <3>3. CASE f = ctl
      <4>1. FlushAnswer \in {"yes", "no"} /\ (FlushAnswer = "yes" => retries = <<>>)
        BY DEF FlushAnswer
      <4>2. acks'[f] = FlushAnswer
        BY <3>1, <3>2, <3>3, <4>1 DEF HangUp
      <4>3. acks[f] = "pending"
        BY <1>1, <1>2, <3>3 DEF Serving
      <4>4. ASSUME FlushAnswer = "yes", NEW e \in Pending' PROVE e > before[f]
        <5>1. Drained /\ hand = 0 /\ retries = <<>> /\ ctl \in Messages
          BY <1>1, <1>4, <3>1, <4>1, <4>4 DEF Drained, ControlOK
        <5>2. Pending' = Queued(events)
          BY <1>1, <3>1, <5>1 DEF Pending, HeldLines, LinesIn, InHand, Barriers
        <5>3. before[f] < e
          BY <1>1, <3>3, <5>1, <5>2 DEF Barriers
        <5> QED BY <5>3
      <4> QED BY <1>4, <4>1, <4>2, <4>3, <4>4
    <3>4. CASE f # ctl
      <4>1. \/ acks'[f] = acks[f] /\ pc' # "exited"
            \/ acks'[f] = HangUp(acks)[f] /\ pc' = "exited"
        BY <3>1, <3>2, <3>4 DEF HangUp
      <4> QED BY <1>6, <4>1
    <3> QED BY <3>3, <3>4
  <2>3. CASE DiscardDone /\ DiscardedForFlush
    <3>1. /\ inner \in Flushes /\ pc = "discard" /\ pc' = "suspended"
          /\ events = <<>> /\ UNCHANGED <<events, retries, current, hand>>
          /\ acks' = [acks EXCEPT ![inner] = "yes"]
      BY <2>3 DEF DiscardDone, DiscardedForFlush, batchVars, queueVars
    <3>2. CASE f = inner
      <4>1. acks'[f] = "yes" /\ acks[f] = "pending"
        BY <1>1, <1>2, <1>3, <3>1, <3>2 DEF Serving
      <4>2. Pending' = {}
        BY <1>1, <3>1 DEF ControlOK, Pending, HeldLines, LinesIn, InHand, Queued
      <4> QED BY <1>4, <4>1, <4>2
    <3>3. CASE f # inner
      <4>1. acks'[f] = acks[f]
        BY <1>3, <3>1, <3>3
      <4> QED BY <1>6, <3>1, <4>1
    <3> QED BY <3>2, <3>3
  <2> QED BY <1>2, <2>1, <2>2, <2>3
<1>8. Promise!Answer
  <2>1. \A m \in Messages : Fair(m)
    <3> HIDE DEF Fair
    <3> QED BY <1>5, <1>7 DEF Messages
  <2> QED BY <2>1, AnswersOutside
<1>9. ASSUME pc' = "exited" PROVE Promise!MayLeave
  <2>1. ~open \/ shut # "idle"
    BY <1>1, <1>2, <1>9 DEF Stopping
  <2>2. shut # "idle" => Heard[Shutdown] # "idle"
    BY <1>3, <1>4 DEF ShutHeard
  <2> QED BY <2>1, <2>2 DEF Promise!MayLeave
<1> QED BY <1>8, <1>9

\* Every step of the worker or of its callers is a step of the promise, or
\* none that it can see.
LEMMA StepsPromised == PInv /\ PInv' /\ [Next]_vars => [Promise!Next]_Promise!vars
<1> SUFFICES ASSUME PInv, PInv', [Next]_vars PROVE [Promise!Next]_Promise!vars
  OBVIOUS
<1> USE MessagesAssumption
<1>1. /\ TypeOK /\ ControlOK /\ Fifo /\ CountersAgree /\ Stopping
      /\ DropTypeOK /\ discarded \in Nat /\ open \in BOOLEAN
  BY DEF PInv, IInv, TypeOK, ShapeOK
<1>2. Effect /\ DropTypeOK'
  BY <1>1, Effects
<1>3. CASE Worker
  <2>1. pc # "exited" /\ UNCHANGED <<offered, before, open>>
    BY <1>3, WorkerHeard
  <2>2. Promise!Take \/ Promise!Lose
    BY <1>2, <2>1, LinesLeave
  <2>3. Promise!Answer /\ (pc' = "exited" => Promise!MayLeave)
    BY <1>3, WorkerAnswers
  <2>4. (pc = "exited")' \in {FALSE, Promise!MayLeave}
    <3>1. Promise!MayLeave \in BOOLEAN
      BY DEF Promise!MayLeave
    <3> QED BY <2>3, <3>1, Zenon
  <2> QED BY <2>1, <2>2, <2>3, <2>4 DEF Promise!Next, Promise!Work
<1>4. CASE TryEnqueue
  <2>1. /\ offered' = offered + 1
        /\ UNCHANGED <<open, acks, shut, before, pc, delivered>>
    BY <1>4 DEF TryEnqueue, workerVars
  <2>2. Heard' = Heard
    BY <2>1 DEF Heard, ShutHeard
  <2>3. CASE Accepting
    <3>1. Enqueued
      BY <1>1, <1>4, <2>3, DropEffects
      DEF TryEnqueue, Accepting, Enqueued, workerVars, batchVars, queueVars, suspendVars
    <3>2. Pending' = Pending \cup {offered + 1} /\ Lost' = Lost
      BY <1>1, <1>2, <3>1, EffectsOutside
    <3>3. open /\ pc # "exited"
      BY <1>1, <1>4, <2>3 DEF TryEnqueue, Accepting, Stopping
    <3> QED BY <2>1, <2>2, <3>2, <3>3 DEF Promise!Offer, Promise!Next, Lost
  <2>4. CASE ~Accepting
    <3>1. Rejected
      <4>1. 1 \in Nat
        OBVIOUS
      <4> QED
        BY <1>1, <1>4, <2>4, <4>1, DropEffects
        DEF TryEnqueue, Rejected, workerVars, batchVars, queueVars, suspendVars
    <3>2. Pending' = Pending /\ Lost' = Lost + 1
      BY <1>1, <1>2, <3>1, EffectsOutside
    <3> QED BY <2>1, <2>2, <3>2 DEF Promise!Offer, Promise!Next, Lost
  <2> QED BY <2>3, <2>4
\* The other callers and the clock move no line.
<1>5. ASSUME UNCHANGED <<retries, current, hand, events>> PROVE Pending' = Pending
  BY <1>5 DEF Pending, HeldLines, InHand
<1>6. ASSUME NEW f \in Flushes, FlushBegin(f) PROVE [Promise!Next]_Promise!vars
  <2>1. /\ UNCHANGED <<offered, open, shut, pc, delivered, discarded>>
        /\ UNCHANGED <<retries, current, hand, events>> /\ Recorded' = Recorded
        /\ acks[f] = "idle" /\ acks' = [acks EXCEPT ![f] = "pending"]
        /\ before' = [before EXCEPT ![f] = offered] /\ open /\ state = "Running"
    BY <1>6
    DEF FlushBegin, workerVars, batchVars, queueVars, suspendVars, dropVars, Recorded
  <2>2. pc # "exited" /\ f \in Messages
    BY <1>1, <2>1 DEF Stopping, Messages
  <2>3. Heard[f] = "idle" /\ Heard' = [Heard EXCEPT ![f] = "pending"]
    <3>1. acks'[f] = "pending" /\ \A g \in Flushes : g # f => acks'[g] = acks[g]
      BY <1>1, <2>1 DEF TypeOK, ShapeOK
    <3>2. \A n \in Messages : n # f => Heard'[n] = Heard[n]
      BY <2>1, <3>1, HeardBy DEF Messages, ShutHeard
    <3> QED BY <2>1, <2>2, <3>1, <3>2, HeardBy, OneHears
  <2>4. Promise!Call(f)
    BY <1>5, <2>1, <2>2, <2>3 DEF Promise!Call, Promise!itemVars
  <2> QED BY <2>2, <2>4 DEF Promise!Next
<1>7. CASE ShutdownBegin
  <2>1. /\ UNCHANGED <<offered, open, acks, pc, delivered, discarded>>
        /\ UNCHANGED <<retries, current, hand, events>> /\ Recorded' = Recorded
        /\ shut' = "pending" /\ before' = [before EXCEPT ![Shutdown] = offered]
        /\ open /\ state = "Running"
    BY <1>7
    DEF ShutdownBegin, workerVars, batchVars, queueVars, suspendVars, dropVars, Recorded
  <2>2. pc # "exited" /\ shut = "idle" /\ Shutdown \in Messages
    BY <1>1, <2>1 DEF Stopping, Messages
  <2>3. Heard[Shutdown] = "idle" /\ Heard' = [Heard EXCEPT ![Shutdown] = "pending"]
    <3>1. \A n \in Messages : n # Shutdown => Heard'[n] = Heard[n]
      BY <2>1, HeardBy DEF Messages
    <3> QED BY <2>1, <2>2, <3>1, HeardBy, OneHears DEF ShutHeard
  <2>4. Promise!Call(Shutdown)
    BY <1>5, <2>1, <2>2, <2>3 DEF Promise!Call, Promise!itemVars
  <2> QED BY <2>2, <2>4 DEF Promise!Next
<1>8. CASE Detach
  <2>1. /\ UNCHANGED <<offered, before, acks, pc, delivered, discarded>>
        /\ UNCHANGED <<retries, current, hand, events>> /\ Recorded' = Recorded
        /\ shut = "pending" /\ shut' = "detached" /\ open' = FALSE
    BY <1>8 DEF Detach, workerVars, batchVars, queueVars, suspendVars, dropVars, Recorded
  <2>2. open /\ Shutdown \in Messages
    BY <1>1, <2>1 DEF Stopping, Messages
  <2>3. Heard[Shutdown] = "pending" /\ Heard' = [Heard EXCEPT ![Shutdown] = "timeout"]
    <3>1. \A n \in Messages : n # Shutdown => Heard'[n] = Heard[n]
      BY <2>1, HeardBy DEF Messages
    <3> QED BY <2>1, <2>2, <3>1, HeardBy, OneHears DEF ShutHeard
  <2>4. Promise!GiveUp(Shutdown)
    BY <2>3 DEF Promise!GiveUp
  <2>5. Promise!Close
    BY <1>5, <2>1, <2>2, <2>4 DEF Promise!Close, Promise!itemVars
  <2> QED BY <2>5 DEF Promise!Next
<1>9. CASE DropClient
  <2>1. /\ UNCHANGED <<offered, before, acks, shut, pc, delivered, discarded>>
        /\ UNCHANGED <<retries, current, hand, events>> /\ Recorded' = Recorded
        /\ open /\ open' = FALSE
    BY <1>9
    DEF DropClient, workerVars, batchVars, queueVars, suspendVars, dropVars, Recorded
  <2>2. Heard' = Heard
    BY <2>1 DEF Heard, ShutHeard
  <2>3. Promise!Close
    BY <1>5, <2>1, <2>2 DEF Promise!Close, Promise!itemVars
  <2> QED BY <2>3 DEF Promise!Next
<1>10. CASE Clock \/ UNCHANGED vars
  <2>1. /\ UNCHANGED <<offered, before, acks, shut, open, pc, delivered, discarded>>
        /\ UNCHANGED <<retries, current, hand, events>> /\ Recorded' = Recorded
    BY <1>10 DEF Clock, DeadlinePasses, BackoffPasses, SuspensionPasses, MinutePasses,
                 LogWindowPasses, vars, clientVars, workerVars, batchVars, queueVars,
                 suspendVars, dropVars, Recorded
  <2>2. Heard' = Heard
    BY <2>1 DEF Heard, ShutHeard
  <2> QED BY <1>5, <2>1, <2>2 DEF Promise!vars, Promise!itemVars
<1> QED BY <1>3, <1>4, <1>6, <1>7, <1>8, <1>9, <1>10 DEF Next, Callers

\* The worker keeps the promise that the client is built on: lines leave in
\* order, are delivered or lost and counted, flush and shutdown are barriers,
\* and nothing is delivered after a shutdown is acknowledged.
THEOREM KeepsPromise == Spec => Implements
<1>1. Init => Promise!Init
  <2> SUFFICES ASSUME Init PROVE Promise!Init
    OBVIOUS
  <2>1. Pending = {} /\ Recorded + discarded = 0
    BY DEF Init, DropInit, Recorded, Pending, HeldLines, LinesIn, InHand, Queued
  <2>2. Heard = [m \in Messages |-> "idle"]
    <3>1. shut = "idle" /\ \A f \in Flushes : acks[f] = "idle"
      BY DEF Init
    <3>2. ShutHeard = "idle"
      BY <3>1 DEF ShutHeard
    <3>3. \A m \in Messages : m # Shutdown => m \in Flushes
      BY DEF Messages
    <3> QED BY <3>1, <3>2, <3>3 DEF Heard
  <2> QED BY <2>1, <2>2 DEF Init, Promise!Init
<1> QED
  BY <1>1, StepsPromised, ControlInvariance, PTL DEF Spec, Implements, Promise!Spec
=============================================================================
