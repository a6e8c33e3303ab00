------------------------- MODULE NoticesWorkerProofs -------------------------
(***************************************************************************)
(* Theorems about NoticesWorker, for any queue size, throttle width, calls *)
(* and number of notices: no notice goes uncounted, and the worker keeps   *)
(* what Pipeline promises.                                                 *)
(***************************************************************************)
EXTENDS NoticesWorker, FiniteSetTheorems, SequenceTheorems, TLAPS

Items(q) == {q[i] : i \in DOMAIN q}
Increasing(q) == \A i, j \in 1..Len(q) : i < j => q[i] < q[j]

\* Notices queue in the order they were offered, behind the one in hand, and
\* what has been attempted is neither queued nor attempted again.
Order ==
    /\ Increasing(notices)
    /\ Pending \subseteq 1..offered
    /\ hand # 0 => \A e \in Queued : hand < e
    /\ delivered \cup failed \subseteq 1..offered
    /\ (delivered \cup failed) \cap Pending = {}
    /\ delivered \cap failed = {}

\* A notice is in hand only while it is sent; the messages the worker has were
\* sent by somebody.
Serving ==
    /\ hand # 0 <=> pc = "send"
    /\ ctl \in Messages => acks[ctl] # "idle"
    /\ \A i \in 1..Len(control) : acks[control[i]] # "idle"

\* The worker leaves because it was told to or because nobody can reach it,
\* and after its answer to a shutdown it sends nothing.
Leaving ==
    /\ pc = "leaving" => ~open \/ \E s \in Shutdowns : acks[s] # "idle"
    /\ (\E s \in Shutdowns : acks[s] = "yes") => pc \in {"leaving", "exited"}

IInv ==
    /\ TypeOK
    /\ Order
    /\ Serving
    /\ Leaving
    /\ EveryNoticeCounted

-----------------------------------------------------------------------------
(* Queues and sets of notices.                                             *)

\* A newer notice joins the end of the queue.
LEMMA Joined ==
    ASSUME NEW q \in Seq(Notices), NEW e \in Notices, Increasing(q),
           \A x \in Items(q) : x < e
    PROVE  /\ Append(q, e) \in Seq(Notices)
           /\ Len(Append(q, e)) = Len(q) + 1
           /\ Items(Append(q, e)) = Items(q) \cup {e}
           /\ Increasing(Append(q, e))
<1>1. /\ DOMAIN q = 1..Len(q) /\ Len(q) \in Nat
      /\ Append(q, e) \in Seq(Notices)
      /\ Len(Append(q, e)) = Len(q) + 1
      /\ DOMAIN Append(q, e) = 1..(Len(q) + 1)
      /\ \A i \in 1..Len(q) : Append(q, e)[i] = q[i]
      /\ Append(q, e)[Len(q) + 1] = e
  BY LenProperties, AppendProperties
<1>2. \A x \in Items(Append(q, e)) : x \in Items(q) \cup {e}
  <2> TAKE x \in Items(Append(q, e))
  <2>1. PICK i \in 1..(Len(q) + 1) : x = Append(q, e)[i]
    BY <1>1 DEF Items
  <2>2. CASE i \in 1..Len(q)
    BY <1>1, <2>1, <2>2 DEF Items
  <2>3. CASE i = Len(q) + 1
    BY <1>1, <2>1, <2>3
  <2> QED BY <1>1, <2>2, <2>3
<1>3. \A x \in Items(q) \cup {e} : x \in Items(Append(q, e))
  BY <1>1 DEF Items
<1>4. Increasing(Append(q, e))
  <2> SUFFICES ASSUME NEW i \in 1..(Len(q) + 1), NEW j \in 1..(Len(q) + 1), i < j
               PROVE  Append(q, e)[i] < Append(q, e)[j]
    BY <1>1 DEF Increasing
  <2>1. i \in 1..Len(q)
    BY <1>1
  <2>2. CASE j \in 1..Len(q)
    BY <1>1, <2>1, <2>2 DEF Increasing
  <2>3. CASE j = Len(q) + 1
    BY <1>1, <2>1, <2>3 DEF Items
  <2> QED BY <1>1, <2>2, <2>3
<1> QED BY <1>1, <1>2, <1>3, <1>4

\* The oldest notice leaves the queue at its head.
LEMMA Left ==
    ASSUME NEW q \in Seq(Notices), q # <<>>, Increasing(q)
    PROVE  /\ Head(q) \in Notices /\ Tail(q) \in Seq(Notices)
           /\ Len(Tail(q)) = Len(q) - 1
           /\ Items(q) = {Head(q)} \cup Items(Tail(q))
           /\ \A x \in Items(Tail(q)) : Head(q) < x
           /\ Increasing(Tail(q))
<1>1. /\ Len(q) \in Nat \ {0} /\ DOMAIN q = 1..Len(q)
      /\ Head(q) \in Notices /\ Tail(q) \in Seq(Notices)
      /\ Len(Tail(q)) = Len(q) - 1 /\ DOMAIN Tail(q) = 1..(Len(q) - 1)
      /\ \A i \in 1..(Len(q) - 1) : Tail(q)[i] = q[i + 1]
      /\ Head(q) = q[1]
  BY LenProperties, HeadTailProperties, EmptySeq
<1>2. \A x \in Items(q) : x \in {Head(q)} \cup Items(Tail(q))
  <2> TAKE x \in Items(q)
  <2>1. PICK i \in 1..Len(q) : x = q[i]
    BY <1>1 DEF Items
  <2>2. CASE i = 1
    BY <1>1, <2>1, <2>2
  <2>3. CASE i # 1
    <3>1. i - 1 \in DOMAIN Tail(q) /\ Tail(q)[i - 1] = q[i]
      BY <1>1, <2>3
    <3> QED BY <2>1, <3>1 DEF Items
  <2> QED BY <2>2, <2>3
<1>3. ASSUME NEW x \in Items(Tail(q)) PROVE x \in Items(q) /\ Head(q) < x
  <2>1. PICK i \in 1..(Len(q) - 1) : x = Tail(q)[i]
    BY <1>1 DEF Items
  <2>2. i + 1 \in DOMAIN q /\ x = q[i + 1] /\ 1 < i + 1
    BY <1>1, <2>1
  <2> QED BY <1>1, <2>2 DEF Items, Increasing
<1>4. Head(q) \in Items(q)
  BY <1>1 DEF Items
<1>5. Increasing(Tail(q))
  <2> SUFFICES ASSUME NEW i \in 1..(Len(q) - 1), NEW j \in 1..(Len(q) - 1), i < j
               PROVE  Tail(q)[i] < Tail(q)[j]
    BY <1>1 DEF Increasing
  <2>1. i + 1 \in 1..Len(q) /\ j + 1 \in 1..Len(q) /\ i + 1 < j + 1
    BY <1>1
  <2> QED BY <1>1, <2>1 DEF Increasing
<1> QED BY <1>1, <1>2, <1>3, <1>4, <1>5

\* An empty queue holds nothing.
LEMMA NoItems == Items(<<>>) = {} /\ Increasing(<<>>) /\ Len(<<>>) = 0
BY EmptySeq DEF Items, Increasing

\* One more notice attempted is one more to count.
LEMMA OneMore ==
    ASSUME NEW S \in SUBSET Notices, NEW e \in Notices, e \notin S
    PROVE  /\ Cardinality(S) \in Nat
           /\ Cardinality(S \cup {e}) = Cardinality(S) + 1
           /\ Cardinality({e}) = 1
<1>1. IsFiniteSet(Notices)
  BY LimitsAssumption, FS_Interval DEF Notices
<1>2. IsFiniteSet(S)
  BY <1>1, FS_Subset
<1> QED BY <1>2, FS_AddElement, FS_CardinalityType, FS_Singleton

-----------------------------------------------------------------------------
(* What a step can do to the notices and the counters.                     *)

\* The drop counter is told of n more drops.
Counted(n) == Recorded' = Recorded + n

\* Nothing is offered and no attempt ends.
Still == UNCHANGED <<offered, delivered, failed>>

Enqueued ==
    /\ offered < MaxOffers /\ offered' = offered + 1
    /\ notices' = Append(notices, offered + 1)
    /\ UNCHANGED <<hand, discarded, delivered, failed>>
    /\ Counted(0)

Rejected ==
    /\ offered < MaxOffers /\ offered' = offered + 1
    /\ UNCHANGED <<notices, hand, discarded, delivered, failed>>
    /\ Counted(1)

Received ==
    /\ hand = 0 /\ notices # <<>>
    /\ hand' = Head(notices) /\ notices' = Tail(notices)
    /\ Still /\ UNCHANGED discarded
    /\ Counted(0)

Attempted ==
    /\ hand # 0 /\ hand' = 0
    /\ \/ delivered' = delivered \cup {hand} /\ failed' = failed
       \/ delivered' = delivered /\ failed' = failed \cup {hand}
    /\ UNCHANGED <<offered, notices, discarded>>
    /\ Counted(0)

DiscardedOne ==
    /\ hand = 0 /\ notices # <<>>
    /\ notices' = Tail(notices) /\ discarded' = discarded + 1
    /\ Still /\ UNCHANGED hand
    /\ Counted(0)

DiscardsCounted ==
    /\ discarded' = 0
    /\ Still /\ UNCHANGED <<notices, hand>>
    /\ Counted(discarded)

Unmoved ==
    /\ Still /\ UNCHANGED <<notices, hand, discarded>>
    /\ Counted(0)

Effect ==
    \/ Enqueued \/ Rejected \/ Received \/ Attempted
    \/ DiscardedOne \/ DiscardsCounted \/ Unmoved

\* The counter is summarised or not, but never forgets.
LEMMA DropEffects ==
    ASSUME DropTypeOK
    PROVE  /\ \A n \in Nat : RecordMany(n) => Counted(n) /\ DropTypeOK'
           /\ \A n \in Nat : RecordAndReportFinal(n) => Counted(n) /\ DropTypeOK'
           /\ Report => Counted(0) /\ DropTypeOK'
           /\ LogWindowPasses => Counted(0) /\ DropTypeOK'
           /\ UNCHANGED dropVars => Counted(0) /\ DropTypeOK'
BY DEF DropTypeOK, RecordMany, RecordAndReportFinal, Report, LogWindowPasses, dropVars,
       Counted, Recorded

\* Every step has one of these effects; what the steps that do not only move
\* control or the clock do is said apart.
Effective ==
    /\ DropTypeOK'
    /\ Effect
    /\ TryEnqueue => (Accepting /\ Enqueued) \/ Rejected
    /\ Deliver => Attempted
    /\ DiscardOne => DiscardedOne
    /\ QueueEmpty => DiscardsCounted
    /\ RecvNotice => Received
    /\ (RecvControl \/ Disconnected \/ SuspendedRecv \/ SuspensionOver \/ PauseOver)
          => Unmoved

\* Every step is effective.
LEMMA Effects ==
    ASSUME TypeOK, Serving, [Next]_vars
    PROVE  Effective
<1>a. DropTypeOK /\ discarded \in Nat /\ 1 \in Nat
  BY DEF TypeOK
<1>1. TryEnqueue => ((Accepting /\ Enqueued) \/ Rejected) /\ DropTypeOK'
  <2>1. ASSUME TryEnqueue, Accepting PROVE Enqueued /\ DropTypeOK'
    BY <2>1, <1>a, DropEffects DEF TryEnqueue, Enqueued, workerVars, historyVars
  <2>2. ASSUME TryEnqueue, ~Accepting PROVE Rejected /\ DropTypeOK'
    BY <2>2, <1>a, DropEffects DEF TryEnqueue, Rejected, workerVars, historyVars
  <2> QED BY <2>1, <2>2
<1>2. Deliver => Attempted /\ DropTypeOK'
  BY <1>a, DropEffects
  DEF Deliver, SendSuccess, SendThrottled, SendFailed, SendRefused, Attempted, Serving,
      clientVars
<1>3. DiscardOne => DiscardedOne /\ DropTypeOK'
  BY <1>a, DropEffects
  DEF DiscardOne, DiscardedOne, Still, Serving, clientVars, historyVars
<1>4. QueueEmpty => DiscardsCounted /\ DropTypeOK'
  BY <1>a, DropEffects
  DEF QueueEmpty, EnterSuspension, Resume, AnswerFlush, AnswerShutdown, DiscardsCounted,
      Still, historyVars
<1>5. RecvNotice => Received /\ DropTypeOK'
  BY <1>a, DropEffects DEF RecvNotice, Received, Still, Serving, clientVars, historyVars
<1>6. ASSUME NEW m \in Messages
      PROVE  Send(m) \/ Expire(m) => Unmoved /\ DropTypeOK'
  BY <1>a, DropEffects DEF Send, Expire, Unmoved, Still, workerVars, historyVars
<1>7. DropClient \/ MinutePasses => Unmoved /\ DropTypeOK'
  BY <1>a, DropEffects
  DEF DropClient, MinutePasses, Unmoved, Still, clientVars, workerVars, historyVars
<1>8. RecvControl \/ Disconnected \/ Leave \/ SuspendedRecv \/ SuspensionOver
        => Unmoved /\ DropTypeOK'
  BY <1>a, DropEffects
  DEF RecvControl, Disconnected, Leave, SuspendedRecv, SuspensionOver, Unmoved, Still,
      clientVars, historyVars
<1>9. PauseOver \/ SuspensionPasses \/ UNCHANGED vars => Unmoved /\ DropTypeOK'
  BY <1>a, DropEffects
  DEF PauseOver, SuspensionPasses, vars, Unmoved, Still, clientVars, historyVars
<1>10. Effect /\ DropTypeOK'
  BY <1>1, <1>2, <1>3, <1>4, <1>5, <1>6, <1>7, <1>8, <1>9
  DEF Next, Callers, Worker, Clock, Effect
<1> QED BY <1>1, <1>2, <1>3, <1>4, <1>5, <1>8, <1>9, <1>10 DEF Effective

\* The effects keep the notices and their counts well-typed.
NoticesTypeOK ==
    /\ offered \in 0..MaxOffers
    /\ notices \in Seq(Notices)
    /\ hand \in Notices \cup {0}
    /\ discarded \in Nat
    /\ delivered \in SUBSET Notices
    /\ failed \in SUBSET Notices

\* The effects keep these types.
LEMMA NoticesTypeStep ==
    ASSUME NoticesTypeOK, Effect
    PROVE  NoticesTypeOK'
<1> USE LimitsAssumption
<1>1. ASSUME notices # <<>>
      PROVE  Head(notices) \in Notices /\ Tail(notices) \in Seq(Notices)
  BY <1>1, HeadTailProperties DEF NoticesTypeOK
<1>2. CASE Enqueued
  <2>1. offered + 1 \in Notices /\ offered + 1 \in 0..MaxOffers
    BY <1>2 DEF Enqueued, NoticesTypeOK, Notices
  <2>2. Append(notices, offered + 1) \in Seq(Notices)
    BY <2>1, AppendProperties DEF NoticesTypeOK
  <2> QED BY <1>2, <2>1, <2>2 DEF Enqueued, NoticesTypeOK
<1>3. CASE Rejected
  BY <1>3 DEF Rejected, NoticesTypeOK
<1>4. CASE Received
  BY <1>1, <1>4 DEF Received, Still, NoticesTypeOK
<1>5. CASE Attempted
  BY <1>5 DEF Attempted, NoticesTypeOK
<1>6. CASE DiscardedOne
  BY <1>1, <1>6 DEF DiscardedOne, Still, NoticesTypeOK
<1>7. CASE DiscardsCounted
  BY <1>7 DEF DiscardsCounted, Still, NoticesTypeOK
<1>8. CASE Unmoved
  BY <1>8 DEF Unmoved, Still, NoticesTypeOK
<1> QED BY <1>2, <1>3, <1>4, <1>5, <1>6, <1>7, <1>8 DEF Effect

-----------------------------------------------------------------------------
(* The parts of the invariant.                                             *)

\* Control moves along and the channel only ever loses its head.
ControlTypeOK ==
    /\ open \in BOOLEAN
    /\ acks \in [Messages -> {"idle", "pending", "yes", "lost", "timeout"}]
    /\ before \in [Messages -> 0..MaxOffers]
    /\ control \in Seq(Messages)
    /\ pc \in {"select", "send", "pause", "drain", "discard", "suspended",
               "leaving", "exited"}
    /\ ret \in {"select", "drain"}
    /\ ctl \in Messages \cup {NoMsg}
    /\ retry_after \in BOOLEAN
    /\ until \in {"none", "armed", "due"}
    /\ refused \in BOOLEAN

\* The throttle counter stays in its width: it saturates at both ends.
ThrottleTypeOK == throttle \in 0..ThrottleMax

\* No outcome takes it past its width.
LEMMA ThrottleStep ==
    ASSUME ThrottleTypeOK, [Next]_vars
    PROVE  ThrottleTypeOK'
<1> USE LimitsAssumption DEF ThrottleTypeOK
<1>1. /\ throttle' = throttle \/ throttle' = 0
         \/ throttle' = Unthrottled \/ throttle' = Throttled
  BY DEF Next, Callers, Worker, Clock, TryEnqueue, Send, Expire, DropClient, RecvControl,
         RecvNotice, Disconnected, Leave, Deliver, SendSuccess, SendThrottled, SendFailed,
         SendRefused, Continue, SuspendedRecv, SuspensionOver, DiscardOne, QueueEmpty,
         PauseOver, SuspensionPasses, MinutePasses, vars, workerVars, throttleVars
<1> QED BY <1>1 DEF Unthrottled, Throttled

\* Steps keep these types.
LEMMA ControlTypeStep ==
    ASSUME ControlTypeOK, offered \in 0..MaxOffers, [Next]_vars
    PROVE  ControlTypeOK'
<1> USE MessagesAssumption DEF ControlTypeOK
<1>1. ASSUME control # <<>>
      PROVE  Head(control) \in Messages /\ Tail(control) \in Seq(Messages)
  BY <1>1, HeadTailProperties
<1>2. CASE TryEnqueue \/ DropClient \/ MinutePasses
  BY <1>2 DEF TryEnqueue, DropClient, MinutePasses, clientVars, workerVars, throttleVars,
              historyVars
<1>3. ASSUME NEW m \in Messages, Send(m) PROVE ControlTypeOK'
  <2>1. control' \in Seq(Messages)
    <3>1. control' = control \/ control' = Append(control, m)
      BY <1>3 DEF Send
    <3>2. control \in Seq(Messages)
      OBVIOUS
    <3> HIDE DEF ControlTypeOK
    <3>3. Append(control, m) \in Seq(Messages)
      BY <3>2, AppendProperties
    <3> QED BY <3>1, <3>2, <3>3
  <2>2. before' \in [Messages -> 0..MaxOffers]
    BY <1>3 DEF Send
  <2>3. acks' \in [Messages -> {"idle", "pending", "yes", "lost", "timeout"}]
    BY <1>3 DEF Send
  <2> QED BY <1>3, <2>1, <2>2, <2>3 DEF Send, workerVars, throttleVars, historyVars
<1>4. ASSUME NEW m \in Messages, Expire(m) PROVE ControlTypeOK'
  BY <1>4 DEF Expire, workerVars, throttleVars, historyVars
<1>5. CASE RecvControl \/ SuspendedRecv
  BY <1>1, <1>5 DEF RecvControl, Serve, SuspendedRecv, clientVars, throttleVars, historyVars
<1>6. CASE RecvNotice \/ Disconnected \/ SuspensionOver \/ DiscardOne
  BY <1>6
  DEF RecvNotice, Disconnected, SuspensionOver, DiscardOne, clientVars, throttleVars,
              historyVars
<1>7. CASE Leave
  BY <1>7 DEF Leave, throttleVars, historyVars
<1>8. CASE Deliver
  <2>1. pc' \in {"select", "pause", "drain", "discard"} /\ refused' \in BOOLEAN
    BY <1>8 DEF Deliver, SendSuccess, SendThrottled, SendFailed, SendRefused, Continue
  <2>2. retry_after' \in BOOLEAN
    BY <1>8 DEF Deliver, SendSuccess, SendThrottled, SendFailed, SendRefused, Continue,
                throttleVars
  <2> QED BY <1>8, <2>1, <2>2 DEF Deliver, clientVars
<1>9. CASE QueueEmpty
  BY <1>9 DEF QueueEmpty, EnterSuspension, Resume, AnswerFlush, AnswerShutdown, Answer,
              throttleVars, historyVars
<1>10. CASE PauseOver \/ SuspensionPasses
  <2>1. pc' \in {"select", pc} /\ until' \in {"due", until} /\ refused' \in {FALSE, refused}
    BY <1>10 DEF PauseOver, SuspensionPasses, historyVars
  <2>2. UNCHANGED <<clientVars, control, ret, ctl, retry_after>>
    BY <1>10 DEF PauseOver, SuspensionPasses, throttleVars
  <2> QED BY <2>1, <2>2 DEF clientVars
<1>11. CASE UNCHANGED vars
  BY <1>11 DEF vars, clientVars, throttleVars, historyVars
<1> QED
  BY <1>2, <1>3, <1>4, <1>5, <1>6, <1>7, <1>8, <1>9, <1>10, <1>11
  DEF Next, Callers, Worker, Clock

\* Together they are the type invariant.
LEMMA TypeStep ==
    TypeOK /\ Serving /\ [Next]_vars => TypeOK'
<1> SUFFICES ASSUME TypeOK, Serving, [Next]_vars PROVE TypeOK'
  OBVIOUS
<1>1. NoticesTypeOK /\ ControlTypeOK /\ ThrottleTypeOK
  BY DEF TypeOK, NoticesTypeOK, ControlTypeOK, ThrottleTypeOK
<1>2. Effect /\ DropTypeOK'
  BY Effects DEF Effective
<1>3. NoticesTypeOK' /\ ControlTypeOK' /\ ThrottleTypeOK'
  BY <1>1, <1>2, NoticesTypeStep, ControlTypeStep, ThrottleStep DEF NoticesTypeOK
<1> QED
  BY <1>2, <1>3 DEF TypeOK, NoticesTypeOK, ControlTypeOK, ThrottleTypeOK

\* Notices stay in the order they were offered, and none is attempted twice.
LEMMA OrderStep ==
    ASSUME NoticesTypeOK, Order, Effect
    PROVE  Order'
<1>1. /\ offered \in Nat /\ 0 \notin Notices /\ Notices \subseteq Nat
      /\ \A e \in 1..offered : e \in Notices
  BY LimitsAssumption DEF NoticesTypeOK, Notices
<1>2. Queued = Items(notices) /\ Queued' = Items(notices')
  BY DEF Queued, Items
<1>3. /\ notices \in Seq(Notices) /\ Increasing(notices)
      /\ hand \in Notices \cup {0}
  BY DEF NoticesTypeOK, Order
<1>4. CASE Enqueued
  <2>1. offered + 1 \in Notices
    BY <1>1, <1>4, LimitsAssumption DEF Enqueued, NoticesTypeOK, Notices
  <2>2. \A x \in Queued : x < offered + 1
    BY <1>1 DEF Order, Pending
  <2>3. Queued' = Queued \cup {offered + 1} /\ Increasing(notices')
    BY <1>2, <1>3, <1>4, <2>1, <2>2, Joined DEF Enqueued
  <2>4. Pending' = Pending \cup {offered + 1}
    BY <1>4, <2>3 DEF Enqueued, Pending, InHand
  <2>5. 1..offered' = 1..offered \cup {offered + 1} /\ offered + 1 \notin 1..offered
    BY <1>1, <1>4 DEF Enqueued
  <2>6. hand # 0 => hand < offered + 1
    BY <1>1 DEF Order, Pending, InHand
  <2>7. /\ Pending' \subseteq 1..offered'
        /\ (delivered \cup failed)' \subseteq 1..offered'
        /\ (delivered \cup failed)' \cap Pending' = {}
        /\ (delivered \cap failed)' = {}
    BY <1>4, <2>4, <2>5 DEF Enqueued, Order
  <2>8. hand' # 0 => \A e \in Queued' : hand' < e
    BY <1>4, <2>3, <2>6 DEF Enqueued, Order
  <2> QED BY <2>3, <2>7, <2>8 DEF Order
<1>5. CASE Rejected
  <2>1. Pending' = Pending /\ 1..offered \subseteq 1..offered'
    BY <1>1, <1>5 DEF Rejected, Pending, InHand, Queued
  <2> QED BY <1>2, <1>5, <2>1 DEF Rejected, Order
<1>6. ASSUME notices # <<>>, notices' = Tail(notices)
      PROVE  /\ Head(notices) \in Notices
             /\ Queued = {Head(notices)} \cup Queued'
             /\ \A x \in Queued' : Head(notices) < x
             /\ Increasing(notices')
  BY <1>2, <1>3, <1>6, Left
<1>7. CASE Received
  <2>1. Pending' = Pending
    BY <1>1, <1>6, <1>7 DEF Received, Pending, InHand
  <2> QED BY <1>6, <1>7, <2>1 DEF Received, Still, Order
<1>8. CASE Attempted
  <2>1. Pending = {hand} \cup Queued /\ Pending' = Queued /\ Queued' = Queued
    BY <1>8 DEF Attempted, Pending, InHand, Queued
  <2>2. hand \notin Queued
    BY <1>1, <1>3, <1>8 DEF Attempted, Order, Pending
  <2>3. hand \notin delivered \cup failed /\ hand \in 1..offered
    BY <2>1 DEF Order
  <2> QED BY <1>8, <2>1, <2>2, <2>3 DEF Attempted, Order
<1>9. CASE DiscardedOne
  <2>1. Pending' \subseteq Pending
    BY <1>6, <1>9 DEF DiscardedOne, Pending, InHand
  <2> QED BY <1>6, <1>9, <2>1 DEF DiscardedOne, Still, Order
<1>10. CASE DiscardsCounted \/ Unmoved
  <2>1. Pending' = Pending /\ Queued' = Queued
    BY <1>10 DEF DiscardsCounted, Unmoved, Pending, InHand, Queued
  <2> QED BY <1>10, <2>1 DEF DiscardsCounted, Unmoved, Still, Order
<1> QED BY <1>4, <1>5, <1>7, <1>8, <1>9, <1>10 DEF Effect

\* What a step adds to one count it takes from another.
LEMMA CountStep ==
    ASSUME NoticesTypeOK, Order, DropTypeOK, DropTypeOK', EveryNoticeCounted, Effect
    PROVE  EveryNoticeCounted'
<1>1. /\ offered \in Nat /\ discarded \in Nat /\ Len(notices) \in Nat
      /\ Recorded \in Nat /\ Recorded' \in Nat
      /\ 0 \notin Notices
  <2>1. Len(notices) \in Nat
    BY LenProperties DEF NoticesTypeOK
  <2>2. ASSUME NEW d \in Nat, NEW r \in Nat PROVE d + r \in Nat
    OBVIOUS
  <2>3. Recorded \in Nat
    BY <2>2, Zenon DEF DropTypeOK, Recorded
  <2>4. Recorded' \in Nat
    BY <2>2, Zenon DEF DropTypeOK, Recorded
  <2> QED BY <2>1, <2>3, <2>4 DEF NoticesTypeOK, Notices
<1>2. /\ Cardinality(delivered) \in Nat /\ Cardinality(failed) \in Nat
      /\ Cardinality({}) = 0
      /\ \A e \in Notices : Cardinality({e}) = 1
  <2>1. ASSUME NEW S \in SUBSET Notices PROVE Cardinality(S) \in Nat
    <3>1. IsFiniteSet(Notices)
      BY LimitsAssumption, FS_Interval DEF Notices
    <3>2. IsFiniteSet(S)
      BY <3>1, FS_Subset
    <3> QED BY <3>2, FS_CardinalityType
  <2> QED BY <2>1, FS_EmptySet, FS_Singleton DEF NoticesTypeOK
<1>3. Cardinality(InHand) = IF hand = 0 THEN 0 ELSE 1
  BY <1>2 DEF InHand, NoticesTypeOK
<1>4. offered = Len(notices) + Cardinality(InHand) + discarded
                + Cardinality(delivered) + Cardinality(failed) + Recorded
  BY DEF EveryNoticeCounted
<1> DEFINE Sum(x, y, z, u, v, w) == x + y + z + u + v + w
           l == Len(notices)
           h == Cardinality(InHand)
           s == Cardinality(delivered)
           f == Cardinality(failed)
<1>5. /\ l \in Nat /\ h \in Nat /\ s \in Nat /\ f \in Nat
      /\ offered = Sum(l, h, discarded, s, f, Recorded)
  BY <1>1, <1>2, <1>3, <1>4
\* What the six terms do when a notice moves from one to another.
<1>6. /\ offered + 1 = Sum(l + 1, h, discarded, s, f, Recorded)
      /\ offered + 1 = Sum(l, h, discarded, s, f, Recorded + 1)
      /\ h = 0 => offered = Sum(l - 1, 1, discarded, s, f, Recorded)
      /\ h = 1 => offered = Sum(l, 0, discarded, s + 1, f, Recorded)
      /\ h = 1 => offered = Sum(l, 0, discarded, s, f + 1, Recorded)
      /\ offered = Sum(l - 1, h, discarded + 1, s, f, Recorded)
      /\ offered = Sum(l, h, 0, s, f, Recorded + discarded)
  <2> HIDE DEF l, h, s, f
  <2>1. /\ discarded \in Nat /\ Recorded \in Nat /\ l \in Nat /\ h \in Nat
        /\ s \in Nat /\ f \in Nat
        /\ offered = Sum(l, h, discarded, s, f, Recorded)
    BY <1>1, <1>5
  <2>2. offered + 1 = Sum(l + 1, h, discarded, s, f, Recorded)
    BY <2>1
  <2>3. offered + 1 = Sum(l, h, discarded, s, f, Recorded + 1)
    BY <2>1
  <2>4. h = 0 => offered = Sum(l - 1, 1, discarded, s, f, Recorded)
    BY <2>1
  <2>5. h = 1 => /\ offered = Sum(l, 0, discarded, s + 1, f, Recorded)
                 /\ offered = Sum(l, 0, discarded, s, f + 1, Recorded)
    BY <2>1
  <2>6. /\ offered = Sum(l - 1, h, discarded + 1, s, f, Recorded)
        /\ offered = Sum(l, h, 0, s, f, Recorded + discarded)
    BY <2>1
  <2> QED BY <2>2, <2>3, <2>4, <2>5, <2>6, Zenon
<1> SUFFICES offered' = Sum(Len(notices'), Cardinality(InHand'), discarded',
                            Cardinality(delivered'), Cardinality(failed'), Recorded')
  BY DEF EveryNoticeCounted
<1>7. /\ \A n \in Nat : Counted(n) => Recorded' = Recorded + n
      /\ Counted(0) => Recorded' = Recorded
  BY <1>1 DEF Counted
<1>8. ASSUME notices # <<>>, notices' = Tail(notices)
      PROVE  Head(notices) \in Notices /\ Len(notices') = Len(notices) - 1
  BY <1>8, Left DEF NoticesTypeOK, Order
<1>9. CASE Enqueued
  <2>1. offered + 1 \in Notices
    BY <1>1, <1>9, LimitsAssumption DEF Enqueued, NoticesTypeOK, Notices
  <2>2. Len(notices') = l + 1
    BY <1>9, <2>1, AppendProperties DEF Enqueued, NoticesTypeOK
  <2>3. /\ offered' = offered + 1 /\ Recorded' = Recorded /\ discarded' = discarded
        /\ Cardinality(InHand') = h /\ Cardinality(delivered') = s /\ Cardinality(failed') = f
    BY <1>7, <1>9 DEF Enqueued, InHand
  <2> HIDE DEF Sum, l, h, s, f
  <2> QED BY <1>6, <2>2, <2>3
<1>10. CASE Rejected
  <2>1. /\ offered' = offered + 1 /\ Recorded' = Recorded + 1 /\ discarded' = discarded
        /\ Cardinality(InHand') = h /\ Cardinality(delivered') = s /\ Cardinality(failed') = f
        /\ Len(notices') = l
    BY <1>7, <1>10 DEF Rejected, InHand
  <2> HIDE DEF Sum, l, h, s, f
  <2> QED BY <1>6, <2>1
<1>11. CASE Received
  <2>1. /\ offered' = offered /\ Recorded' = Recorded /\ discarded' = discarded
        /\ Cardinality(delivered') = s /\ Cardinality(failed') = f
    BY <1>7, <1>11 DEF Received, Still
  <2>2. Len(notices') = l - 1 /\ Cardinality(InHand') = 1 /\ h = 0
    BY <1>1, <1>2, <1>8, <1>11 DEF Received, InHand
  <2> HIDE DEF Sum, l, h, s, f
  <2> QED BY <1>6, <2>1, <2>2
<1>12. CASE Attempted
  <2>1. /\ offered' = offered /\ Recorded' = Recorded /\ discarded' = discarded
        /\ Len(notices') = l
    BY <1>7, <1>12 DEF Attempted
  <2>2. h = 1 /\ Cardinality(InHand') = 0
    BY <1>2, <1>3, <1>12 DEF Attempted, InHand
  <2>3. hand \in Notices /\ hand \notin delivered /\ hand \notin failed
    BY <1>12 DEF Attempted, NoticesTypeOK, Order, Pending, InHand
  <2>4. \/ Cardinality(delivered') = s + 1 /\ Cardinality(failed') = f
        \/ Cardinality(delivered') = s /\ Cardinality(failed') = f + 1
    BY <1>12, <2>3, OneMore DEF Attempted, NoticesTypeOK
  <2> HIDE DEF Sum, l, h, s, f
  <2> QED BY <1>6, <2>1, <2>2, <2>4
<1>13. CASE DiscardedOne
  <2>1. /\ offered' = offered /\ Recorded' = Recorded /\ discarded' = discarded + 1
        /\ Cardinality(InHand') = h /\ Cardinality(delivered') = s /\ Cardinality(failed') = f
    BY <1>7, <1>13 DEF DiscardedOne, Still, InHand
  <2>2. Len(notices') = l - 1
    BY <1>8, <1>13 DEF DiscardedOne
  <2> HIDE DEF Sum, l, h, s, f
  <2> QED BY <1>6, <2>1, <2>2
<1>14. CASE DiscardsCounted
  <2>1. /\ offered' = offered /\ Recorded' = Recorded + discarded /\ discarded' = 0
        /\ Cardinality(InHand') = h /\ Cardinality(delivered') = s /\ Cardinality(failed') = f
        /\ Len(notices') = l
    BY <1>1, <1>7, <1>14 DEF DiscardsCounted, Still, InHand
  <2> HIDE DEF Sum, l, h, s, f
  <2> QED BY <1>6, <2>1
<1>15. CASE Unmoved
  <2>1. /\ offered' = offered /\ Recorded' = Recorded /\ discarded' = discarded
        /\ Cardinality(InHand') = h /\ Cardinality(delivered') = s /\ Cardinality(failed') = f
        /\ Len(notices') = l
    BY <1>7, <1>15 DEF Unmoved, Still, InHand
  <2> HIDE DEF Sum, l, h, s, f
  <2> QED BY <1>5, <2>1
<1> QED BY <1>9, <1>10, <1>11, <1>12, <1>13, <1>14, <1>15 DEF Effect

\* No call is forgotten once it is made.
Made(m) == acks[m] # "idle"

\* What the worker serves was asked for, and it is done when it says so.
LEMMA ServingStep ==
    ASSUME TypeOK, TypeOK', Serving, Leaving, [Next]_vars
    PROVE  Serving' /\ Leaving'
<1> USE MessagesAssumption
<1>1. /\ acks \in [Messages -> {"idle", "pending", "yes", "lost", "timeout"}]
      /\ control \in Seq(Messages) /\ ctl \in Messages \cup {NoMsg}
      /\ hand \in Notices \cup {0} /\ notices \in Seq(Notices) /\ 0 \notin Notices
  BY DEF TypeOK, Notices
<1>2. /\ hand # 0 <=> pc = "send"
      /\ ctl \in Messages => Made(ctl)
      /\ \A i \in 1..Len(control) : Made(control[i])
      /\ pc = "leaving" => ~open \/ \E s \in Shutdowns : Made(s)
      /\ (\E s \in Shutdowns : acks[s] = "yes") => pc \in {"leaving", "exited"}
  BY DEF Serving, Leaving, Made
<1>3. ASSUME \A m \in Messages : Made(m) => Made(m)'
      PROVE  /\ ctl \in Messages => acks'[ctl] # "idle"
             /\ \A i \in 1..Len(control) : acks'[control[i]] # "idle"
             /\ (\E s \in Shutdowns : Made(s)) => \E s \in Shutdowns : Made(s)'
  <2>1. ASSUME NEW i \in 1..Len(control) PROVE control[i] \in Messages
    BY <1>1, ElementOfSeq
  <2>2. \A i \in 1..Len(control) : acks'[control[i]] # "idle"
    BY <1>2, <1>3, <2>1 DEF Made
  <2>3. ctl \in Messages => acks'[ctl] # "idle"
    BY <1>2, <1>3 DEF Made
  <2>4. ASSUME NEW s \in Shutdowns, Made(s) PROVE Made(s)'
    BY <1>3, <2>4 DEF Messages
  <2> QED BY <2>2, <2>3, <2>4 DEF Made
<1>4. CASE TryEnqueue
  BY <1>2, <1>4 DEF TryEnqueue, Serving, Leaving, Made, workerVars
<1>5. ASSUME NEW m \in Messages, Send(m) PROVE Serving' /\ Leaving'
  <2>1. /\ \A x \in Messages : x # m => acks'[x] = acks[x]
        /\ acks'[m] \in {"pending", "lost"}
        /\ control' = control \/ control' = Append(control, m)
        /\ UNCHANGED <<open, pc, ctl, hand>>
    BY <1>1, <1>5 DEF Send, workerVars
  <2>2. \A x \in Messages : Made(x) => Made(x)'
    BY <2>1 DEF Made
  <2>3. \A i \in 1..Len(control') : acks'[control'[i]] # "idle"
    <3>1. CASE control' = control
      BY <1>3, <2>2, <3>1
    <3>2. CASE control' = Append(control, m)
      <4>1. /\ Len(control') = Len(control) + 1 /\ Len(control) \in Nat
            /\ \A i \in 1..Len(control) : control'[i] = control[i]
            /\ control'[Len(control) + 1] = m
        BY <1>1, <3>2, AppendProperties, LenProperties
      <4>2. ASSUME NEW i \in 1..Len(control'), i \notin 1..Len(control)
            PROVE  i = Len(control) + 1
        BY <4>1, <4>2
      <4> QED BY <1>3, <2>1, <2>2, <4>1, <4>2
    <3> QED BY <2>1, <3>1, <3>2
  <2>4. \A s \in Shutdowns : acks'[s] = "yes" => acks[s] = "yes"
    BY <2>1 DEF Messages
  <2>5. (\E s \in Shutdowns : acks'[s] = "yes") => pc \in {"leaving", "exited"}
    BY <1>2, <2>4
  <2> QED
    BY <1>2, <1>3, <2>1, <2>2, <2>3, <2>5 DEF Serving, Leaving, Made
<1>6. ASSUME NEW m \in Messages, Expire(m) PROVE Serving' /\ Leaving'
  <2>1. /\ \A x \in Messages : x # m => acks'[x] = acks[x]
        /\ acks'[m] = "timeout"
        /\ UNCHANGED <<open, control, pc, ctl, hand>>
    BY <1>1, <1>6 DEF Expire, workerVars
  <2>2. \A x \in Messages : Made(x) => Made(x)'
    BY <2>1 DEF Made
  <2>3. \A s \in Shutdowns : acks'[s] = "yes" => acks[s] = "yes"
    BY <2>1 DEF Messages
  <2>4. (\E s \in Shutdowns : acks'[s] = "yes") => pc \in {"leaving", "exited"}
    BY <1>2, <2>3
  <2> QED
    BY <1>2, <1>3, <2>1, <2>2, <2>4 DEF Serving, Leaving, Made
<1>7. CASE DropClient
  BY <1>2, <1>7 DEF DropClient, Serving, Leaving, Made, workerVars
\* The oldest message is one that was sent, and so are the others.
<1>8. ASSUME control # <<>>
      PROVE  /\ Head(control) \in Messages /\ Made(Head(control))
             /\ \A i \in 1..Len(Tail(control)) : Made(Tail(control)[i])
  <2>1. /\ Len(control) \in Nat \ {0} /\ Head(control) = control[1]
        /\ Head(control) \in Messages
        /\ Len(Tail(control)) = Len(control) - 1
        /\ \A i \in 1..(Len(control) - 1) : Tail(control)[i] = control[i + 1]
    BY <1>1, <1>8, LenProperties, HeadTailProperties, EmptySeq
  <2>2. ASSUME NEW i \in 1..Len(Tail(control))
        PROVE  i + 1 \in 1..Len(control) /\ Tail(control)[i] = control[i + 1]
    BY <2>1
  <2>3. 1 \in 1..Len(control)
    BY <2>1
  <2> QED BY <1>2, <2>1, <2>2, <2>3
<1>9. CASE RecvControl
  <2>1. /\ control # <<>> /\ ctl' = Head(control) /\ control' = Tail(control)
        /\ pc' \in {"discard", "drain"} /\ pc \in {"select", "pause"}
        /\ UNCHANGED <<open, acks, hand>>
    BY <1>9 DEF RecvControl, Serve, clientVars
  <2> QED BY <1>2, <1>8, <2>1 DEF Serving, Leaving, Made
<1>10. CASE SuspendedRecv
  <2>1. /\ control # <<>> /\ ctl' = Head(control) /\ control' = Tail(control)
        /\ pc' = "discard" /\ pc = "suspended"
        /\ UNCHANGED <<open, acks, hand>>
    BY <1>10 DEF SuspendedRecv, clientVars
  <2> QED BY <1>2, <1>8, <2>1 DEF Serving, Leaving, Made
<1>11. CASE RecvNotice
  <2>1. hand' \in Notices
    BY <1>1, <1>11, HeadTailProperties DEF RecvNotice
  <2> QED BY <1>1, <1>2, <1>11, <2>1 DEF RecvNotice, Serving, Leaving, Made, clientVars
<1>12. CASE Disconnected
  BY <1>2, <1>12 DEF Disconnected, Serving, Leaving, Made, clientVars
<1>13. CASE Leave
  <2>1. /\ pc = "leaving" /\ pc' = "exited" /\ control' = <<>>
        /\ UNCHANGED <<open, ctl, hand>>
        /\ \A m \in Messages : acks'[m] = "idle" => acks[m] = "idle"
    BY <1>1, <1>13 DEF Leave
  <2>2. Len(control') = 0
    BY <2>1, EmptySeq
  <2> QED BY <1>2, <2>1, <2>2 DEF Serving, Leaving, Made
<1>14. CASE Deliver
  <2>1. /\ pc = "send" /\ pc' \in {"select", "pause", "drain", "discard"} /\ hand' = 0
        /\ UNCHANGED <<clientVars, control, ctl>>
    BY <1>14 DEF Deliver, SendSuccess, SendThrottled, SendFailed, SendRefused, Continue
  <2> QED BY <1>2, <2>1 DEF Serving, Leaving, Made, clientVars
<1>15. CASE SuspensionOver \/ DiscardOne \/ PauseOver
  BY <1>2, <1>15
  DEF SuspensionOver, DiscardOne, PauseOver, Serving, Leaving, Made, clientVars
<1>16. CASE QueueEmpty
  <2>1. /\ pc \in {"drain", "discard"} /\ ctl' = NoMsg /\ UNCHANGED <<open, control, hand>>
    BY <1>16 DEF QueueEmpty, Drained
  <2>2. /\ \A m \in Messages : acks'[m] = acks[m] \/ (m = ctl /\ acks'[m] = "yes")
        /\ pc' \in {"suspended", "select", "leaving"}
        /\ (pc' = "leaving" \/ acks' # acks) /\ ctl \in Shutdowns => pc' = "leaving"
        /\ pc' = "leaving" => ctl \in Shutdowns
        /\ ctl \notin Messages => acks' = acks
    BY <1>1, <1>16
    DEF QueueEmpty, EnterSuspension, Resume, AnswerFlush, AnswerShutdown, Answer,
                       Messages
  <2>3. \A m \in Messages : Made(m) => Made(m)'
    BY <2>2 DEF Made
  <2>4. ASSUME NEW s \in Shutdowns, acks'[s] = "yes" PROVE pc' = "leaving"
    <3>1. acks[s] # "yes"
      BY <1>2, <2>1
    <3>2. s = ctl /\ acks' # acks
      BY <2>2, <2>4, <3>1 DEF Messages
    <3> QED BY <2>2, <3>2
  <2>5. ASSUME pc' = "leaving" PROVE \E s \in Shutdowns : Made(s)'
    <3>1. ctl \in Shutdowns /\ Made(ctl)
      BY <1>2, <2>2, <2>5 DEF Messages
    <3> QED BY <2>3, <3>1 DEF Messages
  <2> QED BY <1>2, <1>3, <2>1, <2>2, <2>3, <2>4, <2>5 DEF Serving, Leaving, Made
<1>17. CASE SuspensionPasses
  BY <1>2, <1>17 DEF SuspensionPasses, Serving, Leaving, Made, clientVars
<1>18. CASE MinutePasses \/ UNCHANGED vars
  BY <1>2, <1>18 DEF MinutePasses, vars, Serving, Leaving, Made, clientVars, workerVars
<1> QED
  BY <1>4, <1>5, <1>6, <1>7, <1>9, <1>10, <1>11, <1>12, <1>13, <1>14, <1>15, <1>16, <1>17,
     <1>18
  DEF Next, Callers, Worker, Clock

-----------------------------------------------------------------------------
(* The invariant.                                                          *)

\* A worker that has started has nothing to account for.
LEMMA InitIInv == Init => IInv
<1> SUFFICES ASSUME Init PROVE IInv
  OBVIOUS
<1> USE LimitsAssumption, MessagesAssumption
<1>1. TypeOK
  <2>1. NoticesTypeOK /\ ThrottleTypeOK
    BY DEF Init, NoticesTypeOK, ThrottleTypeOK
  <2>2. ControlTypeOK
    <3>1. before \in [Messages -> 0..MaxOffers]
      BY DEF Init
    <3>2. acks \in [Messages -> {"idle", "pending", "yes", "lost", "timeout"}]
      BY DEF Init
    <3>3. control \in Seq(Messages)
      BY DEF Init
    <3> QED BY <3>1, <3>2, <3>3 DEF Init, ControlTypeOK
  <2>3. DropTypeOK
    BY DEF Init, DropInit, DropTypeOK
  <2> QED BY <2>1, <2>2, <2>3 DEF TypeOK, NoticesTypeOK, ControlTypeOK, ThrottleTypeOK
<1>2. Pending = {} /\ InHand = {}
  BY NoItems DEF Init, Pending, Queued, Items, InHand
<1>3. Order
  BY <1>2, NoItems DEF Init, Order, Pending
<1>4. Serving /\ Leaving
  BY EmptySeq DEF Init, Serving, Leaving, Messages
<1>5. EveryNoticeCounted
  BY <1>2, NoItems, FS_EmptySet DEF Init, DropInit, Recorded, EveryNoticeCounted
<1> QED BY <1>1, <1>3, <1>4, <1>5 DEF IInv

\* Every step keeps the invariant.
LEMMA StepIInv == IInv /\ [Next]_vars => IInv'
<1> SUFFICES ASSUME IInv, [Next]_vars PROVE IInv'
  OBVIOUS
<1>1. TypeOK /\ Order /\ Serving /\ Leaving /\ EveryNoticeCounted
  BY DEF IInv
<1>2. TypeOK' /\ Serving' /\ Leaving'
  BY <1>1, TypeStep, ServingStep
<1>3. Effect /\ NoticesTypeOK /\ DropTypeOK /\ DropTypeOK'
  BY <1>1, Effects DEF Effective, TypeOK, NoticesTypeOK
<1>4. Order' /\ EveryNoticeCounted'
  BY <1>1, <1>3, OrderStep, CountStep
<1> QED BY <1>2, <1>4 DEF IInv

\* Whatever callers, worker and clock do, the worker is in a state the
\* invariant describes.
THEOREM Invariance == Spec => []IInv
<1> QED BY InitIInv, StepIInv, PTL DEF Spec

\* Every variable keeps its type, the throttle counter its width.
THEOREM TypesHold == Spec => []TypeOK
<1>1. IInv => TypeOK
  BY DEF IInv
<1> QED BY <1>1, Invariance, PTL

\* A notice ever offered is pending, attempted once, or counted as a drop
\* once (drain_and_drop, drain_and_send, try_enqueue).
THEOREM NoticesCounted == Spec => []EveryNoticeCounted
<1>1. IInv => EveryNoticeCounted
  BY DEF IInv
<1> QED BY <1>1, Invariance, PTL

-----------------------------------------------------------------------------
(* The promise.                                                            *)

\* Promise's count of lost notices.
Lost == Recorded + discarded + Cardinality(failed)

\* What is lost can be counted.
LEMMA LostType ==
    ASSUME NoticesTypeOK, DropTypeOK
    PROVE  Recorded \in Nat /\ Cardinality(failed) \in Nat /\ Lost \in Nat
<1>1. ASSUME NEW d \in Nat, NEW r \in Nat PROVE d + r \in Nat
  OBVIOUS
<1>2. Recorded \in Nat
  BY <1>1, Zenon DEF DropTypeOK, Recorded
<1>3. IsFiniteSet(Notices)
  BY LimitsAssumption, FS_Interval DEF Notices
<1>4. Cardinality(failed) \in Nat
  BY <1>3, FS_Subset, FS_CardinalityType DEF NoticesTypeOK
<1> QED BY <1>2, <1>4 DEF NoticesTypeOK, Lost

\* What the effects are to somebody who sees no channel and no hand.
LEMMA EffectsOutside ==
    ASSUME NoticesTypeOK, Order, DropTypeOK, DropTypeOK'
    PROVE  /\ Enqueued => Pending' = Pending \cup {offered + 1} /\ Lost' = Lost
           /\ Rejected => Pending' = Pending /\ Lost' = Lost + 1
           /\ Received \/ DiscardsCounted \/ Unmoved => Pending' = Pending /\ Lost' = Lost
           /\ Attempted =>
                 /\ hand \in Pending /\ Pending' = Pending \ {hand}
                 /\ \A e \in Pending' : hand < e
                 /\ \/ delivered' = delivered \cup {hand} /\ Lost' = Lost
                    \/ delivered' = delivered /\ Lost' = Lost + 1
           /\ DiscardedOne =>
                 /\ Head(notices) \in Pending /\ Pending' = Pending \ {Head(notices)}
                 /\ Lost' = Lost + 1
<1>1. /\ 0 \notin Notices /\ Notices \subseteq Nat
      /\ notices \in Seq(Notices) /\ Increasing(notices) /\ hand \in Notices \cup {0}
  BY DEF Notices, NoticesTypeOK, Order
<1>2. Queued = Items(notices) /\ Queued' = Items(notices')
  BY DEF Queued, Items
<1>3. discarded \in Nat /\ Recorded \in Nat /\ Cardinality(failed) \in Nat
  BY LostType DEF NoticesTypeOK
<1>4. Recorded' \in Nat
  <2>1. ASSUME NEW d \in Nat, NEW r \in Nat PROVE d + r \in Nat
    OBVIOUS
  <2> QED BY <2>1, Zenon DEF DropTypeOK, Recorded
<1>5. ASSUME notices # <<>>, notices' = Tail(notices)
      PROVE  /\ Queued = {Head(notices)} \cup Queued'
             /\ \A x \in Queued' : Head(notices) < x
             /\ Head(notices) \in Notices
  BY <1>1, <1>2, <1>5, Left
<1>6. ASSUME Enqueued PROVE Pending' = Pending \cup {offered + 1} /\ Lost' = Lost
  <2>1. offered + 1 \in Notices
    BY <1>6, LimitsAssumption DEF Enqueued, NoticesTypeOK, Notices
  <2>2. \A x \in Queued : x < offered + 1
    BY DEF Order, Pending, NoticesTypeOK
  <2>3. Queued' = Queued \cup {offered + 1}
    BY <1>1, <1>2, <1>6, <2>1, <2>2, Joined DEF Enqueued
  <2>4. Lost' = Lost
    BY <1>3, <1>4, <1>6 DEF Enqueued, Counted, Lost
  <2> QED BY <1>6, <2>3, <2>4 DEF Enqueued, Pending, InHand
<1>7. ASSUME Rejected PROVE Pending' = Pending /\ Lost' = Lost + 1
  BY <1>3, <1>4, <1>7 DEF Rejected, Counted, Lost, Pending, InHand, Queued
<1>8. ASSUME Received PROVE Pending' = Pending /\ Lost' = Lost
  <2>1. Pending' = Pending
    BY <1>1, <1>5, <1>8 DEF Received, Pending, InHand
  <2> QED BY <1>3, <1>4, <1>8, <2>1 DEF Received, Still, Counted, Lost
<1>9. ASSUME DiscardsCounted \/ Unmoved PROVE Pending' = Pending /\ Lost' = Lost
  BY <1>3, <1>4, <1>9
  DEF DiscardsCounted, Unmoved, Still, Counted, Lost, Pending, InHand, Queued
<1>10. ASSUME Attempted
       PROVE  /\ hand \in Pending /\ Pending' = Pending \ {hand}
              /\ \A e \in Pending' : hand < e
              /\ \/ delivered' = delivered \cup {hand} /\ Lost' = Lost
                 \/ delivered' = delivered /\ Lost' = Lost + 1
  <2>1. Pending = {hand} \cup Queued /\ Pending' = Queued /\ hand \in Notices
    BY <1>1, <1>10 DEF Attempted, Pending, InHand, Queued
  <2>2. \A e \in Queued : hand < e
    BY <1>10 DEF Attempted, Order
  <2>3. hand \notin Queued /\ hand \notin failed
    BY <1>1, <2>1, <2>2 DEF Order
  <2>4. Cardinality(failed \cup {hand}) = Cardinality(failed) + 1
    BY <2>1, <2>3, OneMore DEF NoticesTypeOK
  <2>5. CASE delivered' = delivered \cup {hand} /\ failed' = failed
    <3>1. Lost' = Lost
      BY <1>3, <1>4, <1>10, <2>5 DEF Attempted, Counted, Lost
    <3> QED BY <2>1, <2>2, <2>3, <2>5, <3>1
  <2>6. CASE delivered' = delivered /\ failed' = failed \cup {hand}
    <3>1. Lost' = Lost + 1
      BY <1>3, <1>4, <1>10, <2>4, <2>6 DEF Attempted, Counted, Lost
    <3> QED BY <2>1, <2>2, <2>3, <2>6, <3>1
  <2> QED BY <1>10, <2>5, <2>6 DEF Attempted
<1>11. ASSUME DiscardedOne
       PROVE  /\ Head(notices) \in Pending /\ Pending' = Pending \ {Head(notices)}
              /\ Lost' = Lost + 1
  <2>1. Lost' = Lost + 1
    BY <1>3, <1>4, <1>11 DEF DiscardedOne, Still, Counted, Lost
  <2>2. /\ Queued = {Head(notices)} \cup Queued' /\ Head(notices) \in Notices
        /\ \A x \in Queued' : Head(notices) < x
    BY <1>5, <1>11 DEF DiscardedOne
  <2>3. Head(notices) \notin Queued'
    <3>1. \A n \in Nat : ~(n < n)
      OBVIOUS
    <3> QED BY <1>1, <2>2, <3>1, Zenon
  <2>4. Pending = Queued /\ Pending' = Queued'
    BY <1>1, <1>11 DEF DiscardedOne, Pending, InHand
  <2> QED BY <2>1, <2>2, <2>3, <2>4
<1> QED BY <1>6, <1>7, <1>8, <1>9, <1>10, <1>11

\* The answers a step gives, if it gives any, as Promise gives them.
LEMMA AnswersOutside ==
    ASSUME acks' \in [Messages -> {"idle", "pending", "yes", "lost", "timeout"}],
           \A m \in Messages : acks[m] # "pending" => acks'[m] = acks[m],
           \A m \in Messages : acks[m] = "pending" =>
              /\ acks'[m] \in {"pending", "yes", "lost"}
              /\ acks'[m] = "yes" => Pending' = {}
              /\ acks'[m] = "lost" => pc' = "exited"
              /\ acks'[m] = "pending" => pc' # "exited"
    PROVE  Promise!Answer
<1> DEFINE waiters == {m \in Messages : acks[m] = "pending"}
           heard == [m \in waiters |-> acks'[m]]
<1>1. heard \in [waiters -> {"pending", "yes", "no", "lost"}]
  OBVIOUS
<1>2. acks' = [m \in Messages |-> IF m \in waiters THEN heard[m] ELSE acks[m]]
  <2>1. \A m \in Messages : acks'[m] = IF m \in waiters THEN heard[m] ELSE acks[m]
    OBVIOUS
  <2> HIDE DEF heard
  <2> QED BY <2>1
<1>3. \A m \in waiters :
         /\ heard[m] = "yes" => \A e \in Pending' : e > before[m]
         /\ heard[m] = "lost" => (pc = "exited")'
         /\ heard[m] = "pending" => ~(pc = "exited")'
  OBVIOUS
<1> HIDE DEF heard
<1> QED BY <1>1, <1>2, <1>3 DEF Promise!Answer

\* Promise counts as this module does.
LEMMA SameCount ==
    ASSUME NEW S
    PROVE  Promise!Cardinality(S) = Cardinality(S)
BY DEF Promise!Cardinality, Cardinality

\* A step that loses what leaves the pipeline loses it as Promise says.
LEMMA LosesThem ==
    ASSUME Pending' \subseteq Pending, delivered' = delivered,
           Lost' = Lost + Cardinality(Pending \ Pending')
    PROVE  Promise!Lose
<1>1. Pending' \in SUBSET Pending
  OBVIOUS
<1>2. (Recorded + discarded + Cardinality(failed))'
         = Recorded + discarded + Cardinality(failed)
           + Promise!Cardinality(Pending \ Pending')
  BY SameCount, Zenon DEF Lost
<1> QED BY <1>1, <1>2, Zenon DEF Promise!Lose

\* Every step of the worker or of its callers is a step of the promise, or
\* none that it can see.
LEMMA StepsPromised == IInv /\ IInv' /\ [Next]_vars => [Promise!Next]_Promise!vars
<1> SUFFICES ASSUME IInv, IInv', [Next]_vars PROVE [Promise!Next]_Promise!vars
  OBVIOUS
<1> USE MessagesAssumption
<1>1. TypeOK /\ Order /\ Serving /\ Leaving /\ TypeOK'
  BY DEF IInv
<1>2. NoticesTypeOK /\ DropTypeOK /\ DropTypeOK' /\ Effective
  BY <1>1, Effects DEF Effective, TypeOK, NoticesTypeOK
<1>3. /\ acks \in [Messages -> {"idle", "pending", "yes", "lost", "timeout"}]
      /\ acks' \in [Messages -> {"idle", "pending", "yes", "lost", "timeout"}]
      /\ open \in BOOLEAN /\ ctl \in Messages \cup {NoMsg}
  BY <1>1 DEF TypeOK
\* What only moves the worker's own variables.
<1>4. ASSUME UNCHANGED <<open, offered, before, acks, delivered>>,
             Pending' = Pending, Lost' = Lost, pc' # "exited", pc # "exited"
      PROVE  UNCHANGED Promise!vars
  BY <1>4 DEF Promise!vars, Promise!itemVars, Lost
\* Nobody hears anything.
<1>5. ASSUME UNCHANGED acks, pc' # "exited"
      PROVE  Promise!Answer
  BY <1>3, <1>5, AnswersOutside
<1>6. CASE TryEnqueue
  <2>1. /\ offered' = offered + 1
        /\ UNCHANGED <<open, acks, before, pc, delivered>>
    BY <1>6 DEF TryEnqueue, workerVars, historyVars
  <2>2. CASE Accepting /\ Enqueued
    <3>1. Pending' = Pending \cup {offered + 1} /\ Lost' = Lost
      BY <1>1, <1>2, <2>2, EffectsOutside
    <3>2. open /\ pc # "exited"
      BY <1>6, <2>2 DEF TryEnqueue, Accepting
    <3> QED BY <2>1, <3>1, <3>2 DEF Promise!Offer, Promise!Next, Lost
  <2>3. CASE Rejected
    <3>1. Pending' = Pending /\ Lost' = Lost + 1
      BY <1>1, <1>2, <2>3, EffectsOutside
    <3> QED BY <2>1, <3>1 DEF Promise!Offer, Promise!Next, Lost
  <2> QED BY <1>2, <1>6, <2>2, <2>3 DEF Effective
<1>7. ASSUME NEW m \in Messages, Send(m) PROVE [Promise!Next]_Promise!vars
  <2>1. open /\ acks[m] = "idle" /\ before' = [before EXCEPT ![m] = offered]
    BY <1>7 DEF Send
  <2>2. acks' = [acks EXCEPT ![m] = IF pc = "exited" THEN "lost" ELSE "pending"]
    BY <1>7 DEF Send
  <2>3. /\ UNCHANGED <<open, offered, pc, delivered, discarded, failed>>
        /\ Pending' = Pending /\ Recorded' = Recorded
    BY <1>7 DEF Send, workerVars, historyVars, dropVars, Recorded, Pending, InHand, Queued
  <2>4. Promise!Call(m)
    BY <2>1, <2>2, <2>3 DEF Promise!Call, Promise!itemVars
  <2> QED BY <2>4 DEF Promise!Next
<1>8. ASSUME NEW m \in Messages, Expire(m) PROVE [Promise!Next]_Promise!vars
  <2>1. /\ UNCHANGED <<open, offered, before, pc, delivered, discarded, failed>>
        /\ Pending' = Pending /\ Recorded' = Recorded
    BY <1>8 DEF Expire, workerVars, historyVars, dropVars, Recorded, Pending, InHand, Queued
  <2>2. Promise!Expire(m)
    BY <1>8, <2>1 DEF Expire, Promise!Expire, Promise!GiveUp, Promise!itemVars
  <2> QED BY <2>2 DEF Promise!Next
<1>9. CASE DropClient
  <2>1. /\ UNCHANGED <<offered, acks, before, pc, delivered, discarded, failed>>
        /\ Pending' = Pending /\ Recorded' = Recorded
    BY <1>9 DEF DropClient, workerVars, historyVars, dropVars, Recorded, Pending, InHand,
                Queued
  <2>2. Promise!Close
    BY <1>9, <2>1 DEF DropClient, Promise!Close, Promise!itemVars
  <2> QED BY <2>2 DEF Promise!Next
\* A channel, a pause, a suspension or the clock.
<1>10. CASE \/ RecvControl \/ RecvNotice \/ Disconnected
            \/ SuspendedRecv \/ SuspensionOver \/ PauseOver
  <2>1. /\ UNCHANGED <<open, offered, before, acks, delivered>>
        /\ pc \in {"select", "pause", "drain", "suspended"}
        /\ pc' \in {"select", "drain", "discard", "send", "leaving"}
    BY <1>10
    DEF RecvControl, Serve, RecvNotice, Disconnected, SuspendedRecv, SuspensionOver,
                 PauseOver, clientVars, historyVars
  <2>2. Received \/ Unmoved
    BY <1>2, <1>10 DEF Effective
  <2>3. Pending' = Pending /\ Lost' = Lost
    BY <1>1, <1>2, <2>2, EffectsOutside
  <2> QED BY <1>4, <2>1, <2>3
<1>11. CASE SuspensionPasses \/ MinutePasses \/ UNCHANGED vars
  <2>1. /\ UNCHANGED <<open, offered, before, acks, pc, delivered, failed, discarded>>
        /\ Pending' = Pending
    BY <1>11 DEF SuspensionPasses, MinutePasses, vars, workerVars, clientVars, historyVars,
                 Pending, InHand, Queued
  <2>2. Recorded' = Recorded
    BY <1>11 DEF SuspensionPasses, MinutePasses, LogWindowPasses, vars, dropVars, Recorded
  <2> QED BY <2>1, <2>2 DEF Promise!vars, Promise!itemVars
\* No item moves, and the worker stays or leaves.
<1>12. ASSUME Promise!Answer, UNCHANGED <<open, offered, before, delivered>>,
              Pending' = Pending, Lost' = Lost, pc # "exited",
              pc' = "exited" => Promise!MayLeave
       PROVE  [Promise!Next]_Promise!vars
  <2>1. Promise!Lose
    <3>1. Pending \ Pending' = {} /\ Cardinality({}) = 0
      BY <1>12, FS_EmptySet
    <3>2. Lost' = Lost + Cardinality(Pending \ Pending')
      <4>1. Lost \in Nat
        BY <1>2, LostType
      <4> QED BY <1>12, <3>1, <4>1
    <3> QED BY <1>12, <3>2, LosesThem
  <2>2. (pc = "exited")' \in {FALSE, Promise!MayLeave}
    BY <1>12, Zenon
  <2> QED BY <1>12, <2>1, <2>2 DEF Promise!Next, Promise!Work
<1>13. CASE Leave
  <2>1. /\ pc = "leaving" /\ pc' = "exited"
        /\ UNCHANGED <<open, offered, before, delivered, failed, discarded>>
        /\ Pending' = Pending /\ Recorded' = Recorded
        /\ acks' = [m \in Messages |-> IF acks[m] = "pending" THEN "lost" ELSE acks[m]]
    BY <1>13 DEF Leave, historyVars, dropVars, Pending, InHand, Queued, Recorded
  <2>2. Promise!Answer
    BY <1>3, <2>1, AnswersOutside
  <2>3. Promise!MayLeave
    BY <1>1, <2>1 DEF Leaving, Promise!MayLeave
  <2> QED BY <1>12, <2>1, <2>2, <2>3 DEF Lost
<1>14. CASE QueueEmpty
  <2>1. /\ notices = <<>> /\ pc \in {"drain", "discard"} /\ DiscardsCounted
        /\ UNCHANGED <<open, offered, before, hand, delivered>>
    BY <1>2, <1>14 DEF QueueEmpty, Drained, historyVars, Effective
  <2>2. /\ \A m \in Messages : acks'[m] # acks[m] => acks[m] = "pending" /\ acks'[m] = "yes"
        /\ pc' # "exited"
    BY <1>3, <1>14 DEF QueueEmpty, EnterSuspension, Resume, AnswerFlush, AnswerShutdown,
                       Answer, Messages
  <2>3. Pending' = Pending /\ Lost' = Lost
    BY <1>1, <1>2, <2>1, EffectsOutside
  <2>4. Pending = {}
    BY <1>1, <2>1, NoItems DEF Serving, Pending, InHand, Queued, Items
  <2>5. Promise!Answer
    BY <1>3, <2>2, <2>3, <2>4, AnswersOutside
  <2> QED BY <1>12, <2>1, <2>2, <2>3, <2>5
<1>15. CASE DiscardOne
  <2>1. /\ DiscardedOne /\ pc = "discard" /\ pc' = "discard"
        /\ UNCHANGED <<open, offered, before, acks, delivered>>
    BY <1>2, <1>15 DEF DiscardOne, clientVars, historyVars, Effective
  <2>2. /\ Head(notices) \in Pending /\ Pending' = Pending \ {Head(notices)}
        /\ Lost' = Lost + 1
    BY <1>1, <1>2, <2>1, EffectsOutside
  <2>3. Promise!Lose
    <3>1. Pending \ Pending' = {Head(notices)} /\ Cardinality({Head(notices)}) = 1
      BY <2>2, FS_Singleton
    <3> QED BY <2>1, <2>2, <3>1, LosesThem
  <2> QED BY <1>5, <2>1, <2>3 DEF Promise!Next, Promise!Work
<1>16. CASE Deliver
  <2>1. /\ Attempted /\ pc = "send" /\ UNCHANGED <<open, offered, before, acks>>
        /\ pc' \in {"select", "pause", "drain", "discard"}
    BY <1>2, <1>16
    DEF Deliver, SendSuccess, SendThrottled, SendFailed, SendRefused, Continue, clientVars,
        Effective
  <2>2. /\ hand \in Pending /\ Pending' = Pending \ {hand}
        /\ \A e \in Pending' : hand < e
        /\ \/ delivered' = delivered \cup {hand} /\ Lost' = Lost
           \/ delivered' = delivered /\ Lost' = Lost + 1
    BY <1>1, <1>2, <2>1, EffectsOutside
  <2>3. Pending \ Pending' = {hand} /\ Cardinality({hand}) = 1
    BY <2>2, FS_Singleton
  <2>4. \A s \in Shutdowns : acks[s] # "yes"
    BY <1>1, <2>1 DEF Leaving
  <2>5. Promise!Take \/ Promise!Lose
    <3>1. CASE delivered' = delivered \cup {hand} /\ Lost' = Lost
      <4>1. \A old \in Pending \ Pending', new \in Pending' : old < new
        BY <2>2, <2>3
      <4> QED BY <2>2, <2>3, <2>4, <3>1, <4>1, Zenon DEF Promise!Take, Lost
    <3>2. CASE delivered' = delivered /\ Lost' = Lost + 1
      BY <2>2, <2>3, <3>2, LosesThem
    <3> QED BY <2>2, <3>1, <3>2
  <2> QED BY <1>5, <2>1, <2>5 DEF Promise!Next, Promise!Work
<1> QED
  BY <1>6, <1>7, <1>8, <1>9, <1>10, <1>11, <1>13, <1>14, <1>15, <1>16
  DEF Next, Callers, Worker, Clock

\* The worker keeps the promise that the client is built on: notices leave in
\* order and at most once, flush and shutdown are barriers, and nothing is
\* sent after a shutdown is acknowledged.
THEOREM KeepsPromise == Spec => Implements
<1>1. Init => Promise!Init
  <2> SUFFICES ASSUME Init PROVE Promise!Init
    OBVIOUS
  <2>1. Pending = {}
    BY NoItems DEF Init, Pending, Queued, Items, InHand
  <2>2. Recorded + discarded + Cardinality(failed) = 0
    BY FS_EmptySet DEF Init, DropInit, Recorded
  <2> QED BY <2>1, <2>2 DEF Init, Promise!Init
<1> QED
  BY <1>1, StepsPromised, Invariance, PTL DEF Spec, Implements, Promise!Spec
=============================================================================
