------------------------ MODULE ClientLifecycleProofs ------------------------
(***************************************************************************)
(* Theorems about ClientLifecycle, for any calls, timeouts and floor and   *)
(* any number of forks: nothing is left without a worker that is told to   *)
(* stop, calls keep their time, and a flush is a barrier.                  *)
(***************************************************************************)
EXTENDS ClientLifecycle, TLAPS

Heard == {"idle", "pending", "yes", "no", "lost", "timeout"}

\* What the client sees of the two pipelines.
PipesOK ==
    /\ nOffered \in Nat /\ eOffered \in 0..MaxEvents
    /\ eWaiting \in SUBSET (1..eOffered)
    /\ nBefore \in [Calls -> 0..nOffered] /\ eBefore \in [Calls -> 0..eOffered]
    /\ nAcks \in [Calls -> Heard] /\ eAcks \in [Calls -> Heard]
    /\ nGone \in BOOLEAN

-----------------------------------------------------------------------------
(* The events worker, and who has to stop it.                              *)

\* A worker of this process is behind the handle until a shutdown takes it;
\* the state is Stopped from the first shutdown on.
HandleOK ==
    /\ home <= process
    /\ spawned > 0 => state \in {"Running", "Stopped"} /\ home = process
    /\ state = "Stopped" <=> \E s \in Shutdowns : Begun(s)

\* Once the handle is taken, somebody tells its worker to stop.
Tells(s) == pc[s] = "stop events" \/ eAcks[s] # "idle"
WorkerTold == spawned > 0 /\ state = "Stopped" => \E s \in Shutdowns : Tells(s)

-----------------------------------------------------------------------------
(* Time.                                                                   *)

\* A flush has one deadline.
FlushClock ==
    \A f \in Flushes : /\ until[f] = timeout[f] /\ spent[f] <= until[f]
                       /\ pc[f] = "idle" => spent[f] = 0

\* What a shutdown with a deadline may have spent at each of its steps: the
\* events worker leaves a floor of the timeout for the notices worker.
InBudget(s) ==
    /\ until[s] <= Larger(timeout[s], 2 * Floor)
    /\ pc[s] = "wait events" =>
          spent[s] <= until[s] /\ until[s] = Larger(timeout[s] - Floor, Floor)
    /\ pc[s] = "stop notices" => spent[s] <= Larger(timeout[s] - Floor, Floor)
    /\ pc[s] = "wait notices" => spent[s] <= until[s]
    /\ pc[s] = "done" => spent[s] <= Larger(timeout[s], 2 * Floor)

ShutdownClock ==
    \A s \in Shutdowns :
        /\ pc[s] # "ask events"
        /\ pc[s] \in {"idle", "stop events"} => spent[s] = 0 /\ until[s] = 0
        /\ HasDeadline(s) => InBudget(s)

-----------------------------------------------------------------------------
(* Barriers.                                                               *)

\* The questions of a flush follow its steps, and it asks the events worker
\* after it has noted how many events there were.
Asked ==
    \A f \in Flushes :
        /\ mark[f] <= eOffered
        /\ pc[f] = "idle" => nAcks[f] = "idle"
        /\ pc[f] \in {"idle", "ask events"} => eAcks[f] = "idle"
        /\ eAcks[f] # "idle" => mark[f] <= eBefore[f]

\* A yes says that nothing from before the question waits.
Answered ==
    \A f \in Flushes :
        /\ nAcks[f] = "yes" => \A x \in nWaiting : x > nBefore[f]
        /\ eAcks[f] = "yes" => \A x \in eWaiting : x > eBefore[f]

\* A flush that hears yes from the notices worker is in the process that has
\* that worker.
AtHome == \A f \in Flushes : nAcks[f] = "yes" /\ pc[f] # "done" => process = 0

\* There, a flush need not ask an events worker that does not run: events have
\* none waiting until the first of them starts it.
NothingYet ==
    process = 0 =>
        /\ state \in {"NotStarted", "Failed"} => eWaiting = {}
        /\ \A f \in Flushes :
              pc[f] \in {"wait notices", "wait events"} /\ eAcks[f] = "idle"
              /\ state # "Stopped" => \A x \in eWaiting : x > mark[f]

IInv ==
    /\ TypeOK /\ PipesOK
    /\ HandleOK /\ WorkerTold /\ EventHasWorker
    /\ FlushClock /\ ShutdownClock
    /\ Asked /\ Answered /\ AtHome /\ NothingYet

-----------------------------------------------------------------------------
(* What happens to those who ask a worker.                                 *)

\* A question to the notices worker, which may have left.
LEMMA NoticesAsked ==
    ASSUME PipesOK, NEW c \in Calls, N!Call(c)
    PROVE  /\ nAcks[c] = "idle" /\ nAcks'[c] \in {"lost", "pending"}
           /\ nBefore'[c] = nOffered
           /\ \A d \in Calls \ {c} : nAcks'[d] = nAcks[d] /\ nBefore'[d] = nBefore[d]
           /\ nAcks' \in [Calls -> Heard] /\ nBefore' \in [Calls -> 0..nOffered]
           /\ UNCHANGED <<nOffered, nWaiting, nDelivered, nLost, nClosed, nGone>>
<1>1. UNCHANGED <<nOffered, nWaiting, nDelivered, nLost, nClosed, nGone>>
  BY DEF N!Call, N!itemVars
<1>2. nAcks[c] = "idle" /\ nAcks' = [nAcks EXCEPT ![c] = IF nGone THEN "lost" ELSE "pending"]
  BY DEF N!Call
<1>3. nBefore' = [nBefore EXCEPT ![c] = nOffered]
  BY DEF N!Call
<1>4. nOffered \in 0..nOffered
  BY OffersAssumption DEF PipesOK
<1>5. nBefore' \in [Calls -> 0..nOffered]
  BY <1>3, <1>4 DEF PipesOK
<1>6. nAcks' \in [Calls -> Heard]
  BY <1>2 DEF PipesOK, Heard
<1> QED BY <1>1, <1>2, <1>3, <1>5, <1>6 DEF PipesOK

\* A question to the events worker, which may have left.
LEMMA EventsAsked ==
    ASSUME PipesOK, NEW c \in Calls, E!Call(c)
    PROVE  /\ eAcks[c] = "idle" /\ eAcks'[c] \in {"lost", "pending"}
           /\ eBefore'[c] = eOffered
           /\ \A d \in Calls \ {c} : eAcks'[d] = eAcks[d] /\ eBefore'[d] = eBefore[d]
           /\ eAcks' \in [Calls -> Heard] /\ eBefore' \in [Calls -> 0..eOffered]
           /\ UNCHANGED <<eOffered, eWaiting, eDelivered, eLost, eClosed, eGone>>
<1>1. UNCHANGED <<eOffered, eWaiting, eDelivered, eLost, eClosed, eGone>>
  BY DEF E!Call, E!itemVars
<1>2. eAcks[c] = "idle" /\ eAcks' = [eAcks EXCEPT ![c] = IF eGone THEN "lost" ELSE "pending"]
  BY DEF E!Call
<1>3. eBefore' = [eBefore EXCEPT ![c] = eOffered]
  BY DEF E!Call
<1>4. eOffered \in 0..eOffered
  BY OffersAssumption DEF PipesOK
<1>5. eBefore' \in [Calls -> 0..eOffered]
  BY <1>3, <1>4 DEF PipesOK
<1>6. eAcks' \in [Calls -> Heard]
  BY <1>2 DEF PipesOK, Heard
<1> QED BY <1>1, <1>2, <1>3, <1>5, <1>6 DEF PipesOK

\* The notices worker answers only who waits, and yes only as a barrier.
LEMMA NoticesAnswered ==
    ASSUME PipesOK, N!Work
    PROVE  /\ nWaiting' \subseteq nWaiting
           /\ UNCHANGED <<nOffered, nBefore, nClosed>>
           /\ nGone' \in BOOLEAN
           /\ nAcks' \in [Calls -> Heard]
           /\ \A c \in Calls :
                 /\ nAcks[c] # "pending" => nAcks'[c] = nAcks[c]
                 /\ nAcks[c] = "pending" => nAcks'[c] \in {"pending", "yes", "no", "lost"}
                 /\ nAcks[c] = "pending" /\ nAcks'[c] = "yes" =>
                       \A x \in nWaiting' : x > nBefore[c]
<1> DEFINE waiters == {c \in Calls : nAcks[c] = "pending"}
<1>1. PICK heard \in [waiters -> {"pending", "yes", "no", "lost"}] :
         /\ nAcks' = [c \in Calls |-> IF c \in waiters THEN heard[c] ELSE nAcks[c]]
         /\ \A c \in waiters : heard[c] = "yes" => \A e \in nWaiting' : e > nBefore[c]
  BY DEF N!Work, N!Answer
<1>2. nWaiting' \subseteq nWaiting
  BY DEF N!Work, N!Take, N!Lose
<1>3. nGone' \in BOOLEAN
  BY Zenon DEF N!Work, N!MayLeave
<1>4. nAcks' \in [Calls -> Heard]
  BY <1>1 DEF PipesOK, Heard
<1> QED
  BY <1>1, <1>2, <1>3, <1>4 DEF N!Work, PipesOK

\* The events worker likewise.
LEMMA EventsAnswered ==
    ASSUME PipesOK, E!Work
    PROVE  /\ eWaiting' \subseteq eWaiting
           /\ UNCHANGED <<eOffered, eBefore, eClosed>>
           /\ eAcks' \in [Calls -> Heard]
           /\ \A c \in Calls :
                 /\ eAcks[c] # "pending" => eAcks'[c] = eAcks[c]
                 /\ eAcks[c] = "pending" => eAcks'[c] \in {"pending", "yes", "no", "lost"}
                 /\ eAcks[c] = "pending" /\ eAcks'[c] = "yes" =>
                       \A x \in eWaiting' : x > eBefore[c]
<1> DEFINE waiters == {c \in Calls : eAcks[c] = "pending"}
<1>1. PICK heard \in [waiters -> {"pending", "yes", "no", "lost"}] :
         /\ eAcks' = [c \in Calls |-> IF c \in waiters THEN heard[c] ELSE eAcks[c]]
         /\ \A c \in waiters : heard[c] = "yes" => \A e \in eWaiting' : e > eBefore[c]
  BY DEF E!Work, E!Answer
<1>2. eWaiting' \subseteq eWaiting
  BY DEF E!Work, E!Take, E!Lose
<1>3. eAcks' \in [Calls -> Heard]
  BY <1>1 DEF PipesOK, Heard
<1> QED
  BY <1>1, <1>2, <1>3 DEF E!Work, PipesOK

\* Closing the events channel answers nobody but who gives up.
LEMMA EventsClosed ==
    ASSUME PipesOK, E!Close
    PROVE  UNCHANGED <<eOffered, eWaiting, eDelivered, eLost, eBefore, eGone>>
BY DEF E!Close, E!itemVars

-----------------------------------------------------------------------------
(* Types.                                                                  *)

\* Steps keep the types.
LEMMA TypeStep ==
    IInv /\ [Next]_vars => TypeOK' /\ PipesOK'
<1> SUFFICES ASSUME IInv, [Next]_vars PROVE TypeOK' /\ PipesOK'
  OBVIOUS
<1> USE CallsAssumption, TimesAssumption, OffersAssumption, ForksAssumption
    DEF IInv, Places, At, workerVars, forkVars, callVars, timeVars
<1>0. \A c \in Calls : timeout[c] \in Nat /\ spent[c] \in Nat /\ until[c] \in Nat
  <2>1. Timeouts \cup {0} \subseteq Nat
    OBVIOUS
  <2>2. /\ timeout \in [Calls -> Timeouts \cup {0}]
        /\ spent \in [Calls -> Nat] /\ until \in [Calls -> Nat]
    BY DEF TypeOK
  <2> QED BY <2>1, <2>2
<1>c. Flushes \subseteq Calls /\ Shutdowns \subseteq Calls
  BY DEF Calls
<1> USE <1>c
<1>1. CASE Notify
  <2>1. TypeOK'
    BY <1>1 DEF Notify, TypeOK
  <2>2. PipesOK'
    BY <1>1 DEF Notify, N!Offer, eVars, PipesOK
  <2> QED BY <2>1, <2>2
<1>2. CASE Event
  <2>1. CASE Starts /\ state' = "Running" /\ Start
    <3>1. TypeOK'
      <4>1. home' \in 0..MaxForks /\ spawned' \in Nat /\ deaf' \subseteq Calls
        <5>1. process \in 0..MaxForks /\ spawned \in Nat /\ deaf \subseteq Calls
          BY DEF TypeOK
        <5>2. /\ home' = process /\ spawned' = spawned + 1
              /\ deaf' = deaf \cup {c \in Calls : eAcks[c] = "pending"}
          BY <2>1 DEF Start
        <5> QED BY <5>1, <5>2
      <4> QED
        BY <1>2, <2>1, <4>1 DEF Event, TypeOK
    <3>2. PipesOK'
      BY <1>2, <2>1 DEF Event, Start, nVars, PipesOK, Heard
    <3> QED BY <3>1, <3>2
  <2>2. CASE state' \in {"Failed", state} /\ Enqueue
    <3>1. TypeOK'
      BY <1>2, <2>2 DEF Event, Enqueue, TypeOK
    <3>2. PipesOK'
      <4>1. /\ eOffered' = eOffered + 1 /\ eWaiting' \subseteq eWaiting \cup {eOffered + 1}
            /\ UNCHANGED <<eBefore, eAcks>>
        BY <2>2 DEF Enqueue, E!Offer
      <4>2. eOffered + 1 \in 0..MaxEvents /\ 0..eOffered \subseteq 0..(eOffered + 1)
        BY <1>2 DEF Event, PipesOK
      <4>3. eWaiting' \in SUBSET (1..eOffered')
        BY <4>1, <4>2 DEF PipesOK
      <4>4. eBefore' \in [Calls -> 0..eOffered']
        BY <4>1, <4>2 DEF PipesOK
      <4> QED
        BY <1>2, <4>1, <4>2, <4>3, <4>4 DEF Event, nVars, PipesOK
    <3> QED BY <3>1, <3>2
  <2> QED BY <1>2, <2>1, <2>2 DEF Event
<1>3. ASSUME NEW f \in Flushes, BeginFlush(f) PROVE TypeOK' /\ PipesOK'
  <2>1. TypeOK'
    <3>1. mark' \in [Flushes -> 0..MaxEvents]
      BY <1>3 DEF BeginFlush, TypeOK, PipesOK
    <3>2. timeout' \in [Calls -> Timeouts \cup {0}] /\ until' \in [Calls -> Nat]
      BY <1>3, ZenonT(40) DEF BeginFlush, TypeOK
    <3> QED
      BY <1>3, <3>1, <3>2 DEF BeginFlush, TypeOK
  <2>2. PipesOK'
    BY <1>3, NoticesAsked DEF BeginFlush, eVars, PipesOK
  <2> QED BY <2>1, <2>2
<1>4. ASSUME NEW f \in Flushes, AskEvents(f) PROVE TypeOK' /\ PipesOK'
  <2>1. TypeOK'
    BY <1>4 DEF AskEvents, TypeOK
  <2>2. PipesOK'
    BY <1>4, EventsAsked DEF AskEvents, eVars, nVars, PipesOK
  <2> QED BY <2>1, <2>2
<1>5. ASSUME NEW f \in Flushes, FlushHearNotices(f) PROVE TypeOK' /\ PipesOK'
  BY <1>5 DEF FlushHearNotices, N!Expire, N!GiveUp, N!itemVars, eVars, nVars, TypeOK,
              PipesOK, Heard
<1>6. ASSUME NEW f \in Flushes, FlushReturns(f) PROVE TypeOK' /\ PipesOK'
  BY <1>6 DEF FlushReturns, Verdict, E!Expire, E!GiveUp, E!itemVars, eVars, nVars, TypeOK,
              PipesOK, Heard
<1>7. ASSUME NEW s \in Shutdowns, BeginShutdown(s) PROVE TypeOK' /\ PipesOK'
  <2>1. timeout' \in [Calls -> Timeouts \cup {0}]
    BY <1>7 DEF BeginShutdown, TypeOK
  <2>2. pc' \in [Calls -> Places]
    BY <1>7 DEF BeginShutdown, TypeOK
  <2>3. TypeOK'
    BY <1>7, <2>1, <2>2 DEF BeginShutdown, Replaced, TypeOK
  <2>4. PipesOK'
    BY <1>7 DEF BeginShutdown, eVars, nVars, PipesOK
  <2> QED BY <2>3, <2>4
<1>8. ASSUME NEW s \in Shutdowns, StopEvents(s) PROVE TypeOK' /\ PipesOK'
  <2>1. spent[s] + EventsBudget(s) \in Nat
    BY <1>0 DEF EventsBudget, Remaining, Larger
  <2>2. TypeOK'
    BY <1>8, <2>1 DEF StopEvents, TypeOK
  <2>3. PipesOK'
    BY <1>8, EventsAsked DEF StopEvents, nVars, PipesOK
  <2> QED BY <2>2, <2>3
<1>9. ASSUME NEW s \in Shutdowns, EventsStopped(s) PROVE TypeOK' /\ PipesOK'
  BY <1>9, EventsClosed DEF EventsStopped, nVars, TypeOK, PipesOK, Heard
<1>10. ASSUME NEW s \in Shutdowns, StopNotices(s) PROVE TypeOK' /\ PipesOK'
  <2>1. spent[s] + NoticesBudget(s) \in Nat
    BY <1>0 DEF NoticesBudget, Remaining, Larger
  <2>2. TypeOK'
    BY <1>10, <2>1 DEF StopNotices, TypeOK
  <2>3. PipesOK'
    BY <1>10, NoticesAsked DEF StopNotices, eVars, PipesOK
  <2> QED BY <2>2, <2>3
<1>11. ASSUME NEW s \in Shutdowns, NoticesStopped(s) PROVE TypeOK' /\ PipesOK'
  BY <1>11 DEF NoticesStopped, N!Expire, N!GiveUp, N!itemVars, eVars, nVars, TypeOK,
               PipesOK, Heard
<1>12. CASE NoticesWork
  BY <1>12, NoticesAnswered DEF NoticesWork, eVars, TypeOK, PipesOK
<1>13. CASE EventsWork
  BY <1>13, EventsAnswered DEF EventsWork, nVars, TypeOK, PipesOK
<1>14. CASE Fork
  <2>1. TypeOK'
    <3>1. process' \in 0..MaxForks /\ spawned' \in Nat /\ inherited' \in 0..MaxEvents
      <4>1. process \in 0..MaxForks /\ eOffered \in 0..MaxEvents
        BY DEF TypeOK, PipesOK
      <4>2. process < MaxForks /\ process' = process + 1 /\ spawned' = 0 /\ inherited' = eOffered
        BY <1>14 DEF Fork
      <4> QED BY <4>1, <4>2
    <3> QED
      BY <1>14, <3>1 DEF Fork, TypeOK
  <2>2. PipesOK'
    BY <1>14 DEF Fork, eVars, nVars, PipesOK
  <2> QED BY <2>1, <2>2
<1>15. CASE Tick
  <2>1. TypeOK'
    <3>1. spent' \in [Calls -> Nat]
      <4>1. spent' = [c \in Calls |-> IF c \in Clocked THEN spent[c] + 1 ELSE spent[c]]
        BY <1>15 DEF Tick
      <4> QED BY <1>0, <4>1
    <3> QED
      BY <1>15, <3>1 DEF Tick, TypeOK
  <2>2. PipesOK'
    BY <1>15 DEF Tick, eVars, nVars, PipesOK
  <2> QED BY <2>1, <2>2
<1>16. CASE UNCHANGED vars
  BY <1>16 DEF vars, eVars, nVars, TypeOK, PipesOK
<1> QED
  BY <1>1, <1>2, <1>3, <1>4, <1>5, <1>6, <1>7, <1>8, <1>9, <1>10, <1>11, <1>12, <1>13,
     <1>14, <1>15, <1>16 DEF Next, FlushStep, ShutdownStep

-----------------------------------------------------------------------------
(* The events worker, and who has to stop it.                              *)

\* Only an event, the begin of a shutdown and a fork change whose worker is
\* behind the handle; every other step leaves who was told to stop it told.
LEMMA HandleStep ==
    IInv /\ [Next]_vars => HandleOK' /\ WorkerTold' /\ EventHasWorker'
<1> SUFFICES ASSUME IInv, [Next]_vars PROVE HandleOK' /\ WorkerTold' /\ EventHasWorker'
  OBVIOUS
<1> USE CallsAssumption DEF IInv, At, workerVars, forkVars, callVars, timeVars
<1> DEFINE Frame == /\ UNCHANGED <<state, home, process, spawned, inherited>>
                    /\ \A s \in Shutdowns : Begun(s) <=> Begun(s)'
                    /\ \A s \in Shutdowns : Tells(s) => Tells(s)'
                    /\ eWaiting' \subseteq eWaiting
<1>a. ASSUME Frame PROVE HandleOK' /\ WorkerTold' /\ EventHasWorker'
  BY <1>a DEF HandleOK, WorkerTold, EventHasWorker
<1>b. /\ pc \in [Calls -> Places] /\ Flushes \subseteq Calls /\ Shutdowns \subseteq Calls
      /\ \A f \in Flushes, s \in Shutdowns : f # s
      /\ eAcks \in [Calls -> Heard]
  BY DEF TypeOK, PipesOK, Calls
<1>c. /\ process \in Nat /\ home \in Nat /\ spawned \in Nat /\ inherited \in Nat
      /\ eOffered \in Nat /\ eWaiting \in SUBSET (1..eOffered)
  BY OffersAssumption, ForksAssumption DEF TypeOK, PipesOK
<1>1. CASE Notify
  BY <1>1, <1>a DEF Notify, eVars, Begun, Tells
<1>2. CASE Event
  <2>1. UNCHANGED <<process, inherited, pc>>
    BY <1>2 DEF Event
  <2>2. CASE Starts /\ state' = "Running" /\ Start
    <3>1. /\ home' = process /\ spawned' > 0
          /\ state' # "Stopped" /\ \A s \in Shutdowns : ~ Begun(s)
      BY <1>c, <2>2 DEF Start, Starts, Foreign, HandleOK
    <3> QED
      BY <1>c, <2>1, <2>2, <3>1 DEF HandleOK, WorkerTold, EventHasWorker, Begun
  <2>3. CASE Starts /\ state' = "Failed" /\ Enqueue
    <3>1. UNCHANGED <<home, spawned, eWaiting>>
      BY <2>3 DEF Enqueue
    <3>2. spawned = 0 /\ \A s \in Shutdowns : ~ Begun(s)
      BY <1>c, <2>3 DEF Starts, Foreign, HandleOK
    <3> QED
      BY <2>1, <2>3, <3>1, <3>2 DEF HandleOK, WorkerTold, EventHasWorker, Begun
  <2>4. CASE ~Starts /\ state' = state /\ Enqueue
    <3>1. /\ UNCHANGED <<home, spawned, eAcks>>
          /\ state # "Running" => eWaiting' = eWaiting
      BY <2>4 DEF Enqueue, E!Offer
    <3>2. state = "Running" => home = process
      BY <2>4 DEF Starts, Foreign
    <3> QED
      BY <2>1, <2>4, <3>1, <3>2 DEF HandleOK, WorkerTold, EventHasWorker, Begun, Tells
  <2> QED BY <1>2, <2>2, <2>3, <2>4 DEF Event
<1>3. ASSUME NEW f \in Flushes, BeginFlush(f) PROVE Frame
  BY <1>3, <1>b DEF BeginFlush, eVars, Begun, Tells
<1>4. ASSUME NEW f \in Flushes, AskEvents(f) PROVE Frame
  <2>1. CASE E!Call(f)
    <3>1. eWaiting' = eWaiting /\ \A s \in Shutdowns : eAcks'[s] = eAcks[s]
      BY <1>b, <2>1, EventsAsked
    <3> QED BY <1>4, <1>b, <3>1 DEF AskEvents, Begun, Tells
  <2>2. CASE UNCHANGED eVars
    BY <1>4, <1>b, <2>2 DEF AskEvents, eVars, Begun, Tells
  <2> QED BY <1>4, <2>1, <2>2 DEF AskEvents
<1>5. ASSUME NEW f \in Flushes, FlushHearNotices(f) PROVE Frame
  BY <1>5, <1>b DEF FlushHearNotices, eVars, Begun, Tells
<1>6. ASSUME NEW f \in Flushes, FlushReturns(f) PROVE Frame
  <2>1. eWaiting' = eWaiting /\ \A s \in Shutdowns : eAcks'[s] = eAcks[s]
    BY <1>6, <1>b DEF FlushReturns, E!Expire, E!GiveUp, E!itemVars, eVars
  <2> QED BY <1>6, <1>b, <2>1 DEF FlushReturns, Begun, Tells
<1>7. ASSUME NEW s \in Shutdowns, BeginShutdown(s)
      PROVE  HandleOK' /\ WorkerTold' /\ EventHasWorker'
  <2>1. /\ UNCHANGED <<home, spawned, process, inherited, eWaiting, eAcks>>
        /\ state' = "Stopped" /\ pc[s] = "idle"
        /\ pc' = [pc EXCEPT ![s] = IF state = "Running" THEN "stop events" ELSE "stop notices"]
    BY <1>7 DEF BeginShutdown, Held, Replaced, eVars
  <2>2. Begun(s)'
    BY <1>b, <2>1 DEF Begun
  <2>3. HandleOK'
    BY <2>1, <2>2 DEF HandleOK
  <2>4. WorkerTold'
    <3>1. CASE state = "Running"
      <4>1. Tells(s)'
        BY <1>b, <2>1, <3>1 DEF Tells
      <4> QED BY <4>1 DEF WorkerTold
    <3>2. CASE state # "Running"
      <4>1. spawned > 0 => \E u \in Shutdowns : Tells(u)
        BY <3>2 DEF HandleOK, WorkerTold
      <4>2. \A u \in Shutdowns : Tells(u) => Tells(u)'
        BY <1>b, <2>1 DEF Tells
      <4> QED BY <2>1, <4>1, <4>2 DEF WorkerTold
    <3> QED BY <3>1, <3>2
  <2>5. EventHasWorker'
    BY <2>1 DEF EventHasWorker
  <2> QED BY <2>3, <2>4, <2>5
<1>8. ASSUME NEW s \in Shutdowns, StopEvents(s) PROVE Frame
  <2>1. /\ eWaiting' = eWaiting /\ eAcks'[s] # "idle"
        /\ \A u \in Shutdowns \ {s} : eAcks'[u] = eAcks[u]
    BY <1>8, <1>b, EventsAsked DEF StopEvents
  <2> QED BY <1>8, <1>b, <2>1 DEF StopEvents, Begun, Tells
<1>9. ASSUME NEW s \in Shutdowns, EventsStopped(s) PROVE Frame
  <2>1. eWaiting' = eWaiting
    BY <1>9, EventsClosed DEF EventsStopped
  <2>2. \A u \in Shutdowns : eAcks[u] # "idle" => eAcks'[u] # "idle"
    BY <1>9, <1>b DEF EventsStopped
  <2> QED BY <1>9, <1>b, <2>1, <2>2 DEF EventsStopped, Begun, Tells
<1>10. ASSUME NEW s \in Shutdowns, StopNotices(s) PROVE Frame
  BY <1>10, <1>b DEF StopNotices, eVars, Begun, Tells
<1>11. ASSUME NEW s \in Shutdowns, NoticesStopped(s) PROVE Frame
  BY <1>11, <1>b DEF NoticesStopped, eVars, Begun, Tells
<1>12. CASE NoticesWork
  BY <1>12, <1>a DEF NoticesWork, eVars, Begun, Tells
<1>13. CASE EventsWork
  <2>1. eWaiting' \subseteq eWaiting /\ \A u \in Shutdowns : eAcks[u] # "idle" => eAcks'[u] # "idle"
    BY <1>13, <1>b, EventsAnswered DEF EventsWork
  <2> QED BY <1>13, <1>a, <2>1 DEF EventsWork, Begun, Tells
<1>14. CASE Fork
  <2>1. /\ process' = process + 1 /\ spawned' = 0 /\ inherited' = eOffered
        /\ UNCHANGED <<state, home, pc, eWaiting>>
    BY <1>14 DEF Fork, eVars
  <2> QED BY <1>c, <2>1 DEF HandleOK, WorkerTold, EventHasWorker, Begun
<1>15. CASE Tick
  BY <1>15, <1>a DEF Tick, eVars, Begun, Tells
<1>16. CASE UNCHANGED vars
  BY <1>16, <1>a DEF vars, eVars, Begun, Tells
<1> QED
  BY <1>a, <1>1, <1>2, <1>3, <1>4, <1>5, <1>6, <1>7, <1>8, <1>9, <1>10, <1>11, <1>12, <1>13,
     <1>14, <1>15, <1>16 DEF Next, FlushStep, ShutdownStep

-----------------------------------------------------------------------------
(* Time.                                                                   *)

\* What a shutdown that has spent x of its timeout t may spend on each stage.
LEMMA Budgets ==
    ASSUME TimesAssumption, NEW t \in Nat, NEW x \in Nat
    PROVE  /\ x = 0 => x + Larger(Larger(t - x, 0) - Floor, Floor) = Larger(t - Floor, Floor)
           /\ x <= Larger(t - Floor, Floor) =>
                 /\ x <= Larger(t, 2 * Floor)
                 /\ x + Larger(Larger(t - x, 0), Floor) <= Larger(t, 2 * Floor)
           /\ x <= x + Larger(Larger(t - x, 0), Floor)
           /\ 0 <= Larger(t - Floor, Floor)
           /\ Larger(t - Floor, Floor) <= Larger(t, 2 * Floor)
BY DEF TimesAssumption, Larger

\* Only waiting takes time, and no wait goes on when its time is up.
LEMMA ClockStep ==
    IInv /\ [Next]_vars => FlushClock' /\ ShutdownClock'
<1> SUFFICES ASSUME IInv, [Next]_vars PROVE FlushClock' /\ ShutdownClock'
  OBVIOUS
<1> USE CallsAssumption DEF IInv, At, workerVars, forkVars, callVars, timeVars
<1>b. /\ pc \in [Calls -> Places] /\ Flushes \subseteq Calls /\ Shutdowns \subseteq Calls
      /\ \A f \in Flushes, s \in Shutdowns : f # s
      /\ until \in [Calls -> Nat] /\ spent \in [Calls -> Nat]
  BY DEF TypeOK, Calls
<1>c. /\ \A c \in Calls : timeout[c] \in Nat /\ spent[c] \in Nat /\ until[c] \in Nat
      /\ DOMAIN timeout = Calls
  <2>1. Timeouts \cup {0} \subseteq Nat /\ timeout \in [Calls -> Timeouts \cup {0}]
    BY TimesAssumption DEF TypeOK
  <2> QED BY <1>b, <2>1
<1>1. ASSUME UNCHANGED timeVars, \A s \in Shutdowns : pc'[s] = pc[s],
             \A f \in Flushes : pc'[f] = "idle" => pc[f] = "idle"
      PROVE  FlushClock' /\ ShutdownClock'
  <2>1. \A s \in Shutdowns : InBudget(s)' = InBudget(s) /\ HasDeadline(s)' = HasDeadline(s)
    BY <1>1 DEF InBudget, HasDeadline
  <2> QED BY <1>1, <2>1 DEF FlushClock, ShutdownClock
<1>2. ASSUME NEW f \in Flushes, BeginFlush(f) PROVE FlushClock' /\ ShutdownClock'
  <2>1. PICK t \in Timeouts : /\ timeout' = [timeout EXCEPT ![f] = t]
                              /\ until' = [until EXCEPT ![f] = t]
    BY <1>2 DEF BeginFlush
  <2>2. /\ spent' = spent /\ pc[f] = "idle"
        /\ \A c \in Calls \ {f} : pc'[c] = pc[c]
        /\ pc'[f] = "ask events"
    BY <1>2, <1>b DEF BeginFlush
  <2>3. ShutdownClock'
    <3>1. \A s \in Shutdowns : /\ pc'[s] = pc[s] /\ spent'[s] = spent[s]
                               /\ until'[s] = until[s] /\ timeout'[s] = timeout[s]
      BY <1>b, <1>c, <2>1, <2>2
    <3>2. \A s \in Shutdowns : InBudget(s)' = InBudget(s) /\ HasDeadline(s)' = HasDeadline(s)
      BY <3>1 DEF InBudget, HasDeadline
    <3> QED BY <3>1, <3>2 DEF ShutdownClock
  <2>4. spent[f] = 0
    BY <2>2 DEF FlushClock
  <2>5. FlushClock'
    <3>1. timeout'[f] = t /\ until'[f] = t /\ spent'[f] <= until'[f]
      <4>1. f \in Calls /\ t \in Nat
        BY <1>b, TimesAssumption
      <4>2. timeout'[f] = t /\ until'[f] = t
        BY <1>b, <1>c, <2>1, <4>1
      <4>3. spent' = spent
        BY <2>2
      <4> QED BY <2>4, <4>1, <4>2, <4>3
    <3>2. \A g \in Flushes \ {f} : timeout'[g] = timeout[g] /\ until'[g] = until[g]
      BY <1>b, <1>c, <2>1
    <3> QED BY <1>b, <2>2, <3>1, <3>2 DEF FlushClock
  <2> QED BY <2>3, <2>5
<1>3. ASSUME NEW f \in Flushes, AskEvents(f) \/ FlushHearNotices(f) \/ FlushReturns(f)
      PROVE  /\ UNCHANGED timeVars /\ \A s \in Shutdowns : pc'[s] = pc[s]
             /\ \A g \in Flushes : pc'[g] = "idle" => pc[g] = "idle"
  BY <1>3, <1>b DEF AskEvents, FlushHearNotices, FlushReturns
<1>4. ASSUME NEW s \in Shutdowns, UNCHANGED <<timeout, spent>>,
             \A c \in Calls \ {s} : pc'[c] = pc[c] /\ until'[c] = until[c]
      PROVE  /\ FlushClock'
             /\ /\ pc'[s] \notin {"idle", "ask events"}
                /\ pc'[s] = "stop events" => spent[s] = 0 /\ until'[s] = 0
                /\ HasDeadline(s) => InBudget(s)'
                => ShutdownClock'
  <2>1. FlushClock'
    BY <1>4, <1>b DEF FlushClock
  <2>2. \A c \in Shutdowns \ {s} : InBudget(c) => InBudget(c)'
    BY <1>4, <1>b DEF InBudget
  <2>3. \A c \in Shutdowns : HasDeadline(c)' = HasDeadline(c)
    BY <1>4 DEF HasDeadline
  <2> QED BY <1>4, <1>b, <2>1, <2>2, <2>3 DEF ShutdownClock
<1>5. ASSUME NEW s \in Shutdowns, BeginShutdown(s) PROVE FlushClock' /\ ShutdownClock'
  <2>1. PICK t \in Timeouts : timeout' = [timeout EXCEPT ![s] = t]
    BY <1>5 DEF BeginShutdown
  <2>2. /\ pc[s] = "idle" /\ UNCHANGED <<spent, until>>
        /\ pc'[s] \in {"stop events", "stop notices"}
        /\ \A c \in Calls \ {s} : pc'[c] = pc[c]
    BY <1>5, <1>b DEF BeginShutdown
  <2>3. spent[s] = 0 /\ until[s] = 0 /\ t \in Nat /\ timeout'[s] = t
    BY <1>b, <1>c, <2>1, <2>2, TimesAssumption DEF ShutdownClock
  <2>4. 0 <= Larger(timeout'[s] - Floor, Floor) /\ 0 <= Larger(timeout'[s], 2 * Floor)
    BY <2>3, TimesAssumption DEF Larger
  <2>5. \A c \in Calls \ {s} : timeout'[c] = timeout[c]
    BY <1>c, <2>1
  <2>6. InBudget(s)'
    BY <2>2, <2>3, <2>4 DEF InBudget
  <2>7. \A c \in Shutdowns \ {s} : InBudget(c) => InBudget(c)'
    BY <1>b, <2>2, <2>5 DEF InBudget
  <2>8. \A c \in Shutdowns \ {s} : HasDeadline(c)' = HasDeadline(c)
    BY <1>b, <2>5 DEF HasDeadline
  <2>9. FlushClock'
    BY <1>b, <2>2, <2>5 DEF FlushClock
  <2>10. ShutdownClock'
    BY <1>b, <2>2, <2>3, <2>6, <2>7, <2>8 DEF ShutdownClock
  <2> QED BY <2>9, <2>10
<1>6. ASSUME NEW s \in Shutdowns, StopEvents(s) PROVE FlushClock' /\ ShutdownClock'
  <2>1. /\ pc[s] = "stop events" /\ pc'[s] = "wait events"
        /\ UNCHANGED <<timeout, spent>> /\ until'[s] = spent[s] + EventsBudget(s)
        /\ \A c \in Calls \ {s} : pc'[c] = pc[c] /\ until'[c] = until[c]
    BY <1>6, <1>b DEF StopEvents
  <2>2. spent[s] = 0 /\ timeout[s] \in Nat
    BY <1>b, <1>c, <2>1 DEF ShutdownClock
  <2>3. ASSUME HasDeadline(s) PROVE InBudget(s)'
    <3>1. until'[s] = spent[s] + Larger(Larger(timeout[s] - spent[s], 0) - Floor, Floor)
      BY <2>1, <2>3 DEF EventsBudget, Remaining
    <3>2. /\ until'[s] = Larger(timeout[s] - Floor, Floor) /\ 0 <= until'[s]
          /\ until'[s] <= Larger(timeout[s], 2 * Floor)
      BY <2>2, <3>1, Budgets, TimesAssumption
    <3> QED BY <2>1, <2>2, <3>2 DEF InBudget
  <2> QED BY <1>4, <2>1, <2>3
<1>7. ASSUME NEW s \in Shutdowns, EventsStopped(s) PROVE FlushClock' /\ ShutdownClock'
  <2>1. /\ pc[s] = "wait events" /\ pc'[s] = "stop notices"
        /\ UNCHANGED <<timeout, spent, until>>
        /\ \A c \in Calls \ {s} : pc'[c] = pc[c] /\ until'[c] = until[c]
    BY <1>7, <1>b DEF EventsStopped
  <2>2. ASSUME HasDeadline(s) PROVE InBudget(s)'
    <3>1. InBudget(s)
      BY <2>2 DEF ShutdownClock
    <3> QED BY <2>1, <3>1 DEF InBudget
  <2> QED BY <1>4, <2>1, <2>2
<1>8. ASSUME NEW s \in Shutdowns, StopNotices(s) PROVE FlushClock' /\ ShutdownClock'
  <2>1. /\ pc[s] = "stop notices" /\ pc'[s] \in {"wait notices", "done"}
        /\ UNCHANGED <<timeout, spent>> /\ until'[s] = spent[s] + NoticesBudget(s)
        /\ \A c \in Calls \ {s} : pc'[c] = pc[c] /\ until'[c] = until[c]
    BY <1>8, <1>b DEF StopNotices
  <2>2. ASSUME HasDeadline(s) PROVE InBudget(s)'
    <3>1. /\ spent[s] <= Larger(timeout[s] - Floor, Floor)
          /\ spent[s] \in Nat /\ timeout[s] \in Nat
      BY <1>b, <1>c, <2>1, <2>2 DEF ShutdownClock, InBudget
    <3>2. until'[s] = spent[s] + Larger(Larger(timeout[s] - spent[s], 0), Floor)
      BY <2>1, <2>2 DEF NoticesBudget, Remaining
    <3>3. /\ spent[s] <= until'[s] /\ until'[s] <= Larger(timeout[s], 2 * Floor)
          /\ spent[s] <= Larger(timeout[s], 2 * Floor)
      BY <3>1, <3>2, Budgets, TimesAssumption
    <3> QED BY <2>1, <3>3 DEF InBudget
  <2> QED BY <1>4, <2>1, <2>2
<1>9. ASSUME NEW s \in Shutdowns, NoticesStopped(s) PROVE FlushClock' /\ ShutdownClock'
  <2>1. /\ pc[s] = "wait notices" /\ pc'[s] = "done"
        /\ UNCHANGED <<timeout, spent, until>>
        /\ \A c \in Calls \ {s} : pc'[c] = pc[c] /\ until'[c] = until[c]
    BY <1>9, <1>b DEF NoticesStopped
  <2>2. ASSUME HasDeadline(s) PROVE InBudget(s)'
    <3>1. /\ spent[s] <= until[s] /\ until[s] <= Larger(timeout[s], 2 * Floor)
          /\ spent[s] \in Nat /\ timeout[s] \in Nat /\ until[s] \in Nat
      BY <1>b, <1>c, <2>1, <2>2 DEF ShutdownClock, InBudget
    <3>2. spent[s] <= Larger(timeout[s], 2 * Floor)
      BY <3>1, TimesAssumption DEF Larger
    <3> QED BY <2>1, <3>1, <3>2 DEF InBudget
  <2> QED BY <1>4, <2>1, <2>2
<1>10. CASE Tick
  <2>1. /\ UNCHANGED <<pc, timeout, until>>
        /\ spent' = [c \in Calls |-> IF c \in Clocked THEN spent[c] + 1 ELSE spent[c]]
    BY <1>10 DEF Tick
  <2>2. ASSUME NEW c \in Calls
        PROVE  \/ spent'[c] = spent[c]
               \/ /\ pc[c] \in {"wait events", "wait notices"} /\ spent'[c] <= until[c]
    <3>1. spent[c] \in Nat /\ until[c] \in Nat
      BY <1>c
    <3>2. CASE c \in Clocked
      <4>1. pc[c] \in {"wait events", "wait notices"}
        BY <3>2 DEF Clocked, Waiters, Unanswered
      <4>2. ~ (spent[c] >= until[c])
        BY <3>2 DEF Clocked, Waiters, Over
      <4>3. spent'[c] = spent[c] + 1
        BY <2>1, <3>2
      <4>4. spent'[c] <= until[c]
        BY <3>1, <4>2, <4>3
      <4> QED BY <4>1, <4>4
    <3>3. CASE c \notin Clocked
      BY <2>1, <3>3
    <3> QED BY <3>2, <3>3
  <2>3. FlushClock'
    BY <1>b, <2>1, <2>2 DEF FlushClock
  <2>4. ShutdownClock'
    <3>1. ASSUME NEW s \in Shutdowns PROVE InBudget(s) => InBudget(s)'
      <4>1. /\ pc'[s] = pc[s] /\ timeout'[s] = timeout[s] /\ until'[s] = until[s]
            /\ \/ spent'[s] = spent[s]
               \/ pc[s] \in {"wait events", "wait notices"} /\ spent'[s] <= until[s]
        BY <1>b, <2>1, <2>2
      <4> QED BY <4>1 DEF InBudget
    <3>2. \A s \in Shutdowns : HasDeadline(s)' = HasDeadline(s)
      BY <2>1 DEF HasDeadline
    <3>3. \A s \in Shutdowns : pc[s] \in {"idle", "stop events"} => spent'[s] = spent[s]
      BY <1>b, <2>2
    <3> QED BY <1>b, <2>1, <3>1, <3>2, <3>3 DEF ShutdownClock
  <2> QED BY <2>3, <2>4
<1>11. CASE Notify \/ Event \/ NoticesWork \/ EventsWork \/ Fork \/ UNCHANGED vars
  <2>1. UNCHANGED <<pc, timeVars>>
    BY <1>11 DEF Notify, Event, NoticesWork, EventsWork, Fork, vars
  <2> QED BY <1>1, <2>1
<1> QED
  BY <1>1, <1>2, <1>3, <1>5, <1>6, <1>7, <1>8, <1>9, <1>10, <1>11
  DEF Next, FlushStep, ShutdownStep

-----------------------------------------------------------------------------
(* Barriers.                                                               *)

Barriers == Asked /\ Answered /\ AtHome /\ NothingYet

\* Questions, answers, new items and forks keep what a yes says.
LEMMA BarrierStep ==
    IInv /\ [Next]_vars => Barriers'
<1> SUFFICES ASSUME IInv, [Next]_vars PROVE Barriers'
  OBVIOUS
<1> USE DEF IInv, At, workerVars, forkVars, callVars, timeVars
<1>b. /\ pc \in [Calls -> Places] /\ mark \in [Flushes -> 0..MaxEvents]
      /\ Flushes \subseteq Calls /\ Shutdowns \subseteq Calls
      /\ \A f \in Flushes, s \in Shutdowns : f # s
      /\ nAcks \in [Calls -> Heard] /\ eAcks \in [Calls -> Heard]
  BY CallsAssumption DEF TypeOK, PipesOK, Calls
<1>c. /\ nOffered \in Nat /\ eOffered \in Nat
      /\ eWaiting \in SUBSET Nat /\ process \in Nat /\ home \in Nat
      /\ \A f \in Flushes : nBefore[f] \in 0..nOffered /\ eBefore[f] \in 0..eOffered
      /\ \A f \in Flushes : mark[f] \in Nat
  BY <1>b, OffersAssumption, ForksAssumption DEF TypeOK, PipesOK
<1> DEFINE Frame ==
      /\ UNCHANGED <<process, mark, eOffered>>
      /\ state' = state \/ state' = "Stopped"
      /\ nWaiting' \subseteq nWaiting /\ eWaiting' \subseteq eWaiting
      /\ \A f \in Flushes : /\ pc'[f] = pc[f]
                            /\ nAcks'[f] = nAcks[f] /\ eAcks'[f] = eAcks[f]
                            /\ nBefore'[f] = nBefore[f] /\ eBefore'[f] = eBefore[f]
<1>a. ASSUME Frame PROVE Barriers'
  <2>1. Asked' /\ Answered'
    BY <1>a DEF Asked, Answered
  <2>2. AtHome' /\ NothingYet'
    BY <1>a DEF AtHome, NothingYet
  <2> QED BY <2>1, <2>2 DEF Barriers
<1>1. CASE Notify
  <2>1. /\ nWaiting' \subseteq nWaiting \cup {nOffered + 1}
        /\ UNCHANGED <<nAcks, nBefore>>
    BY <1>1 DEF Notify, N!Offer
  <2>2. UNCHANGED <<state, process, pc, mark, eOffered, eWaiting, eBefore, eAcks>>
    BY <1>1 DEF Notify, eVars
  <2>3. \A f \in Flushes : nAcks[f] = "yes" => \A x \in nWaiting' : x > nBefore[f]
    BY <1>c, <2>1 DEF Answered
  <2> QED
    BY <2>1, <2>2, <2>3 DEF Barriers, Asked, Answered, AtHome, NothingYet
<1>2. CASE Event
  <2>1. UNCHANGED <<process, pc, mark, nWaiting, nBefore, nAcks>>
    BY <1>2 DEF Event, nVars
  <2>2. \A f \in Flushes : eOffered + 1 > mark[f] /\ eOffered + 1 > eBefore[f]
                           /\ mark[f] <= eOffered + 1
    <3>1. \A f \in Flushes : mark[f] <= eOffered
      BY DEF Asked
    <3> QED BY <1>c, <3>1
  <2>3. CASE Start /\ state' = "Running"
    <3>1. /\ eOffered' = eOffered + 1 /\ eWaiting' = {eOffered + 1} /\ eBefore' = eBefore
          /\ \A f \in Flushes : /\ eAcks'[f] = eAcks[f] \/ eAcks'[f] = "timeout"
                                /\ (eAcks'[f] = "idle") <=> (eAcks[f] = "idle")
      <4>1. eAcks' = [c \in Calls |-> IF eAcks[c] = "pending" THEN "timeout" ELSE eAcks[c]]
        BY <2>3 DEF Start
      <4>2. \A f \in Flushes : eAcks'[f] = eAcks[f] \/ eAcks'[f] = "timeout"
        BY <1>b, <4>1
      <4>3. \A f \in Flushes : eAcks'[f] = "idle" => eAcks[f] = "idle"
        BY <1>b, <4>1
      <4>4. \A f \in Flushes : eAcks[f] = "idle" => eAcks'[f] = "idle"
        BY <1>b, <4>1
      <4>5. eOffered' = eOffered + 1 /\ eWaiting' = {eOffered + 1} /\ eBefore' = eBefore
        BY <2>3 DEF Start
      <4> QED BY <4>2, <4>3, <4>4, <4>5
    <3>2. Asked' /\ Answered'
      BY <2>1, <2>2, <3>1 DEF Asked, Answered
    <3>3. AtHome'
      BY <2>1 DEF AtHome
    <3>4. NothingYet'
      BY <2>1, <2>2, <2>3, <3>1 DEF NothingYet
    <3> QED BY <3>2, <3>3, <3>4 DEF Barriers
  <2>4. ASSUME Enqueue, state' = state \/ (Starts /\ state' = "Failed")
        PROVE  Barriers'
    <3>1. /\ eOffered' = eOffered + 1 /\ eWaiting' \subseteq eWaiting \cup {eOffered + 1}
          /\ UNCHANGED <<eBefore, eAcks>>
          /\ state' # "Running" => eWaiting' = eWaiting
      BY <2>4 DEF Enqueue, E!Offer
    <3>2. \A f \in Flushes : eAcks[f] = "yes" => \A x \in eWaiting' : x > eBefore[f]
      BY <2>2, <3>1 DEF Answered
    <3>3. Asked' /\ Answered'
      BY <2>1, <2>2, <3>1, <3>2 DEF Asked, Answered
    <3>4. AtHome'
      BY <2>1 DEF AtHome
    <3>5. CASE state' = state
      <4>1. process = 0 /\ state \in {"NotStarted", "Failed"} => eWaiting' = {}
        BY <3>1, <3>5 DEF NothingYet
      <4>2. ASSUME process = 0, state # "Stopped", NEW f \in Flushes,
                   pc[f] \in {"wait notices", "wait events"}, eAcks[f] = "idle"
            PROVE  \A x \in eWaiting' : x > mark[f]
        <5>1. \A x \in eWaiting : x > mark[f]
          BY <4>2 DEF NothingYet
        <5> QED BY <2>2, <3>1, <5>1
      <4>3. NothingYet'
        BY <2>1, <3>1, <3>5, <4>1, <4>2 DEF NothingYet
      <4> QED BY <3>3, <3>4, <4>3 DEF Barriers
    <3>6. CASE Starts /\ state' = "Failed"
      <4>1. process = 0 => state = "NotStarted"
        <5>1. process = 0 => home = process
          BY <1>c DEF HandleOK
        <5> QED BY <3>6, <5>1 DEF Starts, Foreign
      <4>2. process = 0 => eWaiting' = {}
        BY <3>1, <3>6, <4>1 DEF NothingYet
      <4>3. NothingYet'
        BY <2>1, <4>2 DEF NothingYet
      <4> QED BY <3>3, <3>4, <4>3 DEF Barriers
    <3> QED BY <2>4, <3>5, <3>6
  <2> QED BY <1>2, <2>3, <2>4 DEF Event
<1>3. ASSUME NEW f \in Flushes, BeginFlush(f) PROVE Barriers'
  <2>1. /\ UNCHANGED <<state, process, eOffered, eWaiting, eBefore, eAcks, nWaiting>>
        /\ pc' = [pc EXCEPT ![f] = "ask events"] /\ pc[f] = "idle"
        /\ mark' = [mark EXCEPT ![f] = eOffered]
        /\ nAcks'[f] \in {"lost", "pending"}
        /\ \A g \in Flushes \ {f} : nAcks'[g] = nAcks[g] /\ nBefore'[g] = nBefore[g]
    BY <1>3, <1>b, NoticesAsked DEF BeginFlush, eVars
  <2>2. mark'[f] = eOffered /\ \A g \in Flushes \ {f} : mark'[g] = mark[g]
    BY <1>b, <2>1
  <2>3. eAcks[f] = "idle"
    BY <2>1 DEF Asked
  <2>4. pc'[f] = "ask events" /\ \A g \in Flushes \ {f} : pc'[g] = pc[g]
    BY <1>b, <2>1
  <2>5. \A g \in Flushes : mark'[g] <= eOffered
    <3>1. \A g \in Flushes : mark[g] <= eOffered
      BY DEF Asked
    <3> QED BY <1>c, <2>2, <3>1
  <2>6. Asked'
    BY <2>1, <2>2, <2>3, <2>4, <2>5 DEF Asked
  <2>7. Answered' /\ AtHome'
    BY <2>1, <2>3, <2>4 DEF Answered, AtHome
  <2>8. NothingYet'
    BY <2>1, <2>2, <2>4 DEF NothingYet
  <2> QED BY <2>6, <2>7, <2>8 DEF Barriers
<1>4. ASSUME NEW f \in Flushes, AskEvents(f) PROVE Barriers'
  <2>1. /\ UNCHANGED <<state, process, mark, nWaiting, nBefore, nAcks>>
        /\ pc[f] = "ask events" /\ pc'[f] = "wait notices"
        /\ \A g \in Flushes \ {f} : pc'[g] = pc[g]
    BY <1>4, <1>b DEF AskEvents, nVars
  <2>2. /\ UNCHANGED <<eOffered, eWaiting>>
        /\ \A g \in Flushes \ {f} : eAcks'[g] = eAcks[g] /\ eBefore'[g] = eBefore[g]
        /\ \/ state = "Running" /\ eAcks'[f] \in {"lost", "pending"} /\ eBefore'[f] = eOffered
           \/ state # "Running" /\ eAcks'[f] = eAcks[f] /\ eBefore'[f] = eBefore[f]
    BY <1>4, <1>b, EventsAsked DEF AskEvents, eVars
  <2>3. eAcks'[f] # "idle" => mark[f] <= eBefore'[f]
    BY <2>2 DEF Asked
  <2>4. Asked'
    BY <2>1, <2>2, <2>3 DEF Asked
  <2>5. Answered' /\ AtHome'
    BY <2>1, <2>2 DEF Answered, AtHome
  <2>6. process = 0 /\ state # "Stopped" /\ eAcks'[f] = "idle" => eWaiting = {}
    BY <2>2 DEF NothingYet, TypeOK
  <2>7. NothingYet'
    BY <2>1, <2>2, <2>6 DEF NothingYet
  <2> QED BY <2>4, <2>5, <2>7 DEF Barriers
<1>5. ASSUME NEW f \in Flushes, FlushHearNotices(f) PROVE Barriers'
  <2>1. /\ UNCHANGED <<state, process, mark, eOffered, eWaiting, eBefore, eAcks>>
        /\ pc[f] = "wait notices" /\ pc'[f] = "wait events"
        /\ \A g \in Flushes \ {f} : pc'[g] = pc[g]
    BY <1>5, <1>b DEF FlushHearNotices, eVars
  <2>2. /\ UNCHANGED <<nWaiting, nBefore>>
        /\ \A g \in Flushes : nAcks'[g] = "yes" => nAcks[g] = "yes"
        /\ \A g \in Flushes \ {f} : nAcks'[g] = nAcks[g]
    BY <1>5, <1>b DEF FlushHearNotices, N!Expire, N!GiveUp, N!itemVars, nVars
  <2>3. Asked' /\ Answered'
    BY <2>1, <2>2 DEF Asked, Answered
  <2>4. AtHome' /\ NothingYet'
    BY <2>1, <2>2 DEF AtHome, NothingYet
  <2> QED BY <2>3, <2>4 DEF Barriers
<1>6. ASSUME NEW f \in Flushes, FlushReturns(f) PROVE Barriers'
  <2>1. /\ UNCHANGED <<state, process, mark, nWaiting, nBefore, nAcks>>
        /\ pc'[f] = "done" /\ \A g \in Flushes \ {f} : pc'[g] = pc[g]
    BY <1>6, <1>b DEF FlushReturns, nVars
  <2>2. /\ UNCHANGED <<eOffered, eWaiting, eBefore>>
        /\ \A g \in Flushes : eAcks'[g] = "yes" => eAcks[g] = "yes"
        /\ \A g \in Flushes : (eAcks'[g] = "idle") <=> (eAcks[g] = "idle")
    BY <1>6, <1>b DEF FlushReturns, E!Expire, E!GiveUp, E!itemVars, eVars
  <2>3. Asked' /\ Answered'
    BY <2>1, <2>2 DEF Asked, Answered
  <2>4. AtHome' /\ NothingYet'
    BY <2>1, <2>2 DEF AtHome, NothingYet
  <2> QED BY <2>3, <2>4 DEF Barriers
<1>7. ASSUME NEW s \in Shutdowns, BeginShutdown(s) PROVE Frame
  BY <1>7, <1>b DEF BeginShutdown, Replaced, eVars, nVars
<1>8. ASSUME NEW s \in Shutdowns, StopEvents(s) PROVE Frame
  <2>1. /\ UNCHANGED <<eOffered, eWaiting>>
        /\ \A g \in Flushes : eAcks'[g] = eAcks[g] /\ eBefore'[g] = eBefore[g]
    BY <1>8, <1>b, EventsAsked DEF StopEvents
  <2> QED BY <1>8, <1>b, <2>1 DEF StopEvents, nVars
<1>9. ASSUME NEW s \in Shutdowns, EventsStopped(s) PROVE Frame
  <2>1. UNCHANGED <<eOffered, eWaiting, eBefore>>
    BY <1>9, EventsClosed DEF EventsStopped
  <2>2. \A g \in Flushes : eAcks'[g] = eAcks[g]
    BY <1>9, <1>b DEF EventsStopped
  <2> QED BY <1>9, <1>b, <2>1, <2>2 DEF EventsStopped, nVars
<1>10. ASSUME NEW s \in Shutdowns, StopNotices(s) PROVE Frame
  <2>1. /\ nWaiting' = nWaiting
        /\ \A g \in Flushes : nAcks'[g] = nAcks[g] /\ nBefore'[g] = nBefore[g]
    BY <1>10, <1>b, NoticesAsked DEF StopNotices
  <2> QED BY <1>10, <1>b, <2>1 DEF StopNotices, eVars
<1>11. ASSUME NEW s \in Shutdowns, NoticesStopped(s) PROVE Frame
  <2>1. UNCHANGED <<nWaiting, nBefore>> /\ \A g \in Flushes : nAcks'[g] = nAcks[g]
    BY <1>11, <1>b DEF NoticesStopped, N!Expire, N!GiveUp, N!itemVars, nVars
  <2> QED BY <1>11, <1>b, <2>1 DEF NoticesStopped, eVars
<1>12. CASE NoticesWork
  <2>1. /\ process = 0
        /\ UNCHANGED <<state, process, pc, mark, eOffered, eWaiting, eBefore, eAcks>>
    BY <1>12 DEF NoticesWork, eVars
  <2>2. /\ nWaiting' \subseteq nWaiting /\ nBefore' = nBefore
        /\ \A f \in Flushes :
              /\ nAcks'[f] = "yes" => nAcks[f] = "yes" \/ \A x \in nWaiting' : x > nBefore[f]
              /\ nAcks[f] = "idle" => nAcks'[f] = "idle"
    BY <1>12, <1>b, NoticesAnswered DEF NoticesWork
  <2>3. Asked' /\ Answered'
    BY <2>1, <2>2 DEF Asked, Answered
  <2>4. AtHome' /\ NothingYet'
    BY <2>1, <2>2 DEF AtHome, NothingYet
  <2> QED BY <2>3, <2>4 DEF Barriers
<1>13. CASE EventsWork
  <2>1. UNCHANGED <<state, process, pc, mark, nWaiting, nBefore, nAcks>>
    BY <1>13 DEF EventsWork, nVars
  <2>2. /\ eWaiting' \subseteq eWaiting /\ UNCHANGED <<eOffered, eBefore>>
        /\ \A f \in Flushes :
              /\ eAcks'[f] = "yes" => eAcks[f] = "yes" \/ \A x \in eWaiting' : x > eBefore[f]
              /\ (eAcks'[f] = "idle") <=> (eAcks[f] = "idle")
    BY <1>13, <1>b, EventsAnswered DEF EventsWork
  <2>3. Asked' /\ Answered'
    BY <2>1, <2>2 DEF Asked, Answered
  <2>4. AtHome' /\ NothingYet'
    BY <2>1, <2>2 DEF AtHome, NothingYet
  <2> QED BY <2>3, <2>4 DEF Barriers
<1>14. CASE Fork
  <2>1. /\ process' = process + 1 /\ \A f \in Flushes : pc[f] \in {"idle", "done"}
        /\ UNCHANGED <<state, pc, mark, nWaiting, nBefore, nAcks, eOffered, eWaiting, eBefore,
                       eAcks>>
    BY <1>14, <1>b DEF Fork, eVars, nVars
  <2>2. process' # 0
    BY <1>c, <2>1
  <2>3. Asked' /\ Answered'
    BY <2>1 DEF Asked, Answered
  <2>4. AtHome' /\ NothingYet'
    BY <2>1, <2>2 DEF AtHome, NothingYet, Asked
  <2> QED BY <2>3, <2>4 DEF Barriers
<1>15. CASE Tick
  BY <1>15, <1>a DEF Tick, eVars, nVars
<1>16. CASE UNCHANGED vars
  BY <1>16, <1>a DEF vars, eVars, nVars
<1> QED
  BY <1>a, <1>1, <1>2, <1>3, <1>4, <1>5, <1>6, <1>7, <1>8, <1>9, <1>10, <1>11, <1>12, <1>13,
     <1>14, <1>15, <1>16 DEF Next, FlushStep, ShutdownStep

-----------------------------------------------------------------------------
(* The theorems.                                                           *)

\* No call has begun, and nothing is offered or started.
LEMMA InitIInv == Init => IInv
<1> SUFFICES ASSUME Init PROVE IInv
  OBVIOUS
<1> USE CallsAssumption, TimesAssumption, OffersAssumption, ForksAssumption
    DEF Init, N!Init, E!Init
<1>1. TypeOK
  BY DEF TypeOK, Places
<1>2. PipesOK
  <2>1. /\ nOffered = 0 /\ eOffered = 0 /\ eWaiting = {} /\ nGone = FALSE
        /\ nBefore = [c \in Calls |-> 0] /\ eBefore = [c \in Calls |-> 0]
        /\ nAcks = [c \in Calls |-> "idle"] /\ eAcks = [c \in Calls |-> "idle"]
    OBVIOUS
  <2>2. nAcks \in [Calls -> Heard] /\ eAcks \in [Calls -> Heard]
    BY <2>1 DEF Heard
  <2>3. /\ eOffered \in 0..MaxEvents
        /\ nBefore \in [Calls -> 0..nOffered] /\ eBefore \in [Calls -> 0..eOffered]
    BY <2>1
  <2>4. nOffered \in Nat /\ eWaiting \in SUBSET (1..eOffered)
    BY <2>1
  <2>5. nGone \in BOOLEAN
    BY <2>1, Zenon
  <2> QED BY <2>2, <2>3, <2>4, <2>5 DEF PipesOK
<1>3. Flushes \subseteq Calls /\ Shutdowns \subseteq Calls
  BY DEF Calls
<1>4. HandleOK /\ WorkerTold /\ EventHasWorker
  BY <1>3 DEF HandleOK, WorkerTold, EventHasWorker, Begun
<1>5. FlushClock
  BY <1>3 DEF FlushClock
<1>6. ShutdownClock
  <2>1. \A s \in Shutdowns : pc[s] = "idle" /\ spent[s] = 0 /\ until[s] = 0 /\ timeout[s] = 0
    BY <1>3
  <2>2. 0 <= Larger(0, 2 * Floor)
    BY DEF Larger
  <2> QED BY <2>1, <2>2 DEF ShutdownClock, InBudget
<1>7. Asked /\ Answered
  <2>1. /\ eOffered = 0 /\ nAcks = [c \in Calls |-> "idle"] /\ eAcks = [c \in Calls |-> "idle"]
        /\ mark = [f \in Flushes |-> 0]
    OBVIOUS
  <2>2. \A f \in Flushes : mark[f] <= eOffered
    BY <2>1
  <2>3. \A f \in Flushes : nAcks[f] = "idle" /\ eAcks[f] = "idle"
    BY <1>3, <2>1
  <2> QED BY <2>2, <2>3 DEF Asked, Answered
<1>8. AtHome /\ NothingYet
  <2>1. eWaiting = {} /\ process = 0
    OBVIOUS
  <2> QED BY <2>1 DEF AtHome, NothingYet
<1> QED BY <1>1, <1>2, <1>4, <1>5, <1>6, <1>7, <1>8 DEF IInv

\* The invariant the theorems below follow from.
THEOREM Invariance == Spec => []IInv
<1>1. IInv /\ [Next]_vars => IInv'
  BY TypeStep, HandleStep, ClockStep, BarrierStep DEF IInv, Barriers
<1> QED BY <1>1, InitIInv, PTL DEF Spec

\* When a shutdown has returned, the events worker this process started has
\* been told to stop or is about to be, and no event goes to a worker that
\* another process kept.
THEOREM NoWorkerLeft == Spec => []NoOrphan
<1>1. IInv => NoOrphan
  BY DEF IInv, HandleOK, WorkerTold, Tells, Begun, NoOrphan, WorkerIsStopped
<1> QED BY <1>1, Invariance, PTL

\* flush waits no longer than its caller said, if that is a time at all.
THEOREM FlushKeepsTime == Spec => []FlushInTime
<1>1. IInv => FlushInTime
  BY DEF IInv, FlushClock, FlushInTime
<1> QED BY <1>1, Invariance, PTL

\* shutdown waits no longer than its caller said, or than two floors, if that
\* is a time at all; and each of its waits then has an end.
THEOREM ShutdownKeepsTime == Spec => []ShutdownInTime
<1>1. IInv => ShutdownInTime
  <2> SUFFICES ASSUME IInv, NEW s \in Shutdowns, HasDeadline(s)
               PROVE  Expires(s) /\ spent[s] <= Larger(timeout[s], 2 * Floor)
    BY DEF ShutdownInTime
  <2>1. s \in Calls
    BY DEF Calls
  <2>2. timeout[s] \in Nat /\ spent[s] \in Nat /\ until[s] \in Nat
    <3>1. Timeouts \cup {0} \subseteq Nat /\ timeout \in [Calls -> Timeouts \cup {0}]
      BY TimesAssumption DEF IInv, TypeOK
    <3> QED BY <2>1, <3>1 DEF IInv, TypeOK
  <2>3. until[s] <= Larger(timeout[s], 2 * Floor)
    BY DEF IInv, ShutdownClock, InBudget
  <2>4. \/ spent[s] = 0
        \/ spent[s] <= Larger(timeout[s] - Floor, Floor)
        \/ spent[s] <= until[s]
        \/ spent[s] <= Larger(timeout[s], 2 * Floor)
    <3>1. pc[s] \in {"idle", "ask events", "stop events", "wait events", "stop notices",
                     "wait notices", "done"}
      BY <2>1 DEF IInv, TypeOK, Places
    <3> QED BY <3>1 DEF IInv, ShutdownClock, InBudget
  <2>5. spent[s] <= Larger(timeout[s], 2 * Floor)
    BY <2>2, <2>3, <2>4, TimesAssumption DEF Larger
  <2>6. Expires(s)
    BY <2>2, <2>3, TimesAssumption DEF Larger, Expires, HasDeadline
  <2> QED BY <2>5, <2>6
<1> QED BY <1>1, Invariance, PTL

\* A flush that returns true before any shutdown is a barrier on both
\* pipelines, in the process that started them and in a forked child.
THEOREM FlushBarrier == Spec => FlushIsBarrier
<1>1. IInv /\ [Next]_vars =>
        [\A f \in Flushes : result'[f] = "true" /\ result[f] = "none"
           /\ (\A s \in Shutdowns : ~Begun(s)) => Barrier(f)]_vars
  <2> SUFFICES ASSUME IInv, Next, NEW f \in Flushes,
                      result'[f] = "true" /\ result[f] = "none"
                         /\ \A s \in Shutdowns : ~Begun(s)
               PROVE  Barrier(f)
    OBVIOUS
  <2>0. result'[f] = "true" /\ result[f] = "none" /\ \A s \in Shutdowns : ~Begun(s)
    OBVIOUS
  <2>1. FlushReturns(f)
    <3>1. ASSUME NEW g \in Flushes, FlushReturns(g) PROVE g = f
      BY <3>1, <2>0 DEF FlushReturns, IInv, TypeOK
    <3>2. ASSUME \/ Notify \/ Event \/ NoticesWork \/ EventsWork \/ Fork \/ Tick
                 \/ \E g \in Flushes : BeginFlush(g) \/ AskEvents(g) \/ FlushHearNotices(g)
                 \/ \E s \in Shutdowns : ShutdownStep(s)
          PROVE  UNCHANGED result
      BY <3>2 DEF Notify, Event, NoticesWork, EventsWork, Fork, Tick, BeginFlush, AskEvents,
         FlushHearNotices, ShutdownStep, BeginShutdown, StopEvents, EventsStopped,
         StopNotices, NoticesStopped, callVars
    <3> QED BY <2>0, <3>1, <3>2 DEF Next, FlushStep
  <2>2. nAcks[f] = "yes" /\ eAcks[f] \in {"yes", "idle"}
    BY <2>0, <2>1 DEF FlushReturns, Verdict, IInv, TypeOK
  <2>3. pc[f] = "wait events"
    BY <2>1 DEF FlushReturns
  <2>4. process = 0 /\ state # "Stopped"
    BY <2>0, <2>2, <2>3 DEF IInv, AtHome, HandleOK
  <2>5. \A x \in nWaiting : x > nBefore[f]
    BY <2>2 DEF IInv, Answered
  <2>6. \A x \in eWaiting : x > mark[f]
    <3>1. CASE eAcks[f] = "idle"
      BY <2>3, <2>4, <3>1 DEF IInv, NothingYet
    <3>2. CASE eAcks[f] = "yes"
      <4>1. mark[f] <= eBefore[f] /\ \A x \in eWaiting : x > eBefore[f]
        BY <3>2 DEF IInv, Asked, Answered
      <4>2. mark[f] \in Nat /\ eBefore[f] \in Nat /\ eWaiting \subseteq Nat
        BY OffersAssumption DEF IInv, TypeOK, PipesOK, Calls
      <4> QED BY <4>1, <4>2
    <3> QED BY <2>2, <3>1, <3>2
  <2> QED BY <2>5, <2>6 DEF Barrier
<1> QED BY <1>1, Invariance, PTL DEF Spec, FlushIsBarrier
=============================================================================
