--------------------------- MODULE ClientLifecycle ---------------------------
(***************************************************************************)
(* Client::event, notify, flush and shutdown of src/client.rs over two     *)
(* delivery pipelines: the notices worker, which runs from the start, and  *)
(* the events worker, which the first event starts, under a mutex.         *)
(*                                                                         *)
(* Each pipeline is taken as what its worker promises (Pipeline); N is the *)
(* one of notices, E that of events.  Threads of the application interleave *)
(* at every lock, send and receive.  Only waiting takes time: it is counted *)
(* in ticks since the call began, and a caller that can go on does so      *)
(* before the next tick.  A time that no Instant can represent never comes: *)
(* a caller who passes such a timeout waits until it is answered.          *)
(*                                                                         *)
(* The process may fork between calls, and the model goes on as the child: *)
(* it has the handles and their channels, and none of the threads.         *)
(***************************************************************************)
EXTENDS Integers, FiniteSets

CONSTANTS
    Flushes,        \* the flush() calls made
    Shutdowns,      \* the shutdown() calls made
    Timeouts,       \* the timeouts callers pass, in ticks
    Floor,          \* SHUTDOWN_FLOOR, in ticks
    Horizon,        \* the last tick an Instant can represent
    MaxNotices,     \* bound: notices ever offered
    MaxEvents,      \* bound: events ever offered
    MaxForks        \* bound: how often the process forks

Calls == Flushes \cup Shutdowns

ASSUME CallsAssumption == Flushes \cap Shutdowns = {}
ASSUME TimesAssumption ==
    /\ Timeouts \subseteq Nat /\ Floor \in Nat
    /\ Horizon \in Nat /\ 2 * Floor <= Horizon
ASSUME OffersAssumption == MaxNotices \in Nat /\ MaxEvents \in Nat
ASSUME ForksAssumption == MaxForks \in Nat

VARIABLES
    state,          \* EventsState
    process,        \* std::process::id(): how many forks led here
    home,           \* the pid of the events handle
    spawned,        \* history: events workers this process has started
    inherited,      \* history: events offered before it was forked
    deaf,           \* calls to an events worker whose handle was replaced
    pc,             \* where each call is
    timeout,        \* what its caller passed
    spent,          \* ticks it has waited
    until,          \* ticks at which it stops waiting
    result,         \* what flush has returned
    mark,           \* history: events offered before each flush
    nOffered, nWaiting, nDelivered, nLost, nBefore, nAcks, nClosed, nGone,
    eOffered, eWaiting, eDelivered, eLost, eBefore, eAcks, eClosed, eGone

N == INSTANCE Pipeline WITH
    Stops <- Shutdowns, offered <- nOffered, waiting <- nWaiting,
    delivered <- nDelivered, lost <- nLost, before <- nBefore, acks <- nAcks,
    closed <- nClosed, gone <- nGone

E == INSTANCE Pipeline WITH
    Stops <- Shutdowns, offered <- eOffered, waiting <- eWaiting,
    delivered <- eDelivered, lost <- eLost, before <- eBefore, acks <- eAcks,
    closed <- eClosed, gone <- eGone

timeVars == <<timeout, spent, until>>
callVars == <<pc, timeVars, result, mark>>
nVars == <<nOffered, nWaiting, nDelivered, nLost, nBefore, nAcks, nClosed, nGone>>
eVars == <<eOffered, eWaiting, eDelivered, eLost, eBefore, eAcks, eClosed, eGone>>
forkVars == <<process, inherited>>
workerVars == <<state, home, spawned, deaf>>
vars == <<workerVars, forkVars, callVars, nVars, eVars>>

Places == {"idle", "ask events", "stop events", "stop notices",
           "wait notices", "wait events", "done"}

TypeOK ==
    /\ state \in {"NotStarted", "Running", "Stopped", "Failed"}
    /\ process \in 0..MaxForks /\ home \in 0..MaxForks
    /\ spawned \in Nat
    /\ inherited \in 0..MaxEvents
    /\ deaf \subseteq Calls
    /\ pc \in [Calls -> Places]
    /\ timeout \in [Calls -> Timeouts \cup {0}]
    /\ spent \in [Calls -> Nat]
    /\ until \in [Calls -> Nat]
    /\ result \in [Flushes -> {"none", "true", "false"}]
    /\ mark \in [Flushes -> 0..MaxEvents]

Init ==
    /\ state = "NotStarted"
    /\ process = 0 /\ home = 0
    /\ spawned = 0
    /\ inherited = 0
    /\ deaf = {}
    /\ pc = [c \in Calls |-> "idle"]
    /\ timeout = [c \in Calls |-> 0]
    /\ spent = [c \in Calls |-> 0]
    /\ until = [c \in Calls |-> 0]
    /\ result = [f \in Flushes |-> "none"]
    /\ mark = [f \in Flushes |-> 0]
    /\ N!Init
    /\ E!Init

Larger(a, b) == IF a >= b THEN a ELSE b
At(c, place) == pc' = [pc EXCEPT ![c] = place]

-----------------------------------------------------------------------------
(* Mutants of the definitions below.                                       *)

\* Nothing is withheld for the notices worker.
EventsBudgetWhole(s) == Larger(timeout[s] - spent[s], Floor)

\* Stopped, but the handle is lost with the state that held it.
HeldNothing == FALSE

\* The second wait has a timeout of its own.
FlushHearNoticesAfresh(f) ==
    /\ pc[f] = "wait notices"
    /\ nAcks[f] # "pending" \/ spent[f] >= until[f]
    /\ IF nAcks[f] = "pending"
       THEN N!Expire(f)
       ELSE UNCHANGED nVars
    /\ At(f, "wait events")
    /\ until' = [until EXCEPT ![f] = spent[f] + timeout[f]]
    /\ UNCHANGED <<workerVars, forkVars, timeout, spent, result, mark, eVars>>

\* The handle is not asked for its pid.
StartsOnce == state = "NotStarted"

\* flush returns what the notices worker says.
VerdictOfNotices(f) == IF nAcks[f] = "yes" THEN "true" ELSE "false"

\* flush waits for the notices worker with recv(), not recv_deadline().
FlushHearNoticesOnly(f) ==
    /\ pc[f] = "wait notices"
    /\ nAcks[f] # "pending"
    /\ At(f, "wait events")
    /\ UNCHANGED <<workerVars, forkVars, timeVars, result, mark, nVars, eVars>>

-----------------------------------------------------------------------------
(* notify and event.                                                       *)

Notify ==
    /\ nOffered < MaxNotices
    /\ N!Offer
    /\ UNCHANGED <<workerVars, forkVars, callVars, eVars>>

\* The handle is of another process, which has the worker.
Foreign == state = "Running" /\ home # process

\* with_events_worker starts a worker for the first event, and for the first
\* in a forked child.
Starts == state = "NotStarted" \/ Foreign

\* Its first event finds room in the channel.  Whoever asked the worker of
\* the old handle hears nothing: the channel is leaked with the question.
Start ==
    LET asking == {c \in Calls : eAcks[c] = "pending"}
    IN  /\ home' = process
        /\ spawned' = spawned + 1
        /\ deaf' = deaf \cup asking
        /\ eAcks' = [c \in Calls |-> IF c \in asking THEN "timeout" ELSE eAcks[c]]
        /\ eOffered' = eOffered + 1
        /\ eWaiting' = {eOffered + 1}
        /\ UNCHANGED <<eDelivered, eLost, eBefore, eClosed, eGone>>

\* The event goes to the worker there is; without one it counts as dropped.
Enqueue ==
    /\ E!Offer
    /\ state' # "Running" => eWaiting' = eWaiting
    /\ UNCHANGED <<home, spawned, deaf>>

\* The state is looked at, changed and used under one lock.  A worker that
\* cannot be started disables events for good.
Event ==
    /\ eOffered < MaxEvents
    /\ \/ Starts /\ state' = "Running" /\ Start
       \/ Starts /\ state' = "Failed" /\ Enqueue
       \/ ~Starts /\ state' = state /\ Enqueue
    /\ UNCHANGED <<forkVars, callVars, nVars>>

-----------------------------------------------------------------------------
(* flush.                                                                  *)

\* The wait of a call is over when its time is up; recv_deadline and
\* recv_timeout wait for ever if that time cannot be represented.
Expires(c) == until[c] <= Horizon
Over(c) == Expires(c) /\ spent[c] >= until[c]

\* One deadline for both waits, if there is one, and the notices worker is
\* asked first.
BeginFlush(f) ==
    /\ pc[f] = "idle"
    /\ \E t \in Timeouts : /\ timeout' = [timeout EXCEPT ![f] = t]
                           /\ until' = [until EXCEPT ![f] = t]
    /\ mark' = [mark EXCEPT ![f] = eOffered]
    /\ N!Call(f)
    /\ At(f, "ask events")
    /\ UNCHANGED <<workerVars, forkVars, spent, result, eVars>>

\* A worker is never started in order to flush it.
AskEvents(f) ==
    /\ pc[f] = "ask events"
    /\ IF state = "Running"
       THEN E!Call(f)
       ELSE UNCHANGED eVars
    /\ At(f, "wait notices")
    /\ UNCHANGED <<workerVars, forkVars, timeVars, result, mark, nVars>>

FlushHearNotices(f) ==
    /\ pc[f] = "wait notices"
    /\ nAcks[f] # "pending" \/ Over(f)
    /\ IF nAcks[f] = "pending"
       THEN N!Expire(f)
       ELSE UNCHANGED nVars
    /\ At(f, "wait events")
    /\ UNCHANGED <<workerVars, forkVars, timeVars, result, mark, eVars>>

\* notices_ok && events_ok; a pipeline that was not asked is ok, if it is the
\* events'.
Verdict(f) ==
    IF nAcks[f] = "yes" /\ eAcks[f] \in {"yes", "idle"} THEN "true" ELSE "false"

\* What is asked of a worker that another process has is never answered.
EventsHeard(c) == eAcks[c] # "pending" /\ c \notin deaf

FlushReturns(f) ==
    /\ pc[f] = "wait events"
    /\ EventsHeard(f) \/ Over(f)
    /\ IF eAcks[f] = "pending"
       THEN E!Expire(f)
       ELSE UNCHANGED eVars
    /\ result' = [result EXCEPT ![f] = Verdict(f)]
    /\ At(f, "done")
    /\ UNCHANGED <<workerVars, forkVars, timeVars, mark, nVars>>

-----------------------------------------------------------------------------
(* shutdown.                                                               *)

\* With no deadline to count from, every stage has the whole timeout.
HasDeadline(c) == timeout[c] <= Horizon
Remaining(s) ==
    IF HasDeadline(s) THEN Larger(timeout[s] - spent[s], 0) ELSE timeout[s]

\* One floor is withheld for the notices worker, and each stage has one.
EventsBudget(s) == Larger(Remaining(s) - Floor, Floor)
NoticesBudget(s) == Larger(Remaining(s), Floor)

\* mem::replace: whoever finds the handle has to stop its worker.
Replaced == "Stopped"
Held == state = "Running"

BeginShutdown(s) ==
    /\ pc[s] = "idle"
    /\ \E t \in Timeouts : timeout' = [timeout EXCEPT ![s] = t]
    /\ state' = Replaced
    /\ At(s, IF Held THEN "stop events" ELSE "stop notices")
    /\ UNCHANGED <<home, spawned, deaf, forkVars, spent, until, result, mark, nVars, eVars>>

StopEvents(s) ==
    /\ pc[s] = "stop events"
    /\ E!Call(s)
    /\ until' = [until EXCEPT ![s] = spent[s] + EventsBudget(s)]
    /\ At(s, "wait events")
    /\ UNCHANGED <<workerVars, forkVars, timeout, spent, result, mark, nVars>>

\* Acknowledged, disconnected or out of time, the handle is dropped.
EventsStopped(s) ==
    /\ pc[s] = "wait events"
    /\ EventsHeard(s) \/ Over(s)
    /\ E!Close
    /\ eAcks' = IF eAcks[s] = "pending" THEN [eAcks EXCEPT ![s] = "timeout"] ELSE eAcks
    /\ At(s, "stop notices")
    /\ UNCHANGED <<workerVars, forkVars, timeVars, result, mark, nVars>>

\* A worker that has left cannot be sent the message, and shutdown returns.
StopNotices(s) ==
    /\ pc[s] = "stop notices"
    /\ N!Call(s)
    /\ until' = [until EXCEPT ![s] = spent[s] + NoticesBudget(s)]
    /\ At(s, IF nGone THEN "done" ELSE "wait notices")
    /\ UNCHANGED <<workerVars, forkVars, timeout, spent, result, mark, eVars>>

NoticesStopped(s) ==
    /\ pc[s] = "wait notices"
    /\ nAcks[s] # "pending" \/ Over(s)
    /\ IF nAcks[s] = "pending"
       THEN N!Expire(s)
       ELSE UNCHANGED nVars
    /\ At(s, "done")
    /\ UNCHANGED <<workerVars, forkVars, timeVars, result, mark, eVars>>

-----------------------------------------------------------------------------
(* The workers, the process, and time.                                     *)

\* Both live in the process that started them; the notices worker in the first.
NoticesWork ==
    process = 0 /\ N!Work /\ UNCHANGED <<workerVars, forkVars, callVars, eVars>>
EventsWork ==
    home = process /\ E!Work /\ UNCHANGED <<workerVars, forkVars, callVars, nVars>>

\* fork(), in a thread of the application, while no other is in a call.
Fork ==
    /\ process < MaxForks
    /\ \A c \in Calls : pc[c] \in {"idle", "done"}
    /\ process' = process + 1
    /\ spawned' = 0
    /\ inherited' = eOffered
    /\ UNCHANGED <<state, home, deaf, callVars, nVars, eVars>>

\* A worker has been asked and has not answered.
Unanswered(c) ==
    \/ pc[c] = "wait notices" /\ nAcks[c] = "pending"
    \/ pc[c] = "wait events" /\ ~EventsHeard(c)

\* Those that wait, and those of them that do so until some time.
Waiters == {c \in Calls : Unanswered(c) /\ ~Over(c)}
Clocked == {c \in Waiters : Expires(c)}

\* Time passes while every call in progress waits.  It is counted only for
\* those who will stop.
Tick ==
    /\ Clocked # {}
    /\ \A c \in Calls : pc[c] \in {"idle", "done"} \/ c \in Waiters
    /\ spent' = [c \in Calls |-> IF c \in Clocked THEN spent[c] + 1 ELSE spent[c]]
    /\ UNCHANGED <<workerVars, forkVars, pc, timeout, until, result, mark, nVars, eVars>>

FlushStep(f) ==
    BeginFlush(f) \/ AskEvents(f) \/ FlushHearNotices(f) \/ FlushReturns(f)

ShutdownStep(s) ==
    \/ BeginShutdown(s)
    \/ StopEvents(s) \/ EventsStopped(s)
    \/ StopNotices(s) \/ NoticesStopped(s)

Next ==
    \/ Notify
    \/ Event
    \/ \E f \in Flushes : FlushStep(f)
    \/ \E s \in Shutdowns : ShutdownStep(s)
    \/ NoticesWork
    \/ EventsWork
    \/ Fork
    \/ Tick

Spec == Init /\ [][Next]_vars

\* A thread inside a call goes on when it can, and time passes.  The workers
\* owe nothing: a transport may never return.
Fairness ==
    /\ \A f \in Flushes : WF_vars(pc[f] # "idle" /\ FlushStep(f))
    /\ \A s \in Shutdowns : WF_vars(pc[s] # "idle" /\ ShutdownStep(s))
    /\ WF_vars(Tick)

FairSpec == Spec /\ Fairness

-----------------------------------------------------------------------------
(* Safety.                                                                 *)

Begun(s) == pc[s] # "idle"

WorkerIsStopped ==
    spawned > 0 /\ (\E s \in Shutdowns : pc[s] = "done") =>
        \E s \in Shutdowns : pc[s] = "stop events" \/ eAcks[s] # "idle"

EventHasWorker == \A x \in eWaiting : x > inherited => home = process

\* Nothing is left behind.  When a shutdown has returned, an events worker
\* this process started has been told to stop, or another shutdown is about
\* to; and an event this process has let in goes to a worker it has, not to
\* one its parent kept.
NoOrphan == WorkerIsStopped /\ EventHasWorker

Barrier(f) ==
    /\ \A x \in nWaiting : x > nBefore[f]
    /\ \A x \in eWaiting : x > mark[f]

\* A flush that returns true before any shutdown has begun is a barrier on
\* both pipelines, one that was started meanwhile included.
FlushIsBarrier ==
    [][\A f \in Flushes : result'[f] = "true" /\ result[f] = "none"
           /\ (\A s \in Shutdowns : ~Begun(s)) => Barrier(f)]_vars

\* flush takes its timeout at most, not one for each pipeline.  Nothing
\* bounds the wait of a caller whose timeout gives no deadline.
FlushInTime == \A f \in Flushes : HasDeadline(f) => spent[f] <= timeout[f]

\* shutdown takes its timeout at most, if that leaves room for two floors and
\* gives a deadline.
ShutdownInTime ==
    \A s \in Shutdowns :
        HasDeadline(s) =>
            Expires(s) /\ spent[s] <= Larger(timeout[s], 2 * Floor)

-----------------------------------------------------------------------------
(* Liveness.                                                               *)

\* flush and shutdown return, whatever the transport does to the workers.
\* Only a call whose timeout gives no deadline may be kept for ever, and only
\* by a worker that hangs, or is in another process, and owes it an answer.
CallsReturn ==
    \A c \in Calls :
        []<>(pc[c] \in {"idle", "done"} \/ (~HasDeadline(c) /\ Unanswered(c)))
=============================================================================
