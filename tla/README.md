# honeybadger-rust in TLA+

This project models the `honeybadger` crate, an error and event reporter: the
application's threads hand notices and events to a client, and two worker
threads deliver them over HTTP. The models are TLA+, checked with TLC on small
instances and, where it says so, proved with TLAPS for every value of the
constants. `src/...` below is relative to the repository.

## The system

| Component | Source | State it keeps | Operations |
|---|---|---|---|
| Client | `src/client.rs` | config, sanitizer, sampler, the two drop counters, the notices worker's handle, `Mutex<EventsState>` | `notify*`, `event*`, `flush`, `shutdown`, `deliver_now`, the context calls |
| Notices worker | `src/worker.rs` | bounded notice channel, unbounded control channel, `throttle`, `retry_after` | `try_enqueue`, `flush_begin`, `shutdown`; the loop: send, pause, suspend, drain |
| Events worker | `src/events_worker.rs` | bounded line channel, control channel, `current` batch, `retries`, `deadline`, `retry_at`, `outstanding`, `throttle`, `stopped` | `try_enqueue`, `flush_begin`, `shutdown`; the loop: accept, cut, send, retry, suspend, drain |
| Drop counter | `src/drops.rs` | two atomics and the time of the last log | `record`, `record_many`, `report`, `report_final` |
| Global facade | `src/global.rs` | one `Mutex<Option<Client>>` | `init`, `Guard::drop`, one wrapper per client call |
| Panic hook | `src/panic_hook.rs` | `Once`, `RwLock<Option<Client>>`, two thread-locals | `register`, `deregister`, `dispatch`, `suppress_reporting` |
| Request scope | `src/request_scope.rs` | four stores per client and four per request overlay, a task-local | `scope`, `ScopeHandle`, `merged_context` |
| Breadcrumbs | `src/breadcrumbs.rs` | a ring of 40 | `push`, `snapshot`, `clear` |
| Notice pipeline | `src/client.rs`, `src/notice.rs` | none of its own | merge, ignore, hooks, sanitize, cap, compress |
| Event pipeline | `src/event.rs` | the sampler's atomic counter | merge, inject, hooks, validate, sample, cap |
| Sanitizer | `src/sanitizer.rs` | filter keys | depth, strings, filtered keys |
| Transport | `src/transport.rs` | two HTTP agents | `deliver`, Retry-After, the urgent budget |
| Configuration, errors | `src/config.rs`, `src/error.rs` | the builder's options, the environment | setters, `build` |
| Backtraces | `src/bt.rs` | none | resolved symbols to frames, paths and excerpts |

**Interactions.** Callers' threads meet the workers only through channels, the
drop counters' atomics and the `EventsState` mutex. A bounded channel refuses
when full, and the refusal is counted by the caller's own thread. Control
messages travel on a second channel, so a worker may serve a flush before the
lines that were offered earlier and must drain the data channel itself. An
acknowledgement goes back on a channel of its own; dropping it unsent is an
answer too. Both workers call user code (`Transport`), which may block, fail or
panic. The Guard shuts the global client down when it is dropped; the panic
hook holds a clone of it and delivers on the panicking thread.

**What is hard.** Interleavings of callers and the worker at every channel
look; the choice `select!` makes when several arms are ready; the last look at
a channel before a worker leaves; a caller that times out and drops its half of
a conversation; an endpoint that throttles or refuses in the middle of a drain;
two deadlines that must wake the worker; counters kept beside the collections
they count; in the client, a shutdown that races the first event, a flush that
races a shutdown, a fork; in the facade, a Guard dropped while another thread
initialises or panics; in the scopes, four stores that change one by one.

**What makes each part correct.**

- Drop counter: each drop is logged at most once, and an acknowledged shutdown
  has logged every drop it could know of.
- Events worker: nothing lost without being counted, order kept, what is held
  within the budget and all that is outstanding within a known ceiling, batches
  and attempts bounded, backoff respected, no work left without a timer, flush
  and shutdown barriers, silence afterwards.
- Notices worker: nothing lost without being counted, order, barriers, silence,
  no notice or call waits for ever.
- Client: at most one events worker, none after shutdown; one deadline over two
  pipelines; calls that return although a worker hangs, if they have a deadline;
  flush true only if both barriers completed.
- Global facade and panic hook: no second client while a guard is out, a guard
  stops its own client and no other; a panic that escapes what the SDK runs is
  reported if there is a client, once, one under a guard never, and the
  thread-locals are as they were when a guard is gone. That a panic which is
  caught without a guard is not reported either is what a comment says and the
  code does not do (`panic_caught`).
- Request scope: scopes never see each other's values; a scope's trail is its own.
- Configuration and transport: the builder comes before the environment, even
  one that is garbage; no number wraps; what `build` returns is usable; the
  service is contacted only if the configuration wants it.
- Backtraces: lines are quoted only of files that really are the project's.
- Event pipeline: `event_type` belongs to the caller; one decision per request
  id; an exact rate over a cycle.
- Notice pipeline and sanitizer: no ignored class leaves; nothing a hook adds
  escapes the filter; depth and length limits.

## Modules

| Module | Models | Notes |
|---|---|---|
| `DropCounter` | `src/drops.rs` | extended by both workers |
| `EventsWorker` | `src/events_worker.rs`, and `enqueue_event`, `shutdown` and the drop of the client in `src/client.rs` | |
| `NoticesWorker` | `src/worker.rs`, and `notify_notice` and the drop of the client | |
| `Pipeline` | what both promise | abstract; no code of its own |
| `ClientLifecycle` | `Client::{notify, event, flush, shutdown}` and `EventsState` in `src/client.rs`, the callers' halves of both handles | composes two `Pipeline`s |
| `GlobalFacade` | `src/global.rs`, `register` and `deregister` of `src/panic_hook.rs` | |
| `PanicHook` | the rest of `src/panic_hook.rs`, and the places that run the application's code: hooks, `Display`, iterators, transports | extends `GlobalFacade`: its threads panic while they initialise, drop and call |
| `ClientSetup` | `src/config.rs`, `src/error.rs`, the choice of the transport in `ClientBuilder::build`, the agents and headers of `src/transport.rs` | |
| `Sanitizer` | `src/sanitizer.rs` | functions over the levels of value trees, with the reference they are compared with |
| `Backtrace` | `src/bt.rs` | operators |
| `Reports` | `run_pipeline` of `src/client.rs`, `src/notice.rs`, `src/event.rs` | extends the two above |
| `RequestScope` | `src/request_scope.rs`, `src/breadcrumbs.rs`, the context calls of `src/client.rs` and the reads of a report | |
| `EventsWorkerProofs`, `EventsPromiseProofs`, `NoticesWorkerProofs`, `ClientLifecycleProofs`, `PanicHookProofs`, `RequestScopeProofs`, `ClientSetupProofs`, `ReportsProofs` | theorems about the module each is named after (`EventsPromiseProofs`: that `EventsWorker` implements `Pipeline`; `PanicHookProofs`: of `GlobalFacade` too; `ReportsProofs`: of `Sanitizer` and `Backtrace` too) | TLAPS |
| `MC...` | instances for TLC: symmetry and constraints | one for each module above that is run |

`EventsWorker` and `NoticesWorker` each instantiate `Pipeline` with a refinement
mapping and are checked to implement it; `ClientLifecycle` instantiates it twice,
so that what it shows of the client rests on what either worker promises and on
no detail of one.

### How state and actions correspond

*Lines, notices, bodies.* A line or notice is its number in the order offered,
so that "all of them", "in order" and "none twice" can be said. A batch is the
set of its lines. What a line weighs is the constant `Size`; compression,
serialisation and log text are left out.

*Steps.* One action is the code between two points where another thread can
interfere: a look at a channel, a receive, a call of the transport, an atomic.
Fields a worker owns change within its own steps. `pc` says where the worker
is: in `select!` ("run"), with a line in hand, in a delivery ("send"), in a
drain, in a suspension, leaving. `ret` says where a nested call returns to,
where the code calls the same function from two places (`send_pending` from the
loop, a flush or a shutdown; `send_one` from `run` or `drain_and_send`).
`select!` is a disjunction: any ready arm may fire.

*Transport.* `Answers` are one status of each class the code tells apart, plus
an error (which a panic is turned into). Every delivery may give any of them,
at every step.

*Time.* A timer is "none", "armed" or "due", and a clock action makes an armed
one due whenever it likes; `Deadline`, the backoff and the end of a suspension
are such timers. A pause of the notices worker is a state it leaves when it
likes. Nothing depends on how long an interval is, except that an interval an
`Instant` cannot represent never arms (`Representable = FALSE`).

*Callers.* A flush or a shutdown is a message with an answer `acks[m]`:
"pending", "yes", "no", "timeout" (the caller stopped waiting), "lost" (the
other end was dropped). `before[m]` is how many items had been offered when the
call was made: a history variable, like `delivered` and `failed`. Dropping the
last client closes the senders. `Client::shutdown` runs against both workers
and each module has its own part of it.

*Client.* `ClientLifecycle` counts time in ticks: `Timeouts` are what callers
pass, `Floor` is `SHUTDOWN_FLOOR`, and `Horizon` is the last tick an `Instant` can
represent. A timeout beyond it, `Duration::MAX` say, gives no deadline
(`HasDeadline`): `flush` waits with `recv()` (`client.rs:379`), and each stage of
`shutdown` is given the whole timeout (`client.rs:396`), for which crossbeam's
`recv_timeout` then waits without end too (external). Such a call returns when it
is answered, and never if its worker hangs or was left by a fork: `CallsReturn`
says so, and `FlushInTime` and `ShutdownInTime` are about calls with a deadline.
A call in progress has its own place, deadline
and the answer it got; the `events` state changes under its mutex and so in one
step with what the code does there. The pipelines may take, lose, answer or
leave whenever `Pipeline` lets them, or never. After `Fork` the model is the
child: it has both handles and no worker, what it asks of them is never
answered, and its first event replaces the events handle (`Foreign`, `Start`). A
fork happens between calls: one inside a call leaves the child with locked
mutexes, in this program as in any.

*Facade.* A client is its number in the order made. A step of `GlobalFacade` ends
at a lock; `lock` is held over several steps only in `init`, which makes a client
and registers it while it holds `GLOBAL`.

*Panics.* What a thread is inside of is a stack of frames in `PanicHook`: a user
hook, a `Display`, a delivery, an iterator that is walked with the store locked.
A panic may begin in any of them, with what `IN_HOOK` and `SUPPRESSED` hold
then; it passes the dispatcher, which reports or does not, calls the previous
hook, and unwinds to the frame whose caller catches it. Guards restore what they
found; `Display` and `source()` run under none, though the doc of `SUPPRESSED`
(`panic_hook.rs:18`) speaks of all the code the SDK expects to catch, so that
`FlagsTrue` asks for the flag under hooks and transports only and `EscapedAreFiled`
promises nothing of what is caught without a guard. A panic inside the panic
hook aborts, which is the runtime's doing (external).

*Configuration.* `ClientSetup` sets options and exports variables one by one,
with values that are unset, garbage, too wide, zero or ordinary, and then builds
once. Texts are model values. `Width` is that of the option's type, and
`NumberFits` of the proofs is what narrowing must preserve.

*Reports.* A JSON value is a tree of records; a string is its number of
characters and their width in bytes. `Level(v)[n]` holds the values n steps below
the root of `v`, each under the path that leads there. The code's `walk` goes down
and comes back; `Walk` gives what it comes back with: every value of a level is
made from those of the level below, beginning as deep as `depth_left` allows.
What is nested deeper than `MaxNesting` is not looked at, and `MaxDepth` is less:
the walk reads nothing there either, and leaves nothing. A report is taken through its pipeline in
as many steps as there are hooks, plus one before and one after: nothing else on
that path runs the application's code. `GivenAssumption` says what callers and
hooks come with: JSON values, and traces of symbols that may lack a name, a file
or a line. A hook may change any field the pipeline
reads, and then pass, veto or panic. `given` and `link` in what leaves, `fates`
and `draws` are history. `Cycle` stands for the 100 of the percentage, `Hash`
for CRC-32 modulo it. The counter's u64 is taken to be wide enough: 2^64 is not
a multiple of 100, and 2^64 events are not sent. A payload's size is that of
what was sanitized. `Links` are the errors of a `source()` chain, which may end,
run in a circle or panic. A path is the sequence of its components, a symbol
that of its segments.

*Scopes.* The layers are the clients' own stores and the overlays. A value is its
place in the order of writes, `log` its layer, so that "whose is it", "how old"
and "is it still there" can be asked of anything a report carries. No operation
holds two locks: a clear is four steps, a notice up to five, an event four and
the seeding of a nested scope three. The task-local is the stack of overlays a task is in.

*Drop counter.* `record` and `record_many` are one atomic addition. `report`
and `report_final` swap and add under the log's lock and are one step each;
whether the minute between two logs has passed is nondeterministic.

## Runs

Bounds are named in each `.cfg`. `MaxOffers` bounds lines or notices ever
offered; after that callers stop, and so `CHECK_DEADLOCK FALSE`: a system with
no caller left and an exited or idle worker really stops.

| Run | Instance | Shows |
|---|---|---|
| `events` | 4 lines of two sizes, channel and budget of 3, batches of 2 or 3 bytes, 1 retry, one flush, one shutdown, fair | type invariant, counters, account, order, bounds of a batch (lines, bytes, attempts), backoff, summary; `EventsWorker` implements `Pipeline`, which says that a flush is answered true only as a barrier; a flush is answered, partial batches are cut and retries happen |
| `notices` | 3 notices, channel of 2, one flush, one shutdown, fair | account; `NoticesWorker` implements `Pipeline`: an answer is a barrier, and after that of a shutdown nothing is sent; calls answered, notices served |
| `client` | a flush, one or two shutdowns, or a flush and a shutdown; one notice, two events, a fork; timeouts 0 and 2 at a floor of 1, and 6, beyond the last tick an `Instant` can represent; fair callers, workers that may do nothing | when a shutdown has returned no worker is left that nobody will stop, no event goes to a worker the parent kept, flush takes one timeout for two pipelines and a shutdown ends in its timeout or two floors, flush is a barrier on both pipelines until a shutdown begins; and every call returns, except one without a deadline whose worker owes it an answer |
| `facade` | 2 threads, 2 clients, 2 panics, frames nested 2 deep, fair | the two slots agree, a guard stops its own client and none is forgotten, nothing reports behind a guard, `init` and the drop of a guard end; the thread-locals say what the thread is doing; of the panics that escape exactly those that found a client are reported, of those under a guard none |
| `scopes` | 2 tasks; one scope and two writes over two clients, or two scopes and one write | values stay in their layer, a clear leaves nothing from before it, what stands throughout a report is in it, a nested scope inherits what its parent holds and an empty trail |
| `setup` | up to two options set and two variables exported | builder before environment, numbers kept, configurations usable, the service contacted only if wanted |
| `reports` | 4 errors, 5 payloads, 3 contexts, two hooks, 6 kinds of edit, a cycle of 3, 4 draws of the counter | what leaves is sanitized and otherwise whole, causes follow the chain, frames quote the project only, the type argument wins, one fate per request id, an exact share per cycle |

*Why the bounds are enough.* Four lines with a budget of three overfill the
channel and the budget; batches of two with a line that fills one by itself
reach both triggers of a cut, an accumulating batch behind two retained ones,
and shedding; one retry reaches both a batch kept and one aged out; a throttle
limited to 1 or 2 reaches both ends of the saturating counter. Three lines, of
which one is held and two fill a channel of two, exceed the budget in
`events_ceiling`. One flush and one shutdown give every pair of control messages
that can meet; two shutdowns meet in `client`, over what a worker promises.
`client` explores the calls by `Scenario`, a restriction of the steps that begin a
call, offer or fork and of no others, so that it takes nothing from what fairness
demands: the flush with everything; one shutdown with two events; two shutdowns,
or a flush with a timeout above zero and a shutdown, with one event on each side
of a fork. The notice is offered only beside a flush, since only the barrier asks
for it. In the client, a timeout below two floors and one at two floors are the
two sides of the budget's floor; 6 leaves no stage a deadline that ends by
`Horizon = 4`. Two threads of the facade are one that initialises
or drops and one that calls or panics meanwhile, and swap; a second panic is one
inside what contains the first. A leak between scopes needs one write, a
clear that misses something a write before and one during it; `TwoScopesOneWrite`
therefore allows the second write only over one scope. Two options and two
variables are every pair of precedence. Two hooks are one that spoils a report
and one behind it; trees of depth four (`MaxNesting`) are one too deep for `MaxDepth = 3`;
the counter starts one before the end of a cycle (`Seeds`); four
draws overlap two cycles of three. In `RequestScope` one task reports at a time
(`OneReport`): a report changes no store, so that no other report can tell.

**Runs that find a violation.** Each checks one sentence of the repository's own
documentation, comments or tests against what the code does:

| Run | Says | The code |
|---|---|---|
| `events_death` | what delivery could not place "is counted rather than vanishing silently" | after a shutdown that timed out, `select!` may see the closed line channel before the queued Shutdown message |
| `notices_suspend` | "a 401 must suspend delivery rather than dropping notices one by one" | a 401 met while draining for a flush does not suspend |
| `events_ceiling` | "`events_queue_size` bounds everything outstanding at once — queued, batching, and awaiting retry" (`README.md:199`) | the budget is tested when a line is taken from the channel, and callers fill the channel again behind what the worker holds: up to twice the budget, and the line in its hand |
| `panic_caught` | "A panic inside user code we are about to catch is contained, not reported" (`panic_hook.rs:60`) | the `Display` and the `source()` of an error are caught and run under no guard: their panics are reported, in time the caller's thread waits for |
| `panic_hang` | the urgent request is bounded, "the synchronous panic path ... never waits longer than a normal request may" (`config.rs:245`) | a panic in the iterator given to `context()` reports while its thread holds the store's lock, and hangs |

*Met while modelling and not kept as runs* (each is a behaviour of the models;
the sentence it differs from is in quotes):

- "Filling a batch must not bypass the retry schedule" (`events_worker.rs:270`): a
  flush interval no `Instant` can represent leaves `retry_at` at `None`, which
  reads as "no backoff" (`Representable = FALSE`; `BackoffRespected` is checked,
  and holds, for `TRUE`).
- "a 401 must suspend delivery" (`events_worker.rs:925`): `suspend` returns as soon
  as the client is gone, and a flush's drain that called it goes on.
- `try_enqueue` "returns false if the payload was dropped" (`worker.rs:76`): one
  accepted after the last look of a shutdown's drain goes with the receiver.
- "The client accepts nothing further afterwards" (`client.rs:387`): after a
  shutdown that timed out it still queues notices.
- `shutdown` "bounds process-exit latency at the number you passed"
  (`client.rs:390`): each of two stages gets at least `SHUTDOWN_FLOOR`.
- "Stops both delivery threads" (`client.rs:386`): a shutdown concurrent with
  another finds the state `Stopped` and does not wait for the events worker.
- flush returns "whether the barrier completed" on both pipelines
  (`client.rs:354`): while another clone is inside `shutdown` the events half
  counts as done, since the state is already `Stopped`.
- Without the pid check "a flush would wait out its whole timeout"
  (`client.rs:471`): it does so with the check too. `flush` reads no pid, so that
  before the child's first event it asks the worker its parent kept, and the
  notices worker is never replaced: while the client is not shut down, a flush in
  a child takes its timeout and returns false.
- "An invalid event provokes a 422, and a 422 discards the whole batch"
  (`event.rs:134`): `event("", ...)` with a hook that sets a type passes the
  validation, and the blank argument is reasserted after it. `TypeHeld` is
  checked with a blank argument among `Types`, and holds.
- "Strip the trailing hash" (`bt.rs:60`): a name without one, as v0 mangling
  prints it, loses its last segment that begins with h and all behind it
  (`StripHash`; `app::handler` becomes `app`).
- A user hook that panics while the panic hook itself reports aborts the process
  before `catch_unwind` can see it (`ReportPanics`), whatever `lib.rs:140` says
  of hooks and transports that panic.
- `notice_queue_size` is not checked for zero as the events' limits are
  (`config.rs:462`, `config.rs:494`): a rendezvous channel refuses every notice
  that finds the worker busy.
- The request id is "this request's own when it set one" (`request_scope.rs:154`):
  an entry named `request_id` of the merged context, a process-wide one too,
  comes first (`notice.rs:276`, `Correlation`).

## Fairness

Only weak fairness is assumed, and only of what must go on by itself:

- `EventsWorker`: the worker's own steps, taken together, and the passing of its
  three timers (`WF(Worker)`, `WF(DeadlinePasses)`, `WF(BackoffPasses)`,
  `WF(SuspensionPasses)`). The thread is scheduled and a timer expires.
- `NoticesWorker`: the same with `WF(PauseOver)` and `WF(SuspensionPasses)`.
- `ClientLifecycle`: each call in progress, and the clock. Nothing is assumed of
  either worker: `flush` and `shutdown` return whatever those do, if their
  timeout gives a deadline.
- `GlobalFacade` and `PanicHook`: each thread that is in the middle of
  something. That `Client::shutdown` returns is what `client` shows; the Guard
  passes it a constant (`GUARD_SHUTDOWN_TIMEOUT`), which gives a deadline.

No arm of `select!` is assumed to be chosen. A delivery ends: the code bounds it
by the request timeout for its own transport; a user's transport that never
returns voids every liveness property of a worker, as it does in the code.
Callers owe nothing: they may stop at any time, and `MaxOffers` keeps them from
feeding a drain for ever, which the code itself does not prevent.
`RequestScope`, `ClientSetup` and `Reports` have no loop and no liveness property.

## Proofs

Each proof holds for every value of the constants the named assumptions of its
module allow. An invariant that a run checks is seldom inductive by itself, so
each proof module states an `IInv` (`PInv`, `PanicInv`, `ReportInv`) that is, with the checked
properties among its conjuncts or as consequences of it. A property of steps
(`[][...]_vars`) follows from the invariant and one more look at the actions.

| Theorem module | Proves |
|---|---|
| `EventsWorkerProofs` | `TypeOK`, `EveryLineCounted`, `CountersAgree`, `Fifo`; and `PipelineBounded`, the ceiling that is true where `events_queue_size` is not one (`events_ceiling`) |
| `EventsPromiseProofs` | `Implements` (of `Pipeline`), `BackoffRespected`, `ShutdownLeavesNothing`, `BatchesBounded` |
| `NoticesWorkerProofs` | `TypeOK`, `EveryNoticeCounted`, `Implements` (of `Pipeline`) |
| `ClientLifecycleProofs` | `NoOrphan`, `FlushInTime`, `ShutdownInTime`, `FlushIsBarrier` |
| `PanicHookProofs` | `HookFollowsSlot`, `GuardOwnsClient`; `PanicSpec` implements `GlobalFacade`'s `Spec`; `FlagsTrue`, `EscapedAreFiled`, `NoReportBehindGuard` |
| `RequestScopeProofs` | `TypeOK`, `ReportIsOwn`, `StandingIsReported`, `ClearLeavesNothing`, `ScopeInherits` |
| `ClientSetupProofs` | `ConfigUsable`, `NumbersKept`, `BuilderBeatsEnvironment`, `ServiceOnlyIfWanted` |
| `ReportsProofs` | `ReportClean`, `CausesFollowChain`, `FramesAreOwn`, `TypeHeld`, `OneFate`, `ExactShare` |

**Events worker, the lines.** `IInv` joins the account, the counters and the
order with `ControlOK` (a line is in hand exactly in `accept`; a suspended worker
holds nothing), since a step of `accept` keeps the account only if it has one
line, and a discard keeps the order only if nothing else is held. The counters
need the order: a cut keeps `Cardinality` only because the sets involved are
disjoint, which is what `Fifo` says. The order needs the types: a new line is
later than all others only because all are at most `offered`. `Effects` reduces
every action to one of fourteen effects on the lines (enqueue, receive, admit,
cut, pop, shed, clear, ...), and type, order, count, conservation and budget each
have one step lemma over these effects, so that no lemma meets the thirty
actions again. `CeilingKept` adds up what the worker holds, the line in its hand
and what the channel can hold.

**Events worker, the promise.** `PInv` adds to `IInv` what the control flow keeps:
where each loop returns to (`Returning`), that a control message is in one place
and a flush that is there still waits (`Serving`), when the worker may stop
(`Stopping`), what has been drained once a message is to be answered
(`Barriers`), when a timer is armed (`Backoffs`) and what a batch may be
(`Limited`: the accumulating one is under both limits, a retained one has
attempts left, only the head of the queue has spent any). The simulation then
takes the actions one by one, each to a step of `Pipeline` or to a stutter. It
rests on `Barriers`, since `Pipeline` answers "yes" only when nothing from before
the question is pending. `BackoffKept` has the hypothesis `Representable`: where
an `Instant` cannot represent the backoff, the code arms none and there is none
to respect; every other theorem holds for both values. `BatchesKept` needs that
`current_bytes` is a sum kept up to date: `BytesSum` shows that the sums up to
each line exist and that `Bytes` is the last of them, and from it what a line
adds to a batch and that a batch without its last line was under the limit.

**Notices worker.** `Order` (channel, hand and what was sent are in the order
offered), `Serving`, `Leaving` (it goes only when told to or when nobody can reach
it, and after its answer to a shutdown sends nothing) and the account, by the
same way of `Effects` and step lemmas; then the simulation.

**Client.** `ClientLifecycle` takes its two workers for `Pipeline`s; that both
really implement it is what the two `KeepsPromise` prove. The invariant says who
has to stop the worker of this process (`HandleOK`, `WorkerTold`), how much time
each step of a call may have spent if it has a deadline (`FlushClock`, `ShutdownClock`: the events
worker leaves the notices worker a floor of the timeout, or the total is two
floors) and what an answer of either worker says (`Asked`, `Answered`). `AtHome`
and `NothingYet` are about a fork: in a child no notices worker ever answers, so
that a flush which hears yes is at home, where an events worker that was not
asked had nothing.

**Facade and panics.** `IInv` of the facade: who holds `GLOBAL`, that a guard is of
the client in the slot until its drop has taken it out, that nobody has a
stopped client in use, and what the hook holds in the middle of an `init` and of
a drop. No lock covers both slots; `HookPhases` is what stands in for one.
`PanicHook` is shown to refine the facade, step by step, so that the facade's
theorems hold with panics anywhere. Its own invariant is about any depth of
nesting: `SUPPRESSED` is set iff a guarded frame is on the thread's stack, and
each guard remembers whether there was one below it (`Suppression`). Only with
both does unwinding to any frame restore the right flag. `Underway` follows a
panic from where it is raised, whether the SDK catches there or has a guard
there, to the previous hook. `LargestIn` (by
well-foundedness of the finite subsets of an interval) shows that the frame
`Chain` unwinds to exists.

**Request scope.** Stores are read and written one lock at a time while others
write, so a property of a finished report has to be carried through every read.
The key fact is that a step moves an entry only to "empty" or to a value newly
written, and so leaves whatever is older than a task's own beginning as it was,
or empties it (`LayerFollows`, `OldKept`). `ReportStands`, `ClearedStands` and
`SeedStands` say of each step of a report, a clear and a nesting what is then
read or gone of the old; a step of another task keeps them by `StillTask`, and
the task's own by one lemma for each action. `StoreOwn` and `DraftOwn` say that
what a layer holds, and what has been read of it, belongs to it.

**Setup.** `Built` says what the builder, the environment and a finished outcome
may hold, `Served` what the chosen transport and a delivery may be. Two lemmas
are about `build`: `NumberFits`, that a number which is not refused fits its
option, and `OutcomeUsable`, that an outcome which is a configuration has passed
the limits. `SourcesAssumption` says that a flag's setter takes a `bool`, and
that "not set" is no value of an option.

**Reports.** The proofs are of the operators first. tlapm does not know that a
recursive function satisfies its equation: it has to be shown that some function
does. `SetInduction` is induction said of a set of numbers, so that it takes no
operator; with it `LevelIs`, `WalkIs`, `CausesAre` and `FramesAre` show that the
function exists and unfold it. A path of level n is a sequence of n steps and no
other level has it (`LevelPaths`, `LevelChild`, `LevelParent`), and what the walk
makes of a value is met level by level: `WalkOrigin` says that whatever the
result holds is a redaction, a depth marker, or what the walk made of the value
that stood there, and `WalkClean` follows for every filter, depth and value;
`WalkCarries` goes the other way, from each given value to where it still is, and
`WalkPreserves` follows. `CausesFollow` and `FramesOwn` say of a chain and of a
trace what the properties say. `ReportInv` then says that a draft is one: its
maps hold JSON values, its causes and frames are in order. Hooks keep that
(`HookStep`), because nothing they may set is anything but a value, and a report
that leaves is what `AssembledNotice` and `AssembledEvent` make of a draft. The
sampler has an invariant of its own, `SamplerInv`: the decisions drawn so far are
those of consecutive numbers, the last before the counter. `WindowShare` counts
how many remainders of a full cycle are below the rate by a bijection with the
numbers below it, wherever the cycle begins.

*What the proofs corrected.* The refinement mapping of `EventsWorker` read the
answer of a shutdown with a `CASE` whose guards overlapped, which leaves it to
`CHOOSE` which one counts; `ShutHeard` has one case per answer. `FramesAreOwn`
said that a file under the root is never shown as it is: it is, if the root is
spelled like the placeholder. Saying what a symbol is (`IsSymbol`) brought in the
one that has a file and no line, of which nothing is quoted.

*Only model-checked.* Liveness under fairness, which is out of the prover's reach:
that calls return and are answered (`FlushAnswered`, `CallsAnswered`,
`CallsReturn`, `InitAndDropReturn`), that batches are cut and retried
(`KeptIsMovedOn`) and notices served (`NoticeServed`). Every other property of a
passing run is proved. What is proved of strings is proved of their number of
characters and their width.

## Not modelled

The length of pauses and intervals (`throttle_interval` is a floating-point
curve), the bytes of bodies, compression, HTTP and log text. The recorder
`TestTransport`, which is for tests. A fork in the middle of a call. Several
handlers of `Reports` at once: its caller's thread shares only the sampler's atomic counter with others, and a step of `fetch_add` is one action.
What tokio does to carry a task-local across polls: a task's stack of scopes is taken for granted. What a panic's notice says: its message, and the frame the
panic hook puts above the backtrace (`panic_hook.rs:89`), which carries the file of
the panic's location as the compiler spells it and does not go through
`map_frame`, so that `FramesAreOwn` is about the frames below it. The demangling of symbols and the resolution of a backtrace,
which are the `backtrace` crate's. `src/lib.rs` re-exports.

## Plan

In this order; the first is what the rest leans on.

1. `DropCounter`, `EventsWorker`, its proofs; `Pipeline`; `NoticesWorker`. Done.
2. `ClientLifecycle`: `EventsState` under its mutex over two `Pipeline`s,
   and a fork with the restart in `with_events_worker`. Done.
3. `GlobalFacade` and `PanicHook`. Done.
4. `RequestScope` with the breadcrumbs. Done.
5. `ClientSetup` and its proofs. Done.
6. `Sanitizer`, `Backtrace`, `Reports`. Done.
7. Proofs of `NoticesWorker`, `ClientLifecycle`, `GlobalFacade`, `PanicHook`,
   `RequestScope` and the rest of `ClientSetup`; the step simulations of `Pipeline`
   by both workers. Done.
8. `BatchesBounded`, and the proofs of `Reports` with `Sanitizer` and `Backtrace`
   written without RECURSIVE operators. Done.
