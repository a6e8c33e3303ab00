------------------------------ MODULE PanicHook ------------------------------
(***************************************************************************)
(* dispatch and report of src/panic_hook.rs on the threads that use the    *)
(* facade.  A thread may panic in the application, or in user code that    *)
(* the SDK runs for it: a before_notify or before_event hook, the Display  *)
(* or source() of an error, the iterator given to context().  The panic    *)
(* hook runs where the panic is raised, before anything is unwound, with   *)
(* every lock still held that the thread holds there.                      *)
(*                                                                         *)
(* Panics are numbered.  The runtime is external: a panic raised while the *)
(* thread is in the panic hook aborts the process.                         *)
(***************************************************************************)
EXTENDS GlobalFacade, Sequences

CONSTANTS
    MaxPanics,      \* bound: panics ever raised
    MaxNesting      \* bound: user code inside user code

ASSUME PanicsAssumption == MaxPanics \in Nat /\ MaxNesting \in Nat

VARIABLES
    code,           \* the user code that runs inside the SDK, innermost last
    suppressed,     \* SUPPRESSED, of each thread
    inHook,         \* IN_HOOK, of each thread
    step,           \* where its panic hook is
    reporter,       \* the client through which it reports
    current,        \* the panic it is in
    panics,         \* panics raised so far
    caught,         \* history: panics raised where the SDK catches them
    contained,      \* history: those of them raised under a guard
    due,            \* history: escaping panics that found a client
    filed,          \* history: panics reported
    chained,        \* history: panics the previous hook has seen
    aborted         \* the process is gone

containedVars == <<caught, contained>>
hookVars == <<inHook, step, reporter, current, due, filed, chained>>
panicVars == <<code, suppressed, hookVars, panics, containedVars, aborted>>
allVars == <<vars, panicVars>>

\* What the SDK runs under suppress_reporting(), and what it only catches.
\* The iterator of context() is not even caught, and runs under the store's lock.
Guarded == {"hook", "deliver"}
Caught == Guarded \cup {"display"}
Kinds == Caught \cup {"iterator"}

PanicInit ==
    /\ Init
    /\ code = [t \in Threads |-> <<>>]
    /\ suppressed = [t \in Threads |-> FALSE]
    /\ inHook = [t \in Threads |-> FALSE]
    /\ step = [t \in Threads |-> "none"]
    /\ reporter = [t \in Threads |-> 0]
    /\ current = [t \in Threads |-> 0]
    /\ panics = 0
    /\ caught = {}
    /\ contained = {}
    /\ due = {}
    /\ filed = {}
    /\ chained = {}
    /\ aborted = FALSE

Frames(t) == {code[t][i] : i \in DOMAIN code[t]}
StoreHeld(c) ==
    \E t \in Threads : \E f \in Frames(t) : f.kind = "iterator" /\ f.client = c

-----------------------------------------------------------------------------
(* Mutants of the definitions below.                                       *)

\* A guard clears the flag when it is dropped.
RestoredToFalse(f) == IF f.kind \in Guarded THEN FALSE ELSE f.previous

\* The dispatcher does not ask whether reporting is suppressed.
ReporterAlways(t) == hook

-----------------------------------------------------------------------------
(* User code inside the SDK.                                               *)

\* The thread is the application's, or inside user code.
Runs(t) == ~aborted /\ step[t] = "none" /\ (pc[t] = "app" \/ code[t] # <<>>)

\* A call of the facade made by a thread: the first through the client cloned
\* in CallClone, one made by user code through the client of the moment.
Through(t) == IF code[t] = <<>> THEN hand[t] ELSE slot

\* A hook and an iterator come after the store was locked.
Enter(t, kind) ==
    /\ ~aborted /\ step[t] = "none"
    /\ pc[t] = "call"
    /\ Len(code[t]) < MaxNesting
    /\ code[t] = <<>> \/ lock = Nobody
    /\ Through(t) # 0
    /\ kind \in {"hook", "iterator"} => ~StoreHeld(Through(t))
    /\ code' = [code EXCEPT ![t] = Append(@,
           [kind |-> kind, client |-> Through(t), previous |-> suppressed[t]])]
    /\ suppressed' = [suppressed EXCEPT ![t] = @ \/ kind \in Guarded]
    /\ UNCHANGED <<vars, hookVars, panics, containedVars, aborted>>

\* A worker thread in Transport::deliver.
EnterDeliver(t) ==
    /\ Runs(t) /\ pc[t] = "app" /\ code[t] = <<>>
    /\ code' = [code EXCEPT ![t] =
           <<[kind |-> "deliver", client |-> 0, previous |-> suppressed[t]]>>]
    /\ suppressed' = [suppressed EXCEPT ![t] = TRUE]
    /\ UNCHANGED <<vars, hookVars, panics, containedVars, aborted>>

\* What drop leaves in SUPPRESSED, if the code ran under a guard.
Restored(f) == f.previous

Leave(t) ==
    /\ Runs(t) /\ code[t] # <<>>
    /\ suppressed' = [suppressed EXCEPT ![t] = Restored(code[t][Len(code[t])])]
    /\ code' = [code EXCEPT ![t] = SubSeq(@, 1, Len(@) - 1)]
    /\ UNCHANGED <<vars, hookVars, panics, containedVars, aborted>>

-----------------------------------------------------------------------------
(* dispatch.                                                               *)

Panic(t) ==
    /\ Runs(t)
    /\ panics < MaxPanics
    /\ panics' = panics + 1
    /\ current' = [current EXCEPT ![t] = panics + 1]
    /\ caught' = IF \E f \in Frames(t) : f.kind \in Caught
                 THEN caught \cup {panics + 1} ELSE caught
    /\ contained' = IF \E f \in Frames(t) : f.kind \in Guarded
                    THEN contained \cup {panics + 1} ELSE contained
    /\ inHook' = [inHook EXCEPT ![t] = TRUE]
    /\ step' = [step EXCEPT ![t] = IF inHook[t] THEN "chain" ELSE "look"]
    /\ UNCHANGED <<vars, code, suppressed, reporter, due, filed, chained, aborted>>

Reporter(t) == IF suppressed[t] THEN 0 ELSE hook

\* IN_HOOK after dispatch has looked for a client, or reported.
StillInHook(t) == reporter'[t] # 0

\* PANIC_CLIENT is cloned, and reports outside its lock.
Look(t) ==
    /\ ~aborted /\ step[t] = "look"
    /\ reporter' = [reporter EXCEPT ![t] = Reporter(t)]
    /\ inHook' = [inHook EXCEPT ![t] = StillInHook(t)]
    /\ step' = [step EXCEPT ![t] = IF reporter'[t] = 0 THEN "chain" ELSE "report"]
    /\ due' = IF hook # 0 /\ current[t] \notin caught THEN due \cup {current[t]} ELSE due
    /\ UNCHANGED <<vars, code, suppressed, current, panics, containedVars, filed,
                   chained, aborted>>

Done(t) == inHook' = [inHook EXCEPT ![t] = FALSE]

\* report and deliver_now: the pipeline begins with the client's context.  What
\* the notice says, its frames and the location above them, is left out.
Report(t) ==
    /\ ~aborted /\ step[t] = "report"
    /\ ~StoreHeld(reporter[t])
    /\ filed' = filed \cup {current[t]}
    /\ reporter' = [reporter EXCEPT ![t] = 0]
    /\ Done(t)
    /\ step' = [step EXCEPT ![t] = "chain"]
    /\ UNCHANGED <<vars, code, suppressed, current, panics, containedVars, due,
                   chained, aborted>>

\* A before_notify hook or the transport panics in its turn.
ReportPanics(t) ==
    /\ ~aborted /\ step[t] = "report"
    /\ ~StoreHeld(reporter[t])
    /\ panics < MaxPanics
    /\ aborted' = TRUE
    /\ UNCHANGED <<vars, code, suppressed, hookVars, panics, containedVars>>

Largest(S) == CHOOSE i \in S : \A j \in S : j <= i

\* The previous hook has run; the thread unwinds to the user code the SDK
\* catches, or else out of the facade into the application.
Chain(t) ==
    LET catchers == {i \in DOMAIN code[t] : code[t][i].kind \in Caught}
        top == Largest(catchers)
    IN  /\ ~aborted /\ step[t] = "chain"
        /\ chained' = chained \cup {current[t]}
        /\ current' = [current EXCEPT ![t] = 0]
        /\ step' = [step EXCEPT ![t] = "none"]
        /\ IF catchers # {}
           THEN /\ code' = [code EXCEPT ![t] = SubSeq(@, 1, top - 1)]
                /\ suppressed' = [suppressed EXCEPT ![t] = Restored(code[t][top])]
                /\ UNCHANGED vars
           ELSE /\ code' = [code EXCEPT ![t] = <<>>]
                /\ UNCHANGED suppressed
                /\ IF pc[t] = "call" THEN CallReturns(t) ELSE UNCHANGED vars
        /\ UNCHANGED <<inHook, reporter, due, filed, panics, containedVars, aborted>>

-----------------------------------------------------------------------------

\* The facade's own steps, by threads that run nothing else.
Facade(t) ==
    /\ ~aborted /\ step[t] = "none" /\ code[t] = <<>>
    /\ Step(t)
    /\ UNCHANGED panicVars

InHook(t) == Look(t) \/ Report(t) \/ Chain(t)

PanicNext ==
    \E t \in Threads :
        \/ Facade(t)
        \/ \E kind \in Kinds \ {"deliver"} : Enter(t, kind)
        \/ EnterDeliver(t)
        \/ Leave(t)
        \/ Panic(t)
        \/ InHook(t)
        \/ ReportPanics(t)

PanicSpec == PanicInit /\ [][PanicNext]_allVars

\* A thread goes on with what the SDK does in it: shutdown returns, and so
\* does a transport, as its documentation asks of it.  User code owes nothing.
Fairness ==
    \A t \in Threads :
        /\ WF_allVars(pc[t] \notin {"app", "call"} /\ Facade(t))
        /\ WF_allVars(InHook(t))

FairPanicSpec == PanicSpec /\ Fairness

-----------------------------------------------------------------------------
(* Properties.                                                             *)

\* "dropping it shuts reporting down": a facade call or a panic that begins
\* after the drop of a guard has shut its client down never reports through it.
NoReportBehindGuard ==
    [][\A t \in Threads :
           /\ pc'[t] = "call" /\ pc[t] = "app" => hand'[t] \notin stopped
           /\ reporter'[t] # 0 /\ reporter[t] = 0 => reporter'[t] \notin stopped]_allVars

\* init and the drop of a guard come to their end, whoever else initialises,
\* drops or panics meanwhile.
InitAndDropReturn ==
    \A t \in Threads : pc[t] \in {"init", "take"} ~> pc[t] = "app" \/ aborted

\* The flags say what they mean, however user code nests, returns and panics:
\* reporting is suppressed while a hook or a transport runs on the thread and
\* at no other time (not in a Display or a source(), although the SDK catches
\* those too), and IN_HOOK is set only inside the dispatcher.
FlagsTrue ==
    \A t \in Threads :
        /\ suppressed[t] <=> \E f \in Frames(t) : f.kind \in Guarded
        /\ inHook[t] => step[t] \in {"look", "report"}

\* A panic that leaves the code the SDK runs is reported exactly if there was
\* a client, one raised anywhere below a hook or a transport never is, and the
\* previous hook sees each of them.  Of a panic the SDK catches without a guard
\* nothing is promised here: see CaughtNotReported.
EscapedAreFiled ==
    \A n \in 1..panics :
        (\A t \in Threads : current[t] # n) =>
            /\ n \in chained
            /\ n \notin caught => (n \in filed <=> n \in due)
            /\ n \in contained => n \notin filed

-----------------------------------------------------------------------------
(* What the documentation or a comment says and the code does not do.      *)

\* "A panic inside user code we are about to catch is contained, not
\* reported": the Display and the source() of an error are caught, and are not
\* run under suppress_reporting().
CaughtNotReported == caught \cap filed = {}

\* request_timeout "also bounds the synchronous panic path, which never waits
\* longer than a normal request may": the thread comes out of the panic hook.
\* When the iterator given to context() panics, the report waits for the lock
\* of the store that its own thread still holds.
PanicPathEnds ==
    \A t \in Threads : step[t] # "none" ~> step[t] = "none" \/ aborted
=============================================================================
