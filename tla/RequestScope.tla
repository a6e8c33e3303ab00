----------------------------- MODULE RequestScope -----------------------------
(***************************************************************************)
(* Ambient state: the four stores of src/request_scope.rs, one set for     *)
(* each client (Scope) and one for each request (Overlay), the calls of    *)
(* src/client.rs that write them, and the reads a notice and an event make *)
(* of them.  The overlay in force is a task-local, and a handle carries it *)
(* to other tasks, so that several tasks write one overlay at once.        *)
(*                                                                         *)
(* Each store has a lock of its own and no operation holds two: a clear, a *)
(* report and the seeding of a nested scope are as many steps as they take *)
(* locks.  A value is its place in the order of writes, 0 is none.         *)
(***************************************************************************)
EXTENDS Integers, Sequences, SequencesExt

CONSTANTS
    Tasks,          \* tasks and threads of the application
    Clients,        \* clients, each with its process-wide stores
    Recording,      \* the clients that have breadcrumbs_enabled
    Keys,           \* keys of context and event context
    Capacity,       \* breadcrumbs::CAPACITY
    MaxScopes,      \* bound: how many overlays are ever made
    MaxWrites       \* bound: how many values are ever written

ASSUME ClientsAssumption == Recording \subseteq Clients
ASSUME CapacityAssumption == Capacity \in Nat \ {0}
ASSUME BoundsAssumption == MaxScopes \in Nat /\ MaxWrites \in Nat

Overlays == 1..MaxScopes
ASSUME LayersAssumption == Clients \cap Overlays = {}

Layers == Clients \cup Overlays
Stamps == 1..MaxWrites

VARIABLES
    context, eventContext, crumbs, requestId,   \* the stores of each layer
    current,        \* CURRENT: the scopes a task is in, the innermost first
    handles,        \* the overlays some ScopeHandle has been captured of
    made,           \* overlays made so far
    pc,             \* what each task is in the middle of
    draft,          \* what it has read
    log,            \* history: the layer and kind of each write, in order
    kin,            \* history: the scopes an overlay was nested in
    born            \* history: the writes before a nested overlay was made

stores == <<context, eventContext, crumbs, requestId>>
scopes == <<current, handles, made, kin, born>>
vars == <<stores, scopes, pc, draft, log>>

Nothing == [k \in Keys |-> 0]
Blank == [kind |-> "none", client |-> 0, began |-> 0,
          entries |-> Nothing, events |-> Nothing, id |-> 0, trail |-> <<>>]

Entries == [Keys -> Stamps \cup {0}]

TypeOK ==
    /\ context \in [Layers -> Entries] /\ eventContext \in [Layers -> Entries]
    /\ \A l \in Layers : crumbs[l] \in Seq(Stamps) /\ Len(crumbs[l]) <= Capacity
    /\ requestId \in [Layers -> Stamps \cup {0}]
    /\ current \in [Tasks -> Seq(1..made)]
    /\ handles \in SUBSET (1..made)
    /\ made \in 0..MaxScopes
    /\ pc \in [Tasks -> {"idle", "overlay", "id", "baseId", "trail", "reported",
                         "clearCrumbs", "clearEvents", "clearId", "seedEvents", "seedId"}]
    /\ \A t \in Tasks :
          /\ draft[t].kind \in {"none", "notice", "event"}
          /\ draft[t].client \in Clients \cup {0}
          /\ draft[t].began \in 0..Len(log)
          /\ draft[t].entries \in Entries /\ draft[t].events \in Entries
          /\ draft[t].id \in 0..Len(log)
          /\ draft[t].trail \in Seq(Stamps)
    /\ log \in Seq([layer : Layers, kind : {"value", "crumb"}])
    /\ Len(log) <= MaxWrites

Init ==
    /\ context = [l \in Layers |-> Nothing]
    /\ eventContext = [l \in Layers |-> Nothing]
    /\ crumbs = [l \in Layers |-> <<>>]
    /\ requestId = [l \in Layers |-> 0]
    /\ current = [t \in Tasks |-> <<>>]
    /\ handles = {}
    /\ made = 0
    /\ pc = [t \in Tasks |-> "idle"]
    /\ draft = [t \in Tasks |-> Blank]
    /\ log = <<>>
    /\ kin = [o \in Overlays |-> {}]
    /\ born = [o \in Overlays |-> 0]

Scoped(t) == current[t] # <<>>

\* What a write of c on t is recorded against: the scope t is in, or c.
Home(t, c) == IF Scoped(t) THEN Head(current[t]) ELSE c

At(t, place) == pc' = [pc EXCEPT ![t] = place]
Now == Len(log)
Stamp(l, kind) == Now < MaxWrites /\ log' = Append(log, [layer |-> l, kind |-> kind])
StampIf(set, l) == IF set = {} THEN log' = log ELSE Stamp(l, "value")
Rest == UNCHANGED <<scopes, pc, draft>>

-----------------------------------------------------------------------------
(* Mutants of the definitions below.                                       *)

\* A call takes no notice of the scope it is made in.
LayerProcessWide(t, c) == c

\* The process-wide entry wins.
MergedUnder(base, over) == [k \in Keys |-> IF base[k] # 0 THEN base[k] ELSE over[k]]

\* clear_context leaves the event context alone.
ClearEventsNot(t) ==
    /\ pc[t] = "clearEvents"
    /\ At(t, "clearId")
    /\ UNCHANGED <<stores, scopes, draft, log>>

\* A nested scope starts afresh.
SeededNothing(t, read) == Nothing

-----------------------------------------------------------------------------
(* The calls that write a store.  A context call sets some keys and, with  *)
(* null, removes others.                                                   *)

\* The stores a call of client c works on: the overlay's, if a scope is active.
Layer(t, c) == IF Scoped(t) THEN Head(current[t]) ELSE c

\* A store after a call that writes n to some keys.
Changed(entries, set, removed, n) ==
    [k \in Keys |-> IF k \in set THEN n ELSE IF k \in removed THEN 0 ELSE entries[k]]

Context(t, c, set, removed) ==
    LET l == Layer(t, c)
    IN  /\ pc[t] = "idle"
        /\ StampIf(set, Home(t, c))
        /\ context' = [context EXCEPT ![l] = Changed(@, set, removed, Now + 1)]
        /\ UNCHANGED <<eventContext, crumbs, requestId>> /\ Rest

EventContext(t, c, set, removed) ==
    LET l == Layer(t, c)
    IN  /\ pc[t] = "idle"
        /\ StampIf(set, Home(t, c))
        /\ eventContext' = [eventContext EXCEPT ![l] = Changed(@, set, removed, Now + 1)]
        /\ UNCHANGED <<context, crumbs, requestId>> /\ Rest

Pushed(trail, n) ==
    IF Len(trail) = Capacity THEN Append(Tail(trail), n) ELSE Append(trail, n)

AddBreadcrumb(t, c) ==
    LET l == Layer(t, c)
    IN  /\ pc[t] = "idle"
        /\ c \in Recording
        /\ Stamp(Home(t, c), "crumb")
        /\ crumbs' = [crumbs EXCEPT ![l] = Pushed(@, Now + 1)]
        /\ UNCHANGED <<context, eventContext, requestId>> /\ Rest

RequestId(t, c) ==
    LET l == Layer(t, c)
    IN  /\ pc[t] = "idle"
        /\ Stamp(Home(t, c), "value")
        /\ requestId' = [requestId EXCEPT ![l] = Now + 1]
        /\ UNCHANGED <<context, eventContext, crumbs>> /\ Rest

ClearRequestId(t, c) ==
    /\ pc[t] = "idle"
    /\ requestId' = [requestId EXCEPT ![Layer(t, c)] = 0]
    /\ UNCHANGED <<context, eventContext, crumbs, log>> /\ Rest

ClearEventContext(t, c) ==
    /\ pc[t] = "idle"
    /\ eventContext' = [eventContext EXCEPT ![Layer(t, c)] = Nothing]
    /\ UNCHANGED <<context, crumbs, requestId, log>> /\ Rest

-----------------------------------------------------------------------------
(* clear_context: four stores, one after another.                          *)

ClearContext(t, c) ==
    /\ pc[t] = "idle"
    /\ context' = [context EXCEPT ![Layer(t, c)] = Nothing]
    /\ draft' = [draft EXCEPT ![t] = [Blank EXCEPT !.client = c, !.began = Now]]
    /\ At(t, "clearCrumbs")
    /\ UNCHANGED <<eventContext, crumbs, requestId, scopes, log>>

ClearCrumbs(t) ==
    /\ pc[t] = "clearCrumbs"
    /\ crumbs' = [crumbs EXCEPT ![Layer(t, draft[t].client)] = <<>>]
    /\ At(t, "clearEvents")
    /\ UNCHANGED <<context, eventContext, requestId, scopes, draft, log>>

ClearEvents(t) ==
    /\ pc[t] = "clearEvents"
    /\ eventContext' = [eventContext EXCEPT ![Layer(t, draft[t].client)] = Nothing]
    /\ At(t, "clearId")
    /\ UNCHANGED <<context, crumbs, requestId, scopes, draft, log>>

ClearId(t) ==
    LET l == Layer(t, draft[t].client)
    IN  /\ pc[t] = "clearId"
        /\ requestId' = [requestId EXCEPT ![l] = 0]
        /\ draft' = [draft EXCEPT ![t] = Blank]
        /\ At(t, "idle")
        /\ UNCHANGED <<context, eventContext, crumbs, scopes, log>>

-----------------------------------------------------------------------------
(* Scopes and handles.                                                     *)

\* Overlay::seeded_from_current, with a scope active: the parent's stores are
\* cloned one at a time.
SeedContext(t) ==
    /\ pc[t] = "idle"
    /\ Scoped(t) /\ made < MaxScopes
    /\ draft' = [draft EXCEPT ![t] =
                    [Blank EXCEPT !.began = Now, !.entries = context[Head(current[t])]]]
    /\ At(t, "seedEvents")
    /\ UNCHANGED <<stores, scopes, log>>

SeedEvents(t) ==
    /\ pc[t] = "seedEvents"
    /\ draft' = [draft EXCEPT ![t].events = eventContext[Head(current[t])]]
    /\ At(t, "seedId")
    /\ UNCHANGED <<stores, scopes, log>>

\* What a new overlay has of the parent's entries, and the trail it starts with.
Seeded(t, read) == read
SeededTrail(t) == <<>>

\* scope, scope_sync: the request id is cloned, and f runs in the new overlay.
EnterNested(t) ==
    LET o == made + 1
        p == Head(current[t])
    IN  /\ pc[t] = "seedId"
        /\ made < MaxScopes
        /\ made' = o
        /\ context' = [context EXCEPT ![o] = Seeded(t, draft[t].entries)]
        /\ eventContext' = [eventContext EXCEPT ![o] = Seeded(t, draft[t].events)]
        /\ crumbs' = [crumbs EXCEPT ![o] = SeededTrail(t)]
        /\ requestId' = [requestId EXCEPT ![o] = requestId[p]]
        /\ current' = [current EXCEPT ![t] = <<o>> \o @]
        /\ kin' = [kin EXCEPT ![o] = kin[p] \cup {p}]
        /\ born' = [born EXCEPT ![o] = Now]
        /\ draft' = [draft EXCEPT ![t] = Blank]
        /\ At(t, "idle")
        /\ UNCHANGED <<handles, log>>

\* scope, scope_sync with no scope active: the new overlay is empty.
EnterFresh(t) ==
    /\ pc[t] = "idle"
    /\ ~Scoped(t) /\ made < MaxScopes
    /\ made' = made + 1
    /\ current' = [current EXCEPT ![t] = <<made + 1>>]
    /\ UNCHANGED <<stores, handles, kin, born, pc, draft, log>>

\* ScopeHandle::try_current, and current with a scope active: the handle shares
\* the overlay, and its clones may be sent to any task.
Capture(t) ==
    /\ pc[t] = "idle"
    /\ Scoped(t)
    /\ handles' = handles \cup {Head(current[t])}
    /\ UNCHANGED <<stores, current, made, kin, born, pc, draft, log>>

\* ScopeHandle::current with none active: a detached handle.
CaptureDetached(t) ==
    /\ pc[t] = "idle"
    /\ ~Scoped(t) /\ made < MaxScopes
    /\ made' = made + 1
    /\ handles' = handles \cup {made + 1}
    /\ UNCHANGED <<stores, current, kin, born, pc, draft, log>>

\* ScopeHandle::enter, enter_sync: the handle's overlay replaces the one in
\* force.  This consumes a handle, which may have been cloned before.
Enter(t, o) ==
    /\ pc[t] = "idle"
    /\ o \in handles /\ Len(current[t]) < MaxScopes
    /\ current' = [current EXCEPT ![t] = <<o>> \o @]
    /\ UNCHANGED <<stores, handles, made, kin, born, pc, draft, log>>

\* f returns.
Exit(t) ==
    /\ pc[t] = "idle"
    /\ Scoped(t)
    /\ current' = [current EXCEPT ![t] = Tail(@)]
    /\ UNCHANGED <<stores, handles, made, kin, born, pc, draft, log>>

-----------------------------------------------------------------------------
(* Reports.  run_pipeline and enqueue_event read the stores in this order: *)
(* the client's entries, the overlay's on top of them, the request id of   *)
(* the overlay, then the client's, and the trail.                          *)

\* The store a report takes its entries from.
Ambient(kind) == IF kind = "notice" THEN context ELSE eventContext

Report(t, c, kind) ==
    /\ pc[t] = "idle"
    /\ draft' = [draft EXCEPT ![t] = [Blank EXCEPT !.kind = kind, !.client = c,
                                                   !.began = Now, !.entries = Ambient(kind)[c]]]
    /\ At(t, IF Scoped(t) THEN "overlay" ELSE "baseId")
    /\ UNCHANGED <<stores, scopes, log>>

Merged(base, over) == [k \in Keys |-> IF over[k] # 0 THEN over[k] ELSE base[k]]

MergeOverlay(t) ==
    LET over == Ambient(draft[t].kind)[Head(current[t])]
    IN  /\ pc[t] = "overlay"
        /\ draft' = [draft EXCEPT ![t].entries = Merged(@, over)]
        /\ At(t, "id")
        /\ UNCHANGED <<stores, scopes, log>>

AfterId(t) == IF draft[t].kind = "notice" THEN "trail" ELSE "reported"

ScopedId(t) ==
    LET id == requestId[Head(current[t])]
    IN  /\ pc[t] = "id"
        /\ draft' = [draft EXCEPT ![t].id = id]
        /\ At(t, IF id # 0 THEN AfterId(t) ELSE "baseId")
        /\ UNCHANGED <<stores, scopes, log>>

BaseId(t) ==
    /\ pc[t] = "baseId"
    /\ draft' = [draft EXCEPT ![t].id = requestId[draft[t].client]]
    /\ At(t, AfterId(t))
    /\ UNCHANGED <<stores, scopes, log>>

\* An overlay's trail is used alone.
TrailOf(t, c) == crumbs[Layer(t, c)]

ReadTrail(t) ==
    LET c == draft[t].client
    IN  /\ pc[t] = "trail"
        /\ draft' = [draft EXCEPT ![t].trail = IF c \in Recording THEN TrailOf(t, c) ELSE <<>>]
        /\ At(t, "reported")
        /\ UNCHANGED <<stores, scopes, log>>

\* The report is assembled and leaves.
Reported(t) ==
    /\ pc[t] = "reported"
    /\ draft' = [draft EXCEPT ![t] = Blank]
    /\ At(t, "idle")
    /\ UNCHANGED <<stores, scopes, log>>

Step(t) ==
    \/ \E c \in Clients :
          \/ \E set \in SUBSET Keys, removed \in SUBSET Keys :
                /\ set \cap removed = {} /\ set \cup removed # {}
                /\ Context(t, c, set, removed) \/ EventContext(t, c, set, removed)
          \/ AddBreadcrumb(t, c) \/ RequestId(t, c)
          \/ ClearRequestId(t, c) \/ ClearEventContext(t, c) \/ ClearContext(t, c)
          \/ Report(t, c, "notice") \/ Report(t, c, "event")
    \/ ClearCrumbs(t) \/ ClearEvents(t) \/ ClearId(t)
    \/ SeedContext(t) \/ SeedEvents(t) \/ EnterNested(t) \/ EnterFresh(t)
    \/ Capture(t) \/ CaptureDetached(t)
    \/ \E o \in Overlays : Enter(t, o)
    \/ Exit(t)
    \/ MergeOverlay(t) \/ ScopedId(t) \/ BaseId(t) \/ ReadTrail(t) \/ Reported(t)

Next == \E t \in Tasks : Step(t)

Spec == Init /\ [][Next]_vars

-----------------------------------------------------------------------------
(* Properties.                                                             *)

Held(l) == Range(context[l]) \cup Range(eventContext[l]) \cup {requestId[l]}
               \cup Range(crumbs[l])

\* A value may be in a layer if it was recorded there or, the trail apart,
\* inherited: recorded in an enclosing scope before this one was made.
Belongs(n, l) ==
    \/ log[n].layer = l
    \/ l \in Overlays /\ log[n].layer \in kin[l] /\ n <= born[l]

\* A report carries what belongs to its client or to the scope it is made in,
\* and a trail of one of them alone.
ReportIsOwn ==
    \A t \in Tasks :
        LET d == draft[t]
            l == Home(t, d.client)
        IN  pc[t] = "reported" =>
                /\ \A n \in (Range(d.entries) \cup {d.id}) \ {0} :
                      Belongs(n, l) \/ log[n].layer = d.client
                /\ \A n \in Range(d.trail) : log[n].layer = l

\* What was recorded before a report began and still stands when it leaves is
\* in it, however the stores change between its reads: the scope's own entry
\* first, the client's where the scope has none, likewise the request id, and
\* the breadcrumbs.
StandingIsReported ==
    \A t \in Tasks :
        LET d == draft[t]
            l == Home(t, d.client)
            Stands(n) == n \in 1..d.began
        IN  pc[t] = "reported" =>
                /\ \A k \in Keys :
                      /\ Stands(Ambient(d.kind)[l][k]) => d.entries[k] = Ambient(d.kind)[l][k]
                      /\ Stands(Ambient(d.kind)[d.client][k]) => d.entries[k] # 0
                /\ Stands(requestId[l]) => d.id = requestId[l]
                /\ Stands(requestId[d.client]) => d.id # 0
                /\ d.kind = "notice" /\ d.client \in Recording =>
                      \A n \in Range(crumbs[l]) : Stands(n) => n \in Range(d.trail)

\* When clear_context returns, nothing recorded before it began is left in any
\* of the four stores, whoever wrote to them meanwhile.
ClearLeavesNothing ==
    [][\A t \in Tasks, l \in Layers :
          pc[t] = "clearId" /\ pc'[t] = "idle" /\ l = Home(t, draft[t].client) =>
              \A n \in Held(l)' \ {0} : n > draft[t].began]_vars

\* A nested scope starts from what the enclosing one holds, and an empty trail,
\* although the parent's stores are read one at a time while others write.
ScopeInherits ==
    [][\A t \in Tasks :
          made' = made + 1 /\ Scoped(t) /\ pc[t] = "seedId" /\ pc'[t] = "idle" =>
              LET p == Head(current[t])
                  Stands(n) == n \in 1..draft[t].began
              IN  /\ \A k \in Keys :
                        /\ Stands(context[p][k]) => context'[made'][k] = context[p][k]
                        /\ Stands(eventContext[p][k]) =>
                              eventContext'[made'][k] = eventContext[p][k]
                  /\ requestId'[made'] = requestId[p]
                  /\ crumbs'[made'] = <<>>]_vars

=============================================================================
