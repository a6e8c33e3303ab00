------------------------ MODULE RequestScopeProofs ------------------------
(***************************************************************************)
(* Theorems about RequestScope, for every set of tasks, clients and keys,  *)
(* every capacity, and however many scopes are made and values written:    *)
(* reports, clears and nested scopes read and write four stores one at a   *)
(* time, and still see what stands.                                        *)
(***************************************************************************)
EXTENDS RequestScope, SequenceTheorems, TLAPS

Seeding == {"seedEvents", "seedId"}
Clearing == {"clearCrumbs", "clearEvents", "clearId"}
Reading == {"overlay", "id", "baseId", "trail", "reported"}
Places == {"idle"} \cup Seeding \cup Clearing \cup Reading

Kinds == {"notice", "event"}
Writes == [layer : Layers, kind : {"value", "crumb"}]
Drafts == [kind : Kinds \cup {"none"}, client : Clients \cup {0}, began : Nat,
           entries : Entries, events : Entries, id : Stamps \cup {0}, trail : Seq(Stamps)]

\* What a trail may be: the newest breadcrumbs, no more than fit.
Trails == {s \in Seq(Stamps) : Len(s) <= Capacity}

StoreShape ==
    /\ context \in [Layers -> Entries]
    /\ eventContext \in [Layers -> Entries]
    /\ crumbs \in [Layers -> Trails]
    /\ requestId \in [Layers -> Stamps \cup {0}]
    /\ log \in Seq(Writes)
    /\ Len(log) <= MaxWrites

ScopeShape ==
    /\ current \in [Tasks -> Seq(1..made)]
    /\ handles \in SUBSET (1..made)
    /\ made \in 0..MaxScopes
    /\ kin \in [Overlays -> SUBSET Layers]
    /\ born \in [Overlays -> Nat]

TaskShape ==
    /\ pc \in [Tasks -> Places]
    /\ draft \in [Tasks -> Drafts]

\* What a task in the middle of something knows of what it does.
Placed(t) ==
    /\ pc[t] \in Reading => draft[t].client \in Clients /\ draft[t].kind \in Kinds
    /\ pc[t] \in Clearing => draft[t].client \in Clients
    /\ pc[t] \in {"overlay", "id"} \cup Seeding => Scoped(t)
    /\ pc[t] \in Reading \ {"reported"} => draft[t].trail = <<>>
    /\ pc[t] \notin Reading => draft[t].id = 0
    /\ draft[t].began <= Len(log)

\* The layer it works on.
Mine(t) == Home(t, draft[t].client)

\* n, if it is a value at all, has been written and belongs to l.
OwnedBy(n, l) == n # 0 => n \in 1..Len(log) /\ Belongs(n, l)

\* A layer holds what belongs to it, and its trail what was recorded there.
StoreOwn(l) ==
    /\ \A k \in Keys : OwnedBy(context[l][k], l) /\ OwnedBy(eventContext[l][k], l)
    /\ OwnedBy(requestId[l], l)
    /\ \A n \in Range(crumbs[l]) : n \in 1..Len(log) /\ log[n].layer = l

\* What a task has read so far may be there.
DraftOwn(t) ==
    LET d == draft[t]
        Credited(n) == OwnedBy(n, Mine(t)) \/ OwnedBy(n, d.client)
    IN  /\ pc[t] \in Reading =>
              /\ \A k \in Keys : Credited(d.entries[k])
              /\ Credited(d.id)
              /\ \A n \in Range(d.trail) : n \in 1..Len(log) /\ log[n].layer = Mine(t)
        /\ pc[t] \in Seeding =>
              \A k \in Keys : OwnedBy(d.entries[k], Head(current[t]))
        /\ pc[t] = "seedId" =>
              \A k \in Keys : OwnedBy(d.events[k], Head(current[t]))

\* n was written before t began what it is in the middle of.
Old(n, t) == n \in 1..draft[t].began

\* A report has whatever is old and still stands among what it has read.
ReportStands(t) ==
    LET d == draft[t]
        l == Mine(t)
    IN  /\ pc[t] = "overlay" =>
              \A k \in Keys : LET n == Ambient(d.kind)[d.client][k]
                              IN  Old(n, t) => d.entries[k] = n
        /\ pc[t] \in Reading \ {"overlay"} =>
              \A k \in Keys : /\ LET n == Ambient(d.kind)[l][k]
                                 IN  Old(n, t) => d.entries[k] = n
                              /\ Old(Ambient(d.kind)[d.client][k], t) => d.entries[k] # 0
        /\ pc[t] = "baseId" /\ Scoped(t) => ~Old(requestId[l], t)
        /\ pc[t] \in {"trail", "reported"} =>
              /\ Old(requestId[l], t) => d.id = requestId[l]
              /\ Old(requestId[d.client], t) => d.id # 0
        /\ pc[t] = "reported" /\ d.kind = "notice" /\ d.client \in Recording =>
              \A n \in Range(crumbs[l]) : Old(n, t) => n \in Range(d.trail)

\* A clear has left nothing old in the stores it is done with.
ClearedStands(t) ==
    /\ pc[t] \in Clearing => \A k \in Keys : ~Old(context[Mine(t)][k], t)
    /\ pc[t] \in {"clearEvents", "clearId"} =>
          \A n \in Range(crumbs[Mine(t)]) : ~Old(n, t)
    /\ pc[t] = "clearId" => \A k \in Keys : ~Old(eventContext[Mine(t)][k], t)

\* The seed of a nested scope has what is old and still stands.
SeedStands(t) ==
    LET p == Head(current[t])
    IN  /\ pc[t] \in Seeding =>
              \A k \in Keys : Old(context[p][k], t) => draft[t].entries[k] = context[p][k]
        /\ pc[t] = "seedId" =>
              \A k \in Keys : Old(eventContext[p][k], t) => draft[t].events[k] = eventContext[p][k]

TaskOK(t) ==
    /\ Placed(t)
    /\ DraftOwn(t)
    /\ ReportStands(t)
    /\ ClearedStands(t)
    /\ SeedStands(t)

IInv ==
    /\ StoreShape /\ ScopeShape /\ TaskShape
    /\ \A l \in Layers : StoreOwn(l)
    /\ \A t \in Tasks : TaskOK(t)

-----------------------------------------------------------------------------
(* What a step does to the stores, the log and the scopes.                 *)

Untouched == UNCHANGED <<stores, log>>
ScopesKept == UNCHANGED <<made, kin, born>>

\* n is the value that the step writes, and it is recorded against l.
Written(n, l) == n = Len(log) + 1 /\ n \in 1..Len(log') /\ log'[n].layer = l

\* An entry stays, goes or is written anew.
Moved(new, old, l) == new = old \/ new = 0 \/ Written(new, l)

LayerMoves(l) ==
    /\ \A k \in Keys : /\ Moved(context'[l][k], context[l][k], l)
                       /\ Moved(eventContext'[l][k], eventContext[l][k], l)
    /\ Moved(requestId'[l], requestId[l], l)
    /\ \A n \in Range(crumbs'[l]) : n \in Range(crumbs[l]) \/ Written(n, l)

LogGrows ==
    /\ log' \in Seq(Writes) /\ Len(log') \in Nat
    /\ Len(log) <= Len(log') /\ Len(log') <= MaxWrites
    /\ \A i \in 1..Len(log) : i \in 1..Len(log') /\ log'[i] = log[i]

\* 0 is no value, and what a write is recorded against is a layer.
LEMMA Basics ==
    /\ 0 \notin Stamps /\ Stamps \subseteq Nat
    /\ Nothing \in Entries /\ Blank \in Drafts
    /\ \A c \in Clients : c \in Layers /\ c \notin Overlays
    /\ \A o \in Overlays : o \in Layers
<1>1. 0 \notin Stamps /\ Stamps \subseteq Nat
  BY BoundsAssumption DEF Stamps
<1>2. Nothing \in Entries
  BY DEF Nothing, Entries
<1>3. <<>> \in Seq(Stamps)
  BY EmptySeq
<1>4. Blank \in Drafts
  BY <1>2, <1>3 DEF Blank, Drafts, Kinds
<1> QED BY <1>1, <1>2, <1>4, LayersAssumption DEF Layers

\* The scope a task is in is a layer that has been made.
LEMMA HomeShape ==
    ASSUME ScopeShape, NEW t \in Tasks
    PROVE  /\ Scoped(t) => Head(current[t]) \in 1..made /\ Head(current[t]) \in Overlays
           /\ \A c \in Clients : /\ Home(t, c) \in Layers
                                 /\ Home(t, c) \in Clients \cup (1..made)
                                 /\ Layer(t, c) = Home(t, c)
<1>1. current[t] \in Seq(1..made) /\ made \in 0..MaxScopes /\ MaxScopes \in Nat
  BY BoundsAssumption DEF ScopeShape
<1>2. Scoped(t) => Head(current[t]) \in 1..made
  BY <1>1, HeadTailProperties DEF Scoped
<1>3. 1..made \subseteq Overlays
  BY <1>1 DEF Overlays
<1> QED BY <1>2, <1>3, Basics DEF Home, Layer, Layers

\* A value that is written is the next one, and the log records it.
LEMMA StampGrows ==
    ASSUME StoreShape, NEW l \in Layers, NEW kind \in {"value", "crumb"}, Stamp(l, kind)
    PROVE  LogGrows /\ Written(Now + 1, l) /\ Now + 1 \in Stamps
<1> DEFINE w == [layer |-> l, kind |-> kind]
<1>1. w \in Writes /\ w.layer = l
  BY DEF Writes
<1>2. log \in Seq(Writes) /\ Len(log) \in Nat /\ Len(log) < MaxWrites /\ log' = Append(log, w)
  BY LenProperties DEF StoreShape, Stamp, Now
<1> HIDE DEF w
<1>3. /\ log' \in Seq(Writes) /\ Len(log') = Len(log) + 1
      /\ \A i \in 1..Len(log) : log'[i] = log[i]
      /\ log'[Len(log) + 1] = w
  BY <1>1, <1>2, AppendProperties
<1> QED BY <1>1, <1>2, <1>3, BoundsAssumption DEF LogGrows, Written, Now, Stamps

\* Nothing is written.
LEMMA StillGrows ==
    ASSUME StoreShape, log' = log
    PROVE  LogGrows
BY LenProperties DEF StoreShape, LogGrows

\* A call that sets some keys and removes others.
LEMMA ChangedMoves ==
    ASSUME StoreShape, NEW l \in Layers, NEW entries \in Entries,
           NEW set \in SUBSET Keys, NEW removed \in SUBSET Keys, StampIf(set, l)
    PROVE  /\ LogGrows
           /\ Changed(entries, set, removed, Now + 1) \in Entries
           /\ \A k \in Keys :
                 Moved(Changed(entries, set, removed, Now + 1)[k], entries[k], l)
<1>1. CASE set = {}
  <2>1. LogGrows
    BY <1>1, StillGrows DEF StampIf
  <2> QED BY <1>1, <2>1 DEF Changed, Entries, Moved
<1>2. CASE set # {}
  <2>1. LogGrows /\ Written(Now + 1, l) /\ Now + 1 \in Stamps
    BY <1>2, StampGrows DEF StampIf
  <2> QED BY <2>1 DEF Changed, Entries, Moved
<1> QED BY <1>1, <1>2

\* A trail keeps its newest breadcrumbs and gains one.
LEMMA PushedMoves ==
    ASSUME NEW trail \in Trails, NEW n \in Stamps
    PROVE  /\ Pushed(trail, n) \in Trails
           /\ \A m \in Range(Pushed(trail, n)) : m \in Range(trail) \/ m = n
<1>1. ASSUME NEW s \in Seq(Stamps)
      PROVE  /\ Append(s, n) \in Seq(Stamps) /\ Len(Append(s, n)) = Len(s) + 1
             /\ \A m \in Range(Append(s, n)) : m \in Range(s) \/ m = n
  <2>1. /\ DOMAIN s = 1..Len(s) /\ Len(s) \in Nat /\ Append(s, n) \in Seq(Stamps)
        /\ Len(Append(s, n)) = Len(s) + 1
        /\ DOMAIN Append(s, n) = 1..(Len(s) + 1)
        /\ \A i \in 1..Len(s) : Append(s, n)[i] = s[i]
        /\ Append(s, n)[Len(s) + 1] = n
    BY LenProperties, AppendProperties
  <2>2. \A i \in 1..(Len(s) + 1) : i \in 1..Len(s) \/ i = Len(s) + 1
    BY <2>1
  <2> QED BY <2>1, <2>2 DEF Range
<1>2. trail \in Seq(Stamps) /\ Len(trail) \in Nat /\ Len(trail) <= Capacity /\ Capacity \in Nat
  BY CapacityAssumption, LenProperties DEF Trails
<1>3. CASE Len(trail) = Capacity
  <2>1. trail # <<>>
    BY <1>2, <1>3, CapacityAssumption, EmptySeq
  <2>2. /\ Tail(trail) \in Seq(Stamps) /\ Len(trail) \in Nat /\ Len(Tail(trail)) = Len(trail) - 1
        /\ DOMAIN trail = 1..Len(trail) /\ DOMAIN Tail(trail) = 1..(Len(trail) - 1)
        /\ \A i \in 1..(Len(trail) - 1) : Tail(trail)[i] = trail[i + 1]
    BY <1>2, <2>1, LenProperties, HeadTailProperties
  <2>3. \A i \in 1..(Len(trail) - 1) : i + 1 \in 1..Len(trail)
    BY <2>2
  <2>4. \A m \in Range(Tail(trail)) : m \in Range(trail)
    BY <2>2, <2>3 DEF Range
  <2>5. Pushed(trail, n) = Append(Tail(trail), n)
    BY <1>3 DEF Pushed
  <2>6. Len(Tail(trail)) + 1 <= Capacity
    BY <1>2, <1>3, <2>2
  <2> QED BY <1>1, <2>2, <2>4, <2>5, <2>6 DEF Trails
<1>4. CASE Len(trail) # Capacity
  BY <1>1, <1>2, <1>4 DEF Pushed, Trails
<1> QED BY <1>3, <1>4

-----------------------------------------------------------------------------
(* What a layer's moves leave of what is known of it.                      *)

\* A layer moves, and stays nested where it was.
LayerFollows(l) ==
    /\ LayerMoves(l)
    /\ l \in Overlays => kin'[l] = kin[l] /\ born'[l] = born[l]

\* OwnedBy, in the next state.
OwnedSoon(n, l) ==
    n # 0 => /\ n \in 1..Len(log')
             /\ \/ log'[n].layer = l
                \/ l \in Overlays /\ log'[n].layer \in kin'[l] /\ n <= born'[l]

\* What t has to look at of layer l is what was there before.
OldStays(t, l) ==
    /\ \A k \in Keys : /\ Old(context'[l][k], t) => context'[l][k] = context[l][k]
                       /\ Old(eventContext'[l][k], t) =>
                             eventContext'[l][k] = eventContext[l][k]
    /\ Old(requestId'[l], t) => requestId'[l] = requestId[l]
    /\ \A n \in Range(crumbs'[l]) : Old(n, t) => n \in Range(crumbs[l])

\* A value goes on belonging to a layer that follows.
LEMMA OwnedKept ==
    ASSUME StoreShape, LogGrows, NEW l, LayerFollows(l)
    PROVE  \A n : OwnedBy(n, l) => OwnedSoon(n, l)
BY DEF LogGrows, LayerFollows, OwnedBy, OwnedSoon, Belongs

\* What a layer holds goes on being its own.
LEMMA StoreOwnKept ==
    ASSUME StoreShape, LogGrows, NEW l, LayerFollows(l), StoreOwn(l)
    PROVE  StoreOwn(l)'
<1>1. ASSUME NEW new, NEW old, Moved(new, old, l), OwnedBy(old, l)
      PROVE  OwnedSoon(new, l)
  <2>1. OwnedSoon(old, l)
    BY <1>1, OwnedKept
  <2> QED BY <1>1, <2>1 DEF Moved, Written, OwnedSoon
<1>2. \A k \in Keys : OwnedSoon(context'[l][k], l) /\ OwnedSoon(eventContext'[l][k], l)
  BY <1>1 DEF StoreOwn, LayerFollows, LayerMoves
<1>3. OwnedSoon(requestId'[l], l)
  BY <1>1 DEF StoreOwn, LayerFollows, LayerMoves
<1>4. \A n \in Range(crumbs'[l]) : n \in 1..Len(log') /\ log'[n].layer = l
  BY DEF StoreOwn, LayerFollows, LayerMoves, Written, LogGrows
<1> QED BY <1>2, <1>3, <1>4 DEF StoreOwn, OwnedBy, OwnedSoon, Belongs

\* A value that is old was not written just now.
LEMMA OldKept ==
    ASSUME StoreShape, TaskShape, NEW t \in Tasks, Placed(t), NEW l, LayerMoves(l)
    PROVE  OldStays(t, l)
<1>1. draft[t].began \in Nat /\ draft[t].began <= Len(log) /\ Len(log) \in Nat
  BY LenProperties DEF StoreShape, TaskShape, Drafts, Placed
<1>2. ASSUME NEW new, NEW old, Moved(new, old, l), Old(new, t)
      PROVE  new = old
  BY <1>1, <1>2 DEF Moved, Written, Old
<1>3. \A n : Written(n, l) => ~Old(n, t)
  BY <1>1 DEF Written, Old
<1> QED BY <1>2, <1>3 DEF OldStays, LayerMoves

\* The layers there are.
Known == Clients \cup (1..made)

\* Each of them has stores.
LEMMA KnownLayers == ScopeShape => Known \subseteq Layers /\ 1..made \subseteq Overlays
BY BoundsAssumption DEF ScopeShape, Overlays, Known, Layers

\* The layer a task works on is one of them.
LEMMA MineKnown ==
    ASSUME ScopeShape, NEW t \in Tasks
    PROVE  /\ Known \subseteq Layers
           /\ draft[t].client \in Clients => Mine(t) \in Known /\ draft[t].client \in Known
           /\ Scoped(t) => Head(current[t]) \in Known
BY KnownLayers, HomeShape DEF Mine, Known

\* A task in the middle of something goes on knowing what it knew, whatever
\* another does to the stores.
LEMMA StillTask ==
    ASSUME StoreShape, ScopeShape, TaskShape, NEW t \in Tasks, TaskOK(t),
           LogGrows, \A l \in Known : LayerFollows(l),
           pc'[t] = pc[t], draft'[t] = draft[t],
           pc[t] # "idle" => current'[t] = current[t]
    PROVE  TaskOK(t)'
<1> DEFINE d == draft[t]
           m == Mine(t)
           p == Head(current[t])
<1>1. Placed(t) /\ Placed(t)'
  BY LenProperties
  DEF TaskOK, Placed, Scoped, LogGrows, Places, Reading, Seeding, StoreShape,
     TaskShape, Drafts
<1>2. \A l \in Known : LayerFollows(l) /\ LayerMoves(l) /\ OldStays(t, l)
  BY <1>1, OldKept DEF LayerFollows
<1>3. \A l \in Known : \A n : OwnedBy(n, l) => OwnedSoon(n, l)
  BY OwnedKept
<1>4. d.client \in Clients => m \in Known /\ d.client \in Known
  BY MineKnown
<1>5. Scoped(t) => p \in Known
  BY MineKnown
<1>6. pc[t] # "idle" => Mine(t)' = m /\ Head(current[t])' = p
  BY DEF Mine, Home, Scoped
<1>7. DraftOwn(t)'
  <2>1. CASE pc[t] \in Reading
    <3>1. d.client \in Clients /\ pc[t] # "idle" /\ pc[t] \notin Seeding
      BY <1>1, <2>1 DEF Placed, Reading, Seeding
    <3>2. \A k \in Keys : OwnedSoon(d.entries[k], m) \/ OwnedSoon(d.entries[k], d.client)
      BY <2>1, <3>1, <1>3, <1>4 DEF TaskOK, DraftOwn
    <3>3. OwnedSoon(d.id, m) \/ OwnedSoon(d.id, d.client)
      BY <2>1, <3>1, <1>3, <1>4 DEF TaskOK, DraftOwn
    <3>4. \A n \in Range(d.trail) : n \in 1..Len(log') /\ log'[n].layer = m
      BY <2>1, <3>1 DEF TaskOK, DraftOwn, LogGrows
    <3> QED
      BY <3>1, <3>2, <3>3, <3>4, <1>6
      DEF DraftOwn, OwnedBy, Belongs, OwnedSoon, Seeding
  <2>2. CASE pc[t] \in Seeding
    <3>1. Scoped(t) /\ pc[t] # "idle" /\ pc[t] \notin Reading
      BY <1>1, <2>2 DEF Placed, Reading, Seeding
    <3>2. \A k \in Keys : OwnedSoon(d.entries[k], p)
      BY <2>2, <3>1, <1>3, <1>5 DEF TaskOK, DraftOwn
    <3>3. pc[t] = "seedId" => \A k \in Keys : OwnedSoon(d.events[k], p)
      BY <2>2, <3>1, <1>3, <1>5 DEF TaskOK, DraftOwn
    <3> QED BY <3>1, <3>2, <3>3, <1>6 DEF DraftOwn, OwnedBy, Belongs, OwnedSoon
  <2>3. CASE pc[t] \notin Reading \cup Seeding
    BY <2>3 DEF DraftOwn, Seeding
  <2> QED BY <2>1, <2>2, <2>3
<1>8. ReportStands(t)'
  <2>1. CASE pc[t] \in Reading
    <3>1. d.client \in Clients /\ d.kind \in Kinds /\ pc[t] # "idle" /\ ReportStands(t)
      BY <1>1, <2>1 DEF TaskOK, Placed, Reading
    <3>2. OldStays(t, m) /\ OldStays(t, d.client) /\ Mine(t)' = m
      BY <3>1, <1>2, <1>4, <1>6
    <3>3. Scoped(t)' = Scoped(t)
      BY <3>1 DEF Scoped
    <3> QED BY <3>1, <3>2, <3>3 DEF ReportStands, OldStays, Old, Ambient
  <2>2. CASE pc[t] \notin Reading
    BY <2>2 DEF ReportStands, Reading
  <2> QED BY <2>1, <2>2
<1>9. ClearedStands(t)'
  <2>1. CASE pc[t] \in Clearing
    <3>1. d.client \in Clients /\ pc[t] # "idle" /\ ClearedStands(t)
      BY <1>1, <2>1 DEF TaskOK, Placed, Clearing
    <3>2. OldStays(t, m) /\ Mine(t)' = m
      BY <3>1, <1>2, <1>4, <1>6
    <3> QED BY <3>1, <3>2 DEF ClearedStands, OldStays, Old
  <2>2. CASE pc[t] \notin Clearing
    BY <2>2 DEF ClearedStands, Clearing
  <2> QED BY <2>1, <2>2
<1>10. SeedStands(t)'
  <2>1. CASE pc[t] \in Seeding
    <3>1. Scoped(t) /\ pc[t] # "idle" /\ SeedStands(t)
      BY <1>1, <2>1 DEF TaskOK, Placed, Seeding
    <3>2. OldStays(t, p) /\ Head(current[t])' = p
      BY <3>1, <1>2, <1>5, <1>6
    <3> QED BY <3>1, <3>2 DEF SeedStands, OldStays, Old
  <2>2. CASE pc[t] \notin Seeding
    BY <2>2 DEF SeedStands, Seeding
  <2> QED BY <2>1, <2>2
<1> QED BY <1>1, <1>7, <1>8, <1>9, <1>10 DEF TaskOK

-----------------------------------------------------------------------------
(* The steps that write a store.                                           *)

\* Every layer follows, and the stores keep their shape.
StoresFollow == StoreShape' /\ LogGrows /\ \A l \in Layers : LayerFollows(l)

\* One entry of one store is written.
LEMMA ContextStep ==
    ASSUME StoreShape, ScopeShape, NEW t \in Tasks, NEW c \in Clients,
           NEW set \in SUBSET Keys, NEW removed \in SUBSET Keys, Context(t, c, set, removed)
    PROVE  StoresFollow
<1> DEFINE l == Home(t, c)
           new == Changed(context[l], set, removed, Now + 1)
<1>1. l \in Layers /\ Layer(t, c) = l
  BY HomeShape
<1>2. /\ StampIf(set, l) /\ context' = [context EXCEPT ![l] = new]
      /\ UNCHANGED <<eventContext, crumbs, requestId, kin, born>>
  BY <1>1 DEF Context, Rest, scopes
<1>3. context[l] \in Entries
  BY <1>1 DEF StoreShape
<1>4. LogGrows /\ new \in Entries /\ \A k \in Keys : Moved(new[k], context[l][k], l)
  BY <1>1, <1>2, <1>3, ChangedMoves
<1> HIDE DEF l, new
<1>5. StoreShape'
  BY <1>1, <1>2, <1>4 DEF StoreShape, LogGrows
<1>6. \A m \in Layers : context'[m] = IF m = l THEN new ELSE context[m]
  BY <1>2 DEF StoreShape
<1>7. \A m \in Layers : LayerFollows(m)
  BY <1>2, <1>4, <1>6 DEF LayerFollows, LayerMoves, Moved
<1> QED BY <1>4, <1>5, <1>7 DEF StoresFollow

\* One entry of one store is written.
LEMMA EventContextStep ==
    ASSUME StoreShape, ScopeShape, NEW t \in Tasks, NEW c \in Clients,
           NEW set \in SUBSET Keys, NEW removed \in SUBSET Keys, EventContext(t, c, set, removed)
    PROVE  StoresFollow
<1> DEFINE l == Home(t, c)
           new == Changed(eventContext[l], set, removed, Now + 1)
<1>1. l \in Layers /\ Layer(t, c) = l
  BY HomeShape
<1>2. /\ StampIf(set, l) /\ eventContext' = [eventContext EXCEPT ![l] = new]
      /\ UNCHANGED <<context, crumbs, requestId, kin, born>>
  BY <1>1 DEF EventContext, Rest, scopes
<1>3. eventContext[l] \in Entries
  BY <1>1 DEF StoreShape
<1>4. LogGrows /\ new \in Entries /\ \A k \in Keys : Moved(new[k], eventContext[l][k], l)
  BY <1>1, <1>2, <1>3, ChangedMoves
<1> HIDE DEF l, new
<1>5. StoreShape'
  BY <1>1, <1>2, <1>4 DEF StoreShape, LogGrows
<1>6. \A m \in Layers : eventContext'[m] = IF m = l THEN new ELSE eventContext[m]
  BY <1>2 DEF StoreShape
<1>7. \A m \in Layers : LayerFollows(m)
  BY <1>2, <1>4, <1>6 DEF LayerFollows, LayerMoves, Moved
<1> QED BY <1>4, <1>5, <1>7 DEF StoresFollow

\* One breadcrumb is added, and may push the oldest out.
LEMMA BreadcrumbStep ==
    ASSUME StoreShape, ScopeShape, NEW t \in Tasks, NEW c \in Clients, AddBreadcrumb(t, c)
    PROVE  StoresFollow
<1> DEFINE l == Home(t, c)
           new == Pushed(crumbs[l], Now + 1)
<1>1. l \in Layers /\ Layer(t, c) = l
  BY HomeShape
<1>2. /\ Stamp(l, "crumb") /\ crumbs' = [crumbs EXCEPT ![l] = new]
      /\ UNCHANGED <<context, eventContext, requestId, kin, born>>
  BY <1>1 DEF AddBreadcrumb, Rest, scopes
<1>3. LogGrows /\ Written(Now + 1, l) /\ Now + 1 \in Stamps
  BY <1>1, <1>2, StampGrows
<1>4. crumbs[l] \in Trails
  BY <1>1 DEF StoreShape
<1>5. new \in Trails /\ \A n \in Range(new) : n \in Range(crumbs[l]) \/ n = Now + 1
  BY <1>3, <1>4, PushedMoves
<1>6. \A n \in Range(new) : n \in Range(crumbs[l]) \/ Written(n, l)
  BY <1>3, <1>5
<1> HIDE DEF l, new
<1>7. StoreShape'
  BY <1>1, <1>2, <1>3, <1>5 DEF StoreShape, LogGrows
<1>8. \A m \in Layers : crumbs'[m] = IF m = l THEN new ELSE crumbs[m]
  BY <1>2 DEF StoreShape
<1>9. \A m \in Layers : LayerFollows(m)
  BY <1>2, <1>6, <1>8 DEF LayerFollows, LayerMoves, Moved
<1> QED BY <1>3, <1>7, <1>9 DEF StoresFollow

\* The request id is set.
LEMMA RequestIdStep ==
    ASSUME StoreShape, ScopeShape, NEW t \in Tasks, NEW c \in Clients, RequestId(t, c)
    PROVE  StoresFollow
<1> DEFINE l == Home(t, c)
<1>1. l \in Layers /\ Layer(t, c) = l
  BY HomeShape
<1>2. /\ Stamp(l, "value") /\ requestId' = [requestId EXCEPT ![l] = Now + 1]
      /\ UNCHANGED <<context, eventContext, crumbs, kin, born>>
  BY <1>1 DEF RequestId, Rest, scopes
<1>3. LogGrows /\ Written(Now + 1, l) /\ Now + 1 \in Stamps
  BY <1>1, <1>2, StampGrows
<1> HIDE DEF l
<1>4. StoreShape'
  BY <1>1, <1>2, <1>3 DEF StoreShape, LogGrows
<1>5. \A m \in Layers : requestId'[m] = IF m = l THEN Now + 1 ELSE requestId[m]
  BY <1>2 DEF StoreShape
<1>6. \A m \in Layers : LayerFollows(m)
  BY <1>2, <1>3, <1>5 DEF LayerFollows, LayerMoves, Moved
<1> QED BY <1>3, <1>4, <1>6 DEF StoresFollow

\* One store of one layer is emptied, as by the parts of clear_context.
Emptied(l) ==
    /\ UNCHANGED <<log, kin, born>>
    /\ \/ /\ context' = [context EXCEPT ![l] = Nothing]
          /\ UNCHANGED <<eventContext, crumbs, requestId>>
       \/ /\ eventContext' = [eventContext EXCEPT ![l] = Nothing]
          /\ UNCHANGED <<context, crumbs, requestId>>
       \/ /\ crumbs' = [crumbs EXCEPT ![l] = <<>>]
          /\ UNCHANGED <<context, eventContext, requestId>>
       \/ /\ requestId' = [requestId EXCEPT ![l] = 0]
          /\ UNCHANGED <<context, eventContext, crumbs>>

\* A store that is emptied follows.
LEMMA EmptiedFollows ==
    ASSUME StoreShape, NEW l \in Layers, Emptied(l)
    PROVE  StoresFollow
<1>1. LogGrows
  BY StillGrows DEF Emptied
<1>2. <<>> \in Trails /\ Range(<<>>) = {}
  BY EmptySeq, CapacityAssumption DEF Range, Trails
<1>3. StoreShape'
  BY <1>2, Basics DEF Emptied, StoreShape
<1>4. \A k \in Keys : Nothing[k] = 0
  BY DEF Nothing
<1>5. \A m \in Layers : LayerFollows(m)
  <2> SUFFICES ASSUME NEW m \in Layers PROVE LayerFollows(m)
    OBVIOUS
  <2>1. /\ context'[m] = context[m] \/ context'[m] = Nothing
        /\ eventContext'[m] = eventContext[m] \/ eventContext'[m] = Nothing
        /\ crumbs'[m] = crumbs[m] \/ crumbs'[m] = <<>>
        /\ requestId'[m] = requestId[m] \/ requestId'[m] = 0
    BY DEF Emptied, StoreShape
  <2> QED BY <1>2, <1>4, <2>1 DEF LayerFollows, LayerMoves, Moved, Emptied
<1> QED BY <1>1, <1>3, <1>5 DEF StoresFollow

\* Nothing happens to the stores.
LEMMA UntouchedFollows ==
    ASSUME StoreShape, Untouched, UNCHANGED <<kin, born>>
    PROVE  StoresFollow
<1>1. LogGrows
  BY StillGrows DEF Untouched
<1>2. StoreShape'
  BY DEF Untouched, stores, StoreShape
<1> QED BY <1>1, <1>2 DEF StoresFollow, LayerFollows, LayerMoves, Moved, Untouched, stores

-----------------------------------------------------------------------------
(* The steps that change scopes.                                           *)

\* A stack of scopes is one of those there are when more are made.
LEMMA StackGrows ==
    ASSUME NEW m \in Nat, NEW n \in Nat, m <= n, NEW s \in Seq(1..m)
    PROVE  s \in Seq(1..n)
<1>1. 1..m \subseteq 1..n
  OBVIOUS
<1> QED BY <1>1, SeqMonotonic

\* A scope is pushed on a stack, or the innermost one is left.
LEMMA StackMoves ==
    ASSUME NEW m \in Nat, NEW s \in Seq(1..m)
    PROVE  /\ \A o \in 1..m : <<o>> \o s \in Seq(1..m) /\ <<o>> \in Seq(1..m)
                                  /\ Head(<<o>> \o s) = o
           /\ s # <<>> => Tail(s) \in Seq(1..m)
<1>1. ASSUME NEW o \in 1..m
      PROVE  <<o>> \in Seq(1..m) /\ <<o>> \o s \in Seq(1..m) /\ Head(<<o>> \o s) = o
  <2>1. <<o>> \in Seq(1..m) /\ Len(<<o>>) = 1 /\ <<o>>[1] = o
    OBVIOUS
  <2>2. <<o>> \o s \in Seq(1..m) /\ (<<o>> \o s)[1] = o /\ Len(<<o>> \o s) = 1 + Len(s)
    BY <2>1, ConcatProperties, LenProperties
  <2>3. <<o>> \o s # <<>>
    BY <2>2, LenProperties, EmptySeq
  <2> QED BY <2>1, <2>2, <2>3, HeadTailProperties
<1>2. s # <<>> => Tail(s) \in Seq(1..m)
  BY HeadTailProperties
<1> QED BY <1>1, <1>2

\* A stack is replaced by one of scopes that there are.
LEMMA StackSet ==
    ASSUME ScopeShape, NEW t \in Tasks, NEW m \in 0..MaxScopes, made <= m, made' = m,
           NEW s \in Seq(1..m), current' = [current EXCEPT ![t] = s],
           handles' \subseteq 1..m,
           kin' \in [Overlays -> SUBSET Layers], born' \in [Overlays -> Nat]
    PROVE  ScopeShape' /\ current'[t] = s /\ \A u \in Tasks \ {t} : current'[u] = current[u]
<1>1. made \in Nat /\ m \in Nat
  BY BoundsAssumption DEF ScopeShape
<1>2. \A u \in Tasks : current[u] \in Seq(1..m)
  BY <1>1, StackGrows DEF ScopeShape
<1>3. current' \in [Tasks -> Seq(1..m)]
  BY <1>2 DEF ScopeShape
<1> QED BY <1>3 DEF ScopeShape

\* Scopes are entered and left, and handles captured, by a task that is not in
\* the middle of anything, and no store is touched.
ScopesMove(t) ==
    /\ Untouched /\ UNCHANGED <<kin, born, pc, draft>>
    /\ pc[t] = "idle"
    /\ ScopeShape'
    /\ \A u \in Tasks \ {t} : current'[u] = current[u]

\* The calls that do no more than that.
LEMMA ScopeSteps ==
    ASSUME ScopeShape, NEW t \in Tasks,
           \/ EnterFresh(t) \/ Capture(t) \/ CaptureDetached(t)
           \/ \E o \in Overlays : Enter(t, o)
           \/ Exit(t)
    PROVE  ScopesMove(t)
<1>1. /\ made \in 0..MaxScopes /\ made \in Nat /\ MaxScopes \in Nat
      /\ current[t] \in Seq(1..made) /\ handles \subseteq 1..made
      /\ kin \in [Overlays -> SUBSET Layers] /\ born \in [Overlays -> Nat]
  BY BoundsAssumption DEF ScopeShape
<1>2. CASE EnterFresh(t)
  <2>1. /\ made' = made + 1 /\ made + 1 \in 0..MaxScopes
        /\ current' = [current EXCEPT ![t] = <<made + 1>>]
        /\ UNCHANGED <<stores, handles, kin, born, pc, draft, log>> /\ pc[t] = "idle"
    BY <1>1, <1>2 DEF EnterFresh
  <2>2. <<made + 1>> \in Seq(1..(made + 1))
    BY <1>1, StackMoves
  <2>3. /\ handles' \subseteq 1..(made + 1) /\ made <= made + 1
        /\ kin' \in [Overlays -> SUBSET Layers] /\ born' \in [Overlays -> Nat]
    BY <1>1, <2>1
  <2>4. ScopeShape' /\ \A u \in Tasks \ {t} : current'[u] = current[u]
    BY <1>1, <2>1, <2>2, <2>3, StackSet
  <2> QED BY <2>1, <2>4 DEF ScopesMove, Untouched
<1>3. CASE Capture(t)
  <2>1. Head(current[t]) \in 1..made
    BY <1>3, HomeShape DEF Capture
  <2> QED BY <1>1, <1>3, <2>1 DEF Capture, ScopesMove, Untouched, ScopeShape
<1>4. CASE CaptureDetached(t)
  <2>1. /\ made' = made + 1 /\ made + 1 \in 0..MaxScopes
        /\ handles' = handles \cup {made + 1}
        /\ UNCHANGED <<stores, current, kin, born, pc, draft, log>> /\ pc[t] = "idle"
    BY <1>1, <1>4 DEF CaptureDetached
  <2>2. /\ handles \subseteq 1..(made + 1) /\ made + 1 \in 1..(made + 1)
        /\ made <= made + 1
        /\ kin' \in [Overlays -> SUBSET Layers] /\ born' \in [Overlays -> Nat]
    BY <1>1, <2>1
  <2>3. current' = [current EXCEPT ![t] = current[t]] /\ current[t] \in Seq(1..(made + 1))
    BY <1>1, <2>1, StackGrows DEF ScopeShape
  <2>4. handles' \subseteq 1..(made + 1)
    BY <2>1, <2>2
  <2>5. ScopeShape'
    BY <1>1, <2>1, <2>2, <2>3, <2>4, StackSet
  <2> QED BY <2>1, <2>5 DEF ScopesMove, Untouched
<1>5. ASSUME NEW o \in Overlays, Enter(t, o)
      PROVE  ScopesMove(t)
  <2>1. /\ o \in 1..made /\ current' = [current EXCEPT ![t] = <<o>> \o current[t]]
        /\ UNCHANGED <<stores, handles, made, kin, born, pc, draft, log>> /\ pc[t] = "idle"
    BY <1>1, <1>5 DEF Enter
  <2>2. <<o>> \o current[t] \in Seq(1..made)
    BY <1>1, <2>1, StackMoves
  <2>3. /\ handles' \subseteq 1..made /\ made <= made /\ made' = made
        /\ kin' \in [Overlays -> SUBSET Layers] /\ born' \in [Overlays -> Nat]
    BY <1>1, <2>1
  <2>4. ScopeShape' /\ \A u \in Tasks \ {t} : current'[u] = current[u]
    BY <1>1, <2>1, <2>2, <2>3, StackSet
  <2> QED BY <2>1, <2>4 DEF ScopesMove, Untouched
<1>6. CASE Exit(t)
  <2>1. /\ current[t] # <<>> /\ current' = [current EXCEPT ![t] = Tail(current[t])]
        /\ UNCHANGED <<stores, handles, made, kin, born, pc, draft, log>> /\ pc[t] = "idle"
    BY <1>6 DEF Exit, Scoped
  <2>2. Tail(current[t]) \in Seq(1..made)
    BY <1>1, <2>1, StackMoves
  <2>3. /\ handles' \subseteq 1..made /\ made <= made /\ made' = made
        /\ kin' \in [Overlays -> SUBSET Layers] /\ born' \in [Overlays -> Nat]
    BY <1>1, <2>1
  <2>4. ScopeShape' /\ \A u \in Tasks \ {t} : current'[u] = current[u]
    BY <1>1, <2>1, <2>2, <2>3, StackSet
  <2> QED BY <2>1, <2>4 DEF ScopesMove, Untouched
<1> QED BY <1>2, <1>3, <1>4, <1>5, <1>6

\* A nested scope is entered: one more layer, holding what was read of the
\* parent and its request id, and nested in the parent and what that is in.
NestedMade(t) ==
    LET o == made + 1
        p == Head(current[t])
    IN  /\ StoreShape' /\ ScopeShape' /\ LogGrows /\ log' = log
        /\ o \in Overlays /\ o \notin Known /\ p \in Known
        /\ context'[o] = draft[t].entries /\ eventContext'[o] = draft[t].events
        /\ requestId'[o] = requestId[p] /\ crumbs'[o] = <<>>
        /\ kin'[o] = kin[p] \cup {p} /\ born'[o] = Now
        /\ \A l \in Layers \ {o} : LayerFollows(l)
        /\ \A u \in Tasks \ {t} : current'[u] = current[u]

\* EnterNested makes it so.
LEMMA NestedStep ==
    ASSUME StoreShape, ScopeShape, TaskShape, NEW t \in Tasks, Placed(t), EnterNested(t)
    PROVE  NestedMade(t)
<1> DEFINE o == made + 1
           p == Head(current[t])
<1>1. /\ pc[t] = "seedId" /\ made < MaxScopes /\ made' = o
      /\ context' = [context EXCEPT ![o] = draft[t].entries]
      /\ eventContext' = [eventContext EXCEPT ![o] = draft[t].events]
      /\ crumbs' = [crumbs EXCEPT ![o] = <<>>]
      /\ requestId' = [requestId EXCEPT ![o] = requestId[p]]
      /\ current' = [current EXCEPT ![t] = <<o>> \o current[t]]
      /\ kin' = [kin EXCEPT ![o] = kin[p] \cup {p}]
      /\ born' = [born EXCEPT ![o] = Now]
      /\ UNCHANGED <<handles, log>>
  BY DEF EnterNested, Seeded, SeededTrail
<1>2. /\ made \in 0..MaxScopes /\ made \in Nat /\ MaxScopes \in Nat
      /\ current[t] \in Seq(1..made) /\ handles \subseteq 1..made
      /\ kin \in [Overlays -> SUBSET Layers] /\ born \in [Overlays -> Nat]
  BY BoundsAssumption DEF ScopeShape
<1>3. o \in Overlays /\ o \in Layers /\ o \notin 1..made /\ o \notin Clients
      /\ o \in 0..MaxScopes /\ o \in 1..o
  BY <1>1, <1>2, Basics DEF Overlays
<1>4. Scoped(t) /\ p \in 1..made /\ p \in Overlays /\ p \in Layers /\ p \in Known
  BY <1>1, HomeShape, Basics DEF Placed, Seeding, Known
<1>5. draft[t].entries \in Entries /\ draft[t].events \in Entries
  BY DEF TaskShape, Drafts
<1>6. <<>> \in Trails /\ LogGrows
  BY <1>1, EmptySeq, CapacityAssumption, StillGrows DEF Trails
<1>7. Now \in Nat
  BY LenProperties DEF StoreShape, Now
<1>8. StoreShape'
  BY <1>1, <1>3, <1>4, <1>5, <1>6 DEF StoreShape
<1>9. <<o>> \o current[t] \in Seq(1..o)
  BY <1>2, <1>3, StackMoves, StackGrows
<1>10. kin' \in [Overlays -> SUBSET Layers] /\ born' \in [Overlays -> Nat]
  BY <1>1, <1>2, <1>3, <1>4, <1>7
<1>11. handles' \subseteq 1..o
  BY <1>1, <1>2
<1> HIDE DEF o, p
<1>12. made <= o
  BY <1>2 DEF o
<1>13. ScopeShape' /\ \A u \in Tasks \ {t} : current'[u] = current[u]
  BY <1>1, <1>3, <1>9, <1>10, <1>11, <1>12, StackSet
<1>14. /\ context'[o] = draft[t].entries /\ eventContext'[o] = draft[t].events
       /\ requestId'[o] = requestId[p] /\ crumbs'[o] = <<>>
  BY <1>1, <1>3 DEF StoreShape
<1>15. kin'[o] = kin[p] \cup {p} /\ born'[o] = Now
  BY <1>1, <1>2, <1>3
<1>16. \A l \in Layers \ {o} : LayerFollows(l)
  BY <1>1, <1>2 DEF StoreShape, LayerFollows, LayerMoves, Moved
<1> QED
  BY <1>1, <1>3, <1>4, <1>6, <1>8, <1>13, <1>14, <1>15, <1>16
  DEF NestedMade, Known, o, p

-----------------------------------------------------------------------------
(* What a task that is in the middle of something knows after a step of    *)
(* its own.                                                                *)

\* The step is t's alone, and t goes on knowing what it should.
OwnStep(t) ==
    /\ TaskShape' /\ TaskOK(t)'
    /\ \A u \in Tasks \ {t} : pc'[u] = pc[u] /\ draft'[u] = draft[u]

\* A task takes a new draft to a new place.
LEMMA DraftSet ==
    ASSUME TaskShape, NEW t \in Tasks, NEW d \in Drafts, NEW place \in Places,
           draft' = [draft EXCEPT ![t] = d], At(t, place)
    PROVE  /\ TaskShape' /\ draft'[t] = d /\ pc'[t] = place
           /\ \A u \in Tasks \ {t} : pc'[u] = pc[u] /\ draft'[u] = draft[u]
BY DEF TaskShape, At

\* An idle task knows nothing.
LEMMA IdleKnows ==
    ASSUME StoreShape', NEW t \in Tasks, pc'[t] = "idle", draft'[t].began <= Len(log'),
           draft'[t].id = 0
    PROVE  TaskOK(t)'
BY DEF TaskOK, Placed, DraftOwn, ReportStands, ClearedStands, SeedStands, Reading,
       Clearing, Seeding

\* A report reads the client's entries.
LEMMA ReportStep ==
    ASSUME IInv, NEW t \in Tasks, NEW c \in Clients, NEW kind \in Kinds, Report(t, c, kind)
    PROVE  OwnStep(t)
<1> DEFINE d == [Blank EXCEPT !.kind = kind, !.client = c, !.began = Now,
                              !.entries = Ambient(kind)[c]]
           place == IF Scoped(t) THEN "overlay" ELSE "baseId"
<1>1. /\ draft' = [draft EXCEPT ![t] = d] /\ At(t, place)
      /\ UNCHANGED <<context, eventContext, crumbs, requestId, current, log, kin, born>>
  BY DEF Report, stores, scopes
<1>2. c \in Layers /\ Now \in Nat /\ StoreOwn(c)
  BY Basics, LenProperties DEF IInv, StoreShape, Now
<1>3. Ambient(kind)[c] \in Entries /\ place \in Places
  BY <1>2 DEF IInv, StoreShape, Ambient, Places, Reading
<1>4. /\ d \in Drafts
      /\ d.kind = kind /\ d.client = c /\ d.began = Now /\ d.entries = Ambient(kind)[c]
      /\ d.id = 0 /\ d.trail = <<>>
  BY <1>2, <1>3, Basics DEF Blank, Drafts
<1> HIDE DEF d
<1>5. /\ TaskShape' /\ draft'[t] = d /\ pc'[t] = place
      /\ \A u \in Tasks \ {t} : pc'[u] = pc[u] /\ draft'[u] = draft[u]
  BY <1>1, <1>3, <1>4, DraftSet, ZenonT(40) DEF IInv
<1>6. Scoped(t)' = Scoped(t) /\ Mine(t)' = Home(t, c)
  BY <1>1, <1>4, <1>5 DEF Scoped, Mine, Home
<1>7. Placed(t)'
  BY <1>1, <1>2, <1>4, <1>5, <1>6 DEF Placed, Reading, Seeding, Clearing, Now
<1>8. DraftOwn(t)'
  <2>1. \A k \in Keys : OwnedBy(d.entries[k], c)
    BY <1>2, <1>4 DEF StoreOwn, Ambient
  <2>2. Range(d.trail) = {} /\ OwnedBy(d.id, c)
    BY <1>4 DEF Range, OwnedBy
  <2> QED BY <1>1, <1>4, <1>5, <2>1, <2>2 DEF DraftOwn, OwnedBy, Belongs, Seeding
<1>9. ReportStands(t)'
  BY <1>1, <1>4, <1>5, <1>6 DEF ReportStands, Ambient, Old, Home
<1>10. ClearedStands(t)' /\ SeedStands(t)'
  BY <1>5 DEF ClearedStands, SeedStands, Clearing, Seeding
<1> QED BY <1>5, <1>7, <1>8, <1>9, <1>10 DEF OwnStep, TaskOK

\* It lays the overlay's over them.
LEMMA MergeStep ==
    ASSUME IInv, NEW t \in Tasks, MergeOverlay(t)
    PROVE  OwnStep(t)
<1> DEFINE l == Head(current[t])
           over == Ambient(draft[t].kind)[l]
           d == [draft[t] EXCEPT !.entries = Merged(draft[t].entries, over)]
<1>1. /\ pc[t] = "overlay"
      /\ draft' = [draft EXCEPT ![t] = d] /\ At(t, "id")
      /\ UNCHANGED <<context, eventContext, crumbs, requestId, current, log, kin, born>>
  BY DEF MergeOverlay, stores, scopes
<1>2. /\ draft[t] \in Drafts /\ draft[t].client \in Clients /\ draft[t].kind \in Kinds
      /\ Scoped(t) /\ TaskOK(t) /\ draft[t].trail = <<>> /\ draft[t].began <= Len(log)
  BY <1>1 DEF IInv, TaskShape, TaskOK, Placed, Reading
<1>3. l \in Layers /\ StoreOwn(l) /\ Mine(t) = l
  BY <1>2, HomeShape, Basics DEF IInv, Mine, Home
<1>4. over \in Entries /\ \A k \in Keys : OwnedBy(over[k], l)
  BY <1>3 DEF IInv, StoreShape, StoreOwn, Ambient
<1>5. Merged(draft[t].entries, over) \in Entries
  BY <1>2, <1>4 DEF Merged, Drafts, Entries
<1>6. /\ d \in Drafts
      /\ d.kind = draft[t].kind /\ d.client = draft[t].client /\ d.began = draft[t].began
      /\ d.entries = Merged(draft[t].entries, over)
      /\ d.id = draft[t].id /\ d.trail = <<>>
  BY <1>2, <1>5 DEF Drafts
<1> HIDE DEF d
<1>7. /\ TaskShape' /\ draft'[t] = d /\ pc'[t] = "id"
      /\ \A u \in Tasks \ {t} : pc'[u] = pc[u] /\ draft'[u] = draft[u]
  BY <1>1, <1>6, DraftSet DEF IInv, Places, Reading
<1>8. Scoped(t)' /\ Mine(t)' = l
  BY <1>1, <1>2, <1>6, <1>7 DEF Scoped, Mine, Home
<1>9. Placed(t)'
  BY <1>1, <1>2, <1>6, <1>7, <1>8 DEF Placed, Reading, Seeding, Clearing
<1>10. \A k \in Keys : d.entries[k] = IF over[k] # 0 THEN over[k] ELSE draft[t].entries[k]
  BY <1>6 DEF Merged
<1>11. DraftOwn(t)'
  <2>1. /\ \A k \in Keys : OwnedBy(draft[t].entries[k], l)
                              \/ OwnedBy(draft[t].entries[k], draft[t].client)
        /\ OwnedBy(draft[t].id, l) \/ OwnedBy(draft[t].id, draft[t].client)
    BY <1>1, <1>2, <1>3 DEF TaskOK, DraftOwn, Reading
  <2>2. \A k \in Keys : OwnedBy(d.entries[k], l) \/ OwnedBy(d.entries[k], draft[t].client)
    BY <1>4, <1>10, <2>1
  <2>3. Range(d.trail) = {}
    BY <1>6 DEF Range
  <2> QED
    BY <1>1, <1>6, <1>7, <1>8, <2>1, <2>2, <2>3
    DEF DraftOwn, OwnedBy, Belongs, Seeding
<1>12. ReportStands(t)'
  <2>1. \A k \in Keys : LET n == Ambient(draft[t].kind)[draft[t].client][k]
                        IN  Old(n, t) => draft[t].entries[k] = n
    BY <1>1, <1>2 DEF TaskOK, ReportStands
  <2> QED BY <1>1, <1>6, <1>7, <1>8, <1>10, <2>1 DEF ReportStands, Ambient, Old
<1>13. ClearedStands(t)' /\ SeedStands(t)'
  BY <1>7 DEF ClearedStands, SeedStands, Clearing, Seeding
<1> QED BY <1>7, <1>9, <1>11, <1>12, <1>13 DEF OwnStep, TaskOK

\* What a report that has read its entries knows: the rest of it is read with
\* the stores and the scope as they are.
LEMMA ReadingOn ==
    ASSUME IInv, NEW t \in Tasks, pc[t] \in Reading
    PROVE  /\ draft[t] \in Drafts /\ draft[t].client \in Clients /\ draft[t].kind \in Kinds
           /\ draft[t].began <= Len(log) /\ TaskOK(t)
           /\ Mine(t) \in Layers /\ draft[t].client \in Layers
           /\ StoreOwn(Mine(t)) /\ StoreOwn(draft[t].client)
           /\ Scoped(t) => Mine(t) = Head(current[t])
           /\ ~Scoped(t) => Mine(t) = draft[t].client
           /\ pc[t] \in {"overlay", "id"} => Scoped(t)
           /\ pc[t] # "reported" => draft[t].trail = <<>>
BY MineKnown DEF IInv, TaskShape, TaskOK, Placed, Mine, Home

\* The request id of the overlay, or that of the client, is read.
LEMMA IdStep ==
    ASSUME IInv, NEW t \in Tasks, ScopedId(t) \/ BaseId(t)
    PROVE  OwnStep(t)
<1> DEFINE l == Mine(t)
           c == draft[t].client
           id == IF pc[t] = "id" THEN requestId[l] ELSE requestId[c]
           d == [draft[t] EXCEPT !.id = id]
           place == IF pc[t] = "id" /\ id = 0 THEN "baseId" ELSE AfterId(t)
<1>1. pc[t] \in {"id", "baseId"} /\ pc[t] \in Reading
  BY DEF ScopedId, BaseId, Reading
<1>2. /\ draft[t] \in Drafts /\ c \in Clients /\ draft[t].kind \in Kinds
      /\ draft[t].began <= Len(log) /\ TaskOK(t)
      /\ l \in Layers /\ c \in Layers /\ StoreOwn(l) /\ StoreOwn(c)
      /\ Scoped(t) => l = Head(current[t])
      /\ ~Scoped(t) => l = c
      /\ pc[t] = "id" => Scoped(t)
      /\ draft[t].trail = <<>>
  BY <1>1, ReadingOn
<1>3. /\ draft' = [draft EXCEPT ![t] = d] /\ At(t, place)
      /\ UNCHANGED <<context, eventContext, crumbs, requestId, current, log, kin, born>>
  BY <1>2 DEF ScopedId, BaseId, stores, scopes
<1>4. id \in Stamps \cup {0} /\ (OwnedBy(id, l) \/ OwnedBy(id, c))
  BY <1>2 DEF IInv, StoreShape, StoreOwn
<1>5. place \in {"baseId", "trail", "reported"} /\ place \in Places
  BY <1>2 DEF AfterId, Places, Reading
<1>6. /\ d \in Drafts
      /\ d.kind = draft[t].kind /\ d.client = c /\ d.began = draft[t].began
      /\ d.entries = draft[t].entries /\ d.id = id /\ d.trail = <<>>
  BY <1>2, <1>4 DEF Drafts
<1>7. place = "reported" => d.kind # "notice"
  BY <1>6 DEF AfterId
<1>8. /\ place = "baseId" => pc[t] = "id" /\ id = 0
      /\ pc[t] = "id" /\ place # "baseId" => id # 0
  BY DEF AfterId
<1>9. /\ pc[t] = "id" => id = requestId[l]
      /\ pc[t] = "baseId" => id = requestId[c]
  OBVIOUS
<1> HIDE DEF d, id, place, l, c
<1>10. /\ TaskShape' /\ draft'[t] = d /\ pc'[t] = place
       /\ \A u \in Tasks \ {t} : pc'[u] = pc[u] /\ draft'[u] = draft[u]
  BY <1>3, <1>5, <1>6, DraftSet DEF IInv
<1>11. Scoped(t)' = Scoped(t) /\ Mine(t)' = l
  BY <1>3, <1>6, <1>10 DEF Scoped, Mine, Home, l, c
<1>12. Placed(t)'
  BY <1>2, <1>3, <1>5, <1>6, <1>10 DEF Placed, Reading, Seeding, Clearing
<1>13. DraftOwn(t)'
  <2>1. \A k \in Keys : OwnedBy(draft[t].entries[k], l) \/ OwnedBy(draft[t].entries[k], c)
    BY <1>1, <1>2 DEF TaskOK, DraftOwn, l, c
  <2>2. Range(d.trail) = {}
    BY <1>6 DEF Range
  <2> QED BY <1>3, <1>4, <1>5, <1>6, <1>10, <1>11, <2>1, <2>2, ZenonT(40)
        DEF DraftOwn, OwnedBy, Belongs, Seeding
<1>14. ReportStands(t)'
  <2>1. \A k \in Keys : /\ LET n == Ambient(draft[t].kind)[l][k]
                           IN  Old(n, t) => draft[t].entries[k] = n
                        /\ Old(Ambient(draft[t].kind)[c][k], t) => draft[t].entries[k] # 0
    BY <1>1, <1>2 DEF TaskOK, ReportStands, Reading, l, c
  <2>2. ~Old(0, t)
    BY DEF Old
  <2>3. pc[t] = "baseId" /\ Scoped(t) => ~Old(requestId[l], t)
    BY <1>2 DEF TaskOK, ReportStands, l
  <2>4. place = "baseId" => ~Old(requestId[l], t)
    BY <1>8, <1>9, <2>2
  <2>5. place # "baseId" => (Old(requestId[l], t) => id = requestId[l])
    BY <1>1, <1>2, <1>9, <2>3
  <2>6. place # "baseId" => (Old(requestId[c], t) => id # 0)
    BY <1>1, <1>8, <1>9, <2>2
  <2> QED BY <1>3, <1>5, <1>6, <1>7, <1>10, <1>11, <2>1, <2>4, <2>5, <2>6
        DEF ReportStands, Ambient, Old
<1>15. ClearedStands(t)' /\ SeedStands(t)'
  BY <1>5, <1>10 DEF ClearedStands, SeedStands, Clearing, Seeding
<1> QED BY <1>10, <1>12, <1>13, <1>14, <1>15 DEF OwnStep, TaskOK

\* The breadcrumbs are read.
LEMMA TrailStep ==
    ASSUME IInv, NEW t \in Tasks, ReadTrail(t)
    PROVE  OwnStep(t)
<1> DEFINE l == Mine(t)
           c == draft[t].client
           trail == IF c \in Recording THEN crumbs[l] ELSE <<>>
           d == [draft[t] EXCEPT !.trail = trail]
<1>1. pc[t] = "trail" /\ pc[t] \in Reading
  BY DEF ReadTrail, Reading
<1>2. /\ draft[t] \in Drafts /\ c \in Clients /\ draft[t].kind \in Kinds
      /\ draft[t].began <= Len(log) /\ TaskOK(t)
      /\ l \in Layers /\ StoreOwn(l)
  BY <1>1, ReadingOn
<1>3. Layer(t, c) = l
  BY <1>2, HomeShape DEF IInv, Mine
<1>4. /\ draft' = [draft EXCEPT ![t] = d] /\ At(t, "reported")
      /\ UNCHANGED <<context, eventContext, crumbs, requestId, current, log, kin, born>>
  BY <1>3 DEF ReadTrail, TrailOf, stores, scopes
<1>5. /\ trail \in Seq(Stamps)
      /\ \A n \in Range(trail) : n \in 1..Len(log) /\ log[n].layer = l
  <2>1. crumbs[l] \in Seq(Stamps) /\ <<>> \in Seq(Stamps) /\ Range(<<>>) = {}
    BY <1>2, EmptySeq DEF IInv, StoreShape, Trails, Range
  <2> QED BY <1>2, <2>1 DEF StoreOwn
<1>6. /\ d \in Drafts
      /\ d.kind = draft[t].kind /\ d.client = c /\ d.began = draft[t].began
      /\ d.entries = draft[t].entries /\ d.id = draft[t].id /\ d.trail = trail
  BY <1>2, <1>5 DEF Drafts
<1>7. c \in Recording => trail = crumbs[l]
  OBVIOUS
<1> HIDE DEF d, trail, l, c
<1>8. /\ TaskShape' /\ draft'[t] = d /\ pc'[t] = "reported"
      /\ \A u \in Tasks \ {t} : pc'[u] = pc[u] /\ draft'[u] = draft[u]
  BY <1>4, <1>6, DraftSet DEF IInv, Places, Reading
<1>9. Scoped(t)' = Scoped(t) /\ Mine(t)' = l
  BY <1>4, <1>6, <1>8 DEF Scoped, Mine, Home, l, c
<1>10. Placed(t)'
  BY <1>2, <1>4, <1>6, <1>8 DEF Placed, Reading, Seeding, Clearing
<1>11. DraftOwn(t)'
  <2>1. /\ \A k \in Keys : OwnedBy(draft[t].entries[k], l) \/ OwnedBy(draft[t].entries[k], c)
        /\ OwnedBy(draft[t].id, l) \/ OwnedBy(draft[t].id, c)
    BY <1>1, <1>2 DEF TaskOK, DraftOwn, l, c
  <2> QED
    BY <1>4, <1>5, <1>6, <1>8, <1>9, <2>1, SMTT(30)
    DEF DraftOwn, OwnedBy, Belongs, Seeding
<1>12. ReportStands(t)'
  <2>1. /\ \A k \in Keys : /\ LET n == Ambient(draft[t].kind)[l][k]
                              IN  Old(n, t) => draft[t].entries[k] = n
                           /\ Old(Ambient(draft[t].kind)[c][k], t) => draft[t].entries[k] # 0
        /\ Old(requestId[l], t) => draft[t].id = requestId[l]
        /\ Old(requestId[c], t) => draft[t].id # 0
    BY <1>1, <1>2 DEF TaskOK, ReportStands, Reading, l, c
  <2> QED BY <1>4, <1>6, <1>7, <1>8, <1>9, <2>1 DEF ReportStands, Ambient, Old
<1>13. ClearedStands(t)' /\ SeedStands(t)'
  BY <1>8 DEF ClearedStands, SeedStands, Clearing, Seeding
<1> QED BY <1>8, <1>10, <1>11, <1>12, <1>13 DEF OwnStep, TaskOK

\* A task is done, and is in the middle of nothing.
LEMMA DoneStep ==
    ASSUME IInv, NEW t \in Tasks, StoreShape', log' = log,
           draft' = [draft EXCEPT ![t] = Blank], At(t, "idle")
    PROVE  OwnStep(t)
<1>1. Blank \in Drafts /\ Blank.began = 0 /\ Blank.id = 0 /\ "idle" \in Places
  BY Basics DEF Blank, Places
<1>2. /\ TaskShape' /\ draft'[t] = Blank /\ pc'[t] = "idle"
      /\ \A u \in Tasks \ {t} : pc'[u] = pc[u] /\ draft'[u] = draft[u]
  BY <1>1, DraftSet DEF IInv
<1>3. 0 <= Len(log')
  BY LenProperties DEF IInv, StoreShape
<1> QED BY <1>1, <1>2, <1>3, IdleKnows DEF OwnStep

\* clear_context begins: the context is emptied.
LEMMA ClearBegins ==
    ASSUME IInv, NEW t \in Tasks, NEW c \in Clients, ClearContext(t, c)
    PROVE  StoresFollow /\ OwnStep(t)
<1> DEFINE l == Home(t, c)
           d == [Blank EXCEPT !.client = c, !.began = Now]
<1>1. l \in Layers /\ Layer(t, c) = l
  BY HomeShape DEF IInv
<1>2. /\ context' = [context EXCEPT ![l] = Nothing]
      /\ draft' = [draft EXCEPT ![t] = d] /\ At(t, "clearCrumbs")
      /\ UNCHANGED <<eventContext, crumbs, requestId, current, log, kin, born>>
  BY <1>1 DEF ClearContext, scopes
<1>3. StoresFollow
  BY <1>1, <1>2, EmptiedFollows DEF IInv, Emptied
<1>4. Now \in Nat
  BY LenProperties DEF IInv, StoreShape, Now
<1>5. d \in Drafts /\ d.client = c /\ d.began = Now /\ d.id = 0
  BY <1>4, Basics DEF Blank, Drafts
<1>6. \A k \in Keys : context'[l][k] = 0
  BY <1>1, <1>2 DEF IInv, StoreShape, Nothing
<1> HIDE DEF d, l
<1>7. /\ TaskShape' /\ draft'[t] = d /\ pc'[t] = "clearCrumbs"
      /\ \A u \in Tasks \ {t} : pc'[u] = pc[u] /\ draft'[u] = draft[u]
  BY <1>2, <1>5, DraftSet DEF IInv, Places, Clearing
<1>8. Mine(t)' = l
  BY <1>2, <1>5, <1>7 DEF Scoped, Mine, Home, l
<1>9. Placed(t)'
  BY <1>2, <1>4, <1>5, <1>7 DEF Placed, Reading, Seeding, Clearing, Now
<1>10. DraftOwn(t)' /\ ReportStands(t)' /\ SeedStands(t)'
  BY <1>7 DEF DraftOwn, ReportStands, SeedStands, Reading, Seeding
<1>11. ClearedStands(t)'
  BY <1>6, <1>7, <1>8 DEF ClearedStands, Old
<1> QED BY <1>3, <1>7, <1>9, <1>10, <1>11 DEF OwnStep, TaskOK

\* It goes on: the trail, then the event context.
LEMMA ClearGoesOn ==
    ASSUME IInv, NEW t \in Tasks, ClearCrumbs(t) \/ ClearEvents(t)
    PROVE  StoresFollow /\ OwnStep(t)
<1> DEFINE l == Mine(t)
           place == IF pc[t] = "clearCrumbs" THEN "clearEvents" ELSE "clearId"
<1>1. pc[t] \in {"clearCrumbs", "clearEvents"} /\ pc[t] \in Clearing
  BY DEF ClearCrumbs, ClearEvents, Clearing
<1>2. draft[t].client \in Clients /\ Placed(t) /\ ClearedStands(t) /\ draft[t].began <= Len(log)
  BY <1>1 DEF IInv, TaskOK, Placed
<1>3. l \in Layers /\ Layer(t, draft[t].client) = l
  BY <1>2, HomeShape DEF IInv, Mine
<1>4. /\ pc[t] = "clearCrumbs" => /\ crumbs' = [crumbs EXCEPT ![l] = <<>>]
                                  /\ UNCHANGED <<context, eventContext, requestId>>
      /\ pc[t] = "clearEvents" => /\ eventContext' = [eventContext EXCEPT ![l] = Nothing]
                                  /\ UNCHANGED <<context, crumbs, requestId>>
      /\ At(t, place)
      /\ UNCHANGED <<draft, current, log, kin, born>>
  BY <1>3 DEF ClearCrumbs, ClearEvents, scopes
<1>5. StoresFollow
  BY <1>1, <1>3, <1>4, EmptiedFollows DEF IInv, Emptied
<1>6. OldStays(t, l)
  BY <1>2, <1>3, <1>5, OldKept DEF IInv, StoresFollow, LayerFollows
<1>7. /\ pc[t] = "clearCrumbs" => Range(crumbs'[l]) = {}
      /\ pc[t] = "clearEvents" => \A k \in Keys : eventContext'[l][k] = 0
  BY <1>3, <1>4 DEF IInv, StoreShape, Nothing, Range
<1> HIDE DEF l
<1>8. place \in {"clearEvents", "clearId"}
  OBVIOUS
<1>9. /\ TaskShape' /\ pc'[t] = place
      /\ \A u \in Tasks : draft'[u] = draft[u] /\ (u # t => pc'[u] = pc[u])
  BY <1>4, <1>8 DEF IInv, TaskShape, At, Places, Clearing
<1>10. Mine(t)' = l
  BY <1>4 DEF Scoped, Mine, Home, l
<1>11. Placed(t)'
  BY <1>1, <1>2, <1>4, <1>8, <1>9 DEF Placed, Reading, Seeding, Clearing
<1>12. DraftOwn(t)' /\ ReportStands(t)' /\ SeedStands(t)'
  BY <1>8, <1>9 DEF DraftOwn, ReportStands, SeedStands, Reading, Seeding
<1>13. ClearedStands(t)'
  <2>1. \A k \in Keys : ~Old(context'[l][k], t)
    BY <1>1, <1>2, <1>6 DEF ClearedStands, OldStays, l
  <2>2. \A n \in Range(crumbs'[l]) : ~Old(n, t)
    BY <1>1, <1>2, <1>6, <1>7 DEF ClearedStands, OldStays, l
  <2>3. pc[t] = "clearEvents" => \A k \in Keys : ~Old(eventContext'[l][k], t)
    BY <1>7 DEF Old
  <2> QED BY <1>1, <1>4, <1>9, <1>10, <2>1, <2>2, <2>3 DEF ClearedStands, Old
<1> QED BY <1>5, <1>9, <1>11, <1>12, <1>13 DEF OwnStep, TaskOK

\* It ends with the request id.
LEMMA ClearEnds ==
    ASSUME IInv, NEW t \in Tasks, ClearId(t)
    PROVE  StoresFollow /\ OwnStep(t)
<1> DEFINE l == Mine(t)
<1>1. draft[t].client \in Clients
  BY DEF ClearId, Clearing, IInv, TaskOK, Placed
<1>2. l \in Layers /\ Layer(t, draft[t].client) = l
  BY <1>1, HomeShape DEF IInv, Mine
<1>3. /\ requestId' = [requestId EXCEPT ![l] = 0]
      /\ UNCHANGED <<context, eventContext, crumbs, log, kin, born>>
      /\ draft' = [draft EXCEPT ![t] = Blank] /\ At(t, "idle")
  BY <1>2 DEF ClearId, scopes
<1>4. StoresFollow
  BY <1>2, <1>3, EmptiedFollows DEF IInv, Emptied
<1> QED BY <1>3, <1>4, DoneStep DEF StoresFollow

\* The seed of a nested scope begins with the parent's context.
LEMMA SeedBegins ==
    ASSUME IInv, NEW t \in Tasks, SeedContext(t)
    PROVE  OwnStep(t)
<1> DEFINE p == Head(current[t])
           d == [Blank EXCEPT !.began = Now, !.entries = context[p]]
<1>1. /\ Scoped(t) /\ draft' = [draft EXCEPT ![t] = d] /\ At(t, "seedEvents")
      /\ UNCHANGED <<context, eventContext, crumbs, requestId, current, log, kin, born>>
  BY DEF SeedContext, stores, scopes
<1>2. p \in Layers /\ StoreOwn(p)
  BY <1>1, HomeShape, Basics DEF IInv
<1>3. Now \in Nat /\ context[p] \in Entries
  BY <1>2, LenProperties DEF IInv, StoreShape, Now
<1>4. d \in Drafts /\ d.began = Now /\ d.entries = context[p] /\ d.id = 0
  BY <1>3, Basics DEF Blank, Drafts
<1> HIDE DEF d, p
<1>5. /\ TaskShape' /\ draft'[t] = d /\ pc'[t] = "seedEvents"
      /\ \A u \in Tasks \ {t} : pc'[u] = pc[u] /\ draft'[u] = draft[u]
  BY <1>1, <1>4, DraftSet DEF IInv, Places, Seeding
<1>6. Scoped(t)' /\ Head(current[t])' = p
  BY <1>1 DEF Scoped, p
<1>7. Placed(t)'
  BY <1>1, <1>3, <1>4, <1>5, <1>6 DEF Placed, Reading, Seeding, Clearing, Now
<1>8. \A k \in Keys : OwnedBy(d.entries[k], p)
  BY <1>2, <1>4 DEF StoreOwn
<1>9. DraftOwn(t)'
  BY <1>1, <1>5, <1>6, <1>8 DEF DraftOwn, OwnedBy, Belongs, Reading
<1>10. ReportStands(t)' /\ ClearedStands(t)'
  BY <1>5 DEF ReportStands, ClearedStands, Reading, Clearing
<1>11. SeedStands(t)'
  BY <1>1, <1>4, <1>5, <1>6 DEF SeedStands
<1> QED BY <1>5, <1>7, <1>9, <1>10, <1>11 DEF OwnStep, TaskOK

\* It goes on with the parent's event context.
LEMMA SeedGoesOn ==
    ASSUME IInv, NEW t \in Tasks, SeedEvents(t)
    PROVE  OwnStep(t)
<1> DEFINE p == Head(current[t])
           d == [draft[t] EXCEPT !.events = eventContext[p]]
<1>1. /\ pc[t] = "seedEvents" /\ draft' = [draft EXCEPT ![t] = d] /\ At(t, "seedId")
      /\ UNCHANGED <<context, eventContext, crumbs, requestId, current, log, kin, born>>
  BY DEF SeedEvents, stores, scopes
<1>2. /\ TaskOK(t) /\ Scoped(t) /\ draft[t] \in Drafts /\ draft[t].began <= Len(log)
      /\ draft[t].id = 0
  BY <1>1 DEF IInv, TaskShape, TaskOK, Placed, Seeding, Reading
<1>3. p \in Layers /\ StoreOwn(p)
  BY <1>2, HomeShape, Basics DEF IInv
<1>4. eventContext[p] \in Entries
  BY <1>3 DEF IInv, StoreShape
<1>5. /\ d \in Drafts /\ d.began = draft[t].began /\ d.id = draft[t].id
      /\ d.entries = draft[t].entries /\ d.events = eventContext[p]
  BY <1>2, <1>4 DEF Drafts
<1> HIDE DEF d, p
<1>6. /\ TaskShape' /\ draft'[t] = d /\ pc'[t] = "seedId"
      /\ \A u \in Tasks \ {t} : pc'[u] = pc[u] /\ draft'[u] = draft[u]
  BY <1>1, <1>5, DraftSet DEF IInv, Places, Seeding
<1>7. Scoped(t)' /\ Head(current[t])' = p
  BY <1>1, <1>2 DEF Scoped, p
<1>8. Placed(t)'
  BY <1>1, <1>2, <1>5, <1>6, <1>7 DEF Placed, Reading, Seeding, Clearing
<1>9. \A k \in Keys : OwnedBy(d.entries[k], p) /\ OwnedBy(d.events[k], p)
  BY <1>1, <1>2, <1>3, <1>5 DEF StoreOwn, TaskOK, DraftOwn, Seeding, p
<1>10. DraftOwn(t)'
  BY <1>1, <1>6, <1>7, <1>9 DEF DraftOwn, OwnedBy, Belongs, Reading
<1>11. ReportStands(t)' /\ ClearedStands(t)'
  BY <1>6 DEF ReportStands, ClearedStands, Reading, Clearing
<1>12. \A k \in Keys : Old(context[p][k], t) => draft[t].entries[k] = context[p][k]
  BY <1>1, <1>2 DEF TaskOK, SeedStands, Seeding, p
<1>13. SeedStands(t)'
  BY <1>1, <1>5, <1>6, <1>7, <1>12 DEF SeedStands, Old
<1> QED BY <1>6, <1>8, <1>10, <1>11, <1>13 DEF OwnStep, TaskOK

\* A nested scope holds what belongs to it.
LEMMA NestedOwn ==
    ASSUME IInv, NEW t \in Tasks, EnterNested(t), NEW o, o = made + 1
    PROVE  StoreOwn(o)'
<1> DEFINE p == Head(current[t])
<1>1. NestedMade(t)
  BY NestedStep DEF IInv, TaskOK
<1>2. pc[t] = "seedId" /\ TaskOK(t)
  BY DEF EnterNested, IInv
<1>3. StoreOwn(p)
  BY <1>1, MineKnown DEF IInv, NestedMade
<1>4. /\ \A k \in Keys : OwnedBy(draft[t].entries[k], p) /\ OwnedBy(draft[t].events[k], p)
      /\ OwnedBy(requestId[p], p)
  BY <1>2, <1>3 DEF TaskOK, DraftOwn, StoreOwn, Seeding
<1>5. /\ log' = log /\ o \in Overlays /\ kin'[o] = kin[p] \cup {p} /\ born'[o] = Now
      /\ context'[o] = draft[t].entries /\ eventContext'[o] = draft[t].events
      /\ requestId'[o] = requestId[p] /\ crumbs'[o] = <<>>
  BY <1>1 DEF NestedMade
<1> HIDE DEF p
<1>6. \A n : OwnedBy(n, p) => OwnedSoon(n, o)
  BY <1>5, LenProperties DEF OwnedBy, OwnedSoon, Belongs, Now, IInv, StoreShape
<1>7. /\ \A k \in Keys : OwnedSoon(context'[o][k], o) /\ OwnedSoon(eventContext'[o][k], o)
      /\ OwnedSoon(requestId'[o], o) /\ Range(crumbs'[o]) = {}
  BY <1>4, <1>5, <1>6 DEF Range
<1> QED BY <1>7 DEF StoreOwn, OwnedBy, OwnedSoon, Belongs

-----------------------------------------------------------------------------
(* The inductive invariant.                                                *)

\* Nothing is read or written at first.
LEMMA InitIInv == Init => IInv
<1> SUFFICES ASSUME Init PROVE IInv
  OBVIOUS
<1>1. <<>> \in Seq(Stamps) /\ <<>> \in Trails /\ <<>> \in Seq(Writes) /\ Len(<<>>) = 0
      /\ <<>> \in Seq(1..0)
      /\ Range(<<>>) = {}
  BY EmptySeq, CapacityAssumption DEF Range, Trails
<1>2. StoreShape
  BY <1>1, Basics, BoundsAssumption DEF Init, StoreShape
<1>3. ScopeShape
  BY <1>1, BoundsAssumption DEF Init, ScopeShape
<1>4. TaskShape
  BY Basics DEF Init, TaskShape, Places
<1>5. \A l \in Layers : StoreOwn(l)
  BY <1>1 DEF Init, StoreOwn, OwnedBy, Nothing
<1>6. \A t \in Tasks : TaskOK(t)
  BY <1>1 DEF Init, TaskOK, Placed, DraftOwn, ReportStands, ClearedStands, SeedStands,
     Reading, Clearing, Seeding, Blank
<1> QED BY <1>2, <1>3, <1>4, <1>5, <1>6 DEF IInv

\* It is kept when every layer follows, the scopes keep their shape, and the
\* task that moves goes on knowing what it should.
LEMMA Compose ==
    ASSUME IInv, NEW t \in Tasks, StoresFollow, ScopeShape', OwnStep(t),
           \A u \in Tasks \ {t} : current'[u] = current[u]
    PROVE  IInv'
<1>1. \A l \in Layers : StoreOwn(l)'
  BY StoreOwnKept DEF IInv, StoresFollow
<1>2. \A l \in Known : LayerFollows(l)
  BY MineKnown DEF IInv, StoresFollow
<1>3. \A u \in Tasks : TaskOK(u)'
  BY <1>2, StillTask DEF IInv, StoresFollow, OwnStep
<1> QED BY <1>1, <1>3 DEF IInv, StoresFollow, OwnStep

\* A step that is not one of a task in the middle of something leaves it what
\* it knows.
LEMMA StillOwn ==
    ASSUME IInv, NEW t \in Tasks, StoresFollow, UNCHANGED <<pc, draft>>, pc[t] = "idle"
    PROVE  OwnStep(t)
<1>1. \A l \in Known : LayerFollows(l)
  BY MineKnown DEF IInv, StoresFollow
<1>2. TaskOK(t)'
  BY <1>1, StillTask DEF IInv, StoresFollow
<1> QED BY <1>2 DEF OwnStep, IInv, TaskShape

\* Scopes keep their shape when they are left alone.
LEMMA ScopesStay == ScopeShape /\ UNCHANGED scopes => ScopeShape' /\ current' = current
BY DEF ScopeShape, scopes

\* A call that writes one entry of one store.
WritesOne(t) ==
    \E c \in Clients :
       \/ \E set \in SUBSET Keys, removed \in SUBSET Keys :
             Context(t, c, set, removed) \/ EventContext(t, c, set, removed)
       \/ AddBreadcrumb(t, c) \/ RequestId(t, c)
       \/ ClearRequestId(t, c) \/ ClearEventContext(t, c)

\* It keeps the invariant.
LEMMA WriteStep ==
    ASSUME IInv, NEW t \in Tasks, WritesOne(t)
    PROVE  IInv'
<1>1. pc[t] = "idle" /\ UNCHANGED <<pc, draft, scopes>>
  BY DEF WritesOne, Context, EventContext, AddBreadcrumb, RequestId, ClearRequestId,
     ClearEventContext, Rest
<1>2. StoresFollow
  <2> PICK c \in Clients :
         \/ \E set \in SUBSET Keys, removed \in SUBSET Keys :
               Context(t, c, set, removed) \/ EventContext(t, c, set, removed)
         \/ AddBreadcrumb(t, c) \/ RequestId(t, c)
         \/ ClearRequestId(t, c) \/ ClearEventContext(t, c)
    BY DEF WritesOne
  <2>1. CASE ClearRequestId(t, c) \/ ClearEventContext(t, c)
    <3>1. Home(t, c) \in Layers /\ Layer(t, c) = Home(t, c)
      BY HomeShape DEF IInv
    <3>2. Emptied(Home(t, c))
      BY <1>1, <2>1, <3>1 DEF ClearRequestId, ClearEventContext, Emptied, scopes
    <3> QED BY <3>1, <3>2, EmptiedFollows DEF IInv
  <2>2. CASE \E set \in SUBSET Keys, removed \in SUBSET Keys :
                Context(t, c, set, removed) \/ EventContext(t, c, set, removed)
    BY <2>2, ContextStep, EventContextStep DEF IInv
  <2>3. CASE AddBreadcrumb(t, c) \/ RequestId(t, c)
    BY <2>3, BreadcrumbStep, RequestIdStep DEF IInv
  <2> QED BY <2>1, <2>2, <2>3
<1>3. ScopeShape' /\ current' = current
  BY <1>1, ScopesStay DEF IInv
<1> QED BY <1>1, <1>2, <1>3, StillOwn, Compose

\* A step of a report, or of the seeding of a scope, that only reads.
ReadsOne(t) ==
    \/ \E c \in Clients : Report(t, c, "notice") \/ Report(t, c, "event")
    \/ SeedContext(t) \/ SeedEvents(t)
    \/ MergeOverlay(t) \/ ScopedId(t) \/ BaseId(t) \/ ReadTrail(t) \/ Reported(t)

\* It keeps the invariant.
LEMMA ReadStep ==
    ASSUME IInv, NEW t \in Tasks, ReadsOne(t)
    PROVE  IInv'
<1>1. UNCHANGED <<stores, scopes, log>>
  BY DEF ReadsOne, Report, SeedContext, SeedEvents, MergeOverlay, ScopedId, BaseId,
         ReadTrail,
     Reported
<1>2. StoresFollow
  BY <1>1, UntouchedFollows DEF IInv, Untouched, scopes
<1>3. ScopeShape' /\ current' = current
  BY <1>1, ScopesStay DEF IInv
<1>4. CASE Reported(t)
  <2>1. StoreShape' /\ log' = log /\ draft' = [draft EXCEPT ![t] = Blank] /\ At(t, "idle")
    BY <1>2, <1>4 DEF Reported, StoresFollow
  <2> QED BY <1>2, <1>3, <2>1, DoneStep, Compose
<1>5. CASE \E c \in Clients : Report(t, c, "notice") \/ Report(t, c, "event")
  <2>1. OwnStep(t)
    BY <1>5, ReportStep DEF Kinds
  <2> QED BY <1>2, <1>3, <2>1, Compose
<1>6. CASE SeedContext(t) \/ SeedEvents(t)
  BY <1>2, <1>3, <1>6, SeedBegins, SeedGoesOn, Compose
<1>7. CASE MergeOverlay(t) \/ ScopedId(t) \/ BaseId(t) \/ ReadTrail(t)
  BY <1>2, <1>3, <1>7, MergeStep, IdStep, TrailStep, Compose
<1> QED BY <1>4, <1>5, <1>6, <1>7 DEF ReadsOne

\* A step of clear_context.
ClearsOne(t) ==
    \/ \E c \in Clients : ClearContext(t, c)
    \/ ClearCrumbs(t) \/ ClearEvents(t) \/ ClearId(t)

\* It keeps the invariant.
LEMMA ClearStep ==
    ASSUME IInv, NEW t \in Tasks, ClearsOne(t)
    PROVE  IInv'
<1>1. UNCHANGED scopes
  BY DEF ClearsOne, ClearContext, ClearCrumbs, ClearEvents, ClearId
<1>2. ScopeShape' /\ current' = current
  BY <1>1, ScopesStay DEF IInv
<1>3. StoresFollow /\ OwnStep(t)
  BY ClearBegins, ClearGoesOn, ClearEnds DEF ClearsOne
<1> QED BY <1>2, <1>3, Compose

\* Entering and leaving scopes keeps it.
LEMMA ScopeStep ==
    ASSUME IInv, NEW t \in Tasks, ScopesMove(t)
    PROVE  IInv'
<1>1. StoresFollow
  BY UntouchedFollows DEF IInv, ScopesMove
<1>2. OwnStep(t)
  BY <1>1, StillOwn DEF ScopesMove
<1> QED BY <1>1, <1>2, Compose DEF ScopesMove

\* Entering a nested scope keeps it.
LEMMA NestStep ==
    ASSUME IInv, NEW t \in Tasks, EnterNested(t)
    PROVE  IInv'
<1> DEFINE o == made + 1
<1>1. NestedMade(t)
  BY NestedStep DEF IInv, TaskOK
<1>2. /\ StoreShape' /\ ScopeShape' /\ LogGrows /\ log' = log /\ o \notin Known
      /\ \A l \in Layers \ {o} : LayerFollows(l)
      /\ \A u \in Tasks \ {t} : current'[u] = current[u]
  BY <1>1 DEF NestedMade
<1>3. \A l \in Layers : StoreOwn(l)'
  <2> SUFFICES ASSUME NEW l \in Layers PROVE StoreOwn(l)'
    OBVIOUS
  <2>1. CASE l = o
    BY <2>1, NestedOwn
  <2>2. CASE l # o
    BY <1>2, <2>2, StoreOwnKept DEF IInv
  <2> QED BY <2>1, <2>2
<1>4. \A l \in Known : LayerFollows(l)
  BY <1>2, MineKnown DEF IInv
<1>5. draft' = [draft EXCEPT ![t] = Blank] /\ At(t, "idle")
  BY DEF EnterNested
<1>6. OwnStep(t)
  BY <1>2, <1>5, DoneStep
<1>7. \A u \in Tasks : TaskOK(u)'
  BY <1>2, <1>4, <1>6, StillTask DEF IInv, OwnStep
<1> QED BY <1>2, <1>3, <1>6, <1>7 DEF IInv, OwnStep

\* Every step keeps it.
LEMMA StepIInv == IInv /\ [Next]_vars => IInv'
<1> SUFFICES ASSUME IInv, [Next]_vars PROVE IInv'
  OBVIOUS
<1>1. ASSUME NEW t \in Tasks, Step(t)
      PROVE  IInv'
  <2>1. \/ WritesOne(t) \/ ReadsOne(t) \/ ClearsOne(t) \/ EnterNested(t)
        \/ EnterFresh(t) \/ Capture(t) \/ CaptureDetached(t)
        \/ \E o \in Overlays : Enter(t, o)
        \/ Exit(t)
    BY <1>1 DEF Step, WritesOne, ReadsOne, ClearsOne
  <2>2. CASE \/ EnterFresh(t) \/ Capture(t) \/ CaptureDetached(t)
             \/ \E o \in Overlays : Enter(t, o)
             \/ Exit(t)
    <3>1. ScopesMove(t)
      BY <2>2, ScopeSteps DEF IInv
    <3> QED BY <3>1, ScopeStep
  <2> QED BY <2>1, <2>2, WriteStep, ReadStep, ClearStep, NestStep
<1>2. CASE UNCHANGED vars
  <2>1. StoresFollow
    BY <1>2, UntouchedFollows DEF IInv, Untouched, vars, scopes
  <2>2. ScopeShape' /\ TaskShape' /\ UNCHANGED <<pc, draft, current>>
    BY <1>2, ScopesStay DEF vars, IInv, TaskShape
  <2>3. \A l \in Layers : StoreOwn(l)'
    BY <2>1, StoreOwnKept DEF IInv, StoresFollow
  <2>4. \A l \in Known : LayerFollows(l)
    BY <2>1, KnownLayers DEF IInv, StoresFollow
  <2>5. \A t \in Tasks : TaskOK(t)'
    BY <2>1, <2>2, <2>4, StillTask DEF IInv, StoresFollow
  <2> QED BY <2>1, <2>2, <2>3, <2>5 DEF IInv, StoresFollow
<1> QED BY <1>1, <1>2 DEF Next

\* Whatever the tasks of the application do, each layer holds what belongs to
\* it and each report, clear and seed has read or emptied what it should so far.
THEOREM Invariance == Spec => []IInv
BY InitIInv, StepIInv, PTL DEF Spec

-----------------------------------------------------------------------------
(* What follows.                                                           *)

\* A report carries what belongs to its client or to the scope it is made in,
\* and a trail of one of them alone.
THEOREM ReportsAreOwn == Spec => []ReportIsOwn
<1>1. IInv => ReportIsOwn
  <2> SUFFICES ASSUME IInv, NEW t \in Tasks, pc[t] = "reported"
               PROVE  LET d == draft[t]
                          l == Home(t, d.client)
                      IN  /\ \A n \in (Range(d.entries) \cup {d.id}) \ {0} :
                                Belongs(n, l) \/ log[n].layer = d.client
                          /\ \A n \in Range(d.trail) : log[n].layer = l
    BY DEF ReportIsOwn
  <2> DEFINE d == draft[t]
  <2>1. TaskOK(t) /\ d \in Drafts /\ d.client \in Clients
    BY DEF IInv, TaskShape, TaskOK, Placed, Reading
  <2>2. /\ \A k \in Keys : OwnedBy(d.entries[k], Mine(t)) \/ OwnedBy(d.entries[k], d.client)
        /\ OwnedBy(d.id, Mine(t)) \/ OwnedBy(d.id, d.client)
        /\ \A n \in Range(d.trail) : log[n].layer = Mine(t)
    BY <2>1 DEF TaskOK, DraftOwn, Reading
  <2>3. \A n \in Range(d.entries) : \E k \in Keys : n = d.entries[k]
    BY <2>1 DEF Drafts, Entries, Range
  <2>4. \A n : Belongs(n, d.client) => log[n].layer = d.client
    BY <2>1, Basics DEF Belongs
  <2> QED BY <2>2, <2>3, <2>4 DEF OwnedBy, Mine
<1> QED BY <1>1, Invariance, PTL

\* What was recorded before a report began and still stands when it leaves is
\* in it, whoever writes, clears or enters scopes between its reads.
THEOREM StandingReported == Spec => []StandingIsReported
<1>1. IInv => StandingIsReported
  <2> SUFFICES ASSUME IInv, NEW t \in Tasks, pc[t] = "reported"
               PROVE  LET d == draft[t]
                          l == Home(t, d.client)
                          Stands(n) == n \in 1..d.began
                      IN  /\ \A k \in Keys :
                                /\ Stands(Ambient(d.kind)[l][k]) =>
                                      d.entries[k] = Ambient(d.kind)[l][k]
                                /\ Stands(Ambient(d.kind)[d.client][k]) => d.entries[k] # 0
                          /\ Stands(requestId[l]) => d.id = requestId[l]
                          /\ Stands(requestId[d.client]) => d.id # 0
                          /\ d.kind = "notice" /\ d.client \in Recording =>
                                \A n \in Range(crumbs[l]) : Stands(n) => n \in Range(d.trail)
    BY DEF StandingIsReported
  <2>1. ReportStands(t)
    BY DEF IInv, TaskOK
  <2> QED BY <2>1 DEF ReportStands, Reading, Old, Mine
<1> QED BY <1>1, Invariance, PTL

\* A task that has one store left to clear, or a scope to enter, does that, and
\* no other task moves it.
LEMMA Guarded ==
    ASSUME TaskShape, Next, NEW t \in Tasks, pc[t] \in {"clearId", "seedId"}, pc'[t] # pc[t]
    PROVE  IF pc[t] = "clearId" THEN ClearId(t) ELSE EnterNested(t)
<1>1. PICK u \in Tasks : Step(u)
  BY DEF Next
<1>2. ASSUME \E place : At(u, place)
      PROVE  u = t
  BY <1>2 DEF At, TaskShape
<1>3. CASE WritesOne(u)
  <2>1. UNCHANGED pc
    BY <1>3 DEF WritesOne, Context, EventContext, AddBreadcrumb, RequestId, ClearRequestId,
       ClearEventContext, Rest
  <2> QED BY <2>1
<1>4. CASE ReadsOne(u)
  <2>1. \E place : At(u, place)
    BY <1>4 DEF ReadsOne, Report, SeedContext, SeedEvents, MergeOverlay, ScopedId, BaseId,
       ReadTrail, Reported
  <2>2. pc[u] \notin {"clearId", "seedId"}
    BY <1>4 DEF ReadsOne, Report, SeedContext, SeedEvents, MergeOverlay, ScopedId, BaseId,
       ReadTrail, Reported
  <2> QED BY <1>2, <2>1, <2>2
<1>5. CASE ClearsOne(u)
  <2>1. \E place : At(u, place)
    BY <1>5 DEF ClearsOne, ClearContext, ClearCrumbs, ClearEvents, ClearId
  <2>2. u = t
    BY <1>2, <2>1
  <2>3. pc[u] # "clearId" \/ ClearId(u)
    BY <1>5 DEF ClearsOne, ClearContext, ClearCrumbs, ClearEvents
  <2>4. pc[u] # "seedId"
    BY <1>5 DEF ClearsOne, ClearContext, ClearCrumbs, ClearEvents, ClearId
  <2> QED BY <2>2, <2>3, <2>4
<1>6. CASE EnterNested(u)
  <2>1. At(u, "idle") /\ pc[u] = "seedId"
    BY <1>6 DEF EnterNested
  <2> QED BY <1>2, <1>6, <2>1
<1>7. CASE \/ EnterFresh(u) \/ Capture(u) \/ CaptureDetached(u)
           \/ \E o \in Overlays : Enter(u, o)
           \/ Exit(u)
  <2>1. UNCHANGED pc
    BY <1>7 DEF EnterFresh, Capture, CaptureDetached, Enter, Exit
  <2> QED BY <2>1
<1>8. \/ WritesOne(u) \/ ReadsOne(u) \/ ClearsOne(u) \/ EnterNested(u)
      \/ EnterFresh(u) \/ Capture(u) \/ CaptureDetached(u)
      \/ \E o \in Overlays : Enter(u, o)
      \/ Exit(u)
  BY <1>1 DEF Step, WritesOne, ReadsOne, ClearsOne
<1> QED BY <1>3, <1>4, <1>5, <1>6, <1>7, <1>8

\* When clear_context returns, nothing recorded before it began is left in any
\* of the four stores of the layer it worked on.
THEOREM ClearIsComplete == Spec => ClearLeavesNothing
<1> DEFINE Left == \A t \in Tasks, l \in Layers :
              pc[t] = "clearId" /\ pc'[t] = "idle" /\ l = Home(t, draft[t].client) =>
                  \A n \in Held(l)' \ {0} : n > draft[t].began
<1>1. IInv /\ [Next]_vars => [Left]_vars
  <2> SUFFICES ASSUME IInv, Next, NEW t \in Tasks, NEW l \in Layers,
                      pc[t] = "clearId", pc'[t] = "idle", l = Home(t, draft[t].client),
                      NEW n \in Held(l)' \ {0}
               PROVE  n > draft[t].began
    BY DEF Left
  <2>1. ClearId(t)
    BY Guarded DEF IInv
  <2>2. ClearedStands(t) /\ draft[t].client \in Clients /\ draft[t] \in Drafts
    BY DEF IInv, TaskShape, TaskOK, Placed, Clearing
  <2>3. l = Mine(t) /\ Layer(t, draft[t].client) = l
    BY <2>2, HomeShape DEF IInv, Mine
  <2>4. /\ UNCHANGED <<context, eventContext, crumbs>>
        /\ requestId'[l] = 0
    BY <2>1, <2>3 DEF ClearId, IInv, StoreShape
  <2>5. /\ context[l] \in Entries /\ eventContext[l] \in Entries /\ crumbs[l] \in Seq(Stamps)
        /\ draft[t].began \in Nat
    BY <2>2 DEF IInv, StoreShape, Trails, Drafts
  <2>6. n \in Range(context[l]) \cup Range(eventContext[l]) \cup Range(crumbs[l])
    BY <2>4 DEF Held
  <2>7. n \in Stamps
    <3>1. Range(crumbs[l]) \subseteq Stamps
      BY <2>5, LenProperties DEF Range
    <3> QED BY <2>5, <2>6, <3>1 DEF Range, Entries
  <2>8. ~Old(n, t)
    BY <2>2, <2>3, <2>5, <2>6 DEF ClearedStands, Clearing, Range, Entries
  <2> QED BY <2>5, <2>7, <2>8, Basics DEF Old, Stamps
<1> QED BY <1>1, Invariance, PTL DEF Spec, ClearLeavesNothing, Left

\* A nested scope starts from what the enclosing one holds and still stands, the
\* request id it has now, and an empty trail.
THEOREM NestedInherits == Spec => ScopeInherits
<1> DEFINE Stands(t, n) == n \in 1..draft[t].began
           Inherited(t) ==
              made' = made + 1 /\ Scoped(t) /\ pc[t] = "seedId" /\ pc'[t] = "idle" =>
                  LET p == Head(current[t])
                  IN  /\ \A k \in Keys :
                            /\ Stands(t, context[p][k]) => context'[made'][k] = context[p][k]
                            /\ Stands(t, eventContext[p][k]) =>
                                  eventContext'[made'][k] = eventContext[p][k]
                      /\ requestId'[made'] = requestId[p]
                      /\ crumbs'[made'] = <<>>
<1>1. IInv /\ [Next]_vars => [\A t \in Tasks : Inherited(t)]_vars
  <2> SUFFICES ASSUME IInv, Next, NEW t \in Tasks,
                      made' = made + 1, pc[t] = "seedId", pc'[t] = "idle"
               PROVE  Inherited(t)
    OBVIOUS
  <2>1. EnterNested(t)
    BY Guarded DEF IInv
  <2>2. NestedMade(t) /\ SeedStands(t)
    BY <2>1, NestedStep DEF IInv, TaskOK
  <2> QED BY <2>2 DEF NestedMade, SeedStands, Seeding, Old
<1> QED BY <1>1, Invariance, PTL DEF Spec, ScopeInherits

\* The stores, the scopes and what a task has read have their types, and no
\* trail is longer than the capacity.
THEOREM TypesHold == Spec => []TypeOK
<1>1. IInv => TypeOK
  <2> SUFFICES ASSUME IInv PROVE TypeOK
    OBVIOUS
  <2>1. /\ context \in [Layers -> Entries] /\ eventContext \in [Layers -> Entries]
        /\ \A l \in Layers : crumbs[l] \in Seq(Stamps) /\ Len(crumbs[l]) <= Capacity
        /\ requestId \in [Layers -> Stamps \cup {0}]
        /\ log \in Seq(Writes) /\ Len(log) <= MaxWrites
    BY DEF IInv, StoreShape, Trails
  <2>2. /\ current \in [Tasks -> Seq(1..made)] /\ handles \in SUBSET (1..made)
        /\ made \in 0..MaxScopes
    BY DEF IInv, ScopeShape
  <2>3. pc \in [Tasks -> Places]
    BY DEF IInv, TaskShape
  <2>4. ASSUME NEW t \in Tasks
        PROVE  /\ draft[t].kind \in {"none", "notice", "event"}
               /\ draft[t].client \in Clients \cup {0}
               /\ draft[t].began \in 0..Len(log)
               /\ draft[t].entries \in Entries /\ draft[t].events \in Entries
               /\ draft[t].id \in 0..Len(log)
               /\ draft[t].trail \in Seq(Stamps)
    <3>1. draft[t] \in Drafts /\ TaskOK(t) /\ Len(log) \in Nat
      BY <2>1, LenProperties DEF IInv, TaskShape
    <3>2. draft[t].began \in 0..Len(log)
      BY <3>1 DEF TaskOK, Placed, Drafts
    <3>3. draft[t].id = 0 \/ draft[t].id \in 1..Len(log)
      BY <3>1 DEF TaskOK, Placed, DraftOwn, OwnedBy
    <3>4. draft[t].id \in 0..Len(log)
      BY <3>1, <3>3
    <3> QED BY <3>1, <3>2, <3>4 DEF Drafts, Kinds
  <2> QED BY <2>1, <2>2, <2>3, <2>4 DEF TypeOK, Places, Seeding, Clearing, Reading, Writes
<1> QED BY <1>1, Invariance, PTL
=============================================================================
