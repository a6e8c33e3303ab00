------------------------------ MODULE Reports ------------------------------
(***************************************************************************)
(* The two pipelines a report goes through on its caller's thread before   *)
(* it is queued: a notice through Client::run_pipeline, an event through   *)
(* event.rs assemble.  Both run the caller's hooks over a draft: a hook    *)
(* may change anything it is given, veto the report, or panic half way.    *)
(* Reports are followed one at a time: what threads share here is the      *)
(* sampler's counter, advanced by one atomic fetch_add (the stores a       *)
(* report reads are RequestScope's).                                       *)
(***************************************************************************)
EXTENDS Sanitizer, Backtrace

CONSTANTS
    \* the configuration
    Filters,            \* filter_keys, sets of keys in lower case
    Rates,              \* events_sample_rate as given
    Roots,              \* the project root
    IgnoreClasses,      \* ignore_classes
    Attached,           \* ts, hostname and environment of an event
    NoticeHooks, EventHooks,
    MaxCauses,          \* MAX_CAUSES
    MaxPayloadBytes, MaxEventBytes,
    \* the sampler
    Cycle,              \* the 100 a rate is out of
    Hash,               \* a request id |-> crc32 % Cycle
    Seeds,              \* process_seed
    \* what callers and hooks come with
    Errors,             \* notices as built: [class, link, trace, context]
    Links,              \* the errors a source() chain is made of
    SourceOf,           \* its source(): a link, NoCause or Panics
    Scopes,             \* the contexts in force
    Slots,              \* the request id slot, a string value or NoId
    Trails,             \* the metadata of the crumbs of a trail
    NoticeEdits, EventEdits,
    Types,              \* the event_type argument, a string value; NoType for event_value
    Payloads,
    NoEdit, NoId, NoType, NoCause, Panics, Idle,
    MaxDraws            \* bound on the draws from the counter

ASSUME ReportsAssumption ==
    /\ Cycle \in Nat \ {0}
    /\ Hash \in [DOMAIN Hash -> 0..Cycle - 1]
    /\ Seeds \subseteq 0..Cycle - 1
    /\ SourceOf \in [Links -> Links \cup {NoCause, Panics}]
    /\ MaxCauses \in Nat
    /\ Rates \subseteq Nat

\* What callers and hooks come with are JSON values, and traces of symbols.
ASSUME GivenAssumption ==
    /\ {"request_id", "event_type"} \subseteq DOMAIN Lower
    /\ Roots \subseteq Seq(STRING)
    /\ \A error \in Errors : IsMap(error.context) /\ IsTrace(error.trace)
    /\ IsMap(Attached) /\ \A scope \in Scopes : IsMap(scope)
    /\ \A trail \in Trails : \A i \in DOMAIN trail : IsMap(trail[i])
    /\ \A slot \in Slots : slot # NoId => IsText(slot) /\ IsValue(slot)
    /\ \A type \in Types : type # NoType => IsText(type) /\ IsValue(type)
    /\ \A payload \in Payloads : payload.kind = "object" => IsMap(payload.map)
    /\ \A edit \in NoticeEdits :
           edit # NoEdit /\ edit.key # "class" => edit.key \in DOMAIN Lower /\ IsValue(edit.value)
    /\ \A edit \in EventEdits :
           edit # NoEdit /\ edit.value # NoId => edit.key \in DOMAIN Lower /\ IsValue(edit.value)

VARIABLES
    config,     \* the client's configuration, fixed when it was built
    draft,      \* the report under way and the number of hooks it has passed
    last,       \* what became of the last report
    counter,    \* Sampler.counter
    fates,      \* the sampling decisions so far, by request id
    draws       \* and those of the counter, in order

vars == <<config, draft, last, counter, fates, draws>>
sampler == <<counter, fates, draws>>

Init ==
    /\ config \in [filter : Filters, rate : {Min({r, Cycle}) : r \in Rates}, root : Roots]
    /\ draft = Idle
    /\ last = Idle
    /\ counter \in Seeds
    /\ fates = [id \in DOMAIN Hash |-> {}]
    /\ draws = << >>

-----------------------------------------------------------------------------
(* Both pipelines *)

Leaves(report)  == draft' = Idle /\ last' = report
Dropped(reason) == Leaves([what |-> reason])

\* Local entries win over those of the scope.
MergeUnder(own, scope) ==
    [key \in DOMAIN own \cup DOMAIN scope |->
        IF key \in DOMAIN own THEN own[key] ELSE scope[key]]
Put(map, key, value) ==
    [k \in DOMAIN map \cup {key} |-> IF k = key THEN value ELSE map[k]]

\* A hook's panic counts as a pass and what it changed before stays changed;
\* only a verdict of false ends the report, before the hooks behind it.
AfterHook(edited, ending) ==
    IF ending = "veto" THEN Dropped("vetoed")
    ELSE draft' = [edited EXCEPT !.ran = @ + 1] /\ UNCHANGED last

Ignored(class) == class \in IgnoreClasses

SizeOf(v) ==
    MapThenSumSet(LAMBDA p : IF IsText(At(v, p)) THEN Bytes(At(v, p)) ELSE 1, Paths(v))

IsReport(kind) == last # Idle /\ last.what = kind

-----------------------------------------------------------------------------
(* A notice *)

\* source() of the error, then of each cause: a panic ends the chain, and so
\* does the cap, whether or not the chain itself ever ends.
CausesLastLost(first) ==    \* mutant
    LET chain[n \in 0..MaxCauses] ==
            IF n = 0 THEN << >>
            ELSE LET before == chain[n - 1]
                     source == SourceOf[IF before = << >> THEN first ELSE Last(before)]
                 IN  IF source \in Links /\ SourceOf[source] # Panics
                     THEN Append(before, source) ELSE before
    IN  chain[MaxCauses]
Causes(first) ==
    LET chain[n \in 0..MaxCauses] ==
            IF n = 0 THEN << >>
            ELSE LET before == chain[n - 1]
                     source == SourceOf[IF before = << >> THEN first ELSE Last(before)]
                 IN  IF source \in Links THEN Append(before, source) ELSE before
    IN  chain[MaxCauses]

\* Assembly of the inputs, the frames among them, then the first class check.
Notify(error, scope, slot, trail) ==
    /\ draft = Idle
    /\ IF Ignored(error.class) THEN Dropped("ignored")
       ELSE /\ last' = Idle
            /\ draft' = [kind |-> "notice", ran |-> 0, class |-> error.class,
                         context |-> MergeUnder(error.context, scope),
                         link |-> error.link, causes |-> Causes(error.link),
                         frames |-> ProcessResolved(error.trace, config.root),
                         slot |-> slot, trail |-> trail]
    /\ UNCHANGED <<config, sampler>>

\* set_class and set_context; the other setters change nothing read here.
NoticeEdited(edit) ==
    IF edit = NoEdit THEN draft
    ELSE IF edit.key = "class" THEN [draft EXCEPT !.class = edit.value]
    ELSE [draft EXCEPT !.context = Put(@, edit.key, edit.value)]

BeforeNotify(edit, ending) ==
    /\ draft # Idle /\ draft.kind = "notice"
    /\ draft.ran < NoticeHooks
    /\ AfterHook(NoticeEdited(edit), ending)
    /\ UNCHANGED <<config, sampler>>

\* The context's own entry comes before the slot, as it stands in the payload.
Correlation(context, slot) ==
    IF "request_id" \in DOMAIN context THEN context["request_id"] ELSE slot

\* The payload: what is sanitized is the context and the crumbs' metadata, last.
Assembled(d) ==
    LET context == Sanitize(config.filter, Object(d.context))
    IN  [what |-> "notice", class |-> d.class, link |-> d.link, causes |-> d.causes,
         frames |-> d.frames, context |-> context, given |-> Object(d.context),
         correlation |-> Correlation(context.map, d.slot), slot |-> d.slot,
         trail |-> [i \in DOMAIN d.trail |-> SanitizeShallow(config.filter, Object(d.trail[i]))]]

FinishNotice ==
    /\ draft # Idle /\ draft.kind = "notice"
    /\ draft.ran = NoticeHooks
    /\ IF Ignored(draft.class) THEN Dropped("ignored")
       ELSE IF SizeOf(Assembled(draft).context) > MaxPayloadBytes THEN Dropped("too large")
       ELSE Leaves(Assembled(draft))
    /\ UNCHANGED <<config, sampler>>

-----------------------------------------------------------------------------
(* An event *)

\* The id the event carries itself, if it is a string.
OwnId(d) ==
    IF "request_id" \in DOMAIN d.fields /\ IsText(d.fields["request_id"])
    THEN d.fields["request_id"].id ELSE NoId

SamplingIdOfSlot(d) == IF d.slot = NoId THEN NoId ELSE d.slot.id    \* mutant
\* Only a string request_id can be hashed.
SamplingId(d) == OwnId(d)

Keeps(id) ==
    \/ config.rate >= Cycle
    \/ (IF id = NoId THEN counter % Cycle ELSE Hash[id]) < config.rate

AdvancedByAll(id) ==    \* mutant
    IF config.rate \in 1..Cycle - 1 THEN counter + 1 ELSE counter
\* fetch_add, by the events without an id and at the rates that ask it.
Advanced(id) ==
    IF id = NoId /\ config.rate \in 1..Cycle - 1 THEN counter + 1 ELSE counter

\* The argument replaces an event_type, the rest fills gaps.
Typed(type, fields) ==
    IF type = NoType THEN fields ELSE Put(fields, "event_type", type)
Filled(fields, slot) ==
    LET identified == IF slot = NoId \/ "request_id" \in DOMAIN fields THEN fields
                      ELSE Put(fields, "request_id", slot)
    IN  MergeUnder(identified, Attached)

\* With events_enabled; without it the call returns at once.
SendEvent(type, payload, scope, slot) ==
    /\ draft = Idle
    /\ Len(draws) < MaxDraws
    /\ IF payload.kind # "object" THEN Dropped("not an object")
       ELSE /\ last' = Idle
            /\ draft' = [kind |-> "event", ran |-> 0, type |-> type, slot |-> slot,
                         fields |-> Filled(Typed(type, MergeUnder(payload.map, scope)), slot)]
    /\ UNCHANGED <<config, sampler>>

\* A hook may set a field or delete one.
EventEdited(edit) ==
    IF edit = NoEdit THEN draft
    ELSE IF edit.value = NoId
    THEN [draft EXCEPT !.fields = Restrict(@, DOMAIN @ \ {edit.key})]
    ELSE [draft EXCEPT !.fields = Put(@, edit.key, edit.value)]

BeforeEvent(edit, ending) ==
    /\ draft # Idle /\ draft.kind = "event"
    /\ draft.ran < EventHooks
    /\ AfterHook(EventEdited(edit), ending)
    /\ UNCHANGED <<config, sampler>>

\* A string, and not the empty one.
ValidType(fields) ==
    /\ "event_type" \in DOMAIN fields
    /\ IsText(fields["event_type"])
    /\ fields["event_type"].chars > 0

\* The decision enters the history under the id the event itself carries.
Sampled(d) ==
    LET id == SamplingId(d)
        own == OwnId(d)
    IN  /\ counter' = Advanced(id)
        /\ IF own = NoId
           THEN draws' = Append(draws, Keeps(id)) /\ UNCHANGED fates
           ELSE fates' = [fates EXCEPT ![own] = @ \cup {Keeps(id)}] /\ UNCHANGED draws

ReassertedNot(type, fields) == fields    \* mutant
Reasserted(type, fields) == Typed(type, fields)

\* Validation, the argument once more, sampling, the structural walk, the cap.
FinishEvent ==
    /\ draft # Idle /\ draft.kind = "event"
    /\ draft.ran = EventHooks
    /\ IF ~ValidType(draft.fields) THEN Dropped("no event_type") /\ UNCHANGED sampler
       ELSE LET fields == Reasserted(draft.type, draft.fields)
                line   == SanitizeStructural(Object(fields))
            IN  /\ Sampled(draft)
                /\ IF ~Keeps(SamplingId(draft)) THEN Dropped("sampled out")
                   ELSE IF SizeOf(line) > MaxEventBytes THEN Dropped("too large")
                   ELSE Leaves([what |-> "event", line |-> line, type |-> draft.type,
                                given |-> Object(fields)])
    /\ UNCHANGED config

-----------------------------------------------------------------------------
Endings == {"keep", "veto", "panic"}

Next ==
    \/ \E error \in Errors, scope \in Scopes, slot \in Slots, trail \in Trails :
           Notify(error, scope, slot, trail)
    \/ \E edit \in NoticeEdits, ending \in Endings : BeforeNotify(edit, ending)
    \/ FinishNotice
    \/ \E type \in Types, payload \in Payloads, scope \in Scopes, slot \in Slots :
           SendEvent(type, payload, scope, slot)
    \/ \E edit \in EventEdits, ending \in Endings : BeforeEvent(edit, ending)
    \/ FinishEvent

Spec == Init /\ [][Next]_vars

-----------------------------------------------------------------------------
(* What the pipelines promise *)

\* What leaves has been sanitized after the last hook.  In a notice's context
\* and in the metadata of every crumb nothing stands under a filtered name, too
\* deep or too long, and the correlation context repeats no id the context had
\* to redact; in an event no name is filtered at all.  Nothing else is lost
\* (client.rs step 5, notice.rs assemble, event.rs step 11).
ReportClean ==
    /\ IsReport("notice") =>
           /\ Clean(config.filter, MaxDepth, last.context)
           /\ Preserved(config.filter, MaxDepth, last.given, last.context)
           /\ \A i \in DOMAIN last.trail : Clean(config.filter, 1, last.trail[i])
           /\ last.correlation # last.slot =>
                  /\ "request_id" \in DOMAIN last.given.map
                  /\ last.correlation = last.context.map["request_id"]
    /\ IsReport("event") =>
           /\ Clean({}, MaxDepth, last.line)
           /\ Preserved({}, MaxDepth, last.given, last.line)

\* The causes of a notice are the first links of its error's source() chain,
\* all of them up to the cap, also when a later link panics or the chain runs
\* in a circle (notice.rs from_error).
CausesFollowChain ==
    IsReport("notice") =>
        /\ \A i \in 1..Len(last.causes) :
               last.causes[i] = SourceOf[IF i = 1 THEN last.link ELSE last.causes[i - 1]]
        /\ Len(last.causes) < MaxCauses =>
               SourceOf[IF last.causes = << >> THEN last.link ELSE Last(last.causes)]
                   \notin Links

\* A frame quotes lines only of a file that really lies under the project root,
\* and of that file the ones around its own line; its file is shown without
\* the root exactly when its path is under it; only under a root that is spelled
\* like the placeholder the two look the same (bt.rs map_frame).  The frames are
\* those of a backtrace: the one the panic hook puts above them names the file
\* of the panic's location as the compiler spells it, and quotes nothing.
FramesAreOwn ==
    IsReport("notice") => \A i \in DOMAIN last.frames :
        LET f == last.frames[i]
        IN  /\ f.source # NoSource =>
                   /\ IsPrefix(config.root, f.file)
                   /\ IsPrefix(Canonical[config.root], Canonical[f.file])
                   /\ \A n \in f.source : n - f.line \in -SourceRadius..SourceRadius
            /\ f.method # NoName /\ f.file # NoFile =>
                   (f.shown = f.file <=> config.root \in {<< >>, Placeholder}
                                             \/ ~IsPrefix(config.root, f.file))

\* The event_type argument wins over the payload, the scope and every hook;
\* without one the event that leaves names its type (event.rs steps 4, 9).
TypeHeld ==
    IsReport("event") =>
        /\ "event_type" \in DOMAIN last.line.map
        /\ IF last.type = NoType
           THEN IsText(last.line.map["event_type"]) /\ last.line.map["event_type"].chars > 0
           ELSE last.line.map["event_type"] = TruncateString(last.type)

\* Events that carry one request id share one sampling decision, whether the
\* id came from the payload, a scope, the slot or a hook (event.rs Sampler).
OneFate == \A id \in DOMAIN fates : Cardinality(fates[id]) <= 1

\* Of every full cycle of events without an id exactly the rate is kept,
\* wherever the counter started and whatever came between (event.rs Sampler).
ExactShare ==
    \A i \in 1..Len(draws) - Cycle + 1 :
        Cardinality({j \in i..i + Cycle - 1 : draws[j]}) = config.rate

=============================================================================
