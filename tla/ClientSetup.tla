----------------------------- MODULE ClientSetup -----------------------------
(***************************************************************************)
(* From a ConfigBuilder to a client that delivers (src/config.rs, the      *)
(* constructors of src/client.rs, src/transport.rs).  One thread sets      *)
(* options, builds the configuration out of them, the environment and the  *)
(* defaults, builds a client on it, and requests go out through the        *)
(* transport that was chosen.                                              *)
(*                                                                         *)
(* Options have the names of the source.  Texts are tokens; an endpoint is *)
(* whether it has a web scheme and how many slashes it ends with.          *)
(***************************************************************************)
EXTENDS Integers, FiniteSets

CONSTANTS
    Unset,          \* None
    Junk,           \* what does not parse as a number, or does not fit
    Values,         \* for each option, the values its setter is called with
    Raws,           \* for each variable, the values it has in an environment
    U8Max, U32Max, UsizeMax, U64Max,
    UrgentMax,      \* URGENT_MAX_TOTAL
    MaxRetryAfter,  \* MAX_RETRY_AFTER
    Headers,        \* Retry-After headers the service may answer with
    MaxCalls,       \* bound: setters called
    MaxVariables    \* bound: variables set in the environment

NoticeOptions ==
    {"api_key", "env", "exclude_envs", "enabled", "endpoint", "root", "hostname",
     "revision", "filter_keys", "ignore_classes", "breadcrumbs_enabled",
     "install_panic_hook", "notice_queue_size", "connect_timeout", "request_timeout"}

EventOptions ==
    {"events_enabled", "events_batch_size", "events_flush_interval",
     "events_queue_size", "events_max_retries", "events_sample_rate",
     "events_attach_hostname", "events_attach_environment"}

Options == NoticeOptions \cup EventOptions

Numbers == {"events_batch_size", "events_flush_interval", "events_queue_size",
            "events_max_retries", "events_sample_rate"}
Flags == {"enabled", "events_enabled", "events_attach_hostname",
          "events_attach_environment"}
Texts == {"api_key", "env", "endpoint", "root", "hostname", "revision"}

\* The options with a HONEYBADGER_ variable.
Variables == Numbers \cup Flags \cup Texts

Width == [events_batch_size |-> UsizeMax, events_flush_interval |-> U64Max,
          events_queue_size |-> UsizeMax, events_max_retries |-> U32Max,
          events_sample_rate |-> U8Max]

Default == [
    api_key |-> Unset, env |-> Unset, exclude_envs |-> {"development", "test"},
    enabled |-> Unset, endpoint |-> [web |-> TRUE, slashes |-> 0],
    root |-> "current_dir", hostname |-> "hostname", revision |-> Unset,
    filter_keys |-> {"password", "credit_card", "secret"}, ignore_classes |-> {},
    breadcrumbs_enabled |-> TRUE, install_panic_hook |-> TRUE,
    notice_queue_size |-> 100, connect_timeout |-> 4, request_timeout |-> 5,
    events_enabled |-> TRUE, events_batch_size |-> 1000,
    events_flush_interval |-> 30, events_queue_size |-> 10000,
    events_max_retries |-> 3, events_sample_rate |-> 100,
    events_attach_hostname |-> TRUE, events_attach_environment |-> TRUE]

ASSUME WidthsAssumption ==
    /\ U8Max \in Nat /\ U32Max \in Nat /\ UsizeMax \in Nat /\ U64Max \in Nat
    /\ 100 <= U8Max /\ U8Max <= U32Max /\ 10000 <= UsizeMax /\ 3 <= U32Max
    /\ U32Max <= U64Max /\ UsizeMax <= U64Max
    /\ UrgentMax \in Nat /\ MaxRetryAfter \in Nat
ASSUME SourcesAssumption ==
    /\ Unset \notin Nat \cup BOOLEAN /\ Junk \notin Nat /\ Junk # Unset
    /\ \A o \in Flags : Values[o] \subseteq BOOLEAN
    /\ \A o \in Numbers : Values[o] \subseteq 0..Width[o] /\ Raws[o] \subseteq Nat \cup {Junk}

VARIABLES
    builder,        \* ConfigBuilder: an option's value or Unset
    calls,          \* setters called
    environ,        \* the environment, as env_source reads it
    phase,          \* how far the thread has come
    error,          \* what build() failed with
    config,         \* the Config
    transport,      \* the transport chosen
    last            \* the last request delivered, and its answer

buildVars == <<builder, calls, environ>>
vars == <<buildVars, phase, error, config, transport, last>>

Smaller(a, b) == IF a <= b THEN a ELSE b

Init ==
    /\ builder = [o \in Options |-> Unset]
    /\ calls = 0
    /\ environ = [o \in Variables |-> Unset]
    /\ phase = "building"
    /\ error = "none"
    /\ config = Unset
    /\ transport = Unset
    /\ last = Unset

-----------------------------------------------------------------------------
(* Mutants of the definitions below.                                       *)

\* The environment is parsed whether the builder has set the option or not.
ParsedAlways(o, e) == IF e[o] \in Nat \cup {Unset} THEN e[o] ELSE Junk

\* n as u32.
NarrowedAs(o, n) ==
    IF o = "events_sample_rate" THEN Smaller(n, 100) ELSE n % (Width[o] + 1)

\* The queue's size is not among the limits that are checked.
LimitsOfBatch == {"events_flush_interval", "events_batch_size"}

\* enabled(false) does not turn off what the environment's name allows.
ReportingUnlessExcluded(c) == c.enabled = TRUE \/ c.env \notin c.exclude_envs

-----------------------------------------------------------------------------
(* ConfigBuilder.                                                          *)

\* A setter may be called again, and the last call counts.
Set(o, v) ==
    /\ phase = "building"
    /\ calls < MaxCalls
    /\ builder' = [builder EXCEPT ![o] = v]
    /\ calls' = calls + 1
    /\ UNCHANGED <<environ, phase, error, config, transport, last>>

\* What the environment holds when build() reads it.
Export(o, raw) ==
    /\ phase = "building"
    /\ Cardinality({x \in Variables : environ[x] # Unset}) < MaxVariables
    /\ environ' = [environ EXCEPT ![o] = raw]
    /\ UNCHANGED <<builder, calls, phase, error, config, transport, last>>

\* parse_num: a variable is read only if the builder left the option unset.
Parsed(o, e) ==
    IF builder[o] # Unset \/ e[o] = Unset THEN Unset
    ELSE IF e[o] \in 0..U64Max THEN e[o] ELSE Junk

\* narrow, and the rate, which is clamped first.
Narrowed(o, n) ==
    IF o = "events_sample_rate" THEN Smaller(n, 100)
    ELSE IF n <= Width[o] THEN n ELSE Junk

Number(o, e) ==
    LET n == Parsed(o, e)
    IN  IF n = Junk THEN Junk
        ELSE IF builder[o] # Unset THEN Narrowed(o, builder[o])
        ELSE IF n # Unset THEN Narrowed(o, n)
        ELSE Default[o]

\* parse_bool, of any text.
Meaning(o, raw) == IF o \in Flags THEN raw \in {"true", "1", "yes"} ELSE raw

Other(o, e) ==
    IF builder[o] # Unset THEN builder[o]
    ELSE IF o \in Variables /\ e[o] # Unset THEN Meaning(o, e[o])
    ELSE Default[o]

Trimmed(url) == [url EXCEPT !.slashes = 0]

Resolved(e) ==
    [o \in Options |-> IF o \in Numbers THEN Number(o, e)
                       ELSE IF o = "endpoint" THEN Trimmed(Other(o, e))
                       ELSE Other(o, e)]

Limits == {"events_flush_interval", "events_batch_size", "events_queue_size"}

Refused(err) == [error |-> err, config |-> Unset]

\* What build() makes of the builder in environment e: the endpoint comes
\* first, then the numbers, then the limits.
Outcome(e) ==
    LET c == Resolved(e)
    IN  IF ~c.endpoint.web THEN Refused("InvalidEndpoint")
        ELSE IF \E o \in Numbers : c[o] = Junk THEN Refused("InvalidConfig")
        ELSE IF \E o \in Limits : c[o] = 0 THEN Refused("InvalidConfig")
        ELSE [error |-> "none", config |-> c]

Build ==
    /\ phase = "building"
    /\ error' = Outcome(environ).error
    /\ config' = Outcome(environ).config
    /\ phase' = IF error' = "none" THEN "configured" ELSE "failed"
    /\ UNCHANGED <<buildVars, transport, last>>

-----------------------------------------------------------------------------
(* ClientBuilder.                                                          *)

ReportingEnabled(c) ==
    IF c.enabled # Unset THEN c.enabled ELSE c.env \notin c.exclude_envs

\* Connecting takes no longer than the whole request may.
UrgentBudget(c) ==
    LET total == Smaller(c.request_timeout, UrgentMax)
    IN  [connect |-> Smaller(c.connect_timeout, total), total |-> total]

ServerTransport(c) ==
    [kind |-> "Server", endpoint |-> c.endpoint, api_key |-> c.api_key,
     agent |-> [connect |-> c.connect_timeout, total |-> c.request_timeout],
     urgent_agent |-> UrgentBudget(c)]

\* The transport of the configuration; a key is needed for the service only.
Chosen(c) ==
    IF ~ReportingEnabled(c) THEN [kind |-> "Null"]
    ELSE IF c.api_key = Unset THEN Unset
    ELSE ServerTransport(c)

\* The caller may supply a transport, and the system refuse the thread.
BuildClient(supplied, spawned) ==
    /\ phase = "configured"
    /\ LET t == IF supplied THEN [kind |-> "Supplied"] ELSE Chosen(config)
       IN  /\ error' = IF t = Unset THEN "MissingApiKey"
                       ELSE IF ~spawned THEN "WorkerSpawn" ELSE "none"
           /\ transport' = IF error' = "none" THEN t ELSE Unset
    /\ phase' = IF error' = "none" THEN "client" ELSE "failed"
    /\ UNCHANGED <<buildVars, config, last>>

-----------------------------------------------------------------------------
(* Transport::deliver.                                                     *)

\* Only the form in seconds counts.
RetryAfter(header) ==
    IF header \in 0..U64Max THEN Smaller(header, MaxRetryAfter) ELSE Unset

Agent(urgent) == IF urgent THEN transport.urgent_agent ELSE transport.agent

\* The service answers, with a header or none, or there is no answer.
DeliverServer(urgent, header, answered) ==
    /\ phase = "client"
    /\ transport.kind = "Server"
    /\ last' = [to |-> "Server", urgent |-> urgent, budget |-> Agent(urgent),
                retry_after |-> IF answered THEN RetryAfter(header) ELSE Unset]
    /\ UNCHANGED <<buildVars, phase, error, config, transport>>

\* Nothing leaves the process, and the answer is 201.
DeliverNull ==
    /\ phase = "client"
    /\ transport.kind = "Null"
    /\ last' = [to |-> "nobody"]
    /\ UNCHANGED <<buildVars, phase, error, config, transport>>

Next ==
    \/ \E o \in Options : \E v \in Values[o] : Set(o, v)
    \/ \E o \in Variables : \E raw \in Raws[o] : Export(o, raw)
    \/ Build
    \/ \E supplied, spawned \in BOOLEAN : BuildClient(supplied, spawned)
    \/ \E urgent, answered \in BOOLEAN : \E h \in Headers : DeliverServer(urgent, h, answered)
    \/ DeliverNull

Spec == Init /\ [][Next]_vars

-----------------------------------------------------------------------------
(* Properties.                                                             *)

\* "an environment value is only read, and only validated, when the builder
\* left that option unset": whatever the variable of an option that the
\* builder has set may hold, build() does the same as without it.
BuilderBeatsEnvironment ==
    phase = "building" =>
        \A o \in Variables : builder[o] # Unset =>
            Outcome(environ) = Outcome([environ EXCEPT ![o] = Unset])

\* The number a source gives is the number the pipeline runs with, or the
\* configuration is refused: a large one never wraps to a small one, and only
\* the rate is clamped.
NumbersKept ==
    config # Unset => \A o \in Numbers :
        LET said == IF builder[o] # Unset THEN builder[o]
                    ELSE IF environ[o] # Unset THEN environ[o] ELSE Default[o]
        IN  config[o] = IF o = "events_sample_rate" THEN Smaller(said, 100) ELSE said

\* Every configuration there can be is one the events worker and the sampler
\* are right for (LimitsAssumption of EventsWorker): from whatever source, a
\* batch and a queue of one line at least, a timer that is not zero, retries
\* in a u32 and a rate in per cent.
ConfigUsable ==
    config # Unset =>
        /\ config.events_batch_size \in 1..UsizeMax
        /\ config.events_queue_size \in 1..UsizeMax
        /\ config.events_flush_interval \in 1..U64Max
        /\ config.events_max_retries \in 0..U32Max
        /\ config.events_sample_rate \in 0..100

\* The service hears of nothing without a key, or with reporting turned off
\* by hand, or in an excluded environment unless it is turned on by hand.
ServiceOnlyIfWanted ==
    last # Unset /\ last.to = "Server" =>
        /\ config.api_key # Unset
        /\ config.enabled # FALSE
        /\ config.env \in config.exclude_envs => config.enabled = TRUE

=============================================================================
