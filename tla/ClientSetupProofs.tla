-------------------------- MODULE ClientSetupProofs --------------------------
(* What is proved of ClientSetup, for every set of values, every            *)
(* environment and every width of the integers.                             *)
EXTENDS ClientSetup, TLAPS

\* What the proofs need of the builder: an option is unset or holds what one
\* of its setter's calls passed.
BuilderOK ==
    /\ builder = [o \in Options |-> builder[o]]
    /\ \A o \in Numbers \cup Flags : builder[o] \in Values[o] \cup {Unset}

\* And of the environment.
EnvironOK ==
    /\ environ = [o \in Variables |-> environ[o]]
    /\ \A o \in Numbers : environ[o] \in Raws[o] \cup {Unset}

Phases ==
    /\ phase \in {"building", "configured", "failed", "client"}
    /\ phase = "building" => config = Unset

\* A client delivers over the transport that its configuration calls for, or
\* over the caller's, and to the service only if it is to.
Served ==
    /\ phase \in {"configured", "client"} => config.enabled \in BOOLEAN \cup {Unset}
    /\ phase \in {"building", "configured"} => last = Unset
    /\ phase = "client" => transport \in {[kind |-> "Supplied"], Chosen(config)} \ {Unset}
    /\ ServiceOnlyIfWanted

\* Once there is a configuration, builder and environment are those it was
\* built from.
Built ==
    /\ BuilderOK
    /\ EnvironOK
    /\ Phases
    /\ ConfigUsable
    /\ NumbersKept

\* The inductive invariant.
IInv == Built /\ Served

USE DEF Numbers, Variables, Flags, Texts, Options, NoticeOptions, EventOptions

-----------------------------------------------------------------------------

\* A number of the configuration is what the first of its sources says, or
\* does not fit; it always fits the type of its field.
LEMMA NumberFits ==
    ASSUME BuilderOK, EnvironOK, NEW o \in Numbers, Number(o, environ) # Junk
    PROVE  /\ Number(o, environ) \in 0..Width[o]
           /\ o = "events_sample_rate" => Number(o, environ) \in 0..100
           /\ LET said == IF builder[o] # Unset THEN builder[o]
                          ELSE IF environ[o] # Unset THEN environ[o] ELSE Default[o]
              IN  Number(o, environ) =
                      IF o = "events_sample_rate" THEN Smaller(said, 100) ELSE said
<1> DEFINE n == Parsed(o, environ)
<1>1. Width[o] \in Nat /\ Default[o] \in 0..Width[o]
      /\ (o = "events_sample_rate" => Default[o] = 100 /\ 100 <= Width[o])
  BY WidthsAssumption DEF Width, Default
<1>2. CASE builder[o] # Unset
  <2>1. n = Unset
    BY <1>2 DEF Parsed
  <2>2. builder[o] \in 0..Width[o]
    BY <1>2, SourcesAssumption DEF BuilderOK
  <2>3. Number(o, environ) = Narrowed(o, builder[o])
    BY <1>2, <2>1, SourcesAssumption DEF Number
  <2> QED
    BY <1>1, <1>2, <2>2, <2>3 DEF Narrowed, Smaller
<1>3. CASE builder[o] = Unset /\ environ[o] = Unset
  <2>1. n = Unset
    BY <1>3 DEF Parsed
  <2>2. Number(o, environ) = Default[o]
    BY <1>3, <2>1, SourcesAssumption DEF Number
  <2> QED
    BY <1>1, <1>3, <2>2 DEF Smaller
<1>4. CASE builder[o] = Unset /\ environ[o] # Unset
  <2>1. n \in 0..U64Max /\ n = environ[o]
    BY <1>4, SourcesAssumption DEF Number, Parsed
  <2>2. Number(o, environ) = Narrowed(o, n)
    BY <1>4, <2>1, SourcesAssumption, WidthsAssumption DEF Number
  <2>3. n \in Nat
    BY <2>1, WidthsAssumption
  <2> QED
    BY <1>1, <1>4, <2>1, <2>2, <2>3 DEF Narrowed, Smaller
<1> QED
  BY <1>2, <1>3, <1>4

\* A configuration that build() returns is usable and keeps its numbers.
LEMMA OutcomeUsable ==
    ASSUME BuilderOK, EnvironOK, Outcome(environ).error = "none"
    PROVE  LET c == Outcome(environ).config
           IN  /\ c.events_batch_size \in 1..UsizeMax
               /\ c.events_queue_size \in 1..UsizeMax
               /\ c.events_flush_interval \in 1..U64Max
               /\ c.events_max_retries \in 0..U32Max
               /\ c.events_sample_rate \in 0..100
               /\ \A o \in Numbers : c[o] = Number(o, environ) /\ c[o] # Junk
<1> DEFINE c == Resolved(environ)
<1>1. /\ Outcome(environ).config = c
      /\ \A o \in Numbers : c[o] # Junk
      /\ \A o \in Limits : c[o] # 0
  BY DEF Outcome, Refused
<1>2. \A o \in Numbers : c[o] = Number(o, environ)
  BY DEF Resolved
<1>3. \A o \in Numbers : c[o] \in 0..Width[o]
  BY <1>1, <1>2, NumberFits
<1>4. c.events_sample_rate \in 0..100
  BY <1>1, <1>2, NumberFits
<1>5. \A o \in Limits : c[o] \in 1..Width[o]
  BY <1>1, <1>3, WidthsAssumption DEF Limits, Width
<1> QED
  BY <1>1, <1>2, <1>3, <1>4, <1>5 DEF Limits, Width

\* A builder that nothing was set on.
LEMMA InitIInv == Init => IInv
<1> SUFFICES ASSUME Init PROVE IInv
  OBVIOUS
<1>1. BuilderOK
  BY DEF Init, BuilderOK
<1>2. EnvironOK
  BY DEF Init, EnvironOK
<1>3. config = Unset /\ phase = "building"
  BY DEF Init
<1> QED
  BY <1>1, <1>2, <1>3
  DEF Init, IInv, Built, Phases, ConfigUsable, NumbersKept, Served, ServiceOnlyIfWanted

\* Every setter and every phase of the build keeps to the sources.
LEMMA StepBuilt == Built /\ [Next]_vars => Built'
<1> SUFFICES ASSUME Built, [Next]_vars PROVE Built'
  OBVIOUS
<1> USE DEF Built
<1>1. ASSUME NEW o \in Options, NEW v \in Values[o], Set(o, v) PROVE Built'
  BY <1>1, ZenonT(40) DEF Set, BuilderOK, EnvironOK, Phases, ConfigUsable, NumbersKept
<1>2. ASSUME NEW o \in Variables, NEW raw \in Raws[o], Export(o, raw) PROVE Built'
  BY <1>2 DEF Export, BuilderOK, EnvironOK, Phases, ConfigUsable, NumbersKept
<1>3. CASE Build
  <2>1. BuilderOK' /\ EnvironOK'
    BY <1>3 DEF Build, buildVars, BuilderOK, EnvironOK
  <2>2. Phases'
    BY <1>3 DEF Build, Phases
  <2>3. CASE error' = "none"
    <3>1. Outcome(environ).error = "none" /\ config' = Outcome(environ).config
      BY <1>3, <2>3 DEF Build
    <3>2. ConfigUsable'
      BY <3>1, OutcomeUsable DEF ConfigUsable
    <3>3. \A o \in Numbers : config'[o] = Number(o, environ) /\ Number(o, environ) # Junk
      BY <3>1, OutcomeUsable
    <3>4. builder' = builder /\ environ' = environ
      BY <1>3 DEF Build, buildVars
    <3>5. NumbersKept'
      BY <3>3, <3>4, NumberFits DEF NumbersKept
    <3> QED
      BY <2>1, <2>2, <3>2, <3>5
  <2>4. CASE error' # "none"
    <3>1. config' = Unset
      BY <1>3, <2>4 DEF Build, Outcome, Refused
    <3> QED
      BY <2>1, <2>2, <3>1 DEF ConfigUsable, NumbersKept
  <2> QED
    BY <2>3, <2>4
<1>4. ASSUME NEW supplied \in BOOLEAN, NEW spawned \in BOOLEAN,
             BuildClient(supplied, spawned)
      PROVE Built'
  BY <1>4
  DEF BuildClient, buildVars, BuilderOK, EnvironOK, Phases, ConfigUsable, NumbersKept
<1>5. ASSUME UNCHANGED <<buildVars, phase, config>> PROVE Built'
  BY <1>5 DEF buildVars, BuilderOK, EnvironOK, Phases, ConfigUsable, NumbersKept
<1> QED
  BY <1>1, <1>2, <1>3, <1>4, <1>5 DEF Next, DeliverServer, DeliverNull, vars

\* Whether reporting is on is yes, no or unset, whoever says it.
LEMMA EnabledIsFlag ==
    ASSUME BuilderOK
    PROVE  Resolved(environ).enabled \in BOOLEAN \cup {Unset}
<1>1. builder["enabled"] \in BOOLEAN \cup {Unset}
  BY SourcesAssumption DEF BuilderOK
<1>2. Meaning("enabled", environ["enabled"]) \in BOOLEAN
  BY DEF Meaning
<1>3. Default.enabled = Unset
  BY DEF Default
<1>4. Other("enabled", environ) \in BOOLEAN \cup {Unset}
  BY <1>1, <1>2, <1>3 DEF Other
<1> QED BY <1>4 DEF Resolved

\* The transport to the service is chosen only if it is wanted.
LEMMA ServiceWanted ==
    ASSUME NEW c, c.enabled \in BOOLEAN \cup {Unset}, Chosen(c) # Unset, Chosen(c).kind = "Server"
    PROVE  /\ c.api_key # Unset
           /\ c.enabled # FALSE
           /\ c.env \in c.exclude_envs => c.enabled = TRUE
<1>1. ReportingEnabled(c) /\ c.api_key # Unset
  BY DEF Chosen
<1>2. Unset # FALSE /\ Unset # TRUE
  BY SourcesAssumption
<1> QED BY <1>1, <1>2 DEF ReportingEnabled

\* What is delivered goes where the configuration says.
LEMMA StepServed == IInv /\ [Next]_vars => Served'
<1> SUFFICES ASSUME IInv, [Next]_vars PROVE Served'
  OBVIOUS
<1> USE DEF IInv, Built
<1>1. ASSUME UNCHANGED <<phase, config, transport, last>> PROVE Served'
  BY <1>1 DEF Served, ServiceOnlyIfWanted
<1>2. CASE Build
  <2>1. last' = Unset /\ phase' \in {"configured", "failed"}
    BY <1>2 DEF Build, Served
  <2>2. phase' = "configured" => config' = Resolved(environ)
    BY <1>2 DEF Build, Outcome, Refused
  <2> QED BY <2>1, <2>2, EnabledIsFlag DEF Served, ServiceOnlyIfWanted
<1>3. ASSUME NEW supplied \in BOOLEAN, NEW spawned \in BOOLEAN,
             BuildClient(supplied, spawned)
      PROVE Served'
  <2>1. /\ last' = Unset /\ config' = config /\ phase' \in {"client", "failed"}
        /\ phase' = "client" => error' = "none"
    BY <1>3 DEF BuildClient, Served
  <2>2. error' = "none" => transport' \in {[kind |-> "Supplied"], Chosen(config)} \ {Unset}
    BY <1>3 DEF BuildClient
  <2>3. config.enabled \in BOOLEAN \cup {Unset}
    BY <1>3 DEF BuildClient, Served
  <2> QED BY <2>1, <2>2, <2>3 DEF Served, ServiceOnlyIfWanted
<1>4. ASSUME NEW urgent \in BOOLEAN, NEW answered \in BOOLEAN, NEW h \in Headers,
             DeliverServer(urgent, h, answered)
      PROVE Served'
  <2>1. /\ phase = "client" /\ transport.kind = "Server"
        /\ UNCHANGED <<phase, config, transport>>
    BY <1>4 DEF DeliverServer
  <2>2. Chosen(config).kind = "Server" /\ Chosen(config) # Unset
        /\ config.enabled \in BOOLEAN \cup {Unset}
    BY <2>1 DEF Served
  <2>3. ServiceOnlyIfWanted'
    BY <2>1, <2>2, ServiceWanted DEF ServiceOnlyIfWanted
  <2> QED BY <2>1, <2>3 DEF Served
<1>5. CASE DeliverNull
  <2>1. /\ phase = "client" /\ last' = [to |-> "nobody"]
        /\ UNCHANGED <<phase, config, transport>>
    BY <1>5 DEF DeliverNull
  <2> QED BY <2>1 DEF Served, ServiceOnlyIfWanted
<1> QED
  BY <1>1, <1>2, <1>3, <1>4, <1>5 DEF Next, Set, Export, vars

\* Every step keeps the invariant.
LEMMA StepIInv == IInv /\ [Next]_vars => IInv'
BY StepBuilt, StepServed DEF IInv

\* However the client is configured, the build stays within it.
THEOREM Invariance == Spec => []IInv
BY InitIInv, StepIInv, PTL DEF Spec

\* The limits the events worker's own correctness assumes of its
\* configuration hold of every one that is ever built.
THEOREM Usable == Spec => []ConfigUsable
<1>1. IInv => ConfigUsable
  BY DEF IInv, Built
<1> QED
  BY <1>1, Invariance, PTL

\* No number wraps on its way from its source to the configuration.
THEOREM Kept == Spec => []NumbersKept
<1>1. IInv => NumbersKept
  BY DEF IInv, Built
<1> QED
  BY <1>1, Invariance, PTL

\* Of the variable of an option that the builder set, build() sees nothing.
LEMMA NotRead ==
    ASSUME EnvironOK, NEW o \in Variables, builder[o] # Unset
    PROVE  Outcome(environ) = Outcome([environ EXCEPT ![o] = Unset])
<1> DEFINE e == [environ EXCEPT ![o] = Unset]
<1>1. \A p \in Variables : p # o => e[p] = environ[p]
  BY DEF EnvironOK
<1>2. \A p \in Numbers : Parsed(p, environ) = Parsed(p, e)
  BY <1>1 DEF Parsed
<1>3. \A p \in Numbers : Number(p, environ) = Number(p, e)
  BY <1>2 DEF Number
<1>4. \A p \in Options : Other(p, environ) = Other(p, e)
  BY <1>1 DEF Other
<1>5. Resolved(environ) = Resolved(e)
  BY <1>3, <1>4 DEF Resolved
<1> QED
  BY <1>5 DEF Outcome

\* The builder comes before the environment, a variable that does not even
\* parse included.
THEOREM BuilderFirst == Spec => []BuilderBeatsEnvironment
<1>1. IInv => BuilderBeatsEnvironment
  BY NotRead DEF IInv, Built, BuilderBeatsEnvironment
<1> QED
  BY <1>1, Invariance, PTL

\* The service hears of nothing without a key, or with reporting turned off by
\* hand, or in an excluded environment unless it is turned on by hand.
THEOREM ServiceWhenWanted == Spec => []ServiceOnlyIfWanted
<1>1. IInv => ServiceOnlyIfWanted
  BY DEF IInv, Served
<1> QED
  BY <1>1, Invariance, PTL
=============================================================================
