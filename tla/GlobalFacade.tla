----------------------------- MODULE GlobalFacade -----------------------------
(***************************************************************************)
(* The process-wide client of src/global.rs and the registration of        *)
(* src/panic_hook.rs: GLOBAL, a mutex around the client of the facade, and *)
(* PANIC_CLIENT, a second slot for the panic hook.  init fills both, the   *)
(* drop of the Guard empties both and shuts the client down, and any       *)
(* thread may meanwhile call the facade.  What a panic does is PanicHook.  *)
(*                                                                         *)
(* A client is its number in the order made, 0 is none.  Steps end where   *)
(* another thread can interfere: at a lock.  While init holds GLOBAL it    *)
(* makes a client and registers it, which other threads can see.           *)
(***************************************************************************)
EXTENDS Integers, FiniteSets

CONSTANTS
    Threads,        \* threads of the application
    Nobody,         \* holds no lock
    MaxClients      \* bound: how many clients are ever made

ASSUME ThreadsAssumption == Nobody \notin Threads
ASSUME ClientsAssumption == MaxClients \in Nat

Clients == 1..MaxClients

VARIABLES
    slot,           \* GLOBAL
    lock,           \* who holds its mutex over several steps
    hook,           \* PANIC_CLIENT
    wants,          \* clients configured with install_panic_hook
    made,           \* clients made so far
    stopped,        \* clients whose shutdown has returned
    pc,             \* where each thread is
    hand,           \* the clone of a client it holds
    guard           \* the client whose Guard it holds

threadVars == <<pc, hand, guard>>
vars == <<slot, lock, hook, wants, made, stopped, threadVars>>

Places == {"app", "init", "publish", "take", "shutdown", "call"}

TypeOK ==
    /\ slot \in Clients \cup {0}
    /\ lock \in Threads \cup {Nobody}
    /\ hook \in wants \cup {0}
    /\ wants \in SUBSET Clients
    /\ made \in 0..MaxClients
    /\ stopped \in SUBSET Clients
    /\ pc \in [Threads -> Places]
    /\ hand \in [Threads -> Clients \cup {0}]
    /\ guard \in [Threads -> Clients \cup {0}]

Init ==
    /\ slot = 0
    /\ lock = Nobody
    /\ hook = 0
    /\ wants = {}
    /\ made = 0
    /\ stopped = {}
    /\ pc = [t \in Threads |-> "app"]
    /\ hand = [t \in Threads |-> 0]
    /\ guard = [t \in Threads |-> 0]

At(t, place) == pc' = [pc EXCEPT ![t] = place]
Hold(t, c) == hand' = [hand EXCEPT ![t] = c]

-----------------------------------------------------------------------------
(* Mutants of the definitions below.                                       *)

\* Guard::drop leaves the panic hook's clone where it is.
NotDeregistered == hook

\* init looks at the slot under one lock and fills it under another.
InitUnlocked(t) ==
    /\ pc[t] = "app" /\ guard[t] = 0
    /\ lock = Nobody
    /\ slot = 0
    /\ made < MaxClients
    /\ At(t, "init")
    /\ UNCHANGED <<slot, lock, hook, wants, made, stopped, hand, guard>>

\* Guard::drop empties both slots under GLOBAL, and locks it again to take.
DropDeregisterLocked(t) ==
    /\ pc[t] = "app" /\ guard[t] # 0
    /\ lock = Nobody
    /\ lock' = t
    /\ hook' = 0
    /\ At(t, "take")
    /\ UNCHANGED <<slot, wants, made, stopped, hand, guard>>

\* Guard::drop looks at the client without taking it.
SlotKept == slot

-----------------------------------------------------------------------------
(* init.                                                                   *)

\* An outstanding guard makes init fail, which changes nothing.
InitLock(t) ==
    /\ pc[t] = "app" /\ guard[t] = 0
    /\ lock = Nobody
    /\ slot = 0
    /\ made < MaxClients
    /\ lock' = t
    /\ At(t, "init")
    /\ UNCHANGED <<slot, hook, wants, made, stopped, hand, guard>>

\* Client::new fails, and with it init.
InitFails(t) ==
    /\ pc[t] = "init"
    /\ lock' = Nobody
    /\ At(t, "app")
    /\ UNCHANGED <<slot, hook, wants, made, stopped, hand, guard>>

\* What PANIC_CLIENT is once client c has been registered, if it wants to be.
Registered(c) == IF c \in wants' THEN c ELSE hook

InitRegister(t) ==
    /\ pc[t] = "init"
    /\ made < MaxClients
    /\ made' = made + 1
    /\ wants' \in {wants, wants \cup {made + 1}}
    /\ hook' = Registered(made + 1)
    /\ Hold(t, made + 1)
    /\ At(t, "publish")
    /\ UNCHANGED <<slot, lock, stopped, guard>>

InitPublish(t) ==
    /\ pc[t] = "publish"
    /\ slot' = hand[t]
    /\ lock' = Nobody
    /\ guard' = [guard EXCEPT ![t] = hand[t]]
    /\ Hold(t, 0)
    /\ At(t, "app")
    /\ UNCHANGED <<hook, wants, made, stopped>>

-----------------------------------------------------------------------------
(* Guard::drop, in the normal course of a thread or while it unwinds.      *)

Deregistered == 0

DropDeregister(t) ==
    /\ pc[t] = "app" /\ guard[t] # 0
    /\ hook' = Deregistered
    /\ At(t, "take")
    /\ UNCHANGED <<slot, lock, wants, made, stopped, hand, guard>>

Taken == 0

DropTake(t) ==
    /\ pc[t] = "take"
    /\ lock = Nobody
    /\ slot' = Taken
    /\ Hold(t, slot)
    /\ At(t, IF slot = 0 THEN "app" ELSE "shutdown")
    /\ guard' = IF slot = 0 THEN [guard EXCEPT ![t] = 0] ELSE guard
    /\ UNCHANGED <<lock, hook, wants, made, stopped>>

\* The shutdown runs outside the lock, and other threads may meanwhile init.
DropShutdown(t) ==
    /\ pc[t] = "shutdown"
    /\ stopped' = stopped \cup {hand[t]}
    /\ guard' = [guard EXCEPT ![t] = 0]
    /\ Hold(t, 0)
    /\ At(t, "app")
    /\ UNCHANGED <<slot, lock, hook, wants, made>>

\* A Guard may move to another thread.
Hand(t, u) ==
    /\ pc[t] = "app" /\ pc[u] = "app"
    /\ guard[t] # 0 /\ guard[u] = 0
    /\ guard' = [guard EXCEPT ![t] = 0, ![u] = guard[t]]
    /\ UNCHANGED <<slot, lock, hook, wants, made, stopped, pc, hand>>

-----------------------------------------------------------------------------
(* Calls of the facade.                                                    *)

\* with_client: a clone is taken under the lock and used outside it.
CallClone(t) ==
    /\ pc[t] = "app"
    /\ lock = Nobody
    /\ slot # 0
    /\ Hold(t, slot)
    /\ At(t, "call")
    /\ UNCHANGED <<slot, lock, hook, wants, made, stopped, guard>>

CallReturns(t) ==
    /\ pc[t] = "call"
    /\ Hold(t, 0)
    /\ At(t, "app")
    /\ UNCHANGED <<slot, lock, hook, wants, made, stopped, guard>>

Step(t) ==
    \/ InitLock(t) \/ InitFails(t) \/ InitRegister(t) \/ InitPublish(t)
    \/ DropDeregister(t) \/ DropTake(t) \/ DropShutdown(t)
    \/ \E u \in Threads : Hand(t, u)
    \/ CallClone(t) \/ CallReturns(t)

Next == \E t \in Threads : Step(t)

Spec == Init /\ [][Next]_vars

-----------------------------------------------------------------------------
(* Properties.                                                             *)

Publishing(c) == \E t \in Threads : pc[t] = "publish" /\ hand[t] = c
Dropping(c) == \E t \in Threads : pc[t] = "take" /\ guard[t] = c

\* The two slots agree although no lock covers both: outside an init and a
\* drop the panic hook reports through the facade's client if that client
\* wants it, and through none otherwise.
HookFollowsSlot ==
    /\ hook # 0 => slot = hook \/ Publishing(hook)
    /\ slot \in wants /\ ~Dropping(slot) => hook = slot

\* Every client has one owner and comes to be stopped: it is being published,
\* is in the slot with exactly one guard for it, is being shut down by the
\* thread that holds that guard, or has been.
GuardOwnsClient ==
    /\ \A t \in Threads : pc[t] = "shutdown" => hand[t] = guard[t]
    /\ \A t, u \in Threads : guard[t] # 0 /\ guard[t] = guard[u] => t = u
    /\ slot # 0 => \E t \in Threads : guard[t] = slot
    /\ \A c \in 1..made :
          \/ c \in stopped \/ slot = c \/ Publishing(c)
          \/ \E t \in Threads : pc[t] = "shutdown" /\ hand[t] = c
=============================================================================
