--------------------------- MODULE PanicHookProofs ---------------------------
(***************************************************************************)
(* Theorems about GlobalFacade and PanicHook, for any set of threads and   *)
(* any number of clients, any nesting of user code and any number of       *)
(* panics.  Those about the facade come first; they carry over to          *)
(* PanicHook, because a step of it is a step of the facade or leaves the   *)
(* facade alone.                                                           *)
(***************************************************************************)
EXTENDS PanicHook, FiniteSetTheorems, SequenceTheorems, WellFoundedInduction, TLAPS

-----------------------------------------------------------------------------
(* The facade: the two slots agree, and every client has one owner until it *)
(* is stopped.                                                              *)


\* GLOBAL is held over several steps by the one thread inside init, and only
\* while it is empty.
LockHeld ==
    /\ \A t \in Threads : pc[t] \in {"init", "publish"} <=> lock = t
    /\ lock # Nobody => slot = 0

\* Clients are numbered as they are made, and a thread holds a guard only
\* outside init.
Numbered ==
    /\ wants \in SUBSET (1..made) /\ stopped \in SUBSET (1..made)
    /\ slot \in 0..made
    /\ \A t \in Threads :
          /\ guard[t] \in 0..made
          /\ pc[t] \in {"init", "publish"} => guard[t] = 0
          /\ pc[t] \in {"take", "shutdown"} => guard[t] # 0
          /\ pc[t] = "publish" => hand[t] = made /\ made # 0

\* A guard is of the client in the slot until its drop has taken the client
\* out, and nobody else's.
Guarding ==
    \A t \in Threads :
       guard[t] # 0 => IF pc[t] = "shutdown" THEN slot # guard[t] ELSE slot = guard[t]

\* A client in use has not been stopped.
Alive ==
    /\ slot \notin stopped
    /\ \A t \in Threads : pc[t] = "publish" => hand[t] \notin stopped
                                               /\ \A u \in Threads : guard[u] # hand[t]
    /\ \A t \in Threads : guard[t] \notin stopped

\* The panic hook's slot while a drop has emptied it, and while init has
\* filled it and not yet GLOBAL.
HookPhases ==
    /\ \A t \in Threads : pc[t] = "take" => hook = 0
    /\ \A t \in Threads : pc[t] = "publish" /\ hand[t] \in wants => hook = hand[t]

IInv ==
    /\ TypeOK
    /\ LockHeld
    /\ Numbered
    /\ Guarding
    /\ Alive
    /\ HookPhases
    /\ HookFollowsSlot
    /\ GuardOwnsClient

\* A process starts with no client, no guard and no hook.
LEMMA InitIInv == Init => IInv
BY ThreadsAssumption, ClientsAssumption
DEF Init, IInv, TypeOK, Clients, Places, LockHeld, Numbered, Guarding, Alive, HookPhases,
    HookFollowsSlot, GuardOwnsClient, Publishing, Dropping

\* Every step of every thread keeps it so.
LEMMA StepIInv == IInv /\ [Next]_vars => IInv'
<1> SUFFICES ASSUME IInv, [Next]_vars PROVE IInv'
  OBVIOUS
<1> USE ThreadsAssumption, ClientsAssumption DEF IInv, Clients, Places, At, Hold
<1>1. ASSUME NEW t \in Threads, InitLock(t) PROVE IInv'
  <2>1. TypeOK'
    BY <1>1 DEF InitLock, TypeOK
  <2>2. LockHeld'
    BY <1>1 DEF InitLock, TypeOK, LockHeld
  <2>3. Numbered'
    BY <1>1 DEF InitLock, TypeOK, LockHeld, Numbered
  <2>4. Guarding'
    BY <1>1 DEF InitLock, TypeOK, LockHeld, Numbered, Guarding, GuardOwnsClient
  <2>5. Alive'
    BY <1>1 DEF InitLock, TypeOK, LockHeld, Numbered, Guarding, Alive, GuardOwnsClient
  <2>6. HookPhases'
    BY <1>1
    DEF InitLock, TypeOK, LockHeld, Numbered, Guarding, HookPhases, HookFollowsSlot,
        Publishing
  <2>7. HookFollowsSlot'
    BY <1>1
    DEF InitLock, TypeOK, LockHeld, Numbered, Guarding, HookPhases, HookFollowsSlot,
        Publishing, Dropping, GuardOwnsClient
  <2>8. GuardOwnsClient'
    BY <1>1
    DEF InitLock, TypeOK, LockHeld, Numbered, Guarding, Alive, GuardOwnsClient, Publishing
  <2> QED BY <2>1, <2>2, <2>3, <2>4, <2>5, <2>6, <2>7, <2>8
<1>2. ASSUME NEW t \in Threads, InitFails(t) PROVE IInv'
  <2>1. TypeOK'
    BY <1>2 DEF InitFails, TypeOK
  <2>2. LockHeld'
    BY <1>2 DEF InitFails, TypeOK, LockHeld
  <2>3. Numbered'
    BY <1>2 DEF InitFails, TypeOK, LockHeld, Numbered
  <2>4. Guarding'
    BY <1>2 DEF InitFails, TypeOK, LockHeld, Numbered, Guarding, GuardOwnsClient
  <2>5. Alive'
    BY <1>2 DEF InitFails, TypeOK, LockHeld, Numbered, Guarding, Alive, GuardOwnsClient
  <2>6. HookPhases'
    BY <1>2
    DEF InitFails, TypeOK, LockHeld, Numbered, Guarding, HookPhases, HookFollowsSlot,
        Publishing
  <2>7. HookFollowsSlot'
    BY <1>2
    DEF InitFails, TypeOK, LockHeld, Numbered, Guarding, HookPhases, HookFollowsSlot,
        Publishing, Dropping, GuardOwnsClient
  <2>8. GuardOwnsClient'
    BY <1>2
    DEF InitFails, TypeOK, LockHeld, Numbered, Guarding, Alive, GuardOwnsClient,
        Publishing
  <2> QED BY <2>1, <2>2, <2>3, <2>4, <2>5, <2>6, <2>7, <2>8
<1>3. ASSUME NEW t \in Threads, InitRegister(t) PROVE IInv'
  <2>1. TypeOK'
    BY <1>3 DEF InitRegister, Registered, TypeOK
  <2>2. LockHeld'
    BY <1>3 DEF InitRegister, Registered, TypeOK, LockHeld
  <2>3. Numbered'
    BY <1>3 DEF InitRegister, Registered, TypeOK, LockHeld, Numbered
  <2>4. Guarding'
    BY <1>3
    DEF InitRegister, Registered, TypeOK, LockHeld, Numbered, Guarding, GuardOwnsClient
  <2>5. Alive'
    BY <1>3
    DEF InitRegister, Registered, TypeOK, LockHeld, Numbered, Guarding, Alive,
        GuardOwnsClient
  <2>6. HookPhases'
    BY <1>3
    DEF InitRegister, Registered, TypeOK, LockHeld, Numbered, Guarding, HookPhases,
        HookFollowsSlot, Publishing
  <2>7. HookFollowsSlot'
    BY <1>3
    DEF InitRegister, Registered, TypeOK, LockHeld, Numbered, Guarding, HookPhases,
        HookFollowsSlot, Publishing, Dropping, GuardOwnsClient
  <2>8. GuardOwnsClient'
    BY <1>3
    DEF InitRegister, Registered, TypeOK, LockHeld, Numbered, Guarding, Alive,
        GuardOwnsClient, Publishing
  <2> QED BY <2>1, <2>2, <2>3, <2>4, <2>5, <2>6, <2>7, <2>8
<1>4. ASSUME NEW t \in Threads, InitPublish(t) PROVE IInv'
  <2>1. TypeOK'
    BY <1>4 DEF InitPublish, TypeOK
  <2>2. LockHeld'
    BY <1>4 DEF InitPublish, TypeOK, LockHeld
  <2>3. Numbered'
    BY <1>4 DEF InitPublish, TypeOK, LockHeld, Numbered
  <2>4. Guarding'
    BY <1>4 DEF InitPublish, TypeOK, LockHeld, Numbered, Guarding, Alive, GuardOwnsClient
  <2>5. Alive'
    BY <1>4 DEF InitPublish, TypeOK, LockHeld, Numbered, Guarding, Alive, GuardOwnsClient
  <2>6. HookPhases'
    BY <1>4
    DEF InitPublish, TypeOK, LockHeld, Numbered, Guarding, HookPhases, HookFollowsSlot,
        Publishing
  <2>7. HookFollowsSlot'
    BY <1>4
    DEF InitPublish, TypeOK, LockHeld, Numbered, Guarding, HookPhases, HookFollowsSlot,
        Publishing, Dropping, GuardOwnsClient
  <2>8. GuardOwnsClient'
    BY <1>4
    DEF InitPublish, TypeOK, LockHeld, Numbered, Guarding, Alive, GuardOwnsClient,
        Publishing
  <2> QED BY <2>1, <2>2, <2>3, <2>4, <2>5, <2>6, <2>7, <2>8
<1>5. ASSUME NEW t \in Threads, DropDeregister(t) PROVE IInv'
  <2>1. TypeOK'
    BY <1>5 DEF DropDeregister, Deregistered, TypeOK
  <2>2. LockHeld'
    BY <1>5 DEF DropDeregister, Deregistered, TypeOK, LockHeld
  <2>3. Numbered'
    BY <1>5 DEF DropDeregister, Deregistered, TypeOK, LockHeld, Numbered
  <2>4. Guarding'
    BY <1>5
    DEF DropDeregister, Deregistered, TypeOK, LockHeld, Numbered, Guarding,
        GuardOwnsClient
  <2>5. Alive'
    BY <1>5
    DEF DropDeregister, Deregistered, TypeOK, LockHeld, Numbered, Guarding, Alive,
        GuardOwnsClient
  <2>6. HookPhases'
    BY <1>5
    DEF DropDeregister, Deregistered, TypeOK, LockHeld, Numbered, Guarding, HookPhases,
        HookFollowsSlot, Publishing
  <2>7. HookFollowsSlot'
    BY <1>5
    DEF DropDeregister, Deregistered, TypeOK, LockHeld, Numbered, Guarding, HookPhases,
        HookFollowsSlot, Publishing, Dropping, GuardOwnsClient
  <2>8. GuardOwnsClient'
    BY <1>5
    DEF DropDeregister, Deregistered, TypeOK, LockHeld, Numbered, Guarding, Alive,
        GuardOwnsClient, Publishing
  <2> QED BY <2>1, <2>2, <2>3, <2>4, <2>5, <2>6, <2>7, <2>8
<1>6. ASSUME NEW t \in Threads, DropTake(t) PROVE IInv'
  <2>1. TypeOK'
    BY <1>6 DEF DropTake, Taken, TypeOK
  <2>2. LockHeld'
    BY <1>6 DEF DropTake, Taken, TypeOK, LockHeld
  <2>3. Numbered'
    BY <1>6 DEF DropTake, Taken, TypeOK, LockHeld, Numbered
  <2>4. Guarding'
    BY <1>6 DEF DropTake, Taken, TypeOK, LockHeld, Numbered, Guarding, GuardOwnsClient
  <2>5. Alive'
    BY <1>6
    DEF DropTake, Taken, TypeOK, LockHeld, Numbered, Guarding, Alive, GuardOwnsClient
  <2>6. HookPhases'
    BY <1>6
    DEF DropTake, Taken, TypeOK, LockHeld, Numbered, Guarding, HookPhases,
        HookFollowsSlot, Publishing
  <2>7. HookFollowsSlot'
    BY <1>6
    DEF DropTake, Taken, TypeOK, LockHeld, Numbered, Guarding, HookPhases,
        HookFollowsSlot, Publishing, Dropping, GuardOwnsClient
  <2>8. GuardOwnsClient'
    BY <1>6
    DEF DropTake, Taken, TypeOK, LockHeld, Numbered, Guarding, Alive, GuardOwnsClient,
        Publishing
  <2> QED BY <2>1, <2>2, <2>3, <2>4, <2>5, <2>6, <2>7, <2>8
<1>7. ASSUME NEW t \in Threads, DropShutdown(t) PROVE IInv'
  <2>1. TypeOK'
    BY <1>7, ZenonT(40) DEF DropShutdown, TypeOK, Numbered, GuardOwnsClient
  <2>2. LockHeld'
    BY <1>7 DEF DropShutdown, TypeOK, LockHeld
  <2>3. Numbered'
    <3>1. hand[t] \in 1..made
      BY <1>7 DEF DropShutdown, TypeOK, Numbered, GuardOwnsClient
    <3>2. stopped' \in SUBSET (1..made)
      BY <1>7, <3>1 DEF DropShutdown, Numbered
    <3> QED
      BY <1>7, <3>2 DEF DropShutdown, TypeOK, Numbered
  <2>4. Guarding'
    BY <1>7 DEF DropShutdown, TypeOK, LockHeld, Numbered, Guarding, GuardOwnsClient
  <2>5. Alive'
    BY <1>7 DEF DropShutdown, TypeOK, LockHeld, Numbered, Guarding, Alive, GuardOwnsClient
  <2>6. HookPhases'
    BY <1>7
    DEF DropShutdown, TypeOK, LockHeld, Numbered, Guarding, HookPhases, HookFollowsSlot,
        Publishing
  <2>7. HookFollowsSlot'
    BY <1>7
    DEF DropShutdown, TypeOK, LockHeld, Numbered, Guarding, HookPhases, HookFollowsSlot,
        Publishing, Dropping, GuardOwnsClient
  <2>8. GuardOwnsClient'
    BY <1>7
    DEF DropShutdown, TypeOK, LockHeld, Numbered, Guarding, Alive, GuardOwnsClient,
        Publishing
  <2> QED BY <2>1, <2>2, <2>3, <2>4, <2>5, <2>6, <2>7, <2>8
<1>8. ASSUME NEW t \in Threads, NEW u \in Threads, Hand(t, u) PROVE IInv'
  <2>1. TypeOK'
    BY <1>8 DEF Hand, TypeOK
  <2>2. LockHeld'
    BY <1>8 DEF Hand, TypeOK, LockHeld
  <2>3. Numbered'
    BY <1>8 DEF Hand, TypeOK, LockHeld, Numbered
  <2>4. Guarding'
    BY <1>8 DEF Hand, TypeOK, LockHeld, Numbered, Guarding, GuardOwnsClient
  <2>5. Alive'
    BY <1>8 DEF Hand, TypeOK, LockHeld, Numbered, Guarding, Alive, GuardOwnsClient
  <2>6. HookPhases'
    BY <1>8
    DEF Hand, TypeOK, LockHeld, Numbered, Guarding, HookPhases, HookFollowsSlot,
        Publishing
  <2>7. HookFollowsSlot'
    BY <1>8
    DEF Hand, TypeOK, LockHeld, Numbered, Guarding, HookPhases, HookFollowsSlot,
        Publishing, Dropping, GuardOwnsClient
  <2>8. GuardOwnsClient'
    BY <1>8
    DEF Hand, TypeOK, LockHeld, Numbered, Guarding, Alive, GuardOwnsClient, Publishing
  <2> QED BY <2>1, <2>2, <2>3, <2>4, <2>5, <2>6, <2>7, <2>8
<1>9. ASSUME NEW t \in Threads, CallClone(t) PROVE IInv'
  <2>1. TypeOK'
    BY <1>9 DEF CallClone, TypeOK
  <2>2. LockHeld'
    BY <1>9 DEF CallClone, TypeOK, LockHeld
  <2>3. Numbered'
    BY <1>9 DEF CallClone, TypeOK, LockHeld, Numbered
  <2>4. Guarding'
    BY <1>9 DEF CallClone, TypeOK, LockHeld, Numbered, Guarding, GuardOwnsClient
  <2>5. Alive'
    BY <1>9 DEF CallClone, TypeOK, LockHeld, Numbered, Guarding, Alive, GuardOwnsClient
  <2>6. HookPhases'
    BY <1>9
    DEF CallClone, TypeOK, LockHeld, Numbered, Guarding, HookPhases, HookFollowsSlot,
        Publishing
  <2>7. HookFollowsSlot'
    BY <1>9
    DEF CallClone, TypeOK, LockHeld, Numbered, Guarding, HookPhases, HookFollowsSlot,
        Publishing, Dropping, GuardOwnsClient
  <2>8. GuardOwnsClient'
    BY <1>9
    DEF CallClone, TypeOK, LockHeld, Numbered, Guarding, Alive, GuardOwnsClient,
        Publishing
  <2> QED BY <2>1, <2>2, <2>3, <2>4, <2>5, <2>6, <2>7, <2>8
<1>10. ASSUME NEW t \in Threads, CallReturns(t) PROVE IInv'
  <2>1. TypeOK'
    BY <1>10 DEF CallReturns, TypeOK
  <2>2. LockHeld'
    BY <1>10 DEF CallReturns, TypeOK, LockHeld
  <2>3. Numbered'
    BY <1>10 DEF CallReturns, TypeOK, LockHeld, Numbered
  <2>4. Guarding'
    BY <1>10 DEF CallReturns, TypeOK, LockHeld, Numbered, Guarding, GuardOwnsClient
  <2>5. Alive'
    BY <1>10 DEF CallReturns, TypeOK, LockHeld, Numbered, Guarding, Alive, GuardOwnsClient
  <2>6. HookPhases'
    BY <1>10
    DEF CallReturns, TypeOK, LockHeld, Numbered, Guarding, HookPhases, HookFollowsSlot,
        Publishing
  <2>7. HookFollowsSlot'
    BY <1>10
    DEF CallReturns, TypeOK, LockHeld, Numbered, Guarding, HookPhases, HookFollowsSlot,
        Publishing, Dropping, GuardOwnsClient
  <2>8. GuardOwnsClient'
    BY <1>10
    DEF CallReturns, TypeOK, LockHeld, Numbered, Guarding, Alive, GuardOwnsClient,
        Publishing
  <2> QED BY <2>1, <2>2, <2>3, <2>4, <2>5, <2>6, <2>7, <2>8
<1>11. CASE UNCHANGED vars
  BY <1>11
  DEF vars, threadVars, TypeOK, LockHeld, Numbered, Guarding, Alive, HookPhases,
      HookFollowsSlot,
    GuardOwnsClient, Publishing, Dropping
<1> QED
  BY <1>1, <1>2, <1>3, <1>4, <1>5, <1>6, <1>7, <1>8, <1>9, <1>10, <1>11 DEF Next, Step

\* Inits, guards and drops interleave as they like and stay within it.
THEOREM Invariance == Spec => []IInv
BY InitIInv, StepIInv, PTL DEF Spec

\* GLOBAL and PANIC_CLIENT agree although no lock covers both: outside an init
\* and a drop the panic hook has the client of the facade, or none.
THEOREM SlotsAgree == Spec => []HookFollowsSlot
<1>1. IInv => HookFollowsSlot
  BY DEF IInv
<1> QED BY <1>1, Invariance, PTL

\* Every client init has made has exactly one owner that comes to stop it.
THEOREM NoneForgotten == Spec => []GuardOwnsClient
<1>1. IInv => GuardOwnsClient
  BY DEF IInv
<1> QED BY <1>1, Invariance, PTL

-----------------------------------------------------------------------------
(* The panic hook.                                                         *)

Frame == [kind : Kinds, client : 0..MaxClients, previous : BOOLEAN]

PanicTypeOK ==
    /\ code \in [Threads -> Seq(Frame)]
    /\ suppressed \in [Threads -> BOOLEAN]
    /\ inHook \in [Threads -> BOOLEAN]
    /\ step \in [Threads -> {"none", "look", "report", "chain"}]
    /\ reporter \in [Threads -> 0..MaxClients]
    /\ panics \in Nat
    /\ current \in [Threads -> 0..panics]
    /\ caught \in SUBSET (1..panics)
    /\ contained \in SUBSET (1..panics)
    /\ due \in SUBSET (1..panics)
    /\ filed \in SUBSET (1..panics)
    /\ chained \in SUBSET (1..panics)

\* Whether one of the first n pieces of user code on the thread runs guarded.
GuardedBelow(t, n) == \E i \in 1..n : code[t][i].kind \in Guarded

\* SUPPRESSED is set under a guard, and each guard remembers whether there
\* was one below it.
Suppression ==
    \A t \in Threads :
        /\ suppressed[t] <=> GuardedBelow(t, Len(code[t]))
        /\ \A i \in 1..Len(code[t]) : code[t][i].previous <=> GuardedBelow(t, i - 1)

\* What the dispatcher of a thread holds at each of its steps.
Phases ==
    \A t \in Threads :
        /\ inHook[t] <=> step[t] \in {"look", "report"}
        /\ current[t] = 0 <=> step[t] = "none"
        /\ reporter[t] # 0 <=> step[t] = "report"

\* How far each panic has come that a thread is in: whether it is to be
\* reported, and may be.
Underway ==
    /\ contained \subseteq caught
    /\ \A t, u \in Threads : current[t] # 0 /\ current[t] = current[u] => t = u
    /\ \A t \in Threads :
        /\ step[t] = "look" => /\ current[t] \notin due \cup filed
                               /\ current[t] \in contained <=> suppressed[t]
        /\ step[t] = "report" => /\ current[t] \notin caught => current[t] \in due
                                 /\ current[t] \notin contained
        /\ step[t] = "chain" =>
              /\ current[t] \notin caught => (current[t] \in filed <=> current[t] \in due)
              /\ current[t] \in contained => current[t] \notin filed

PanicInv ==
    /\ PanicTypeOK
    /\ Suppression
    /\ Phases
    /\ Underway
    /\ EscapedAreFiled

-----------------------------------------------------------------------------
(* Stacks of user code.                                                    *)

\* A set of positions has a largest, which Chain's choice therefore finds.
LEMMA LargestIn ==
    ASSUME NEW n \in Nat, NEW S \in SUBSET (1..n), S # {}
    PROVE  Largest(S) \in S
<1> DEFINE Above(i) == {j \in 1..n : j > i}
           above == {Above(i) : i \in S}
<1>1. IsFiniteSet(1..n)
  BY FS_Interval
<1>2. IsWellFoundedOn(StrictSubsetOrdering(1..n), FiniteSubsetsOf(1..n))
  BY FS_StrictSubsetOrderingWellFounded
<1>3. above \subseteq FiniteSubsetsOf(1..n) /\ above # {}
  <2>1. \A i \in S : Above(i) \in SUBSET (1..n)
    OBVIOUS
  <2>2. FiniteSubsetsOf(1..n) = SUBSET (1..n)
    BY <1>1, FS_FiniteSubsetsOfFinite
  <2>3. above \subseteq SUBSET (1..n)
    BY <2>1
  <2>4. above # {}
    OBVIOUS
  <2> QED BY <2>2, <2>3, <2>4
<1>4. PICK g \in above : \A h \in above : ~ (<<h, g>> \in StrictSubsetOrdering(1..n))
  <2> HIDE DEF above
  <2> QED BY <1>2, <1>3, WFMin
<1>5. PICK i \in S : g = Above(i)
  OBVIOUS
<1>6. \A j \in S : j <= i
  <2> SUFFICES ASSUME NEW j \in S, j > i PROVE FALSE
    OBVIOUS
  <2>1. Above(j) \in above
    OBVIOUS
  <2>2. Above(j) \subseteq Above(i) /\ j \in Above(i) /\ j \notin Above(j)
    OBVIOUS
  <2> QED BY <1>4, <1>5, <2>1, <2>2 DEF StrictSubsetOrdering
<1> QED BY <1>6 DEF Largest

\* What is on a stack after more user code has been entered.
LEMMA EnterShape ==
    ASSUME NEW s \in Seq(Frame), NEW f \in Frame
    PROVE  /\ Append(s, f) \in Seq(Frame)
           /\ Len(Append(s, f)) = Len(s) + 1
           /\ \A i \in 1..Len(s) : Append(s, f)[i] = s[i]
           /\ Append(s, f)[Len(s) + 1] = f
BY AppendProperties

\* What is on a stack after it has been unwound to just below position n.
LEMMA UnwoundShape ==
    ASSUME NEW s \in Seq(Frame), NEW n \in 1..Len(s)
    PROVE  /\ SubSeq(s, 1, n - 1) \in Seq(Frame)
           /\ Len(SubSeq(s, 1, n - 1)) = n - 1
           /\ \A i \in 1..(n - 1) : SubSeq(s, 1, n - 1)[i] = s[i]
<1>1. Len(s) \in Nat /\ s \in [1..Len(s) -> Frame]
  OBVIOUS
<1>2. \A i \in 1..(n - 1) : s[i] \in Frame
  BY <1>1
<1>3. 1 \in 1..(Len(s) + 1) /\ n - 1 \in 0..Len(s)
  BY <1>1
<1> QED
  BY <1>1, <1>2, <1>3, SubSeqProperties

-----------------------------------------------------------------------------
(* The steps.                                                              *)

\* SUPPRESSED tells whether a guard is on the thread's stack.
LEMMA GuardsSeen ==
    ASSUME PanicTypeOK, Suppression, NEW t \in Threads
    PROVE  suppressed[t] <=> \E f \in Frames(t) : f.kind \in Guarded
<1>1. DOMAIN code[t] = 1..Len(code[t])
  BY DEF PanicTypeOK
<1>2. suppressed[t] <=> \E i \in 1..Len(code[t]) : code[t][i].kind \in Guarded
  BY DEF Suppression, GuardedBelow
<1>3. (\E f \in Frames(t) : f.kind \in Guarded)
         <=> \E i \in DOMAIN code[t] : code[t][i].kind \in Guarded
  BY ZenonT(20) DEF Frames
<1> QED BY <1>1, <1>2, <1>3

\* Steps keep the types.
LEMMA PanicTypeStep ==
    PanicInv /\ TypeOK /\ [PanicNext]_allVars => PanicTypeOK'
<1> SUFFICES ASSUME PanicInv, TypeOK, [PanicNext]_allVars PROVE PanicTypeOK'
  OBVIOUS
<1> USE ThreadsAssumption, ClientsAssumption, PanicsAssumption
    DEF PanicInv, hookVars, containedVars
<1>1. ASSUME NEW t \in Threads, Facade(t) PROVE PanicTypeOK'
  BY <1>1 DEF Facade, panicVars, PanicTypeOK
<1>2. ASSUME NEW t \in Threads, NEW kind \in Kinds, Enter(t, kind) PROVE PanicTypeOK'
  <2> DEFINE f == [kind |-> kind, client |-> Through(t), previous |-> suppressed[t]]
  <2>1. Through(t) \in 0..MaxClients
    BY DEF Through, TypeOK, Clients
  <2>2. f \in Frame
    BY <2>1 DEF PanicTypeOK, Frame
  <2>3. Append(code[t], f) \in Seq(Frame)
    BY <2>2, EnterShape DEF PanicTypeOK
  <2> HIDE DEF f
  <2>4. code' = [code EXCEPT ![t] = Append(code[t], f)]
    BY <1>2 DEF Enter, f
  <2>5. code' \in [Threads -> Seq(Frame)]
    BY <2>3, <2>4 DEF PanicTypeOK
  <2>6. suppressed' \in [Threads -> BOOLEAN]
    BY <1>2 DEF Enter, PanicTypeOK
  <2> QED
    BY <1>2, <2>5, <2>6 DEF Enter, PanicTypeOK
<1>3. ASSUME NEW t \in Threads, EnterDeliver(t) PROVE PanicTypeOK'
  <2> DEFINE f == [kind |-> "deliver", client |-> 0, previous |-> suppressed[t]]
  <2>1. f \in Frame
    BY DEF PanicTypeOK, Frame, Kinds, Caught, Guarded
  <2>2. <<f>> \in Seq(Frame)
    BY <2>1
  <2> HIDE DEF f
  <2>3. code' = [code EXCEPT ![t] = <<f>>]
    BY <1>3 DEF EnterDeliver, f
  <2> QED
    BY <1>3, <2>2, <2>3 DEF EnterDeliver, PanicTypeOK
<1>4. ASSUME NEW t \in Threads, Leave(t) PROVE PanicTypeOK'
  <2>1. code[t] \in Seq(Frame) /\ Len(code[t]) \in 1..Len(code[t])
    BY <1>4 DEF Leave, PanicTypeOK
  <2>2. SubSeq(code[t], 1, Len(code[t]) - 1) \in Seq(Frame)
    BY <2>1, UnwoundShape
  <2>3. Restored(code[t][Len(code[t])]) \in BOOLEAN
    <3>1. code[t][Len(code[t])] \in Frame
      BY <2>1
    <3> QED BY <3>1, Zenon DEF Restored, Frame
  <2> QED
    BY <1>4, <2>2, <2>3 DEF Leave, PanicTypeOK
<1>5. ASSUME NEW t \in Threads, Panic(t) PROVE PanicTypeOK'
  BY <1>5 DEF Panic, PanicTypeOK
<1>6. ASSUME NEW t \in Threads, Look(t) PROVE PanicTypeOK'
  <2>1. Reporter(t) \in 0..MaxClients
    <3>1. hook \in 0..MaxClients /\ 0 \in 0..MaxClients
      BY DEF TypeOK, Clients
    <3> QED BY <3>1, Zenon DEF Reporter
  <2>2. current[t] \in 1..panics
    BY <1>6 DEF Look, Phases, PanicTypeOK
  <2>3. inHook' \in [Threads -> BOOLEAN]
    BY <1>6 DEF Look, StillInHook, PanicTypeOK
  <2> QED
    BY <1>6, <2>1, <2>2, <2>3 DEF Look, PanicTypeOK
<1>7. ASSUME NEW t \in Threads, Report(t) PROVE PanicTypeOK'
  <2>1. current[t] \in 1..panics
    BY <1>7 DEF Report, Phases, PanicTypeOK
  <2>2. inHook' \in [Threads -> BOOLEAN]
    BY <1>7 DEF Report, Done, PanicTypeOK
  <2>3. reporter' \in [Threads -> 0..MaxClients]
    BY <1>7 DEF Report, PanicTypeOK
  <2>4. filed' \in SUBSET (1..panics)
    <3>1. filed' = filed \cup {current[t]}
      BY <1>7 DEF Report
    <3> QED BY <2>1, <3>1 DEF PanicTypeOK
  <2> QED
    BY <1>7, <2>2, <2>3, <2>4 DEF Report, PanicTypeOK
<1>8. ASSUME NEW t \in Threads, Chain(t) PROVE PanicTypeOK'
  <2>1. current[t] \in 1..panics
    BY <1>8 DEF Chain, Phases, PanicTypeOK
  <2>2. /\ code' \in [Threads -> Seq(Frame)]
        /\ suppressed' \in [Threads -> BOOLEAN]
    <3> DEFINE catchers == {i \in DOMAIN code[t] : code[t][i].kind \in Caught}
               top == Largest(catchers)
    <3>1. code[t] \in Seq(Frame) /\ Len(code[t]) \in Nat /\ DOMAIN code[t] = 1..Len(code[t])
      BY DEF PanicTypeOK
    <3>2. CASE catchers = {}
      <4>1. code' = [code EXCEPT ![t] = <<>>] /\ suppressed' = suppressed
        BY <1>8, <3>2 DEF Chain
      <4> QED
        BY <4>1 DEF PanicTypeOK
    <3>3. CASE catchers # {}
      <4>1. top \in 1..Len(code[t])
        <5>1. catchers \in SUBSET (1..Len(code[t]))
          BY <3>1
        <5> HIDE DEF catchers
        <5>2. top \in catchers
          BY <3>1, <3>3, <5>1, LargestIn
        <5> QED BY <5>1, <5>2
      <4>2. code' = [code EXCEPT ![t] = SubSeq(@, 1, top - 1)]
            /\ suppressed' = [suppressed EXCEPT ![t] = Restored(code[t][top])]
        BY <1>8, <3>3 DEF Chain
      <4> HIDE DEF top
      <4>3. SubSeq(code[t], 1, top - 1) \in Seq(Frame)
        BY <3>1, <4>1, UnwoundShape
      <4>4. Restored(code[t][top]) \in BOOLEAN
        <5>1. code[t][top] \in Frame
          BY <3>1, <4>1
        <5> QED BY <5>1, Zenon DEF Restored, Frame
      <4> QED
        BY <4>2, <4>3, <4>4 DEF PanicTypeOK
    <3> QED BY <3>2, <3>3
  <2>3. UNCHANGED <<inHook, reporter, due, filed, panics, containedVars>>
        /\ step' = [step EXCEPT ![t] = "none"] /\ current' = [current EXCEPT ![t] = 0]
        /\ chained' = chained \cup {current[t]}
    BY <1>8 DEF Chain
  <2>4. current' \in [Threads -> 0..panics]
    BY <2>3 DEF PanicTypeOK
  <2>5. chained' \in SUBSET (1..panics)
    BY <2>1, <2>3 DEF PanicTypeOK
  <2> QED
    BY <2>2, <2>3, <2>4, <2>5 DEF PanicTypeOK
<1>9. ASSUME NEW t \in Threads, ReportPanics(t) PROVE PanicTypeOK'
  BY <1>9 DEF ReportPanics, PanicTypeOK
<1>10. CASE UNCHANGED allVars
  BY <1>10 DEF allVars, panicVars, PanicTypeOK
<1> QED
  BY <1>1, <1>2, <1>3, <1>4, <1>5, <1>6, <1>7, <1>8, <1>9, <1>10 DEF PanicNext, InHook

\* SUPPRESSED stays true however user code nests, returns and unwinds.
LEMMA SuppressionStep ==
    PanicInv /\ [PanicNext]_allVars => Suppression'
<1> SUFFICES ASSUME PanicInv, [PanicNext]_allVars PROVE Suppression'
  OBVIOUS
<1> USE DEF PanicInv, hookVars
<1>1. CASE UNCHANGED <<code, suppressed>>
  BY <1>1 DEF Suppression, GuardedBelow
<1>2. ASSUME NEW t \in Threads, NEW kind \in Kinds \ {"deliver"}, Enter(t, kind)
      PROVE  Suppression'
  <2> DEFINE f == [kind |-> kind, client |-> Through(t), previous |-> suppressed[t]]
             s == Append(code[t], f)
             b == suppressed[t] \/ kind \in Guarded
  <2>1. code[t] \in Seq(Frame) /\ Len(code[t]) \in Nat
    BY DEF PanicTypeOK
  <2>2. /\ Len(s) = Len(code[t]) + 1
        /\ \A i \in 1..Len(code[t]) : s[i] = code[t][i]
        /\ s[Len(code[t]) + 1] = f
    BY <2>1, AppendProperties
  <2>3. f.kind = kind /\ f.previous = suppressed[t]
    OBVIOUS
  <2>4. code' = [code EXCEPT ![t] = s] /\ suppressed' = [suppressed EXCEPT ![t] = b]
    BY <1>2 DEF Enter
  <2>5. /\ suppressed[t] <=> \E i \in 1..Len(code[t]) : code[t][i].kind \in Guarded
        /\ \A i \in 1..Len(code[t]) :
              code[t][i].previous <=> \E j \in 1..(i - 1) : code[t][j].kind \in Guarded
    BY DEF Suppression, GuardedBelow
  <2> HIDE DEF f, s, b
  <2>6. b <=> \E i \in 1..Len(s) : s[i].kind \in Guarded
    BY <2>1, <2>2, <2>3, <2>5, SMTT(30) DEF b
  <2>7. \A i \in 1..Len(s) : s[i].previous <=> \E j \in 1..(i - 1) : s[j].kind \in Guarded
    <3> SUFFICES ASSUME NEW i \in 1..Len(s)
                 PROVE  s[i].previous <=> \E j \in 1..(i - 1) : s[j].kind \in Guarded
      OBVIOUS
    <3>1. CASE i \in 1..Len(code[t])
      <4>1. s[i] = code[t][i] /\ \A j \in 1..(i - 1) : s[j] = code[t][j]
        BY <2>1, <2>2, <3>1
      <4>2. code[t][i].previous <=> \E j \in 1..(i - 1) : code[t][j].kind \in Guarded
        BY <2>5, <3>1
      <4> QED BY <4>1, <4>2
    <3>2. CASE i = Len(code[t]) + 1
      BY <2>1, <2>2, <2>3, <2>5, <3>2
    <3> QED BY <2>1, <2>2, <3>1, <3>2
  <2> QED
    BY <2>4, <2>6, <2>7 DEF PanicTypeOK, Suppression, GuardedBelow
<1>3. ASSUME NEW t \in Threads, EnterDeliver(t) PROVE Suppression'
  <2> DEFINE f == [kind |-> "deliver", client |-> 0, previous |-> suppressed[t]]
             s == <<f>>
  <2>1. Len(s) = 1 /\ s[1] = f /\ f.kind \in Guarded /\ f.previous = suppressed[t]
    BY DEF Guarded
  <2>2. code' = [code EXCEPT ![t] = s] /\ suppressed' = [suppressed EXCEPT ![t] = TRUE]
    BY <1>3 DEF EnterDeliver
  <2>3. suppressed[t] = FALSE
    BY <1>3 DEF EnterDeliver, Suppression, GuardedBelow, PanicTypeOK
  <2> HIDE DEF f, s
  <2>4. \E i \in 1..Len(s) : s[i].kind \in Guarded
    BY <2>1
  <2>5. \A i \in 1..Len(s) : ~ s[i].previous
    BY <2>1, <2>3
  <2>6. \A i \in 1..Len(s) : ~ \E j \in 1..(i - 1) : s[j].kind \in Guarded
    BY <2>1
  <2> QED
    BY <2>2, <2>4, <2>5, <2>6 DEF PanicTypeOK, Suppression, GuardedBelow
<1>4. ASSUME NEW t \in Threads, NEW n \in 1..Len(code[t]),
             code' = [code EXCEPT ![t] = SubSeq(@, 1, n - 1)],
             suppressed' = [suppressed EXCEPT ![t] = code[t][n].previous]
      PROVE  Suppression'
  <2> DEFINE s == SubSeq(code[t], 1, n - 1)
  <2>1. code[t] \in Seq(Frame) /\ Len(code[t]) \in Nat
    BY DEF PanicTypeOK
  <2>2. Len(s) = n - 1 /\ \A i \in 1..(n - 1) : s[i] = code[t][i]
    BY <2>1, UnwoundShape
  <2>3. code' = [code EXCEPT ![t] = s]
    BY <1>4
  <2>4. \A i \in 1..Len(code[t]) :
           code[t][i].previous <=> \E j \in 1..(i - 1) : code[t][j].kind \in Guarded
    BY DEF Suppression, GuardedBelow
  <2> HIDE DEF s
  <2>5. code[t][n].previous <=> \E i \in 1..Len(s) : s[i].kind \in Guarded
    BY <2>1, <2>2, <2>4
  <2>6. \A i \in 1..Len(s) : s[i].previous <=> \E j \in 1..(i - 1) : s[j].kind \in Guarded
    <3> SUFFICES ASSUME NEW i \in 1..Len(s)
                 PROVE  s[i].previous <=> \E j \in 1..(i - 1) : s[j].kind \in Guarded
      OBVIOUS
    <3>1. i \in 1..Len(code[t]) /\ s[i] = code[t][i]
      BY <2>1, <2>2
    <3>2. \A j \in 1..(i - 1) : s[j] = code[t][j]
      BY <2>1, <2>2
    <3>3. code[t][i].previous <=> \E j \in 1..(i - 1) : code[t][j].kind \in Guarded
      BY <2>4, <3>1
    <3> QED BY <3>1, <3>2, <3>3
  <2> QED
    BY <1>4, <2>3, <2>5, <2>6, ZenonT(40) DEF PanicTypeOK, Suppression, GuardedBelow
<1>5. ASSUME NEW t \in Threads, Leave(t) PROVE Suppression'
  <2>1. Len(code[t]) \in 1..Len(code[t])
    BY <1>5 DEF Leave, PanicTypeOK
  <2> QED
    BY <1>4, <1>5, <2>1 DEF Leave, Restored
<1>6. ASSUME NEW t \in Threads, Chain(t) PROVE Suppression'
  <2> DEFINE catchers == {i \in DOMAIN code[t] : code[t][i].kind \in Caught}
             top == Largest(catchers)
  <2>1. code[t] \in Seq(Frame) /\ Len(code[t]) \in Nat /\ DOMAIN code[t] = 1..Len(code[t])
    BY DEF PanicTypeOK
  <2>2. CASE catchers # {}
    <3>1. code' = [code EXCEPT ![t] = SubSeq(@, 1, top - 1)]
          /\ suppressed' = [suppressed EXCEPT ![t] = code[t][top].previous]
      BY <1>6, <2>2 DEF Chain, Restored
    <3>2. catchers \in SUBSET (1..Len(code[t]))
      BY <2>1
    <3> HIDE DEF catchers
    <3>3. top \in 1..Len(code[t])
      BY <2>1, <2>2, <3>2, LargestIn
    <3> HIDE DEF top
    <3> QED BY <1>4, <3>1, <3>3
  <2>3. CASE catchers = {}
    <3>1. code' = [code EXCEPT ![t] = <<>>] /\ UNCHANGED suppressed
      BY <1>6, <2>3 DEF Chain
    <3>2. \A i \in 1..Len(code[t]) : code[t][i].kind \notin Guarded
      BY <2>1, <2>3 DEF Caught
    <3>3. suppressed[t] = FALSE
      BY <3>2 DEF Suppression, GuardedBelow, PanicTypeOK
    <3> QED
      BY <3>1, <3>3 DEF PanicTypeOK, Suppression, GuardedBelow
  <2> QED BY <2>2, <2>3
<1>7. ASSUME NEW t \in Threads, Facade(t) \/ Panic(t) \/ Look(t) \/ Report(t) \/ ReportPanics(t)
      PROVE  UNCHANGED <<code, suppressed>>
  BY <1>7 DEF Facade, Panic, Look, Report, ReportPanics, panicVars
<1>8. CASE UNCHANGED allVars
  BY <1>8, <1>1 DEF allVars, panicVars
<1> QED
  BY <1>1, <1>2, <1>3, <1>5, <1>6, <1>7, <1>8 DEF PanicNext, InHook

\* IN_HOOK, the panic a thread is in and the client it reports through follow
\* the dispatcher's steps.
LEMMA PhasesStep ==
    PanicInv /\ TypeOK /\ [PanicNext]_allVars => Phases'
<1> SUFFICES ASSUME PanicInv, TypeOK, [PanicNext]_allVars PROVE Phases'
  OBVIOUS
<1> USE DEF PanicInv, hookVars
<1>1. CASE UNCHANGED hookVars
  BY <1>1 DEF Phases
<1>2. ASSUME NEW t \in Threads, Panic(t) PROVE Phases'
  <2>1. step' = [step EXCEPT ![t] = "look"]
    BY <1>2 DEF Panic, Runs, Phases
  <2> QED
    BY <1>2, <2>1 DEF Panic, Runs, Phases, PanicTypeOK
<1>3. ASSUME NEW t \in Threads, Look(t) PROVE Phases'
  BY <1>3 DEF Look, StillInHook, Phases, PanicTypeOK
<1>4. ASSUME NEW t \in Threads, Report(t) PROVE Phases'
  BY <1>4 DEF Report, Done, Phases, PanicTypeOK
<1>5. ASSUME NEW t \in Threads, Chain(t) PROVE Phases'
  <2>1. /\ step[t] = "chain" /\ UNCHANGED <<inHook, reporter>>
        /\ step' = [step EXCEPT ![t] = "none"] /\ current' = [current EXCEPT ![t] = 0]
    BY <1>5 DEF Chain
  <2> QED
    BY <2>1 DEF Phases, PanicTypeOK
<1>6. ASSUME NEW t \in Threads,
             \/ Facade(t) \/ (\E kind \in Kinds : Enter(t, kind)) \/ EnterDeliver(t)
             \/ Leave(t) \/ ReportPanics(t)
      PROVE  UNCHANGED hookVars
  BY <1>6 DEF Facade, panicVars, Enter, EnterDeliver, Leave, ReportPanics
<1>7. CASE UNCHANGED allVars
  BY <1>1, <1>7 DEF allVars, panicVars
<1> QED
  BY <1>1, <1>2, <1>3, <1>4, <1>5, <1>6, <1>7 DEF PanicNext, InHook

\* Every panic is followed from where it is raised to the previous hook.
LEMMA FiledStep ==
    PanicInv /\ TypeOK /\ [PanicNext]_allVars => Underway' /\ EscapedAreFiled'
<1> SUFFICES ASSUME PanicInv, TypeOK, [PanicNext]_allVars
             PROVE  Underway' /\ EscapedAreFiled'
  OBVIOUS
<1> USE DEF PanicInv, hookVars, containedVars
<1>0. \A t \in Threads : current[t] \in 0..panics
  BY DEF PanicTypeOK
<1>1. ASSUME NEW t \in Threads,
             \/ Facade(t) \/ (\E kind \in Kinds : Enter(t, kind)) \/ EnterDeliver(t)
             \/ Leave(t) \/ ReportPanics(t)
      PROVE  Underway' /\ EscapedAreFiled'
  <2>1. UNCHANGED <<hookVars, panics, containedVars>>
    BY <1>1 DEF Facade, panicVars, Enter, EnterDeliver, Leave, ReportPanics
  <2>2. \A u \in Threads : step[u] = "look" => suppressed'[u] = suppressed[u]
    BY <1>1
    DEF Facade, panicVars, Enter, EnterDeliver, Leave, Runs, ReportPanics, PanicTypeOK
  <2> QED
    BY <2>1, <2>2 DEF Underway, EscapedAreFiled
<1>2. ASSUME NEW t \in Threads, Panic(t) PROVE Underway' /\ EscapedAreFiled'
  <2>1. /\ panics' = panics + 1 /\ current' = [current EXCEPT ![t] = panics + 1]
        /\ step' = [step EXCEPT ![t] = "look"]
        /\ UNCHANGED <<suppressed, due, filed, chained>>
    BY <1>2 DEF Panic, Runs, Phases
  <2>2. panics + 1 \in contained' <=> suppressed[t]
    <3>1. suppressed[t] <=> \E f \in Frames(t) : f.kind \in Guarded
      BY GuardsSeen
    <3> QED
      BY <1>2, <3>1 DEF Panic, PanicTypeOK
  <2>4. panics + 1 \notin due \cup filed
    BY DEF PanicTypeOK
  <2>3. /\ contained' \subseteq caught'
        /\ \A n \in 0..panics : n \in contained' <=> n \in contained
        /\ \A n \in 0..panics : n \in caught' <=> n \in caught
    <3>1. /\ caught' = caught \/ caught' = caught \cup {panics + 1}
          /\ contained' = contained \/ contained' = contained \cup {panics + 1}
      BY <1>2 DEF Panic
    <3>2. panics + 1 \in contained' => panics + 1 \in caught'
      <4>1. panics + 1 \notin contained
        BY DEF PanicTypeOK
      <4>2. (\E f \in Frames(t) : f.kind \in Guarded)
               => \E f \in Frames(t) : f.kind \in Caught
        BY DEF Caught
      <4> QED
        BY <1>2, <4>1, <4>2 DEF Panic
    <3>3. contained \subseteq caught /\ \A n \in 0..panics : n # panics + 1
      BY DEF Underway, PanicTypeOK
    <3> QED
      BY <3>1, <3>2, <3>3
  <2>5. current[t] = 0
    BY <1>2 DEF Panic, Runs, Phases
  <2>6. Underway'
    BY <1>0, <2>1, <2>2, <2>3, <2>4 DEF Underway, PanicTypeOK
  <2>7. EscapedAreFiled'
    <3> SUFFICES ASSUME NEW n \in 1..panics', \A u \in Threads : current'[u] # n
                 PROVE  /\ n \in chained'
                        /\ n \notin caught' => (n \in filed' <=> n \in due')
                        /\ n \in contained' => n \notin filed'
      BY DEF EscapedAreFiled
    <3>1. n # panics + 1
      BY <2>1 DEF PanicTypeOK
    <3>2. n \in 1..panics
      BY <2>1, <3>1 DEF PanicTypeOK
    <3>3. \A u \in Threads : current[u] # n
      BY <2>1, <2>5, <3>2 DEF PanicTypeOK
    <3> QED
      BY <2>1, <2>3, <3>2, <3>3 DEF EscapedAreFiled
  <2> QED BY <2>6, <2>7
<1>3. ASSUME NEW t \in Threads, Look(t) PROVE Underway' /\ EscapedAreFiled'
  <2>1. /\ step[t] = "look"
        /\ step' = [step EXCEPT ![t] = IF Reporter(t) = 0 THEN "chain" ELSE "report"]
        /\ due' = IF hook # 0 /\ current[t] \notin caught THEN due \cup {current[t]} ELSE due
        /\ UNCHANGED <<suppressed, current, panics, caught, contained, filed, chained>>
    BY <1>3 DEF Look, PanicTypeOK
  <2>2. current[t] # 0
    BY <2>1 DEF Phases
  <2>3. /\ current[t] \notin caught => (current[t] \in due' <=> Reporter(t) # 0)
        /\ Reporter(t) # 0 => current[t] \notin contained
        /\ current[t] \notin filed
    BY <2>1 DEF Reporter, Underway
  <2> QED
    BY <2>1, <2>2, <2>3 DEF Underway, EscapedAreFiled, PanicTypeOK
<1>4. ASSUME NEW t \in Threads, Report(t) PROVE Underway' /\ EscapedAreFiled'
  <2>1. /\ step[t] = "report" /\ step' = [step EXCEPT ![t] = "chain"]
        /\ filed' = filed \cup {current[t]}
        /\ UNCHANGED <<suppressed, current, panics, caught, contained, due, chained>>
    BY <1>4 DEF Report
  <2>2. /\ current[t] # 0 /\ current[t] \notin contained
        /\ current[t] \notin caught => current[t] \in due
    BY <2>1 DEF Phases, Underway
  <2> QED
    BY <2>1, <2>2 DEF Underway, EscapedAreFiled, PanicTypeOK
<1>5. ASSUME NEW t \in Threads, Chain(t) PROVE Underway' /\ EscapedAreFiled'
  <2>1. /\ step[t] = "chain" /\ step' = [step EXCEPT ![t] = "none"]
        /\ current' = [current EXCEPT ![t] = 0] /\ chained' = chained \cup {current[t]}
        /\ UNCHANGED <<due, filed, panics>>
    BY <1>5 DEF Chain
  <2>2. /\ \A u \in Threads : step[u] = "look" => suppressed'[u] = suppressed[u]
        /\ UNCHANGED containedVars
    BY <1>5, <2>1 DEF Chain, PanicTypeOK
  <2>3. Underway'
    BY <2>1, <2>2 DEF Underway, PanicTypeOK
  <2>4. EscapedAreFiled'
    BY <2>1, <2>2 DEF EscapedAreFiled, Underway, PanicTypeOK
  <2> QED BY <2>3, <2>4
<1>6. CASE UNCHANGED allVars
  BY <1>6 DEF allVars, panicVars, Underway, EscapedAreFiled
<1> QED
  BY <1>1, <1>2, <1>3, <1>4, <1>5, <1>6 DEF PanicNext, InHook

-----------------------------------------------------------------------------
(* The theorems.                                                           *)

\* At first no thread runs user code and nothing has panicked.
LEMMA InitPanicInv == PanicInit => PanicInv
<1> SUFFICES ASSUME PanicInit PROVE PanicInv
  OBVIOUS
<1>1. PanicTypeOK
  BY ClientsAssumption DEF PanicInit, PanicTypeOK
<1>2. Suppression
  BY DEF PanicInit, Suppression, GuardedBelow
<1>3. Phases /\ Underway /\ EscapedAreFiled
  BY DEF PanicInit, Phases, Underway, EscapedAreFiled
<1> QED BY <1>1, <1>2, <1>3 DEF PanicInv

\* User code and panics move the facade by its own steps, if at all.
LEMMA PanicStepsFacade == [PanicNext]_allVars => [Next]_vars
<1> SUFFICES ASSUME [PanicNext]_allVars PROVE [Next]_vars
  OBVIOUS
<1>1. ASSUME NEW t \in Threads, Facade(t) PROVE [Next]_vars
  BY <1>1 DEF Facade, Next
<1>2. ASSUME NEW t \in Threads, Chain(t) PROVE [Next]_vars
  <2>1. CallReturns(t) \/ UNCHANGED vars
    BY <1>2 DEF Chain
  <2> QED BY <2>1 DEF Next, Step
<1>3. ASSUME NEW t \in Threads,
             \/ (\E kind \in Kinds : Enter(t, kind)) \/ EnterDeliver(t) \/ Leave(t)
             \/ Panic(t) \/ Look(t) \/ Report(t) \/ ReportPanics(t)
      PROVE  UNCHANGED vars
  BY <1>3 DEF Enter, EnterDeliver, Leave, Panic, Look, Report, ReportPanics
<1>4. CASE UNCHANGED allVars
  BY <1>4 DEF allVars
<1> QED
  BY <1>1, <1>2, <1>3, <1>4 DEF PanicNext, InHook

\* PanicHook implements GlobalFacade, whose theorems therefore hold of it.
THEOREM ImplementsFacade == PanicSpec => Spec
<1>1. PanicInit => Init
  BY DEF PanicInit
<1> QED BY <1>1, PanicStepsFacade, PTL DEF PanicSpec, Spec

\* The invariant the theorems below follow from.
THEOREM PanicInvariance == PanicSpec => []PanicInv
<1>1. IInv => TypeOK
  BY DEF IInv
<1>2. PanicInv /\ TypeOK /\ [PanicNext]_allVars => PanicInv'
  BY PanicTypeStep, SuppressionStep, PhasesStep, FiledStep DEF PanicInv
<1>3. PanicSpec => []TypeOK
  BY <1>1, ImplementsFacade, Invariance, PTL
<1> QED BY <1>2, <1>3, InitPanicInv, PTL DEF PanicSpec

\* SUPPRESSED is set while a hook or a transport runs on the thread and at no
\* other time, and IN_HOOK only inside the dispatcher.
THEOREM FlagsStayTrue == PanicSpec => []FlagsTrue
<1>1. PanicInv => FlagsTrue
  BY GuardsSeen DEF PanicInv, Phases, FlagsTrue
<1> QED BY <1>1, PanicInvariance, PTL

\* A panic that escapes is reported exactly if it found a client, one that is
\* contained never is, and the previous hook sees every one.
THEOREM PanicsAreFiled == PanicSpec => []EscapedAreFiled
<1>1. PanicInv => EscapedAreFiled
  BY DEF PanicInv
<1> QED BY <1>1, PanicInvariance, PTL

\* No facade call and no panic takes a client that has been stopped.
THEOREM SilentAfterGuard == PanicSpec => NoReportBehindGuard
<1>1. IInv /\ PanicInv /\ [PanicNext]_allVars =>
        [\A t \in Threads :
           /\ pc'[t] = "call" /\ pc[t] = "app" => hand'[t] \notin stopped
           /\ reporter'[t] # 0 /\ reporter[t] = 0 => reporter'[t] \notin stopped]_allVars
  <2> SUFFICES ASSUME IInv, PanicInv, PanicNext, NEW t \in Threads
               PROVE  /\ pc'[t] = "call" /\ pc[t] = "app" => hand'[t] \notin stopped
                      /\ reporter'[t] # 0 /\ reporter[t] = 0 => reporter'[t] \notin stopped
    OBVIOUS
  <2>1. pc'[t] = "call" /\ pc[t] = "app" => hand'[t] \notin stopped
    <3>1. [Next]_vars
      BY PanicStepsFacade
    <3>2. CASE UNCHANGED vars
      BY <3>2 DEF vars, threadVars
    <3>3. ASSUME NEW u \in Threads, CallClone(u)
          PROVE  pc'[t] = "call" /\ pc[t] = "app" => hand'[t] \notin stopped
      BY <3>3 DEF CallClone, At, Hold, IInv, TypeOK, Alive
    <3>4. ASSUME NEW u \in Threads, Step(u), ~ CallClone(u)
          PROVE  pc'[t] = "call" => pc[t] = "call"
      BY <3>4 DEF Step, At, InitLock, InitFails, InitRegister, InitPublish, DropDeregister,
         DropTake, DropShutdown, Hand, CallReturns, IInv, TypeOK
    <3> QED BY <3>1, <3>2, <3>3, <3>4 DEF Next
  <2>2. reporter'[t] # 0 /\ reporter[t] = 0 => reporter'[t] \notin stopped
    <3>1. hook # 0 => hook \notin stopped
      BY DEF IInv, HookFollowsSlot, Publishing, Alive
    <3>2. ASSUME NEW u \in Threads, Look(u)
          PROVE  reporter'[t] # 0 /\ reporter[t] = 0 => reporter'[t] \notin stopped
      BY <3>1, <3>2 DEF Look, Reporter, PanicInv, PanicTypeOK
    <3>3. ASSUME NEW u \in Threads, Report(u)
          PROVE  reporter'[t] # 0 => reporter[t] # 0
      BY <3>3 DEF Report, PanicInv, PanicTypeOK
    <3>4. ASSUME NEW u \in Threads,
                 \/ Facade(u) \/ (\E kind \in Kinds : Enter(u, kind)) \/ EnterDeliver(u)
                 \/ Leave(u) \/ Panic(u) \/ Chain(u) \/ ReportPanics(u)
          PROVE  UNCHANGED reporter
      BY <3>4 DEF Facade, panicVars, hookVars, Enter, EnterDeliver, Leave, Panic, Chain,
         ReportPanics
    <3> QED BY <3>2, <3>3, <3>4 DEF PanicNext, InHook
  <2> QED BY <2>1, <2>2
<1> QED
  BY <1>1, PanicInvariance, ImplementsFacade, Invariance, PTL
  DEF PanicSpec, NoReportBehindGuard
=============================================================================
