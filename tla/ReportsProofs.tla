--------------------------- MODULE ReportsProofs ---------------------------
(***************************************************************************)
(* What Reports promises, proved for all values of its constants: the      *)
(* trees of values and their walk first, then causes, frames and the       *)
(* sampler, last the invariant over the drafts that ties them together.    *)
(* The recursive functions are unfolded with SetInduction: that there is a *)
(* function of that equation is shown, and then it is the one of its name. *)
(***************************************************************************)
EXTENDS Reports, FiniteSetTheorems, SequenceTheorems, WellFoundedInduction, TLAPS

(***************************************************************************)
(* Induction and sequences                                                 *)
(***************************************************************************)
\* A set of numbers that holds zero and every successor holds all: induction
\* without an operator, for the sets below.
LEMMA SetInduction ==
    ASSUME NEW S \in SUBSET Nat, 0 \in S, \A n \in S : n + 1 \in S
    PROVE  S = Nat
<1> DEFINE rest == Nat \ S
<1>1. SUFFICES ASSUME rest # {} PROVE FALSE
  OBVIOUS
<1>2. PICK x \in rest : \A y \in rest : ~ (<<y, x>> \in OpToRel(<, Nat))
  <2> HIDE DEF rest
  <2>1. rest \subseteq Nat
    BY DEF rest
  <2> QED BY <1>1, <2>1, NatLessThanWellFounded, WFMin
<1>3. x - 1 \in Nat /\ <<x - 1, x>> \in OpToRel(<, Nat)
  BY DEF OpToRel
<1>4. x - 1 \in S
  BY <1>2, <1>3
<1> QED BY <1>4

\* The same up to a bound.
LEMMA BoundedInduction ==
    ASSUME NEW N \in Nat, NEW S, 0 \in S, \A n \in 0..N - 1 : n \in S => n + 1 \in S
    PROVE  \A n \in 0..N : n \in S
<1> DEFINE T == {n \in Nat : n <= N => n \in S}
<1>1. T \in SUBSET Nat /\ 0 \in T
  OBVIOUS
<1>2. ASSUME NEW n \in T PROVE n + 1 \in T
  BY <1>2
<1>3. T = Nat
  <2> HIDE DEF T
  <2> QED BY <1>1, <1>2, SetInduction
<1> QED BY <1>3

\* A path of n steps, whatever the steps are.
IsPath(p, n) == p = [i \in 1..n |-> p[i]]

LEMMA PathFacts ==
    ASSUME NEW n \in Nat, NEW p, IsPath(p, n), NEW e
    PROVE  /\ Len(p) = n
           /\ IsPath(Append(p, e), n + 1)
           /\ Front(Append(p, e)) = p /\ Last(Append(p, e)) = e
           /\ Append(p, e) # << >>
           /\ \A m \in 1..n : SubSeq(Append(p, e), 1, m) = SubSeq(p, 1, m)
           /\ SubSeq(Append(p, e), 1, n + 1) = Append(p, e)
<1> DEFINE T == {p[i] : i \in 1..n} \cup {e}
<1>1. p \in [1..n -> T] /\ e \in T
  BY DEF IsPath
<1>2. p \in Seq(T) /\ Len(p) = n
  <2>1. p \in UNION {[1..k -> T] : k \in Nat}
    BY <1>1
  <2>2. p \in Seq(T)
    BY <2>1, SeqDef
  <2>3. PICK k : k = Len(p)
    OBVIOUS
  <2>4. k \in Nat /\ DOMAIN p = 1..k
    BY <2>2, <2>3, LenProperties
  <2>5. DOMAIN p = 1..n
    BY <1>1
  <2>6. n = k
    BY <2>4, <2>5
  <2> QED BY <2>2, <2>3, <2>6
<1> HIDE DEF T
<1> DEFINE q == Append(p, e)
<1>3. q \in Seq(T) /\ Len(q) = n + 1 /\ q = [i \in 1..n + 1 |-> IF i = n + 1 THEN e ELSE p[i]]
  <2>1. /\ q \in Seq(T) /\ Len(q) = n + 1
        /\ q[n + 1] = e /\ \A i \in 1..n : q[i] = p[i]
    BY <1>1, <1>2, AppendProperties
  <2> HIDE DEF q
  <2>2. q \in [1..n + 1 -> T]
    BY <2>1, LenProperties
  <2>3. \A i \in 1..n + 1 : i = n + 1 \/ i \in 1..n
    OBVIOUS
  <2> QED BY <2>1, <2>2, <2>3
<1>4. IsPath(q, n + 1) /\ q # << >>
  BY <1>3 DEF IsPath
<1>5. Front(q) = p /\ Last(q) = e
  BY <1>1, <1>2 DEF Front, Last
<1>6. ASSUME NEW m \in 1..n PROVE SubSeq(q, 1, m) = SubSeq(p, 1, m)
  BY <1>1, <1>2, <1>3
<1>7. SubSeq(q, 1, n + 1) = q
  BY <1>3, SubSeqFull
<1> QED BY <1>2, <1>4, <1>5, <1>6, <1>7

LEMMA EmptyPath == IsPath(<< >>, 0) /\ Len(<< >>) = 0
BY DEF IsPath

-----------------------------------------------------------------------------
(***************************************************************************)
(* Values (Sanitizer)                                                      *)
(***************************************************************************)
Levels(f, v, N) ==
    f = [n \in 0..N |-> IF n = 0 THEN [path \in {<< >>} |-> v] ELSE NextLevel(f[n - 1])]

\* The levels of a value are what their equation says.
LEMMA LevelIs ==
    ASSUME NEW v
    PROVE  /\ Level(v)[0] = [path \in {<< >>} |-> v]
           /\ \A n \in 0..MaxNesting - 1 : Level(v)[n + 1] = NextLevel(Level(v)[n])
<1> USE SanitizerAssumption
<1> DEFINE known == {N \in Nat : \E f : Levels(f, v, N)}
<1>1. 0 \in known
  <2> DEFINE f == [n \in 0..0 |-> [path \in {<< >>} |-> v]]
  <2>1. Levels(f, v, 0)
    <3>1. /\ f = [n \in 0..0 |-> f[n]]
          /\ \A n \in 0..0 : f[n] = IF n = 0 THEN [path \in {<< >>} |-> v] ELSE NextLevel(f[n - 1])
      OBVIOUS
    <3> HIDE DEF f
    <3> QED BY <3>1 DEF Levels
  <2> QED BY <2>1
<1>2. ASSUME NEW N \in known PROVE N + 1 \in known
  <2>1. PICK f : Levels(f, v, N)
    OBVIOUS
  <2> DEFINE g == [n \in 0..N + 1 |-> IF n = N + 1 THEN NextLevel(f[N]) ELSE f[n]]
  <2>2. \A n \in 0..N : f[n] = IF n = 0 THEN [path \in {<< >>} |-> v] ELSE NextLevel(f[n - 1])
    BY <2>1, Zenon DEF Levels
  <2>3. \A n \in 0..N + 1 :
            g[n] = IF n = 0 THEN [path \in {<< >>} |-> v] ELSE NextLevel(g[n - 1])
    <3> TAKE n \in 0..N + 1
    <3>1. CASE n = N + 1
      <4>1. g[n] = NextLevel(f[N]) /\ g[n - 1] = f[N] /\ n # 0
        BY <3>1
      <4> QED BY <4>1
    <3>2. CASE n # N + 1
      <4>1. n \in 0..N /\ g[n] = f[n] /\ (n # 0 => g[n - 1] = f[n - 1])
        BY <3>2
      <4> QED BY <2>2, <4>1
    <3> QED BY <3>1, <3>2
  <2>4. Levels(g, v, N + 1)
    <3>1. g = [n \in 0..N + 1 |-> g[n]]
      OBVIOUS
    <3> HIDE DEF g
    <3> QED BY <2>3, <3>1 DEF Levels
  <2> QED BY <2>4
<1>3. known = Nat
  <2> HIDE DEF known
  <2>1. known \in SUBSET Nat
    BY DEF known
  <2> QED BY <1>1, <1>2, <2>1, SetInduction
<1>4. Levels(Level(v), v, MaxNesting)
  <2>1. \E f : Levels(f, v, MaxNesting)
    BY <1>3
  <2>2. Level(v) = CHOOSE f : Levels(f, v, MaxNesting)
    BY DEF Level, Levels
  <2> QED BY <2>1, <2>2
<1>5. \A n \in 0..MaxNesting :
          Level(v)[n] = IF n = 0 THEN [path \in {<< >>} |-> v] ELSE NextLevel(Level(v)[n - 1])
  <2> DEFINE L == Level(v)
  <2>1. Levels(L, v, MaxNesting)
    BY <1>4
  <2> HIDE DEF L
  <2>2. \A n \in 0..MaxNesting :
            L[n] = IF n = 0 THEN [path \in {<< >>} |-> v] ELSE NextLevel(L[n - 1])
    BY <2>1, Zenon DEF Levels
  <2> QED BY <2>2 DEF L
<1>6. Level(v)[0] = [path \in {<< >>} |-> v]
  BY <1>5
<1>7. ASSUME NEW n \in 0..MaxNesting - 1 PROVE Level(v)[n + 1] = NextLevel(Level(v)[n])
  <2>1. n + 1 \in 0..MaxNesting /\ n + 1 # 0 /\ (n + 1) - 1 = n
    OBVIOUS
  <2>2. Level(v)[n + 1] = NextLevel(Level(v)[(n + 1) - 1])
    BY <1>5, <2>1
  <2> QED BY <2>1, <2>2
<1> QED BY <1>6, <1>7

\* One level from the one above: a path for every child, and no other.
LEMMA NextLevelTree ==
    ASSUME NEW n \in Nat, NEW above, \A p \in DOMAIN above : IsPath(p, n)
    PROVE  /\ \A p \in DOMAIN above : \A step \in DOMAIN Children(above[p]) :
                  /\ Append(p, step) \in DOMAIN NextLevel(above)
                  /\ NextLevel(above)[Append(p, step)] = Children(above[p])[step]
           /\ \A path \in DOMAIN NextLevel(above) :
                  /\ IsPath(path, n + 1)
                  /\ \E p \in DOMAIN above :
                         \E step \in DOMAIN Children(above[p]) : path = Append(p, step)
<1> DEFINE Tree == UNION {{Append(p, step) : step \in DOMAIN Children(above[p])} :
                              p \in DOMAIN above}
<1>1. /\ DOMAIN NextLevel(above) = Tree
      /\ \A path \in Tree : NextLevel(above)[path] = Children(above[Front(path)])[Last(path)]
  BY DEF NextLevel
<1>2. ASSUME NEW p \in DOMAIN above, NEW step \in DOMAIN Children(above[p])
      PROVE  Append(p, step) \in Tree
  OBVIOUS
<1>3. ASSUME NEW path \in Tree
      PROVE  \E p \in DOMAIN above :
                 \E step \in DOMAIN Children(above[p]) : path = Append(p, step)
  OBVIOUS
<1> HIDE DEF Tree
<1>4. ASSUME NEW p \in DOMAIN above, NEW step \in DOMAIN Children(above[p])
      PROVE  /\ Append(p, step) \in DOMAIN NextLevel(above)
             /\ NextLevel(above)[Append(p, step)] = Children(above[p])[step]
  <2>1. Front(Append(p, step)) = p /\ Last(Append(p, step)) = step
    BY PathFacts
  <2> QED BY <1>1, <1>2, <2>1
<1>5. ASSUME NEW path \in Tree PROVE IsPath(path, n + 1)
  <2>1. PICK p \in DOMAIN above : \E step \in DOMAIN Children(above[p]) : path = Append(p, step)
    BY <1>3
  <2>2. IsPath(p, n)
    OBVIOUS
  <2> QED BY <2>1, <2>2, PathFacts
<1> QED BY <1>1, <1>3, <1>4, <1>5

\* The paths of a level have its number of steps.
LEMMA LevelPaths ==
    ASSUME NEW v
    PROVE  \A n \in 0..MaxNesting : \A path \in DOMAIN Level(v)[n] : IsPath(path, n)
<1> USE SanitizerAssumption
<1> DEFINE good == {n \in 0..MaxNesting : \A path \in DOMAIN Level(v)[n] : IsPath(path, n)}
<1>1. 0 \in good
  BY LevelIs, EmptyPath
<1>2. ASSUME NEW n \in 0..MaxNesting - 1, n \in good PROVE n + 1 \in good
  <2>1. Level(v)[n + 1] = NextLevel(Level(v)[n])
    BY LevelIs
  <2>2. \A path \in DOMAIN Level(v)[n] : IsPath(path, n)
    BY <1>2
  <2>3. \A path \in DOMAIN NextLevel(Level(v)[n]) : IsPath(path, n + 1)
    BY <2>2, NextLevelTree
  <2> QED BY <2>1, <2>3
<1> HIDE DEF good
<1>3. \A n \in 0..MaxNesting : n \in good
  BY <1>1, <1>2, BoundedInduction
<1> QED BY <1>3 DEF good

\* A level holds the children of the level above.
LEMMA LevelChild ==
    ASSUME NEW v, NEW n \in 0..MaxNesting - 1, NEW p \in DOMAIN Level(v)[n],
           NEW step \in DOMAIN Children(Level(v)[n][p])
    PROVE  /\ Append(p, step) \in DOMAIN Level(v)[n + 1]
           /\ Level(v)[n + 1][Append(p, step)] = Children(Level(v)[n][p])[step]
<1> USE SanitizerAssumption
<1>1. Level(v)[n + 1] = NextLevel(Level(v)[n])
  BY LevelIs
<1>2. n \in Nat /\ \A path \in DOMAIN Level(v)[n] : IsPath(path, n)
  BY LevelPaths
<1> QED BY <1>1, <1>2, NextLevelTree

\* And nothing else.
LEMMA LevelParent ==
    ASSUME NEW v, NEW n \in 1..MaxNesting, NEW path \in DOMAIN Level(v)[n]
    PROVE  \E p \in DOMAIN Level(v)[n - 1] :
               \E step \in DOMAIN Children(Level(v)[n - 1][p]) : path = Append(p, step)
<1> USE SanitizerAssumption
<1>1. n - 1 \in 0..MaxNesting - 1 /\ n - 1 \in Nat /\ (n - 1) + 1 = n
  OBVIOUS
<1>2. Level(v)[n] = NextLevel(Level(v)[n - 1])
  <2>1. Level(v)[(n - 1) + 1] = NextLevel(Level(v)[n - 1])
    BY <1>1, LevelIs
  <2> QED BY <1>1, <2>1
<1>3. \A p \in DOMAIN Level(v)[n - 1] : IsPath(p, n - 1)
  BY <1>1, LevelPaths
<1> QED BY <1>1, <1>2, <1>3, NextLevelTree

\* A map of values is, as an object, a value.
LEMMA ObjectOfMap ==
    ASSUME NEW m, IsMap(m)
    PROVE  IsValue(Object(m))
<1> USE SanitizerAssumption
<1>0. SUFFICES ASSUME NEW v, v = Object(m) PROVE IsValue(v)
  OBVIOUS
<1>1. Level(v)[0] = [path \in {<< >>} |-> v] /\ IsNode(v)
  <2>1. Level(v)[0] = [path \in {<< >>} |-> v]
    BY LevelIs
  <2>2. v.kind = "object" /\ v.map = m
    BY <1>0 DEF Object
  <2>3. DOMAIN m \subseteq DOMAIN Lower
    BY DEF IsMap
  <2> QED BY <1>0, <2>1, <2>2, <2>3 DEF IsNode
<1>2. Children(v) = m
  BY <1>0 DEF Children, Object
<1> DEFINE good == {n \in 0..MaxNesting : \A path \in DOMAIN Level(v)[n] :
                        n = 0 \/ \E key \in DOMAIN m : \E q \in DOMAIN Level(m[key])[n - 1] :
                                     Level(v)[n][path] = Level(m[key])[n - 1][q]}
<1>3. 0 \in good
  OBVIOUS
<1>4. ASSUME NEW n \in 0..MaxNesting - 1, n \in good PROVE n + 1 \in good
  <2> SUFFICES ASSUME NEW path \in DOMAIN Level(v)[n + 1]
               PROVE  \E key \in DOMAIN m : \E q \in DOMAIN Level(m[key])[n] :
                          Level(v)[n + 1][path] = Level(m[key])[n][q]
    OBVIOUS
  <2>1. PICK p \in DOMAIN Level(v)[n] : \E step \in DOMAIN Children(Level(v)[n][p]) :
                                            path = Append(p, step)
    <3>1. n + 1 \in 1..MaxNesting /\ (n + 1) - 1 = n
      OBVIOUS
    <3> QED BY <3>1, LevelParent
  <2>2. PICK step \in DOMAIN Children(Level(v)[n][p]) : path = Append(p, step)
    BY <2>1
  <2>3. Level(v)[n + 1][path] = Children(Level(v)[n][p])[step]
    BY <2>2, LevelChild
  <2>4. CASE n = 0
    <3>1. Level(v)[n][p] = v
      BY <1>1, <2>4
    <3>2. Level(m[step])[0] = [q \in {<< >>} |-> m[step]]
      BY LevelIs
    <3> QED BY <1>2, <2>2, <2>3, <2>4, <3>1, <3>2
  <2>5. CASE n # 0
    <3>1. PICK key \in DOMAIN m : \E q \in DOMAIN Level(m[key])[n - 1] :
                                      Level(v)[n][p] = Level(m[key])[n - 1][q]
      BY <1>4, <2>5
    <3>2. PICK q \in DOMAIN Level(m[key])[n - 1] : Level(v)[n][p] = Level(m[key])[n - 1][q]
      BY <3>1
    <3>3. n - 1 \in 0..MaxNesting - 1 /\ (n - 1) + 1 = n
      BY <2>5
    <3>4. /\ Append(q, step) \in DOMAIN Level(m[key])[n]
          /\ Level(m[key])[n][Append(q, step)] = Children(Level(m[key])[n - 1][q])[step]
      BY <2>2, <3>2, <3>3, LevelChild
    <3> QED BY <2>3, <3>2, <3>4
  <2> QED BY <2>4, <2>5
<1>5. \A n \in 0..MaxNesting : n \in good
  <2> HIDE DEF good
  <2> QED BY <1>3, <1>4, BoundedInduction
<1>6. ASSUME NEW n \in 0..MaxNesting, NEW path \in DOMAIN Level(v)[n]
      PROVE  IsNode(Level(v)[n][path])
  <2>1. CASE n = 0
    BY <1>1, <2>1
  <2>2. CASE n # 0
    <3>1. PICK key \in DOMAIN m : \E q \in DOMAIN Level(m[key])[n - 1] :
                                      Level(v)[n][path] = Level(m[key])[n - 1][q]
      BY <1>5, <2>2
    <3>2. IsValue(m[key]) /\ n - 1 \in 0..MaxNesting
      BY <2>2 DEF IsMap
    <3> QED BY <3>1, <3>2 DEF IsValue
  <2> QED BY <2>1, <2>2
<1> QED BY <1>6 DEF IsValue

\* One level of the walk, from what the level below was walked to.
WalkLevel(filter, v, depth, depthLeft, under) ==
    [path \in DOMAIN Level(v)[depth - depthLeft] |->
        Walked(filter, Level(v)[depth - depthLeft][path], depthLeft,
            [step \in DOMAIN Children(Level(v)[depth - depthLeft][path]) |->
                under[Append(path, step)]])]

Walks(f, filter, v, depth, N) ==
    f = [n \in 0..N |-> WalkLevel(filter, v, depth, n, f[n - 1])]

\* The last level asks for none below it.
LEMMA WalkLast ==
    ASSUME NEW filter, NEW v, NEW depth, NEW under, NEW other
    PROVE  WalkLevel(filter, v, depth, 0, under) = WalkLevel(filter, v, depth, 0, other)
<1>1. ASSUME NEW value, NEW below
      PROVE  Walked(filter, value, 0, below) =
                 IF IsText(value) THEN TruncateString(value) ELSE value
  BY DEF Walked
<1> QED BY <1>1 DEF WalkLevel

\* The walk of a value is what its equation says.
LEMMA WalkIs ==
    ASSUME NEW filter, NEW v, NEW depth \in Nat
    PROVE  \E walk :
               /\ Walk(filter, v, depth) = walk[depth][<< >>]
               /\ \A n \in 0..depth : walk[n] = WalkLevel(filter, v, depth, n, walk[n - 1])
<1> DEFINE known == {N \in Nat : \E f : Walks(f, filter, v, depth, N)}
<1>1. 0 \in known
  <2> DEFINE f == [n \in 0..0 |-> WalkLevel(filter, v, depth, 0, << >>)]
  <2>1. Walks(f, filter, v, depth, 0)
    <3>1. /\ f = [n \in 0..0 |-> f[n]]
          /\ \A n \in 0..0 : n = 0 /\ f[n] = WalkLevel(filter, v, depth, 0, << >>)
      OBVIOUS
    <3> HIDE DEF f
    <3>2. \A n \in 0..0 : f[n] = WalkLevel(filter, v, depth, n, f[n - 1])
      BY <3>1, WalkLast
    <3> QED BY <3>1, <3>2 DEF Walks
  <2> QED BY <2>1
<1>2. ASSUME NEW N \in known PROVE N + 1 \in known
  <2>1. PICK f : Walks(f, filter, v, depth, N)
    OBVIOUS
  <2> DEFINE g == [n \in 0..N + 1 |->
                      IF n = N + 1 THEN WalkLevel(filter, v, depth, N + 1, f[N]) ELSE f[n]]
  <2>2. \A n \in 0..N : f[n] = WalkLevel(filter, v, depth, n, f[n - 1])
    BY <2>1, Zenon DEF Walks
  <2>3. \A n \in 0..N + 1 : g[n] = WalkLevel(filter, v, depth, n, g[n - 1])
    <3> TAKE n \in 0..N + 1
    <3>1. CASE n = N + 1
      <4>1. g[n] = WalkLevel(filter, v, depth, N + 1, f[N]) /\ g[n - 1] = f[N]
        BY <3>1
      <4> QED BY <3>1, <4>1
    <3>2. CASE n # N + 1
      <4>1. n \in 0..N /\ g[n] = f[n] /\ (n # 0 => g[n - 1] = f[n - 1])
        BY <3>2
      <4> HIDE DEF g
      <4>2. CASE n = 0
        BY <2>2, <4>1, <4>2, WalkLast
      <4> QED BY <2>2, <4>1, <4>2
    <3> QED BY <3>1, <3>2
  <2>4. Walks(g, filter, v, depth, N + 1)
    <3>1. g = [n \in 0..N + 1 |-> g[n]]
      OBVIOUS
    <3> HIDE DEF g
    <3> QED BY <2>3, <3>1 DEF Walks
  <2> QED BY <2>4
<1>3. known = Nat
  <2> HIDE DEF known
  <2>1. known \in SUBSET Nat
    BY DEF known
  <2> QED BY <1>1, <1>2, <2>1, SetInduction
<1> DEFINE walk == CHOOSE f : Walks(f, filter, v, depth, depth)
<1>4. Walks(walk, filter, v, depth, depth)
  <2>1. \E f : Walks(f, filter, v, depth, depth)
    BY <1>3
  <2> QED BY <2>1
<1>5. Walk(filter, v, depth) = walk[depth][<< >>]
  BY DEF Walk, Walks, WalkLevel
<1> HIDE DEF walk
<1>6. \A n \in 0..depth : walk[n] = WalkLevel(filter, v, depth, n, walk[n - 1])
  BY <1>4, Zenon DEF Walks
<1> QED BY <1>5, <1>6

\* A truncated string fits, and no whole character that fits is lost.
LEMMA TruncateFits ==
    ASSUME NEW x, IsNode(x), IsText(x)
    PROVE  /\ IsText(TruncateString(x)) /\ TruncateString(x).id = x.id
           /\ Bytes(TruncateString(x)) <= MaxStringBytes
           /\ ~TruncateString(x).cut => TruncateString(x) = x
           /\ TruncateString(x).cut =>
                  Bytes(TruncateString(x)) + TruncateString(x).width > MaxStringBytes
           /\ x.chars > 0 => TruncateString(x).chars > 0
<1> USE SanitizerAssumption
<1>1. /\ x = [kind |-> "string", id |-> x.id, chars |-> x.chars, width |-> x.width, cut |-> FALSE]
      /\ x.chars \in Nat /\ x.width \in 1..MaxStringBytes
  BY DEF IsNode, IsText, Scalar, Object, Array, Text
<1>2. CASE Bytes(x) <= MaxStringBytes
  BY <1>1, <1>2 DEF TruncateString, IsText
<1>3. CASE ~(Bytes(x) <= MaxStringBytes)
  <2> DEFINE k == MaxStringBytes \div x.width
  <2>1. /\ k \in Nat /\ k * x.width <= MaxStringBytes /\ k * x.width + x.width > MaxStringBytes
        /\ k > 0
    BY <1>1
  <2>2. TruncateString(x) =
            [kind |-> "string", id |-> x.id, chars |-> k, width |-> x.width, cut |-> TRUE]
    <3>1. TruncateString(x) = [x EXCEPT !.chars = k, !.cut = TRUE]
      BY <1>3 DEF TruncateString
    <3> HIDE DEF k
    <3>2. PICK id, chars, width :
              x = [kind |-> "string", id |-> id, chars |-> chars, width |-> width, cut |-> FALSE]
      BY <1>1
    <3> QED BY <3>1, <3>2
  <2> HIDE DEF k
  <2> QED BY <2>1, <2>2 DEF IsText, Bytes
<1> QED BY <1>2, <1>3

\* A value keeps its kind, and a string is truncated.
LEMMA WalkedNode ==
    ASSUME NEW filter, NEW x, IsNode(x), NEW d \in Nat, NEW below,
           NEW y, y = Walked(filter, x, d, below)
    PROVE  /\ y.kind = x.kind
           /\ IsText(x) => y = TruncateString(x)
           /\ ~IsText(x) /\ ~Nests(x) => y = x
           /\ ~Nests(x) => DOMAIN Children(y) = {}
<1>1. CASE IsText(x)
  <2>1. y = TruncateString(x) /\ IsText(y)
    BY <1>1, TruncateFits DEF Walked
  <2>2. DOMAIN Children(y) = {} /\ ~Nests(x) /\ y.kind = x.kind
    BY <1>1, <2>1 DEF Children, IsText, Nests
  <2> QED BY <1>1, <2>1, <2>2
<1>2. CASE x.kind \in {"object", "array"}
  <2>1. ~IsText(x) /\ Nests(x)
    BY <1>2 DEF IsText, Nests
  <2>2. y.kind = x.kind
    BY <1>2, <2>1 DEF Walked, Object, Array
  <2> QED BY <2>1, <2>2
<1>3. CASE x = Scalar
  <2>1. ~IsText(x) /\ ~Nests(x) /\ DOMAIN Children(x) = {}
    BY <1>3 DEF IsText, Nests, Children, Scalar
  <2>2. y = x
    BY <2>1 DEF Walked
  <2> QED BY <2>1, <2>2
<1> QED BY <1>1, <1>2, <1>3 DEF IsNode, IsText

\* The children of a value, each walked on its own.
LEMMA WalkedChildren ==
    ASSUME NEW filter, NEW x, NEW d \in Nat \ {0}, NEW below, Nests(x),
           NEW y, y = Walked(filter, x, d, below)
    PROVE  /\ DOMAIN Children(y) = DOMAIN Children(x)
           /\ \A k \in DOMAIN Children(x) :
                  Children(y)[k] = IF x.kind = "object" /\ Redacted(filter, k) THEN Filtered
                                   ELSE Descend(Children(x)[k], d, below[k])
<1>1. ~IsText(x) /\ x.kind \in {"object", "array"}
  BY DEF IsText, Nests
<1>2. CASE x.kind = "object"
  <2>1. x.map = Children(x)
    BY <1>2 DEF Children
  <2>2. y = Object([key \in DOMAIN x.map |-> IF Redacted(filter, key) THEN Filtered
                        ELSE Descend(Children(x)[key], d, below[key])])
    BY <1>1, <1>2 DEF Walked
  <2>3. Children(y) = y.map
    BY <2>2 DEF Object, Children
  <2>4. y.map = [key \in DOMAIN x.map |-> IF Redacted(filter, key) THEN Filtered
                     ELSE Descend(Children(x)[key], d, below[key])]
    BY <2>2 DEF Object
  <2> QED BY <1>2, <2>1, <2>3, <2>4
<1>3. CASE x.kind = "array"
  <2>1. x.items = Children(x) /\ x.kind # "object"
    BY <1>3 DEF Children
  <2>2. y = Array([i \in DOMAIN x.items |-> Descend(Children(x)[i], d, below[i])])
    BY <1>1, <1>3 DEF Walked
  <2>3. Children(y) = y.items
    BY <2>2 DEF Array, Children
  <2>4. y.items = [i \in DOMAIN x.items |-> Descend(Children(x)[i], d, below[i])]
    BY <2>2 DEF Array
  <2> QED BY <2>1, <2>3, <2>4
<1> QED BY <1>1, <1>2, <1>3

IsWalk(walk, filter, v, depth) ==
    \A n \in 0..depth : walk[n] = WalkLevel(filter, v, depth, n, walk[n - 1])

LEMMA WalkOf ==
    ASSUME NEW filter, NEW v, NEW depth \in Nat
    PROVE  \E walk : Walk(filter, v, depth) = walk[depth][<< >>] /\ IsWalk(walk, filter, v, depth)
<1>1. PICK walk :
          /\ Walk(filter, v, depth) = walk[depth][<< >>]
          /\ \A n \in 0..depth : walk[n] = WalkLevel(filter, v, depth, n, walk[n - 1])
  BY WalkIs
<1>2. IsWalk(walk, filter, v, depth)
  BY <1>1 DEF IsWalk
<1> QED BY <1>1, <1>2

\* A value x of v, n steps below the root at path p, and y, what it is walked to.
Met(filter, v, depth, walk, n, p, x, y) ==
    /\ IsValue(v) /\ IsWalk(walk, filter, v, depth)
    /\ depth \in 1..MaxNesting - 1 /\ n \in 0..depth
    /\ p \in DOMAIN Level(v)[n] /\ x = Level(v)[n][p] /\ y = walk[depth - n][p]

LEMMA Visit ==
    ASSUME NEW filter, NEW v, NEW depth, NEW walk, NEW n, NEW p, NEW x, NEW y,
           Met(filter, v, depth, walk, n, p, x, y),
           NEW d, d = depth - n, NEW below,
           below = [step \in DOMAIN Children(x) |-> walk[d - 1][Append(p, step)]]
    PROVE  IsNode(x) /\ d \in Nat /\ y = Walked(filter, x, d, below)
<1> USE SanitizerAssumption DEF Met
<1>1. IsNode(x)
  BY DEF IsValue
<1>2. d \in 0..depth /\ depth - d = n
  OBVIOUS
<1>3. walk[d] = WalkLevel(filter, v, depth, d, walk[d - 1])
  BY <1>2 DEF IsWalk
<1>4. WalkLevel(filter, v, depth, d, walk[d - 1])[p] = Walked(filter, x, d, below)
  BY <1>2 DEF WalkLevel
<1> QED BY <1>1, <1>2, <1>3, <1>4

\* What the walk makes of a value.
LEMMA VisitNode ==
    ASSUME NEW filter, NEW v, NEW depth, NEW walk, NEW n, NEW p, NEW x, NEW y,
           Met(filter, v, depth, walk, n, p, x, y)
    PROVE  /\ IsNode(x) /\ y.kind = x.kind
           /\ IsText(x) => y = TruncateString(x)
           /\ ~IsText(x) /\ ~Nests(x) => y = x
           /\ ~Nests(x) => DOMAIN Children(y) = {}
<1>1. PICK d : d = depth - n
  OBVIOUS
<1>2. PICK below : below = [step \in DOMAIN Children(x) |-> walk[d - 1][Append(p, step)]]
  OBVIOUS
<1>3. IsNode(x) /\ d \in Nat /\ y = Walked(filter, x, d, below)
  BY <1>1, <1>2, Visit
<1> QED BY <1>3, WalkedNode

\* And of its children.
LEMMA VisitChild ==
    ASSUME NEW filter, NEW v, NEW depth, NEW walk, NEW n, NEW p, NEW x, NEW y,
           Met(filter, v, depth, walk, n, p, x, y), Nests(x), n < depth
    PROVE  /\ DOMAIN Children(y) = DOMAIN Children(x)
           /\ \A k \in DOMAIN Children(x) :
                  /\ Append(p, k) \in DOMAIN Level(v)[n + 1]
                  /\ Children(y)[k] =
                         IF x.kind = "object" /\ Lower[k] \in filter THEN Filtered
                         ELSE IF n + 1 = depth /\ Nests(Level(v)[n + 1][Append(p, k)])
                         THEN DepthMarker
                         ELSE walk[depth - (n + 1)][Append(p, k)]
<1> USE SanitizerAssumption
<1>1. PICK d : d = depth - n
  OBVIOUS
<1>2. n \in 0..depth - 1 /\ depth \in 1..MaxNesting - 1
  BY DEF Met
<1>3. d \in Nat \ {0} /\ (d <= 1 <=> n + 1 = depth) /\ d - 1 = depth - (n + 1)
  BY <1>1, <1>2
<1>4. PICK below : below = [step \in DOMAIN Children(x) |-> walk[d - 1][Append(p, step)]]
  OBVIOUS
<1>5. y = Walked(filter, x, d, below)
  BY <1>1, <1>4, Visit
<1>6. /\ DOMAIN Children(y) = DOMAIN Children(x)
      /\ \A k \in DOMAIN Children(x) :
             Children(y)[k] = IF x.kind = "object" /\ Redacted(filter, k) THEN Filtered
                              ELSE Descend(Children(x)[k], d, below[k])
  BY <1>3, <1>5, WalkedChildren
<1>7. ASSUME NEW k \in DOMAIN Children(x)
      PROVE  /\ Append(p, k) \in DOMAIN Level(v)[n + 1]
             /\ Children(y)[k] =
                    IF x.kind = "object" /\ Lower[k] \in filter THEN Filtered
                    ELSE IF n + 1 = depth /\ Nests(Level(v)[n + 1][Append(p, k)])
                    THEN DepthMarker
                    ELSE walk[depth - (n + 1)][Append(p, k)]
  <2>1. n \in 0..MaxNesting - 1 /\ p \in DOMAIN Level(v)[n] /\ x = Level(v)[n][p]
    BY <1>2 DEF Met
  <2>2. /\ Append(p, k) \in DOMAIN Level(v)[n + 1]
        /\ Level(v)[n + 1][Append(p, k)] = Children(x)[k]
    BY <2>1, LevelChild
  <2>3. below[k] = walk[depth - (n + 1)][Append(p, k)]
    BY <1>3, <1>4
  <2> QED BY <1>3, <1>6, <2>2, <2>3 DEF Descend, Redacted
<1> QED BY <1>6, <1>7

\* Where a value of the walked tree comes from: it is the walk of the value in
\* its place, or the redaction, or the marker of the depth; only the redaction
\* stands under a filtered name.
Origin(filter, v, depth, walk, W, n, p) ==
    \/ n \in 1..depth /\ Level(W)[n][p] = Filtered
    \/ /\ ~NamesSecret(filter, W, p)
       /\ \/ n = depth /\ Level(W)[n][p] = DepthMarker
          \/ /\ n <= depth /\ p \in DOMAIN Level(v)[n]
             /\ Level(W)[n][p] = walk[depth - n][p]
             /\ n = depth => ~Nests(Level(v)[n][p])

LEMMA WalkOrigin ==
    ASSUME NEW filter, NEW v, IsValue(v), NEW depth \in 1..MaxNesting - 1,
           NEW walk, IsWalk(walk, filter, v, depth), NEW W, W = walk[depth][<< >>]
    PROVE  \A n \in 0..MaxNesting : \A p \in DOMAIN Level(W)[n] :
               Origin(filter, v, depth, walk, W, n, p)
<1> USE SanitizerAssumption
<1> DEFINE good == {n \in 0..MaxNesting : \A p \in DOMAIN Level(W)[n] :
                        Origin(filter, v, depth, walk, W, n, p)}
<1>1. 0 \in good
  <2>1. /\ Level(W)[0] = [path \in {<< >>} |-> W]
        /\ Level(v)[0] = [path \in {<< >>} |-> v]
    <3>1. Level(W)[0] = [path \in {<< >>} |-> W]
      BY LevelIs
    <3>2. Level(v)[0] = [path \in {<< >>} |-> v]
      BY LevelIs
    <3> QED BY <3>1, <3>2
  <2>2. ASSUME NEW p \in DOMAIN Level(W)[0] PROVE Origin(filter, v, depth, walk, W, 0, p)
    BY <2>1 DEF Origin, NamesSecret
  <2> QED BY <2>2
<1>2. ASSUME NEW n \in 0..MaxNesting - 1, n \in good PROVE n + 1 \in good
  <2> SUFFICES ASSUME NEW path \in DOMAIN Level(W)[n + 1]
               PROVE  Origin(filter, v, depth, walk, W, n + 1, path)
    OBVIOUS
  <2>0. \A p \in DOMAIN Level(W)[n] : Origin(filter, v, depth, walk, W, n, p)
    BY <1>2
  <2> HIDE DEF good
  <2>1. PICK p \in DOMAIN Level(W)[n] :
                 \E k \in DOMAIN Children(Level(W)[n][p]) : path = Append(p, k)
    <3>1. n + 1 \in 1..MaxNesting /\ (n + 1) - 1 = n
      OBVIOUS
    <3> QED BY <3>1, LevelParent
  <2>2. PICK k \in DOMAIN Children(Level(W)[n][p]) : path = Append(p, k)
    BY <2>1
  <2>3. Level(W)[n + 1][path] = Children(Level(W)[n][p])[k]
    BY <2>2, LevelChild
  <2>4. IsPath(p, n)
    BY LevelPaths
  <2>5. Front(path) = p /\ Last(path) = k /\ Len(p) = n /\ path # << >>
    BY <2>2, <2>4, PathFacts
  <2>6. NamesSecret(filter, W, path) <=> Level(W)[n][p].kind = "object" /\ Lower[k] \in filter
    BY <2>5 DEF NamesSecret, At
  <2>7. Children(Filtered) = << >> /\ Children(DepthMarker) = << >>
    BY DEF Children, Filtered, DepthMarker, Short, Text
  <2>8. /\ n <= depth /\ p \in DOMAIN Level(v)[n]
        /\ Level(W)[n][p] = walk[depth - n][p]
        /\ n = depth => ~Nests(Level(v)[n][p])
    <3>1. Origin(filter, v, depth, walk, W, n, p)
      BY <2>0
    <3>2. Level(W)[n][p] # Filtered /\ Level(W)[n][p] # DepthMarker
      BY <2>2, <2>7
    <3> QED BY <3>1, <3>2 DEF Origin
  <2> DEFINE x == Level(v)[n][p]
             y == Level(W)[n][p]
  <2>9. Met(filter, v, depth, walk, n, p, x, y)
    BY <2>8 DEF Met
  <2>10. y.kind = x.kind /\ Nests(x) /\ n < depth
    <3>1. y.kind = x.kind /\ (~Nests(x) => DOMAIN Children(y) = {})
      <4> HIDE DEF x, y
      <4> QED BY <2>9, VisitNode
    <3> QED BY <2>2, <2>8, <3>1
  <2>11. /\ path \in DOMAIN Level(v)[n + 1]
         /\ Level(W)[n + 1][path] =
                IF x.kind = "object" /\ Lower[k] \in filter THEN Filtered
                ELSE IF n + 1 = depth /\ Nests(Level(v)[n + 1][path]) THEN DepthMarker
                ELSE walk[depth - (n + 1)][path]
    <3>2. /\ DOMAIN Children(y) = DOMAIN Children(x)
          /\ \A j \in DOMAIN Children(x) :
                 /\ Append(p, j) \in DOMAIN Level(v)[n + 1]
                 /\ Children(y)[j] =
                        IF x.kind = "object" /\ Lower[j] \in filter THEN Filtered
                        ELSE IF n + 1 = depth /\ Nests(Level(v)[n + 1][Append(p, j)])
                        THEN DepthMarker
                        ELSE walk[depth - (n + 1)][Append(p, j)]
      <4> HIDE DEF x, y
      <4> QED BY <2>9, <2>10, VisitChild
    <3> QED BY <2>2, <2>3, <3>2
  <2>12. NamesSecret(filter, W, path) <=> x.kind = "object" /\ Lower[k] \in filter
    BY <2>6, <2>10
  <2> HIDE DEF x, y
  <2> QED BY <2>10, <2>11, <2>12 DEF Origin
<1> HIDE DEF good
<1>3. \A n \in 0..MaxNesting : n \in good
  BY <1>1, <1>2, BoundedInduction
<1> QED BY <1>3 DEF good

\* What is walked is clean.
LEMMA WalkClean ==
    ASSUME NEW filter, NEW v, IsValue(v), NEW depth \in 1..MaxNesting - 1
    PROVE  Clean(filter, depth, Walk(filter, v, depth))
<1> USE SanitizerAssumption
<1>1. PICK walk : /\ Walk(filter, v, depth) = walk[depth][<< >>]
                  /\ IsWalk(walk, filter, v, depth)
  BY WalkOf
<1>2. PICK W : W = walk[depth][<< >>]
  OBVIOUS
<1>3. \A n \in 0..MaxNesting : \A p \in DOMAIN Level(W)[n] :
          Origin(filter, v, depth, walk, W, n, p)
  BY <1>1, <1>2, WalkOrigin
<1>4. ASSUME NEW path \in Paths(W)
      PROVE  /\ Len(path) <= depth
             /\ NamesSecret(filter, W, path) => At(W, path) = Filtered
             /\ Nests(At(W, path)) => Len(path) < depth
             /\ IsText(At(W, path)) => Bytes(At(W, path)) <= MaxStringBytes
  <2>1. PICK n \in 0..MaxNesting : path \in DOMAIN Level(W)[n]
    BY DEF Paths
  <2>2. IsPath(path, n)
    BY <2>1, LevelPaths
  <2>3. Len(path) = n
    BY <2>2, PathFacts
  <2>4. PICK y : y = Level(W)[n][path]
    OBVIOUS
  <2>5. At(W, path) = y
    BY <2>3, <2>4 DEF At
  <2>6. Origin(filter, v, depth, walk, W, n, path)
    BY <1>3, <2>1
  <2>7. /\ ~Nests(Filtered) /\ Bytes(Filtered) <= MaxStringBytes
        /\ ~Nests(DepthMarker) /\ Bytes(DepthMarker) <= MaxStringBytes
    BY DEF Nests, Bytes, Filtered, DepthMarker, Short, Text
  <2>8. CASE n \in 1..depth /\ y = Filtered
    BY <2>3, <2>5, <2>7, <2>8
  <2>9. CASE ~NamesSecret(filter, W, path) /\ n = depth /\ y = DepthMarker
    BY <2>3, <2>5, <2>7, <2>9
  <2>10. CASE /\ ~NamesSecret(filter, W, path) /\ n <= depth
              /\ path \in DOMAIN Level(v)[n] /\ y = walk[depth - n][path]
              /\ n = depth => ~Nests(Level(v)[n][path])
    <3>1. PICK x : x = Level(v)[n][path]
      OBVIOUS
    <3>2. Met(filter, v, depth, walk, n, path, x, y)
      BY <1>1, <2>10, <3>1 DEF Met
    <3>3. /\ IsNode(x) /\ y.kind = x.kind
          /\ IsText(x) => y = TruncateString(x)
      BY <3>2, VisitNode
    <3>4. (Nests(y) => Nests(x)) /\ (IsText(y) => IsText(x))
      BY <3>3 DEF Nests, IsText
    <3>5. IsText(y) => Bytes(y) <= MaxStringBytes
      BY <3>3, <3>4, TruncateFits
    <3>6. Nests(y) => n < depth
      BY <2>10, <3>1, <3>4
    <3> QED BY <2>3, <2>5, <2>10, <3>5, <3>6
  <2> QED BY <2>4, <2>6, <2>8, <2>9, <2>10 DEF Origin
<1> QED BY <1>1, <1>2, <1>4 DEF Clean

\* What no rule is about is where it was, walked.
Carried(filter, v, depth, walk, W, n, p) ==
    \/ \E m \in 1..n : NamesSecret(filter, v, SubSeq(p, 1, m))
    \/ n > depth
    \/ n = depth /\ Nests(Level(v)[n][p])
    \/ p \in DOMAIN Level(W)[n] /\ Level(W)[n][p] = walk[depth - n][p]

LEMMA WalkCarries ==
    ASSUME NEW filter, NEW v, IsValue(v), NEW depth \in 1..MaxNesting - 1,
           NEW walk, IsWalk(walk, filter, v, depth), NEW W, W = walk[depth][<< >>]
    PROVE  \A n \in 0..MaxNesting : \A p \in DOMAIN Level(v)[n] :
               Carried(filter, v, depth, walk, W, n, p)
<1> USE SanitizerAssumption
<1> DEFINE good == {n \in 0..MaxNesting : \A p \in DOMAIN Level(v)[n] :
                        Carried(filter, v, depth, walk, W, n, p)}
<1>1. 0 \in good
  <2>1. /\ Level(W)[0] = [path \in {<< >>} |-> W]
        /\ Level(v)[0] = [path \in {<< >>} |-> v]
    <3>1. Level(W)[0] = [path \in {<< >>} |-> W]
      BY LevelIs
    <3>2. Level(v)[0] = [path \in {<< >>} |-> v]
      BY LevelIs
    <3> QED BY <3>1, <3>2
  <2>2. ASSUME NEW p \in DOMAIN Level(v)[0] PROVE Carried(filter, v, depth, walk, W, 0, p)
    BY <2>1 DEF Carried
  <2> QED BY <2>2
<1>2. ASSUME NEW n \in 0..MaxNesting - 1, n \in good PROVE n + 1 \in good
  <2> SUFFICES ASSUME NEW path \in DOMAIN Level(v)[n + 1]
               PROVE  Carried(filter, v, depth, walk, W, n + 1, path)
    OBVIOUS
  <2>0. \A p \in DOMAIN Level(v)[n] : Carried(filter, v, depth, walk, W, n, p)
    BY <1>2
  <2> HIDE DEF good
  <2>1. PICK p \in DOMAIN Level(v)[n] :
                 \E k \in DOMAIN Children(Level(v)[n][p]) : path = Append(p, k)
    <3>1. n + 1 \in 1..MaxNesting /\ (n + 1) - 1 = n
      OBVIOUS
    <3> QED BY <3>1, LevelParent
  <2>2. PICK k \in DOMAIN Children(Level(v)[n][p]) : path = Append(p, k)
    BY <2>1
  <2>3. IsPath(p, n)
    BY LevelPaths
  <2>4. /\ Front(path) = p /\ Last(path) = k /\ Len(p) = n /\ path # << >>
        /\ \A m \in 1..n : SubSeq(path, 1, m) = SubSeq(p, 1, m)
        /\ SubSeq(path, 1, n + 1) = path
    BY <2>2, <2>3, PathFacts
  <2>5. CASE \E m \in 1..n : NamesSecret(filter, v, SubSeq(p, 1, m))
    <3>1. PICK m \in 1..n : NamesSecret(filter, v, SubSeq(p, 1, m))
      BY <2>5
    <3>2. m \in 1..n + 1 /\ NamesSecret(filter, v, SubSeq(path, 1, m))
      <4>1. SubSeq(path, 1, m) = SubSeq(p, 1, m) /\ m \in 1..n + 1
        BY <2>4
      <4> QED BY <3>1, <4>1, Zenon
    <3> QED BY <3>2 DEF Carried
  <2>6. CASE n >= depth
    BY <2>6 DEF Carried
  <2>7. CASE n < depth /\ p \in DOMAIN Level(W)[n] /\ Level(W)[n][p] = walk[depth - n][p]
    <3>1. PICK x : x = Level(v)[n][p]
      OBVIOUS
    <3>2. PICK y : y = Level(W)[n][p]
      OBVIOUS
    <3>3. Met(filter, v, depth, walk, n, p, x, y)
      BY <2>7, <3>1, <3>2 DEF Met
    <3>4. k \in DOMAIN Children(x)
      BY <2>2, <3>1
    <3>5. Nests(x)
      BY <3>4 DEF Children, Nests
    <3>6. /\ DOMAIN Children(y) = DOMAIN Children(x)
          /\ Children(y)[k] = IF x.kind = "object" /\ Lower[k] \in filter THEN Filtered
                              ELSE IF n + 1 = depth /\ Nests(Level(v)[n + 1][path])
                              THEN DepthMarker
                              ELSE walk[depth - (n + 1)][path]
      <4>1. /\ DOMAIN Children(y) = DOMAIN Children(x)
            /\ \A j \in DOMAIN Children(x) :
                   /\ Append(p, j) \in DOMAIN Level(v)[n + 1]
                   /\ Children(y)[j] =
                          IF x.kind = "object" /\ Lower[j] \in filter THEN Filtered
                          ELSE IF n + 1 = depth /\ Nests(Level(v)[n + 1][Append(p, j)])
                          THEN DepthMarker
                          ELSE walk[depth - (n + 1)][Append(p, j)]
        BY <2>7, <3>3, <3>5, VisitChild
      <4> QED BY <2>2, <3>4, <4>1
    <3>7. /\ path \in DOMAIN Level(W)[n + 1]
          /\ Level(W)[n + 1][path] = Children(y)[k]
      BY <2>2, <2>7, <3>2, <3>4, <3>6, LevelChild
    <3>8. NamesSecret(filter, v, path) <=> x.kind = "object" /\ Lower[k] \in filter
      BY <2>4, <3>1 DEF NamesSecret, At
    <3>9. CASE x.kind = "object" /\ Lower[k] \in filter
      <4>1. n + 1 \in 1..n + 1 /\ NamesSecret(filter, v, SubSeq(path, 1, n + 1))
        <5>1. SubSeq(path, 1, n + 1) = path /\ n + 1 \in 1..n + 1
          BY <2>4
        <5>2. NamesSecret(filter, v, path)
          BY <3>8, <3>9
        <5> QED BY <5>1, <5>2, Zenon
      <4> QED BY <4>1 DEF Carried
    <3>10. CASE ~(x.kind = "object" /\ Lower[k] \in filter)
      BY <3>6, <3>7, <3>10 DEF Carried
    <3> QED BY <3>9, <3>10
  <2>8. Carried(filter, v, depth, walk, W, n, p)
    BY <2>0
  <2> QED BY <2>5, <2>6, <2>7, <2>8 DEF Carried
<1> HIDE DEF good
<1>3. \A n \in 0..MaxNesting : n \in good
  BY <1>1, <1>2, BoundedInduction
<1> QED BY <1>3 DEF good

\* What is walked loses nothing else.
LEMMA WalkPreserves ==
    ASSUME NEW filter, NEW v, IsValue(v), NEW depth \in 1..MaxNesting - 1
    PROVE  Preserved(filter, depth, v, Walk(filter, v, depth))
<1> USE SanitizerAssumption
<1>1. PICK walk : /\ Walk(filter, v, depth) = walk[depth][<< >>]
                  /\ IsWalk(walk, filter, v, depth)
  BY WalkOf
<1>2. PICK W : W = walk[depth][<< >>]
  OBVIOUS
<1>3. \A n \in 0..MaxNesting : \A p \in DOMAIN Level(v)[n] :
          Carried(filter, v, depth, walk, W, n, p)
  BY <1>1, <1>2, WalkCarries
<1>4. ASSUME NEW path \in Paths(v)
      PROVE  \/ \E n \in 1..Len(path) : NamesSecret(filter, v, SubSeq(path, 1, n))
             \/ Len(path) > depth
             \/ Len(path) = depth /\ Nests(At(v, path))
             \/ /\ path \in Paths(W)
                /\ At(W, path).kind = At(v, path).kind
                /\ IsText(At(W, path)) =>
                       /\ At(W, path).id = At(v, path).id
                       /\ ~At(W, path).cut => At(W, path) = At(v, path)
                       /\ At(W, path).cut =>
                              Bytes(At(W, path)) + At(W, path).width > MaxStringBytes
  <2>1. PICK n \in 0..MaxNesting : path \in DOMAIN Level(v)[n]
    BY DEF Paths
  <2>2. IsPath(path, n)
    BY <2>1, LevelPaths
  <2>3. Len(path) = n
    BY <2>2, PathFacts
  <2>4. PICK x : x = Level(v)[n][path]
    OBVIOUS
  <2>5. At(v, path) = x
    BY <2>3, <2>4 DEF At
  <2>6. Carried(filter, v, depth, walk, W, n, path)
    BY <1>3, <2>1
  <2>7. CASE n <= depth /\ path \in DOMAIN Level(W)[n] /\ Level(W)[n][path] = walk[depth - n][path]
    <3>1. PICK y : y = Level(W)[n][path]
      OBVIOUS
    <3>2. At(W, path) = y /\ path \in Paths(W)
      BY <2>3, <2>7, <3>1 DEF At, Paths
    <3>3. Met(filter, v, depth, walk, n, path, x, y)
      BY <1>1, <2>1, <2>4, <2>7, <3>1 DEF Met
    <3>4. /\ IsNode(x) /\ y.kind = x.kind
          /\ IsText(x) => y = TruncateString(x)
      BY <3>3, VisitNode
    <3>5. IsText(y) => IsText(x)
      BY <3>4 DEF IsText
    <3>6. IsText(y) => /\ y.id = x.id
                       /\ ~y.cut => y = x
                       /\ y.cut => Bytes(y) + y.width > MaxStringBytes
      BY <3>4, <3>5, TruncateFits
    <3> QED BY <2>5, <3>2, <3>4, <3>6
  <2> QED BY <2>3, <2>4, <2>5, <2>6, <2>7 DEF Carried
<1> QED BY <1>1, <1>2, <1>4 DEF Preserved

\* At the root the walk looks at each child: a string is truncated.
LEMMA WalkRoot ==
    ASSUME NEW filter, NEW m, IsMap(m), NEW depth \in 1..MaxNesting - 1,
           NEW W, W = Walk(filter, Object(m), depth)
    PROVE  /\ W.kind = "object" /\ DOMAIN W.map = DOMAIN m
           /\ \A key \in DOMAIN m :
                  /\ Lower[key] \in filter => W.map[key] = Filtered
                  /\ Lower[key] \notin filter /\ IsText(m[key]) =>
                         W.map[key] = TruncateString(m[key])
<1> USE SanitizerAssumption
<1>1. PICK v : v = Object(m)
  OBVIOUS
<1>2. IsValue(v) /\ v.kind = "object" /\ Nests(v) /\ Children(v) = m
  BY <1>1, ObjectOfMap DEF Object, Nests, Children
<1>3. PICK walk : W = walk[depth][<< >>] /\ IsWalk(walk, filter, v, depth)
  <2>1. \E walk : Walk(filter, v, depth) = walk[depth][<< >>] /\ IsWalk(walk, filter, v, depth)
    BY WalkOf
  <2> QED BY <1>1, <2>1
<1>4. Level(v)[0] = [path \in {<< >>} |-> v]
  BY LevelIs
<1>0. PICK n, root : n = 0 /\ root = << >>
  OBVIOUS
<1>5. Met(filter, v, depth, walk, n, root, v, W)
  BY <1>0, <1>2, <1>3, <1>4 DEF Met
<1>6. W.kind = "object"
  BY <1>2, <1>5, VisitNode
<1>7. Children(W) = W.map
  BY <1>6 DEF Children
<1>8. /\ DOMAIN Children(W) = DOMAIN m
      /\ \A key \in DOMAIN m :
             Children(W)[key] = IF Lower[key] \in filter THEN Filtered
                                ELSE IF n + 1 = depth /\ Nests(Level(v)[n + 1][Append(root, key)])
                                THEN DepthMarker
                                ELSE walk[depth - (n + 1)][Append(root, key)]
  <2>1. n < depth
    BY <1>0
  <2>2. /\ DOMAIN Children(W) = DOMAIN Children(v)
        /\ \A k \in DOMAIN Children(v) :
               /\ Append(root, k) \in DOMAIN Level(v)[n + 1]
               /\ Children(W)[k] =
                      IF v.kind = "object" /\ Lower[k] \in filter THEN Filtered
                      ELSE IF n + 1 = depth /\ Nests(Level(v)[n + 1][Append(root, k)])
                      THEN DepthMarker
                      ELSE walk[depth - (n + 1)][Append(root, k)]
    BY <1>2, <1>5, <2>1, VisitChild
  <2> QED BY <1>2, <2>2
<1>9. ASSUME NEW key \in DOMAIN m, Lower[key] \notin filter, IsText(m[key])
      PROVE  Children(W)[key] = TruncateString(m[key])
  <2>1. PICK path : path = Append(root, key)
    OBVIOUS
  <2>2. n \in 0..MaxNesting - 1 /\ root \in DOMAIN Level(v)[n] /\ Level(v)[n][root] = v
    BY <1>0, <1>4
  <2>3. path \in DOMAIN Level(v)[n + 1] /\ Level(v)[n + 1][path] = m[key]
    BY <1>2, <2>1, <2>2, LevelChild
  <2>4. ~Nests(m[key])
    BY <1>9 DEF Nests, IsText
  <2>5. Children(W)[key] = walk[depth - (n + 1)][path]
    BY <1>8, <1>9, <2>1, <2>3, <2>4
  <2>6. Met(filter, v, depth, walk, n + 1, path, m[key], Children(W)[key])
    BY <1>0, <1>2, <1>3, <2>3, <2>5 DEF Met
  <2> QED BY <1>9, <2>6, VisitNode
<1> QED BY <1>6, <1>7, <1>8, <1>9

-----------------------------------------------------------------------------
(***************************************************************************)
(* Causes and frames (Reports, Backtrace)                                  *)
(***************************************************************************)
\* The causes so far and the link whose source() is asked next.
NextCauses(first, before) ==
    LET source == SourceOf[IF before = << >> THEN first ELSE Last(before)]
    IN  IF source \in Links THEN Append(before, source) ELSE before

Chains(f, first, N) ==
    f = [n \in 0..N |-> IF n = 0 THEN << >> ELSE NextCauses(first, f[n - 1])]

\* The causes are what their equation says.
LEMMA CausesAre ==
    ASSUME NEW first
    PROVE  \E chain : /\ Causes(first) = chain[MaxCauses]
                      /\ chain[0] = << >>
                      /\ \A n \in 0..MaxCauses - 1 : chain[n + 1] = NextCauses(first, chain[n])
<1> USE ReportsAssumption
<1> DEFINE known == {N \in Nat : \E f : Chains(f, first, N)}
<1>1. 0 \in known
  <2> DEFINE f == [n \in 0..0 |-> << >>]
  <2>1. Chains(f, first, 0)
    <3>1. /\ f = [n \in 0..0 |-> f[n]]
          /\ \A n \in 0..0 : f[n] = IF n = 0 THEN << >> ELSE NextCauses(first, f[n - 1])
      OBVIOUS
    <3> HIDE DEF f
    <3> QED BY <3>1 DEF Chains
  <2> QED BY <2>1
<1>2. ASSUME NEW N \in known PROVE N + 1 \in known
  <2>1. PICK f : Chains(f, first, N)
    OBVIOUS
  <2> DEFINE g == [n \in 0..N + 1 |-> IF n = N + 1 THEN NextCauses(first, f[N]) ELSE f[n]]
  <2>2. \A n \in 0..N : f[n] = IF n = 0 THEN << >> ELSE NextCauses(first, f[n - 1])
    BY <2>1, Zenon DEF Chains
  <2>3. \A n \in 0..N + 1 : g[n] = IF n = 0 THEN << >> ELSE NextCauses(first, g[n - 1])
    <3> TAKE n \in 0..N + 1
    <3>1. CASE n = N + 1
      <4>1. g[n] = NextCauses(first, f[N]) /\ g[n - 1] = f[N] /\ n # 0
        BY <3>1
      <4> QED BY <4>1
    <3>2. CASE n # N + 1
      <4>1. n \in 0..N /\ g[n] = f[n] /\ (n # 0 => g[n - 1] = f[n - 1])
        BY <3>2
      <4> QED BY <2>2, <4>1
    <3> QED BY <3>1, <3>2
  <2>4. Chains(g, first, N + 1)
    <3>1. g = [n \in 0..N + 1 |-> g[n]]
      OBVIOUS
    <3> HIDE DEF g
    <3> QED BY <2>3, <3>1 DEF Chains
  <2> QED BY <2>4
<1>3. known = Nat
  <2> HIDE DEF known
  <2>1. known \in SUBSET Nat
    BY DEF known
  <2> QED BY <1>1, <1>2, <2>1, SetInduction
<1> DEFINE chain == CHOOSE f : Chains(f, first, MaxCauses)
<1>4. Chains(chain, first, MaxCauses)
  <2>1. \E f : Chains(f, first, MaxCauses)
    BY <1>3
  <2> QED BY <2>1
<1>5. Causes(first) = chain[MaxCauses]
  BY DEF Causes, Chains, NextCauses
<1> HIDE DEF chain
<1>6. \A n \in 0..MaxCauses : chain[n] = IF n = 0 THEN << >> ELSE NextCauses(first, chain[n - 1])
  BY <1>4, Zenon DEF Chains
<1>7. chain[0] = << >>
  BY <1>6
<1>8. ASSUME NEW n \in 0..MaxCauses - 1 PROVE chain[n + 1] = NextCauses(first, chain[n])
  <2>1. n + 1 \in 0..MaxCauses /\ n + 1 # 0 /\ (n + 1) - 1 = n
    OBVIOUS
  <2>2. chain[n + 1] = NextCauses(first, chain[(n + 1) - 1])
    BY <1>6, <2>1
  <2> QED BY <2>1, <2>2
<1> QED BY <1>5, <1>7, <1>8

\* They follow the chain of sources, all of it up to the cap.
Follows(first, causes, n) ==
    /\ causes \in Seq(Links) /\ Len(causes) <= n
    /\ \A i \in 1..Len(causes) : causes[i] = SourceOf[IF i = 1 THEN first ELSE causes[i - 1]]
    /\ Len(causes) < n =>
           SourceOf[IF causes = << >> THEN first ELSE Last(causes)] \notin Links

LEMMA CausesFollow ==
    ASSUME NEW first
    PROVE  Follows(first, Causes(first), MaxCauses)
<1> USE ReportsAssumption
<1>1. PICK chain : /\ Causes(first) = chain[MaxCauses]
                   /\ chain[0] = << >>
                   /\ \A n \in 0..MaxCauses - 1 : chain[n + 1] = NextCauses(first, chain[n])
  BY CausesAre
<1> DEFINE good == {n \in 0..MaxCauses : Follows(first, chain[n], n)}
<1>2. 0 \in good
  <2>1. Follows(first, << >>, 0)
    BY EmptySeq DEF Follows
  <2> QED BY <1>1, <2>1
<1>3. ASSUME NEW n \in 0..MaxCauses - 1, n \in good PROVE n + 1 \in good
  <2>1. PICK c : c = chain[n]
    OBVIOUS
  <2>2. Follows(first, c, n)
    BY <1>3, <2>1
  <2>3. PICK source : source = SourceOf[IF c = << >> THEN first ELSE Last(c)]
    OBVIOUS
  <2>4. chain[n + 1] = IF source \in Links THEN Append(c, source) ELSE c
    BY <1>1, <2>1, <2>3 DEF NextCauses
  <2>5. CASE source \notin Links
    BY <2>2, <2>3, <2>4, <2>5 DEF Follows
  <2>6. CASE source \in Links
    <3>1. Len(c) = n
      BY <2>2, <2>3, <2>6 DEF Follows
    <3>2. PICK d : d = Append(c, source)
      OBVIOUS
    <3>3. /\ d \in Seq(Links) /\ Len(d) = n + 1 /\ d[n + 1] = source
          /\ \A i \in 1..n : d[i] = c[i]
      BY <2>2, <2>6, <3>1, <3>2, AppendProperties DEF Follows
    <3>4. source = SourceOf[IF n + 1 = 1 THEN first ELSE c[n]]
      <4>1. c = << >> <=> n = 0
        BY <2>2, <3>1, EmptySeq DEF Follows
      <4> QED BY <2>3, <3>1, <4>1 DEF Last
    <3>5. ASSUME NEW i \in 1..n + 1 PROVE d[i] = SourceOf[IF i = 1 THEN first ELSE d[i - 1]]
      <4>1. CASE i = n + 1
        <5>1. i # 1 => d[i - 1] = c[n]
          BY <3>3, <4>1
        <5> QED BY <3>3, <3>4, <4>1, <5>1
      <4>2. CASE i # n + 1
        <5>1. i \in 1..n /\ d[i] = c[i] /\ (i # 1 => d[i - 1] = c[i - 1])
          BY <3>3, <4>2
        <5> QED BY <2>2, <3>1, <5>1 DEF Follows
      <4> QED BY <4>1, <4>2
    <3>6. Follows(first, d, n + 1)
      BY <3>3, <3>5 DEF Follows
    <3>7. chain[n + 1] = d /\ n + 1 \in 0..MaxCauses
      BY <2>4, <2>6, <3>2
    <3> QED BY <3>6, <3>7
  <2> QED BY <2>5, <2>6
<1>4. \A n \in 0..MaxCauses : n \in good
  <2> HIDE DEF good
  <2> QED BY <1>2, <1>3, BoundedInduction
<1> QED BY <1>1, <1>4

\* The larger and the smaller of two numbers.
LEMMA MaxOfTwo ==
    ASSUME NEW a \in Int, NEW b \in Int
    PROVE  Max({a, b}) \in Int /\ Max({a, b}) >= a /\ Max({a, b}) >= b /\ Max({a, b}) \in {a, b}
<1>1. \E x \in {a, b} : \A y \in {a, b} : x >= y
  <2>1. CASE a >= b
    BY <2>1
  <2>2. CASE ~(a >= b)
    BY <2>2
  <2> QED BY <2>1, <2>2
<1>2. Max({a, b}) \in {a, b} /\ \A y \in {a, b} : Max({a, b}) >= y
  BY <1>1 DEF Max
<1> QED BY <1>2

LEMMA MinOfTwo ==
    ASSUME NEW a \in Int, NEW b \in Int
    PROVE  Min({a, b}) \in Int /\ Min({a, b}) <= a /\ Min({a, b}) <= b /\ Min({a, b}) \in {a, b}
<1>1. \E x \in {a, b} : \A y \in {a, b} : x =< y
  <2>1. CASE a =< b
    BY <2>1
  <2>2. CASE ~(a =< b)
    BY <2>2
  <2> QED BY <2>1, <2>2
<1>2. Min({a, b}) \in {a, b} /\ \A y \in {a, b} : Min({a, b}) =< y
  BY <1>1 DEF Min
<1> QED BY <1>2

\* What FramesAreOwn says of one frame.
OwnFrame(f, root) ==
    /\ f.source # NoSource =>
           /\ IsPrefix(root, f.file)
           /\ IsPrefix(Canonical[root], Canonical[f.file])
           /\ \A n \in f.source : n - f.line \in -SourceRadius..SourceRadius
    /\ f.method # NoName /\ f.file # NoFile =>
           (f.shown = f.file <=> root \in {<< >>, Placeholder} \/ ~IsPrefix(root, f.file))

\* One element and the sequence behind it.
Joins(u, s, t, n, T) ==
    /\ s \in Seq(T) /\ t \in Seq(T) /\ u = s \o t
    /\ n \in Nat /\ n = Len(t) /\ Len(s) = 1

LEMMA Joined ==
    ASSUME NEW T, NEW s, NEW t, NEW u, NEW n, Joins(u, s, t, n, T)
    PROVE  /\ u \in Seq(T) /\ Len(u) = 1 + n
           /\ u[1] = s[1] /\ \A i \in 2..1 + n : u[i] = t[i - 1]
<1>0. n \in Nat
  BY DEF Joins
<1>1. s \o t \in Seq(T) /\ Len(s \o t) = Len(s) + Len(t)
  BY ConcatProperties, Zenon DEF Joins
<1>2. \A i \in 1..Len(s) + Len(t) : (s \o t)[i] = IF i <= Len(s) THEN s[i] ELSE t[i - Len(s)]
  BY ConcatProperties, Zenon DEF Joins
<1>3. u \in Seq(T) /\ Len(u) = 1 + n
  BY <1>1, Zenon DEF Joins
<1>4. \A i \in 1..1 + n : u[i] = IF i <= 1 THEN s[i] ELSE t[i - 1]
  BY <1>2, Zenon DEF Joins
<1>5. u[1] = s[1]
  BY ONLY <1>0, <1>4
<1>6. \A i \in 2..1 + n : u[i] = t[i - 1]
  BY ONLY <1>0, <1>4
<1> QED BY <1>3, <1>5, <1>6

\* A file under the root is shown as the placeholder and what follows the root:
\* the file itself only if the root is that placeholder.
LEMMA DisplayedOtherwise ==
    ASSUME NEW root \in Seq(STRING), NEW file \in Seq(STRING)
    PROVE  DisplayPath(file, root) = file
               <=> root \in {<< >>, Placeholder} \/ ~IsPrefix(root, file)
<1>1. CASE root = << >> \/ ~IsPrefix(root, file)
  BY <1>1 DEF DisplayPath, LexicallyUnderRoot
<1>2. CASE root # << >> /\ IsPrefix(root, file)
  <2> DEFINE T == STRING \cup {"[PROJECT_ROOT]"}
  <2>0. root \in Seq(T) /\ file \in Seq(T) /\ "[PROJECT_ROOT]" \in T
    BY SeqMonotonic
  <2> HIDE DEF T
  <2>8. PICK rest : rest = SubSeq(file, Len(root) + 1, Len(file))
    OBVIOUS
  <2>9. PICK shown : shown = Placeholder \o rest
    OBVIOUS
  <2>1. DisplayPath(file, root) = shown
    BY <1>2, <2>8, <2>9 DEF DisplayPath, LexicallyUnderRoot
  <2>2. /\ Len(root) \in Nat \ {0} /\ Len(file) \in Nat /\ Len(root) <= Len(file)
        /\ \A i \in 1..Len(root) : root[i] = file[i]
    <3>1. /\ Len(root) \in Nat /\ Len(root) # 0 /\ Len(file) \in Nat /\ Len(root) <= Len(file)
          /\ SubSeq(root, 1, Len(root)) = SubSeq(file, 1, Len(root))
      BY <1>2, <2>0, EmptySeq DEF IsPrefix
    <3>2. \A i \in 1..Len(root) : /\ SubSeq(root, 1, Len(root))[i] = root[i]
                                  /\ SubSeq(file, 1, Len(root))[i] = file[i]
      BY <2>0, <3>1
    <3> QED BY <3>1, <3>2
  <2>3. /\ rest \in Seq(T) /\ Len(rest) = Len(file) - Len(root)
        /\ \A i \in 1..Len(rest) : rest[i] = file[Len(root) + i]
    BY <2>0, <2>2, <2>8, SubSeqProperties
  <2>4. Placeholder \in Seq(T) /\ Len(Placeholder) = 1 /\ Placeholder[1] = "[PROJECT_ROOT]"
    BY <2>0 DEF Placeholder
  <2>5. /\ shown \in Seq(T) /\ Len(shown) = 1 + Len(rest)
        /\ shown[1] = "[PROJECT_ROOT]"
        /\ \A i \in 2..1 + Len(rest) : shown[i] = rest[i - 1]
    <3>1. PICK n : n = Len(rest)
      OBVIOUS
    <3>2. n \in Nat
      BY <2>3, <3>1, LenProperties
    <3>3. /\ shown \in Seq(T) /\ Len(shown) = 1 + n
          /\ shown[1] = Placeholder[1] /\ \A i \in 2..1 + n : shown[i] = rest[i - 1]
      <4>1. Joins(shown, Placeholder, rest, n, T)
        BY <2>3, <2>4, <2>9, <3>1, <3>2 DEF Joins
      <4> QED BY <4>1, Joined
    <3> QED BY <2>4, <3>1, <3>3
  <2>6. ASSUME root = Placeholder PROVE shown = file
    <3>1. Len(root) = 1 /\ root[1] = "[PROJECT_ROOT]"
      BY <2>4, <2>6
    <3>2. Len(shown) = Len(file)
      BY <2>2, <2>3, <2>5, <3>1
    <3>3. ASSUME NEW i \in 1..Len(shown) PROVE shown[i] = file[i]
      <4>1. CASE i = 1
        BY <2>2, <2>5, <3>1, <4>1
      <4>2. CASE i # 1
        <5>1. i - 1 \in 1..Len(rest) /\ i \in 2..1 + Len(rest) /\ 1 + (i - 1) = i
          BY <2>2, <2>3, <2>5, <4>2
        <5>2. shown[i] = rest[i - 1] /\ rest[i - 1] = file[1 + (i - 1)]
          BY <2>3, <2>5, <3>1, <5>1
        <5> QED BY <5>1, <5>2
      <4> QED BY <4>1, <4>2
    <3> QED BY <2>0, <2>5, <3>2, <3>3, SeqEqual
  <2>7. ASSUME shown = file PROVE root = Placeholder
    <3>1. Len(root) = 1
      <4>1. Len(shown) = Len(file)
        BY <2>7
      <4>2. Len(rest) = Len(file) - 1
        BY <2>2, <2>5, <4>1
      <4>3. Len(rest) = Len(file) - Len(root) /\ Len(root) \in Nat /\ Len(file) \in Nat
        BY <2>2, <2>3
      <4>4. PICK a, b, c : a = Len(rest) /\ b = Len(file) /\ c = Len(root)
        OBVIOUS
      <4>5. a = b - 1 /\ a = b - c /\ b \in Nat /\ c \in Nat
        BY <4>2, <4>3, <4>4
      <4>6. c = 1
        BY <4>5
      <4> QED BY <4>4, <4>6
    <3>2. root[1] = "[PROJECT_ROOT]"
      BY <2>2, <2>5, <2>7, <3>1
    <3>3. \A i \in 1..Len(root) : root[i] = Placeholder[i]
      BY <2>4, <3>1, <3>2
    <3> QED BY <2>0, <2>4, <3>1, <3>3, SeqEqual
  <2> QED BY <1>2, <2>1, <2>6, <2>7
<1> QED BY <1>1, <1>2

\* The frame of a symbol is its own.
LEMMA MapFrameOwn ==
    ASSUME NEW s, IsSymbol(s), NEW root \in Seq(STRING)
    PROVE  OwnFrame(MapFrame(s, root), root)
<1> USE BacktraceAssumption
<1>1. PICK f : f = MapFrame(s, root)
  OBVIOUS
<1>2. /\ f.file = s.file /\ f.line = s.line
      /\ f.method = IF s.name = NoName THEN NoName ELSE StripHash(s.name)
      /\ f.shown = IF s.file = NoFile THEN NoFile
                   ELSE IF s.name = NoName THEN s.file ELSE DisplayPath(s.file, root)
      /\ f.source = IF s.name = NoName \/ s.file = NoFile THEN NoSource
                    ELSE Quotes(s.file, s.line, root)
  BY <1>1 DEF MapFrame
<1>3. ASSUME f.source # NoSource
      PROVE  /\ IsPrefix(root, f.file)
             /\ IsPrefix(Canonical[root], Canonical[f.file])
             /\ \A n \in f.source : n - f.line \in -SourceRadius..SourceRadius
  <2>1. s.file # NoFile /\ f.source = Quotes(s.file, s.line, root)
    BY <1>2, <1>3
  <2>2. /\ IsPrefix(root, s.file)
        /\ Canonical[s.file] # Missing /\ IsPrefix(Canonical[root], Canonical[s.file])
        /\ s.line # NoLine /\ f.source = ReadExcerpt(s.file, s.line)
    BY <1>3, <2>1 DEF Quotes, LexicallyUnderRoot, ResolvesUnderRoot
  <2>3. s.line \in Int /\ LinesOf[Canonical[s.file]] \in Int
    BY <2>1, <2>2 DEF IsSymbol
  <2> DEFINE start == Max({s.line - SourceRadius, 1})
             end == Min({s.line + SourceRadius, LinesOf[Canonical[s.file]]})
  <2>4. start \in Int /\ start >= s.line - SourceRadius
    <3>1. PICK a, b : a = s.line - SourceRadius /\ b = 1
      OBVIOUS
    <3>2. a \in Int /\ b \in Int /\ start = Max({a, b})
      BY <2>3, <3>1
    <3> HIDE DEF start
    <3> QED BY <3>1, <3>2, MaxOfTwo
  <2>5. end \in Int /\ end <= s.line + SourceRadius
    <3>1. PICK a, b : a = s.line + SourceRadius /\ b = LinesOf[Canonical[s.file]]
      OBVIOUS
    <3>2. a \in Int /\ b \in Int /\ end = Min({a, b})
      BY <2>3, <3>1
    <3> HIDE DEF end
    <3> QED BY <3>1, <3>2, MinOfTwo
  <2>6. f.source = start..end
    BY <1>3, <2>2 DEF ReadExcerpt
  <2> HIDE DEF start, end
  <2>7. ASSUME NEW n \in f.source PROVE n - f.line \in -SourceRadius..SourceRadius
    BY <1>2, <2>3, <2>4, <2>5, <2>6
  <2> QED BY <1>2, <2>2, <2>7
<1>4. ASSUME f.method # NoName, f.file # NoFile
      PROVE  f.shown = f.file <=> root \in {<< >>, Placeholder} \/ ~IsPrefix(root, f.file)
  <2>1. s.file \in Seq(STRING)
    BY <1>2, <1>4 DEF IsSymbol
  <2>2. f.shown = DisplayPath(s.file, root) /\ f.file = s.file
    BY <1>2, <1>4
  <2> QED BY <2>1, <2>2, DisplayedOtherwise
<1>5. OwnFrame(f, root)
  BY <1>3, <1>4 DEF OwnFrame
<1> QED BY <1>1, <1>5

\* The frames up to a symbol, from those before it.
NextFrames(trace, root, n, before) ==
    IF Len(before) = MaxFrames \/ ~IsKept(trace[n]) THEN before
    ELSE Append(before, MapFrame(trace[n], root))

Processes(f, trace, root, N) ==
    f = [n \in 0..N |-> IF n = 0 THEN << >> ELSE NextFrames(trace, root, n, f[n - 1])]

LEMMA FramesAre ==
    ASSUME NEW trace, NEW root, Len(trace) \in Nat
    PROVE  \E frames :
               /\ ProcessResolved(trace, root) = frames[Len(trace)]
               /\ frames[0] = << >>
               /\ \A n \in 0..Len(trace) - 1 :
                      frames[n + 1] = NextFrames(trace, root, n + 1, frames[n])
<1> DEFINE known == {N \in Nat : \E f : Processes(f, trace, root, N)}
<1>1. 0 \in known
  <2> DEFINE f == [n \in 0..0 |-> << >>]
  <2>1. Processes(f, trace, root, 0)
    <3>1. /\ f = [n \in 0..0 |-> f[n]]
          /\ \A n \in 0..0 : f[n] = IF n = 0 THEN << >> ELSE NextFrames(trace, root, n, f[n - 1])
      OBVIOUS
    <3> HIDE DEF f
    <3> QED BY <3>1 DEF Processes
  <2> QED BY <2>1
<1>2. ASSUME NEW N \in known PROVE N + 1 \in known
  <2>1. PICK f : Processes(f, trace, root, N)
    OBVIOUS
  <2> DEFINE g == [n \in 0..N + 1 |->
                      IF n = N + 1 THEN NextFrames(trace, root, N + 1, f[N]) ELSE f[n]]
  <2>2. \A n \in 0..N : f[n] = IF n = 0 THEN << >> ELSE NextFrames(trace, root, n, f[n - 1])
    BY <2>1, Zenon DEF Processes
  <2>3. \A n \in 0..N + 1 : g[n] = IF n = 0 THEN << >> ELSE NextFrames(trace, root, n, g[n - 1])
    <3> TAKE n \in 0..N + 1
    <3>1. CASE n = N + 1
      <4>1. g[n] = NextFrames(trace, root, N + 1, f[N]) /\ g[n - 1] = f[N] /\ n # 0
        BY <3>1
      <4> QED BY <3>1, <4>1
    <3>2. CASE n # N + 1
      <4>1. n \in 0..N /\ g[n] = f[n] /\ (n # 0 => g[n - 1] = f[n - 1])
        BY <3>2
      <4> QED BY <2>2, <4>1
    <3> QED BY <3>1, <3>2
  <2>4. Processes(g, trace, root, N + 1)
    <3>1. g = [n \in 0..N + 1 |-> g[n]]
      OBVIOUS
    <3> HIDE DEF g
    <3> QED BY <2>3, <3>1 DEF Processes
  <2> QED BY <2>4
<1>3. known = Nat
  <2> HIDE DEF known
  <2>1. known \in SUBSET Nat
    BY DEF known
  <2> QED BY <1>1, <1>2, <2>1, SetInduction
<1> DEFINE frames == CHOOSE f : Processes(f, trace, root, Len(trace))
<1>4. Processes(frames, trace, root, Len(trace))
  <2>1. \E f : Processes(f, trace, root, Len(trace))
    BY <1>3
  <2> QED BY <2>1
<1>5. ProcessResolved(trace, root) = frames[Len(trace)]
  BY DEF ProcessResolved, Processes, NextFrames
<1> HIDE DEF frames
<1>6. \A n \in 0..Len(trace) :
          frames[n] = IF n = 0 THEN << >> ELSE NextFrames(trace, root, n, frames[n - 1])
  BY <1>4, Zenon DEF Processes
<1>7. frames[0] = << >>
  BY <1>6
<1>8. ASSUME NEW n \in 0..Len(trace) - 1
      PROVE  frames[n + 1] = NextFrames(trace, root, n + 1, frames[n])
  <2>1. n + 1 \in 0..Len(trace) /\ n + 1 # 0 /\ (n + 1) - 1 = n
    OBVIOUS
  <2>2. frames[n + 1] = NextFrames(trace, root, n + 1, frames[(n + 1) - 1])
    BY <1>6, <2>1
  <2> QED BY <2>1, <2>2
<1> QED BY <1>5, <1>7, <1>8

\* So every frame of a trace is one symbol's own.
LEMMA FramesOwn ==
    ASSUME NEW trace, IsTrace(trace), NEW root \in Seq(STRING)
    PROVE  \A i \in DOMAIN ProcessResolved(trace, root) :
               OwnFrame(ProcessResolved(trace, root)[i], root)
<1>1. Len(trace) \in Nat
  BY DEF IsTrace
<1>2. PICK frames : /\ ProcessResolved(trace, root) = frames[Len(trace)]
                    /\ frames[0] = << >>
                    /\ \A n \in 0..Len(trace) - 1 :
                           frames[n + 1] = NextFrames(trace, root, n + 1, frames[n])
  BY <1>1, FramesAre
<1> DEFINE Own == {MapFrame(trace[j], root) : j \in 1..Len(trace)}
           good == {n \in 0..Len(trace) : frames[n] \in Seq(Own)}
<1>3. 0 \in good
  <2> HIDE DEF Own
  <2>1. frames[0] \in Seq(Own)
    BY <1>2, EmptySeq
  <2> QED BY <1>1, <2>1
<1>4. ASSUME NEW n \in 0..Len(trace) - 1, n \in good PROVE n + 1 \in good
  <2>1. frames[n] \in Seq(Own)
    BY <1>4
  <2>2. MapFrame(trace[n + 1], root) \in Own /\ n + 1 \in 0..Len(trace)
    BY <1>1
  <2> HIDE DEF Own
  <2>3. NextFrames(trace, root, n + 1, frames[n]) \in Seq(Own)
    BY <2>1, <2>2, AppendProperties DEF NextFrames
  <2> QED BY <1>2, <2>2, <2>3
<1>5. Len(trace) \in good
  <2> HIDE DEF good
  <2>1. \A n \in 0..Len(trace) : n \in good
    BY <1>1, <1>3, <1>4, BoundedInduction
  <2> QED BY <1>1, <2>1
<1>6. ASSUME NEW f \in Own PROVE OwnFrame(f, root)
  BY MapFrameOwn DEF IsTrace
<1>7. ProcessResolved(trace, root) \in Seq(Own)
  BY <1>2, <1>5
<1> HIDE DEF Own
<1> QED BY <1>6, <1>7, LenProperties, ElementOfSeq

-----------------------------------------------------------------------------
(***************************************************************************)
(* The sampler's arithmetic                                                *)
(***************************************************************************)
\* A remainder is the only one.
LEMMA ModUnique ==
    ASSUME NEW C \in Nat \ {0}, NEW a \in Nat, NEW q \in Int, NEW r \in 0..C - 1, a = C * q + r
    PROVE  a % C = r
<1> DEFINE p == a \div C
           s == a % C
<1>1. p \in Int /\ s \in 0..C - 1 /\ a = C * p + s
  OBVIOUS
<1> HIDE DEF p, s
<1>2. C * (q - p) = s - r
  BY <1>1
<1>3. q - p = 0
  <2>1. PICK k \in Int : k = q - p
    BY <1>1
  <2>2. C * k < C /\ C * k > -C
    BY <1>1, <1>2, <2>1
  <2>3. ~(k >= 1)
    BY <2>2
  <2>4. ~(k <= -1)
    BY <2>2
  <2> QED BY <2>1, <2>3, <2>4
<1>4. s = r
  BY <1>1, <1>2, <1>3
<1> QED BY <1>4 DEF s

\* The remainder a few steps on.
LEMMA ModShift ==
    ASSUME NEW C \in Nat \ {0}, NEW a \in Nat, NEW e \in 0..C - 1
    PROVE  /\ a % C \in 0..C - 1
           /\ (a + e) % C = IF (a % C) + e < C THEN (a % C) + e ELSE (a % C) + e - C
<1>1. PICK q, r : q = a \div C /\ r = a % C
  OBVIOUS
<1>2. q \in Int /\ r \in 0..C - 1 /\ a = C * q + r
  BY <1>1
<1>3. CASE r + e < C
  <2>1. a + e = C * q + (r + e) /\ r + e \in 0..C - 1 /\ a + e \in Nat
    BY <1>2, <1>3
  <2> QED BY <1>1, <1>2, <1>3, <2>1, ModUnique
<1>4. CASE ~(r + e < C)
  <2>1. a + e = C * (q + 1) + (r + e - C) /\ r + e - C \in 0..C - 1 /\ a + e \in Nat
    BY <1>2, <1>4
  <2>2. q + 1 \in Int
    BY <1>2
  <2> QED BY <1>1, <1>2, <1>4, <2>1, <2>2, ModUnique
<1> QED BY <1>3, <1>4

\* From i on, a cycle of decisions is that of the numbers from a on.
Window(C, rate, a, i, kept) ==
    /\ C \in Nat \ {0} /\ rate \in 0..C /\ a \in Nat /\ i \in Nat
    /\ \A e \in 0..C - 1 : kept[i + e] <=> (a + e) % C < rate

\* Of a full cycle of remainders as many are below the rate as the rate says.
LEMMA WindowShare ==
    ASSUME NEW C, NEW rate, NEW a, NEW i, NEW kept, Window(C, rate, a, i, kept)
    PROVE  Cardinality({j \in i..i + C - 1 : kept[j]}) = rate
<1>0. /\ C \in Nat \ {0} /\ rate \in 0..C /\ a \in Nat /\ i \in Nat
      /\ \A e \in 0..C - 1 : kept[i + e] <=> (a + e) % C < rate
  BY DEF Window
<1> USE <1>0
<1>1. PICK r : r = a % C
  OBVIOUS
<1>2. /\ r \in 0..C - 1
      /\ \A e \in 0..C - 1 : (a + e) % C = IF r + e < C THEN r + e ELSE r + e - C
  <2>1. r \in 0..C - 1
    <3>1. 0 \in 0..C - 1
      OBVIOUS
    <3> QED BY <1>1, <3>1, ModShift
  <2>2. ASSUME NEW e \in 0..C - 1
        PROVE  (a + e) % C = IF r + e < C THEN r + e ELSE r + e - C
    BY <1>1, ModShift
  <2> QED BY <2>1, <2>2
<1>3. \A e \in 0..C - 1 : kept[i + e] <=> (IF r + e < C THEN r + e ELSE r + e - C) < rate
  BY <1>2
<1> DEFINE J == {j \in i..i + C - 1 : kept[j]}
           Place(t) == IF t >= r THEN i + t - r ELSE i + C + t - r
           place == [t \in 0..rate - 1 |-> Place(t)]
<1>4. \A j \in i..i + C - 1 : kept[j] <=>
          (IF r + (j - i) < C THEN r + (j - i) ELSE r + (j - i) - C) < rate
  <2> TAKE j \in i..i + C - 1
  <2>1. j - i \in 0..C - 1 /\ i + (j - i) = j
    OBVIOUS
  <2> QED BY <1>3, <2>1
<1>5. place \in [0..rate - 1 -> J]
  BY <1>2, <1>4
<1>6. \A t, u \in 0..rate - 1 : place[t] = place[u] => t = u
  BY <1>2
<1>7. ASSUME NEW j \in J PROVE \E t \in 0..rate - 1 : place[t] = j
  <2>1. PICK t : t = IF r + (j - i) < C THEN r + (j - i) ELSE r + (j - i) - C
    OBVIOUS
  <2>2. j \in i..i + C - 1 /\ t \in 0..rate - 1
    BY <1>2, <1>4, <2>1
  <2>3. Place(t) = j
    BY <1>2, <2>1, <2>2
  <2> QED BY <2>2, <2>3
<1>8. place \in Bijection(0..rate - 1, J)
  <2> HIDE DEF place, J
  <2>1. place \in Injection(0..rate - 1, J)
    BY <1>5, <1>6 DEF Injection, IsInjective
  <2>2. place \in Surjection(0..rate - 1, J)
    BY <1>5, <1>7 DEF Surjection
  <2> QED BY <2>1, <2>2 DEF Bijection
<1>9. ExistsBijection(0..rate - 1, J)
  BY <1>8 DEF ExistsBijection
<1>10. IsFiniteSet(0..rate - 1) /\ Cardinality(0..rate - 1) = rate
  BY FS_Interval
<1> HIDE DEF J
<1>11. Cardinality(J) = rate
  BY <1>9, <1>10, FS_Bijection
<1> QED BY <1>11 DEF J

-----------------------------------------------------------------------------
(***************************************************************************)
(* The sampler                                                             *)
(***************************************************************************)
Configured ==
    /\ config.filter \in Filters /\ config.root \in Roots
    /\ config.rate \in 0..Cycle

\* Every decision about an id is the one its hash and the rate make.
Decided ==
    fates \in [DOMAIN Hash -> SUBSET BOOLEAN] /\
    \A id \in DOMAIN Hash : fates[id] \subseteq {config.rate >= Cycle \/ Hash[id] < config.rate}

\* The counter's draws are those of consecutive numbers, the last before it.
Drawn ==
    /\ counter \in Nat /\ draws \in Seq(BOOLEAN)
    /\ config.rate \in 1..Cycle - 1 =>
           /\ Len(draws) <= counter
           /\ \A j \in 1..Len(draws) :
                  draws[j] <=> (counter - Len(draws) + j - 1) % Cycle < config.rate
    /\ config.rate \notin 1..Cycle - 1 =>
           \A j \in 1..Len(draws) : draws[j] <=> config.rate = Cycle

SamplerInv == Configured /\ Decided /\ Drawn

LEMMA InitConfigured == Init => Configured /\ Roots \subseteq Seq(STRING)
<1> SUFFICES ASSUME Init PROVE Configured /\ Roots \subseteq Seq(STRING)
  OBVIOUS
<1> USE ReportsAssumption, GivenAssumption
<1>1. \E r \in Rates : config.rate = Min({r, Cycle})
  BY DEF Init
<1>2. PICK r \in Rates : config.rate = Min({r, Cycle})
  BY <1>1
<1>3. r \in Int /\ Cycle \in Int /\ r >= 0
  OBVIOUS
<1>4. PICK C : C = Cycle
  OBVIOUS
<1>5. Min({r, C}) \in {r, C} /\ Min({r, C}) <= r /\ Min({r, C}) <= C
  BY <1>3, <1>4, MinOfTwo
<1>6. PICK rate : rate = Min({r, C})
  OBVIOUS
<1>7. config.rate = rate
  BY <1>2, <1>4, <1>6
<1>8. rate \in 0..C
  BY <1>3, <1>4, <1>5, <1>6
<1> QED BY <1>4, <1>7, <1>8 DEF Init, Configured

LEMMA InitSampler == Init => SamplerInv
<1> SUFFICES ASSUME Init PROVE SamplerInv
  OBVIOUS
<1> USE ReportsAssumption
<1>1. Configured
  BY InitConfigured
<1>2. Decided
  BY DEF Init, Decided
<1>3. Drawn
  <2>1. counter \in Nat /\ draws = << >>
    BY DEF Init
  <2> QED BY <2>1 DEF Drawn
<1> QED BY <1>1, <1>2, <1>3 DEF SamplerInv

\* One event through the sampler.
LEMMA SampledStep ==
    ASSUME SamplerInv, NEW d, Sampled(d), UNCHANGED config
    PROVE  SamplerInv'
<1> USE ReportsAssumption
<1> DEFINE rate == config.rate
<1>1. Configured' /\ rate \in 0..Cycle
  BY DEF SamplerInv, Configured
<1>2. CASE OwnId(d) = NoId
  <2>1. SamplingId(d) = NoId
    BY <1>2 DEF SamplingId
  <2>2. PICK kept \in BOOLEAN : kept = Keeps(NoId)
    BY DEF Keeps
  <2>3. /\ counter' = IF rate \in 1..Cycle - 1 THEN counter + 1 ELSE counter
        /\ draws' = Append(draws, kept) /\ fates' = fates
    BY <1>2, <2>1, <2>2 DEF Sampled, Advanced
  <2>4. kept <=> rate >= Cycle \/ counter % Cycle < rate
    BY <2>2 DEF Keeps
  <2>5. counter \in Nat /\ draws \in Seq(BOOLEAN)
    BY DEF SamplerInv, Drawn
  <2>6. PICK n : n = Len(draws)
    OBVIOUS
  <2>7. /\ n \in Nat /\ draws' \in Seq(BOOLEAN) /\ Len(draws') = n + 1
        /\ draws'[n + 1] = kept /\ \A j \in 1..n : draws'[j] = draws[j]
    BY <2>2, <2>3, <2>5, <2>6, AppendProperties, LenProperties
  <2>8. \A j \in 1..n + 1 : j = n + 1 \/ j \in 1..n
    BY <2>7
  <2>9. ASSUME rate \in 1..Cycle - 1
        PROVE  /\ Len(draws') <= counter'
               /\ \A j \in 1..Len(draws') :
                      draws'[j] <=> (counter' - Len(draws') + j - 1) % Cycle < rate
    <3>1. /\ n <= counter
          /\ \A j \in 1..n : draws[j] <=> (counter - n + j - 1) % Cycle < rate
      BY <2>6, <2>9 DEF SamplerInv, Drawn
    <3>2. counter' = counter + 1 /\ counter' - Len(draws') = counter - n
      BY <2>3, <2>5, <2>7, <2>9
    <3>3. ASSUME NEW j \in 1..n + 1 PROVE draws'[j] <=> (counter - n + j - 1) % Cycle < rate
      <4>1. CASE j = n + 1
        <5>1. counter - n + j - 1 = counter
          BY <2>5, <2>7, <4>1
        <5> QED BY <2>4, <2>7, <2>9, <4>1, <5>1
      <4>2. CASE j \in 1..n
        BY <2>7, <3>1, <4>2
      <4> QED BY <2>8, <4>1, <4>2
    <3>4. PICK k : k = counter - n
      OBVIOUS
    <3>5. \A j \in 1..n + 1 : draws'[j] <=> (k + j - 1) % Cycle < rate
      BY <3>3, <3>4
    <3>6. counter' - Len(draws') = k
      BY <3>2, <3>4
    <3>7. PICK m : m = Len(draws')
      OBVIOUS
    <3>8. m <= counter' /\ m = n + 1 /\ counter' - m = k
      BY <2>5, <2>7, <3>1, <3>2, <3>6, <3>7
    <3>9. \A j \in 1..m : draws'[j] <=> (counter' - m + j - 1) % Cycle < rate
      BY <3>5, <3>8
    <3> QED BY <3>7, <3>8, <3>9
  <2>10. ASSUME rate \notin 1..Cycle - 1, NEW j \in 1..n + 1
         PROVE  draws'[j] <=> rate = Cycle
    <3>1. kept <=> rate = Cycle
      <4>1. rate = 0 \/ rate = Cycle
        BY <1>1, <2>10
      <4>2. ~(counter % Cycle < 0)
        BY <2>5
      <4> QED BY <2>4, <4>1, <4>2
    <3>2. CASE j = n + 1
      BY <2>7, <3>1, <3>2
    <3>3. CASE j \in 1..n
      BY <2>6, <2>7, <2>10, <3>3 DEF SamplerInv, Drawn
    <3> QED BY <2>8, <3>2, <3>3
  <2>11. counter' \in Nat
    BY <2>3, <2>5
  <2>12. Drawn'
    BY <2>7, <2>9, <2>10, <2>11 DEF Drawn
  <2>13. Decided'
    BY <2>3 DEF SamplerInv, Decided
  <2> QED BY <1>1, <2>12, <2>13 DEF SamplerInv
<1>3. CASE OwnId(d) # NoId
  <2>1. PICK id : id = OwnId(d) /\ id # NoId
    BY <1>3
  <2>2. SamplingId(d) = id
    BY <2>1 DEF SamplingId
  <2>3. /\ counter' = counter /\ draws' = draws
        /\ fates' = [fates EXCEPT ![id] = @ \cup {Keeps(id)}]
    BY <2>1, <2>2 DEF Sampled, Advanced
  <2>4. Drawn'
    BY <2>3 DEF SamplerInv, Drawn
  <2>5. Keeps(id) = (rate >= Cycle \/ Hash[id] < rate)
    BY <2>1 DEF Keeps
  <2>6. Decided'
    <3>1. /\ fates \in [DOMAIN Hash -> SUBSET BOOLEAN]
          /\ \A i \in DOMAIN Hash : fates[i] \subseteq {rate >= Cycle \/ Hash[i] < rate}
      BY DEF SamplerInv, Decided
    <3>2. PICK kept \in BOOLEAN : kept = Keeps(id)
      BY DEF Keeps
    <3>3. fates' = [i \in DOMAIN Hash |-> IF i = id THEN fates[i] \cup {kept} ELSE fates[i]]
      BY <2>3, <3>1, <3>2
    <3>4. fates' \in [DOMAIN Hash -> SUBSET BOOLEAN]
      BY <3>1, <3>3
    <3>5. ASSUME NEW i \in DOMAIN Hash
          PROVE  fates'[i] \subseteq {rate >= Cycle \/ Hash[i] < rate}
      BY <2>5, <3>1, <3>2, <3>3
    <3> QED BY <3>4, <3>5 DEF Decided
  <2> QED BY <1>1, <2>4, <2>6 DEF SamplerInv
<1> QED BY <1>2, <1>3

LEMMA SamplerStep == SamplerInv /\ [Next]_vars => SamplerInv'
<1> SUFFICES ASSUME SamplerInv, [Next]_vars PROVE SamplerInv'
  OBVIOUS
<1>1. CASE UNCHANGED <<config, sampler>>
  BY <1>1 DEF SamplerInv, Configured, Decided, Drawn, sampler
<1>2. CASE UNCHANGED vars
  BY <1>1, <1>2 DEF vars, sampler
<1>3. CASE FinishEvent
  <2>1. UNCHANGED config
    BY <1>3 DEF FinishEvent
  <2>2. CASE UNCHANGED sampler
    BY <1>1, <2>1, <2>2
  <2>3. CASE Sampled(draft)
    BY <2>1, <2>3, SampledStep
  <2> QED BY <1>3, <2>2, <2>3 DEF FinishEvent
<1> QED
  BY <1>1, <1>2, <1>3
  DEF Next, Notify, BeforeNotify, FinishNotice, SendEvent, BeforeEvent

\* The sampler's decisions are the invariant's in every state (event.rs
\* Sampler::keep).
THEOREM SamplerHolds == Spec => []SamplerInv
<1>1. Init => SamplerInv
  BY InitSampler
<1>2. SamplerInv /\ [Next]_vars => SamplerInv'
  BY SamplerStep
<1> QED BY <1>1, <1>2, PTL DEF Spec

\* Events that carry one request id share one decision: it depends on nothing
\* but the id's hash and the rate (event.rs Sampler::keep).
THEOREM FateIsOne == Spec => []OneFate
<1>1. SamplerInv => OneFate
  <2> SUFFICES ASSUME SamplerInv, NEW id \in DOMAIN fates PROVE Cardinality(fates[id]) <= 1
    BY DEF OneFate
  <2> DEFINE kept == config.rate >= Cycle \/ Hash[id] < config.rate
  <2>1. fates[id] \in SUBSET {kept}
    BY DEF SamplerInv, Decided
  <2> HIDE DEF kept
  <2>2. IsFiniteSet({kept}) /\ Cardinality({kept}) = 1
    BY FS_Singleton
  <2> QED BY <2>1, <2>2, FS_Subset
<1> QED BY <1>1, SamplerHolds, PTL

\* Of every full cycle of events without an id exactly the rate is kept,
\* wherever the counter started (event.rs Sampler::keep).
THEOREM ShareIsExact == Spec => []ExactShare
<1>1. SamplerInv => ExactShare
  <2> USE ReportsAssumption
  <2> SUFFICES ASSUME SamplerInv, NEW i \in 1..Len(draws) - Cycle + 1
               PROVE  Cardinality({j \in i..i + Cycle - 1 : draws[j]}) = config.rate
    BY DEF ExactShare
  <2>1. PICK n : n = Len(draws)
    OBVIOUS
  <2>2. n \in Nat /\ config.rate \in 0..Cycle /\ counter \in Nat
    BY <2>1, LenProperties DEF SamplerInv, Configured, Drawn
  <2>3. i \in Nat /\ \A e \in 0..Cycle - 1 : i + e \in 1..n
    BY <2>1, <2>2
  <2>4. CASE config.rate \in 1..Cycle - 1
    <3>1. /\ n <= counter
          /\ \A j \in 1..n : draws[j] <=> (counter - n + j - 1) % Cycle < config.rate
      BY <2>1, <2>4 DEF SamplerInv, Drawn
    <3>2. PICK a : a = counter - n + i - 1
      OBVIOUS
    <3>3. a \in Nat
      BY <2>1, <2>2, <3>1, <3>2
    <3>4. ASSUME NEW e \in 0..Cycle - 1 PROVE draws[i + e] <=> (a + e) % Cycle < config.rate
      <4>1. i + e \in 1..n /\ counter - n + (i + e) - 1 = a + e
        BY <2>2, <2>3, <3>2
      <4>2. draws[i + e] <=> (counter - n + (i + e) - 1) % Cycle < config.rate
        BY <3>1, <4>1
      <4> QED BY <4>1, <4>2
    <3>5. Window(Cycle, config.rate, a, i, draws)
      BY <2>2, <2>3, <3>3, <3>4 DEF Window
    <3> QED BY <3>5, WindowShare
  <2>5. CASE config.rate \notin 1..Cycle - 1
    <3>1. config.rate = 0 \/ config.rate = Cycle
      BY <2>2, <2>5
    <3>2. \A j \in 1..n : draws[j] <=> config.rate = Cycle
      BY <2>1, <2>5 DEF SamplerInv, Drawn
    <3>3. PICK a : a = 0
      OBVIOUS
    <3>4. a \in Nat
      BY <3>3
    <3>5. ASSUME NEW e \in 0..Cycle - 1 PROVE draws[i + e] <=> (a + e) % Cycle < config.rate
      <4>1. (a + e) % Cycle \in 0..Cycle - 1
        BY <3>4
      <4>2. draws[i + e] <=> config.rate = Cycle
        BY <2>3, <3>2
      <4> QED BY <3>1, <4>1, <4>2
    <3> HIDE <3>3
    <3>6. Window(Cycle, config.rate, a, i, draws)
      BY <2>2, <2>3, <3>4, <3>5 DEF Window
    <3> QED BY <3>6, WindowShare
  <2> QED BY <2>4, <2>5
<1> QED BY <1>1, SamplerHolds, PTL

-----------------------------------------------------------------------------
(***************************************************************************)
(* Drafts and reports                                                      *)
(***************************************************************************)
\* What the drafts are made of stays a map of values whatever is merged into
\* it, set or deleted.
LEMMA MergedMap ==
    ASSUME NEW own, IsMap(own), NEW scope, IsMap(scope)
    PROVE  IsMap(MergeUnder(own, scope))
BY DEF IsMap, MergeUnder

LEMMA PutMap ==
    ASSUME NEW m, IsMap(m), NEW key \in DOMAIN Lower, NEW value, IsValue(value)
    PROVE  /\ IsMap(Put(m, key, value))
           /\ key \in DOMAIN Put(m, key, value) /\ Put(m, key, value)[key] = value
BY DEF IsMap, Put

LEMMA RestrictedMap ==
    ASSUME NEW m, IsMap(m), NEW keys
    PROVE  IsMap(Restrict(m, DOMAIN m \ keys))
BY DEF IsMap, Restrict

\* A value is a node itself.
LEMMA ValueNode ==
    ASSUME NEW v, IsValue(v)
    PROVE  IsNode(v)
<1> USE SanitizerAssumption
<1>1. Level(v)[0] = [path \in {<< >>} |-> v]
  BY LevelIs
<1>2. PICK n, root : n = 0 /\ root = << >>
  OBVIOUS
<1>3. n \in 0..MaxNesting /\ root \in DOMAIN Level(v)[n] /\ Level(v)[n][root] = v
  BY <1>1, <1>2
<1> QED BY <1>3 DEF IsValue

\* A notice's draft: maps of values, the causes of its error and frames that
\* quote what they may.
NoticeDraft(d, root) ==
    /\ d = [kind |-> "notice", ran |-> d.ran, class |-> d.class, context |-> d.context,
            link |-> d.link, causes |-> d.causes, frames |-> d.frames,
            slot |-> d.slot, trail |-> d.trail]
    /\ IsMap(d.context)
    /\ \A i \in DOMAIN d.trail : IsMap(d.trail[i])
    /\ Follows(d.link, d.causes, MaxCauses)
    /\ \A i \in DOMAIN d.frames : OwnFrame(d.frames[i], root)

\* An event's: one map of values, and a type that is one if there is any.
EventDraft(d) ==
    /\ d = [kind |-> "event", ran |-> d.ran, type |-> d.type, slot |-> d.slot,
            fields |-> d.fields]
    /\ IsMap(d.fields)
    /\ d.type # NoType => IsText(d.type) /\ IsValue(d.type)

Drafted == draft # Idle => NoticeDraft(draft, config.root) \/ EventDraft(draft)

Promised == ReportClean /\ CausesFollowChain /\ FramesAreOwn /\ TypeHeld

\* The runs' properties of the report that left need a draft that was in order.
ReportInv == Configured /\ config.root \in Seq(STRING) /\ Drafted /\ Promised

LEMMA InitReport == Init => ReportInv
<1> SUFFICES ASSUME Init PROVE ReportInv
  OBVIOUS
<1>1. Configured /\ config.root \in Seq(STRING)
  BY InitConfigured DEF Configured
<1>2. draft = Idle /\ last = Idle
  BY DEF Init
<1> QED BY <1>1, <1>2 DEF ReportInv, Drafted, Promised, ReportClean, CausesFollowChain,
                         FramesAreOwn, TypeHeld, IsReport

\* A step after which there is no report, or the one before, or a dropped one.
LEMMA NothingLeft ==
    ASSUME Promised, UNCHANGED config,
           \/ last' = Idle
           \/ UNCHANGED last
           \/ \E reason : reason # "notice" /\ reason # "event" /\ last' = [what |-> reason]
    PROVE  Promised'
<1>1. CASE UNCHANGED last
  BY <1>1 DEF Promised, ReportClean, CausesFollowChain, FramesAreOwn, TypeHeld, IsReport
<1>2. CASE ~IsReport("notice")' /\ ~IsReport("event")'
  BY <1>2 DEF Promised, ReportClean, CausesFollowChain, FramesAreOwn, TypeHeld
<1>3. CASE last' = Idle
  BY <1>2, <1>3 DEF IsReport
<1>4. CASE \E reason : reason # "notice" /\ reason # "event" /\ last' = [what |-> reason]
  <2>1. ~IsReport("notice")' /\ ~IsReport("event")'
    BY <1>4 DEF IsReport
  <2> QED BY <1>2, <2>1
<1> QED BY <1>1, <1>3, <1>4

\* Assembly makes a draft, the hooks keep it one.
LEMMA NotifyStep ==
    ASSUME ReportInv, NEW error \in Errors, NEW scope \in Scopes, NEW slot, NEW trail \in Trails,
           Notify(error, scope, slot, trail)
    PROVE  ReportInv'
<1> USE GivenAssumption
<1>1. UNCHANGED config /\ Configured' /\ config'.root \in Seq(STRING)
  BY DEF Notify, ReportInv, Configured
<1>2. CASE Ignored(error.class)
  <2>1. draft' = Idle /\ last' = [what |-> "ignored"]
    BY <1>2 DEF Notify, Dropped, Leaves
  <2>2. Promised'
    BY <1>1, <2>1, NothingLeft DEF ReportInv
  <2> QED BY <1>1, <2>1, <2>2 DEF ReportInv, Drafted
<1>3. CASE ~Ignored(error.class)
  <2>1. /\ last' = Idle
        /\ draft' = [kind |-> "notice", ran |-> 0, class |-> error.class,
                     context |-> MergeUnder(error.context, scope),
                     link |-> error.link, causes |-> Causes(error.link),
                     frames |-> ProcessResolved(error.trace, config.root),
                     slot |-> slot, trail |-> trail]
    BY <1>3 DEF Notify
  <2>2. IsMap(MergeUnder(error.context, scope))
    BY MergedMap
  <2>3. \A i \in DOMAIN trail : IsMap(trail[i])
    OBVIOUS
  <2>4. Follows(error.link, Causes(error.link), MaxCauses)
    BY CausesFollow
  <2>5. PICK frames : frames = ProcessResolved(error.trace, config.root)
    OBVIOUS
  <2>6. \A i \in DOMAIN frames : OwnFrame(frames[i], config.root)
    BY <2>5, FramesOwn DEF ReportInv
  <2>7. NoticeDraft(draft', config.root)
    BY <2>1, <2>2, <2>3, <2>4, <2>5, <2>6 DEF NoticeDraft
  <2>8. Promised'
    BY <1>1, <2>1, NothingLeft DEF ReportInv
  <2> QED BY <1>1, <2>7, <2>8 DEF ReportInv, Drafted
<1> QED BY <1>2, <1>3

\* A hook that was run.
LEMMA HookStep ==
    ASSUME ReportInv, NEW edited, NEW ending, AfterHook(edited, ending), UNCHANGED config,
           NoticeDraft(edited, config.root) \/ EventDraft(edited)
    PROVE  ReportInv'
<1>1. Configured' /\ config'.root \in Seq(STRING)
  BY DEF ReportInv, Configured
<1>2. CASE ending = "veto"
  <2>1. draft' = Idle /\ last' = [what |-> "vetoed"]
    BY <1>2 DEF AfterHook, Dropped, Leaves
  <2>2. Promised'
    BY <2>1, NothingLeft DEF ReportInv
  <2> QED BY <1>1, <2>1, <2>2 DEF ReportInv, Drafted
<1>3. CASE ending # "veto"
  <2>1. draft' = [edited EXCEPT !.ran = @ + 1] /\ UNCHANGED last
    BY <1>3 DEF AfterHook
  <2>2. NoticeDraft(draft', config.root) \/ EventDraft(draft')
    <3>1. CASE NoticeDraft(edited, config.root)
      BY <2>1, <3>1 DEF NoticeDraft
    <3>2. CASE EventDraft(edited)
      BY <2>1, <3>2 DEF EventDraft
    <3> QED BY <3>1, <3>2
  <2>3. Promised'
    BY <2>1, NothingLeft DEF ReportInv
  <2> QED BY <1>1, <2>2, <2>3 DEF ReportInv, Drafted
<1> QED BY <1>2, <1>3

LEMMA BeforeNotifyStep ==
    ASSUME ReportInv, NEW edit \in NoticeEdits, NEW ending, BeforeNotify(edit, ending)
    PROVE  ReportInv'
<1> USE GivenAssumption
<1>1. PICK d : d = draft
  OBVIOUS
<1>2. NoticeDraft(d, config.root)
  BY <1>1 DEF BeforeNotify, ReportInv, Drafted, EventDraft
<1>3. NoticeDraft(NoticeEdited(edit), config.root)
  <2>1. CASE edit = NoEdit
    BY <1>1, <1>2, <2>1 DEF NoticeEdited
  <2>2. CASE edit # NoEdit /\ edit.key = "class"
    BY <1>1, <1>2, <2>2 DEF NoticeEdited, NoticeDraft
  <2>3. CASE edit # NoEdit /\ edit.key # "class"
    <3>1. PICK context : context = Put(d.context, edit.key, edit.value)
      OBVIOUS
    <3>2. IsMap(context)
      BY <1>2, <2>3, <3>1, PutMap DEF NoticeDraft
    <3>3. NoticeEdited(edit) = [d EXCEPT !.context = context]
      BY <1>1, <1>2, <2>3, <3>1 DEF NoticeEdited, NoticeDraft
    <3> QED BY <1>2, <3>2, <3>3 DEF NoticeDraft
  <2> QED BY <2>1, <2>2, <2>3
<1> QED BY <1>3, HookStep DEF BeforeNotify

LEMMA BeforeEventStep ==
    ASSUME ReportInv, NEW edit \in EventEdits, NEW ending, BeforeEvent(edit, ending)
    PROVE  ReportInv'
<1> USE GivenAssumption
<1>1. PICK d : d = draft
  OBVIOUS
<1>2. EventDraft(d)
  BY <1>1 DEF BeforeEvent, ReportInv, Drafted, NoticeDraft
<1>3. EventDraft(EventEdited(edit))
  <2>1. CASE edit = NoEdit
    BY <1>1, <1>2, <2>1 DEF EventEdited
  <2>2. CASE edit # NoEdit
    <3>1. PICK fields : fields = IF edit.value = NoId
                                 THEN Restrict(d.fields, DOMAIN d.fields \ {edit.key})
                                 ELSE Put(d.fields, edit.key, edit.value)
      OBVIOUS
    <3>2. IsMap(fields)
      <4>1. CASE edit.value = NoId
        BY <1>2, <3>1, <4>1, RestrictedMap DEF EventDraft
      <4>2. CASE edit.value # NoId
        BY <1>2, <2>2, <3>1, <4>2, PutMap DEF EventDraft
      <4> QED BY <4>1, <4>2
    <3>3. EventEdited(edit) = [d EXCEPT !.fields = fields]
      BY <1>1, <1>2, <2>2, <3>1 DEF EventEdited, EventDraft
    <3> QED BY <1>2, <3>2, <3>3 DEF EventDraft
  <2> QED BY <2>1, <2>2
<1> QED BY <1>3, HookStep DEF BeforeEvent

\* The draft of an event: every merge of maps is one, and so is the result.
LEMMA TypedMap ==
    ASSUME NEW fields, IsMap(fields), NEW type, type # NoType => IsText(type) /\ IsValue(type)
    PROVE  /\ IsMap(Typed(type, fields))
           /\ type = NoType => Typed(type, fields) = fields
           /\ type # NoType => /\ "event_type" \in DOMAIN Typed(type, fields)
                               /\ Typed(type, fields)["event_type"] = type
<1>1. PICK key \in DOMAIN Lower : key = "event_type"
  BY GivenAssumption
<1> QED BY <1>1, PutMap DEF Typed

LEMMA FilledMap ==
    ASSUME NEW fields, IsMap(fields), NEW slot, slot # NoId => IsValue(slot)
    PROVE  IsMap(Filled(fields, slot))
<1>1. PICK key \in DOMAIN Lower : key = "request_id"
  BY GivenAssumption
<1>2. PICK identified : identified = IF slot = NoId \/ key \in DOMAIN fields THEN fields
                                     ELSE Put(fields, key, slot)
  OBVIOUS
<1>3. IsMap(identified)
  BY <1>2, PutMap
<1>4. Filled(fields, slot) = MergeUnder(identified, Attached)
  BY <1>1, <1>2 DEF Filled
<1> QED BY <1>3, <1>4, MergedMap, GivenAssumption

LEMMA SendEventStep ==
    ASSUME ReportInv, NEW type \in Types, NEW payload \in Payloads, NEW scope \in Scopes,
           NEW slot \in Slots, SendEvent(type, payload, scope, slot)
    PROVE  ReportInv'
<1> USE GivenAssumption
<1>1. UNCHANGED config /\ Configured' /\ config'.root \in Seq(STRING)
  BY DEF SendEvent, ReportInv, Configured
<1>2. CASE payload.kind # "object"
  <2>1. draft' = Idle /\ last' = [what |-> "not an object"]
    BY <1>2 DEF SendEvent, Dropped, Leaves
  <2>2. Promised'
    BY <1>1, <2>1, NothingLeft DEF ReportInv
  <2> QED BY <1>1, <2>1, <2>2 DEF ReportInv, Drafted
<1>3. CASE payload.kind = "object"
  <2>1. PICK fields : fields = Filled(Typed(type, MergeUnder(payload.map, scope)), slot)
    OBVIOUS
  <2>2. /\ last' = Idle
        /\ draft' = [kind |-> "event", ran |-> 0, type |-> type, slot |-> slot,
                     fields |-> fields]
    BY <1>3, <2>1 DEF SendEvent
  <2>3. IsMap(MergeUnder(payload.map, scope))
    BY <1>3, MergedMap
  <2>4. IsMap(Typed(type, MergeUnder(payload.map, scope)))
    BY <2>3, TypedMap
  <2>5. IsMap(fields)
    BY <2>1, <2>4, FilledMap
  <2>6. EventDraft(draft')
    BY <2>2, <2>5 DEF EventDraft
  <2>7. Promised'
    BY <1>1, <2>2, NothingLeft DEF ReportInv
  <2> QED BY <1>1, <2>6, <2>7 DEF ReportInv, Drafted
<1> QED BY <1>2, <1>3

\* The notice that leaves is sanitized as it is, with nothing else lost.
LEMMA AssembledNotice ==
    ASSUME NEW d, NoticeDraft(d, config.root), NEW r, r = Assembled(d)
    PROVE  /\ r.what = "notice" /\ r.link = d.link /\ r.causes = d.causes /\ r.frames = d.frames
           /\ Clean(config.filter, MaxDepth, r.context)
           /\ Preserved(config.filter, MaxDepth, r.given, r.context)
           /\ \A i \in DOMAIN r.trail : Clean(config.filter, 1, r.trail[i])
           /\ r.correlation # r.slot =>
                  /\ "request_id" \in DOMAIN r.given.map
                  /\ r.correlation = r.context.map["request_id"]
<1> USE SanitizerAssumption
<1>1. MaxDepth \in 1..MaxNesting - 1 /\ 1 \in 1..MaxNesting - 1
  OBVIOUS
<1>2. PICK context : context = Sanitize(config.filter, Object(d.context))
  OBVIOUS
<1>3. /\ r.what = "notice" /\ r.link = d.link /\ r.causes = d.causes /\ r.frames = d.frames
      /\ r.context = context /\ r.given = Object(d.context) /\ r.slot = d.slot
      /\ r.correlation = Correlation(context.map, d.slot)
      /\ r.trail = [i \in DOMAIN d.trail |-> SanitizeShallow(config.filter, Object(d.trail[i]))]
  BY <1>2 DEF Assembled
<1>4. IsMap(d.context) /\ IsValue(Object(d.context))
  BY ObjectOfMap DEF NoticeDraft
<1>5. context = Walk(config.filter, Object(d.context), MaxDepth)
  BY <1>2 DEF Sanitize
<1>6. Clean(config.filter, MaxDepth, context)
  BY <1>1, <1>4, <1>5, WalkClean
<1>7. Preserved(config.filter, MaxDepth, Object(d.context), context)
  BY <1>1, <1>4, <1>5, WalkPreserves
<1>8. ASSUME NEW i \in DOMAIN r.trail PROVE Clean(config.filter, 1, r.trail[i])
  <2>1. i \in DOMAIN d.trail /\ r.trail[i] = SanitizeShallow(config.filter, Object(d.trail[i]))
    BY <1>3
  <2>2. PICK m : m = d.trail[i]
    OBVIOUS
  <2>3. IsValue(Object(m))
    BY <2>1, <2>2, ObjectOfMap DEF NoticeDraft
  <2>4. r.trail[i] = Walk(config.filter, Object(m), 1)
    BY <2>1, <2>2 DEF SanitizeShallow
  <2> QED BY <1>1, <2>3, <2>4, WalkClean
<1>9. DOMAIN context.map = DOMAIN d.context
  BY <1>1, <1>4, <1>5, WalkRoot
<1>10. r.given.map = d.context
  BY <1>3 DEF Object
<1>11. r.correlation # r.slot => /\ "request_id" \in DOMAIN d.context
                                 /\ r.correlation = context.map["request_id"]
  BY <1>3, <1>9 DEF Correlation
<1> QED BY <1>3, <1>6, <1>7, <1>8, <1>10, <1>11

LEMMA FinishNoticeStep ==
    ASSUME ReportInv, FinishNotice
    PROVE  ReportInv'
<1>1. UNCHANGED config /\ Configured' /\ config'.root \in Seq(STRING)
  BY DEF FinishNotice, ReportInv, Configured
<1>2. draft' = Idle /\ Drafted'
  BY DEF FinishNotice, Dropped, Leaves, Drafted
<1>3. PICK d, r : d = draft /\ r = Assembled(d)
  OBVIOUS
<1>4. NoticeDraft(d, config.root)
  <2>1. draft # Idle /\ draft.kind = "notice"
    BY DEF FinishNotice
  <2>2. d # Idle /\ d.kind = "notice" /\ (NoticeDraft(d, config.root) \/ EventDraft(d))
    BY <1>3, <2>1 DEF ReportInv, Drafted
  <2> QED BY <2>2 DEF EventDraft
<1>5. CASE last' = r
  <2>1. /\ r.what = "notice" /\ r.link = d.link /\ r.causes = d.causes /\ r.frames = d.frames
        /\ Clean(config.filter, MaxDepth, r.context)
        /\ Preserved(config.filter, MaxDepth, r.given, r.context)
        /\ \A i \in DOMAIN r.trail : Clean(config.filter, 1, r.trail[i])
        /\ r.correlation # r.slot =>
               /\ "request_id" \in DOMAIN r.given.map
               /\ r.correlation = r.context.map["request_id"]
    BY <1>3, <1>4, AssembledNotice
  <2>2. ~IsReport("event")'
    BY <1>5, <2>1 DEF IsReport
  <2>3. ReportClean'
    BY <1>1, <1>5, <2>1, <2>2 DEF ReportClean
  <2>4. CausesFollowChain'
    BY <1>4, <1>5, <2>1 DEF CausesFollowChain, NoticeDraft, Follows
  <2>5. FramesAreOwn'
    BY <1>1, <1>4, <1>5, <2>1 DEF FramesAreOwn, NoticeDraft, OwnFrame
  <2>6. TypeHeld'
    BY <2>2 DEF TypeHeld
  <2> QED BY <1>1, <1>2, <2>3, <2>4, <2>5, <2>6 DEF ReportInv, Promised
<1>6. CASE last' = [what |-> "ignored"] \/ last' = [what |-> "too large"]
  <2>1. Promised'
    BY <1>1, <1>6, NothingLeft DEF ReportInv
  <2> QED BY <1>1, <1>2, <2>1 DEF ReportInv
<1> QED BY <1>3, <1>5, <1>6 DEF FinishNotice, Dropped, Leaves

\* The event that leaves, and its type.
LEMMA AssembledEvent ==
    ASSUME NEW d, EventDraft(d), ValidType(d.fields), NEW fields,
           fields = Reasserted(d.type, d.fields),
           NEW line, line = SanitizeStructural(Object(fields))
    PROVE  /\ Clean({}, MaxDepth, line)
           /\ Preserved({}, MaxDepth, Object(fields), line)
           /\ "event_type" \in DOMAIN line.map
           /\ d.type = NoType => /\ IsText(line.map["event_type"])
                                 /\ line.map["event_type"].chars > 0
           /\ d.type # NoType => line.map["event_type"] = TruncateString(d.type)
<1> USE SanitizerAssumption
<1>1. MaxDepth \in 1..MaxNesting - 1
  OBVIOUS
<1>2. /\ IsMap(fields)
      /\ d.type = NoType => fields = d.fields
      /\ d.type # NoType => "event_type" \in DOMAIN fields /\ fields["event_type"] = d.type
  BY TypedMap DEF EventDraft, Reasserted
<1>3. line = Walk({}, Object(fields), MaxDepth)
  BY DEF SanitizeStructural
<1>4. IsValue(Object(fields))
  BY <1>2, ObjectOfMap
<1>5. Clean({}, MaxDepth, line)
  BY <1>1, <1>3, <1>4, WalkClean
<1>6. Preserved({}, MaxDepth, Object(fields), line)
  BY <1>1, <1>3, <1>4, WalkPreserves
<1>7. /\ "event_type" \in DOMAIN fields /\ IsText(fields["event_type"])
      /\ d.type = NoType => fields["event_type"].chars > 0
  BY <1>2 DEF EventDraft, ValidType
<1>8. PICK key : key = "event_type"
  OBVIOUS
<1>9. /\ DOMAIN line.map = DOMAIN fields
      /\ \A k \in DOMAIN fields : Lower[k] \notin {} /\ IsText(fields[k]) =>
             line.map[k] = TruncateString(fields[k])
  BY <1>1, <1>2, <1>3, WalkRoot
<1>10. key \in DOMAIN line.map /\ line.map[key] = TruncateString(fields[key])
  BY <1>7, <1>8, <1>9
<1>11. IsNode(fields[key])
  BY <1>2, <1>7, <1>8, ValueNode DEF IsMap
<1>12. /\ IsText(line.map[key])
       /\ fields[key].chars > 0 => line.map[key].chars > 0
  BY <1>7, <1>8, <1>10, <1>11, TruncateFits
<1> QED BY <1>2, <1>5, <1>6, <1>7, <1>8, <1>10, <1>12

LEMMA FinishEventStep ==
    ASSUME ReportInv, FinishEvent
    PROVE  ReportInv'
<1>1. UNCHANGED config /\ Configured' /\ config'.root \in Seq(STRING)
  BY DEF FinishEvent, ReportInv, Configured
<1>2. draft' = Idle /\ Drafted'
  BY DEF FinishEvent, Dropped, Leaves, Drafted
<1>3. PICK d : d = draft
  OBVIOUS
<1>4. EventDraft(d)
  <2>1. draft # Idle /\ draft.kind = "event"
    BY DEF FinishEvent
  <2>2. d # Idle /\ d.kind = "event" /\ (NoticeDraft(d, config.root) \/ EventDraft(d))
    BY <1>3, <2>1 DEF ReportInv, Drafted
  <2> QED BY <2>2 DEF NoticeDraft
<1>5. PICK fields : fields = Reasserted(d.type, d.fields)
  OBVIOUS
<1>6. PICK line : line = SanitizeStructural(Object(fields))
  OBVIOUS
<1>7. PICK r : r = [what |-> "event", line |-> line, type |-> d.type, given |-> Object(fields)]
  OBVIOUS
<1>8. CASE ValidType(d.fields) /\ last' = r
  <2>1. /\ Clean({}, MaxDepth, line)
        /\ Preserved({}, MaxDepth, Object(fields), line)
        /\ "event_type" \in DOMAIN line.map
        /\ d.type = NoType => /\ IsText(line.map["event_type"])
                              /\ line.map["event_type"].chars > 0
        /\ d.type # NoType => line.map["event_type"] = TruncateString(d.type)
    BY <1>4, <1>5, <1>6, <1>8, AssembledEvent
  <2>2. /\ r.what = "event" /\ r.line = line /\ r.type = d.type /\ r.given = Object(fields)
    BY <1>7
  <2>3. ~IsReport("notice")'
    BY <1>8, <2>2 DEF IsReport
  <2>4. ReportClean'
    BY <1>8, <2>1, <2>2, <2>3 DEF ReportClean
  <2>5. CausesFollowChain' /\ FramesAreOwn'
    BY <2>3 DEF CausesFollowChain, FramesAreOwn
  <2>6. TypeHeld'
    BY <1>8, <2>1, <2>2 DEF TypeHeld
  <2> QED BY <1>1, <1>2, <2>4, <2>5, <2>6 DEF ReportInv, Promised
<1>9. CASE \E reason \in {"no event_type", "sampled out", "too large"} : last' = [what |-> reason]
  <2>1. Promised'
    BY <1>1, <1>9, NothingLeft DEF ReportInv
  <2> QED BY <1>1, <1>2, <2>1 DEF ReportInv
<1> QED BY <1>3, <1>5, <1>6, <1>7, <1>8, <1>9 DEF FinishEvent, Dropped, Leaves

LEMMA ReportStep == ReportInv /\ [Next]_vars => ReportInv'
<1> SUFFICES ASSUME ReportInv, [Next]_vars PROVE ReportInv'
  OBVIOUS
<1>1. CASE \E error \in Errors, scope \in Scopes, slot \in Slots, trail \in Trails :
               Notify(error, scope, slot, trail)
  BY <1>1, NotifyStep
<1>2. CASE \E edit \in NoticeEdits, ending \in Endings : BeforeNotify(edit, ending)
  BY <1>2, BeforeNotifyStep
<1>3. CASE FinishNotice
  BY <1>3, FinishNoticeStep
<1>4. CASE \E type \in Types, payload \in Payloads, scope \in Scopes, slot \in Slots :
               SendEvent(type, payload, scope, slot)
  BY <1>4, SendEventStep
<1>5. CASE \E edit \in EventEdits, ending \in Endings : BeforeEvent(edit, ending)
  BY <1>5, BeforeEventStep
<1>6. CASE FinishEvent
  BY <1>6, FinishEventStep
<1>7. CASE UNCHANGED vars
  <2>1. UNCHANGED <<config, draft, last>>
    BY <1>7 DEF vars
  <2>2. Promised'
    BY <2>1, NothingLeft DEF ReportInv
  <2> QED BY <2>1, <2>2 DEF ReportInv, Configured, Drafted
<1> QED BY <1>1, <1>2, <1>3, <1>4, <1>5, <1>6, <1>7 DEF Next

\* Every draft is in order, and every report that left it is what the four
\* theorems below say, in every state (client.rs run_pipeline, event.rs assemble).
THEOREM ReportHolds == Spec => []ReportInv
<1>1. Init => ReportInv
  BY InitReport
<1>2. ReportInv /\ [Next]_vars => ReportInv'
  BY ReportStep
<1> QED BY <1>1, <1>2, PTL DEF Spec

\* Whatever the hooks did, no filtered name, too deep or too long value leaves in
\* a notice, nor the id its context had to redact, no too deep or too long one in
\* an event, and nothing else is lost (client.rs step 5, notice.rs assemble,
\* event.rs step 11, sanitizer.rs walk).
THEOREM ReportIsClean == Spec => []ReportClean
<1>1. ReportInv => ReportClean
  BY DEF ReportInv, Promised
<1> QED BY <1>1, ReportHolds, PTL

\* The causes of a notice are the first links of its error's source() chain, up
\* to the cap, however long the chain and also when it panics or runs in a
\* circle (notice.rs from_error).
THEOREM CausesFollowTheChain == Spec => []CausesFollowChain
<1>1. ReportInv => CausesFollowChain
  BY DEF ReportInv, Promised
<1> QED BY <1>1, ReportHolds, PTL

\* A frame quotes the lines around its own, of a file that lies under the
\* project root by its path and by where it resolves to; it is shown without the
\* root exactly when its path is under it (bt.rs map_frame, process_resolved).
THEOREM FramesStayOwn == Spec => []FramesAreOwn
<1>1. ReportInv => FramesAreOwn
  BY DEF ReportInv, Promised
<1> QED BY <1>1, ReportHolds, PTL

\* The event_type argument wins over every hook; without one the event that
\* leaves still names its type, after truncation too (event.rs steps 4, 7, 9).
THEOREM TypeIsHeld == Spec => []TypeHeld
<1>1. ReportInv => TypeHeld
  BY DEF ReportInv, Promised
<1> QED BY <1>1, ReportHolds, PTL
=============================================================================
