----------------------------- MODULE Sanitizer -----------------------------
(***************************************************************************)
(* sanitizer.rs: what happens to a JSON value before it leaves the         *)
(* process.  A value is a tree of records: a string knows how many         *)
(* characters of which width in bytes it holds, which is all truncation    *)
(* reads; an object is a function of its keys, an array a sequence; every  *)
(* other JSON value is one scalar.                                         *)
(***************************************************************************)
EXTENDS Integers, Sequences, SequencesExt

CONSTANTS
    Lower,              \* key |-> the key in lower case (str::to_lowercase)
    MaxDepth,           \* MAX_DEPTH
    MaxStringBytes,     \* MAX_STRING_BYTES
    MaxNesting          \* bound: the values that are given nest at most so deep

ASSUME SanitizerAssumption ==
    /\ MaxDepth \in Nat \ {0}
    /\ MaxStringBytes \in Nat \ {0}
    /\ MaxNesting \in Nat /\ MaxDepth < MaxNesting

Text(id, chars, width) ==
    [kind |-> "string", id |-> id, chars |-> chars, width |-> width, cut |-> FALSE]
Short(id)     == Text(id, 1, 1)
Object(map)   == [kind |-> "object", map |-> map]
Array(items)  == [kind |-> "array", items |-> items]
Scalar        == [kind |-> "scalar"]

Filtered    == Short("[FILTERED]")
DepthMarker == Short("[DEPTH]")

IsText(v) == v.kind = "string"
Nests(v)  == v.kind \in {"object", "array"}
Bytes(v)  == v.chars * v.width

\* The children of a value by key or by index.
Children(v) ==
    IF v.kind = "object" THEN v.map
    ELSE IF v.kind = "array" THEN v.items ELSE << >>

\* The values n steps below the root, by the path of keys and indices there.
NextLevel(above) ==
    [path \in UNION {{Append(p, step) : step \in DOMAIN Children(above[p])} : p \in DOMAIN above}
        |-> Children(above[Front(path)])[Last(path)]]
Level(v) ==
    LET level[n \in 0..MaxNesting] ==
            IF n = 0 THEN [path \in {<< >>} |-> v] ELSE NextLevel(level[n - 1])
    IN  level

\* The nodes of the values that are given, and the values and maps made of them:
\* a character takes at least a byte and fits a string.
IsNode(x) ==
    \/ x = Scalar
    \/ /\ IsText(x) /\ x = Text(x.id, x.chars, x.width)
       /\ x.chars \in Nat /\ x.width \in 1..MaxStringBytes
    \/ x.kind = "object" /\ x = Object(x.map) /\ DOMAIN x.map \subseteq DOMAIN Lower
    \/ x.kind = "array" /\ x = Array(x.items) /\ DOMAIN x.items \subseteq Nat
IsValue(v) == \A n \in 0..MaxNesting :
                  \A path \in DOMAIN Level(v)[n] : IsNode(Level(v)[n][path])
IsMap(m) == DOMAIN m \subseteq DOMAIN Lower /\ \A key \in DOMAIN m : IsValue(m[key])

Paths(v)    == UNION {DOMAIN Level(v)[n] : n \in 0..MaxNesting}
At(v, path) == Level(v)[Len(path)][path]

-----------------------------------------------------------------------------
\* Backing up to a character boundary keeps the whole characters that fit.
TruncateString(v) ==
    IF Bytes(v) <= MaxStringBytes THEN v
    ELSE [v EXCEPT !.chars = MaxStringBytes \div v.width, !.cut = TRUE]

RedactedAsWritten(filter, key) == key \in filter    \* mutant
Redacted(filter, key) == Lower[key] \in filter

\* What takes the place of a child that is not redacted by its key.
Descend(child, depthLeft, walked) ==
    IF depthLeft <= 1 /\ Nests(child) THEN DepthMarker ELSE walked

\* walk(value, depth_left, redact) of one value whose children were walked; an
\* empty filter is redact = false.  With none left only a value without children
\* is walked.
Walked(filter, value, depthLeft, below) ==
    LET Child(step) == Descend(Children(value)[step], depthLeft, below[step])
    IN  IF IsText(value) THEN TruncateString(value)
        ELSE IF ~Nests(value) \/ depthLeft = 0 THEN value
        ELSE IF value.kind = "object"
        THEN Object([key \in DOMAIN value.map |->
                 IF Redacted(filter, key) THEN Filtered ELSE Child(key)])
        ELSE Array([i \in DOMAIN value.items |-> Child(i)])

\* And so for every value of v, that many levels above the last.
Walk(filter, v, depth) ==
    LET walk[depthLeft \in 0..depth] ==
            LET values == Level(v)[depth - depthLeft]
            IN  [path \in DOMAIN values |->
                    Walked(filter, values[path], depthLeft,
                        [step \in DOMAIN Children(values[path]) |->
                            walk[depthLeft - 1][Append(path, step)]])]
    IN  walk[depth][<< >>]

Sanitize(filter, v)        == Walk(filter, v, MaxDepth)
SanitizeShallow(filter, v) == Walk(filter, v, 1)
SanitizeStructural(v)      == Walk({}, v, MaxDepth)

-----------------------------------------------------------------------------
(***************************************************************************)
(* What the walk is for, said of the paths of a value and not by walking   *)
(* it the same way: the reference the runs compare with.                   *)
(***************************************************************************)
\* The last step is a key of an object, one the filter names.
NamesSecret(filter, v, path) ==
    /\ path # << >>
    /\ At(v, Front(path)).kind = "object"
    /\ Lower[Last(path)] \in filter

\* No value stands under a filtered name, none is nested too deep or too long.
Clean(filter, depth, v) ==
    \A path \in Paths(v) :
        /\ Len(path) <= depth
        /\ NamesSecret(filter, v, path) => At(v, path) = Filtered
        /\ Nests(At(v, path)) => Len(path) < depth
        /\ IsText(At(v, path)) => Bytes(At(v, path)) <= MaxStringBytes

\* Whatever no rule is about is still there, a long string as far as it fits.
Preserved(filter, depth, before, after) ==
    \A path \in Paths(before) :
        \/ \E n \in 1..Len(path) : NamesSecret(filter, before, SubSeq(path, 1, n))
        \/ Len(path) > depth
        \/ Len(path) = depth /\ Nests(At(before, path))
        \/ /\ path \in Paths(after)
           /\ At(after, path).kind = At(before, path).kind
           /\ IsText(At(after, path)) =>
                  /\ At(after, path).id = At(before, path).id
                  /\ ~At(after, path).cut => At(after, path) = At(before, path)
                  /\ At(after, path).cut =>
                         Bytes(At(after, path)) + At(after, path).width > MaxStringBytes
=============================================================================
