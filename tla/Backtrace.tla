----------------------------- MODULE Backtrace -----------------------------
(***************************************************************************)
(* bt.rs: from the frames of a captured backtrace to the frames of a       *)
(* notice.  A symbol's name is the sequence of its path segments, a file   *)
(* the sequence of its path components.                                    *)
(***************************************************************************)
EXTENDS Integers, Sequences, SequencesExt

CONSTANTS
    BeginsWithH,        \* the segments that begin with the letter h, hashes included
    InternalModules,    \* the INTERNAL_PREFIXES that end in ::, as segments
    InternalSymbols,    \* the others
    Canonical,          \* file |-> the file it resolves to, or Missing
    LinesOf,            \* canonical file |-> its number of lines, 0 when unreadable
    MaxFrames,          \* MAX_FRAMES
    SourceRadius,       \* SOURCE_RADIUS
    Missing, NoName, NoFile, NoLine, NoSource

ASSUME BacktraceAssumption ==
    /\ MaxFrames \in Nat \ {0} /\ SourceRadius \in Nat
    /\ LinesOf \in [DOMAIN LinesOf -> Nat]

\* A symbol may lack its file or its line; a file that resolves has a number of lines.
IsSymbol(s) ==
    /\ s.line \in Nat \cup {NoLine}
    /\ s.file = NoFile \/ /\ s.file \in Seq(STRING)
                          /\ Canonical[s.file] \in DOMAIN LinesOf \cup {Missing}
IsTrace(trace) == Len(trace) \in Nat /\ \A i \in 1..Len(trace) : IsSymbol(trace[i])

\* name.rsplit_once("::h"): the last segment that begins with h goes, and with
\* it everything after it; the first segment has no :: before it.
StripHash(name) ==
    LET cuts == {i \in 2..Len(name) : name[i] \in BeginsWithH}
    IN  IF cuts = {} THEN name ELSE SubSeq(name, 1, Max(cuts) - 1)

IsInternal(name) ==
    \/ \E p \in InternalModules : IsStrictPrefix(p, name)
    \/ \E p \in InternalSymbols : IsPrefix(p, name)

\* An empty root contains nothing.
LexicallyUnderRoot(file, root) == root # << >> /\ IsPrefix(root, file)

ResolvesAnywhere(file, root) == Canonical[file] # Missing    \* mutant
ResolvesUnderRoot(file, root) ==
    /\ Canonical[file] # Missing
    /\ Canonical[root] # Missing
    /\ IsPrefix(Canonical[root], Canonical[file])

Placeholder == <<"[PROJECT_ROOT]">>

\* The components below the root; DisplayPath keeps an outside file whole.
DisplayPath(file, root) ==
    IF LexicallyUnderRoot(file, root)
    THEN Placeholder \o SubSeq(file, Len(root) + 1, Len(file))
    ELSE file

\* The numbers of the lines quoted, none when the file cannot be read or ends
\* before them (lines() of an empty or short file).
ReadExcerpt(file, line) ==
    LET start == Max({line - SourceRadius, 1})
        shown == start..Min({line + SourceRadius, LinesOf[Canonical[file]]})
    IN  IF shown = {} THEN NoSource ELSE shown

Quotes(file, line, root) ==
    IF line # NoLine /\ LexicallyUnderRoot(file, root) /\ ResolvesUnderRoot(file, root)
    THEN ReadExcerpt(file, line) ELSE NoSource

\* map_frame for a frame that is kept; the file is that of the symbol, for the
\* statements below.
MapFrame(s, root) ==
    [method |-> IF s.name = NoName THEN NoName ELSE StripHash(s.name),
     shown  |-> IF s.file = NoFile THEN NoFile
                ELSE IF s.name = NoName THEN s.file ELSE DisplayPath(s.file, root),
     source |-> IF s.name = NoName \/ s.file = NoFile THEN NoSource
                ELSE Quotes(s.file, s.line, root),
     file   |-> s.file,
     line   |-> s.line]

IsKept(s) == s.name = NoName \/ ~IsInternal(StripHash(s.name))

\* process_resolved: internal frames do not count towards the cap.
ProcessResolved(trace, root) ==
    LET frames[n \in 0..Len(trace)] ==
            IF n = 0 THEN << >>
            ELSE IF Len(frames[n - 1]) = MaxFrames \/ ~IsKept(trace[n]) THEN frames[n - 1]
            ELSE Append(frames[n - 1], MapFrame(trace[n], root))
    IN  frames[Len(trace)]
=============================================================================
