--------------------------- MODULE MCRequestScope ---------------------------
(***************************************************************************)
(* RequestScope for TLC.  Tasks are alike.  A report changes no store, so  *)
(* that nothing is lost if one task reports at a time.  Either one scope   *)
(* is made and two values are written over the stores of all clients, or   *)
(* two scopes are made, nested or beside each other, over Plain alone; no  *)
(* stack of scopes is deeper than the scopes there are.                    *)
(***************************************************************************)
EXTENDS RequestScope, TLC

Permuted == Permutations(Tasks)

OneReport ==
    \A t, u \in Tasks : t # u => draft[t].kind = "none" \/ draft[u].kind = "none"

CONSTANT Plain

TwoScopesOneWrite ==
    made = 2 \/ (\E t \in Tasks : pc[t] \in {"seedEvents", "seedId"}) =>
        /\ Len(log) <= 1
        /\ \A i \in 1..Len(log) : log[i].layer \in Plain \cup Overlays
        /\ \A t \in Tasks : draft[t].client \in Plain \cup {0}

EnteredOnce == \A t \in Tasks : Len(current[t]) <= made
=============================================================================
