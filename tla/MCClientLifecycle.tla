------------------------- MODULE MCClientLifecycle -------------------------
(* ClientLifecycle for TLC: the scenarios that differ in what they can show. *)
EXTENDS ClientLifecycle

\* Shutdown calls differ in nothing, so that one of them may be the last.
CONSTANT Last

Busy == {c \in Calls : pc[c] # "idle"}

\* An event that begins before the fork, and one in the child.
OneEventEach == eOffered <= process + 1

\* The flushes; or one shutdown; or both; or a flush and a shutdown.  Only
\* the barrier, which is promised until a shutdown begins, asks for notices.
Scenario ==
    /\ Last \in Busy => Shutdowns \subseteq Busy
    /\ \/ Busy \subseteq Flushes
       \/ /\ nOffered = 0
          /\ \/ Cardinality(Busy) = 1
             \/ OneEventEach /\ Busy \subseteq Shutdowns
             \/ OneEventEach /\ Last \notin Busy /\ \A c \in Busy : timeout[c] > 0

\* No step that fairness demands leaves a scenario: only the beginning of a
\* call, an offer and a fork do.
ScenarioSpec == Init /\ [][Next /\ Scenario']_vars /\ Fairness
=============================================================================
