----------------------------- MODULE UsageReport -----------------------------
(***************************************************************************)
(* What the skills drilldown promises of its usage evidence, whatever      *)
(* threads, deadlines and failing files it has behind it: one report, that *)
(* never invents a use and never calls a history completely covered when a *)
(* use of it was left out (README.md: "a bounded result sets               *)
(* coverage.truncated instead of silently extending the run").             *)
(***************************************************************************)
CONSTANT Nothing   \* the value of published before the report

VARIABLES
  history,    \* the uses that the retained rollouts of other tasks record
  own,        \* the uses that the rollouts of the current task record
  published   \* Nothing, or [complete |-> BOOLEAN, uses |-> a set of uses]

vars == <<history, own, published>>

Init == published = Nothing

Publish ==
  /\ published = Nothing
  /\ \E found \in SUBSET (history \cup own), complete \in BOOLEAN :
       /\ complete => found = history
       /\ published' = [complete |-> complete, uses |-> found]
  /\ UNCHANGED <<history, own>>

Spec == Init /\ [][Publish]_vars
=============================================================================
