----------------------------- MODULE MCSelfReview ------------------------------
(***************************************************************************)
(* A small instance for TLC: two metrics and two outcomes of a task.       *)
(***************************************************************************)
EXTENDS SelfReview

TwoMetrics == {"accuracy", "cost"}
SmallMeasures == {[accuracy |-> 2, cost |-> 0], [accuracy |-> 0, cost |-> 1]}

\* Two cycles at once and a restart; or more evaluations than the window keeps.
SmallBudgets == {[cycles |-> 2, evals |-> 1, proposals |-> 0, crashes |-> 1],
                 [cycles |-> 0, evals |-> 3, proposals |-> 1, crashes |-> 1]}
=============================================================================
