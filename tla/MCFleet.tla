-------------------------------- MODULE MCFleet --------------------------------
(***************************************************************************)
(* A small fleet for TLC: the requests of two nodes.                       *)
(***************************************************************************)
EXTENDS Fleet, TLC

CONSTANTS t1, t2, t3

Symmetry == Permutations({t1, t2})

\* Two requests on node 1 and one on node 2.
TwoAndOne == t1 :> 1 @@ t2 :> 1 @@ t3 :> 2

\* Elections and the queue share nothing but crashes: a behaviour has either
\* three terms and no task, one term and two tasks, or a little of both.
TermsOrTasks == {[terms |-> 3, tasks |-> 0], [terms |-> 1, tasks |-> 2],
                 [terms |-> 2, tasks |-> 1]}
=============================================================================
