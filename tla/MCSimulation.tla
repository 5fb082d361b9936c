----------------------------- MODULE MCSimulation ------------------------------
(***************************************************************************)
(* Every plan of up to three steps of a few kinds, for TLC.                *)
(***************************************************************************)
EXTENDS Simulation

StepKinds ==
    {[duration |-> d, error |-> FALSE, effects |-> es] :
        d \in {0, 1}, es \in {<<>>, <<"write">>, <<"write", "run">>, <<"write", "rm">>}}
    \cup {[duration |-> 1, error |-> TRUE, effects |-> <<"write">>],
          [duration |-> 3, error |-> FALSE, effects |-> <<"run">>]}

SmallPlans  == UNION {[1..n -> StepKinds] : n \in 1..3}
SmallLimits == [steps : {0, 2, 3}, time : {0, 2, 4}, effects : {0, 1, 3}]
=============================================================================
