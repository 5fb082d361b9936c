------------------------------- MODULE MCMemory -------------------------------
(***************************************************************************)
(* A small instance of MemoryFusion for TLC: two experiment branches are   *)
(* fused into the trunk while an agent writes.                             *)
(***************************************************************************)
EXTENDS MemoryFusion

OneKey      == {1}
Trunk       == {"main", "exp1", "exp2"}
Experiments == <<"exp1", "exp2">>
=============================================================================
