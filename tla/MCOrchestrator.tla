---------------------------- MODULE MCOrchestrator ----------------------------
(***************************************************************************)
(* Small instances of Orchestrator for TLC.                                *)
(***************************************************************************)
EXTENDS Orchestrator

OneSkill == {"code"}
NoSkill  == {}

\* Heartbeat loads: idle, and over 1.0, which is clamped to it.
IdleOrHot == {0, 12}

NoStatuses == {}
=============================================================================
