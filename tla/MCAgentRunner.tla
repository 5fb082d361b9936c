---------------------------- MODULE MCAgentRunner ----------------------------
(***************************************************************************)
(* A small instance of AgentRunner for TLC.                                *)
(***************************************************************************)
EXTENDS AgentRunner

CONSTANTS r1, r2
TwoRuns == {r1, r2}

AllSkills == {"code", "chat"}
CodeOnly  == {"code"}

\* One seeded agent, which runs may lose to the reaper: from then on they fall
\* back to workers of their own.
OneCoder   == <<{"code"}>>

Hot        == {10}
NoStatuses == {}
=============================================================================
