------------------------------ MODULE MCTwinStream -----------------------------
(***************************************************************************)
(* A small instance for TLC: a node and the runner publish.                *)
(***************************************************************************)
EXTENDS TwinStream, TLC

CONSTANTS node, run, peer, board, c1, c2

\* A node announces twice; a run reports once, on a subject a token longer.
Subjects == node :> <<"fleet", "n", "announce">> @@ run :> <<"fleet", "n", "announce", "late">>
Patterns == peer :> <<"fleet", "*", "announce">> @@ board :> <<"fleet", ">">>

\* One watcher and one connection of two publishers; two watchers; and two
\* connections of one publisher, of which either may break while the other stays.
SmallCasts ==
    {[watchers |-> {peer}, connections |-> {c1}, changes |-> node :> 2 @@ run :> 1],
     [watchers |-> {peer, board}, connections |-> {}, changes |-> node :> 1 @@ run :> 1],
     [watchers |-> {}, connections |-> {c1, c2}, changes |-> node :> 2 @@ run :> 0]}
=============================================================================
