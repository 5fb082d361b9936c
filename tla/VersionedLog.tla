----------------------------- MODULE VersionedLog -----------------------------
(***************************************************************************)
(* What versioned memory promises (ARCHITECTURE.md 117-126, 162-164): every *)
(* key has one history per branch, a step adds one value to the end of one *)
(* history, and nothing that was stored is ever changed or removed.        *)
(***************************************************************************)
EXTENDS Sequences

CONSTANTS Histories,  \* the (key, branch) pairs
          Values

VARIABLE log

LogInit == log = [h \in Histories |-> <<>>]

Store(h, v) == log' = [log EXCEPT ![h] = Append(@, v)]

LogNext == \E h \in Histories, v \in Values : Store(h, v)

LogSpec == LogInit /\ [][LogNext]_log
=============================================================================
