------------------------------ MODULE MCEvolution ------------------------------
(***************************************************************************)
(* A small instance of Evolution for TLC.                                   *)
(***************************************************************************)
EXTENDS Evolution, TLC

CONSTANTS p1, c1, c2

Symmetry == Permutations({c1, c2})

\* Mutations of one path, of two paths at once, of a prompt and of the memory's
\* layout.
AllTargets == {[s \in {"mode"} |-> "x"], [s \in {"mode", "hot"} |-> "y"],
               [s \in {"prompt"} |-> "x"], [s \in {"branch"} |-> "x"]}
=============================================================================
