----------------------------- MODULE MemoryFusion -----------------------------
(***************************************************************************)
(* Knowledge fusion, omni/memory/fusion.py, while agents keep writing to   *)
(* the store.  fuse() holds a lock of its own, so fusions do not overlap,  *)
(* but it calls the store once per branch, entry and key, and the store's  *)
(* other callers take steps in between.                                    *)
(***************************************************************************)
EXTENDS MemoryStore

CONSTANTS
    Sources,  \* source_branches, a sequence
    Target,   \* target_branch
    Fuser,    \* the fuser's agent id
    Writers   \* the other agents

ASSUME FusionAssumption ==
    /\ Sources \in Seq(Branches) /\ Sources # <<>>
    /\ \A i, j \in 1..Len(Sources) : Sources[i] = Sources[j] => i = j
    /\ Target \in Branches
    /\ Agents = Writers \cup {Fuser} /\ Fuser \notin Writers

VARIABLES
    strategy, \* "newest" or "merge"
    at,       \* where fuse() stands
    listed,   \* how many source branches it has listed
    toRead,   \* the keys of the branch it is reading
    found,    \* the entries it has read
    toFuse,   \* the keys still to be fused
    began,    \* history: the table when this fusion began
    settled   \* history: the table when the last undisturbed fusion ended

fuseVars == <<strategy, at, listed, toRead, found, toFuse, began, settled>>
allVars  == <<storeVars, fuseVars>>

SourceSet == {Sources[i] : i \in 1..Len(Sources)}

FusionTypeOK ==
    /\ StoreTypeOK
    /\ strategy \in {"newest", "merge"}
    /\ at \in {"idle", "list", "read", "fuse", "write"}
    /\ listed \in 0..Len(Sources)
    /\ toRead \subseteq Keys /\ toFuse \subseteq Keys
    /\ found \subseteq {r \in rows : r.branch \in SourceSet}
    /\ began \subseteq rows /\ settled \subseteq rows

FusionInit ==
    /\ StoreInit
    /\ strategy \in {"newest", "merge"}
    /\ at = "idle"
    /\ listed = 0
    /\ toRead = {} /\ found = {} /\ toFuse = {}
    /\ began = {} /\ settled = {}

-----------------------------------------------------------------------------
(* What a key is fused to.                                                 *)

Entries(k)    == {e \in found : e.key = k}
Position(b)   == CHOOSE i \in 1..Len(Sources) : Sources[i] = b
Earlier(e, f) == Position(e.branch) < Position(f.branch)

\* Whether max() prefers e to f.
NewerByVersion(e, f) == e.version > f.version \/ (e.version = f.version /\ e.at > f.at)  \* mutant
Newer(e, f)          == e.at > f.at \/ (e.at = f.at /\ e.version > f.version)

Winner(E) ==
    CHOOSE e \in E : \A f \in E :
        f = e \/ Newer(e, f) \/ (~Newer(f, e) /\ Earlier(e, f))

\* deep_merge() of the values in the order of the branches: a leaf is taken from the
\* last branch that has it.
WithLeaf(E, p) == {e \in E : e.value[p] # Absent}
LastOf(E)      == CHOOSE e \in E : \A f \in E : ~Earlier(e, f)
Merged(E)      == [p \in Paths |-> IF WithLeaf(E, p) = {} THEN Absent
                                  ELSE LastOf(WithLeaf(E, p)).value[p]]

ValueOfAll(E) == IF strategy = "newest" THEN Winner(E).value ELSE Merged(E)
FusedValue(k) == ValueOfAll(Entries(k))

-----------------------------------------------------------------------------
(* The steps of fuse().                                                    *)

Begin ==
    /\ at = "idle"
    /\ at' = "list"
    /\ began' = rows
    /\ UNCHANGED <<storeVars, strategy, listed, toRead, found, toFuse, settled>>

\* all_keys() of the next branch.
ListKeys ==
    /\ at = "list" /\ listed < Len(Sources)
    /\ listed' = listed + 1
    /\ toRead' = {k \in Keys : Of(k, Sources[listed + 1]) # {}}
    /\ at' = "read"
    /\ UNCHANGED <<storeVars, strategy, found, toFuse, began, settled>>

\* Distinct keys come in no particular order.
ReadEntry ==
    /\ at = "read"
    /\ IF toRead = {} THEN at' = "list" /\ UNCHANGED <<toRead, found, toFuse>>
       ELSE \E k \in toRead :
              /\ toRead' = toRead \ {k}
              /\ found' = found \cup Latest(k, Sources[listed])
              /\ toFuse' = toFuse \cup {e.key : e \in Latest(k, Sources[listed])}
              /\ UNCHANGED at
    /\ UNCHANGED <<storeVars, strategy, listed, began, settled>>

AllRead ==
    /\ at = "list" /\ listed = Len(Sources)
    /\ at' = "fuse"
    /\ UNCHANGED <<storeVars, strategy, listed, toRead, found, toFuse, began, settled>>

WriteAlways(k) == FALSE                                               \* mutant
Unchanged(k)   == \E e \in Latest(k, Target) : e.value = FusedValue(k)

\* The comparison with what the target holds, for the next key in order.
CompareTarget ==
    /\ at = "fuse" /\ toFuse # {}
    /\ IF Unchanged(Min(toFuse)) THEN toFuse' = toFuse \ {Min(toFuse)} /\ UNCHANGED at
       ELSE at' = "write" /\ UNCHANGED toFuse
    /\ UNCHANGED <<storeVars, strategy, listed, toRead, found, began, settled>>

WriteFused ==
    /\ at = "write"
    /\ Write(Min(toFuse), FusedValue(Min(toFuse)), Fuser, Target)
    /\ toFuse' = toFuse \ {Min(toFuse)}
    /\ at' = "fuse"
    /\ UNCHANGED <<strategy, listed, toRead, found, began, settled>>

Undisturbed == \A r \in rows \ began : r.by = Fuser

\* What it read goes out of scope.
Finish ==
    /\ at = "fuse" /\ toFuse = {}
    /\ at' = "idle"
    /\ listed' = 0 /\ found' = {} /\ began' = {}
    /\ settled' = IF Undisturbed THEN rows ELSE {}
    /\ UNCHANGED <<storeVars, strategy, toRead, toFuse>>

Fuse == \/ Begin \/ ListKeys \/ ReadEntry \/ AllRead
        \/ CompareTarget \/ WriteFused \/ Finish

Others == ((\E who \in Writers : WriteBy(who)) \/ StoreTick) /\ UNCHANGED fuseVars

FusionNext == Fuse \/ Others

FusionSpec == FusionInit /\ [][FusionNext]_allVars

-----------------------------------------------------------------------------
(* Properties.                                                             *)

\* "the latest-created version across branches wins" (9): although the branches
\* are read one call at a time while others write, what the fuser is about to
\* store is never older than any version of the key that a source branch had
\* when the fusion began (63-79).
NeverOlderThanBegan ==
    strategy = "newest" /\ at = "write" =>
        \A r \in began : r.key = Min(toFuse) /\ r.branch \in SourceSet =>
            r.at <= Winner(Entries(Min(toFuse))).at

\* A fusion after an undisturbed one, with nothing written since, has nothing
\* to write: running it again adds no versions, under either strategy (91-102).
QuietWhenSettled ==
    at = "write" => ~(settled # {} /\ began = settled /\ rows = began)

\* Store and fuser are well typed, and fusing again what was fused writes nothing
\* (59-104).
FusionInv == FusionTypeOK /\ QuietWhenSettled
=============================================================================
