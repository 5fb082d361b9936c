------------------------------ MODULE MemoryStore ------------------------------
(***************************************************************************)
(* Versioned memory, omni/memory/store.py: one SQLite table, every method  *)
(* one step under the store's lock.  A row keeps who wrote it; the reason, *)
(* and the hash, which is a function of the value, are left out.           *)
(*                                                                         *)
(* A value is a document, given by the path of each leaf it may have: the  *)
(* leaf's content, or Absent.                                              *)
(***************************************************************************)
EXTENDS Integers, FiniteSets, FiniteSetsExt, Sequences

CONSTANTS
    Keys,       \* a set of numbers, in the order the keys sort
    Branches,
    Paths,      \* the leaves of a document
    Contents,   \* what a leaf may hold
    Absent,
    Agents,     \* who writes
    MaxRows,    \* bound: agents write no further row once there are so many
    MaxClock    \* bound: last instant of the clock

ASSUME StoreAssumption ==
    /\ Keys \subseteq Nat
    /\ Absent \notin Contents
    /\ MaxRows \in Nat /\ MaxClock \in Nat

VARIABLES
    now,    \* the wall clock, which is assumed not to step back
    rows,   \* the table memory_versions
    past    \* history: what snapshot() returned when the clock left each instant

storeVars == <<now, rows, past>>

Values    == [Paths -> Contents \cup {Absent}]
Nobody    == <<>>   \* NULL in the provenance column
Histories == Keys \X Branches

\* parent is 0 for NULL.
Row == [key : Keys, branch : Branches, version : Nat \ {0}, value : Values,
        by : Agents, parent : Nat, provenance : {Nobody} \cup (Branches \X Nat),
        at : 0..MaxClock]

Of(k, b) == {r \in rows : r.key = k /\ r.branch = b}

StoreTypeOK ==
    /\ now \in 0..MaxClock
    /\ rows \subseteq Row /\ IsFiniteSet(rows)
    /\ DOMAIN past = {t \in 0..MaxClock : t < now}

StoreInit ==
    /\ now = 0
    /\ rows = {}
    /\ past = <<>>

-----------------------------------------------------------------------------
(* Reading.                                                                *)

\* _latest(), as a set with at most one row.
Newest(S) == {r \in S : \A q \in S : q.version <= r.version}
Latest(k, b) == Newest(Of(k, b))

Version(k, b, v) == {r \in Of(k, b) : r.version = v}

\* snapshot(): the latest value of every history, and snapshot_asof().
Snapshot == UNION {{<<h, r.value>> : r \in Latest(h[1], h[2])} : h \in Histories}

UpTo(k, b, t) == {r \in Of(k, b) : r.at <= t}

LatestIfOld(k, b, t) == Latest(k, b) \cap UpTo(k, b, t)               \* mutant
LatestAsOf(k, b, t)  == Newest(UpTo(k, b, t))

SnapshotAsOf(t) ==
    UNION {{<<h, r.value>> : r \in LatestAsOf(h[1], h[2], t)} : h \in Histories}

-----------------------------------------------------------------------------
(* Writing.                                                                *)

Insert(r) ==
    /\ Version(r.key, r.branch, r.version) = {}     \* PRIMARY KEY
    /\ rows' = rows \cup {r}
    /\ UNCHANGED <<now, past>>

LatestOfKey(k, b) ==                                                  \* mutant
    IF Of(k, b) = {} THEN 0 ELSE Max({r.version : r \in UNION {Of(k, c) : c \in Branches}})
LatestVersion(k, b) == IF Of(k, b) = {} THEN 0 ELSE Max({r.version : r \in Of(k, b)})

Write(k, v, who, b) ==
    Insert([key |-> k, branch |-> b, version |-> LatestVersion(k, b) + 1, value |-> v,
            by |-> who, parent |-> LatestVersion(k, b), provenance |-> Nobody, at |-> now])

RollbackRewinds(k, b, target, who) ==                                 \* mutant
    /\ Version(k, b, target) # {}
    /\ rows' = rows \ {r \in Of(k, b) : r.version > target}
    /\ UNCHANGED <<now, past>>

Rollback(k, b, target, who) ==
    \E r \in Version(k, b, target) : Write(k, r.value, who, b)

\* The row branch() starts from: a given version or, for None, the latest.
Source(k, b, v) == IF v = 0 THEN Latest(k, b) ELSE Version(k, b, v)

Branch(k, b, v, new, who) ==
    /\ Version(k, new, 1) = {}
    /\ \E r \in Source(k, b, v) :
          Insert([key |-> k, branch |-> new, version |-> 1, value |-> r.value,
                  by |-> who, parent |-> 0, provenance |-> <<b, r.version>>, at |-> now])

StoreTick ==
    /\ now < MaxClock
    /\ now' = now + 1
    /\ past' = [t \in 0..now |-> IF t = now THEN Snapshot ELSE past[t]]
    /\ UNCHANGED rows

WriteBy(who) ==
    /\ Cardinality(rows) < MaxRows
    /\ \E k \in Keys, b \in Branches :
          \/ \E v \in Values : Write(k, v, who, b)
          \/ \E t \in 1..MaxRows : Rollback(k, b, t, who)
          \/ \E v \in 0..MaxRows, new \in Branches : Branch(k, b, v, new, who)

StoreNext == (\E who \in Agents : WriteBy(who)) \/ StoreTick

StoreSpec == StoreInit /\ [][StoreNext]_storeVars

-----------------------------------------------------------------------------
(* Properties.                                                             *)

\* The versions of every history are 1, 2, ... n without a gap, each written no
\* earlier than the one before it and naming it as its parent; a branch point
\* names a version that exists and holds the value that was copied (78-92,
\* 139-151, 156-176).
VersionsChain ==
    /\ \A h \in Histories : {r.version : r \in Of(h[1], h[2])} = 1..Cardinality(Of(h[1], h[2]))
    /\ \A r \in rows :
          /\ r.parent = r.version - 1
          /\ r.version > 1 => \E q \in Version(r.key, r.branch, r.parent) : q.at <= r.at
          /\ r.provenance # Nobody =>
                \E q \in Version(r.key, r.provenance[1], r.provenance[2]) : q.value = r.value

\* "State of the store at a point in time" (193): for every instant the clock
\* has left, snapshot_asof() answers what snapshot() answered then, whatever was
\* written, rolled back or branched since (181-205).
TimeTravel == \A t \in DOMAIN past : SnapshotAsOf(t) = past[t]

\* The table implements the append-only log: the history of (k, b) is the values
\* of its versions in order.
ValueOf(h, v) == (CHOOSE r \in Version(h[1], h[2], v) : TRUE).value
LogOf == [h \in Histories |-> [v \in 1..Cardinality(Of(h[1], h[2])) |-> ValueOf(h, v)]]

Promise == INSTANCE VersionedLog WITH log <- LogOf

\* The past is never rewritten: every step of the store appends one value to one
\* history, as VersionedLog promises (5, 7-8).
ImplementsLog == Promise!LogSpec
=============================================================================
