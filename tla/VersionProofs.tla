------------------------------ MODULE VersionProofs -----------------------------
(***************************************************************************)
(* What holds of the two stores of versions.  Memory, with the fuser       *)
(* writing to it: for any number of keys, branches, agents and rows, and   *)
(* any clock.  The skill catalog, with its users and syncs at once: for    *)
(* any number of skills, versions, registries and requests.                *)
(***************************************************************************)
EXTENDS MemoryFusion, RemoteSync, FiniteOrders


-----------------------------------------------------------------------------
(* The table.  Every history is numbered 1..n with one row for each number *)
(* and ascending times, and a row is written once and for all.             *)

SameHistory(r, q) == r.key = q.key /\ r.branch = q.branch

OneRowEach ==
    \A r, q \in rows : SameHistory(r, q) /\ r.version = q.version => r = q

TimesAscend ==
    /\ \A r \in rows : r.at <= now
    /\ \A r, q \in rows : SameHistory(r, q) /\ q.version <= r.version => q.at <= r.at

StoreInv == /\ StoreTypeOK /\ VersionsChain
            /\ OneRowEach /\ TimesAscend

\* A new row, as write() and branch() make them: the next version of its history.
NewRow(k, b, v, who, from) ==
    [key |-> k, branch |-> b, version |-> Cardinality(Of(k, b)) + 1, value |-> v,
     by |-> who, parent |-> Cardinality(Of(k, b)), provenance |-> from, at |-> now]

\* The row a provenance names is there and has the value v.
Origin(k, v, from) ==
    \/ from = Nobody
    \/ from \in Branches \X Nat /\ \E q \in Version(k, from[1], from[2]) : q.value = v

Extends(k, b, v, who, from) ==
    /\ k \in Keys /\ b \in Branches /\ v \in Values /\ who \in Agents
    /\ Origin(k, v, from)
    /\ rows' = rows \cup {NewRow(k, b, v, who, from)}
    /\ UNCHANGED <<now, past>>

\* Histories are finite.
LEMMA OfFinite ==
    ASSUME StoreTypeOK, NEW k, NEW b
    PROVE  IsFiniteSet(Of(k, b)) /\ Cardinality(Of(k, b)) \in Nat
<1>1. Of(k, b) \in SUBSET rows
  BY DEF Of
<1>. QED
  BY <1>1, FS_Subset, FS_CardinalityType DEF StoreTypeOK

\* The rows of a history are numbered up to their number.
LEMMA Numbers ==
    ASSUME StoreInv, NEW k \in Keys, NEW b \in Branches
    PROVE  /\ {r.version : r \in Of(k, b)} = 1..Cardinality(Of(k, b))
           /\ \A r \in Of(k, b) : r.version \in 1..Cardinality(Of(k, b))
           /\ \A n \in 1..Cardinality(Of(k, b)) : \E r \in Of(k, b) : r.version = n
<1>1. <<k, b>> \in Histories
  BY DEF Histories
<1>2. {r.version : r \in Of(k, b)} = 1..Cardinality(Of(k, b))
  BY <1>1 DEF StoreInv, VersionsChain
<1>. QED
  BY <1>2

\* The latest version is the number of versions.
LEMMA LatestIsCount ==
    ASSUME StoreInv, NEW k \in Keys, NEW b \in Branches
    PROVE  LatestVersion(k, b) = Cardinality(Of(k, b))
<1>. DEFINE n == Cardinality(Of(k, b))
<1>1. n \in Nat /\ IsFiniteSet(Of(k, b))
  BY OfFinite DEF StoreInv
<1>2. CASE Of(k, b) = {}
  BY <1>2, FS_EmptySet DEF LatestVersion
<1>3. CASE Of(k, b) # {}
  <2>1. n # 0
    BY <1>1, <1>3, FS_EmptySet
  <2>2. {r.version : r \in Of(k, b)} = 1..n
    BY Numbers
  <2>3. Max(1..n) = n
    BY <1>1, <2>1 DEF Max
  <2>. QED
    BY <1>3, <2>2, <2>3 DEF LatestVersion
<1>. QED
  BY <1>2, <1>3

\* write() adds the next version of its history.
LEMMA WriteExtends ==
    ASSUME StoreInv, NEW k \in Keys, NEW b \in Branches, NEW v \in Values, NEW who \in Agents,
           Write(k, v, who, b)
    PROVE  Extends(k, b, v, who, Nobody)
BY LatestIsCount DEF Write, Insert, Extends, NewRow, Origin

\* branch() finds its new history empty and copies a row that is there.
LEMMA BranchExtends ==
    ASSUME StoreInv, NEW k \in Keys, NEW b \in Branches, NEW v \in Nat, NEW new \in Branches,
           NEW who \in Agents, Branch(k, b, v, new, who)
    PROVE  \E w, from : Extends(k, new, w, who, from)
<1>1. PICK r \in Source(k, b, v) :
          Insert([key |-> k, branch |-> new, version |-> 1, value |-> r.value,
                  by |-> who, parent |-> 0, provenance |-> <<b, r.version>>, at |-> now])
  BY DEF Branch
<1>2. r \in rows /\ r \in Of(k, b)
  BY DEF Source, Latest, Newest, Version, Of
<1>3. r.version \in Nat /\ r.value \in Values
  BY <1>2 DEF StoreInv, StoreTypeOK, Row
<1>4. Cardinality(Of(k, new)) = 0
  <2>1. \A q \in Of(k, new) : q.version # 1
    BY DEF Branch, Version
  <2>2. 1 \notin 1..Cardinality(Of(k, new))
    BY <2>1, Numbers
  <2>. QED
    BY <2>2, OfFinite DEF StoreInv
<1>5. Origin(k, r.value, <<b, r.version>>)
  BY <1>2, <1>3 DEF Origin, Version, Of
<1>6. Extends(k, new, r.value, who, <<b, r.version>>)
  BY <1>1, <1>3, <1>4, <1>5 DEF Extends, NewRow, Insert
<1>. QED
  BY <1>3, <1>6

\* Whatever an agent does in one call, one history is extended by one row.
LEMMA WriteByExtends ==
    ASSUME StoreInv, NEW who \in Agents, WriteBy(who)
    PROVE  \E k, b, v, from : Extends(k, b, v, who, from)
<1>1. PICK k \in Keys, b \in Branches :
          \/ \E v \in Values : Write(k, v, who, b)
          \/ \E t \in 1..MaxRows : Rollback(k, b, t, who)
          \/ \E v \in 0..MaxRows, new \in Branches : Branch(k, b, v, new, who)
  BY DEF WriteBy
<1>2. CASE \E v \in Values : Write(k, v, who, b)
  BY <1>2, WriteExtends
<1>3. ASSUME NEW t \in 1..MaxRows, Rollback(k, b, t, who)
      PROVE  \E v : Extends(k, b, v, who, Nobody)
  <2>1. PICK r \in Version(k, b, t) : Write(k, r.value, who, b)
    BY <1>3 DEF Rollback
  <2>2. r.value \in Values
    BY DEF Version, Of, StoreInv, StoreTypeOK, Row
  <2>. QED
    BY <2>1, <2>2, WriteExtends
<1>4. ASSUME NEW v \in 0..MaxRows, NEW new \in Branches, Branch(k, b, v, new, who)
      PROVE  \E w, from : Extends(k, new, w, who, from)
  <2>1. v \in Nat
    BY StoreAssumption
  <2>. QED
    BY <1>4, <2>1, BranchExtends
<1>. QED
  BY <1>1, <1>2, <1>3, <1>4

\* What a new row changes: its own history grows by it, the others stay.
LEMMA ExtendFacts ==
    ASSUME StoreInv, NEW k, NEW b, NEW v, NEW who, NEW from, Extends(k, b, v, who, from)
    PROVE  LET n == Cardinality(Of(k, b))
               x == NewRow(k, b, v, who, from)
           IN  /\ n \in Nat /\ x \in Row /\ x \notin rows
               /\ x.key = k /\ x.branch = b /\ x.version = n + 1 /\ x.value = v /\ x.by = who
               /\ x.parent = n /\ x.provenance = from /\ x.at = now
               /\ Of(k, b)' = Of(k, b) \cup {x} /\ Cardinality(Of(k, b)') = n + 1
               /\ \A l, c : l # k \/ c # b => Of(l, c)' = Of(l, c)
<1>. DEFINE n == Cardinality(Of(k, b))
            x == NewRow(k, b, v, who, from)
<1>1. n \in Nat /\ IsFiniteSet(Of(k, b))
  BY OfFinite DEF StoreInv
<1>2. /\ x.key = k /\ x.branch = b /\ x.version = n + 1 /\ x.value = v /\ x.by = who
      /\ x.parent = n /\ x.provenance = from /\ x.at = now
  BY DEF NewRow
<1>3. from \in {Nobody} \cup (Branches \X Nat)
  BY DEF Extends, Origin
<1>4. x \in Row
  <2>1. now \in 0..MaxClock
    BY DEF StoreInv, StoreTypeOK
  <2>. QED
    BY <1>1, <1>3, <2>1 DEF Extends, NewRow, Row
<1>5. x \notin Of(k, b)
  <2>1. \A r \in Of(k, b) : r.version \in 1..n
    BY Numbers DEF Extends
  <2>. QED
    BY <1>1, <1>2, <2>1
<1>6. x \notin rows
  BY <1>2, <1>5 DEF Of
<1>7. Of(k, b)' = Of(k, b) \cup {x}
  BY <1>2 DEF Extends, Of
<1>8. Cardinality(Of(k, b)') = n + 1
  BY <1>1, <1>5, <1>7, FS_AddElement
<1>9. \A l, c : l # k \/ c # b => Of(l, c)' = Of(l, c)
  BY <1>2 DEF Extends, Of
<1>. QED
  BY <1>1, <1>2, <1>4, <1>6, <1>7, <1>8, <1>9

\* A new row keeps the table in order.
LEMMA ExtendKeeps ==
    ASSUME StoreInv, NEW k, NEW b, NEW v, NEW who, NEW from, Extends(k, b, v, who, from)
    PROVE  StoreInv'
<1>1. PICK n, x :
      /\ n = Cardinality(Of(k, b)) /\ x = NewRow(k, b, v, who, from)
      /\ n \in Nat /\ x \in Row /\ x \notin rows
      /\ x.key = k /\ x.branch = b /\ x.version = n + 1 /\ x.value = v
      /\ x.parent = n /\ x.provenance = from /\ x.at = now
      /\ Of(k, b)' = Of(k, b) \cup {x} /\ Cardinality(Of(k, b)') = n + 1
      /\ \A l, c : l # k \/ c # b => Of(l, c)' = Of(l, c)
  BY ExtendFacts
<1>2. /\ rows' = rows \cup {x} /\ now' = now /\ past' = past
      /\ k \in Keys /\ b \in Branches /\ Origin(k, v, from)
  BY <1>1 DEF Extends
<1>3. StoreTypeOK'
  <2>1. IsFiniteSet(rows')
    BY <1>2, FS_AddElement DEF StoreInv, StoreTypeOK
  <2>. QED
    BY <1>1, <1>2, <2>1 DEF StoreInv, StoreTypeOK
<1>4. \A r \in Of(k, b) : r.version \in 1..n
  BY <1>1, <1>2, Numbers
<1>5. rows \subseteq Row /\ now \in Nat /\ \A r \in Row : r.version \in Nat /\ r.at \in Nat
  <2>1. now \in 0..MaxClock /\ 0..MaxClock \subseteq Nat
    BY DEF StoreInv, StoreTypeOK
  <2>. QED
    BY <2>1 DEF StoreInv, StoreTypeOK, Row
<1>6. OneRowEach'
  <2>1. \A r \in rows : SameHistory(r, x) => r.version # x.version
    <3>1. \A r \in rows : SameHistory(r, x) => r \in Of(k, b)
      BY <1>1 DEF SameHistory, Of
    <3>. QED
      BY <1>1, <1>4, <3>1
  <2>2. \A r \in rows : SameHistory(x, r) => SameHistory(r, x)
    BY DEF SameHistory
  <2>. QED
    BY <1>2, <2>1, <2>2 DEF StoreInv, OneRowEach, SameHistory
<1>7. TimesAscend'
  <2>1. \A r \in rows : SameHistory(r, x) => ~(x.version <= r.version)
    <3>1. \A r \in rows : SameHistory(r, x) => r \in Of(k, b)
      BY <1>1 DEF SameHistory, Of
    <3>. QED
      BY <1>1, <1>4, <3>1
  <2>2. \A r \in rows : r.at <= now
    BY DEF StoreInv, TimesAscend
  <2>3. \A r, q \in rows : SameHistory(r, q) /\ q.version <= r.version => q.at <= r.at
    BY DEF StoreInv, TimesAscend
  <2>4. now <= now
    BY <1>5
  <2>. QED
    BY <1>1, <1>2, <2>1, <2>2, <2>3, <2>4 DEF TimesAscend, SameHistory
<1>8. VersionsChain'
  <2>1. ASSUME NEW h \in Histories
        PROVE  {r.version : r \in Of(h[1], h[2])'} = 1..Cardinality(Of(h[1], h[2])')
    <3>1. {r.version : r \in Of(h[1], h[2])} = 1..Cardinality(Of(h[1], h[2]))
      BY DEF StoreInv, VersionsChain
    <3>2. CASE h[1] = k /\ h[2] = b
      <4>1. {r.version : r \in Of(k, b) \cup {x}} = {r.version : r \in Of(k, b)} \cup {n + 1}
        BY <1>1
      <4>2. (1..n) \cup {n + 1} = 1..(n + 1)
        BY <1>1
      <4>. QED
        BY <1>1, <3>1, <3>2, <4>1, <4>2
    <3>3. CASE h[1] # k \/ h[2] # b
      BY <1>1, <3>1, <3>3
    <3>. QED
      BY <3>2, <3>3
  <2>2. \A l, c, m : Version(l, c, m) \subseteq Version(l, c, m)'
    BY <1>2 DEF Version, Of
  <2>3. ASSUME NEW r \in rows
        PROVE  /\ r.parent = r.version - 1
               /\ r.version > 1 => \E q \in Version(r.key, r.branch, r.parent)' : q.at <= r.at
               /\ r.provenance # Nobody =>
                    \E q \in Version(r.key, r.provenance[1], r.provenance[2])' : q.value = r.value
    BY <2>2 DEF StoreInv, VersionsChain
  <2>4. x.parent = x.version - 1
    BY <1>1
  <2>5. x.version > 1 => \E q \in Version(x.key, x.branch, x.parent)' : q.at <= x.at
    <3>1. SUFFICES ASSUME n \in 1..n PROVE \E q \in Version(k, b, n)' : q.at <= now
      BY <1>1
    <3>2. PICK q \in Of(k, b) : q.version = n
      BY <1>1, <1>2, <3>1, Numbers
    <3>3. q \in Version(k, b, n) /\ q \in rows
      BY <3>2 DEF Version, Of
    <3>. QED
      BY <2>2, <3>3 DEF StoreInv, TimesAscend
  <2>6. x.provenance # Nobody =>
            \E q \in Version(x.key, x.provenance[1], x.provenance[2])' : q.value = x.value
    BY <1>1, <1>2, <2>2 DEF Origin
  <2>. QED
    BY <1>2, <2>1, <2>3, <2>4, <2>5, <2>6 DEF VersionsChain
<1>. QED
  BY <1>3, <1>6, <1>7, <1>8 DEF StoreInv

\* Time and what leaves the store alone keep the table in order.
LEMMA TickKeeps ==
    ASSUME StoreInv, StoreTick \/ UNCHANGED storeVars
    PROVE  StoreInv'
<1>1. now \in 0..MaxClock /\ MaxClock \in Nat /\ now \in Nat
  BY StoreAssumption DEF StoreInv, StoreTypeOK
<1>2. rows' = rows
  BY DEF StoreTick, storeVars
<1>3. OneRowEach' /\ VersionsChain'
  <2>1. \A k, b : Of(k, b)' = Of(k, b)
    BY <1>2 DEF Of
  <2>2. \A k, b, n : Version(k, b, n)' = Version(k, b, n)
    BY <2>1 DEF Version
  <2>. QED
    BY <1>2, <2>1, <2>2 DEF StoreInv, OneRowEach, VersionsChain
<1>4. now' \in 0..MaxClock /\ now <= now'
  BY <1>1 DEF StoreTick, storeVars
<1>5. DOMAIN past' = {t \in 0..MaxClock : t < now'}
  <2>1. CASE UNCHANGED storeVars
    BY <2>1 DEF storeVars, StoreInv, StoreTypeOK
  <2>2. CASE StoreTick
    <3>1. DOMAIN past' = 0..now /\ now' = now + 1 /\ now < MaxClock
      BY <2>2 DEF StoreTick
    <3>2. 0..now = {t \in 0..MaxClock : t < now + 1}
      BY <1>1, <3>1
    <3>. QED
      BY <3>1, <3>2
  <2>. QED
    BY <2>1, <2>2
<1>6. StoreTypeOK'
  BY <1>2, <1>4, <1>5 DEF StoreInv, StoreTypeOK
<1>7. TimesAscend'
  <2>1. \A r \in rows : r.at \in 0..MaxClock /\ r.at <= now
    BY DEF StoreInv, StoreTypeOK, Row, TimesAscend
  <2>2. \A r \in rows : r.at <= now'
    <3>1. 0..MaxClock \subseteq Int
      OBVIOUS
    <3>. QED
      BY <1>1, <1>4, <2>1, <3>1
  <2>. QED
    BY <1>2, <2>2 DEF StoreInv, TimesAscend, SameHistory
<1>. QED
  BY <1>3, <1>6, <1>7 DEF StoreInv

-----------------------------------------------------------------------------
(* The past.                                                               *)

\* A snapshot of the past is made of the rows up to its time.
LEMMA SameRowsSameSnapshot ==
    ASSUME NEW t, \A k, b : UpTo(k, b, t)' = UpTo(k, b, t)
    PROVE  SnapshotAsOf(t)' = SnapshotAsOf(t)
<1>1. \A k, b : LatestAsOf(k, b, t)' = LatestAsOf(k, b, t)
  BY DEF LatestAsOf, Newest
<1>. QED
  BY <1>1 DEF SnapshotAsOf

\* What snapshot_asof() answers for a time gone by does not change: a row is written
\* with the time at which it is written.
LEMMA StoreStepKeepsTimeTravel ==
    ASSUME StoreInv, TimeTravel,
           \/ \E k, b, v, who, from : Extends(k, b, v, who, from)
           \/ StoreTick
           \/ UNCHANGED storeVars
    PROVE  TimeTravel'
<1>1. now \in Nat /\ MaxClock \in Nat /\ DOMAIN past = {t \in 0..MaxClock : t < now}
  BY StoreAssumption DEF StoreInv, StoreTypeOK
<1>2. ASSUME NEW k, NEW b, NEW v, NEW who, NEW from, Extends(k, b, v, who, from)
      PROVE  TimeTravel'
  <2>1. PICK x : x.at = now /\ rows' = rows \cup {x} /\ past' = past
    BY <1>2, ExtendFacts DEF Extends
  <2>2. ASSUME NEW t \in DOMAIN past PROVE SnapshotAsOf(t)' = past'[t]
    <3>1. t \in Nat /\ ~(now <= t)
      BY <1>1
    <3>2. \A l, c : UpTo(l, c, t)' = UpTo(l, c, t)
      BY <2>1, <3>1 DEF UpTo, Of
    <3>. QED
      BY <2>1, <3>2, SameRowsSameSnapshot DEF TimeTravel
  <2>. QED
    BY <2>1, <2>2 DEF TimeTravel
<1>3. CASE StoreTick
  <2>1. rows' = rows /\ past' = [t \in 0..now |-> IF t = now THEN Snapshot ELSE past[t]]
    BY <1>3 DEF StoreTick
  <2>2. \A t : SnapshotAsOf(t)' = SnapshotAsOf(t)
    <3>1. \A t, k, b : UpTo(k, b, t)' = UpTo(k, b, t)
      BY <2>1 DEF UpTo, Of
    <3>. QED
      BY <3>1, SameRowsSameSnapshot
  <2>3. SnapshotAsOf(now) = Snapshot
    <3>1. \A k, b : UpTo(k, b, now) = Of(k, b)
      BY DEF UpTo, Of, StoreInv, TimesAscend
    <3>. QED
      BY <3>1 DEF SnapshotAsOf, LatestAsOf, Snapshot, Latest
  <2>4. ASSUME NEW t \in DOMAIN past' PROVE SnapshotAsOf(t)' = past'[t]
    <3>1. t \in 0..now /\ (t # now => t \in DOMAIN past)
      <4>1. t \in 0..now
        BY <2>1
      <4>2. t # now => t \in 0..MaxClock /\ t < now
        BY <1>1, <1>3, <4>1 DEF StoreTick
      <4>. QED
        BY <1>1, <4>1, <4>2
    <3>2. t # now => SnapshotAsOf(t) = past[t]
      BY <3>1 DEF TimeTravel
    <3>. QED
      BY <2>1, <2>2, <2>3, <3>1, <3>2
  <2>. QED
    BY <2>4 DEF TimeTravel
<1>4. CASE UNCHANGED storeVars
  <2>1. rows' = rows /\ past' = past
    BY <1>4 DEF storeVars
  <2>2. \A t : SnapshotAsOf(t)' = SnapshotAsOf(t)
    <3>1. \A t, k, b : UpTo(k, b, t)' = UpTo(k, b, t)
      BY <2>1 DEF UpTo, Of
    <3>. QED
      BY <3>1, SameRowsSameSnapshot
  <2>. QED
    BY <2>1, <2>2 DEF TimeTravel
<1>. QED
  BY <1>2, <1>3, <1>4

-----------------------------------------------------------------------------
(* The log.                                                                *)

\* The row that holds a version of a history is the only one.
LEMMA OnlyVersion ==
    ASSUME StoreInv, NEW h \in Histories, NEW r \in Of(h[1], h[2])
    PROVE  ValueOf(h, r.version) = r.value
<1>1. r \in Version(h[1], h[2], r.version)
  BY DEF Version
<1>2. \A q \in Version(h[1], h[2], r.version) : q = r
  BY DEF Version, Of, StoreInv, OneRowEach, SameHistory
<1>. QED
  BY <1>1, <1>2 DEF ValueOf

\* The log of a history is as long as the history, and holds values.
LEMMA LogType ==
    ASSUME StoreInv, NEW h \in Histories
    PROVE  /\ LogOf[h] = [n \in 1..Cardinality(Of(h[1], h[2])) |-> ValueOf(h, n)]
           /\ LogOf[h] \in Seq(Values)
           /\ Len(LogOf[h]) = Cardinality(Of(h[1], h[2]))
<1>. DEFINE n == Cardinality(Of(h[1], h[2]))
<1>1. n \in Nat
  BY OfFinite DEF StoreInv
<1>2. h[1] \in Keys /\ h[2] \in Branches
  BY DEF Histories
<1>3. \A m \in 1..n : ValueOf(h, m) \in Values
  <2>1. ASSUME NEW m \in 1..n PROVE ValueOf(h, m) \in Values
    <3>1. PICK r \in Of(h[1], h[2]) : r.version = m
      BY <1>2, Numbers
    <3>2. r.value \in Values
      BY DEF Of, StoreInv, StoreTypeOK, Row
    <3>. QED
      BY <3>1, <3>2, OnlyVersion
  <2>. QED
    BY <2>1
<1>4. LogOf[h] = [m \in 1..n |-> ValueOf(h, m)]
  BY DEF LogOf
<1>. HIDE DEF n
<1>. QED
  BY <1>1, <1>3, <1>4 DEF n

\* A new row is a value at the end of one history.
LEMMA ExtendStores ==
    ASSUME StoreInv, NEW k, NEW b, NEW v, NEW who, NEW from, Extends(k, b, v, who, from)
    PROVE  LogOf' = [LogOf EXCEPT ![<<k, b>>] = Append(@, v)]
<1>1. PICK n, x :
      /\ n = Cardinality(Of(k, b)) /\ n \in Nat /\ x \notin rows
      /\ x.version = n + 1 /\ x.value = v
      /\ Of(k, b)' = Of(k, b) \cup {x} /\ Cardinality(Of(k, b)') = n + 1
      /\ \A l, c : l # k \/ c # b => Of(l, c)' = Of(l, c)
  BY ExtendFacts
<1>2. k \in Keys /\ b \in Branches
  BY DEF Extends
<1>. DEFINE g == <<k, b>>
<1>4. g \in Histories /\ g[1] = k /\ g[2] = b
  BY <1>2 DEF Histories
<1>5. ASSUME NEW h \in Histories, h # g PROVE LogOf'[h] = LogOf[h]
  <2>1. Of(h[1], h[2])' = Of(h[1], h[2])
    <3>1. h = <<h[1], h[2]>>
      BY DEF Histories
    <3>. QED
      BY <1>1, <1>5, <3>1
  <2>2. \A m : ValueOf(h, m)' = ValueOf(h, m)
    BY <2>1 DEF ValueOf, Version
  <2>. QED
    BY <2>1, <2>2 DEF LogOf
<1>6. LogOf'[g] = Append(LogOf[g], v)
  <2>1. LogOf'[g] = [m \in 1..(n + 1) |-> ValueOf(g, m)']
    BY <1>1, <1>4 DEF LogOf
  <2>2. LogOf[g] = [m \in 1..n |-> ValueOf(g, m)] /\ LogOf[g] \in Seq(Values) /\ Len(LogOf[g]) = n
    BY <1>1, <1>4, LogType
  <2>3. ValueOf(g, n + 1)' = v
    <3>1. \A r \in Of(k, b) : r.version # n + 1
      BY <1>1, <1>2, Numbers
    <3>2. {r \in Of(k, b)' : r.version = n + 1} = {x}
      BY <1>1, <3>1
    <3>3. Version(g[1], g[2], n + 1)' = {x}
      BY <1>4, <3>2 DEF Version
    <3>. QED
      BY <1>1, <3>3 DEF ValueOf
  <2>4. ASSUME NEW m \in 1..n PROVE ValueOf(g, m)' = ValueOf(g, m)
    <3>1. m # n + 1
      BY <1>1
    <3>2. Version(k, b, m)' = Version(k, b, m)
      BY <1>1, <3>1 DEF Version
    <3>. QED
      BY <1>4, <3>2 DEF ValueOf
  <2>5. \A s \in Seq(Values) :
           Len(s) = n => Append(s, v) = [m \in 1..(n + 1) |-> IF m = n + 1 THEN v ELSE s[m]]
    <3>1. v \in Values
      BY DEF Extends
    <3>. QED
      BY <1>1, <3>1, AppendIsFunction
  <2>6. \A m \in 1..(n + 1) : m # n + 1 => m \in 1..n
    BY <1>1
  <2>7. Append(LogOf[g], v) = [m \in 1..(n + 1) |-> IF m = n + 1 THEN v ELSE LogOf[g][m]]
    BY <2>2, <2>5
  <2>8. \A m \in 1..(n + 1) :
           ValueOf(g, m)' = IF m = n + 1 THEN v ELSE LogOf[g][m]
    <3>1. \A m \in 1..n : LogOf[g][m] = ValueOf(g, m)
      BY <2>2
    <3>. QED
      BY <2>3, <2>4, <2>6, <3>1
  <2>. HIDE DEF g
  <2>. QED
    BY <2>1, <2>7, <2>8
<1>. QED
  BY <1>4, <1>5, <1>6 DEF LogOf

-----------------------------------------------------------------------------
(* The store by itself.                                                    *)

\* An empty table is in order.
LEMMA StoreStarts ==
    ASSUME StoreInit
    PROVE  StoreInv /\ TimeTravel /\ Promise!LogInit
<1>1. rows = {} /\ now = 0 /\ past = <<>> /\ MaxClock \in Nat /\ \A k, b : Of(k, b) = {}
  BY StoreAssumption DEF StoreInit, Of
<1>2. Cardinality({}) = 0 /\ IsFiniteSet({})
  BY FS_EmptySet
<1>3. DOMAIN past = {}
  BY <1>1
<1>4. StoreTypeOK
  BY <1>1, <1>2, <1>3 DEF StoreTypeOK
<1>5. VersionsChain
  <2>1. {r.version : r \in {}} = 1..0
    OBVIOUS
  <2>. QED
    BY <1>1, <1>2, <2>1 DEF VersionsChain
<1>6. OneRowEach /\ TimesAscend /\ TimeTravel
  BY <1>1, <1>3 DEF OneRowEach, TimesAscend, TimeTravel
<1>7. Promise!LogInit
  <2>1. \A h \in Histories : LogOf[h] = [n \in 1..0 |-> ValueOf(h, n)]
    BY <1>1, <1>2 DEF LogOf
  <2>2. \A h \in Histories : [n \in 1..0 |-> ValueOf(h, n)] = <<>>
    OBVIOUS
  <2>. QED
    BY <2>1, <2>2 DEF Promise!LogInit, LogOf
<1>. QED
  BY <1>4, <1>5, <1>6, <1>7 DEF StoreInv

\* One new row, a tick of the clock, or nothing: the table stays in order, the past
\* stays what it was, and the log gets one value or none.
LEMMA StoreSteps ==
    ASSUME StoreInv, TimeTravel,
           \/ \E k, b, v, who, from : Extends(k, b, v, who, from)
           \/ StoreTick
           \/ UNCHANGED storeVars
    PROVE  StoreInv' /\ TimeTravel' /\ (Promise!LogNext \/ UNCHANGED LogOf)
<1>1. TimeTravel'
  BY StoreStepKeepsTimeTravel
<1>2. ASSUME NEW k, NEW b, NEW v, NEW who, NEW from, Extends(k, b, v, who, from)
      PROVE  StoreInv' /\ Promise!LogNext
  <2>1. <<k, b>> \in Histories /\ v \in Values
    BY <1>2 DEF Extends, Histories
  <2>2. LogOf' = [LogOf EXCEPT ![<<k, b>>] = Append(@, v)]
    BY <1>2, ExtendStores
  <2>3. Promise!Store(<<k, b>>, v)
    BY <2>2 DEF Promise!Store
  <2>. QED
    BY <1>2, <2>1, <2>3, ExtendKeeps DEF Promise!LogNext
<1>3. CASE StoreTick \/ UNCHANGED storeVars
  <2>1. rows' = rows
    BY <1>3 DEF StoreTick, storeVars
  <2>2. \A k, b : Of(k, b)' = Of(k, b)
    BY <2>1 DEF Of
  <2>3. \A h, n : ValueOf(h, n)' = ValueOf(h, n)
    BY <2>2 DEF ValueOf, Version
  <2>4. LogOf' = LogOf
    BY <2>2, <2>3 DEF LogOf
  <2>. QED
    BY <1>1, <1>3, <2>4, TickKeeps
<1>. QED
  BY <1>1, <1>2, <1>3

\* Whatever agents write, roll back and branch, the versions of every history are
\* 1..n, each naming the one before it, and a branch point names the row it was
\* copied from (69-92, 136-176).
THEOREM StoreKeepsTheChain == StoreSpec => [](StoreTypeOK /\ VersionsChain)
<1>1. StoreInit => StoreInv /\ TimeTravel
  BY StoreStarts
<1>2. StoreInv /\ TimeTravel /\ [StoreNext]_storeVars => StoreInv' /\ TimeTravel'
  BY StoreSteps, WriteByExtends DEF StoreNext
<1>3. StoreInv => StoreTypeOK /\ VersionsChain
  BY DEF StoreInv
<1>. QED
  BY <1>1, <1>2, <1>3, PTL DEF StoreSpec

\* What snapshot_asof() answers for a time gone by is what snapshot() answered then
\* (179-205).
THEOREM StoreRemembersThePast == StoreSpec => []TimeTravel
<1>1. StoreInit => StoreInv /\ TimeTravel
  BY StoreStarts
<1>2. StoreInv /\ TimeTravel /\ [StoreNext]_storeVars => StoreInv' /\ TimeTravel'
  BY StoreSteps, WriteByExtends DEF StoreNext
<1>. QED
  BY <1>1, <1>2, PTL DEF StoreSpec

\* The table implements the append-only log: every step is one value stored at the
\* end of one history, or no change of the log (69-92, 136-176).
THEOREM StoreImplementsLog == StoreSpec => ImplementsLog
<1>1. StoreInit => StoreInv /\ TimeTravel /\ Promise!LogInit
  BY StoreStarts
<1>2. StoreInv /\ TimeTravel /\ [StoreNext]_storeVars
         => StoreInv' /\ TimeTravel' /\ [Promise!LogNext]_LogOf
  BY StoreSteps, WriteByExtends DEF StoreNext
<1>. QED
  BY <1>1, <1>2, PTL DEF StoreSpec, ImplementsLog, Promise!LogSpec

-----------------------------------------------------------------------------
(* What a fusion has read.                                                 *)

\* The branches are read in order; of the one being read, the keys in toRead are
\* still to come.
HasRead(k, b) == \E i \in 1..listed : b = Sources[i] /\ (i = listed => k \notin toRead)

KeysFound == {e.key : e \in found}

StandsRight ==
    /\ at = "idle" => listed = 0 /\ found = {} /\ toFuse = {}
    /\ at # "read" => toRead = {}
    /\ at = "read" => listed # 0
    /\ at \in {"list", "read"} => toFuse = KeysFound
    /\ at \in {"fuse", "write"} => listed = Len(Sources)
    /\ at = "write" => toFuse # {}
    /\ toFuse \subseteq KeysFound

OneEntryEach ==
    /\ \A e \in found : HasRead(e.key, e.branch)
    /\ \A e, f \in found : SameHistory(e, f) => e = f

\* For every row that was there when the fusion began there is an entry of the same
\* history that is no older, once the history has been read.
KnowsWhatBegan ==
    \A r \in began : HasRead(r.key, r.branch) =>
        \E e \in found : SameHistory(e, r) /\ r.version <= e.version

ReadInv == /\ StoreInv /\ FusionTypeOK
           /\ StandsRight /\ OneEntryEach /\ KnowsWhatBegan

-----------------------------------------------------------------------------
(* What a fusion nobody disturbed leaves.                                  *)

\* e is the last row of its history in the table R.
IsLatest(R, e) == e \in R /\ \A q \in R : SameHistory(q, e) => q.version <= e.version

\* What fuse() would read for k if R was the table throughout.
EntriesIn(R, k) == {e \in R : e.key = k /\ e.branch \in SourceSet /\ IsLatest(R, e)}

\* The target holds what every key would be fused to.
Agrees(R) ==
    \A k \in Keys : EntriesIn(R, k) # {} =>
        \E e \in R : /\ e.key = k /\ e.branch = Target /\ IsLatest(R, e)
                     /\ e.value = ValueOfAll(EntriesIn(R, k))

WhileUndisturbed ==
    at # "idle" /\ Undisturbed =>
        /\ found = {e \in began : IsLatest(began, e) /\ HasRead(e.key, e.branch)}
        /\ \A r \in rows \ began : /\ r.branch = Target /\ r.key \in KeysFound \ toFuse
                                   /\ at \in {"fuse", "write"}
        /\ at \in {"fuse", "write"} =>
              \A k \in KeysFound \ toFuse :
                  Unchanged(k) /\ ValueOfAll(EntriesIn(rows, k)) = FusedValue(k)

QuietInv == /\ WhileUndisturbed
            /\ at = "write" /\ rows = began => ~Unchanged(Min(toFuse))
            /\ settled # {} => Agrees(settled)

-----------------------------------------------------------------------------
(* Winners exist, and so do last entries.                                  *)

Beats(e, f) == Newer(e, f) \/ (~Newer(f, e) /\ Earlier(e, f))

Entry(e) == e.at \in Nat /\ e.version \in Nat /\ e.branch \in SourceSet /\ e.value \in Values

\* What the branches may offer for one key.
Contenders(E) == /\ IsFiniteSet(E) /\ E # {}
                 /\ \A e \in E : Entry(e)
                 /\ \A e, f \in E : e.branch = f.branch => e = f

\* A source branch has one place in the order of the branches.
LEMMA Positions ==
    ASSUME NEW b \in SourceSet, NEW c \in SourceSet
    PROVE  /\ Position(b) \in Nat
           /\ b # c => Position(b) < Position(c) \/ Position(c) < Position(b)
<1>1. \A d \in SourceSet : Position(d) \in 1..Len(Sources) /\ Sources[Position(d)] = d
  BY DEF SourceSet, Position
<1>2. Len(Sources) \in Nat
  BY FusionAssumption
<1>3. Position(b) \in Nat /\ Position(c) \in Nat
  BY <1>1, <1>2
<1>4. b # c => Position(b) # Position(c)
  BY <1>1
<1>. QED
  BY <1>3, <1>4

\* Of two entries of different branches one beats the other.
LEMMA OneBeats ==
    ASSUME NEW e, NEW f, Entry(e), Entry(f)
    PROVE  /\ ~(Beats(e, f) /\ Beats(f, e))
           /\ e.branch # f.branch => Beats(e, f) \/ Beats(f, e)
<1>1. /\ Position(e.branch) \in Nat /\ Position(f.branch) \in Nat
      /\ e.branch # f.branch => \/ Position(e.branch) < Position(f.branch)
                                \/ Position(f.branch) < Position(e.branch)
  BY Positions DEF Entry
<1>. QED
  BY <1>1 DEF Entry, Beats, Newer, Earlier

\* What beats a winner beats the beaten.
LEMMA BeatsIsTransitive ==
    ASSUME NEW e, NEW f, NEW g, Entry(e), Entry(f), Entry(g), Beats(e, f), Beats(f, g)
    PROVE  Beats(e, g)
<1>1. Position(e.branch) \in Nat /\ Position(f.branch) \in Nat /\ Position(g.branch) \in Nat
  BY Positions DEF Entry
<1>. QED
  BY <1>1 DEF Entry, Beats, Newer, Earlier

\* max() over the entries of a key answers the one that beats all others, and only that.
LEMMA WinnerFacts ==
    ASSUME NEW E, Contenders(E)
    PROVE  /\ Winner(E) \in E
           /\ \A f \in E : f = Winner(E) \/ Beats(Winner(E), f)
           /\ \A w \in E : (\A f \in E : f = w \/ Beats(w, f)) => w = Winner(E)
<1>. DEFINE R == {r \in E \X E : Beats(r[1], r[2])}
<1>1. \A e, f \in E : e = f \/ <<e, f>> \in R \/ <<f, e>> \in R
  BY OneBeats DEF Contenders
<1>2. \A e, f, g \in E : <<e, f>> \in R /\ <<f, g>> \in R => <<e, g>> \in R
  BY BeatsIsTransitive DEF Contenders
<1>3. \E m \in E : \A f \in E \ {m} : <<m, f>> \in R
  <2>. HIDE DEF R
  <2>. QED
    BY <1>1, <1>2, FirstInOrder DEF Contenders
<1>4. \E m \in E : \A f \in E : f = m \/ Beats(m, f)
  BY <1>3
<1>5. Winner(E) = CHOOSE e \in E : \A f \in E : f = e \/ Beats(e, f)
  BY DEF Winner, Beats
<1>6. Winner(E) \in E /\ \A f \in E : f = Winner(E) \/ Beats(Winner(E), f)
  BY <1>4, <1>5
<1>7. ASSUME NEW w \in E, \A f \in E : f = w \/ Beats(w, f)
      PROVE  w = Winner(E)
  BY <1>6, <1>7, OneBeats DEF Contenders
<1>. QED
  BY <1>6, <1>7

\* The last of the entries is the one that is earlier than none, and only that.
LEMMA LastFacts ==
    ASSUME NEW E, Contenders(E)
    PROVE  /\ LastOf(E) \in E
           /\ \A f \in E : ~Earlier(LastOf(E), f)
           /\ \A w \in E : (\A f \in E : ~Earlier(w, f)) => w = LastOf(E)
<1>. DEFINE R == {r \in E \X E : Earlier(r[2], r[1])}
<1>1. \A e \in E : Position(e.branch) \in Nat
  BY Positions DEF Contenders, Entry
<1>2. \A e, f \in E : e = f \/ Earlier(e, f) \/ Earlier(f, e)
  BY Positions DEF Contenders, Entry, Earlier
<1>3. \A e, f \in E : e = f \/ <<e, f>> \in R \/ <<f, e>> \in R
  BY <1>2
<1>4. \A e, f, g \in E : <<e, f>> \in R /\ <<f, g>> \in R => <<e, g>> \in R
  BY <1>1 DEF Earlier
<1>5. \E m \in E : \A f \in E \ {m} : <<m, f>> \in R
  <2>. HIDE DEF R
  <2>. QED
    BY <1>3, <1>4, FirstInOrder DEF Contenders
<1>6. \E m \in E : \A f \in E : ~Earlier(m, f)
  <2>1. PICK m \in E : \A f \in E \ {m} : Earlier(f, m)
    BY <1>5
  <2>2. ASSUME NEW f \in E PROVE ~Earlier(m, f)
    BY <1>1, <2>1 DEF Earlier
  <2>. QED
    BY <2>1, <2>2
<1>7. LastOf(E) \in E /\ \A f \in E : ~Earlier(LastOf(E), f)
  BY <1>6 DEF LastOf
<1>. QED
  BY <1>2, <1>7

\* The entries that have a leaf are contenders themselves.
LEMMA LeavesContend ==
    ASSUME NEW E, Contenders(E), NEW p, WithLeaf(E, p) # {}
    PROVE  Contenders(WithLeaf(E, p))
<1>1. WithLeaf(E, p) \in SUBSET E
  BY DEF WithLeaf
<1>. QED
  BY <1>1, FS_Subset DEF Contenders

\* What a key is fused to is a document.
LEMMA FusedIsValue ==
    ASSUME NEW E, Contenders(E)
    PROVE  ValueOfAll(E) \in Values
<1>1. Winner(E).value \in Values
  BY WinnerFacts DEF Contenders, Entry
<1>2. ASSUME NEW p \in Paths, WithLeaf(E, p) # {}
      PROVE  LastOf(WithLeaf(E, p)).value[p] \in Contents
  <2>1. LastOf(WithLeaf(E, p)) \in WithLeaf(E, p)
    BY <1>2, LeavesContend, LastFacts
  <2>. QED
    BY <2>1 DEF WithLeaf, Contenders, Entry, Values
<1>3. Merged(E) \in Values
  BY <1>2 DEF Merged, Values
<1>. QED
  BY <1>1, <1>3 DEF ValueOfAll

\* Once the target holds what the entries were fused to, as its newest row, fusing
\* again gives the same: the new row wins, or whoever won before.
LEMMA FusedAgain ==
    ASSUME NEW E, NEW D, NEW x, Contenders(E), Contenders(D),
           D = {e \in E : e.branch # x.branch} \cup {x}, x.value = ValueOfAll(E),
           \A e \in E : e.at <= x.at,
           \A e \in E : e.branch = x.branch => e.version < x.version
    PROVE  ValueOfAll(D) = ValueOfAll(E)
<1>1. Entry(x) /\ \A e \in E : Entry(e)
  BY DEF Contenders
<1>2. CASE strategy = "newest"
  <2>. DEFINE w == Winner(D)
  <2>1. w \in D /\ \A f \in D : f = w \/ Beats(w, f)
    BY WinnerFacts
  <2>2. ValueOfAll(E) = Winner(E).value /\ ValueOfAll(D) = w.value
    BY <1>2 DEF ValueOfAll
  <2>3. CASE w = x
    BY <2>2, <2>3
  <2>4. CASE w # x
    <3>1. w \in E /\ w.branch # x.branch /\ Beats(w, x)
      BY <2>1, <2>4
    <3>2. ASSUME NEW f \in E, f.branch = x.branch PROVE Beats(w, f)
      <4>1. w.at <= x.at /\ f.at <= x.at /\ f.version < x.version
        BY <3>1, <3>2
      <4>2. Earlier(w, x) <=> Earlier(w, f)
        BY <3>2 DEF Earlier
      <4>3. Entry(w) /\ Entry(f)
        BY <1>1, <3>1
      <4>. QED
        BY <1>1, <3>1, <4>1, <4>2, <4>3 DEF Beats, Newer, Entry
    <3>3. \A f \in E : f = w \/ Beats(w, f)
      BY <2>1, <3>2
    <3>. QED
      BY <2>2, <3>1, <3>3, WinnerFacts
  <2>. QED
    BY <2>3, <2>4
<1>3. CASE strategy # "newest"
  <2>1. ValueOfAll(E) = Merged(E) /\ ValueOfAll(D) = Merged(D)
    BY <1>3 DEF ValueOfAll
  <2>2. ASSUME NEW p \in Paths PROVE Merged(D)[p] = Merged(E)[p]
    <3>. DEFINE F == WithLeaf(E, p)
                G == WithLeaf(D, p)
                l == LastOf(F)
    <3>1. x.value[p] = Merged(E)[p]
      BY <2>1
    <3>2. CASE F = {}
      <4>1. Merged(E)[p] = Absent
        BY <3>2 DEF Merged
      <4>2. G = {}
        BY <3>1, <3>2, <4>1 DEF WithLeaf
      <4>. QED
        BY <4>1, <4>2 DEF Merged
    <3>3. CASE F # {}
      <4>1. Merged(E)[p] = l.value[p]
        BY <3>3 DEF Merged
      <4>2. l \in E /\ l.value[p] # Absent /\ \A f \in F : ~Earlier(l, f)
        <5>1. l \in F /\ \A f \in F : ~Earlier(l, f)
          BY <3>3, LeavesContend, LastFacts
        <5>. QED
          BY <5>1 DEF WithLeaf
      <4>3. x \in G
        BY <3>1, <4>1, <4>2 DEF WithLeaf
      <4>4. \A f \in G : f = x \/ f \in F
        BY DEF WithLeaf
      <4>5. /\ Position(x.branch) \in Nat /\ Position(l.branch) \in Nat
            /\ \A f \in F : Position(f.branch) \in Nat
        BY <1>1, <4>2, Positions DEF Entry, WithLeaf
      <4>. HIDE DEF F, l
      <4>6. PICK m \in G : m.value[p] = l.value[p] /\ \A f \in G : ~Earlier(m, f)
        <5>1. CASE Earlier(x, l)
          <6>1. l.branch # x.branch
            BY <4>5, <5>1 DEF Earlier
          <6>2. l \in G
            BY <4>2, <6>1 DEF WithLeaf
          <6>3. ~Earlier(l, x)
            BY <4>5, <5>1 DEF Earlier
          <6>. QED
            BY <4>2, <4>4, <6>2, <6>3
        <5>2. CASE ~Earlier(x, l)
          <6>1. \A f \in F : ~Earlier(x, f)
            BY <4>2, <4>5, <5>2 DEF Earlier
          <6>2. ~Earlier(x, x)
            BY <4>5 DEF Earlier
          <6>. QED
            BY <3>1, <4>1, <4>3, <4>4, <6>1, <6>2
        <5>. QED
          BY <5>1, <5>2
      <4>7. m = LastOf(G)
        BY <4>3, <4>6, LeavesContend, LastFacts
      <4>8. Merged(D)[p] = m.value[p]
        BY <4>3, <4>7 DEF Merged
      <4>. QED
        BY <4>1, <4>6, <4>8
    <3>. QED
      BY <3>2, <3>3
  <2>. QED
    BY <2>1, <2>2 DEF Merged
<1>. QED
  BY <1>2, <1>3

-----------------------------------------------------------------------------
(* Every step of fuse() and of the others keeps what has been read in      *)
(* order.                                                                  *)

\* A history that is not empty has one latest row.
LEMMA LatestFacts ==
    ASSUME StoreInv, NEW k \in Keys, NEW b \in Branches, Of(k, b) # {}
    PROVE  \E r \in Of(k, b) : /\ Latest(k, b) = {r}
                               /\ \A q \in Of(k, b) : q.version <= r.version
<1>. DEFINE n == Cardinality(Of(k, b))
<1>1. n \in Nat
  BY OfFinite DEF StoreInv
<1>2. \A q \in Of(k, b) : q.version \in 1..n
  BY Numbers
<1>3. n \in 1..n
  BY <1>1, <1>2
<1>4. PICK r \in Of(k, b) : r.version = n
  BY <1>3, Numbers
<1>5. \A q \in Of(k, b) : q.version <= r.version /\ (r.version <= q.version => q = r)
  <2>1. \A q \in Of(k, b) : q.version = n => q = r
    BY <1>4 DEF Of, StoreInv, OneRowEach, SameHistory
  <2>. QED
    BY <1>1, <1>2, <1>4, <2>1
<1>. QED
  BY <1>5 DEF Latest, Newest

\* A row is the only entry of its history in what has been read for a key.
LEMMA EntriesContend ==
    ASSUME ReadInv, NEW k, Entries(k) # {}
    PROVE  Contenders(Entries(k))
<1>1. IsFiniteSet(Entries(k))
  <2>1. Entries(k) \in SUBSET rows /\ IsFiniteSet(rows)
    BY DEF Entries, ReadInv, FusionTypeOK, StoreInv, StoreTypeOK
  <2>. QED
    BY <2>1, FS_Subset
<1>2. \A e \in Entries(k) : e \in found /\ e.key = k
  BY DEF Entries
<1>3. \A e \in found : Entry(e)
  <2>1. \A e \in found : e \in Row /\ e.branch \in SourceSet
    BY DEF ReadInv, FusionTypeOK, StoreInv, StoreTypeOK
  <2>2. 0..MaxClock \subseteq Nat
    OBVIOUS
  <2>. QED
    BY <2>1, <2>2 DEF Row, Entry
<1>4. \A e, f \in Entries(k) : e.branch = f.branch => e = f
  BY <1>2 DEF ReadInv, OneEntryEach, SameHistory
<1>. QED
  BY <1>1, <1>2, <1>3, <1>4 DEF Contenders

\* The next key to fuse is one of those left, and there are entries for it.
LEMMA NextKey ==
    ASSUME ReadInv, toFuse # {}
    PROVE  /\ Min(toFuse) \in toFuse /\ Min(toFuse) \in Keys
           /\ Contenders(Entries(Min(toFuse)))
<1>. DEFINE R == {r \in toFuse \X toFuse : r[1] <= r[2]}
<1>1. toFuse \subseteq Keys /\ toFuse \subseteq KeysFound /\ toFuse \subseteq Nat
  BY StoreAssumption DEF ReadInv, FusionTypeOK, StandsRight
<1>2. IsFiniteSet(toFuse)
  <2>1. IsFiniteSet(found)
    <3>1. found \in SUBSET rows /\ IsFiniteSet(rows)
      BY DEF ReadInv, FusionTypeOK, StoreInv, StoreTypeOK
    <3>. QED
      BY <3>1, FS_Subset
  <2>2. IsFiniteSet(KeysFound)
    <3>. DEFINE f == [e \in found |-> e.key]
    <3>1. f \in Surjection(found, KeysFound)
      BY DEF Surjection, KeysFound
    <3>. HIDE DEF f
    <3>. QED
      BY <2>1, <3>1, FS_Surjection
  <2>. QED
    BY <1>1, <2>2, FS_Subset
<1>3. \A x, y \in toFuse : x = y \/ <<x, y>> \in R \/ <<y, x>> \in R
  BY <1>1
<1>4. \A x, y, z \in toFuse : <<x, y>> \in R /\ <<y, z>> \in R => <<x, z>> \in R
  BY <1>1
<1>5. \E m \in toFuse : \A n \in toFuse \ {m} : <<m, n>> \in R
  <2>. HIDE DEF R
  <2>. QED
    BY <1>2, <1>3, <1>4, FirstInOrder
<1>6. \E m \in toFuse : \A n \in toFuse : m <= n
  <2>1. PICK m \in toFuse : \A n \in toFuse \ {m} : m <= n
    BY <1>5
  <2>2. m <= m
    BY <1>1
  <2>. QED
    BY <2>1, <2>2
<1>7. Min(toFuse) \in toFuse
  BY <1>6 DEF Min
<1>8. Entries(Min(toFuse)) # {}
  BY <1>1, <1>7 DEF KeysFound, Entries
<1>. QED
  BY <1>1, <1>7, <1>8, EntriesContend

\* What a step does to the table while a fusion stands where it stands: the fuser
\* stores what the next key is fused to, the others one row of theirs.
LEMMA FusionToStore ==
    ASSUME ReadInv, FusionNext
    PROVE  \/ /\ WriteFused
              /\ Extends(Min(toFuse), Target, FusedValue(Min(toFuse)), Fuser, Nobody)
           \/ (\E k, b, v, from, who : who \in Writers /\ Extends(k, b, v, who, from)) /\ UNCHANGED fuseVars
           \/ StoreTick /\ UNCHANGED fuseVars
           \/ Begin \/ ListKeys \/ ReadEntry \/ AllRead \/ CompareTarget \/ Finish
<1>1. CASE WriteFused
  <2>1. toFuse # {}
    BY <1>1 DEF WriteFused, ReadInv, StandsRight
  <2>2. Min(toFuse) \in Keys /\ FusedValue(Min(toFuse)) \in Values
    BY <2>1, NextKey, FusedIsValue DEF FusedValue
  <2>3. Fuser \in Agents /\ Target \in Branches
    BY FusionAssumption
  <2>. QED
    BY <1>1, <2>2, <2>3, WriteExtends DEF WriteFused, ReadInv
<1>2. CASE Others
  <2>1. Writers \subseteq Agents
    BY FusionAssumption
  <2>2. ASSUME NEW who \in Writers, WriteBy(who)
        PROVE  \E k, b, v, from : Extends(k, b, v, who, from)
    BY <2>1, <2>2, WriteByExtends DEF ReadInv
  <2>. QED
    BY <1>2, <2>2 DEF Others
<1>. QED
  BY <1>1, <1>2 DEF FusionNext, Fuse

\* The table stays in order whatever the fusion and the others do.
LEMMA FusionSteps ==
    ASSUME ReadInv, TimeTravel, [FusionNext]_allVars
    PROVE  /\ StoreInv' /\ TimeTravel' /\ (Promise!LogNext \/ UNCHANGED LogOf)
           /\ rows \subseteq rows'
<1>1. CASE FusionNext
  <2>1. \/ \E k, b, v, who, from : Extends(k, b, v, who, from)
        \/ StoreTick
        \/ UNCHANGED storeVars
    <3>1. Begin \/ ListKeys \/ ReadEntry \/ AllRead \/ CompareTarget \/ Finish => UNCHANGED storeVars
      BY DEF Begin, ListKeys, ReadEntry, AllRead, CompareTarget, Finish, storeVars
    <3>. QED
      BY <1>1, <3>1, FusionToStore
  <2>2. rows \subseteq rows'
    BY <2>1 DEF Extends, StoreTick, storeVars
  <2>. QED
    BY <2>1, <2>2, StoreSteps DEF ReadInv
<1>2. CASE UNCHANGED allVars
  BY <1>2, StoreSteps DEF ReadInv, allVars, storeVars
<1>. QED
  BY <1>1, <1>2

\* A step that leaves what fuse() holds alone keeps it in order.
LEMMA ReadKeptByOthers ==
    ASSUME ReadInv, StoreInv', rows \subseteq rows', UNCHANGED fuseVars
    PROVE  ReadInv'
<1>1. UNCHANGED <<strategy, at, listed, toRead, found, toFuse, began, settled>>
  BY DEF fuseVars
<1>2. FusionTypeOK'
  BY <1>1 DEF ReadInv, FusionTypeOK, StoreInv
<1>3. StandsRight' /\ OneEntryEach' /\ KnowsWhatBegan'
  BY <1>1 DEF ReadInv, StandsRight, OneEntryEach, KnowsWhatBegan, HasRead, KeysFound
<1>. QED
  BY <1>2, <1>3 DEF ReadInv

\* The steps that read nothing.
LEMMA ReadKeptByTheRest ==
    ASSUME ReadInv, StoreInv', rows \subseteq rows',
           Begin \/ AllRead \/ CompareTarget \/ WriteFused \/ Finish
    PROVE  ReadInv'
<1>1. StandsRight /\ OneEntryEach /\ KnowsWhatBegan /\ FusionTypeOK
  BY DEF ReadInv
<1>2. CASE Begin
  <2>1. \A k, b : ~HasRead(k, b)'
    BY <1>1, <1>2 DEF Begin, StandsRight, HasRead
  <2>2. FusionTypeOK'
    BY <1>1, <1>2 DEF Begin, FusionTypeOK, StoreInv
  <2>3. StandsRight'
    BY <1>1, <1>2 DEF Begin, StandsRight, KeysFound
  <2>4. OneEntryEach'
    BY <1>1, <1>2 DEF Begin, OneEntryEach, StandsRight
  <2>5. KnowsWhatBegan'
    BY <2>1 DEF KnowsWhatBegan
  <2>. QED
    BY <2>2, <2>3, <2>4, <2>5 DEF ReadInv
<1>3. CASE AllRead \/ CompareTarget \/ WriteFused
  <2>1. UNCHANGED <<strategy, listed, toRead, found, began, settled>>
    BY <1>3 DEF AllRead, CompareTarget, WriteFused
  <2>2. \A k, b : HasRead(k, b)' <=> HasRead(k, b)
    BY <2>1 DEF HasRead
  <2>3. OneEntryEach' /\ KnowsWhatBegan'
    BY <1>1, <2>1, <2>2 DEF OneEntryEach, KnowsWhatBegan
  <2>4. toFuse' \subseteq toFuse /\ at' \in {"fuse", "write"}
    BY <1>1, <1>3 DEF AllRead, CompareTarget, WriteFused, FusionTypeOK
  <2>5. FusionTypeOK'
    BY <1>1, <2>1, <2>4 DEF FusionTypeOK, StoreInv
  <2>6. StandsRight'
    <3>1. listed = Len(Sources) /\ toRead = {}
      BY <1>1, <1>3 DEF AllRead, CompareTarget, WriteFused, StandsRight
    <3>2. at' = "write" => toFuse' # {}
      BY <1>3 DEF AllRead, CompareTarget, WriteFused
    <3>3. KeysFound' = KeysFound
      BY <2>1 DEF KeysFound
    <3>. QED
      BY <1>1, <2>1, <2>4, <3>1, <3>2, <3>3 DEF StandsRight
  <2>. QED
    BY <2>3, <2>5, <2>6 DEF ReadInv
<1>4. CASE Finish
  <2>1. /\ at' = "idle" /\ listed' = 0 /\ found' = {} /\ began' = {} /\ toFuse = {}
        /\ settled' \in {rows, {}} /\ UNCHANGED <<strategy, toRead, toFuse>>
    BY <1>4 DEF Finish
  <2>2. FusionTypeOK'
    <3>1. 0 \in 0..Len(Sources)
      BY FusionAssumption
    <3>. QED
      BY <1>1, <2>1, <3>1 DEF FusionTypeOK, StoreInv
  <2>3. StandsRight' /\ OneEntryEach' /\ KnowsWhatBegan'
    BY <1>1, <1>4, <2>1 DEF Finish, StandsRight, OneEntryEach, KnowsWhatBegan, KeysFound
  <2>. QED
    BY <2>2, <2>3 DEF ReadInv
<1>. QED
  BY <1>2, <1>3, <1>4

\* Listing a branch reads none of the histories that have rows.
LEMMA ListingReadsNothing ==
    ASSUME ReadInv, ListKeys
    PROVE  /\ \A k, c : HasRead(k, c) => HasRead(k, c)'
           /\ \A r \in rows : HasRead(r.key, r.branch)' => HasRead(r.key, r.branch)
<1>. DEFINE b == Sources[listed + 1]
<1>1. /\ toRead = {} /\ listed' = listed + 1
      /\ toRead' = {k \in Keys : Of(k, b) # {}}
  BY DEF ReadInv, StandsRight, ListKeys
<1>2. listed \in Nat
  BY DEF ReadInv, FusionTypeOK
<1>3. \A k, c : HasRead(k, c) => HasRead(k, c)'
  BY <1>1, <1>2 DEF HasRead
<1>4. ASSUME NEW k, NEW c, HasRead(k, c)'
      PROVE  HasRead(k, c) \/ (c = b /\ k \notin toRead')
  <2>1. PICK i \in 1..(listed + 1) : c = Sources[i] /\ (i = listed + 1 => k \notin toRead')
    BY <1>1, <1>4 DEF HasRead
  <2>2. i \in 1..listed \/ i = listed + 1
    BY <1>2
  <2>3. i \in 1..listed => HasRead(k, c)
    BY <1>1, <2>1 DEF HasRead
  <2>. QED
    BY <2>1, <2>2, <2>3
<1>5. \A r \in rows : r.key \in Keys /\ r \in Of(r.key, r.branch)
  BY DEF ReadInv, StoreInv, StoreTypeOK, Row, Of
<1>6. \A r \in rows : HasRead(r.key, r.branch)' => HasRead(r.key, r.branch)
  BY <1>1, <1>4, <1>5
<1>. QED
  BY <1>3, <1>6

\* Listing a branch: a history that has rows is among those to be read.
LEMMA ReadKeptByListing ==
    ASSUME ReadInv, StoreInv', rows \subseteq rows', ListKeys
    PROVE  ReadInv'
<1>1. StandsRight /\ OneEntryEach /\ KnowsWhatBegan /\ FusionTypeOK
  BY DEF ReadInv
<1>2. /\ toRead = {} /\ listed < Len(Sources) /\ listed' = listed + 1 /\ at' = "read"
      /\ toRead' \subseteq Keys
      /\ UNCHANGED <<strategy, found, toFuse, began, settled, rows>>
      /\ toFuse = KeysFound
  BY <1>1 DEF ListKeys, StandsRight, storeVars
<1>3. listed \in Nat /\ Len(Sources) \in Nat /\ listed' # 0 /\ listed' \in 0..Len(Sources)
  BY <1>1, <1>2, FusionAssumption DEF FusionTypeOK
<1>4. FusionTypeOK'
  BY <1>1, <1>2, <1>3 DEF FusionTypeOK, StoreInv
<1>5. StandsRight'
  BY <1>1, <1>2, <1>3 DEF StandsRight, KeysFound
<1>6. OneEntryEach'
  BY <1>1, <1>2, ListingReadsNothing DEF OneEntryEach
<1>7. KnowsWhatBegan'
  BY <1>1, <1>2, ListingReadsNothing DEF KnowsWhatBegan, FusionTypeOK
<1>. QED
  BY <1>4, <1>5, <1>6, <1>7 DEF ReadInv

\* Of the branch being read, what is still to come has not been read, nor has any
\* branch behind it.
LEMMA OneIsRead ==
    ASSUME ReadInv, NEW k \in toRead, ReadEntry
    PROVE  /\ listed \in 1..Len(Sources) /\ Sources[listed] \in Branches
           /\ Sources[listed] \in SourceSet /\ ~HasRead(k, Sources[listed])
<1>1. listed \in 1..Len(Sources)
  <2>1. listed \in 0..Len(Sources) /\ listed # 0
    BY DEF ReadInv, FusionTypeOK, StandsRight, ReadEntry
  <2>2. Len(Sources) \in Nat
    BY FusionAssumption
  <2>. QED
    BY <2>1, <2>2
<1>2. Sources[listed] \in Branches /\ Sources[listed] \in SourceSet
  BY <1>1, FusionAssumption DEF SourceSet
<1>3. ASSUME NEW i \in 1..listed, Sources[i] = Sources[listed] PROVE i = listed
  <2>1. i \in 1..Len(Sources)
    BY <1>1
  <2>. QED
    BY <1>1, <1>3, <2>1, FusionAssumption
<1>4. ~HasRead(k, Sources[listed])
  BY <1>3 DEF HasRead
<1>. QED
  BY <1>1, <1>2, <1>4

\* What reading one entry changes: the history of the key has been read, and its
\* latest row is an entry.
LEMMA ReadingAdds ==
    ASSUME ReadInv, NEW k \in toRead, ReadEntry, toRead' = toRead \ {k}
    PROVE  \A l, c : HasRead(l, c)' <=> HasRead(l, c) \/ (l = k /\ c = Sources[listed])
<1>1. listed' = listed /\ listed \in 1..Len(Sources) /\ listed \in 1..listed
  BY OneIsRead DEF ReadEntry
<1>. QED
  BY <1>1 DEF HasRead

\* Reading an entry.
LEMMA ReadKeptByReading ==
    ASSUME ReadInv, StoreInv', rows \subseteq rows', ReadEntry
    PROVE  ReadInv'
<1>1. StandsRight /\ OneEntryEach /\ KnowsWhatBegan /\ FusionTypeOK
  BY DEF ReadInv
<1>2. UNCHANGED <<strategy, listed, began, settled, rows>>
  BY DEF ReadEntry, storeVars
<1>3. CASE toRead = {}
  <2>1. at' = "list" /\ UNCHANGED <<toRead, found, toFuse>>
    BY <1>3 DEF ReadEntry
  <2>2. \A k, b : HasRead(k, b)' <=> HasRead(k, b)
    BY <1>2, <2>1 DEF HasRead
  <2>3. FusionTypeOK'
    BY <1>1, <1>2, <2>1 DEF FusionTypeOK, StoreInv
  <2>4. StandsRight' /\ OneEntryEach' /\ KnowsWhatBegan'
    BY <1>1, <1>2, <1>3, <2>1, <2>2
       DEF ReadEntry, StandsRight, KeysFound, OneEntryEach, KnowsWhatBegan
  <2>. QED
    BY <2>3, <2>4 DEF ReadInv
<1>4. CASE toRead # {}
  <2>1. PICK k \in toRead :
            /\ toRead' = toRead \ {k}
            /\ found' = found \cup Latest(k, Sources[listed])
            /\ toFuse' = toFuse \cup {e.key : e \in Latest(k, Sources[listed])}
            /\ at' = "read" /\ at = "read"
    BY <1>4 DEF ReadEntry
  <2>. DEFINE b == Sources[listed]
  <2>2. k \in Keys /\ b \in Branches /\ b \in SourceSet /\ ~HasRead(k, b)
    BY <1>1, OneIsRead DEF FusionTypeOK
  <2>3. \A l, c : HasRead(l, c)' <=> HasRead(l, c) \/ (l = k /\ c = b)
    BY <2>1, ReadingAdds
  <2>. HIDE DEF b
  <2>4. \A e \in Latest(k, b) : e \in rows /\ e.key = k /\ e.branch = b
    BY DEF Latest, Newest, Of
  <2>5. \A e, f \in Latest(k, b) : e = f
    <3>1. Latest(k, b) # {} => Of(k, b) # {}
      BY DEF Latest, Newest
    <3>. QED
      BY <2>2, <3>1, LatestFacts DEF ReadInv
  <2>6. found' = found \cup Latest(k, b) /\ toFuse' = toFuse \cup {e.key : e \in Latest(k, b)}
    BY <2>1 DEF b
  <2>7. FusionTypeOK'
    <3>1. found' \subseteq {r \in rows' : r.branch \in SourceSet}
      BY <1>1, <1>2, <2>2, <2>4, <2>6 DEF FusionTypeOK
    <3>2. toFuse' \subseteq Keys /\ toRead' \subseteq Keys
      BY <1>1, <2>1, <2>2, <2>4, <2>6 DEF FusionTypeOK
    <3>. QED
      BY <1>1, <1>2, <2>1, <3>1, <3>2 DEF FusionTypeOK, StoreInv
  <2>8. StandsRight'
    <3>1. KeysFound' = KeysFound \cup {e.key : e \in Latest(k, b)}
      BY <2>6 DEF KeysFound
    <3>. QED
      BY <1>1, <1>2, <2>1, <2>6, <3>1 DEF StandsRight
  <2>9. OneEntryEach'
    <3>1. \A e \in Latest(k, b), f \in found : ~SameHistory(e, f)
      BY <1>1, <2>2, <2>4 DEF OneEntryEach, SameHistory
    <3>2. \A e \in found' : HasRead(e.key, e.branch)'
      BY <1>1, <2>3, <2>4, <2>6 DEF OneEntryEach
    <3>3. \A e, f \in found' : SameHistory(e, f) => e = f
      BY <1>1, <2>5, <2>6, <3>1 DEF OneEntryEach, SameHistory
    <3>. QED
      BY <3>2, <3>3 DEF OneEntryEach
  <2>10. KnowsWhatBegan'
    <3>1. ASSUME NEW r \in began, r.key = k, r.branch = b
          PROVE  \E e \in Latest(k, b) : SameHistory(e, r) /\ r.version <= e.version
      <4>1. r \in Of(k, b)
        BY <1>1, <3>1 DEF FusionTypeOK, Of
      <4>2. PICK e \in Of(k, b) : Latest(k, b) = {e} /\ \A q \in Of(k, b) : q.version <= e.version
        BY <2>2, <4>1, LatestFacts DEF ReadInv
      <4>. QED
        BY <3>1, <4>1, <4>2 DEF SameHistory, Of
    <3>2. ASSUME NEW r \in began, HasRead(r.key, r.branch)'
          PROVE  \E e \in found' : SameHistory(e, r) /\ r.version <= e.version
      <4>1. CASE HasRead(r.key, r.branch)
        BY <1>1, <2>6, <4>1 DEF KnowsWhatBegan
      <4>2. CASE r.key = k /\ r.branch = b
        BY <2>6, <3>1, <4>2
      <4>. QED
        BY <2>3, <3>2, <4>1, <4>2
    <3>. QED
      BY <1>2, <3>2 DEF KnowsWhatBegan
  <2>. QED
    BY <2>7, <2>8, <2>9, <2>10 DEF ReadInv
<1>. QED
  BY <1>3, <1>4

\* Every step of the fusion and of the others keeps what has been read in order.
LEMMA ReadKept ==
    ASSUME ReadInv, TimeTravel, [FusionNext]_allVars
    PROVE  ReadInv'
<1>1. StoreInv' /\ rows \subseteq rows'
  BY FusionSteps
<1>2. CASE UNCHANGED fuseVars
  BY <1>1, <1>2, ReadKeptByOthers
<1>3. CASE Fuse
  BY <1>1, <1>3, ReadKeptByTheRest, ReadKeptByListing, ReadKeptByReading DEF Fuse
<1>. QED
  BY <1>2, <1>3 DEF FusionNext, Others, allVars

\* The first step finds everything in order.
LEMMA FusionStarts ==
    ASSUME FusionInit
    PROVE  ReadInv /\ TimeTravel /\ Promise!LogInit /\ QuietInv
<1>1. StoreInv /\ TimeTravel /\ Promise!LogInit
  BY StoreStarts DEF FusionInit
<1>2. 0 \in 0..Len(Sources)
  BY FusionAssumption
<1>3. FusionTypeOK
  BY <1>1, <1>2 DEF FusionInit, FusionTypeOK, StoreInv
<1>4. StandsRight /\ OneEntryEach /\ KnowsWhatBegan
  BY DEF FusionInit, StandsRight, OneEntryEach, KnowsWhatBegan, KeysFound
<1>5. QuietInv
  BY DEF FusionInit, QuietInv, WhileUndisturbed
<1>. QED
  BY <1>1, <1>3, <1>4, <1>5 DEF ReadInv

\* While a fusion reads branch after branch and others write, the versions of every
\* history stay 1..n, each naming the one before it (store 69-92, 136-176).
THEOREM FusionKeepsTheChain == FusionSpec => []VersionsChain
<1>1. FusionInit => ReadInv /\ TimeTravel
  BY FusionStarts
<1>2. ReadInv /\ TimeTravel /\ [FusionNext]_allVars => ReadInv' /\ TimeTravel'
  BY FusionSteps, ReadKept
<1>3. ReadInv => VersionsChain
  BY DEF ReadInv, StoreInv
<1>. QED
  BY <1>1, <1>2, <1>3, PTL DEF FusionSpec

\* With the fuser among the writers too, a snapshot of the past is what it was (store
\* 179-205).
THEOREM FusionRemembersThePast == FusionSpec => []TimeTravel
<1>1. FusionInit => ReadInv /\ TimeTravel
  BY FusionStarts
<1>2. ReadInv /\ TimeTravel /\ [FusionNext]_allVars => ReadInv' /\ TimeTravel'
  BY FusionSteps, ReadKept
<1>. QED
  BY <1>1, <1>2, PTL DEF FusionSpec

\* Every step of the fusion and of the others stores one value at the end of one
\* history or leaves the log as it is (store 69-92, 136-176; fusion 59-104).
THEOREM FusionImplementsLog == FusionSpec => ImplementsLog
<1>1. FusionInit => ReadInv /\ TimeTravel /\ Promise!LogInit
  BY FusionStarts
<1>2. ReadInv /\ TimeTravel /\ [FusionNext]_allVars
         => ReadInv' /\ TimeTravel' /\ [Promise!LogNext]_LogOf
  BY FusionSteps, ReadKept
<1>. QED
  BY <1>1, <1>2, PTL DEF FusionSpec, ImplementsLog, Promise!LogSpec

\* What the fuser is about to store is no older than any version a source branch had
\* when the fusion began, however the reads and the others' writes interleave (63-79).
THEOREM FusionIsNeverOlder == FusionSpec => []NeverOlderThanBegan
<1>1. FusionInit => ReadInv /\ TimeTravel
  BY FusionStarts
<1>2. ReadInv /\ TimeTravel /\ [FusionNext]_allVars => ReadInv' /\ TimeTravel'
  BY FusionSteps, ReadKept
<1>3. ASSUME ReadInv PROVE NeverOlderThanBegan
  <2>. DEFINE k == Min(toFuse)
  <2>1. SUFFICES ASSUME at = "write",
                        NEW r \in began, r.key = k, r.branch \in SourceSet
                 PROVE  r.at <= Winner(Entries(k)).at
    BY DEF NeverOlderThanBegan
  <2>2. /\ toFuse # {} /\ listed = Len(Sources) /\ toRead = {} /\ r \in rows
        /\ Len(Sources) \in Nat
    BY <1>3, <2>1, FusionAssumption DEF ReadInv, StandsRight, FusionTypeOK
  <2>3. HasRead(r.key, r.branch)
    BY <2>1, <2>2 DEF HasRead, SourceSet
  <2>4. PICK e \in found : SameHistory(e, r) /\ r.version <= e.version
    BY <1>3, <2>3 DEF ReadInv, KnowsWhatBegan
  <2>5. e \in Entries(k) /\ e \in rows
    BY <1>3, <2>1, <2>4 DEF Entries, SameHistory, ReadInv, FusionTypeOK
  <2>6. r.at <= e.at
    BY <1>3, <2>2, <2>4, <2>5 DEF ReadInv, StoreInv, TimesAscend
  <2>7. Contenders(Entries(k))
    BY <1>3, <2>2, NextKey
  <2>8. Winner(Entries(k)) \in Entries(k) /\ (e = Winner(Entries(k)) \/ Beats(Winner(Entries(k)), e))
    BY <2>5, <2>7, WinnerFacts
  <2>9. e.at <= Winner(Entries(k)).at
    BY <2>5, <2>7, <2>8 DEF Beats, Newer, Contenders, Entry
  <2>10. r.at \in Nat /\ e.at \in Nat /\ Winner(Entries(k)).at \in Nat
    <3>1. r \in Row /\ 0..MaxClock \subseteq Nat
      BY <1>3, <2>2 DEF ReadInv, StoreInv, StoreTypeOK
    <3>. QED
      BY <2>5, <2>7, <2>8, <3>1 DEF Row, Contenders, Entry
  <2>. QED
    BY <2>6, <2>9, <2>10
<1>. QED
  BY <1>1, <1>2, <1>3, PTL DEF FusionSpec

-----------------------------------------------------------------------------
(* Fusing again.                                                           *)

\* While nobody disturbs it, a fusion that still reads finds the table it began with.
LEMMA StillAsBegan ==
    ASSUME ReadInv, WhileUndisturbed, Undisturbed, at \in {"list", "read"}
    PROVE  rows = began
BY DEF ReadInv, FusionTypeOK, WhileUndisturbed

\* What it has read for a key it has not fused yet is what the table holds.
LEMMA EntriesAreTheTable ==
    ASSUME ReadInv, WhileUndisturbed, Undisturbed, at \in {"fuse", "write"}, NEW k \in toFuse
    PROVE  Entries(k) = EntriesIn(rows, k)
<1>1. /\ found = {e \in began : IsLatest(began, e) /\ HasRead(e.key, e.branch)}
      /\ \A r \in rows \ began : r.key # k
  BY DEF WhileUndisturbed
<1>2. began \subseteq rows /\ listed = Len(Sources) /\ toRead = {}
  BY DEF ReadInv, FusionTypeOK, StandsRight
<1>3. \A b : HasRead(k, b) <=> b \in SourceSet
  BY <1>2 DEF HasRead, SourceSet
<1>4. \A e : e \in rows /\ e.key = k <=> e \in began /\ e.key = k
  BY <1>1, <1>2
<1>5. ASSUME NEW e \in began, e.key = k
      PROVE  IsLatest(began, e) <=> IsLatest(rows, e)
  BY <1>4, <1>5 DEF IsLatest, SameHistory
<1>. QED
  BY <1>1, <1>3, <1>4, <1>5 DEF Entries, EntriesIn

\* A step that keeps the table and all that fuse() holds keeps what an undisturbed
\* fusion leaves.
LEMMA QuietKeptByTime ==
    ASSUME QuietInv, UNCHANGED <<rows, fuseVars>>
    PROVE  QuietInv'
<1>1. UNCHANGED <<rows, strategy, at, listed, toRead, found, toFuse, began, settled>>
  BY DEF fuseVars
<1>2. \A R, e : IsLatest(R, e)' <=> IsLatest(R, e)
  BY DEF IsLatest
<1>3. \A E : ValueOfAll(E)' = ValueOfAll(E)
  BY <1>1 DEF ValueOfAll
<1>4. \A k : FusedValue(k)' = FusedValue(k)
  BY <1>1, <1>3 DEF FusedValue, Entries
<1>5. \A k : Unchanged(k)' <=> Unchanged(k)
  BY <1>1, <1>4 DEF Unchanged, Latest, Of
<1>6. \A R, k : EntriesIn(R, k)' = EntriesIn(R, k)
  BY DEF EntriesIn
<1>7. WhileUndisturbed'
  <2>1. \A k, b : HasRead(k, b)' <=> HasRead(k, b)
    BY <1>1 DEF HasRead
  <2>2. Undisturbed' <=> Undisturbed
    BY <1>1 DEF Undisturbed
  <2>. QED
    BY <1>1, <1>3, <1>4, <1>5, <2>1, <2>2
       DEF QuietInv, WhileUndisturbed, KeysFound, EntriesIn, IsLatest
<1>8. (at = "write" /\ rows = began => ~Unchanged(Min(toFuse)))'
  BY <1>1, <1>5 DEF QuietInv
<1>9. (settled # {} => Agrees(settled))'
  BY <1>1, <1>3 DEF QuietInv, Agrees, EntriesIn, IsLatest
<1>. QED
  BY <1>7, <1>8, <1>9 DEF QuietInv

\* What the table settled at stays agreed on by every step but the end of a fusion.
LEMMA AgreementStays ==
    ASSUME QuietInv, UNCHANGED <<strategy, settled>>
    PROVE  (settled # {} => Agrees(settled))'
<1>1. \A E : ValueOfAll(E)' = ValueOfAll(E)
  BY DEF ValueOfAll
<1>. QED
  BY <1>1 DEF QuietInv, Agrees, EntriesIn, IsLatest

\* A row of an agent other than the fuser disturbs the fusion.
LEMMA QuietKeptByOthers ==
    ASSUME ReadInv, QuietInv, UNCHANGED fuseVars,
           NEW k, NEW b, NEW v, NEW from, NEW who \in Writers, Extends(k, b, v, who, from)
    PROVE  QuietInv'
<1>1. PICK x : x \notin rows /\ rows' = rows \cup {x} /\ x.by = who
  BY ExtendFacts DEF ReadInv, Extends
<1>2. UNCHANGED <<strategy, at, listed, toRead, found, toFuse, began, settled>>
  BY DEF fuseVars
<1>3. x \in rows' \ began' /\ x.by # Fuser
  BY <1>1, <1>2, FusionAssumption DEF ReadInv, FusionTypeOK
<1>4. ~Undisturbed' /\ rows' # began'
  BY <1>3 DEF Undisturbed
<1>. QED
  BY <1>2, <1>4, AgreementStays DEF QuietInv, WhileUndisturbed

\* Beginning, listing and reading: the fusion holds the latest rows of the histories it
\* has read, in a table that is as it was when it began.
LEMMA QuietKeptByReading ==
    ASSUME ReadInv, QuietInv, Begin \/ ListKeys \/ ReadEntry \/ AllRead
    PROVE  QuietInv'
<1>1. UNCHANGED <<rows, strategy, settled>> /\ at' # "write"
  BY DEF Begin, ListKeys, ReadEntry, AllRead, storeVars
<1>2. (settled # {} => Agrees(settled))'
  BY <1>1, AgreementStays
<1>3. CASE Begin
  <2>1. \A k, b : ~HasRead(k, b)'
    BY <1>3 DEF Begin, ReadInv, StandsRight, HasRead
  <2>2. found' = {} /\ began' = rows /\ at' = "list"
    BY <1>3 DEF Begin, ReadInv, StandsRight
  <2>3. WhileUndisturbed'
    BY <1>1, <2>1, <2>2 DEF WhileUndisturbed
  <2>. QED
    BY <1>1, <1>2, <2>3 DEF QuietInv
<1>4. ASSUME ListKeys \/ ReadEntry \/ AllRead, Undisturbed'
      PROVE  /\ rows = began /\ began' = began /\ at' \in {"list", "read", "fuse"}
             /\ found = {e \in rows : IsLatest(rows, e) /\ HasRead(e.key, e.branch)}
  <2>1. at \in {"list", "read"} /\ began' = began /\ at' \in {"list", "read", "fuse"}
    BY <1>4 DEF ListKeys, ReadEntry, AllRead
  <2>2. Undisturbed
    BY <1>1, <1>4, <2>1 DEF Undisturbed
  <2>3. rows = began
    BY <2>1, <2>2, StillAsBegan DEF QuietInv
  <2>. QED
    BY <2>1, <2>2, <2>3 DEF QuietInv, WhileUndisturbed
<1>5. ASSUME ListKeys, Undisturbed'
      PROVE  found' = {e \in rows : IsLatest(rows, e) /\ HasRead(e.key, e.branch)'}
  <2>1. found' = found
    BY <1>5 DEF ListKeys
  <2>. QED
    BY <1>4, <1>5, <2>1, ListingReadsNothing
<1>6. ASSUME ReadEntry, Undisturbed'
      PROVE  found' = {e \in rows : IsLatest(rows, e) /\ HasRead(e.key, e.branch)'}
  <2>1. CASE toRead = {}
    <3>1. UNCHANGED <<found, listed, toRead>>
      BY <1>6, <2>1 DEF ReadEntry
    <3>2. \A k, b : HasRead(k, b)' <=> HasRead(k, b)
      BY <3>1 DEF HasRead
    <3>. QED
      BY <1>4, <1>6, <3>1, <3>2
  <2>2. CASE toRead # {}
    <3>1. PICK k \in toRead : /\ toRead' = toRead \ {k}
                              /\ found' = found \cup Latest(k, Sources[listed])
      BY <1>6, <2>2 DEF ReadEntry
    <3>2. \A l, c : HasRead(l, c)' <=> HasRead(l, c) \/ (l = k /\ c = Sources[listed])
      BY <1>6, <3>1, ReadingAdds
    <3>3. Latest(k, Sources[listed])
            = {e \in rows : IsLatest(rows, e) /\ e.key = k /\ e.branch = Sources[listed]}
      BY DEF Latest, Newest, Of, IsLatest, SameHistory
    <3>. QED
      BY <1>4, <1>6, <3>1, <3>2, <3>3
  <2>. QED
    BY <2>1, <2>2
<1>7. ASSUME AllRead, Undisturbed'
      PROVE  /\ found' = {e \in rows : IsLatest(rows, e) /\ HasRead(e.key, e.branch)'}
             /\ KeysFound' \ toFuse' = {}
  <2>1. UNCHANGED <<found, listed, toRead, toFuse>> /\ toFuse = KeysFound
    BY <1>7 DEF AllRead, ReadInv, StandsRight
  <2>2. \A k, b : HasRead(k, b)' <=> HasRead(k, b)
    BY <2>1 DEF HasRead
  <2>3. KeysFound' = KeysFound
    BY <2>1 DEF KeysFound
  <2>. QED
    BY <1>4, <1>7, <2>1, <2>2, <2>3
<1>8. CASE ListKeys \/ ReadEntry \/ AllRead
  <2>1. at' \in {"fuse", "write"} => AllRead
    BY <1>8 DEF ListKeys, ReadEntry
  <2>2. Undisturbed' => began' = rows'
    BY <1>1, <1>4, <1>8
  <2>3. Undisturbed' => found' = {e \in rows : IsLatest(rows, e) /\ HasRead(e.key, e.branch)'}
    BY <1>5, <1>6, <1>7, <1>8
  <2>4. Undisturbed' /\ at' \in {"fuse", "write"} => KeysFound' \ toFuse' = {}
    BY <1>7, <2>1
  <2>5. \A e : IsLatest(rows, e)' <=> IsLatest(rows, e)
    BY <1>1 DEF IsLatest
  <2>6. WhileUndisturbed'
    BY <1>1, <2>2, <2>3, <2>4, <2>5 DEF WhileUndisturbed, IsLatest
  <2>. QED
    BY <1>1, <1>2, <2>6 DEF QuietInv
<1>. QED
  BY <1>3, <1>8

\* A key whose value is what it would be fused to is left alone, and another is about
\* to be written.
LEMMA QuietKeptByComparing ==
    ASSUME ReadInv, QuietInv, CompareTarget
    PROVE  QuietInv'
<1>. DEFINE k == Min(toFuse)
<1>1. /\ UNCHANGED <<rows, strategy, listed, toRead, found, began, settled>>
      /\ at = "fuse" /\ toFuse # {} /\ at' \in {"fuse", "write"}
      /\ IF Unchanged(k) THEN toFuse' = toFuse \ {k} /\ at' = "fuse"
                         ELSE toFuse' = toFuse /\ at' = "write"
  BY DEF CompareTarget, storeVars
<1>2. (settled # {} => Agrees(settled))'
  BY <1>1, AgreementStays
<1>3. k \in toFuse
  BY <1>1, NextKey
<1>4. \A E : ValueOfAll(E)' = ValueOfAll(E)
  BY <1>1 DEF ValueOfAll
<1>5. \A l : FusedValue(l)' = FusedValue(l) /\ (Unchanged(l)' <=> Unchanged(l))
  BY <1>1, <1>4 DEF FusedValue, Entries, Unchanged, Latest, Of
<1>6. ValueOfAll(EntriesIn(rows, k)) = FusedValue(k) \/ ~Undisturbed
  BY <1>1, <1>3, EntriesAreTheTable DEF QuietInv, FusedValue
<1>7. WhileUndisturbed'
  <2>1. SUFFICES ASSUME Undisturbed PROVE WhileUndisturbed'
    BY <1>1 DEF WhileUndisturbed, Undisturbed
  <2>2. /\ found = {e \in began : IsLatest(began, e) /\ HasRead(e.key, e.branch)}
        /\ \A r \in rows \ began : r.branch = Target /\ r.key \in KeysFound \ toFuse
        /\ \A l \in KeysFound \ toFuse :
              Unchanged(l) /\ ValueOfAll(EntriesIn(rows, l)) = FusedValue(l)
    BY <1>1, <2>1 DEF QuietInv, WhileUndisturbed
  <2>3. \A l, c : HasRead(l, c)' <=> HasRead(l, c)
    BY <1>1 DEF HasRead
  <2>4. found' = {e \in began' : IsLatest(began', e) /\ HasRead(e.key, e.branch)'}
    BY <1>1, <2>2, <2>3
  <2>5. toFuse' \subseteq toFuse /\ KeysFound' = KeysFound
    BY <1>1 DEF KeysFound
  <2>6. \A r \in rows' \ began' : r.branch = Target /\ r.key \in KeysFound' \ toFuse'
    BY <1>1, <2>2, <2>5
  <2>7. \A l \in KeysFound \ toFuse' :
           Unchanged(l) /\ ValueOfAll(EntriesIn(rows, l)) = FusedValue(l)
    BY <1>1, <1>6, <2>1, <2>2
  <2>8. \A l : EntriesIn(rows, l)' = EntriesIn(rows, l)
    BY <1>1 DEF EntriesIn, IsLatest
  <2>9. \A l \in KeysFound' \ toFuse' :
           Unchanged(l)' /\ ValueOfAll(EntriesIn(rows, l))' = FusedValue(l)'
    <3>1. \A l : ValueOfAll(EntriesIn(rows, l))' = ValueOfAll(EntriesIn(rows, l))
      BY <1>1, <2>8 DEF ValueOfAll
    <3>. QED
      BY <1>5, <2>5, <2>7, <3>1
  <2>. QED
    BY <1>1, <2>4, <2>6, <2>9 DEF WhileUndisturbed, IsLatest
<1>8. (at = "write" /\ rows = began => ~Unchanged(Min(toFuse)))'
  BY <1>1, <1>5
<1>. QED
  BY <1>2, <1>7, <1>8 DEF QuietInv

\* The row of the target that is newer than all others of its key: fusing the key again
\* gives what it holds.
LEMMA WrittenIsSettled ==
    ASSUME ReadInv, NEW k, Contenders(EntriesIn(rows, k)),
           NEW v, v = ValueOfAll(EntriesIn(rows, k)),
           Extends(k, Target, v, Fuser, Nobody), strategy' = strategy
    PROVE  /\ ValueOfAll(EntriesIn(rows, k))' = v
           /\ \E e \in Latest(k, Target)' : e.value = v
           /\ \A l : l # k => /\ EntriesIn(rows, l)' = EntriesIn(rows, l)
                              /\ Latest(l, Target)' = Latest(l, Target)
<1>1. PICK n, x :
      /\ n = Cardinality(Of(k, Target)) /\ x = NewRow(k, Target, v, Fuser, Nobody)
      /\ n \in Nat /\ x \in Row
      /\ x.key = k /\ x.branch = Target /\ x.version = n + 1 /\ x.value = v /\ x.at = now
      /\ Of(k, Target)' = Of(k, Target) \cup {x}
      /\ \A l, c : l # k \/ c # Target => Of(l, c)' = Of(l, c)
  BY ExtendFacts DEF ReadInv
<1>2. rows' = rows \cup {x} /\ k \in Keys /\ Target \in Branches
  BY <1>1 DEF Extends
<1>3. \A e \in Of(k, Target) : e.version < x.version
  <2>1. \A e \in Of(k, Target) : e.version \in 1..n
    BY <1>1, <1>2, Numbers DEF ReadInv
  <2>. QED
    BY <1>1, <2>1
<1>4. \A l : l # k => /\ EntriesIn(rows, l)' = EntriesIn(rows, l)
                      /\ Latest(l, Target)' = Latest(l, Target)
  BY <1>1, <1>2 DEF EntriesIn, IsLatest, SameHistory, Latest
<1>5. x.version <= x.version /\ x.version \in Nat
  BY <1>1
<1>6. x \in Latest(k, Target)'
  <2>1. \A e \in Of(k, Target) : e.version <= x.version
    <3>1. \A e \in Of(k, Target) : e.version \in Nat
      BY DEF Of, ReadInv, StoreInv, StoreTypeOK, Row
    <3>. QED
      BY <1>3, <1>5, <3>1
  <2>. QED
    BY <1>1, <1>5, <2>1 DEF Latest, Newest
<1>. DEFINE E == EntriesIn(rows, k)
            D == {e \in E : e.branch # x.branch} \cup {x}
<1>7. \A A : ValueOfAll(A)' = ValueOfAll(A)
  BY DEF ValueOfAll
<1>8. CASE Target \in SourceSet
  <2>1. EntriesIn(rows, k)' = D
    <3>1. ASSUME NEW e \in rows, e.key = k
          PROVE  IsLatest(rows, e)' <=> e.branch # Target /\ IsLatest(rows, e)
      <4>1. CASE e.branch = Target
        <5>1. e \in Of(k, Target) /\ SameHistory(x, e) /\ e.version \in Nat
          BY <1>1, <3>1, <4>1
             DEF Of, SameHistory, ReadInv, StoreInv, StoreTypeOK, Row
        <5>2. ~(x.version <= e.version)
          BY <1>3, <1>5, <5>1
        <5>. QED
          BY <1>2, <4>1, <5>1, <5>2 DEF IsLatest
      <4>2. CASE e.branch # Target
        BY <1>1, <1>2, <4>2 DEF IsLatest, SameHistory
      <4>. QED
        BY <4>1, <4>2
    <3>2. IsLatest(rows, x)'
      <4>1. \A e \in rows : SameHistory(e, x) => e \in Of(k, Target)
        BY <1>1 DEF SameHistory, Of
      <4>2. \A e \in rows : SameHistory(e, x) => e.version <= x.version
        <5>1. \A e \in Of(k, Target) : e.version \in Nat
          BY DEF Of, ReadInv, StoreInv, StoreTypeOK, Row
        <5>. QED
          BY <1>3, <1>5, <4>1, <5>1
      <4>. QED
        BY <1>2, <1>5, <4>2 DEF IsLatest
    <3>3. ASSUME NEW e PROVE e \in EntriesIn(rows, k)' <=> e \in D
      <4>1. e \in EntriesIn(rows, k)' <=>
                e \in rows' /\ e.key = k /\ e.branch \in SourceSet /\ IsLatest(rows, e)'
        BY Zenon DEF EntriesIn
      <4>2. e \in E <=> e \in rows /\ e.key = k /\ e.branch \in SourceSet /\ IsLatest(rows, e)
        BY Zenon DEF EntriesIn
      <4>3. e \in D <=> (e \in E /\ e.branch # Target) \/ e = x
        BY <1>1, Zenon
      <4>4. e \in rows' <=> e \in rows \/ e = x
        BY <1>2, Zenon
      <4>5. CASE e = x
        BY <1>1, <1>8, <3>2, <4>1, <4>3, <4>4, <4>5, Zenon
      <4>6. CASE e # x
        BY <3>1, <4>1, <4>2, <4>3, <4>4, <4>6, Zenon
      <4>. QED
        BY <4>5, <4>6, Zenon
    <3>. QED
      BY <3>3, Zenon
  <2>2. Contenders(D)
    <3>1. {e \in E : e.branch # x.branch} \in SUBSET E
      OBVIOUS
    <3>2. IsFiniteSet(D)
      BY <3>1, FS_Subset, FS_AddElement DEF Contenders
    <3>3. Entry(x)
      <4>1. x.at \in Nat /\ x.value \in Values
        <5>1. 0..MaxClock \subseteq Nat
          OBVIOUS
        <5>. QED
          BY <1>1, <5>1 DEF Row
      <4>. QED
        BY <1>1, <1>5, <1>8, <4>1 DEF Entry
    <3>4. \A e \in D : Entry(e)
      BY <3>3 DEF Contenders
    <3>5. \A e, f \in D : e.branch = f.branch => e = f
      BY DEF Contenders
    <3>. QED
      BY <3>2, <3>4, <3>5 DEF Contenders
  <2>3. \A e \in E : e.at <= x.at
    BY <1>1 DEF EntriesIn, ReadInv, StoreInv, TimesAscend
  <2>4. \A e \in E : e.branch = x.branch => e.version < x.version
    BY <1>1, <1>3 DEF EntriesIn, Of
  <2>5. ValueOfAll(D) = ValueOfAll(E)
    <3>. HIDE DEF E
    <3>1. Contenders(E) /\ x.value = ValueOfAll(E)
      BY <1>1 DEF E
    <3>. QED
      BY <2>2, <2>3, <2>4, <3>1, FusedAgain
  <2>6. ValueOfAll(EntriesIn(rows, k))' = ValueOfAll(D)
    BY <2>1 DEF ValueOfAll
  <2>. QED
    BY <1>1, <1>4, <1>6, <2>5, <2>6
<1>9. CASE Target \notin SourceSet
  <2>1. EntriesIn(rows, k)' = E
    <3>1. \A e \in rows : e.branch \in SourceSet => ~SameHistory(x, e)
      BY <1>1, <1>9 DEF SameHistory
    <3>2. \A e \in rows : e.branch \in SourceSet => (IsLatest(rows, e)' <=> IsLatest(rows, e))
      BY <1>2, <3>1 DEF IsLatest
    <3>. QED
      BY <1>1, <1>2, <1>9, <3>2 DEF EntriesIn
  <2>2. ValueOfAll(EntriesIn(rows, k))' = ValueOfAll(E)
    BY <2>1 DEF ValueOfAll
  <2>. QED
    BY <1>1, <1>4, <1>6, <2>2
<1>. QED
  BY <1>8, <1>9

\* Storing what the next key is fused to settles that key and leaves the others.
LEMMA QuietKeptByWriting ==
    ASSUME ReadInv, QuietInv, WriteFused,
           Extends(Min(toFuse), Target, FusedValue(Min(toFuse)), Fuser, Nobody)
    PROVE  QuietInv'
<1>1. PICK k, v : k = Min(toFuse) /\ v = FusedValue(Min(toFuse))
  OBVIOUS
<1>2. /\ UNCHANGED <<strategy, listed, toRead, found, began, settled>>
      /\ at = "write" /\ at' = "fuse" /\ toFuse' = toFuse \ {k} /\ toFuse # {}
      /\ Extends(k, Target, v, Fuser, Nobody)
  BY <1>1 DEF WriteFused, ReadInv, StandsRight
<1>3. (settled # {} => Agrees(settled))'
  BY <1>2, AgreementStays
<1>4. k \in toFuse /\ Contenders(Entries(k)) /\ toFuse \subseteq KeysFound
  BY <1>1, <1>2, NextKey DEF ReadInv, StandsRight
<1>5. SUFFICES ASSUME Undisturbed' PROVE WhileUndisturbed'
  BY <1>2, <1>3 DEF QuietInv, WhileUndisturbed
<1>6. PICK x : rows' = rows \cup {x} /\ x.key = k /\ x.branch = Target
  BY <1>2, ExtendFacts DEF ReadInv, Extends
<1>7. Undisturbed
  BY <1>2, <1>5, <1>6 DEF Undisturbed
<1>8. /\ found = {e \in began : IsLatest(began, e) /\ HasRead(e.key, e.branch)}
      /\ \A r \in rows \ began : r.branch = Target /\ r.key \in KeysFound \ toFuse
      /\ \A l \in KeysFound \ toFuse :
            Unchanged(l) /\ ValueOfAll(EntriesIn(rows, l)) = FusedValue(l)
  BY <1>2, <1>7 DEF QuietInv, WhileUndisturbed
<1>9. Entries(k) = EntriesIn(rows, k)
  BY <1>2, <1>4, <1>7, EntriesAreTheTable DEF QuietInv
<1>10. v = ValueOfAll(EntriesIn(rows, k))
  BY <1>1, <1>9 DEF FusedValue
<1>11. /\ ValueOfAll(EntriesIn(rows, k))' = v
       /\ \E e \in Latest(k, Target)' : e.value = v
       /\ \A l : l # k => /\ EntriesIn(rows, l)' = EntriesIn(rows, l)
                          /\ Latest(l, Target)' = Latest(l, Target)
  BY <1>2, <1>4, <1>9, <1>10, WrittenIsSettled
<1>12. \A l, c : HasRead(l, c)' <=> HasRead(l, c)
  BY <1>2 DEF HasRead
<1>13. KeysFound' = KeysFound
  BY <1>2 DEF KeysFound
<1>14. \A l : FusedValue(l)' = FusedValue(l)
  BY <1>2 DEF FusedValue, Entries, ValueOfAll
<1>15. found' = {e \in began' : IsLatest(began', e) /\ HasRead(e.key, e.branch)'}
  BY <1>2, <1>8, <1>12
<1>16. \A r \in rows' \ began' : r.branch = Target /\ r.key \in KeysFound' \ toFuse'
  BY <1>2, <1>4, <1>6, <1>8, <1>13
<1>17. ASSUME NEW l \in KeysFound' \ toFuse'
       PROVE  Unchanged(l)' /\ ValueOfAll(EntriesIn(rows, l))' = FusedValue(l)'
  <2>1. CASE l = k
    <3>1. FusedValue(k)' = v
      BY <1>1, <1>14
    <3>2. \E e \in Latest(k, Target)' : e.value = FusedValue(k)'
      BY <1>11, <3>1
    <3>. QED
      BY <1>11, <2>1, <3>1, <3>2 DEF Unchanged
  <2>2. CASE l # k
    <3>1. l \in KeysFound \ toFuse
      BY <1>2, <1>13, <2>2
    <3>2. ValueOfAll(EntriesIn(rows, l))' = ValueOfAll(EntriesIn(rows, l))
      BY <1>2, <1>11, <2>2 DEF ValueOfAll
    <3>3. Unchanged(l)'
      BY <1>8, <1>11, <1>14, <2>2, <3>1 DEF Unchanged
    <3>. QED
      BY <1>8, <1>14, <3>1, <3>2, <3>3
  <2>. QED
    BY <2>1, <2>2
<1>. QED
  BY <1>2, <1>15, <1>16, <1>17 DEF WhileUndisturbed, IsLatest

\* A fusion that was not disturbed ends with every key as it would be fused again.
LEMMA QuietKeptByFinishing ==
    ASSUME ReadInv, QuietInv, Finish
    PROVE  QuietInv'
<1>1. /\ at = "fuse" /\ toFuse = {} /\ at' = "idle" /\ strategy' = strategy
      /\ settled' = IF Undisturbed THEN rows ELSE {}
  BY DEF Finish
<1>2. ASSUME Undisturbed PROVE Agrees(rows)
  <2>1. /\ \A r \in rows \ began : r.key \in KeysFound
        /\ \A k \in KeysFound : Unchanged(k) /\ ValueOfAll(EntriesIn(rows, k)) = FusedValue(k)
    BY <1>1, <1>2 DEF QuietInv, WhileUndisturbed
  <2>2. ASSUME NEW k \in Keys, NEW e \in EntriesIn(rows, k) PROVE k \in KeysFound
    <3>1. e \in rows /\ e.key = k /\ e.branch \in SourceSet
      BY DEF EntriesIn
    <3>2. CASE e \in began
      <4>1. listed = Len(Sources) /\ toRead = {}
        BY <1>1 DEF ReadInv, StandsRight
      <4>2. HasRead(k, e.branch)
        BY <3>1, <4>1 DEF HasRead, SourceSet
      <4>3. PICK f \in found : SameHistory(f, e)
        BY <3>1, <3>2, <4>2 DEF ReadInv, KnowsWhatBegan
      <4>. QED
        BY <3>1, <4>3 DEF KeysFound, SameHistory
    <3>. QED
      BY <2>1, <3>1, <3>2
  <2>3. ASSUME NEW k \in Keys, EntriesIn(rows, k) # {}
        PROVE  \E e \in rows : /\ e.key = k /\ e.branch = Target /\ IsLatest(rows, e)
                               /\ e.value = ValueOfAll(EntriesIn(rows, k))
    <3>1. Unchanged(k) /\ ValueOfAll(EntriesIn(rows, k)) = FusedValue(k)
      BY <2>1, <2>2, <2>3
    <3>2. PICK e \in Latest(k, Target) : e.value = FusedValue(k)
      BY <3>1 DEF Unchanged
    <3>3. e \in rows /\ e.key = k /\ e.branch = Target /\ IsLatest(rows, e)
      BY DEF Latest, Newest, Of, IsLatest, SameHistory
    <3>. QED
      BY <3>1, <3>2, <3>3
  <2>. QED
    BY <2>3 DEF Agrees
<1>3. Agrees(rows) /\ settled' = rows => Agrees(settled)'
  <2>1. \A E : ValueOfAll(E)' = ValueOfAll(E)
    BY <1>1 DEF ValueOfAll
  <2>. QED
    BY <2>1 DEF Agrees, EntriesIn, IsLatest
<1>4. (settled # {} => Agrees(settled))'
  BY <1>1, <1>2, <1>3
<1>. QED
  BY <1>1, <1>4 DEF QuietInv, WhileUndisturbed

\* Whatever the fusion and the others do, an undisturbed fusion settles the target.
LEMMA QuietKept ==
    ASSUME ReadInv, QuietInv, [FusionNext]_allVars
    PROVE  QuietInv'
<1>1. CASE FusionNext
  <2>1. StoreTick => rows' = rows
    BY DEF StoreTick
  <2>. QED
    BY <1>1, <2>1, FusionToStore, QuietKeptByTime, QuietKeptByOthers, QuietKeptByReading,
       QuietKeptByComparing, QuietKeptByWriting, QuietKeptByFinishing
<1>2. CASE UNCHANGED allVars
  BY <1>2, QuietKeptByTime DEF allVars, storeVars
<1>. QED
  BY <1>1, <1>2

\* Store and fuser are well typed, and a fusion that follows an undisturbed one, with
\* nothing written since, has nothing to write: under either strategy, and also when
\* the target is one of the branches fused (59-104).
THEOREM FusingAgainWritesNothing == FusionSpec => []FusionInv
<1>1. FusionInit => ReadInv /\ TimeTravel /\ QuietInv
  BY FusionStarts
<1>2. ReadInv /\ TimeTravel /\ QuietInv /\ [FusionNext]_allVars
         => ReadInv' /\ TimeTravel' /\ QuietInv'
  BY FusionSteps, ReadKept, QuietKept
<1>3. ASSUME ReadInv, QuietInv PROVE FusionInv
  <2>1. SUFFICES ASSUME at = "write", settled # {}, began = settled, rows = began PROVE FALSE
    BY <1>3 DEF FusionInv, QuietWhenSettled, ReadInv
  <2>. DEFINE k == Min(toFuse)
  <2>2. k \in toFuse /\ k \in Keys /\ Contenders(Entries(k))
    BY <1>3, <2>1, NextKey DEF ReadInv, StandsRight
  <2>3. Undisturbed
    BY <2>1 DEF Undisturbed
  <2>4. Entries(k) = EntriesIn(rows, k)
    <3>. HIDE DEF k
    <3>. QED
      BY <1>3, <2>1, <2>2, <2>3, EntriesAreTheTable DEF QuietInv
  <2>5. PICK e \in rows : /\ e.key = k /\ e.branch = Target /\ IsLatest(rows, e)
                          /\ e.value = ValueOfAll(EntriesIn(rows, k))
    BY <1>3, <2>1, <2>2, <2>4 DEF QuietInv, Agrees, Contenders
  <2>6. e \in Latest(k, Target)
    BY <2>5 DEF Latest, Newest, Of, IsLatest, SameHistory
  <2>7. Unchanged(k)
    BY <2>4, <2>5, <2>6 DEF Unchanged, FusedValue
  <2>. QED
    BY <1>3, <2>1, <2>7 DEF QuietInv
<1>. QED
  BY <1>1, <1>2, <1>3, PTL DEF FusionSpec

-----------------------------------------------------------------------------
(* Versions of skills.                                                     *)

\* A proper prefix, element by element.
LEMMA StrictPrefixIs ==
    ASSUME NEW a \in Seq(Int), NEW b \in Seq(Int)
    PROVE  IsStrictPrefix(a, b) <=> Len(a) < Len(b) /\ \A i \in 1..Len(a) : a[i] = b[i]
<1>1. Len(a) \in Nat /\ Len(b) \in Nat /\ SubSeq(a, 1, Len(a)) = a
  BY SubSeqFull
<1>2. ASSUME Len(a) <= Len(b)
      PROVE  /\ SubSeq(b, 1, Len(a)) \in Seq(Int) /\ Len(SubSeq(b, 1, Len(a))) = Len(a)
             /\ \A i \in 1..Len(a) : SubSeq(b, 1, Len(a))[i] = b[i]
  <2>1. \A i \in 1..Len(a) : b[i] \in Int
    BY <1>1, <1>2
  <2> DEFINE n == Len(a)
  <2>2. n \in Nat /\ 1 \in Int /\ n \in Int /\ \A i \in 1..n : b[i] \in Int
    BY <1>1, <2>1
  <2> HIDE DEF n
  <2>3. /\ SubSeq(b, 1, n) \in Seq(Int)
        /\ Len(SubSeq(b, 1, n)) = IF 1 <= n THEN n - 1 + 1 ELSE 0
        /\ \A i \in 1..(n - 1 + 1) : SubSeq(b, 1, n)[i] = b[1 + i - 1]
    BY <2>2, SubSeqProperties
  <2>4. n - 1 + 1 = n /\ (IF 1 <= n THEN n - 1 + 1 ELSE 0) = n /\ \A i \in 1..n : 1 + i - 1 = i
    BY <2>2
  <2>5. /\ SubSeq(b, 1, n) \in Seq(Int) /\ Len(SubSeq(b, 1, n)) = n
        /\ \A i \in 1..n : SubSeq(b, 1, n)[i] = b[i]
    BY <2>3, <2>4
  <2> QED BY <2>5 DEF n
<1>3. ASSUME IsStrictPrefix(a, b)
      PROVE  Len(a) < Len(b) /\ \A i \in 1..Len(a) : a[i] = b[i]
  <2>1. Len(a) <= Len(b) /\ a = SubSeq(b, 1, Len(a)) /\ a # b
    BY <1>1, <1>3 DEF IsStrictPrefix, IsPrefix
  <2>2. \A i \in 1..Len(a) : a[i] = b[i]
    BY <1>2, <2>1
  <2>3. Len(a) # Len(b)
    BY <2>1, <2>2, SeqEqual
  <2> QED BY <1>1, <2>1, <2>2, <2>3
<1>4. ASSUME Len(a) < Len(b), \A i \in 1..Len(a) : a[i] = b[i]
      PROVE  IsStrictPrefix(a, b)
  <2>1. Len(a) <= Len(b) /\ a # b
    BY <1>1, <1>4
  <2> DEFINE c == SubSeq(b, 1, Len(a))
  <2>2. c \in Seq(Int) /\ Len(c) = Len(a) /\ \A i \in 1..Len(a) : a[i] = c[i]
    BY <1>2, <1>4, <2>1
  <2> HIDE DEF c
  <2>3. a = c
    BY <2>2, SeqEqual
  <2> QED BY <1>1, <2>1, <2>3 DEF c, IsStrictPrefix, IsPrefix
<1> QED BY <1>3, <1>4

\* The order of tuples, with both of its cases alike: up to some place the tuples agree, and
\* there the first ends or has the smaller part.
LEMMA TupleLessIs ==
    ASSUME NEW a \in Seq(Int), NEW b \in Seq(Int)
    PROVE  TupleLess(a, b) <=>
               \E n \in 1..(Len(a) + 1) : /\ n <= Len(b)
                                          /\ n <= Len(a) => a[n] < b[n]
                                          /\ \A i \in 1..(n - 1) : a[i] = b[i]
<1>1. Len(a) \in Nat /\ Len(b) \in Nat /\ DOMAIN a = 1..Len(a) /\ DOMAIN b = 1..Len(b)
  OBVIOUS
<1>2. ASSUME IsStrictPrefix(a, b)
      PROVE  \E n \in 1..(Len(a) + 1) : /\ n <= Len(b)
                                        /\ n <= Len(a) => a[n] < b[n]
                                        /\ \A i \in 1..(n - 1) : a[i] = b[i]
  <2>1. Len(a) < Len(b) /\ \A i \in 1..Len(a) : a[i] = b[i]
    BY <1>2, StrictPrefixIs
  <2>2. Len(a) + 1 \in 1..(Len(a) + 1) /\ Len(a) + 1 <= Len(b) /\ ~(Len(a) + 1 <= Len(a))
        /\ \A i \in 1..(Len(a) + 1 - 1) : a[i] = b[i]
    BY <1>1, <2>1
  <2> QED BY <2>2
<1>3. ASSUME NEW n \in DOMAIN a \cap DOMAIN b, a[n] < b[n], \A i \in 1..(n - 1) : a[i] = b[i]
      PROVE  n \in 1..(Len(a) + 1) /\ n <= Len(b)
  BY <1>1, <1>3
<1>4. ASSUME NEW n \in 1..(Len(a) + 1), n <= Len(b), n <= Len(a) => a[n] < b[n],
             \A i \in 1..(n - 1) : a[i] = b[i]
      PROVE  TupleLess(a, b)
  <2>1. CASE n <= Len(a)
    <3>1. n \in DOMAIN a \cap DOMAIN b /\ a[n] < b[n] /\ \A j \in 1 .. n - 1 : a[j] = b[j]
      BY <1>1, <1>4, <2>1
    <3> QED BY <3>1, Zenon DEF TupleLess
  <2>2. CASE n = Len(a) + 1
    <3>1. Len(a) < Len(b) /\ \A i \in 1..Len(a) : a[i] = b[i]
      BY <1>1, <1>4, <2>2
    <3> QED BY <3>1, StrictPrefixIs DEF TupleLess
  <2> QED BY <1>1, <2>1, <2>2
<1> QED BY <1>2, <1>3, <1>4 DEF TupleLess

\* The smaller of two places is within all the bounds of both.
LEMMA SmallerPlace ==
    ASSUME NEW p \in Nat, NEW q \in Nat, NEW r \in Nat, NEW x \in 1..(p + 1), NEW y \in 1..(q + 1),
           x <= q, y <= r, NEW z, z = IF x <= y THEN x ELSE y
    PROVE  z \in 1..(p + 1) /\ z <= x /\ z <= y /\ z <= r /\ z <= q
OBVIOUS

\* Less than is transitive.
LEMMA LessLess == \A x, y, z \in Int : x < y /\ y < z => x < z
OBVIOUS

\* It is transitive.
LEMMA TupleLessTransitive ==
    ASSUME NEW a \in Seq(Int), NEW b \in Seq(Int), NEW c \in Seq(Int),
           TupleLess(a, b), TupleLess(b, c)
    PROVE  TupleLess(a, c)
<1>1. PICK n \in 1..(Len(a) + 1) : /\ n <= Len(b)
                                   /\ n <= Len(a) => a[n] < b[n]
                                   /\ \A i \in 1..(n - 1) : a[i] = b[i]
  BY TupleLessIs
<1>2. PICK m \in 1..(Len(b) + 1) : /\ m <= Len(c)
                                   /\ m <= Len(b) => b[m] < c[m]
                                   /\ \A i \in 1..(m - 1) : b[i] = c[i]
  BY TupleLessIs
<1>3. /\ Len(a) \in Nat /\ Len(b) \in Nat /\ Len(c) \in Nat
      /\ \A i \in 1..Len(a) : a[i] \in Int
      /\ \A i \in 1..Len(b) : b[i] \in Int
      /\ \A i \in 1..Len(c) : c[i] \in Int
  OBVIOUS
<1> DEFINE k == IF n <= m THEN n ELSE m
<1>4. k \in 1..(Len(a) + 1) /\ k <= n /\ k <= m /\ k <= Len(c) /\ k <= Len(b)
  <2>1. n \in 1..(Len(a) + 1) /\ m \in 1..(Len(b) + 1) /\ n <= Len(b) /\ m <= Len(c)
    BY <1>1, <1>2
  <2>2. k = IF n <= m THEN n ELSE m
    OBVIOUS
  <2>3. Len(a) \in Nat /\ Len(b) \in Nat /\ Len(c) \in Nat
    BY <1>3
  <2> HIDE DEF k
  <2> QED BY <2>1, <2>2, <2>3, SmallerPlace
<1>5. \A i \in 1..(k - 1) : a[i] = c[i]
  <2> HIDE DEF k
  <2> TAKE i \in 1..(k - 1)
  <2>1. n \in Nat /\ m \in Nat /\ k \in Nat /\ k <= n /\ k <= m
    BY <1>1, <1>2, <1>3, <1>4
  <2>2. i \in 1..(n - 1) /\ i \in 1..(m - 1)
    BY <2>1
  <2>3. a[i] = b[i] /\ b[i] = c[i]
    BY <1>1, <1>2, <2>2, Zenon
  <2> QED BY <2>3, Zenon
<1>6. ASSUME k <= Len(a) PROVE a[k] < c[k]
  <2>1. a[k] \in Int /\ b[k] \in Int /\ c[k] \in Int
    <3>1. k \in 1..Len(a) /\ k \in 1..Len(b) /\ k \in 1..Len(c)
      BY <1>3, <1>4, <1>6
    <3> HIDE DEF k
    <3> QED BY <1>3, <3>1
  <2>2. CASE k = n /\ k = m
    <3> HIDE DEF k
    <3>1. a[k] < b[k]
      BY <1>1, <1>6, <2>2
    <3>2. b[k] < c[k]
      BY <1>2, <1>4, <2>2
    <3> QED BY <2>1, <3>1, <3>2, LessLess, Zenon
  <2>3. CASE k = n /\ k < m
    <3>1. a[k] < b[k] /\ b[k] = c[k]
      BY <1>1, <1>2, <1>6, <2>3
    <3> HIDE DEF k
    <3> QED BY <3>1, Zenon
  <2>4. CASE k < n /\ k = m
    <3>1. a[k] = b[k] /\ b[k] < c[k]
      BY <1>1, <1>2, <1>4, <2>4
    <3> HIDE DEF k
    <3> QED BY <3>1, Zenon
  <2> QED BY <1>4, <2>2, <2>3, <2>4
<1> HIDE DEF k
<1> QED BY <1>4, <1>5, <1>6, TupleLessIs

\* It is total.
LEMMA TupleLessTotal ==
    ASSUME NEW a \in Seq(Int), NEW b \in Seq(Int)
    PROVE  a = b \/ TupleLess(a, b) \/ TupleLess(b, a)
<1>1. /\ Len(a) \in Nat /\ Len(b) \in Nat
      /\ \A i \in 1..Len(a) : a[i] \in Int
      /\ \A i \in 1..Len(b) : b[i] \in Int
  OBVIOUS
<1> DEFINE l == IF Len(a) <= Len(b) THEN Len(a) ELSE Len(b)
           D == {i \in 1..l : a[i] # b[i]}
<1>2. l \in Nat /\ l <= Len(a) /\ l <= Len(b) /\ (l = Len(a) \/ l = Len(b))
  BY <1>1
<1> HIDE DEF l
<1>3. CASE D = {}
  <2>1. \A i \in 1..l : a[i] = b[i]
    BY <1>3
  <2>2. CASE Len(a) = Len(b)
    BY <1>2, <2>1, <2>2, SeqEqual
  <2>3. CASE Len(a) < Len(b)
    <3>1. \A i \in 1..Len(a) : a[i] = b[i]
      BY <1>1, <1>2, <2>1, <2>3
    <3> QED BY <2>3, <3>1, StrictPrefixIs DEF TupleLess
  <2>4. CASE Len(b) < Len(a)
    <3>1. \A i \in 1..Len(b) : b[i] = a[i]
      BY <1>1, <1>2, <2>1, <2>4
    <3> QED BY <2>4, <3>1, StrictPrefixIs DEF TupleLess
  <2> QED BY <1>1, <2>2, <2>3, <2>4
<1>4. CASE D # {}
  <2>1. IsFiniteSet(D) /\ D \subseteq Int
    <3>1. IsFiniteSet(1..l)
      BY <1>2, FS_Interval
    <3>2. D \subseteq 1..l /\ D \subseteq Int
      BY <1>2
    <3> HIDE DEF D
    <3> QED BY <3>1, <3>2, FS_Subset
  <2>2. PICK n \in D : \A i \in D : n <= i
    <3> HIDE DEF D
    <3> QED BY <1>4, <2>1, LeastNumber
  <2>3. /\ n \in 1..Len(a) /\ n \in 1..Len(b) /\ a[n] # b[n] /\ n <= l
        /\ \A i \in 1..(n - 1) : a[i] = b[i]
    <3>1. n \in 1..l /\ a[n] # b[n]
      OBVIOUS
    <3>2. ASSUME NEW i \in 1..(n - 1) PROVE a[i] = b[i]
      <4>1. i \in 1..l /\ ~(n <= i)
        BY <1>2, <3>1
      <4> QED BY <2>2, <4>1
    <3> QED BY <1>1, <1>2, <3>1, <3>2
  <2>4. DOMAIN a = 1..Len(a) /\ DOMAIN b = 1..Len(b)
    OBVIOUS
  <2>5. CASE a[n] < b[n]
    BY <2>3, <2>4, <2>5 DEF TupleLess
  <2>6. CASE b[n] < a[n]
    BY <2>3, <2>4, <2>6 DEF TupleLess
  <2> QED BY <1>1, <2>3, <2>5, <2>6
<1> QED BY <1>3, <1>4

\* What counts of a version is a tuple of numbers.
LEMMA MaterializeType ==
    ASSUME NEW v \in Seq(Int)
    PROVE  Materialize(v) \in Seq(Int)
<1> DEFINE n == IF Len(v) < 3 THEN Len(v) ELSE 3
<1>1. n \in Nat /\ n \in Int /\ 1 \in Int /\ \A i \in 1..n : v[i] \in Int
  OBVIOUS
<1> HIDE DEF n
<1>2. SubSeq(v, 1, n) \in Seq(Int)
  BY <1>1, SubSeqProperties
<1> QED BY <1>2 DEF Materialize, n

\* The catalog's constants.
LEMMA CatalogFacts ==
    /\ \A v \in Versions : v \in Seq(Int)
    /\ MaxSkills \in Nat /\ MaxInstalls \in Nat /\ "" \in Origins /\ "api" \in Origins
    /\ \A m \in Shared : m \in Manifest /\ m.id > MaxSkills /\ Ascending(m)
<1>1. Versions \subseteq Seq(Int) \ {<<>>}
  BY CatalogAssumption, Zenon
<1>2. {MaxSkills, MaxInstalls} \subseteq Nat /\ {"", "api"} \subseteq Origins
  BY CatalogAssumption, Zenon
<1>3. \A m \in Shared : m \in Manifest /\ m.id > MaxSkills /\ Ascending(m)
  BY CatalogAssumption, Zenon
<1> QED BY <1>1, <1>2, <1>3

\* Versions, and what a version that is not there counts as.
LEMMA VersionsAreTuples ==
    /\ \A v \in Versions \cup {NoVersion} : v \in Seq(Int) /\ Materialize(v) \in Seq(Int)
    /\ \A v \in Versions : VersionKey(v) \in Seq(Int)
<1>1. NoVersion \in Seq(Int)
  BY DEF NoVersion
<1>2. \A v \in Versions \cup {NoVersion} : v \in Seq(Int)
  BY <1>1, CatalogFacts, Zenon
<1> QED BY <1>1, <1>2, MaterializeType DEF VersionKey

\* Versions in ascending order, those that count alike as they come.
Sorted(vs) ==
    \A i, j \in 1..Len(vs) : i < j =>
        VersionKey(vs[i]) = VersionKey(vs[j]) \/ TupleLess(VersionKey(vs[i]), VersionKey(vs[j]))

\* A sync publishes the versions that the registry offered, all of them and in order.
LEMMA InOrderIsOffered ==
    ASSUME NEW vs \in Seq(Versions)
    PROVE  /\ InOrder(vs) \in Seq(Versions) /\ Sorted(InOrder(vs))
           /\ \A j \in 1..Len(InOrder(vs)) : \E k \in 1..Len(vs) : vs[k] = InOrder(vs)[j]
           /\ \A k \in 1..Len(vs) : \E j \in 1..Len(InOrder(vs)) : InOrder(vs)[j] = vs[k]
<1> DEFINE D == DOMAIN vs
           key(i) == VersionKey(vs[i])
           before(i, j) == TupleLess(key(i), key(j)) \/ (key(i) = key(j) /\ i < j)
           R == {p \in D \X D : before(p[1], p[2])}
           Sorts(p) == p \in Bijection(D, D) /\ \A i, j \in D : i < j => before(p[i], p[j])
<1>1. Len(vs) \in Nat /\ D = 1..Len(vs) /\ \A i \in D : vs[i] \in Versions
  OBVIOUS
<1>2. \A i \in D : key(i) \in Seq(Int)
  BY <1>1, VersionsAreTuples
<1>3. IsFiniteSet(D) /\ Cardinality(D) = Len(vs) /\ D \subseteq Int
  <2>1. 1 \in Int /\ Len(vs) \in Int /\ (IF 1 > Len(vs) THEN 0 ELSE Len(vs) - 1 + 1) = Len(vs)
    BY <1>1
  <2>2. IsFiniteSet(1..Len(vs)) /\ Cardinality(1..Len(vs)) = Len(vs)
    BY <2>1, FS_Interval
  <2> QED BY <1>1, <2>2
<1> HIDE DEF D, key
<1>4. \A i, j \in D : i = j \/ <<i, j>> \in R \/ <<j, i>> \in R
  <2> SUFFICES ASSUME NEW i \in D, NEW j \in D, i # j PROVE before(i, j) \/ before(j, i)
    OBVIOUS
  <2>1. key(i) = key(j) \/ TupleLess(key(i), key(j)) \/ TupleLess(key(j), key(i))
    BY <1>2, TupleLessTotal
  <2>2. i < j \/ j < i
    BY <1>3
  <2> QED BY <2>1, <2>2
<1>5. \A i, j, k \in D : <<i, j>> \in R /\ <<j, k>> \in R => <<i, k>> \in R
  <2> SUFFICES ASSUME NEW i \in D, NEW j \in D, NEW k \in D, before(i, j), before(j, k)
               PROVE  before(i, k)
    OBVIOUS
  <2>1. CASE TupleLess(key(i), key(j)) /\ TupleLess(key(j), key(k))
    BY <1>2, <2>1, TupleLessTransitive
  <2>2. CASE key(i) = key(j) /\ i < j /\ key(j) = key(k) /\ j < k
    BY <1>3, <2>2
  <2>3. CASE TupleLess(key(i), key(j)) /\ key(j) = key(k)
    BY <2>3
  <2>4. CASE key(i) = key(j) /\ TupleLess(key(j), key(k))
    BY <2>4
  <2> QED BY <2>1, <2>2, <2>3, <2>4
<1>6. PICK f : /\ f \in Bijection(1..Len(vs), D)
               /\ \A i, j \in 1..Len(vs) : i < j => <<f[i], f[j]>> \in R
  <2> HIDE DEF R
  <2>1. \E f \in Bijection(1..Cardinality(D), D) :
            \A i, j \in 1..Cardinality(D) : i < j => <<f[i], f[j]>> \in R
    BY <1>3, <1>4, <1>5, OrderedEnumeration
  <2> QED BY <1>3, <2>1
<1>7. Sorts(f)
  BY <1>1, <1>6
<1> DEFINE order == CHOOSE p \in Bijection(D, D) : \A i, j \in D : i < j => before(p[i], p[j])
<1>8. order \in Bijection(D, D) /\ \A i, j \in D : i < j => before(order[i], order[j])
  BY <1>7
<1>9. order \in [D -> D] /\ \A k \in D : \E j \in D : order[j] = k
  BY <1>8 DEF Bijection, Injection, Surjection
<1>10. InOrder(vs) = [i \in D |-> vs[order[i]]]
  BY DEF InOrder, D, key
<1> HIDE DEF order
<1>11. \A i \in 1..Len(vs) : vs[order[i]] \in Versions
  BY <1>1, <1>9
<1> DEFINE ws == InOrder(vs)
<1>12. /\ ws \in Seq(Versions) /\ Len(ws) = Len(vs) /\ D = 1..Len(ws)
       /\ \A i \in D : ws[i] = vs[order[i]]
  BY <1>1, <1>10, <1>11
<1> HIDE DEF ws
<1>13. Sorted(ws)
  <2>1. ASSUME NEW i \in D, NEW j \in D, i < j
        PROVE  VersionKey(ws[i]) = VersionKey(ws[j]) \/ TupleLess(VersionKey(ws[i]), VersionKey(ws[j]))
    <3>1. before(order[i], order[j])
      BY <1>8, <2>1
    <3>2. VersionKey(ws[i]) = key(order[i]) /\ VersionKey(ws[j]) = key(order[j])
      BY <1>12 DEF key
    <3> QED BY <3>1, <3>2
  <2> QED BY <1>12, <2>1 DEF Sorted
<1>14. \A j \in 1..Len(ws) : \E k \in 1..Len(vs) : vs[k] = ws[j]
  BY <1>1, <1>9, <1>12
<1>15. \A k \in 1..Len(vs) : \E j \in 1..Len(ws) : ws[j] = vs[k]
  <2> TAKE k \in 1..Len(vs)
  <2>1. PICK j \in D : order[j] = k
    BY <1>1, <1>9
  <2> QED BY <1>12, <2>1
<1> QED BY <1>12, <1>13, <1>14, <1>15 DEF ws

-----------------------------------------------------------------------------
(* The catalog.                                                            *)

\* What the catalog's operations keep: ids are positions or foreign, and each agent's
\* installations were counted.
Installers(id) == {a \in AgentIds : id \in installed[a]}
CatalogInv ==
    /\ skills \in Seq(Manifest)
    /\ \A k \in 1..Len(skills) : /\ Ascending(skills[k])
                                 /\ skills[k].id = k \/ skills[k].id > MaxSkills
    /\ \A k, l \in 1..Len(skills) : skills[k].id = skills[l].id => k = l
    /\ installed \in [AgentIds -> SUBSET {skills[k].id : k \in 1..Len(skills)}]
    /\ \A k \in 1..Len(skills) : /\ IsFiniteSet(Installers(skills[k].id))
                                 /\ Cardinality(Installers(skills[k].id)) <= skills[k].installs

\* Find() finds a skill of the name, or none.
LEMMA FindIs ==
    ASSUME skills \in Seq(Manifest), NEW name
    PROVE  /\ Len(skills) \in Nat
           /\ Find(name) \in 0..Len(skills)
           /\ Find(name) # 0 => skills[Find(name)].name = name
<1> DEFINE I == {i \in 1..Len(skills) : skills[i].name = name}
<1>1. Len(skills) \in Nat
  OBVIOUS
<1>2. Find(name) = IF I # {} THEN Min(I) ELSE 0
  BY DEF Find, SelectInSeq
<1>3. ASSUME I # {} PROVE Min(I) \in I
  <2>1. IsFiniteSet(I) /\ I \subseteq Int
    <3>1. IsFiniteSet(1..Len(skills))
      BY <1>1, FS_Interval
    <3>2. I \subseteq 1..Len(skills) /\ I \subseteq Int
      BY <1>1
    <3> HIDE DEF I
    <3> QED BY <3>1, <3>2, FS_Subset
  <2> HIDE DEF I
  <2>2. \E x \in I : \A y \in I : x <= y
    BY <1>3, <2>1, LeastNumber
  <2> QED BY <2>2 DEF Min
<1> QED BY <1>1, <1>2, <1>3

\* The skill a version is published for: the one of the name, or a new one.
Renewed(name, kind) ==
    IF Find(name) = 0 THEN NewSkill(name, kind) ELSE [skills[Find(name)] EXCEPT !.kind = kind]

\* What becomes of it, and how many skills there are then.
Placed(name, kind, v, by) ==
    IF Accepts(name, v)
    THEN [Renewed(name, kind) EXCEPT
              !.versions = Append(Renewed(name, kind).versions, [version |-> v, by |-> by]), !.latest = v]
    ELSE Renewed(name, kind)
Grown(name) == IF IndexOf(name) = Len(skills) + 1 THEN Len(skills) + 1 ELSE Len(skills)

\* publish() replaces it or adds it, with the version if that is accepted.
LEMMA PublishedIs ==
    ASSUME CatalogInv, NEW name \in Names, NEW kind \in Kinds, NEW v \in Versions, NEW by \in Origins,
           HasRoom(name)
    PROVE  /\ Len(skills) \in Nat /\ IndexOf(name) \in 1..(Len(skills) + 1) /\ Grown(name) \in Nat
           /\ Renewed(name, kind) \in Manifest /\ Placed(name, kind, v, by) \in Manifest
           /\ Published(name, kind, v, by) = [k \in 1..Grown(name) |->
                  IF k = IndexOf(name) THEN Placed(name, kind, v, by) ELSE skills[k]]
           /\ IndexOf(name) = Len(skills) + 1 =>
                  /\ Find(name) = 0 /\ Len(skills) < MaxSkills
                  /\ Renewed(name, kind) = NewSkill(name, kind)
           /\ IndexOf(name) # Len(skills) + 1 =>
                  /\ Find(name) # 0 /\ IndexOf(name) = Find(name) /\ IndexOf(name) \in 1..Len(skills)
                  /\ Renewed(name, kind) = [skills[IndexOf(name)] EXCEPT !.kind = kind]
<1> DEFINE n == Len(skills)
           i == IndexOf(name)
           t == Renewed(name, kind)
           m == IF i = n + 1 THEN n + 1 ELSE n
           e == [version |-> v, by |-> by]
           s == IF Accepts(name, v)
                THEN [t EXCEPT !.versions = Append(t.versions, e), !.latest = v]
                ELSE t
<1>1. skills \in Seq(Manifest) /\ n \in Nat /\ Find(name) \in 0..n /\ i \in 1..(n + 1) /\ m \in Nat
      /\ (i = n + 1 <=> Find(name) = 0) /\ (i # n + 1 => i = Find(name))
  BY FindIs DEF CatalogInv, IndexOf
<1>2. NewSkill(name, kind) \in Manifest
  <2>1. n + 1 \in Nat /\ 0 \in 0..MaxInstalls /\ "" \in Origins /\ <<>> \in Seq(SkillVersion)
    <3>1. MaxInstalls \in Nat
      BY CatalogFacts, Zenon
    <3>2. n + 1 \in Nat /\ 0 \in 0..MaxInstalls
      BY <1>1, <3>1
    <3>3. "" \in Origins
      BY CatalogFacts, Zenon
    <3>4. <<>> \in Seq(SkillVersion)
      OBVIOUS
    <3> QED BY <3>2, <3>3, <3>4
  <2> QED BY <2>1 DEF NewSkill, Manifest
<1>3. t \in Manifest
  <2>1. ASSUME Find(name) # 0 PROVE [skills[Find(name)] EXCEPT !.kind = kind] \in Manifest
    <3>1. skills[Find(name)] \in Manifest
      BY <1>1, <2>1
    <3> QED BY <3>1 DEF Manifest
  <2> QED BY <1>2, <2>1 DEF Renewed
<1>4. e \in SkillVersion
  BY DEF SkillVersion
<1>5. s \in Manifest
  <2>1. t.versions \in Seq(SkillVersion)
    BY <1>3 DEF Manifest
  <2>2. Append(t.versions, e) \in Seq(SkillVersion)
    BY <1>4, <2>1
  <2> HIDE DEF t, e
  <2> QED BY <1>3, <2>2 DEF Manifest
<1> HIDE DEF n, i
<1>6. Described(name, kind) = [k \in 1..m |-> IF k = i THEN t ELSE skills[k]]
  <2>1. CASE Find(name) = 0
    <3>1. Described(name, kind) = Append(skills, NewSkill(name, kind)) /\ t = NewSkill(name, kind)
          /\ i = n + 1
      BY <1>1, <2>1 DEF Described, Renewed
    <3>2. Append(skills, NewSkill(name, kind))
              = [k \in 1..(n + 1) |-> IF k = n + 1 THEN NewSkill(name, kind) ELSE skills[k]]
      BY <1>1, <1>2, AppendIsFunction DEF n
    <3> QED BY <3>1, <3>2
  <2>2. CASE Find(name) # 0
    <3>1. /\ i = Find(name) /\ i \in 1..n /\ m = n
          /\ t = [skills[i] EXCEPT !.kind = kind]
          /\ Described(name, kind) = [skills EXCEPT ![i].kind = kind]
      <4>1. i = Find(name) /\ i \in 1..n /\ m = n
        BY <1>1, <2>2
      <4>2. t = [skills[Find(name)] EXCEPT !.kind = kind]
        BY <2>2 DEF Renewed
      <4>3. Described(name, kind) = [skills EXCEPT ![Find(name)].kind = kind]
        BY <2>2 DEF Described
      <4> QED BY <4>1, <4>2, <4>3
    <3>2. skills = [k \in 1..n |-> skills[k]]
      BY <1>1 DEF n
    <3> QED BY <3>1, <3>2
  <2> QED BY <2>1, <2>2
<1>7. i \in 1..m
  BY <1>1
<1>8. Published(name, kind, v, by) = [k \in 1..m |-> IF k = i THEN s ELSE skills[k]]
  <2>1. CASE ~Accepts(name, v)
    BY <1>6, <2>1 DEF Published
  <2>2. CASE Accepts(name, v)
    <3> DEFINE d == Described(name, kind)
    <3>1. Published(name, kind, v, by) = [d EXCEPT ![i].versions = Append(@, e), ![i].latest = v]
      BY <2>2 DEF Published, i
    <3>2. d = [k \in 1..m |-> IF k = i THEN t ELSE skills[k]]
      BY <1>6
    <3> HIDE DEF d, e, t
    <3>3. s = [t EXCEPT !.versions = Append(t.versions, e), !.latest = v]
      BY <2>2
    <3>4. t.versions = d[i].versions /\ d[i] = t
      BY <1>7, <3>2
    <3> HIDE DEF s, m
    <3>5. [d EXCEPT ![i].versions = Append(@, e), ![i].latest = v]
              = [d EXCEPT ![i] = [d[i] EXCEPT !.versions = Append(d[i].versions, e), !.latest = v]]
      BY <1>3, <1>7, <3>2, <3>4 DEF Manifest
    <3> QED BY <1>7, <3>1, <3>2, <3>3, <3>4, <3>5
  <2> QED BY <2>1, <2>2
<1>9. /\ i = n + 1 => t = NewSkill(name, kind) /\ n < MaxSkills
      /\ i # n + 1 => i = Find(name) /\ t = [skills[i] EXCEPT !.kind = kind]
  BY <1>1 DEF Renewed, HasRoom, n
<1>10. s = Placed(name, kind, v, by) /\ m = Grown(name)
  BY DEF Placed, Grown, n, i
<1>11. i # n + 1 => i \in 1..n
  BY <1>1
<1> HIDE DEF t, s, m
<1> QED BY <1>1, <1>3, <1>5, <1>8, <1>9, <1>10, <1>11 DEF n, i, t

\* A version that is newer than the latest goes to the end.
LEMMA AppendAscends ==
    ASSUME NEW t \in Manifest, Ascending(t), NEW v \in Versions, NEW by \in Origins,
           TupleLess(Materialize(t.latest), Materialize(v)),
           NEW s, s = [t EXCEPT !.versions = Append(t.versions, [version |-> v, by |-> by]),
                                !.latest = v]
    PROVE  Ascending(s)
<1> DEFINE vs == t.versions
           n == Len(vs)
           e == [version |-> v, by |-> by]
           ws == Append(vs, e)
           key(x) == Materialize(x.version)
<1>1. vs \in Seq(SkillVersion) /\ n \in Nat /\ DOMAIN vs = 1..n /\ e \in SkillVersion
  BY DEF Manifest, SkillVersion
<1>2. s.versions = ws /\ s.latest = v
  BY DEF Manifest
<1>3. /\ ws \in Seq(SkillVersion) /\ Len(ws) = n + 1 /\ DOMAIN ws = 1..(n + 1) /\ ws # <<>>
      /\ ws[n + 1] = e /\ \A i \in 1..n : ws[i] = vs[i]
  <2> HIDE DEF e, vs
  <2> QED BY <1>1
<1>4. e.version = v
  OBVIOUS
<1>5. \A i \in 1..n : vs[i].version \in Versions /\ key(vs[i]) \in Seq(Int)
  <2>1. \A i \in 1..n : vs[i] \in SkillVersion
    BY <1>1
  <2>2. \A i \in 1..n : vs[i].version \in Versions
    BY <2>1 DEF SkillVersion
  <2> QED BY <2>2, VersionsAreTuples
<1>6. \A i, j \in 1..n : i < j => TupleLess(key(vs[i]), key(vs[j]))
  BY <1>1 DEF Ascending
<1>7. \A i \in 1..n : TupleLess(key(vs[i]), Materialize(v))
  <2> TAKE i \in 1..n
  <2>1. t.latest = vs[n].version
    <3>1. n # 0 /\ vs # <<>>
      BY <1>1
    <3>2. t.latest = Last(vs).version
      BY <3>1 DEF Ascending
    <3> QED BY <3>2 DEF Last
  <2>2. TupleLess(key(vs[n]), Materialize(v)) /\ n \in 1..n
    BY <1>1, <2>1
  <2>3. CASE i = n
    BY <2>2, <2>3
  <2>4. CASE i < n
    <3>1. TupleLess(key(vs[i]), key(vs[n]))
      BY <1>6, <2>2, <2>4
    <3>2. Materialize(v) \in Seq(Int)
      BY VersionsAreTuples
    <3> HIDE DEF key, vs, n
    <3> QED BY <1>5, <2>2, <3>1, <3>2, TupleLessTransitive
  <2> QED BY <1>1, <2>3, <2>4
<1>8. Last(ws).version = v
  BY <1>3, <1>4 DEF Last
<1> HIDE DEF ws, vs, n, e
<1>9. ASSUME NEW i \in 1..(n + 1), NEW j \in 1..(n + 1), i < j
      PROVE  TupleLess(Materialize(ws[i].version), Materialize(ws[j].version))
  <2>1. i \in 1..n /\ (j = n + 1 \/ j \in 1..n)
    BY <1>1, <1>9
  <2>2. CASE j = n + 1
    BY <1>3, <1>4, <1>7, <2>1, <2>2
  <2>3. CASE j \in 1..n
    BY <1>3, <1>6, <1>9, <2>1, <2>3
  <2> QED BY <2>1, <2>2, <2>3
<1> QED BY <1>2, <1>3, <1>8, <1>9 DEF Ascending

\* Ids stay apart and installations counted when skills keep theirs and at most one comes in.
LEMMA CatalogKept ==
    ASSUME CatalogInv, skills' \in Seq(Manifest), UNCHANGED installed,
           NEW m \in Nat, m = Len(skills) \/ m = Len(skills) + 1, Len(skills') = m,
           \A k \in 1..Len(skills) : /\ skills'[k].id = skills[k].id
                                     /\ skills'[k].installs >= skills[k].installs,
           m = Len(skills) + 1 =>
               \/ skills'[m].id = m /\ m <= MaxSkills
               \/ /\ skills'[m].id > MaxSkills
                  /\ \A k \in 1..Len(skills) : skills[k].id # skills'[m].id,
           \A k \in 1..m : Ascending(skills'[k])
    PROVE  CatalogInv'
<1> DEFINE n == Len(skills)
           Ids == {skills[k].id : k \in 1..n}
<1>1. /\ n \in Nat /\ MaxSkills \in Nat
      /\ \A k \in 1..n : skills[k] \in Manifest /\ skills[k].id \in Nat /\ skills[k].installs \in Nat
      /\ \A k \in 1..m : skills'[k] \in Manifest /\ skills'[k].id \in Nat /\ skills'[k].installs \in Nat
  <2>1. n \in Nat /\ MaxSkills \in Nat /\ MaxInstalls \in Nat
    BY CatalogFacts, FindIs DEF CatalogInv
  <2>2. \A s \in Manifest : s.id \in Nat /\ s.installs \in Nat
    BY <2>1 DEF Manifest
  <2>3. /\ \A k \in 1..n : skills[k] \in Manifest
        /\ \A k \in 1..m : skills'[k] \in Manifest
    BY <2>1 DEF CatalogInv
  <2> QED BY <2>1, <2>2, <2>3
<1>2. \A k \in 1..n : skills[k].id = k \/ skills[k].id > MaxSkills
  BY DEF CatalogInv
<1>3. ASSUME m = n + 1 PROVE \A k \in 1..n : skills[k].id # skills'[m].id
  <2> TAKE k \in 1..n
  <2>1. k \in Nat /\ k <= n /\ n + 1 > k
    BY <1>1
  <2>2. CASE skills'[m].id = m /\ m <= MaxSkills
    <3>1. skills[k].id = k \/ skills[k].id > MaxSkills
      BY <1>2
    <3> QED BY <1>1, <1>3, <2>1, <2>2, <3>1
  <2>3. CASE \A j \in 1..n : skills[j].id # skills'[m].id
    BY <2>3
  <2> QED BY <1>3, <2>2, <2>3
<1>4. \A k \in 1..m : skills'[k].id = k \/ skills'[k].id > MaxSkills
  BY <1>1, <1>2
<1>5. \A k, l \in 1..m : skills'[k].id = skills'[l].id => k = l
  <2> TAKE k, l \in 1..m
  <2> HAVE skills'[k].id = skills'[l].id
  <2>1. CASE k \in 1..n /\ l \in 1..n
    BY <2>1 DEF CatalogInv
  <2>2. CASE m = n + 1 /\ k = m /\ l \in 1..n
    BY <1>3, <2>2
  <2>3. CASE m = n + 1 /\ l = m /\ k \in 1..n
    BY <1>3, <2>3
  <2> QED BY <1>1, <2>1, <2>2, <2>3
<1>6. installed' \in [AgentIds -> SUBSET {skills'[k].id : k \in 1..m}]
  <2>1. Ids \subseteq {skills'[k].id : k \in 1..m}
    BY <1>1
  <2>2. installed \in [AgentIds -> SUBSET Ids]
    BY DEF CatalogInv
  <2> HIDE DEF Ids
  <2> QED BY <2>1, <2>2
<1>7. ASSUME NEW k \in 1..m
      PROVE  /\ IsFiniteSet({a \in AgentIds : skills'[k].id \in installed'[a]})
             /\ Cardinality({a \in AgentIds : skills'[k].id \in installed'[a]}) <= skills'[k].installs
  <2> DEFINE J == {a \in AgentIds : skills'[k].id \in installed'[a]}
  <2>1. CASE k \in 1..n
    <3>1. J = Installers(skills[k].id)
      BY <2>1 DEF Installers
    <3>2. IsFiniteSet(Installers(skills[k].id)) /\ Cardinality(Installers(skills[k].id)) <= skills[k].installs
          /\ Cardinality(Installers(skills[k].id)) \in Nat
      BY <2>1, FS_CardinalityType DEF CatalogInv
    <3>3. skills'[k].installs >= skills[k].installs /\ skills[k].installs \in Nat /\ skills'[k].installs \in Nat
      BY <1>1, <2>1
    <3>4. IsFiniteSet(J) /\ Cardinality(J) <= skills'[k].installs
      <4> HIDE DEF J
      <4> QED BY <3>1, <3>2, <3>3
    <3> QED BY <3>4
  <2>2. CASE k = m /\ m = n + 1
    <3>1. skills'[k].id \notin Ids
      BY <1>3, <2>2
    <3>2. installed \in [AgentIds -> SUBSET Ids]
      BY DEF CatalogInv
    <3>3. J = {}
      <4> HIDE DEF Ids
      <4> QED BY <3>1, <3>2
    <3>4. IsFiniteSet({}) /\ Cardinality({}) = 0 /\ 0 <= skills'[k].installs
      BY <1>1, FS_EmptySet
    <3>5. IsFiniteSet(J) /\ Cardinality(J) <= skills'[k].installs
      <4> HIDE DEF J
      <4> QED BY <3>3, <3>4
    <3> QED BY <3>5
  <2> QED BY <1>1, <2>1, <2>2
<1> QED BY <1>4, <1>5, <1>6, <1>7 DEF CatalogInv, Installers

\* The skill before the version: as it was but for its kind, or new.
LEMMA RenewedIs ==
    ASSUME CatalogInv, NEW name \in Names, NEW kind \in Kinds, NEW v \in Versions, NEW by \in Origins,
           HasRoom(name)
    PROVE  /\ IndexOf(name) = Len(skills) + 1 =>
                  /\ Renewed(name, kind).id = Len(skills) + 1
                  /\ Renewed(name, kind).versions = <<>> /\ Renewed(name, kind).source = ""
           /\ IndexOf(name) # Len(skills) + 1 =>
                  /\ Renewed(name, kind).id = skills[IndexOf(name)].id
                  /\ Renewed(name, kind).versions = skills[IndexOf(name)].versions
                  /\ Renewed(name, kind).source = skills[IndexOf(name)].source
                  /\ Renewed(name, kind).installs = skills[IndexOf(name)].installs
           /\ Renewed(name, kind).latest = LatestOf(name)
           /\ Ascending(Renewed(name, kind))
<1> DEFINE n == Len(skills)
           t == Renewed(name, kind)
<1> HIDE DEF n, t
<1>1. CASE IndexOf(name) = n + 1
  <2>1. t = NewSkill(name, kind) /\ Find(name) = 0
    BY <1>1, PublishedIs DEF t, n
  <2>2. t.id = n + 1 /\ t.versions = <<>> /\ t.source = "" /\ t.latest = NoVersion
    BY <2>1 DEF NewSkill, n
  <2>3. t.latest = LatestOf(name)
    BY <2>1, <2>2 DEF LatestOf
  <2>4. DOMAIN t.versions = {}
    <3>1. Len(<<>>) = 0 /\ <<>> \in Seq({})
      OBVIOUS
    <3>2. DOMAIN <<>> = 1..0
      BY <3>1
    <3>3. 1..0 = {}
      OBVIOUS
    <3> QED BY <2>2, <3>2, <3>3, Zenon
  <2>5. Ascending(t)
    BY <2>2, <2>4 DEF Ascending
  <2> QED BY <1>1, <2>2, <2>3, <2>5 DEF t, n
<1>2. CASE IndexOf(name) # n + 1
  <2> DEFINE i == IndexOf(name)
  <2>1. t = [skills[i] EXCEPT !.kind = kind] /\ Find(name) # 0 /\ i = Find(name) /\ i \in 1..n
    BY <1>2, PublishedIs DEF t, n
  <2> HIDE DEF i
  <2>2. skills[i] \in Manifest /\ Ascending(skills[i])
    BY <2>1 DEF CatalogInv, n
  <2>3. /\ t.id = skills[i].id /\ t.versions = skills[i].versions /\ t.latest = skills[i].latest
        /\ t.source = skills[i].source /\ t.installs = skills[i].installs
    BY <2>1, <2>2 DEF Manifest
  <2>4. t.latest = LatestOf(name)
    BY <2>1, <2>3 DEF LatestOf
  <2>5. Ascending(t)
    BY <2>2, <2>3 DEF Ascending
  <2> QED BY <1>2, <2>3, <2>4, <2>5 DEF t, n, i
<1> QED BY <1>1, <1>2

\* What publish() leaves behind: skill i has the version if it was accepted, and is otherwise as
\* it was; the others are untouched.
LEMMA PublishKeeps ==
    ASSUME CatalogInv, NEW name \in Names, NEW kind \in Kinds, NEW v \in Versions, NEW by \in Origins,
           HasRoom(name), skills' = Published(name, kind, v, by), UNCHANGED installed
    PROVE  /\ CatalogInv'
           /\ IndexOf(name) \in 1..(Len(skills) + 1) /\ Len(skills) <= Len(skills')
           /\ IndexOf(name) \in 1..Len(skills')
           /\ \A k \in 1..Len(skills') :
                  k = IndexOf(name) \/ (k \in 1..Len(skills) /\ skills'[k] = skills[k])
           /\ IndexOf(name) = Len(skills) + 1 =>
                  /\ skills'[IndexOf(name)].source = ""
                  /\ skills'[IndexOf(name)].versions =
                         IF Accepts(name, v) THEN <<[version |-> v, by |-> by]>> ELSE <<>>
           /\ IndexOf(name) \in 1..Len(skills) =>
                  /\ skills'[IndexOf(name)].source = skills[IndexOf(name)].source
                  /\ skills'[IndexOf(name)].versions =
                         IF Accepts(name, v)
                         THEN Append(skills[IndexOf(name)].versions, [version |-> v, by |-> by])
                         ELSE skills[IndexOf(name)].versions
<1> DEFINE n == Len(skills)
           i == IndexOf(name)
           e == [version |-> v, by |-> by]
           t == Renewed(name, kind)
           m == Grown(name)
           s == Placed(name, kind, v, by)
<1>1. /\ n \in Nat /\ i \in 1..(n + 1) /\ m \in Nat /\ t \in Manifest /\ s \in Manifest
      /\ skills' = [k \in 1..m |-> IF k = i THEN s ELSE skills[k]]
      /\ i = n + 1 => n < MaxSkills
      /\ i # n + 1 => i \in 1..n
  BY PublishedIs
<1>2. m = IF i = n + 1 THEN n + 1 ELSE n
  BY DEF Grown
<1>3. /\ i = n + 1 => t.id = n + 1 /\ t.versions = <<>> /\ t.source = ""
      /\ i # n + 1 => /\ t.id = skills[i].id /\ t.versions = skills[i].versions
                      /\ t.source = skills[i].source /\ t.installs = skills[i].installs
      /\ t.latest = LatestOf(name) /\ Ascending(t)
  BY RenewedIs
<1>4. \A k \in 1..n : skills[k] \in Manifest /\ Ascending(skills[k])
  BY DEF CatalogInv
<1>5. s = IF Accepts(name, v) THEN [t EXCEPT !.versions = Append(t.versions, e), !.latest = v] ELSE t
  BY DEF Placed
<1> HIDE DEF n, i, t, m, s
<1>6. s.id = t.id /\ s.source = t.source /\ s.installs = t.installs
      /\ s.versions = IF Accepts(name, v) THEN Append(t.versions, e) ELSE t.versions
  <2> HIDE DEF e
  <2> QED BY <1>1, <1>5 DEF Manifest
<1>7. Ascending(s)
  <2>1. CASE Accepts(name, v)
    <3>1. TupleLess(Materialize(t.latest), Materialize(v))
      BY <1>3, <2>1 DEF Accepts
    <3>2. s = [t EXCEPT !.versions = Append(t.versions, [version |-> v, by |-> by]), !.latest = v]
      BY <1>5, <2>1
    <3> QED BY <1>1, <1>3, <3>1, <3>2, AppendAscends
  <2>2. CASE ~Accepts(name, v)
    BY <1>3, <1>5, <2>2
  <2> QED BY <2>1, <2>2
<1> HIDE DEF e
<1>8. /\ (m = n \/ m = n + 1) /\ i \in 1..m /\ skills'[i] = s
      /\ \A k \in 1..m : k = i \/ (k \in 1..n /\ skills'[k] = skills[k])
  BY <1>1, <1>2
<1>9. Len(skills') = m /\ skills' \in Seq(Manifest)
  <2>1. \A k \in 1..m : (IF k = i THEN s ELSE skills[k]) \in Manifest
    BY <1>1, <1>4, <1>8
  <2> QED BY <1>1, <2>1
<1>10. CatalogInv'
  <2>1. \A k \in 1..n : skills[k].installs \in Nat
    <3>1. MaxInstalls \in Nat
      BY CatalogFacts, Zenon
    <3> QED BY <1>4, <3>1 DEF Manifest
  <2>2. ASSUME NEW k \in 1..n
        PROVE  skills'[k].id = skills[k].id /\ skills'[k].installs >= skills[k].installs
    <3>1. skills'[k].id = skills[k].id /\ skills'[k].installs = skills[k].installs
      <4>1. CASE k = i
        <5>1. i # n + 1
          BY <1>1, <4>1
        <5> QED BY <1>3, <1>6, <1>8, <4>1, <5>1
      <4>2. CASE k # i
        <5>1. k \in 1..m
          BY <1>1, <1>8
        <5> QED BY <1>8, <4>2, <5>1
      <4> QED BY <4>1, <4>2
    <3>2. skills[k].installs \in Nat /\ skills'[k].installs \in Nat
      BY <2>1, <3>1
    <3> QED BY <3>1, <3>2
  <2>3. ASSUME m = n + 1 PROVE skills'[m].id = m /\ m <= MaxSkills
    <3>1. i = n + 1
      BY <1>1, <1>2, <2>3
    <3>2. skills'[m].id = n + 1
      BY <1>3, <1>6, <1>8, <2>3, <3>1
    <3>3. MaxSkills \in Nat
      BY CatalogFacts, Zenon
    <3>4. n + 1 <= MaxSkills
      BY <1>1, <3>1, <3>3
    <3> QED BY <2>3, <3>2, <3>4
  <2>4. \A k \in 1..m : Ascending(skills'[k])
    BY <1>4, <1>7, <1>8
  <2> QED BY <1>1, <1>8, <1>9, <2>2, <2>3, <2>4, CatalogKept DEF n
<1>11. Append(<<>>, e) = <<e>>
  OBVIOUS
<1>12. i = n + 1 => /\ skills'[i].source = ""
                    /\ skills'[i].versions = IF Accepts(name, v) THEN <<e>> ELSE <<>>
  BY <1>3, <1>6, <1>8, <1>11
<1>13. i \in 1..n => /\ skills'[i].source = skills[i].source
                     /\ skills'[i].versions = IF Accepts(name, v) THEN Append(skills[i].versions, e)
                                              ELSE skills[i].versions
  <2>1. i \in 1..n => i # n + 1
    BY <1>1
  <2> QED BY <1>3, <1>6, <1>8, <2>1
<1>14. i \in 1..(n + 1) /\ n <= Len(skills') /\ i \in 1..Len(skills')
       /\ \A k \in 1..Len(skills') : k = i \/ (k \in 1..n /\ skills'[k] = skills[k])
  BY <1>1, <1>8, <1>9
<1> QED BY <1>10, <1>12, <1>13, <1>14 DEF i, e, n

\* A copy from another catalog keeps its versions.
LEMMA ImportKeeps ==
    ASSUME CatalogInv, NEW m \in Shared, ImportManifest(m)
    PROVE  /\ CatalogInv'
           /\ Len(skills) \in Nat /\ Len(skills') = Len(skills) + 1 /\ skills'[Len(skills) + 1] = m
           /\ \A k \in 1..Len(skills) : skills'[k] = skills[k]
<1> DEFINE n == Len(skills)
<1>1. m \in Manifest /\ m.id > MaxSkills /\ Ascending(m) /\ MaxSkills \in Nat /\ MaxInstalls \in Nat
  BY CatalogFacts
<1>2. /\ skills \in Seq(Manifest) /\ n \in Nat /\ DOMAIN skills = 1..n
      /\ \A k \in 1..n : skills[k] \in Manifest /\ Ascending(skills[k])
  BY DEF CatalogInv
<1>3. skills' = Append(skills, m) /\ UNCHANGED installed /\ \A k \in 1..n : skills[k].id # m.id
  BY <1>2 DEF ImportManifest
<1>4. /\ skills' \in Seq(Manifest) /\ Len(skills') = n + 1 /\ skills'[n + 1] = m
      /\ \A k \in 1..n : skills'[k] = skills[k]
  BY <1>1, <1>2, <1>3
<1>5. \A k \in 1..n : /\ skills'[k].id = skills[k].id /\ skills'[k].installs >= skills[k].installs
  <2>1. \A k \in 1..n : skills[k].installs \in Nat
    BY <1>1, <1>2 DEF Manifest
  <2>2. \A x \in Nat : x >= x
    OBVIOUS
  <2> QED BY <1>4, <2>1, <2>2
<1>6. \A k \in 1..(n + 1) : Ascending(skills'[k])
  BY <1>1, <1>2, <1>4
<1>7. n + 1 \in Nat /\ \A k \in 1..n : skills[k].id # skills'[n + 1].id
  BY <1>2, <1>3, <1>4
<1>8. skills'[n + 1].id > MaxSkills
  BY <1>1, <1>4
<1>9. CatalogInv'
  BY <1>3, <1>4, <1>5, <1>6, <1>7, <1>8, CatalogKept
<1> QED BY <1>2, <1>4, <1>9

\* An installation is counted, whether the agent had the skill or not.
LEMMA InstallKeeps ==
    ASSUME CatalogInv, NEW k \in DOMAIN skills, NEW a \in AgentIds, Install(k, a)
    PROVE  /\ CatalogInv' /\ Len(skills') = Len(skills)
           /\ \A l \in 1..Len(skills) : /\ skills'[l].versions = skills[l].versions
                                        /\ skills'[l].source = skills[l].source
<1> DEFINE n == Len(skills)
           s == [skills[k] EXCEPT !.installs = skills[k].installs + 1]
<1>1. /\ skills \in Seq(Manifest) /\ n \in Nat /\ DOMAIN skills = 1..n /\ k \in 1..n
      /\ \A l \in 1..n : skills[l] \in Manifest /\ Ascending(skills[l])
      /\ \A l, j \in 1..n : skills[l].id = skills[j].id => l = j
      /\ MaxInstalls \in Nat
  <2>1. MaxInstalls \in Nat
    BY CatalogFacts, Zenon
  <2> QED BY <2>1 DEF CatalogInv
<1>2. /\ skills' = [skills EXCEPT ![k] = s] /\ skills[k].installs < MaxInstalls
      /\ installed' = [installed EXCEPT ![a] = installed[a] \cup {skills[k].id}]
  BY DEF Install, Counted
<1>3. /\ s \in Manifest /\ s.id = skills[k].id /\ s.versions = skills[k].versions
      /\ s.latest = skills[k].latest /\ s.source = skills[k].source
      /\ s.installs = skills[k].installs + 1 /\ skills[k].installs \in Nat
  <2>1. skills[k] \in Manifest /\ skills[k].installs + 1 \in 0..MaxInstalls
    <3>1. skills[k] \in Manifest /\ skills[k].installs \in 0..MaxInstalls
      BY <1>1 DEF Manifest
    <3> QED BY <1>1, <1>2, <3>1
  <2>2. skills[k].installs \in Nat
    BY <1>1, <2>1 DEF Manifest
  <2> QED BY <2>1, <2>2 DEF Manifest
<1> HIDE DEF s
<1>4. /\ skills' \in Seq(Manifest) /\ Len(skills') = n
      /\ \A l \in 1..n : skills'[l] = IF l = k THEN s ELSE skills[l]
  BY <1>1, <1>2, <1>3
<1>5. /\ \A l \in 1..n : /\ skills'[l].versions = skills[l].versions /\ skills'[l].id = skills[l].id
                         /\ skills'[l].source = skills[l].source
                         /\ skills'[l].latest = skills[l].latest
  BY <1>3, <1>4
<1>6. \A l \in 1..n : Ascending(skills'[l])
  BY <1>1, <1>5 DEF Ascending
<1>7. installed' \in [AgentIds -> SUBSET {skills'[l].id : l \in 1..n}]
  <2> DEFINE Ids == {skills[l].id : l \in 1..n}
  <2>1. installed \in [AgentIds -> SUBSET Ids] /\ skills[k].id \in Ids
    BY <1>1 DEF CatalogInv
  <2>2. {skills'[l].id : l \in 1..n} = Ids
    BY <1>5
  <2> HIDE DEF Ids
  <2> QED BY <1>2, <2>1, <2>2
<1>8. ASSUME NEW l \in 1..n
      PROVE  /\ IsFiniteSet({b \in AgentIds : skills'[l].id \in installed'[b]})
             /\ Cardinality({b \in AgentIds : skills'[l].id \in installed'[b]}) <= skills'[l].installs
  <2> DEFINE J == {b \in AgentIds : skills'[l].id \in installed'[b]}
             I == Installers(skills[l].id)
  <2>1. IsFiniteSet(I) /\ Cardinality(I) \in Nat /\ Cardinality(I) <= skills[l].installs
        /\ skills[l].installs \in Nat
    <3>1. IsFiniteSet(I) /\ Cardinality(I) <= skills[l].installs
      BY DEF CatalogInv
    <3>2. skills[l].installs \in Nat
      BY <1>1 DEF Manifest
    <3> QED BY <3>1, <3>2, FS_CardinalityType
  <2>2. installed \in [AgentIds -> SUBSET {skills[j].id : j \in 1..n}]
    BY DEF CatalogInv
  <2>3. CASE l = k
    <3>1. J = I \cup {a}
      BY <1>2, <1>5, <2>2, <2>3 DEF Installers
    <3>2. skills'[l].installs = skills[l].installs + 1
      BY <1>3, <1>4, <2>3
    <3>3. IsFiniteSet(J) /\ Cardinality(J) <= skills'[l].installs
      <4> HIDE DEF J, I
      <4>1. IsFiniteSet(I \cup {a}) /\ Cardinality(I \cup {a}) = IF a \in I THEN Cardinality(I) ELSE Cardinality(I) + 1
        BY <2>1, FS_AddElement
      <4> QED BY <2>1, <3>1, <3>2, <4>1
    <3> QED BY <3>3
  <2>4. CASE l # k
    <3>1. J = I
      <4>1. skills[l].id # skills[k].id
        BY <1>1, <2>4
      <4> QED BY <1>2, <1>5, <2>2, <4>1 DEF Installers
    <3>2. skills'[l].installs = skills[l].installs
      BY <1>4, <2>4
    <3>3. IsFiniteSet(J) /\ Cardinality(J) <= skills'[l].installs
      <4> HIDE DEF J, I
      <4> QED BY <2>1, <3>1, <3>2
    <3> QED BY <3>3
  <2> QED BY <2>3, <2>4
<1>9. \A l \in 1..n : skills'[l].id = l \/ skills'[l].id > MaxSkills
  BY <1>5 DEF CatalogInv
<1>10. \A l, j \in 1..n : skills'[l].id = skills'[j].id => l = j
  BY <1>1, <1>5
<1>11. CatalogInv'
  BY <1>4, <1>6, <1>7, <1>8, <1>9, <1>10 DEF CatalogInv, Installers
<1> QED BY <1>4, <1>5, <1>11

\* remove() forgets an installation, not that it was counted.
LEMMA UninstallKeeps ==
    ASSUME CatalogInv, NEW k \in DOMAIN skills, NEW a \in AgentIds, Uninstall(k, a)
    PROVE  CatalogInv' /\ UNCHANGED skills
<1> DEFINE n == Len(skills)
<1>1. UNCHANGED skills /\ installed' = [installed EXCEPT ![a] = installed[a] \ {skills[k].id}]
  BY DEF Uninstall
<1>2. installed \in [AgentIds -> SUBSET {skills[l].id : l \in 1..n}]
  BY DEF CatalogInv
<1>3. installed' \in [AgentIds -> SUBSET {skills'[l].id : l \in 1..n}] /\ \A b \in AgentIds : installed'[b] \subseteq installed[b]
  BY <1>1, <1>2
<1>4. ASSUME NEW l \in 1..n
      PROVE  /\ IsFiniteSet({b \in AgentIds : skills[l].id \in installed'[b]})
             /\ Cardinality({b \in AgentIds : skills[l].id \in installed'[b]}) <= skills[l].installs
  <2> DEFINE J == {b \in AgentIds : skills[l].id \in installed'[b]}
             I == Installers(skills[l].id)
  <2>1. IsFiniteSet(I) /\ Cardinality(I) <= skills[l].installs /\ skills[l].installs \in Nat
    <3>1. MaxInstalls \in Nat
      BY CatalogFacts, Zenon
    <3>2. skills[l] \in Manifest
      BY DEF CatalogInv
    <3>3. skills[l].installs \in Nat
      BY <3>1, <3>2 DEF Manifest
    <3> QED BY <3>3 DEF CatalogInv
  <2>2. J \subseteq I
    BY <1>3 DEF Installers
  <2>3. IsFiniteSet(J) /\ Cardinality(J) <= skills[l].installs
    <3> HIDE DEF I, J
    <3>1. IsFiniteSet(J) /\ Cardinality(J) <= Cardinality(I)
      BY <2>1, <2>2, FS_Subset
    <3>2. Cardinality(J) \in Nat /\ Cardinality(I) \in Nat
      BY <2>1, <3>1, FS_CardinalityType
    <3> QED BY <2>1, <3>1, <3>2
  <2> QED BY <2>3
<1>5. CatalogInv'
  BY <1>1, <1>3, <1>4 DEF CatalogInv, Installers
<1> QED BY <1>1, <1>5

-----------------------------------------------------------------------------
(* Syncs.                                                                  *)

\* The registries whose versions these are.
Registries(vs) == {vs[i].by : i \in DOMAIN vs} \cap Urls

LEMMA RegistriesAppend ==
    ASSUME NEW vs \in Seq(SkillVersion), NEW e
    PROVE  /\ Registries(Append(vs, e)) = Registries(vs) \cup ({e.by} \cap Urls)
           /\ Registries(<<e>>) = {e.by} \cap Urls
           /\ Registries(<<>>) = {}
<1> DEFINE n == Len(vs)
<1>2. n \in Nat /\ DOMAIN vs = 1..n
  OBVIOUS
<1>3. /\ DOMAIN Append(vs, e) = 1..(n + 1) /\ Append(vs, e)[n + 1] = e
      /\ \A i \in 1..n : Append(vs, e)[i] = vs[i]
  BY <1>2
<1>4. 1..(n + 1) = 1..n \cup {n + 1}
  BY <1>2
<1> HIDE DEF n
<1>5. {Append(vs, e)[i].by : i \in DOMAIN Append(vs, e)} = {vs[i].by : i \in DOMAIN vs} \cup {e.by}
  BY <1>2, <1>3, <1>4
<1>6. Registries(Append(vs, e)) = Registries(vs) \cup ({e.by} \cap Urls)
  BY <1>5 DEF Registries
<1>7. DOMAIN <<e>> = {1} /\ <<e>>[1] = e
  OBVIOUS
<1>8. Registries(<<e>>) = {e.by} \cap Urls
  BY <1>7 DEF Registries
<1>9. DOMAIN <<>> = {}
  <2>1. Len(<<>>) = 0 /\ <<>> \in Seq({})
    OBVIOUS
  <2>2. DOMAIN <<>> = 1..0
    BY <2>1
  <2>3. 1..0 = {}
    OBVIOUS
  <2> QED BY <2>2, <2>3, Zenon
<1>10. Registries(<<>>) = {}
  BY <1>9, Zenon DEF Registries
<1> QED BY <1>6, <1>8, <1>10

\* The requests, and what each has yet to do.
Offered == [name : Names, kind : Kinds, versions : Seq(Versions)]
SyncTyped ==
    /\ sources \in Seq(Urls)
    /\ stage \in [Requests -> {"new", "fetch", "publish", "stamp", "record", "over"}]
    /\ urls \in [Requests -> Seq(Urls)]
    /\ offer \in [Requests -> Offered \cup {NoOffer}]
    /\ todo \in [Requests -> Seq(Versions)]
    /\ reached \in [Requests -> Nat]
    /\ \A r \in Requests :
           /\ stage[r] \in {"fetch", "publish", "stamp", "record"} => urls[r] # <<>>
           /\ stage[r] \in {"publish", "stamp", "record"} => offer[r] \in Offered

\* A skill with versions from registries names one, or a request is about to stamp it; and
\* that request's registry is among them.
Stamping(r, k) == stage[r] = "stamp" /\ reached[r] = k
Provenance ==
    /\ \A r \in Requests : stage[r] = "stamp" =>
           /\ reached[r] \in 1..Len(skills)
           /\ Head(urls[r]) \in Registries(skills[reached[r]].versions)
    /\ \A k \in 1..Len(skills) :
           \/ Registries(skills[k].versions) = {}
           \/ skills[k].source \in Registries(skills[k].versions)
           \/ \E r \in Requests : Stamping(r, k)

\* What the assumptions say of registries.
LEMMA SyncFacts ==
    /\ "api" \notin Urls /\ Urls \subseteq Origins
    /\ \A u \in Urls : Offers[u] \subseteq Offered
    /\ \A m \in Shared : Registries(m.versions) = {}
<1>1. Urls \subseteq Origins \ {"", "api"}
  BY SyncAssumption, Zenon
<1>2. Offers \in [Urls -> SUBSET Offered]
  BY SyncAssumption, Zenon DEF Offered
<1>3. \A m \in Shared : \A k \in DOMAIN m.versions : m.versions[k].by \notin Urls
  BY SyncAssumption, Zenon
<1>4. \A m \in Shared : Registries(m.versions) = {}
  BY <1>3 DEF Registries
<1> QED BY <1>1, <1>2, <1>4

\* A step that stamps nothing and adds no version of a registry leaves each skill as well
\* accounted for as it was.
LEMMA ProvenanceStep ==
    ASSUME Provenance, Len(skills) \in Nat, Len(skills') \in Nat, Len(skills) <= Len(skills'),
           \A k \in 1..Len(skills) :
               /\ Registries(skills'[k].versions) = Registries(skills[k].versions)
               /\ skills'[k].source = skills[k].source,
           \A k \in 1..Len(skills') : k \in 1..Len(skills) \/ Registries(skills'[k].versions) = {},
           \A r \in Requests : (stage[r] = "stamp" \/ stage'[r] = "stamp") =>
               stage'[r] = stage[r] /\ reached'[r] = reached[r] /\ urls'[r] = urls[r]
    PROVE  Provenance'
<1>1. ASSUME NEW r \in Requests, stage'[r] = "stamp"
      PROVE  /\ reached'[r] \in 1..Len(skills')
             /\ Head(urls'[r]) \in Registries(skills'[reached'[r]].versions)
  <2>1. stage[r] = "stamp" /\ reached'[r] = reached[r] /\ urls'[r] = urls[r]
    BY <1>1
  <2>2. reached[r] \in 1..Len(skills) /\ Head(urls[r]) \in Registries(skills[reached[r]].versions)
    BY <2>1 DEF Provenance
  <2>3. reached[r] \in 1..Len(skills')
    BY <2>2
  <2> QED BY <2>1, <2>2, <2>3
<1>2. ASSUME NEW k \in 1..Len(skills')
      PROVE  \/ Registries(skills'[k].versions) = {}
             \/ skills'[k].source \in Registries(skills'[k].versions)
             \/ \E r \in Requests : stage'[r] = "stamp" /\ reached'[r] = k
  <2>1. CASE k \in 1..Len(skills)
    <3>1. CASE \E r \in Requests : Stamping(r, k)
      BY <3>1 DEF Stamping
    <3>2. CASE ~\E r \in Requests : Stamping(r, k)
      BY <2>1, <3>2 DEF Provenance
    <3> QED BY <3>1, <3>2
  <2>2. CASE k \notin 1..Len(skills)
    BY <2>2
  <2> QED BY <2>1, <2>2
<1> QED BY <1>1, <1>2 DEF Provenance, Stamping

\* What publish() does to the registries a skill has versions from.
LEMMA PublishedRegistries ==
    ASSUME CatalogInv, NEW name \in Names, NEW kind \in Kinds, NEW v \in Versions, NEW by \in Origins,
           HasRoom(name), skills' = Published(name, kind, v, by), UNCHANGED installed
    PROVE  /\ CatalogInv' /\ Len(skills) \in Nat /\ Len(skills') \in Nat /\ Len(skills) <= Len(skills')
           /\ IndexOf(name) \in 1..Len(skills')
           /\ \A k \in 1..Len(skills) : /\ skills'[k].source = skills[k].source
                                        /\ k # IndexOf(name) \/ ~Accepts(name, v) =>
                                               Registries(skills'[k].versions) = Registries(skills[k].versions)
           /\ \A k \in 1..Len(skills') :
                  \/ k \in 1..Len(skills)
                  \/ k = IndexOf(name)
           /\ IndexOf(name) \notin 1..Len(skills) =>
                  Registries(skills'[IndexOf(name)].versions) =
                      IF Accepts(name, v) THEN {by} \cap Urls ELSE {}
           /\ IndexOf(name) \in 1..Len(skills) /\ Accepts(name, v) =>
                  Registries(skills'[IndexOf(name)].versions) =
                      Registries(skills[IndexOf(name)].versions) \cup ({by} \cap Urls)
<1> DEFINE n == Len(skills)
           i == IndexOf(name)
           e == [version |-> v, by |-> by]
<1>1. /\ CatalogInv'
      /\ i \in 1..(n + 1) /\ n <= Len(skills') /\ i \in 1..Len(skills')
      /\ \A k \in 1..Len(skills') : k = i \/ (k \in 1..n /\ skills'[k] = skills[k])
      /\ i = n + 1 => /\ skills'[i].source = ""
                      /\ skills'[i].versions = IF Accepts(name, v) THEN <<e>> ELSE <<>>
      /\ i \in 1..n => /\ skills'[i].source = skills[i].source
                       /\ skills'[i].versions = IF Accepts(name, v) THEN Append(skills[i].versions, e)
                                                ELSE skills[i].versions
  BY PublishKeeps
<1>2. /\ n \in Nat /\ Len(skills') \in Nat
      /\ \A k \in 1..n : skills[k].versions \in Seq(SkillVersion)
  <2>1. /\ n \in Nat /\ \A k \in 1..n : skills[k] \in Manifest
    BY DEF CatalogInv
  <2>2. Len(skills') \in Nat
    <3>1. skills' \in Seq(Manifest)
      BY <1>1, Zenon DEF CatalogInv
    <3> QED BY <3>1
  <2> QED BY <2>1, <2>2 DEF Manifest
<1> HIDE DEF n, i
<1>3. i = n + 1 => Registries(skills'[i].versions) = IF Accepts(name, v) THEN {by} \cap Urls ELSE {}
  <2>1. <<>> \in Seq(SkillVersion)
    OBVIOUS
  <2>3. e.by = by
    OBVIOUS
  <2> HIDE DEF e
  <2>2. Registries(<<e>>) = {by} \cap Urls /\ Registries(<<>>) = {}
    BY <2>1, <2>3, RegistriesAppend
  <2> QED BY <1>1, <2>2
<1>4. i \in 1..n /\ Accepts(name, v) =>
          Registries(skills'[i].versions) = Registries(skills[i].versions) \cup ({by} \cap Urls)
  <2> SUFFICES ASSUME i \in 1..n, Accepts(name, v)
               PROVE  Registries(skills'[i].versions) = Registries(skills[i].versions) \cup ({by} \cap Urls)
    OBVIOUS
  <2>1. skills[i].versions \in Seq(SkillVersion)
    BY <1>2
  <2>2. e.by = by
    OBVIOUS
  <2> HIDE DEF e
  <2>3. Registries(Append(skills[i].versions, e)) = Registries(skills[i].versions) \cup ({e.by} \cap Urls)
    BY <2>1, RegistriesAppend
  <2> QED BY <1>1, <2>2, <2>3
<1>5. i \in 1..n /\ ~Accepts(name, v) => Registries(skills'[i].versions) = Registries(skills[i].versions)
  BY <1>1
<1> HIDE DEF e
<1>6. n \in Nat /\ Len(skills') \in Nat /\ n <= Len(skills') /\ i \in 1..(n + 1)
  BY <1>1, <1>2, Zenon
<1>10. (\A k \in 1..n : k \in 1..Len(skills')) /\ (i \notin 1..n => i = n + 1)
  BY <1>6
<1>7. \A k \in 1..n : /\ skills'[k].source = skills[k].source
                      /\ k # i \/ ~Accepts(name, v) =>
                             Registries(skills'[k].versions) = Registries(skills[k].versions)
  <2> TAKE k \in 1..n
  <2>1. CASE k = i
    BY <1>1, <1>5, <2>1
  <2>2. CASE k # i
    BY <1>1, <1>10, <2>2
  <2> QED BY <2>1, <2>2
<1>8. \A k \in 1..Len(skills') : k \in 1..n \/ k = i
  BY <1>1
<1> QED BY <1>1, <1>2, <1>3, <1>4, <1>7, <1>8, <1>10 DEF n, i

\* The whole of what a step of the marketplace keeps.
MarketInv == CatalogInv /\ SyncTyped /\ Provenance

\* Initially there is nothing.
LEMMA MarketInit == Init => MarketInv
<1> SUFFICES ASSUME Init PROVE MarketInv
  OBVIOUS
<1> USE DEF Init, CatalogInit
<1>1. /\ skills = <<>> /\ skills \in Seq(Manifest) /\ 1..Len(skills) = {}
      /\ installed = [a \in AgentIds |-> {}]
  OBVIOUS
<1>2. CatalogInv
  BY <1>1 DEF CatalogInv
<1>3. SyncTyped
  <2>1. <<>> \in Seq(Urls) /\ <<>> \in Seq(Versions)
    OBVIOUS
  <2> QED BY <2>1 DEF SyncTyped
<1>4. Provenance
  <2>1. \A r \in Requests : stage[r] # "stamp"
    OBVIOUS
  <2> QED BY <1>1, <2>1 DEF Provenance
<1> QED BY <1>2, <1>3, <1>4 DEF MarketInv

\* The catalog's own users: their versions are of no registry, and neither is a copy.
LEMMA UseCatalogKeeps ==
    ASSUME MarketInv, UseCatalog
    PROVE  MarketInv'
<1> USE DEF MarketInv
<1>1. CatalogNext /\ UNCHANGED syncVars
  BY DEF UseCatalog
<1>2. SyncTyped'
  BY <1>1 DEF SyncTyped, syncVars
<1>3. Len(skills) \in Nat
  BY FindIs DEF CatalogInv
<1>4. \A r \in Requests : stage'[r] = stage[r] /\ reached'[r] = reached[r] /\ urls'[r] = urls[r]
  BY <1>1 DEF syncVars
<1>5. ASSUME NEW name \in Names, NEW kind \in Kinds, NEW v \in Versions, Publish(name, kind, v)
      PROVE  CatalogInv' /\ Provenance'
  <2>1. "api" \in Origins /\ {"api"} \cap Urls = {}
    <3>1. "api" \in Origins
      BY CatalogFacts, Zenon
    <3>2. "api" \notin Urls
      BY SyncFacts, Zenon
    <3> QED BY <3>1, <3>2
  <2>2. HasRoom(name) /\ skills' = Published(name, kind, v, "api") /\ UNCHANGED installed
    BY <1>5 DEF Publish
  <2>3. /\ CatalogInv' /\ Len(skills') \in Nat /\ Len(skills) <= Len(skills')
        /\ \A k \in 1..Len(skills) : /\ skills'[k].source = skills[k].source
                                     /\ k # IndexOf(name) \/ ~Accepts(name, v) =>
                                            Registries(skills'[k].versions) = Registries(skills[k].versions)
        /\ \A k \in 1..Len(skills') : k \in 1..Len(skills) \/ k = IndexOf(name)
        /\ IndexOf(name) \notin 1..Len(skills) =>
               Registries(skills'[IndexOf(name)].versions) = IF Accepts(name, v) THEN {"api"} \cap Urls ELSE {}
        /\ IndexOf(name) \in 1..Len(skills) /\ Accepts(name, v) =>
               Registries(skills'[IndexOf(name)].versions)
                   = Registries(skills[IndexOf(name)].versions) \cup ({"api"} \cap Urls)
    BY <2>1, <2>2, PublishedRegistries
  <2>4. \A k \in 1..Len(skills) : /\ Registries(skills'[k].versions) = Registries(skills[k].versions)
                                  /\ skills'[k].source = skills[k].source
    BY <2>1, <2>3
  <2>5. \A k \in 1..Len(skills') : k \in 1..Len(skills) \/ Registries(skills'[k].versions) = {}
    BY <2>1, <2>3
  <2>6. Provenance'
    BY <1>3, <1>4, <2>3, <2>4, <2>5, ProvenanceStep
  <2> QED BY <2>3, <2>6
<1>6. ASSUME NEW m \in Shared, ImportManifest(m)
      PROVE  CatalogInv' /\ Provenance'
  <2>1. /\ CatalogInv' /\ Len(skills') = Len(skills) + 1 /\ skills'[Len(skills) + 1] = m
        /\ \A k \in 1..Len(skills) : skills'[k] = skills[k]
    BY <1>6, ImportKeeps
  <2>2. Registries(m.versions) = {}
    BY SyncFacts, Zenon
  <2>3. Len(skills') \in Nat /\ Len(skills) <= Len(skills')
        /\ \A k \in 1..Len(skills') : k \in 1..Len(skills) \/ k = Len(skills) + 1
    BY <1>3, <2>1
  <2>4. \A k \in 1..Len(skills') : k \in 1..Len(skills) \/ Registries(skills'[k].versions) = {}
    BY <2>1, <2>2, <2>3
  <2>5. Provenance'
    BY <1>3, <1>4, <2>1, <2>3, <2>4, ProvenanceStep
  <2> QED BY <2>1, <2>5
<1>7. ASSUME NEW k \in DOMAIN skills, NEW a \in AgentIds, Install(k, a)
      PROVE  CatalogInv' /\ Provenance'
  <2>1. /\ CatalogInv' /\ Len(skills') = Len(skills)
        /\ \A l \in 1..Len(skills) : /\ skills'[l].versions = skills[l].versions
                                     /\ skills'[l].source = skills[l].source
    BY <1>7, InstallKeeps
  <2>2. Provenance'
    BY <1>3, <1>4, <2>1, ProvenanceStep
  <2> QED BY <2>1, <2>2
<1>8. ASSUME NEW k \in DOMAIN skills, NEW a \in AgentIds, Uninstall(k, a)
      PROVE  CatalogInv' /\ Provenance'
  <2>1. CatalogInv' /\ UNCHANGED skills
    BY <1>8, UninstallKeeps
  <2>2. Provenance'
    BY <1>3, <1>4, <2>1, ProvenanceStep
  <2> QED BY <2>1, <2>2
<1>9. CatalogInv' /\ Provenance'
  BY <1>1, <1>5, <1>6, <1>7, <1>8 DEF CatalogNext
<1> QED BY <1>2, <1>9

\* Registering, starting and ending a request, and fetching, leave the catalog alone.
LEMMA RequestKeeps ==
    ASSUME MarketInv,
           \/ \E u \in Urls : RegisterSource(u)
           \/ \E r \in Requests : \/ Sync(r) \/ SyncAll(r) \/ Fetch(r) \/ FetchFails(r)
                                  \/ AllTried(r) \/ RecordSync(r)
    PROVE  MarketInv'
<1> USE DEF MarketInv
<1> DEFINE Quiet == /\ UNCHANGED catalogVars
                    /\ \A q \in Requests : (stage[q] = "stamp" \/ stage'[q] = "stamp") =>
                           stage'[q] = stage[q] /\ reached'[q] = reached[q] /\ urls'[q] = urls[q]
<1>1. ASSUME NEW u \in Urls, RegisterSource(u) PROVE SyncTyped' /\ Quiet
  <2>1. sources' \in Seq(Urls)
    BY <1>1 DEF RegisterSource, SyncTyped
  <2> QED BY <1>1, <2>1 DEF RegisterSource, SyncTyped
<1>2. ASSUME NEW r \in Requests, NEW us \in Seq(Urls), Start(r, us) PROVE SyncTyped' /\ Quiet
  BY <1>2 DEF Start, SyncTyped
<1>3. ASSUME NEW r \in Requests, Sync(r) \/ SyncAll(r) PROVE SyncTyped' /\ Quiet
  <2>1. sources \in Seq(Urls) /\ \A u \in Urls : <<u>> \in Seq(Urls)
    BY DEF SyncTyped
  <2> HIDE DEF Quiet
  <2> QED BY <1>2, <1>3, <2>1 DEF Sync, SyncAll
<1>4. ASSUME NEW r \in Requests, Fetch(r) PROVE SyncTyped' /\ Quiet
  <2>1. urls[r] \in Seq(Urls) /\ urls[r] # <<>> /\ Head(urls[r]) \in Urls
    BY <1>4 DEF Fetch, SyncTyped
  <2>2. PICK m \in Offers[Head(urls[r])] :
            /\ stage[r] = "fetch" /\ stage' = [stage EXCEPT ![r] = "publish"]
            /\ offer' = [offer EXCEPT ![r] = m]
            /\ todo' = [todo EXCEPT ![r] = InOrder(m.versions)]
            /\ UNCHANGED <<catalogVars, sources, urls, reached, synced, outcomes>>
    BY <1>4 DEF Fetch
  <2>3. m \in Offered
    BY <2>1, SyncFacts
  <2>4. InOrder(m.versions) \in Seq(Versions)
    BY <2>3, InOrderIsOffered DEF Offered
  <2> HIDE DEF Quiet
  <2>5. SyncTyped'
    BY <2>1, <2>2, <2>3, <2>4 DEF SyncTyped
  <2>6. Quiet
    BY <2>2 DEF Quiet, SyncTyped
  <2> QED BY <2>5, <2>6
<1>5. ASSUME NEW r \in Requests, FetchFails(r) PROVE SyncTyped' /\ Quiet
  BY <1>5 DEF FetchFails, End, SyncTyped
<1>6. ASSUME NEW r \in Requests, AllTried(r) PROVE SyncTyped' /\ Quiet
  <2>1. stage[r] = "publish" /\ UNCHANGED <<catalogVars, sources, offer, todo, reached>>
    BY <1>6 DEF AllTried
  <2>2. CASE reached[r] = 0
    <3>1. stage' = [stage EXCEPT ![r] = "over"] /\ urls' = [urls EXCEPT ![r] = <<>>]
      BY <1>6, <2>2 DEF AllTried, End
    <3> QED BY <2>1, <3>1 DEF SyncTyped
  <2>3. CASE reached[r] # 0
    <3>1. stage' = [stage EXCEPT ![r] = "record"] /\ UNCHANGED urls
      BY <1>6, <2>3 DEF AllTried
    <3> QED BY <2>1, <3>1 DEF SyncTyped
  <2> QED BY <2>2, <2>3
<1>7. ASSUME NEW r \in Requests, RecordSync(r) PROVE SyncTyped' /\ Quiet
  <2>1. urls[r] \in Seq(Urls) /\ urls[r] # <<>> /\ Tail(urls[r]) \in Seq(Urls)
    BY <1>7 DEF RecordSync, SyncTyped
  <2> QED BY <1>7, <2>1 DEF RecordSync, SyncTyped
<1>8. SyncTyped' /\ Quiet
  <2> HIDE DEF Quiet
  <2> QED BY <1>1, <1>3, <1>4, <1>5, <1>6, <1>7
<1>9. CatalogInv'
  BY <1>8 DEF CatalogInv, Installers, catalogVars
<1>10. Provenance'
  <2>1. Len(skills) \in Nat
    BY FindIs DEF CatalogInv
  <2> QED BY <1>8, <2>1, ProvenanceStep DEF catalogVars
<1> QED BY <1>8, <1>9, <1>10

\* A sync publishes a version: if the catalog takes it, the skill is about to be stamped.
LEMMA PublishNextKeeps ==
    ASSUME MarketInv, NEW r \in Requests, PublishNext(r)
    PROVE  MarketInv'
<1> USE DEF MarketInv
<1> DEFINE name == offer[r].name
           v == Head(todo[r])
           u == Head(urls[r])
           i == IndexOf(name)
<1>1. /\ stage[r] = "publish" /\ todo[r] # <<>> /\ HasRoom(name)
      /\ skills' = Published(name, offer[r].kind, v, u)
      /\ Accepts(name, v) => /\ stage' = [stage EXCEPT ![r] = "stamp"]
                             /\ reached' = [reached EXCEPT ![r] = i]
      /\ ~Accepts(name, v) => UNCHANGED <<stage, reached>>
      /\ todo' = [todo EXCEPT ![r] = Tail(todo[r])]
      /\ UNCHANGED <<installed, sources, urls, offer>>
  BY DEF PublishNext
<1>2. name \in Names /\ offer[r].kind \in Kinds /\ v \in Versions /\ u \in Urls /\ u \in Origins
  <2>1. offer[r] \in Offered /\ todo[r] \in Seq(Versions) /\ urls[r] \in Seq(Urls) /\ urls[r] # <<>>
    BY <1>1 DEF SyncTyped
  <2>2. Urls \subseteq Origins
    BY SyncFacts, Zenon
  <2> QED BY <1>1, <2>1, <2>2 DEF Offered
<1> HIDE DEF name, v, u, i
<1>3. /\ CatalogInv' /\ Len(skills) \in Nat /\ Len(skills') \in Nat /\ Len(skills) <= Len(skills')
      /\ i \in 1..Len(skills')
      /\ \A k \in 1..Len(skills) : /\ skills'[k].source = skills[k].source
                                   /\ k # i \/ ~Accepts(name, v) =>
                                          Registries(skills'[k].versions) = Registries(skills[k].versions)
      /\ \A k \in 1..Len(skills') : k \in 1..Len(skills) \/ k = i
      /\ i \notin 1..Len(skills) =>
             Registries(skills'[i].versions) = IF Accepts(name, v) THEN {u} \cap Urls ELSE {}
      /\ i \in 1..Len(skills) /\ Accepts(name, v) =>
             Registries(skills'[i].versions) = Registries(skills[i].versions) \cup ({u} \cap Urls)
  BY <1>1, <1>2, PublishedRegistries DEF i
<1>4. SyncTyped'
  <2>1. Tail(todo[r]) \in Seq(Versions)
    BY <1>1 DEF SyncTyped
  <2>2. CASE Accepts(name, v)
    <3>1. i \in Nat
      BY <1>3
    <3> QED BY <1>1, <2>1, <2>2, <3>1 DEF SyncTyped
  <2>3. CASE ~Accepts(name, v)
    BY <1>1, <2>1, <2>3 DEF SyncTyped
  <2> QED BY <2>2, <2>3
<1>5. CASE ~Accepts(name, v)
  <2>1. \A k \in 1..Len(skills') : k \in 1..Len(skills) \/ Registries(skills'[k].versions) = {}
    BY <1>3, <1>5
  <2>2. Provenance'
    BY <1>1, <1>3, <1>5, <2>1, ProvenanceStep
  <2> QED BY <1>3, <1>4, <2>2
<1>6. CASE Accepts(name, v)
  <2>1. /\ stage'[r] = "stamp" /\ reached'[r] = i
        /\ \A q \in Requests \ {r} : stage'[q] = stage[q] /\ reached'[q] = reached[q]
        /\ UNCHANGED urls
    BY <1>1, <1>6 DEF SyncTyped
  <2>2. u \in Registries(skills'[i].versions)
    BY <1>2, <1>3, <1>6
  <2>3. \A k \in 1..Len(skills) :
            /\ k \in 1..Len(skills')
            /\ Registries(skills[k].versions) \subseteq Registries(skills'[k].versions)
    <3> TAKE k \in 1..Len(skills)
    <3>1. k \in 1..Len(skills')
      BY <1>3
    <3>2. CASE k = i
      BY <1>3, <1>6, <3>1, <3>2
    <3>3. CASE k # i
      BY <1>3, <3>1, <3>3
    <3> QED BY <3>1, <3>2, <3>3
  <2>4. ASSUME NEW q \in Requests, stage'[q] = "stamp"
        PROVE  /\ reached'[q] \in 1..Len(skills')
               /\ Head(urls'[q]) \in Registries(skills'[reached'[q]].versions)
    <3>1. CASE q = r
      BY <1>3, <2>1, <2>2, <3>1 DEF u
    <3>2. CASE q # r
      <4>1. stage[q] = "stamp" /\ reached'[q] = reached[q] /\ urls'[q] = urls[q]
        BY <2>1, <2>4, <3>2
      <4>2. reached[q] \in 1..Len(skills) /\ Head(urls[q]) \in Registries(skills[reached[q]].versions)
        BY <4>1 DEF Provenance
      <4> QED BY <2>3, <4>1, <4>2
    <3> QED BY <3>1, <3>2
  <2>5. ASSUME NEW k \in 1..Len(skills')
        PROVE  \/ Registries(skills'[k].versions) = {}
               \/ skills'[k].source \in Registries(skills'[k].versions)
               \/ \E q \in Requests : stage'[q] = "stamp" /\ reached'[q] = k
    <3>1. CASE k = i
      BY <2>1, <3>1
    <3>2. CASE k # i
      <4>1. /\ k \in 1..Len(skills) /\ skills'[k].source = skills[k].source
            /\ Registries(skills'[k].versions) = Registries(skills[k].versions)
        BY <1>3, <3>2
      <4>2. ASSUME NEW q \in Requests, Stamping(q, k)
            PROVE  stage'[q] = "stamp" /\ reached'[q] = k
        <5>1. q # r
          BY <1>1, <4>2 DEF Stamping
        <5> QED BY <2>1, <4>2, <5>1 DEF Stamping
      <4>3. \/ Registries(skills[k].versions) = {}
            \/ skills[k].source \in Registries(skills[k].versions)
            \/ \E q \in Requests : Stamping(q, k)
        BY <4>1 DEF Provenance
      <4> QED BY <4>1, <4>2, <4>3
    <3> QED BY <3>1, <3>2
  <2>6. Provenance'
    BY <2>4, <2>5 DEF Provenance, Stamping
  <2> QED BY <1>3, <1>4, <2>6
<1> QED BY <1>5, <1>6

\* It stamps the skill it published, which by then names one of its registries.
LEMMA StampKeeps ==
    ASSUME MarketInv, NEW r \in Requests, Stamp(r)
    PROVE  MarketInv'
<1> USE DEF MarketInv
<1> DEFINE n == Len(skills)
           i == reached[r]
           u == Head(urls[r])
           s == [skills[i] EXCEPT !.source = u]
<1>1. /\ stage[r] = "stamp" /\ skills' = [skills EXCEPT ![i].source = u]
      /\ stage' = [stage EXCEPT ![r] = "publish"]
      /\ UNCHANGED <<installed, sources, urls, offer, todo, reached>>
  BY DEF Stamp, UrlOf
<1>2. i \in 1..n /\ u \in Registries(skills[i].versions)
  BY <1>1 DEF Provenance
<1>3. /\ skills \in Seq(Manifest) /\ n \in Nat /\ DOMAIN skills = 1..n
      /\ \A k \in 1..n : skills[k] \in Manifest /\ Ascending(skills[k])
  BY DEF CatalogInv
<1>4. u \in Origins
  <2>1. u \in Urls
    BY <1>2 DEF Registries
  <2>2. Urls \subseteq Origins
    BY SyncFacts, Zenon
  <2> QED BY <2>1, <2>2
<1> HIDE DEF i, u
<1>5. /\ s \in Manifest /\ s.id = skills[i].id /\ s.versions = skills[i].versions
      /\ s.latest = skills[i].latest /\ s.installs = skills[i].installs /\ s.source = u
  <2>1. skills[i] \in Manifest
    BY <1>2, <1>3
  <2> QED BY <1>4, <2>1 DEF Manifest
<1>6. skills' = [skills EXCEPT ![i] = s]
  BY <1>1
<1> HIDE DEF s
<1>7. /\ skills' \in Seq(Manifest) /\ Len(skills') = n
      /\ \A k \in 1..n : skills'[k] = IF k = i THEN s ELSE skills[k]
  BY <1>2, <1>3, <1>5, <1>6
<1>8. \A k \in 1..n : /\ skills'[k].id = skills[k].id /\ skills'[k].versions = skills[k].versions
                      /\ skills'[k].latest = skills[k].latest
                      /\ skills'[k].installs = skills[k].installs
  BY <1>5, <1>7
<1>9. CatalogInv'
  <2>1. \A k \in 1..n : skills'[k].installs >= skills[k].installs
    <3>1. \A k \in 1..n : skills[k].installs \in Nat
      <4>1. MaxInstalls \in Nat
        BY CatalogFacts, Zenon
      <4>2. \A m \in Manifest : m.installs \in Nat
        BY <4>1 DEF Manifest
      <4>3. \A k \in 1..n : skills[k] \in Manifest
        BY <1>3, Zenon
      <4> QED BY <4>2, <4>3, Zenon
    <3>2. \A x \in Nat : x >= x
      OBVIOUS
    <3> QED BY <1>8, <3>1, <3>2
  <2>2. \A k \in 1..n : Ascending(skills'[k])
    BY <1>3, <1>8 DEF Ascending
  <2>3. ~(n = n + 1)
    <3>1. n \in Nat
      BY <1>3, Zenon
    <3> HIDE DEF n
    <3> QED BY <3>1
  <2> QED BY <1>1, <1>3, <1>7, <1>8, <2>1, <2>2, <2>3, CatalogKept
<1>10. SyncTyped'
  BY <1>1 DEF SyncTyped
<1>11. \A q \in Requests \ {r} : stage'[q] = stage[q]
  BY <1>1 DEF SyncTyped
<1>12. stage'[r] # "stamp"
  BY <1>1 DEF SyncTyped
<1>13. ASSUME NEW q \in Requests, stage'[q] = "stamp"
       PROVE  /\ reached'[q] \in 1..Len(skills')
              /\ Head(urls'[q]) \in Registries(skills'[reached'[q]].versions)
  <2>1. stage[q] = "stamp" /\ reached'[q] = reached[q] /\ urls'[q] = urls[q]
    BY <1>1, <1>11, <1>12, <1>13
  <2>2. reached[q] \in 1..n /\ Head(urls[q]) \in Registries(skills[reached[q]].versions)
    BY <2>1 DEF Provenance
  <2> QED BY <1>7, <1>8, <2>1, <2>2
<1>14. ASSUME NEW k \in 1..Len(skills')
       PROVE  \/ Registries(skills'[k].versions) = {}
              \/ skills'[k].source \in Registries(skills'[k].versions)
              \/ \E q \in Requests : stage'[q] = "stamp" /\ reached'[q] = k
  <2>1. CASE k = i
    BY <1>2, <1>5, <1>7, <1>8, <2>1 DEF i, u
  <2>2. CASE k # i
    <3>1. /\ k \in 1..n /\ skills'[k].source = skills[k].source
          /\ Registries(skills'[k].versions) = Registries(skills[k].versions)
      BY <1>7, <1>8, <2>2
    <3>2. ASSUME NEW q \in Requests, Stamping(q, k)
          PROVE  stage'[q] = "stamp" /\ reached'[q] = k
      <4>1. q # r
        BY <2>2, <3>2 DEF Stamping, i
      <4> QED BY <1>1, <1>11, <3>2, <4>1 DEF Stamping
    <3>3. \/ Registries(skills[k].versions) = {}
          \/ skills[k].source \in Registries(skills[k].versions)
          \/ \E q \in Requests : Stamping(q, k)
      BY <3>1 DEF Provenance
    <3> QED BY <3>1, <3>2, <3>3
  <2> QED BY <2>1, <2>2
<1>15. Provenance'
  BY <1>13, <1>14 DEF Provenance, Stamping
<1> QED BY <1>9, <1>10, <1>15

\* Every step keeps the invariant.
LEMMA MarketStep == MarketInv /\ [Next]_vars => MarketInv'
<1> SUFFICES ASSUME MarketInv, [Next]_vars PROVE MarketInv'
  OBVIOUS
<1>1. CASE UseCatalog
  BY <1>1, UseCatalogKeeps
<1>2. CASE \E u \in Urls : RegisterSource(u)
  BY <1>2, RequestKeeps
<1>3. ASSUME NEW r \in Requests,
             Sync(r) \/ SyncAll(r) \/ Fetch(r) \/ FetchFails(r) \/ AllTried(r) \/ RecordSync(r)
      PROVE  MarketInv'
  BY <1>3, RequestKeeps
<1>4. ASSUME NEW r \in Requests, PublishNext(r) PROVE MarketInv'
  BY <1>4, PublishNextKeeps
<1>5. ASSUME NEW r \in Requests, Stamp(r) PROVE MarketInv'
  BY <1>5, StampKeeps
<1>6. CASE UNCHANGED vars
  <2>1. UNCHANGED <<skills, installed, sources, stage, urls, offer, todo, reached>>
    BY <1>6 DEF vars, catalogVars, syncVars
  <2>2. CatalogInv'
    BY <2>1 DEF MarketInv, CatalogInv, Installers
  <2>3. SyncTyped' /\ Provenance'
    BY <2>1 DEF MarketInv, SyncTyped, Provenance, Stamping
  <2> QED BY <2>2, <2>3 DEF MarketInv
<1> QED BY <1>1, <1>2, <1>3, <1>4, <1>5, <1>6 DEF Next

\* The invariant always holds.
THEOREM MarketSafety == Spec => []MarketInv
<1> QED BY MarketInit, MarketStep, PTL DEF Spec

\* Versions ascend strictly in every skill, whoever published, synced or imported them at
\* once, and latest_version is the last of them (catalog.py 58-63).
THEOREM CatalogAscends == Spec => []VersionsAscend
<1>1. MarketInv => VersionsAscend
  <2> SUFFICES ASSUME MarketInv PROVE VersionsAscend
    OBVIOUS
  <2>1. DOMAIN skills = 1..Len(skills)
    BY DEF MarketInv, CatalogInv
  <2> QED BY <2>1 DEF MarketInv, CatalogInv, VersionsAscend
<1> QED BY <1>1, MarketSafety, PTL

\* Ids stay apart and installations counted, and a skill with versions from registries names
\* one of them once no request is about to stamp it (catalog.py 65-82, remote.py 109-111).
THEOREM SyncsKeepProvenance == Spec => []SyncInv
<1>1. MarketInv => SyncInv
  <2> SUFFICES ASSUME MarketInv PROVE SyncInv
    OBVIOUS
  <2>1. DOMAIN skills = 1..Len(skills)
    BY DEF MarketInv, CatalogInv
  <2>2. CatalogTypeOK
    <3>1. \A k \in DOMAIN skills : skills[k] \in Manifest
      BY DEF MarketInv, CatalogInv
    <3>2. \A k, l \in DOMAIN skills : skills[k].id = skills[l].id => k = l
      BY <2>1 DEF MarketInv, CatalogInv
    <3>3. installed \in [AgentIds -> SUBSET {skills[k].id : k \in DOMAIN skills}]
      BY <2>1 DEF MarketInv, CatalogInv
    <3>4. \A k \in DOMAIN skills :
              Cardinality({a \in AgentIds : skills[k].id \in installed[a]}) <= skills[k].installs
      BY <2>1 DEF MarketInv, CatalogInv, Installers
    <3> QED BY <3>1, <3>2, <3>3, <3>4 DEF CatalogTypeOK
  <2>3. ASSUME NEW k \in DOMAIN skills
        PROVE  {e.by : e \in ToSet(skills[k].versions)} \cap Urls = Registries(skills[k].versions)
    BY DEF ToSet, Registries
  <2>4. ProvenanceKept
    <3> SUFFICES ASSUME NEW k \in DOMAIN skills,
                        {e.by : e \in ToSet(skills[k].versions)} \cap Urls # {},
                        \A r \in Requests : stage[r] # "stamp"
                 PROVE  skills[k].source \in {e.by : e \in ToSet(skills[k].versions)} \cap Urls
      BY DEF ProvenanceKept
    <3>1. Registries(skills[k].versions) # {} /\ k \in 1..Len(skills)
      BY <2>1, <2>3
    <3>2. ~\E r \in Requests : Stamping(r, k)
      BY DEF Stamping
    <3>3. skills[k].source \in Registries(skills[k].versions)
      BY <3>1, <3>2 DEF MarketInv, Provenance
    <3> QED BY <2>3, <3>3
  <2> QED BY <2>2, <2>4 DEF SyncInv
<1> QED BY <1>1, MarketSafety, PTL

-----------------------------------------------------------------------------
(* Nothing is left behind.  What a sync has tried is settled, and stays so *)
(* while histories grow.                                                   *)

\* The first skill of a name, and its versions.
First(s, name) == SelectInSeq(s, LAMBDA x : x.name = name)
VersionsIn(s, name) == IF First(s, name) = 0 THEN <<>> ELSE s[First(s, name)].versions

\* The history ws wants nothing more of version v of registry u.
Settled(ws, u, v) ==
    \/ Malformed(v) \/ ~TupleLess(NoVersion, Materialize(v))
    \/ \E i \in 1..Len(ws) :
           \/ Materialize(ws[i].version) = Materialize(v)
           \/ ws[i].by # u /\ TupleLess(Materialize(v), Materialize(ws[i].version))

\* Whatever registry u offers below a version that came from it is settled.
Backed(ws, u, name) ==
    \A i \in 1..Len(ws) : ws[i].by = u =>
        \A m \in Offers[u] : m.name = name =>
            \A k \in 1..Len(m.versions) :
                TupleLess(Materialize(m.versions[k]), Materialize(ws[i].version))
                    => Settled(ws, u, m.versions[k])

\* The versions a request has yet to try are its offer's, in order; the others are settled.
TryingAll(r) ==
    /\ offer[r] \in Offers[Head(urls[r])]
    /\ Sorted(todo[r])
    /\ \A j \in 1..Len(todo[r]) :
           \E k \in 1..Len(offer[r].versions) : offer[r].versions[k] = todo[r][j]
    /\ \A k \in 1..Len(offer[r].versions) :
           \/ \E j \in 1..Len(todo[r]) : todo[r][j] = offer[r].versions[k]
           \/ Settled(VersionsIn(skills, offer[r].name), Head(urls[r]), offer[r].versions[k])

AllBacked == \A n \in Names, u \in Urls : Backed(VersionsIn(skills, n), u, n)
AllTrying == \A r \in Requests : stage[r] \in {"publish", "stamp", "record"} => TryingAll(r)
AllTaken  ==
    \A o \in outcomes :
        /\ o.url \in Urls /\ o.offer \in Offered
        /\ \A k \in 1..Len(o.offer.versions) :
               Settled(VersionsIn(skills, o.offer.name), o.url, o.offer.versions[k])

LeftInv == AllBacked /\ AllTrying /\ AllTaken

\* Find() finds the first one.
LEMMA FirstIs ==
    ASSUME NEW s \in Seq(Manifest), NEW name
    PROVE  /\ Len(s) \in Nat /\ First(s, name) \in 0..Len(s)
           /\ First(s, name) # 0 =>
                  /\ s[First(s, name)].name = name
                  /\ \A j \in 1..Len(s) : s[j].name = name => First(s, name) <= j
           /\ First(s, name) = 0 => \A j \in 1..Len(s) : s[j].name # name
<1> DEFINE I == {i \in 1..Len(s) : s[i].name = name}
<1>1. Len(s) \in Nat
  OBVIOUS
<1>2. First(s, name) = IF I # {} THEN Min(I) ELSE 0
  BY DEF First, SelectInSeq
<1>3. ASSUME I # {} PROVE Min(I) \in I /\ \A y \in I : Min(I) <= y
  <2>1. IsFiniteSet(I) /\ I \subseteq Int
    <3>1. IsFiniteSet(1..Len(s))
      BY <1>1, FS_Interval
    <3>2. I \subseteq 1..Len(s) /\ I \subseteq Int
      BY <1>1
    <3> HIDE DEF I
    <3> QED BY <3>1, <3>2, FS_Subset
  <2> HIDE DEF I
  <2>2. \E x \in I : \A y \in I : x <= y
    BY <1>3, <2>1, LeastNumber
  <2> QED BY <2>2 DEF Min
<1>4. CASE I = {}
  BY <1>1, <1>2, <1>4
<1>5. CASE I # {}
  <2> DEFINE f == Min(I)
  <2>1. f \in I /\ \A y \in I : f <= y
    BY <1>3, <1>5
  <2>2. First(s, name) = f
    BY <1>2, <1>5
  <2> HIDE DEF f
  <2> QED BY <1>1, <2>1, <2>2
<1> QED BY <1>4, <1>5

\* One more skill, and new versions of those that are there, leave the first ones first.
LEMMA FirstStays ==
    ASSUME NEW s \in Seq(Manifest), NEW t \in Seq(Manifest), Len(s) <= Len(t),
           \A k \in 1..Len(s) : t[k].name = s[k].name, NEW name
    PROVE  /\ First(s, name) # 0 => First(t, name) = First(s, name)
           /\ First(s, name) = 0 => First(t, name) = 0 \/ First(t, name) \in (Len(s) + 1)..Len(t)
<1> DEFINE f == First(s, name)
           g == First(t, name)
<1>1. /\ Len(s) \in Nat /\ f \in 0..Len(s)
      /\ f # 0 => s[f].name = name /\ \A j \in 1..Len(s) : s[j].name = name => f <= j
      /\ f = 0 => \A j \in 1..Len(s) : s[j].name # name
  BY FirstIs, Zenon
<1>2. /\ Len(t) \in Nat /\ g \in 0..Len(t)
      /\ g # 0 => t[g].name = name /\ \A j \in 1..Len(t) : t[j].name = name => g <= j
      /\ g = 0 => \A j \in 1..Len(t) : t[j].name # name
  BY FirstIs, Zenon
<1> HIDE DEF f, g
<1>3. ASSUME f # 0 PROVE g = f
  <2>1. f \in 1..Len(s) /\ f \in 1..Len(t) /\ t[f].name = name
    BY <1>1, <1>2, <1>3
  <2>2. g # 0 /\ g <= f
    BY <1>2, <2>1
  <2>3. g \in 1..Len(s) /\ s[g].name = name
    BY <1>1, <1>2, <2>1, <2>2
  <2>4. f <= g
    BY <1>1, <1>3, <2>3
  <2> QED BY <1>1, <1>2, <2>2, <2>4
<1>4. ASSUME f = 0, g # 0 PROVE g \in (Len(s) + 1)..Len(t)
  <2>1. g \notin 1..Len(s)
    BY <1>1, <1>2, <1>4
  <2> QED BY <1>1, <1>2, <1>4, <2>1
<1> QED BY <1>3, <1>4 DEF f, g

\* A history is of versions.
LEMMA VersionsInType ==
    ASSUME NEW s \in Seq(Manifest), NEW name
    PROVE  VersionsIn(s, name) \in Seq(SkillVersion)
<1>1. First(s, name) \in 0..Len(s) /\ Len(s) \in Nat
  BY FirstIs, Zenon
<1>2. First(s, name) # 0 => First(s, name) \in 1..Len(s)
  BY <1>1
<1>3. \A m \in Manifest : m.versions \in Seq(SkillVersion)
  BY DEF Manifest
<1>4. First(s, name) # 0 => s[First(s, name)] \in Manifest
  BY <1>2
<1>5. <<>> \in Seq(SkillVersion)
  OBVIOUS
<1> QED BY <1>3, <1>4, <1>5, Zenon DEF VersionsIn

\* What is settled stays so while the history grows, and so does what is backed unless the
\* registry's own versions come in.
Longer(ws, us) == Len(ws) <= Len(us) /\ \A i \in 1..Len(ws) : us[i] = ws[i]

LEMMA SettledStays ==
    ASSUME NEW ws \in Seq(SkillVersion), NEW us \in Seq(SkillVersion), Longer(ws, us),
           NEW u, NEW v, Settled(ws, u, v)
    PROVE  Settled(us, u, v)
<1>1. \A i \in 1..Len(ws) : i \in 1..Len(us) /\ us[i] = ws[i]
  BY DEF Longer
<1> QED BY <1>1, Zenon DEF Settled

LEMMA BackedStays ==
    ASSUME NEW ws \in Seq(SkillVersion), NEW us \in Seq(SkillVersion), Longer(ws, us),
           NEW u, NEW name, Backed(ws, u, name),
           \A i \in 1..Len(us) : i \in 1..Len(ws) \/ us[i].by # u
    PROVE  Backed(us, u, name)
<1>1. \A i \in 1..Len(ws) : us[i] = ws[i]
  BY DEF Longer
<1>2. SUFFICES ASSUME NEW i \in 1..Len(us), us[i].by = u,
                      NEW m \in Offers[u], m.name = name, NEW k \in 1..Len(m.versions),
                      TupleLess(Materialize(m.versions[k]), Materialize(us[i].version))
               PROVE  Settled(us, u, m.versions[k])
  BY Zenon DEF Backed
<1>3. i \in 1..Len(ws) /\ us[i] = ws[i]
  BY <1>1, <1>2
<1>4. Settled(ws, u, m.versions[k])
  BY <1>2, <1>3, Zenon DEF Backed
<1> QED BY <1>4, SettledStays, Zenon

\* The histories of all names, step by step.
HistoriesGrow(s, t) == \A n \in Names : Longer(VersionsIn(s, n), VersionsIn(t, n))
OthersOnly(s, t) ==
    \A n \in Names : \A i \in 1..Len(VersionsIn(t, n)) :
        i \in 1..Len(VersionsIn(s, n)) \/ VersionsIn(t, n)[i].by \notin Urls
Trying(r) == stage[r] \in {"publish", "stamp", "record"}

\* A request that a step leaves alone.
LEMMA TryingStays ==
    ASSUME SyncTyped, skills \in Seq(Manifest), skills' \in Seq(Manifest),
           HistoriesGrow(skills, skills'), NEW r \in Requests, Trying(r), TryingAll(r),
           urls'[r] = urls[r], offer'[r] = offer[r], todo'[r] = todo[r]
    PROVE  TryingAll(r)'
<1> DEFINE m == offer[r]
           ws == VersionsIn(skills, m.name)
           us == VersionsIn(skills', m.name)
<1>1. m \in Offered
  BY DEF SyncTyped, Trying
<1>2. m.name \in Names
  BY <1>1 DEF Offered
<1>3. ws \in Seq(SkillVersion) /\ us \in Seq(SkillVersion)
  BY VersionsInType, Zenon
<1>4. Longer(ws, us)
  BY <1>2, Zenon DEF HistoriesGrow
<1> HIDE DEF ws, us
<1>5. ASSUME NEW k \in 1..Len(m.versions), Settled(ws, Head(urls[r]), m.versions[k])
      PROVE  Settled(us, Head(urls[r]), m.versions[k])
  BY <1>3, <1>4, <1>5, SettledStays, Zenon
<1>6. \A k \in 1..Len(m.versions) :
          \/ \E j \in 1..Len(todo[r]) : todo[r][j] = m.versions[k]
          \/ Settled(us, Head(urls[r]), m.versions[k])
  BY <1>5, Zenon DEF TryingAll, ws
<1> QED BY <1>6, Zenon DEF TryingAll, us

\* What the syncs before have taken.
LEMMA TakenStays ==
    ASSUME skills \in Seq(Manifest), skills' \in Seq(Manifest), HistoriesGrow(skills, skills'),
           AllTaken, NEW o \in outcomes
    PROVE  /\ o.url \in Urls /\ o.offer \in Offered
           /\ \A k \in 1..Len(o.offer.versions) :
                  Settled(VersionsIn(skills', o.offer.name), o.url, o.offer.versions[k])
<1> DEFINE m == o.offer
           ws == VersionsIn(skills, m.name)
           us == VersionsIn(skills', m.name)
<1>1. /\ o.url \in Urls /\ m \in Offered
      /\ \A k \in 1..Len(m.versions) : Settled(ws, o.url, m.versions[k])
  BY Zenon DEF AllTaken
<1>2. m.name \in Names
  BY <1>1 DEF Offered
<1>3. ws \in Seq(SkillVersion) /\ us \in Seq(SkillVersion)
  BY VersionsInType, Zenon
<1>4. Longer(ws, us)
  BY <1>2, Zenon DEF HistoriesGrow
<1> HIDE DEF ws, us, m
<1>5. \A k \in 1..Len(m.versions) : Settled(us, o.url, m.versions[k])
  BY <1>1, <1>3, <1>4, SettledStays, Zenon
<1> QED BY <1>1, <1>5, Zenon DEF m, us

\* A step that adds no version of a registry, and begins nothing.
LEMMA LeftKept ==
    ASSUME SyncTyped, LeftInv, skills \in Seq(Manifest), skills' \in Seq(Manifest),
           HistoriesGrow(skills, skills'), OthersOnly(skills, skills'), outcomes' = outcomes,
           \A r \in Requests : Trying(r)' =>
               Trying(r) /\ urls'[r] = urls[r] /\ offer'[r] = offer[r] /\ todo'[r] = todo[r]
    PROVE  LeftInv'
<1>1. AllBacked /\ AllTrying /\ AllTaken
  BY Zenon DEF LeftInv
<1>2. AllBacked'
  <2> SUFFICES ASSUME NEW n \in Names, NEW u \in Urls PROVE Backed(VersionsIn(skills', n), u, n)
    BY Zenon DEF AllBacked
  <2> DEFINE ws == VersionsIn(skills, n)
             us == VersionsIn(skills', n)
  <2>1. ws \in Seq(SkillVersion) /\ us \in Seq(SkillVersion)
    BY VersionsInType, Zenon
  <2>2. Longer(ws, us) /\ Backed(ws, u, n)
    BY <1>1, Zenon DEF HistoriesGrow, AllBacked
  <2>3. \A i \in 1..Len(us) : i \in 1..Len(ws) \/ us[i].by # u
    BY Zenon DEF OthersOnly
  <2> HIDE DEF ws, us
  <2>4. Backed(us, u, n)
    BY <2>1, <2>2, <2>3, BackedStays, Zenon
  <2> QED BY <2>4 DEF us
<1>3. AllTrying'
  <2> SUFFICES ASSUME NEW r \in Requests, Trying(r)' PROVE TryingAll(r)'
    BY Zenon DEF AllTrying, Trying
  <2>1. Trying(r) /\ urls'[r] = urls[r] /\ offer'[r] = offer[r] /\ todo'[r] = todo[r]
    BY Zenon
  <2>2. TryingAll(r)
    BY <1>1, <2>1, Zenon DEF AllTrying, Trying
  <2> QED BY <2>1, <2>2, TryingStays, Zenon
<1>4. AllTaken'
  BY <1>1, TakenStays, Zenon DEF AllTaken
<1> QED BY <1>2, <1>3, <1>4, Zenon DEF LeftInv

\* A step that leaves every skill its name and its versions.
LEMMA SameHistories ==
    ASSUME NEW s \in Seq(Manifest), NEW t \in Seq(Manifest), Len(t) = Len(s),
           \A k \in 1..Len(s) : t[k].name = s[k].name /\ t[k].versions = s[k].versions
    PROVE  HistoriesGrow(s, t) /\ OthersOnly(s, t)
<1>1. \A n \in Names : VersionsIn(t, n) = VersionsIn(s, n)
  <2> TAKE n \in Names
  <2> DEFINE f == First(s, n)
             g == First(t, n)
  <2>1. Len(s) \in Nat /\ Len(t) \in Nat /\ Len(s) <= Len(t)
    OBVIOUS
  <2>2. (f # 0 => g = f) /\ (f = 0 => g = 0 \/ g \in (Len(s) + 1)..Len(t))
    BY <2>1, FirstStays
  <2>3. f \in 0..Len(s)
    BY FirstIs, Zenon
  <2>4. VersionsIn(s, n) = (IF f = 0 THEN <<>> ELSE s[f].versions)
        /\ VersionsIn(t, n) = (IF g = 0 THEN <<>> ELSE t[g].versions)
    BY DEF VersionsIn
  <2> HIDE DEF f, g
  <2>5. g = f /\ (f # 0 => f \in 1..Len(s))
    BY <2>1, <2>2, <2>3
  <2> QED BY <2>4, <2>5
<1>2. \A n \in Names : Len(VersionsIn(s, n)) \in Nat
  BY VersionsInType
<1> QED BY <1>1, <1>2 DEF HistoriesGrow, OthersOnly, Longer

\* What publish() does to the histories: the one of the name has one more version, if that
\* was accepted.
LEMMA PublishedHistory ==
    ASSUME CatalogInv, NEW name \in Names, NEW kind \in Kinds, NEW v \in Versions, NEW by \in Origins,
           HasRoom(name), skills' = Published(name, kind, v, by), UNCHANGED installed
    PROVE  /\ skills \in Seq(Manifest) /\ skills' \in Seq(Manifest)
           /\ \A n \in Names : n # name => VersionsIn(skills', n) = VersionsIn(skills, n)
           /\ VersionsIn(skills', name) =
                  IF Accepts(name, v) THEN Append(VersionsIn(skills, name), [version |-> v, by |-> by])
                  ELSE VersionsIn(skills, name)
<1> DEFINE n == Len(skills)
           i == IndexOf(name)
           e == [version |-> v, by |-> by]
           p == Placed(name, kind, v, by)
           g == Grown(name)
<1>1. /\ CatalogInv' /\ i \in 1..(n + 1) /\ n <= Len(skills') /\ i \in 1..Len(skills')
      /\ \A k \in 1..Len(skills') : k = i \/ (k \in 1..n /\ skills'[k] = skills[k])
      /\ i = n + 1 => skills'[i].versions = IF Accepts(name, v) THEN <<e>> ELSE <<>>
      /\ i \in 1..n => skills'[i].versions = IF Accepts(name, v) THEN Append(skills[i].versions, e)
                                             ELSE skills[i].versions
  BY PublishKeeps
<1>2. skills \in Seq(Manifest) /\ skills' \in Seq(Manifest)
  BY <1>1, Zenon DEF CatalogInv
<1>3. /\ n \in Nat /\ Len(skills') \in Nat /\ Find(name) \in 0..n
      /\ Find(name) # 0 => skills[Find(name)].name = name
  BY <1>2, FindIs
<1>4. /\ i = n + 1 => Find(name) = 0 /\ Renewed(name, kind) = NewSkill(name, kind)
      /\ i # n + 1 => /\ Find(name) # 0 /\ i = Find(name) /\ i \in 1..n
                      /\ Renewed(name, kind) = [skills[i] EXCEPT !.kind = kind]
      /\ Published(name, kind, v, by) = [k \in 1..g |-> IF k = i THEN p ELSE skills[k]]
      /\ Renewed(name, kind) \in Manifest /\ g \in Nat
  BY PublishedIs
<1>5. Renewed(name, kind).name = name
  <2>1. CASE i = n + 1
    <3>1. NewSkill(name, kind).name = name
      BY Zenon DEF NewSkill
    <3> QED BY <1>4, <2>1, <3>1, Zenon
  <2>2. CASE i # n + 1
    <3>1. skills[i] \in Manifest /\ skills[i].name = name
      BY <1>2, <1>3, <1>4, <2>2
    <3> QED BY <1>4, <2>2, <3>1 DEF Manifest
  <2> QED BY <2>1, <2>2
<1>6. p.name = name
  <2>1. Renewed(name, kind) \in Manifest
    BY <1>4, Zenon
  <2> QED BY <1>5, <2>1 DEF Placed, Manifest
<1>7. skills'[i].name = name
  <2>1. DOMAIN skills' = 1..Len(skills')
    BY <1>2
  <2> HIDE DEF p, g, i, n
  <2>2. skills' = [k \in 1..g |-> IF k = i THEN p ELSE skills[k]]
    BY <1>4, Zenon
  <2>3. 1..g = 1..Len(skills')
    BY <2>1, <2>2
  <2>4. i \in 1..g
    BY <1>1, <2>3
  <2> QED BY <1>6, <2>2, <2>4
<1> HIDE DEF p, g, i, n
<1>8. /\ First(skills, name) = Find(name)
      /\ Find(name) # 0 => i = Find(name) /\ i \in 1..n /\ i # n + 1
      /\ Find(name) = 0 => i = n + 1
  <2>1. First(skills, name) = Find(name)
    BY DEF First, Find
  <2> QED BY <1>1, <1>3, <1>4, <2>1
<1>9. \A k \in 1..n : k \in 1..Len(skills') /\ skills'[k].name = skills[k].name
  <2> TAKE k \in 1..n
  <2>1. k \in 1..Len(skills')
    BY <1>1, <1>3
  <2>2. CASE k = i
    <3>1. i # n + 1
      BY <1>3, <2>2
    <3>2. skills[i].name = name
      BY <1>3, <1>4, <3>1
    <3> QED BY <1>7, <2>1, <2>2, <3>2
  <2>3. CASE k # i
    BY <1>1, <2>1, <2>3
  <2> QED BY <2>1, <2>2, <2>3
<1>10. \A x : /\ First(skills, x) # 0 => First(skills', x) = First(skills, x)
              /\ First(skills, x) = 0 => First(skills', x) = 0 \/ First(skills', x) \in (n + 1)..Len(skills')
  <2>1. Len(skills) <= Len(skills') /\ \A k \in 1..Len(skills) : skills'[k].name = skills[k].name
    BY <1>1, <1>9, Zenon DEF n
  <2> QED BY <1>2, <2>1, FirstStays, Zenon DEF n
<1>11. \A x : /\ First(skills', x) \in 0..Len(skills')
              /\ First(skills', x) # 0 => skills'[First(skills', x)].name = x
              /\ First(skills', x) = 0 => \A j \in 1..Len(skills') : skills'[j].name # x
  <2>1. skills' \in Seq(Manifest)
    BY <1>2, Zenon
  <2> QED BY <2>1, FirstIs
<1>12. First(skills', name) = i
  <2>1. CASE Find(name) # 0
    BY <1>8, <1>10, <2>1
  <2>2. CASE Find(name) = 0
    <3>1. First(skills', name) # 0
      BY <1>1, <1>7, <1>11, Zenon
    <3>2. First(skills', name) \in (n + 1)..Len(skills')
      BY <1>8, <1>10, <2>2, <3>1
    <3>3. \A k \in (n + 1)..Len(skills') : k = i
      BY <1>1, <1>3
    <3> QED BY <3>2, <3>3
  <2> QED BY <2>1, <2>2
<1>13. VersionsIn(skills', name) =
           IF Accepts(name, v) THEN Append(VersionsIn(skills, name), e) ELSE VersionsIn(skills, name)
  <2>1. i # 0 /\ VersionsIn(skills', name) = skills'[i].versions
    <3>1. i # 0
      BY <1>1, <1>3
    <3> QED BY <1>12, <3>1 DEF VersionsIn
  <2>2. CASE Find(name) # 0
    <3>1. VersionsIn(skills, name) = skills[i].versions
      BY <1>8, <2>2 DEF VersionsIn
    <3> QED BY <1>1, <1>8, <2>1, <2>2, <3>1
  <2>3. CASE Find(name) = 0
    <3>1. VersionsIn(skills, name) = <<>>
      BY <1>8, <2>3 DEF VersionsIn
    <3>2. Append(<<>>, e) = <<e>>
      OBVIOUS
    <3> QED BY <1>1, <1>8, <2>1, <2>3, <3>1, <3>2
  <2> QED BY <2>2, <2>3
<1>14. ASSUME NEW x \in Names, x # name PROVE VersionsIn(skills', x) = VersionsIn(skills, x)
  <2> DEFINE f == First(skills, x)
             h == First(skills', x)
  <2>1. h # 0 => h # i
    BY <1>7, <1>11, <1>14
  <2>2. f \in 0..n
    BY <1>2, FirstIs, Zenon DEF n
  <2>3. h = f
    <3>1. CASE f # 0
      BY <1>10, <3>1
    <3>2. CASE f = 0 /\ h # 0
      <4>1. h \in (n + 1)..Len(skills')
        BY <1>10, <3>2
      <4>2. h \in 1..Len(skills') /\ h \notin 1..n
        BY <1>3, <4>1
      <4> QED BY <1>1, <2>1, <3>2, <4>2
    <3> QED BY <3>1, <3>2
  <2>4. f # 0 => f \in 1..n /\ f \in 1..Len(skills') /\ f # i
    BY <1>1, <1>3, <2>1, <2>2, <2>3
  <2>5. f # 0 => skills'[f] = skills[f]
    BY <1>1, <2>4
  <2> QED BY <2>3, <2>5, Zenon DEF VersionsIn
<1> QED BY <1>2, <1>13, <1>14

\* A copy from another catalog has no version of a registry.
LEMMA ImportedHistory ==
    ASSUME CatalogInv, NEW m \in Shared, ImportManifest(m)
    PROVE  /\ skills \in Seq(Manifest) /\ skills' \in Seq(Manifest)
           /\ HistoriesGrow(skills, skills') /\ OthersOnly(skills, skills')
<1> DEFINE n == Len(skills)
<1>1. /\ CatalogInv' /\ n \in Nat /\ Len(skills') = n + 1 /\ skills'[n + 1] = m
      /\ \A k \in 1..n : skills'[k] = skills[k]
  BY ImportKeeps
<1>2. skills \in Seq(Manifest) /\ skills' \in Seq(Manifest)
  BY <1>1, Zenon DEF CatalogInv
<1>3. m.versions \in Seq(SkillVersion) /\ \A j \in 1..Len(m.versions) : m.versions[j].by \notin Urls
  <2>1. m \in Manifest
    BY CatalogFacts, Zenon
  <2>2. m.versions \in Seq(SkillVersion)
    BY <2>1 DEF Manifest
  <2>3. \A j \in DOMAIN m.versions : m.versions[j].by \notin Urls
    BY SyncAssumption, Zenon
  <2> QED BY <2>2, <2>3
<1> HIDE DEF n
<1>4. ASSUME NEW x \in Names
      PROVE  \/ VersionsIn(skills', x) = VersionsIn(skills, x)
             \/ VersionsIn(skills, x) = <<>> /\ VersionsIn(skills', x) = m.versions
  <2> DEFINE f == First(skills, x)
             h == First(skills', x)
  <2>1. n <= Len(skills') /\ \A k \in 1..n : skills'[k].name = skills[k].name
    BY <1>1
  <2>2. (f # 0 => h = f) /\ (f = 0 => h = 0 \/ h \in (n + 1)..Len(skills')) /\ f \in 0..n
    <3>1. f \in 0..n
      BY <1>2, FirstIs, Zenon DEF n
    <3> QED BY <1>2, <2>1, <3>1, FirstStays DEF n
  <2>3. /\ VersionsIn(skills, x) = (IF f = 0 THEN <<>> ELSE skills[f].versions)
        /\ VersionsIn(skills', x) = (IF h = 0 THEN <<>> ELSE skills'[h].versions)
    BY DEF VersionsIn
  <2> HIDE DEF f, h
  <2>4. CASE f # 0
    <3>1. f \in 1..n /\ h = f
      BY <1>1, <2>2, <2>4
    <3> QED BY <1>1, <2>3, <2>4, <3>1
  <2>5. CASE f = 0 /\ h = 0
    BY <2>3, <2>5
  <2>6. CASE f = 0 /\ h # 0
    <3>1. h = n + 1
      BY <1>1, <2>2, <2>6
    <3> QED BY <1>1, <2>3, <2>6, <3>1
  <2> QED BY <2>4, <2>5, <2>6
<1>5. \A x \in Names : VersionsIn(skills, x) \in Seq(SkillVersion)
  BY <1>2, VersionsInType
<1>6. ASSUME NEW x \in Names PROVE Longer(VersionsIn(skills, x), VersionsIn(skills', x))
  <2> DEFINE ws == VersionsIn(skills, x)
             us == VersionsIn(skills', x)
  <2>1. us = ws \/ (ws = <<>> /\ us = m.versions)
    BY <1>4
  <2>2. ws \in Seq(SkillVersion)
    BY <1>5
  <2> HIDE DEF ws, us
  <2>3. Longer(ws, us)
    <3>1. CASE us = ws
      BY <2>2, <3>1 DEF Longer
    <3>2. CASE ws = <<>> /\ us = m.versions
      BY <1>3, <3>2 DEF Longer
    <3> QED BY <2>1, <3>1, <3>2
  <2> QED BY <2>3 DEF ws, us
<1>7. ASSUME NEW x \in Names, NEW i \in 1..Len(VersionsIn(skills', x))
      PROVE  i \in 1..Len(VersionsIn(skills, x)) \/ VersionsIn(skills', x)[i].by \notin Urls
  BY <1>3, <1>4
<1> QED BY <1>2, <1>6, <1>7, Zenon DEF HistoriesGrow, OthersOnly

\* One version at the end of a history.
LEMMA AppendIsLonger ==
    ASSUME NEW ws \in Seq(SkillVersion), NEW e \in SkillVersion
    PROVE  /\ Append(ws, e) \in Seq(SkillVersion) /\ Longer(ws, Append(ws, e))
           /\ Len(ws) \in Nat /\ Len(Append(ws, e)) = Len(ws) + 1 /\ Append(ws, e)[Len(ws) + 1] = e
           /\ \A i \in 1..Len(Append(ws, e)) : i \in 1..Len(ws) \/ i = Len(ws) + 1
<1>1. /\ Append(ws, e) \in Seq(SkillVersion) /\ Len(ws) \in Nat /\ Len(Append(ws, e)) = Len(ws) + 1
      /\ Append(ws, e)[Len(ws) + 1] = e /\ \A i \in 1..Len(ws) : Append(ws, e)[i] = ws[i]
  BY AppendProperties
<1> DEFINE us == Append(ws, e)
<1> HIDE DEF us
<1>2. \A i \in 1..(Len(ws) + 1) : i \in 1..Len(ws) \/ i = Len(ws) + 1
  BY <1>1
<1>3. Longer(ws, us)
  BY <1>1 DEF Longer, us
<1> QED BY <1>1, <1>2, <1>3 DEF us

\* The catalog's own users leave nothing of a registry behind.
LEMMA UseCatalogLeaves ==
    ASSUME MarketInv, LeftInv, UseCatalog
    PROVE  LeftInv'
<1>1. CatalogInv /\ SyncTyped /\ CatalogNext /\ UNCHANGED <<stage, urls, offer, todo, outcomes>>
  BY Zenon DEF MarketInv, UseCatalog, syncVars
<1>2. ASSUME skills \in Seq(Manifest), skills' \in Seq(Manifest),
             HistoriesGrow(skills, skills'), OthersOnly(skills, skills')
      PROVE  LeftInv'
  BY <1>1, <1>2, LeftKept, Zenon DEF Trying
<1>3. ASSUME NEW name \in Names, NEW kind \in Kinds, NEW v \in Versions, Publish(name, kind, v)
      PROVE  LeftInv'
  <2> DEFINE e == [version |-> v, by |-> "api"]
             W(x) == VersionsIn(skills, x)
             U(x) == VersionsIn(skills', x)
  <2>1. "api" \in Origins /\ "api" \notin Urls /\ e \in SkillVersion /\ e.by \notin Urls
    <3>1. "api" \in Origins
      BY CatalogFacts, Zenon
    <3>2. "api" \notin Urls
      BY SyncFacts, Zenon
    <3> QED BY <3>1, <3>2 DEF SkillVersion
  <2>2. HasRoom(name) /\ skills' = Published(name, kind, v, "api") /\ UNCHANGED installed
    BY <1>3, Zenon DEF Publish
  <2>3. /\ skills \in Seq(Manifest) /\ skills' \in Seq(Manifest)
        /\ \A x \in Names : x # name => U(x) = W(x)
        /\ U(name) = IF Accepts(name, v) THEN Append(W(name), e) ELSE W(name)
    BY <1>1, <2>1, <2>2, PublishedHistory
  <2>4. \A x \in Names : W(x) \in Seq(SkillVersion)
    BY <2>3, VersionsInType, Zenon
  <2> HIDE DEF W, U, e
  <2>5. ASSUME NEW x \in Names
        PROVE  Longer(W(x), U(x)) /\ \A i \in 1..Len(U(x)) : i \in 1..Len(W(x)) \/ U(x)[i].by \notin Urls
    <3>1. W(x) \in Seq(SkillVersion)
      BY <2>4
    <3>2. U(x) = W(x) \/ U(x) = Append(W(x), e)
      BY <2>3
    <3>3. CASE U(x) = W(x)
      BY <3>1, <3>3 DEF Longer
    <3>4. CASE U(x) = Append(W(x), e)
      BY <2>1, <3>1, <3>4, AppendIsLonger
    <3> QED BY <3>2, <3>3, <3>4
  <2>6. HistoriesGrow(skills, skills') /\ OthersOnly(skills, skills')
    BY <2>5, Zenon DEF HistoriesGrow, OthersOnly, W, U
  <2> QED BY <1>2, <2>3, <2>6
<1>4. ASSUME NEW m \in Shared, ImportManifest(m) PROVE LeftInv'
  BY <1>1, <1>2, <1>4, ImportedHistory
<1>5. ASSUME NEW k \in DOMAIN skills, NEW a \in AgentIds, Install(k, a)
      PROVE  LeftInv'
  <2>1. /\ CatalogInv' /\ Len(skills') = Len(skills)
        /\ \A l \in 1..Len(skills) : skills'[l].versions = skills[l].versions
    BY <1>1, <1>5, InstallKeeps
  <2>2. skills \in Seq(Manifest) /\ skills' \in Seq(Manifest)
    BY <1>1, <2>1, Zenon DEF CatalogInv
  <2>3. \A l \in 1..Len(skills) : skills'[l].name = skills[l].name
    <3>1. skills' = [skills EXCEPT ![k].installs = Counted(k)]
      BY <1>5, Zenon DEF Install
    <3>2. \A l \in 1..Len(skills) : skills[l] \in Manifest /\ l \in DOMAIN skills
      BY <2>2
    <3> QED BY <3>1, <3>2 DEF Manifest
  <2>4. HistoriesGrow(skills, skills') /\ OthersOnly(skills, skills')
    BY <2>1, <2>2, <2>3, SameHistories
  <2> QED BY <1>2, <2>2, <2>4
<1>6. ASSUME UNCHANGED skills PROVE LeftInv'
  <2>1. skills \in Seq(Manifest) /\ skills' \in Seq(Manifest)
    BY <1>1, <1>6, Zenon DEF CatalogInv
  <2>2. HistoriesGrow(skills, skills') /\ OthersOnly(skills, skills')
    BY <1>6, <2>1, SameHistories
  <2> QED BY <1>2, <2>1, <2>2
<1>7. ASSUME NEW k \in DOMAIN skills, NEW a \in AgentIds, Uninstall(k, a)
      PROVE  UNCHANGED skills
  BY <1>7, Zenon DEF Uninstall
<1> QED BY <1>1, <1>3, <1>4, <1>5, <1>6, <1>7, Zenon DEF CatalogNext

\* No tuple is below itself.
LEMMA TupleLessIrreflexive ==
    ASSUME NEW a \in Seq(Int)
    PROVE  ~TupleLess(a, a)
<1> SUFFICES ASSUME TupleLess(a, a) PROVE FALSE
  OBVIOUS
<1>1. PICK n \in 1..(Len(a) + 1) : n <= Len(a) /\ (n <= Len(a) => a[n] < a[n])
  BY TupleLessIs
<1>2. n \in 1..Len(a) /\ \A i \in 1..Len(a) : a[i] \in Int
  BY <1>1
<1>3. a[n] \in Int /\ a[n] < a[n]
  BY <1>1, <1>2
<1> QED BY <1>3

\* Whether a version can be parsed is seen from the parts that count.
LEMMA MalformedIs ==
    ASSUME NEW v \in Seq(Int), NEW w \in Seq(Int), Materialize(v) = Materialize(w), Malformed(v)
    PROVE  Malformed(w)
<1> DEFINE n(x) == IF Len(x) < 3 THEN Len(x) ELSE 3
<1>1. ASSUME NEW x \in Seq(Int)
      PROVE  /\ n(x) \in Nat /\ Len(Materialize(x)) = n(x) /\ DOMAIN x = 1..Len(x) /\ n(x) <= 3
             /\ \A i \in 1..n(x) : i \in DOMAIN x /\ Materialize(x)[i] = x[i]
             /\ \A i \in DOMAIN x : i <= 3 => i \in 1..n(x)
  <2>1. n(x) \in Nat /\ n(x) \in Int /\ 1 \in Int /\ (\A i \in 1..n(x) : x[i] \in Int) /\ n(x) <= 3
        /\ DOMAIN x = 1..Len(x) /\ (\A i \in DOMAIN x : i <= 3 => i \in 1..n(x))
        /\ \A i \in 1..n(x) : i \in DOMAIN x
    OBVIOUS
  <2> HIDE DEF n
  <2>2. /\ Len(SubSeq(x, 1, n(x))) = n(x) - 1 + 1
        /\ \A i \in 1..(n(x) - 1 + 1) : SubSeq(x, 1, n(x))[i] = x[1 + i - 1]
    BY <2>1, SubSeqProperties
  <2>3. Materialize(x) = SubSeq(x, 1, n(x))
    BY DEF Materialize, n
  <2>4. n(x) - 1 + 1 = n(x) /\ \A i \in 1..n(x) : 1 + i - 1 = i
    BY <2>1
  <2> QED BY <2>1, <2>2, <2>3, <2>4
<1> HIDE DEF n
<1>2. PICK i \in DOMAIN v : i <= 3 /\ v[i] = NotANumber
  BY Zenon DEF Malformed
<1>3. i \in 1..n(v) /\ n(w) = n(v)
  BY <1>1, <1>2
<1>4. i \in DOMAIN w /\ w[i] = v[i] /\ i <= 3
  BY <1>1, <1>2, <1>3
<1> QED BY <1>2, <1>4, Zenon DEF Malformed

\* What is settled is settled in every spelling.
LEMMA SettledAlike ==
    ASSUME NEW ws, NEW u, NEW v \in Seq(Int), NEW w \in Seq(Int),
           Materialize(v) = Materialize(w), Settled(ws, u, v)
    PROVE  Settled(ws, u, w)
<1>1. Malformed(v) => Malformed(w)
  BY MalformedIs, Zenon
<1> QED BY <1>1, Zenon DEF Settled

\* publish() compares with the last version of the name's first skill.
LEMMA LatestIs ==
    ASSUME CatalogInv, NEW name \in Names
    PROVE  /\ VersionsIn(skills, name) \in Seq(SkillVersion)
           /\ Materialize(NoVersion) = NoVersion
           /\ LatestOf(name) = IF VersionsIn(skills, name) = <<>> THEN NoVersion
                               ELSE VersionsIn(skills, name)[Len(VersionsIn(skills, name))].version
<1>1. skills \in Seq(Manifest)
  BY Zenon DEF CatalogInv
<1>2. Find(name) = First(skills, name) /\ Find(name) \in 0..Len(skills) /\ Len(skills) \in Nat
  <2>1. Find(name) = First(skills, name)
    BY DEF First, Find
  <2> QED BY <1>1, <2>1, FindIs, Zenon
<1>3. Find(name) # 0 => Find(name) \in 1..Len(skills)
  BY <1>2
<1>4. Materialize(NoVersion) = NoVersion
  <2>1. NoVersion \in Seq(Int) /\ Len(NoVersion) = 3
    BY DEF NoVersion
  <2>2. SubSeq(NoVersion, 1, Len(NoVersion)) = NoVersion
    BY <2>1, SubSeqFull
  <2> QED BY <2>1, <2>2 DEF Materialize
<1>5. ASSUME Find(name) # 0
      PROVE  skills[Find(name)].latest = IF skills[Find(name)].versions = <<>> THEN NoVersion
                                         ELSE Last(skills[Find(name)].versions).version
  <2>1. Ascending(skills[Find(name)])
    BY <1>3, <1>5, Zenon DEF CatalogInv
  <2> QED BY <2>1, Zenon DEF Ascending
<1>6. CASE Find(name) = 0
  <2>1. VersionsIn(skills, name) = <<>>
    BY <1>2, <1>6, Zenon DEF VersionsIn
  <2>2. LatestOf(name) = NoVersion
    BY <1>6, Zenon DEF LatestOf
  <2> QED BY <1>1, <1>4, <2>1, <2>2, VersionsInType, Zenon
<1>7. CASE Find(name) # 0
  <2>1. VersionsIn(skills, name) = skills[Find(name)].versions
    BY <1>2, <1>7, Zenon DEF VersionsIn
  <2>2. LatestOf(name) = skills[Find(name)].latest
    BY <1>7, Zenon DEF LatestOf
  <2> QED BY <1>1, <1>4, <1>5, <1>7, <2>1, <2>2, VersionsInType, Zenon DEF Last
<1> QED BY <1>6, <1>7

\* A version of a registry that the catalog turns down is settled.
LEMMA RejectedIsSettled ==
    ASSUME CatalogInv, NEW u \in Urls, NEW m \in Offers[u], m.name \in Names,
           NEW v \in Versions, NEW k \in 1..Len(m.versions), m.versions[k] = v,
           Backed(VersionsIn(skills, m.name), u, m.name), ~Accepts(m.name, v)
    PROVE  Settled(VersionsIn(skills, m.name), u, v)
<1> DEFINE ws == VersionsIn(skills, m.name)
           n == Len(ws)
<1>1. /\ ws \in Seq(SkillVersion) /\ Materialize(NoVersion) = NoVersion
      /\ LatestOf(m.name) = IF ws = <<>> THEN NoVersion ELSE ws[n].version
  BY LatestIs, Zenon
<1> SUFFICES Settled(ws, u, v)
  OBVIOUS
<1> HIDE DEF ws
<1>2. CASE Malformed(v)
  BY <1>2, Zenon DEF Settled
<1>3. CASE ~Malformed(v) /\ ws = <<>>
  <2>1. ~TupleLess(NoVersion, Materialize(v))
    BY <1>1, <1>3, Zenon DEF Accepts
  <2> QED BY <2>1, Zenon DEF Settled
<1>4. CASE ~Malformed(v) /\ ws # <<>>
  <2>1. n \in 1..n /\ ws[n] \in SkillVersion
    BY <1>1, <1>4
  <2>2. ws[n].version \in Versions
    BY <2>1 DEF SkillVersion
  <2>3. ~TupleLess(Materialize(ws[n].version), Materialize(v))
    BY <1>1, <1>4, Zenon DEF Accepts
  <2>4. \/ Materialize(ws[n].version) = Materialize(v)
        \/ TupleLess(Materialize(v), Materialize(ws[n].version))
    <3>1. Materialize(ws[n].version) \in Seq(Int) /\ Materialize(v) \in Seq(Int)
      BY <2>2, VersionsAreTuples
    <3> QED BY <2>3, <3>1, TupleLessTotal
  <2> HIDE DEF n
  <2>5. CASE Materialize(ws[n].version) = Materialize(v)
    BY <2>1, <2>5, Zenon DEF Settled, n
  <2>6. CASE TupleLess(Materialize(v), Materialize(ws[n].version)) /\ ws[n].by # u
    BY <2>1, <2>6, Zenon DEF Settled, n
  <2>7. CASE TupleLess(Materialize(v), Materialize(ws[n].version)) /\ ws[n].by = u
    BY <2>1, <2>7, Zenon DEF Backed, n, ws
  <2> QED BY <2>4, <2>5, <2>6, <2>7
<1> QED BY <1>2, <1>3, <1>4

\* What a registry that grows offers below a version that is accepted from it was tried before
\* that version, and is settled.
LEMMA AcceptedIsBacked ==
    ASSUME OffersGrow, NEW u \in Urls, NEW o \in Offers[u], NEW ws \in Seq(SkillVersion),
           NEW td \in Seq(Versions), td # <<>>, Sorted(td), ~Malformed(Head(td)),
           \E k \in 1..Len(o.versions) : o.versions[k] = Head(td),
           \A k \in 1..Len(o.versions) : \/ \E j \in 1..Len(td) : td[j] = o.versions[k]
                                         \/ Settled(ws, u, o.versions[k]),
           Backed(ws, u, o.name)
    PROVE  Backed(Append(ws, [version |-> Head(td), by |-> u]), u, o.name)
<1> DEFINE v == Head(td)
           e == [version |-> v, by |-> u]
           us == Append(ws, e)
<1>1. v \in Versions /\ v = td[1] /\ 1 \in 1..Len(td) /\ Len(td) \in Nat
      /\ \A j \in 1..Len(td) : td[j] \in Versions /\ (j = 1 \/ 1 < j)
  OBVIOUS
<1>2. o \in Offered /\ \A m \in Offers[u] : m \in Offered
  BY SyncFacts, Zenon
<1>3. ASSUME NEW m \in Offers[u]
      PROVE  m.versions \in Seq(Versions) /\ DOMAIN m.versions = 1..Len(m.versions)
             /\ \A k \in 1..Len(m.versions) : m.versions[k] \in Versions
  <2>1. m.versions \in Seq(Versions)
    BY <1>2 DEF Offered
  <2> QED BY <2>1
<1>4. \A w \in Versions : w \in Seq(Int) /\ Materialize(w) \in Seq(Int)
                          /\ VersionKey(w) = IF Malformed(w) THEN NoVersion ELSE Materialize(w)
  BY VersionsAreTuples DEF VersionKey
<1> HIDE DEF v
<1>5. e \in SkillVersion
  <2>1. u \in Origins
    BY SyncFacts, Zenon
  <2> QED BY <1>1, <2>1 DEF SkillVersion
<1>6. /\ us \in Seq(SkillVersion) /\ Longer(ws, us) /\ us[Len(ws) + 1] = e
      /\ \A i \in 1..Len(us) : i \in 1..Len(ws) \/ i = Len(ws) + 1
  BY <1>5, AppendIsLonger
<1>7. e.by = u /\ e.version = v
  OBVIOUS
<1> HIDE DEF e, us
<1>8. ASSUME NEW m \in Offers[u], m.name = o.name, NEW k \in 1..Len(m.versions),
             TupleLess(Materialize(m.versions[k]), Materialize(v))
      PROVE  Settled(us, u, m.versions[k])
  <2> DEFINE w == m.versions[k]
  <2>1. w \in Versions
    BY <1>3
  <2> HIDE DEF w
  <2>2. CASE Malformed(w)
    BY <2>2, Zenon DEF Settled, w
  <2>3. CASE ~Malformed(w)
    <3>1. w \in ToSet(m.versions) /\ v \in ToSet(o.versions)
      <4>1. PICK l \in 1..Len(o.versions) : o.versions[l] = v
        BY DEF v
      <4>2. DOMAIN m.versions = 1..Len(m.versions) /\ DOMAIN o.versions = 1..Len(o.versions)
        BY <1>3, Zenon
      <4> QED BY <4>1, <4>2, Zenon DEF ToSet, w
    <3>2. ~Malformed(v) /\ TupleLess(Materialize(w), Materialize(v))
      BY <1>8, Zenon DEF v, w
    <3>3. PICK x \in ToSet(o.versions) : Materialize(x) = Materialize(w)
      <4>1. \A p \in ToSet(m.versions), q \in ToSet(o.versions) :
                ~Malformed(p) /\ ~Malformed(q) /\ TupleLess(Materialize(p), Materialize(q))
                    => \E x \in ToSet(o.versions) : Materialize(x) = Materialize(p)
        BY <1>8 DEF OffersGrow
      <4> QED BY <2>3, <3>1, <3>2, <4>1, Zenon
    <3>4. PICK l \in 1..Len(o.versions) : o.versions[l] = x
      <4>1. DOMAIN o.versions = 1..Len(o.versions)
        BY <1>3, Zenon
      <4> QED BY <4>1, Zenon DEF ToSet
    <3>5. x \in Versions
      BY <1>3, <3>4
    <3>6. ~Malformed(x)
      BY <1>4, <2>1, <2>3, <3>3, <3>5, MalformedIs, Zenon
    <3>7. ASSUME NEW j \in 1..Len(td), td[j] = x PROVE FALSE
      <4>1. VersionKey(v) = Materialize(v) /\ VersionKey(x) = Materialize(w)
        BY <1>1, <1>4, <3>2, <3>3, <3>5, <3>6
      <4>2. Materialize(v) = Materialize(w) \/ TupleLess(Materialize(v), Materialize(w))
        BY <1>1, <3>7, <4>1 DEF Sorted
      <4>3. ~TupleLess(Materialize(v), Materialize(v))
        BY <1>1, <1>4, TupleLessIrreflexive
      <4>4. TupleLess(Materialize(v), Materialize(w)) => TupleLess(Materialize(v), Materialize(v))
        <5>1. Materialize(v) \in Seq(Int) /\ Materialize(w) \in Seq(Int)
          BY <1>1, <1>4, <2>1
        <5> QED BY <3>2, <5>1, TupleLessTransitive
      <4> QED BY <3>2, <4>2, <4>3, <4>4, Zenon
    <3>8. Settled(ws, u, x)
      BY <3>4, <3>7, Zenon
    <3>9. Settled(us, u, x)
      BY <1>6, <3>8, SettledStays
    <3>10. Settled(us, u, w)
      BY <1>4, <2>1, <3>3, <3>5, <3>9, SettledAlike, Zenon
    <3> QED BY <3>10, Zenon DEF w
  <2> QED BY <2>2, <2>3
<1>9. ASSUME NEW i \in 1..Len(us), us[i].by = u, NEW m \in Offers[u], m.name = o.name,
             NEW k \in 1..Len(m.versions), TupleLess(Materialize(m.versions[k]), Materialize(us[i].version))
      PROVE  Settled(us, u, m.versions[k])
  <2>1. CASE i \in 1..Len(ws)
    <3>1. us[i] = ws[i]
      BY <1>6, <2>1, Zenon DEF Longer
    <3>2. Settled(ws, u, m.versions[k])
      BY <1>9, <2>1, <3>1, Zenon DEF Backed
    <3> QED BY <1>6, <3>2, SettledStays
  <2>2. CASE i = Len(ws) + 1
    <3>1. us[i].version = v
      BY <1>6, <1>7, <2>2, Zenon
    <3> QED BY <1>8, <1>9, <3>1, Zenon
  <2> QED BY <1>6, <2>1, <2>2
<1>10. Backed(us, u, o.name)
  BY <1>9, Zenon DEF Backed
<1> QED BY <1>10 DEF us, e, v

\* A sync tries a version: the catalog takes it, or wanted nothing more of it.
LEMMA PublishNextLeaves ==
    ASSUME OffersGrow, MarketInv, LeftInv, NEW r \in Requests, PublishNext(r)
    PROVE  LeftInv'
<1> DEFINE m == offer[r]
           name == m.name
           v == Head(todo[r])
           u == Head(urls[r])
           e == [version |-> v, by |-> u]
           W(x) == VersionsIn(skills, x)
           U(x) == VersionsIn(skills', x)
<1>1. CatalogInv /\ SyncTyped /\ AllBacked /\ AllTrying /\ AllTaken
  BY Zenon DEF MarketInv, LeftInv
<1>2. /\ stage[r] = "publish" /\ todo[r] # <<>> /\ HasRoom(name)
      /\ skills' = Published(name, m.kind, v, u)
      /\ todo' = [todo EXCEPT ![r] = Tail(todo[r])]
      /\ UNCHANGED <<installed, urls, offer, outcomes>>
      /\ \A q \in Requests : q # r => stage'[q] = stage[q]
  <2>1. /\ Accepts(name, v) => stage' = [stage EXCEPT ![r] = "stamp"]
        /\ ~Accepts(name, v) => stage' = stage
    BY DEF PublishNext
  <2>2. \A q \in Requests : q # r => stage'[q] = stage[q]
    BY <1>1, <2>1 DEF SyncTyped
  <2> QED BY <2>2 DEF PublishNext
<1>3. /\ m \in Offered /\ name \in Names /\ m.kind \in Kinds /\ v \in Versions /\ u \in Urls
      /\ u \in Origins /\ todo[r] \in Seq(Versions) /\ m.versions \in Seq(Versions)
  <2>1. m \in Offered /\ todo[r] \in Seq(Versions) /\ urls[r] \in Seq(Urls) /\ urls[r] # <<>>
    BY <1>1, <1>2 DEF SyncTyped
  <2>2. Urls \subseteq Origins
    BY SyncFacts, Zenon
  <2> QED BY <1>2, <2>1, <2>2 DEF Offered
<1>4. TryingAll(r)
  BY <1>1, <1>2, Zenon DEF AllTrying
<1>5. /\ m \in Offers[u] /\ Sorted(todo[r])
      /\ \A j \in 1..Len(todo[r]) : \E k \in 1..Len(m.versions) : m.versions[k] = todo[r][j]
      /\ \A k \in 1..Len(m.versions) : \/ \E j \in 1..Len(todo[r]) : todo[r][j] = m.versions[k]
                                       \/ Settled(W(name), u, m.versions[k])
  BY <1>4, Zenon DEF TryingAll
<1>6. /\ skills \in Seq(Manifest) /\ skills' \in Seq(Manifest)
      /\ \A x \in Names : x # name => U(x) = W(x)
      /\ U(name) = IF Accepts(name, v) THEN Append(W(name), e) ELSE W(name)
  <2>1. UNCHANGED installed
    BY <1>2, Zenon
  <2> HIDE DEF m, v, u
  <2> QED BY <1>1, <1>2, <1>3, <2>1, PublishedHistory
<1>7. \A x \in Names : W(x) \in Seq(SkillVersion) /\ U(x) \in Seq(SkillVersion)
  BY <1>6, VersionsInType, Zenon
<1>8. e \in SkillVersion /\ e.by = u /\ e.version = v
  BY <1>3 DEF SkillVersion
<1>9. \A x \in Names, q \in Urls : Backed(W(x), q, x)
  BY <1>1, Zenon DEF AllBacked
<1>10. \E k \in 1..Len(m.versions) : m.versions[k] = v
  <2>1. 1 \in 1..Len(todo[r]) /\ todo[r][1] = v
    BY <1>2, <1>3
  <2> QED BY <1>5, <2>1, Zenon
<1> HIDE DEF m, v, u, e, name, W, U
<1>11. ASSUME NEW x \in Names PROVE Longer(W(x), U(x))
  <2>1. U(x) = W(x) \/ U(x) = Append(W(x), e)
    BY <1>6
  <2>2. Longer(W(x), W(x))
    BY <1>7 DEF Longer
  <2>3. Longer(W(x), Append(W(x), e))
    BY <1>7, <1>8, AppendIsLonger
  <2> QED BY <2>1, <2>2, <2>3
<1>12. HistoriesGrow(skills, skills')
  BY <1>11, Zenon DEF HistoriesGrow, W, U
<1>13. Settled(U(name), u, v)
  <2>1. CASE Accepts(name, v)
    <3>1. U(name) = Append(W(name), e)
      BY <1>6, <2>1
    <3>2. Len(U(name)) = Len(W(name)) + 1 /\ Len(W(name)) \in Nat /\ U(name)[Len(W(name)) + 1] = e
      BY <1>3, <1>7, <1>8, <3>1, AppendIsLonger
    <3>3. Len(U(name)) \in 1..Len(U(name)) /\ U(name)[Len(U(name))] = e
      BY <3>2
    <3> QED BY <1>8, <3>3, Zenon DEF Settled
  <2>2. CASE ~Accepts(name, v)
    <3>1. Settled(W(name), u, v)
      <4>1. PICK k \in 1..Len(m.versions) : m.versions[k] = v
        BY <1>10
      <4>2. Backed(W(name), u, name)
        BY <1>3, <1>9
      <4> QED BY <1>1, <1>3, <1>5, <2>2, <4>1, <4>2, RejectedIsSettled, Zenon DEF W, name
    <3> QED BY <1>6, <2>2, <3>1
  <2> QED BY <2>1, <2>2
<1>14. AllBacked'
  <2> SUFFICES ASSUME NEW x \in Names, NEW q \in Urls PROVE Backed(U(x), q, x)
    BY Zenon DEF AllBacked, U
  <2>1. CASE U(x) = W(x)
    BY <1>9, <2>1
  <2>2. CASE x = name /\ Accepts(name, v) /\ q = u
    <3>1. ~Malformed(v)
      BY <2>2 DEF Accepts
    <3>2. Backed(W(name), u, m.name) /\ W(name) \in Seq(SkillVersion)
      BY <1>3, <1>7, <1>9 DEF name
    <3>3. Backed(Append(W(name), e), u, m.name)
      BY <1>2, <1>3, <1>5, <1>10, <3>1, <3>2, AcceptedIsBacked DEF v, e
    <3> QED BY <1>6, <2>2, <3>3 DEF name
  <2>3. CASE x = name /\ Accepts(name, v) /\ q # u
    <3>1. U(x) = Append(W(x), e) /\ W(x) \in Seq(SkillVersion) /\ U(x) \in Seq(SkillVersion)
      BY <1>6, <1>7, <2>3
    <3>2. \A i \in 1..Len(U(x)) : i \in 1..Len(W(x)) \/ U(x)[i].by # q
      BY <1>8, <2>3, <3>1, AppendIsLonger
    <3> QED BY <1>9, <1>11, <3>1, <3>2, BackedStays, Zenon
  <2> QED BY <1>6, <2>1, <2>2, <2>3
<1>15. TryingAll(r)'
  <2> DEFINE td == Tail(todo[r])
  <2>1. /\ Len(todo[r]) \in Nat /\ Len(td) = Len(todo[r]) - 1 /\ v = todo[r][1] /\ Len(todo[r]) > 0
        /\ \A j \in 1..Len(td) : j + 1 \in 1..Len(todo[r]) /\ td[j] = todo[r][j + 1]
    BY <1>2, <1>3 DEF v
  <2>2. \A j \in 1..Len(todo[r]) : j = 1 \/ (j - 1 \in 1..Len(td) /\ td[j - 1] = todo[r][j])
    <3> TAKE j \in 1..Len(todo[r])
    <3>1. j = 1 \/ j - 1 \in 1..Len(td)
      BY <2>1
    <3>2. (j - 1) + 1 = j
      BY <2>1
    <3> QED BY <2>1, <3>1, <3>2
  <2>3. todo'[r] = td /\ urls' = urls /\ offer' = offer
    BY <1>1, <1>2 DEF SyncTyped
  <2> HIDE DEF td
  <2>4. Sorted(td)
    <3> SUFFICES ASSUME NEW i \in 1..Len(td), NEW j \in 1..Len(td), i < j
                 PROVE  \/ VersionKey(td[i]) = VersionKey(td[j])
                        \/ TupleLess(VersionKey(td[i]), VersionKey(td[j]))
      BY DEF Sorted
    <3>1. i + 1 < j + 1
      BY <2>1
    <3> QED BY <1>5, <2>1, <3>1 DEF Sorted
  <2>5. \A j \in 1..Len(td) : \E k \in 1..Len(m.versions) : m.versions[k] = td[j]
    BY <1>5, <2>1
  <2>6. ASSUME NEW k \in 1..Len(m.versions)
        PROVE  \/ \E j \in 1..Len(td) : td[j] = m.versions[k]
               \/ Settled(U(name), u, m.versions[k])
    <3>1. ASSUME NEW j \in 1..Len(todo[r]), todo[r][j] = m.versions[k]
          PROVE  m.versions[k] = v \/ \E i \in 1..Len(td) : td[i] = m.versions[k]
      BY <2>1, <2>2, <3>1
    <3>2. Settled(W(name), u, m.versions[k]) => Settled(U(name), u, m.versions[k])
      BY <1>3, <1>7, <1>11, SettledStays
    <3> QED BY <1>5, <1>13, <3>1, <3>2, Zenon
  <2> QED BY <1>5, <2>3, <2>4, <2>5, <2>6, Zenon DEF TryingAll, m, u, name, U
<1>16. AllTrying'
  <2> SUFFICES ASSUME NEW q \in Requests, Trying(q)' PROVE TryingAll(q)'
    BY Zenon DEF AllTrying, Trying
  <2>1. CASE q = r
    BY <1>15, <2>1
  <2>2. CASE q # r
    <3>1. urls'[q] = urls[q] /\ offer'[q] = offer[q] /\ todo'[q] = todo[q] /\ stage'[q] = stage[q]
      BY <1>1, <1>2, <2>2 DEF SyncTyped
    <3>2. Trying(q)
      BY <3>1, Zenon DEF Trying
    <3>3. TryingAll(q)
      BY <1>1, <3>2, Zenon DEF AllTrying, Trying
    <3> QED BY <1>1, <1>6, <1>12, <3>1, <3>2, <3>3, TryingStays, Zenon
  <2> QED BY <2>1, <2>2
<1>17. AllTaken'
  <2>1. outcomes' = outcomes
    BY <1>2, Zenon
  <2> QED BY <1>1, <1>6, <1>12, <2>1, TakenStays, Zenon DEF AllTaken
<1> QED BY <1>14, <1>16, <1>17, Zenon DEF LeftInv

\* A sync that fetched a manifest has all of its versions to try.
LEMMA FetchLeaves ==
    ASSUME MarketInv, LeftInv, NEW r \in Requests, Fetch(r)
    PROVE  LeftInv'
<1>1. SyncTyped /\ AllBacked /\ AllTrying /\ AllTaken
  BY Zenon DEF MarketInv, LeftInv
<1>2. PICK m \in Offers[Head(urls[r])] :
          /\ stage' = [stage EXCEPT ![r] = "publish"]
          /\ offer' = [offer EXCEPT ![r] = m]
          /\ todo' = [todo EXCEPT ![r] = InOrder(m.versions)]
  BY Zenon DEF Fetch
<1>3. stage[r] = "fetch" /\ UNCHANGED <<skills, urls, outcomes>>
  BY DEF Fetch, catalogVars
<1>4. m.versions \in Seq(Versions)
  <2>1. Head(urls[r]) \in Urls
    BY <1>1, <1>3 DEF SyncTyped
  <2>2. m \in Offered
    BY <2>1, SyncFacts, Zenon
  <2> QED BY <2>2 DEF Offered
<1>5. /\ stage'[r] = "publish" /\ offer'[r] = m /\ todo'[r] = InOrder(m.versions)
      /\ \A q \in Requests : q # r =>
             stage'[q] = stage[q] /\ offer'[q] = offer[q] /\ todo'[q] = todo[q]
  BY <1>1, <1>2 DEF SyncTyped
<1>6. TryingAll(r)'
  <2> DEFINE td == InOrder(m.versions)
  <2>1. /\ Sorted(td)
        /\ \A j \in 1..Len(td) : \E k \in 1..Len(m.versions) : m.versions[k] = td[j]
        /\ \A k \in 1..Len(m.versions) : \E j \in 1..Len(td) : td[j] = m.versions[k]
    BY <1>4, InOrderIsOffered, Zenon
  <2> HIDE DEF td
  <2>2. todo'[r] = td /\ offer'[r] = m /\ m \in Offers[Head(urls'[r])]
    BY <1>3, <1>5 DEF td
  <2> QED BY <2>1, <2>2, Zenon DEF TryingAll
<1>7. ASSUME NEW q \in Requests, q # r, Trying(q)' PROVE TryingAll(q)'
  <2>1. TryingAll(q)
    BY <1>1, <1>5, <1>7, Zenon DEF AllTrying, Trying
  <2>2. offer'[q] = offer[q] /\ todo'[q] = todo[q] /\ urls' = urls /\ skills' = skills
    BY <1>3, <1>5, <1>7
  <2> QED BY <2>1, <2>2, Zenon DEF TryingAll
<1>8. AllTrying'
  BY <1>6, <1>7, Zenon DEF AllTrying, Trying
<1>9. AllBacked' /\ AllTaken'
  BY <1>1, <1>3, Zenon DEF AllBacked, AllTaken
<1> QED BY <1>8, <1>9, Zenon DEF LeftInv

\* A sync that came to its end has nothing left to try: all it was offered is settled.
LEMMA AllTriedLeaves ==
    ASSUME MarketInv, LeftInv, NEW r \in Requests, AllTried(r)
    PROVE  LeftInv'
<1> DEFINE u == Head(urls[r])
           m == offer[r]
<1>1. SyncTyped /\ AllBacked /\ AllTrying /\ AllTaken
  BY Zenon DEF MarketInv, LeftInv
<1>2. /\ stage[r] = "publish" /\ todo[r] = <<>> /\ UNCHANGED <<skills, offer, todo>>
      /\ outcomes' = outcomes \cup {[url |-> u, offer |-> m]}
      /\ \A q \in Requests : q # r => stage'[q] = stage[q] /\ urls'[q] = urls[q]
      /\ stage'[r] \in {"over", "record"} /\ (stage'[r] = "record" => urls'[r] = urls[r])
  <2>1. /\ \/ stage' = [stage EXCEPT ![r] = "over"] /\ urls' = [urls EXCEPT ![r] = <<>>]
           \/ stage' = [stage EXCEPT ![r] = "record"] /\ urls' = urls
    BY Zenon DEF AllTried, End
  <2>2. /\ \A q \in Requests : q # r => stage'[q] = stage[q] /\ urls'[q] = urls[q]
        /\ stage'[r] \in {"over", "record"} /\ (stage'[r] = "record" => urls'[r] = urls[r])
    BY <1>1, <2>1 DEF SyncTyped
  <2> QED BY <2>2 DEF AllTried, catalogVars
<1>3. u \in Urls /\ m \in Offered
  BY <1>1, <1>2 DEF SyncTyped
<1>4. \A k \in 1..Len(m.versions) : Settled(VersionsIn(skills, m.name), u, m.versions[k])
  <2>1. TryingAll(r)
    BY <1>1, <1>2, Zenon DEF AllTrying
  <2>2. \A j \in 1..Len(todo[r]) : FALSE
    BY <1>2
  <2> QED BY <2>1, <2>2, Zenon DEF TryingAll
<1>5. AllTaken'
  <2> SUFFICES ASSUME NEW o \in outcomes'
               PROVE  /\ o.url \in Urls /\ o.offer \in Offered
                      /\ \A k \in 1..Len(o.offer.versions) :
                             Settled(VersionsIn(skills', o.offer.name), o.url, o.offer.versions[k])
    BY Zenon DEF AllTaken
  <2>1. CASE o \in outcomes
    BY <1>1, <1>2, <2>1, Zenon DEF AllTaken
  <2>2. CASE o \notin outcomes
    <3>1. o.url = u /\ o.offer = m
      BY <1>2, <2>2
    <3> QED BY <1>2, <1>3, <1>4, <3>1, Zenon
  <2> QED BY <2>1, <2>2
<1>6. AllTrying'
  <2> SUFFICES ASSUME NEW q \in Requests, Trying(q)' PROVE TryingAll(q)'
    BY Zenon DEF AllTrying, Trying
  <2>1. urls'[q] = urls[q] /\ Trying(q)
    <3>1. CASE q = r
      BY <1>2, <3>1 DEF Trying
    <3>2. CASE q # r
      BY <1>2, <3>2 DEF Trying
    <3> QED BY <3>1, <3>2
  <2>2. TryingAll(q)
    BY <1>1, <2>1, Zenon DEF AllTrying, Trying
  <2> QED BY <1>2, <2>1, <2>2, Zenon DEF TryingAll
<1>7. AllBacked'
  BY <1>1, <1>2, Zenon DEF AllBacked
<1> QED BY <1>5, <1>6, <1>7, Zenon DEF LeftInv

\* Registering, starting, failing, stamping and recording add no version and begin no trying.
LEMMA OthersLeave ==
    ASSUME MarketInv, MarketInv', LeftInv,
           \/ \E u \in Urls : RegisterSource(u)
           \/ \E r \in Requests : Sync(r) \/ SyncAll(r) \/ FetchFails(r) \/ Stamp(r) \/ RecordSync(r)
           \/ UNCHANGED vars
    PROVE  LeftInv'
<1> DEFINE Quiet == \A q \in Requests : Trying(q)' =>
                        Trying(q) /\ urls'[q] = urls[q] /\ offer'[q] = offer[q] /\ todo'[q] = todo[q]
           Kept == /\ Len(skills') = Len(skills)
                        /\ \A k \in 1..Len(skills) : /\ skills'[k].name = skills[k].name
                                                     /\ skills'[k].versions = skills[k].versions
<1>1. /\ SyncTyped /\ skills \in Seq(Manifest) /\ skills' \in Seq(Manifest)
  BY Zenon DEF MarketInv, CatalogInv
<1>2. skills' = skills => Kept
  BY Zenon
<1>3. ASSUME NEW u \in Urls, RegisterSource(u) PROVE skills' = skills /\ outcomes' = outcomes /\ Quiet
  BY <1>3 DEF RegisterSource, catalogVars, Trying
<1>4. ASSUME NEW r \in Requests, NEW us, Start(r, us)
      PROVE  skills' = skills /\ outcomes' = outcomes /\ Quiet
  BY <1>1, <1>4 DEF Start, catalogVars, Trying, SyncTyped
<1>5. ASSUME NEW r \in Requests, FetchFails(r)
      PROVE  skills' = skills /\ outcomes' = outcomes /\ Quiet
  BY <1>1, <1>5 DEF FetchFails, End, catalogVars, Trying, SyncTyped
<1>6. ASSUME NEW r \in Requests, RecordSync(r)
      PROVE  skills' = skills /\ outcomes' = outcomes /\ Quiet
  <2>1. /\ stage' = [stage EXCEPT ![r] = IF urls'[r] = <<>> THEN "over" ELSE "fetch"]
        /\ UNCHANGED <<skills, todo, outcomes>>
        /\ urls' = [urls EXCEPT ![r] = Tail(urls[r])]
    BY <1>6 DEF RecordSync, catalogVars
  <2>2. \E x : offer' = [offer EXCEPT ![r] = x]
    BY <1>6, Zenon DEF RecordSync
  <2>3. stage'[r] \in {"over", "fetch"}
    BY <1>1, <2>1 DEF SyncTyped
  <2>4. \A q \in Requests : q # r => stage'[q] = stage[q] /\ urls'[q] = urls[q] /\ offer'[q] = offer[q]
    BY <1>1, <2>1, <2>2 DEF SyncTyped
  <2> QED BY <2>1, <2>3, <2>4 DEF Trying
<1>7. ASSUME NEW r \in Requests, Stamp(r)
      PROVE  Kept /\ outcomes' = outcomes /\ Quiet
  <2>1. /\ stage[r] = "stamp" /\ skills' = [skills EXCEPT ![reached[r]].source = Head(urls[r])]
        /\ stage' = [stage EXCEPT ![r] = "publish"] /\ UNCHANGED <<urls, offer, todo, outcomes>>
    BY <1>7 DEF Stamp, UrlOf
  <2>2. Kept
    <3>1. \A k \in 1..Len(skills) : skills[k] \in Manifest /\ k \in DOMAIN skills
      BY <1>1
    <3>2. reached[r] \in 1..Len(skills)
      BY <2>1, Zenon DEF MarketInv, Provenance
    <3>3. Len(skills') = Len(skills)
      BY <1>1, <2>1
    <3> QED BY <2>1, <3>1, <3>3 DEF Manifest
  <2>3. Quiet
    BY <1>1, <2>1 DEF SyncTyped, Trying
  <2> QED BY <2>1, <2>2, <2>3
<1>8. UNCHANGED vars => skills' = skills /\ outcomes' = outcomes /\ Quiet
  BY DEF vars, catalogVars, syncVars, Trying
<1>9. Kept /\ outcomes' = outcomes /\ Quiet
  <2> HIDE DEF Kept, Quiet
  <2> QED BY <1>2, <1>3, <1>4, <1>5, <1>6, <1>7, <1>8, Zenon DEF Sync, SyncAll
<1>10. HistoriesGrow(skills, skills') /\ OthersOnly(skills, skills')
  BY <1>1, <1>9, SameHistories, Zenon
<1> QED BY <1>1, <1>9, <1>10, LeftKept, Zenon

\* Initially nothing was tried.
LEMMA LeftInit == Init => LeftInv
<1> SUFFICES ASSUME Init PROVE LeftInv
  OBVIOUS
<1>1. skills = <<>> /\ outcomes = {} /\ \A r \in Requests : stage[r] = "new"
  BY DEF Init, CatalogInit
<1>2. ASSUME NEW n \in Names, NEW u \in Urls PROVE Backed(VersionsIn(skills, n), u, n)
  <2>1. skills \in Seq(Manifest) /\ Len(skills) = 0
    BY <1>1
  <2>2. First(skills, n) \in 0..0
    BY <2>1, FirstIs, Zenon
  <2>3. First(skills, n) = 0
    BY <2>2
  <2>4. VersionsIn(skills, n) = <<>>
    BY <2>3, Zenon DEF VersionsIn
  <2>5. \A i \in 1..Len(<<>>) : FALSE
    OBVIOUS
  <2> QED BY <2>4, <2>5, Zenon DEF Backed
<1>3. AllTrying
  BY <1>1 DEF AllTrying
<1>4. AllTaken
  BY <1>1 DEF AllTaken
<1> QED BY <1>2, <1>3, <1>4 DEF LeftInv, AllBacked

\* Every step keeps the invariant, where registries grow.
LEMMA LeftStep ==
    ASSUME OffersGrow, MarketInv, MarketInv', LeftInv, [Next]_vars
    PROVE  LeftInv'
<1>1. CASE UseCatalog
  BY <1>1, UseCatalogLeaves, Zenon
<1>2. ASSUME NEW r \in Requests, Fetch(r) PROVE LeftInv'
  BY <1>2, FetchLeaves, Zenon
<1>3. ASSUME NEW r \in Requests, PublishNext(r) PROVE LeftInv'
  BY <1>3, PublishNextLeaves, Zenon
<1>4. ASSUME NEW r \in Requests, AllTried(r) PROVE LeftInv'
  BY <1>4, AllTriedLeaves, Zenon
<1>5. CASE \/ \E u \in Urls : RegisterSource(u)
           \/ \E r \in Requests : Sync(r) \/ SyncAll(r) \/ FetchFails(r) \/ Stamp(r) \/ RecordSync(r)
           \/ UNCHANGED vars
  BY <1>5, OthersLeave, Zenon
<1> QED BY <1>1, <1>2, <1>3, <1>4, <1>5, Zenon DEF Next

\* "Publishes every version in ascending order (the catalog already rejects non-newer versions)"
\* (remote.py 20-21): a sync that came to its end left no version behind but for a newer one of
\* somebody else's, however many syncs run at once, if each registry goes on offering the older
\* versions it had.
THEOREM NothingLeftBehind ==
    ASSUME OffersGrow
    PROVE  Spec => []SyncLeavesNothingBehind
<1>1. LeftInv /\ MarketInv => SyncLeavesNothingBehind
  <2> SUFFICES ASSUME LeftInv, MarketInv, NEW o \in outcomes, NEW v \in ToSet(o.offer.versions)
               PROVE  LET vs == ToSet(skills[Find(o.offer.name)].versions) IN
                      \/ Malformed(v) \/ ~TupleLess(NoVersion, Materialize(v))
                      \/ \E e \in vs : Materialize(e.version) = Materialize(v)
                      \/ \E e \in vs : /\ e.by # o.url
                                       /\ TupleLess(Materialize(v), Materialize(e.version))
    BY Zenon DEF SyncLeavesNothingBehind
  <2> DEFINE ws == VersionsIn(skills, o.offer.name)
             vs == ToSet(skills[Find(o.offer.name)].versions)
  <2>1. /\ o.url \in Urls /\ o.offer \in Offered
        /\ \A k \in 1..Len(o.offer.versions) : Settled(ws, o.url, o.offer.versions[k])
    BY Zenon DEF LeftInv, AllTaken
  <2>2. PICK k \in 1..Len(o.offer.versions) : o.offer.versions[k] = v
    <3>1. DOMAIN o.offer.versions = 1..Len(o.offer.versions)
      BY <2>1 DEF Offered
    <3> QED BY <3>1, Zenon DEF ToSet
  <2>3. Settled(ws, o.url, v)
    BY <2>1, <2>2, Zenon
  <2>4. \A i \in 1..Len(ws) : ws[i] \in vs
    <3>1. skills \in Seq(Manifest) /\ First(skills, o.offer.name) = Find(o.offer.name)
      BY DEF MarketInv, CatalogInv, First, Find
    <3>2. ws \in Seq(SkillVersion)
      BY <3>1, VersionsInType, Zenon
    <3>3. CASE Find(o.offer.name) = 0
      <4>1. ws = <<>>
        BY <3>1, <3>3, Zenon DEF VersionsIn
      <4> QED BY <4>1
    <3>4. CASE Find(o.offer.name) # 0
      <4>1. ws = skills[Find(o.offer.name)].versions
        BY <3>1, <3>4, Zenon DEF VersionsIn
      <4>2. DOMAIN ws = 1..Len(ws)
        BY <3>2
      <4> QED BY <4>1, <4>2, Zenon DEF ToSet
    <3> QED BY <3>3, <3>4
  <2> HIDE DEF ws, vs
  <2>5. \/ Malformed(v) \/ ~TupleLess(NoVersion, Materialize(v))
        \/ \E e \in vs : Materialize(e.version) = Materialize(v)
        \/ \E e \in vs : e.by # o.url /\ TupleLess(Materialize(v), Materialize(e.version))
    BY <2>3, <2>4, Zenon DEF Settled
  <2> QED BY <2>5 DEF vs
<1>2. MarketInv /\ MarketInv' /\ LeftInv /\ [Next]_vars => LeftInv'
  BY LeftStep, Zenon
<1>3. Spec => []LeftInv
  BY LeftInit, MarketSafety, <1>2, PTL DEF Spec
<1> QED BY <1>1, <1>3, MarketSafety, PTL
=============================================================================
