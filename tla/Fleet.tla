--------------------------------- MODULE Fleet ---------------------------------
(***************************************************************************)
(* Nodes of a distributed fleet: omni/fleet/node.py on top of the shared   *)
(* state of omni/fleet/storage.py.  Each call of the storage is one lock   *)
(* or one transaction; elect() makes four of them with nothing held in     *)
(* between, and a node may have several requests inside it at once.        *)
(*                                                                         *)
(* The two storages differ in the queue and in what a crash takes along.   *)
(* InMemoryFleetStorage removes a task when it is leased and dies with its *)
(* process, which is every node's.  PostgresFleetStorage keeps the row,    *)
(* leases it again once the lease has run out, and survives its nodes.     *)
(***************************************************************************)
EXTENDS Integers, FiniteSets, FiniteSetsExt

CONSTANTS
    Nodes,              \* node ids, compared like the strings of the code
    Threads,            \* requests served at once
    NodeOf,             \* the node each of them runs on
    Capacities,         \* what FleetNode(capacity=) may be given
    LeaseTime,          \* lease_s
    MaxTerm, MaxTasks, MaxClock,    \* bounds
    Budgets             \* bounds: how many terms and tasks a behaviour may use

NoNode == 0
Tasks  == 1..MaxTasks

ASSUME FleetAssumption ==
    /\ Nodes \subseteq Nat \ {NoNode} /\ IsFiniteSet(Nodes)
    /\ NodeOf \in [Threads -> Nodes] /\ IsFiniteSet(Threads)
    /\ Capacities \subseteq Nat \ {0}
    /\ LeaseTime \in Nat \ {0}
    /\ {MaxTerm, MaxTasks, MaxClock} \subseteq Nat
    /\ Budgets \subseteq [terms : 0..MaxTerm, tasks : 0..MaxTasks]

VARIABLES
    backend,    \* which storage, for good
    budget,     \* what this behaviour may use, for good
    capacity,   \* of each node, as it was last started
    registry,   \* the capacity each node last announced, 0 before
    leader,     \* the leader on record
    pc,         \* where each request stands in elect()
    best,       \* the winner it computed
    read,       \* the term it found on record
    row,        \* the queue: "absent", "queued", "leased" or "popped" by task
    until,      \* leased_until
    now,        \* the storage's clock
    holds,      \* what adopt_task() gave each node, and for how long
    held,       \* history: every leader that was on record, with its term
    reported,   \* history: what elect() answered to the nodes that lost
    fresh,      \* history: has the registry stood still since nodes()?
    settled,    \* history: has a fresh winner written since the registry changed?
    raced       \* history: did anybody write between get_leader() and set_leader()?

electionVars == <<capacity, registry, leader, pc, best, read>>
queueVars    == <<row, until, now, holds>>
histories    == <<held, reported, fresh, settled, raced>>
settings     == <<backend, budget>>
vars         == <<settings, electionVars, queueVars, histories>>

NoLeader == [node |-> NoNode, term |-> 0]
Held     == [node : Nodes, term : 1..MaxTerm]
Holding  == [task : Tasks, until : 0 .. MaxClock + LeaseTime]

FleetTypeOK ==
    /\ backend \in {"memory", "postgres"}
    /\ budget \in Budgets
    /\ capacity \in [Nodes -> Capacities]
    /\ registry \in [Nodes -> Capacities \cup {0}]
    /\ leader \in Held \cup {NoLeader}
    /\ pc \in [Threads -> {"idle", "nodes", "leader", "write"}]
    /\ best \in [Threads -> Nodes \cup {NoNode}]
    /\ read \in [Threads -> 0..MaxTerm]
    /\ row \in [Tasks -> {"absent", "queued", "leased", "popped"}]
    /\ until \in [Tasks -> 0 .. MaxClock + LeaseTime]
    /\ now \in 0..MaxClock
    /\ holds \in [Nodes -> SUBSET Holding]
    /\ held \subseteq Held /\ reported \subseteq Held
    /\ fresh \in [Threads -> BOOLEAN]
    /\ settled \in BOOLEAN /\ raced \in BOOLEAN

Init ==
    /\ backend \in {"memory", "postgres"}
    /\ budget \in Budgets
    /\ capacity \in [Nodes -> Capacities]
    /\ registry = [n \in Nodes |-> 0]
    /\ leader = NoLeader
    /\ pc = [t \in Threads |-> "idle"]
    /\ best = [t \in Threads |-> NoNode]
    /\ read = [t \in Threads |-> 0]
    /\ row = [i \in Tasks |-> "absent"]
    /\ until = [i \in Tasks |-> 0]
    /\ now = 0
    /\ holds = [n \in Nodes |-> {}]
    /\ held = {} /\ reported = {}
    /\ fresh = [t \in Threads |-> FALSE]
    /\ settled = FALSE /\ raced = FALSE

-----------------------------------------------------------------------------
(* The registry and elect().                                               *)

Announced == {n \in Nodes : registry[n] > 0}

\* Does m come before n: more capacity, or as much and the larger id?
Beats(m, n) == \/ registry[m] > registry[n]
               \/ registry[m] = registry[n] /\ m > n

BestById == CHOOSE m \in Announced : \A n \in Announced \ {m} : m > n        \* mutant
Best     == CHOOSE m \in Announced : \A n \in Announced \ {m} : Beats(m, n)

\* The node's entry is replaced; what changes it makes earlier views stale.
Enter(n) ==
    /\ registry' = [registry EXCEPT ![n] = capacity[n]]
    /\ IF registry[n] = capacity[n]
       THEN UNCHANGED <<fresh, settled>>
       ELSE /\ fresh' = [t \in Threads |-> FALSE]
            /\ settled' = FALSE

Announce(n) ==
    /\ Enter(n)
    /\ UNCHANGED <<settings, capacity, leader, pc, best, read, queueVars, held, reported, raced>>

\* Each election under way may yet raise the largest term by one.
Terms    == {0} \cup {x.term : x \in held}
Electing == {t \in Threads : pc[t] # "idle"}

Elect(t) ==
    /\ pc[t] = "idle"
    /\ \A m \in Terms : m + Cardinality(Electing) < budget.terms
    /\ pc' = [pc EXCEPT ![t] = "nodes"]
    /\ Enter(NodeOf[t])
    /\ UNCHANGED <<settings, capacity, leader, best, read, queueVars, held, reported, raced>>

ReadNodes(t) ==
    /\ pc[t] = "nodes"
    /\ pc' = [pc EXCEPT ![t] = "leader"]
    /\ best' = [best EXCEPT ![t] = Best]
    /\ fresh' = [fresh EXCEPT ![t] = TRUE]
    /\ UNCHANGED <<settings, capacity, registry, leader, read, queueVars,
                   held, reported, settled, raced>>

\* The request is over and its locals are gone.
Leave(S) ==
    /\ pc' = [t \in Threads |-> IF t \in S THEN "idle" ELSE pc[t]]
    /\ best' = [t \in Threads |-> IF t \in S THEN NoNode ELSE best[t]]
    /\ read' = [t \in Threads |-> IF t \in S THEN 0 ELSE read[t]]
    /\ fresh' = [t \in Threads |-> t \notin S /\ fresh[t]]
Return(t) == Leave({t})

AnyTerm(t)    == {[node |-> best[t], term |-> leader.term]} \cap Held        \* mutant
ReportOf(t)   == IF leader.node = best[t] THEN {leader} ELSE {}

\* A winner goes on to write; the others answer with the term on record if it is
\* the winner's, and with none otherwise.
ReadLeader(t) ==
    /\ pc[t] = "leader"
    /\ IF best[t] = NodeOf[t]
       THEN /\ pc' = [pc EXCEPT ![t] = "write"]
            /\ read' = [read EXCEPT ![t] = leader.term]
            /\ UNCHANGED <<best, reported, fresh>>
       ELSE /\ Return(t)
            /\ reported' = reported \cup ReportOf(t)
    /\ UNCHANGED <<settings, capacity, registry, leader, queueVars, held, settled, raced>>

SkipsTerm(t) == read[t] + 2                                                  \* mutant
SameTerm(t) == IF read[t] = 0 THEN 1 ELSE read[t]                            \* mutant
NextTerm(t) == read[t] + 1

WriteLeader(t) ==
    /\ pc[t] = "write"
    /\ Return(t)
    /\ leader' = [node |-> NodeOf[t], term |-> NextTerm(t)]
    /\ held' = held \cup {leader'}
    /\ settled' = fresh[t]
    /\ raced' = (raced \/ read[t] # leader.term)
    /\ UNCHANGED <<settings, capacity, registry, queueVars, reported>>

-----------------------------------------------------------------------------
(* The shared queue.                                                       *)

\* The list grows at its end, and so do the ids of the table.
Enqueue(i) ==
    /\ i <= budget.tasks
    /\ row[i] = "absent" /\ \A j \in Tasks : j < i => row[j] # "absent"
    /\ row' = [row EXCEPT ![i] = "queued"]
    /\ UNCHANGED <<settings, electionVars, until, now, holds, histories>>

AtExpiry(i) == row[i] = "leased" /\ until[i] <= now                          \* mutant
RanOut(i)   == row[i] = "leased" /\ until[i] < now
Leasable    == {i \in Tasks : row[i] = "queued" \/ RanOut(i)}

FirstOf(S) == CHOOSE i \in S : \A j \in S : i <= j

Hold(n, i, end) == holds' = [holds EXCEPT ![n] = @ \cup {[task |-> i, until |-> end]}]

\* In memory a leased task leaves the list; in the table its row stays.
Pop(n, i) ==
    /\ row' = [row EXCEPT ![i] = "popped"]
    /\ Hold(n, i, 0)
    /\ UNCHANGED until
Lease(n, i) ==
    /\ row' = [row EXCEPT ![i] = "leased"]
    /\ until' = [until EXCEPT ![i] = now + LeaseTime]
    /\ Hold(n, i, now + LeaseTime)

\* With nothing to lease the answer is None and nothing changes.
AdoptTask(n) ==
    /\ Leasable # {}
    /\ LET i == FirstOf(Leasable) IN
       IF backend = "memory" THEN Pop(n, i) ELSE Lease(n, i)
    /\ UNCHANGED <<settings, electionVars, now, histories>>

Tick ==
    /\ now < MaxClock
    /\ now' = now + 1
    /\ UNCHANGED <<settings, electionVars, row, until, holds, histories>>

-----------------------------------------------------------------------------
(* Crashes.                                                                *)

\* A node of a Postgres fleet is restarted, perhaps with another capacity: its
\* requests and the tasks it held are gone, the tables are not.
CrashNode(n) ==
    /\ backend = "postgres"
    /\ \E c \in Capacities : capacity' = [capacity EXCEPT ![n] = c]
    /\ Leave({t \in Threads : NodeOf[t] = n})
    /\ holds' = [holds EXCEPT ![n] = {}]
    /\ UNCHANGED <<settings, registry, leader, row, until, now, held, reported, settled, raced>>

\* The process of an in-memory fleet ends and takes everything with it; the
\* clock goes on.
CrashProcess ==
    /\ backend = "memory"
    /\ capacity' \in [Nodes -> Capacities]
    /\ registry' = [n \in Nodes |-> 0]
    /\ leader' = NoLeader
    /\ Leave(Threads)
    /\ row' = [i \in Tasks |-> "absent"]
    /\ holds' = [n \in Nodes |-> {}]
    /\ held' = {} /\ reported' = {}
    /\ settled' = FALSE /\ raced' = FALSE
    /\ UNCHANGED <<settings, until, now>>

Next ==
    \/ \E n \in Nodes : Announce(n) \/ AdoptTask(n) \/ CrashNode(n)
    \/ \E t \in Threads : Elect(t) \/ ReadNodes(t) \/ ReadLeader(t) \/ WriteLeader(t)
    \/ \E i \in Tasks : Enqueue(i)
    \/ Tick
    \/ CrashProcess

Spec == Init /\ [][Next]_vars

-----------------------------------------------------------------------------
(* Properties.                                                             *)

\* "Losers return the consensus view (winner + stable term)" (node.py 66): no
\* node is told of a term its leader never had, however many elections and
\* crashes come between the steps of one.
ReportedTermsWereHeld == reported \subseteq held

\* Terms order the leaders as long as no two elections overlap between reading
\* the record and writing it (node.py 73-76): then a term has one leader and the
\* one on record has the largest.
UnracedTermsAreUnique ==
    ~raced => /\ \A x, y \in held : x.term = y.term => x = y
              /\ \A x \in held : x.term <= leader.term

\* "Highest capacity wins, node id breaks ties" (node.py 64), once the registry
\* stands still and its winner has run an election on it: from then on the record
\* names the winner, until a request that looked earlier writes what it saw.
SettledLeaderIsBest ==
    settled => \A n \in Announced \ {leader.node} : Beats(leader.node, n)

\* A task is in one node's hands at a time while its lease runs, and for good
\* where leasing removes it (storage.py 72-76, 167-181), through crashes of the
\* holders.
Live(h) == backend = "memory" \/ h.until >= now
OneLiveHolder ==
    \A m, n \in Nodes : \A g \in holds[m], h \in holds[n] :
        (g.task = h.task /\ Live(g) /\ Live(h)) => m = n /\ g = h

=============================================================================
