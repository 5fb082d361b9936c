----------------------------- MODULE Orchestrator -----------------------------
(***************************************************************************)
(* The Meta-Orchestrator of omni/orchestrator/engine.py: a registry of     *)
(* agents and a table of tasks behind one re-entrant lock, so that every   *)
(* public method is one atomic step.  Callers on different threads         *)
(* (request handlers, the agent runner, the fleet scheduler) interleave    *)
(* those steps freely.                                                     *)
(*                                                                         *)
(* Agents and tasks are named by their position in the two insertion-      *)
(* ordered dicts: a fresh id is appended, so agent k is the k-th one       *)
(* registered.  The order matters because every tie is broken by it.       *)
(* Loads are in tenths (0..10), scores in hundredths, time in ticks.       *)
(***************************************************************************)
EXTENDS Integers, FiniteSets, FiniteSetsExt

CONSTANTS
    MaxAgentIds,      \* bound: agents ever registered
    MaxTaskIds,       \* bound: distinct task ids ever submitted
    MaxClock,         \* bound: last tick of the clock
    MaxDepth,         \* bound: no id is reused once a queue depth is this large
    Skills,           \* the skill names agents carry and tasks require
    Priorities,       \* task priorities in use, a subset of 0..10
    ReportedLoads,    \* loads a heartbeat may carry, in tenths, unclamped
    ReportedStatuses, \* statuses a heartbeat may carry; the HTTP API sends none
    Strategy,         \* "balanced" or "speed": the scoring function
    MaxAgents, SpawnThreshold, IdleTtl, KeepMinIdle,  \* constructor arguments
    ResubmitIds       \* may a client submit a task under an id already used?

AgentStatus == {"running", "idle", "waiting", "blocked", "terminated"}
TaskStatus  == {"queued", "assigned", "completed", "failed"}

ASSUME BoundsAssumption ==
    /\ MaxAgentIds \in Nat /\ MaxTaskIds \in Nat /\ MaxClock \in Nat
    /\ MaxDepth \in Nat
ASSUME InputsAssumption ==
    /\ Priorities \subseteq 0..10
    /\ ReportedLoads \subseteq Int
    /\ ReportedStatuses \subseteq AgentStatus
    /\ ResubmitIds \in BOOLEAN
ASSUME ConfigAssumption ==
    /\ Strategy \in {"balanced", "speed"}
    /\ MaxAgents \in Nat /\ SpawnThreshold \in Nat
    /\ IdleTtl \in Nat /\ KeepMinIdle \in Nat

VARIABLES
    now,          \* the wall clock
    nAgents,      \* agents 1..nAgents are registered
    status,       \* AgentSpec.status
    skills,       \* AgentSpec.skills
    load,         \* AgentSpec.load
    depth,        \* AgentSpec.queue_depth
    hb,           \* AgentSpec.last_heartbeat
    nTasks,       \* tasks 1..nTasks are in the table
    taskStatus,   \* TaskSpec.status
    needs,        \* TaskSpec.required_skills
    prio,         \* TaskSpec.priority
    assignee      \* TaskSpec.assignee, NoAgent for None

agentVars == <<nAgents, status, skills, load, depth, hb>>
taskVars  == <<nTasks, taskStatus, needs, prio, assignee>>
vars      == <<now, agentVars, taskVars>>

Agent   == 1..MaxAgentIds
Task    == 1..MaxTaskIds
NoAgent == 0

Registered == 1..nAgents
Submitted  == 1..nTasks
Live       == {a \in Registered : status[a] # "terminated"}

\* The tasks agent a is answerable for.
Holding(a) == {t \in Submitted : taskStatus[t] = "assigned" /\ assignee[t] = a}

TypeOK ==
    /\ now \in 0..MaxClock
    /\ nAgents \in 0..MaxAgentIds
    /\ status \in [Agent -> AgentStatus]
    /\ skills \in [Agent -> SUBSET Skills]
    /\ load \in [Agent -> 0..10]
    /\ depth \in [Agent -> Nat]
    /\ hb \in [Agent -> 0..MaxClock]
    /\ nTasks \in 0..MaxTaskIds
    /\ taskStatus \in [Task -> TaskStatus]
    /\ needs \in [Task -> SUBSET Skills]
    /\ prio \in [Task -> Priorities \cup {0}]
    /\ assignee \in [Task -> Agent \cup {NoAgent}]

Init ==
    /\ now = 0
    /\ nAgents = 0
    /\ status = [a \in Agent |-> "idle"]
    /\ skills = [a \in Agent |-> {}]
    /\ load = [a \in Agent |-> 0]
    /\ depth = [a \in Agent |-> 0]
    /\ hb = [a \in Agent |-> 0]
    /\ nTasks = 0
    /\ taskStatus = [t \in Task |-> "queued"]
    /\ needs = [t \in Task |-> {}]
    /\ prio = [t \in Task |-> 0]
    /\ assignee = [t \in Task |-> NoAgent]

-----------------------------------------------------------------------------
(* Scoring.                                                                *)

AtMost(x, y)  == IF x <= y THEN x ELSE y
AtLeast(x, y) == IF x >= y THEN x ELSE y

\* max(0, x - 1): how queue depths and loads (a tenth at a time) are let go.
NoFloor(x) == x - 1                                                   \* mutant
Less(x)    == AtLeast(0, x - 1)

Capable(a, t) == needs[t] \subseteq skills[a]

BalancedScoring(l, d, t) == 100 - 10 * l - 5 * AtMost(d, 5) + AtMost(prio[t], 10)
SpeedScoring(d)          == 100 - 10 * AtMost(d, 10)

SkillBlindScore(a, t, l, d) ==                                        \* mutant
    IF Strategy = "balanced" THEN BalancedScoring(l, d, t) ELSE SpeedScoring(d)

\* The score of agent a for task t when its load is l and its queue depth d;
\* negative for an agent that cannot or should not take the task.
Score(a, t, l, d) ==
    IF ~Capable(a, t) THEN -100
    ELSE IF Strategy = "balanced" THEN BalancedScoring(l, d, t) ELSE SpeedScoring(d)

-----------------------------------------------------------------------------
(* Registry.                                                               *)

\* The agent dict gains one entry: AgentSpec's defaults and the given skills.
AddAgent(sk) ==
    LET a == nAgents + 1 IN
    /\ nAgents < MaxAgentIds
    /\ nAgents' = a
    /\ status' = [status EXCEPT ![a] = "idle"]
    /\ skills' = [skills EXCEPT ![a] = sk]
    /\ load' = [load EXCEPT ![a] = 0]
    /\ depth' = [depth EXCEPT ![a] = 0]
    /\ hb' = [hb EXCEPT ![a] = now]

RegisterAgent(sk) == AddAgent(sk) /\ UNCHANGED <<now, taskVars>>

\* l and s are the optional arguments: a set with the value, or {} for None.
Heartbeat(a, l, s) ==
    /\ a \in Registered
    /\ load' = [load EXCEPT ![a] =
                    IF l = {} THEN @ ELSE AtLeast(0, AtMost(10, CHOOSE x \in l : TRUE))]
    /\ status' = [status EXCEPT ![a] = IF s = {} THEN @ ELSE CHOOSE x \in s : TRUE]
    /\ hb' = [hb EXCEPT ![a] = now]
    /\ UNCHANGED <<now, nAgents, skills, depth, taskVars>>

-----------------------------------------------------------------------------
(* Intake and completion.                                                  *)

\* submit() stores whatever it is given: a new id goes to the end of the dict,
\* an id already there is replaced in place and whoever held it is not told.
Submit(t, req, p) ==
    /\ \/ t = nTasks + 1
       \/ ResubmitIds /\ t \in Submitted /\ \A a \in Registered : depth[a] < MaxDepth
    /\ t \in Task
    /\ nTasks' = AtLeast(nTasks, t)
    /\ taskStatus' = [taskStatus EXCEPT ![t] = "queued"]
    /\ needs' = [needs EXCEPT ![t] = req]
    /\ prio' = [prio EXCEPT ![t] = p]
    /\ assignee' = [assignee EXCEPT ![t] = NoAgent]
    /\ UNCHANGED <<now, agentVars>>

ScoreNow(a, t) == Score(a, t, load[a], depth[a])
Eligible(t)    == {a \in Live : ScoreNow(a, t) >= 0}

\* The loop keeps the first agent with the strictly greatest score.
IsBest(a, t) ==
    /\ a \in Eligible(t)
    /\ \A b \in Eligible(t) : \/ ScoreNow(a, t) > ScoreNow(b, t)
                              \/ ScoreNow(a, t) = ScoreNow(b, t) /\ a <= b

AssignableAgain(t) == t \in Submitted /\ taskStatus[t] # "assigned"    \* mutant
Assignable(t)      == t \in Submitted /\ taskStatus[t] = "queued"

MarkRunning(a) == status' = [status EXCEPT ![a] = "running"]

\* Only the branch that changes something: a task that is not queued returns
\* its assignee, one that nobody can take returns None, both as a stutter.
Assign(t) ==
    /\ Assignable(t)
    /\ \E a \in Agent :
        /\ IsBest(a, t)
        /\ taskStatus' = [taskStatus EXCEPT ![t] = "assigned"]
        /\ assignee' = [assignee EXCEPT ![t] = a]
        /\ depth' = [depth EXCEPT ![a] = @ + 1]
        /\ MarkRunning(a)
    /\ UNCHANGED <<now, nAgents, skills, load, hb, nTasks, needs, prio>>

\* complete() and fail(): no guard on the task's status, so a late or repeated
\* call closes it again and charges its assignee again.
Close(t, outcome) ==
    /\ t \in Submitted
    /\ taskStatus' = [taskStatus EXCEPT ![t] = outcome]
    /\ IF assignee[t] \in Registered
       THEN /\ depth' = [depth EXCEPT ![assignee[t]] = Less(@)]
            /\ load' = [load EXCEPT ![assignee[t]] = Less(@)]
       ELSE UNCHANGED <<depth, load>>
    /\ UNCHANGED <<now, nAgents, status, skills, hb, nTasks, needs, prio, assignee>>

Complete(t) == Close(t, "completed")
Fail(t)     == Close(t, "failed")

-----------------------------------------------------------------------------
(* Pool management.                                                        *)

SpawnNeeded ==
    /\ Cardinality(Live) < MaxAgents
    /\ Live # {} => 10 * MapThenSumSet(LAMBDA a : load[a], Live)
                        >= SpawnThreshold * Cardinality(Live)

SpawnIfNeeded == SpawnNeeded /\ AddAgent({}) /\ UNCHANGED <<now, taskVars>>

IdleExpired == {a \in Registered : status[a] = "idle" /\ now - hb[a] > IdleTtl}

\* Position in the list sorted by last heartbeat (a stable sort, oldest first).
LongerSilent(a, b) == hb[a] < hb[b] \/ (hb[a] = hb[b] /\ a < b)

ReapedOneTooMany ==                                                   \* mutant
    {a \in IdleExpired :
        Cardinality({b \in IdleExpired : LongerSilent(b, a)}) + 1 >= KeepMinIdle}

Reaped ==
    {a \in IdleExpired :
        Cardinality({b \in IdleExpired : LongerSilent(b, a)}) >= KeepMinIdle}

TerminateIdle ==
    /\ Reaped # {}
    /\ status' = [a \in Agent |-> IF a \in Reaped THEN "terminated" ELSE status[a]]
    /\ UNCHANGED <<now, nAgents, skills, load, depth, hb, taskVars>>

HighLoad == 8
LowLoad  == 2

\* The two lists balance() draws up once, before it moves anything.
Overloaded  == {a \in Live : load[a] >= HighLoad /\ depth[a] > 0}
UnderloadedAnyStatus == {a \in Registered : load[a] <= LowLoad}        \* mutant
UnderloadedAnyLoad   == Live                                          \* mutant
Underloaded == {a \in Live : load[a] <= LowLoad}

\* The loops visit (source, task) pairs in the order of both dicts, and a pair
\* they have passed is not visited again.
Before(p, q) == p[1] < q[1] \/ (p[1] = q[1] /\ p[2] < q[2])

BalanceStart ==
    [load |-> load, depth |-> depth, assignee |-> assignee, pos |-> <<0, 0>>]

IsLightest(d, r) ==
    \A u \in Underloaded : \/ r.load[d] < r.load[u]
                           \/ r.load[d] = r.load[u] /\ d <= u

\* The pairs still ahead for which the lightest destination will do.
Movable(r) ==
    {m \in Overloaded \X Submitted \X Underloaded :
        /\ taskStatus[m[2]] = "assigned"
        /\ r.assignee[m[2]] = m[1]
        /\ Before(r.pos, m)
        /\ IsLightest(m[3], r)
        /\ Score(m[3], m[2], r.load[m[3]], r.depth[m[3]]) >= 0}

MovedDepthKept(r, m) ==                                               \* mutant
    [load     |-> [r.load EXCEPT ![m[1]] = Less(@), ![m[3]] = AtMost(10, @ + 1)],
     depth    |-> [r.depth EXCEPT ![m[3]] = @ + 1],
     assignee |-> [r.assignee EXCEPT ![m[2]] = m[3]],
     pos      |-> <<m[1], m[2]>>]

Moved(r, m) ==
    [load     |-> [r.load EXCEPT ![m[1]] = Less(@), ![m[3]] = AtMost(10, @ + 1)],
     depth    |-> [r.depth EXCEPT ![m[1]] = Less(@), ![m[3]] = @ + 1],
     assignee |-> [r.assignee EXCEPT ![m[2]] = m[3]],
     pos      |-> <<m[1], m[2]>>]

\* The one outcome of the next move, as a singleton.
MoveOne(r) ==
    IF Movable(r) = {} THEN {r}
    ELSE {Moved(r, m) : m \in {x \in Movable(r) : \A y \in Movable(r) : ~Before(y, x)}}

\* At most three moves a call.  A destination keeps the status it had.
Balance ==
    /\ \E r1 \in MoveOne(BalanceStart) : \E r2 \in MoveOne(r1) : \E r3 \in MoveOne(r2) :
        /\ load' = r3.load
        /\ depth' = r3.depth
        /\ assignee' = r3.assignee
    /\ UNCHANGED <<now, nAgents, status, skills, hb, nTasks, taskStatus, needs, prio>>

\* The clock moves between calls.
Tick == now < MaxClock /\ now' = now + 1 /\ UNCHANGED <<agentVars, taskVars>>

Optional(S) == {{}} \cup {{x} : x \in S}

Next ==
    \/ \E sk \in SUBSET Skills : RegisterAgent(sk)
    \/ \E a \in Agent, l \in Optional(ReportedLoads), s \in Optional(ReportedStatuses) :
          Heartbeat(a, l, s)
    \/ \E t \in Task, req \in SUBSET Skills, p \in Priorities : Submit(t, req, p)
    \/ \E t \in Task : Assign(t) \/ Complete(t) \/ Fail(t)
    \/ SpawnIfNeeded
    \/ TerminateIdle
    \/ Balance
    \/ Tick

Spec == Init /\ [][Next]_vars

-----------------------------------------------------------------------------
(* Properties.                                                             *)

\* An assigned task is on a registered agent that has every skill it needs,
\* whether assign() put it there or balance() moved it (engine.py 162-178,
\* 299-303); a queued task is on nobody.
AssignmentSound ==
    \A t \in Submitted :
        /\ taskStatus[t] = "queued" => assignee[t] = NoAgent
        /\ taskStatus[t] = "assigned" =>
              assignee[t] \in Registered /\ Capable(assignee[t], t)

\* queue_depth never counts work that is not there: an agent's depth is at most
\* the number of tasks assigned to it, however often a task is closed and
\* however balance() and complete() interleave (177, 190, 208, 305-307).  It may
\* be less: a task closed twice is subtracted twice.
DepthWithinWork == \A a \in Registered : depth[a] <= Cardinality(Holding(a))

\* A closed task never goes back to queued or assigned (160, 184, 202, 299): a
\* client that saw an answer never sees the task open again.
ClosedStaysClosed ==
    [][\A t \in Submitted : taskStatus[t] \in {"completed", "failed"} =>
           taskStatus'[t] \in {"completed", "failed"}]_vars

\* An agent that is terminated is given nothing more, by assign() or by a
\* balance() that had it as an empty, unloaded destination (164, 288).
NoWorkToTerminated ==
    [][\A a \in Registered : status[a] = "terminated" => Holding(a)' \subseteq Holding(a)]_vars

\* Tasks that stay assigned across a step but change hands.
Handed == {t \in Submitted : /\ taskStatus[t] = "assigned" /\ taskStatus'[t] = "assigned"
                             /\ assignee'[t] # assignee[t]}

\* Work changes hands only from an agent over the high mark to one under the
\* low mark, and never so much at once that the taker ends over the high mark or
\* the giver under the low one: the next balance() cannot send it back
\* (279-312).
BalanceOnlyRelieves ==
    [][\A t \in Handed :
           /\ load[assignee[t]] >= HighLoad /\ load'[assignee[t]] > LowLoad
           /\ load[assignee'[t]] <= LowLoad /\ load'[assignee'[t]] < HighLoad]_vars

Idle == {a \in Registered : status[a] = "idle"}
Lost == {a \in Idle : status'[a] = "terminated"}

\* terminate_idle() never empties the pool below the warm minimum: whenever a
\* step terminates agents, KeepMinIdle idle ones are left, and nobody who was
\* terminated had been silent longer than an expired one who was kept (268-276).
WarmPool ==
    [][Lost # {} =>
          /\ Cardinality(Idle \ Lost) >= KeepMinIdle
          /\ \A a \in Lost, b \in IdleExpired \ Lost : hb[b] <= hb[a]]_vars

\* What the tasks and agents look like to those who submit and work.
ClosedTasks == {t \in Submitted : taskStatus[t] \in {"completed", "failed"}}
HolderOf == [t \in Task |-> IF t \in Submitted /\ taskStatus[t] = "assigned" THEN assignee[t]
                                                                         ELSE NoAgent]

\* What balance() may pass on in one call (297-298).
UpToThree == {ts \in SUBSET Task : Cardinality(ts) <= 3}

Board == INSTANCE TaskBoard WITH
    Tasks <- Task, Workers <- Agent, Abilities <- Skills, Nobody <- NoAgent, Handfuls <- UpToThree,
    joined <- Registered, present <- Live, able <- skills,
    posted <- Submitted, holder <- HolderOf, closed <- ClosedTasks

\* Every step, of whichever of the ten operations, is one step of the board or none: an
\* open task is given to an agent that is able and not terminated, balance() passes at
\* most three on and only to such agents, and a closed one is never open again
\* (145-211, 258-312).
ImplementsBoard == Board!BoardSpec

\* "Terminate agents idle beyond TTL" (259): an agent terminated for idleness
\* has no work, so no assigned task is ever on a terminated agent.  Not so when
\* balance() has given an idle agent work (303-308).
NoStrandedWork ==
    \A t \in Submitted : taskStatus[t] = "assigned" => assignee[t] \in Live

=============================================================================
