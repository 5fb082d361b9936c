-------------------------- MODULE OrchestratorProofs --------------------------
(***************************************************************************)
(* What holds of the Meta-Orchestrator for every pool size, every set of   *)
(* skills, loads and priorities and every setting of its constructor, and  *)
(* of any number of agent runs on top of it.                               *)
(***************************************************************************)
EXTENDS AgentRunner, FiniteOrders

\* A queue depth that is let go by one is still a natural number.
LEMMA LessType ==
    ASSUME NEW x \in Nat PROVE Less(x) \in Nat /\ Less(x) <= x
BY DEF Less, AtLeast

\* A load that is let go by a tenth is still a load.
LEMMA LessLoad ==
    ASSUME NEW x \in 0..10 PROVE Less(x) \in 0..10
BY DEF Less, AtLeast

\* Registered agents and submitted tasks are within the id bounds.
LEMMA Ranges == TypeOK => Registered \subseteq Agent /\ Submitted \subseteq Task
BY BoundsAssumption DEF TypeOK, Registered, Submitted, Agent, Task

\* The scratch record balance() works on.
MoveState == [load : [Agent -> 0..10], depth : [Agent -> Nat],
              assignee : [Task -> Agent \cup {NoAgent}], pos : Int \X Int]

\* balance() starts its scratch record from the typed state.
LEMMA StartType == TypeOK => BalanceStart \in MoveState
BY DEF TypeOK, BalanceStart, MoveState

\* One move keeps the types of the scratch record.
LEMMA MoveType ==
    ASSUME TypeOK, NEW r \in MoveState, NEW s \in MoveOne(r)
    PROVE  s \in MoveState
<1>1. CASE Movable(r) = {}
  BY <1>1 DEF MoveOne
<1>2. CASE Movable(r) # {}
  <2>1. PICK m \in Movable(r) : s = Moved(r, m)
    BY <1>2 DEF MoveOne
  <2>2. m[1] \in Agent /\ m[2] \in Task /\ m[3] \in Agent
    <3>1. m \in Overloaded \X Submitted \X Underloaded
      BY DEF Movable
    <3>2. m[1] \in Registered /\ m[2] \in Submitted /\ m[3] \in Registered
      BY <3>1 DEF Overloaded, Underloaded, Live
    <3>. QED
      BY <3>2, Ranges
  <2>3. m[1] \in Int /\ m[2] \in Int
    BY <2>2, BoundsAssumption DEF Agent, Task
  <2>4. [r.load EXCEPT ![m[1]] = Less(@), ![m[3]] = AtMost(10, @ + 1)] \in [Agent -> 0..10]
    BY <2>2, LessLoad DEF MoveState, AtMost
  <2>5. [r.depth EXCEPT ![m[1]] = Less(@), ![m[3]] = @ + 1] \in [Agent -> Nat]
    BY <2>2, LessType DEF MoveState
  <2>6. [r.assignee EXCEPT ![m[2]] = m[3]] \in [Task -> Agent \cup {NoAgent}]
    BY <2>2 DEF MoveState
  <2>. QED
    BY <2>1, <2>3, <2>4, <2>5, <2>6 DEF Moved, MoveState
<1>. QED
  BY <1>1, <1>2

-----------------------------------------------------------------------------
(* Type correctness.                                                       *)

\* The empty orchestrator is well typed.
LEMMA InitType == Init => TypeOK
BY BoundsAssumption DEF Init, TypeOK, AgentStatus, TaskStatus, NoAgent

\* An agent more keeps them.
LEMMA AddAgentType ==
    ASSUME TypeOK, NEW sk \in SUBSET Skills, AddAgent(sk), UNCHANGED <<now, taskVars>>
    PROVE  TypeOK'
<1>. USE BoundsAssumption
<1>1. nAgents' \in 0..MaxAgentIds
  BY DEF TypeOK, AddAgent
<1>2. status' \in [Agent -> AgentStatus] /\ skills' \in [Agent -> SUBSET Skills]
  BY DEF TypeOK, AddAgent, AgentStatus
<1>3. /\ load \in [Agent -> 0..10] /\ depth \in [Agent -> Nat]
      /\ hb \in [Agent -> 0..MaxClock] /\ now \in 0..MaxClock
  BY DEF TypeOK
<1>4. 0 \in 0..10 /\ 0 \in Nat
  OBVIOUS
<1>5. /\ load' \in [Agent -> 0..10] /\ depth' \in [Agent -> Nat]
      /\ hb' \in [Agent -> 0..MaxClock]
  BY <1>3, <1>4, Zenon DEF AddAgent
<1>. QED
  BY <1>1, <1>2, <1>5 DEF TypeOK, taskVars

\* Every operation, and the clock, keeps the types.
LEMMA NextType == TypeOK /\ [Next]_vars => TypeOK'
<1>. SUFFICES ASSUME TypeOK, [Next]_vars PROVE TypeOK'
  OBVIOUS
<1>. USE BoundsAssumption, InputsAssumption
<1>1. ASSUME NEW sk \in SUBSET Skills, RegisterAgent(sk) PROVE TypeOK'
  BY <1>1, AddAgentType DEF RegisterAgent
<1>2. ASSUME NEW a \in Agent, NEW l \in Optional(ReportedLoads),
             NEW s \in Optional(ReportedStatuses), Heartbeat(a, l, s)
      PROVE  TypeOK'
  <2>1. l # {} => (CHOOSE x \in l : TRUE) \in Int
    BY DEF Optional
  <2>2. s # {} => (CHOOSE x \in s : TRUE) \in AgentStatus
    BY DEF Optional
  <2>3. load' \in [Agent -> 0..10]
    BY <1>2, <2>1 DEF TypeOK, Heartbeat, AtLeast, AtMost
  <2>4. status' \in [Agent -> AgentStatus]
    BY <1>2, <2>2 DEF TypeOK, Heartbeat
  <2>. QED
    BY <1>2, <2>3, <2>4 DEF TypeOK, Heartbeat, taskVars
<1>3. ASSUME NEW t \in Task, NEW req \in SUBSET Skills, NEW p \in Priorities,
             Submit(t, req, p)
      PROVE  TypeOK'
  BY <1>3 DEF TypeOK, Submit, agentVars, Task, TaskStatus, AtLeast, Submitted
<1>4. ASSUME NEW t \in Task, Assign(t) PROVE TypeOK'
  BY <1>4 DEF TypeOK, Assign, Assignable, MarkRunning, AgentStatus, TaskStatus
<1>5. ASSUME NEW t \in Task, NEW o \in {"completed", "failed"}, Close(t, o) PROVE TypeOK'
  <2>1. ASSUME assignee[t] \in Registered
        PROVE  depth' \in [Agent -> Nat] /\ load' \in [Agent -> 0..10]
    <3>1. assignee[t] \in Agent
      BY <2>1, Ranges
    <3>2. depth' = [depth EXCEPT ![assignee[t]] = Less(@)]
      BY <1>5, <2>1 DEF Close
    <3>3. load' = [load EXCEPT ![assignee[t]] = Less(@)]
      BY <1>5, <2>1 DEF Close
    <3>4. depth' \in [Agent -> Nat]
      BY <3>1, <3>2, LessType DEF TypeOK
    <3>5. load' \in [Agent -> 0..10]
      BY <3>1, <3>3, LessLoad DEF TypeOK
    <3>. QED
      BY <3>4, <3>5
  <2>2. ASSUME assignee[t] \notin Registered
        PROVE  depth' \in [Agent -> Nat] /\ load' \in [Agent -> 0..10]
    BY <1>5, <2>2 DEF Close, TypeOK
  <2>3. depth' \in [Agent -> Nat] /\ load' \in [Agent -> 0..10]
    BY <2>1, <2>2
  <2>. QED
    BY <1>5, <2>3 DEF TypeOK, Close, TaskStatus
<1>6. ASSUME SpawnIfNeeded PROVE TypeOK'
  BY <1>6, AddAgentType DEF SpawnIfNeeded
<1>7. ASSUME TerminateIdle PROVE TypeOK'
  BY <1>7 DEF TypeOK, TerminateIdle, taskVars, AgentStatus
<1>8. ASSUME Balance PROVE TypeOK'
  <2>1. PICK r1 \in MoveOne(BalanceStart) : \E r2 \in MoveOne(r1) : \E r3 \in MoveOne(r2) :
            load' = r3.load /\ depth' = r3.depth /\ assignee' = r3.assignee
    BY <1>8 DEF Balance
  <2>2. PICK r2 \in MoveOne(r1) : \E r3 \in MoveOne(r2) :
            load' = r3.load /\ depth' = r3.depth /\ assignee' = r3.assignee
    BY <2>1
  <2>3. PICK r3 \in MoveOne(r2) :
            load' = r3.load /\ depth' = r3.depth /\ assignee' = r3.assignee
    BY <2>2
  <2>4. r3 \in MoveState
    BY StartType, MoveType
  <2>. QED
    BY <1>8, <2>3, <2>4 DEF Balance, TypeOK, MoveState
<1>9. ASSUME Tick PROVE TypeOK'
  BY <1>9 DEF TypeOK, Tick, agentVars, taskVars
<1>10. ASSUME UNCHANGED vars PROVE TypeOK'
  BY <1>10 DEF TypeOK, vars, agentVars, taskVars
<1>. QED
  BY <1>1, <1>2, <1>3, <1>4, <1>5, <1>6, <1>7, <1>8, <1>9, <1>10
     DEF Next, Complete, Fail

\* Every reachable state is well typed: in particular loads stay between 0 and
\* 1 and queue depths never go negative, however often a task is closed.
THEOREM TypeCorrect == Spec => []TypeOK
BY InitType, NextType, PTL DEF Spec

-----------------------------------------------------------------------------
(* Work is only ever on agents that can do it.                             *)

\* A score that is not negative is only given to a capable agent (36, 190-192).
LEMMA ScoreImpliesCapable ==
    ASSUME NEW a, NEW t, NEW l, NEW d, Score(a, t, l, d) >= 0
    PROVE  Capable(a, t)
BY DEF Score

\* What one move does: task m[2], assigned to m[1], goes to m[3], which is
\* another registered agent and capable of it; or nothing happens.
LEMMA MoveStep ==
    ASSUME TypeOK, NEW r \in MoveState, NEW s \in MoveOne(r)
    PROVE  \/ s = r
           \/ \E m \in Registered \X Submitted \X Registered :
                 /\ s = Moved(r, m)
                 /\ m[1] # m[3]
                 /\ taskStatus[m[2]] = "assigned" /\ r.assignee[m[2]] = m[1]
                 /\ m[3] \in Live
                 /\ Capable(m[3], m[2])
<1>1. CASE Movable(r) = {}
  BY <1>1 DEF MoveOne
<1>2. CASE Movable(r) # {}
  <2>1. PICK m \in Movable(r) : s = Moved(r, m)
    BY <1>2 DEF MoveOne
  <2>2. m \in Overloaded \X Submitted \X Underloaded
    BY DEF Movable
  <2>3. m \in Registered \X Submitted \X Registered /\ m[3] \in Live
    BY <2>2 DEF Overloaded, Underloaded, Live
  <2>4. m[1] # m[3]
    <3>1. load[m[1]] >= 8 /\ load[m[3]] <= 2
      BY <2>2 DEF Overloaded, Underloaded, HighLoad, LowLoad
    <3>2. load[m[1]] \in Int /\ load[m[3]] \in Int
      BY <2>3, Ranges DEF TypeOK
    <3>. QED
      BY <3>1, <3>2
  <2>5. taskStatus[m[2]] = "assigned" /\ r.assignee[m[2]] = m[1]
    BY DEF Movable
  <2>6. Capable(m[3], m[2])
    BY ScoreImpliesCapable DEF Movable
  <2>. QED
    BY <2>1, <2>3, <2>4, <2>5, <2>6
<1>. QED
  BY <1>1, <1>2

\* The scratch assignees differ from the real ones only by sound moves.
SoundMoves(r) ==
    \A t \in Task :
        \/ r.assignee[t] = assignee[t]
        \/ /\ taskStatus[t] = "assigned"
           /\ r.assignee[t] \in Live /\ Capable(r.assignee[t], t)

\* One move leaves every assigned task on a live, capable agent or where it was.
LEMMA MoveKeepsSound ==
    ASSUME TypeOK, NEW r \in MoveState, NEW s \in MoveOne(r), SoundMoves(r)
    PROVE  SoundMoves(s)
<1>1. CASE s = r
  BY <1>1
<1>2. ASSUME NEW m \in Registered \X Submitted \X Registered, s = Moved(r, m),
             taskStatus[m[2]] = "assigned", m[3] \in Live, Capable(m[3], m[2])
      PROVE  SoundMoves(s)
  <2>1. s.assignee = [r.assignee EXCEPT ![m[2]] = m[3]]
    BY <1>2 DEF Moved
  <2>. SUFFICES ASSUME NEW t \in Task, s.assignee[t] # assignee[t]
                PROVE  /\ taskStatus[t] = "assigned"
                       /\ s.assignee[t] \in Live /\ Capable(s.assignee[t], t)
    BY DEF SoundMoves
  <2>2. CASE t = m[2]
    BY <1>2, <2>1, <2>2 DEF MoveState
  <2>3. CASE t # m[2]
    BY <2>1, <2>3 DEF MoveState, SoundMoves
  <2>. QED
    BY <2>2, <2>3
<1>. QED
  BY <1>1, <1>2, MoveStep

\* What a whole balance() leaves behind.
LEMMA BalanceSound ==
    ASSUME TypeOK, Balance
    PROVE  \A t \in Task :
              \/ assignee'[t] = assignee[t]
              \/ /\ taskStatus[t] = "assigned"
                 /\ assignee'[t] \in Live /\ Capable(assignee'[t], t)
<1>1. PICK r1 \in MoveOne(BalanceStart) : \E r2 \in MoveOne(r1) : \E r3 \in MoveOne(r2) :
          assignee' = r3.assignee
  BY DEF Balance
<1>2. PICK r2 \in MoveOne(r1) : \E r3 \in MoveOne(r2) : assignee' = r3.assignee
  BY <1>1
<1>3. PICK r3 \in MoveOne(r2) : assignee' = r3.assignee
  BY <1>2
<1>4. SoundMoves(BalanceStart)
  BY DEF SoundMoves, BalanceStart
<1>5. BalanceStart \in MoveState /\ r1 \in MoveState /\ r2 \in MoveState
  BY StartType, MoveType
<1>6. SoundMoves(r3)
  BY <1>4, <1>5, MoveKeepsSound
<1>. QED
  BY <1>3, <1>6 DEF SoundMoves

\* Nothing is submitted at first.
LEMMA InitAssignment == Init => AssignmentSound
BY DEF Init, AssignmentSound, Submitted

\* Every operation keeps assignments sound.
LEMMA NextAssignment == TypeOK /\ AssignmentSound /\ [Next]_vars => AssignmentSound'
<1>. SUFFICES ASSUME TypeOK, AssignmentSound, [Next]_vars PROVE AssignmentSound'
  OBVIOUS
<1>. USE BoundsAssumption
<1>1. ASSUME NEW sk \in SUBSET Skills, AddAgent(sk), UNCHANGED taskVars
      PROVE  AssignmentSound'
  <2>1. Registered \subseteq Registered'
    BY <1>1 DEF AddAgent, Registered, TypeOK
  <2>2. \A a \in Registered : skills'[a] = skills[a]
    BY <1>1, Ranges DEF AddAgent, Registered, TypeOK
  <2>. QED
    BY <1>1, <2>1, <2>2 DEF AssignmentSound, taskVars, Capable, Submitted
<1>2. ASSUME NEW t \in Task, NEW req \in SUBSET Skills, NEW p \in Priorities,
             Submit(t, req, p)
      PROVE  AssignmentSound'
  <2>. SUFFICES ASSUME NEW u \in Submitted'
                PROVE  /\ taskStatus'[u] = "queued" => assignee'[u] = NoAgent
                       /\ taskStatus'[u] = "assigned" =>
                             assignee'[u] \in Registered' /\ Capable(assignee[u], u)'
    BY DEF AssignmentSound
  <2>1. CASE u = t
    BY <1>2, <2>1 DEF Submit, TypeOK
  <2>2. CASE u # t
    <3>1. u \in Submitted
      BY <1>2, <2>2 DEF Submit, Submitted, AtLeast, TypeOK
    <3>2. u \in Task
      BY <3>1, Ranges
    <3>. QED
      BY <1>2, <2>2, <3>1, <3>2
         DEF Submit, agentVars, AssignmentSound, TypeOK, Registered, Capable
  <2>. QED
    BY <2>1, <2>2
<1>3. ASSUME NEW t \in Task, Assign(t) PROVE AssignmentSound'
  <2>1. PICK a \in Agent : IsBest(a, t) /\ assignee' = [assignee EXCEPT ![t] = a]
                           /\ taskStatus' = [taskStatus EXCEPT ![t] = "assigned"]
    BY <1>3 DEF Assign
  <2>2. a \in Registered /\ Capable(a, t)
    BY <2>1, ScoreImpliesCapable DEF IsBest, Eligible, Live, ScoreNow
  <2>3. UNCHANGED <<nAgents, nTasks, skills, needs>>
    BY <1>3 DEF Assign
  <2>. QED
    BY <2>1, <2>2, <2>3, Ranges DEF AssignmentSound, TypeOK, Registered, Submitted, Capable
<1>4. ASSUME NEW t \in Task, NEW o \in {"completed", "failed"}, Close(t, o)
      PROVE  AssignmentSound'
  BY <1>4, Ranges DEF AssignmentSound, Close, TypeOK, Registered, Submitted, Capable
<1>5. ASSUME Balance PROVE AssignmentSound'
  <2>1. UNCHANGED <<nAgents, nTasks, skills, needs, taskStatus>>
    BY <1>5 DEF Balance
  <2>. QED
    BY <1>5, <2>1, BalanceSound, Ranges
       DEF AssignmentSound, Registered, Submitted, Capable, Live
<1>6. ASSUME UNCHANGED <<nAgents, skills, taskVars>> PROVE AssignmentSound'
  BY <1>6 DEF AssignmentSound, taskVars, Registered, Submitted, Capable
<1>7. ASSUME NEW a \in Agent, NEW l, NEW s, Heartbeat(a, l, s) PROVE AssignmentSound'
  BY <1>6, <1>7 DEF Heartbeat
<1>8. CASE TerminateIdle \/ Tick \/ UNCHANGED vars
  BY <1>6, <1>8 DEF TerminateIdle, Tick, vars, agentVars
<1>. QED
  BY <1>1, <1>2, <1>3, <1>4, <1>5, <1>7, <1>8
     DEF Next, Complete, Fail, RegisterAgent, SpawnIfNeeded

\* In every reachable state an assigned task is on a registered agent with all
\* the skills it needs, even when clients reuse task ids (engine.py 154-179,
\* 279-312).
THEOREM AssignmentsAreSound == Spec => []AssignmentSound
BY InitType, NextType, InitAssignment, NextAssignment, PTL DEF Spec

-----------------------------------------------------------------------------
(* What a step may never do.                                               *)

\* A terminated agent is not given work: assign() skips it and balance()
\* leaves it out of its destinations (engine.py 164, 288).
LEMMA NextSparesTerminated ==
    ASSUME TypeOK, [Next]_vars, NEW a \in Registered, status[a] = "terminated"
    PROVE  Holding(a)' \subseteq Holding(a)
<1>. USE BoundsAssumption
<1>1. a \notin Live /\ a \in Agent /\ a # NoAgent
  BY Ranges DEF Live, Agent, NoAgent
<1>2. ASSUME UNCHANGED taskVars PROVE Holding(a)' \subseteq Holding(a)
  BY <1>2 DEF Holding, taskVars, Submitted
<1>3. ASSUME NEW t \in Task, NEW req \in SUBSET Skills, NEW p \in Priorities,
             Submit(t, req, p)
      PROVE  Holding(a)' \subseteq Holding(a)
  <2>. SUFFICES ASSUME NEW u \in Holding(a)' PROVE u \in Holding(a)
    OBVIOUS
  <2>1. u \in Submitted' /\ taskStatus'[u] = "assigned" /\ assignee'[u] = a
    BY DEF Holding
  <2>2. u # t
    BY <1>3, <2>1 DEF Submit, TypeOK
  <2>3. u \in Submitted
    BY <1>3, <2>1, <2>2 DEF Submit, Submitted, AtLeast, TypeOK
  <2>. QED
    BY <1>3, <2>1, <2>2, <2>3, Ranges DEF Submit, Holding, TypeOK
<1>4. ASSUME NEW t \in Task, Assign(t) PROVE Holding(a)' \subseteq Holding(a)
  <2>1. PICK b \in Agent : IsBest(b, t) /\ assignee' = [assignee EXCEPT ![t] = b]
                           /\ taskStatus' = [taskStatus EXCEPT ![t] = "assigned"]
    BY <1>4 DEF Assign
  <2>2. b # a
    BY <1>1, <2>1 DEF IsBest, Eligible
  <2>3. Submitted' = Submitted
    BY <1>4 DEF Assign, Submitted
  <2>. QED
    BY <2>1, <2>2, <2>3, Ranges DEF Holding, TypeOK
<1>5. ASSUME NEW t \in Task, NEW o \in {"completed", "failed"}, Close(t, o)
      PROVE  Holding(a)' \subseteq Holding(a)
  BY <1>5, Ranges DEF Close, Holding, Submitted, TypeOK
<1>6. ASSUME Balance PROVE Holding(a)' \subseteq Holding(a)
  BY <1>1, <1>6, BalanceSound, Ranges DEF Balance, Holding, Submitted
<1>7. ASSUME NEW b \in Agent, NEW l, NEW s, Heartbeat(b, l, s)
      PROVE  Holding(a)' \subseteq Holding(a)
  BY <1>2, <1>7 DEF Heartbeat
<1>8. CASE TerminateIdle \/ Tick \/ SpawnIfNeeded \/ UNCHANGED vars
  BY <1>2, <1>8 DEF TerminateIdle, Tick, SpawnIfNeeded, vars
<1>. QED
  BY <1>2, <1>3, <1>4, <1>5, <1>6, <1>7, <1>8
     DEF Next, Complete, Fail, RegisterAgent

\* A terminated agent is given no further work in any step of any behaviour
\* (engine.py 164, 288).
THEOREM TerminatedGetNoWork == Spec => NoWorkToTerminated
<1>1. TypeOK /\ [Next]_vars =>
        [\A a \in Registered : status[a] = "terminated" => Holding(a)' \subseteq Holding(a)]_vars
  BY NextSparesTerminated
<1>. QED
  BY <1>1, TypeCorrect, PTL DEF Spec, NoWorkToTerminated

\* A closed task is never reopened, as long as clients do not reuse ids
\* (engine.py 145-152, 160, 184, 202, 299).
LEMMA NextKeepsClosed ==
    ASSUME TypeOK, [Next]_vars, ~ResubmitIds, NEW t \in Submitted,
           taskStatus[t] \in {"completed", "failed"}
    PROVE  taskStatus'[t] \in {"completed", "failed"}
<1>1. ASSUME NEW u \in Task, NEW req, NEW p, Submit(u, req, p)
      PROVE  taskStatus'[t] \in {"completed", "failed"}
  BY <1>1, Ranges DEF Submit, Submitted, TypeOK
<1>2. ASSUME NEW u \in Task, Assign(u) PROVE taskStatus'[t] \in {"completed", "failed"}
  BY <1>2, Ranges DEF Assign, Assignable, TypeOK
<1>3. ASSUME NEW u \in Task, NEW o \in {"completed", "failed"}, Close(u, o)
      PROVE  taskStatus'[t] \in {"completed", "failed"}
  BY <1>3, Ranges DEF Close, TypeOK
<1>4. ASSUME UNCHANGED taskStatus PROVE taskStatus'[t] \in {"completed", "failed"}
  BY <1>4
<1>5. ASSUME NEW b, NEW l, NEW s, Heartbeat(b, l, s) PROVE UNCHANGED taskStatus
  BY <1>5 DEF Heartbeat, taskVars
<1>6. CASE TerminateIdle \/ Tick \/ SpawnIfNeeded \/ Balance \/ UNCHANGED vars
  BY <1>4, <1>6 DEF TerminateIdle, Tick, SpawnIfNeeded, Balance, vars, taskVars
<1>. QED
  BY <1>1, <1>2, <1>3, <1>4, <1>5, <1>6
     DEF Next, Complete, Fail, RegisterAgent, taskVars

\* A task that was completed or failed is never open again, in any behaviour in
\* which ids are not reused (engine.py 160, 184, 202, 299).
THEOREM ClosedTasksStayClosed == ~ResubmitIds => (Spec => ClosedStaysClosed)
<1>. SUFFICES ASSUME ~ResubmitIds PROVE Spec => ClosedStaysClosed
  OBVIOUS
<1>1. TypeOK /\ [Next]_vars =>
        [\A t \in Submitted : taskStatus[t] \in {"completed", "failed"} =>
             taskStatus'[t] \in {"completed", "failed"}]_vars
  BY NextKeepsClosed
<1>. QED
  BY <1>1, TypeCorrect, PTL DEF Spec, ClosedStaysClosed

-----------------------------------------------------------------------------
(* Queue depths never count work that is not there.                        *)

\* What an agent holds can be counted.
LEMMA HoldingFinite ==
    ASSUME NEW S \in SUBSET Submitted, TypeOK
    PROVE  IsFiniteSet(S) /\ Cardinality(S) \in Nat
<1>1. IsFiniteSet(Submitted)
  BY FS_Interval DEF Submitted, TypeOK
<1>. QED
  BY <1>1, FS_Subset, FS_CardinalityType

\* What agent a would hold if the scratch record were the real state.
HoldingIn(r, a) == {t \in Submitted : taskStatus[t] = "assigned" /\ r.assignee[t] = a}
DepthsWithin(r) == \A a \in Registered : r.depth[a] <= Cardinality(HoldingIn(r, a))
DepthsExact(r)  == \A a \in Registered : r.depth[a] = Cardinality(HoldingIn(r, a))

\* A queue depth and the number of tasks held change together: both lose one, both gain
\* one, or neither changes.
Together(d, n, d2, n2) == \/ n >= 1 /\ d2 = Less(d) /\ n2 = n - 1
                          \/ d2 = d + 1 /\ n2 = n + 1
                          \/ d2 = d /\ n2 = n

\* What changes together with the work stays within it, and covers it if it did.
LEMMA TogetherKeeps ==
    ASSUME NEW d \in Nat, NEW n \in Nat, NEW d2, NEW n2, Together(d, n, d2, n2)
    PROVE  /\ d <= n => d2 <= n2
           /\ d = n => d2 = n2
BY DEF Together, Less, AtLeast

\* One move takes one off the giver and adds one to the taker, as the task does.
LEMMA MoveTogether ==
    ASSUME TypeOK, NEW r \in MoveState, NEW s \in MoveOne(r), NEW a \in Registered
    PROVE  /\ r.depth[a] \in Nat /\ Cardinality(HoldingIn(r, a)) \in Nat
           /\ Together(r.depth[a], Cardinality(HoldingIn(r, a)),
                       s.depth[a], Cardinality(HoldingIn(s, a)))
<1>1. /\ IsFiniteSet(HoldingIn(r, a)) /\ Cardinality(HoldingIn(r, a)) \in Nat
      /\ a \in Agent /\ r.depth[a] \in Nat
  BY HoldingFinite, Ranges DEF HoldingIn, MoveState
<1>2. CASE s = r
  BY <1>1, <1>2 DEF Together
<1>3. ASSUME NEW m \in Registered \X Submitted \X Registered, s = Moved(r, m),
             m[1] # m[3], taskStatus[m[2]] = "assigned", r.assignee[m[2]] = m[1]
      PROVE  Together(r.depth[a], Cardinality(HoldingIn(r, a)),
                      s.depth[a], Cardinality(HoldingIn(s, a)))
  <2>1. m[1] \in Agent /\ m[2] \in Task /\ m[3] \in Agent
    BY Ranges
  <2>2. /\ s.assignee = [r.assignee EXCEPT ![m[2]] = m[3]]
        /\ s.depth = [r.depth EXCEPT ![m[1]] = Less(@), ![m[3]] = @ + 1]
    BY <1>3 DEF Moved
  <2>3. CASE a = m[1]
    <3>1. HoldingIn(s, a) = HoldingIn(r, a) \ {m[2]} /\ m[2] \in HoldingIn(r, a)
      BY <1>3, <2>1, <2>2, <2>3, Ranges DEF HoldingIn, MoveState
    <3>2. Cardinality(HoldingIn(s, a)) = Cardinality(HoldingIn(r, a)) - 1
      <4>1. Cardinality(HoldingIn(r, a) \ {m[2]}) =
              IF m[2] \in HoldingIn(r, a) THEN Cardinality(HoldingIn(r, a)) - 1
              ELSE Cardinality(HoldingIn(r, a))
        BY <1>1, FS_RemoveElement
      <4>. QED
        BY <3>1, <4>1
    <3>3. s.depth[a] = Less(r.depth[a])
      BY <1>1, <1>3, <2>1, <2>2, <2>3 DEF MoveState
    <3>4. Cardinality(HoldingIn(s, a)) \in Nat
      BY HoldingFinite DEF HoldingIn
    <3>. QED
      BY <1>1, <3>2, <3>3, <3>4 DEF Together
  <2>4. CASE a = m[3]
    <3>1. HoldingIn(s, a) = HoldingIn(r, a) \cup {m[2]} /\ m[2] \notin HoldingIn(r, a)
      BY <1>3, <2>1, <2>2, <2>4, Ranges DEF HoldingIn, MoveState
    <3>2. Cardinality(HoldingIn(s, a)) = Cardinality(HoldingIn(r, a)) + 1
      BY <1>1, <3>1, FS_AddElement
    <3>3. s.depth[a] = r.depth[a] + 1
      BY <1>1, <1>3, <2>1, <2>2, <2>4 DEF MoveState
    <3>. QED
      BY <3>2, <3>3 DEF Together
  <2>5. CASE a # m[1] /\ a # m[3]
    <3>1. HoldingIn(s, a) = HoldingIn(r, a)
      BY <1>3, <2>1, <2>2, <2>5, Ranges DEF HoldingIn, MoveState
    <3>2. s.depth[a] = r.depth[a]
      BY <1>1, <2>1, <2>2, <2>5 DEF MoveState
    <3>. QED
      BY <3>1, <3>2 DEF Together
  <2>. QED
    BY <2>3, <2>4, <2>5
<1>. QED
  BY <1>1, <1>2, <1>3, MoveStep

\* Depths stay within the work, and equal to it if they were, over one move.
LEMMA MoveKeepsDepths ==
    ASSUME TypeOK, NEW r \in MoveState, NEW s \in MoveOne(r)
    PROVE  /\ DepthsWithin(r) => DepthsWithin(s)
           /\ DepthsExact(r) => DepthsExact(s)
BY MoveTogether, TogetherKeeps DEF DepthsWithin, DepthsExact

\* So they do over the three moves of balance().
LEMMA BalanceDepths ==
    ASSUME TypeOK, Balance
    PROVE  /\ DepthWithinWork => DepthWithinWork'
           /\ QueueDepthExact => QueueDepthExact'
<1>1. PICK r1 \in MoveOne(BalanceStart) : \E r2 \in MoveOne(r1) : \E r3 \in MoveOne(r2) :
          assignee' = r3.assignee /\ depth' = r3.depth
  BY DEF Balance
<1>2. PICK r2 \in MoveOne(r1) : \E r3 \in MoveOne(r2) :
          assignee' = r3.assignee /\ depth' = r3.depth
  BY <1>1
<1>3. PICK r3 \in MoveOne(r2) : assignee' = r3.assignee /\ depth' = r3.depth
  BY <1>2
<1>4. /\ DepthWithinWork => DepthsWithin(BalanceStart)
      /\ QueueDepthExact => DepthsExact(BalanceStart)
  BY DEF DepthsWithin, DepthsExact, HoldingIn, BalanceStart, DepthWithinWork,
         QueueDepthExact, Holding
<1>5. BalanceStart \in MoveState /\ r1 \in MoveState /\ r2 \in MoveState
  BY StartType, MoveType
<1>6. /\ DepthWithinWork => DepthsWithin(r3)
      /\ QueueDepthExact => DepthsExact(r3)
  BY <1>4, <1>5, MoveKeepsDepths
<1>7. UNCHANGED <<nAgents, nTasks, taskStatus>>
  BY DEF Balance
<1>. QED
  BY <1>3, <1>6, <1>7
     DEF DepthsWithin, DepthsExact, HoldingIn, DepthWithinWork, QueueDepthExact, Holding,
         Registered, Submitted

\* Closing a task takes one off its assignee, which held it at most once.
LEMMA CloseDepths ==
    ASSUME TypeOK, DepthWithinWork, NEW t \in Task, NEW o \in {"completed", "failed"},
           Close(t, o)
    PROVE  DepthWithinWork'
<1>. SUFFICES ASSUME NEW a \in Registered PROVE depth'[a] <= Cardinality(Holding(a)')
  BY DEF DepthWithinWork, Close, Registered
<1>1. /\ IsFiniteSet(Holding(a)) /\ Cardinality(Holding(a)) \in Nat
      /\ a \in Agent /\ depth[a] \in Nat /\ depth[a] <= Cardinality(Holding(a))
  BY HoldingFinite, Ranges DEF Holding, DepthWithinWork, TypeOK
<1>2. t \in Submitted /\ Submitted' = Submitted /\ Submitted \subseteq Task
  BY Ranges DEF Close, Submitted
<1>3. CASE assignee[t] = a /\ taskStatus[t] = "assigned"
  <2>1. Holding(a)' = Holding(a) \ {t} /\ t \in Holding(a)
    BY <1>2, <1>3 DEF Close, Holding, TypeOK
  <2>2. Cardinality(Holding(a)') = Cardinality(Holding(a)) - 1
    BY <1>1, <2>1, FS_RemoveElement
  <2>3. Cardinality(Holding(a)') \in Nat
    BY <1>1, <2>1, FS_RemoveElement, FS_CardinalityType
  <2>4. depth'[a] = Less(depth[a])
    BY <1>1, <1>3 DEF Close, TypeOK
  <2>. QED
    BY <1>1, <2>2, <2>3, <2>4 DEF Less, AtLeast
<1>4. CASE ~(assignee[t] = a /\ taskStatus[t] = "assigned")
  <2>1. Holding(a)' = Holding(a)
    BY <1>2, <1>4 DEF Close, Holding, TypeOK
  <2>2. depth'[a] \in {depth[a], Less(depth[a])}
    BY <1>1 DEF Close, TypeOK
  <2>. QED
    BY <1>1, <2>1, <2>2, LessType
<1>. QED
  BY <1>3, <1>4

\* Closing a task that is still open takes one off its assignee, if it has one.
LEMMA CloseTogether ==
    ASSUME TypeOK, AssignmentSound, NEW t \in Task, NEW o \in {"completed", "failed"},
           Close(t, o), taskStatus[t] \in {"queued", "assigned"}, NEW a \in Registered
    PROVE  /\ depth[a] \in Nat /\ Cardinality(Holding(a)) \in Nat
           /\ Together(depth[a], Cardinality(Holding(a)), depth'[a], Cardinality(Holding(a)'))
<1>1. /\ IsFiniteSet(Holding(a)) /\ Cardinality(Holding(a)) \in Nat
      /\ a \in Agent /\ depth[a] \in Nat
  BY HoldingFinite, Ranges DEF Holding, TypeOK
<1>2. t \in Submitted /\ Submitted' = Submitted /\ Submitted \subseteq Task
  BY Ranges DEF Close, Submitted
<1>3. CASE assignee[t] = a
  <2>1. taskStatus[t] = "assigned"
    BY <1>1, <1>2, <1>3, BoundsAssumption DEF AssignmentSound, NoAgent, Agent
  <2>2. Holding(a)' = Holding(a) \ {t} /\ t \in Holding(a)
    BY <1>2, <1>3, <2>1 DEF Close, Holding, TypeOK
  <2>3. Cardinality(Holding(a)') = Cardinality(Holding(a)) - 1
    BY <1>1, <2>2, FS_RemoveElement
  <2>4. Cardinality(Holding(a)') \in Nat
    BY <1>1, <2>2, FS_RemoveElement, FS_CardinalityType
  <2>5. depth'[a] = Less(depth[a])
    BY <1>1, <1>3 DEF Close, TypeOK
  <2>. QED
    BY <1>1, <2>3, <2>4, <2>5 DEF Together
<1>4. CASE assignee[t] # a
  <2>1. Holding(a)' = Holding(a)
    BY <1>2, <1>4 DEF Close, Holding, TypeOK
  <2>2. depth'[a] = depth[a]
    BY <1>1, <1>4 DEF Close, TypeOK
  <2>. QED
    BY <1>1, <2>1, <2>2 DEF Together
<1>. QED
  BY <1>3, <1>4

\* Assigning a task adds one to the agent that now holds it.
LEMMA AssignTogether ==
    ASSUME TypeOK, NEW t \in Task, Assign(t), NEW a \in Registered
    PROVE  /\ depth[a] \in Nat /\ Cardinality(Holding(a)) \in Nat
           /\ Together(depth[a], Cardinality(Holding(a)), depth'[a], Cardinality(Holding(a)'))
<1>1. PICK b \in Agent : /\ assignee' = [assignee EXCEPT ![t] = b]
                         /\ taskStatus' = [taskStatus EXCEPT ![t] = "assigned"]
                         /\ depth' = [depth EXCEPT ![b] = @ + 1]
  BY DEF Assign
<1>2. t \in Submitted /\ taskStatus[t] = "queued" /\ Submitted' = Submitted
  BY DEF Assign, Assignable, Submitted
<1>3. /\ IsFiniteSet(Holding(a)) /\ Cardinality(Holding(a)) \in Nat
      /\ a \in Agent /\ depth[a] \in Nat
  BY HoldingFinite, Ranges DEF Holding, TypeOK
<1>4. CASE a = b
  <2>1. Holding(a)' = Holding(a) \cup {t} /\ t \notin Holding(a)
    BY <1>1, <1>2, <1>4, Ranges DEF Holding, TypeOK
  <2>2. Cardinality(Holding(a)') = Cardinality(Holding(a)) + 1
    BY <1>3, <2>1, FS_AddElement
  <2>3. depth'[a] = depth[a] + 1
    BY <1>1, <1>3, <1>4 DEF TypeOK
  <2>. QED
    BY <1>3, <2>2, <2>3 DEF Together
<1>5. CASE a # b
  <2>1. Holding(a)' = Holding(a)
    BY <1>1, <1>2, <1>5, Ranges DEF Holding, TypeOK
  <2>2. depth'[a] = depth[a]
    BY <1>1, <1>3, <1>5 DEF TypeOK
  <2>. QED
    BY <1>3, <2>1, <2>2 DEF Together
<1>. QED
  BY <1>4, <1>5

\* So depths stay within the work over an assign(), and equal to it if they were.
LEMMA AssignDepths ==
    ASSUME TypeOK, NEW t \in Task, Assign(t)
    PROVE  /\ DepthWithinWork => DepthWithinWork'
           /\ QueueDepthExact => QueueDepthExact'
<1>1. Registered' = Registered
  BY DEF Assign, Registered
<1>. QED
  BY <1>1, AssignTogether, TogetherKeeps DEF DepthWithinWork, QueueDepthExact

\* Every operation keeps depths within the work, if ids are not reused.
LEMMA NextDepths == TypeOK /\ DepthWithinWork /\ ~ResubmitIds /\ [Next]_vars => DepthWithinWork'
<1>. SUFFICES ASSUME TypeOK, DepthWithinWork, ~ResubmitIds, [Next]_vars
              PROVE  DepthWithinWork'
  OBVIOUS
<1>1. ASSUME NEW sk \in SUBSET Skills, AddAgent(sk), UNCHANGED taskVars
      PROVE  DepthWithinWork'
  <2>. SUFFICES ASSUME NEW a \in Registered' PROVE depth'[a] <= Cardinality(Holding(a)')
    BY DEF DepthWithinWork
  <2>1. Holding(a)' = Holding(a) /\ Cardinality(Holding(a)) \in Nat
    BY <1>1, HoldingFinite DEF taskVars, Holding, Submitted
  <2>2. CASE a = nAgents + 1
    BY <1>1, <2>1, <2>2, BoundsAssumption DEF AddAgent, TypeOK, Agent
  <2>3. CASE a # nAgents + 1
    <3>1. a \in Registered
      BY <1>1, <2>3 DEF AddAgent, Registered, TypeOK
    <3>. QED
      BY <1>1, <2>1, <2>3, <3>1, Ranges DEF AddAgent, TypeOK, DepthWithinWork
  <2>. QED
    BY <2>2, <2>3
<1>2. ASSUME NEW t \in Task, NEW req, NEW p, Submit(t, req, p) PROVE DepthWithinWork'
  <2>1. t = nTasks + 1 /\ Submitted' = Submitted \cup {t} /\ t \notin Submitted
    BY <1>2 DEF Submit, Submitted, AtLeast, TypeOK
  <2>2. \A a \in Registered : Holding(a)' = Holding(a)
    BY <1>2, <2>1, Ranges DEF Submit, Holding, TypeOK
  <2>. QED
    BY <1>2, <2>2 DEF Submit, agentVars, DepthWithinWork, Registered
<1>3. ASSUME NEW t \in Task, Assign(t) PROVE DepthWithinWork'
  BY <1>3, AssignDepths
<1>4. ASSUME NEW t \in Task, NEW o \in {"completed", "failed"}, Close(t, o)
      PROVE  DepthWithinWork'
  BY <1>4, CloseDepths
<1>5. ASSUME UNCHANGED <<nAgents, depth, taskVars>> PROVE DepthWithinWork'
  BY <1>5 DEF DepthWithinWork, taskVars, Registered, Holding, Submitted
<1>6. ASSUME NEW a \in Agent, NEW l, NEW s, Heartbeat(a, l, s) PROVE DepthWithinWork'
  BY <1>5, <1>6 DEF Heartbeat
<1>7. CASE TerminateIdle \/ Tick \/ UNCHANGED vars
  BY <1>5, <1>7 DEF TerminateIdle, Tick, vars, agentVars
<1>. QED
  BY <1>1, <1>2, <1>3, <1>4, <1>6, <1>7, BalanceDepths
     DEF Next, Complete, Fail, RegisterAgent, SpawnIfNeeded

\* As long as clients do not reuse ids, an agent's queue_depth is at most the
\* number of tasks assigned to it, for every interleaving of assign(),
\* complete(), fail() and balance() (engine.py 177, 190, 208, 305-307).
THEOREM DepthsAreCovered == ~ResubmitIds => (Spec => []DepthWithinWork)
<1>. SUFFICES ASSUME ~ResubmitIds PROVE Spec => []DepthWithinWork
  OBVIOUS
<1>1. Init => DepthWithinWork
  BY DEF Init, DepthWithinWork, Registered
<1>2. TypeOK /\ DepthWithinWork /\ [Next]_vars => DepthWithinWork'
  BY NextDepths
<1>. QED
  BY <1>1, <1>2, TypeCorrect, PTL DEF Spec

-----------------------------------------------------------------------------
(* What balance() may do to a pair of agents.                              *)

\* After n moves givers have lost and takers gained at most n tenths, and only
\* tasks of a giver have gone to a taker.
Gentle(r, n) ==
    /\ \A a \in Overloaded : r.load[a] >= HighLoad - n
    /\ \A a \in Underloaded : r.load[a] <= LowLoad + n
    /\ \A t \in Task : r.assignee[t] # assignee[t] =>
          assignee[t] \in Overloaded /\ r.assignee[t] \in Underloaded

\* No agent is both a giver and a taker.
LEMMA GiversAreNotTakers ==
    TypeOK => /\ Overloaded \cap Underloaded = {}
              /\ Overloaded \subseteq Agent /\ Underloaded \subseteq Agent
<1>. SUFFICES ASSUME TypeOK
              PROVE  /\ Overloaded \cap Underloaded = {}
                     /\ Overloaded \subseteq Agent /\ Underloaded \subseteq Agent
  OBVIOUS
<1>1. Overloaded \subseteq Agent /\ Underloaded \subseteq Agent
  BY Ranges DEF Overloaded, Underloaded, Live
<1>. QED
  BY <1>1 DEF TypeOK, Overloaded, Underloaded, HighLoad, LowLoad

\* One more move, one more tenth: a task that has moved is not moved again,
\* because its new holder is no giver.
LEMMA MoveIsGentle ==
    ASSUME TypeOK, NEW n \in Nat, NEW r \in MoveState, NEW s \in MoveOne(r), Gentle(r, n)
    PROVE  Gentle(s, n + 1)
<1>. USE DEF HighLoad, LowLoad
<1>1. CASE Movable(r) = {}
  <2>1. s = r
    BY <1>1 DEF MoveOne
  <2>2. ASSUME NEW a \in Overloaded PROVE s.load[a] >= 8 - (n + 1)
    BY <2>1, GiversAreNotTakers DEF Gentle, MoveState
  <2>3. ASSUME NEW a \in Underloaded PROVE s.load[a] <= 2 + (n + 1)
    BY <2>1, GiversAreNotTakers DEF Gentle, MoveState
  <2>. QED
    BY <2>1, <2>2, <2>3 DEF Gentle
<1>2. CASE Movable(r) # {}
  <2>1. PICK m \in Movable(r) : s = Moved(r, m)
    BY <1>2 DEF MoveOne
  <2>2. m[1] \in Overloaded /\ m[2] \in Task /\ m[3] \in Underloaded /\ r.assignee[m[2]] = m[1]
    BY Ranges DEF Movable
  <2>3. /\ s.load = [r.load EXCEPT ![m[1]] = Less(@), ![m[3]] = AtMost(10, @ + 1)]
        /\ s.assignee = [r.assignee EXCEPT ![m[2]] = m[3]]
    BY <2>1 DEF Moved
  <2>4. \A a \in Agent : r.load[a] \in 0..10
    BY DEF MoveState
  <2>5. ASSUME NEW a \in Overloaded PROVE s.load[a] >= 8 - (n + 1)
    <3>1. a # m[3] /\ a \in Agent /\ r.load[a] >= 8 - n
      BY <2>2, GiversAreNotTakers DEF Gentle
    <3>2. s.load[a] = IF a = m[1] THEN Less(r.load[a]) ELSE r.load[a]
      BY <2>2, <2>3, <3>1, GiversAreNotTakers DEF MoveState
    <3>. QED
      BY <2>4, <3>1, <3>2 DEF Less, AtLeast
  <2>6. ASSUME NEW a \in Underloaded PROVE s.load[a] <= 2 + (n + 1)
    <3>1. a # m[1] /\ a \in Agent /\ r.load[a] <= 2 + n
      BY <2>2, GiversAreNotTakers DEF Gentle
    <3>2. s.load[a] = IF a = m[3] THEN AtMost(10, r.load[a] + 1) ELSE r.load[a]
      BY <2>2, <2>3, <3>1, GiversAreNotTakers DEF MoveState
    <3>. QED
      BY <2>4, <3>1, <3>2 DEF AtMost
  <2>7. ASSUME NEW t \in Task, s.assignee[t] # assignee[t]
        PROVE  assignee[t] \in Overloaded /\ s.assignee[t] \in Underloaded
    <3>1. CASE t = m[2]
      <4>1. r.assignee[t] = assignee[t]
        BY <2>2, <3>1, GiversAreNotTakers DEF Gentle
      <4>. QED
        BY <2>2, <2>3, <3>1, <4>1 DEF MoveState
    <3>2. CASE t # m[2]
      BY <2>2, <2>3, <2>7, <3>2 DEF MoveState, Gentle
    <3>. QED
      BY <3>1, <3>2
  <2>. QED
    BY <2>5, <2>6, <2>7 DEF Gentle
<1>. QED
  BY <1>1, <1>2

\* Three moves leave the giver over the low mark and the taker under the high.
LEMMA BalanceIsGentle ==
    ASSUME TypeOK, Balance, NEW t \in Handed
    PROVE  /\ load[assignee[t]] >= HighLoad /\ load'[assignee[t]] > LowLoad
           /\ load[assignee'[t]] <= LowLoad /\ load'[assignee'[t]] < HighLoad
<1>1. PICK r1 \in MoveOne(BalanceStart) : \E r2 \in MoveOne(r1) : \E r3 \in MoveOne(r2) :
          load' = r3.load /\ assignee' = r3.assignee
  BY DEF Balance
<1>2. PICK r2 \in MoveOne(r1) : \E r3 \in MoveOne(r2) :
          load' = r3.load /\ assignee' = r3.assignee
  BY <1>1
<1>3. PICK r3 \in MoveOne(r2) : load' = r3.load /\ assignee' = r3.assignee
  BY <1>2
<1>4. BalanceStart \in MoveState /\ r1 \in MoveState /\ r2 \in MoveState /\ r3 \in MoveState
  BY StartType, MoveType
<1>5. Gentle(BalanceStart, 0)
  <2>1. ASSUME NEW a \in Overloaded PROVE load[a] >= HighLoad - 0
    BY DEF Overloaded, HighLoad
  <2>2. ASSUME NEW a \in Underloaded PROVE load[a] <= LowLoad + 0
    BY DEF Underloaded, LowLoad
  <2>. QED
    BY <2>1, <2>2 DEF Gentle, BalanceStart
<1>6. Gentle(r1, 0 + 1)
  BY <1>4, <1>5, MoveIsGentle
<1>7. Gentle(r2, (0 + 1) + 1)
  BY <1>4, <1>6, MoveIsGentle
<1>8. Gentle(r3, ((0 + 1) + 1) + 1)
  BY <1>4, <1>7, MoveIsGentle
<1>9. t \in Task /\ assignee'[t] # assignee[t]
  BY Ranges DEF Handed
<1>10. assignee[t] \in Overloaded /\ assignee'[t] \in Underloaded
  BY <1>3, <1>8, <1>9 DEF Gentle
<1>11. load[assignee[t]] >= HighLoad /\ load[assignee'[t]] <= LowLoad
  BY <1>10 DEF Overloaded, Underloaded
<1>12. load'[assignee[t]] >= 5 /\ load'[assignee'[t]] <= 5
  BY <1>3, <1>8, <1>10 DEF Gentle, HighLoad, LowLoad
<1>13. load'[assignee[t]] \in 0..10 /\ load'[assignee'[t]] \in 0..10
  BY <1>3, <1>4, <1>10, GiversAreNotTakers DEF MoveState
<1>. QED
  BY <1>11, <1>12, <1>13 DEF HighLoad, LowLoad

\* No other operation hands an assigned task to somebody else.
LEMMA OnlyBalanceHands ==
    ASSUME TypeOK, [Next]_vars, NEW t \in Handed PROVE Balance
<1>1. /\ t \in Task /\ taskStatus[t] = "assigned"
      /\ taskStatus'[t] = "assigned" /\ assignee'[t] # assignee[t]
  BY Ranges DEF Handed
<1>2. ASSUME NEW u \in Task, NEW req, NEW p, Submit(u, req, p) PROVE FALSE
  BY <1>1, <1>2 DEF Submit, TypeOK
<1>3. ASSUME NEW u \in Task, Assign(u) PROVE FALSE
  BY <1>1, <1>3 DEF Assign, Assignable, TypeOK
<1>4. ASSUME NEW u \in Task, NEW o, Close(u, o) PROVE FALSE
  BY <1>1, <1>4 DEF Close
<1>5. ASSUME NEW b, NEW l, NEW s, Heartbeat(b, l, s) PROVE UNCHANGED assignee
  BY <1>5 DEF Heartbeat, taskVars
<1>6. CASE TerminateIdle \/ Tick \/ SpawnIfNeeded \/ UNCHANGED vars
  BY <1>1, <1>6 DEF TerminateIdle, Tick, SpawnIfNeeded, vars, taskVars
<1>. QED
  BY <1>1, <1>2, <1>3, <1>4, <1>5, <1>6
     DEF Next, Complete, Fail, RegisterAgent, taskVars

\* Whatever the number of agents and tasks, a task changes hands only in
\* balance(), from an agent over the high mark to one under the low mark, and
\* the three moves of a call never turn taker into giver or giver into taker
\* (engine.py 279-312).
THEOREM BalanceRelieves == Spec => BalanceOnlyRelieves
<1>1. TypeOK /\ [Next]_vars =>
        [\A t \in Handed :
           /\ load[assignee[t]] >= HighLoad /\ load'[assignee[t]] > LowLoad
           /\ load[assignee'[t]] <= LowLoad /\ load'[assignee'[t]] < HighLoad]_vars
  BY OnlyBalanceHands, BalanceIsGentle
<1>. QED
  BY <1>1, TypeCorrect, PTL DEF Spec, BalanceOnlyRelieves

-----------------------------------------------------------------------------
(* The warm pool.                                                          *)

\* The idle agents that come before a in the order terminate_idle() sorts them by.
Ahead(a) == {b \in IdleExpired : LongerSilent(b, a)}

\* If terminate_idle() takes any, it leaves as many as are to be kept warm, and
\* they are the ones that were silent longest.
LEMMA ReaperLeaves ==
    ASSUME TypeOK, Reaped # {}
    PROVE  /\ Cardinality(Idle \ Reaped) >= KeepMinIdle
           /\ \A a \in Reaped, b \in IdleExpired \ Reaped : hb[b] <= hb[a]
<1>. USE ConfigAssumption, BoundsAssumption
<1>. DEFINE R == {p \in IdleExpired \X IdleExpired : LongerSilent(p[1], p[2])}
<1>1. /\ IdleExpired \subseteq Idle /\ Idle \subseteq 1..nAgents /\ nAgents \in Nat
      /\ \A a \in 1..nAgents : hb[a] \in Nat
      /\ Reaped = {a \in IdleExpired : Cardinality(Ahead(a)) >= KeepMinIdle}
  BY DEF IdleExpired, Idle, Registered, TypeOK, Agent, Reaped, Ahead
<1>2. IsFiniteSet(Idle) /\ IsFiniteSet(IdleExpired)
  <2>1. IsFiniteSet(1..nAgents)
    BY <1>1, FS_Interval
  <2>. QED
    BY <1>1, <2>1, FS_Subset
<1>3. \A S \in SUBSET Idle : IsFiniteSet(S) /\ Cardinality(S) \in Nat
  BY <1>2, FS_Subset, FS_CardinalityType
<1>4. \A a, b, c \in IdleExpired :
         /\ LongerSilent(a, b) /\ LongerSilent(b, c) => LongerSilent(a, c)
         /\ a = b \/ LongerSilent(a, b) \/ LongerSilent(b, a)
         /\ ~LongerSilent(a, a)
  BY <1>1 DEF LongerSilent
<1>5. PICK f \in Reaped : \A a \in Reaped \ {f} : LongerSilent(f, a)
  <2>1. Reaped \subseteq IdleExpired /\ IsFiniteSet(Reaped)
    BY <1>1, <1>2, FS_Subset
  <2>2. PICK f \in Reaped : \A a \in Reaped \ {f} : <<f, a>> \in R
    <3>1. \A a, b \in Reaped : a = b \/ <<a, b>> \in R \/ <<b, a>> \in R
      BY <1>4, <2>1
    <3>2. \A a, b, c \in Reaped : <<a, b>> \in R /\ <<b, c>> \in R => <<a, c>> \in R
      BY <1>4, <2>1
    <3>. HIDE DEF R
    <3>. QED
      BY <2>1, <3>1, <3>2, FirstInOrder
  <2>. QED
    BY <2>2
<1>6. Cardinality(Idle \ Reaped) >= KeepMinIdle
  <2>1. Ahead(f) \subseteq Idle \ Reaped
    <3>. SUFFICES ASSUME NEW b \in Ahead(f), b \in Reaped PROVE FALSE
      BY <1>1 DEF Ahead
    <3>1. LongerSilent(b, f) /\ b \in IdleExpired /\ f \in IdleExpired
      BY <1>1 DEF Ahead
    <3>2. b # f
      BY <1>4, <3>1
    <3>. QED
      BY <1>4, <1>5, <3>1, <3>2
  <2>2. Cardinality(Ahead(f)) <= Cardinality(Idle \ Reaped)
    BY <1>3, <2>1, FS_Subset
  <2>3. Cardinality(Ahead(f)) \in Nat /\ Cardinality(Ahead(f)) >= KeepMinIdle
    BY <1>1, <1>3, <2>1
  <2>. QED
    BY <1>3, <2>2, <2>3
<1>7. ASSUME NEW a \in Reaped, NEW b \in IdleExpired \ Reaped PROVE hb[b] <= hb[a]
  <2>1. a \in IdleExpired /\ a # b
    BY <1>1
  <2>2. CASE LongerSilent(a, b)
    <3>1. Ahead(a) \subseteq Ahead(b) /\ Ahead(b) \subseteq Idle
      BY <1>1, <1>4, <2>1, <2>2 DEF Ahead
    <3>2. Cardinality(Ahead(a)) <= Cardinality(Ahead(b))
      BY <1>3, <3>1, FS_Subset
    <3>3. Cardinality(Ahead(a)) \in Nat /\ Cardinality(Ahead(b)) \in Nat
      BY <1>3, <3>1
    <3>. QED
      BY <1>1, <3>2, <3>3
  <2>3. CASE LongerSilent(b, a)
    BY <1>1, <2>1, <2>3 DEF LongerSilent
  <2>. QED
    BY <1>4, <2>1, <2>2, <2>3
<1>. QED
  BY <1>6, <1>7

\* Only terminate_idle() terminates, as long as no heartbeat reports it.
LEMMA OnlyTheReaperTerminates ==
    ASSUME TypeOK, "terminated" \notin ReportedStatuses, [Next]_vars, ~TerminateIdle
    PROVE  Lost = {}
<1>. USE BoundsAssumption, InputsAssumption DEF TypeOK
<1>1. \A a \in Idle : a \in Agent /\ status[a] = "idle"
  BY Ranges DEF Idle
<1>2. ASSUME UNCHANGED status PROVE Lost = {}
  BY <1>1, <1>2 DEF Lost
<1>3. ASSUME NEW a \in Agent, NEW s \in {"running", "idle"}, status' = [status EXCEPT ![a] = s]
      PROVE  Lost = {}
  BY <1>1, <1>3 DEF Lost
<1>4. ASSUME NEW a \in Agent, NEW l, NEW s \in Optional(ReportedStatuses), Heartbeat(a, l, s)
      PROVE  Lost = {}
  <2>1. CASE s = {}
    BY <1>1, <1>4, <2>1 DEF Lost, Heartbeat
  <2>2. ASSUME NEW x \in ReportedStatuses, s = {x} PROVE Lost = {}
    <3>1. status' = [status EXCEPT ![a] = x]
      BY <1>4, <2>2 DEF Heartbeat
    <3>. QED
      BY <1>1, <3>1 DEF Lost
  <2>. QED
    BY <2>1, <2>2 DEF Optional
<1>5. ASSUME NEW sk, AddAgent(sk) PROVE Lost = {}
  <2>1. nAgents + 1 \in Agent
    BY <1>5 DEF AddAgent, Agent
  <2>. QED
    BY <1>3, <1>5, <2>1 DEF AddAgent
<1>6. ASSUME NEW t \in Task, Assign(t) PROVE Lost = {}
  BY <1>3, <1>6 DEF Assign, MarkRunning
<1>7. ASSUME NEW t \in Task, NEW o, Close(t, o) PROVE Lost = {}
  BY <1>2, <1>7 DEF Close
<1>8. ASSUME NEW t \in Task, NEW req, NEW p, Submit(t, req, p) PROVE Lost = {}
  BY <1>2, <1>8 DEF Submit, agentVars
<1>9. CASE Balance \/ Tick \/ UNCHANGED vars
  BY <1>2, <1>9 DEF Balance, Tick, vars, agentVars
<1>. QED
  BY <1>4, <1>5, <1>6, <1>7, <1>8, <1>9
     DEF Next, RegisterAgent, SpawnIfNeeded, Complete, Fail

\* Terminating idle agents leaves the warm pool, and those silent longest in it, in any
\* behaviour in which no heartbeat reports a termination: the HTTP API sends no status
\* (engine.py 268-276).
THEOREM TheReaperSpares == "terminated" \notin ReportedStatuses => (Spec => WarmPool)
<1>. SUFFICES ASSUME "terminated" \notin ReportedStatuses PROVE Spec => WarmPool
  OBVIOUS
<1>1. TypeOK /\ [Next]_vars =>
        [Lost # {} => /\ Cardinality(Idle \ Lost) >= KeepMinIdle
                      /\ \A a \in Lost, b \in IdleExpired \ Lost : hb[b] <= hb[a]]_vars
  <2>. SUFFICES ASSUME TypeOK, [Next]_vars, Lost # {}
                PROVE  /\ Cardinality(Idle \ Lost) >= KeepMinIdle
                       /\ \A a \in Lost, b \in IdleExpired \ Lost : hb[b] <= hb[a]
    OBVIOUS
  <2>1. TerminateIdle
    BY OnlyTheReaperTerminates
  <2>2. Reaped # {} /\ Lost = Reaped
    BY <2>1, Ranges DEF TerminateIdle, Lost, Idle, Reaped, IdleExpired
  <2>. QED
    BY <2>2, ReaperLeaves
<1>. QED
  BY <1>1, TypeCorrect, PTL DEF Spec, WarmPool

-----------------------------------------------------------------------------
(* The runs.                                                               *)

\* The steps of a run that has no task yet, and the status its task has at the others.
NoTaskYet == {"new", "evaluate", "remember", "submit", "denied"}
StatusAt(here) == IF here \in {"say_failed", "failed"} THEN {"failed"}
                  ELSE IF here \in {"say_completed", "completed"} THEN {"completed"}
                  ELSE {"queued", "assigned"}

\* Every run has a task of its own, which nobody else closes.
OwnTasks ==
    /\ \A r \in Runs : /\ task[r] = 0 <=> pc[r] \in NoTaskYet
                       /\ task[r] # 0 => task[r] \in Submitted /\ needs[task[r]] = need[r]
                                         /\ taskStatus[task[r]] \in StatusAt(pc[r])
    /\ \A r, q \in Runs : task[r] = task[q] /\ task[r] # 0 => r = q

\* Its agent was fit for its task when it was chosen, and skills do not change.
AgentsFit ==
    \A r \in Runs : pc[r] \in {"reassign", "announce", "think", "call"} =>
        agent[r] \in Registered /\ need[r] \subseteq skills[agent[r]]

\* Where a run stands tells what it published and stored.
StagesInStep ==
    \A r \in Runs : /\ stage[r] = "memory_stored" => "prompt" \in stored[r]
                    /\ stage[r] \in {"completed", "failed"} => pc[r] = stage[r]
                    /\ "answer" \in stored[r] <=>
                          pc[r] \in {"completing", "say_completed", "completed"}

RunsInv == /\ RunnerTypeOK /\ AssignmentSound /\ QueueDepthExact
           /\ OwnTasks /\ AgentsFit /\ StagesInStep

\* Every step of a run or around it is a step of the orchestrator.
LEMMA RunsAreClients == RunsInv /\ [RunnerNext]_allVars => [Next]_vars
<1>. SUFFICES ASSUME RunsInv, [RunnerNext]_allVars PROVE [Next]_vars
  OBVIOUS
<1>. USE DEF RunsInv, RunnerTypeOK
<1>1. ASSUME NEW r \in Runs, SubmitTask(r) PROVE Next
  <2>1. PICK req \in {{}} \cup {{s} : s \in Routable} : Submit(nTasks + 1, req, 0)
    BY <1>1 DEF SubmitTask
  <2>2. req \in SUBSET Skills /\ nTasks + 1 \in Task /\ 0 \in Priorities
    BY <2>1, RunnerAssumption DEF Submit
  <2>. QED
    BY <2>1, <2>2 DEF Next
<1>2. ASSUME NEW r \in Runs, Fallback(r) PROVE Next
  <2>1. FallbackSkills(r) \in SUBSET Skills
    BY RunnerAssumption DEF FallbackSkills
  <2>. QED
    BY <1>2, <2>1 DEF Fallback, Next
<1>3. \A r \in Runs : pc[r] \notin NoTaskYet => task[r] \in Task
  BY DEF OwnTasks
<1>4. ASSUME NEW r \in Runs, FirstAssign(r) \/ SecondAssign(r) PROVE [Next]_vars
  <2>1. task[r] \in Task
    BY <1>3, <1>4 DEF FirstAssign, SecondAssign, At, NoTaskYet
  <2>. QED
    BY <1>4, <2>1 DEF FirstAssign, SecondAssign, Next
<1>5. ASSUME NEW r \in Runs, FailTask(r) \/ CompleteTask(r) PROVE Next
  <2>1. task[r] \in Task
    BY <1>3, <1>5 DEF FailTask, CompleteTask, At, NoTaskYet
  <2>. QED
    BY <1>5, <2>1 DEF FailTask, CompleteTask, Next
<1>6. ASSUME NEW r \in Runs,
             \/ Start(r) \/ Evaluate(r) \/ Remember(r) \/ Announce(r) \/ Think(r)
             \/ CallReturns(r) \/ CallLost(r) \/ SayFailed(r) \/ RecordAnswer(r) \/ SayCompleted(r)
      PROVE  UNCHANGED vars
  BY <1>6 DEF Start, Evaluate, Remember, Announce, Think, CallReturns, CallLost, SayFailed,
              RecordAnswer, SayCompleted
<1>7. CASE Environment
  BY <1>7 DEF Environment, Next
<1>8. CASE UNCHANGED allVars
  BY <1>8 DEF allVars
<1>. QED
  BY <1>1, <1>2, <1>4, <1>5, <1>6, <1>7, <1>8 DEF RunnerNext, RunStep

\* A new agent holds nothing and takes nothing from the others.
LEMMA NewAgentDepths ==
    ASSUME TypeOK, AssignmentSound, QueueDepthExact, NEW sk, AddAgent(sk), UNCHANGED taskVars
    PROVE  QueueDepthExact'
<1>. SUFFICES ASSUME NEW a \in Registered' PROVE depth'[a] = Cardinality(Holding(a)')
  BY DEF QueueDepthExact
<1>1. Holding(a)' = Holding(a)
  BY DEF taskVars, Holding, Submitted
<1>2. CASE a = nAgents + 1
  <2>1. Holding(a) = {}
    BY <1>2 DEF Holding, AssignmentSound, Registered, TypeOK
  <2>2. depth'[a] = 0
    BY <1>2, BoundsAssumption DEF AddAgent, TypeOK, Agent
  <2>. QED
    BY <1>1, <2>1, <2>2, FS_EmptySet
<1>3. CASE a # nAgents + 1
  <2>1. a \in Registered
    BY <1>3 DEF AddAgent, Registered, TypeOK
  <2>. QED
    BY <1>1, <1>3, <2>1, Ranges DEF AddAgent, TypeOK, QueueDepthExact
<1>. QED
  BY <1>2, <1>3

\* The pool around the runs leaves them, their tasks' status and the skills of every
\* agent alone, and depths exact.
LEMMA EnvironmentSpares ==
    ASSUME RunsInv, Environment
    PROVE  /\ UNCHANGED <<runVars, nTasks, taskStatus, needs>>
           /\ Registered \subseteq Registered' /\ \A a \in Registered : skills'[a] = skills[a]
           /\ QueueDepthExact'
<1>. USE DEF RunsInv, RunnerTypeOK
<1>1. CASE SpawnIfNeeded
  <2>1. AddAgent({}) /\ UNCHANGED <<taskVars, runVars>>
    BY <1>1 DEF Environment, SpawnIfNeeded
  <2>2. QueueDepthExact'
    BY <2>1, NewAgentDepths
  <2>3. Registered \subseteq Registered' /\ \A a \in Registered : skills'[a] = skills[a]
    BY <2>1, Ranges DEF AddAgent, Registered, TypeOK
  <2>.  QED
    BY <2>1, <2>2, <2>3 DEF taskVars
<1>2. CASE Balance
  <2>1. UNCHANGED <<runVars, nTasks, taskStatus, needs, nAgents, skills>>
    BY <1>2 DEF Environment, Balance
  <2>. QED
    BY <1>2, <2>1, BalanceDepths DEF Registered
<1>3. CASE ~SpawnIfNeeded /\ ~Balance
  <2>1. UNCHANGED <<runVars, taskVars, nAgents, skills, depth>>
    BY <1>3 DEF Environment, Heartbeat, TerminateIdle, Tick, agentVars, taskVars
  <2>. QED
    BY <2>1 DEF QueueDepthExact, taskVars, Registered, Holding, Submitted
<1>. QED
  BY <1>1, <1>2, <1>3

\* The calls of a run that leave the orchestrator alone.
QuietCall(r) == \/ Start(r) \/ Evaluate(r) \/ Remember(r) \/ Announce(r) \/ Think(r)
                \/ CallReturns(r) \/ CallLost(r) \/ SayFailed(r) \/ RecordAnswer(r)
                \/ SayCompleted(r)

\* Every step keeps the runs well typed.
LEMMA RunTypesKept == RunsInv /\ [RunnerNext]_allVars => RunnerTypeOK'
<1>. SUFFICES ASSUME RunsInv, [RunnerNext]_allVars PROVE RunnerTypeOK'
  OBVIOUS
<1>. USE DEF RunsInv, RunnerTypeOK
<1>1. TypeOK'
  BY RunsAreClients, NextType
<1>2. ASSUME NEW r \in Runs, QuietCall(r) PROVE RunnerTypeOK'
  <2>1. pc' \in [Runs -> Steps] /\ UNCHANGED <<task, agent, need>>
    BY <1>2 DEF QuietCall, Start, Evaluate, Remember, Announce, Think, CallReturns,
                CallLost, SayFailed, RecordAnswer, SayCompleted, Goto, Steps, Ended
  <2>2. stage' \in [Runs -> Stages] /\ stored' \in [Runs -> SUBSET {"prompt", "answer"}]
    BY <1>2 DEF QuietCall, Start, Evaluate, Remember, Announce, Think, CallReturns,
                CallLost, SayFailed, RecordAnswer, SayCompleted, Publish, Stages
  <2>. QED
    BY <1>1, <2>1, <2>2
<1>3. ASSUME NEW r \in Runs, SubmitTask(r) PROVE RunnerTypeOK'
  <2>1. nTasks + 1 \in Task
    BY <1>3 DEF SubmitTask, Submit
  <2>. QED
    BY <1>1, <1>3, <2>1 DEF SubmitTask, Goto, Steps
<1>4. ASSUME NEW r \in Runs, FirstAssign(r) PROVE RunnerTypeOK'
  <2>1. task[r] \in Task
    BY <1>4 DEF FirstAssign, At, OwnTasks, NoTaskYet
  <2>2. assignee'[task[r]] \in Agent \cup {NoAgent}
    BY <1>1, <2>1 DEF TypeOK
  <2>. QED
    BY <1>1, <1>4, <2>2 DEF FirstAssign, Goto, Steps
<1>5. ASSUME NEW r \in Runs, Fallback(r) PROVE RunnerTypeOK'
  <2>1. nAgents + 1 \in Agent
    BY <1>5, BoundsAssumption DEF Fallback, RegisterAgent, AddAgent, TypeOK, Agent
  <2>. QED
    BY <1>1, <1>5, <2>1 DEF Fallback, Goto, Steps
<1>6. ASSUME NEW r \in Runs, SecondAssign(r) \/ FailTask(r) \/ CompleteTask(r) PROVE RunnerTypeOK'
  BY <1>1, <1>6 DEF SecondAssign, FailTask, CompleteTask, Goto, Steps
<1>7. CASE Environment \/ UNCHANGED allVars
  BY <1>1, <1>7 DEF Environment, allVars, runVars
<1>. QED
  BY <1>2, <1>3, <1>4, <1>5, <1>6, <1>7 DEF RunnerNext, RunStep, QuietCall

\* Every step keeps depths exact: a run closes its own task only, and only once.
LEMMA ExactKept == RunsInv /\ [RunnerNext]_allVars => QueueDepthExact'
<1>. SUFFICES ASSUME RunsInv, [RunnerNext]_allVars PROVE QueueDepthExact'
  OBVIOUS
<1>. USE DEF RunsInv, RunnerTypeOK
<1>1. \A r \in Runs : pc[r] \notin NoTaskYet => task[r] \in Task
  BY DEF OwnTasks
<1>2. ASSUME UNCHANGED vars PROVE QueueDepthExact'
  BY <1>2 DEF QueueDepthExact, vars, agentVars, taskVars, Registered, Holding, Submitted
<1>3. ASSUME NEW r \in Runs, SubmitTask(r) PROVE QueueDepthExact'
  <2>1. PICK t \in Task, req \in {{}} \cup {{s} : s \in Routable} : Submit(t, req, 0) /\ t = nTasks + 1
    BY <1>3 DEF SubmitTask, Submit
  <2>2. Submitted' = Submitted \cup {t} /\ t \notin Submitted
    BY <2>1 DEF Submit, Submitted, AtLeast, TypeOK
  <2>3. \A a \in Registered : Holding(a)' = Holding(a)
    BY <2>1, <2>2, Ranges DEF Submit, Holding, TypeOK
  <2>. QED
    BY <2>1, <2>3 DEF Submit, agentVars, QueueDepthExact, Registered
<1>4. ASSUME NEW r \in Runs, FirstAssign(r) \/ SecondAssign(r) PROVE QueueDepthExact'
  <2>1. task[r] \in Task
    BY <1>1, <1>4 DEF FirstAssign, SecondAssign, At, NoTaskYet
  <2>. QED
    BY <1>2, <1>4, <2>1, AssignDepths DEF FirstAssign, SecondAssign
<1>5. ASSUME NEW r \in Runs, Fallback(r) PROVE QueueDepthExact'
  BY <1>5, NewAgentDepths DEF Fallback, RegisterAgent
<1>6. ASSUME NEW r \in Runs, FailTask(r) \/ CompleteTask(r) PROVE QueueDepthExact'
  <2>1. task[r] \in Task /\ taskStatus[task[r]] \in {"queued", "assigned"}
    BY <1>1, <1>6 DEF FailTask, CompleteTask, At, NoTaskYet, OwnTasks, StatusAt
  <2>2. PICK o \in {"completed", "failed"} : Close(task[r], o)
    BY <1>6 DEF FailTask, CompleteTask, Fail, Complete
  <2>3. Registered' = Registered
    BY <2>2 DEF Close, Registered
  <2>. QED
    BY <2>1, <2>2, <2>3, CloseTogether, TogetherKeeps DEF QueueDepthExact
<1>7. ASSUME NEW r \in Runs, QuietCall(r) PROVE QueueDepthExact'
  BY <1>2, <1>7 DEF QuietCall, Start, Evaluate, Remember, Announce, Think, CallReturns,
                    CallLost, SayFailed, RecordAnswer, SayCompleted
<1>8. CASE Environment \/ UNCHANGED allVars
  BY <1>2, <1>8, EnvironmentSpares DEF allVars
<1>. QED
  BY <1>3, <1>4, <1>5, <1>6, <1>7, <1>8 DEF RunnerNext, RunStep, QuietCall

\* Every step leaves each run's task to that run.
LEMMA OwnTasksKept == RunsInv /\ [RunnerNext]_allVars => OwnTasks'
<1>. SUFFICES ASSUME RunsInv, [RunnerNext]_allVars PROVE OwnTasks'
  OBVIOUS
<1>. USE DEF RunsInv, RunnerTypeOK
<1>1. ASSUME NEW r \in Runs, NEW there \in Steps, Goto(r, there), UNCHANGED <<task, need, nTasks, needs>>,
             there \in NoTaskYet <=> pc[r] \in NoTaskYet,
             \A t \in Task \ {task[r]} : taskStatus'[t] = taskStatus[t],
             task[r] # 0 => taskStatus'[task[r]] \in StatusAt(there)
      PROVE  OwnTasks'
  <2>1. Submitted' = Submitted
    BY <1>1 DEF Submitted
  <2>2. \A q \in Runs \ {r} : /\ pc'[q] = pc[q]
                              /\ task[q] # 0 => task[q] \in Task \ {task[r]}
    BY <1>1 DEF Goto, OwnTasks
  <2>3. pc'[r] = there
    BY <1>1 DEF Goto
  <2>. QED
    BY <1>1, <2>1, <2>2, <2>3 DEF OwnTasks
<1>2. ASSUME NEW r \in Runs, NEW here, NEW there \in Steps, pc[r] = here, Goto(r, there),
             UNCHANGED <<vars, task, need>>, there \in NoTaskYet <=> here \in NoTaskYet,
             StatusAt(here) \subseteq StatusAt(there)
      PROVE  OwnTasks'
  BY <1>1, <1>2 DEF vars, taskVars, OwnTasks
<1>3. ASSUME NEW r \in Runs, QuietCall(r) PROVE OwnTasks'
  BY <1>2, <1>3 DEF QuietCall, Start, Evaluate, Remember, Announce, Think, CallReturns,
                    CallLost, SayFailed, RecordAnswer, SayCompleted, At, Steps, Ended,
                    NoTaskYet, StatusAt
<1>4. ASSUME NEW r \in Runs, SubmitTask(r) PROVE OwnTasks'
  <2>1. PICK t \in Task, req \in {{}} \cup {{s} : s \in Routable} :
            Submit(t, req, 0) /\ t = nTasks + 1 /\ need' = [need EXCEPT ![r] = req]
    BY <1>4 DEF SubmitTask, Submit
  <2>2. Submitted' = Submitted \cup {t} /\ t \notin Submitted /\ t # 0 /\ t \in Submitted'
    BY <2>1 DEF Submit, Submitted, AtLeast, TypeOK
  <2>3. /\ pc'[r] = "assign" /\ task'[r] = t /\ need'[r] = req
        /\ taskStatus'[t] = "queued" /\ needs'[t] = req
    BY <1>4, <2>1 DEF SubmitTask, Submit, Goto, TypeOK
  <2>4. \A q \in Runs \ {r} : /\ pc'[q] = pc[q] /\ task'[q] = task[q] /\ need'[q] = need[q]
                              /\ task[q] # 0 => task[q] \in Task \ {t}
    BY <1>4, <2>1, <2>2 DEF SubmitTask, Goto, OwnTasks
  <2>5. \A u \in Task \ {t} : taskStatus'[u] = taskStatus[u] /\ needs'[u] = needs[u]
    BY <2>1 DEF Submit, TypeOK
  <2>. QED
    BY <2>2, <2>3, <2>4, <2>5 DEF OwnTasks, NoTaskYet, StatusAt
<1>5. ASSUME NEW r \in Runs, FirstAssign(r) \/ SecondAssign(r) PROVE OwnTasks'
  <2>1. PICK here \in {"assign", "reassign"}, there \in {"announce", "fallback"} :
            pc[r] = here /\ Goto(r, there)
    BY <1>5 DEF FirstAssign, SecondAssign, At
  <2>2. CASE UNCHANGED vars
    BY <1>2, <1>5, <2>1, <2>2 DEF FirstAssign, SecondAssign, Steps, NoTaskYet, StatusAt
  <2>3. CASE Assign(task[r])
    <3>1. task[r] \in Task
      BY <2>1 DEF OwnTasks, NoTaskYet
    <3>. QED
      BY <1>1, <1>5, <2>1, <2>3, <3>1
         DEF FirstAssign, SecondAssign, Assign, TypeOK, Steps, NoTaskYet, StatusAt
  <2>. QED
    BY <1>5, <2>2, <2>3 DEF FirstAssign, SecondAssign
<1>6. ASSUME NEW r \in Runs, Fallback(r) PROVE OwnTasks'
  BY <1>1, <1>6 DEF Fallback, RegisterAgent, taskVars, At, Steps, NoTaskYet, StatusAt, OwnTasks
<1>7. ASSUME NEW r \in Runs, FailTask(r) \/ CompleteTask(r) PROVE OwnTasks'
  <2>1. pc[r] \in {"failing", "completing"} /\ task[r] \in Task
    BY <1>7 DEF FailTask, CompleteTask, At, OwnTasks, NoTaskYet
  <2>2. CASE FailTask(r)
    BY <1>1, <2>1, <2>2 DEF FailTask, Fail, Close, TypeOK, Steps, NoTaskYet, StatusAt
  <2>3. CASE CompleteTask(r)
    BY <1>1, <2>1, <2>3 DEF CompleteTask, Complete, Close, TypeOK, Steps, NoTaskYet, StatusAt
  <2>. QED
    BY <1>7, <2>2, <2>3
<1>8. ASSUME UNCHANGED <<runVars, nTasks, taskStatus, needs>> PROVE OwnTasks'
  BY <1>8 DEF OwnTasks, runVars, Submitted
<1>9. CASE Environment \/ UNCHANGED allVars
  BY <1>8, <1>9, EnvironmentSpares DEF allVars, vars, taskVars
<1>. QED
  BY <1>3, <1>4, <1>5, <1>6, <1>7, <1>9 DEF RunnerNext, RunStep, QuietCall

\* Every step leaves each run with an agent that is fit for its task.
LEMMA AgentsFitKept == RunsInv /\ [RunnerNext]_allVars => AgentsFit'
<1>. SUFFICES ASSUME RunsInv, [RunnerNext]_allVars PROVE AgentsFit'
  OBVIOUS
<1>. USE DEF RunsInv, RunnerTypeOK
<1>. DEFINE Framed == {"reassign", "announce", "think", "call"}
<1>1. ASSUME NEW r \in Runs, NEW there, Goto(r, there), UNCHANGED <<agent, need>>,
             there \in Framed => pc[r] \in Framed,
             Registered \subseteq Registered', \A a \in Registered : skills'[a] = skills[a]
      PROVE  AgentsFit'
  <2>1. \A q \in Runs : pc'[q] \in Framed => pc[q] \in Framed
    BY <1>1 DEF Goto
  <2>. QED
    BY <1>1, <2>1 DEF AgentsFit
<1>2. ASSUME NEW r \in Runs, QuietCall(r) PROVE AgentsFit'
  <2>1. PICK there : /\ Goto(r, there)
                     /\ there \in Framed => pc[r] \in Framed
                     /\ UNCHANGED <<vars, agent, need>>
    BY <1>2 DEF QuietCall, Start, Evaluate, Remember, Announce, Think, CallReturns,
                CallLost, SayFailed, RecordAnswer, SayCompleted, At
  <2>. QED
    BY <1>1, <2>1 DEF vars, agentVars, Registered
<1>3. ASSUME NEW r \in Runs, SubmitTask(r) PROVE AgentsFit'
  <2>1. /\ UNCHANGED <<nAgents, skills, agent>> /\ pc' = [pc EXCEPT ![r] = "assign"]
        /\ \A q \in Runs \ {r} : need'[q] = need[q]
    BY <1>3 DEF SubmitTask, Submit, Goto, agentVars
  <2>. QED
    BY <2>1 DEF AgentsFit, Registered
<1>4. ASSUME NEW r \in Runs, FirstAssign(r) PROVE AgentsFit'
  <2>1. CASE UNCHANGED <<vars, agent>> /\ Goto(r, "fallback")
    BY <1>1, <1>4, <2>1 DEF FirstAssign, vars, agentVars, Registered
  <2>2. CASE Assign(task[r]) /\ agent' = [agent EXCEPT ![r] = assignee'[task[r]]]
             /\ Goto(r, "announce")
    <3>1. task[r] \in Submitted /\ task[r] \in Task /\ needs[task[r]] = need[r]
      BY <1>4 DEF FirstAssign, At, OwnTasks, NoTaskYet
    <3>2. UNCHANGED <<nAgents, skills, nTasks, needs, need>>
      BY <1>4, <2>2 DEF FirstAssign, Assign
    <3>3. taskStatus'[task[r]] = "assigned" /\ task[r] \in Submitted'
      BY <2>2, <3>1, <3>2 DEF Assign, TypeOK, Submitted
    <3>4. AssignmentSound'
      BY NextAssignment, RunsAreClients
    <3>5. agent'[r] \in Registered /\ need[r] \subseteq skills[agent'[r]]
      BY <2>2, <3>1, <3>2, <3>3, <3>4 DEF AssignmentSound, Capable, Registered
    <3>. QED
      BY <2>2, <3>2, <3>5 DEF Goto, AgentsFit, Registered
  <2>. QED
    BY <1>4, <2>1, <2>2 DEF FirstAssign
<1>5. ASSUME NEW r \in Runs, Fallback(r) PROVE AgentsFit'
  <2>1. /\ agent' = [agent EXCEPT ![r] = nAgents + 1] /\ UNCHANGED need
        /\ pc' = [pc EXCEPT ![r] = "reassign"] /\ AddAgent(FallbackSkills(r))
    BY <1>5 DEF Fallback, Goto, RegisterAgent
  <2>2. nAgents + 1 \in Registered' /\ skills'[nAgents + 1] = FallbackSkills(r)
    BY <2>1, BoundsAssumption DEF AddAgent, Registered, TypeOK, Agent
  <2>3. Registered \subseteq Registered' /\ \A a \in Registered : skills'[a] = skills[a]
    BY <2>1, Ranges DEF AddAgent, Registered, TypeOK
  <2>4. need[r] \subseteq FallbackSkills(r)
    BY DEF FallbackSkills
  <2>. QED
    BY <2>1, <2>2, <2>3, <2>4 DEF AgentsFit
<1>6. ASSUME NEW r \in Runs, SecondAssign(r) PROVE AgentsFit'
  BY <1>1, <1>6 DEF SecondAssign, Assign, At, vars, agentVars, Registered
<1>7. ASSUME NEW r \in Runs, FailTask(r) \/ CompleteTask(r) PROVE AgentsFit'
  BY <1>1, <1>7 DEF FailTask, CompleteTask, Fail, Complete, Close, Registered
<1>8. CASE Environment \/ UNCHANGED allVars
  <2>1. UNCHANGED <<pc, agent, need>>
        /\ Registered \subseteq Registered' /\ \A a \in Registered : skills'[a] = skills[a]
    BY <1>8, EnvironmentSpares DEF allVars, vars, agentVars, runVars, Registered
  <2>. QED
    BY <2>1 DEF AgentsFit
<1>. QED
  BY <1>2, <1>3, <1>4, <1>5, <1>6, <1>7, <1>8 DEF RunnerNext, RunStep, QuietCall

\* Every step leaves what a run published and stored in step with where it stands.
LEMMA StagesKept == RunsInv /\ [RunnerNext]_allVars => StagesInStep'
<1>. SUFFICES ASSUME RunsInv, [RunnerNext]_allVars PROVE StagesInStep'
  OBVIOUS
<1>. USE DEF RunsInv, RunnerTypeOK
<1>1. ASSUME NEW r \in Runs, Goto(r, pc'[r]),
             \A q \in Runs \ {r} : stage'[q] = stage[q] /\ stored'[q] = stored[q],
             /\ stage'[r] = "memory_stored" => "prompt" \in stored'[r]
             /\ stage'[r] \in {"completed", "failed"} => pc'[r] = stage'[r]
             /\ "answer" \in stored'[r] <=> pc'[r] \in {"completing", "say_completed", "completed"}
      PROVE  StagesInStep'
  <2>1. \A q \in Runs \ {r} : pc'[q] = pc[q]
    BY <1>1 DEF Goto
  <2>. QED
    BY <1>1, <2>1 DEF StagesInStep
<1>2. ASSUME NEW r \in Runs, QuietCall(r) PROVE StagesInStep'
  BY <1>1, <1>2 DEF QuietCall, Start, Evaluate, Remember, Announce, Think, CallReturns,
                    CallLost, SayFailed, RecordAnswer, SayCompleted, At, Goto, Publish,
                    StagesInStep
<1>3. ASSUME NEW r \in Runs,
             \/ SubmitTask(r) \/ FirstAssign(r) \/ Fallback(r) \/ SecondAssign(r)
             \/ FailTask(r) \/ CompleteTask(r)
      PROVE  StagesInStep'
  BY <1>1, <1>3 DEF SubmitTask, FirstAssign, Fallback, SecondAssign, FailTask, CompleteTask,
                    At, Goto, StagesInStep
<1>4. CASE Environment \/ UNCHANGED allVars
  BY <1>4 DEF Environment, allVars, runVars, StagesInStep
<1>. QED
  BY <1>2, <1>3, <1>4 DEF RunnerNext, RunStep, QuietCall

\* The seeded fleet, before any request.
LEMMA RunsInit == RunnerInit => RunsInv
<1>. SUFFICES ASSUME RunnerInit PROVE RunsInv
  OBVIOUS
<1>. USE DEF RunnerInit
<1>1. \A a \in 1..Len(SeedRoster) : SeedRoster[a] \subseteq Skills
  BY RunnerAssumption
<1>2. Len(SeedRoster) \in 0..MaxAgentIds
  BY RunnerAssumption
<1>3. TypeOK
  BY <1>1, <1>2, BoundsAssumption DEF TypeOK, AgentStatus, TaskStatus, NoAgent, Agent
<1>4. RunnerTypeOK
  BY <1>3 DEF RunnerTypeOK, Steps, Stages, Ended
<1>5. AssignmentSound /\ Submitted = {}
  BY DEF AssignmentSound, Submitted
<1>6. QueueDepthExact
  <2>1. \A a \in Registered : Holding(a) = {} /\ depth[a] = 0
    BY <1>2, <1>5, BoundsAssumption DEF Holding, Registered, Agent
  <2>. QED
    BY <2>1, FS_EmptySet DEF QueueDepthExact
<1>7. OwnTasks /\ AgentsFit /\ StagesInStep
  BY DEF OwnTasks, AgentsFit, StagesInStep, NoTaskYet
<1>. QED
  BY <1>4, <1>5, <1>6, <1>7 DEF RunsInv

\* RunsInv is an invariant.
LEMMA RunsAlways == RunnerSpec => []RunsInv
<1>1. RunsInv /\ [RunnerNext]_allVars => AssignmentSound'
  BY RunsAreClients, NextAssignment DEF RunsInv, RunnerTypeOK
<1>2. RunsInv /\ [RunnerNext]_allVars => RunsInv'
  BY <1>1, RunTypesKept, ExactKept, OwnTasksKept, AgentsFitKept, StagesKept DEF RunsInv
<1>. QED
  BY <1>2, RunsInit, PTL DEF RunnerSpec

\* For any number of runs over any seeded fleet, the agent that frames a prompt has the
\* skill the task requires, also when runs that fall back take each other's worker
\* (runner.py 184-207).
THEOREM PromptsFit == RunnerSpec => []RunnerInv
<1>1. RunsInv => RunnerInv
  BY DEF RunsInv, AgentsFit, RunnerInv, PromptFitsTask
<1>. QED
  BY <1>1, RunsAlways, PTL

\* However the runs interleave with balance(), heartbeats, spawning and the reaper, an
\* agent's queue_depth is the number of tasks it holds (runner.py 184-195, 232-244;
\* engine.py 177, 190, 305-307).
THEOREM DepthsAreExact == RunnerSpec => []QueueDepthExact
<1>1. RunsInv => QueueDepthExact
  BY DEF RunsInv
<1>. QED
  BY <1>1, RunsAlways, PTL

\* A run that published completed or failed has a task closed that way and for good, and
\* an answer is in memory only if it completed (runner.py 7-9).
THEOREM PublishedStagesAreTrue == RunnerSpec => []StagesAreTrue
<1>1. RunsInv => StagesAreTrue
  BY DEF RunsInv, OwnTasks, NoTaskYet, StatusAt, StagesInStep, StagesAreTrue
<1>. QED
  BY <1>1, RunsAlways, PTL

\* Whatever the runs do is what clients of the orchestrator do, so what holds of every
\* step of it holds under the runs too.
THEOREM RunsUseTheOrchestrator == RunnerSpec => [][Next]_vars
<1>1. RunsInv /\ [RunnerNext]_allVars => [Next]_vars
  BY RunsAreClients
<1>. QED
  BY <1>1, RunsAlways, PTL DEF RunnerSpec

-----------------------------------------------------------------------------
(* The board.                                                              *)

\* Before any task there is nothing on the board but workers.
LEMMA BoardStarts ==
    ASSUME TypeOK, nTasks = 0, needs = [t \in Task |-> {}]
    PROVE  Board!BoardInit
<1>1. Submitted = {}
  BY DEF Submitted
<1>2. Registered \subseteq Agent /\ Live \subseteq Registered
  BY Ranges DEF Live
<1>3. HolderOf = [t \in Task |-> NoAgent] /\ ClosedTasks = {}
  BY <1>1 DEF HolderOf, ClosedTasks
<1>4. skills \in [Agent -> SUBSET Skills]
  BY DEF TypeOK
<1>. QED
  BY <1>1, <1>2, <1>3, <1>4 DEF Board!BoardInit

\* A step that leaves the tasks alone leaves their half of the board alone.
LEMMA SameTasks ==
    ASSUME UNCHANGED taskVars
    PROVE  UNCHANGED <<Submitted, needs, HolderOf, ClosedTasks>>
BY DEF taskVars, Submitted, HolderOf, ClosedTasks

\* An agent that is registered or spawned joins.
LEMMA AgentsJoin ==
    ASSUME TypeOK, NEW sk \in SUBSET Skills, AddAgent(sk), UNCHANGED taskVars
    PROVE  Board!BoardNext
<1>. DEFINE a == nAgents + 1
<1>. USE BoundsAssumption
<1>1. a \in Agent /\ a \notin Registered /\ nAgents \in Nat
  BY DEF TypeOK, AddAgent, Agent, Registered
<1>2. Registered' = Registered \cup {a}
  BY <1>1 DEF AddAgent, Registered
<1>3. Live' = Live \cup {a}
  <2>1. \A b \in Registered : b # a /\ b \in Agent
    BY <1>1, Ranges
  <2>2. status'[a] = "idle" /\ \A b \in Registered : status'[b] = status[b]
    BY <1>1, <2>1 DEF AddAgent, TypeOK
  <2>. QED
    BY <1>2, <2>2 DEF Live
<1>4. skills' = [skills EXCEPT ![a] = sk]
  BY DEF AddAgent
<1>5. Board!Join(a, sk)
  BY <1>1, <1>2, <1>3, <1>4, SameTasks DEF Board!Join, Board!tasks
<1>. QED
  BY <1>1, <1>5 DEF Board!BoardNext

\* A heartbeat that reports a termination, or the end of one, is a worker that leaves or
\* returns; any other shows nothing.
LEMMA HeartbeatsComeAndGo ==
    ASSUME TypeOK, NEW a \in Agent, NEW l, NEW s, Heartbeat(a, l, s)
    PROVE  [Board!BoardNext]_Board!board
<1>1. a \in Registered /\ UNCHANGED <<nAgents, skills, taskVars>>
  BY DEF Heartbeat
<1>2. Registered' = Registered
  BY <1>1 DEF Registered
<1>3. PICK x : status' = [status EXCEPT ![a] = x]
  BY DEF Heartbeat
<1>4. \A b \in Registered : b \in Agent
  BY Ranges
<1>5. CASE x = "terminated"
  <2>1. Live' = Live \ {a}
    BY <1>1, <1>2, <1>3, <1>4, <1>5 DEF Live, TypeOK
  <2>2. Board!Leave({a}) /\ {a} \in SUBSET Agent
    BY <1>1, <1>2, <2>1, SameTasks DEF Board!Leave, Board!tasks
  <2>. QED
    BY <2>2 DEF Board!BoardNext
<1>6. CASE x # "terminated"
  <2>1. Live' = Live \cup {a}
    BY <1>1, <1>2, <1>3, <1>4, <1>6 DEF Live, TypeOK
  <2>2. Board!Return(a)
    BY <1>1, <1>2, <2>1, SameTasks DEF Board!Return, Board!tasks
  <2>. QED
    BY <2>2 DEF Board!BoardNext
<1>. QED
  BY <1>5, <1>6

\* terminate_idle() makes workers leave.
LEMMA TheReapedLeave ==
    ASSUME TypeOK, TerminateIdle
    PROVE  Board!BoardNext
<1>1. UNCHANGED <<nAgents, skills, taskVars>>
  BY DEF TerminateIdle
<1>2. Registered' = Registered /\ Reaped \in SUBSET Agent
  BY <1>1, Ranges DEF Registered, Reaped, IdleExpired
<1>3. Live' = Live \ Reaped
  <2>1. \A b \in Registered : b \in Agent
    BY Ranges
  <2>2. \A b \in Registered : status'[b] = IF b \in Reaped THEN "terminated" ELSE status[b]
    BY <2>1 DEF TerminateIdle
  <2>. QED
    BY <1>2, <2>2 DEF Live
<1>4. Board!Leave(Reaped)
  BY <1>1, <1>2, <1>3, SameTasks DEF Board!Leave, Board!tasks
<1>. QED
  BY <1>2, <1>4 DEF Board!BoardNext

\* A step that leaves the agents alone, or only marks a live one as running.
LEMMA SameWorkers ==
    ASSUME TypeOK, UNCHANGED <<nAgents, skills>>,
           \/ UNCHANGED status
           \/ \E a \in Live : status' = [status EXCEPT ![a] = "running"]
    PROVE  UNCHANGED <<Registered, Live, skills>>
<1>1. Registered' = Registered /\ \A b \in Registered : b \in Agent
  BY Ranges DEF Registered
<1>2. Live' = Live
  BY <1>1 DEF Live, TypeOK
<1>. QED
  BY <1>1, <1>2

\* A new task is posted.
LEMMA NewTasksArePosted ==
    ASSUME TypeOK, ~ResubmitIds, NEW t \in Task, NEW req \in SUBSET Skills, NEW p, Submit(t, req, p)
    PROVE  Board!BoardNext
<1>1. t = nTasks + 1 /\ nTasks \in Nat /\ nTasks' = t
  BY BoundsAssumption DEF Submit, AtLeast, TypeOK
<1>2. t \notin Submitted /\ Submitted' = Submitted \cup {t} /\ \A u \in Submitted : u \in Task /\ u # t
  BY <1>1, Ranges DEF Submitted
<1>3. /\ taskStatus' = [taskStatus EXCEPT ![t] = "queued"]
      /\ needs' = [needs EXCEPT ![t] = req]
      /\ assignee' = [assignee EXCEPT ![t] = NoAgent]
      /\ UNCHANGED agentVars
  BY DEF Submit
<1>4. \A u \in Task : /\ u # t => taskStatus'[u] = taskStatus[u] /\ assignee'[u] = assignee[u]
                      /\ taskStatus'[t] = "queued"
  BY <1>3 DEF TypeOK
<1>5. HolderOf' = HolderOf
  BY <1>2, <1>4 DEF HolderOf
<1>6. ClosedTasks' = ClosedTasks
  BY <1>2, <1>4 DEF ClosedTasks
<1>7. UNCHANGED <<Registered, Live, skills>>
  BY <1>3, SameWorkers DEF agentVars
<1>8. Board!Post(t, req)
  BY <1>2, <1>3, <1>5, <1>6, <1>7 DEF Board!Post, Board!workers
<1>. QED
  BY <1>8 DEF Board!BoardNext

\* assign() gives an open task to an agent that is able and not terminated.
LEMMA AssignedTasksAreTaken ==
    ASSUME TypeOK, NEW t \in Task, Assign(t)
    PROVE  Board!BoardNext
<1>1. PICK a \in Agent :
          /\ IsBest(a, t)
          /\ taskStatus' = [taskStatus EXCEPT ![t] = "assigned"]
          /\ assignee' = [assignee EXCEPT ![t] = a]
          /\ MarkRunning(a)
  BY DEF Assign
<1>2. t \in Submitted /\ taskStatus[t] = "queued" /\ UNCHANGED <<nAgents, skills, nTasks, needs>>
  BY DEF Assign, Assignable
<1>3. a \in Live /\ Capable(a, t)
  BY <1>1, ScoreImpliesCapable DEF IsBest, Eligible, ScoreNow
<1>4. UNCHANGED <<Registered, Live, skills>>
  BY <1>1, <1>2, <1>3, SameWorkers DEF MarkRunning
<1>5. Submitted' = Submitted
  BY <1>2 DEF Submitted
<1>6. \A u \in Task : /\ u # t => taskStatus'[u] = taskStatus[u] /\ assignee'[u] = assignee[u]
                      /\ taskStatus'[t] = "assigned" /\ assignee'[t] = a
  BY <1>1 DEF TypeOK
<1>7. HolderOf' = [HolderOf EXCEPT ![t] = a] /\ HolderOf[t] = NoAgent
  BY <1>2, <1>5, <1>6 DEF HolderOf
<1>8. ClosedTasks' = ClosedTasks /\ t \notin ClosedTasks
  BY <1>2, <1>5, <1>6, Ranges DEF ClosedTasks
<1>9. Board!Take(t, a)
  BY <1>2, <1>3, <1>4, <1>5, <1>7, <1>8, Zenon
     DEF Board!Take, Board!Open, Board!Held, Board!Fits, Board!workers, Capable
<1>. QED
  BY <1>9 DEF Board!BoardNext

\* complete() and fail() close an open task, and show nothing of one that was closed.
LEMMA ClosedTasksAreClosed ==
    ASSUME TypeOK, NEW t \in Task, NEW o \in {"completed", "failed"}, Close(t, o)
    PROVE  [Board!BoardNext]_Board!board
<1>1. /\ t \in Submitted /\ taskStatus' = [taskStatus EXCEPT ![t] = o]
      /\ UNCHANGED <<nAgents, status, skills, nTasks, needs, assignee>>
  BY DEF Close
<1>2. UNCHANGED <<Registered, Live, skills>> /\ Submitted' = Submitted
  BY <1>1, SameWorkers DEF Submitted
<1>3. taskStatus'[t] = o /\ \A u \in Task : u # t => taskStatus'[u] = taskStatus[u]
  BY <1>1 DEF TypeOK
<1>4. HolderOf' = [HolderOf EXCEPT ![t] = NoAgent]
  BY <1>1, <1>2, <1>3 DEF HolderOf
<1>5. ClosedTasks' = ClosedTasks \cup {t}
  BY <1>1, <1>2, <1>3, Ranges DEF ClosedTasks
<1>6. CASE t \in ClosedTasks
  <2>1. ClosedTasks' = ClosedTasks
    BY <1>5, <1>6
  <2>2. HolderOf' = HolderOf
    BY <1>4, <1>6 DEF HolderOf, ClosedTasks
  <2>. QED
    BY <1>1, <1>2, <2>1, <2>2 DEF Board!board, Board!workers, Board!tasks
<1>7. CASE t \notin ClosedTasks
  <2>1. Board!Close(t)
    BY <1>1, <1>2, <1>4, <1>5, <1>7, Zenon DEF Board!Close, Board!Open, Board!workers
  <2>. QED
    BY <2>1 DEF Board!BoardNext
<1>. QED
  BY <1>6, <1>7

\* One move of balance() puts at most one task on another agent.
LEMMA OneMoveOneTask ==
    ASSUME TypeOK, NEW r \in MoveState, NEW s \in MoveOne(r)
    PROVE  \E x : \A t \in Task : t # x => s.assignee[t] = r.assignee[t]
<1>1. CASE s = r
  BY <1>1
<1>2. ASSUME NEW m, s = Moved(r, m) PROVE \A t \in Task : t # m[2] => s.assignee[t] = r.assignee[t]
  BY <1>2 DEF Moved, MoveState
<1>. QED
  BY <1>1, <1>2, MoveStep

\* Any set of some of three things has at most three.
LEMMA AtMostThree ==
    ASSUME NEW x, NEW y, NEW z, NEW S, S \subseteq {x, y, z}
    PROVE  IsFiniteSet(S) /\ Cardinality(S) <= 3
<1>1. IsFiniteSet({x}) /\ Cardinality({x}) = 1
  BY FS_Singleton
<1>2. IsFiniteSet({x, y}) /\ Cardinality({x, y}) \in {1, 2}
  <2>1. {x, y} = {x} \cup {y}
    OBVIOUS
  <2>. QED
    BY <1>1, <2>1, FS_AddElement
<1>3. IsFiniteSet({x, y, z}) /\ Cardinality({x, y, z}) \in {1, 2, 3}
  <2>1. {x, y, z} = {x, y} \cup {z}
    OBVIOUS
  <2>. QED
    BY <1>2, <2>1, FS_AddElement
<1>4. IsFiniteSet(S) /\ Cardinality(S) <= Cardinality({x, y, z}) /\ Cardinality(S) \in Nat
  BY <1>3, FS_Subset, FS_CardinalityType
<1>. QED
  BY <1>3, <1>4

\* The tasks balance() puts on another agent are at most three.
LEMMA BalanceMovesThree ==
    ASSUME TypeOK, Balance, NEW S \in SUBSET Task, \A t \in S : assignee'[t] # assignee[t]
    PROVE  Cardinality(S) <= 3
<1>1. PICK r1 \in MoveOne(BalanceStart) : \E r2 \in MoveOne(r1) : \E r3 \in MoveOne(r2) :
          assignee' = r3.assignee
  BY DEF Balance
<1>2. PICK r2 \in MoveOne(r1) : \E r3 \in MoveOne(r2) : assignee' = r3.assignee
  BY <1>1
<1>3. PICK r3 \in MoveOne(r2) : assignee' = r3.assignee
  BY <1>2
<1>4. BalanceStart \in MoveState /\ r1 \in MoveState /\ r2 \in MoveState
  BY StartType, MoveType
<1>5. PICK x : \A t \in Task : t # x => r1.assignee[t] = BalanceStart.assignee[t]
  BY <1>4, OneMoveOneTask
<1>6. PICK y : \A t \in Task : t # y => r2.assignee[t] = r1.assignee[t]
  BY <1>4, OneMoveOneTask
<1>7. PICK z : \A t \in Task : t # z => r3.assignee[t] = r2.assignee[t]
  BY <1>4, OneMoveOneTask
<1>8. BalanceStart.assignee = assignee
  BY DEF BalanceStart
<1>9. S \subseteq {x, y, z}
  BY <1>3, <1>5, <1>6, <1>7, <1>8
<1>. QED
  BY <1>9, AtMostThree

\* balance() passes tasks on, to agents that are able and not terminated.
LEMMA BalancePassesOn ==
    ASSUME TypeOK, AssignmentSound, Balance
    PROVE  Board!BoardNext
<1>. DEFINE moved == {t \in Task : t \in Submitted /\ taskStatus[t] = "assigned" /\ assignee'[t] # assignee[t]}
<1>1. UNCHANGED <<nAgents, status, skills, nTasks, taskStatus, needs>>
  BY DEF Balance
<1>2. UNCHANGED <<Registered, Live, skills>> /\ Submitted' = Submitted
  BY <1>1, SameWorkers DEF Submitted
<1>3. ClosedTasks' = ClosedTasks
  BY <1>1, <1>2 DEF ClosedTasks
<1>4. assignee' \in [Task -> Agent \cup {NoAgent}]
  BY NextType DEF Next, TypeOK
<1>5. HolderOf' = [t \in Task |-> IF t \in Submitted /\ taskStatus[t] = "assigned"
                                  THEN assignee'[t] ELSE NoAgent]
  BY <1>1, <1>2 DEF HolderOf
<1>6. HolderOf' \in [Task -> Agent \cup {NoAgent}]
  BY <1>4, <1>5
<1>7. \A t \in Task \ moved : HolderOf'[t] = HolderOf[t]
  BY <1>5 DEF HolderOf
<1>8. ASSUME NEW t \in moved PROVE Board!Held(t) /\ Board!Fits(t, HolderOf'[t])
  <2>1. assignee[t] \in Agent /\ assignee[t] # NoAgent
    BY Ranges, BoundsAssumption DEF AssignmentSound, Agent, NoAgent
  <2>2. HolderOf[t] = assignee[t] /\ HolderOf'[t] = assignee'[t] /\ t \notin ClosedTasks
    BY <1>5 DEF HolderOf, ClosedTasks
  <2>3. assignee'[t] \in Live /\ needs[t] \subseteq skills[assignee'[t]]
    BY BalanceSound DEF Capable
  <2>. QED
    BY <2>1, <2>2, <2>3 DEF Board!Held, Board!Open, Board!Fits
<1>9. moved \in SUBSET Task /\ Cardinality(moved) <= 3
  BY BalanceMovesThree
<1>. HIDE DEF moved
<1>10. Board!PassOn(moved)
  <2>1. UNCHANGED <<Board!workers, Submitted, needs, ClosedTasks>>
    BY <1>1, <1>2, <1>3 DEF Board!workers
  <2>2. \A t \in moved : Board!Held(t) /\ Board!Fits(t, HolderOf'[t])
    BY <1>8
  <2>. QED
    BY <1>6, <1>7, <1>9, <2>1, <2>2, Zenon DEF Board!PassOn
<1>. QED
  BY <1>9, <1>10 DEF Board!BoardNext, UpToThree

\* A step that leaves agents and tasks alone shows nothing.
LEMMA NothingShows ==
    ASSUME TypeOK, UNCHANGED <<nAgents, status, skills, taskVars>>
    PROVE  UNCHANGED Board!board
<1>1. UNCHANGED <<Registered, Live, skills>>
  BY SameWorkers
<1>. QED
  BY <1>1, SameTasks DEF Board!board, Board!workers, Board!tasks

\* Every operation is a step of the board or shows nothing.
LEMMA BoardStep ==
    ~ResubmitIds /\ TypeOK /\ AssignmentSound /\ [Next]_vars => [Board!BoardNext]_Board!board
<1>. SUFFICES ASSUME ~ResubmitIds, TypeOK, AssignmentSound, [Next]_vars
              PROVE  [Board!BoardNext]_Board!board
  OBVIOUS
<1>1. ASSUME NEW sk \in SUBSET Skills, RegisterAgent(sk) PROVE Board!BoardNext
  BY <1>1, AgentsJoin DEF RegisterAgent
<1>2. CASE SpawnIfNeeded
  BY <1>2, AgentsJoin DEF SpawnIfNeeded
<1>3. ASSUME NEW t \in Task, Complete(t) \/ Fail(t) PROVE [Board!BoardNext]_Board!board
  BY <1>3, ClosedTasksAreClosed DEF Complete, Fail
<1>4. CASE Tick \/ UNCHANGED vars
  BY <1>4, NothingShows DEF Tick, vars, agentVars
<1>. QED
  BY <1>1, <1>2, <1>3, <1>4, HeartbeatsComeAndGo, NewTasksArePosted, AssignedTasksAreTaken,
     TheReapedLeave, BalancePassesOn DEF Next

\* The Meta-Orchestrator keeps what its board promises, whatever the pool, the skills, the
\* loads and the settings, as long as no caller submits an id twice (engine.py 145-211,
\* 258-312).
THEOREM OrchestratorImplementsBoard == ~ResubmitIds => (Spec => ImplementsBoard)
<1>. SUFFICES ASSUME ~ResubmitIds PROVE Spec => ImplementsBoard
  OBVIOUS
<1>1. Init => Board!BoardInit
  BY InitType, BoardStarts DEF Init
<1>2. TypeOK /\ AssignmentSound /\ [Next]_vars => [Board!BoardNext]_Board!board
  BY BoardStep
<1>. QED
  BY <1>1, <1>2, TypeCorrect, AssignmentsAreSound, PTL DEF Spec, ImplementsBoard, Board!BoardSpec

\* So does one that any number of agent runs and the other callers of the fleet use
\* (runner.py 116-316).
THEOREM RunsImplementBoard == ~ResubmitIds => (RunnerSpec => ImplementsBoard)
<1>. SUFFICES ASSUME ~ResubmitIds PROVE RunnerSpec => ImplementsBoard
  OBVIOUS
<1>1. RunnerInit => Board!BoardInit
  <2>1. ASSUME RunnerInit PROVE TypeOK /\ nTasks = 0 /\ needs = [t \in Task |-> {}]
    BY <2>1, RunsInit DEF RunnerInit, RunsInv, RunnerTypeOK
  <2>. QED
    BY <2>1, BoardStarts
<1>2. RunsInv /\ [RunnerNext]_allVars => [Board!BoardNext]_Board!board
  BY BoardStep, RunsAreClients DEF RunsInv, RunnerTypeOK
<1>. QED
  BY <1>1, <1>2, RunsAlways, PTL DEF RunnerSpec, ImplementsBoard, Board!BoardSpec
=============================================================================
