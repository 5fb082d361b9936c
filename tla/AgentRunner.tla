------------------------------ MODULE AgentRunner ------------------------------
(***************************************************************************)
(* Agent runs (omni/agents/runner.py) on top of the Meta-Orchestrator.     *)
(* Every request runs _setup() and then run() or run_stream() on a thread  *)
(* of its own.  It takes a subsystem's lock for one call at a time, so     *)
(* other runs, the fleet scheduler's balance(), heartbeats and the pool    *)
(* operations interleave between any two of its calls.  The orchestrator   *)
(* starts with the seeded fleet (omni/agents/fleet_seed.py).               *)
(***************************************************************************)
EXTENDS Orchestrator, Sequences

CONSTANTS
    Runs,        \* the requests
    SeedRoster,  \* the skills of the seeded agents, in order of registration
    Routable,    \* what classify_skills() may return
    Chat,        \* the skill a fallback worker gets when none is required
    CallsGetLost \* may a model call end in neither an answer nor an LLM error?

ASSUME RunnerAssumption ==
    /\ SeedRoster \in Seq(SUBSET Skills) /\ Len(SeedRoster) <= MaxAgentIds
    /\ Routable \subseteq Skills /\ Chat \in Skills
    /\ 0 \in Priorities              \* TaskSpec's default, which every run submits with
    /\ CallsGetLost \in BOOLEAN

VARIABLES
    pc,      \* where each run stands
    task,    \* its TaskSpec id, 0 before submit()
    agent,   \* _Setup.agent_id, NoAgent until known
    need,    \* required_skills, at most one
    stage,   \* the last stage it published on the bus
    stored   \* what it wrote to the versioned memory

runVars == <<pc, task, agent, need, stage, stored>>
allVars == <<vars, runVars>>

Stages == {"none", "started", "denied", "policy_evaluated", "memory_stored",
           "task_assigned", "thinking", "failed", "completed"}
Ended  == {"denied", "failed", "completed"}
Steps  == {"new", "evaluate", "remember", "submit", "assign", "fallback", "reassign",
           "announce", "think", "call", "failing", "say_failed", "record",
           "completing", "say_completed", "lost"} \cup Ended

RunnerTypeOK ==
    /\ TypeOK
    /\ pc \in [Runs -> Steps]
    /\ task \in [Runs -> Task \cup {0}]
    /\ agent \in [Runs -> Agent \cup {NoAgent}]
    /\ need \in [Runs -> SUBSET Routable]
    /\ stage \in [Runs -> Stages]
    /\ stored \in [Runs -> SUBSET {"prompt", "answer"}]

\* seed_fleet() on an empty orchestrator.
RunnerInit ==
    /\ now = 0
    /\ nAgents = Len(SeedRoster)
    /\ status = [a \in Agent |-> "idle"]
    /\ skills = [a \in Agent |-> IF a <= Len(SeedRoster) THEN SeedRoster[a] ELSE {}]
    /\ load = [a \in Agent |-> 0]
    /\ depth = [a \in Agent |-> 0]
    /\ hb = [a \in Agent |-> 0]
    /\ nTasks = 0
    /\ taskStatus = [t \in Task |-> "queued"]
    /\ needs = [t \in Task |-> {}]
    /\ prio = [t \in Task |-> 0]
    /\ assignee = [t \in Task |-> NoAgent]
    /\ pc = [r \in Runs |-> "new"]
    /\ task = [r \in Runs |-> 0]
    /\ agent = [r \in Runs |-> NoAgent]
    /\ need = [r \in Runs |-> {}]
    /\ stage = [r \in Runs |-> "none"]
    /\ stored = [r \in Runs |-> {}]

At(r, here)      == pc[r] = here
Goto(r, there)   == pc' = [pc EXCEPT ![r] = there]
Publish(r, what) == stage' = [stage EXCEPT ![r] = what]

-----------------------------------------------------------------------------
(* _setup()                                                                *)

Start(r) ==
    /\ At(r, "new") /\ Goto(r, "evaluate")
    /\ Publish(r, "started")
    /\ UNCHANGED <<vars, task, agent, need, stored>>

\* The policy engine may allow or deny: its rules, limits and lockdown are not
\* under the run's control.
Evaluate(r) ==
    /\ At(r, "evaluate")
    /\ \/ Goto(r, "remember") /\ Publish(r, "policy_evaluated")
       \/ Goto(r, "denied") /\ Publish(r, "denied")
    /\ UNCHANGED <<vars, task, agent, need, stored>>

Remember(r) ==
    /\ At(r, "remember") /\ Goto(r, "submit")
    /\ stored' = [stored EXCEPT ![r] = @ \cup {"prompt"}]
    /\ Publish(r, "memory_stored")
    /\ UNCHANGED <<vars, task, agent, need>>

\* classify_skills(prompt)[:1] requires one routable skill or none.
SubmitTask(r) ==
    /\ At(r, "submit") /\ Goto(r, "assign")
    /\ \E req \in {{}} \cup {{s} : s \in Routable} :
        /\ Submit(nTasks + 1, req, 0)
        /\ need' = [need EXCEPT ![r] = req]
    /\ task' = [task EXCEPT ![r] = nTasks + 1]
    /\ UNCHANGED <<agent, stage, stored>>

\* The first assign() and get_agent().
FirstAssign(r) ==
    /\ At(r, "assign")
    /\ \/ /\ Assign(task[r])
          /\ agent' = [agent EXCEPT ![r] = assignee'[task[r]]]
          /\ Goto(r, "announce")
       \/ /\ taskStatus[task[r]] = "queued" /\ Eligible(task[r]) = {}
          /\ Goto(r, "fallback")
          /\ UNCHANGED <<vars, agent>>
    /\ UNCHANGED <<task, need, stage, stored>>

NeedlessSkills(r) == {Chat}                                           \* mutant
FallbackSkills(r) == IF need[r] = {} THEN {Chat} ELSE need[r]

\* Nobody could take the task: a disposable worker is registered, with no look
\* at max_agents.
Fallback(r) ==
    /\ At(r, "fallback") /\ Goto(r, "reassign")
    /\ RegisterAgent(FallbackSkills(r))
    /\ agent' = [agent EXCEPT ![r] = nAgents + 1]
    /\ UNCHANGED <<task, need, stage, stored>>

\* The second assign(), whose result is not looked at.
SecondAssign(r) ==
    /\ At(r, "reassign") /\ Goto(r, "announce")
    /\ \/ Assign(task[r])
       \/ (taskStatus[task[r]] # "queued" \/ Eligible(task[r]) = {}) /\ UNCHANGED vars
    /\ UNCHANGED <<task, agent, need, stage, stored>>

Announce(r) ==
    /\ At(r, "announce") /\ Goto(r, "think")
    /\ Publish(r, "task_assigned")
    /\ UNCHANGED <<vars, task, agent, need, stored>>

-----------------------------------------------------------------------------
(* run() and run_stream(): they differ in how the model call may get lost, *)
(* by an exception that is neither LLMNotConfigured nor LLMError (a read   *)
(* timeout), or by the client leaving at a yield inside the try.           *)

Think(r) ==
    /\ At(r, "think") /\ Goto(r, "call")
    /\ Publish(r, "thinking")
    /\ UNCHANGED <<vars, task, agent, need, stored>>

CallReturns(r) ==
    /\ At(r, "call")
    /\ Goto(r, "record") \/ Goto(r, "failing")
    /\ UNCHANGED <<vars, task, agent, need, stage, stored>>

CallLost(r) ==
    /\ CallsGetLost
    /\ At(r, "call") /\ Goto(r, "lost")
    /\ UNCHANGED <<vars, task, agent, need, stage, stored>>

FailUnrecorded(r) ==                                                  \* mutant
    /\ At(r, "failing") /\ Goto(r, "say_failed")
    /\ UNCHANGED <<vars, task, agent, need, stage, stored>>

FailTask(r) ==
    /\ At(r, "failing") /\ Goto(r, "say_failed")
    /\ Fail(task[r])
    /\ UNCHANGED <<task, agent, need, stage, stored>>

SayFailed(r) ==
    /\ At(r, "say_failed") /\ Goto(r, "failed")
    /\ Publish(r, "failed")
    /\ UNCHANGED <<vars, task, agent, need, stored>>

RecordAnswer(r) ==
    /\ At(r, "record") /\ Goto(r, "completing")
    /\ stored' = [stored EXCEPT ![r] = @ \cup {"answer"}]
    /\ UNCHANGED <<vars, task, agent, need, stage>>

PublishFirst(r) ==                                                    \* mutant
    /\ At(r, "completing") /\ Goto(r, "say_completed")
    /\ Publish(r, "completed")
    /\ UNCHANGED <<vars, task, agent, need, stored>>

CompleteTask(r) ==
    /\ At(r, "completing") /\ Goto(r, "say_completed")
    /\ Complete(task[r])
    /\ UNCHANGED <<task, agent, need, stage, stored>>

SayCompleted(r) ==
    /\ At(r, "say_completed") /\ Goto(r, "completed")
    /\ Publish(r, "completed")
    /\ UNCHANGED <<vars, task, agent, need, stored>>

RunStep(r) ==
    \/ Evaluate(r) \/ Remember(r) \/ SubmitTask(r) \/ FirstAssign(r) \/ Fallback(r)
    \/ SecondAssign(r) \/ Announce(r) \/ Think(r) \/ CallReturns(r) \/ FailTask(r)
    \/ SayFailed(r) \/ RecordAnswer(r) \/ CompleteTask(r) \/ SayCompleted(r)

\* FleetScheduler.tick(), the HTTP pool endpoints, heartbeats and time.  A tick
\* stands for the minutes after which an idle agent expires (engine.py 94): no
\* thread spends them between registering its worker and the next call.
Environment ==
    /\ \/ \E a \in Agent, l \in Optional(ReportedLoads), s \in Optional(ReportedStatuses) :
             Heartbeat(a, l, s)
       \/ Balance
       \/ SpawnIfNeeded
       \/ TerminateIdle
       \/ Tick /\ \A r \in Runs : ~At(r, "reassign")
    /\ UNCHANGED runVars

RunnerNext == (\E r \in Runs : Start(r) \/ RunStep(r) \/ CallLost(r)) \/ Environment

RunnerSpec == RunnerInit /\ [][RunnerNext]_allVars

\* A request that started runs on a worker thread and no lock is ever held
\* across a wait; the model call has a socket timeout.
FairRunnerSpec == RunnerSpec /\ \A r \in Runs : WF_allVars(RunStep(r))

-----------------------------------------------------------------------------
(* Properties.                                                             *)

\* Each run closes its own task at most once, so here queue_depth is exactly
\* the work an agent holds, through every interleaving of the runs with
\* balance(): the scores assign() compares are never off (runner.py 184-195,
\* 232-244; engine.py 177, 190, 305-307).
QueueDepthExact == \A a \in Registered : depth[a] = Cardinality(Holding(a))

\* "Every published stage marks a real thing that just happened" (7-9): a run
\* that published completed or failed has a task closed that way and for good,
\* whatever other runs and the pool did meanwhile, and an answer is in memory
\* only if it completed.
StagesAreTrue ==
    \A r \in Runs :
        /\ stage[r] = "memory_stored" => "prompt" \in stored[r]
        /\ stage[r] = "completed" => /\ taskStatus[task[r]] = "completed"
                                     /\ "answer" \in stored[r]
        /\ stage[r] = "failed" => /\ taskStatus[task[r]] = "failed"
                                  /\ "answer" \notin stored[r]

\* The agent whose skills frame the prompt has the skill the task requires, even
\* when two runs fall back at once and take each other's worker (185-207).
PromptFitsTask ==
    \A r \in Runs : pc[r] \in {"think", "call"} =>
        /\ agent[r] \in Registered
        /\ need[r] \subseteq skills[agent[r]]

\* Runs, agents and tasks are well typed, and the prompt fits the task whoever took
\* the worker that was registered for it (runner.py 184-207).
RunnerInv == RunnerTypeOK /\ PromptFitsTask

Closed(r) == task[r] # 0 /\ taskStatus[task[r]] \in {"completed", "failed"}

\* Every task a run submits is closed in the end, so that its agent is released
\* and report() counts it as completed or failed (engine.py 181-211), unless its
\* call of the model was lost.
TaskCloses == \A r \in Runs : task[r] # 0 ~> Closed(r) \/ At(r, "lost")

=============================================================================
