------------------------------- MODULE Simulation ------------------------------
(***************************************************************************)
(* Simulate before you touch: DryRunExecutor.run() of                      *)
(* omni/simulation/runner.py, one step of the plan at a time, and          *)
(* SimulationSandbox of omni/simulation/engine.py with its approvals.      *)
(* They share nothing, so that a behaviour shows one or the other; each    *)
(* holds its lock, so that there is nothing to interleave.                 *)
(*                                                                         *)
(* Risks and confidences are in thousandths, to which the code rounds.     *)
(***************************************************************************)
EXTENDS Integers, Sequences, SequencesExt

CONSTANTS
    Effects,            \* that a step may declare
    Plans,              \* non-empty sequences of steps
    Allowed,            \* the effects on the allow-list
    Limits,             \* what max_steps, timeout_s and max_effects may be
    Sizes,              \* of the simulated actions
    Approvers,
    MaxSimulations      \* bound

\* Simulated durations and sizes are not negative.
ASSUME SimulationAssumption ==
    /\ Plans \subseteq Seq([duration : Nat, error : BOOLEAN, effects : Seq(Effects)]) \ {<<>>}
    /\ Allowed \subseteq Effects
    /\ Limits \subseteq [steps : Nat, time : Nat, effects : Nat]
    /\ Sizes \subseteq Nat

VARIABLES
    topic,      \* "dryrun" or "sandbox", for good
    plan, limits,       \* what run() was called with
    at,         \* the step the loop is at
    clock,      \* simulated time
    log,        \* what the backend was told to apply, by step
    rejected,   \* effects that are not allowed
    exceeded, timedOut,         \* budget_exceeded, timeout_hit
    results,    \* the steps' results so far
    verdict,    \* "" until run() returns
    sims        \* the sandbox's results

runVars == <<plan, limits, at, clock, log, rejected, exceeded, timedOut, results, verdict>>
simulationVars == <<topic, runVars, sims>>

-----------------------------------------------------------------------------
(* run()                                                                   *)

Step      == plan[at]
Running   == topic = "dryrun" /\ verdict = "" /\ at <= Len(plan)
InLimit   == at <= limits.steps
InTime    == clock + Step.duration <= limits.time
BadOf(s)  == ToSet(s.effects) \ Allowed

OneMore   == limits.effects + 1 - Len(log)                                   \* mutant
Room      == limits.effects - Len(log)

Result(status, effects) == [status |-> status, applied |-> effects]
Skipped == Result("skipped", <<>>)

\* Telling the backend of the first n effects of this step.
Apply(n) == log' = log \o [i \in 1..n |-> [step |-> at, effect |-> Step.effects[i]]]

BeyondSteps ==
    /\ Running /\ ~InLimit
    /\ exceeded' = TRUE
    /\ results' = Append(results, Skipped)
    /\ at' = at + 1
    /\ UNCHANGED <<topic, plan, limits, clock, log, rejected, timedOut, verdict, sims>>

\* The loop ends: the steps after this one get no result.
BeyondTime ==
    /\ Running /\ InLimit /\ ~InTime
    /\ timedOut' = TRUE
    /\ results' = Append(results, Skipped)
    /\ at' = Len(plan) + 1
    /\ UNCHANGED <<topic, plan, limits, clock, log, rejected, exceeded, verdict, sims>>

\* A declared error, or an effect that is not allowed: nothing of the step is applied.
FailStep ==
    /\ Running /\ InLimit /\ InTime
    /\ Step.error \/ BadOf(Step) # {}
    /\ clock' = clock + Step.duration
    /\ rejected' = IF Step.error THEN rejected ELSE rejected \cup BadOf(Step)
    /\ results' = Append(results, Result("failed", <<>>))
    /\ at' = at + 1
    /\ UNCHANGED <<topic, plan, limits, log, exceeded, timedOut, verdict, sims>>

Sound == Running /\ InLimit /\ InTime /\ ~Step.error /\ BadOf(Step) = {}

ApplyWhole ==
    /\ Sound /\ Len(Step.effects) <= Room
    /\ clock' = clock + Step.duration
    /\ Apply(Len(Step.effects))
    /\ results' = Append(results, Result("ok", Step.effects))
    /\ at' = at + 1
    /\ UNCHANGED <<topic, plan, limits, rejected, exceeded, timedOut, verdict, sims>>

\* The budget runs out inside the step: what there was room for is applied, and
\* this step and the rest are skipped.
BeyondEffects ==
    /\ Sound /\ Len(Step.effects) > Room
    /\ clock' = clock + Step.duration
    /\ Apply(Room)
    /\ exceeded' = TRUE
    /\ results' = results \o [i \in 1 .. Len(plan) - at + 1 |-> Skipped]
    /\ at' = Len(plan) + 1
    /\ UNCHANGED <<topic, plan, limits, rejected, timedOut, verdict, sims>>

Status(i) == results[i].status
Failures  == {i \in DOMAIN results : Status(i) = "failed"}

TimeIgnored ==                                                               \* mutant
    IF Failures # {} \/ rejected # {} THEN "has_failures"
    ELSE IF exceeded THEN "budget_exceeded" ELSE "clean"
Verdict ==
    IF Failures # {} \/ rejected # {} THEN "has_failures"
    ELSE IF exceeded \/ timedOut THEN "budget_exceeded" ELSE "clean"

Return ==
    /\ topic = "dryrun" /\ verdict = "" /\ at > Len(plan)
    /\ verdict' = Verdict
    /\ UNCHANGED <<topic, plan, limits, at, clock, log, rejected, exceeded, timedOut, results, sims>>

-----------------------------------------------------------------------------
(* simulate() and approve()                                                *)

Model(base, blast, always) == [base |-> base, blast |-> blast, always |-> always]

\* base_risk in hundredths and blast_radius in tenths.
Domains ==
    [deploy         |-> Model(25, 10, FALSE), db_migration |-> Model(45, 14, FALSE),
     file_delete    |-> Model(20, 6, TRUE),   script_run   |-> Model(15, 5, FALSE),
     infra_change   |-> Model(35, 12, FALSE), refactor     |-> Model(20, 7, FALSE),
     payment        |-> Model(70, 16, TRUE),  email_campaign |-> Model(30, 10, FALSE)]

Threshold == 700

Capped(risk) == IF risk > 950 THEN 950 ELSE risk

Risk(model, params) ==
    LET sized    == Capped((model.base * model.blast * (6 + 4 * params.size)) \div 10)
        oneWay   == IF params.reversible THEN sized ELSE Capped(sized + 150)
    IN  IF params.sensitive THEN Capped(oneWay + 100) ELSE oneWay

Confidence(risk) == IF risk > 1000 THEN 0 ELSE 1000 - risk

Level(c) == IF c >= 850 THEN "low" ELSE IF c >= 700 THEN "medium"
            ELSE IF c >= 500 THEN "high" ELSE "critical"

AlwaysOnly(model, c)    == model.always                                      \* mutant
NeedsApproval(model, c) == model.always \/ c < Threshold

Params == [size : Sizes, reversible : BOOLEAN, sensitive : BOOLEAN]

Simulate(domain, params) ==
    /\ topic = "sandbox" /\ Len(sims) < MaxSimulations
    /\ LET model == Domains[domain]
           c     == Confidence(Risk(model, params))
           needs == NeedsApproval(model, c)
       IN  sims' = Append(sims, [domain |-> domain, params |-> params, confidence |-> c,
                                 level |-> Level(c), needs |-> needs, approver |-> "",
                                 plan |-> IF needs THEN "pause" ELSE "proceed"])
    /\ UNCHANGED <<topic, runVars>>

Approve(k, who) ==
    /\ sims[k].needs
    /\ sims' = [sims EXCEPT ![k].needs = FALSE, ![k].approver = who, ![k].plan = "approved"]
    /\ UNCHANGED <<topic, runVars>>

-----------------------------------------------------------------------------
SimulationInit ==
    /\ \/ topic = "dryrun" /\ plan \in Plans /\ limits \in Limits
       \/ topic = "sandbox" /\ plan = <<>> /\ limits = [steps |-> 0, time |-> 0, effects |-> 0]
    /\ at = 1 /\ clock = 0 /\ log = <<>> /\ rejected = {}
    /\ exceeded = FALSE /\ timedOut = FALSE
    /\ results = <<>> /\ verdict = "" /\ sims = <<>>

SimulationNext ==
    \/ BeyondSteps \/ BeyondTime \/ FailStep \/ ApplyWhole \/ BeyondEffects \/ Return
    \/ \E domain \in DOMAIN Domains, params \in Params : Simulate(domain, params)
    \/ \E k \in DOMAIN sims, who \in Approvers : Approve(k, who)

SimulationSpec == SimulationInit /\ [][SimulationNext]_simulationVars

-----------------------------------------------------------------------------
(* Properties.                                                             *)

SimulationTypeOK ==
    /\ topic \in {"dryrun", "sandbox"}
    /\ at \in 1 .. Len(plan) + 1
    /\ clock \in 0..limits.time
    /\ \A e \in ToSet(log) : e.step \in DOMAIN plan /\ e.effect \in Allowed
    /\ rejected \cap Allowed = {}
    /\ {exceeded, timedOut} \subseteq BOOLEAN
    /\ Len(results) <= Len(plan)
    /\ \A k \in DOMAIN sims : sims[k].confidence \in 50..1000

\* What the first n steps of p take, and how many effects they have.
DurationUpTo(p, n) == SumFunction([i \in 1..n |-> p[i].duration])
EffectsUpTo(p, n)  == SumFunction([i \in 1..n |-> Len(p[i].effects)])
CanFail(s) == s.error \/ BadOf(s) # {}

\* A run is "clean" exactly when the plan as a whole keeps to every budget and
\* none of its steps can fail (runner.py 235-240), and then all of it was applied
\* in order: the verdict is what a caller decides on, and the report may be short.
CleanMeansDone ==
    verdict # "" =>
        /\ (verdict = "clean") <=>
               /\ Len(plan) <= limits.steps
               /\ DurationUpTo(plan, Len(plan)) <= limits.time
               /\ EffectsUpTo(plan, Len(plan)) <= limits.effects
               /\ \A i \in DOMAIN plan : ~CanFail(plan[i])
        /\ verdict = "clean" =>
               /\ Len(log) = EffectsUpTo(plan, Len(plan))
               /\ \A i \in DOMAIN plan : \A k \in DOMAIN plan[i].effects :
                      log[EffectsUpTo(plan, i - 1) + k] = [step |-> i, effect |-> plan[i].effects[k]]

\* What l says the backend was told of step i: these effects, in one go and in this
\* order, and no other.
Told(l, i, effects) ==
    \E before \in 0..Len(l) :
        /\ \A j \in DOMAIN l : l[j].step = i <=> j - before \in DOMAIN effects
        /\ \A k \in DOMAIN effects : before + k \in DOMAIN l /\ l[before + k].effect = effects[k]

\* What the backend was told is within the budget and is what the report says: all
\* of a step that is ok, nothing of one that failed, and of a skipped one only
\* where the budget ran out inside it (runner.py 205-220).
LogFitsReport ==
    /\ Len(log) <= limits.effects
    /\ \A i \in DOMAIN results :
           \/ Status(i) # "skipped" /\ Told(log, i, results[i].applied)
           \/ Status(i) = "skipped" /\ (Told(log, i, <<>>) \/ (exceeded /\ Len(log) = limits.effects))
    /\ \A i, j \in DOMAIN log : i < j => log[i].step <= log[j].step

\* "If confidence < policy threshold OR the action is inherently irreversible,
\* the plan pauses and requests human approval" (engine.py 11): nothing goes on
\* without an approver above medium risk or in a domain that always asks, and what
\* went on is no riskier than anything of its domain that had to wait.
RiskyPlansWait ==
    \A k \in DOMAIN sims :
        /\ sims[k].approver = "" /\ sims[k].plan = "proceed" =>
               /\ sims[k].level \in {"low", "medium"} /\ ~Domains[sims[k].domain].always
               /\ \A l \in DOMAIN sims :
                      (/\ sims[l].domain = sims[k].domain
                       /\ sims[l].params.size <= sims[k].params.size
                       /\ sims[k].params.reversible => sims[l].params.reversible
                       /\ sims[l].params.sensitive => sims[k].params.sensitive)
                      => sims[l].plan = "proceed"
        /\ sims[k].needs <=> sims[k].plan = "pause"

\* Both halves are well typed, confidences stay above 0.05, and no risky plan goes
\* on without an approver (engine.py 125-180).
SimulationInv == SimulationTypeOK /\ RiskyPlansWait
=============================================================================
