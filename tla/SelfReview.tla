------------------------------- MODULE SelfReview ------------------------------
(***************************************************************************)
(* How the system reviews itself: the reflection cycles of                 *)
(* omni/agents/reflection.py, run by the scheduler and on demand, the      *)
(* proposals they hand to omni/evolution/engine.py, and the evaluations of *)
(* omni/learning that a proposal is measured against.  A cycle calls the   *)
(* policy engine, the bus, a language model, the memory and the evolution  *)
(* engine one after the other and holds nothing in between; ingest() lets  *)
(* go of its lock before it writes the store.                              *)
(*                                                                         *)
(* Metrics are integers in units of min_gain.                              *)
(***************************************************************************)
EXTENDS Integers, Sequences, FiniteSets, FiniteSetsExt, SequencesExt

CONSTANTS
    Metrics,            \* the fields of a MetricBundle
    Measures,           \* what a task or an experiment may measure
    Window,             \* how many evaluations the pipeline keeps
    Budgets,            \* bounds: how many cycles, evaluations, proposals and crashes
    MaxCycles, MaxEvals \* bounds: the largest of them

Cycles == 1..MaxCycles
Evals  == 1..MaxEvals       \* in the order of their completed_at

ASSUME SelfReviewAssumption ==
    /\ IsFiniteSet(Metrics) /\ Measures \subseteq [Metrics -> Int]
    /\ {MaxCycles, MaxEvals} \subseteq Nat
    /\ Window \in Nat \ {0}
    /\ \A b \in Budgets : b.cycles <= MaxCycles /\ b.evals <= MaxEvals

VARIABLES
    budget,     \* what this behaviour may use, for good
    persistent, \* was the pipeline built with a store? for good
    scheduler,  \* "off", "asleep" or "ticking"
    stage,      \* where each cycle stands
    kind,       \* "tick" or "request"
    events,     \* what each cycle published
    reports,    \* the cycles whose report is in memory
    proposals,  \* the engine's proposals, oldest first
    intake,     \* where each ingest() stands: "new", "store" or "over"
    measured,   \* what each evaluation measured
    window,     \* the pipeline's evaluations
    rows,       \* the store's
    crashes,    \* how often the process was restarted
    appended,   \* history: the evaluations in the order they were taken in
    acked       \* history: those whose ingest() returned

cycleVars == <<scheduler, stage, kind, events, reports>>
evalVars  == <<intake, measured, window, rows, appended, acked>>
settings  == <<budget, persistent>>
vars      == <<settings, cycleVars, proposals, evalVars, crashes>>

NoMeasure == [m \in Metrics |-> 0]

Init ==
    /\ budget \in Budgets /\ persistent \in BOOLEAN
    /\ scheduler = "off"
    /\ stage = [i \in Cycles |-> "new"]
    /\ kind = [i \in Cycles |-> "request"]
    /\ events = [i \in Cycles |-> <<>>]
    /\ reports = {} /\ proposals = <<>>
    /\ intake = [e \in Evals |-> "new"]
    /\ measured = [e \in Evals |-> NoMeasure]
    /\ window = <<>> /\ rows = {} /\ crashes = 0
    /\ appended = <<>> /\ acked = {}

-----------------------------------------------------------------------------
(* Reflection cycles.                                                      *)

StartScheduler ==
    /\ scheduler = "off" /\ scheduler' = "asleep"
    /\ UNCHANGED <<settings, stage, kind, events, reports, proposals, evalVars, crashes>>

\* The tick holds the event loop, so that cancel() finds the task asleep.
StopScheduler ==
    /\ scheduler = "asleep" /\ scheduler' = "off"
    /\ UNCHANGED <<settings, stage, kind, events, reports, proposals, evalVars, crashes>>

\* run_reflection_cycle() up to its first event; denied by the policy it leaves none.
Begin(i, who) ==
    /\ i <= budget.cycles /\ stage[i] = "new" /\ \A j \in 1 .. i - 1 : stage[j] # "new"
    /\ who = "tick" => scheduler = "asleep"
    /\ kind' = [kind EXCEPT ![i] = who]
    /\ \/ /\ stage' = [stage EXCEPT ![i] = "over"]
          /\ UNCHANGED <<scheduler, events>>
       \/ /\ stage' = [stage EXCEPT ![i] = "asking"]
          /\ events' = [events EXCEPT ![i] = <<"started">>]
          /\ scheduler' = IF who = "tick" THEN "ticking" ELSE scheduler
    /\ UNCHANGED <<settings, reports, proposals, evalVars, crashes>>

Answers == {"garbled", "no_signal", "bad_domain", "proposal"}

\* The model answers, or the call fails.
AskModel(i) ==
    /\ stage[i] = "asking"
    /\ \E a \in Answers \cup {"failed"} : stage' = [stage EXCEPT ![i] = a]
    /\ UNCHANGED <<settings, scheduler, kind, events, reports, proposals, evalVars, crashes>>

\* The report is written whatever was answered.  propose() is called after it and
\* raises for a domain it does not know.
GarbledEndsHere(answer) ==                                                   \* mutant
    CASE answer = "garbled"    -> "over"
      [] answer = "no_signal"  -> "quiet"
      [] answer = "bad_domain" -> "failed"
      [] answer = "proposal"   -> "proposing"
AfterReport(answer) ==
    CASE answer = "garbled"    -> "failed"
      [] answer = "no_signal"  -> "quiet"
      [] answer = "bad_domain" -> "failed"
      [] answer = "proposal"   -> "proposing"

WriteReport(i) ==
    /\ stage[i] \in Answers
    /\ reports' = reports \cup {i}
    /\ stage' = [stage EXCEPT ![i] = AfterReport(stage[i])]
    /\ UNCHANGED <<settings, scheduler, kind, events, proposals, evalVars, crashes>>

NewProposal(i) ==
    [by |-> i, status |-> "proposed", delta |-> NoMeasure, samples |-> 0,
     after |-> NoMeasure, against |-> {}]

ProposeFor(i) ==
    /\ stage[i] = "proposing"
    /\ proposals' = Append(proposals, NewProposal(i))
    /\ stage' = [stage EXCEPT ![i] = "proposed"]
    /\ UNCHANGED <<settings, scheduler, kind, events, reports, evalVars, crashes>>

AlwaysCompleted(s) == IF s = "failed" THEN "no_signal" ELSE s                \* mutant
EventFor(s) == IF s = "quiet" THEN "no_signal" ELSE s

SchedulerAfter(i) == IF kind[i] = "tick" THEN "asleep" ELSE scheduler

\* The last event, and the end.
PublishOutcome(i) ==
    /\ stage[i] \in {"failed", "quiet", "proposed"}
    /\ events' = [events EXCEPT ![i] = Append(@, EventFor(stage[i]))]
    /\ stage' = [stage EXCEPT ![i] = "over"]
    /\ scheduler' = SchedulerAfter(i)
    /\ UNCHANGED <<settings, kind, reports, proposals, evalVars, crashes>>

CycleStep(i) == AskModel(i) \/ WriteReport(i) \/ ProposeFor(i) \/ PublishOutcome(i)

-----------------------------------------------------------------------------
(* Evaluations.                                                            *)

Kept(s) == IF Len(s) > Window THEN SubSeq(s, Len(s) - Window + 1, Len(s)) ELSE s

Ingest(e, m) ==
    /\ e <= budget.evals /\ intake[e] = "new"
    /\ measured' = [measured EXCEPT ![e] = m]
    /\ window' = Kept(Append(window, e))
    /\ appended' = Append(appended, e)
    /\ intake' = [intake EXCEPT ![e] = IF persistent THEN "store" ELSE "over"]
    /\ acked' = IF persistent THEN acked ELSE acked \cup {e}
    /\ UNCHANGED <<settings, cycleVars, proposals, rows, crashes>>

\* The store's ingest(), or the error it raises.
IngestStored(e) ==
    /\ intake[e] = "store"
    /\ intake' = [intake EXCEPT ![e] = "over"]
    /\ \/ rows' = rows \cup {e} /\ acked' = acked \cup {e}
       \/ UNCHANGED <<rows, acked>>
    /\ UNCHANGED <<settings, cycleVars, proposals, measured, window, appended, crashes>>

\* evaluations(): the store's where there is one.
WindowOnly  == ToSet(window)                                                 \* mutant
Evaluations == IF persistent THEN rows ELSE ToSet(window)

-----------------------------------------------------------------------------
(* Proposals.                                                              *)

Propose ==
    /\ Len(proposals) < budget.proposals
    /\ proposals' = Append(proposals, NewProposal(0))
    /\ UNCHANGED <<settings, cycleVars, evalVars, crashes>>

\* evaluate(): the delta to the mean over the evaluations, as the difference of
\* sums; with none there is no metric to compare.
Total(S, m) == SumFunction([e \in S |-> measured[e][m]])

Evaluate(k, after) ==
    /\ proposals' = [proposals EXCEPT ![k] =
           [@ EXCEPT !.status = "running", !.after = after, !.against = Evaluations,
                     !.samples = Cardinality(Evaluations),
                     !.delta = [m \in Metrics |->
                         IF Evaluations = {} THEN 0
                         ELSE Cardinality(Evaluations) * after[m] - Total(Evaluations, m)]]]
    /\ UNCHANGED <<settings, cycleVars, evalVars, crashes>>

\* The positive deltas count, and min_gain is 1.
TotalGain(p) == SumFunction([m \in Metrics |-> IF p.delta[m] > 0 THEN p.delta[m] ELSE 0])
AnyGain(p)   == TotalGain(p) >= p.samples                                    \* mutant
Gains(p)     == p.samples > 0 /\ TotalGain(p) >= p.samples

AdoptIfGain(k) ==
    /\ proposals[k].status = "running"
    /\ proposals' = [proposals EXCEPT ![k].status =
           IF Gains(proposals[k]) THEN "adopted" ELSE "rejected"]
    /\ UNCHANGED <<settings, cycleVars, evalVars, crashes>>

-----------------------------------------------------------------------------
\* The process ends: what it had in memory is gone, the store is not.  Its calls
\* do not come back.
Crash ==
    /\ crashes < budget.crashes
    /\ crashes' = crashes + 1
    /\ scheduler' = "off"
    /\ stage' = [i \in Cycles |-> IF stage[i] = "new" THEN "new" ELSE "lost"]
    /\ events' = [i \in Cycles |-> <<>>]
    /\ reports' = {} /\ proposals' = <<>> /\ window' = <<>>
    /\ intake' = [e \in Evals |-> IF intake[e] = "new" THEN "new" ELSE "over"]
    /\ appended' = <<>>
    /\ acked' = IF persistent THEN acked ELSE {}
    /\ UNCHANGED <<settings, kind, measured, rows>>

Next ==
    \/ StartScheduler \/ StopScheduler
    \/ \E i \in Cycles : \/ \E who \in {"tick", "request"} : Begin(i, who)
                         \/ CycleStep(i)
    \/ \E e \in Evals : (\E m \in Measures : Ingest(e, m)) \/ IngestStored(e)
    \/ Propose
    \/ \E k \in DOMAIN proposals : (\E m \in Measures : Evaluate(k, m)) \/ AdoptIfGain(k)
    \/ Crash

\* A cycle that was begun goes on: the call of the model has a timeout.
Fairness == \A i \in Cycles : WF_vars(CycleStep(i))

Spec == Init /\ [][Next]_vars /\ Fairness

-----------------------------------------------------------------------------
(* Properties.                                                             *)

SelfReviewTypeOK ==
    /\ budget \in Budgets /\ persistent \in BOOLEAN
    /\ scheduler \in {"off", "asleep", "ticking"}
    /\ stage \in [Cycles -> Answers \cup {"new", "asking", "failed", "quiet", "proposing",
                                          "proposed", "over", "lost"}]
    /\ kind \in [Cycles -> {"tick", "request"}]
    /\ reports \subseteq Cycles
    /\ \A k \in DOMAIN proposals :
           /\ proposals[k].status \in {"proposed", "running", "adopted", "rejected"}
           /\ proposals[k].delta \in [Metrics -> Int]
    /\ intake \in [Evals -> {"new", "store", "over"}]
    /\ ToSet(window) \cup rows \cup acked \subseteq Evals /\ Len(window) <= Window
    /\ Cardinality({i \in Cycles : kind[i] = "tick" /\ stage[i] \notin {"over", "lost"}})
           = (IF scheduler = "ticking" THEN 1 ELSE 0)

By(i) == {k \in DOMAIN proposals : proposals[k].by = i}

\* What a cycle published is what came of it: one outcome after "started", never
\* before the report is in memory unless the model did not answer, and
\* "proposed" for exactly the cycles that left a proposal (reflection.py 121-162).
\* Whatever other cycles do and wherever the process is restarted.
EventsTellOutcome ==
    \A i \in Cycles :
        /\ \/ Len(events[i]) <= 1
           \/ Len(events[i]) = 2 /\ stage[i] = "over"
        /\ stage[i] = "over" /\ events[i] # <<>> =>
               /\ (Last(events[i]) = "proposed") <=> Cardinality(By(i)) = 1
               /\ (Last(events[i]) = "failed") => By(i) = {}
               /\ (Last(events[i]) = "no_signal") => i \in reports /\ By(i) = {}
        /\ By(i) # {} => i \in reports

\* An evaluation that was acknowledged counts: with a store for good, through
\* restarts (store.py 1), and without one as long as it is among the last of the
\* window (pipeline.py 29-32).
EvidenceKept ==
    /\ persistent => acked \subseteq Evaluations
    /\ ~persistent => LET n == Len(appended) IN
           /\ window = SubSeq(appended, IF n > Window THEN n - Window + 1 ELSE 1, n)
           /\ acked = ToSet(appended)

\* "Adopts ONLY proposals that produce measurable gains" (engine.py 4): there were
\* evaluations when it was measured, and it did better than one of them in something.
AdoptedOnEvidence ==
    \A k \in DOMAIN proposals : proposals[k].status = "adopted" =>
        \E e \in proposals[k].against, m \in Metrics :
            proposals[k].after[m] > measured[e][m]

\* The state is well typed, the scheduler runs one cycle at a time (reflection.py
\* 194-202), and what was adopted did better than some evaluation (engine.py 99-113).
SelfReviewInv == SelfReviewTypeOK /\ AdoptedOnEvidence

\* A cycle that announced itself publishes its outcome (reflection.py 115-162), unless the process does.
CyclesClose ==
    \A i \in Cycles : (events[i] = <<"started">>) ~> (Len(events[i]) = 2 \/ stage[i] = "lost")
=============================================================================
