------------------------------ MODULE ReviewProofs -----------------------------
(***************************************************************************)
(* What holds of the reflection cycles and of the evaluations for any      *)
(* number of cycles, evaluations, proposals and restarts.                  *)
(***************************************************************************)
EXTENDS SelfReview, FiniteOrders

Outcomes == {"failed", "no_signal", "proposed"}
Started  == Answers \cup {"asking", "failed", "quiet", "proposing", "proposed"}

\* Every proposal says who made it.
ProposalsTyped ==
    /\ proposals \in Seq({proposals[k] : k \in DOMAIN proposals})
    /\ \A k \in DOMAIN proposals : /\ "by" \in DOMAIN proposals[k]
                                   /\ proposals[k].by \in Cycles \cup {0}

\* What a cycle has published at each stage.
EventsAt(i) ==
    /\ stage[i] \in {"new", "lost"} => events[i] = <<>>
    /\ stage[i] \in Started => events[i] = <<"started">>
    /\ stage[i] = "over" => events[i] = <<>> \/ \E x \in Outcomes : events[i] = <<"started", x>>

\* What it has left at each stage.
LeftOne(i) == \E k \in DOMAIN proposals : By(i) = {k}
LeftAt(i) ==
    /\ By(i) # {} => i \in reports
    /\ stage[i] \in {"quiet", "proposing", "proposed"} => i \in reports
    /\ stage[i] \notin {"proposed", "over"} => By(i) = {}
    /\ stage[i] = "proposed" => LeftOne(i)
    /\ stage[i] = "over" => \/ events[i] = <<>> /\ By(i) = {}
                            \/ events[i] = <<"started", "failed">> /\ By(i) = {}
                            \/ events[i] = <<"started", "no_signal">> /\ By(i) = {} /\ i \in reports
                            \/ events[i] = <<"started", "proposed">> /\ LeftOne(i)

CyclesInv ==
    /\ stage \in [Cycles -> Started \cup {"new", "over", "lost"}]
    /\ DOMAIN events = Cycles
    /\ ProposalsTyped
    /\ \A i \in Cycles : EventsAt(i) /\ LeftAt(i)

\* The window is what is left of the evaluations taken in; an evaluation is on its way to
\* the store only where there is one.
EvidenceInv ==
    /\ appended \in Seq(Evals) /\ intake \in [Evals -> {"new", "store", "over"}]
    /\ ~persistent => \A e \in Evals : intake[e] # "store"
    /\ EvidenceKept

-----------------------------------------------------------------------------
\* The event after the first.
LEMMA TwoEvents ==
    ASSUME NEW a, NEW b
    PROVE  /\ Append(<<a>>, b) = <<a, b>>
           /\ Len(<<>>) = 0 /\ Len(<<a>>) = 1 /\ Len(<<a, b>>) = 2
           /\ Last(<<a, b>>) = b /\ <<a, b>> # <<>>
<1>1. <<a>> \in Seq({a, b}) /\ Len(<<a>>) = 1 /\ <<a>>[1] = a
  OBVIOUS
<1>2. Append(<<a>>, b) = [m \in 1..2 |-> IF m = 2 THEN b ELSE <<a>>[m]]
  BY <1>1, AppendIsFunction
<1>3. <<a, b>> = [m \in 1..2 |-> IF m = 2 THEN b ELSE <<a>>[m]]
  BY <1>1
<1>4. Len(<<>>) = 0 /\ Len(<<a, b>>) = 2 /\ <<a, b>>[2] = b
  OBVIOUS
<1>5. Last(<<a, b>>) = b /\ <<a, b>> # <<>>
  BY <1>4 DEF Last
<1> QED BY <1>1, <1>2, <1>3, <1>4, <1>5

(* Proposals.                                                              *)

\* A proposal more is one more of who made it.
LEMMA OneProposalMore ==
    ASSUME ProposalsTyped, NEW j \in Cycles \cup {0}, proposals' = Append(proposals, NewProposal(j))
    PROVE  /\ ProposalsTyped'
           /\ \A i : By(i)' = IF i = j THEN By(i) \cup {Len(proposals) + 1} ELSE By(i)
           /\ \A k \in DOMAIN proposals : k \in DOMAIN proposals'
           /\ Len(proposals) + 1 \in DOMAIN proposals'
<1> DEFINE S == {proposals[k] : k \in DOMAIN proposals} \cup {NewProposal(j)}
           n == Len(proposals)
<1>1. proposals \in Seq(S) /\ NewProposal(j) \in S
  <2>1. proposals \in Seq({proposals[k] : k \in DOMAIN proposals})
    BY DEF ProposalsTyped
  <2>2. n \in Nat /\ DOMAIN proposals = 1..n /\ proposals = [k \in 1..n |-> proposals[k]]
    BY <2>1
  <2>3. \A k \in 1..n : proposals[k] \in S
    BY <2>2
  <2> QED BY <2>2, <2>3
<1>2. proposals' = [k \in 1..(n + 1) |-> IF k = n + 1 THEN NewProposal(j) ELSE proposals[k]]
  <2> HIDE DEF S
  <2> QED BY <1>1, AppendIsFunction
<1>3. n \in Nat /\ DOMAIN proposals = 1..n
  BY <1>1
<1>4. DOMAIN proposals' = 1..(n + 1) /\ proposals'[n + 1] = NewProposal(j)
      /\ \A k \in 1..n : proposals'[k] = proposals[k]
  BY <1>2, <1>3
<1>5. "by" \in DOMAIN NewProposal(j) /\ NewProposal(j).by = j
  BY DEF NewProposal
<1>6. proposals' \in Seq({proposals'[k] : k \in DOMAIN proposals'})
  <2> DEFINE T == {proposals'[k] : k \in DOMAIN proposals'}
  <2>1. \A k \in 1..(n + 1) : proposals'[k] \in T
    BY <1>4
  <2>2. proposals' = [k \in 1..(n + 1) |-> proposals'[k]] /\ n + 1 \in Nat
    BY <1>2, <1>3, <1>4
  <2> HIDE DEF T, n
  <2>3. proposals' \in Seq(T)
    BY <2>1, <2>2, FunctionIsSeq
  <2> QED BY <2>3 DEF T
<1>7. ProposalsTyped'
  BY <1>3, <1>4, <1>5, <1>6 DEF ProposalsTyped
<1>8. \A i : By(i)' = IF i = j THEN By(i) \cup {n + 1} ELSE By(i)
  BY <1>3, <1>4, <1>5 DEF By
<1> QED BY <1>3, <1>4, <1>7, <1>8

\* Measuring or deciding on a proposal does not change who made it.
LEMMA SameProposals ==
    ASSUME ProposalsTyped, NEW k \in DOMAIN proposals, NEW p,
           proposals' = [proposals EXCEPT ![k] = p],
           "by" \in DOMAIN p, p.by = proposals[k].by
    PROVE  ProposalsTyped' /\ \A i : By(i)' = By(i)
<1> DEFINE n == Len(proposals)
<1>1. proposals \in Seq({proposals[l] : l \in DOMAIN proposals})
  BY DEF ProposalsTyped
<1>2. n \in Nat /\ DOMAIN proposals = 1..n /\ proposals = [l \in 1..n |-> proposals[l]]
  BY <1>1
<1>3. DOMAIN proposals' = 1..n /\ proposals' = [l \in 1..n |-> IF l = k THEN p ELSE proposals[l]]
  BY <1>2
<1>4. \A l \in 1..n : "by" \in DOMAIN proposals'[l] /\ proposals'[l].by = proposals[l].by
  BY <1>2, <1>3 DEF ProposalsTyped
<1>5. proposals' \in Seq({proposals'[l] : l \in DOMAIN proposals'})
  <2> DEFINE T == {proposals'[l] : l \in DOMAIN proposals'}
  <2>1. \A l \in 1..n : proposals'[l] \in T
    BY <1>3
  <2>2. proposals' = [l \in 1..n |-> proposals'[l]]
    BY <1>3
  <2> HIDE DEF T
  <2>3. proposals' \in Seq(T)
    BY <1>2, <2>1, <2>2, FunctionIsSeq
  <2> QED BY <2>3 DEF T
<1>6. ProposalsTyped'
  BY <1>2, <1>3, <1>4, <1>5 DEF ProposalsTyped
<1>7. \A i : By(i)' = By(i)
  BY <1>2, <1>3, <1>4 DEF By
<1> QED BY <1>6, <1>7

\* So it is with Evaluate and AdoptIfGain.
LEMMA MeasuringSparesMakers ==
    ASSUME ProposalsTyped, NEW k \in DOMAIN proposals,
           (\E m \in Measures : Evaluate(k, m)) \/ AdoptIfGain(k)
    PROVE  ProposalsTyped' /\ \A i : By(i)' = By(i)
<1>1. "by" \in DOMAIN proposals[k]
  BY DEF ProposalsTyped
<1>2. ASSUME NEW m \in Measures, Evaluate(k, m)
      PROVE  ProposalsTyped' /\ \A i : By(i)' = By(i)
  <2>1. PICK d, s, e : proposals' = [proposals EXCEPT ![k] =
           [@ EXCEPT !.status = "running", !.after = m, !.against = e, !.samples = s, !.delta = d]]
    BY <1>2 DEF Evaluate
  <2> DEFINE p == [proposals[k] EXCEPT !.status = "running", !.after = m, !.against = e,
                                       !.samples = s, !.delta = d]
  <2>2. proposals' = [proposals EXCEPT ![k] = p]
    BY <2>1
  <2>3. "by" \in DOMAIN p /\ p.by = proposals[k].by
    BY <1>1
  <2> HIDE DEF p
  <2> QED BY <2>2, <2>3, SameProposals
<1>3. CASE AdoptIfGain(k)
  <2>1. PICK x : proposals' = [proposals EXCEPT ![k].status = x]
    BY <1>3 DEF AdoptIfGain
  <2> DEFINE p == [proposals[k] EXCEPT !.status = x]
  <2>2. proposals' = [proposals EXCEPT ![k] = p]
    BY <2>1
  <2>3. "by" \in DOMAIN p /\ p.by = proposals[k].by
    BY <1>1
  <2> HIDE DEF p
  <2> QED BY <2>2, <2>3, SameProposals
<1> QED BY <1>2, <1>3

-----------------------------------------------------------------------------
(* Cycles.                                                                 *)

\* A step that leaves a cycle, its events and its proposals alone leaves it in step.
LEMMA Unmoved ==
    ASSUME ProposalsTyped, NEW i \in Cycles, EventsAt(i), LeftAt(i),
           stage'[i] = stage[i], events'[i] = events[i], By(i)' = By(i),
           reports \subseteq reports', DOMAIN proposals \subseteq DOMAIN proposals'
    PROVE  EventsAt(i)' /\ LeftAt(i)'
<1>1. EventsAt(i)'
  BY DEF EventsAt
<1>2. LeftOne(i) => LeftOne(i)'
  BY DEF LeftOne
<1> QED BY <1>1, <1>2 DEF LeftAt

\* Every step keeps each cycle's events in step with what it left.
LEMMA CyclesKept == CyclesInv /\ [Next]_vars => CyclesInv'
<1> SUFFICES ASSUME CyclesInv, [Next]_vars PROVE CyclesInv'
  OBVIOUS
<1> USE DEF CyclesInv
<1>1. ASSUME UNCHANGED <<stage, events, reports>>, ProposalsTyped', \A i \in Cycles : By(i)' = By(i),
             DOMAIN proposals \subseteq DOMAIN proposals'
      PROVE  CyclesInv'
  BY <1>1, Unmoved
<1>2. ASSUME UNCHANGED <<stage, events, reports, proposals>> PROVE CyclesInv'
  <2>1. \A i \in Cycles : By(i)' = By(i)
    BY <1>2 DEF By
  <2>2. ProposalsTyped'
    BY <1>2 DEF ProposalsTyped
  <2> QED BY <1>1, <1>2, <2>1, <2>2
<1>3. CASE Propose
  <2>1. ProposalsTyped' /\ \A i \in Cycles : By(i)' = By(i)
    BY <1>3, OneProposalMore DEF Propose, Cycles
  <2>2. DOMAIN proposals \subseteq DOMAIN proposals'
    BY <1>3, OneProposalMore DEF Propose
  <2> QED BY <1>1, <1>3, <2>1, <2>2 DEF Propose, cycleVars
<1>4. ASSUME NEW k \in DOMAIN proposals, (\E m \in Measures : Evaluate(k, m)) \/ AdoptIfGain(k)
      PROVE  CyclesInv'
  <2>1. ProposalsTyped' /\ \A i \in Cycles : By(i)' = By(i)
    BY <1>4, MeasuringSparesMakers
  <2>2. UNCHANGED <<stage, events, reports>> /\ DOMAIN proposals' = DOMAIN proposals
    BY <1>4 DEF Evaluate, AdoptIfGain, cycleVars, ProposalsTyped
  <2> QED BY <1>1, <2>1, <2>2
<1>5. ASSUME NEW i \in Cycles, NEW s \in Started \cup {"new", "over", "lost"},
             stage' = [stage EXCEPT ![i] = s],
             \A j \in Cycles \ {i} : events'[j] = events[j] /\ By(j)' = By(j),
             DOMAIN events' = Cycles, ProposalsTyped', reports \subseteq reports',
             DOMAIN proposals \subseteq DOMAIN proposals',
             EventsAt(i)', LeftAt(i)'
      PROVE  CyclesInv'
  <2>1. \A j \in Cycles \ {i} : EventsAt(j)' /\ LeftAt(j)'
    BY <1>5, Unmoved
  <2> QED BY <1>5, <2>1
<1>6. ASSUME UNCHANGED proposals
      PROVE  /\ ProposalsTyped' /\ DOMAIN proposals \subseteq DOMAIN proposals'
             /\ \A i \in Cycles : By(i)' = By(i) /\ LeftOne(i)' = LeftOne(i)
  BY <1>6 DEF ProposalsTyped, By, LeftOne
<1>7. ASSUME NEW i \in Cycles, NEW who, Begin(i, who) PROVE CyclesInv'
  <2>1. PICK s \in {"over", "asking"} :
            /\ stage' = [stage EXCEPT ![i] = s] /\ stage[i] = "new"
            /\ s = "over" => UNCHANGED events
            /\ s = "asking" => events' = [events EXCEPT ![i] = <<"started">>]
            /\ UNCHANGED <<reports, proposals>>
    BY <1>7 DEF Begin
  <2>2. EventsAt(i)' /\ LeftAt(i)'
    BY <1>6, <2>1 DEF EventsAt, LeftAt, Started, Answers
  <2> QED BY <1>5, <1>6, <2>1, <2>2 DEF Started
<1>8. ASSUME NEW i \in Cycles, AskModel(i) PROVE CyclesInv'
  <2>1. PICK s \in Answers \cup {"failed"} :
            /\ stage' = [stage EXCEPT ![i] = s] /\ stage[i] = "asking"
            /\ UNCHANGED <<events, reports, proposals>>
    BY <1>8 DEF AskModel
  <2>2. EventsAt(i)' /\ LeftAt(i)'
    BY <1>6, <2>1 DEF EventsAt, LeftAt, Started, Answers
  <2> QED BY <1>5, <1>6, <2>1, <2>2 DEF Started
<1>9. ASSUME NEW i \in Cycles, WriteReport(i) PROVE CyclesInv'
  <2>1. PICK s \in {"failed", "quiet", "proposing"} :
            /\ stage' = [stage EXCEPT ![i] = s] /\ stage[i] \in Answers
            /\ reports' = reports \cup {i} /\ UNCHANGED <<events, proposals>>
    BY <1>9 DEF WriteReport, AfterReport, Answers
  <2>2. EventsAt(i)' /\ LeftAt(i)'
    BY <1>6, <2>1 DEF EventsAt, LeftAt, Started, Answers
  <2> QED BY <1>5, <1>6, <2>1, <2>2 DEF Started
<1>10. ASSUME NEW i \in Cycles, ProposeFor(i) PROVE CyclesInv'
  <2>1. /\ ProposalsTyped' /\ DOMAIN proposals \subseteq DOMAIN proposals'
        /\ By(i)' = By(i) \cup {Len(proposals) + 1} /\ Len(proposals) + 1 \in DOMAIN proposals'
        /\ \A j \in Cycles \ {i} : By(j)' = By(j)
    BY <1>10, OneProposalMore DEF ProposeFor
  <2>2. /\ stage' = [stage EXCEPT ![i] = "proposed"] /\ stage[i] = "proposing"
        /\ UNCHANGED <<events, reports>>
    BY <1>10 DEF ProposeFor
  <2>3. LeftOne(i)'
    BY <2>1, <2>2 DEF LeftOne, LeftAt
  <2>4. EventsAt(i)' /\ LeftAt(i)'
    BY <2>2, <2>3 DEF EventsAt, LeftAt, Started, Answers
  <2> QED BY <1>5, <2>1, <2>2, <2>4 DEF Started
<1>11. ASSUME NEW i \in Cycles, PublishOutcome(i) PROVE CyclesInv'
  <2>1. PICK x \in Outcomes : x = EventFor(stage[i])
    <3>1. stage[i] \in {"failed", "quiet", "proposed"}
      BY <1>11 DEF PublishOutcome
    <3> QED BY <3>1 DEF EventFor, Outcomes
  <2>2. /\ stage' = [stage EXCEPT ![i] = "over"] /\ stage[i] \in {"failed", "quiet", "proposed"}
        /\ events' = [events EXCEPT ![i] = <<"started", x>>]
        /\ UNCHANGED <<reports, proposals>>
    <3>1. /\ stage' = [stage EXCEPT ![i] = "over"] /\ stage[i] \in {"failed", "quiet", "proposed"}
          /\ events' = [events EXCEPT ![i] = Append(events[i], x)]
          /\ UNCHANGED <<reports, proposals>>
      BY <1>11, <2>1 DEF PublishOutcome
    <3>2. events[i] = <<"started">>
      BY <3>1 DEF EventsAt, Started
    <3>3. Append(<<"started">>, x) = <<"started", x>>
      BY TwoEvents
    <3> QED BY <3>1, <3>2, <3>3
  <2>3. EventsAt(i)'
    BY <2>2 DEF EventsAt, Started, Answers
  <2>4. LeftAt(i)'
    BY <1>6, <2>1, <2>2 DEF LeftAt, EventFor
  <2> QED BY <1>5, <1>6, <2>2, <2>3, <2>4
<1>12. CASE Crash
  <2>1. proposals' = <<>> /\ ProposalsTyped' /\ \A i : By(i)' = {}
    BY <1>12 DEF Crash, ProposalsTyped, By
  <2>2. \A i \in Cycles : stage'[i] \in {"new", "lost"} /\ events'[i] = <<>>
    BY <1>12 DEF Crash
  <2>3. /\ stage' \in [Cycles -> Started \cup {"new", "over", "lost"}] /\ DOMAIN events' = Cycles
    BY <1>12 DEF Crash
  <2>4. \A i \in Cycles : EventsAt(i)' /\ LeftAt(i)'
    BY <2>1, <2>2 DEF EventsAt, LeftAt, Started, Answers
  <2> QED BY <2>1, <2>3, <2>4
<1>13. CASE StartScheduler \/ StopScheduler \/ UNCHANGED vars
            \/ \E e \in Evals : (\E m \in Measures : Ingest(e, m)) \/ IngestStored(e)
  BY <1>2, <1>13 DEF StartScheduler, StopScheduler, vars, cycleVars, Ingest, IngestStored
<1> QED BY <1>3, <1>4, <1>7, <1>8, <1>9, <1>10, <1>11, <1>12, <1>13 DEF Next, CycleStep

\* However cycles run at once, and wherever the process is restarted, what a cycle published
\* is what came of it (reflection.py 121-162).
THEOREM EventsTell == Spec => []EventsTellOutcome
<1>1. Init => CyclesInv
  BY DEF Init, CyclesInv, ProposalsTyped, EventsAt, LeftAt, By, Started, Answers
<1>2. ASSUME CyclesInv PROVE EventsTellOutcome
  <2> SUFFICES ASSUME NEW i \in Cycles
               PROVE  /\ \/ Len(events[i]) <= 1
                         \/ Len(events[i]) = 2 /\ stage[i] = "over"
                      /\ stage[i] = "over" /\ events[i] # <<>> =>
                             /\ (Last(events[i]) = "proposed") <=> Cardinality(By(i)) = 1
                             /\ (Last(events[i]) = "failed") => By(i) = {}
                             /\ (Last(events[i]) = "no_signal") => i \in reports /\ By(i) = {}
                      /\ By(i) # {} => i \in reports
    BY DEF EventsTellOutcome
  <2>1. EventsAt(i) /\ LeftAt(i) /\ stage[i] \in Started \cup {"new", "over", "lost"}
    BY <1>2 DEF CyclesInv
  <2>2. CASE stage[i] # "over"
    <3>1. events[i] = <<>> \/ events[i] = <<"started">>
      BY <2>1, <2>2 DEF EventsAt
    <3>2. Len(events[i]) <= 1
      <4>1. Len(<<>>) = 0 /\ Len(<<"started">>) = 1
        BY TwoEvents
      <4>2. Len(events[i]) = 0 \/ Len(events[i]) = 1
        BY <3>1, <4>1, Zenon
      <4>3. \A n : n = 0 \/ n = 1 => n <= 1
        OBVIOUS
      <4> QED BY <4>2, <4>3, Zenon
    <3>3. By(i) # {} => i \in reports
      BY <2>1 DEF LeftAt
    <3> QED BY <2>2, <3>2, <3>3
  <2>3. CASE stage[i] = "over"
    <3>1. Cardinality({}) = 0 /\ (LeftOne(i) => Cardinality(By(i)) = 1)
      BY FS_EmptySet, FS_Singleton DEF LeftOne
    <3>2. CASE events[i] = <<>> /\ By(i) = {}
      BY <2>3, <3>2
    <3>3. ASSUME NEW x \in Outcomes, events[i] = <<"started", x>>
          PROVE  Len(events[i]) = 2 /\ Last(events[i]) = x
      BY <3>3, TwoEvents
    <3>4. By(i) # {} => i \in reports
      BY <2>1 DEF LeftAt
    <3>5. CASE events[i] = <<"started", "failed">> /\ By(i) = {}
      BY <2>3, <3>1, <3>3, <3>5 DEF Outcomes
    <3>6. CASE events[i] = <<"started", "no_signal">> /\ By(i) = {} /\ i \in reports
      BY <2>3, <3>1, <3>3, <3>6 DEF Outcomes
    <3>7. CASE events[i] = <<"started", "proposed">> /\ LeftOne(i)
      BY <2>3, <3>1, <3>3, <3>4, <3>7 DEF Outcomes
    <3> QED BY <2>1, <2>3, <3>2, <3>5, <3>6, <3>7 DEF LeftAt
  <2> QED BY <2>2, <2>3
<1> QED BY <1>1, <1>2, CyclesKept, PTL DEF Spec

-----------------------------------------------------------------------------
(* Evaluations.                                                            *)

\* The last w elements of a sequence.
Newest(s, w) == SubSeq(s, IF Len(s) > w THEN Len(s) - w + 1 ELSE 1, Len(s))

\* They are the elements from the first that is kept.
LEMMA NewestIs ==
    ASSUME NEW S, NEW s \in Seq(S), NEW w \in Nat
    PROVE  LET n == Len(s)
               d == IF n > w THEN n - w ELSE 0
           IN  /\ Newest(s, w) \in Seq(S) /\ Len(Newest(s, w)) = n - d
               /\ \A k \in 1..(n - d) : Newest(s, w)[k] = s[k + d]
<1> DEFINE n == Len(s)
           d == IF n > w THEN n - w ELSE 0
<1>1. n \in Nat /\ d \in 0..n /\ Newest(s, w) = SubSeq(s, d + 1, n)
  BY DEF Newest
<1>2. d + 1 \in 1..(n + 1) /\ n \in (d + 1 - 1)..n
  BY <1>1
<1> HIDE DEF n, d
<1>3. /\ SubSeq(s, d + 1, n) \in Seq(S)
      /\ Len(SubSeq(s, d + 1, n)) = IF d + 1 <= n THEN n - (d + 1) + 1 ELSE 0
      /\ \A k \in 1..(n - (d + 1) + 1) : SubSeq(s, d + 1, n)[k] = s[d + 1 + k - 1]
  <2>1. d + 1 \in Int /\ n \in Int /\ \A k \in (d + 1)..n : s[k] \in S
    BY <1>1 DEF n
  <2> QED BY <2>1, SubSeqProperties
<1>4. n - (d + 1) + 1 = n - d /\ \A k \in 1..(n - d) : d + 1 + k - 1 = k + d
  BY <1>1
<1>5. /\ Newest(s, w) \in Seq(S) /\ Len(Newest(s, w)) = n - d
      /\ \A k \in 1..(n - d) : Newest(s, w)[k] = s[k + d]
  BY <1>1, <1>3, <1>4
<1> QED BY <1>5 DEF n, d

\* An element behind the last w and the oldest dropped are the last w of the longer sequence.
LEMMA NewestOfAppend ==
    ASSUME NEW S, NEW s \in Seq(S), NEW e \in S, NEW w \in Nat \ {0}
    PROVE  Newest(Append(Newest(s, w), e), w) = Newest(Append(s, e), w)
<1> DEFINE n == Len(s)
           d == IF n > w THEN n - w ELSE 0
           t == Newest(s, w)
           u == Append(t, e)
           v == Append(s, e)
<1>1. n \in Nat /\ t \in Seq(S) /\ Len(t) = n - d /\ \A k \in 1..(n - d) : t[k] = s[k + d]
  BY NewestIs
<1>2. d \in 0..n /\ n - d <= w /\ n - d \in Nat /\ (n - d < w => d = 0)
  BY <1>1
<1> HIDE DEF t, n, d
<1>3. /\ u \in Seq(S) /\ Len(u) = n - d + 1 /\ u[n - d + 1] = e
      /\ \A k \in 1..(n - d) : u[k] = s[k + d]
  BY <1>1
<1>4. /\ v \in Seq(S) /\ Len(v) = n + 1 /\ v[n + 1] = e
      /\ \A k \in 1..n : v[k] = s[k]
  BY <1>1 DEF n
<1> HIDE DEF u, v
<1>5. \A k \in 1..(n - d + 1) : u[k] = v[k + d]
  <2> TAKE k \in 1..(n - d + 1)
  <2>1. CASE k = n - d + 1
    <3>1. k + d = n + 1
      BY <1>1, <1>2, <2>1
    <3> QED BY <1>3, <1>4, <2>1, <3>1
  <2>2. CASE k # n - d + 1
    <3>1. k \in 1..(n - d) /\ k + d \in 1..n
      BY <1>1, <1>2, <2>2
    <3> QED BY <1>1, <1>3, <1>4, <3>1
  <2> QED BY <2>1, <2>2
<1> DEFINE c == IF Len(u) > w THEN Len(u) - w ELSE 0
           b == IF Len(v) > w THEN Len(v) - w ELSE 0
<1>6. Newest(u, w) \in Seq(S) /\ Len(Newest(u, w)) = Len(u) - c
      /\ \A k \in 1..(Len(u) - c) : Newest(u, w)[k] = u[k + c]
  BY <1>3, NewestIs
<1>7. Newest(v, w) \in Seq(S) /\ Len(Newest(v, w)) = Len(v) - b
      /\ \A k \in 1..(Len(v) - b) : Newest(v, w)[k] = v[k + b]
  BY <1>4, NewestIs
<1>8. b = c + d /\ c \in 0..(n - d + 1)
  <2>1. c = IF n - d + 1 > w THEN n - d + 1 - w ELSE 0
    BY <1>1, <1>2, <1>3
  <2>2. b = IF n + 1 > w THEN n + 1 - w ELSE 0
    BY <1>1, <1>2, <1>4
  <2>3. d = IF n > w THEN n - w ELSE 0
    BY DEF d
  <2> HIDE DEF b, c
  <2>4. CASE n > w
    BY <1>1, <2>1, <2>2, <2>3, <2>4
  <2>5. CASE ~(n > w)
    BY <1>1, <2>1, <2>2, <2>3, <2>5
  <2> QED BY <2>4, <2>5
<1> HIDE DEF b, c
<1>9. Len(Newest(u, w)) = Len(Newest(v, w)) /\ Len(Newest(u, w)) = n - d + 1 - c
  <2>1. Len(Newest(u, w)) = n - d + 1 - c /\ Len(Newest(v, w)) = n + 1 - b
    BY <1>1, <1>2, <1>3, <1>4, <1>6, <1>7, <1>8
  <2>2. n - d + 1 - c = n + 1 - b
    BY <1>1, <1>2, <1>8
  <2> QED BY <2>1, <2>2, Zenon
<1>10. \A k \in 1..Len(Newest(u, w)) : Newest(u, w)[k] = Newest(v, w)[k]
  <2> TAKE k \in 1..Len(Newest(u, w))
  <2>1. k \in 1..(n - d + 1 - c) /\ k + c \in 1..(n - d + 1) /\ k \in 1..(Len(v) - b)
    <3>1. Len(Newest(u, w)) = n - d + 1 - c /\ Len(Newest(u, w)) = Len(v) - b
      BY <1>7, <1>9
    <3>2. k \in 1..(n - d + 1 - c) /\ k \in 1..(Len(v) - b)
      BY <3>1, Zenon
    <3>3. c \in Nat /\ k \in Nat /\ k > 0 /\ k <= n - d + 1 - c
      BY <1>2, <1>8, <3>2
    <3>4. k + c \in 1..(n - d + 1)
      BY <1>2, <3>3
    <3> QED BY <3>2, <3>4
  <2>2. k + c + d = k + b
    BY <1>2, <1>8, <2>1
  <2> QED BY <1>3, <1>5, <1>6, <1>7, <2>1, <2>2
<1>11. Newest(u, w) = Newest(v, w)
  BY <1>6, <1>7, <1>9, <1>10, SeqEqual
<1> QED BY <1>11 DEF u, v, t

\* Every step leaves what was acknowledged where evaluations() finds it.
LEMMA EvidenceStep == EvidenceInv /\ [Next]_vars => EvidenceInv'
<1> SUFFICES ASSUME EvidenceInv, [Next]_vars PROVE EvidenceInv'
  OBVIOUS
<1> USE DEF EvidenceInv
<1>0. EvidenceKept <=> /\ persistent => acked \subseteq rows
                       /\ ~persistent => window = Newest(appended, Window) /\ acked = ToSet(appended)
  BY DEF EvidenceKept, Evaluations, Newest
<1>0p. EvidenceKept' <=> /\ persistent' => acked' \subseteq rows'
                         /\ ~persistent' => window' = Newest(appended', Window) /\ acked' = ToSet(appended')
  BY DEF EvidenceKept, Evaluations, Newest
<1>1. CASE UNCHANGED <<persistent, intake, window, rows, appended, acked>>
  BY <1>0, <1>0p, <1>1
<1>2. ASSUME NEW e \in Evals, NEW m \in Measures, Ingest(e, m) PROVE EvidenceInv'
  <2>1. /\ appended' = Append(appended, e) /\ window' = Kept(Append(window, e))
        /\ intake' = [intake EXCEPT ![e] = IF persistent THEN "store" ELSE "over"]
        /\ acked' = (IF persistent THEN acked ELSE acked \cup {e})
        /\ UNCHANGED <<persistent, rows>>
    BY <1>2 DEF Ingest, settings
  <2>2. /\ appended' \in Seq(Evals) /\ intake' \in [Evals -> {"new", "store", "over"}]
        /\ ~persistent' => \A f \in Evals : intake'[f] # "store"
    BY <2>1
  <2>3. ASSUME ~persistent
        PROVE  window' = Newest(appended', Window) /\ acked' = ToSet(appended')
    <3>1. Window \in Nat \ {0}
      BY SelfReviewAssumption
    <3>2. Append(window, e) \in Seq(Evals)
      BY <1>0, <2>3, <3>1, NewestIs
    <3>3. Kept(Append(window, e)) = Newest(Append(window, e), Window)
      <4> DEFINE u == Append(window, e)
      <4>1. u \in Seq(Evals) /\ Len(u) \in Nat
        BY <3>2
      <4>2. SubSeq(u, 1, Len(u)) = u
        BY <4>1, SubSeqFull
      <4> HIDE DEF u
      <4> QED BY <4>2 DEF Kept, Newest, u
    <3>4. Newest(Append(window, e), Window) = Newest(Append(appended, e), Window)
      BY <1>0, <2>3, <3>1, NewestOfAppend
    <3>5. ToSet(Append(appended, e)) = ToSet(appended) \cup {e}
      <4>1. /\ Len(appended) \in Nat /\ DOMAIN appended = 1..Len(appended)
            /\ DOMAIN Append(appended, e) = 1..(Len(appended) + 1)
            /\ Append(appended, e)[Len(appended) + 1] = e
            /\ \A k \in 1..Len(appended) : Append(appended, e)[k] = appended[k]
        OBVIOUS
      <4> QED BY <4>1 DEF ToSet
    <3> QED BY <1>0, <2>1, <2>3, <3>3, <3>4, <3>5
  <2> QED BY <1>0, <1>0p, <2>1, <2>2, <2>3
<1>3. ASSUME NEW e \in Evals, IngestStored(e) PROVE EvidenceInv'
  <2>1. /\ persistent /\ intake' = [intake EXCEPT ![e] = "over"]
        /\ \/ rows' = rows \cup {e} /\ acked' = acked \cup {e}
           \/ UNCHANGED <<rows, acked>>
        /\ UNCHANGED <<persistent, appended>>
    BY <1>3 DEF IngestStored, settings
  <2> QED BY <1>0, <1>0p, <2>1
<1>4. CASE Crash
  <2>1. /\ appended' = <<>> /\ window' = <<>> /\ acked' = (IF persistent THEN acked ELSE {})
        /\ intake' = [e \in Evals |-> IF intake[e] = "new" THEN "new" ELSE "over"]
        /\ UNCHANGED <<persistent, rows>>
    BY <1>4 DEF Crash, settings
  <2>2. <<>> \in Seq(Evals) /\ ToSet(<<>>) = {}
    BY DEF ToSet
  <2>3. Newest(<<>>, Window) = <<>>
    <3>1. Window \in Nat
      BY SelfReviewAssumption
    <3>2. Len(<<>>) = 0
      BY <2>2
    <3> QED BY <2>2, <3>1, <3>2, SubSeqEmpty DEF Newest
  <2> QED BY <1>0, <1>0p, <2>1, <2>2, <2>3
<1>5. CASE StartScheduler \/ StopScheduler \/ Propose \/ UNCHANGED vars
           \/ (\E i \in Cycles : \/ \E who \in {"tick", "request"} : Begin(i, who)
                                 \/ CycleStep(i))
           \/ (\E k \in DOMAIN proposals : (\E m \in Measures : Evaluate(k, m)) \/ AdoptIfGain(k))
  <2>1. UNCHANGED <<settings, evalVars>>
    BY <1>5 DEF StartScheduler, StopScheduler, Propose, vars, Begin, CycleStep, AskModel, WriteReport,
                ProposeFor, PublishOutcome, Evaluate, AdoptIfGain
  <2> QED BY <1>1, <2>1 DEF settings, evalVars
<1> QED BY <1>2, <1>3, <1>4, <1>5 DEF Next

\* What was acknowledged counts for as long as the window or the store keeps it: through
\* restarts where there is a store (store.py 1, pipeline.py 29-32).
THEOREM EvidenceStays == Spec => []EvidenceKept
<1>1. Init => EvidenceInv
  <2> SUFFICES ASSUME Init PROVE EvidenceInv
    OBVIOUS
  <2>1. <<>> \in Seq(Evals) /\ ToSet(<<>>) = {} /\ Len(<<>>) = 0
    BY DEF ToSet
  <2>2. Newest(<<>>, Window) = <<>>
    BY <2>1, SubSeqEmpty, SelfReviewAssumption DEF Newest
  <2> QED BY <2>1, <2>2 DEF Init, EvidenceInv, EvidenceKept, Newest
<1>2. EvidenceInv => EvidenceKept
  BY DEF EvidenceInv
<1> QED BY <1>1, <1>2, EvidenceStep, PTL DEF Spec

-----------------------------------------------------------------------------
(* What is adopted.                                                        *)

Statuses     == {"proposed", "running", "adopted", "rejected"}
ProposalType == [by: Cycles \cup {0}, status: Statuses, delta: [Metrics -> Int], samples: Nat,
                 after: [Metrics -> Int], against: SUBSET Evals]

\* The evaluations that were taken in: what they measured does not change any more.
Taken == {e \in Evals : intake[e] # "new"}

\* What a proposal says of itself, for evaluations in S that measured M.
ProposalSound(p, M, S) ==
    /\ p.against \subseteq S
    /\ p.status # "proposed" =>
           /\ p.samples = Cardinality(p.against)
           /\ \A m \in Metrics : p.delta[m] =
                  IF p.against = {} THEN 0
                  ELSE Cardinality(p.against) * p.after[m] - SumFunction([e \in p.against |-> M[e][m]])
    /\ p.status = "adopted" => Gains(p)

ProposalsSound ==
    /\ proposals \in Seq(ProposalType)
    /\ \A k \in 1..Len(proposals) : ProposalSound(proposals[k], measured, Taken)

EvidenceTyped ==
    /\ intake \in [Evals -> {"new", "store", "over"}]
    /\ measured \in [Evals -> [Metrics -> Int]]
    /\ window \in Seq(Taken) /\ Len(window) <= Window
    /\ rows \subseteq Taken /\ acked \subseteq Taken

\* The cycles of the scheduler that are not over: the one it waits for, if it ticks.
Ticks == {i \in Cycles : kind[i] = "tick" /\ stage[i] \notin {"over", "lost"}}
SchedulerInv ==
    /\ scheduler \in {"off", "asleep", "ticking"}
    /\ kind \in [Cycles -> {"tick", "request"}]
    /\ reports \subseteq Cycles
    /\ \A i \in Cycles : stage[i] = "new" => kind[i] = "request"
    /\ scheduler = "ticking" => \E i \in Cycles : Ticks = {i}
    /\ scheduler # "ticking" => Ticks = {}

ReviewInv ==
    /\ budget \in Budgets /\ persistent \in BOOLEAN
    /\ CyclesInv /\ SchedulerInv /\ EvidenceTyped /\ ProposalsSound

-----------------------------------------------------------------------------
\* The evaluations are finitely many.
LEMMA EvalsFinite == IsFiniteSet(Evals)
<1>1. 1 \in Int /\ MaxEvals \in Int
  BY SelfReviewAssumption
<1> QED BY <1>1, FS_Interval DEF Evals

\* What a proposal was adopted for is an evaluation it did better than.
LEMMA AdoptedIsBetter ==
    ASSUME NEW p \in ProposalType, NEW M \in [Evals -> [Metrics -> Int]], NEW S,
           ProposalSound(p, M, S), p.status = "adopted"
    PROVE  \E e \in p.against, m \in Metrics : p.after[m] > M[e][m]
<1> DEFINE gain == [m \in Metrics |-> IF p.delta[m] > 0 THEN p.delta[m] ELSE 0]
<1>1. /\ p.samples > 0 /\ SumFunctionOnSet(gain, Metrics) >= p.samples /\ p.samples \in Nat
      /\ IsFiniteSet(Metrics) /\ p.delta \in [Metrics -> Int] /\ p.after \in [Metrics -> Int]
      /\ p.against \subseteq Evals
  <2>1. DOMAIN gain = Metrics
    OBVIOUS
  <2>2. TotalGain(p) = SumFunctionOnSet(gain, Metrics)
    BY <2>1, Zenon DEF TotalGain, SumFunction
  <2>3. p.samples > 0 /\ TotalGain(p) >= p.samples
    BY DEF ProposalSound, Gains
  <2> QED BY <2>2, <2>3, SelfReviewAssumption DEF ProposalType
<1>2. PICK m \in Metrics : p.delta[m] > 0
  <2> SUFFICES ASSUME \A m \in Metrics : ~(p.delta[m] > 0) PROVE FALSE
    OBVIOUS
  <2>1. \A m \in Metrics : gain[m] \in Int /\ gain[m] <= 0
    BY <1>1
  <2> HIDE DEF gain
  <2>2. SumFunctionOnSet(gain, Metrics) <= 0
    BY <1>1, <2>1, SumNotPositive
  <2>3. \A m \in Metrics : gain[m] \in Int
    BY <2>1
  <2>4. SumFunctionOnSet(gain, Metrics) \in Int
    BY <1>1, <2>3, SumIsInt
  <2> QED BY <1>1, <2>2, <2>4
<1> DEFINE F == [e \in p.against |-> M[e][m]]
           a == p.after[m]
           n == Cardinality(p.against)
<1>3. p.against # {} /\ p.delta[m] = n * a - SumFunctionOnSet(F, p.against)
  <2>1. p.delta[m] = IF p.against = {} THEN 0
                     ELSE n * a - SumFunction([e \in p.against |-> M[e][m]])
    BY DEF ProposalSound
  <2>2. p.against # {}
    BY <1>1, <1>2, <2>1
  <2>3. DOMAIN F = p.against
    OBVIOUS
  <2>4. SumFunction(F) = SumFunctionOnSet(F, p.against)
    BY <2>3, Zenon DEF SumFunction
  <2> QED BY <2>1, <2>2, <2>4
<1>4. IsFiniteSet(p.against) /\ n \in Nat /\ a \in Int /\ \A e \in p.against : F[e] = M[e][m] /\ F[e] \in Int
  <2>1. IsFiniteSet(p.against)
    BY <1>1, EvalsFinite, FS_Subset
  <2> QED BY <1>1, <2>1, FS_CardinalityType
<1>5. SUFFICES ASSUME \A e \in p.against : ~(a > M[e][m]) PROVE FALSE
  BY <1>2
<1>6. \A e \in p.against : F[e] \in Int /\ F[e] >= a
  <2> TAKE e \in p.against
  <2>1. ~(a > F[e]) /\ a \in Int /\ F[e] \in Int
    BY <1>4, <1>5, Zenon
  <2> HIDE DEF F, a
  <2> QED BY <2>1
<1> HIDE DEF F, a, n
<1>7. SumFunctionOnSet(F, p.against) >= n * a
  BY <1>4, <1>6, SumAtLeast DEF n
<1>8. SumFunctionOnSet(F, p.against) \in Int
  BY <1>4, SumIsInt
<1>9. n * a \in Int
  BY <1>4
<1> QED
  <2>1. \A x, y \in Int : x >= y => ~(y - x > 0)
    OBVIOUS
  <2> QED BY <1>2, <1>3, <1>7, <1>8, <1>9, <2>1

\* A proposal stays sound when evaluations are taken in and what was taken in stays as it is.
LEMMA SoundStays ==
    ASSUME NEW p, NEW M, NEW S, NEW N, NEW T, S \subseteq T, \A e \in S : N[e] = M[e],
           ProposalSound(p, M, S)
    PROVE  ProposalSound(p, N, T)
<1>1. p.against \subseteq S
  BY DEF ProposalSound
<1>2. \A m \in Metrics : [e \in p.against |-> M[e][m]] = [e \in p.against |-> N[e][m]]
  BY <1>1
<1> QED BY <1>1, <1>2 DEF ProposalSound

\* Measuring a proposal.
LEMMA MeasuredIsSound ==
    ASSUME NEW p \in ProposalType, NEW M \in [Evals -> [Metrics -> Int]], NEW S \in SUBSET Evals,
           NEW A \in SUBSET S, NEW after \in [Metrics -> Int], NEW d,
           d = [m \in Metrics |-> IF A = {} THEN 0
                                  ELSE Cardinality(A) * after[m] - SumFunction([e \in A |-> M[e][m]])],
           NEW q, q = [p EXCEPT !.status = "running", !.after = after, !.against = A,
                                !.samples = Cardinality(A), !.delta = d]
    PROVE  q \in ProposalType /\ ProposalSound(q, M, S)
<1>1. IsFiniteSet(A) /\ Cardinality(A) \in Nat
  <2>1. IsFiniteSet(A)
    BY EvalsFinite, FS_Subset
  <2> QED BY <2>1, FS_CardinalityType
<1>2. ASSUME NEW m \in Metrics PROVE d[m] \in Int
  <2> DEFINE F == [e \in A |-> M[e][m]]
             n == Cardinality(A)
             a == after[m]
  <2>1. DOMAIN F = A /\ \A e \in A : F[e] \in Int
    OBVIOUS
  <2>2. d[m] = IF A = {} THEN 0 ELSE n * a - SumFunction(F)
    OBVIOUS
  <2>3. n \in Int /\ a \in Int
    BY <1>1
  <2> HIDE DEF F, n, a
  <2>4. SumFunctionOnSet(F, A) \in Int
    BY <1>1, <2>1, SumIsInt
  <2>5. SumFunction(F) \in Int
    BY <2>1, <2>4, Zenon DEF SumFunction
  <2>6. n * a \in Int
    BY <2>3
  <2>7. n * a - SumFunction(F) \in Int
    BY <2>5, <2>6
  <2> QED BY <2>2, <2>7
<1>3. d \in [Metrics -> Int]
  BY <1>2
<1>4. /\ q \in ProposalType /\ q.status = "running" /\ q.after = after /\ q.against = A
      /\ q.samples = Cardinality(A) /\ q.delta = d
  BY <1>1, <1>3 DEF ProposalType, Statuses
<1>5. \A m \in Metrics : q.delta[m] =
          IF q.against = {} THEN 0
          ELSE Cardinality(q.against) * q.after[m] - SumFunction([e \in q.against |-> M[e][m]])
  BY <1>4
<1> QED BY <1>4, <1>5 DEF ProposalSound

\* Deciding on it.
LEMMA DecidedIsSound ==
    ASSUME NEW p \in ProposalType, NEW M, NEW S, ProposalSound(p, M, S), p.status = "running",
           NEW q, q = [p EXCEPT !.status = IF Gains(p) THEN "adopted" ELSE "rejected"]
    PROVE  q \in ProposalType /\ ProposalSound(q, M, S)
<1>1. /\ q \in ProposalType /\ q.delta = p.delta /\ q.after = p.after /\ q.against = p.against
      /\ q.samples = p.samples /\ q.status = IF Gains(p) THEN "adopted" ELSE "rejected"
  BY DEF ProposalType, Statuses
<1>2. Gains(q) <=> Gains(p)
  BY <1>1 DEF Gains, TotalGain
<1> QED BY <1>1, <1>2 DEF ProposalSound

-----------------------------------------------------------------------------
(* What a step does to the proposals.                                      *)

\* A proposal more is one that was not measured yet.
LEMMA NewIsSound ==
    ASSUME ProposalsSound, NEW j \in Cycles \cup {0},
           proposals' = Append(proposals, NewProposal(j)), UNCHANGED <<measured, intake>>
    PROVE  ProposalsSound'
<1> DEFINE p == NewProposal(j)
           n == Len(proposals)
<1>1. /\ p \in ProposalType /\ p.status = "proposed" /\ p.against = {}
  BY DEF NewProposal, NoMeasure, ProposalType, Statuses
<1>2. ProposalSound(p, measured, Taken)
  BY <1>1 DEF ProposalSound
<1>3. /\ proposals \in Seq(ProposalType) /\ n \in Nat
      /\ \A k \in 1..n : ProposalSound(proposals[k], measured, Taken)
  BY DEF ProposalsSound
<1> HIDE DEF p, n
<1>4. /\ proposals' \in Seq(ProposalType) /\ Len(proposals') = n + 1 /\ proposals'[n + 1] = p
      /\ \A k \in 1..n : proposals'[k] = proposals[k]
  BY <1>1, <1>3 DEF p, n
<1>5. ASSUME NEW k \in 1..(n + 1) PROVE ProposalSound(proposals'[k], measured, Taken)
  <2>1. CASE k = n + 1
    BY <1>2, <1>4, <2>1
  <2>2. CASE k # n + 1
    <3>1. k \in 1..n
      BY <1>3, <2>2
    <3> QED BY <1>3, <1>4, <3>1
  <2> QED BY <2>1, <2>2
<1>6. measured' = measured /\ Taken' = Taken
  BY DEF Taken
<1> QED BY <1>4, <1>5, <1>6 DEF ProposalsSound

\* So are the others when one is replaced by a sound one.
LEMMA ReplacedIsSound ==
    ASSUME ProposalsSound, NEW k \in 1..Len(proposals), NEW q \in ProposalType,
           ProposalSound(q, measured, Taken),
           proposals' = [proposals EXCEPT ![k] = q], UNCHANGED <<measured, intake>>
    PROVE  ProposalsSound'
<1> DEFINE n == Len(proposals)
<1>1. /\ proposals \in Seq(ProposalType) /\ n \in Nat
      /\ \A l \in 1..n : ProposalSound(proposals[l], measured, Taken)
  BY DEF ProposalsSound
<1>2. /\ proposals' \in Seq(ProposalType) /\ Len(proposals') = n
      /\ \A l \in 1..n : proposals'[l] = IF l = k THEN q ELSE proposals[l]
  BY <1>1
<1> HIDE DEF n
<1>3. \A l \in 1..n : ProposalSound(proposals'[l], measured, Taken)
  BY <1>1, <1>2
<1>4. measured' = measured /\ Taken' = Taken
  BY DEF Taken
<1> QED BY <1>2, <1>3, <1>4 DEF ProposalsSound

\* An evaluation that comes in was not measured against.
LEMMA OldStaySound ==
    ASSUME ProposalsSound, Taken \subseteq Taken', \A e \in Taken : measured'[e] = measured[e],
           UNCHANGED proposals
    PROVE  ProposalsSound'
<1>1. ASSUME NEW k \in 1..Len(proposals) PROVE ProposalSound(proposals[k], measured', Taken')
  <2>1. ProposalSound(proposals[k], measured, Taken)
    BY DEF ProposalsSound
  <2> QED BY <2>1, SoundStays
<1> QED BY <1>1 DEF ProposalsSound

\* Every step leaves the proposals sound.
LEMMA ProposalsStep == EvidenceTyped /\ ProposalsSound /\ [Next]_vars => ProposalsSound'
<1> SUFFICES ASSUME EvidenceTyped, ProposalsSound, [Next]_vars PROVE ProposalsSound'
  OBVIOUS
<1>1. CASE UNCHANGED <<proposals, measured, intake>>
  BY <1>1, OldStaySound DEF Taken
<1>2. ASSUME NEW e \in Evals, NEW m \in Measures, Ingest(e, m) PROVE ProposalsSound'
  <2>1. /\ intake[e] = "new" /\ measured' = [measured EXCEPT ![e] = m] /\ proposals' = proposals
        /\ intake' = [intake EXCEPT ![e] = IF persistent THEN "store" ELSE "over"]
    BY <1>2 DEF Ingest
  <2>2. Taken \subseteq Taken' /\ \A f \in Taken : measured'[f] = measured[f]
    BY <2>1 DEF Taken, EvidenceTyped
  <2> QED BY <2>1, <2>2, OldStaySound
<1>3. ASSUME NEW e \in Evals, IngestStored(e) PROVE ProposalsSound'
  <2>1. /\ intake[e] = "store" /\ intake' = [intake EXCEPT ![e] = "over"]
        /\ UNCHANGED <<proposals, measured>>
    BY <1>3 DEF IngestStored
  <2>2. Taken \subseteq Taken'
    BY <2>1 DEF Taken, EvidenceTyped
  <2> QED BY <2>1, <2>2, OldStaySound
<1>4. CASE Propose
  BY <1>4, NewIsSound DEF Propose, evalVars
<1>5. ASSUME NEW i \in Cycles, ProposeFor(i) PROVE ProposalsSound'
  BY <1>5, NewIsSound DEF ProposeFor, evalVars
<1>6. \A k \in DOMAIN proposals : k \in 1..Len(proposals) /\ proposals[k] \in ProposalType
  BY DEF ProposalsSound
<1>7. ASSUME NEW k \in DOMAIN proposals, NEW m \in Measures, Evaluate(k, m) PROVE ProposalsSound'
  <2> DEFINE p == proposals[k]
             A == Evaluations
             d == [x \in Metrics |-> IF A = {} THEN 0 ELSE Cardinality(A) * m[x] - Total(A, x)]
             q == [p EXCEPT !.status = "running", !.after = m, !.against = A,
                            !.samples = Cardinality(A), !.delta = d]
  <2>1. proposals' = [proposals EXCEPT ![k] = q] /\ UNCHANGED <<measured, intake>>
    BY <1>7 DEF Evaluate, evalVars
  <2>2. A \subseteq Taken
    BY DEF Evaluations, EvidenceTyped, ToSet
  <2>3. d = [x \in Metrics |-> IF A = {} THEN 0
                 ELSE Cardinality(A) * m[x] - SumFunction([e \in A |-> measured[e][x]])]
    BY DEF Total
  <2>4. m \in [Metrics -> Int] /\ measured \in [Evals -> [Metrics -> Int]] /\ Taken \subseteq Evals
    BY SelfReviewAssumption DEF EvidenceTyped, Taken
  <2>5. p \in ProposalType
    BY <1>6
  <2> HIDE DEF p, A, d
  <2>6. q \in ProposalType /\ ProposalSound(q, measured, Taken)
    BY <2>2, <2>3, <2>4, <2>5, MeasuredIsSound
  <2> HIDE DEF q
  <2> QED BY <1>6, <2>1, <2>6, ReplacedIsSound
<1>8. ASSUME NEW k \in DOMAIN proposals, AdoptIfGain(k) PROVE ProposalsSound'
  <2> DEFINE p == proposals[k]
             q == [p EXCEPT !.status = IF Gains(p) THEN "adopted" ELSE "rejected"]
  <2>1. p.status = "running" /\ proposals' = [proposals EXCEPT ![k] = q] /\ UNCHANGED <<measured, intake>>
    BY <1>8 DEF AdoptIfGain, evalVars
  <2>2. p \in ProposalType /\ ProposalSound(p, measured, Taken)
    BY <1>6 DEF ProposalsSound
  <2> HIDE DEF p
  <2>3. q \in ProposalType /\ ProposalSound(q, measured, Taken)
    BY <2>1, <2>2, DecidedIsSound
  <2> HIDE DEF q
  <2> QED BY <1>6, <2>1, <2>3, ReplacedIsSound
<1>9. CASE Crash
  BY <1>9 DEF Crash, ProposalsSound
<1>10. CASE StartScheduler \/ StopScheduler \/ UNCHANGED vars
            \/ \E i \in Cycles : \/ \E who \in {"tick", "request"} : Begin(i, who)
                                 \/ AskModel(i) \/ WriteReport(i) \/ PublishOutcome(i)
  <2>1. UNCHANGED <<proposals, evalVars>>
    BY <1>10 DEF StartScheduler, StopScheduler, vars, Begin, AskModel, WriteReport, PublishOutcome
  <2> QED BY <1>1, <2>1 DEF evalVars
<1> QED BY <1>2, <1>3, <1>4, <1>5, <1>7, <1>8, <1>9, <1>10 DEF Next, CycleStep

-----------------------------------------------------------------------------
(* The window, the store and the scheduler.                                *)

\* Every step leaves the evaluations where they were taken in.
LEMMA EvidenceTypedStep == EvidenceTyped /\ [Next]_vars => EvidenceTyped'
<1> SUFFICES ASSUME EvidenceTyped, [Next]_vars PROVE EvidenceTyped'
  OBVIOUS
<1> USE DEF EvidenceTyped
<1>1. CASE UNCHANGED evalVars
  BY <1>1 DEF evalVars, Taken
<1>2. ASSUME NEW e \in Evals, NEW m \in Measures, Ingest(e, m) PROVE EvidenceTyped'
  <2>1. /\ measured' = [measured EXCEPT ![e] = m] /\ window' = Kept(Append(window, e))
        /\ intake' = [intake EXCEPT ![e] = IF persistent THEN "store" ELSE "over"]
        /\ acked' = (IF persistent THEN acked ELSE acked \cup {e}) /\ rows' = rows
    BY <1>2 DEF Ingest
  <2>2. m \in [Metrics -> Int] /\ Window \in Nat
    BY SelfReviewAssumption
  <2>3. intake' \in [Evals -> {"new", "store", "over"}] /\ measured' \in [Evals -> [Metrics -> Int]]
    BY <2>1, <2>2
  <2>4. Taken' = Taken \cup {e}
    BY <2>1 DEF Taken
  <2> DEFINE u == Append(window, e)
  <2>5. u \in Seq(Taken') /\ Len(u) \in Nat
    <3> HIDE DEF EvidenceTyped
    <3>1. window \in Seq(Taken) /\ Taken \subseteq Taken' /\ e \in Taken'
      BY <2>4 DEF EvidenceTyped
    <3>2. window \in Seq(Taken')
      BY <3>1
    <3> QED BY <3>1, <3>2
  <2> HIDE DEF u
  <2>6. Kept(u) = Newest(u, Window)
    <3>1. SubSeq(u, 1, Len(u)) = u
      BY <2>5, SubSeqFull
    <3> QED BY <3>1 DEF Kept, Newest
  <2>7. Newest(u, Window) \in Seq(Taken') /\ Len(Newest(u, Window)) <= Window
    <3> DEFINE n == Len(u)
               d == IF n > Window THEN n - Window ELSE 0
    <3>1. Newest(u, Window) \in Seq(Taken') /\ Len(Newest(u, Window)) = n - d
      BY <2>2, <2>5, NewestIs
    <3>2. n - d <= Window
      BY <2>2, <2>5
    <3> QED BY <3>1, <3>2
  <2>8. window' \in Seq(Taken') /\ Len(window') <= Window
    BY <2>1, <2>6, <2>7 DEF u
  <2>9. rows' \subseteq Taken' /\ acked' \subseteq Taken'
    BY <2>1, <2>4
  <2> QED BY <2>3, <2>8, <2>9
<1>3. ASSUME NEW e \in Evals, IngestStored(e) PROVE EvidenceTyped'
  <2>1. /\ intake[e] = "store" /\ intake' = [intake EXCEPT ![e] = "over"]
        /\ rows' \subseteq rows \cup {e} /\ acked' \subseteq acked \cup {e}
        /\ UNCHANGED <<measured, window>>
    BY <1>3 DEF IngestStored
  <2>2. Taken' = Taken /\ e \in Taken
    BY <2>1 DEF Taken
  <2> QED BY <2>1, <2>2
<1>4. CASE Crash
  <2>1. /\ intake' = [e \in Evals |-> IF intake[e] = "new" THEN "new" ELSE "over"]
        /\ window' = <<>> /\ acked' \subseteq acked /\ UNCHANGED <<measured, rows>>
    BY <1>4 DEF Crash
  <2>2. Taken' = Taken /\ intake' \in [Evals -> {"new", "store", "over"}]
    BY <2>1 DEF Taken
  <2>3. window' \in Seq(Taken') /\ Len(window') <= Window
    BY <2>1, SelfReviewAssumption
  <2> QED BY <2>1, <2>2, <2>3
<1>5. CASE StartScheduler \/ StopScheduler \/ Propose \/ UNCHANGED vars
           \/ (\E i \in Cycles : \/ \E who \in {"tick", "request"} : Begin(i, who)
                                 \/ CycleStep(i))
           \/ (\E k \in DOMAIN proposals : (\E m \in Measures : Evaluate(k, m)) \/ AdoptIfGain(k))
  <2>1. UNCHANGED evalVars
    BY <1>5 DEF StartScheduler, StopScheduler, Propose, vars, Begin, CycleStep, AskModel, WriteReport,
                ProposeFor, PublishOutcome, Evaluate, AdoptIfGain
  <2> QED BY <1>1, <2>1
<1> QED BY <1>2, <1>3, <1>4, <1>5 DEF Next

\* A stage of a cycle that is not over.
Busy == Started \cup {"new"}

\* The scheduler begins a cycle when it wakes up and sleeps again when that is over.
LEMMA SchedulerStep == CyclesInv /\ SchedulerInv /\ [Next]_vars => SchedulerInv'
<1> SUFFICES ASSUME CyclesInv, SchedulerInv, [Next]_vars PROVE SchedulerInv'
  OBVIOUS
<1> USE DEF SchedulerInv
<1>0. stage \in [Cycles -> Busy \cup {"over", "lost"}] /\ \A x \in Busy : x \notin {"over", "lost"}
  BY DEF CyclesInv, Busy, Started, Answers
<1>1. CASE UNCHANGED cycleVars
  BY <1>1 DEF cycleVars, Ticks
<1>2. CASE StartScheduler \/ StopScheduler
  BY <1>2 DEF StartScheduler, StopScheduler, Ticks
<1>3. ASSUME NEW i \in Cycles, NEW who \in {"tick", "request"}, Begin(i, who) PROVE SchedulerInv'
  <2>1. /\ stage[i] = "new" /\ kind' = [kind EXCEPT ![i] = who]
        /\ who = "tick" => scheduler = "asleep"
        /\ \/ stage' = [stage EXCEPT ![i] = "over"] /\ scheduler' = scheduler
           \/ /\ stage' = [stage EXCEPT ![i] = "asking"]
              /\ scheduler' = IF who = "tick" THEN "ticking" ELSE scheduler
        /\ UNCHANGED reports
    BY <1>3 DEF Begin
  <2>2. /\ scheduler' \in {"off", "asleep", "ticking"} /\ kind' \in [Cycles -> {"tick", "request"}]
        /\ reports' \subseteq Cycles /\ \A j \in Cycles : stage'[j] = "new" => kind'[j] = "request"
    BY <1>0, <2>1
  <2>3. CASE stage' = [stage EXCEPT ![i] = "over"] /\ scheduler' = scheduler
    <3>1. Ticks' = Ticks
      BY <1>0, <2>1, <2>3 DEF Ticks
    <3> QED BY <2>2, <2>3, <3>1
  <2>4. CASE who = "request" /\ stage' = [stage EXCEPT ![i] = "asking"] /\ scheduler' = scheduler
    <3>1. Ticks' = Ticks
      BY <1>0, <2>1, <2>4 DEF Ticks
    <3> QED BY <2>2, <2>4, <3>1
  <2>5. CASE who = "tick" /\ stage' = [stage EXCEPT ![i] = "asking"] /\ scheduler' = "ticking"
    <3>1. Ticks' = Ticks \cup {i} /\ Ticks = {}
      BY <1>0, <2>1, <2>5 DEF Ticks
    <3> QED BY <2>2, <2>5, <3>1
  <2> QED BY <2>1, <2>3, <2>4, <2>5
<1>4. ASSUME NEW i \in Cycles, AskModel(i) \/ WriteReport(i) \/ ProposeFor(i) PROVE SchedulerInv'
  <2>1. /\ stage[i] \in Started
        /\ \E x \in Started : stage' = [stage EXCEPT ![i] = x]
        /\ reports' \subseteq reports \cup {i} /\ UNCHANGED <<scheduler, kind>>
    BY <1>4 DEF AskModel, WriteReport, ProposeFor, AfterReport, Started, Answers
  <2>2. \A x \in Started : x \in Busy /\ x # "new"
    BY DEF Started, Busy, Answers
  <2>3. Ticks' = Ticks
    BY <1>0, <2>1, <2>2 DEF Ticks
  <2> QED BY <1>0, <2>1, <2>2, <2>3
<1>5. ASSUME NEW i \in Cycles, PublishOutcome(i) PROVE SchedulerInv'
  <2>1. /\ stage[i] \in {"failed", "quiet", "proposed"} /\ stage' = [stage EXCEPT ![i] = "over"]
        /\ scheduler' = (IF kind[i] = "tick" THEN "asleep" ELSE scheduler) /\ UNCHANGED <<kind, reports>>
    BY <1>5 DEF PublishOutcome, SchedulerAfter
  <2>2. Ticks' = Ticks \ {i} /\ (kind[i] = "tick" <=> i \in Ticks)
    BY <1>0, <2>1 DEF Ticks
  <2>3. \A j \in Cycles : stage'[j] = "new" => stage[j] = "new"
    BY <1>0, <2>1
  <2> QED BY <2>1, <2>2, <2>3
<1>6. CASE Crash
  <2>1. /\ scheduler' = "off" /\ reports' = {} /\ kind' = kind
        /\ stage' = [i \in Cycles |-> IF stage[i] = "new" THEN "new" ELSE "lost"]
    BY <1>6 DEF Crash
  <2>2. Ticks' = {}
    BY <1>0, <2>1 DEF Ticks
  <2> QED BY <2>1, <2>2
<1>7. CASE Propose \/ UNCHANGED vars
           \/ (\E e \in Evals : (\E m \in Measures : Ingest(e, m)) \/ IngestStored(e))
           \/ (\E k \in DOMAIN proposals : (\E m \in Measures : Evaluate(k, m)) \/ AdoptIfGain(k))
  <2>1. UNCHANGED cycleVars
    BY <1>7 DEF Propose, vars, Ingest, IngestStored, Evaluate, AdoptIfGain
  <2> QED BY <1>1, <2>1
<1> QED BY <1>2, <1>3, <1>4, <1>5, <1>6, <1>7 DEF Next, CycleStep

\* "Adopts ONLY proposals that produce measurable gains" (engine.py 4): with any evaluations, any
\* restarts and any proposals at once, what was adopted did better in something than an evaluation
\* it was measured against; and the scheduler runs one cycle at a time (reflection.py 194-202).
THEOREM AdoptionsRestOnEvidence == Spec => []SelfReviewInv
<1>1. Init => ReviewInv
  <2> SUFFICES ASSUME Init PROVE ReviewInv
    OBVIOUS
  <2>1. CyclesInv
    BY DEF Init, CyclesInv, ProposalsTyped, EventsAt, LeftAt, By, Started, Answers
  <2>2. SchedulerInv
    BY DEF Init, SchedulerInv, Ticks
  <2>3. EvidenceTyped
    <3>1. /\ intake = [e \in Evals |-> "new"] /\ window = <<>> /\ rows = {} /\ acked = {}
          /\ measured = [e \in Evals |-> NoMeasure]
      BY DEF Init
    <3>2. NoMeasure \in [Metrics -> Int]
      BY DEF NoMeasure
    <3>3. window \in Seq(Taken) /\ Len(window) <= Window
      BY <3>1, SelfReviewAssumption
    <3> QED BY <3>1, <3>2, <3>3 DEF EvidenceTyped
  <2>4. ProposalsSound
    BY DEF Init, ProposalsSound
  <2> QED BY <2>1, <2>2, <2>3, <2>4 DEF Init, ReviewInv
<1>2. ReviewInv /\ [Next]_vars => ReviewInv'
  <2> SUFFICES ASSUME ReviewInv, [Next]_vars PROVE ReviewInv'
    OBVIOUS
  <2>1. CyclesInv' /\ SchedulerInv' /\ EvidenceTyped' /\ ProposalsSound'
    BY CyclesKept, SchedulerStep, EvidenceTypedStep, ProposalsStep DEF ReviewInv
  <2>2. UNCHANGED settings
    BY DEF Next, vars, StartScheduler, StopScheduler, Begin, CycleStep, AskModel, WriteReport, ProposeFor,
           PublishOutcome, Ingest, IngestStored, Propose, Evaluate, AdoptIfGain, Crash
  <2> QED BY <2>1, <2>2 DEF ReviewInv, settings
<1>3. ReviewInv => SelfReviewInv
  <2> SUFFICES ASSUME ReviewInv PROVE SelfReviewInv
    OBVIOUS
  <2>1. Cardinality(Ticks) = IF scheduler = "ticking" THEN 1 ELSE 0
    BY FS_EmptySet, FS_Singleton DEF ReviewInv, SchedulerInv
  <2>2. Taken \subseteq Evals /\ ToSet(window) \subseteq Taken
    BY DEF ReviewInv, EvidenceTyped, Taken, ToSet
  <2>3. \A k \in DOMAIN proposals : proposals[k] \in ProposalType /\ ProposalSound(proposals[k], measured, Taken)
    BY DEF ReviewInv, ProposalsSound
  <2>4. SelfReviewTypeOK
    BY <2>1, <2>2, <2>3 DEF SelfReviewTypeOK, ReviewInv, CyclesInv, SchedulerInv, EvidenceTyped, Ticks,
                            ProposalType, Statuses, Started
  <2>5. AdoptedOnEvidence
    BY <2>3, AdoptedIsBetter DEF AdoptedOnEvidence, ReviewInv, EvidenceTyped
  <2> QED BY <2>4, <2>5 DEF SelfReviewInv
<1> QED BY <1>1, <1>2, <1>3, PTL DEF Spec
=============================================================================
