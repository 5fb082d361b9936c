------------------------------ MODULE FleetProofs ------------------------------
(***************************************************************************)
(* What holds of a fleet with any number of nodes, requests, tasks and     *)
(* terms, over both storages and through crashes.                          *)
(***************************************************************************)
EXTENDS Fleet, FiniteOrders

\* The parts of the assumption, for the provers.
LEMMA Settings ==
    /\ Nodes \subseteq Nat /\ 0 \notin Nodes /\ IsFiniteSet(Nodes)
    /\ NodeOf \in [Threads -> Nodes] /\ IsFiniteSet(Threads)
    /\ Capacities \subseteq Nat /\ 0 \notin Capacities
    /\ LeaseTime \in Nat /\ LeaseTime # 0
    /\ MaxTerm \in Nat /\ MaxTasks \in Nat /\ MaxClock \in Nat
<1>1. {MaxTerm, MaxTasks, MaxClock} \subseteq Nat
  BY FleetAssumption
<1>. QED
  BY <1>1, FleetAssumption DEF NoNode

-----------------------------------------------------------------------------
(* Winners and first rows exist.                                           *)

\* A set of row ids has a first one.
LEMMA FirstRow ==
    ASSUME NEW S \in SUBSET Tasks, S # {}
    PROVE  FirstOf(S) \in S /\ \A j \in S : FirstOf(S) <= j
<1>. DEFINE R == {p \in Nat \X Nat : p[1] < p[2]}
<1>1. IsFiniteSet(S) /\ S \subseteq Nat
  <2>1. IsFiniteSet(Tasks) /\ Tasks \subseteq Nat
    BY FS_Interval, Settings DEF Tasks
  <2>. QED
    BY <2>1, FS_Subset
<1>2. /\ \A x, y \in S : x = y \/ <<x, y>> \in R \/ <<y, x>> \in R
      /\ \A x, y, z \in S : <<x, y>> \in R /\ <<y, z>> \in R => <<x, z>> \in R
  BY <1>1
<1>3. PICK m \in S : \A n \in S \ {m} : <<m, n>> \in R
  <2>. HIDE DEF R
  <2>. QED
    BY <1>1, <1>2, FirstInOrder
<1>4. \A j \in S : m <= j
  <2>1. m \in Nat
    BY <1>1
  <2>2. \A j \in S \ {m} : m < j
    BY <1>3
  <2>. QED
    BY <1>1, <2>1, <2>2
<1>. QED
  BY <1>4 DEF FirstOf

\* The winner of an election is announced and comes before every other node.
LEMMA BestWins ==
    ASSUME FleetTypeOK, Announced # {}
    PROVE  Best \in Announced /\ \A n \in Announced \ {Best} : Beats(Best, n)
<1>. DEFINE R == {p \in Nodes \X Nodes : Beats(p[1], p[2])}
<1>1. IsFiniteSet(Announced) /\ Announced \subseteq Nodes /\ Nodes \subseteq Nat
  <2>1. Announced \in SUBSET Nodes
    BY DEF Announced
  <2>. QED
    BY <2>1, FS_Subset, Settings
<1>2. \A n \in Nodes : registry[n] \in Nat
  <2>1. registry \in [Nodes -> Capacities \cup {0}]
    BY DEF FleetTypeOK
  <2>2. Capacities \cup {0} \subseteq Nat
    BY Settings
  <2>. QED
    BY <2>1, <2>2
<1>3. /\ \A x, y \in Announced : x = y \/ <<x, y>> \in R \/ <<y, x>> \in R
      /\ \A x, y, z \in Announced : <<x, y>> \in R /\ <<y, z>> \in R => <<x, z>> \in R
  BY <1>1, <1>2 DEF Beats
<1>4. PICK m \in Announced : \A n \in Announced \ {m} : <<m, n>> \in R
  <2>1. IsFiniteSet(Announced)
    BY <1>1
  <2>. HIDE DEF R
  <2>. QED
    BY <1>3, <2>1, FirstInOrder
<1>5. \A n \in Announced \ {m} : Beats(m, n)
  BY <1>4
<1>. QED
  BY <1>5 DEF Best

-----------------------------------------------------------------------------
(* Type correctness.  Terms stay within the budget because every election  *)
(* under way has room for the term it may add.                             *)

TermsFit ==
    /\ leader.term \in Terms
    /\ \A t \in Threads : read[t] \in Terms
    /\ \A m \in Terms : m + Cardinality(Electing) <= budget.terms

\* Whoever takes part in an election is announced, and knows a winner once it has
\* read the nodes.
EntrantsKnown ==
    \A t \in Electing : /\ NodeOf[t] \in Announced
                        /\ (pc[t] # "nodes" => best[t] \in Nodes)

TypeInv == FleetTypeOK /\ TermsFit /\ EntrantsKnown

\* Terms and the number of elections under way are natural numbers.
LEMMA TermsAreNat == FleetTypeOK => Terms \subseteq Nat
<1>. SUFFICES ASSUME FleetTypeOK PROVE Terms \subseteq Nat
  OBVIOUS
<1>1. held \subseteq Held
  BY DEF FleetTypeOK
<1>2. \A x \in Held : x.term \in Nat
  BY Settings DEF Held
<1>. QED
  BY <1>1, <1>2 DEF Terms

\* Few enough requests to count are in an election.
LEMMA ElectingFinite == IsFiniteSet(Electing) /\ Cardinality(Electing) \in Nat
<1>1. Electing \in SUBSET Threads
  BY DEF Electing
<1>. QED
  BY <1>1, Settings, FS_Subset, FS_CardinalityType

\* Requests that leave an election leave the others where they are.
LEMMA LeaveTypes ==
    ASSUME FleetTypeOK, NEW S, Leave(S)
    PROVE  /\ pc' \in [Threads -> {"idle", "nodes", "leader", "write"}]
           /\ best' \in [Threads -> Nodes \cup {NoNode}]
           /\ read' \in [Threads -> 0..MaxTerm]
           /\ fresh' \in [Threads -> BOOLEAN]
           /\ Electing' = Electing \ S
           /\ \A t \in Threads : read'[t] \in {0, read[t]}
<1>1. /\ pc \in [Threads -> {"idle", "nodes", "leader", "write"}]
      /\ best \in [Threads -> Nodes \cup {NoNode}]
      /\ read \in [Threads -> 0..MaxTerm]
      /\ fresh \in [Threads -> BOOLEAN]
  BY DEF FleetTypeOK
<1>2. 0 \in 0..MaxTerm
  BY Settings
<1>3. pc' \in [Threads -> {"idle", "nodes", "leader", "write"}]
  BY <1>1 DEF Leave
<1>4. best' \in [Threads -> Nodes \cup {NoNode}]
  BY <1>1 DEF Leave
<1>5. read' \in [Threads -> 0..MaxTerm] /\ \A t \in Threads : read'[t] \in {0, read[t]}
  BY <1>1, <1>2 DEF Leave
<1>6. fresh' \in [Threads -> BOOLEAN]
  BY <1>1 DEF Leave
<1>7. Electing' = Electing \ S
  BY <1>1 DEF Leave, Electing
<1>. QED
  BY <1>3, <1>4, <1>5, <1>6, <1>7

\* An announcement enters its node and takes nobody out.
LEMMA EnterTypes ==
    ASSUME FleetTypeOK, NEW n \in Nodes, Enter(n)
    PROVE  /\ registry' \in [Nodes -> Capacities \cup {0}]
           /\ fresh' \in [Threads -> BOOLEAN]
           /\ settled' \in BOOLEAN
           /\ Announced' = Announced \cup {n}
<1>1. /\ registry \in [Nodes -> Capacities \cup {0}] /\ capacity \in [Nodes -> Capacities]
      /\ fresh \in [Threads -> BOOLEAN] /\ settled \in BOOLEAN
  BY DEF FleetTypeOK
<1>2. registry' = [registry EXCEPT ![n] = capacity[n]]
  BY DEF Enter
<1>3. fresh' \in [Threads -> BOOLEAN] /\ settled' \in BOOLEAN
  BY <1>1 DEF Enter
<1>4. capacity[n] \in Nat /\ capacity[n] > 0
  <2>1. capacity[n] \in Capacities
    BY <1>1
  <2>2. \A c \in Capacities : c \in Nat /\ c > 0
    BY Settings
  <2>. QED
    BY <2>1, <2>2
<1>5. Announced' = Announced \cup {n}
  BY <1>1, <1>2, <1>4 DEF Announced
<1>. QED
  BY <1>1, <1>2, <1>3, <1>5

\* With fewer elections and no new term the budget still suffices.
LEMMA StillFits ==
    ASSUME FleetTypeOK, TermsFit, NEW S, Electing' = Electing \ S, held' = held, budget' = budget,
           leader'.term \in Terms, \A t \in Threads : read'[t] \in Terms
    PROVE  TermsFit'
<1>1. Terms' = Terms
  BY DEF Terms
<1>2. Electing' \in SUBSET Electing
  OBVIOUS
<1>3. Cardinality(Electing') <= Cardinality(Electing) /\ Cardinality(Electing') \in Nat
  BY <1>2, ElectingFinite, FS_Subset, FS_CardinalityType
<1>4. \A m \in Terms : m + Cardinality(Electing') <= budget.terms
  <2>1. TAKE m \in Terms
  <2>2. m \in Nat /\ budget.terms \in Nat
    BY TermsAreNat, Settings, FleetAssumption DEF FleetTypeOK
  <2>. QED
    BY <1>3, <2>2, ElectingFinite DEF TermsFit
<1>. QED
  BY <1>1, <1>4 DEF TermsFit

\* A fleet starts well typed.
LEMMA InitTyped == Init => TypeInv
<1>. SUFFICES ASSUME Init PROVE TypeInv
  OBVIOUS
<1>1. FleetTypeOK
  <2>1. 0 \in 0..MaxTerm /\ 0 \in 0..MaxClock /\ 0 \in 0 .. MaxClock + LeaseTime
    BY Settings
  <2>. QED
    BY <2>1 DEF Init, FleetTypeOK
<1>2. Electing = {} /\ Terms = {0}
  BY DEF Init, Electing, Terms
<1>3. budget.terms \in Nat
  BY FleetAssumption, Settings DEF Init
<1>4. TermsFit
  BY <1>2, <1>3, FS_EmptySet DEF Init, TermsFit, NoLeader
<1>. QED
  BY <1>1, <1>2, <1>4 DEF TypeInv, EntrantsKnown

\* The election steps keep the types.
LEMMA ElectionTyped ==
    ASSUME TypeInv, NEW t \in Threads,
           Elect(t) \/ ReadNodes(t) \/ ReadLeader(t) \/ WriteLeader(t)
    PROVE  TypeInv'
<1>1. /\ FleetTypeOK /\ TermsFit /\ EntrantsKnown
      /\ NodeOf[t] \in Nodes
      /\ Terms \subseteq Nat /\ leader \in Held \cup {NoLeader} /\ budget \in Budgets
      /\ pc \in [Threads -> {"idle", "nodes", "leader", "write"}]
      /\ best \in [Threads -> Nodes \cup {NoNode}] /\ read \in [Threads -> 0..MaxTerm]
      /\ fresh \in [Threads -> BOOLEAN]
  BY TermsAreNat, Settings DEF TypeInv, FleetTypeOK
<1>2. budget.terms \in 0..MaxTerm
  BY <1>1, FleetAssumption
<1>3. ASSUME Elect(t) PROVE TypeInv'
  <2>1. /\ registry' \in [Nodes -> Capacities \cup {0}] /\ fresh' \in [Threads -> BOOLEAN]
        /\ settled' \in BOOLEAN /\ Announced' = Announced \cup {NodeOf[t]}
    BY <1>1, <1>3, EnterTypes DEF Elect
  <2>2. pc' = [pc EXCEPT ![t] = "nodes"] /\ t \notin Electing
    BY <1>3 DEF Elect, Electing
  <2>3. Electing' = Electing \cup {t} /\ Terms' = Terms
    BY <1>1, <1>3, <2>2 DEF Elect, Electing, Terms
  <2>4. Cardinality(Electing') = Cardinality(Electing) + 1
    BY <2>2, <2>3, ElectingFinite, FS_AddElement
  <2>5. FleetTypeOK'
    BY <1>1, <1>3, <2>1, <2>2 DEF Elect, FleetTypeOK, settings, queueVars
  <2>6. \A m \in Terms : m + Cardinality(Electing) < budget.terms
    BY <1>3 DEF Elect
  <2>7. \A m \in Terms : m + Cardinality(Electing') <= budget.terms
    BY <1>1, <1>2, <2>4, <2>6, ElectingFinite
  <2>8. TermsFit'
    BY <1>1, <1>3, <2>3, <2>7 DEF Elect, TermsFit, settings
  <2>9. EntrantsKnown'
    <3>1. SUFFICES ASSUME NEW u \in Electing'
                   PROVE  NodeOf[u] \in Announced' /\ (pc'[u] # "nodes" => best'[u] \in Nodes)
      BY DEF EntrantsKnown
    <3>2. CASE u = t
      BY <1>1, <2>1, <2>2, <3>2
    <3>3. CASE u # t
      <4>1. u \in Electing /\ u \in Threads
        BY <2>3, <3>3 DEF Electing
      <4>2. pc'[u] = pc[u] /\ best'[u] = best[u]
        BY <1>1, <1>3, <2>2, <3>3, <4>1 DEF Elect
      <4>. QED
        BY <1>1, <2>1, <4>1, <4>2 DEF EntrantsKnown
    <3>. QED
      BY <3>2, <3>3
  <2>. QED
    BY <2>5, <2>8, <2>9 DEF TypeInv
<1>4. ASSUME ReadNodes(t) PROVE TypeInv'
  <2>1. t \in Electing
    BY <1>4 DEF ReadNodes, Electing
  <2>2. Best \in Nodes
    <3>1. Announced # {}
      BY <1>1, <2>1 DEF EntrantsKnown
    <3>2. Best \in Announced
      BY <1>1, <3>1, BestWins
    <3>. QED
      BY <3>2 DEF Announced
  <2>3. FleetTypeOK'
    BY <1>1, <1>4, <2>2 DEF ReadNodes, FleetTypeOK, settings, queueVars
  <2>4. Electing' = Electing \ {} /\ Announced' = Announced
    BY <1>1, <1>4, <2>1 DEF ReadNodes, Electing, Announced
  <2>5. TermsFit'
    BY <1>1, <1>4, <2>4, StillFits DEF ReadNodes, TermsFit, settings
  <2>6. EntrantsKnown'
    BY <1>1, <1>4, <2>2, <2>4 DEF ReadNodes, EntrantsKnown
  <2>. QED
    BY <2>3, <2>5, <2>6 DEF TypeInv
<1>5. ASSUME ReadLeader(t) PROVE TypeInv'
  <2>1. CASE best[t] = NodeOf[t]
    <3>1. /\ pc' = [pc EXCEPT ![t] = "write"] /\ read' = [read EXCEPT ![t] = leader.term]
          /\ UNCHANGED <<best, reported, fresh>> /\ t \in Electing
      BY <1>5, <2>1 DEF ReadLeader, Electing
    <3>2. leader.term \in 0..MaxTerm
      BY <1>1, Settings DEF Held, NoLeader
    <3>3. FleetTypeOK'
      BY <1>1, <1>5, <3>1, <3>2 DEF ReadLeader, FleetTypeOK, settings, queueVars
    <3>4. Electing' = Electing \ {} /\ Announced' = Announced
      BY <1>1, <1>5, <3>1 DEF ReadLeader, Electing, Announced
    <3>5. TermsFit'
      BY <1>1, <1>5, <3>1, <3>4, StillFits DEF ReadLeader, TermsFit, settings
    <3>6. EntrantsKnown'
      BY <1>1, <1>5, <3>1, <3>4 DEF ReadLeader, EntrantsKnown
    <3>. QED
      BY <3>3, <3>5, <3>6 DEF TypeInv
  <2>2. CASE best[t] # NodeOf[t]
    <3>1. Leave({t}) /\ reported' = reported \cup ReportOf(t)
      BY <1>5, <2>2 DEF ReadLeader, Return
    <3>2. ReportOf(t) \subseteq Held
      <4>1. best[t] \in Nodes
        <5>1. pc[t] = "leader" /\ t \in Electing
          BY <1>5 DEF ReadLeader, Electing
        <5>. QED
          BY <1>1, <5>1 DEF EntrantsKnown
      <4>. QED
        BY <1>1, <4>1, Settings DEF ReportOf, NoLeader, NoNode
    <3>3. /\ pc' \in [Threads -> {"idle", "nodes", "leader", "write"}]
          /\ best' \in [Threads -> Nodes \cup {NoNode}] /\ read' \in [Threads -> 0..MaxTerm]
          /\ fresh' \in [Threads -> BOOLEAN] /\ Electing' = Electing \ {t}
          /\ \A u \in Threads : read'[u] \in {0, read[u]}
      BY <1>1, <3>1, LeaveTypes
    <3>4. FleetTypeOK'
      BY <1>1, <1>5, <3>1, <3>2, <3>3 DEF ReadLeader, FleetTypeOK, settings, queueVars
    <3>5. TermsFit'
      <4>1. \A u \in Threads : read'[u] \in Terms
        BY <1>1, <3>3 DEF Terms, TermsFit
      <4>. QED
        BY <1>1, <1>5, <3>3, <4>1, StillFits DEF ReadLeader, TermsFit, settings
    <3>6. EntrantsKnown'
      BY <1>1, <1>5, <3>1, <3>3 DEF ReadLeader, Leave, Announced, Electing, EntrantsKnown
    <3>. QED
      BY <3>4, <3>5, <3>6 DEF TypeInv
  <2>. QED
    BY <2>1, <2>2
<1>6. ASSUME WriteLeader(t) PROVE TypeInv'
  <2>1. /\ pc' \in [Threads -> {"idle", "nodes", "leader", "write"}]
        /\ best' \in [Threads -> Nodes \cup {NoNode}] /\ read' \in [Threads -> 0..MaxTerm]
        /\ fresh' \in [Threads -> BOOLEAN] /\ Electing' = Electing \ {t}
        /\ \A u \in Threads : read'[u] \in {0, read[u]}
    BY <1>1, <1>6, LeaveTypes DEF WriteLeader, Return
  <2>2. /\ t \in Electing /\ read[t] \in Terms /\ read[t] \in Nat
        /\ \A m \in Terms : m + Cardinality(Electing) <= budget.terms
    BY <1>1, <1>6 DEF WriteLeader, Electing, TermsFit
  <2>3. Cardinality(Electing') = Cardinality(Electing) - 1 /\ Cardinality(Electing') \in Nat
    <3>1. Cardinality(Electing') = Cardinality(Electing) - 1
      BY <2>1, <2>2, ElectingFinite, FS_RemoveElement
    <3>2. IsFiniteSet(Electing')
      BY <2>1, ElectingFinite, FS_RemoveElement
    <3>. QED
      BY <3>1, <3>2, FS_CardinalityType
  <2>4. NextTerm(t) \in 1..MaxTerm /\ NextTerm(t) + Cardinality(Electing') <= budget.terms
    BY <1>2, <2>2, <2>3, ElectingFinite, Settings DEF NextTerm
  <2>5. leader' = [node |-> NodeOf[t], term |-> NextTerm(t)] /\ leader' \in Held
    BY <1>1, <1>6, <2>4 DEF WriteLeader, Held
  <2>6. held' = held \cup {leader'} /\ Terms' = Terms \cup {NextTerm(t)}
    BY <1>6, <2>5 DEF WriteLeader, Terms
  <2>7. FleetTypeOK'
    BY <1>1, <1>6, <2>1, <2>5, <2>6 DEF WriteLeader, FleetTypeOK, settings, queueVars
  <2>8. TermsFit'
    <3>1. \A m \in Terms : m + Cardinality(Electing') <= budget.terms
      <4>1. TAKE m \in Terms
      <4>2. m \in Nat /\ m + Cardinality(Electing) <= budget.terms
        BY <1>1, <2>2
      <4>. QED
        BY <1>2, <2>3, <4>2, ElectingFinite
    <3>2. \A u \in Threads : read'[u] \in Terms
      BY <1>1, <2>1 DEF Terms, TermsFit
    <3>. QED
      BY <1>6, <2>4, <2>5, <2>6, <3>1, <3>2 DEF WriteLeader, TermsFit, settings
  <2>9. EntrantsKnown'
    BY <1>1, <1>6, <2>1 DEF WriteLeader, Return, Leave, Announced, Electing, EntrantsKnown
  <2>. QED
    BY <2>7, <2>8, <2>9 DEF TypeInv
<1>. QED
  BY <1>3, <1>4, <1>5, <1>6

\* The queue, announcements and crashes keep the types.
LEMMA OtherTyped ==
    ASSUME TypeInv,
           \/ \E n \in Nodes : Announce(n) \/ AdoptTask(n) \/ CrashNode(n)
           \/ \E i \in Tasks : Enqueue(i)
           \/ Tick \/ CrashProcess \/ UNCHANGED vars
    PROVE  TypeInv'
<1>1. FleetTypeOK /\ TermsFit /\ EntrantsKnown
  BY DEF TypeInv
<1>2. ASSUME NEW n \in Nodes, Announce(n) PROVE TypeInv'
  <2>1. /\ registry' \in [Nodes -> Capacities \cup {0}] /\ fresh' \in [Threads -> BOOLEAN]
        /\ settled' \in BOOLEAN /\ Announced' = Announced \cup {n}
    BY <1>1, <1>2, EnterTypes DEF Announce
  <2>2. FleetTypeOK'
    BY <1>1, <1>2, <2>1 DEF Announce, FleetTypeOK, settings, queueVars
  <2>3. TermsFit'
    BY <1>1, <1>2 DEF Announce, TermsFit, Terms, Electing, settings
  <2>4. Electing' = Electing /\ pc' = pc /\ best' = best
    BY <1>2 DEF Announce, Electing
  <2>5. EntrantsKnown'
    BY <1>1, <2>1, <2>4 DEF EntrantsKnown
  <2>. QED
    BY <2>2, <2>3, <2>5 DEF TypeInv
<1>3. ASSUME NEW n \in Nodes, AdoptTask(n) PROVE TypeInv'
  <2>1. PICK i \in Tasks : Pop(n, i) \/ Lease(n, i)
    <3>1. FirstOf(Leasable) \in Tasks
      BY <1>3, FirstRow DEF AdoptTask, Leasable
    <3>. QED
      BY <1>3, <3>1 DEF AdoptTask
  <2>2. 0 \in 0 .. MaxClock + LeaseTime /\ now + LeaseTime \in 0 .. MaxClock + LeaseTime
    BY <1>1, Settings DEF FleetTypeOK
  <2>3. /\ row' \in [Tasks -> {"absent", "queued", "leased", "popped"}]
        /\ until' \in [Tasks -> 0 .. MaxClock + LeaseTime]
    BY <1>1, <2>1, <2>2 DEF Pop, Lease, FleetTypeOK
  <2>4. PICK end \in 0 .. MaxClock + LeaseTime : Hold(n, i, end)
    BY <2>1, <2>2 DEF Pop, Lease
  <2>5. holds' \in [Nodes -> SUBSET Holding]
    BY <1>1, <2>4 DEF Hold, Holding, FleetTypeOK
  <2>6. FleetTypeOK'
    BY <1>1, <1>3, <2>3, <2>5 DEF AdoptTask, FleetTypeOK, settings, electionVars, histories
  <2>7. TermsFit' /\ EntrantsKnown'
    BY <1>1, <1>3 DEF AdoptTask, TermsFit, Terms, Electing, EntrantsKnown, Announced,
                      settings, electionVars, histories
  <2>. QED
    BY <2>6, <2>7 DEF TypeInv
<1>4. ASSUME NEW n \in Nodes, CrashNode(n) PROVE TypeInv'
  <2>. DEFINE S == {t \in Threads : NodeOf[t] = n}
  <2>1. Leave(S)
    BY <1>4 DEF CrashNode
  <2>2. /\ pc' \in [Threads -> {"idle", "nodes", "leader", "write"}]
        /\ best' \in [Threads -> Nodes \cup {NoNode}] /\ read' \in [Threads -> 0..MaxTerm]
        /\ fresh' \in [Threads -> BOOLEAN] /\ Electing' = Electing \ S
        /\ \A u \in Threads : read'[u] \in {0, read[u]}
    <3>. HIDE DEF S
    <3>. QED
      BY <1>1, <2>1, LeaveTypes
  <2>3. FleetTypeOK'
    BY <1>1, <1>4, <2>2 DEF CrashNode, FleetTypeOK, settings
  <2>4. TermsFit'
    <3>1. \A u \in Threads : read'[u] \in Terms
      BY <1>1, <2>2 DEF Terms, TermsFit
    <3>. HIDE DEF S
    <3>. QED
      BY <1>1, <1>4, <2>2, <3>1, StillFits DEF CrashNode, TermsFit, settings
  <2>5. EntrantsKnown'
    BY <1>1, <1>4, <2>1, <2>2 DEF CrashNode, Leave, Announced, Electing, EntrantsKnown
  <2>. QED
    BY <2>3, <2>4, <2>5 DEF TypeInv
<1>5. ASSUME NEW i \in Tasks, Enqueue(i) PROVE TypeInv'
  BY <1>1, <1>5 DEF Enqueue, TypeInv, FleetTypeOK, TermsFit, Terms, Electing, EntrantsKnown,
                    Announced, settings, electionVars, histories
<1>6. ASSUME Tick PROVE TypeInv'
  <2>1. now' \in 0..MaxClock
    BY <1>1, <1>6, Settings DEF Tick, FleetTypeOK
  <2>. QED
    BY <1>1, <1>6, <2>1 DEF Tick, TypeInv, FleetTypeOK, TermsFit, Terms, Electing, EntrantsKnown,
                            Announced, settings, electionVars, histories
<1>7. ASSUME CrashProcess PROVE TypeInv'
  <2>1. Leave(Threads)
    BY <1>7 DEF CrashProcess
  <2>2. /\ pc' \in [Threads -> {"idle", "nodes", "leader", "write"}]
        /\ best' \in [Threads -> Nodes \cup {NoNode}] /\ read' \in [Threads -> 0..MaxTerm]
        /\ fresh' \in [Threads -> BOOLEAN] /\ Electing' = Electing \ Threads
    BY <1>1, <2>1, LeaveTypes
  <2>3. FleetTypeOK'
    BY <1>1, <1>7, <2>2 DEF CrashProcess, FleetTypeOK, settings
  <2>4. Electing' = {} /\ Terms' = {0} /\ leader'.term = 0 /\ \A u \in Threads : read'[u] = 0
    BY <1>7, <2>1, <2>2 DEF CrashProcess, Leave, Electing, Terms, NoLeader
  <2>5. budget'.terms \in Nat
    BY <1>1, <1>7, FleetAssumption, Settings DEF CrashProcess, FleetTypeOK, settings
  <2>6. TermsFit' /\ EntrantsKnown'
    BY <2>4, <2>5, FS_EmptySet DEF TermsFit, EntrantsKnown
  <2>. QED
    BY <2>3, <2>6 DEF TypeInv
<1>8. ASSUME UNCHANGED vars PROVE TypeInv'
  BY <1>1, <1>8 DEF vars, TypeInv, FleetTypeOK, TermsFit, Terms, Electing, EntrantsKnown, Announced,
                    settings, electionVars, queueVars, histories
<1>. QED
  BY <1>2, <1>3, <1>4, <1>5, <1>6, <1>7, <1>8

\* Every step keeps the types.
LEMMA NextTyped == TypeInv /\ [Next]_vars => TypeInv'
BY ElectionTyped, OtherTyped DEF Next

\* The strengthened type invariant holds in every reachable state.
LEMMA TypeInvariant == Spec => []TypeInv
BY InitTyped, NextTyped, PTL DEF Spec

\* Every reachable state is well typed for every number of nodes, requests and
\* tasks: in particular a term never leaves the budget, whoever races whom.
THEOREM FleetTyped == Spec => []FleetTypeOK
<1>1. TypeInv => FleetTypeOK
  BY DEF TypeInv
<1>. QED
  BY <1>1, TypeInvariant, PTL

-----------------------------------------------------------------------------
(* Elections.  The record is a leader that was held, a fresh view knows    *)
(* the best node, and only a node that won goes on to write.               *)

LeaderHeld == leader # NoLeader => leader \in held
FreshKnows == \A t \in Threads : fresh[t] => \A n \in Announced \ {best[t]} : Beats(best[t], n)
WinnersWrite == \A t \in Threads : pc[t] = "write" => best[t] = NodeOf[t]

ElectionInv == /\ LeaderHeld /\ FreshKnows /\ WinnersWrite
               /\ ReportedTermsWereHeld /\ UnracedTermsAreUnique /\ SettledLeaderIsBest

\* What the next lemmas read of the types.
LEMMA ElectionTypes ==
    ASSUME TypeInv
    PROVE  /\ registry \in [Nodes -> Capacities \cup {0}] /\ capacity \in [Nodes -> Capacities]
           /\ leader \in Held \cup {NoLeader} /\ leader.term \in Nat
           /\ pc \in [Threads -> {"idle", "nodes", "leader", "write"}]
           /\ best \in [Threads -> Nodes \cup {NoNode}] /\ read \in [Threads -> 0..MaxTerm]
           /\ fresh \in [Threads -> BOOLEAN]
           /\ held \subseteq Held /\ \A x \in Held : x.term \in Nat
<1>1. \A x \in Held : x.term \in Nat
  BY Settings DEF Held
<1>2. leader \in Held \cup {NoLeader}
  BY DEF TypeInv, FleetTypeOK
<1>3. leader.term \in Nat
  BY <1>1, <1>2 DEF NoLeader
<1>. QED
  BY <1>1, <1>2, <1>3 DEF TypeInv, FleetTypeOK

\* An announcement either changes nothing or makes every view stale.
LEMMA EnterKeeps ==
    ASSUME TypeInv, NEW n \in Nodes, Enter(n),
           FreshKnows, SettledLeaderIsBest, leader' = leader, best' = best
    PROVE  FreshKnows' /\ SettledLeaderIsBest'
<1>1. CASE registry[n] = capacity[n]
  <2>1. registry' = registry /\ fresh' = fresh /\ settled' = settled
    BY <1>1, ElectionTypes DEF Enter
  <2>. QED
    BY <2>1 DEF FreshKnows, SettledLeaderIsBest, Announced, Beats
<1>2. CASE registry[n] # capacity[n]
  <2>1. settled' = FALSE /\ \A t \in Threads : fresh'[t] = FALSE
    BY <1>2 DEF Enter
  <2>. QED
    BY <2>1 DEF FreshKnows, SettledLeaderIsBest
<1>. QED
  BY <1>1, <1>2

\* Requests that leave take their views along.
LEMMA LeaveKeeps ==
    ASSUME TypeInv, NEW S, Leave(S), FreshKnows, WinnersWrite, registry' = registry
    PROVE  FreshKnows' /\ WinnersWrite'
<1>1. \A t \in Threads : fresh'[t] => fresh[t] /\ best'[t] = best[t]
  BY DEF Leave
<1>2. \A t \in Threads : pc'[t] = "write" => pc[t] = "write" /\ best'[t] = best[t]
  BY DEF Leave
<1>3. FreshKnows'
  BY <1>1 DEF FreshKnows, Announced, Beats
<1>. QED
  BY <1>2, <1>3 DEF WinnersWrite

\* Nothing an election is about changes.
LEMMA ElectionStutter ==
    ASSUME ElectionInv, UNCHANGED <<registry, leader, pc, best, held, reported, fresh, settled, raced>>
    PROVE  ElectionInv'
BY DEF ElectionInv, LeaderHeld, FreshKnows, WinnersWrite, ReportedTermsWereHeld,
       UnracedTermsAreUnique, SettledLeaderIsBest, Announced, Beats

\* The steps of elections and crashes keep what is known of elections.
LEMMA ElectionStep == TypeInv /\ ElectionInv /\ [Next]_vars => ElectionInv'
<1>. SUFFICES ASSUME TypeInv, ElectionInv, [Next]_vars PROVE ElectionInv'
  OBVIOUS
<1>1. LeaderHeld /\ FreshKnows /\ WinnersWrite /\ ReportedTermsWereHeld
      /\ UnracedTermsAreUnique /\ SettledLeaderIsBest
  BY DEF ElectionInv
<1>2. ASSUME NEW n \in Nodes, Announce(n) PROVE ElectionInv'
  <2>1. FreshKnows' /\ SettledLeaderIsBest'
    BY <1>1, <1>2, EnterKeeps DEF Announce
  <2>2. LeaderHeld' /\ WinnersWrite' /\ ReportedTermsWereHeld' /\ UnracedTermsAreUnique'
    BY <1>1, <1>2 DEF Announce, LeaderHeld, WinnersWrite, ReportedTermsWereHeld, UnracedTermsAreUnique
  <2>. QED
    BY <2>1, <2>2 DEF ElectionInv
<1>3. ASSUME NEW t \in Threads, Elect(t) PROVE ElectionInv'
  <2>1. FreshKnows' /\ SettledLeaderIsBest'
    BY <1>1, <1>3, EnterKeeps, Settings DEF Elect
  <2>2. \A u \in Threads : pc'[u] = "write" => pc[u] = "write"
    BY <1>3, ElectionTypes DEF Elect
  <2>3. LeaderHeld' /\ WinnersWrite' /\ ReportedTermsWereHeld' /\ UnracedTermsAreUnique'
    BY <1>1, <1>3, <2>2 DEF Elect, LeaderHeld, WinnersWrite, ReportedTermsWereHeld, UnracedTermsAreUnique
  <2>. QED
    BY <2>1, <2>3 DEF ElectionInv
<1>4. ASSUME NEW t \in Threads, ReadNodes(t) PROVE ElectionInv'
  <2>1. \A n \in Announced \ {Best} : Beats(Best, n)
    <3>1. t \in Electing
      BY <1>4 DEF ReadNodes, Electing
    <3>2. Announced # {}
      BY <3>1 DEF TypeInv, EntrantsKnown
    <3>. QED
      BY <3>2, BestWins DEF TypeInv
  <2>2. /\ pc' = [pc EXCEPT ![t] = "leader"] /\ best' = [best EXCEPT ![t] = Best]
        /\ fresh' = [fresh EXCEPT ![t] = TRUE] /\ registry' = registry
    BY <1>4 DEF ReadNodes
  <2>3. FreshKnows'
    <3>1. SUFFICES ASSUME NEW u \in Threads, fresh'[u], NEW n \in Announced \ {best'[u]}
                   PROVE  Beats(best'[u], n)
      BY <2>2 DEF FreshKnows, Announced, Beats
    <3>2. CASE u = t
      BY <2>1, <2>2, <3>2, ElectionTypes
    <3>3. CASE u # t
      <4>1. best'[u] = best[u] /\ fresh[u]
        BY <2>2, <3>1, <3>3, ElectionTypes
      <4>. QED
        BY <1>1, <3>1, <4>1 DEF FreshKnows
    <3>. QED
      BY <3>2, <3>3
  <2>4. WinnersWrite'
    BY <1>1, <2>2, ElectionTypes DEF WinnersWrite
  <2>5. LeaderHeld' /\ ReportedTermsWereHeld' /\ UnracedTermsAreUnique' /\ SettledLeaderIsBest'
    BY <1>1, <1>4 DEF ReadNodes, LeaderHeld, ReportedTermsWereHeld, UnracedTermsAreUnique,
                      SettledLeaderIsBest, Announced, Beats
  <2>. QED
    BY <2>3, <2>4, <2>5 DEF ElectionInv
<1>5. ASSUME NEW t \in Threads, ReadLeader(t) PROVE ElectionInv'
  <2>1. LeaderHeld' /\ UnracedTermsAreUnique' /\ SettledLeaderIsBest'
    BY <1>1, <1>5 DEF ReadLeader, LeaderHeld, UnracedTermsAreUnique, SettledLeaderIsBest,
                      Announced, Beats
  <2>2. CASE best[t] = NodeOf[t]
    <3>1. pc' = [pc EXCEPT ![t] = "write"] /\ UNCHANGED <<best, fresh, registry, reported, held>>
      BY <1>5, <2>2 DEF ReadLeader
    <3>2. FreshKnows' /\ ReportedTermsWereHeld'
      BY <1>1, <3>1 DEF FreshKnows, ReportedTermsWereHeld, Announced, Beats
    <3>3. WinnersWrite'
      BY <1>1, <2>2, <3>1, ElectionTypes DEF WinnersWrite
    <3>. QED
      BY <2>1, <3>2, <3>3 DEF ElectionInv
  <2>3. CASE best[t] # NodeOf[t]
    <3>1. Leave({t}) /\ reported' = reported \cup ReportOf(t) /\ registry' = registry /\ held' = held
      BY <1>5, <2>3 DEF ReadLeader, Return
    <3>2. FreshKnows' /\ WinnersWrite'
      BY <1>1, <3>1, LeaveKeeps
    <3>3. ReportOf(t) \subseteq held
      <4>1. t \in Electing /\ pc[t] # "nodes"
        BY <1>5 DEF ReadLeader, Electing
      <4>2. best[t] \in Nodes
        BY <4>1 DEF TypeInv, EntrantsKnown
      <4>3. leader.node = best[t] => leader # NoLeader
        BY <4>2, Settings DEF NoLeader, NoNode
      <4>. QED
        BY <1>1, <4>3 DEF ReportOf, LeaderHeld
    <3>4. ReportedTermsWereHeld'
      BY <1>1, <3>1, <3>3 DEF ReportedTermsWereHeld
    <3>. QED
      BY <2>1, <3>2, <3>4 DEF ElectionInv
  <2>. QED
    BY <2>2, <2>3
<1>6. ASSUME NEW t \in Threads, WriteLeader(t) PROVE ElectionInv'
  <2>1. /\ leader' = [node |-> NodeOf[t], term |-> read[t] + 1] /\ held' = held \cup {leader'}
        /\ Leave({t}) /\ registry' = registry /\ reported' = reported /\ settled' = fresh[t]
        /\ raced' = (raced \/ read[t] # leader.term) /\ best[t] = NodeOf[t]
    BY <1>1, <1>6 DEF WriteLeader, Return, NextTerm, WinnersWrite
  <2>2. FreshKnows' /\ WinnersWrite'
    BY <1>1, <2>1, LeaveKeeps
  <2>3. LeaderHeld' /\ ReportedTermsWereHeld'
    BY <1>1, <2>1 DEF LeaderHeld, ReportedTermsWereHeld
  <2>4. UnracedTermsAreUnique'
    <3>1. SUFFICES ASSUME ~raced'
                   PROVE  /\ \A x, y \in held' : x.term = y.term => x = y
                          /\ \A x \in held' : x.term <= leader'.term
      BY DEF UnracedTermsAreUnique
    <3>2. /\ leader'.term = leader.term + 1
          /\ \A x, y \in held : x.term = y.term => x = y
          /\ \A x \in held : x.term <= leader.term
      BY <1>1, <2>1, <3>1 DEF UnracedTermsAreUnique
    <3>3. \A x \in held : x.term < leader'.term /\ x.term \in Nat
      BY <3>2, ElectionTypes
    <3>4. leader'.term \in Nat
      BY <3>2, ElectionTypes
    <3>. QED
      BY <2>1, <3>2, <3>3, <3>4
  <2>5. SettledLeaderIsBest'
    <3>1. fresh[t] => \A n \in Announced \ {best[t]} : Beats(best[t], n)
      BY <1>1 DEF FreshKnows
    <3>. QED
      BY <2>1, <3>1 DEF SettledLeaderIsBest, Announced, Beats
  <2>. QED
    BY <2>2, <2>3, <2>4, <2>5 DEF ElectionInv
<1>7. ASSUME NEW n \in Nodes, CrashNode(n) PROVE ElectionInv'
  <2>1. FreshKnows' /\ WinnersWrite'
    BY <1>1, <1>7, LeaveKeeps DEF CrashNode
  <2>2. LeaderHeld' /\ ReportedTermsWereHeld' /\ UnracedTermsAreUnique' /\ SettledLeaderIsBest'
    BY <1>1, <1>7 DEF CrashNode, LeaderHeld, ReportedTermsWereHeld, UnracedTermsAreUnique,
                      SettledLeaderIsBest, Announced, Beats
  <2>. QED
    BY <2>1, <2>2 DEF ElectionInv
<1>8. ASSUME CrashProcess PROVE ElectionInv'
  <2>1. \A t \in Threads : fresh'[t] = FALSE /\ pc'[t] = "idle"
    BY <1>8 DEF CrashProcess, Leave
  <2>2. FreshKnows' /\ WinnersWrite'
    BY <2>1 DEF FreshKnows, WinnersWrite
  <2>3. LeaderHeld' /\ ReportedTermsWereHeld' /\ UnracedTermsAreUnique' /\ SettledLeaderIsBest'
    BY <1>8 DEF CrashProcess, LeaderHeld, ReportedTermsWereHeld, UnracedTermsAreUnique, SettledLeaderIsBest
  <2>. QED
    BY <2>2, <2>3 DEF ElectionInv
<1>9. ASSUME UNCHANGED <<electionVars, histories>> PROVE ElectionInv'
  BY <1>9, ElectionStutter DEF electionVars, histories
<1>10. ASSUME \/ \E n \in Nodes : AdoptTask(n)
              \/ \E i \in Tasks : Enqueue(i)
              \/ Tick \/ UNCHANGED vars
       PROVE  UNCHANGED <<electionVars, histories>>
  BY <1>10 DEF AdoptTask, Enqueue, Tick, vars
<1>. QED
  BY <1>2, <1>3, <1>4, <1>5, <1>6, <1>7, <1>8, <1>9, <1>10 DEF Next

\* What is known of elections holds in every reachable state.
LEMMA ElectionInvariant == Spec => []ElectionInv
<1>1. Init => ElectionInv
  BY DEF Init, ElectionInv, LeaderHeld, FreshKnows, WinnersWrite, ReportedTermsWereHeld,
         UnracedTermsAreUnique, SettledLeaderIsBest
<1>. QED
  BY <1>1, ElectionStep, TypeInvariant, PTL DEF Spec

\* However many requests elect at once and whoever crashes in between, a node that
\* lost is told of a term its leader did hold, or of none (node.py 66).
THEOREM ReportsAreTrue == Spec => []ReportedTermsWereHeld
BY ElectionInvariant, PTL DEF ElectionInv

\* For any number of nodes terms have one leader each, and the record the largest,
\* as long as no write falls between another election's last two calls.
THEOREM TermsAreUnique == Spec => []UnracedTermsAreUnique
BY ElectionInvariant, PTL DEF ElectionInv

\* For any number of nodes and capacities a settled record names the node with
\* the highest capacity, the larger id among equals (node.py 64).
THEOREM BestLeads == Spec => []SettledLeaderIsBest
BY ElectionInvariant, PTL DEF ElectionInv

-----------------------------------------------------------------------------
(* Leases.  A held task is popped for good, or its row is leased at least  *)
(* as long as its holder believes.                                         *)

HoldsFit ==
    /\ backend = "memory" => \A i \in Tasks : row[i] # "leased"
    /\ \A n \in Nodes : \A h \in holds[n] :
          IF backend = "memory"
          THEN row[h.task] = "popped"
          ELSE row[h.task] = "leased" /\ h.until <= until[h.task]

LeaseInv == HoldsFit /\ OneLiveHolder

\* What the next lemmas read of the types.
LEMMA QueueTypes ==
    ASSUME TypeInv
    PROVE  /\ row \in [Tasks -> {"absent", "queued", "leased", "popped"}]
           /\ until \in [Tasks -> Nat] /\ now \in Nat
           /\ holds \in [Nodes -> SUBSET Holding] /\ backend \in {"memory", "postgres"}
           /\ \A h \in Holding : h.task \in Tasks /\ h.until \in Nat
<1>1. 0 .. MaxClock + LeaseTime \subseteq Nat /\ 0..MaxClock \subseteq Nat
  BY Settings
<1>2. until \in [Tasks -> 0 .. MaxClock + LeaseTime] /\ now \in 0..MaxClock
  BY DEF TypeInv, FleetTypeOK
<1>3. until \in [Tasks -> Nat] /\ now \in Nat
  BY <1>1, <1>2
<1>4. \A h \in Holding : h.task \in Tasks /\ h.until \in Nat
  BY <1>1 DEF Holding
<1>. QED
  BY <1>3, <1>4 DEF TypeInv, FleetTypeOK

\* Fewer holdings of the same rows keep the invariant, and so does time.
LEMMA LeaseKeeps ==
    ASSUME TypeInv, LeaseInv, backend' = backend, until' = until, now' \in Nat, now <= now',
           \A i \in Tasks : row[i] \in {"leased", "popped"} => row'[i] = row[i],
           \A i \in Tasks : row'[i] = "leased" => row[i] = "leased",
           \A n \in Nodes : holds'[n] \subseteq holds[n]
    PROVE  LeaseInv'
<1>1. \A n \in Nodes : \A h \in holds'[n] :
         h \in holds[n] /\ h \in Holding /\ h.task \in Tasks /\ h.until \in Nat
  BY QueueTypes
<1>2. HoldsFit'
  BY <1>1, QueueTypes DEF LeaseInv, HoldsFit
<1>3. \A n \in Nodes : \A h \in holds'[n] : Live(h)' => Live(h)
  BY <1>1, QueueTypes DEF Live
<1>4. OneLiveHolder'
  BY <1>1, <1>3 DEF LeaseInv, OneLiveHolder
<1>. QED
  BY <1>2, <1>4 DEF LeaseInv

\* Whoever is given a task finds it in nobody's live hands.
LEMMA LeaseGives ==
    ASSUME TypeInv, LeaseInv, NEW n \in Nodes, AdoptTask(n)
    PROVE  LeaseInv'
<1>. DEFINE i   == FirstOf(Leasable)
            end == IF backend = "memory" THEN 0 ELSE now + LeaseTime
            new == [task |-> i, until |-> end]
<1>1. i \in Leasable /\ i \in Tasks
  <2>1. Leasable \in SUBSET Tasks /\ Leasable # {}
    BY DEF AdoptTask, Leasable
  <2>. QED
    BY <2>1, FirstRow
<1>2. row[i] = "queued" \/ (row[i] = "leased" /\ until[i] < now)
  BY <1>1 DEF Leasable, RanOut
<1>3. /\ holds' = [holds EXCEPT ![n] = @ \cup {new}] /\ UNCHANGED <<backend, now>>
      /\ IF backend = "memory"
         THEN row' = [row EXCEPT ![i] = "popped"] /\ until' = until
         ELSE row' = [row EXCEPT ![i] = "leased"] /\ until' = [until EXCEPT ![i] = now + LeaseTime]
  BY DEF AdoptTask, Pop, Lease, Hold, settings
<1>. HIDE DEF i
<1>4. \A m \in Nodes : \A h \in holds[m] :
         h.task \in Tasks /\ h.until \in Nat /\ (h.task = i => ~Live(h))
  <2>1. TAKE m \in Nodes
  <2>2. TAKE h \in holds[m]
  <2>3. h \in Holding
    BY QueueTypes
  <2>4. h.task \in Tasks /\ h.until \in Nat
    BY <2>3, QueueTypes
  <2>5. ASSUME h.task = i PROVE ~Live(h)
    <3>1. backend # "memory" /\ row[i] = "leased" /\ h.until <= until[i]
      BY <1>1, <1>2, <2>5 DEF LeaseInv, HoldsFit
    <3>. QED
      BY <1>1, <1>2, <2>4, <3>1, QueueTypes DEF Live
  <2>. QED
    BY <2>4, <2>5
<1>5. \A m \in Nodes : \A h \in holds'[m] : h \in holds[m] \/ (m = n /\ h = new)
  BY <1>3, QueueTypes
<1>6. end \in Nat /\ new.task = i /\ new.until = end
  BY QueueTypes, Settings
<1>7. HoldsFit'
  <2>1. backend' = "memory" => \A j \in Tasks : row'[j] # "leased"
    BY <1>1, <1>3, QueueTypes DEF LeaseInv, HoldsFit
  <2>2. ASSUME NEW m \in Nodes, NEW h \in holds'[m]
        PROVE  IF backend' = "memory" THEN row'[h.task] = "popped"
               ELSE row'[h.task] = "leased" /\ h.until <= until'[h.task]
    <3>1. CASE h = new
      BY <1>1, <1>3, <1>6, <3>1, QueueTypes, Settings
    <3>2. CASE h \in holds[m] /\ h.task # i
      BY <1>1, <1>3, <1>4, <3>2, QueueTypes DEF LeaseInv, HoldsFit
    <3>3. CASE h \in holds[m] /\ h.task = i
      <4>1. backend # "memory" /\ h.until \in Nat /\ h.until < now
        BY <1>4, <3>3, QueueTypes DEF Live
      <4>. QED
        BY <1>1, <1>3, <3>3, <4>1, QueueTypes, Settings
    <3>. QED
      BY <1>5, <3>1, <3>2, <3>3
  <2>. QED
    BY <2>1, <2>2 DEF HoldsFit
<1>8. OneLiveHolder'
  <2>1. SUFFICES ASSUME NEW l \in Nodes, NEW m \in Nodes, NEW g \in holds'[l], NEW h \in holds'[m],
                        g.task = h.task, Live(g)', Live(h)'
                 PROVE  l = m /\ g = h
    BY DEF OneLiveHolder
  <2>2. Live(g) /\ Live(h)
    BY <1>3, <2>1 DEF Live
  <2>3. CASE g \in holds[l] /\ h \in holds[m]
    BY <2>1, <2>2, <2>3 DEF LeaseInv, OneLiveHolder
  <2>4. CASE g \in holds[l] /\ h = new
    BY <1>4, <1>6, <2>1, <2>2, <2>4
  <2>5. CASE g = new /\ h \in holds[m]
    BY <1>4, <1>6, <2>1, <2>2, <2>5
  <2>6. CASE l = n /\ g = new /\ m = n /\ h = new
    BY <2>6
  <2>. QED
    BY <1>5, <2>3, <2>4, <2>5, <2>6
<1>. QED
  BY <1>7, <1>8 DEF LeaseInv

\* Every step keeps the leases apart.
LEMMA LeaseStep == TypeInv /\ LeaseInv /\ [Next]_vars => LeaseInv'
<1>. SUFFICES ASSUME TypeInv, LeaseInv, [Next]_vars PROVE LeaseInv'
  OBVIOUS
<1>1. ASSUME NEW n \in Nodes, AdoptTask(n) PROVE LeaseInv'
  BY <1>1, LeaseGives
<1>2. ASSUME NEW n \in Nodes, CrashNode(n) PROVE LeaseInv'
  <2>1. /\ holds' = [holds EXCEPT ![n] = {}] /\ UNCHANGED <<backend, row, until, now>>
    BY <1>2 DEF CrashNode, settings
  <2>2. \A m \in Nodes : holds'[m] \subseteq holds[m]
    BY <2>1, QueueTypes
  <2>. QED
    BY <2>1, <2>2, QueueTypes, LeaseKeeps
<1>3. ASSUME NEW i \in Tasks, Enqueue(i) PROVE LeaseInv'
  <2>1. /\ row' = [row EXCEPT ![i] = "queued"] /\ row[i] = "absent"
        /\ UNCHANGED <<backend, until, now, holds>>
    BY <1>3 DEF Enqueue, settings
  <2>. QED
    BY <2>1, QueueTypes, LeaseKeeps
<1>4. ASSUME Tick PROVE LeaseInv'
  <2>1. now' = now + 1 /\ UNCHANGED <<backend, row, until, holds>>
    BY <1>4 DEF Tick, settings
  <2>2. now' \in Nat /\ now <= now'
    BY <2>1, QueueTypes
  <2>. QED
    BY <2>1, <2>2, LeaseKeeps
<1>5. ASSUME CrashProcess PROVE LeaseInv'
  BY <1>5 DEF CrashProcess, LeaseInv, HoldsFit, OneLiveHolder
<1>6. ASSUME UNCHANGED <<settings, queueVars>> PROVE LeaseInv'
  <2>1. UNCHANGED <<backend, row, until, now, holds>>
    BY <1>6 DEF settings, queueVars
  <2>. QED
    BY <2>1, QueueTypes, LeaseKeeps
<1>7. ASSUME \/ \E n \in Nodes : Announce(n)
             \/ \E t \in Threads : Elect(t) \/ ReadNodes(t) \/ ReadLeader(t) \/ WriteLeader(t)
             \/ UNCHANGED vars
      PROVE  UNCHANGED <<settings, queueVars>>
  BY <1>7 DEF Announce, Elect, ReadNodes, ReadLeader, WriteLeader, vars
<1>. QED
  BY <1>1, <1>2, <1>3, <1>4, <1>5, <1>6, <1>7 DEF Next

\* A task is in one pair of hands while its lease runs, over both storages, for
\* any number of nodes and tasks and however long a lease is (storage.py 72-76,
\* 167-181).
THEOREM OneHolder == Spec => []OneLiveHolder
<1>1. Init => LeaseInv
  BY DEF Init, LeaseInv, HoldsFit, OneLiveHolder
<1>2. Spec => []LeaseInv
  BY <1>1, LeaseStep, TypeInvariant, PTL DEF Spec
<1>. QED
  BY <1>2, PTL DEF LeaseInv

=============================================================================
