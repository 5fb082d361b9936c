---------------------------- MODULE EvolutionProofs ----------------------------
(***************************************************************************)
(* What holds of self evolution, for any proposals, mutations and number   *)
(* of concurrent callers, and of the simulations that come before a        *)
(* change: of dry runs for any plan and budgets, of the sandbox for any    *)
(* sizes and number of simulations.                                        *)
(***************************************************************************)
EXTENDS Evolution, Simulation, FiniteOrders

\* The callers that will still make a mutation.
Coming == {d \in Callers : pc[d] \in {"policy", "apply", "write"}}

\* What a caller holds while apply() is under way.
JobsInOrder ==
    /\ DOMAIN job = Callers /\ DOMAIN seen = Callers
    /\ Len(records) + Cardinality(Coming) <= MaxRecords
    /\ \A c \in Callers : pc[c] = "write" => IsPrompt(job[c].mutation)

\* Its proposal was adopted once; a proposal that counts as adopted has its gain.
RestsOnGain ==
    /\ AppliedOnGain
    /\ \A p \in Proposals : status[p] = "adopted" => adoptedAt[p]
    /\ \A c \in Callers : pc[c] # "idle" => adoptedAt[job[c].proposal]

\* Every event of the ledger is about a mutation that was made, and every mutation is
\* the business of one caller.
LedgerInOrder ==
    /\ EveryMutationLedgered
    /\ \A k \in 1..Len(ledger) : ledger[k].mutation \in 1..Len(records)
    /\ \A c, d \in Callers :
          pc[c] = "ledger" /\ pc[d] = "ledger" /\ seen[c] = seen[d] => c = d

\* v is what the last mutation among the first n that is still applied to s put there.
Below(s, n)   == {i \in 1..n : Applied(i) /\ Touches(i, s)}
Put(s, n, v) == \/ Below(s, n) = {} /\ v = None
                \/ \E i \in Below(s, n) : /\ \A j \in Below(s, n) : j <= i
                                          /\ records[i].mutation[s] = v

\* Mutations nest: each keeps what the one under it had put there.
Nested ==
    /\ \A s \in (ConfigPaths \cup Prompts) \ tangled :
          /\ Put(s, Len(records), live[s])
          /\ \A i \in 1..Len(records) :
                Applied(i) /\ Touches(i, s) => Put(s, i - 1, records[i].before[s])
    /\ \A i \in 1..Len(records) : DOMAIN records[i].before = DOMAIN records[i].mutation
    /\ \A c \in Callers : pc[c] = "write" =>
          \A s \in DOMAIN job[c].mutation : s \in tangled \/ seen[c] = live[s]

ExecInv == /\ EvolutionTypeOK /\ JobsInOrder /\ RestsOnGain
           /\ LedgerInOrder /\ Nested

-----------------------------------------------------------------------------
(* The kinds of step.                                                      *)

\* The caller's mutation is made; every place it writes was found as the record says,
\* or is tangled.
Makes(c, before) ==
    /\ pc[c] \in {"apply", "write"} /\ (pc[c] = "apply" => lock = None)
    /\ before \in [DOMAIN job[c].mutation -> Contents \cup {None}]
    /\ \A s \in DOMAIN before : s \in tangled \/ before[s] = live[s]
    /\ Mutate(c, before)
    /\ lock' = None
    /\ UNCHANGED <<engineVars, job, ledger, tangled>>

\* The policy engine denies the mutation, or there is such a branch already.
GivesUp(c) ==
    /\ pc[c] \in {"policy", "apply"} /\ Goto(c, "idle")
    /\ UNCHANGED <<engineVars, live, records, lock, job, seen, ledger, tangled>>

PolicyAllows(c) ==
    /\ At(c, "policy") /\ Goto(c, "apply")
    /\ UNCHANGED <<engineVars, live, records, lock, job, seen, ledger, tangled>>

\* A mutation that makes sense writes known contents to known places.
LEMMA MutationsAreMaps ==
    ASSUME NEW m \in Mutations
    PROVE  /\ DOMAIN m \subseteq Places /\ DOMAIN m # {}
           /\ \A s \in DOMAIN m : m[s] \in Contents
           /\ IsLayout(m) => DOMAIN m \cap (ConfigPaths \cup Prompts) = {}
           /\ IsPrompt(m) => \E s : DOMAIN m = {s}
BY EvolutionAssumption DEF Places, IsLayout, IsPrompt

\* What ApplyConfig, ApplyLayout and WritePrompt do.
LEMMA ApplyingMakes ==
    ASSUME ExecInv, NEW c \in Callers, ApplyConfig(c) \/ ApplyLayout(c) \/ WritePrompt(c)
    PROVE  (\E before : Makes(c, before)) \/ GivesUp(c)
<1> DEFINE m == job[c].mutation
<1>1. m \in Mutations
  BY DEF ApplyConfig, ApplyLayout, WritePrompt, At, ExecInv, EvolutionTypeOK, Jobs
<1>2. DOMAIN m \subseteq Places
  BY <1>1, MutationsAreMaps
<1>3. Before(m) \in [DOMAIN m -> Contents \cup {None}] /\ \A s \in DOMAIN m : Before(m)[s] = live[s]
  BY <1>2 DEF Before, ExecInv, EvolutionTypeOK
<1>4. CASE ApplyConfig(c)
  <2>1. Makes(c, Before(m))
    BY <1>3, <1>4 DEF ApplyConfig, Makes, At, Ready
  <2> QED BY <2>1
<1>5. CASE ApplyLayout(c) /\ Mutate(c, Before(m))
  <2>1. Makes(c, Before(m))
    BY <1>3, <1>5 DEF ApplyLayout, Makes, At, Ready
  <2> QED BY <2>1
<1>6. CASE ApplyLayout(c) /\ ~Mutate(c, Before(m))
  BY <1>6 DEF ApplyLayout, GivesUp, At
<1>7. CASE WritePrompt(c)
  <2> DEFINE before == [s \in DOMAIN m |-> seen[c]]
  <2>1. seen[c] \in Contents \cup {None} /\ \A s \in DOMAIN m : s \in tangled \/ seen[c] = live[s]
    BY <1>7 DEF WritePrompt, At, ExecInv, EvolutionTypeOK, Nested
  <2>2. Makes(c, before)
    BY <1>7, <2>1 DEF WritePrompt, Makes, At
  <2> QED BY <2>2
<1> QED BY <1>4, <1>5, <1>6, <1>7

\* Every step of the specification is of one of these kinds.
LEMMA StepKinds ==
    ASSUME ExecInv, [Next]_vars
    PROVE  \/ UNCHANGED vars
           \/ \E p \in Proposals : \/ Propose(p) \/ AdoptIfGain(p)
                                   \/ \E g \in BOOLEAN : Evaluate(p, g)
           \/ \E c \in Callers, p \in Proposals, m \in Mutations : Check(c, p, m)
           \/ \E c \in Callers : PolicyAllows(c) \/ GivesUp(c) \/ ReadPrompt(c) \/ RecordInLedger(c)
           \/ \E c \in Callers : \E before : Makes(c, before)
           \/ \E i \in 1..MaxRecords : Revert(i)
           \/ \E s \in Prompts, x \in Contents : AgentWrites(s, x)
<1>1. ASSUME NEW c \in Callers, AskPolicy(c) PROVE PolicyAllows(c) \/ GivesUp(c)
  BY <1>1 DEF AskPolicy, PolicyAllows, GivesUp, At
<1> QED BY <1>1, ApplyingMakes DEF Next, ApplyStep

-----------------------------------------------------------------------------
(* Types.                                                                  *)

\* A mutation made is a record of its kind, and the only one that is new.
LEMMA MakesRecord ==
    ASSUME ExecInv, NEW c \in Callers, NEW before, Makes(c, before)
    PROVE  \E r \in Record :
              /\ r = [proposal |-> job[c].proposal, mutation |-> job[c].mutation,
                      status |-> "applied", before |-> before]
              /\ records' = Append(records, r)
              /\ job[c] \in Jobs
              /\ Len(records') = Len(records) + 1 /\ Len(records') <= MaxRecords
              /\ records'[Len(records) + 1] = r
              /\ \A i \in 1..Len(records) : records'[i] = records[i]
              /\ Coming' = Coming \ {c}
<1> DEFINE m == job[c].mutation
           r == [proposal |-> job[c].proposal, mutation |-> m,
                 status |-> "applied", before |-> before]
<1>1. job[c] \in Jobs /\ c \in Coming
  BY DEF Makes, ExecInv, EvolutionTypeOK, Coming
<1>2. before \in UNION {[DOMAIN n -> Contents \cup {None}] : n \in Mutations}
  BY <1>1 DEF Makes, Jobs
<1>3. r \in Record
  BY <1>1, <1>2 DEF Jobs, Record
<1>4. records \in Seq(Record) /\ records' = Append(records, r)
  BY DEF Makes, Mutate, ExecInv, EvolutionTypeOK
<1>5. Len(records') = Len(records) + 1 /\ records'[Len(records) + 1] = r
      /\ \A i \in 1..Len(records) : records'[i] = records[i]
  BY <1>3, <1>4
<1>6. IsFiniteSet(Coming) /\ Cardinality(Coming) \in Nat \ {0}
  BY <1>1, EvolutionAssumption, FS_Subset, FS_CardinalityType, FS_EmptySet DEF Coming
<1>7. Len(records) + 1 <= MaxRecords
  BY <1>4, <1>6, EvolutionAssumption DEF ExecInv, JobsInOrder
<1>8. Coming' = Coming \ {c}
  BY DEF Makes, Mutate, Goto, Coming, ExecInv, EvolutionTypeOK
<1> QED BY <1>1, <1>3, <1>4, <1>5, <1>7, <1>8

\* Reverting a mutation leaves a record of its kind and changes no other part of it.
LEMMA RevertRecord ==
    ASSUME ExecInv, NEW i, Revert(i)
    PROVE  /\ i \in 1..Len(records)
           /\ records' \in Seq(Record) /\ Len(records') = Len(records)
           /\ \A j \in 1..Len(records) :
                 /\ records'[j].mutation = records[j].mutation
                 /\ records'[j].proposal = records[j].proposal
                 /\ records'[j].before = records[j].before
                 /\ records'[j].status = IF j = i THEN "reverted" ELSE records[j].status
           /\ records[i].before \in [DOMAIN records[i].mutation -> Contents \cup {None}]
           /\ records[i].mutation \in Mutations
<1>1. i \in 1..Len(records) /\ records \in Seq(Record)
      /\ records' = [records EXCEPT ![i].status = "reverted"]
  BY DEF Revert, ExecInv, EvolutionTypeOK
<1>2. \A j \in 1..Len(records) : records[j] \in Record
  BY <1>1
<1>3. [records[i] EXCEPT !.status = "reverted"] \in Record
  <2>1. PICK p \in Proposals, m \in Mutations, t \in {"applied", "reverted"},
             b \in UNION {[DOMAIN n -> Contents \cup {None}] : n \in Mutations} :
             records[i] = [proposal |-> p, mutation |-> m, status |-> t, before |-> b]
    BY <1>1, <1>2 DEF Record
  <2>2. [records[i] EXCEPT !.status = "reverted"]
           = [proposal |-> p, mutation |-> m, status |-> "reverted", before |-> b]
    BY <2>1
  <2> QED BY <2>2 DEF Record
<1>4. records' \in Seq(Record) /\ Len(records') = Len(records)
      /\ \A j \in 1..Len(records) :
            records'[j] = IF j = i THEN [records[i] EXCEPT !.status = "reverted"] ELSE records[j]
  BY <1>1, <1>3
<1>5. \A j \in 1..Len(records) :
         /\ records'[j].mutation = records[j].mutation
         /\ records'[j].proposal = records[j].proposal
         /\ records'[j].before = records[j].before
         /\ records'[j].status = IF j = i THEN "reverted" ELSE records[j].status
  BY <1>2, <1>4 DEF Record
<1>6. records[i].before \in [DOMAIN records[i].mutation -> Contents \cup {None}]
      /\ records[i].mutation \in Mutations
  <2>1. PICK n \in Mutations : records[i].before \in [DOMAIN n -> Contents \cup {None}]
    BY <1>1, <1>2 DEF Record
  <2>2. DOMAIN records[i].before = DOMAIN records[i].mutation
    BY <1>1 DEF ExecInv, Nested
  <2> QED BY <1>1, <1>2, <2>1, <2>2 DEF Record
<1> QED BY <1>1, <1>4, <1>5, <1>6

\* The places of m hold its contents after Set(m) and are still typed.
LEMMA SetTyped ==
    ASSUME ExecInv, NEW m, \A s \in DOMAIN m : m[s] \in Contents \cup {None}
    PROVE  Set(m) \in [Places -> Contents \cup {None}]
BY DEF Set, ExecInv, EvolutionTypeOK

\* Every step keeps the state well typed.
LEMMA TypesKept == ExecInv /\ [Next]_vars => EvolutionTypeOK'
<1> SUFFICES ASSUME ExecInv, [Next]_vars PROVE EvolutionTypeOK'
  OBVIOUS
<1> USE DEF ExecInv
<1>1. CASE UNCHANGED vars
  BY <1>1 DEF vars, engineVars, executorVars, EvolutionTypeOK
<1>2. ASSUME NEW p \in Proposals, NEW g \in BOOLEAN, Propose(p) \/ AdoptIfGain(p) \/ Evaluate(p, g)
      PROVE  EvolutionTypeOK'
  <2>1. UNCHANGED executorVars
    BY <1>2 DEF Propose, AdoptIfGain, Evaluate
  <2>2. /\ status' \in [Proposals -> {"unknown", "proposed", "running", "adopted", "rejected"}]
        /\ gains' \in [Proposals -> BOOLEAN]
        /\ adoptedAt' \in [Proposals -> BOOLEAN]
    BY <1>2 DEF Propose, AdoptIfGain, Evaluate, EvolutionTypeOK
  <2> QED BY <2>1, <2>2 DEF executorVars, EvolutionTypeOK
<1>3. ASSUME NEW c \in Callers, NEW p \in Proposals, NEW m \in Mutations, Check(c, p, m)
      PROVE  EvolutionTypeOK'
  BY <1>3 DEF Check, At, Goto, engineVars, EvolutionTypeOK, JobsInOrder, Jobs
<1>4. ASSUME NEW c \in Callers, PolicyAllows(c) \/ GivesUp(c)
      PROVE  EvolutionTypeOK'
  BY <1>4 DEF PolicyAllows, GivesUp, At, Goto, engineVars, EvolutionTypeOK
<1>5. ASSUME NEW c \in Callers, ReadPrompt(c)
      PROVE  EvolutionTypeOK'
  <2>1. \A s \in DOMAIN job[c].mutation : live[s] \in Contents \cup {None}
    BY <1>5, MutationsAreMaps DEF ReadPrompt, At, EvolutionTypeOK, Jobs
  <2> QED BY <1>5, <2>1, EvolutionAssumption
          DEF ReadPrompt, At, Ready, Goto, engineVars, EvolutionTypeOK, JobsInOrder
<1>6. ASSUME NEW c \in Callers, RecordInLedger(c)
      PROVE  EvolutionTypeOK'
  <2>1. seen[c] \in 1..Len(records) /\ seen[c] \in 1..MaxRecords
    BY <1>6, EvolutionAssumption DEF RecordInLedger, At, EvolutionTypeOK
  <2>2. records[seen[c]] \in Record
    BY <2>1 DEF EvolutionTypeOK
  <2>3. Entry(seen[c]) \in Seq([mutation : 1..MaxRecords, event : {"applied", "reverted"}])
    BY <2>1, <2>2 DEF Entry, Record
  <2>4. ledger' \in Seq([mutation : 1..MaxRecords, event : {"applied", "reverted"}])
    BY <1>6, <2>3 DEF RecordInLedger, EvolutionTypeOK
  <2> QED BY <1>6, <2>4, EvolutionAssumption
          DEF RecordInLedger, At, Goto, engineVars, EvolutionTypeOK, JobsInOrder
<1>7. ASSUME NEW c \in Callers, NEW before, Makes(c, before)
      PROVE  EvolutionTypeOK'
  <2>1. PICK r \in Record : /\ records' = Append(records, r) /\ job[c] \in Jobs
                            /\ Len(records') = Len(records) + 1 /\ Len(records') <= MaxRecords
    BY <1>7, MakesRecord
  <2>2. records' \in Seq(Record)
    BY <2>1 DEF EvolutionTypeOK
  <2>3. live' \in [Places -> Contents \cup {None}]
    <3>1. \A s \in DOMAIN job[c].mutation : job[c].mutation[s] \in Contents
      BY <2>1, MutationsAreMaps DEF Jobs
    <3> QED BY <1>7, <3>1, SetTyped DEF Makes, Mutate
  <2>4. Len(records) \in Nat
    BY DEF EvolutionTypeOK
  <2>5. lock' = None /\ pc' = [pc EXCEPT ![c] = "ledger"]
        /\ seen' = [seen EXCEPT ![c] = Len(records) + 1] /\ UNCHANGED <<engineVars, job, ledger, tangled>>
    BY <1>7 DEF Makes, Mutate, Goto
  <2>6. \A d \in Callers : (pc[d] = "write") => d = c
    BY <1>7, EvolutionAssumption DEF Makes, EvolutionTypeOK
  <2>7. /\ pc' \in [Callers -> {"idle", "policy", "apply", "write", "ledger"}]
        /\ \A d \in Callers : /\ pc'[d] # "idle" => job'[d] \in Jobs
                              /\ pc'[d] # "write"
                              /\ pc'[d] = "ledger" => seen'[d] \in 1..Len(records')
                              /\ lock' # d
    BY <2>1, <2>4, <2>5, <2>6, EvolutionAssumption DEF EvolutionTypeOK, JobsInOrder
  <2> QED BY <2>1, <2>2, <2>3, <2>5, <2>7 DEF EvolutionTypeOK, engineVars
<1>8. ASSUME NEW i \in 1..MaxRecords, Revert(i)
      PROVE  EvolutionTypeOK'
  <2>1. records' \in Seq(Record) /\ Len(records') = Len(records)
        /\ records[i].before \in [DOMAIN records[i].mutation -> Contents \cup {None}]
        /\ records[i].mutation \in Mutations
    BY <1>8, RevertRecord
  <2>2. live' \in [Places -> Contents \cup {None}]
    BY <1>8, <2>1, SetTyped DEF Revert, EvolutionTypeOK
  <2>3. tangled' \subseteq Places
    BY <1>8, <2>1, MutationsAreMaps DEF Revert, Overwritten, EvolutionTypeOK
  <2> QED BY <1>8, <2>1, <2>2, <2>3 DEF Revert, EvolutionTypeOK, engineVars
<1>9. ASSUME NEW s \in Prompts, NEW x \in Contents, AgentWrites(s, x)
      PROVE  EvolutionTypeOK'
  BY <1>9 DEF AgentWrites, EvolutionTypeOK, engineVars, Places
<1> QED BY <1>1, <1>2, <1>3, <1>4, <1>5, <1>6, <1>7, <1>8, <1>9, StepKinds

-----------------------------------------------------------------------------
(* Callers, proposals and the ledger.                                      *)

\* A caller that leaves the callers still to come makes room for one.
LEMMA FewerComing ==
    ASSUME ExecInv, NEW c \in Callers
    PROVE  /\ Cardinality(Coming) \in Nat
           /\ Cardinality(Coming \ {c}) \in Nat
           /\ Cardinality(Coming \ {c}) <= Cardinality(Coming)
           /\ c \in Coming => Cardinality(Coming \ {c}) = Cardinality(Coming) - 1
           /\ Cardinality(Coming \cup {c}) \in Nat
           /\ Cardinality(Coming \cup {c}) <= Cardinality(Coming) + 1
<1>1. IsFiniteSet(Coming)
  BY EvolutionAssumption, FS_Subset DEF Coming
<1> QED BY <1>1, FS_CardinalityType, FS_RemoveElement, FS_AddElement

\* Every step leaves room for the mutations still to come.
LEMMA JobsKept == ExecInv /\ [Next]_vars => JobsInOrder'
<1> SUFFICES ASSUME ExecInv, [Next]_vars PROVE JobsInOrder'
  OBVIOUS
<1> USE DEF ExecInv
<1>0. Len(records) \in Nat /\ MaxRecords \in Nat
  BY EvolutionAssumption DEF EvolutionTypeOK
<1>1. CASE UNCHANGED vars
  BY <1>1 DEF vars, engineVars, executorVars, JobsInOrder, Coming
<1>2. ASSUME NEW p \in Proposals, NEW g \in BOOLEAN, Propose(p) \/ AdoptIfGain(p) \/ Evaluate(p, g)
      PROVE  JobsInOrder'
  BY <1>2 DEF Propose, AdoptIfGain, Evaluate, executorVars, JobsInOrder, Coming
<1>3. ASSUME NEW c \in Callers, NEW p \in Proposals, NEW m \in Mutations, Check(c, p, m)
      PROVE  JobsInOrder'
  <2>1. Coming' = Coming \cup {c}
    BY <1>3 DEF Check, At, Goto, Coming, EvolutionTypeOK
  <2>2. Len(records) + Cardinality(Coming) < MaxRecords
    BY <1>3 DEF Check, Coming
  <2>3. /\ Cardinality(Coming) \in Nat /\ Cardinality(Coming \cup {c}) \in Nat
        /\ Cardinality(Coming \cup {c}) <= Cardinality(Coming) + 1
    BY FewerComing
  <2>4. Len(records) + Cardinality(Coming \cup {c}) <= MaxRecords
    BY <1>0, <2>2, <2>3
  <2>5. Len(records') + Cardinality(Coming') <= MaxRecords
    BY <1>3, <2>1, <2>4 DEF Check
  <2> QED BY <1>3, <2>5 DEF Check, At, Goto, JobsInOrder, EvolutionTypeOK
<1>4. ASSUME NEW c \in Callers, PolicyAllows(c)
      PROVE  JobsInOrder'
  <2>1. Coming' = Coming
    BY <1>4 DEF PolicyAllows, At, Goto, Coming, EvolutionTypeOK
  <2> QED BY <1>4, <2>1 DEF PolicyAllows, At, Goto, JobsInOrder, EvolutionTypeOK
<1>5. ASSUME NEW c \in Callers, GivesUp(c)
      PROVE  JobsInOrder'
  <2>1. Coming' = Coming \ {c}
    BY <1>5 DEF GivesUp, At, Goto, Coming, EvolutionTypeOK
  <2>2. /\ Cardinality(Coming) \in Nat /\ Cardinality(Coming \ {c}) \in Nat
        /\ Cardinality(Coming \ {c}) <= Cardinality(Coming)
    BY FewerComing
  <2>3. Len(records) + Cardinality(Coming \ {c}) <= MaxRecords
    BY <1>0, <2>2 DEF JobsInOrder
  <2>4. Len(records') + Cardinality(Coming') <= MaxRecords
    BY <1>5, <2>1, <2>3 DEF GivesUp
  <2> QED BY <1>5, <2>4 DEF GivesUp, At, Goto, JobsInOrder, EvolutionTypeOK
<1>6. ASSUME NEW c \in Callers, ReadPrompt(c)
      PROVE  JobsInOrder'
  <2>1. Coming' = Coming
    BY <1>6 DEF ReadPrompt, At, Goto, Coming, EvolutionTypeOK
  <2> QED BY <1>6, <2>1 DEF ReadPrompt, At, Goto, JobsInOrder, EvolutionTypeOK
<1>7. ASSUME NEW c \in Callers, RecordInLedger(c)
      PROVE  JobsInOrder'
  <2>1. Coming' = Coming
    BY <1>7 DEF RecordInLedger, At, Goto, Coming, EvolutionTypeOK
  <2> QED BY <1>7, <2>1 DEF RecordInLedger, At, Goto, JobsInOrder, EvolutionTypeOK
<1>8. ASSUME NEW c \in Callers, NEW before, Makes(c, before)
      PROVE  JobsInOrder'
  <2>1. Coming' = Coming \ {c} /\ Len(records') = Len(records) + 1
    BY <1>8, MakesRecord
  <2>2. c \in Coming
    BY <1>8 DEF Makes, Coming
  <2>3. Len(records') + Cardinality(Coming') <= MaxRecords
    BY <1>0, <2>1, <2>2, FewerComing DEF JobsInOrder
  <2> QED BY <1>8, <2>3 DEF Makes, Mutate, Goto, JobsInOrder, EvolutionTypeOK
<1>9. ASSUME NEW i \in 1..MaxRecords, Revert(i)
      PROVE  JobsInOrder'
  <2>1. Len(records') = Len(records)
    BY <1>9, RevertRecord
  <2> QED BY <1>9, <2>1 DEF Revert, JobsInOrder, Coming
<1>10. ASSUME NEW s \in Prompts, NEW x \in Contents, AgentWrites(s, x)
       PROVE  JobsInOrder'
  BY <1>10 DEF AgentWrites, JobsInOrder, Coming
<1> QED BY <1>1, <1>2, <1>3, <1>4, <1>5, <1>6, <1>7, <1>8, <1>9, <1>10, StepKinds

\* Every step leaves each mutation and each caller with a proposal that was adopted.
LEMMA GainsKept == ExecInv /\ [Next]_vars => RestsOnGain'
<1> SUFFICES ASSUME ExecInv, [Next]_vars PROVE RestsOnGain'
  OBVIOUS
<1> USE DEF ExecInv
<1>1. CASE UNCHANGED vars
  BY <1>1 DEF vars, engineVars, executorVars, RestsOnGain, AppliedOnGain
<1>2. ASSUME NEW p \in Proposals, NEW g \in BOOLEAN, Propose(p) \/ AdoptIfGain(p) \/ Evaluate(p, g)
      PROVE  RestsOnGain'
  <2>1. \A q \in Proposals : /\ adoptedAt[q] => adoptedAt'[q]
                             /\ status'[q] = "adopted" => gains'[q] /\ adoptedAt'[q]
    BY <1>2 DEF Propose, AdoptIfGain, Evaluate, RestsOnGain, AppliedOnGain, EvolutionTypeOK
  <2>2. \A i \in 1..Len(records) : records[i].proposal \in Proposals
    <3>1. \A i \in 1..Len(records) : records[i] \in Record
      BY DEF EvolutionTypeOK
    <3> QED BY <3>1 DEF Record
  <2>3. \A c \in Callers : pc[c] # "idle" => job[c].proposal \in Proposals
    BY DEF EvolutionTypeOK, Jobs
  <2>4. UNCHANGED <<records, pc, job>>
    BY <1>2 DEF Propose, AdoptIfGain, Evaluate, executorVars
  <2> QED BY <2>1, <2>2, <2>3, <2>4 DEF RestsOnGain, AppliedOnGain
<1>3. ASSUME NEW c \in Callers, NEW p \in Proposals, NEW m \in Mutations, Check(c, p, m)
      PROVE  RestsOnGain'
  BY <1>3 DEF Check, At, Goto, Adoptable, engineVars, RestsOnGain, AppliedOnGain,
              EvolutionTypeOK, JobsInOrder
<1>4. ASSUME NEW c \in Callers, PolicyAllows(c) \/ GivesUp(c) \/ ReadPrompt(c)
      PROVE  RestsOnGain'
  BY <1>4 DEF PolicyAllows, GivesUp, ReadPrompt, At, Goto, engineVars, RestsOnGain,
              AppliedOnGain, EvolutionTypeOK
<1>5. ASSUME NEW c \in Callers, RecordInLedger(c)
      PROVE  RestsOnGain'
  BY <1>5 DEF RecordInLedger, At, Goto, engineVars, RestsOnGain, AppliedOnGain,
              EvolutionTypeOK, JobsInOrder
<1>6. ASSUME NEW c \in Callers, NEW before, Makes(c, before)
      PROVE  RestsOnGain'
  <2>1. PICK r \in Record : /\ r.proposal = job[c].proposal
                            /\ Len(records') = Len(records) + 1
                            /\ records'[Len(records) + 1] = r
                            /\ \A i \in 1..Len(records) : records'[i] = records[i]
    BY <1>6, MakesRecord
  <2>2. adoptedAt[r.proposal]
    BY <1>6, <2>1 DEF Makes, RestsOnGain
  <2>3. Len(records) \in Nat
    BY DEF EvolutionTypeOK
  <2>4. \A i \in 1..Len(records') : adoptedAt[records'[i].proposal]
    BY <2>1, <2>2, <2>3 DEF RestsOnGain, AppliedOnGain
  <2> QED BY <1>6, <2>4 DEF Makes, Mutate, Goto, engineVars, RestsOnGain, AppliedOnGain,
                            EvolutionTypeOK
<1>7. ASSUME NEW i \in 1..MaxRecords, Revert(i)
      PROVE  RestsOnGain'
  <2>1. Len(records') = Len(records)
        /\ \A j \in 1..Len(records) : records'[j].proposal = records[j].proposal
    BY <1>7, RevertRecord
  <2> QED BY <1>7, <2>1 DEF Revert, engineVars, RestsOnGain, AppliedOnGain
<1>8. ASSUME NEW s \in Prompts, NEW x \in Contents, AgentWrites(s, x)
      PROVE  RestsOnGain'
  BY <1>8 DEF AgentWrites, engineVars, RestsOnGain, AppliedOnGain
<1> QED BY <1>1, <1>2, <1>3, <1>4, <1>5, <1>6, <1>7, <1>8, StepKinds

\* The events about the i-th mutation, and whether its caller is about to write one.
About(i)  == {k \in 1..Len(ledger) : ledger[k].mutation = i}
Unwritten(i) == \E c \in Callers : pc[c] = "ledger" /\ seen[c] = i

\* Every step leaves every mutation in the ledger once, unless its caller is about to
\* write it there.
LEMMA LedgerKept == ExecInv /\ [Next]_vars => LedgerInOrder'
<1> SUFFICES ASSUME ExecInv, [Next]_vars PROVE LedgerInOrder'
  OBVIOUS
<1> USE DEF ExecInv
<1>0. Len(records) \in Nat /\ Len(ledger) \in Nat
  BY DEF EvolutionTypeOK
<1>1. CASE UNCHANGED vars
  BY <1>1 DEF vars, engineVars, executorVars, LedgerInOrder, EveryMutationLedgered
<1>2. ASSUME UNCHANGED <<records, seen, ledger>>, NEW c \in Callers, NEW x,
             x # "ledger", pc[c] # "ledger", Goto(c, x) \/ UNCHANGED pc
      PROVE  LedgerInOrder'
  <2>1. \A d \in Callers : pc'[d] = "ledger" <=> pc[d] = "ledger"
    BY <1>2 DEF Goto, EvolutionTypeOK
  <2> QED BY <1>2, <2>1 DEF LedgerInOrder, EveryMutationLedgered
<1>3. ASSUME NEW p \in Proposals, NEW g \in BOOLEAN, Propose(p) \/ AdoptIfGain(p) \/ Evaluate(p, g)
      PROVE  LedgerInOrder'
  BY <1>3 DEF Propose, AdoptIfGain, Evaluate, executorVars, LedgerInOrder, EveryMutationLedgered
<1>4. ASSUME NEW c \in Callers, NEW p \in Proposals, NEW m \in Mutations, Check(c, p, m)
      PROVE  LedgerInOrder'
  BY <1>2, <1>4 DEF Check, At
<1>5. ASSUME NEW c \in Callers, PolicyAllows(c) \/ GivesUp(c)
      PROVE  LedgerInOrder'
  BY <1>2, <1>5 DEF PolicyAllows, GivesUp, At
<1>6. ASSUME NEW c \in Callers, ReadPrompt(c)
      PROVE  LedgerInOrder'
  <2>1. pc[c] = "apply" /\ pc' = [pc EXCEPT ![c] = "write"] /\ UNCHANGED <<records, ledger>>
    BY <1>6 DEF ReadPrompt, At, Goto
  <2>2. \A d \in Callers : /\ pc'[d] = "ledger" <=> pc[d] = "ledger"
                           /\ pc[d] = "ledger" => seen'[d] = seen[d]
    BY <1>6, <2>1 DEF ReadPrompt, EvolutionTypeOK, JobsInOrder
  <2> QED BY <2>1, <2>2 DEF LedgerInOrder, EveryMutationLedgered
<1>7. ASSUME NEW c \in Callers, RecordInLedger(c)
      PROVE  LedgerInOrder'
  <2>1. PICK i \in 1..Len(records) : i = seen[c]
    BY <1>7 DEF RecordInLedger, At, EvolutionTypeOK
  <2>2. PICK n \in Nat : n = Len(ledger)
    BY <1>0
  <2>3. /\ Len(ledger') = n + 1 /\ ledger'[n + 1].mutation = i
        /\ \A k \in 1..n : ledger'[k] = ledger[k]
    <3>1. Entry(i) = <<[mutation |-> i, event |-> records[i].status]>>
      BY DEF Entry
    <3>2. ledger' = ledger \o <<[mutation |-> i, event |-> records[i].status]>>
      BY <1>7, <2>1, <3>1 DEF RecordInLedger
    <3> QED BY <2>2, <3>2 DEF EvolutionTypeOK
  <2>4. /\ pc[c] = "ledger" /\ pc' = [pc EXCEPT ![c] = "idle"] /\ UNCHANGED records
        /\ \A d \in Callers \ {c} : seen'[d] = seen[d]
    BY <1>7 DEF RecordInLedger, At, Goto, JobsInOrder
  <2>5. \A j \in 1..Len(records) : Cardinality(About(j)) = IF Unwritten(j) THEN 0 ELSE 1
    BY DEF LedgerInOrder, EveryMutationLedgered, About, Unwritten
  <2>6. \A j \in 1..Len(records) : Cardinality(About(j)') = IF Unwritten(j)' THEN 0 ELSE 1
    <3> TAKE j \in 1..Len(records)
    <3>1. CASE j = i
      <4>1. Unwritten(j)
        BY <2>1, <2>4, <3>1 DEF Unwritten
      <4>2. ~Unwritten(j)'
        BY <2>1, <2>4, <3>1 DEF Unwritten, LedgerInOrder, EvolutionTypeOK
      <4>3. About(j) = {}
        <5>1. IsFiniteSet(1..Len(ledger))
          BY <1>0, FS_Interval
        <5>2. IsFiniteSet(About(j))
          BY <5>1, FS_Subset DEF About
        <5> QED BY <2>5, <4>1, <5>2, FS_EmptySet
      <4>4. About(j)' = {n + 1}
        BY <2>2, <2>3, <3>1, <4>3 DEF About
      <4> QED BY <4>2, <4>4, FS_Singleton
    <3>2. CASE j # i
      <4>1. Unwritten(j)' <=> Unwritten(j)
        BY <2>1, <2>4, <3>2 DEF Unwritten, EvolutionTypeOK
      <4>2. About(j)' = About(j)
        BY <2>2, <2>3, <3>2 DEF About
      <4> QED BY <2>5, <4>1, <4>2
    <3> QED BY <3>1, <3>2
  <2>7. EveryMutationLedgered'
    BY <2>4, <2>6 DEF EveryMutationLedgered, About, Unwritten
  <2>8. \A k \in 1..Len(ledger') : ledger'[k].mutation \in 1..Len(records')
    BY <2>2, <2>3, <2>4 DEF LedgerInOrder
  <2> QED BY <2>4, <2>7, <2>8 DEF LedgerInOrder, EvolutionTypeOK
<1>8. ASSUME NEW c \in Callers, NEW before, Makes(c, before)
      PROVE  LedgerInOrder'
  <2>1. PICK n \in Nat : n = Len(records)
    BY <1>0
  <2>2. Len(records') = n + 1
    BY <1>8, <2>1, MakesRecord
  <2>3. /\ pc[c] # "ledger" /\ pc' = [pc EXCEPT ![c] = "ledger"] /\ UNCHANGED ledger
        /\ seen'[c] = n + 1 /\ \A d \in Callers \ {c} : seen'[d] = seen[d]
    BY <1>8, <2>1 DEF Makes, Mutate, Goto, JobsInOrder
  <2>4. \A d \in Callers : pc[d] = "ledger" => seen[d] \in 1..n
    BY <2>1 DEF EvolutionTypeOK
  <2>5. \A j \in 1..n : Cardinality(About(j)) = IF Unwritten(j) THEN 0 ELSE 1
    BY <2>1 DEF LedgerInOrder, EveryMutationLedgered, About, Unwritten
  <2>6. \A j \in 1..n : Cardinality(About(j)') = IF Unwritten(j)' THEN 0 ELSE 1
    <3> TAKE j \in 1..n
    <3>0. j # n + 1
      BY <2>1
    <3>1. Unwritten(j)' <=> Unwritten(j)
      BY <2>3, <3>0 DEF Unwritten, EvolutionTypeOK
    <3>2. About(j)' = About(j)
      BY <2>3 DEF About
    <3> QED BY <2>5, <3>1, <3>2
  <2>7. Cardinality(About(n + 1)') = 0 /\ Unwritten(n + 1)'
    <3>1. About(n + 1)' = {}
      BY <2>1, <2>3 DEF About, LedgerInOrder
    <3>2. Unwritten(n + 1)'
      BY <2>3 DEF Unwritten, EvolutionTypeOK
    <3> QED BY <3>1, <3>2, FS_EmptySet
  <2>8. EveryMutationLedgered'
    <3> SUFFICES ASSUME NEW j \in 1..Len(records')
                 PROVE  Cardinality(About(j)') = IF Unwritten(j)' THEN 0 ELSE 1
      BY DEF EveryMutationLedgered, About, Unwritten
    <3>1. CASE j = n + 1
      BY <2>7, <3>1
    <3>2. CASE j # n + 1
      BY <2>2, <2>6, <3>2
    <3> QED BY <3>1, <3>2
  <2>9. \A k \in 1..Len(ledger') : ledger'[k].mutation \in 1..Len(records')
    BY <2>1, <2>2, <2>3 DEF LedgerInOrder
  <2>10. \A d, e \in Callers :
            pc'[d] = "ledger" /\ pc'[e] = "ledger" /\ seen'[d] = seen'[e] => d = e
    BY <2>3, <2>4 DEF LedgerInOrder, EvolutionTypeOK
  <2> QED BY <2>8, <2>9, <2>10 DEF LedgerInOrder
<1>9. ASSUME NEW i \in 1..MaxRecords, Revert(i)
      PROVE  LedgerInOrder'
  <2>1. Len(records') = Len(records)
    BY <1>9, RevertRecord
  <2> QED BY <1>9, <2>1 DEF Revert, LedgerInOrder, EveryMutationLedgered
<1>10. ASSUME NEW s \in Prompts, NEW x \in Contents, AgentWrites(s, x)
       PROVE  LedgerInOrder'
  BY <1>10 DEF AgentWrites, LedgerInOrder, EveryMutationLedgered
<1> QED BY <1>1, <1>3, <1>4, <1>5, <1>6, <1>7, <1>8, <1>9, <1>10, StepKinds

-----------------------------------------------------------------------------
(* Mutations nest.                                                         *)

\* What stands below n stands there after a step that leaves the mutations of s below n
\* alone.
LEMMA PutStays ==
    ASSUME NEW s, NEW n, NEW v, Put(s, n, v),
           \A i \in 1..n : /\ (Applied(i) /\ Touches(i, s))' <=> Applied(i) /\ Touches(i, s)
                           /\ records'[i].mutation = records[i].mutation
    PROVE  Put(s, n, v)'
<1>1. Below(s, n)' = Below(s, n)
  BY DEF Below
<1>2. \A i \in Below(s, n) : records'[i].mutation = records[i].mutation
  BY DEF Below
<1> QED BY <1>1, <1>2 DEF Put

\* The place s is as the latest mutation left it, and each mutation of it found it as
\* the one before had left it.
Stands(s) ==
    /\ \A n \in Nat : \A v : n = Len(records) /\ v = live[s] => Put(s, n, v)
    /\ \A i \in 1..Len(records) : \A v :
          Applied(i) /\ Touches(i, s) /\ v = records[i].before[s] => Put(s, i - 1, v)
SameDomains == \A i \in 1..Len(records) : DOMAIN records[i].before = DOMAIN records[i].mutation
ReadsHold   == \A c \in Callers : pc[c] = "write" =>
                  \A s \in DOMAIN job[c].mutation : s \in tangled \/ seen[c] = live[s]
Untangled   == (ConfigPaths \cup Prompts) \ tangled

\* That is what nesting says.
LEMMA NestedMeans ==
    Len(records) \in Nat =>
        (Nested <=> (\A s \in Untangled : Stands(s)) /\ SameDomains /\ ReadsHold)
<1> SUFFICES ASSUME Len(records) \in Nat
             PROVE  Nested <=> (\A s \in Untangled : Stands(s)) /\ SameDomains /\ ReadsHold
  OBVIOUS
<1>1. \A s : Stands(s) <=> /\ Put(s, Len(records), live[s])
                           /\ \A i \in 1..Len(records) :
                                 Applied(i) /\ Touches(i, s) => Put(s, i - 1, records[i].before[s])
  BY DEF Stands
<1> QED BY <1>1 DEF Nested, SameDomains, ReadsHold, Untangled

\* A mutation made stands on top of what its places held.
LEMMA MakingNests ==
    ASSUME ExecInv, NEW c \in Callers, NEW before, Makes(c, before), NEW s \in Untangled, Stands(s)
    PROVE  Stands(s)'
<1> DEFINE m == job[c].mutation
<1>1. PICK n \in Nat : n = Len(records)
  BY DEF ExecInv, EvolutionTypeOK
<1>2. PICK r : /\ r = [proposal |-> job[c].proposal, mutation |-> m,
                       status |-> "applied", before |-> before]
               /\ Len(records') = n + 1 /\ records'[n + 1] = r
               /\ \A i \in 1..n : records'[i] = records[i]
               /\ job[c] \in Jobs
  BY <1>1, MakesRecord
<1>3. PICK v : v = live[s]
  OBVIOUS
<1>4. s \in Places /\ Put(s, n, v)
  BY <1>1, <1>3 DEF Stands, Untangled, Places
<1>5. \A k \in 0..n : \A u : Put(s, k, u) => Put(s, k, u)'
  <2> TAKE k \in 0..n
  <2>1. \A i \in 1..k : /\ (Applied(i) /\ Touches(i, s))' <=> Applied(i) /\ Touches(i, s)
                        /\ records'[i].mutation = records[i].mutation
    BY <1>2 DEF Applied, Touches
  <2> QED BY <2>1, PutStays
<1>6. /\ r.mutation = m /\ r.before = before /\ r.status = "applied"
      /\ live'[s] = IF s \in DOMAIN m THEN m[s] ELSE v
  BY <1>2, <1>3, <1>4 DEF Makes, Mutate, Set
<1>7. \A u : u = live'[s] => Put(s, n + 1, u)'
  <2> SUFFICES ASSUME NEW u, u = live'[s] PROVE Put(s, n + 1, u)'
    OBVIOUS
  <2>1. CASE s \in DOMAIN m
    <3>1. n + 1 \in Below(s, n + 1)' /\ \A j \in Below(s, n + 1)' : j <= n + 1
      BY <1>2, <1>6, <2>1 DEF Below, Applied, Touches
    <3>2. records'[n + 1].mutation[s] = u
      BY <1>2, <1>6, <2>1
    <3> QED BY <3>1, <3>2 DEF Put
  <2>2. CASE s \notin DOMAIN m
    <3>1. Put(s, n, u)'
      BY <1>4, <1>5, <1>6, <2>2
    <3>2. Below(s, n + 1)' = Below(s, n)'
      BY <1>2, <1>6, <2>2 DEF Below, Applied, Touches
    <3> QED BY <3>1, <3>2 DEF Put
  <2> QED BY <2>1, <2>2
<1>8. ASSUME NEW i \in 1..(n + 1), NEW u, (Applied(i) /\ Touches(i, s))', u = records'[i].before[s]
      PROVE  Put(s, i - 1, u)'
  <2>1. PICK k \in 0..n : k = i - 1
    OBVIOUS
  <2>2. CASE i = n + 1
    <3>1. s \in DOMAIN m /\ u = before[s]
      BY <1>2, <1>6, <1>8, <2>2 DEF Touches
    <3>2. u = v
      BY <1>3, <3>1 DEF Makes, Untangled
    <3> QED BY <1>4, <1>5, <2>1, <2>2, <3>2
  <2>3. CASE i # n + 1
    <3>1. i \in 1..n /\ Applied(i) /\ Touches(i, s) /\ u = records[i].before[s]
      BY <1>2, <1>8, <2>3 DEF Applied, Touches
    <3>2. Put(s, k, u)
      BY <1>1, <2>1, <3>1 DEF Stands
    <3> QED BY <1>5, <2>1, <3>2
  <2> QED BY <2>2, <2>3
<1> QED BY <1>2, <1>7, <1>8 DEF Stands

\* A mutation reverted uncovers the one under it.
LEMMA RevertingNests ==
    ASSUME ExecInv, NEW i, Revert(i), NEW s \in Untangled, s \notin tangled', Stands(s)
    PROVE  Stands(s)'
<1>1. PICK n \in Nat : n = Len(records)
  BY DEF ExecInv, EvolutionTypeOK
<1>2. /\ i \in 1..n /\ Len(records') = n
      /\ \A j \in 1..n : /\ records'[j].mutation = records[j].mutation
                         /\ records'[j].before = records[j].before
                         /\ records'[j].status = IF j = i THEN "reverted" ELSE records[j].status
      /\ records[i].before \in [DOMAIN records[i].mutation -> Contents \cup {None}]
      /\ records[i].mutation \in Mutations /\ Applied(i)
  <2>1. Applied(i)
    BY DEF Revert
  <2> QED BY <1>1, <2>1, RevertRecord, Zenon
<1>3. s \in Places /\ s \notin Layouts
  BY EvolutionAssumption DEF Untangled, Places
<1>4. CASE ~Touches(i, s)
  <2>1. live'[s] = live[s]
    BY <1>2, <1>3, <1>4 DEF Revert, Set, Touches
  <2>2. \A k \in 0..n : \A u : Put(s, k, u) => Put(s, k, u)'
    <3> TAKE k \in 0..n
    <3>1. \A j \in 1..k : /\ (Applied(j) /\ Touches(j, s))' <=> Applied(j) /\ Touches(j, s)
                          /\ records'[j].mutation = records[j].mutation
      BY <1>2, <1>4 DEF Applied, Touches
    <3> QED BY <3>1, PutStays
  <2>3. \A u : u = live'[s] => Put(s, n, u)'
    BY <1>1, <2>1, <2>2 DEF Stands
  <2>4. ASSUME NEW j \in 1..n, NEW u, (Applied(j) /\ Touches(j, s))', u = records'[j].before[s]
        PROVE  Put(s, j - 1, u)'
    <3>1. PICK k \in 0..n : k = j - 1
      OBVIOUS
    <3>2. Applied(j) /\ Touches(j, s) /\ u = records[j].before[s]
      BY <1>2, <1>4, <2>4 DEF Applied, Touches
    <3>3. Put(s, k, u)
      BY <1>1, <3>1, <3>2 DEF Stands
    <3> QED BY <2>2, <3>1, <3>3
  <2> QED BY <1>2, <2>3, <2>4 DEF Stands
<1>5. CASE Touches(i, s)
  <2>1. Revertible(records[i].mutation)
    BY <1>3, <1>5 DEF Revertible, IsLayout, Touches
  <2>2. live'[s] = records[i].before[s] /\ s \notin Overwritten(i)
    BY <1>2, <1>3, <1>5, <2>1 DEF Revert, Set, Touches
  <2>3. \A j \in i + 1 .. n : ~(Applied(j) /\ Touches(j, s))
    BY <1>1, <1>5, <2>2 DEF Overwritten, Touches
  <2>4. \A k \in 0 .. i - 1 : \A u : Put(s, k, u) => Put(s, k, u)'
    <3> TAKE k \in 0 .. i - 1
    <3>1. \A j \in 1..k : /\ (Applied(j) /\ Touches(j, s))' <=> Applied(j) /\ Touches(j, s)
                          /\ records'[j].mutation = records[j].mutation
      BY <1>2 DEF Applied, Touches
    <3> QED BY <3>1, PutStays
  <2>5. PICK k \in 0 .. i - 1 : k = i - 1
    BY <1>2
  <2>6. Below(s, n)' = Below(s, k)'
    BY <1>2, <2>3, <2>5 DEF Below, Applied, Touches
  <2>7. \A u : u = live'[s] => Put(s, n, u)'
    <3> SUFFICES ASSUME NEW u, u = live'[s] PROVE Put(s, n, u)'
      OBVIOUS
    <3>1. Put(s, k, u)
      BY <1>1, <1>2, <1>5, <2>2, <2>5 DEF Stands
    <3>2. Put(s, k, u)'
      BY <2>4, <3>1
    <3> QED BY <2>6, <3>2 DEF Put
  <2>8. ASSUME NEW j \in 1..n, NEW u, (Applied(j) /\ Touches(j, s))', u = records'[j].before[s]
        PROVE  Put(s, j - 1, u)'
    <3>1. j \in 1 .. i - 1 /\ Applied(j) /\ Touches(j, s) /\ u = records[j].before[s]
      BY <1>2, <2>3, <2>8 DEF Applied, Touches
    <3>2. PICK l \in 0 .. i - 1 : l = j - 1
      BY <1>2, <3>1
    <3>3. Put(s, l, u)
      BY <1>1, <1>2, <3>1, <3>2 DEF Stands
    <3> QED BY <2>4, <3>2, <3>3
  <2> QED BY <1>2, <2>7, <2>8 DEF Stands
<1> QED BY <1>4, <1>5

\* Every step keeps the mutations nested.
LEMMA NestingKept == ExecInv /\ [Next]_vars => Nested'
<1> SUFFICES ASSUME ExecInv, [Next]_vars PROVE Nested'
  OBVIOUS
<1>1. Len(records) \in Nat
  BY DEF ExecInv, EvolutionTypeOK
<1>2. (Len(records) \in Nat)'
  BY TypesKept DEF EvolutionTypeOK
<1>3. (\A s \in Untangled : Stands(s)) /\ SameDomains /\ ReadsHold
  BY <1>1, NestedMeans DEF ExecInv
<1>4. ((\A s \in Untangled : Stands(s)) /\ SameDomains /\ ReadsHold)'
  <2>1. ASSUME UNCHANGED <<live, records, tangled>>
        PROVE  (\A s \in Untangled : Stands(s))' /\ SameDomains'
    <3>1. \A s : Stands(s)' <=> Stands(s)
      BY <2>1 DEF Stands, Put, Below, Applied, Touches
    <3> QED BY <1>3, <2>1, <3>1 DEF Untangled, SameDomains
  <2>2. ASSUME UNCHANGED <<live, tangled>>,
               \A c \in Callers : /\ pc'[c] = "write" => pc[c] = "write"
                                  /\ pc[c] = "write" => job'[c] = job[c] /\ seen'[c] = seen[c]
        PROVE  ReadsHold'
    BY <1>3, <2>2 DEF ReadsHold
  <2>3. CASE UNCHANGED vars
    <3>1. UNCHANGED <<live, records, lock, pc, job, seen, tangled>>
      BY <2>3 DEF vars, executorVars
    <3> QED BY <2>1, <2>2, <3>1
  <2>4. ASSUME NEW p \in Proposals, NEW g \in BOOLEAN, Propose(p) \/ AdoptIfGain(p) \/ Evaluate(p, g)
        PROVE  ((\A s \in Untangled : Stands(s)) /\ SameDomains /\ ReadsHold)'
    <3>1. UNCHANGED <<live, records, lock, pc, job, seen, tangled>>
      BY <2>4 DEF Propose, AdoptIfGain, Evaluate, executorVars
    <3> QED BY <2>1, <2>2, <3>1
  <2>5. ASSUME NEW c \in Callers, NEW p \in Proposals, NEW m \in Mutations, Check(c, p, m)
        PROVE  ((\A s \in Untangled : Stands(s)) /\ SameDomains /\ ReadsHold)'
    BY <2>1, <2>2, <2>5 DEF Check, At, Goto, ExecInv, EvolutionTypeOK, JobsInOrder
  <2>6. ASSUME NEW c \in Callers, PolicyAllows(c) \/ GivesUp(c) \/ RecordInLedger(c)
        PROVE  ((\A s \in Untangled : Stands(s)) /\ SameDomains /\ ReadsHold)'
    BY <2>1, <2>2, <2>6 DEF PolicyAllows, GivesUp, RecordInLedger, At, Goto,
                            ExecInv, EvolutionTypeOK, JobsInOrder
  <2>7. ASSUME NEW c \in Callers, ReadPrompt(c)
        PROVE  ((\A s \in Untangled : Stands(s)) /\ SameDomains /\ ReadsHold)'
    <3>1. \E s : DOMAIN job[c].mutation = {s}
      BY <2>7, MutationsAreMaps DEF ReadPrompt, At, ExecInv, EvolutionTypeOK, Jobs
    <3>2. ReadsHold'
      BY <1>3, <2>7, <3>1 DEF ReadPrompt, At, Goto, ExecInv, EvolutionTypeOK, JobsInOrder, ReadsHold
    <3> QED BY <2>1, <2>7, <3>2 DEF ReadPrompt
  <2>8. ASSUME NEW c \in Callers, NEW before, Makes(c, before)
        PROVE  ((\A s \in Untangled : Stands(s)) /\ SameDomains /\ ReadsHold)'
    <3>1. \A s \in Untangled : Stands(s)'
      BY <1>3, <2>8, MakingNests
    <3>2. Untangled' = Untangled
      BY <2>8 DEF Makes, Untangled
    <3>3. SameDomains'
      <4>1. PICK r : /\ r.mutation = job[c].mutation /\ r.before = before
                     /\ Len(records') = Len(records) + 1
                     /\ records'[Len(records) + 1] = r
                     /\ \A i \in 1..Len(records) : records'[i] = records[i]
        BY <2>8, MakesRecord
      <4>2. DOMAIN r.before = DOMAIN r.mutation
        BY <2>8, <4>1 DEF Makes
      <4> QED BY <1>1, <1>3, <4>1, <4>2 DEF SameDomains
    <3>4. \A d \in Callers : pc'[d] # "write"
      BY <2>8, EvolutionAssumption DEF Makes, Mutate, Goto, ExecInv, EvolutionTypeOK
    <3> QED BY <3>1, <3>2, <3>3, <3>4 DEF ReadsHold
  <2>9. ASSUME NEW i \in 1..MaxRecords, Revert(i)
        PROVE  ((\A s \in Untangled : Stands(s)) /\ SameDomains /\ ReadsHold)'
    <3>1. tangled \subseteq tangled'
      BY <2>9 DEF Revert
    <3>2. \A s \in Untangled : s \notin tangled' => Stands(s)'
      BY <1>3, <2>9, RevertingNests
    <3>3. SameDomains'
      BY <1>3, <2>9, RevertRecord DEF SameDomains
    <3>4. \A d \in Callers : pc'[d] # "write"
      BY <2>9, EvolutionAssumption DEF Revert, Ready, ExecInv, EvolutionTypeOK
    <3> QED BY <3>1, <3>2, <3>3, <3>4 DEF ReadsHold, Untangled
  <2>10. ASSUME NEW s \in Prompts, NEW x \in Contents, AgentWrites(s, x)
         PROVE  ((\A r \in Untangled : Stands(r)) /\ SameDomains /\ ReadsHold)'
    <3>1. /\ UNCHANGED <<records, pc, job, seen>> /\ tangled' = tangled \cup {s}
          /\ \A r \in Places \ {s} : live'[r] = live[r]
      BY <2>10 DEF AgentWrites, ExecInv, EvolutionTypeOK
    <3>2. \A r \in Untangled \ {s} : Stands(r)'
      <4> SUFFICES ASSUME NEW r \in Untangled \ {s} PROVE Stands(r)'
        OBVIOUS
      <4>1. live'[r] = live[r] /\ UNCHANGED records
        BY <3>1 DEF Untangled, Places
      <4>2. Stands(r)' <=> Stands(r)
        BY <4>1 DEF Stands, Put, Below, Applied, Touches
      <4> QED BY <1>3, <4>2
    <3>3. ReadsHold'
      <4> SUFFICES ASSUME NEW c \in Callers, pc[c] = "write", NEW r \in DOMAIN job[c].mutation
                   PROVE  r \in tangled' \/ seen[c] = live'[r]
        BY <3>1 DEF ReadsHold
      <4>1. r \in Places
        BY MutationsAreMaps DEF ExecInv, EvolutionTypeOK, Jobs
      <4> QED BY <1>3, <3>1, <4>1 DEF ReadsHold
    <3> QED BY <1>3, <3>1, <3>2, <3>3 DEF SameDomains, Untangled
  <2> QED BY <2>3, <2>4, <2>5, <2>6, <2>7, <2>8, <2>9, <2>10, StepKinds
<1> QED BY <1>2, <1>4, NestedMeans, PTL

-----------------------------------------------------------------------------
(* The theorems.                                                           *)

\* All of it holds at the start, before anything was proposed.
LEMMA ExecInit == Init => ExecInv
<1> SUFFICES ASSUME Init PROVE ExecInv
  OBVIOUS
<1> USE DEF Init
<1>1. Coming = {} /\ Cardinality(Coming) = 0 /\ Len(records) = 0
  BY FS_EmptySet DEF Coming
<1>2. EvolutionTypeOK
  BY EvolutionAssumption DEF EvolutionTypeOK
<1>3. JobsInOrder
  BY <1>1, EvolutionAssumption DEF JobsInOrder
<1>4. RestsOnGain
  BY <1>1 DEF RestsOnGain, AppliedOnGain
<1>5. LedgerInOrder
  BY <1>1 DEF LedgerInOrder, EveryMutationLedgered
<1>6. Nested
  BY <1>1 DEF Nested, Put, Below, Places
<1> QED BY <1>2, <1>3, <1>4, <1>5, <1>6 DEF ExecInv

\* ExecInv is an invariant.
LEMMA ExecAlways == Spec => []ExecInv
<1>1. ExecInv /\ [Next]_vars => ExecInv'
  BY TypesKept, JobsKept, GainsKept, LedgerKept, NestingKept DEF ExecInv
<1> QED BY <1>1, ExecInit, PTL DEF Spec

\* For any callers, proposals and mutations: every mutation rests on a proposal that was
\* adopted with its gain, whatever was measured or adopted between apply()'s check and
\* its lock (executor.py 98-113), and stands in the ledger once (114-122).
THEOREM MutationsRestOnGain == Spec => []EvolutionInv
<1>1. ExecInv => EvolutionInv
  BY DEF ExecInv, RestsOnGain, LedgerInOrder, EvolutionInv
<1> QED BY <1>1, ExecAlways, PTL

\* Where nobody reverts out of order and no agent writes, any nesting of mutations and
\* reverts leaves each place as its latest mutation still applied left it, and as it was
\* when none is (executor.py 127-149, 184-198).
THEOREM RevertsRestore == Spec => []InOrderRestores
<1>1. ASSUME ExecInv PROVE InOrderRestores
  <2> SUFFICES ASSUME NEW s \in Untangled
               PROVE  live[s] = IF LatestApplied(s) = {} THEN None
                                ELSE records[CHOOSE i \in LatestApplied(s) : TRUE].mutation[s]
    BY DEF InOrderRestores, Untangled
  <2>1. PICK n \in Nat : n = Len(records)
    BY <1>1 DEF ExecInv, EvolutionTypeOK
  <2>2. Put(s, n, live[s])
    BY <1>1, <2>1 DEF ExecInv, Nested, Untangled
  <2>3. CASE Below(s, n) = {}
    <3>1. LatestApplied(s) = {}
      BY <2>1, <2>3 DEF LatestApplied, Below
    <3> QED BY <2>2, <2>3, <3>1 DEF Put
  <2>4. CASE Below(s, n) # {}
    <3>1. PICK i \in Below(s, n) : /\ \A j \in Below(s, n) : j <= i
                                   /\ records[i].mutation[s] = live[s]
      BY <2>2, <2>4 DEF Put
    <3>2. LatestApplied(s) = {i}
      BY <2>1, <3>1 DEF LatestApplied, Below
    <3> QED BY <3>1, <3>2
  <2> QED BY <2>3, <2>4
<1> QED BY <1>1, ExecAlways, PTL

-----------------------------------------------------------------------------
(* Simulation.  A dry run, one step of the plan at a time.                 *)

PlanStep     == [duration : Nat, error : BOOLEAN, effects : Seq(Effects)]
DryRunResult == [status : {"ok", "failed", "skipped"}, applied : Seq(Effects)]

\* The loop keeps to the budgets: what the backend was told is of the plan's steps and
\* allowed, the clock is within the time, and there is at most one result for each step.
DryRunInv ==
    /\ topic \in {"dryrun", "sandbox"}
    /\ plan \in Seq(PlanStep)
    /\ limits \in [steps : Nat, time : Nat, effects : Nat]
    /\ at \in 1 .. Len(plan) + 1
    /\ clock \in 0..limits.time
    /\ log \in Seq([step : 1..Len(plan), effect : Allowed]) /\ Len(log) <= limits.effects
    /\ rejected \cap Allowed = {}
    /\ exceeded \in BOOLEAN /\ timedOut \in BOOLEAN
    /\ results \in Seq(DryRunResult) /\ Len(results) <= at - 1

\* What the assumptions say.
LEMMA SimulationFacts ==
    /\ \A p \in Plans : p \in Seq(PlanStep)
    /\ \A l \in Limits : l \in [steps : Nat, time : Nat, effects : Nat]
    /\ Sizes \subseteq Nat /\ Allowed \subseteq Effects
<1>1. Plans \subseteq Seq(PlanStep) \ {<<>>}
  BY SimulationAssumption, Zenon DEF PlanStep
<1>2. Limits \subseteq [steps : Nat, time : Nat, effects : Nat] /\ Sizes \subseteq Nat /\ Allowed \subseteq Effects
  BY SimulationAssumption, Zenon
<1> QED BY <1>1, <1>2

\* The step the loop is at.
LEMMA StepIs ==
    ASSUME DryRunInv, Running
    PROVE  /\ at \in 1..Len(plan) /\ Len(plan) \in Nat
           /\ Step.duration \in Nat /\ Step.error \in BOOLEAN /\ Step.effects \in Seq(Effects)
<1>1. at \in 1..Len(plan) /\ Len(plan) \in Nat /\ plan[at] \in PlanStep
  <2>1. plan \in Seq(PlanStep) /\ at \in 1 .. Len(plan) + 1 /\ at <= Len(plan)
    BY DEF DryRunInv, Running
  <2> QED BY <2>1
<1> QED BY <1>1 DEF Step, PlanStep

\* Telling the backend some of the effects of a sound step, within what there is room for.
LEMMA ApplyKeeps ==
    ASSUME DryRunInv, Sound, NEW n \in Nat, n <= Len(Step.effects), n <= Room, Apply(n)
    PROVE  /\ log' \in Seq([step : 1..Len(plan), effect : Allowed])
           /\ Len(log') <= limits.effects
<1> DEFINE E == [step : 1..Len(plan), effect : Allowed]
           more == [i \in 1..n |-> [step |-> at, effect |-> Step.effects[i]]]
<1>1. Step.effects \in Seq(Effects) /\ at \in 1..Len(plan)
  BY StepIs DEF Sound
<1>2. \A i \in 1..n : Step.effects[i] \in Allowed
  <2>1. \A i \in DOMAIN Step.effects : Step.effects[i] \in Allowed
    BY DEF Sound, BadOf, ToSet
  <2>2. \A i \in 1..n : i \in DOMAIN Step.effects
    BY <1>1
  <2> QED BY <2>1, <2>2
<1>3. \A i \in 1..n : [step |-> at, effect |-> Step.effects[i]] \in E
  BY <1>1, <1>2
<1>4. log \in Seq(E) /\ Len(log) <= limits.effects /\ limits.effects \in Nat
  BY DEF DryRunInv
<1> HIDE DEF E
<1>5. more \in Seq(E) /\ Len(more) = n
  BY <1>3
<1>6. log' = log \o more
  BY DEF Apply
<1> HIDE DEF more
<1>7. log' \in Seq(E) /\ Len(log') = Len(log) + n /\ Len(log) \in Nat
  BY <1>4, <1>5, <1>6
<1>8. n <= limits.effects - Len(log)
  BY DEF Room
<1>9. Len(log') <= limits.effects
  BY <1>4, <1>7, <1>8
<1> QED BY <1>7, <1>9 DEF E

\* A result for the step the loop is at, and none for the steps it leaves out.
LEMMA ResultKeeps ==
    ASSUME DryRunInv, Running, NEW r \in DryRunResult, results' = Append(results, r),
           NEW j \in at + 1 .. Len(plan) + 1, at' = j
    PROVE  results' \in Seq(DryRunResult) /\ Len(results') <= at' - 1
<1>1. results \in Seq(DryRunResult) /\ Len(results) <= at - 1 /\ at \in 1..Len(plan) /\ Len(plan) \in Nat
  BY StepIs DEF DryRunInv
<1>2. results' \in Seq(DryRunResult) /\ Len(results') = Len(results) + 1 /\ Len(results) \in Nat
  BY <1>1
<1>3. j \in Int /\ j >= at + 1
  BY <1>1
<1> QED BY <1>1, <1>2, <1>3

\* A result without effects.
LEMMA EmptyResult == \A told \in {"ok", "failed", "skipped"} : Result(told, <<>>) \in DryRunResult
<1>1. <<>> \in Seq(Effects)
  OBVIOUS
<1> QED BY <1>1 DEF Result, DryRunResult

\* Each step of the loop keeps the invariant.
LEMMA DryRunStep ==
    ASSUME DryRunInv,
           BeyondSteps \/ BeyondTime \/ FailStep \/ ApplyWhole \/ BeyondEffects \/ Return
    PROVE  DryRunInv'
<1> USE DEF DryRunInv
<1>1. CASE BeyondSteps
  <2>1. /\ Running /\ results' = Append(results, Skipped) /\ at' = at + 1 /\ exceeded' = TRUE
        /\ UNCHANGED <<topic, plan, limits, clock, log, rejected, timedOut>>
    BY <1>1 DEF BeyondSteps
  <2>2. at + 1 \in at + 1 .. Len(plan) + 1 /\ at + 1 \in 1 .. Len(plan) + 1
    BY <2>1, StepIs
  <2>3. results' \in Seq(DryRunResult) /\ Len(results') <= at' - 1
    BY <2>1, <2>2, EmptyResult, ResultKeeps DEF Skipped
  <2> QED BY <2>1, <2>2, <2>3
<1>2. CASE BeyondTime
  <2>1. /\ Running /\ results' = Append(results, Skipped) /\ at' = Len(plan) + 1 /\ timedOut' = TRUE
        /\ UNCHANGED <<topic, plan, limits, clock, log, rejected, exceeded>>
    BY <1>2 DEF BeyondTime
  <2>2. Len(plan) + 1 \in at + 1 .. Len(plan) + 1 /\ Len(plan) + 1 \in 1 .. Len(plan) + 1
    BY <2>1, StepIs
  <2>3. results' \in Seq(DryRunResult) /\ Len(results') <= at' - 1
    BY <2>1, <2>2, EmptyResult, ResultKeeps DEF Skipped
  <2> QED BY <2>1, <2>2, <2>3
<1>3. ASSUME Running, InTime PROVE clock + Step.duration \in 0..limits.time
  <2>1. clock \in Nat /\ limits.time \in Nat /\ Step.duration \in Nat
    BY <1>3, StepIs
  <2> QED BY <1>3, <2>1 DEF InTime
<1>4. CASE FailStep
  <2>1. /\ Running /\ InTime /\ results' = Append(results, Result("failed", <<>>)) /\ at' = at + 1
        /\ clock' = clock + Step.duration
        /\ UNCHANGED <<topic, plan, limits, log, exceeded, timedOut>>
    BY <1>4 DEF FailStep
  <2>2. at + 1 \in at + 1 .. Len(plan) + 1 /\ at + 1 \in 1 .. Len(plan) + 1
    BY <2>1, StepIs
  <2>3. results' \in Seq(DryRunResult) /\ Len(results') <= at' - 1
    BY <2>1, <2>2, EmptyResult, ResultKeeps
  <2>4. rejected' \cap Allowed = {}
    BY <1>4 DEF FailStep, BadOf
  <2>5. clock' \in 0..limits.time
    BY <1>3, <2>1
  <2> QED BY <2>1, <2>2, <2>3, <2>4, <2>5
<1>5. CASE ApplyWhole
  <2> DEFINE n == Len(Step.effects)
  <2>1. /\ Sound /\ Running /\ InTime /\ n <= Room /\ Apply(n) /\ clock' = clock + Step.duration
        /\ results' = Append(results, Result("ok", Step.effects)) /\ at' = at + 1
        /\ UNCHANGED <<topic, plan, limits, rejected, exceeded, timedOut>>
    BY <1>5 DEF ApplyWhole, Sound
  <2>2. at + 1 \in at + 1 .. Len(plan) + 1 /\ at + 1 \in 1 .. Len(plan) + 1
    BY <2>1, StepIs
  <2>3. Step.effects \in Seq(Effects) /\ n \in Nat /\ n <= n
    BY <2>1, StepIs
  <2>4. Result("ok", Step.effects) \in DryRunResult
    BY <2>3 DEF Result, DryRunResult
  <2>5. results' \in Seq(DryRunResult) /\ Len(results') <= at' - 1
    BY <2>1, <2>2, <2>4, ResultKeeps
  <2>6. log' \in Seq([step : 1..Len(plan), effect : Allowed]) /\ Len(log') <= limits.effects
    BY <2>1, <2>3, ApplyKeeps
  <2>7. clock' \in 0..limits.time
    BY <1>3, <2>1
  <2> HIDE DEF n
  <2> QED BY <2>1, <2>2, <2>5, <2>6, <2>7
<1>6. CASE BeyondEffects
  <2> DEFINE m == Len(plan) - at + 1
             rest == [i \in 1..m |-> Skipped]
  <2>1. /\ Sound /\ Running /\ InTime /\ Len(Step.effects) > Room /\ Apply(Room)
        /\ clock' = clock + Step.duration /\ exceeded' = TRUE
        /\ results' = results \o rest /\ at' = Len(plan) + 1
        /\ UNCHANGED <<topic, plan, limits, rejected, timedOut>>
    BY <1>6 DEF BeyondEffects, Sound
  <2>2. at \in 1..Len(plan) /\ Len(plan) \in Nat /\ m \in Nat /\ Len(plan) + 1 \in 1 .. Len(plan) + 1
    BY <2>1, StepIs
  <2>3. Room \in Nat /\ Room <= Len(Step.effects) /\ Room <= Room
    <3>1. Len(log) \in Nat /\ limits.effects \in Nat /\ Len(log) <= limits.effects
      OBVIOUS
    <3>2. Room \in Nat
      BY <3>1 DEF Room
    <3>3. Len(Step.effects) \in Nat
      BY <2>1, StepIs
    <3> QED BY <2>1, <3>2, <3>3
  <2>4. log' \in Seq([step : 1..Len(plan), effect : Allowed]) /\ Len(log') <= limits.effects
    BY <2>1, <2>3, ApplyKeeps
  <2>5. Skipped \in DryRunResult
    BY EmptyResult DEF Skipped
  <2>6. rest \in Seq(DryRunResult) /\ Len(rest) = m
    <3> HIDE DEF m
    <3> QED BY <2>2, <2>5
  <2> HIDE DEF rest
  <2>7. results' \in Seq(DryRunResult) /\ Len(results') = Len(results) + m /\ Len(results) \in Nat
    <3>1. results \in Seq(DryRunResult) /\ results' = results \o rest
      BY <2>1
    <3>2. m \in Nat
      BY <2>2
    <3> HIDE DEF m, DryRunInv
    <3>3. ASSUME NEW s \in Seq(DryRunResult)
          PROVE  s \o rest \in Seq(DryRunResult) /\ Len(s \o rest) = Len(s) + m /\ Len(s) \in Nat
      <4>1. rest \in Seq(DryRunResult) /\ Len(rest) = m
        BY <2>6, Zenon
      <4>2. s \o rest \in Seq(DryRunResult) /\ Len(s \o rest) = Len(s) + Len(rest)
        BY <4>1, ConcatProperties, Zenon
      <4> QED BY <4>1, <4>2
    <3> QED BY <3>1, <3>3, Zenon
  <2>8. Len(results') <= at' - 1
    <3>1. Len(results) <= at - 1
      OBVIOUS
    <3> QED BY <2>1, <2>2, <2>7, <3>1
  <2>9. clock' \in 0..limits.time
    BY <1>3, <2>1
  <2> HIDE DEF m
  <2> QED BY <2>1, <2>2, <2>4, <2>7, <2>8, <2>9
<1>7. CASE Return
  BY <1>7 DEF Return
<1> QED BY <1>1, <1>2, <1>4, <1>5, <1>6, <1>7

-----------------------------------------------------------------------------
(* The sandbox.                                                            *)

\* The tables of the domains.
LEMMA DomainsType ==
    ASSUME NEW d \in DOMAIN Domains
    PROVE  Domains[d].base \in Nat /\ Domains[d].blast \in Nat /\ Domains[d].always \in BOOLEAN
<1> DEFINE M == [base : Nat, blast : Nat, always : BOOLEAN]
<1>1. \A base, blast \in Nat, always \in BOOLEAN : Model(base, blast, always) \in M
  BY DEF Model
<1> HIDE DEF M
<1>2. /\ Model(25, 10, FALSE) \in M /\ Model(45, 14, FALSE) \in M /\ Model(20, 6, TRUE) \in M
      /\ Model(15, 5, FALSE) \in M /\ Model(35, 12, FALSE) \in M /\ Model(20, 7, FALSE) \in M
      /\ Model(70, 16, TRUE) \in M /\ Model(30, 10, FALSE) \in M
  BY <1>1
<1>3. d \in {"deploy", "db_migration", "file_delete", "script_run",
             "infra_change", "refactor", "payment", "email_campaign"}
  BY DEF Domains
<1>4. /\ Domains["deploy"] \in M /\ Domains["db_migration"] \in M /\ Domains["file_delete"] \in M
      /\ Domains["script_run"] \in M /\ Domains["infra_change"] \in M /\ Domains["refactor"] \in M
      /\ Domains["payment"] \in M /\ Domains["email_campaign"] \in M
  BY <1>2 DEF Domains
<1>5. Domains[d] \in M
  BY <1>3, <1>4, Zenon
<1>6. \A m \in M : m.base \in Nat /\ m.blast \in Nat /\ m.always \in BOOLEAN
  BY DEF M
<1> QED BY <1>5, <1>6, Zenon

\* A riskier action of a domain is given no less a risk, whatever is capped.
LEMMA RiskGrows ==
    ASSUME NEW d \in DOMAIN Domains, NEW p \in Params, NEW q \in Params,
           p.size <= q.size, q.reversible => p.reversible, p.sensitive => q.sensitive
    PROVE  Risk(Domains[d], p) <= Risk(Domains[d], q)
<1> DEFINE model == Domains[d]
           b == model.base * model.blast
           sized(r) == Capped((b * (6 + 4 * r.size)) \div 10)
           oneWay(r) == IF r.reversible THEN sized(r) ELSE Capped(sized(r) + 150)
<1>1. b \in Nat
  BY DEF Domains, Model
<1>2. /\ p.size \in Nat /\ q.size \in Nat /\ p.reversible \in BOOLEAN /\ q.reversible \in BOOLEAN
      /\ p.sensitive \in BOOLEAN /\ q.sensitive \in BOOLEAN
  BY SimulationFacts DEF Params
<1> HIDE DEF b
<1>3. /\ b * (6 + 4 * p.size) \in Nat /\ b * (6 + 4 * q.size) \in Nat
      /\ b * (6 + 4 * p.size) <= b * (6 + 4 * q.size)
  BY <1>1, <1>2
<1>4. \A x, y \in Nat : x <= y => /\ x \div 10 <= y \div 10 /\ x \div 10 \in Nat /\ y \div 10 \in Nat
  OBVIOUS
<1>5. \A x, y \in Nat : /\ Capped(x) \in Nat
                        /\ x <= y => Capped(x) <= Capped(y)
  BY DEF Capped
<1>6. sized(p) \in Nat /\ sized(q) \in Nat /\ sized(p) <= sized(q)
  BY <1>3, <1>4, <1>5
<1> HIDE DEF sized
<1>7. \A x \in Nat : x <= 950 => x <= Capped(x + 150) /\ x <= Capped(x + 100)
  BY DEF Capped
<1>8. sized(p) <= 950 /\ sized(q) <= 950
  BY <1>3, <1>4 DEF sized, Capped
<1>9. oneWay(p) \in Nat /\ oneWay(q) \in Nat /\ oneWay(p) <= oneWay(q) /\ oneWay(p) <= 950 /\ oneWay(q) <= 950
  <2>1. sized(p) + 150 \in Nat /\ sized(q) + 150 \in Nat /\ sized(p) + 150 <= sized(q) + 150
    BY <1>6
  <2>2. \A x \in Nat : Capped(x) <= 950
    BY DEF Capped
  <2>3. Capped(sized(p) + 150) <= Capped(sized(q) + 150) /\ sized(q) <= Capped(sized(q) + 150)
    BY <1>5, <1>6, <1>7, <1>8, <2>1
  <2>4. Capped(sized(p) + 150) \in Nat /\ Capped(sized(q) + 150) \in Nat
    BY <1>5, <2>1
  <2> QED BY <1>2, <1>6, <1>8, <2>1, <2>2, <2>3, <2>4
<1> HIDE DEF oneWay
<1>10. /\ oneWay(p) <= oneWay(q)
       /\ Capped(oneWay(p) + 100) <= Capped(oneWay(q) + 100)
       /\ oneWay(q) <= Capped(oneWay(q) + 100)
       /\ oneWay(p) \in Nat /\ oneWay(q) \in Nat
       /\ Capped(oneWay(p) + 100) \in Nat /\ Capped(oneWay(q) + 100) \in Nat
  <2>1. oneWay(p) + 100 \in Nat /\ oneWay(q) + 100 \in Nat /\ oneWay(p) + 100 <= oneWay(q) + 100
    BY <1>9
  <2> QED BY <1>5, <1>7, <1>9, <2>1
<1>11. /\ Risk(model, p) = IF p.sensitive THEN Capped(oneWay(p) + 100) ELSE oneWay(p)
       /\ Risk(model, q) = IF q.sensitive THEN Capped(oneWay(q) + 100) ELSE oneWay(q)
  BY DEF Risk, oneWay, sized, b
<1> HIDE DEF model
<1>12. Risk(model, p) <= Risk(model, q)
  BY <1>2, <1>10, <1>11
<1> QED BY <1>12 DEF model

\* What risks and confidences can be.
Risks == 0..950
Confidences == 50..1000

\* A confidence is what a risk leaves.
LEMMA ConfidenceIs ==
    \A x \in Risks : Confidence(x) = 1000 - x
BY DEF Risks, Confidence

\* It is as well typed.
LEMMA ConfidenceType ==
    \A x \in Risks : Confidence(x) \in Confidences
BY DEF Risks, Confidences, Confidence

\* A risk lies between nothing and the cap.
LEMMA RiskType ==
    ASSUME NEW d \in DOMAIN Domains, NEW p \in Params
    PROVE  Risk(Domains[d], p) \in Risks
<1> DEFINE b == Domains[d].base * Domains[d].blast
           x == (b * (6 + 4 * p.size)) \div 10
<1>1. b \in Nat
  BY DEF Domains, Model
<1>2. p.size \in Nat
  BY SimulationFacts DEF Params
<1> HIDE DEF b
<1>3. b * (6 + 4 * p.size) \in Nat
  BY <1>1, <1>2
<1>4. x \in Nat
  BY <1>3
<1> DEFINE oneWay == IF p.reversible THEN Capped(x) ELSE Capped(Capped(x) + 150)
<1>5. Risk(Domains[d], p) = IF p.sensitive THEN Capped(oneWay + 100) ELSE oneWay
  BY DEF Risk, b
<1> HIDE DEF x
<1>6. /\ \A y \in Nat : Capped(y) \in Risks
      /\ \A y \in Risks : y + 150 \in Nat /\ y + 100 \in Nat
  BY DEF Capped, Risks
<1>7. oneWay \in Risks
  <2>1. Capped(x) \in Risks
    BY <1>4, <1>6
  <2>2. Capped(Capped(x) + 150) \in Risks
    BY <1>6, <2>1
  <2> QED BY <2>1, <2>2
<1> HIDE DEF oneWay
<1>8. Capped(oneWay + 100) \in Risks
  BY <1>6, <1>7
<1> QED BY <1>5, <1>7, <1>8

\* What _needs_approval() asks of a domain's model and a confidence.
LEMMA ApprovalRule ==
    ASSUME NEW model, NEW c
    PROVE  NeedsApproval(model, c) <=> (model.always \/ c < Threshold)
BY Zenon DEF NeedsApproval

\* What simulate() and approve() make of an action.
Simulated == [domain : DOMAIN Domains, params : Params, confidence : Confidences,
              level : {"low", "medium", "high", "critical"}, needs : BOOLEAN,
              approver : Approvers \cup {""}, plan : {"pause", "proceed", "approved"}]

\* The fields the risk is read from.
LEMMA SimulatedFields ==
    \A s \in Simulated : s.domain \in DOMAIN Domains /\ s.params \in Params /\ s.confidence \in Confidences
BY DEF Simulated

SandboxInv ==
    /\ sims \in Seq(Simulated)
    /\ \A k \in 1..Len(sims) :
           /\ sims[k].confidence = Confidence(Risk(Domains[sims[k].domain], sims[k].params))
           /\ sims[k].level = Level(sims[k].confidence)
           /\ sims[k].plan = "proceed" <=> ~NeedsApproval(Domains[sims[k].domain], sims[k].confidence)
           /\ sims[k].needs <=> sims[k].plan = "pause"

\* Every confidence has a level.
LEMMA LevelType ==
    ASSUME NEW c
    PROVE  Level(c) \in {"low", "medium", "high", "critical"}
BY DEF Level

\* A simulation is judged by its confidence, and so is each approval that follows.
LEMMA SandboxStep ==
    ASSUME SandboxInv,
           \/ \E domain \in DOMAIN Domains, params \in Params : Simulate(domain, params)
           \/ \E k \in DOMAIN sims, who \in Approvers : Approve(k, who)
    PROVE  SandboxInv'
<1> USE DEF SandboxInv
<1>1. sims \in Seq(Simulated) /\ Len(sims) \in Nat /\ DOMAIN sims = 1..Len(sims)
  OBVIOUS
<1>2. ASSUME NEW domain \in DOMAIN Domains, NEW params \in Params, Simulate(domain, params)
      PROVE  SandboxInv'
  <2> DEFINE model == Domains[domain]
             c == Confidence(Risk(model, params))
             needs == NeedsApproval(model, c)
             s == [domain |-> domain, params |-> params, confidence |-> c,
                   level |-> Level(c), needs |-> needs, approver |-> "",
                   plan |-> IF needs THEN "pause" ELSE "proceed"]
  <2>1. sims' = Append(sims, s)
    BY <1>2 DEF Simulate
  <2>2. c \in Confidences
    <3>1. Risk(Domains[domain], params) \in Risks
      BY RiskType, Zenon
    <3> QED BY <3>1, ConfidenceType, Zenon
  <2>3. Level(c) \in {"low", "medium", "high", "critical"}
    BY LevelType, Zenon
  <2>4. needs \in BOOLEAN
    <3>1. model.always \in BOOLEAN
      BY DomainsType, Zenon
    <3> HIDE DEF model, c, SandboxInv
    <3> QED BY <3>1 DEF NeedsApproval
  <2> HIDE DEF c, needs
  <2>5. s \in Simulated
    BY <2>2, <2>3, <2>4 DEF Simulated
  <2>6. /\ s.domain = domain /\ s.params = params /\ s.confidence = c /\ s.level = Level(c)
        /\ s.needs = needs /\ s.plan = IF needs THEN "pause" ELSE "proceed"
    OBVIOUS
  <2> HIDE DEF s
  <2>7. /\ sims' \in Seq(Simulated) /\ Len(sims') = Len(sims) + 1 /\ sims'[Len(sims) + 1] = s
        /\ \A k \in 1..Len(sims) : sims'[k] = sims[k]
    BY <1>1, <2>1, <2>5
  <2>8. s.confidence = Confidence(Risk(Domains[s.domain], s.params))
    BY <2>6 DEF c
  <2>9. s.plan = "proceed" <=> ~NeedsApproval(Domains[s.domain], s.confidence)
    BY <2>6 DEF needs
  <2>10. s.needs <=> s.plan = "pause"
    BY <2>4, <2>6
  <2>11. \A k \in 1..(Len(sims) + 1) : k \in 1..Len(sims) \/ k = Len(sims) + 1
    BY <1>1
  <2> QED BY <2>6, <2>7, <2>8, <2>9, <2>10, <2>11
<1>3. ASSUME NEW k \in DOMAIN sims, NEW who \in Approvers, Approve(k, who)
      PROVE  SandboxInv'
  <2> DEFINE s == [sims[k] EXCEPT !.needs = FALSE, !.approver = who, !.plan = "approved"]
  <2>1. sims[k].needs /\ sims' = [sims EXCEPT ![k] = s] /\ sims[k] \in Simulated
    <3>1. sims[k] \in Simulated
      <4> HIDE DEF SandboxInv
      <4> QED BY <1>1
    <3>2. sims[k].needs /\ sims' = [sims EXCEPT ![k].needs = FALSE, ![k].approver = who, ![k].plan = "approved"]
      BY <1>3 DEF Approve
    <3>3. [sims EXCEPT ![k].needs = FALSE, ![k].approver = who, ![k].plan = "approved"] = [sims EXCEPT ![k] = s]
      <4> HIDE DEF SandboxInv, Approve
      <4> QED BY <1>1, <3>1 DEF Simulated
    <3> QED BY <3>1, <3>2, <3>3
  <2>2. /\ s \in Simulated /\ s.domain = sims[k].domain /\ s.params = sims[k].params
        /\ s.confidence = sims[k].confidence /\ s.level = sims[k].level
        /\ s.needs = FALSE /\ s.plan = "approved"
    <3> HIDE DEF SandboxInv
    <3>1. s \in Simulated
      BY <2>1 DEF Simulated
    <3>2. /\ s.domain = sims[k].domain /\ s.params = sims[k].params
          /\ s.confidence = sims[k].confidence /\ s.level = sims[k].level
          /\ s.needs = FALSE /\ s.plan = "approved"
      BY <2>1 DEF Simulated
    <3> QED BY <3>1, <3>2
  <2>3. k \in 1..Len(sims) /\ sims[k].plan # "proceed"
    BY <1>1, <2>1
  <2> HIDE DEF s
  <2>4. /\ sims' \in Seq(Simulated) /\ Len(sims') = Len(sims)
        /\ \A l \in 1..Len(sims) : sims'[l] = IF l = k THEN s ELSE sims[l]
    BY <1>1, <2>1, <2>2, <2>3
  <2>5. /\ s.confidence = Confidence(Risk(Domains[s.domain], s.params))
        /\ s.level = Level(s.confidence)
        /\ s.plan = "proceed" <=> ~NeedsApproval(Domains[s.domain], s.confidence)
        /\ s.needs <=> s.plan = "pause"
    BY <2>2, <2>3
  <2> QED BY <2>4, <2>5
<1> QED BY <1>2, <1>3

\* The invariant of both halves.
SimulatorInv == DryRunInv /\ SandboxInv

\* It always holds.
THEOREM SimulatorSafety == SimulationSpec => []SimulatorInv
<1>1. SimulationInit => SimulatorInv
  <2> SUFFICES ASSUME SimulationInit PROVE SimulatorInv
    OBVIOUS
  <2>1. topic \in {"dryrun", "sandbox"}
    BY DEF SimulationInit
  <2>2. plan \in Seq(PlanStep) /\ limits \in [steps : Nat, time : Nat, effects : Nat]
    <3>1. CASE topic = "dryrun" /\ plan \in Plans /\ limits \in Limits
      BY <3>1, SimulationFacts
    <3>2. CASE plan = <<>> /\ limits = [steps |-> 0, time |-> 0, effects |-> 0]
      BY <3>2
    <3> QED BY <3>1, <3>2 DEF SimulationInit
  <2>3. at = 1 /\ clock = 0 /\ log = <<>> /\ rejected = {} /\ exceeded = FALSE /\ timedOut = FALSE
        /\ results = <<>> /\ sims = <<>>
    BY DEF SimulationInit
  <2>4. \A S : <<>> \in Seq(S) /\ Len(<<>>) = 0
    OBVIOUS
  <2>5. Len(plan) \in Nat /\ limits.time \in Nat /\ limits.effects \in Nat
    BY <2>2
  <2>6. DryRunInv
    <3>1. at \in 1 .. Len(plan) + 1 /\ clock \in 0..limits.time
      BY <2>3, <2>5
    <3>2. log \in Seq([step : 1..Len(plan), effect : Allowed]) /\ Len(log) <= limits.effects
      BY <2>3, <2>4, <2>5
    <3>3. results \in Seq(DryRunResult) /\ Len(results) <= at - 1
      BY <2>3, <2>4
    <3>4. rejected \cap Allowed = {} /\ exceeded \in BOOLEAN /\ timedOut \in BOOLEAN
      BY <2>3
    <3> QED BY <2>1, <2>2, <3>1, <3>2, <3>3, <3>4, Zenon DEF DryRunInv
  <2>7. SandboxInv
    BY <2>3, <2>4 DEF SandboxInv
  <2> QED BY <2>6, <2>7 DEF SimulatorInv
<1>2. SimulatorInv /\ [SimulationNext]_simulationVars => SimulatorInv'
  <2> SUFFICES ASSUME SimulatorInv, [SimulationNext]_simulationVars PROVE SimulatorInv'
    OBVIOUS
  <2> USE DEF SimulatorInv
  <2>1. CASE BeyondSteps \/ BeyondTime \/ FailStep \/ ApplyWhole \/ BeyondEffects \/ Return
    <3>1. UNCHANGED sims
      BY <2>1 DEF BeyondSteps, BeyondTime, FailStep, ApplyWhole, BeyondEffects, Return
    <3> QED BY <2>1, <3>1, DryRunStep DEF SandboxInv
  <2>2. CASE \/ \E domain \in DOMAIN Domains, params \in Params : Simulate(domain, params)
             \/ \E k \in DOMAIN sims, who \in Approvers : Approve(k, who)
    <3>1. UNCHANGED <<topic, runVars>>
      BY <2>2 DEF Simulate, Approve
    <3> QED BY <2>2, <3>1, SandboxStep DEF DryRunInv, runVars
  <2>3. CASE UNCHANGED simulationVars
    BY <2>3 DEF simulationVars, runVars, DryRunInv, SandboxInv
  <2> QED BY <2>1, <2>2, <2>3 DEF SimulationNext
<1> QED BY <1>1, <1>2, PTL DEF SimulationSpec

\* No risky plan goes on without an approver, what went on is no riskier than anything of its
\* domain that had to wait, and both halves are well typed (engine.py 11, 125-180).
THEOREM RiskyPlansAreHeld == SimulationSpec => []SimulationInv
<1>1. SimulatorInv => SimulationTypeOK
  <2> SUFFICES ASSUME SimulatorInv PROVE SimulationTypeOK
    OBVIOUS
  <2> USE DEF SimulatorInv
  <2>1. \A e \in ToSet(log) : e.step \in DOMAIN plan /\ e.effect \in Allowed
    <3>1. log \in Seq([step : 1..Len(plan), effect : Allowed]) /\ DOMAIN plan = 1..Len(plan)
      BY DEF DryRunInv
    <3>2. \A i \in DOMAIN log : log[i] \in [step : 1..Len(plan), effect : Allowed]
      <4> DEFINE S == [step : 1..Len(plan), effect : Allowed]
      <4>1. log \in Seq(S)
        BY <3>1
      <4> HIDE DEF S, SimulatorInv
      <4>2. \A i \in DOMAIN log : log[i] \in S
        BY <4>1
      <4> QED BY <4>2 DEF S
    <3>3. \A i \in DOMAIN log : log[i].step \in 1..Len(plan) /\ log[i].effect \in Allowed
      BY <3>2
    <3> QED BY <3>1, <3>3 DEF ToSet
  <2>2. Len(results) <= Len(plan)
    <3>1. Len(results) \in Nat /\ Len(plan) \in Nat /\ at \in 1 .. Len(plan) + 1 /\ Len(results) <= at - 1
      BY DEF DryRunInv
    <3> QED BY <3>1
  <2>3. \A k \in DOMAIN sims : sims[k].confidence \in 50..1000
    <3>1. sims \in Seq(Simulated)
      BY DEF SandboxInv
    <3> HIDE DEF SimulatorInv
    <3>2. \A k \in DOMAIN sims : sims[k] \in Simulated
      BY <3>1
    <3>3. \A k \in DOMAIN sims : sims[k].confidence \in Confidences
      BY <3>2, SimulatedFields, Zenon
    <3> QED BY <3>3 DEF Confidences
  <2> QED BY <2>1, <2>2, <2>3 DEF SimulationTypeOK, DryRunInv
<1>2. SimulatorInv => RiskyPlansWait
  <2> SUFFICES ASSUME SimulatorInv, NEW k \in DOMAIN sims
               PROVE  /\ sims[k].approver = "" /\ sims[k].plan = "proceed" =>
                             /\ sims[k].level \in {"low", "medium"} /\ ~Domains[sims[k].domain].always
                             /\ \A l \in DOMAIN sims :
                                    (/\ sims[l].domain = sims[k].domain
                                     /\ sims[l].params.size <= sims[k].params.size
                                     /\ sims[k].params.reversible => sims[l].params.reversible
                                     /\ sims[l].params.sensitive => sims[k].params.sensitive)
                                    => sims[l].plan = "proceed"
                      /\ sims[k].needs <=> sims[k].plan = "pause"
    BY DEF RiskyPlansWait
  <2>1. sims \in Seq(Simulated) /\ DOMAIN sims = 1..Len(sims)
    BY DEF SimulatorInv, SandboxInv
  <2>2. \A l \in DOMAIN sims :
            /\ sims[l].domain \in DOMAIN Domains /\ sims[l].params \in Params
            /\ sims[l].confidence \in Confidences
    <3> TAKE l \in DOMAIN sims
    <3>1. sims[l] \in Simulated
      BY <2>1
    <3> QED BY <3>1, SimulatedFields, Zenon
  <2>3. \A l \in DOMAIN sims :
            /\ sims[l].confidence = Confidence(Risk(Domains[sims[l].domain], sims[l].params))
            /\ sims[l].level = Level(sims[l].confidence)
            /\ sims[l].plan = "proceed" <=> ~NeedsApproval(Domains[sims[l].domain], sims[l].confidence)
            /\ sims[l].needs <=> sims[l].plan = "pause"
    BY <2>1 DEF SimulatorInv, SandboxInv
  <2>4. ASSUME sims[k].plan = "proceed"
        PROVE  /\ sims[k].level \in {"low", "medium"} /\ ~Domains[sims[k].domain].always
               /\ sims[k].confidence >= 700
    <3>1. ~NeedsApproval(Domains[sims[k].domain], sims[k].confidence) /\ sims[k].confidence \in Confidences
      BY <2>2, <2>3, <2>4
    <3>2. ~Domains[sims[k].domain].always /\ ~(sims[k].confidence < Threshold)
      BY <3>1, ApprovalRule, Zenon
    <3>3. sims[k].confidence >= 700
      <4> DEFINE c == sims[k].confidence
      <4>1. c \in Confidences /\ ~(c < Threshold)
        BY <3>1, <3>2, Zenon
      <4> HIDE DEF c
      <4>2. c >= 700
        BY <4>1 DEF Confidences, Threshold
      <4> QED BY <4>2 DEF c
    <3> QED BY <2>3, <3>1, <3>2, <3>3 DEF Level
  <2>5. ASSUME sims[k].plan = "proceed", NEW l \in DOMAIN sims,
               sims[l].domain = sims[k].domain,
               sims[l].params.size <= sims[k].params.size,
               sims[k].params.reversible => sims[l].params.reversible,
               sims[l].params.sensitive => sims[k].params.sensitive
        PROVE  sims[l].plan = "proceed"
    <3> DEFINE d == sims[k].domain
               x == Risk(Domains[d], sims[l].params)
               y == Risk(Domains[d], sims[k].params)
    <3>1. x <= y
      BY <2>2, <2>5, RiskGrows
    <3>2. x \in Risks /\ y \in Risks
      BY <2>2, <2>5, RiskType, Zenon
    <3>3. sims[l].confidence = Confidence(x) /\ sims[k].confidence = Confidence(y)
      BY <2>3, <2>5
    <3> HIDE DEF x, y
    <3>4. Confidence(x) = 1000 - x /\ Confidence(y) = 1000 - y
      BY <3>2, ConfidenceIs
    <3>5. sims[l].confidence >= 700
      <4>1. sims[k].confidence >= 700
        BY <2>4, <2>5
      <4>2. 1000 - y >= 700
        BY <3>3, <3>4, <4>1
      <4>3. 1000 - x >= 700
        BY <3>1, <3>2, <4>2 DEF Risks
      <4> QED BY <3>3, <3>4, <4>3
    <3>6. ~Domains[d].always
      BY <2>4, <2>5
    <3>7. ~(sims[l].confidence < Threshold)
      <4> DEFINE c == sims[l].confidence
      <4>1. c \in Confidences /\ c >= 700
        BY <2>2, <3>5
      <4> HIDE DEF c
      <4>2. ~(c < Threshold)
        BY <4>1 DEF Confidences, Threshold
      <4> QED BY <4>2 DEF c
    <3>8. ~NeedsApproval(Domains[d], sims[l].confidence)
      BY <3>6, <3>7, ApprovalRule, Zenon
    <3> QED BY <2>3, <2>5, <3>8
  <2> QED BY <2>3, <2>4, <2>5
<1> QED BY <1>1, <1>2, SimulatorSafety, PTL DEF SimulationInv

-----------------------------------------------------------------------------
(* What the report of a dry run says.                                      *)

\* The positions of what a log says of a step.
LEMMA ToldIs ==
    ASSUME NEW E, NEW l \in Seq(E), NEW i, NEW S, NEW es \in Seq(S)
    PROVE  Told(l, i, es) <=>
               \E before \in 0..Len(l) :
                   /\ \A j \in 1..Len(l) : l[j].step = i <=> j - before \in 1..Len(es)
                   /\ \A k \in 1..Len(es) : before + k \in 1..Len(l) /\ l[before + k].effect = es[k]
<1>1. DOMAIN l = 1..Len(l) /\ DOMAIN es = 1..Len(es)
  OBVIOUS
<1> QED BY <1>1, Zenon DEF Told

\* What a log says of a step, it says when there is more of other steps behind.
LEMMA ToldStays ==
    ASSUME NEW E, NEW l \in Seq(E), NEW m \in Seq(E), Len(l) <= Len(m),
           \A j \in 1..Len(l) : m[j] = l[j],
           NEW i, \A j \in 1..Len(m) : j > Len(l) => m[j].step # i,
           NEW S, NEW es \in Seq(S), Told(l, i, es)
    PROVE  Told(m, i, es)
<1>0. DOMAIN l = 1..Len(l) /\ DOMAIN es = 1..Len(es)
  OBVIOUS
<1>1. PICK before \in 0..Len(l) :
          /\ \A j \in 1..Len(l) : l[j].step = i <=> j - before \in 1..Len(es)
          /\ \A k \in 1..Len(es) : before + k \in 1..Len(l) /\ l[before + k].effect = es[k]
  BY <1>0, Zenon DEF Told
<1>2. Len(l) \in Nat /\ Len(m) \in Nat /\ Len(es) \in Nat /\ before \in 0..Len(m)
  BY <1>1
<1>3. \A k \in 1..Len(es) : before + k \in 1..Len(m) /\ m[before + k].effect = es[k]
  BY <1>1, <1>2
<1>4. ASSUME NEW j \in 1..Len(m) PROVE m[j].step = i <=> j - before \in 1..Len(es)
  <2>1. CASE j <= Len(l)
    <3>1. j \in 1..Len(l)
      BY <1>2, <2>1
    <3> QED BY <1>1, <3>1
  <2>2. CASE j > Len(l)
    <3>1. before + (j - before) = j /\ j \notin 1..Len(l)
      BY <1>2, <2>2
    <3>2. j - before \notin 1..Len(es)
      <4>1. \A k \in 1..Len(es) : before + k \in 1..Len(l)
        BY <1>1, Zenon
      <4> QED BY <3>1, <4>1, Zenon
    <3> QED BY <2>2, <3>2
  <2> QED BY <1>2, <2>1, <2>2
<1> QED BY <1>2, <1>3, <1>4, ToldIs

\* Each element of two sequences, one behind the other.
LEMMA Behind ==
    ASSUME NEW S, NEW s \in Seq(S), NEW t \in Seq(S)
    PROVE  /\ Len(s \o t) = Len(s) + Len(t)
           /\ \A i \in 1..Len(s) : (s \o t)[i] = s[i]
           /\ \A i \in 1..Len(t) : (s \o t)[Len(s) + i] = t[i]
<1>1. Len(s) \in Nat /\ Len(t) \in Nat
  OBVIOUS
<1>2. ASSUME NEW i \in 1..Len(s) PROVE (s \o t)[i] = s[i]
  OBVIOUS
<1>3. ASSUME NEW i \in 1..Len(t) PROVE (s \o t)[Len(s) + i] = t[i]
  OBVIOUS
<1>4. Len(s \o t) = Len(s) + Len(t)
  OBVIOUS
<1> QED BY <1>2, <1>3, <1>4

\* A log without a step says nothing of it.
LEMMA NothingTold ==
    ASSUME NEW E, NEW l \in Seq(E), NEW i, \A j \in 1..Len(l) : l[j].step # i
    PROVE  Told(l, i, <<>>)
<1>1. Len(l) \in Nat /\ 0 \in 0..Len(l) /\ DOMAIN l = 1..Len(l)
  OBVIOUS
<1>2. DOMAIN <<>> = {}
  OBVIOUS
<1> QED BY <1>1, <1>2 DEF Told

\* What is put behind the log is what it says of a step it was silent of.
LEMMA JustTold ==
    ASSUME NEW E, NEW l \in Seq(E), NEW m \in Seq(E), NEW S, NEW es \in Seq(S),
           Len(m) = Len(l) + Len(es), \A j \in 1..Len(l) : m[j] = l[j],
           NEW i, \A j \in 1..Len(l) : l[j].step # i,
           \A k \in 1..Len(es) : m[Len(l) + k].step = i /\ m[Len(l) + k].effect = es[k]
    PROVE  Told(m, i, es)
<1>1. Len(l) \in Nat /\ Len(m) \in Nat /\ Len(es) \in Nat /\ Len(l) \in 0..Len(m)
  OBVIOUS
<1>2. \A k \in 1..Len(es) : Len(l) + k \in 1..Len(m) /\ m[Len(l) + k].effect = es[k]
  BY <1>1
<1>3. ASSUME NEW j \in 1..Len(m) PROVE m[j].step = i <=> j - Len(l) \in 1..Len(es)
  <2>1. CASE j <= Len(l)
    <3>1. j \in 1..Len(l) /\ j - Len(l) \notin 1..Len(es)
      BY <1>1, <2>1
    <3> QED BY <3>1
  <2>2. CASE j > Len(l)
    <3>1. j - Len(l) \in 1..Len(es) /\ Len(l) + (j - Len(l)) = j
      BY <1>1, <2>2
    <3>2. m[Len(l) + (j - Len(l))].step = i
      BY <3>1
    <3> QED BY <3>1, <3>2
  <2> QED BY <1>1, <2>1, <2>2
<1> QED BY <1>1, <1>2, <1>3, ToldIs

\* While the loop runs there is a result for each step behind it; the backend was told of
\* no other step, and the report fits.
ReportInv ==
    /\ at <= Len(plan) => Len(results) = at - 1
    /\ \A j \in 1..Len(log) : log[j].step <= Len(results)
    /\ LogFitsReport

\* What a step of the loop adds to the log is of the step it is at.
LEMMA TellingIs ==
    ASSUME DryRunInv, Running, NEW n \in Nat, Apply(n)
    PROVE  /\ Len(log) \in Nat /\ Len(log') = Len(log) + n
           /\ \A j \in 1..Len(log) : log'[j] = log[j]
           /\ \A k \in 1..n : /\ log'[Len(log) + k] = [step |-> at, effect |-> Step.effects[k]]
                              /\ log'[Len(log) + k].step = at
                              /\ log'[Len(log) + k].effect = Step.effects[k]
<1> DEFINE more == [i \in 1..n |-> [step |-> at, effect |-> Step.effects[i]]]
           T == {[step |-> at, effect |-> Step.effects[i]] : i \in 1..n}
                    \cup [step : 1..Len(plan), effect : Allowed]
<1>1. more \in Seq(T) /\ Len(more) = n
  BY SMTT(20)
<1>2. log \in Seq(T)
  <2>1. log \in Seq([step : 1..Len(plan), effect : Allowed])
    BY DEF DryRunInv
  <2> DEFINE U == [step : 1..Len(plan), effect : Allowed]
  <2>2. U \subseteq T
    OBVIOUS
  <2> HIDE DEF T, U
  <2>3. log \in Seq(U)
    BY <2>1 DEF U
  <2> QED BY <2>2, <2>3
<1>3. log' = log \o more
  BY DEF Apply
<1>4. \A k \in 1..n : /\ more[k] = [step |-> at, effect |-> Step.effects[k]]
                      /\ more[k].step = at /\ more[k].effect = Step.effects[k]
  OBVIOUS
<1> HIDE DEF T, more
<1>5. /\ Len(log \o more) = Len(log) + n /\ Len(log) \in Nat
      /\ \A j \in 1..Len(log) : (log \o more)[j] = log[j]
      /\ \A k \in 1..n : (log \o more)[Len(log) + k] = more[k]
  BY <1>1, <1>2
<1> QED BY <1>3, <1>4, <1>5

\* What a log says of the steps behind the loop stays said when all that is added is of
\* the step it is at, or of a later one.
LEMMA ReportGrows ==
    ASSUME DryRunInv, DryRunInv', ReportInv, Running, UNCHANGED <<plan, limits>>,
           exceeded => exceeded',
           NEW n \in Nat, Len(log') = Len(log) + n,
           \A j \in 1..Len(log) : log'[j] = log[j],
           \A k \in 1..n : log'[Len(log) + k].step = at,
           Len(results') >= at, \A i \in 1..(at - 1) : results'[i] = results[i],
           \A i \in at..Len(results') :
               \/ results'[i].status # "skipped" /\ Told(log', i, results'[i].applied)
               \/ /\ results'[i].status = "skipped"
                  /\ Told(log', i, <<>>) \/ (exceeded' /\ Len(log') = limits.effects),
           at' <= Len(plan) => Len(results') = at' - 1
    PROVE  ReportInv'
<1> DEFINE E == [step : 1..Len(plan), effect : Allowed]
<1>1. /\ log \in Seq(E) /\ log' \in Seq(E) /\ results \in Seq(DryRunResult) /\ results' \in Seq(DryRunResult)
      /\ Len(log) <= limits.effects /\ Len(log') <= limits.effects /\ limits.effects \in Nat
      /\ at \in 1..Len(plan) /\ Len(plan) \in Nat /\ Len(results) = at - 1
  <2>1. plan' = plan /\ limits' = limits
    OBVIOUS
  <2>2. at \in 1..Len(plan) /\ Len(plan) \in Nat
    BY StepIs
  <2>3. at <= Len(plan)
    BY <2>2
  <2>4. Len(results) = at - 1
    BY <2>3 DEF ReportInv
  <2>5. log \in Seq(E) /\ results \in Seq(DryRunResult) /\ Len(log) <= limits.effects /\ limits.effects \in Nat
    BY DEF DryRunInv
  <2>6. log' \in Seq(E) /\ results' \in Seq(DryRunResult) /\ Len(log') <= limits.effects
    BY <2>1 DEF DryRunInv
  <2> HIDE DEF E
  <2> QED BY <2>2, <2>4, <2>5, <2>6
<1> HIDE DEF E
<1>2. \A j \in 1..Len(log') : j \in 1..Len(log) \/ (j > Len(log) /\ log'[j].step = at)
  <2> TAKE j \in 1..Len(log')
  <2>1. Len(log) \in Nat
    BY <1>1
  <2>2. CASE j > Len(log)
    <3>1. j - Len(log) \in 1..n /\ Len(log) + (j - Len(log)) = j
      BY <2>1, <2>2
    <3>2. log'[Len(log) + (j - Len(log))].step = at
      BY <3>1, Zenon
    <3> QED BY <2>2, <3>1, <3>2
  <2> QED BY <2>1, <2>2
<1>3. \A j \in 1..Len(log) : log[j].step <= at - 1 /\ log[j].step \in Nat
  <2> TAKE j \in 1..Len(log)
  <2>1. log[j].step <= Len(results)
    BY DEF ReportInv
  <2>2. log[j] \in E
    BY <1>1
  <2>3. log[j].step \in Nat
    BY <2>2 DEF E
  <2> QED BY <1>1, <2>1, <2>3
<1>4. \A j \in 1..Len(log') : log'[j].step <= Len(results')
  <2> TAKE j \in 1..Len(log')
  <2>1. Len(results') \in Nat
    BY <1>1
  <2>2. CASE j \in 1..Len(log)
    <3>1. log'[j] = log[j] /\ log[j].step <= at - 1 /\ log[j].step \in Nat
      BY <1>3, <2>2
    <3> QED BY <1>1, <2>1, <3>1
  <2>3. CASE log'[j].step = at
    BY <1>1, <2>1, <2>3
  <2> QED BY <1>2, <2>2, <2>3
<1>5. \A i, j \in 1..Len(log') : i < j => log'[i].step <= log'[j].step
  <2> TAKE i, j \in 1..Len(log')
  <2> HAVE i < j
  <2>1. CASE j \in 1..Len(log)
    <3>1. i \in 1..Len(log)
      BY <1>1, <2>1
    <3>2. log[i].step <= log[j].step
      BY <1>1, <2>1, <3>1 DEF ReportInv, LogFitsReport
    <3> QED BY <2>1, <3>1, <3>2
  <2>2. CASE log'[j].step = at
    <3>1. CASE i \in 1..Len(log)
      <4>1. log'[i] = log[i] /\ log[i].step <= at - 1 /\ log[i].step \in Nat
        BY <1>3, <3>1
      <4> QED BY <1>1, <2>2, <4>1
    <3>2. CASE log'[i].step = at
      BY <1>1, <2>2, <3>2
    <3> QED BY <1>2, <3>1, <3>2
  <2> QED BY <1>2, <2>1, <2>2
<1>6. ASSUME NEW i \in 1..(at - 1), NEW S, NEW es \in Seq(S), Told(log, i, es)
      PROVE  Told(log', i, es)
  <2>1. \A j \in 1..Len(log') : j > Len(log) => log'[j].step # i
    <3>1. i # at /\ \A j \in 1..Len(log) : ~(j > Len(log))
      BY <1>1
    <3> QED BY <1>2, <3>1, Zenon
  <2>2. Len(log) <= Len(log')
    BY <1>1
  <2> QED BY <1>1, <1>6, <2>1, <2>2, ToldStays
<1>7. ASSUME NEW i \in 1..(at - 1)
      PROVE  \/ results'[i].status # "skipped" /\ Told(log', i, results'[i].applied)
             \/ /\ results'[i].status = "skipped"
                /\ Told(log', i, <<>>) \/ (exceeded' /\ Len(log') = limits.effects)
  <2>1. i \in DOMAIN results /\ results'[i] = results[i] /\ results[i] \in DryRunResult
    BY <1>1
  <2>2. \/ results[i].status # "skipped" /\ Told(log, i, results[i].applied)
        \/ /\ results[i].status = "skipped"
           /\ Told(log, i, <<>>) \/ (exceeded /\ Len(log) = limits.effects)
    BY <2>1 DEF ReportInv, LogFitsReport, Status
  <2>3. results[i].applied \in Seq(Effects) /\ <<>> \in Seq(Effects)
    BY <2>1 DEF DryRunResult
  <2>4. Len(log) = limits.effects => Len(log') = limits.effects
    BY <1>1
  <2>5. CASE results[i].status # "skipped" /\ Told(log, i, results[i].applied)
    BY <1>6, <2>1, <2>3, <2>5
  <2>6. CASE results[i].status = "skipped" /\ Told(log, i, <<>>)
    BY <1>6, <2>1, <2>3, <2>6
  <2>7. CASE results[i].status = "skipped" /\ exceeded /\ Len(log) = limits.effects
    BY <2>1, <2>4, <2>7
  <2> QED BY <2>2, <2>5, <2>6, <2>7
<1>8. \A i \in DOMAIN results' : i \in 1..(at - 1) \/ i \in at..Len(results')
  BY <1>1
<1>9. LogFitsReport'
  <2>1. Len(log') <= limits'.effects /\ limits' = limits
    BY <1>1
  <2>2. DOMAIN log' = 1..Len(log')
    BY <1>1
  <2>3. \A i \in DOMAIN results' :
             \/ results'[i].status # "skipped" /\ Told(log', i, results'[i].applied)
             \/ /\ results'[i].status = "skipped"
                /\ Told(log', i, <<>>) \/ (exceeded' /\ Len(log') = limits.effects)
    BY <1>7, <1>8
  <2> QED BY <1>5, <2>1, <2>2, <2>3 DEF LogFitsReport, Status
<1> QED BY <1>4, <1>9 DEF ReportInv

\* Each step of the loop leaves a report that fits.
LEMMA ReportStep ==
    ASSUME DryRunInv, DryRunInv', ReportInv,
           BeyondSteps \/ BeyondTime \/ FailStep \/ ApplyWhole \/ BeyondEffects \/ Return
    PROVE  ReportInv'
<1>1. CASE Return
  <2>1. UNCHANGED <<plan, limits, at, log, exceeded, results>>
    BY <1>1 DEF Return
  <2> QED BY <2>1 DEF ReportInv, LogFitsReport, Status
<1> DEFINE R == DryRunResult
           E == [step : 1..Len(plan), effect : Allowed]
<1>2. ASSUME Running
      PROVE  /\ at \in 1..Len(plan) /\ Len(plan) \in Nat /\ Len(results) = at - 1
             /\ results \in Seq(R) /\ log \in Seq(E) /\ Len(log) \in Nat
             /\ \A j \in 1..Len(log) : log[j].step \in Nat /\ log[j].step <= at - 1
  <2>1. at \in 1..Len(plan) /\ Len(plan) \in Nat
    BY <1>2, StepIs
  <2>2. at <= Len(plan)
    BY <2>1
  <2>3. Len(results) = at - 1 /\ \A j \in 1..Len(log) : log[j].step <= at - 1
    BY <2>2 DEF ReportInv
  <2>4. results \in Seq(R) /\ log \in Seq(E)
    BY DEF DryRunInv
  <2>5. \A j \in 1..Len(log) : log[j].step \in Nat
    <3>1. \A e \in E : e.step \in Nat
      BY <2>1
    <3> HIDE DEF E
    <3> QED BY <2>4, <3>1
  <2> HIDE DEF E, R
  <2> QED BY <2>1, <2>3, <2>4, <2>5
<1>3. ASSUME Running, NEW r \in R, results' = Append(results, r)
      PROVE  /\ Len(results') = at /\ results'[at] = r
             /\ \A i \in 1..(at - 1) : results'[i] = results[i]
             /\ \A i \in at..Len(results') : i = at
  <2>1. at \in Nat /\ Len(results) = at - 1 /\ results \in Seq(R)
    BY <1>2, <1>3
  <2> HIDE DEF R
  <2>2. /\ Len(results') = Len(results) + 1 /\ results'[Len(results) + 1] = r
        /\ \A i \in 1..Len(results) : results'[i] = results[i]
    BY <1>3, <2>1, AppendProperties
  <2> QED BY <2>1, <2>2
<1>4. ASSUME Running, NEW how \in {"failed", "skipped"},
             results' = Append(results, Result(how, <<>>)),
             UNCHANGED <<plan, limits, log>>, exceeded => exceeded',
             at' = at + 1 \/ at' = Len(plan) + 1
      PROVE  ReportInv'
  <2>1. Result(how, <<>>) \in R
    BY EmptyResult
  <2>2. Result(how, <<>>).status = how /\ Result(how, <<>>).applied = <<>>
    BY DEF Result
  <2>3. /\ Len(results') = at /\ results'[at].status = how /\ results'[at].applied = <<>>
        /\ \A i \in 1..(at - 1) : results'[i] = results[i]
        /\ \A i \in at..Len(results') : i = at
    BY <1>3, <1>4, <2>1, <2>2
  <2>4. Told(log', at, <<>>)
    <3>1. \A j \in 1..Len(log) : log[j].step # at
      BY <1>2, <1>4
    <3>2. log \in Seq(E)
      BY <1>2, <1>4
    <3> HIDE DEF E
    <3>3. Told(log, at, <<>>)
      BY <3>1, <3>2, NothingTold
    <3> QED BY <1>4, <3>3
  <2>5. \A i \in at..Len(results') :
             \/ results'[i].status # "skipped" /\ Told(log', i, results'[i].applied)
             \/ /\ results'[i].status = "skipped"
                /\ Told(log', i, <<>>) \/ (exceeded' /\ Len(log') = limits.effects)
    <3> TAKE i \in at..Len(results')
    <3>1. i = at
      BY <2>3
    <3> QED BY <2>3, <2>4, <3>1
  <2>6. at' <= Len(plan) => Len(results') = at' - 1
    BY <1>2, <1>4, <2>3
  <2>7. /\ Len(log') = Len(log) + 0 /\ \A j \in 1..Len(log) : log'[j] = log[j]
        /\ \A k \in 1..0 : log'[Len(log) + k].step = at
        /\ Len(results') >= at
    BY <1>2, <1>4, <2>3
  <2> HIDE DEF R, E
  <2> QED BY <1>4, <2>3, <2>5, <2>6, <2>7, ReportGrows
<1>5. CASE BeyondSteps
  <2>1. /\ Running /\ results' = Append(results, Result("skipped", <<>>)) /\ at' = at + 1
        /\ exceeded' = TRUE /\ UNCHANGED <<plan, limits, log>>
    BY <1>5 DEF BeyondSteps, Skipped
  <2> QED BY <1>4, <2>1
<1>6. CASE BeyondTime
  <2>1. /\ Running /\ results' = Append(results, Result("skipped", <<>>)) /\ at' = Len(plan) + 1
        /\ exceeded' = exceeded /\ UNCHANGED <<plan, limits, log>>
    BY <1>6 DEF BeyondTime, Skipped
  <2> QED BY <1>4, <2>1
<1>7. CASE FailStep
  <2>1. /\ Running /\ results' = Append(results, Result("failed", <<>>)) /\ at' = at + 1
        /\ exceeded' = exceeded /\ UNCHANGED <<plan, limits, log>>
    BY <1>7 DEF FailStep
  <2> QED BY <1>4, <2>1
<1>8. CASE ApplyWhole
  <2> DEFINE n == Len(Step.effects)
  <2>1. /\ Running /\ Apply(n) /\ results' = Append(results, Result("ok", Step.effects)) /\ at' = at + 1
        /\ exceeded' = exceeded /\ UNCHANGED <<plan, limits>>
    BY <1>8 DEF ApplyWhole, Sound
  <2>2. Step.effects \in Seq(Effects) /\ n \in Nat
    BY <2>1, StepIs
  <2>3. /\ Result("ok", Step.effects) \in R
        /\ Result("ok", Step.effects).status = "ok" /\ Result("ok", Step.effects).applied = Step.effects
    BY <2>2 DEF Result, DryRunResult
  <2> DEFINE r == Result("ok", Step.effects)
  <2> HIDE DEF r
  <2>4. /\ Len(results') = at /\ results'[at].status = "ok" /\ results'[at].applied = Step.effects
        /\ \A i \in 1..(at - 1) : results'[i] = results[i]
        /\ \A i \in at..Len(results') : i = at
    BY <1>3, <2>1, <2>3
  <2> DEFINE es == Step.effects
  <2>5. /\ Len(log) \in Nat /\ Len(log') = Len(log) + Len(es)
        /\ \A j \in 1..Len(log) : log'[j] = log[j]
        /\ \A k \in 1..Len(es) : log'[Len(log) + k].step = at /\ log'[Len(log) + k].effect = es[k]
    BY <2>1, <2>2, TellingIs
  <2>6. /\ log \in Seq(E) /\ log' \in Seq(E) /\ es \in Seq(Effects)
        /\ \A j \in 1..Len(log) : log[j].step # at
    <3>1. log' \in Seq(E)
      BY <2>1 DEF DryRunInv
    <3>2. log \in Seq(E) /\ \A j \in 1..Len(log) : log[j].step # at
      BY <1>2, <2>1
    <3> QED BY <2>2, <3>1, <3>2
  <2> HIDE DEF n, E, R, es
  <2>7. Told(log', at, es)
    BY <2>5, <2>6, JustTold
  <2>8. \A i \in at..Len(results') :
             \/ results'[i].status # "skipped" /\ Told(log', i, results'[i].applied)
             \/ /\ results'[i].status = "skipped"
                /\ Told(log', i, <<>>) \/ (exceeded' /\ Len(log') = limits.effects)
    <3> TAKE i \in at..Len(results')
    <3>1. i = at
      BY <2>4
    <3> QED BY <2>4, <2>7, <3>1 DEF es
  <2>9. Len(es) \in Nat /\ Len(results') >= at /\ (at' <= Len(plan) => Len(results') = at' - 1)
    BY <1>2, <2>1, <2>4, <2>6
  <2> QED BY <2>1, <2>4, <2>5, <2>8, <2>9, ReportGrows
<1>9. CASE BeyondEffects
  <2> DEFINE m == Len(plan) - at + 1
             rest == [i \in 1..m |-> Skipped]
  <2>1. /\ Running /\ Apply(Room) /\ exceeded' = TRUE
        /\ results' = results \o rest /\ at' = Len(plan) + 1
        /\ UNCHANGED <<plan, limits>>
    BY <1>9 DEF BeyondEffects, Sound
  <2>2. m \in Nat /\ m > 0 /\ at - 1 + m = Len(plan)
    BY <1>2, <2>1
  <2>3. Room \in Nat /\ Len(log) + Room = limits.effects
    <3>1. Len(log) \in Nat /\ limits.effects \in Nat /\ Len(log) <= limits.effects
      BY DEF DryRunInv
    <3> QED BY <3>1 DEF Room
  <2>4. Skipped \in R /\ Skipped.status = "skipped"
    BY EmptyResult DEF Skipped, Result
  <2> HIDE DEF m, R
  <2>5. rest \in Seq(R) /\ Len(rest) = m /\ \A i \in 1..m : rest[i].status = "skipped"
    BY <2>2, <2>4
  <2> HIDE DEF rest
  <2>6. results \in Seq(R) /\ Len(results) = at - 1 /\ at \in 1..Len(plan) /\ Len(plan) \in Nat
    BY <1>2, <2>1
  <2>7. /\ Len(results \o rest) = Len(results) + m
        /\ \A i \in 1..Len(results) : (results \o rest)[i] = results[i]
        /\ \A i \in 1..m : (results \o rest)[Len(results) + i] = rest[i]
    <3> HIDE DEF E
    <3>1. results \in Seq(R) /\ rest \in Seq(R)
      BY <2>5, <2>6, Zenon
    <3>2. /\ Len(results \o rest) = Len(results) + Len(rest)
          /\ \A i \in 1..Len(results) : (results \o rest)[i] = results[i]
          /\ \A i \in 1..Len(rest) : (results \o rest)[Len(results) + i] = rest[i]
      BY <3>1, Behind
    <3> QED BY <2>5, <3>2, Zenon
  <2>8. /\ Len(results') = Len(plan) /\ \A i \in 1..(at - 1) : results'[i] = results[i]
        /\ \A i \in at..Len(plan) : results'[i].status = "skipped"
    <3>1. Len(results') = Len(plan) /\ \A i \in 1..(at - 1) : results'[i] = results[i]
      BY <2>1, <2>2, <2>6, <2>7
    <3>2. ASSUME NEW i \in at..Len(plan) PROVE results'[i].status = "skipped"
      <4>1. i - (at - 1) \in 1..m /\ Len(results) + (i - (at - 1)) = i
        BY <2>2, <2>6
      <4>2. (results \o rest)[i] = rest[i - (at - 1)]
        BY <2>7, <4>1
      <4> QED BY <2>1, <2>5, <4>1, <4>2
    <3> QED BY <3>1, <3>2
  <2>9. /\ Len(log') = Len(log) + Room /\ \A j \in 1..Len(log) : log'[j] = log[j]
        /\ \A k \in 1..Room : log'[Len(log) + k].step = at
    BY <2>1, <2>3, TellingIs
  <2>10. \A i \in at..Len(results') :
             \/ results'[i].status # "skipped" /\ Told(log', i, results'[i].applied)
             \/ /\ results'[i].status = "skipped"
                /\ Told(log', i, <<>>) \/ (exceeded' /\ Len(log') = limits.effects)
    BY <2>1, <2>3, <2>8, <2>9
  <2>11. Len(results') >= at /\ (at' <= Len(plan) => Len(results') = at' - 1)
    BY <2>1, <2>6, <2>8
  <2> HIDE DEF E
  <2> QED BY <2>1, <2>3, <2>8, <2>9, <2>10, <2>11, ReportGrows
<1> QED BY <1>1, <1>5, <1>6, <1>7, <1>8, <1>9

-----------------------------------------------------------------------------
(* What its verdict says.                                                  *)

\* What the steps of a plan take, and what one more adds.
LEMMA UpTo ==
    ASSUME NEW p \in Seq(PlanStep), NEW n \in 0..Len(p)
    PROVE  /\ DurationUpTo(p, n) \in Nat /\ EffectsUpTo(p, n) \in Nat
           /\ n = 0 => DurationUpTo(p, n) = 0 /\ EffectsUpTo(p, n) = 0
           /\ n < Len(p) => /\ DurationUpTo(p, n + 1) = DurationUpTo(p, n) + p[n + 1].duration
                            /\ EffectsUpTo(p, n + 1) = EffectsUpTo(p, n) + Len(p[n + 1].effects)
           /\ DurationUpTo(p, n) <= DurationUpTo(p, Len(p))
           /\ EffectsUpTo(p, n) <= EffectsUpTo(p, Len(p))
<1> DEFINE m == Len(p)
           d == [i \in 1..m |-> p[i].duration]
           e == [i \in 1..m |-> Len(p[i].effects)]
<1>1. m \in Nat /\ n \in 0..m
  OBVIOUS
<1>2. \A i \in 1..m : d[i] \in Nat /\ e[i] \in Nat /\ d[i] = p[i].duration /\ e[i] = Len(p[i].effects)
  <2>1. \A i \in 1..m : p[i] \in PlanStep
    OBVIOUS
  <2> QED BY <2>1 DEF PlanStep
<1> HIDE DEF d, e
<1>3. ASSUME NEW k \in 0..m
      PROVE  /\ DurationUpTo(p, k) = SumFunction([i \in 1..k |-> d[i]])
             /\ EffectsUpTo(p, k) = SumFunction([i \in 1..k |-> e[i]])
  <2>1. \A i \in 1..k : d[i] = p[i].duration /\ e[i] = Len(p[i].effects)
    BY <1>1, <1>2
  <2>2. /\ [i \in 1..k |-> p[i].duration] = [i \in 1..k |-> d[i]]
        /\ [i \in 1..k |-> Len(p[i].effects)] = [i \in 1..k |-> e[i]]
    BY <2>1
  <2> QED BY <2>2 DEF DurationUpTo, EffectsUpTo
<1>4. /\ SumFunction([i \in 1..n |-> d[i]]) \in Nat
      /\ n = 0 => SumFunction([i \in 1..n |-> d[i]]) = 0
      /\ n < m => SumFunction([i \in 1..(n + 1) |-> d[i]]) = SumFunction([i \in 1..n |-> d[i]]) + d[n + 1]
      /\ SumFunction([i \in 1..n |-> d[i]]) <= SumFunction([i \in 1..m |-> d[i]])
  BY <1>1, <1>2, PrefixSums
<1>5. /\ SumFunction([i \in 1..n |-> e[i]]) \in Nat
      /\ n = 0 => SumFunction([i \in 1..n |-> e[i]]) = 0
      /\ n < m => SumFunction([i \in 1..(n + 1) |-> e[i]]) = SumFunction([i \in 1..n |-> e[i]]) + e[n + 1]
      /\ SumFunction([i \in 1..n |-> e[i]]) <= SumFunction([i \in 1..m |-> e[i]])
  BY <1>1, <1>2, PrefixSums
<1>6. n < m => n + 1 \in 0..m /\ n + 1 \in 1..m
  BY <1>1
<1>7. m \in 0..m
  BY <1>1
<1>8. ASSUME n < m
      PROVE  /\ DurationUpTo(p, n + 1) = DurationUpTo(p, n) + p[n + 1].duration
             /\ EffectsUpTo(p, n + 1) = EffectsUpTo(p, n) + Len(p[n + 1].effects)
  <2>1. d[n + 1] = p[n + 1].duration /\ e[n + 1] = Len(p[n + 1].effects)
    BY <1>2, <1>6, <1>8
  <2>2. /\ DurationUpTo(p, n + 1) = SumFunction([i \in 1..(n + 1) |-> d[i]])
        /\ EffectsUpTo(p, n + 1) = SumFunction([i \in 1..(n + 1) |-> e[i]])
    BY <1>3, <1>6, <1>8
  <2> QED BY <1>1, <1>3, <1>4, <1>5, <1>8, <2>1, <2>2
<1>9. /\ DurationUpTo(p, n) \in Nat /\ EffectsUpTo(p, n) \in Nat
      /\ n = 0 => DurationUpTo(p, n) = 0 /\ EffectsUpTo(p, n) = 0
  BY <1>1, <1>3, <1>4, <1>5
<1>10. DurationUpTo(p, n) <= DurationUpTo(p, m) /\ EffectsUpTo(p, n) <= EffectsUpTo(p, m)
  BY <1>1, <1>3, <1>4, <1>5, <1>7
<1> QED BY <1>8, <1>9, <1>10

\* A plan with a step that can fail.
Faulty(p) == \E i \in DOMAIN p : CanFail(p[i])

\* l is the first n steps of p as a whole, and none of them can fail.
Whole(l, p, n) ==
    /\ Len(l) = EffectsUpTo(p, n)
    /\ \A i \in 1..n : ~CanFail(p[i])
    /\ \A i \in 1..n : \A k \in DOMAIN p[i].effects :
           l[EffectsUpTo(p, i - 1) + k] = [step |-> i, effect |-> p[i].effects[k]]

\* Each of the three troubles has its reason in the plan; without one, the steps behind
\* the loop are done as a whole.
FailedFor   == Failures # {} \/ rejected # {} => Faulty(plan)
ExceededFor == exceeded => \/ Faulty(plan)
                           \/ Len(plan) > limits.steps
                           \/ EffectsUpTo(plan, Len(plan)) > limits.effects
ExceededAt  == exceeded => at > limits.steps \/ at > Len(plan)
TimedOutFor == timedOut => at > Len(plan) /\ DurationUpTo(plan, Len(plan)) > limits.time
DoneSoFar   == ~exceeded /\ ~timedOut =>
                   /\ at - 1 <= limits.steps
                   /\ clock = DurationUpTo(plan, at - 1)
                   /\ Failures = {} /\ rejected = {} => Whole(log, plan, at - 1)
Returned    == verdict # "" => at > Len(plan) /\ verdict = Verdict

VerdictInv == FailedFor /\ ExceededFor /\ ExceededAt /\ TimedOutFor /\ DoneSoFar /\ Returned

\* Results behind the others do not undo a failure, and make one only if they say so.
LEMMA FailuresGrow ==
    ASSUME NEW R, results \in Seq(R), NEW rest \in Seq(R), results' = results \o rest
    PROVE  /\ Failures # {} => Failures' # {}
           /\ (\A i \in 1..Len(rest) : rest[i].status # "failed") => Failures' = Failures
           /\ (\E i \in 1..Len(rest) : rest[i].status = "failed") => Failures' # {}
<1>1. /\ Len(results) \in Nat /\ Len(rest) \in Nat /\ Len(results') = Len(results) + Len(rest)
      /\ DOMAIN results = 1..Len(results) /\ DOMAIN results' = 1..Len(results')
      /\ \A i \in 1..Len(results) : results'[i] = results[i]
      /\ \A i \in 1..Len(rest) : results'[Len(results) + i] = rest[i]
  OBVIOUS
<1>2. \A i \in 1..Len(results') : i \in 1..Len(results) \/
          (i - Len(results) \in 1..Len(rest) /\ Len(results) + (i - Len(results)) = i)
  BY <1>1
<1>3. \A i \in 1..Len(results) : i \in 1..Len(results')
  BY <1>1
<1>4. \A i \in 1..Len(rest) : Len(results) + i \in 1..Len(results')
  BY <1>1
<1>5. /\ Failures = {i \in 1..Len(results) : results[i].status = "failed"}
      /\ Failures' = {i \in 1..Len(results') : results'[i].status = "failed"}
  BY <1>1 DEF Failures, Status
<1>6. Failures \subseteq Failures'
  BY <1>1, <1>3, <1>5
<1>7. ASSUME \A i \in 1..Len(rest) : rest[i].status # "failed" PROVE Failures' \subseteq Failures
  <2> SUFFICES ASSUME NEW i \in 1..Len(results'), results'[i].status = "failed" PROVE i \in Failures
    BY <1>5
  <2>1. i \in 1..Len(results)
    BY <1>1, <1>2, <1>7
  <2> QED BY <1>1, <1>5, <2>1
<1>8. ASSUME NEW i \in 1..Len(rest), rest[i].status = "failed" PROVE Failures' # {}
  <2>1. Len(results) + i \in Failures'
    BY <1>1, <1>4, <1>5, <1>8
  <2> QED BY <2>1
<1> QED BY <1>6, <1>7, <1>8

\* A plan done as a whole up to a step, when that step cannot fail and is done as well.
LEMMA WholeGrows ==
    ASSUME NEW p \in Seq(PlanStep), NEW n \in 1..Len(p), NEW l, NEW m, Whole(l, p, n - 1),
           Len(l) \in Nat, Len(m) = Len(l) + Len(p[n].effects), \A j \in 1..Len(l) : m[j] = l[j],
           \A k \in 1..Len(p[n].effects) :
               m[Len(l) + k] = [step |-> n, effect |-> p[n].effects[k]],
           ~CanFail(p[n])
    PROVE  Whole(m, p, n)
<1>1. /\ Len(p) \in Nat /\ n \in Nat /\ n - 1 \in 0..Len(p) /\ n - 1 < Len(p) /\ (n - 1) + 1 = n
      /\ Len(l) = EffectsUpTo(p, n - 1)
      /\ \A i \in 1..Len(p) : Len(p[i].effects) \in Nat /\ DOMAIN p[i].effects = 1..Len(p[i].effects)
  <2>1. \A i \in 1..Len(p) : p[i] \in PlanStep
    OBVIOUS
  <2>2. \A i \in 1..Len(p) : p[i].effects \in Seq(Effects)
    BY <2>1 DEF PlanStep
  <2>3. Len(l) = EffectsUpTo(p, n - 1)
    BY DEF Whole
  <2> QED BY <2>2, <2>3
<1>2. EffectsUpTo(p, n) = EffectsUpTo(p, n - 1) + Len(p[n].effects)
  BY <1>1, UpTo
<1>3. \A i \in 1..(n - 1) : ~CanFail(p[i]) /\ i \in 1..Len(p) /\ i - 1 \in 0..Len(p) /\ (i - 1) + 1 = i
                            /\ i \in 0..Len(p) /\ i \in 0..(n - 1)
  BY <1>1 DEF Whole
<1>4. \A i \in 1..n : i \in 1..(n - 1) \/ i = n
  BY <1>1
<1>5. \A i \in 1..n : ~CanFail(p[i])
  BY <1>3, <1>4
<1>6. ASSUME NEW i \in 1..(n - 1), NEW k \in DOMAIN p[i].effects
      PROVE  m[EffectsUpTo(p, i - 1) + k] = [step |-> i, effect |-> p[i].effects[k]]
  <2>1. /\ i \in 1..Len(p) /\ i - 1 \in 0..Len(p) /\ (i - 1) + 1 = i /\ i - 1 < Len(p)
        /\ k \in 1..Len(p[i].effects) /\ Len(p[i].effects) \in Nat
    BY <1>1, <1>3
  <2>2. EffectsUpTo(p, i) = EffectsUpTo(p, i - 1) + Len(p[i].effects) /\ EffectsUpTo(p, i - 1) \in Nat
    BY <2>1, UpTo
  <2>3. EffectsUpTo(p, i) <= EffectsUpTo(p, n - 1)
    <3> DEFINE q == SubSeq(p, 1, n - 1)
    <3>1. q \in Seq(PlanStep) /\ Len(q) = n - 1 /\ \A j \in 1..(n - 1) : q[j] = p[j]
      BY <1>1
    <3> HIDE DEF q
    <3>2. EffectsUpTo(q, i) <= EffectsUpTo(q, Len(q))
      BY <1>3, <3>1, UpTo
    <3>3. EffectsUpTo(q, i) = EffectsUpTo(p, i)
      <4>1. \A j \in 1..i : q[j] = p[j]
        BY <1>1, <3>1
      <4>2. [j \in 1..i |-> Len(q[j].effects)] = [j \in 1..i |-> Len(p[j].effects)]
        BY <4>1
      <4> QED BY <4>2 DEF EffectsUpTo
    <3>4. EffectsUpTo(q, n - 1) = EffectsUpTo(p, n - 1)
      <4>1. [j \in 1..(n - 1) |-> Len(q[j].effects)] = [j \in 1..(n - 1) |-> Len(p[j].effects)]
        BY <3>1
      <4> QED BY <4>1 DEF EffectsUpTo
    <3> QED BY <3>1, <3>2, <3>3, <3>4
  <2>4. EffectsUpTo(p, i - 1) + k \in 1..Len(l)
    <3> DEFINE e == EffectsUpTo(p, i - 1)
               c == Len(p[i].effects)
    <3>1. e \in Nat /\ c \in Nat /\ k \in 1..c
      BY <2>1, <2>2, Zenon
    <3>2. e + c <= Len(l)
      BY <1>1, <2>2, <2>3, Zenon
    <3> HIDE DEF e, c
    <3>3. e + k \in 1..Len(l)
      BY <3>1, <3>2
    <3> QED BY <3>3 DEF e
  <2>5. l[EffectsUpTo(p, i - 1) + k] = [step |-> i, effect |-> p[i].effects[k]]
    BY Zenon DEF Whole
  <2> QED BY <2>4, <2>5
<1>7. ASSUME NEW k \in DOMAIN p[n].effects
      PROVE  m[EffectsUpTo(p, n - 1) + k] = [step |-> n, effect |-> p[n].effects[k]]
  <2>1. k \in 1..Len(p[n].effects)
    BY <1>1
  <2> QED BY <1>1, <2>1
<1>8. \A i \in 1..n : \A k \in DOMAIN p[i].effects :
          m[EffectsUpTo(p, i - 1) + k] = [step |-> i, effect |-> p[i].effects[k]]
  <2> TAKE i \in 1..n
  <2> TAKE k \in DOMAIN p[i].effects
  <2>1. CASE i \in 1..(n - 1)
    BY <1>6, <2>1
  <2>2. CASE i = n
    BY <1>7, <2>2
  <2> QED BY <1>4, <2>1, <2>2
<1>9. Len(m) = EffectsUpTo(p, n)
  BY <1>1, <1>2
<1> QED BY <1>5, <1>8, <1>9, Zenon DEF Whole

\* While the loop runs within the limit of steps, nothing has gone beyond a budget yet.
LEMMA SoFar ==
    ASSUME DryRunInv, VerdictInv, Running
    PROVE  /\ timedOut = FALSE /\ verdict = ""
           /\ InLimit => exceeded = FALSE
<1>1. at \in 1..Len(plan) /\ Len(plan) \in Nat
  BY StepIs
<1>2. exceeded \in BOOLEAN /\ timedOut \in BOOLEAN /\ limits.steps \in Nat
  BY DEF DryRunInv
<1>3. ~(at > Len(plan)) /\ (InLimit => ~(at > limits.steps))
  BY <1>1, <1>2 DEF InLimit
<1>4. ExceededAt /\ TimedOutFor /\ verdict = ""
  BY Zenon DEF VerdictInv, Running
<1> QED BY <1>2, <1>3, <1>4, Zenon DEF ExceededAt, TimedOutFor

\* The plan up to the step the loop is at.
LEMMA UpToHere ==
    ASSUME DryRunInv, VerdictInv, Running, InLimit
    PROVE  /\ clock = DurationUpTo(plan, at - 1)
           /\ DurationUpTo(plan, at) = clock + Step.duration
           /\ DurationUpTo(plan, at) <= DurationUpTo(plan, Len(plan))
           /\ DurationUpTo(plan, at) \in Nat /\ DurationUpTo(plan, Len(plan)) \in Nat
           /\ Failures = {} /\ rejected = {} =>
                  /\ Whole(log, plan, at - 1)
                  /\ EffectsUpTo(plan, at) = Len(log) + Len(Step.effects)
           /\ EffectsUpTo(plan, at) <= EffectsUpTo(plan, Len(plan))
           /\ EffectsUpTo(plan, at) \in Nat /\ EffectsUpTo(plan, Len(plan)) \in Nat
<1>1. at \in 1..Len(plan) /\ Len(plan) \in Nat /\ plan \in Seq(PlanStep) /\ Step = plan[at]
  BY StepIs DEF DryRunInv, Step
<1>2. ~exceeded /\ ~timedOut /\ DoneSoFar
  BY SoFar, Zenon DEF VerdictInv
<1>3. /\ clock = DurationUpTo(plan, at - 1)
      /\ Failures = {} /\ rejected = {} => Whole(log, plan, at - 1)
  BY <1>2, Zenon DEF DoneSoFar
<1>4. Whole(log, plan, at - 1) => Len(log) = EffectsUpTo(plan, at - 1)
  BY Zenon DEF Whole
<1>5. /\ at - 1 \in 0..Len(plan) /\ at \in 0..Len(plan) /\ Len(plan) \in 0..Len(plan)
      /\ at - 1 < Len(plan) /\ (at - 1) + 1 = at
  BY <1>1
<1>6. /\ DurationUpTo(plan, at) = DurationUpTo(plan, at - 1) + Step.duration
      /\ EffectsUpTo(plan, at) = EffectsUpTo(plan, at - 1) + Len(Step.effects)
  BY <1>1, <1>5, UpTo
<1>7. /\ DurationUpTo(plan, at) \in Nat /\ EffectsUpTo(plan, at) \in Nat
      /\ DurationUpTo(plan, Len(plan)) \in Nat /\ EffectsUpTo(plan, Len(plan)) \in Nat
      /\ DurationUpTo(plan, at) <= DurationUpTo(plan, Len(plan))
      /\ EffectsUpTo(plan, at) <= EffectsUpTo(plan, Len(plan))
  BY <1>1, <1>5, UpTo
<1>8. Failures = {} /\ rejected = {} => EffectsUpTo(plan, at) = Len(log) + Len(Step.effects)
  BY <1>3, <1>4, <1>6, Zenon
<1> QED BY <1>3, <1>6, <1>7, <1>8, Zenon

\* One more result.
LEMMA OneMoreResult ==
    ASSUME DryRunInv, NEW r \in DryRunResult, results' = Append(results, r)
    PROVE  /\ r.status # "failed" => Failures' = Failures
           /\ r.status = "failed" => Failures' # {}
<1> DEFINE R == DryRunResult
           rest == <<r>>
<1>1. results \in Seq(R) /\ r \in R
  BY DEF DryRunInv
<1> HIDE DEF R
<1>2. Append(results, r) = results \o <<r>>
  BY <1>1
<1>3. rest \in Seq(R) /\ Len(rest) = 1 /\ rest[1] = r
  BY <1>1
<1>4. results' = results \o rest
  BY <1>2
<1> HIDE DEF rest
<1>5. 1 \in 1..Len(rest) /\ \A i \in 1..Len(rest) : rest[i] = r
  BY <1>3
<1>6. /\ (\A i \in 1..Len(rest) : rest[i].status # "failed") => Failures' = Failures
      /\ (\E i \in 1..Len(rest) : rest[i].status = "failed") => Failures' # {}
  BY <1>1, <1>3, <1>4, FailuresGrow
<1> QED BY <1>3, <1>5, <1>6, Zenon

\* Each step of the loop, and the verdict, have their reasons in the plan.
LEMMA VerdictStep ==
    ASSUME DryRunInv, VerdictInv,
           BeyondSteps \/ BeyondTime \/ FailStep \/ ApplyWhole \/ BeyondEffects \/ Return
    PROVE  VerdictInv'
<1>1. FailedFor /\ ExceededFor
  BY Zenon DEF VerdictInv
<1>2. limits.steps \in Nat /\ limits.time \in Nat /\ limits.effects \in Nat /\ clock \in Nat
      /\ Len(log) \in Nat
  BY DEF DryRunInv
<1>3. ASSUME Running
      PROVE  /\ at \in 1..Len(plan) /\ Len(plan) \in Nat
             /\ Step.duration \in Nat /\ Len(Step.effects) \in Nat
             /\ Step = plan[at] /\ plan \in Seq(PlanStep)
  BY <1>3, StepIs DEF Step, DryRunInv
<1>4. CASE BeyondSteps
  <2>1. /\ Running /\ ~InLimit /\ exceeded' = TRUE /\ at' = at + 1
        /\ results' = Append(results, Skipped)
        /\ UNCHANGED <<plan, limits, rejected, timedOut, verdict>>
    BY <1>4, Zenon DEF BeyondSteps
  <2>2. at > limits.steps /\ Len(plan) > limits.steps /\ at' > limits.steps
    BY <1>2, <1>3, <2>1 DEF InLimit
  <2>3. Skipped \in DryRunResult /\ Skipped.status # "failed"
    BY EmptyResult DEF Skipped, Result
  <2>4. Failures' = Failures
    BY <2>1, <2>3, OneMoreResult, Zenon
  <2>5. timedOut' = FALSE /\ verdict' = ""
    BY <2>1, SoFar, Zenon
  <2>6. FailedFor' /\ TimedOutFor' /\ DoneSoFar' /\ Returned'
    BY <1>1, <2>1, <2>4, <2>5, Zenon DEF FailedFor, TimedOutFor, DoneSoFar, Returned
  <2>7. ExceededFor' /\ ExceededAt'
    BY <2>1, <2>2, Zenon DEF ExceededFor, ExceededAt
  <2> QED BY <2>6, <2>7, Zenon DEF VerdictInv
<1>5. CASE BeyondTime
  <2>1. /\ Running /\ InLimit /\ ~InTime /\ timedOut' = TRUE /\ at' = Len(plan) + 1
        /\ results' = Append(results, Skipped)
        /\ UNCHANGED <<plan, limits, rejected, exceeded, verdict>>
    BY <1>5, Zenon DEF BeyondTime
  <2>2. Skipped \in DryRunResult /\ Skipped.status # "failed"
    BY EmptyResult DEF Skipped, Result
  <2>3. Failures' = Failures
    BY <2>1, <2>2, OneMoreResult, Zenon
  <2>4. exceeded' = FALSE /\ verdict' = ""
    BY <2>1, SoFar, Zenon
  <2>5. at' > Len(plan)
    BY <1>3, <2>1
  <2>6. DurationUpTo(plan, Len(plan)) > limits.time
    <3>1. ~(clock + Step.duration <= limits.time)
      BY <2>1, Zenon DEF InTime
    <3>2. /\ DurationUpTo(plan, at) = clock + Step.duration
          /\ DurationUpTo(plan, at) <= DurationUpTo(plan, Len(plan))
          /\ DurationUpTo(plan, at) \in Nat /\ DurationUpTo(plan, Len(plan)) \in Nat
      BY <2>1, UpToHere, Zenon
    <3> QED BY <1>2, <1>3, <2>1, <3>1, <3>2
  <2>7. FailedFor' /\ ExceededFor' /\ ExceededAt' /\ DoneSoFar' /\ Returned'
    BY <1>1, <2>1, <2>3, <2>4, Zenon DEF FailedFor, ExceededFor, ExceededAt, DoneSoFar, Returned
  <2>8. TimedOutFor'
    BY <2>1, <2>5, <2>6, Zenon DEF TimedOutFor
  <2> QED BY <2>7, <2>8, Zenon DEF VerdictInv
<1>6. CASE FailStep
  <2>1. /\ Running /\ InLimit /\ at' = at + 1 /\ clock' = clock + Step.duration
        /\ results' = Append(results, Result("failed", <<>>))
        /\ Step.error \/ BadOf(Step) # {}
        /\ UNCHANGED <<plan, limits, exceeded, timedOut, verdict>>
    BY <1>6, Zenon DEF FailStep
  <2>2. Result("failed", <<>>) \in DryRunResult /\ Result("failed", <<>>).status = "failed"
    BY EmptyResult DEF Result
  <2>3. Failures' # {}
    BY <2>1, <2>2, OneMoreResult, Zenon
  <2>4. Faulty(plan)
    <3>1. at \in DOMAIN plan /\ Step = plan[at]
      BY <1>3, <2>1
    <3>2. CanFail(plan[at])
      BY <2>1, <3>1, Zenon DEF CanFail
    <3> QED BY <3>1, <3>2, Zenon DEF Faulty
  <2>5. exceeded' = FALSE /\ timedOut' = FALSE /\ verdict' = ""
    BY <2>1, SoFar, Zenon
  <2>6. at' - 1 = at /\ at <= limits.steps
    BY <1>3, <2>1 DEF InLimit
  <2>7. clock' = DurationUpTo(plan, at)
    BY <2>1, UpToHere, Zenon
  <2>8. DoneSoFar'
    BY <2>1, <2>3, <2>6, <2>7, Zenon DEF DoneSoFar
  <2>9. FailedFor' /\ ExceededFor' /\ ExceededAt' /\ TimedOutFor' /\ Returned'
    BY <2>1, <2>4, <2>5, Zenon DEF FailedFor, ExceededFor, ExceededAt, TimedOutFor, Returned
  <2> QED BY <2>8, <2>9, Zenon DEF VerdictInv
<1>7. CASE ApplyWhole
  <2> DEFINE es == Step.effects
  <2>1. /\ Running /\ InLimit /\ at' = at + 1 /\ clock' = clock + Step.duration
        /\ ~Step.error /\ BadOf(Step) = {} /\ Apply(Len(es))
        /\ results' = Append(results, Result("ok", es))
        /\ UNCHANGED <<plan, limits, rejected, exceeded, timedOut, verdict>>
    BY <1>7, Zenon DEF ApplyWhole, Sound
  <2>2. Result("ok", es) \in DryRunResult /\ Result("ok", es).status # "failed"
    BY <2>1, StepIs DEF Result, DryRunResult
  <2>3. Failures' = Failures
    BY <2>1, <2>2, OneMoreResult, Zenon
  <2>4. exceeded' = FALSE /\ timedOut' = FALSE /\ verdict' = ""
    BY <2>1, SoFar, Zenon
  <2>5. at' - 1 = at /\ at <= limits.steps
    BY <1>3, <2>1 DEF InLimit
  <2>6. clock' = DurationUpTo(plan, at)
    BY <2>1, UpToHere, Zenon
  <2>7. ASSUME Failures = {}, rejected = {} PROVE Whole(log', plan, at)
    <3>1. Whole(log, plan, at - 1)
      BY <2>1, <2>7, UpToHere, Zenon
    <3>2. Len(es) \in Nat /\ plan[at] = Step /\ plan \in Seq(PlanStep) /\ at \in 1..Len(plan)
      BY <1>3, <2>1
    <3>3. /\ Len(log) \in Nat /\ Len(log') = Len(log) + Len(es)
          /\ \A j \in 1..Len(log) : log'[j] = log[j]
          /\ \A k \in 1..Len(es) : log'[Len(log) + k] = [step |-> at, effect |-> es[k]]
      BY <2>1, <3>2, TellingIs
    <3>4. ~CanFail(plan[at])
      BY <2>1, <3>2, Zenon DEF CanFail
    <3>5. plan[at].effects = es
      BY <3>2, Zenon
    <3> HIDE DEF es
    <3> QED BY <3>1, <3>2, <3>3, <3>4, <3>5, WholeGrows
  <2>8. DoneSoFar'
    BY <2>1, <2>3, <2>5, <2>6, <2>7, Zenon DEF DoneSoFar
  <2>9. FailedFor' /\ ExceededFor' /\ ExceededAt' /\ TimedOutFor' /\ Returned'
    BY <1>1, <2>1, <2>3, <2>4, Zenon DEF FailedFor, ExceededFor, ExceededAt, TimedOutFor, Returned
  <2> QED BY <2>8, <2>9, Zenon DEF VerdictInv
<1>8. CASE BeyondEffects
  <2> DEFINE R == DryRunResult
             m == Len(plan) - at + 1
             rest == [i \in 1..m |-> Skipped]
  <2>1. /\ Running /\ InLimit /\ exceeded' = TRUE /\ at' = Len(plan) + 1
        /\ Len(Step.effects) > Room /\ results' = results \o rest
        /\ UNCHANGED <<plan, limits, rejected, timedOut, verdict>>
    BY <1>8, Zenon DEF BeyondEffects, Sound
  <2>2. m \in Nat /\ at' > Len(plan)
    BY <1>3, <2>1
  <2>3. Skipped \in R /\ Skipped.status # "failed" /\ results \in Seq(R)
    BY EmptyResult DEF Skipped, Result, DryRunInv
  <2> HIDE DEF m, R
  <2>4. rest \in Seq(R) /\ Len(rest) = m /\ \A i \in 1..m : rest[i].status # "failed"
    BY <2>2, <2>3
  <2> HIDE DEF rest
  <2>5. Failures' = Failures
    BY <2>1, <2>3, <2>4, FailuresGrow
  <2>6. timedOut' = FALSE /\ verdict' = ""
    BY <2>1, SoFar, Zenon
  <2>7. Faulty(plan) \/ EffectsUpTo(plan, Len(plan)) > limits.effects
    <3>1. CASE Failures # {} \/ rejected # {}
      BY <1>1, <3>1, Zenon DEF FailedFor
    <3>2. CASE Failures = {} /\ rejected = {}
      <4>1. Len(Step.effects) > limits.effects - Len(log)
        BY <2>1, Zenon DEF Room
      <4>2. /\ EffectsUpTo(plan, at) = Len(log) + Len(Step.effects)
            /\ EffectsUpTo(plan, at) <= EffectsUpTo(plan, Len(plan))
            /\ EffectsUpTo(plan, at) \in Nat /\ EffectsUpTo(plan, Len(plan)) \in Nat
        BY <2>1, <3>2, UpToHere, Zenon
      <4>3. EffectsUpTo(plan, Len(plan)) > limits.effects
        BY <1>2, <1>3, <2>1, <4>1, <4>2
      <4> QED BY <4>3
    <3> QED BY <3>1, <3>2
  <2>8. FailedFor' /\ TimedOutFor' /\ DoneSoFar' /\ Returned'
    BY <1>1, <2>1, <2>5, <2>6, Zenon DEF FailedFor, TimedOutFor, DoneSoFar, Returned
  <2>9. ExceededFor' /\ ExceededAt'
    BY <2>1, <2>2, <2>7, Zenon DEF ExceededFor, ExceededAt
  <2> QED BY <2>8, <2>9, Zenon DEF VerdictInv
<1>9. CASE Return
  <2>1. /\ verdict' = Verdict /\ at > Len(plan)
        /\ UNCHANGED <<plan, limits, at, clock, log, rejected, exceeded, timedOut, results>>
    BY <1>9, Zenon DEF Return
  <2>2. Failures' = Failures
    BY <2>1 DEF Failures, Status
  <2>3. Verdict' = Verdict
    BY <2>1, <2>2, Zenon DEF Verdict
  <2>4. ExceededAt /\ TimedOutFor /\ DoneSoFar
    BY Zenon DEF VerdictInv
  <2>5. FailedFor' /\ ExceededFor' /\ ExceededAt' /\ TimedOutFor' /\ DoneSoFar'
    BY <1>1, <2>1, <2>2, <2>4, Zenon DEF FailedFor, ExceededFor, ExceededAt, TimedOutFor, DoneSoFar
  <2>6. Returned'
    BY <2>1, <2>3, Zenon DEF Returned
  <2> QED BY <2>5, <2>6, Zenon DEF VerdictInv
<1> QED BY <1>4, <1>5, <1>6, <1>7, <1>8, <1>9

\* The report and the reasons always hold: behind the loop's invariant.
ReportAndVerdictInv == DryRunInv /\ ReportInv /\ VerdictInv

\* Nothing has been done of any plan.
LEMMA NothingDone ==
    ASSUME SimulationInit, DryRunInv
    PROVE  ReportInv /\ VerdictInv
<1> DEFINE Returning == verdict # ""
<1>1. /\ at = 1 /\ clock = 0 /\ log = <<>> /\ rejected = {} /\ exceeded = FALSE /\ timedOut = FALSE
      /\ results = <<>> /\ ~Returning
  BY Zenon DEF SimulationInit
<1> HIDE DEF Returning
<1>2. plan \in Seq(PlanStep) /\ Len(plan) \in Nat /\ limits.steps \in Nat /\ limits.effects \in Nat
  BY DEF DryRunInv
<1>3. Len(log) = 0 /\ Len(results) = 0 /\ DOMAIN log = {} /\ DOMAIN results = {} /\ 1..0 = {}
  BY <1>1
<1>4. ReportInv
  <2>1. at <= Len(plan) => Len(results) = at - 1
    BY <1>1, <1>3
  <2>2. \A j \in 1..Len(log) : log[j].step <= Len(results)
    BY <1>3
  <2>3. LogFitsReport
    BY <1>2, <1>3 DEF LogFitsReport
  <2> QED BY <2>1, <2>2, <2>3, Zenon DEF ReportInv
<1>5. Failures = {}
  BY <1>3 DEF Failures
<1>6. 0 \in 0..Len(plan) /\ at - 1 = 0 /\ at - 1 <= limits.steps
  BY <1>1, <1>2
<1>7. DurationUpTo(plan, 0) = 0 /\ EffectsUpTo(plan, 0) = 0
  BY <1>2, <1>6, UpTo
<1>8. Whole(log, plan, 0)
  BY <1>3, <1>7 DEF Whole
<1>9. DoneSoFar
  BY <1>1, <1>6, <1>7, <1>8, Zenon DEF DoneSoFar
<1>10. FailedFor /\ ExceededFor /\ ExceededAt /\ TimedOutFor /\ Returned
  BY <1>1, <1>5, Zenon DEF FailedFor, ExceededFor, ExceededAt, TimedOutFor, Returned, Returning
<1> QED BY <1>4, <1>9, <1>10, Zenon DEF VerdictInv

\* What is left alone by the sandbox, and by a step that changes nothing.
LEMMA ReportStays ==
    ASSUME ReportInv, VerdictInv, UNCHANGED runVars
    PROVE  ReportInv' /\ VerdictInv'
<1>1. UNCHANGED <<plan, limits, at, clock, log, rejected, exceeded, timedOut, results, verdict>>
  BY DEF runVars
<1>2. Failures' = Failures
  BY <1>1 DEF Failures, Status
<1>3. Verdict' = Verdict
  BY <1>1, <1>2, Zenon DEF Verdict
<1>4. ReportInv'
  BY <1>1 DEF ReportInv, LogFitsReport, Status
<1>5. VerdictInv'
  BY <1>1, <1>2, <1>3, Zenon
     DEF VerdictInv, FailedFor, ExceededFor, ExceededAt, TimedOutFor, DoneSoFar, Returned
<1> QED BY <1>4, <1>5

\* The two invariants always hold.
LEMMA ReportAlways == SimulationSpec => []ReportAndVerdictInv
<1>1. SimulationInit /\ SimulatorInv => ReportAndVerdictInv
  BY NothingDone, Zenon DEF SimulatorInv, ReportAndVerdictInv
<1>2. ReportAndVerdictInv /\ SimulatorInv' /\ [SimulationNext]_simulationVars => ReportAndVerdictInv'
  <2> SUFFICES ASSUME ReportAndVerdictInv, SimulatorInv', [SimulationNext]_simulationVars
               PROVE  ReportAndVerdictInv'
    OBVIOUS
  <2>1. DryRunInv /\ ReportInv /\ VerdictInv /\ DryRunInv'
    BY Zenon DEF ReportAndVerdictInv, SimulatorInv
  <2>2. CASE BeyondSteps \/ BeyondTime \/ FailStep \/ ApplyWhole \/ BeyondEffects \/ Return
    BY <2>1, <2>2, ReportStep, VerdictStep, Zenon DEF ReportAndVerdictInv
  <2>3. ASSUME NEW domain \in DOMAIN Domains, NEW params \in Params, Simulate(domain, params)
        PROVE  UNCHANGED runVars
    BY <2>3, Zenon DEF Simulate
  <2>4. ASSUME NEW k \in DOMAIN sims, NEW who \in Approvers, Approve(k, who)
        PROVE  UNCHANGED runVars
    BY <2>4, Zenon DEF Approve
  <2>5. ASSUME UNCHANGED simulationVars PROVE UNCHANGED runVars
    BY <2>5, Zenon DEF simulationVars
  <2>6. ASSUME UNCHANGED runVars PROVE ReportAndVerdictInv'
    BY <2>1, <2>6, ReportStays, Zenon DEF ReportAndVerdictInv
  <2> QED BY <2>2, <2>3, <2>4, <2>5, <2>6, Zenon DEF SimulationNext
<1> QED BY <1>1, <1>2, SimulatorSafety, PTL DEF SimulationSpec

\* What the backend was told is what the report says, within the budget.
THEOREM ReportsAreTrue == SimulationSpec => []LogFitsReport
<1>1. ReportAndVerdictInv => LogFitsReport
  BY Zenon DEF ReportAndVerdictInv, ReportInv
<1> QED BY <1>1, ReportAlways, PTL

\* A run is "clean" exactly when the plan keeps to every budget and cannot fail, and
\* then all of it was applied, in order.
THEOREM CleanIsDone == SimulationSpec => []CleanMeansDone
<1> DEFINE Returning == verdict # ""
<1>1. ReportAndVerdictInv => CleanMeansDone
  <2>1. ASSUME DryRunInv PROVE DOMAIN plan = 1..Len(plan)
    BY <2>1 DEF DryRunInv
  <2> SUFFICES ASSUME DryRunInv, VerdictInv, Returning
               PROVE  /\ (verdict = "clean") <=>
                             /\ Len(plan) <= limits.steps
                             /\ DurationUpTo(plan, Len(plan)) <= limits.time
                             /\ EffectsUpTo(plan, Len(plan)) <= limits.effects
                             /\ \A i \in DOMAIN plan : ~CanFail(plan[i])
                      /\ verdict = "clean" => Whole(log, plan, Len(plan))
    BY <2>1, Zenon DEF ReportAndVerdictInv, CleanMeansDone, Whole
  <2>2. FailedFor /\ ExceededFor /\ TimedOutFor /\ DoneSoFar /\ verdict = Verdict /\ at > Len(plan)
    BY Zenon DEF VerdictInv, Returned
  <2> HIDE DEF Returning
  <2>3. /\ plan \in Seq(PlanStep) /\ Len(plan) \in Nat /\ at \in 1 .. Len(plan) + 1
        /\ limits.steps \in Nat /\ limits.time \in Nat /\ limits.effects \in Nat
        /\ clock <= limits.time /\ Len(log) <= limits.effects /\ DOMAIN plan = 1..Len(plan)
    BY DEF DryRunInv
  <2>4. at - 1 = Len(plan)
    BY <2>3, <2>2
  <2>5. ASSUME verdict = "clean"
        PROVE  /\ Len(plan) <= limits.steps
               /\ DurationUpTo(plan, Len(plan)) <= limits.time
               /\ EffectsUpTo(plan, Len(plan)) <= limits.effects
               /\ \A i \in DOMAIN plan : ~CanFail(plan[i])
               /\ Whole(log, plan, Len(plan))
    <3>1. ~(Failures # {} \/ rejected # {}) /\ ~exceeded /\ ~timedOut
      BY <2>2, <2>5 DEF Verdict
    <3>2. /\ Len(plan) <= limits.steps /\ clock = DurationUpTo(plan, Len(plan))
          /\ Whole(log, plan, Len(plan))
      BY <2>2, <2>4, <3>1, Zenon DEF DoneSoFar
    <3>3. Len(log) = EffectsUpTo(plan, Len(plan)) /\ \A i \in 1..Len(plan) : ~CanFail(plan[i])
      BY <3>2, Zenon DEF Whole
    <3> QED BY <2>3, <3>2, <3>3, Zenon
  <2>6. ASSUME /\ Len(plan) <= limits.steps
               /\ DurationUpTo(plan, Len(plan)) <= limits.time
               /\ EffectsUpTo(plan, Len(plan)) <= limits.effects
               /\ \A i \in DOMAIN plan : ~CanFail(plan[i])
        PROVE  verdict = "clean"
    <3>1. ~Faulty(plan)
      BY <2>6, Zenon DEF Faulty
    <3>2. DurationUpTo(plan, Len(plan)) \in Nat /\ EffectsUpTo(plan, Len(plan)) \in Nat
      <4>1. Len(plan) \in 0..Len(plan)
        BY <2>3
      <4> QED BY <2>3, <4>1, UpTo
    <3>3. /\ ~(Len(plan) > limits.steps)
          /\ ~(DurationUpTo(plan, Len(plan)) > limits.time)
          /\ ~(EffectsUpTo(plan, Len(plan)) > limits.effects)
      BY <2>3, <2>6, <3>2
    <3>4. ~(Failures # {} \/ rejected # {}) /\ ~exceeded /\ ~timedOut
      BY <2>2, <3>1, <3>3, Zenon DEF FailedFor, ExceededFor, TimedOutFor
    <3> QED BY <2>2, <3>4, Zenon DEF Verdict
  <2> QED BY <2>5, <2>6, Zenon
<1> QED BY <1>1, ReportAlways, PTL
=============================================================================
