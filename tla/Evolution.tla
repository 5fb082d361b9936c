------------------------------- MODULE Evolution -------------------------------
(***************************************************************************)
(* Self evolution: the proposals of omni/evolution/engine.py and the       *)
(* mutations omni/evolution/executor.py makes of adopted ones, wired as in *)
(* omni/api/main.py with policy, memory and ledger.  apply() looks at the  *)
(* proposal and asks the policy engine before it takes the executor's      *)
(* lock, and writes the ledger after it let go; other requests step in     *)
(* between.                                                                *)
(*                                                                         *)
(* A mutation is a function from the places it writes to what it writes    *)
(* there: dotted paths of the configuration, which do not overlap, or one  *)
(* prompt template or one branch in versioned memory.                      *)
(***************************************************************************)
EXTENDS Integers, Sequences, FiniteSets

CONSTANTS
    Proposals, Callers,
    ConfigPaths, Prompts, Layouts,  \* the places
    Contents, None,                 \* what a place holds, None for nothing
    Mutations,                      \* the mutations clients ask for
    MaxRecords                      \* bound: mutations ever made

Places == ConfigPaths \cup Prompts \cup Layouts

IsPrompt(m)   == DOMAIN m \subseteq Prompts
IsLayout(m)   == DOMAIN m \subseteq Layouts
Revertible(m) == ~IsLayout(m)

ASSUME EvolutionAssumption ==
    /\ None \notin Contents \cup Callers /\ IsFiniteSet(Callers)
    /\ Layouts \cap (ConfigPaths \cup Prompts) = {} /\ ConfigPaths \cap Prompts = {}
    /\ MaxRecords \in Nat
    /\ \A m \in Mutations :
          /\ DOMAIN m # {} /\ \A s \in DOMAIN m : m[s] \in Contents
          /\ \/ DOMAIN m \subseteq ConfigPaths
             \/ \E s \in Prompts \cup Layouts : DOMAIN m = {s}

VARIABLES
    status,     \* EvolutionProposal.status, "unknown" before propose()
    gains,      \* does its delta reach min_gain?
    adoptedAt,  \* was adopted_at ever set?
    live,       \* what each place holds now
    records,    \* _records, in the order the mutations were made
    lock,       \* who holds the executor's lock across a call, None for nobody
    pc,         \* where each caller of apply() stands
    job,        \* its arguments
    seen,       \* the template it read, or the position of its record
    ledger,     \* the "evolution" events of the replay ledger
    tangled     \* history: places where mutations were reverted out of order

engineVars   == <<status, gains, adoptedAt>>
executorVars == <<live, records, lock, pc, job, seen, ledger, tangled>>
vars         == <<engineVars, executorVars>>

Jobs == [proposal : Proposals, mutation : Mutations]

Record == [proposal : Proposals, mutation : Mutations, status : {"applied", "reverted"},
           before : UNION {[DOMAIN m -> Contents \cup {None}] : m \in Mutations}]

EvolutionTypeOK ==
    /\ status \in [Proposals -> {"unknown", "proposed", "running", "adopted", "rejected"}]
    /\ gains \in [Proposals -> BOOLEAN]
    /\ adoptedAt \in [Proposals -> BOOLEAN]
    /\ live \in [Places -> Contents \cup {None}]
    /\ records \in Seq(Record) /\ Len(records) <= MaxRecords
    /\ pc \in [Callers -> {"idle", "policy", "apply", "write", "ledger"}]
    /\ \A c \in Callers : /\ pc[c] # "idle" => job[c] \in Jobs
                          /\ pc[c] = "write" => seen[c] \in Contents \cup {None}
                          /\ pc[c] = "ledger" => seen[c] \in 1..Len(records)
                          /\ lock = c <=> pc[c] = "write"
    /\ ledger \in Seq([mutation : 1..MaxRecords, event : {"applied", "reverted"}])
    /\ tangled \subseteq Places

Init ==
    /\ status = [p \in Proposals |-> "unknown"]
    /\ gains = [p \in Proposals |-> FALSE]
    /\ adoptedAt = [p \in Proposals |-> FALSE]
    /\ live = [s \in Places |-> None]
    /\ records = <<>>
    /\ lock = None
    /\ pc = [c \in Callers |-> "idle"]
    /\ job = [c \in Callers |-> None]
    /\ seen = [c \in Callers |-> None]
    /\ ledger = <<>>
    /\ tangled = {}

-----------------------------------------------------------------------------
(* Proposals.                                                              *)

Propose(p) ==
    /\ status[p] = "unknown"
    /\ status' = [status EXCEPT ![p] = "proposed"]
    /\ UNCHANGED <<gains, adoptedAt, executorVars>>

\* evaluate(), whatever became of the proposal before.  The measurement is the
\* client's; whether its positive deltas add up to min_gain is what counts.
Evaluate(p, g) ==
    /\ status[p] # "unknown"
    /\ status' = [status EXCEPT ![p] = "running"]
    /\ gains' = [gains EXCEPT ![p] = g]
    /\ UNCHANGED <<adoptedAt, executorVars>>

AdoptIfGain(p) ==
    /\ status[p] = "running"
    /\ status' = [status EXCEPT ![p] = IF gains[p] THEN "adopted" ELSE "rejected"]
    /\ adoptedAt' = [adoptedAt EXCEPT ![p] = @ \/ gains[p]]
    /\ UNCHANGED <<gains, executorVars>>

-----------------------------------------------------------------------------
(* apply()                                                                 *)

At(c, here)    == pc[c] = here
Goto(c, there) == pc' = [pc EXCEPT ![c] = there]
Ready          == lock = None

Measured(p)   == status[p] \in {"running", "adopted"}                 \* mutant
Adoptable(p)  == status[p] = "adopted"

Check(c, p, m) ==
    /\ At(c, "idle") /\ Goto(c, "policy")
    /\ Len(records) + Cardinality({d \in Callers : pc[d] \in {"policy", "apply", "write"}})
          < MaxRecords
    /\ Adoptable(p)
    /\ job' = [job EXCEPT ![c] = [proposal |-> p, mutation |-> m]]
    /\ UNCHANGED <<engineVars, live, records, lock, seen, ledger, tangled>>

\* Denied is a PermissionError.
AskPolicy(c) ==
    /\ At(c, "policy")
    /\ Goto(c, "apply") \/ Goto(c, "idle")
    /\ UNCHANGED <<engineVars, live, records, lock, job, seen, ledger, tangled>>

BeforeAfterSet(m) == m                                                \* mutant
Before(m)         == [s \in DOMAIN m |-> live[s]]

\* What the places hold once those of m have got its contents.
Set(m) == [s \in Places |-> IF s \in DOMAIN m THEN m[s] ELSE live[s]]

\* The places of m get its contents and the record keeps what they held.
Mutate(c, before) ==
    LET m == job[c].mutation IN
    /\ live' = Set(m)
    /\ records' = Append(records, [proposal |-> job[c].proposal, mutation |-> m,
                                   status |-> "applied", before |-> before])
    /\ seen' = [seen EXCEPT ![c] = Len(records) + 1]
    /\ Goto(c, "ledger")

ApplyConfig(c) ==
    /\ At(c, "apply") /\ Ready
    /\ DOMAIN job[c].mutation \subseteq ConfigPaths
    /\ Mutate(c, Before(job[c].mutation))
    /\ UNCHANGED <<engineVars, lock, job, ledger, tangled>>

\* branch() raises if there is such a branch already, or nothing to branch from.
ApplyLayout(c) ==
    /\ At(c, "apply") /\ Ready
    /\ IsLayout(job[c].mutation)
    /\ \/ /\ \A s \in DOMAIN job[c].mutation : live[s] = None
          /\ Mutate(c, Before(job[c].mutation))
       \/ Goto(c, "idle") /\ UNCHANGED <<live, records, seen>>
    /\ UNCHANGED <<engineVars, lock, job, ledger, tangled>>


\* The memory is read and then written; the executor's lock is held, but agents
\* write to the memory without it.
ReadPrompt(c) ==
    /\ At(c, "apply") /\ Ready /\ Goto(c, "write")
    /\ IsPrompt(job[c].mutation)
    /\ \E s \in DOMAIN job[c].mutation : seen' = [seen EXCEPT ![c] = live[s]]
    /\ lock' = c
    /\ UNCHANGED <<engineVars, live, records, job, ledger, tangled>>

WritePrompt(c) ==
    /\ At(c, "write")
    /\ Mutate(c, [s \in DOMAIN job[c].mutation |-> seen[c]])
    /\ lock' = None
    /\ UNCHANGED <<engineVars, job, ledger, tangled>>

Entry(i) == <<[mutation |-> i, event |-> records[i].status]>>

\* The event is named after the record's status now that the lock is released.
RecordInLedger(c) ==
    /\ At(c, "ledger") /\ Goto(c, "idle")
    /\ ledger' = ledger \o Entry(seen[c])
    /\ job' = [job EXCEPT ![c] = None]
    /\ seen' = [seen EXCEPT ![c] = None]
    /\ UNCHANGED <<engineVars, live, records, lock, tangled>>

-----------------------------------------------------------------------------
(* revert()                                                                *)

Touches(i, s) == s \in DOMAIN records[i].mutation
Applied(i)    == records[i].status = "applied"

\* The places a later mutation, still applied, has written since.
Overwritten(i) ==
    {s \in DOMAIN records[i].mutation :
        \E j \in i + 1 .. Len(records) : Applied(j) /\ Touches(j, s)}

Revert(i) ==
    /\ Ready
    /\ i \in 1..Len(records) /\ Applied(i)
    /\ records' = [records EXCEPT ![i].status = "reverted"]
    /\ IF Revertible(records[i].mutation)
       THEN /\ live' = Set(records[i].before)
            /\ tangled' = tangled \cup Overwritten(i)
       ELSE UNCHANGED <<live, tangled>>
    /\ UNCHANGED <<engineVars, lock, pc, job, seen, ledger>>

\* An agent writes a prompt template of its own.
AgentWrites(s, x) ==
    /\ live' = [live EXCEPT ![s] = x]
    /\ tangled' = tangled \cup {s}
    /\ UNCHANGED <<engineVars, records, lock, pc, job, seen, ledger>>

ApplyStep(c) ==
    \/ \E p \in Proposals, m \in Mutations : Check(c, p, m)
    \/ AskPolicy(c) \/ ApplyConfig(c) \/ ApplyLayout(c)
    \/ ReadPrompt(c) \/ WritePrompt(c) \/ RecordInLedger(c)

Next ==
    \/ \E p \in Proposals : \/ Propose(p) \/ AdoptIfGain(p)
                            \/ \E g \in BOOLEAN : Evaluate(p, g)
    \/ \E c \in Callers : ApplyStep(c)
    \/ \E i \in 1..MaxRecords : Revert(i)
    \/ \E s \in Prompts, x \in Contents : AgentWrites(s, x)

Spec == Init /\ [][Next]_vars

-----------------------------------------------------------------------------
(* Properties.                                                             *)

\* "A proposal must be adopted before it may be applied" (executor.py 11) and is
\* adopted "ONLY" with a measurable gain (engine.py 4): however evaluate() and
\* apply() interleave, a proposal behind a mutation was adopted before, and one
\* that counts as adopted has its gain.
AppliedOnGain ==
    /\ \A i \in 1..Len(records) : adoptedAt[records[i].proposal]
    /\ \A p \in Proposals : status[p] = "adopted" => gains[p]

\* Mutations and reverts nest: where nobody reverted out of order and no agent
\* wrote, a place holds what the latest mutation still applied put there, and
\* nothing if there is none (executor.py 127-149, 184-198).
LatestApplied(s) == {i \in 1..Len(records) :
                        /\ Applied(i) /\ Touches(i, s)
                        /\ \A j \in i + 1 .. Len(records) : ~(Applied(j) /\ Touches(j, s))}
InOrderRestores ==
    \A s \in (ConfigPaths \cup Prompts) \ tangled :
        live[s] = IF LatestApplied(s) = {} THEN None
                  ELSE records[CHOOSE i \in LatestApplied(s) : TRUE].mutation[s]

\* "Every mutation is recorded in the ReplayLedger" (executor.py 13), once, as
\* soon as its apply() is over, also when it was reverted before that.
EveryMutationLedgered ==
    \A i \in 1..Len(records) :
        Cardinality({k \in 1..Len(ledger) : ledger[k].mutation = i}) =
            IF \E c \in Callers : pc[c] = "ledger" /\ seen[c] = i THEN 0 ELSE 1

\* The state is well typed, every mutation rests on an adopted proposal with a gain
\* (executor.py 98-101) and stands in the ledger once (114-122).
EvolutionInv == EvolutionTypeOK /\ AppliedOnGain /\ EveryMutationLedgered
=============================================================================
