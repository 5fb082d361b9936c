----------------------------- MODULE PolicyEngine -----------------------------
(***************************************************************************)
(* The policy engine of omni/policy/engine.py: deny-before-allow rules     *)
(* with default deny, a risk gate, rolling-window limits, approvals and an *)
(* emergency lockdown.  Each method holds the engine's lock from its first *)
(* line to its last, so each is one step; rules, limits, approvals and the *)
(* lockdown change between the steps of other callers.                     *)
(*                                                                         *)
(* What a rule matches is in PolicyRules.  Risk levels are 0 (low) to 3    *)
(* (critical).                                                             *)
(***************************************************************************)
EXTENDS PolicyRules

CONSTANTS
    Scenes,       \* bounds: what a behaviour is about, [seed, requests, rules, limits, log]:
                  \* the rules __init__() is given, evaluate()'s arguments, and how many
                  \* rules, limits and log entries there may be
    RuleBook,     \* rules an administrator may add
    LimitBook,    \* limits an administrator may add, each with an id of its own
    Roles,        \* the roles an approver may claim
    MaxClock      \* bound

Requests == UNION {k.requests : k \in Scenes}
Rules    == RuleBook \cup UNION {ToSet(k.seed) : k \in Scenes}

ASSUME PolicyBounds ==
    /\ \A k \in Scenes : /\ {k.rules, k.limits, k.log} \subseteq Nat
                         /\ k.seed \in Seq(Rules) /\ Len(k.seed) <= k.rules
    /\ \A r \in Rules : /\ r.priority \in Int /\ r.gate \in {NoMax} \cup 0..3
                        /\ \A c \in r.conditions : WellFormed(c)
    /\ \A q \in Requests : q.cost \in Int /\ q.calls \in Int
    /\ \A l \in LimitBook : l.window \in Nat /\ {l.maxCost, l.maxCalls} \subseteq Int \cup {NoMax}
    /\ MaxClock \in Nat

VARIABLES
    scene,      \* what this behaviour is about, for good
    now,        \* the clock
    rules,      \* _rules, in the order they were added
    limits,     \* _limits
    lockdown,   \* _lockdown
    log,        \* _decisions, the append-only decision log
    pendings,   \* _pendings: decisions waiting for an approval
    usage       \* _usage: the charges; only sums are taken over the list

vars == <<scene, now, rules, limits, lockdown, log, pendings, usage>>

Why == {"lockdown", "denied", "default", "risk", "limit", "pending",
        "allowed", "approved", "rejected"}
Allowing == {"allowed", "approved"}

\* rule is the position of the rule a decision names, 0 for none.
Decision == [id : Nat, req : Requests, why : Why, rule : Nat, at : 0..MaxClock]

\* Whom a charge may be for.
Names == {"*"} \cup UNION {{q.principal} \cup q.groups : q \in Requests}

\* charged tells the charges of different decisions apart.
Charge == [charged : Nat, at : 0..MaxClock, scope : {"GLOBAL", "PRINCIPAL", "GROUP"} \X Names,
           cost : Int, calls : Int]

PolicyTypeOK ==
    /\ scene \in Scenes
    /\ now \in 0..MaxClock
    /\ rules \in Seq(Rules) /\ Len(rules) <= scene.rules
    /\ limits \in Seq(LimitBook) /\ Len(limits) <= scene.limits
    /\ lockdown \in BOOLEAN
    /\ log \in Seq(Decision) /\ Len(log) <= scene.log
    /\ \A i \in 1..Len(log) : log[i].id <= i /\ log[i].rule <= Len(rules)
    /\ pendings \subseteq {i \in 1..Len(log) : log[i].why = "pending"}
    /\ usage \subseteq Charge

Init ==
    /\ scene \in Scenes
    /\ now = 0
    /\ rules = scene.seed
    /\ limits = <<>>
    /\ lockdown = FALSE
    /\ log = <<>>
    /\ pendings = {}
    /\ usage = {}

-----------------------------------------------------------------------------
(* Setup.                                                                  *)

AddRule(r) ==
    /\ Len(rules) < scene.rules
    /\ rules' = Append(rules, r)
    /\ UNCHANGED <<scene, now, limits, lockdown, log, pendings, usage>>

AddLimit(l) ==
    /\ Len(limits) < scene.limits
    /\ limits' = Append(limits, l)
    /\ UNCHANGED <<scene, now, rules, lockdown, log, pendings, usage>>

SetLockdown(enabled) ==
    /\ lockdown' = enabled
    /\ UNCHANGED <<scene, now, rules, limits, log, pendings, usage>>

-----------------------------------------------------------------------------
(* Matching.                                                               *)

Matching(q, effect) ==
    {i \in 1..Len(rules) : rules[i].effect = effect /\ RuleMatches(rules[i], q)}

\* Stable sort by descending priority: the first of the highest.
FirstRule(S) ==
    CHOOSE i \in S : \A j \in S : \/ rules[i].priority > rules[j].priority
                                  \/ rules[i].priority = rules[j].priority /\ i <= j

-----------------------------------------------------------------------------
(* Limits.                                                                 *)

\* The (scope, value) pairs an allowed request is charged under.
ChargedScopes(q) ==
    {<<"GLOBAL", "*">>, <<"PRINCIPAL", q.principal>>} \cup {<<"GROUP", g>> : g \in q.groups}

\* The pairs _check_limits() looks at: its comprehension also yields (g, g) for
\* each group, under which nothing is ever charged.
Scopes(q) == ChargedScopes(q) \cup {<<g, g>> : g \in q.groups}

Applies(l, s) == l.scope = s[1] /\ l.value \in {"*", s[2]}

Recent(l, s)    == {c \in usage : c.scope = s /\ now - c.at <= l.window}
UsedCost(l, s)  == SumFunction([c \in Recent(l, s) |-> c.cost])
UsedCalls(l, s) == SumFunction([c \in Recent(l, s) |-> c.calls])

Over(used, more, max) == max # NoMax /\ used + more > max

\* _check_limits(): within every limit that applies under some scope.
WithinLimits(q) ==
    \A k \in 1..Len(limits) : \A s \in Scopes(q) : Applies(limits[k], s) =>
        /\ ~Over(UsedCost(limits[k], s), q.cost, limits[k].maxCost)
        /\ ~Over(UsedCalls(limits[k], s), q.calls, limits[k].maxCalls)

ChargeGlobally(q, id) ==                                              \* mutant
    {[charged |-> id, at |-> now, scope |-> <<"GLOBAL", "*">>,
      cost |-> q.cost, calls |-> q.calls]}

\* _record_usage(): one charge per group, one for the principal, one global.
Charges(q, id) ==
    IF q.cost <= 0 /\ q.calls <= 0 THEN {}
    ELSE {[charged |-> id, at |-> now, scope |-> s, cost |-> q.cost, calls |-> q.calls] :
              s \in ChargedScopes(q)}

-----------------------------------------------------------------------------
(* Decisions.                                                              *)

NewId         == Len(log) + 1

Log(id, q, why, rule, at) ==
    log' = Append(log, [id |-> id, req |-> q, why |-> why, rule |-> rule, at |-> at])

\* risk_at_least(): the gate closes at the rule's own level.
GateCloses(r, q) == r.gate # NoMax /\ Risk(q) >= r.gate

NeedsApproval(r, q) == r.approval /\ "approval.exempt" \notin q.roles

LockedOut(q) == lockdown /\ "system.admin" \notin q.roles

\* What evaluate() decides and the rule it names, in the order of its returns.
Verdict(q) ==
    LET deny  == Matching(q, "DENY")
        allow == Matching(q, "ALLOW")
        i     == FirstRule(allow)
    IN  IF LockedOut(q) THEN [why |-> "lockdown", rule |-> 0]
        ELSE IF deny # {} THEN [why |-> "denied", rule |-> FirstRule(deny)]
        ELSE IF allow = {} THEN [why |-> "default", rule |-> 0]
        ELSE [rule |-> i,
              why  |-> IF GateCloses(rules[i], q) THEN "risk"
                       ELSE IF ~WithinLimits(q) THEN "limit"
                       ELSE IF NeedsApproval(rules[i], q) THEN "pending"
                       ELSE "allowed"]

Evaluate(q) ==
    /\ Len(log) < scene.log
    /\ LET v == Verdict(q) IN
        /\ Log(NewId, q, v.why, v.rule, now)
        /\ pendings' = IF v.why = "pending" THEN pendings \cup {NewId} ELSE pendings
        /\ usage' = IF v.why = "allowed" THEN usage \cup Charges(q, NewId) ELSE usage
    /\ UNCHANGED <<scene, now, rules, limits, lockdown>>

MayApprove(id, role) == role \in rules[log[id].rule].approvers

KeepPending(id) == pendings                                           \* mutant
Settled(id)     == pendings \ {id}

\* approve(): a wrong role logs a rejected copy and leaves the request pending;
\* a right one logs an allowed copy.  The copies keep the request's decision id
\* and its time.  Rules, limits, lockdown and usage are not looked at.
Approve(id, role) ==
    /\ Len(log) < scene.log
    /\ id \in pendings
    /\ IF MayApprove(id, role)
       THEN /\ Log(id, log[id].req, "approved", log[id].rule, log[id].at)
            /\ pendings' = Settled(id)
       ELSE /\ Log(id, log[id].req, "rejected", log[id].rule, log[id].at)
            /\ UNCHANGED pendings
    /\ UNCHANGED <<scene, now, rules, limits, lockdown, usage>>

Tick == now < MaxClock /\ now' = now + 1
        /\ UNCHANGED <<scene, rules, limits, lockdown, log, pendings, usage>>

Next ==
    \/ \E r \in RuleBook : AddRule(r)
    \/ \E l \in LimitBook : AddLimit(l)
    \/ \E b \in BOOLEAN : SetLockdown(b)
    \/ \E q \in scene.requests : Evaluate(q)
    \/ \E id \in pendings, role \in Roles : Approve(id, role)
    \/ Tick

Spec == Init /\ [][Next]_vars

-----------------------------------------------------------------------------
(* Properties.                                                             *)

\* The calls and cost of the requests evaluate() allowed that count under scope
\* s and fall into the window of limit l, read off the decision log.
InWindow(l, s) ==
    {i \in 1..Len(log) : /\ log[i].why = "allowed" /\ now - log[i].at <= l.window
                         /\ s \in ChargedScopes(log[i].req)}
LoggedCalls(l, s) == SumFunction([i \in InWindow(l, s) |-> log[i].req.calls])
LoggedCost(l, s)  == SumFunction([i \in InWindow(l, s) |-> log[i].req.cost])

Fits(sum, max) == max # NoMax => sum <= max

Latest == log[Len(log)]

\* Whenever evaluate() allows a request, the allowed requests of the decision
\* log that fall into the window of any limit in force, counted per principal,
\* per group and globally, are within that limit: the usage list agrees with
\* the audit trail under every scope a limit can look at (9-10, 307-350).
LimitsHold ==
    [][log' # log /\ Latest'.why = "allowed" =>
          \A k \in 1..Len(limits) : \A s \in ChargedScopes(Latest'.req) :
              Applies(limits[k], s) =>
                  /\ Fits(LoggedCalls(limits[k], s)', limits[k].maxCalls)
                  /\ Fits(LoggedCost(limits[k], s)', limits[k].maxCost)]_vars

\* The approval dict and the decision log tell the same story: what waits is
\* what was logged as pending and not approved since, and no pending decision
\* is approved twice, whatever rejections, rules or lockdowns come in between
\* (247-248, 265-286).
ApprovalsSettleOnce ==
    /\ pendings = {i \in 1..Len(log) : log[i].why = "pending"}
                     \ {log[j].id : j \in {i \in 1..Len(log) : log[i].why = "approved"}}
    /\ \A i, j \in 1..Len(log) :
          log[i].why = "approved" /\ log[j].why = "approved" /\ log[i].id = log[j].id => i = j

\* The engine's state is well typed, and the pending dict and the log agree on what
\* has been approved (247-286).
PolicyInv == PolicyTypeOK /\ ApprovalsSettleOnce

AtMostLevel(c) == c.field = <<"resource", "risk_level">> /\ c.op = "lte" /\ IsLevel(c.value)

\* Every decision that lets something happen names an ALLOW rule that covers the
\* request, at a risk below the rule's gate and within the level its conditions
\* name, by severity; if that rule requires approval, the principal is exempt or
\* the decision was pending before (56-104, 195-248, 277-286).
AllowsAreJustified ==
    \A i \in 1..Len(log) : log[i].why \in Allowing =>
        LET q == log[i].req IN
        \E r \in {rules[k] : k \in {log[i].rule} \ {0}} :
            /\ r.effect = "ALLOW" /\ RuleMatches(r, q)
            /\ r.gate # NoMax => Risk(q) < r.gate
            /\ \A c \in r.conditions : AtMostLevel(c) => Risk(q) <= Severity(c.value)
            /\ \/ log[i].why = "allowed" /\ (r.approval => "approval.exempt" \in q.roles)
               \/ /\ log[i].why = "approved"
                  /\ \E j \in 1..i-1 : log[j].id = log[i].id /\ log[j].why = "pending"

\* "Lockdown: emergency switch that denies all non-system.admin actions"
\* (ARCHITECTURE.md 161): while it is on, nothing a principal without that role
\* asked for is let through.
LockdownDenies ==
    [][log' # log /\ lockdown /\ "system.admin" \notin Latest'.req.roles =>
          Latest'.why \notin Allowing]_vars

=============================================================================
