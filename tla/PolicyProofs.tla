------------------------------ MODULE PolicyProofs ------------------------------
(***************************************************************************)
(* What holds of the policy engine under any rules, limits, requests and   *)
(* approvers.                                                              *)
(***************************************************************************)
EXTENDS PolicyEngine, FiniteOrders

\* The rule lets the request through, but for limits and approvals.
Lets(r, q) ==
    /\ r.effect = "ALLOW" /\ RuleMatches(r, q)
    /\ r.gate # NoMax => Risk(q) < r.gate
    /\ \A c \in r.conditions : AtMostLevel(c) => Risk(q) <= Severity(c.value)

\* A decision that waits for approval is the one the dict knows by its number, and
\* names a rule that would let the request through.
PendingJustified ==
    \A i \in 1..Len(log) : log[i].why = "pending" =>
        log[i].id = i /\ log[i].rule # 0 /\ Lets(rules[log[i].rule], log[i].req)

EngineInv == /\ PolicyTypeOK /\ ApprovalsSettleOnce
             /\ PendingJustified /\ AllowsAreJustified

-----------------------------------------------------------------------------
(* The language of the rules.                                              *)

\* Levels are numbers from 0 to 3.
LEMMA Severities ==
    ASSUME NEW v, IsLevel(v)
    PROVE  Severity(v) \in 0..3
<1>1. \E i \in 1..4 : RiskLevels[i] = v.value
  BY DEF IsLevel, Contains, RiskLevels
<1>2. DOMAIN RiskLevels = 1..4
  BY DEF RiskLevels
<1>3. Place(RiskLevels, v.value) \in 1..4
  BY <1>1, <1>2 DEF Place
<1>. QED
  BY <1>3 DEF Severity

\* The risk of a request is a number from 0 to 3, whatever its resource says.
LEMMA Risks ==
    ASSUME NEW q
    PROVE  Risk(q) \in 0..3
BY Severities DEF Risk

\* A condition that the risk be at most a level holds by severity, also of a request
\* whose level is missing or unknown: those count as low.
LEMMA AtMostBounds ==
    ASSUME NEW c, NEW q, AtMostLevel(c), Holds(c, q)
    PROVE  Risk(q) <= Severity(c.value)
<1>. DEFINE a == Lookup(q, <<"resource", "risk_level">>)
<1>1. Severity(c.value) \in 0..3
  BY Severities DEF AtMostLevel
<1>2. CASE IsLevel(a)
  <2>1. Risk(q) = Severity(a) /\ Severity(a) \in 0..3
    BY <1>2, Severities DEF Risk
  <2>2. Order(a, c.value) <= 0
    <3>. HIDE DEF a
    <3>1. Lookup(q, c.field) = a
      BY DEF AtMostLevel, a
    <3>. QED
      BY <3>1 DEF Holds, AtMostLevel
  <2>3. Order(a, c.value) = Severity(a) - Severity(c.value)
    <3>. HIDE DEF a
    <3>. QED
      BY <1>2 DEF Order, Rank, IsLevel, AtMostLevel
  <2>. QED
    BY <1>1, <2>1, <2>2, <2>3
<1>3. CASE ~IsLevel(a)
  BY <1>1, <1>3 DEF Risk
<1>. QED
  BY <1>2, <1>3

\* A rule that matches and whose gate stays open lets the request through.
LEMMA MatchingLets ==
    ASSUME NEW r, NEW q, r.effect = "ALLOW", RuleMatches(r, q), ~GateCloses(r, q),
           r.gate # NoMax => r.gate \in Int
    PROVE  Lets(r, q)
<1>1. Risk(q) \in 0..3
  BY Risks
<1>2. \A c \in r.conditions : AtMostLevel(c) => Risk(q) <= Severity(c.value)
  BY AtMostBounds DEF RuleMatches
<1>. QED
  BY <1>1, <1>2 DEF Lets, GateCloses

-----------------------------------------------------------------------------
(* What evaluate() decides.                                                *)

\* Of rules that match, one comes first.
LEMMA FirstRuleIsOne ==
    ASSUME PolicyTypeOK, NEW S \in SUBSET (1..Len(rules)), S # {}
    PROVE  FirstRule(S) \in S
<1>. DEFINE Before(i, j) == \/ rules[i].priority > rules[j].priority
                            \/ rules[i].priority = rules[j].priority /\ i <= j
            R == {p \in S \X S : Before(p[1], p[2])}
<1>1. Len(rules) \in Nat /\ \A i \in S : i \in Nat /\ rules[i].priority \in Int
  BY PolicyBounds DEF PolicyTypeOK
<1>2. IsFiniteSet(S)
  <2>1. IsFiniteSet(1..Len(rules))
    BY <1>1, FS_Interval
  <2>. QED
    BY <2>1, FS_Subset
<1>3. \A i, j \in S : i = j \/ <<i, j>> \in R \/ <<j, i>> \in R
  BY <1>1
<1>4. \A i, j, k \in S : <<i, j>> \in R /\ <<j, k>> \in R => <<i, k>> \in R
  BY <1>1
<1>5. PICK m \in S : \A j \in S \ {m} : <<m, j>> \in R
  <2>. HIDE DEF R
  <2>. QED
    BY <1>2, <1>3, <1>4, FirstInOrder
<1>6. ASSUME NEW j \in S PROVE Before(m, j)
  <2>1. CASE j = m
    BY <1>1, <2>1
  <2>2. CASE j # m
    BY <1>5, <2>2
  <2>. QED
    BY <2>1, <2>2
<1>. QED
  BY <1>6 DEF FirstRule

\* What evaluate() decides names a rule that is there, and lets through or parks only
\* what that rule lets through.
LEMMA VerdictFacts ==
    ASSUME PolicyTypeOK, NEW q
    PROVE  /\ Verdict(q).why \in Why /\ Verdict(q).rule \in 0..Len(rules)
           /\ Verdict(q).why \in {"allowed", "pending"} =>
                 Verdict(q).rule # 0 /\ Lets(rules[Verdict(q).rule], q)
           /\ Verdict(q).why = "allowed" => ~NeedsApproval(rules[Verdict(q).rule], q)
           /\ Verdict(q).why \notin {"approved", "rejected"}
<1>. DEFINE deny  == Matching(q, "DENY")
            allow == Matching(q, "ALLOW")
            i     == FirstRule(allow)
<1>1. deny \in SUBSET (1..Len(rules)) /\ allow \in SUBSET (1..Len(rules)) /\ Len(rules) \in Nat
  BY DEF Matching, PolicyTypeOK
<1>2. deny # {} => FirstRule(deny) \in 1..Len(rules)
  BY <1>1, FirstRuleIsOne
<1>3. allow # {} => i \in 1..Len(rules) /\ i \in allow
  BY <1>1, FirstRuleIsOne
<1>4. i \in allow => rules[i].effect = "ALLOW" /\ RuleMatches(rules[i], q)
  BY DEF Matching
<1>5. i \in allow /\ ~GateCloses(rules[i], q) => Lets(rules[i], q)
  <2>1. i \in allow => rules[i] \in Rules
    BY <1>1 DEF PolicyTypeOK
  <2>. QED
    BY <1>4, <2>1, MatchingLets, PolicyBounds
<1>. HIDE DEF deny, allow, i
<1>6. Verdict(q) = IF LockedOut(q) THEN [why |-> "lockdown", rule |-> 0]
                   ELSE IF deny # {} THEN [why |-> "denied", rule |-> FirstRule(deny)]
                   ELSE IF allow = {} THEN [why |-> "default", rule |-> 0]
                   ELSE [rule |-> i,
                         why  |-> IF GateCloses(rules[i], q) THEN "risk"
                                  ELSE IF ~WithinLimits(q) THEN "limit"
                                  ELSE IF NeedsApproval(rules[i], q) THEN "pending"
                                  ELSE "allowed"]
  BY DEF Verdict, deny, allow, i
<1>. QED
  BY <1>1, <1>2, <1>3, <1>5, <1>6 DEF Why

-----------------------------------------------------------------------------
(* Every step keeps the engine's state and its log in agreement.           *)

\* The justification of an entry of the log, as AllowsAreJustified states it.
Justified(i) ==
    /\ log[i].rule # 0 /\ Lets(rules[log[i].rule], log[i].req)
    /\ \/ /\ log[i].why = "allowed"
          /\ rules[log[i].rule].approval => "approval.exempt" \in log[i].req.roles
       \/ /\ log[i].why = "approved"
          /\ \E j \in 1..i-1 : log[j].id = log[i].id /\ log[j].why = "pending"

\* Justified() is what AllowsAreJustified asks of an entry.
LEMMA JustifiedMeans ==
    AllowsAreJustified <=> \A i \in 1..Len(log) : log[i].why \in Allowing => Justified(i)
<1>1. ASSUME NEW i \in 1..Len(log), log[i].why \in Allowing
      PROVE  Justified(i) <=>
               \E r \in {rules[k] : k \in {log[i].rule} \ {0}} :
                 /\ r.effect = "ALLOW" /\ RuleMatches(r, log[i].req)
                 /\ r.gate # NoMax => Risk(log[i].req) < r.gate
                 /\ \A c \in r.conditions : AtMostLevel(c) => Risk(log[i].req) <= Severity(c.value)
                 /\ \/ log[i].why = "allowed" /\ (r.approval => "approval.exempt" \in log[i].req.roles)
                    \/ /\ log[i].why = "approved"
                       /\ \E j \in 1..i-1 : log[j].id = log[i].id /\ log[j].why = "pending"
  <2>1. log[i].rule # 0 => {rules[k] : k \in {log[i].rule} \ {0}} = {rules[log[i].rule]}
    OBVIOUS
  <2>2. log[i].rule = 0 => {rules[k] : k \in {log[i].rule} \ {0}} = {}
    OBVIOUS
  <2>. QED
    BY <2>1, <2>2 DEF Justified, Lets
<1>. QED
  BY <1>1 DEF AllowsAreJustified

\* What has been logged stays as it is, and rules are only added behind the others.
LEMMA LogGrows ==
    ASSUME EngineInv, NEW d \in Decision, log' = Append(log, d)
    PROVE  /\ Len(log) \in Nat /\ Len(log') = Len(log) + 1 /\ log' \in Seq(Decision)
           /\ \A i \in 1..Len(log) : log'[i] = log[i]
           /\ log'[Len(log) + 1] = d
           /\ \A i \in 1..Len(log') : i \in 1..Len(log) \/ i = Len(log) + 1
<1>1. log \in Seq(Decision)
  BY DEF EngineInv, PolicyTypeOK
<1>. QED
  BY <1>1

\* Setting rules, limits and the lockdown, and time, leave the log and what waits alone.
LEMMA SetupKeeps ==
    ASSUME EngineInv,
           \/ \E r \in RuleBook : AddRule(r)
           \/ \E l \in LimitBook : AddLimit(l)
           \/ \E b \in BOOLEAN : SetLockdown(b)
           \/ Tick
           \/ UNCHANGED vars
    PROVE  EngineInv'
<1>1. UNCHANGED <<scene, log, pendings, usage>>
  BY DEF AddRule, AddLimit, SetLockdown, Tick, vars
<1>2. PolicyTypeOK
  BY DEF EngineInv
<1>3. /\ rules' \in Seq(Rules) /\ Len(rules') <= scene.rules /\ Len(rules) <= Len(rules')
      /\ \A i \in 1..Len(rules) : rules'[i] = rules[i]
  <2>1. CASE rules' = rules
    BY <1>2, <2>1 DEF PolicyTypeOK
  <2>2. ASSUME NEW r \in RuleBook, AddRule(r)
        PROVE  /\ rules' \in Seq(Rules) /\ Len(rules') <= scene.rules /\ Len(rules) <= Len(rules')
               /\ \A i \in 1..Len(rules) : rules'[i] = rules[i]
    <3>1. r \in Rules /\ rules \in Seq(Rules) /\ scene.rules \in Nat
      BY <1>2, PolicyBounds DEF Rules, PolicyTypeOK
    <3>2. rules' = Append(rules, r) /\ Len(rules) < scene.rules
      BY <2>2 DEF AddRule
    <3>. QED
      BY <3>1, <3>2
  <2>. QED
    BY <2>1, <2>2 DEF AddLimit, SetLockdown, Tick, vars
<1>4. limits' \in Seq(LimitBook) /\ Len(limits') <= scene.limits
  <2>1. CASE limits' = limits
    BY <1>2, <2>1 DEF PolicyTypeOK
  <2>2. ASSUME NEW l \in LimitBook, AddLimit(l)
        PROVE  limits' \in Seq(LimitBook) /\ Len(limits') <= scene.limits
    <3>1. limits \in Seq(LimitBook) /\ scene.limits \in Nat
      BY <1>2, PolicyBounds DEF PolicyTypeOK
    <3>2. limits' = Append(limits, l) /\ Len(limits) < scene.limits
      BY <2>2 DEF AddLimit
    <3>. QED
      BY <3>1, <3>2
  <2>. QED
    BY <2>1, <2>2 DEF AddRule, SetLockdown, Tick, vars
<1>5. now' \in 0..MaxClock /\ lockdown' \in BOOLEAN
  <2>1. now \in 0..MaxClock /\ lockdown \in BOOLEAN /\ MaxClock \in Nat
    BY <1>2, PolicyBounds DEF PolicyTypeOK
  <2>2. now' \in 0..MaxClock
    BY <2>1 DEF AddRule, AddLimit, SetLockdown, Tick, vars
  <2>3. lockdown' \in BOOLEAN
    BY <2>1 DEF AddRule, AddLimit, SetLockdown, Tick, vars
  <2>. QED
    BY <2>2, <2>3
<1>6. \A i \in 1..Len(log) : /\ log[i].id <= i /\ log[i].rule <= Len(rules)
                             /\ log[i].rule \in Nat
  <2>1. \A i \in 1..Len(log) : log[i] \in Decision
    BY <1>2 DEF PolicyTypeOK
  <2>. QED
    BY <1>2, <2>1 DEF PolicyTypeOK, Decision
<1>7. \A i \in 1..Len(log) : log[i].rule <= Len(rules')
  <2>1. Len(rules) \in Nat /\ Len(rules') \in Nat
    BY <1>2, <1>3 DEF PolicyTypeOK
  <2>. QED
    BY <1>3, <1>6, <2>1
<1>8. PolicyTypeOK'
  BY <1>1, <1>2, <1>3, <1>4, <1>5, <1>6, <1>7 DEF PolicyTypeOK
<1>9. \A i \in 1..Len(log) : log[i].rule # 0 => rules'[log[i].rule] = rules[log[i].rule]
  <2>1. \A i \in 1..Len(log) : log[i].rule # 0 => log[i].rule \in 1..Len(rules)
    <3>1. Len(rules) \in Nat
      BY <1>2 DEF PolicyTypeOK
    <3>. QED
      BY <1>6, <3>1
  <2>. QED
    BY <1>3, <2>1
<1>10. ApprovalsSettleOnce'
  BY <1>1 DEF EngineInv, ApprovalsSettleOnce
<1>11. PendingJustified'
  BY <1>1, <1>9 DEF EngineInv, PendingJustified
<1>12. AllowsAreJustified'
  <2>1. \A i \in 1..Len(log) : Justified(i) => Justified(i)'
    BY <1>1, <1>9 DEF Justified
  <2>2. \A i \in 1..Len(log) : log[i].why \in Allowing => Justified(i)
    BY JustifiedMeans DEF EngineInv
  <2>3. (\A i \in 1..Len(log) : log[i].why \in Allowing => Justified(i))'
    BY <1>1, <2>1, <2>2
  <2>. QED
    BY <2>3, JustifiedMeans, PTL
<1>. QED
  BY <1>8, <1>10, <1>11, <1>12 DEF EngineInv

\* A decision of evaluate() gets the number of its place in the log.
LEMMA EvaluateKeeps ==
    ASSUME EngineInv, NEW q \in scene.requests, Evaluate(q)
    PROVE  EngineInv'
<1>1. PICK n, v : n = Len(log) + 1 /\ v = Verdict(q)
  OBVIOUS
<1>2. PolicyTypeOK /\ scene \in Scenes /\ now \in 0..MaxClock
  BY DEF EngineInv, PolicyTypeOK
<1>3. q \in Requests
  BY <1>2 DEF Requests
<1>4. /\ v.why \in Why \ {"approved", "rejected"} /\ v.rule \in 0..Len(rules)
      /\ v.why \in {"allowed", "pending"} => v.rule # 0 /\ Lets(rules[v.rule], q)
      /\ v.why = "allowed" => ~NeedsApproval(rules[v.rule], q)
  BY <1>1, <1>2, VerdictFacts
<1>5. PICK d : d = [id |-> n, req |-> q, why |-> v.why, rule |-> v.rule, at |-> now]
  OBVIOUS
<1>6. /\ UNCHANGED <<scene, now, rules, limits, lockdown>> /\ Len(log) < scene.log
      /\ log' = Append(log, d)
      /\ pendings' = IF v.why = "pending" THEN pendings \cup {n} ELSE pendings
      /\ usage' = IF v.why = "allowed" THEN usage \cup Charges(q, n) ELSE usage
  BY <1>1, <1>5 DEF Evaluate, Log, NewId
<1>7. d.id = n /\ d.req = q /\ d.why = v.why /\ d.rule = v.rule
  BY <1>5
<1>8. d \in Decision
  <2>1. Len(rules) \in Nat /\ Len(log) \in Nat
    BY <1>2 DEF PolicyTypeOK
  <2>2. n \in Nat /\ v.why \in Why /\ v.rule \in Nat
    BY <1>1, <1>4, <2>1
  <2>. QED
    BY <1>2, <1>3, <1>5, <2>2 DEF Decision
<1>9. /\ Len(log) \in Nat /\ Len(log') = n /\ log' \in Seq(Decision)
      /\ \A i \in 1..Len(log) : log'[i] = log[i]
      /\ log'[n] = d
      /\ \A i \in 1..Len(log') : i \in 1..Len(log) \/ i = n
      /\ n \notin 1..Len(log) /\ n \in 1..Len(log')
  BY <1>1, <1>6, <1>8, LogGrows
<1>10. \A i \in 1..Len(log) : log[i].id \in Nat /\ log[i].id <= i
  <2>1. \A i \in 1..Len(log) : log[i] \in Decision
    BY <1>2 DEF PolicyTypeOK
  <2>. QED
    BY <1>2, <2>1 DEF PolicyTypeOK, Decision
<1>11. \A i \in 1..Len(log) : log[i].id # n
  BY <1>1, <1>9, <1>10
<1>12. pendings \subseteq {i \in 1..Len(log) : log[i].why = "pending"}
  BY <1>2 DEF PolicyTypeOK
<1>13. PolicyTypeOK'
  <2>1. Len(log') <= scene'.log
    <3>1. scene.log \in Nat
      BY <1>2, PolicyBounds
    <3>. QED
      BY <1>1, <1>6, <1>9, <3>1
  <2>2. \A i \in 1..Len(log') : log'[i].id <= i /\ log'[i].rule <= Len(rules')
    <3>1. n \in Nat /\ Len(rules) \in Nat
      BY <1>1, <1>2, <1>9 DEF PolicyTypeOK
    <3>2. d.id <= n /\ d.rule <= Len(rules)
      BY <1>4, <1>7, <3>1
    <3>3. \A i \in 1..Len(log) : log[i].id <= i /\ log[i].rule <= Len(rules)
      BY <1>2 DEF PolicyTypeOK
    <3>. QED
      BY <1>6, <1>9, <3>2, <3>3
  <2>3. pendings' \subseteq {i \in 1..Len(log') : log'[i].why = "pending"}
    <3>1. \A i \in 1..Len(log) : i \in 1..Len(log')
      BY <1>1, <1>9
    <3>. QED
      BY <1>6, <1>7, <1>9, <1>12, <3>1
  <2>4. usage' \subseteq Charge
    <3>1. usage \subseteq Charge
      BY <1>2 DEF PolicyTypeOK
    <3>2. /\ ChargedScopes(q) \subseteq {"GLOBAL", "PRINCIPAL", "GROUP"} \X Names
          /\ q.cost \in Int /\ q.calls \in Int
      <4>1. {"*", q.principal} \cup q.groups \subseteq Names
        BY <1>3 DEF Names
      <4>. QED
        BY <1>3, <4>1, PolicyBounds DEF ChargedScopes
    <3>3. n \in Nat
      BY <1>1, <1>9
    <3>4. Charges(q, n) \subseteq Charge
      BY <1>2, <3>2, <3>3 DEF Charges, Charge
    <3>. QED
      BY <1>6, <3>1, <3>4
  <2>5. now' \in 0..MaxClock /\ lockdown' \in BOOLEAN
    BY <1>2, <1>6 DEF PolicyTypeOK
  <2>. QED
    BY <1>2, <1>6, <1>9, <2>1, <2>2, <2>3, <2>4, <2>5 DEF PolicyTypeOK
<1>14. ApprovalsSettleOnce'
  <2>1. {log'[j].id : j \in {i \in 1..Len(log') : log'[i].why = "approved"}}
           = {log[j].id : j \in {i \in 1..Len(log) : log[i].why = "approved"}}
    <3>1. {i \in 1..Len(log') : log'[i].why = "approved"} = {i \in 1..Len(log) : log[i].why = "approved"}
      BY <1>1, <1>4, <1>7, <1>9
    <3>. QED
      BY <1>9, <3>1
  <2>2. {i \in 1..Len(log') : log'[i].why = "pending"}
           = {i \in 1..Len(log) : log[i].why = "pending"} \cup (IF v.why = "pending" THEN {n} ELSE {})
    BY <1>1, <1>7, <1>9
  <2>3. n \notin {log[j].id : j \in {i \in 1..Len(log) : log[i].why = "approved"}}
    BY <1>11
  <2>4. pendings = {i \in 1..Len(log) : log[i].why = "pending"}
                     \ {log[j].id : j \in {i \in 1..Len(log) : log[i].why = "approved"}}
    BY DEF EngineInv, ApprovalsSettleOnce
  <2>5. pendings' = {i \in 1..Len(log') : log'[i].why = "pending"}
                      \ {log'[j].id : j \in {i \in 1..Len(log') : log'[i].why = "approved"}}
    BY <1>6, <2>1, <2>2, <2>3, <2>4
  <2>6. \A i, j \in 1..Len(log') :
           log'[i].why = "approved" /\ log'[j].why = "approved" /\ log'[i].id = log'[j].id => i = j
    <3>1. \A i \in 1..Len(log') : log'[i].why = "approved" => i \in 1..Len(log)
      BY <1>4, <1>7, <1>9
    <3>. QED
      BY <1>9, <3>1 DEF EngineInv, ApprovalsSettleOnce
  <2>. QED
    BY <2>5, <2>6 DEF ApprovalsSettleOnce
<1>15. PendingJustified'
  BY <1>4, <1>6, <1>7, <1>9 DEF EngineInv, PendingJustified
<1>16. AllowsAreJustified'
  <2>1. \A i \in 1..Len(log) : log[i].why \in Allowing => Justified(i)
    BY JustifiedMeans DEF EngineInv
  <2>2. ASSUME NEW i \in 1..Len(log), Justified(i) PROVE Justified(i)'
    <3>1. \A j \in 1..i-1 : j \in 1..Len(log)
      BY <1>9
    <3>. QED
      BY <1>6, <1>9, <2>2, <3>1 DEF Justified
  <2>3. log'[n].why \in Allowing => Justified(n)'
    <3>1. log'[n].why \in Allowing => v.why = "allowed"
      BY <1>4, <1>7, <1>9 DEF Allowing
    <3>. QED
      BY <1>4, <1>6, <1>7, <1>9, <3>1 DEF NeedsApproval, Justified
  <2>4. (\A i \in 1..Len(log) : log[i].why \in Allowing => Justified(i))'
    BY <1>9, <2>1, <2>2, <2>3
  <2>. QED
    BY <2>4, JustifiedMeans, PTL
<1>. QED
  BY <1>13, <1>14, <1>15, <1>16 DEF EngineInv

\* approve() logs a copy of the parked decision; the copy that lets it through takes it
\* out of the dict.
LEMMA ApproveKeeps ==
    ASSUME EngineInv, NEW id \in pendings, NEW role, Approve(id, role)
    PROVE  EngineInv'
<1>1. PICK n, p : n = Len(log) + 1 /\ p = log[id]
  OBVIOUS
<1>2. PolicyTypeOK /\ ApprovalsSettleOnce /\ PendingJustified
  BY DEF EngineInv
<1>3. id \in 1..Len(log) /\ p \in Decision /\ p.why = "pending" /\ p.id = id
  <2>1. id \in 1..Len(log) /\ log[id].why = "pending" /\ log \in Seq(Decision)
    BY <1>2 DEF PolicyTypeOK
  <2>. QED
    BY <1>1, <1>2, <2>1 DEF PendingJustified
<1>4. p.rule # 0 /\ Lets(rules[p.rule], p.req) /\ p.rule \in 0..Len(rules)
  <2>1. p.rule <= Len(rules) /\ Len(rules) \in Nat /\ p.rule \in Nat
    <3>1. p.rule \in Nat
      BY <1>3 DEF Decision
    <3>2. p.rule <= Len(rules) /\ rules \in Seq(Rules)
      BY <1>1, <1>2, <1>3 DEF PolicyTypeOK
    <3>. QED
      BY <3>1, <3>2
  <2>. QED
    BY <1>1, <1>2, <1>3, <2>1 DEF PendingJustified
<1>5. PICK why \in {"approved", "rejected"} :
      /\ log' = Append(log, [id |-> id, req |-> p.req, why |-> why, rule |-> p.rule, at |-> p.at])
      /\ pendings' = IF why = "approved" THEN pendings \ {id} ELSE pendings
  BY <1>1 DEF Approve, Log, Settled
<1>6. UNCHANGED <<scene, now, rules, limits, lockdown, usage>> /\ Len(log) < scene.log
  BY DEF Approve
<1>7. \E d : /\ d = [id |-> id, req |-> p.req, why |-> why, rule |-> p.rule, at |-> p.at]
             /\ d.id = id /\ d.req = p.req /\ d.why = why /\ d.rule = p.rule
  <2>. DEFINE d == [id |-> id, req |-> p.req, why |-> why, rule |-> p.rule, at |-> p.at]
  <2>1. d.id = id /\ d.req = p.req /\ d.why = why /\ d.rule = p.rule
    OBVIOUS
  <2>. QED
    BY <2>1
<1>. PICK d : /\ d = [id |-> id, req |-> p.req, why |-> why, rule |-> p.rule, at |-> p.at]
              /\ d.id = id /\ d.req = p.req /\ d.why = why /\ d.rule = p.rule
  BY <1>7
<1>8. d \in Decision
  <2>1. id \in Nat /\ why \in Why
    BY <1>3 DEF Why
  <2>. QED
    BY <1>3, <1>7, <2>1 DEF Decision
<1>9. /\ Len(log) \in Nat /\ Len(log') = n /\ log' \in Seq(Decision)
      /\ \A i \in 1..Len(log) : log'[i] = log[i] /\ i \in 1..Len(log')
      /\ log'[n] = d
      /\ \A i \in 1..Len(log') : i \in 1..Len(log) \/ i = n
      /\ n \notin 1..Len(log) /\ n \in 1..Len(log')
  BY <1>1, <1>5, <1>7, <1>8, LogGrows
<1>10. PolicyTypeOK'
  <2>1. Len(log') <= scene'.log
    <3>1. scene.log \in Nat
      BY <1>2, PolicyBounds DEF PolicyTypeOK
    <3>. QED
      BY <1>1, <1>6, <1>9, <3>1
  <2>2. \A i \in 1..Len(log') : log'[i].id <= i /\ log'[i].rule <= Len(rules')
    <3>1. Len(rules) \in Nat
      BY <1>2 DEF PolicyTypeOK
    <3>2. d.id <= n /\ d.rule <= Len(rules)
      BY <1>1, <1>3, <1>4, <1>7, <1>9, <3>1
    <3>3. \A i \in 1..Len(log) : log[i].id <= i /\ log[i].rule <= Len(rules)
      BY <1>2 DEF PolicyTypeOK
    <3>. QED
      BY <1>6, <1>9, <3>2, <3>3
  <2>3. pendings' \subseteq {i \in 1..Len(log') : log'[i].why = "pending"}
    <3>1. pendings \subseteq {i \in 1..Len(log) : log[i].why = "pending"}
      BY <1>2 DEF PolicyTypeOK
    <3>. QED
      BY <1>5, <1>9, <3>1
  <2>. QED
    BY <1>2, <1>6, <1>9, <2>1, <2>2, <2>3 DEF PolicyTypeOK
<1>11. ApprovalsSettleOnce'
  <2>. DEFINE Yes  == {i \in 1..Len(log) : log[i].why = "approved"}
              Wait == {i \in 1..Len(log) : log[i].why = "pending"}
  <2>1. {i \in 1..Len(log') : log'[i].why = "pending"} = Wait
    BY <1>7, <1>9
  <2>2. {i \in 1..Len(log') : log'[i].why = "approved"} = Yes \cup (IF why = "approved" THEN {n} ELSE {})
    BY <1>7, <1>9
  <2>3. {log'[j].id : j \in {i \in 1..Len(log') : log'[i].why = "approved"}}
           = {log[j].id : j \in Yes} \cup (IF why = "approved" THEN {id} ELSE {})
    BY <1>7, <1>9, <2>2
  <2>4. pendings = Wait \ {log[j].id : j \in Yes}
    BY <1>2 DEF ApprovalsSettleOnce
  <2>5. pendings' = {i \in 1..Len(log') : log'[i].why = "pending"}
                      \ {log'[j].id : j \in {i \in 1..Len(log') : log'[i].why = "approved"}}
    <3>. HIDE DEF Yes, Wait
    <3>. QED
      BY <1>5, <2>1, <2>3, <2>4
  <2>6. \A i \in 1..Len(log) : log[i].why = "approved" => log[i].id # id
    BY <2>4
  <2>7. \A i, j \in 1..Len(log) :
           log[i].why = "approved" /\ log[j].why = "approved" /\ log[i].id = log[j].id => i = j
    BY <1>2 DEF ApprovalsSettleOnce
  <2>8. \A i, j \in 1..Len(log') :
           log'[i].why = "approved" /\ log'[j].why = "approved" /\ log'[i].id = log'[j].id => i = j
    <3>. HIDE DEF Yes, Wait
    <3>. QED
      BY <1>7, <1>9, <2>6, <2>7
  <2>. QED
    BY <2>5, <2>8 DEF ApprovalsSettleOnce
<1>12. PendingJustified'
  BY <1>2, <1>6, <1>7, <1>9 DEF PendingJustified
<1>13. AllowsAreJustified'
  <2>1. \A i \in 1..Len(log) : log[i].why \in Allowing => Justified(i)
    BY JustifiedMeans DEF EngineInv
  <2>2. ASSUME NEW i \in 1..Len(log), Justified(i) PROVE Justified(i)'
    <3>1. \A j \in 1..i-1 : j \in 1..Len(log)
      BY <1>9
    <3>. QED
      BY <1>6, <1>9, <2>2, <3>1 DEF Justified
  <2>3. log'[n].why \in Allowing => Justified(n)'
    <3>1. log'[n].why \in Allowing => why = "approved"
      BY <1>7, <1>9 DEF Allowing
    <3>2. id \in 1..n-1 /\ log'[id].id = id /\ log'[id].why = "pending"
      BY <1>1, <1>3, <1>9
    <3>. QED
      BY <1>4, <1>6, <1>7, <1>9, <3>1, <3>2 DEF Justified
  <2>4. (\A i \in 1..Len(log) : log[i].why \in Allowing => Justified(i))'
    BY <1>9, <2>1, <2>2, <2>3
  <2>. QED
    BY <2>4, JustifiedMeans, PTL
<1>. QED
  BY <1>10, <1>11, <1>12, <1>13 DEF EngineInv

-----------------------------------------------------------------------------
(* The engine.                                                             *)

\* The engine starts with an empty log and the rules it is given.
LEMMA EngineStarts ==
    ASSUME Init
    PROVE  EngineInv
<1>1. Len(<<>>) = 0 /\ 1..0 = {} /\ \A S : <<>> \in Seq(S)
  OBVIOUS
<1>2. scene \in Scenes /\ scene.seed \in Seq(Rules) /\ Len(scene.seed) <= scene.rules
      /\ scene.limits \in Nat /\ scene.log \in Nat
  BY PolicyBounds DEF Init
<1>3. PolicyTypeOK
  <2>1. 0 \in 0..MaxClock
    BY PolicyBounds
  <2>2. limits \in Seq(LimitBook) /\ Len(limits) <= scene.limits
    BY <1>1, <1>2 DEF Init
  <2>3. log \in Seq(Decision) /\ Len(log) <= scene.log
    BY <1>1, <1>2 DEF Init
  <2>. QED
    BY <1>1, <1>2, <2>1, <2>2, <2>3 DEF Init, PolicyTypeOK
<1>4. ApprovalsSettleOnce /\ PendingJustified /\ AllowsAreJustified
  BY <1>1 DEF Init, ApprovalsSettleOnce, PendingJustified, AllowsAreJustified
<1>. QED
  BY <1>3, <1>4 DEF EngineInv

\* Every step keeps it in order.
LEMMA EngineSteps ==
    ASSUME EngineInv, [Next]_vars
    PROVE  EngineInv'
BY SetupKeeps, EvaluateKeeps, ApproveKeeps DEF Next

\* The approval dict and the decision log agree: what waits is what was logged as
\* pending and not approved since, and nothing is approved twice (247-286).
THEOREM ApprovalsAreSettled == Spec => []PolicyInv
<1>1. EngineInv => PolicyInv
  BY DEF EngineInv, PolicyInv
<1>. QED
  BY <1>1, EngineStarts, EngineSteps, PTL DEF Spec

\* Whatever rules, limits and lockdowns come when, a decision that lets something
\* happen names an ALLOW rule that covers the request, at a risk below its gate and
\* within the level its conditions name; and what that rule wants approved was parked
\* before, or its principal is exempt (56-104, 195-248, 277-286).
THEOREM EveryAllowIsJustified == Spec => []AllowsAreJustified
<1>1. EngineInv => AllowsAreJustified
  BY DEF EngineInv
<1>. QED
  BY <1>1, EngineStarts, EngineSteps, PTL DEF Spec

-----------------------------------------------------------------------------
(* The usage list agrees with the log, and so do the sums over them.       *)

\* What the decision at place i of the log is charged under scope s.
ChargeOf(i, s) ==
    [charged |-> i, at |-> log[i].at, scope |-> s,
     cost |-> log[i].req.cost, calls |-> log[i].req.calls]

\* Every charge is one of a decision that was allowed, and whatever such a decision
\* costs is charged under each of its scopes.
UsageInv ==
    /\ \A c \in usage : /\ c.charged \in 1..Len(log) /\ log[c.charged].why = "allowed"
                        /\ c.scope \in ChargedScopes(log[c.charged].req)
                        /\ c = ChargeOf(c.charged, c.scope)
    /\ \A i \in 1..Len(log) :
          log[i].why = "allowed" /\ ~(log[i].req.cost <= 0 /\ log[i].req.calls <= 0) =>
              \A s \in ChargedScopes(log[i].req) : ChargeOf(i, s) \in usage

\* What the decisions in a limit's window come to is no more than what the usage list
\* says was used.
LEMMA UsageCovers ==
    ASSUME EngineInv, UsageInv, NEW l \in LimitBook, NEW s,
           NEW F, \A i \in InWindow(l, s) : F[i] = log[i].req.calls,
           NEW G, \A i \in InWindow(l, s) : G[i] = log[i].req.cost
    PROVE  /\ SumFunctionOnSet(F, InWindow(l, s)) <= UsedCalls(l, s)
           /\ SumFunctionOnSet(G, InWindow(l, s)) <= UsedCost(l, s)
           /\ UsedCalls(l, s) \in Int /\ UsedCost(l, s) \in Int
           /\ IsFiniteSet(InWindow(l, s))
<1>1. /\ log \in Seq(Decision) /\ Len(log) \in Nat /\ now \in Int /\ l.window \in Int
      /\ \A i \in 1..Len(log) : /\ log[i].req.cost \in Int /\ log[i].req.calls \in Int
                               /\ log[i].at \in Int
  <2>1. log \in Seq(Decision) /\ now \in 0..MaxClock
    BY DEF EngineInv, PolicyTypeOK
  <2>2. \A i \in 1..Len(log) : log[i] \in Decision
    BY <2>1
  <2>3. \A i \in 1..Len(log) : log[i].req \in Requests /\ log[i].at \in Int
    BY <2>2 DEF Decision
  <2>4. \A q \in Requests : q.cost \in Int /\ q.calls \in Int
    BY PolicyBounds
  <2>5. l.window \in Int /\ now \in Int
    BY <2>1, PolicyBounds
  <2>. QED
    BY <2>1, <2>3, <2>4, <2>5
<1>. DEFINE W == InWindow(l, s)
            R == Recent(l, s)
            h == [c \in R |-> c.charged]
<1>2. ASSUME NEW c \in R
      PROVE  /\ h[c] \in W /\ c = ChargeOf(h[c], s) /\ h[c] \in 1..Len(log)
             /\ c.calls = log[h[c]].req.calls /\ c.cost = log[h[c]].req.cost
  <2>1. c \in usage /\ c.scope = s /\ now - c.at <= l.window /\ h[c] = c.charged
    BY DEF Recent
  <2>2. /\ c.charged \in 1..Len(log) /\ log[c.charged].why = "allowed"
        /\ s \in ChargedScopes(log[c.charged].req)
        /\ c = ChargeOf(c.charged, s)
    BY <2>1 DEF UsageInv
  <2>3. /\ c.at = log[c.charged].at
        /\ c.calls = log[c.charged].req.calls /\ c.cost = log[c.charged].req.cost
    BY <2>2 DEF ChargeOf
  <2>. QED
    BY <2>1, <2>2, <2>3 DEF InWindow
<1>3. h \in [R -> W]
  BY <1>2
<1>4. \A c, d \in R : h[c] = h[d] => c = d
  BY <1>2
<1>5. IsFiniteSet(W)
  <2>1. W \subseteq 1..Len(log)
    BY DEF InWindow
  <2>2. IsFiniteSet(1..Len(log))
    <3>1. 1 \in Int /\ Len(log) \in Int
      BY <1>1
    <3>. QED
      BY <3>1, FS_Interval, Zenon
  <2>. HIDE DEF W
  <2>. QED
    BY <2>1, <2>2, FS_Subset
<1>6. IsFiniteSet(R)
  <2>. HIDE DEF R, W, h
  <2>1. h \in Injection(R, W)
    BY <1>3, <1>4 DEF Injection, IsInjective
  <2>. QED
    BY <1>5, <2>1, FS_Injection
<1>7. ASSUME NEW i \in W, \A c \in R : h[c] # i
      PROVE  log[i].req.calls <= 0 /\ log[i].req.cost <= 0
  <2>1. /\ i \in 1..Len(log) /\ log[i].why = "allowed" /\ now - log[i].at <= l.window
        /\ s \in ChargedScopes(log[i].req)
    BY DEF InWindow
  <2>2. ChargeOf(i, s).scope = s /\ ChargeOf(i, s).at = log[i].at /\ ChargeOf(i, s).charged = i
    BY DEF ChargeOf
  <2>3. ChargeOf(i, s) \in usage => ChargeOf(i, s) \in R
    BY <2>1, <2>2 DEF Recent
  <2>4. ChargeOf(i, s) \in R => h[ChargeOf(i, s)] = i
    BY <2>2
  <2>. QED
    BY <1>7, <2>1, <2>3, <2>4 DEF UsageInv
<1>. DEFINE calls == [c \in R |-> c.calls]
            costs == [c \in R |-> c.cost]
<1>8. /\ UsedCalls(l, s) = SumFunctionOnSet(calls, R)
      /\ UsedCost(l, s) = SumFunctionOnSet(costs, R)
  <2>1. DOMAIN calls = R /\ DOMAIN costs = R
    OBVIOUS
  <2>. QED
    BY <2>1, Zenon DEF UsedCalls, UsedCost, SumFunction
<1>9. \A i \in W : F[i] = log[i].req.calls /\ G[i] = log[i].req.cost /\ F[i] \in Int /\ G[i] \in Int
  BY <1>1 DEF InWindow
<1>10. \A c \in R : /\ calls[c] \in Int /\ F[h[c]] = calls[c]
                    /\ costs[c] \in Int /\ G[h[c]] = costs[c]
  <2>1. TAKE c \in R
  <2>2. calls[c] = c.calls /\ costs[c] = c.cost
    OBVIOUS
  <2>. HIDE DEF calls, costs, h, R, W
  <2>. QED
    BY <1>2, <1>9, <2>2
<1>11. \A i \in W : (\A c \in R : h[c] # i) => F[i] <= 0 /\ G[i] <= 0
  BY <1>7, <1>9
<1>. HIDE DEF W, R, h, calls, costs
<1>12. SumFunctionOnSet(F, W) <= SumFunctionOnSet(calls, R)
  BY <1>3, <1>4, <1>5, <1>6, <1>9, <1>10, <1>11, SumCompare
<1>13. SumFunctionOnSet(G, W) <= SumFunctionOnSet(costs, R)
  BY <1>3, <1>4, <1>5, <1>6, <1>9, <1>10, <1>11, SumCompare
<1>14. SumFunctionOnSet(calls, R) \in Int /\ SumFunctionOnSet(costs, R) \in Int
  BY <1>6, <1>10, SumIsInt
<1>. QED
  BY <1>5, <1>8, <1>12, <1>13, <1>14 DEF W

\* What is allowed was within the limits.
LEMMA AllowedIsWithin == ASSUME NEW q, Verdict(q).why = "allowed" PROVE WithinLimits(q)
<1>. DEFINE deny  == Matching(q, "DENY")
            allow == Matching(q, "ALLOW")
            i     == FirstRule(allow)
<1>1. Verdict(q) = IF LockedOut(q) THEN [why |-> "lockdown", rule |-> 0]
                   ELSE IF deny # {} THEN [why |-> "denied", rule |-> FirstRule(deny)]
                   ELSE IF allow = {} THEN [why |-> "default", rule |-> 0]
                   ELSE [rule |-> i,
                         why  |-> IF GateCloses(rules[i], q) THEN "risk"
                                  ELSE IF ~WithinLimits(q) THEN "limit"
                                  ELSE IF NeedsApproval(rules[i], q) THEN "pending"
                                  ELSE "allowed"]
  BY DEF Verdict
<1>. HIDE DEF deny, allow, i
<1>. QED
  BY <1>1

\* Every step keeps the list and the log in agreement.
LEMMA UsageKept ==
    ASSUME EngineInv, UsageInv, [Next]_vars
    PROVE  UsageInv'
<1>1. ASSUME UNCHANGED <<log, usage>> PROVE UsageInv'
  BY <1>1 DEF UsageInv, ChargeOf
<1>2. CASE UNCHANGED vars
  BY <1>1, <1>2 DEF vars
<1>3. ASSUME \/ \E r \in RuleBook : AddRule(r)
             \/ \E l \in LimitBook : AddLimit(l)
             \/ \E b \in BOOLEAN : SetLockdown(b)
             \/ Tick
      PROVE  UsageInv'
  BY <1>1, <1>3 DEF AddRule, AddLimit, SetLockdown, Tick
<1>4. \A i \in 1..Len(log) : log[i] \in Decision
  BY DEF EngineInv, PolicyTypeOK
<1>5. ASSUME NEW id \in pendings, NEW role \in Roles, Approve(id, role) PROVE UsageInv'
  <2>1. PICK d \in Decision : log' = Append(log, d) /\ d.why # "allowed"
    <3>1. id \in 1..Len(log) /\ log[id] \in Decision
      BY <1>4 DEF EngineInv, PolicyTypeOK
    <3>2. id \in Nat
      BY <3>1
    <3>. DEFINE copy(why) == [id |-> id, req |-> log[id].req, why |-> why,
                              rule |-> log[id].rule, at |-> log[id].at]
    <3>3. copy("approved") \in Decision /\ copy("rejected") \in Decision
      BY <3>1, <3>2 DEF Decision, Why
    <3>4. log' = Append(log, copy("approved")) \/ log' = Append(log, copy("rejected"))
      BY <1>5 DEF Approve, Log
    <3>5. copy("approved").why = "approved" /\ copy("rejected").why = "rejected"
      OBVIOUS
    <3>. HIDE DEF copy
    <3>. QED
      BY <3>3, <3>4, <3>5
  <2>2. usage' = usage
    BY <1>5 DEF Approve
  <2>3. /\ Len(log) \in Nat /\ Len(log') = Len(log) + 1
        /\ \A i \in 1..Len(log) : log'[i] = log[i] /\ i \in 1..Len(log')
        /\ \A i \in 1..Len(log') : i \in 1..Len(log) \/ log'[i].why # "allowed"
    <3>1. /\ Len(log) \in Nat /\ Len(log') = Len(log) + 1
          /\ \A i \in 1..Len(log) : log'[i] = log[i]
          /\ log'[Len(log) + 1] = d
          /\ \A i \in 1..Len(log') : i \in 1..Len(log) \/ i = Len(log) + 1
      BY <2>1, LogGrows
    <3>. QED
      BY <2>1, <3>1
  <2>4. \A s : \A i \in 1..Len(log) : ChargeOf(i, s)' = ChargeOf(i, s)
    BY <2>3 DEF ChargeOf
  <2>. QED
    BY <2>2, <2>3, <2>4 DEF UsageInv
<1>6. ASSUME NEW q \in scene.requests, Evaluate(q) PROVE UsageInv'
  <2>. DEFINE n == Len(log) + 1
  <2>1. PICK d \in Decision :
            /\ log' = Append(log, d) /\ d.req = q /\ d.at = now
            /\ usage' = IF d.why = "allowed" THEN usage \cup Charges(q, n) ELSE usage
    <3>. DEFINE d == [id |-> n, req |-> q, why |-> Verdict(q).why, rule |-> Verdict(q).rule, at |-> now]
    <3>1. log' = Append(log, d)
          /\ usage' = IF Verdict(q).why = "allowed" THEN usage \cup Charges(q, n) ELSE usage
      BY <1>6 DEF Evaluate, Log, NewId
    <3>2. PolicyTypeOK
      BY DEF EngineInv
    <3>3. q \in Requests /\ now \in 0..MaxClock /\ n \in Nat /\ Len(rules) \in Nat
      BY <3>2 DEF PolicyTypeOK, Requests
    <3>4. Verdict(q).why \in Why /\ Verdict(q).rule \in Nat
      BY <3>2, <3>3, VerdictFacts
    <3>5. d \in Decision
      BY <3>3, <3>4 DEF Decision
    <3>6. d.req = q /\ d.at = now /\ d.why = Verdict(q).why
      OBVIOUS
    <3>. HIDE DEF d
    <3>. QED
      BY <3>1, <3>5, <3>6
  <2>2. /\ Len(log) \in Nat /\ n \in Nat /\ Len(log') = n
        /\ \A i \in 1..Len(log) : log'[i] = log[i] /\ i \in 1..n
        /\ log'[n] = d /\ n \in 1..n
        /\ \A i \in 1..n : i \in 1..Len(log) \/ i = n
    <3>1. /\ Len(log) \in Nat /\ Len(log') = Len(log) + 1
          /\ \A i \in 1..Len(log) : log'[i] = log[i]
          /\ log'[Len(log) + 1] = d
      BY <2>1, LogGrows
    <3>. QED
      BY <3>1
  <2>3. \A s : \A i \in 1..Len(log) : ChargeOf(i, s)' = ChargeOf(i, s)
    BY <2>2 DEF ChargeOf
  <2>. DEFINE new(s) == [charged |-> n, at |-> now, scope |-> s, cost |-> q.cost, calls |-> q.calls]
              charge(s) == [charged |-> n, at |-> log'[n].at, scope |-> s,
                            cost |-> log'[n].req.cost, calls |-> log'[n].req.calls]
  <2>4. \A s : charge(s) = new(s) /\ new(s).charged = n /\ new(s).scope = s
    BY <2>1, <2>2
  <2>5. ASSUME NEW c \in usage'
        PROVE  /\ c.charged \in 1..Len(log') /\ log'[c.charged].why = "allowed"
               /\ c.scope \in ChargedScopes(log'[c.charged].req)
               /\ c = [charged |-> c.charged, at |-> log'[c.charged].at, scope |-> c.scope,
                       cost |-> log'[c.charged].req.cost, calls |-> log'[c.charged].req.calls]
    <3>1. CASE c \in usage
      BY <2>2, <3>1 DEF UsageInv, ChargeOf
    <3>2. CASE c \notin usage
      <4>1. d.why = "allowed" /\ c \in Charges(q, n)
        BY <2>1, <3>2
      <4>2. PICK s \in ChargedScopes(q) : c = new(s)
        BY <4>1 DEF Charges
      <4>3. c.charged = n /\ c.scope = s /\ c = charge(s)
        BY <2>4, <4>2
      <4>. HIDE DEF n
      <4>. QED
        BY <2>1, <2>2, <4>1, <4>2, <4>3
    <3>. QED
      BY <3>1, <3>2
  <2>6. ASSUME NEW i \in 1..Len(log'), log'[i].why = "allowed",
               ~(log'[i].req.cost <= 0 /\ log'[i].req.calls <= 0),
               NEW s \in ChargedScopes(log'[i].req)
        PROVE  [charged |-> i, at |-> log'[i].at, scope |-> s,
                cost |-> log'[i].req.cost, calls |-> log'[i].req.calls] \in usage'
    <3>1. CASE i \in 1..Len(log)
      <4>1. ChargeOf(i, s) \in usage
        BY <2>2, <2>6, <3>1 DEF UsageInv
      <4>. QED
        BY <2>1, <2>2, <3>1, <4>1 DEF ChargeOf
    <3>2. CASE i = n
      <4>1. new(s) \in Charges(q, n) /\ d.why = "allowed"
        BY <2>1, <2>2, <2>6, <3>2 DEF Charges
      <4>. QED
        BY <2>1, <2>4, <3>2, <4>1
    <3>. QED
      BY <2>2, <3>1, <3>2
  <2>. QED
    BY <2>5, <2>6 DEF UsageInv, ChargeOf, ChargedScopes
<1>. QED
  BY <1>2, <1>3, <1>5, <1>6 DEF Next

\* The sum over the window of a limit fits after the step that allows a request: what
\* was logged is covered by the usage list, and the list with the request was checked.
LEMMA AllowingFits ==
    ASSUME EngineInv, UsageInv, NEW q \in scene.requests, Evaluate(q), Latest'.why = "allowed",
           NEW k \in 1..Len(limits), NEW s \in ChargedScopes(Latest'.req), Applies(limits[k], s)
    PROVE  /\ Fits(LoggedCalls(limits[k], s)', limits[k].maxCalls)
           /\ Fits(LoggedCost(limits[k], s)', limits[k].maxCost)
<1>1. PICK l \in LimitBook : l = limits[k]
  BY DEF EngineInv, PolicyTypeOK
<1>2. PICK n : n = Len(log) + 1
  OBVIOUS
<1>3. PICK d \in Decision : log' = Append(log, d) /\ d.req = q /\ d.at = now /\ d.why = Verdict(q).why
  <2>. DEFINE d == [id |-> Len(log) + 1, req |-> q, why |-> Verdict(q).why, rule |-> Verdict(q).rule,
                    at |-> now]
  <2>1. log' = Append(log, d)
    BY DEF Evaluate, Log, NewId
  <2>2. PolicyTypeOK
    BY DEF EngineInv
  <2>3. q \in Requests /\ now \in 0..MaxClock /\ Len(log) + 1 \in Nat /\ Len(rules) \in Nat
    BY <2>2 DEF PolicyTypeOK, Requests
  <2>4. Verdict(q).why \in Why /\ Verdict(q).rule \in Nat
    BY <2>2, <2>3, VerdictFacts
  <2>5. d \in Decision
    BY <2>3, <2>4 DEF Decision
  <2>6. d.req = q /\ d.at = now /\ d.why = Verdict(q).why
    OBVIOUS
  <2>. HIDE DEF d
  <2>. QED
    BY <2>1, <2>5, <2>6
<1>4. /\ Len(log) \in Nat /\ n \in Nat /\ Len(log') = n
      /\ \A i \in 1..Len(log) : log'[i] = log[i] /\ i # n /\ i \in 1..n
      /\ log'[n] = d /\ n \in 1..n
      /\ \A i \in 1..n : i \in 1..Len(log) \/ i = n
  <2>1. /\ Len(log) \in Nat /\ Len(log') = Len(log) + 1
        /\ \A i \in 1..Len(log) : log'[i] = log[i]
        /\ log'[Len(log) + 1] = d
    BY <1>3, LogGrows
  <2>. QED
    BY <1>2, <2>1
<1>5. d.why = "allowed" /\ s \in ChargedScopes(q) /\ UNCHANGED <<now, limits>>
  BY <1>3, <1>4 DEF Latest, Evaluate
<1>6. /\ ~Over(UsedCost(l, s), q.cost, l.maxCost)
      /\ ~Over(UsedCalls(l, s), q.calls, l.maxCalls)
  <2>1. WithinLimits(q)
    BY <1>3, <1>5, AllowedIsWithin
  <2>2. s \in Scopes(q)
    BY <1>5 DEF Scopes
  <2>. QED
    BY <1>1, <2>1, <2>2 DEF WithinLimits
<1>7. /\ now \in Int /\ l.window \in Nat /\ q.cost \in Int /\ q.calls \in Int
      /\ l.maxCost \in Int \cup {NoMax} /\ l.maxCalls \in Int \cup {NoMax}
  <2>1. now \in 0..MaxClock /\ q \in Requests
    BY DEF EngineInv, PolicyTypeOK, Requests
  <2>. QED
    BY <2>1, PolicyBounds
<1>. DEFINE W == InWindow(l, s)
            V == {i \in 1..Len(log') : /\ log'[i].why = "allowed" /\ now' - log'[i].at <= limits'[k].window
                                       /\ s \in ChargedScopes(log'[i].req)}
            F == [i \in V |-> log'[i].req.calls]
            G == [i \in V |-> log'[i].req.cost]
<1>8. /\ LoggedCalls(limits[k], s)' = SumFunctionOnSet(F, V)
      /\ LoggedCost(limits[k], s)' = SumFunctionOnSet(G, V)
  <2>1. DOMAIN F = V /\ DOMAIN G = V
    OBVIOUS
  <2>2. /\ LoggedCalls(limits[k], s)' = SumFunctionOnSet(F, DOMAIN F)
        /\ LoggedCost(limits[k], s)' = SumFunctionOnSet(G, DOMAIN G)
    BY DEF LoggedCalls, LoggedCost, InWindow, SumFunction
  <2>. QED
    BY <2>1, <2>2, Zenon
<1>9. V = W \cup {n} /\ n \notin W /\ n \in V
  <2>1. n \in V
    <3>1. now - now <= l.window
      BY <1>7
    <3>. QED
      BY <1>1, <1>3, <1>4, <1>5, <3>1
  <2>2. n \notin W
    BY <1>4 DEF InWindow
  <2>3. ASSUME NEW i \in 1..Len(log) PROVE i \in V <=> i \in W
    BY <1>1, <1>4, <1>5, <2>3 DEF InWindow
  <2>4. W \subseteq 1..Len(log) /\ V \subseteq 1..n
    BY <1>4 DEF InWindow
  <2>. HIDE DEF V, W
  <2>. QED
    BY <1>4, <2>1, <2>2, <2>3, <2>4
<1>10. /\ \A i \in W : F[i] = log[i].req.calls /\ G[i] = log[i].req.cost
       /\ F[n] = q.calls /\ G[n] = q.cost
  <2>1. \A i \in V : F[i] = log'[i].req.calls /\ G[i] = log'[i].req.cost
    OBVIOUS
  <2>2. \A i \in W : i \in 1..Len(log)
    BY DEF InWindow
  <2>. HIDE DEF V, W, F, G
  <2>. QED
    BY <1>3, <1>4, <1>9, <2>1, <2>2
<1>11. \A i \in V : F[i] \in Int /\ G[i] \in Int
  <2>1. \A i \in 1..Len(log') : log'[i].req \in Requests
    <3>1. \A i \in 1..Len(log) : log[i] \in Decision
      BY DEF EngineInv, PolicyTypeOK
    <3>2. \A e \in Decision : e.req \in Requests
      BY DEF Decision
    <3>. QED
      BY <1>3, <1>4, <3>1, <3>2
  <2>2. \A r \in Requests : r.cost \in Int /\ r.calls \in Int
    BY PolicyBounds
  <2>. QED
    BY <2>1, <2>2
<1>. HIDE DEF V, W, F, G
<1>12. /\ SumFunctionOnSet(F, W) <= UsedCalls(l, s) /\ SumFunctionOnSet(G, W) <= UsedCost(l, s)
       /\ UsedCalls(l, s) \in Int /\ UsedCost(l, s) \in Int
       /\ IsFiniteSet(W)
  <2>1. /\ \A i \in InWindow(l, s) : F[i] = log[i].req.calls
        /\ \A i \in InWindow(l, s) : G[i] = log[i].req.cost
    BY <1>10, Zenon DEF W
  <2>2. l \in LimitBook /\ EngineInv /\ UsageInv
    BY <1>1
  <2>3. /\ SumFunctionOnSet(F, InWindow(l, s)) <= UsedCalls(l, s)
        /\ SumFunctionOnSet(G, InWindow(l, s)) <= UsedCost(l, s)
        /\ UsedCalls(l, s) \in Int /\ UsedCost(l, s) \in Int
        /\ IsFiniteSet(InWindow(l, s))
    <3> HIDE DEF EngineInv, UsageInv
    <3> QED BY <2>1, <2>2, UsageCovers, SMTT(20)
  <2> QED BY <2>3, Zenon DEF W
<1>13. IsFiniteSet(V) /\ V \ {n} = W
  <2>1. IsFiniteSet(W \cup {n})
    BY <1>12, FS_AddElement
  <2>2. V \ {n} = W
    BY <1>9
  <2>. QED
    BY <1>9, <2>1, <2>2
<1>14. SumFunctionOnSet(F, V) = q.calls + SumFunctionOnSet(F, W)
  <2>1. SumFunctionOnSet(F, V) = F[n] + SumFunctionOnSet(F, V \ {n})
    BY <1>9, <1>11, <1>13, SumWithout
  <2>. QED
    BY <1>10, <1>13, <2>1
<1>15. SumFunctionOnSet(G, V) = q.cost + SumFunctionOnSet(G, W)
  <2>1. SumFunctionOnSet(G, V) = G[n] + SumFunctionOnSet(G, V \ {n})
    BY <1>9, <1>11, <1>13, SumWithout
  <2>. QED
    BY <1>10, <1>13, <2>1
<1>16. SumFunctionOnSet(F, W) \in Int /\ SumFunctionOnSet(G, W) \in Int
  BY <1>9, <1>11, <1>12, SumIsInt
<1>17. l.maxCalls # NoMax => SumFunctionOnSet(F, V) <= l.maxCalls
  BY <1>6, <1>7, <1>12, <1>14, <1>16 DEF Over
<1>18. l.maxCost # NoMax => SumFunctionOnSet(G, V) <= l.maxCost
  BY <1>6, <1>7, <1>12, <1>15, <1>16 DEF Over
<1>. QED
  BY <1>1, <1>8, <1>17, <1>18 DEF Fits

\* LimitsHold for any rules and limits, whenever they are added: whenever a request is
\* allowed, what the decision log shows in the window of any limit in force is within
\* that limit (307-350).
THEOREM LimitsAreKept == Spec => LimitsHold
<1>1. ASSUME EngineInv, UsageInv, [Next]_vars, log' # log, Latest'.why = "allowed",
             NEW k \in 1..Len(limits), NEW s \in ChargedScopes(Latest'.req), Applies(limits[k], s)
      PROVE  /\ Fits(LoggedCalls(limits[k], s)', limits[k].maxCalls)
             /\ Fits(LoggedCost(limits[k], s)', limits[k].maxCost)
  <2>1. \E q \in scene.requests : Evaluate(q)
    <3>1. ASSUME NEW id \in pendings, NEW role \in Roles, Approve(id, role) PROVE FALSE
      <4>1. log' # log /\ log \in Seq(Decision) /\ Len(log) \in Nat
        BY <1>1 DEF EngineInv, PolicyTypeOK
      <4>2. PICK d : log' = Append(log, d) /\ d.why # "allowed"
        BY <3>1 DEF Approve, Log
      <4>3. Latest'.why = d.why
        BY <4>1, <4>2 DEF Latest
      <4>. QED
        BY <1>1, <4>2, <4>3
    <3>. QED
      BY <1>1, <3>1 DEF Next, vars, AddRule, AddLimit, SetLockdown, Tick
  <2>. QED
    BY <1>1, <2>1, AllowingFits
<1>2. Init => UsageInv
  BY DEF Init, UsageInv
<1>3. Spec => [](EngineInv /\ UsageInv)
  BY <1>2, EngineStarts, EngineSteps, UsageKept, PTL DEF Spec
<1>4. EngineInv /\ UsageInv /\ [Next]_vars =>
          [log' # log /\ Latest'.why = "allowed" =>
              \A k \in 1..Len(limits) : \A s \in ChargedScopes(Latest'.req) :
                  Applies(limits[k], s) =>
                      /\ Fits(LoggedCalls(limits[k], s)', limits[k].maxCalls)
                      /\ Fits(LoggedCost(limits[k], s)', limits[k].maxCost)]_vars
  BY <1>1
<1>. QED
  BY <1>3, <1>4, PTL DEF Spec, LimitsHold
=============================================================================
