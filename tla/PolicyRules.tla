------------------------------ MODULE PolicyRules ------------------------------
(***************************************************************************)
(* The language of the policy rules (omni/policy/engine.py 38-118 and 293- *)
(* 305): action patterns, roles and groups, conditions on attributes; and  *)
(* the rules the control plane starts with.                                *)
(*                                                                         *)
(* An action is the sequence of its segments.  An attribute's value is     *)
(* tagged with its kind, because the code finds out at run time which      *)
(* values compare.                                                         *)
(***************************************************************************)
EXTENDS Integers, SequencesExt

CONSTANTS
    Alphabet,    \* the words attributes and conditions use, in dictionary order
    NoMax        \* a limit or a risk gate that is not set

RiskLevels == <<"low", "medium", "high", "critical">>

ASSUME RulesAssumption ==
    /\ IsInjective(Alphabet) /\ ToSet(RiskLevels) \subseteq ToSet(Alphabet)
    /\ NoMax \notin Nat

-----------------------------------------------------------------------------
(* Values.                                                                 *)

Word(w)   == [kind |-> "word", value |-> w]
Number(n) == [kind |-> "number", value |-> n]
List(S)   == [kind |-> "list", value |-> S]
Missing   == [kind |-> "missing", value |-> {}]

Same(a, b) == a.kind = b.kind /\ a.value = b.value

\* _get_path() over the principal's and the resource's view of a request; the
\* attributes of a resource lie beside its type.
Lookup(q, field) ==
    LET view == IF field[1] = "principal"
                THEN [id |-> Word(q.principal), roles |-> List(q.roles), groups |-> List(q.groups)]
                ELSE q.resource
    IN  IF field[2] \in DOMAIN view THEN view[field[2]] ELSE Missing

Place(words, w) == CHOOSE i \in DOMAIN words : words[i] = w

IsLevel(v)  == v.kind = "word" /\ Contains(RiskLevels, v.value)
Severity(v) == Place(RiskLevels, v.value) - 1

\* Resource.risk(): what is missing or no level counts as low.
Risk(q) ==
    LET v == Lookup(q, <<"resource", "risk_level">>) IN IF IsLevel(v) THEN Severity(v) ELSE 0

-----------------------------------------------------------------------------
(* Conditions.                                                             *)

\* Values of two kinds do not compare, and neither does what is missing.
Comparable(a, b) == a.kind = b.kind /\ a.kind # "missing"

\* Two risk levels compare by severity, any other two words by spelling.
BySpelling(a, b) == Place(Alphabet, a.value)                               \* mutant
Rank(a, b) ==
    CASE a.kind = "number"        -> a.value
      [] IsLevel(a) /\ IsLevel(b) -> Severity(a)
      [] OTHER                    -> Place(Alphabet, a.value)
Order(a, b) == Rank(a, b) - Rank(b, a)

Inequalities == {"gt", "gte", "lt", "lte"}

\* What a condition may be written with: one value in an inequality, a list where
\* members are looked for.
WellFormed(c) == /\ c.op \in Inequalities => c.value.kind \in {"word", "number"}
                 /\ c.op \in {"in", "contains"} => c.value.kind = "list"

\* Membership is tested on comparable values only: "contains" compares two lists,
\* and "in" asks of a list whether it is in another, which never holds.
Holds(c, q) ==
    LET actual == Lookup(q, c.field)
        order  == Order(actual, c.value)
    IN  /\ c.op \in {"eq", "ne", "contains"} \cup Inequalities
        /\ c.op = "eq" => Same(actual, c.value)
        /\ c.op = "ne" => ~Same(actual, c.value)
        /\ c.op \in Inequalities \cup {"contains"} => Comparable(actual, c.value)
        /\ c.op = "gt"  => order > 0
        /\ c.op = "gte" => order >= 0
        /\ c.op = "lt"  => order < 0
        /\ c.op = "lte" => order <= 0
        /\ c.op = "contains" => actual.value \cap c.value.value # {}

-----------------------------------------------------------------------------
(* Rules.                                                                  *)

\* "*" ends a pattern and stands for at least one more segment.
Covers(pattern, action) ==
    \/ pattern = action
    \/ Last(pattern) = "*" /\ IsStrictPrefix(Front(pattern), action)

RuleMatches(r, q) ==
    /\ Covers(r.action, q.action)
    /\ r.roles = {} \/ r.roles \cap q.roles # {}
    /\ r.groups = {} \/ r.groups \cap q.groups # {}
    /\ \A c \in r.conditions : Holds(c, q)

Rule(effect, action, roles, priority) ==
    [effect |-> effect, action |-> action, roles |-> roles, groups |-> {}, conditions |-> {},
     priority |-> priority, gate |-> NoMax, approval |-> FALSE, approvers |-> {}]

AtMost(level) == [field |-> <<"resource", "risk_level">>, op |-> "lte", value |-> Word(level)]

Operators == {"operator", "system.admin"}

\* make_seed_rules()
SeedRules ==
    << [Rule("ALLOW", <<"agent", "*">>, Operators, 100) EXCEPT !.conditions = {AtMost("medium")}],
       [Rule("ALLOW", <<"agent", "run">>, Operators \cup {"web-user"}, 95)
            EXCEPT !.conditions = {AtMost("low")}],
       Rule("ALLOW", <<"memory", "read">>, Operators \cup {"reader"}, 90),
       Rule("ALLOW", <<"memory", "write">>, Operators, 80),
       Rule("ALLOW", <<"skill", "*">>, Operators, 70),
       Rule("ALLOW", <<"evolution", "*">>, {"system.admin"}, 75),
       Rule("ALLOW", <<"learning", "*">>, Operators, 70),
       [Rule("ALLOW", <<"deploy">>, {"release-engineer", "system.admin"}, 60)
            EXCEPT !.approval = TRUE, !.approvers = {"release-manager", "system.admin"}],
       Rule("DENY", <<"*">>, {"guest"}, 200),
       Rule("DENY", <<"payment", "*">>, {"guest", "reader"}, 150) >>
=============================================================================
