---------------------------- MODULE MCPolicyEngine ----------------------------
(***************************************************************************)
(* Small instances of PolicyEngine for TLC.                                *)
(***************************************************************************)
EXTENDS PolicyEngine

Unset == -1
Words == <<"critical", "eu", "extreme", "high", "low", "medium", "us">>

Ask(who, roles, groups, action, resource, cost) ==
    [principal |-> who, roles |-> roles, groups |-> groups, action |-> action,
     resource |-> resource, cost |-> cost, calls |-> 1]
Level(l) == [type |-> Word("generic"), risk_level |-> Word(l)]
Plain    == [type |-> Word("generic")]

Cap(scope, value, window, maxCost, maxCalls) ==
    [scope |-> scope, value |-> value, window |-> window,
     maxCost |-> maxCost, maxCalls |-> maxCalls]

\* Two members of one group, one of them exempt from approvals, and a guest.
TeamRequests ==
    {Ask("ann", {"engineer"}, {"team"}, <<"deploy">>, Plain, 2),
     Ask("bot", {"engineer", "approval.exempt"}, {"team"}, <<"deploy">>, Level("medium"), 1),
     Ask("gus", {"engineer", "guest"}, {}, <<"deploy">>, Level("low"), 1)}

\* A deploy rule that needs approval, one that allows low risk at most, and one
\* against guests.
TeamRules ==
    {[Rule("ALLOW", <<"deploy">>, {"engineer"}, 60) EXCEPT !.approval = TRUE, !.approvers = {"manager"}],
     [Rule("ALLOW", <<"*">>, {"engineer"}, 70) EXCEPT !.gate = 1],
     Rule("DENY", <<"*">>, {"guest"}, 50)}
TeamLimits == {Cap("PRINCIPAL", "*", 0, Unset, 1), Cap("GROUP", "team", 1, 3, Unset)}
NoRules    == {}
NoLimits   == {}
Approvers  == {"manager", "release-manager", "reader"}

\* What the control plane asks of the rules it starts with: at a known level of
\* risk, at an unknown one and at none.
SeededRequests ==
    {Ask("web-1", {"web-user"}, {}, <<"agent", "run">>, Level("low"), 0),
     Ask("ops-1", {"operator"}, {}, <<"agent", "spawn">>, Level("high"), 0),
     Ask("ops-1", {"operator"}, {}, <<"agent", "spawn">>, Level("extreme"), 0),
     Ask("ops-1", {"operator"}, {}, <<"agent", "spawn">>, Plain, 0),
     Ask("rel", {"release-engineer"}, {}, <<"deploy">>, Plain, 0),
     Ask("gus", {"reader", "guest"}, {}, <<"payment", "refund">>, Plain, 0)}

\* Rules that come in any order, and the seed rules.
TeamAndSeed ==
    {[seed |-> <<>>, requests |-> TeamRequests, rules |-> 2, limits |-> 1, log |-> 4],
     [seed |-> SeedRules, requests |-> SeededRequests, rules |-> 10, limits |-> 1, log |-> 3]}

\* One deployment under the seed rules, for the statement of the documentation.
OneDeploy ==
    {[seed |-> SeedRules, rules |-> 10, limits |-> 0, log |-> 3,
      requests |-> {Ask("rel", {"release-engineer"}, {}, <<"deploy">>, Plain, 0)}]}
=============================================================================
