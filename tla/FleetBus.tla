-------------------------------- MODULE FleetBus -------------------------------
(***************************************************************************)
(* The in-process bus, InMemoryBus of omni/fleet/bus.py, as operators: its *)
(* subscription table and which handlers a publication is handed to.  A    *)
(* table is the dict of the code: its keys are the patterns in the order   *)
(* they were first subscribed, a subscription is under the key of that     *)
(* place, and the ids of a key ascend as its list grows.  Subjects and     *)
(* patterns are sequences of tokens.                                       *)
(***************************************************************************)
EXTENDS Integers, Sequences, SequencesExt

Wild == "*"
Rest == ">"

\* The first token at which the loop of _matches() returns.
Decides(pattern, subject, i) ==
    \/ pattern[i] = Rest
    \/ i > Len(subject)
    \/ pattern[i] # Wild /\ pattern[i] # subject[i]

MatchesPrefix(pattern, subject) ==                                           \* mutant
    LET D == {i \in DOMAIN pattern : Decides(pattern, subject, i)}
    IN  D = {} \/ pattern[Min(D)] = Rest

Matches(pattern, subject) ==
    \/ pattern = subject
    \/ LET D == {i \in DOMAIN pattern : Decides(pattern, subject, i)}
       IN  IF D = {} THEN Len(pattern) = Len(subject) ELSE pattern[Min(D)] = Rest

NoSubscriptions == [keys |-> <<>>, subs |-> {}, next |-> 0]

\* setdefault(): the pattern's own key, or a new one at the end.
KeyFor(table, pattern) ==
    LET i == SelectInSeq(table.keys, LAMBDA k : k = pattern)
    IN  IF i = 0 THEN Len(table.keys) + 1 ELSE i

Subscribed(table, pattern, handler) ==
    LET i == KeyFor(table, pattern) IN
    [keys |-> IF i > Len(table.keys) THEN Append(table.keys, pattern) ELSE table.keys,
     subs |-> table.subs \cup {[key |-> i, id |-> table.next, handler |-> handler]},
     next |-> table.next + 1]

\* The key stays, perhaps with an empty list.
Unsubscribed(table, id) == [table EXCEPT !.subs = {s \in @ : s.id # id}]

HandlersFor(table, subject) == {s \in table.subs : Matches(table.keys[s.key], subject)}

\* The loops visit the keys in their order and the list of each in its own.
LastFirst(s, t) == s.key > t.key \/ (s.key = t.key /\ s.id > t.id)           \* mutant
Before(s, t)    == s.key < t.key \/ (s.key = t.key /\ s.id < t.id)

\* What a pattern is documented to cover: '*' is one token, a last '>' is the rest.
Covers(pattern, subject) ==
    LET open == Last(pattern) = Rest
        n    == IF open THEN Len(pattern) - 1 ELSE Len(pattern)
    IN  /\ IF open THEN Len(subject) >= n ELSE Len(subject) = n
        /\ \A i \in 1..n : pattern[i] \in {Wild, subject[i]}
=============================================================================
