------------------------------- MODULE TwinProofs ------------------------------
(***************************************************************************)
(* What holds of the bus and of the twin stream for any publishers,        *)
(* watchers and connections, whoever of them takes part.                   *)
(***************************************************************************)
EXTENDS TwinStream, FiniteOrders

-----------------------------------------------------------------------------
(* Operators.                                                              *)

\* Min() of some positions is the first of them.
LEMMA MinIsFirst ==
    ASSUME NEW n \in Nat, NEW D \in SUBSET (1..n), D # {}
    PROVE  Min(D) \in D /\ \A k \in D : Min(D) <= k
<1>1. IsFiniteSet(D)
  <2>1. IsFiniteSet(1..n)
    BY FS_Interval
  <2> QED BY <2>1, FS_Subset
<1>. D \subseteq Int
  OBVIOUS
<1>2. \E x \in D : \A y \in D : x <= y
  BY <1>1, LeastNumber
<1> QED BY <1>2 DEF Min

\* KeyFor() is the place of the pattern among the keys, or the next free one.
LEMMA KeyFound ==
    ASSUME NEW S, NEW t, t.keys \in Seq(S), NEW pattern
    PROVE  LET i == KeyFor(t, pattern) IN
           /\ i \in 1 .. Len(t.keys) + 1
           /\ i <= Len(t.keys) => t.keys[i] = pattern
<1>. DEFINE I == {k \in 1..Len(t.keys) : t.keys[k] = pattern}
<1>1. Len(t.keys) \in Nat
  OBVIOUS
<1>2. KeyFor(t, pattern) = IF I # {} THEN Min(I) ELSE Len(t.keys) + 1
  <2>1. CASE I = {}
    BY <2>1 DEF KeyFor, SelectInSeq
  <2>2. CASE I # {}
    <3>1. Min(I) \in I
      BY <1>1, <2>2, MinIsFirst
    <3>2. Min(I) # 0
      BY <3>1
    <3> QED BY <2>2, <3>2 DEF KeyFor, SelectInSeq
  <2> QED BY <2>1, <2>2
<1>3. CASE I = {}
  BY <1>1, <1>2, <1>3
<1>4. CASE I # {}
  <2>1. Min(I) \in I
    BY <1>1, <1>4, MinIsFirst
  <2> QED BY <1>1, <1>2, <1>4, <2>1
<1> QED BY <1>3, <1>4

\* The bridge's pattern matches every subject.
LEMMA RestMatchesAll == ASSUME NEW subject PROVE Matches(<<Rest>>, subject)
<1>. DEFINE D == {i \in DOMAIN <<Rest>> : Decides(<<Rest>>, subject, i)}
<1>1. DOMAIN <<Rest>> = {1} /\ <<Rest>>[1] = Rest
  OBVIOUS
<1>2. D = {1}
  BY <1>1 DEF Decides
<1>3. Min({1}) = 1
  BY MinIsFirst
<1> QED BY <1>1, <1>2, <1>3 DEF Matches

\* A pattern of which '>' is at most the last token matches what it covers.
LEMMA MatchingIsCovering ==
    ASSUME NEW pattern \in Seq(STRING), pattern # <<>>, NEW subject \in Seq(STRING),
           \A i \in 1 .. Len(pattern) - 1 : pattern[i] # Rest
    PROVE  Matches(pattern, subject) <=> Covers(pattern, subject)
<1>. DEFINE n == Len(pattern)
            m == Len(subject)
            D == {i \in DOMAIN pattern : Decides(pattern, subject, i)}
            Fits(i) == i <= m /\ pattern[i] \in {Wild, subject[i]}
<1>1. n \in Nat /\ m \in Nat /\ n > 0 /\ DOMAIN pattern = 1..n /\ DOMAIN subject = 1..m
  BY EmptySeq
<1>2. \A i \in 1..n : pattern[i] # Rest => (i \in D <=> ~Fits(i))
  BY <1>1 DEF Decides
<1>3. D # {} => Min(D) \in D /\ \A k \in D : Min(D) <= k
  <2>1. D \subseteq 1..n
    BY <1>1
  <2> QED BY <1>1, <2>1, MinIsFirst
<1>4. Matches(pattern, subject) <=>
          pattern = subject \/ (IF D = {} THEN n = m ELSE pattern[Min(D)] = Rest)
  BY DEF Matches
<1>5. CASE pattern[n] = Rest
  <2>1. Covers(pattern, subject) <=> \A i \in 1..n - 1 : Fits(i)
    <3>1. Covers(pattern, subject) <=>
              m >= n - 1 /\ \A i \in 1..n - 1 : pattern[i] \in {Wild, subject[i]}
      BY <1>1, <1>5 DEF Covers, Last
    <3>2. (m >= n - 1) <=> \A i \in 1..n - 1 : i <= m
      <4>1. ASSUME \A i \in 1..n - 1 : i <= m PROVE m >= n - 1
        <5>1. n - 1 \in 1..n - 1 \/ n - 1 = 0
          BY <1>1
        <5> QED BY <1>1, <4>1, <5>1
      <4> QED BY <1>1, <4>1
    <3> QED BY <3>1, <3>2
  <2>2. n \in D
    BY <1>1, <1>5 DEF Decides
  <2>3. pattern[Min(D)] = Rest <=> Min(D) = n
    BY <1>1, <1>3, <1>5, <2>2
  <2>4. Min(D) = n <=> \A i \in 1..n - 1 : i \notin D
    <3> HIDE DEF D
    <3>1. D \subseteq 1..n
      BY <1>1 DEF D
    <3>2. Min(D) \in 1..n /\ Min(D) \in D /\ \A k \in D : Min(D) <= k
      BY <1>3, <2>2, <3>1
    <3>3. ASSUME \A i \in 1..n - 1 : i \notin D PROVE Min(D) = n
      BY <1>1, <3>2, <3>3
    <3>4. ASSUME Min(D) = n, NEW i \in 1..n - 1 PROVE i \notin D
      BY <1>1, <3>2, <3>4
    <3> QED BY <3>3, <3>4
  <2>5. (\A i \in 1..n - 1 : i \notin D) <=> \A i \in 1..n - 1 : Fits(i)
    BY <1>1, <1>2
  <2>6. pattern = subject => \A i \in 1..n - 1 : Fits(i)
    BY <1>1
  <2> HIDE DEF D, Fits
  <2> QED BY <1>4, <2>1, <2>2, <2>3, <2>4, <2>5, <2>6
<1>6. CASE pattern[n] # Rest
  <2>1. \A i \in 1..n : pattern[i] # Rest
    BY <1>1, <1>6
  <2>2. Covers(pattern, subject) <=> n = m /\ \A i \in 1..n : Fits(i)
    <3>1. Covers(pattern, subject) <=>
              m = n /\ \A i \in 1..n : pattern[i] \in {Wild, subject[i]}
      BY <1>1, <1>6 DEF Covers, Last
    <3>2. n = m => ((\A i \in 1..n : pattern[i] \in {Wild, subject[i]})
                        <=> \A i \in 1..n : Fits(i))
      BY <1>1
    <3> HIDE DEF Fits
    <3> QED BY <3>1, <3>2
  <2>3. D # {} => pattern[Min(D)] # Rest
    BY <1>1, <1>3, <2>1
  <2>4. D = {} <=> \A i \in 1..n : Fits(i)
    BY <1>1, <1>2, <2>1
  <2>5. pattern = subject => n = m /\ \A i \in 1..n : Fits(i)
    BY <1>1
  <2> HIDE DEF D, Fits
  <2> QED BY <1>4, <2>2, <2>3, <2>4, <2>5
<1> QED BY <1>5, <1>6

\* To remove the first element is to leave the tail.
LEMMA RemoveFirstIsTail ==
    ASSUME NEW S, NEW s \in Seq(S), s # <<>>
    PROVE  RemoveAt(s, 1) = Tail(s)
<1>1. Len(s) \in Nat /\ Len(s) > 0
  BY EmptySeq
<1>2. SubSeq(s, 1, 1 - 1) = <<>>
  BY <1>1, SubSeqEmpty
<1>3. SubSeq(s, 1 + 1, Len(s)) = Tail(s) /\ Tail(s) \in Seq(S)
  BY <1>1, TailIsSubSeq, HeadTailProperties
<1>4. <<>> \o Tail(s) = Tail(s)
  BY <1>3, ConcatEmptySeq
<1> QED BY <1>2, <1>3, <1>4 DEF RemoveAt

\* The elements of a sequence, when one is appended or the first is taken.
LEMMA ElementsOf ==
    ASSUME NEW S, NEW s \in Seq(S), NEW v \in S
    PROVE  /\ ToSet(Append(s, v)) = ToSet(s) \cup {v}
           /\ s # <<>> => /\ ToSet(s) = ToSet(Tail(s)) \cup {s[1]} /\ Head(s) = s[1]
                          /\ s[1] \in S
<1>1. /\ Len(s) \in Nat /\ DOMAIN s = 1..Len(s)
      /\ Append(s, v) \in Seq(S) /\ Len(Append(s, v)) = Len(s) + 1
      /\ \A i \in 1..Len(s) : Append(s, v)[i] = s[i]
      /\ Append(s, v)[Len(s) + 1] = v
  BY AppendProperties
<1>2. ToSet(Append(s, v)) = ToSet(s) \cup {v}
  <2>1. DOMAIN Append(s, v) = 1..Len(s) + 1
    BY <1>1
  <2>2. 1..Len(s) + 1 = (1..Len(s)) \cup {Len(s) + 1}
    BY <1>1
  <2>3. ToSet(Append(s, v)) = {Append(s, v)[i] : i \in (1..Len(s)) \cup {Len(s) + 1}}
    BY <2>1, <2>2, Zenon DEF ToSet
  <2>4. ToSet(s) = {s[i] : i \in 1..Len(s)}
    BY <1>1, Zenon DEF ToSet
  <2> QED BY <1>1, <2>3, <2>4
<1>3. ASSUME s # <<>>
      PROVE  ToSet(s) = ToSet(Tail(s)) \cup {s[1]} /\ Head(s) = s[1] /\ s[1] \in S
  <2>1. /\ Len(s) > 0 /\ Tail(s) \in Seq(S) /\ Len(Tail(s)) = Len(s) - 1
        /\ \A i \in 1..Len(s) - 1 : Tail(s)[i] = s[i + 1]
    BY <1>1, <1>3, EmptySeq, HeadTailProperties
  <2>2. DOMAIN Tail(s) = 1..Len(s) - 1
    BY <2>1
  <2>3. ASSUME NEW i \in DOMAIN s PROVE s[i] \in ToSet(Tail(s)) \cup {s[1]}
    <3>1. CASE i = 1
      BY <3>1
    <3>2. CASE i # 1
      <4>1. i - 1 \in DOMAIN Tail(s) /\ Tail(s)[i - 1] = s[i]
        BY <1>1, <2>1, <2>2, <3>2
      <4> QED BY <4>1 DEF ToSet
    <3> QED BY <3>1, <3>2
  <2>4. ASSUME NEW i \in DOMAIN Tail(s) PROVE Tail(s)[i] \in ToSet(s)
    <3>1. i + 1 \in DOMAIN s /\ Tail(s)[i] = s[i + 1]
      BY <1>1, <2>1, <2>2
    <3> QED BY <3>1 DEF ToSet
  <2>5. 1 \in DOMAIN s
    BY <1>1, <2>1
  <2>6. s[1] \in ToSet(s)
    BY <2>5 DEF ToSet
  <2>7. ToSet(s) = ToSet(Tail(s)) \cup {s[1]}
    BY <2>3, <2>4, <2>6 DEF ToSet
  <2>8. Head(s) = s[1] /\ s[1] \in S
    BY <1>1, <2>1
  <2> QED BY <2>7, <2>8
<1> QED BY <1>2, <1>3

-----------------------------------------------------------------------------
(* The subscription table.  The API's bridge is its first entry and stays; *)
(* each watcher that is in has one entry, under its pattern.               *)

Tokens    == STRING \cup {Rest}
Subs      == [key : Nat, id : Nat, handler : Watchers \cup {Bridge}]
BridgeSub == [key |-> 1, id |-> 0, handler |-> Bridge]

TableInv ==
    /\ watching \in [Watchers -> {"not", "in", "left"}]
    /\ table \in [keys : Seq(Seq(Tokens)), subs : SUBSET Subs, next : Nat]
    /\ Len(table.keys) > 0 /\ table.keys[1] = <<Rest>>
    /\ BridgeSub \in table.subs
    /\ \A t \in table.subs :
          /\ t.key \in 1..Len(table.keys) /\ t.id < table.next
          /\ \/ t = BridgeSub
             \/ /\ t.id > 0 /\ t.handler \in Watchers /\ watching[t.handler] = "in"
                /\ table.keys[t.key] = PatternOf[t.handler]
    /\ \A s, t \in table.subs : s.id = t.id \/ s.handler = t.handler => s = t
    /\ \A w \in Watchers : watching[w] = "in" => \E t \in table.subs : t.handler = w

\* A watcher is neither the bridge nor the mark of no connection.
LEMMA NamesDiffer ==
    /\ \A w \in Watchers : w # Bridge
    /\ \A c \in Connections : c # Nobody
BY TwinAssumption

\* A sequence of one element.
LEMMA OneElement ==
    ASSUME NEW S, NEW v \in S
    PROVE  <<v>> \in Seq(S) /\ Len(<<v>>) = 1 /\ <<v>>[1] = v /\ Append(<<>>, v) = <<v>>
<1>1. <<v>> \in Seq(S) /\ Len(<<v>>) = 1 /\ <<v>>[1] = v
  OBVIOUS
<1>2. <<>> \in Seq(S) /\ Len(<<>>) = 0
  OBVIOUS
<1>3. Append(<<>>, v) \in Seq(S) /\ Len(Append(<<>>, v)) = 1 /\ Append(<<>>, v)[1] = v
  BY <1>2, AppendProperties
<1>4. \A i \in 1..1 : Append(<<>>, v)[i] = <<v>>[i]
  BY <1>1, <1>3
<1>5. Append(<<>>, v) = <<v>>
  BY <1>1, <1>3, <1>4, SeqEqual
<1> QED BY <1>1, <1>5

\* At first only the bridge is subscribed.
LEMMA TableStarts == Init => TableInv
<1>. SUFFICES ASSUME Init PROVE TableInv
  OBVIOUS
<1>1. KeyFor(NoSubscriptions, <<Rest>>) = 1
  <2>1. NoSubscriptions.keys \in Seq(Seq(Tokens)) /\ Len(NoSubscriptions.keys) = 0
    BY DEF NoSubscriptions
  <2> QED BY <2>1, KeyFound
<1>2. <<Rest>> \in Seq(Tokens)
  BY OneElement DEF Tokens
<1>. DEFINE rest == <<Rest>>
<1>. HIDE DEF rest
<1>3. <<rest>> \in Seq(Seq(Tokens)) /\ Len(<<rest>>) = 1 /\ <<rest>>[1] = rest
      /\ Append(<<>>, rest) = <<rest>>
  BY <1>2, OneElement DEF rest
<1>4. table = Subscribed(NoSubscriptions, rest, Bridge) /\ KeyFor(NoSubscriptions, rest) = 1
  BY <1>1 DEF Init, rest
<1>5. NoSubscriptions.keys = <<>> /\ NoSubscriptions.subs = {} /\ NoSubscriptions.next = 0
      /\ Len(<<>>) = 0 /\ 1 > 0
  BY DEF NoSubscriptions
<1>6. table = [keys |-> <<rest>>, subs |-> {BridgeSub}, next |-> 1]
  <2>1. table = [keys |-> IF 1 > Len(NoSubscriptions.keys) THEN Append(NoSubscriptions.keys, rest)
                                                           ELSE NoSubscriptions.keys,
                 subs |-> NoSubscriptions.subs
                              \cup {[key |-> 1, id |-> NoSubscriptions.next, handler |-> Bridge]},
                 next |-> NoSubscriptions.next + 1]
    BY <1>4 DEF Subscribed
  <2>2. NoSubscriptions.next + 1 = 1
    BY <1>5
  <2> QED BY <1>3, <1>5, <2>1, <2>2 DEF BridgeSub
<1>7. BridgeSub \in Subs /\ BridgeSub.id = 0 /\ BridgeSub.key = 1 /\ BridgeSub.handler = Bridge
  BY DEF BridgeSub, Subs
<1>8. watching = [w \in Watchers |-> "not"]
  BY DEF Init
<1>. HIDE DEF BridgeSub, Subs
<1>9. /\ table \in [keys : Seq(Seq(Tokens)), subs : SUBSET Subs, next : Nat]
      /\ Len(table.keys) = 1 /\ table.keys[1] = rest
      /\ table.subs = {BridgeSub} /\ table.next = 1
  BY <1>3, <1>6, <1>7
<1> QED BY <1>7, <1>8, <1>9 DEF TableInv, rest

\* Subscribing adds one entry under the handler's pattern.
LEMMA SubscribedFacts ==
    ASSUME TableInv, NEW w \in Watchers
    PROVE  LET t == Subscribed(table, PatternOf[w], w)
           IN  /\ t \in [keys : Seq(Seq(Tokens)), subs : SUBSET Subs, next : Nat]
               /\ Len(t.keys) >= Len(table.keys)
               /\ \A i \in 1..Len(table.keys) : t.keys[i] = table.keys[i]
               /\ t.next = table.next + 1
               /\ \E i \in 1..Len(t.keys) :
                     /\ t.keys[i] = PatternOf[w]
                     /\ t.subs = table.subs \cup {[key |-> i, id |-> table.next, handler |-> w]}
<1>. DEFINE i == KeyFor(table, PatternOf[w])
            n == Len(table.keys)
            ks == IF i > n THEN Append(table.keys, PatternOf[w]) ELSE table.keys
<1>1. table.keys \in Seq(Seq(Tokens)) /\ n \in Nat /\ PatternOf[w] \in Seq(Tokens)
      /\ table.subs \subseteq Subs /\ table.next \in Nat
  <2>1. PatternOf[w] \in Seq(STRING) /\ STRING \subseteq Tokens
    BY TwinAssumption DEF Tokens
  <2>2. PatternOf[w] \in Seq(Tokens)
    BY <2>1, SeqMonotonic
  <2> QED BY <2>2 DEF TableInv
<1>2. i \in 1..n + 1 /\ (i <= n => table.keys[i] = PatternOf[w])
  BY <1>1, KeyFound
<1>3. Subscribed(table, PatternOf[w], w) =
          [keys |-> ks,
           subs |-> table.subs \cup {[key |-> i, id |-> table.next, handler |-> w]},
           next |-> table.next + 1]
  BY DEF Subscribed
<1>. HIDE DEF i
<1>4. /\ ks \in Seq(Seq(Tokens)) /\ Len(ks) >= n /\ i \in 1..Len(ks) /\ ks[i] = PatternOf[w]
      /\ \A j \in 1..n : ks[j] = table.keys[j]
  <2>1. CASE i > n
    <3>1. Append(table.keys, PatternOf[w]) \in Seq(Seq(Tokens)) /\ i = n + 1
          /\ Len(Append(table.keys, PatternOf[w])) = n + 1
          /\ \A j \in 1..n : Append(table.keys, PatternOf[w])[j] = table.keys[j]
          /\ Append(table.keys, PatternOf[w])[n + 1] = PatternOf[w]
      BY <1>1, <1>2, <2>1, AppendProperties
    <3>2. ks = Append(table.keys, PatternOf[w])
      BY <2>1
    <3> HIDE DEF ks
    <3> QED BY <1>1, <3>1, <3>2
  <2>2. CASE ~(i > n)
    BY <1>1, <1>2, <2>2
  <2> QED BY <2>1, <2>2
<1>5. [key |-> i, id |-> table.next, handler |-> w] \in Subs
  BY <1>1, <1>2 DEF Subs
<1>. HIDE DEF ks
<1> QED BY <1>1, <1>3, <1>4, <1>5

\* Steps that leave the table alone.
LEMMA TableIdle ==
    ASSUME TableInv, UNCHANGED <<table, watching>>
    PROVE  TableInv'
BY DEF TableInv

\* Watch(): the watcher's entry is the only one with its handler and its id.
LEMMA WatchKeeps == ASSUME TableInv, NEW w \in Watchers, Watch(w) PROVE TableInv'
<1>1. /\ watching \in [Watchers -> {"not", "in", "left"}] /\ watching[w] = "not"
      /\ watching' = [watching EXCEPT ![w] = "in"]
      /\ table' = Subscribed(table, PatternOf[w], w)
  BY DEF Watch, TableInv
<1>2. /\ table' \in [keys : Seq(Seq(Tokens)), subs : SUBSET Subs, next : Nat]
      /\ Len(table'.keys) >= Len(table.keys)
      /\ \A i \in 1..Len(table.keys) : table'.keys[i] = table.keys[i]
      /\ table'.next = table.next + 1
  BY <1>1, SubscribedFacts
<1>3. PICK i \in 1..Len(table'.keys) :
          /\ table'.keys[i] = PatternOf[w]
          /\ table'.subs = table.subs \cup {[key |-> i, id |-> table.next, handler |-> w]}
  BY <1>1, SubscribedFacts
<1>. DEFINE new == [key |-> i, id |-> table.next, handler |-> w]
<1>4. /\ Len(table.keys) \in Nat /\ Len(table.keys) > 0 /\ table.next \in Nat /\ w # Bridge
      /\ BridgeSub \in table.subs /\ table.keys[1] = <<Rest>> /\ table.subs \subseteq Subs
      /\ Len(table'.keys) \in Nat /\ BridgeSub.id = 0 /\ BridgeSub.handler = Bridge
  <2>1. /\ table.keys \in Seq(Seq(Tokens)) /\ Len(table.keys) > 0 /\ table.next \in Nat
        /\ table.keys[1] = <<Rest>> /\ table.subs \subseteq Subs /\ BridgeSub \in table.subs
    BY DEF TableInv
  <2>2. w # Bridge /\ BridgeSub.id = 0 /\ BridgeSub.handler = Bridge
    BY NamesDiffer DEF BridgeSub
  <2>3. table'.keys \in Seq(Seq(Tokens))
    BY <1>2, Zenon
  <2> HIDE DEF new
  <2>4. Len(table.keys) \in Nat /\ Len(table'.keys) \in Nat
    BY <2>1, <2>3, LenProperties
  <2> QED BY <2>1, <2>2, <2>4, Zenon
<1>5. \A t \in table.subs :
          /\ t.key \in 1..Len(table.keys) /\ t.id < table.next /\ t.id \in Nat
          /\ t.handler # w
          /\ \/ t = BridgeSub
             \/ /\ t.id > 0 /\ t.handler \in Watchers /\ watching[t.handler] = "in"
                /\ table.keys[t.key] = PatternOf[t.handler]
  BY <1>1, <1>4 DEF TableInv, Subs
<1>6. table.next > 0
  BY <1>4, <1>5
<1>7. new.key = i /\ new.id = table.next /\ new.handler = w
  OBVIOUS
<1>. HIDE DEF new
<1>8. table'.subs = table.subs \cup {new} /\ table'.keys[i] = PatternOf[w]
  BY <1>3 DEF new
<1>9. \A t \in table'.subs :
          /\ t.key \in 1..Len(table'.keys) /\ t.id < table'.next
          /\ \/ t = BridgeSub
             \/ /\ t.id > 0 /\ t.handler \in Watchers /\ watching'[t.handler] = "in"
                /\ table'.keys[t.key] = PatternOf[t.handler]
  <2>1. ASSUME NEW t \in table.subs
        PROVE  /\ t.key \in 1..Len(table'.keys) /\ t.id < table'.next
               /\ \/ t = BridgeSub
                  \/ /\ t.id > 0 /\ t.handler \in Watchers /\ watching'[t.handler] = "in"
                     /\ table'.keys[t.key] = PatternOf[t.handler]
    <3>. DEFINE m == Len(table'.keys)
                n == Len(table.keys)
    <3>1. t.key \in 1..n /\ t.id < table.next /\ t.id \in Nat
      BY <1>5
    <3>2. m \in Nat /\ n \in Nat /\ m >= n /\ table.next \in Nat /\ table'.next = table.next + 1
      BY <1>2, <1>4
    <3>3. table'.keys[t.key] = table.keys[t.key]
      BY <1>2, <3>1, Zenon
    <3> HIDE DEF m, n
    <3>4. t.key \in 1..m /\ t.id < table'.next
      BY <3>1, <3>2
    <3>5. t.key \in 1..Len(table'.keys) /\ t.id < table'.next /\ table'.keys[t.key] = table.keys[t.key]
      BY <3>3, <3>4 DEF m
    <3>6. t.handler \in Watchers => watching'[t.handler] = watching[t.handler]
      BY <1>1, <1>5
    <3> QED BY <1>5, <3>5, <3>6
  <2>2. /\ new.key \in 1..Len(table'.keys) /\ new.id < table'.next /\ new.id > 0
        /\ new.handler \in Watchers /\ watching'[new.handler] = "in"
        /\ table'.keys[new.key] = PatternOf[new.handler]
    BY <1>1, <1>2, <1>4, <1>6, <1>7, <1>8
  <2> QED BY <1>8, <2>1, <2>2
<1>10. \A s, t \in table'.subs : s.id = t.id \/ s.handler = t.handler => s = t
  <2>1. \A t \in table.subs : t.id # new.id /\ t.handler # new.handler
    BY <1>4, <1>5, <1>7
  <2>2. \A s, t \in table.subs : s.id = t.id \/ s.handler = t.handler => s = t
    BY DEF TableInv
  <2> QED BY <1>8, <2>1, <2>2
<1>11. \A v \in Watchers : watching'[v] = "in" => \E t \in table'.subs : t.handler = v
  <2>1. \A v \in Watchers : v # w => watching'[v] = watching[v]
    BY <1>1
  <2>2. \A v \in Watchers : watching[v] = "in" => \E t \in table.subs : t.handler = v
    BY DEF TableInv
  <2> QED BY <1>7, <1>8, <2>1, <2>2
<1>12. watching' \in [Watchers -> {"not", "in", "left"}]
  BY <1>1
<1>13. Len(table'.keys) > 0 /\ table'.keys[1] = <<Rest>> /\ BridgeSub \in table'.subs
  <2>1. 1 \in 1..Len(table.keys) /\ Len(table'.keys) > 0
    BY <1>2, <1>4
  <2> QED BY <1>2, <1>4, <1>8, <2>1, Zenon
<1> QED BY <1>2, <1>9, <1>10, <1>11, <1>12, <1>13, Zenon DEF TableInv

\* Unwatch(): its entry goes, and no other.
LEMMA UnwatchKeeps == ASSUME TableInv, NEW w \in Watchers, Unwatch(w) PROVE TableInv'
<1>1. /\ watching \in [Watchers -> {"not", "in", "left"}] /\ watching[w] = "in"
      /\ watching' = [watching EXCEPT ![w] = "left"]
  BY DEF Unwatch, TableInv
<1>2. PICK x \in table.subs : x.handler = w /\ table' = Unsubscribed(table, x.id)
  BY DEF Unwatch
<1>3. \A s, t \in table.subs : s.id = t.id \/ s.handler = t.handler => s = t
  BY DEF TableInv
<1>4. /\ table' \in [keys : Seq(Seq(Tokens)), subs : SUBSET Subs, next : Nat]
      /\ table'.keys = table.keys /\ table'.next = table.next
      /\ table'.subs = {s \in table.subs : s.id # x.id}
  BY <1>2 DEF TableInv, Unsubscribed
<1>5. table'.subs = table.subs \ {x}
  BY <1>2, <1>3, <1>4
<1>6. \A t \in table'.subs : t \in table.subs /\ t.handler # w
  BY <1>2, <1>3, <1>5
<1>7. BridgeSub \in table'.subs
  <2>1. BridgeSub \in table.subs /\ BridgeSub # x
    BY <1>2, NamesDiffer DEF TableInv, BridgeSub
  <2> QED BY <1>5, <2>1
<1>8. watching' \in [Watchers -> {"not", "in", "left"}]
      /\ \A v \in Watchers : v # w => watching'[v] = watching[v]
      /\ watching'[w] = "left"
  BY <1>1
<1>9. \A t \in table'.subs :
          /\ t.key \in 1..Len(table'.keys) /\ t.id < table'.next
          /\ \/ t = BridgeSub
             \/ /\ t.id > 0 /\ t.handler \in Watchers /\ watching'[t.handler] = "in"
                /\ table'.keys[t.key] = PatternOf[t.handler]
  BY <1>4, <1>6, <1>8 DEF TableInv
<1>10. \A v \in Watchers : watching'[v] = "in" => \E t \in table'.subs : t.handler = v
  <2> SUFFICES ASSUME NEW v \in Watchers, watching'[v] = "in"
               PROVE  \E t \in table'.subs : t.handler = v
    OBVIOUS
  <2>1. v # w
    BY <1>1
  <2>2. PICK t \in table.subs : t.handler = v
    BY <1>8, <2>1 DEF TableInv
  <2> QED BY <1>2, <1>5, <2>1, <2>2
<1>11. Len(table'.keys) > 0 /\ table'.keys[1] = <<Rest>>
  BY <1>4 DEF TableInv
<1>12. \A s, t \in table'.subs : s.id = t.id \/ s.handler = t.handler => s = t
  BY <1>3, <1>6
<1> QED BY <1>4, <1>7, <1>8, <1>9, <1>10, <1>11, <1>12, Zenon DEF TableInv

\* Every step keeps the table as it should be.
LEMMA TableKept == TableInv /\ [Next]_vars => TableInv'
<1>. SUFFICES ASSUME TableInv, [Next]_vars PROVE TableInv'
  OBVIOUS
<1>1. ASSUME NEW w \in Watchers, Watch(w) \/ Unwatch(w) PROVE TableInv'
  BY <1>1, WatchKeeps, UnwatchKeeps
<1>2. CASE UNCHANGED vars
  BY <1>2, TableIdle DEF vars, busVars
<1>3. ASSUME NEW p \in Publishers, Change(p) \/ PublisherStep(p) PROVE TableInv'
  BY <1>3, TableIdle
     DEF Change, PublisherStep, Publish, CallWatcher, CallBridge, CallSink, EndBroadcast, busVars
<1>4. CASE RunReady
  BY <1>4, TableIdle DEF RunReady, busVars
<1>5. ASSUME NEW c \in Connections,
             Connect(c) \/ EndLook(c) \/ Receive(c) \/ Heartbeat(c) \/ Disconnect(c) \/ Break(c)
      PROVE  TableInv'
  BY <1>5, TableIdle DEF Connect, EndLook, Receive, Heartbeat, Disconnect, Break, busVars
<1> QED BY <1>1, <1>2, <1>3, <1>4, <1>5 DEF Next

-----------------------------------------------------------------------------
(* Types.                                                                  *)

\* Publishers and connections.
CallTyped ==
    /\ cast \in Casts
    /\ made \in [Publishers -> Nat]
    /\ pc \in [Publishers -> {"idle", "changed", "calling", "sinking"}]
    /\ handlers \in [Publishers -> SUBSET Subs]
    /\ todo \in [Publishers -> SUBSET Connections]
    /\ dead \in [Publishers -> SUBSET Connections]
    /\ \A p \in Publishers :
          /\ \A t \in handlers[p] : t = BridgeSub \/ (t.key > 0 /\ t.id > 0 /\ t.handler \in Watchers)
          /\ pc[p] # "idle" => made[p] > 0
          /\ pc[p] \in {"idle", "changed"} => handlers[p] = {}
          /\ pc[p] # "sinking" => todo[p] = {} /\ dead[p] = {}
    /\ sinks \subseteq Connections /\ joined \in Seq(Connections)
    /\ stage \in [Connections -> {"new", "live", "gone", "broken"}]

\* What flows from the ones to the others.
Messages == [to : Connections, event : Done]
FlowTyped ==
    /\ heard \in [Watchers -> SUBSET Done]
    /\ looking \in [who : Connections \cup {Nobody}, from : SUBSET Done]
    /\ seen \in [Connections -> SUBSET Done]
    /\ queue \in [Connections -> Seq(Done)] /\ got \in [Connections -> Seq(Done)]
    /\ ready \in Seq(Messages)
    /\ owed \subseteq Done \X Watchers /\ failed \subseteq Done

\* Both and the table are what the type invariant says, and more.
LEMMA TypesMean == TableInv /\ CallTyped /\ FlowTyped => TwinTypeOK
<1>. SUFFICES ASSUME TableInv, CallTyped, FlowTyped PROVE TwinTypeOK
  OBVIOUS
<1>1. \A t \in table.subs : t.handler \in Watchers \cup {Bridge} /\ t.key \in DOMAIN table.keys
  BY DEF TableInv, Subs
<1>2. \A p \in Publishers : \A t \in handlers[p] : t.handler \in Watchers \cup {Bridge}
  BY DEF CallTyped, BridgeSub
<1>3. looking.who \in Connections \cup {Nobody} /\ looking.from \subseteq Done
  BY DEF FlowTyped
<1>4. \A i \in DOMAIN ready : ready[i].to \in Connections /\ ready[i].event \in Done
  <2>1. \A i \in DOMAIN ready : ready[i] \in Messages
    BY DEF FlowTyped
  <2> QED BY <2>1 DEF Messages
<1> QED BY <1>1, <1>2, <1>3, <1>4 DEF TwinTypeOK, TableInv, CallTyped, FlowTyped

\* The types hold at first.
LEMMA TypesStart == Init => CallTyped /\ FlowTyped
<1>. SUFFICES ASSUME Init PROVE CallTyped /\ FlowTyped
  OBVIOUS
<1>1. <<>> \in Seq(Done) /\ <<>> \in Seq(Connections) /\ <<>> \in Seq(Messages)
  OBVIOUS
<1> QED BY <1>1 DEF Init, CallTyped, FlowTyped, Idle

\* A step of a publisher keeps the types of the calls.
LEMMA CallsKeptByPublishers ==
    ASSUME TableInv, CallTyped, NEW p \in Publishers, Change(p) \/ PublisherStep(p)
    PROVE  CallTyped'
<1>1. CASE Change(p)
  BY <1>1 DEF Change, CallTyped, streamVars
<1>2. CASE Publish(p)
  <2>1. HandlersFor(table, SubjectOf[p]) \subseteq table.subs
    BY DEF HandlersFor
  <2>2. \A t \in table.subs : t \in Subs /\ (t = BridgeSub \/ (t.key > 0 /\ t.id > 0 /\ t.handler \in Watchers))
    BY DEF TableInv
  <2>3. /\ handlers' \in [Publishers -> SUBSET Subs]
        /\ \A t \in handlers'[p] : t = BridgeSub \/ (t.key > 0 /\ t.id > 0 /\ t.handler \in Watchers)
        /\ \A q \in Publishers : q # p => handlers'[q] = handlers[q]
    BY <1>2, <2>1, <2>2 DEF Publish, CallTyped
  <2>4. /\ pc[p] = "changed" /\ pc' = [pc EXCEPT ![p] = IF handlers'[p] = {} THEN "idle" ELSE "calling"]
        /\ UNCHANGED <<cast, todo, dead, sinks, joined, stage, made>>
    BY <1>2 DEF Publish, streamVars
  <2> QED BY <2>3, <2>4 DEF CallTyped
<1>3. CASE CallWatcher(p)
  <2>1. PICK hs \in SUBSET handlers[p] : Proceed(p, hs)
    BY <1>3 DEF CallWatcher
  <2>2. pc[p] = "calling" /\ UNCHANGED <<cast, todo, dead, sinks, joined, stage, made>>
    BY <1>3 DEF CallWatcher, streamVars
  <2> QED BY <2>1, <2>2 DEF Proceed, CallTyped
<1>4. CASE CallBridge(p)
  BY <1>4 DEF CallBridge, CallTyped, streamVars
<1>5. CASE CallSink(p)
  <2>1. PICK c \in todo[p] :
            /\ todo' = [todo EXCEPT ![p] = @ \ {c}]
            /\ \/ dead' = [dead EXCEPT ![p] = @ \cup {c}]
               \/ UNCHANGED dead
    BY <1>5 DEF CallSink
  <2>2. pc[p] = "sinking" /\ UNCHANGED <<cast, pc, handlers, sinks, joined, stage, made>>
    BY <1>5 DEF CallSink, streamVars
  <2>3. /\ todo' \in [Publishers -> SUBSET Connections] /\ dead' \in [Publishers -> SUBSET Connections]
        /\ \A q \in Publishers : q # p => todo'[q] = todo[q] /\ dead'[q] = dead[q]
    <3>1. todo \in [Publishers -> SUBSET Connections] /\ dead \in [Publishers -> SUBSET Connections]
      BY DEF CallTyped
    <3>2. todo[p] \ {c} \in SUBSET Connections /\ dead[p] \cup {c} \in SUBSET Connections
      BY <2>1, <3>1
    <3>3. todo' = [todo EXCEPT ![p] = todo[p] \ {c}]
          /\ (dead' = [dead EXCEPT ![p] = dead[p] \cup {c}] \/ dead' = dead)
      BY <2>1
    <3> QED BY <3>1, <3>2, <3>3
  <2> QED BY <2>2, <2>3 DEF CallTyped
<1>6. CASE EndBroadcast(p)
  <2>1. PICK hs \in SUBSET handlers[p] : Proceed(p, hs)
    BY <1>6 DEF EndBroadcast
  <2>2. /\ pc[p] = "sinking" /\ todo[p] = {} /\ dead' = [dead EXCEPT ![p] = {}]
        /\ sinks' \subseteq sinks
        /\ UNCHANGED <<cast, todo, joined, stage, made>>
    BY <1>6 DEF EndBroadcast, Pruned
  <2> QED BY <2>1, <2>2 DEF Proceed, CallTyped
<1> QED BY <1>1, <1>2, <1>3, <1>4, <1>5, <1>6 DEF PublisherStep

\* Every step does.
LEMMA CallsKept == TableInv /\ CallTyped /\ [Next]_vars => CallTyped'
<1>. SUFFICES ASSUME TableInv, CallTyped, [Next]_vars PROVE CallTyped'
  OBVIOUS
<1>1. ASSUME NEW p \in Publishers, Change(p) \/ PublisherStep(p) PROVE CallTyped'
  BY <1>1, CallsKeptByPublishers
<1>2. ASSUME UNCHANGED <<cast, callVars, made, sinks, joined, stage>> PROVE CallTyped'
  BY <1>2 DEF CallTyped, callVars
<1>3. CASE UNCHANGED vars
  BY <1>2, <1>3 DEF vars, callVars, streamVars
<1>4. ASSUME NEW w \in Watchers, Watch(w) \/ Unwatch(w) PROVE CallTyped'
  BY <1>2, <1>4 DEF Watch, Unwatch, streamVars
<1>5. CASE RunReady
  BY <1>2, <1>5 DEF RunReady
<1>6. ASSUME NEW c \in Connections, EndLook(c) \/ Receive(c) \/ Heartbeat(c) PROVE CallTyped'
  BY <1>2, <1>6 DEF EndLook, Receive, Heartbeat
<1>7. ASSUME NEW c \in Connections, Connect(c) PROVE CallTyped'
  <2>1. Append(joined, c) \in Seq(Connections)
    BY DEF CallTyped
  <2> QED BY <1>7, <2>1 DEF Connect, AddSink, CallTyped, callVars
<1>8. ASSUME NEW c \in Connections, Disconnect(c) \/ Break(c) PROVE CallTyped'
  BY <1>8 DEF Disconnect, DropSink, Break, CallTyped, callVars
<1> QED BY <1>1, <1>3, <1>4, <1>5, <1>6, <1>7, <1>8 DEF Next

\* Who made a change, and which of his it was.
LEMMA DoneIs ==
    ASSUME CallTyped
    PROVE  \A e : e \in Done <=> /\ e = [by |-> e.by, n |-> e.n]
                                 /\ e.by \in Publishers /\ e.n \in 1..made[e.by]
<1>. SUFFICES ASSUME NEW e
              PROVE  e \in Done <=> /\ e = [by |-> e.by, n |-> e.n]
                                    /\ e.by \in Publishers /\ e.n \in 1..made[e.by]
  OBVIOUS
<1>1. e \in Done <=> \E p \in Publishers : \E k \in 1..made[p] : e = [by |-> p, n |-> k]
  BY DEF Done
<1>2. ASSUME NEW p \in Publishers, NEW k \in 1..made[p], e = [by |-> p, n |-> k]
      PROVE  e = [by |-> e.by, n |-> e.n] /\ e.by \in Publishers /\ e.n \in 1..made[e.by]
  BY <1>2
<1> QED BY <1>1, <1>2

\* What a publisher is publishing was done.
LEMMA CurrentIsDone ==
    ASSUME CallTyped, NEW p \in Publishers, pc[p] # "idle"
    PROVE  Current(p) \in Done
<1>1. made[p] \in Nat /\ made[p] > 0
  BY DEF CallTyped
<1>2. made[p] \in 1..made[p]
  BY <1>1
<1> QED BY <1>2 DEF Done, Current

\* A change is one more that was done.
LEMMA ChangeAdds ==
    ASSUME CallTyped, NEW p \in Publishers, Change(p)
    PROVE  /\ Done \subseteq Done'
           /\ \A e \in Done' : e \in Done \/ e = Current(p)'
           /\ Current(p)' \notin Done
           /\ \A q \in Publishers : q # p => Current(q)' = Current(q)
<1>1. made \in [Publishers -> Nat] /\ made' = [made EXCEPT ![p] = @ + 1]
  BY DEF Change, CallTyped
<1>2. /\ made[p] \in Nat /\ made'[p] = made[p] + 1
      /\ \A q \in Publishers : q # p => made'[q] = made[q]
  BY <1>1
<1>3. ASSUME NEW e \in Done PROVE e \in Done'
  <2>1. PICK q \in Publishers : \E k \in 1..made[q] : e = [by |-> q, n |-> k]
    BY DEF Done
  <2>2. 1..made[q] \subseteq 1..made'[q]
    BY <1>2
  <2> QED BY <2>1, <2>2 DEF Done
<1>4. ASSUME NEW e \in Done' PROVE e \in Done \/ e = Current(p)'
  <2>. PICK q \in Publishers : \E k \in 1..made'[q] : e = [by |-> q, n |-> k]
    BY DEF Done
  <2>1. PICK k \in 1..made'[q] : e = [by |-> q, n |-> k]
    OBVIOUS
  <2>2. CASE k \in 1..made[q]
    BY <2>1, <2>2 DEF Done
  <2>3. CASE k \notin 1..made[q]
    <3>1. q = p /\ k = made'[p]
      BY <1>2, <2>3
    <3> QED BY <2>1, <3>1 DEF Current
  <2> QED BY <2>2, <2>3
<1>5. Current(p)' \notin Done
  <2>1. Current(p)'.by = p /\ Current(p)'.n = made[p] + 1
    BY <1>2 DEF Current
  <2>2. made[p] + 1 \notin 1..made[p]
    BY <1>2
  <2> QED BY <2>1, <2>2, DoneIs
<1>6. ASSUME NEW q \in Publishers, q # p PROVE Current(q)' = Current(q)
  BY <1>2, <1>6 DEF Current
<1> QED BY <1>3, <1>4, <1>5, <1>6

\* What was typed stays so when more is done.
LEMMA FlowGrows ==
    ASSUME FlowTyped, Done \subseteq Done',
           UNCHANGED <<heard, looking, seen, queue, got, ready, owed, failed>>
    PROVE  FlowTyped'
<1>1. ASSUME NEW q \in [Connections -> Seq(Done)] PROVE q \in [Connections -> Seq(Done')]
  <2>1. \A c \in Connections : q[c] \in Seq(Done')
    BY SeqMonotonic
  <2> QED BY <2>1
<1>2. ready \in Seq(Messages')
  <2>1. Messages \subseteq Messages'
    BY DEF Messages
  <2> QED BY <2>1, SeqMonotonic DEF FlowTyped
<1>3. looking \in [who : Connections \cup {Nobody}, from : SUBSET Done']
  BY DEF FlowTyped
<1>4. queue \in [Connections -> Seq(Done')] /\ got \in [Connections -> Seq(Done')]
  BY <1>1 DEF FlowTyped
<1>5. /\ heard \in [Watchers -> SUBSET Done'] /\ seen \in [Connections -> SUBSET Done']
      /\ owed \subseteq Done' \X Watchers /\ failed \subseteq Done'
  BY DEF FlowTyped
<1> QED BY <1>2, <1>3, <1>4, <1>5 DEF FlowTyped

\* A step of a publisher keeps the types of what flows.
LEMMA FlowKeptByPublishers ==
    ASSUME CallTyped, FlowTyped, NEW p \in Publishers, Change(p) \/ PublisherStep(p)
    PROVE  FlowTyped'
<1>1. CASE Change(p)
  BY <1>1, ChangeAdds, FlowGrows DEF Change, busVars, streamVars
<1>2. ASSUME made' = made PROVE Done' = Done /\ Messages' = Messages
  BY <1>2 DEF Done, Messages
<1>3. CASE Publish(p)
  <2>1. made' = made /\ UNCHANGED <<heard, streamVars, ready, failed>>
    BY <1>3 DEF Publish
  <2>2. Current(p) \in Done
    BY <1>3, CurrentIsDone DEF Publish
  <2>3. owed' \subseteq Done \X Watchers
    BY <1>3, <2>2 DEF Publish, FlowTyped
  <2> QED BY <1>2, <2>1, <2>3 DEF FlowTyped, streamVars
<1>4. CASE CallWatcher(p)
  <2>1. /\ made' = made /\ UNCHANGED <<owed, streamVars, ready>>
        /\ failed' \subseteq failed \cup {Current(p)}
        /\ \E w : heard' = [heard EXCEPT ![w] = @ \cup {Current(p)}]
    BY <1>4 DEF CallWatcher
  <2>2. Current(p) \in Done
    BY <1>4, CurrentIsDone DEF CallWatcher
  <2>3. heard' \in [Watchers -> SUBSET Done]
    <3>1. heard \in [Watchers -> SUBSET Done]
      BY DEF FlowTyped
    <3>2. PICK w : heard' = [heard EXCEPT ![w] = @ \cup {Current(p)}]
      BY <2>1, Zenon
    <3> HIDE DEF FlowTyped
    <3> QED BY <2>2, <3>1, <3>2
  <2>4. Done' = Done /\ Messages' = Messages
    BY <1>2, <2>1
  <2>5. failed \subseteq Done
    BY DEF FlowTyped
  <2>6. failed' \subseteq Done
    BY <2>1, <2>2, <2>5, Zenon
  <2> QED BY <2>1, <2>3, <2>4, <2>6 DEF FlowTyped, streamVars
<1>5. CASE CallBridge(p)
  BY <1>2, <1>5 DEF CallBridge, FlowTyped, busVars, streamVars
<1>6. CASE CallSink(p)
  <2>1. PICK c \in todo[p] : ready' = ready \/ ready' = Append(ready, [to |-> c, event |-> Current(p)])
    BY <1>6 DEF CallSink
  <2>2. Current(p) \in Done /\ c \in Connections
    BY <1>6, CurrentIsDone DEF CallSink, CallTyped
  <2>3. ready' \in Seq(Messages)
    <3>1. [to |-> c, event |-> Current(p)] \in Messages /\ ready \in Seq(Messages)
      BY <2>2 DEF FlowTyped, Messages
    <3> QED BY <2>1, <3>1, AppendProperties
  <2>4. made' = made /\ UNCHANGED <<heard, owed, failed, streamVars>>
    BY <1>6 DEF CallSink, busVars
  <2> QED BY <1>2, <2>3, <2>4 DEF FlowTyped, streamVars
<1>7. CASE EndBroadcast(p)
  BY <1>2, <1>7 DEF EndBroadcast, FlowTyped, busVars
<1> QED BY <1>1, <1>3, <1>4, <1>5, <1>6, <1>7 DEF PublisherStep

\* What the event loop does with the first of the callbacks.
LEMMA RunFacts ==
    ASSUME FlowTyped, RunReady
    PROVE  LET r == ready[1] IN
           /\ ready # <<>> /\ ready \in Seq(Messages) /\ ready' = Tail(ready)
           /\ r = [to |-> r.to, event |-> r.event] /\ r.to \in Connections /\ r.event \in Done
           /\ ToSet(ready) = ToSet(ready') \cup {r}
           /\ queue' \in [Connections -> Seq(Done)]
           /\ queue'[r.to] = Append(queue[r.to], r.event)
           /\ ToSet(queue'[r.to]) = ToSet(queue[r.to]) \cup {r.event}
           /\ \A c \in Connections : c # r.to => queue'[c] = queue[c]
           /\ UNCHANGED <<made, pc, handlers, todo, looking, stage, seen, got>>
<1>1. /\ ready # <<>> /\ ready' = RemoveAt(ready, 1)
      /\ queue' = [queue EXCEPT ![ready[1].to] = Append(@, ready[1].event)]
      /\ UNCHANGED <<made, pc, handlers, todo, looking, stage, seen, got>>
  BY DEF RunReady, NextReady, callVars
<1>2. ready \in Seq(Messages)
  BY DEF FlowTyped
<1>3. ready[1] \in Messages
  BY <1>1, <1>2, EmptySeq, ElementOfSeq
<1>4. ready' = Tail(ready)
  BY <1>1, <1>2, RemoveFirstIsTail
<1>5. ToSet(ready) = ToSet(Tail(ready)) \cup {ready[1]}
  BY <1>1, <1>2, <1>3, ElementsOf
<1>6. /\ ready[1].to \in Connections /\ ready[1].event \in Done
      /\ ready[1] = [to |-> ready[1].to, event |-> ready[1].event]
  BY <1>3 DEF Messages
<1>7. /\ queue' \in [Connections -> Seq(Done)]
      /\ queue'[ready[1].to] = Append(queue[ready[1].to], ready[1].event)
      /\ queue[ready[1].to] \in Seq(Done)
      /\ \A c \in Connections : c # ready[1].to => queue'[c] = queue[c]
  BY <1>1, <1>6 DEF FlowTyped
<1>8. ToSet(queue'[ready[1].to]) = ToSet(queue[ready[1].to]) \cup {ready[1].event}
  BY <1>6, <1>7, ElementsOf
<1> QED BY <1>1, <1>2, <1>4, <1>5, <1>6, <1>7, <1>8, Zenon

\* What a connection does with the first event of its queue.
LEMMA ReceiveFacts ==
    ASSUME FlowTyped, NEW c \in Connections, Receive(c)
    PROVE  LET e == Head(queue[c]) IN
           /\ queue[c] # <<>> /\ e \in Done
           /\ queue[c] \in Seq(Done) /\ got[c] \in Seq(Done)
           /\ queue'[c] = Tail(queue[c]) /\ got'[c] = Append(got[c], e)
           /\ ToSet(queue[c]) = ToSet(queue'[c]) \cup {e}
           /\ ToSet(got'[c]) = ToSet(got[c]) \cup {e}
           /\ \A d \in Connections : d # c => queue'[d] = queue[d] /\ got'[d] = got[d]
           /\ UNCHANGED <<made, pc, handlers, todo, looking, stage, seen, ready>>
<1>1. /\ queue[c] # <<>> /\ queue' = [queue EXCEPT ![c] = Tail(@)]
      /\ got' = [got EXCEPT ![c] = Append(@, Head(queue[c]))]
      /\ UNCHANGED <<made, pc, handlers, todo, looking, stage, seen, ready>>
  BY DEF Receive, callVars
<1>2. /\ queue[c] \in Seq(Done) /\ got[c] \in Seq(Done)
      /\ queue'[c] = Tail(queue[c]) /\ got'[c] = Append(got[c], Head(queue[c]))
      /\ \A d \in Connections : d # c => queue'[d] = queue[d] /\ got'[d] = got[d]
  BY <1>1 DEF FlowTyped
<1>3. Head(queue[c]) \in Done
  BY <1>1, <1>2, HeadTailProperties
<1>4. /\ ToSet(queue[c]) = ToSet(queue'[c]) \cup {Head(queue[c])}
      /\ ToSet(got'[c]) = ToSet(got[c]) \cup {Head(queue[c])}
  BY <1>1, <1>2, <1>3, ElementsOf
<1> QED BY <1>1, <1>2, <1>3, <1>4, Zenon

\* Every step does.
LEMMA FlowKept == CallTyped /\ FlowTyped /\ [Next]_vars => FlowTyped'
<1>. SUFFICES ASSUME CallTyped, FlowTyped, [Next]_vars PROVE FlowTyped'
  OBVIOUS
<1>1. ASSUME NEW p \in Publishers, Change(p) \/ PublisherStep(p) PROVE FlowTyped'
  BY <1>1, FlowKeptByPublishers
<1>2. ASSUME made' = made PROVE Done' = Done /\ Messages' = Messages
  BY <1>2 DEF Done, Messages
<1>3. CASE UNCHANGED vars
  BY <1>2, <1>3 DEF vars, busVars, streamVars, FlowTyped
<1>4. ASSUME NEW w \in Watchers, Watch(w) \/ Unwatch(w) PROVE FlowTyped'
  BY <1>2, <1>4 DEF Watch, Unwatch, streamVars, FlowTyped
<1>5. CASE RunReady
  <2>1. /\ ready' = Tail(ready) /\ ready \in Seq(Messages) /\ ready # <<>>
        /\ queue' \in [Connections -> Seq(Done)]
        /\ UNCHANGED <<made, looking, seen, got>>
    BY <1>5, RunFacts
  <2>2. ready' \in Seq(Messages)
    BY <2>1, HeadTailProperties
  <2>3. UNCHANGED <<heard, owed, failed>>
    BY <1>5 DEF RunReady, busVars
  <2> QED BY <1>2, <2>1, <2>2, <2>3 DEF FlowTyped
<1>6. ASSUME NEW c \in Connections, Connect(c) \/ Heartbeat(c) PROVE FlowTyped'
  <2>1. made' = made /\ UNCHANGED <<heard, owed, seen, queue, got, ready, failed>>
    BY <1>6 DEF Connect, Heartbeat, busVars
  <2>2. looking' \in [who : Connections \cup {Nobody}, from : SUBSET Done]
    BY <1>6 DEF Connect, Heartbeat, BeginLook
  <2> QED BY <1>2, <2>1, <2>2 DEF FlowTyped
<1>7. ASSUME NEW c \in Connections, EndLook(c) PROVE FlowTyped'
  <2>1. made' = made /\ UNCHANGED <<heard, owed, queue, got, ready, failed>>
    BY <1>7 DEF EndLook, busVars
  <2>2. /\ looking' \in [who : Connections \cup {Nobody}, from : SUBSET Done]
        /\ seen' \in [Connections -> SUBSET Done]
    BY <1>7 DEF EndLook, Idle, Show, FlowTyped
  <2> QED BY <1>2, <2>1, <2>2 DEF FlowTyped
<1>8. ASSUME NEW c \in Connections, Receive(c) PROVE FlowTyped'
  <2>1. /\ queue[c] # <<>> /\ queue' = [queue EXCEPT ![c] = Tail(@)]
        /\ got' = [got EXCEPT ![c] = Append(@, Head(queue[c]))]
        /\ UNCHANGED <<made, heard, owed, looking, seen, ready, failed>>
    BY <1>8 DEF Receive, busVars
  <2>2. Head(queue[c]) \in Done /\ Tail(queue[c]) \in Seq(Done)
    BY <2>1, HeadTailProperties DEF FlowTyped
  <2> QED BY <1>2, <2>1, <2>2 DEF FlowTyped
<1>9. ASSUME NEW c \in Connections, Disconnect(c) \/ Break(c) PROVE FlowTyped'
  BY <1>2, <1>9 DEF Disconnect, Break, busVars, FlowTyped
<1> QED BY <1>1, <1>3, <1>4, <1>5, <1>6, <1>7, <1>8, <1>9 DEF Next

-----------------------------------------------------------------------------
(* Who hears a publication.                                                *)

\* Watcher w is among those publish() still has to call with event e.
Waits(e, w) == e = Current(e.by) /\ \E t \in handlers[e.by] : t.handler = w

HeardInv ==
    /\ \A w \in Watchers : \A e \in heard[w] : <<e, w>> \in owed
    /\ \A e \in Done : \A w \in Watchers :
          <<e, w>> \in owed => e \in heard[w] \cup failed \/ Waits(e, w)
    /\ \A p \in Publishers : \A t \in handlers[p] :
          t # BridgeSub => <<Current(p), t.handler>> \in owed

\* It is what the property says.
LEMMA HeardMeans == FlowTyped /\ HeardInv => HeardByThoseOwed
<1>. SUFFICES ASSUME FlowTyped, HeardInv PROVE HeardByThoseOwed
  OBVIOUS
<1>1. ASSUME NEW x \in owed
      PROVE  \/ x[1] \in heard[x[2]] \cup failed
             \/ /\ x[1] = Current(x[1].by)
                /\ \E t \in handlers[x[1].by] : t.handler = x[2]
  <2>1. x[1] \in Done /\ x[2] \in Watchers /\ <<x[1], x[2]>> \in owed
    <3>1. x \in Done \X Watchers
      BY DEF FlowTyped
    <3>2. x[1] \in Done /\ x[2] \in Watchers /\ x = <<x[1], x[2]>>
      BY <3>1
    <3> QED BY <3>2
  <2> QED BY <2>1 DEF HeardInv, Waits
<1> QED BY <1>1 DEF HeardByThoseOwed, HeardInv

\* A change is owed to nobody yet.
LEMMA ChangeKeepsHeard ==
    ASSUME CallTyped, FlowTyped, HeardInv, NEW p \in Publishers, Change(p)
    PROVE  HeardInv'
<1>1. UNCHANGED <<heard, owed, handlers, failed>> /\ pc[p] = "idle"
  BY DEF Change, busVars
<1>2. handlers[p] = {}
  BY <1>1 DEF CallTyped
<1>3. /\ Done \subseteq Done'
      /\ \A e \in Done' : e \in Done \/ e = Current(p)'
      /\ \A q \in Publishers : q # p => Current(q)' = Current(q)
  BY ChangeAdds
<1>4. ASSUME NEW e \in Done', NEW w \in Watchers, <<e, w>> \in owed
      PROVE  e \in heard[w] \cup failed \/ Waits(e, w)'
  <2>1. e \in Done
    BY <1>4 DEF FlowTyped
  <2>2. CASE e \in heard[w] \cup failed
    BY <2>2
  <2>3. CASE Waits(e, w)
    <3>1. e.by \in Publishers
      BY <2>1, DoneIs
    <3>2. e.by # p
      BY <1>2, <2>3 DEF Waits
    <3>3. Current(e.by)' = Current(e.by)
      BY <1>3, <3>1, <3>2
    <3> QED BY <1>1, <2>3, <3>3 DEF Waits
  <2> QED BY <1>4, <2>1, <2>2, <2>3 DEF HeardInv
<1>5. ASSUME NEW q \in Publishers, NEW t \in handlers[q], t # BridgeSub
      PROVE  <<Current(q)', t.handler>> \in owed
  <2>1. Current(q)' = Current(q)
    BY <1>2, <1>3
  <2> QED BY <1>5, <2>1 DEF HeardInv
<1> QED BY <1>1, <1>4, <1>5 DEF HeardInv

\* publish() captures those whose pattern covers the subject, and no other watcher.
LEMMA PublishKeepsHeard ==
    ASSUME TableInv, CallTyped, FlowTyped, HeardInv, NEW p \in Publishers, Publish(p)
    PROVE  HeardInv'
<1>1. /\ UNCHANGED <<heard, made, failed>> /\ pc[p] = "changed" /\ handlers[p] = {}
      /\ handlers' = [handlers EXCEPT ![p] = HandlersFor(table, SubjectOf[p])]
      /\ handlers \in [Publishers -> SUBSET Subs]
      /\ owed' = owed \cup {<<Current(p), w>> : w \in {v \in Watchers :
                    watching[v] = "in" /\ Covers(PatternOf[v], SubjectOf[p])}}
  BY DEF Publish, CallTyped
<1>2. Done' = Done /\ \A q : Current(q)' = Current(q)
  BY <1>1 DEF Done, Current
<1>3. ASSUME NEW t \in table.subs, t # BridgeSub
      PROVE  /\ t.handler \in Watchers /\ watching[t.handler] = "in"
             /\ t \in HandlersFor(table, SubjectOf[p])
                   <=> Covers(PatternOf[t.handler], SubjectOf[p])
  <2>1. /\ t.handler \in Watchers /\ watching[t.handler] = "in"
        /\ table.keys[t.key] = PatternOf[t.handler]
    BY <1>3 DEF TableInv
  <2>2. Matches(PatternOf[t.handler], SubjectOf[p]) <=> Covers(PatternOf[t.handler], SubjectOf[p])
    BY <2>1, MatchingIsCovering, TwinAssumption
  <2> QED BY <2>1, <2>2 DEF HandlersFor
<1>4. ASSUME NEW e \in Done, NEW w \in Watchers, <<e, w>> \in owed'
      PROVE  e \in heard[w] \cup failed \/ Waits(e, w)'
  <2>1. CASE <<e, w>> \in owed
    <3>1. CASE Waits(e, w)
      <4>1. e.by # p
        BY <1>1, <3>1 DEF Waits
      <4>2. handlers'[e.by] = handlers[e.by]
        BY <1>1, <4>1
      <4> QED BY <1>2, <3>1, <4>2 DEF Waits
    <3> QED BY <2>1, <3>1 DEF HeardInv
  <2>2. CASE <<e, w>> \notin owed
    <3>1. e = Current(p) /\ watching[w] = "in" /\ Covers(PatternOf[w], SubjectOf[p])
      BY <1>1, <1>4, <2>2
    <3>2. PICK t \in table.subs : t.handler = w
      BY <3>1 DEF TableInv
    <3>3. t # BridgeSub
      BY <3>2, NamesDiffer DEF BridgeSub
    <3>4. t \in handlers'[p]
      BY <1>1, <1>3, <3>1, <3>2, <3>3
    <3>5. e.by = p
      BY <3>1 DEF Current
    <3> QED BY <1>2, <3>1, <3>2, <3>4, <3>5 DEF Waits
  <2> QED BY <2>1, <2>2
<1>5. ASSUME NEW q \in Publishers, NEW t \in handlers'[q], t # BridgeSub
      PROVE  <<Current(q), t.handler>> \in owed'
  <2>1. CASE q # p
    BY <1>1, <1>5, <2>1 DEF HeardInv
  <2>2. CASE q = p
    <3>1. t \in table.subs /\ t \in HandlersFor(table, SubjectOf[p])
      BY <1>1, <2>2 DEF HandlersFor
    <3>2. t.handler \in {v \in Watchers : watching[v] = "in" /\ Covers(PatternOf[v], SubjectOf[p])}
      BY <1>3, <1>5, <3>1
    <3> QED BY <1>1, <2>2, <3>2
  <2> QED BY <2>1, <2>2
<1>6. \A w \in Watchers : \A e \in heard[w] : <<e, w>> \in owed'
  BY <1>1 DEF HeardInv
<1> QED BY <1>1, <1>2, <1>4, <1>5, <1>6 DEF HeardInv

\* A watcher that is called has heard the event; if it raises, the event has failed.
LEMMA CallKeepsHeard ==
    ASSUME CallTyped, FlowTyped, HeardInv, NEW p \in Publishers, CallWatcher(p)
    PROVE  HeardInv'
<1>1. PICK t \in handlers[p] :
          /\ t.handler # Bridge
          /\ heard' = [heard EXCEPT ![t.handler] = @ \cup {Current(p)}]
          /\ \/ Proceed(p, handlers[p] \ {t}) /\ UNCHANGED failed
             \/ Proceed(p, {}) /\ failed' = failed \cup {Current(p)}
  BY DEF CallWatcher
<1>2. UNCHANGED <<made, owed>>
  BY DEF CallWatcher
<1>3. Done' = Done /\ \A q : Current(q)' = Current(q)
  BY <1>2 DEF Done, Current
<1>4. t # BridgeSub /\ t.handler \in Watchers /\ <<Current(p), t.handler>> \in owed
  BY <1>1 DEF HeardInv, CallTyped, BridgeSub
<1>5. /\ heard'[t.handler] = heard[t.handler] \cup {Current(p)}
      /\ \A w \in Watchers : w # t.handler => heard'[w] = heard[w]
  BY <1>1, <1>4 DEF FlowTyped
<1>6. \A w \in Watchers : \A e \in heard'[w] : <<e, w>> \in owed
  BY <1>4, <1>5 DEF HeardInv
<1>7. /\ \A q \in Publishers : q # p => handlers'[q] = handlers[q]
      /\ handlers'[p] \subseteq handlers[p]
  BY <1>1 DEF Proceed, CallTyped
<1>8. ASSUME NEW e \in Done, NEW w \in Watchers, <<e, w>> \in owed
      PROVE  e \in heard'[w] \cup failed' \/ Waits(e, w)'
  <2>1. CASE e \in heard[w] \cup failed
    BY <1>1, <1>5, <2>1
  <2>2. CASE Waits(e, w) /\ e.by # p
    <3>1. handlers'[e.by] = handlers[e.by]
      BY <1>7, <2>2, DoneIs
    <3> QED BY <1>3, <2>2, <3>1 DEF Waits
  <2>3. CASE Waits(e, w) /\ e.by = p
    <3>1. e = Current(p)
      BY <2>3 DEF Waits
    <3>2. PICK u \in handlers[p] : u.handler = w
      BY <2>3 DEF Waits
    <3>3. CASE failed' = failed \cup {Current(p)}
      BY <3>1, <3>3
    <3>4. CASE Proceed(p, handlers[p] \ {t})
      <4>1. CASE u = t
        BY <1>5, <3>1, <3>2, <4>1
      <4>2. CASE u # t
        <5>1. u \in handlers'[p]
          BY <3>4, <4>2 DEF Proceed, CallTyped
        <5> QED BY <1>3, <2>3, <3>1, <3>2, <5>1 DEF Waits
      <4> QED BY <4>1, <4>2
    <3> QED BY <1>1, <3>3, <3>4
  <2> QED BY <1>8, <2>1, <2>2, <2>3 DEF HeardInv
<1>9. \A q \in Publishers : \A u \in handlers'[q] : u # BridgeSub => <<Current(q), u.handler>> \in owed
  BY <1>7 DEF HeardInv
<1> QED BY <1>2, <1>3, <1>6, <1>8, <1>9 DEF HeardInv

\* The bridge is no watcher.
LEMMA BroadcastKeepsHeard ==
    ASSUME CallTyped, FlowTyped, HeardInv, NEW p \in Publishers, EndBroadcast(p)
    PROVE  HeardInv'
<1>1. UNCHANGED <<heard, owed, made, failed>>
  BY DEF EndBroadcast, busVars
<1>2. Done' = Done /\ \A q : Current(q)' = Current(q)
  BY <1>1 DEF Done, Current
<1>3. /\ handlers'[p] = {t \in handlers[p] : t.handler # Bridge}
      /\ \A q \in Publishers : q # p => handlers'[q] = handlers[q]
  BY DEF EndBroadcast, Proceed, CallTyped
<1>4. \A q \in Publishers : \A t \in handlers[q] : t.handler # Bridge => t \in handlers'[q]
  BY <1>3
<1>5. ASSUME NEW e \in Done, NEW w \in Watchers, Waits(e, w) PROVE Waits(e, w)'
  <2>1. e.by \in Publishers /\ w # Bridge
    BY DoneIs, NamesDiffer
  <2> QED BY <1>2, <1>4, <1>5, <2>1 DEF Waits
<1>6. \A q \in Publishers : handlers'[q] \subseteq handlers[q]
  BY <1>3
<1> QED BY <1>1, <1>2, <1>5, <1>6 DEF HeardInv

\* Every step keeps the account.
LEMMA HeardKept == TableInv /\ CallTyped /\ FlowTyped /\ HeardInv /\ [Next]_vars => HeardInv'
<1>. SUFFICES ASSUME TableInv, CallTyped, FlowTyped, HeardInv, [Next]_vars PROVE HeardInv'
  OBVIOUS
<1>1. ASSUME UNCHANGED <<heard, owed, made, failed, handlers>> PROVE HeardInv'
  <2>1. Done' = Done /\ \A q : Current(q)' = Current(q)
    BY <1>1 DEF Done, Current
  <2>2. \A e, w : Waits(e, w)' <=> Waits(e, w)
    BY <1>1, <2>1 DEF Waits
  <2> QED BY <1>1, <2>1, <2>2 DEF HeardInv
<1>2. CASE UNCHANGED vars
  BY <1>1, <1>2 DEF vars, busVars, callVars
<1>3. ASSUME NEW p \in Publishers, Change(p) \/ PublisherStep(p) PROVE HeardInv'
  <2>1. CASE CallBridge(p) \/ CallSink(p)
    BY <1>1, <2>1 DEF CallBridge, CallSink, busVars
  <2> QED BY <1>3, <2>1, ChangeKeepsHeard, PublishKeepsHeard, CallKeepsHeard, BroadcastKeepsHeard
          DEF PublisherStep
<1>4. ASSUME NEW w \in Watchers, Watch(w) \/ Unwatch(w) PROVE HeardInv'
  BY <1>1, <1>4 DEF Watch, Unwatch, callVars
<1>5. CASE RunReady
  BY <1>1, <1>5 DEF RunReady, busVars, callVars
<1>6. ASSUME NEW c \in Connections,
             Connect(c) \/ EndLook(c) \/ Receive(c) \/ Heartbeat(c) \/ Disconnect(c) \/ Break(c)
      PROVE  HeardInv'
  BY <1>1, <1>6 DEF Connect, EndLook, Receive, Heartbeat, Disconnect, Break, busVars, callVars
<1> QED BY <1>2, <1>3, <1>4, <1>5, <1>6 DEF Next

\* The types and the account of who heard what.
BusInv == TableInv /\ CallTyped /\ FlowTyped /\ HeardInv

\* It is an invariant.
LEMMA BusAlways == Spec => []BusInv
<1>1. Init => BusInv
  <2>1. Init => HeardInv
    BY DEF Init, HeardInv
  <2> QED BY <2>1, TableStarts, TypesStart DEF BusInv
<1>2. BusInv /\ [Next]_vars => BusInv'
  BY TableKept, CallsKept, FlowKept, HeardKept DEF BusInv
<1> QED BY <1>1, <1>2, PTL DEF Spec

\* TwinInv for any publishers, watchers and connections: a publication reaches whoever
\* its bus owes it to, and nobody else.
THEOREM ThoseOwedHear == Spec => []TwinInv
<1>1. BusInv => TwinInv
  BY TypesMean, HeardMeans DEF BusInv, TwinInv
<1> QED BY <1>1, BusAlways, PTL

-----------------------------------------------------------------------------
(* What a connection was shown or is about to be.                          *)

\* What the snapshot under way will show at least, or the last one showed.
Base(c) == IF looking.who = c THEN looking.from ELSE seen[c]

\* The publisher of e still has to hand it to connection c.
Coming(c, p) ==
    \/ pc[p] = "changed"
    \/ pc[p] = "calling" /\ BridgeSub \in handlers[p]
    \/ pc[p] = "sinking" /\ c \in todo[p]

\* Event e is accounted for at connection c.
Accounted(c, e) ==
    \/ e \in Base(c)
    \/ e \in ToSet(got[c])
    \/ e \in ToSet(queue[c])
    \/ [to |-> c, event |-> e] \in ToSet(ready)
    \/ e = Current(e.by) /\ Coming(c, e.by)

\* A connection that lives has a sink that nobody is about to take out.
SinksInv ==
    /\ \A c \in Connections : stage[c] = "live" => c \in sinks
    /\ \A p \in Publishers : \A c \in dead[p] : stage[c] = "broken"

ShownInv ==
    \A c \in Connections : stage[c] = "live" => \A e \in Done : Accounted(c, e)

\* Every step keeps the sinks of the living.
LEMMA SinksKept == CallTyped /\ SinksInv /\ [Next]_vars => SinksInv'
<1>. SUFFICES ASSUME CallTyped, SinksInv, [Next]_vars PROVE SinksInv'
  OBVIOUS
<1>1. ASSUME UNCHANGED <<stage, sinks, dead>> PROVE SinksInv'
  BY <1>1 DEF SinksInv
<1>2. CASE UNCHANGED vars
  BY <1>1, <1>2 DEF vars, callVars, streamVars
<1>3. ASSUME NEW p \in Publishers, Change(p) \/ PublisherStep(p) PROVE SinksInv'
  <2>1. CASE CallSink(p)
    <3>1. PICK c \in todo[p] :
              \/ stage[c] = "broken" /\ dead' = [dead EXCEPT ![p] = @ \cup {c}]
              \/ UNCHANGED dead
      BY <2>1 DEF CallSink
    <3>2. UNCHANGED <<stage, sinks>>
      BY <2>1 DEF CallSink, streamVars
    <3>3. dead \in [Publishers -> SUBSET Connections]
      BY DEF CallTyped
    <3>4. \A q \in Publishers : \A d \in dead'[q] : d \in dead[q] \/ stage[d] = "broken"
      BY <3>1, <3>3
    <3> QED BY <3>2, <3>4 DEF SinksInv
  <2>2. CASE EndBroadcast(p)
    <3>1. sinks' = sinks \ dead[p] /\ dead' = [dead EXCEPT ![p] = {}] /\ UNCHANGED stage
      BY <2>2 DEF EndBroadcast, Pruned
    <3>2. \A c \in Connections : stage[c] = "live" => c \in sinks \ dead[p]
      BY DEF SinksInv
    <3> QED BY <3>1, <3>2 DEF SinksInv, CallTyped
  <2> QED BY <1>1, <1>3, <2>1, <2>2
          DEF PublisherStep, Change, Publish, CallWatcher, CallBridge, streamVars
<1>4. ASSUME NEW w \in Watchers, Watch(w) \/ Unwatch(w) PROVE SinksInv'
  BY <1>1, <1>4 DEF Watch, Unwatch, callVars, streamVars
<1>5. CASE RunReady
  BY <1>1, <1>5 DEF RunReady, callVars
<1>6. ASSUME NEW c \in Connections, EndLook(c) \/ Receive(c) \/ Heartbeat(c) PROVE SinksInv'
  BY <1>1, <1>6 DEF EndLook, Receive, Heartbeat, callVars
<1>7. ASSUME NEW c \in Connections, Connect(c) PROVE SinksInv'
  BY <1>7 DEF Connect, AddSink, SinksInv, CallTyped, callVars
<1>8. ASSUME NEW c \in Connections, Disconnect(c) \/ Break(c) PROVE SinksInv'
  <2>1. CASE Disconnect(c)
    BY <2>1 DEF Disconnect, DropSink, SinksInv, CallTyped, callVars
  <2>2. CASE Break(c)
    BY <2>2 DEF Break, SinksInv, CallTyped, callVars
  <2> QED BY <1>8, <2>1, <2>2
<1> QED BY <1>2, <1>3, <1>4, <1>5, <1>6, <1>7, <1>8 DEF Next

\* The bridge is the first of the handlers: who comes next is a watcher only when the
\* bridge was called, or never was captured.
LEMMA BridgeIsFirst ==
    ASSUME CallTyped, NEW p \in Publishers, NEW t \in handlers[p], IsNext(p, t)
    PROVE  t.handler # Bridge <=> BridgeSub \notin handlers[p]
<1>1. t = BridgeSub \/ (t.key > 0 /\ t.id > 0 /\ t.handler \in Watchers)
  BY DEF CallTyped
<1>2. BridgeSub.handler = Bridge /\ BridgeSub.key = 1 /\ BridgeSub.id = 0
  BY DEF BridgeSub
<1>3. t.key \in Nat /\ t.id \in Nat
  BY DEF CallTyped, Subs
<1>4. CASE BridgeSub \in handlers[p] /\ t # BridgeSub
  <2>1. Before(t, BridgeSub)
    BY <1>4 DEF IsNext
  <2>2. FALSE
    BY <1>1, <1>2, <1>3, <1>4, <2>1 DEF Before
  <2> QED BY <2>2
<1>5. t # BridgeSub => t.handler # Bridge
  BY <1>1, NamesDiffer
<1> QED BY <1>2, <1>4, <1>5

\* A change that is accounted for stays so when nothing of it moves.
LEMMA AccountStays ==
    ASSUME CallTyped, NEW c \in Connections, NEW e, Accounted(c, e),
           made' = made, Base(c) \subseteq Base(c)',
           ToSet(got[c]) \subseteq ToSet(got[c])',
           ToSet(queue[c]) \subseteq ToSet(queue[c])' \cup ToSet(got[c])',
           [to |-> c, event |-> e] \in ToSet(ready) =>
               [to |-> c, event |-> e] \in ToSet(ready)' \/ e \in ToSet(queue[c])',
           e = Current(e.by) /\ Coming(c, e.by) =>
               Coming(c, e.by)' \/ [to |-> c, event |-> e] \in ToSet(ready)'
    PROVE  Accounted(c, e)'
<1>1. Current(e.by)' = Current(e.by)
  BY DEF Current
<1> QED BY <1>1 DEF Accounted

\* A publisher's step moves its event on, or makes one.
LEMMA ShownByPublishers ==
    ASSUME TableInv, CallTyped, FlowTyped, SinksInv, ShownInv,
           NEW p \in Publishers, Change(p) \/ PublisherStep(p)
    PROVE  ShownInv'
<1>1. UNCHANGED <<looking, stage, queue, seen, got>>
  BY DEF Change, PublisherStep, Publish, CallWatcher, CallBridge, CallSink, EndBroadcast, streamVars
<1>2. SUFFICES ASSUME NEW c \in Connections, stage[c] = "live", NEW e \in Done'
               PROVE  Accounted(c, e)'
  BY <1>1 DEF ShownInv
<1>3. /\ Base(c)' = Base(c) /\ ToSet(got[c])' = ToSet(got[c])
      /\ ToSet(queue[c])' = ToSet(queue[c])
  BY <1>1 DEF Base
<1>4. CASE Change(p)
  <2>1. ready' = ready /\ pc'[p] = "changed" /\ pc[p] = "idle"
        /\ (\A q \in Publishers : q # p => pc'[q] = pc[q]) /\ UNCHANGED <<handlers, todo>>
    BY <1>4 DEF Change, CallTyped
  <2>2. CASE e = Current(p)'
    <3>1. e.by = p
      BY <2>2 DEF Current
    <3> QED BY <2>1, <2>2, <3>1 DEF Accounted, Coming
  <2>3. CASE e \in Done
    <3>1. Accounted(c, e) /\ e.by \in Publishers
      BY <1>2, <2>3, DoneIs DEF ShownInv
    <3>2. CASE e.by = p
      <4>1. ~Coming(c, p)
        BY <2>1 DEF Coming
      <4> QED BY <1>3, <2>1, <3>1, <3>2, <4>1 DEF Accounted
    <3>3. CASE e.by # p
      <4>1. Current(e.by)' = Current(e.by)
        BY <1>4, <3>1, <3>3, ChangeAdds
      <4>2. Coming(c, e.by) => Coming(c, e.by)'
        BY <2>1, <3>1, <3>3 DEF Coming
      <4> QED BY <1>3, <2>1, <3>1, <4>1, <4>2 DEF Accounted
    <3> QED BY <3>2, <3>3
  <2> QED BY <1>4, <2>2, <2>3, ChangeAdds
<1>5. ASSUME PublisherStep(p) PROVE e \in Done /\ made' = made /\ Accounted(c, e) /\ e.by \in Publishers
  <2>1. made' = made
    BY <1>5 DEF PublisherStep, Publish, CallWatcher, CallBridge, CallSink, EndBroadcast
  <2>2. e \in Done
    BY <2>1 DEF Done
  <2> QED BY <1>2, <2>1, <2>2, DoneIs DEF ShownInv
<1>6. CASE Publish(p)
  <2>1. BridgeSub \in handlers'[p] /\ pc'[p] = "calling"
    <3>1. BridgeSub \in HandlersFor(table, SubjectOf[p])
      BY RestMatchesAll DEF TableInv, HandlersFor, BridgeSub
    <3> QED BY <1>6, <3>1 DEF Publish, CallTyped
  <2>2. /\ \A q \in Publishers : q # p => pc'[q] = pc[q] /\ handlers'[q] = handlers[q]
        /\ UNCHANGED <<todo, ready>>
    BY <1>6 DEF Publish, CallTyped
  <2>3. Coming(c, e.by) => Coming(c, e.by)'
    BY <1>5, <1>6, <2>1, <2>2 DEF Coming, PublisherStep
  <2> QED BY <1>3, <1>5, <1>6, <2>2, <2>3, AccountStays DEF PublisherStep
<1>7. CASE CallWatcher(p)
  <2>1. BridgeSub \notin handlers[p] /\ pc[p] = "calling"
    BY <1>7, BridgeIsFirst DEF CallWatcher
  <2>2. /\ \A q \in Publishers : q # p => pc'[q] = pc[q] /\ handlers'[q] = handlers[q]
        /\ UNCHANGED <<todo, ready>>
    BY <1>7 DEF CallWatcher, Proceed, CallTyped
  <2>3. Coming(c, e.by) => Coming(c, e.by)'
    BY <1>5, <1>7, <2>1, <2>2 DEF Coming, PublisherStep
  <2> QED BY <1>3, <1>5, <1>7, <2>2, <2>3, AccountStays DEF PublisherStep
<1>8. CASE CallBridge(p)
  <2>1. pc'[p] = "sinking" /\ c \in todo'[p]
    BY <1>2, <1>8 DEF CallBridge, CallTyped, SinksInv
  <2>2. /\ \A q \in Publishers : q # p => pc'[q] = pc[q] /\ todo'[q] = todo[q]
        /\ UNCHANGED <<handlers, ready>>
    BY <1>8 DEF CallBridge, CallTyped
  <2>3. Coming(c, e.by) => Coming(c, e.by)'
    BY <1>5, <1>8, <2>1, <2>2 DEF Coming, PublisherStep
  <2> QED BY <1>3, <1>5, <1>8, <2>2, <2>3, AccountStays DEF PublisherStep
<1>9. CASE CallSink(p)
  <2>1. PICK d \in todo[p] :
            /\ IF stage[d] = "broken" THEN UNCHANGED ready
               ELSE ready' = Append(ready, [to |-> d, event |-> Current(p)])
            /\ todo' = [todo EXCEPT ![p] = @ \ {d}]
    BY <1>9 DEF CallSink
  <2>2. d \in Connections /\ Current(p) \in Done /\ UNCHANGED <<pc, handlers>> /\ pc[p] = "sinking"
    BY <1>9, CurrentIsDone DEF CallSink, CallTyped
  <2>3. stage[d] # "broken" => ToSet(ready') = ToSet(ready) \cup {[to |-> d, event |-> Current(p)]}
    <3>1. [to |-> d, event |-> Current(p)] \in Messages /\ ready \in Seq(Messages)
      BY <2>2 DEF FlowTyped, Messages
    <3>2. ToSet(Append(ready, [to |-> d, event |-> Current(p)]))
              = ToSet(ready) \cup {[to |-> d, event |-> Current(p)]}
      BY <3>1, ElementsOf
    <3> QED BY <2>1, <3>2
  <2>4. ToSet(ready)' = ToSet(ready')
    OBVIOUS
  <2>5. ToSet(ready) \subseteq ToSet(ready')
    BY <2>1, <2>3
  <2>6. e = Current(e.by) /\ Coming(c, e.by) =>
            Coming(c, e.by)' \/ [to |-> c, event |-> e] \in ToSet(ready)'
    <3>1. CASE e.by = p /\ c = d /\ e = Current(e.by)
      BY <1>2, <2>3, <2>4, <3>1
    <3>2. CASE e.by # p
      BY <1>5, <1>9, <2>1, <2>2, <3>2 DEF Coming, PublisherStep, CallTyped
    <3>3. CASE e.by = p /\ c # d
      BY <2>1, <2>2, <3>3 DEF Coming, CallTyped
    <3> QED BY <3>1, <3>2, <3>3
  <2> QED BY <1>3, <1>5, <1>9, <2>4, <2>5, <2>6, AccountStays DEF PublisherStep
<1>10. CASE EndBroadcast(p)
  <2>1. pc[p] = "sinking" /\ todo[p] = {} /\ UNCHANGED <<todo, ready>>
    BY <1>10 DEF EndBroadcast
  <2>2. \A q \in Publishers : q # p => pc'[q] = pc[q] /\ handlers'[q] = handlers[q]
    BY <1>10 DEF EndBroadcast, Proceed, CallTyped
  <2>3. Coming(c, e.by) => Coming(c, e.by)'
    BY <1>5, <1>10, <2>1, <2>2 DEF Coming, PublisherStep
  <2> QED BY <1>3, <1>5, <1>10, <2>1, <2>3, AccountStays DEF PublisherStep
<1> QED BY <1>4, <1>6, <1>7, <1>8, <1>9, <1>10 DEF PublisherStep

\* The event loop takes what is first in a queue to the next one; a snapshot covers
\* what its connection would have to be told.
LEMMA ShownByTheLoop ==
    ASSUME CallTyped, FlowTyped, ShownInv,
           \/ RunReady
           \/ \E c \in Connections : \/ Connect(c) \/ EndLook(c) \/ Receive(c)
                                     \/ Heartbeat(c) \/ Disconnect(c) \/ Break(c)
    PROVE  ShownInv'
<1>1. UNCHANGED <<made, pc, handlers, todo>>
  BY DEF RunReady, Connect, EndLook, Receive, Heartbeat, Disconnect, Break, callVars
<1>2. Done' = Done /\ \A c, p : Coming(c, p)' = Coming(c, p)
  BY <1>1 DEF Done, Coming
<1>3. SUFFICES ASSUME NEW c \in Connections, stage'[c] = "live", NEW e \in Done
               PROVE  Accounted(c, e)'
  BY <1>2 DEF ShownInv
<1>4. ASSUME UNCHANGED <<looking, seen, got, queue, ready>>, stage[c] = "live" PROVE Accounted(c, e)'
  BY <1>1, <1>2, <1>4, AccountStays DEF ShownInv, Base
<1>5. CASE RunReady
  <2>1. /\ ToSet(queue[c]) \subseteq ToSet(queue'[c])
        /\ ToSet(ready) = ToSet(ready') \cup {ready[1]}
        /\ c = ready[1].to => ready[1].event \in ToSet(queue'[c])
        /\ UNCHANGED <<looking, seen, got, stage>>
    BY <1>5, RunFacts
  <2>2. ToSet(queue[c])' = ToSet(queue'[c]) /\ ToSet(ready)' = ToSet(ready')
    OBVIOUS
  <2>3. [to |-> c, event |-> e] = ready[1] => c = ready[1].to /\ e = ready[1].event
    OBVIOUS
  <2>4. Accounted(c, e) /\ Base(c)' = Base(c) /\ ToSet(got[c])' = ToSet(got[c])
    BY <1>3, <2>1 DEF ShownInv, Base
  <2> QED BY <1>1, <1>2, <2>1, <2>2, <2>3, <2>4, AccountStays
<1>6. ASSUME NEW d \in Connections, Connect(d) PROVE Accounted(c, e)'
  <2>1. looking' = [who |-> d, from |-> Done] /\ UNCHANGED <<seen, got, queue, ready>>
        /\ looking = Idle /\ stage' = [stage EXCEPT ![d] = "live"]
    BY <1>6 DEF Connect, BeginLook, LoopIsFree
  <2>2. CASE c = d
    BY <2>1, <2>2 DEF Accounted, Base
  <2>3. CASE c # d
    <3>1. Base(c)' = Base(c) /\ stage[c] = "live"
      BY <1>3, <2>1, <2>3, NamesDiffer DEF Base, Idle, CallTyped
    <3> QED BY <1>1, <1>2, <2>1, <3>1, AccountStays DEF ShownInv
  <2> QED BY <2>2, <2>3
<1>7. ASSUME NEW d \in Connections, Heartbeat(d) PROVE Accounted(c, e)'
  <2>1. looking' = [who |-> d, from |-> Done] /\ UNCHANGED <<stage, seen, got, queue, ready>>
        /\ looking = Idle
    BY <1>7 DEF Heartbeat, BeginLook, LoopIsFree
  <2>2. CASE c = d
    BY <2>1, <2>2 DEF Accounted, Base
  <2>3. CASE c # d
    <3>1. Base(c)' = Base(c) /\ stage[c] = "live"
      BY <1>3, <2>1, <2>3, NamesDiffer DEF Base, Idle
    <3> QED BY <1>1, <1>2, <2>1, <3>1, AccountStays DEF ShownInv
  <2> QED BY <2>2, <2>3
<1>8. ASSUME NEW d \in Connections, EndLook(d) PROVE Accounted(c, e)'
  <2>1. /\ looking.who = d /\ looking' = Idle /\ UNCHANGED <<stage, got, queue, ready>>
        /\ \E S \in SUBSET Done : looking.from \subseteq S /\ seen' = [seen EXCEPT ![d] = S]
    BY <1>8 DEF EndLook, Show
  <2>2. Base(c) \subseteq Base(c)'
    BY <2>1, NamesDiffer DEF Base, Idle, FlowTyped
  <2> QED BY <1>1, <1>2, <1>3, <2>1, <2>2, AccountStays DEF ShownInv
<1>9. ASSUME NEW d \in Connections, Receive(d) PROVE Accounted(c, e)'
  <2>1. /\ ToSet(got[c]) \subseteq ToSet(got'[c])
        /\ ToSet(queue[c]) \subseteq ToSet(queue'[c]) \cup ToSet(got'[c])
        /\ UNCHANGED <<stage, looking, seen, ready>>
    BY <1>9, ReceiveFacts
  <2>2. /\ ToSet(queue[c])' = ToSet(queue'[c]) /\ ToSet(got[c])' = ToSet(got'[c])
        /\ Base(c)' = Base(c) /\ Accounted(c, e)
    BY <1>3, <2>1 DEF Base, ShownInv
  <2> QED BY <1>1, <1>2, <2>1, <2>2, AccountStays
<1>10. ASSUME NEW d \in Connections, Disconnect(d) \/ Break(d) PROVE Accounted(c, e)'
  BY <1>3, <1>4, <1>10 DEF Disconnect, Break, CallTyped
<1> QED BY <1>5, <1>6, <1>7, <1>8, <1>9, <1>10

\* Nobody else touches the stream.
LEMMA ShownKept ==
    TableInv /\ CallTyped /\ FlowTyped /\ SinksInv /\ ShownInv /\ [Next]_vars => ShownInv'
<1>. SUFFICES ASSUME TableInv, CallTyped, FlowTyped, SinksInv, ShownInv, [Next]_vars
              PROVE  ShownInv'
  OBVIOUS
<1>1. ASSUME UNCHANGED <<made, callVars, streamVars, ready>> PROVE ShownInv'
  BY <1>1 DEF ShownInv, Accounted, Base, Coming, Current, Done, callVars, streamVars
<1>2. CASE UNCHANGED vars
  BY <1>1, <1>2 DEF vars
<1>3. ASSUME NEW w \in Watchers, Watch(w) \/ Unwatch(w) PROVE ShownInv'
  BY <1>1, <1>3 DEF Watch, Unwatch
<1> QED BY <1>2, <1>3, ShownByPublishers, ShownByTheLoop DEF Next

\* The whole of the invariant so far.
StreamInv == BusInv /\ SinksInv /\ ShownInv

\* It is an invariant.
LEMMA StreamAlways == Spec => []StreamInv
<1>1. Init => SinksInv /\ ShownInv
  BY DEF Init, SinksInv, ShownInv
<1>2. BusInv /\ SinksInv /\ ShownInv /\ [Next]_vars => SinksInv' /\ ShownInv'
  BY SinksKept, ShownKept DEF BusInv
<1>3. Spec => [](SinksInv /\ ShownInv)
  BY <1>1, <1>2, BusAlways, PTL DEF Spec
<1> QED BY <1>3, BusAlways, PTL DEF StreamInv

\* NoEventMissed for any publishers, watchers and connections: a client that stays was
\* shown every change or the event is on its way to it.
THEOREM NobodyMisses == Spec => []NoEventMissed
<1>1. StreamInv => NoEventMissed
  <2>1. SUFFICES ASSUME StreamInv, NEW c \in Connections, stage[c] = "live", looking.who # c,
                        NEW e \in Done
                 PROVE  e \in Shown(c) \/ OnItsWay(c, e)
    BY DEF NoEventMissed
  <2>2. Accounted(c, e) /\ Base(c) = seen[c]
    BY <2>1 DEF StreamInv, ShownInv, Base
  <2>3. BridgeSub.handler = Bridge
    BY DEF BridgeSub
  <2>4. e = Current(e.by) /\ Coming(c, e.by) => OnItsWay(c, e)
    BY <2>3 DEF Coming, OnItsWay
  <2> QED BY <2>2, <2>4 DEF Accounted, Shown, OnItsWay
<1> QED BY <1>1, StreamAlways, PTL

-----------------------------------------------------------------------------
(* The order of a publisher's events.                                      *)

\* Event e is at connection c or in one of the queues before it.
Lies(c, e) ==
    \/ e \in ToSet(got[c])
    \/ e \in ToSet(queue[c])
    \/ [to |-> c, event |-> e] \in ToSet(ready)

\* What lies there is older than what its publisher is about to hand over.
BehindInv ==
    \A c \in Connections : \A e \in Done :
        Lies(c, e) => e.n <= made[e.by] /\ (Coming(c, e.by) => e.n < made[e.by])

\* All the events that c was sent or that are to be sent to it, in their order.
Taken(c) == got[c] \o queue[c]

LineInv ==
    \A c \in Connections :
        /\ \A i, j \in DOMAIN Taken(c) : i < j => Follows(Taken(c)[i], Taken(c)[j])
        /\ \A i \in DOMAIN ready : ready[i].to = c =>
              /\ \A j \in DOMAIN Taken(c) : Follows(Taken(c)[j], ready[i].event)
              /\ \A j \in DOMAIN ready :
                    j < i /\ ready[j].to = c => Follows(ready[j].event, ready[i].event)

\* The order is what the property says.
LEMMA LineMeans == FlowTyped /\ LineInv => StreamInOrder
<1>. SUFFICES ASSUME FlowTyped, LineInv, NEW c \in Connections
              PROVE  /\ \A i, j \in DOMAIN Taken(c) : i < j => Follows(Taken(c)[i], Taken(c)[j])
                     /\ \A i \in DOMAIN ready : ready[i].to = c =>
                        /\ \A j \in DOMAIN Taken(c) : Follows(Taken(c)[j], ready[i].event)
                        /\ \A j \in 1 .. i - 1 : ready[j].to = c => Follows(ready[j].event, ready[i].event)
  BY DEF StreamInOrder, Taken
<1>1. \A i \in DOMAIN ready : \A j \in 1 .. i - 1 : j \in DOMAIN ready /\ j < i
  <2>1. DOMAIN ready = 1..Len(ready) /\ Len(ready) \in Nat
    BY DEF FlowTyped
  <2> QED BY <2>1
<1> QED BY <1>1, Zenon DEF LineInv

\* What lies at a connection was done, and is in one of the sequences.
LEMMA LyingIsDone ==
    ASSUME FlowTyped, NEW c \in Connections
    PROVE  /\ got[c] \in Seq(Done) /\ queue[c] \in Seq(Done) /\ Taken(c) \in Seq(Done)
           /\ ready \in Seq(Messages)
           /\ \A e : Lies(c, e) => e \in Done
           /\ \A i \in DOMAIN Taken(c) : Taken(c)[i] \in Done /\ Lies(c, Taken(c)[i])
           /\ \A i \in DOMAIN ready :
                 /\ ready[i].to \in Connections /\ ready[i].event \in Done
                 /\ ready[i].to = c => Lies(c, ready[i].event)
<1>1. got[c] \in Seq(Done) /\ queue[c] \in Seq(Done) /\ ready \in Seq(Messages)
  BY DEF FlowTyped
<1>2. Taken(c) \in Seq(Done)
  BY <1>1, ConcatProperties DEF Taken
<1>3. \A i \in DOMAIN ready : ready[i] \in Messages /\ ready[i] \in ToSet(ready)
  BY <1>1 DEF ToSet
<1>4. ASSUME NEW e, Lies(c, e) PROVE e \in Done
  <2>1. e \in ToSet(got[c]) \/ e \in ToSet(queue[c]) => e \in Done
    BY <1>1 DEF ToSet
  <2>2. \A x \in ToSet(ready) : x \in Messages
    BY <1>1 DEF ToSet
  <2>3. [to |-> c, event |-> e] \in Messages => e \in Done
    BY DEF Messages
  <2> QED BY <1>4, <2>1, <2>2, <2>3 DEF Lies
<1>5. ASSUME NEW i \in DOMAIN Taken(c) PROVE Taken(c)[i] \in Done /\ Lies(c, Taken(c)[i])
  <2>1. /\ Len(got[c]) \in Nat /\ Len(queue[c]) \in Nat
        /\ DOMAIN got[c] = 1..Len(got[c]) /\ DOMAIN queue[c] = 1..Len(queue[c])
        /\ DOMAIN Taken(c) = 1..Len(got[c]) + Len(queue[c])
        /\ Taken(c)[i] = IF i <= Len(got[c]) THEN got[c][i] ELSE queue[c][i - Len(got[c])]
    BY <1>1, <1>2, ConcatProperties DEF Taken
  <2>2. Taken(c)[i] \in ToSet(got[c]) \cup ToSet(queue[c])
    <3>1. CASE i <= Len(got[c])
      <4>1. i \in DOMAIN got[c]
        BY <2>1, <3>1
      <4> QED BY <2>1, <3>1, <4>1 DEF ToSet
    <3>2. CASE ~(i <= Len(got[c]))
      <4>1. i - Len(got[c]) \in DOMAIN queue[c]
        <5>1. \A a, b \in Nat : i \in 1..a + b /\ ~(i <= a) => i - a \in 1..b
          OBVIOUS
        <5> QED BY <2>1, <3>2, <5>1
      <4> QED BY <2>1, <3>2, <4>1 DEF ToSet
    <3> QED BY <3>1, <3>2
  <2>3. Lies(c, Taken(c)[i])
    BY <2>2 DEF Lies
  <2> QED BY <1>4, <2>3
<1>6. ASSUME NEW i \in DOMAIN ready
      PROVE  /\ ready[i].to \in Connections /\ ready[i].event \in Done
             /\ ready[i].to = c => Lies(c, ready[i].event)
  <2>1. ready[i] = [to |-> ready[i].to, event |-> ready[i].event]
        /\ ready[i].to \in Connections /\ ready[i].event \in Done
    BY <1>3 DEF Messages
  <2> QED BY <1>3, <2>1 DEF Lies
<1> QED BY <1>1, <1>2, <1>4, <1>5, <1>6

\* A step of a publisher keeps what lies at the connections older than what it hands over.
LEMMA BehindByPublishers ==
    ASSUME CallTyped, FlowTyped, BehindInv, NEW p \in Publishers, Change(p) \/ PublisherStep(p)
    PROVE  BehindInv'
<1>1. UNCHANGED <<got, queue>>
  BY DEF Change, PublisherStep, Publish, CallWatcher, CallBridge, CallSink, EndBroadcast, streamVars
<1>2. SUFFICES ASSUME NEW c \in Connections, NEW e \in Done', Lies(c, e)'
               PROVE  e.n <= made'[e.by] /\ (Coming(c, e.by)' => e.n < made'[e.by])
  BY DEF BehindInv
<1>3. CASE CallSink(p)
  <2>1. PICK d \in todo[p] :
            /\ \/ UNCHANGED ready
               \/ ready' = Append(ready, [to |-> d, event |-> Current(p)])
            /\ todo' = [todo EXCEPT ![p] = @ \ {d}]
    BY <1>3 DEF CallSink
  <2>2. /\ d \in Connections /\ Current(p) \in Done
        /\ UNCHANGED <<made, pc, handlers>> /\ pc[p] = "sinking"
    BY <1>3, CurrentIsDone DEF CallSink, CallTyped
  <2>3. e \in Done /\ e.by \in Publishers
    BY <1>2, <2>2, DoneIs DEF Done
  <2>4. Coming(c, e.by)' => Coming(c, e.by)
    <3>1. todo'[e.by] \subseteq todo[e.by]
      BY <2>1, <2>3 DEF CallTyped
    <3> QED BY <2>2, <3>1 DEF Coming
  <2>5. Lies(c, e) \/ (c = d /\ e = Current(p))
    <3>1. [to |-> d, event |-> Current(p)] \in Messages /\ ready \in Seq(Messages)
      BY <2>2 DEF FlowTyped, Messages
    <3>2. ToSet(Append(ready, [to |-> d, event |-> Current(p)]))
              = ToSet(ready) \cup {[to |-> d, event |-> Current(p)]}
      BY <3>1, ElementsOf
    <3>3. ToSet(ready') \subseteq ToSet(ready) \cup {[to |-> d, event |-> Current(p)]}
      BY <2>1, <3>2
    <3>4. [to |-> c, event |-> e] = [to |-> d, event |-> Current(p)] => c = d /\ e = Current(p)
      OBVIOUS
    <3> QED BY <1>1, <1>2, <3>3, <3>4 DEF Lies
  <2>6. CASE Lies(c, e)
    BY <2>2, <2>3, <2>4, <2>6 DEF BehindInv
  <2>7. CASE c = d /\ e = Current(p)
    <3>1. e.by = p /\ e.n = made[p] /\ made[p] \in Nat
      BY <2>7 DEF Current, CallTyped
    <3>2. ~Coming(c, p)'
      BY <2>1, <2>2, <2>7 DEF Coming, CallTyped
    <3> QED BY <2>2, <3>1, <3>2
  <2> QED BY <2>5, <2>6, <2>7
<1>4. ASSUME Change(p) \/ Publish(p) \/ CallWatcher(p) \/ CallBridge(p) \/ EndBroadcast(p)
      PROVE  e.n <= made'[e.by] /\ (Coming(c, e.by)' => e.n < made'[e.by])
  <2>1. ready' = ready
    BY <1>4 DEF Change, Publish, CallWatcher, CallBridge, EndBroadcast
  <2>2. Lies(c, e)
    BY <1>1, <1>2, <2>1 DEF Lies
  <2>3. e \in Done /\ e.by \in Publishers /\ e.n \in Nat
    BY <2>2, LyingIsDone, DoneIs DEF CallTyped
  <2>4. e.n <= made[e.by] /\ (Coming(c, e.by) => e.n < made[e.by])
    BY <2>2, <2>3 DEF BehindInv
  <2>5. CASE e.by # p
    <3>1. made'[e.by] = made[e.by]
      BY <1>4, <2>3, <2>5 DEF Change, Publish, CallWatcher, CallBridge, EndBroadcast, CallTyped
    <3>2. pc'[e.by] = pc[e.by] /\ handlers'[e.by] = handlers[e.by] /\ todo'[e.by] = todo[e.by]
      BY <1>4, <2>3, <2>5
         DEF Change, Publish, CallWatcher, CallBridge, EndBroadcast, Proceed, CallTyped
    <3> QED BY <2>4, <3>1, <3>2 DEF Coming
  <2>6. CASE e.by = p /\ Change(p)
    <3>1. made'[p] = made[p] + 1 /\ made[p] \in Nat
      BY <2>6 DEF Change, CallTyped
    <3> QED BY <2>3, <2>4, <2>6, <3>1
  <2>7. CASE e.by = p /\ Publish(p)
    BY <2>4, <2>7 DEF Publish, Coming
  <2>8. CASE e.by = p /\ CallWatcher(p)
    <3>1. pc[p] = "calling" /\ pc'[p] \in {"idle", "calling"} /\ handlers'[p] \subseteq handlers[p]
          /\ made' = made
      BY <2>8 DEF CallWatcher, Proceed, CallTyped
    <3> QED BY <2>4, <2>8, <3>1 DEF Coming
  <2>9. CASE e.by = p /\ CallBridge(p)
    <3>1. pc[p] = "calling" /\ BridgeSub \in handlers[p] /\ made' = made
      BY <2>9, BridgeIsFirst DEF CallBridge
    <3> QED BY <2>4, <2>9, <3>1 DEF Coming
  <2>10. CASE e.by = p /\ EndBroadcast(p)
    <3>1. pc'[p] \in {"idle", "calling"} /\ BridgeSub \notin handlers'[p] /\ made' = made
      BY <2>10 DEF EndBroadcast, Proceed, CallTyped, BridgeSub
    <3> QED BY <2>4, <2>10, <3>1 DEF Coming
  <2> QED BY <1>4, <2>5, <2>6, <2>7, <2>8, <2>9, <2>10
<1> QED BY <1>3, <1>4 DEF PublisherStep

\* What the event loop moves lay there before.
LEMMA BehindKept == CallTyped /\ FlowTyped /\ BehindInv /\ [Next]_vars => BehindInv'
<1>. SUFFICES ASSUME CallTyped, FlowTyped, BehindInv, [Next]_vars PROVE BehindInv'
  OBVIOUS
<1>1. ASSUME NEW p \in Publishers, Change(p) \/ PublisherStep(p) PROVE BehindInv'
  BY <1>1, BehindByPublishers
<1>2. ASSUME UNCHANGED <<made, pc, handlers, todo>>,
             \A c \in Connections : \A e \in Done : Lies(c, e)' => Lies(c, e)
      PROVE  BehindInv'
  <2>1. Done' = Done /\ \A c, q : Coming(c, q)' = Coming(c, q)
    BY <1>2 DEF Done, Coming
  <2> QED BY <1>2, <2>1 DEF BehindInv
<1>3. ASSUME UNCHANGED <<made, pc, handlers, todo, got, queue, ready>> PROVE BehindInv'
  BY <1>2, <1>3 DEF Lies
<1>4. CASE UNCHANGED vars
  BY <1>3, <1>4 DEF vars, callVars, streamVars
<1>5. ASSUME NEW w \in Watchers, Watch(w) \/ Unwatch(w) PROVE BehindInv'
  BY <1>3, <1>5 DEF Watch, Unwatch, callVars, streamVars
<1>6. CASE RunReady
  <2>1. /\ \A c \in Connections : \A e \in ToSet(queue'[c]) :
              e \in ToSet(queue[c]) \/ (c = ready[1].to /\ e = ready[1].event)
        /\ ready[1] = [to |-> ready[1].to, event |-> ready[1].event]
        /\ ToSet(ready) = ToSet(ready') \cup {ready[1]}
        /\ UNCHANGED <<made, pc, handlers, todo, got>>
    BY <1>6, RunFacts
  <2>2. ASSUME NEW c \in Connections, NEW e \in Done, Lies(c, e)' PROVE Lies(c, e)
    BY <2>1, <2>2 DEF Lies
  <2> QED BY <1>2, <2>1, <2>2
<1>7. ASSUME NEW d \in Connections, Receive(d) PROVE BehindInv'
  <2>1. /\ \A c \in Connections : ToSet(got'[c]) \cup ToSet(queue'[c])
                                      \subseteq ToSet(got[c]) \cup ToSet(queue[c])
        /\ UNCHANGED <<made, pc, handlers, todo, ready>>
    BY <1>7, ReceiveFacts
  <2>2. ASSUME NEW c \in Connections, NEW e \in Done, Lies(c, e)' PROVE Lies(c, e)
    BY <2>1, <2>2 DEF Lies
  <2> QED BY <1>2, <2>1, <2>2
<1>8. ASSUME NEW c \in Connections,
             Connect(c) \/ EndLook(c) \/ Heartbeat(c) \/ Disconnect(c) \/ Break(c)
      PROVE  BehindInv'
  BY <1>3, <1>8 DEF Connect, EndLook, Heartbeat, Disconnect, Break, callVars
<1> QED BY <1>1, <1>4, <1>5, <1>6, <1>7, <1>8 DEF Next

\* To append behind two sequences, and to move the head of the second behind the first.
LEMMA ConcatAppend ==
    ASSUME NEW S, NEW s \in Seq(S), NEW t \in Seq(S), NEW v \in S
    PROVE  /\ s \o Append(t, v) = Append(s \o t, v)
           /\ t # <<>> => Append(s, Head(t)) \o Tail(t) = s \o t
<1>1. <<v>> \in Seq(S) /\ s \o t \in Seq(S)
  BY ConcatProperties
<1>2. s \o Append(t, v) = Append(s \o t, v)
  <2>1. Append(t, v) = t \o <<v>> /\ Append(s \o t, v) = (s \o t) \o <<v>>
    BY <1>1, AppendIsConcat
  <2>2. (s \o t) \o <<v>> = s \o (t \o <<v>>)
    BY <1>1, ConcatAssociative
  <2> QED BY <2>1, <2>2
<1>3. ASSUME t # <<>> PROVE Append(s, Head(t)) \o Tail(t) = s \o t
  <2>1. Head(t) \in S /\ Tail(t) \in Seq(S) /\ Len(Tail(t)) = Len(t) - 1
        /\ \A i \in 1..Len(t) - 1 : Tail(t)[i] = t[i + 1]
    BY <1>3, HeadTailProperties
  <2>2. Head(t) = t[1]
    BY <1>3, ElementsOf
  <2>3. <<Head(t)>> \in Seq(S) /\ Append(s, Head(t)) = s \o <<Head(t)>>
    BY <2>1, AppendIsConcat
  <2>4. (s \o <<Head(t)>>) \o Tail(t) = s \o (<<Head(t)>> \o Tail(t))
    BY <2>1, <2>3, ConcatAssociative
  <2>5. <<Head(t)>> \o Tail(t) = t
    <3>. DEFINE u == <<Head(t)>>
                w == Tail(t)
    <3>1. u \in Seq(S) /\ Len(u) = 1 /\ u[1] = t[1]
      BY <2>1, <2>2
    <3>2. Len(t) \in Nat /\ w \in Seq(S) /\ Len(w) = Len(t) - 1
      BY <2>1
    <3>. HIDE DEF u, w
    <3>3. /\ u \o w \in Seq(S) /\ Len(u \o w) = Len(u) + Len(w)
          /\ \A i \in 1..Len(u) + Len(w) : (u \o w)[i] = IF i <= Len(u) THEN u[i] ELSE w[i - Len(u)]
      BY <3>1, <3>2, ConcatProperties
    <3>4. /\ u \o w \in Seq(S) /\ Len(u \o w) = Len(t)
          /\ \A i \in 1..Len(t) : (u \o w)[i] = IF i <= 1 THEN u[i] ELSE w[i - 1]
      <4>1. Len(u) + Len(w) = Len(t)
        BY <3>1, <3>2
      <4> QED BY <3>1, <3>3, <4>1
    <3>5. ASSUME NEW i \in 1..Len(t) PROVE (u \o w)[i] = t[i]
      <4>1. CASE i = 1
        BY <3>1, <3>4, <4>1
      <4>2. CASE i # 1
        <5>1. i - 1 \in 1..Len(t) - 1 /\ (i - 1) + 1 = i /\ ~(i <= 1)
          BY <3>2, <4>2
        <5>2. w[i - 1] = t[(i - 1) + 1]
          BY <2>1, <5>1 DEF w
        <5> QED BY <3>4, <5>1, <5>2
      <4> QED BY <4>1, <4>2
    <3>6. u \o w = t
      BY <3>4, <3>5, SeqEqual
    <3> QED BY <3>6 DEF u, w
  <2> QED BY <2>3, <2>4, <2>5
<1> QED BY <1>2, <1>3

\* Nothing moves.
LEMMA LineStays == ASSUME LineInv, UNCHANGED <<got, queue, ready>> PROVE LineInv'
<1>1. \A c : Taken(c)' = Taken(c)
  BY DEF Taken
<1> QED BY <1>1 DEF LineInv

\* What a publisher hands to a sink is newer than all the connection has of its.
LEMMA LineBySinks ==
    ASSUME CallTyped, FlowTyped, BehindInv, LineInv, NEW p \in Publishers, CallSink(p)
    PROVE  LineInv'
<1>1. PICK d \in todo[p] :
          \/ UNCHANGED ready
          \/ ready' = Append(ready, [to |-> d, event |-> Current(p)])
  BY DEF CallSink
<1>2. /\ pc[p] = "sinking" /\ d \in Connections /\ Current(p) \in Done /\ UNCHANGED <<got, queue>>
  BY CurrentIsDone DEF CallSink, CallTyped, streamVars
<1>3. CASE UNCHANGED ready
  BY <1>2, <1>3, LineStays
<1>4. CASE ready' = Append(ready, [to |-> d, event |-> Current(p)])
  <2>. DEFINE n == Len(ready)
              new == [to |-> d, event |-> Current(p)]
  <2>1. /\ ready \in Seq(Messages) /\ new \in Messages
        /\ new.to = d /\ new.event = Current(p)
    BY <1>2 DEF FlowTyped, Messages
  <2>2. Current(p).by = p /\ Current(p).n = made[p]
    BY DEF Current
  <2>. HIDE DEF new
  <2>3. /\ n \in Nat /\ DOMAIN ready = 1..n /\ DOMAIN ready' = 1..n + 1
        /\ \A i \in 1..n : ready'[i] = ready[i]
        /\ ready'[n + 1] = new
    BY <1>4, <2>1, AppendProperties DEF new
  <2>4. ASSUME NEW e \in Done, Lies(d, e) PROVE Follows(e, Current(p))
    <3>1. e.by = p => e.n < made[p]
      BY <1>1, <1>2, <2>4 DEF BehindInv, Coming
    <3> QED BY <2>2, <3>1 DEF Follows
  <2>5. SUFFICES ASSUME NEW c \in Connections
                 PROVE  /\ \A i, j \in DOMAIN Taken(c) : i < j => Follows(Taken(c)[i], Taken(c)[j])
                        /\ \A i \in DOMAIN ready' : ready'[i].to = c =>
                              /\ \A j \in DOMAIN Taken(c) : Follows(Taken(c)[j], ready'[i].event)
                              /\ \A j \in DOMAIN ready' :
                                    j < i /\ ready'[j].to = c => Follows(ready'[j].event, ready'[i].event)
    <3>1. \A c \in Connections : Taken(c)' = Taken(c)
      BY <1>2 DEF Taken
    <3> QED BY <3>1 DEF LineInv
  <2>6. ASSUME NEW i \in 1..n, ready[i].to = c
        PROVE  /\ \A j \in DOMAIN Taken(c) : Follows(Taken(c)[j], ready'[i].event)
               /\ \A j \in DOMAIN ready' :
                     j < i /\ ready'[j].to = c => Follows(ready'[j].event, ready'[i].event)
    <3>1. ready'[i] = ready[i]
      BY <2>3
    <3>2. /\ \A j \in DOMAIN Taken(c) : Follows(Taken(c)[j], ready[i].event)
          /\ \A j \in 1..n : j < i /\ ready[j].to = c => Follows(ready[j].event, ready[i].event)
      BY <2>3, <2>6 DEF LineInv
    <3>3. \A j \in DOMAIN ready' : j < i => j \in 1..n /\ ready'[j] = ready[j]
      BY <2>3
    <3> QED BY <3>1, <3>2, <3>3
  <2>7. ASSUME c = d
        PROVE  /\ \A j \in DOMAIN Taken(c) : Follows(Taken(c)[j], new.event)
               /\ \A j \in DOMAIN ready' :
                     j < n + 1 /\ ready'[j].to = c => Follows(ready'[j].event, new.event)
    <3>1. /\ \A j \in DOMAIN Taken(c) : Follows(Taken(c)[j], Current(p))
          /\ \A j \in DOMAIN ready : ready[j].to = c => Follows(ready[j].event, Current(p))
      BY <2>4, <2>7, LyingIsDone
    <3>2. \A j \in DOMAIN ready' : j < n + 1 => j \in DOMAIN ready /\ ready'[j] = ready[j]
      BY <2>3
    <3> QED BY <2>1, <3>1, <3>2
  <2>8. \A i \in DOMAIN ready' : (i \in 1..n /\ ready'[i] = ready[i]) \/ (i = n + 1 /\ ready'[i] = new)
    BY <2>3
  <2>9. \A i, j \in DOMAIN Taken(c) : i < j => Follows(Taken(c)[i], Taken(c)[j])
    BY DEF LineInv
  <2> QED BY <2>1, <2>6, <2>7, <2>8, <2>9
<1> QED BY <1>1, <1>3, <1>4

\* A sequence with one more element, and one with its first gone, place by place.
LEMMA AppendPlaces ==
    ASSUME NEW S, NEW s \in Seq(S), NEW v \in S
    PROVE  \A i \in DOMAIN Append(s, v) :
              \/ i \in DOMAIN s /\ Append(s, v)[i] = s[i]
              \/ /\ Append(s, v)[i] = v
                 /\ \A j \in DOMAIN Append(s, v) : j < i => j \in DOMAIN s
                 /\ \A j \in DOMAIN s : j < i
<1>1. /\ Len(s) \in Nat /\ DOMAIN s = 1..Len(s)
      /\ Append(s, v) \in Seq(S) /\ Len(Append(s, v)) = Len(s) + 1
      /\ \A i \in 1..Len(s) : Append(s, v)[i] = s[i]
      /\ Append(s, v)[Len(s) + 1] = v
  BY AppendProperties
<1>2. DOMAIN Append(s, v) = 1..Len(s) + 1
  BY <1>1
<1> QED BY <1>1, <1>2

LEMMA TailPlaces ==
    ASSUME NEW S, NEW s \in Seq(S), s # <<>>
    PROVE  /\ 1 \in DOMAIN s
           /\ \A i \in DOMAIN Tail(s) : i \in Nat /\ i + 1 \in DOMAIN s /\ 1 < i + 1 /\ Tail(s)[i] = s[i + 1]
<1>1. Len(s) \in Nat /\ DOMAIN s = 1..Len(s) /\ Len(s) > 0
  BY EmptySeq
<1>2. /\ Tail(s) \in Seq(S) /\ Len(Tail(s)) = Len(s) - 1
      /\ \A i \in 1 .. Len(Tail(s)) : Tail(s)[i] = s[i + 1]
  BY HeadTailProperties
<1>3. DOMAIN Tail(s) = 1..Len(s) - 1
  BY <1>2
<1> QED BY <1>1, <1>2, <1>3

\* The event loop takes the first call for a connection to the end of its queue.
LEMMA LineByTheLoop ==
    ASSUME CallTyped, FlowTyped, LineInv, RunReady
    PROVE  LineInv'
<1>0. PICK d \in Connections, e \in Done : d = ready[1].to /\ e = ready[1].event
  BY RunFacts
<1>1. /\ ready # <<>> /\ ready \in Seq(Messages) /\ ready' = Tail(ready)
      /\ queue'[d] = Append(queue[d], e) /\ UNCHANGED got
      /\ \A c \in Connections : c # d => queue'[c] = queue[c]
  BY <1>0, RunFacts
<1>2. /\ 1 \in DOMAIN ready
      /\ \A i \in DOMAIN ready' : i \in Nat /\ i + 1 \in DOMAIN ready /\ 1 < i + 1
                                  /\ ready'[i] = ready[i + 1]
  BY <1>1, TailPlaces
<1>3. \A c \in Connections : c # d => Taken(c)' = Taken(c)
  BY <1>1 DEF Taken
<1>4. Taken(d)' = Append(Taken(d), e) /\ Taken(d) \in Seq(Done)
  <2>1. got[d] \in Seq(Done) /\ queue[d] \in Seq(Done) /\ Taken(d) \in Seq(Done)
    BY <1>1, LyingIsDone
  <2>2. got[d] \o Append(queue[d], e) = Append(got[d] \o queue[d], e)
    BY <2>1, ConcatAppend
  <2>3. Taken(d)' = got[d] \o queue'[d]
    BY <1>1 DEF Taken
  <2> QED BY <1>1, <2>1, <2>2, <2>3 DEF Taken
<1>5. SUFFICES ASSUME NEW c \in Connections
               PROVE  /\ \A i, j \in DOMAIN Taken(c)' : i < j => Follows(Taken(c)'[i], Taken(c)'[j])
                      /\ \A i \in DOMAIN ready' : ready'[i].to = c =>
                            /\ \A j \in DOMAIN Taken(c)' : Follows(Taken(c)'[j], ready'[i].event)
                            /\ \A j \in DOMAIN ready' :
                                  j < i /\ ready'[j].to = c => Follows(ready'[j].event, ready'[i].event)
  BY DEF LineInv
<1>6. ASSUME NEW i \in DOMAIN ready', ready'[i].to = c
      PROVE  /\ \A j \in DOMAIN Taken(c) : Follows(Taken(c)[j], ready'[i].event)
             /\ c = d => Follows(e, ready'[i].event)
             /\ \A j \in DOMAIN ready' :
                   j < i /\ ready'[j].to = c => Follows(ready'[j].event, ready'[i].event)
  <2>1. i \in Nat /\ i + 1 \in DOMAIN ready /\ 1 < i + 1 /\ ready'[i] = ready[i + 1]
    BY <1>2
  <2>2. /\ \A j \in DOMAIN Taken(c) : Follows(Taken(c)[j], ready[i + 1].event)
        /\ \A j \in DOMAIN ready : j < i + 1 /\ ready[j].to = c => Follows(ready[j].event, ready[i + 1].event)
    BY <1>6, <2>1 DEF LineInv
  <2>3. \A j \in DOMAIN ready' : j < i => j + 1 \in DOMAIN ready /\ j + 1 < i + 1 /\ ready'[j] = ready[j + 1]
    BY <1>2, <2>1
  <2>4. c = d => Follows(e, ready[i + 1].event)
    BY <1>0, <1>2, <2>1, <2>2
  <2> QED BY <2>1, <2>2, <2>3, <2>4
<1>7. /\ \A i, j \in DOMAIN Taken(c) : i < j => Follows(Taken(c)[i], Taken(c)[j])
      /\ c = d => \A j \in DOMAIN Taken(c) : Follows(Taken(c)[j], e)
  BY <1>0, <1>2 DEF LineInv
<1>8. CASE c # d
  <2>1. Taken(c)' = Taken(c)
    BY <1>3, <1>8
  <2> QED BY <1>6, <1>7, <2>1
<1>9. CASE c = d
  <2>. DEFINE s == Taken(d)
              t == Append(s, e)
  <2>1. /\ Taken(c)' = t /\ Taken(c) = s /\ s \in Seq(Done) /\ e \in Done
    BY <1>1, <1>4, <1>9
  <2>2. \A i \in DOMAIN t :
              \/ i \in DOMAIN s /\ t[i] = s[i]
              \/ /\ t[i] = e
                 /\ \A j \in DOMAIN t : j < i => j \in DOMAIN s
                 /\ \A j \in DOMAIN s : j < i
    BY <2>1, AppendPlaces
  <2>3. DOMAIN s \subseteq Int /\ DOMAIN t \subseteq Int
    BY <2>1, AppendProperties
  <2>. HIDE DEF s, t
  <2>4. /\ \A i, j \in DOMAIN s : i < j => Follows(s[i], s[j])
        /\ \A j \in DOMAIN s : Follows(s[j], e)
    BY <1>7, <1>9, <2>1
  <2>5. \A i, j \in DOMAIN t : i < j => Follows(t[i], t[j])
    BY <2>2, <2>3, <2>4
  <2>6. ASSUME NEW i \in DOMAIN ready', ready'[i].to = c, NEW j \in DOMAIN t
        PROVE  Follows(t[j], ready'[i].event)
    BY <1>6, <1>9, <2>1, <2>2, <2>6
  <2> QED BY <1>6, <2>1, <2>5, <2>6
<1> QED BY <1>8, <1>9

\* A connection takes the first of its queue to the end of what it got.
LEMMA LineByReceive ==
    ASSUME CallTyped, FlowTyped, LineInv, NEW d \in Connections, Receive(d)
    PROVE  LineInv'
<1>1. /\ queue[d] # <<>> /\ queue[d] \in Seq(Done) /\ got[d] \in Seq(Done) /\ Head(queue[d]) \in Done
      /\ queue'[d] = Tail(queue[d]) /\ got'[d] = Append(got[d], Head(queue[d]))
      /\ \A c \in Connections : c # d => queue'[c] = queue[c] /\ got'[c] = got[c]
      /\ UNCHANGED ready
  BY ReceiveFacts
<1>2. Append(got[d], Head(queue[d])) \o Tail(queue[d]) = got[d] \o queue[d]
  BY <1>1, ConcatAppend
<1>3. \A c \in Connections : Taken(c)' = Taken(c)
  BY <1>1, <1>2 DEF Taken
<1> QED BY <1>1, <1>3 DEF LineInv

\* Every step keeps the order.
LEMMA LineKept == CallTyped /\ FlowTyped /\ BehindInv /\ LineInv /\ [Next]_vars => LineInv'
<1>. SUFFICES ASSUME CallTyped, FlowTyped, BehindInv, LineInv, [Next]_vars PROVE LineInv'
  OBVIOUS
<1>1. CASE UNCHANGED vars
  BY <1>1, LineStays DEF vars, streamVars
<1>2. ASSUME NEW p \in Publishers, Change(p) \/ PublisherStep(p) PROVE LineInv'
  BY <1>2, LineBySinks, LineStays
     DEF Change, PublisherStep, Publish, CallWatcher, CallBridge, EndBroadcast, streamVars
<1>3. ASSUME NEW w \in Watchers, Watch(w) \/ Unwatch(w) PROVE LineInv'
  BY <1>3, LineStays DEF Watch, Unwatch, streamVars
<1>4. ASSUME NEW c \in Connections,
             Connect(c) \/ EndLook(c) \/ Receive(c) \/ Heartbeat(c) \/ Disconnect(c) \/ Break(c)
      PROVE  LineInv'
  BY <1>4, LineByReceive, LineStays DEF Connect, EndLook, Heartbeat, Disconnect, Break
<1> QED BY <1>1, <1>2, <1>3, <1>4, LineByTheLoop DEF Next

\* StreamInOrder for any publishers, watchers and connections: a publisher's events
\* reach a connection once and in the order they were published.
THEOREM EventsInOrder == Spec => []StreamInOrder
<1>1. Init => BehindInv /\ LineInv
  <2>1. SUFFICES ASSUME Init PROVE BehindInv /\ LineInv
    OBVIOUS
  <2>2. ready = <<>> /\ \A c \in Connections : got[c] = <<>> /\ queue[c] = <<>>
    BY <2>1 DEF Init
  <2>3. DOMAIN ready = {}
    BY <2>2
  <2>4. \A c \in Connections : Taken(c) = <<>>
    BY <2>2 DEF Taken
  <2>5. \A c \in Connections : DOMAIN Taken(c) = {}
    BY <2>4
  <2>6. \A c \in Connections : \A e : ~Lies(c, e)
    BY <2>2, <2>3 DEF Lies, ToSet
  <2> QED BY <2>3, <2>5, <2>6 DEF BehindInv, LineInv
<1>2. BusInv /\ BehindInv /\ LineInv /\ [Next]_vars => BehindInv' /\ LineInv'
  BY BehindKept, LineKept DEF BusInv
<1>3. Spec => [](BehindInv /\ LineInv)
  BY <1>1, <1>2, BusAlways, PTL DEF Spec
<1>4. BusInv /\ BehindInv /\ LineInv => StreamInOrder
  BY LineMeans DEF BusInv
<1> QED BY <1>3, <1>4, BusAlways, PTL
=============================================================================
