------------------------------- MODULE TwinStream ------------------------------
(***************************************************************************)
(* The live twin stream: the bus's publishers, TwinBroadcaster of          *)
(* omni/twin/stream.py, which the API subscribes to every subject, and the *)
(* /twin/stream route of omni/api/main.py with one sink and one queue per  *)
(* connection.  Publishers are threads; the connections' coroutines share  *)
(* one event loop, which runs one of them at a time.                       *)
(***************************************************************************)
EXTENDS FleetBus, FiniteSets

CONSTANTS
    Publishers,         \* threads that change some state and then publish it
    SubjectOf,          \* the subject each of them publishes on
    Watchers,           \* handlers other code subscribes
    PatternOf,          \* the pattern of each
    Connections,        \* one use of the route each
    Casts               \* bounds: who takes part in a behaviour, and how often
                        \* each publisher changes its state in it

Bridge == "bridge"
Nobody == "nobody"

ASSUME TwinAssumption ==
    /\ \A k \in Casts : /\ k.watchers \subseteq Watchers
                        /\ k.connections \subseteq Connections
                        /\ k.changes \in [Publishers -> Nat]
    /\ {Bridge, Nobody} \cap (Watchers \cup Connections) = {}
    /\ \A p \in Publishers : SubjectOf[p] \in Seq(STRING)
    /\ \A w \in Watchers :        \* '>' "must be the final token in the pattern"
          /\ PatternOf[w] \in Seq(STRING) /\ PatternOf[w] # <<>>
          /\ \A i \in 1 .. Len(PatternOf[w]) - 1 : PatternOf[w][i] # Rest

VARIABLES
    cast,       \* who takes part, for good
    table,      \* the bus's subscription table
    watching,   \* "not", "in" or "left", by watcher
    heard,      \* what each watcher was called with
    made,       \* how many changes each publisher has made
    pc,         \* where each publisher stands
    handlers,   \* the subscriptions whose handler its publish() still has to call
    todo,       \* the sinks its broadcast() still has to call
    dead,       \* the sinks that raised so far
    sinks,      \* the broadcaster's sinks
    joined,     \* the connections in the order of the ids their sinks got
    ready,      \* call_soon_threadsafe(): what the loop runs next
    looking,    \* the connection whose snapshot() runs in the loop, since when
    stage,      \* "new", "live", "gone" or "broken", by connection
    queue,      \* the connection's asyncio queue
    seen,       \* what the last snapshot sent to it showed
    got,        \* the events sent to it
    owed,       \* history: who was subscribed when an event was published
    failed      \* history: events whose publish() raised

busVars    == <<table, watching, heard, owed>>
callVars   == <<pc, handlers, todo, dead>>
streamVars == <<sinks, joined, looking, stage, queue, seen, got>>
vars       == <<cast, busVars, callVars, streamVars, made, ready, failed>>

\* The changes made, which a snapshot can show, and the one a publisher made last.
Done       == UNION {{[by |-> p, n |-> k] : k \in 1..made[p]} : p \in Publishers}
Current(p) == [by |-> p, n |-> made[p]]

TwinTypeOK ==
    /\ cast \in Casts
    /\ \A t \in table.subs : t.handler \in Watchers \cup {Bridge} /\ t.key \in DOMAIN table.keys
    /\ watching \in [Watchers -> {"not", "in", "left"}]
    /\ heard \in [Watchers -> SUBSET Done]
    /\ made \in [Publishers -> Nat]
    /\ pc \in [Publishers -> {"idle", "changed", "calling", "sinking"}]
    /\ \A p \in Publishers : /\ \A t \in handlers[p] : t.handler \in Watchers \cup {Bridge}
                             /\ pc[p] \in {"idle", "changed"} => handlers[p] = {}
                             /\ pc[p] # "sinking" => todo[p] = {} /\ dead[p] = {}
    /\ todo \in [Publishers -> SUBSET Connections]
    /\ dead \in [Publishers -> SUBSET Connections]
    /\ sinks \subseteq Connections /\ joined \in Seq(Connections)
    /\ stage \in [Connections -> {"new", "live", "gone", "broken"}]
    /\ looking.who \in Connections \cup {Nobody} /\ looking.from \subseteq Done
    /\ seen \in [Connections -> SUBSET Done]
    /\ queue \in [Connections -> Seq(Done)] /\ got \in [Connections -> Seq(Done)]
    /\ \A i \in DOMAIN ready : ready[i].to \in Connections /\ ready[i].event \in Done
    /\ owed \subseteq Done \X Watchers /\ failed \subseteq Done

Idle == [who |-> Nobody, from |-> {}]

Init ==
    /\ cast \in Casts
    /\ table = Subscribed(NoSubscriptions, <<Rest>>, Bridge)
    /\ watching = [w \in Watchers |-> "not"]
    /\ heard = [w \in Watchers |-> {}]
    /\ made = [p \in Publishers |-> 0]
    /\ pc = [p \in Publishers |-> "idle"]
    /\ handlers = [p \in Publishers |-> {}]
    /\ todo = [p \in Publishers |-> {}]
    /\ dead = [p \in Publishers |-> {}]
    /\ sinks = {} /\ joined = <<>> /\ ready = <<>>
    /\ looking = Idle
    /\ stage = [c \in Connections |-> "new"]
    /\ queue = [c \in Connections |-> <<>>]
    /\ seen = [c \in Connections |-> {}]
    /\ got = [c \in Connections |-> <<>>]
    /\ owed = {} /\ failed = {}

-----------------------------------------------------------------------------
(* Publishers: first the change, then the bus, then whoever listens.       *)

Change(p) ==
    /\ pc[p] = "idle" /\ made[p] < cast.changes[p]
    /\ made' = [made EXCEPT ![p] = @ + 1]
    /\ pc' = [pc EXCEPT ![p] = "changed"]
    /\ UNCHANGED <<cast, busVars, handlers, todo, dead, streamVars, ready, failed>>

\* publish() captures the handlers under the lock and calls them without it.
Publish(p) ==
    /\ pc[p] = "changed"
    /\ handlers' = [handlers EXCEPT ![p] = HandlersFor(table, SubjectOf[p])]
    /\ pc' = [pc EXCEPT ![p] = IF handlers'[p] = {} THEN "idle" ELSE "calling"]
    /\ owed' = owed \cup {<<Current(p), w>> : w \in {v \in Watchers :
                    watching[v] = "in" /\ Covers(PatternOf[v], SubjectOf[p])}}
    /\ UNCHANGED <<cast, table, watching, heard, todo, dead, streamVars, made, ready, failed>>

\* t is the next subscription of those it captured.
IsNext(p, t) == t \in handlers[p] /\ \A u \in handlers[p] \ {t} : Before(t, u)

\* publish() goes on with the handlers in hs, or returns.
Proceed(p, hs) ==
    /\ handlers' = [handlers EXCEPT ![p] = hs]
    /\ pc' = [pc EXCEPT ![p] = IF hs = {} THEN "idle" ELSE "calling"]

\* A watcher may raise: the handlers after it are not called and the error is
\* the publisher's.
CallWatcher(p) ==
    /\ pc[p] = "calling"
    /\ \E t \in handlers[p] :
          /\ IsNext(p, t) /\ t.handler # Bridge
          /\ heard' = [heard EXCEPT ![t.handler] = @ \cup {Current(p)}]
          /\ \/ Proceed(p, handlers[p] \ {t}) /\ UNCHANGED failed
             \/ Proceed(p, {}) /\ failed' = failed \cup {Current(p)}
    /\ UNCHANGED <<cast, table, watching, owed, todo, dead, streamVars, made, ready>>

\* The API's own handler: broadcast() copies the sinks under its lock.
CallBridge(p) ==
    /\ pc[p] = "calling"
    /\ \E t \in handlers[p] : IsNext(p, t) /\ t.handler = Bridge
    /\ pc' = [pc EXCEPT ![p] = "sinking"]
    /\ todo' = [todo EXCEPT ![p] = sinks]
    /\ UNCHANGED <<cast, busVars, handlers, dead, streamVars, made, ready, failed>>

\* The sink of c got its id before the one of d.
Earlier(c, d) == \E i, j \in DOMAIN joined : i < j /\ joined[i] = c /\ joined[j] = d

CallSink(p) ==
    /\ pc[p] = "sinking"
    /\ \E c \in todo[p] :
          /\ \A d \in todo[p] \ {c} : Earlier(c, d)
          /\ IF stage[c] = "broken"
             THEN dead' = [dead EXCEPT ![p] = @ \cup {c}] /\ UNCHANGED ready
             ELSE ready' = Append(ready, [to |-> c, event |-> Current(p)]) /\ UNCHANGED dead
          /\ todo' = [todo EXCEPT ![p] = @ \ {c}]
    /\ UNCHANGED <<cast, busVars, pc, handlers, streamVars, made, failed>>

AllPruned(p) == IF dead[p] = {} THEN sinks ELSE {}                           \* mutant
Pruned(p)    == sinks \ dead[p]

EndBroadcast(p) ==
    /\ pc[p] = "sinking" /\ todo[p] = {}
    /\ sinks' = Pruned(p)
    /\ dead' = [dead EXCEPT ![p] = {}]
    /\ Proceed(p, {t \in handlers[p] : t.handler # Bridge})
    /\ UNCHANGED <<cast, busVars, todo, joined, looking, stage, queue, seen, got, made, ready, failed>>

-----------------------------------------------------------------------------
(* Watchers.                                                               *)

Watch(w) ==
    /\ w \in cast.watchers /\ watching[w] = "not"
    /\ watching' = [watching EXCEPT ![w] = "in"]
    /\ table' = Subscribed(table, PatternOf[w], w)
    /\ UNCHANGED <<cast, heard, owed, callVars, streamVars, made, ready, failed>>

Unwatch(w) ==
    /\ watching[w] = "in"
    /\ watching' = [watching EXCEPT ![w] = "left"]
    /\ \E t \in table.subs : t.handler = w /\ table' = Unsubscribed(table, t.id)
    /\ UNCHANGED <<cast, heard, owed, callVars, streamVars, made, ready, failed>>

-----------------------------------------------------------------------------
(* The event loop.                                                         *)

LoopIsFree == looking = Idle

\* subscribe() and unsubscribe() of the broadcaster; one that was pruned already is
\* no error.
AddSink(c)  == sinks' = sinks \cup {c} /\ joined' = Append(joined, c)
DropSink(c) == sinks' = sinks \ {c} /\ UNCHANGED joined

NewestFirst == Len(ready)                                                    \* mutant
NextReady   == 1

RunReady ==
    /\ LoopIsFree /\ ready # <<>>
    /\ LET r == ready[NextReady] IN queue' = [queue EXCEPT ![r.to] = Append(@, r.event)]
    /\ ready' = RemoveAt(ready, NextReady)
    /\ UNCHANGED <<cast, busVars, callVars, sinks, joined, looking, stage, seen, got, made, failed>>

BeginLook(c) == looking' = [who |-> c, from |-> Done]

\* The sink is in place before the first snapshot is taken, with no await between.
Connect(c) ==
    /\ LoopIsFree /\ c \in cast.connections /\ stage[c] = "new"
    /\ stage' = [stage EXCEPT ![c] = "live"]
    /\ AddSink(c)
    /\ BeginLook(c)
    /\ UNCHANGED <<cast, busVars, callVars, queue, seen, got, made, ready, failed>>

\* snapshot() reads one component after the other: of what changes meanwhile it
\* may show any part.
Show(c) ==
    \E S \in SUBSET Done : looking.from \subseteq S /\ seen' = [seen EXCEPT ![c] = S]

EndLook(c) ==
    /\ looking.who = c
    /\ Show(c)
    /\ looking' = Idle
    /\ UNCHANGED <<cast, busVars, callVars, sinks, joined, stage, queue, got, made, ready, failed>>

Receive(c) ==
    /\ LoopIsFree /\ stage[c] = "live" /\ queue[c] # <<>>
    /\ queue' = [queue EXCEPT ![c] = Tail(@)]
    /\ got' = [got EXCEPT ![c] = Append(@, Head(queue[c]))]
    /\ UNCHANGED <<cast, busVars, callVars, sinks, joined, looking, stage, seen, made, ready, failed>>

Heartbeat(c) ==
    /\ LoopIsFree /\ stage[c] = "live" /\ queue[c] = <<>>
    /\ BeginLook(c)
    /\ UNCHANGED <<cast, busVars, callVars, sinks, joined, stage, queue, seen, got, made, ready, failed>>

\* A send fails: the finally clause takes the sink out.
Disconnect(c) ==
    /\ LoopIsFree /\ stage[c] = "live"
    /\ stage' = [stage EXCEPT ![c] = "gone"]
    /\ DropSink(c)
    /\ UNCHANGED <<cast, busVars, callVars, looking, queue, seen, got, made, ready, failed>>

\* A sink from here on raises: only broadcast() takes it out.
Break(c) ==
    /\ LoopIsFree /\ stage[c] = "live"
    /\ stage' = [stage EXCEPT ![c] = "broken"]
    /\ UNCHANGED <<cast, busVars, callVars, sinks, joined, looking, queue, seen, got, made, ready, failed>>

-----------------------------------------------------------------------------
PublisherStep(p) == \/ Publish(p) \/ CallWatcher(p) \/ CallBridge(p)
                    \/ CallSink(p) \/ EndBroadcast(p)
Next ==
    \/ \E p \in Publishers : Change(p) \/ PublisherStep(p)
    \/ \E w \in Watchers : Watch(w) \/ Unwatch(w)
    \/ RunReady
    \/ \E c \in Connections : \/ Connect(c) \/ EndLook(c) \/ Receive(c)
                              \/ Heartbeat(c) \/ Disconnect(c) \/ Break(c)

\* A call that was begun goes on.  The loop runs what is ready in turn, so that
\* neither a callback nor a coroutine waits for the others' heartbeats for ever.
Fairness ==
    /\ \A p \in Publishers : WF_vars(PublisherStep(p))
    /\ SF_vars(RunReady)
    /\ \A c \in Connections : WF_vars(EndLook(c)) /\ SF_vars(Receive(c))

Spec     == Init /\ [][Next]_vars
FairSpec == Spec /\ Fairness

-----------------------------------------------------------------------------
(* Properties.                                                             *)

Shown(c) == seen[c] \cup ToSet(got[c])

\* Event e is on its way to connection c.
OnItsWay(c, e) ==
    \/ e \in ToSet(queue[c])
    \/ [to |-> c, event |-> e] \in ToSet(ready)
    \/ /\ e = Current(e.by)
       /\ \/ pc[e.by] = "changed"
          \/ pc[e.by] = "calling" /\ \E t \in handlers[e.by] : t.handler = Bridge
          \/ pc[e.by] = "sinking" /\ c \in todo[e.by]

\* "An initial full snapshot, then every fleet bus event as it happens" (main.py
\* 734): whatever subscribes, raises, disconnects or is pruned meanwhile, a
\* connection was shown every change or the event is on its way to it.
NoEventMissed ==
    \A c \in Connections : (stage[c] = "live" /\ looking.who # c) =>
        \A e \in Done : e \in Shown(c) \/ OnItsWay(c, e)

\* f comes after e, if one publisher made both.
Follows(e, f) == e.by = f.by => e.n < f.n

\* A publisher's events reach a connection once and in the order they were
\* published (bus.py 103, main.py 743), through three queues.
StreamInOrder ==
    \A c \in Connections :
        LET taken == got[c] \o queue[c] IN
        /\ \A i, j \in DOMAIN taken : i < j => Follows(taken[i], taken[j])
        /\ \A i \in DOMAIN ready : ready[i].to = c =>
              /\ \A j \in DOMAIN taken : Follows(taken[j], ready[i].event)
              /\ \A j \in 1 .. i - 1 : ready[j].to = c => Follows(ready[j].event, ready[i].event)

\* A publication is heard by those whose pattern covers it and who were subscribed
\* when it was made, and by nobody else, unless a handler before them raised
\* (bus.py 97-104).
HeardByThoseOwed ==
    /\ \A w \in Watchers : \A e \in heard[w] : <<e, w>> \in owed
    /\ \A x \in owed : \/ x[1] \in heard[x[2]] \cup failed
                       \/ /\ x[1] = Current(x[1].by)
                          /\ \E t \in handlers[x[1].by] : t.handler = x[2]

\* Bus, sinks and queues are well typed, and a publication reaches the watchers it
\* is owed to (bus.py 96-116).
TwinInv == TwinTypeOK /\ HeardByThoseOwed

\* "Operators watch the system evolve instead of polling" (stream.py 3): a
\* connection that stays is shown every change of the behaviour.
ChangesAreShown ==
    \A c \in Connections : []<>(stage[c] = "live" => Done \subseteq Shown(c))

=============================================================================
