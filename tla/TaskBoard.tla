------------------------------- MODULE TaskBoard -------------------------------
(***************************************************************************)
(* What the Meta-Orchestrator promises those who submit and those who work *)
(* (ARCHITECTURE.md 58-70, engine.py 4-16): a task enters the pool once,   *)
(* is on nobody or on one worker that was able when it was given it, is    *)
(* passed on only to others who are, a few at a time, and once closed is   *)
(* done.  How workers are chosen, and depths and loads, are left open.     *)
(***************************************************************************)
CONSTANTS Tasks, Workers, Abilities,
          Nobody,   \* no worker
          Handfuls  \* the sets of tasks that may be passed on in one go

VARIABLES joined,   \* the workers that ever joined
          present,  \* those that may be given work
          able,     \* what each worker is able to do
          posted,   \* the tasks that were submitted
          needs,    \* what each takes
          holder,   \* whom it is on
          closed    \* the tasks that are done

workers == <<joined, present, able>>
tasks   == <<posted, needs, holder, closed>>
board   == <<workers, tasks>>

\* There may be workers already, but no task.
BoardInit ==
    /\ present \subseteq joined /\ joined \subseteq Workers
    /\ able \in [Workers -> SUBSET Abilities]
    /\ posted = {} /\ closed = {}
    /\ needs = [t \in Tasks |-> {}]
    /\ holder = [t \in Tasks |-> Nobody]

Open(t) == t \in posted \ closed
Held(t) == Open(t) /\ holder[t] # Nobody

\* Whether t may be given to w.
Fits(t, w) == w \in present /\ needs[t] \subseteq able[w]

Join(w, a) ==
    /\ w \notin joined
    /\ joined' = joined \cup {w} /\ present' = present \cup {w}
    /\ able' = [able EXCEPT ![w] = a]
    /\ UNCHANGED tasks

Leave(ws) == present' = present \ ws /\ UNCHANGED <<joined, able, tasks>>

Return(w) == w \in joined /\ present' = present \cup {w} /\ UNCHANGED <<joined, able, tasks>>

Post(t, n) ==
    /\ t \notin posted
    /\ posted' = posted \cup {t}
    /\ needs' = [needs EXCEPT ![t] = n]
    /\ UNCHANGED <<workers, holder, closed>>

Take(t, w) ==
    /\ Open(t) /\ ~Held(t) /\ Fits(t, w)
    /\ holder' = [holder EXCEPT ![t] = w]
    /\ UNCHANGED <<workers, posted, needs, closed>>

PassOn(ts) ==
    /\ \A t \in ts : Held(t) /\ Fits(t, holder'[t])
    /\ holder' \in [Tasks -> Workers \cup {Nobody}]
    /\ \A t \in Tasks \ ts : holder'[t] = holder[t]
    /\ UNCHANGED <<workers, posted, needs, closed>>

Close(t) ==
    /\ Open(t)
    /\ closed' = closed \cup {t}
    /\ holder' = [holder EXCEPT ![t] = Nobody]
    /\ UNCHANGED <<workers, posted, needs>>

BoardNext ==
    \/ \E w \in Workers, a \in SUBSET Abilities : Join(w, a)
    \/ \E ws \in SUBSET Workers : Leave(ws)
    \/ \E w \in Workers : Return(w)
    \/ \E t \in Tasks, n \in SUBSET Abilities : Post(t, n)
    \/ \E t \in Tasks, w \in Workers : Take(t, w)
    \/ \E ts \in Handfuls : PassOn(ts)
    \/ \E t \in Tasks : Close(t)

BoardSpec == BoardInit /\ [][BoardNext]_board
=============================================================================
