------------------------------- MODULE RemoteSync ------------------------------
(***************************************************************************)
(* RemoteSkillRegistry of omni/marketplace/remote.py over the catalog: a   *)
(* sync() fetches a registry's manifest, publishes its versions one call   *)
(* at a time and stamps the skill it reached, with nothing held from one   *)
(* step to the next.  sync_all() does so for each source until one raises. *)
(* Requests run at once, with each other and with the catalog's own users. *)
(***************************************************************************)
EXTENDS SkillCatalog

CONSTANTS
    Requests,           \* calls of sync() or sync_all(), one each
    Urls,
    Offers              \* the manifests a registry may answer with

ASSUME SyncAssumption ==
    /\ Urls \subseteq Origins \ {"", "api"}
    /\ Offers \in [Urls -> SUBSET [name : Names, kind : Kinds, versions : Seq(Versions)]]
    /\ \A m \in Shared : \A k \in DOMAIN m.versions : m.versions[k].by \notin Urls

VARIABLES
    sources,    \* the registered urls
    stage,      \* "new", "fetch", "publish", "stamp", "record" or "over"
    urls,       \* the urls the request has yet to sync
    offer,      \* the manifest it fetched
    todo,       \* the versions it has yet to publish
    reached,    \* the skill it published last, 0 before
    synced,     \* the urls with a time of their last sync
    outcomes    \* history: the syncs that reached the end of their versions

syncVars == <<sources, stage, urls, offer, todo, reached, synced, outcomes>>
vars     == <<catalogVars, syncVars>>

NoOffer == [name |-> "", kind |-> "", versions |-> <<>>]

Init ==
    /\ CatalogInit
    /\ sources = <<>>
    /\ stage = [r \in Requests |-> "new"]
    /\ urls = [r \in Requests |-> <<>>]
    /\ offer = [r \in Requests |-> NoOffer]
    /\ todo = [r \in Requests |-> <<>>]
    /\ reached = [r \in Requests |-> 0]
    /\ synced = {} /\ outcomes = {}

UseCatalog == CatalogNext /\ UNCHANGED syncVars

RegisterSource(u) ==
    /\ u \notin ToSet(sources)
    /\ sources' = Append(sources, u)
    /\ UNCHANGED <<catalogVars, stage, urls, offer, todo, reached, synced, outcomes>>

Start(r, us) ==
    /\ stage[r] = "new" /\ us # <<>>
    /\ stage' = [stage EXCEPT ![r] = "fetch"]
    /\ urls' = [urls EXCEPT ![r] = us]
    /\ UNCHANGED <<catalogVars, sources, offer, todo, reached, synced, outcomes>>

Sync(r)    == \E u \in Urls : Start(r, <<u>>)
SyncAll(r) == Start(r, sources)

-----------------------------------------------------------------------------
VersionKey(v) == IF Malformed(v) THEN NoVersion ELSE Materialize(v)

AsOffered(vs) == vs                                                          \* mutant
InOrder(vs) ==
    LET before(i, j) == \/ TupleLess(VersionKey(vs[i]), VersionKey(vs[j]))
                        \/ VersionKey(vs[i]) = VersionKey(vs[j]) /\ i < j
        order == CHOOSE p \in Bijection(DOMAIN vs, DOMAIN vs) :
                     \A i, j \in DOMAIN vs : i < j => before(p[i], p[j])
    IN  [i \in DOMAIN vs |-> vs[order[i]]]

\* The request is over, with what sync() raised or, at its end, returned.
End(r) ==
    /\ stage' = [stage EXCEPT ![r] = "over"]
    /\ urls' = [urls EXCEPT ![r] = <<>>]

Fetch(r) ==
    /\ stage[r] = "fetch"
    /\ \E m \in Offers[Head(urls[r])] :
           /\ stage' = [stage EXCEPT ![r] = "publish"]
           /\ offer' = [offer EXCEPT ![r] = m]
           /\ todo' = [todo EXCEPT ![r] = InOrder(m.versions)]
    /\ UNCHANGED <<catalogVars, sources, urls, reached, synced, outcomes>>

\* The registry cannot be reached, or has no name or no version.
FetchFails(r) ==
    /\ stage[r] = "fetch"
    /\ End(r)
    /\ UNCHANGED <<catalogVars, sources, offer, todo, reached, synced, outcomes>>

\* A version that is not newer is skipped.
PublishNext(r) ==
    /\ stage[r] = "publish" /\ todo[r] # <<>>
    /\ HasRoom(offer[r].name)
    /\ LET v == Head(todo[r]) IN
       /\ skills' = Published(offer[r].name, offer[r].kind, v, Head(urls[r]))
       /\ IF Accepts(offer[r].name, v)
          THEN /\ stage' = [stage EXCEPT ![r] = "stamp"]
               /\ reached' = [reached EXCEPT ![r] = IndexOf(offer[r].name)]
          ELSE UNCHANGED <<stage, reached>>
    /\ todo' = [todo EXCEPT ![r] = Tail(@)]
    /\ UNCHANGED <<installed, sources, urls, offer, synced, outcomes>>

NoUrl(r)   == ""                                                             \* mutant
UrlOf(r)   == Head(urls[r])

\* source_url and last_synced are set on the catalog's own manifest.
Stamp(r) ==
    /\ stage[r] = "stamp"
    /\ skills' = [skills EXCEPT ![reached[r]].source = UrlOf(r)]
    /\ stage' = [stage EXCEPT ![r] = "publish"]
    /\ UNCHANGED <<installed, sources, urls, offer, todo, reached, synced, outcomes>>

\* With nothing published sync() raises, also where all was there already.
AllTried(r) ==
    /\ stage[r] = "publish" /\ todo[r] = <<>>
    /\ outcomes' = outcomes \cup {[url |-> Head(urls[r]), offer |-> offer[r]]}
    /\ IF reached[r] = 0
       THEN End(r)
       ELSE stage' = [stage EXCEPT ![r] = "record"] /\ UNCHANGED urls
    /\ UNCHANGED <<catalogVars, sources, offer, todo, reached, synced>>

RecordSync(r) ==
    /\ stage[r] = "record"
    /\ synced' = synced \cup {Head(urls[r])}
    /\ urls' = [urls EXCEPT ![r] = Tail(@)]
    /\ stage' = [stage EXCEPT ![r] = IF urls'[r] = <<>> THEN "over" ELSE "fetch"]
    /\ offer' = [offer EXCEPT ![r] = NoOffer]
    /\ reached' = [reached EXCEPT ![r] = 0]
    /\ UNCHANGED <<catalogVars, sources, todo, outcomes>>

Next ==
    \/ UseCatalog
    \/ \E u \in Urls : RegisterSource(u)
    \/ \E r \in Requests : \/ Sync(r) \/ SyncAll(r) \/ Fetch(r) \/ FetchFails(r)
                           \/ PublishNext(r) \/ Stamp(r) \/ AllTried(r) \/ RecordSync(r)

Spec == Init /\ [][Next]_vars

-----------------------------------------------------------------------------
(* Properties.                                                             *)

\* A registry that offers a version still offers every older one it ever did.
OffersGrow ==
    \A u \in Urls : \A m, o \in Offers[u] : m.name = o.name =>
        \A v \in ToSet(m.versions), w \in ToSet(o.versions) :
            ~Malformed(v) /\ ~Malformed(w) /\ TupleLess(Materialize(v), Materialize(w))
                => \E x \in ToSet(o.versions) : Materialize(x) = Materialize(v)

\* "Publishes every version in ascending order (the catalog already rejects
\* non-newer versions)" (remote.py 20-21): a sync that came to its end left no
\* version behind, except for a newer one that somebody else published.
SyncLeavesNothingBehind ==
    \A o \in outcomes : LET vs == ToSet(skills[Find(o.offer.name)].versions) IN
        \A v \in ToSet(o.offer.versions) :
            \/ Malformed(v) \/ ~TupleLess(NoVersion, Materialize(v))
            \/ \E e \in vs : Materialize(e.version) = Materialize(v)
            \/ \E e \in vs : e.by # o.url /\ TupleLess(Materialize(v), Materialize(e.version))

\* "Stamps source_url + last_synced on the manifest so provenance is never lost"
\* (remote.py 21-22): a skill with versions from registries names one of them,
\* whoever published and stamped in between.
ProvenanceKept ==
    \A k \in DOMAIN skills :
        LET from == {e.by : e \in ToSet(skills[k].versions)} \cap Urls IN
        (from # {} /\ \A r \in Requests : stage[r] # "stamp") => skills[k].source \in from

\* Ids are unique, installs are counted (catalog.py 65-82) and a synced skill
\* names where it came from (remote.py 109-111).
SyncInv == CatalogTypeOK /\ ProvenanceKept
=============================================================================
