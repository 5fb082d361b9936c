------------------------------ MODULE SkillCatalog -----------------------------
(***************************************************************************)
(* The skill marketplace, omni/marketplace/catalog.py: skills in the order *)
(* they came, each with its version history.  Every operation holds the    *)
(* catalog's lock, so that each is one step; what an operation does before *)
(* it raises stays done.                                                   *)
(***************************************************************************)
EXTENDS Integers, Sequences, FiniteSets, SequencesExt

CONSTANTS
    AgentIds,
    Names, Kinds,       \* of skills
    Versions,           \* what may be given as a version: its dotted parts
    Shared,             \* manifests other catalogs exported
    Origins,            \* of versions: urls, "api" for the catalog's own users; "" for none
    MaxSkills, MaxInstalls      \* bounds

NotANumber == -1

VARIABLES
    skills,     \* the manifests, oldest first
    installed   \* the skills each agent has installed, by id

catalogVars == <<skills, installed>>

-----------------------------------------------------------------------------
(* Versions.                                                               *)

\* int() raises on one of the three parts that count.
Malformed(v)   == \E i \in DOMAIN v : i <= 3 /\ v[i] = NotANumber
Materialize(v) == SubSeq(v, 1, IF Len(v) < 3 THEN Len(v) ELSE 3)

\* Tuples compare part by part, and a proper prefix comes first.
TupleLess(a, b) ==
    \/ IsStrictPrefix(a, b)
    \/ \E i \in DOMAIN a \cap DOMAIN b :
           a[i] < b[i] /\ \A j \in 1 .. i - 1 : a[j] = b[j]

NoVersion == <<0, 0, 0>>

SkillVersion == [version : Versions, by : Origins]
Manifest     == [id : Nat, name : Names, kind : Kinds, versions : Seq(SkillVersion),
             latest : Versions \cup {NoVersion}, installs : 0..MaxInstalls, source : Origins]

Ascending(s) ==
    /\ \A i, j \in DOMAIN s.versions : i < j =>
           TupleLess(Materialize(s.versions[i].version), Materialize(s.versions[j].version))
    /\ s.latest = IF s.versions = <<>> THEN NoVersion ELSE Last(s.versions).version

\* What other catalogs exported was published by the same code, under ids of theirs.
ASSUME CatalogAssumption ==
    /\ Versions \subseteq Seq(Int) \ {<<>>}
    /\ {MaxSkills, MaxInstalls} \subseteq Nat /\ {"", "api"} \subseteq Origins
    /\ \A m \in Shared : m \in Manifest /\ m.id > MaxSkills /\ Ascending(m)

-----------------------------------------------------------------------------
(* publish()                                                               *)

NewSkill(name, kind) ==
    [id |-> Len(skills) + 1, name |-> name, kind |-> kind, versions |-> <<>>,
     latest |-> NoVersion, installs |-> 0, source |-> ""]

\* The first of the name, whichever others were imported.
Find(name) == SelectInSeq(skills, LAMBDA s : s.name = name)

\* What publish() does before it looks at the version.
Described(name, kind) ==
    IF Find(name) = 0 THEN Append(skills, NewSkill(name, kind))
                      ELSE [skills EXCEPT ![Find(name)].kind = kind]

IndexOf(name) == IF Find(name) = 0 THEN Len(skills) + 1 ELSE Find(name)
LatestOf(name) == IF Find(name) = 0 THEN NoVersion ELSE skills[Find(name)].latest

AcceptsOther(name, v) ==                                                     \* mutant
    ~Malformed(v) /\ Materialize(LatestOf(name)) # Materialize(v)
Accepts(name, v) ==
    ~Malformed(v) /\ TupleLess(Materialize(LatestOf(name)), Materialize(v))

\* The catalog after publish(); by is who published the version.
Published(name, kind, v, by) ==
    IF Accepts(name, v)
    THEN [Described(name, kind) EXCEPT
              ![IndexOf(name)].versions = Append(@, [version |-> v, by |-> by]),
              ![IndexOf(name)].latest = v]
    ELSE Described(name, kind)

HasRoom(name) == Find(name) # 0 \/ Len(skills) < MaxSkills

Publish(name, kind, v) ==
    /\ HasRoom(name)
    /\ skills' = Published(name, kind, v, "api")
    /\ UNCHANGED installed

\* A copy of another catalog's skill, under its own id.  The name is not looked at.
ImportManifest(m) ==
    /\ \A k \in DOMAIN skills : skills[k].id # m.id
    /\ \A k \in DOMAIN m.versions : ~Malformed(m.versions[k].version)
    /\ \A k, l \in DOMAIN m.versions : k < l =>
           ~TupleLess(Materialize(m.versions[l].version), Materialize(m.versions[k].version))
    /\ skills' = Append(skills, m)
    /\ UNCHANGED installed

-----------------------------------------------------------------------------
(* install() and remove()                                                  *)

Counted(k)    == skills[k].installs + 1

Install(k, agent) ==
    /\ skills[k].installs < MaxInstalls
    /\ skills' = [skills EXCEPT ![k].installs = Counted(k)]
    /\ installed' = [installed EXCEPT ![agent] = @ \cup {skills[k].id}]

Uninstall(k, agent) ==
    /\ skills[k].id \in installed[agent]
    /\ installed' = [installed EXCEPT ![agent] = @ \ {skills[k].id}]
    /\ UNCHANGED skills

CatalogInit ==
    /\ skills = <<>>
    /\ installed = [a \in AgentIds |-> {}]

CatalogNext ==
    \/ \E name \in Names, kind \in Kinds, v \in Versions : Publish(name, kind, v)
    \/ \E m \in Shared : ImportManifest(m)
    \/ \E k \in DOMAIN skills, a \in AgentIds : Install(k, a) \/ Uninstall(k, a)

-----------------------------------------------------------------------------
(* Properties.                                                             *)

CatalogTypeOK ==
    /\ \A k \in DOMAIN skills : skills[k] \in Manifest
    /\ \A k, l \in DOMAIN skills : skills[k].id = skills[l].id => k = l
    /\ installed \in [AgentIds -> SUBSET {skills[k].id : k \in DOMAIN skills}]
    /\ \A k \in DOMAIN skills :
           Cardinality({a \in AgentIds : skills[k].id \in installed[a]}) <= skills[k].installs

\* Whatever is published, synced at once from several places or imported, a
\* skill's versions ascend strictly and latest_version is the last of them
\* (catalog.py 58-63): install(), authorize() and the twin each read one of the two.
VersionsAscend == \A k \in DOMAIN skills : Ascending(skills[k])
=============================================================================
