----------------------------- MODULE MCRemoteSync ------------------------------
(***************************************************************************)
(* A small marketplace for TLC.                                            *)
(***************************************************************************)
EXTENDS RemoteSync, TLC

CONSTANTS r1, r2

Symmetry == Permutations({r1, r2})

\* Two spellings of one version, one that cannot be parsed and a newer one.
SmallVersions == {<<1, 0>>, <<1, 0, 0>>, <<1, 0, 0, 9>>, <<NotANumber>>, <<2>>}

Exported == {[id |-> 100, name |-> "gen", kind |-> "local", latest |-> <<1, 0, 0>>,
              versions |-> <<[version |-> <<1, 0>>, by |-> "import"],
                             [version |-> <<1, 0, 0>>, by |-> "import"]>>,
              installs |-> 0, source |-> ""]}

Gen(kind, vs) == [name |-> "gen", kind |-> kind, versions |-> vs]

\* One registry lists its versions newest first and grows; the other has a
\* version that cannot be parsed.
SmallOffers == "a" :> {Gen("remote", <<<<1, 0, 0>>, <<1, 0>>>>),
                       Gen("remote", <<<<2>>, <<1, 0, 0>>, <<1, 0>>>>)}
            @@ "b" :> {Gen("remote", <<<<1, 0, 0, 9>>, <<NotANumber>>>>)}

\* What NothingLeftBehind asks of registries, these do.
ASSUME SmallOffersGrow == OffersGrow
=============================================================================
