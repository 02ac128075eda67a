----------------------------- MODULE MCAppPrune -----------------------------
(***************************************************************************)
(* Instances of AppPrune for TLC, and what the documentation says of the   *)
(* pruned application.db where the code does otherwise.                    *)
(***************************************************************************)
EXTENDS AppPrune

\* README: "--keep-versions uint number of recent application-state versions
\* to keep": after a run in place each store has that many, or as many as it
\* had before.
KeepsRecentVersions ==
  (pc = "rest" /\ result = "ok" /\ opts.strategy = "inplace") =>
    \A s \in mounted :
      Cardinality(live.vers[s]) >= Min({opts.keep, Cardinality(original.vers[s])})

\* The comment on the celestia entry of chainConfigs: PruneAppState "deletes
\* old versions in place and never rehashes the kept tree, so the on-disk
\* commit info / app hash stays valid": each store still has the version of
\* the commit info.
CommitInfoStaysValid ==
  (pc = "rest" /\ opts.strategy = "inplace") => Loads(live, live.latest, live.names \cap Stores)

\* The comment on verifyAppState: "if every kept store's root is intact the
\* app hash is intact by construction".  The app hash covers the names of
\* all stores in the commit info.
AppHashIntact ==
  (pc = "rest" /\ result = "ok" /\ opts.verify) => live.names = original.names
=============================================================================
