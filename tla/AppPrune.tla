------------------------------ MODULE AppPrune ------------------------------
(***************************************************************************)
(* The pruning of application.db: PruneAppState deletes old versions in    *)
(* place, SnapshotAndRestoreApp rebuilds the database from a snapshot of   *)
(* its last version (cmd/pruner.go), both on the multistore of             *)
(* internal/rootmulti/store.go.  Between runs the node commits, one store  *)
(* after the other and the metadata last, and it may stop in the middle of *)
(* a commit.  Any operation of the pruner may fail, and it may be killed.  *)
(***************************************************************************)
EXTENDS Integers, FiniteSets, FiniteSetsExt

CONSTANTS
  Stores,         \* the IAVL stores of the application
  Leaked,         \* stores without data that got into the commit info
  Keeps,          \* values of --keep-versions
  Strategies,     \* PruneApp of the chain: "inplace" or "snapshot"
  Verifies,       \* values of --verify-after-prune
  Hashings,       \* whether the pruner hashes trees as the node does
  MaxVersion,     \* bound: versions the node commits
  MaxRuns,        \* bound: runs of the pruner
  MaxFaults       \* bound: failed operations and kills

ASSUME StoresAssumption == Stores # {} /\ IsFiniteSet(Stores) /\ Leaked \cap Stores = {}
ASSUME OptionsAssumption ==
  /\ Keeps \subseteq Nat /\ Strategies \subseteq {"inplace", "snapshot"}
  /\ Verifies \subseteq BOOLEAN /\ Hashings \subseteq BOOLEAN

\* application.db, application_old.db and the database of the restore.
Paths == {"live", "old", "temp"}

VARIABLES
  dbs,        \* path -> database
  committed,  \* the last version the node committed
  snaps,      \* the last height in snapshots/metadata.db
  pc,         \* where the run is; "rest" when the pruner does not run
  opts,       \* its options
  ver,        \* the latest version when the run started
  mounted,    \* the stores it mounted
  target,     \* targetHeight
  todo,       \* stores that PruneStores has still to visit
  original,   \* application.db when the run started (never read by the code)
  risk,       \* a run has risked the committed state (nor this)
  result,     \* how the last run ended
  runs, faults

run == <<opts, ver, mounted, target, todo, original, risk, runs>>
vars == <<dbs, committed, snaps, pc, opts, ver, mounted, target, todo, original, risk,
          result, runs, faults>>

\* A database: the version in its metadata, the stores in the commit info of
\* that version, the versions each IAVL store holds on disk, and whether
\* its trees are hashed as the node hashes them.
Database(latest, names, vers, genuine) ==
  [there |-> TRUE, latest |-> latest, names |-> names, vers |-> vers,
   genuine |-> genuine]
Empty == Database(0, {}, [s \in Stores |-> {}], TRUE)
NoDb == [Empty EXCEPT !.there = FALSE]

live == dbs["live"]

\* loadVersion: each mounted store is loaded at v.
Loads(db, v, stores) == \A s \in stores : v \in db.vers[s]

\* The stores that are mounted: those of the commit info whose hash is not
\* empty.
MountedStores(db) == db.names \cap Stores

\* verifyAppState: the version that was found still loads, and each root hash
\* is the one of the commit info read before.
VerifyAppState(db) ==
  Loads(db, ver, mounted) /\ db.genuine = original.genuine

Init ==
  /\ dbs = [p \in Paths |->
              IF p = "live"
              THEN Database(1, Stores \cup Leaked, [s \in Stores |-> {1}], TRUE)
              ELSE NoDb]
  /\ committed = 1 /\ snaps = 0
  /\ pc = "rest" /\ opts = [keep |-> 0, strategy |-> "none", verify |-> TRUE, same |-> TRUE]
  /\ ver = 0 /\ mounted = {} /\ target = 0 /\ todo = {} /\ original = NoDb
  /\ risk = FALSE
  /\ result = "none" /\ runs = 0 /\ faults = 0

Fault(n) == faults + n <= MaxFaults /\ faults' = faults + n
Goto(stage) == pc' = stage /\ UNCHANGED result
Return(how) == pc' = "rest" /\ result' = how

RemoveAll(p) == dbs' = [dbs EXCEPT ![p] = NoDb]

\* os.RemoveAll fails: the files may be gone and the directory not.
RemoveAllFails(p) ==
  /\ dbs[p].there
  /\ dbs' \in {dbs, [dbs EXCEPT ![p] = Empty]}

Rename(p, q) ==
  /\ dbs[p].there /\ ~dbs[q].there
  /\ dbs' = [dbs EXCEPT ![q] = dbs[p], ![p] = NoDb]

-----------------------------------------------------------------------------
(* The node between two runs. *)

\* The node runs on a database that loads and whose app hash is the one the
\* chain agreed on.
Runnable(db) ==
  /\ db.there /\ db.latest = committed /\ Loads(db, committed, Stores)
  /\ db.genuine /\ db.names = Stores \cup Leaked

\* commitStores: one store saves its next version, unless an interrupted
\* commit has saved it already.
CommitStore(s) ==
  /\ pc = "rest" /\ Runnable(live) /\ committed < MaxVersion
  /\ committed + 1 \notin live.vers[s]
  /\ dbs' = [dbs EXCEPT !["live"].vers[s] = @ \cup {committed + 1}]
  /\ result' = "none"
  /\ UNCHANGED <<committed, snaps, pc, run, faults>>

FlushMetadataTooFar ==
  /\ pc = "rest" /\ Runnable(live) /\ Loads(live, committed + 1, Stores)
  /\ committed' = committed + 1
  /\ dbs' = [dbs EXCEPT !["live"].latest = committed + 2]
  /\ result' = "none"
  /\ UNCHANGED <<snaps, pc, run, faults>>

\* flushMetadata: the commit info and the latest version, in one batch.
FlushMetadata ==
  /\ pc = "rest" /\ Runnable(live) /\ Loads(live, committed + 1, Stores)
  /\ committed' = committed + 1
  /\ dbs' = [dbs EXCEPT !["live"].latest = committed + 1]
  /\ result' = "none"
  /\ UNCHANGED <<snaps, pc, run, faults>>

-----------------------------------------------------------------------------
(* The pruner opens application.db, creating it if it is missing, and loads *)
(* its latest version with the stores whose hash in the commit info is not  *)
(* empty.                                                                   *)

\* The legacy path destroys the original first, and pruning in place may
\* follow a store that an interrupted commit left ahead of the metadata.
Risky(o) ==
  IF o.strategy = "snapshot" THEN ~o.verify
  ELSE \E s \in Stores : committed + 1 \in live.vers[s]

StartPrune ==
  /\ pc = "rest" /\ runs < MaxRuns
  /\ \E k \in Keeps, st \in Strategies, v \in Verifies, h \in Hashings :
       opts' = [keep |-> k, strategy |-> st, verify |-> v, same |-> h]
  /\ risk' = (risk \/ Risky(opts'))
  /\ LET db == IF live.there THEN live ELSE Empty
     IN  /\ dbs' = [dbs EXCEPT !["live"] = db, !["temp"] = NoDb]
         /\ original' = db /\ ver' = db.latest /\ mounted' = MountedStores(db)
  /\ target' = 0 /\ todo' = {}
  /\ runs' = runs + 1 /\ pc' = "load" /\ result' = "none"
  /\ UNCHANGED <<committed, snaps, faults>>

\* Nothing to do: no version or, for the snapshot, a small database.
NothingToPrune ==
  /\ pc = "load" /\ (ver = 0 \/ opts.strategy = "snapshot") /\ Return("skipped")
  /\ UNCHANGED <<dbs, committed, snaps, run, faults>>

\* The version in the metadata cannot be loaded, or some read fails.
LoadFails ==
  /\ pc = "load" /\ Return("error")
  /\ \/ ~Loads(live, ver, mounted) /\ UNCHANGED faults
     \/ Fault(1)
  /\ UNCHANGED <<dbs, committed, snaps, run>>

-----------------------------------------------------------------------------
(* PruneAppState. *)

\* The index, from 0, of the first version to keep.
FirstKept(len, keep) == Max({len - keep, len - 1})

\* The version of vs that has i smaller ones.
Nth(vs, i) == CHOOSE v \in vs : Cardinality({u \in vs : u < v}) = i

\* GetAllVersions returns the versions of whichever store the iteration over
\* the map comes to first, those an interrupted commit left among them.
AllVersions == {live.vers[s] : s \in mounted}

PlanInPlace ==
  /\ pc = "load" /\ opts.strategy = "inplace" /\ ver # 0 /\ Loads(live, ver, mounted)
  /\ \E versions \in AllVersions :
       LET len == Cardinality(versions)
           idx == FirstKept(len, opts.keep)
       IN  /\ idx < len
           /\ target' = Nth(versions, idx) - 1
           /\ todo' = IF target' <= 0 THEN {} ELSE mounted
  /\ Goto("prune")
  /\ UNCHANGED <<dbs, committed, snaps, opts, ver, mounted, original, risk, runs, faults>>

\* v64[idx] is out of range: the goroutine panics and takes the process down.
PlanPanics ==
  /\ pc = "load" /\ opts.strategy = "inplace" /\ ver # 0 /\ Loads(live, ver, mounted)
  /\ \E versions \in AllVersions :
       FirstKept(Cardinality(versions), opts.keep) >= Cardinality(versions)
  /\ Return("panic")
  /\ UNCHANGED <<dbs, committed, snaps, run, faults>>

\* DeleteVersionsTo of one store, which refuses to delete its last version.
DeleteVersionsTo(s, upto) ==
  dbs' = [dbs EXCEPT !["live"].vers[s] = {v \in @ : v > upto \/ Max(@) <= target}]

PruneStore(s) ==
  /\ pc = "prune" /\ s \in todo
  /\ DeleteVersionsTo(s, target) /\ todo' = todo \ {s}
  /\ UNCHANGED <<committed, snaps, pc, opts, ver, mounted, target, original, risk,
                 result, runs, faults>>

\* An error is logged; the other stores follow, unless it is
\* ErrVersionDoesNotExist.
PruneStoreFails(s) ==
  /\ pc = "prune" /\ s \in todo /\ Fault(1)
  /\ \E upto \in 0 .. target : DeleteVersionsTo(s, upto)
  /\ todo' \in {todo \ {s}, {}}
  /\ UNCHANGED <<committed, snaps, pc, opts, ver, mounted, target, original, risk,
                 result, runs>>

VerifyInPlaceNever ==
  /\ pc = "prune" /\ todo = {} /\ Return("ok")
  /\ UNCHANGED <<dbs, committed, snaps, run, faults>>

\* All stores are visited: the database is verified if that is asked for.
VerifyInPlace ==
  /\ pc = "prune" /\ todo = {}
  /\ Return(IF opts.verify /\ ~VerifyAppState(live) THEN "error" ELSE "ok")
  /\ UNCHANGED <<dbs, committed, snaps, run, faults>>

-----------------------------------------------------------------------------
(* SnapshotAndRestoreApp. *)

\* The snapshot manager refuses a height that is not above those of the
\* snapshots it has; the metadata of the new one stays in snapshotDB.
CreateSnapshot ==
  /\ pc = "load" /\ opts.strategy = "snapshot" /\ ver # 0 /\ Loads(live, ver, mounted)
  /\ snaps < ver
  /\ snaps' = ver
  /\ Goto(IF opts.verify THEN "restore" ELSE "destroy")
  /\ UNCHANGED <<dbs, committed, run, faults>>

SnapshotFails ==
  /\ pc = "load" /\ opts.strategy = "snapshot" /\ ver # 0 /\ Loads(live, ver, mounted)
  /\ \/ snaps >= ver /\ UNCHANGED faults
     \/ Fault(1)
  /\ Return("error")
  /\ UNCHANGED <<dbs, committed, snaps, run>>

\* Snapshot: the tree of each mounted store at version ver.
Snapshot == [s \in mounted |-> ver]

\* Restore: the trees of the snapshot and a commit info built from them, with
\* the hashes the pruner computes.
Restored ==
  Database(ver, DOMAIN Snapshot,
           [s \in Stores |-> IF s \in DOMAIN Snapshot THEN {Snapshot[s]} ELSE {}],
           opts.same)

\* restoreVerifiedAndSwap: the snapshot is restored next to the original and
\* verified.
RestoreVerified ==
  /\ pc = "restore"
  /\ IF VerifyAppState(Restored)
     THEN dbs' = [dbs EXCEPT !["temp"] = Restored] /\ Goto("close")
     ELSE RemoveAll("temp") /\ Return("error")
  /\ UNCHANGED <<committed, snaps, run, faults>>

\* A failure up to the closing of both databases; the restore is removed.
RestoreFails ==
  /\ pc \in {"restore", "close"} /\ Fault(1) /\ Return("error")
  /\ RemoveAll("temp")
  /\ UNCHANGED <<committed, snaps, run>>

CloseBoth ==
  /\ pc = "close" /\ Goto("clear")
  /\ UNCHANGED <<dbs, committed, snaps, run, faults>>

\* The stale backup is cleared; an error is ignored.
ClearBackup ==
  /\ pc = "clear" /\ Goto("backup")
  /\ \/ RemoveAll("old") /\ UNCHANGED faults
     \/ RemoveAllFails("old") /\ Fault(1)
  /\ UNCHANGED <<committed, snaps, run>>

BackUpByRemoving ==
  /\ pc = "backup" /\ RemoveAll("live") /\ Goto("swap")
  /\ UNCHANGED <<committed, snaps, run, faults>>

BackUp ==
  /\ pc = "backup" /\ Rename("live", "old") /\ Goto("swap")
  /\ UNCHANGED <<committed, snaps, run, faults>>

BackUpFails ==
  /\ pc = "backup" /\ Return("error")
  /\ \/ dbs["old"].there /\ UNCHANGED faults
     \/ Fault(1)
  /\ UNCHANGED <<dbs, committed, snaps, run>>

SwapIn ==
  /\ pc = "swap" /\ Rename("temp", "live") /\ Goto("drop")
  /\ UNCHANGED <<committed, snaps, run, faults>>

SwapInFailsForGood ==
  /\ pc = "swap" /\ Fault(1) /\ Return("error")
  /\ UNCHANGED <<dbs, committed, snaps, run>>

\* The rename fails and the backup goes back, or even that fails.
SwapInFails ==
  /\ pc = "swap"
  /\ \/ Fault(1) /\ Rename("old", "live") /\ Return("error")
     \/ Fault(2) /\ UNCHANGED dbs /\ Return("critical")
  /\ UNCHANGED <<committed, snaps, run>>

\* The backup is dropped, or stays when that fails, and the database is
\* reopened.
DropBackup ==
  /\ pc = "drop"
  /\ \E left, closed \in {0, 1} :
       /\ Fault(left + closed)
       /\ IF left = 1 THEN RemoveAllFails("old") ELSE RemoveAll("old")
       /\ Return(IF closed = 1 THEN "error" ELSE "ok")
  /\ UNCHANGED <<committed, snaps, run>>

\* The legacy path: the original is removed and created anew ...
Destroy ==
  /\ pc = "destroy" /\ dbs' = [dbs EXCEPT !["live"] = Empty] /\ Goto("refill")
  /\ UNCHANGED <<committed, snaps, run, faults>>

\* ... and then restored in place.
Refill ==
  /\ pc = "refill" /\ dbs' = [dbs EXCEPT !["live"] = Restored] /\ Return("ok")
  /\ UNCHANGED <<committed, snaps, run, faults>>

\* It fails, or is killed, with the original or the restore half done.
LegacyFails ==
  /\ pc \in {"destroy", "refill"} /\ Fault(1)
  /\ Return("error") \/ Return("killed")
  /\ dbs' \in {dbs, [dbs EXCEPT !["live"] = Empty], [dbs EXCEPT !["live"] = NoDb]}
  /\ UNCHANGED <<committed, snaps, run>>

-----------------------------------------------------------------------------

Kill ==
  /\ pc # "rest" /\ Fault(1) /\ Return("killed")
  /\ UNCHANGED <<dbs, committed, snaps, run>>

InPlaceNext ==
  \/ PlanInPlace \/ PlanPanics \/ VerifyInPlace
  \/ \E s \in Stores : PruneStore(s) \/ PruneStoreFails(s)

SwapNext ==
  \/ RestoreVerified \/ RestoreFails \/ CloseBoth \/ ClearBackup
  \/ BackUp \/ BackUpFails \/ SwapIn \/ SwapInFails \/ DropBackup

Next ==
  \/ \E s \in Stores : CommitStore(s)
  \/ FlushMetadata \/ StartPrune \/ NothingToPrune \/ LoadFails
  \/ InPlaceNext
  \/ CreateSnapshot \/ SnapshotFails \/ SwapNext
  \/ Destroy \/ Refill \/ LegacyFails
  \/ Kill

Spec == Init /\ [][Next]_vars

-----------------------------------------------------------------------------
(* Properties. *)

Databases ==
  [there : BOOLEAN, latest : Nat, names : SUBSET (Stores \cup Leaked),
   vers : [Stores -> SUBSET Nat], genuine : BOOLEAN]

\* Every variable keeps its type, no database is ahead of the node by more
\* than the commit in progress, and a run only visits stores it mounted.
TypeOK ==
  /\ dbs \in [Paths -> Databases]
  /\ \A p \in Paths : /\ dbs[p].latest <= committed
                      /\ \A s \in Stores : dbs[p].vers[s] \subseteq 1 .. committed + 1
  /\ {committed, snaps, ver, target, runs, faults} \subseteq Nat
  /\ pc \in {"rest", "load", "prune", "restore", "close", "clear", "backup",
             "swap", "drop", "destroy", "refill"}
  /\ opts \in [keep : Nat, strategy : {"none", "inplace", "snapshot"},
              verify : BOOLEAN, same : BOOLEAN]
  /\ risk \in BOOLEAN /\ mounted \subseteq Stores /\ todo \subseteq mounted /\ original \in Databases
  /\ result \in {"none", "skipped", "ok", "error", "critical", "panic", "killed"}

\* What the operator has: application.db or, when it is missing or was
\* created empty in its place, the backup.
Recoverable == IF live.there /\ live.latest > 0 THEN live ELSE dbs["old"]

\* Unless the legacy path was taken, or a database pruned in place on which
\* the node had stopped within a commit, no run, failure or kill costs the
\* node its last committed state: every store still has that version, with
\* the root hash the chain agreed on, in application.db or, after an
\* interrupted swap, in application_old.db.
CommittedStateKept == ~risk =>
  /\ Recoverable.there /\ Recoverable.latest = committed
  /\ Loads(Recoverable, committed, Stores) /\ Recoverable.genuine

\* A run that verifies and reports success has left a database that loads,
\* at the version it found, with the root hashes it found, whatever was
\* deleted, left over from a commit, or rehashed on the way.
VerifiedRunLoads ==
  (pc = "rest" /\ result = "ok" /\ opts.verify) =>
    /\ live.there /\ live.latest = ver /\ Loads(live, ver, mounted)
    /\ live.genuine = original.genuine

\* "On any failure before the swap, the original application.db is left
\* intact", and a failure within it leaves the original or the verified
\* restore in place, or the original in the backup.
FailedRestoreKeepsOriginal ==
  (pc = "rest" /\ opts.strategy = "snapshot" /\ opts.verify) =>
    /\ result = "error" => live = original \/ live = Restored
    /\ result = "critical" => dbs["old"] = original /\ dbs["temp"] = Restored
    /\ result = "killed" =>
         \/ live \in {original, Restored}
         \/ ~live.there /\ dbs["old"] = original

=============================================================================
