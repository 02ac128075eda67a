--------------------------- MODULE AppPruneProofs ---------------------------
(***************************************************************************)
(* For any stores, options and number of versions, runs, failures and      *)
(* kills: what pruning application.db promises of the committed state, of  *)
(* a run that verifies, and of one that fails.                             *)
(***************************************************************************)
EXTENDS AppPrune, FiniteSetTheorems, WellFoundedInduction, TLAPS

\* Stages of the restore with verification, and of the legacy one.
Swapping == {"restore", "close", "clear", "backup", "swap", "drop"}
Legacy == {"destroy", "refill"}

\* The restore passes the verification.
Verified == VerifyAppState(Restored)

\* What each stage knows of the databases.
StageInv ==
  /\ pc # "rest" =>
       /\ original.there /\ original.latest = ver /\ mounted = MountedStores(original)
       /\ opts.strategy \in {"inplace", "snapshot"}
  /\ pc = "prune" => opts.strategy = "inplace" /\ live.there /\ live.latest = ver
  /\ pc \in Swapping => opts.strategy = "snapshot" /\ opts.verify
  /\ pc \in Legacy => opts.strategy = "snapshot" /\ ~opts.verify
  /\ pc \in {"load", "restore", "close", "clear", "backup"} => live = original
  /\ pc \in {"close", "clear", "backup", "swap"} => dbs["temp"] = Restored
  /\ pc \in {"close", "clear", "backup", "swap", "drop"} => Verified
  /\ pc = "swap" => ~live.there /\ dbs["old"] = original
  /\ pc = "drop" => live = Restored

\* The committed state, with every store in the commit info.
Good(db) ==
  /\ db.there /\ db.latest = committed /\ Stores \subseteq db.names
  /\ Loads(db, committed, Stores) /\ db.genuine

\* Where it is, as long as no run has risked it.
KeptInv == ~risk =>
  /\ Good(Recoverable)
  /\ pc # "rest" =>
       /\ ver # 0 => Good(original)
       /\ opts.strategy = "snapshot" => opts.verify
       /\ opts.strategy = "inplace" => \A s \in Stores : committed + 1 \notin live.vers[s]
  /\ pc = "prune" => target < committed

-----------------------------------------------------------------------------
(* Operators. *)

\* A nonempty set of natural numbers has a least element.
LEMMA LeastNat ==
  ASSUME NEW S \in SUBSET Nat, S # {}
  PROVE  \E m \in S : \A x \in S : m <= x
<1> DEFINE R == {ss \in Nat \X Nat : ss[1] < ss[2]}
<1>1. IsWellFoundedOn(R, Nat)
  BY NatLessThanWellFounded, Zenon DEF OpToRel
<1>2. \A x, y \in Nat : x < y => <<x, y>> \in R
  OBVIOUS
<1> HIDE DEF R
<1>3. PICK m \in S : \A y \in S : ~(<<y, m>> \in R)
  BY <1>1, WFMin
<1>4. \A x \in S : m \in Nat /\ x \in Nat /\ ~(x < m)
  BY <1>2, <1>3
<1> QED
  BY <1>3, <1>4

\* A nonempty bounded one has a greatest, which Max returns.
LEMMA MaxNat ==
  ASSUME NEW n \in Nat, NEW S \in SUBSET (0 .. n), S # {}
  PROVE  Max(S) \in S /\ \A x \in S : x <= Max(S)
<1> DEFINE bounds == {b \in Nat : \A x \in S : x <= b}
<1>1. bounds \in SUBSET Nat /\ n \in bounds
  OBVIOUS
<1>2. PICK m \in bounds : \A b \in bounds : m <= b
  BY <1>1, LeastNat
<1>3. m \in S
  <2> SUFFICES ASSUME m \notin S PROVE FALSE
    OBVIOUS
  <2>1. PICK y \in S : TRUE
    OBVIOUS
  <2>2. m - 1 \in Nat /\ \A x \in S : x <= m - 1
    BY <1>2, <2>1
  <2> QED
    BY <1>2, <2>2
<1> QED
  BY <1>2, <1>3 DEF Max

\* The first version to keep is the last one there is, or none: --keep-versions
\* above 1 keeps no more.
LEMMA FirstKeptLast ==
  ASSUME NEW len \in Nat, NEW keep \in Nat, FirstKept(len, keep) < len
  PROVE  FirstKept(len, keep) = len - 1
<1> DEFINE S == {len - keep, len - 1}
<1>1. \E x \in S : \A y \in S : x >= y
  <2>1. CASE keep = 0
    BY <2>1
  <2>2. CASE keep # 0
    BY <2>2
  <2> QED
    BY <2>1, <2>2
<1>2. Max(S) \in S /\ \A y \in S : Max(S) >= y
  BY <1>1 DEF Max
<1> QED
  BY <1>2 DEF FirstKept

\* The last by index is the greatest.
LEMMA NthLast ==
  ASSUME NEW n \in Nat, NEW S \in SUBSET (1 .. n), S # {}
  PROVE  Nth(S, Cardinality(S) - 1) = Max(S)
<1> DEFINE below(v) == {u \in S : u < v}
<1>0. S \in SUBSET (0 .. n) /\ S \in SUBSET Nat /\ \A x \in S : x <= n
  OBVIOUS
<1>1. Max(S) \in S /\ \A x \in S : x <= Max(S)
  BY <1>0, MaxNat
<1>2. IsFiniteSet(S) /\ Cardinality(S) \in Nat
  BY <1>0, FS_BoundedSetOfNaturals, FS_CardinalityType
<1>a. Max(S) \in Nat /\ \A x \in S : x \in Nat /\ (x # Max(S) <=> x < Max(S))
  <2>1. ASSUME NEW m \in Nat, NEW x \in Nat, x <= m PROVE x # m <=> x < m
    BY <2>1
  <2>2. Max(S) \in Nat /\ \A x \in S : x \in Nat
    BY <1>0, <1>1, Zenon
  <2> QED
    BY <1>1, <2>1, <2>2
<1>3. Cardinality(below(Max(S))) = Cardinality(S) - 1
  <2>1. below(Max(S)) = S \ {Max(S)}
    BY <1>a
  <2> QED
    BY <1>1, <1>2, <2>1, FS_RemoveElement
<1>4. ASSUME NEW v \in S, Cardinality(below(v)) = Cardinality(S) - 1
      PROVE  v = Max(S)
  <2> SUFFICES ASSUME v # Max(S) PROVE FALSE
    OBVIOUS
  <2>1. IsFiniteSet(S \ {Max(S)}) /\ Cardinality(S \ {Max(S)}) = Cardinality(S) - 1
    BY <1>1, <1>2, FS_RemoveElement
  <2>2. below(v) \subseteq S \ {Max(S)}
    BY <1>1, <1>a
  <2>3. v \in S \ {Max(S)} /\ v \notin below(v)
    OBVIOUS
  <2> HIDE DEF below
  <2>4. S \ {Max(S)} = below(v)
    BY <1>4, <2>1, <2>2, FS_Subset
  <2> QED
    BY <2>3, <2>4
<1> QED
  BY <1>1, <1>3, <1>4 DEF Nth

\* So the versions up to the one before the greatest are to be deleted.
LEMMA PlanTarget ==
  ASSUME NEW n \in Nat, NEW S \in SUBSET (1 .. n), S # {}, NEW keep \in Nat,
         FirstKept(Cardinality(S), keep) < Cardinality(S)
  PROVE  /\ Nth(S, FirstKept(Cardinality(S), keep)) = Max(S)
         /\ Max(S) \in S /\ \A x \in S : x <= Max(S)
<1>1. S \in SUBSET (0 .. n) /\ S \in SUBSET Nat /\ \A x \in S : x <= n
  OBVIOUS
<1>2. Cardinality(S) \in Nat
  BY <1>1, FS_BoundedSetOfNaturals, FS_CardinalityType
<1> QED
  BY <1>1, <1>2, FirstKeptLast, NthLast, MaxNat

-----------------------------------------------------------------------------
(* Types. *)

\* A database that is at most one commit ahead of version c.
DbOK(db, c) ==
  /\ db \in Databases /\ db.latest <= c
  /\ \A s \in Stores : db.vers[s] \subseteq 1 .. c + 1

\* The parts of TypeOK, and what it needs to be inductive.
DbsType == dbs \in [Paths -> Databases] /\ \A p \in Paths : DbOK(dbs[p], committed)
OptsType ==
  opts \in [keep : Nat, strategy : {"none", "inplace", "snapshot"}, verify : BOOLEAN, same : BOOLEAN]
RunType ==
  /\ mounted \subseteq Stores /\ todo \subseteq mounted /\ original \in Databases
  /\ ver \in Nat /\ ver <= committed /\ target \in Nat
CountType == committed \in Nat \ {0} /\ snaps \in Nat /\ runs \in Nat /\ faults \in Nat
PlaceType ==
  /\ pc \in {"rest", "load", "prune", "restore", "close", "clear", "backup",
             "swap", "drop", "destroy", "refill"}
  /\ risk \in BOOLEAN
  /\ result \in {"none", "skipped", "ok", "error", "critical", "panic", "killed"}
  /\ pc \notin {"rest", "load"} => ver # 0
Types == DbsType /\ OptsType /\ RunType /\ CountType /\ PlaceType

\* They imply TypeOK.
LEMMA TypesAreTypeOK == Types => TypeOK
<1> SUFFICES ASSUME Types PROVE TypeOK
  OBVIOUS
<1>1. {committed, snaps, ver, target, runs, faults} \subseteq Nat
  BY DEF Types, RunType, CountType
<1>2. \A p \in Paths : /\ dbs[p].latest <= committed
                       /\ \A s \in Stores : dbs[p].vers[s] \subseteq 1 .. committed + 1
  BY DEF Types, DbsType, DbOK
<1>3. risk \in BOOLEAN
  BY Zenon DEF Types, PlaceType
<1> QED
  BY <1>1, <1>2, <1>3 DEF Types, DbsType, OptsType, RunType, PlaceType, TypeOK

\* What the pruner makes are databases.
LEMMA DatabaseType ==
  ASSUME NEW c \in Nat, NEW latest \in 0 .. c, NEW names \in SUBSET (Stores \cup Leaked),
         NEW vers \in [Stores -> SUBSET (1 .. c + 1)], NEW genuine \in BOOLEAN
  PROVE  DbOK(Database(latest, names, vers, genuine), c)
<1>1. vers \in [Stores -> SUBSET Nat]
  OBVIOUS
<1> QED
  BY <1>1 DEF DbOK, Database, Databases

\* See DatabaseType.
LEMMA EmptyType ==
  ASSUME NEW c \in Nat
  PROVE  DbOK(Empty, c) /\ DbOK(NoDb, c)
<1>1. [s \in Stores |-> {}] \in [Stores -> SUBSET (1 .. c + 1)] /\ {} \in SUBSET (Stores \cup Leaked)
  OBVIOUS
<1>2. 0 \in 0 .. c /\ TRUE \in BOOLEAN
  OBVIOUS
<1>3. DbOK(Empty, c)
  BY <1>1, <1>2, DatabaseType DEF Empty
<1>4. NoDb \in Databases /\ NoDb.latest = Empty.latest /\ NoDb.vers = Empty.vers
  BY <1>3 DEF NoDb, DbOK, Databases
<1> QED
  BY <1>3, <1>4 DEF DbOK

\* See DatabaseType.
LEMMA RestoredType ==
  ASSUME Types, ver # 0
  PROVE  DbOK(Restored, committed)
<1> USE DEF Types, RunType, CountType, OptsType
<1>1. ver \in 0 .. committed /\ opts.same \in BOOLEAN
  OBVIOUS
<1>2. DOMAIN Snapshot = mounted /\ \A s \in mounted : Snapshot[s] = ver
  BY DEF Snapshot
<1>3. mounted \in SUBSET (Stores \cup Leaked)
  OBVIOUS
<1>4. [s \in Stores |-> IF s \in DOMAIN Snapshot THEN {Snapshot[s]} ELSE {}]
        \in [Stores -> SUBSET (1 .. committed + 1)]
  BY <1>2
<1> QED
  BY <1>1, <1>2, <1>3, <1>4, DatabaseType DEF Restored

\* A database may take the place of another.
LEMMA PutDb ==
  ASSUME DbsType, NEW p \in Paths, NEW db, DbOK(db, committed),
         dbs' = [dbs EXCEPT ![p] = db], UNCHANGED committed
  PROVE  DbsType'
<1>1. db \in Databases
  BY DEF DbOK
<1> QED
  BY <1>1 DEF DbsType

\* See PutDb.
LEMMA RemoveType ==
  ASSUME Types, NEW p \in Paths, RemoveAll(p) \/ RemoveAllFails(p), UNCHANGED committed
  PROVE  DbsType'
<1>1. DbOK(Empty, committed) /\ DbOK(NoDb, committed)
  BY EmptyType DEF Types, CountType
<1>2. CASE dbs' = dbs
  BY <1>2 DEF Types, DbsType
<1>3. CASE dbs' = [dbs EXCEPT ![p] = NoDb]
  BY <1>1, <1>3, PutDb DEF Types
<1>4. CASE dbs' = [dbs EXCEPT ![p] = Empty]
  BY <1>1, <1>4, PutDb DEF Types
<1> QED
  BY <1>2, <1>3, <1>4 DEF RemoveAll, RemoveAllFails

\* See PutDb.
LEMMA RenameType ==
  ASSUME Types, NEW p \in Paths, NEW q \in Paths, Rename(p, q), UNCHANGED committed
  PROVE  DbsType'
<1>1. DbOK(NoDb, committed) /\ NoDb \in Databases
  BY EmptyType DEF Types, CountType, DbOK
<1> QED
  BY <1>1 DEF Types, DbsType, Rename

\* The versions of one store may change, and nothing else does.
LEMMA PutVersions ==
  ASSUME Types, NEW s \in Stores, NEW V \in SUBSET (1 .. committed + 1),
         dbs' = [dbs EXCEPT !["live"].vers[s] = V], UNCHANGED committed
  PROVE  /\ DbsType'
         /\ live' = [live EXCEPT !.vers = [live.vers EXCEPT ![s] = V]]
         /\ \A p \in Paths \ {"live"} : dbs'[p] = dbs[p]
<1> DEFINE db == [live EXCEPT !.vers = [live.vers EXCEPT ![s] = V]]
<1>1. live \in Databases /\ DbOK(live, committed) /\ "live" \in Paths
  BY DEF Types, DbsType, live, Paths
<1>2. dbs' = [dbs EXCEPT !["live"] = db]
  BY <1>1 DEF Types, DbsType, live
<1>3. V \in SUBSET Nat
  BY DEF Types, CountType
<1>4. live.vers \in [Stores -> SUBSET Nat]
  BY <1>1 DEF Databases
<1>5. DbOK(db, committed)
  <2>1. [live.vers EXCEPT ![s] = V] \in [Stores -> SUBSET Nat]
    BY <1>3, <1>4
  <2>2. db \in Databases /\ db.latest = live.latest /\ db.vers = [live.vers EXCEPT ![s] = V]
    BY <1>1, <2>1 DEF Databases
  <2> HIDE DEF db
  <2> QED
    BY <1>1, <1>4, <2>2 DEF DbOK
<1>6. DbsType'
  BY <1>1, <1>2, <1>5, PutDb DEF Types
<1> QED
  BY <1>1, <1>2, <1>6 DEF Types, DbsType, live

\* The versions that DeleteVersionsTo leaves.
Left(vs, upto) == {v \in vs : v > upto \/ Max(vs) <= target}

\* DeleteVersionsTo removes versions of one store only.
LEMMA DeleteEffect ==
  ASSUME Types, NEW s \in Stores, NEW upto, DeleteVersionsTo(s, upto), UNCHANGED committed
  PROVE  /\ DbsType'
         /\ live' = [live EXCEPT !.vers = [live.vers EXCEPT ![s] = Left(live.vers[s], upto)]]
         /\ \A p \in Paths \ {"live"} : dbs'[p] = dbs[p]
<1>1. live.vers[s] \subseteq 1 .. committed + 1
  BY DEF Types, DbsType, DbOK, live, Paths
<1>2. Left(live.vers[s], upto) \in SUBSET (1 .. committed + 1)
  BY <1>1 DEF Left
<1>3. dbs' = [dbs EXCEPT !["live"].vers[s] = Left(live.vers[s], upto)]
  BY DEF DeleteVersionsTo, Left, live
<1> QED
  BY <1>2, <1>3, PutVersions

\* The steps of the node keep the types.
LEMMA TypesNode ==
  ASSUME Types, FlushMetadata \/ \E s \in Stores : CommitStore(s)
  PROVE  Types'
<1>1. ASSUME NEW s \in Stores, CommitStore(s) PROVE Types'
  <2>1. live.vers[s] \subseteq 1 .. committed + 1
    BY DEF Types, DbsType, DbOK, live, Paths
  <2>2. dbs' = [dbs EXCEPT !["live"].vers[s] = live.vers[s] \cup {committed + 1}]
    BY <1>1 DEF CommitStore, live
  <2>3. live.vers[s] \cup {committed + 1} \in SUBSET (1 .. committed + 1)
    BY <2>1 DEF Types, CountType
  <2>4. DbsType'
    BY <1>1, <2>2, <2>3, PutVersions DEF CommitStore
  <2> QED
    BY <1>1, <2>4 DEF CommitStore, Types, OptsType, RunType, CountType, PlaceType, run
<1>2. CASE FlushMetadata
  <2>1. committed' = committed + 1 /\ committed' \in Nat \ {0}
    BY <1>2 DEF FlushMetadata, Types, CountType
  <2>2. ASSUME NEW db, DbOK(db, committed) PROVE DbOK(db, committed')
    BY <2>1, <2>2 DEF DbOK, Types, CountType, Databases
  <2>3. DbOK([live EXCEPT !.latest = committed + 1], committed')
    <3>1. live \in Databases /\ DbOK(live, committed')
      BY <2>2 DEF Types, DbsType, live, Paths
    <3> QED
      BY <2>1, <3>1 DEF DbOK, Databases, Types, CountType
  <2>4. dbs' = [dbs EXCEPT !["live"] = [live EXCEPT !.latest = committed + 1]]
    BY <1>2 DEF FlushMetadata, live, Types, DbsType
  <2>5. DbsType'
    <3>1. [live EXCEPT !.latest = committed + 1] \in Databases
      BY <2>3 DEF DbOK
    <3>2. \A p \in Paths : DbOK(dbs[p], committed')
      BY <2>2 DEF Types, DbsType
    <3> QED
      BY <2>3, <2>4, <3>1, <3>2 DEF Types, DbsType
  <2>6. RunType' /\ PlaceType'
    BY <1>2, <2>1 DEF FlushMetadata, Types, RunType, PlaceType, CountType, run
  <2> QED
    BY <1>2, <2>1, <2>5, <2>6 DEF FlushMetadata, Types, OptsType, CountType, run
<1> QED
  BY <1>1, <1>2

\* So do the start of a run and a run in place ...
LEMMA TypesInPlace ==
  ASSUME Types, StartPrune \/ NothingToPrune \/ LoadFails \/ InPlaceNext
  PROVE  Types'
<1> USE DEF Types, OptsType, CountType, PlaceType, Goto, Return
<1>1. CASE StartPrune
  <2> DEFINE db == IF live.there THEN live ELSE Empty
  <2>1. DbOK(db, committed)
    BY EmptyType DEF DbsType, live, Paths
  <2>2. DbOK(NoDb, committed)
    BY EmptyType
  <2>3. /\ dbs' = [dbs EXCEPT !["live"] = db, !["temp"] = NoDb] /\ original' = db
        /\ ver' = db.latest /\ mounted' = MountedStores(db) /\ target' = 0 /\ todo' = {}
        /\ UNCHANGED committed
    BY <1>1 DEF StartPrune
  <2> HIDE DEF db
  <2>4. DbsType'
    <3>1. db \in Databases /\ NoDb \in Databases
      BY <2>1, <2>2 DEF DbOK
    <3> QED
      BY <2>1, <2>2, <2>3, <3>1 DEF DbsType, Paths
  <2>5. RunType'
    <3>1. db \in Databases /\ db.latest \in Nat /\ db.latest <= committed
      BY <2>1 DEF DbOK, Databases
    <3> QED
      BY <2>3, <3>1 DEF RunType, MountedStores
  <2>6. OptsType' /\ runs' \in Nat
    BY <1>1, OptionsAssumption DEF StartPrune
  <2>7. risk' \in BOOLEAN
    BY <1>1, Zenon DEF StartPrune, Risky
  <2> QED
    BY <1>1, <2>4, <2>5, <2>6, <2>7 DEF StartPrune
<1>2. CASE NothingToPrune
  BY <1>2 DEF NothingToPrune, DbsType, RunType, run
<1>3. CASE LoadFails
  BY <1>3 DEF LoadFails, DbsType, RunType, run, Fault
<1>4. CASE PlanInPlace
  <2>1. PICK versions \in AllVersions :
          /\ FirstKept(Cardinality(versions), opts.keep) < Cardinality(versions)
          /\ target' = Nth(versions, FirstKept(Cardinality(versions), opts.keep)) - 1
          /\ todo' = IF target' <= 0 THEN {} ELSE mounted
    BY <1>4 DEF PlanInPlace
  <2>2. versions \in SUBSET (1 .. committed + 1) /\ versions # {}
    BY <1>4, <2>1 DEF PlanInPlace, AllVersions, Loads, DbsType, DbOK, RunType, live, Paths
  <2>3. target' = Max(versions) - 1 /\ Max(versions) \in versions
    <3>1. committed + 1 \in Nat /\ opts.keep \in Nat
      OBVIOUS
    <3> QED
      BY <2>1, <2>2, <3>1, PlanTarget
  <2>4. target' \in Nat
    <3>1. ASSUME NEW m \in 1 .. committed + 1 PROVE m - 1 \in Nat
      OBVIOUS
    <3>2. Max(versions) \in 1 .. committed + 1
      BY <2>2, <2>3, Zenon
    <3> QED
      BY <2>3, <3>1, <3>2
  <2> QED
    BY <1>4, <2>1, <2>4 DEF PlanInPlace, DbsType, RunType
<1>5. CASE PlanPanics
  BY <1>5 DEF PlanPanics, DbsType, RunType, run
<1>6. CASE VerifyInPlace
  BY <1>6 DEF VerifyInPlace, DbsType, RunType, run
<1>7. ASSUME NEW s \in Stores, PruneStore(s) PROVE Types'
  <2>1. DbsType'
    BY <1>7, DeleteEffect DEF PruneStore
  <2> QED
    BY <1>7, <2>1 DEF PruneStore, RunType
<1>8. ASSUME NEW s \in Stores, PruneStoreFails(s) PROVE Types'
  <2>1. DbsType'
    BY <1>8, DeleteEffect DEF PruneStoreFails
  <2>2. todo' \subseteq todo
    BY <1>8 DEF PruneStoreFails
  <2> QED
    BY <1>8, <2>1, <2>2 DEF PruneStoreFails, RunType, Fault
<1> QED
  BY <1>1, <1>2, <1>3, <1>4, <1>5, <1>6, <1>7, <1>8 DEF InPlaceNext

\* ... a restore with or without verification, and a kill.
LEMMA TypesSnapshot ==
  ASSUME Types, CreateSnapshot \/ SnapshotFails \/ SwapNext \/ Destroy \/ Refill \/ LegacyFails \/ Kill
  PROVE  Types'
<1> USE DEF Types, OptsType, CountType, PlaceType, RunType, Goto, Return, run
<1>0. {"live", "old", "temp"} \subseteq Paths
  BY DEF Paths
<1>1. CASE CreateSnapshot
  BY <1>1 DEF CreateSnapshot, DbsType
<1>2. CASE SnapshotFails
  BY <1>2 DEF SnapshotFails, DbsType, Fault
<1>3. CASE RestoreVerified
  <2>1. CASE VerifyAppState(Restored)
    <3>1. DbsType'
      BY <1>0, <1>3, <2>1, RestoredType, PutDb DEF RestoreVerified
    <3> QED
      BY <1>3, <2>1, <3>1 DEF RestoreVerified
  <2>2. CASE ~VerifyAppState(Restored)
    <3>1. DbsType'
      BY <1>0, <1>3, <2>2, RemoveType DEF RestoreVerified
    <3> QED
      BY <1>3, <2>2, <3>1 DEF RestoreVerified
  <2> QED
    BY <2>1, <2>2
<1>4. CASE RestoreFails
  <2>1. DbsType'
    BY <1>0, <1>4, RemoveType DEF RestoreFails
  <2> QED
    BY <1>4, <2>1 DEF RestoreFails, Fault
<1>5. CASE CloseBoth
  BY <1>5 DEF CloseBoth, DbsType
<1>6. CASE ClearBackup
  <2>1. DbsType'
    BY <1>0, <1>6, RemoveType DEF ClearBackup
  <2> QED
    BY <1>6, <2>1 DEF ClearBackup, Fault
<1>7. CASE BackUp
  <2>1. DbsType'
    BY <1>0, <1>7, RenameType DEF BackUp
  <2> QED
    BY <1>7, <2>1 DEF BackUp
<1>8. CASE BackUpFails
  BY <1>8 DEF BackUpFails, DbsType, Fault
<1>9. CASE SwapIn
  <2>1. DbsType'
    BY <1>0, <1>9, RenameType DEF SwapIn
  <2> QED
    BY <1>9, <2>1 DEF SwapIn
<1>10. CASE SwapInFails
  <2>1. DbsType'
    <3>1. CASE dbs' = dbs
      BY <1>10, <3>1 DEF SwapInFails, DbsType
    <3>2. CASE Rename("old", "live")
      BY <1>0, <1>10, <3>2, RenameType DEF SwapInFails
    <3> QED
      BY <1>10, <3>1, <3>2 DEF SwapInFails
  <2> QED
    BY <1>10, <2>1 DEF SwapInFails, Fault
<1>11. CASE DropBackup
  <2>1. DbsType'
    BY <1>0, <1>11, RemoveType DEF DropBackup
  <2> QED
    BY <1>11, <2>1 DEF DropBackup, Fault
<1>12. CASE Destroy
  <2>1. DbsType'
    BY <1>0, <1>12, EmptyType, PutDb DEF Destroy
  <2> QED
    BY <1>12, <2>1 DEF Destroy
<1>13. CASE Refill
  <2>1. DbsType'
    BY <1>0, <1>13, RestoredType, PutDb DEF Refill
  <2> QED
    BY <1>13, <2>1 DEF Refill
<1>14. CASE LegacyFails
  <2>1. DbsType'
    <3>1. CASE dbs' = dbs
      BY <1>14, <3>1 DEF LegacyFails, DbsType
    <3>2. CASE dbs' \in {[dbs EXCEPT !["live"] = Empty], [dbs EXCEPT !["live"] = NoDb]}
      BY <1>0, <1>14, <3>2, EmptyType, PutDb DEF LegacyFails
    <3> QED
      BY <1>14, <3>1, <3>2 DEF LegacyFails
  <2> QED
    BY <1>14, <2>1 DEF LegacyFails, Fault
<1>15. CASE Kill
  BY <1>15 DEF Kill, DbsType, Fault
<1> QED
  BY <1>1, <1>2, <1>3, <1>4, <1>5, <1>6, <1>7, <1>8, <1>9, <1>10, <1>11, <1>12, <1>13,
     <1>14, <1>15 DEF SwapNext

\* Every variable keeps its type.
LEMMA TypesAlways == Spec => []Types
<1>1. Init => Types
  <2> SUFFICES ASSUME Init PROVE Types
    OBVIOUS
  <2>1. DbOK(NoDb, 1) /\ NoDb \in Databases
    BY EmptyType DEF DbOK
  <2>2. DbOK(Database(1, Stores \cup Leaked, [s \in Stores |-> {1}], TRUE), 1)
    <3>1. 1 \in 0 .. 1 /\ TRUE \in BOOLEAN /\ [s \in Stores |-> {1}] \in [Stores -> SUBSET (1 .. 1 + 1)]
      OBVIOUS
    <3> QED
      BY <3>1, DatabaseType
  <2>3. DbsType
    <3>1. Database(1, Stores \cup Leaked, [s \in Stores |-> {1}], TRUE) \in Databases
      BY <2>2 DEF DbOK
    <3> QED
      BY <2>1, <2>2, <3>1 DEF Init, DbsType
  <2>4. OptsType /\ CountType
    BY DEF Init, OptsType, CountType
  <2>5. RunType
    BY <2>1 DEF Init, RunType
  <2>6. PlaceType
    BY DEF Init, PlaceType
  <2> QED
    BY <2>3, <2>4, <2>5, <2>6 DEF Types
<1>2. Types /\ [Next]_vars => Types'
  <2> SUFFICES ASSUME Types, [Next]_vars PROVE Types'
    OBVIOUS
  <2>1. CASE UNCHANGED vars
    BY <2>1 DEF vars, Types, DbsType, OptsType, RunType, CountType, PlaceType
  <2> QED
    BY <2>1, TypesNode, TypesInPlace, TypesSnapshot DEF Next
<1> QED
  BY <1>1, <1>2, PTL DEF Spec

\* Every variable keeps its type and no database gets ahead of the node by
\* more than the commit in progress, whatever is restored, swapped or lost.
THEOREM AppTypeCorrect == Spec => []TypeOK
  BY TypesAlways, TypesAreTypeOK, PTL

-----------------------------------------------------------------------------
(* Runs that verify, and runs that fail. *)

\* What is restored depends on what the run found and on its options.
LEMMA SameRestore ==
  ASSUME UNCHANGED <<opts, ver, mounted, original>>
  PROVE  Restored' = Restored /\ (Verified' <=> Verified)
  BY DEF Restored, Snapshot, Database, Verified, VerifyAppState, Loads

\* A restore is a database at the version that was found.
LEMMA RestoredIs ==
  /\ Restored.there /\ Restored.latest = ver /\ Restored.names = mounted
  /\ Restored.genuine = opts.same /\ ~NoDb.there /\ Empty.there
  /\ \A s \in mounted \cap Stores : Restored.vers[s] = {ver}
  BY DEF Restored, Snapshot, Database, NoDb, Empty

\* The node, the start of a run and a run in place keep what is known of the
\* stages ...
LEMMA StageInPlace ==
  ASSUME Types, StageInv, FlushMetadata \/ (\E s \in Stores : CommitStore(s))
                            \/ StartPrune \/ NothingToPrune \/ LoadFails \/ InPlaceNext
  PROVE  StageInv'
<1> USE DEF StageInv, Types, PlaceType, Swapping, Legacy, Goto, Return, run
<1>1. CASE FlushMetadata \/ (\E s \in Stores : CommitStore(s)) \/ NothingToPrune \/ LoadFails
             \/ PlanPanics \/ VerifyInPlace
  <2>1. pc' = "rest"
    BY <1>1 DEF FlushMetadata, CommitStore, NothingToPrune, LoadFails, PlanPanics, VerifyInPlace
  <2> QED
    BY <2>1
<1>2. CASE StartPrune
  <2> DEFINE db == IF live.there THEN live ELSE Empty
  <2>1. /\ dbs' = [dbs EXCEPT !["live"] = db, !["temp"] = NoDb] /\ original' = db
        /\ ver' = db.latest /\ mounted' = MountedStores(db) /\ pc' = "load"
    BY <1>2 DEF StartPrune
  <2>2. db.there
    BY RestoredIs
  <2>3. opts'.strategy \in {"inplace", "snapshot"}
    BY <1>2, OptionsAssumption DEF StartPrune
  <2>4. MountedStores(db) = MountedStores(original)'
    BY <2>1 DEF MountedStores
  <2> HIDE DEF db
  <2>5. live' = db
    BY <2>1 DEF live, DbsType, Paths
  <2> QED
    BY <2>1, <2>2, <2>3, <2>4, <2>5
<1>3. CASE PlanInPlace
  <2>1. pc = "load" /\ pc' = "prune" /\ UNCHANGED <<dbs, opts, ver, mounted, original>>
    BY <1>3 DEF PlanInPlace
  <2> QED
    BY <1>3, <2>1 DEF PlanInPlace, live, MountedStores
<1>4. ASSUME NEW s \in Stores, PruneStore(s) \/ PruneStoreFails(s) PROVE StageInv'
  <2>1. pc = "prune" /\ UNCHANGED <<pc, opts, ver, mounted, original>>
    BY <1>4 DEF PruneStore, PruneStoreFails
  <2>2. live'.there = live.there /\ live'.latest = live.latest
    <3>1. PICK upto : DeleteVersionsTo(s, upto) /\ UNCHANGED committed
      BY <1>4 DEF PruneStore, PruneStoreFails
    <3>2. live \in Databases
      BY DEF DbsType, live, Paths
    <3> QED
      BY <3>1, <3>2, DeleteEffect DEF Databases
  <2> QED
    BY <2>1, <2>2 DEF MountedStores
<1> QED
  BY <1>1, <1>2, <1>3, <1>4 DEF InPlaceNext

\* ... and so do a restore, and a kill.
LEMMA StageSnapshot ==
  ASSUME Types, StageInv,
         CreateSnapshot \/ SnapshotFails \/ SwapNext \/ Destroy \/ Refill \/ LegacyFails \/ Kill
  PROVE  StageInv'
<1>0. UNCHANGED <<opts, ver, mounted, original>>
  BY DEF run, CreateSnapshot, SnapshotFails, SwapNext, RestoreVerified, RestoreFails, CloseBoth,
     ClearBackup, BackUp, BackUpFails, SwapIn, SwapInFails, DropBackup, Destroy, Refill,
     LegacyFails, Kill
<1>a. /\ Restored' = Restored /\ (Verified' <=> Verified)
      /\ MountedStores(original)' = MountedStores(original)
  BY <1>0, SameRestore DEF MountedStores
<1> USE <1>0, <1>a, RestoredIs DEF StageInv, Types, PlaceType, DbsType, Paths, Swapping, Legacy,
        Goto, Return, live
<1>1. CASE SnapshotFails \/ RestoreFails \/ BackUpFails \/ SwapInFails \/ DropBackup \/ Refill
             \/ LegacyFails \/ Kill
  <2>1. pc' = "rest"
    BY <1>1 DEF SnapshotFails, RestoreFails, BackUpFails, SwapInFails, DropBackup, Refill,
       LegacyFails, Kill
  <2> QED
    BY <2>1
<1>2. CASE CreateSnapshot
  BY <1>2 DEF CreateSnapshot
<1>3. CASE RestoreVerified
  BY <1>3 DEF RestoreVerified, Verified
<1>4. CASE CloseBoth
  BY <1>4 DEF CloseBoth
<1>5. CASE ClearBackup
  BY <1>5 DEF ClearBackup, RemoveAll, RemoveAllFails
<1>6. CASE BackUp
  BY <1>6 DEF BackUp, Rename
<1>7. CASE SwapIn
  BY <1>7 DEF SwapIn, Rename
<1>8. CASE Destroy
  BY <1>8 DEF Destroy
<1> QED
  BY <1>1, <1>2, <1>3, <1>4, <1>5, <1>6, <1>7, <1>8 DEF SwapNext

\* What is known of the stages holds throughout.
LEMMA StageAlways == Spec => []StageInv
<1>1. Init => StageInv
  BY DEF Init, StageInv, Swapping, Legacy
<1>2. Types /\ StageInv /\ [Next]_vars => StageInv'
  <2>1. ASSUME StageInv, UNCHANGED vars PROVE StageInv'
    BY <2>1, SameRestore DEF vars, StageInv, MountedStores, live
  <2> QED
    BY <2>1, StageInPlace, StageSnapshot DEF Next
<1> QED
  BY <1>1, <1>2, TypesAlways, PTL DEF Spec

\* How a run may end.
OutcomeInv == VerifiedRunLoads /\ FailedRestoreKeepsOriginal

\* A step of the node, one within a run, and one that gives a run up without
\* touching the databases say nothing else of the outcome.
LEMMA OutcomeQuiet ==
  ASSUME pc' # "rest" \/ result' \in {"none", "skipped", "panic"}
  PROVE  OutcomeInv'
  BY DEF OutcomeInv, VerifiedRunLoads, FailedRestoreKeepsOriginal

\* A run in place that succeeds has verified the database.
LEMMA OutcomeInPlace ==
  ASSUME Types, StageInv, FlushMetadata \/ (\E s \in Stores : CommitStore(s))
                            \/ StartPrune \/ NothingToPrune \/ LoadFails \/ InPlaceNext
  PROVE  OutcomeInv'
<1> USE DEF Goto, Return, run
<1>1. CASE FlushMetadata \/ (\E s \in Stores : CommitStore(s)) \/ StartPrune \/ NothingToPrune
             \/ PlanInPlace \/ PlanPanics
  <2>1. pc' # "rest" \/ result' \in {"none", "skipped", "panic"}
    BY <1>1 DEF FlushMetadata, CommitStore, StartPrune, NothingToPrune, PlanInPlace, PlanPanics
  <2> QED
    BY <2>1, OutcomeQuiet
<1>2. ASSUME NEW s \in Stores, PruneStore(s) \/ PruneStoreFails(s) PROVE OutcomeInv'
  BY <1>2, OutcomeQuiet DEF PruneStore, PruneStoreFails
<1>3. CASE LoadFails
  BY <1>3 DEF LoadFails, StageInv, OutcomeInv, VerifiedRunLoads, FailedRestoreKeepsOriginal, live
<1>4. CASE VerifyInPlace
  BY <1>4 DEF VerifyInPlace, StageInv, OutcomeInv, VerifiedRunLoads, FailedRestoreKeepsOriginal,
     VerifyAppState, Loads, live
<1> QED
  BY <1>1, <1>2, <1>3, <1>4 DEF InPlaceNext

\* A restore ends with the original or the verified restore in place, or with
\* the original as the backup.
LEMMA OutcomeSnapshot ==
  ASSUME Types, StageInv,
         CreateSnapshot \/ SnapshotFails \/ SwapNext \/ Destroy \/ Refill \/ LegacyFails \/ Kill
  PROVE  OutcomeInv'
<1>0. UNCHANGED <<opts, ver, mounted, original>>
  BY DEF run, CreateSnapshot, SnapshotFails, SwapNext, RestoreVerified, RestoreFails, CloseBoth,
     ClearBackup, BackUp, BackUpFails, SwapIn, SwapInFails, DropBackup, Destroy, Refill,
     LegacyFails, Kill
<1>a. Restored' = Restored
  BY <1>0, SameRestore
<1>1. CASE CreateSnapshot \/ CloseBoth \/ ClearBackup \/ BackUp \/ SwapIn \/ Destroy
  <2>1. pc' # "rest"
    BY <1>1 DEF CreateSnapshot, CloseBoth, ClearBackup, BackUp, SwapIn, Destroy, Goto
  <2> QED
    BY <2>1, OutcomeQuiet
<1> USE <1>0, <1>a, RestoredIs DEF StageInv, Types, PlaceType, DbsType, Paths, Swapping, Legacy,
        Goto, Return, live, OutcomeInv, VerifiedRunLoads, FailedRestoreKeepsOriginal
<1>2. CASE SnapshotFails
  BY <1>2 DEF SnapshotFails
<1>3. CASE RestoreVerified
  BY <1>3 DEF RestoreVerified, RemoveAll
<1>4. CASE RestoreFails
  BY <1>4 DEF RestoreFails, RemoveAll
<1>5. CASE BackUpFails
  BY <1>5 DEF BackUpFails
<1>6. CASE SwapInFails
  BY <1>6 DEF SwapInFails, Rename
<1>7. CASE DropBackup
  <2>1. live' = Restored /\ Verified /\ pc = "drop" /\ result' \in {"ok", "error"}
    BY <1>7 DEF DropBackup, RemoveAll, RemoveAllFails
  <2> QED
    BY <2>1 DEF Verified, VerifyAppState, Loads
<1>8. CASE Refill
  BY <1>8 DEF Refill
<1>9. CASE LegacyFails
  BY <1>9 DEF LegacyFails
<1>10. CASE Kill
  BY <1>10 DEF Kill
<1> QED
  BY <1>1, <1>2, <1>3, <1>4, <1>5, <1>6, <1>7, <1>8, <1>9, <1>10 DEF SwapNext

\* Every run ends in one of these ways.
LEMMA OutcomeAlways == Spec => []OutcomeInv
<1>1. Init => OutcomeInv
  BY DEF Init, OutcomeInv, VerifiedRunLoads, FailedRestoreKeepsOriginal
<1>2. Types /\ StageInv /\ OutcomeInv /\ [Next]_vars => OutcomeInv'
  <2>1. ASSUME OutcomeInv, UNCHANGED vars PROVE OutcomeInv'
    BY <2>1, SameRestore DEF vars, OutcomeInv, VerifiedRunLoads, FailedRestoreKeepsOriginal, live, Loads
  <2> QED
    BY <2>1, OutcomeInPlace, OutcomeSnapshot DEF Next
<1> QED
  BY <1>1, <1>2, TypesAlways, StageAlways, PTL DEF Spec

\* A run that verifies and reports success leaves a database that loads at
\* the version and with the root hashes it found, by either strategy.
THEOREM VerifiedRunsLoad == Spec => []VerifiedRunLoads
  BY OutcomeAlways, PTL DEF OutcomeInv

\* A restore with verification that fails or is killed leaves the original
\* or the verified restore in place, or the original as the backup.
THEOREM FailuresKeepOriginal == Spec => []FailedRestoreKeepsOriginal
  BY OutcomeAlways, PTL DEF OutcomeInv

-----------------------------------------------------------------------------
(* The committed state. *)

\* Of a database with a version, the committed state is in application.db.
LEMMA LiveIsGood ==
  ASSUME Types, ~risk, KeptInv, live.there, live.latest # 0
  PROVE  Good(live)
<1>1. live.latest \in Nat
  BY DEF Types, DbsType, Databases, live, Paths
<1> QED
  BY <1>1 DEF KeptInv, Recoverable

\* A verified restore of it is as good.
LEMMA RestoreIsGood ==
  ASSUME Types, StageInv, pc # "rest", Good(original), Verified
  PROVE  Good(Restored)
<1>1. ver = committed /\ mounted = Stores
  BY DEF StageInv, Good, MountedStores
<1>2. Restored.genuine
  BY DEF Verified, VerifyAppState, Good
<1> QED
  BY <1>1, <1>2, RestoredIs DEF Good, Loads

\* The node, and the start of a run, lose nothing.
LEMMA KeptStart ==
  ASSUME Types, StageInv, KeptInv, FlushMetadata \/ (\E s \in Stores : CommitStore(s)) \/ StartPrune
  PROVE  KeptInv'
<1>0. committed \in Nat \ {0} /\ live \in Databases /\ CountType'
  BY TypesNode, TypesInPlace DEF Types, CountType, DbsType, live, Paths
<1>1. ASSUME NEW s \in Stores, CommitStore(s) PROVE KeptInv'
  <2> SUFFICES ASSUME ~risk PROVE Good(Recoverable)'
    BY <1>1 DEF KeptInv, CommitStore, run
  <2>1. Runnable(live) /\ UNCHANGED committed
    BY <1>1 DEF CommitStore
  <2>2. live' = [live EXCEPT !.vers = [live.vers EXCEPT ![s] = live.vers[s] \cup {committed + 1}]]
    <3>1. live.vers[s] \cup {committed + 1} \in SUBSET (1 .. committed + 1)
      BY <1>0 DEF Types, DbsType, DbOK, live, Paths
    <3>2. dbs' = [dbs EXCEPT !["live"].vers[s] = live.vers[s] \cup {committed + 1}]
      BY <1>1 DEF CommitStore, live
    <3> QED
      BY <2>1, <3>1, <3>2, PutVersions
  <2>3. Good(live)'
    BY <1>0, <2>1, <2>2 DEF Runnable, Good, Loads, Databases
  <2> QED
    BY <1>0, <2>3 DEF CountType, Good, Recoverable
<1>2. CASE FlushMetadata
  <2> SUFFICES ASSUME ~risk PROVE Good(Recoverable)'
    BY <1>2 DEF KeptInv, FlushMetadata, run
  <2>1. Runnable(live) /\ Loads(live, committed + 1, Stores) /\ committed' = committed + 1
    BY <1>2 DEF FlushMetadata
  <2>2. live' = [live EXCEPT !.latest = committed + 1]
    BY <1>2 DEF FlushMetadata, live, Types, DbsType, Paths
  <2>3. Good(live)'
    BY <1>0, <2>1, <2>2 DEF Runnable, Good, Loads, Databases
  <2> QED
    BY <1>0, <2>3 DEF CountType, Good, Recoverable
<1>3. CASE StartPrune
  <2> SUFFICES ASSUME ~risk' PROVE KeptInv'
    BY DEF KeptInv
  <2> DEFINE db == IF live.there THEN live ELSE Empty
  <2>1. /\ dbs' = [dbs EXCEPT !["live"] = db, !["temp"] = NoDb] /\ original' = db
        /\ ver' = db.latest /\ pc' = "load" /\ UNCHANGED committed
        /\ ~risk /\ ~Risky(opts')
    BY <1>3 DEF StartPrune
  <2>2. Empty.latest = 0 /\ \A s \in Stores : Empty.vers[s] = {}
    BY DEF Empty, Database
  <2>3. live' = db /\ dbs'["old"] = dbs["old"]
    BY <2>1 DEF live, Types, DbsType, Paths
  <2>4. Good(Recoverable)'
    <3>1. Recoverable' = Recoverable
      BY <2>2, <2>3 DEF Recoverable
    <3> QED
      BY <2>1, <3>1 DEF KeptInv, Good, Loads
  <2>5. ver' # 0 => Good(original)'
    <3> SUFFICES ASSUME ver' # 0 PROVE Good(live) /\ original' = live
      BY <2>1 DEF Good, Loads
    <3> QED
      BY <2>1, <2>2, LiveIsGood
  <2>6. opts'.strategy = "snapshot" => opts'.verify
    BY <2>1 DEF Risky
  <2>7. opts'.strategy = "inplace" => \A s \in Stores : committed + 1 \notin db.vers[s]
    BY <2>1, <2>2 DEF Risky
  <2> HIDE DEF db
  <2> QED
    BY <2>1, <2>3, <2>4, <2>5, <2>6, <2>7 DEF KeptInv
<1> QED
  BY <1>1, <1>2, <1>3

\* Neither does a run in place on a database that no commit has got ahead of:
\* the version it keeps is the committed one in every store.
LEMMA KeptInPlace ==
  ASSUME Types, StageInv, KeptInv, NothingToPrune \/ LoadFails \/ InPlaceNext
  PROVE  KeptInv'
<1>0. committed \in Nat \ {0} /\ live \in Databases /\ target \in Nat
  BY DEF Types, CountType, RunType, DbsType, live, Paths
<1>1. CASE NothingToPrune \/ LoadFails \/ PlanPanics \/ VerifyInPlace
  <2>1. pc' = "rest" /\ UNCHANGED <<dbs, committed, risk>>
    BY <1>1 DEF NothingToPrune, LoadFails, PlanPanics, VerifyInPlace, Return, run
  <2> QED
    BY <2>1 DEF KeptInv, Recoverable, live, Good, Loads
<1>2. CASE PlanInPlace
  <2> SUFFICES ASSUME ~risk PROVE KeptInv'
    BY <1>2 DEF KeptInv, PlanInPlace
  <2>1. /\ pc = "load" /\ pc' = "prune" /\ opts.strategy = "inplace" /\ ver # 0
        /\ UNCHANGED <<dbs, committed, opts, ver, original, risk>>
    BY <1>2 DEF PlanInPlace, Goto
  <2>2. PICK s \in mounted :
          LET versions == live.vers[s]
          IN  /\ FirstKept(Cardinality(versions), opts.keep) < Cardinality(versions)
              /\ target' = Nth(versions, FirstKept(Cardinality(versions), opts.keep)) - 1
    BY <1>2 DEF PlanInPlace, AllVersions
  <2>3. s \in Stores /\ ver = committed /\ ver \in live.vers[s] /\ committed + 1 \notin live.vers[s]
    BY <1>2, <2>1, <2>2 DEF PlanInPlace, Loads, KeptInv, Good, StageInv, Types, RunType
  <2>4. live.vers[s] \in SUBSET (1 .. committed)
    BY <1>0, <2>3 DEF Types, DbsType, DbOK, live, Paths
  <2>5. target' = Max(live.vers[s]) - 1 /\ Max(live.vers[s]) \in live.vers[s]
    <3>1. opts.keep \in Nat /\ committed \in Nat /\ live.vers[s] # {}
      BY <1>0, <2>3 DEF Types, OptsType
    <3> QED
      BY <2>2, <2>4, <3>1, PlanTarget
  <2>6. target' < committed
    <3>1. ASSUME NEW m \in 1 .. committed PROVE m - 1 < committed
      BY <1>0
    <3>2. Max(live.vers[s]) \in 1 .. committed
      BY <2>4, <2>5, Zenon
    <3> QED
      BY <2>5, <3>1, <3>2
  <2> QED
    BY <2>1, <2>6 DEF KeptInv, Recoverable, live, Good, Loads
<1>3. ASSUME NEW s \in Stores, PruneStore(s) \/ PruneStoreFails(s) PROVE KeptInv'
  <2> SUFFICES ASSUME ~risk PROVE KeptInv'
    BY <1>3 DEF KeptInv, PruneStore, PruneStoreFails
  <2>1. /\ pc = "prune" /\ UNCHANGED <<pc, committed, opts, ver, target, original, risk>>
    BY <1>3 DEF PruneStore, PruneStoreFails
  <2>2. PICK upto \in 0 .. target : DeleteVersionsTo(s, upto)
    BY <1>0, <1>3 DEF PruneStore, PruneStoreFails
  <2>3. live' = [live EXCEPT !.vers = [live.vers EXCEPT ![s] = Left(live.vers[s], upto)]]
    BY <2>1, <2>2, DeleteEffect
  <2>4. live.vers \in [Stores -> SUBSET Nat]
    BY <1>0 DEF Databases
  <2>5. Good(live)
    <3>1. live.there /\ live.latest # 0
      BY <2>1 DEF StageInv, Types, PlaceType
    <3> QED
      BY <3>1, LiveIsGood
  <2>6. committed > upto /\ Left(live.vers[s], upto) \subseteq live.vers[s]
    BY <1>0, <2>1, <2>2 DEF KeptInv, Left
  <2>7. /\ \A k \in Stores : live'.vers[k] \subseteq live.vers[k]
        /\ \A k \in Stores : committed \in live.vers[k] => committed \in live'.vers[k]
        /\ live'.there = live.there /\ live'.latest = live.latest
        /\ live'.names = live.names /\ live'.genuine = live.genuine
    BY <1>0, <2>3, <2>4, <2>6 DEF Databases, Left
  <2>8. Good(live)'
    BY <2>1, <2>5, <2>7 DEF Good, Loads
  <2>9. Good(Recoverable)'
    BY <1>0, <2>1, <2>8 DEF Good, Recoverable
  <2> QED
    BY <2>1, <2>7, <2>9 DEF KeptInv, Good, Loads
<1> QED
  BY <1>1, <1>2, <1>3 DEF InPlaceNext

\* Nor a restore with verification: the committed state is in application.db
\* until it is the backup, and then in the restore.
LEMMA KeptSnapshot ==
  ASSUME Types, StageInv, KeptInv,
         CreateSnapshot \/ SnapshotFails \/ SwapNext \/ Destroy \/ Refill \/ LegacyFails \/ Kill
  PROVE  KeptInv'
<1> SUFFICES ASSUME ~risk' PROVE KeptInv'
  BY DEF KeptInv
<1>0. UNCHANGED <<opts, ver, original, risk, committed>> /\ pc # "rest"
  BY DEF run, CreateSnapshot, SnapshotFails, SwapNext, RestoreVerified, RestoreFails, CloseBoth,
     ClearBackup, BackUp, BackUpFails, SwapIn, SwapInFails, DropBackup, Destroy, Refill,
     LegacyFails, Kill
<1>a. committed \in Nat \ {0} /\ (Good(original)' <=> Good(original))
  BY <1>0 DEF Types, CountType, Good, Loads
<1>b. SUFFICES Good(Recoverable)'
  BY <1>0, <1>a DEF KeptInv, StageInv, CreateSnapshot, SnapshotFails, SwapNext, RestoreVerified,
     RestoreFails, CloseBoth, ClearBackup, BackUp, BackUpFails, SwapIn, SwapInFails, DropBackup,
     Destroy, Refill, LegacyFails, Kill, Goto, Return, Swapping, Legacy
<1>c. ASSUME NEW db, Good(db), live' = db \/ ((~live'.there \/ live'.latest = 0) /\ dbs'["old"] = db)
      PROVE  Good(Recoverable)'
  BY <1>0, <1>a, <1>c DEF Good, Loads, Recoverable
<1>d. pc \notin Legacy
  BY <1>0 DEF KeptInv, StageInv
<1>e. pc \in Swapping => Good(original)
  BY <1>0 DEF KeptInv, Types, PlaceType, Swapping
<1>f. pc \in {"close", "clear", "backup", "swap", "drop"} => Good(Restored)
  BY <1>0, <1>e, RestoreIsGood DEF StageInv, Swapping
<1> USE DEF Types, DbsType, Paths, StageInv, Swapping, live
<1>1. CASE UNCHANGED dbs
  BY <1>0, <1>1 DEF KeptInv, Recoverable, Good, Loads
<1>2. CASE RestoreVerified
  BY <1>2, <1>c, <1>e DEF RestoreVerified, RemoveAll
<1>3. CASE RestoreFails
  BY <1>3, <1>c, <1>e DEF RestoreFails, RemoveAll
<1>4. CASE ClearBackup
  BY <1>4, <1>c, <1>e DEF ClearBackup, RemoveAll, RemoveAllFails
<1>5. CASE BackUp
  BY <1>5, <1>c, <1>e, RestoredIs DEF BackUp, Rename
<1>6. CASE SwapIn
  BY <1>6, <1>c, <1>f DEF SwapIn, Rename
<1>7. CASE SwapInFails
  BY <1>1, <1>7, <1>c, <1>e DEF SwapInFails, Rename
<1>8. CASE DropBackup
  BY <1>8, <1>c, <1>f DEF DropBackup, RemoveAll, RemoveAllFails
<1> QED
  BY <1>1, <1>2, <1>3, <1>4, <1>5, <1>6, <1>7, <1>8, <1>d DEF SwapNext, Legacy, CreateSnapshot,
     SnapshotFails, CloseBoth, BackUpFails, Destroy, Refill, LegacyFails, Kill

\* As long as no run has taken the legacy path, or pruned in place a database
\* on which the node had stopped within a commit, the committed state is in
\* application.db or, after an interrupted swap, in its backup: for any
\* stores, options and number of runs, failures and kills.
THEOREM CommittedStateAlwaysKept == Spec => []CommittedStateKept
<1>1. Init => KeptInv
  <2> SUFFICES ASSUME Init PROVE Good(live) /\ Recoverable = live /\ pc = "rest"
    BY DEF KeptInv
  <2>1. live = Database(1, Stores \cup Leaked, [s \in Stores |-> {1}], TRUE)
    BY DEF Init, live, Paths
  <2> QED
    BY <2>1 DEF Init, Database, Good, Loads, Recoverable
<1>2. Types /\ StageInv /\ KeptInv /\ [Next]_vars => KeptInv'
  <2>1. ASSUME KeptInv, UNCHANGED vars PROVE KeptInv'
    BY <2>1 DEF vars, KeptInv, Good, Loads, Recoverable, live
  <2> QED
    BY <2>1, KeptStart, KeptInPlace, KeptSnapshot DEF Next
<1>3. KeptInv => CommittedStateKept
  BY DEF KeptInv, Good, CommittedStateKept
<1> QED
  BY <1>1, <1>2, <1>3, TypesAlways, StageAlways, PTL DEF Spec

=============================================================================
