------------------------------ MODULE PruneRun ------------------------------
(***************************************************************************)
(* The command around the prunings: RunE of `cosmprund prune` (cmd/root.go)*)
(* and Prune (cmd/pruner.go).  The main goroutine opens the databases,     *)
(* starts the application pruner and the CometBFT pruner, collects their   *)
(* errors from a channel that a third goroutine closes, starts one GC      *)
(* goroutine per database and, on the way out, closes what is left and     *)
(* gives the files back to their owner.  The prunings themselves, the      *)
(* subject of CometPrune, AppPrune and GcSwap, are reduced to what they do *)
(* with the handles and to whether they fail.                              *)
(***************************************************************************)
EXTENDS Naturals, Sequences, FiniteSets

CONSTANTS
  Strategies,  \* PruneApp of the chain: "inplace", "verified" or "legacy"
  MaxRuns,     \* bound: runs of the command
  MaxFaults    \* bound: failed operations and kills

ASSUME StrategiesAssumption == Strategies \subseteq {"inplace", "verified", "legacy"}

Dbs == {"state", "blockstore", "application"}

\* A handle: the database it locks and who opened it.
Info(d) == <<d, "info">>
Opened(d) == <<d, "prune">>
Reopened == <<"application", "reopened">>
Restore == <<"restore", "prune">>
Handles ==
  {Info("state"), Info("blockstore"), Reopened, Restore}
    \cup {Opened(d) : d \in Dbs \cup {"snapshots"}}
Nil == <<>>

\* The variables of Prune: stateStoreDB, blockStoreDB and appStoreDB by
\* their database, and params.appDB.
Variables == Dbs \cup {"params"}

VARIABLES
  at,           \* goroutine -> where it is; the GC goroutines by database
  ptr,          \* variable of Prune -> handle or Nil
  gcDb,         \* database -> the handle its GC goroutine was given
  held,         \* the handles that are open
  closes,       \* handle -> calls of Close() in this run
  errorChan,    \* errors that are sent and not received
  closed,       \* errorChan is closed
  errs,         \* errors that Prune returns
  snapshotted,  \* what PruneApp returned
  opts,         \* options of the run
  uid,          \* owner of state.db when the run started
  owner,        \* database -> "node", "mixed" (only some files are root's)
                \* or "root" (the directory is)
  tables,       \* databases with a table file on disk
  failed,       \* what failed in this run (never read by the code)
  forgotten,    \* a run stopped with state.db owned by root (nor this)
  chownErr,     \* ChownR reported an error
  result, runs, faults

handles == <<ptr, gcDb, held, closes>>
channel == <<errorChan, closed, errs>>
run == <<opts, uid, runs>>
disk == <<owner, tables, forgotten>>
outcome == <<chownErr, result>>
vars == <<handles, channel, run, disk, outcome, at, snapshotted, failed, faults>>

Goroutines == {"main", "app", "comet", "waiter"} \cup Dbs

Init ==
  /\ at = [g \in Goroutines |-> "none"]
  /\ ptr = [v \in Variables |-> Nil] /\ gcDb = [d \in Dbs |-> Nil]
  /\ held = {} /\ closes = [h \in Handles |-> 0]
  /\ errorChan = <<>> /\ closed = FALSE /\ errs = {} /\ snapshotted = FALSE
  /\ opts = [comet |-> TRUE, app |-> TRUE, gc |-> TRUE, strategy |-> "none"]
  /\ uid = "node" /\ owner = [d \in Dbs |-> "node"] /\ tables = Dbs
  /\ failed = {} /\ forgotten = FALSE
  /\ chownErr = FALSE /\ result = "none" /\ runs = 0 /\ faults = 0

-----------------------------------------------------------------------------

Step(g, from, to) == at[g] = from /\ at' = [at EXCEPT ![g] = to]
Fault == faults < MaxFaults /\ faults' = faults + 1
Fail(what) == failed' = failed \cup {what}

\* db.NewDB by root, which leaves files of root in the directory and, when
\* it recovers the journal, a table.
Open(h) ==
  /\ held' = held \cup {h}
  /\ owner' = [d \in Dbs |-> IF d = h[1] /\ owner[d] = "node" THEN "mixed" ELSE owner[d]]
  /\ tables' = tables \cup ({h[1]} \cap Dbs)
  /\ UNCHANGED forgotten

Close(hs) ==
  /\ held' = held \ hs
  /\ closes' = [h \in Handles |-> IF h \in hs THEN closes[h] + 1 ELSE closes[h]]

\* The capacity of errorChan.
ChanCapNone == 0
ChanCap == 2

\* errorChan <- e: waits for room or, on an unbuffered channel, for main.
Send(e) ==
  /\ Len(errorChan) < ChanCap \/ (at["main"] = "drain" /\ errorChan = <<>>)
  /\ errorChan' = Append(errorChan, e)
  /\ UNCHANGED <<closed, errs>>

-----------------------------------------------------------------------------
(* RunE and the first part of Prune. *)

\* The node runs between two runs if all files are its own, and opens every
\* database.
NodeRuns ==
  /\ at["main"] = "none" /\ \A d \in Dbs : owner[d] = "node"
  /\ tables' = Dbs
  /\ UNCHANGED <<handles, channel, run, outcome, at, snapshotted, owner, failed,
                 forgotten, faults>>

NewRun ==
  /\ runs' = runs + 1 /\ runs < MaxRuns
  /\ opts' \in [comet : BOOLEAN, app : BOOLEAN, gc : BOOLEAN, strategy : Strategies]
  /\ ptr' = [v \in Variables |-> Nil] /\ gcDb' = [d \in Dbs |-> Nil]
  /\ held' = {} /\ closes' = [h \in Handles |-> 0]
  /\ errorChan' = <<>> /\ closed' = FALSE /\ errs' = {}
  /\ snapshotted' = FALSE /\ failed' = {} /\ chownErr' = FALSE
  /\ UNCHANGED disk

StatOfFiles == owner["state"]

\* Stat: the owner of the directory state.db, not of the files in it.
Stat == IF owner["state"] = "root" THEN "root" ELSE "node"

\* The owner of state.db is read before anything is opened.
StartCommand ==
  /\ Step("main", "none", "info") /\ NewRun
  /\ uid' = Stat /\ result' = "none"
  /\ UNCHANGED faults

\* RunE returns before it has anything to defer.
StatFails ==
  /\ at["main"] = "none" /\ NewRun /\ Fault
  /\ result' = "nostat"
  /\ UNCHANGED <<at, uid>>

\* A step of main that fails and makes Prune return.
MainFails(stage, what) ==
  /\ Step("main", stage, "return") /\ Fail(what)
  /\ errs' = errs \cup {what}
  /\ UNCHANGED <<errorChan, closed>>

\* DbState opens state.db, if its format can be told from a table file.
OpenInfo ==
  /\ Step("main", "info", "infoblock") /\ "state" \in tables
  /\ Open(Info("state"))
  /\ UNCHANGED <<ptr, gcDb, closes, channel, run, outcome, snapshotted, failed, faults>>

OpenInfoFails ==
  /\ MainFails("info", "info")
  /\ IF "state" \in tables THEN Fault ELSE UNCHANGED faults
  /\ UNCHANGED <<handles, run, disk, outcome, snapshotted>>

\* dbEarliest opens blockstore.db for the report; an error is not fatal.
OpenEarliest ==
  /\ Step("main", "infoblock", "infoclose")
  /\ \/ "blockstore" \in tables /\ Open(Info("blockstore")) /\ UNCHANGED faults
     \/ "blockstore" \notin tables /\ UNCHANGED <<held, disk, faults>>
     \/ Fault /\ UNCHANGED <<held, disk>>
  /\ UNCHANGED <<ptr, gcDb, closes, channel, run, outcome, snapshotted, failed>>

\* The deferred closes of both run before Prune goes on.
CloseInfo ==
  /\ Step("main", "infoclose", IF opts.app THEN "openapp" ELSE "opencomet")
  /\ Close(held)
  /\ UNCHANGED <<ptr, gcDb, channel, run, disk, outcome, snapshotted, failed, faults>>

\* The state object cannot be read or, after the report, the format of
\* state.db not be told a second time.
ReadInfoFails ==
  /\ MainFails("infoblock", "info") \/ MainFails("infoclose", "info")
  /\ Fault
  /\ Close(held)
  /\ UNCHANGED <<ptr, gcDb, run, disk, outcome, snapshotted>>

OpenApp ==
  /\ Step("main", "openapp", "opensnap")
  /\ Open(Opened("application"))
  /\ ptr' = [ptr EXCEPT !["application"] = Opened("application")]
  /\ UNCHANGED <<gcDb, closes, channel, run, outcome, snapshotted, failed, faults>>

\* The application pruner starts with its own reference to the handle.
OpenSnapshots ==
  /\ at["main"] = "opensnap"
  /\ at' = [at EXCEPT !["main"] = "opencomet", !["app"] = "run"]
  /\ Open(Opened("snapshots"))
  /\ ptr' = [ptr EXCEPT !["params"] = Opened("application")]
  /\ UNCHANGED <<gcDb, closes, channel, run, outcome, snapshotted, failed, faults>>

\* No goroutine runs yet: Prune returns.
OpenAppFails ==
  /\ MainFails("openapp", "open") \/ MainFails("opensnap", "open")
  /\ Fault
  /\ UNCHANGED <<handles, run, disk, outcome, snapshotted>>

SkipComet ==
  /\ Step("main", "opencomet", "startwaiter") /\ ~opts.comet
  /\ UNCHANGED <<handles, channel, run, disk, outcome, snapshotted, failed, faults>>

OpenState ==
  /\ Step("main", "opencomet", "openblock") /\ opts.comet
  /\ Open(Opened("state"))
  /\ ptr' = [ptr EXCEPT !["state"] = Opened("state")]
  /\ UNCHANGED <<gcDb, closes, channel, run, outcome, snapshotted, failed, faults>>

OpenBlockStore ==
  /\ at["main"] = "openblock"
  /\ at' = [at EXCEPT !["main"] = "startwaiter", !["comet"] = "run"]
  /\ Open(Opened("blockstore"))
  /\ ptr' = [ptr EXCEPT !["blockstore"] = Opened("blockstore")]
  /\ UNCHANGED <<gcDb, closes, channel, run, outcome, snapshotted, failed, faults>>

OpenCometFailsReturns ==
  /\ opts.comet
  /\ MainFails("opencomet", "open") \/ MainFails("openblock", "open")
  /\ Fault
  /\ UNCHANGED <<handles, run, disk, outcome, snapshotted>>

\* The application pruner may be running: the error goes into the channel.
OpenCometFails ==
  /\ opts.comet
  /\ Step("main", "opencomet", "send") \/ Step("main", "openblock", "send")
  /\ Fault /\ Fail("open")
  /\ UNCHANGED <<handles, channel, run, disk, outcome, snapshotted>>

-----------------------------------------------------------------------------
(* The application pruner: PruneAppState uses the handle to the end,        *)
(* SnapshotAndRestoreApp replaces it.                                       *)

\* It is done, or its error goes to the channel.
PruneAppReturns ==
  /\ \/ Step("app", "run", "done") /\ UNCHANGED <<failed, faults>>
     \/ Step("app", "run", "send") /\ Fail("app") /\ Fault
  /\ UNCHANGED <<handles, channel, run, disk, outcome, snapshotted>>

\* restoreVerifiedAndSwap restores into a database of its own.
OpenRestore ==
  /\ opts.strategy = "verified" /\ Step("app", "run", "restore")
  /\ held' = held \cup {Restore}
  /\ UNCHANGED <<ptr, gcDb, closes, channel, run, disk, outcome, snapshotted, failed,
                 faults>>

\* The restore is verified and closed, or it is closed on the way out.
CloseRestore ==
  /\ \/ Step("app", "restore", "closeapp") /\ UNCHANGED <<failed, faults>>
     \/ Step("app", "restore", "send") /\ Fail("app") /\ Fault
  /\ Close({Restore})
  /\ UNCHANGED <<ptr, gcDb, channel, run, disk, outcome, snapshotted>>

\* The original is closed and params.appDB is nil until the reopening; only
\* restoreVerifiedAndSwap looks at the error of Close.
CloseOriginal ==
  /\ at["app"] = IF opts.strategy = "legacy" THEN "run" ELSE "closeapp"
  /\ opts.strategy # "inplace"
  /\ \/ Step("app", at["app"], "replace") /\ UNCHANGED <<failed, faults>>
     \/ /\ opts.strategy = "verified"
        /\ Step("app", "closeapp", "send") /\ Fail("app") /\ Fault
  /\ Close({ptr["params"]}) /\ ptr' = [ptr EXCEPT !["params"] = Nil]
  /\ UNCHANGED <<gcDb, channel, run, disk, outcome, snapshotted>>

\* The directory is swapped for the restored one, or removed.
ReplaceApp ==
  /\ \/ Step("app", "replace", "reopen") /\ UNCHANGED <<failed, faults>>
     \/ Step("app", "replace", "send") /\ Fail("app") /\ Fault
  /\ owner' \in IF at'["app"] = "send" THEN {owner, [owner EXCEPT !["application"] = "root"]}
                ELSE {[owner EXCEPT !["application"] = "root"]}
  /\ UNCHANGED <<handles, channel, run, tables, forgotten, outcome, snapshotted>>

ReopenApp ==
  /\ Step("app", "reopen", IF opts.strategy = "legacy" THEN "refill" ELSE "done")
  /\ Open(Reopened) /\ ptr' = [ptr EXCEPT !["params"] = Reopened]
  /\ snapshotted' = (opts.strategy = "verified")
  /\ UNCHANGED <<gcDb, closes, channel, run, outcome, failed, faults>>

ReopenAppFails ==
  /\ Step("app", "reopen", "send") /\ Fail("app") /\ Fault
  /\ UNCHANGED <<handles, channel, run, disk, outcome, snapshotted>>

\* The legacy path restores into the reopened database.
RefillApp ==
  /\ \/ Step("app", "refill", "done") /\ snapshotted' = TRUE /\ UNCHANGED <<failed, faults>>
     \/ /\ Step("app", "refill", "send") /\ Fail("app") /\ Fault
        /\ UNCHANGED snapshotted
  /\ UNCHANGED <<handles, channel, run, disk, outcome>>

\* wg.Done is deferred: it comes after the error is sent.
SendAppError ==
  /\ Step("app", "send", "done") /\ Send("app")
  /\ UNCHANGED <<handles, run, disk, outcome, snapshotted, failed, faults>>

-----------------------------------------------------------------------------
(* The CometBFT pruner, and the goroutine that closes the channel. *)

PruneCometReturns ==
  /\ \/ Step("comet", "run", "done") /\ UNCHANGED <<failed, faults>>
     \/ Step("comet", "run", "send") /\ Fail("comet") /\ Fault
  /\ UNCHANGED <<handles, channel, run, disk, outcome, snapshotted>>

SendCometError ==
  /\ Step("comet", "send", "done") /\ Send("comet")
  /\ UNCHANGED <<handles, run, disk, outcome, snapshotted, failed, faults>>

\* wg.Wait, then close(errorChan).
CloseChannel ==
  /\ Step("waiter", "wait", "done")
  /\ \A g \in {"app", "comet"} : at[g] \in {"none", "done"}
  /\ closed' = TRUE
  /\ UNCHANGED <<handles, errorChan, errs, run, disk, outcome, snapshotted, failed, faults>>

-----------------------------------------------------------------------------
(* The second part of Prune. *)

SendOpenError ==
  /\ Step("main", "send", "startwaiter") /\ Send("open")
  /\ UNCHANGED <<handles, run, disk, outcome, snapshotted, failed, faults>>

StartWaiter ==
  /\ at["main"] = "startwaiter"
  /\ at' = [at EXCEPT !["main"] = "drain", !["waiter"] = "wait"]
  /\ UNCHANGED <<handles, channel, run, disk, outcome, snapshotted, failed, faults>>

ReceiveOneError ==
  /\ Step("main", "drain", "return") /\ errorChan # <<>>
  /\ errs' = errs \cup {Head(errorChan)} /\ errorChan' = Tail(errorChan)
  /\ UNCHANGED <<handles, closed, run, disk, outcome, snapshotted, failed, faults>>

\* for err := range errorChan
ReceiveError ==
  /\ at["main"] = "drain" /\ errorChan # <<>>
  /\ errs' = errs \cup {Head(errorChan)} /\ errorChan' = Tail(errorChan)
  /\ UNCHANGED <<at, handles, closed, run, disk, outcome, snapshotted, failed, faults>>

AfterDrain == IF errs = {} /\ opts.gc THEN "gc" ELSE "return"

AdoptNothing ==
  /\ Step("main", "drain", AfterDrain) /\ errorChan = <<>> /\ closed
  /\ UNCHANGED <<handles, channel, run, disk, outcome, snapshotted, failed, faults>>

\* The channel is closed and empty: main adopts the handle that PruneApp
\* left, and goes on to the GC pass unless there was an error.
Adopt ==
  /\ Step("main", "drain", AfterDrain) /\ errorChan = <<>> /\ closed
  /\ ptr' = [ptr EXCEPT !["application"] = IF opts.app THEN ptr["params"] ELSE @]
  /\ UNCHANGED <<gcDb, held, closes, channel, run, disk, outcome, snapshotted, failed,
                 faults>>

\* The databases of the GC pass.
GcDbs ==
  (IF opts.comet /\ Nil \notin {ptr["state"], ptr["blockstore"]}
   THEN {"state", "blockstore"} ELSE {})
    \cup (IF opts.app /\ ptr["application"] # Nil THEN {"application"} ELSE {})

\* Each GC goroutine owns the handle it is given.
StartGc ==
  /\ at["main"] = "gc"
  /\ at' = [g \in Goroutines |-> IF g = "main" THEN "gcwait"
                                 ELSE IF g \in GcDbs THEN "run" ELSE at[g]]
  /\ gcDb' = [d \in Dbs |-> IF d \in GcDbs THEN ptr[d] ELSE Nil]
  /\ ptr' = [v \in Variables |-> IF v \in GcDbs THEN Nil ELSE ptr[v]]
  /\ UNCHANGED <<held, closes, channel, run, disk, outcome, snapshotted, failed, faults>>

\* maybeRunGC skips a database that is too large or was just rebuilt.
SkipGc(d) ==
  /\ Step(d, "run", "done") /\ Close({gcDb[d]})
  /\ UNCHANGED <<ptr, gcDb, channel, run, disk, outcome, snapshotted, failed, faults>>

\* gcDB puts a copy in place, which may have all its data in the journal.
CopyGc(d) ==
  /\ Step(d, "run", "done") /\ Close({gcDb[d]})
  /\ ~(d = "application" /\ snapshotted)
  /\ owner' = [owner EXCEPT ![d] = "root"]
  /\ tables' \in {tables, tables \ {d}}
  /\ UNCHANGED <<ptr, gcDb, channel, run, forgotten, outcome, snapshotted, failed, faults>>

FailGc(d) ==
  /\ Step(d, "run", "failed") /\ Close({gcDb[d]}) /\ Fail("gc") /\ Fault
  /\ UNCHANGED <<ptr, gcDb, channel, run, disk, outcome, snapshotted>>

\* g.Wait returns the first error.
WaitGc ==
  /\ Step("main", "gcwait", "return") /\ \A d \in Dbs : at[d] # "run"
  /\ errs' = errs \cup {"gc" : d \in {e \in Dbs : at[e] = "failed"}}
  /\ UNCHANGED <<handles, errorChan, closed, run, disk, outcome, snapshotted, failed, faults>>

\* The deferred closes.
ClosePrune ==
  /\ Step("main", "return", "chown")
  /\ Close({ptr[d] : d \in Dbs} \ {Nil})
  /\ UNCHANGED <<ptr, gcDb, channel, run, disk, outcome, snapshotted, failed, faults>>

ReturnFromMain ==
  /\ at["main"] = "chown"
  /\ at' = [g \in Goroutines |-> "none"] /\ held' = {}
  /\ result' = IF errs = {} THEN "ok" ELSE "error"
  /\ UNCHANGED <<ptr, gcDb, closes, channel, run, tables, snapshotted, failed>>

ChownOnSuccess ==
  /\ ReturnFromMain
  /\ owner' = IF errs = {} THEN [d \in Dbs |-> uid] ELSE owner
  /\ chownErr' = FALSE /\ UNCHANGED <<forgotten, faults>>

\* The deferred ChownR gives every file to the owner read at the start.
ChownR ==
  /\ ReturnFromMain
  /\ owner' = [d \in Dbs |-> uid]
  /\ chownErr' = FALSE /\ UNCHANGED <<forgotten, faults>>

\* It misses some files; the error is only logged.
ChownRFails ==
  /\ ReturnFromMain /\ Fault
  /\ \E ds \in SUBSET Dbs :
       owner' = [d \in Dbs |-> IF d \in ds THEN uid ELSE owner[d]]
  /\ chownErr' = TRUE
  /\ forgotten' = (forgotten \/ owner'["state"] = "root")

\* The process is killed, or a goroutine panics.
Kill ==
  /\ at["main"] # "none" /\ Fault
  /\ at' = [g \in Goroutines |-> "none"] /\ held' = {}
  /\ forgotten' = (forgotten \/ owner["state"] = "root")
  /\ result' = "killed"
  /\ UNCHANGED <<ptr, gcDb, closes, channel, run, owner, tables, chownErr, snapshotted,
                 failed>>

-----------------------------------------------------------------------------

MainNext ==
  \/ OpenInfo \/ OpenInfoFails \/ OpenEarliest \/ CloseInfo \/ ReadInfoFails
  \/ OpenApp \/ OpenSnapshots \/ OpenAppFails
  \/ SkipComet \/ OpenState \/ OpenBlockStore \/ OpenCometFails \/ SendOpenError
  \/ StartWaiter \/ ReceiveError \/ Adopt
  \/ StartGc \/ WaitGc \/ ClosePrune \/ ChownR \/ ChownRFails

AppNext ==
  \/ PruneAppReturns \/ OpenRestore \/ CloseRestore \/ CloseOriginal
  \/ ReplaceApp \/ ReopenApp \/ ReopenAppFails \/ RefillApp \/ SendAppError

CometNext == PruneCometReturns \/ SendCometError

GcNext(d) == SkipGc(d) \/ CopyGc(d) \/ FailGc(d)

Next ==
  \/ NodeRuns \/ StartCommand \/ StatFails
  \/ MainNext \/ AppNext \/ CometNext \/ CloseChannel
  \/ \E d \in Dbs : GcNext(d)
  \/ Kill

\* The scheduler runs every goroutine that can go on; nobody has to start
\* the command.
Spec ==
  /\ Init /\ [][Next]_vars
  /\ WF_vars(MainNext) /\ WF_vars(AppNext) /\ WF_vars(CometNext) /\ WF_vars(CloseChannel)
  /\ \A d \in Dbs : WF_vars(GcNext(d))

-----------------------------------------------------------------------------
(* Properties. *)

\* Every variable keeps its type, and errorChan never holds more than its
\* capacity.
TypeOK ==
  /\ at \in [Goroutines -> {"none", "info", "infoblock", "infoclose", "openapp",
               "opensnap", "opencomet", "openblock", "send", "startwaiter", "drain", "gc",
               "gcwait", "return", "chown", "run", "restore", "closeapp", "replace",
               "reopen", "refill", "wait", "done", "failed"}]
  /\ ptr \in [Variables -> Handles \cup {Nil}] /\ gcDb \in [Dbs -> Handles \cup {Nil}]
  /\ held \subseteq Handles /\ closes \in [Handles -> Nat]
  /\ errorChan \in Seq({"open", "app", "comet"}) /\ Len(errorChan) <= 2
  /\ {closed, snapshotted, forgotten, chownErr} \subseteq BOOLEAN
  /\ {errs, failed} \subseteq SUBSET {"info", "open", "app", "comet", "gc"}
  /\ opts \in [comet : BOOLEAN, app : BOOLEAN, gc : BOOLEAN, strategy : Strategies \cup {"none"}]
  /\ uid \in {"node", "root"} /\ owner \in [Dbs -> {"node", "mixed", "root"}]
  /\ tables \subseteq Dbs
  /\ result \in {"none", "nostat", "ok", "error", "killed"}
  /\ {runs, faults} \subseteq Nat

\* Whatever fails, and whichever handle PruneApp leaves behind, no handle is
\* closed twice, and when Prune has returned all are closed but that of the
\* snapshot metadata, which nobody closes.
HandlesClosedOnce ==
  /\ \A h \in Handles : closes[h] <= 1
  /\ at["main"] = "chown" => held \subseteq {Opened("snapshots")}

\* A goroutine never works on a handle that main, or its own swap, has closed,
\* and each database is locked by one handle at a time.
UsesOpenHandle ==
  /\ at["app"] \in {"run", "restore", "closeapp", "refill"} => ptr["params"] \in held
  /\ at["comet"] = "run" => {ptr["state"], ptr["blockstore"]} \subseteq held
  /\ \A d \in Dbs : at[d] = "run" => gcDb[d] \in held
  /\ \A h, k \in held : h[1] = k[1] => h = k

\* Prune reports every failure of its goroutines, and no GC pass replaces a
\* database after a pruning has failed.
NoErrorLost ==
  /\ result \in {"ok", "error"} => errs = failed
  /\ \A d \in Dbs : at[d] # "none" => failed \subseteq {"gc"}

\* A run whose chown goes through gives every file back to the node, also
\* those that failed or killed runs before it left to root, unless one of
\* these stopped when state.db itself was root's.
OwnersRestored ==
  (result \in {"ok", "error"} /\ ~chownErr /\ ~forgotten) =>
    \A d \in Dbs : owner[d] = "node"

\* The command ends: nobody waits for a goroutine, or for room in the
\* channel, for ever.
CommandEnds == (at["main"] # "none") ~> (at["main"] = "none")

=============================================================================
