------------------------------- MODULE GcSwap -------------------------------
(***************************************************************************)
(* gcDB and maybeRunGC (cmd/pruner.go) on one database <name>.db: the live *)
(* keys are copied batch by batch into <name>_gc.db, which is then swapped *)
(* into place by way of the backup <name>_old.db.  Every file operation    *)
(* and every database call may fail, the process may be killed between any *)
(* two of them, and the pruner may be run again on what is then found on   *)
(* disk.  Between runs the node writes.                                    *)
(***************************************************************************)
EXTENDS Integers, FiniteSets

CONSTANTS
  Keys,       \* keys of the database, ordered as numbers
  Meta,       \* a key every database of a node has (the block store state...)
  BatchSize,  \* batchSize (1_000 in the code)
  MaxRuns,    \* bound: runs of the pruner
  MaxFaults   \* bound: failed operations and kills

ASSUME KeysAssumption == Keys \subseteq Nat /\ Meta \in Keys
ASSUME BatchAssumption == BatchSize \in Nat

Paths == {"live", "gc", "old"}   \* oldPath, newPath, backupPath

VARIABLES
  present,  \* the paths that exist
  data,     \* path -> keys of the database there ({} where there is none)
  truth,    \* the keys the database is supposed to have
  written,  \* all keys the node ever wrote
  pc,       \* where the run is; "rest" when the pruner does not run
  todo,     \* keys that iter has still to visit
  batch,    \* keys of the batch that is not yet written
  total,    \* keys copied
  source,   \* what the database held when its GC started
  stale,    \* what newPath held when this run opened it
  closes,   \* calls of dbToGC.Close() in this run
  ret,      \* how the last run ended; "none" once the node has gone on
  runs, faults

\* truth, written, source and stale are not in the code: the properties use
\* them.

files == <<present, data>>
wanted == <<truth, written>>
copying == <<todo, batch, total, source, stale>>
vars == <<present, data, truth, written, pc, todo, batch, total, source, stale,
          closes, ret, runs, faults>>

Init ==
  /\ present = {"live"}
  /\ \E ks \in SUBSET Keys :
       /\ Meta \in ks /\ truth = ks /\ written = ks
       /\ data = [p \in Paths |-> IF p = "live" THEN ks ELSE {}]
  /\ pc = "rest" /\ todo = {} /\ batch = {} /\ total = 0
  /\ source = {} /\ stale = {}
  /\ closes = 0 /\ ret = "none" /\ runs = 0 /\ faults = 0

Fault(n) == faults + n <= MaxFaults /\ faults' = faults + n

\* os.RemoveAll(p); when it fails, some of the files may be gone.
RemoveAll(p, ok) ==
  IF ok THEN present' = present \ {p} /\ data' = [data EXCEPT ![p] = {}]
  ELSE /\ p \in present /\ UNCHANGED present
       /\ \E rest \in SUBSET data[p] : data' = [data EXCEPT ![p] = rest]

RenameCopies(p, q) ==
  /\ p \in present /\ q \notin present
  /\ present' = (present \ {p}) \cup {q}
  /\ data' = [data EXCEPT ![q] = data[p]]

\* os.Rename(p, q) of directories: q must not exist.
Rename(p, q) ==
  /\ p \in present /\ q \notin present
  /\ present' = (present \ {p}) \cup {q}
  /\ data' = [data EXCEPT ![q] = data[p], ![p] = {}]

Goto(stage) == pc' = stage /\ UNCHANGED ret
Return(how) == pc' = "rest" /\ ret' = how
CloseSource == closes' = closes + 1

-----------------------------------------------------------------------------
(* The node between two runs.  It creates a database that is missing, but  *)
(* does not go on with an empty one while its other databases are not.     *)

NodeWrite(k) ==
  /\ pc = "rest" /\ "live" \in present /\ Meta \in data["live"]
  /\ k \notin data["live"]
  /\ data' = [data EXCEPT !["live"] = @ \cup {k}]
  /\ truth' = truth \cup {k} /\ written' = written \cup {k}
  /\ ret' = "none"
  /\ UNCHANGED <<present, pc, copying, closes, runs, faults>>

NodeCreates ==
  /\ pc = "rest" /\ "live" \notin present
  /\ present' = present \cup {"live"}
  /\ UNCHANGED <<data, wanted, pc, copying, closes, ret, runs, faults>>

-----------------------------------------------------------------------------
(* A run of the pruner. *)

\* db.NewDB opens the database, or creates it if there is none.
OpenDb ==
  /\ pc = "rest" /\ runs < MaxRuns
  /\ runs' = runs + 1
  /\ present' = present \cup {"live"}
  /\ pc' = "prune" /\ ret' = "none" /\ closes' = 0
  /\ UNCHANGED <<data, wanted, copying, faults>>

\* The pruning that comes before the GC pass deletes keys.
PruneDelete(k) ==
  /\ pc = "prune" /\ k \in data["live"] /\ k # Meta
  /\ data' = [data EXCEPT !["live"] = @ \ {k}]
  /\ truth' = truth \ {k}
  /\ UNCHANGED <<present, written, pc, copying, closes, ret, runs, faults>>

\* maybeRunGC skips a database that is too large or was just rebuilt ...
SkipGc ==
  /\ pc = "prune" /\ CloseSource /\ Return("skipped")
  /\ UNCHANGED <<files, wanted, copying, runs, faults>>

\* ... and otherwise calls gcDB: open newPath, which may be there already,
\* and an iterator on the source.
OpenGc ==
  /\ pc = "prune" /\ Goto("copy")
  /\ present' = present \cup {"gc"}
  /\ todo' = data["live"] /\ batch' = {} /\ total' = 0
  /\ source' = data["live"] /\ stale' = data["gc"]
  /\ UNCHANGED <<data, wanted, closes, runs, faults>>

OpenGcFails ==
  /\ pc = "prune" /\ Fault(1) /\ CloseSource /\ Return("error")
  /\ source' = data["live"]
  /\ UNCHANGED <<files, wanted, todo, batch, total, stale, runs>>

\* One iteration of the copy loop; a full batch is written.
CopyKey(k) ==
  /\ pc = "copy" /\ k \in todo /\ \A j \in todo : k <= j
  /\ todo' = todo \ {k} /\ total' = total + 1
  /\ LET filled == batch \cup {k}
     IN  IF Cardinality(filled) >= BatchSize
         THEN /\ data' = [data EXCEPT !["gc"] = @ \cup filled]
              /\ batch' = {}
         ELSE batch' = filled /\ UNCHANGED data
  /\ UNCHANGED <<present, wanted, pc, source, stale, closes, ret, runs, faults>>

CopyLastBatchUnchecked ==
  /\ pc = "copy" /\ Goto("closenew")
  /\ data' = [data EXCEPT !["gc"] = @ \cup batch]
  /\ batch' = {}
  /\ UNCHANGED <<present, wanted, todo, total, source, stale, closes, runs, faults>>

CopyLastBatchLost ==
  /\ pc = "copy" /\ todo = {} /\ Goto("closenew")
  /\ batch' = {}
  /\ UNCHANGED <<files, wanted, todo, total, source, stale, closes, runs, faults>>

\* The iterator is exhausted without an error: write what is left.
CopyLastBatch ==
  /\ pc = "copy" /\ todo = {} /\ Goto("closenew")
  /\ data' = [data EXCEPT !["gc"] = @ \cup batch]
  /\ batch' = {}
  /\ UNCHANGED <<present, wanted, todo, total, source, stale, closes, runs, faults>>

AbortKeepsSource ==
  /\ pc = "copy" /\ Return("error") /\ UNCHANGED closes
  /\ \E failed \in {0, 1} : Fault(1 + failed) /\ RemoveAll("gc", failed = 0)
  /\ UNCHANGED <<wanted, copying, runs>>

\* abort: an error of the iterator or of a batch discards newPath.
Abort ==
  /\ pc = "copy" /\ CloseSource /\ Return("error")
  /\ \E failed \in {0, 1} : Fault(1 + failed) /\ RemoveAll("gc", failed = 0)
  /\ UNCHANGED <<wanted, copying, runs>>

CloseNew ==
  /\ pc = "closenew" /\ Goto("closesource")
  /\ UNCHANGED <<files, wanted, copying, closes, runs, faults>>

CloseNewFails ==
  /\ pc = "closenew" /\ CloseSource /\ Return("error")
  /\ \E failed \in {0, 1} : Fault(1 + failed) /\ RemoveAll("gc", failed = 0)
  /\ UNCHANGED <<wanted, copying, runs>>

CloseSourceDbAlwaysSwap ==
  /\ pc = "closesource" /\ CloseSource /\ Goto("clear")
  /\ UNCHANGED <<files, wanted, copying, runs, faults>>

\* The source is closed; the swap follows unless nothing was copied.
CloseSourceDb ==
  /\ pc = "closesource" /\ CloseSource
  /\ Goto(IF total = 0 THEN "empty" ELSE "clear")
  /\ UNCHANGED <<files, wanted, copying, runs, faults>>

CloseSourceFails ==
  /\ pc = "closesource" /\ CloseSource /\ Return("error")
  /\ \E failed \in {0, 1} : Fault(1 + failed) /\ RemoveAll("gc", failed = 0)
  /\ UNCHANGED <<wanted, copying, runs>>

FinishEmpty ==
  /\ pc = "empty" /\ Return("ok")
  /\ \E failed \in {0, 1} : Fault(failed) /\ RemoveAll("gc", failed = 0)
  /\ UNCHANGED <<wanted, copying, closes, runs>>

-----------------------------------------------------------------------------
(* The swap. *)

\* Clear a backup of an earlier run; an error is ignored.
ClearBackup ==
  /\ pc = "clear" /\ Goto("backup")
  /\ \E failed \in {0, 1} : Fault(failed) /\ RemoveAll("old", failed = 0)
  /\ UNCHANGED <<wanted, copying, closes, runs>>

BackUpByRemoving ==
  /\ pc = "backup" /\ RemoveAll("live", TRUE) /\ Goto("swap")
  /\ UNCHANGED <<wanted, copying, closes, runs, faults>>

BackUp ==
  /\ pc = "backup" /\ Rename("live", "old") /\ Goto("swap")
  /\ UNCHANGED <<wanted, copying, closes, runs, faults>>

\* The rename fails, certainly so when the old backup is still there.
BackUpFails ==
  /\ pc = "backup" /\ Return("error")
  /\ \E failed \in {0, 1} :
       /\ Fault(failed + IF "old" \in present THEN 0 ELSE 1)
       /\ RemoveAll("gc", failed = 0)
  /\ UNCHANGED <<wanted, copying, closes, runs>>

SwapIn ==
  /\ pc = "swap" /\ Rename("gc", "live") /\ Goto("drop")
  /\ UNCHANGED <<wanted, copying, closes, runs, faults>>

SwapInFailsForGood ==
  /\ pc = "swap" /\ Fault(1) /\ Return("error")
  /\ UNCHANGED <<files, wanted, copying, closes, runs>>

SwapInFails ==
  /\ pc = "swap" /\ Fault(1) /\ Goto("restore")
  /\ UNCHANGED <<files, wanted, copying, closes, runs>>

\* The swap failed: the backup goes back.
RestoreBackup ==
  /\ pc = "restore" /\ Rename("old", "live") /\ Goto("discard")
  /\ UNCHANGED <<wanted, copying, closes, runs, faults>>

RestoreFails ==
  /\ pc = "restore" /\ Fault(1) /\ Return("critical")
  /\ UNCHANGED <<files, wanted, copying, closes, runs>>

DiscardCopy ==
  /\ pc = "discard" /\ Return("error")
  /\ \E failed \in {0, 1} : Fault(failed) /\ RemoveAll("gc", failed = 0)
  /\ UNCHANGED <<wanted, copying, closes, runs>>

DropBackup ==
  /\ pc = "drop" /\ Return("ok")
  /\ \E failed \in {0, 1} : Fault(failed) /\ RemoveAll("old", failed = 0)
  /\ UNCHANGED <<wanted, copying, closes, runs>>

-----------------------------------------------------------------------------

Kill ==
  /\ pc # "rest" /\ Fault(1) /\ Return("killed")
  /\ UNCHANGED <<files, wanted, copying, closes, runs>>

CopyNext == (\E k \in Keys : CopyKey(k)) \/ CopyLastBatch \/ Abort

CloseNext ==
  \/ CloseNew \/ CloseNewFails \/ CloseSourceDb \/ CloseSourceFails
  \/ FinishEmpty

SwapNext ==
  \/ ClearBackup \/ BackUp \/ BackUpFails \/ SwapIn \/ SwapInFails
  \/ RestoreBackup \/ RestoreFails \/ DiscardCopy \/ DropBackup

Next ==
  \/ \E k \in Keys : NodeWrite(k) \/ PruneDelete(k)
  \/ NodeCreates \/ OpenDb \/ SkipGc \/ OpenGc \/ OpenGcFails
  \/ CopyNext \/ CloseNext \/ SwapNext \/ Kill

Spec == Init /\ [][Next]_vars

-----------------------------------------------------------------------------
(* Properties. *)

\* Every variable keeps its type, no database ever holds a key the node did
\* not write, and a path that does not exist holds nothing.
TypeOK ==
  /\ present \subseteq Paths /\ \A p \in Paths \ present : data[p] = {}
  /\ data \in [Paths -> SUBSET written] /\ written \subseteq Keys
  /\ truth \subseteq written
  /\ pc \in {"rest", "prune", "copy", "closenew", "closesource", "empty",
             "clear", "backup", "swap", "restore", "discard", "drop"}
  /\ {todo, batch, source, stale} \subseteq SUBSET written
  /\ {total, closes, runs, faults} \subseteq Nat
  /\ ret \in {"none", "skipped", "ok", "error", "critical", "killed"}

\* The database a node, or an operator following the error messages, finds:
\* the live one, or the backup when the live one is missing or was created
\* empty in its place.
Recoverable ==
  IF "live" \in present /\ Meta \in data["live"] THEN data["live"]
  ELSE data["old"]

\* Whatever fails, whenever the process is killed and however often it is
\* run again, every key that was not pruned is in the live database or, when
\* that one is missing or empty, in the backup.
NoLoss == truth \subseteq Recoverable

\* "must never swap a truncated DB into place": the live database is
\* complete, or was just created empty because the swap was interrupted.
NeverTruncated ==
  "live" \in present => data["live"] = {} \/ truth \subseteq data["live"]

\* "the original stays intact": a GC pass that reports an error leaves the
\* database with exactly the keys it had before, in its place or, if even
\* the rename back failed, in the backup.
FailedGcKeepsSource ==
  pc = "rest" =>
    /\ ret = "error" => "live" \in present /\ data["live"] = source
    /\ ret = "critical" => "old" \in present /\ data["old"] = source

\* A GC pass that succeeds leaves the keys it found and those of a partial
\* copy it continued, nothing else.
CompletedGcExact ==
  (pc = "rest" /\ ret = "ok") =>
    data["live"] = source \cup IF source = {} THEN {} ELSE stale

\* maybeRunGC and gcDB own the handle: on every path they close it, once.
HandleClosedOnce ==
  /\ closes <= 1
  /\ (pc = "rest" /\ ret \in {"skipped", "ok", "error", "critical"}) => closes = 1

\* The copy and the swap implement a database that only ever changes by the
\* writes of the node and the deletions of the pruner, and into which
\* deleted keys may come back.
DurableDb == INSTANCE DurableDb WITH db <- Recoverable
ImplementsDurableDb == DurableDb!Spec
=============================================================================
