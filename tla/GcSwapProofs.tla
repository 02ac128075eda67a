---------------------------- MODULE GcSwapProofs ----------------------------
(***************************************************************************)
(* For every set of keys, every batch size and any number of runs, faults  *)
(* and kills, the GC pass loses no key, never puts a truncated database in *)
(* place, implements DurableDb, keeps the source when it fails, and closes *)
(* its handle once.                                                        *)
(***************************************************************************)
EXTENDS GcSwap, TLAPS

\* What each stage relies on: where the complete copies are.
StageInv ==
  /\ pc = "prune" => "live" \in present
  /\ pc = "copy" =>
       /\ {"live", "gc"} \subseteq present
       /\ todo \subseteq data["live"]
       /\ data["live"] \ todo \subseteq data["gc"] \cup batch
       /\ total # 0 => data["live"] # {}
  /\ pc \in {"closenew", "closesource", "clear", "backup"} =>
       /\ {"live", "gc"} \subseteq present
       /\ data["live"] \subseteq data["gc"]
       /\ (total # 0 \/ pc \in {"clear", "backup"}) => data["live"] # {}
  /\ pc \in {"swap", "restore"} =>
       /\ "old" \in present /\ "live" \notin present
       /\ truth \subseteq data["old"]
  /\ pc = "swap" => data["old"] \subseteq data["gc"]
  /\ pc \in {"drop", "discard"} =>
       "live" \in present /\ data["live"] # {}

\* The inductive invariant: the live database is empty or complete, the
\* backup stands in for it when it is empty, and each stage has its copies.
Inv ==
  /\ TypeOK
  /\ Meta \in truth
  /\ data["live"] = {} \/ truth \subseteq data["live"]
  /\ NoLoss
  /\ StageInv

\* The initial states satisfy the invariant: only the live database exists.
LEMMA InitInv == Init => Inv
  BY KeysAssumption
  DEF Init, Inv, TypeOK, NoLoss, Recoverable, StageInv, Paths

\* RemoveAll, successful or not, touches one path and adds nothing to it.
LEMMA RemoveAllEffect ==
  ASSUME TypeOK, NEW p \in Paths, NEW ok \in BOOLEAN, RemoveAll(p, ok)
  PROVE  /\ present' \subseteq Paths
         /\ data' \in [Paths -> SUBSET written]
         /\ data'[p] \subseteq data[p]
         /\ \A q \in Paths \ {p} : data'[q] = data[q] /\ (q \in present' <=> q \in present)
         /\ \A q \in Paths \ present' : data'[q] = {}
  BY DEF TypeOK, RemoveAll

\* A rename moves the keys of one path to another.
LEMMA RenameEffect ==
  ASSUME TypeOK, NEW p \in Paths, NEW q \in Paths, Rename(p, q)
  PROVE  /\ present' \subseteq Paths
         /\ data' \in [Paths -> SUBSET written]
         /\ p # q
         /\ data'[q] = data[p] /\ data'[p] = {}
         /\ q \in present' /\ p \notin present' /\ p \in present /\ q \notin present
         /\ \A r \in Paths \ {p, q} : data'[r] = data[r] /\ (r \in present' <=> r \in present)
         /\ \A r \in Paths \ present' : data'[r] = {}
  BY DEF TypeOK, Rename

\* Steps of the node and of the run before the copy.
LEMMA BeforeCopyInv ==
  ASSUME Inv,
         \/ \E k \in Keys : NodeWrite(k) \/ PruneDelete(k)
         \/ NodeCreates \/ OpenDb \/ SkipGc \/ OpenGc \/ OpenGcFails \/ Kill
  PROVE  Inv'
<1> USE DEF Inv, TypeOK, NoLoss, Recoverable, StageInv, Paths
<1>1. ASSUME NEW k \in Keys, NodeWrite(k) PROVE Inv'
  BY <1>1 DEF NodeWrite, copying
<1>2. ASSUME NEW k \in Keys, PruneDelete(k) PROVE Inv'
  BY <1>2 DEF PruneDelete, copying
<1>3. CASE NodeCreates
  BY <1>3 DEF NodeCreates, copying, wanted
<1>4. CASE OpenDb
  BY <1>4 DEF OpenDb, copying, wanted
<1>5. CASE SkipGc
  BY <1>5 DEF SkipGc, CloseSource, Return, files, copying, wanted
<1>6. CASE OpenGc
  BY <1>6 DEF OpenGc, Goto, wanted
<1>7. CASE OpenGcFails
  BY <1>7 DEF OpenGcFails, Fault, CloseSource, Return, files, wanted
<1>8. CASE Kill
  BY <1>8 DEF Kill, Fault, Return, files, copying, wanted
<1> QED
  BY <1>1, <1>2, <1>3, <1>4, <1>5, <1>6, <1>7, <1>8

\* A step that only discards the copy, or part of it, and ends the run.
LEMMA DiscardInv ==
  ASSUME Inv, NEW ok \in BOOLEAN, RemoveAll("gc", ok), pc' = "rest",
         ret' \in {"ok", "error"}, closes' \in Nat, faults' \in Nat,
         UNCHANGED <<wanted, copying, runs>>
  PROVE  Inv'
<1>1. "gc" \in Paths BY DEF Paths
<1>2. /\ present' \subseteq Paths
      /\ data' \in [Paths -> SUBSET written]
      /\ \A q \in Paths \ {"gc"} : data'[q] = data[q] /\ (q \in present' <=> q \in present)
      /\ \A q \in Paths \ present' : data'[q] = {}
  BY <1>1, RemoveAllEffect DEF Inv
<1> QED
  BY <1>2 DEF Inv, TypeOK, NoLoss, Recoverable, StageInv, Paths, wanted, copying

\* Steps of the copy loop: what was visited is in the copy or in the batch.
LEMMA CopyInv ==
  ASSUME Inv, CopyNext
  PROVE  Inv'
<1>1. ASSUME NEW k \in Keys, CopyKey(k) PROVE Inv'
  BY <1>1 DEF CopyKey, Inv, TypeOK, NoLoss, Recoverable, StageInv, Paths, wanted
<1>2. CASE CopyLastBatch
  BY <1>2 DEF CopyLastBatch, Goto, Inv, TypeOK, NoLoss, Recoverable, StageInv,
              Paths, wanted
<1>3. CASE Abort
  <2>1. PICK failed \in {0, 1} : Fault(1 + failed) /\ RemoveAll("gc", failed = 0)
    BY <1>3 DEF Abort
  <2>2. closes' \in Nat /\ faults' \in Nat
    BY <1>3, <2>1 DEF Abort, Fault, CloseSource, Inv, TypeOK
  <2>3. pc' = "rest" /\ ret' \in {"ok", "error"} /\ UNCHANGED <<wanted, copying, runs>>
    BY <1>3 DEF Abort, Return
  <2> QED
    BY <2>1, <2>2, <2>3, DiscardInv
<1> QED
  BY <1>1, <1>2, <1>3 DEF CopyNext

\* Steps that close the two databases.
LEMMA CloseInv ==
  ASSUME Inv, CloseNext
  PROVE  Inv'
<1>1. CASE CloseNew
  BY <1>1 DEF CloseNew, Goto, Inv, TypeOK, NoLoss, Recoverable, StageInv,
              Paths, wanted, files, copying
<1>2. CASE CloseNewFails
  <2>1. PICK failed \in {0, 1} : Fault(1 + failed) /\ RemoveAll("gc", failed = 0)
    BY <1>2 DEF CloseNewFails
  <2>2. closes' \in Nat /\ faults' \in Nat
    BY <1>2, <2>1 DEF CloseNewFails, Fault, CloseSource, Inv, TypeOK
  <2>3. pc' = "rest" /\ ret' \in {"ok", "error"} /\ UNCHANGED <<wanted, copying, runs>>
    BY <1>2 DEF CloseNewFails, Return
  <2> QED
    BY <2>1, <2>2, <2>3, DiscardInv
<1>3. CASE CloseSourceDb
  BY <1>3 DEF CloseSourceDb, CloseSource, Goto, Inv, TypeOK, NoLoss,
              Recoverable, StageInv, Paths, wanted, files, copying
<1>4. CASE CloseSourceFails
  <2>1. PICK failed \in {0, 1} : Fault(1 + failed) /\ RemoveAll("gc", failed = 0)
    BY <1>4 DEF CloseSourceFails
  <2>2. closes' \in Nat /\ faults' \in Nat
    BY <1>4, <2>1 DEF CloseSourceFails, Fault, CloseSource, Inv, TypeOK
  <2>3. pc' = "rest" /\ ret' \in {"ok", "error"} /\ UNCHANGED <<wanted, copying, runs>>
    BY <1>4 DEF CloseSourceFails, Return
  <2> QED
    BY <2>1, <2>2, <2>3, DiscardInv
<1>5. CASE FinishEmpty
  <2>1. PICK failed \in {0, 1} : Fault(failed) /\ RemoveAll("gc", failed = 0)
    BY <1>5 DEF FinishEmpty
  <2>2. closes' \in Nat /\ faults' \in Nat
    BY <1>5, <2>1 DEF FinishEmpty, Fault, Inv, TypeOK
  <2>3. pc' = "rest" /\ ret' \in {"ok", "error"} /\ UNCHANGED <<wanted, copying, runs>>
    BY <1>5 DEF FinishEmpty, Return
  <2> QED
    BY <2>1, <2>2, <2>3, DiscardInv
<1> QED
  BY <1>1, <1>2, <1>3, <1>4, <1>5 DEF CloseNext

\* Steps of the swap: at each of them one complete copy stays where
\* Recoverable finds it.
LEMMA SwapInv ==
  ASSUME Inv, SwapNext
  PROVE  Inv'
<1> {"live", "gc", "old"} \subseteq Paths BY DEF Paths
<1> USE DEF Inv
<1>1. CASE ClearBackup \/ DropBackup
  <2>1. PICK failed \in {0, 1} : Fault(failed) /\ RemoveAll("old", failed = 0)
    BY <1>1 DEF ClearBackup, DropBackup
  <2>2. /\ present' \subseteq Paths
        /\ data' \in [Paths -> SUBSET written]
        /\ \A q \in Paths \ {"old"} : data'[q] = data[q] /\ (q \in present' <=> q \in present)
        /\ \A q \in Paths \ present' : data'[q] = {}
    BY <2>1, RemoveAllEffect
  <2> QED
    BY <1>1, <2>1, <2>2 DEF ClearBackup, DropBackup, Fault, Goto, Return, TypeOK,
       NoLoss, Recoverable, StageInv, Paths, wanted, copying
<1>2. CASE BackUp
  <2>1. Rename("live", "old") BY <1>2 DEF BackUp
  <2> QED
    BY <1>2, <2>1, RenameEffect DEF BackUp, Goto, TypeOK, NoLoss, Recoverable,
       StageInv, Paths, wanted, copying
<1>3. CASE BackUpFails
  <2>1. PICK failed \in {0, 1} : Fault(failed + IF "old" \in present THEN 0 ELSE 1) /\ RemoveAll("gc", failed = 0)
    BY <1>3 DEF BackUpFails
  <2>2. closes' \in Nat /\ faults' \in Nat
    BY <1>3, <2>1 DEF BackUpFails, Fault, Inv, TypeOK
  <2>3. pc' = "rest" /\ ret' \in {"ok", "error"} /\ UNCHANGED <<wanted, copying, runs>>
    BY <1>3 DEF BackUpFails, Return
  <2> QED
    BY <2>1, <2>2, <2>3, DiscardInv
<1>4. CASE SwapIn
  <2>1. Rename("gc", "live") BY <1>4 DEF SwapIn
  <2> QED
    BY <1>4, <2>1, RenameEffect DEF SwapIn, Goto, TypeOK, NoLoss, Recoverable,
       StageInv, Paths, wanted, copying
<1>5. CASE SwapInFails
  BY <1>5 DEF SwapInFails, Fault, Goto, TypeOK, NoLoss, Recoverable, StageInv,
     Paths, files, wanted, copying
<1>6. CASE RestoreBackup
  <2>1. Rename("old", "live") BY <1>6 DEF RestoreBackup
  <2> QED
    BY <1>6, <2>1, RenameEffect DEF RestoreBackup, Goto, TypeOK, NoLoss,
       Recoverable, StageInv, Paths, wanted, copying
<1>7. CASE DiscardCopy
  <2>1. PICK failed \in {0, 1} : Fault(failed) /\ RemoveAll("gc", failed = 0)
    BY <1>7 DEF DiscardCopy
  <2>2. closes' \in Nat /\ faults' \in Nat
    BY <1>7, <2>1 DEF DiscardCopy, Fault, Inv, TypeOK
  <2>3. pc' = "rest" /\ ret' \in {"ok", "error"} /\ UNCHANGED <<wanted, copying, runs>>
    BY <1>7 DEF DiscardCopy, Return
  <2> QED
    BY <2>1, <2>2, <2>3, DiscardInv
<1>8. CASE RestoreFails
  BY <1>8 DEF RestoreFails, Fault, Return, TypeOK, NoLoss, Recoverable, StageInv,
     Paths, files, wanted, copying
<1> QED
  BY <1>1, <1>2, <1>3, <1>4, <1>5, <1>6, <1>7, <1>8 DEF SwapNext

\* The invariant holds in every reachable state.
THEOREM Invariance == Spec => []Inv
<1>1. Inv /\ [Next]_vars => Inv'
  <2> SUFFICES ASSUME Inv, [Next]_vars PROVE Inv'
    OBVIOUS
  <2>1. CASE UNCHANGED vars
    BY <2>1 DEF vars, Inv, TypeOK, NoLoss, Recoverable, StageInv
  <2> QED
    BY <2>1, BeforeCopyInv, CopyInv, CloseInv, SwapInv DEF Next
<1> QED
  BY <1>1, InitInv, PTL DEF Spec

\* Every variable keeps its type, for all values of the constants.
THEOREM GcTypeCorrect == Spec => []TypeOK
<1>1. Inv => TypeOK
  BY DEF Inv
<1> QED
  BY <1>1, Invariance, PTL

\* No key is lost, whatever fails and whenever the process is killed.
THEOREM GcLosesNothing == Spec => []NoLoss
<1>1. Inv => NoLoss
  BY DEF Inv
<1> QED
  BY <1>1, Invariance, PTL

\* No truncated copy ever becomes the live database.
THEOREM NoTruncatedDb == Spec => []NeverTruncated
<1>1. Inv => NeverTruncated
  BY DEF Inv, NeverTruncated
<1> QED
  BY <1>1, Invariance, PTL

-----------------------------------------------------------------------------
(* The refinement.  Only three kinds of step change the recoverable         *)
(* database: a write of the node, a deletion, and the rename that puts the  *)
(* copy in place.                                                           *)

\* A step that leaves the live database and the backup alone stutters.
LEMMA OtherStepsStutter ==
  ASSUME UNCHANGED written,
         data'["live"] = data["live"], data'["old"] = data["old"],
         "live" \in present' <=> "live" \in present
  PROVE  UNCHANGED <<Recoverable, written>>
  BY DEF Recoverable

\* Steps before the copy: a write, a deletion, or a database created empty,
\* which the backup stands in for.
LEMMA BeforeCopyRefines ==
  ASSUME Inv,
         \/ \E k \in Keys : NodeWrite(k) \/ PruneDelete(k)
         \/ NodeCreates \/ OpenDb \/ SkipGc \/ OpenGc \/ OpenGcFails \/ Kill
  PROVE  [DurableDb!Next]_<<Recoverable, written>>
<1>1. ASSUME NEW k \in Keys, NodeWrite(k) PROVE DurableDb!Write(k)
  BY <1>1 DEF NodeWrite, DurableDb!Write, Recoverable, Inv, TypeOK, Paths
<1>2. ASSUME NEW k \in Keys, PruneDelete(k) PROVE DurableDb!Delete(k)
  BY <1>2 DEF PruneDelete, DurableDb!Delete, Recoverable, Inv, TypeOK, Paths,
              StageInv
<1>3. CASE NodeCreates \/ OpenDb
  BY <1>3 DEF NodeCreates, OpenDb, Recoverable, Inv, TypeOK, Paths, wanted
<1>4. CASE SkipGc \/ OpenGc \/ OpenGcFails \/ Kill
  BY <1>4, OtherStepsStutter DEF SkipGc, OpenGc, OpenGcFails, Kill, files, wanted
<1> QED
  BY <1>1, <1>2, <1>3, <1>4 DEF DurableDb!Next

\* Removing the copy, or part of it, stutters.
LEMMA RemoveCopyStutters ==
  ASSUME Inv, NEW ok \in BOOLEAN, RemoveAll("gc", ok), UNCHANGED wanted
  PROVE  UNCHANGED <<Recoverable, written>>
<1>1. {"live", "gc", "old"} = Paths BY DEF Paths
<1> QED
  BY <1>1, RemoveAllEffect, OtherStepsStutter DEF Inv, wanted

\* Removing the backup stutters when the live database holds the data.
LEMMA RemoveBackupStutters ==
  ASSUME Inv, NEW ok \in BOOLEAN, RemoveAll("old", ok), UNCHANGED wanted,
         "live" \in present, data["live"] # {}
  PROVE  UNCHANGED <<Recoverable, written>>
<1>1. {"live", "gc", "old"} = Paths BY DEF Paths
<1>2. data'["live"] = data["live"] /\ "live" \in present'
  BY <1>1, RemoveAllEffect DEF Inv
<1> QED
  BY <1>2 DEF Recoverable, Inv, wanted

\* The steps of the copy loop and of closing stutter.
LEMMA CopyAndCloseRefine ==
  ASSUME Inv, CopyNext \/ CloseNext
  PROVE  UNCHANGED <<Recoverable, written>>
<1>1. ASSUME NEW k \in Keys, CopyKey(k) PROVE UNCHANGED <<Recoverable, written>>
  BY <1>1, OtherStepsStutter DEF CopyKey, wanted, Inv, TypeOK, Paths
<1>2. CASE CopyLastBatch
  BY <1>2, OtherStepsStutter DEF CopyLastBatch, wanted, Inv, TypeOK, Paths
<1>3. CASE CloseNew \/ CloseSourceDb
  BY <1>3, OtherStepsStutter DEF CloseNew, CloseSourceDb, files, wanted
<1>4. CASE Abort \/ CloseNewFails \/ CloseSourceFails \/ FinishEmpty
  <2>1. PICK failed \in {0, 1} : RemoveAll("gc", failed = 0)
    BY <1>4 DEF Abort, CloseNewFails, CloseSourceFails, FinishEmpty
  <2>2. UNCHANGED wanted
    BY <1>4 DEF Abort, CloseNewFails, CloseSourceFails, FinishEmpty
  <2> QED
    BY <2>1, <2>2, RemoveCopyStutters
<1> QED
  BY <1>1, <1>2, <1>3, <1>4 DEF CopyNext, CloseNext

\* The rename of the copy brings back deleted keys at most; the other steps
\* of the swap stutter.
LEMMA SwapRefines ==
  ASSUME Inv, SwapNext
  PROVE  [DurableDb!Next]_<<Recoverable, written>>
<1>1. {"live", "gc", "old"} = Paths BY DEF Paths
<1>2. CASE SwapIn
  <2>1. Rename("gc", "live") /\ UNCHANGED wanted BY <1>2 DEF SwapIn
  <2>2. Recoverable = data["old"] /\ Recoverable' = data["gc"]
    BY <1>1, <1>2, <2>1, RenameEffect DEF SwapIn, Recoverable, Inv, StageInv
  <2>3. data["old"] \subseteq data["gc"] /\ data["gc"] \subseteq written
    BY <1>1, <1>2 DEF SwapIn, Inv, StageInv, TypeOK
  <2>4. DurableDb!Reappear
    <3>1. data["gc"] = data["old"] \cup (data["gc"] \ data["old"])
      BY <2>3
    <3>2. data["gc"] \ data["old"] \in SUBSET (written \ data["old"])
      BY <2>3
    <3> QED
      BY <2>1, <2>2, <3>1, <3>2 DEF DurableDb!Reappear, wanted
  <2> QED
    BY <2>4 DEF DurableDb!Next
<1>3. CASE BackUp
  <2>1. Rename("live", "old") /\ UNCHANGED wanted BY <1>3 DEF BackUp
  <2> QED
    BY <1>1, <1>3, <2>1, RenameEffect DEF BackUp, Recoverable, Inv, StageInv, wanted
<1>4. CASE RestoreBackup
  <2>1. Rename("old", "live") /\ UNCHANGED wanted BY <1>4 DEF RestoreBackup
  <2> QED
    BY <1>1, <1>4, <2>1, RenameEffect DEF RestoreBackup, Recoverable, Inv, StageInv, wanted
<1>5. CASE SwapInFails \/ RestoreFails
  BY <1>5, OtherStepsStutter DEF SwapInFails, RestoreFails, files, wanted
<1>6. CASE BackUpFails \/ DiscardCopy
  <2>1. PICK failed \in {0, 1} : RemoveAll("gc", failed = 0)
    BY <1>6 DEF BackUpFails, DiscardCopy
  <2>2. UNCHANGED wanted
    BY <1>6 DEF BackUpFails, DiscardCopy
  <2> QED
    BY <2>1, <2>2, RemoveCopyStutters
<1>7. CASE ClearBackup \/ DropBackup
  <2>1. PICK failed \in {0, 1} : RemoveAll("old", failed = 0)
    BY <1>7 DEF ClearBackup, DropBackup
  <2>2. UNCHANGED wanted /\ "live" \in present /\ data["live"] # {}
    BY <1>7 DEF ClearBackup, DropBackup, Inv, StageInv
  <2> QED
    BY <2>1, <2>2, RemoveBackupStutters
<1> QED
  BY <1>2, <1>3, <1>4, <1>5, <1>6, <1>7 DEF SwapNext

\* The GC pass, with its failures, kills and reruns, implements DurableDb.
THEOREM Refinement == Spec => ImplementsDurableDb
<1>1. Init => DurableDb!Init
  BY KeysAssumption DEF Init, DurableDb!Init, Recoverable, Paths
<1>2. Inv /\ [Next]_vars => [DurableDb!Next]_<<Recoverable, written>>
  <2> SUFFICES ASSUME Inv, [Next]_vars
               PROVE  [DurableDb!Next]_<<Recoverable, written>>
    OBVIOUS
  <2>1. CASE UNCHANGED vars
    BY <2>1 DEF vars, Recoverable
  <2> QED
    BY <2>1, BeforeCopyRefines, CopyAndCloseRefine, SwapRefines DEF Next
<1> QED
  BY <1>1, <1>2, Invariance, PTL DEF Spec, ImplementsDurableDb, DurableDb!Spec
-----------------------------------------------------------------------------
(* What a run that ended, well or not, has done with the keys it found and  *)
(* with its handle.                                                         *)

\* Where the keys of the source are, stage by stage, and that the copy holds
\* them, those of the copy it continues, and no others.
SourceInv ==
  /\ pc = "copy" =>
       /\ data["live"] = source /\ todo \cup batch \subseteq source
       /\ source \ todo \subseteq data["gc"] \cup batch
       /\ stale \subseteq data["gc"] /\ data["gc"] \subseteq source \cup stale
       /\ total = 0 => todo = source
       /\ total # 0 => source # {}
  /\ pc \in {"closenew", "closesource", "empty", "clear", "backup"} =>
       /\ data["live"] = source /\ data["gc"] = source \cup stale
       /\ total = 0 <=> source = {}
       /\ (pc = "empty") => total = 0
       /\ (pc \in {"clear", "backup"}) => total # 0
       /\ "live" \in present
  /\ pc \in {"swap", "restore"} =>
       data["old"] = source /\ data["gc"] = source \cup stale /\ source # {}
  /\ pc = "discard" => data["live"] = source
  /\ pc = "drop" => data["live"] = source \cup stale /\ source # {}

\* How often the handle was closed by then.
ClosesInv ==
  /\ pc \in {"prune", "copy", "closenew", "closesource"} => closes = 0
  /\ pc \in {"empty", "clear", "backup", "swap", "restore", "discard", "drop"} => closes = 1
  /\ HandleClosedOnce

\* A new database has seen no run.
LEMMA OutcomeInit ==
  Init => SourceInv /\ FailedGcKeepsSource /\ CompletedGcExact /\ ClosesInv
  BY DEF Init, SourceInv, FailedGcKeepsSource, CompletedGcExact, ClosesInv, HandleClosedOnce

\* Each step closes the handle only where it is open.
LEMMA ClosesStep ==
  ASSUME Inv, ClosesInv, [Next]_vars
  PROVE  ClosesInv'
<1>0. closes \in Nat
  BY DEF Inv, TypeOK
<1> USE <1>0 DEF ClosesInv, HandleClosedOnce, Goto, Return, CloseSource
<1>1. CASE UNCHANGED vars
  BY <1>1 DEF vars
<1>2. CASE \/ \E k \in Keys : NodeWrite(k) \/ PruneDelete(k)
           \/ NodeCreates \/ OpenDb \/ SkipGc \/ OpenGc \/ OpenGcFails \/ Kill
  <2>1. CASE \/ \E k \in Keys : NodeWrite(k) \/ PruneDelete(k)
             \/ NodeCreates \/ Kill
    BY <2>1 DEF NodeWrite, PruneDelete, NodeCreates, Kill
  <2>2. CASE OpenDb \/ SkipGc \/ OpenGc \/ OpenGcFails
    BY <2>2 DEF OpenDb, SkipGc, OpenGc, OpenGcFails
  <2> QED
    BY <1>2, <2>1, <2>2
<1>3. CASE CopyNext
  <2>1. ASSUME NEW k \in Keys, CopyKey(k) PROVE ClosesInv'
    BY <2>1 DEF CopyKey
  <2>2. CASE CopyLastBatch \/ Abort
    BY <2>2 DEF CopyLastBatch, Abort
  <2> QED
    BY <1>3, <2>1, <2>2 DEF CopyNext
<1>4. CASE CloseNext
  <2>1. CASE CloseNew \/ CloseSourceDb
    BY <2>1 DEF CloseNew, CloseSourceDb
  <2>2. CASE CloseNewFails \/ CloseSourceFails \/ FinishEmpty
    BY <2>2 DEF CloseNewFails, CloseSourceFails, FinishEmpty
  <2> QED
    BY <1>4, <2>1, <2>2 DEF CloseNext
<1>5. CASE SwapNext
  <2>1. CASE ClearBackup \/ BackUp \/ SwapIn \/ SwapInFails \/ RestoreBackup
    BY <2>1 DEF ClearBackup, BackUp, SwapIn, SwapInFails, RestoreBackup
  <2>2. CASE BackUpFails \/ RestoreFails \/ DiscardCopy \/ DropBackup
    BY <2>2 DEF BackUpFails, RestoreFails, DiscardCopy, DropBackup
  <2> QED
    BY <1>5, <2>1, <2>2 DEF SwapNext
<1> QED
  BY <1>1, <1>2, <1>3, <1>4, <1>5 DEF Next

\* gcDB and maybeRunGC close the handle they were given once, on every path.
THEOREM HandleAlwaysClosedOnce == Spec => []HandleClosedOnce
<1>1. Init => ClosesInv
  BY OutcomeInit
<1>2. Inv /\ ClosesInv /\ [Next]_vars => ClosesInv'
  BY ClosesStep
<1>3. ClosesInv => HandleClosedOnce
  BY DEF ClosesInv
<1> QED
  BY <1>1, <1>2, <1>3, Invariance, PTL DEF Spec

\* A failed run leaves its source, a run that succeeds its copy.
OutcomeInv == SourceInv /\ FailedGcKeepsSource /\ CompletedGcExact

\* A run that discards the copy and fails keeps the source, which is still
\* in its place.
LEMMA DiscardKeepsSource ==
  ASSUME Inv, NEW ok \in BOOLEAN, RemoveAll("gc", ok),
         pc' = "rest", "live" \in present, data["live"] = source, UNCHANGED copying,
         ret' = "error" \/ (ret' = "ok" /\ source = {})
  PROVE  OutcomeInv'
<1>1. "gc" \in Paths /\ "live" \in Paths \ {"gc"}
  BY DEF Paths
<1>2. data'["live"] = source /\ "live" \in present' /\ UNCHANGED <<source, stale>>
  BY <1>1, RemoveAllEffect DEF Inv, copying
<1> QED
  BY <1>2 DEF OutcomeInv, SourceInv, FailedGcKeepsSource, CompletedGcExact

\* Steps of the node and of the run before the copy.
LEMMA BeforeCopyOutcome ==
  ASSUME Inv, OutcomeInv,
         \/ \E k \in Keys : NodeWrite(k) \/ PruneDelete(k)
         \/ NodeCreates \/ OpenDb \/ SkipGc \/ OpenGc \/ OpenGcFails \/ Kill
  PROVE  OutcomeInv'
<1> USE DEF OutcomeInv, SourceInv, FailedGcKeepsSource, CompletedGcExact
<1>1. ASSUME NEW k \in Keys, NodeWrite(k) PROVE OutcomeInv'
  BY <1>1 DEF NodeWrite
<1>2. ASSUME NEW k \in Keys, PruneDelete(k) PROVE OutcomeInv'
  BY <1>2 DEF PruneDelete
<1>3. CASE NodeCreates
  BY <1>3 DEF NodeCreates, copying
<1>4. CASE OpenDb
  BY <1>4 DEF OpenDb
<1>5. CASE SkipGc
  BY <1>5 DEF SkipGc, Return
<1>6. CASE OpenGc
  BY <1>6 DEF OpenGc, Goto
<1>7. CASE OpenGcFails
  BY <1>7 DEF OpenGcFails, Return, Inv, StageInv, files
<1>8. CASE Kill
  BY <1>8 DEF Kill, Return
<1> QED
  BY <1>1, <1>2, <1>3, <1>4, <1>5, <1>6, <1>7, <1>8

\* The copy loop adds keys of the source only, and ends with all of them.
LEMMA CopyOutcome ==
  ASSUME Inv, OutcomeInv, CopyNext
  PROVE  OutcomeInv'
<1>0. {"live", "gc", "old"} = Paths /\ data \in [Paths -> SUBSET written] /\ total \in Nat
  BY DEF Paths, Inv, TypeOK
<1>1. ASSUME NEW k \in Keys, CopyKey(k) PROVE OutcomeInv'
  BY <1>0, <1>1 DEF CopyKey, OutcomeInv, SourceInv, FailedGcKeepsSource, CompletedGcExact
<1>2. CASE CopyLastBatch
  BY <1>0, <1>2 DEF CopyLastBatch, Goto, OutcomeInv, SourceInv, FailedGcKeepsSource,
     CompletedGcExact, Inv, StageInv
<1>3. CASE Abort
  <2>1. PICK failed \in {0, 1} : RemoveAll("gc", failed = 0)
    BY <1>3 DEF Abort
  <2>2. pc' = "rest" /\ ret' = "error" /\ UNCHANGED copying
    BY <1>3 DEF Abort, Return
  <2>3. "live" \in present /\ data["live"] = source
    BY <1>3 DEF Abort, Inv, StageInv, OutcomeInv, SourceInv
  <2> QED
    BY <2>1, <2>2, <2>3, DiscardKeepsSource
<1> QED
  BY <1>1, <1>2, <1>3 DEF CopyNext

\* Closing the databases changes neither.
LEMMA CloseOutcome ==
  ASSUME Inv, OutcomeInv, CloseNext
  PROVE  OutcomeInv'
<1>1. CASE CloseNew \/ CloseSourceDb
  BY <1>1 DEF CloseNew, CloseSourceDb, Goto, OutcomeInv, SourceInv, FailedGcKeepsSource,
     CompletedGcExact, files, copying
<1>2. CASE CloseNewFails \/ CloseSourceFails \/ FinishEmpty
  <2>1. PICK failed \in {0, 1} : RemoveAll("gc", failed = 0)
    BY <1>2 DEF CloseNewFails, CloseSourceFails, FinishEmpty
  <2>2. /\ pc' = "rest" /\ UNCHANGED copying
        /\ ret' = "error" \/ (ret' = "ok" /\ pc = "empty")
    BY <1>2 DEF CloseNewFails, CloseSourceFails, FinishEmpty, Return
  <2>3. /\ "live" \in present /\ data["live"] = source
        /\ pc = "empty" => source = {}
    BY <1>2 DEF CloseNewFails, CloseSourceFails, FinishEmpty, OutcomeInv, SourceInv
  <2> QED
    BY <2>1, <2>2, <2>3, DiscardKeepsSource
<1> QED
  BY <1>1, <1>2 DEF CloseNext

\* The swap moves the source to the backup and back, or the copy in place.
LEMMA SwapOutcome ==
  ASSUME Inv, OutcomeInv, SwapNext
  PROVE  OutcomeInv'
<1>0. {"live", "gc", "old"} = Paths
  BY DEF Paths
<1>1. CASE ClearBackup \/ DropBackup
  <2>1. PICK failed \in {0, 1} : RemoveAll("old", failed = 0)
    BY <1>1 DEF ClearBackup, DropBackup
  <2>2. /\ data'["live"] = data["live"] /\ data'["gc"] = data["gc"]
        /\ "live" \in present' <=> "live" \in present
    BY <1>0, <2>1, RemoveAllEffect DEF Inv
  <2> QED
    BY <1>1, <2>2 DEF ClearBackup, DropBackup, Goto, Return, OutcomeInv, SourceInv,
       FailedGcKeepsSource, CompletedGcExact, copying
<1>2. CASE BackUp
  <2>1. Rename("live", "old")
    BY <1>2 DEF BackUp
  <2>2. data'["old"] = data["live"] /\ data'["gc"] = data["gc"]
    BY <1>0, <2>1, RenameEffect DEF Inv
  <2> QED
    BY <1>2, <2>2 DEF BackUp, Goto, OutcomeInv, SourceInv, FailedGcKeepsSource,
       CompletedGcExact, copying
<1>3. CASE SwapIn
  <2>1. Rename("gc", "live")
    BY <1>3 DEF SwapIn
  <2>2. data'["live"] = data["gc"]
    BY <1>0, <2>1, RenameEffect DEF Inv
  <2> QED
    BY <1>3, <2>2 DEF SwapIn, Goto, OutcomeInv, SourceInv, FailedGcKeepsSource,
       CompletedGcExact, copying
<1>4. CASE RestoreBackup
  <2>1. Rename("old", "live")
    BY <1>4 DEF RestoreBackup
  <2>2. data'["live"] = data["old"]
    BY <1>0, <2>1, RenameEffect DEF Inv
  <2> QED
    BY <1>4, <2>2 DEF RestoreBackup, Goto, OutcomeInv, SourceInv, FailedGcKeepsSource,
       CompletedGcExact, copying
<1>5. CASE SwapInFails \/ RestoreFails
  BY <1>5 DEF SwapInFails, RestoreFails, Goto, Return, OutcomeInv, SourceInv,
     FailedGcKeepsSource, CompletedGcExact, Inv, StageInv, files, copying
<1>6. CASE BackUpFails \/ DiscardCopy
  <2>1. PICK failed \in {0, 1} : RemoveAll("gc", failed = 0)
    BY <1>6 DEF BackUpFails, DiscardCopy
  <2>2. pc' = "rest" /\ ret' = "error" /\ UNCHANGED copying
    BY <1>6 DEF BackUpFails, DiscardCopy, Return
  <2>3. "live" \in present /\ data["live"] = source
    BY <1>6 DEF BackUpFails, DiscardCopy, Inv, StageInv, OutcomeInv, SourceInv
  <2> QED
    BY <2>1, <2>2, <2>3, DiscardKeepsSource
<1> QED
  BY <1>1, <1>2, <1>3, <1>4, <1>5, <1>6 DEF SwapNext

\* The outcome of a run is right in every reachable state.
LEMMA OutcomeAlways == Spec => []OutcomeInv
<1>1. Init => OutcomeInv
  BY OutcomeInit DEF OutcomeInv
<1>2. Inv /\ OutcomeInv /\ [Next]_vars => OutcomeInv'
  <2> SUFFICES ASSUME Inv, OutcomeInv, [Next]_vars PROVE OutcomeInv'
    OBVIOUS
  <2>1. CASE UNCHANGED vars
    BY <2>1 DEF vars, OutcomeInv, SourceInv, FailedGcKeepsSource, CompletedGcExact
  <2> QED
    BY <2>1, BeforeCopyOutcome, CopyOutcome, CloseOutcome, SwapOutcome DEF Next
<1> QED
  BY <1>1, <1>2, Invariance, PTL DEF Spec

\* gcDB leaves the database exactly as it was when it reports an error, in
\* its place or, when the rename back failed too, in the backup.
THEOREM FailureKeepsSource == Spec => []FailedGcKeepsSource
<1>1. OutcomeInv => FailedGcKeepsSource
  BY DEF OutcomeInv
<1> QED
  BY <1>1, OutcomeAlways, PTL

\* gcDB that succeeds leaves the keys it found and those of the partial copy
\* it continued, whatever runs before it left behind.
THEOREM SuccessIsExact == Spec => []CompletedGcExact
<1>1. OutcomeInv => CompletedGcExact
  BY DEF OutcomeInv
<1> QED
  BY <1>1, OutcomeAlways, PTL
=============================================================================
