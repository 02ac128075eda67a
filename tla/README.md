# A TLA+ model of cosmos-pruner

cosmos-pruner (`cosmprund`) shrinks the databases of a **stopped** Cosmos node:
it deletes old blocks and states from the CometBFT databases, old versions
from `application.db`, and then copies each database into a compact one. It
works on the only copy of a node's data, it is killed and rerun by operators,
and its deletions cannot be undone. The model asks what may never be lost, what
a failed or killed run leaves behind, and what the next run makes of it.

## 1. Inventory

| Component | State | Operations | Hard parts |
|---|---|---|---|
| block and state pruning (`cmd/generic_chain.go`) | keys by height in `blockstore.db`, `state.db`; `BlockStoreState` | `pruneBlockStore`, `pruneStateStore`, `pruneValidatorHistory`, `deleteHeightRange`, `setBlockStoreBase` | two goroutines; batches that fail or are cut off; heights ordered as strings; unsigned and floating-point arithmetic; validator sets stored as references |
| application pruning (`cmd/pruner.go`) | `application.db`, `application_old.db`, the database of the restore, `snapshots/metadata.db` | `PruneAppState`, `SnapshotAndRestoreApp`, `restoreVerifiedAndSwap`, `verifyAppState` | stores at different versions after an interrupted commit; a restore that hashes differently; a swap by two renames |
| multistore (`internal/rootmulti`) | versions of each IAVL store, commit info, latest version | load, `Commit`, `GetAllVersions`, `PruneStores`, `Snapshot`, `Restore` | the commit is not atomic over the stores |
| GC pass (`gcDB`, `maybeRunGC`) | `<name>.db`, `<name>_gc.db`, `<name>_old.db` | copy in batches, abort, swap, restore the backup | errors and kills at every file operation; leftovers of earlier runs; ownership of the handle |
| orchestration (`Prune`, `cmd/root.go`, `DbState`, `GetFormat`) | handles, error channel, wait groups, owners of the files | start both prunings, collect errors, adopt the handle, GC, `ChownR` | joining goroutines, each handle closed once |
| Sei pruning (`cmd/sei.go`) | `blockstore.db` in another key encoding | `deleteSeiRange` | a dropped write error |
| `basefix` | `BlockStoreState.Base` | set it to the lowest block meta | orphans below the retained blocks |
| analyzer, Celestia protobuf, chain table | none | read-only, generated or data | - |

The parts interact through the databases on disk and in one process only:
`Prune` starts the application pruning and the CometBFT pruning as goroutines on
different databases, waits for both, and runs the GC pass on each of the three
databases if neither failed. Since they share no database, they are modelled
separately; what couples them, handles, errors and the owners of the files, is
`PruneRun`, in which each pruning is reduced to what it does with its handle and to
whether it fails.

What makes each part correct:

- *block and state pruning*: the heights to keep stay complete in both stores;
  no validator set in the kept history refers to a deleted one; the base is
  a height from which all blocks are there; what is to be deleted is deleted,
  up to known orphans; a run ends.
- *GC pass*: no key is lost, whatever fails and whenever the process is killed;
  an incomplete copy never becomes the database; an error leaves the original.
- *application pruning*: the last committed state survives; a verified run that
  reports success has left a database that loads with the same root hashes.
- *orchestration*: each handle is closed once and not used afterwards; no error is
  lost; the files go back to the node's user; the command ends.
- *Sei pruning*: the heights to keep stay complete; a meta does not outlive its
  block; a rerun deletes what failed runs left.
- *`basefix`*: the base it sets is not above a retained block.

`PROJECT.json` lists the hazards by line.

## 2. Modules

| Module | Models |
|---|---|
| `Words` | unsigned subtraction and conversion to a signed number in a given width (operators only) |
| `HeightRange` | heights as keys: order of strings, ranges by number of digits, rounding (operators only) |
| `CometPrune` | `pruneBlockAndStateStore`, a node that commits blocks between runs, and `basefix` |
| `SeiPrune` | `pruneSeiBlockAndStateStore` and a Sei node |
| `DurableDb` | abstract specification: what a database with a GC pass promises |
| `GcSwap` | `gcDB` and `maybeRunGC` on one database, shown to implement `DurableDb` |
| `AppPrune` | the pruning of `application.db` on the multistore, and a node that commits |
| `PruneRun` | the command: `RunE` of `prune`, `Prune`, `DbState`, `ChownR` |
| `WordsProofs`, `HeightRangeProofs`, `CometPruneProofs`, `OrphanProofs`, `SeiPruneProofs`, `GcSwapProofs`, `PruneRunProofs`, `AppPruneProofs` | lemmas and theorems |
| `MCCometPrune`, `MCSeiPrune`, `MCGcSwap`, `MCAppPrune`, `MCPruneRun` | instances for TLC; claims of the documentation that the code does not keep |

### HeightRange and CometPrune

A key `<prefix><height>` is modelled by its height; each prefix has a set of
heights (`blocks`, `stateKeys`, `vals`, `index`). The order of the keys is the
order of strings, computed with `LexLess` from the number of digits; `P:` keys
go on with `:<index>`, which `KeyLess` takes into account. `RangeBatch` is what one
iteration of the digits loop of `deleteHeightRange` deletes: the keys that its
iterator, with its excluded end, visits and that are not above `endHeight`.
`UintMinus`, `ToInt64`, `ToFloat64` and `FloatToUint` are the conversions of the
code with a scaled-down width. `FloatToUint` of a value out of range is a choice
between the results of the two architectures.

`CometPrune` has one action per batch. `bpc` and `spc` say where the two
goroutines are: the stage, the prefix and the digits to go. `LoopNext` is the
control of the loops, with the `break` on an empty batch. Failures
(`BlockStoreFails`, `StateStoreFails`, `ValidatorHistoryFails`) leave nothing
or the part of a batch that a truncated iterator reached; an error of the
validator history is only logged, as in the code. `IndexIteratorStops` is the
iterator error that `deleteAllByPrefix` does not look at, and `FindOlderCutoff` the
checkpoint that `findAnchorCheckpoint` passes over. The deletion of one index is
one batch (the code writes a batch every 1,000,000 entries); when cut off, entries
are visited by height, while the real order is that of hashes.

The node (`SaveBlock`, `ApplyBlock`; external) may be stopped between the two, so
the state may be one height behind the blocks. A validator set that changes is
stored complete (`full`), any other as a reference to the last complete one.
`floor` is a history variable: what all runs so far were told to give up.

`Basefix` is the separate program, run with `--set` by the operator between two runs:
it takes the lowest block meta there is. On a block store with an all-nines orphan
that is the orphan, so `BaseContiguous` is only claimed after a run of the pruner;
what it may never do is to move the base past a retained block (`BaseCoversRetained`).

### SeiPrune

Sei writes heights with `orderedcode`, whose order is that of the numbers, so a range
of keys is a range of heights. One action deletes the range of one key type, since
`deleteSeiRange` writes one batch. Its end is `int64(pruneHeight)`: when
`--keep-blocks` is above the height, `pruneHeight` wraps around, the end is negative
and sorts before the start, and nothing is deleted; in `generic_chain.go` the same
wrap deletes blocks (run `KeepTooMany`). `DropError` stands for the two errors the code
does not look at, of the iterator and of `batch.Write`; an iteration that is cut off is
taken to end between two heights. `dropped` and `lost` are history variables that say
which promises a dropped error voids.

### GcSwap and DurableDb

A database is its set of keys; a path has one or is missing. The copy goes key by
key and batch by batch, and every file operation and close is an action with a
variant that fails. `RemoveAll` that fails may have deleted some of the files.
`Kill` ends the process anywhere; a kill is not a loss of power, so what was
written is there afterwards. The node (external) creates a missing database
but does not work with an empty one while its other databases are not: CometBFT
refuses to start when block store, state and application disagree.

`DurableDb` has three steps: a write, a deletion, and the return of deleted
keys. The last is in the promise because a copy left by a killed pass is taken
up by the next one, although the README speaks of a fresh database. The refinement mapping takes as the
database the live one or, where that is missing or empty, the backup.

### AppPrune

A database is the version in its metadata, the stores in the commit info of
that version, the versions each store holds, and whether its trees are hashed as
the node hashes them. The node commits one store after the other
(`CommitStore`, from `commitStores`) and the metadata last (`FlushMetadata`); it may
stop in between. A run follows `PruneAppState` (`PlanInPlace`,
`PruneStore`, `VerifyInPlace`) or `SnapshotAndRestoreApp` (`CreateSnapshot`, and then
`RestoreVerified` with the swap, or, without verification, `Destroy` and `Refill`).
`AllVersions` is the choice that an iteration over a Go map makes.
External, and modelled from their use: IAVL's `DeleteVersionsTo` refuses to delete
the last version of a store; the snapshot manager refuses a height it already has;
the node refuses a database with another app hash. `snapshots/metadata.db`
outlives the run, so a rerun at the same height fails (`SnapshotFails`).
The GC of `application.db` is the subject of `GcSwap`. The history variable `risk`
records that a run was allowed to lose the committed state: on the legacy path, which
destroys the original first, or by pruning in place after an interrupted commit (run
`InterruptedCommit`). `CommittedStateKept` is about all other behaviours.

### PruneRun

`at` says where each goroutine is: main, the two prunings, the waiter that closes
`errorChan`, and one GC goroutine per database. A handle is a database and who opened
it; `ptr` are the variables of `Prune` and `params.appDB`, which the application pruner
changes while main holds its own copy, `held` the open handles and `closes` the calls
of `Close`. `Send` blocks on a full channel. The strategies of the application pruner
differ in what they do with the handle: `PruneAppState` keeps it,
`restoreVerifiedAndSwap` opens a second database, closes both, swaps the directories
and reopens (`OpenRestore`, `CloseRestore`, `CloseOriginal`, `ReplaceApp`, `ReopenApp`),
the legacy path closes, removes, reopens and refills.

The command runs as root on files of the node's user. `owner` tells whether only
files in a database directory are root's (`mixed`, after it was opened) or the
directory itself (`root`, after a swap): `Stat` looks at the directory of `state.db`
only. `tables` are the databases with a table file, from which `GetFormat` tells the
format; a compacted one may have everything in its journal until it is next opened.
`failed` and `forgotten` are history variables. What a kill during a swap leaves on disk
is `GcSwap`; here a `state.db` that is missing is `StatFails`.

## 3. Runs

Deadlock is not checked: the bounds stop the node and the operator, and the real
system may rest as well.

### Runs that pass

| Run | Bounds | Shows |
|---|---|---|
| `CometPrune` | base 3, heights 4..11, two runs with `--keep-blocks` 1 or 3, one failure or kill, 2 validator sets kept, a change of the set at 6 | `RetainedBlocks`, `RetainedState`, `ValidatorsLoadable`, `BaseContiguous`, `BaseCoversRetained`, `OrphansOnly` |
| `CometPruneLive` | heights 7..9, two runs, one failure | `PruneTerminates` |
| `GcSwap` | three keys, batches of two, three runs, four failures or kills | `NoLoss`, `NeverTruncated`, `FailedGcKeepsSource`, `CompletedGcExact`, `HandleClosedOnce`, `ImplementsDurableDb` |
| `AppPrune` | two stores, four versions, three runs of either strategy, with and without verification, `--keep-versions` 0 to 2, two failures or kills | `CommittedStateKept`, `VerifiedRunLoads`, `FailedRestoreKeepsOriginal` |
| `PruneRun` | two runs with all options and strategies, three failures or kills | `HandlesClosedOnce`, `UsesOpenHandle`, `NoErrorLost`, `OwnersRestored`, `CommandEnds` |
| `SeiPrune` | first height 1 or 4, heights up to 7, words of five bits, three runs with `--keep-blocks` below and above the height, three errors or kills | `RetainedBlocks`, `MetaHasBlock`, `CatchesUp` |

Why the bounds are enough. With base 3 the heights 4..11 have two and three
digits, so the runs meet a change in the number of digits, an all-nines height (8)
and a power of the base (9) within a few blocks; two runs suffice for one to
work on what another left, having pruned further or less far, and one failure for each place to fail. Three keys
and batches of two give a full batch, a last partial one, and a key that is
deleted after it was copied. Three GC runs are needed for a leftover of the first to
survive a failure of the second; four faults allow a failed rename, a failed
rename back and two failed removals. Two stores are the fewest that can be at
different versions. In `PruneRun` three faults let both prunings and an opening, or the
GC of all three databases, fail in one run, or a kill precede two failures in the next;
the second run is the one that finds files of root and databases without a table. In
`SeiPrune` three runs are enough for one that drops an error, one that is cut off and one
that has to catch up with both.

`RetainedBlocks` and `RetainedState` are about `--keep-blocks` up to the height; what
happens beyond is the run `KeepTooMany`. `BaseContiguous` is about runs that keep at
least one block and prune as far as the runs before; the other case is
`OrphanBase`. `OrphansOnly` is about runs without failures and leaves out
`pruneHeight` that is a power of ten: then the range of the most digits is
empty, the loop breaks at once and nothing is deleted. It allows the all-nines heights
and height 0: a node that starts at genesis stores the commit of height 0 with its first
block, and the range of one digit starts at 1, so that key is in no range. The run
starts at height 4 to stay small; that height 0 is the only exception a start at
genesis adds is what the theorem `OnlyOrphansLeft` shows. `OwnersRestored` leaves out what
follows a run that stopped when the directory `state.db` was root's: the next run then
takes root for the owner and gives it everything. `MetaHasBlock` leaves out
the heights below the end of a deletion of metas whose error was dropped, and
`CatchesUp` is about runs that drop none.

Fairness of `CometPrune` (`FairSpec`): weak fairness of the steps of each goroutine and of the
caller that waits for both. The Go scheduler runs every goroutine that is ready,
and no step waits for anything but the database. Nothing is assumed of the node,
of the operator or of failures. `PruneRun` has weak fairness of each goroutine for the
same reason; there steps do wait, for room in the channel, for the channel to be closed
and for the wait groups, and `CommandEnds` says that nobody waits for ever. With an
unbuffered channel it fails: main would send the error of an opening to itself.

### Runs that show a disagreement

Each checks one sentence of the documentation or of a comment.

| Run | What it says | What the code does |
|---|---|---|
| `KeepTooMany` | `--keep-blocks`: number of recent blocks to keep | with more than the height, `pruneHeight` wraps around and blocks are deleted |
| `ValidatorHistory` | the most recent ~1000 validator sets are kept | the newest is found in the order of strings, and after a change in the number of digits too many are kept |
| `OrphanBase` | an all-nines orphan does not become the base | it does if an earlier run kept fewer blocks |
| `KeepVersions` | number of versions to keep | one is kept |
| `InterruptedCommit` | the commit info stays valid | after an interrupted commit its version may be deleted |
| `LeakedStore` | intact roots of the kept stores imply an intact app hash | a store without data leaves the commit info, and with it the hash changes |

Six more sentences are contradicted by one or two statements and have no run: the comment
on `deleteHeightRange` includes the end of the range, which `db.Iterator` excludes
(`RangeBatch`; `OrphansOnly` says what is left); the README says that the base is not
rewritten (`FinishPrune` does) and that the `BH:` index goes up to the retain height
(`PruneBlockHashes` empties it); the comment on the swap says that it never leaves
the path missing, while a kill between the two renames does (`NoLoss` says where the
keys then are); the README says that keys are copied "into a fresh DB", while `gcDB`
reopens a copy that a killed pass left, with keys deleted since (`OpenGc`, and the third
step of `DurableDb`); and the comment on `verifyAppState` says that an error "stops the run
before chown", while `ChownR` is deferred and runs after every `Prune` (`ChownR`).

## 4. Proofs

The theorems hold for every value of the constants: any base, width, set of
heights, keys, batch size, number of runs and failures.

**WordsProofs**: what `UintMinus` and `ToInt64` return where nothing wraps, and that
`int64(LastBlockHeight - keepBlocks)` is the difference, negative or not, when both are
below half of the modulus.

**CometPruneProofs**

- `TypeCorrect`: `TypeOK`, strengthened by `PositiveHeights`: no validator set is
  stored for height 0, so the cutoff below an anchor is a natural number. That
  the loops stay in range needs that `Digits` is between 1 and `MaxDigits`, a lemma
  on cardinalities.
- `RetainedHeightsKept`, `RetainedStateKept`: `RetainedBlocks` and `RetainedState`, under `KeepsFit`: no
  `--keep-blocks` is above the first height, and the heights fit into the width.
  The inductive invariant `RetainInv` adds that `pruneHeight` is never above `floor`,
  that both goroutines delete up to `pruneHeight` and no further, and how `first`,
  `applied` and `height` are related. The lemma on `RangeBatch` says all that is
  needed of the order of strings: nothing above the end is in a batch.
- `RecentValidatorsLoadable`: `ValidatorsLoadable`, without `KeepsFit`. The cutoff comes
  from the last key as a string, of which only one thing is known: it is some height in
  `vals`, and so at most `applied + 2`. `ValidatorInv` says that there is always
  an anchor (`Anchored`): a complete set with every height from it on, old enough
  for all heights to be kept to lie above it; and that a deletion in progress ends just
  below a complete set that is old enough to become the anchor. That a height refers to
  a set at or above the anchor then follows.
- `BaseKeepsRetained`: `BaseCoversRetained` under `KeepsFit`, and `BaseStartsRetained`:
  `BaseContiguous` if moreover the heights fit into a signed word (`HeightsSigned`), as
  `setBlockStoreBase` takes an `int64`. `BaseInv` adds that all metas are of stored
  blocks, that a run works with the height it started from, and that no goroutine
  outlives its run. A scan from `pruneHeight + 1` upward finds the first retained
  block, which `RetainInv` says is there; `Basefix` takes the lowest meta, and the
  retained heights have theirs.

**HeightRangeProofs**: the arithmetic of the ranges. `Pow10` is shown to be the function its
recursion says (`Pow10Def`, from functions that hold the first `n` powers), to be
increasing and to multiply; `Digits(n) = d` iff `n` lies between two powers
(`DigitsAre`, `DigitsBound`). Induction is over sets: `SetInduction` takes the set of numbers with
the property and rests on a least element outside it. Then the order of keys as strings: equal
digits compare as numbers (`SameDigitsOrder`), a power of the base comes before every range
of more digits (`PowerBeforeRange`), and a two-part key of fewer digits is in the range of more
(`ShorterInRange`). `RangeEndsExact`: for an `ExactHeight` the ranges are as without floats.

**OrphanProofs**

- `OnlyOrphansLeft`: `OrphansOnly` under `HeightsFit`: `KeepsFit`, and float64 is exact for
  `MaxHeight` (2^53 in the code, no chain is near). What has to be excluded is that the
  `break` at an empty batch leaves shorter heights behind. `Solid` says why it does not: but for
  orphans a store holds all heights from some height on. `Digging` is the invariant of the loop
  over the digits: what is left below `pruneHeight` has at most `d` digits, and if it has fewer
  there is a key with `d` digits left too (the power of the base, which no earlier
  range contained) or it is a two-part key and in the batch itself. So an empty batch
  means that nothing is left (`StepProgress`). `OrphanInv` states it for each prefix by
  the position of its goroutine. After a failure or a kill `Solid` is false, and
  so is the conclusion, which is why `OrphansOnly` has `faults = 0`.

**SeiPruneProofs**

- `SeiTypeCorrect`: `TypeOK`.
- `SeiMetaHasBlock`: `MetaHasBlock`, for all options. `MetaInv` says that while parts or
  commits are deleted no meta below the end of the range is left but those an earlier
  dropped error accounts for: metas go first, which is why the order matters.
- `SeiRetainedKept`, `SeiCatchesUp`: `RetainedBlocks` and `CatchesUp` under `SeiFit`: heights
  and `--keep-blocks` are below half of the modulus, as for any chain that exists. No
  bound of `--keep-blocks` by the height is needed. `SeiInv` says that the end of the range is
  at most `floor`, and that the key types the loop has passed have nothing below the
  end unless an error was dropped.

**GcSwapProofs**

- `GcTypeCorrect`, `GcLosesNothing`, `NoTruncatedDb`: `TypeOK`, `NoLoss` and
  `NeverTruncated`. They are not inductive: `StageInv` says what each stage knows, that
  the keys visited are in the copy or in the batch, that from the closing on the copy has
  all keys of the source, and which paths hold the keys between the renames. `Inv` adds
  that the live database is empty or complete, and that `Meta` is never pruned, which
  tells the two apart.
- `HandleAlwaysClosedOnce`, `FailureKeepsSource`, `SuccessIsExact`: `HandleClosedOnce`,
  `FailedGcKeepsSource` and `CompletedGcExact`. `ClosesInv` counts the closes by stage,
  `SourceInv` says where the source is while a pass goes on, `OutcomeInv` what is left when
  it has ended.
- `Refinement`: every step of `GcSwap` is a step of `DurableDb` or leaves the
  recoverable database as it is.

**PruneRunProofs**, for any number of runs, failures and kills

- `RunTypeCorrect`: `TypeOK`, that the channel never holds more than its capacity
  included.
- `HandlesAlwaysClosedOnce`, `HandlesOpenWhenUsed`: `HandlesClosedOnce` and
  `UsesOpenHandle`. `HandleInv` is the invariant: which goroutines there are at each stage
  of main (`GoInv`), what the variables of `Prune` hold (`PtrInv`), that the open handles
  are those somebody has (`HeldInv`), and that an open handle, or one still to be
  opened, was not closed (`ClosesInv`). The handle of `application.db` is the application pruner's
  until main adopts it (`AppHandle`), which is why the variable of main may be stale
  meanwhile.
- `ErrorsAlwaysReported`: `NoErrorLost`. `ErrInv` says that what failed is what was
  received, is in the channel, or is about to be sent.
- `OwnersAlwaysRestored`: `OwnersRestored`. `OwnerInv` says that a run knows the node as
  the owner, and that between runs the directory of `state.db` shows it.

**AppPruneProofs**, from the assumptions on the constants alone: the stores are a finite
nonempty set, and the options are of their types

- `AppTypeCorrect`: `TypeOK`. `Types` adds that a run works with a version the node has
  committed and with mounted stores. The target of a pruning in place is a version because
  the first version to keep is the greatest whatever `--keep-versions` says
  (`FirstKeptLast`, `PlanTarget`), by lemmas on the order and the number of the versions.
- `VerifiedRunsLoad`, `FailuresKeepOriginal`: `VerifiedRunLoads` and
  `FailedRestoreKeepsOriginal`. `StageInv` says what each stage of a run knows: until the swap
  the live database is the original, from the closing on the copy is the restore and
  has passed the verification, and between the renames the original is the backup. With it
  `OutcomeInv`, the two properties together, is inductive.
- `CommittedStateAlwaysKept`: `CommittedStateKept`. `KeptInv` adds that the committed state is
  also in `original` while a run works, that a run in place started with no store
  ahead of the metadata, and that its target is below the committed version, so
  that `DeleteVersionsTo` leaves that version in each store (`Left`). Both are false
  after an interrupted commit or on the legacy path, which is what `risk` records.

Only model-checked: liveness (`PruneTerminates`, `CommandEnds`), which the prover does not
cover. Every invariant that a passing run checks is a theorem.

## 5. Not modelled

- The analyzer and the reports of `DbState`: they change nothing. Of the format detection
  only whether there is a file to tell the format from; the magic numbers are data.
- The table of chains: each strategy in it is covered, whatever the chain.
- Protobuf encodings, and the contents of blocks and trees: no property tells them
  apart.
- Of the multistore: queries, proofs, caches, tracing, listeners, store upgrades,
  `RollbackToVersion`. The pruner does not call them.
- Loss of power: what the databases have written but not synced.

## 6. Plan

1. Done: `HeightRange`, `CometPrune`, `GcSwap` with `DurableDb`, `AppPrune`, `PruneRun`,
   `SeiPrune`, `basefix`; proofs of every invariant and of the refinement.
2. Left: an abstract specification of `AppPrune` in the manner of `DurableDb`, and of
   what a rerun after a failure deletes (`OrphansOnly` says nothing of it).
