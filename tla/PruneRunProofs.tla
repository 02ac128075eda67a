--------------------------- MODULE PruneRunProofs ---------------------------
(***************************************************************************)
(* For any number of runs, failures and kills, and any interleaving of the *)
(* goroutines of a run: no handle is closed twice or used after it was     *)
(* closed, and none but that of the snapshot metadata is left open; every  *)
(* error is reported; and the files go back to their owner.                *)
(***************************************************************************)
EXTENDS PruneRun, TLAPS

\* Stages of main: while it reads the state, while the prunings may run, and
\* after they have ended.
Early == {"info", "infoblock", "infoclose"}
Opening == {"openapp", "opensnap"}
Late == {"opencomet", "openblock", "send", "startwaiter", "drain"}
Ending == {"gc", "gcwait", "return", "chown"}

\* Which goroutines there are at each stage of main.
GoInv ==
  /\ at["main"] \in {"none"} \cup Early \cup Opening \cup Late \cup Ending
  /\ at["main"] \in {"none"} \cup Early \cup Opening =>
       \A g \in Goroutines \ {"main"} : at[g] = "none"
  /\ at["main"] \in Opening => opts.app
  /\ at["main"] \in {"opencomet", "openblock", "send"} =>
       at["comet"] = "none" /\ at["waiter"] = "none"
  /\ at["main"] = "startwaiter" => at["waiter"] = "none"
  /\ at["main"] \in Late => (opts.app <=> at["app"] # "none")
  /\ at["main"] \in Late \cup {"gc"} => \A d \in Dbs : at[d] = "none"
  /\ at["main"] \in Ending => at["app"] \in {"none", "done"} /\ at["comet"] \in {"none", "done"}
  /\ at["comet"] \in {"none", "run", "send", "done"}
  /\ at["waiter"] = "done" =>
       at["app"] \in {"none", "done"} /\ at["comet"] \in {"none", "done"}
  /\ at["main"] \notin {"none"} =>
       (closed => at["waiter"] = "done" /\ at["main"] \in {"drain"} \cup Ending)

\* The handle of application.db that is in use: until main adopts it, the
\* application pruner has it.
AppHandle ==
  IF at["main"] \in Late /\ at["app"] # "none" THEN ptr["params"] ELSE ptr["application"]

\* Who has the open handles, from the opening on.
Owned ==
  ({ptr["state"], ptr["blockstore"], AppHandle} \ {Nil})
    \cup {gcDb[d] : d \in {e \in Dbs : at[e] = "run"}}
    \cup (IF at["app"] = "restore" THEN {Restore} ELSE {})

\* What the variables of Prune hold.
PtrInv ==
  /\ ptr["state"] \in {Nil, Opened("state")}
  /\ ptr["blockstore"] \in {Nil, Opened("blockstore")}
  /\ {ptr["application"], ptr["params"]} \subseteq {Nil, Opened("application"), Reopened}
  /\ at["main"] \in Early \cup {"openapp"} => \A v \in Variables : ptr[v] = Nil
  /\ at["main"] = "opensnap" => ptr["application"] = Opened("application")
  /\ at["main"] \in {"opensnap", "opencomet"} => ptr["state"] = Nil
  /\ at["main"] \in {"opensnap", "opencomet", "openblock"} => ptr["blockstore"] = Nil
  /\ at["main"] = "openblock" => ptr["state"] = Opened("state")
  /\ at["comet"] = "run" =>
       ptr["state"] = Opened("state") /\ ptr["blockstore"] = Opened("blockstore")
  /\ at["main"] \in Late =>
       /\ at["app"] = "none" => ptr["application"] = Nil
       /\ at["app"] \in {"run", "restore", "closeapp"} => ptr["params"] = Opened("application")
       /\ at["app"] \in {"replace", "reopen"} => ptr["params"] = Nil
       /\ at["app"] = "refill" => ptr["params"] = Reopened
  /\ \A d \in Dbs : at[d] = "run" =>
       /\ at["main"] = "gcwait" /\ ptr[d] = Nil
       /\ gcDb[d] \in Handles /\ gcDb[d] # Restore /\ gcDb[d][1] = d

\* Which handles are open.
HeldInv ==
  /\ at["main"] = "none" => held = {}
  /\ at["main"] = "info" => held = {}
  /\ at["main"] = "infoblock" => held = {Info("state")}
  /\ at["main"] = "infoclose" => held \subseteq {Info("state"), Info("blockstore")}
  /\ at["main"] \in (Opening \cup Late \cup Ending) \ {"chown"} =>
       held \ {Opened("snapshots")} = Owned
  /\ at["main"] = "chown" => held \subseteq {Opened("snapshots")}

\* How often each was closed: an open one never, and neither one that is
\* still to be opened.
ClosesInv ==
  /\ \A h \in Handles : closes[h] <= 1 /\ (h \in held => closes[h] = 0)
  /\ at["main"] \in Early => \A h \in Handles : closes[h] = 0
  /\ at["main"] \in Opening =>
       \A h \in Handles \ {Info("state"), Info("blockstore")} : closes[h] = 0
  /\ at["main"] # "none" => closes[Opened("snapshots")] = 0
  /\ at["main"] = "opencomet" => closes[Opened("state")] = 0
  /\ at["main"] \in {"opencomet", "openblock"} => closes[Opened("blockstore")] = 0
  /\ at["main"] \in Late =>
       /\ at["app"] \in {"none", "run"} => closes[Restore] = 0
       /\ at["app"] \in {"none", "run", "restore", "closeapp", "replace", "reopen"} =>
            closes[Reopened] = 0

\* The inductive invariant.
HandleInv == GoInv /\ PtrInv /\ HeldInv /\ ClosesInv

-----------------------------------------------------------------------------
(* Types. *)

\* The handles have names of their own, and name their database.
LEMMA HandleNames ==
  /\ {Info("state"), Info("blockstore"), Reopened, Restore} \subseteq Handles
  /\ \A d \in {"state", "blockstore", "application", "snapshots"} : Opened(d) \in Handles
  /\ Nil \notin Handles
  BY DEF Handles, Info, Opened, Reopened, Restore, Nil, Dbs

\* What may fail.
Errors == {"info", "open", "app", "comet", "gc"}

\* The parts of TypeOK.
HandleType ==
  /\ ptr \in [Variables -> Handles \cup {Nil}] /\ gcDb \in [Dbs -> Handles \cup {Nil}]
  /\ held \subseteq Handles /\ closes \in [Handles -> Nat]
ChannelType ==
  /\ errorChan \in Seq({"open", "app", "comet"}) /\ Len(errorChan) <= 2
  /\ closed \in BOOLEAN
ErrorType == errs \subseteq Errors /\ failed \subseteq Errors
PlaceType ==
  at \in [Goroutines -> {"none", "info", "infoblock", "infoclose", "openapp",
             "opensnap", "opencomet", "openblock", "send", "startwaiter", "drain", "gc",
             "gcwait", "return", "chown", "run", "restore", "closeapp", "replace",
             "reopen", "refill", "wait", "done", "failed"}]
DiskType ==
  /\ owner \in [Dbs -> {"node", "mixed", "root"}] /\ tables \subseteq Dbs
  /\ uid \in {"node", "root"} /\ forgotten \in BOOLEAN
RunType ==
  /\ snapshotted \in BOOLEAN /\ chownErr \in BOOLEAN
  /\ opts \in [comet : BOOLEAN, app : BOOLEAN, gc : BOOLEAN, strategy : Strategies \cup {"none"}]
  /\ result \in {"none", "nostat", "ok", "error", "killed"}
  /\ runs \in Nat /\ faults \in Nat
Types == HandleType /\ ChannelType /\ ErrorType /\ PlaceType /\ DiskType /\ RunType

\* They are TypeOK.
LEMMA TypesAreTypeOK == Types => TypeOK
<1> SUFFICES ASSUME Types PROVE TypeOK
  OBVIOUS
<1>1. {closed, snapshotted, forgotten, chownErr} \subseteq BOOLEAN
  BY Zenon DEF Types, ChannelType, DiskType, RunType
<1>2. {errs, failed} \subseteq SUBSET {"info", "open", "app", "comet", "gc"}
  BY DEF Types, ErrorType, Errors
<1> QED
  BY <1>1, <1>2 DEF Types, HandleType, ChannelType, PlaceType, DiskType, RunType, TypeOK

\* They hold of the first state.
LEMMA TypesInit == Init => Types
<1> SUFFICES ASSUME Init PROVE Types
  OBVIOUS
<1>1. HandleType /\ PlaceType
  BY DEF Init, HandleType, PlaceType
<1>2. ChannelType /\ ErrorType
  <2>1. closed \in BOOLEAN
    BY Zenon DEF Init
  <2>2. <<>> \in Seq({"open", "app", "comet"}) /\ Len(<<>>) = 0
    OBVIOUS
  <2> QED
    BY <2>1, <2>2 DEF Init, ChannelType, ErrorType
<1>3. DiskType
  BY DEF Init, DiskType
<1>4. RunType
  BY DEF Init, RunType
<1> QED
  BY <1>1, <1>2, <1>3, <1>4 DEF Types

\* Opening and closing keep the types of the handles.
LEMMA OpenTypes ==
  ASSUME Types, NEW h \in Handles, Open(h), UNCHANGED <<ptr, gcDb, closes, uid>>
  PROVE  HandleType' /\ DiskType'
  BY DEF Types, HandleType, DiskType, Open

\* See OpenTypes.
LEMMA CloseTypes ==
  ASSUME Types, NEW hs, Close(hs), UNCHANGED <<ptr, gcDb>>
  PROVE  HandleType'
<1>1. held' \subseteq Handles
  BY DEF Types, HandleType, Close
<1>2. closes' \in [Handles -> Nat]
  BY DEF Types, HandleType, Close
<1> QED
  BY <1>1, <1>2 DEF Types, HandleType

\* A send and a receive keep those of the channel.
LEMMA SendTypes ==
  ASSUME Types, NEW e \in {"open", "app", "comet"}, Send(e)
  PROVE  ChannelType' /\ errs' = errs
<1>1. errorChan \in Seq({"open", "app", "comet"}) /\ Len(errorChan) <= 1
  BY DEF Types, ChannelType, Send, ChanCap
<1> QED
  BY <1>1 DEF Types, ChannelType, Send

\* The steps of main keep the types.
LEMMA TypesMain ==
  ASSUME Types, MainNext
  PROVE  Types'
<1>0. {"main", "app", "comet", "waiter", "state", "blockstore", "application"} = Goroutines
  BY DEF Goroutines, Dbs
<1> USE HandleNames, <1>0 DEF Types, PlaceType, ErrorType, ChannelType, RunType, DiskType,
    Errors, Step, Fault, Fail, handles, channel, run, disk, outcome
<1>1. CASE OpenInfo
  BY <1>1, OpenTypes DEF OpenInfo
<1>2. CASE OpenInfoFails
  BY <1>2 DEF OpenInfoFails, MainFails, HandleType
<1>3. CASE OpenEarliest
  <2>1. CASE Open(Info("blockstore"))
    BY <1>3, <2>1, OpenTypes DEF OpenEarliest
  <2>2. CASE UNCHANGED <<held, disk>>
    BY <1>3, <2>2 DEF OpenEarliest, HandleType
  <2> QED
    BY <1>3, <2>1, <2>2 DEF OpenEarliest
<1>4. CASE CloseInfo
  BY <1>4, CloseTypes DEF CloseInfo
<1>5. CASE ReadInfoFails
  <2>1. HandleType' /\ errs' \subseteq Errors
    BY <1>5, CloseTypes DEF ReadInfoFails, MainFails
  <2>2. CASE MainFails("infoblock", "info")
    BY <1>5, <2>1, <2>2 DEF ReadInfoFails, MainFails
  <2>3. CASE MainFails("infoclose", "info")
    BY <1>5, <2>1, <2>3 DEF ReadInfoFails, MainFails
  <2> QED
    BY <1>5, <2>2, <2>3 DEF ReadInfoFails
<1>6. CASE OpenApp
  <2>1. HandleType'
    BY <1>6 DEF OpenApp, Open, HandleType, Variables
  <2>2. DiskType'
    BY <1>6 DEF OpenApp, Open
  <2>3. PlaceType'
    BY <1>6 DEF OpenApp
  <2> QED
    BY <1>6, <2>1, <2>2, <2>3 DEF OpenApp
<1>7. CASE OpenSnapshots
  <2>1. HandleType'
    BY <1>7 DEF OpenSnapshots, Open, HandleType, Variables
  <2>2. DiskType'
    BY <1>7 DEF OpenSnapshots, Open
  <2>3. PlaceType'
    BY <1>7 DEF OpenSnapshots
  <2> QED
    BY <1>7, <2>1, <2>2, <2>3 DEF OpenSnapshots
<1>8. CASE OpenAppFails
  <2>1. CASE MainFails("openapp", "open")
    BY <1>8, <2>1 DEF OpenAppFails, MainFails, HandleType
  <2>2. CASE MainFails("opensnap", "open")
    BY <1>8, <2>2 DEF OpenAppFails, MainFails, HandleType
  <2> QED
    BY <1>8, <2>1, <2>2 DEF OpenAppFails
<1>9. CASE SkipComet
  BY <1>9 DEF SkipComet, HandleType
<1>10. CASE OpenState
  <2>1. HandleType'
    BY <1>10 DEF OpenState, Open, HandleType, Variables
  <2>2. DiskType'
    BY <1>10 DEF OpenState, Open
  <2>3. PlaceType'
    BY <1>10 DEF OpenState
  <2> QED
    BY <1>10, <2>1, <2>2, <2>3 DEF OpenState
<1>11. CASE OpenBlockStore
  <2>1. HandleType'
    BY <1>11 DEF OpenBlockStore, Open, HandleType, Variables
  <2>2. DiskType'
    BY <1>11 DEF OpenBlockStore, Open
  <2>3. PlaceType'
    BY <1>11 DEF OpenBlockStore
  <2> QED
    BY <1>11, <2>1, <2>2, <2>3 DEF OpenBlockStore
<1>12. CASE OpenCometFails
  BY <1>12 DEF OpenCometFails, HandleType
<1>13. CASE SendOpenError
  <2>1. ChannelType' /\ errs' = errs
    BY <1>13, SendTypes DEF SendOpenError
  <2>2. PlaceType'
    BY <1>13 DEF SendOpenError
  <2> QED
    BY <1>13, <2>1, <2>2 DEF SendOpenError, HandleType
<1>14. CASE StartWaiter
  <2>1. PlaceType'
    BY <1>14 DEF StartWaiter
  <2> QED
    BY <1>14, <2>1 DEF StartWaiter, HandleType
<1>15. CASE ReceiveError
  <2>1. /\ Head(errorChan) \in {"open", "app", "comet"}
        /\ Tail(errorChan) \in Seq({"open", "app", "comet"}) /\ Len(Tail(errorChan)) <= 2
    BY <1>15 DEF ReceiveError
  <2>2. ChannelType' /\ ErrorType'
    BY <1>15, <2>1 DEF ReceiveError
  <2> QED
    BY <1>15, <2>2 DEF ReceiveError, HandleType
<1>16. CASE Adopt
  <2>1. HandleType'
    BY <1>16 DEF Adopt, HandleType, Variables
  <2>2. PlaceType'
    BY <1>16 DEF Adopt, AfterDrain
  <2> QED
    BY <1>16, <2>1, <2>2 DEF Adopt
<1>17. CASE StartGc
  BY <1>17 DEF StartGc, GcDbs, HandleType, Variables
<1>18. CASE WaitGc
  <2>1. ErrorType' /\ PlaceType'
    BY <1>18 DEF WaitGc
  <2> QED
    BY <1>18, <2>1 DEF WaitGc, HandleType
<1>19. CASE ClosePrune
  BY <1>19, CloseTypes DEF ClosePrune
<1>20. CASE ChownR
  BY <1>20 DEF ChownR, ReturnFromMain, HandleType
<1>21. CASE ChownRFails
  BY <1>21 DEF ChownRFails, ReturnFromMain, HandleType
<1> QED
  BY <1>1, <1>2, <1>3, <1>4, <1>5, <1>6, <1>7, <1>8, <1>9, <1>10, <1>11, <1>12,
     <1>13, <1>14, <1>15, <1>16, <1>17, <1>18, <1>19, <1>20, <1>21 DEF MainNext

\* A step that fails, or not, keeps those of the errors.
LEMMA FailTypes ==
  ASSUME Types, NEW what \in Errors, UNCHANGED <<failed, faults>> \/ (Fail(what) /\ Fault)
  PROVE  failed' \subseteq Errors /\ faults' \in Nat
<1>1. failed \subseteq Errors /\ faults \in Nat
  BY DEF Types, ErrorType, RunType
<1> QED
  BY <1>1 DEF Fail, Fault

\* So do those of the prunings and of the GC goroutines ...
LEMMA TypesGoroutines ==
  ASSUME Types, AppNext \/ CometNext \/ CloseChannel \/ \E d \in Dbs : GcNext(d)
  PROVE  Types'
<1>a. {"app", "comet", "gc"} \subseteq Errors
  BY DEF Errors
<1>0. {"main", "app", "comet", "waiter"} \cup Dbs = Goroutines
  BY DEF Goroutines
<1> USE HandleNames, <1>a, <1>0 DEF Types, PlaceType, ErrorType, ChannelType, RunType, DiskType,
    Step, handles, channel, run, disk, outcome
<1>1. CASE PruneAppReturns
  <2>2. PlaceType'
    BY <1>1 DEF PruneAppReturns
  <2>3. failed' \subseteq Errors /\ faults' \in Nat
    <3>1. UNCHANGED <<failed, faults>> \/ (Fail("app") /\ Fault)
      BY <1>1 DEF PruneAppReturns
    <3> QED
      BY <3>1, FailTypes
  <2> QED
    BY <1>1, <2>2, <2>3 DEF PruneAppReturns, HandleType
<1>2. CASE OpenRestore
  BY <1>2 DEF OpenRestore, HandleType
<1>3. CASE CloseRestore
  <2>1. HandleType'
    BY <1>3, CloseTypes DEF CloseRestore
  <2>2. PlaceType'
    BY <1>3 DEF CloseRestore
  <2>3. failed' \subseteq Errors /\ faults' \in Nat
    <3>1. UNCHANGED <<failed, faults>> \/ (Fail("app") /\ Fault)
      BY <1>3 DEF CloseRestore
    <3> QED
      BY <3>1, FailTypes
  <2> QED
    BY <1>3, <2>1, <2>2, <2>3 DEF CloseRestore
<1>4. CASE CloseOriginal
  <2>1. HandleType'
    BY <1>4 DEF CloseOriginal, Close, HandleType, Variables
  <2>2. PlaceType'
    BY <1>4 DEF CloseOriginal
  <2>3. failed' \subseteq Errors /\ faults' \in Nat
    <3>1. UNCHANGED <<failed, faults>> \/ (Fail("app") /\ Fault)
      BY <1>4 DEF CloseOriginal
    <3> QED
      BY <3>1, FailTypes
  <2> QED
    BY <1>4, <2>1, <2>2, <2>3 DEF CloseOriginal
<1>5. CASE ReplaceApp
  <2>1. DiskType'
    BY <1>5 DEF ReplaceApp, Dbs
  <2>2. PlaceType'
    BY <1>5 DEF ReplaceApp
  <2>3. failed' \subseteq Errors /\ faults' \in Nat
    <3>1. UNCHANGED <<failed, faults>> \/ (Fail("app") /\ Fault)
      BY <1>5 DEF ReplaceApp
    <3> QED
      BY <3>1, FailTypes
  <2> QED
    BY <1>5, <2>1, <2>2, <2>3 DEF ReplaceApp, HandleType
<1>6. CASE ReopenApp
  <2>1. HandleType' /\ DiskType'
    BY <1>6 DEF ReopenApp, Open, HandleType, Variables
  <2>2. snapshotted' \in BOOLEAN
    BY <1>6, Zenon DEF ReopenApp
  <2> QED
    BY <1>6, <2>1, <2>2 DEF ReopenApp
<1>7. CASE ReopenAppFails
  BY <1>7, FailTypes DEF ReopenAppFails, HandleType
<1>8. CASE RefillApp
  <2>2. PlaceType'
    BY <1>8 DEF RefillApp
  <2>3. failed' \subseteq Errors /\ faults' \in Nat
    <3>1. UNCHANGED <<failed, faults>> \/ (Fail("app") /\ Fault)
      BY <1>8 DEF RefillApp
    <3> QED
      BY <3>1, FailTypes
  <2>4. snapshotted' \in BOOLEAN
    BY <1>8 DEF RefillApp
  <2> QED
    BY <1>8, <2>2, <2>3, <2>4 DEF RefillApp, HandleType
<1>9. CASE SendAppError
  BY <1>9, SendTypes DEF SendAppError, HandleType
<1>10. CASE PruneCometReturns
  <2>2. PlaceType'
    BY <1>10 DEF PruneCometReturns
  <2>3. failed' \subseteq Errors /\ faults' \in Nat
    <3>1. UNCHANGED <<failed, faults>> \/ (Fail("comet") /\ Fault)
      BY <1>10 DEF PruneCometReturns
    <3> QED
      BY <3>1, FailTypes
  <2> QED
    BY <1>10, <2>2, <2>3 DEF PruneCometReturns, HandleType
<1>11. CASE SendCometError
  <2>1. ChannelType' /\ errs' = errs
    BY <1>11, SendTypes DEF SendCometError
  <2>2. PlaceType'
    BY <1>11 DEF SendCometError
  <2> QED
    BY <1>11, <2>1, <2>2 DEF SendCometError, HandleType
<1>12. CASE CloseChannel
  BY <1>12 DEF CloseChannel, HandleType
<1>13. ASSUME NEW d \in Dbs, SkipGc(d) PROVE Types'
  BY <1>13, CloseTypes DEF SkipGc
<1>14. ASSUME NEW d \in Dbs, CopyGc(d) PROVE Types'
  <2>1. HandleType'
    BY <1>14, CloseTypes DEF CopyGc
  <2> QED
    BY <1>14, <2>1 DEF CopyGc
<1>15. ASSUME NEW d \in Dbs, FailGc(d) PROVE Types'
  <2>1. HandleType'
    BY <1>15, CloseTypes DEF FailGc
  <2> QED
    BY <1>15, <2>1, FailTypes DEF FailGc
<1> QED
  BY <1>1, <1>2, <1>3, <1>4, <1>5, <1>6, <1>7, <1>8, <1>9, <1>10, <1>11, <1>12,
     <1>13, <1>14, <1>15 DEF AppNext, CometNext, GcNext

\* ... and the start and the end of a run.
LEMMA TypesRest ==
  ASSUME Types, NodeRuns \/ StartCommand \/ StatFails \/ Kill
  PROVE  Types'
<1> USE DEF Types, PlaceType, ErrorType, RunType, DiskType,
    Step, Fault, handles, channel, run, disk, outcome
<1>1. CASE NodeRuns
  BY <1>1 DEF NodeRuns, HandleType, ChannelType
<1>2. CASE StartCommand \/ StatFails
  <2>1. NewRun
    BY <1>2 DEF StartCommand, StatFails
  <2>2. HandleType'
    BY <2>1 DEF NewRun, HandleType
  <2>3. <<>> \in Seq({"open", "app", "comet"}) /\ Len(<<>>) = 0
    OBVIOUS
  <2>4. closed' \in BOOLEAN /\ snapshotted' \in BOOLEAN /\ chownErr' \in BOOLEAN
    BY <2>1, Zenon DEF NewRun
  <2>5. ChannelType' /\ ErrorType'
    BY <2>1, <2>3, <2>4 DEF NewRun, ChannelType
  <2>6. PlaceType' /\ result' \in {"none", "nostat"} /\ faults' \in Nat
    <3>1. CASE StartCommand
      BY <3>1 DEF StartCommand, Goroutines
    <3>2. CASE StatFails
      BY <3>2 DEF StatFails
    <3> QED
      BY <1>2, <3>1, <3>2
  <2>8. DiskType'
    BY <1>2, <2>1 DEF StartCommand, StatFails, NewRun, Stat
  <2>7. runs' \in Nat /\ opts' \in [comet : BOOLEAN, app : BOOLEAN, gc : BOOLEAN,
                                     strategy : Strategies \cup {"none"}]
    BY <2>1 DEF NewRun
  <2> QED
    BY <2>2, <2>4, <2>5, <2>6, <2>7, <2>8
<1>3. CASE Kill
  <2>1. DiskType'
    BY <1>3 DEF Kill
  <2> QED
    BY <1>3, <2>1 DEF Kill, HandleType, ChannelType
<1> QED
  BY <1>1, <1>2, <1>3

\* Every variable keeps its type, for any number of runs, failures and kills.
LEMMA TypesAlways == Spec => []Types
<1>1. Types /\ [Next]_vars => Types'
  <2> SUFFICES ASSUME Types, [Next]_vars PROVE Types'
    OBVIOUS
  <2>1. CASE UNCHANGED vars
    BY <2>1 DEF vars, handles, channel, run, disk, outcome, Types, HandleType, ChannelType,
       ErrorType, PlaceType, DiskType, RunType
  <2> QED
    BY <2>1, TypesMain, TypesGoroutines, TypesRest DEF Next
<1> QED
  BY <1>1, TypesInit, PTL DEF Spec

\* Every variable of the command keeps its type, and the channel its
\* capacity, for any number of runs, failures and kills.
THEOREM RunTypeCorrect == Spec => []TypeOK
  BY TypesAlways, TypesAreTypeOK, PTL

-----------------------------------------------------------------------------
(* Which goroutines there are. *)

\* The goroutines are different ones.
LEMMA GoroutineNames ==
  /\ Dbs = {"state", "blockstore", "application"}
  /\ Goroutines = {"main", "app", "comet", "waiter", "state", "blockstore", "application"}
  BY DEF Goroutines, Dbs

\* The steps of main keep what is known of the goroutines.
LEMMA GoMain ==
  ASSUME Types, GoInv, MainNext
  PROVE  GoInv'
<1> USE GoroutineNames DEF GoInv, Types, PlaceType, Early, Opening, Late, Ending, Step,
        MainFails, channel, run
<1>1. CASE OpenInfo \/ OpenInfoFails \/ OpenEarliest \/ ReadInfoFails
  BY <1>1 DEF OpenInfo, OpenInfoFails, OpenEarliest, ReadInfoFails
<1>2. CASE CloseInfo
  BY <1>2 DEF CloseInfo
<1>3. CASE OpenApp \/ OpenAppFails
  BY <1>3 DEF OpenApp, OpenAppFails
<1>4. CASE OpenSnapshots
  BY <1>4 DEF OpenSnapshots
<1>5. CASE SkipComet \/ OpenState \/ OpenCometFails
  BY <1>5 DEF SkipComet, OpenState, OpenCometFails
<1>6. CASE OpenBlockStore
  BY <1>6 DEF OpenBlockStore
<1>7. CASE SendOpenError
  BY <1>7 DEF SendOpenError, Send
<1>8. CASE StartWaiter \/ ReceiveError
  BY <1>8 DEF StartWaiter, ReceiveError
<1>9. CASE Adopt
  BY <1>9 DEF Adopt, AfterDrain
<1>10. CASE StartGc
  BY <1>10 DEF StartGc, GcDbs
<1>11. CASE WaitGc \/ ClosePrune
  BY <1>11 DEF WaitGc, ClosePrune
<1>12. CASE ChownR \/ ChownRFails
  BY <1>12 DEF ChownR, ChownRFails, ReturnFromMain
<1> QED
  BY <1>1, <1>2, <1>3, <1>4, <1>5, <1>6, <1>7, <1>8, <1>9, <1>10, <1>11, <1>12 DEF MainNext

\* So do those of the goroutines themselves ...
LEMMA GoGoroutines ==
  ASSUME Types, GoInv, AppNext \/ CometNext \/ CloseChannel \/ \E d \in Dbs : GcNext(d)
  PROVE  GoInv'
<1> USE GoroutineNames DEF GoInv, Types, PlaceType, Early, Opening, Late, Ending, Step,
        channel, run
<1>1. CASE AppNext
  <2>1. /\ at' = [at EXCEPT !["app"] = at'["app"]] /\ UNCHANGED <<opts, closed>>
        /\ at["app"] \notin {"none", "done"} /\ at'["app"] # "none"
    <3>1. CASE PruneAppReturns \/ OpenRestore \/ CloseRestore \/ CloseOriginal
      BY <1>1, <3>1 DEF PruneAppReturns, OpenRestore, CloseRestore, CloseOriginal
    <3>2. CASE ReplaceApp \/ ReopenApp \/ ReopenAppFails \/ RefillApp
      BY <1>1, <3>2 DEF ReplaceApp, ReopenApp, ReopenAppFails, RefillApp
    <3>3. CASE SendAppError
      BY <1>1, <3>3 DEF SendAppError, Send
    <3> QED
      BY <1>1, <3>1, <3>2, <3>3 DEF AppNext
  <2> QED
    BY <2>1
<1>2. CASE CometNext
  BY <1>2 DEF CometNext, PruneCometReturns, SendCometError, Send
<1>3. CASE CloseChannel
  BY <1>3 DEF CloseChannel
<1>4. ASSUME NEW d \in Dbs, GcNext(d) PROVE GoInv'
  BY <1>4 DEF GcNext, SkipGc, CopyGc, FailGc
<1> QED
  BY <1>1, <1>2, <1>3, <1>4

\* ... and the start and the end of a run.
LEMMA GoRest ==
  ASSUME Types, GoInv, NodeRuns \/ StartCommand \/ StatFails \/ Kill
  PROVE  GoInv'
<1> USE GoroutineNames DEF GoInv, Types, PlaceType, Early, Opening, Late, Ending, Step,
        channel, run
<1>1. CASE NodeRuns \/ Kill
  BY <1>1 DEF NodeRuns, Kill
<1>2. CASE StartCommand \/ StatFails
  BY <1>2 DEF StartCommand, StatFails, NewRun
<1> QED
  BY <1>1, <1>2

-----------------------------------------------------------------------------
(* The handles. *)

\* The handles are different ones, and name their databases.
LEMMA HandlesApart ==
  /\ Handles = {Info("state"), Info("blockstore"), Reopened, Restore, Opened("state"),
                Opened("blockstore"), Opened("application"), Opened("snapshots")}
  /\ Info("state")[1] = "state" /\ Info("blockstore")[1] = "blockstore"
  /\ Opened("state")[1] = "state" /\ Opened("blockstore")[1] = "blockstore"
  /\ Opened("application")[1] = "application" /\ Reopened[1] = "application"
  /\ Opened("snapshots")[1] = "snapshots" /\ Restore[1] = "restore"
  /\ Reopened # Opened("application") /\ Info("state") # Opened("state")
  /\ Info("blockstore") # Opened("blockstore") /\ Nil \notin Handles
  BY DEF Handles, Info, Opened, Reopened, Restore, Nil, Dbs

\* The steps of main keep what its variables hold.
LEMMA PtrMain ==
  ASSUME Types, GoInv, PtrInv, MainNext
  PROVE  PtrInv'
<1> USE GoroutineNames, HandlesApart DEF PtrInv, GoInv, Types, PlaceType, HandleType, Variables,
        Early, Opening, Late, Ending, Step, MainFails, handles, run
<1>1. CASE OpenInfo \/ OpenInfoFails \/ OpenEarliest \/ ReadInfoFails
  BY <1>1 DEF OpenInfo, OpenInfoFails, OpenEarliest, ReadInfoFails
<1>2. CASE CloseInfo
  BY <1>2 DEF CloseInfo
<1>3. CASE OpenApp \/ OpenAppFails
  BY <1>3 DEF OpenApp, OpenAppFails
<1>4. CASE OpenSnapshots
  BY <1>4 DEF OpenSnapshots
<1>5. CASE SkipComet \/ OpenState \/ OpenCometFails
  BY <1>5 DEF SkipComet, OpenState, OpenCometFails
<1>6. CASE OpenBlockStore
  BY <1>6 DEF OpenBlockStore
<1>7. CASE SendOpenError
  BY <1>7 DEF SendOpenError
<1>8. CASE StartWaiter \/ ReceiveError
  BY <1>8 DEF StartWaiter, ReceiveError
<1>9. CASE Adopt
  BY <1>9 DEF Adopt, AfterDrain
<1>10. CASE StartGc
  <2>1. GcDbs \subseteq Dbs /\ \A d \in GcDbs : ptr[d] \in Handles /\ ptr[d] # Restore /\ ptr[d][1] = d
    BY DEF GcDbs
  <2>2. /\ at["main"] = "gc" /\ at'["main"] = "gcwait"
        /\ \A g \in {"app", "comet", "waiter"} : at'[g] = at[g]
        /\ \A d \in Dbs : at'[d] = "run" <=> d \in GcDbs
    BY <1>10, <2>1 DEF StartGc
  <2>3. /\ gcDb' = [d \in Dbs |-> IF d \in GcDbs THEN ptr[d] ELSE Nil]
        /\ ptr' = [v \in Variables |-> IF v \in GcDbs THEN Nil ELSE ptr[v]]
        /\ UNCHANGED held
    BY <1>10 DEF StartGc
  <2> QED
    BY <2>1, <2>2, <2>3
<1>11. CASE WaitGc \/ ClosePrune
  BY <1>11 DEF WaitGc, ClosePrune
<1>12. CASE ChownR \/ ChownRFails
  BY <1>12 DEF ChownR, ChownRFails, ReturnFromMain
<1> QED
  BY <1>1, <1>2, <1>3, <1>4, <1>5, <1>6, <1>7, <1>8, <1>9, <1>10, <1>11, <1>12 DEF MainNext

\* So do those of the goroutines ...
LEMMA PtrGoroutines ==
  ASSUME Types, GoInv, PtrInv, AppNext \/ CometNext \/ CloseChannel \/ \E d \in Dbs : GcNext(d)
  PROVE  PtrInv'
<1> USE GoroutineNames, HandlesApart DEF PtrInv, GoInv, Types, PlaceType, HandleType, Variables,
        Early, Opening, Late, Ending, Step, handles, run
<1>1. CASE PruneAppReturns \/ OpenRestore \/ CloseRestore
  BY <1>1 DEF PruneAppReturns, OpenRestore, CloseRestore
<1>2. CASE CloseOriginal
  BY <1>2 DEF CloseOriginal
<1>3. CASE ReplaceApp \/ ReopenAppFails \/ RefillApp
  BY <1>3 DEF ReplaceApp, ReopenAppFails, RefillApp
<1>4. CASE ReopenApp
  BY <1>4 DEF ReopenApp
<1>5. CASE SendAppError
  BY <1>5 DEF SendAppError
<1>6. CASE CometNext
  BY <1>6 DEF CometNext, PruneCometReturns, SendCometError
<1>7. CASE CloseChannel
  BY <1>7 DEF CloseChannel
<1>8. ASSUME NEW d \in Dbs, GcNext(d) PROVE PtrInv'
  BY <1>8 DEF GcNext, SkipGc, CopyGc, FailGc
<1> QED
  BY <1>1, <1>2, <1>3, <1>4, <1>5, <1>6, <1>7, <1>8 DEF AppNext

\* ... and the start and the end of a run.
LEMMA PtrRest ==
  ASSUME Types, GoInv, PtrInv, NodeRuns \/ StartCommand \/ StatFails \/ Kill
  PROVE  PtrInv'
<1> USE GoroutineNames, HandlesApart DEF PtrInv, GoInv, Types, PlaceType, HandleType, Variables,
        Early, Opening, Late, Ending, Step, handles, run
<1>1. CASE NodeRuns \/ Kill
  BY <1>1 DEF NodeRuns, Kill
<1>2. CASE StartCommand \/ StatFails
  BY <1>2 DEF StartCommand, StatFails, NewRun
<1> QED
  BY <1>1, <1>2

-----------------------------------------------------------------------------
(* Which handles are open. *)

\* The steps of main keep what is known of the open handles.
LEMMA HeldMain ==
  ASSUME Types, GoInv, PtrInv, HeldInv, MainNext
  PROVE  HeldInv'
<1> USE GoroutineNames, HandlesApart DEF HeldInv, PtrInv, GoInv, Types, PlaceType, HandleType,
        Variables, Early, Opening, Late, Ending, Step, MainFails, handles, run, Owned, AppHandle
<1>1. CASE OpenInfo \/ OpenInfoFails
  BY <1>1 DEF OpenInfo, OpenInfoFails, Open
<1>2. CASE OpenEarliest
  BY <1>2 DEF OpenEarliest, Open
<1>3. CASE CloseInfo
  BY <1>3 DEF CloseInfo, Close
<1>4. CASE ReadInfoFails
  BY <1>4 DEF ReadInfoFails, Close
<1>5. CASE OpenApp \/ OpenAppFails
  BY <1>5 DEF OpenApp, OpenAppFails, Open
<1>6. CASE OpenSnapshots
  BY <1>6 DEF OpenSnapshots, Open
<1>7. CASE SkipComet \/ OpenCometFails
  BY <1>7 DEF SkipComet, OpenCometFails
<1>8. CASE OpenState
  BY <1>8 DEF OpenState, Open
<1>9. CASE OpenBlockStore
  BY <1>9 DEF OpenBlockStore, Open
<1>10. CASE SendOpenError \/ StartWaiter \/ ReceiveError
  BY <1>10 DEF SendOpenError, StartWaiter, ReceiveError
<1>11. CASE Adopt
  BY <1>11 DEF Adopt, AfterDrain
<1>12. CASE StartGc
  <2>1. GcDbs \subseteq Dbs /\ \A d \in GcDbs : ptr[d] \in Handles /\ ptr[d] # Restore /\ ptr[d][1] = d
    BY DEF GcDbs
  <2>2. /\ at["main"] = "gc" /\ at'["main"] = "gcwait"
        /\ \A g \in {"app", "comet", "waiter"} : at'[g] = at[g]
        /\ \A d \in Dbs : at'[d] = "run" <=> d \in GcDbs
    BY <1>12, <2>1 DEF StartGc
  <2>3. /\ gcDb' = [d \in Dbs |-> IF d \in GcDbs THEN ptr[d] ELSE Nil]
        /\ ptr' = [v \in Variables |-> IF v \in GcDbs THEN Nil ELSE ptr[v]]
        /\ UNCHANGED held
    BY <1>12 DEF StartGc
  <2> QED
    BY <2>1, <2>2, <2>3
<1>13. CASE WaitGc
  BY <1>13 DEF WaitGc
<1>14. CASE ClosePrune
  BY <1>14 DEF ClosePrune, Close
<1>15. CASE ChownR \/ ChownRFails
  BY <1>15 DEF ChownR, ChownRFails, ReturnFromMain
<1> QED
  BY <1>1, <1>2, <1>3, <1>4, <1>5, <1>6, <1>7, <1>8, <1>9, <1>10, <1>11, <1>12, <1>13,
     <1>14, <1>15 DEF MainNext

\* So do those of the goroutines ...
LEMMA HeldGoroutines ==
  ASSUME Types, GoInv, PtrInv, HeldInv,
         AppNext \/ CometNext \/ CloseChannel \/ \E d \in Dbs : GcNext(d)
  PROVE  HeldInv'
<1> USE GoroutineNames, HandlesApart DEF HeldInv, PtrInv, GoInv, Types, PlaceType, HandleType,
        Variables, Early, Opening, Late, Ending, Step, handles, run, Owned, AppHandle
<1>1. CASE PruneAppReturns \/ SendAppError
  BY <1>1 DEF PruneAppReturns, SendAppError
<1>2. CASE OpenRestore
  BY <1>2 DEF OpenRestore
<1>3. CASE CloseRestore
  BY <1>3 DEF CloseRestore, Close
<1>4. CASE CloseOriginal
  BY <1>4 DEF CloseOriginal, Close
<1>5. CASE ReplaceApp \/ ReopenAppFails \/ RefillApp
  BY <1>5 DEF ReplaceApp, ReopenAppFails, RefillApp
<1>6. CASE ReopenApp
  BY <1>6 DEF ReopenApp, Open
<1>7. CASE CometNext
  BY <1>7 DEF CometNext, PruneCometReturns, SendCometError
<1>8. CASE CloseChannel
  BY <1>8 DEF CloseChannel
<1>9. ASSUME NEW d \in Dbs, GcNext(d) PROVE HeldInv'
  <2>1. /\ at[d] = "run" /\ at' = [at EXCEPT ![d] = at'[d]] /\ at'[d] \in {"done", "failed"}
        /\ Close({gcDb[d]}) /\ UNCHANGED <<ptr, gcDb>>
    BY <1>9 DEF GcNext, SkipGc, CopyGc, FailGc
  <2> QED
    BY <2>1 DEF Close
<1> QED
  BY <1>1, <1>2, <1>3, <1>4, <1>5, <1>6, <1>7, <1>8, <1>9 DEF AppNext

\* ... and the start and the end of a run.
LEMMA HeldRest ==
  ASSUME Types, GoInv, HeldInv, NodeRuns \/ StartCommand \/ StatFails \/ Kill
  PROVE  HeldInv'
<1> USE GoroutineNames DEF HeldInv, GoInv, Types, PlaceType, HandleType,
        Early, Opening, Late, Ending, Step, handles, run
<1>1. CASE NodeRuns \/ Kill
  BY <1>1 DEF NodeRuns, Kill
<1>2. CASE StartCommand \/ StatFails
  BY <1>2 DEF StartCommand, StatFails, NewRun
<1> QED
  BY <1>1, <1>2

-----------------------------------------------------------------------------
(* How often each handle is closed. *)

\* The steps of main close no handle twice.
LEMMA ClosesMain ==
  ASSUME Types, GoInv, PtrInv, HeldInv, ClosesInv, MainNext
  PROVE  ClosesInv'
<1> USE GoroutineNames, HandlesApart DEF ClosesInv, HeldInv, PtrInv, GoInv, Types, PlaceType,
        HandleType, Early, Opening, Late, Ending, Step, MainFails, handles, run
<1>1. CASE OpenInfo \/ OpenInfoFails
  BY <1>1 DEF OpenInfo, OpenInfoFails, Open
<1>2. CASE OpenEarliest
  BY <1>2 DEF OpenEarliest, Open
<1>3. CASE CloseInfo
  BY <1>3 DEF CloseInfo, Close
<1>4. CASE ReadInfoFails
  BY <1>4 DEF ReadInfoFails, Close
<1>5. CASE OpenApp \/ OpenAppFails
  BY <1>5 DEF OpenApp, OpenAppFails, Open
<1>6. CASE OpenSnapshots
  BY <1>6 DEF OpenSnapshots, Open
<1>7. CASE SkipComet \/ OpenCometFails
  BY <1>7 DEF SkipComet, OpenCometFails
<1>8. CASE OpenState
  BY <1>8 DEF OpenState, Open
<1>9. CASE OpenBlockStore
  BY <1>9 DEF OpenBlockStore, Open
<1>10. CASE SendOpenError \/ StartWaiter \/ ReceiveError
  BY <1>10 DEF SendOpenError, StartWaiter, ReceiveError
<1>11. CASE Adopt
  BY <1>11 DEF Adopt, AfterDrain
<1>12. CASE StartGc
  BY <1>12 DEF StartGc
<1>13. CASE WaitGc
  BY <1>13 DEF WaitGc
<1>14. CASE ClosePrune
  BY <1>14 DEF ClosePrune, Close, Owned, AppHandle
<1>15. CASE ChownR \/ ChownRFails
  BY <1>15 DEF ChownR, ChownRFails, ReturnFromMain
<1> QED
  BY <1>1, <1>2, <1>3, <1>4, <1>5, <1>6, <1>7, <1>8, <1>9, <1>10, <1>11, <1>12, <1>13,
     <1>14, <1>15 DEF MainNext

\* Neither do those of the goroutines ...
LEMMA ClosesGoroutines ==
  ASSUME Types, GoInv, PtrInv, HeldInv, ClosesInv,
         AppNext \/ CometNext \/ CloseChannel \/ \E d \in Dbs : GcNext(d)
  PROVE  ClosesInv'
<1> USE GoroutineNames, HandlesApart DEF ClosesInv, HeldInv, PtrInv, GoInv, Types, PlaceType,
        HandleType, Early, Opening, Late, Ending, Step, handles, run
<1>1. CASE PruneAppReturns \/ SendAppError
  BY <1>1 DEF PruneAppReturns, SendAppError
<1>2. CASE OpenRestore
  BY <1>2 DEF OpenRestore
<1>3. CASE CloseRestore
  BY <1>3 DEF CloseRestore, Close, Owned, AppHandle
<1>4. CASE CloseOriginal
  BY <1>4 DEF CloseOriginal, Close, Owned, AppHandle
<1>5. CASE ReplaceApp \/ ReopenAppFails \/ RefillApp
  BY <1>5 DEF ReplaceApp, ReopenAppFails, RefillApp
<1>6. CASE ReopenApp
  BY <1>6 DEF ReopenApp, Open
<1>7. CASE CometNext
  BY <1>7 DEF CometNext, PruneCometReturns, SendCometError
<1>8. CASE CloseChannel
  BY <1>8 DEF CloseChannel
<1>9. ASSUME NEW d \in Dbs, GcNext(d) PROVE ClosesInv'
  <2>1. /\ at[d] = "run" /\ at' = [at EXCEPT ![d] = at'[d]] /\ at'[d] \in {"done", "failed"}
        /\ Close({gcDb[d]}) /\ UNCHANGED <<ptr, gcDb>>
    BY <1>9 DEF GcNext, SkipGc, CopyGc, FailGc
  <2> QED
    BY <2>1 DEF Close, Owned, AppHandle
<1> QED
  BY <1>1, <1>2, <1>3, <1>4, <1>5, <1>6, <1>7, <1>8, <1>9 DEF AppNext

\* ... nor the start and the end of a run.
LEMMA ClosesRest ==
  ASSUME Types, GoInv, HeldInv, ClosesInv, NodeRuns \/ StartCommand \/ StatFails \/ Kill
  PROVE  ClosesInv'
<1> USE GoroutineNames, HandlesApart DEF ClosesInv, HeldInv, GoInv, Types, PlaceType, HandleType,
        Early, Opening, Late, Ending, Step, handles, run
<1>1. CASE NodeRuns \/ Kill
  BY <1>1 DEF NodeRuns, Kill
<1>2. CASE StartCommand \/ StatFails
  BY <1>2 DEF StartCommand, StatFails, NewRun
<1> QED
  BY <1>1, <1>2

-----------------------------------------------------------------------------

\* What is known of the goroutines and of the handles holds throughout.
LEMMA HandleInvAlways == Spec => []HandleInv
<1>1. Init => HandleInv
  BY GoroutineNames, HandlesApart DEF Init, HandleInv, GoInv, PtrInv, HeldInv, ClosesInv, Early,
     Opening, Late, Ending, Variables
<1>2. Types /\ HandleInv /\ [Next]_vars => HandleInv'
  <2> SUFFICES ASSUME Types, HandleInv, [Next]_vars PROVE HandleInv'
    OBVIOUS
  <2>1. CASE UNCHANGED vars
    BY <2>1 DEF vars, handles, channel, run, HandleInv, GoInv, PtrInv, HeldInv, ClosesInv, Owned,
       AppHandle
  <2>2. CASE MainNext
    BY <2>2, GoMain, PtrMain, HeldMain, ClosesMain DEF HandleInv
  <2>3. CASE AppNext \/ CometNext \/ CloseChannel \/ \E d \in Dbs : GcNext(d)
    BY <2>3, GoGoroutines, PtrGoroutines, HeldGoroutines, ClosesGoroutines DEF HandleInv
  <2>4. CASE NodeRuns \/ StartCommand \/ StatFails \/ Kill
    BY <2>4, GoRest, PtrRest, HeldRest, ClosesRest DEF HandleInv
  <2> QED
    BY <2>1, <2>2, <2>3, <2>4 DEF Next
<1> QED
  BY <1>1, <1>2, TypesAlways, PTL DEF Spec

\* Whatever fails and however the goroutines interleave, Prune closes no
\* handle twice, and leaves none open but that of the snapshot metadata.
THEOREM HandlesAlwaysClosedOnce == Spec => []HandlesClosedOnce
<1>1. HandleInv => HandlesClosedOnce
  BY DEF HandleInv, HeldInv, ClosesInv, HandlesClosedOnce
<1> QED
  BY <1>1, HandleInvAlways, PTL

\* The goroutines work on open handles only, and no two handles lock the
\* same database.
THEOREM HandlesOpenWhenUsed == Spec => []UsesOpenHandle
<1>1. Types /\ HandleInv => UsesOpenHandle
  <2> SUFFICES ASSUME Types, HandleInv PROVE UsesOpenHandle
    OBVIOUS
  <2> USE GoroutineNames, HandlesApart DEF HandleInv, GoInv, PtrInv, HeldInv, Early, Opening,
          Late, Ending, Types, PlaceType, HandleType
  <2>1. at["app"] \in {"run", "restore", "closeapp", "refill"} => ptr["params"] \in held
    BY DEF Owned, AppHandle
  <2>2. at["comet"] = "run" => {ptr["state"], ptr["blockstore"]} \subseteq held
    BY DEF Owned
  <2>3. \A d \in Dbs : at[d] = "run" => gcDb[d] \in held
    BY DEF Owned
  <2>4. \A h, k \in held : h[1] = k[1] => h = k
    <3>1. CASE at["main"] \in {"none", "chown"} \cup Early
      BY <3>1
    <3>2. CASE at["main"] \in (Opening \cup Late \cup Ending) \ {"chown"}
      <4>1. \A h, k \in Owned : h[1] = k[1] => h = k
        BY <3>2 DEF Owned, AppHandle
      <4>2. \A h \in Owned : h[1] # "snapshots"
        BY <3>2 DEF Owned, AppHandle
      <4> QED
        BY <3>2, <4>1, <4>2
    <3> QED
      BY <3>1, <3>2
  <2> QED
    BY <2>1, <2>2, <2>3, <2>4 DEF UsesOpenHandle
<1> QED
  BY <1>1, TypesAlways, HandleInvAlways, PTL

-----------------------------------------------------------------------------
(* The owners of the files. *)

\* While a run goes on it knows the node as the owner, and between runs the
\* directory of state.db shows it, unless that was forgotten.
OwnerInv ==
  /\ at["main"] # "none" => result = "none" /\ (forgotten \/ uid = "node")
  /\ at["main"] = "none" => (forgotten \/ owner["state"] # "root") /\ OwnersRestored

\* A step of a run that goes on says nothing of the owners.
LEMMA OwnerKept ==
  ASSUME OwnerInv, at["main"] # "none", at'["main"] # "none",
         UNCHANGED <<result, forgotten, uid>>
  PROVE  OwnerInv'
  BY DEF OwnerInv

\* Every step keeps what is known of the owners.
LEMMA OwnerNext ==
  ASSUME Types, GoInv, OwnerInv, Next
  PROVE  OwnerInv'
<1> USE GoroutineNames DEF Types, PlaceType, DiskType, Step
<1>1. CASE MainNext /\ ~(ChownR \/ ChownRFails)
  <2>1. /\ at["main"] # "none" /\ at'["main"] # "none"
        /\ UNCHANGED <<result, forgotten, uid>>
    <3> USE DEF MainFails, run, disk, outcome, Open
    <3>1. CASE OpenInfo \/ OpenInfoFails \/ OpenEarliest \/ CloseInfo \/ ReadInfoFails
      BY <3>1 DEF OpenInfo, OpenInfoFails, OpenEarliest, CloseInfo, ReadInfoFails
    <3>2. CASE OpenApp \/ OpenSnapshots \/ OpenAppFails
      BY <3>2 DEF OpenApp, OpenSnapshots, OpenAppFails
    <3>3. CASE SkipComet \/ OpenState \/ OpenBlockStore \/ OpenCometFails
      BY <3>3 DEF SkipComet, OpenState, OpenBlockStore, OpenCometFails
    <3>4. CASE SendOpenError \/ StartWaiter \/ ReceiveError
      BY <3>4 DEF SendOpenError, StartWaiter, ReceiveError
    <3>5. CASE Adopt \/ StartGc
      BY <3>5 DEF Adopt, AfterDrain, StartGc
    <3>6. CASE WaitGc \/ ClosePrune
      BY <3>6 DEF WaitGc, ClosePrune
    <3> QED
      BY <1>1, <3>1, <3>2, <3>3, <3>4, <3>5, <3>6 DEF MainNext
  <2> QED
    BY <2>1, OwnerKept
<1>2. CASE AppNext
  <2>1. /\ at["app"] # "none" /\ at'["main"] = at["main"]
        /\ UNCHANGED <<result, forgotten, uid>>
    <3> USE DEF run, disk, outcome, Open
    <3>1. CASE PruneAppReturns \/ OpenRestore \/ CloseRestore \/ CloseOriginal
      BY <3>1 DEF PruneAppReturns, OpenRestore, CloseRestore, CloseOriginal
    <3>2. CASE ReplaceApp \/ ReopenApp \/ ReopenAppFails
      BY <3>2 DEF ReplaceApp, ReopenApp, ReopenAppFails
    <3>3. CASE RefillApp \/ SendAppError
      BY <3>3 DEF RefillApp, SendAppError
    <3> QED
      BY <1>2, <3>1, <3>2, <3>3 DEF AppNext
  <2> QED
    BY <2>1, OwnerKept DEF GoInv
<1>3. CASE CometNext \/ CloseChannel \/ \E d \in Dbs : GcNext(d)
  <2>1. /\ \E g \in Goroutines \ {"main"} : at[g] # "none"
        /\ at'["main"] = at["main"] /\ UNCHANGED <<result, forgotten, uid>>
    <3> USE DEF run, disk, outcome
    <3>1. CASE CometNext
      BY <3>1 DEF CometNext, PruneCometReturns, SendCometError
    <3>2. CASE CloseChannel
      BY <3>2 DEF CloseChannel
    <3>3. ASSUME NEW d \in Dbs, GcNext(d)
          PROVE  /\ at[d] # "none" /\ at'["main"] = at["main"]
                 /\ UNCHANGED <<result, forgotten, uid>>
      BY <3>3 DEF GcNext, SkipGc, CopyGc, FailGc
    <3> QED
      BY <1>3, <3>1, <3>2, <3>3
  <2> QED
    BY <2>1, OwnerKept DEF GoInv
<1>4. CASE ChownR \/ ChownRFails
  BY <1>4 DEF ChownR, ChownRFails, ReturnFromMain, run, OwnerInv, OwnersRestored
<1>5. CASE Kill
  BY <1>5 DEF Kill, run, OwnerInv, OwnersRestored
<1>6. CASE NodeRuns
  BY <1>6 DEF NodeRuns, run, outcome, OwnerInv, OwnersRestored
<1>7. CASE StartCommand \/ StatFails
  BY <1>7 DEF StartCommand, StatFails, NewRun, Stat, disk, OwnerInv, OwnersRestored
<1> QED
  BY <1>1, <1>2, <1>3, <1>4, <1>5, <1>6, <1>7 DEF Next

\* A run whose chown goes through leaves all files to the node, whatever
\* runs before it left behind, unless state.db itself was left to root.
THEOREM OwnersAlwaysRestored == Spec => []OwnersRestored
<1>1. Init => OwnerInv
  BY DEF Init, OwnerInv, OwnersRestored, Goroutines, Dbs
<1>2. Types /\ GoInv /\ OwnerInv /\ [Next]_vars => OwnerInv'
  <2>1. ASSUME OwnerInv, UNCHANGED vars PROVE OwnerInv'
    BY <2>1 DEF vars, run, disk, outcome, OwnerInv, OwnersRestored
  <2> QED
    BY <2>1, OwnerNext
<1>3. OwnerInv => OwnersRestored
  BY DEF OwnerInv, OwnersRestored
<1>4. HandleInv => GoInv
  BY DEF HandleInv
<1> QED
  BY <1>1, <1>2, <1>3, <1>4, TypesAlways, HandleInvAlways, PTL DEF Spec

-----------------------------------------------------------------------------
(* The errors. *)

\* The errors in the channel, and those that are still to be reported.
Sent == {errorChan[i] : i \in 1 .. Len(errorChan)}
Pending ==
  Sent
    \cup {e \in {"app", "comet"} : at[e] = "send"}
    \cup {"open" : g \in {m \in {"main"} : at[m] = "send"}}
    \cup {"gc" : d \in {e \in Dbs : at[e] = "failed" /\ at["main"] = "gcwait"}}

\* Every error of a run is reported or pending, and the GC pass runs after
\* a run without any.
ErrInv ==
  /\ at["main"] # "none" => failed = errs \cup Pending /\ result = "none"
  /\ at["main"] \notin {"none"} \cup Late => errorChan = <<>>
  /\ at["main"] \in {"gc", "gcwait"} => errs = {}
  /\ \A d \in Dbs : at[d] # "none" => errs \subseteq {"gc"}
  /\ result \in {"ok", "error"} => errs = failed

\* A send adds the error to the channel, and a receive takes it out.
LEMMA SentBySend ==
  ASSUME Types, NEW e \in {"open", "app", "comet"}, Send(e)
  PROVE  Sent' = Sent \cup {e} /\ errs' = errs
<1>1. errorChan \in Seq({"open", "app", "comet"})
  BY DEF Types, ChannelType
<1>2. errorChan' = Append(errorChan, e) /\ errs' = errs
  BY DEF Send
<1>3. /\ Len(errorChan') = Len(errorChan) + 1 /\ errorChan'[Len(errorChan) + 1] = e
      /\ \A i \in 1 .. Len(errorChan) : errorChan'[i] = errorChan[i]
      /\ Len(errorChan) \in Nat
  BY <1>1, <1>2
<1> QED
  BY <1>2, <1>3 DEF Sent

\* See SentBySend.
LEMMA SentByReceive ==
  ASSUME Types, ReceiveError
  PROVE  Sent \cup errs = Sent' \cup errs'
<1>1. errorChan \in Seq({"open", "app", "comet"}) /\ errorChan # <<>>
  BY DEF Types, ChannelType, ReceiveError
<1>2. errorChan' = Tail(errorChan) /\ errs' = errs \cup {Head(errorChan)}
  BY DEF ReceiveError
<1>3. /\ Len(errorChan) \in Nat \ {0} /\ Len(errorChan') = Len(errorChan) - 1
      /\ \A i \in 1 .. Len(errorChan') : errorChan'[i] = errorChan[i + 1]
      /\ Head(errorChan) = errorChan[1]
  BY <1>1, <1>2
<1>4. \A i \in 1 .. Len(errorChan) : i = 1 \/ (i - 1 \in 1 .. Len(errorChan') /\ i = (i - 1) + 1)
  BY <1>3
<1>5. \A i \in 1 .. Len(errorChan') : i + 1 \in 1 .. Len(errorChan)
  BY <1>3
<1>6. 1 \in 1 .. Len(errorChan)
  BY <1>3
<1>7. Sent = {Head(errorChan)} \cup Sent'
  <2>1. Sent \subseteq {Head(errorChan)} \cup Sent'
    <3> SUFFICES ASSUME NEW i \in 1 .. Len(errorChan), i # 1
                 PROVE  errorChan[i] \in Sent'
      BY <1>3 DEF Sent
    <3>1. errorChan[i] = errorChan'[i - 1]
      BY <1>3, <1>4
    <3> QED
      BY <1>4, <3>1 DEF Sent
  <2>2. {Head(errorChan)} \cup Sent' \subseteq Sent
    BY <1>3, <1>5, <1>6 DEF Sent
  <2> QED
    BY <2>1, <2>2
<1> QED
  BY <1>2, <1>7

\* An empty channel has no errors.
LEMMA SentNothing ==
  /\ errorChan = <<>> => Sent = {}
  /\ errorChan' = <<>> => Sent' = {}
  BY DEF Sent

\* The steps of main lose no error.
LEMMA ErrMain ==
  ASSUME Types, GoInv, PtrInv, ErrInv, MainNext
  PROVE  ErrInv'
<1>0. UNCHANGED errorChan => Sent' = Sent
  BY DEF Sent
<1> USE GoroutineNames, SentNothing, <1>0 DEF ErrInv, GoInv, Types, PlaceType, Early, Opening,
        Late, Ending, Step, Fail, MainFails, channel, run, outcome, Pending
<1>1. CASE OpenInfo \/ OpenInfoFails
  BY <1>1 DEF OpenInfo, OpenInfoFails
<1>2. CASE OpenEarliest \/ CloseInfo
  BY <1>2 DEF OpenEarliest, CloseInfo
<1>3. CASE ReadInfoFails
  BY <1>3 DEF ReadInfoFails
<1>4. CASE OpenApp \/ OpenSnapshots
  BY <1>4 DEF OpenApp, OpenSnapshots
<1>5. CASE OpenAppFails
  BY <1>5 DEF OpenAppFails
<1>6. CASE SkipComet \/ OpenState \/ OpenBlockStore
  BY <1>6 DEF SkipComet, OpenState, OpenBlockStore
<1>7. CASE OpenCometFails
  BY <1>7 DEF OpenCometFails
<1>8. CASE SendOpenError
  BY <1>8, SentBySend DEF SendOpenError
<1>9. CASE StartWaiter
  BY <1>9 DEF StartWaiter
<1>10. CASE ReceiveError
  BY <1>10, SentByReceive DEF ReceiveError
<1>11. CASE Adopt
  BY <1>11 DEF Adopt, AfterDrain
<1>12. CASE StartGc
  BY <1>12 DEF StartGc, GcDbs
<1>13. CASE WaitGc
  BY <1>13 DEF WaitGc
<1>14. CASE ClosePrune
  BY <1>14 DEF ClosePrune
<1>15. CASE ChownR \/ ChownRFails
  <2>1. at["main"] = "chown" /\ UNCHANGED <<errs, failed>> /\ \A g \in Goroutines : at'[g] = "none"
    BY <1>15 DEF ChownR, ChownRFails, ReturnFromMain
  <2>2. Pending = {}
    BY <2>1
  <2> HIDE DEF Pending
  <2>3. errs' = failed'
    BY <2>1, <2>2
  <2> QED
    BY <2>1, <2>3
<1> QED
  BY <1>1, <1>2, <1>3, <1>4, <1>5, <1>6, <1>7, <1>8, <1>9, <1>10, <1>11, <1>12, <1>13,
     <1>14, <1>15 DEF MainNext

\* Neither do those of the goroutines ...
LEMMA ErrGoroutines ==
  ASSUME Types, GoInv, PtrInv, ErrInv,
         AppNext \/ CometNext \/ CloseChannel \/ \E d \in Dbs : GcNext(d)
  PROVE  ErrInv'
<1>0. UNCHANGED errorChan => Sent' = Sent
  BY DEF Sent
<1> USE GoroutineNames, <1>0 DEF ErrInv, GoInv, Types, PlaceType, Early, Opening,
        Late, Ending, Step, Fail, channel, run, outcome, Pending
<1>1. CASE PruneAppReturns \/ OpenRestore
  BY <1>1 DEF PruneAppReturns, OpenRestore
<1>2. CASE CloseRestore \/ CloseOriginal
  BY <1>2 DEF CloseRestore, CloseOriginal
<1>3. CASE ReplaceApp \/ ReopenApp
  BY <1>3 DEF ReplaceApp, ReopenApp
<1>4. CASE ReopenAppFails \/ RefillApp
  BY <1>4 DEF ReopenAppFails, RefillApp
<1>5. CASE SendAppError
  BY <1>5, SentBySend DEF SendAppError
<1>6. CASE PruneCometReturns
  BY <1>6 DEF PruneCometReturns
<1>7. CASE SendCometError
  BY <1>7, SentBySend DEF SendCometError
<1>8. CASE CloseChannel
  BY <1>8 DEF CloseChannel
<1>9. ASSUME NEW d \in Dbs, GcNext(d) PROVE ErrInv'
  BY <1>9 DEF GcNext, SkipGc, CopyGc, FailGc, PtrInv
<1> QED
  BY <1>1, <1>2, <1>3, <1>4, <1>5, <1>6, <1>7, <1>8, <1>9 DEF AppNext, CometNext

\* ... nor the start and the end of a run.
LEMMA ErrRest ==
  ASSUME Types, GoInv, ErrInv, NodeRuns \/ StartCommand \/ StatFails \/ Kill
  PROVE  ErrInv'
<1> USE GoroutineNames, SentNothing DEF ErrInv, GoInv, Types, PlaceType, Early, Opening,
        Late, Ending, Step, channel, run, outcome
<1>1. CASE NodeRuns \/ Kill
  BY <1>1 DEF NodeRuns, Kill
<1>2. CASE StartCommand \/ StatFails
  BY <1>2 DEF StartCommand, StatFails, NewRun, Pending
<1> QED
  BY <1>1, <1>2

\* Whatever the order in which the goroutines fail and report, Prune returns
\* every error, and no GC pass runs after a pruning that failed.
THEOREM ErrorsAlwaysReported == Spec => []NoErrorLost
<1>1. Init => ErrInv
  BY DEF Init, ErrInv, Goroutines, Dbs
<1>2. Types /\ HandleInv /\ ErrInv /\ [Next]_vars => ErrInv'
  <2>1. ASSUME ErrInv, UNCHANGED vars PROVE ErrInv'
    BY <2>1 DEF vars, channel, outcome, ErrInv, Pending, Sent
  <2> QED
    BY <2>1, ErrMain, ErrGoroutines, ErrRest DEF Next, HandleInv
<1>3. GoInv /\ PtrInv /\ Types /\ ErrInv => NoErrorLost
  <2> SUFFICES ASSUME GoInv, PtrInv, Types, ErrInv PROVE NoErrorLost
    OBVIOUS
  <2>1. ASSUME NEW d \in Dbs, at[d] # "none" PROVE failed \subseteq {"gc"}
    BY <2>1, GoroutineNames, SentNothing DEF GoInv, ErrInv, Pending, Early, Opening, Late, Ending
  <2> QED
    BY <2>1 DEF ErrInv, NoErrorLost
<1>4. HandleInv => GoInv /\ PtrInv
  BY DEF HandleInv
<1> QED
  BY <1>1, <1>2, <1>3, <1>4, TypesAlways, HandleInvAlways, PTL DEF Spec

=============================================================================
