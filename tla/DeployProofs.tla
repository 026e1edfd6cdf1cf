---------------------------- MODULE DeployProofs ----------------------------
(***************************************************************************)
(* Proofs about the deploy, upgrade and export tasks, for any number of    *)
(* programs, endpoints, transactions and editions: what a run and the      *)
(* files of a deployments directory keep to and, in the second half, that  *)
(* records, markers, snapshots and bundles tell the truth about the chain  *)
(* they name and that imports are deployed before what imports them.       *)
(***************************************************************************)
EXTENDS DeployProperties, TLAPS

USE DEF Absent, Unknown, NoTx

-----------------------------------------------------------------------------
(* The inductive invariant behind TypeOK: an upgrade has a target *)
UpgradeSteps ==
  {"resolve", "fallback", "upgrade", "upgrade-send", "upgrade-sent", "upgrade-confirm",
   "upgrade-advance", "upgrade-record"}

TargetChosen ==
  pc \in UpgradeSteps \/ (pc = "recover" /\ opts.task # "deploy") => opts.targets # {}

(* A marker that exists says what it was for, one that recovery has still   *)
(* to visit exists                                                          *)
MarkersWhole == \A p \in Programs : pending[p] = NoMarker \/ pending[p].action \in Actions

TodoMarked == pc = "recover" => \A p \in todo : pending[p].action \in Actions

(* Only the marker of p is touched *)
OthersKept(p) == \A q \in Programs : q # p => pending'[q] = pending[q]

DiskInv == DiskTypeOK /\ MarkersWhole
RunInv == RunTypeOK /\ TargetChosen
Core == LedgerTypeOK /\ DiskInv /\ ManagerTypeOK /\ RunInv /\ TodoMarked
TypeInv == Core /\ bundle \in Bundles /\ crashes \in 0..MaxCrashes

-----------------------------------------------------------------------------
(* Facts about the operators *)

(* The local programs are programs *)
LEMMA LocalPrograms == Local \subseteq Programs
  BY TasksAssumption DEF Local

(* The placeholders are values of their types *)
LEMMA NoValues ==
  /\ NoRecord \in Records /\ NoMarker \in Markers /\ NoJob \in Jobs
  /\ NoOpts \in Options /\ NoBundle \in Bundles /\ NoEntry \in BundleEntries
  <1>1. NoRecord \in Records
    BY DEF NoRecord, Records, MaybeTx, MaybeEndpoint, Editions
  <1>2. NoMarker \in Markers
    BY DEF NoMarker, Markers, MaybeTx, MaybeEndpoint, Editions
  <1>3. NoJob \in Jobs
    BY <1>1 DEF NoJob, Jobs, MaybeTx, Editions
  <1>4. NoOpts \in Options
    BY DEF NoOpts, Options, Actions
  <1>5. NoEntry \in BundleEntries
    BY DEF NoEntry, BundleEntries, MaybeTx
  <1>6. NoBundle \in Bundles
    BY <1>5 DEF NoBundle, Bundles, MaybeEndpoint
  <1> QED BY <1>1, <1>2, <1>3, <1>4, <1>5, <1>6

(* What an on-chain check answers *)
LEMMA ReadsType ==
  ASSUME LedgerTypeOK, NEW e \in Endpoints, NEW p \in Programs, NEW r \in OnChainReads(e, p)
  PROVE  r.edition \in Editions
  <1>1. visible[e][p] \in Editions
    BY DEF LedgerTypeOK
  <1>2. \/ r = [exists |-> FALSE, edition |-> -1]
        \/ r = [exists |-> TRUE, edition |-> visible[e][p]]
        \/ r = [exists |-> TRUE, edition |-> -1]
    BY DEF OnChainReads
  <1> QED BY <1>1, <1>2 DEF Editions

(* The writes of record() keep the disk well formed, however many of them   *)
(* are done                                                                 *)
LEMMA RecordWritesType ==
  ASSUME DiskInv, endpoint \in Endpoints, NEW p, NEW rec \in Records,
         NEW action \in Actions, NEW snapshot \in MaybeTx, NEW n \in Nat,
         RecordWrites(p, rec, action, snapshot, n)
  PROVE  DiskInv' /\ OthersKept(p)
  <1> USE DEF DiskInv
  <1>1. CASE Ephemeral
    BY <1>1 DEF DiskTypeOK, RecordWrites, diskVars, MarkersWhole, OthersKept
  <1>2. CASE ~Ephemeral
    <2>1. meta' \in MaybeEndpoint
      BY <1>2 DEF DiskTypeOK, RecordWrites, MaybeEndpoint
    <2>2. record' \in [Programs -> Records]
      BY <1>2 DEF DiskTypeOK, RecordWrites
    <2>3. abi' \in [Programs -> MaybeTx]
      BY <1>2 DEF DiskTypeOK, RecordWrites
    <2>4. history' \in [Programs -> SUBSET HistoryEntries]
      BY <1>2 DEF DiskTypeOK, RecordWrites, HistoryEntries
    <2>5. pending' \in [Programs -> Markers]
      BY <1>2, NoValues DEF DiskTypeOK, RecordWrites
    <2>6. MarkersWhole' /\ OthersKept(p)
      BY <1>2 DEF DiskTypeOK, RecordWrites, MarkersWhole, OthersKept
    <2> QED BY <2>1, <2>2, <2>3, <2>4, <2>5, <2>6 DEF DiskTypeOK
  <1> QED BY <1>1, <1>2

(* Records the code builds are records *)
LEMMA DegradedType ==
  ASSUME NEW e \in Endpoints, NEW n \in Editions
  PROVE  DegradedRecord(e, n) \in Records
  BY DEF DegradedRecord, Records, MaybeTx, MaybeEndpoint

(* What the session or the disk knows of a program is a record *)
LEMMA KnownType ==
  ASSUME DiskTypeOK, ManagerTypeOK, NEW p \in Programs
  PROVE  KnownRecord(p) \in Records
  BY DEF DiskTypeOK, ManagerTypeOK, KnownRecord

(* getDeployment answers with a record, or NoRecord for null *)
LEMMA GetDeploymentType ==
  ASSUME LedgerTypeOK, DiskTypeOK, ManagerTypeOK, NEW p \in Programs,
         NEW r \in OnChainReads(endpoint, p)
  PROVE  GetDeployment(p, r) \in Records
  <1>1. endpoint \in Endpoints /\ cache[p] \in Records /\ r.edition \in Editions
    BY ReadsType DEF ManagerTypeOK
  <1>2. DegradedRecord(endpoint, r.edition) \in Records
    BY <1>1, DegradedType
  <1>3. KnownRecord(p) \in Records /\ NoRecord \in Records
    BY KnownType, NoValues
  <1>4. GetDeployment(p, r) \in {cache[p], DegradedRecord(endpoint, r.edition), KnownRecord(p), NoRecord}
    BY DEF GetDeployment
  <1> QED BY <1>1, <1>2, <1>3, <1>4

(* getDeployment keeps the session well formed *)
LEMMA CacheDeploymentType ==
  ASSUME LedgerTypeOK, DiskTypeOK, ManagerTypeOK, NEW p \in Programs,
         NEW r \in OnChainReads(endpoint, p), CacheDeployment(p, r)
  PROVE  cache' \in [Programs -> Records]
  BY GetDeploymentType DEF ManagerTypeOK, CacheDeployment

(* record(), whole or cut short *)
LEMMA RecordType ==
  ASSUME DiskInv, ManagerTypeOK, endpoint' = endpoint, NEW p, NEW rec \in Records,
         NEW action \in Actions, NEW snapshot \in MaybeTx, Record(p, rec, action, snapshot)
  PROVE  DiskInv' /\ ManagerTypeOK' /\ OthersKept(p)
  <1>1. DiskInv' /\ OthersKept(p)
    BY RecordWritesType DEF Record, ManagerTypeOK
  <1>2. cache' \in [Programs -> Records] /\ abiCache' \in [Programs -> MaybeTx]
    BY DEF Record, ManagerTypeOK
  <1>3. metadataValidated' \in BOOLEAN
    BY DEF Record
  <1> QED BY <1>1, <1>2, <1>3 DEF ManagerTypeOK

(* A session that was thrown away is well typed *)
LEMMA InvalidateType ==
  ASSUME endpoint' \in Endpoints, InvalidateSession
  PROVE  ManagerTypeOK'
  BY NoValues DEF InvalidateSession, ManagerTypeOK, MaybeTx

(* A process that dies inside record() leaves a well-typed directory *)
LEMMA RecordCutType ==
  ASSUME DiskInv, ManagerTypeOK, endpoint' = endpoint, NEW p, NEW rec \in Records,
         NEW action \in Actions, NEW snapshot \in MaybeTx, RecordCut(p, rec, action, snapshot)
  PROVE  DiskInv' /\ ManagerTypeOK' /\ OthersKept(p)
  <1>1. PICK n \in 1..4 : RecordWrites(p, rec, action, snapshot, n)
    BY DEF RecordCut
  <1>2. DiskInv' /\ OthersKept(p)
    BY <1>1, RecordWritesType DEF ManagerTypeOK
  <1>3. ManagerTypeOK'
    BY InvalidateType DEF RecordCut, ManagerTypeOK
  <1> QED BY <1>2, <1>3

(* setPending and clearPending touch the marker of one program only *)
LEMMA SetPendingType ==
  ASSUME DiskInv, NEW p, NEW m \in Markers, SetPending(p, m),
         m = NoMarker \/ m.action \in Actions, UNCHANGED <<meta, record, abi, history>>
  PROVE  DiskInv' /\ OthersKept(p)
  BY DEF DiskInv, DiskTypeOK, MarkersWhole, OthersKept, SetPending

(* The run of a task that ended *)
LEMMA EndRunType ==
  ASSUME EndRun
  PROVE  RunInv' /\ TodoMarked'
  BY NoValues DEF EndRun, RunInv, TodoMarked, RunTypeOK, TargetChosen, UpgradeSteps, Steps, Outcomes

-----------------------------------------------------------------------------
(* Recovery of one marker *)
LEMMA RecoveredType ==
  ASSUME LedgerTypeOK, DiskTypeOK, ManagerTypeOK, NEW p \in Programs,
         NEW r \in OnChainReads(endpoint, p)
  PROVE  RecoveredRecord(p, r) \in Records
  <1>1. RecoveredEdition(r) \in Editions
    BY ReadsType DEF RecoveredEdition, Editions, ManagerTypeOK
  <1>2. KnownRecord(p).historyCount \in Nat
    BY KnownType DEF Records
  <1>3. pending[p].txId \in MaybeTx
    BY DEF DiskTypeOK, Markers
  <1>4. endpoint \in MaybeEndpoint
    BY DEF ManagerTypeOK, MaybeEndpoint
  <1> QED BY <1>1, <1>2, <1>3, <1>4 DEF RecoveredRecord, Records

(* A marker is cleared, kept, or turned into a record *)
LEMMA RecoverPendingType ==
  ASSUME LedgerTypeOK, DiskInv, ManagerTypeOK, endpoint' = endpoint, NEW p \in Programs,
         pending[p].action \in Actions, NEW r \in OnChainReads(endpoint, p), RecoverPending(p, r)
  PROVE  DiskInv' /\ ManagerTypeOK' /\ OthersKept(p)
  <1>1. CASE ClearPending(p) /\ UNCHANGED <<meta, record, abi, history, sessionVars>>
    BY <1>1, NoValues, SetPendingType DEF ClearPending, ManagerTypeOK, sessionVars
  <1>2. CASE UNCHANGED <<diskVars, sessionVars>>
    BY <1>2 DEF DiskInv, MarkersWhole, OthersKept, DiskTypeOK, ManagerTypeOK, sessionVars, diskVars
  <1>3. CASE Record(p, RecoveredRecord(p, r), pending[p].action, NoTx)
    BY <1>3, RecoveredType, RecordType DEF MaybeTx, DiskInv
  <1> QED BY <1>1, <1>2, <1>3 DEF RecoverPending

(* A process that dies while it records a recovered marker *)
LEMMA RecoveryCutType ==
  ASSUME LedgerTypeOK, DiskInv, ManagerTypeOK, endpoint' = endpoint, NEW p \in Programs,
         pending[p].action \in Actions, NEW r \in OnChainReads(endpoint, p), RecoveryCut(p, r)
  PROVE  DiskInv' /\ ManagerTypeOK'
  BY RecoveredType, RecordCutType DEF RecoveryCut, MaybeTx, DiskInv

-----------------------------------------------------------------------------
(* What a step leaves alone stays well formed *)
LEMMA Kept ==
  ASSUME Core
  PROVE  /\ UNCHANGED ledgerVars => LedgerTypeOK'
         /\ UNCHANGED diskVars => DiskInv'
         /\ UNCHANGED <<endpoint, sessionVars>> => ManagerTypeOK'
  <1>1. UNCHANGED ledgerVars => LedgerTypeOK'
    BY DEF Core, ledgerVars, LedgerTypeOK
  <1>2. UNCHANGED diskVars => DiskInv'
    BY DEF Core, diskVars, DiskInv, DiskTypeOK, MarkersWhole
  <1>3. UNCHANGED <<endpoint, sessionVars>> => ManagerTypeOK'
    BY DEF Core, sessionVars, ManagerTypeOK
  <1> QED BY <1>1, <1>2, <1>3

(* The chain's steps *)
LEMMA BuildType ==
  ASSUME LedgerTypeOK, NEW t \in TxIds, NEW p \in Programs, NEW a \in Actions,
         NEW e \in Endpoints, Build(t, p, a, e)
  PROVE  LedgerTypeOK'
  BY DEF LedgerTypeOK, Build, TxRecord, Editions, Actions

(* A broadcast keeps the ledger well typed *)
LEMMA SubmitType ==
  ASSUME LedgerTypeOK, NEW t, Submit(t)
  PROVE  LedgerTypeOK'
  BY DEF LedgerTypeOK, Submit, TxRecord

(* So does every step of the chain itself *)
LEMMA LedgerNextType ==
  ASSUME LedgerTypeOK, LedgerNext
  PROVE  LedgerTypeOK'
  <1>1. ASSUME NEW t \in TxIds, Accept(t)
        PROVE  LedgerTypeOK'
    <2>1. tx[t].endpoint \in Endpoints /\ tx[t].program \in Programs
      BY DEF LedgerTypeOK, TxRecord
    <2>2. edition[tx[t].endpoint][tx[t].program] + 1 \in Nat
      BY <2>1 DEF LedgerTypeOK, Editions
    <2>3. edition' \in [Endpoints -> [Programs -> Editions]]
      BY <1>1, <2>1, <2>2 DEF Accept, LedgerTypeOK, Editions
    <2>4. tx' = [tx EXCEPT ![t] = [tx[t] EXCEPT !.status = "accepted",
                              !.edition = edition[tx[t].endpoint][tx[t].program] + 1]]
      BY <1>1 DEF Accept, LedgerTypeOK
    <2>5. tx' \in [TxIds -> TxRecord]
      BY <2>4, <2>2 DEF LedgerTypeOK, TxRecord, Editions
    <2> QED BY <1>1, <2>3, <2>5 DEF Accept, LedgerTypeOK
  <1>2. ASSUME NEW t \in TxIds, Reject(t)
        PROVE  LedgerTypeOK'
    BY <1>2 DEF Reject, LedgerTypeOK, TxRecord
  <1>3. ASSUME NEW e \in Endpoints, NEW p \in Programs, Stranger(e, p)
        PROVE  LedgerTypeOK'
    <2>1. edition[e][p] + 1 \in Nat
      BY DEF LedgerTypeOK, Editions
    <2> QED BY <1>3, <2>1 DEF Stranger, LedgerTypeOK, Editions
  <1>4. ASSUME NEW e \in Endpoints, NEW p \in Programs, Propagate(e, p)
        PROVE  LedgerTypeOK'
    BY <1>4 DEF Propagate, LedgerTypeOK
  <1> QED BY <1>1, <1>2, <1>3, <1>4 DEF LedgerNext

(* A task starts *)
LEMMA StartType ==
  ASSUME Core, StartDeploy \/ StartUpgrade
  PROVE  Core'
  <1>1. BeginRecovery /\ pc' = "recover" /\ queue' = {}
    BY DEF StartDeploy, StartUpgrade
  <1>2. opts' \in Options /\ (opts'.task # "deploy" => opts'.targets # {})
    <2>1. CASE StartDeploy
      <3>1. PICK mode \in Modes, confirm \in ConfirmModes, skip \in SkipModes,
                 export \in ExportModes, targets \in DeployTargets :
              opts' = [task |-> "deploy", mode |-> mode, confirm |-> confirm,
                       skipDeployed |-> skip, export |-> export /\ confirm, targets |-> targets]
        BY <2>1 DEF StartDeploy
      <3>2. targets \in SUBSET Local
        BY DEF DeployTargets, LocalClosure
      <3>3. mode \in {"deploy", "dry-run", "preflight"} /\ confirm \in BOOLEAN
              /\ skip \in BOOLEAN /\ (export /\ confirm) \in BOOLEAN
        BY TasksAssumption
      <3> QED BY <3>1, <3>2, <3>3 DEF Options, Actions
    <2>2. CASE StartUpgrade
      <3>1. PICK confirm \in ConfirmModes, export \in ExportModes, p \in Local :
              opts' = [task |-> "upgrade", mode |-> "deploy", confirm |-> confirm,
                       skipDeployed |-> FALSE, export |-> export /\ confirm, targets |-> {p}]
        BY <2>2 DEF StartUpgrade
      <3>2. confirm \in BOOLEAN /\ (export /\ confirm) \in BOOLEAN /\ {p} \in SUBSET Local
        BY TasksAssumption
      <3> QED BY <3>1, <3>2 DEF Options, Actions
    <2> QED BY <2>1, <2>2
  <1>3. LedgerTypeOK' /\ DiskInv'
    BY <1>1, Kept DEF BeginRecovery
  <1>4. ManagerTypeOK'
    BY <1>1 DEF BeginRecovery, ValidateHttpMetadata, ManagerTypeOK, Core
  <1>5. RunInv'
    BY <1>1, <1>2 DEF BeginRecovery, PendingPrograms, RunInv, RunTypeOK, TargetChosen, UpgradeSteps,
                       Steps, Core
  <1>6. TodoMarked'
    BY <1>1 DEF BeginRecovery, PendingPrograms, TodoMarked, MarkersWhole, DiskInv, Core, diskVars
  <1> QED BY <1>3, <1>4, <1>5, <1>6 DEF Core

(* Recovery *)
LEMMA RecoveryType ==
  ASSUME Core, RecoveryStep
  PROVE  Core'
  <1>1. ASSUME NEW p \in Programs, RecoverMarker(p)
        PROVE  Core'
    <2>1. PICK r \in OnChainReads(endpoint, p) : RecoverPending(p, r)
      BY <1>1 DEF RecoverMarker
    <2>2. pending[p].action \in Actions
      BY <1>1 DEF RecoverMarker, TodoMarked, Core
    <2>3. DiskInv' /\ ManagerTypeOK' /\ OthersKept(p)
      BY <1>1, <2>1, <2>2, RecoverPendingType DEF RecoverMarker, Core
    <2>4. LedgerTypeOK'
      BY <1>1, Kept DEF RecoverMarker
    <2>5. RunInv' /\ TodoMarked'
      BY <1>1, <2>3 DEF RecoverMarker, RunInv, RunTypeOK, TargetChosen, TodoMarked, OthersKept, Core
    <2> QED BY <2>3, <2>4, <2>5 DEF Core
  <1>2. CASE EndRecovery
    <2>1. LedgerTypeOK' /\ DiskInv' /\ ManagerTypeOK'
      BY <1>2, Kept DEF EndRecovery
    <2>2. RunInv'
      BY <1>2 DEF EndRecovery, Goto, RunInv, RunTypeOK, TargetChosen, UpgradeSteps, Steps, Options, Core
    <2>3. TodoMarked'
      BY <1>2 DEF EndRecovery, Goto, TodoMarked
    <2> QED BY <2>1, <2>2, <2>3 DEF Core
  <1> QED BY <1>1, <1>2 DEF RecoveryStep

(* A step of the deploy loops that stays within the run *)
LEMMA DeployLoopType ==
  ASSUME Core, NEW p \in Programs, LookupExisting(p) \/ PreflightProgram(p)
  PROVE  Core'
  <1>1. CASE LookupExisting(p)
    <2>1. LedgerTypeOK' /\ DiskInv'
      BY <1>1, Kept DEF LookupExisting
    <2>2. cache' \in [Programs -> Records] /\ existing' \in [Programs -> Records]
      BY <1>1, CacheDeploymentType, GetDeploymentType
         DEF LookupExisting, Core, DiskInv, ManagerTypeOK, RunInv, RunTypeOK
    <2>3. ManagerTypeOK'
      BY <1>1, <2>2 DEF LookupExisting, ManagerTypeOK, Core
    <2>4. RunInv' /\ TodoMarked'
      BY <1>1, <2>2 DEF LookupExisting, RunInv, RunTypeOK, TargetChosen, UpgradeSteps, TodoMarked, Core
    <2> QED BY <2>1, <2>3, <2>4 DEF Core
  <1>2. CASE PreflightProgram(p)
    <2>1. LedgerTypeOK' /\ DiskInv' /\ ManagerTypeOK'
      BY <1>2, Kept DEF PreflightProgram
    <2>2. outcome' \in [Programs -> Outcomes]
      BY <1>2 DEF PreflightProgram, AlreadyDeployedOutcome, Outcomes, RunInv, RunTypeOK, Core
    <2>3. RunInv' /\ TodoMarked'
      BY <1>2, <2>2 DEF PreflightProgram, RunInv, RunTypeOK, TargetChosen, UpgradeSteps, TodoMarked, Core
    <2> QED BY <2>1, <2>3 DEF Core
  <1> QED BY <1>1, <1>2

(* A step that only moves the run on *)
LEMMA DeployMoveType ==
  ASSUME Core, EndLookup \/ PreflightPasses \/ EndReconcile \/ DeployAccepted
  PROVE  Core'
  <1>1. LedgerTypeOK' /\ DiskInv' /\ ManagerTypeOK'
    BY Kept DEF EndLookup, PreflightPasses, EndReconcile, DeployAccepted
  <1>2. RunInv' /\ TodoMarked'
    BY DEF EndLookup, PreflightPasses, EndReconcile, DeployAccepted, Goto, RunInv, RunTypeOK,
           TargetChosen, UpgradeSteps, TodoMarked, Steps, Options, Core
  <1> QED BY <1>1, <1>2 DEF Core

(* A step that ends the run and writes nothing *)
LEMMA EndType ==
  ASSUME Core, PreflightStops \/ DeployRejected \/ Abort
  PROVE  Core'
  BY Kept, EndRunType DEF PreflightStops, DeployRejected, Abort, Core

(* Reconciliation *)
LEMMA ReconcileType ==
  ASSUME Core, NEW p \in Programs, Reconcile(p)
  PROVE  Core'
  <1>1. PICK r \in OnChainReads(endpoint, p) :
          \/ Record(p, DegradedRecord(endpoint, r.edition), "deploy", NoTx)
          \/ UNCHANGED <<diskVars, sessionVars>>
    BY DEF Reconcile
  <1>2. endpoint' = endpoint /\ endpoint \in Endpoints /\ r.edition \in Editions
    BY ReadsType DEF Reconcile, Core, ManagerTypeOK
  <1>3. DiskInv' /\ ManagerTypeOK'
    BY <1>1, <1>2, Kept, DegradedType, RecordType DEF Core, Actions, MaybeTx
  <1>4. LedgerTypeOK' /\ RunInv' /\ TodoMarked'
    BY Kept DEF Reconcile, RunInv, RunTypeOK, TargetChosen, UpgradeSteps, TodoMarked, Core
  <1> QED BY <1>3, <1>4 DEF Core

(* The transaction of a deploy *)
LEMMA DeployTxType ==
  ASSUME Core
  PROVE  /\ \A p \in Programs : DeploySetPending(p) => Core'
         /\ DeployBroadcast => Core'
  <1>1. ASSUME NEW p \in Programs, DeploySetPending(p)
        PROVE  Core'
    <2>1. PICK t \in TxIds : Build(t, p, "deploy", endpoint) /\ job' = [NoJob EXCEPT !.tx = t]
      BY <1>1 DEF DeploySetPending
    <2>2. LedgerTypeOK'
      BY <2>1, BuildType DEF Core, ManagerTypeOK, Actions
    <2>3. DeployMarker \in Markers /\ DeployMarker.action \in Actions
      BY NoValues DEF DeployMarker, NoMarker, Markers, Actions, Core, ManagerTypeOK, MaybeEndpoint
    <2>4. DiskInv'
      BY <1>1, <2>3, SetPendingType DEF DeploySetPending, Core
    <2>5. job' \in Jobs
      BY <2>1, NoValues DEF NoJob, Jobs, MaybeTx
    <2>6. ManagerTypeOK' /\ RunInv' /\ TodoMarked'
      BY <1>1, <2>5, Kept DEF DeploySetPending, Goto, RunInv, RunTypeOK, TargetChosen, UpgradeSteps,
                               TodoMarked, Steps, Core
    <2> QED BY <2>2, <2>4, <2>6 DEF Core
  <1>2. CASE DeployBroadcast
    BY <1>2, Kept, SubmitType DEF DeployBroadcast, Goto, RunInv, RunTypeOK, TargetChosen, UpgradeSteps,
                                   TodoMarked, Steps, Core
  <1> QED BY <1>1, <1>2

(* The record of a deploy, and the end of the task *)
LEMMA DeployedType ==
  ASSUME Core
  PROVE  DeployedRecord \in Records /\ job.tx \in MaybeTx
  BY DEF DeployedRecord, Records, Editions, MaybeTx, MaybeEndpoint, Core, ManagerTypeOK, RunInv,
         RunTypeOK, Jobs

(* The beginning of an export *)
LEMMA BeginExportType ==
  ASSUME Core, BeginExport, UNCHANGED opts
  PROVE  RunInv' /\ TodoMarked'
  BY NoValues DEF BeginExport, RunInv, RunTypeOK, TargetChosen, UpgradeSteps, TodoMarked, Steps,
                  Outcomes, Core

(* The end of the deploy loop: a record is stored, or the task returns *)
LEMMA DeployEndType ==
  ASSUME Core
  PROVE  /\ \A p \in Programs : DeployRecord(p) => Core'
         /\ DeployReturns => Core'
  <1>1. ASSUME NEW p \in Programs, DeployRecord(p)
        PROVE  Core'
    <2>1. DiskInv' /\ ManagerTypeOK'
      BY <1>1, DeployedType, RecordType DEF DeployRecord, Core, Actions
    <2>2. LedgerTypeOK' /\ RunInv' /\ TodoMarked'
      BY <1>1, NoValues, Kept DEF DeployRecord, Goto, RunInv, RunTypeOK, TargetChosen, UpgradeSteps,
                                   TodoMarked, Steps, Core
    <2> QED BY <2>1, <2>2 DEF Core
  <1>2. CASE DeployReturns
    BY <1>2, Kept, BeginExportType, EndRunType DEF DeployReturns, Core
  <1> QED BY <1>1, <1>2

(* Export *)
LEMMA ExportType ==
  ASSUME Core, StartExport \/ ExportStep
  PROVE  Core'
  <1>1. CASE StartExport
    <2>1. opts' \in Options
      BY <1>1, NoValues DEF StartExport, NoOpts, Options, Actions
    <2>2. RunInv' /\ TodoMarked'
      BY <1>1, <2>1, NoValues DEF StartExport, BeginExport, RunInv, RunTypeOK, TargetChosen,
                                   UpgradeSteps, TodoMarked, Steps, Outcomes, Core
    <2>3. LedgerTypeOK' /\ DiskInv'
      BY <1>1, Kept DEF StartExport
    <2>4. ManagerTypeOK'
      BY <1>1 DEF StartExport, ValidateHttpMetadata, ManagerTypeOK, Core
    <2> QED BY <2>2, <2>3, <2>4 DEF Core
  <1>2. CASE ExportAfterUpgrade
    BY <1>2, Kept, BeginExportType DEF ExportAfterUpgrade, Core
  <1>3. ASSUME NEW p \in Programs, ExportRead(p)
        PROVE  Core'
    <2>1. PICK r \in OnChainReads(endpoint, p) :
            CacheDeployment(p, r) /\ existing' = [existing EXCEPT ![p] = GetDeployment(p, r)]
      BY <1>3 DEF ExportRead
    <2>2. cache' \in [Programs -> Records] /\ existing' \in [Programs -> Records]
      BY <2>1, CacheDeploymentType, GetDeploymentType DEF Core, DiskInv, RunInv, RunTypeOK
    <2>3. LedgerTypeOK' /\ DiskInv'
      BY <1>3, Kept DEF ExportRead
    <2>4. ManagerTypeOK'
      BY <1>3, <2>2 DEF ExportRead, ManagerTypeOK, Core
    <2>5. RunInv' /\ TodoMarked'
      BY <1>3, <2>2 DEF ExportRead, RunInv, RunTypeOK, TargetChosen, UpgradeSteps, TodoMarked, Core
    <2> QED BY <2>3, <2>4, <2>5 DEF Core
  <1> QED BY <1>1, <1>2, <1>3 DEF ExportStep

(* The bundle that export writes *)
LEMMA ExportWriteType ==
  ASSUME Core, ExportWrite
  PROVE  Core' /\ bundle' \in Bundles
  <1>1. Core'
    BY Kept, EndRunType DEF ExportWrite, Core
  <1>2. PICK compiled \in {NoTx, CompiledAbi} :
          bundle' = [endpoint |-> endpoint,
                     programs |-> [p \in Programs |->
                       IF existing[p] = NoRecord THEN NoEntry
                       ELSE [status |-> existing[p].status,
                             txId |-> IF existing[p].status = "complete" THEN existing[p].txId ELSE NoTx,
                             abi |-> ExportedAbi(p, compiled)]]]
    BY DEF ExportWrite
  <1>3. ASSUME NEW p \in Programs
        PROVE  /\ existing[p].status \in {"absent", "complete", "degraded", "recovered"}
               /\ existing[p].txId \in MaybeTx /\ NoTx \in MaybeTx
               /\ ExportedAbi(p, compiled) \in MaybeTx \cup {CompiledAbi}
    <2>1. existing[p] \in Records /\ abi[p] \in MaybeTx /\ abiCache[p] \in MaybeTx
      BY DEF Core, RunInv, RunTypeOK, DiskInv, DiskTypeOK, ManagerTypeOK
    <2> QED BY <2>1 DEF Records, ExportedAbi, MaybeTx
  <1>4. endpoint \in MaybeEndpoint
    BY DEF Core, ManagerTypeOK, MaybeEndpoint
  <1>5. bundle' \in Bundles
    BY <1>2, <1>3, <1>4, NoValues DEF Bundles, BundleEntries
  <1> QED BY <1>1, <1>5

-----------------------------------------------------------------------------
(* The program that an upgrade is about *)
LEMMA TargetType ==
  ASSUME Core, pc \in UpgradeSteps
  PROVE  Target \in Programs
  BY LocalPrograms DEF Target, Core, RunInv, RunTypeOK, TargetChosen, Options

(* Steps of an upgrade that look for the record it starts from *)
LEMMA UpgradeReadType ==
  ASSUME Core, UpgradeResolve \/ UpgradeFallback
  PROVE  Core'
  <1>1. Target \in Programs
    BY TargetType DEF UpgradeResolve, UpgradeFallback, UpgradeSteps
  <1>2. CASE UpgradeResolve
    <2>1. PICK r \in OnChainReads(endpoint, Target) :
            /\ CacheDeployment(Target, r)
            /\ job' = [NoJob EXCEPT !.base = GetDeployment(Target, r)]
            /\ Goto(IF GetDeployment(Target, r) = NoRecord THEN "fallback" ELSE "upgrade")
      BY <1>2 DEF UpgradeResolve
    <2>2. cache' \in [Programs -> Records] /\ job' \in Jobs
      BY <1>1, <2>1, NoValues, CacheDeploymentType, GetDeploymentType DEF Core, DiskInv, Jobs, NoJob
    <2>3. LedgerTypeOK' /\ DiskInv'
      BY <1>2, Kept DEF UpgradeResolve
    <2>4. ManagerTypeOK'
      BY <1>2, <2>2 DEF UpgradeResolve, ManagerTypeOK, Core
    <2>5. RunInv' /\ TodoMarked'
      BY <1>2, <2>1, <2>2 DEF UpgradeResolve, Goto, RunInv, RunTypeOK, TargetChosen, UpgradeSteps,
                               TodoMarked, Steps, Core
    <2> QED BY <2>3, <2>4, <2>5 DEF Core
  <1>3. CASE UpgradeFallback
    <2>1. PICK r \in OnChainReads(endpoint, Target) :
            job' = [NoJob EXCEPT !.base = DegradedRecord(endpoint, r.edition),
                                 !.previous = r.edition, !.fallback = TRUE]
      BY <1>3 DEF UpgradeFallback
    <2>2. job' \in Jobs
      BY <1>1, <2>1, NoValues, ReadsType, DegradedType DEF Core, ManagerTypeOK, Jobs, NoJob
    <2>3. LedgerTypeOK' /\ DiskInv' /\ ManagerTypeOK'
      BY <1>3, Kept DEF UpgradeFallback
    <2>4. RunInv' /\ TodoMarked'
      BY <1>3, <2>2 DEF UpgradeFallback, Goto, RunInv, RunTypeOK, TargetChosen, UpgradeSteps,
                         TodoMarked, Steps, Core
    <2> QED BY <2>3, <2>4 DEF Core
  <1> QED BY <1>2, <1>3

(* The markers of an upgrade *)
LEMMA UpgradeMarkerType ==
  ASSUME Core, NEW n \in Editions, NEW t \in MaybeTx, NEW c \in BOOLEAN
  PROVE  /\ [UpgradeMarker(n) EXCEPT !.txId = t, !.confirmed = c] \in Markers
         /\ [UpgradeMarker(n) EXCEPT !.txId = t, !.confirmed = c].action \in Actions
         /\ UpgradeMarker(n) \in Markers /\ UpgradeMarker(n).action \in Actions
         /\ [UpgradeMarker(n) EXCEPT !.txId = t] \in Markers
         /\ [UpgradeMarker(n) EXCEPT !.txId = t].action \in Actions
  BY NoValues DEF UpgradeMarker, NoMarker, Markers, Actions, Core, ManagerTypeOK, MaybeEndpoint

(* The upgrade marker and the transaction that is built under it *)
LEMMA UpgradeBeginType ==
  ASSUME Core, UpgradeSetPending
  PROVE  Core'
  <1>1. Target \in Programs
    BY TargetType DEF UpgradeSetPending, UpgradeSteps
  <1>2. PICK n \in {visible[endpoint][Target], Unknown}, t \in TxIds :
          /\ PreviousEdition(n) >= 0
          /\ Build(t, Target, "upgrade", endpoint)
          /\ job' = [job EXCEPT !.tx = t, !.previous = PreviousEdition(n),
                                !.edition = PreviousEdition(n) + 1]
          /\ SetPending(Target, UpgradeMarker(PreviousEdition(n)))
    BY DEF UpgradeSetPending
  <1>3. PreviousEdition(n) \in Editions
    <2>1. n \in Editions
      BY <1>1, <1>2 DEF Core, LedgerTypeOK, ManagerTypeOK, Editions
    <2>2. job.previous \in Editions /\ job.base.edition \in Editions
      BY DEF Core, RunInv, RunTypeOK, Jobs, Records
    <2> QED BY <2>1, <2>2 DEF PreviousEdition
  <1>4. PreviousEdition(n) \in Nat
    BY <1>2, <1>3 DEF Editions
  <1>5. LedgerTypeOK'
    BY <1>1, <1>2, BuildType DEF Core, ManagerTypeOK, Actions
  <1>6. DiskInv'
    BY <1>2, <1>3, UpgradeMarkerType, SetPendingType DEF UpgradeSetPending, Core, MaybeTx
  <1>7. job' \in Jobs
    <2> DEFINE m == PreviousEdition(n)
    <2>1. m \in Editions /\ m + 1 \in Editions /\ t \in MaybeTx /\ job \in Jobs
      BY <1>4 DEF Editions, MaybeTx, Core, RunInv, RunTypeOK
    <2>2. job' = [job EXCEPT !.tx = t, !.previous = m, !.edition = m + 1]
      BY <1>2
    <2> HIDE DEF m
    <2> QED BY <2>1, <2>2 DEF Jobs
  <1>8. ManagerTypeOK' /\ RunInv' /\ TodoMarked'
    BY <1>7, Kept DEF UpgradeSetPending, Goto, RunInv, RunTypeOK, TargetChosen, UpgradeSteps,
                       TodoMarked, Steps, Core
  <1> QED BY <1>5, <1>6, <1>8 DEF Core

(* Broadcast, confirmation and the edition wait of an upgrade *)
LEMMA UpgradeTxType ==
  ASSUME Core, UpgradeBroadcast \/ UpgradeSetTxId \/ UpgradeAccepted \/ UpgradeRejected \/ UpgradeAdvances
  PROVE  Core'
  <1>1. job.previous \in Editions /\ job.tx \in MaybeTx
    BY DEF Core, RunInv, RunTypeOK, Jobs
  <1>2. CASE UpgradeBroadcast
    BY <1>2, Kept, SubmitType DEF UpgradeBroadcast, Goto, RunInv, RunTypeOK, TargetChosen,
                                   UpgradeSteps, TodoMarked, Steps, Core
  <1>3. CASE UpgradeSetTxId
    <2>1. DiskInv'
      BY <1>1, <1>3, UpgradeMarkerType, SetPendingType DEF UpgradeSetTxId, Core
    <2> QED BY <1>3, <2>1, Kept DEF UpgradeSetTxId, Goto, RunInv, RunTypeOK, TargetChosen,
                                     UpgradeSteps, TodoMarked, Steps, Core
  <1>4. CASE UpgradeAccepted
    <2>1. DiskInv'
      BY <1>1, <1>4, UpgradeMarkerType, SetPendingType DEF UpgradeAccepted, Core
    <2> QED BY <1>4, <2>1, Kept DEF UpgradeAccepted, Goto, RunInv, RunTypeOK, TargetChosen,
                                     UpgradeSteps, TodoMarked, Steps, Core
  <1>5. CASE UpgradeRejected
    <2>1. DiskInv'
      BY <1>5, NoValues, SetPendingType DEF UpgradeRejected, ClearPending, Core
    <2> QED BY <1>5, <2>1, Kept, EndRunType DEF UpgradeRejected, Core
  <1>6. CASE UpgradeAdvances
    <2>1. Target \in Programs
      BY <1>6, TargetType DEF UpgradeAdvances, UpgradeSteps
    <2>2. job' \in Jobs
      BY <1>6, <2>1 DEF UpgradeAdvances, Core, LedgerTypeOK, ManagerTypeOK, RunInv, RunTypeOK, Jobs
    <2> QED BY <1>6, <2>2, Kept DEF UpgradeAdvances, Goto, RunInv, RunTypeOK, TargetChosen,
                                     UpgradeSteps, TodoMarked, Steps, Core
  <1> QED BY <1>2, <1>3, <1>4, <1>5, <1>6

(* The record of an upgrade is a record *)
LEMMA UpgradedType ==
  ASSUME Core
  PROVE  UpgradedRecord \in Records /\ job.tx \in MaybeTx
  BY DEF UpgradedRecord, Records, MaybeEndpoint, Core, ManagerTypeOK, RunInv, RunTypeOK, Jobs

(* The upgrade is recorded *)
LEMMA UpgradeRecordType ==
  ASSUME Core, UpgradeRecord
  PROVE  Core'
  <1>1. DiskInv' /\ ManagerTypeOK' /\ LedgerTypeOK'
    BY UpgradedType, RecordType, Kept DEF UpgradeRecord, Core, Actions
  <1>2. CASE opts.export
    BY <1>1, <1>2, NoValues DEF UpgradeRecord, Goto, RunInv, RunTypeOK, TargetChosen, UpgradeSteps,
                                 TodoMarked, Steps, Core
  <1>3. CASE ~opts.export
    BY <1>1, <1>3, EndRunType DEF UpgradeRecord, Core
  <1> QED BY <1>2, <1>3

(* The death of the process, and a new one *)
LEMMA CrashType ==
  ASSUME Core, CrashStep
  PROVE  Core'
  <1>1. RunInv' /\ TodoMarked' /\ UNCHANGED <<ledgerVars, endpoint>>
    BY EndRunType DEF CrashStep, Crash, UpgradeRecordCut, ReconcileCut, DeployRecordCut, RecoverMarkerCut
  <1>2. DiskInv' /\ ManagerTypeOK'
    <2>1. CASE Crash
      BY <2>1, Kept, InvalidateType DEF Crash, Core, ManagerTypeOK
    <2>2. CASE UpgradeRecordCut
      BY <1>1, <2>2, UpgradedType, RecordCutType DEF UpgradeRecordCut, Core, Actions
    <2>3. ASSUME NEW p \in Programs, ReconcileCut(p)
          PROVE  DiskInv' /\ ManagerTypeOK'
      <3>1. PICK r \in OnChainReads(endpoint, p) :
              RecordCut(p, DegradedRecord(endpoint, r.edition), "deploy", NoTx)
        BY <2>3 DEF ReconcileCut
      <3>2. DegradedRecord(endpoint, r.edition) \in Records
        BY ReadsType, DegradedType DEF Core, ManagerTypeOK
      <3> QED BY <1>1, <3>1, <3>2, RecordCutType DEF Core, Actions, MaybeTx
    <2>4. ASSUME NEW p \in Programs, DeployRecordCut(p)
          PROVE  DiskInv' /\ ManagerTypeOK'
      BY <1>1, <2>4, DeployedType, RecordCutType DEF DeployRecordCut, Core, Actions
    <2>5. ASSUME NEW p \in Programs, RecoverMarkerCut(p)
          PROVE  DiskInv' /\ ManagerTypeOK'
      BY <1>1, <2>5, RecoveryCutType DEF RecoverMarkerCut, TodoMarked, Core
    <2> QED BY <2>1, <2>2, <2>3, <2>4, <2>5 DEF CrashStep
  <1> QED BY <1>1, <1>2, Kept DEF Core

(* A new process, perhaps with another endpoint *)
LEMMA NewProcessType ==
  ASSUME Core, NewProcess
  PROVE  Core'
  BY Kept, InvalidateType DEF NewProcess, runVars, RunInv, RunTypeOK, TargetChosen, UpgradeSteps,
                              TodoMarked, Core

(* The chain moves while a task is between two awaits *)
LEMMA ChainType ==
  ASSUME Core, ChainStep
  PROVE  Core'
  <1>1. LedgerTypeOK'
    BY LedgerNextType DEF ChainStep, Core
  <1>2. RunInv' /\ TodoMarked'
    BY DEF ChainStep, runVars, diskVars, RunInv, RunTypeOK, TargetChosen, TodoMarked, Core
  <1> QED BY <1>1, <1>2, Kept DEF ChainStep, Core

-----------------------------------------------------------------------------
(* Init and Next *)
LEMMA TypeInit == Init => TypeInv
  <1> SUFFICES ASSUME Init PROVE TypeInv
    OBVIOUS
  <1>1. LedgerTypeOK
    BY LedgerAssumption DEF Init, LedgerInit, LedgerTypeOK, TxRecord, Editions
  <1>2. DiskInv
    BY NoValues DEF Init, DiskInit, DiskInv, DiskTypeOK, MarkersWhole, MaybeEndpoint, MaybeTx
  <1>3. ManagerTypeOK
    BY NoValues DEF Init, ManagerInit, FreshSession, ManagerTypeOK, MaybeTx
  <1>4. RunInv /\ TodoMarked
    BY NoValues DEF Init, RunInv, RunTypeOK, TargetChosen, UpgradeSteps, TodoMarked, Steps, Outcomes
  <1>5. bundle \in Bundles /\ crashes \in 0..MaxCrashes
    BY NoValues, TasksAssumption DEF Init
  <1> QED BY <1>1, <1>2, <1>3, <1>4, <1>5 DEF TypeInv, Core

(* Every step preserves the inductive type invariant *)
LEMMA TypeStep == TypeInv /\ [Next]_vars => TypeInv'
  <1> SUFFICES ASSUME TypeInv, [Next]_vars PROVE TypeInv'
    OBVIOUS
  <1> Core /\ MaxCrashes \in Nat
    BY TasksAssumption DEF TypeInv
  <1>1. CASE CrashStep /\ UNCHANGED bundle
    BY <1>1, CrashType DEF CrashStep, TypeInv
  <1>2. CASE TaskStep /\ UNCHANGED <<bundle, crashes>>
    <2>1. Core'
      BY <1>2, StartType, RecoveryType, DeployLoopType, DeployMoveType, EndType, ReconcileType,
         DeployTxType, DeployEndType, ExportType, UpgradeReadType, UpgradeBeginType, UpgradeTxType,
         UpgradeRecordType
         DEF TaskStep, DeployStep, UpgradeStep
    <2> QED BY <1>2, <2>1 DEF TypeInv
  <1>3. CASE NewProcess /\ UNCHANGED <<bundle, crashes>>
    BY <1>3, NewProcessType DEF TypeInv
  <1>4. CASE ChainStep /\ UNCHANGED <<bundle, crashes>>
    BY <1>4, ChainType DEF TypeInv
  <1>5. CASE ExportWrite /\ UNCHANGED crashes
    BY <1>5, ExportWriteType DEF TypeInv
  <1>6. CASE UNCHANGED vars
    BY <1>6, Kept DEF vars, runVars, diskVars, RunInv, RunTypeOK, TargetChosen, TodoMarked, TypeInv, Core
  <1> QED BY <1>1, <1>2, <1>3, <1>4, <1>5, <1>6 DEF Next

(* Every variable of the deployment model keeps its type: editions stay      *)
(* numbers or Absent, history counts natural, targets local programs.        *)
THEOREM TypeCorrect == Spec => []TypeOK
  <1>1. Spec => []TypeInv
    BY TypeInit, TypeStep, PTL DEF Spec
  <1>2. TypeInv => TypeOK
    BY DEF TypeInv, Core, DiskInv, RunInv, TypeOK
  <1> QED BY <1>1, <1>2, PTL

-----------------------------------------------------------------------------
(* The inductive invariant behind RecordsMatchMetadata: a running task has   *)
(* validated .network.json, a validated file names no other endpoint, and a  *)
(* directory without the file holds no record and no history                 *)
SessionMatches ==
  /\ pc # "idle" => metadataValidated
  /\ metadataValidated => meta \in {NoEndpoint, endpoint}

DiskMatches ==
  /\ meta = NoEndpoint => \A p \in Programs : record[p] = NoRecord /\ history[p] = {}
  /\ \A p \in Programs : record[p] # NoRecord => record[p].endpoint = meta
  /\ \A p \in Programs : \A h \in history[p] : h.record.endpoint = meta

MetadataInv == NetType = "http" /\ ~Ephemeral => SessionMatches /\ DiskMatches

(* However many of its writes are done, record() keeps the directory about   *)
(* one endpoint: the metadata is the first of them                           *)
LEMMA RecordWritesMatch ==
  ASSUME DiskTypeOK, DiskMatches, meta \in {NoEndpoint, endpoint}, NetType = "http", ~Ephemeral,
         endpoint \in Endpoints, NEW p, NEW rec \in Records, rec.endpoint = endpoint,
         NEW action \in Actions, NEW snapshot \in MaybeTx, NEW n \in Nat, n >= 1,
         RecordWrites(p, rec, action, snapshot, n)
  PROVE  DiskMatches' /\ meta' = endpoint
  <1>1. meta' = endpoint /\ endpoint # NoEndpoint
    BY StateAssumption DEF RecordWrites
  <1>2. \A q \in Programs : record'[q] \in {record[q], rec}
    BY DEF RecordWrites, DiskTypeOK
  <1>3. \A q \in Programs : record'[q] # NoRecord => record'[q].endpoint = meta'
    BY <1>1, <1>2 DEF DiskMatches
  <1>4. \A q \in Programs : history'[q] \in {history[q], history[q] \cup {[action |-> action, record |-> rec]}}
    BY DEF RecordWrites, DiskTypeOK
  <1>5. \A q \in Programs : \A h \in history'[q] : h.record.endpoint = meta'
    BY <1>1, <1>4 DEF DiskMatches
  <1> QED BY <1>1, <1>3, <1>5 DEF DiskMatches

(* A step that writes no metadata, record or history, and does not forget    *)
(* a validation while a task runs                                            *)
LEMMA DiskMatchesKept ==
  ASSUME DiskMatches, UNCHANGED <<meta, record, history>>
  PROVE  DiskMatches'
  BY DEF DiskMatches

(* record() after a validated session keeps the directory about one endpoint *)
LEMMA MetadataRecord ==
  ASSUME Core, MetadataInv, NetType = "http", ~Ephemeral, pc # "idle", endpoint' = endpoint,
         NEW p, NEW rec \in Records, rec.endpoint = endpoint, NEW action \in Actions,
         NEW snapshot \in MaybeTx
  PROVE  /\ Record(p, rec, action, snapshot) => SessionMatches' /\ DiskMatches'
         /\ RecordCut(p, rec, action, snapshot) => DiskMatches'
  <1>1. DiskTypeOK /\ DiskMatches /\ metadataValidated /\ meta \in {NoEndpoint, endpoint}
          /\ endpoint \in Endpoints
    BY DEF Core, DiskInv, ManagerTypeOK, MetadataInv, SessionMatches
  <1>2. ASSUME Record(p, rec, action, snapshot)
        PROVE  SessionMatches' /\ DiskMatches'
    <2>1. RecordWrites(p, rec, action, snapshot, 5)
      BY <1>2 DEF Record
    <2>2. DiskMatches' /\ meta' = endpoint
      BY <1>1, <2>1, RecordWritesMatch
    <2>3. metadataValidated'
      BY <1>1, <1>2 DEF Record
    <2> QED BY <2>2, <2>3 DEF SessionMatches
  <1>3. ASSUME RecordCut(p, rec, action, snapshot)
        PROVE  DiskMatches'
    <2>1. PICK n \in 1..4 : RecordWrites(p, rec, action, snapshot, n)
      BY <1>3 DEF RecordCut
    <2> QED BY <1>1, <2>1, RecordWritesMatch
  <1> QED BY <1>2, <1>3

(* Steps that touch neither the metadata nor records, history and session    *)
Quiet ==
  UNCHANGED <<meta, record, history, endpoint, metadataValidated>> /\ (pc' # "idle" => pc # "idle")

(* A step that writes no record keeps the correspondence *)
LEMMA QuietMatches ==
  ASSUME MetadataInv, Quiet
  PROVE  MetadataInv'
  BY DEF MetadataInv, Quiet, SessionMatches, DiskMatches

(* Every step keeps records and metadata about the same endpoint *)
LEMMA MetadataStep == Core /\ MetadataInv /\ [Next]_vars => MetadataInv'
  <1> SUFFICES ASSUME Core, MetadataInv, [Next]_vars, NetType = "http", ~Ephemeral
               PROVE  SessionMatches' /\ DiskMatches'
    BY DEF MetadataInv
  <1> USE DEF diskVars, sessionVars, runVars
  <1>d. SessionMatches /\ DiskMatches /\ endpoint \in Endpoints /\ NoTx \in MaybeTx
          /\ "deploy" \in Actions /\ "upgrade" \in Actions
    BY DEF MetadataInv, Core, ManagerTypeOK, MaybeTx, Actions
  <1>q. Quiet => SessionMatches' /\ DiskMatches'
    BY QuietMatches DEF MetadataInv
  <1>1. CASE StartDeploy \/ StartUpgrade \/ StartExport
    <2>1. MetadataTrusted /\ metadataValidated' /\ UNCHANGED <<diskVars, endpoint>>
      BY <1>1 DEF StartDeploy, StartUpgrade, StartExport, BeginRecovery, ValidateHttpMetadata
    <2>2. meta \in {NoEndpoint, endpoint}
      BY <1>d, <2>1 DEF MetadataTrusted, SessionMatches
    <2> QED BY <1>d, <2>1, <2>2, DiskMatchesKept DEF SessionMatches
  <1>2. ASSUME NEW p \in Programs, RecoverMarker(p)
        PROVE  SessionMatches' /\ DiskMatches'
    <2>1. PICK r \in OnChainReads(endpoint, p) : RecoverPending(p, r)
      BY <1>2 DEF RecoverMarker
    <2>2. pc # "idle" /\ UNCHANGED <<endpoint, pc>> /\ pending[p].action \in Actions
      BY <1>2 DEF RecoverMarker, TodoMarked, Core
    <2>3. CASE Record(p, RecoveredRecord(p, r), pending[p].action, NoTx)
      <3>1. RecoveredRecord(p, r) \in Records /\ RecoveredRecord(p, r).endpoint = endpoint
        BY RecoveredType DEF RecoveredRecord, Core, DiskInv
      <3> QED BY <1>d, <2>2, <2>3, <3>1, MetadataRecord
    <2>4. CASE UNCHANGED <<meta, record, history, sessionVars>>
      BY <1>q, <2>2, <2>4 DEF Quiet
    <2> QED BY <2>1, <2>3, <2>4 DEF RecoverPending
  <1>3. ASSUME NEW p \in Programs, Reconcile(p)
        PROVE  SessionMatches' /\ DiskMatches'
    <2>1. PICK r \in OnChainReads(endpoint, p) :
            \/ Record(p, DegradedRecord(endpoint, r.edition), "deploy", NoTx)
            \/ UNCHANGED <<diskVars, sessionVars>>
      BY <1>3 DEF Reconcile
    <2>2. pc # "idle" /\ UNCHANGED <<endpoint, pc>>
      BY <1>3 DEF Reconcile
    <2>3. DegradedRecord(endpoint, r.edition) \in Records
            /\ DegradedRecord(endpoint, r.edition).endpoint = endpoint
      BY <1>d, ReadsType, DegradedType DEF DegradedRecord, Core
    <2>4. CASE UNCHANGED <<diskVars, sessionVars>>
      BY <1>q, <2>2, <2>4 DEF Quiet
    <2> QED BY <1>d, <2>1, <2>2, <2>3, <2>4, MetadataRecord
  <1>4. ASSUME NEW p \in Programs, DeployRecord(p)
        PROVE  SessionMatches' /\ DiskMatches'
    <2>1. DeployedRecord.endpoint = endpoint
      BY DEF DeployedRecord
    <2> QED BY <1>d, <1>4, <2>1, DeployedType, MetadataRecord DEF DeployRecord
  <1>5. CASE UpgradeRecord
    <2>1. UpgradedRecord.endpoint = endpoint
      BY DEF UpgradedRecord
    <2> QED BY <1>d, <1>5, <2>1, UpgradedType, MetadataRecord DEF UpgradeRecord
  <1>6. CASE CrashStep
    <2>1. pc' = "idle" /\ metadataValidated' = FALSE /\ endpoint' = endpoint
      BY <1>6 DEF CrashStep, Crash, UpgradeRecordCut, ReconcileCut, DeployRecordCut, RecoverMarkerCut,
                  RecoveryCut, RecordCut, InvalidateSession, EndRun
    <2>2. SessionMatches'
      BY <2>1 DEF SessionMatches
    <2>3. CASE Crash
      BY <1>d, <2>2, <2>3, DiskMatchesKept DEF Crash
    <2>4. CASE UpgradeRecordCut
      <3>1. UpgradedRecord.endpoint = endpoint
        BY DEF UpgradedRecord
      <3> QED BY <1>d, <2>1, <2>2, <2>4, <3>1, UpgradedType, MetadataRecord DEF UpgradeRecordCut
    <2>5. ASSUME NEW p \in Programs, ReconcileCut(p)
          PROVE  DiskMatches'
      <3>1. PICK r \in OnChainReads(endpoint, p) :
              RecordCut(p, DegradedRecord(endpoint, r.edition), "deploy", NoTx)
        BY <2>5 DEF ReconcileCut
      <3>2. DegradedRecord(endpoint, r.edition) \in Records
              /\ DegradedRecord(endpoint, r.edition).endpoint = endpoint
        BY <1>d, ReadsType, DegradedType DEF DegradedRecord, Core
      <3> QED BY <1>d, <2>1, <2>5, <3>1, <3>2, MetadataRecord DEF ReconcileCut
    <2>6. ASSUME NEW p \in Programs, DeployRecordCut(p)
          PROVE  DiskMatches'
      <3>1. DeployedRecord.endpoint = endpoint
        BY DEF DeployedRecord
      <3> QED BY <1>d, <2>1, <2>6, <3>1, DeployedType, MetadataRecord DEF DeployRecordCut
    <2>7. ASSUME NEW p \in Programs, RecoverMarkerCut(p)
          PROVE  DiskMatches'
      <3>1. PICK r \in OnChainReads(endpoint, p) :
              RecordCut(p, RecoveredRecord(p, r), pending[p].action, NoTx)
        BY <2>7 DEF RecoverMarkerCut, RecoveryCut
      <3>2. RecoveredRecord(p, r) \in Records /\ RecoveredRecord(p, r).endpoint = endpoint
        BY RecoveredType DEF RecoveredRecord, Core, DiskInv
      <3>3. pc # "idle" /\ pending[p].action \in Actions
        BY <2>7 DEF RecoverMarkerCut, TodoMarked, Core
      <3> QED BY <1>d, <2>1, <3>1, <3>2, <3>3, MetadataRecord
    <2> QED BY <1>6, <2>2, <2>3, <2>4, <2>5, <2>6, <2>7 DEF CrashStep
  <1>7. CASE NewProcess
    <2>1. metadataValidated' = FALSE /\ pc' = "idle" /\ UNCHANGED <<meta, record, history>>
      BY <1>7 DEF NewProcess, InvalidateSession
    <2> QED BY <1>d, <2>1, DiskMatchesKept DEF SessionMatches
  <1>8. CASE ChainStep \/ ExportWrite \/ ExportStep \/ EndRecovery \/ Abort \/ UNCHANGED vars
    <2>1. Quiet
      BY <1>8 DEF Quiet, ChainStep, ExportWrite, ExportStep, ExportAfterUpgrade, ExportRead, EndRecovery,
                  Abort, vars, EndRun
    <2> QED BY <1>q, <2>1
  <1>9. ASSUME NEW p \in Programs, LookupExisting(p) \/ PreflightProgram(p) \/ DeploySetPending(p)
        PROVE  SessionMatches' /\ DiskMatches'
    <2>1. Quiet
      BY <1>9 DEF Quiet, LookupExisting, PreflightProgram, DeploySetPending
    <2> QED BY <1>q, <2>1
  <1>10. CASE EndLookup \/ PreflightStops \/ PreflightPasses \/ EndReconcile \/ DeployBroadcast
                \/ DeployAccepted \/ DeployRejected \/ DeployReturns
    <2>1. Quiet
      BY <1>10 DEF Quiet, EndLookup, PreflightStops, PreflightPasses, EndReconcile, DeployBroadcast,
                   DeployAccepted, DeployRejected, DeployReturns, EndRun
    <2> QED BY <1>q, <2>1
  <1>11. CASE UpgradeResolve \/ UpgradeFallback \/ UpgradeSetPending \/ UpgradeBroadcast
                \/ UpgradeSetTxId \/ UpgradeAccepted \/ UpgradeRejected \/ UpgradeAdvances
    <2>1. Quiet
      BY <1>11 DEF Quiet, UpgradeResolve, UpgradeFallback, UpgradeSetPending, UpgradeBroadcast,
                   UpgradeSetTxId, UpgradeAccepted, UpgradeRejected, UpgradeAdvances, EndRun
    <2> QED BY <1>q, <2>1
  <1> QED
    BY <1>1, <1>2, <1>3, <1>4, <1>5, <1>6, <1>7, <1>8, <1>9, <1>10, <1>11
    DEF Next, TaskStep, DeployStep, UpgradeStep, RecoveryStep

(* One directory, one chain: whatever crashes, reconfigurations and           *)
(* recoveries come in between, the records and the history of an HTTP network *)
(* are about the endpoint that .network.json names.                           *)
THEOREM MetadataCorrect == Spec => []RecordsMatchMetadata
  <1>1. Init => MetadataInv
    BY DEF Init, DiskInit, ManagerInit, FreshSession, MetadataInv, SessionMatches, DiskMatches
  <1>2. TypeInv /\ MetadataInv /\ [Next]_vars => MetadataInv'
    BY MetadataStep DEF TypeInv
  <1>3. MetadataInv => RecordsMatchMetadata
    BY DEF MetadataInv, DiskMatches, RecordsMatchMetadata, Persistent
  <1> QED BY <1>1, <1>2, <1>3, TypeInit, TypeStep, PTL DEF Spec


-----------------------------------------------------------------------------
(* The ledger: reads lag, and what was accepted is on the chain             *)
VisibleBehind ==
  \A e \in Endpoints, p \in Programs : visible[e][p] <= edition[e][p]

AcceptedOnChain ==
  \A t \in TxIds : tx[t].status = "accepted" => OnChain(tx[t].endpoint, tx[t].program)

LedgerInv == VisibleBehind /\ AcceptedOnChain

(* The chain only grows, and what a transaction is about never changes      *)
LedgerGrows ==
  /\ \A e \in Endpoints, p \in Programs :
       edition[e][p] <= edition'[e][p] /\ visible[e][p] <= visible'[e][p]
  /\ \A t \in TxIds : tx[t].status # "unused" =>
       /\ tx'[t].status # "unused"
       /\ tx'[t].program = tx[t].program /\ tx'[t].action = tx[t].action
       /\ tx'[t].endpoint = tx[t].endpoint
       /\ tx[t].status = "accepted" => tx'[t].status = "accepted"

(* What a step can do to the ledger *)
LedgerStep ==
  \/ UNCHANGED ledgerVars
  \/ \E t \in TxIds, p \in Programs, a \in Actions : Build(t, p, a, endpoint)
  \/ pc \in {"deploy-send", "upgrade-send"} /\ Submit(job.tx)
  \/ LedgerNext

(* No action of a task does anything else to the ledger *)
LEMMA StepsOfLedger ==
  ASSUME Core, [Next]_vars
  PROVE  LedgerStep
  <1> USE DEF LedgerStep
  <1>1. ASSUME NEW p \in Programs, DeploySetPending(p)
        PROVE  LedgerStep
    BY <1>1 DEF DeploySetPending, Actions
  <1>2. CASE UpgradeSetPending
    <2>1. Target \in Programs
      BY <1>2, TargetType DEF UpgradeSetPending, UpgradeSteps
    <2> QED BY <1>2, <2>1 DEF UpgradeSetPending, Actions
  <1>3. CASE DeployBroadcast \/ UpgradeBroadcast
    BY <1>3 DEF DeployBroadcast, UpgradeBroadcast
  <1>4. CASE CrashStep
    BY <1>4 DEF CrashStep, Crash, UpgradeRecordCut, ReconcileCut, DeployRecordCut, RecoverMarkerCut
  <1>5. CASE StartDeploy \/ StartUpgrade \/ StartExport \/ RecoveryStep \/ ExportStep \/ Abort \/ ExportWrite
    BY <1>5 DEF StartDeploy, StartUpgrade, StartExport, BeginRecovery, RecoveryStep, EndRecovery,
                RecoverMarker, ExportStep, ExportAfterUpgrade, ExportRead, Abort, ExportWrite
  <1>6. ASSUME NEW p \in Programs,
               LookupExisting(p) \/ PreflightProgram(p) \/ Reconcile(p) \/ DeployRecord(p)
        PROVE  LedgerStep
    BY <1>6 DEF LookupExisting, PreflightProgram, Reconcile, DeployRecord
  <1>7. CASE EndLookup \/ PreflightStops \/ PreflightPasses \/ EndReconcile
               \/ DeployAccepted \/ DeployRejected \/ DeployReturns
    BY <1>7 DEF EndLookup, PreflightStops, PreflightPasses, EndReconcile, DeployAccepted, DeployRejected,
                DeployReturns
  <1>8. CASE UpgradeResolve \/ UpgradeFallback \/ UpgradeSetTxId \/ UpgradeAccepted \/ UpgradeRejected
               \/ UpgradeAdvances \/ UpgradeRecord
    BY <1>8 DEF UpgradeResolve, UpgradeFallback, UpgradeSetTxId, UpgradeAccepted, UpgradeRejected,
                UpgradeAdvances, UpgradeRecord
  <1>9. CASE NewProcess \/ ChainStep \/ UNCHANGED vars
    BY <1>9 DEF NewProcess, ChainStep, vars, ledgerVars
  <1> QED
    BY <1>1, <1>2, <1>3, <1>4, <1>5, <1>6, <1>7, <1>8, <1>9 DEF Next, TaskStep, DeployStep, UpgradeStep

(* Whatever happens to the ledger, nothing is taken back *)
LEMMA LedgerMonotone ==
  ASSUME LedgerTypeOK, LedgerInv, LedgerStep
  PROVE  LedgerInv' /\ LedgerGrows
  <1> USE DEF LedgerInv, VisibleBehind, AcceptedOnChain, OnChain, LedgerGrows
  <1> DEFINE num == \A e \in Endpoints, p \in Programs : edition[e][p] \in Int /\ visible[e][p] \in Int
  <1>t. num
    BY DEF LedgerTypeOK, Editions
  <1>1. CASE UNCHANGED ledgerVars
    BY <1>1, <1>t DEF ledgerVars
  <1>2. ASSUME NEW t \in TxIds, NEW p \in Programs, NEW a \in Actions, Build(t, p, a, endpoint)
        PROVE  LedgerInv' /\ LedgerGrows
    BY <1>2, <1>t DEF Build, IsNextTx, Used, LedgerTypeOK
  <1>3. CASE Submit(job.tx)
    BY <1>3, <1>t DEF Submit, LedgerTypeOK, TxRecord
  <1>4. ASSUME NEW t \in TxIds, Accept(t)
        PROVE  LedgerInv' /\ LedgerGrows
    <2> DEFINE e0 == tx[t].endpoint
               p0 == tx[t].program
    <2>1. e0 \in Endpoints /\ p0 \in Programs /\ edition[e0][p0] \in Editions
      BY DEF LedgerTypeOK, TxRecord
    <2>2. \A e \in Endpoints, p \in Programs :
            edition'[e][p] = IF e = e0 /\ p = p0 THEN edition[e][p] + 1 ELSE edition[e][p]
      BY <1>4, <2>1 DEF Accept, LedgerTypeOK
    <2>3. \A e \in Endpoints, p \in Programs : edition[e][p] <= edition'[e][p]
      BY <1>t, <2>2
    <2>4. edition'[e0][p0] # -1
      BY <2>1, <2>2 DEF Editions
    <2>5. \A s \in TxIds : s # t => tx'[s] = tx[s]
      BY <1>4 DEF Accept, LedgerTypeOK
    <2>6. tx'[t].program = p0 /\ tx'[t].endpoint = e0 /\ tx'[t].action = tx[t].action
            /\ tx'[t].status = "accepted"
      BY <1>4 DEF Accept, LedgerTypeOK, TxRecord
    <2>7. visible' = visible
      BY <1>4 DEF Accept
    <2>8. VisibleBehind'
      <3> SUFFICES ASSUME NEW e \in Endpoints, NEW p \in Programs
                   PROVE  visible[e][p] <= edition'[e][p]
        BY <2>7
      <3>1. visible[e][p] <= edition[e][p] /\ edition[e][p] <= edition'[e][p] /\ edition'[e][p] \in Int
        BY <1>t, <2>2, <2>3
      <3> QED BY <1>t, <3>1
    <2>9. AcceptedOnChain'
      <3> SUFFICES ASSUME NEW s \in TxIds, tx'[s].status = "accepted"
                   PROVE  edition'[tx'[s].endpoint][tx'[s].program] # -1
        OBVIOUS
      <3>1. CASE s = t
        BY <2>4, <2>6, <3>1
      <3>2. CASE s # t
        <4>1. tx[s].endpoint \in Endpoints /\ tx[s].program \in Programs
          BY DEF LedgerTypeOK, TxRecord
        <4>2. edition[tx[s].endpoint][tx[s].program] \in Nat
          BY <2>5, <3>2, <4>1 DEF LedgerTypeOK, Editions
        <4> QED BY <2>2, <2>5, <3>2, <4>1, <4>2
      <3> QED BY <3>1, <3>2
    <2>10. LedgerGrows
      BY <1>t, <2>3, <2>5, <2>6, <2>7
    <2> QED BY <2>8, <2>9, <2>10
  <1>5. ASSUME NEW t \in TxIds, Reject(t)
        PROVE  LedgerInv' /\ LedgerGrows
    BY <1>5, <1>t DEF Reject, LedgerTypeOK, TxRecord
  <1>6. ASSUME NEW e \in Endpoints, NEW p \in Programs, Stranger(e, p)
        PROVE  LedgerInv' /\ LedgerGrows
    <2>1. \A f \in Endpoints, q \in Programs :
            edition'[f][q] = IF f = e /\ q = p THEN edition[f][q] + 1 ELSE edition[f][q]
      BY <1>6 DEF Stranger, LedgerTypeOK
    <2>2. \A f \in Endpoints, q \in Programs : edition[f][q] \in {-1} \cup Nat
      BY DEF LedgerTypeOK, Editions
    <2>3. \A s \in TxIds : tx[s].endpoint \in Endpoints /\ tx[s].program \in Programs
      BY DEF LedgerTypeOK, TxRecord
    <2>4. VisibleBehind' /\ LedgerGrows
      BY <1>6, <1>t, <2>1 DEF Stranger
    <2>5. AcceptedOnChain'
      BY <1>6, <2>1, <2>2, <2>3 DEF Stranger
    <2> QED BY <2>4, <2>5
  <1>7. ASSUME NEW e \in Endpoints, NEW p \in Programs, Propagate(e, p)
        PROVE  LedgerInv' /\ LedgerGrows
    <2>1. \A f \in Endpoints, q \in Programs :
            visible'[f][q] = IF f = e /\ q = p THEN edition[f][q] ELSE visible[f][q]
      BY <1>7 DEF Propagate, LedgerTypeOK
    <2> QED BY <1>7, <1>t, <2>1 DEF Propagate
  <1> QED BY <1>1, <1>2, <1>3, <1>4, <1>5, <1>6, <1>7 DEF LedgerStep, LedgerNext

-----------------------------------------------------------------------------
(* The transaction that a task works on                                     *)
DeployTxSteps == {"deploy-send", "deploy-confirm", "deploy-record"}
UpgradeTxSteps ==
  {"upgrade-send", "upgrade-sent", "upgrade-confirm", "upgrade-advance", "upgrade-record"}

BuiltFor(p, action) ==
  /\ job.tx \in TxIds
  /\ tx[job.tx].status # "unused"
  /\ tx[job.tx].action = action
  /\ tx[job.tx].endpoint = endpoint
  /\ tx[job.tx].program = p

(* ... is the one of the first program the loop has left, and was accepted  *)
(* when a run that confirms gets to its record                              *)
DeployJob ==
  pc \in DeployTxSteps =>
    \E p \in Earliest(queue) :
      BuiltFor(p, "deploy") /\ (pc = "deploy-record" /\ opts.confirm => tx[job.tx].status = "accepted")

PreviousBehind == job.previous <= edition[endpoint][Target]

(* ... is the one of the program to upgrade, from an edition the chain had  *)
(* to an edition it has, under a marker that says so                        *)
UpgradeJob ==
  /\ pc = "upgrade" => PreviousBehind
  /\ pc \in UpgradeTxSteps =>
       /\ BuiltFor(Target, "upgrade")
       /\ job.previous >= 0
       /\ opts.confirm => PreviousBehind
       /\ ~Ephemeral => pending[Target].action = "upgrade" /\ pending[Target].previousEdition = job.previous
  /\ pc \in {"upgrade-advance", "upgrade-record"} /\ opts.confirm => tx[job.tx].status = "accepted"
  /\ pc = "upgrade-record" /\ opts.confirm =>
       visible[endpoint][Target] > job.previous /\ job.edition <= edition[endpoint][Target]

RunConfirms == Confirming /\ pc \notin {"idle", "export"} => opts.confirm

JobInv == DeployJob /\ UpgradeJob /\ RunConfirms

TxSteps == DeployTxSteps \cup UpgradeTxSteps \cup {"upgrade"}

(* A step outside these steps says nothing of a job *)
LEMMA JobElsewhere ==
  ASSUME pc' \notin TxSteps, RunConfirms'
  PROVE  JobInv'
  BY DEF JobInv, DeployJob, UpgradeJob, TxSteps, DeployTxSteps, UpgradeTxSteps

(* What an upgrade relies on are numbers *)
LEMMA JobNumbers ==
  ASSUME Core, pc \in UpgradeSteps
  PROVE  /\ Target \in Programs /\ endpoint \in Endpoints
         /\ edition[endpoint][Target] \in Int /\ visible[endpoint][Target] \in Int
         /\ job.previous \in Int /\ job.edition \in Int /\ job \in Jobs
  <1>1. Target \in Programs /\ endpoint \in Endpoints
    BY TargetType DEF Core, ManagerTypeOK
  <1> QED BY <1>1 DEF Core, LedgerTypeOK, RunInv, RunTypeOK, Jobs, Editions

(* A step of the chain, or of another variable, keeps what is known of a job *)
LEMMA JobKept ==
  ASSUME Core, Core', LedgerInv, LedgerGrows, JobInv,
         UNCHANGED <<pc, opts, queue, job, endpoint>>,
         pc \in UpgradeTxSteps => pending'[Target] = pending[Target]
  PROVE  JobInv'
  <1>1. DeployJob'
    BY DEF JobInv, DeployJob, BuiltFor, LedgerGrows, Earliest
  <1>2. UpgradeJob'
    <2>1. CASE pc \notin UpgradeSteps
      BY <2>1 DEF UpgradeJob, UpgradeSteps, UpgradeTxSteps
    <2>2. CASE pc \in UpgradeSteps
      <3>1. Target' = Target
        BY DEF Target
      <3>2. /\ edition[endpoint][Target] \in Int /\ visible[endpoint][Target] \in Int
            /\ edition'[endpoint][Target] \in Int /\ visible'[endpoint][Target] \in Int
            /\ job.previous \in Int /\ job.edition \in Int /\ endpoint \in Endpoints /\ Target \in Programs
        BY <2>2, <3>1, JobNumbers DEF Core, LedgerTypeOK, Editions
      <3>3. edition[endpoint][Target] <= edition'[endpoint][Target]
              /\ visible[endpoint][Target] <= visible'[endpoint][Target]
        BY <3>2 DEF LedgerGrows
      <3>4. PreviousBehind => PreviousBehind'
        BY <3>1, <3>2, <3>3 DEF PreviousBehind
      <3>5. BuiltFor(Target, "upgrade") => BuiltFor(Target, "upgrade")'
        BY <3>1 DEF BuiltFor, LedgerGrows
      <3>6. job.tx \in TxIds /\ tx[job.tx].status = "accepted" => tx'[job.tx].status = "accepted"
        BY DEF LedgerGrows
      <3> QED BY <3>1, <3>2, <3>3, <3>4, <3>5, <3>6
              DEF JobInv, UpgradeJob, UpgradeTxSteps, BuiltFor
    <2> QED BY <2>1, <2>2
  <1> QED BY <1>1, <1>2 DEF JobInv, RunConfirms

(* The loops visit one program at a time *)
LEMMA EarliestUnique ==
  ASSUME NEW S, NEW p \in Earliest(S), NEW q \in Earliest(S)
  PROVE  p = q
  <1>1. Len(Order) \in Nat
    BY TasksAssumption
  <1>2. PICK i \in 1..Len(Order) : Order[i] = p /\ \A j \in 1..(i - 1) : Order[j] \notin S
    BY DEF Earliest
  <1>3. PICK k \in 1..Len(Order) : Order[k] = q /\ \A j \in 1..(k - 1) : Order[j] \notin S
    BY DEF Earliest
  <1>4. p \in S /\ q \in S
    BY DEF Earliest
  <1>5. ~(i < k) /\ ~(k < i)
    BY <1>1, <1>2, <1>3, <1>4
  <1> QED BY <1>1, <1>2, <1>3, <1>5

(* The options of a run that starts or goes on *)
LEMMA ConfirmsStep ==
  ASSUME Core, RunConfirms, [Next]_vars
  PROVE  RunConfirms'
  <1>1. CASE StartDeploy \/ StartUpgrade
    <2>1. PICK confirm \in ConfirmModes : opts'.confirm = confirm
      BY <1>1 DEF StartDeploy, StartUpgrade
    <2> QED BY <2>1, TasksAssumption DEF RunConfirms, Confirming
  <1>2. CASE StartExport
    BY <1>2 DEF StartExport, BeginExport, RunConfirms
  <1>3. CASE pc' = "idle"
    BY <1>3 DEF RunConfirms
  <1>4. CASE UNCHANGED opts /\ (pc # "idle") /\ (pc = "export" => pc' = "export")
    BY <1>4 DEF RunConfirms
  <1>5. CASE UNCHANGED <<opts, pc>>
    BY <1>5 DEF RunConfirms
  <1>6. ASSUME RecoveryStep \/ DeployStep \/ UpgradeStep \/ ExportStep, pc' # "idle"
        PROVE  UNCHANGED opts /\ pc # "idle" /\ (pc = "export" => pc' = "export")
    BY <1>6 DEF RecoveryStep, EndRecovery, RecoverMarker, DeployStep, LookupExisting, PreflightProgram,
         Reconcile, DeploySetPending, DeployRecord, EndLookup, PreflightStops, PreflightPasses,
         EndReconcile, DeployBroadcast, DeployAccepted, DeployRejected, DeployReturns, UpgradeStep,
         UpgradeResolve, UpgradeFallback, UpgradeSetPending, UpgradeBroadcast, UpgradeSetTxId,
         UpgradeAccepted, UpgradeRejected, UpgradeAdvances, UpgradeRecord, ExportStep,
         ExportAfterUpgrade, ExportRead, BeginExport, EndRun, Goto
  <1>7. CASE CrashStep \/ Abort \/ ExportWrite
    BY <1>7, <1>3 DEF CrashStep, Crash, UpgradeRecordCut, ReconcileCut, DeployRecordCut, RecoverMarkerCut,
                      Abort, ExportWrite, EndRun
  <1>8. CASE NewProcess \/ ChainStep \/ UNCHANGED vars
    BY <1>8, <1>5 DEF NewProcess, ChainStep, runVars, vars
  <1> QED BY <1>1, <1>2, <1>3, <1>4, <1>6, <1>7, <1>8 DEF Next, TaskStep

(* The deploy loop *)
LEMMA DeployJobStep ==
  ASSUME Core, Core', LedgerInv, LedgerGrows, JobInv, RunConfirms', DeployStep
  PROVE  JobInv'
  <1>1. ASSUME NEW p \in Programs,
               LookupExisting(p) \/ PreflightProgram(p) \/ Reconcile(p) \/ DeployRecord(p)
        PROVE  JobInv'
    BY <1>1, JobElsewhere
       DEF LookupExisting, PreflightProgram, Reconcile, DeployRecord, Goto, TxSteps, DeployTxSteps,
           UpgradeTxSteps
  <1>2. CASE EndLookup \/ PreflightStops \/ PreflightPasses \/ EndReconcile \/ DeployRejected \/ DeployReturns
    BY <1>2, JobElsewhere
       DEF EndLookup, PreflightStops, PreflightPasses, EndReconcile, DeployRejected, DeployReturns, Goto,
           EndRun, BeginExport, TxSteps, DeployTxSteps, UpgradeTxSteps
  <1>3. ASSUME NEW p \in Programs, DeploySetPending(p)
        PROVE  JobInv'
    <2>1. PICK t \in TxIds : Build(t, p, "deploy", endpoint) /\ job' = [NoJob EXCEPT !.tx = t]
      BY <1>3 DEF DeploySetPending
    <2>2. pc' = "deploy-send" /\ queue' = queue /\ p \in Earliest(queue) /\ endpoint' = endpoint
      BY <1>3 DEF DeploySetPending, Goto
    <2>3. job'.tx = t
      BY <2>1 DEF NoJob
    <2>4. BuiltFor(p, "deploy")'
      BY <2>1, <2>2, <2>3 DEF BuiltFor, Build, Core, LedgerTypeOK
    <2>5. p \in Earliest(queue)'
      BY <2>2 DEF Earliest
    <2> QED BY <2>2, <2>4, <2>5 DEF JobInv, DeployJob, UpgradeJob, UpgradeTxSteps
  <1>4. CASE DeployBroadcast \/ DeployAccepted
    <2>1. PICK p \in Earliest(queue) : BuiltFor(p, "deploy")
      BY <1>4 DEF DeployBroadcast, DeployAccepted, JobInv, DeployJob, DeployTxSteps
    <2>2. UNCHANGED <<queue, job, endpoint, opts>> /\ pc' \in DeployTxSteps
      BY <1>4 DEF DeployBroadcast, DeployAccepted, Goto, DeployTxSteps
    <2>3. BuiltFor(p, "deploy")' /\ p \in Earliest(queue)'
      BY <2>1, <2>2 DEF BuiltFor, LedgerGrows, Earliest
    <2>4. pc' = "deploy-record" /\ opts'.confirm => tx'[job'.tx].status = "accepted"
      BY <1>4, <2>1, <2>2 DEF DeployBroadcast, DeployAccepted, Goto, LedgerGrows, BuiltFor
    <2> QED BY <2>2, <2>3, <2>4 DEF JobInv, DeployJob, UpgradeJob, DeployTxSteps, UpgradeTxSteps
  <1> QED BY <1>1, <1>2, <1>3, <1>4 DEF DeployStep

(* The edition an upgrade of a confirming run starts from is one the chain has *)
LEMMA PreviousKnown ==
  ASSUME Core, LedgerInv, PreviousBehind, pc = "upgrade", opts.confirm,
         NEW n \in {visible[endpoint][Target], Unknown}
  PROVE  PreviousEdition(n) <= edition[endpoint][Target]
  <1>1. Target \in Programs /\ endpoint \in Endpoints
    BY TargetType DEF UpgradeSteps, Core, ManagerTypeOK
  <1>2. visible[endpoint][Target] <= edition[endpoint][Target] /\ -1 <= edition[endpoint][Target]
    BY <1>1 DEF LedgerInv, VisibleBehind, Core, LedgerTypeOK, Editions
  <1>3. PreviousEdition(n) \in {job.previous, n}
    BY DEF PreviousEdition
  <1> QED BY <1>2, <1>3 DEF PreviousBehind

(* An upgrade *)
LEMMA UpgradeJobStep ==
  ASSUME Core, Core', LedgerInv, LedgerInv', LedgerGrows, JobInv, RunConfirms', UpgradeStep
  PROVE  JobInv'
  <1>0. Target \in Programs /\ endpoint \in Endpoints /\ pc \in UpgradeSteps
    BY TargetType DEF UpgradeStep, UpgradeSteps, Core, ManagerTypeOK,
         UpgradeResolve, UpgradeFallback, UpgradeSetPending, UpgradeBroadcast, UpgradeSetTxId,
         UpgradeAccepted, UpgradeRejected, UpgradeAdvances, UpgradeRecord
  <1>n. /\ edition[endpoint][Target] \in Editions /\ visible[endpoint][Target] \in Editions
        /\ edition'[endpoint][Target] \in Editions /\ visible'[endpoint][Target] \in Editions
        /\ edition[endpoint][Target] <= edition'[endpoint][Target]
        /\ visible[endpoint][Target] <= visible'[endpoint][Target]
        /\ visible[endpoint][Target] <= edition[endpoint][Target]
        /\ job.previous \in Editions /\ job.edition \in Editions
    BY <1>0 DEF Core, LedgerTypeOK, LedgerGrows, LedgerInv, VisibleBehind, RunInv, RunTypeOK, Jobs
  <1>1. CASE UpgradeResolve
    <2>1. PICK r \in OnChainReads(endpoint, Target) :
            job' = [NoJob EXCEPT !.base = GetDeployment(Target, r)]
      BY <1>1 DEF UpgradeResolve
    <2>2. UNCHANGED <<endpoint, opts, ledgerVars>> /\ pc' \in {"fallback", "upgrade"}
      BY <1>1 DEF UpgradeResolve, Goto
    <2>3. PreviousBehind'
      BY <1>n, <2>1, <2>2 DEF PreviousBehind, NoJob, Target, Editions, ledgerVars
    <2> QED BY <2>2, <2>3 DEF JobInv, DeployJob, UpgradeJob, DeployTxSteps, UpgradeTxSteps
  <1>2. CASE UpgradeFallback
    <2>1. PICK r \in OnChainReads(endpoint, Target) :
            /\ r.exists /\ r.edition # Unknown
            /\ job' = [NoJob EXCEPT !.base = DegradedRecord(endpoint, r.edition),
                                    !.previous = r.edition, !.fallback = TRUE]
      BY <1>2 DEF UpgradeFallback
    <2>2. UNCHANGED <<endpoint, opts, ledgerVars>> /\ pc' = "upgrade"
      BY <1>2 DEF UpgradeFallback, Goto
    <2>3. r.edition = visible[endpoint][Target]
      BY <2>1 DEF OnChainReads
    <2>4. PreviousBehind'
      BY <1>n, <2>1, <2>2, <2>3 DEF PreviousBehind, NoJob, Target, ledgerVars
    <2> QED BY <2>2, <2>4 DEF JobInv, DeployJob, UpgradeJob, DeployTxSteps, UpgradeTxSteps
  <1>3. CASE UpgradeSetPending
    <2>1. PICK n \in {visible[endpoint][Target], Unknown}, t \in TxIds :
            /\ PreviousEdition(n) >= 0
            /\ Build(t, Target, "upgrade", endpoint)
            /\ job' = [job EXCEPT !.tx = t, !.previous = PreviousEdition(n),
                                  !.edition = PreviousEdition(n) + 1]
            /\ SetPending(Target, UpgradeMarker(PreviousEdition(n)))
      BY <1>3 DEF UpgradeSetPending
    <2>2. UNCHANGED <<endpoint, opts, edition>> /\ pc' = "upgrade-send" /\ Target' = Target
      BY <1>3, <2>1 DEF UpgradeSetPending, Goto, Target, Build
    <2>3. job'.tx = t /\ job'.previous = PreviousEdition(n)
      BY <2>1 DEF Core, RunInv, RunTypeOK, Jobs
    <2>4. BuiltFor(Target, "upgrade")'
      BY <2>1, <2>2, <2>3 DEF BuiltFor, Build, Core, LedgerTypeOK
    <2>5. opts.confirm => PreviousEdition(n) <= edition[endpoint][Target]
      BY <1>3, <2>1, PreviousKnown DEF UpgradeSetPending, JobInv, UpgradeJob
    <2>6. opts'.confirm => PreviousBehind'
      BY <2>2, <2>3, <2>5 DEF PreviousBehind
    <2>7. ~Ephemeral => /\ pending'[Target].action = "upgrade"
                        /\ pending'[Target].previousEdition = PreviousEdition(n)
      BY <1>0, <2>1 DEF SetPending, UpgradeMarker, NoMarker, Core, DiskInv, DiskTypeOK
    <2> QED BY <2>1, <2>2, <2>3, <2>4, <2>6, <2>7 DEF JobInv, DeployJob, UpgradeJob, DeployTxSteps, UpgradeTxSteps
  <1>4. CASE UpgradeBroadcast \/ UpgradeSetTxId \/ UpgradeAccepted
    <2>1. /\ pc \in UpgradeTxSteps \ {"upgrade-record"} /\ pc' \in UpgradeTxSteps
          /\ UNCHANGED <<endpoint, opts, job>> /\ Target' = Target
      BY <1>4 DEF UpgradeBroadcast, UpgradeSetTxId, UpgradeAccepted, UpgradeTxSteps, Goto, Target
    <2>2. BuiltFor(Target, "upgrade") /\ job.previous >= 0 /\ (opts.confirm => PreviousBehind)
            /\ (~Ephemeral => /\ pending[Target].action = "upgrade"
                              /\ pending[Target].previousEdition = job.previous)
      BY <2>1 DEF JobInv, UpgradeJob
    <2>3. BuiltFor(Target, "upgrade")'
      BY <2>1, <2>2 DEF BuiltFor, LedgerGrows
    <2>4. opts.confirm => PreviousBehind'
      BY <1>n, <2>1, <2>2 DEF PreviousBehind, Editions
    <2>5. ~Ephemeral => pending'[Target].action = "upgrade" /\ pending'[Target].previousEdition = job.previous
      BY <1>0, <1>4, <2>2 DEF UpgradeBroadcast, UpgradeSetTxId, UpgradeAccepted, SetPending, UpgradeMarker,
                               NoMarker, diskVars, Core, DiskInv, DiskTypeOK
    <2>6. pc' \in {"upgrade-advance", "upgrade-record"} /\ opts.confirm => tx'[job.tx].status = "accepted"
      BY <1>4, <2>2 DEF UpgradeBroadcast, UpgradeSetTxId, UpgradeAccepted, Goto, LedgerGrows, BuiltFor
    <2>7. pc' = "upgrade-record" => ~opts.confirm
      BY <1>4 DEF UpgradeBroadcast, UpgradeSetTxId, UpgradeAccepted, Goto
    <2> QED BY <2>1, <2>2, <2>3, <2>4, <2>5, <2>6, <2>7
            DEF JobInv, DeployJob, UpgradeJob, DeployTxSteps, UpgradeTxSteps
  <1>5. CASE UpgradeAdvances
    <2>1. /\ pc = "upgrade-advance" /\ pc' = "upgrade-record" /\ visible[endpoint][Target] > job.previous
          /\ job' = [job EXCEPT !.edition = visible[endpoint][Target]]
          /\ UNCHANGED <<endpoint, opts, ledgerVars, pending>> /\ Target' = Target
      BY <1>5 DEF UpgradeAdvances, Goto, Target, diskVars
    <2>2. job'.tx = job.tx /\ job'.previous = job.previous /\ job'.edition = visible[endpoint][Target]
      BY <2>1 DEF Core, RunInv, RunTypeOK, Jobs
    <2>3. BuiltFor(Target, "upgrade") /\ job.previous >= 0 /\ (opts.confirm => PreviousBehind)
            /\ (opts.confirm => tx[job.tx].status = "accepted")
            /\ (~Ephemeral => /\ pending[Target].action = "upgrade"
                              /\ pending[Target].previousEdition = job.previous)
      BY <2>1 DEF JobInv, UpgradeJob, UpgradeTxSteps
    <2>4. BuiltFor(Target, "upgrade")' /\ (opts.confirm => PreviousBehind')
      BY <2>1, <2>2, <2>3 DEF BuiltFor, PreviousBehind, ledgerVars
    <2>5. visible'[endpoint][Target] > job'.previous /\ job'.edition <= edition'[endpoint][Target]
      BY <1>n, <2>1, <2>2 DEF ledgerVars
    <2> QED BY <2>1, <2>2, <2>3, <2>4, <2>5
            DEF JobInv, DeployJob, UpgradeJob, DeployTxSteps, UpgradeTxSteps, ledgerVars
  <1>6. CASE UpgradeRejected \/ UpgradeRecord
    BY <1>6, JobElsewhere DEF UpgradeRejected, UpgradeRecord, EndRun, Goto, TxSteps, DeployTxSteps,
                               UpgradeTxSteps
  <1> QED BY <1>1, <1>2, <1>3, <1>4, <1>5, <1>6 DEF UpgradeStep

(* Every step keeps what is known of the job *)
LEMMA JobStep ==
  ASSUME Core, Core', LedgerInv, LedgerInv', LedgerGrows, JobInv, [Next]_vars
  PROVE  JobInv'
  <1>1. RunConfirms'
    BY ConfirmsStep DEF JobInv
  <1>2. CASE StartDeploy \/ StartUpgrade \/ StartExport \/ RecoveryStep \/ ExportStep \/ Abort
               \/ ExportWrite \/ CrashStep
    <2>1. pc' \in {"recover", "lookup", "resolve", "export", "idle"}
      BY <1>2 DEF StartDeploy, StartUpgrade, StartExport, RecoveryStep, EndRecovery, RecoverMarker, Goto,
                  ExportStep, ExportAfterUpgrade, ExportRead, BeginExport, Abort, ExportWrite, EndRun,
                  CrashStep, Crash, UpgradeRecordCut, ReconcileCut, DeployRecordCut, RecoverMarkerCut
    <2> QED BY <1>1, <2>1, JobElsewhere DEF TxSteps, DeployTxSteps, UpgradeTxSteps
  <1>3. CASE DeployStep \/ UpgradeStep
    BY <1>1, <1>3, DeployJobStep, UpgradeJobStep
  <1>4. CASE NewProcess
    <2>1. pc' = "idle"
      BY <1>4 DEF NewProcess, runVars
    <2> QED BY <1>1, <2>1, JobElsewhere DEF TxSteps, DeployTxSteps, UpgradeTxSteps
  <1>5. CASE ChainStep \/ UNCHANGED vars
    BY <1>5, JobKept DEF ChainStep, vars, runVars, diskVars
  <1> QED BY <1>2, <1>3, <1>4, <1>5 DEF Next, TaskStep

-----------------------------------------------------------------------------
(* Records.  Known(p, rec): the disk, the session or the task holds rec for  *)
(* p, or nothing at all                                                      *)
Known(p, rec) ==
  \/ rec \in {NoRecord, record[p], cache[p], existing[p]}
  \/ \E h \in history[p] : h.record = rec

(* A step learns of no record but rec, about p *)
Learns(p, rec) ==
  \A q \in Programs : \A x \in Records : Known(q, x)' => Known(q, x) \/ (q = p /\ x = rec)

AcceptedFor(t, p, e) ==
  t \in TxIds /\ tx[t].status = "accepted" /\ tx[t].program = p /\ tx[t].endpoint = e

(* What a record has to say: nothing the chain it names does not bear out *)
Backed(p, rec) ==
  rec # NoRecord =>
    /\ rec.endpoint \in Endpoints
    /\ rec.edition <= edition[rec.endpoint][p]
    /\ rec.status = "complete" => AcceptedFor(rec.txId, p, rec.endpoint)

RecordsBacked == \A p \in Programs : \A rec \in Records : Known(p, rec) => Backed(p, rec)

MarkersBehind ==
  \A p \in Programs : pending[p].action = "upgrade" =>
    /\ pending[p].endpoint \in Endpoints
    /\ pending[p].previousEdition <= edition[pending[p].endpoint][p]

BackedInv == Confirming => RecordsBacked /\ MarkersBehind

(* A record a task writes is about the endpoint of its session *)
Truthful(p, rec) == rec = NoRecord \/ (rec.endpoint = endpoint /\ (Confirming => Backed(p, rec)))

(* What an on-chain check says is true of the chain *)
LEMMA ReadsTrue ==
  ASSUME LedgerTypeOK, LedgerInv, NEW e \in Endpoints, NEW p \in Programs, NEW r \in OnChainReads(e, p)
  PROVE  /\ r.edition \in Editions /\ r.edition <= edition[e][p]
         /\ r.exists => RecoveredEdition(r) \in Nat /\ RecoveredEdition(r) <= edition[e][p]
         /\ r.edition # -1 => r.exists /\ r.edition = visible[e][p]
         /\ r.exists => visible[e][p] # -1
  <1>1. visible[e][p] \in Editions /\ edition[e][p] \in Editions /\ visible[e][p] <= edition[e][p]
    BY DEF LedgerTypeOK, LedgerInv, VisibleBehind
  <1>2. \/ r = [exists |-> FALSE, edition |-> -1]
        \/ r = [exists |-> TRUE, edition |-> visible[e][p]] /\ visible[e][p] # -1
        \/ r = [exists |-> TRUE, edition |-> -1] /\ visible[e][p] # -1
    BY DEF OnChainReads
  <1> QED BY <1>1, <1>2 DEF Editions, RecoveredEdition

(* record(), whole or cut short, tells the stores of one record *)
LEMMA RecordLearns ==
  ASSUME Core, NEW p \in Programs, NEW rec \in Records, NEW action, NEW snapshot,
         \A q \in Programs : existing'[q] \in {existing[q], NoRecord},
         Record(p, rec, action, snapshot) \/ RecordCut(p, rec, action, snapshot)
  PROVE  Learns(p, rec)
  <1>1. PICK n \in 1..5 : RecordWrites(p, rec, action, snapshot, n)
    BY DEF Record, RecordCut
  <1>2. \A q \in Programs : cache'[q] \in {NoRecord, cache[q]} \/ (q = p /\ cache'[q] = rec)
    BY DEF Record, RecordCut, InvalidateSession, Core, ManagerTypeOK
  <1>3. \A q \in Programs : record'[q] = record[q] \/ (q = p /\ record'[q] = rec)
    BY <1>1 DEF RecordWrites, diskVars, Core, DiskInv, DiskTypeOK
  <1>4. \A q \in Programs : \A h \in history'[q] : h \in history[q] \/ (q = p /\ h.record = rec)
    BY <1>1 DEF RecordWrites, diskVars, Core, DiskInv, DiskTypeOK
  <1> QED BY <1>2, <1>3, <1>4 DEF Learns, Known

(* getDeployment tells of what is known, or of what a devnode shows *)
LEMMA GetDeploymentTruthful ==
  ASSUME Core, LedgerInv, NEW p \in Programs, NEW r \in OnChainReads(endpoint, p),
         GetDeploymentReturns(p, r)
  PROVE  /\ GetDeployment(p, r) \in Records
         /\ Known(p, GetDeployment(p, r)) \/ Truthful(p, GetDeployment(p, r))
  <1>1. endpoint \in Endpoints /\ LedgerTypeOK /\ DiskTypeOK /\ ManagerTypeOK
    BY DEF Core, ManagerTypeOK, DiskInv
  <1>2. GetDeployment(p, r) \in Records
    BY <1>1, GetDeploymentType
  <1>3. GetDeployment(p, r) \in {cache[p], record[p], NoRecord, DegradedRecord(endpoint, r.edition)}
    BY DEF GetDeployment, KnownRecord
  <1>4. r.edition <= edition[endpoint][p]
    BY <1>1, ReadsTrue
  <1>5. Truthful(p, DegradedRecord(endpoint, r.edition))
    BY <1>1, <1>4 DEF Truthful, Backed, DegradedRecord
  <1> QED BY <1>2, <1>3, <1>5 DEF Known

(* A step that only reads: what the session and the task learn is rec *)
LEMMA ReadLearns ==
  ASSUME NEW p \in Programs, NEW rec, UNCHANGED <<record, history>>,
         \A q \in Programs :
           /\ cache'[q] \in {NoRecord, cache[q]} \/ (q = p /\ cache'[q] = rec)
           /\ existing'[q] \in {NoRecord, cache[q], existing[q]} \/ (q = p /\ existing'[q] = rec)
  PROVE  Learns(p, rec)
  BY DEF Learns, Known

(* A task that ended has forgotten what it read *)
LEMMA EndRunForgets ==
  ASSUME EndRun
  PROVE  \A q \in Programs : existing'[q] = NoRecord
  BY DEF EndRun

(* A deployed program, when it is recorded *)
LEMMA DeployedTruthful ==
  ASSUME Core, LedgerInv, JobInv, pc = "deploy-record", NEW p \in Earliest(queue)
  PROVE  /\ DeployedRecord \in Records /\ Truthful(p, DeployedRecord) /\ DeployedRecord # NoRecord
         /\ Confirming => AcceptedFor(job.tx, p, endpoint)
  <1>0. /\ p \in Programs /\ endpoint \in Endpoints /\ endpoint \in MaybeEndpoint
        /\ DeployedRecord \in Records
    BY LocalPrograms, DeployedType DEF Earliest, Core, RunInv, RunTypeOK, ManagerTypeOK, MaybeEndpoint
  <1>1. PICK q \in Earliest(queue) :
          BuiltFor(q, "deploy") /\ (opts.confirm => tx[job.tx].status = "accepted")
    BY DEF JobInv, DeployJob, DeployTxSteps
  <1>2. q = p
    BY <1>1, EarliestUnique
  <1>3. Confirming => AcceptedFor(job.tx, p, endpoint)
    BY <1>1, <1>2 DEF JobInv, RunConfirms, BuiltFor, AcceptedFor
  <1>4. Confirming => 0 <= edition[endpoint][p]
    BY <1>0, <1>3 DEF AcceptedFor, LedgerInv, AcceptedOnChain, OnChain, Core, LedgerTypeOK, Editions
  <1> QED BY <1>0, <1>3, <1>4 DEF Truthful, Backed, DeployedRecord, NoRecord

(* An upgraded program, when it is recorded *)
LEMMA UpgradedTruthful ==
  ASSUME Core, LedgerInv, JobInv, pc = "upgrade-record"
  PROVE  /\ UpgradedRecord \in Records /\ Truthful(Target, UpgradedRecord) /\ UpgradedRecord # NoRecord
         /\ Target \in Programs
         /\ Confirming => AcceptedFor(job.tx, Target, endpoint)
  <1>1. Target \in Programs /\ endpoint \in Endpoints /\ UpgradedRecord \in Records
    BY TargetType, UpgradedType DEF UpgradeSteps, Core, ManagerTypeOK
  <1>2. Confirming => opts.confirm
    BY DEF JobInv, RunConfirms
  <1>3. BuiltFor(Target, "upgrade") /\ (opts.confirm => tx[job.tx].status = "accepted"
          /\ job.edition <= edition[endpoint][Target])
    BY DEF JobInv, UpgradeJob, UpgradeTxSteps
  <1>4. Confirming => AcceptedFor(job.tx, Target, endpoint)
    BY <1>2, <1>3 DEF BuiltFor, AcceptedFor
  <1> QED BY <1>1, <1>2, <1>3, <1>4 DEF Truthful, Backed, UpgradedRecord, NoRecord

(* A recovered program *)
LEMMA RecoveredTruthful ==
  ASSUME Core, LedgerInv, NEW p \in Programs, NEW r \in OnChainReads(endpoint, p), ~RecoveryDiscards(p, r)
  PROVE  RecoveredRecord(p, r) \in Records /\ Truthful(p, RecoveredRecord(p, r))
  <1>1. endpoint \in Endpoints /\ LedgerTypeOK /\ DiskTypeOK /\ ManagerTypeOK
    BY DEF Core, ManagerTypeOK, DiskInv
  <1>2. RecoveredEdition(r) <= edition[endpoint][p]
    BY <1>1, ReadsTrue DEF RecoveryDiscards
  <1> QED BY <1>1, <1>2, RecoveredType DEF Truthful, Backed, RecoveredRecord

(* A program found on the chain *)
LEMMA DegradedTruthful ==
  ASSUME Core, LedgerInv, NEW p \in Programs, NEW r \in OnChainReads(endpoint, p)
  PROVE  /\ DegradedRecord(endpoint, r.edition) \in Records
         /\ Truthful(p, DegradedRecord(endpoint, r.edition))
  <1>1. endpoint \in Endpoints /\ r.edition <= edition[endpoint][p] /\ r.edition \in Editions
    BY ReadsTrue DEF Core, ManagerTypeOK
  <1> QED BY <1>1, DegradedType DEF Truthful, Backed, DegradedRecord

(* A step learns of one record at most, and that one is true *)
LEMMA StoreStep ==
  ASSUME Core, LedgerInv, JobInv, [Next]_vars
  PROVE  \E p \in Programs : \E rec \in Records : Learns(p, rec) /\ Truthful(p, rec)
  <1> DEFINE Goal == \E p \in Programs : \E rec \in Records : Learns(p, rec) /\ Truthful(p, rec)
  <1> USE DEF diskVars, sessionVars, runVars
  <1>0. /\ NoRecord \in Records /\ \A p \in Programs : Truthful(p, NoRecord)
        /\ Programs # {} /\ endpoint \in Endpoints
    BY NoValues, LedgerAssumption DEF Truthful, Core, ManagerTypeOK
  <1>q. ASSUME UNCHANGED <<record, history>>,
               \A q \in Programs : cache'[q] \in {NoRecord, cache[q]},
               \A q \in Programs : existing'[q] \in {NoRecord, cache[q], existing[q]}
        PROVE  Goal
    <2>1. PICK p \in Programs : TRUE
      BY <1>0
    <2>2. Learns(p, NoRecord)
      BY <1>q, ReadLearns
    <2> QED BY <1>0, <2>2
  <1>k. ASSUME UNCHANGED <<record, history, cache>>, UNCHANGED existing \/ EndRun \/ BeginExport
        PROVE  Goal
    BY <1>k, <1>q DEF EndRun, BeginExport
  <1>1. CASE StartDeploy \/ StartUpgrade \/ StartExport \/ EndRecovery \/ ExportAfterUpgrade \/ Abort
               \/ ExportWrite \/ ChainStep \/ UNCHANGED vars
    BY <1>1, <1>k DEF StartDeploy, StartUpgrade, StartExport, BeginRecovery, EndRecovery,
                      ExportAfterUpgrade, Abort, ExportWrite, ChainStep, vars
  <1>2. CASE NewProcess
    BY <1>2, <1>q DEF NewProcess, InvalidateSession
  <1>3. CASE EndLookup \/ PreflightStops \/ PreflightPasses \/ EndReconcile \/ DeployBroadcast
               \/ DeployAccepted \/ DeployRejected \/ DeployReturns \/ \E p \in Programs : PreflightProgram(p)
    BY <1>3, <1>k DEF EndLookup, PreflightStops, PreflightPasses, EndReconcile, DeployBroadcast,
                      DeployAccepted, DeployRejected, DeployReturns, PreflightProgram
  <1>4. CASE UpgradeFallback \/ UpgradeSetPending \/ UpgradeBroadcast \/ UpgradeSetTxId
               \/ UpgradeAccepted \/ UpgradeRejected \/ UpgradeAdvances
               \/ \E p \in Programs : DeploySetPending(p)
    BY <1>4, <1>k DEF UpgradeFallback, UpgradeSetPending, UpgradeBroadcast, UpgradeSetTxId,
                      UpgradeAccepted, UpgradeRejected, UpgradeAdvances, DeploySetPending
  <1>g. ASSUME NEW p \in Programs, NEW r \in OnChainReads(endpoint, p), GetDeploymentReturns(p, r),
               CacheDeployment(p, r), UNCHANGED <<record, history>>,
               existing' \in {existing, [existing EXCEPT ![p] = GetDeployment(p, r)]}
        PROVE  Goal
    <2> DEFINE g == GetDeployment(p, r)
    <2>1. g \in Records /\ (Known(p, g) \/ Truthful(p, g))
      BY <1>g, GetDeploymentTruthful
    <2>2. Learns(p, g)
      <3>1. \A q \in Programs : cache'[q] = cache[q] \/ (q = p /\ cache'[q] = g)
        BY <1>g DEF CacheDeployment, Core, ManagerTypeOK
      <3>2. \A q \in Programs : existing'[q] = existing[q] \/ (q = p /\ existing'[q] = g)
        BY <1>g DEF Core, RunInv, RunTypeOK
      <3> QED BY <1>g, <3>1, <3>2, ReadLearns
    <2>3. CASE Known(p, g)
      BY <1>0, <2>2, <2>3 DEF Learns, Known
    <2> QED BY <2>1, <2>2, <2>3
  <1>5. ASSUME NEW p \in Programs, ExportRead(p)
        PROVE  Goal
    BY <1>5, <1>g DEF ExportRead
  <1>6. CASE UpgradeResolve
    <2>1. Target \in Programs
      BY <1>6, TargetType DEF UpgradeResolve, UpgradeSteps
    <2> QED BY <1>6, <1>g, <2>1 DEF UpgradeResolve
  <1>7. ASSUME NEW p \in Programs, LookupExisting(p)
        PROVE  Goal
    <2>1. CASE NetType = "devnode"
      BY <1>7, <1>q, <2>1 DEF LookupExisting, Core, RunInv, RunTypeOK
    <2>2. CASE NetType # "devnode"
      <3>1. \A r : GetDeploymentReturns(p, r)
        BY <2>2 DEF GetDeploymentReturns
      <3> QED BY <1>7, <1>g, <2>2, <3>1 DEF LookupExisting
    <2> QED BY <2>1, <2>2
  <1>r. ASSUME NEW p \in Programs, NEW rec \in Records, NEW action, NEW snapshot, Truthful(p, rec),
               UNCHANGED existing \/ EndRun,
               Record(p, rec, action, snapshot) \/ RecordCut(p, rec, action, snapshot)
        PROVE  Goal
    <2>1. \A q \in Programs : existing'[q] \in {existing[q], NoRecord}
      BY <1>r, EndRunForgets
    <2> QED BY <1>r, <2>1, RecordLearns
  <1>8. ASSUME NEW p \in Programs, RecoverMarker(p) \/ RecoverMarkerCut(p)
        PROVE  Goal
    <2>1. PICK r \in OnChainReads(endpoint, p) : RecoverPending(p, r) \/ RecoveryCut(p, r)
      BY <1>8 DEF RecoverMarker, RecoverMarkerCut
    <2>2. UNCHANGED existing \/ EndRun
      BY <1>8 DEF RecoverMarker, RecoverMarkerCut
    <2>3. CASE RecoveryCut(p, r) \/ (~RecoveryDiscards(p, r) /\
                                       Record(p, RecoveredRecord(p, r), pending[p].action, NoTx))
      BY <1>r, <2>2, <2>3, RecoveredTruthful DEF RecoveryCut
    <2>4. CASE UNCHANGED <<record, history, sessionVars>>
      BY <1>8, <1>k, <2>2, <2>4
    <2> QED BY <2>1, <2>3, <2>4 DEF RecoverPending
  <1>9. ASSUME NEW p \in Programs, Reconcile(p) \/ ReconcileCut(p)
        PROVE  Goal
    <2>1. PICK r \in OnChainReads(endpoint, p) :
            \/ Record(p, DegradedRecord(endpoint, r.edition), "deploy", NoTx)
            \/ RecordCut(p, DegradedRecord(endpoint, r.edition), "deploy", NoTx)
            \/ UNCHANGED <<diskVars, sessionVars>>
      BY <1>9 DEF Reconcile, ReconcileCut
    <2>2. UNCHANGED existing \/ EndRun
      BY <1>9 DEF Reconcile, ReconcileCut
    <2> QED BY <1>k, <1>r, <2>1, <2>2, DegradedTruthful
  <1>10. ASSUME NEW p \in Programs, DeployRecord(p) \/ DeployRecordCut(p)
         PROVE  Goal
    <2>1. DeployedRecord \in Records /\ Truthful(p, DeployedRecord)
      BY <1>10, DeployedTruthful DEF DeployRecord, DeployRecordCut
    <2> QED BY <1>10, <1>r, <2>1 DEF DeployRecord, DeployRecordCut
  <1>11. CASE UpgradeRecord \/ UpgradeRecordCut
    <2>1. UpgradedRecord \in Records /\ Truthful(Target, UpgradedRecord) /\ Target \in Programs
      BY <1>11, UpgradedTruthful DEF UpgradeRecord, UpgradeRecordCut
    <2> QED BY <1>11, <1>r, <2>1 DEF UpgradeRecord, UpgradeRecordCut
  <1>12. CASE Crash
    <2>1. UNCHANGED <<record, history>> /\ InvalidateSession /\ EndRun
      BY <1>12 DEF Crash
    <2> QED BY <1>q, <2>1 DEF InvalidateSession, EndRun
  <1> QED
    BY <1>1, <1>2, <1>3, <1>4, <1>5, <1>6, <1>7, <1>8, <1>9, <1>10, <1>11, <1>12
    DEF Next, TaskStep, CrashStep, RecoveryStep, DeployStep, UpgradeStep, ExportStep

(* What is known of the chain stays true as it grows *)
LEMMA BackedKept ==
  ASSUME LedgerTypeOK, LedgerTypeOK', LedgerGrows, NEW p \in Programs, NEW rec \in Records, Backed(p, rec)
  PROVE  Backed(p, rec)'
  <1> SUFFICES ASSUME rec # NoRecord
               PROVE  /\ rec.endpoint \in Endpoints
                      /\ rec.edition <= edition'[rec.endpoint][p]
                      /\ rec.status = "complete" =>
                           /\ rec.txId \in TxIds
                           /\ tx'[rec.txId].status = "accepted" /\ tx'[rec.txId].program = p
                           /\ tx'[rec.txId].endpoint = rec.endpoint
    BY DEF Backed, AcceptedFor
  <1>1. rec.endpoint \in Endpoints /\ rec.edition \in Editions
          /\ rec.edition <= edition[rec.endpoint][p]
    BY DEF Backed, Records
  <1>2. edition[rec.endpoint][p] \in Int /\ edition'[rec.endpoint][p] \in Int /\ rec.edition \in Int
    BY <1>1 DEF LedgerTypeOK, Editions
  <1>3. rec.edition <= edition'[rec.endpoint][p]
    BY <1>1, <1>2 DEF LedgerGrows
  <1>4. ASSUME rec.status = "complete"
        PROVE  /\ rec.txId \in TxIds
               /\ tx'[rec.txId].status = "accepted" /\ tx'[rec.txId].program = p
               /\ tx'[rec.txId].endpoint = rec.endpoint
    BY <1>4 DEF Backed, AcceptedFor, LedgerGrows
  <1> QED BY <1>1, <1>3, <1>4

(* A marker goes away or stays, or a step of an upgrade writes its own *)
UpgradeMarked ==
  /\ pc \in {"upgrade", "upgrade-sent", "upgrade-confirm"}
  /\ UNCHANGED <<endpoint, edition, opts>>
  /\ \A q \in Programs : q # Target => pending'[q] = pending[q]
  /\ pending'[Target].endpoint = endpoint
  /\ opts.confirm => pending'[Target].previousEdition <= edition[endpoint][Target]

(* No step writes a marker of an upgrade but one of that upgrade *)
LEMMA MarkerStep ==
  ASSUME Core, LedgerInv, JobInv, [Next]_vars
  PROVE  \/ \A q \in Programs : pending'[q] \in {pending[q], NoMarker} \/ pending'[q].action = "deploy"
         \/ UpgradeMarked
  <1> DEFINE Goal == \A q \in Programs : pending'[q] \in {pending[q], NoMarker} \/ pending'[q].action = "deploy"
  <1> USE DEF diskVars, sessionVars, runVars
  <1>0. pending \in [Programs -> Markers]
    BY DEF Core, DiskInv, DiskTypeOK
  <1>w. ASSUME NEW p \in Programs, NEW rec, NEW action, NEW snapshot, NEW n \in Nat,
               RecordWrites(p, rec, action, snapshot, n)
        PROVE  Goal
    BY <1>0, <1>w DEF RecordWrites
  <1>r. ASSUME NEW p \in Programs, NEW rec, NEW action, NEW snapshot,
               Record(p, rec, action, snapshot) \/ RecordCut(p, rec, action, snapshot)
        PROVE  Goal
    BY <1>r, <1>w DEF Record, RecordCut
  <1>1. CASE UNCHANGED diskVars
    BY <1>1
  <1>2. ASSUME NEW p \in Programs, RecoverMarker(p) \/ RecoverMarkerCut(p)
        PROVE  Goal
    BY <1>0, <1>2, <1>r DEF RecoverMarker, RecoverMarkerCut, RecoverPending, RecoveryCut, ClearPending, SetPending
  <1>3. ASSUME NEW p \in Programs, Reconcile(p) \/ ReconcileCut(p)
        PROVE  Goal
    BY <1>3, <1>r DEF Reconcile, ReconcileCut
  <1>4. ASSUME NEW p \in Programs, DeployRecord(p) \/ DeployRecordCut(p)
        PROVE  Goal
    BY <1>4, <1>r DEF DeployRecord, DeployRecordCut
  <1>5. ASSUME NEW p \in Programs, DeploySetPending(p)
        PROVE  Goal
    BY <1>0, <1>5 DEF DeploySetPending, SetPending, DeployMarker, NoMarker
  <1>6. ASSUME pc \in UpgradeSteps
        PROVE  Target \in Programs /\ endpoint \in Endpoints
    BY <1>6, TargetType DEF Core, ManagerTypeOK
  <1>7. CASE UpgradeRecord \/ UpgradeRecordCut
    BY <1>6, <1>7, <1>r DEF UpgradeRecord, UpgradeRecordCut, UpgradeSteps
  <1>8. CASE UpgradeSetPending
    <2>1. Target \in Programs /\ endpoint \in Endpoints /\ pc = "upgrade"
      BY <1>6, <1>8 DEF UpgradeSetPending, UpgradeSteps
    <2>2. PICK n \in {visible[endpoint][Target], Unknown}, t \in TxIds :
            Build(t, Target, "upgrade", endpoint) /\ SetPending(Target, UpgradeMarker(PreviousEdition(n)))
      BY <1>8 DEF UpgradeSetPending
    <2>3. opts.confirm => PreviousEdition(n) <= edition[endpoint][Target]
      BY <2>1, PreviousKnown DEF JobInv, UpgradeJob
    <2>4. CASE Ephemeral
      BY <2>2, <2>4 DEF SetPending
    <2>5. CASE ~Ephemeral
      <3>1. pending' = [pending EXCEPT ![Target] = UpgradeMarker(PreviousEdition(n))]
        BY <2>2, <2>5 DEF SetPending
      <3>2. UNCHANGED <<endpoint, edition, opts>>
        BY <1>8, <2>2 DEF UpgradeSetPending, Build, Goto
      <3> QED BY <1>0, <2>1, <2>3, <3>1, <3>2 DEF UpgradeMarked, UpgradeMarker, NoMarker
    <2> QED BY <2>4, <2>5
  <1>9. CASE UpgradeSetTxId \/ UpgradeAccepted
    <2>1. Target \in Programs /\ endpoint \in Endpoints /\ pc \in {"upgrade-sent", "upgrade-confirm"}
      BY <1>6, <1>9 DEF UpgradeSetTxId, UpgradeAccepted, UpgradeSteps
    <2>2. opts.confirm => job.previous <= edition[endpoint][Target]
      BY <2>1 DEF JobInv, UpgradeJob, UpgradeTxSteps, PreviousBehind
    <2>3. CASE Ephemeral
      BY <1>9, <2>3 DEF UpgradeSetTxId, UpgradeAccepted, SetPending
    <2>4. CASE ~Ephemeral
      <3>1. PICK m : /\ m.endpoint = endpoint /\ m.previousEdition = job.previous
                     /\ pending' = [pending EXCEPT ![Target] = m]
        BY <1>9, <2>4 DEF UpgradeSetTxId, UpgradeAccepted, SetPending, UpgradeMarker, NoMarker
      <3>2. UNCHANGED <<endpoint, edition, opts>>
        BY <1>9 DEF UpgradeSetTxId, UpgradeAccepted, Goto, ledgerVars
      <3> QED BY <1>0, <2>1, <2>2, <3>1, <3>2 DEF UpgradeMarked
    <2> QED BY <2>3, <2>4
  <1>10. CASE UpgradeRejected
    <2>1. ClearPending(Target)
      BY <1>10 DEF UpgradeRejected
    <2> QED BY <1>0, <2>1 DEF ClearPending, SetPending
  <1>11. CASE StartDeploy \/ StartUpgrade \/ StartExport \/ EndRecovery \/ ExportStep \/ Abort \/ Crash
               \/ NewProcess \/ ChainStep \/ ExportWrite \/ UNCHANGED vars
    BY <1>1, <1>11 DEF StartDeploy, StartUpgrade, StartExport, BeginRecovery, EndRecovery, ExportStep,
                       ExportAfterUpgrade, ExportRead, Abort, Crash, NewProcess, ChainStep, ExportWrite, vars
  <1>12. CASE EndLookup \/ PreflightStops \/ PreflightPasses \/ EndReconcile \/ DeployBroadcast
               \/ DeployAccepted \/ DeployRejected \/ DeployReturns
               \/ \E p \in Programs : LookupExisting(p) \/ PreflightProgram(p)
    BY <1>1, <1>12 DEF EndLookup, PreflightStops, PreflightPasses, EndReconcile, DeployBroadcast,
                       DeployAccepted, DeployRejected, DeployReturns, LookupExisting, PreflightProgram
  <1>13. CASE UpgradeResolve \/ UpgradeFallback \/ UpgradeBroadcast \/ UpgradeAdvances
    BY <1>1, <1>13 DEF UpgradeResolve, UpgradeFallback, UpgradeBroadcast, UpgradeAdvances
  <1> QED
    BY <1>2, <1>3, <1>4, <1>5, <1>7, <1>8, <1>9, <1>10, <1>11, <1>12, <1>13
    DEF Next, TaskStep, CrashStep, RecoveryStep, DeployStep, UpgradeStep

(* Nothing that is known is ever ahead of the chain it is about *)
LEMMA BackedStep ==
  ASSUME Core, Core', LedgerInv, LedgerGrows, JobInv, BackedInv, [Next]_vars
  PROVE  BackedInv'
  <1> SUFFICES ASSUME Confirming
               PROVE  RecordsBacked' /\ MarkersBehind'
    BY DEF BackedInv
  <1>0. LedgerTypeOK /\ LedgerTypeOK' /\ RecordsBacked /\ MarkersBehind
    BY DEF Core, BackedInv
  <1>1. RecordsBacked'
    <2>1. PICK p \in Programs, rec \in Records : Learns(p, rec) /\ Truthful(p, rec)
      BY StoreStep
    <2>2. Backed(p, rec)
      BY <2>1 DEF Truthful, Backed
    <2>3. ASSUME NEW q \in Programs, NEW x \in Records, Known(q, x)'
          PROVE  Backed(q, x)'
      <3>1. Backed(q, x)
        BY <1>0, <2>1, <2>2, <2>3 DEF Learns, RecordsBacked
      <3> QED BY <1>0, <3>1, BackedKept
    <2> QED BY <2>3 DEF RecordsBacked
  <1>2. MarkersBehind'
    <2> SUFFICES ASSUME NEW q \in Programs, pending'[q].action = "upgrade"
                 PROVE  /\ pending'[q].endpoint \in Endpoints
                        /\ pending'[q].previousEdition <= edition'[pending'[q].endpoint][q]
      BY DEF MarkersBehind
    <2> DEFINE kept == pending'[q] = pending[q]
    <2>1. CASE kept
      <3>1. pending[q].endpoint \in Endpoints /\ pending[q].previousEdition \in Editions
              /\ pending[q].previousEdition <= edition[pending[q].endpoint][q]
        BY <1>0, <2>1 DEF MarkersBehind, Core, DiskInv, DiskTypeOK, Markers
      <3>2. edition[pending[q].endpoint][q] \in Int /\ edition'[pending[q].endpoint][q] \in Int
              /\ edition[pending[q].endpoint][q] <= edition'[pending[q].endpoint][q]
        BY <1>0, <3>1 DEF LedgerTypeOK, Editions, LedgerGrows
      <3> QED BY <2>1, <3>1, <3>2 DEF Editions
    <2>2. CASE UpgradeMarked /\ q = Target
      <3>1. opts.confirm
        BY <2>2 DEF UpgradeMarked, JobInv, RunConfirms
      <3> QED BY <2>2, <3>1 DEF UpgradeMarked, Core, ManagerTypeOK
    <2>3. kept \/ (UpgradeMarked /\ q = Target)
      BY MarkerStep DEF UpgradeMarked, NoMarker
    <2> QED BY <2>1, <2>2, <2>3
  <1> QED BY <1>1, <1>2

-----------------------------------------------------------------------------
(* What every reachable state satisfies *)
ChainInv == TypeInv /\ LedgerInv /\ MetadataInv /\ JobInv /\ BackedInv

(* It holds in the beginning ... *)
LEMMA ChainInit == Init => ChainInv
  <1> SUFFICES ASSUME Init
               PROVE  ChainInv
    OBVIOUS
  <1>1. TypeInv
    BY TypeInit
  <1>2. LedgerInv
    BY DEF Init, LedgerInit, LedgerInv, VisibleBehind, AcceptedOnChain
  <1>3. MetadataInv
    BY DEF Init, DiskInit, ManagerInit, FreshSession, MetadataInv, SessionMatches, DiskMatches
  <1>4. JobInv
    BY DEF Init, JobInv, DeployJob, UpgradeJob, RunConfirms, DeployTxSteps, UpgradeTxSteps
  <1>5. \A p \in Programs : \A rec : Known(p, rec) => rec = NoRecord
    BY DEF Init, DiskInit, ManagerInit, FreshSession, Known
  <1>6. BackedInv
    BY <1>5 DEF Init, DiskInit, BackedInv, RecordsBacked, MarkersBehind, Backed, NoMarker
  <1> QED BY <1>1, <1>2, <1>3, <1>4, <1>6 DEF ChainInv

(* ... every step keeps it, and takes nothing back from the chain ... *)
LEMMA ChainStepKeeps == ChainInv /\ [Next]_vars => ChainInv' /\ LedgerGrows
  <1> SUFFICES ASSUME ChainInv, [Next]_vars
               PROVE  ChainInv' /\ LedgerGrows
    OBVIOUS
  <1>1. TypeInv' /\ Core /\ Core'
    BY TypeStep DEF ChainInv, TypeInv
  <1>2. LedgerInv' /\ LedgerGrows
    BY <1>1, StepsOfLedger, LedgerMonotone DEF ChainInv, Core
  <1>3. MetadataInv'
    BY <1>1, MetadataStep DEF ChainInv
  <1>4. JobInv'
    BY <1>1, <1>2, JobStep DEF ChainInv
  <1>5. BackedInv'
    BY <1>1, <1>2, BackedStep DEF ChainInv
  <1> QED BY <1>1, <1>2, <1>3, <1>4, <1>5 DEF ChainInv

(* ... so it holds in every reachable state *)
LEMMA ChainAlways == Spec => []ChainInv
  BY ChainInit, ChainStepKeeps, PTL DEF Spec

(* When runs confirm, a complete record names a transaction that the chain   *)
(* it names has accepted for that program.                                   *)
THEOREM CompleteAccepted == Spec => []CompleteMeansAccepted
  <1>1. ChainInv => CompleteMeansAccepted
    <2> SUFFICES ASSUME ChainInv, Confirming, NEW p \in Programs,
                        NEW rec \in {record[p], cache[p]} \cup {h.record : h \in history[p]},
                        rec.status = "complete"
                 PROVE  AcceptedFor(rec.txId, p, rec.endpoint)
      BY DEF CompleteMeansAccepted, AcceptedFor
    <2>1. rec \in Records /\ Known(p, rec)
      BY DEF ChainInv, TypeInv, Core, DiskInv, DiskTypeOK, ManagerTypeOK, HistoryEntries, Known
    <2>2. rec # NoRecord
      BY DEF NoRecord
    <2> QED BY <2>1, <2>2 DEF ChainInv, BackedInv, RecordsBacked, Backed
  <1> QED BY <1>1, ChainAlways, PTL

(* When runs confirm, no record, cached record or marker names an edition    *)
(* that the chain it names has not reached.                                  *)
THEOREM ChainNeverBehind == Spec => []NeverAheadOfChain
  <1>1. ChainInv => NeverAheadOfChain
    <2> SUFFICES ASSUME ChainInv, Confirming, NEW p \in Programs
                 PROVE  /\ \A rec \in {record[p], cache[p]} :
                             rec # NoRecord => rec.edition <= edition[rec.endpoint][p]
                        /\ pending[p].action = "upgrade" =>
                             pending[p].previousEdition <= edition[pending[p].endpoint][p]
      BY DEF NeverAheadOfChain
    <2>1. \A rec \in {record[p], cache[p]} : rec \in Records /\ Known(p, rec)
      BY DEF ChainInv, TypeInv, Core, DiskInv, DiskTypeOK, ManagerTypeOK, Known
    <2> QED BY <2>1 DEF ChainInv, BackedInv, RecordsBacked, Backed, MarkersBehind
  <1> QED BY <1>1, ChainAlways, PTL

-----------------------------------------------------------------------------
(* The session, the snapshots and the bundle.  On an HTTP network all that a *)
(* session holds is about its own endpoint, every ABI comes from a           *)
(* transaction accepted where it is kept, and an ephemeral network has no    *)
(* directory at all.                                                         *)
DiskUntouched == Ephemeral => DiskInit

OfSession(rec) == rec # NoRecord => rec.endpoint = endpoint

SessionOurs ==
  NetType = "http" => \A p \in Programs : OfSession(cache[p]) /\ OfSession(existing[p])

Forgotten == pc = "idle" => \A p \in Programs : existing[p] = NoRecord

AbisAccepted ==
  Confirming /\ NetType = "http" =>
    \A p \in Programs :
      /\ abiCache[p] # NoTx => AcceptedFor(abiCache[p], p, endpoint)
      /\ abi[p] # NoTx => AcceptedFor(abi[p], p, meta)

BundleOurs ==
  Confirming /\ NetType = "http" =>
    \A p \in Programs : \A t \in {bundle.programs[p].txId, bundle.programs[p].abi} \cap TxIds :
      AcceptedFor(t, p, bundle.endpoint)

BundleInv == DiskUntouched /\ SessionOurs /\ Forgotten /\ AbisAccepted /\ BundleOurs

(* An ephemeral network writes no file *)
LEMMA EphemeralStep ==
  ASSUME Ephemeral, [Next]_vars
  PROVE  UNCHANGED diskVars
  <1> USE DEF diskVars, runVars, SetPending, ClearPending
  <1>1. \A p, rec, action, snapshot :
          Record(p, rec, action, snapshot) \/ RecordCut(p, rec, action, snapshot) => UNCHANGED diskVars
    BY DEF Record, RecordCut, RecordWrites
  <1>2. ASSUME NEW p \in Programs,
               RecoverMarker(p) \/ RecoverMarkerCut(p) \/ Reconcile(p) \/ ReconcileCut(p)
        PROVE  UNCHANGED diskVars
    BY <1>1, <1>2 DEF RecoverMarker, RecoverMarkerCut, RecoverPending, RecoveryCut, Reconcile, ReconcileCut
  <1>3. ASSUME NEW p \in Programs, DeployRecord(p) \/ DeployRecordCut(p) \/ DeploySetPending(p)
        PROVE  UNCHANGED diskVars
    BY <1>1, <1>3 DEF DeployRecord, DeployRecordCut, DeploySetPending
  <1>4. CASE UpgradeRecord \/ UpgradeRecordCut \/ UpgradeSetPending \/ UpgradeSetTxId
               \/ UpgradeAccepted \/ UpgradeRejected
    BY <1>1, <1>4 DEF UpgradeRecord, UpgradeRecordCut, UpgradeSetPending, UpgradeSetTxId,
                      UpgradeAccepted, UpgradeRejected
  <1>5. CASE StartDeploy \/ StartUpgrade \/ StartExport \/ EndRecovery \/ ExportStep \/ Abort \/ Crash
               \/ NewProcess \/ ChainStep \/ ExportWrite \/ UNCHANGED vars
    BY <1>5 DEF StartDeploy, StartUpgrade, StartExport, BeginRecovery, EndRecovery, ExportStep,
                ExportAfterUpgrade, ExportRead, Abort, Crash, NewProcess, ChainStep, ExportWrite, vars
  <1>6. CASE EndLookup \/ PreflightStops \/ PreflightPasses \/ EndReconcile \/ DeployBroadcast
               \/ DeployAccepted \/ DeployRejected \/ DeployReturns
               \/ \E p \in Programs : LookupExisting(p) \/ PreflightProgram(p)
    BY <1>6 DEF EndLookup, PreflightStops, PreflightPasses, EndReconcile, DeployBroadcast,
                DeployAccepted, DeployRejected, DeployReturns, LookupExisting, PreflightProgram
  <1>7. CASE UpgradeResolve \/ UpgradeFallback \/ UpgradeBroadcast \/ UpgradeAdvances
    BY <1>7 DEF UpgradeResolve, UpgradeFallback, UpgradeBroadcast, UpgradeAdvances
  <1> QED
    BY <1>2, <1>3, <1>4, <1>5, <1>6, <1>7
    DEF Next, TaskStep, CrashStep, RecoveryStep, DeployStep, UpgradeStep

(* Only a new process changes the endpoint, and between tasks nothing is read *)
LEMMA SessionFrame ==
  ASSUME Core, [Next]_vars
  PROVE  /\ pc # "idle" => endpoint' = endpoint
         /\ pc = "idle" => /\ UNCHANGED <<diskVars, existing>> \/ (BeginExport /\ UNCHANGED diskVars)
                           /\ UNCHANGED <<endpoint, cache, abiCache>> \/ InvalidateSession
         /\ pc' = "idle" => EndRun \/ UNCHANGED runVars
         /\ UNCHANGED bundle \/ ExportWrite
  <1> DEFINE Frame ==
         /\ pc # "idle" => endpoint' = endpoint
         /\ pc = "idle" => /\ UNCHANGED <<diskVars, existing>> \/ (BeginExport /\ UNCHANGED diskVars)
                           /\ UNCHANGED <<endpoint, cache, abiCache>> \/ InvalidateSession
         /\ pc' = "idle" => EndRun \/ UNCHANGED runVars
  <1>1. ASSUME StartDeploy \/ StartUpgrade \/ StartExport
        PROVE  Frame
    <2>1. pc = "idle" /\ pc' \in {"recover", "export"}
      BY <1>1 DEF StartDeploy, StartUpgrade, StartExport, BeginExport
    <2>2. UNCHANGED <<diskVars, endpoint, cache, abiCache>>
      BY <1>1 DEF StartDeploy, StartUpgrade, StartExport, BeginRecovery
    <2>3. UNCHANGED existing \/ BeginExport
      BY <1>1 DEF StartDeploy, StartUpgrade, StartExport, BeginRecovery
    <2> QED BY <2>1, <2>2, <2>3
  <1>2. ASSUME NewProcess \/ ChainStep \/ UNCHANGED vars
        PROVE  Frame
    BY <1>2 DEF NewProcess, ChainStep, vars, runVars, diskVars, sessionVars
  <1>3. ASSUME NEW p \in Programs,
               RecoverMarker(p) \/ LookupExisting(p) \/ PreflightProgram(p) \/ Reconcile(p)
                 \/ DeploySetPending(p) \/ DeployRecord(p) \/ ExportRead(p)
        PROVE  Frame
    <2>1. pc # "idle" /\ endpoint' = endpoint
      BY <1>3 DEF RecoverMarker, LookupExisting, PreflightProgram, Reconcile, DeploySetPending,
                  DeployRecord, ExportRead
    <2>2. pc' # "idle"
      BY <1>3 DEF RecoverMarker, LookupExisting, PreflightProgram, Reconcile, DeploySetPending,
                  DeployRecord, ExportRead, Goto
    <2> QED BY <2>1, <2>2
  <1>4. ASSUME EndRecovery \/ ExportAfterUpgrade \/ EndLookup \/ PreflightStops \/ PreflightPasses
               \/ EndReconcile \/ DeployBroadcast \/ DeployAccepted \/ DeployRejected \/ DeployReturns
        PROVE  Frame
    <2>1. pc # "idle" /\ endpoint' = endpoint
      BY <1>4 DEF EndRecovery, ExportAfterUpgrade, EndLookup, PreflightStops, PreflightPasses,
                  EndReconcile, DeployBroadcast, DeployAccepted, DeployRejected, DeployReturns
    <2>2. pc' # "idle" \/ EndRun
      BY <1>4 DEF EndRecovery, ExportAfterUpgrade, EndLookup, PreflightStops, PreflightPasses, Goto,
                  EndReconcile, DeployBroadcast, DeployAccepted, DeployRejected, DeployReturns, BeginExport
    <2> QED BY <2>1, <2>2
  <1>5. ASSUME UpgradeStep
        PROVE  Frame
    <2>1. pc # "idle" /\ endpoint' = endpoint
      BY <1>5 DEF UpgradeStep, UpgradeResolve, UpgradeFallback, UpgradeSetPending, UpgradeBroadcast,
         UpgradeSetTxId, UpgradeAccepted, UpgradeRejected, UpgradeAdvances, UpgradeRecord
    <2>2. pc' # "idle" \/ EndRun
      BY <1>5 DEF UpgradeStep, UpgradeResolve, UpgradeFallback, UpgradeSetPending, UpgradeBroadcast, Goto,
         UpgradeSetTxId, UpgradeAccepted, UpgradeRejected, UpgradeAdvances, UpgradeRecord
    <2> QED BY <2>1, <2>2
  <1>6. ASSUME CrashStep \/ Abort \/ ExportWrite
        PROVE  Frame
    <2>1. pc # "idle" /\ endpoint' = endpoint /\ EndRun
      BY <1>6 DEF CrashStep, Crash, UpgradeRecordCut, ReconcileCut, DeployRecordCut, RecoverMarkerCut,
                  Abort, ExportWrite
    <2> QED BY <2>1
  <1>7. Frame
    BY <1>1, <1>2, <1>3, <1>4, <1>5, <1>6 DEF Next, TaskStep, RecoveryStep, DeployStep, ExportStep
  <1>8. UNCHANGED bundle \/ ExportWrite
    BY DEF Next, vars
  <1> QED BY <1>7, <1>8

(* What a running task can know on an HTTP network is about its endpoint *)
LEMMA KnownOurs ==
  ASSUME MetadataInv, DiskUntouched, SessionOurs, NetType = "http", pc # "idle",
         NEW p \in Programs, NEW rec, Known(p, rec)
  PROVE  OfSession(rec)
  <1>1. CASE Ephemeral
    BY <1>1 DEF DiskUntouched, DiskInit, SessionOurs, Known, OfSession
  <1>2. CASE ~Ephemeral
    BY <1>2 DEF MetadataInv, SessionMatches, DiskMatches, SessionOurs, Known, OfSession
  <1> QED BY <1>1, <1>2

(* Whatever the session learns is about its endpoint *)
LEMMA SessionStep ==
  ASSUME Core, Core', LedgerInv, JobInv, MetadataInv, DiskUntouched, SessionOurs, Forgotten, [Next]_vars
  PROVE  DiskUntouched' /\ SessionOurs' /\ Forgotten'
  <1>1. DiskUntouched'
    BY EphemeralStep DEF DiskUntouched, DiskInit, diskVars
  <1>2. Forgotten'
    BY SessionFrame DEF Forgotten, EndRun, runVars
  <1>3. ASSUME NetType = "http", NEW q \in Programs
        PROVE  OfSession(cache[q])' /\ OfSession(existing[q])'
    <2>1. CASE pc = "idle"
      <3>1. existing'[q] = NoRecord
        BY <2>1, SessionFrame DEF Forgotten, BeginExport
      <3>2. cache'[q] = NoRecord \/ (cache'[q] = cache[q] /\ endpoint' = endpoint)
        BY <2>1, SessionFrame DEF InvalidateSession
      <3> QED BY <1>3, <3>1, <3>2 DEF SessionOurs, OfSession
    <2>2. CASE pc # "idle"
      <3>1. PICK p \in Programs, rec \in Records : Learns(p, rec) /\ Truthful(p, rec)
        BY StoreStep
      <3>2. endpoint' = endpoint
        BY <2>2, SessionFrame
      <3>3. ASSUME NEW x \in Records, Known(q, x)'
            PROVE  OfSession(x)'
        BY <1>3, <2>2, <3>1, <3>2, <3>3, KnownOurs DEF Learns, Truthful, OfSession
      <3>4. cache'[q] \in Records /\ existing'[q] \in Records
        BY DEF Core, ManagerTypeOK, RunInv, RunTypeOK
      <3>5. Known(q, cache[q])' /\ Known(q, existing[q])'
        BY DEF Known
      <3> QED BY <3>3, <3>4, <3>5
    <2> QED BY <2>1, <2>2
  <1> QED BY <1>1, <1>2, <1>3 DEF SessionOurs

(* An ABI that a step stores comes from a transaction accepted here *)
AbiFrom(p, t) ==
  /\ t # NoTx /\ Confirming => AcceptedFor(t, p, endpoint)
  /\ \A q \in Programs : abi'[q] = abi[q] \/ (q = p /\ t # NoTx /\ abi'[q] = t /\ meta' = endpoint)
  /\ \A q \in Programs : abiCache'[q] \in {abiCache[q], NoTx} \/ (q = p /\ abiCache'[q] = t)
  /\ meta' = meta \/ meta = NoEndpoint

(* A step of a task stores one ABI at most, and next to metadata that says so *)
LEMMA AbiStep ==
  ASSUME Core, LedgerInv, JobInv, MetadataInv, NetType = "http", pc # "idle", [Next]_vars
  PROVE  \E p \in Programs : \E t \in MaybeTx : AbiFrom(p, t)
  <1> DEFINE Goal == \E p \in Programs : \E t \in MaybeTx : AbiFrom(p, t)
  <1> USE DEF diskVars, sessionVars, runVars
  <1>0. /\ Ephemeral \/ meta \in {NoEndpoint, endpoint} 
        /\ NoTx \in MaybeTx /\ Programs # {}
        /\ abi \in [Programs -> MaybeTx] /\ abiCache \in [Programs -> MaybeTx]
        /\ job.tx \in MaybeTx
    BY LedgerAssumption DEF MetadataInv, SessionMatches, MaybeTx, Core, DiskInv, DiskTypeOK, ManagerTypeOK,
                            RunInv, RunTypeOK, Jobs
  <1>q. ASSUME UNCHANGED <<meta, abi>>, \A q \in Programs : abiCache'[q] \in {abiCache[q], NoTx}
        PROVE  Goal
    BY <1>0, <1>q DEF AbiFrom
  <1>r. ASSUME NEW p \in Programs, NEW rec, NEW action, NEW t \in MaybeTx,
               t # NoTx /\ Confirming => AcceptedFor(t, p, endpoint),
               Record(p, rec, action, t) \/ RecordCut(p, rec, action, t)
        PROVE  Goal
    <2>1. PICK n \in 1..5 : RecordWrites(p, rec, action, t, n)
      BY <1>r DEF Record, RecordCut
    <2>2. /\ \A q \in Programs : abi'[q] = abi[q] \/ (q = p /\ t # NoTx /\ abi'[q] = t /\ meta' = endpoint)
          /\ meta' = meta \/ meta = NoEndpoint
      BY <1>0, <2>1 DEF RecordWrites
    <2>3. \A q \in Programs : abiCache'[q] \in {abiCache[q], NoTx} \/ (q = p /\ abiCache'[q] = t)
      BY <1>0, <1>r DEF Record, RecordCut, InvalidateSession
    <2> QED BY <1>r, <2>2, <2>3 DEF AbiFrom
  <1>1. CASE UNCHANGED <<meta, abi, abiCache>>
    BY <1>1, <1>q
  <1>2. ASSUME NEW p \in Programs, RecoverMarker(p) \/ RecoverMarkerCut(p)
        PROVE  Goal
    BY <1>0, <1>1, <1>2, <1>r
       DEF RecoverMarker, RecoverMarkerCut, RecoverPending, RecoveryCut
  <1>3. ASSUME NEW p \in Programs, Reconcile(p) \/ ReconcileCut(p)
        PROVE  Goal
    BY <1>0, <1>1, <1>3, <1>r DEF Reconcile, ReconcileCut
  <1>4. ASSUME NEW p \in Programs, DeployRecord(p) \/ DeployRecordCut(p)
        PROVE  Goal
    <2>1. Confirming => AcceptedFor(job.tx, p, endpoint)
      BY <1>4, DeployedTruthful DEF DeployRecord, DeployRecordCut
    <2> QED BY <1>0, <1>4, <1>r, <2>1 DEF DeployRecord, DeployRecordCut
  <1>5. CASE UpgradeRecord \/ UpgradeRecordCut
    <2>1. (Confirming => AcceptedFor(job.tx, Target, endpoint)) /\ Target \in Programs
      BY <1>5, UpgradedTruthful DEF UpgradeRecord, UpgradeRecordCut
    <2> QED BY <1>0, <1>5, <1>r, <2>1 DEF UpgradeRecord, UpgradeRecordCut
  <1>6. CASE Crash \/ NewProcess
    BY <1>6, <1>q DEF Crash, NewProcess, InvalidateSession
  <1>7. CASE StartDeploy \/ StartUpgrade \/ StartExport \/ EndRecovery \/ ExportStep \/ Abort
               \/ ChainStep \/ ExportWrite \/ UNCHANGED vars
    BY <1>1, <1>7 DEF StartDeploy, StartUpgrade, StartExport, BeginRecovery, EndRecovery, ExportStep,
                       ExportAfterUpgrade, ExportRead, Abort, ChainStep, ExportWrite, vars
  <1>8. CASE EndLookup \/ PreflightStops \/ PreflightPasses \/ EndReconcile \/ DeployBroadcast
               \/ DeployAccepted \/ DeployRejected \/ DeployReturns
               \/ \E p \in Programs : LookupExisting(p) \/ PreflightProgram(p) \/ DeploySetPending(p)
    BY <1>1, <1>8 DEF EndLookup, PreflightStops, PreflightPasses, EndReconcile, DeployBroadcast,
                       DeployAccepted, DeployRejected, DeployReturns, LookupExisting, PreflightProgram,
                       DeploySetPending
  <1>9. CASE UpgradeResolve \/ UpgradeFallback \/ UpgradeSetPending \/ UpgradeBroadcast
               \/ UpgradeSetTxId \/ UpgradeAccepted \/ UpgradeRejected \/ UpgradeAdvances
    BY <1>1, <1>9 DEF UpgradeResolve, UpgradeFallback, UpgradeSetPending, UpgradeBroadcast,
                       UpgradeSetTxId, UpgradeAccepted, UpgradeRejected, UpgradeAdvances
  <1> QED
    BY <1>2, <1>3, <1>4, <1>5, <1>6, <1>7, <1>8, <1>9
    DEF Next, TaskStep, CrashStep, RecoveryStep, DeployStep, UpgradeStep

(* ... and stays one *)
LEMMA AbisStep ==
  ASSUME Core, LedgerInv, LedgerGrows, JobInv, MetadataInv, DiskUntouched, AbisAccepted, [Next]_vars
  PROVE  AbisAccepted'
  <1> SUFFICES ASSUME Confirming, NetType = "http", NEW q \in Programs
               PROVE  /\ abiCache'[q] # NoTx => AcceptedFor(abiCache[q], q, endpoint)'
                      /\ abi'[q] # NoTx => AcceptedFor(abi[q], q, meta)'
    BY DEF AbisAccepted
  <1>0. /\ abiCache[q] # NoTx => AcceptedFor(abiCache[q], q, endpoint)
        /\ abi[q] # NoTx => AcceptedFor(abi[q], q, meta)
    BY DEF AbisAccepted
  <1>m. abi[q] # NoTx => meta # NoEndpoint
    BY <1>0, StateAssumption DEF AcceptedFor, Core, LedgerTypeOK, TxRecord
  <1>1. CASE pc = "idle"
    <2>1. UNCHANGED diskVars /\ (UNCHANGED <<endpoint, cache, abiCache>> \/ InvalidateSession)
      BY <1>1, SessionFrame
    <2> QED BY <1>0, <2>1 DEF diskVars, InvalidateSession, AcceptedFor, LedgerGrows
  <1>2. CASE pc # "idle"
    <2>1. PICK p \in Programs, t \in MaybeTx : AbiFrom(p, t)
      BY <1>2, AbiStep
    <2>2. endpoint' = endpoint
      BY <1>2, SessionFrame
    <2>3. t # NoTx => AcceptedFor(t, p, endpoint)'
      BY <2>1, <2>2 DEF AbiFrom, AcceptedFor, LedgerGrows
    <2>4. abiCache'[q] # NoTx => AcceptedFor(abiCache[q], q, endpoint)'
      <3>1. CASE abiCache'[q] = abiCache[q]
        BY <1>0, <2>2, <3>1 DEF AcceptedFor, LedgerGrows
      <3>2. CASE q = p /\ abiCache'[q] = t
        BY <2>3, <3>2 DEF AcceptedFor
      <3> QED BY <2>1, <3>1, <3>2 DEF AbiFrom
    <2>5. abi'[q] # NoTx => AcceptedFor(abi[q], q, meta)'
      <3>1. CASE abi'[q] = abi[q]
        BY <1>0, <1>m, <2>1, <3>1 DEF AbiFrom, AcceptedFor, LedgerGrows
      <3>2. CASE q = p /\ t # NoTx /\ abi'[q] = t /\ meta' = endpoint
        BY <2>2, <2>3, <3>2 DEF AcceptedFor
      <3> QED BY <2>1, <3>1, <3>2 DEF AbiFrom
    <2> QED BY <2>4, <2>5
  <1> QED BY <1>1, <1>2

(* What an export writes comes from the chain it names *)
LEMMA BundleStep ==
  ASSUME Core, LedgerGrows, MetadataInv, BackedInv, BundleInv, [Next]_vars
  PROVE  BundleOurs'
  <1> SUFFICES ASSUME Confirming, NetType = "http", NEW p \in Programs,
                      NEW t \in {bundle'.programs[p].txId, bundle'.programs[p].abi} \cap TxIds
               PROVE  AcceptedFor(t, p, bundle.endpoint)'
    BY DEF BundleOurs
  <1>1. CASE UNCHANGED bundle
    <2>1. AcceptedFor(t, p, bundle.endpoint)
      BY <1>1 DEF BundleInv, BundleOurs
    <2> QED BY <1>1, <2>1 DEF AcceptedFor, LedgerGrows
  <1>2. CASE ExportWrite
    <2>0. NoTx \notin TxIds /\ CompiledAbi \notin TxIds
      BY LedgerAssumption DEF TxIds, CompiledAbi
    <2>1. PICK compiled \in {NoTx, CompiledAbi} :
            /\ bundle'.endpoint = endpoint
            /\ bundle'.programs[p] =
                 IF existing[p] = NoRecord THEN NoEntry
                 ELSE [status |-> existing[p].status,
                       txId |-> IF existing[p].status = "complete" THEN existing[p].txId ELSE NoTx,
                       abi |-> ExportedAbi(p, compiled)]
      BY <1>2 DEF ExportWrite
    <2>2. existing[p] # NoRecord
      BY <2>0, <2>1 DEF NoEntry
    <2>3. CASE t = bundle'.programs[p].txId
      <3>1. existing[p].status = "complete" /\ t = existing[p].txId
        BY <2>0, <2>1, <2>2, <2>3
      <3>2. existing[p] \in Records /\ Known(p, existing[p])
        BY DEF Core, RunInv, RunTypeOK, Known
      <3>3. existing[p].endpoint = endpoint
        BY <2>2 DEF BundleInv, SessionOurs, OfSession
      <3>4. AcceptedFor(t, p, endpoint)
        BY <2>2, <3>1, <3>2, <3>3 DEF BackedInv, RecordsBacked, Backed
      <3> QED BY <2>1, <3>4 DEF AcceptedFor, LedgerGrows
    <2>4. CASE t = bundle'.programs[p].abi
      <3>1. t = ExportedAbi(p, compiled)
        BY <2>1, <2>2, <2>4
      <3>2. \/ ~Ephemeral /\ t = abi[p] /\ abi[p] # NoTx
            \/ t = abiCache[p] /\ abiCache[p] # NoTx
        BY <2>0, <3>1 DEF ExportedAbi
      <3>3. ASSUME ~Ephemeral, t = abi[p], abi[p] # NoTx
            PROVE  AcceptedFor(t, p, endpoint)
        <4>1. AcceptedFor(t, p, meta)
          BY <3>3 DEF BundleInv, AbisAccepted
        <4>2. meta \in {NoEndpoint, endpoint}
          BY <1>2, <3>3 DEF ExportWrite, MetadataInv, SessionMatches
        <4> QED BY <4>1, <4>2, StateAssumption DEF AcceptedFor, Core, LedgerTypeOK, TxRecord
      <3>4. AcceptedFor(t, p, endpoint)
        BY <3>2, <3>3 DEF BundleInv, AbisAccepted
      <3> QED BY <2>1, <3>4 DEF AcceptedFor, LedgerGrows
    <2> QED BY <2>3, <2>4
  <1> QED BY <1>1, <1>2, SessionFrame

(* It holds in every reachable state, by induction next to ChainInv *)
LEMMA BundleAlways == Spec => []BundleInv
  <1>1. Init => BundleInv
    <2> SUFFICES ASSUME Init
                 PROVE  BundleInv
      OBVIOUS
    <2>1. DiskUntouched /\ SessionOurs /\ Forgotten /\ AbisAccepted
      BY DEF Init, DiskInit, ManagerInit, FreshSession, DiskUntouched, SessionOurs, Forgotten, OfSession,
             AbisAccepted
    <2>2. BundleOurs
      BY LedgerAssumption DEF Init, BundleOurs, NoBundle, NoEntry, TxIds
    <2> QED BY <2>1, <2>2 DEF BundleInv
  <1>2. ChainInv /\ BundleInv /\ [Next]_vars => BundleInv'
    <2> SUFFICES ASSUME ChainInv, BundleInv, [Next]_vars
                 PROVE  BundleInv'
      OBVIOUS
    <2>1. Core /\ Core' /\ LedgerGrows /\ LedgerInv /\ JobInv /\ MetadataInv /\ BackedInv
      BY ChainStepKeeps DEF ChainInv, TypeInv
    <2>2. DiskUntouched' /\ SessionOurs' /\ Forgotten'
      BY <2>1, SessionStep DEF BundleInv
    <2>3. AbisAccepted'
      BY <2>1, AbisStep DEF BundleInv
    <2>4. BundleOurs'
      BY <2>1, BundleStep
    <2> QED BY <2>2, <2>3, <2>4 DEF BundleInv
  <1> QED BY <1>1, <1>2, ChainAlways, PTL DEF Spec

(* On an HTTP network with confirmation, every transaction and every ABI of  *)
(* a bundle was accepted for its program on the endpoint the bundle names.   *)
THEOREM BundleTrue == Spec => []BundleFromItsChain
  <1>1. BundleInv => BundleFromItsChain
    BY DEF BundleInv, BundleOurs, BundleFromItsChain, AcceptedFor
  <1> QED BY <1>1, BundleAlways, PTL

-----------------------------------------------------------------------------
(* The snapshot next to a record.  It is another transaction's only after a  *)
(* crash inside the record() of an upgrade, and then the marker is there     *)
(* still, the chain shows what it says, and the next recovery comes to it    *)
Torn(p) == record[p].status = "complete" /\ abi[p] # record[p].txId

AtRest == {"idle", "recover", "export"}

TornMarked ==
  \A p \in Programs : Torn(p) =>
    /\ pending[p].action = "upgrade"
    /\ pending[p].previousEdition >= 0
    /\ meta \in Endpoints /\ pending[p].previousEdition < visible[meta][p]
    /\ pc \in AtRest
    /\ pc = "recover" => p \in todo

(* A program with a complete record is on the chain, which then accepts no   *)
(* deployment of it                                                          *)
DeployIsFirst ==
  pc \in DeployTxSteps /\ record[tx[job.tx].program].status = "complete" =>
    tx[job.tx].status # "accepted"

SnapshotInv == Confirming /\ ~FlakyReads /\ NetType = "http" => TornMarked /\ DeployIsFirst

(* A complete record of a running task's directory is one of the task's chain *)
LEMMA CompleteOnChain ==
  ASSUME Core, LedgerInv, MetadataInv, BackedInv, DiskUntouched, Confirming, NetType = "http", pc # "idle",
         NEW p \in Programs, record[p].status = "complete"
  PROVE  OnChain(endpoint, p)
  <1>1. record[p] # NoRecord /\ record[p] \in Records /\ Known(p, record[p])
    BY DEF NoRecord, Known, Core, DiskInv, DiskTypeOK
  <1>2. ~Ephemeral
    BY <1>1 DEF DiskUntouched, DiskInit
  <1>3. record[p].endpoint = endpoint
    BY <1>1, <1>2 DEF MetadataInv, SessionMatches, DiskMatches
  <1>4. AcceptedFor(record[p].txId, p, endpoint)
    BY <1>1, <1>3 DEF BackedInv, RecordsBacked, Backed
  <1> QED BY <1>4 DEF LedgerInv, AcceptedOnChain, AcceptedFor

(* Steps that write none of the files that matter here *)
LEMMA TornKept ==
  ASSUME Core, Core', LedgerGrows, TornMarked, UNCHANGED <<meta, record, abi, pending>>,
         \/ pc \notin AtRest
         \/ pc' \in {"idle", "export"}
         \/ pc = "recover" /\ pc' = "recover" /\ todo' = todo
         \/ pc' = "recover" /\ todo' = PendingPrograms
  PROVE  TornMarked'
  <1> SUFFICES ASSUME NEW p \in Programs, Torn(p)'
               PROVE  /\ pending[p].action = "upgrade"
                      /\ pending[p].previousEdition >= 0
                      /\ meta \in Endpoints /\ pending[p].previousEdition < visible'[meta][p]
                      /\ pc' \in AtRest
                      /\ pc' = "recover" => p \in todo'
    BY DEF TornMarked
  <1>1. Torn(p)
    BY DEF Torn
  <1>2. /\ pending[p].action = "upgrade" /\ pending[p].previousEdition >= 0
        /\ meta \in Endpoints /\ pending[p].previousEdition < visible[meta][p]
        /\ pc \in AtRest /\ (pc = "recover" => p \in todo)
    BY <1>1 DEF TornMarked
  <1>3. visible[meta][p] \in Int /\ visible'[meta][p] \in Int /\ visible[meta][p] <= visible'[meta][p]
          /\ pending[p].previousEdition \in Int
    BY <1>2 DEF Core, LedgerTypeOK, Editions, LedgerGrows, DiskInv, DiskTypeOK, Markers
  <1>4. p \in PendingPrograms
    BY <1>2 DEF PendingPrograms, NoMarker
  <1> QED BY <1>2, <1>3, <1>4 DEF AtRest

(* What record() does to the snapshot and the record, write by write *)
LEMMA RecordTears ==
  ASSUME Core, NEW p \in Programs, NEW rec \in Records, NEW action, NEW t \in MaybeTx, NEW n \in 1..5,
         RecordWrites(p, rec, action, t, n), ~Ephemeral,
         rec.status = "complete" => rec.txId = t /\ t # NoTx
  PROVE  /\ \A q \in Programs : q # p => /\ record'[q] = record[q] /\ abi'[q] = abi[q]
                                         /\ pending'[q] = pending[q]
         /\ Torn(p)' => /\ record'[p] = record[p] /\ n < 3 /\ pending'[p] = pending[p]
                        /\ abi'[p] = abi[p] \/ (n = 2 /\ t # NoTx)
         /\ meta # NoEndpoint => meta' = meta
         /\ meta = NoEndpoint /\ NetType = "http" => meta' = endpoint
  <1>1. record \in [Programs -> Records] /\ abi \in [Programs -> MaybeTx] /\ pending \in [Programs -> Markers]
    BY DEF Core, DiskInv, DiskTypeOK
  <1>2. \A q \in Programs : q # p => /\ record'[q] = record[q] /\ abi'[q] = abi[q]
                                     /\ pending'[q] = pending[q]
    BY <1>1 DEF RecordWrites
  <1>3. Torn(p)' => /\ record'[p] = record[p] /\ n < 3 /\ pending'[p] = pending[p]
                    /\ abi'[p] = abi[p] \/ (n = 2 /\ t # NoTx)
    BY <1>1 DEF RecordWrites, Torn
  <1>4. /\ meta # NoEndpoint => meta' = meta
        /\ meta = NoEndpoint /\ NetType = "http" => meta' = endpoint
    BY DEF RecordWrites
  <1> QED BY <1>2, <1>3, <1>4

(* A record() that gives no snapshot tears nothing *)
LEMMA NoSnapshotTorn ==
  ASSUME Core, Core', LedgerGrows, TornMarked, NEW p \in Programs, NEW rec \in Records, NEW action,
         NEW n \in 1..5, RecordWrites(p, rec, action, NoTx, n), ~Ephemeral, rec.status # "complete",
         \/ pc \notin AtRest
         \/ pc' = "idle"
         \/ pc = "recover" /\ pc' = "recover" /\ todo' = todo \ {p} /\ n = 5
  PROVE  TornMarked'
  <1> SUFFICES ASSUME NEW q \in Programs, Torn(q)'
               PROVE  /\ pending'[q].action = "upgrade"
                      /\ pending'[q].previousEdition >= 0
                      /\ meta' \in Endpoints /\ pending'[q].previousEdition < visible'[meta'][q]
                      /\ pc' \in AtRest
                      /\ pc' = "recover" => q \in todo'
    BY DEF TornMarked
  <1>1. NoTx \in MaybeTx
    BY DEF MaybeTx
  <1>2. record'[q] = record[q] /\ abi'[q] = abi[q] /\ pending'[q] = pending[q] /\ (q = p => n < 3)
    BY <1>1, RecordTears
  <1>3. Torn(q)
    BY <1>2 DEF Torn
  <1>4. /\ pending[q].action = "upgrade" /\ pending[q].previousEdition >= 0
        /\ meta \in Endpoints /\ pending[q].previousEdition < visible[meta][q]
        /\ pc \in AtRest /\ (pc = "recover" => q \in todo)
    BY <1>3 DEF TornMarked
  <1>5. meta' = meta
    BY <1>1, <1>4, RecordTears, StateAssumption
  <1>6. visible[meta][q] \in Int /\ visible'[meta][q] \in Int /\ visible[meta][q] <= visible'[meta][q]
          /\ pending[q].previousEdition \in Int
    BY <1>4 DEF Core, LedgerTypeOK, Editions, LedgerGrows, DiskInv, DiskTypeOK, Markers
  <1> QED BY <1>2, <1>4, <1>5, <1>6 DEF AtRest

(* Recovery turns a torn program's marker into a record *)
LEMMA TornRecovered ==
  ASSUME Core, MetadataInv, TornMarked, ~Ephemeral, NetType = "http", ~FlakyReads,
         NEW p \in Programs, pc = "recover", Torn(p), NEW r \in OnChainReads(endpoint, p), RecoverPending(p, r)
  PROVE  ~RecoveryDiscards(p, r) /\ ~RecoveryKeeps(p, r)
  <1>1. /\ pending[p].action = "upgrade" /\ pending[p].previousEdition >= 0
        /\ meta \in Endpoints /\ pending[p].previousEdition < visible[meta][p]
    BY DEF TornMarked
  <1>2. meta = endpoint
    BY <1>1, StateAssumption DEF MetadataInv, SessionMatches
  <1>3. visible[endpoint][p] \in Int /\ pending[p].previousEdition \in Int
    BY <1>1, <1>2 DEF Core, LedgerTypeOK, Editions, DiskInv, DiskTypeOK, Markers
  <1>4. r.exists /\ r.edition \in {visible[endpoint][p], -1}
    BY <1>1, <1>2, <1>3 DEF OnChainReads
  <1>5. r.edition = visible[endpoint][p]
    BY <1>1, <1>4 DEF RecoverPending, RecoveryThrows
  <1> QED BY <1>1, <1>2, <1>3, <1>4, <1>5 DEF RecoveryDiscards, RecoveryKeeps

(* An upgrade, recorded in full or cut short after the snapshot *)
LEMMA TornByUpgrade ==
  ASSUME Core, Core', LedgerInv, LedgerGrows, MetadataInv, JobInv, TornMarked, ~Ephemeral, NetType = "http",
         Confirming, UpgradeRecord \/ UpgradeRecordCut
  PROVE  TornMarked'
  <1>1. Target \in Programs /\ UpgradedRecord \in Records /\ pc = "upgrade-record" /\ endpoint \in Endpoints
    BY TargetType, UpgradedType DEF UpgradeRecord, UpgradeRecordCut, UpgradeSteps, Core, ManagerTypeOK
  <1>2. \A q \in Programs : ~Torn(q)
    BY <1>1 DEF TornMarked, AtRest
  <1>3. job.tx \in MaybeTx /\ UpgradedRecord.txId = job.tx
    BY DEF UpgradedRecord, Core, RunInv, RunTypeOK, Jobs
  <1>4. job.tx # NoTx
    BY <1>1, LedgerAssumption DEF JobInv, UpgradeJob, UpgradeTxSteps, BuiltFor, TxIds
  <1>5. PICK n \in 1..5 : /\ RecordWrites(Target, UpgradedRecord, "upgrade", job.tx, n)
                          /\ UpgradeRecord => n = 5
    BY DEF UpgradeRecord, UpgradeRecordCut, Record, RecordCut
  <1>6. /\ pending[Target].action = "upgrade" /\ pending[Target].previousEdition = job.previous
        /\ job.previous >= 0 /\ visible[endpoint][Target] > job.previous
    BY <1>1 DEF JobInv, UpgradeJob, UpgradeTxSteps, RunConfirms
  <1>7. meta' = endpoint
    BY <1>1, <1>3, <1>4, <1>5, RecordTears DEF MetadataInv, SessionMatches
  <1>8. UNCHANGED visible
    BY DEF UpgradeRecord, UpgradeRecordCut, ledgerVars
  <1>9. ASSUME NEW q \in Programs, Torn(q)'
        PROVE  /\ pending'[q].action = "upgrade" /\ pending'[q].previousEdition >= 0
               /\ meta' \in Endpoints /\ pending'[q].previousEdition < visible'[meta'][q]
               /\ pc' \in AtRest /\ (pc' = "recover" => q \in todo')
    <2>1. q = Target /\ n < 3 /\ pending'[Target] = pending[Target]
      BY <1>1, <1>2, <1>3, <1>4, <1>5, <1>9, RecordTears DEF Torn
    <2>2. pc' = "idle"
      BY <1>5, <2>1 DEF UpgradeRecordCut, EndRun
    <2> QED BY <1>1, <1>6, <1>7, <1>8, <2>1, <2>2 DEF AtRest
  <1> QED BY <1>9 DEF TornMarked

(* A deployment is recorded where there is no complete record yet *)
LEMMA TornByDeploy ==
  ASSUME Core, Core', LedgerInv, JobInv, TornMarked, DeployIsFirst, ~Ephemeral, Confirming,
         NEW p \in Programs, DeployRecord(p) \/ DeployRecordCut(p)
  PROVE  TornMarked'
  <1>1. p \in Earliest(queue) /\ pc = "deploy-record" /\ DeployedRecord \in Records
    BY DeployedType DEF DeployRecord, DeployRecordCut, Core
  <1>2. AcceptedFor(job.tx, p, endpoint)
    BY <1>1, DeployedTruthful
  <1>3. record[p].status # "complete"
    BY <1>1, <1>2 DEF DeployIsFirst, DeployTxSteps, AcceptedFor
  <1>4. \A q \in Programs : ~Torn(q)
    BY <1>1 DEF TornMarked, AtRest
  <1>5. job.tx \in MaybeTx /\ job.tx # NoTx /\ DeployedRecord.txId = job.tx
    BY <1>2 DEF AcceptedFor, TxIds, DeployedRecord, MaybeTx
  <1>6. PICK n \in 1..5 : RecordWrites(p, DeployedRecord, "deploy", job.tx, n)
    BY DEF DeployRecord, DeployRecordCut, Record, RecordCut
  <1>7. \A q \in Programs : Torn(q)' => q = p /\ record'[p] = record[p]
    BY <1>1, <1>4, <1>5, <1>6, RecordTears DEF Torn
  <1> QED BY <1>3, <1>7 DEF TornMarked, Torn

(* Every step keeps torn programs marked *)
LEMMA TornStep ==
  ASSUME Core, Core', LedgerInv, LedgerGrows, MetadataInv, JobInv, DiskUntouched, TornMarked, DeployIsFirst,
         NetType = "http", Confirming, ~FlakyReads, [Next]_vars
  PROVE  TornMarked'
  <1> USE DEF diskVars, sessionVars, runVars
  <1>0. NoTx \in MaybeTx
    BY DEF MaybeTx
  <1>e. CASE Ephemeral
    <2>1. \A p \in Programs : record'[p] = NoRecord
      BY <1>e, EphemeralStep DEF DiskUntouched, DiskInit
    <2> QED BY <2>1 DEF TornMarked, Torn, NoRecord
  <1> SUFFICES ASSUME ~Ephemeral
               PROVE  TornMarked'
    BY <1>e
  <1>1. CASE StartDeploy \/ StartUpgrade \/ StartExport \/ EndRecovery \/ ExportStep \/ Abort \/ Crash
               \/ ExportWrite
    <2>1. CASE StartDeploy \/ StartUpgrade
      <3>1. UNCHANGED diskVars /\ pc' = "recover" /\ todo' = PendingPrograms
        BY <2>1 DEF StartDeploy, StartUpgrade, BeginRecovery
      <3> QED BY <3>1, TornKept
    <2>2. CASE StartExport \/ ExportAfterUpgrade \/ Abort \/ Crash \/ ExportWrite
      <3>1. UNCHANGED diskVars /\ pc' \in {"idle", "export"}
        BY <2>2 DEF StartExport, ExportAfterUpgrade, Abort, Crash, ExportWrite, BeginExport, EndRun
      <3> QED BY <3>1, TornKept
    <2>3. ASSUME NEW p \in Programs, ExportRead(p)
          PROVE  TornMarked'
      <3>1. UNCHANGED diskVars /\ pc' = "export"
        BY <2>3 DEF ExportRead
      <3> QED BY <3>1, TornKept
    <2>4. CASE EndRecovery
      <3>1. UNCHANGED diskVars /\ \A p \in Programs : ~Torn(p)
        BY <2>4 DEF EndRecovery, TornMarked
      <3> QED BY <3>1 DEF TornMarked, Torn
    <2> QED BY <1>1, <2>1, <2>2, <2>3, <2>4 DEF ExportStep
  <1>2. CASE NewProcess \/ ChainStep \/ UNCHANGED vars
    <2>1. UNCHANGED <<diskVars, pc, todo>>
      BY <1>2 DEF NewProcess, ChainStep, vars
    <2>2. pc \notin AtRest \/ pc' \in {"idle", "export"} \/ (pc = "recover" /\ pc' = "recover")
      BY <2>1 DEF AtRest
    <2> QED BY <2>1, <2>2, TornKept
  <1>3. ASSUME NEW p \in Programs, RecoverMarker(p)
        PROVE  TornMarked'
    <2>1. PICK r \in OnChainReads(endpoint, p) : RecoverPending(p, r)
      BY <1>3 DEF RecoverMarker
    <2>2. pc = "recover" /\ pc' = "recover" /\ todo' = todo \ {p}
      BY <1>3 DEF RecoverMarker
    <2>3. CASE Record(p, RecoveredRecord(p, r), pending[p].action, NoTx)
      <3>1. RecoveredRecord(p, r) \in Records /\ RecoveredRecord(p, r).status # "complete"
        BY RecoveredType DEF RecoveredRecord, Core, DiskInv
      <3> QED BY <1>0, <2>2, <2>3, <3>1, NoSnapshotTorn DEF Record
    <2>4. CASE RecoveryDiscards(p, r) \/ RecoveryKeeps(p, r)
      <3>1. ~Torn(p)
        BY <2>1, <2>2, <2>4, TornRecovered
      <3>2. UNCHANGED <<meta, record, abi>> /\ \A q \in Programs : q # p => pending'[q] = pending[q]
        BY <2>1, <2>4 DEF RecoverPending, ClearPending, SetPending, Record, Core, DiskInv, DiskTypeOK
      <3>3. UNCHANGED visible
        BY <1>3 DEF RecoverMarker, ledgerVars
      <3> QED BY <2>2, <3>1, <3>2, <3>3 DEF TornMarked, Torn
    <2> QED BY <2>1, <2>3, <2>4 DEF RecoverPending
  <1>4. ASSUME NEW p \in Programs, RecoverMarkerCut(p)
        PROVE  TornMarked'
    <2>1. PICK r \in OnChainReads(endpoint, p) : RecoveryCut(p, r)
      BY <1>4 DEF RecoverMarkerCut
    <2>2. PICK n \in 1..4 : RecordWrites(p, RecoveredRecord(p, r), pending[p].action, NoTx, n)
      BY <2>1 DEF RecoveryCut, RecordCut
    <2>3. pc' = "idle"
      BY <1>4 DEF RecoverMarkerCut, EndRun
    <2>4. RecoveredRecord(p, r) \in Records /\ RecoveredRecord(p, r).status # "complete"
      BY RecoveredType DEF RecoveredRecord, Core, DiskInv
    <2> QED BY <2>2, <2>3, <2>4, NoSnapshotTorn
  <1>5. ASSUME NEW p \in Programs, Reconcile(p) \/ ReconcileCut(p)
        PROVE  TornMarked'
    <2>1. pc \notin AtRest
      BY <1>5 DEF Reconcile, ReconcileCut, AtRest
    <2>2. PICK r \in OnChainReads(endpoint, p) :
            \/ Record(p, DegradedRecord(endpoint, r.edition), "deploy", NoTx)
            \/ RecordCut(p, DegradedRecord(endpoint, r.edition), "deploy", NoTx)
            \/ UNCHANGED diskVars
      BY <1>5 DEF Reconcile, ReconcileCut
    <2>3. CASE UNCHANGED diskVars
      BY <2>1, <2>3, TornKept
    <2>4. CASE ~UNCHANGED diskVars
      <3>1. PICK n \in 1..5 : RecordWrites(p, DegradedRecord(endpoint, r.edition), "deploy", NoTx, n)
        BY <2>2, <2>4 DEF Record, RecordCut
      <3>2. /\ DegradedRecord(endpoint, r.edition) \in Records
            /\ DegradedRecord(endpoint, r.edition).status # "complete"
        BY DegradedTruthful DEF DegradedRecord
      <3> QED BY <2>1, <3>1, <3>2, NoSnapshotTorn
    <2> QED BY <2>3, <2>4
  <1>6. ASSUME NEW p \in Programs, DeployRecord(p) \/ DeployRecordCut(p)
        PROVE  TornMarked'
    BY <1>6, TornByDeploy
  <1>7. CASE UpgradeRecord \/ UpgradeRecordCut
    BY <1>7, TornByUpgrade
  <1>n. ASSUME pc \notin AtRest, UNCHANGED <<record, abi>>
        PROVE  TornMarked'
    BY <1>n DEF TornMarked, Torn
  <1>8. CASE EndLookup \/ PreflightStops \/ PreflightPasses \/ EndReconcile \/ DeployBroadcast
               \/ DeployAccepted \/ DeployRejected \/ DeployReturns
               \/ \E p \in Programs : LookupExisting(p) \/ PreflightProgram(p) \/ DeploySetPending(p)
    BY <1>8, <1>n DEF EndLookup, PreflightStops, PreflightPasses, EndReconcile, DeployBroadcast,
                       DeployAccepted, DeployRejected, DeployReturns, LookupExisting, PreflightProgram,
                       DeploySetPending, AtRest
  <1>9. CASE UpgradeResolve \/ UpgradeFallback \/ UpgradeSetPending \/ UpgradeBroadcast
               \/ UpgradeSetTxId \/ UpgradeAccepted \/ UpgradeRejected \/ UpgradeAdvances
    BY <1>9, <1>n DEF UpgradeResolve, UpgradeFallback, UpgradeSetPending, UpgradeBroadcast,
                       UpgradeSetTxId, UpgradeAccepted, UpgradeRejected, UpgradeAdvances, AtRest
  <1> QED
    BY <1>1, <1>2, <1>3, <1>4, <1>5, <1>6, <1>7, <1>8, <1>9
    DEF Next, TaskStep, CrashStep, RecoveryStep, DeployStep, UpgradeStep

(* How a task comes to work on a deployment *)
LEMMA DeployTxFrame ==
  ASSUME [Next]_vars, pc' \in DeployTxSteps
  PROVE  \/ DeployBroadcast \/ DeployAccepted \/ ChainStep \/ UNCHANGED vars
         \/ \E p \in Programs : DeploySetPending(p)
  <1> USE DEF DeployTxSteps
  <1>1. CASE StartDeploy \/ StartUpgrade \/ StartExport \/ RecoveryStep \/ ExportStep \/ Abort
               \/ ExportWrite \/ CrashStep
    BY <1>1 DEF StartDeploy, StartUpgrade, StartExport, RecoveryStep, EndRecovery, RecoverMarker, Goto,
                ExportStep, ExportAfterUpgrade, ExportRead, BeginExport, Abort, ExportWrite, EndRun,
                CrashStep, Crash, UpgradeRecordCut, ReconcileCut, DeployRecordCut, RecoverMarkerCut
  <1>2. CASE UpgradeStep \/ NewProcess
    BY <1>2 DEF UpgradeStep, UpgradeResolve, UpgradeFallback, UpgradeSetPending, UpgradeBroadcast,
                UpgradeSetTxId, UpgradeAccepted, UpgradeRejected, UpgradeAdvances, UpgradeRecord,
                NewProcess, runVars, Goto, EndRun
  <1>3. ASSUME NEW p \in Programs,
               LookupExisting(p) \/ PreflightProgram(p) \/ Reconcile(p) \/ DeployRecord(p)
        PROVE  FALSE
    BY <1>3 DEF LookupExisting, PreflightProgram, Reconcile, DeployRecord, Goto
  <1>4. CASE EndLookup \/ PreflightStops \/ PreflightPasses \/ EndReconcile \/ DeployRejected \/ DeployReturns
    BY <1>4 DEF EndLookup, PreflightStops, PreflightPasses, EndReconcile, DeployRejected, DeployReturns,
                Goto, EndRun, BeginExport
  <1> QED BY <1>1, <1>2, <1>3, <1>4 DEF Next, TaskStep, DeployStep

(* No transaction that deploys a recorded program is accepted *)
LEMMA DeployFirstStep ==
  ASSUME Core, LedgerInv, JobInv, MetadataInv, BackedInv, DiskUntouched, DeployIsFirst,
         NetType = "http", Confirming, [Next]_vars
  PROVE  DeployIsFirst'
  <1> SUFFICES ASSUME pc' \in DeployTxSteps, record'[tx'[job'.tx].program].status = "complete"
               PROVE  tx'[job'.tx].status # "accepted"
    BY DEF DeployIsFirst
  <1>1. ASSUME NEW p \in Programs, DeploySetPending(p)
        PROVE  tx'[job'.tx].status # "accepted"
    <2>1. PICK t \in TxIds : Build(t, p, "deploy", endpoint) /\ job' = [NoJob EXCEPT !.tx = t]
      BY <1>1 DEF DeploySetPending
    <2> QED BY <2>1 DEF Build, NoJob, Core, LedgerTypeOK
  <1>b. ASSUME pc \in DeployTxSteps
        PROVE  /\ job.tx \in TxIds /\ tx[job.tx] \in TxRecord
               /\ tx[job.tx].action = "deploy" /\ tx[job.tx].endpoint = endpoint
    BY <1>b DEF JobInv, DeployJob, BuiltFor, Core, LedgerTypeOK
  <1>2. CASE DeployBroadcast
    <2>1. pc \in DeployTxSteps /\ Submit(job.tx) /\ job' = job
      BY <1>2 DEF DeployBroadcast, DeployTxSteps
    <2> QED BY <1>b, <2>1 DEF Submit, Core, LedgerTypeOK
  <1>3. CASE DeployAccepted \/ UNCHANGED vars
    <2>1. pc \in DeployTxSteps /\ UNCHANGED <<tx, job, record>>
      BY <1>3 DEF DeployAccepted, DeployTxSteps, vars, ledgerVars, diskVars, runVars
    <2> QED BY <2>1 DEF DeployIsFirst
  <1>4. CASE ChainStep
    <2>1. pc \in DeployTxSteps /\ UNCHANGED <<job, record>> /\ LedgerNext
      BY <1>4 DEF ChainStep, diskVars, runVars
    <2>2. job.tx \in TxIds /\ tx[job.tx] \in TxRecord
            /\ tx[job.tx].action = "deploy" /\ tx[job.tx].endpoint = endpoint
      BY <1>b, <2>1
    <2>3. CASE tx'[job.tx] = tx[job.tx]
      BY <2>1, <2>3 DEF DeployIsFirst
    <2>4. CASE Accept(job.tx)
      <3> DEFINE p == tx[job.tx].program
      <3>1. p \in Programs /\ tx'[job.tx].program = p
        BY <2>2, <2>4 DEF Accept, TxRecord, Core, LedgerTypeOK
      <3>2. OnChain(endpoint, p)
        BY <2>1, <3>1, CompleteOnChain DEF DeployTxSteps
      <3> QED BY <2>2, <2>4, <3>2 DEF Accept, Acceptable
    <2>5. CASE Reject(job.tx)
      BY <2>1, <2>2, <2>5 DEF Reject, Core, LedgerTypeOK
    <2>6. tx'[job.tx] = tx[job.tx] \/ Accept(job.tx) \/ Reject(job.tx)
      BY <2>1, <2>2 DEF LedgerNext, Accept, Reject, Stranger, Propagate, Core, LedgerTypeOK
    <2> QED BY <2>3, <2>4, <2>5, <2>6
  <1> QED BY <1>1, <1>2, <1>3, <1>4, DeployTxFrame

(* It holds in every reachable state, by induction next to the others *)
LEMMA SnapshotAlways == Spec => []SnapshotInv
  <1>1. Init => SnapshotInv
    BY DEF Init, DiskInit, SnapshotInv, TornMarked, DeployIsFirst, Torn, NoRecord, DeployTxSteps
  <1>2. ChainInv /\ BundleInv /\ SnapshotInv /\ [Next]_vars => SnapshotInv'
    <2> SUFFICES ASSUME ChainInv, BundleInv, SnapshotInv, [Next]_vars,
                        Confirming, ~FlakyReads, NetType = "http"
                 PROVE  TornMarked' /\ DeployIsFirst'
      BY DEF SnapshotInv
    <2>1. Core /\ Core' /\ LedgerGrows /\ LedgerInv /\ JobInv /\ MetadataInv /\ BackedInv
            /\ DiskUntouched /\ TornMarked /\ DeployIsFirst
      BY ChainStepKeeps DEF ChainInv, TypeInv, BundleInv, SnapshotInv
    <2> QED BY <2>1, TornStep, DeployFirstStep
  <1> QED BY <1>1, <1>2, ChainAlways, BundleAlways, PTL DEF Spec

(* On an HTTP network, where runs confirm and reads find what exists, a      *)
(* complete record without a marker stands next to its own ABI, wherever a   *)
(* process died.                                                             *)
THEOREM SnapshotTrue == Spec => []SnapshotOfRecord
  <1>1. SnapshotInv => SnapshotOfRecord
    BY DEF SnapshotInv, TornMarked, Torn, SnapshotOfRecord, NoMarker
  <1> QED BY <1>1, SnapshotAlways, PTL

-----------------------------------------------------------------------------
(* The plan of a deployment.  What its loops have found so far: a target     *)
(* without a verdict, then with one that the chain bears out, then deployed  *)
LoopSteps == {"deploy"} \cup DeployTxSteps
PlanSteps == {"lookup", "preflight", "reconcile"} \cup LoopSteps
Found == {"already-in-state", "already-deployed"}

Blank ==
  /\ pc \in {"idle", "recover", "lookup"} => \A p \in Programs : outcome[p] = "none"
  /\ pc \in {"idle", "recover"} => \A p \in Programs : existing[p] = NoRecord

TargetsClosed ==
  /\ pc \in PlanSteps \/ (pc = "recover" /\ opts.task = "deploy") => Closed(opts.targets)
  /\ pc \in PlanSteps => queue \subseteq opts.targets

Checked(p) ==
  /\ outcome[p] \in Found => visible[endpoint][p] # Absent
  /\ outcome[p] = "already-in-state" => cache[p] # NoRecord
  /\ outcome[p] = "deploy" /\ NetType = "http" =>
       \A i \in Imports[p] \ opts.targets : OnChain(endpoint, i)
  /\ existing[p] # NoRecord => cache[p] # NoRecord

Done(p) == (opts.confirm => OnChain(endpoint, p)) /\ cache[p] # NoRecord

Planned ==
  /\ pc \in PlanSteps => \A p \in Programs : Checked(p)
  /\ pc = "preflight" => \A p \in opts.targets \ queue : outcome[p] # "none"
  /\ pc \in {"reconcile"} \cup LoopSteps => \A p \in opts.targets : outcome[p] \in {"deploy"} \cup Found
  /\ pc = "reconcile" =>
       \A p \in opts.targets \ queue : outcome[p] = "already-deployed" /\ ~FlakyReads => cache[p] # NoRecord
  /\ pc \in LoopSteps =>
       \A p \in opts.targets :
         /\ outcome[p] = "already-deployed" /\ ~FlakyReads => cache[p] # NoRecord
         /\ p \in queue => outcome[p] = "deploy"
         /\ outcome[p] = "deploy" /\ p \notin queue => Done(p)

PlanInv == Blank /\ TargetsClosed /\ Planned

(* The sets of programs that deploy may be asked for are closed *)
LEMMA TargetsAreClosed ==
  ASSUME NEW T \in DeployTargets
  PROVE  Closed(T) /\ T \subseteq Local
  <1>1. Closed(Local)
    BY DEF Closed
  <1>2. ASSUME NEW p \in Local
        PROVE  Closed(LocalClosure(p)) /\ LocalClosure(p) \subseteq Local
    <2>1. ASSUME NEW q \in LocalClosure(p), NEW i \in Imports[q] \cap Local,
                 NEW S \in SUBSET Local, p \in S, Closed(S)
          PROVE  i \in S
      BY <2>1 DEF LocalClosure, Closed
    <2> QED BY <2>1 DEF LocalClosure, Closed
  <1> QED BY <1>1, <1>2 DEF DeployTargets

(* What the loop comes to first needs nothing that is still in it *)
LEMMA EarliestNeedsDone ==
  ASSUME NEW S, NEW p \in Earliest(S), NEW i \in Imports[p] \cap Local
  PROVE  i \notin S
  <1>1. PICK k \in 1..Len(Order) : Order[k] = p /\ \A j \in 1..(k - 1) : Order[j] \notin S
    BY DEF Earliest
  <1>2. PICK j \in 1..(k - 1) : Order[j] = i
    BY <1>1, TasksAssumption
  <1> QED BY <1>1, <1>2

(* What is on the chain, and what is seen of it, stays *)
LEMMA ChainStays ==
  ASSUME LedgerTypeOK, LedgerTypeOK', LedgerGrows, NEW e \in Endpoints, NEW p \in Programs
  PROVE  /\ visible[e][p] # Absent => visible'[e][p] # Absent
         /\ OnChain(e, p) => OnChain(e, p)'
  <1>1. /\ visible[e][p] \in Editions /\ visible'[e][p] \in Editions /\ visible[e][p] <= visible'[e][p]
        /\ edition[e][p] \in Editions /\ edition'[e][p] \in Editions /\ edition[e][p] <= edition'[e][p]
    BY DEF LedgerTypeOK, LedgerGrows
  <1> QED BY <1>1 DEF Editions, OnChain

(* Reads show nothing that is not on the chain *)
LEMMA SeenIsOnChain ==
  ASSUME LedgerTypeOK, LedgerInv, NEW e \in Endpoints, NEW p \in Programs, visible[e][p] # Absent
  PROVE  OnChain(e, p)
  <1>1. visible[e][p] \in Editions /\ edition[e][p] \in Editions /\ visible[e][p] <= edition[e][p]
    BY DEF LedgerTypeOK, LedgerInv, VisibleBehind
  <1> QED BY <1>1 DEF Editions, OnChain

(* Outside the steps of a deployment nothing is said of a plan *)
LEMMA PlanElsewhere ==
  ASSUME Blank', pc' \notin PlanSteps, pc' = "recover" /\ opts'.task = "deploy" => Closed(opts'.targets)
  PROVE  PlanInv'
  BY DEF PlanInv, TargetsClosed, Planned, PlanSteps

(* A verdict stays true *)
LEMMA CheckedKept ==
  ASSUME Core, Core', LedgerGrows, UNCHANGED <<opts, endpoint>>, NEW p \in Programs, Checked(p),
         outcome'[p] = outcome[p], cache[p] # NoRecord => cache'[p] # NoRecord,
         existing'[p] = existing[p]
  PROVE  Checked(p)'
  <1>1. LedgerTypeOK /\ LedgerTypeOK' /\ endpoint \in Endpoints /\ Imports[p] \subseteq Programs
    BY LedgerAssumption DEF Core, ManagerTypeOK
  <1>2. visible[endpoint][p] # Absent => visible'[endpoint][p] # Absent
    BY <1>1, ChainStays
  <1>3. \A i \in Imports[p] : OnChain(endpoint, i) => OnChain(endpoint, i)'
    BY <1>1, ChainStays
  <1> QED BY <1>1, <1>2, <1>3 DEF Checked, OnChain

(* What is deployed stays deployed *)
LEMMA DoneKept ==
  ASSUME Core, Core', LedgerGrows, UNCHANGED <<opts, endpoint>>, NEW p \in Programs, Done(p),
         cache[p] # NoRecord => cache'[p] # NoRecord
  PROVE  Done(p)'
  <1>1. OnChain(endpoint, p) => OnChain(endpoint, p)'
    BY ChainStays DEF Core, ManagerTypeOK
  <1> QED BY <1>1 DEF Done, OnChain

(* Steps that move on within the loop, or leave the task alone *)
LEMMA PlanKept ==
  ASSUME Core, Core', LedgerGrows, PlanInv, UNCHANGED <<opts, queue, existing, outcome, endpoint, cache>>,
         pc' = pc \/ (pc \in LoopSteps /\ pc' \in LoopSteps)
  PROVE  PlanInv'
  <1>1. Blank' /\ TargetsClosed'
    BY DEF PlanInv, Blank, TargetsClosed, LoopSteps, PlanSteps, DeployTxSteps, Closed
  <1>2. pc' \in PlanSteps => \A p \in Programs : Checked(p)'
    <2>1. pc' \in PlanSteps => \A p \in Programs : Checked(p)
      BY DEF PlanInv, Planned, PlanSteps
    <2> QED BY <2>1, CheckedKept
  <1>3. \A p \in opts.targets : p \in Programs
    BY LocalPrograms DEF Core, RunInv, RunTypeOK, Options
  <1>4. pc' \in LoopSteps =>
          \A p \in opts.targets : outcome[p] = "deploy" /\ p \notin queue => Done(p)'
    BY <1>3, DoneKept DEF PlanInv, Planned
  <1>5. /\ pc' \in LoopSteps => pc \in LoopSteps
        /\ pc' \in {"preflight", "reconcile"} => pc = pc'
    BY DEF LoopSteps, DeployTxSteps
  <1> QED BY <1>1, <1>2, <1>4, <1>5 DEF PlanInv, Planned

(* The loops of the deploy task, up to the first transaction *)
LEMMA PreflightPlan ==
  ASSUME Core, Core', LedgerInv, LedgerGrows, PlanInv,
         \/ EndRecovery \/ EndLookup \/ PreflightPasses \/ EndReconcile
         \/ \E p \in Programs : LookupExisting(p) \/ PreflightProgram(p) \/ Reconcile(p)
  PROVE  PlanInv'
  <1> USE DEF diskVars, sessionVars, ledgerVars
  <1>0. /\ endpoint \in Endpoints /\ LedgerTypeOK /\ opts.targets \subseteq Programs
        /\ outcome \in [Programs -> Outcomes] /\ existing \in [Programs -> Records]
        /\ cache \in [Programs -> Records]
    BY LocalPrograms DEF Core, ManagerTypeOK, RunInv, RunTypeOK, Options
  <1>1. CASE EndRecovery
    <2>1. /\ pc = "recover" /\ pc' \in {"lookup", "resolve"} /\ (pc' = "lookup" => opts.task = "deploy")
          /\ UNCHANGED <<opts, outcome, existing, cache>> /\ queue' = opts.targets
      BY <1>1 DEF EndRecovery, Goto
    <2>2. \A p \in Programs : outcome[p] = "none" /\ existing[p] = NoRecord
      BY <2>1 DEF PlanInv, Blank
    <2>3. Blank'
      BY <2>1, <2>2 DEF Blank
    <2>4. TargetsClosed'
      BY <2>1 DEF PlanInv, TargetsClosed, PlanSteps, LoopSteps, DeployTxSteps
    <2>5. \A p \in Programs : Checked(p)'
      BY <2>1, <2>2 DEF Checked, Found
    <2> QED BY <2>1, <2>3, <2>4, <2>5 DEF PlanInv, Planned, LoopSteps, DeployTxSteps
  <1>2. ASSUME NEW p \in Programs, LookupExisting(p)
        PROVE  PlanInv'
    <2>1. /\ pc = "lookup" /\ pc' = "lookup" /\ UNCHANGED <<opts, outcome, endpoint>>
          /\ queue' = queue \ {p}
      BY <1>2 DEF LookupExisting
    <2>2. \A q \in Programs : outcome[q] = "none" /\ Checked(q)
      BY <2>1 DEF PlanInv, Blank, Planned, PlanSteps
    <2>3. \A q \in Programs : existing'[q] # NoRecord => cache'[q] # NoRecord
      <3>1. CASE NetType = "devnode"
        BY <1>0, <1>2, <2>2, <3>1 DEF LookupExisting, Checked
      <3>2. CASE NetType # "devnode"
        <4>1. PICK g : existing' = [existing EXCEPT ![p] = g] /\ cache' = [cache EXCEPT ![p] = g]
          BY <1>2, <3>2 DEF LookupExisting, CacheDeployment
        <4> QED BY <1>0, <2>2, <4>1 DEF Checked
      <3> QED BY <3>1, <3>2
    <2>4. \A q \in Programs : Checked(q)'
      BY <2>1, <2>2, <2>3 DEF Checked, Found
    <2>5. Blank' /\ TargetsClosed'
      BY <2>1, <2>2 DEF PlanInv, Blank, TargetsClosed, PlanSteps, Closed
    <2> QED BY <2>1, <2>4, <2>5 DEF PlanInv, Planned, LoopSteps, DeployTxSteps
  <1>3. CASE EndLookup
    <2>1. /\ pc = "lookup" /\ pc' = "preflight" /\ UNCHANGED <<opts, outcome, existing, endpoint, cache>>
          /\ queue' = opts.targets
      BY <1>3 DEF EndLookup, Goto
    <2>2. \A p \in Programs : Checked(p)'
      BY <2>1, CheckedKept DEF PlanInv, Planned, PlanSteps
    <2>3. Blank' /\ TargetsClosed'
      BY <2>1 DEF PlanInv, Blank, TargetsClosed, PlanSteps, Closed
    <2> QED BY <2>1, <2>2, <2>3 DEF PlanInv, Planned, LoopSteps, DeployTxSteps
  <1>4. ASSUME NEW p \in Programs, PreflightProgram(p)
        PROVE  PlanInv'
    <2>1. /\ pc = "preflight" /\ pc' = "preflight" /\ queue' = queue \ {p}
          /\ UNCHANGED <<opts, existing, endpoint, cache, edition, visible>>
      BY <1>4 DEF PreflightProgram
    <2>2. PICK seen \in [ {p} \cup Imports[p] ->
                             UNION {OnChainReads(endpoint, q) : q \in {p} \cup Imports[p]} ] :
            /\ \A q \in {p} \cup Imports[p] : seen[q] \in OnChainReads(endpoint, q)
            /\ LET o == AlreadyDeployedOutcome(p, seen[p].exists) IN
               outcome' = [outcome EXCEPT ![p] =
                             IF o = "deploy" /\ ~ImportsAvailable(p, seen) THEN "error" ELSE o]
      BY <1>4 DEF PreflightProgram
    <2> DEFINE o == AlreadyDeployedOutcome(p, seen[p].exists)
    <2>3. outcome'[p] \in {o, "error"} /\ (outcome'[p] = "deploy" => ImportsAvailable(p, seen))
            /\ \A q \in Programs : q # p => outcome'[q] = outcome[q]
      BY <1>0, <2>2
    <2>4. Imports[p] \subseteq Programs
      BY LedgerAssumption
    <2>5. \A q \in {p} \cup Imports[p] : seen[q].exists => visible[endpoint][q] # Absent
      BY <1>0, <2>2, <2>4, ReadsTrue DEF LedgerInv
    <2>6. \A q \in Imports[p] : seen[q].exists => OnChain(endpoint, q)
      BY <1>0, <2>4, <2>5, SeenIsOnChain
    <2>7. /\ o \in {"deploy", "error"} \cup Found
          /\ o \in Found => seen[p].exists
          /\ o = "already-in-state" => existing[p] # NoRecord
      BY DEF AlreadyDeployedOutcome, Found
    <2>8. Checked(p)'
      <3>1. Checked(p)
        BY <2>1 DEF PlanInv, Planned, PlanSteps
      <3>2. outcome'[p] \in Found => visible'[endpoint'][p] # Absent
        BY <2>1, <2>3, <2>5, <2>7 DEF Found
      <3>3. outcome'[p] = "already-in-state" => cache'[p] # NoRecord
        BY <2>1, <2>3, <2>7, <3>1 DEF Checked
      <3>4. outcome'[p] = "deploy" /\ NetType = "http" =>
              \A i \in Imports[p] \ opts.targets : OnChain(endpoint, i)
        BY <2>3, <2>6, ManagerAssumption DEF ImportsAvailable, Targets
      <3> QED BY <2>1, <3>1, <3>2, <3>3, <3>4 DEF Checked, OnChain
    <2>9. ASSUME NEW q \in Programs, q # p
          PROVE  Checked(q)'
      <3>1. Checked(q)
        BY <2>1 DEF PlanInv, Planned, PlanSteps
      <3> QED BY <2>1, <2>3, <2>9, <3>1, CheckedKept
    <2>10. \A q \in opts.targets \ queue' : outcome'[q] # "none"
      BY <1>0, <2>1, <2>3, <2>7 DEF PlanInv, Planned, Found
    <2>11. Blank' /\ TargetsClosed'
      BY <2>1 DEF PlanInv, Blank, TargetsClosed, PlanSteps, Closed
    <2> QED BY <2>1, <2>8, <2>9, <2>10, <2>11 DEF PlanInv, Planned, LoopSteps, DeployTxSteps
  <1>5. CASE PreflightPasses
    <2>1. /\ pc = "preflight" /\ pc' = "reconcile" /\ UNCHANGED <<opts, outcome, existing, endpoint, cache>>
          /\ queue' = {p \in opts.targets : outcome[p] = "already-deployed"} /\ queue = {}
          /\ \A p \in opts.targets : outcome[p] # "error"
      BY <1>5 DEF PreflightPasses, Goto, Targets
    <2>2. \A p \in Programs : Checked(p)'
      BY <2>1, CheckedKept DEF PlanInv, Planned, PlanSteps
    <2>3. Blank' /\ TargetsClosed'
      BY <2>1 DEF PlanInv, Blank, TargetsClosed, PlanSteps, Closed
    <2>4. \A p \in opts.targets : outcome[p] \in {"deploy"} \cup Found
      BY <1>0, <2>1 DEF PlanInv, Planned, Outcomes, Found
    <2> QED BY <2>1, <2>2, <2>3, <2>4 DEF PlanInv, Planned, LoopSteps, DeployTxSteps
  <1>6. ASSUME NEW p \in Programs, Reconcile(p)
        PROVE  PlanInv'
    <2>1. /\ pc = "reconcile" /\ pc' = "reconcile" /\ queue' = queue \ {p} /\ p \in queue
          /\ UNCHANGED <<opts, outcome, existing, endpoint, edition, visible>>
      BY <1>6 DEF Reconcile, Earliest
    <2>2. p \in opts.targets /\ \A q \in Programs : Checked(q)
      BY <2>1 DEF PlanInv, TargetsClosed, Planned, PlanSteps
    <2>3. PICK r \in OnChainReads(endpoint, p) :
            IF r.exists THEN Record(p, DegradedRecord(endpoint, r.edition), "deploy", NoTx)
            ELSE UNCHANGED <<diskVars, sessionVars>>
      BY <1>6 DEF Reconcile
    <2>4. /\ \A q \in Programs : cache[q] # NoRecord => cache'[q] # NoRecord
          /\ r.exists => cache'[p] # NoRecord
      BY <1>0, <2>3 DEF Record, DegradedRecord, NoRecord
    <2>5. \A q \in Programs : Checked(q)'
      BY <2>1, <2>2, <2>4, CheckedKept
    <2>6. outcome[p] = "already-deployed" /\ ~FlakyReads => r.exists
      BY <2>2, <2>3 DEF Checked, Found, OnChainReads
    <2>7. Blank' /\ TargetsClosed'
      BY <2>1 DEF PlanInv, Blank, TargetsClosed, PlanSteps, Closed
    <2>8. \A q \in opts.targets \ queue' : outcome[q] = "already-deployed" /\ ~FlakyReads => cache'[q] # NoRecord
      BY <1>0, <2>1, <2>4, <2>6 DEF PlanInv, Planned
    <2>9. \A q \in opts.targets : outcome[q] \in {"deploy"} \cup Found
      BY <2>1 DEF PlanInv, Planned
    <2> QED BY <2>1, <2>5, <2>7, <2>8, <2>9 DEF PlanInv, Planned, LoopSteps, DeployTxSteps
  <1>7. CASE EndReconcile
    <2>1. /\ pc = "reconcile" /\ pc' = "deploy" /\ UNCHANGED <<opts, outcome, existing, endpoint, cache>>
          /\ queue' = {p \in opts.targets : outcome[p] = "deploy"} /\ queue = {}
      BY <1>7 DEF EndReconcile, Goto, Targets
    <2>2. \A p \in Programs : Checked(p)'
      BY <2>1, CheckedKept DEF PlanInv, Planned, PlanSteps
    <2>3. Blank' /\ TargetsClosed'
      BY <2>1 DEF PlanInv, Blank, TargetsClosed, PlanSteps, Closed
    <2> QED BY <2>1, <2>2, <2>3 DEF PlanInv, Planned, LoopSteps, DeployTxSteps
  <1> QED BY <1>1, <1>2, <1>3, <1>4, <1>5, <1>6, <1>7

(* A deployed program leaves the loop as one that is done *)
LEMMA RecordPlan ==
  ASSUME Core, Core', LedgerInv, LedgerGrows, JobInv, PlanInv, NEW p \in Programs, DeployRecord(p)
  PROVE  PlanInv'
  <1>1. /\ pc = "deploy-record" /\ pc' = "deploy" /\ queue' = queue \ {p} /\ p \in Earliest(queue)
        /\ UNCHANGED <<opts, outcome, existing, endpoint, ledgerVars>>
    BY DEF DeployRecord, Goto
  <1>2. pc \in LoopSteps /\ pc \in PlanSteps /\ pc' \in LoopSteps
    BY <1>1 DEF LoopSteps, PlanSteps, DeployTxSteps
  <1>0. /\ opts.targets \subseteq Programs /\ p \in queue /\ endpoint \in Endpoints
        /\ cache \in [Programs -> Records]
    BY <1>1, LocalPrograms DEF Core, ManagerTypeOK, RunInv, RunTypeOK, Options, Earliest
  <1>3. /\ \A q \in Programs : cache[q] # NoRecord => cache'[q] # NoRecord
        /\ cache'[p] # NoRecord
    BY <1>0 DEF DeployRecord, Record, DeployedRecord, NoRecord
  <1>4. opts.confirm => OnChain(endpoint, p)
    <2>1. PICK q \in Earliest(queue) :
            BuiltFor(q, "deploy") /\ (opts.confirm => tx[job.tx].status = "accepted")
      BY <1>1 DEF JobInv, DeployJob, DeployTxSteps
    <2>2. q = p
      BY <1>1, <2>1, EarliestUnique
    <2> QED BY <2>1, <2>2 DEF BuiltFor, LedgerInv, AcceptedOnChain
  <1>5. Done(p)'
    BY <1>1, <1>3, <1>4 DEF Done, OnChain, ledgerVars
  <1>6. \A q \in opts.targets : outcome[q] = "deploy" /\ q \notin queue => Done(q)'
    BY <1>0, <1>1, <1>2, <1>3, DoneKept DEF PlanInv, Planned
  <1>7. \A q \in Programs : Checked(q)'
    BY <1>1, <1>2, <1>3, CheckedKept DEF PlanInv, Planned
  <1>8. Blank' /\ TargetsClosed'
    BY <1>1, <1>2 DEF PlanInv, Blank, TargetsClosed, Closed
  <1>9. \A q \in opts.targets :
          /\ outcome[q] \in {"deploy"} \cup Found
          /\ outcome[q] = "already-deployed" /\ ~FlakyReads => cache[q] # NoRecord
          /\ q \in queue => outcome[q] = "deploy"
    BY <1>2 DEF PlanInv, Planned
  <1> QED BY <1>0, <1>1, <1>2, <1>3, <1>5, <1>6, <1>7, <1>8, <1>9 DEF PlanInv, Planned

(* Every step keeps the plan *)
LEMMA PlanStep ==
  ASSUME Core, Core', LedgerInv, LedgerGrows, JobInv, PlanInv, [Next]_vars
  PROVE  PlanInv'
  <1> USE DEF diskVars, sessionVars, ledgerVars, runVars
  <1>n. \A step : step \in {"idle", "recover", "resolve", "fallback", "upgrade", "export-all", "export"}
                             \cup UpgradeTxSteps => step \notin PlanSteps
    BY DEF PlanSteps, LoopSteps, DeployTxSteps, UpgradeTxSteps
  <1>1. CASE StartDeploy
    <2>1. /\ pc = "idle" /\ pc' = "recover" /\ UNCHANGED <<outcome, existing>>
          /\ \E T \in DeployTargets : opts'.targets = T
      BY <1>1 DEF StartDeploy, BeginRecovery
    <2>2. Blank' /\ Closed(opts'.targets)
      BY <2>1, TargetsAreClosed DEF PlanInv, Blank
    <2> QED BY <1>n, <2>1, <2>2, PlanElsewhere
  <1>2. CASE StartUpgrade
    <2>1. pc = "idle" /\ pc' = "recover" /\ UNCHANGED <<outcome, existing>> /\ opts'.task = "upgrade"
      BY <1>2 DEF StartUpgrade, BeginRecovery
    <2> QED BY <1>n, <2>1, PlanElsewhere DEF PlanInv, Blank
  <1>3. CASE pc' \in {"resolve", "fallback", "upgrade", "export-all", "export"} \cup UpgradeTxSteps
    BY <1>3, <1>n, PlanElsewhere DEF Blank, UpgradeTxSteps
  <1>4. CASE EndRun
    <2>1. pc' = "idle" /\ Blank'
      BY <1>4 DEF EndRun, Blank
    <2> QED BY <1>n, <2>1, PlanElsewhere
  <1>5. ASSUME NEW p \in Programs, RecoverMarker(p)
        PROVE  PlanInv'
    <2>1. pc = "recover" /\ pc' = "recover" /\ UNCHANGED <<outcome, existing, opts>>
      BY <1>5 DEF RecoverMarker
    <2> QED BY <1>n, <2>1, PlanElsewhere DEF PlanInv, Blank, TargetsClosed
  <1>6. CASE NewProcess
    <2>1. pc = "idle" /\ UNCHANGED <<pc, outcome, existing, opts>>
      BY <1>6 DEF NewProcess
    <2> QED BY <1>n, <2>1, PlanElsewhere DEF PlanInv, Blank
  <1>7. CASE ChainStep \/ UNCHANGED vars \/ DeployBroadcast \/ DeployAccepted
               \/ \E p \in Programs : DeploySetPending(p)
    <2>1. UNCHANGED <<opts, queue, existing, outcome, endpoint, cache>>
      BY <1>7 DEF ChainStep, vars, DeployBroadcast, DeployAccepted, DeploySetPending, Goto
    <2>2. pc' = pc \/ (pc \in LoopSteps /\ pc' \in LoopSteps)
      BY <1>7 DEF ChainStep, vars, DeployBroadcast, DeployAccepted, DeploySetPending, Goto,
                  LoopSteps, DeployTxSteps
    <2> QED BY <2>1, <2>2, PlanKept
  <1>8. CASE UpgradeStep \/ ExportStep
    <2>1. pc' \in {"fallback", "upgrade", "export-all", "export"} \cup UpgradeTxSteps \/ EndRun
      BY <1>8 DEF UpgradeStep, UpgradeResolve, UpgradeFallback, UpgradeSetPending, UpgradeBroadcast, Goto,
         UpgradeSetTxId, UpgradeAccepted, UpgradeRejected, UpgradeAdvances, UpgradeRecord, UpgradeTxSteps,
         ExportStep, ExportAfterUpgrade, ExportRead, BeginExport
    <2> QED BY <1>3, <1>4, <2>1
  <1>9. CASE StartExport \/ CrashStep \/ Abort \/ ExportWrite \/ PreflightStops \/ DeployRejected
               \/ DeployReturns
    <2>1. pc' = "export" \/ EndRun
      BY <1>9 DEF StartExport, CrashStep, Crash, UpgradeRecordCut, ReconcileCut, DeployRecordCut,
                  RecoverMarkerCut, Abort, ExportWrite, PreflightStops, DeployRejected, DeployReturns,
                  BeginExport
    <2> QED BY <1>3, <1>4, <2>1
  <1>10. CASE EndRecovery \/ EndLookup \/ PreflightPasses \/ EndReconcile
                \/ \E p \in Programs : LookupExisting(p) \/ PreflightProgram(p) \/ Reconcile(p)
    BY <1>10, PreflightPlan
  <1>11. ASSUME NEW p \in Programs, DeployRecord(p)
         PROVE  PlanInv'
    BY <1>11, RecordPlan
  <1> QED
    BY <1>1, <1>2, <1>5, <1>6, <1>7, <1>8, <1>9, <1>10, <1>11
    DEF Next, TaskStep, RecoveryStep, DeployStep

(* It holds in every reachable state, by induction next to ChainInv *)
LEMMA PlanAlways == Spec => []PlanInv
  <1>1. Init => PlanInv
    BY DEF Init, PlanInv, Blank, TargetsClosed, Planned, PlanSteps, LoopSteps, DeployTxSteps
  <1>2. ChainInv /\ PlanInv /\ [Next]_vars => PlanInv'
    BY ChainStepKeeps, PlanStep DEF ChainInv, TypeInv
  <1> QED BY <1>1, <1>2, ChainAlways, PTL DEF Spec

(* A step that sends a deployment is one of the deploy loop *)
LEMMA Broadcasts ==
  ASSUME Core, JobInv, [Next]_vars, NEW t \in TxIds, tx[t].action = "deploy",
         tx[t].status = "building", tx'[t].status = "pending"
  PROVE  pc = "deploy-send" /\ t = job.tx
  <1>1. tx \in [TxIds -> TxRecord]
    BY DEF Core, LedgerTypeOK
  <1>2. ASSUME NEW s \in TxIds, NEW p \in Programs, NEW a \in Actions, Build(s, p, a, endpoint)
        PROVE  FALSE
    BY <1>1, <1>2 DEF Build, IsNextTx, Used
  <1>3. ASSUME LedgerNext
        PROVE  FALSE
    BY <1>1, <1>3 DEF LedgerNext, Accept, Reject, Stranger, Propagate
  <1>4. CASE pc \in {"deploy-send", "upgrade-send"} /\ Submit(job.tx)
    <2>1. t = job.tx
      BY <1>1, <1>4 DEF Submit
    <2>2. pc = "upgrade-send" => tx[job.tx].action = "upgrade"
      BY DEF JobInv, UpgradeJob, UpgradeTxSteps, BuiltFor
    <2> QED BY <1>4, <2>1, <2>2
  <1> QED BY <1>2, <1>3, <1>4, StepsOfLedger DEF LedgerStep, ledgerVars

(* No deployment is sent before everything it imports is on the chain that   *)
(* it is sent to (on a devnode: every import of the project).                *)
THEOREM ImportsFirst == Spec => ImportsBeforeBroadcast
  <1>1. ChainInv /\ PlanInv /\ [Next]_vars =>
          \A t \in TxIds :
            /\ Confirming /\ tx[t].action = "deploy"
            /\ tx[t].status = "building" /\ tx'[t].status = "pending"
            => \A i \in Imports[tx[t].program] :
                 i \in Local \/ NetType = "http" => OnChain(tx[t].endpoint, i)
    <2> SUFFICES ASSUME ChainInv, PlanInv, [Next]_vars, NEW t \in TxIds, Confirming,
                        tx[t].action = "deploy", tx[t].status = "building", tx'[t].status = "pending",
                        NEW i \in Imports[tx[t].program], i \in Local \/ NetType = "http"
                 PROVE  OnChain(tx[t].endpoint, i)
      OBVIOUS
    <2>1. Core /\ LedgerInv /\ JobInv /\ LedgerTypeOK /\ endpoint \in Endpoints
      BY DEF ChainInv, TypeInv, Core, ManagerTypeOK
    <2>2. pc = "deploy-send" /\ t = job.tx
      BY <2>1, Broadcasts
    <2>3. PICK p \in Earliest(queue) : BuiltFor(p, "deploy")
      BY <2>1, <2>2 DEF JobInv, DeployJob, DeployTxSteps
    <2>4. tx[t].program = p /\ tx[t].endpoint = endpoint
      BY <2>2, <2>3 DEF BuiltFor
    <2>5. pc \in LoopSteps /\ pc \in PlanSteps /\ opts.confirm
      BY <2>1, <2>2 DEF LoopSteps, PlanSteps, DeployTxSteps, JobInv, RunConfirms
    <2>6. /\ p \in queue /\ p \in opts.targets /\ outcome[p] = "deploy" /\ Closed(opts.targets)
          /\ opts.targets \subseteq Programs
      BY <2>1, <2>3, <2>5, LocalPrograms
         DEF PlanInv, TargetsClosed, Planned, Earliest, Core, RunInv, RunTypeOK, Options
    <2>7. CASE i \in opts.targets
      <3>1. i \notin queue
        <4>1. i \in Local
          BY <2>1, <2>7 DEF Core, RunInv, RunTypeOK, Options
        <4> QED BY <2>3, <2>4, <4>1, EarliestNeedsDone
      <3>2. CASE outcome[i] = "deploy"
        BY <2>4, <2>5, <2>7, <3>1, <3>2 DEF PlanInv, Planned, Done
      <3>3. CASE outcome[i] \in Found
        <4>1. visible[endpoint][i] # Absent
          BY <2>5, <2>6, <2>7, <3>3 DEF PlanInv, Planned, Checked
        <4> QED BY <2>1, <2>4, <2>6, <2>7, <4>1, SeenIsOnChain
      <3> QED BY <2>5, <2>7, <3>2, <3>3 DEF PlanInv, Planned
    <2>8. CASE i \notin opts.targets
      <3>1. i \notin Local
        BY <2>4, <2>6, <2>8 DEF Closed
      <3> QED BY <2>4, <2>5, <2>6, <2>8, <3>1 DEF PlanInv, Planned, Checked
    <2> QED BY <2>7, <2>8
  <1> QED BY <1>1, ChainAlways, PlanAlways, PTL DEF Spec, ImportsBeforeBroadcast

(* A confirming deploy that returns has deployed its targets: each is on the *)
(* chain of the endpoint, with a record when reads find what exists.         *)
THEOREM DeployComplete == Spec => DeployReturnsDeployed
  <1>1. ChainInv /\ PlanInv /\ [Next]_vars =>
          (DeployReturns /\ opts.confirm =>
             \A p \in Targets :
               /\ OnChain(endpoint, p)
               /\ FlakyReads \/ KnownRecord(p) # NoRecord)
    <2> SUFFICES ASSUME ChainInv, PlanInv, DeployReturns, opts.confirm, NEW p \in Targets
                 PROVE  OnChain(endpoint, p) /\ (FlakyReads \/ KnownRecord(p) # NoRecord)
      OBVIOUS
    <2>1. pc \in LoopSteps /\ pc \in PlanSteps /\ p \notin queue /\ p \in opts.targets
      BY DEF DeployReturns, LoopSteps, PlanSteps, Targets
    <2>2. p \in Programs /\ LedgerTypeOK /\ LedgerInv /\ endpoint \in Endpoints
      BY <2>1, LocalPrograms
         DEF ChainInv, TypeInv, Core, ManagerTypeOK, RunInv, RunTypeOK, Options
    <2>3. CASE outcome[p] = "deploy"
      BY <2>1, <2>3 DEF PlanInv, Planned, Done, KnownRecord
    <2>4. CASE outcome[p] \in Found
      <3>1. visible[endpoint][p] # Absent /\ (outcome[p] = "already-in-state" => cache[p] # NoRecord)
        BY <2>1, <2>2, <2>4 DEF PlanInv, Planned, Checked
      <3>2. OnChain(endpoint, p)
        BY <2>2, <3>1, SeenIsOnChain
      <3>3. FlakyReads \/ cache[p] # NoRecord
        BY <2>1, <2>4, <3>1 DEF PlanInv, Planned, Found
      <3> QED BY <3>2, <3>3 DEF KnownRecord
    <2> QED BY <2>1, <2>3, <2>4 DEF PlanInv, Planned
  <1> QED BY <1>1, ChainAlways, PlanAlways, PTL DEF Spec, DeployReturnsDeployed

==============================================================================
