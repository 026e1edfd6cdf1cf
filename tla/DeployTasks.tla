----------------------------- MODULE DeployTasks ----------------------------
(***************************************************************************)
(* The deploy and upgrade tasks of one project directory.  Every action is *)
(* the code between two awaits that can see or change shared state; the    *)
(* chain moves between any two of them, an awaited call may throw (Abort), *)
(* and the process may die (Crash, or the *Cut actions in the middle of a  *)
(* record()).  Each command may run in a new process or in the session of  *)
(* the one before it.                                                      *)
(***************************************************************************)
EXTENDS DeploymentManager, Sequences

CONSTANTS
  Order,          \* graph.order: the local programs, dependencies first
  Tasks,          \* which of {"deploy", "upgrade", "export"} are run
  Modes,          \* which of {"deploy", "dry-run", "preflight"} deploy is run in
  ConfirmModes,   \* which values shouldConfirm takes
  SkipModes,      \* which values skipDeployed takes
  ExportModes,    \* which values of --export or deploy.autoExport are used
  MaxCrashes      \* bound: deaths of the process in the middle of a task

Local == {Order[i] : i \in 1..Len(Order)}

ASSUME TasksAssumption ==
  /\ Order \in Seq(Programs)
  /\ \A i, j \in 1..Len(Order) : Order[i] = Order[j] => i = j
  /\ \A i \in 1..Len(Order) : \A q \in Imports[Order[i]] \cap Local :
       \E j \in 1..(i - 1) : Order[j] = q
  /\ Tasks \subseteq Actions \cup {"export"}
  /\ Modes \subseteq {"deploy", "dry-run", "preflight"}
  /\ ConfirmModes \subseteq BOOLEAN
  /\ SkipModes \subseteq BOOLEAN
  /\ ExportModes \subseteq BOOLEAN
  /\ MaxCrashes \in Nat

VARIABLES
  pc,           \* where the running task is, "idle" when none is
  opts,         \* its task and options
  todo,         \* markers to recover, or records to export, not visited yet
  queue,        \* targets its current loop has still to visit
  existing,     \* existing[p]: existingRecord of a target
  outcome,      \* outcome[p]: the preflight outcome of a target
  job,          \* the transaction it is working on
  bundle,       \* _exports/<network>.json
  crashes       \* deaths of the process so far

runVars == <<pc, opts, todo, queue, existing, outcome, job>>
vars == <<ledgerVars, diskVars, endpoint, sessionVars, runVars, bundle, crashes>>

NoOpts == [task |-> "deploy", mode |-> "deploy", confirm |-> FALSE, skipDeployed |-> FALSE,
           export |-> FALSE, targets |-> {}]

(* fallback: previous came from observedFallbackEdition *)
NoJob == [tx |-> NoTx, previous |-> Absent, fallback |-> FALSE, base |-> NoRecord,
          edition |-> Absent]

(* An exported program: the transaction of a complete record, and an ABI    *)
(* that is a snapshot, or CompiledAbi from the artifact store               *)
CompiledAbi == MaxTx + 1
BundleEntries == [status: {"absent", "complete", "degraded", "recovered"},
                  txId: MaybeTx, abi: MaybeTx \cup {CompiledAbi}]
NoEntry == [status |-> "absent", txId |-> NoTx, abi |-> NoTx]
NoBundle == [endpoint |-> NoEndpoint, programs |-> [p \in Programs |-> NoEntry]]

Outcomes == {"none", "deploy", "already-in-state", "already-deployed", "error"}

Steps == {"idle", "recover", "lookup", "preflight", "reconcile", "deploy", "deploy-send",
          "deploy-confirm", "deploy-record", "resolve", "fallback", "upgrade", "upgrade-send",
          "upgrade-sent", "upgrade-confirm", "upgrade-advance", "upgrade-record", "export-all", "export"}

Options == [task: Actions \cup {"export"}, mode: {"deploy", "dry-run", "preflight"},
            confirm: BOOLEAN, skipDeployed: BOOLEAN, export: BOOLEAN, targets: SUBSET Local]
Jobs == [tx: MaybeTx, previous: Editions, fallback: BOOLEAN, base: Records, edition: Editions]
Bundles == [endpoint: MaybeEndpoint, programs: [Programs -> BundleEntries]]

RunTypeOK ==
  /\ pc \in Steps
  /\ opts \in Options
  /\ todo \in SUBSET Programs
  /\ queue \in SUBSET Local
  /\ existing \in [Programs -> Records]
  /\ outcome \in [Programs -> Outcomes]
  /\ job \in Jobs

TypeOK ==
  /\ LedgerTypeOK /\ DiskTypeOK /\ ManagerTypeOK /\ RunTypeOK
  /\ bundle \in Bundles
  /\ crashes \in 0..MaxCrashes

Init ==
  /\ LedgerInit /\ DiskInit /\ ManagerInit
  /\ pc = "idle" /\ opts = NoOpts /\ todo = {} /\ queue = {} /\ job = NoJob
  /\ bundle = NoBundle /\ crashes = 0
  /\ existing = [p \in Programs |-> NoRecord]
  /\ outcome = [p \in Programs |-> "none"]

(* The task returns or throws; the session stays *)
EndRun ==
  /\ pc' = "idle" /\ opts' = NoOpts /\ todo' = {} /\ queue' = {} /\ job' = NoJob
  /\ existing' = [p \in Programs |-> NoRecord]
  /\ outcome' = [p \in Programs |-> "none"]

(* The task goes on with another step *)
Goto(step) == pc' = step /\ UNCHANGED opts
Targets == opts.targets

(* The member of S that a loop in the order of the graph visits first *)
Earliest(S) ==
  {p \in S : \E i \in 1..Len(Order) :
               Order[i] = p /\ \A j \in 1..(i - 1) : Order[j] \notin S}

-----------------------------------------------------------------------------
(* collectLocalDeploymentClosure: p and the local programs it needs.  The   *)
(* tasks visit them in the order of the graph.                              *)
Closed(S) == \A q \in S : Imports[q] \cap Local \subseteq S

LocalClosure(p) ==
  {q \in Local : \A S \in SUBSET Local : p \in S /\ Closed(S) => q \in S}

(* resolveDeployTargets: everything, or one program with what it needs *)
DeployTargets == {Local} \cup {LocalClosure(p) : p \in Local}

(* The beginning of recoverPendingDeployments: nothing to do when ephemeral *)
BeginRecovery ==
  /\ IF Ephemeral THEN todo' = {} /\ UNCHANGED metadataValidated
                  ELSE todo' = PendingPrograms /\ ValidateHttpMetadata
  /\ UNCHANGED <<ledgerVars, diskVars, endpoint, cache, abiCache, existing, outcome, job>>

(* deploy: compile, resolve the targets, connect *)
StartDeploy ==
  /\ pc = "idle" /\ "deploy" \in Tasks
  /\ \E mode \in Modes, confirm \in ConfirmModes, skip \in SkipModes,
        export \in ExportModes, targets \in DeployTargets :
       opts' = [task |-> "deploy", mode |-> mode, confirm |-> confirm,
                skipDeployed |-> skip, export |-> export /\ confirm, targets |-> targets]
  /\ pc' = "recover" /\ queue' = {}
  /\ BeginRecovery

(* upgrade --program p: connect *)
StartUpgrade ==
  /\ pc = "idle" /\ "upgrade" \in Tasks
  /\ \E confirm \in ConfirmModes, export \in ExportModes, p \in Local :
       opts' = [task |-> "upgrade", mode |-> "deploy", confirm |-> confirm,
                skipDeployed |-> FALSE, export |-> export /\ confirm, targets |-> {p}]
  /\ pc' = "recover" /\ queue' = {}
  /\ BeginRecovery

RecoverMarker(p) ==
  /\ pc = "recover" /\ p \in todo
  /\ \E r \in OnChainReads(endpoint, p) : RecoverPending(p, r)
  /\ todo' = todo \ {p}
  /\ UNCHANGED <<ledgerVars, endpoint, pc, opts, queue, existing, outcome, job>>

RecoverMarkerCut(p) ==
  /\ pc = "recover" /\ p \in todo
  /\ \E r \in OnChainReads(endpoint, p) : RecoveryCut(p, r)
  /\ EndRun
  /\ UNCHANGED <<ledgerVars, endpoint>>

EndRecovery ==
  /\ pc = "recover" /\ todo = {}
  /\ Goto(IF opts.task = "deploy" THEN "lookup" ELSE "resolve")
  /\ queue' = opts.targets
  /\ UNCHANGED <<ledgerVars, diskVars, endpoint, sessionVars, todo, existing, outcome, job>>

-----------------------------------------------------------------------------
(* manager.export: getAllDeployments collects the known programs ...        *)
BeginExport ==
  /\ pc' = "export"
  /\ todo' = {p \in Programs : cache[p] # NoRecord \/ (~Ephemeral /\ record[p] # NoRecord)}
  /\ queue' = {} /\ job' = NoJob
  /\ existing' = [p \in Programs |-> NoRecord]
  /\ outcome' = [p \in Programs |-> "none"]

StartExport_Unvalidated ==
  /\ pc = "idle" /\ "export" \in Tasks
  /\ opts' = [NoOpts EXCEPT !.task = "export"]
  /\ BeginExport
  /\ UNCHANGED <<ledgerVars, diskVars, endpoint, sessionVars>>

(* The export task, or the export at the end of an upgrade *)
StartExport ==
  /\ pc = "idle" /\ "export" \in Tasks
  /\ opts' = [NoOpts EXCEPT !.task = "export"]
  /\ IF Ephemeral THEN UNCHANGED metadataValidated ELSE ValidateHttpMetadata
  /\ BeginExport
  /\ UNCHANGED <<ledgerVars, diskVars, endpoint, cache, abiCache>>

ExportAfterUpgrade ==
  /\ pc = "export-all"
  /\ BeginExport
  /\ UNCHANGED <<ledgerVars, diskVars, endpoint, sessionVars, opts>>

(* ... asks getDeployment about each ... *)
ExportRead(p) ==
  /\ pc = "export" /\ p \in todo
  /\ \E r \in OnChainReads(endpoint, p) :
       /\ GetDeploymentReturns(p, r)
       /\ CacheDeployment(p, r)
       /\ existing' = [existing EXCEPT ![p] = GetDeployment(p, r)]
  /\ todo' = todo \ {p}
  /\ UNCHANGED <<ledgerVars, diskVars, endpoint, abiCache, metadataValidated,
                 pc, opts, queue, outcome, job>>

(* ... and writes the bundle: disk snapshot, session ABI, compiled artifact *)
ExportedAbi(p, compiled) ==
  IF ~Ephemeral /\ abi[p] # NoTx THEN abi[p]
  ELSE IF abiCache[p] # NoTx THEN abiCache[p] ELSE compiled

ExportWrite ==
  /\ pc = "export" /\ todo = {}
  /\ \E compiled \in {NoTx, CompiledAbi} :
       bundle' = [endpoint |-> endpoint,
                  programs |-> [p \in Programs |->
                    IF existing[p] = NoRecord THEN NoEntry
                    ELSE [status |-> existing[p].status,
                          txId |-> IF existing[p].status = "complete" THEN existing[p].txId ELSE NoTx,
                          abi |-> ExportedAbi(p, compiled)]]]
  /\ EndRun
  /\ UNCHANGED <<ledgerVars, diskVars, endpoint, sessionVars>>

-----------------------------------------------------------------------------
(* Step 8 of deployAction: the record of each target.  A devnode is asked   *)
(* for its cached record only.                                              *)
LookupExisting(p) ==
  /\ pc = "lookup" /\ p \in Earliest(queue)
  /\ IF NetType = "devnode"
     THEN existing' = [existing EXCEPT ![p] = cache[p]] /\ UNCHANGED cache
     ELSE \E r \in OnChainReads(endpoint, p) :
            /\ existing' = [existing EXCEPT ![p] = GetDeployment(p, r)]
            /\ CacheDeployment(p, r)
  /\ queue' = queue \ {p}
  /\ UNCHANGED <<ledgerVars, diskVars, endpoint, abiCache, metadataValidated,
                 pc, opts, todo, outcome, job>>

EndLookup ==
  /\ pc = "lookup" /\ queue = {}
  /\ Goto("preflight")
  /\ queue' = opts.targets
  /\ UNCHANGED <<ledgerVars, diskVars, endpoint, sessionVars, todo, existing, outcome, job>>

(* checkAlreadyDeployed *)
AlreadyDeployedOutcome(p, exists) ==
  CASE ~exists -> "deploy"
    [] exists /\ ~opts.skipDeployed -> "error"
    [] exists /\ opts.skipDeployed /\ existing[p] # NoRecord -> "already-in-state"
    [] OTHER -> "already-deployed"

ImportsAvailable_LocalOnly(p, seen) == TRUE

(* checkImportsAvailable, on HTTP: an import outside this run is on chain.  *)
(* seen[i] is what the check of import i answered.                          *)
ImportsAvailable(p, seen) ==
  NetType = "devnode" \/ \A i \in Imports[p] \ Targets : seen[i].exists

(* runDeployPreflight, one program *)
PreflightProgram(p) ==
  /\ pc = "preflight" /\ p \in Earliest(queue)
  /\ \E seen \in [ {p} \cup Imports[p] ->
                     UNION {OnChainReads(endpoint, q) : q \in {p} \cup Imports[p]} ] :
       /\ \A q \in {p} \cup Imports[p] : seen[q] \in OnChainReads(endpoint, q)
       /\ LET o == AlreadyDeployedOutcome(p, seen[p].exists) IN
          outcome' = [outcome EXCEPT ![p] =
                        IF o = "deploy" /\ ~ImportsAvailable(p, seen) THEN "error" ELSE o]
  /\ queue' = queue \ {p}
  /\ UNCHANGED <<ledgerVars, diskVars, endpoint, sessionVars, pc, opts, todo, existing, job>>

(* --preflight, a failed preflight and --dry-run stop here *)
PreflightStops ==
  /\ pc = "preflight" /\ queue = {}
  /\ opts.mode # "deploy" \/ \E p \in Targets : outcome[p] = "error"
  /\ EndRun
  /\ UNCHANGED <<ledgerVars, diskVars, endpoint, sessionVars>>

PreflightPasses ==
  /\ pc = "preflight" /\ queue = {}
  /\ opts.mode = "deploy" /\ \A p \in Targets : outcome[p] # "error"
  /\ Goto("reconcile")
  /\ queue' = {p \in opts.targets : outcome[p] = "already-deployed"}
  /\ UNCHANGED <<ledgerVars, diskVars, endpoint, sessionVars, todo, existing, outcome, job>>

(* Step 14: a degraded record for a program found on chain without a record. *)
(* The edition comes from the check or from one more read.                   *)
Reconcile(p) ==
  /\ pc = "reconcile" /\ p \in Earliest(queue)
  /\ \E r \in OnChainReads(endpoint, p) :
       IF r.exists
       THEN r.edition # Unknown /\ Record(p, DegradedRecord(endpoint, r.edition), "deploy", NoTx)
       ELSE UNCHANGED <<diskVars, sessionVars>>
  /\ queue' = queue \ {p}
  /\ UNCHANGED <<ledgerVars, endpoint, pc, opts, todo, existing, outcome, job>>

ReconcileCut(p) ==
  /\ pc = "reconcile" /\ p \in Earliest(queue)
  /\ \E r \in OnChainReads(endpoint, p) :
       r.exists /\ RecordCut(p, DegradedRecord(endpoint, r.edition), "deploy", NoTx)
  /\ EndRun
  /\ UNCHANGED <<ledgerVars, endpoint>>

EndReconcile ==
  /\ pc = "reconcile" /\ queue = {}
  /\ Goto("deploy")
  /\ queue' = {p \in opts.targets : outcome[p] = "deploy"}
  /\ UNCHANGED <<ledgerVars, diskVars, endpoint, sessionVars, todo, existing, outcome, job>>

-----------------------------------------------------------------------------
(* Step 15, for each program: the marker is on disk before the transaction  *)
(* is built                                                                 *)
DeployMarker ==
  [NoMarker EXCEPT !.action = "deploy", !.endpoint = endpoint]

DeploySetPending(p) ==
  /\ pc = "deploy" /\ p \in Earliest(queue)
  /\ \E t \in TxIds :
       /\ Build(t, p, "deploy", endpoint)
       /\ job' = [NoJob EXCEPT !.tx = t]
  /\ SetPending(p, DeployMarker)
  /\ Goto("deploy-send")
  /\ UNCHANGED <<meta, record, abi, history, endpoint, sessionVars,
                 todo, queue, existing, outcome>>

DeployBroadcast ==
  /\ pc = "deploy-send"
  /\ Submit(job.tx)
  /\ Goto(IF opts.confirm THEN "deploy-confirm" ELSE "deploy-record")
  /\ UNCHANGED <<diskVars, endpoint, sessionVars, todo, queue, existing, outcome, job>>

DeployAccepted_AnyVerdict ==
  /\ pc = "deploy-confirm" /\ tx[job.tx].status # "pending"
  /\ Goto("deploy-record")
  /\ UNCHANGED <<ledgerVars, diskVars, endpoint, sessionVars, todo, queue, existing, outcome, job>>

(* waitForConfirmation: accepted goes on; rejected throws and leaves the    *)
(* marker; a timeout is an Abort                                            *)
DeployAccepted ==
  /\ pc = "deploy-confirm" /\ tx[job.tx].status = "accepted"
  /\ Goto("deploy-record")
  /\ UNCHANGED <<ledgerVars, diskVars, endpoint, sessionVars, todo, queue, existing, outcome, job>>

DeployRejected ==
  /\ pc = "deploy-confirm" /\ tx[job.tx].status = "rejected"
  /\ EndRun
  /\ UNCHANGED <<ledgerVars, diskVars, endpoint, sessionVars>>

DeployedRecord ==
  [status |-> "complete", edition |-> 0, historyCount |-> 1, txId |-> job.tx, endpoint |-> endpoint]

DeployRecord(p) ==
  /\ pc = "deploy-record" /\ p \in Earliest(queue)
  /\ Record(p, DeployedRecord, "deploy", job.tx)
  /\ Goto("deploy") /\ queue' = queue \ {p} /\ job' = NoJob
  /\ UNCHANGED <<ledgerVars, endpoint, todo, existing, outcome>>

DeployRecordCut(p) ==
  /\ pc = "deploy-record" /\ p \in Earliest(queue)
  /\ RecordCut(p, DeployedRecord, "deploy", job.tx)
  /\ EndRun
  /\ UNCHANGED <<ledgerVars, endpoint>>

(* Step 16: export when asked to, else return *)
DeployReturns ==
  /\ pc = "deploy" /\ queue = {}
  /\ IF opts.export THEN BeginExport /\ UNCHANGED opts ELSE EndRun
  /\ UNCHANGED <<ledgerVars, diskVars, endpoint, sessionVars>>

-----------------------------------------------------------------------------
Target == CHOOSE p \in opts.targets : TRUE

(* Step 3 of upgradeAction *)
UpgradeResolve ==
  /\ pc = "resolve"
  /\ \E r \in OnChainReads(endpoint, Target) :
       /\ GetDeploymentReturns(Target, r)
       /\ CacheDeployment(Target, r)
       /\ job' = [NoJob EXCEPT !.base = GetDeployment(Target, r)]
       /\ Goto(IF GetDeployment(Target, r) = NoRecord THEN "fallback" ELSE "upgrade")
  /\ UNCHANGED <<ledgerVars, diskVars, endpoint, abiCache, metadataValidated,
                 todo, queue, existing, outcome>>

(* No record: go on with a degraded one that is not stored.  A program that *)
(* is not on chain or has no readable edition ends the run.                 *)
UpgradeFallback ==
  /\ pc = "fallback"
  /\ \E r \in OnChainReads(endpoint, Target) :
       /\ r.exists /\ r.edition # Unknown
       /\ job' = [NoJob EXCEPT !.base = DegradedRecord(endpoint, r.edition),
                               !.previous = r.edition, !.fallback = TRUE]
  /\ Goto("upgrade")
  /\ UNCHANGED <<ledgerVars, diskVars, endpoint, sessionVars, todo, queue, existing, outcome>>

(* Step 7: the edition before the upgrade.  n is what getProgramEdition     *)
(* returns; without confirmation the record's edition stands in for it.     *)
PreviousEdition(n) ==
  IF job.fallback THEN job.previous
  ELSE IF n # Unknown \/ opts.confirm THEN n ELSE job.base.edition

UpgradeMarker(previous) ==
  [NoMarker EXCEPT !.action = "upgrade", !.previousEdition = previous, !.endpoint = endpoint]

UpgradeSetPending ==
  /\ pc = "upgrade"
  /\ \E n \in {visible[endpoint][Target], Unknown}, t \in TxIds :
       /\ PreviousEdition(n) >= 0
       /\ Build(t, Target, "upgrade", endpoint)
       /\ job' = [job EXCEPT !.tx = t, !.previous = PreviousEdition(n),
                             !.edition = PreviousEdition(n) + 1]
       /\ SetPending(Target, UpgradeMarker(PreviousEdition(n)))
  /\ Goto("upgrade-send")
  /\ UNCHANGED <<meta, record, abi, history, endpoint, sessionVars,
                 todo, queue, existing, outcome>>

UpgradeBroadcast ==
  /\ pc = "upgrade-send"
  /\ Submit(job.tx)
  /\ Goto("upgrade-sent")
  /\ UNCHANGED <<diskVars, endpoint, sessionVars, todo, queue, existing, outcome, job>>

(* The transaction id goes into the marker *)
UpgradeSetTxId ==
  /\ pc = "upgrade-sent"
  /\ SetPending(Target, [UpgradeMarker(job.previous) EXCEPT !.txId = job.tx])
  /\ Goto(IF opts.confirm THEN "upgrade-confirm" ELSE "upgrade-record")
  /\ UNCHANGED <<ledgerVars, meta, record, abi, history, endpoint, sessionVars,
                 todo, queue, existing, outcome, job>>

UpgradeAccepted ==
  /\ pc = "upgrade-confirm" /\ tx[job.tx].status = "accepted"
  /\ SetPending(Target, [UpgradeMarker(job.previous) EXCEPT !.txId = job.tx, !.confirmed = TRUE])
  /\ Goto("upgrade-advance")
  /\ UNCHANGED <<ledgerVars, meta, record, abi, history, endpoint, sessionVars,
                 todo, queue, existing, outcome, job>>

UpgradeRejected ==
  /\ pc = "upgrade-confirm" /\ tx[job.tx].status = "rejected"
  /\ ClearPending(Target)
  /\ EndRun
  /\ UNCHANGED <<ledgerVars, meta, record, abi, history, endpoint, sessionVars>>

(* waitForProgramEditionAdvance; its timeout is an Abort *)
UpgradeAdvances ==
  /\ pc = "upgrade-advance" /\ visible[endpoint][Target] > job.previous
  /\ job' = [job EXCEPT !.edition = visible[endpoint][Target]]
  /\ Goto("upgrade-record")
  /\ UNCHANGED <<ledgerVars, diskVars, endpoint, sessionVars, todo, queue, existing, outcome>>

UpgradedRecord_NextEdition ==
  [status |-> "complete", edition |-> job.edition + 1,
   historyCount |-> job.base.historyCount + 1, txId |-> job.tx, endpoint |-> endpoint]

UpgradedRecord ==
  [status |-> "complete", edition |-> job.edition,
   historyCount |-> job.base.historyCount + 1, txId |-> job.tx, endpoint |-> endpoint]

(* Recorded; auto-export when configured, else return.  getAllDeployments   *)
(* sees the record that was just stored.                                    *)
UpgradeRecord ==
  /\ pc = "upgrade-record"
  /\ Record(Target, UpgradedRecord, "upgrade", job.tx)
  /\ IF opts.export THEN Goto("export-all") /\ job' = NoJob /\ UNCHANGED <<todo, queue, existing, outcome>>
                    ELSE EndRun
  /\ UNCHANGED <<ledgerVars, endpoint>>

UpgradeRecordCut ==
  /\ pc = "upgrade-record"
  /\ RecordCut(Target, UpgradedRecord, "upgrade", job.tx)
  /\ EndRun
  /\ UNCHANGED <<ledgerVars, endpoint>>

-----------------------------------------------------------------------------
(* An awaited call throws: the task fails, the session lives on *)
Abort ==
  /\ pc # "idle"
  /\ EndRun
  /\ UNCHANGED <<ledgerVars, diskVars, endpoint, sessionVars>>

(* The process dies in the middle of a task *)
Crash ==
  /\ pc # "idle"
  /\ EndRun /\ InvalidateSession
  /\ UNCHANGED <<ledgerVars, diskVars, endpoint>>

(* Between two commands: a new process, which may have another config *)
NewProcess ==
  /\ pc = "idle"
  /\ endpoint' \in Endpoints
  /\ InvalidateSession
  /\ UNCHANGED <<ledgerVars, diskVars, runVars>>

DeployStep ==
  \/ \E p \in Programs : LookupExisting(p) \/ PreflightProgram(p) \/ Reconcile(p)
                            \/ DeploySetPending(p) \/ DeployRecord(p)
  \/ EndLookup \/ PreflightStops \/ PreflightPasses \/ EndReconcile
  \/ DeployBroadcast \/ DeployAccepted \/ DeployRejected \/ DeployReturns

UpgradeStep ==
  \/ UpgradeResolve \/ UpgradeFallback \/ UpgradeSetPending \/ UpgradeBroadcast
  \/ UpgradeSetTxId \/ UpgradeAccepted \/ UpgradeRejected \/ UpgradeAdvances
  \/ UpgradeRecord

RecoveryStep == EndRecovery \/ \E p \in Programs : RecoverMarker(p)

ExportStep == ExportAfterUpgrade \/ \E p \in Programs : ExportRead(p)

CrashStep ==
  /\ crashes < MaxCrashes /\ crashes' = crashes + 1
  /\ \/ Crash \/ UpgradeRecordCut
     \/ \E p \in Programs : ReconcileCut(p) \/ DeployRecordCut(p) \/ RecoverMarkerCut(p)

ChainStep == LedgerNext /\ UNCHANGED <<diskVars, endpoint, sessionVars, runVars>>

TaskStep ==
  StartDeploy \/ StartUpgrade \/ StartExport \/ RecoveryStep \/ DeployStep \/ UpgradeStep
    \/ ExportStep \/ Abort

Next ==
  \/ CrashStep /\ UNCHANGED bundle
  \/ (TaskStep \/ NewProcess \/ ChainStep) /\ UNCHANGED <<bundle, crashes>>
  \/ ExportWrite /\ UNCHANGED crashes

Spec == Init /\ [][Next]_vars

(* The steps that carry a task on *)
Progress ==
  \/ (RecoveryStep \/ DeployStep \/ UpgradeStep \/ ExportStep) /\ UNCHANGED <<bundle, crashes>>
  \/ ExportWrite /\ UNCHANGED crashes

Throw == Abort /\ UNCHANGED <<bundle, crashes>>

(* A task that can go on does, one that cannot throws (a timeout, a missing *)
(* program); the developer does not give up on deploy; the chain decides on *)
(* what it was sent and reads catch up with it; and calls that could        *)
(* succeed do not fail for ever.  (A task that returns is Progress, and may *)
(* look like one that throws.)                                              *)
LiveSpec ==
  /\ Spec
  /\ WF_vars(Progress \/ Throw)
  /\ SF_vars(StartDeploy /\ UNCHANGED <<bundle, crashes>>)
  /\ WF_vars(ChainStep /\ UNCHANGED <<bundle, crashes>>)
  /\ <>[][Throw /\ ENABLED Progress => Progress]_vars

=============================================================================
