-------------------------- MODULE DeploymentManager -------------------------
(***************************************************************************)
(* DeploymentManagerImpl for one configured network: the session caches of *)
(* a process and the methods that read and write the deployment state.     *)
(* The operators are parts of actions: the tasks that call them say what   *)
(* else changes.  A parameter r is the answer of one on-chain check.       *)
(***************************************************************************)
EXTENDS DeploymentState

CONSTANTS
  NetType,      \* "http" or "devnode": networks[network].type
  Ephemeral     \* isEphemeral(network)

ASSUME ManagerAssumption ==
  /\ NetType \in {"http", "devnode"}
  /\ Ephemeral \in BOOLEAN

VARIABLES
  endpoint,             \* the endpoint of the network in the loaded config
  cache,                \* cache[p]: the session's record of p
  abiCache,             \* abiCache[p]: the session's ABI of p
  metadataValidated     \* .network.json was validated in this session

sessionVars == <<cache, abiCache, metadataValidated>>

ManagerTypeOK ==
  /\ endpoint \in Endpoints
  /\ cache \in [Programs -> Records]
  /\ abiCache \in [Programs -> MaybeTx]
  /\ metadataValidated \in BOOLEAN

(* A new process, or invalidateSession(network) *)
FreshSession ==
  /\ cache = [p \in Programs |-> NoRecord]
  /\ abiCache = [p \in Programs |-> NoTx]
  /\ metadataValidated = FALSE

InvalidateSession ==
  /\ cache' = [p \in Programs |-> NoRecord]
  /\ abiCache' = [p \in Programs |-> NoTx]
  /\ metadataValidated' = FALSE

ManagerInit == endpoint \in Endpoints /\ FreshSession

-----------------------------------------------------------------------------
(* validateHttpMetadata: TRUE when it returns, FALSE when it throws *)
MetadataTrusted ==
  \/ NetType # "http"
  \/ metadataValidated
  \/ meta = endpoint
  \/ meta = NoEndpoint /\ RecordedPrograms = {}

(* The memory of a validation that returned *)
ValidateHttpMetadata ==
  /\ MetadataTrusted
  /\ metadataValidated' = (metadataValidated \/ NetType = "http")

(* cache, then disk: an ephemeral network never reads the disk *)
KnownRecord(p) ==
  IF cache[p] # NoRecord \/ Ephemeral THEN cache[p] ELSE record[p]

(* getDeployment throws when it would need an edition nobody can read *)
GetDeploymentReturns(p, r) ==
  (NetType = "devnode" /\ r.exists /\ KnownRecord(p) = NoRecord) => r.edition # Unknown

(* getDeployment: the record it returns, NoRecord for null *)
GetDeployment(p, r) ==
  CASE NetType = "http" /\ Ephemeral -> cache[p]
    [] NetType = "devnode" /\ r.exists /\ KnownRecord(p) = NoRecord -> DegradedRecord(endpoint, r.edition)
    [] OTHER -> IF r.exists THEN KnownRecord(p) ELSE NoRecord

(* ... which is also what the cache holds afterwards *)
CacheDeployment(p, r) == cache' = [cache EXCEPT ![p] = GetDeployment(p, r)]

-----------------------------------------------------------------------------
(* The faulty variants named X_... show that a property about X can fail *)
RecordWrites_MetadataLast(p, rec, action, snapshot, n) ==
  IF Ephemeral THEN UNCHANGED diskVars ELSE
  /\ meta' = IF NetType = "http" /\ meta = NoEndpoint /\ n >= 4 THEN endpoint ELSE meta
  /\ abi' = IF snapshot # NoTx /\ n >= 1 THEN [abi EXCEPT ![p] = snapshot] ELSE abi
  /\ record' = IF n >= 2 THEN [record EXCEPT ![p] = rec] ELSE record
  /\ history' = IF n >= 3
                THEN [history EXCEPT ![p] = @ \cup {[action |-> action, record |-> rec]}]
                ELSE history
  /\ pending' = IF n >= 5 THEN [pending EXCEPT ![p] = NoMarker] ELSE pending

RecordWrites_MarkerFirst(p, rec, action, snapshot, n) ==
  IF Ephemeral THEN UNCHANGED diskVars ELSE
  /\ meta' = IF NetType = "http" /\ meta = NoEndpoint /\ n >= 2 THEN endpoint ELSE meta
  /\ abi' = IF snapshot # NoTx /\ n >= 3 THEN [abi EXCEPT ![p] = snapshot] ELSE abi
  /\ record' = IF n >= 4 THEN [record EXCEPT ![p] = rec] ELSE record
  /\ history' = IF n >= 5
                THEN [history EXCEPT ![p] = @ \cup {[action |-> action, record |-> rec]}]
                ELSE history
  /\ pending' = IF n >= 1 THEN [pending EXCEPT ![p] = NoMarker] ELSE pending

(* The first n of the five writes of record(), in the order of the code:    *)
(* network metadata, ABI snapshot, record, history, removal of the marker.  *)
(* snapshot = NoTx when no ABI is given.                                    *)
RecordWrites(p, rec, action, snapshot, n) ==
  IF Ephemeral THEN UNCHANGED diskVars ELSE
  /\ meta' = IF NetType = "http" /\ meta = NoEndpoint /\ n >= 1 THEN endpoint ELSE meta
  /\ abi' = IF snapshot # NoTx /\ n >= 2 THEN [abi EXCEPT ![p] = snapshot] ELSE abi
  /\ record' = IF n >= 3 THEN [record EXCEPT ![p] = rec] ELSE record
  /\ history' = IF n >= 4
                THEN [history EXCEPT ![p] = @ \cup {[action |-> action, record |-> rec]}]
                ELSE history
  /\ pending' = IF n >= 5 THEN [pending EXCEPT ![p] = NoMarker] ELSE pending

(* record(): it validates the edition, and the ABI of a complete record *)
Record(p, rec, action, snapshot) ==
  /\ rec.edition >= 0
  /\ rec.status = "complete" => snapshot # NoTx
  /\ RecordWrites(p, rec, action, snapshot, 5)
  /\ cache' = [cache EXCEPT ![p] = rec]
  /\ abiCache' = IF snapshot # NoTx THEN [abiCache EXCEPT ![p] = snapshot] ELSE abiCache
  /\ metadataValidated' =
       (metadataValidated \/ (~Ephemeral /\ NetType = "http" /\ meta = NoEndpoint))

(* The process dies inside record(): some of the writes are on disk, the    *)
(* session is gone                                                          *)
RecordCut(p, rec, action, snapshot) ==
  /\ rec.edition >= 0
  /\ rec.status = "complete" => snapshot # NoTx
  /\ \E n \in 1..4 : RecordWrites(p, rec, action, snapshot, n)
  /\ InvalidateSession

SetPending(p, marker) ==
  pending' = IF Ephemeral THEN pending ELSE [pending EXCEPT ![p] = marker]

ClearPending(p) == SetPending(p, NoMarker)

-----------------------------------------------------------------------------
(* recoverPendingDeployments, one marker: what becomes of it *)
RecoveryThrows(p, r) == r.exists /\ pending[p].action = "upgrade" /\ r.edition = Unknown

RecoveryDiscards(p, r) ==
  \/ ~r.exists
  \/ /\ pending[p].action = "upgrade"
     /\ \/ pending[p].previousEdition = Absent
        \/ r.edition <= pending[p].previousEdition /\ ~pending[p].confirmed

RecoveryKeeps_Propagated(p, r) ==
  r.exists /\ pending[p].action = "upgrade" /\ pending[p].confirmed

RecoveryKeeps(p, r) ==
  /\ r.exists
  /\ pending[p].action = "upgrade"
  /\ pending[p].previousEdition # Absent
  /\ r.edition <= pending[p].previousEdition
  /\ pending[p].confirmed

(* Only a deploy marker does without a readable edition *)
RecoveredEdition(r) == IF r.edition = Unknown THEN 0 ELSE r.edition

RecoveredRecord(p, r) ==
  [status |-> "recovered", edition |-> RecoveredEdition(r),
   historyCount |-> IF KnownRecord(p) = NoRecord THEN 0 ELSE KnownRecord(p).historyCount + 1,
   txId |-> pending[p].txId, endpoint |-> endpoint]

RecoverPending(p, r) ==
  /\ ~RecoveryThrows(p, r)
  /\ \/ /\ RecoveryDiscards(p, r)
        /\ ClearPending(p)
        /\ UNCHANGED <<meta, record, abi, history, sessionVars>>
     \/ /\ RecoveryKeeps(p, r)
        /\ UNCHANGED <<diskVars, sessionVars>>
     \/ /\ ~RecoveryDiscards(p, r) /\ ~RecoveryKeeps(p, r)
        /\ Record(p, RecoveredRecord(p, r), pending[p].action, NoTx)

RecoveryCut(p, r) ==
  /\ ~RecoveryThrows(p, r) /\ ~RecoveryDiscards(p, r) /\ ~RecoveryKeeps(p, r)
  /\ RecordCut(p, RecoveredRecord(p, r), pending[p].action, NoTx)

=============================================================================
