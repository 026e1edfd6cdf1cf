-------------------------- MODULE DeploymentState ---------------------------
(***************************************************************************)
(* deployments/<network>/ on disk: one file per item, each written by a    *)
(* temp-file-plus-rename, so a crash falls between writes and never inside *)
(* one.  An ABI is identified with the transaction whose build compiled    *)
(* it.  History files differ by their timestamps too, which are left out:  *)
(* history[p] is the set of entries up to timestamps.                      *)
(***************************************************************************)
EXTENDS Ledger

CONSTANT NoEndpoint     \* the endpoint in a file that does not exist

ASSUME StateAssumption == NoEndpoint \notin Endpoints

VARIABLES
  meta,         \* .network.json: the endpoint it names, or NoEndpoint
  record,       \* record[p]: <programId>.json
  abi,          \* abi[p]: <programId>.abi.json
  history,      \* history[p]: .history/<programId>/
  pending       \* pending[p]: .pending/<programId>.json

diskVars == <<meta, record, abi, history, pending>>

Actions == {"deploy", "upgrade"}
MaybeEndpoint == Endpoints \cup {NoEndpoint}
MaybeTx == {NoTx} \cup TxIds

Records ==
  [status: {"absent", "complete", "degraded", "recovered"}, edition: Editions,
   historyCount: Nat, txId: MaybeTx, endpoint: MaybeEndpoint]

NoRecord == [status |-> "absent", edition |-> Absent, historyCount |-> 0,
             txId |-> NoTx, endpoint |-> NoEndpoint]

HistoryEntries == [action: Actions, record: Records]

(* confirmed: the marker has a blockHeight *)
Markers ==
  [action: {"absent"} \cup Actions, txId: MaybeTx, confirmed: BOOLEAN,
   previousEdition: Editions, endpoint: MaybeEndpoint]

NoMarker == [action |-> "absent", txId |-> NoTx, confirmed |-> FALSE,
             previousEdition |-> Absent, endpoint |-> NoEndpoint]

DiskTypeOK ==
  /\ meta \in MaybeEndpoint
  /\ record \in [Programs -> Records]
  /\ abi \in [Programs -> MaybeTx]
  /\ history \in [Programs -> SUBSET HistoryEntries]
  /\ pending \in [Programs -> Markers]

(* The directory does not exist yet *)
DiskInit ==
  /\ meta = NoEndpoint
  /\ record = [p \in Programs |-> NoRecord]
  /\ abi = [p \in Programs |-> NoTx]
  /\ history = [p \in Programs |-> {}]
  /\ pending = [p \in Programs |-> NoMarker]

(* readAllDeploymentRecords and listPendingMarkers, as sets of program ids *)
RecordedPrograms == {p \in Programs : record[p] # NoRecord}
PendingPrograms == {p \in Programs : pending[p] # NoMarker}

(* createDegradedRecord: the program is on the chain and that is all we know *)
DegradedRecord(e, n) ==
  [status |-> "degraded", edition |-> n, historyCount |-> 0, txId |-> NoTx, endpoint |-> e]

=============================================================================
