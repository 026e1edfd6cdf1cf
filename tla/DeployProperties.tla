-------------------------- MODULE DeployProperties --------------------------
(***************************************************************************)
(* What the deployment state promises, and what the documentation says of  *)
(* it.  The first group holds; the statements of the second group are      *)
(* quoted from docs and comments and do not hold of the code as it is.     *)
(***************************************************************************)
EXTENDS DeployTasks

Confirming == FALSE \notin ConfirmModes
Persistent == ~Ephemeral

(* On an HTTP network every record on disk, and every history entry, is     *)
(* about the endpoint .network.json names, whichever crash, reconfiguration *)
(* or recovery came in between: validateHttpMetadata and the order of the   *)
(* writes in record() never let two chains share one directory.             *)
RecordsMatchMetadata ==
  NetType = "http" /\ Persistent =>
    \A p \in Programs :
      /\ record[p] # NoRecord => record[p].endpoint = meta
      /\ \A h \in history[p] : h.record.endpoint = meta

(* When every run confirms its transactions, a complete record - on disk,   *)
(* in the session or in the history - names a transaction that was accepted *)
(* for this program on the recorded endpoint.                               *)
CompleteMeansAccepted ==
  Confirming =>
    \A p \in Programs :
      \A rec \in {record[p], cache[p]} \cup {h.record : h \in history[p]} :
        rec.status = "complete" =>
          /\ rec.txId \in TxIds
          /\ tx[rec.txId].status = "accepted"
          /\ tx[rec.txId].program = p
          /\ tx[rec.txId].endpoint = rec.endpoint

(* With confirmation no record, cached record or marker is ahead of the     *)
(* chain it was written for: editions are observed, or 0 after a deploy     *)
(* that was accepted.                                                       *)
NeverAheadOfChain ==
  Confirming =>
    \A p \in Programs :
      /\ \A rec \in {record[p], cache[p]} :
           rec # NoRecord => rec.edition <= edition[rec.endpoint][p]
      /\ pending[p].action = "upgrade" =>
           pending[p].previousEdition <= edition[pending[p].endpoint][p]

(* A deployment is sent only when every program it imports is on the chain  *)
(* (a devnode checks the local ones only): the topological order of the     *)
(* targets, the confirmation of each and the import check of the preflight. *)
ImportsBeforeBroadcast ==
  [][ \A t \in TxIds :
        /\ Confirming /\ tx[t].action = "deploy"
        /\ tx[t].status = "building" /\ tx'[t].status = "pending"
        => \A i \in Imports[tx[t].program] :
             i \in Local \/ NetType = "http" => OnChain(tx[t].endpoint, i) ]_vars

(* A confirming deploy that returns has all its targets on the chain of     *)
(* the endpoint it ran against, and knows a record for each of them.        *)
DeployReturnsDeployed ==
  [][ DeployReturns /\ opts.confirm =>
        \A p \in Targets :
          /\ OnChain(endpoint, p)
          /\ FlakyReads \/ KnownRecord(p) # NoRecord ]_vars

(* On an HTTP network, outside an interrupted record() - which leaves its   *)
(* marker - the ABI snapshot next to a complete record is the ABI of that   *)
(* record's transaction, which is what export hands out.  (A disk-backed    *)
(* devnode that moved forgets the marker of an upgrade it does not show.)   *)
SnapshotOfRecord ==
  Confirming /\ ~FlakyReads /\ NetType = "http" =>
    \A p \in Programs :
      record[p].status = "complete" /\ pending[p] = NoMarker => abi[p] = record[p].txId

(* On an HTTP network with confirmation, every transaction a bundle names   *)
(* and every ABI snapshot in it comes from an accepted transaction of that  *)
(* program on the very endpoint the bundle names.  (The directory of a      *)
(* devnode names no endpoint that could be compared.)                       *)
BundleFromItsChain ==
  Confirming /\ NetType = "http" =>
    \A p \in Programs : \A t \in {bundle.programs[p].txId, bundle.programs[p].abi} \cap TxIds :
      /\ tx[t].status = "accepted"
      /\ tx[t].program = p
      /\ tx[t].endpoint = bundle.endpoint

(* No marker stays for ever: a rerun records it, or clears it when the      *)
(* chain does not show its effect.                                          *)
MarkersResolved == []<>(PendingPrograms = {})

-----------------------------------------------------------------------------
(* docs/deployment.md: "--preflight runs validation only and does not       *)
(* compile, broadcast, or write deployment state", "--dry-run ... does not  *)
(* mutate deployment state".                                                *)
CheckModesWriteNothing ==
  [][ pc # "idle" /\ opts.mode # "deploy" => UNCHANGED diskVars ]_vars

(* deploy-task.ts: "create degraded records for skipped+already-deployed    *)
(* programs with no state": a complete record is state, so it is never      *)
(* replaced by a degraded one.                                              *)
CompleteNeverDegrades ==
  [][ \A p \in Programs :
        record[p].status = "complete" => record'[p].status # "degraded" ]_vars

=============================================================================
