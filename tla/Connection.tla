----------------------------- MODULE Connection -----------------------------
(***************************************************************************)
(* The life of AleoConnection objects: SDK objects, which hold the private *)
(* keys, are made on first use, one set for the connection's own account   *)
(* and one for each other signer.  close() may come at any await of their  *)
(* making and has to see that no key survives it.                          *)
(***************************************************************************)
EXTENDS Naturals

CONSTANTS
  MaxConnections,   \* bound: connections that are created
  Signers           \* private keys of callers, other than the connection's own

ASSUME ConnectionAssumption == MaxConnections \in Nat

Ids == 1..MaxConnections
None == 0

VARIABLES
  closed,               \* the connections with _closed
  sdk,                  \* sdk[c]: sdkObjectsPromise and sdkObjects
  waiters,              \* waiters[c]: signers whose getEffectivePm awaits getSdkObjects
  signerSdkResolved,    \* the signers with SDK objects in the map
  signerSdkInflight,    \* the signers with a promise in the map
  making,               \* making[c][k]: calls of createSignerSdkObjects under way
  held                  \* held[c][k]: accounts of signer k that were not destroyed

connectionVars == <<closed, sdk, waiters, signerSdkResolved, signerSdkInflight, making, held>>

ConnectionTypeOK ==
  /\ closed \in SUBSET Ids
  /\ sdk \in [Ids -> {"none", "creating", "ready", "failed", "destroyed"}]
  /\ waiters \in [Ids -> SUBSET Signers]
  /\ signerSdkResolved \in [Ids -> SUBSET Signers]
  /\ signerSdkInflight \in [Ids -> SUBSET Signers]
  /\ making \in [Ids -> [Signers -> Nat]]
  /\ held \in [Ids -> [Signers -> Nat]]

ConnectionInit ==
  /\ closed = {}
  /\ sdk = [c \in Ids |-> "none"]
  /\ waiters = [c \in Ids |-> {}]
  /\ signerSdkResolved = [c \in Ids |-> {}]
  /\ signerSdkInflight = [c \in Ids |-> {}]
  /\ making = [c \in Ids |-> [k \in Signers |-> 0]]
  /\ held = [c \in Ids |-> [k \in Signers |-> 0]]

-----------------------------------------------------------------------------
(* getSdkObjects: the first call starts the making; a promise that was      *)
(* rejected stays                                                           *)
GetSdkObjects(c) ==
  /\ c \notin closed
  /\ sdk' = [sdk EXCEPT ![c] = IF @ = "none" THEN "creating" ELSE @]

(* A call without a signer, or with one, up to its await *)
UseDefault(c) ==
  /\ GetSdkObjects(c)
  /\ UNCHANGED <<closed, waiters, signerSdkResolved, signerSdkInflight, making, held>>

GetEffectivePm(c, k) ==
  /\ GetSdkObjects(c)
  /\ waiters' = [waiters EXCEPT ![c] = @ \cup {k}]
  /\ UNCHANGED <<closed, signerSdkResolved, signerSdkInflight, making, held>>

(* createSdkObjects returns: when the connection was closed meanwhile, the  *)
(* account is destroyed at once and the promise rejected                    *)
SdkCreated(c) ==
  /\ sdk[c] = "creating"
  /\ sdk' = [sdk EXCEPT ![c] = IF c \in closed THEN "failed" ELSE "ready"]
  /\ UNCHANGED <<closed, waiters, signerSdkResolved, signerSdkInflight, making, held>>

SdkFails(c) ==
  /\ sdk[c] = "creating"
  /\ sdk' = [sdk EXCEPT ![c] = "failed"]
  /\ UNCHANGED <<closed, waiters, signerSdkResolved, signerSdkInflight, making, held>>

-----------------------------------------------------------------------------
(* getEffectivePm goes on with the default SDK objects, which may have been *)
(* closed since: resolved, in flight, or made anew.  It throws when there   *)
(* are none.                                                                *)
ResumeWithSdk(c, k) ==
  /\ k \in waiters[c] /\ sdk[c] \in {"ready", "failed", "destroyed"}
  /\ waiters' = [waiters EXCEPT ![c] = @ \ {k}]
  /\ IF sdk[c] = "failed" \/ k \in signerSdkResolved[c] \cup signerSdkInflight[c]
     THEN UNCHANGED <<signerSdkInflight, making>>
     ELSE /\ signerSdkInflight' = [signerSdkInflight EXCEPT ![c] = @ \cup {k}]
          /\ making' = [making EXCEPT ![c][k] = @ + 1]
  /\ UNCHANGED <<closed, sdk, signerSdkResolved, held>>

(* The faulty variants named X_... show that a property about X can fail *)
SignerCreated_Unguarded(c, k) ==
  /\ making[c][k] > 0
  /\ making' = [making EXCEPT ![c][k] = @ - 1]
  /\ signerSdkInflight' = [signerSdkInflight EXCEPT ![c] = @ \ {k}]
  /\ signerSdkResolved' = [signerSdkResolved EXCEPT ![c] = @ \cup {k}]
  /\ held' = [held EXCEPT ![c][k] = @ + 1]
  /\ UNCHANGED <<closed, sdk, waiters>>

(* createSignerSdkObjects returns; a closed connection keeps nothing of it  *)
SignerCreated(c, k) ==
  /\ making[c][k] > 0
  /\ making' = [making EXCEPT ![c][k] = @ - 1]
  /\ signerSdkInflight' = [signerSdkInflight EXCEPT ![c] = @ \ {k}]
  /\ IF c \in closed
     THEN UNCHANGED <<signerSdkResolved, held>>
     ELSE /\ signerSdkResolved' = [signerSdkResolved EXCEPT ![c] = @ \cup {k}]
          /\ held' = [held EXCEPT ![c][k] = @ + 1]
  /\ UNCHANGED <<closed, sdk, waiters>>

(* ... or throws, and is evicted so that a retry starts again *)
SignerFails(c, k) ==
  /\ making[c][k] > 0
  /\ making' = [making EXCEPT ![c][k] = @ - 1]
  /\ signerSdkInflight' = [signerSdkInflight EXCEPT ![c] = @ \ {k}]
  /\ UNCHANGED <<closed, sdk, waiters, signerSdkResolved, held>>

(* close() of every connection in S, up to its await: what is resolved is   *)
(* destroyed, what is being made destroys itself later                      *)
CloseAll(S) ==
  /\ closed' = closed \cup S
  /\ held' = [c \in Ids |-> [k \in Signers |->
                IF c \in S /\ k \in signerSdkResolved[c] THEN held[c][k] - 1 ELSE held[c][k]]]
  /\ signerSdkResolved' = [c \in Ids |-> IF c \in S THEN {} ELSE signerSdkResolved[c]]
  /\ signerSdkInflight' = [c \in Ids |-> IF c \in S THEN {} ELSE signerSdkInflight[c]]
  /\ sdk' = [c \in Ids |-> IF c \in S /\ sdk[c] = "ready" THEN "destroyed" ELSE sdk[c]]
  /\ UNCHANGED <<waiters, making>>

SdkStep(c) ==
  \/ SdkCreated(c) \/ SdkFails(c)
  \/ \E k \in Signers : ResumeWithSdk(c, k) \/ SignerCreated(c, k) \/ SignerFails(c, k)

(* The connection holds the key of some account *)
HoldsKey(c) == sdk[c] = "ready" \/ \E k \in Signers : held[c][k] > 0

=============================================================================
