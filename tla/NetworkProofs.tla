---------------------------- MODULE NetworkProofs ---------------------------
(***************************************************************************)
(* Proofs about the network manager and its connections, for any number of *)
(* networks, connections and signers.                                      *)
(***************************************************************************)
EXTENDS NetworkManager, TLAPS

(* A connect() that has not settled owns the in-flight entry of its network, *)
(* and there is no registered connection of that network                     *)
PendingOwns ==
  \A c \in Ids :
    /\ phase[c] \in {"resolving", "resolved", "settled"} =>
         network[c] \in Networks /\ inFlightConnects[network[c]] = c
    /\ phase[c] \in {"resolving", "resolved"} => connections[network[c]] = None

(* The map holds the open connections that callers have, and their accounts  *)
(* are cached                                                                *)
GivenListed ==
  /\ \A c \in Ids : Given(c) =>
       network[c] \in Networks /\ (c \notin closed => connections[network[c]] = c)
  /\ \A n \in Networks : connections[n] # None =>
       network[connections[n]] = n /\ Given(connections[n]) /\ n \in resolvedNamedAccountsCache

ActiveOwns ==
  /\ activeConnection # None => Given(activeConnection)
  /\ AccountsOfActive

(* Nobody uses a connection before it is given out, a closed one keeps no    *)
(* key, and an open one holds one account for each signer in its map         *)
KeysOwned(c) ==
  /\ ~Given(c) => sdk[c] = "none" /\ waiters[c] = {} /\ signerSdkResolved[c] = {}
                    /\ \A k \in Signers : making[c][k] = 0
  /\ c \in closed => sdk[c] # "ready" /\ signerSdkResolved[c] = {}
  /\ \A k \in Signers :
       /\ held[c][k] = IF k \in signerSdkResolved[c] THEN 1 ELSE 0
       /\ c \notin closed => making[c][k] = IF k \in signerSdkInflight[c] THEN 1 ELSE 0
       /\ c \notin closed => k \notin signerSdkResolved[c] \cap signerSdkInflight[c]

NetworkInv ==
  /\ NetworkTypeOK
  /\ PendingOwns /\ GivenListed /\ ActiveOwns
  /\ \A c \in Ids : KeysOwned(c)

-----------------------------------------------------------------------------
(* A manager without connections satisfies the invariant *)
LEMMA NetworkInit == Init => NetworkInv
  <1> SUFFICES ASSUME Init PROVE NetworkInv
    OBVIOUS
  <1> USE DEF Init, ConnectionInit
  <1>1. NetworkTypeOK
    BY NetworkAssumption DEF NetworkTypeOK, ConnectionTypeOK, MaybeId
  <1>2. PendingOwns /\ GivenListed /\ ActiveOwns
    BY DEF PendingOwns, GivenListed, ActiveOwns, AccountsOfActive, Usable, Given, None
  <1>3. \A c \in Ids : KeysOwned(c)
    BY DEF KeysOwned, Given
  <1> QED BY <1>1, <1>2, <1>3 DEF NetworkInv

(* Closing connections destroys their keys *)
LEMMA CloseKeys ==
  ASSUME NetworkInv, NEW S \in SUBSET Ids, CloseAll(S), \A c \in Ids : Given(c) => Given(c)'
  PROVE  ConnectionTypeOK' /\ \A c \in Ids : KeysOwned(c)'
  <1> USE DEF NetworkInv, NetworkTypeOK, ConnectionTypeOK, CloseAll
  <1>1. \A c \in Ids, k \in Signers : held'[c][k] \in Nat
    BY DEF KeysOwned
  <1>2. held' \in [Ids -> [Signers -> Nat]]
    BY <1>1
  <1>3. ConnectionTypeOK'
    BY <1>2
  <1>4. ASSUME NEW c \in Ids PROVE KeysOwned(c)'
    BY DEF KeysOwned, Given
  <1> QED BY <1>3, <1>4

(* An action of the manager alone leaves the keys as they are, given that no *)
(* connection is taken back from its callers                                 *)
LEMMA ManagerKeys ==
  ASSUME NetworkInv, UNCHANGED connectionVars, \A c \in Ids : Given(c) => Given(c)'
  PROVE  ConnectionTypeOK' /\ \A c \in Ids : KeysOwned(c)'
  <1> USE DEF NetworkInv, NetworkTypeOK, connectionVars
  <1>1. ConnectionTypeOK'
    BY DEF ConnectionTypeOK
  <1>2. ASSUME NEW c \in Ids PROVE KeysOwned(c)'
    <2>1. KeysOwned(c)
      OBVIOUS
    <2> QED BY <2>1 DEF KeysOwned
  <1> QED BY <1>1, <1>2

(* connect(n), until its first await: only the last of its three outcomes    *)
(* makes a connection, when neither an open nor a pending one of n exists    *)
LEMMA ConnectStep ==
  ASSUME NetworkInv, NEW n \in Networks,
         ConnectExisting(n) \/ ConnectJoins(n) \/ ConnectCreates(n)
  PROVE  NetworkInv'
  <1> USE DEF NetworkInv, NetworkTypeOK, MaybeId, PendingOwns, GivenListed, ActiveOwns, AccountsOfActive, Usable, None
  <1>1. CASE ConnectExisting(n)
    <2> USE <1>1 DEF ConnectExisting
    <2>1. ConnectionTypeOK' /\ \A c \in Ids : KeysOwned(c)'
      BY ManagerKeys DEF Given
    <2>2. NetworkTypeOK'
      BY <2>1
    <2>3. PendingOwns' /\ GivenListed' /\ ActiveOwns'
      BY DEF Given, connectionVars
    <2> QED BY <2>1, <2>2, <2>3
  <1>2. CASE ConnectJoins(n)
    <2> USE <1>2 DEF ConnectJoins
    <2>1. ConnectionTypeOK' /\ \A c \in Ids : KeysOwned(c)'
      BY ManagerKeys DEF Given
    <2>2. NetworkTypeOK'
      BY <2>1
    <2>3. PendingOwns' /\ ActiveOwns'
      BY DEF Given, connectionVars
    <2>4. GivenListed'
      BY DEF Given, connectionVars
    <2> QED BY <2>1, <2>2, <2>3, <2>4
  <1>3. CASE ConnectCreates(n)
    <2>1. PICK c \in Ids :
            /\ IsNext(c)
            /\ network' = [network EXCEPT ![c] = n]
            /\ inFlightConnects' = [inFlightConnects EXCEPT ![n] = c]
            /\ phase' = [phase EXCEPT ![c] = IF n \in accountCache THEN "resolved" ELSE "resolving"]
      BY <1>3 DEF ConnectCreates
    <2> USE <1>3, <2>1 DEF ConnectCreates
    <2>2. ~Given(c) /\ phase[c] = "unborn"
      BY DEF IsNext, Given
    <2>3. \A d \in Ids : Given(d)' <=> Given(d)
      BY <2>2 DEF Given
    <2>4. ConnectionTypeOK' /\ \A d \in Ids : KeysOwned(d)'
      BY <2>3, ManagerKeys
    <2>5. NetworkTypeOK'
      BY <2>4
    <2>6. PendingOwns'
      <3> SUFFICES ASSUME NEW d \in Ids, phase'[d] \in {"resolving", "resolved", "settled"}
                   PROVE  /\ network'[d] \in Networks /\ inFlightConnects'[network'[d]] = d
                          /\ phase'[d] \in {"resolving", "resolved"} => connections'[network'[d]] = None
        OBVIOUS
      <3>1. CASE d = c
        BY <3>1
      <3>2. CASE d # c
        BY <3>2 DEF Ids
      <3> QED BY <3>1, <3>2
    <2>7. GivenListed'
      BY <2>2, <2>3 DEF connectionVars
    <2>8. ActiveOwns'
      BY <2>2, <2>3 DEF connectionVars
    <2> QED BY <2>4, <2>5, <2>6, <2>7, <2>8
  <1> QED BY <1>1, <1>2, <1>3

(* connect() goes on: the accounts are resolved, the state is swapped, the   *)
(* promise leaves the in-flight map                                          *)
LEMMA SettleStep ==
  ASSUME NetworkInv, NEW c \in Ids, ResolveForNetwork(c) \/ SwapState(c) \/ ConnectReturns(c)
  PROVE  NetworkInv'
  <1> USE DEF NetworkInv, NetworkTypeOK, MaybeId, PendingOwns, GivenListed, ActiveOwns, AccountsOfActive, Usable, None
  <1>1. CASE ResolveForNetwork(c)
    <2> USE <1>1 DEF ResolveForNetwork
    <2>1. \A d \in Ids : Given(d)' <=> Given(d)
      BY DEF Given
    <2>2. ConnectionTypeOK' /\ \A d \in Ids : KeysOwned(d)'
      BY <2>1, ManagerKeys
    <2>3. NetworkTypeOK' /\ PendingOwns'
      BY <2>2
    <2>4. GivenListed' /\ ActiveOwns'
      BY <2>1 DEF connectionVars
    <2> QED BY <2>2, <2>3, <2>4
  <1>2. CASE SwapState(c)
    <2> USE <1>2 DEF SwapState
    <2>1. \A d \in Ids : Given(d)' <=> Given(d) \/ d = c
      BY DEF Given
    <2>2. ConnectionTypeOK' /\ \A d \in Ids : KeysOwned(d)'
      BY <2>1, ManagerKeys
    <2>3. network[c] \in Networks /\ connections[network[c]] = None
      OBVIOUS
    <2>4. NetworkTypeOK' /\ PendingOwns'
      BY <2>2, <2>3
    <2>5. GivenListed' /\ ActiveOwns'
      BY <2>1, <2>3 DEF connectionVars, Ids
    <2> QED BY <2>2, <2>4, <2>5
  <1>3. CASE ConnectReturns(c)
    <2> USE <1>3 DEF ConnectReturns
    <2>1. \A d \in Ids : Given(d)' <=> Given(d)
      BY DEF Given
    <2>2. ConnectionTypeOK' /\ \A d \in Ids : KeysOwned(d)'
      BY <2>1, ManagerKeys
    <2>3. NetworkTypeOK' /\ PendingOwns'
      BY <2>2
    <2>4. GivenListed' /\ ActiveOwns'
      BY <2>1 DEF connectionVars
    <2> QED BY <2>2, <2>3, <2>4
  <1> QED BY <1>1, <1>2, <1>3

(* The closing actions: a failed connect closes its own connection, a holder *)
(* the one it has, disconnectAll those of the map, which are all open ones   *)
(* that callers have; and a closed active connection is forgotten            *)
LEMMA ClosingStep ==
  ASSUME NetworkInv,
         \/ \E c \in Ids : ResolveFails(c) \/ HolderCloses(c)
         \/ DisconnectAll \/ ForgetClosed
  PROVE  NetworkInv'
  <1> USE DEF NetworkInv, NetworkTypeOK, MaybeId, PendingOwns, GivenListed, ActiveOwns, AccountsOfActive, Usable, None
  <1>1. ASSUME NEW c \in Ids, ResolveFails(c) PROVE NetworkInv'
    <2> USE <1>1 DEF ResolveFails
    <2>1. \A d \in Ids : Given(d)' <=> Given(d) \/ d = c
      BY DEF Given
    <2>2. ConnectionTypeOK' /\ \A d \in Ids : KeysOwned(d)'
      BY <2>1, CloseKeys
    <2>3. closed' = closed \cup {c} /\ ~Given(c)
      BY DEF CloseAll, Given
    <2>4. NetworkTypeOK' /\ PendingOwns'
      BY <2>2
    <2>5. GivenListed' /\ ActiveOwns'
      BY <2>1, <2>3
    <2> QED BY <2>2, <2>4, <2>5
  <1>2. ASSUME NEW c \in Ids, HolderCloses(c) PROVE NetworkInv'
    <2> USE <1>2 DEF HolderCloses, managerVars
    <2>1. \A d \in Ids : Given(d)' <=> Given(d)
      BY DEF Given
    <2>2. ConnectionTypeOK' /\ \A d \in Ids : KeysOwned(d)'
      BY <2>1, CloseKeys
    <2>3. closed' = closed \cup {c}
      BY DEF CloseAll
    <2>4. NetworkTypeOK' /\ PendingOwns'
      BY <2>2
    <2>5. GivenListed' /\ ActiveOwns'
      BY <2>1, <2>3
    <2> QED BY <2>2, <2>4, <2>5
  <1>3. ASSUME DisconnectAll PROVE NetworkInv'
    <2> USE <1>3 DEF DisconnectAll
    <2> DEFINE S == {connections[n] : n \in Networks} \ {None}
    <2>1. \A d \in Ids : Given(d)' <=> Given(d)
      BY DEF Given
    <2>2. S \in SUBSET Ids /\ CloseAll(S)
      OBVIOUS
    <2>3. ConnectionTypeOK' /\ \A d \in Ids : KeysOwned(d)'
      BY <2>1, <2>2, CloseKeys
    <2>4. closed' = closed \cup S
      BY <2>2 DEF CloseAll
    <2>5. NetworkTypeOK' /\ PendingOwns'
      BY <2>3
    <2>6. ASSUME NEW d \in Ids, Given(d) PROVE d \in closed' /\ network[d] \in Networks
      BY <2>4, <2>6 DEF Ids
    <2>7. GivenListed' /\ ActiveOwns'
      BY <2>1, <2>6
    <2> QED BY <2>3, <2>5, <2>7
  <1>4. ASSUME ForgetClosed PROVE NetworkInv'
    <2> USE <1>4 DEF ForgetClosed
    <2>1. \A d \in Ids : Given(d)' <=> Given(d)
      BY DEF Given
    <2>2. ConnectionTypeOK' /\ \A d \in Ids : KeysOwned(d)'
      BY <2>1, ManagerKeys
    <2>3. NetworkTypeOK' /\ PendingOwns'
      BY <2>2
    <2>4. GivenListed' /\ ActiveOwns'
      BY <2>1 DEF connectionVars
    <2> QED BY <2>2, <2>3, <2>4
  <1> QED BY <1>1, <1>2, <1>3, <1>4

(* Setting one count of a table of counts                                    *)
LEMMA CountType ==
  ASSUME NEW f \in [Ids -> [Signers -> Nat]], NEW c \in Ids, NEW k \in Signers, NEW v \in Nat
  PROVE  [f EXCEPT ![c][k] = v] \in [Ids -> [Signers -> Nat]]
  OBVIOUS

(* Using a connection and making its SDK objects: the manager is untouched   *)
(* and nothing is closed, so only the keys are in question                   *)
LEMMA UseStep ==
  ASSUME NetworkInv, UNCHANGED managerVars, NEW c \in Ids,
         HolderUses(c) \/ SdkStep(c)
  PROVE  NetworkInv'
  <1> USE DEF NetworkInv, NetworkTypeOK
  <1>1. UNCHANGED closed
    BY DEF HolderUses, UseDefault, GetEffectivePm, SdkStep, SdkCreated, SdkFails, ResumeWithSdk,
           SignerCreated, SignerFails
  <1>2. \A d \in Ids : Given(d)' <=> Given(d)
    BY DEF Given, managerVars
  <1>3. ConnectionTypeOK
    OBVIOUS
  <1>4. ASSUME NEW d \in Ids, d # c PROVE KeysOwned(d)'
    <2>1. /\ sdk'[d] = sdk[d] /\ waiters'[d] = waiters[d]
          /\ signerSdkResolved'[d] = signerSdkResolved[d]
          /\ signerSdkInflight'[d] = signerSdkInflight[d]
          /\ making'[d] = making[d] /\ held'[d] = held[d]
      BY <1>3, <1>4 DEF ConnectionTypeOK, HolderUses, UseDefault, GetEffectivePm, GetSdkObjects,
           SdkStep, SdkCreated, SdkFails, ResumeWithSdk, SignerCreated, SignerFails
    <2>2. KeysOwned(d)
      OBVIOUS
    <2> QED BY <1>1, <1>2, <2>1, <2>2 DEF KeysOwned
  <1>5. ConnectionTypeOK' /\ KeysOwned(c)'
    <2> HIDE DEF NetworkInv
    <2>1. KeysOwned(c)
      BY DEF NetworkInv
    <2>2. CASE HolderUses(c)
      <3>1. ConnectionTypeOK'
        <4>1. sdk' \in [Ids -> {"none", "creating", "ready", "failed", "destroyed"}]
          BY <1>3, <2>2 DEF HolderUses, UseDefault, GetEffectivePm, GetSdkObjects, ConnectionTypeOK
        <4>2. waiters' \in [Ids -> SUBSET Signers]
          BY <1>3, <2>2 DEF HolderUses, UseDefault, GetEffectivePm, ConnectionTypeOK
        <4> QED BY <1>3, <2>2, <4>1, <4>2 DEF HolderUses, UseDefault, GetEffectivePm, ConnectionTypeOK
      <3> QED BY <1>1, <1>2, <1>3, <2>1, <2>2, <3>1
              DEF HolderUses, UseDefault, GetEffectivePm, GetSdkObjects, ConnectionTypeOK, KeysOwned
    <2>3. CASE SdkCreated(c) \/ SdkFails(c)
      <3>1. ConnectionTypeOK'
        BY <1>3, <2>3 DEF SdkCreated, SdkFails, ConnectionTypeOK
      <3> QED BY <1>1, <1>2, <1>3, <2>1, <2>3, <3>1
              DEF SdkCreated, SdkFails, ConnectionTypeOK, KeysOwned
    <2>4. ASSUME NEW k \in Signers, ResumeWithSdk(c, k)
          PROVE  ConnectionTypeOK' /\ KeysOwned(c)'
      <3>1. making[c][k] + 1 \in Nat
        BY <1>3 DEF ConnectionTypeOK
      <3>2. ConnectionTypeOK'
        <4>1. making' \in [Ids -> [Signers -> Nat]]
          <5>1. making' = making \/ making' = [making EXCEPT ![c][k] = making[c][k] + 1]
            BY <2>4 DEF ResumeWithSdk
          <5>2. CASE making' = making
            BY <1>3, <5>2 DEF ConnectionTypeOK
          <5>3. CASE making' = [making EXCEPT ![c][k] = making[c][k] + 1]
            BY <1>3, <3>1, <5>3, CountType DEF ConnectionTypeOK
          <5> QED BY <5>1, <5>2, <5>3
        <4>2. waiters' \in [Ids -> SUBSET Signers] /\ signerSdkInflight' \in [Ids -> SUBSET Signers]
          <5>1. /\ waiters' = [waiters EXCEPT ![c] = waiters[c] \ {k}]
                /\ \/ signerSdkInflight' = signerSdkInflight
                   \/ signerSdkInflight' = [signerSdkInflight EXCEPT ![c] = signerSdkInflight[c] \cup {k}]
            BY <2>4 DEF ResumeWithSdk
          <5> QED BY <1>3, <5>1 DEF ConnectionTypeOK
        <4> QED BY <1>3, <2>4, <4>1, <4>2 DEF ResumeWithSdk, ConnectionTypeOK
      <3>3. Given(c)
        BY <2>1, <2>4 DEF ResumeWithSdk, KeysOwned
      <3>4. /\ signerSdkResolved' = signerSdkResolved /\ held' = held
            /\ c \in closed => sdk'[c] # "ready" /\ signerSdkResolved'[c] = {}
        BY <2>1, <2>4 DEF ResumeWithSdk, KeysOwned
      <3>5. ASSUME NEW j \in Signers, c \notin closed
            PROVE  /\ making'[c][j] = IF j \in signerSdkInflight'[c] THEN 1 ELSE 0
                   /\ j \notin signerSdkResolved'[c] \cap signerSdkInflight'[c]
        <4>1. CASE j # k
          BY <1>3, <2>1, <2>4, <3>5, <4>1 DEF ResumeWithSdk, ConnectionTypeOK, KeysOwned
        <4>2. CASE j = k
          BY <1>3, <2>1, <2>4, <3>5, <4>2 DEF ResumeWithSdk, ConnectionTypeOK, KeysOwned
        <4> QED BY <4>1, <4>2
      <3> QED BY <1>1, <1>2, <2>1, <3>2, <3>3, <3>4, <3>5 DEF KeysOwned
    <2>5. ASSUME NEW k \in Signers, SignerCreated(c, k) \/ SignerFails(c, k)
          PROVE  ConnectionTypeOK' /\ KeysOwned(c)'
      <3>1. making[c][k] > 0 /\ making[c][k] - 1 \in Nat /\ held[c][k] + 1 \in Nat
        BY <1>3, <2>5 DEF ConnectionTypeOK, SignerCreated, SignerFails
      <3>2. ConnectionTypeOK'
        <4>1. making' \in [Ids -> [Signers -> Nat]] /\ held' \in [Ids -> [Signers -> Nat]]
          <5>1. /\ making' = [making EXCEPT ![c][k] = making[c][k] - 1]
                /\ held' = held \/ held' = [held EXCEPT ![c][k] = held[c][k] + 1]
            BY <2>5 DEF SignerCreated, SignerFails
          <5> QED BY <1>3, <3>1, <5>1, CountType DEF ConnectionTypeOK
        <4>2. /\ signerSdkResolved' \in [Ids -> SUBSET Signers]
              /\ signerSdkInflight' \in [Ids -> SUBSET Signers]
          <5>1. /\ signerSdkInflight' = [signerSdkInflight EXCEPT ![c] = signerSdkInflight[c] \ {k}]
                /\ \/ signerSdkResolved' = signerSdkResolved
                   \/ signerSdkResolved' = [signerSdkResolved EXCEPT ![c] = signerSdkResolved[c] \cup {k}]
            BY <2>5 DEF SignerCreated, SignerFails
          <5> QED BY <1>3, <5>1 DEF ConnectionTypeOK
        <4> QED BY <1>3, <2>5, <4>1, <4>2 DEF SignerCreated, SignerFails, ConnectionTypeOK
      <3>3. Given(c)
        BY <2>1, <3>1 DEF KeysOwned
      <3>4. c \in closed => sdk'[c] # "ready" /\ signerSdkResolved'[c] = {}
        BY <2>1, <2>5 DEF SignerCreated, SignerFails, KeysOwned
      <3>5. ASSUME NEW j \in Signers
            PROVE  /\ held'[c][j] = IF j \in signerSdkResolved'[c] THEN 1 ELSE 0
                   /\ c \notin closed => making'[c][j] = IF j \in signerSdkInflight'[c] THEN 1 ELSE 0
                   /\ c \notin closed => j \notin signerSdkResolved'[c] \cap signerSdkInflight'[c]
        <4>1. CASE j # k
          BY <1>3, <2>1, <2>5, <4>1 DEF SignerCreated, SignerFails, ConnectionTypeOK, KeysOwned
        <4>2. CASE j = k
          BY <1>3, <2>1, <2>5, <3>1, <4>2 DEF SignerCreated, SignerFails, ConnectionTypeOK, KeysOwned
        <4> QED BY <4>1, <4>2
      <3> QED BY <1>1, <1>2, <3>2, <3>3, <3>4, <3>5 DEF KeysOwned
    <2> QED BY <2>2, <2>3, <2>4, <2>5 DEF SdkStep
  <1>6. PendingOwns' /\ GivenListed' /\ ActiveOwns'
    BY <1>1 DEF PendingOwns, GivenListed, ActiveOwns, AccountsOfActive, Usable, Given, managerVars
  <1>7. NetworkTypeOK'
    BY <1>5 DEF managerVars, MaybeId
  <1> QED BY <1>4, <1>5, <1>6, <1>7

(* Stuttering and every action of the specification *)
LEMMA NetworkStep == NetworkInv /\ [Next]_vars => NetworkInv'
  <1> SUFFICES ASSUME NetworkInv, [Next]_vars PROVE NetworkInv'
    OBVIOUS
  <1>1. CASE UNCHANGED vars
    <2> USE <1>1 DEF vars, managerVars
    <2>1. \A c \in Ids : Given(c)' <=> Given(c)
      BY DEF Given
    <2>2. ConnectionTypeOK' /\ \A c \in Ids : KeysOwned(c)'
      BY <2>1, ManagerKeys
    <2>3. NetworkTypeOK'
      BY <2>2 DEF NetworkInv, NetworkTypeOK, MaybeId
    <2>4. PendingOwns' /\ GivenListed' /\ ActiveOwns'
      BY DEF NetworkInv, PendingOwns, GivenListed, ActiveOwns, AccountsOfActive, Usable, Given, connectionVars
    <2> QED BY <2>2, <2>3, <2>4 DEF NetworkInv
  <1>2. ASSUME NEW n \in Networks, ConnectExisting(n) \/ ConnectJoins(n) \/ ConnectCreates(n)
        PROVE  NetworkInv'
    BY <1>2, ConnectStep
  <1>3. ASSUME NEW c \in Ids, ResolveForNetwork(c) \/ SwapState(c) \/ ConnectReturns(c)
        PROVE  NetworkInv'
    BY <1>3, SettleStep
  <1>4. ASSUME \/ \E c \in Ids : ResolveFails(c) \/ HolderCloses(c)
               \/ DisconnectAll \/ ForgetClosed
        PROVE  NetworkInv'
    BY <1>4, ClosingStep
  <1>5. ASSUME NEW c \in Ids,
               \/ ResolveForNetwork(c) \/ ResolveFails(c) \/ SwapState(c) \/ ConnectReturns(c)
               \/ HolderCloses(c) \/ HolderUses(c)
               \/ SdkStep(c) /\ UNCHANGED managerVars
        PROVE  NetworkInv'
    <2>1. CASE ResolveForNetwork(c)
      BY <2>1, <1>3
    <2>2. CASE SwapState(c)
      BY <2>2, <1>3
    <2>3. CASE ConnectReturns(c)
      BY <2>3, <1>3
    <2>4. CASE ResolveFails(c)
      BY <2>4, <1>4
    <2>5. CASE HolderCloses(c)
      BY <2>5, <1>4
    <2>6. CASE HolderUses(c)
      BY <2>6, UseStep DEF HolderUses
    <2>7. CASE SdkStep(c) /\ UNCHANGED managerVars
      BY <2>7, UseStep
    <2> QED BY <1>5, <2>1, <2>2, <2>3, <2>4, <2>5, <2>6, <2>7
  <1>6. CASE Next
    BY <1>2, <1>4, <1>5, <1>6, Zenon DEF Next
  <1> QED BY <1>1, <1>6

(* The invariant holds in every reachable state                              *)
THEOREM NetworkInvariance == Spec => []NetworkInv
  <1> QED BY NetworkInit, NetworkStep, PTL DEF Spec

(* NetworkManagerImpl.connect(): however calls overlap with each other, with *)
(* disconnectAll() and with close(), no network ever has two open            *)
(* connections.                                                              *)
THEOREM NetworkOneOpen == Spec => []OneOpenPerNetwork
  <1>1. NetworkInv => OneOpenPerNetwork
    BY DEF NetworkInv, NetworkTypeOK, PendingOwns, GivenListed, OneOpenPerNetwork, Open, Given, Ids, None
  <1> QED BY <1>1, NetworkInvariance, PTL

(* getNamedAccounts(): the accounts that are active are those of the network *)
(* of the active connection.                                                 *)
THEOREM NetworkAccounts == Spec => []AccountsOfActive
  <1>1. NetworkInv => AccountsOfActive
    BY DEF NetworkInv, ActiveOwns
  <1> QED BY <1>1, NetworkInvariance, PTL

(* AleoConnection.close() and disconnectAll(): a closed connection holds no  *)
(* private key, and disconnectAll reaches every connection that does.        *)
THEOREM NetworkKeys == Spec => []KeysReachable
  <1>1. NetworkInv => KeysReachable
    <2> SUFFICES ASSUME NetworkInv, NEW c \in Ids, HoldsKey(c)
                 PROVE  c \notin closed /\ \E n \in Networks : connections[n] = c
      BY DEF KeysReachable
    <2>1. KeysOwned(c)
      BY DEF NetworkInv
    <2>2. Given(c) /\ c \notin closed
      BY <2>1 DEF KeysOwned, HoldsKey
    <2> QED BY <2>2 DEF NetworkInv, GivenListed
  <1> QED BY <1>1, NetworkInvariance, PTL

=============================================================================
