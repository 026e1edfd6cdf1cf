--------------------------- MODULE NetworkManager ---------------------------
(***************************************************************************)
(* NetworkManagerImpl and its NamedAccountManager: connect() calls that    *)
(* overlap with each other, with disconnectAll() and with holders of a     *)
(* connection who close it themselves.  An action is the code between two  *)
(* awaits.  The accounts of a network are determined by its name, so they  *)
(* are identified with it.                                                 *)
(***************************************************************************)
EXTENDS Connection

CONSTANTS
  Networks,     \* the networks of the config
  NoNetwork     \* of a connection that does not exist; no accounts ({} in the code)

ASSUME NetworkAssumption == NoNetwork \notin Networks

VARIABLES
  phase,                        \* phase[c]: how far the connect() that created c is
  network,                      \* network[c]: its network
  connections,                  \* connections[n]
  activeConnection,
  inFlightConnects,             \* inFlightConnects[n]: the connection its promise is about
  accountCache,                 \* the networks in NamedAccountManager.cache
  resolvedNamedAccountsCache,   \* the networks in the manager's own cache
  activeNamedAccounts           \* the network whose accounts are active

managerVars == <<phase, network, connections, activeConnection, inFlightConnects,
                 accountCache, resolvedNamedAccountsCache, activeNamedAccounts>>
vars == <<connectionVars, managerVars>>

MaybeId == Ids \cup {None}

NetworkTypeOK ==
  /\ ConnectionTypeOK
  /\ phase \in [Ids -> {"unborn", "resolving", "resolved", "settled", "returned"}]
  /\ network \in [Ids -> Networks \cup {NoNetwork}]
  /\ connections \in [Networks -> MaybeId] /\ inFlightConnects \in [Networks -> MaybeId]
  /\ activeConnection \in MaybeId
  /\ accountCache \in SUBSET Networks /\ resolvedNamedAccountsCache \in SUBSET Networks
  /\ activeNamedAccounts \in Networks \cup {NoNetwork}

Init ==
  /\ ConnectionInit
  /\ phase = [c \in Ids |-> "unborn"]
  /\ network = [c \in Ids |-> NoNetwork]
  /\ connections = [n \in Networks |-> None] /\ inFlightConnects = [n \in Networks |-> None]
  /\ activeConnection = None /\ activeNamedAccounts = NoNetwork
  /\ accountCache = {} /\ resolvedNamedAccountsCache = {}

-----------------------------------------------------------------------------
IsNext(c) == phase[c] = "unborn" /\ \A d \in 1..(c - 1) : phase[d] # "unborn"

Usable(c) == c # None /\ c \notin closed

(* connect(n) finds an open connection and makes it the active one *)
ConnectExisting(n) ==
  /\ Usable(connections[n])
  /\ activeConnection' = connections[n]
  /\ activeNamedAccounts' = IF n \in resolvedNamedAccountsCache THEN n ELSE NoNetwork
  /\ UNCHANGED <<connectionVars, phase, network, connections, inFlightConnects, accountCache,
                 resolvedNamedAccountsCache>>

(* ... or forgets a closed one, and joins a connect(n) in flight *)
ConnectJoins(n) ==
  /\ ~Usable(connections[n]) /\ inFlightConnects[n] # None
  /\ connections' = [connections EXCEPT ![n] = None]
  /\ UNCHANGED <<connectionVars, phase, network, activeConnection, inFlightConnects, accountCache,
                 resolvedNamedAccountsCache, activeNamedAccounts>>

ConnectCreates_NoJoin(n) ==
  /\ ~Usable(connections[n])
  /\ connections' = [connections EXCEPT ![n] = None]
  /\ \E c \in Ids :
       /\ IsNext(c)
       /\ network' = [network EXCEPT ![c] = n]
       /\ inFlightConnects' = [inFlightConnects EXCEPT ![n] = c]
       /\ phase' = [phase EXCEPT ![c] = IF n \in accountCache THEN "resolved" ELSE "resolving"]
  /\ UNCHANGED <<connectionVars, activeConnection, accountCache, resolvedNamedAccountsCache,
                 activeNamedAccounts>>

(* ... or creates connection c, and awaits the named accounts: a moment if  *)
(* they are cached.  A createConnection that throws leaves no trace.        *)
ConnectCreates(n) ==
  /\ ~Usable(connections[n]) /\ inFlightConnects[n] = None
  /\ connections' = [connections EXCEPT ![n] = None]
  /\ \E c \in Ids :
       /\ IsNext(c)
       /\ network' = [network EXCEPT ![c] = n]
       /\ inFlightConnects' = [inFlightConnects EXCEPT ![n] = c]
       /\ phase' = [phase EXCEPT ![c] = IF n \in accountCache THEN "resolved" ELSE "resolving"]
  /\ UNCHANGED <<connectionVars, activeConnection, accountCache, resolvedNamedAccountsCache,
                 activeNamedAccounts>>

(* resolveForNetwork fills its cache and returns *)
ResolveForNetwork(c) ==
  /\ phase[c] = "resolving"
  /\ phase' = [phase EXCEPT ![c] = "resolved"]
  /\ accountCache' = accountCache \cup {network[c]}
  /\ UNCHANGED <<connectionVars, network, connections, activeConnection, inFlightConnects,
                 resolvedNamedAccountsCache, activeNamedAccounts>>

(* ... or throws: only the new connection is closed *)
ResolveFails(c) ==
  /\ phase[c] = "resolving"
  /\ phase' = [phase EXCEPT ![c] = "settled"]
  /\ CloseAll({c})
  /\ UNCHANGED <<network, connections, activeConnection, inFlightConnects, accountCache,
                 resolvedNamedAccountsCache, activeNamedAccounts>>

SwapState_AccountsLate(c) ==
  /\ phase[c] = "resolved"
  /\ phase' = [phase EXCEPT ![c] = "settled"]
  /\ connections' = [connections EXCEPT ![network[c]] = c]
  /\ activeConnection' = c
  /\ resolvedNamedAccountsCache' = resolvedNamedAccountsCache \cup {network[c]}
  /\ activeNamedAccounts' = IF activeConnection = None THEN network[c] ELSE activeNamedAccounts
  /\ UNCHANGED <<connectionVars, network, inFlightConnects, accountCache>>

(* Both succeeded: the new connection becomes the registered and active one *)
SwapState(c) ==
  /\ phase[c] = "resolved"
  /\ phase' = [phase EXCEPT ![c] = "settled"]
  /\ connections' = [connections EXCEPT ![network[c]] = c]
  /\ activeConnection' = c
  /\ resolvedNamedAccountsCache' = resolvedNamedAccountsCache \cup {network[c]}
  /\ activeNamedAccounts' = network[c]
  /\ UNCHANGED <<connectionVars, network, inFlightConnects, accountCache>>

(* connect() resumes: the promise is no longer in flight *)
ConnectReturns(c) ==
  /\ phase[c] = "settled"
  /\ phase' = [phase EXCEPT ![c] = "returned"]
  /\ inFlightConnects' = [inFlightConnects EXCEPT ![network[c]] = IF @ = c THEN None ELSE @]
  /\ UNCHANGED <<connectionVars, network, connections, activeConnection, accountCache,
                 resolvedNamedAccountsCache, activeNamedAccounts>>

-----------------------------------------------------------------------------
(* disconnectAll: connects in flight are not among the connections *)
DisconnectAll ==
  /\ CloseAll({connections[n] : n \in Networks} \ {None})
  /\ connections' = [n \in Networks |-> None]
  /\ activeConnection' = None /\ activeNamedAccounts' = NoNetwork
  /\ resolvedNamedAccountsCache' = {} /\ accountCache' = {}
  /\ UNCHANGED <<phase, network, inFlightConnects>>

(* Callers have the connection, from connect() or as the active one *)
Given(c) == phase[c] \in {"settled", "returned"}

HolderCloses(c) ==
  /\ Given(c)
  /\ CloseAll({c})
  /\ UNCHANGED managerVars

HolderUses(c) ==
  /\ Given(c)
  /\ UseDefault(c) \/ \E k \in Signers : GetEffectivePm(c, k)
  /\ UNCHANGED managerVars

(* getUsableActiveConnection, behind getConnection, getNamedAccounts and    *)
(* every call through the manager: a closed connection is forgotten         *)
ForgetClosed ==
  /\ activeConnection \in closed
  /\ activeConnection' = None /\ activeNamedAccounts' = NoNetwork
  /\ connections' = [n \in Networks |->
                       IF connections[n] = activeConnection THEN None ELSE connections[n]]
  /\ UNCHANGED <<connectionVars, phase, network, inFlightConnects, accountCache,
                 resolvedNamedAccountsCache>>

Next ==
  \/ \E n \in Networks : ConnectExisting(n) \/ ConnectJoins(n) \/ ConnectCreates(n)
  \/ \E c \in Ids : \/ ResolveForNetwork(c) \/ ResolveFails(c) \/ SwapState(c) \/ ConnectReturns(c)
                    \/ HolderCloses(c) \/ HolderUses(c)
                    \/ SdkStep(c) /\ UNCHANGED managerVars
  \/ DisconnectAll \/ ForgetClosed

Spec == Init /\ [][Next]_vars

-----------------------------------------------------------------------------
Open(c) == phase[c] # "unborn" /\ c \notin closed

(* However connects overlap, a network has at most one open connection: the  *)
(* in-flight map covers exactly the time until the connection is registered. *)
OneOpenPerNetwork ==
  \A c, d \in Ids : Open(c) /\ Open(d) /\ network[c] = network[d] => c = d

(* getNamedAccounts never answers with the accounts of another network than  *)
(* the one execute() would use, or with none at all.                         *)
AccountsOfActive ==
  Usable(activeConnection) => activeNamedAccounts = network[activeConnection]

(* disconnectAll reaches every private key in memory: a connection that      *)
(* holds one is open and registered, whatever was being made when it, or a   *)
(* connection before it, was closed.                                         *)
KeysReachable ==
  \A c \in Ids : HoldsKey(c) => c \notin closed /\ \E n \in Networks : connections[n] = c

=============================================================================
