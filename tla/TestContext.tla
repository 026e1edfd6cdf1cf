---------------------------- MODULE TestContext ----------------------------
(***************************************************************************)
(* A Vitest worker (testing/src): the test contexts that setup() makes and *)
(* teardown() ends, the environment they share (createTestLre()), the      *)
(* devnode each may manage, the session of deployment records, and the     *)
(* fixtures.  The deploy task is modelled by what it does to the chain and *)
(* the session, then by the hooks it dispatches (HookDispatcher).          *)
(*                                                                         *)
(* All devnodes have the address of the one devnode network, so one at     *)
(* most listens.  Every await may fail.  A devnode that listens does so    *)
(* until it is stopped.                                                    *)
(***************************************************************************)
EXTENDS HookDispatcher

CONSTANTS
  Programs,    \* the programs the tests deploy
  Tests,       \* the tests that load the fixture
  MaxFixtureRuns,  \* bound: how often the fixture function is called
  MaxSetups,   \* bound: how often setup() is called
  MaxSnapshots \* bound: the snapshots in one directory

ASSUME ContextAssumption ==
  /\ MaxFixtureRuns \in Nat /\ MaxSetups \in Nat /\ MaxSnapshots \in Nat
  /\ Callers \cap {"nobody", "manual"} = {}

VARIABLES
  lre,         \* cachedLre: is it built?
  building,    \* cachedPromise: is buildLre() at work?
  pc,          \* pc[c]: where the code that owns context c is
  setups,      \* how often setup() was called
  managed,     \* managed[c]: its manager: "none", "starting", "running", or "spent"
               \* when a second start() failed, which drops the options of the first
  temp,        \* temp[c]: does its snapshot directory exist?
  node,        \* who runs the devnode that listens: a context, "manual" or "nobody"
  ledger,      \* the programs on the chain of that devnode
  saved,       \* saved[c]: the snapshots taken in its directory
  session,     \* the programs the session has complete records of
  lost,        \* history: the records of the session when restore() ended their ledger
  target,      \* target[c]: the program it is deploying
  entry,       \* entry[k]: what the k-th call of the fixture function came to
  cached,      \* the call whose entry the fixture cache holds, 0 for none
  since,       \* the calls since clearFixtures()
  loads        \* loads[t]: the call that loadFixture() of test t awaits, 0 for none

contextVars == <<pc, setups, managed, temp, node, ledger, saved, session, lost, target>>
lreVars == <<lre, building>>
fixtureVars == <<entry, cached, since, loads>>
vars == <<contextVars, lreVars, fixtureVars, hookVars>>

ContextInit ==
  /\ HookInit
  /\ lre = FALSE /\ building = FALSE
  /\ pc = [c \in Callers |-> "idle"] /\ setups = 0
  /\ managed = [c \in Callers |-> "none"] /\ temp = [c \in Callers |-> FALSE]
  /\ node \in {"nobody", "manual"}
  /\ ledger = {} /\ saved = [c \in Callers |-> {}]
  /\ session = {} /\ lost = {}
  /\ target = [c \in Callers |-> "none"]
  /\ entry = [k \in 1 .. MaxFixtureRuns |-> "unused"] /\ cached = 0 /\ since = {}
  /\ loads = [t \in Tests |-> 0]

Goto(c, label) == pc' = [pc EXCEPT ![c] = label]
AtRest == {"idle", "ready", "failed", "closed", "threw"}

(* Tests await what they start; setups, and deployments, run together.     *)
Quiet == \A c \in Callers : pc[c] \in AtRest

-----------------------------------------------------------------------------
(* setup()                                                                 *)

(* createTestLre(): the cached one, the one being built, or a new one.     *)
Setup(c) ==
  /\ pc[c] \in AtRest \ {"ready"} /\ setups < MaxSetups
  /\ \A d \in Callers : pc[d] \in AtRest \cup {"lre", "begin", "starting", "connecting", "cleanup"}
  /\ setups' = setups + 1
  /\ IF lre THEN Goto(c, "begin") /\ UNCHANGED building
     ELSE Goto(c, "lre") /\ building' = TRUE
  /\ UNCHANGED <<lre, managed, temp, node, ledger, saved, session, lost, target, fixtureVars, hookVars>>

(* buildLre() settles: a failure is not kept.                              *)
BuildLre(built) ==
  /\ building
  /\ building' = FALSE /\ lre' = built
  /\ pc' = [c \in Callers |-> IF pc[c] # "lre" THEN pc[c] ELSE IF built THEN "begin" ELSE "failed"]
  /\ UNCHANGED <<setups, managed, temp, node, ledger, saved, session, lost, target,
                 fixtureVars, hookVars>>

(* The devnode is started unless the caller brings one; snapshots need a   *)
(* managed one, with a directory of its own.                               *)
SetupBegins(c) ==
  /\ pc[c] = "begin"
  /\ \E skipDevnode, snapshotReset \in BOOLEAN :
       IF skipDevnode
       THEN /\ Goto(c, IF snapshotReset THEN "failed" ELSE "connecting")
            /\ UNCHANGED <<managed, temp>>
       ELSE /\ Goto(c, "starting")
            /\ managed' = [managed EXCEPT ![c] = "starting"]
            /\ temp' = [temp EXCEPT ![c] = snapshotReset]
  /\ UNCHANGED <<lreVars, setups, node, ledger, saved, session, lost, target, fixtureVars, hookVars>>

(* The node that starts has an empty ledger.  Where another one listens,   *)
(* that one answers the health check and the new child dies, unseen.       *)
DevnodeStarts(c) ==
  /\ pc[c] = "starting"
  /\ managed' = [managed EXCEPT ![c] = "running"]
  /\ IF node = "nobody" THEN node' = c /\ ledger' = {} ELSE UNCHANGED <<node, ledger>>
  /\ Goto(c, "connecting")
  /\ UNCHANGED <<lreVars, setups, temp, saved, session, lost, target, fixtureVars, hookVars>>

RemoveTemp(c) == temp' = [temp EXCEPT ![c] = FALSE] /\ saved' = [saved EXCEPT ![c] = {}]

StartFails(c) ==
  /\ pc[c] = "starting"
  /\ managed' = [managed EXCEPT ![c] = "none"]
  /\ RemoveTemp(c)
  /\ Goto(c, "failed")
  /\ UNCHANGED <<lreVars, setups, node, ledger, session, lost, target, fixtureVars, hookVars>>

(* connect() and, for a devnode that is not managed, the health check.     *)
ConnectReturns(c) ==
  /\ pc[c] = "connecting" /\ (managed[c] = "none" => node # "nobody")
  /\ Goto(c, "ready")
  /\ UNCHANGED <<lreVars, setups, managed, temp, node, ledger, saved, session, lost, target,
                 fixtureVars, hookVars>>

ConnectFails_NoTimeout(c) ==
  /\ pc[c] = "connecting" /\ managed[c] = "running"
  /\ Goto(c, "cleanup")
  /\ UNCHANGED <<lreVars, setups, managed, temp, node, ledger, saved, session, lost, target,
                 fixtureVars, hookVars>>

ConnectFails(c) ==
  /\ pc[c] = "connecting"
  /\ Goto(c, IF managed[c] = "running" THEN "cleanup" ELSE "failed")
  /\ UNCHANGED <<lreVars, setups, managed, temp, node, ledger, saved, session, lost, target,
                 fixtureVars, hookVars>>

(* stopDevnode(): the node is gone, and its chain with it.                 *)
StopDevnode(c) ==
  /\ managed' = [managed EXCEPT ![c] = "none"]
  /\ node' = IF node = c THEN "nobody" ELSE node
  /\ ledger' = IF node = c THEN {} ELSE ledger

(* cleanupManagedDevnodeAfterSetupFailure(): no failure of one step keeps  *)
(* the next from being taken.                                              *)
CleanupAfterSetupFailure(c) ==
  /\ pc[c] = "cleanup"
  /\ StopDevnode(c) /\ RemoveTemp(c)
  /\ Goto(c, "failed")
  /\ UNCHANGED <<lreVars, setups, session, lost, target, fixtureVars, hookVars>>

-----------------------------------------------------------------------------
(* ctx.deploy()                                                            *)

(* The session answers at once, else the deploy task runs.                 *)
Deploy(c, p) ==
  /\ pc[c] = "ready" /\ \A d \in Callers : pc[d] \in AtRest \cup {"deploying", "hooks"}
  /\ IF p \in session THEN pc' = pc /\ UNCHANGED target
     ELSE Goto(c, "deploying") /\ target' = [target EXCEPT ![c] = p]
  /\ UNCHANGED <<lreVars, setups, managed, temp, node, ledger, saved, session, lost,
                 fixtureVars, hookVars>>

(* The task finds the program on the chain or puts it there, records it    *)
(* and dispatches programDeployed.                                         *)
DeployConfirmed(c) ==
  /\ pc[c] = "deploying" /\ node # "nobody"
  /\ ledger' = ledger \cup {target[c]}
  /\ session' = session \cup {target[c]}
  /\ Dispatch(c)
  /\ Goto(c, "hooks")
  /\ UNCHANGED <<lreVars, setups, managed, temp, node, saved, lost, target, fixtureVars>>

DeployFails(c) ==
  /\ pc[c] = "deploying"
  /\ Goto(c, "ready") /\ target' = [target EXCEPT ![c] = "none"]
  /\ UNCHANGED <<lreVars, setups, managed, temp, node, ledger, saved, session, lost,
                 fixtureVars, hookVars>>

(* deploy() returns, or throws what a factory or a handler threw.          *)
DeployReturns(c) ==
  /\ pc[c] = "hooks" /\ Leave(c)
  /\ Goto(c, "ready") /\ target' = [target EXCEPT ![c] = "none"]
  /\ UNCHANGED <<lreVars, setups, managed, temp, node, ledger, saved, session, lost,
                 fixtureVars>>

-----------------------------------------------------------------------------
(* Snapshots                                                               *)

assertSnapshotReady(c) == managed[c] = "running" /\ temp[c]

(* The node that answers takes it, in the directory it was started with.   *)
Snapshot(c) ==
  /\ pc[c] = "ready" /\ Quiet /\ assertSnapshotReady(c)
  /\ node \in Callers /\ temp[node] /\ Cardinality(saved[node]) < MaxSnapshots
  /\ saved' = [saved EXCEPT ![node] = @ \cup {ledger}]
  /\ UNCHANGED <<lreVars, pc, setups, managed, temp, node, ledger, session, lost, target,
                 fixtureVars, hookVars>>

(* restore() stops the node, and with it the ledger of the records ...     *)
RestoreStops(c) ==
  /\ pc[c] = "ready" /\ Quiet /\ assertSnapshotReady(c)
  /\ Goto(c, "restoring")
  /\ IF node = c THEN node' = "nobody" /\ ledger' = {} /\ lost' = session
     ELSE UNCHANGED <<node, ledger, lost>>
  /\ UNCHANGED <<lreVars, setups, managed, temp, saved, session, target, fixtureVars, hookVars>>

RestoreReturns_KeepsSession(c) ==
  /\ pc[c] = "restoring" /\ Goto(c, "ready")
  /\ \E s \in saved[c] :
       IF node = "nobody" THEN node' = c /\ ledger' = s ELSE UNCHANGED <<node, ledger>>
  /\ lost' = {}
  /\ UNCHANGED <<lreVars, setups, managed, temp, saved, session, target, fixtureVars, hookVars>>

(* ... rewrites the directory from a snapshot in it and starts a node with *)
(* that ledger, where no other listens; then the session is dropped.       *)
RestoreReturns(c) ==
  /\ pc[c] = "restoring" /\ Goto(c, "ready")
  /\ \E s \in saved[c] :
       IF node = "nobody" THEN node' = c /\ ledger' = s ELSE UNCHANGED <<node, ledger>>
  /\ session' = {} /\ lost' = {}
  /\ UNCHANGED <<lreVars, setups, managed, temp, saved, target, fixtureVars, hookVars>>

(* The command fails, and restore() can be called again, or the start      *)
(* does: what it throws leaves the session as it was.                      *)
RestoreThrows(c) ==
  /\ pc[c] = "restoring" /\ Goto(c, "ready")
  /\ \E manager \in {"running", "spent"} : managed' = [managed EXCEPT ![c] = manager]
  /\ UNCHANGED <<lreVars, setups, temp, node, ledger, saved, session, lost, target,
                 fixtureVars, hookVars>>

-----------------------------------------------------------------------------
(* teardown(): fixtures and session are cleared, the connections closed,   *)
(* the devnode stopped, the directory removed; the first error is thrown   *)
(* at the end.                                                             *)

Teardown(c) ==
  /\ pc[c] = "ready" /\ Quiet
  /\ cached' = 0 /\ since' = {}
  /\ session' = {} /\ lost' = {}
  /\ Goto(c, "disconnecting")
  /\ UNCHANGED <<lreVars, setups, managed, temp, node, ledger, saved, target, entry, loads, hookVars>>

DisconnectAll_FirstErrorEnds(c, ok) ==
  /\ pc[c] = "disconnecting"
  /\ Goto(c, IF ok THEN "stopping" ELSE "threw")
  /\ UNCHANGED <<lreVars, setups, managed, temp, node, ledger, saved, session, lost, target,
                 fixtureVars, hookVars>>

DisconnectAll(c, ok) ==
  /\ pc[c] = "disconnecting"
  /\ Goto(c, IF ok THEN "stopping" ELSE "stopping after error")
  /\ UNCHANGED <<lreVars, setups, managed, temp, node, ledger, saved, session, lost, target,
                 fixtureVars, hookVars>>

TeardownEnds(c) ==
  /\ pc[c] \in {"stopping", "stopping after error"}
  /\ StopDevnode(c) /\ RemoveTemp(c)
  /\ Goto(c, IF pc[c] = "stopping" THEN "closed" ELSE "threw")
  /\ UNCHANGED <<lreVars, setups, session, lost, target, fixtureVars, hookVars>>

-----------------------------------------------------------------------------
(* loadFixture()                                                           *)

Cached == IF cached = 0 THEN "none" ELSE entry[cached]

CallFixture(t) ==
  \E k \in DOMAIN entry :
    /\ entry[k] = "unused" /\ \A j \in 1 .. k - 1 : entry[j] # "unused"
    /\ entry' = [entry EXCEPT ![k] = "pending"]
    /\ cached' = k /\ since' = since \cup {k}
    /\ loads' = [loads EXCEPT ![t] = k]

LoadFixture_ResultsOnly(t) ==
  /\ loads[t] = 0
  /\ IF Cached = "settled" THEN UNCHANGED fixtureVars
     ELSE CallFixture(t)
  /\ UNCHANGED <<contextVars, lreVars, hookVars>>

(* The result that is cached, the promise, or a new call of the function.  *)
(* A result that is undefined is not seen as one; a promise that was       *)
(* rejected stays.                                                         *)
LoadFixture(t) ==
  /\ loads[t] = 0
  /\ \/ Cached = "settled" /\ UNCHANGED fixtureVars
     \/ /\ Cached = "pending"
        /\ loads' = [loads EXCEPT ![t] = cached] /\ UNCHANGED <<entry, cached, since>>
     \/ Cached \in {"none", "undefined"} /\ CallFixture(t)
  /\ UNCHANGED <<contextVars, lreVars, hookVars>>

FixtureSettles(k, outcome) ==
  /\ entry[k] = "pending"
  /\ entry' = [entry EXCEPT ![k] = outcome]
  /\ loads' = [t \in Tests |-> IF loads[t] = k THEN 0 ELSE loads[t]]
  /\ UNCHANGED <<cached, since, contextVars, lreVars, hookVars>>

-----------------------------------------------------------------------------
HookStep == Resolution \/ \E c \in Callers : Handler(c)

ContextStep(c) ==
  \/ SetupBegins(c) \/ DevnodeStarts(c) \/ StartFails(c) \/ ConnectReturns(c) \/ ConnectFails(c)
  \/ CleanupAfterSetupFailure(c) \/ DeployConfirmed(c) \/ DeployFails(c) \/ DeployReturns(c)
  \/ RestoreReturns(c) \/ RestoreThrows(c) \/ TeardownEnds(c) \/ \E ok \in BOOLEAN : DisconnectAll(c, ok)

Next ==
  \/ \E built \in BOOLEAN : BuildLre(built)
  \/ \E c \in Callers : ContextStep(c) \/ Setup(c) \/ Snapshot(c) \/ RestoreStops(c) \/ Teardown(c)
                        \/ \E p \in Programs : Deploy(c, p)
  \/ HookStep /\ UNCHANGED <<contextVars, lreVars, fixtureVars>>
  \/ \E t \in Tests : LoadFixture(t)
  \/ \E k \in DOMAIN entry, o \in {"settled", "undefined"} : FixtureSettles(k, o)

Spec == ContextInit /\ [][Next]_vars

-----------------------------------------------------------------------------
(* Properties                                                              *)

(* Nothing outlives a context: when a setup has failed or a teardown has   *)
(* ended, with or without an error, its devnode is stopped and its         *)
(* directory removed; and the node that listens is one somebody will stop. *)
NothingLeftBehind ==
  \A c \in Callers :
    /\ pc[c] \in AtRest \ {"ready"} => managed[c] = "none" /\ ~temp[c]
    /\ node = c => pc[c] \in {"connecting", "cleanup", "ready", "deploying", "hooks",
                                "disconnecting", "stopping", "stopping after error"}

(* What the session has a record of is on the chain the contexts talk to,  *)
(* except what a restore() that is under way, or has thrown, left behind:  *)
(* ctx.deploy() never answers from a record of a ledger that a restore()   *)
(* which returned has rolled back, or of a devnode that was torn down.     *)
SessionMatchesChain == session \subseteq ledger \cup lost

(* "The chain rolled back; drop the in-memory deployment cache so deploy() *)
(* doesn't short-circuit on programs that no longer exist on-chain"        *)
(* (test-context.ts:414-415): when nothing is under way and a devnode      *)
(* listens, every record that deploy() would answer from is of a program   *)
(* on its chain.  A restore() that throws has stopped the devnode, and     *)
(* does not come to that line: the records meet the chain of the next one. *)
NoShortCircuit == Quiet /\ node # "nobody" => session \subseteq ledger

(* Between two teardowns the fixture function is called once, however many *)
(* tests load it at once, until a call of it returns undefined.            *)
FixtureOnce ==
  \A j, k \in since : j # k => "undefined" \in {entry[j], entry[k]}

(* Every setup(), deploy() and teardown() settles.                         *)
ContextsSettle ==
  \A c \in Callers : pc[c] \notin AtRest ~> pc[c] \in AtRest

=============================================================================
