# LionDen in TLA+

LionDen is a development environment for Aleo programs: it compiles Leo sources and generates
TypeScript bindings for them, runs local devnodes, deploys and upgrades programs, executes their
transitions, keeps a directory of deployment state, and runs tests against all of it. This
project models the parts where order, failure, concurrency or the interplay of several inputs
matter, model-checks them with TLC and proves the central results with TLAPS.

## 1. The system

| Part | State it keeps | Operations | Hard behaviour |
|---|---|---|---|
| deployment state store (`plugin-deploy/deployment-state.ts`) | `deployments/<network>/`: `.network.json`, one record, ABI snapshot, history directory and pending marker per program | atomic writes (temp file + rename), reads, deletes | crash between writes |
| deployment manager (`deployment-manager.ts`, `on-chain-check.ts`) | session caches of records and ABIs, "metadata validated" flags | `getDeployment`, `getAllDeployments`, `record`, `setPending`, `clearPending`, `recoverPendingDeployments`, `export`, `invalidateSession` | cache, disk and chain disagree; reads lag or fail; endpoint reconfigured |
| deploy task (`deploy-task.ts`, `preflight.ts`, `deployment-closure.ts`) | targets, preflight outcomes | recover, look up, preflight, reconcile, build/broadcast/confirm/record per program, export | partial failure, timeouts, stale reads, other people's programs |
| upgrade task (`upgrade-task.ts`) | previous edition, marker | recover, resolve, mark, broadcast, confirm, wait for the edition, record, export | confirmation without propagation, reruns |
| deploy backends (`deploy-backend/`) | the Leo package, the directory Leo saves to | build a transaction with the SDK or the Leo CLI | Leo compiles again what is to be recorded; its output decides what happened |
| recipe task (`recipe-task.ts`) | none | deploy and execute steps of a user script | – |
| devnode manager (`network/devnode-manager.ts`) | the child process, exit promise, terminal flag, drain timer, start options | `start`, `stop`, `restore`, snapshots, event handlers | every order of exit, close, error, timers and calls |
| network manager (`network/network-manager.ts`, `named-account-manager.ts`) | connections, active connection, in-flight connects, account caches | `connect`, `disconnectAll`, `getConnection` | connects that race each other and `disconnectAll` |
| connection (`network/connection.ts`, `sdk-adapter.ts`) | lazy SDK objects, per-signer SDK objects, closed flag | execute, broadcast, `waitForConfirmation`, reads, `close` | `close` during initialisation, traps, polling |
| execution artifacts and keys (`network/execution-key-cache.ts`) | key files | sources and imports of an execution, key lookup | imports of imports, two sources for one id |
| task runner, plugins, environment (`core/task-runner.ts`, `plugin-loader.ts`, `lre.ts`) | tasks, overrides, plugins | register, override, prepare arguments, run, `runSuper` | who sees which argument; load order |
| hook system (`core/hook-system.ts`) | handlers, resolved categories, resolutions in flight | dispatch of a category | concurrent dispatches while factories are awaited |
| config resolution (`core/config-resolution.ts`) | the resolved configuration | extend, resolve, merge, validate | two places that say the same thing |
| command line (`cli/`) | arguments | find the task, split the words, load, run | one word, several meanings |
| compiler (`leo-compiler/`) | `.build/`, `.cache/`, `artifacts/`, `typechain/` | discover, order, compile, rename, clean, generate | stale caches, crashes, shared directories |
| ABI parser and generator (`leo-compiler/abi-parser.ts`, `codegen/typescript-generator.ts`) | none | normalise an ABI, name things, choose conversions | names that meet, three formats of ABI |
| generated contract runtime (`codegen/contract-wrapper.ts`) | none of its own | call a transition, decrypt its outputs, read storage | what came of a transaction; reads while the chain moves |
| testing (`testing/`) | shared environment, managed devnode, snapshots, session records, fixture cache | `setup`, `deploy`, `snapshot`, `restore`, `teardown`, `loadFixture` | contexts in parallel, failures of any step |
| test task (`plugin-test/`) | environment variables, errors | compile, suite hooks, Vitest, teardown | workers that load everything again |
| node task, key artifacts, project generator, test internals | – | – | section 8 |

The tasks reach the chain only through a `NetworkConnection`, and the disk only through the
deployment manager and the compiler. They run in one process on one event loop, so the code
between two awaits is atomic; what interleaves with it is the chain, the devnode's events, other
async callers and the death of the process.

What makes each part correct:

- *store and manager*: one directory is about one chain; a record never claims more than the
  chain shows; a crash leaves either the old or the new state plus a marker from which the
  next run repairs it; a marker is resolved in the end.
- *tasks*: dependencies are on chain before dependants are sent; a task that returns did what
  it was asked for. *Export*: a bundle hands out transactions and ABIs of the chain it names.
- *devnode manager*: no devnode outlives the manager's knowledge of it, never two at once;
  `stop` means stopped, `start` means healthy; every call settles.
- *network manager and connection*: one connection per network, accounts of the active one, no
  key material after `close`; each failure and each output belongs to the call that gets it.
- *command line, configuration, plugins*: what the user typed is used or refused, never dropped;
  workers come to what the parent came to; dependencies are loaded first.
- *hooks*: a dispatch runs every handler, and a category is loaded once.
- *compiler, artifacts, backends*: what is returned was made from what is there now; what is
  executed is complete; what is broadcast is what is recorded.
- *bindings*: one name, one type; a literal reads back as its value; what a call reports is what
  became of the transition that was asked for.
- *testing*: nothing outlives a context; no record outlives its ledger; fixtures run once.

`PROJECT.json` lists every part with its status, and every hazard at its source line.

## 2. Modules

```
Ledger ─► DeploymentState ─► DeploymentManager ─► DeployTasks ─► DeployProperties ─► MCDeployTasks
                                                                        └► DeployProofs
DevnodeManager ─► DevnodeProofs
Connection ─► NetworkManager ─► MCNetworkManager, NetworkProofs
Execution ─► MCExecution

Objects ─► CommandLine, ConfigResolution, Plugins ─► Startup ─► MCStartup
                                                        └─► StartupProofs (with WalkProofs)

HookDispatcher ─► TestContext ─► TestTask ─────┐
      └ refines SingleFlight                   └─► TestProofs

DepthFirst ─► Plugins, DependencyGraph, WalkProofs
DependencyGraph ─► Compiler ─► ExecutionArtifacts, DeployBackends ─► MCCompiler
                                       └─► CompilerProofs (of both and AbiParser, with WalkProofs)

AbiParser, BindingNames, BindingValues, Contract, StorageVectors ─► MCBindings
                                        └────────────┴─► CallProofs (and of Execution)
```

(`A ─► B`: B extends A.)

### Deployment

- **Ledger** (external). The chain as seen through a connection: `edition[e][p]` is the true
  edition of program `p` behind endpoint `e`, `visible[e][p]` the one reads return, `tx` the
  transactions LionDen built. A transaction is accepted or rejected some time after `Submit`;
  reads catch up later (`Propagate`); `Stranger` is anyone else who deploys or upgrades.
  `OnChainReads` is what `checkProgramOnChain` can answer: the source and the edition are two
  requests, and each may fail on its own.
- **DeploymentState**. The files. An ABI is identified with the transaction whose build
  produced it, timestamps are left out, and history is a set of entries.
- **DeploymentManager**. The methods of `DeploymentManagerImpl` as parts of actions.
  `RecordWrites(..., n)` is the first `n` of the five writes of `record()` in their order, so
  `Record` (all of them) and `RecordCut` (the process dies in between) share one definition.
  The writes are synchronous: nothing but death gets between them.
- **DeployTasks**. `deployAction`, `upgradeAction` and `exportAction` as a state machine whose
  `pc` names the step (the numbered comments of the source). Every step reads the chain at its
  own time. `Abort` is any awaited call that throws (timeouts, HTTP errors, compile errors, a
  failing hook); `Crash` and the `*Cut` actions are the death of the process; `NewProcess` is
  a new command, possibly with another configured endpoint; without it the next task runs in
  the same session, as it does in tests and scripts. `DeployTargets` is everything or the local
  closure of one program; the loops follow the order of the dependency graph (`Earliest`).
- **DeployProperties**. The properties, and two sentences of the documentation that the code does
  not live up to (section 6).

### Devnode, network, execution

- **DevnodeManager**. One `DevnodeManager` object and up to `MaxStarts` calls of `start()`
  that pass the guard. Call, child and exit promise of a start share a number. `Ready` says
  that a continuation can run: the runtime runs those before it takes the next event, so every
  event action requires `~Ready`. Calls by users do not: a caller may be one of the
  continuations that a resolved promise wakes, ahead of the others. A child that the manager has given
  up on (`forgotten`) may still close. Two history variables say what the properties except: `mistaken`, an event of
  one child was taken for the end of another, and `overlapped`, someone called `start()` during a restore.
- **Connection**. The SDK objects, and with them the private keys, of `AleoConnection` objects:
  `sdk[c]` is the promise and the objects of connection `c`, `making` and `held` count the calls
  that create objects for a signer and the accounts they made. `CloseAll(S)` is the synchronous part of
  `close()` for the connections in `S`, as `disconnectAll` calls it for all of them at once.
- **NetworkManager**. `connect()` in the pieces its awaits cut it into (`phase`), the three
  outcomes of its synchronous beginning, `disconnectAll`, and callers who use or close a
  connection they were given. A connection gets a number when it is created.
- **Execution**. `execute()` and `checkLocalExecution()` of one connection, each call a `pc` of its
  own. The two promise chains that serve as locks, of a diagnostics sink and of the trap handlers, are
  tickets (`sinkTicket`, `trapTicket`). `op[c]` is the SDK operation, `race[c]` what settled the
  race between it and a trap; a trap reaches every handler installed. `failures[s]` is what the
  transport recorded in a sink: state queries of the call that holds it, and broadcasts, which hold
  no lock. `PollAnswers` and `PollThrows` are the three lookups of `waitForConfirmation`.

### Startup

- **Objects**. JavaScript objects used as maps: `Over` is the spread, `Or` the `??` of a field.
- **CommandLine**. `findTask` and `parseArgs`: which word is the task, which belongs to an option, which is
  positional; `TooManyWords`, `assertDeployBackendArg` and the argument pipeline of the task runner,
  which runs once per override (`runSuper`). A word is a token, never characters. The loops over words,
  plugins, tasks and positionals are recursive functions of how far they have come;
  an option has one dash or two, which only `sawDeployBackendFlag` tells apart; `ScanToken`, `ParseToken`,
  `Bind`, `registerTask` and `mergePartial` are one round of each.
- **Plugins**. `resolvePluginOrder` (`Collected`, which meets conflicting ids, then the walk of
  DepthFirst), registration and override of tasks.
- **ConfigResolution**. From the user's configuration to the resolved one: networks, variables,
  runtime imports with their ids and paths, the SDK section with its key cache, and the hooks of
  plugins that extend and check it. An error is the empty set.
- **Startup**. `main()` as a state machine (`stage`): the three parses of the same words, the
  configuration file, the environment, the task; then the test task hands variables to its workers
  and each worker builds an environment of its own (`WorkerEnv`).

### Hooks and tests

- **SingleFlight** (abstract). What a lazy loader promises: one attempt at a time, shared by
  everyone who calls while it runs; a value stays; a failed attempt fails its callers and the next
  call tries again.
- **HookDispatcher**. One category of `HookDispatcher`: entries in plugin order, some of them
  factories, and dispatches by concurrent callers. An action is what runs between two awaits. The
  refinement mapping takes `resolved` for the value, an awaited factory for the attempt, and each
  caller for what it has been told; `CategoryShared` says that it implements `SingleFlight`.
- **TestContext**. A Vitest worker: contexts that are set up, deploy, snapshot, restore and are torn
  down while any await fails, the environment they share, the one devnode address, the session of
  records, the fixture cache. The deploy task is what it does to chain and session, then
  `Dispatch` of the hooks: HookDispatcher is part of this module's steps. `restore()` is two steps, as the manager
  stops the node before anything else can fail: `RestoreStops`, then `RestoreReturns` or `RestoreThrows`. `lost` is
  a history variable: the records whose ledger went down with the node of a restore that has not returned.
- **TestTask**. The action around the worker: compile, `suiteSetup`, tests, `suiteTeardown`, the two
  errors and `LIONDEN_MANAGED_TEST`.

### Compiler and backends

- **DepthFirst**. `Visited` is the depth-first walk that orders units and plugins, as a recursive function over
  what is left to visit, the stack and what was appended. `Needs` is what `collectTransitiveDeps` walks
  to, as the least set that is closed under imports.
- **DependencyGraph**. Discovery of units and `resolveDependencies`.
- **Compiler**. What is on disk and what it was made from: a build directory per program id, a cache
  entry per unit and id, artifacts and the modules of generated bindings. A package, a build and a
  hash are identified with what determines them, so "fresh" is equality with what is there now. One
  action per await of `compile()` that leaves something behind, `Crash` between any two, edits,
  upgrades of network dependencies, changes of the Leo version, `clean`. `torn` is a history variable: the ids whose
  build directory was left by a build that stopped before it wrote its cache entry, beside an entry of another build.
- **ExecutionArtifacts**. `resolveProgramExecutionArtifacts`: the walk over imports, runtime imports
  first, the error of a program that is in neither place or of two sources for one id, and the keys beside an artifact.
- **DeployBackends**. The SDK, which builds from the bytecode in hand, and the Leo CLI, which is
  given a package directory: the checks around it, the files it saves, and how they and its output are read.

### Bindings

- **AbiParser**. Three generations of ABI and the parser's own output, normalised by one function. Types
  nest to `MaxDepth`, and what the code does recursively is a function by depth. `abis` are the
  programs that are read.
- **BindingNames**. Where the names of a generated module come from, which are renamed when they
  meet, and which stop the generation.
- **BindingValues**. Serializers and deserializers by type; a literal keeps its structure, an integer its width.
- **Contract**. A call in `BaseContract`: send, wait, look for the transition in the transaction
  (`parseConfirmedTransitions`), decrypt; each answer of the network is an outcome. Handles name an
  output by its global index. Conditions that the code tests in turn are disjoint here.
- **StorageVectors**. A read of all elements or one, request by request, while others push and pop.
  `live` is a history variable: what was in the vector at some time since the read began. A request
  that fails ends the read (`queryProgramMappingRaw_Throws`).

Faulty variants are named after what they break (`RecordWrites_MetadataLast`); `PROJECT.json`
pairs each property with one, and TLC finds the property violated when the variant replaces
the definition. The MC modules only hold instances.

### Abstractions

- *Deployment*: fees, balances, deployer addresses, hook payloads and all wording are left out. None of them decides which writes happen, except by throwing (`Abort`). `--rename` is in
  Compiler, not in DeployTasks. The code takes no lock on a deployments directory; one process at a time.
- *Devnode*: one `restore()` at a time. A spawn that fails gives an error event, no exit, and maybe a close event.
  A grandchild may hold the child's pipes, so that the close event comes long after the drain timer, or never.
  Anyone at the address may have answered the health check: a child that has just died, or another node.
- *Network*: the accounts of a network follow from its name and are identified with it; resolving
  them succeeds or throws. Requests through the manager do nothing to its state but `ForgetClosed`.
- *Execution*: a call is made at most once, and starts at its first lock: what comes before it has
  no effect on other calls. Removing the handlers and releasing the lock are one step, and so are
  restoring the console and releasing the sink, since only microtasks lie between them. The ring
  of 16 entries of a sink never overflows; a request of an operation ends before the operation does.
- *Startup*: values that are only "what the user wrote, or a default" are left out (ports, paths,
  batch sizes), and so are help texts and the Vitest options. Kebab and camel case are a function.
- *Tests*: all devnodes have the same address, as in the default configuration. Contexts deploy
  together, and set up together; other operations of a context wait for quiet, as tests do. A devnode
  that dies of itself while its context works is not in this model (it is in DevnodeManager).
- *Compiler*: `.env`, the memory of `lre.artifacts`, the Leo preflight and compiler flags (which
  are not part of the hash, section 6) are left out; two compiles do not overlap, and
  `EditWhileCompiling` is off in the runs. The module names of bindings are a table.
- *Backends*: fee estimation, the memo of the version probe, redaction, and a child whose close
  event never comes are left out.
- *Bindings*: text is never put together: a literal is a tree, a name a model value. Array lengths
  are unchecked by the serializers and left to the VM. Nested optionals are excluded: `Some(None)` collapses to `None`. What
  public values decode to when the ABI has drifted from the program (`NaN`, `false`) is not modelled.

## 3. Runs

States are distinct states.

| Run | Instance | Checks | States |
|---|---|---|---|
| `deploy_http` | `app` imports `lib` imports `ext` (someone else's), failing reads, all modes, one crash | `ImportsBeforeBroadcast`, `DeployReturnsDeployed` | 346,575 |
| `upgrade_http` | one program, editions 0–2, three transactions, one crash; fairness | `CompleteMeansAccepted`, `NeverAheadOfChain`, `SnapshotOfRecord`, `MarkersResolved` | 154,037 |
| `endpoints_http` | two endpoints, failing reads, deploy, upgrade, export and automatic export, one crash | `RecordsMatchMetadata`, `BundleFromItsChain` | 1,166,626 |
| `devnode` | three starts, children that close late or never, callers during a restore; fairness | `TrackedWhileAlive`, `RestoreOffline`, `StopMeansStopped`, `StartReturnsOwnChild`, `CallsSettle` | 181,629 |
| `network_manager` | two networks, two connections, two signers beside the connection's own | `OneOpenPerNetwork`, `AccountsOfActive`, `KeysReachable` | 710,126 |
| `execution` | a prove-path call that awaits its transaction and a fast-path call on one sink, a local one on another, a check; fairness | `TrapsReachTheirCall`, `BlamesOwnQueries`, `ConsoleRestored`, `OutputsOfAccepted`, `ExecutionsSettle` | 343,056 |
| `startup` | every command line of two words over the vocabulary, options with one dash or two, longer ones over those that compete; every graph of three plugins; 252 configurations | `InputHonoured`, `LoadOrderValid`, `WorkersAgree` | 85,188 |
| `testing` | two contexts, one snapshot of each, restores that return or throw, two factories, two tests on one fixture; fairness | `NothingLeftBehind`, `SessionMatchesChain`, `FixtureOnce`, `EveryHandlerRan`, `CategoryShared` (refinement), `ContextsSettle` | 514,700 |
| `compiler` | every import graph of three folders; two projects compiled three times with one change between, six deployments | `CompileOrderValid`, `ResultsFresh`, `ExecutionClosed`, `BuiltAsRecorded` | 79,530 |
| `bindings` | ABIs, names, values and literals over small types; two calls of a contract; a vector of three | `AbiStable`, `NamesDistinct`, `LiteralsFaithful`, `OutcomesTruthful`, `HandlesFaithful`, `VectorElementsLive` | 1,327,854 |
| `x_failed_restore` | two contexts, one program, one snapshot | `NoShortCircuit` (violated, section 6) | – |
| `x_shared_build` | two programs renamed to one id in turn | `BuildsKeptApart` (violated, section 6) | – |

What each run shows is in `PROJECT.json` in a sentence. The environments of `startup` set a private key's
variable too, and TLC finds the hypotheses of the theorems about Startup true of its commands
(`MCHypotheses`). Type invariants are not checked by the
runs: they are proved (`TypeCorrect`) or part of the inductive invariants of section 4.

`SnapshotOfRecord` and `BundleFromItsChain` speak of HTTP networks: with a disk-backed devnode and two
endpoints, or failing reads, neither holds (section 6).

**Bounds.** `MaxTx`, `MaxEdition`, `MaxCrashes` and `MaxStarts` cap counters in the guards. One
crash is enough to leave any intermediate state behind, and the repair of what it left runs
without one; every new process starts from nothing but the disk, so a second crash meets the
kind of state the first one did. Two editions beyond the first distinguish "stale", "current" and "ahead"; three
transactions are a deploy, an upgrade and a retry. Three programs make a chain of imports with
a foreign end, a local middle and a local root. Two endpoints are one change of
configuration, and back. Three starts give a start a predecessor, whose events may come late, and an
overtaker. Two connections are one that closes and its successor, or one of each network, and
two signers share a connection. Four calls are one of each mode, with two on one sink, so that a call
can wait for a sink, for the trap lock, and overlap with a capture on another sink.
Two contexts (`MaxSetups`) are one that holds the devnode and one that waits for it; two calls of
the fixture function (`MaxFixtureRuns`) are one that came to nothing and the next; two factories are one that loads and one that
fails after it; one snapshot (`MaxSnapshots`) is an earlier ledger to return to. `MaxCompiles` compiles with `MaxChanges` changes are a build, a change and what
becomes of it; the graphs and command lines whose only question is what a pure function makes
of them start with nothing left to spend. Three folders are a diamond's worth of edges, cycles and a
program beside a library; `copy` and `token` compete for one id, `app` and `ap_p` for one module. Integers of a few
bits have both ends, a value beyond them and one beyond `MaxSafe`. A vector of three and three writes
are a pop before, between and after the requests of a read. Types two deep (`MaxDepth`) are an optional array of
structs, so that every case of `normalizePlaintext` is met inside another one; `MCReferences` writes an
own and a foreign name in every way there is.
The theorems of section 4 cover any number. Networks and signers
are symmetric, since nothing in the code tells two of them apart; nothing else is: programs differ
by their imports, and the liveness runs do not allow it.

**Deadlock** is checked in the runs of deployment, devnode and network: `StopIdle` and `NewProcess` are what a quiet system can
always do; a network manager can always `disconnectAll`. The others end: `execution` when every call has settled
(there `ExecutionsSettle` says that nothing stops earlier), `testing` when the setups are spent
(there `ContextsSettle` does), `startup` with the task, `compiler` and `bindings` with their bounds.

**Fairness.** `LiveSpec` of DeployTasks: a running task goes on or throws (the event loop runs
continuations, every wait has a timeout); the developer keeps running `deploy` (strong
fairness, as a run may be busy with something else in between); the chain decides on what it was sent and
reads catch up; and calls that could succeed do not fail for ever. The last is an assumption on
the network, and `MarkersResolved` is false without it. A task that returns
and one that throws may look the same to the state, so the assumption speaks of throws that
are not also progress. `LiveSpec` of DevnodeManager: continuations run and events are
delivered; a child told to stop dies (SIGKILL follows SIGTERM); the health check ends by its own
deadline; the drain timers fire. No fairness is assumed of close events, since a grandchild may
hold the pipes, which is why the timer is needed. `LiveSpec` of Execution: continuations run, an SDK
operation settles or traps, and polling ends by its deadline, which supposes that every single
`fetch` comes back (it has no timeout of its own, `connection.ts:1179`). Nothing is assumed of the chain.
`TaskLiveSpec` of TestTask: what the worker awaits settles, with or without an error (the devnode starts
or its health check times out, a connect has a timeout, factories and handlers return or throw). Nobody has to
call anything: a fixture function that never returns hangs its test, as in the code.

## 4. Proofs

`DeployProofs`, for all constants that satisfy the named assumptions (`LedgerAssumption`,
`StateAssumption`, `ManagerAssumption`, `TasksAssumption`; TLC evaluates them in every run):

- `TypeCorrect == Spec => []TypeOK`. `TypeOK` is not inductive: a record is well typed only if
  the marker it is recovered from has a real action. `TypeInv` adds that every marker on the
  list of a recovery is still there (`TodoMarked`), that a marker that exists has an action, and that an upgrade has a target.
- `MetadataCorrect == Spec => []RecordsMatchMetadata`. The inductive invariant is
  `SessionMatches` (a running task has validated `.network.json`, and a validated session agrees
  with it) and `DiskMatches` (a directory without `.network.json` has neither records nor
  history). The argument rests on the order of writes: `RecordWritesMatch` shows that any
  nonempty prefix of the writes of `record()` keeps it, because the metadata comes first.

The second half of that module, on top of `TypeInv` and `MetadataInv`, is about the chain:

- `CompleteAccepted` and `ChainNeverBehind`. The chain only grows: editions never fall, an accepted
  transaction stays so, what is visible is behind what is so (`LedgerInv`, `LedgerMonotone`). `JobInv` says
  what a running task knows of its transaction at each step, `BackedInv` that whatever is known of a program
  (its record on disk, in the session cache, in the hands of a task) is backed by the chain at the record's
  endpoint, and that a marker is of an edition not beyond the chain's. Facts about the chain need
  no argument about interleaving once it is known to grow.
- `BundleTrue`: `BundleInv` says that the records of a session are about its own endpoint, and that an
  ABI snapshot comes with an accepted transaction of its program there.
- `SnapshotTrue`: a complete record whose snapshot is of another transaction (`Torn`) is what a crash inside
  the `record()` of an upgrade leaves; then the marker is there still, the chain shows the upgrade, and the next
  recovery comes to it before anything else (`TornMarked`).
- `ImportsFirst` and `DeployComplete`: targets are closed under local imports, and what precedes a target in the
  order is on chain or recorded (`PlanInv`); what is done stays done, again because the chain grows.

`DevnodeProofs`, for any number of starts:

- `DevnodeTracked`, `DevnodeStopped` and `DevnodeRestoreOffline`. `DevnodeInv` says that until an event is `mistaken`
  the child with events to come is the tracked one, that the exit promise in hand is its own and unresolved, that
  resolved promises belong to children without events (`Tracking`), and that while a restore works nobody
  else starts a child, unless `overlapped` (`Restoring`). Both exceptions are needed (section 6): a late close event
  is harmless exactly as long as no newer child is tracked.
- `DevnodeStartOwn` has no exception; its invariant `OwnChild` speaks of one `start()` and its own exit promise.

`NetworkProofs`, for any networks, signers and number of connections:

- `NetworkOneOpen`, `NetworkAccounts` and `NetworkKeys`. `NetworkInv` says that a connect that has
  not returned owns the in-flight entry of its network and, until it settles, that the network has
  no registered connection (`PendingOwns`); that every open connection a caller has is registered,
  with its accounts cached (`GivenListed`); that the active one was given out (`ActiveOwns`); and
  for each connection that its accounts are exactly those of its map, which is empty once it is
  closed (`KeysOwned`). One open connection per network follows from the first two: a new one
  is made only when there is neither an in-flight entry nor a usable registered one.

`CallProofs`, of executions, for any calls, sinks and modes:

- `ExecutionTraps`, `ExecutionBlames`, `ExecutionConsole` and `ExecutionOutputs`. `ExecutionInv` says for
  each lock that tickets of waiting calls are distinct and not yet served, and that whoever is past
  the lock has the ticket being served (`TrapLocked`, `SinkLocked`); that the handlers installed and the
  pending operation are those of the running call (`TrapOwned`); that the state queries in a sink
  are those of the call that holds it (`SinkOwned`); that what was read of a transaction stays
  (`Confirmed`); and that the suppression count is the number of captures under way (`Counted`).

`TestProofs`, of the hook system, for any number of plugins, any of them factories, and any callers:

- `HookEveryHandlerRan`, and `HookCategoryShared`: the dispatcher implements `SingleFlight`. `HookInv` says that
  a factory that is awaited has not returned and belongs to a resolution, that a resolution without one has
  ended (`OneResolution`), and that a caller has run the first handlers and has all others before it
  (`InOrder`). The next factory exists because a set of numbers has a least member (`FirstExists`).
  The refinement maps each continuation to a step of the flight or a stutter (`ResolutionMaps`,
  `DispatchMaps`, `HandlerMaps`, `LeaveMaps`), over what a caller has been told (`View`).

The same module, for any contexts, programs, tests and bounds, of the task with its worker (`TaskSpec`):

- `TestNothingLeftBehind`: a devnode that is managed and a snapshot directory belong to a
  context with steps left to take (`Owned`).
- `TestSessionMatchesChain`, but for what a restore that is under way or has thrown left behind (`lost`): the
  one node that runs is the one that listens (`Listening`), nobody
  starts, stops or cleans up while somebody deploys (`Exclusive`); from the start of a teardown to its end the session is
  empty, and from the start of a devnode to the end of its setup it has nothing but what was lost (`Undisturbed`).
- `TestFixtureOnce`: calls since the last teardown other than the cached one came to undefined.
- `TestHooks`: the worker implements `HookSpec` (`TaskImplementsHooks`), so both theorems
  above hold of it. `TestSuiteHooksPaired` is about the task's own steps.

`CallProofs`, of generated bindings, for any calls, programs and transactions (`InstancesAssumption`,
`CallgraphsAssumption`) and any vector (`MaxLengthAssumption`). `ContractSpec` and `VectorSpec` are the
parts that `MCBindings` puts side by side:

- `OutcomesCorrect` and `HandlesCorrect`. `CallsInv` says of each call which transaction is its own and that
  the transaction's graph is the call's, what it may have been told (`Told`: an accepted status is of
  an accepted transaction, a local result of the machine), and that a status never changes again. The
  rest is about the pure part: which transition `selectAcceptedTransition` selects, and whom its outputs open for.
- `VectorCorrect`. `PlacesLive` says that every place a read may still ask for holds what was in the vector at
  some moment of the read, though the vector may be shorter by now: entries past the length are not written.

`WalkProofs`, lemmas about the walk of DepthFirst over any finite graph. `Visited` is a recursive function on
walks; that its recursion defines one is shown by gluing its parts together (`PartsAgree`,
`PartsJoined`, `AllCovered`, `VisitDefined`), since both calls are of walks that are deeper inside or have less before
them, and of those there is a lowest one in any set (`LowestWalk`). `WalkOrders` says that a walk that does not fail
extends an order by an order, by all that was before it and by nothing it is inside of; `NoCycleFound` and
`OrderedNotCyclic` that it does not fail on a graph whose nodes can be ordered. `Needs` has its own laws
(`NeedsUnrolled`, `NeedsAgree`). And lemmas about loops: one that ends wherever it starts is a function
(`LoopDefined`), and what each of its rounds keeps holds at its end (`LoopKeeps`).

`StartupProofs`, for any commands, projects and environments (`StartupAssumption`: words are tokens, a project has
finitely many plugin objects and lists finitely many imports, and its tasks are made with the task builder, which
refuses two arguments with one spelling):

- `LoadOrder`. `Collected` is a loop that meets a new object or has one less to visit (`CollectNextStep`), so it ends
  wherever it starts. `CollectInv` says of its state that what was met
  has ids of its own and that all that is needed was met or is still to be visited; so it ends with what is
  needed or on two objects with one id (`CollectedAll`). With the lemmas about the walk, an order is
  found exactly if there is one (`OrderResolved`), and `LoadInv` carries it through `main()`.
- `InputTakesEffect`. `MainInv` says of each stage of `main()` what it knows: the parse is that of the words, the tasks
  are those of the plugins in their order, the configuration is one that was resolved, the arguments are those the pipeline
  made of the parse (`MainBegins`, `MainKept`). The rest is about the functions, whose rounds keep an
  invariant each: the task that is named is found (`ScanInv`, `NamedIsFound`); an option that is typed once keeps its value to the
  end of the parse and through every pass of the pipeline (`ParseKeeps`, `BindInv`, `TypedReaches`, `TypedArrives`),
  whichever parse saw it; a backend that is typed with a value, after one dash or two, is the resolved one
  (`BackendTyped`), and a `--deploy-backend` without one is refused; and the imports of the user are there, in
  their order, once (`ExecutionResolved`, `ImportsTakeEffect`). Its hypothesis is `PluginImportsApart`: a plugin that lists
  imports for a program of the user's replaces the user's list (`mergePartial`).
- `WorkersResolveAlike`. A worker has the environment of its parent but for the variables that the test task sets, and these
  come to what the parent came to (`SameVariables`, `WorkerVariable`, `BackendSeeded`, `WorkerAgrees`). Its hypothesis is
  `VariablesApart`: a network whose private key is read from `LIONDEN_NETWORK`, say, resolves otherwise in a worker. An
  empty backend is refused by the test task (`readExplicitDeployBackend`) and so never reaches one.

`CompilerProofs`, for any project (`ProjectAssumption`, `CompilerAssumption`, `DeployAssumption`,
`ArtifactsAssumption`: finitely many ids are imported):

- `CompileOrder`, from `ProjectInv` (a project is one of the layouts with some of its texts) and the lemmas
  about the walk. What is filtered out of an order is one (`KeptMembers`).
- `CompileResultsFresh`, under two hypotheses: nobody edits while a compile runs (`EditWhileCompiling`,
  section 6), and no request renames a program to the id of another unit, nor two programs to one id (`RenamesApart`,
  section 6). It says of the artifacts of a unit that they are what would be built now unless the build directory is
  `torn`; the network dependencies and modules need no exception. That case is real (section 6), and the theorem
  shows that there is no other: whatever is removed, upgraded, compiled alone, under a rename, or cut short where no
  older cache entry is left, does no harm. `FilesInv` says that what is cached of a network was on it, `CacheInv` that
  an entry has one unit of the project behind it (`OwnEntry`) and that the build beside it is what it describes, but
  for torn ones; a build that stops before its entry is written is where the case comes from (`LeavesBuildKeeps`). `PackageInv` and `LoopInv` say of a compile under way that the packages hold
  the project as it is, that what is behind it in the order was hashed as what would be built now, and that the
  artifacts of what it compiled are those builds. The heart is `HashIsExpected`: the hash of a unit is the
  one of what would be built of it, since it covers the sources of all that is needed (`NeedsUnrolled`,
  `NeedsAgree`) and of the network dependencies. `Needs` is the least set closed under imports, so it is reasoned about
  without induction.
- `BackendBuiltAsRecorded`. `BackendInv` says that what was saved belongs to the request under way, and that there
  is one build between the directory's clearing and its reading.
- `ExecutionSources`. `Fetching` says of the walk over imports that it came to what it was asked for and to what
  the sources it read import, and to nothing else; it ends, since what can be imported is finite (`FetchesEnd`). `Seeding` says the
  same of the runtime imports so far, and that a source not read for its id is from a file that was named. That
  every source imports what is importable is `ImportsInv`, an invariant of the packages, builds and artifacts that no edit,
  interruption or backend breaks, with no hypothesis on edits or renames.

- `AbiSnapshotsStable`, for any programs with types nested to any depth (`AbiAssumption`: a reference stays one when it
  is written differently, a record has a path). `JsonTypesDefined` and `StorageTypesDefined` say that types by depth are
  what their recursion says, `NormalDefined` and `StorageDefined` the same of the parser, and `PlaintextStable` and
  `StorageStable`, by induction on the depth (`NatSteps`), that the JSON of a type is
  parsed into the JSON of a type, which is parsed into itself. The rest goes up from an input or output in each of
  the shapes (`ElementParsed`, `ParsedIoStable`) over functions and declarations to the ABI that comes of each Leo
  (`ParsedAbi`, `AbiParsed`), in which nothing differs between 4.2 and 4.3, and for 4.1 only what that version
  says otherwise: names of inputs, constant parameters and implemented interfaces (`RecentAgree`, `SharedAgree`). No record of the program's
  own names it (`OwnRecords`). Snapshots are parsed again where they are read (`deployment-state.ts:157`,
  `deployment-manager.ts:464`, `compiler.ts:394`).

**Only model-checked.** Liveness (`MarkersResolved`, `CallsSettle`, `ExecutionsSettle`, `ContextsSettle`) is
beyond the prover. `NamesDistinct` rests on what concatenation makes of strings, of which the prover knows nothing.
`LiteralsFaithful` is about recursive operators over trees of values, for which there is no induction. Both are functions
of their input: a run checks them in every initial state, and their mutants fail there. Other loops and trees are recursive
functions on an interval of numbers, for which induction is that a set of numbers has a least
member (`NatSteps`).

## 5. How to run

`tlc -config <run>.cfg <module>` for a run (`PROJECT.json` names the module of each) and `tlapm
<module>.tla` for the eight modules whose name ends in `Proofs`.

## 6. Where code and documentation disagree

`x_failed_restore`: `ctx.restore()` drops the session's records after `manager.restore()` has returned
(`test-context.ts:412-418`), so that "deploy() doesn't short-circuit on programs that no longer exist on-chain" (`:414`). But
the manager stops the node first (`devnode-manager.ts:562`): when the restore command or the start after it throws, the
records stay. A test that catches the error and gets a devnode at that address again has `deploy()` answered
from them. `SessionMatchesChain` is what holds: no other path leaves a record behind its ledger.

`x_shared_build`: a cache entry is named after the source and the renamed id (`compiler.ts:254`), the
build directory after the renamed id alone (`package-materializer.ts:25`). Compile `a` as `x`, `b` as
`x`, then `a` as `x` again: the third is a hit and gets the build of `b`. `docs/compiler.md:104`
says that renamed builds are cached separately.

Others met while modelling, which follow from the models but have no run of their own:

*Deployment*

- `--preflight` and `--dry-run` recover pending markers before the mode is looked at
  (`deploy-task.ts:231`), where `docs/deployment.md:91,93` says they write no deployment state
  (`CheckModesWriteNothing`);
- a disk-backed devnode is asked for cached records only (`deploy-task.ts:257`), so a complete record is
  overwritten by a degraded one, which `:374` says is for programs "with no state" (`CompleteNeverDegrades`);
- a marker left at one endpoint is recovered with the endpoint configured now
  (`deployment-manager.ts:585`), where `docs/deployment.md:262` says the marker's;
- an edition that cannot be read becomes 0 when a deploy is recovered (`deployment-manager.ts:533`),
  where `docs/deployment.md:185` says the observed one;
- after a crash between the record and its history entry, a read that lags discards the marker
  (`deployment-manager.ts:521`) and the event never reaches the history (`docs/deployment.md:173`);
- degraded and recovered records have an entry in the history and `historyCount` 0
  (`deployment-manager.ts:588`, `deployment-types.ts:28`);
- a read that does not show a program yet, then one that does, degrades its complete record on an
  HTTP network too (`deployment-manager.ts:313`);
- only HTTP networks have their directory compared with the endpoint (`deployment-manager.ts:206`): on a
  disk-backed devnode records of one endpoint serve a session at another, a bundle may hand out transactions
  of a chain it does not name, and a snapshot may be of another build than its record;
- after recovery has kept the marker of a confirmed upgrade (`deployment-manager.ts:560`), the same run
  of the upgrade overwrites it (`upgrade-task.ts:281`).

*Devnode and execution*

- a late close event of a child that was given up on, by the drain timer or after a failed spawn, clears the process of the
  one started since (`devnode-manager.ts:266`; `mistaken`), where `:182` says `isRunning` tells whether the devnode runs;
- a caller who starts the devnode while `restore()` awaits has it run beside the restore command (`overlapped`), where
  `:544` says that restore is an offline operation;
- a `start()` whose child died returns normally when another `start()` reset `_exitInfo` before it
  looked (`devnode-manager.ts:295`, `:207`);
- the failures attached to an `SdkExecutionError` (`sdk-diagnostics.ts:163`) may include a broadcast of another
  call on the same sink, which holds no lock (`connection.ts:510`), where `sdk-diagnostics.ts:118` says
  "so only failures from this call are attributed"; the request the message names is never one of those.

*Startup and tests*

- the argument pipeline is not idempotent, as `task-runner.ts:138` has it: `_positional` is kept;
- `deploy-backend-arg.ts:13-17` lists "every spelling the parser accepts", but the parser takes one dash too
  (`task-dispatch.ts:64`): `-deploy-backend` without a value is not refused and falls through to the environment and the configuration;
- an option is not "classified the same whether it appears before or after the task id"
  (`task-dispatch.ts:34`): the first parse does not know the options of tasks;
- a variadic positional given by name drops the bare words: `test --files x y` runs `x` only;
- a fixture whose function returns undefined is executed again (`fixtures.ts:46`), and one that was rejected stays rejected
  until it is cleared;
- `teardown()` of one context disconnects the others, and neither it nor `restore()` waits for a
  deployment in flight.

*Compiler, keys, bindings*

- compile accepts a rename to the id of a unit that another one needs; what it returns then depends
  on the order (`deploy-orchestration.contract.test.ts:316` keeps the deploy task's leniency);
- compiler flags affect a build and are not in its hash ("all inputs", `cache.ts:6`);
- an edit during a compile is cached under the hash of the text before or after it
  (`EditWhileCompiling`);
- a build that stops before `writeCache` (`compiler.ts:329`) leaves its product beside the older entry, which is then a
  hit for it (`:279`; `torn`): an edit, an interrupted compile and a revert serve the reverted text's successor; and with
  no edit at all, compile for testnet, interrupt a compile for a devnode after its build, compile for testnet
  again, and the program linked against the devnode's dependencies is served. `cache.ts:15-19` says that the hash "invalidates" on a
  switch of network, and `package-materializer.ts:34` that `build/` has what the cache expects. The Leo
  CLI's own build for a deployment (`DeployBackends`) leaves the same after an edit;
- the comment that a parsed ABI is the same whatever Leo wrote it (`abi-parser.ts:45-46`) is true of 4.2 and later; 4.1 differs
  in names of inputs and in what it has no field for;
- the imports hash of a key sidecar (of paths) and that of an execution (of program ids) agree on
  the empty list only, so the keys of a program with imports are never used;
- "stale lowered entries beyond the logical length are never read" (`contract-wrapper.ts:1939`) is
  false when a pop falls between the requests; what is read was in the vector when the read began,
  which is what `VectorElementsLive` says;
- own types `math::Foo` and `Math_Foo` get one TypeScript name; `NamesDistinct` speaks of programs
  whose own names differ;
- `locally` reports every failure but a missing connection as `LocalTransitionError`, and a `TransitionSubmissionError`
  may hide a transaction that was sent; a record read by its id alone has its name unchecked.

## 7. Plan

1. **Proofs**: the literals of bindings, over values of bounded depth as functions.
2. **Abstract specifications**: a deployment store in which `record` is atomic, implemented by
   DeployTasks up to crashes; the recipe task; two processes on one directory; a devnode that is up or down; `createTestLre()` and the connect of a
   network as further instances of `SingleFlight`.
3. **Connection**: reads of the chain, the persistence of keys under the cache path.
4. **Compositions**: TestContext on DevnodeManager itself; DeployTasks on Compiler and DeployBackends.

## 8. Not modelled

- *recipe task*: a user's script that calls the deploy task and `execute()`; it has no state of its own.
- *key artifacts* (`core/key-artifacts.ts`): reads, checks and atomically writes small JSON files;
  what is decided by them is in Compiler and ExecutionArtifacts.
- *node task*: a caller of `DevnodeManager`, whose callers may do what it does.
- *project generator*, *test internals*: copying of templates; fakes for the repository's own tests.
- The text of generated modules, of errors, logs and help, which golden files keep, and
  `__goldens__/base-contract.ts`, which is such a file.
- Two processes at once, on a deployments directory or on a build directory. The code has no lock.
- The adapters to the SDK (`sdk-adapter.ts`) beyond the making of objects and locks: wiring of a library.
