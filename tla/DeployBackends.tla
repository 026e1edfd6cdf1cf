--------------------------- MODULE DeployBackends ---------------------------
(***************************************************************************)
(* How a deploy or upgrade transaction is made                             *)
(* (plugin-deploy/src/deploy-backend/): by the SDK from the bytecode that  *)
(* will be recorded, or by the Leo CLI from the package the compiler left  *)
(* in .build/, which Leo may compile again.                                *)
(*                                                                         *)
(* One program of one task at a time, on the files of Compiler.  Compile   *)
(* and deploy are commands of one user; they do not overlap.               *)
(***************************************************************************)
EXTENDS Compiler

CONSTANTS
  DeployRequests,   \* what is deployed, where, how, and signed with which keys
  Substrings        \* Substrings[id]: the ids that are a substring of id

(* "disk" is the key of the project's .env, which no task hands over.      *)
ASSUME DeployAssumption ==
  \A r \in DeployRequests :
    /\ r.program \in Ids \ {"unreadable"}
    /\ "disk" \notin {r.signerPrivateKey, r.privateKey}

VARIABLES
  deploy,    \* the request and how far its backend is
  saveDir    \* the files Leo saved: [name, tx], or {} with no directory

backendVars == <<deploy, saveDir>>

(* The files of the --save directory that are no transaction of Leo's are  *)
(* Unreadable: empty, cut short, not JSON, not of type deploy.             *)
Unreadable == [program |-> "unreadable"]
NoFiles == {}
Idle == [stage |-> "idle"]
Deploying == deploy.stage # "idle"

BackendInit == Init /\ deploy = Idle /\ saveDir = NoFiles

-----------------------------------------------------------------------------
(* Step 0 of deployAction and upgradeAction: refused before anything runs  *)

(* The version of the binary counts, not config.leoVersion alone.          *)
supportsLeoDeployBackend(v) == v \in {"4.3", "4.4"}

assertDeployBackendCompatible(r) ==
  r.provider = "leo" =>
    /\ ~r.sdkEgress /\ ~r.apiKey
    /\ supportsLeoDeployBackend(leoVersion)

buildWithoutBroadcast(r) == r.provider = "leo" \/ r.connection = "devnode"

Preflight(r) ==
  /\ assertDeployBackendCompatible(r)
  /\ r.dryRun => buildWithoutBroadcast(r)

effectiveKey(r) == IF r.signerPrivateKey # "none" THEN r.signerPrivateKey ELSE r.privateKey

-----------------------------------------------------------------------------
(* The SDK backend: built from the source that is handed to it, with the   *)
(* devnode's shortcut unless proofs are asked for.  An HTTP deploy is sent *)
(* by the call that builds it.                                             *)

SdkTransaction(r, product) ==
  [program |-> r.program, product |-> product, signer |-> effectiveKey(r),
   proven |-> r.connection = "http" \/ r.prove]

SdkKind(r) ==
  IF r.connection = "http" /\ r.operation = "deploy" THEN "broadcast" ELSE "built"

SdkBuilds(r) ==
  /\ r.provider = "sdk" /\ Preflight(r) /\ effectiveKey(r) # "none"
  /\ \E a \in artifact[r.program] :
       deploy' = [stage |-> "returned", request |-> r, source |-> a.product, kind |-> SdkKind(r),
                  tx |-> SdkTransaction(r, a.product)]
  /\ UNCHANGED <<saveDir, build, torn>>

-----------------------------------------------------------------------------
(* The Leo backend                                                         *)

(* A skip matches every program that contains it.                          *)
assertNoSkipCollision(r) == r.localDependencyIds \cap Substrings[r.program] = {}

(* Every local program that is needed is deployed on its own.              *)
buildLeoArgv(r) ==
  [skip |-> r.localDependencyIds,
   skipDeployCertificate |-> r.connection = "devnode" /\ ~r.prove]

buildLeoEnv(r) == [PRIVATE_KEY |-> effectiveKey(r)]

(* resolveLeoPackage(): the package, a build in it, and the artifact that  *)
(* will be recorded are one program.                                       *)
resolveLeoPackage(r, a) ==
  /\ package[r.program] # {}
  /\ a.product \in build[r.program]

(* From the call to the spawn.                                             *)
LeoSpawns(r) ==
  /\ r.provider = "leo" /\ Preflight(r)
  /\ effectiveKey(r) # "none"
  /\ assertNoSkipCollision(r)
  /\ \E a \in artifact[r.program] :
       /\ resolveLeoPackage(r, a)
       /\ deploy' = [stage |-> "running", request |-> r, source |-> a.product, timedOut |-> FALSE]
  /\ UNCHANGED <<saveDir, build, torn>>

(* The timer of the runner: Leo is told to end, then killed.               *)
LeoTimesOut ==
  /\ deploy.stage = "running" /\ ~deploy.timedOut
  /\ deploy' = [deploy EXCEPT !.timedOut = TRUE]
  /\ UNCHANGED <<saveDir, build, torn>>

(* leo deploy (external): saves a transaction for the package and for each *)
(* program it needs that no skip matches.  Without a PRIVATE_KEY it would  *)
(* take the one in the project's .env.                                     *)
LeoSaves(r, b) ==
  LET argv == buildLeoArgv(r)
      env == buildLeoEnv(r)
      needed == {unitId(g) : g \in {h \in ToSet(b.package.local) : kind[h] = "program"}}
      kept == {id \in needed \cup {r.program} : argv.skip \cap Substrings[id] = {}}
      Tx(id) == [program |-> id, product |-> b, proven |-> ~argv.skipDeployCertificate,
                 signer |-> IF env.PRIVATE_KEY = "none" THEN "disk" ELSE env.PRIVATE_KEY]
  IN  {[name |-> id, tx |-> Tx(id)] : id \in kept}

(* It compiles the package first if its sources are newer than its build.  *)
LeoExits(exit) ==
  /\ deploy.stage = "running"
  /\ LET r == deploy.request
     IN  \E b \in build[r.program] \cup {Product(package, r.program)} :
           /\ LeavesBuild(r.program, {b})
           /\ saveDir' \in {NoFiles, LeoSaves(r, b), {[name |-> r.program, tx |-> Unreadable]}}
  /\ deploy' = [stage |-> "exited", request |-> deploy.request, source |-> deploy.source,
                timedOut |-> deploy.timedOut, exit |-> exit,
                before |-> build[deploy.request.program]]

(* The binary is not there: the runner rejects, and the directory is       *)
(* removed.                                                                *)
LeoNotSpawned ==
  /\ deploy.stage = "running"
  /\ deploy' = Idle /\ saveDir' = NoFiles /\ UNCHANGED <<build, torn>>

(* A deployment that declares the program, and nothing Unreadable.         *)
verifySavedTransaction(tx, id) == tx.program = id

(* readLeoOutcome(): the exit code says nothing of success.  One file,     *)
(* named for the program, that is a deployment of it.                      *)
readLeoOutcome(exit, id) ==
  /\ exit = "zero"
  /\ \E f \in saveDir : saveDir = {f} /\ f.name = id /\ verifySavedTransaction(f.tx, id)

assertPackageUnchanged_Trusting(before, id) == TRUE

(* Did Leo compile the program again, to something else?                   *)
assertPackageUnchanged(before, id) == build[id] = before

LeoSucceeded ==
  /\ ~deploy.timedOut
  /\ readLeoOutcome(deploy.exit, deploy.request.program)
  /\ assertPackageUnchanged(deploy.before, deploy.request.program)

(* Whatever comes of it, the directory is removed.                         *)
LeoReturns ==
  /\ deploy.stage = "exited"
  /\ IF LeoSucceeded
     THEN deploy' = [stage |-> "returned", request |-> deploy.request, source |-> deploy.source,
                     kind |-> "built", tx |-> (CHOOSE f \in saveDir : TRUE).tx]
     ELSE deploy' = Idle
  /\ saveDir' = NoFiles /\ UNCHANGED <<build, torn>>

(* The task goes on with the transaction, or with the error.               *)
DeployContinues ==
  /\ deploy.stage = "returned"
  /\ deploy' = Idle /\ UNCHANGED <<saveDir, build, torn>>

BackendStep ==
  /\ \/ LeoNotSpawned \/ LeoTimesOut \/ LeoReturns \/ DeployContinues
     \/ \E exit \in {"zero", "failure"} : LeoExits(exit)
  /\ UNCHANGED compiles

DeployBegins ==
  /\ ~Deploying /\ ~Compiling /\ compiles < MaxCompiles
  /\ compiles' = compiles + 1
  /\ \E r \in DeployRequests : SdkBuilds(r) \/ LeoSpawns(r)

BackendNext ==
  \/ /\ DeployBegins \/ BackendStep
     /\ UNCHANGED <<projectVars, package, hash, netDep, outputVars, opts, order, loopVars>>
  \/ ~Deploying /\ Next /\ UNCHANGED backendVars

BackendSpec == BackendInit /\ [][BackendNext]_<<vars, backendVars>>

-----------------------------------------------------------------------------
(* Properties                                                              *)

(* A transaction that a backend hands to the task is one deployment of the *)
(* program that was asked for, of the very bytecode the task will record,  *)
(* signed by the account the task chose and with real proofs wherever the  *)
(* network wants them; whatever was edited, interrupted or recompiled      *)
(* since, and whatever Leo says of its success.  A dry run sends nothing.  *)
BuiltAsRecorded ==
  deploy.stage = "returned" =>
    LET r == deploy.request
    IN  /\ deploy.tx.program = r.program /\ deploy.tx.product = deploy.source
        /\ deploy.tx.signer # "disk"
        /\ r.signerPrivateKey # "none" => deploy.tx.signer = r.signerPrivateKey
        /\ r.connection = "http" => deploy.tx.proven
        /\ r.dryRun => deploy.kind = "built"
        /\ saveDir = NoFiles

=============================================================================
