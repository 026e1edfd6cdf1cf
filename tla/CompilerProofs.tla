--------------------------- MODULE CompilerProofs ---------------------------
(***************************************************************************)
(* Proofs about compile, the deploy backends and what an execution is      *)
(* given, for any project, network, request and bound.                     *)
(***************************************************************************)
EXTENDS DeployBackends, ExecutionArtifacts, AbiParser, WalkProofs

(* .build/<id>/build/ holds one build or none.                             *)
OneBuild ==
  /\ DOMAIN build = Ids
  /\ \A id \in Ids : \A b, c \in build[id] : b = c

(* What Leo saved, and the build it saved it from, which is the one in the *)
(* package now.                                                            *)
Saved(r) ==
  \E b \in build[r.program] :
    saveDir \in {NoFiles, LeoSaves(r, b), {[name |-> r.program, tx |-> Unreadable]}}

(* The directory of Leo's transactions is there between the spawn and the  *)
(* return only; the package Leo was started on held a build of the source  *)
(* that will be recorded.                                                  *)
BackendInv ==
  /\ OneBuild
  /\ deploy.stage \in {"idle", "running", "exited", "returned"}
  /\ deploy.stage \in {"idle", "running"} => saveDir = NoFiles
  /\ deploy.stage \in {"running", "exited"} =>
       deploy.request \in DeployRequests /\ effectiveKey(deploy.request) # "none"
  /\ deploy.stage = "running" =>
       deploy.source \in build[deploy.request.program]
  /\ deploy.stage = "exited" => deploy.before = {deploy.source} /\ Saved(deploy.request)
  /\ BuiltAsRecorded

-----------------------------------------------------------------------------
(* No step of compile leaves two builds in one package.                    *)
LEMMA CompileKeepsOneBuild ==
  ASSUME OneBuild, Next
  PROVE  OneBuild'
<1>1. \A o : MaterializeCut(o) => OneBuild'
  BY DEF OneBuild, MaterializeCut, LeavesBuild
<1>2. CASE BuildReturns
  BY <1>2 DEF OneBuild, BuildReturns, Built
<1>3. CASE CompileThrows
  BY <1>3 DEF OneBuild, CompileThrows, LeavesBuild, BuildStays
<1>4. CASE BuildCut
  BY <1>4 DEF OneBuild, BuildCut, Built, LeavesBuild, BuildStays
<1>5. CASE Clean
  BY <1>5 DEF OneBuild, Clean
<1>6. \A o : CompileBegins(o) => UNCHANGED build
  BY DEF CompileBegins
<1>7. LinkNetworkDependency \/ Linked \/ CompileUnit \/ CompileReturns \/ BindingsThrow \/ Return \/ Change
        => UNCHANGED build
  BY DEF LinkNetworkDependency, Linked, CompileUnit, CompileReturns, BindingsThrow, Return, Change, buildVars
<1>8. UNCHANGED build => OneBuild'
  BY DEF OneBuild
<1> QED
  BY <1>1, <1>2, <1>3, <1>4, <1>5, <1>6, <1>7, <1>8 DEF Next

LEMMA BackendInitial == BackendInit => BackendInv
  BY DEF BackendInit, Init, BackendInv, OneBuild, Idle, BuiltAsRecorded

LEMMA DeployBeginsKeeps ==
  ASSUME BackendInv, DeployBegins
  PROVE  BackendInv'
<1>1. PICK r \in DeployRequests : SdkBuilds(r) \/ LeoSpawns(r)
  BY DEF DeployBegins
<1>2. deploy.stage = "idle" /\ saveDir' = NoFiles /\ OneBuild'
  BY <1>1 DEF DeployBegins, Deploying, BackendInv, OneBuild, SdkBuilds, LeoSpawns
<1>3. CASE SdkBuilds(r)
  <2>1. PICK a \in artifact[r.program] :
          deploy' = [stage |-> "returned", request |-> r, source |-> a.product, kind |-> SdkKind(r),
                     tx |-> SdkTransaction(r, a.product)]
    BY <1>3 DEF SdkBuilds
  <2>2. /\ deploy'.stage = "returned" /\ deploy'.request = r /\ deploy'.source = a.product
        /\ deploy'.kind = SdkKind(r) /\ deploy'.tx = SdkTransaction(r, a.product)
    BY <2>1
  <2>3. r.dryRun => SdkKind(r) = "built"
    BY <1>3 DEF SdkBuilds, Preflight, buildWithoutBroadcast, SdkKind
  <2>4. /\ effectiveKey(r) # "disk"
        /\ r.signerPrivateKey # "none" => effectiveKey(r) = r.signerPrivateKey
    BY <1>1, DeployAssumption DEF effectiveKey
  <2>5. /\ SdkTransaction(r, a.product).program = r.program
        /\ SdkTransaction(r, a.product).product = a.product
        /\ SdkTransaction(r, a.product).signer = effectiveKey(r)
    BY DEF SdkTransaction
  <2>6. r.connection = "http" => SdkTransaction(r, a.product).proven
    BY Zenon DEF SdkTransaction
  <2>7. BuiltAsRecorded'
    BY <1>2, <2>2, <2>3, <2>4, <2>5, <2>6 DEF BuiltAsRecorded
  <2> QED
    BY <1>2, <2>2, <2>7 DEF BackendInv
<1>4. CASE LeoSpawns(r)
  BY <1>2, <1>4 DEF LeoSpawns, BackendInv, BuiltAsRecorded, resolveLeoPackage
<1> QED
  BY <1>1, <1>3, <1>4

LEMMA LeoExitsKeeps ==
  ASSUME BackendInv, NEW exit, LeoExits(exit)
  PROVE  BackendInv'
<1> DEFINE r == deploy.request
<1>1. PICK b : /\ build' = [build EXCEPT ![r.program] = {b}]
               /\ saveDir' \in {NoFiles, LeoSaves(r, b), {[name |-> r.program, tx |-> Unreadable]}}
  BY DEF LeoExits, LeavesBuild
<1>2. /\ deploy.stage = "running" /\ deploy'.stage = "exited"
      /\ deploy'.request = r /\ deploy'.source = deploy.source
      /\ deploy'.before = build[r.program]
  BY DEF LeoExits
<1>3. r \in DeployRequests /\ r.program \in Ids /\ effectiveKey(r) # "none"
  BY <1>2, DeployAssumption DEF BackendInv
<1>4. deploy'.before = {deploy.source}
  BY <1>2, <1>3 DEF BackendInv, OneBuild
<1>5. OneBuild' /\ b \in build'[r.program]
  BY <1>1, <1>3 DEF BackendInv, OneBuild
<1>6. Saved(r)'
  BY <1>1, <1>2, <1>5 DEF Saved, LeoSaves, buildLeoArgv, buildLeoEnv, effectiveKey
<1> QED
  BY <1>2, <1>3, <1>4, <1>5, <1>6 DEF BackendInv, BuiltAsRecorded

LEMMA LeoReturnsKeeps ==
  ASSUME BackendInv, LeoReturns
  PROVE  BackendInv'
<1> DEFINE r == deploy.request
<1>1. deploy.stage = "exited" /\ saveDir' = NoFiles /\ OneBuild'
  BY DEF LeoReturns, BackendInv, OneBuild
<1>2. CASE ~LeoSucceeded
  BY <1>1, <1>2 DEF LeoReturns, BackendInv, BuiltAsRecorded, Idle
<1>3. CASE LeoSucceeded
  <2>1. PICK f \in saveDir : saveDir = {f} /\ f.name = r.program /\ f.tx.program = r.program
    BY <1>3 DEF LeoSucceeded, readLeoOutcome, verifySavedTransaction
  <2>2. PICK b \in build[r.program] :
          saveDir \in {NoFiles, LeoSaves(r, b), {[name |-> r.program, tx |-> Unreadable]}}
    BY <1>1 DEF BackendInv, Saved
  <2>3. r \in DeployRequests /\ r.program \in Ids /\ r.program # "unreadable" /\ effectiveKey(r) # "none"
    BY <1>1, DeployAssumption DEF BackendInv
  <2>4. b = deploy.source
    BY <1>1, <1>3 DEF BackendInv, LeoSucceeded, assertPackageUnchanged
  <2>5. f \in LeoSaves(r, b)
    BY <2>1, <2>2, <2>3 DEF NoFiles, Unreadable
  <2> DEFINE skip == buildLeoArgv(r).skipDeployCertificate
             key == buildLeoEnv(r).PRIVATE_KEY
             Tx(n) == [program |-> n, product |-> b, proven |-> ~skip,
                       signer |-> IF key = "none" THEN "disk" ELSE key]
  <2>6. PICK name : f = [name |-> name, tx |-> Tx(name)]
    BY <2>5, Zenon DEF LeoSaves
  <2>7. key = effectiveKey(r)
    BY DEF buildLeoEnv
  <2>8. \A n : Tx(n).product = b /\ Tx(n).signer = effectiveKey(r)
    BY <2>3, <2>7
  <2>9. r.connection = "http" => ~skip
    BY Zenon DEF buildLeoArgv
  <2>10. \A n : r.connection = "http" => Tx(n).proven
    BY <2>9, Zenon
  <2> HIDE DEF Tx
  <2>11. f.tx = Tx(name)
    BY <2>6
  <2>12. /\ effectiveKey(r) # "disk"
         /\ r.signerPrivateKey # "none" => effectiveKey(r) = r.signerPrivateKey
    BY <2>3, DeployAssumption DEF effectiveKey
  <2>13. deploy' = [stage |-> "returned", request |-> r, source |-> deploy.source,
                    kind |-> "built", tx |-> f.tx]
    BY <1>3, <2>1 DEF LeoReturns
  <2>14. BuiltAsRecorded'
    BY <1>1, <2>1, <2>4, <2>8, <2>10, <2>11, <2>12, <2>13 DEF BuiltAsRecorded
  <2> QED
    BY <1>1, <2>13, <2>14 DEF BackendInv
<1> QED
  BY <1>2, <1>3

LEMMA BackendStepKeeps ==
  ASSUME BackendInv, BackendStep
  PROVE  BackendInv'
<1>1. LeoNotSpawned \/ DeployContinues => BackendInv'
  BY DEF LeoNotSpawned, DeployContinues, BackendInv, OneBuild, BuiltAsRecorded, Idle
<1>2. CASE LeoTimesOut
  <2>1. /\ deploy.stage = "running" /\ deploy'.stage = "running" /\ deploy'.request = deploy.request
        /\ deploy'.source = deploy.source /\ saveDir' = saveDir /\ build' = build
    BY <1>2 DEF LeoTimesOut
  <2> QED
    BY <2>1 DEF BackendInv, OneBuild, BuiltAsRecorded
<1> QED
  BY <1>1, <1>2, LeoExitsKeeps, LeoReturnsKeeps DEF BackendStep

(* A transaction that either backend hands to the deploy task is one       *)
(* deployment of the bytecode that will be recorded, signed by the account *)
(* the task chose, with real proofs on a network: for any project and any  *)
(* requests.                                                               *)
THEOREM BackendBuiltAsRecorded == BackendSpec => []BuiltAsRecorded
<1>1. BackendInv /\ [BackendNext]_<<vars, backendVars>> => BackendInv'
  <2> SUFFICES ASSUME BackendInv, [BackendNext]_<<vars, backendVars>>
               PROVE  BackendInv'
    OBVIOUS
  <2>1. CASE DeployBegins
    BY <2>1, DeployBeginsKeeps
  <2>2. CASE BackendStep
    BY <2>2, BackendStepKeeps
  <2>3. CASE ~Deploying /\ Next /\ UNCHANGED backendVars
    <3>1. OneBuild'
      BY <2>3, CompileKeepsOneBuild DEF BackendInv
    <3> QED
      BY <2>3, <3>1 DEF Deploying, BackendInv, backendVars, BuiltAsRecorded
  <2>4. CASE UNCHANGED <<vars, backendVars>>
    BY <2>4 DEF vars, buildVars, backendVars, BackendInv, OneBuild, BuiltAsRecorded, Saved, LeoSaves,
                buildLeoArgv, buildLeoEnv, effectiveKey
  <2> QED
    BY <2>1, <2>2, <2>3, <2>4 DEF BackendNext
<1>2. BackendInv => BuiltAsRecorded
  BY DEF BackendInv
<1> QED
  BY <1>1, <1>2, BackendInitial, PTL DEF BackendSpec

-----------------------------------------------------------------------------
(* What is kept of a list                                                  *)

KeptUpto(s, S, n, U) ==
  U = [i \in 0 .. n |->
         IF i = 0 THEN <<>>
         ELSE IF s[i] \in S THEN Append(U[i - 1], s[i]) ELSE U[i - 1]]

(* The recursion over the indices of s defines a function.                 *)
LEMMA KeptDefined ==
  ASSUME NEW s, NEW S, NEW n \in Nat
  PROVE  \E U : KeptUpto(s, S, n, U)
<1> DEFINE Undefined == {m \in Nat : ~ \E U : KeptUpto(s, S, m, U)}
<1>1. 0 \notin Undefined
  <2>1. KeptUpto(s, S, 0, [i \in 0 .. 0 |-> <<>>])
    BY DEF KeptUpto
  <2> QED
    BY <2>1
<1>2. ASSUME NEW m \in Nat, m \notin Undefined
      PROVE  m + 1 \notin Undefined
  <2>1. PICK U : KeptUpto(s, S, m, U)
    BY <1>2
  <2> DEFINE V == [i \in 0 .. m + 1 |->
                     IF i <= m THEN U[i]
                     ELSE IF s[i] \in S THEN Append(U[i - 1], s[i]) ELSE U[i - 1]]
  <2>2. \A i \in 0 .. m : U[i] = IF i = 0 THEN <<>>
                                 ELSE IF s[i] \in S THEN Append(U[i - 1], s[i]) ELSE U[i - 1]
    BY <2>1 DEF KeptUpto
  <2>3. \A i \in 0 .. m + 1 : V[i] = IF i = 0 THEN <<>>
                                     ELSE IF s[i] \in S THEN Append(V[i - 1], s[i]) ELSE V[i - 1]
    BY <2>2
  <2>4. KeptUpto(s, S, m + 1, V)
    BY <2>3 DEF KeptUpto
  <2> QED
    BY <2>4
<1>3. Undefined = {}
  <2> SUFFICES ASSUME Undefined # {}
               PROVE  FALSE
    OBVIOUS
  <2>1. Undefined \in SUBSET Nat
    OBVIOUS
  <2> HIDE DEF Undefined
  <2>2. PICK m \in Undefined : \A k \in Undefined : m <= k
    BY <2>1, LeastNumber
  <2>3. m - 1 \in Nat /\ m - 1 \notin Undefined
    BY <1>1, <2>1, <2>2
  <2> QED
    BY <1>2, <2>1, <2>2, <2>3
<1> QED
  BY <1>3

(* A sublist has the members it keeps; of an order it is an order, when    *)
(* what is kept has its dependencies.                                      *)
LEMMA KeptUptoOrdered ==
  ASSUME NEW X, NEW s \in Seq(X), NEW S, NEW U, KeptUpto(s, S, Len(s), U), NEW i \in 0 .. Len(s)
  PROVE  /\ U[i] \in Seq(X) /\ ToSet(U[i]) = {s[j] : j \in 1 .. i} \cap S
         /\ \A deps : Ordered(deps, s, ToSet(s)) /\ (\A h \in ToSet(s) \cap S : deps[h] \subseteq S) =>
              Ordered(deps, U[i], ToSet(U[i]))
<1> DEFINE P(k) ==
      /\ U[k] \in Seq(X) /\ ToSet(U[k]) = {s[j] : j \in 1 .. k} \cap S
      /\ \A deps : Ordered(deps, s, ToSet(s)) /\ (\A h \in ToSet(s) \cap S : deps[h] \subseteq S) =>
           Ordered(deps, U[k], ToSet(U[k]))
    Bad == {k \in 0 .. Len(s) : ~ P(k)}
<1>1. \A k \in 0 .. Len(s) : U[k] = IF k = 0 THEN <<>>
                                    ELSE IF s[k] \in S THEN Append(U[k - 1], s[k]) ELSE U[k - 1]
  BY DEF KeptUpto
<1>2. P(0)
  <2>1. U[0] = <<>> /\ ToSet(U[0]) = {} /\ Len(s) \in Nat
    BY <1>1 DEF ToSet
  <2>2. \A deps : Ordered(deps, <<>>, {})
    BY DEF Ordered, IsInjective, ToSet
  <2>3. <<>> \in Seq(X) /\ {s[j] : j \in 1 .. 0} \cap S = {}
    OBVIOUS
  <2>4. \A deps : Ordered(deps, U[0], ToSet(U[0]))
    BY <2>1, <2>2
  <2> QED
    BY <2>1, <2>3, <2>4
<1>3. ASSUME NEW k \in 0 .. Len(s), k # 0, P(k - 1)
      PROVE  P(k)
  <2>1. k \in 1 .. Len(s) /\ k \in DOMAIN s /\ s[k] \in X /\ k - 1 \in 0 .. Len(s)
    BY <1>3
  <2>2. {s[j] : j \in 1 .. k} = {s[j] : j \in 1 .. k - 1} \cup {s[k]}
    BY <2>1
  <2>3. CASE s[k] \notin S
    BY <1>1, <1>3, <2>1, <2>2, <2>3
  <2>4. CASE s[k] \in S
    <3>1. U[k] = Append(U[k - 1], s[k])
      BY <1>1, <1>3, <2>4
    <3>2. U[k] \in Seq(X) /\ ToSet(U[k]) = ToSet(U[k - 1]) \cup {s[k]}
      BY <1>3, <2>1, <3>1, AppendAll
    <3>3. ASSUME NEW deps, Ordered(deps, s, ToSet(s)), \A h \in ToSet(s) \cap S : deps[h] \subseteq S
          PROVE  Ordered(deps, U[k], ToSet(U[k]))
      <4>1. s[k] \in ToSet(s)
        BY <2>1 DEF ToSet
      <4>2. deps[s[k]] \subseteq ToSet(U[k - 1])
        BY <1>3, <2>1, <2>4, <3>3, <4>1 DEF Ordered
      <4>3. s[k] \notin ToSet(U[k - 1])
        BY <1>3, <2>1, <3>3 DEF Ordered, IsInjective
      <4>4. Ordered(deps, U[k - 1], ToSet(U[k - 1]))
        BY <1>3, <3>3
      <4> QED
        BY <3>1, <3>2, <4>2, <4>3, <4>4, OrderedGrows
    <3>4. ToSet(U[k]) = {s[j] : j \in 1 .. k} \cap S
      BY <1>3, <2>2, <2>4, <3>2
    <3> QED
      BY <3>2, <3>3, <3>4
  <2> QED
    BY <2>3, <2>4
<1>4. Bad = {}
  <2> SUFFICES ASSUME Bad # {}
               PROVE  FALSE
    OBVIOUS
  <2> HIDE DEF P
  <2>1. Bad \in SUBSET Nat
    OBVIOUS
  <2>2. PICK k \in Bad : \A m \in Bad : k <= m
    <3> HIDE DEF Bad
    <3> QED BY <2>1, LeastNumber
  <2>3. k # 0 /\ k \in 0 .. Len(s)
    BY <1>2, <2>2
  <2>4. k - 1 \notin Bad
    BY <2>1, <2>2, <2>3
  <2>5. P(k - 1)
    BY <2>3, <2>4
  <2> QED
    BY <1>3, <2>2, <2>3, <2>5
<1> QED
  BY <1>4

LEMMA KeptMembers ==
  ASSUME NEW X, NEW s \in Seq(X), NEW S
  PROVE  /\ Kept(s, S) \in Seq(X) /\ ToSet(Kept(s, S)) = ToSet(s) \cap S
         /\ \A deps : Ordered(deps, s, ToSet(s)) /\ (\A h \in ToSet(s) \cap S : deps[h] \subseteq S) =>
              Ordered(deps, Kept(s, S), ToSet(Kept(s, S)))
<1> DEFINE U == CHOOSE W : KeptUpto(s, S, Len(s), W)
<1>1. KeptUpto(s, S, Len(s), U)
  BY KeptDefined
<1>2. Kept(s, S) = U[Len(s)]
  BY DEF Kept, KeptUpto
<1>3. {s[j] : j \in 1 .. Len(s)} = ToSet(s)
  BY DEF ToSet
<1>4. Len(s) \in 0 .. Len(s)
  OBVIOUS
<1> HIDE DEF U
<1>5. /\ U[Len(s)] \in Seq(X) /\ ToSet(U[Len(s)]) = {s[j] : j \in 1 .. Len(s)} \cap S
      /\ \A deps : Ordered(deps, s, ToSet(s)) /\ (\A h \in ToSet(s) \cap S : deps[h] \subseteq S) =>
           Ordered(deps, U[Len(s)], ToSet(U[Len(s)]))
  BY <1>1, <1>4, KeptUptoOrdered
<1> QED
  BY <1>2, <1>3, <1>5

-----------------------------------------------------------------------------
(* What compile has done                                                   *)

(* No program is renamed to the id of another unit, and no two to one id.  *)
RenamesApart ==
  \A r \in Requests : r.rename # "none" =>
    /\ \A f \in Folders : r.rename = unitId(f) => f = r.program
    /\ \A q \in Requests : q.rename = r.rename => q.program = r.program

(* The project is one of the layouts with some of its texts.               *)
ProjectInv ==
  \E l \in Layouts :
    /\ dirs = l.dirs /\ DOMAIN source = ToSet(l.dirs)
    /\ \A f \in ToSet(l.dirs) : source[f] \in Texts[f] \cup {l.text[f]}

(* What is cached of a network was on it.                                  *)
FilesInv ==
  /\ DOMAIN package = Ids /\ DOMAIN build = Ids /\ DOMAIN artifact = Ids
  /\ DOMAIN typechain = Range(moduleStem)
  /\ DOMAIN chain = Networks /\ DOMAIN netDep = Networks
  /\ \A n \in Networks : DOMAIN chain[n] = Foreign /\ DOMAIN netDep[n] = Foreign
  /\ \A n \in Networks, d \in Foreign : chain[n][d] \in OnChain[n] /\ netDep[n][d] \subseteq OnChain[n]

(* The cache has entries of the project's units only, under the ids they   *)
(* were compiled as; the build beside an entry is what it describes.       *)
CacheInv ==
  /\ DOMAIN hash = CacheIds
  /\ \A c \in CacheIds : hash[c] # {} =>
       /\ c[1] \in ToSet(dirs)
       /\ c[2] = unitId(c[1]) \/ \E r \in Requests : r.rename # "none" /\ r.rename = c[2] /\ r.program = c[1]
  /\ (\E c \in CacheIds : hash[c] # {}) =>
       \A f, g \in ToSet(dirs) : unitId(f) = unitId(g) => f = g
  /\ \A c \in CacheIds : kind[c[1]] = "program" /\ c[2] \notin torn =>
       \A h \in hash[c], b \in build[c[2]] : b = h

Units == ToSet(order)
Deps == DepsOf(dirs, source)
Before(i) == {order[j] : j \in 1 .. i - 1}

(* The package of a unit with the dependencies that are linked so far.     *)
Linking(f) ==
  [program |-> effectiveUnitId(f), text |-> source[f], local |-> LocalDeps(dirs, source, f),
   imports |-> [d \in NetworkDeps(dirs, source, f) \ unlinked |->
                  Member(netDep[opts.network][d])]]

(* The order is one of the units and of nothing that depends on the        *)
(* program that is renamed.                                                *)
OrderInv ==
  /\ opts \in Requests
  /\ Ordered(Deps, order, Units) /\ Units \subseteq ToSet(dirs)
  /\ \A f, g \in ToSet(dirs) : unitId(f) = unitId(g) => f = g
  /\ opts.rename # "none" => \A f \in Units : opts.program \notin Deps[f]

(* The packages of the units say what is in programs/, and the sources     *)
(* they link are those in the cache.                                       *)
PackageInv ==
  /\ unlinked \subseteq NeededDeps(Units)
  /\ pc # "link" => unlinked = {}
  /\ \A f \in Units : package[effectiveUnitId(f)] = {Linking(f)}
  /\ \A d \in NeededDeps(Units) \ unlinked : \E s \in OnChain[opts.network] : netDep[opts.network][d] = {s}

(* The units are hashed in order, each as what would be built of it now;   *)
(* the artifact of a program that was compiled is its build, and that is   *)
(* what is there now.                                                      *)
LoopInv ==
  /\ at \in 1 .. Len(order) + 1
  /\ pc = "link" => at = 1
  /\ pc = "building" => at \in DOMAIN order
  /\ DOMAIN depHashes = IF pc = "building" THEN Before(at + 1) ELSE Before(at)
  /\ \A f \in DOMAIN depHashes : depHashes[f] = Expected(f)
  /\ \A f \in results :
       /\ f \in Before(at) /\ kind[f] = "program"
       /\ {a.product : a \in artifact[effectiveUnitId(f)]} = build[effectiveUnitId(f)]
       /\ effectiveUnitId(f) \notin torn => build[effectiveUnitId(f)] = {Expected(f)}

CompileInv ==
  /\ pc \in {"idle", "link", "units", "building", "returned"}
  /\ Compiling => OrderInv /\ PackageInv /\ LoopInv
  /\ pc = "returned" => BindingsOwned

FreshInv == ProjectInv /\ FilesInv /\ CacheInv /\ CompileInv /\ (Compiling => ~Deploying)

-----------------------------------------------------------------------------
(* The order of the units                                                  *)

LEMMA ListOfProject ==
  ASSUME ProjectInv
  PROVE  /\ dirs \in Seq(ToSet(dirs)) /\ IsInjective(dirs) /\ IsFiniteSet(ToSet(dirs))
         /\ \A f \in ToSet(dirs) : importsOf[source[f]] \in Seq(ToSet(importsOf[source[f]]))
<1>1. PICK l \in Layouts :
        /\ dirs = l.dirs /\ DOMAIN source = ToSet(l.dirs)
        /\ \A f \in ToSet(l.dirs) : source[f] \in Texts[f] \cup {l.text[f]}
  BY DEF ProjectInv
<1>2. /\ dirs \in Seq(ToSet(dirs)) /\ IsInjective(dirs)
      /\ \A f \in ToSet(dirs) : importsOf[source[f]] \in Seq(ToSet(importsOf[source[f]]))
  BY <1>1, ProjectAssumption
<1>3. IsFiniteSet(ToSet(dirs))
  <2>1. Len(dirs) \in Nat /\ dirs \in [1 .. Len(dirs) -> ToSet(dirs)]
    BY <1>2
  <2>2. IsFiniteSet(1 .. Len(dirs))
    BY <2>1, FS_Interval
  <2>3. \A f \in ToSet(dirs) : \E i \in 1 .. Len(dirs) : dirs[i] = f
    BY <2>1 DEF ToSet
  <2>4. dirs \in Surjection(1 .. Len(dirs), ToSet(dirs))
    BY <2>1, <2>3 DEF Surjection
  <2> QED
    BY <2>2, <2>4, FS_Surjection
<1> QED
  BY <1>2, <1>3

(* The graph of a project has its units only.                              *)
LEMMA GraphOfProject ==
  ASSUME ProjectInv
  PROVE  /\ Graph([f \in ToSet(dirs) |-> LocalDeps(dirs, source, f)], ToSet(dirs))
         /\ DOMAIN Deps = ToSet(dirs)
         /\ \A f \in ToSet(dirs) : Deps[f] = ToSet(LocalDeps(dirs, source, f))
         /\ Closed(Deps, ToSet(dirs))
<1>1. ASSUME NEW f \in ToSet(dirs)
      PROVE  LocalDeps(dirs, source, f) \in Seq(ToSet(dirs))
  <2> DEFINE imports == importsOf[source[f]]
             answered == {key \in ToSet(imports) : Named(dirs, key) \ {f} # {}}
             local == Kept(imports, answered)
  <2>1. imports \in Seq(ToSet(imports))
    BY ListOfProject
  <2> HIDE DEF answered
  <2>2. local \in Seq(ToSet(imports)) /\ ToSet(local) = ToSet(imports) \cap answered
    BY <2>1, KeptMembers
  <2> HIDE DEF local
  <2>3. \A i \in DOMAIN local : local[i] \in answered
    BY <2>2 DEF ToSet
  <2>4. \A i \in DOMAIN local : Named(dirs, local[i]) # {} /\ Named(dirs, local[i]) \subseteq ToSet(dirs)
    BY <2>3 DEF answered, Named
  <2>5. \A i \in DOMAIN local : (CHOOSE g \in Named(dirs, local[i]) : TRUE) \in ToSet(dirs)
    BY <2>4
  <2>6. [i \in DOMAIN local |-> CHOOSE g \in Named(dirs, local[i]) : TRUE] \in Seq(ToSet(dirs))
    <3> DEFINE G(i) == CHOOSE g \in Named(dirs, local[i]) : TRUE
    <3>1. DOMAIN local = 1 .. Len(local) /\ Len(local) \in Nat
      BY <2>2
    <3>2. \A i \in 1 .. Len(local) : G(i) \in ToSet(dirs)
      BY <2>5, <3>1
    <3> HIDE DEF G
    <3>3. [i \in 1 .. Len(local) |-> G(i)] \in Seq(ToSet(dirs))
      BY <3>1, <3>2
    <3> QED
      BY <3>1, <3>3 DEF G
  <2>7. LocalDeps(dirs, source, f) = [i \in DOMAIN local |-> CHOOSE g \in Named(dirs, local[i]) : TRUE]
    BY DEF LocalDeps, local, answered
  <2> QED
    BY <2>6, <2>7
<1>2. Graph([f \in ToSet(dirs) |-> LocalDeps(dirs, source, f)], ToSet(dirs))
  BY <1>1, ListOfProject DEF Graph
<1>3. DOMAIN Deps = ToSet(dirs) /\ \A f \in ToSet(dirs) : Deps[f] = ToSet(LocalDeps(dirs, source, f))
  BY DEF Deps, DepsOf
<1>4. \A f \in ToSet(dirs) : ToSet(LocalDeps(dirs, source, f)) \subseteq ToSet(dirs)
  <2>1. \A X : \A s \in Seq(X) : ToSet(s) \subseteq X
    BY DEF ToSet
  <2> QED
    BY <1>1, <2>1
<1>5. Closed(Deps, ToSet(dirs))
  <2> HIDE DEF Deps
  <2> QED
    BY <1>3, <1>4 DEF Closed
<1> QED
  BY <1>2, <1>3, <1>5

(* What discovery and the lookup keys reject is what Sound says.           *)
LEMMA SoundUnits ==
  ASSUME ProjectInv
  PROVE  Sound(ToSet(dirs)) = (discoverUnits(dirs, source) /\ validateUniqueLookupKeys(dirs))
<1>1. /\ DOMAIN dirs = 1 .. Len(dirs) /\ Len(dirs) \in Nat
      /\ \A i, j \in DOMAIN dirs : dirs[i] = dirs[j] => i = j
  BY ListOfProject DEF IsInjective
<1>2. \A f \in ToSet(dirs) : \E i \in DOMAIN dirs : f = dirs[i]
  BY DEF ToSet
<1>3. \A i \in DOMAIN dirs : dirs[i] \in ToSet(dirs)
  BY DEF ToSet
<1>4. ASSUME discoverUnits(dirs, source), validateUniqueLookupKeys(dirs)
      PROVE  Sound(ToSet(dirs))
  <2>1. ASSUME NEW f \in ToSet(dirs), NEW g \in ToSet(dirs), f # g
        PROVE  lookupKeys(f) \cap lookupKeys(g) = {}
    <3>1. PICK i, j \in DOMAIN dirs : f = dirs[i] /\ g = dirs[j]
      BY <1>2
    <3>2. i \in 1 .. j - 1 \/ j \in 1 .. i - 1
      BY <1>1, <2>1, <3>1
    <3> QED
      BY <1>4, <3>1, <3>2 DEF validateUniqueLookupKeys
  <2>2. \A f \in ToSet(dirs) : lookupKeys(f) \cap Reserved = {}
    BY <1>2, <1>4 DEF validateUniqueLookupKeys
  <2>3. \A f \in ToSet(dirs) : kind[f] = "program" => source[f] \notin Undeclared
    BY <1>2, <1>4 DEF discoverUnits
  <2> QED
    BY <2>1, <2>2, <2>3 DEF Sound
<1>5. ASSUME Sound(ToSet(dirs))
      PROVE  discoverUnits(dirs, source) /\ validateUniqueLookupKeys(dirs)
  <2>1. discoverUnits(dirs, source)
    BY <1>3, <1>5 DEF Sound, discoverUnits
  <2>2. ASSUME NEW i \in DOMAIN dirs, NEW j \in 1 .. i - 1
        PROVE  lookupKeys(dirs[j]) \cap lookupKeys(dirs[i]) = {}
    <3>1. j \in DOMAIN dirs /\ dirs[j] # dirs[i]
      BY <1>1, <2>2
    <3> QED
      BY <1>3, <1>5, <3>1 DEF Sound
  <2>3. validateUniqueLookupKeys(dirs)
    BY <1>3, <1>5, <2>2 DEF Sound, validateUniqueLookupKeys
  <2> QED
    BY <2>1, <2>3
<1>6. Sound(ToSet(dirs)) \in BOOLEAN
      /\ (discoverUnits(dirs, source) /\ validateUniqueLookupKeys(dirs)) \in BOOLEAN
  BY DEF Sound, discoverUnits, validateUniqueLookupKeys
<1> QED
  BY <1>4, <1>5, <1>6

LEMMA OrderOfProject ==
  ProjectInv => CompileOrderValid
<1> SUFFICES ASSUME ProjectInv
             PROVE  CompileOrderValid
  OBVIOUS
<1> DEFINE F == ToSet(dirs)
           graph == [f \in F |-> LocalDeps(dirs, source, f)]
           result == resolveDependencies(dirs, source)
           found == discoverUnits(dirs, source) /\ validateUniqueLookupKeys(dirs)
           w == [todo |-> dirs, stack |-> {}, ok |-> found, order |-> <<>>]
<1>1. /\ Graph(graph, F) /\ DOMAIN Deps = F /\ Closed(Deps, F)
      /\ \A f \in F : Deps[f] = ToSet(graph[f])
  BY GraphOfProject
<1>2. Sound(F) = found
  BY SoundUnits
<1>3. result = Visited(dirs, graph, found)
  BY DEF resolveDependencies
<1> HIDE DEF graph, result, found, F
<1>4. PICK V : VisitFunction(V, graph) /\ result = V[w]
  BY <1>1, <1>3, VisitDefined, VisitedIs
<1>5. found \in BOOLEAN
  BY DEF found, discoverUnits, validateUniqueLookupKeys
<1>6. w \in Walks(F)
  BY <1>5, ListOfProject DEF Walks, F
<1>7. /\ \A v \in Walks(F) : V[v] \in Walks(F)
      /\ ~found => ~result.ok
      /\ result.ok /\ Ordered(Deps, <<>>, {}) => Extends(Deps, w, result)
  <2> HIDE DEF Deps
  <2>1. ToSet(<<>>) = {}
    BY DEF ToSet
  <2>2. \A v \in Walks(F) :
          /\ V[v] \in Walks(F) /\ (~v.ok => ~V[v].ok)
          /\ V[v].ok /\ Ordered(Deps, v.order, ToSet(v.order)) => Extends(Deps, v, V[v])
    BY <1>1, <1>4, WalkOrders
  <2> QED
    BY <1>4, <1>6, <2>1, <2>2
<1>8. ASSUME result.ok
      PROVE  /\ Sound(F) /\ Ordered(Deps, result.order, F)
             /\ \A f \in F :
                  Ordered(Deps, collectTransitiveDeps(dirs, source, result.order, f), Needs(Deps, {f}))
  <2> HIDE DEF Deps
  <2>1. Ordered(Deps, <<>>, {})
    BY DEF Ordered, IsInjective, ToSet
  <2>2. Ordered(Deps, result.order, ToSet(result.order)) /\ F \subseteq ToSet(result.order)
    BY <1>7, <1>8, <2>1 DEF Extends, F
  <2>3. result \in Walks(F)
    BY <1>4, <1>6, <1>7
  <2>4. result.order \in Seq(F) /\ ToSet(result.order) = F
    <3>1. result.order \in Seq(F)
      BY <2>3 DEF Walks
    <3> QED
      BY <2>2, <3>1 DEF ToSet
  <2>5. ASSUME NEW f \in F
        PROVE  Ordered(Deps, Kept(result.order, Needs(Deps, {f})), Needs(Deps, {f}))
    <3>1. /\ Closed(Deps, Needs(Deps, {f})) /\ Needs(Deps, {f}) \subseteq F
      BY <1>1, <2>5, NeedsClosed, NeedsWithin
    <3>2. \A h \in F \cap Needs(Deps, {f}) : Deps[h] \subseteq Needs(Deps, {f})
      BY <3>1 DEF Closed
    <3>3. /\ ToSet(Kept(result.order, Needs(Deps, {f}))) = F \cap Needs(Deps, {f})
          /\ Ordered(Deps, Kept(result.order, Needs(Deps, {f})),
                     ToSet(Kept(result.order, Needs(Deps, {f}))))
      BY <2>2, <2>4, <3>2, KeptMembers
    <3> QED
      BY <3>1, <3>3
  <2>6. \A f : collectTransitiveDeps(dirs, source, result.order, f)
                 = Kept(result.order, Needs(Deps, {f}))
    BY DEF collectTransitiveDeps, Deps
  <2> QED
    BY <1>2, <1>7, <1>8, <2>2, <2>4, <2>5, <2>6
<1>9. ASSUME Sound(F), NEW s \in [1 .. Cardinality(F) -> F], Ordered(Deps, s, F)
      PROVE  result.ok
  <2> HIDE DEF Deps
  <2>1. \A v \in Walks(F) : V[v] \in Walks(F)
    BY <1>7
  <2> QED
    BY <1>1, <1>2, <1>4, <1>6, <1>9, <2>1, OrderedNotCyclic
<1> QED
  BY <1>8, <1>9 DEF CompileOrderValid, Deps, F, result

-----------------------------------------------------------------------------
(* The units of a compile                                                  *)

LEMMA FoldersOfProject ==
  ASSUME ProjectInv
  PROVE  /\ ToSet(dirs) \subseteq Folders /\ DOMAIN source = ToSet(dirs)
         /\ \A f \in ToSet(dirs) : NetworkDeps(dirs, source, f) \subseteq Foreign
<1>1. PICK l \in Layouts :
        /\ dirs = l.dirs /\ DOMAIN source = ToSet(l.dirs)
        /\ \A f \in ToSet(l.dirs) : source[f] \in Texts[f] \cup {l.text[f]}
  BY DEF ProjectInv
<1>2. ToSet(dirs) \subseteq Folders /\ DOMAIN source = ToSet(dirs)
  BY <1>1, ProjectAssumption DEF Folders
<1>3. \A f \in ToSet(dirs) : \A key \in ToSet(importsOf[source[f]]) :
        Named(dirs, key) = {} => key \in Foreign
  BY <1>1, ProjectAssumption
<1> QED
  BY <1>2, <1>3 DEF NetworkDeps

(* The units have ids of their own, whatever is renamed.                   *)
LEMMA OneIdEach ==
  RenamesApart /\ ProjectInv /\ OrderInv =>
    /\ \A f \in Units : effectiveUnitId(f) \in Ids
    /\ \A f, g \in Units : effectiveUnitId(f) = effectiveUnitId(g) => f = g
<1> SUFFICES ASSUME RenamesApart, ProjectInv, OrderInv
             PROVE  /\ \A f \in Units : effectiveUnitId(f) \in Ids
                    /\ \A f, g \in Units : effectiveUnitId(f) = effectiveUnitId(g) => f = g
  OBVIOUS
<1>1. Units \subseteq Folders /\ opts \in Requests
  BY FoldersOfProject DEF OrderInv
<1>2. \A f \in Units : effectiveUnitId(f) \in Ids
  BY <1>1, CompilerAssumption DEF effectiveUnitId, Ids
<1>3. \A f, g \in Units : unitId(f) = unitId(g) => f = g
  BY DEF OrderInv
<1>4. opts.rename # "none" => \A f \in Units : opts.rename = unitId(f) => f = opts.program
  BY <1>1 DEF RenamesApart
<1> QED
  BY <1>2, <1>3, <1>4 DEF effectiveUnitId

(* A unit has one cache entry for the id it is compiled as, and shares it  *)
(* with no other.                                                          *)
LEMMA OwnEntry ==
  ASSUME RenamesApart, ProjectInv, OrderInv, NEW f \in Units
  PROVE  /\ CacheId(f) \in CacheIds /\ CacheId(f)[1] = f /\ CacheId(f)[2] = effectiveUnitId(f)
         /\ \/ effectiveUnitId(f) = unitId(f)
            \/ opts.rename # "none" /\ opts.rename = effectiveUnitId(f) /\ opts.program = f
         /\ CacheInv => \A c \in CacheIds : hash[c] # {} /\ c[2] = effectiveUnitId(f) => c = CacheId(f)
<1>1. f \in Folders /\ f \in ToSet(dirs) /\ opts \in Requests
  BY FoldersOfProject DEF OrderInv
<1>2. effectiveUnitId(f) \in {unitId(f)} \cup Renames
  BY <1>1, CompilerAssumption DEF effectiveUnitId
<1>3. CacheId(f) \in CacheIds /\ CacheId(f)[1] = f /\ CacheId(f)[2] = effectiveUnitId(f)
  BY <1>1, <1>2 DEF CacheId, CacheIds
<1>4. \/ effectiveUnitId(f) = unitId(f)
      \/ opts.rename # "none" /\ opts.rename = effectiveUnitId(f) /\ opts.program = f
  BY DEF effectiveUnitId
<1>5. ASSUME CacheInv, NEW c \in CacheIds, hash[c] # {}, c[2] = effectiveUnitId(f)
      PROVE  c = CacheId(f)
  <2>1. PICK x \in Folders : \E e \in {unitId(x)} \cup Renames : c = <<x, e>>
    BY DEF CacheIds
  <2>2. c = <<c[1], c[2]>>
    BY <2>1
  <2>3. c[1] \in ToSet(dirs) /\ c[1] \in Folders
    BY <1>5, FoldersOfProject DEF CacheInv
  <2>4. c[2] = unitId(c[1]) \/ \E r \in Requests : r.rename # "none" /\ r.rename = c[2] /\ r.program = c[1]
    BY <1>5 DEF CacheInv
  <2>5. \A g, k \in ToSet(dirs) : unitId(g) = unitId(k) => g = k
    BY DEF OrderInv
  <2>6. c[1] = f
    BY <1>1, <1>4, <1>5, <2>3, <2>4, <2>5 DEF RenamesApart
  <2> QED
    BY <1>5, <2>2, <2>6 DEF CacheId
<1> QED
  BY <1>3, <1>4, <1>5

(* The units that keep their own id.                                       *)
Unrenamed == {f \in Units : effectiveUnitId(f) = unitId(f)}

LEMMA ImportsOfUnits ==
  ASSUME OrderInv
  PROVE  /\ DOMAIN Deps = ToSet(dirs)
         /\ \A f \in Units : Deps[f] = ToSet(LocalDeps(dirs, source, f)) /\ Deps[f] \subseteq Unrenamed
         /\ Closed(Deps, Unrenamed) /\ Closed(Deps, Units)
<1>1. /\ DOMAIN Deps = ToSet(dirs) /\ Units \subseteq ToSet(dirs)
      /\ \A f \in ToSet(dirs) : Deps[f] = ToSet(LocalDeps(dirs, source, f))
  BY DEF Deps, DepsOf, OrderInv
<1>2. \A f \in Units : Deps[f] \subseteq Units
  <2> SUFFICES ASSUME NEW f \in Units, NEW g \in Deps[f]
               PROVE  g \in Units
    OBVIOUS
  <2>1. PICK i \in DOMAIN order : f = order[i]
    BY DEF Units, ToSet
  <2>2. order \in Seq(Units) /\ Deps[order[i]] \subseteq {order[j] : j \in 1 .. i - 1}
    BY <2>1 DEF OrderInv, Ordered
  <2>3. PICK j \in 1 .. i - 1 : g = order[j]
    BY <2>1, <2>2
  <2>4. j \in DOMAIN order
    BY <2>2, <2>3
  <2> QED
    BY <2>2, <2>3, <2>4
<1>3. \A f \in Units : Deps[f] \subseteq Unrenamed
  BY <1>2 DEF Unrenamed, effectiveUnitId, OrderInv
<1> HIDE DEF Deps
<1> QED
  BY <1>1, <1>2, <1>3 DEF Closed, Unrenamed

(* When everything is linked, the package of a unit is what is there now.  *)
LEMMA LinkedIsCurrent ==
  ASSUME unlinked = {}, NEW f
  PROVE  Linking(f) = Current(f)
BY DEF Linking, Current

(* What leo build makes of a unit is what the project is now.              *)
LEMMA ProductIsExpected ==
  ASSUME OrderInv, PackageInv, unlinked = {}, NEW f \in Units
  PROVE  Product(package, effectiveUnitId(f)) = Expected(f)
<1> DEFINE seen == [g \in ToSet(dirs) |-> UNION {ToSet(q.local) : q \in package[unitId(g)]}]
           p == Member(package[effectiveUnitId(f)])
<1>1. \A g \in Units : package[effectiveUnitId(g)] = {Current(g)}
  BY LinkedIsCurrent DEF PackageInv
<1>2. p = Current(f)
  BY <1>1 DEF Member
<1>3. \A g : ToSet(Current(g).local) = ToSet(LocalDeps(dirs, source, g))
  BY DEF Current
<1>4. ToSet(p.local) = Deps[f]
  BY <1>2, <1>3, ImportsOfUnits
<1>5. \A g \in Unrenamed : package[unitId(g)] = {Current(g)}
  BY <1>1 DEF Unrenamed
<1>6. \A g \in Unrenamed : seen[g] = Deps[g]
  <2> SUFFICES ASSUME NEW g \in Unrenamed
               PROVE  seen[g] = Deps[g]
    OBVIOUS
  <2>1. g \in Units /\ g \in ToSet(dirs)
    BY DEF Unrenamed, OrderInv
  <2>2. seen[g] = ToSet(Current(g).local)
    BY <1>5, <2>1
  <2> QED
    BY <1>3, <2>1, <2>2, ImportsOfUnits
<1>7. DOMAIN seen = DOMAIN Deps
  BY ImportsOfUnits
<1>8. Deps[f] \subseteq Unrenamed /\ Closed(Deps, Unrenamed)
  BY ImportsOfUnits
<1> HIDE DEF seen
<1>9. /\ Needs(seen, Deps[f]) = Needs(Deps, Deps[f])
      /\ Needs(Deps, Deps[f]) \subseteq Unrenamed
  BY <1>6, <1>7, <1>8, NeedsAgree, NeedsWithin
<1> HIDE DEF p
<1>10. UNION {package[unitId(g)] : g \in Needs(seen, ToSet(p.local))}
         = {Current(g) : g \in Needs(Deps, Deps[f])}
  <2> DEFINE N == Needs(Deps, Deps[f])
  <2>1. Needs(seen, ToSet(p.local)) = N
    BY <1>4, <1>9
  <2>2. \A g \in N : package[unitId(g)] = {Current(g)}
    BY <1>5, <1>9
  <2> HIDE DEF N
  <2>3. UNION {package[unitId(g)] : g \in N} = {Current(g) : g \in N}
    BY <2>2
  <2> QED
    BY <2>1, <2>3 DEF N
<1> QED
  BY <1>2, <1>10 DEF Product, Expected, seen, Deps, p

LEMMA ExpectedParts ==
  ASSUME NEW f
  PROVE  /\ Expected(f).package = Current(f)
         /\ Expected(f).others = {Current(h) : h \in Needs(Deps, Deps[f])}
BY DEF Expected, Deps

(* And so is the hash, of a unit whose dependencies have theirs.           *)
LEMMA HashIsExpected ==
  ASSUME OrderInv, PackageInv, unlinked = {}, NEW f \in Units,
         Deps[f] \subseteq DOMAIN depHashes, \A g \in Deps[f] : depHashes[g] = Expected(g)
  PROVE  computeUnitHash(f) = Expected(f)
<1> DEFINE p == Member(package[effectiveUnitId(f)])
<1>1. package[effectiveUnitId(f)] = {Current(f)}
  BY LinkedIsCurrent DEF PackageInv
<1>2. p = Current(f)
  BY <1>1 DEF Member
<1> HIDE DEF p
<1>3. [p EXCEPT !.text = source[f]] = Current(f)
  BY <1>2 DEF Current
<1>4. ToSet(p.local) \cap DOMAIN depHashes = Deps[f]
  BY <1>2, ImportsOfUnits DEF Current
<1>5. \A g \in Deps[f] :
        {depHashes[g].package} \cup depHashes[g].others
          = {Current(g)} \cup {Current(h) : h \in Needs(Deps, Deps[g])}
  BY ExpectedParts
<1>6. Needs(Deps, Deps[f]) = Deps[f] \cup UNION {Needs(Deps, Deps[g]) : g \in Deps[f]}
  BY ImportsOfUnits, NeedsUnrolled
<1>7. UNION {{depHashes[g].package} \cup depHashes[g].others : g \in Deps[f]}
        = {Current(h) : h \in Needs(Deps, Deps[f])}
  BY <1>5, <1>6
<1> QED
  BY <1>3, <1>4, <1>7 DEF computeUnitHash, HashOf, Expected, Deps, p

-----------------------------------------------------------------------------
(* The files                                                               *)

LEMMA ProjectKept ==
  ASSUME ProjectInv, Next \/ UNCHANGED <<dirs, source>>
  PROVE  ProjectInv'
<1>1. CASE UNCHANGED <<dirs, source>>
  BY <1>1 DEF ProjectInv
<1>2. CASE Change
  <2>1. PICK l \in Layouts :
          /\ dirs = l.dirs /\ DOMAIN source = ToSet(l.dirs)
          /\ \A f \in ToSet(l.dirs) : source[f] \in Texts[f] \cup {l.text[f]}
    BY DEF ProjectInv
  <2>2. dirs' = dirs
    BY <1>2 DEF Change
  <2>3. CASE \E f \in ToSet(dirs) : \E t \in Texts[f] : source' = [source EXCEPT ![f] = t]
    BY <2>1, <2>2, <2>3 DEF ProjectInv
  <2>4. UNCHANGED source => ProjectInv'
    BY <2>1, <2>2 DEF ProjectInv
  <2> QED
    BY <1>2, <2>3, <2>4 DEF Change
<1>3. CASE Next /\ ~Change
  <2>1. UNCHANGED projectVars
    BY <1>3 DEF Next, CompileBegins, MaterializeCut, LinkNetworkDependency, Linked, CompileUnit, BuildReturns,
                BuildCut, CompileThrows, CompileReturns, BindingsThrow, Return, Clean
  <2> QED
    BY <1>1, <2>1 DEF projectVars
<1> QED
  BY <1>1, <1>2, <1>3

(* A build that ends is the one that its hash describes.                   *)
LEMMA BuiltIsHashed ==
  ASSUME FilesInv, CompileInv, pc = "building"
  PROVE  /\ order[at] \in Units /\ depHashes[order[at]] = Expected(order[at])
         /\ kind[order[at]] = "library" => Built(order[at]) = build[effectiveUnitId(order[at])]
         /\ kind[order[at]] # "library" =>
              Built(order[at]) = {Expected(order[at])}
<1>1. OrderInv /\ PackageInv /\ LoopInv /\ unlinked = {} /\ at \in DOMAIN order
  BY DEF CompileInv, Compiling, LoopInv, PackageInv
<1>2. order \in Seq(Units) /\ at \in Nat
  BY <1>1 DEF OrderInv, Ordered, LoopInv
<1>3. order[at] \in Units /\ order[at] \in Before(at + 1)
  BY <1>1, <1>2 DEF Units, ToSet, Before
<1>4. depHashes[order[at]] = Expected(order[at])
  BY <1>1, <1>3 DEF LoopInv
<1>5. Product(package, effectiveUnitId(order[at])) = Expected(order[at])
  BY <1>1, <1>3, ProductIsExpected
<1> QED
  BY <1>3, <1>4, <1>5 DEF Built

LEMMA FilesKept ==
  ASSUME ProjectInv, FilesInv, CompileInv, Next
  PROVE  FilesInv'
<1> DEFINE Files == <<package, build, artifact, typechain, chain, netDep>>
<1>1. UNCHANGED Files => FilesInv'
  BY DEF FilesInv
<1>2. ASSUME NEW o \in Requests, CompileBegins(o) \/ MaterializeCut(o)
      PROVE  FilesInv'
  BY <1>2 DEF FilesInv, CompileBegins, MaterializeCut, LeavesBuild, Materialize, projectVars, outputVars
<1>3. CASE LinkNetworkDependency
  <2>1. PICK d, s : /\ d \in unlinked /\ s \in LinkedSources(d)
                    /\ netDep' = [netDep EXCEPT ![opts.network][d] = {s}]
    BY <1>3 DEF LinkNetworkDependency
  <2>2. /\ DOMAIN package' = Ids
        /\ UNCHANGED <<build, artifact, typechain, chain>>
    BY <1>3 DEF LinkNetworkDependency, projectVars, outputVars
  <2>3. d \in Foreign /\ opts.network \in Networks
    <3>1. OrderInv /\ PackageInv
      BY <1>3 DEF LinkNetworkDependency, CompileInv, Compiling
    <3>2. PICK f \in Units : d \in NetworkDeps(dirs, source, f)
      BY <2>1, <3>1 DEF PackageInv, NeededDeps
    <3> QED
      BY <3>1, <3>2, FoldersOfProject, CompilerAssumption DEF OrderInv
  <2>4. s \in OnChain[opts.network]
    BY <2>1, <2>3 DEF LinkedSources, FilesInv
  <2> QED
    BY <2>1, <2>2, <2>3, <2>4 DEF FilesInv
<1>4. CASE CompileUnit
  <2>1. /\ DOMAIN artifact' = Ids
        /\ UNCHANGED <<package, build, typechain, chain, netDep>>
    BY <1>4 DEF CompileUnit, UseCached, StartBuild, Normalized, FilesInv, projectVars, buildVars
  <2> QED
    BY <2>1 DEF FilesInv
<1>5. CASE BuildReturns
  <2>1. /\ DOMAIN build' = Ids /\ DOMAIN artifact' = Ids
        /\ UNCHANGED <<package, typechain, chain, netDep>>
    BY <1>5 DEF BuildReturns, Normalized, FilesInv, projectVars
  <2> QED
    BY <2>1 DEF FilesInv
<1>6. CASE BuildCut
  <2>1. /\ DOMAIN build' = Ids /\ DOMAIN artifact' = Ids
        /\ UNCHANGED <<package, typechain, chain, netDep>>
    BY <1>6 DEF BuildCut, BuildStays, LeavesBuild, Normalized, CopiedOnly, FilesInv, projectVars
  <2> QED
    BY <2>1 DEF FilesInv
<1>7. CASE CompileThrows
  BY <1>7 DEF CompileThrows, BuildStays, LeavesBuild, FilesInv, projectVars, outputVars
<1>8. CASE CompileReturns \/ BindingsThrow
  <2>1. DOMAIN typechain' = Range(moduleStem)
    BY <1>8 DEF CompileReturns, BindingsThrow, WriteModules, FilesInv
  <2>2. UNCHANGED <<package, build, artifact, chain, netDep>>
    BY <1>8 DEF CompileReturns, BindingsThrow, projectVars, buildVars
  <2> QED
    BY <2>1, <2>2 DEF FilesInv
<1>9. CASE Clean
  <2>1. netDep' = [n \in Networks |-> [d \in Foreign |-> {}]]
    BY <1>9 DEF Clean
  <2>2. /\ DOMAIN package' = Ids /\ DOMAIN artifact' = Ids /\ build' = [id \in Ids |-> {}]
        /\ DOMAIN typechain' = Range(moduleStem) /\ UNCHANGED chain
    BY <1>9 DEF Clean, FilesInv, projectVars
  <2> QED
    BY <2>1, <2>2 DEF FilesInv
<1>10. CASE Change
  <2>1. UNCHANGED <<package, build, artifact, typechain, netDep>>
    BY <1>10 DEF Change, buildVars, outputVars
  <2>2. CASE \E n \in Networks, d \in Foreign : \E s \in OnChain[n] : chain' = [chain EXCEPT ![n][d] = s]
    BY <2>1, <2>2 DEF FilesInv
  <2>3. CASE UNCHANGED chain
    BY <2>1, <2>3 DEF FilesInv
  <2> QED
    BY <1>10, <2>2, <2>3 DEF Change
<1>11. Linked \/ Return => UNCHANGED Files
  BY DEF Linked, Return, projectVars, buildVars, outputVars
<1> QED
  BY <1>1, <1>2, <1>3, <1>4, <1>5, <1>6, <1>7, <1>8, <1>9, <1>10, <1>11 DEF Next

-----------------------------------------------------------------------------
(* The cache                                                               *)

(* Whoever leaves a build without an entry leaves it beside none, beside   *)
(* an entry that describes it, or torn.                                    *)
LEMMA LeavesBuildKeeps ==
  ASSUME CacheInv, NEW id, NEW products, LeavesBuild(id, products), UNCHANGED <<dirs, hash>>,
         DOMAIN build = Ids
  PROVE  CacheInv'
<1> DEFINE entries == UNION {hash[c] : c \in {d \in CacheIds : d[2] = id}}
<1>1. /\ build' = [build EXCEPT ![id] = products]
      /\ torn' = IF \A p \in products : entries \subseteq {p} THEN torn \ {id} ELSE torn \cup {id}
  BY DEF LeavesBuild
<1>2. ASSUME NEW c \in CacheIds, kind[c[1]] = "program", c[2] \notin torn',
             NEW h \in hash[c], NEW b \in build'[c[2]]
      PROVE  b = h
  <2>1. c[2] \in Ids
    BY DEF CacheIds, Ids
  <2>2. CASE c[2] = id
    <3>1. \A p \in products : entries \subseteq {p}
      BY <1>1, <1>2, <2>2
    <3>2. b \in products
      BY <1>1, <1>2, <2>1, <2>2
    <3>3. h \in entries
      BY <1>2, <2>2
    <3> QED
      BY <3>1, <3>2, <3>3
  <2>3. CASE c[2] # id
    <3>1. c[2] \notin torn /\ b \in build[c[2]]
      BY <1>1, <1>2, <2>1, <2>3
    <3> QED
      BY <1>2, <3>1 DEF CacheInv
  <2> QED
    BY <2>2, <2>3
<1> HIDE DEF entries
<1>3. \A c \in CacheIds : kind[c[1]] = "program" /\ c[2] \notin torn' =>
        \A h \in hash'[c], b \in build'[c[2]] : b = h
  BY <1>2
<1> QED
  BY <1>3 DEF CacheInv

(* The entry that a compile writes is that of the build it left.           *)
LEMMA EntryWritten ==
  ASSUME RenamesApart, ProjectInv, FilesInv, CacheInv, CompileInv, BuildReturns
  PROVE  CacheInv'
<1> DEFINE f == order[at]
           own == CacheId(f)
           id == effectiveUnitId(f)
<1>1. /\ pc = "building" /\ dirs' = dirs
      /\ build' = [build EXCEPT ![id] = Built(f)] /\ torn' = torn \ {id}
      /\ hash' = [hash EXCEPT ![own] = {depHashes[f]}]
  BY DEF BuildReturns, projectVars
<1>2. OrderInv /\ f \in Units /\ depHashes[f] = Expected(f)
  BY <1>1, BuiltIsHashed DEF CompileInv, Compiling
<1> HIDE DEF f
<1>3. /\ own \in CacheIds /\ own[1] = f /\ own[2] = id
      /\ \A c \in CacheIds : hash[c] # {} /\ c[2] = id => c = own
      /\ \/ id = unitId(f)
         \/ opts.rename # "none" /\ opts.rename = id /\ opts.program = f
  BY <1>2, OwnEntry
<1>4. kind[f] = "program" => Built(f) = {Expected(f)}
  BY <1>1, BuiltIsHashed DEF f
<1>5. f \in ToSet(dirs) /\ opts \in Requests
  BY <1>2 DEF OrderInv
<1> HIDE DEF own, id
<1>6. \A c \in CacheIds : hash'[c] = IF c = own THEN {Expected(f)} ELSE hash[c]
  BY <1>1, <1>2 DEF CacheInv
<1>7. \A c \in CacheIds : hash'[c] # {} =>
        /\ c[1] \in ToSet(dirs)
        /\ c[2] = unitId(c[1]) \/ \E r \in Requests : r.rename # "none" /\ r.rename = c[2] /\ r.program = c[1]
  BY <1>3, <1>5, <1>6 DEF CacheInv
<1>8. ASSUME NEW c \in CacheIds, kind[c[1]] = "program", c[2] \notin torn',
             NEW h \in hash'[c], NEW b \in build'[c[2]]
      PROVE  b = h
  <2>1. c[2] \in Ids
    BY DEF CacheIds, Ids
  <2>2. CASE c = own
    <3>1. h = Expected(f) /\ c[2] = id /\ kind[f] = "program"
      BY <1>3, <1>6, <1>8, <2>2
    <3>2. build'[id] = Built(f)
      BY <1>1, <2>1, <3>1 DEF FilesInv
    <3> QED
      BY <1>4, <1>8, <3>1, <3>2
  <2>3. CASE c # own
    <3>1. h \in hash[c] /\ c[2] # id
      BY <1>3, <1>6, <1>8, <2>3
    <3>2. b \in build[c[2]] /\ c[2] \notin torn
      BY <1>1, <1>8, <2>1, <3>1 DEF FilesInv
    <3> QED
      BY <1>8, <3>1, <3>2 DEF CacheInv
  <2> QED
    BY <2>2, <2>3
<1>9. \A g, k \in ToSet(dirs) : unitId(g) = unitId(k) => g = k
  BY <1>2 DEF OrderInv
<1>10. DOMAIN hash' = CacheIds
  BY <1>1 DEF CacheInv
<1>11. \A c \in CacheIds : kind[c[1]] = "program" /\ c[2] \notin torn' =>
         \A h \in hash'[c], b \in build'[c[2]] : b = h
  BY <1>8
<1> QED
  BY <1>1, <1>7, <1>9, <1>10, <1>11 DEF CacheInv

LEMMA CacheKept ==
  ASSUME RenamesApart, ProjectInv, FilesInv, CacheInv, CompileInv, Next
  PROVE  CacheInv'
<1>1. UNCHANGED <<dirs, build, hash, torn>> => CacheInv'
  BY DEF CacheInv
<1>2. DOMAIN build = Ids
  BY DEF FilesInv
<1>3. ASSUME NEW o \in Requests, CompileBegins(o) \/ MaterializeCut(o)
      PROVE  CacheInv'
  <2>1. CASE CompileBegins(o)
    BY <1>1, <2>1 DEF CompileBegins, projectVars
  <2>2. CASE MaterializeCut(o)
    <3>1. (\E id : LeavesBuild(id, {})) /\ UNCHANGED <<dirs, hash>>
      BY <2>2 DEF MaterializeCut, projectVars
    <3> QED
      BY <1>2, <3>1, LeavesBuildKeeps
  <2> QED
    BY <1>3, <2>1, <2>2
<1>4. CASE BuildCut \/ CompileThrows
  <2>1. /\ BuildStays \/ \E id, products : LeavesBuild(id, products)
        /\ UNCHANGED <<dirs, hash>>
    BY <1>4 DEF BuildCut, CompileThrows, projectVars
  <2> QED
    BY <1>1, <1>2, <2>1, LeavesBuildKeeps DEF BuildStays
<1>5. CASE Clean
  <2>1. dirs' = dirs /\ hash' = [c \in CacheIds |-> {}]
    BY <1>5 DEF Clean, CacheInv, projectVars
  <2> QED
    BY <2>1 DEF CacheInv
<1>6. CASE Change
  BY <1>1, <1>6 DEF Change, buildVars
<1>7. LinkNetworkDependency \/ Linked \/ CompileUnit \/ CompileReturns \/ BindingsThrow \/ Return
        => UNCHANGED <<dirs, build, hash, torn>>
  BY DEF LinkNetworkDependency, Linked, CompileUnit, CompileReturns, BindingsThrow, Return, buildVars,
         projectVars
<1> QED
  BY <1>1, <1>3, <1>4, <1>5, <1>6, <1>7, EntryWritten DEF Next

-----------------------------------------------------------------------------
(* The begin of compile                                                    *)

(* What an ordered list has before a unit is all that the units up to it   *)
(* depend on.                                                              *)
LEMMA PrefixClosed ==
  ASSUME NEW deps, NEW s, NEW S, Ordered(deps, s, S), S \subseteq DOMAIN deps,
         NEW i \in 1 .. Len(s)
  PROVE  Closed(deps, {s[j] : j \in 1 .. i})
<1> DEFINE T == {s[j] : j \in 1 .. i}
<1>1. s \in Seq(S) /\ \A j \in 1 .. i : j \in DOMAIN s /\ s[j] \in S
  BY DEF Ordered
<1>2. ASSUME NEW j \in 1 .. i
      PROVE  deps[s[j]] \subseteq T
  <2>1. deps[s[j]] \subseteq {s[k] : k \in 1 .. j - 1}
    BY <1>1, <1>2 DEF Ordered
  <2>2. \A k \in 1 .. j - 1 : k \in 1 .. i
    BY <1>1
  <2> QED
    BY <2>1, <2>2
<1> QED
  BY <1>1, <1>2 DEF Closed

LEMMA NothingNeedsTheTarget ==
  ASSUME NEW deps, NEW s, NEW p, p \in DOMAIN deps, Ordered(deps, s, Needs(deps, {p})),
         NEW f \in Needs(deps, {p})
  PROVE  p \notin deps[f]
<1> SUFFICES ASSUME p \in deps[f]
             PROVE  FALSE
  OBVIOUS
<1>1. /\ s \in Seq(Needs(deps, {p})) /\ ToSet(s) = Needs(deps, {p}) /\ IsInjective(s)
      /\ Needs(deps, {p}) \subseteq DOMAIN deps
  BY DEF Ordered, Needs
<1>2. PICK k \in DOMAIN s : f = s[k]
  BY <1>1 DEF ToSet
<1>3. PICK i \in 1 .. k - 1 : p = s[i]
  BY <1>2 DEF Ordered
<1>4. i \in 1 .. Len(s) /\ i \in DOMAIN s
  BY <1>1, <1>2, <1>3
<1>5. Needs(deps, {p}) \subseteq {s[j] : j \in 1 .. i}
  <2>1. Closed(deps, {s[j] : j \in 1 .. i})
    BY <1>1, <1>4, PrefixClosed
  <2>2. {p} \subseteq {s[j] : j \in 1 .. i}
    BY <1>3, <1>4
  <2> QED
    BY <2>1, <2>2, NeedsWithin
<1>6. PICK j \in 1 .. i : f = s[j]
  BY <1>5
<1>7. j \in DOMAIN s /\ j # k
  BY <1>1, <1>3, <1>4
<1> QED
  BY <1>1, <1>2, <1>6, <1>7 DEF IsInjective

LEMMA SelectedInOrder ==
  ASSUME ProjectInv, ~Compiling, NEW o \in Requests, Accepted(o)
  PROVE  /\ Ordered(Deps, Selected(o), ToSet(Selected(o)))
         /\ ToSet(Selected(o)) \subseteq ToSet(dirs)
         /\ \A f, g \in ToSet(dirs) : unitId(f) = unitId(g) => f = g
         /\ o.rename # "none" => \A f \in ToSet(Selected(o)) : o.program \notin Deps[f]
<1> DEFINE graph == resolveDependencies(dirs, source)
<1>1. /\ graph.ok /\ Sound(ToSet(dirs)) /\ Ordered(Deps, graph.order, ToSet(dirs))
      /\ \A f \in ToSet(dirs) :
           Ordered(Deps, collectTransitiveDeps(dirs, source, graph.order, f), Needs(Deps, {f}))
  BY OrderOfProject DEF CompileOrderValid, Accepted, Deps
<1>2. \A f, g \in ToSet(dirs) : unitId(f) = unitId(g) => f = g
  BY <1>1 DEF Sound, lookupKeys
<1>3. DOMAIN Deps = ToSet(dirs)
  BY DEF Deps, DepsOf
<1> HIDE DEF graph
<1>4. CASE o.program = "all"
  <2>1. Selected(o) = graph.order /\ o.rename = "none"
    BY <1>4, CompilerAssumption DEF Selected, graph
  <2>2. ToSet(graph.order) = ToSet(dirs)
    BY <1>1 DEF Ordered
  <2> QED
    BY <1>1, <1>2, <2>1, <2>2
<1>5. CASE o.program # "all"
  <2>1. /\ o.program \in ToSet(dirs)
        /\ Selected(o) = collectTransitiveDeps(dirs, source, graph.order, o.program)
    BY <1>5 DEF Accepted, Selected, graph
  <2>2. Ordered(Deps, Selected(o), Needs(Deps, {o.program}))
    BY <1>1, <2>1
  <2>3. ToSet(Selected(o)) = Needs(Deps, {o.program})
    BY <2>2 DEF Ordered
  <2>4. \A f \in ToSet(Selected(o)) : o.program \notin Deps[f]
    BY <1>3, <2>1, <2>2, <2>3, NothingNeedsTheTarget
  <2>5. Needs(Deps, {o.program}) \subseteq ToSet(dirs)
    BY <1>3 DEF Needs
  <2> QED
    BY <1>2, <2>2, <2>3, <2>4, <2>5
<1> QED
  BY <1>4, <1>5

LEMMA CompileBeginsKeeps ==
  ASSUME RenamesApart, ProjectInv, FilesInv,
         NEW o \in Requests, CompileBegins(o)
  PROVE  CompileInv'
<1>1. /\ ~Compiling /\ Accepted(o) /\ opts' = o /\ order' = Selected(o) /\ pc' = "link"
      /\ unlinked' = NeededDeps(ToSet(order')) /\ at' = 1
      /\ depHashes' = NoneYet /\ results' = {}
      /\ Materialize(o, ToSet(order'))
      /\ dirs' = dirs /\ source' = source
  BY DEF CompileBegins, projectVars
<1>2. OrderInv'
  BY <1>1, SelectedInOrder DEF OrderInv, Units, Deps
<1>3. ProjectInv'
  BY <1>1 DEF ProjectInv
<1>4. \A f : effectiveUnitId(f)' = Package(o, f).program
  BY <1>1 DEF effectiveUnitId, Package
<1>5. /\ \A f \in Units' : effectiveUnitId(f)' \in Ids
      /\ \A f, g \in Units' : effectiveUnitId(f)' = effectiveUnitId(g)' => f = g
  <2>1. (RenamesApart /\ ProjectInv /\ OrderInv =>
           /\ \A f \in Units : effectiveUnitId(f) \in Ids
           /\ \A f, g \in Units : effectiveUnitId(f) = effectiveUnitId(g) => f = g)'
    BY OneIdEach, PTL
  <2> QED
    BY <1>2, <1>3, <2>1
<1>6. Units' = ToSet(order') /\ unlinked' = NeededDeps(Units)'
  BY <1>1 DEF Units, NeededDeps
<1>7. ASSUME NEW f \in Units'
      PROVE  package'[effectiveUnitId(f)'] = {Linking(f)'}
  <2>1. package'[effectiveUnitId(f)'] = {Package(o, f)}
    BY <1>1, <1>4, <1>5, <1>6 DEF Materialize
  <2>2. NetworkDeps(dirs, source, f)' \ unlinked' = {}
    BY <1>6 DEF NeededDeps
  <2>3. Linking(f)' = Package(o, f)
    BY <1>1, <1>4, <2>2 DEF Linking, Package, NoneYet, effectiveUnitId
  <2> QED
    BY <2>1, <2>3
<1>8. PackageInv'
  BY <1>1, <1>6, <1>7 DEF PackageInv
<1>9. LoopInv'
  <2>1. order' \in Seq(Units') /\ Before(at)' = {} /\ DOMAIN NoneYet = {}
    BY <1>1, <1>2 DEF OrderInv, Ordered, Before, NoneYet
  <2> QED
    BY <1>1, <2>1 DEF LoopInv
<1> QED
  BY <1>1, <1>2, <1>8, <1>9 DEF CompileInv

-----------------------------------------------------------------------------
(* The network dependencies                                                *)

(* What the files of programs/, the request and the cache of sources say.  *)
Inputs == <<dirs, source, leoVersion, opts, order, netDep>>

LEMMA InputsStay ==
  ASSUME UNCHANGED Inputs
  PROVE  /\ Units' = Units /\ Deps' = Deps
         /\ \A f : effectiveUnitId(f)' = effectiveUnitId(f) /\ Expected(f)' = Expected(f)
         /\ OrderInv => OrderInv'
         /\ PackageInv /\ UNCHANGED <<package, unlinked>> /\ (unlinked = {} \/ pc' = pc) => PackageInv'
<1>1. Units' = Units /\ Deps' = Deps /\ NeededDeps(Units)' = NeededDeps(Units)
  BY DEF Inputs, Units, Deps, NeededDeps
<1>2. \A f : effectiveUnitId(f)' = effectiveUnitId(f)
  BY DEF Inputs, effectiveUnitId
<1>3. \A f : Current(f)' = Current(f)
  BY <1>2 DEF Inputs, Current
<1>4. \A f : Expected(f)' = Expected(f)
  BY <1>3 DEF Inputs, Expected
<1>5. OrderInv => OrderInv'
  BY <1>1 DEF Inputs, OrderInv
<1>6. UNCHANGED unlinked => \A f : Linking(f)' = Linking(f)
  BY <1>2 DEF Inputs, Linking
<1>7. PackageInv /\ UNCHANGED <<package, unlinked>> /\ (unlinked = {} \/ pc' = pc) => PackageInv'
  <2> SUFFICES ASSUME PackageInv, UNCHANGED <<package, unlinked>>, unlinked = {} \/ pc' = pc
               PROVE  PackageInv'
    OBVIOUS
  <2>1. \A f \in Units' : package'[effectiveUnitId(f)'] = {Linking(f)'}
    BY <1>1, <1>2, <1>6 DEF PackageInv
  <2>2. UNCHANGED <<netDep, opts>>
    BY DEF Inputs
  <2> QED
    BY <1>1, <2>1, <2>2 DEF PackageInv
<1> QED
  BY <1>1, <1>2, <1>4, <1>5, <1>7

LEMMA LinkIntoRecord ==
  ASSUME NEW a, NEW b, NEW c, NEW m, NEW d, NEW s
  PROVE  LinkInto([program |-> a, text |-> b, local |-> c, imports |-> m], d, s)
           = [program |-> a, text |-> b, local |-> c, imports |-> Put(m, d, s)]
BY DEF LinkInto

LEMMA LinkKeeps ==
  ASSUME RenamesApart, ProjectInv, FilesInv, CompileInv, LinkNetworkDependency
  PROVE  CompileInv'
<1>1. /\ pc = "link" /\ pc' = "link" /\ at' = at /\ depHashes' = depHashes /\ results' = results
      /\ dirs' = dirs /\ source' = source /\ opts' = opts /\ order' = order
  BY DEF LinkNetworkDependency, projectVars, taskVars
<1>2. OrderInv /\ PackageInv /\ LoopInv
  BY <1>1 DEF CompileInv, Compiling
<1> DEFINE n == opts.network
           importers(d) == {effectiveUnitId(f) : f \in {g \in ToSet(order) : d \in NetworkDeps(dirs, source, g)}}
<1>3. PICK d \in unlinked :
        /\ unlinked' = unlinked \ {d}
        /\ \E s \in LinkedSources(d) :
             /\ netDep' = [netDep EXCEPT ![n][d] = {s}]
             /\ package' = [id \in Ids |->
                  IF id \notin importers(d) THEN package[id] ELSE {LinkInto(p, d, s) : p \in package[id]}]
  BY DEF LinkNetworkDependency
<1>4. PICK s \in LinkedSources(d) :
        /\ netDep' = [netDep EXCEPT ![n][d] = {s}]
        /\ package' = [id \in Ids |->
             IF id \notin importers(d) THEN package[id] ELSE {LinkInto(p, d, s) : p \in package[id]}]
  BY <1>3
<1>5. /\ \A f \in Units : effectiveUnitId(f) \in Ids
      /\ \A f, g \in Units : effectiveUnitId(f) = effectiveUnitId(g) => f = g
  BY <1>2, OneIdEach
<1>6. d \in Foreign /\ n \in Networks /\ d \in NeededDeps(Units)
  <2>1. d \in NeededDeps(Units) /\ n \in Networks
    BY <1>2, <1>3, <1>4, CompilerAssumption DEF PackageInv, OrderInv
  <2> QED
    BY <1>2, <2>1, FoldersOfProject DEF NeededDeps, OrderInv
<1>7. s \in OnChain[n]
  BY <1>3, <1>4, <1>6 DEF LinkedSources, FilesInv
<1>8. \A e \in Foreign : netDep'[n][e] = IF e = d THEN {s} ELSE netDep[n][e]
  BY <1>3, <1>4, <1>6 DEF FilesInv
<1>9. /\ Units' = Units /\ NeededDeps(Units)' = NeededDeps(Units)
      /\ \A f : effectiveUnitId(f)' = effectiveUnitId(f)
  BY <1>1 DEF Units, NeededDeps, effectiveUnitId
<1>10. \A f \in Units : Linking(f)' =
        [program |-> effectiveUnitId(f), text |-> source[f], local |-> LocalDeps(dirs, source, f),
         imports |-> [e \in NetworkDeps(dirs, source, f) \ unlinked' |->
                        IF e = d THEN s ELSE Member(netDep[n][e])]]
  <2> TAKE f \in Units
  <2>1. Linking(f)' =
          [program |-> effectiveUnitId(f), text |-> source[f], local |-> LocalDeps(dirs, source, f),
           imports |-> [e \in NetworkDeps(dirs, source, f) \ unlinked' |-> Member(netDep'[n][e])]]
    BY <1>1, <1>9 DEF Linking
  <2>2. NetworkDeps(dirs, source, f) \subseteq Foreign
    BY <1>2, FoldersOfProject DEF OrderInv
  <2>3. \A e \in Foreign : Member(netDep'[n][e]) = IF e = d THEN s ELSE Member(netDep[n][e])
    BY <1>8 DEF Member
  <2> QED
    BY <2>1, <2>2, <2>3
<1>11. ASSUME NEW f \in Units
       PROVE  package'[effectiveUnitId(f)] = {Linking(f)'}
  <2>1. package[effectiveUnitId(f)] = {Linking(f)}
    BY <1>2 DEF PackageInv
  <2>2. CASE d \in NetworkDeps(dirs, source, f)
    <3>1. effectiveUnitId(f) \in importers(d)
      BY <2>2 DEF Units
    <3>2. package'[effectiveUnitId(f)] = {LinkInto(Linking(f), d, s)}
      BY <1>3, <1>4, <1>5, <2>1, <3>1
    <3>3. NetworkDeps(dirs, source, f) \ unlinked' = (NetworkDeps(dirs, source, f) \ unlinked) \cup {d}
      BY <1>3, <1>4, <2>2
    <3>4. LinkInto(Linking(f), d, s) = Linking(f)'
      <4>1. Put([e \in NetworkDeps(dirs, source, f) \ unlinked |-> Member(netDep[n][e])], d, s)
              = [e \in NetworkDeps(dirs, source, f) \ unlinked' |->
                   IF e = d THEN s ELSE Member(netDep[n][e])]
        BY <3>3 DEF Put
      <4>2. LinkInto(Linking(f), d, s) =
              [program |-> effectiveUnitId(f), text |-> source[f], local |-> LocalDeps(dirs, source, f),
               imports |-> Put([e \in NetworkDeps(dirs, source, f) \ unlinked |-> Member(netDep[n][e])], d, s)]
        BY LinkIntoRecord DEF Linking
      <4> QED
        BY <1>10, <4>1, <4>2
    <3> QED
      BY <3>2, <3>4
  <2>3. CASE d \notin NetworkDeps(dirs, source, f)
    <3>1. effectiveUnitId(f) \notin importers(d)
      BY <1>5, <2>3 DEF Units
    <3>2. package'[effectiveUnitId(f)] = {Linking(f)}
      BY <1>3, <1>4, <1>5, <2>1, <3>1
    <3>3. /\ NetworkDeps(dirs, source, f) \ unlinked' = NetworkDeps(dirs, source, f) \ unlinked
          /\ d \notin NetworkDeps(dirs, source, f) \ unlinked
      BY <1>3, <1>4, <2>3
    <3>4. Linking(f)' = Linking(f)
      BY <1>10, <3>3 DEF Linking
    <3> QED
      BY <3>2, <3>4
  <2> QED
    BY <2>2, <2>3
<1>12. PackageInv'
  <2>1. \A e \in NeededDeps(Units) \ unlinked' : \E x \in OnChain[n] : netDep'[n][e] = {x}
    <3>1. NeededDeps(Units) \subseteq Foreign
      BY <1>2, FoldersOfProject DEF OrderInv, NeededDeps
    <3> QED
      BY <1>2, <1>3, <1>7, <1>8, <3>1 DEF PackageInv
  <2>2. unlinked' \subseteq NeededDeps(Units)'
    BY <1>2, <1>3, <1>9 DEF PackageInv
  <2>3. \A f \in Units' : package'[effectiveUnitId(f)'] = {Linking(f)'}
    BY <1>9, <1>11
  <2>4. (pc # "link" => unlinked = {})'
    BY <1>1, <1>2, <1>3, <1>4 DEF PackageInv
  <2>5. \A e \in NeededDeps(Units)' \ unlinked' : \E x \in OnChain[opts'.network] : netDep'[opts'.network][e] = {x}
    BY <1>1, <1>3, <1>9, <2>1
  <2> QED
    BY <2>2, <2>3, <2>4, <2>5 DEF PackageInv
<1>13. OrderInv'
  BY <1>1, <1>2 DEF OrderInv, Units, Deps
<1>14. LoopInv'
  <2>1. at = 1 /\ Before(at) = {}
    BY <1>1, <1>2 DEF LoopInv, Before
  <2>2. Before(at)' = {}
    BY <1>1, <2>1 DEF Before
  <2> QED
    BY <1>1, <1>2, <2>1, <2>2 DEF LoopInv
<1> QED
  BY <1>1, <1>12, <1>13, <1>14 DEF CompileInv

LEMMA LinkedKeeps ==
  ASSUME CompileInv, Linked
  PROVE  CompileInv'
<1>1. /\ pc = "link" /\ unlinked = {} /\ pc' = "units" /\ UNCHANGED Inputs
      /\ UNCHANGED <<package, build, torn, artifact, unlinked, at, depHashes, results>>
  BY DEF Linked, Inputs, projectVars, buildVars, outputVars, taskVars
<1>2. OrderInv /\ PackageInv /\ LoopInv
  BY <1>1 DEF CompileInv, Compiling
<1>3. OrderInv' /\ PackageInv'
  BY <1>1, <1>2, InputsStay
<1>4. Before(at)' = Before(at)
  BY <1>1 DEF Before, Inputs
<1>5. LoopInv'
  BY <1>1, <1>2, <1>4, InputsStay DEF LoopInv, Inputs
<1> QED
  BY <1>1, <1>3, <1>5 DEF CompileInv

-----------------------------------------------------------------------------
(* The units                                                               *)

(* The unit at a place of the order depends on those before it.            *)
LEMMA UnitAt ==
  ASSUME OrderInv, at \in DOMAIN order
  PROVE  /\ at \in 1 .. Len(order) /\ Len(order) \in Nat
         /\ order[at] \in Units /\ Deps[order[at]] \subseteq Before(at)
         /\ Before(at) \subseteq Before(at + 1) /\ Before(at + 1) = Before(at) \cup {order[at]}
<1>1. order \in Seq(Units) /\ at \in 1 .. Len(order) /\ Len(order) \in Nat
  BY DEF OrderInv, Ordered
<1>2. order[at] \in Units /\ Deps[order[at]] \subseteq Before(at)
  BY <1>1 DEF OrderInv, Ordered, Before
<1>3. 1 .. (at + 1) - 1 = (1 .. at - 1) \cup {at}
  BY <1>1
<1>4. Before(at + 1) = Before(at) \cup {order[at]}
  BY <1>3 DEF Before
<1> QED
  BY <1>1, <1>2, <1>4

(* After a unit is finished with the artifact of its build, the artifacts  *)
(* of all finished programs are their builds, and these are what is there  *)
(* now.                                                                    *)
LEMMA FinishedKeeps ==
  ASSUME RenamesApart, ProjectInv, FilesInv, OrderInv, LoopInv, at \in DOMAIN order,
         UNCHANGED Inputs,
         NEW builds,
         kind[order[at]] = "program" /\ effectiveUnitId(order[at]) \notin torn' =>
           builds = {Expected(order[at])},
         \A id \in Ids \ {effectiveUnitId(order[at])} : id \notin torn' => id \notin torn,
         \A id \in Ids : build'[id] = IF id = effectiveUnitId(order[at]) /\ kind[order[at]] # "library"
                                       THEN builds ELSE build[id],
         artifact' = Normalized(order[at], builds),
         Finished(order[at]), pc' = "units",
         DOMAIN depHashes' = Before(at + 1),
         \A f \in DOMAIN depHashes' : depHashes'[f] = Expected(f)
  PROVE  LoopInv'
<1> DEFINE u == order[at]
<1>1. /\ at' = at + 1 /\ results' = results \cup (IF kind[u] = "program" THEN {u} ELSE {})
      /\ order' = order
  BY DEF Finished, Inputs
<1>2. /\ at \in 1 .. Len(order) /\ Len(order) \in Nat /\ u \in Units
      /\ Before(at + 1) = Before(at) \cup {u}
  BY UnitAt
<1>3. /\ Before(at)' = Before(at + 1)
      /\ \A f : effectiveUnitId(f)' = effectiveUnitId(f) /\ Expected(f)' = Expected(f)
  BY <1>1, InputsStay DEF Before
<1>4. /\ \A f \in Units : effectiveUnitId(f) \in Ids
      /\ \A f, g \in Units : effectiveUnitId(f) = effectiveUnitId(g) => f = g
      /\ Before(at) \subseteq Units
  <2>1. Before(at) \subseteq Units
    <3>1. order \in Seq(Units) /\ \A j \in 1 .. at - 1 : j \in DOMAIN order
      BY <1>2 DEF OrderInv, Ordered
    <3> QED
      BY <3>1 DEF Before
  <2> QED
    BY <2>1, OneIdEach
<1>5. kind[u] # "library" =>
        artifact' = [artifact EXCEPT ![effectiveUnitId(u)] =
                       {[product |-> b, sidecar |-> Sidecar(u, b)] : b \in builds}]
  BY DEF Normalized
<1>6. kind[u] = "library" => artifact' = artifact /\ \A id \in Ids : build'[id] = build[id]
  BY DEF Normalized
<1>7. kind[u] # "library" =>
        /\ build'[effectiveUnitId(u)] = builds
        /\ {a.product : a \in artifact'[effectiveUnitId(u)]} = builds
  <2> SUFFICES ASSUME kind[u] # "library"
               PROVE  /\ build'[effectiveUnitId(u)] = builds
                      /\ {a.product : a \in artifact'[effectiveUnitId(u)]} = builds
    OBVIOUS
  <2> DEFINE Copy(b) == [product |-> b, sidecar |-> Sidecar(u, b)]
  <2>1. effectiveUnitId(u) \in Ids /\ artifact'[effectiveUnitId(u)] = {Copy(b) : b \in builds}
    BY <1>2, <1>4, <1>5 DEF FilesInv
  <2>2. \A b \in builds : Copy(b).product = b
    OBVIOUS
  <2> HIDE DEF Copy
  <2>3. {a.product : a \in {Copy(b) : b \in builds}} = builds
    BY <2>2
  <2> QED
    BY <2>1, <2>3
<1>8. \A f \in Units \ {u} :
        /\ build'[effectiveUnitId(f)] = build[effectiveUnitId(f)]
        /\ artifact'[effectiveUnitId(f)] = artifact[effectiveUnitId(f)]
  BY <1>2, <1>4, <1>5, <1>6 DEF FilesInv
<1>9. ASSUME NEW f \in results'
      PROVE  /\ f \in Before(at + 1) /\ kind[f] = "program"
             /\ {a.product : a \in artifact'[effectiveUnitId(f)]} = build'[effectiveUnitId(f)]
             /\ effectiveUnitId(f) \notin torn' => build'[effectiveUnitId(f)] = {Expected(f)}
  <2>1. CASE f = u
    <3>1. kind[u] = "program"
      BY <1>1, <2>1 DEF LoopInv
    <3> QED
      BY <1>2, <1>7, <2>1, <3>1
  <2>2. CASE f # u
    <3>1. f \in results /\ f \in Units
      BY <1>1, <1>4, <2>2 DEF LoopInv
    <3>2. effectiveUnitId(f) \in Ids /\ effectiveUnitId(f) # effectiveUnitId(u)
      BY <1>2, <1>4, <2>2, <3>1
    <3> QED
      BY <1>2, <1>8, <2>2, <3>1, <3>2 DEF LoopInv
  <2> QED
    BY <2>1, <2>2
<1>10. at' \in 1 .. Len(order') + 1
  BY <1>1, <1>2
<1>11. DOMAIN depHashes' = Before(at)' /\ \A f \in DOMAIN depHashes' : depHashes'[f] = Expected(f)'
  BY <1>3
<1>12. \A f \in results' :
        /\ f \in Before(at)' /\ kind[f] = "program"
        /\ {a.product : a \in artifact'[effectiveUnitId(f)']} = build'[effectiveUnitId(f)']
        /\ effectiveUnitId(f)' \notin torn' => build'[effectiveUnitId(f)'] = {Expected(f)'}
  BY <1>3, <1>9
<1> QED
  BY <1>10, <1>11, <1>12 DEF LoopInv

LEMMA CompileUnitKeeps ==
  ASSUME RenamesApart, ProjectInv, FilesInv, CacheInv, CompileInv, CompileUnit
  PROVE  CompileInv'
<1> DEFINE u == order[at]
           h == computeUnitHash(u)
<1>1. /\ pc = "units" /\ at \in DOMAIN order /\ depHashes' = Put(depHashes, u, h)
      /\ UseCached(u, h) \/ StartBuild(u, h)
      /\ UNCHANGED Inputs /\ UNCHANGED <<package, build, torn, unlinked>>
  BY DEF CompileUnit, Inputs, projectVars, buildVars, taskVars
<1>2. OrderInv /\ PackageInv /\ LoopInv /\ unlinked = {}
  BY <1>1 DEF CompileInv, Compiling, PackageInv
<1>3. OrderInv' /\ PackageInv'
  BY <1>1, <1>2, InputsStay
<1>4. /\ at \in 1 .. Len(order) /\ u \in Units /\ Deps[u] \subseteq Before(at)
      /\ Before(at + 1) = Before(at) \cup {u}
  BY <1>1, <1>2, UnitAt
<1>5. DOMAIN depHashes = Before(at) /\ \A f \in Before(at) : depHashes[f] = Expected(f)
  BY <1>1, <1>2 DEF LoopInv
<1>6. h = Expected(u)
  BY <1>2, <1>4, <1>5, HashIsExpected
<1> HIDE DEF h
<1>7. DOMAIN depHashes' = Before(at + 1) /\ \A f \in DOMAIN depHashes' : depHashes'[f] = Expected(f)
  BY <1>1, <1>4, <1>5, <1>6 DEF Put
<1>8. CASE UseCached(u, h)
  <2>1. /\ artifact' = Normalized(u, build[effectiveUnitId(u)]) /\ Finished(u) /\ pc' = "units"
        /\ kind[u] = "program" => build[effectiveUnitId(u)] # {}
        /\ h \in hash[CacheId(u)]
    BY <1>1, <1>8 DEF UseCached, Hit, isCached
  <2>2. \A id \in Ids : build'[id] = IF id = effectiveUnitId(u) /\ kind[u] # "library"
                                      THEN build[effectiveUnitId(u)] ELSE build[id]
    BY <1>1
  <2>3. kind[u] = "program" /\ effectiveUnitId(u) \notin torn' => build[effectiveUnitId(u)] = {Expected(u)}
    <3>1. CacheId(u) \in CacheIds /\ CacheId(u)[1] = u /\ CacheId(u)[2] = effectiveUnitId(u)
      BY <1>2, <1>4, OwnEntry
    <3>2. kind[u] = "program" /\ effectiveUnitId(u) \notin torn =>
            \A b \in build[effectiveUnitId(u)] : b = Expected(u)
      BY <1>6, <2>1, <3>1 DEF CacheInv
    <3> QED
      BY <1>1, <2>1, <3>2
  <2>4. LoopInv'
    BY <1>1, <1>2, <1>7, <2>1, <2>2, <2>3, FinishedKeeps
  <2> QED
    BY <1>3, <2>1, <2>4 DEF CompileInv
<1>9. CASE StartBuild(u, h)
  <2>1. pc' = "building" /\ UNCHANGED <<artifact, results, at>>
    BY <1>9 DEF StartBuild
  <2>2. /\ order' = order /\ Before(at)' = Before(at) /\ Before(at + 1)' = Before(at + 1)
        /\ \A f : effectiveUnitId(f)' = effectiveUnitId(f) /\ Expected(f)' = Expected(f)
    BY <1>1, <2>1, InputsStay DEF Before, Inputs
  <2>3. LoopInv'
    BY <1>1, <1>2, <1>7, <2>1, <2>2 DEF LoopInv
  <2> QED
    BY <1>3, <2>1, <2>3 DEF CompileInv
<1> QED
  BY <1>1, <1>8, <1>9

LEMMA BuildReturnsKeeps ==
  ASSUME RenamesApart, ProjectInv, FilesInv, CompileInv, BuildReturns
  PROVE  CompileInv'
<1> DEFINE u == order[at]
<1>1. /\ pc = "building" /\ build' = [build EXCEPT ![effectiveUnitId(u)] = Built(u)]
      /\ artifact' = Normalized(u, Built(u)) /\ Finished(u) /\ pc' = "units"
      /\ torn' = torn \ {effectiveUnitId(u)}
      /\ UNCHANGED Inputs /\ UNCHANGED <<package, unlinked, depHashes>>
  BY DEF BuildReturns, Inputs, projectVars, taskVars
<1>2. OrderInv /\ PackageInv /\ LoopInv /\ unlinked = {} /\ at \in DOMAIN order
  BY <1>1 DEF CompileInv, Compiling, PackageInv, LoopInv
<1>3. OrderInv' /\ PackageInv'
  BY <1>1, <1>2, InputsStay
<1>4. DOMAIN depHashes' = Before(at + 1) /\ \A f \in DOMAIN depHashes' : depHashes'[f] = Expected(f)
  BY <1>1, <1>2 DEF LoopInv
<1>5. /\ kind[u] = "library" => Built(u) = build[effectiveUnitId(u)]
      /\ kind[u] = "program" => Built(u) = {Expected(u)}
  BY <1>1, BuiltIsHashed
<1>6. \A id \in Ids : build'[id] = IF id = effectiveUnitId(u) /\ kind[u] # "library"
                                    THEN Built(u) ELSE build[id]
  BY <1>1, <1>5 DEF FilesInv
<1>7. LoopInv'
  BY <1>1, <1>2, <1>4, <1>5, <1>6, FinishedKeeps
<1> QED
  BY <1>1, <1>3, <1>7 DEF CompileInv

-----------------------------------------------------------------------------
(* The end of compile                                                      *)

(* The bindings that are written are those of the programs compiled.       *)
LEMMA BindingsWritten ==
  ASSUME ProjectInv, FilesInv, OrderInv, LoopInv, ModulesFree, WriteModules(results), results # {}
  PROVE  /\ \A f \in results : typechain'[moduleStem[unitId(f)]] = {Module(f)}
         /\ \A m \in typechain'["basecontract"] : m.program = "BaseContract"
<1>1. /\ DOMAIN typechain = Range(moduleStem) /\ "basecontract" \in Range(moduleStem)
  BY ProjectAssumption DEF FilesInv
<1>2. ASSUME NEW f \in results
      PROVE  /\ moduleStem[unitId(f)] \in Range(moduleStem)
             /\ moduleStem[unitId(f)] # "basecontract"
             /\ {g \in results : moduleStem[unitId(g)] = moduleStem[unitId(f)]} = {f}
  <2>1. kind[f] = "program" /\ f \in Before(at)
    BY <1>2 DEF LoopInv
  <2>2. f \in Units
    <3>1. order \in Seq(Units) /\ \A j \in 1 .. at - 1 : j \in DOMAIN order
      BY DEF OrderInv, Ordered, LoopInv
    <3> QED
      BY <2>1, <3>1 DEF Before
  <2>3. f \in DOMAIN folderName
    BY <2>2, FoldersOfProject DEF OrderInv, Folders
  <2>4. moduleStem[unitId(f)] \in Range(moduleStem)
    BY <2>1, <2>3, ProjectAssumption DEF Range
  <2> QED
    BY <1>2, <2>4 DEF ModulesFree, ModuleNamesUnique
<1>3. ASSUME NEW f \in results
      PROVE  typechain'[moduleStem[unitId(f)]] = {Module(f)}
  <2> DEFINE stem == moduleStem[unitId(f)]
             here == {g \in results : moduleStem[unitId(g)] = stem}
  <2>1. stem \in DOMAIN typechain /\ stem # "basecontract" /\ here = {f}
    BY <1>1, <1>2, <1>3
  <2>2. typechain'[stem] = {Module(Member(here))}
    BY <2>1 DEF WriteModules
  <2> QED
    BY <2>1, <2>2 DEF Member
<1>4. \A m \in typechain'["basecontract"] : m.program = "BaseContract"
  BY <1>1 DEF WriteModules
<1> QED
  BY <1>3, <1>4

LEMMA CompileReturnsKeeps ==
  ASSUME ProjectInv, FilesInv, CompileInv, CompileReturns
  PROVE  CompileInv'
<1>1. /\ pc = "units" /\ pc' = "returned" /\ UNCHANGED Inputs
      /\ UNCHANGED <<package, build, torn, artifact, unlinked, at, depHashes, results>>
      /\ opts.typechain => ModulesFree /\ WriteModules(results)
  BY DEF CompileReturns, Inputs, projectVars, buildVars, taskVars
<1>2. OrderInv /\ PackageInv /\ LoopInv /\ unlinked = {}
  BY <1>1 DEF CompileInv, Compiling, PackageInv
<1>3. OrderInv' /\ PackageInv'
  BY <1>1, <1>2, InputsStay
<1>4. Before(at)' = Before(at) /\ order' = order /\ opts' = opts
  BY <1>1 DEF Before, Inputs
<1>5. /\ \A f : effectiveUnitId(f)' = effectiveUnitId(f) /\ Expected(f)' = Expected(f)
  BY <1>1, InputsStay
<1>6. LoopInv'
  BY <1>1, <1>2, <1>4, <1>5 DEF LoopInv
<1>7. BindingsOwned'
  <2>1. \A f : Module(f)' = Module(f)
    BY <1>1, <1>5 DEF Module
  <2> QED
    BY <1>1, <1>2, <1>4, <2>1, BindingsWritten DEF BindingsOwned
<1> QED
  BY <1>1, <1>3, <1>6, <1>7 DEF CompileInv

LEMMA CompileStepKeeps ==
  ASSUME EditWhileCompiling = FALSE, RenamesApart, ProjectInv, FilesInv, CacheInv, CompileInv, Next
  PROVE  CompileInv'
<1>1. pc' = "idle" => CompileInv'
  BY DEF CompileInv, Compiling
<1>2. ASSUME NEW o \in Requests, MaterializeCut(o)
      PROVE  pc' = "idle"
  BY <1>2 DEF MaterializeCut, Compiling, loopVars
<1>3. Clean \/ Change => pc' = "idle"
  BY DEF Clean, Change, Compiling, loopVars
<1>4. BuildCut \/ CompileThrows \/ BindingsThrow \/ Return => pc' = "idle"
  BY DEF BuildCut, CompileThrows, BindingsThrow, Return, Stop
<1> QED
  BY <1>1, <1>2, <1>3, <1>4, CompileBeginsKeeps, LinkKeeps, LinkedKeeps, CompileUnitKeeps,
     BuildReturnsKeeps, CompileReturnsKeeps DEF Next

(* While a backend runs, compile does not.                                 *)
LEMMA BackendKeepsFresh ==
  ASSUME FreshInv, DeployBegins \/ BackendStep,
         UNCHANGED <<projectVars, package, hash, netDep, outputVars, opts, order, loopVars>>
  PROVE  FreshInv'
<1>1. ~Compiling
  BY DEF FreshInv, DeployBegins, BackendStep, Deploying, LeoNotSpawned, LeoTimesOut, LeoReturns,
         DeployContinues, LeoExits
<1>2. pc = "idle" /\ pc' = "idle"
  BY <1>1 DEF Compiling, loopVars
<1>3. /\ UNCHANGED <<dirs, source, package, artifact, typechain, chain, netDep>>
  BY DEF projectVars, outputVars
<1>4. UNCHANGED <<build, torn>> \/ \E id, products : LeavesBuild(id, products)
  <2>1. ASSUME NEW exit, LeoExits(exit)
        PROVE  \E id, products : LeavesBuild(id, products)
    BY <2>1 DEF LeoExits
  <2> QED
    BY <2>1 DEF DeployBegins, BackendStep, SdkBuilds, LeoSpawns, LeoNotSpawned, LeoTimesOut, LeoReturns,
                DeployContinues
<1>5. FilesInv'
  BY <1>3, <1>4 DEF FreshInv, FilesInv, LeavesBuild
<1>6. ProjectInv'
  BY <1>3 DEF FreshInv, ProjectInv
<1>7. CacheInv'
  <2>1. DOMAIN build = Ids /\ CacheInv /\ UNCHANGED <<dirs, hash>>
    BY <1>3 DEF FreshInv, FilesInv
  <2>2. UNCHANGED <<build, torn>> => CacheInv'
    BY <2>1 DEF CacheInv
  <2> QED
    BY <1>4, <2>1, <2>2, LeavesBuildKeeps
<1> QED
  BY <1>2, <1>5, <1>6, <1>7 DEF FreshInv, CompileInv, Compiling

LEMMA FreshInitial == BackendInit => FreshInv
<1> SUFFICES ASSUME BackendInit
             PROVE  FreshInv
  OBVIOUS
<1>1. PICK l \in Layouts : dirs = l.dirs /\ source = l.text
  BY DEF BackendInit, Init
<1>2. ProjectInv
  BY <1>1, ProjectAssumption DEF ProjectInv
<1>3. \A n \in Networks : Member(OnChain[n]) \in OnChain[n]
  BY CompilerAssumption DEF Member
<1>4. FilesInv
  BY <1>3 DEF BackendInit, Init, FilesInv
<1>5. CacheInv
  BY DEF BackendInit, Init, CacheInv
<1> QED
  BY <1>2, <1>4, <1>5 DEF BackendInit, Init, FreshInv, CompileInv, Compiling

(* compile takes the units of a project in an order that puts each after   *)
(* what it imports, a single program with what it needs and nothing else,  *)
(* and rejects a project only if a name is claimed twice or reserved, a    *)
(* program lacks its declaration, or there is no such order.  For any      *)
(* project, however it is edited.  (resolveDependencies(),                 *)
(* collectTransitiveDeps().)                                               *)
THEOREM CompileOrder == BackendSpec => []CompileOrderValid
<1>1. BackendInit => ProjectInv
  BY FreshInitial DEF FreshInv
<1>2. ProjectInv /\ [BackendNext]_<<vars, backendVars>> => ProjectInv'
  BY ProjectKept DEF BackendNext, vars, projectVars
<1> QED
  BY <1>1, <1>2, OrderOfProject, PTL DEF BackendSpec

LEMMA FreshResults ==
  RenamesApart /\ FreshInv => ResultsFresh
<1> SUFFICES ASSUME RenamesApart, FreshInv, pc = "returned"
             PROVE  ArtifactsFresh /\ BindingsOwned
  BY DEF ResultsFresh
<1>1. OrderInv /\ LoopInv /\ BindingsOwned /\ FilesInv /\ ProjectInv
  BY DEF FreshInv, CompileInv, Compiling
<1>2. ASSUME NEW f \in results
      PROVE  /\ f \in Units
             /\ effectiveUnitId(f) \notin torn =>
                  {a.product : a \in artifact[effectiveUnitId(f)]} = {Expected(f)}
  <2>1. f \in Before(at)
    BY <1>1, <1>2 DEF LoopInv
  <2>2. order \in Seq(Units) /\ \A j \in 1 .. at - 1 : j \in DOMAIN order
    BY <1>1 DEF OrderInv, Ordered, LoopInv
  <2>3. f \in Units
    BY <2>1, <2>2 DEF Before
  <2> QED
    BY <1>1, <1>2, <2>3 DEF LoopInv
<1>3. ASSUME NEW f \in results, NEW d \in NetworkDeps(dirs, source, f)
      PROVE  netDep[opts.network][d] \subseteq OnChain[opts.network]
  <2>1. f \in ToSet(dirs) /\ opts.network \in Networks
    BY <1>1, <1>2, <1>3, CompilerAssumption DEF OrderInv
  <2>2. d \in Foreign
    BY <1>1, <1>3, <2>1, FoldersOfProject
  <2> QED
    BY <1>1, <2>1, <2>2 DEF FilesInv
<1> QED
  BY <1>1, <1>2, <1>3 DEF ArtifactsFresh

(* What compile returns was made from the project and the network          *)
(* dependencies as they are, and every program has its own module:         *)
(* whatever was edited, upgraded, removed or served from the cache before, *)
(* and wherever earlier compiles died or threw, except of a build that was *)
(* left beside the cache entry of an earlier one (compilePipeline() writes *)
(* the entry last).  For any project that is not edited meanwhile, and any *)
(* requests that rename no program to the id of another unit and no two    *)
(* programs to one id.                                                     *)
THEOREM CompileResultsFresh ==
  ASSUME EditWhileCompiling = FALSE, RenamesApart
  PROVE  BackendSpec => []ResultsFresh
<1>1. FreshInv /\ [BackendNext]_<<vars, backendVars>> => FreshInv'
  <2> SUFFICES ASSUME FreshInv, [BackendNext]_<<vars, backendVars>>
               PROVE  FreshInv'
    OBVIOUS
  <2>1. CASE /\ DeployBegins \/ BackendStep
             /\ UNCHANGED <<projectVars, package, hash, netDep, outputVars, opts, order, loopVars>>
    BY <2>1, BackendKeepsFresh
  <2>2. CASE ~Deploying /\ Next /\ UNCHANGED backendVars
    <3>1. ProjectInv' /\ FilesInv' /\ CacheInv' /\ CompileInv'
      BY <2>2, ProjectKept, FilesKept, CacheKept, CompileStepKeeps DEF FreshInv
    <3> QED
      BY <2>2, <3>1 DEF FreshInv, Deploying, backendVars
  <2>3. CASE UNCHANGED <<vars, backendVars>>
    <3>1. UNCHANGED Inputs /\ UNCHANGED <<package, build, hash, torn, artifact, typechain, chain, pc,
                                          unlinked, at, depHashes, results, deploy>>
      BY <2>3 DEF vars, projectVars, buildVars, outputVars, taskVars, loopVars, backendVars, Inputs
    <3>2. ProjectInv' /\ FilesInv' /\ CacheInv'
      BY <3>1 DEF FreshInv, ProjectInv, FilesInv, CacheInv, Inputs
    <3>3. CompileInv'
      <4>1. /\ \A f : effectiveUnitId(f)' = effectiveUnitId(f) /\ Expected(f)' = Expected(f)
            /\ Before(at)' = Before(at) /\ Before(at + 1)' = Before(at + 1)
            /\ order' = order /\ opts' = opts
        BY <3>1, InputsStay DEF Before, Inputs
      <4>2. OrderInv => OrderInv'
        BY <3>1, InputsStay
      <4>3. PackageInv => PackageInv'
        BY <3>1, InputsStay
      <4>4. LoopInv => LoopInv'
        BY <3>1, <4>1 DEF LoopInv
      <4>5. BindingsOwned => BindingsOwned'
        BY <3>1, <4>1 DEF BindingsOwned, Module
      <4> QED
        BY <3>1, <4>2, <4>3, <4>4, <4>5 DEF FreshInv, CompileInv, Compiling
    <3> QED
      BY <3>1, <3>2, <3>3 DEF FreshInv, Compiling, Deploying
  <2> QED
    BY <2>1, <2>2, <2>3 DEF BackendNext
<1>2. FreshInv => ResultsFresh
  BY FreshResults
<1> QED
  BY <1>1, <1>2, FreshInitial, PTL DEF BackendSpec

-----------------------------------------------------------------------------
(* The sources an execution is given                                       *)

(* What can be read imports nothing that is not importable.                *)
SourcesKnown(n) ==
  \A id \in Importable : \A s \in SourceOf(n, id) : parseImportIds(s) \subseteq Importable

SourceRead(n, id) == Member(SourceOf(n, id))

FetchEnded(w) == w.todo \subseteq w.met \/ ~w.ok

FetchNext(n, w) ==
  LET id == Member(w.todo \ w.met)
  IN  IF SourceOf(n, id) = {} THEN [w EXCEPT !.ok = FALSE]
      ELSE [w EXCEPT !.todo = @ \cup parseImportIds(SourceRead(n, id)), !.met = @ \cup {id}]

FetchFunction(V, n) == V = [w \in Fetches |-> IF FetchEnded(w) THEN w ELSE V[FetchNext(n, w)]]

FetchStart(ids, acc) == [todo |-> ids, met |-> DOMAIN acc.imports, ok |-> TRUE]

LEMMA VisitImportsIs ==
  ASSUME NEW n, NEW ids, NEW acc, \E V : FetchFunction(V, n)
  PROVE  \E V : /\ FetchFunction(V, n)
               /\ LET end == V[FetchStart(ids, acc)]
                  IN  VisitImports(n, ids, acc)
                        = [ok |-> end.ok,
                           imports |-> [id \in end.met |->
                             IF id \in DOMAIN acc.imports THEN acc.imports[id] ELSE SourceRead(n, id)]]
<1> DEFINE W == CHOOSE V : FetchFunction(V, n)
           end == W[FetchStart(ids, acc)]
<1>1. FetchFunction(W, n)
  OBVIOUS
<1>2. VisitImports(n, ids, acc)
        = [ok |-> end.ok,
           imports |-> [id \in end.met |->
             IF id \in DOMAIN acc.imports THEN acc.imports[id] ELSE SourceRead(n, id)]]
  BY DEF VisitImports, FetchFunction, FetchEnded, FetchNext, FetchStart, SourceRead
<1> QED
  BY <1>1, <1>2

LEMMA MemberIs ==
  ASSUME NEW S, S # {}
  PROVE  Member(S) \in S
BY DEF Member

(* A step meets an id or finds that it is nowhere.                         *)
LEMMA FetchNextStep ==
  ASSUME NEW n, SourcesKnown(n), NEW w \in Fetches, ~FetchEnded(w)
  PROVE  LET id == Member(w.todo \ w.met)
             v == FetchNext(n, w)
         IN  /\ v \in Fetches /\ id \in w.todo \ w.met
             /\ \/ SourceOf(n, id) = {} /\ v = [w EXCEPT !.ok = FALSE]
                \/ /\ SourceRead(n, id) \in SourceOf(n, id)
                   /\ v.todo = w.todo \cup parseImportIds(SourceRead(n, id))
                   /\ v.met = w.met \cup {id} /\ v.ok
<1> DEFINE id == Member(w.todo \ w.met)
           v == FetchNext(n, w)
<1>1. id \in w.todo \ w.met /\ w.ok = TRUE /\ w.todo \subseteq Importable /\ w.met \subseteq Importable
  <2>1. w.todo \ w.met # {}
    BY DEF FetchEnded
  <2> QED
    BY <2>1, MemberIs DEF FetchEnded, Fetches
<1> HIDE DEF id
<1>2. CASE SourceOf(n, id) = {}
  BY <1>1, <1>2 DEF FetchNext, Fetches, id
<1>3. CASE SourceOf(n, id) # {}
  <2>1. SourceRead(n, id) \in SourceOf(n, id)
    BY <1>3, MemberIs DEF SourceRead
  <2>2. parseImportIds(SourceRead(n, id)) \subseteq Importable
    BY <1>1, <2>1 DEF SourcesKnown
  <2>3. v = [w EXCEPT !.todo = @ \cup parseImportIds(SourceRead(n, id)), !.met = @ \cup {id}]
    BY <1>3 DEF FetchNext, id
  <2> HIDE DEF v
  <2>4. /\ v.todo = w.todo \cup parseImportIds(SourceRead(n, id))
        /\ v.met = w.met \cup {id} /\ v.ok /\ v \in Fetches
    BY <1>1, <2>2, <2>3 DEF Fetches
  <2> QED
    BY <1>1, <2>1, <2>4 DEF v, id
<1> QED
  BY <1>2, <1>3

LEMMA FetchesEnd ==
  ASSUME NEW n, SourcesKnown(n)
  PROVE  Ends(Fetches, {w \in Fetches : FetchEnded(w)},
              [w \in Fetches |-> IF FetchEnded(w) THEN w ELSE FetchNext(n, w)])
<1> DEFINE End == {w \in Fetches : FetchEnded(w)}
           next == [w \in Fetches |-> IF FetchEnded(w) THEN w ELSE FetchNext(n, w)]
<1> SUFFICES ASSUME NEW T \in SUBSET Fetches, T # {}
             PROVE  \E w \in T : w \notin End => next[w] \notin T
  BY DEF Ends
<1> DEFINE inside == [w \in T |-> w.met]
           before == [w \in T |-> IF w.ok THEN 1 ELSE 0]
<1>1. inside \in [T -> SUBSET Importable] /\ before \in [T -> Nat]
  BY DEF Fetches
<1>2. IsFiniteSet(Importable)
  BY ArtifactsAssumption
<1>3. PICK w \in T : \A v \in T :
        /\ inside[w] \subseteq inside[v] => inside[v] = inside[w]
        /\ inside[v] = inside[w] => ~(before[v] < before[w])
  <2> HIDE DEF inside, before, next, End
  <2> QED
    BY <1>1, <1>2, LowestMember
<1>4. ASSUME w \notin End, next[w] \in T
      PROVE  FALSE
  <2> DEFINE v == FetchNext(n, w)
             id == Member(w.todo \ w.met)
  <2>1. ~FetchEnded(w) /\ w \in Fetches /\ w.ok = TRUE
    BY <1>4 DEF FetchEnded, Fetches
  <2>2. v \in T
    BY <1>4, <2>1
  <2>3. /\ id \notin w.met
        /\ v = [w EXCEPT !.ok = FALSE] \/ v.met = w.met \cup {id}
    BY <2>1, FetchNextStep
  <2> HIDE DEF v, id
  <2>4. inside[v] = v.met /\ inside[w] = w.met /\ before[v] = (IF v.ok THEN 1 ELSE 0) /\ before[w] = 1
    BY <2>1, <2>2
  <2>5. CASE v = [w EXCEPT !.ok = FALSE]
    <3>1. v.met = w.met /\ ~v.ok
      BY <2>1, <2>5 DEF Fetches
    <3>2. inside[v] = inside[w] /\ before[v] = 0 /\ before[w] = 1
      BY <2>4, <3>1
    <3> HIDE DEF inside, before
    <3>3. ~(before[v] < before[w])
      BY <1>3, <2>2, <3>2
    <3> QED
      BY <3>2, <3>3
  <2>6. CASE v.met = w.met \cup {id}
    <3> HIDE DEF inside, before
    <3> QED
      BY <1>3, <2>2, <2>3, <2>4, <2>6
  <2> QED
    BY <2>3, <2>5, <2>6
<1> QED
  BY <1>4

LEMMA FetchDefined ==
  ASSUME NEW n, SourcesKnown(n)
  PROVE  \E V : FetchFunction(V, n)
<1> DEFINE End == {w \in Fetches : FetchEnded(w)}
           next == [w \in Fetches |-> IF FetchEnded(w) THEN w ELSE FetchNext(n, w)]
<1>1. next \in [Fetches -> Fetches]
  BY FetchNextStep
<1>2. Ends(Fetches, End, next)
  BY FetchesEnd
<1>3. PICK V : Loop(V, Fetches, End, next)
  <2> HIDE DEF End, next
  <2> QED
    BY <1>1, <1>2, LoopDefined
<1>4. FetchFunction(V, n)
  BY <1>3 DEF Loop, FetchFunction
<1> QED
  BY <1>4


Called(m) == UNION {parseImportIds(m[i]) : i \in DOMAIN m}

(* Where the walk is: it came to what is asked for and to what the sources *)
(* it read import, and to nothing else.                                    *)
Fetching(n, ids, M) ==
  {w \in Fetches :
     /\ ids \subseteq w.todo /\ M \subseteq w.met /\ w.met \ M \subseteq w.todo
     /\ \A id \in w.met \ M :
          /\ SourceRead(n, id) \in SourceOf(n, id)
          /\ parseImportIds(SourceRead(n, id)) \subseteq w.todo
     /\ w.todo \subseteq ids \cup UNION {parseImportIds(SourceRead(n, id)) : id \in w.met \ M}
     /\ ~w.ok => \E id \in w.todo : SourceOf(n, id) = {}}

LEMMA FetchingKept ==
  ASSUME NEW n, SourcesKnown(n), NEW ids, NEW M, NEW w \in Fetching(n, ids, M), ~FetchEnded(w)
  PROVE  FetchNext(n, w) \in Fetching(n, ids, M)
<1> DEFINE id == Member(w.todo \ w.met)
           v == FetchNext(n, w)
<1>1. /\ w \in Fetches
      /\ ids \subseteq w.todo /\ M \subseteq w.met /\ w.met \ M \subseteq w.todo
      /\ \A i \in w.met \ M :
           /\ SourceRead(n, i) \in SourceOf(n, i)
           /\ parseImportIds(SourceRead(n, i)) \subseteq w.todo
      /\ w.todo \subseteq ids \cup UNION {parseImportIds(SourceRead(n, i)) : i \in w.met \ M}
  BY DEF Fetching
<1>2. /\ v \in Fetches /\ id \in w.todo \ w.met
      /\ \/ SourceOf(n, id) = {} /\ v = [w EXCEPT !.ok = FALSE]
         \/ /\ SourceRead(n, id) \in SourceOf(n, id)
            /\ v.todo = w.todo \cup parseImportIds(SourceRead(n, id))
            /\ v.met = w.met \cup {id} /\ v.ok
  BY <1>1, FetchNextStep
<1> HIDE DEF v, id
<1>3. CASE SourceOf(n, id) = {} /\ v = [w EXCEPT !.ok = FALSE]
  <2>1. v.todo = w.todo /\ v.met = w.met
    BY <1>1, <1>3 DEF Fetches
  <2>2. \E i \in v.todo : SourceOf(n, i) = {}
    BY <1>2, <1>3, <2>1
  <2> QED
    BY <1>1, <1>2, <2>1, <2>2 DEF Fetching, v
<1>4. CASE /\ SourceRead(n, id) \in SourceOf(n, id)
           /\ v.todo = w.todo \cup parseImportIds(SourceRead(n, id))
           /\ v.met = w.met \cup {id} /\ v.ok
  <2>1. v.met \ M = (w.met \ M) \cup {id}
    BY <1>1, <1>2, <1>4
  <2>2. UNION {parseImportIds(SourceRead(n, i)) : i \in v.met \ M}
          = parseImportIds(SourceRead(n, id)) \cup UNION {parseImportIds(SourceRead(n, i)) : i \in w.met \ M}
    BY <2>1
  <2>3. \A i \in v.met \ M :
          /\ SourceRead(n, i) \in SourceOf(n, i)
          /\ parseImportIds(SourceRead(n, i)) \subseteq v.todo
    BY <1>1, <1>4, <2>1
  <2>4. ids \subseteq v.todo /\ M \subseteq v.met /\ v.met \ M \subseteq v.todo
    BY <1>1, <1>2, <1>4, <2>1
  <2>5. v.todo \subseteq ids \cup UNION {parseImportIds(SourceRead(n, i)) : i \in v.met \ M}
    BY <1>1, <1>4, <2>2
  <2> QED
    BY <1>2, <1>4, <2>3, <2>4, <2>5 DEF Fetching, v
<1> QED
  BY <1>2, <1>3, <1>4

(* visit() leaves what is there and adds, each with the source that is     *)
(* read for it, what is asked for and what the sources it adds import; it  *)
(* fails only if one of these is nowhere.                                  *)
LEMMA VisitAdds ==
  ASSUME NEW n, SourcesKnown(n), NEW ids \in SUBSET Importable,
         NEW acc, DOMAIN acc.imports \subseteq Importable
  PROVE  LET r == VisitImports(n, ids, acc)
             M == DOMAIN acc.imports
             m == r.imports
         IN  /\ r = [ok |-> r.ok, imports |-> m] /\ r.ok \in BOOLEAN
             /\ M \subseteq DOMAIN m /\ DOMAIN m \subseteq Importable
             /\ \A i \in M : m[i] = acc.imports[i]
             /\ \A i \in DOMAIN m \ M :
                  /\ SourceOf(n, i) # {} /\ m[i] = SourceRead(n, i)
                  /\ i \in ids \cup Called(m)
                  /\ r.ok => parseImportIds(m[i]) \subseteq DOMAIN m
             /\ r.ok => ids \subseteq DOMAIN m
             /\ ~r.ok => \E i \in ids \cup Called(m) : SourceOf(n, i) = {}
<1> DEFINE End == {w \in Fetches : FetchEnded(w)}
           next == [w \in Fetches |-> IF FetchEnded(w) THEN w ELSE FetchNext(n, w)]
           M == DOMAIN acc.imports
           start == FetchStart(ids, acc)
           I == Fetching(n, ids, M)
<1>1. \E V : FetchFunction(V, n)
  BY FetchDefined
<1>2. PICK V : /\ FetchFunction(V, n)
               /\ LET end == V[start]
                  IN  VisitImports(n, ids, acc)
                        = [ok |-> end.ok,
                           imports |-> [id \in end.met |->
                             IF id \in M THEN acc.imports[id] ELSE SourceRead(n, id)]]
  BY <1>1, VisitImportsIs
<1>3. Loop(V, Fetches, End, next)
  BY <1>2 DEF Loop, FetchFunction
<1>4. start \in I
  BY DEF Fetching, FetchStart, Fetches
<1>5. V[start] \in I \cap End
  <2>1. Ends(Fetches, End, next)
    BY FetchesEnd
  <2>2. I \in SUBSET Fetches
    BY DEF Fetching
  <2>3. \A w \in I : w \notin End => next[w] \in I
    BY <2>2, FetchingKept
  <2> HIDE DEF End, next, I, start
  <2> QED
    BY <1>3, <1>4, <2>1, <2>2, <2>3, LoopKeeps
<1> DEFINE end == V[start]
           r == VisitImports(n, ids, acc)
           m == r.imports
<1>6. /\ r = [ok |-> r.ok, imports |-> m] /\ r.ok = end.ok /\ DOMAIN m = end.met
      /\ \A i \in end.met : m[i] = IF i \in M THEN acc.imports[i] ELSE SourceRead(n, i)
  BY <1>2
<1>7. /\ end \in Fetches /\ FetchEnded(end)
      /\ ids \subseteq end.todo /\ M \subseteq end.met /\ end.met \ M \subseteq end.todo
      /\ \A i \in end.met \ M :
           /\ SourceRead(n, i) \in SourceOf(n, i)
           /\ parseImportIds(SourceRead(n, i)) \subseteq end.todo
      /\ end.todo \subseteq ids \cup UNION {parseImportIds(SourceRead(n, i)) : i \in end.met \ M}
      /\ ~end.ok => \E i \in end.todo : SourceOf(n, i) = {}
  BY <1>5 DEF Fetching
<1> HIDE DEF end, r
<1>8. end.ok \in BOOLEAN /\ end.met \subseteq Importable /\ (end.ok => end.todo \subseteq end.met)
  BY <1>7 DEF Fetches, FetchEnded
<1>9. end.todo \subseteq ids \cup Called(m)
  <2>1. \A i \in end.met \ M : i \in DOMAIN m /\ m[i] = SourceRead(n, i)
    BY <1>6
  <2> HIDE DEF m, M
  <2>2. UNION {parseImportIds(SourceRead(n, i)) : i \in end.met \ M} \subseteq Called(m)
    BY <2>1 DEF Called
  <2> QED
    BY <1>7, <2>2
<1>10. \A i \in end.met \ M : m[i] = SourceRead(n, i)
  BY <1>6
<1> HIDE DEF m, M
<1>11. \A i \in DOMAIN m \ M :
         /\ SourceOf(n, i) # {} /\ m[i] = SourceRead(n, i)
         /\ i \in ids \cup Called(m)
         /\ r.ok => parseImportIds(m[i]) \subseteq DOMAIN m
  BY <1>6, <1>7, <1>8, <1>9, <1>10
<1>12. \A i \in M : m[i] = acc.imports[i]
  BY <1>6, <1>7
<1> QED
  BY <1>6, <1>7, <1>8, <1>9, <1>11, <1>12 DEF m, M, r


-----------------------------------------------------------------------------
(* The runtime imports                                                     *)

SeedStep(n, ref, acc) == IF acc.ok THEN SeedImport(n, ref, acc) ELSE acc

SeededUpto(n, refs, acc, k, U) ==
  U = [i \in 0 .. k |-> IF i = 0 THEN acc ELSE SeedStep(n, refs[i], U[i - 1])]

LEMMA SeededDefined ==
  ASSUME NEW n, NEW refs, NEW acc, NEW k \in Nat
  PROVE  \E U : SeededUpto(n, refs, acc, k, U)
<1> DEFINE Undefined == {m \in Nat : ~ \E U : SeededUpto(n, refs, acc, m, U)}
<1>1. 0 \notin Undefined
  <2>1. SeededUpto(n, refs, acc, 0, [i \in 0 .. 0 |-> acc])
    BY DEF SeededUpto
  <2> QED
    BY <2>1
<1>2. ASSUME NEW m \in Nat, m \notin Undefined
      PROVE  m + 1 \notin Undefined
  <2>1. PICK U : SeededUpto(n, refs, acc, m, U)
    BY <1>2
  <2> DEFINE V == [i \in 0 .. m + 1 |-> IF i <= m THEN U[i] ELSE SeedStep(n, refs[i], U[i - 1])]
  <2>2. \A i \in 0 .. m : U[i] = IF i = 0 THEN acc ELSE SeedStep(n, refs[i], U[i - 1])
    BY <2>1 DEF SeededUpto
  <2>3. \A i \in 0 .. m + 1 : V[i] = IF i = 0 THEN acc ELSE SeedStep(n, refs[i], V[i - 1])
    BY <2>2
  <2>4. SeededUpto(n, refs, acc, m + 1, V)
    BY <2>3 DEF SeededUpto
  <2> QED
    BY <2>4
<1>3. Undefined = {}
  <2> SUFFICES ASSUME Undefined # {}
               PROVE  FALSE
    OBVIOUS
  <2>1. Undefined \in SUBSET Nat
    OBVIOUS
  <2> HIDE DEF Undefined
  <2>2. PICK m \in Undefined : \A j \in Undefined : m <= j
    BY <2>1, LeastNumber
  <2>3. m - 1 \in Nat /\ m - 1 \notin Undefined
    BY <1>1, <2>1, <2>2
  <2> QED
    BY <1>2, <2>1, <2>2, <2>3
<1> QED
  BY <1>3

FirstIds(refs, k) == {refs[i].id : i \in 1 .. k}

Pins(refs, k, i) == {j \in 1 .. k : refs[j].id = i /\ refs[j].source # {}}

(* Where a source comes from that is there after k runtime imports.        *)
Provided(n, refs, k, i, s) ==
  \/ SourceOf(n, i) # {} /\ s = SourceRead(n, i)
  \/ \E j \in Pins(refs, k, i) : s \in {<<"network", t>> : t \in refs[j].source}

(* What there is after the first k runtime imports.                        *)
Seeding(n, refs, k, acc) ==
  /\ acc = [ok |-> acc.ok, imports |-> acc.imports] /\ acc.ok \in BOOLEAN
  /\ DOMAIN acc.imports \subseteq Importable
  /\ k = 0 => DOMAIN acc.imports = {} /\ acc.ok
  /\ DOMAIN acc.imports \subseteq FirstIds(refs, k) \cup Called(acc.imports)
  /\ acc.ok => FirstIds(refs, k) \cup Called(acc.imports) \subseteq DOMAIN acc.imports
  /\ \A i \in DOMAIN acc.imports : Provided(n, refs, k, i, acc.imports[i])
  /\ acc.ok => \A j \in 1 .. k : refs[j].source # {} => acc.imports[refs[j].id][2] \in refs[j].source
  /\ ~acc.ok => \/ \E i \in FirstIds(refs, k) \cup Called(acc.imports) : SourceOf(n, i) = {}
                \/ \E i, j \in 1 .. k : i # j /\ refs[i].source # {}

(* What a runtime import stands for imports nothing that is not importable.*)
LEMMA SeedKnown ==
  ASSUME NEW n, SourcesKnown(n), NEW refs \in Seeds, NEW k \in DOMAIN refs, SeedOf(n, refs[k]) # {}
  PROVE  LET s == Member(SeedOf(n, refs[k]))
         IN  /\ refs[k].id \in Importable /\ parseImportIds(s) \subseteq Importable
             /\ Provided(n, refs, k, refs[k].id, s)
             /\ refs[k].source = {} => SourceOf(n, refs[k].id) # {} /\ s = SourceRead(n, refs[k].id)
             /\ refs[k].source # {} => s[2] \in refs[k].source
<1> DEFINE s == Member(SeedOf(n, refs[k]))
<1>1. refs[k].id \in Importable
  <2>1. refs[k].id \in SeedIds(refs)
    BY DEF SeedIds
  <2>2. SeedIds(refs) \subseteq UNION {SeedIds(q) : q \in Seeds}
    OBVIOUS
  <2>3. UNION {SeedIds(q) : q \in Seeds} \subseteq Importable
    BY DEF Importable
  <2> QED
    BY <2>1, <2>2, <2>3
<1>2. s \in SeedOf(n, refs[k])
  BY MemberIs
<1>3. k \in 1 .. k
  BY ArtifactsAssumption
<1>4. CASE refs[k].source = {}
  <2>1. SeedOf(n, refs[k]) = SourceOf(n, refs[k].id)
    BY <1>4 DEF SeedOf
  <2>2. s \in SourceOf(n, refs[k].id) /\ s = SourceRead(n, refs[k].id)
    BY <1>2, <2>1 DEF SourceRead
  <2> HIDE DEF s
  <2>3. parseImportIds(s) \subseteq Importable
    BY <1>1, <2>2 DEF SourcesKnown
  <2> QED
    BY <1>1, <1>4, <2>2, <2>3 DEF Provided, s
<1>5. CASE refs[k].source # {}
  <2>1. PICK t \in refs[k].source : s = <<"network", t>>
    BY <1>2, <1>5 DEF SeedOf
  <2> HIDE DEF s
  <2>2. t \in DOMAIN importsOf
    BY ArtifactsAssumption
  <2>3. parseImportIds(s) = ToSet(importsOf[t])
    BY <2>1 DEF parseImportIds
  <2>4. parseImportIds(s) \subseteq Importable
    BY <2>2, <2>3 DEF Importable
  <2>5. Provided(n, refs, k, refs[k].id, s)
    BY <1>3, <1>5, <2>1 DEF Provided, Pins
  <2>6. s[2] = t
    BY <2>1
  <2> QED
    BY <1>1, <1>5, <2>4, <2>5, <2>6 DEF s
<1> QED
  BY <1>4, <1>5

LEMMA SeedsMore ==
  ASSUME NEW refs, NEW k \in Nat, k # 0
  PROVE  /\ 1 .. k - 1 \subseteq 1 .. k /\ 1 .. k = (1 .. k - 1) \cup {k}
         /\ FirstIds(refs, k) = FirstIds(refs, k - 1) \cup {refs[k].id}
         /\ \A n, i, s : Provided(n, refs, k - 1, i, s) => Provided(n, refs, k, i, s)
<1>1. 1 .. k - 1 \subseteq 1 .. k /\ 1 .. k = (1 .. k - 1) \cup {k}
  OBVIOUS
<1>2. FirstIds(refs, k) = FirstIds(refs, k - 1) \cup {refs[k].id}
  BY <1>1 DEF FirstIds
<1> QED
  BY <1>1, <1>2 DEF Provided, Pins

(* One more runtime import.                                                *)
LEMMA SeedKept ==
  ASSUME NEW n, SourcesKnown(n), NEW refs \in Seeds, NEW k \in DOMAIN refs,
         NEW acc, Seeding(n, refs, k - 1, acc)
  PROVE  Seeding(n, refs, k, SeedStep(n, refs[k], acc))
<1> DEFINE ref == refs[k]
           id == ref.id
           s == Member(SeedOf(n, ref))
           M == DOMAIN acc.imports
           new == SeedStep(n, ref, acc)
<1>1. k \in Nat /\ k # 0 /\ k \in 1 .. k
  BY ArtifactsAssumption
<1>2. /\ 1 .. k - 1 \subseteq 1 .. k /\ 1 .. k = (1 .. k - 1) \cup {k}
      /\ FirstIds(refs, k) = FirstIds(refs, k - 1) \cup {id}
      /\ \A i, v : Provided(n, refs, k - 1, i, v) => Provided(n, refs, k, i, v)
  BY <1>1, SeedsMore
<1>3. /\ acc = [ok |-> acc.ok, imports |-> acc.imports] /\ acc.ok \in BOOLEAN
      /\ M \subseteq Importable
      /\ k - 1 = 0 => M = {}
      /\ M \subseteq FirstIds(refs, k - 1) \cup Called(acc.imports)
      /\ acc.ok => FirstIds(refs, k - 1) \cup Called(acc.imports) \subseteq M
      /\ \A i \in M : Provided(n, refs, k - 1, i, acc.imports[i])
      /\ acc.ok => \A j \in 1 .. k - 1 : refs[j].source # {} => acc.imports[refs[j].id][2] \in refs[j].source
      /\ ~acc.ok => \/ \E i \in FirstIds(refs, k - 1) \cup Called(acc.imports) : SourceOf(n, i) = {}
                    \/ \E i, j \in 1 .. k - 1 : i # j /\ refs[i].source # {}
  BY DEF Seeding
<1>4. CASE ~acc.ok
  <2>1. new = acc
    BY <1>4 DEF SeedStep
  <2> HIDE DEF new
  <2> QED
    BY <1>1, <1>2, <1>3, <1>4, <2>1 DEF Seeding, new
<1> DEFINE conflict == id \in M /\ acc.imports[id] # s
<1>5. CASE acc.ok /\ (SeedOf(n, ref) = {} \/ conflict)
  <2>1. new = [acc EXCEPT !.ok = FALSE]
    BY <1>5 DEF SeedStep, SeedImport
  <2>2. new = [ok |-> FALSE, imports |-> acc.imports]
    BY <1>3, <2>1
  <2>3. ~new.ok /\ new.ok \in BOOLEAN /\ new.imports = acc.imports
    BY <2>2
  <2> HIDE DEF new
  <2>4. \/ \E i \in FirstIds(refs, k) \cup Called(acc.imports) : SourceOf(n, i) = {}
        \/ \E i, j \in 1 .. k : i # j /\ refs[i].source # {}
    <3>1. CASE SeedOf(n, ref) = {}
      <4>1. ref.source = {}
        BY <3>1 DEF SeedOf
      <4>2. SourceOf(n, id) = {}
        BY <3>1, <4>1 DEF SeedOf
      <4> QED
        BY <1>2, <4>2
    <3>2. CASE SeedOf(n, ref) # {} /\ conflict
      <4>1. /\ ref.source = {} => SourceOf(n, id) # {} /\ s = SourceRead(n, id)
        BY <3>2, SeedKnown
      <4>2. k - 1 # 0 /\ Provided(n, refs, k - 1, id, acc.imports[id])
        BY <1>3, <3>2
      <4>3. CASE ref.source # {}
        <5>1. k \in 1 .. k /\ k - 1 \in 1 .. k /\ k # k - 1
          BY <1>1, <4>2
        <5> QED
          BY <4>3, <5>1
      <4>4. CASE ref.source = {}
        <5>1. PICK j \in Pins(refs, k - 1, id) : TRUE
          BY <3>2, <4>1, <4>2, <4>4 DEF Provided
        <5>2. j \in 1 .. k - 1 /\ refs[j].source # {} /\ j # k
          BY <1>1, <5>1 DEF Pins
        <5> QED
          BY <1>1, <1>2, <5>2
      <4> QED
        BY <4>3, <4>4
    <3> QED
      BY <1>5, <3>1, <3>2
  <2>5. \A i \in M : Provided(n, refs, k, i, acc.imports[i])
    BY <1>2, <1>3
  <2>6. M \subseteq FirstIds(refs, k) \cup Called(acc.imports)
    BY <1>2, <1>3
  <2> QED
    BY <1>1, <1>3, <2>2, <2>3, <2>4, <2>5, <2>6 DEF Seeding, new
<1>6. CASE acc.ok /\ SeedOf(n, ref) # {} /\ ~conflict
  <2> DEFINE put == [acc EXCEPT !.imports = Put(@, id, s)]
             P == DOMAIN put.imports
             m == new.imports
  <2>1. new = VisitImports(n, parseImportIds(s), put)
    BY <1>6 DEF SeedStep, SeedImport
  <2>2. put = [ok |-> acc.ok, imports |-> Put(acc.imports, id, s)]
    BY <1>3
  <2>3. /\ P = M \cup {id} /\ put.imports[id] = s
        /\ \A i \in M : put.imports[i] = acc.imports[i]
    BY <1>6, <2>2 DEF Put
  <2>4. /\ id \in Importable /\ parseImportIds(s) \subseteq Importable
        /\ Provided(n, refs, k, id, s)
        /\ ref.source # {} => s[2] \in ref.source
    BY <1>6, SeedKnown
  <2>5. P \subseteq Importable
    BY <1>3, <2>3, <2>4
  <2>6. /\ new = [ok |-> new.ok, imports |-> m] /\ new.ok \in BOOLEAN
        /\ P \subseteq DOMAIN m /\ DOMAIN m \subseteq Importable
        /\ \A i \in P : m[i] = put.imports[i]
        /\ \A i \in DOMAIN m \ P :
             /\ SourceOf(n, i) # {} /\ m[i] = SourceRead(n, i)
             /\ i \in parseImportIds(s) \cup Called(m)
             /\ new.ok => parseImportIds(m[i]) \subseteq DOMAIN m
        /\ new.ok => parseImportIds(s) \subseteq DOMAIN m
        /\ ~new.ok => \E i \in parseImportIds(s) \cup Called(m) : SourceOf(n, i) = {}
    <3> HIDE DEF put, s, new
    <3> QED
      BY <2>1, <2>4, <2>5, VisitAdds
  <2> HIDE DEF new, put, conflict, s
  <2>7. /\ M \subseteq DOMAIN m /\ id \in DOMAIN m /\ m[id] = s
        /\ \A i \in M : m[i] = acc.imports[i]
        /\ \A i \in DOMAIN m : i \in M \/ i = id \/ i \notin P
    BY <2>3, <2>6
  <2> HIDE DEF P, m
  <2>8. Called(acc.imports) \subseteq Called(m) /\ parseImportIds(s) \subseteq Called(m)
    BY <2>7 DEF Called
  <2>9. DOMAIN m \subseteq FirstIds(refs, k) \cup Called(m)
    BY <1>2, <1>3, <2>6, <2>7, <2>8 DEF P, m
  <2>10. ASSUME new.ok
         PROVE  FirstIds(refs, k) \cup Called(m) \subseteq DOMAIN m
    <3>1. FirstIds(refs, k) \subseteq DOMAIN m
      BY <1>2, <1>3, <1>6, <2>7
    <3>2. ASSUME NEW i \in DOMAIN m
          PROVE  parseImportIds(m[i]) \subseteq DOMAIN m
      <4>1. CASE i \in M
        <5>1. parseImportIds(acc.imports[i]) \subseteq Called(acc.imports)
          BY <4>1 DEF Called
        <5> QED
          BY <1>3, <1>6, <2>7, <4>1, <5>1
      <4>2. CASE i = id
        BY <2>6, <2>7, <2>10, <4>2 DEF m
      <4>3. CASE i \notin P
        BY <2>6, <2>10, <3>2, <4>3 DEF m
      <4> QED
        BY <2>7, <4>1, <4>2, <4>3
    <3> QED
      BY <3>1, <3>2 DEF Called
  <2>11. \A i \in DOMAIN m : Provided(n, refs, k, i, m[i])
    <3> TAKE i \in DOMAIN m
    <3>1. CASE i \in M
      BY <1>2, <1>3, <2>7, <3>1
    <3>2. CASE i = id
      BY <2>4, <2>7, <3>2
    <3>3. CASE i \notin P
      BY <2>6, <3>3 DEF m, Provided
    <3> QED
      BY <2>7, <3>1, <3>2, <3>3
  <2>12. \A j \in 1 .. k : refs[j].source # {} => m[refs[j].id][2] \in refs[j].source
    <3> SUFFICES ASSUME NEW j \in 1 .. k, refs[j].source # {}
                 PROVE  m[refs[j].id][2] \in refs[j].source
      OBVIOUS
    <3>1. CASE j \in 1 .. k - 1
      <4>1. refs[j].id \in M /\ acc.imports[refs[j].id][2] \in refs[j].source
        BY <1>3, <1>6, <3>1 DEF FirstIds
      <4> QED
        BY <2>7, <4>1
    <3>2. CASE j = k
      BY <2>4, <2>7, <3>2
    <3> QED
      BY <1>2, <3>1, <3>2
  <2>13. ~new.ok => \E i \in FirstIds(refs, k) \cup Called(m) : SourceOf(n, i) = {}
    BY <2>6, <2>8 DEF m
  <2> QED
    BY <1>1, <2>6, <2>9, <2>10, <2>11, <2>12, <2>13 DEF Seeding, m, new
<1> QED
  BY <1>3, <1>4, <1>5, <1>6


LEMMA SeedImportsIs ==
  ASSUME NEW n, NEW refs, NEW acc, Len(refs) \in Nat
  PROVE  \E U : SeededUpto(n, refs, acc, Len(refs), U) /\ SeedImports(n, refs, acc) = U[Len(refs)]
<1> DEFINE U == CHOOSE W : SeededUpto(n, refs, acc, Len(refs), W)
<1>1. SeededUpto(n, refs, acc, Len(refs), U)
  BY SeededDefined
<1>2. SeedImports(n, refs, acc) = U[Len(refs)]
  BY DEF SeedImports, SeededUpto, SeedStep
<1> QED
  BY <1>1, <1>2

LEMMA SeedsImported ==
  ASSUME NEW n, SourcesKnown(n), NEW refs \in Seeds
  PROVE  Seeding(n, refs, Len(refs), SeedImports(n, refs, [ok |-> TRUE, imports |-> NoneYet]))
<1> DEFINE acc == [ok |-> TRUE, imports |-> NoneYet]
<1>1. DOMAIN refs = 1 .. Len(refs) /\ Len(refs) \in Nat
  BY ArtifactsAssumption
<1>2. PICK U : SeededUpto(n, refs, acc, Len(refs), U) /\ SeedImports(n, refs, acc) = U[Len(refs)]
  BY <1>1, SeedImportsIs
<1>3. \A k \in 0 .. Len(refs) : U[k] = IF k = 0 THEN acc ELSE SeedStep(n, refs[k], U[k - 1])
  BY <1>2 DEF SeededUpto
<1> DEFINE Bad == {k \in 0 .. Len(refs) : ~Seeding(n, refs, k, U[k])}
<1>4. Seeding(n, refs, 0, U[0])
  <2>1. U[0] = acc
    <3>1. 0 \in 0 .. Len(refs)
      BY <1>1
    <3> HIDE DEF acc
    <3> QED
      BY <1>3, <3>1
  <2>2. FirstIds(refs, 0) = {} /\ DOMAIN acc.imports = {} /\ Called(acc.imports) = {}
    BY DEF FirstIds, NoneYet, Called
  <2> QED
    BY <2>1, <2>2 DEF Seeding
<1>5. ASSUME NEW k \in 0 .. Len(refs), k # 0, Seeding(n, refs, k - 1, U[k - 1])
      PROVE  Seeding(n, refs, k, U[k])
  <2>1. k \in DOMAIN refs /\ U[k] = SeedStep(n, refs[k], U[k - 1])
    BY <1>1, <1>3, <1>5
  <2> QED
    BY <1>5, <2>1, SeedKept
<1>6. Bad = {}
  <2> SUFFICES ASSUME Bad # {}
               PROVE  FALSE
    OBVIOUS
  <2>1. Bad \in SUBSET Nat
    BY <1>1
  <2>2. PICK k \in Bad : \A m \in Bad : k <= m
    <3> HIDE DEF Bad
    <3> QED
      BY <2>1, LeastNumber
  <2>3. k # 0 /\ k \in 0 .. Len(refs) /\ ~Seeding(n, refs, k, U[k])
    BY <1>4, <2>2
  <2>4. k - 1 \notin Bad /\ k - 1 \in 0 .. Len(refs)
    BY <1>1, <2>2, <2>3
  <2>5. Seeding(n, refs, k - 1, U[k - 1])
    BY <2>4
  <2> QED
    BY <1>5, <2>3, <2>5
<1> QED
  BY <1>1, <1>2, <1>6

(* An execution is given every program that can be reached and no other,   *)
(* wherever the sources are.                                               *)
LEMMA ImportsResolved ==
  ASSUME NEW n, SourcesKnown(n), NEW refs \in Seeds, NEW s, parseImportIds(s) \subseteq Importable
  PROVE  LET got == resolveProgramImports(n, s, refs)
             m == got.imports
             K == Len(refs)
             roots == parseImportIds(s) \cup FirstIds(refs, K)
         IN  /\ got.ok => DOMAIN m = roots \cup Called(m)
             /\ got.ok => \A i \in DOMAIN m : Provided(n, refs, K, i, m[i])
             /\ got.ok => \A j \in 1 .. K : refs[j].source # {} => m[refs[j].id][2] \in refs[j].source
             /\ ~got.ok => \/ \E i \in roots \cup Called(m) : SourceOf(n, i) = {}
                           \/ \E i, j \in 1 .. K : i # j /\ refs[i].source # {}
<1> DEFINE seeded == SeedImports(n, refs, [ok |-> TRUE, imports |-> NoneYet])
           K == Len(refs)
           ids == parseImportIds(s)
           got == resolveProgramImports(n, s, refs)
           m == got.imports
           M == DOMAIN seeded.imports
<1>1. Seeding(n, refs, K, seeded)
  BY SeedsImported
<1>2. got = IF seeded.ok THEN VisitImports(n, ids, seeded) ELSE seeded
  BY DEF resolveProgramImports
<1>3. /\ seeded.ok \in BOOLEAN /\ M \subseteq Importable
      /\ M \subseteq FirstIds(refs, K) \cup Called(seeded.imports)
      /\ seeded.ok => FirstIds(refs, K) \cup Called(seeded.imports) \subseteq M
      /\ \A i \in M : Provided(n, refs, K, i, seeded.imports[i])
      /\ seeded.ok => \A j \in 1 .. K : refs[j].source # {} => seeded.imports[refs[j].id][2] \in refs[j].source
      /\ ~seeded.ok => \/ \E i \in FirstIds(refs, K) \cup Called(seeded.imports) : SourceOf(n, i) = {}
                       \/ \E i, j \in 1 .. K : i # j /\ refs[i].source # {}
  <2> HIDE DEF seeded, K
  <2> QED
    BY <1>1 DEF Seeding
<1> HIDE DEF seeded, K, got, ids
<1>4. CASE ~seeded.ok
  BY <1>2, <1>3, <1>4 DEF got, ids, K
<1>5. CASE seeded.ok
  <2>1. /\ got.ok \in BOOLEAN /\ M \subseteq DOMAIN m
        /\ \A i \in M : m[i] = seeded.imports[i]
        /\ \A i \in DOMAIN m \ M :
             /\ SourceOf(n, i) # {} /\ m[i] = SourceRead(n, i)
             /\ i \in ids \cup Called(m)
             /\ got.ok => parseImportIds(m[i]) \subseteq DOMAIN m
        /\ got.ok => ids \subseteq DOMAIN m
        /\ ~got.ok => \E i \in ids \cup Called(m) : SourceOf(n, i) = {}
    <3>1. ids \in SUBSET Importable
      BY DEF ids
    <3>2. got = VisitImports(n, ids, seeded)
      BY <1>2, <1>5
    <3>3. M \subseteq Importable
      BY <1>3
    <3> DEFINE r == VisitImports(n, ids, seeded)
    <3>4. /\ got = [ok |-> got.ok, imports |-> m] /\ got.ok \in BOOLEAN
          /\ M \subseteq DOMAIN m /\ DOMAIN m \subseteq Importable
          /\ \A i \in M : m[i] = seeded.imports[i]
          /\ \A i \in DOMAIN m \ M :
               /\ SourceOf(n, i) # {} /\ m[i] = SourceRead(n, i)
               /\ i \in ids \cup Called(m)
               /\ got.ok => parseImportIds(m[i]) \subseteq DOMAIN m
          /\ got.ok => ids \subseteq DOMAIN m
          /\ ~got.ok => \E i \in ids \cup Called(m) : SourceOf(n, i) = {}
      BY <3>1, <3>2, <3>3, VisitAdds
    <3> QED
      BY <3>4
  <2> HIDE DEF m, M
  <2>2. Called(seeded.imports) \subseteq Called(m)
    BY <2>1 DEF Called, M
  <2>3. DOMAIN m \subseteq ids \cup FirstIds(refs, K) \cup Called(m)
    BY <1>3, <2>1, <2>2
  <2>4. ASSUME got.ok
        PROVE  ids \cup FirstIds(refs, K) \cup Called(m) \subseteq DOMAIN m
    <3>1. ASSUME NEW i \in DOMAIN m
          PROVE  parseImportIds(m[i]) \subseteq DOMAIN m
      <4>1. CASE i \in M
        <5>1. parseImportIds(seeded.imports[i]) \subseteq Called(seeded.imports)
          BY <4>1 DEF Called, M
        <5> QED
          BY <1>3, <1>5, <2>1, <4>1, <5>1
      <4>2. CASE i \notin M
        BY <2>1, <2>4, <3>1, <4>2
      <4> QED
        BY <4>1, <4>2
    <3> QED
      BY <1>3, <1>5, <2>1, <2>4, <3>1 DEF Called
  <2>5. \A i \in DOMAIN m : Provided(n, refs, K, i, m[i])
    <3> TAKE i \in DOMAIN m
    <3>1. i \in M => Provided(n, refs, K, i, m[i])
      BY <1>3, <2>1
    <3>2. i \notin M => Provided(n, refs, K, i, m[i])
      BY <2>1 DEF Provided
    <3> QED
      BY <3>1, <3>2
  <2>6. \A j \in 1 .. K : refs[j].source # {} => m[refs[j].id][2] \in refs[j].source
    <3> TAKE j \in 1 .. K
    <3>1. refs[j].id \in M
      BY <1>3, <1>5 DEF FirstIds
    <3> QED
      BY <1>3, <1>5, <2>1, <3>1
  <2> QED
    BY <2>1, <2>3, <2>4, <2>5, <2>6 DEF got, ids, K, m
<1> QED
  BY <1>3, <1>4, <1>5


-----------------------------------------------------------------------------
(* What is on disk imports what is importable                              *)

ImportsKnown(p) == DOMAIN p.imports \subseteq Importable /\ ToSet(p.local) \subseteq Folders

FilesKnown ==
  /\ DOMAIN package = Ids /\ DOMAIN build = Ids /\ DOMAIN artifact = Ids
  /\ \A id \in Ids :
       /\ \A p \in package[id] : ImportsKnown(p)
       /\ \A b \in build[id] : ImportsKnown(b.package)
       /\ \A a \in artifact[id] : ImportsKnown(a.product.package)

ChainKnown ==
  /\ DOMAIN chain = Networks
  /\ \A n \in Networks : DOMAIN chain[n] = Foreign /\ \A d \in Foreign : chain[n][d] \in OnChain[n]

(* The packages that a task works on are there.                            *)
TaskKnown ==
  /\ Compiling =>
       /\ ~Deploying /\ unlinked \subseteq Foreign
       /\ \A f \in Units : effectiveUnitId(f) \in Ids /\ package[effectiveUnitId(f)] # {}
  /\ pc = "building" => order[at] \in Units
  /\ deploy.stage = "running" =>
       deploy.request.program \in Ids /\ package[deploy.request.program] # {}

ImportsInv == ProjectInv /\ FilesKnown /\ ChainKnown /\ TaskKnown

LEMMA SourcesImportable ==
  ASSUME ImportsInv, NEW n \in Networks
  PROVE  SourcesKnown(n)
<1> SUFFICES ASSUME NEW id \in Importable, NEW s \in SourceOf(n, id)
             PROVE  parseImportIds(s) \subseteq Importable
  BY DEF SourcesKnown
<1>1. CASE readLocalProgramSource(id) # {}
  <2>1. id \in Ids /\ s \in {<<"artifact", a.product>> : a \in artifact[id]}
    BY <1>1 DEF SourceOf, readLocalProgramSource
  <2>2. PICK a \in artifact[id] : s = <<"artifact", a.product>>
    BY <2>1
  <2> DEFINE p == a.product.package
  <2>3. ImportsKnown(p)
    BY <2>1, <2>2 DEF ImportsInv, FilesKnown
  <2>4. s[1] # "network" /\ s[2].package = p
    BY <2>2
  <2>5. parseImportIds(s) = DOMAIN p.imports \cup {unitId(g) : g \in {h \in ToSet(p.local) : kind[h] = "program"}}
    BY <2>4 DEF parseImportIds
  <2>6. \A g \in Folders : unitId(g) \in Importable
    BY DEF Importable, Ids
  <2> HIDE DEF p
  <2> QED
    BY <2>3, <2>5, <2>6 DEF ImportsKnown
<1>2. CASE readLocalProgramSource(id) = {}
  <2>1. id \in Foreign /\ s = <<"network", chain[n][id]>>
    BY <1>2 DEF SourceOf
  <2>2. chain[n][id] \in DOMAIN importsOf
    BY <2>1, ArtifactsAssumption DEF ImportsInv, ChainKnown
  <2>3. parseImportIds(s) = ToSet(importsOf[chain[n][id]])
    BY <2>1 DEF parseImportIds
  <2> QED
    BY <2>2, <2>3 DEF Importable
<1> QED
  BY <1>1, <1>2

(* An execution gets every program it can reach, and no other.             *)
LEMMA ExecutionsClosed == ImportsInv => ExecutionClosed
<1> SUFFICES ASSUME ImportsInv, NEW n \in Networks, NEW id \in Ids, NEW refs \in Seeds,
                    NEW s \in readLocalProgramSource(id)
             PROVE  LET got == resolveProgramImports(n, s, refs)
                        roots == parseImportIds(s) \cup SeedIds(refs)
                        called == UNION {parseImportIds(got.imports[i]) : i \in DOMAIN got.imports}
                        pinned == {i \in DOMAIN refs : refs[i].source # {}}
                    IN  /\ got.ok => DOMAIN got.imports = roots \cup called
                        /\ got.ok => \A i \in DOMAIN got.imports :
                             got.imports[i] \in SourceOf(n, i) \cup
                               {<<"network", t>> : t \in UNION {refs[j].source : j \in {k \in pinned : refs[k].id = i}}}
                        /\ got.ok => \A i \in pinned : got.imports[refs[i].id][2] \in refs[i].source
                        /\ ~got.ok => \/ \E i \in roots \cup called : SourceOf(n, i) = {}
                                      \/ \E i \in pinned, j \in DOMAIN refs : i # j
                        /\ \A k \in readSidecarKeys(id, s, got.imports) : s = <<"artifact", k>>
  BY DEF ExecutionClosed
<1> DEFINE got == resolveProgramImports(n, s, refs)
           m == got.imports
           K == Len(refs)
           roots == parseImportIds(s) \cup SeedIds(refs)
           pinned == {i \in DOMAIN refs : refs[i].source # {}}
<1>1. SourcesKnown(n)
  BY SourcesImportable
<1>2. parseImportIds(s) \subseteq Importable
  <2>1. id \in Importable /\ s \in SourceOf(n, id)
    BY DEF Importable, SourceOf
  <2> QED
    BY <1>1, <2>1 DEF SourcesKnown
<1>3. DOMAIN refs = 1 .. K /\ K \in Nat
  BY ArtifactsAssumption
<1>4. FirstIds(refs, K) = SeedIds(refs)
  BY <1>3 DEF FirstIds, SeedIds
<1>5. /\ got.ok => DOMAIN m = roots \cup Called(m)
      /\ got.ok => \A i \in DOMAIN m : Provided(n, refs, K, i, m[i])
      /\ got.ok => \A j \in 1 .. K : refs[j].source # {} => m[refs[j].id][2] \in refs[j].source
      /\ ~got.ok => \/ \E i \in roots \cup Called(m) : SourceOf(n, i) = {}
                    \/ \E i, j \in 1 .. K : i # j /\ refs[i].source # {}
  BY <1>1, <1>2, <1>4, ImportsResolved
<1>6. \A k \in readSidecarKeys(id, s, m) : s = <<"artifact", k>>
  BY DEF readSidecarKeys
<1>7. ASSUME NEW i, NEW v, Provided(n, refs, K, i, v)
      PROVE  v \in SourceOf(n, i) \cup
               {<<"network", t>> : t \in UNION {refs[j].source : j \in {k \in pinned : refs[k].id = i}}}
  <2>1. CASE SourceOf(n, i) # {} /\ v = SourceRead(n, i)
    BY <2>1, MemberIs DEF SourceRead
  <2>2. CASE \E j \in Pins(refs, K, i) : v \in {<<"network", t>> : t \in refs[j].source}
    <3>1. PICK j \in Pins(refs, K, i) : \E t \in refs[j].source : v = <<"network", t>>
      BY <2>2
    <3>2. PICK t \in refs[j].source : v = <<"network", t>>
      BY <3>1
    <3>3. j \in {k \in pinned : refs[k].id = i}
      BY <1>3 DEF Pins
    <3>4. t \in UNION {refs[k].source : k \in {h \in pinned : refs[h].id = i}}
      BY <3>2, <3>3
    <3> QED
      BY <3>2, <3>4
  <2> QED
    BY <1>7, <2>1, <2>2 DEF Provided
<1> HIDE DEF got, m
<1>8. (\E i, j \in 1 .. K : i # j /\ refs[i].source # {}) => \E i \in pinned, j \in DOMAIN refs : i # j
  BY <1>3
<1>9. Called(m) = UNION {parseImportIds(m[i]) : i \in DOMAIN m}
  BY DEF Called
<1>10. got.ok => \A i \in pinned : m[refs[i].id][2] \in refs[i].source
  BY <1>3, <1>5
<1>11. got.ok => \A i \in DOMAIN m :
         m[i] \in SourceOf(n, i) \cup
           {<<"network", t>> : t \in UNION {refs[j].source : j \in {k \in pinned : refs[k].id = i}}}
  BY <1>5, <1>7
<1> HIDE DEF pinned, roots, K
<1> QED
  BY <1>5, <1>6, <1>8, <1>9, <1>10, <1>11 DEF got, m, roots, pinned


LEMMA PackageKnown ==
  ASSUME ProjectInv, NEW o, NEW f \in ToSet(dirs)
  PROVE  ImportsKnown(Package(o, f))
<1>1. LocalDeps(dirs, source, f) \in Seq(ToSet(dirs)) /\ ToSet(dirs) \subseteq Folders
  BY GraphOfProject, FoldersOfProject DEF Graph
<1>2. ToSet(LocalDeps(dirs, source, f)) \subseteq ToSet(dirs)
  <2> DEFINE local == LocalDeps(dirs, source, f)
  <2>1. \A i \in DOMAIN local : local[i] \in ToSet(dirs)
    <3> HIDE DEF local
    <3> QED
      BY <1>1 DEF local
  <2> QED
    BY <2>1 DEF ToSet
<1>3. Package(o, f).local = LocalDeps(dirs, source, f) /\ DOMAIN Package(o, f).imports = {}
  BY DEF Package, NoneYet
<1> QED
  BY <1>1, <1>2, <1>3 DEF ImportsKnown

LEMMA ProductKnown ==
  ASSUME FilesKnown, NEW id \in Ids, package[id] # {}
  PROVE  ImportsKnown(Product(package, id).package)
<1>1. Member(package[id]) \in package[id]
  BY MemberIs
<1>2. Product(package, id).package = Member(package[id])
  BY DEF Product
<1> QED
  BY <1>1, <1>2 DEF FilesKnown

LEMMA LinkIntoKnown ==
  ASSUME NEW p, ImportsKnown(p), NEW d \in Foreign, NEW s
  PROVE  ImportsKnown(LinkInto(p, d, s))
<1> DEFINE q == LinkInto(p, d, s)
<1>1. DOMAIN q = DOMAIN p /\ q.local = p.local
  BY DEF LinkInto
<1>2. DOMAIN q.imports \subseteq DOMAIN p.imports \cup {d} \/ q.imports = p.imports
  BY DEF LinkInto, Put
<1>3. d \in Importable
  BY DEF Importable
<1> QED
  BY <1>1, <1>2, <1>3 DEF ImportsKnown

(* The packages that are written.                                          *)
LEMMA MaterializedKnown ==
  ASSUME ProjectInv, FilesKnown, NEW o, NEW units \in SUBSET ToSet(dirs), Materialize(o, units)
  PROVE  /\ DOMAIN package' = Ids /\ \A id \in Ids : \A p \in package'[id] : ImportsKnown(p)
         /\ \A f \in units : Package(o, f).program \in Ids => package'[Package(o, f).program] # {}
<1> DEFINE here(id) == {f \in units : Package(o, f).program = id}
<1>1. package' = [id \in Ids |-> IF here(id) = {} THEN package[id] ELSE {Package(o, f) : f \in here(id)}]
  BY DEF Materialize
<1>2. ASSUME NEW id \in Ids, NEW p \in package'[id]
      PROVE  ImportsKnown(p)
  <2>1. p \in package[id] \/ \E f \in units : p = Package(o, f)
    BY <1>1, <1>2
  <2> QED
    BY <2>1, PackageKnown DEF FilesKnown
<1>3. \A f \in units : Package(o, f).program \in Ids => Package(o, f) \in package'[Package(o, f).program]
  BY <1>1
<1> QED
  BY <1>1, <1>2, <1>3

(* A unit that is finished.                                                *)
LEMMA NormalizedKnown ==
  ASSUME FilesKnown, NEW f, NEW builds, \A b \in builds : ImportsKnown(b.package),
         artifact' \in {artifact, Normalized(f, builds), CopiedOnly(f, builds)}
  PROVE  DOMAIN artifact' = Ids /\ \A id \in Ids : \A a \in artifact'[id] : ImportsKnown(a.product.package)
<1> DEFINE e == effectiveUnitId(f)
<1>1. \/ artifact' = artifact
      \/ artifact' = [artifact EXCEPT ![e] =
                        {[product |-> b, sidecar |-> Sidecar(f, b)] : b \in builds}]
      \/ artifact' = [artifact EXCEPT ![e] = {[product |-> b, sidecar |-> {}] : b \in builds}]
  BY DEF Normalized, CopiedOnly
<1> HIDE DEF e
<1>2. \A id \in Ids : \A a \in artifact'[id] :
        a \in artifact[id] \/ \E b \in builds : a.product = b
  BY <1>1 DEF FilesKnown
<1> QED
  BY <1>1, <1>2 DEF FilesKnown


(* What is built of a unit.                                                *)
LEMMA BuiltKnown ==
  ASSUME FilesKnown, TaskKnown, pc = "building"
  PROVE  /\ effectiveUnitId(order[at]) \in Ids
         /\ \A b \in Built(order[at]) : ImportsKnown(b.package)
<1> DEFINE u == order[at]
           e == effectiveUnitId(u)
<1>1. u \in Units /\ e \in Ids /\ package[e] # {}
  BY DEF TaskKnown, Compiling
<1>2. ImportsKnown(Product(package, e).package)
  BY <1>1, ProductKnown
<1>3. \A b \in Built(u) : b \in build[e] \/ b = Product(package, e)
  BY DEF Built
<1> HIDE DEF e
<1> QED
  BY <1>1, <1>2, <1>3 DEF FilesKnown, e

LEMMA CompileBeginsKnown ==
  ASSUME ImportsInv, ~Deploying, NEW o \in Requests, CompileBegins(o), UNCHANGED deploy
  PROVE  FilesKnown' /\ TaskKnown'
<1>1. /\ ~Compiling /\ Accepted(o) /\ opts' = o /\ order' = Selected(o)
      /\ Materialize(o, ToSet(order')) /\ pc' = "link" /\ unlinked' = NeededDeps(ToSet(order'))
      /\ UNCHANGED <<build, artifact>>
  BY DEF CompileBegins, outputVars
<1>2. ToSet(order') \subseteq ToSet(dirs)
  BY <1>1, SelectedInOrder DEF ImportsInv
<1>3. /\ DOMAIN package' = Ids /\ \A id \in Ids : \A p \in package'[id] : ImportsKnown(p)
      /\ \A f \in ToSet(order') : Package(o, f).program \in Ids => package'[Package(o, f).program] # {}
  BY <1>1, <1>2, MaterializedKnown DEF ImportsInv
<1>4. \A f : effectiveUnitId(f)' = Package(o, f).program
  BY <1>1 DEF effectiveUnitId, Package
<1>5. \A f \in ToSet(dirs) : Package(o, f).program \in Ids
  BY FoldersOfProject, CompilerAssumption DEF ImportsInv, Package, Ids
<1>6. unlinked' \subseteq Foreign
  BY <1>1, <1>2, FoldersOfProject DEF ImportsInv, NeededDeps
<1>7. \A f \in Units' : effectiveUnitId(f)' \in Ids /\ package'[effectiveUnitId(f)'] # {}
  BY <1>2, <1>3, <1>4, <1>5 DEF Units
<1>8. FilesKnown'
  BY <1>1, <1>3 DEF ImportsInv, FilesKnown
<1>9. ~Deploying' /\ deploy'.stage # "running"
  BY DEF Deploying
<1> QED
  BY <1>1, <1>6, <1>7, <1>8, <1>9 DEF TaskKnown

LEMMA MaterializeCutKnown ==
  ASSUME ImportsInv, ~Deploying, NEW o \in Requests, MaterializeCut(o), UNCHANGED deploy
  PROVE  FilesKnown' /\ TaskKnown'
<1>1. ~Compiling /\ Accepted(o) /\ UNCHANGED <<artifact, pc>>
  BY DEF MaterializeCut, outputVars, loopVars
<1>2. PICK k \in DOMAIN Selected(o) :
        /\ build' = [build EXCEPT ![Package(o, Selected(o)[k]).program] = {}]
        /\ Materialize(o, {Selected(o)[i] : i \in 1 .. k})
  BY DEF MaterializeCut, LeavesBuild
<1>3. {Selected(o)[i] : i \in 1 .. k} \subseteq ToSet(dirs)
  <2>1. /\ Selected(o) \in Seq(ToSet(Selected(o))) /\ ToSet(Selected(o)) \subseteq ToSet(dirs)
    BY <1>1, SelectedInOrder DEF ImportsInv, Ordered
  <2> QED
    BY <2>1
<1>4. DOMAIN package' = Ids /\ \A id \in Ids : \A p \in package'[id] : ImportsKnown(p)
  BY <1>2, <1>3, MaterializedKnown DEF ImportsInv
<1>5. FilesKnown'
  BY <1>1, <1>2, <1>4 DEF ImportsInv, FilesKnown
<1>6. deploy'.stage # "running"
  BY DEF Deploying
<1> QED
  BY <1>1, <1>5, <1>6 DEF TaskKnown, Compiling

LEMMA LinkKnown ==
  ASSUME ImportsInv, ~Deploying, LinkNetworkDependency, UNCHANGED deploy
  PROVE  FilesKnown' /\ TaskKnown'
<1>1. /\ pc = "link" /\ pc' = "link" /\ opts' = opts /\ order' = order
      /\ UNCHANGED <<build, artifact>>
  BY DEF LinkNetworkDependency, taskVars, outputVars
<1> DEFINE importers(d) == {effectiveUnitId(f) : f \in {g \in ToSet(order) : d \in NetworkDeps(dirs, source, g)}}
<1>2. PICK d \in unlinked :
        /\ unlinked' = unlinked \ {d}
        /\ \E s \in LinkedSources(d) :
             /\ netDep' = [netDep EXCEPT ![opts.network][d] = {s}]
             /\ package' = [id \in Ids |->
                  IF id \notin importers(d) THEN package[id] ELSE {LinkInto(p, d, s) : p \in package[id]}]
  BY DEF LinkNetworkDependency
<1> HIDE DEF importers
<1>3. PICK s \in LinkedSources(d) :
        /\ netDep' = [netDep EXCEPT ![opts.network][d] = {s}]
        /\ package' = [id \in Ids |->
             IF id \notin importers(d) THEN package[id] ELSE {LinkInto(p, d, s) : p \in package[id]}]
  BY <1>2
<1>4. d \in Foreign /\ unlinked' \subseteq Foreign
  BY <1>1, <1>2 DEF ImportsInv, TaskKnown, Compiling
<1>5. \A id \in Ids : \A p \in package'[id] : ImportsKnown(p)
  BY <1>3, <1>4, LinkIntoKnown DEF ImportsInv, FilesKnown
<1>6. \A id \in Ids : package[id] # {} => package'[id] # {}
  BY <1>3
<1>7. \A f : effectiveUnitId(f)' = effectiveUnitId(f)
  BY <1>1 DEF effectiveUnitId
<1>8. \A f \in Units' : effectiveUnitId(f)' \in Ids /\ package'[effectiveUnitId(f)'] # {}
  BY <1>1, <1>6, <1>7 DEF ImportsInv, TaskKnown, Compiling, Units
<1>9. FilesKnown'
  BY <1>1, <1>3, <1>5 DEF ImportsInv, FilesKnown
<1>10. ~Deploying' /\ deploy'.stage # "running"
  BY DEF Deploying
<1> QED
  BY <1>1, <1>4, <1>8, <1>9, <1>10 DEF TaskKnown

(* Where neither the task nor a package changes.                           *)
LEMMA TaskStays ==
  ASSUME TaskKnown, ~Deploying, UNCHANGED <<package, opts, order, unlinked, deploy>>,
         Compiling, pc' = "building" => at' \in DOMAIN order
  PROVE  TaskKnown'
<1>1. \A f : effectiveUnitId(f)' = effectiveUnitId(f)
  BY DEF effectiveUnitId
<1>2. Units' = Units /\ ~Deploying' /\ deploy'.stage # "running"
  BY DEF Units, Deploying
<1>3. pc' = "building" => order'[at'] \in Units'
  BY <1>2 DEF Units, ToSet
<1> QED
  BY <1>1, <1>2, <1>3 DEF TaskKnown

LEMMA CompileUnitKnown ==
  ASSUME ImportsInv, ~Deploying, CompileUnit, UNCHANGED deploy
  PROVE  FilesKnown' /\ TaskKnown'
<1> DEFINE u == order[at]
<1>1. /\ pc = "units" /\ at \in DOMAIN order
      /\ UNCHANGED <<package, build, opts, order, unlinked>>
      /\ UseCached(u, computeUnitHash(u)) \/ StartBuild(u, computeUnitHash(u))
  BY DEF CompileUnit, buildVars, taskVars
<1>2. effectiveUnitId(u) \in Ids
  BY <1>1 DEF ImportsInv, TaskKnown, Compiling, Units, ToSet
<1>3. artifact' \in {artifact, Normalized(u, build[effectiveUnitId(u)])}
  BY <1>1 DEF UseCached, StartBuild
<1>4. \A b \in build[effectiveUnitId(u)] : ImportsKnown(b.package)
  BY <1>2 DEF ImportsInv, FilesKnown
<1>5. DOMAIN artifact' = Ids /\ \A id \in Ids : \A a \in artifact'[id] : ImportsKnown(a.product.package)
  BY <1>3, <1>4, NormalizedKnown DEF ImportsInv
<1>6. pc' = "building" => at' \in DOMAIN order
  BY <1>1 DEF UseCached, StartBuild
<1>7. TaskKnown'
  BY <1>1, <1>6, TaskStays DEF ImportsInv, Compiling
<1> QED
  BY <1>1, <1>5, <1>7 DEF ImportsInv, FilesKnown

LEMMA BuildReturnsKnown ==
  ASSUME ImportsInv, ~Deploying, BuildReturns, UNCHANGED deploy
  PROVE  FilesKnown' /\ TaskKnown'
<1> DEFINE u == order[at]
<1>1. /\ pc = "building" /\ pc' = "units"
      /\ UNCHANGED <<package, opts, order, unlinked>>
      /\ build' = [build EXCEPT ![effectiveUnitId(u)] = Built(u)]
      /\ artifact' = Normalized(u, Built(u))
  BY DEF BuildReturns, taskVars
<1>2. \A b \in Built(u) : ImportsKnown(b.package)
  BY <1>1, BuiltKnown DEF ImportsInv
<1>3. DOMAIN artifact' = Ids /\ \A id \in Ids : \A a \in artifact'[id] : ImportsKnown(a.product.package)
  BY <1>1, <1>2, NormalizedKnown DEF ImportsInv
<1>4. \A id \in Ids : \A b \in build'[id] : ImportsKnown(b.package)
  BY <1>1, <1>2 DEF ImportsInv, FilesKnown
<1>5. TaskKnown'
  BY <1>1, TaskStays DEF ImportsInv, Compiling
<1> QED
  BY <1>1, <1>3, <1>4, <1>5 DEF ImportsInv, FilesKnown

(* A compile that stops, with whatever it left of a build.                 *)
LEMMA StoppedKnown ==
  ASSUME ImportsInv, ~Deploying, UNCHANGED <<package, deploy>>, Stop,
         NEW u, NEW builds, \A b \in builds : ImportsKnown(b.package),
         build' \in {build, [build EXCEPT ![effectiveUnitId(u)] = {}],
                     [build EXCEPT ![effectiveUnitId(u)] = builds]},
         artifact' \in {artifact, Normalized(u, {}), CopiedOnly(u, builds), Normalized(u, builds)}
  PROVE  FilesKnown' /\ TaskKnown'
<1>1. pc' = "idle" /\ deploy'.stage # "running"
  BY DEF Stop, Deploying
<1>2. DOMAIN artifact' = Ids /\ \A id \in Ids : \A a \in artifact'[id] : ImportsKnown(a.product.package)
  <2>1. \A b \in {} : ImportsKnown(b.package)
    OBVIOUS
  <2>2. artifact' \in {artifact, Normalized(u, builds), CopiedOnly(u, builds)} \/ artifact' = Normalized(u, {})
    OBVIOUS
  <2>3. CASE artifact' \in {artifact, Normalized(u, builds), CopiedOnly(u, builds)}
    BY <2>3, NormalizedKnown DEF ImportsInv
  <2>4. CASE artifact' = Normalized(u, {})
    BY <2>1, <2>4, NormalizedKnown DEF ImportsInv
  <2> QED
    BY <2>2, <2>3, <2>4
<1>3. DOMAIN build' = Ids /\ \A id \in Ids : \A b \in build'[id] : ImportsKnown(b.package)
  BY DEF ImportsInv, FilesKnown
<1>4. FilesKnown'
  BY <1>2, <1>3 DEF ImportsInv, FilesKnown
<1> QED
  BY <1>1, <1>4 DEF TaskKnown, Compiling


LEMMA StopsKnown ==
  ASSUME ImportsInv, ~Deploying, BuildCut \/ CompileThrows \/ BindingsThrow \/ Return, UNCHANGED deploy
  PROVE  FilesKnown' /\ TaskKnown'
<1> DEFINE u == order[at]
<1>1. Stop /\ UNCHANGED package
  BY DEF BuildCut, CompileThrows, BindingsThrow, Return, buildVars
<1>2. CASE BuildCut
  <2>1. \A b \in Built(u) : ImportsKnown(b.package)
    BY <1>2, BuiltKnown DEF BuildCut, ImportsInv
  <2>2. /\ build' \in {build, [build EXCEPT ![effectiveUnitId(u)] = {}],
                       [build EXCEPT ![effectiveUnitId(u)] = Built(u)]}
        /\ artifact' \in {artifact, Normalized(u, {}), CopiedOnly(u, Built(u)), Normalized(u, Built(u))}
    BY <1>2 DEF BuildCut, BuildStays, LeavesBuild
  <2> HIDE DEF u
  <2> QED
    BY <1>1, <2>1, <2>2, StoppedKnown
<1>3. CASE CompileThrows \/ BindingsThrow \/ Return
  <2>1. build' \in {build, [build EXCEPT ![effectiveUnitId(u)] = {}]} /\ artifact' = artifact
    BY <1>3 DEF CompileThrows, BindingsThrow, Return, BuildStays, LeavesBuild, buildVars, outputVars
  <2>2. build' \in {build, [build EXCEPT ![effectiveUnitId(u)] = {}],
                    [build EXCEPT ![effectiveUnitId(u)] = {}]}
        /\ artifact' \in {artifact, Normalized(u, {}), CopiedOnly(u, {}), Normalized(u, {})}
    BY <2>1
  <2> HIDE DEF u
  <2>3. \A b \in {} : ImportsKnown(b.package)
    OBVIOUS
  <2> QED
    BY <1>1, <2>2, <2>3, StoppedKnown
<1> QED
  BY <1>2, <1>3

(* Compile, clean and what changes around them.                            *)
LEMMA CompileKnown ==
  ASSUME ImportsInv, ~Deploying, Next, UNCHANGED deploy
  PROVE  ImportsInv'
<1>1. ProjectInv'
  BY ProjectKept DEF ImportsInv
<1>2. ChainKnown'
  <2>1. CASE UNCHANGED chain
    BY <2>1 DEF ImportsInv, ChainKnown
  <2>2. CASE \E n \in Networks, d \in Foreign : \E s \in OnChain[n] : chain' = [chain EXCEPT ![n][d] = s]
    BY <2>2 DEF ImportsInv, ChainKnown
  <2>3. ~Change => UNCHANGED projectVars
    BY DEF Next, CompileBegins, MaterializeCut, LinkNetworkDependency, Linked, CompileUnit, BuildReturns,
           BuildCut, CompileThrows, CompileReturns, BindingsThrow, Return, Clean
  <2> QED
    BY <2>1, <2>2, <2>3 DEF Change, projectVars
<1>3. CASE CompileUnit \/ BuildReturns \/ BuildCut \/ CompileThrows \/ BindingsThrow \/ Return
           \/ LinkNetworkDependency
  BY <1>1, <1>2, <1>3, CompileUnitKnown, BuildReturnsKnown, StopsKnown, LinkKnown DEF ImportsInv
<1>4. CASE \E o \in Requests : CompileBegins(o) \/ MaterializeCut(o)
  BY <1>1, <1>2, <1>4, CompileBeginsKnown, MaterializeCutKnown DEF ImportsInv
<1>5. CASE Linked \/ CompileReturns
  <2>1. /\ Compiling /\ pc' # "building"
        /\ UNCHANGED <<package, build, artifact, opts, order, unlinked>>
    BY <1>5 DEF Linked, CompileReturns, Compiling, buildVars, outputVars, taskVars
  <2>2. FilesKnown'
    BY <2>1 DEF ImportsInv, FilesKnown
  <2>3. TaskKnown'
    BY <2>1, TaskStays DEF ImportsInv
  <2> QED
    BY <1>1, <1>2, <2>2, <2>3 DEF ImportsInv
<1>6. CASE Clean
  <2>1. /\ package' = [id \in Ids |-> {}] /\ build' = [id \in Ids |-> {}] /\ artifact' = [id \in Ids |-> {}]
        /\ pc = "idle" /\ pc' = "idle"
    BY <1>6 DEF Clean, Compiling, loopVars
  <2> QED
    BY <1>1, <1>2, <2>1 DEF ImportsInv, FilesKnown, TaskKnown, Compiling, Deploying
<1>7. CASE Change
  <2>1. UNCHANGED <<package, build, artifact, opts, order, unlinked, pc, at>>
    BY <1>7 DEF Change, buildVars, outputVars, taskVars, loopVars
  <2>2. FilesKnown'
    BY <2>1 DEF ImportsInv, FilesKnown
  <2>3. TaskKnown'
    <3>1. /\ Units' = Units /\ (Compiling' <=> Compiling) /\ (Deploying' <=> Deploying)
          /\ \A f : effectiveUnitId(f)' = effectiveUnitId(f)
      BY <2>1 DEF Units, Compiling, Deploying, effectiveUnitId
    <3> QED
      BY <2>1, <3>1 DEF ImportsInv, TaskKnown
  <2> QED
    BY <1>1, <1>2, <2>2, <2>3 DEF ImportsInv
<1> QED
  BY <1>3, <1>4, <1>5, <1>6, <1>7 DEF Next

(* A backend: Leo may build the package again.                             *)
LEMMA BackendKnown ==
  ASSUME ImportsInv, DeployBegins \/ BackendStep,
         UNCHANGED <<projectVars, package, hash, netDep, outputVars, opts, order, loopVars>>
  PROVE  ImportsInv'
<1>1. UNCHANGED <<dirs, source, chain, package, artifact, pc>>
  BY DEF projectVars, outputVars, loopVars
<1>2. ProjectInv' /\ ChainKnown'
  BY <1>1, ProjectKept DEF ImportsInv, ChainKnown
<1>3. ~Compiling /\ ~Compiling'
  BY <1>1 DEF DeployBegins, BackendStep, ImportsInv, TaskKnown, Deploying, Compiling, LeoNotSpawned,
              LeoTimesOut, LeoReturns, DeployContinues, LeoExits
<1>4. CASE DeployBegins
  <2>1. PICK r \in DeployRequests : SdkBuilds(r) \/ LeoSpawns(r)
    BY <1>4 DEF DeployBegins
  <2>2. build' = build
    BY <2>1 DEF SdkBuilds, LeoSpawns
  <2>3. deploy'.stage = "running" => deploy'.request.program \in Ids /\ package[deploy'.request.program] # {}
    BY <2>1, DeployAssumption DEF SdkBuilds, LeoSpawns, resolveLeoPackage
  <2> QED
    BY <1>1, <1>2, <1>3, <2>2, <2>3 DEF ImportsInv, FilesKnown, TaskKnown, Compiling
<1>5. CASE \E exit : LeoExits(exit)
  <2> DEFINE p == deploy.request.program
  <2>1. PICK b \in build[p] \cup {Product(package, p)} :
          /\ deploy.stage = "running" /\ deploy'.stage = "exited"
          /\ build' = [build EXCEPT ![p] = {b}]
    <3>1. PICK exit : LeoExits(exit)
      BY <1>5
    <3>2. deploy.stage = "running" /\ deploy'.stage = "exited"
      BY <3>1 DEF LeoExits
    <3>3. \E b \in build[p] \cup {Product(package, p)} : LeavesBuild(p, {b})
      BY <3>1 DEF LeoExits
    <3> QED
      BY <3>2, <3>3 DEF LeavesBuild
  <2>2. p \in Ids /\ package[p] # {}
    BY <2>1 DEF ImportsInv, TaskKnown
  <2>3. ImportsKnown(b.package)
    BY <2>1, <2>2, ProductKnown DEF ImportsInv, FilesKnown
  <2> HIDE DEF p
  <2>4. FilesKnown'
    BY <1>1, <2>1, <2>2, <2>3 DEF ImportsInv, FilesKnown
  <2> QED
    BY <1>1, <1>2, <1>3, <2>1, <2>4 DEF ImportsInv, TaskKnown, Compiling
<1>6. CASE LeoNotSpawned \/ LeoTimesOut \/ LeoReturns \/ DeployContinues
  <2>1. build' = build /\ (deploy'.stage = "running" => deploy.stage = "running" /\ deploy'.request = deploy.request)
    <3>1. CASE LeoTimesOut
      BY <3>1 DEF LeoTimesOut
    <3>2. CASE LeoNotSpawned \/ DeployContinues
      BY <3>2 DEF LeoNotSpawned, DeployContinues, Idle
    <3>3. CASE LeoReturns
      <4>1. deploy'.stage \in {"returned", "idle"} /\ build' = build
        BY <3>3 DEF LeoReturns, Idle
      <4> QED
        BY <4>1
    <3> QED
      BY <1>6, <3>1, <3>2, <3>3
  <2> QED
    BY <1>1, <1>2, <1>3, <2>1 DEF ImportsInv, FilesKnown, TaskKnown, Compiling
<1> QED
  BY <1>4, <1>5, <1>6 DEF BackendStep

LEMMA ImportsInitial == BackendInit => ImportsInv
<1> SUFFICES ASSUME BackendInit
             PROVE  ImportsInv
  OBVIOUS
<1>1. ProjectInv
  BY FreshInitial DEF FreshInv
<1>2. \A n \in Networks : Member(OnChain[n]) \in OnChain[n]
  BY CompilerAssumption DEF Member
<1> QED
  BY <1>1, <1>2 DEF BackendInit, Init, ImportsInv, FilesKnown, ChainKnown, TaskKnown, Compiling, Idle

(* An execution gets the source of every program that can be reached from  *)
(* it or from its runtime imports and of no other, one for each id, from   *)
(* the file that is named or else from what was compiled here or else from *)
(* the network, and fails only if one is nowhere or a file contradicts     *)
(* another runtime import; keys are used for the source they were made     *)
(* from.  For any project, networks and requests, whatever was edited,     *)
(* upgraded, interrupted or removed before.  (resolveProgramImports().)    *)
THEOREM ExecutionSources == BackendSpec => []ExecutionClosed
<1>1. ImportsInv /\ [BackendNext]_<<vars, backendVars>> => ImportsInv'
  <2> SUFFICES ASSUME ImportsInv, [BackendNext]_<<vars, backendVars>>
               PROVE  ImportsInv'
    OBVIOUS
  <2>1. CASE /\ DeployBegins \/ BackendStep
             /\ UNCHANGED <<projectVars, package, hash, netDep, outputVars, opts, order, loopVars>>
    BY <2>1, BackendKnown
  <2>2. CASE ~Deploying /\ Next /\ UNCHANGED backendVars
    BY <2>2, CompileKnown DEF backendVars
  <2>3. CASE UNCHANGED <<vars, backendVars>>
    <3>1. UNCHANGED <<dirs, source, chain, package, build, artifact, pc, unlinked, at, opts, order, deploy>>
      BY <2>3 DEF vars, projectVars, buildVars, outputVars, taskVars, loopVars, backendVars
    <3>2. /\ Units' = Units /\ (Compiling' <=> Compiling) /\ (Deploying' <=> Deploying)
          /\ \A f : effectiveUnitId(f)' = effectiveUnitId(f)
      BY <3>1 DEF Units, Compiling, Deploying, effectiveUnitId
    <3> QED
      BY <3>1, <3>2 DEF ImportsInv, ProjectInv, FilesKnown, ChainKnown, TaskKnown
  <2> QED
    BY <2>1, <2>2, <2>3 DEF BackendNext
<1> QED
  BY <1>1, ImportsInitial, ExecutionsClosed, PTL DEF BackendSpec

-----------------------------------------------------------------------------
(* Parsed ABIs                                                             *)

(* There are such sets: each level is made of the one before.              *)
LEMMA JsonTypesDefined ==
  MaxDepth \in Nat =>
    JsonTypes = [d \in 0 .. MaxDepth |-> FlatTypes \cup IF d = 0 THEN {} ELSE TypesAround(JsonTypes[d - 1])]
<1> DEFINE Types(R, n) == R = [d \in 0 .. n |-> FlatTypes \cup IF d = 0 THEN {} ELSE TypesAround(R[d - 1])]
           S == {k \in Nat : \E R : Types(R, k)}
<1>1. 0 \in S
  <2>1. Types([d \in 0 .. 0 |-> FlatTypes], 0)
    OBVIOUS
  <2> QED
    BY <2>1
<1>2. ASSUME NEW k \in S
      PROVE  k + 1 \in S
  <2>1. PICK R : Types(R, k)
    OBVIOUS
  <2> DEFINE Q == [d \in 0 .. k + 1 |-> IF d = k + 1 THEN FlatTypes \cup TypesAround(R[k]) ELSE R[d]]
  <2>2. \A d \in 0 .. k : R[d] = FlatTypes \cup IF d = 0 THEN {} ELSE TypesAround(R[d - 1])
    BY <2>1
  <2>3. \A d \in 0 .. k + 1 : Q[d] = FlatTypes \cup IF d = 0 THEN {} ELSE TypesAround(Q[d - 1])
    BY <2>2
  <2>4. Q = [d \in 0 .. k + 1 |-> FlatTypes \cup IF d = 0 THEN {} ELSE TypesAround(Q[d - 1])]
    BY <2>3
  <2> HIDE DEF Q
  <2>5. Types(Q, k + 1)
    BY <2>4
  <2> QED
    BY <2>5
<1> HIDE DEF S
<1>3. S \in SUBSET Nat
  BY DEF S
<1>4. MaxDepth \in Nat => MaxDepth \in S
  BY <1>1, <1>2, <1>3, NatSteps
<1>5. MaxDepth \in Nat => \E R : Types(R, MaxDepth)
  BY <1>4 DEF S
<1>6. SUFFICES ASSUME MaxDepth \in Nat
               PROVE  Types(JsonTypes, MaxDepth)
  OBVIOUS
<1>7. JsonTypes = CHOOSE R : Types(R, MaxDepth)
  BY DEF JsonTypes
<1> QED
  BY <1>5, <1>6, <1>7

(* What a type with so many others inside can be.                          *)
LEMMA TypeCases ==
  ASSUME NEW d \in 0 .. MaxDepth, MaxDepth \in Nat
  PROVE  /\ JsonTypes[d] \subseteq PlaintextTypes
         /\ \A t \in JsonTypes[d] :
              \/ t \in Leaves
              \/ \E r \in References : t = [Struct |-> r]
              \/ d > 0 /\ \E u \in JsonTypes[d - 1] : t = [Optional |-> u]
              \/ d > 0 /\ \E u \in JsonTypes[d - 1], n \in Lengths : t = [Array |-> [element |-> u, length |-> n]]
              \/ d > 0 /\ \E u \in JsonTypes[d - 1], n \in Lengths : t = [Array |-> [of |-> u, length |-> n]]
         /\ \A r \in References : [Struct |-> r] \in JsonTypes[d]
         /\ d > 0 => \A u \in JsonTypes[d - 1] :
              /\ [Optional |-> u] \in JsonTypes[d]
              /\ \A n \in Lengths : [Array |-> [of |-> u, length |-> n]] \in JsonTypes[d]
         /\ Leaves \subseteq JsonTypes[d]
<1>1. \A e \in 0 .. MaxDepth : JsonTypes[e] = FlatTypes \cup IF e = 0 THEN {} ELSE TypesAround(JsonTypes[e - 1])
  BY JsonTypesDefined
<1>2. JsonTypes[d] \subseteq PlaintextTypes
  <2> DEFINE S == {k \in Nat : \A e \in 0 .. MaxDepth : e + k \in 0 .. MaxDepth => JsonTypes[e] \subseteq JsonTypes[e + k]}
             Up == {k \in Nat : k + 1 \in 0 .. MaxDepth => JsonTypes[k] \subseteq JsonTypes[k + 1]}
  <2>0. \A T, U : T \subseteq U => TypesAround(T) \subseteq TypesAround(U)
    BY DEF TypesAround
  <2>1. 0 \in Up
    BY <1>1
  <2>2. ASSUME NEW k \in Up
        PROVE  k + 1 \in Up
    <3> SUFFICES ASSUME k + 2 \in 0 .. MaxDepth
                 PROVE  JsonTypes[k + 1] \subseteq JsonTypes[k + 2]
      OBVIOUS
    <3>1. JsonTypes[k] \subseteq JsonTypes[k + 1]
      OBVIOUS
    <3>2. TypesAround(JsonTypes[k]) \subseteq TypesAround(JsonTypes[k + 1])
      BY <3>1, <2>0
    <3>3. JsonTypes[k + 1] = FlatTypes \cup TypesAround(JsonTypes[k]) /\ JsonTypes[k + 2] = FlatTypes \cup TypesAround(JsonTypes[k + 1])
      BY <1>1
    <3> QED
      BY <3>2, <3>3
  <2>3. \A k \in Nat : k \in Up
    <3> HIDE DEF Up
    <3>1. Up \in SUBSET Nat
      BY DEF Up
    <3> QED
      BY <2>1, <2>2, <3>1, NatSteps
  <2>4. 0 \in S
    OBVIOUS
  <2>5. ASSUME NEW k \in S
        PROVE  k + 1 \in S
    BY <2>3
  <2>6. MaxDepth - d \in S
    <3> HIDE DEF S
    <3>1. S \in SUBSET Nat
      BY DEF S
    <3> QED
      BY <2>4, <2>5, <3>1, NatSteps
  <2>7. d + (MaxDepth - d) = MaxDepth
    OBVIOUS
  <2>8. JsonTypes[d] \subseteq JsonTypes[d + (MaxDepth - d)]
    BY <2>6, <2>7
  <2> QED
    BY <2>7, <2>8 DEF PlaintextTypes
<1> QED
  BY <1>1, <1>2 DEF FlatTypes, TypesAround

(* A reference is made canonical once.                                     *)
LEMMA RefStable ==
  ASSUME NEW r, NEW programId
  PROVE  /\ toRef(toRef(r, programId), programId) = toRef(r, programId)
         /\ programId # Null => toRef(r, programId).program # programId
  BY DEF toRef, canonicalizeRefProgram, Has, Key

(* A level of normalizePlaintext(), by the shape of the type.              *)
LEMMA NormalCases ==
  ASSUME NEW parts, NEW id
  PROVE  /\ \A t : DOMAIN t \cap {"Struct", "Array", "Optional"} = {} => NormalType(t, parts, id) = t
         /\ \A r : NormalType([Struct |-> r], parts, id) = [Struct |-> toRef(r, id)]
         /\ \A u : NormalType([Optional |-> u], parts, id) = [Optional |-> parts[u]]
         /\ \A u, n : NormalType([Array |-> [element |-> u, length |-> n]], parts, id)
                       = [Array |-> [of |-> parts[u], length |-> n]]
         /\ \A u, n : NormalType([Array |-> [of |-> u, length |-> n]], parts, id)
                       = [Array |-> [of |-> parts[u], length |-> n]]
<1>1. \A t : DOMAIN t \cap {"Struct", "Array", "Optional"} = {} => NormalType(t, parts, id) = t
  BY DEF NormalType, Has
<1>2. \A r : NormalType([Struct |-> r], parts, id) = [Struct |-> toRef(r, id)]
  BY DEF NormalType, Has
<1>3. \A u : NormalType([Optional |-> u], parts, id) = [Optional |-> parts[u]]
  BY DEF NormalType, Has
<1>4. \A u, n : NormalType([Array |-> [element |-> u, length |-> n]], parts, id)
                = [Array |-> [of |-> parts[u], length |-> n]]
  BY DEF NormalType, Has
<1>5. \A u, n : NormalType([Array |-> [of |-> u, length |-> n]], parts, id)
                = [Array |-> [of |-> parts[u], length |-> n]]
  BY DEF NormalType, Has
<1> QED
  BY <1>1, <1>2, <1>3, <1>4, <1>5

(* A reference in it is made canonical.                                    *)
LEMMA NormalRef ==
  ASSUME NEW r, NEW parts, NEW id
  PROVE  NormalType([Struct |-> r], parts, id) = [Struct |-> toRef(r, id)]
  BY DEF NormalType, Has

NormalFunction(R, id, n) ==
  R = [d \in 0 .. n |-> [t \in PlaintextTypes |-> NormalType(t, IF d = 0 THEN <<>> ELSE R[d - 1], id)]]

(* The function normalizePlaintext() is made of exists, level by level.    *)
LEMMA NormalDefined ==
  ASSUME NEW id, NEW n \in Nat
  PROVE  \E R : NormalFunction(R, id, n)
<1> DEFINE Level(parts) == [t \in PlaintextTypes |-> NormalType(t, parts, id)]
           S == {k \in Nat : \E R : NormalFunction(R, id, k)}
<1>1. 0 \in S
  <2>1. NormalFunction([d \in 0 .. 0 |-> Level(<<>>)], id, 0)
    BY DEF NormalFunction
  <2> QED
    BY <2>1
<1>2. ASSUME NEW k \in S
      PROVE  k + 1 \in S
  <2>1. PICK R : NormalFunction(R, id, k)
    OBVIOUS
  <2> DEFINE Q == [d \in 0 .. k + 1 |-> IF d = k + 1 THEN Level(R[k]) ELSE R[d]]
  <2> HIDE DEF Level
  <2>2. \A d \in 0 .. k : R[d] = Level(IF d = 0 THEN <<>> ELSE R[d - 1])
    BY <2>1 DEF NormalFunction, Level
  <2>3. \A d \in 0 .. k + 1 : Q[d] = Level(IF d = 0 THEN <<>> ELSE Q[d - 1])
    BY <2>2
  <2>4. Q = [d \in 0 .. k + 1 |-> Level(IF d = 0 THEN <<>> ELSE Q[d - 1])]
    BY <2>3
  <2> HIDE DEF Q
  <2>5. NormalFunction(Q, id, k + 1)
    BY <2>4 DEF NormalFunction, Level
  <2> QED
    BY <2>5
<1> HIDE DEF S
<1>3. S \in SUBSET Nat
  BY DEF S
<1>4. n \in S
  BY <1>1, <1>2, <1>3, NatSteps
<1> QED
  BY <1>4 DEF S

(* A type that was normalized is one, and normalizing it again changes     *)
(* nothing, however deep it is.                                            *)
LEMMA PlaintextStable ==
  ASSUME AbiAssumption, NEW id, \A r \in References : toRef(r, id) \in References,
         NEW raw \in PlaintextTypes
  PROVE  LET t == normalizePlaintext(raw, id)
         IN  t \in PlaintextTypes /\ normalizePlaintext(t, id) = t
<1> DEFINE R == CHOOSE R : NormalFunction(R, id, MaxDepth)
           Stable(d) == \A t \in JsonTypes[d] : R[d][t] \in JsonTypes[d] /\ R[d][R[d][t]] = R[d][t]
           S == {k \in Nat : k \in 0 .. MaxDepth => Stable(k)}
<1>0. MaxDepth \in Nat /\ \A t \in Leaves : DOMAIN t \cap {"Struct", "Array", "Optional"} = {}
  BY DEF AbiAssumption
<1>1. NormalFunction(R, id, MaxDepth)
  BY <1>0, NormalDefined
<1>2. \A t : normalizePlaintext(t, id) = R[MaxDepth][t]
  BY DEF normalizePlaintext, NormalFunction
<1> HIDE DEF R
<1>3. \A d \in 0 .. MaxDepth : \A t \in PlaintextTypes :
         R[d][t] = NormalType(t, IF d = 0 THEN <<>> ELSE R[d - 1], id)
  BY <1>1 DEF NormalFunction
<1>4. ASSUME NEW d \in 0 .. MaxDepth, d > 0 => Stable(d - 1)
      PROVE  Stable(d)
  <2> SUFFICES ASSUME NEW t \in JsonTypes[d]
               PROVE  R[d][t] \in JsonTypes[d] /\ R[d][R[d][t]] = R[d][t]
    OBVIOUS
  <2> DEFINE parts == IF d = 0 THEN <<>> ELSE R[d - 1]
  <2>1. \A u \in JsonTypes[d] : R[d][u] = NormalType(u, parts, id)
    BY <1>0, <1>3, TypeCases
  <2>2. \A u \in JsonTypes[d - 1] : d > 0 => parts[u] \in JsonTypes[d - 1] /\ parts[parts[u]] = parts[u]
    BY <1>4
  <2> HIDE DEF parts
  <2>3. CASE t \in Leaves
    BY <1>0, <2>1, <2>3, NormalCases
  <2>4. CASE \E r \in References : t = [Struct |-> r]
    <3>1. PICK r \in References : t = [Struct |-> r]
      BY <2>4
    <3> DEFINE q == toRef(r, id)
    <3>2. R[d][t] = [Struct |-> q]
      BY <2>1, <3>1, NormalCases
    <3>3. [Struct |-> q] \in JsonTypes[d]
      BY <1>0, TypeCases
    <3>4. toRef(q, id) = q
      BY RefStable
    <3> HIDE DEF q
    <3>5. R[d][[Struct |-> q]] = [Struct |-> toRef(q, id)]
      <4>1. R[d][[Struct |-> q]] = NormalType([Struct |-> q], parts, id)
        BY <2>1, <3>3
      <4>2. NormalType([Struct |-> q], parts, id) = [Struct |-> toRef(q, id)]
        BY NormalRef
      <4> QED
        BY <4>1, <4>2
    <3> QED
      BY <3>2, <3>3, <3>4, <3>5
  <2>5. CASE d > 0 /\ \E u \in JsonTypes[d - 1] : t = [Optional |-> u]
    <3>1. PICK u \in JsonTypes[d - 1] : t = [Optional |-> u]
      BY <2>5
    <3>2. R[d][t] = [Optional |-> parts[u]]
      BY <2>1, <3>1, NormalCases
    <3>3. [Optional |-> parts[u]] \in JsonTypes[d]
      BY <1>0, <2>2, <2>5, TypeCases
    <3>4. R[d][[Optional |-> parts[u]]] = [Optional |-> parts[parts[u]]]
      BY <2>1, <3>3, NormalCases
    <3> QED
      BY <2>2, <2>5, <3>2, <3>3, <3>4
  <2>6. CASE d > 0 /\ \E u \in JsonTypes[d - 1], n \in Lengths :
               t = [Array |-> [element |-> u, length |-> n]] \/ t = [Array |-> [of |-> u, length |-> n]]
    <3>1. PICK u \in JsonTypes[d - 1], n \in Lengths :
            t = [Array |-> [element |-> u, length |-> n]] \/ t = [Array |-> [of |-> u, length |-> n]]
      BY <2>6
    <3>2. R[d][t] = [Array |-> [of |-> parts[u], length |-> n]]
      BY <2>1, <3>1, NormalCases
    <3>3. [Array |-> [of |-> parts[u], length |-> n]] \in JsonTypes[d]
      BY <1>0, <2>2, <2>6, TypeCases
    <3>4. R[d][[Array |-> [of |-> parts[u], length |-> n]]] = [Array |-> [of |-> parts[parts[u]], length |-> n]]
      BY <2>1, <3>3, NormalCases
    <3> QED
      BY <2>2, <2>6, <3>2, <3>3, <3>4
  <2> QED
    BY <1>0, <2>3, <2>4, <2>5, <2>6, TypeCases
<1>5. MaxDepth \in S
  <2> HIDE DEF Stable
  <2>1. 0 \in S
    BY <1>4
  <2>2. ASSUME NEW k \in S
        PROVE  k + 1 \in S
    <3> SUFFICES ASSUME k + 1 \in 0 .. MaxDepth
                 PROVE  Stable(k + 1)
      OBVIOUS
    <3>1. Stable(k) /\ (k + 1) - 1 = k
      BY <1>0
    <3> QED
      BY <1>4, <3>1
  <2> HIDE DEF S
  <2>3. S \in SUBSET Nat
    BY DEF S
  <2> QED
    BY <1>0, <2>1, <2>2, <2>3, NatSteps
<1>6. Stable(MaxDepth)
  BY <1>0, <1>5
<1> QED
  BY <1>2, <1>6 DEF PlaintextTypes

(* The same for the types of storage variables.                            *)
LEMMA StorageTypesDefined ==
  MaxDepth \in Nat =>
    StorageTypes = [d \in 0 .. MaxDepth |->
      PlaintextTypes \cup {[Plaintext |-> t] : t \in PlaintextTypes}
      \cup IF d = 0 THEN {} ELSE {[Vector |-> s] : s \in StorageTypes[d - 1]}]
<1> DEFINE Around(T) == {[Vector |-> s] : s \in T}
           Bare == PlaintextTypes \cup {[Plaintext |-> t] : t \in PlaintextTypes}
           Types(R, n) == R = [d \in 0 .. n |-> Bare \cup IF d = 0 THEN {} ELSE Around(R[d - 1])]
           S == {k \in Nat : \E R : Types(R, k)}
<1> HIDE DEF Around, Bare
<1>1. 0 \in S
  <2>1. Types([d \in 0 .. 0 |-> Bare], 0)
    OBVIOUS
  <2> QED
    BY <2>1
<1>2. ASSUME NEW k \in S
      PROVE  k + 1 \in S
  <2>1. PICK R : Types(R, k)
    OBVIOUS
  <2> DEFINE Q == [d \in 0 .. k + 1 |-> IF d = k + 1 THEN Bare \cup Around(R[k]) ELSE R[d]]
  <2>2. \A d \in 0 .. k : R[d] = Bare \cup IF d = 0 THEN {} ELSE Around(R[d - 1])
    BY <2>1
  <2>3. \A d \in 0 .. k + 1 : Q[d] = Bare \cup IF d = 0 THEN {} ELSE Around(Q[d - 1])
    BY <2>2
  <2>4. Q = [d \in 0 .. k + 1 |-> Bare \cup IF d = 0 THEN {} ELSE Around(Q[d - 1])]
    BY <2>3
  <2> HIDE DEF Q
  <2>5. Types(Q, k + 1)
    BY <2>4
  <2> QED
    BY <2>5
<1> HIDE DEF S
<1>3. S \in SUBSET Nat
  BY DEF S
<1>4. MaxDepth \in Nat => MaxDepth \in S
  BY <1>1, <1>2, <1>3, NatSteps
<1>5. MaxDepth \in Nat => \E R : Types(R, MaxDepth)
  BY <1>4 DEF S
<1>6. SUFFICES ASSUME MaxDepth \in Nat
               PROVE  Types(StorageTypes, MaxDepth)
  BY DEF Around, Bare
<1>7. StorageTypes = CHOOSE R : Types(R, MaxDepth)
  BY DEF StorageTypes, Around, Bare
<1> QED
  BY <1>5, <1>6, <1>7

(* What the type of a storage variable can be.                             *)
LEMMA StorageCases ==
  ASSUME NEW d \in 0 .. MaxDepth, MaxDepth \in Nat
  PROVE  /\ StorageTypes[d] \subseteq VariableTypes
         /\ \A s \in StorageTypes[d] :
              \/ s \in PlaintextTypes
              \/ \E t \in PlaintextTypes : s = [Plaintext |-> t]
              \/ d > 0 /\ \E u \in StorageTypes[d - 1] : s = [Vector |-> u]
         /\ \A t \in PlaintextTypes : [Plaintext |-> t] \in StorageTypes[d]
         /\ d > 0 => \A u \in StorageTypes[d - 1] : [Vector |-> u] \in StorageTypes[d]
<1> DEFINE Around(T) == {[Vector |-> s] : s \in T}
           Bare == PlaintextTypes \cup {[Plaintext |-> t] : t \in PlaintextTypes}
<1>1. \A e \in 0 .. MaxDepth : StorageTypes[e] = Bare \cup IF e = 0 THEN {} ELSE Around(StorageTypes[e - 1])
  <2> DEFINE J == [e \in 0 .. MaxDepth |-> Bare \cup IF e = 0 THEN {} ELSE Around(StorageTypes[e - 1])]
  <2>1. StorageTypes = J
    BY StorageTypesDefined
  <2> HIDE DEF Bare, Around
  <2>2. \A e \in 0 .. MaxDepth : J[e] = Bare \cup IF e = 0 THEN {} ELSE Around(StorageTypes[e - 1])
    OBVIOUS
  <2> HIDE DEF J
  <2> QED
    BY <2>1, <2>2
<1>2. StorageTypes[d] \subseteq VariableTypes
  <2> DEFINE S == {k \in Nat : \A e \in 0 .. MaxDepth :
                      e + k \in 0 .. MaxDepth => StorageTypes[e] \subseteq StorageTypes[e + k]}
             Up == {k \in Nat : k + 1 \in 0 .. MaxDepth => StorageTypes[k] \subseteq StorageTypes[k + 1]}
  <2> HIDE DEF Bare
  <2>0. \A T, U : T \subseteq U => Around(T) \subseteq Around(U)
    OBVIOUS
  <2> HIDE DEF Around
  <2>1. 0 \in Up
    BY <1>1
  <2>2. ASSUME NEW k \in Up
        PROVE  k + 1 \in Up
    <3> SUFFICES ASSUME k + 2 \in 0 .. MaxDepth
                 PROVE  StorageTypes[k + 1] \subseteq StorageTypes[k + 2]
      OBVIOUS
    <3>1. StorageTypes[k] \subseteq StorageTypes[k + 1]
      OBVIOUS
    <3>2. Around(StorageTypes[k]) \subseteq Around(StorageTypes[k + 1])
      BY <3>1, <2>0
    <3>3. StorageTypes[k + 1] = Bare \cup Around(StorageTypes[k]) /\ StorageTypes[k + 2] = Bare \cup Around(StorageTypes[k + 1])
      BY <1>1
    <3> QED
      BY <3>2, <3>3
  <2>3. \A k \in Nat : k \in Up
    <3> HIDE DEF Up
    <3>1. Up \in SUBSET Nat
      BY DEF Up
    <3> QED
      BY <2>1, <2>2, <3>1, NatSteps
  <2>4. 0 \in S
    OBVIOUS
  <2>5. ASSUME NEW k \in S
        PROVE  k + 1 \in S
    BY <2>3
  <2>6. MaxDepth - d \in S
    <3> HIDE DEF S
    <3>1. S \in SUBSET Nat
      BY DEF S
    <3> QED
      BY <2>4, <2>5, <3>1, NatSteps
  <2>7. d + (MaxDepth - d) = MaxDepth
    OBVIOUS
  <2>8. StorageTypes[d] \subseteq StorageTypes[d + (MaxDepth - d)]
    BY <2>6, <2>7
  <2> QED
    BY <2>7, <2>8 DEF VariableTypes
<1> QED
  BY <1>1, <1>2

(* A level of normalizeStorageType().                                      *)
LEMMA NormalStorageCases ==
  ASSUME NEW parts, NEW id
  PROVE  /\ \A s : DOMAIN s \cap {"Plaintext", "Vector"} = {} =>
                NormalStorage(s, parts, id) = [Plaintext |-> normalizePlaintext(s, id)]
         /\ \A t : NormalStorage([Plaintext |-> t], parts, id) = [Plaintext |-> normalizePlaintext(t, id)]
         /\ \A u : NormalStorage([Vector |-> u], parts, id) = [Vector |-> parts[u]]
<1>1. \A s : DOMAIN s \cap {"Plaintext", "Vector"} = {} =>
         NormalStorage(s, parts, id) = [Plaintext |-> normalizePlaintext(s, id)]
  BY DEF NormalStorage, Has
<1>2. \A t : NormalStorage([Plaintext |-> t], parts, id) = [Plaintext |-> normalizePlaintext(t, id)]
  BY DEF NormalStorage, Has
<1>3. \A u : NormalStorage([Vector |-> u], parts, id) = [Vector |-> parts[u]]
  BY DEF NormalStorage, Has
<1> QED
  BY <1>1, <1>2, <1>3

StorageFunction(R, id, n) ==
  R = [d \in 0 .. n |-> [s \in VariableTypes |-> NormalStorage(s, IF d = 0 THEN <<>> ELSE R[d - 1], id)]]

(* Its function exists too.                                                *)
LEMMA StorageDefined ==
  ASSUME NEW id, NEW n \in Nat
  PROVE  \E R : StorageFunction(R, id, n)
<1> DEFINE Level(parts) == [s \in VariableTypes |-> NormalStorage(s, parts, id)]
           S == {k \in Nat : \E R : StorageFunction(R, id, k)}
<1>1. 0 \in S
  <2>1. StorageFunction([d \in 0 .. 0 |-> Level(<<>>)], id, 0)
    BY DEF StorageFunction
  <2> QED
    BY <2>1
<1>2. ASSUME NEW k \in S
      PROVE  k + 1 \in S
  <2>1. PICK R : StorageFunction(R, id, k)
    OBVIOUS
  <2> DEFINE Q == [d \in 0 .. k + 1 |-> IF d = k + 1 THEN Level(R[k]) ELSE R[d]]
  <2> HIDE DEF Level
  <2>2. \A d \in 0 .. k : R[d] = Level(IF d = 0 THEN <<>> ELSE R[d - 1])
    BY <2>1 DEF StorageFunction, Level
  <2>3. \A d \in 0 .. k + 1 : Q[d] = Level(IF d = 0 THEN <<>> ELSE Q[d - 1])
    BY <2>2
  <2>4. Q = [d \in 0 .. k + 1 |-> Level(IF d = 0 THEN <<>> ELSE Q[d - 1])]
    BY <2>3
  <2> HIDE DEF Q
  <2>5. StorageFunction(Q, id, k + 1)
    BY <2>4 DEF StorageFunction, Level
  <2> QED
    BY <2>5
<1> HIDE DEF S
<1>3. S \in SUBSET Nat
  BY DEF S
<1>4. n \in S
  BY <1>1, <1>2, <1>3, NatSteps
<1> QED
  BY <1>4 DEF S

(* The type of a storage variable too is normalized once.                  *)
LEMMA StorageStable ==
  ASSUME AbiAssumption, NEW id, \A r \in References : toRef(r, id) \in References,
         NEW raw \in VariableTypes
  PROVE  normalizeStorageType(normalizeStorageType(raw, id), id) = normalizeStorageType(raw, id)
<1> DEFINE R == CHOOSE R : StorageFunction(R, id, MaxDepth)
           Stable(d) == \A s \in StorageTypes[d] : R[d][s] \in StorageTypes[d] /\ R[d][R[d][s]] = R[d][s]
           S == {k \in Nat : k \in 0 .. MaxDepth => Stable(k)}
<1>0. MaxDepth \in Nat
  BY DEF AbiAssumption
<1>1. StorageFunction(R, id, MaxDepth)
  BY <1>0, StorageDefined
<1>2. \A s : normalizeStorageType(s, id) = R[MaxDepth][s]
  BY DEF normalizeStorageType, StorageFunction
<1> HIDE DEF R
<1>3. \A d \in 0 .. MaxDepth : \A s \in VariableTypes :
         R[d][s] = NormalStorage(s, IF d = 0 THEN <<>> ELSE R[d - 1], id)
  BY <1>1 DEF StorageFunction
<1>4. \A t \in PlaintextTypes :
        /\ DOMAIN t \cap {"Plaintext", "Vector"} = {}
        /\ normalizePlaintext(t, id) \in PlaintextTypes
        /\ normalizePlaintext(normalizePlaintext(t, id), id) = normalizePlaintext(t, id)
  <2> TAKE t \in PlaintextTypes
  <2>1. t \in JsonTypes[MaxDepth] /\ MaxDepth \in 0 .. MaxDepth
    BY <1>0 DEF PlaintextTypes
  <2>2. DOMAIN t \cap {"Plaintext", "Vector"} = {}
    BY <1>0, <2>1, TypeCases DEF AbiAssumption
  <2> QED
    BY <2>2, PlaintextStable
<1>5. ASSUME NEW d \in 0 .. MaxDepth, d > 0 => Stable(d - 1)
      PROVE  Stable(d)
  <2> SUFFICES ASSUME NEW s \in StorageTypes[d]
               PROVE  R[d][s] \in StorageTypes[d] /\ R[d][R[d][s]] = R[d][s]
    OBVIOUS
  <2> DEFINE parts == IF d = 0 THEN <<>> ELSE R[d - 1]
  <2>1. \A u \in StorageTypes[d] : R[d][u] = NormalStorage(u, parts, id)
    BY <1>0, <1>3, StorageCases
  <2>2. \A u \in StorageTypes[d - 1] : d > 0 => parts[u] \in StorageTypes[d - 1] /\ parts[parts[u]] = parts[u]
    BY <1>5
  <2> HIDE DEF parts
  <2>3. ASSUME NEW t \in PlaintextTypes, s = t \/ s = [Plaintext |-> t]
        PROVE  R[d][s] \in StorageTypes[d] /\ R[d][R[d][s]] = R[d][s]
    <3> DEFINE n == normalizePlaintext(t, id)
    <3>1. n \in PlaintextTypes /\ normalizePlaintext(n, id) = n
      BY <1>4
    <3>2. R[d][s] = [Plaintext |-> n]
      BY <1>4, <2>1, <2>3, NormalStorageCases
    <3> HIDE DEF n
    <3>3. [Plaintext |-> n] \in StorageTypes[d]
      BY <1>0, <3>1, StorageCases
    <3>4. R[d][[Plaintext |-> n]] = [Plaintext |-> normalizePlaintext(n, id)]
      BY <2>1, <3>3, NormalStorageCases
    <3> QED
      BY <3>1, <3>2, <3>3, <3>4
  <2>4. CASE d > 0 /\ \E u \in StorageTypes[d - 1] : s = [Vector |-> u]
    <3>1. PICK u \in StorageTypes[d - 1] : s = [Vector |-> u]
      BY <2>4
    <3>2. R[d][s] = [Vector |-> parts[u]]
      BY <2>1, <3>1, NormalStorageCases
    <3>3. [Vector |-> parts[u]] \in StorageTypes[d]
      BY <1>0, <2>2, <2>4, StorageCases
    <3>4. R[d][[Vector |-> parts[u]]] = [Vector |-> parts[parts[u]]]
      BY <2>1, <3>3, NormalStorageCases
    <3> QED
      BY <2>2, <2>4, <3>2, <3>3, <3>4
  <2> QED
    BY <1>0, <2>3, <2>4, StorageCases
<1>6. MaxDepth \in S
  <2> HIDE DEF Stable
  <2>1. 0 \in S
    BY <1>5
  <2>2. ASSUME NEW k \in S
        PROVE  k + 1 \in S
    <3> SUFFICES ASSUME k + 1 \in 0 .. MaxDepth
                 PROVE  Stable(k + 1)
      OBVIOUS
    <3>1. Stable(k) /\ (k + 1) - 1 = k
      BY <1>0
    <3> QED
      BY <1>5, <3>1
  <2> HIDE DEF S
  <2>3. S \in SUBSET Nat
    BY DEF S
  <2> QED
    BY <1>0, <2>1, <2>2, <2>3, NatSteps
<1>7. Stable(MaxDepth)
  BY <1>0, <1>6
<1> QED
  BY <1>2, <1>7 DEF VariableTypes

-----------------------------------------------------------------------------
(* normalizeOutput(), by the shape of what it is given.                    *)
LEMMA AleoTypes ==
  ASSUME NEW id
  PROVE  /\ normalizeAleoType([bare |-> "Final"], id) = [Future |-> id]
         /\ normalizeAleoType([bare |-> "DynamicRecord"], id) = [bare |-> "DynamicRecord"]
         /\ normalizeAleoType([Future |-> id], id) = [Future |-> id]
         /\ \A r : normalizeAleoType([Record |-> r], id) = [Record |-> toRef(r, id)]
         /\ \A t : normalizeAleoType([Plaintext |-> t], id) = [Plaintext |-> normalizePlaintext(t, id)]
<1>1. normalizeAleoType([bare |-> "Final"], id) = [Future |-> id]
  BY DEF normalizeAleoType, Has
<1>2. normalizeAleoType([bare |-> "DynamicRecord"], id) = [bare |-> "DynamicRecord"]
  BY DEF normalizeAleoType, Has
<1>3. normalizeAleoType([Future |-> id], id) = [Future |-> id]
  BY DEF normalizeAleoType, Has
<1>4. \A r : normalizeAleoType([Record |-> r], id) = [Record |-> toRef(r, id)]
  BY DEF normalizeAleoType, Has
<1>5. \A t : normalizeAleoType([Plaintext |-> t], id) = [Plaintext |-> normalizePlaintext(t, id)]
  BY DEF normalizeAleoType, Has
<1> QED
  BY <1>1, <1>2, <1>3, <1>4, <1>5

(* Of a record.                                                            *)
LEMMA AleoRecord ==
  ASSUME NEW r, NEW id
  PROVE  normalizeAleoType([Record |-> r], id) = [Record |-> toRef(r, id)]
  BY DEF normalizeAleoType, Has

(* Of plaintext.                                                           *)
LEMMA AleoPlaintext ==
  ASSUME NEW t, NEW id
  PROVE  normalizeAleoType([Plaintext |-> t], id) = [Plaintext |-> normalizePlaintext(t, id)]
  BY DEF normalizeAleoType, Has

(* What an input or output becomes, whoever wrote it.                      *)
IoType(io, id) ==
  CASE Has(io, "Plaintext") -> [Plaintext |-> normalizePlaintext(io.Plaintext.ty, id)]
    [] Has(io, "Record") -> [Record |-> toRef(io.Record, id)]
    [] io = [bare |-> "Final"] -> [Future |-> id]
    [] OTHER -> [bare |-> "DynamicRecord"]

IoMode(io, ctx) ==
  IF Has(io, "Plaintext") THEN canonicalizePlaintextMode(io.Plaintext.mode, ctx) ELSE "Private"

ParsedIo(io, id, ctx) == [ty |-> IoType(io, id), mode |-> IoMode(io, ctx)]

(* The cases of Ios.                                                       *)
LEMMA IoCases ==
  ASSUME NEW io \in Ios, NEW id, NEW ctx
  PROVE  \/ /\ \E t \in PlaintextTypes, m \in Modes :
                 /\ io = [Plaintext |-> [ty |-> t, mode |-> m]]
                 /\ IoType(io, id) = [Plaintext |-> normalizePlaintext(t, id)]
                 /\ IoMode(io, ctx) = canonicalizePlaintextMode(m, ctx)
         \/ /\ \E r \in References : io = [Record |-> r] /\ IoType(io, id) = [Record |-> toRef(r, id)]
            /\ IoMode(io, ctx) = "Private"
         \/ io = [bare |-> "Final"] /\ IoType(io, id) = [Future |-> id] /\ IoMode(io, ctx) = "Private"
         \/ /\ io = [bare |-> "DynamicRecord"] /\ IoType(io, id) = [bare |-> "DynamicRecord"]
            /\ IoMode(io, ctx) = "Private"
<1>1. CASE \E t \in PlaintextTypes, m \in Modes : io = [Plaintext |-> [ty |-> t, mode |-> m]]
  BY <1>1 DEF IoType, IoMode, Has
<1>2. CASE \E r \in References : io = [Record |-> r]
  BY <1>2 DEF IoType, IoMode, Has
<1>3. CASE io = [bare |-> "Final"]
  BY <1>3 DEF IoType, IoMode, Has
<1>4. CASE io = [bare |-> "DynamicRecord"]
  <2>1. [bare |-> "DynamicRecord"] # [bare |-> "Final"]
    OBVIOUS
  <2> QED
    BY <1>4, <2>1 DEF IoType, IoMode, Has
<1> QED
  BY <1>1, <1>2, <1>3, <1>4 DEF Ios

(* Envelopes: Leo 4.1 and the parser's own output.                         *)
LEMMA WrapperParsed ==
  ASSUME NEW raw, NEW id, NEW ctx, Has(raw, "ty"), ~Has(raw, "bare")
  PROVE  normalizeOutput(raw, id, ctx) =
           [ty |-> normalizeAleoType(raw.ty, id),
            mode |-> modeForAleoType(normalizeAleoType(raw.ty, id), Key(raw, "mode", "None"), ctx)]
<1>1. detectInputShape(raw) = "wrapper"
  BY DEF detectInputShape, Has
<1> QED
  BY <1>1 DEF normalizeOutput

(* Variants: Leo 4.2 and later.                                            *)
LEMMA PlaintextParsed ==
  ASSUME NEW id, NEW ctx, NEW x
  PROVE  normalizeOutput([Plaintext |-> x], id, ctx) =
           [ty |-> [Plaintext |-> normalizePlaintext(x.ty, id)],
            mode |-> canonicalizePlaintextMode(Key(x, "mode", "None"), ctx)]
<1> DEFINE raw == [Plaintext |-> x]
<1>1. detectInputShape(raw) = "positional" /\ Has(raw, "Plaintext") /\ raw.Plaintext = x
  BY DEF detectInputShape, Has
<1> HIDE DEF raw
<1>2. normalizeOutput(raw, id, ctx) =
        [ty |-> [Plaintext |-> normalizePlaintext(x.ty, id)],
         mode |-> modeForAleoType([Plaintext |-> normalizePlaintext(x.ty, id)], Key(x, "mode", "None"), ctx)]
  BY <1>1 DEF normalizeOutput
<1> QED
  BY <1>2 DEF modeForAleoType, Has, raw

(* A record has no mode.                                                   *)
LEMMA RecordParsed ==
  ASSUME NEW id, NEW ctx, NEW r
  PROVE  normalizeOutput([Record |-> r], id, ctx) = [ty |-> [Record |-> toRef(r, id)], mode |-> "Private"]
<1> DEFINE raw == [Record |-> r]
<1>1. detectInputShape(raw) = "positional" /\ ~Has(raw, "Plaintext")
  BY DEF detectInputShape, Has
<1>2. normalizeAleoType(raw, id) = [Record |-> toRef(r, id)]
  BY AleoTypes
<1> HIDE DEF raw
<1>3. normalizeOutput(raw, id, ctx) =
        [ty |-> [Record |-> toRef(r, id)], mode |-> modeForAleoType([Record |-> toRef(r, id)], "None", ctx)]
  BY <1>1, <1>2 DEF normalizeOutput
<1> QED
  BY <1>3 DEF modeForAleoType, Has, raw

(* Neither has a string.                                                   *)
LEMMA BareParsed ==
  ASSUME NEW id, NEW ctx, NEW b, NEW ty, normalizeAleoType([bare |-> b], id) = ty, ~Has(ty, "Plaintext")
  PROVE  normalizeOutput([bare |-> b], id, ctx) = [ty |-> ty, mode |-> "Private"]
<1> DEFINE raw == [bare |-> b]
<1>1. detectInputShape(raw) = "bare" /\ ~Has(raw, "Plaintext")
  BY DEF detectInputShape, Has
<1>2. normalizeAleoType(raw, id) = ty
  OBVIOUS
<1> HIDE DEF raw
<1>3. normalizeOutput(raw, id, ctx) = [ty |-> ty, mode |-> modeForAleoType(ty, "None", ctx)]
  BY <1>1, <1>2 DEF normalizeOutput
<1> QED
  BY <1>3 DEF modeForAleoType, raw

(* An element of Leo's is parsed to the same, whichever Leo wrote it.      *)
LEMMA ElementParsed ==
  ASSUME NEW v, NEW e, e.io \in Ios, NEW id, NEW ctx
  PROVE  /\ normalizeOutput(Output(v, e), id, ctx) = ParsedIo(e.io, id, ctx)
         /\ normalizeOutput(Input(v, e), id, ctx) = ParsedIo(e.io, id, ctx)
<1> DEFINE io == e.io
<1>1. normalizeOutput(Variant(io), id, ctx) = ParsedIo(io, id, ctx)
  <2> HIDE DEF io
  <2>0. io \in Ios
    BY DEF io
  <2>1. ASSUME NEW t \in PlaintextTypes, NEW m \in Modes, io = [Plaintext |-> [ty |-> t, mode |-> m]],
               IoType(io, id) = [Plaintext |-> normalizePlaintext(t, id)],
               IoMode(io, ctx) = canonicalizePlaintextMode(m, ctx)
        PROVE  normalizeOutput(Variant(io), id, ctx) = ParsedIo(io, id, ctx)
    <3> DEFINE x == IF m = "default" THEN [ty |-> t] ELSE [ty |-> t, mode |-> m]
    <3>1. Variant(io) = [Plaintext |-> x]
      BY <2>1 DEF Variant, Moded, Has
    <3>2. x.ty = t /\ Key(x, "mode", "None") = IF m = "default" THEN "None" ELSE m
      BY DEF Key
    <3>3. canonicalizePlaintextMode(Key(x, "mode", "None"), ctx) = canonicalizePlaintextMode(m, ctx)
      BY <3>2 DEF canonicalizePlaintextMode
    <3> HIDE DEF x
    <3>4. normalizeOutput([Plaintext |-> x], id, ctx) =
            [ty |-> [Plaintext |-> normalizePlaintext(x.ty, id)],
             mode |-> canonicalizePlaintextMode(Key(x, "mode", "None"), ctx)]
      BY PlaintextParsed
    <3> QED
      BY <2>1, <3>1, <3>2, <3>3, <3>4 DEF ParsedIo
  <2>2. ASSUME ~Has(io, "Plaintext")
        PROVE  Variant(io) = io
    BY <2>2 DEF Variant
  <2>3. ASSUME NEW r \in References, io = [Record |-> r], IoType(io, id) = [Record |-> toRef(r, id)],
               IoMode(io, ctx) = "Private"
        PROVE  normalizeOutput(Variant(io), id, ctx) = ParsedIo(io, id, ctx)
    <3>1. Variant(io) = [Record |-> r]
      BY <2>2, <2>3 DEF Has
    <3>2. normalizeOutput([Record |-> r], id, ctx) = [ty |-> [Record |-> toRef(r, id)], mode |-> "Private"]
      BY RecordParsed
    <3> QED
      BY <2>3, <3>1, <3>2 DEF ParsedIo
  <2>4. ASSUME io = [bare |-> "Final"], IoType(io, id) = [Future |-> id], IoMode(io, ctx) = "Private"
        PROVE  normalizeOutput(Variant(io), id, ctx) = ParsedIo(io, id, ctx)
    <3>1. Variant(io) = [bare |-> "Final"]
      BY <2>2, <2>4 DEF Has
    <3>2. ~Has([Future |-> id], "Plaintext")
      BY DEF Has
    <3>3. normalizeOutput([bare |-> "Final"], id, ctx) = [ty |-> [Future |-> id], mode |-> "Private"]
      BY <3>2, BareParsed, AleoTypes
    <3> QED
      BY <2>4, <3>1, <3>3 DEF ParsedIo
  <2>5. ASSUME io = [bare |-> "DynamicRecord"], IoType(io, id) = [bare |-> "DynamicRecord"],
               IoMode(io, ctx) = "Private"
        PROVE  normalizeOutput(Variant(io), id, ctx) = ParsedIo(io, id, ctx)
    <3>1. Variant(io) = [bare |-> "DynamicRecord"]
      BY <2>2, <2>5 DEF Has
    <3>2. ~Has([bare |-> "DynamicRecord"], "Plaintext")
      BY DEF Has
    <3>3. normalizeOutput([bare |-> "DynamicRecord"], id, ctx)
            = [ty |-> [bare |-> "DynamicRecord"], mode |-> "Private"]
      <4> DEFINE ty == [bare |-> "DynamicRecord"]
      <4>1. normalizeAleoType([bare |-> "DynamicRecord"], id) = ty /\ ~Has(ty, "Plaintext")
        BY <3>2, AleoTypes
      <4> HIDE DEF ty
      <4>2. normalizeOutput([bare |-> "DynamicRecord"], id, ctx) = [ty |-> ty, mode |-> "Private"]
        BY <4>1, BareParsed
      <4> QED
        BY <4>2 DEF ty
    <3> QED
      BY <2>5, <3>1, <3>3 DEF ParsedIo
  <2> QED
    BY <2>0, <2>1, <2>3, <2>4, <2>5, IoCases
<1>2. ASSUME NEW raw, Has(raw, "ty"), ~Has(raw, "bare"), Has(raw, "mode"),
             raw.ty = Envelope(io).ty, raw.mode = Envelope(io).mode
      PROVE  normalizeOutput(raw, id, ctx) = ParsedIo(io, id, ctx)
  <2> HIDE DEF io
  <2>0. io \in Ios
    BY DEF io
  <2>1. normalizeOutput(raw, id, ctx) =
           [ty |-> normalizeAleoType(raw.ty, id),
            mode |-> modeForAleoType(normalizeAleoType(raw.ty, id), raw.mode, ctx)]
    BY <1>2, WrapperParsed DEF Key, Has
  <2>2. ASSUME NEW t \in PlaintextTypes, NEW m \in Modes, io = [Plaintext |-> [ty |-> t, mode |-> m]],
               IoType(io, id) = [Plaintext |-> normalizePlaintext(t, id)],
               IoMode(io, ctx) = canonicalizePlaintextMode(m, ctx)
        PROVE  normalizeOutput(raw, id, ctx) = ParsedIo(io, id, ctx)
    <3>1. raw.ty = [Plaintext |-> t] /\ raw.mode = IF m = "default" THEN "None" ELSE m
      BY <1>2, <2>2 DEF Envelope, Moded, Has
    <3>2. normalizeAleoType(raw.ty, id) = [Plaintext |-> normalizePlaintext(t, id)]
      BY <3>1, AleoTypes
    <3>3. modeForAleoType([Plaintext |-> normalizePlaintext(t, id)], raw.mode, ctx)
            = canonicalizePlaintextMode(m, ctx)
      BY <3>1 DEF modeForAleoType, canonicalizePlaintextMode, Has
    <3> QED
      BY <2>1, <2>2, <3>2, <3>3 DEF ParsedIo
  <2>3. ASSUME ~Has(io, "Plaintext"), NEW ty, normalizeAleoType(io, id) = ty, ~Has(ty, "Plaintext"),
               IoType(io, id) = ty, IoMode(io, ctx) = "Private"
        PROVE  normalizeOutput(raw, id, ctx) = ParsedIo(io, id, ctx)
    <3>1. raw.ty = io
      BY <1>2, <2>3 DEF Envelope
    <3>2. modeForAleoType(ty, raw.mode, ctx) = "Private"
      BY <2>3 DEF modeForAleoType
    <3> QED
      BY <2>1, <2>3, <3>1, <3>2 DEF ParsedIo
  <2>4. \A x : ~Has([Record |-> x], "Plaintext") /\ ~Has([Future |-> x], "Plaintext") /\ ~Has([bare |-> x], "Plaintext")
    BY DEF Has
  <2>5. ASSUME NEW r \in References, io = [Record |-> r], IoType(io, id) = [Record |-> toRef(r, id)],
               IoMode(io, ctx) = "Private"
        PROVE  normalizeOutput(raw, id, ctx) = ParsedIo(io, id, ctx)
    BY <2>3, <2>4, <2>5, AleoTypes
  <2>6. ASSUME io = [bare |-> "Final"], IoType(io, id) = [Future |-> id], IoMode(io, ctx) = "Private"
        PROVE  normalizeOutput(raw, id, ctx) = ParsedIo(io, id, ctx)
    BY <2>3, <2>4, <2>6, AleoTypes
  <2>7. ASSUME io = [bare |-> "DynamicRecord"], IoType(io, id) = [bare |-> "DynamicRecord"],
               IoMode(io, ctx) = "Private"
        PROVE  normalizeOutput(raw, id, ctx) = ParsedIo(io, id, ctx)
    BY <2>3, <2>4, <2>7, AleoTypes
  <2> QED
    BY <2>0, <2>2, <2>5, <2>6, <2>7, IoCases
<1>3. normalizeOutput(Envelope(io), id, ctx) = ParsedIo(io, id, ctx)
  <2>1. Has(Envelope(io), "ty") /\ ~Has(Envelope(io), "bare") /\ Has(Envelope(io), "mode")
    BY DEF Envelope, Has
  <2> QED
    BY <1>2, <2>1
<1>4. ASSUME v = "4.1"
      PROVE  normalizeOutput(Input(v, e), id, ctx) = ParsedIo(io, id, ctx)
  <2> DEFINE raw == Input(v, e)
  <2>1. /\ Has(raw, "ty") /\ ~Has(raw, "bare") /\ Has(raw, "mode")
        /\ raw.ty = Envelope(io).ty /\ raw.mode = Envelope(io).mode
    BY <1>4 DEF Input, Has
  <2> HIDE DEF raw
  <2>2. normalizeOutput(raw, id, ctx) = ParsedIo(io, id, ctx)
    BY <1>2, <2>1
  <2> QED
    BY <2>2 DEF raw
<1> QED
  BY <1>1, <1>3, <1>4 DEF Input, Output

(* What was parsed once is not changed by parsing it again.                *)
LEMMA ParsedIoStable ==
  ASSUME AbiAssumption, NEW id, \A r \in References : toRef(r, id) \in References,
         NEW io \in Ios, NEW ctx, NEW raw,
         Has(raw, "ty"), ~Has(raw, "bare"), Has(raw, "mode"),
         raw.ty = IoType(io, id), raw.mode = IoMode(io, ctx)
  PROVE  normalizeOutput(raw, id, ctx) = ParsedIo(io, id, ctx)
<1>1. normalizeOutput(raw, id, ctx) =
         [ty |-> normalizeAleoType(raw.ty, id),
          mode |-> modeForAleoType(normalizeAleoType(raw.ty, id), raw.mode, ctx)]
  BY WrapperParsed DEF Key, Has
<1>2. ASSUME NEW t \in PlaintextTypes, NEW m \in Modes,
             IoType(io, id) = [Plaintext |-> normalizePlaintext(t, id)],
             IoMode(io, ctx) = canonicalizePlaintextMode(m, ctx)
      PROVE  normalizeOutput(raw, id, ctx) = ParsedIo(io, id, ctx)
  <2> DEFINE n == normalizePlaintext(t, id)
  <2>1. normalizePlaintext(n, id) = n
    BY PlaintextStable
  <2> HIDE DEF n
  <2>2. raw.ty = [Plaintext |-> n]
    BY <1>2 DEF n
  <2>3. normalizeAleoType([Plaintext |-> n], id) = [Plaintext |-> n]
    BY <2>1, AleoPlaintext
  <2>4. modeForAleoType([Plaintext |-> n], raw.mode, ctx) = raw.mode
    BY <1>2 DEF modeForAleoType, canonicalizePlaintextMode, Has
  <2> QED
    BY <1>1, <2>2, <2>3, <2>4 DEF ParsedIo
<1>3. ASSUME NEW ty, IoType(io, id) = ty, normalizeAleoType(ty, id) = ty, ~Has(ty, "Plaintext"),
             IoMode(io, ctx) = "Private"
      PROVE  normalizeOutput(raw, id, ctx) = ParsedIo(io, id, ctx)
  <2>1. modeForAleoType(ty, raw.mode, ctx) = "Private"
    BY <1>3 DEF modeForAleoType
  <2> QED
    BY <1>1, <1>3, <2>1 DEF ParsedIo
<1>4. ASSUME NEW r \in References, IoType(io, id) = [Record |-> toRef(r, id)], IoMode(io, ctx) = "Private"
      PROVE  normalizeOutput(raw, id, ctx) = ParsedIo(io, id, ctx)
  <2> DEFINE q == toRef(r, id)
  <2>1. toRef(q, id) = q
    BY RefStable
  <2> HIDE DEF q
  <2>2. normalizeAleoType([Record |-> q], id) = [Record |-> q]
    BY <2>1, AleoRecord
  <2>3. ~Has([Record |-> q], "Plaintext")
    BY DEF Has
  <2> QED
    BY <1>3, <1>4, <2>2, <2>3 DEF q
<1>5. ~Has([Future |-> id], "Plaintext") /\ ~Has([bare |-> "DynamicRecord"], "Plaintext")
  BY DEF Has
<1>6. ASSUME IoType(io, id) = [Future |-> id], IoMode(io, ctx) = "Private"
      PROVE  normalizeOutput(raw, id, ctx) = ParsedIo(io, id, ctx)
  BY <1>3, <1>5, <1>6, AleoTypes
<1>7. ASSUME IoType(io, id) = [bare |-> "DynamicRecord"], IoMode(io, ctx) = "Private"
      PROVE  normalizeOutput(raw, id, ctx) = ParsedIo(io, id, ctx)
  BY <1>3, <1>5, <1>7, AleoTypes
<1> QED
  BY <1>2, <1>4, <1>6, <1>7, IoCases

(* A function whose ABI was parsed: 4.1 names its inputs and says what its *)
(* constant parameters are.                                                *)
ParsedParameters(v, f) == IF v = "4.1" THEN f.const_parameters ELSE <<>>

ParsedInputs(v, f, id, ctx) ==
  [i \in DOMAIN f.inputs |->
     [name |-> IF v = "4.1" THEN f.inputs[i].name ELSE Arg(i),
      ty |-> IoType(f.inputs[i].io, id), mode |-> IoMode(f.inputs[i].io, ctx)]]

ParsedOutputs(f, id, ctx) == [i \in DOMAIN f.outputs |-> ParsedIo(f.outputs[i].io, id, ctx)]

ParsedView(v, f, id) ==
  [name |-> f.name, inputs |-> ParsedInputs(v, f, id, "view"),
   outputs |-> ParsedOutputs(f, id, "view"), const_parameters |-> ParsedParameters(v, f)]

Final(f) == \E i \in DOMAIN f.outputs : f.outputs[i].io = [bare |-> "Final"]

ParsedFunction(v, f, id) ==
  [name |-> f.name, inputs |-> ParsedInputs(v, f, id, "transition"),
   outputs |-> ParsedOutputs(f, id, "transition"), const_parameters |-> ParsedParameters(v, f),
   is_async |-> Final(f)]

(* What Leo says of a function or of a view.                               *)
Written(v, f, l) ==
  /\ l.name = f.name
  /\ DOMAIN l.inputs = DOMAIN f.inputs /\ \A i \in DOMAIN f.inputs : l.inputs[i] = Input(v, f.inputs[i])
  /\ DOMAIN l.outputs = DOMAIN f.outputs /\ \A i \in DOMAIN f.outputs : l.outputs[i] = Output(v, f.outputs[i])
  /\ Key(l, "const_parameters", <<>>) = ParsedParameters(v, f)

(* Of a view,                                                              *)
LEMMA ViewFields ==
  ASSUME NEW v, NEW f, NEW l, l = LeoView(v, f)
  PROVE  Written(v, f, l)
<1>1. /\ l.name = f.name
      /\ l.inputs = [i \in DOMAIN f.inputs |-> Input(v, f.inputs[i])]
      /\ l.outputs = [i \in DOMAIN f.outputs |-> Output(v, f.outputs[i])]
  <2>1. CASE v = "4.1"
    BY <2>1 DEF LeoView, Map
  <2>2. CASE v # "4.1"
    BY <2>2 DEF LeoView, Map
  <2> QED
    BY <2>1, <2>2
<1>2. Key(l, "const_parameters", <<>>) = ParsedParameters(v, f)
  <2>1. CASE v = "4.1"
    BY <2>1 DEF LeoView, ParsedParameters, Key
  <2>2. CASE v # "4.1"
    BY <2>2 DEF LeoView, ParsedParameters, Key
  <2> QED
    BY <2>1, <2>2
<1> QED
  BY <1>1, <1>2 DEF Written

(* and of a function, which 4.1 says is final or not.                      *)
LEMMA FunctionFields ==
  ASSUME NEW v, NEW f, NEW l, l = LeoFunction(v, f)
  PROVE  /\ Written(v, f, l)
         /\ ~Has(l, "is_async")
         /\ Has(l, "is_final") <=> v = "4.1"
<1> DEFINE view == LeoView(v, f)
<1>0. Written(v, f, view)
  BY ViewFields
<1>1. CASE v = "4.1"
  <2>1. /\ l.name = view.name /\ l.inputs = view.inputs /\ l.outputs = view.outputs
        /\ Has(l, "const_parameters") /\ l.const_parameters = view.const_parameters
        /\ ~Has(l, "is_async") /\ Has(l, "is_final")
    BY <1>1 DEF LeoFunction, Has
  <2>2. Has(view, "const_parameters")
    BY <1>1 DEF LeoView, Has
  <2> HIDE DEF view
  <2>3. Key(l, "const_parameters", <<>>) = Key(view, "const_parameters", <<>>)
    BY <2>1, <2>2 DEF Key, Has
  <2> QED
    BY <1>0, <1>1, <2>1, <2>3 DEF Written
<1>2. CASE v # "4.1"
  <2>1. l = view
    BY <1>2 DEF LeoFunction
  <2>2. ~Has(view, "is_async") /\ ~Has(view, "is_final")
    BY <1>2 DEF LeoView, Has
  <2> HIDE DEF view
  <2> QED
    BY <1>0, <1>2, <2>1, <2>2
<1> QED
  BY <1>1, <1>2

(* Leo 4.1 says whether it has a finalize block.                           *)
LEMMA FunctionFinal ==
  ASSUME NEW f
  PROVE  LeoFunction("4.1", f).is_final = Final(f)
  BY DEF LeoFunction, Final

(* An input that has no name gets one.                                     *)
LEMMA InputParsed ==
  ASSUME NEW v, NEW e, e.io \in Ios, NEW id, NEW ctx, NEW i
  PROVE  normalizeInput(Input(v, e), id, ctx, i) =
           [name |-> IF v = "4.1" THEN e.name ELSE Arg(i), ty |-> IoType(e.io, id), mode |-> IoMode(e.io, ctx)]
<1>1. normalizeOutput(Input(v, e), id, ctx) = ParsedIo(e.io, id, ctx)
  BY ElementParsed
<1>2. Key(Input(v, e), "name", Arg(i)) = IF v = "4.1" THEN e.name ELSE Arg(i)
  <2>1. CASE v = "4.1"
    BY <2>1 DEF Input, Key
  <2>2. CASE v # "4.1"
    <3>1. Input(v, e) = Variant(e.io)
      BY <2>2 DEF Input
    <3>2. "name" \notin DOMAIN Variant(e.io)
      BY DEF Variant, Moded, Has, Ios
    <3> QED
      BY <2>2, <3>1, <3>2 DEF Key
  <2> QED
    BY <2>1, <2>2
<1> QED
  BY <1>1, <1>2 DEF normalizeInput, ParsedIo

(* All inputs and outputs of a function or a view.                         *)
LEMMA IoParsed ==
  ASSUME NEW v, NEW f, IosOf(f), NEW id, NEW ctx, NEW l, Written(v, f, l)
  PROVE  normalizeIo(l, id, ctx) =
           [name |-> f.name, inputs |-> ParsedInputs(v, f, id, ctx),
            outputs |-> ParsedOutputs(f, id, ctx), const_parameters |-> ParsedParameters(v, f)]
<1>1. /\ l.name = f.name
      /\ DOMAIN l.inputs = DOMAIN f.inputs /\ \A i \in DOMAIN f.inputs : l.inputs[i] = Input(v, f.inputs[i])
      /\ DOMAIN l.outputs = DOMAIN f.outputs /\ \A i \in DOMAIN f.outputs : l.outputs[i] = Output(v, f.outputs[i])
      /\ Key(l, "const_parameters", <<>>) = ParsedParameters(v, f)
  BY DEF Written
<1>2. [i \in DOMAIN l.inputs |-> normalizeInput(l.inputs[i], id, ctx, i)] = ParsedInputs(v, f, id, ctx)
  <2>1. \A i \in DOMAIN f.inputs : normalizeInput(Input(v, f.inputs[i]), id, ctx, i) =
           [name |-> IF v = "4.1" THEN f.inputs[i].name ELSE Arg(i),
            ty |-> IoType(f.inputs[i].io, id), mode |-> IoMode(f.inputs[i].io, ctx)]
    BY InputParsed DEF IosOf
  <2> QED
    BY <1>1, <2>1 DEF ParsedInputs
<1>3. [i \in DOMAIN l.outputs |-> normalizeOutput(l.outputs[i], id, ctx)] = ParsedOutputs(f, id, ctx)
  <2>1. \A i \in DOMAIN f.outputs : normalizeOutput(Output(v, f.outputs[i]), id, ctx) =
           ParsedIo(f.outputs[i].io, id, ctx)
    BY ElementParsed DEF IosOf
  <2> QED
    BY <1>1, <2>1 DEF ParsedOutputs
<1> QED
  BY <1>1, <1>2, <1>3 DEF normalizeIo

(* A function is asynchronous if Leo 4.1 says so, which it does if there   *)
(* is a future among the outputs.                                          *)
LEMMA FunctionParsed ==
  ASSUME NEW v, NEW f, IosOf(f), NEW id
  PROVE  normalizeFunction(LeoFunction(v, f), id) = ParsedFunction(v, f, id)
<1> DEFINE l == LeoFunction(v, f)
           io == normalizeIo(l, id, "transition")
           flag == CASE Has(l, "is_async") -> l.is_async
                     [] Has(l, "is_final") -> l.is_final
                     [] OTHER -> \E i \in DOMAIN io.outputs : Has(io.outputs[i].ty, "Future")
<1>1. normalizeFunction(l, id) =
        [name |-> io.name, inputs |-> io.inputs, outputs |-> io.outputs,
         const_parameters |-> io.const_parameters, is_async |-> flag]
  BY DEF normalizeFunction
<1>2. io = [name |-> f.name, inputs |-> ParsedInputs(v, f, id, "transition"),
            outputs |-> ParsedOutputs(f, id, "transition"), const_parameters |-> ParsedParameters(v, f)]
  <2>1. Written(v, f, l)
    BY FunctionFields
  <2> HIDE DEF l
  <2> QED
    BY <2>1, IoParsed
<1>3. ~Has(l, "is_async") /\ (Has(l, "is_final") <=> v = "4.1")
  <2>1. l = LeoFunction(v, f)
    OBVIOUS
  <2> HIDE DEF l
  <2> QED
    BY <2>1, FunctionFields
<1>4. (\E i \in DOMAIN io.outputs : Has(io.outputs[i].ty, "Future")) = Final(f)
  <2> HIDE DEF io
  <2>1. DOMAIN io.outputs = DOMAIN f.outputs
        /\ \A i \in DOMAIN f.outputs : io.outputs[i].ty = IoType(f.outputs[i].io, id)
    BY <1>2 DEF ParsedOutputs, ParsedIo
  <2>2. ASSUME NEW e \in Ios
        PROVE  Has(IoType(e, id), "Future") <=> e = [bare |-> "Final"]
    <3>1. ASSUME NEW t, e = [Plaintext |-> t]
          PROVE  ~Has(IoType(e, id), "Future") /\ e # [bare |-> "Final"]
      BY <3>1 DEF IoType, Has
    <3>2. ASSUME NEW r, e = [Record |-> r]
          PROVE  ~Has(IoType(e, id), "Future") /\ e # [bare |-> "Final"]
      BY <3>2 DEF IoType, Has
    <3>3. ASSUME e = [bare |-> "Final"]
          PROVE  Has(IoType(e, id), "Future")
      BY <3>3 DEF IoType, Has
    <3>4. ASSUME e = [bare |-> "DynamicRecord"]
          PROVE  ~Has(IoType(e, id), "Future") /\ e # [bare |-> "Final"]
      <4>1. [bare |-> "DynamicRecord"] # [bare |-> "Final"]
        OBVIOUS
      <4> QED
        BY <3>4, <4>1 DEF IoType, Has
    <3> QED
      BY <3>1, <3>2, <3>3, <3>4 DEF Ios
  <2>3. (\E i \in DOMAIN io.outputs : Has(io.outputs[i].ty, "Future")) <=> Final(f)
    BY <2>1, <2>2 DEF Final, IosOf
  <2> QED
    BY <2>3 DEF Final
<1>5. flag = Final(f)
  <2>1. CASE v = "4.1"
    <3>1. l.is_final = Final(f)
      BY <2>1, FunctionFinal
    <3> HIDE DEF l
    <3> QED
      BY <1>3, <2>1, <3>1
  <2>2. CASE v # "4.1"
    <3> HIDE DEF io, l
    <3> QED
      BY <1>3, <1>4, <2>2
  <2> QED
    BY <2>1, <2>2
<1> HIDE DEF flag, io
<1> QED
  BY <1>1, <1>2, <1>5 DEF ParsedFunction

(* Parsing them again changes nothing,                                     *)
LEMMA ParsedIosStable ==
  ASSUME AbiAssumption, NEW id, \A r \in References : toRef(r, id) \in References,
         NEW f, IosOf(f), NEW v, NEW ctx, NEW raw,
         raw.inputs = ParsedInputs(v, f, id, ctx), raw.outputs = ParsedOutputs(f, id, ctx),
         Has(raw, "const_parameters")
  PROVE  normalizeIo(raw, id, ctx) =
           [name |-> raw.name, inputs |-> ParsedInputs(v, f, id, ctx),
            outputs |-> ParsedOutputs(f, id, ctx), const_parameters |-> raw.const_parameters]
<1>1. [i \in DOMAIN raw.inputs |-> normalizeInput(raw.inputs[i], id, ctx, i)] = ParsedInputs(v, f, id, ctx)
  <2> DEFINE ins == ParsedInputs(v, f, id, ctx)
  <2>1. ASSUME NEW i \in DOMAIN f.inputs
        PROVE  normalizeInput(ins[i], id, ctx, i) = ins[i]
    <3> DEFINE e == f.inputs[i].io
               name == IF v = "4.1" THEN f.inputs[i].name ELSE Arg(i)
               x == [name |-> name, ty |-> IoType(e, id), mode |-> IoMode(e, ctx)]
    <3>1. ins[i] = x
      BY DEF ParsedInputs
    <3>2. e \in Ios
      BY DEF IosOf
    <3> HIDE DEF e, name
    <3>3. /\ Has(x, "ty") /\ ~Has(x, "bare") /\ Has(x, "mode")
          /\ x.ty = IoType(e, id) /\ x.mode = IoMode(e, ctx)
          /\ Key(x, "name", Arg(i)) = name
      BY DEF Has, Key
    <3> HIDE DEF x
    <3>4. normalizeOutput(x, id, ctx) = ParsedIo(e, id, ctx)
      BY <3>2, <3>3, ParsedIoStable
    <3>5. normalizeInput(x, id, ctx, i) = [name |-> name, ty |-> IoType(e, id), mode |-> IoMode(e, ctx)]
      BY <3>3, <3>4 DEF normalizeInput, ParsedIo
    <3> QED
      BY <3>1, <3>5 DEF x
  <2>2. DOMAIN ins = DOMAIN f.inputs /\ ins = [i \in DOMAIN f.inputs |-> ins[i]]
    BY DEF ParsedInputs
  <2> HIDE DEF ins
  <2>3. [i \in DOMAIN ins |-> normalizeInput(ins[i], id, ctx, i)] = ins
    BY <2>1, <2>2
  <2> QED
    BY <2>3 DEF ins
<1>2. [i \in DOMAIN raw.outputs |-> normalizeOutput(raw.outputs[i], id, ctx)] = ParsedOutputs(f, id, ctx)
  <2> DEFINE outs == ParsedOutputs(f, id, ctx)
  <2>1. ASSUME NEW i \in DOMAIN f.outputs
        PROVE  normalizeOutput(outs[i], id, ctx) = outs[i]
    <3> DEFINE e == f.outputs[i].io
    <3>1. outs[i] = ParsedIo(e, id, ctx)
      BY DEF ParsedOutputs
    <3>2. e \in Ios
      BY DEF IosOf
    <3> HIDE DEF e
    <3> DEFINE x == ParsedIo(e, id, ctx)
    <3>3. /\ Has(x, "ty") /\ ~Has(x, "bare") /\ Has(x, "mode")
          /\ x.ty = IoType(e, id) /\ x.mode = IoMode(e, ctx)
      BY DEF Has, ParsedIo
    <3> HIDE DEF x
    <3>4. normalizeOutput(x, id, ctx) = ParsedIo(e, id, ctx)
      BY <3>2, <3>3, ParsedIoStable
    <3> QED
      BY <3>1, <3>4 DEF x
  <2>2. DOMAIN outs = DOMAIN f.outputs /\ outs = [i \in DOMAIN f.outputs |-> outs[i]]
    BY DEF ParsedOutputs
  <2> HIDE DEF outs
  <2>3. [i \in DOMAIN outs |-> normalizeOutput(outs[i], id, ctx)] = outs
    BY <2>1, <2>2
  <2> QED
    BY <2>3 DEF outs
<1>3. Key(raw, "const_parameters", <<>>) = raw.const_parameters
  BY DEF Key, Has
<1> QED
  BY <1>1, <1>2, <1>3 DEF normalizeIo

(* and so with functions                                                   *)
LEMMA FunctionStable ==
  ASSUME AbiAssumption, NEW id, \A r \in References : toRef(r, id) \in References,
         NEW f, IosOf(f), NEW v
  PROVE  normalizeFunction(ParsedFunction(v, f, id), id) = ParsedFunction(v, f, id)
<1> DEFINE raw == ParsedFunction(v, f, id)
<1>1. /\ raw.inputs = ParsedInputs(v, f, id, "transition") /\ raw.outputs = ParsedOutputs(f, id, "transition")
      /\ Has(raw, "const_parameters") /\ raw.const_parameters = ParsedParameters(v, f)
      /\ Has(raw, "is_async") /\ raw.is_async = Final(f) /\ raw.name = f.name
  BY DEF ParsedFunction, Has
<1>2. ~Has(raw, "is_final")
  BY DEF ParsedFunction, Has
<1> HIDE DEF raw
<1>3. normalizeIo(raw, id, "transition") =
        [name |-> raw.name, inputs |-> ParsedInputs(v, f, id, "transition"),
         outputs |-> ParsedOutputs(f, id, "transition"), const_parameters |-> raw.const_parameters]
  BY <1>1, ParsedIosStable
<1> DEFINE io == normalizeIo(raw, id, "transition")
           flag == CASE Has(raw, "is_async") -> raw.is_async
                     [] Has(raw, "is_final") -> raw.is_final
                     [] OTHER -> \E i \in DOMAIN io.outputs : Has(io.outputs[i].ty, "Future")
<1>4. normalizeFunction(raw, id) =
        [name |-> io.name, inputs |-> io.inputs, outputs |-> io.outputs,
         const_parameters |-> io.const_parameters, is_async |-> flag]
  BY DEF normalizeFunction
<1>5. flag = raw.is_async
  BY <1>1, <1>2
<1> HIDE DEF flag
<1>6. normalizeFunction(raw, id) =
        [name |-> f.name, inputs |-> ParsedInputs(v, f, id, "transition"),
         outputs |-> ParsedOutputs(f, id, "transition"), const_parameters |-> ParsedParameters(v, f),
         is_async |-> flag]
  BY <1>1, <1>3, <1>4
<1>7. flag = Final(f)
  BY <1>1, <1>5
<1> QED
  BY <1>6, <1>7 DEF raw, ParsedFunction

(* and views.                                                              *)
LEMMA ViewParsed ==
  ASSUME NEW v, NEW f, IosOf(f), NEW id
  PROVE  normalizeView(LeoView(v, f), id) = ParsedView(v, f, id)
  BY ViewFields, IoParsed DEF normalizeView, ParsedView

(* Views that were parsed are stable.                                      *)
LEMMA ViewStable ==
  ASSUME AbiAssumption, NEW id, \A r \in References : toRef(r, id) \in References,
         NEW f, IosOf(f), NEW v
  PROVE  normalizeView(ParsedView(v, f, id), id) = ParsedView(v, f, id)
<1> DEFINE raw == ParsedView(v, f, id)
<1>1. /\ raw.inputs = ParsedInputs(v, f, id, "view") /\ raw.outputs = ParsedOutputs(f, id, "view")
      /\ Has(raw, "const_parameters") /\ raw.const_parameters = ParsedParameters(v, f) /\ raw.name = f.name
  BY DEF ParsedView, Has
<1> HIDE DEF raw
<1>2. normalizeIo(raw, id, "view") =
        [name |-> raw.name, inputs |-> ParsedInputs(v, f, id, "view"),
         outputs |-> ParsedOutputs(f, id, "view"), const_parameters |-> raw.const_parameters]
  BY <1>1, ParsedIosStable
<1> QED
  BY <1>1, <1>2 DEF normalizeView, ParsedView, raw

(* Declarations.                                                           *)
ParsedStruct(s, id) ==
  [path |-> extractPath(s),
   fields |-> [i \in DOMAIN s.fields |->
     [name |-> s.fields[i].name, ty |-> normalizePlaintext(s.fields[i].ty, id)]]]

ParsedRecord(s, id) ==
  [path |-> s.path,
   fields |-> [i \in DOMAIN s.fields |->
     [name |-> s.fields[i].name, ty |-> normalizePlaintext(s.fields[i].ty, id), mode |-> "Private"]]]

(* A path is kept.                                                         *)
LEMMA PathStable ==
  ASSUME NEW path, path # <<>>, NEW raw, Has(raw, "path"), raw.path = path
  PROVE  extractPath(raw) = path
  BY DEF extractPath, Has

(* Structs are stable.                                                     *)
LEMMA StructStable ==
  ASSUME AbiAssumption, NEW id, \A r \in References : toRef(r, id) \in References,
         NEW s, FieldsOf(s)
  PROVE  /\ normalizeStruct(s, id) = ParsedStruct(s, id)
         /\ normalizeStruct(ParsedStruct(s, id), id) = ParsedStruct(s, id)
<1>1. normalizeStruct(s, id) = ParsedStruct(s, id)
  BY DEF normalizeStruct, ParsedStruct, Map
<1> DEFINE p == ParsedStruct(s, id)
<1>2. p.path = extractPath(s) /\ Has(p, "path")
  BY DEF ParsedStruct, Has
<1>3. extractPath(s) # <<>>
  BY DEF extractPath
<1>4. /\ DOMAIN p.fields = DOMAIN s.fields
      /\ \A i \in DOMAIN s.fields :
           p.fields[i].name = s.fields[i].name /\ p.fields[i].ty = normalizePlaintext(s.fields[i].ty, id)
  BY DEF ParsedStruct
<1> HIDE DEF p
<1>5. extractPath(p) = extractPath(s)
  BY <1>2, <1>3, PathStable
<1>6. \A i \in DOMAIN s.fields :
         normalizePlaintext(p.fields[i].ty, id) = normalizePlaintext(s.fields[i].ty, id)
  <2> TAKE i \in DOMAIN s.fields
  <2>1. s.fields[i].ty \in PlaintextTypes
    BY DEF FieldsOf
  <2> QED
    BY <1>4, <2>1, PlaintextStable
<1>7. normalizeStruct(p, id) =
        [path |-> extractPath(p), fields |-> [i \in DOMAIN p.fields |->
           [name |-> p.fields[i].name, ty |-> normalizePlaintext(p.fields[i].ty, id)]]]
  BY DEF normalizeStruct, Map
<1>8. normalizeStruct(p, id) = ParsedStruct(s, id)
  BY <1>4, <1>5, <1>6, <1>7 DEF ParsedStruct
<1> QED
  BY <1>1, <1>8 DEF p

(* Records too, whether their fields have a mode or not.                   *)
LEMMA RecordStable ==
  ASSUME AbiAssumption, NEW id, \A r \in References : toRef(r, id) \in References,
         NEW s, FieldsOf(s), s.path # <<>>, NEW v
  PROVE  /\ normalizeRecord(LeoRecord(v, s), id) = ParsedRecord(s, id)
         /\ normalizeRecord(ParsedRecord(s, id), id) = ParsedRecord(s, id)
<1>0. ASSUME NEW raw, Has(raw, "path"), raw.path = s.path, DOMAIN raw.fields = DOMAIN s.fields,
             \A i \in DOMAIN s.fields :
               /\ raw.fields[i].name = s.fields[i].name
               /\ normalizePlaintext(raw.fields[i].ty, id) = normalizePlaintext(s.fields[i].ty, id)
               /\ Key(raw.fields[i], "mode", "None") \in {"None", "Private"}
      PROVE  normalizeRecord(raw, id) = ParsedRecord(s, id)
  <2>1. extractPath(raw) = s.path
    BY <1>0, PathStable
  <2>2. \A i \in DOMAIN s.fields :
          canonicalizeRecordFieldMode(Key(raw.fields[i], "mode", "None")) = "Private"
    BY <1>0 DEF canonicalizeRecordFieldMode, canonicalizePlaintextMode
  <2>3. normalizeRecord(raw, id) =
          [path |-> extractPath(raw), fields |-> [i \in DOMAIN raw.fields |->
             [name |-> raw.fields[i].name, ty |-> normalizePlaintext(raw.fields[i].ty, id),
              mode |-> canonicalizeRecordFieldMode(Key(raw.fields[i], "mode", "None"))]]]
    BY DEF normalizeRecord, Map
  <2> QED
    BY <1>0, <2>1, <2>2, <2>3 DEF ParsedRecord
<1>1. normalizeRecord(LeoRecord(v, s), id) = ParsedRecord(s, id)
  <2> DEFINE raw == LeoRecord(v, s)
  <2>1. /\ Has(raw, "path") /\ raw.path = s.path /\ DOMAIN raw.fields = DOMAIN s.fields
        /\ \A i \in DOMAIN s.fields : raw.fields[i] = LeoRecordField(v, s.fields[i])
    BY DEF LeoRecord, Map, Has
  <2>2. \A f : /\ LeoRecordField(v, f).name = f.name /\ LeoRecordField(v, f).ty = f.ty
               /\ Key(LeoRecordField(v, f), "mode", "None") \in {"None", "Private"}
    BY DEF LeoRecordField, Key
  <2> HIDE DEF raw
  <2>3. ASSUME NEW i \in DOMAIN s.fields
        PROVE  /\ raw.fields[i].name = s.fields[i].name /\ raw.fields[i].ty = s.fields[i].ty
               /\ Key(raw.fields[i], "mode", "None") \in {"None", "Private"}
    <3> DEFINE f == s.fields[i]
    <3>1. raw.fields[i] = LeoRecordField(v, f)
      BY <2>1
    <3> HIDE DEF f
    <3> QED
      BY <2>2, <3>1 DEF f
  <2>4. normalizeRecord(raw, id) = ParsedRecord(s, id)
    BY <1>0, <2>1, <2>3
  <2> QED
    BY <2>4 DEF raw
<1>2. normalizeRecord(ParsedRecord(s, id), id) = ParsedRecord(s, id)
  <2> DEFINE raw == ParsedRecord(s, id)
  <2>1. /\ Has(raw, "path") /\ raw.path = s.path /\ DOMAIN raw.fields = DOMAIN s.fields
        /\ \A i \in DOMAIN s.fields :
             raw.fields[i] = [name |-> s.fields[i].name, ty |-> normalizePlaintext(s.fields[i].ty, id),
                              mode |-> "Private"]
    BY DEF ParsedRecord, Has
  <2> HIDE DEF raw
  <2>2. ASSUME NEW i \in DOMAIN s.fields
        PROVE  /\ raw.fields[i].name = s.fields[i].name
               /\ normalizePlaintext(raw.fields[i].ty, id) = normalizePlaintext(s.fields[i].ty, id)
               /\ Key(raw.fields[i], "mode", "None") \in {"None", "Private"}
    <3>1. s.fields[i].ty \in PlaintextTypes
      BY DEF FieldsOf
    <3>2. /\ raw.fields[i].name = s.fields[i].name
          /\ raw.fields[i].ty = normalizePlaintext(s.fields[i].ty, id)
          /\ Key(raw.fields[i], "mode", "None") = "Private"
      <4> DEFINE n == s.fields[i].name
                 t == normalizePlaintext(s.fields[i].ty, id)
      <4>1. raw.fields[i] = [name |-> n, ty |-> t, mode |-> "Private"]
        BY <2>1
      <4> HIDE DEF n, t
      <4>2. raw.fields[i].name = n /\ raw.fields[i].ty = t /\ Key(raw.fields[i], "mode", "None") = "Private"
        BY <4>1 DEF Key
      <4> QED
        BY <4>2 DEF n, t
    <3> QED
      BY <3>1, <3>2, PlaintextStable
  <2>3. normalizeRecord(raw, id) = ParsedRecord(s, id)
    BY <1>0, <2>1, <2>2
  <2> QED
    BY <2>3 DEF raw
<1> QED
  BY <1>1, <1>2

(* Mappings.                                                               *)
LEMMA MappingStable ==
  ASSUME AbiAssumption, NEW id, \A r \in References : toRef(r, id) \in References,
         NEW m, m.key \in PlaintextTypes, m.value \in PlaintextTypes
  PROVE  normalizeMapping(normalizeMapping(m, id), id) = normalizeMapping(m, id)
<1> DEFINE k == normalizePlaintext(m.key, id)
           x == normalizePlaintext(m.value, id)
<1>1. normalizePlaintext(k, id) = k /\ normalizePlaintext(x, id) = x
  BY PlaintextStable
<1>2. normalizeMapping(m, id) = [name |-> m.name, key |-> k, value |-> x]
  BY DEF normalizeMapping
<1> HIDE DEF k, x
<1>3. normalizeMapping([name |-> m.name, key |-> k, value |-> x], id) = [name |-> m.name, key |-> k, value |-> x]
  BY <1>1 DEF normalizeMapping
<1> QED
  BY <1>2, <1>3

(* Storage variables.                                                      *)
LEMMA VariableStable ==
  ASSUME AbiAssumption, NEW id, \A r \in References : toRef(r, id) \in References,
         NEW s, s.ty \in VariableTypes
  PROVE  normalizeStorageVariable(normalizeStorageVariable(s, id), id) = normalizeStorageVariable(s, id)
<1> DEFINE t == normalizeStorageType(s.ty, id)
<1>1. normalizeStorageType(t, id) = t
  BY StorageStable
<1>2. normalizeStorageVariable(s, id) = [name |-> s.name, ty |-> t]
  BY DEF normalizeStorageVariable
<1> HIDE DEF t
<1>3. normalizeStorageVariable([name |-> s.name, ty |-> t], id) = [name |-> s.name, ty |-> t]
  BY <1>1 DEF normalizeStorageVariable
<1> QED
  BY <1>2, <1>3

(* References to interfaces.                                               *)
LEMMA InterfaceStable ==
  ASSUME NEW r
  PROVE  normalizeInterfaceRef(normalizeInterfaceRef(r)) = normalizeInterfaceRef(r)
<1>1. CASE Has(r, "path")
  <2> DEFINE program == Key(r, "program", Null)
             q == [path |-> r.path, program |-> program]
  <2>1. normalizeInterfaceRef(r) = q
    BY <1>1 DEF normalizeInterfaceRef
  <2> HIDE DEF program
  <2>2. Has(q, "path") /\ q.path = r.path /\ Key(q, "program", Null) = program
    BY DEF Has, Key
  <2> QED
    BY <2>1, <2>2 DEF normalizeInterfaceRef
<1>2. CASE ~Has(r, "path")
  BY <1>2 DEF normalizeInterfaceRef
<1> QED
  BY <1>1, <1>2

(* What an ABI says of interfaces.                                         *)
Implemented(obj) == Key(obj, "implements", <<>>)

ParsedInterfaces(v, p) ==
  IF v = "4.1" THEN [i \in DOMAIN p.implements |-> normalizeInterfaceRef(p.implements[i])] ELSE <<>>

(* An ABI whose other lists are all there, under either name of the        *)
(* functions.                                                              *)
LEMMA ListsParsed ==
  ASSUME NEW obj, NEW functions, NEW id, obj.program = id,
         Has(obj, "structs"), Has(obj, "records"), Has(obj, "mappings"), Has(obj, "storage_variables"),
         Has(obj, "views"),
         functions = Key(obj, "functions", Key(obj, "transitions", <<>>))
  PROVE  parseAbi(obj) =
           [program |-> id,
            structs |-> [i \in DOMAIN obj.structs |-> normalizeStruct(obj.structs[i], id)],
            records |-> [i \in DOMAIN obj.records |-> normalizeRecord(obj.records[i], id)],
            mappings |-> [i \in DOMAIN obj.mappings |-> normalizeMapping(obj.mappings[i], id)],
            storage_variables |->
              [i \in DOMAIN obj.storage_variables |-> normalizeStorageVariable(obj.storage_variables[i], id)],
            transitions |-> [i \in DOMAIN functions |-> normalizeFunction(functions[i], id)],
            views |-> [i \in DOMAIN obj.views |-> normalizeView(obj.views[i], id)],
            implements |-> [i \in DOMAIN Implemented(obj) |-> normalizeInterfaceRef(Implemented(obj)[i])]]
<1>1. /\ Key(obj, "structs", <<>>) = obj.structs /\ Key(obj, "records", <<>>) = obj.records
      /\ Key(obj, "mappings", <<>>) = obj.mappings
      /\ Key(obj, "storage_variables", <<>>) = obj.storage_variables
      /\ Key(obj, "views", <<>>) = obj.views
  BY DEF Key, Has
<1> QED
  BY <1>1 DEF parseAbi, Map, Implemented

(* What comes of a program's ABI.                                          *)
ParsedAbi(v, p) ==
  LET id == p.program
  IN  [program |-> id,
       structs |-> [i \in DOMAIN p.structs |-> ParsedStruct(p.structs[i], id)],
       records |-> [i \in DOMAIN p.records |-> ParsedRecord(p.records[i], id)],
       mappings |-> [i \in DOMAIN p.mappings |-> normalizeMapping(p.mappings[i], id)],
       storage_variables |->
         [i \in DOMAIN p.storage_variables |-> normalizeStorageVariable(p.storage_variables[i], id)],
       transitions |-> [i \in DOMAIN p.functions |-> ParsedFunction(v, p.functions[i], id)],
       views |-> [i \in DOMAIN p.views |-> ParsedView(v, p.views[i], id)],
       implements |-> ParsedInterfaces(v, p)]

(* What is parsed, and parsed again.                                       *)
LEMMA AbiParsed ==
  ASSUME AbiAssumption, NEW p \in Abis, NEW v
  PROVE  /\ parseAbi(LeoAbi(v, p)) = ParsedAbi(v, p)
         /\ parseAbi(ParsedAbi(v, p)) = ParsedAbi(v, p)
<1> DEFINE id == p.program
<1>0. /\ \A r \in References : toRef(r, id) \in References
      /\ \A i \in DOMAIN p.structs : FieldsOf(p.structs[i])
      /\ \A i \in DOMAIN p.records : p.records[i].path # <<>> /\ FieldsOf(p.records[i])
      /\ \A i \in DOMAIN p.mappings :
           p.mappings[i].key \in PlaintextTypes /\ p.mappings[i].value \in PlaintextTypes
      /\ \A i \in DOMAIN p.storage_variables : p.storage_variables[i].ty \in VariableTypes
      /\ \A i \in DOMAIN p.functions : IosOf(p.functions[i])
      /\ \A i \in DOMAIN p.views : IosOf(p.views[i])
  BY DEF AbiAssumption
<1> HIDE DEF id
<1>a. \A i \in DOMAIN p.structs :
         /\ normalizeStruct(p.structs[i], id) = ParsedStruct(p.structs[i], id)
         /\ normalizeStruct(ParsedStruct(p.structs[i], id), id) = ParsedStruct(p.structs[i], id)
  BY <1>0, StructStable
<1>b. \A i \in DOMAIN p.records :
         /\ normalizeRecord(LeoRecord(v, p.records[i]), id) = ParsedRecord(p.records[i], id)
         /\ normalizeRecord(ParsedRecord(p.records[i], id), id) = ParsedRecord(p.records[i], id)
  BY <1>0, RecordStable
<1>c. \A i \in DOMAIN p.mappings :
         normalizeMapping(normalizeMapping(p.mappings[i], id), id) = normalizeMapping(p.mappings[i], id)
  BY <1>0, MappingStable
<1>d. \A i \in DOMAIN p.storage_variables :
         normalizeStorageVariable(normalizeStorageVariable(p.storage_variables[i], id), id)
           = normalizeStorageVariable(p.storage_variables[i], id)
  BY <1>0, VariableStable
<1>e. \A i \in DOMAIN p.functions :
         /\ normalizeFunction(LeoFunction(v, p.functions[i]), id) = ParsedFunction(v, p.functions[i], id)
         /\ normalizeFunction(ParsedFunction(v, p.functions[i], id), id) = ParsedFunction(v, p.functions[i], id)
  BY <1>0, FunctionParsed, FunctionStable
<1>f. \A i \in DOMAIN p.views :
         /\ normalizeView(LeoView(v, p.views[i]), id) = ParsedView(v, p.views[i], id)
         /\ normalizeView(ParsedView(v, p.views[i], id), id) = ParsedView(v, p.views[i], id)
  BY <1>0, ViewParsed, ViewStable
<1>1. parseAbi(LeoAbi(v, p)) = ParsedAbi(v, p)
  <2> DEFINE obj == LeoAbi(v, p)
             functions == [i \in DOMAIN p.functions |-> LeoFunction(v, p.functions[i])]
  <2>1. /\ obj.program = id
        /\ Has(obj, "structs") /\ Has(obj, "records") /\ Has(obj, "mappings") /\ Has(obj, "storage_variables")
        /\ Has(obj, "views")
    BY DEF LeoAbi, Has, id
  <2>2. /\ obj.structs = p.structs /\ obj.mappings = p.mappings /\ obj.storage_variables = p.storage_variables
    BY DEF LeoAbi
  <2>3. obj.records = [i \in DOMAIN p.records |-> LeoRecord(v, p.records[i])]
    BY DEF LeoAbi, Map
  <2>4. obj.views = [i \in DOMAIN p.views |-> LeoView(v, p.views[i])]
    BY DEF LeoAbi, Map
  <2>5. Key(obj, "functions", Key(obj, "transitions", <<>>)) = functions
    BY DEF LeoAbi, Map, Key
  <2>g. Implemented(obj) = IF v = "4.1" THEN p.implements ELSE <<>>
    BY DEF LeoAbi, Implemented, Key
  <2>h. [i \in DOMAIN Implemented(obj) |-> normalizeInterfaceRef(Implemented(obj)[i])] = ParsedInterfaces(v, p)
    <3>1. DOMAIN <<>> = {}
      OBVIOUS
    <3>2. CASE v # "4.1"
      <4> HIDE DEF obj
      <4>1. [i \in DOMAIN Implemented(obj) |-> normalizeInterfaceRef(Implemented(obj)[i])] = <<>>
        BY <2>g, <3>1, <3>2
      <4> QED
        BY <3>2, <4>1 DEF ParsedInterfaces
    <3> HIDE DEF obj
    <3> QED
      BY <2>g, <3>2 DEF ParsedInterfaces
  <2> HIDE DEF obj
  <2>a. [i \in DOMAIN obj.structs |-> normalizeStruct(obj.structs[i], id)]
          = [i \in DOMAIN p.structs |-> ParsedStruct(p.structs[i], id)]
    BY <1>a, <2>2
  <2>b. [i \in DOMAIN obj.records |-> normalizeRecord(obj.records[i], id)]
          = [i \in DOMAIN p.records |-> ParsedRecord(p.records[i], id)]
    BY <1>b, <2>3
  <2>e. [i \in DOMAIN functions |-> normalizeFunction(functions[i], id)]
          = [i \in DOMAIN p.functions |-> ParsedFunction(v, p.functions[i], id)]
    BY <1>e
  <2>f. [i \in DOMAIN obj.views |-> normalizeView(obj.views[i], id)]
          = [i \in DOMAIN p.views |-> ParsedView(v, p.views[i], id)]
    BY <1>f, <2>4
  <2> HIDE DEF functions
  <2>6. parseAbi(obj) =
          [program |-> id,
           structs |-> [i \in DOMAIN obj.structs |-> normalizeStruct(obj.structs[i], id)],
           records |-> [i \in DOMAIN obj.records |-> normalizeRecord(obj.records[i], id)],
           mappings |-> [i \in DOMAIN obj.mappings |-> normalizeMapping(obj.mappings[i], id)],
           storage_variables |->
             [i \in DOMAIN obj.storage_variables |-> normalizeStorageVariable(obj.storage_variables[i], id)],
           transitions |-> [i \in DOMAIN functions |-> normalizeFunction(functions[i], id)],
           views |-> [i \in DOMAIN obj.views |-> normalizeView(obj.views[i], id)],
           implements |-> [i \in DOMAIN Implemented(obj) |-> normalizeInterfaceRef(Implemented(obj)[i])]]
    BY <2>1, <2>5, ListsParsed
  <2>7. parseAbi(obj) = ParsedAbi(v, p)
    BY <2>2, <2>a, <2>b, <2>e, <2>f, <2>h, <2>6 DEF ParsedAbi, id
  <2> QED
    BY <2>7 DEF obj
<1>2. parseAbi(ParsedAbi(v, p)) = ParsedAbi(v, p)
  <2> DEFINE obj == ParsedAbi(v, p)
             structs == [i \in DOMAIN p.structs |-> ParsedStruct(p.structs[i], id)]
             records == [i \in DOMAIN p.records |-> ParsedRecord(p.records[i], id)]
             mappings == [i \in DOMAIN p.mappings |-> normalizeMapping(p.mappings[i], id)]
             variables == [i \in DOMAIN p.storage_variables |-> normalizeStorageVariable(p.storage_variables[i], id)]
             functions == [i \in DOMAIN p.functions |-> ParsedFunction(v, p.functions[i], id)]
             views == [i \in DOMAIN p.views |-> ParsedView(v, p.views[i], id)]
             interfaces == ParsedInterfaces(v, p)
  <2>a. [i \in DOMAIN structs |-> normalizeStruct(structs[i], id)] = structs
    BY <1>a
  <2>b. [i \in DOMAIN records |-> normalizeRecord(records[i], id)] = records
    BY <1>b
  <2>c. [i \in DOMAIN mappings |-> normalizeMapping(mappings[i], id)] = mappings
    BY <1>c
  <2>d. [i \in DOMAIN variables |-> normalizeStorageVariable(variables[i], id)] = variables
    BY <1>d
  <2>e. [i \in DOMAIN functions |-> normalizeFunction(functions[i], id)] = functions
    BY <1>e
  <2>f. [i \in DOMAIN views |-> normalizeView(views[i], id)] = views
    BY <1>f
  <2>g. [i \in DOMAIN interfaces |-> normalizeInterfaceRef(interfaces[i])] = interfaces
    <3>1. CASE v = "4.1"
      <4>1. DOMAIN interfaces = DOMAIN p.implements
            /\ \A i \in DOMAIN p.implements : interfaces[i] = normalizeInterfaceRef(p.implements[i])
        BY <3>1 DEF ParsedInterfaces
      <4>2. interfaces = [i \in DOMAIN p.implements |-> interfaces[i]]
        BY <3>1 DEF ParsedInterfaces
      <4> HIDE DEF interfaces
      <4>3. \A i \in DOMAIN p.implements : normalizeInterfaceRef(interfaces[i]) = interfaces[i]
        BY <4>1, InterfaceStable
      <4> QED
        BY <4>1, <4>2, <4>3
    <3>2. CASE v # "4.1"
      <4>1. interfaces = <<>>
        BY <3>2 DEF ParsedInterfaces
      <4> HIDE DEF interfaces
      <4> QED
        BY <4>1
    <3> QED
      BY <3>1, <3>2
  <2>1. obj = [program |-> id, structs |-> structs, records |-> records, mappings |-> mappings,
               storage_variables |-> variables, transitions |-> functions, views |-> views,
               implements |-> interfaces]
    BY DEF ParsedAbi, id
  <2> HIDE DEF obj, structs, records, mappings, variables, functions, views, interfaces
  <2>2. /\ obj.program = id
        /\ Has(obj, "structs") /\ Has(obj, "records") /\ Has(obj, "mappings") /\ Has(obj, "storage_variables")
        /\ Has(obj, "views")
        /\ Key(obj, "functions", Key(obj, "transitions", <<>>)) = functions
        /\ Implemented(obj) = interfaces
    BY <2>1 DEF Has, Key, Implemented
  <2>3. /\ obj.structs = structs /\ obj.records = records /\ obj.mappings = mappings
        /\ obj.storage_variables = variables /\ obj.views = views
    BY <2>1
  <2>4. parseAbi(obj) =
          [program |-> id,
           structs |-> [i \in DOMAIN obj.structs |-> normalizeStruct(obj.structs[i], id)],
           records |-> [i \in DOMAIN obj.records |-> normalizeRecord(obj.records[i], id)],
           mappings |-> [i \in DOMAIN obj.mappings |-> normalizeMapping(obj.mappings[i], id)],
           storage_variables |->
             [i \in DOMAIN obj.storage_variables |-> normalizeStorageVariable(obj.storage_variables[i], id)],
           transitions |-> [i \in DOMAIN functions |-> normalizeFunction(functions[i], id)],
           views |-> [i \in DOMAIN obj.views |-> normalizeView(obj.views[i], id)],
           implements |-> [i \in DOMAIN Implemented(obj) |-> normalizeInterfaceRef(Implemented(obj)[i])]]
    BY <2>2, ListsParsed
  <2>5. parseAbi(obj) = obj
    BY <2>1, <2>2, <2>3, <2>4, <2>a, <2>b, <2>c, <2>d, <2>e, <2>f, <2>g
  <2> QED
    BY <2>5 DEF obj
<1> QED
  BY <1>1, <1>2

(* What every Leo says of a function or a view, ...                        *)
SharedInputs(f, id, ctx) ==
  [i \in DOMAIN f.inputs |-> [ty |-> IoType(f.inputs[i].io, id), mode |-> IoMode(f.inputs[i].io, ctx)]]

Typed(ins) == [i \in DOMAIN ins |-> [ty |-> ins[i].ty, mode |-> ins[i].mode]]

(* of its inputs,                                                          *)
LEMMA InputsShared ==
  ASSUME NEW v, NEW f, NEW id, NEW ctx
  PROVE  Typed(ParsedInputs(v, f, id, ctx)) = SharedInputs(f, id, ctx)
  BY DEF Typed, ParsedInputs, SharedInputs

SharedFunction(f, id) ==
  [name |-> f.name, inputs |-> SharedInputs(f, id, "transition"),
   outputs |-> ParsedOutputs(f, id, "transition"), const_parameters |-> <<>>, is_async |-> Final(f)]

SharedView(f, id) ==
  [name |-> f.name, inputs |-> SharedInputs(f, id, "view"),
   outputs |-> ParsedOutputs(f, id, "view"), const_parameters |-> <<>>]

(* whatever else 4.1 says of it,                                           *)
LEMMA IosShared ==
  ASSUME NEW v, NEW f, NEW id
  PROVE  /\ SharedIo(ParsedFunction(v, f, id)) = SharedFunction(f, id)
         /\ SharedIo(ParsedView(v, f, id)) = SharedView(f, id)
<1>1. ASSUME NEW r, NEW ins, r.inputs = ins
      PROVE  SharedIo(r) = [[r EXCEPT !.inputs = Typed(ins)] EXCEPT !.const_parameters = <<>>]
  <2>1. SharedIo(r) = [r EXCEPT !.inputs = Typed(r.inputs), !.const_parameters = <<>>]
    BY DEF SharedIo, Map, Typed
  <2> QED
    BY <1>1, <2>1
<1>2. SharedIo(ParsedFunction(v, f, id)) = SharedFunction(f, id)
  <2> DEFINE ins == ParsedInputs(v, f, id, "transition")
             types == SharedInputs(f, id, "transition")
             F(i, k) == [name |-> f.name, inputs |-> i, outputs |-> ParsedOutputs(f, id, "transition"),
                         const_parameters |-> k, is_async |-> Final(f)]
             k0 == ParsedParameters(v, f)
             r == F(ins, k0)
  <2>1. Typed(ins) = types
    BY InputsShared
  <2>2. ParsedFunction(v, f, id) = r /\ SharedFunction(f, id) = F(types, <<>>)
    BY DEF ParsedFunction, SharedFunction
  <2> HIDE DEF ins, types, k0
  <2>3. r.inputs = ins /\ [r EXCEPT !.inputs = types] = F(types, k0)
    OBVIOUS
  <2>4. [F(types, k0) EXCEPT !.const_parameters = <<>>] = F(types, <<>>)
    OBVIOUS
  <2> HIDE DEF F, r
  <2>5. SharedIo(r) = [[r EXCEPT !.inputs = types] EXCEPT !.const_parameters = <<>>]
    BY <1>1, <2>1, <2>3
  <2> QED
    BY <2>2, <2>3, <2>4, <2>5
<1>3. SharedIo(ParsedView(v, f, id)) = SharedView(f, id)
  <2> DEFINE ins == ParsedInputs(v, f, id, "view")
             types == SharedInputs(f, id, "view")
             V(i, k) == [name |-> f.name, inputs |-> i, outputs |-> ParsedOutputs(f, id, "view"),
                         const_parameters |-> k]
             k0 == ParsedParameters(v, f)
             r == V(ins, k0)
  <2>1. Typed(ins) = types
    BY InputsShared
  <2>2. ParsedView(v, f, id) = r /\ SharedView(f, id) = V(types, <<>>)
    BY DEF ParsedView, SharedView
  <2> HIDE DEF ins, types, k0
  <2>3. r.inputs = ins /\ [r EXCEPT !.inputs = types] = V(types, k0)
    OBVIOUS
  <2>4. [V(types, k0) EXCEPT !.const_parameters = <<>>] = V(types, <<>>)
    OBVIOUS
  <2> HIDE DEF V, r
  <2>5. SharedIo(r) = [[r EXCEPT !.inputs = types] EXCEPT !.const_parameters = <<>>]
    BY <1>1, <2>1, <2>3
  <2> QED
    BY <2>2, <2>3, <2>4, <2>5
<1> QED
  BY <1>2, <1>3

(* and of a program.                                                       *)
LEMMA SharedAgree ==
  ASSUME NEW p, NEW v, NEW w
  PROVE  Shared(ParsedAbi(v, p)) = Shared(ParsedAbi(w, p))
<1> DEFINE id == p.program
           structs == [i \in DOMAIN p.structs |-> ParsedStruct(p.structs[i], id)]
           records == [i \in DOMAIN p.records |-> ParsedRecord(p.records[i], id)]
           mappings == [i \in DOMAIN p.mappings |-> normalizeMapping(p.mappings[i], id)]
           variables == [i \in DOMAIN p.storage_variables |-> normalizeStorageVariable(p.storage_variables[i], id)]
           functions(u) == [i \in DOMAIN p.functions |-> ParsedFunction(u, p.functions[i], id)]
           views(u) == [i \in DOMAIN p.views |-> ParsedView(u, p.views[i], id)]
           With(t, x, m) == [program |-> id, structs |-> structs, records |-> records, mappings |-> mappings,
                             storage_variables |-> variables, transitions |-> t, views |-> x,
                             implements |-> m]
           fs == [i \in DOMAIN p.functions |-> SharedFunction(p.functions[i], id)]
           vs == [i \in DOMAIN p.views |-> SharedView(p.views[i], id)]
<1>1. \A u : ParsedAbi(u, p) = With(functions(u), views(u), ParsedInterfaces(u, p))
  BY DEF ParsedAbi
<1>2. ASSUME NEW u
      PROVE  Map(functions(u), SharedIo) = fs /\ Map(views(u), SharedIo) = vs
  <2>1. /\ \A i \in DOMAIN p.functions : SharedIo(ParsedFunction(u, p.functions[i], id))
                                           = SharedFunction(p.functions[i], id)
        /\ \A i \in DOMAIN p.views : SharedIo(ParsedView(u, p.views[i], id)) = SharedView(p.views[i], id)
    BY IosShared
  <2> QED
    BY <2>1 DEF Map
<1> HIDE DEF structs, records, mappings, variables, functions, views, fs, vs
<1>3. ASSUME NEW t, NEW x, NEW m
      PROVE  Shared(With(t, x, m)) = With(Map(t, SharedIo), Map(x, SharedIo), <<>>)
  <2>1. ASSUME NEW a
        PROVE  Shared(a) = [a EXCEPT !.transitions = [i \in DOMAIN a.transitions |-> SharedIo(a.transitions[i])],
                                     !.views = [i \in DOMAIN a.views |-> SharedIo(a.views[i])],
                                     !.implements = <<>>]
    BY DEF Shared, Map
  <2> DEFINE tt == [i \in DOMAIN t |-> SharedIo(t[i])]
             xx == [i \in DOMAIN x |-> SharedIo(x[i])]
  <2>2. Map(t, SharedIo) = tt /\ Map(x, SharedIo) = xx
    BY DEF Map
  <2>3. Shared(With(t, x, m)) = [With(t, x, m) EXCEPT !.transitions = tt, !.views = xx, !.implements = <<>>]
    <3> DEFINE a == With(t, x, m)
    <3>1. a.transitions = t /\ a.views = x
      OBVIOUS
    <3> HIDE DEF a
    <3> QED
      BY <2>1, <3>1
  <2> HIDE DEF tt, xx
  <2>4. [With(t, x, m) EXCEPT !.transitions = tt, !.views = xx, !.implements = <<>>] = With(tt, xx, <<>>)
    <3>1. [With(t, x, m) EXCEPT !.transitions = tt] = With(tt, x, m)
      OBVIOUS
    <3>2. [With(tt, x, m) EXCEPT !.views = xx] = With(tt, xx, m)
      OBVIOUS
    <3>3. [With(tt, xx, m) EXCEPT !.implements = <<>>] = With(tt, xx, <<>>)
      OBVIOUS
    <3>4. \A a, e : [a EXCEPT !.transitions = tt, !.views = xx, !.implements = e]
                      = [[[a EXCEPT !.transitions = tt] EXCEPT !.views = xx] EXCEPT !.implements = e]
      OBVIOUS
    <3> HIDE DEF With
    <3> QED
      BY <3>1, <3>2, <3>3, <3>4
  <2> QED
    BY <2>2, <2>3, <2>4
<1>4. ASSUME NEW u
      PROVE  Shared(ParsedAbi(u, p)) = With(fs, vs, <<>>)
  <2> DEFINE gs == functions(u)
             xs == views(u)
  <2>1. Map(gs, SharedIo) = fs /\ Map(xs, SharedIo) = vs
    BY <1>2
  <2>2. ParsedAbi(u, p) = With(gs, xs, ParsedInterfaces(u, p))
    BY <1>1
  <2> HIDE DEF With, gs, xs
  <2> QED
    BY <1>3, <2>1, <2>2
<1> QED
  BY <1>4

(* 4.2 and 4.3 say the same.                                               *)
LEMMA RecentAgree ==
  ASSUME NEW p
  PROVE  ParsedAbi("4.2", p) = ParsedAbi("4.3", p)
<1>1. \A f, id, ctx : ParsedInputs("4.2", f, id, ctx) = ParsedInputs("4.3", f, id, ctx)
  BY DEF ParsedInputs
<1>2. \A f : ParsedParameters("4.2", f) = ParsedParameters("4.3", f)
  BY DEF ParsedParameters
<1>3. \A f, id : /\ ParsedFunction("4.2", f, id) = ParsedFunction("4.3", f, id)
                 /\ ParsedView("4.2", f, id) = ParsedView("4.3", f, id)
  BY <1>1, <1>2 DEF ParsedFunction, ParsedView
<1>4. ParsedInterfaces("4.2", p) = ParsedInterfaces("4.3", p)
  BY DEF ParsedInterfaces
<1> QED
  BY <1>3, <1>4 DEF ParsedAbi

(* No type of the program's own looks foreign.                             *)
LEMMA OwnRecords ==
  ASSUME AbiAssumption, NEW p \in Abis, NEW v, NEW t \in DOMAIN ParsedAbi(v, p).transitions,
         NEW i \in DOMAIN ParsedAbi(v, p).transitions[t].outputs,
         Has(ParsedAbi(v, p).transitions[t].outputs[i].ty, "Record")
  PROVE  ParsedAbi(v, p).transitions[t].outputs[i].ty.Record.program # p.program
<1> DEFINE f == p.functions[t]
           io == f.outputs[i].io
           id == p.program
<1>1. t \in DOMAIN p.functions /\ ParsedAbi(v, p).transitions[t] = ParsedFunction(v, f, id)
  BY DEF ParsedAbi
<1>2. i \in DOMAIN f.outputs /\ ParsedAbi(v, p).transitions[t].outputs[i].ty = IoType(io, id)
  <2> HIDE DEF f, id
  <2>1. ParsedAbi(v, p).transitions[t].outputs = ParsedOutputs(f, id, "transition")
    <3>1. ParsedFunction(v, f, id).outputs = ParsedOutputs(f, id, "transition")
      BY DEF ParsedFunction
    <3>2. ParsedAbi(v, p).transitions[t] = ParsedFunction(v, f, id)
      BY <1>1 DEF f, id
    <3> QED
      BY <3>1, <3>2
  <2>2. i \in DOMAIN ParsedOutputs(f, id, "transition")
    BY <2>1
  <2>3. i \in DOMAIN f.outputs
    BY <2>2 DEF ParsedOutputs
  <2>4. ParsedOutputs(f, id, "transition")[i] = ParsedIo(io, id, "transition")
    BY <2>3 DEF ParsedOutputs
  <2>5. ParsedIo(io, id, "transition").ty = IoType(io, id)
    BY DEF ParsedIo
  <2> QED
    BY <2>1, <2>3, <2>4, <2>5
<1>3. io \in Ios /\ id # Null
  BY <1>1, <1>2 DEF AbiAssumption, IosOf
<1>4. Has(IoType(io, id), "Record")
  BY <1>2
<1> HIDE DEF io, id
<1>5. \E r \in References : io = [Record |-> r]
  <2>1. ASSUME NEW x, io = [Plaintext |-> x]
        PROVE  FALSE
    BY <1>4, <2>1 DEF IoType, Has
  <2>2. ASSUME io = [bare |-> "Final"]
        PROVE  FALSE
    BY <1>4, <2>2 DEF IoType, Has
  <2>3. ASSUME io = [bare |-> "DynamicRecord"]
        PROVE  FALSE
    <3>1. [bare |-> "DynamicRecord"] # [bare |-> "Final"]
      OBVIOUS
    <3> QED
      BY <1>4, <2>3, <3>1 DEF IoType, Has
  <2> QED
    BY <1>3, <2>1, <2>2, <2>3 DEF Ios
<1>6. PICK r : io = [Record |-> r]
  BY <1>5
<1>7. IoType(io, id) = [Record |-> toRef(r, id)]
  BY <1>6 DEF IoType, Has
<1>8. IoType(io, id).Record.program # id
  BY <1>3, <1>7, RefStable
<1> QED
  BY <1>2, <1>8 DEF id

(* Whatever Leo compiled a program, its parsed ABI is the same in what     *)
(* every Leo says of it: 4.2 and 4.3 agree in all of it, 4.1 adds names of *)
(* inputs, constant parameters and interfaces.  No type of the program's   *)
(* own looks foreign, and parsing a snapshot again changes nothing, what   *)
(* 4.1 alone says included.  For any programs, with types nested to any    *)
(* depth.  (parseAbi(), normalizePlaintext(), normalizeInterfaceRef().)    *)
THEOREM AbiSnapshotsStable == AbiSpec => []AbiStable
<1>1. ASSUME AbiAssumption, NEW p \in Abis
      PROVE  AbiStableOf(p)
  <2> DEFINE Parsed(v) == parseAbi(LeoAbi(v, p))
  <2>1. \A v : Parsed(v) = ParsedAbi(v, p) /\ parseAbi(ParsedAbi(v, p)) = ParsedAbi(v, p)
    BY <1>1, AbiParsed
  <2>2. \A v : \A t \in DOMAIN ParsedAbi(v, p).transitions :
          \A i \in DOMAIN ParsedAbi(v, p).transitions[t].outputs :
            Has(ParsedAbi(v, p).transitions[t].outputs[i].ty, "Record") =>
              ParsedAbi(v, p).transitions[t].outputs[i].ty.Record.program # p.program
    BY <1>1, OwnRecords
  <2> HIDE DEF Parsed
  <2>3. Parsed("4.2") = Parsed("4.3")
    BY <2>1, RecentAgree
  <2>4. Shared(Parsed("4.1")) = Shared(Parsed("4.2"))
    BY <2>1, SharedAgree
  <2>5. ASSUME NEW v
        PROVE  LET abi == Parsed(v)
               IN  /\ parseAbi(abi) = abi
                   /\ \A t \in DOMAIN abi.transitions : \A i \in DOMAIN abi.transitions[t].outputs :
                        LET ty == abi.transitions[t].outputs[i].ty
                        IN  Has(ty, "Record") => ty.Record.program # p.program
    BY <2>1, <2>2
  <2> QED
    BY <2>3, <2>4, <2>5 DEF AbiStableOf, Parsed
<1>2. abis \subseteq Abis => AbiStable
  BY <1>1, AbiAssumption DEF AbiStable
<1>3. abis \subseteq Abis /\ [UNCHANGED abis]_abis => (abis \subseteq Abis)'
  OBVIOUS
<1> QED
  BY <1>2, <1>3, PTL DEF AbiSpec

=============================================================================
