------------------------------ MODULE Compiler ------------------------------
(***************************************************************************)
(* The compile and clean tasks (plugin-leo/src/index.ts, leo-compiler/src: *)
(* compiler.ts, cache.ts, package-materializer.ts): what is on disk, what  *)
(* a build was made from, and what the cache says it was made from.  The   *)
(* artifact store of a process holds what was copied to artifacts/.        *)
(*                                                                         *)
(* A package, a build and a hash are identified with what determines them, *)
(* so that a hash describes the build that is equal to it, and a file that *)
(* may be missing is a set with one member at most.  The process may die   *)
(* at any point; the file system keeps what was written.                   *)
(***************************************************************************)
EXTENDS DependencyGraph, FiniteSets, Functions

CONSTANTS
  Layouts,         \* the projects: [dirs, text] the folders in the order they are read
  Texts,           \* Texts[f]: what folder f may be edited to
  Renames,         \* the program ids a program may be renamed to
  Networks,        \* the networks, each with its endpoint
  LeoVersions,     \* what config.leoVersion may be set to
  Foreign,         \* the ids that are imported from a network
  OnChain,         \* OnChain[n]: the sources such a program may have on network n
  Requests,        \* what the compile task is asked for
  moduleStem,      \* moduleStem[id]: programIdToClassName(), lower case
  EditWhileCompiling,  \* may files change while a compile runs?
  MaxChanges,      \* bound: edits, upgrades and configuration changes
  MaxCompiles      \* bound: commands, compiles among them

ASSUME CompilerAssumption ==
  /\ MaxChanges \in Nat /\ MaxCompiles \in Nat
  /\ EditWhileCompiling \in BOOLEAN
  /\ \A r \in Requests :
       /\ r.network \in Networks
       /\ r.rename # "none" => r.rename \in Renames /\ r.program # "all"
  /\ \A n \in Networks : OnChain[n] # {}

(* A project has folders of this model, each read once, what its programs  *)
(* import and no unit of it answers to is on the networks, and every       *)
(* program has a stem.                                                     *)
ASSUME ProjectAssumption ==
  /\ \A l \in Layouts :
       /\ l.dirs \in Seq(ToSet(l.dirs)) /\ IsInjective(l.dirs)
       /\ ToSet(l.dirs) \subseteq DOMAIN folderName /\ DOMAIN l.text = ToSet(l.dirs)
       /\ \A f \in ToSet(l.dirs) : \A t \in Texts[f] \cup {l.text[f]} :
            /\ importsOf[t] \in Seq(ToSet(importsOf[t]))
            /\ \A key \in ToSet(importsOf[t]) : Named(l.dirs, key) = {} => key \in Foreign
  /\ \A f \in DOMAIN folderName : kind[f] = "program" => unitId(f) \in DOMAIN moduleStem
  /\ "basecontract" \in Range(moduleStem)

VARIABLES
  dirs, source,    \* programs/: the folders, and the text of each
  chain,           \* chain[n][d]: the source of program d on network n
  leoVersion,      \* config.leoVersion
  package,         \* package[id]: .build/<id>/ without build/
  build,           \* build[id]: .build/<id>/build/
  hash,            \* hash[c]: .cache/<c>.hash, where c is <<folder, effective id>>
  torn,            \* history: the ids whose build is not what the cache entry beside it
                   \* describes, because whoever built it wrote no entry
  netDep,          \* netDep[n][d]: .cache/network-deps/<n>/<d>
  artifact,        \* artifact[id]: artifacts/<id>/
  typechain,       \* typechain[m]: the module with stem m
  pc, opts,        \* where the compile task is and what it was asked for
  order,           \* compileOrder
  unlinked,        \* the network dependencies that are not linked yet
  at,              \* the place in compileOrder of the unit to compile next
  depHashes,       \* the hashes of the units this compile has come to
  results,         \* the ids whose compilation this compile has finished
  compiles, changes

projectVars == <<dirs, source, chain, leoVersion, changes>>
buildVars == <<package, build, hash, torn>>
outputVars == <<artifact, typechain>>
taskVars == <<opts, order, compiles>>
loopVars == <<pc, unlinked, at, depHashes, results>>
vars == <<projectVars, buildVars, netDep, outputVars, taskVars, loopVars>>

Folders == DOMAIN folderName
Ids == {unitId(f) : f \in Folders} \cup Renames
CacheIds == UNION {{f} \X ({unitId(f)} \cup Renames) : f \in Folders}
Member(S) == CHOOSE x \in S : TRUE
NoneYet == [x \in {} |-> x]
Put(f, x, v) == [y \in DOMAIN f \cup {x} |-> IF y = x THEN v ELSE f[y]]
NoRequest == [program |-> "all", rename |-> "none", network |-> Member(Networks),
              force |-> FALSE, typechain |-> FALSE]

Init ==
  /\ \E l \in Layouts : dirs = l.dirs /\ source = l.text /\ changes = l.spent /\ compiles = l.spent
  /\ chain = [n \in Networks |-> [d \in Foreign |-> Member(OnChain[n])]]
  /\ leoVersion = Member(LeoVersions)
  /\ package = [id \in Ids |-> {}] /\ build = [id \in Ids |-> {}]
  /\ hash = [c \in CacheIds |-> {}] /\ torn = {}
  /\ netDep = [n \in Networks |-> [d \in Foreign |-> {}]]
  /\ artifact = [id \in Ids |-> {}]
  /\ typechain = [m \in Range(moduleStem) |-> {}]
  /\ pc = "idle" /\ opts = NoRequest /\ order = <<>> /\ unlinked = {} /\ at = 1
  /\ depHashes = NoneYet /\ results = {}

-----------------------------------------------------------------------------
(* The pieces of compilePipeline()                                         *)

effectiveUnitId(f) ==
  IF opts.rename # "none" /\ f = opts.program /\ kind[f] = "program" THEN opts.rename ELSE unitId(f)

CacheId(f) == <<f, effectiveUnitId(f)>>

(* materializePackage(): sources, program.json and an empty imports/ in    *)
(* place of what was there; build/ is moved aside and back.                *)
Package(o, f) ==
  [program |-> IF o.rename # "none" /\ f = o.program /\ kind[f] = "program" THEN o.rename ELSE unitId(f),
   text |-> source[f],
   local |-> LocalDeps(dirs, source, f),
   imports |-> NoneYet]

(* leo build (external): the program made of its package and of the        *)
(* packages of the units it needs, to which program.json points.           *)
Product(packages, id) ==
  LET p == Member(packages[id])
      deps == [g \in ToSet(dirs) |-> UNION {ToSet(q.local) : q \in packages[unitId(g)]}]
  IN  [package |-> p, leo |-> leoVersion,
       others |-> UNION {packages[unitId(g)] : g \in Needs(deps, ToSet(p.local))}]

(* The hash of a unit: its sources as they are in programs/ now, its       *)
(* program.json, the linked sources, the Leo version, and the hashes of    *)
(* its local dependencies, which were made of theirs.                      *)
HashOf(f, hashed) ==
  LET p == Member(package[effectiveUnitId(f)])
  IN  [package |-> [p EXCEPT !.text = source[f]], leo |-> leoVersion,
       others |-> UNION {{hashed[g].package} \cup hashed[g].others : g \in ToSet(p.local) \cap DOMAIN hashed}]

computeUnitHash_OwnSources(f) == HashOf(f, NoneYet)

computeUnitHash(f) == HashOf(f, depHashes)

isCached(f, h) == ~opts.force /\ h \in hash[CacheId(f)]

(* A hit counts if the build it needs is still there.                      *)
Hit(f, h) ==
  isCached(f, h) /\ (kind[f] = "program" => build[effectiveUnitId(f)] # {})

-----------------------------------------------------------------------------
(* compileTask                                                             *)

Compiling == pc # "idle"

(* From the call to the network dependencies: options are checked, units   *)
(* discovered and ordered, and the packages written.                       *)
Selected(o) ==
  LET graph == resolveDependencies(dirs, source)
  IN  IF o.program = "all" THEN graph.order
      ELSE collectTransitiveDeps(dirs, source, graph.order, o.program)

Accepted(o) ==
  /\ o.program \in ToSet(dirs) \cup {"all"}
  /\ resolveDependencies(dirs, source).ok

Materialize(o, units) ==
  package' = [id \in Ids |->
    LET here == {f \in units : Package(o, f).program = id}
    IN  IF here = {} THEN package[id] ELSE {Package(o, f) : f \in here}]

NeededDeps(units) == UNION {NetworkDeps(dirs, source, f) : f \in units}

CompileBegins(o) ==
  /\ ~Compiling /\ compiles < MaxCompiles
  /\ Accepted(o)
  /\ compiles' = compiles + 1 /\ opts' = o
  /\ order' = Selected(o) /\ Materialize(o, ToSet(order'))
  /\ pc' = "link" /\ unlinked' = NeededDeps(ToSet(order')) /\ at' = 1
  /\ depHashes' = NoneYet /\ results' = {}
  /\ UNCHANGED <<projectVars, build, hash, torn, netDep, outputVars>>

(* Something other than a compile that goes on to its cache entry leaves   *)
(* this build, or none, and whatever entries there are.                    *)
LeavesBuild(id, products) ==
  LET entries == UNION {hash[c] : c \in {d \in CacheIds : d[2] = id}}
  IN  /\ build' = [build EXCEPT ![id] = products]
      /\ torn' = IF \A p \in products : entries \subseteq {p} THEN torn \ {id} ELSE torn \cup {id}

BuildStays == UNCHANGED <<build, torn>>

(* The process dies while it writes packages: some are there, and the      *)
(* build/ of one may be where it was moved to, under a name no one looks   *)
(* for again.                                                              *)
MaterializeCut(o) ==
  /\ ~Compiling /\ compiles < MaxCompiles
  /\ Accepted(o)
  /\ compiles' = compiles + 1
  /\ \E k \in DOMAIN Selected(o) :
       LET lost == Package(o, Selected(o)[k]).program
       IN  /\ LeavesBuild(lost, {})
           /\ Materialize(o, {Selected(o)[i] : i \in 1 .. k})
  /\ UNCHANGED <<projectVars, hash, netDep, outputVars, opts, order, loopVars>>

(* The source of a dependency, from the cache of this network or from the  *)
(* network, is linked into every package that imports it.                  *)
LinkedSources(d) ==
  LET cached == netDep[opts.network][d]
  IN  IF ~opts.force /\ cached # {} THEN cached ELSE {chain[opts.network][d]}

LinkInto(p, d, s) == [p EXCEPT !.imports = Put(@, d, s)]

LinkNetworkDependency ==
  /\ pc = "link"
  /\ \E d \in unlinked :
       LET importers == {effectiveUnitId(f) :
                           f \in {g \in ToSet(order) : d \in NetworkDeps(dirs, source, g)}}
       IN  /\ unlinked' = unlinked \ {d}
           /\ \E s \in LinkedSources(d) :
                /\ netDep' = [netDep EXCEPT ![opts.network][d] = {s}]
                /\ package' = [id \in Ids |->
                     IF id \notin importers THEN package[id]
                     ELSE {LinkInto(p, d, s) : p \in package[id]}]
  /\ UNCHANGED <<projectVars, build, hash, torn, outputVars, taskVars, pc, at, depHashes, results>>

Linked ==
  /\ pc = "link" /\ unlinked = {}
  /\ pc' = "units"
  /\ UNCHANGED <<projectVars, buildVars, netDep, outputVars, taskVars, unlinked, at, depHashes, results>>

(* buildKeyArtifactsMetadata(): the program the artifact was compiled from *)
(* and, for its keys, its source and the imports/ of its package.          *)
Sidecar(f, product) ==
  {[sourceProgram |-> unitId(f), source |-> product, imports |-> p.imports] :
     p \in package[effectiveUnitId(f)]}

(* copyArtifacts() makes artifacts/<id>/ anew from the build; then the     *)
(* metadata is written beside it.                                          *)
Normalized(f, builds) ==
  IF kind[f] = "library" THEN artifact
  ELSE [artifact EXCEPT ![effectiveUnitId(f)] =
          {[product |-> b, sidecar |-> Sidecar(f, b)] : b \in builds}]

CopiedOnly(f, builds) ==
  IF kind[f] = "library" THEN artifact
  ELSE [artifact EXCEPT ![effectiveUnitId(f)] =
          {[product |-> b, sidecar |-> {}] : b \in builds}]

Finished(f) ==
  /\ results' = results \cup (IF kind[f] = "program" THEN {f} ELSE {})
  /\ at' = at + 1

(* A unit whose hash is known needs no build.                              *)
UseCached(f, h) ==
  /\ Hit(f, h)
  /\ artifact' = Normalized(f, build[effectiveUnitId(f)])
  /\ Finished(f) /\ UNCHANGED pc

StartBuild(f, h) ==
  /\ ~Hit(f, h)
  /\ pc' = "building"
  /\ UNCHANGED <<artifact, results, at>>

CompileUnit ==
  /\ pc = "units" /\ at \in DOMAIN order
  /\ LET f == order[at] h == computeUnitHash(f)
     IN  /\ depHashes' = Put(depHashes, f, h)
         /\ UseCached(f, h) \/ StartBuild(f, h)
  /\ UNCHANGED <<projectVars, buildVars, netDep, typechain, taskVars, unlinked>>

(* What build/ holds after a build: libraries leave nothing there.         *)
Built(f) ==
  IF kind[f] = "library" THEN build[effectiveUnitId(f)]
  ELSE {Product(package, effectiveUnitId(f))}

(* leo build returns; its output is read and copied, and only then does    *)
(* the cache say that it is there.                                         *)
BuildReturns ==
  /\ pc = "building"
  /\ LET f == order[at]
     IN  /\ build' = [build EXCEPT ![effectiveUnitId(f)] = Built(f)]
         /\ torn' = torn \ {effectiveUnitId(f)}
         /\ artifact' = Normalized(f, Built(f))
         /\ hash' = [hash EXCEPT ![CacheId(f)] = {depHashes[f]}]
         /\ Finished(f)
  /\ pc' = "units"
  /\ UNCHANGED <<projectVars, package, netDep, typechain, taskVars, unlinked, depHashes>>

Stop ==
  /\ pc' = "idle" /\ unlinked' = {} /\ at' = 1 /\ depHashes' = NoneYet /\ results' = {}
  /\ order' = <<>> /\ opts' = NoRequest

(* A dependency that cannot be fetched, a build that fails or times out:   *)
(* the task throws.  A failed build leaves what was there, or nothing.     *)
CompileThrows ==
  /\ Stop
  /\ \/ pc = "link" /\ unlinked # {} /\ BuildStays
     \/ pc = "building" /\ (BuildStays \/ LeavesBuild(effectiveUnitId(order[at]), {}))
  /\ UNCHANGED <<projectVars, package, hash, netDep, outputVars, compiles>>

(* The process dies while a unit is built or its output copied.            *)
BuildCut ==
  /\ pc = "building"
  /\ LET f == order[at] id == effectiveUnitId(f)
     IN  \/ (BuildStays \/ LeavesBuild(id, {})) /\ UNCHANGED artifact
         \/ /\ LeavesBuild(id, Built(f))
            /\ artifact' \in {artifact, Normalized(f, {}), CopiedOnly(f, Built(f)),
                              Normalized(f, Built(f))}
  /\ Stop
  /\ UNCHANGED <<projectVars, package, hash, netDep, typechain, compiles>>

-----------------------------------------------------------------------------
(* The end of compileTask: the bindings                                    *)

ModuleNamesUnique ==
  /\ \A f, g \in results : f # g => moduleStem[unitId(f)] # moduleStem[unitId(g)]
  /\ \A f \in results : moduleStem[unitId(f)] # "basecontract"

(* A targeted compile does not see the programs of the modules that are    *)
(* there already.                                                          *)
NoExistingModuleCollision ==
  opts.program # "all" =>
    \A f \in results : \A m \in typechain[moduleStem[unitId(f)]] : m.program = unitId(f)

ModulesFree == ModuleNamesUnique /\ NoExistingModuleCollision

Module(f) ==
  [program |-> unitId(f),
   abi |-> Member({a.product : a \in artifact[effectiveUnitId(f)]})]

(* The modules of the programs in S are written.                           *)
WriteModules(S) ==
  typechain' = [m \in DOMAIN typechain |->
    LET here == {f \in S : moduleStem[unitId(f)] = m}
    IN  IF m = "basecontract" /\ S # {} THEN {[program |-> "BaseContract", abi |-> <<>>]}
        ELSE IF here = {} THEN typechain[m] ELSE {Module(Member(here))}]

CompileReturns ==
  /\ pc = "units" /\ at = Len(order) + 1
  /\ IF opts.typechain THEN ModulesFree /\ WriteModules(results) ELSE UNCHANGED typechain
  /\ pc' = "returned"
  /\ UNCHANGED <<projectVars, buildVars, netDep, artifact, taskVars, unlinked, at, depHashes, results>>

(* Two programs want one module, or the generator rejects an ABI after it  *)
(* wrote the modules of the programs before.                               *)
BindingsThrow ==
  /\ pc = "units" /\ at = Len(order) + 1 /\ opts.typechain
  /\ \/ ~ModulesFree /\ UNCHANGED typechain
     \/ ModulesFree /\ \E S \in SUBSET results : S # results /\ WriteModules(S)
  /\ Stop
  /\ UNCHANGED <<projectVars, buildVars, netDep, artifact, compiles>>

Return ==
  /\ pc = "returned" /\ Stop
  /\ UNCHANGED <<projectVars, buildVars, netDep, outputVars, compiles>>

(* cleanTask: the artifacts directory, caches included, and the bindings.  *)
Clean ==
  /\ ~Compiling
  /\ package' = [id \in Ids |-> {}] /\ build' = [id \in Ids |-> {}]
  /\ hash' = [c \in DOMAIN hash |-> {}] /\ torn' = {} /\ artifact' = [id \in Ids |-> {}]
  /\ netDep' = [n \in Networks |-> [d \in Foreign |-> {}]]
  /\ typechain' = [m \in DOMAIN typechain |-> {}]
  /\ UNCHANGED <<projectVars, taskVars, loopVars>>

-----------------------------------------------------------------------------
(* The developer and the networks                                          *)

Change ==
  /\ changes < MaxChanges /\ changes' = changes + 1
  /\ \/ \E f \in ToSet(dirs) : \E t \in Texts[f] \ {source[f]} :
          source' = [source EXCEPT ![f] = t] /\ UNCHANGED <<leoVersion, chain>>
     \/ \E v \in LeoVersions \ {leoVersion} : leoVersion' = v /\ UNCHANGED <<source, chain>>
     \/ \E n \in Networks, d \in Foreign : \E s \in OnChain[n] :
          /\ s # chain[n][d]
          /\ chain' = [chain EXCEPT ![n][d] = s] /\ UNCHANGED <<source, leoVersion>>
  /\ EditWhileCompiling \/ ~Compiling
  /\ UNCHANGED <<dirs, buildVars, netDep, outputVars, taskVars, loopVars>>

Next ==
  \/ \E o \in Requests : CompileBegins(o) \/ MaterializeCut(o)
  \/ LinkNetworkDependency \/ Linked \/ CompileUnit \/ BuildReturns \/ BuildCut \/ CompileThrows
  \/ CompileReturns \/ BindingsThrow \/ Return \/ Clean \/ Change

Spec == Init /\ [][Next]_vars

-----------------------------------------------------------------------------
(* Properties                                                              *)

(* Every unit declares itself and has its names to itself.                 *)
Sound(units) ==
  /\ \A f, g \in units : f # g => lookupKeys(f) \cap lookupKeys(g) = {}
  /\ \A f \in units : lookupKeys(f) \cap Reserved = {}
  /\ \A f \in units : kind[f] = "program" => source[f] \notin Undeclared

(* The order puts every unit after what it imports, and there is one for   *)
(* every project without a cycle, a name claimed twice, a reserved name or *)
(* a program without its declaration; the order of a single program has    *)
(* what it needs and nothing else.  (resolveDependencies(),                *)
(* collectTransitiveDeps().)                                               *)
CompileOrderValid ==
  LET units == ToSet(dirs)
      deps == DepsOf(dirs, source)
      graph == resolveDependencies(dirs, source)
  IN  ~Compiling =>
        /\ graph.ok =>
             /\ Sound(units) /\ Ordered(deps, graph.order, units)
             /\ \A f \in units :
                  Ordered(deps, collectTransitiveDeps(dirs, source, graph.order, f), Needs(deps, {f}))
        /\ ~graph.ok =>
             ~Sound(units) \/ ~\E s \in [1 .. Cardinality(units) -> units] : Ordered(deps, s, units)

(* What leo build would make of the project as it is now.                  *)
Current(f) ==
  [program |-> effectiveUnitId(f), text |-> source[f], local |-> LocalDeps(dirs, source, f),
   imports |-> [d \in NetworkDeps(dirs, source, f) |-> Member(netDep[opts.network][d])]]

Expected(f) ==
  LET deps == DepsOf(dirs, source)
  IN  [package |-> Current(f), leo |-> leoVersion,
       others |-> {Current(g) : g \in Needs(deps, deps[f])}]

(* Every program that was compiled has an artifact made from the sources   *)
(* of the project and of everything it imports as they are, and these are  *)
(* of the network it was compiled for.  The exception is a build that      *)
(* somebody left without writing the cache entry, beside the entry of an   *)
(* earlier build: when the sources return to what they were then, or the   *)
(* compile is for the network it was for then, the old entry is a hit and  *)
(* the build beside it is served.                                          *)
ArtifactsFresh ==
  \A f \in results :
    /\ effectiveUnitId(f) \notin torn =>
         {a.product : a \in artifact[effectiveUnitId(f)]} = {Expected(f)}
    /\ \A d \in NetworkDeps(dirs, source, f) :
         netDep[opts.network][d] \subseteq OnChain[opts.network]

(* It has a module of its own, from the ABI of that artifact, and          *)
(* BaseContract is there beside them.                                      *)
BindingsOwned ==
  opts.typechain /\ results # {} =>
    /\ \A f \in results : typechain[moduleStem[unitId(f)]] = {Module(f)}
    /\ \A m \in typechain["basecontract"] : m.program = "BaseContract"

(* When compile returns, the artifacts and the bindings of every program   *)
(* it was asked for were made from what is there now, by the configured    *)
(* Leo version and with the network's own programs linked: whatever was    *)
(* edited, upgraded, removed or served from the cache before, and wherever *)
(* an earlier compile died or threw, unless it was after the build of a    *)
(* program and before the entry that would have replaced an older one, or  *)
(* Leo made such a build for a deploy (compilePipeline(): the build, the   *)
(* copies, and writeCache() last).                                         *)
ResultsFresh == pc = "returned" => ArtifactsFresh /\ BindingsOwned

(* docs/compiler.md: "Renamed deploy builds are cached separately from     *)
(* non-renamed builds."  A build that is served from the cache is the one  *)
(* whose hash was stored, if every compile came to its end.                *)
BuildsKeptApart ==
  pc = "returned" =>
    \A f \in results : effectiveUnitId(f) \notin torn => build[effectiveUnitId(f)] = {depHashes[f]}

=============================================================================
