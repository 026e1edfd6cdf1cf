------------------------------ MODULE Startup ------------------------------
(***************************************************************************)
(* main() of the CLI (cli/src/index.ts): from the tokens of a command and  *)
(* the project they are typed in to the action of a task, and from the     *)
(* test task to the Vitest workers, which build their environment again    *)
(* from the disk and the variables the parent leaves them.                 *)
(*                                                                         *)
(* The tokens are parsed three times: knowing nothing, to find the         *)
(* configuration; with the options of the plugins; and with the tasks.     *)
(***************************************************************************)
EXTENDS CommandLine, ConfigResolution, Plugins

CONSTANTS
  Commands,   \* the pairs of a command line and a project to start
  Envs        \* the environments of the process

(* Tasks that were made by a TaskBuilder.                                  *)
Built(ts) ==
  /\ ts \in Seq(ToSet(ts))
  /\ \A t \in ToSet(ts) :
       /\ Buildable(t.definition)
       /\ t.definition.positionals \in Seq(ToSet(t.definition.positionals))

(* A project has finitely many plugin objects, which depend on each other, *)
(* and lists finitely many runtime imports; NoValue is not the name of a   *)
(* file.                                                                   *)
ASSUME StartupAssumption ==
  \A c \in Commands :
    /\ c[1] \in Seq([option : BOOLEAN, long : BOOLEAN, name : STRING, inline : STRING])
    /\ IsFiniteSet(DOMAIN c[2].table) /\ c[2].plugins \in Seq(DOMAIN c[2].table)
    /\ \A p \in DOMAIN c[2].table :
         c[2].table[p].dependencies \in Seq(DOMAIN c[2].table) /\ Built(c[2].table[p].tasks)
    /\ Built(c[2].tasks)
    /\ NoValue \notin c[2].files
    /\ LET imports == Or(c[2].config, "imports", None)
       IN  /\ IsFiniteSet(DOMAIN imports)
           /\ \A k \in DOMAIN imports :
                /\ imports[k] \in Seq(DOMAIN refKind)
                /\ \A i \in DOMAIN imports[k] : refKind[imports[k][i]] # "invalid" =>
                     normalizeRuntimeImportRef(imports[k][i]) \in DOMAIN rank

(* A project: where findConfigFile() looks from ("none" if it finds no     *)
(* file), the configuration files that load, the plugins they name and the *)
(* tasks and settings of the configuration.                                *)
VARIABLES
  argv, project, env,
  stage,          \* how far main() is
  parsed,         \* the last parse
  configPath,     \* the configuration file that is loaded
  plugins,        \* the plugins, in load order
  config,         \* the resolved configuration
  tasks,          \* the registry of the task runner
  globalOptions,  \* lre.globalOptions
  received,       \* the arguments each action of the chain was called with
  worker          \* what a Vitest worker resolves

vars == <<argv, project, env, stage, parsed, configPath, plugins, config, tasks,
          globalOptions, received, worker>>

Init ==
  /\ \E c \in Commands : argv = c[1] /\ project = c[2]
  /\ env \in Envs
  /\ stage = "begin"
  /\ parsed = parseArgs(<<>>, {}, NoTasks)
  /\ configPath = NoValue
  /\ plugins = <<>> /\ config = None /\ tasks = NoTasks /\ globalOptions = None
  /\ received = <<>> /\ worker = None

True(args, name) == name \in DOMAIN args /\ args[name] = Bool(TRUE)

(* The first parse: --version ends here, and so does --help when there is  *)
(* no configuration to ask.                                                *)
Begin ==
  /\ stage = "begin"
  /\ parsed' = parseArgs(argv, {}, NoTasks)
  /\ LET path == IF "config" \in DOMAIN parsed'.globalArgs
                   THEN parsed'.globalArgs["config"].words[1] ELSE project.found
     IN  /\ configPath' = path
         /\ stage' = CASE True(parsed'.globalArgs, "version") -> "version"
                       [] ~True(parsed'.globalArgs, "version") /\ path # NoValue -> "load"
                       [] OTHER -> IF True(parsed'.globalArgs, "help") THEN "help" ELSE "failed"
  /\ UNCHANGED <<argv, project, env, plugins, config, tasks, globalOptions, received, worker>>

PluginGlobals(order) == UNION {project.table[p].globals : p \in ToSet(order)}

(* No spelling of a plugin's option is a built-in's or another option's.   *)
collectGlobalOptions(order) ==
  LET options == PluginGlobals(order)
      pairs == {pair \in ToSet(order) \X options : pair[2] \in project.table[pair[1]].globals}
      Names(pair) == getPublicArgumentNames(pair[2].name)
  IN  /\ PublicNames(NamesOf(options)) \cap getReservedBuiltInGlobalArgumentNames = {}
      /\ \A a, b \in pairs : a # b => Names(a) \cap Names(b) = {}

LoadConfig ==
  /\ stage = "load"
  /\ LET order == resolvePluginOrder(project.table, project.plugins)
     IN  IF /\ configPath \in project.files
            /\ \E s \in order : collectGlobalOptions(s)
         THEN /\ plugins' \in order
              /\ parsed' = parseArgs(argv, PluginGlobals(plugins'), NoTasks)
              /\ stage' = "configure"
         ELSE stage' = "failed" /\ UNCHANGED <<plugins, parsed>>
  /\ UNCHANGED <<argv, project, env, configPath, config, tasks, globalOptions, received, worker>>

Hooks == [i \in DOMAIN plugins |-> project.table[plugins[i]].hooks]

(* createLre(): the tasks of the plugins in load order, then those of the  *)
(* configuration.                                                          *)
RegisteredTasks ==
  registerTasks(NoTasks, FlattenSeq([i \in DOMAIN plugins |-> project.table[plugins[i]].tasks])
                         \o project.tasks)

Configure ==
  /\ stage = "configure"
  /\ LET resolved == resolveConfig(project.config, Hooks, env, project.files)
     IN  IF resolved # {} /\ RegisteredTasks # {}
         THEN config' \in resolved /\ tasks' \in RegisteredTasks /\ stage' = "route"
         ELSE stage' = "failed" /\ UNCHANGED <<config, tasks>>
  /\ UNCHANGED <<argv, project, env, parsed, configPath, plugins, globalOptions, received, worker>>

-----------------------------------------------------------------------------
(* The third parse, and what main() does with it before a task runs        *)

Definitions == [id \in DOMAIN tasks |-> tasks[id].definition]

(* Plugin options have the value of the parse or their default; an         *)
(* explicit --prove=false is kept.                                         *)
seedGlobalOptions(args) ==
  LET strings == {n \in DOMAIN args : n \notin {"prove", "help", "version", "verbose", "config"}}
      defaulted == {g \in PluginGlobals(plugins) : g.default # NoValue}
  IN  Over([n \in strings |-> args[n].words[1]],
           Over([n \in DOMAIN args \cap {"prove"} |-> args[n] = Bool(TRUE)],
                [n \in NamesOf(defaulted) |-> (CHOOSE g \in defaulted : g.name = n).default]))

NetworkKnown(args) ==
  "network" \in DOMAIN args => args["network"].words[1] \in DOMAIN config.networks

Route ==
  /\ stage = "route"
  /\ parsed' = parseArgs(argv, PluginGlobals(plugins), Definitions)
  /\ LET args == parsed'.globalArgs
         accepted == /\ validateParsedArgs(Definitions, parsed')
                     /\ NetworkKnown(args)
                     /\ assertDeployBackendArg(argv, parsed', Providers)
                     /\ validateTaskGlobalOptionCollisions(Definitions, PluginGlobals(plugins))
     IN  CASE True(args, "help") -> stage' = "help" /\ UNCHANGED <<config, globalOptions>>
           [] ~True(args, "help") /\ ~accepted ->
                stage' = "failed" /\ UNCHANGED <<config, globalOptions>>
           [] OTHER ->
                /\ globalOptions' = seedGlobalOptions(args)
                /\ config' = [config EXCEPT !.defaultNetwork = Or(globalOptions', "network", @)]
                /\ stage' = IF parsed'.taskId = NoValue THEN "help" ELSE "run"
  /\ UNCHANGED <<argv, project, env, configPath, plugins, tasks, received, worker>>

-----------------------------------------------------------------------------
(* The actions of the task, the newest first: each may call runSuper()     *)
(* with the arguments it was given, which are prepared once more.          *)

Task == tasks[parsed.taskId]
Actions == <<Task.action>> \o Task.overrideChain

Call(args) ==
  LET prepared == prepareArgs(Task.definition, args, parsed.positional)
  IN  IF prepared = {} THEN stage' = "failed" /\ UNCHANGED received
      ELSE /\ \E a \in prepared : received' = Append(received, a)
           /\ stage' = "running"

Run ==
  /\ stage = "run"
  /\ Call(parsed.taskArgs)
  /\ UNCHANGED <<argv, project, env, parsed, configPath, plugins, config, tasks, globalOptions,
                 worker>>

RunSuper ==
  /\ stage = "running"
  /\ Len(received) < Len(Actions)
  /\ Call(Last(received))
  /\ UNCHANGED <<argv, project, env, parsed, configPath, plugins, config, tasks, globalOptions,
                 worker>>

-----------------------------------------------------------------------------
(* The test task and its workers                                           *)

(* The variables the workers inherit.  A network that is not explicit is   *)
(* cleared, a backend that is not is left as it is, and proving is made    *)
(* the one word the workers look for.                                      *)
WorkerEnv_StaleNetwork == Over(Field("LIONDEN_CONFIG_PATH", configPath), env)

WorkerEnv ==
  LET explicit ==
        Over(IF "network" \in DOMAIN globalOptions
               THEN Field("LIONDEN_NETWORK", globalOptions["network"]) ELSE None,
             Over(IF "deployBackend" \in DOMAIN globalOptions
                    THEN Field("LIONDEN_DEPLOY_BACKEND", globalOptions["deployBackend"]) ELSE None,
                  IF resolveProveOption(globalOptions, env) THEN Field("LIONDEN_PROVE", "true")
                  ELSE None))
      inherited == [n \in DOMAIN env \ {"LIONDEN_NETWORK", "LIONDEN_PROVE"} |-> env[n]]
  IN  Over(Field("LIONDEN_CONFIG_PATH", configPath), Over(explicit, inherited))

(* createTestLre() of a worker: everything again from the disk, with no    *)
(* global option.                                                          *)
buildLre(variables) ==
  LET order == CHOOSE s \in resolvePluginOrder(project.table, project.plugins) : TRUE
      hooks == [i \in DOMAIN order |-> project.table[order[i]].hooks]
      resolved == resolveConfig(project.config, hooks, variables, project.files)
      network(r) == Or(variables, "LIONDEN_NETWORK", r.defaultNetwork)
  IN  {[config |-> [r EXCEPT !.defaultNetwork = network(r)], file |-> variables["LIONDEN_CONFIG_PATH"],
        backend |-> resolveDeployBackendFromEnvAndConfig(r, network(r), variables),
        prove |-> Or(variables, "LIONDEN_PROVE", "") = "true"]
       : r \in {s \in resolved : network(s) \in DOMAIN s.networks}}

(* The test task looks at a backend that was chosen before it sets the     *)
(* variables.                                                              *)
readExplicitDeployBackend ==
  "deployBackend" \in DOMAIN globalOptions => globalOptions["deployBackend"] \in Providers

StartWorker ==
  /\ stage = "running"
  /\ Actions[Len(received)] = "test"
  /\ IF readExplicitDeployBackend
       THEN /\ stage' = "tested"
            /\ worker' \in IF buildLre(WorkerEnv) = {} THEN {None} ELSE buildLre(WorkerEnv)
       ELSE stage' = "failed" /\ UNCHANGED worker
  /\ UNCHANGED <<argv, project, env, parsed, configPath, plugins, config, tasks, globalOptions,
                 received>>

Next == \/ Begin \/ LoadConfig \/ Configure \/ Route \/ Run \/ RunSuper \/ StartWorker

Spec == Init /\ [][Next]_vars

-----------------------------------------------------------------------------
(* Properties                                                              *)

Routed == tasks # NoTasks /\ stage # "route"
Dispatched == stage \in {"running", "tested"}
WordsOf(args) == UNION {ToSet(args[n].words) : n \in DOMAIN args}

(* A command in which some word is a registered task is never refused as   *)
(* an unknown task: no option before it takes the only task for its value. *)
(* (findTask(): the words a value-less option may consume.)                *)
TaskNamedIsFound ==
  Routed /\ (\E i \in DOMAIN argv : ~argv[i].option /\ argv[i].name \in DOMAIN tasks)
    => parsed.taskId \in DOMAIN tasks

HasValue(i) ==
  \/ argv[i].inline # NoValue
  \/ i < Len(argv) /\ ~argv[i + 1].option /\ argv[i + 1].name # parsed.taskId

(* What the user typed reaches the action: an option the task declares is  *)
(* in its arguments under the declared name, unless it is a built-in one   *)
(* or is to have a value and has none, and a word is the task, a value, or *)
(* overridden by another occurrence of its option.  (A variadic positional *)
(* that is given by name loses the bare words: such commands are left out.)*)
NothingDropped ==
  LET schema == buildTaskArgumentLookup(Task.definition)
      lookup == buildGlobalArgumentLookup(PluginGlobals(plugins))
      Declared(n) == n \in DOMAIN schema \ getReservedBuiltInGlobalArgumentNames
      Canonical(n) == IF Declared(n) THEN schema[n].name
                      ELSE IF n \in DOMAIN lookup THEN lookup[n].name ELSE n
      typed == {i \in DOMAIN argv : argv[i].option}
      Given(i) == HasValue(i) \/ schema[argv[i].name].type = "boolean"
      Repeated(n) == \E i, j \in typed : i # j /\ Canonical(argv[i].name) = n
                                              /\ Canonical(argv[j].name) = n
      VariadicByName == \E i \in typed, k \in DOMAIN Task.definition.positionals :
        /\ Task.definition.positionals[k].variadic
        /\ Canonical(argv[i].name) = Task.definition.positionals[k].name
  IN  Dispatched /\ ~VariadicByName =>
        /\ \A i \in typed : Declared(argv[i].name) /\ Given(i)
                              => schema[argv[i].name].name \in DOMAIN received[1]
        /\ \A i \in DOMAIN argv \ typed :
             \/ argv[i].name = parsed.taskId
             \/ argv[i].name \in WordsOf(received[1]) \cup WordsOf(parsed.globalArgs)
             \/ i > 1 /\ argv[i - 1].option /\ Repeated(Canonical(argv[i - 1].name))

BackendOptions ==
  {i \in DOMAIN argv : argv[i].option /\ argv[i].name \in {"deployBackend", "deploy-backend"}}

TypedValue(i) ==
  IF argv[i].inline # NoValue THEN {argv[i].inline}
  ELSE {argv[j].name : j \in {k \in DOMAIN argv : k = i + 1 /\ ~argv[k].option}}

(* A backend that is typed with a value is the one that deploys, or the    *)
(* deployment is refused: it never falls through to the environment or the *)
(* configuration.  A command whose --deploy-backend has no value or an     *)
(* unknown one is refused before a task runs.  (assertDeployBackendArg(),  *)
(* resolveDeployBackendOption(); -deploy-backend without a value is        *)
(* accepted and falls through.)                                            *)
BackendHonoured ==
  LET chosen == resolveDeployBackendOption(globalOptions, config, config.defaultNetwork, env)
      typed == UNION {TypedValue(i) : i \in BackendOptions}
      offered == /\ "deployBackend" \in NamesOf(PluginGlobals(plugins))
                 /\ {"deployBackend", "deploy-backend"}
                      \cap DOMAIN buildTaskArgumentLookup(Task.definition) = {}
  IN  Dispatched =>
        /\ sawDeployBackendFlag(argv) => \E b \in typed : chosen = {b}
        /\ offered /\ (\E i \in BackendOptions : HasValue(i)) => chosen \subseteq typed

(* The plugins that are loaded are those that the list reaches, each after *)
(* what it depends on; only a cycle or two objects with one id make the    *)
(* order an error.  (resolvePluginOrder().)                                *)
LoadOrderValid ==
  LET table == project.table
      deps == [p \in DOMAIN table |-> ToSet(table[p].dependencies)]
      needed == Needs(deps, ToSet(project.plugins))
      orders == {s \in [1 .. Cardinality(needed) -> needed] : Ordered(deps, s, needed)}
      unique == \A p, q \in needed : table[p].id = table[q].id => p = q
  IN  /\ stage = "configure" => plugins \in orders /\ unique
      /\ stage = "failed" /\ plugins = <<>> /\ project.plugins # <<>> /\ configPath \in project.files =>
           orders = {} \/ ~unique \/ \A s \in orders : ~collectGlobalOptions(s)

(* Every import the user lists for a program, under any spelling of its    *)
(* id, is imported once and in one order.  (resolveExecutionConfig().)     *)
ImportsMerged ==
  LET user == Or(project.config, "imports", None)
  IN  config # None =>
        /\ \A k \in DOMAIN user : \A i \in DOMAIN user[k] :
             normalizeRuntimeImportRef(user[k][i]) \in ToSet(config.imports[normalizeProgramId(k)])
        /\ \A k \in DOMAIN config.imports : \A i, j \in DOMAIN config.imports[k] :
             i < j => rank[config.imports[k][i]] < rank[config.imports[k][j]]

(* What the user wrote, on the command line or in the configuration, is    *)
(* refused or takes effect, but for an option that is to have a value and  *)
(* has none.                                                               *)
InputHonoured == TaskNamedIsFound /\ NothingDropped /\ BackendHonoured /\ ImportsMerged

(* A worker of the test task runs with the parent's configuration file and *)
(* resolves the network, the backend and the proving mode the parent does, *)
(* whatever the process started with in its environment.                   *)
WorkersAgree ==
  stage = "tested" =>
    worker = [config |-> config, file |-> configPath,
              backend |-> resolveDeployBackendOption(globalOptions, config,
                                                     config.defaultNetwork, env),
              prove |-> resolveProveOption(globalOptions, env)]

-----------------------------------------------------------------------------
(* What the theorems suppose of the projects                               *)

(* No private key is in a variable a worker is started with.               *)
VariablesApart ==
  \A c \in Commands :
    \A order \in resolvePluginOrder(c[2].table, c[2].plugins) :
      LET hooks == [i \in DOMAIN order |-> c[2].table[order[i]].hooks]
          networks == Or(extendUserConfig(c[2].config, hooks), "networks", None)
      IN  \A n \in DOMAIN networks :
            "privateKey" \in DOMAIN networks[n] =>
              networks[n].privateKey.name \notin
                {"LIONDEN_CONFIG_PATH", "LIONDEN_NETWORK", "LIONDEN_DEPLOY_BACKEND", "LIONDEN_PROVE"}

(* A plugin that lists imports lists them in order, for programs the user  *)
(* lists none for: its list would replace the user's (mergePartial).       *)
PluginImportsApart ==
  \A c \in Commands : \A p \in DOMAIN c[2].table :
    LET hooks == c[2].table[p].hooks
        added == Or(Or(hooks, "partial", None), "imports", None)
    IN  /\ "imports" \notin DOMAIN Or(hooks, "extend", None)
        /\ \A k \in DOMAIN added :
             /\ \A i, j \in DOMAIN added[k] : i < j => rank[added[k][i]] < rank[added[k][j]]
             /\ \A u \in DOMAIN Or(c[2].config, "imports", None) : normalizeProgramId(u) # k

=============================================================================
