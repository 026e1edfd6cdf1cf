-------------------------- MODULE ConfigResolution --------------------------
(***************************************************************************)
(* From the user's configuration to the resolved one                       *)
(* (core/src/config-resolution.ts), and the choices an invocation makes on *)
(* top of it: backend and proving (plugin-deploy/src/deploy-backend/       *)
(* select.ts, prove.ts).                                                   *)
(*                                                                         *)
(* A user configuration is a function from the fields that are set to      *)
(* their values.  An error is the empty set, a value its singleton.  The   *)
(* fields that are only "what the user wrote, or a default" are left out.  *)
(***************************************************************************)
EXTENDS Objects, Naturals, Sequences, SequencesExt, FiniteSets

CONSTANTS
  aleoSuffixed,   \* aleoSuffixed[n]: the id "n.aleo" of a bare program name n
  refKind,        \* refKind[r]: what classifyRuntimeImportRef says of a reference
  rank            \* rank[r]: place of a resolved reference in string order

ASSUME ConfigAssumption ==
  /\ \A n \in DOMAIN aleoSuffixed : aleoSuffixed[n] \notin DOMAIN aleoSuffixed
  /\ \A r \in DOMAIN refKind : refKind[r] \in {"programId", "path", "invalid"}
  /\ \A r \in DOMAIN rank : rank[r] \in Nat
  /\ \A m, n \in DOMAIN rank : rank[m] = rank[n] => m = n

-----------------------------------------------------------------------------
(* Networks                                                                *)

(* A variable is what the environment says, then its default.              *)
resolveConfigVariable(v, env) ==
  IF v.name \in DOMAIN env THEN {env[v.name]} ELSE {v[f] : f \in DOMAIN v \cap {"default"}}

(* The network's own choice, then the project's, then what the type calls  *)
(* for; the backend stays unset unless the user set it.                    *)
resolveNetworkConfig(net, config, env) ==
  LET keys == IF "privateKey" \in DOMAIN net THEN resolveConfigVariable(net.privateKey, env)
              ELSE {"none"}
  IN  IF net.type \notin {"devnode", "http"} THEN {}
      ELSE {Over([type |-> net.type, privateKey |-> k,
                  ephemeral |-> Or(net, "ephemeral", Or(config, "ephemeral", net.type = "devnode"))],
                 Only(net, {"deployBackend"})) : k \in keys}

(* A devnode is provided when no network is given.                         *)
resolveNetworks(config, env) ==
  LET given == Or(config, "networks", None)
      nets == IF given = None THEN Field("devnode", [type |-> "devnode"]) ELSE given
      resolved == [n \in DOMAIN nets |-> resolveNetworkConfig(nets[n], config, env)]
  IN  IF \E n \in DOMAIN nets : resolved[n] = {} THEN {}
      ELSE {[n \in DOMAIN nets |-> CHOOSE r \in resolved[n] : TRUE]}

-----------------------------------------------------------------------------
(* Runtime imports                                                         *)

normalizeProgramId(raw) == IF raw \in DOMAIN aleoSuffixed THEN aleoSuffixed[raw] ELSE raw

(* A path is anchored at the project root, which changes no two of them.   *)
normalizeRuntimeImportRef(raw) ==
  IF refKind[raw] = "programId" THEN normalizeProgramId(raw) ELSE raw

dedupAndSortRuntimeImports(refs) ==
  CHOOSE s \in [1 .. Cardinality(refs) -> refs] :
    \A i, j \in DOMAIN s : i < j => rank[s[i]] < rank[s[j]]

(* Keys that are one program id when normalised share one list; references *)
(* that are neither an id nor a path are dropped.                          *)
resolveExecutionConfig(imports) ==
  LET keys == {normalizeProgramId(k) : k \in DOMAIN imports}
      Refs(k) == {normalizeRuntimeImportRef(r) : r \in {q \in ToSet(imports[k]) : refKind[q] # "invalid"}}
      Of(key) == {k \in DOMAIN imports : normalizeProgramId(k) = key}
  IN  [key \in keys |-> dedupAndSortRuntimeImports(UNION {Refs(k) : k \in Of(key)})]

validateExecutionUserConfig(imports) ==
  \A k \in DOMAIN imports :
    imports[k] # <<>> /\ \A i \in DOMAIN imports[k] : refKind[imports[k][i]] # "invalid"

validateExecutionResolvedConfig(imports, files) ==
  \A k \in DOMAIN imports : \A i \in DOMAIN imports[k] :
    imports[k][i] \in DOMAIN refKind /\ refKind[imports[k][i]] = "path" => imports[k][i] \in files

-----------------------------------------------------------------------------
(* The SDK's key cache                                                     *)

resolveSdkConfig(config) ==
  LET cache == Or(config, "keyCache", None)
  IN  IF Or(cache, "storage", "filesystem") = "memory" THEN [storage |-> "memory"]
      ELSE [storage |-> "filesystem", path |-> Or(cache, "path", "artifacts/.cache/provable-keys")]

mergeSdkConfig(base, partial) ==
  LET merged == Over(partial, base)
  IN  IF merged.storage = "memory" THEN [storage |-> "memory"] ELSE merged

-----------------------------------------------------------------------------
(* The four stages of resolveConfig                                        *)

buildDefaults(config, env) ==
  {[networks |-> nets, keyCache |-> resolveSdkConfig(config),
    imports |-> resolveExecutionConfig(Or(config, "imports", None)),
    defaultNetwork |-> Or(config, "defaultNetwork", "devnode"),
    backend |-> Or(config, "backend", "sdk")]
   : nets \in resolveNetworks(config, env)}

(* Every section of a plugin's partial configuration is spread over the    *)
(* section of the base; a field that is no section replaces the base's.    *)
mergePartial(base, partial) ==
  [networks |-> Over(Or(partial, "networks", None), base.networks),
   keyCache |-> mergeSdkConfig(base.keyCache, Or(partial, "keyCache", None)),
   imports |-> Over(Or(partial, "imports", None), base.imports),
   defaultNetwork |-> Or(partial, "defaultNetwork", base.defaultNetwork),
   backend |-> Or(partial, "backend", base.backend)]

Providers == {"sdk", "leo"}

(* What plugin-network and plugin-deploy refuse in a resolved config.      *)
validateResolvedConfig(resolved) ==
  /\ resolved.defaultNetwork \in DOMAIN resolved.networks
  /\ resolved.backend \in Providers
  /\ \A n \in DOMAIN resolved.networks :
       Or(resolved.networks[n], "deployBackend", "sdk") \in Providers

(* "hooks" are the config hooks of the plugins, in plugin order: what each *)
(* adds to the user configuration and its partial resolved one.            *)
extendUserConfig(config, hooks) ==
  LET Extended[i \in 0 .. Len(hooks)] ==
        IF i = 0 THEN config ELSE Over(Or(hooks[i], "extend", None), Extended[i - 1])
  IN  Extended[Len(hooks)]

mergePartials(base, hooks) ==
  LET Merged[i \in 0 .. Len(hooks)] ==
        IF i = 0 THEN base ELSE mergePartial(Merged[i - 1], Or(hooks[i], "partial", None))
  IN  Merged[Len(hooks)]

resolveConfig(config, hooks, env, files) ==
  LET extended == extendUserConfig(config, hooks)
  IN  IF ~validateExecutionUserConfig(Or(extended, "imports", None)) THEN {}
      ELSE {r \in {mergePartials(base, hooks) : base \in buildDefaults(extended, env)} :
              /\ validateExecutionResolvedConfig(r.imports, files)
              /\ validateResolvedConfig(r)}

-----------------------------------------------------------------------------
(* What an invocation chooses                                              *)

(* A layer that is unset falls through, any other value must be a provider:*)
(* {} is the error.  Only for the environment does empty mean unset.       *)
resolveDeployBackendFromEnvAndConfig(config, network, env) ==
  LET variable == Or(env, "LIONDEN_DEPLOY_BACKEND", "")
      perNetwork == Or(Or(config.networks, network, None), "deployBackend", config.backend)
  IN  {IF variable # "" THEN variable ELSE perNetwork} \cap Providers

resolveDeployBackendOption(globalOptions, config, network, env) ==
  IF "deployBackend" \in DOMAIN globalOptions
    THEN {globalOptions["deployBackend"]} \cap Providers
    ELSE resolveDeployBackendFromEnvAndConfig(config, network, env)

(* The words parseBooleanEnv knows; anything else is the default, false.   *)
parseBooleanEnv(env, name) == Or(env, name, "") \in {"true", "1", "yes", "on"}

resolveProveOption(globalOptions, env) ==
  IF "prove" \in DOMAIN globalOptions THEN globalOptions["prove"]
  ELSE parseBooleanEnv(env, "LIONDEN_PROVE")

=============================================================================
