---------------------------- MODULE CommandLine ----------------------------
(***************************************************************************)
(* The command line: how the tokens the user types are split between the   *)
(* task, its arguments and the global options (cli/src/task-dispatch.ts),  *)
(* and how the arguments of a task are prepared for its action             *)
(* (core/src/task-runner.ts).                                              *)
(*                                                                         *)
(* A token is a word or an option, an option with one dash or two (long),  *)
(* with or without "=value".  Only sawDeployBackendFlag() tells the dashes *)
(* apart.                                                                  *)
(* A value is the words it holds and their JavaScript type, a set of       *)
(* arguments a function from names to values.  The bare words after the    *)
(* task (taskArgs._positional) are kept beside the named arguments.        *)
(***************************************************************************)
EXTENDS Objects, Naturals, Sequences, SequencesExt, FiniteSets

CONSTANTS
  kebab,      \* kebab[n]: the kebab-case spelling of the camelCase names
  Numerals    \* the words Number() accepts

ASSUME KebabAssumption ==
  "deployBackend" \in DOMAIN kebab /\ kebab["deployBackend"] = "deploy-backend"

NoValue == "(none)"
Word(w) == [option |-> FALSE, long |-> FALSE, name |-> w, inline |-> NoValue]
OptionIs(n, v) == [option |-> TRUE, long |-> TRUE, name |-> n, inline |-> v]
Option(n) == OptionIs(n, NoValue)
Short(option) == [option EXCEPT !.long = FALSE]

Text(w) == [is |-> "string", words |-> <<w>>]
Number(w) == [is |-> "number", words |-> <<w>>]
Bool(b) == [is |-> "boolean", words |-> <<IF b THEN "true" ELSE "false">>]
List(ws) == [is |-> "array", words |-> ws]

-----------------------------------------------------------------------------
(* Names                                                                   *)

camelToKebab(name) == IF name \in DOMAIN kebab THEN kebab[name] ELSE name

getPublicArgumentNames(name) == {name, camelToKebab(name)}

BUILT_IN_GLOBAL_ARGUMENTS ==
  [config |-> "FILE", network |-> "STRING", prove |-> "BOOLEAN", verbose |-> "BOOLEAN",
   help |-> "BOOLEAN", version |-> "BOOLEAN"]

BUILT_IN_GLOBAL_ARGUMENT_ALIASES == [h |-> "help", v |-> "version"]

getReservedBuiltInGlobalArgumentNames ==
  DOMAIN BUILT_IN_GLOBAL_ARGUMENTS \cup DOMAIN BUILT_IN_GLOBAL_ARGUMENT_ALIASES

PublicNames(names) == UNION {getPublicArgumentNames(n) : n \in names}
NamesOf(args) == {a.name : a \in args}

(* TaskBuilder: what addOption(), addFlag() and addPositionalArgument()    *)
(* accept.  No spelling is taken twice, none of an option or a flag is the *)
(* one of a built-in, and an option is never boolean.                      *)
Apart(m, n) == getPublicArgumentNames(m) \cap getPublicArgumentNames(n) = {}

Buildable(def) ==
  LET names == [option |-> NamesOf(def.options), flag |-> def.flags,
                positional |-> NamesOf(ToSet(def.positionals))]
      Spellings(kind) == PublicNames(names[kind])
  IN  /\ \A o \in def.options : o.type # "boolean"
      /\ \A kind \in {"option", "flag"} :
           Spellings(kind) \cap getReservedBuiltInGlobalArgumentNames = {}
      /\ \A j, k \in DOMAIN names : j # k => Spellings(j) \cap Spellings(k) = {}
      /\ \A o, q \in def.options : o # q => Apart(o.name, q.name)
      /\ \A m, n \in def.flags : m # n => Apart(m, n)
      /\ \A j, k \in DOMAIN def.positionals :
           j # k => Apart(def.positionals[j].name, def.positionals[k].name)

-----------------------------------------------------------------------------
(* Lookups: a spelling to the argument it stands for                       *)

(* A plugin's option never shares a spelling with a built-in one           *)
(* (collectGlobalOptions), so which of the two is set last is of no        *)
(* consequence.                                                            *)
buildGlobalArgumentLookup(globals) ==
  LET builtIn(n) == [name |-> n, type |-> BUILT_IN_GLOBAL_ARGUMENTS[n], builtIn |-> TRUE]
      plugin(p) == CHOOSE g \in globals : p \in getPublicArgumentNames(g.name)
  IN  Over([p \in PublicNames(NamesOf(globals)) |->
              [name |-> plugin(p).name, type |-> plugin(p).type, builtIn |-> FALSE]],
           Over([n \in DOMAIN BUILT_IN_GLOBAL_ARGUMENTS |-> builtIn(n)],
                [a \in DOMAIN BUILT_IN_GLOBAL_ARGUMENT_ALIASES |->
                   builtIn(BUILT_IN_GLOBAL_ARGUMENT_ALIASES[a])]))

(* Options are set after flags; a positional takes only free spellings.    *)
buildTaskArgumentLookup(def) ==
  LET Owner(p, names) == CHOOSE n \in names : p \in getPublicArgumentNames(n)
      Entries(names, Type(_)) == [p \in PublicNames(names) |->
        [name |-> Owner(p, names), type |-> Type(Owner(p, names))]]
      typeOf(n) == (CHOOSE o \in def.options : o.name = n).type
      string(n) == "string"
      boolean(n) == "boolean"
  IN  Over(Entries(NamesOf(def.options), typeOf),
           Over(Entries(def.flags, boolean), Entries(NamesOf(ToSet(def.positionals)), string)))

-----------------------------------------------------------------------------
(* Which token is the task                                                 *)

hasTaskTokenAfter(argv, from, tasks) ==
  \E j \in from + 1 .. Len(argv) : ~argv[j].option /\ argv[j].name \in DOMAIN tasks

canConsumeAsValue(argv, i, tasks, allowTaskIdValue) ==
  /\ i <= Len(argv)
  /\ ~argv[i].option
  /\ allowTaskIdValue \/ argv[i].name \notin DOMAIN tasks

NoTask == [id |-> NoValue, index |-> 0]

(* The scan of findTask: "next" is the token it looks at next, "task" the  *)
(* registered task it stopped at, "unclaimed" the first word it passed.    *)
ScanBegin == [next |-> 1, task |-> NoTask, unclaimed |-> NoTask]

ScanToken(argv, lookup, tasks, acc, i) ==
  LET t == argv[i]
      valued == t.name \in DOMAIN lookup => lookup[t.name].type # "BOOLEAN"
      here == [id |-> t.name, index |-> i]
  IN  IF i < acc.next \/ acc.task # NoTask THEN acc
      ELSE IF t.option THEN [acc EXCEPT !.next =
             IF /\ t.inline = NoValue /\ valued
                /\ canConsumeAsValue(argv, i + 1, tasks, hasTaskTokenAfter(argv, i + 1, tasks))
               THEN i + 2 ELSE i + 1]
      ELSE IF t.name \in DOMAIN tasks THEN [acc EXCEPT !.task = here]
      ELSE IF acc.unclaimed = NoTask THEN [acc EXCEPT !.unclaimed = here]
      ELSE acc

findTask(argv, globals, tasks) ==
  LET lookup == buildGlobalArgumentLookup(globals)
      Scanned[i \in 0 .. Len(argv)] ==
        IF i = 0 THEN ScanBegin ELSE ScanToken(argv, lookup, tasks, Scanned[i - 1], i)
      end == Scanned[Len(argv)]
  IN  IF end.task # NoTask THEN end.task ELSE end.unclaimed

-----------------------------------------------------------------------------
(* Where each token goes                                                   *)

NoTasks == [t \in {} |-> t]        \* getTaskDefinition is not given
NoArgs == [n \in {} |-> Bool(TRUE)]

coerceFlagValue(inline) == inline # "false"

canConsumeNextAsValue(argv, i, taskIndex) ==
  i + 1 # taskIndex /\ canConsumeAsValue(argv, i + 1, NoTasks, FALSE)

(* What an option records: a boolean its flag value, a valued one its      *)
(* value, or nothing when it has none; one nobody declared its value or    *)
(* the boolean true.                                                       *)
Recorded(t, boolean, declared, next) ==
  CASE boolean -> {Bool(coerceFlagValue(t.inline))}
    [] ~boolean /\ t.inline # NoValue -> {Text(t.inline)}
    [] ~boolean /\ t.inline = NoValue /\ next # {} -> {Text(w) : w \in next}
    [] OTHER -> IF declared THEN {} ELSE {Bool(TRUE)}

Put(args, name, values) ==
  IF values = {} THEN args ELSE Over(Field(name, CHOOSE v \in values : TRUE), args)

(* What a parse knows before it looks at a token: the task, and what the   *)
(* names of options stand for.                                             *)
Lookups(argv, globals, tasks) ==
  LET task == findTask(argv, globals, tasks)
  IN  [task |-> task, global |-> buildGlobalArgumentLookup(globals),
       schema |-> IF task.id \in DOMAIN tasks THEN buildTaskArgumentLookup(tasks[task.id]) ELSE NoArgs]

(* An option the task declares is the task's, unless it is built in.       *)
ForTask(known, name) ==
  /\ name \in DOMAIN known.schema
  /\ ~(name \in DOMAIN known.global /\ known.global[name].builtIn)

ForGlobal(known, name) == ~ForTask(known, name) /\ name \in DOMAIN known.global

Boolean(known, name) ==
  \/ ForTask(known, name) /\ known.schema[name].type = "boolean"
  \/ ForGlobal(known, name) /\ known.global[name].type = "BOOLEAN"

(* The name under which the value of an option is kept.                    *)
KeptAs(known, name) ==
  CASE ForTask(known, name) -> known.schema[name].name
    [] ForGlobal(known, name) -> known.global[name].name
    [] OTHER -> name

(* The word an option without "=value" can take.                           *)
NextValue(argv, known, i) ==
  IF argv[i].inline = NoValue /\ canConsumeNextAsValue(argv, i, known.task.index)
    THEN {argv[i + 1].name} ELSE {}

ParseBegin(task) ==
  [taskId |-> task.id, taskArgs |-> NoArgs, positional |-> <<>>, preTaskArgs |-> <<>>,
   globalArgs |-> NoArgs, next |-> 1]

ParseToken(argv, known, p, i) ==
  LET t == argv[i]
      next == NextValue(argv, known, i)
      boolean == Boolean(known, t.name)
      values == Recorded(t, boolean, ForTask(known, t.name) \/ ForGlobal(known, t.name), next)
      rest == [p EXCEPT !.next = IF boolean \/ next = {} THEN i + 1 ELSE i + 2]
  IN  CASE i < p.next \/ i = known.task.index -> p
        [] i >= p.next /\ i # known.task.index /\ t.option ->
             IF ForGlobal(known, t.name)
               THEN [rest EXCEPT !.globalArgs = Put(@, KeptAs(known, t.name), values)]
               ELSE [rest EXCEPT !.taskArgs = Put(@, KeptAs(known, t.name), values)]
        [] OTHER -> IF known.task = NoTask THEN p
                    ELSE IF i > known.task.index THEN [p EXCEPT !.positional = Append(@, t.name)]
                    ELSE [p EXCEPT !.preTaskArgs = Append(@, t.name)]

parseArgs(argv, globals, tasks) ==
  LET known == Lookups(argv, globals, tasks)
      Parsed[i \in 0 .. Len(argv)] ==
        IF i = 0 THEN ParseBegin(known.task) ELSE ParseToken(argv, known, Parsed[i - 1], i)
  IN  Parsed[Len(argv)]

-----------------------------------------------------------------------------
(* What is refused before the task runs                                    *)

Supplied(parsed, name) == getPublicArgumentNames(name) \cap DOMAIN parsed.taskArgs # {}

TooManyWords_NamedCount(def, parsed) ==
  LET variadic == def.positionals # <<>> /\ Last(def.positionals).variadic
  IN  ~variadic /\ Len(parsed.positional) > Len(def.positionals)

(* Positionals supplied by name take no bare word; a variadic one, which   *)
(* is declared last, lifts the limit.                                      *)
TooManyWords(def, parsed) ==
  LET slots == Cardinality({k \in DOMAIN def.positionals :
                              ~Supplied(parsed, def.positionals[k].name)})
      variadic == def.positionals # <<>> /\ Last(def.positionals).variadic
  IN  ~variadic /\ Len(parsed.positional) > slots

validateParsedArgs(tasks, parsed) ==
  IF parsed.taskId = NoValue THEN parsed.taskArgs = NoArgs
  ELSE /\ parsed.taskId \in DOMAIN tasks
       /\ parsed.preTaskArgs = <<>>
       /\ ~TooManyWords(tasks[parsed.taskId], parsed)
       /\ DOMAIN parsed.taskArgs \subseteq DOMAIN buildTaskArgumentLookup(tasks[parsed.taskId])

validateTaskGlobalOptionCollisions(tasks, globals) ==
  LET taken == getReservedBuiltInGlobalArgumentNames \cup PublicNames(NamesOf(globals))
  IN  \A id \in DOMAIN tasks :
        PublicNames(NamesOf(tasks[id].options) \cup tasks[id].flags) \cap taken = {}

(* --deploy-backend is checked on the raw tokens: the parse records        *)
(* nothing for an option without a value.  The check looks for two dashes, *)
(* one is enough for the parse.                                            *)
sawDeployBackendFlag(argv) ==
  \E i \in DOMAIN argv :
    argv[i].option /\ argv[i].long /\ argv[i].name \in {"deployBackend", "deploy-backend"}

assertDeployBackendArg(argv, parsed, providers) ==
  sawDeployBackendFlag(argv) =>
    /\ "deployBackend" \in DOMAIN parsed.globalArgs
    /\ parsed.globalArgs["deployBackend"] \in {Text(p) : p \in providers}

-----------------------------------------------------------------------------
(* The arguments an action receives                                        *)

(* Flags are entered after options; a positional takes only free names.    *)
normalizeArgs(def, args) ==
  LET numbers == {o.name : o \in {p \in def.options : p.type = "number"}}
      declared == NamesOf(def.options) \cup def.flags \cup NamesOf(ToSet(def.positionals))
      Canonical(key) == IF key \in PublicNames(declared)
                          THEN CHOOSE n \in declared : key \in getPublicArgumentNames(n) ELSE key
      Coerced(n, v) == IF n \in numbers /\ v.is = "string" /\ v.words[1] \in Numerals
                         THEN Number(v.words[1]) ELSE v
  IN  [n \in {Canonical(key) : key \in DOMAIN args} |->
         Coerced(n, args[CHOOSE key \in DOMAIN args : Canonical(key) = n])]

mergeDefaults(def, args) ==
  LET defaulted == {o \in def.options : o.default # NoValue}
  IN  Over(args, Over([n \in NamesOf(defaulted) |->
                         Text((CHOOSE o \in defaulted : o.name = n).default)],
                      [f \in def.flags |-> Bool(FALSE)]))

enforceRequiredOptions(def, args) ==
  \A o \in def.options : o.required => o.name \in DOMAIN args

(* Bare words fill the positionals that have no value yet, from the left;  *)
(* a variadic one takes all that are left.                                 *)
Bind(acc, p) ==
  IF p.name \in DOMAIN acc.args \/ acc.words = <<>> THEN acc
  ELSE IF p.variadic
    THEN [args |-> Over(Field(p.name, List(acc.words)), acc.args), words |-> <<>>]
    ELSE [args |-> Over(Field(p.name, Text(Head(acc.words))), acc.args), words |-> Tail(acc.words)]

applyPositionalArguments(def, args, words) ==
  LET Bound[k \in 0 .. Len(def.positionals)] ==
        IF k = 0 THEN [args |-> args, words |-> words] ELSE Bind(Bound[k - 1], def.positionals[k])
  IN  Bound[Len(def.positionals)].args

(* The error of a missing required argument is {}.                         *)
prepareArgs(def, args, words) ==
  LET merged == mergeDefaults(def, normalizeArgs(def, args))
      bound == applyPositionalArguments(def, merged, words)
  IN  IF /\ enforceRequiredOptions(def, merged)
         /\ \A k \in DOMAIN def.positionals :
              def.positionals[k].required => def.positionals[k].name \in DOMAIN bound
      THEN {bound} ELSE {}

=============================================================================
