----------------------------- MODULE MCStartup -----------------------------
EXTENDS Startup, TLC

MCKebab == [noCompile |-> "no-compile", dryRun |-> "dry-run", deployBackend |-> "deploy-backend"]

None0 == [n \in {} |-> n]
Opt(n, t, req, d) == [name |-> n, type |-> t, required |-> req, default |-> d]
Pos(n, req, var) == [name |-> n, required |-> req, variadic |-> var]
Definition(flags, options, positionals) ==
  [flags |-> flags, options |-> options, positionals |-> positionals]
NewTask(id, def) == [id |-> id, overrides |-> FALSE, definition |-> def, action |-> id]
Override(id, action) == [id |-> id, overrides |-> TRUE, definition |-> Definition({}, {}, <<>>),
                         action |-> action]

Deploy == NewTask("deploy", Definition({"dryRun"},
            {Opt("program", "string", FALSE, NoValue), Opt("priorityFee", "number", FALSE, "0")}, <<>>))
Test == NewTask("test", Definition({"noCompile"},
          {Opt("timeout", "number", FALSE, NoValue)}, <<Pos("files", FALSE, TRUE)>>))
RunScript == NewTask("run", Definition({"noCompile"}, {}, <<Pos("script", TRUE, FALSE)>>))
Colliding == NewTask("deploy", Definition({}, {Opt("deployBackend", "string", FALSE, NoValue)}, <<>>))

Plugin(id, deps, globals, ts, hooks) ==
  [id |-> id, dependencies |-> deps, globals |-> globals, tasks |-> ts, hooks |-> hooks]
Backend(name) == {[name |-> name, type |-> "STRING", default |-> NoValue]}

BuiltIn ==
  [network |-> Plugin("network", <<>>, {}, <<RunScript>>, None0),
   deploy |-> Plugin("deploy", <<"network">>, Backend("deployBackend"), <<Deploy>>, None0),
   test |-> Plugin("test", <<"network">>, {}, <<Test>>, None0)]

UserConfig ==
  [defaultNetwork |-> "local", backend |-> "sdk",
   networks |-> [local |-> [type |-> "devnode"],
                 main |-> [type |-> "http", deployBackend |-> "leo",
                           privateKey |-> [name |-> "KEY", default |-> "dev"]]]]

Project(table, list, tasks0, config0) ==
  [found |-> "lionden.config.ts", files |-> {"lionden.config.ts", "other.ts", "./lib.aleo"},
   plugins |-> list, table |-> table, tasks |-> tasks0, config |-> config0]

Standard == Project(BuiltIn, <<"deploy", "test">>,
                    <<Override("deploy", "deploy 2"), Override("deploy", "deploy 3")>>, UserConfig)

-----------------------------------------------------------------------------
(* Every command of up to two tokens, and longer ones over the tokens that *)
(* compete for a value.                                                    *)
Competing == {Word("deploy"), Word("test"), Word("main"), Option("network"), Option("program"),
              Option("dry-run"), Option("deploy-backend"), Option("files")}
Tokens == Competing \cup
  {Word("run"), Word("leo"), Word("5"), Option("timeout"), OptionIs("deployBackend", "leo"),
   OptionIs("prove", "false"), Option("prove"), OptionIs("config", "other.ts"), Option("help"),
   Option("version"), OptionIs("network", "main"), Option("priorityFee"),
   OptionIs("script", "main"), Short(OptionIs("deployBackend", "leo")), Short(Option("h"))}

Triples == Competing \cup
  {Option("timeout"), OptionIs("deployBackend", "leo"), OptionIs("prove", "false"), Word("5"),
   Short(Option("deploy-backend"))}
Quadruples == Competing \ {Option("files"), Word("test")}
Positional == {Word("run"), Word("main"), Word("leo"), OptionIs("script", "main"), Option("script")}
Typed == {<<t, Standard>> : t \in (UNION {[1 .. n -> Tokens] : n \in 0 .. 2})
                                    \cup [1 .. 3 -> Triples] \cup [1 .. 4 -> Quadruples]
                                    \cup [1 .. 3 -> Positional]}

-----------------------------------------------------------------------------
(* One command over every plugin graph of three objects and over several   *)
(* configurations.                                                         *)
Lists(S) == {s \in UNION {[1 .. n -> S] : n \in 0 .. 2} : \A i, j \in DOMAIN s : s[i] = s[j] => i = j}
Objects == {"p", "q", "r"}
Graphs == {Project([o \in Objects |-> Plugin(ids[o], deps[o], IF o = "r" THEN Backend("deployBackend") ELSE {},
                                              IF o = "r" THEN <<Deploy>> ELSE <<>>, None0)],
                   list, <<>>, UserConfig) :
             list \in {<<"p", "q">>, <<"r", "p">>, <<"q">>},
             deps \in {f \in [Objects -> Lists(Objects)] : \A o \in Objects : Len(f[o]) < 2 \/ o = "p"},
             ids \in {[o \in Objects |-> o], [o \in Objects |-> IF o = "q" THEN "p" ELSE o]}}

Imports == {None0} \cup
  {[a |-> x, b |-> <<"c.aleo">>] : x \in {<<"b", "b.aleo">>, <<"c", "./lib.aleo", "b">>, <<>>}} \cup
  {("a" :> <<"b">>) @@ ("a.aleo" :> <<"c">>), "a" :> <<"./none.aleo">>, "a" :> <<"7x">>}
Caches == {None0, [storage |-> "memory"], [storage |-> "filesystem", path |-> "keys"]}
Partials == {None0} \cup {[partial |-> [keyCache |-> c]] : c \in Caches} \cup
  {[extend |-> [defaultNetwork |-> "ghost"]], [partial |-> [imports |-> "d.aleo" :> <<"a.aleo">>]]}

Configured ==
  {Project([BuiltIn EXCEPT !.test.hooks = h], <<"test", "deploy">>, ts,
           [imports |-> i, keyCache |-> c] @@ UserConfig) :
     h \in Partials, i \in Imports, c \in Caches, ts \in {<<>>, <<Override("test", "test 2")>>}}

Odd == {Project([BuiltIn EXCEPT !.deploy.tasks = <<Colliding>>], <<"deploy">>, <<>>, UserConfig),
        Project([BuiltIn EXCEPT !.test.globals = Backend("deploy-backend")], <<"deploy", "test">>, <<>>, UserConfig),
        Project([BuiltIn EXCEPT !.test.globals = Backend("network")], <<"test">>, <<>>, UserConfig),
        Project(BuiltIn, <<"deploy">>, <<Deploy>>, UserConfig),
        Project(BuiltIn, <<>>, <<Deploy, Deploy>>, UserConfig),
        Project(BuiltIn, <<"deploy">>, <<Override("test", "test 2")>>, UserConfig),
        [Standard EXCEPT !.found = NoValue]}

MCCommands ==
  Typed \cup {<<<<Word("deploy")>>, p>> : p \in Graphs}
  \cup {<<t, p>> : t \in {<<Word("test")>>, <<Word("test"), Option("network"), Word("main")>>},
                   p \in Configured}
  \cup {<<t, p>> : t \in {<<>>, <<Option("help")>>, <<Word("deploy"), Option("deploy-backend"), Word("leo")>>,
                             <<Word("deploy"), Short(Option("deploy-backend"))>>},
                   p \in Odd}

MCEnvs == {None0, [LIONDEN_NETWORK |-> "main", LIONDEN_DEPLOY_BACKEND |-> "leo", LIONDEN_PROVE |-> "yes"],
           [LIONDEN_DEPLOY_BACKEND |-> "", LIONDEN_PROVE |-> "off", KEY |-> "prod"]}

MCAleoSuffixed == [a |-> "a.aleo", b |-> "b.aleo", c |-> "c.aleo"]
MCRefKind == [a |-> "programId", b |-> "programId", c |-> "programId"] @@ ("7x" :> "invalid")
             @@ [r \in {"a.aleo", "b.aleo", "c.aleo"} |-> "programId"]
             @@ [r \in {"./lib.aleo", "./none.aleo"} |-> "path"]
MCRank == ("./lib.aleo" :> 1) @@ ("./none.aleo" :> 2) @@ ("a.aleo" :> 3) @@ ("b.aleo" :> 4)
          @@ ("c.aleo" :> 5)

(* The theorems about Startup are about these commands too.                *)
ASSUME MCHypotheses == VariablesApart /\ PluginImportsApart

=============================================================================
