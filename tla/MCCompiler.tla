----------------------------- MODULE MCCompiler -----------------------------
(* Projects for the compiler.                                              *)
EXTENDS ExecutionArtifacts, DeployBackends

(* A program, the program it imports, a library, and a program whose       *)
(* module has the name of another.                                         *)
MCFolderName == [app |-> "app", token |-> "token", math |-> "math", ap_p |-> "ap_p",
                 copy |-> "token", credits |-> "credits"]
MCKind == [f \in DOMAIN MCFolderName |-> IF f = "math" THEN "library" ELSE "program"]
MCAleo == [app |-> "app.aleo", token |-> "token.aleo", math |-> "math.aleo", ap_p |-> "ap_p.aleo",
           credits |-> "credits.aleo"]

MCImportsOf ==
  ("none" :> <<>>) @@ ("app" :> <<"app.aleo">>) @@ ("token" :> <<"token.aleo">>)
  @@ ("math" :> <<"math">>) @@ ("app, token" :> <<"app.aleo", "token.aleo">>)
  @@ ("math, token" :> <<"math.aleo", "token.aleo">>) @@ ("math, credits" :> <<"math.aleo", "credits.aleo">>)
  @@ ("changed" :> <<>>) @@ ("broken" :> <<>>)
  @@ [s \in {"credits d1", "credits d2", "credits t1", "pinned"} |-> <<>>]

MCTexts == [f \in DOMAIN MCFolderName |->
  IF f = "math" THEN {"none", "changed"} ELSE {}]

Project(fs, text) == [dirs |-> fs, text |-> [f \in ToSet(fs) |-> text[f]], spent |-> 0]
Initially == [f \in DOMAIN MCFolderName |->
  CASE f = "app" -> "token" [] f = "token" -> "math, credits" [] OTHER -> "none"]

(* Graphs are only looked at: nothing is spent on compiling them.          *)
Graphs == {[dirs |-> fs, text |-> text, spent |-> 9] :
             fs \in {<<"app", "math", "token">>, <<"token", "math", "app">>},
             text \in [{"app", "math", "token"} ->
                        {"none", "app", "token", "math", "app, token", "math, token"}]}

MCLayouts == Graphs \cup
  {Project(<<"app", "math", "token">>, Initially),
   Project(<<"app", "ap_p">>, [Initially EXCEPT !.app = "none", !.ap_p = "changed"]),
   [Project(<<"copy", "token">>, [Initially EXCEPT !.token = "none"]) EXCEPT !.spent = 9],
   [Project(<<"app", "math">>, [Initially EXCEPT !.app = "broken"]) EXCEPT !.spent = 9],
   [Project(<<"credits">>, Initially) EXCEPT !.spent = 9]}

MCModuleStem == [id \in {MCAleo[n] : n \in DOMAIN MCAleo} |->
  IF id \in {"app.aleo", "ap_p.aleo"} THEN "app" ELSE id] @@ ("base_contract.aleo" :> "basecontract")

Request(p, r, n, f, t) == [program |-> p, rename |-> r, network |-> n, force |-> f, typechain |-> t]
MCRequests ==
  {Request("all", "none", "devnode", FALSE, TRUE), Request("all", "none", "devnode", TRUE, FALSE),
   Request("token", "none", "testnet", FALSE, FALSE), Request("ap_p", "none", "devnode", FALSE, TRUE)}
MCRenameRequests ==
  {Request(p, "mytoken.aleo", "devnode", FALSE, FALSE) : p \in {"app", "ap_p"}}

(* The ids of the project, and mytoken.aleo, which contains one of them.   *)
MCSubstrings == [id \in {MCAleo[n] : n \in DOMAIN MCAleo} \cup {"mytoken.aleo"} |->
  IF id = "mytoken.aleo" THEN {id, "token.aleo"} ELSE {id}]

Deploy(p, op, provider, conn, prove, dryRun, role, key) ==
  [program |-> p, operation |-> op, provider |-> provider, connection |-> conn, prove |-> prove,
   dryRun |-> dryRun, signerPrivateKey |-> role, privateKey |-> key, apiKey |-> FALSE,
   sdkEgress |-> FALSE,
   localDependencyIds |-> IF p = "token.aleo" THEN {} ELSE {"token.aleo"}]
MCDeploys ==
  {Deploy("app.aleo", "deploy", "leo", "http", FALSE, FALSE, "deployer", "network"),
   Deploy("app.aleo", "deploy", "leo", "devnode", FALSE, FALSE, "none", "none"),
   Deploy("mytoken.aleo", "deploy", "leo", "devnode", TRUE, FALSE, "none", "network"),
   Deploy("token.aleo", "upgrade", "sdk", "http", FALSE, FALSE, "none", "network"),
   Deploy("token.aleo", "deploy", "sdk", "http", FALSE, TRUE, "none", "network"),
   [Deploy("app.aleo", "deploy", "leo", "http", FALSE, FALSE, "none", "network")
      EXCEPT !.apiKey = TRUE]}

Id(id) == [id |-> id, source |-> {}]
Path(id, t) == [id |-> id, source |-> {t}]
MCSeeds == {<<>>, <<Path("token.aleo", "pinned")>>, <<Id("token.aleo"), Path("credits.aleo", "pinned")>>,
            <<Path("credits.aleo", "pinned"), Id("token.aleo")>>, <<Id("ap_p.aleo")>>}

MCOnChain == [devnode |-> {"credits d1", "credits d2"}, testnet |-> {"credits t1"}]
=============================================================================
