--------------------------- MODULE MCDeployTasks ----------------------------
(* Instances of DeployTasks for TLC: app imports lib, lib imports ext,      *)
(* which other people deploy; an instance may have only some of them.       *)
EXTENDS DeployProperties

MCImports ==
  [p \in Programs |->
     Programs \cap (CASE p = "app" -> {"lib"} [] p = "lib" -> {"ext"} [] OTHER -> {})]

MCOrder == <<"lib", "app">>
MCOrderLib == <<"lib">>

=============================================================================
