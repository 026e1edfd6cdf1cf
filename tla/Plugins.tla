------------------------------ MODULE Plugins ------------------------------
(***************************************************************************)
(* Plugins: the order in which they are loaded (core/src/plugin-loader.ts) *)
(* and the tasks they register (core/src/task-runner.ts).                  *)
(*                                                                         *)
(* "table" gives for every plugin object its id, the objects it depends    *)
(* on, its global options and its tasks.  Two objects may have one id.     *)
(* A result that is an error is the empty set, otherwise a singleton.      *)
(***************************************************************************)
EXTENDS DepthFirst, Objects, Naturals, FiniteSets

(* The objects reachable from the list, in the order they are met: the     *)
(* list is a stack whose top is taken first, dependencies go on top.  ok   *)
(* is FALSE when two objects have one id.                                  *)
Collections(objects) == [toVisit : Seq(objects), ok : BOOLEAN, met : Seq(objects)]

Collected(table, plugins) ==
  LET Collect[w \in Collections(DOMAIN table)] ==
        IF w.toVisit = <<>> \/ ~w.ok THEN w
        ELSE LET p == Head(w.toVisit)
                 rest == [w EXCEPT !.toVisit = Tail(@)]
                 same == {q \in ToSet(w.met) : table[q].id = table[p].id}
             IN  Collect[IF same = {p} THEN rest
                         ELSE IF same # {} THEN [rest EXCEPT !.ok = FALSE]
                         ELSE [rest EXCEPT !.toVisit = Reverse(table[p].dependencies) \o @,
                                           !.met = Append(@, p)]]
  IN  Collect[[toVisit |-> plugins, ok |-> TRUE, met |-> <<>>]]

resolvePluginOrder_DeclaredOrder(table, plugins) ==
  LET all == Collected(table, plugins)
  IN  IF all.ok THEN {all.met} ELSE {}

(* Plugins in dependency-first order; {} for a duplicate id or a cycle.    *)
resolvePluginOrder(table, plugins) ==
  LET all == Collected(table, plugins)
      walk == Visited(all.met, [p \in ToSet(all.met) |-> table[p].dependencies], TRUE)
  IN  IF all.ok /\ walk.ok THEN {walk.order} ELSE {}

(* What a task definition holds when it is registered: the arguments of    *)
(* the first registration, the newest action, the older ones newest first. *)
registerTask(acc, def) ==
  LET t == CHOOSE s \in acc : TRUE
  IN  IF acc # {} /\ def.overrides /\ def.id \in DOMAIN t
        THEN {[t EXCEPT ![def.id].action = def.action,
                        ![def.id].overrideChain = <<t[def.id].action>> \o @]}
      ELSE IF acc # {} /\ ~def.overrides /\ def.id \notin DOMAIN t
        THEN {Over(Field(def.id, [definition |-> def.definition, action |-> def.action,
                                  overrideChain |-> <<>>]), t)}
      ELSE {}

registerTasks(tasks, definitions) ==
  LET Registered[i \in 0 .. Len(definitions)] ==
        IF i = 0 THEN {tasks} ELSE registerTask(Registered[i - 1], definitions[i])
  IN  Registered[Len(definitions)]

=============================================================================
