----------------------------- MODULE DepthFirst -----------------------------
(***************************************************************************)
(* The depth-first walk that puts what a node depends on before the node:  *)
(* resolveDependencies() of the compiler (leo-compiler/src/                *)
(* dependency-resolver.ts) walks over units, resolvePluginOrder()          *)
(* (core/src/plugin-loader.ts) over plugins.  graph[f] is what f depends   *)
(* on, in order.                                                           *)
(***************************************************************************)
EXTENDS Naturals, Sequences, SequencesExt

(* What a walk has before it and behind it: the nodes it comes to next,    *)
(* those it is inside of, and the order so far.                            *)
Walks(nodes) ==
  [todo : Seq(nodes), stack : SUBSET nodes, ok : BOOLEAN, order : Seq(nodes)]

(* A walk that appends a node before its dependencies.                     *)
Visited_Preorder(fs, graph, start) ==
  LET Visit[w \in Walks(DOMAIN graph)] ==
        IF w.todo = <<>> \/ ~w.ok THEN w
        ELSE LET f == Head(w.todo)
                 rest == [w EXCEPT !.todo = Tail(@)]
                 inner == Visit[[todo |-> graph[f], stack |-> w.stack \cup {f}, ok |-> TRUE,
                                 order |-> Append(w.order, f)]]
             IN  Visit[IF f \in w.stack THEN [rest EXCEPT !.ok = FALSE]
                       ELSE IF f \in ToSet(w.order) THEN rest
                       ELSE [rest EXCEPT !.ok = inner.ok, !.order = inner.order]]
  IN  Visit[[todo |-> fs, stack |-> {}, ok |-> start, order |-> <<>>]]

(* The depth-first walk.  The nodes of fs are visited in turn; a node on   *)
(* the stack that is met again is a cycle.                                 *)
Visited(fs, graph, start) ==
  LET Visit[w \in Walks(DOMAIN graph)] ==
        IF w.todo = <<>> \/ ~w.ok THEN w
        ELSE LET f == Head(w.todo)
                 rest == [w EXCEPT !.todo = Tail(@)]
                 inner == Visit[[w EXCEPT !.todo = graph[f], !.stack = @ \cup {f}]]
             IN  Visit[IF f \in ToSet(w.order) THEN rest
                       ELSE IF f \in w.stack \/ ~inner.ok THEN [rest EXCEPT !.ok = FALSE]
                       ELSE [rest EXCEPT !.order = Append(inner.order, f)]]
  IN  Visit[[todo |-> fs, stack |-> {}, ok |-> start, order |-> <<>>]]

(* What the nodes of S need, these included: the least set that has        *)
(* them and what each of its members depends on.                           *)
Needs(deps, S) ==
  {g \in DOMAIN deps :
     \A T \in SUBSET DOMAIN deps : S \subseteq T /\ (\A h \in T : deps[h] \subseteq T) => g \in T}

(* Each of S once, after everything it depends on.                         *)
Ordered(deps, s, S) ==
  /\ s \in Seq(S) /\ ToSet(s) = S /\ IsInjective(s)
  /\ \A i \in DOMAIN s : deps[s[i]] \subseteq {s[j] : j \in 1 .. i - 1}

=============================================================================
