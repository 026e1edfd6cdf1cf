--------------------------- MODULE StartupProofs ---------------------------
(***************************************************************************)
(* Proofs about the start of the command line, for any commands, projects  *)
(* and environments: the order in which plugins are loaded (LoadOrder),    *)
(* what becomes of what the user wrote (InputTakesEffect) and of what the  *)
(* workers of the test task inherit (WorkersResolveAlike).                 *)
(*                                                                         *)
(* Before the state machine come the loops it is built from.  Each is a    *)
(* recursive function: that it exists, what one round does, what every     *)
(* round keeps, and what that says of the end.                             *)
(***************************************************************************)
EXTENDS Startup, WalkProofs

-----------------------------------------------------------------------------
(* The plugins that are collected                                          *)

Loadable(table, list) ==
  /\ IsFiniteSet(DOMAIN table) /\ list \in Seq(DOMAIN table)
  /\ \A p \in DOMAIN table : table[p].dependencies \in Seq(DOMAIN table)

CollectEnded(w) == w.toVisit = <<>> \/ ~w.ok

CollectNext(table, w) ==
  LET p == Head(w.toVisit)
      rest == [w EXCEPT !.toVisit = Tail(@)]
      same == {q \in ToSet(w.met) : table[q].id = table[p].id}
  IN  IF same = {p} THEN rest
      ELSE IF same # {} THEN [rest EXCEPT !.ok = FALSE]
      ELSE [rest EXCEPT !.toVisit = Reverse(table[p].dependencies) \o @, !.met = Append(@, p)]

CollectFunction(V, table) ==
  V = [w \in Collections(DOMAIN table) |-> IF CollectEnded(w) THEN w ELSE V[CollectNext(table, w)]]

(* Collected() is the end of the loop, if the loop defines a function.     *)
LEMMA CollectedIs ==
  ASSUME NEW table, NEW list, \E V : CollectFunction(V, table)
  PROVE  \E V : /\ CollectFunction(V, table)
               /\ Collected(table, list) = V[[toVisit |-> list, ok |-> TRUE, met |-> <<>>]]
<1> DEFINE W == CHOOSE V : CollectFunction(V, table)
<1>1. CollectFunction(W, table)
  OBVIOUS
<1>2. Collected(table, list) = W[[toVisit |-> list, ok |-> TRUE, met |-> <<>>]]
  BY DEF Collected, CollectFunction, CollectEnded, CollectNext
<1> QED
  BY <1>1, <1>2

LEMMA ReverseAll ==
  ASSUME NEW X, NEW s \in Seq(X)
  PROVE  Reverse(s) \in Seq(X) /\ ToSet(Reverse(s)) = ToSet(s)
<1>1. /\ Len(s) \in Nat /\ DOMAIN s = 1 .. Len(s) /\ \A i \in 1 .. Len(s) : s[i] \in X
      /\ Reverse(s) = [i \in 1 .. Len(s) |-> s[(Len(s) - i) + 1]]
  BY DEF Reverse
<1>2. \A i \in 1 .. Len(s) : (Len(s) - i) + 1 \in 1 .. Len(s) /\ (Len(s) - ((Len(s) - i) + 1)) + 1 = i
  BY <1>1
<1>3. Reverse(s) \in Seq(X)
  BY <1>1, <1>2
<1>4. \A i \in 1 .. Len(s) : Reverse(s)[(Len(s) - i) + 1] = s[i]
  BY <1>1, <1>2
<1>5. DOMAIN Reverse(s) = 1 .. Len(s)
  BY <1>1
<1>6. ToSet(Reverse(s)) \subseteq ToSet(s)
  BY <1>1, <1>2 DEF ToSet
<1>7. ToSet(s) \subseteq ToSet(Reverse(s))
  <2>1. \A i \in 1 .. Len(s) : s[i] \in {Reverse(s)[j] : j \in 1 .. Len(s)}
    BY <1>2, <1>4
  <2> QED
    BY <1>1, <1>5, <2>1 DEF ToSet
<1> QED
  BY <1>3, <1>6, <1>7

LEMMA ConcatAll ==
  ASSUME NEW X, NEW s \in Seq(X), NEW t \in Seq(X)
  PROVE  s \o t \in Seq(X) /\ ToSet(s \o t) = ToSet(s) \cup ToSet(t)
<1>1. /\ Len(s) \in Nat /\ DOMAIN s = 1 .. Len(s) /\ Len(t) \in Nat /\ DOMAIN t = 1 .. Len(t)
      /\ DOMAIN (s \o t) = 1 .. Len(s) + Len(t)
      /\ \A i \in 1 .. Len(s) : (s \o t)[i] = s[i]
      /\ \A i \in 1 .. Len(t) : (s \o t)[Len(s) + i] = t[i]
      /\ s \o t \in Seq(X)
  OBVIOUS
<1>2. \A i \in 1 .. Len(s) + Len(t) : i \in 1 .. Len(s) \/ (i - Len(s) \in 1 .. Len(t)
                                                          /\ i = Len(s) + (i - Len(s)))
  BY <1>1
<1>3. ToSet(s \o t) \subseteq ToSet(s) \cup ToSet(t)
  BY <1>1, <1>2 DEF ToSet
<1>4. ToSet(s) \subseteq ToSet(s \o t)
  BY <1>1 DEF ToSet
<1>5. ToSet(t) \subseteq ToSet(s \o t)
  <2>1. \A i \in 1 .. Len(t) : Len(s) + i \in 1 .. Len(s) + Len(t)
    BY <1>1
  <2> QED
    BY <1>1, <2>1 DEF ToSet
<1> QED
  BY <1>1, <1>3, <1>4, <1>5

(* A step meets a new object or has one less to visit.                     *)
LEMMA CollectNextStep ==
  ASSUME NEW table, NEW list, Loadable(table, list),
         NEW w \in Collections(DOMAIN table), ~CollectEnded(w)
  PROVE  LET n == CollectNext(table, w)
         IN  /\ n \in Collections(DOMAIN table)
             /\ \/ /\ n.met = w.met /\ Len(n.toVisit) < Len(w.toVisit)
                   /\ ToSet(n.toVisit) \subseteq ToSet(w.toVisit)
                \/ /\ Head(w.toVisit) \notin ToSet(w.met)
                   /\ ToSet(n.met) = ToSet(w.met) \cup {Head(w.toVisit)}
<1> DEFINE p == Head(w.toVisit)
           rest == [w EXCEPT !.toVisit = Tail(@)]
           same == {q \in ToSet(w.met) : table[q].id = table[p].id}
           n == CollectNext(table, w)
<1>1. /\ w.toVisit \in Seq(DOMAIN table) /\ w.toVisit # <<>> /\ w.ok \in BOOLEAN
      /\ w.met \in Seq(DOMAIN table)
  BY DEF Collections, CollectEnded
<1>2. /\ p \in DOMAIN table /\ Tail(w.toVisit) \in Seq(DOMAIN table)
      /\ ToSet(w.toVisit) = {p} \cup ToSet(Tail(w.toVisit))
      /\ Len(Tail(w.toVisit)) < Len(w.toVisit)
  <2>1. Len(Tail(w.toVisit)) < Len(w.toVisit)
    BY <1>1
  <2> QED
    BY <1>1, <2>1, HeadAndTail
<1>3. rest \in Collections(DOMAIN table) /\ rest.met = w.met /\ rest.toVisit = Tail(w.toVisit)
  BY <1>1, <1>2 DEF Collections
<1>4. CASE same = {p}
  <2>1. n = rest
    BY <1>4 DEF CollectNext
  <2> QED
    BY <1>2, <1>3, <2>1
<1>5. CASE same # {p} /\ same # {}
  <2>1. n = [rest EXCEPT !.ok = FALSE]
    BY <1>5 DEF CollectNext
  <2>2. n \in Collections(DOMAIN table) /\ n.met = rest.met /\ n.toVisit = rest.toVisit
    BY <1>3, <2>1 DEF Collections
  <2> QED
    BY <1>2, <1>3, <2>2
<1>6. CASE same = {}
  <2> DEFINE more == Reverse(table[p].dependencies) \o Tail(w.toVisit)
  <2>1. n = [w EXCEPT !.toVisit = more, !.met = Append(w.met, p)]
    BY <1>6 DEF CollectNext, Collections
  <2>2. more \in Seq(DOMAIN table)
    BY <1>2, ReverseAll, ConcatAll DEF Loadable
  <2>3. Append(w.met, p) \in Seq(DOMAIN table) /\ ToSet(Append(w.met, p)) = ToSet(w.met) \cup {p}
    BY <1>1, <1>2, AppendAll
  <2> HIDE DEF more
  <2>4. n \in Collections(DOMAIN table) /\ n.met = Append(w.met, p)
    BY <1>1, <2>1, <2>2, <2>3 DEF Collections
  <2>5. p \notin ToSet(w.met)
    BY <1>6
  <2> QED
    BY <2>3, <2>4, <2>5
<1> QED
  BY <1>4, <1>5, <1>6

(* The loop meets a new object or has fewer to visit, so it ends.          *)
LEMMA CollectEnds ==
  ASSUME NEW table, NEW list, Loadable(table, list),
         NEW T \in SUBSET Collections(DOMAIN table), T # {}
  PROVE  \E w \in T : ~CollectEnded(w) => CollectNext(table, w) \notin T
<1> DEFINE inside == [w \in T |-> ToSet(w.met)]
           before == [w \in T |-> Len(w.toVisit)]
<1>1. \A w \in T : w.met \in Seq(DOMAIN table) /\ Len(w.toVisit) \in Nat
  BY DEF Collections
<1>2. \A w \in T : ToSet(w.met) \subseteq DOMAIN table
  BY <1>1 DEF ToSet
<1>3. inside \in [T -> SUBSET DOMAIN table] /\ before \in [T -> Nat]
  BY <1>1, <1>2
<1>4. PICK w \in T : \A v \in T :
        /\ inside[w] \subseteq inside[v] => inside[v] = inside[w]
        /\ inside[v] = inside[w] => ~(before[v] < before[w])
  <2>1. IsFiniteSet(DOMAIN table)
    BY DEF Loadable
  <2> HIDE DEF inside, before
  <2> QED
    BY <1>3, <2>1, LowestMember, SMTT(30)
<1>5. ASSUME ~CollectEnded(w), CollectNext(table, w) \in T
      PROVE  FALSE
  <2> DEFINE n == CollectNext(table, w)
  <2>1. \/ n.met = w.met /\ Len(n.toVisit) < Len(w.toVisit)
        \/ Head(w.toVisit) \notin ToSet(w.met) /\ ToSet(n.met) = ToSet(w.met) \cup {Head(w.toVisit)}
    BY <1>5, CollectNextStep
  <2>2. inside[n] = ToSet(n.met) /\ before[n] = Len(n.toVisit) /\ n \in T
    BY <1>5
  <2> HIDE DEF n
  <2> QED
    BY <1>4, <2>1, <2>2
<1> QED
  BY <1>5

LEMMA CollectDefined ==
  ASSUME NEW table, NEW list, Loadable(table, list)
  PROVE  \E V : CollectFunction(V, table)
<1> DEFINE W == Collections(DOMAIN table)
           End == {w \in W : CollectEnded(w)}
           next == [w \in W |-> IF CollectEnded(w) THEN w ELSE CollectNext(table, w)]
<1>1. next \in [W -> W]
  BY CollectNextStep
<1>2. Ends(W, End, next)
  <2> SUFFICES ASSUME NEW T \in SUBSET W, T # {}
               PROVE  \E w \in T : w \notin End => next[w] \notin T
    BY DEF Ends
  <2>1. PICK w \in T : ~CollectEnded(w) => CollectNext(table, w) \notin T
    BY CollectEnds
  <2> QED
    BY <2>1
<1>3. \E V : Loop(V, W, End, next)
  <2> HIDE DEF W, End, next
  <2> QED
    BY <1>1, <1>2, LoopDefined
<1>4. PICK V : Loop(V, W, End, next)
  BY <1>3
<1>5. CollectFunction(V, table)
  BY <1>4 DEF Loop, CollectFunction
<1> QED
  BY <1>5

-----------------------------------------------------------------------------
(* What is collected                                                       *)

DepsIn(table) == [p \in DOMAIN table |-> ToSet(table[p].dependencies)]
Needed(table, list) == Needs(DepsIn(table), ToSet(list))
Unique(table, list) == \A p, q \in Needed(table, list) : table[p].id = table[q].id => p = q

LEMMA NeededClosed ==
  ASSUME NEW table, NEW list, Loadable(table, list)
  PROVE  /\ ToSet(list) \subseteq Needed(table, list) /\ Closed(DepsIn(table), Needed(table, list))
         /\ \A S \in SUBSET DOMAIN table :
              ToSet(list) \subseteq S /\ (\A p \in S : ToSet(table[p].dependencies) \subseteq S) =>
                Needed(table, list) \subseteq S
<1>1. DOMAIN DepsIn(table) = DOMAIN table
      /\ \A p \in DOMAIN table : DepsIn(table)[p] = ToSet(table[p].dependencies)
  BY DEF DepsIn
<1>2. \A X : \A s \in Seq(X) : ToSet(s) \subseteq X
  BY DEF ToSet
<1>3. Closed(DepsIn(table), DOMAIN table) /\ ToSet(list) \subseteq DOMAIN table
  BY <1>1, <1>2 DEF Closed, Loadable
<1>4. \A S \in SUBSET DOMAIN table :
        (\A p \in S : ToSet(table[p].dependencies) \subseteq S) => Closed(DepsIn(table), S)
  BY <1>1 DEF Closed
<1> QED
  BY <1>3, <1>4, NeedsClosed, NeedsWithin DEF Needed

(* What was met and what is to be visited is needed, and there is nothing  *)
(* else that is; what was met has ids of its own.                          *)
CollectInv(table, list, w) ==
  /\ \A p, q \in ToSet(w.met) : table[p].id = table[q].id => p = q
  /\ ToSet(list) \subseteq ToSet(w.met) \cup ToSet(w.toVisit)
  /\ \A p \in ToSet(w.met) : ToSet(table[p].dependencies) \subseteq ToSet(w.met) \cup ToSet(w.toVisit)
  /\ ToSet(w.met) \cup ToSet(w.toVisit) \subseteq Needed(table, list)

(* A step of the loop keeps this, or shows two objects with one id.        *)
LEMMA CollectKeeps ==
  ASSUME NEW table, NEW list, Loadable(table, list),
         NEW w \in Collections(DOMAIN table), ~CollectEnded(w), CollectInv(table, list, w)
  PROVE  LET n == CollectNext(table, w)
         IN  IF n.ok THEN CollectInv(table, list, n) ELSE ~Unique(table, list)
<1> DEFINE p == Head(w.toVisit)
           rest == [w EXCEPT !.toVisit = Tail(@)]
           same == {q \in ToSet(w.met) : table[q].id = table[p].id}
           n == CollectNext(table, w)
<1>1. /\ w.toVisit \in Seq(DOMAIN table) /\ w.toVisit # <<>> /\ w.ok = TRUE
      /\ w.met \in Seq(DOMAIN table)
  BY DEF Collections, CollectEnded
<1>2. /\ p \in DOMAIN table /\ Tail(w.toVisit) \in Seq(DOMAIN table)
      /\ ToSet(w.toVisit) = {p} \cup ToSet(Tail(w.toVisit))
  BY <1>1, HeadAndTail
<1>3. rest.met = w.met /\ rest.toVisit = Tail(w.toVisit) /\ rest.ok
  BY <1>1 DEF Collections
<1>4. p \in Needed(table, list) /\ ToSet(w.met) \subseteq Needed(table, list)
  BY <1>2 DEF CollectInv
<1>5. CASE same = {p}
  <2>1. n = rest
    BY <1>5 DEF CollectNext
  <2>2. p \in ToSet(w.met)
    BY <1>5
  <2>3. ToSet(w.met) \cup ToSet(w.toVisit) = ToSet(n.met) \cup ToSet(n.toVisit)
    BY <1>2, <1>3, <2>1, <2>2
  <2> QED
    BY <1>3, <2>1, <2>3 DEF CollectInv
<1>6. CASE same # {p} /\ same # {}
  <2>1. n = [rest EXCEPT !.ok = FALSE]
    BY <1>6 DEF CollectNext
  <2>2. ~n.ok
    BY <2>1 DEF Collections
  <2>3. PICK q \in same : q # p
    BY <1>6
  <2> QED
    BY <1>4, <2>2, <2>3 DEF Unique
<1>7. CASE same = {}
  <2> DEFINE deps == table[p].dependencies
             more == Reverse(deps) \o Tail(w.toVisit)
  <2>1. n = [w EXCEPT !.toVisit = more, !.met = Append(w.met, p)]
    BY <1>7 DEF CollectNext, Collections
  <2>2. deps \in Seq(DOMAIN table)
    BY <1>2 DEF Loadable
  <2>3. ToSet(more) = ToSet(deps) \cup ToSet(Tail(w.toVisit))
    BY <1>2, <2>2, ReverseAll, ConcatAll
  <2>4. ToSet(Append(w.met, p)) = ToSet(w.met) \cup {p}
    BY <1>1, <1>2, AppendAll
  <2> HIDE DEF more
  <2>5. n.ok = TRUE /\ ToSet(n.met) = ToSet(w.met) \cup {p}
        /\ ToSet(n.toVisit) = ToSet(deps) \cup ToSet(Tail(w.toVisit))
    BY <1>1, <2>1, <2>3, <2>4 DEF Collections
  <2> HIDE DEF n
  <2>6. ToSet(deps) \subseteq Needed(table, list)
    BY <1>2, <1>4, NeededClosed DEF Closed, DepsIn
  <2>7. \A q \in ToSet(w.met) : table[q].id # table[p].id
    BY <1>7
  <2>8. CollectInv(table, list, n)
    <3>1. \A q, r \in ToSet(n.met) : table[q].id = table[r].id => q = r
      BY <2>5, <2>7 DEF CollectInv
    <3>2. ToSet(w.met) \cup ToSet(w.toVisit) \subseteq ToSet(n.met) \cup ToSet(n.toVisit)
      BY <1>2, <2>5
    <3>3. \A q \in ToSet(n.met) : ToSet(table[q].dependencies) \subseteq ToSet(n.met) \cup ToSet(n.toVisit)
      BY <2>5, <3>2 DEF CollectInv
    <3>4. ToSet(n.met) \cup ToSet(n.toVisit) \subseteq Needed(table, list)
      BY <1>2, <1>4, <2>5, <2>6 DEF CollectInv
    <3> QED
      BY <3>1, <3>2, <3>3, <3>4 DEF CollectInv
  <2> QED
    BY <2>5, <2>8 DEF n
<1> QED
  BY <1>5, <1>6, <1>7

LEMMA CollectComes ==
  ASSUME NEW table, NEW list, Loadable(table, list), NEW V, CollectFunction(V, table)
  PROVE  \A w \in Collections(DOMAIN table) : w.ok /\ CollectInv(table, list, w) =>
           IF V[w].ok THEN /\ V[w] \in Collections(DOMAIN table) /\ V[w].toVisit = <<>>
                           /\ CollectInv(table, list, V[w])
           ELSE ~Unique(table, list)
<1> DEFINE P(w) == w.ok /\ CollectInv(table, list, w) =>
             IF V[w].ok THEN /\ V[w] \in Collections(DOMAIN table) /\ V[w].toVisit = <<>>
                             /\ CollectInv(table, list, V[w])
             ELSE ~Unique(table, list)
           T == {w \in Collections(DOMAIN table) : ~P(w)}
<1>1. ASSUME NEW w \in Collections(DOMAIN table),
             ~CollectEnded(w) => P(CollectNext(table, w))
      PROVE  P(w)
  <2> SUFFICES ASSUME w.ok, CollectInv(table, list, w)
               PROVE  IF V[w].ok THEN /\ V[w] \in Collections(DOMAIN table) /\ V[w].toVisit = <<>>
                                      /\ CollectInv(table, list, V[w])
                      ELSE ~Unique(table, list)
    OBVIOUS
  <2>1. V[w] = IF CollectEnded(w) THEN w ELSE V[CollectNext(table, w)]
    BY DEF CollectFunction
  <2>2. CASE CollectEnded(w)
    BY <2>1, <2>2 DEF CollectEnded
  <2>3. CASE ~CollectEnded(w)
    <3> DEFINE n == CollectNext(table, w)
    <3>1. IF n.ok THEN CollectInv(table, list, n) ELSE ~Unique(table, list)
      BY <2>3, CollectKeeps
    <3>2. n \in Collections(DOMAIN table) /\ V[w] = V[n]
      BY <2>1, <2>3, CollectNextStep
    <3>3. CASE n.ok
      BY <1>1, <2>3, <3>1, <3>2, <3>3
    <3>4. CASE ~n.ok
      <4>1. V[n] = n
        BY <3>2, <3>4 DEF CollectFunction, CollectEnded
      <4> QED
        BY <3>1, <3>2, <3>4, <4>1
    <3> QED
      BY <3>3, <3>4
  <2> QED
    BY <2>2, <2>3
<1>2. T = {}
  <2> HIDE DEF P
  <2> SUFFICES ASSUME T # {}
               PROVE  FALSE
    OBVIOUS
  <2>1. T \in SUBSET Collections(DOMAIN table)
    OBVIOUS
  <2>2. PICK w \in T : ~CollectEnded(w) => CollectNext(table, w) \notin T
    <3> HIDE DEF T
    <3> QED
      BY <2>1, CollectEnds
  <2>3. ~CollectEnded(w) => CollectNext(table, w) \in Collections(DOMAIN table)
    BY <2>1, CollectNextStep
  <2>4. ~CollectEnded(w) => P(CollectNext(table, w))
    BY <2>2, <2>3
  <2> QED
    BY <1>1, <2>2, <2>4
<1> QED
  BY <1>2

(* The collected objects are those that are needed, if they have ids of    *)
(* their own.                                                              *)
LEMMA CollectedAll ==
  ASSUME NEW table, NEW list, Loadable(table, list)
  PROVE  LET all == Collected(table, list)
         IN  IF all.ok
             THEN all.met \in Seq(Needed(table, list)) /\ ToSet(all.met) = Needed(table, list)
                  /\ Unique(table, list)
             ELSE ~Unique(table, list)
<1> DEFINE w == [toVisit |-> list, ok |-> TRUE, met |-> <<>>]
           all == Collected(table, list)
<1>1. PICK V : CollectFunction(V, table) /\ all = V[w]
  BY CollectDefined, CollectedIs
<1>2. w \in Collections(DOMAIN table)
  BY DEF Collections, Loadable
<1>3. ToSet(<<>>) = {}
  BY DEF ToSet
<1>4. CollectInv(table, list, w)
  BY <1>3, NeededClosed DEF CollectInv
<1> HIDE DEF all
<1>5. IF all.ok THEN all \in Collections(DOMAIN table) /\ all.toVisit = <<>> /\ CollectInv(table, list, all)
      ELSE ~Unique(table, list)
  BY <1>1, <1>2, <1>4, CollectComes
<1>6. ASSUME all.ok
      PROVE  all.met \in Seq(Needed(table, list)) /\ ToSet(all.met) = Needed(table, list)
             /\ Unique(table, list)
  <2>1. all.met \in Seq(DOMAIN table) /\ ToSet(all.toVisit) = {} /\ CollectInv(table, list, all)
    BY <1>3, <1>5, <1>6 DEF Collections
  <2>2. ToSet(all.met) \subseteq DOMAIN table
    BY <2>1 DEF ToSet
  <2>3. ToSet(all.met) = Needed(table, list)
    BY <2>1, <2>2, NeededClosed DEF CollectInv
  <2>4. all.met \in Seq(ToSet(all.met))
    BY <2>1 DEF ToSet
  <2> QED
    BY <2>1, <2>3, <2>4 DEF CollectInv, Unique
<1> QED
  BY <1>5, <1>6 DEF all

-----------------------------------------------------------------------------
(* The load order                                                          *)

(* An order is found if there is one, and the objects have ids of their    *)
(* own.                                                                    *)
LEMMA OrderResolved ==
  ASSUME NEW table, NEW list, Loadable(table, list)
  PROVE  LET orders == {s \in [1 .. Cardinality(Needed(table, list)) -> Needed(table, list)] :
                          Ordered(DepsIn(table), s, Needed(table, list))}
         IN  /\ \A s \in resolvePluginOrder(table, list) : s \in orders /\ Unique(table, list)
             /\ resolvePluginOrder(table, list) = {} => orders = {} \/ ~Unique(table, list)
<1> DEFINE all == Collected(table, list)
           F == Needed(table, list)
           deps == DepsIn(table)
           graph == [p \in ToSet(all.met) |-> table[p].dependencies]
           walk == Visited(all.met, graph, TRUE)
<1>1. CASE ~all.ok
  BY <1>1, CollectedAll DEF resolvePluginOrder
<1>2. CASE all.ok
  <2> DEFINE w == [todo |-> all.met, stack |-> {}, ok |-> TRUE, order |-> <<>>]
  <2>1. all.met \in Seq(F) /\ ToSet(all.met) = F /\ Unique(table, list)
    BY <1>2, CollectedAll
  <2>2. resolvePluginOrder(table, list) = IF walk.ok THEN {walk.order} ELSE {}
    BY <1>2 DEF resolvePluginOrder
  <2>3. graph = [p \in F |-> table[p].dependencies]
    BY <2>1
  <2> HIDE DEF all, graph, walk
  <2>4. F \subseteq DOMAIN table /\ IsFiniteSet(F) /\ Closed(deps, F)
    <3>1. IsFiniteSet(DOMAIN table) /\ DOMAIN deps = DOMAIN table
      BY DEF Loadable, DepsIn
    <3>2. F \subseteq DOMAIN table /\ Closed(deps, F)
      BY <3>1, NeededClosed DEF Needed, Needs
    <3> QED
      BY <3>1, <3>2, FS_Subset
  <2>5. \A p \in F : deps[p] = ToSet(table[p].dependencies) /\ deps[p] \subseteq F
    BY <2>4 DEF DepsIn, Closed
  <2> HIDE DEF F, deps
  <2>6. \A p \in F : table[p].dependencies \in Seq(F)
    <3> SUFFICES ASSUME NEW p \in F
                 PROVE  table[p].dependencies \in Seq(F)
      OBVIOUS
    <3> DEFINE s == table[p].dependencies
    <3>1. s \in Seq(DOMAIN table) /\ ToSet(s) \subseteq F
      BY <2>4, <2>5 DEF Loadable
    <3>2. \A i \in 1 .. Len(s) : s[i] \in F
      BY <3>1 DEF ToSet
    <3> HIDE DEF s
    <3>3. s \in Seq(F)
      BY <3>1, <3>2
    <3> QED
      BY <3>3 DEF s
  <2>7. Graph(graph, F) /\ \A p \in F : deps[p] = ToSet(graph[p])
    BY <2>3, <2>4, <2>5, <2>6 DEF Graph
  <2>8. PICK V : VisitFunction(V, graph) /\ walk = V[w]
    <3>1. \E V : VisitFunction(V, graph)
      BY <2>7, VisitDefined
    <3> QED
      BY <3>1, VisitedIs DEF walk
  <2>9. w \in Walks(F)
    BY <2>1 DEF Walks
  <2>10. \A v \in Walks(F) :
           /\ V[v] \in Walks(F)
           /\ V[v].ok /\ Ordered(deps, v.order, ToSet(v.order)) => Extends(deps, v, V[v])
    BY <2>7, <2>8, WalkOrders
  <2>11. ASSUME walk.ok
         PROVE  Ordered(deps, walk.order, F)
    <3>1. ToSet(<<>>) = {} /\ Ordered(deps, <<>>, {})
      BY DEF Ordered, IsInjective, ToSet
    <3>2. Extends(deps, w, walk) /\ walk \in Walks(F)
      BY <2>8, <2>9, <2>10, <2>11, <3>1
    <3>3. Ordered(deps, walk.order, ToSet(walk.order)) /\ F \subseteq ToSet(walk.order)
      BY <2>1, <3>2 DEF Extends
    <3>4. walk.order \in Seq(F)
      BY <3>2 DEF Walks
    <3>5. ToSet(walk.order) = F
      BY <3>3, <3>4 DEF ToSet
    <3> QED
      BY <3>3, <3>5
  <2>12. \A s : Ordered(deps, s, F) => s \in [1 .. Cardinality(F) -> F]
    <3> SUFFICES ASSUME NEW s, Ordered(deps, s, F)
                 PROVE  s \in [1 .. Cardinality(F) -> F]
      OBVIOUS
    <3>1. /\ s \in Seq(F) /\ ToSet(s) = F /\ \A i, j \in DOMAIN s : s[i] = s[j] => i = j
      BY DEF Ordered, IsInjective
    <3>2. Len(s) \in Nat /\ s \in [1 .. Len(s) -> F] /\ DOMAIN s = 1 .. Len(s)
      BY <3>1
    <3>3. \A f \in F : \E i \in 1 .. Len(s) : s[i] = f
      BY <3>1, <3>2 DEF ToSet
    <3>4. s \in Bijection(1 .. Len(s), F)
      BY <3>1, <3>2, <3>3 DEF Bijection, Injection, Surjection, IsInjective
    <3>5. IsFiniteSet(1 .. Len(s)) /\ Cardinality(1 .. Len(s)) = Len(s)
      BY <3>2, FS_Interval, SMTT(30)
    <3>6. ExistsBijection(1 .. Len(s), F)
      BY <3>4 DEF ExistsBijection
    <3>7. Cardinality(F) = Len(s)
      BY <3>5, <3>6, FS_Bijection
    <3> QED
      BY <3>2, <3>7
  <2>13. ASSUME NEW s \in [1 .. Cardinality(F) -> F], Ordered(deps, s, F)
         PROVE  walk.ok
    BY <2>1, <2>7, <2>8, <2>9, <2>10, <2>13, OrderedNotCyclic
  <2> QED
    BY <2>1, <2>2, <2>11, <2>12, <2>13 DEF F, deps
<1> QED
  BY <1>1, <1>2

(* The check of the options is about which plugins, not their order.       *)
LEMMA SameOptions ==
  ASSUME NEW s, NEW t, ToSet(s) = ToSet(t)
  PROVE  collectGlobalOptions(s) = collectGlobalOptions(t)
BY DEF collectGlobalOptions, PluginGlobals

(* The plugins that are loaded are in the resolved order, and what fails   *)
(* before they are is the order or an option.                              *)
LoadInv ==
  /\ \E c \in Commands : project = c[2]
  /\ stage = "begin" => configPath = NoValue
  /\ stage \in {"begin", "load"} => plugins = <<>>
  /\ stage \in {"configure", "route", "run", "running", "tested"} =>
       plugins \in resolvePluginOrder(project.table, project.plugins)
  /\ stage = "failed" =>
       \/ plugins \in resolvePluginOrder(project.table, project.plugins)
       \/ configPath \notin project.files
       \/ \A s \in resolvePluginOrder(project.table, project.plugins) : ~collectGlobalOptions(s)

LEMMA LoadKept ==
  ASSUME LoadInv, [Next]_vars
  PROVE  LoadInv'
<1>1. CASE Begin
  <2>1. /\ UNCHANGED <<project, plugins>> /\ stage = "begin"
        /\ stage' \in {"version", "load", "help", "failed"}
        /\ stage' = "failed" => configPath' = NoValue
    BY <1>1 DEF Begin
  <2>2. NoValue \notin project.files /\ \E c \in Commands : project = c[2]
    BY StartupAssumption DEF LoadInv
  <2>3. stage' = "failed" => configPath' \notin project'.files
    BY <2>1, <2>2
  <2>4. plugins' = <<>>
    BY <2>1 DEF LoadInv
  <2> QED
    BY <2>1, <2>2, <2>3, <2>4 DEF LoadInv
<1>2. CASE LoadConfig
  <2>1. UNCHANGED <<project, configPath>> /\ stage = "load"
    BY <1>2 DEF LoadConfig
  <2>2. CASE configPath \in project.files
             /\ \E s \in resolvePluginOrder(project.table, project.plugins) : collectGlobalOptions(s)
    BY <1>2, <2>1, <2>2 DEF LoadConfig, LoadInv
  <2>3. CASE ~(configPath \in project.files
             /\ \E s \in resolvePluginOrder(project.table, project.plugins) : collectGlobalOptions(s))
    <3>1. stage' = "failed" /\ plugins' = plugins
      BY <1>2, <2>3 DEF LoadConfig
    <3>2. \A s : collectGlobalOptions(s)' = collectGlobalOptions(s)
      BY <2>1 DEF collectGlobalOptions, PluginGlobals
    <3> QED
      BY <2>1, <2>3, <3>1, <3>2 DEF LoadInv
  <2> QED
    BY <2>2, <2>3
<1>3. CASE Configure \/ Route \/ Run \/ RunSuper \/ StartWorker
  <2>1. UNCHANGED <<project, plugins>> /\ stage \in {"configure", "route", "run", "running"}
        /\ stage' \in {"route", "run", "running", "tested", "help", "failed"}
    BY <1>3 DEF Configure, Route, Run, RunSuper, StartWorker, Call
  <2> QED
    BY <2>1 DEF LoadInv
<1>4. CASE UNCHANGED vars
  <2>1. UNCHANGED <<project, plugins, stage, configPath>>
    BY <1>4 DEF vars
  <2>2. \A s : collectGlobalOptions(s)' = collectGlobalOptions(s)
    BY <2>1 DEF collectGlobalOptions, PluginGlobals
  <2> QED
    BY <2>1, <2>2 DEF LoadInv
<1> QED
  BY <1>1, <1>2, <1>3, <1>4 DEF Next

LEMMA LoadedInOrder == LoadInv => LoadOrderValid
<1> SUFFICES ASSUME LoadInv
             PROVE  LoadOrderValid
  OBVIOUS
<1> DEFINE table == project.table
           list == project.plugins
           needed == Needed(table, list)
           orders == {s \in [1 .. Cardinality(needed) -> needed] : Ordered(DepsIn(table), s, needed)}
           order == resolvePluginOrder(table, list)
<1>1. Loadable(table, list)
  BY StartupAssumption DEF LoadInv, Loadable
<1>2. /\ \A s \in order : s \in orders /\ Unique(table, list)
      /\ order = {} => orders = {} \/ ~Unique(table, list)
  BY <1>1, OrderResolved
<1>3. stage = "configure" => plugins \in orders /\ Unique(table, list)
  BY <1>2 DEF LoadInv
<1>4. ASSUME stage = "failed", plugins = <<>>, list # <<>>, configPath \in project.files
      PROVE  orders = {} \/ ~Unique(table, list) \/ \A s \in orders : ~collectGlobalOptions(s)
  <2>1. plugins \notin order
    <3> SUFFICES ASSUME plugins \in order
                 PROVE  FALSE
      OBVIOUS
    <3>1. ToSet(plugins) = needed /\ ToSet(list) \subseteq needed
      BY <1>1, <1>2, NeededClosed DEF Ordered
    <3>2. ToSet(plugins) = {}
      BY <1>4 DEF ToSet
    <3>3. Head(list) \in ToSet(list)
      BY <1>1, <1>4, HeadAndTail DEF Loadable
    <3> QED
      BY <3>1, <3>2, <3>3
  <2>2. \A s \in order : ~collectGlobalOptions(s)
    BY <1>4, <2>1 DEF LoadInv
  <2>3. ASSUME NEW t \in order, NEW s \in orders
        PROVE  ~collectGlobalOptions(s)
    <3>1. ToSet(t) = needed /\ ToSet(s) = needed
      BY <1>2 DEF Ordered
    <3> QED
      BY <2>2, <3>1, SameOptions
  <2> QED
    BY <1>2, <2>3
<1> QED
  BY <1>3, <1>4 DEF LoadOrderValid, Unique, Needed, DepsIn

(* The plugins are loaded in an order that puts each after what it depends *)
(* on, with everything the list reaches and nothing else.  A list is       *)
(* refused only if two objects have one id, their dependencies have a      *)
(* cycle, or two options have one spelling.  For any commands, plugins and *)
(* environments.  (resolvePluginOrder(), collectGlobalOptions().)          *)
THEOREM LoadOrder == Spec => []LoadOrderValid
<1>1. Init => LoadInv
  BY DEF Init, LoadInv
<1> QED
  BY <1>1, LoadKept, LoadedInOrder, PTL DEF Spec

-----------------------------------------------------------------------------
(* Configurations                                                          *)

(* The loop over the partial configurations of the plugins.                *)
MergeFunction(R, base, hooks, n) ==
  R = [i \in 0 .. n |->
         IF i = 0 THEN base ELSE mergePartial(R[i - 1], Or(hooks[i], "partial", None))]

LEMMA MergesDefined ==
  ASSUME NEW base, NEW hooks, NEW n \in Nat
  PROVE  \E R : MergeFunction(R, base, hooks, n)
<1> DEFINE Step(r, i) == mergePartial(r, Or(hooks[i], "partial", None))
           S == {k \in Nat : \E R : MergeFunction(R, base, hooks, k)}
<1>1. 0 \in S
  <2>1. MergeFunction([i \in 0 .. 0 |-> base], base, hooks, 0)
    BY DEF MergeFunction
  <2> QED
    BY <2>1
<1>2. ASSUME NEW k \in S
      PROVE  k + 1 \in S
  <2>1. PICK R : MergeFunction(R, base, hooks, k)
    OBVIOUS
  <2> DEFINE Q == [i \in 0 .. k + 1 |-> IF i = k + 1 THEN Step(R[k], k + 1) ELSE R[i]]
  <2> HIDE DEF Step
  <2>2. \A i \in 0 .. k : R[i] = IF i = 0 THEN base ELSE Step(R[i - 1], i)
    BY <2>1 DEF MergeFunction, Step
  <2>3. \A i \in 0 .. k + 1 : Q[i] = IF i = 0 THEN base ELSE Step(Q[i - 1], i)
    BY <2>2
  <2>4. Q = [i \in 0 .. k + 1 |-> IF i = 0 THEN base ELSE Step(Q[i - 1], i)]
    BY <2>3
  <2> HIDE DEF Q
  <2>5. MergeFunction(Q, base, hooks, k + 1)
    BY <2>4 DEF MergeFunction, Step
  <2> QED
    BY <2>5
<1> HIDE DEF S
<1>3. S \in SUBSET Nat
  BY DEF S
<1>4. n \in S
  BY <1>1, <1>2, <1>3, NatSteps
<1> QED
  BY <1>4 DEF S

(* mergePartials() is the end of that loop.                                *)
LEMMA MergedIs ==
  ASSUME NEW base, NEW hooks, Len(hooks) \in Nat
  PROVE  \E R : MergeFunction(R, base, hooks, Len(hooks)) /\ mergePartials(base, hooks) = R[Len(hooks)]
<1> DEFINE R == CHOOSE R : MergeFunction(R, base, hooks, Len(hooks))
<1>1. MergeFunction(R, base, hooks, Len(hooks))
  BY MergesDefined
<1>2. mergePartials(base, hooks) = R[Len(hooks)]
  BY DEF mergePartials, MergeFunction
<1> QED
  BY <1>1, <1>2

(* What resolveConfig makes is a record of these fields.                   *)
Resolved(r) ==
  r = [networks |-> r.networks, keyCache |-> r.keyCache, imports |-> r.imports,
       defaultNetwork |-> r.defaultNetwork, backend |-> r.backend]

LEMMA MergedResolved ==
  ASSUME NEW base, Resolved(base), NEW hooks, Len(hooks) \in Nat
  PROVE  Resolved(mergePartials(base, hooks))
<1>1. PICK R : MergeFunction(R, base, hooks, Len(hooks)) /\ mergePartials(base, hooks) = R[Len(hooks)]
  BY MergedIs
<1>2. ASSUME NEW b, NEW p
      PROVE  Resolved(mergePartial(b, p))
  BY DEF Resolved, mergePartial
<1>3. CASE Len(hooks) = 0
  BY <1>1, <1>3 DEF MergeFunction
<1>4. CASE Len(hooks) # 0
  <2>1. mergePartials(base, hooks) = mergePartial(R[Len(hooks) - 1], Or(hooks[Len(hooks)], "partial", None))
    <3>1. Len(hooks) \in 0 .. Len(hooks)
      OBVIOUS
    <3>2. R[Len(hooks)] = IF Len(hooks) = 0 THEN base
                          ELSE mergePartial(R[Len(hooks) - 1], Or(hooks[Len(hooks)], "partial", None))
      BY <1>1, <3>1, Zenon DEF MergeFunction
    <3> QED
      BY <1>1, <1>4, <3>2
  <2> QED
    BY <1>2, <2>1
<1> QED
  BY <1>3, <1>4

NetworksOf(given, hooks) == Or(extendUserConfig(given, hooks), "networks", None)

(* A configuration depends on the environment through the variables of its *)
(* networks.                                                               *)
LEMMA SameVariables ==
  ASSUME NEW given, NEW hooks, NEW files, NEW env1, NEW env2,
         \A n \in DOMAIN NetworksOf(given, hooks) :
           LET net == NetworksOf(given, hooks)[n]
           IN  "privateKey" \in DOMAIN net =>
                 resolveConfigVariable(net.privateKey, env1) = resolveConfigVariable(net.privateKey, env2)
  PROVE  resolveConfig(given, hooks, env1, files) = resolveConfig(given, hooks, env2, files)
<1> DEFINE user == extendUserConfig(given, hooks)
           listed == NetworksOf(given, hooks)
           nets == IF listed = None THEN Field("devnode", [type |-> "devnode"]) ELSE listed
<1>1. ASSUME NEW n \in DOMAIN nets
      PROVE  resolveNetworkConfig(nets[n], user, env1) = resolveNetworkConfig(nets[n], user, env2)
  <2> HIDE DEF user
  <2>1. CASE listed = None
    <3>1. nets = [m \in {"devnode"} |-> [type |-> "devnode"]]
      BY <2>1 DEF Field
    <3>2. nets[n] = [type |-> "devnode"]
      BY <3>1
    <3>3. "privateKey" \notin DOMAIN [type |-> "devnode"]
      OBVIOUS
    <3> QED
      BY <3>2, <3>3 DEF resolveNetworkConfig
  <2>2. CASE listed # None
    BY <2>2 DEF resolveNetworkConfig
  <2> QED
    BY <2>1, <2>2
<1>2. [n \in DOMAIN nets |-> resolveNetworkConfig(nets[n], user, env1)] =
      [n \in DOMAIN nets |-> resolveNetworkConfig(nets[n], user, env2)]
  <2> HIDE DEF user, nets
  <2> QED
    BY <1>1
<1>3. resolveNetworks(user, env1) = resolveNetworks(user, env2)
  <2> DEFINE Each(v) == [n \in DOMAIN nets |-> resolveNetworkConfig(nets[n], user, v)]
             All(each) == IF \E n \in DOMAIN nets : each[n] = {} THEN {}
                          ELSE {[n \in DOMAIN nets |-> CHOOSE r \in each[n] : TRUE]}
  <2>1. \A v : resolveNetworks(user, v) = All(Each(v))
    BY DEF resolveNetworks, NetworksOf
  <2>2. Each(env1) = Each(env2)
    BY <1>2
  <2> HIDE DEF All, Each
  <2> QED
    BY <2>1, <2>2
<1>4. buildDefaults(user, env1) = buildDefaults(user, env2)
  <2> HIDE DEF user
  <2> QED
    BY <1>3 DEF buildDefaults
<1> QED
  BY <1>4 DEF resolveConfig

(* There is one resolved configuration or none, and its default network is *)
(* one of its networks.                                                    *)
LEMMA ConfigResolved ==
  ASSUME NEW given, NEW hooks, Len(hooks) \in Nat, NEW files, NEW env1
  PROVE  /\ \A r, s \in resolveConfig(given, hooks, env1, files) : r = s
         /\ \A r \in resolveConfig(given, hooks, env1, files) :
              Resolved(r) /\ r.defaultNetwork \in DOMAIN r.networks
<1> DEFINE user == extendUserConfig(given, hooks)
           base == buildDefaults(user, env1)
<1>1. \A b, c \in base : b = c
  <2> HIDE DEF user
  <2>1. \A m, n \in resolveNetworks(user, env1) : m = n
    BY DEF resolveNetworks
  <2> QED
    BY <2>1 DEF buildDefaults
<1>2. \A b \in base : Resolved(b)
  <2> HIDE DEF user
  <2> QED
    BY DEF buildDefaults, Resolved
<1>3. \A r \in resolveConfig(given, hooks, env1, files) :
        (\E b \in base : r = mergePartials(b, hooks)) /\ validateResolvedConfig(r)
  BY DEF resolveConfig
<1> HIDE DEF base
<1>4. \A b \in base : Resolved(mergePartials(b, hooks))
  BY <1>2, MergedResolved
<1> QED
  BY <1>1, <1>3, <1>4 DEF validateResolvedConfig

-----------------------------------------------------------------------------
(* The task of a command                                                   *)

(* What the user types.                                                    *)
Token == [option : BOOLEAN, long : BOOLEAN, name : STRING, inline : STRING]

(* The scan of findTask(), token by token.                                 *)
ScanFunction(R, tokens, lookup, ids, n) ==
  R = [i \in 0 .. n |-> IF i = 0 THEN ScanBegin ELSE ScanToken(tokens, lookup, ids, R[i - 1], i)]

LEMMA ScanDefined ==
  ASSUME NEW tokens, NEW lookup, NEW ids, NEW n \in Nat
  PROVE  \E R : ScanFunction(R, tokens, lookup, ids, n)
<1> DEFINE Step(r, i) == ScanToken(tokens, lookup, ids, r, i)
           S == {k \in Nat : \E R : ScanFunction(R, tokens, lookup, ids, k)}
<1>1. 0 \in S
  <2>1. ScanFunction([i \in 0 .. 0 |-> ScanBegin], tokens, lookup, ids, 0)
    BY DEF ScanFunction
  <2> QED
    BY <2>1
<1>2. ASSUME NEW k \in S
      PROVE  k + 1 \in S
  <2>1. PICK R : ScanFunction(R, tokens, lookup, ids, k)
    OBVIOUS
  <2> DEFINE Q == [i \in 0 .. k + 1 |-> IF i = k + 1 THEN Step(R[k], k + 1) ELSE R[i]]
  <2> HIDE DEF Step
  <2>2. \A i \in 0 .. k : R[i] = IF i = 0 THEN ScanBegin ELSE Step(R[i - 1], i)
    BY <2>1 DEF ScanFunction, Step
  <2>3. \A i \in 0 .. k + 1 : Q[i] = IF i = 0 THEN ScanBegin ELSE Step(Q[i - 1], i)
    BY <2>2
  <2>4. Q = [i \in 0 .. k + 1 |-> IF i = 0 THEN ScanBegin ELSE Step(Q[i - 1], i)]
    BY <2>3
  <2> HIDE DEF Q
  <2>5. ScanFunction(Q, tokens, lookup, ids, k + 1)
    BY <2>4 DEF ScanFunction, Step
  <2> QED
    BY <2>5
<1> HIDE DEF S
<1>3. S \in SUBSET Nat
  BY DEF S
<1>4. n \in S
  BY <1>1, <1>2, <1>3, NatSteps
<1> QED
  BY <1>4 DEF S

LEMMA ScanIs ==
  ASSUME NEW tokens, Len(tokens) \in Nat, NEW globals, NEW ids
  PROVE  \E R : /\ ScanFunction(R, tokens, buildGlobalArgumentLookup(globals), ids, Len(tokens))
               /\ findTask(tokens, globals, ids) = IF R[Len(tokens)].task # NoTask
                                                   THEN R[Len(tokens)].task
                                                   ELSE R[Len(tokens)].unclaimed
<1> DEFINE lookup == buildGlobalArgumentLookup(globals)
           R == CHOOSE R : ScanFunction(R, tokens, lookup, ids, Len(tokens))
<1> HIDE DEF lookup
<1>1. ScanFunction(R, tokens, lookup, ids, Len(tokens))
  BY ScanDefined
<1>2. findTask(tokens, globals, ids) = IF R[Len(tokens)].task # NoTask
                                       THEN R[Len(tokens)].task ELSE R[Len(tokens)].unclaimed
  BY DEF findTask, ScanFunction, lookup
<1> HIDE DEF R
<1> QED
  BY <1>1, <1>2 DEF lookup

(* A task that is found is a word of the command.                          *)
WordAt(tokens, task) ==
  \/ task = NoTask
  \/ /\ task.index \in DOMAIN tokens /\ ~tokens[task.index].option
     /\ task = [id |-> tokens[task.index].name, index |-> task.index]

TaskWord(tokens, ids, j) == ~tokens[j].option /\ tokens[j].name \in DOMAIN ids

(* The scan has not passed the only task.                                  *)
ScanInv(tokens, ids, acc, i) ==
  /\ acc = [next |-> acc.next, task |-> acc.task, unclaimed |-> acc.unclaimed]
  /\ acc.next \in Nat
  /\ WordAt(tokens, acc.task) /\ WordAt(tokens, acc.unclaimed)
  /\ acc.task # NoTask => acc.task.id \in DOMAIN ids
  /\ acc.task = NoTask /\ (\E j \in DOMAIN tokens : TaskWord(tokens, ids, j)) =>
       \E j \in DOMAIN tokens : j > i /\ j >= acc.next /\ TaskWord(tokens, ids, j)

(* No option takes the only task for its value.                            *)
LEMMA ScanKeeps ==
  ASSUME NEW tokens \in Seq(Token), NEW lookup, NEW ids, NEW acc, NEW i \in DOMAIN tokens,
         ScanInv(tokens, ids, acc, i - 1)
  PROVE  ScanInv(tokens, ids, ScanToken(tokens, lookup, ids, acc, i), i)
<1> DEFINE t == tokens[i]
           here == [id |-> t.name, index |-> i]
           made == ScanToken(tokens, lookup, ids, acc, i)
           valued == t.name \in DOMAIN lookup => lookup[t.name].type # "BOOLEAN"
           taken == /\ t.inline = NoValue /\ valued
                    /\ canConsumeAsValue(tokens, i + 1, ids, hasTaskTokenAfter(tokens, i + 1, ids))
<1>1. Len(tokens) \in Nat /\ DOMAIN tokens = 1 .. Len(tokens) /\ i \in 1 .. Len(tokens)
  OBVIOUS
<1>2. /\ acc = [next |-> acc.next, task |-> acc.task, unclaimed |-> acc.unclaimed]
      /\ acc.next \in Nat /\ WordAt(tokens, acc.task) /\ WordAt(tokens, acc.unclaimed)
      /\ acc.task # NoTask => acc.task.id \in DOMAIN ids
  BY DEF ScanInv
<1>3. acc.task = NoTask /\ (\E j \in DOMAIN tokens : TaskWord(tokens, ids, j)) =>
        \E j \in DOMAIN tokens : j > i - 1 /\ j >= acc.next /\ TaskWord(tokens, ids, j)
  BY DEF ScanInv
<1>4. here # NoTask /\ here.id = t.name /\ here.index = i
  BY <1>1 DEF NoTask
<1> HIDE DEF here
<1>5. CASE i < acc.next \/ acc.task # NoTask
  <2>1. made = acc
    BY <1>5, Zenon DEF ScanToken
  <2>2. acc.task = NoTask /\ (\E j \in DOMAIN tokens : TaskWord(tokens, ids, j)) =>
          \E j \in DOMAIN tokens : j > i /\ j >= acc.next /\ TaskWord(tokens, ids, j)
    BY <1>1, <1>2, <1>3, <1>5
  <2> QED
    BY <1>2, <2>1, <2>2 DEF ScanInv
<1>6. CASE ~(i < acc.next \/ acc.task # NoTask) /\ t.option
  <2> DEFINE to == IF taken THEN i + 2 ELSE i + 1
  <2>1. made = [acc EXCEPT !.next = to]
    BY <1>6, Zenon DEF ScanToken
  <2>2. made = [next |-> to, task |-> acc.task, unclaimed |-> acc.unclaimed]
    BY <1>2, <2>1
  <2>3. ASSUME \E j \in DOMAIN tokens : TaskWord(tokens, ids, j)
        PROVE  \E j \in DOMAIN tokens : j > i /\ j >= to /\ TaskWord(tokens, ids, j)
    <3>1. PICK j \in DOMAIN tokens : j > i - 1 /\ j >= acc.next /\ TaskWord(tokens, ids, j)
      BY <1>3, <1>6, <2>3
    <3>2. j >= i + 1
      <4>1. j # i
        BY <1>6, <3>1 DEF TaskWord
      <4> QED
        BY <1>1, <3>1, <4>1
    <3>3. CASE ~taken
      BY <1>1, <3>1, <3>2, <3>3
    <3>4. CASE taken
      <4>1. ~tokens[i + 1].option /\ i + 1 <= Len(tokens)
            /\ (hasTaskTokenAfter(tokens, i + 1, ids) \/ tokens[i + 1].name \notin DOMAIN ids)
        BY <3>4 DEF canConsumeAsValue
      <4>2. CASE hasTaskTokenAfter(tokens, i + 1, ids)
        <5>1. PICK k \in (i + 1) + 1 .. Len(tokens) : TaskWord(tokens, ids, k)
          BY <4>2 DEF hasTaskTokenAfter, TaskWord
        <5>2. k \in DOMAIN tokens /\ k > i /\ k >= i + 2
          BY <1>1
        <5> QED
          BY <3>4, <5>1, <5>2
      <4>3. CASE tokens[i + 1].name \notin DOMAIN ids
        <5>1. j # i + 1
          BY <3>1, <4>3 DEF TaskWord
        <5>2. j >= i + 2
          BY <1>1, <3>2, <5>1
        <5> QED
          BY <1>1, <3>1, <3>2, <3>4, <5>2
      <4> QED
        BY <4>1, <4>2, <4>3
    <3> QED
      BY <3>3, <3>4
  <2>4. to \in Nat
    BY <1>1
  <2> HIDE DEF to
  <2> QED
    BY <1>2, <1>6, <2>2, <2>3, <2>4 DEF ScanInv
<1>7. CASE ~(i < acc.next \/ acc.task # NoTask) /\ ~t.option /\ t.name \in DOMAIN ids
  <2>1. made = [acc EXCEPT !.task = here]
    BY <1>7, Zenon DEF ScanToken, here
  <2>2. made = [next |-> acc.next, task |-> here, unclaimed |-> acc.unclaimed]
    BY <1>2, <2>1
  <2>3. WordAt(tokens, here)
    BY <1>7 DEF WordAt, here
  <2> QED
    BY <1>2, <1>4, <1>7, <2>2, <2>3 DEF ScanInv
<1>8. CASE ~(i < acc.next \/ acc.task # NoTask) /\ ~t.option /\ t.name \notin DOMAIN ids
  <2> DEFINE first == IF acc.unclaimed = NoTask THEN here ELSE acc.unclaimed
  <2>1. made = [next |-> acc.next, task |-> acc.task, unclaimed |-> first]
    <3>1. made = IF acc.unclaimed = NoTask THEN [acc EXCEPT !.unclaimed = here] ELSE acc
      BY <1>8, Zenon DEF ScanToken, here
    <3> QED
      BY <1>2, <3>1
  <2>2. WordAt(tokens, here)
    BY <1>8 DEF WordAt, here
  <2>3. acc.task = NoTask /\ (\E j \in DOMAIN tokens : TaskWord(tokens, ids, j)) =>
          \E j \in DOMAIN tokens : j > i /\ j >= acc.next /\ TaskWord(tokens, ids, j)
    <3>1. \A j \in DOMAIN tokens : TaskWord(tokens, ids, j) => j # i
      BY <1>8 DEF TaskWord
    <3> QED
      BY <1>1, <1>2, <1>3, <3>1
  <2> QED
    BY <1>2, <1>8, <2>1, <2>2, <2>3 DEF ScanInv
<1> QED
  BY <1>5, <1>6, <1>7, <1>8

(* The task is a word of the command, and a registered one if any is.      *)
LEMMA TaskFound ==
  ASSUME NEW tokens \in Seq(Token), NEW globals, NEW ids
  PROVE  /\ WordAt(tokens, findTask(tokens, globals, ids))
         /\ (\E j \in DOMAIN tokens : TaskWord(tokens, ids, j)) =>
              findTask(tokens, globals, ids).id \in DOMAIN ids
<1> DEFINE n == Len(tokens)
           lookup == buildGlobalArgumentLookup(globals)
<1> HIDE DEF lookup
<1>1. n \in Nat /\ DOMAIN tokens = 1 .. n
  OBVIOUS
<1>2. PICK R : /\ ScanFunction(R, tokens, lookup, ids, n)
               /\ findTask(tokens, globals, ids) = IF R[n].task # NoTask THEN R[n].task
                                                   ELSE R[n].unclaimed
  BY <1>1, ScanIs DEF lookup
<1> DEFINE S == {k \in Nat : k <= n => ScanInv(tokens, ids, R[k], k)}
<1>3. 0 \in S
  <2>1. R[0] = ScanBegin
    BY <1>1, <1>2 DEF ScanFunction
  <2>2. ScanInv(tokens, ids, ScanBegin, 0)
    BY <1>1 DEF ScanInv, ScanBegin, WordAt
  <2> QED
    BY <2>1, <2>2
<1>4. ASSUME NEW k \in S
      PROVE  k + 1 \in S
  <2> SUFFICES ASSUME k + 1 <= n
               PROVE  ScanInv(tokens, ids, R[k + 1], k + 1)
    OBVIOUS
  <2>1. k + 1 \in DOMAIN tokens /\ (k + 1) - 1 = k /\ k <= n /\ k + 1 # 0 /\ k + 1 \in 0 .. n
    BY <1>1
  <2>2. R[k + 1] = IF k + 1 = 0 THEN ScanBegin ELSE ScanToken(tokens, lookup, ids, R[(k + 1) - 1], k + 1)
    BY <1>2, <2>1, Zenon DEF ScanFunction
  <2>3. R[k + 1] = ScanToken(tokens, lookup, ids, R[k], k + 1)
    BY <2>1, <2>2
  <2>4. ScanInv(tokens, ids, R[k], (k + 1) - 1)
    BY <2>1
  <2> HIDE DEF n
  <2> QED
    BY <2>1, <2>3, <2>4, ScanKeeps
<1>5. S \in SUBSET Nat
  OBVIOUS
<1>6. n \in S
  <2> HIDE DEF S
  <2> QED
    BY <1>1, <1>3, <1>4, <1>5, NatSteps
<1>7. ScanInv(tokens, ids, R[n], n)
  BY <1>6
<1> QED
  BY <1>1, <1>2, <1>7 DEF ScanInv

-----------------------------------------------------------------------------
(* Where the tokens go                                                     *)

(* parseArgs(), token by token.                                            *)
ParseFunction(R, tokens, known, n) ==
  R = [i \in 0 .. n |-> IF i = 0 THEN ParseBegin(known.task) ELSE ParseToken(tokens, known, R[i - 1], i)]

LEMMA ParseDefined ==
  ASSUME NEW tokens, NEW known, NEW n \in Nat
  PROVE  \E R : ParseFunction(R, tokens, known, n)
<1> DEFINE Step(r, i) == ParseToken(tokens, known, r, i)
           S == {k \in Nat : \E R : ParseFunction(R, tokens, known, k)}
<1>1. 0 \in S
  <2>1. ParseFunction([i \in 0 .. 0 |-> ParseBegin(known.task)], tokens, known, 0)
    BY DEF ParseFunction
  <2> QED
    BY <2>1
<1>2. ASSUME NEW k \in S
      PROVE  k + 1 \in S
  <2>1. PICK R : ParseFunction(R, tokens, known, k)
    OBVIOUS
  <2> DEFINE Q == [i \in 0 .. k + 1 |-> IF i = k + 1 THEN Step(R[k], k + 1) ELSE R[i]]
  <2> HIDE DEF Step
  <2>2. \A i \in 0 .. k : R[i] = IF i = 0 THEN ParseBegin(known.task) ELSE Step(R[i - 1], i)
    BY <2>1 DEF ParseFunction, Step
  <2>3. \A i \in 0 .. k + 1 : Q[i] = IF i = 0 THEN ParseBegin(known.task) ELSE Step(Q[i - 1], i)
    BY <2>2
  <2>4. Q = [i \in 0 .. k + 1 |-> IF i = 0 THEN ParseBegin(known.task) ELSE Step(Q[i - 1], i)]
    BY <2>3
  <2> HIDE DEF Q
  <2>5. ParseFunction(Q, tokens, known, k + 1)
    BY <2>4 DEF ParseFunction, Step
  <2> QED
    BY <2>5
<1> HIDE DEF S
<1>3. S \in SUBSET Nat
  BY DEF S
<1>4. n \in S
  BY <1>1, <1>2, <1>3, NatSteps
<1> QED
  BY <1>4 DEF S

LEMMA ParseIs ==
  ASSUME NEW tokens, Len(tokens) \in Nat, NEW globals, NEW ids
  PROVE  \E R : /\ ParseFunction(R, tokens, Lookups(tokens, globals, ids), Len(tokens))
               /\ parseArgs(tokens, globals, ids) = R[Len(tokens)]
<1> DEFINE known == Lookups(tokens, globals, ids)
           R == CHOOSE R : ParseFunction(R, tokens, known, Len(tokens))
<1> HIDE DEF known
<1>1. ParseFunction(R, tokens, known, Len(tokens))
  BY ParseDefined
<1>2. parseArgs(tokens, globals, ids) = R[Len(tokens)]
  BY DEF parseArgs, ParseFunction, known
<1> HIDE DEF R
<1> QED
  BY <1>1, <1>2 DEF known

(* The value of a set that holds one.                                      *)
TheOne(values) == CHOOSE v \in values : TRUE

LEMMA PutAt ==
  ASSUME NEW args, NEW name, NEW values, values # {}
  PROVE  Put(args, name, values)[name] = TheOne(values)
BY DEF Put, Over, Field, TheOne

LEMMA PutDomain ==
  ASSUME NEW args, NEW name, NEW values, values # {}
  PROVE  \A key : key \in DOMAIN Put(args, name, values) <=> key \in DOMAIN args \/ key = name
BY DEF Put, Over, Field, TheOne

LEMMA PutOther ==
  ASSUME NEW args, NEW name, NEW values, values # {}
  PROVE  \A key \in DOMAIN args : key # name => Put(args, name, values)[key] = args[key]
BY DEF Put, Over, Field, TheOne

LEMMA PutNone ==
  ASSUME NEW args, NEW name, NEW values, values = {}
  PROVE  Put(args, name, values) = args
BY DEF Put

(* What an option gives is nothing or one value.                           *)
OptionValue(tokens, known, i) ==
  Recorded(tokens[i], Boolean(known, tokens[i].name),
           ForTask(known, tokens[i].name) \/ ForGlobal(known, tokens[i].name),
           NextValue(tokens, known, i))

(* The option at i has a value, typed or implied.                          *)
Valued(tokens, known, i) ==
  \/ Boolean(known, tokens[i].name) \/ tokens[i].inline # NoValue
  \/ NextValue(tokens, known, i) # {}

(* The value v is what the option at i was given.                          *)
From(tokens, i, v) ==
  \/ v \in {Bool(TRUE), Bool(FALSE)}
  \/ tokens[i].inline # NoValue /\ v = Text(tokens[i].inline)
  \/ /\ tokens[i].inline = NoValue /\ i + 1 \in DOMAIN tokens /\ ~tokens[i + 1].option
     /\ v = Text(tokens[i + 1].name)

(* The option at i takes the word after it.                                *)
Takes(tokens, known, i) == ~Boolean(known, tokens[i].name) /\ NextValue(tokens, known, i) # {}

LEMMA NextIs ==
  ASSUME NEW tokens \in Seq(Token), NEW known, NEW i \in DOMAIN tokens
  PROVE  /\ Takes(tokens, known, i) =>
              /\ i + 1 \in DOMAIN tokens /\ ~tokens[i + 1].option /\ tokens[i].inline = NoValue
              /\ NextValue(tokens, known, i) = {tokens[i + 1].name}
              /\ i + 1 # known.task.index
BY DEF Takes, NextValue, canConsumeNextAsValue, canConsumeAsValue

(* What an option records is its value, and it records one if it has one.  *)
LEMMA ValueIs ==
  ASSUME NEW tokens \in Seq(Token), NEW known, NEW i \in DOMAIN tokens
  PROVE  /\ OptionValue(tokens, known, i) # {} => From(tokens, i, TheOne(OptionValue(tokens, known, i)))
         /\ ForTask(known, tokens[i].name) \/ ForGlobal(known, tokens[i].name) =>
              (Valued(tokens, known, i) <=> OptionValue(tokens, known, i) # {})
         /\ Takes(tokens, known, i) => /\ OptionValue(tokens, known, i) # {}
                                       /\ TheOne(OptionValue(tokens, known, i)) = Text(tokens[i + 1].name)
<1> DEFINE t == tokens[i]
           next == NextValue(tokens, known, i)
           boolean == Boolean(known, t.name)
           declared == ForTask(known, t.name) \/ ForGlobal(known, t.name)
           made == OptionValue(tokens, known, i)
<1>0. next = {} \/ (i + 1 \in DOMAIN tokens /\ ~tokens[i + 1].option /\ next = {tokens[i + 1].name})
  BY DEF NextValue, canConsumeNextAsValue, canConsumeAsValue
<1>a. next # {} => t.inline = NoValue
  BY DEF NextValue
<1>b. coerceFlagValue(t.inline) \in BOOLEAN
  BY DEF coerceFlagValue
<1>c. made = Recorded(t, boolean, declared, next)
  BY DEF OptionValue
<1> HIDE DEF next, boolean, declared, made
<1>1. CASE boolean
  <2>1. made # {} /\ TheOne(made) = Bool(coerceFlagValue(t.inline))
    BY <1>c, <1>1 DEF Recorded, TheOne
  <2>2. From(tokens, i, Bool(coerceFlagValue(t.inline)))
    BY <1>b DEF From
  <2> QED
    BY <1>1, <2>1, <2>2 DEF Valued, Takes, boolean, made
<1>2. CASE ~boolean /\ t.inline # NoValue
  <2>1. made # {} /\ TheOne(made) = Text(t.inline)
    BY <1>c, <1>2 DEF Recorded, TheOne
  <2>2. From(tokens, i, Text(t.inline))
    BY <1>2 DEF From
  <2> QED
    BY <1>a, <1>2, <2>1, <2>2 DEF Valued, Takes, next, made
<1>3. CASE ~boolean /\ t.inline = NoValue /\ next # {}
  <2>1. made = {Text(w) : w \in next}
    BY <1>c, <1>3 DEF Recorded
  <2>2. made # {} /\ TheOne(made) = Text(tokens[i + 1].name) /\ i + 1 \in DOMAIN tokens
    BY <1>0, <1>3, <2>1 DEF TheOne
  <2>3. From(tokens, i, Text(tokens[i + 1].name))
    BY <1>0, <1>3, <2>2 DEF From
  <2> QED
    BY <1>3, <2>2, <2>3 DEF Valued, next, made
<1>4. CASE ~boolean /\ t.inline = NoValue /\ next = {}
  <2>1. /\ declared => made = {}
        /\ ~declared => made # {} /\ TheOne(made) = Bool(TRUE)
    BY <1>c, <1>4 DEF Recorded, TheOne
  <2>2. From(tokens, i, Bool(TRUE))
    BY DEF From
  <2> QED
    BY <1>4, <2>1, <2>2 DEF Valued, Takes, boolean, next, declared, made
<1> QED
  BY <1>1, <1>2, <1>3, <1>4

(* The fields of a parse.                                                  *)
Parse(p) ==
  p = [taskId |-> p.taskId, taskArgs |-> p.taskArgs, positional |-> p.positional,
       preTaskArgs |-> p.preTaskArgs, globalArgs |-> p.globalArgs, next |-> p.next]

(* The three things a token does to a parse.                               *)
OptionStep(tokens, known, p, i, made) ==
  LET key == KeptAs(known, tokens[i].name)
      values == OptionValue(tokens, known, i)
      global == ForGlobal(known, tokens[i].name)
  IN  made = [p EXCEPT
        !.next = IF Takes(tokens, known, i) THEN i + 2 ELSE i + 1,
        !.globalArgs = IF global THEN Put(p.globalArgs, key, values) ELSE p.globalArgs,
        !.taskArgs = IF global THEN p.taskArgs ELSE Put(p.taskArgs, key, values)]

Skips(tokens, known, p, i, made) ==
  made = p /\ (i < p.next \/ i = known.task.index \/ (~tokens[i].option /\ known.task = NoTask))

Appends(tokens, p, i, made) ==
  /\ ~tokens[i].option /\ i >= p.next
  /\ \/ made = [p EXCEPT !.positional = Append(p.positional, tokens[i].name)]
     \/ made = [p EXCEPT !.preTaskArgs = Append(p.preTaskArgs, tokens[i].name)]

(* A token is skipped, appended to the words, or recorded as an option.    *)
LEMMA ParseTokenIs ==
  ASSUME NEW tokens \in Seq(Token), NEW known, NEW p, Parse(p), NEW i \in DOMAIN tokens, p.next \in Nat
  PROVE  LET made == ParseToken(tokens, known, p, i)
         IN  \/ Skips(tokens, known, p, i, made)
             \/ i >= p.next /\ tokens[i].option /\ OptionStep(tokens, known, p, i, made)
             \/ Appends(tokens, p, i, made)
<1> DEFINE t == tokens[i]
           made == ParseToken(tokens, known, p, i)
<1>0. i \in Nat
  OBVIOUS
<1>1. CASE i < p.next \/ i = known.task.index
  <2>1. made = p
    BY <1>0, <1>1 DEF ParseToken
  <2> HIDE DEF made
  <2>2. Skips(tokens, known, p, i, made)
    BY <1>1, <2>1 DEF Skips
  <2> QED
    BY <2>2 DEF made
<1>2. CASE ~(i < p.next \/ i = known.task.index) /\ t.option
  <2> DEFINE key == KeptAs(known, t.name)
             values == OptionValue(tokens, known, i)
             to == IF Boolean(known, t.name) \/ NextValue(tokens, known, i) = {} THEN i + 1 ELSE i + 2
             rest == [p EXCEPT !.next = to]
  <2>1. i >= p.next /\ i # known.task.index
    BY <1>0, <1>2
  <2>2. made = IF ForGlobal(known, t.name)
                 THEN [rest EXCEPT !.globalArgs = Put(@, key, values)]
                 ELSE [rest EXCEPT !.taskArgs = Put(@, key, values)]
    BY <1>2, <2>1, Zenon DEF ParseToken, OptionValue
  <2>3. to = IF Takes(tokens, known, i) THEN i + 2 ELSE i + 1
    BY DEF Takes
  <2> HIDE DEF to, key, values
  <2>4. OptionStep(tokens, known, p, i, made)
    BY <2>2, <2>3 DEF OptionStep, Parse, key, values
  <2> QED
    BY <1>2, <2>1, <2>4
<1>3. CASE ~(i < p.next \/ i = known.task.index) /\ ~t.option
  <2>1. i >= p.next
    BY <1>0, <1>3
  <2>2. made = IF known.task = NoTask THEN p
               ELSE IF i > known.task.index THEN [p EXCEPT !.positional = Append(@, t.name)]
               ELSE [p EXCEPT !.preTaskArgs = Append(@, t.name)]
    BY <1>3, Zenon DEF ParseToken
  <2>3. CASE known.task = NoTask
    <3>1. Skips(tokens, known, p, i, made)
      BY <1>3, <2>2, <2>3, Zenon DEF Skips
    <3> QED
      BY <3>1
  <2>4. CASE known.task # NoTask
    <3>1. Appends(tokens, p, i, made)
      BY <1>3, <2>1, <2>2, <2>4, Zenon DEF Appends
    <3> QED
      BY <3>1
  <2> QED
    BY <2>3, <2>4
<1> QED
  BY <1>1, <1>2, <1>3

(* What a parse keeps of the first i tokens: every declared option that    *)
(* has a value, and every word, unless another occurrence of its option    *)
(* replaced it.                                                            *)
OptionKept(tokens, known, p, k) ==
  LET name == tokens[k].name
  IN  Valued(tokens, known, k) =>
        /\ ForTask(known, name) => KeptAs(known, name) \in DOMAIN p.taskArgs
        /\ ForGlobal(known, name) => KeptAs(known, name) \in DOMAIN p.globalArgs

Again(tokens, known, k) ==
  \E j \in DOMAIN tokens : /\ j # k /\ tokens[j].option
                           /\ KeptAs(known, tokens[j].name) = KeptAs(known, tokens[k].name)

Holds(args, name, v) == name \in DOMAIN args /\ args[name] = v

(* The word at k is the value of the option before it, or that option is   *)
(* given again.                                                            *)
ValueKept(tokens, known, p, k) ==
  /\ k > 1 /\ tokens[k - 1].option
  /\ \/ Again(tokens, known, k - 1)
     \/ LET name == tokens[k - 1].name
        IN  Holds(IF ForGlobal(known, name) THEN p.globalArgs ELSE p.taskArgs,
                  KeptAs(known, name), Text(tokens[k].name))

WordKept(tokens, known, p, k) ==
  \/ k = known.task.index \/ known.task = NoTask \/ p.preTaskArgs # <<>>
  \/ tokens[k].name \in ToSet(p.positional)
  \/ ValueKept(tokens, known, p, k)

(* Every argument was given by an option of the command.                   *)
Given(tokens, known, args, global) ==
  \A key \in DOMAIN args : \E j \in DOMAIN tokens :
    /\ tokens[j].option /\ KeptAs(known, tokens[j].name) = key
    /\ ForGlobal(known, tokens[j].name) <=> global
    /\ From(tokens, j, args[key])

(* What the parse of the first i tokens has kept of them.                  *)
ParseInv(tokens, known, p, i) ==
  /\ Parse(p) /\ p.taskId = known.task.id
  /\ p.next \in Nat /\ p.positional \in Seq(STRING) /\ p.preTaskArgs \in Seq(STRING)
  /\ p.next <= i + 2
  /\ \A k \in DOMAIN tokens : i < k /\ k < p.next => ~tokens[k].option
  /\ \A k \in DOMAIN tokens : k <= i /\ tokens[k].option => OptionKept(tokens, known, p, k)
  /\ \A k \in DOMAIN tokens : (k <= i \/ k < p.next) /\ ~tokens[k].option =>
       WordKept(tokens, known, p, k)
  /\ Given(tokens, known, p.taskArgs, FALSE) /\ Given(tokens, known, p.globalArgs, TRUE)

LEMMA PutGiven ==
  ASSUME NEW tokens \in Seq(Token), NEW known, NEW args, NEW i \in DOMAIN tokens, tokens[i].option,
         Given(tokens, known, args, ForGlobal(known, tokens[i].name))
  PROVE  Given(tokens, known, Put(args, KeptAs(known, tokens[i].name), OptionValue(tokens, known, i)),
               ForGlobal(known, tokens[i].name))
<1> DEFINE name == KeptAs(known, tokens[i].name)
           values == OptionValue(tokens, known, i)
           made == Put(args, name, values)
<1>1. CASE values = {}
  BY <1>1, PutNone
<1>2. CASE values # {}
  <2> SUFFICES ASSUME NEW key \in DOMAIN made
               PROVE  \E j \in DOMAIN tokens :
                        /\ tokens[j].option /\ KeptAs(known, tokens[j].name) = key
                        /\ ForGlobal(known, tokens[j].name) <=> ForGlobal(known, tokens[i].name)
                        /\ From(tokens, j, made[key])
    BY DEF Given
  <2>1. CASE key = name
    <3>1. made[key] = TheOne(values) /\ From(tokens, i, TheOne(values))
      BY <1>2, <2>1, PutAt, ValueIs
    <3> QED
      BY <2>1, <3>1
  <2>2. CASE key # name
    <3>1. key \in DOMAIN args
      BY <1>2, <2>2, PutDomain
    <3>2. made[key] = args[key]
      BY <1>2, <2>2, <3>1, PutOther
    <3> HIDE DEF made
    <3> QED
      BY <3>1, <3>2 DEF Given
  <2> QED
    BY <2>1, <2>2
<1> QED
  BY <1>1, <1>2

LEMMA ParseOption ==
  ASSUME NEW tokens \in Seq(Token), NEW known, NEW p, NEW i \in DOMAIN tokens, NEW made,
         ParseInv(tokens, known, p, i - 1), i >= p.next, tokens[i].option,
         OptionStep(tokens, known, p, i, made)
  PROVE  ParseInv(tokens, known, made, i)
<1> DEFINE t == tokens[i]
           key == KeptAs(known, t.name)
           values == OptionValue(tokens, known, i)
           global == ForGlobal(known, t.name)
           to == IF Takes(tokens, known, i) THEN i + 2 ELSE i + 1
           globalArgs == IF global THEN Put(p.globalArgs, key, values) ELSE p.globalArgs
           taskArgs == IF global THEN p.taskArgs ELSE Put(p.taskArgs, key, values)
<1>0. Len(tokens) \in Nat /\ DOMAIN tokens = 1 .. Len(tokens) /\ i \in 1 .. Len(tokens) /\ to \in Nat
  OBVIOUS
<1>1. /\ Parse(p) /\ p.taskId = known.task.id
      /\ p.next \in Nat /\ p.positional \in Seq(STRING) /\ p.preTaskArgs \in Seq(STRING)
      /\ \A k \in DOMAIN tokens : i - 1 < k /\ k < p.next => ~tokens[k].option
      /\ \A k \in DOMAIN tokens : k <= i - 1 /\ tokens[k].option => OptionKept(tokens, known, p, k)
      /\ \A k \in DOMAIN tokens : (k <= i - 1 \/ k < p.next) /\ ~tokens[k].option =>
           WordKept(tokens, known, p, k)
      /\ Given(tokens, known, p.taskArgs, FALSE) /\ Given(tokens, known, p.globalArgs, TRUE)
  BY DEF ParseInv
<1>2. made = [taskId |-> p.taskId, taskArgs |-> taskArgs, positional |-> p.positional,
              preTaskArgs |-> p.preTaskArgs, globalArgs |-> globalArgs, next |-> to]
  <2> HIDE DEF to, taskArgs, globalArgs
  <2>1. made = [p EXCEPT !.next = to, !.globalArgs = globalArgs, !.taskArgs = taskArgs]
    BY DEF OptionStep, to, taskArgs, globalArgs
  <2> QED
    BY <1>1, <2>1 DEF Parse
<1>3. /\ made.next = to /\ made.taskArgs = taskArgs /\ made.globalArgs = globalArgs
      /\ made.positional = p.positional /\ made.preTaskArgs = p.preTaskArgs /\ made.taskId = p.taskId
  BY <1>2
<1>4. Parse(made)
  <2> HIDE DEF to, taskArgs, globalArgs
  <2> QED
    BY <1>2, <1>3 DEF Parse
<1>5. /\ DOMAIN p.taskArgs \subseteq DOMAIN taskArgs /\ DOMAIN p.globalArgs \subseteq DOMAIN globalArgs
      /\ \A n \in DOMAIN p.taskArgs : n # key \/ global => taskArgs[n] = p.taskArgs[n]
      /\ \A n \in DOMAIN p.globalArgs : n # key \/ ~global => globalArgs[n] = p.globalArgs[n]
  <2>1. ASSUME NEW args
        PROVE  /\ DOMAIN args \subseteq DOMAIN Put(args, key, values)
               /\ \A n \in DOMAIN args : n # key => Put(args, key, values)[n] = args[n]
    <3>1. CASE values = {}
      BY <3>1, PutNone
    <3>2. CASE values # {}
      <4>1. \A n \in DOMAIN args : n \in DOMAIN Put(args, key, values)
        BY <3>2, PutDomain
      <4>2. \A n \in DOMAIN args : n # key => Put(args, key, values)[n] = args[n]
        BY <3>2, PutOther
      <4> QED
        BY <4>1, <4>2
    <3> QED
      BY <3>1, <3>2
  <2> HIDE DEF values, key, global
  <2> QED
    BY <2>1
<1>6. Given(tokens, known, taskArgs, FALSE) /\ Given(tokens, known, globalArgs, TRUE)
  <2>1. CASE global
    <3>1. ForGlobal(known, t.name) = TRUE
      BY <2>1 DEF ForGlobal
    <3>2. Given(tokens, known, globalArgs, TRUE)
      BY <1>1, <2>1, <3>1, PutGiven
    <3> QED
      BY <1>1, <2>1, <3>2
  <2>2. CASE ~global
    <3>1. ForGlobal(known, t.name) = FALSE
      BY <2>2 DEF ForGlobal
    <3>2. Given(tokens, known, taskArgs, FALSE)
      BY <1>1, <2>2, <3>1, PutGiven
    <3> QED
      BY <1>1, <2>2, <3>2
  <2> QED
    BY <2>1, <2>2
<1> HIDE DEF taskArgs, globalArgs
<1>7. ASSUME NEW k \in DOMAIN tokens, k <= i, tokens[k].option
      PROVE  OptionKept(tokens, known, made, k)
  <2>1. CASE k # i
    <3>1. OptionKept(tokens, known, p, k)
      BY <1>0, <1>1, <1>7, <2>1
    <3> QED
      BY <1>3, <1>5, <3>1 DEF OptionKept
  <2>2. CASE k = i
    <3> SUFFICES ASSUME Valued(tokens, known, i), ForTask(known, t.name) \/ global
                 PROVE  key \in IF global THEN DOMAIN globalArgs ELSE DOMAIN taskArgs
      BY <1>3, <2>2 DEF OptionKept, ForGlobal
    <3>1. values # {}
      BY ValueIs
    <3>2. IF global THEN globalArgs = Put(p.globalArgs, key, values)
          ELSE taskArgs = Put(p.taskArgs, key, values)
      BY DEF taskArgs, globalArgs
    <3> HIDE DEF values, key, global
    <3> QED
      BY <3>1, <3>2, PutDomain
  <2> QED
    BY <2>1, <2>2
<1>8. ASSUME NEW k \in DOMAIN tokens, k < i, ~tokens[k].option
      PROVE  WordKept(tokens, known, made, k)
  <2>1. WordKept(tokens, known, p, k)
    BY <1>0, <1>1, <1>8
  <2>2. CASE k = known.task.index \/ known.task = NoTask \/ p.preTaskArgs # <<>>
             \/ tokens[k].name \in ToSet(p.positional)
    BY <1>3, <2>2 DEF WordKept
  <2>3. CASE ValueKept(tokens, known, p, k)
    <3> DEFINE name == tokens[k - 1].name
    <3>1. k > 1 /\ tokens[k - 1].option /\ k - 1 \in DOMAIN tokens /\ i # k - 1
      BY <1>0, <1>8, <2>3 DEF ValueKept
    <3>2. CASE KeptAs(known, name) = key
      <4>1. Again(tokens, known, k - 1)
        BY <3>1, <3>2 DEF Again
      <4> QED
        BY <3>1, <4>1 DEF ValueKept, WordKept
    <3>3. CASE KeptAs(known, name) # key
      <4>1. CASE Again(tokens, known, k - 1)
        BY <3>1, <4>1 DEF ValueKept, WordKept
      <4>2. CASE Holds(IF ForGlobal(known, name) THEN p.globalArgs ELSE p.taskArgs,
                       KeptAs(known, name), Text(tokens[k].name))
        <5>1. Holds(IF ForGlobal(known, name) THEN made.globalArgs ELSE made.taskArgs,
                    KeptAs(known, name), Text(tokens[k].name))
          BY <1>3, <1>5, <3>3, <4>2 DEF Holds
        <5> QED
          BY <3>1, <5>1 DEF ValueKept, WordKept
      <4> QED
        BY <2>3, <4>1, <4>2 DEF ValueKept
    <3> QED
      BY <3>2, <3>3
  <2> QED
    BY <2>1, <2>2, <2>3 DEF WordKept
<1>9. ASSUME NEW k \in DOMAIN tokens, k <= i \/ k < to, ~tokens[k].option
      PROVE  WordKept(tokens, known, made, k)
  <2>1. CASE k < i
    BY <1>8, <1>9, <2>1
  <2>2. CASE ~(k < i)
    <3>1. k = i + 1 /\ Takes(tokens, known, i)
      BY <1>0, <1>9, <2>2
    <3>2. values # {} /\ TheOne(values) = Text(tokens[i + 1].name) /\ (i + 1) - 1 = i
      BY <1>0, <3>1, ValueIs
    <3> HIDE DEF values, key, global
    <3>a. ASSUME NEW args
          PROVE  Holds(Put(args, key, values), key, Text(tokens[i + 1].name))
      <4>1. key \in DOMAIN Put(args, key, values)
        BY <3>2, PutDomain
      <4>2. Put(args, key, values)[key] = Text(tokens[i + 1].name)
        BY <3>2, PutAt
      <4> QED
        BY <4>1, <4>2 DEF Holds
    <3>3. Holds(IF global THEN made.globalArgs ELSE made.taskArgs, key, Text(tokens[i + 1].name))
      BY <1>3, <3>a DEF taskArgs, globalArgs
    <3>4. ValueKept(tokens, known, made, i + 1)
      BY <1>0, <3>2, <3>3 DEF ValueKept, key, global
    <3> QED
      BY <3>1, <3>4 DEF WordKept
  <2> QED
    BY <2>1, <2>2
<1>10. ASSUME NEW k \in DOMAIN tokens, i < k, k < to
       PROVE  ~tokens[k].option
  <2>1. k = i + 1 /\ Takes(tokens, known, i)
    BY <1>0, <1>10
  <2> QED
    BY <2>1, NextIs
<1>11. to <= i + 2
  BY <1>0
<1> HIDE DEF to
<1> QED
  BY <1>0, <1>1, <1>3, <1>4, <1>6, <1>7, <1>9, <1>10, <1>11 DEF ParseInv

LEMMA ParseWord ==
  ASSUME NEW tokens \in Seq(Token), NEW known, NEW p, NEW i \in DOMAIN tokens, NEW made,
         ParseInv(tokens, known, p, i - 1),
         Skips(tokens, known, p, i, made) \/ Appends(tokens, p, i, made),
         WordAt(tokens, known.task)
  PROVE  ParseInv(tokens, known, made, i)
<1> DEFINE t == tokens[i]
<1>0. Len(tokens) \in Nat /\ DOMAIN tokens = 1 .. Len(tokens) /\ i \in 1 .. Len(tokens)
      /\ t.name \in STRING
  <2>1. t \in Token
    OBVIOUS
  <2> QED
    BY <2>1 DEF Token
<1>1. /\ Parse(p) /\ p.taskId = known.task.id
      /\ p.next \in Nat /\ p.positional \in Seq(STRING) /\ p.preTaskArgs \in Seq(STRING)
      /\ p.next <= (i - 1) + 2
      /\ \A k \in DOMAIN tokens : i - 1 < k /\ k < p.next => ~tokens[k].option
      /\ \A k \in DOMAIN tokens : k <= i - 1 /\ tokens[k].option => OptionKept(tokens, known, p, k)
      /\ \A k \in DOMAIN tokens : (k <= i - 1 \/ k < p.next) /\ ~tokens[k].option =>
           WordKept(tokens, known, p, k)
      /\ Given(tokens, known, p.taskArgs, FALSE) /\ Given(tokens, known, p.globalArgs, TRUE)
  BY DEF ParseInv
<1>2. \A k \in DOMAIN tokens : (i < k => i - 1 < k) /\ (k <= i => k <= i - 1 \/ k = i)
                               /\ (k < p.next => p.next \in Nat)
  BY <1>0, <1>1
<1>3. CASE made = p /\ (i < p.next \/ i = known.task.index \/ (~t.option /\ known.task = NoTask))
  <2>1. ~t.option
    <3>1. CASE i < p.next
      BY <1>0, <1>1, <3>1
    <3>2. CASE i = known.task.index
      BY <1>0, <3>2 DEF WordAt, NoTask
    <3> QED
      BY <1>3, <3>1, <3>2
  <2>2. WordKept(tokens, known, p, i)
    <3>1. CASE i < p.next
      BY <1>1, <2>1, <3>1
    <3>2. CASE ~(i < p.next)
      BY <1>3, <3>2 DEF WordKept
    <3> QED
      BY <3>1, <3>2
  <2>3. p.next <= i + 2
    BY <1>0, <1>1
  <2> QED
    BY <1>1, <1>2, <1>3, <2>1, <2>2, <2>3 DEF ParseInv
<1>4. ASSUME ~t.option, i >= p.next, NEW positional \in Seq(STRING), NEW preTaskArgs \in Seq(STRING),
             made = [p EXCEPT !.positional = positional, !.preTaskArgs = preTaskArgs],
             ToSet(p.positional) \subseteq ToSet(positional),
             p.preTaskArgs # <<>> => preTaskArgs # <<>>,
             t.name \in ToSet(positional) \/ preTaskArgs # <<>>
      PROVE  ParseInv(tokens, known, made, i)
  <2>1. made = [taskId |-> p.taskId, taskArgs |-> p.taskArgs, positional |-> positional,
                preTaskArgs |-> preTaskArgs, globalArgs |-> p.globalArgs, next |-> p.next]
    BY <1>1, <1>4 DEF Parse
  <2>2. /\ made.next = p.next /\ made.taskArgs = p.taskArgs /\ made.globalArgs = p.globalArgs
        /\ made.positional = positional /\ made.preTaskArgs = preTaskArgs /\ made.taskId = p.taskId
        /\ Parse(made)
    BY <2>1 DEF Parse
  <2>3. \A k : WordKept(tokens, known, p, k) => WordKept(tokens, known, made, k)
    BY <1>4, <2>2 DEF WordKept, ValueKept
  <2>4. \A k : OptionKept(tokens, known, p, k) => OptionKept(tokens, known, made, k)
    BY <2>2 DEF OptionKept
  <2>5. WordKept(tokens, known, made, i)
    BY <1>4, <2>2 DEF WordKept
  <2>6. p.next <= i + 2
    BY <1>0, <1>1
  <2> QED
    BY <1>1, <1>2, <1>4, <2>2, <2>3, <2>4, <2>5, <2>6 DEF ParseInv
<1>5. ASSUME NEW s \in Seq(STRING)
      PROVE  /\ Append(s, t.name) \in Seq(STRING) /\ Append(s, t.name) # <<>>
             /\ ToSet(s) \subseteq ToSet(Append(s, t.name)) /\ t.name \in ToSet(Append(s, t.name))
  <2>1. Append(s, t.name) \in Seq(STRING) /\ ToSet(Append(s, t.name)) = ToSet(s) \cup {t.name}
    BY <1>0, AppendAll
  <2>2. Append(s, t.name) # <<>>
    BY <1>0
  <2> QED
    BY <2>1, <2>2
<1>6. CASE ~t.option /\ i >= p.next /\ made = [p EXCEPT !.positional = Append(p.positional, t.name)]
  <2>1. made = [p EXCEPT !.positional = Append(p.positional, t.name), !.preTaskArgs = p.preTaskArgs]
    BY <1>1, <1>6 DEF Parse
  <2> QED
    BY <1>1, <1>4, <1>5, <1>6, <2>1
<1>7. CASE ~t.option /\ i >= p.next /\ made = [p EXCEPT !.preTaskArgs = Append(p.preTaskArgs, t.name)]
  <2>1. made = [p EXCEPT !.positional = p.positional, !.preTaskArgs = Append(p.preTaskArgs, t.name)]
    BY <1>1, <1>7 DEF Parse
  <2> QED
    BY <1>1, <1>4, <1>5, <1>7, <2>1
<1> QED
  BY <1>3, <1>6, <1>7, Zenon DEF Skips, Appends

LEMMA ParseStep ==
  ASSUME NEW tokens \in Seq(Token), NEW known, WordAt(tokens, known.task), NEW p,
         NEW i \in DOMAIN tokens, ParseInv(tokens, known, p, i - 1)
  PROVE  ParseInv(tokens, known, ParseToken(tokens, known, p, i), i)
<1>1. Parse(p) /\ p.next \in Nat
  BY DEF ParseInv
<1>2. LET made == ParseToken(tokens, known, p, i)
      IN  \/ Skips(tokens, known, p, i, made)
          \/ i >= p.next /\ tokens[i].option /\ OptionStep(tokens, known, p, i, made)
          \/ Appends(tokens, p, i, made)
  BY <1>1, ParseTokenIs
<1> QED
  BY <1>2, ParseOption, ParseWord

(* A parse keeps the options of the task that have a value and every word, *)
(* and makes up nothing.                                                   *)
LEMMA ParseKeeps ==
  ASSUME NEW tokens \in Seq(Token), NEW globals, NEW ids
  PROVE  ParseInv(tokens, Lookups(tokens, globals, ids), parseArgs(tokens, globals, ids), Len(tokens))
<1> DEFINE n == Len(tokens)
           known == Lookups(tokens, globals, ids)
<1>0. WordAt(tokens, known.task)
  BY TaskFound DEF Lookups
<1> HIDE DEF known
<1>1. n \in Nat /\ DOMAIN tokens = 1 .. n
  OBVIOUS
<1>2. PICK R : ParseFunction(R, tokens, known, n) /\ parseArgs(tokens, globals, ids) = R[n]
  BY <1>1, ParseIs DEF known
<1> DEFINE S == {k \in Nat : k <= n => ParseInv(tokens, known, R[k], k)}
<1>3. 0 \in S
  <2>1. R[0] = ParseBegin(known.task)
    BY <1>1, <1>2 DEF ParseFunction
  <2>2. ParseInv(tokens, known, ParseBegin(known.task), 0)
    BY <1>1 DEF ParseInv, ParseBegin, Parse, Given, NoArgs
  <2> QED
    BY <2>1, <2>2
<1>4. ASSUME NEW k \in S
      PROVE  k + 1 \in S
  <2> SUFFICES ASSUME k + 1 <= n
               PROVE  ParseInv(tokens, known, R[k + 1], k + 1)
    OBVIOUS
  <2>1. k + 1 \in DOMAIN tokens /\ (k + 1) - 1 = k /\ k <= n /\ k + 1 # 0 /\ k + 1 \in 0 .. n
    BY <1>1
  <2>2. R[k + 1] = IF k + 1 = 0 THEN ParseBegin(known.task)
                   ELSE ParseToken(tokens, known, R[(k + 1) - 1], k + 1)
    BY <1>2, <2>1, Zenon DEF ParseFunction
  <2>3. R[k + 1] = ParseToken(tokens, known, R[k], k + 1)
    BY <2>1, <2>2
  <2>4. ParseInv(tokens, known, R[k], (k + 1) - 1)
    BY <2>1
  <2> HIDE DEF n, S
  <2> QED
    BY <1>0, <2>1, <2>3, <2>4, ParseStep
<1>5. S \in SUBSET Nat
  OBVIOUS
<1>6. n \in S
  <2> HIDE DEF S
  <2> QED
    BY <1>1, <1>3, <1>4, <1>5, NatSteps
<1>7. ParseInv(tokens, known, R[n], n)
  BY <1>6
<1> QED
  BY <1>2, <1>7 DEF known

-----------------------------------------------------------------------------
(* The registry                                                            *)

(* FlattenSeq(), list by list.                                             *)
FlattenFunction(R, seqs, n) ==
  R = [i \in 1 .. n |-> IF i = 1 THEN seqs[i] ELSE R[i - 1] \o seqs[i]]

LEMMA FlattenDefined ==
  ASSUME NEW seqs, NEW n \in Nat
  PROVE  \E R : FlattenFunction(R, seqs, n)
<1> DEFINE S == {k \in Nat : \E R : FlattenFunction(R, seqs, k)}
<1>1. 0 \in S
  <2>1. FlattenFunction([i \in 1 .. 0 |-> i], seqs, 0)
    BY DEF FlattenFunction
  <2> QED
    BY <2>1
<1>2. ASSUME NEW k \in S
      PROVE  k + 1 \in S
  <2>1. PICK R : FlattenFunction(R, seqs, k)
    OBVIOUS
  <2> DEFINE Next0(r, i) == IF i = 1 THEN seqs[i] ELSE r \o seqs[i]
             Q == [i \in 1 .. k + 1 |-> IF i = k + 1 THEN Next0(R[k], k + 1) ELSE R[i]]
  <2>2. \A i \in 1 .. k : R[i] = Next0(R[i - 1], i)
    BY <2>1 DEF FlattenFunction
  <2> HIDE DEF Next0
  <2>3. \A i \in 1 .. k + 1 : Q[i] = IF i = 1 THEN Next0(R[i - 1], i) ELSE Next0(Q[i - 1], i)
    BY <2>2
  <2>4. \A r, q : Next0(r, 1) = Next0(q, 1)
    BY DEF Next0
  <2>5. Q = [i \in 1 .. k + 1 |-> Next0(Q[i - 1], i)]
    BY <2>3, <2>4
  <2> HIDE DEF Q
  <2>6. FlattenFunction(Q, seqs, k + 1)
    BY <2>5 DEF FlattenFunction, Next0
  <2> QED
    BY <2>6
<1> HIDE DEF S
<1>3. S \in SUBSET Nat
  BY DEF S
<1>4. n \in S
  BY <1>1, <1>2, <1>3, NatSteps
<1> QED
  BY <1>4 DEF S

LEMMA FlattenIs ==
  ASSUME NEW seqs, Len(seqs) \in Nat, Len(seqs) # 0
  PROVE  \E R : FlattenFunction(R, seqs, Len(seqs)) /\ FlattenSeq(seqs) = R[Len(seqs)]
<1> DEFINE R == CHOOSE R : FlattenFunction(R, seqs, Len(seqs))
<1>1. FlattenFunction(R, seqs, Len(seqs))
  BY FlattenDefined
<1>2. FlattenSeq(seqs) = R[Len(seqs)]
  BY DEF FlattenSeq, FlattenFunction
<1> HIDE DEF R
<1> QED
  BY <1>1, <1>2

(* Lists of tasks are joined to a list of tasks.                           *)
LEMMA Flattened ==
  ASSUME NEW X, NEW seqs \in Seq(Seq(X))
  PROVE  FlattenSeq(seqs) \in Seq(X)
<1> DEFINE n == Len(seqs)
<1>0. n \in Nat /\ \A i \in 1 .. n : seqs[i] \in Seq(X)
  OBVIOUS
<1>1. CASE n = 0
  <2>1. FlattenSeq(seqs) = seqs
    BY <1>1 DEF FlattenSeq
  <2>2. seqs = <<>>
    BY <1>1
  <2> QED
    BY <2>1, <2>2
<1>2. CASE n # 0
  <2>1. PICK R : FlattenFunction(R, seqs, n) /\ FlattenSeq(seqs) = R[n]
    BY <1>0, <1>2, FlattenIs
  <2> DEFINE S == {k \in Nat : k \in 1 .. n => R[k] \in Seq(X)}
  <2> HIDE DEF n
  <2>2. 0 \in S
    OBVIOUS
  <2>3. ASSUME NEW k \in S
        PROVE  k + 1 \in S
    <3> SUFFICES ASSUME k + 1 \in 1 .. n
                 PROVE  R[k + 1] \in Seq(X)
      OBVIOUS
    <3>1. R[k + 1] = IF k + 1 = 1 THEN seqs[k + 1] ELSE R[(k + 1) - 1] \o seqs[k + 1]
      BY <2>1, Zenon DEF FlattenFunction
    <3>2. CASE k = 0
      BY <1>0, <3>1, <3>2
    <3>3. CASE k # 0
      <4>1. k \in 1 .. n /\ (k + 1) - 1 = k /\ k + 1 # 1
        BY <1>0, <3>3
      <4>2. R[k] \in Seq(X) /\ seqs[k + 1] \in Seq(X)
        BY <1>0, <4>1
      <4> QED
        BY <3>1, <4>1, <4>2
    <3> QED
      BY <3>2, <3>3
  <2>4. S \in SUBSET Nat
    OBVIOUS
  <2>5. n \in S
    <3> HIDE DEF S
    <3> QED
      BY <1>0, <2>2, <2>3, <2>4, NatSteps
  <2> QED
    BY <1>0, <1>2, <2>1, <2>5
<1> QED
  BY <1>1, <1>2

(* registerTasks(), definition by definition.                              *)
RegisterFunction(R, start, definitions, n) ==
  R = [i \in 0 .. n |-> IF i = 0 THEN start ELSE registerTask(R[i - 1], definitions[i])]

LEMMA RegisterDefined ==
  ASSUME NEW start, NEW definitions, NEW n \in Nat
  PROVE  \E R : RegisterFunction(R, start, definitions, n)
<1> DEFINE Step(r, i) == registerTask(r, definitions[i])
           S == {k \in Nat : \E R : RegisterFunction(R, start, definitions, k)}
<1>1. 0 \in S
  <2>1. RegisterFunction([i \in 0 .. 0 |-> start], start, definitions, 0)
    BY DEF RegisterFunction
  <2> QED
    BY <2>1
<1>2. ASSUME NEW k \in S
      PROVE  k + 1 \in S
  <2>1. PICK R : RegisterFunction(R, start, definitions, k)
    OBVIOUS
  <2> DEFINE Q == [i \in 0 .. k + 1 |-> IF i = k + 1 THEN Step(R[k], k + 1) ELSE R[i]]
  <2> HIDE DEF Step
  <2>2. \A i \in 0 .. k : R[i] = IF i = 0 THEN start ELSE Step(R[i - 1], i)
    BY <2>1 DEF RegisterFunction, Step
  <2>3. \A i \in 0 .. k + 1 : Q[i] = IF i = 0 THEN start ELSE Step(Q[i - 1], i)
    BY <2>2
  <2>4. Q = [i \in 0 .. k + 1 |-> IF i = 0 THEN start ELSE Step(Q[i - 1], i)]
    BY <2>3
  <2> HIDE DEF Q
  <2>5. RegisterFunction(Q, start, definitions, k + 1)
    BY <2>4 DEF RegisterFunction, Step
  <2> QED
    BY <2>5
<1> HIDE DEF S
<1>3. S \in SUBSET Nat
  BY DEF S
<1>4. n \in S
  BY <1>1, <1>2, <1>3, NatSteps
<1> QED
  BY <1>4 DEF S

LEMMA RegisterIs ==
  ASSUME NEW known, NEW definitions, Len(definitions) \in Nat
  PROVE  \E R : /\ RegisterFunction(R, {known}, definitions, Len(definitions))
               /\ registerTasks(known, definitions) = R[Len(definitions)]
<1> DEFINE R == CHOOSE R : RegisterFunction(R, {known}, definitions, Len(definitions))
<1>1. RegisterFunction(R, {known}, definitions, Len(definitions))
  BY RegisterDefined
<1>2. registerTasks(known, definitions) = R[Len(definitions)]
  BY DEF registerTasks, RegisterFunction
<1> HIDE DEF R
<1> QED
  BY <1>1, <1>2

(* The definition of a registered task is the one of a task that was       *)
(* given: an override changes the action only.                             *)
Entry(e) == e = [definition |-> e.definition, action |-> e.action, overrideChain |-> e.overrideChain]

(* Every task of a registry has the arguments of one of the definitions.   *)
Registry(t, X) ==
  /\ t = [id \in DOMAIN t |-> t[id]]
  /\ \A id \in DOMAIN t : Entry(t[id]) /\ \E d \in X : t[id].definition = d.definition

LEMMA EntryOverridden ==
  ASSUME NEW e, Entry(e), NEW action, NEW chain
  PROVE  [e EXCEPT !.action = action, !.overrideChain = chain] =
         [definition |-> e.definition, action |-> action, overrideChain |-> chain]
<1>1. DOMAIN e = {"definition", "action", "overrideChain"}
  BY Zenon DEF Entry
<1> DEFINE made == [e EXCEPT !.action = action, !.overrideChain = chain]
<1>2. DOMAIN made = {"definition", "action", "overrideChain"}
  BY <1>1
<1>3. made = [f \in DOMAIN made |-> made[f]]
  OBVIOUS
<1>4. made.definition = e.definition /\ made.action = action /\ made.overrideChain = chain
  BY <1>1
<1> HIDE DEF made
<1>5. made = [definition |-> e.definition, action |-> action, overrideChain |-> chain]
  BY <1>2, <1>3, <1>4
<1> QED
  BY <1>5 DEF made

LEMMA RegisterKeeps ==
  ASSUME NEW X, NEW acc, \A t \in acc : Registry(t, X), NEW d \in X
  PROVE  \A t \in registerTask(acc, d) : Registry(t, X)
<1> DEFINE s == CHOOSE t \in acc : TRUE
<1>0. acc # {} => Registry(s, X)
  OBVIOUS
<1> HIDE DEF s
<1>1. CASE acc # {} /\ d.overrides /\ d.id \in DOMAIN s
  <2> DEFINE chain == <<s[d.id].action>> \o s[d.id].overrideChain
             e == [s[d.id] EXCEPT !.action = d.action, !.overrideChain = chain]
             made == [s EXCEPT ![d.id].action = d.action,
                               ![d.id].overrideChain = <<s[d.id].action>> \o @]
  <2>1. registerTask(acc, d) = {made}
    BY <1>1 DEF registerTask, s
  <2>2. Entry(s[d.id]) /\ Registry(s, X)
    BY <1>0, <1>1 DEF Registry
  <2>3. made = [id \in DOMAIN s |-> IF id = d.id THEN e ELSE s[id]]
    BY <1>1, <2>2 DEF Entry, Registry
  <2> HIDE DEF chain
  <2>4. Entry(e) /\ e.definition = s[d.id].definition
    <3>1. e = [definition |-> s[d.id].definition, action |-> d.action, overrideChain |-> chain]
      BY <2>2, EntryOverridden
    <3> HIDE DEF e
    <3> QED
      BY <3>1 DEF Entry
  <2> HIDE DEF e, made
  <2>5. Registry(made, X)
    BY <1>1, <2>2, <2>3, <2>4 DEF Registry
  <2> QED
    BY <2>1, <2>5
<1>2. CASE acc # {} /\ ~d.overrides /\ d.id \notin DOMAIN s
  <2> DEFINE e == [definition |-> d.definition, action |-> d.action, overrideChain |-> <<>>]
             made == Over(Field(d.id, e), s)
  <2>1. registerTask(acc, d) = {made}
    BY <1>2 DEF registerTask, s
  <2>2. Entry(e) /\ e.definition = d.definition
    BY DEF Entry
  <2> HIDE DEF e
  <2>3. DOMAIN made = DOMAIN s \cup {d.id} /\ made = [id \in DOMAIN made |-> made[id]]
    BY DEF Over, Field
  <2>4. \A id \in DOMAIN s : made[id] = s[id]
    BY <1>2 DEF Over, Field
  <2>5. made[d.id] = e
    BY DEF Over, Field
  <2> HIDE DEF made
  <2>6. Registry(made, X)
    BY <1>0, <1>2, <2>2, <2>3, <2>4, <2>5 DEF Registry
  <2> QED
    BY <2>1, <2>6
<1>3. CASE ~(acc # {} /\ d.overrides /\ d.id \in DOMAIN s)
           /\ ~(acc # {} /\ ~d.overrides /\ d.id \notin DOMAIN s)
  <2>1. registerTask(acc, d) = {}
    BY <1>3 DEF registerTask, s
  <2> QED
    BY <2>1
<1> QED
  BY <1>1, <1>2, <1>3

(* What is registered comes from the definitions.                          *)
LEMMA Registered ==
  ASSUME NEW X, NEW definitions \in Seq(X)
  PROVE  \A t \in registerTasks(NoTasks, definitions) : Registry(t, X)
<1> DEFINE n == Len(definitions)
<1>0. n \in Nat /\ \A i \in 1 .. n : definitions[i] \in X
  OBVIOUS
<1>1. PICK R : /\ RegisterFunction(R, {NoTasks}, definitions, n)
               /\ registerTasks(NoTasks, definitions) = R[n]
  BY <1>0, RegisterIs
<1> HIDE DEF n
<1> DEFINE S == {k \in Nat : k <= n => \A t \in R[k] : Registry(t, X)}
<1>2. 0 \in S
  <2>1. R[0] = {NoTasks}
    BY <1>0, <1>1 DEF RegisterFunction
  <2>2. Registry(NoTasks, X)
    BY DEF Registry, NoTasks
  <2> QED
    BY <2>1, <2>2
<1>3. ASSUME NEW k \in S
      PROVE  k + 1 \in S
  <2> SUFFICES ASSUME k + 1 <= n
               PROVE  \A t \in R[k + 1] : Registry(t, X)
    OBVIOUS
  <2>1. k + 1 \in 1 .. n /\ (k + 1) - 1 = k /\ k <= n /\ k + 1 # 0 /\ k + 1 \in 0 .. n
    BY <1>0
  <2>2. R[k + 1] = IF k + 1 = 0 THEN {NoTasks} ELSE registerTask(R[(k + 1) - 1], definitions[k + 1])
    BY <1>1, <2>1, Zenon DEF RegisterFunction
  <2>3. definitions[k + 1] \in X /\ \A t \in R[k] : Registry(t, X)
    BY <1>0, <2>1
  <2>4. R[k + 1] = registerTask(R[k], definitions[k + 1])
    BY <2>1, <2>2
  <2> QED
    BY <2>3, <2>4, RegisterKeeps
<1>4. S \in SUBSET Nat
  OBVIOUS
<1>5. n \in S
  <2> HIDE DEF S
  <2> QED
    BY <1>0, <1>2, <1>3, <1>4, NatSteps
<1> QED
  BY <1>0, <1>1, <1>5

-----------------------------------------------------------------------------
(* The arguments of an action                                              *)

DeclaredIn(def) == NamesOf(def.options) \cup def.flags \cup NamesOf(ToSet(def.positionals))

(* Options, flags and positionals of a task share no spelling.             *)
LEMMA ClassesApart ==
  ASSUME NEW def, Buildable(def)
  PROVE  LET O == PublicNames(NamesOf(def.options))
             F == PublicNames(def.flags)
             P == PublicNames(NamesOf(ToSet(def.positionals)))
         IN  O \cap F = {} /\ O \cap P = {} /\ F \cap P = {}
<1> DEFINE names == [option |-> NamesOf(def.options), flag |-> def.flags,
                     positional |-> NamesOf(ToSet(def.positionals))]
<1>1. \A j, k \in DOMAIN names : j # k => PublicNames(names[j]) \cap PublicNames(names[k]) = {}
  BY DEF Buildable
<1>2. /\ names["option"] = NamesOf(def.options) /\ names["flag"] = def.flags
      /\ names["positional"] = NamesOf(ToSet(def.positionals))
      /\ "option" \in DOMAIN names /\ "flag" \in DOMAIN names /\ "positional" \in DOMAIN names
  OBVIOUS
<1> HIDE DEF names
<1> QED
  BY <1>1, <1>2

(* No two names of a task share a spelling.                                *)
LEMMA DeclaredApart ==
  ASSUME NEW def, Buildable(def), NEW m \in DeclaredIn(def), NEW n \in DeclaredIn(def), m # n
  PROVE  Apart(m, n)
<1> DEFINE O == NamesOf(def.options)
           F == def.flags
           P == NamesOf(ToSet(def.positionals))
<1>1. /\ \A o, q \in def.options : o # q => Apart(o.name, q.name)
      /\ \A x, y \in def.flags : x # y => Apart(x, y)
      /\ \A j, k \in DOMAIN def.positionals :
           j # k => Apart(def.positionals[j].name, def.positionals[k].name)
  BY DEF Buildable
<1>2. /\ PublicNames(O) \cap PublicNames(F) = {} /\ PublicNames(O) \cap PublicNames(P) = {}
      /\ PublicNames(F) \cap PublicNames(P) = {}
  BY ClassesApart
<1>3. ASSUME NEW A, NEW B, PublicNames(A) \cap PublicNames(B) = {}, NEW x \in A, NEW y \in B
      PROVE  Apart(x, y) /\ Apart(y, x)
  <2>1. getPublicArgumentNames(x) \subseteq PublicNames(A) /\ getPublicArgumentNames(y) \subseteq PublicNames(B)
    BY DEF PublicNames
  <2> QED
    BY <1>3, <2>1 DEF Apart
<1>4. ASSUME m \in O, n \in O
      PROVE  Apart(m, n)
  BY <1>1, <1>4 DEF NamesOf
<1>5. ASSUME m \in P, n \in P
      PROVE  Apart(m, n)
  <2>1. PICK j \in DOMAIN def.positionals : def.positionals[j].name = m
    BY <1>5 DEF NamesOf, ToSet
  <2>2. PICK k \in DOMAIN def.positionals : def.positionals[k].name = n
    BY <1>5 DEF NamesOf, ToSet
  <2> QED
    BY <1>1, <2>1, <2>2
<1>6. ASSUME m \in F, n \in F
      PROVE  Apart(m, n)
  BY <1>1, <1>6
<1>7. m \in O \cup F \cup P /\ n \in O \cup F \cup P
  BY DEF DeclaredIn
<1> HIDE DEF O, F, P
<1> QED
  BY <1>2, <1>3, <1>4, <1>5, <1>6, <1>7

(* A declared name stands for itself.                                      *)
LEMMA DeclaredOwner ==
  ASSUME NEW def, Buildable(def), NEW D \in SUBSET DeclaredIn(def), NEW n \in D
  PROVE  /\ n \in PublicNames(D)
         /\ \A p \in getPublicArgumentNames(n) : (CHOOSE m \in D : p \in getPublicArgumentNames(m)) = n
<1>1. n \in getPublicArgumentNames(n)
  BY DEF getPublicArgumentNames
<1>2. n \in PublicNames(D)
  BY <1>1 DEF PublicNames
<1>3. ASSUME NEW p \in getPublicArgumentNames(n)
      PROVE  (CHOOSE m \in D : p \in getPublicArgumentNames(m)) = n
  <2> DEFINE m == CHOOSE m \in D : p \in getPublicArgumentNames(m)
  <2>1. m \in D /\ p \in getPublicArgumentNames(m)
    OBVIOUS
  <2> HIDE DEF m
  <2>2. m # n => Apart(m, n)
    BY <2>1, DeclaredApart
  <2>3. m = n
    BY <2>1, <2>2 DEF Apart
  <2> QED
    BY <2>3 DEF m
<1> QED
  BY <1>2, <1>3

(* A value as it comes from the command line.                              *)
Plain(v) == v \in {Bool(TRUE), Bool(FALSE)} \/ \E w : v = Text(w)

(* Arguments that have their declared names keep them, and their words.    *)
LEMMA Normalized ==
  ASSUME NEW def, Buildable(def), NEW args, DOMAIN args \subseteq DeclaredIn(def),
         \A n \in DOMAIN args : Plain(args[n])
  PROVE  /\ DOMAIN normalizeArgs(def, args) = DOMAIN args
         /\ \A n \in DOMAIN args : normalizeArgs(def, args)[n].words = args[n].words
<1> DEFINE declared == NamesOf(def.options) \cup def.flags \cup NamesOf(ToSet(def.positionals))
           numbers == {o.name : o \in {p \in def.options : p.type = "number"}}
           Canonical(key) == IF key \in PublicNames(declared)
                               THEN CHOOSE n \in declared : key \in getPublicArgumentNames(n) ELSE key
           Coerced(n, v) == IF n \in numbers /\ v.is = "string" /\ v.words[1] \in Numerals
                              THEN Number(v.words[1]) ELSE v
<1>1. normalizeArgs(def, args) = [n \in {Canonical(key) : key \in DOMAIN args} |->
                                   Coerced(n, args[CHOOSE key \in DOMAIN args : Canonical(key) = n])]
  BY DEF normalizeArgs
<1>2. declared = DeclaredIn(def)
  BY DEF DeclaredIn
<1>3. \A n \in DOMAIN args : Canonical(n) = n
  <2> HIDE DEF declared
  <2>1. \A n \in DOMAIN args : n \in declared /\ n \in getPublicArgumentNames(n)
    BY <1>2 DEF getPublicArgumentNames
  <2> QED
    BY <1>2, <2>1, DeclaredOwner
<1>4. \A n \in DOMAIN args : Coerced(n, args[n]).words = args[n].words
  <2> HIDE DEF numbers
  <2> QED
    BY DEF Plain, Bool, Text, Number
<1> HIDE DEF Canonical, Coerced
<1>5. {Canonical(key) : key \in DOMAIN args} = DOMAIN args
  BY <1>3
<1>6. \A n \in DOMAIN args : (CHOOSE key \in DOMAIN args : Canonical(key) = n) = n
  BY <1>3
<1>7. normalizeArgs(def, args) = [n \in DOMAIN args |-> Coerced(n, args[n])]
  BY <1>1, <1>5, <1>6
<1> QED
  BY <1>4, <1>7

-----------------------------------------------------------------------------
(* The bare words                                                          *)

(* applyPositionalArguments(), positional by positional.                   *)
BindFunction(R, positionals, start, n) ==
  R = [i \in 0 .. n |-> IF i = 0 THEN start ELSE Bind(R[i - 1], positionals[i])]

LEMMA BindDefined ==
  ASSUME NEW positionals, NEW start, NEW n \in Nat
  PROVE  \E R : BindFunction(R, positionals, start, n)
<1> DEFINE Step(r, i) == Bind(r, positionals[i])
           S == {k \in Nat : \E R : BindFunction(R, positionals, start, k)}
<1>1. 0 \in S
  <2>1. BindFunction([i \in 0 .. 0 |-> start], positionals, start, 0)
    BY DEF BindFunction
  <2> QED
    BY <2>1
<1>2. ASSUME NEW k \in S
      PROVE  k + 1 \in S
  <2>1. PICK R : BindFunction(R, positionals, start, k)
    OBVIOUS
  <2> DEFINE Q == [i \in 0 .. k + 1 |-> IF i = k + 1 THEN Step(R[k], k + 1) ELSE R[i]]
  <2> HIDE DEF Step
  <2>2. \A i \in 0 .. k : R[i] = IF i = 0 THEN start ELSE Step(R[i - 1], i)
    BY <2>1 DEF BindFunction, Step
  <2>3. \A i \in 0 .. k + 1 : Q[i] = IF i = 0 THEN start ELSE Step(Q[i - 1], i)
    BY <2>2
  <2>4. Q = [i \in 0 .. k + 1 |-> IF i = 0 THEN start ELSE Step(Q[i - 1], i)]
    BY <2>3
  <2> HIDE DEF Q
  <2>5. BindFunction(Q, positionals, start, k + 1)
    BY <2>4 DEF BindFunction, Step
  <2> QED
    BY <2>5
<1> HIDE DEF S
<1>3. S \in SUBSET Nat
  BY DEF S
<1>4. n \in S
  BY <1>1, <1>2, <1>3, NatSteps
<1> QED
  BY <1>4 DEF S

LEMMA BoundIs ==
  ASSUME NEW def, NEW args, NEW words, Len(def.positionals) \in Nat
  PROVE  \E R : /\ BindFunction(R, def.positionals, [args |-> args, words |-> words],
                               Len(def.positionals))
               /\ applyPositionalArguments(def, args, words) = R[Len(def.positionals)].args
<1> DEFINE start == [args |-> args, words |-> words]
           R == CHOOSE R : BindFunction(R, def.positionals, start, Len(def.positionals))
<1>1. BindFunction(R, def.positionals, start, Len(def.positionals))
  <2> HIDE DEF start
  <2> QED
    BY BindDefined
<1>2. applyPositionalArguments(def, args, words) = R[Len(def.positionals)].args
  BY DEF applyPositionalArguments, BindFunction
<1> HIDE DEF R
<1> QED
  BY <1>1, <1>2

LEMMA FieldsKept ==
  ASSUME NEW args, NEW name, NEW v, name \notin DOMAIN args
  PROVE  \A n \in DOMAIN args : Over(Field(name, v), args)[n] = args[n]
BY DEF Over, Field

LEMMA FieldAdded ==
  ASSUME NEW args, NEW name, NEW v
  PROVE  DOMAIN Over(Field(name, v), args) = DOMAIN args \cup {name}
BY DEF Over, Field

LEMMA WordsGrow ==
  ASSUME NEW args, NEW name, NEW v, name \notin DOMAIN args
  PROVE  WordsOf(Over(Field(name, v), args)) = WordsOf(args) \cup ToSet(v.words)
<1> DEFINE made == Over(Field(name, v), args)
<1>1. \A n \in DOMAIN args : made[n] = args[n]
  BY DEF Over, Field
<1>2. DOMAIN made = DOMAIN args \cup {name} /\ made[name] = v
  BY DEF Over, Field
<1> HIDE DEF made
<1>3. WordsOf(made) = WordsOf(args) \cup ToSet(v.words)
  BY <1>1, <1>2 DEF WordsOf
<1> QED
  BY <1>3 DEF made

(* The positionals among the first k that have no value by name.           *)
FreeOf(positionals, args, k) == {j \in 1 .. k : positionals[j].name \notin DOMAIN args}

LEMMA FreeGrows ==
  ASSUME NEW positionals, NEW args, NEW k \in Nat
  PROVE  LET free == Cardinality(FreeOf(positionals, args, k))
             more == Cardinality(FreeOf(positionals, args, k + 1))
         IN  /\ free \in Nat
             /\ more = IF positionals[k + 1].name \in DOMAIN args THEN free ELSE free + 1
<1> DEFINE S == FreeOf(positionals, args, k)
           T == FreeOf(positionals, args, k + 1)
<1>1. IsFiniteSet(S)
  <2>1. IsFiniteSet(1 .. k)
    BY FS_Interval
  <2>2. S \subseteq 1 .. k
    BY DEF FreeOf
  <2> QED
    BY <2>1, <2>2, FS_Subset
<1>2. Cardinality(S) \in Nat
  BY <1>1, FS_CardinalityType
<1>3. CASE positionals[k + 1].name \in DOMAIN args
  <2>1. T = S
    BY <1>3 DEF FreeOf
  <2> QED
    BY <1>2, <1>3, <2>1
<1>4. CASE positionals[k + 1].name \notin DOMAIN args
  <2>1. T = S \cup {k + 1} /\ k + 1 \notin S
    BY <1>4 DEF FreeOf
  <2>2. Cardinality(T) = Cardinality(S) + 1
    BY <1>1, <2>1, FS_AddElement
  <2> QED
    BY <1>2, <1>4, <2>2
<1> QED
  BY <1>3, <1>4

(* Every word is bound or left, and each positional without a value takes  *)
(* one, a variadic one all.                                                *)
BindInv(positionals, args, words, acc, k) ==
  /\ acc = [args |-> acc.args, words |-> acc.words]
  /\ \A n \in DOMAIN args : n \in DOMAIN acc.args /\ acc.args[n] = args[n]
  /\ \A n \in DOMAIN acc.args : n \in DOMAIN args \/ \E j \in 1 .. k : positionals[j].name = n
  /\ acc.words \in Seq(STRING)
  /\ ToSet(words) \subseteq ToSet(acc.words) \cup WordsOf(acc.args)
  /\ acc.words # <<>> =>
       /\ Len(acc.words) = Len(words) - Cardinality(FreeOf(positionals, args, k))
       /\ \A j \in FreeOf(positionals, args, k) : ~positionals[j].variadic

DistinctNames(positionals) ==
  \A j, k \in DOMAIN positionals : positionals[j].name = positionals[k].name => j = k

LEMMA BindKeeps ==
  ASSUME NEW X, NEW positionals \in Seq(X), DistinctNames(positionals), NEW args,
         NEW words \in Seq(STRING), NEW acc, NEW k \in Nat, k + 1 \in DOMAIN positionals,
         BindInv(positionals, args, words, acc, k)
  PROVE  BindInv(positionals, args, words, Bind(acc, positionals[k + 1]), k + 1)
<1> DEFINE p == positionals[k + 1]
           made == Bind(acc, p)
           free == Cardinality(FreeOf(positionals, args, k))
           more == Cardinality(FreeOf(positionals, args, k + 1))
<1>0. Len(positionals) \in Nat /\ DOMAIN positionals = 1 .. Len(positionals) /\ Len(words) \in Nat
      /\ \A j \in 1 .. k : j \in DOMAIN positionals /\ j # k + 1 /\ j \in 1 .. k + 1
  OBVIOUS
<1>1. /\ acc = [args |-> acc.args, words |-> acc.words]
      /\ \A n \in DOMAIN args : n \in DOMAIN acc.args /\ acc.args[n] = args[n]
      /\ \A n \in DOMAIN acc.args : n \in DOMAIN args \/ \E j \in 1 .. k : positionals[j].name = n
      /\ acc.words \in Seq(STRING)
      /\ ToSet(words) \subseteq ToSet(acc.words) \cup WordsOf(acc.args)
  BY DEF BindInv
<1>2. acc.words # <<>> =>
        /\ Len(acc.words) = Len(words) - free
        /\ \A j \in FreeOf(positionals, args, k) : ~positionals[j].variadic
  BY DEF BindInv
<1>3. free \in Nat /\ more = IF p.name \in DOMAIN args THEN free ELSE free + 1
  BY FreeGrows
<1>4. p.name \in DOMAIN acc.args => p.name \in DOMAIN args
  BY <1>0, <1>1 DEF DistinctNames
<1>5. \A j \in FreeOf(positionals, args, k + 1) :
        j \in FreeOf(positionals, args, k) \/ (j = k + 1 /\ p.name \notin DOMAIN args)
  BY DEF FreeOf
<1>6. \A n : (\E j \in 1 .. k : positionals[j].name = n) => \E j \in 1 .. k + 1 : positionals[j].name = n
  BY <1>0
<1> HIDE DEF free, more
<1>7. CASE p.name \in DOMAIN acc.args \/ acc.words = <<>>
  <2>1. made = acc
    BY <1>7 DEF Bind
  <2>2. acc.words # <<>> =>
          /\ Len(acc.words) = Len(words) - more
          /\ \A j \in FreeOf(positionals, args, k + 1) : ~positionals[j].variadic
    BY <1>2, <1>3, <1>4, <1>5, <1>7
  <2> HIDE DEF made
  <2> QED
    BY <1>1, <1>6, <2>1, <2>2 DEF BindInv, made, more
<1>8. CASE p.name \notin DOMAIN acc.args /\ acc.words # <<>>
  <2> DEFINE v == IF p.variadic THEN List(acc.words) ELSE Text(Head(acc.words))
             left == IF p.variadic THEN <<>> ELSE Tail(acc.words)
             bound == Over(Field(p.name, v), acc.args)
  <2>1. made = [args |-> bound, words |-> left]
    BY <1>8, Zenon DEF Bind
  <2>2. /\ Head(acc.words) \in STRING /\ Tail(acc.words) \in Seq(STRING)
        /\ ToSet(acc.words) = {Head(acc.words)} \cup ToSet(Tail(acc.words))
        /\ Len(Tail(acc.words)) = Len(acc.words) - 1
    BY <1>1, <1>8, HeadAndTail
  <2>3. left \in Seq(STRING) /\ ToSet(acc.words) \subseteq ToSet(left) \cup ToSet(v.words)
    <3>1. CASE p.variadic
      BY <3>1 DEF List
    <3>2. CASE ~p.variadic
      <4>1. v.words = <<Head(acc.words)>> /\ left = Tail(acc.words)
        BY <3>2 DEF Text
      <4>2. Head(acc.words) \in ToSet(<<Head(acc.words)>>)
        BY DEF ToSet
      <4> HIDE DEF v, left
      <4> QED
        BY <2>2, <4>1, <4>2
    <3> QED
      BY <3>1, <3>2
  <2>4. left # <<>> => ~p.variadic /\ Len(left) = Len(acc.words) - 1
    BY <2>2
  <2> HIDE DEF v, left
  <2>5. /\ \A n \in DOMAIN acc.args : bound[n] = acc.args[n]
        /\ DOMAIN bound = DOMAIN acc.args \cup {p.name}
        /\ WordsOf(bound) = WordsOf(acc.args) \cup ToSet(v.words)
    <3>1. \A n \in DOMAIN acc.args : bound[n] = acc.args[n]
      BY <1>8, FieldsKept
    <3>a. DOMAIN bound = DOMAIN acc.args \cup {p.name}
      BY FieldAdded, Zenon
    <3>2. WordsOf(bound) = WordsOf(acc.args) \cup ToSet(v.words)
      BY <1>8, WordsGrow, Zenon
    <3> QED
      BY <3>1, <3>a, <3>2, Zenon
  <2> HIDE DEF bound
  <2>6. p.name \notin DOMAIN args
    BY <1>1, <1>8
  <2>7. left # <<>> =>
          /\ Len(left) = Len(words) - more
          /\ \A j \in FreeOf(positionals, args, k + 1) : ~positionals[j].variadic
    BY <1>0, <1>2, <1>3, <1>5, <1>8, <2>4, <2>6
  <2>8. \A n \in DOMAIN bound : n \in DOMAIN args \/ \E j \in 1 .. k + 1 : positionals[j].name = n
    <3>1. k + 1 \in 1 .. k + 1
      OBVIOUS
    <3> QED
      BY <1>1, <1>6, <2>5, <3>1
  <2>9. \A n \in DOMAIN args : n \in DOMAIN bound /\ bound[n] = args[n]
    BY <1>1, <2>5
  <2>10. ToSet(words) \subseteq ToSet(left) \cup WordsOf(bound)
    BY <1>1, <2>3, <2>5
  <2>11. made.args = bound /\ made.words = left /\ made = [args |-> made.args, words |-> made.words]
    BY <2>1
  <2> HIDE DEF made
  <2> QED
    BY <2>3, <2>7, <2>8, <2>9, <2>10, <2>11 DEF BindInv, made, more
<1> QED
  BY <1>7, <1>8

(* What the positionals are bound to at the end.                           *)
LEMMA BoundAll ==
  ASSUME NEW X, NEW def, def.positionals \in Seq(X), DistinctNames(def.positionals), NEW args,
         NEW words \in Seq(STRING)
  PROVE  \E acc : /\ applyPositionalArguments(def, args, words) = acc.args
                 /\ BindInv(def.positionals, args, words, acc, Len(def.positionals))
<1> DEFINE positionals == def.positionals
           n == Len(positionals)
           start == [args |-> args, words |-> words]
<1>0. n \in Nat /\ DOMAIN positionals = 1 .. n
  OBVIOUS
<1>1. PICK R : /\ BindFunction(R, positionals, start, n)
               /\ applyPositionalArguments(def, args, words) = R[n].args
  BY <1>0, BoundIs
<1> HIDE DEF n
<1> DEFINE S == {k \in Nat : k <= n => BindInv(positionals, args, words, R[k], k)}
<1>2. 0 \in S
  <2>1. R[0] = start
    BY <1>0, <1>1 DEF BindFunction
  <2>2. FreeOf(positionals, args, 0) = {} /\ Cardinality({}) = 0
    BY FS_EmptySet DEF FreeOf
  <2>3. start.args = args /\ start.words = words /\ start = [args |-> start.args, words |-> start.words]
    OBVIOUS
  <2> HIDE DEF start
  <2>4. BindInv(positionals, args, words, start, 0)
    <3> HIDE DEF positionals
    <3>0. Cardinality(FreeOf(positionals, args, 0)) = 0
      BY <2>2, Zenon
    <3>a. Len(words) \in Nat
      OBVIOUS
    <3>1. Len(words) = Len(words) - Cardinality(FreeOf(positionals, args, 0))
      BY <3>0, <3>a
    <3>2. \A j \in FreeOf(positionals, args, 0) : ~positionals[j].variadic
      BY <2>2
    <3> QED
      BY <2>3, <3>1, <3>2, Zenon DEF BindInv
  <2> QED
    BY <2>1, <2>4
<1>3. ASSUME NEW k \in S
      PROVE  k + 1 \in S
  <2> SUFFICES ASSUME k + 1 <= n
               PROVE  BindInv(positionals, args, words, R[k + 1], k + 1)
    OBVIOUS
  <2>1. k + 1 \in DOMAIN positionals /\ (k + 1) - 1 = k /\ k <= n /\ k + 1 # 0 /\ k + 1 \in 0 .. n
        /\ k \in Nat
    BY <1>0
  <2>2. R[k + 1] = IF k + 1 = 0 THEN start ELSE Bind(R[(k + 1) - 1], positionals[k + 1])
    BY <1>1, <2>1, Zenon DEF BindFunction
  <2>3. R[k + 1] = Bind(R[k], positionals[k + 1])
    BY <2>1, <2>2
  <2>4. BindInv(positionals, args, words, R[k], k)
    BY <2>1
  <2> HIDE DEF S
  <2> QED
    BY <2>1, <2>3, <2>4, BindKeeps
<1>4. S \in SUBSET Nat
  OBVIOUS
<1>5. n \in S
  <2> HIDE DEF S
  <2> QED
    BY <1>0, <1>2, <1>3, <1>4, NatSteps
<1>6. BindInv(positionals, args, words, R[n], n)
  BY <1>0, <1>5
<1> QED
  BY <1>1, <1>6 DEF n

(* A definition made by a TaskBuilder.                                     *)
BuiltDef(def) == Buildable(def) /\ def.positionals \in Seq(ToSet(def.positionals))

(* The words are not more than there are places for them.                  *)
Fits(def, args, words) ==
  IF def.positionals # <<>> /\ Last(def.positionals).variadic
    THEN Last(def.positionals).name \notin DOMAIN args
    ELSE Len(words) <= Cardinality(FreeOf(def.positionals, args, Len(def.positionals)))

LEMMA PositionalsDistinct ==
  ASSUME NEW def, Buildable(def)
  PROVE  DistinctNames(def.positionals)
<1> SUFFICES ASSUME NEW j \in DOMAIN def.positionals, NEW k \in DOMAIN def.positionals,
                    def.positionals[j].name = def.positionals[k].name, j # k
             PROVE  FALSE
  BY DEF DistinctNames
<1>1. Apart(def.positionals[j].name, def.positionals[k].name)
  BY DEF Buildable
<1> QED
  BY <1>1 DEF Apart, getPublicArgumentNames

(* Defaults give no positional a value.                                    *)
LEMMA MergedDefaults ==
  ASSUME NEW def, BuiltDef(def), NEW args
  PROVE  /\ \A n \in DOMAIN args : n \in DOMAIN mergeDefaults(def, args)
                                  /\ mergeDefaults(def, args)[n] = args[n]
         /\ \A k \in DOMAIN def.positionals :
              def.positionals[k].name \in DOMAIN mergeDefaults(def, args) =>
                def.positionals[k].name \in DOMAIN args
<1> DEFINE defaulted == {o \in def.options : o.default # NoValue}
           options == [n \in NamesOf(defaulted) |-> Text((CHOOSE o \in defaulted : o.name = n).default)]
           flags == [f \in def.flags |-> Bool(FALSE)]
           made == mergeDefaults(def, args)
<1>1. made = Over(args, Over(options, flags))
  BY DEF mergeDefaults
<1>2. DOMAIN options \subseteq NamesOf(def.options) /\ DOMAIN flags = def.flags
  BY DEF NamesOf
<1> HIDE DEF made, options, flags
<1>3. /\ \A n \in DOMAIN args : n \in DOMAIN made /\ made[n] = args[n]
      /\ DOMAIN made \subseteq DOMAIN args \cup NamesOf(def.options) \cup def.flags
  BY <1>1, <1>2 DEF Over
<1>4. ASSUME NEW k \in DOMAIN def.positionals, def.positionals[k].name \notin DOMAIN args
      PROVE  def.positionals[k].name \notin DOMAIN made
  <2> DEFINE n == def.positionals[k].name
  <2>1. n \in NamesOf(ToSet(def.positionals))
    BY DEF NamesOf, ToSet
  <2>2. \A S : n \in S => n \in PublicNames(S)
    BY DEF PublicNames, getPublicArgumentNames
  <2> HIDE DEF n
  <2>3. n \notin NamesOf(def.options) /\ n \notin def.flags
    BY <2>1, <2>2, ClassesApart DEF BuiltDef
  <2> QED
    BY <1>3, <1>4, <2>3 DEF n
<1> QED
  BY <1>3, <1>4 DEF made

(* The arguments an action is called with keep every argument that was     *)
(* given and every bare word.                                              *)
LEMMA ArgsPrepared ==
  ASSUME NEW def, BuiltDef(def), NEW args, DOMAIN args \subseteq DeclaredIn(def),
         \A n \in DOMAIN args : Plain(args[n]),
         NEW words \in Seq(STRING), Fits(def, args, words),
         NEW a \in prepareArgs(def, args, words)
  PROVE  /\ \A n \in DOMAIN args : n \in DOMAIN a /\ a[n].words = args[n].words
         /\ ToSet(words) \subseteq WordsOf(a)
<1> DEFINE normal == normalizeArgs(def, args)
           merged == mergeDefaults(def, normal)
           positionals == def.positionals
           n == Len(positionals)
<1>0. positionals \in Seq(ToSet(positionals)) /\ n \in Nat /\ DOMAIN positionals = 1 .. n
      /\ Len(words) \in Nat
  BY DEF BuiltDef
<1>1. a = applyPositionalArguments(def, merged, words)
  BY DEF prepareArgs
<1>2. DOMAIN normal = DOMAIN args /\ \A k \in DOMAIN args : normal[k].words = args[k].words
  BY Normalized DEF BuiltDef
<1>3. \A k \in DOMAIN normal : k \in DOMAIN merged /\ merged[k] = normal[k]
  BY MergedDefaults
<1>4. \A k \in DOMAIN positionals :
        positionals[k].name \in DOMAIN merged => positionals[k].name \in DOMAIN normal
  BY MergedDefaults
<1> HIDE DEF normal, merged
<1>5. DistinctNames(positionals)
  BY PositionalsDistinct DEF BuiltDef
<1>6. PICK acc : a = acc.args /\ BindInv(positionals, merged, words, acc, n)
  <2>1. \E acc : /\ applyPositionalArguments(def, merged, words) = acc.args
                 /\ BindInv(def.positionals, merged, words, acc, Len(def.positionals))
    BY <1>0, <1>5, BoundAll
  <2> QED
    BY <1>1, <2>1
<1> HIDE DEF n
<1>7. FreeOf(positionals, merged, n) = FreeOf(positionals, args, n)
  BY <1>0, <1>2, <1>3, <1>4 DEF FreeOf
<1>8. /\ \A k \in DOMAIN merged : k \in DOMAIN a /\ a[k] = merged[k]
      /\ acc.words \in Seq(STRING)
      /\ ToSet(words) \subseteq ToSet(acc.words) \cup WordsOf(a)
      /\ acc.words # <<>> =>
           /\ Len(acc.words) = Len(words) - Cardinality(FreeOf(positionals, args, n))
           /\ \A j \in FreeOf(positionals, args, n) : ~positionals[j].variadic
  BY <1>6, <1>7 DEF BindInv
<1>9. acc.words = <<>>
  <2> SUFFICES ASSUME acc.words # <<>>
               PROVE  FALSE
    OBVIOUS
  <2>1. Len(acc.words) > 0
    BY <1>8
  <2>2. CASE positionals # <<>> /\ Last(positionals).variadic
    <3>1. n \in 1 .. n /\ Last(positionals) = positionals[n]
      BY <1>0, <2>2 DEF Last, n
    <3>2. n \in FreeOf(positionals, args, n)
      BY <2>2, <3>1 DEF Fits, FreeOf
    <3> QED
      BY <1>8, <2>2, <3>1, <3>2
  <2>3. CASE ~(positionals # <<>> /\ Last(positionals).variadic)
    <3>1. Len(words) <= Cardinality(FreeOf(positionals, args, n))
      BY <2>3 DEF Fits, n
    <3>2. IsFiniteSet(FreeOf(positionals, args, n))
      <4>1. IsFiniteSet(1 .. n) /\ FreeOf(positionals, args, n) \subseteq 1 .. n
        BY <1>0, FS_Interval DEF FreeOf
      <4> QED
        BY <4>1, FS_Subset
    <3>3. Cardinality(FreeOf(positionals, args, n)) \in Nat
      BY <3>2, FS_CardinalityType
    <3> QED
      BY <1>0, <1>8, <2>1, <3>1, <3>3
  <2> QED
    BY <2>2, <2>3
<1>10. ToSet(acc.words) = {}
  BY <1>9 DEF ToSet
<1> QED
  BY <1>2, <1>3, <1>8, <1>10

-----------------------------------------------------------------------------
(* The tokens of a command and the arguments of its task                   *)

(* The spellings of the built-in options.                                  *)
Reserved == getReservedBuiltInGlobalArgumentNames

(* The lookup of the options tells built-in ones from those of plugins.    *)
LEMMA GlobalLookup ==
  ASSUME NEW globals, PublicNames(NamesOf(globals)) \cap Reserved = {}
  PROVE  /\ DOMAIN buildGlobalArgumentLookup(globals) = PublicNames(NamesOf(globals)) \cup Reserved
         /\ \A n \in Reserved : buildGlobalArgumentLookup(globals)[n].builtIn
         /\ \A n \in PublicNames(NamesOf(globals)) : ~buildGlobalArgumentLookup(globals)[n].builtIn
<1> DEFINE builtIn(n) == [name |-> n, type |-> BUILT_IN_GLOBAL_ARGUMENTS[n], builtIn |-> TRUE]
           plugin(p) == CHOOSE g \in globals : p \in getPublicArgumentNames(g.name)
           P == [p \in PublicNames(NamesOf(globals)) |->
                   [name |-> plugin(p).name, type |-> plugin(p).type, builtIn |-> FALSE]]
           B == [n \in DOMAIN BUILT_IN_GLOBAL_ARGUMENTS |-> builtIn(n)]
           A == [a \in DOMAIN BUILT_IN_GLOBAL_ARGUMENT_ALIASES |->
                   builtIn(BUILT_IN_GLOBAL_ARGUMENT_ALIASES[a])]
           made == buildGlobalArgumentLookup(globals)
<1>1. made = Over(P, Over(B, A))
  BY DEF buildGlobalArgumentLookup
<1>2. DOMAIN P = PublicNames(NamesOf(globals)) /\ \A p \in DOMAIN P : P[p].builtIn = FALSE
  OBVIOUS
<1>3. Reserved = DOMAIN B \cup DOMAIN A
  BY DEF Reserved, getReservedBuiltInGlobalArgumentNames
<1>4. (\A n \in DOMAIN B : B[n].builtIn = TRUE) /\ \A n \in DOMAIN A : A[n].builtIn = TRUE
  OBVIOUS
<1> HIDE DEF P, B, A, made
<1>5. DOMAIN made = DOMAIN P \cup Reserved
  BY <1>1, <1>3 DEF Over
<1>6. \A n \in Reserved : made[n].builtIn = TRUE
  <2>1. \A n \in Reserved : n \notin DOMAIN P
    BY <1>2
  <2>2. \A n \in Reserved : made[n] = IF n \in DOMAIN B THEN B[n] ELSE A[n]
    BY <1>1, <1>3, <2>1 DEF Over
  <2> QED
    BY <1>3, <1>4, <2>2
<1>7. \A n \in DOMAIN P : made[n].builtIn = FALSE
  <2>1. \A n \in DOMAIN P : made[n] = P[n]
    BY <1>1 DEF Over
  <2> QED
    BY <1>2, <2>1
<1> QED
  BY <1>2, <1>5, <1>6, <1>7 DEF made

(* The lookup of a task leads to the task's own names.                     *)
LEMMA TaskLookup ==
  ASSUME NEW def
  PROVE  \A n \in DOMAIN buildTaskArgumentLookup(def) :
           buildTaskArgumentLookup(def)[n].name \in DeclaredIn(def)
<1> DEFINE Owner(p, names) == CHOOSE n \in names : p \in getPublicArgumentNames(n)
           typeOf(n) == (CHOOSE o \in def.options : o.name = n).type
           O == [p \in PublicNames(NamesOf(def.options)) |->
                   [name |-> Owner(p, NamesOf(def.options)), type |-> typeOf(Owner(p, NamesOf(def.options)))]]
           F == [p \in PublicNames(def.flags) |-> [name |-> Owner(p, def.flags), type |-> "boolean"]]
           P == [p \in PublicNames(NamesOf(ToSet(def.positionals))) |->
                   [name |-> Owner(p, NamesOf(ToSet(def.positionals))), type |-> "string"]]
<1>1. buildTaskArgumentLookup(def) = Over(O, Over(F, P))
  BY DEF buildTaskArgumentLookup
<1>2. ASSUME NEW names, NEW p \in PublicNames(names)
      PROVE  Owner(p, names) \in names
  BY DEF PublicNames
<1> HIDE DEF Owner
<1>3. /\ \A p \in DOMAIN O : O[p].name \in NamesOf(def.options)
      /\ \A p \in DOMAIN F : F[p].name \in def.flags
      /\ \A p \in DOMAIN P : P[p].name \in NamesOf(ToSet(def.positionals))
  BY <1>2
<1> HIDE DEF O, F, P
<1>4. \A p \in DOMAIN Over(O, Over(F, P)) :
        Over(O, Over(F, P))[p].name \in NamesOf(def.options) \cup def.flags \cup NamesOf(ToSet(def.positionals))
  BY <1>3 DEF Over
<1> QED
  BY <1>1, <1>4 DEF DeclaredIn

(* An option that is followed by a value has one.                          *)
LEMMA FollowedByValue ==
  ASSUME NEW tokens \in Seq(Token), NEW known, WordAt(tokens, known.task), NEW i \in DOMAIN tokens,
         \/ tokens[i].inline # NoValue
         \/ i < Len(tokens) /\ ~tokens[i + 1].option /\ tokens[i + 1].name # known.task.id
  PROVE  Valued(tokens, known, i)
<1>1. CASE tokens[i].inline # NoValue
  BY <1>1 DEF Valued
<1>2. CASE /\ tokens[i].inline = NoValue
           /\ i < Len(tokens) /\ ~tokens[i + 1].option /\ tokens[i + 1].name # known.task.id
  <2>1. i + 1 <= Len(tokens) /\ i + 1 # known.task.index
    <3>1. i + 1 # known.task.index
      BY <1>2 DEF WordAt, NoTask
    <3> QED
      BY <1>2, <3>1
  <2>2. canConsumeNextAsValue(tokens, i, known.task.index)
    BY <1>2, <2>1 DEF canConsumeNextAsValue, canConsumeAsValue, NoTasks
  <2> QED
    BY <1>2, <2>2 DEF Valued, NextValue
<1> QED
  BY <1>1, <1>2

(* What an option of a command stands for.                                 *)
TaskOption(def, n) == n \in DOMAIN buildTaskArgumentLookup(def) \ Reserved

(* What an option of the command stands for.                               *)
CanonicalName(def, globals, n) ==
  IF TaskOption(def, n) THEN buildTaskArgumentLookup(def)[n].name
  ELSE IF n \in DOMAIN buildGlobalArgumentLookup(globals) THEN buildGlobalArgumentLookup(globals)[n].name
  ELSE n

(* A command that is accepted, and the arguments its task is called with.  *)
Accepted(tokens, globals, ids, p) ==
  /\ PublicNames(NamesOf(globals)) \cap Reserved = {}
  /\ p = parseArgs(tokens, globals, ids)
  /\ p.taskId # NoValue /\ validateParsedArgs(ids, p)
  /\ BuiltDef(ids[p.taskId])

(* The parse and the properties mean the same by a name.                   *)
LEMMA SameNames ==
  ASSUME NEW tokens \in Seq(Token), NEW globals, NEW ids, NEW p, Accepted(tokens, globals, ids, p)
  PROVE  LET known == Lookups(tokens, globals, ids)
             def == ids[p.taskId]
         IN  /\ ParseInv(tokens, known, p, Len(tokens))
             /\ known.task # NoTask /\ WordAt(tokens, known.task) /\ known.task.id = p.taskId
             /\ known.schema = buildTaskArgumentLookup(def)
             /\ known.global = buildGlobalArgumentLookup(globals)
             /\ \A n : ForTask(known, n) <=> TaskOption(def, n)
             /\ \A n : KeptAs(known, n) = CanonicalName(def, globals, n)
<1> DEFINE known == Lookups(tokens, globals, ids)
           def == ids[p.taskId]
<1>1. ParseInv(tokens, known, p, Len(tokens))
  BY ParseKeeps DEF Accepted
<1>2. WordAt(tokens, known.task)
  BY TaskFound DEF Lookups
<1>3. p.taskId = known.task.id /\ p.taskId # NoValue /\ p.taskId \in DOMAIN ids
  BY <1>1 DEF ParseInv, Accepted, validateParsedArgs
<1>4. known.task # NoTask
  BY <1>3 DEF NoTask
<1>5. /\ known.global = buildGlobalArgumentLookup(globals)
      /\ known.schema = IF known.task.id \in DOMAIN ids
                          THEN buildTaskArgumentLookup(ids[known.task.id]) ELSE NoArgs
  BY DEF Lookups
<1> HIDE DEF known
<1>6. known.schema = buildTaskArgumentLookup(def)
  BY <1>3, <1>5
<1>7. /\ DOMAIN known.global = PublicNames(NamesOf(globals)) \cup Reserved
      /\ \A n \in Reserved : known.global[n].builtIn
      /\ \A n \in PublicNames(NamesOf(globals)) : ~known.global[n].builtIn
  BY <1>5, GlobalLookup DEF Accepted
<1>8. \A n : (n \in DOMAIN known.global /\ known.global[n].builtIn) <=> n \in Reserved
  BY <1>7
<1>9. \A n : ForTask(known, n) <=> TaskOption(def, n)
  BY <1>6, <1>8 DEF ForTask, TaskOption
<1>10. \A n : KeptAs(known, n) = CanonicalName(def, globals, n)
  <2> SUFFICES ASSUME NEW n
               PROVE  KeptAs(known, n) = CanonicalName(def, globals, n)
    OBVIOUS
  <2> HIDE DEF def
  <2>1. CASE ForTask(known, n)
    BY <1>6, <1>9, <2>1 DEF KeptAs, CanonicalName, ForGlobal
  <2>2. CASE ForGlobal(known, n)
    BY <1>5, <1>9, <2>2 DEF KeptAs, CanonicalName, ForGlobal
  <2>3. CASE ~ForTask(known, n) /\ ~ForGlobal(known, n)
    BY <1>5, <1>9, <2>3 DEF KeptAs, CanonicalName, ForGlobal
  <2> QED
    BY <2>1, <2>2, <2>3
<1> QED
  BY <1>1, <1>2, <1>3, <1>4, <1>5, <1>6, <1>9, <1>10 DEF known

(* Every named argument is an option of the task under its declared name.  *)
LEMMA TaskArgsDeclared ==
  ASSUME NEW tokens \in Seq(Token), NEW globals, NEW ids, NEW p, Accepted(tokens, globals, ids, p)
  PROVE  \A key \in DOMAIN p.taskArgs :
           /\ key \in DeclaredIn(ids[p.taskId]) /\ Plain(p.taskArgs[key])
           /\ \E j \in DOMAIN tokens : /\ tokens[j].option
                                       /\ CanonicalName(ids[p.taskId], globals, tokens[j].name) = key
<1> SUFFICES ASSUME NEW key \in DOMAIN p.taskArgs
             PROVE  /\ key \in DeclaredIn(ids[p.taskId]) /\ Plain(p.taskArgs[key])
                    /\ \E j \in DOMAIN tokens :
                         /\ tokens[j].option
                         /\ CanonicalName(ids[p.taskId], globals, tokens[j].name) = key
  OBVIOUS
<1> DEFINE known == Lookups(tokens, globals, ids)
           def == ids[p.taskId]
<1>1. /\ ParseInv(tokens, known, p, Len(tokens))
      /\ known.schema = buildTaskArgumentLookup(def)
      /\ \A n : ForTask(known, n) <=> TaskOption(def, n)
      /\ \A n : KeptAs(known, n) = CanonicalName(def, globals, n)
  BY SameNames
<1>2. DOMAIN p.taskArgs \subseteq DOMAIN buildTaskArgumentLookup(def)
  BY DEF Accepted, validateParsedArgs
<1> HIDE DEF known, def
<1>3. Given(tokens, known, p.taskArgs, FALSE)
  BY <1>1 DEF ParseInv
<1>4. PICK j \in DOMAIN tokens : /\ tokens[j].option /\ KeptAs(known, tokens[j].name) = key
                                /\ ~ForGlobal(known, tokens[j].name)
                                /\ From(tokens, j, p.taskArgs[key])
  BY <1>3 DEF Given
<1>5. Plain(p.taskArgs[key])
  BY <1>4 DEF From, Plain
<1>6. ForTask(known, tokens[j].name)
  <2> SUFFICES ASSUME ~ForTask(known, tokens[j].name)
               PROVE  FALSE
    OBVIOUS
  <2>1. key = tokens[j].name
    BY <1>4 DEF KeptAs
  <2>2. key \in DOMAIN known.schema
    BY <1>1, <1>2
  <2> QED
    BY <1>4, <2>1, <2>2 DEF ForTask, ForGlobal
<1>7. key = known.schema[tokens[j].name].name /\ tokens[j].name \in DOMAIN known.schema
  BY <1>4, <1>6 DEF KeptAs, ForTask
<1>8. key \in DeclaredIn(def)
  BY <1>1, <1>7, TaskLookup
<1> QED
  BY <1>1, <1>4, <1>5, <1>8 DEF def

(* A variadic positional is given by name.                                 *)
VariadicNamed(tokens, globals, def) ==
  \E i \in DOMAIN tokens, k \in DOMAIN def.positionals :
    /\ tokens[i].option /\ def.positionals[k].variadic
    /\ CanonicalName(def, globals, tokens[i].name) = def.positionals[k].name

(* The words of an accepted command have places.                           *)
LEMMA WordsFit ==
  ASSUME NEW tokens \in Seq(Token), NEW globals, NEW ids, NEW p, Accepted(tokens, globals, ids, p),
         ~VariadicNamed(tokens, globals, ids[p.taskId])
  PROVE  Fits(ids[p.taskId], p.taskArgs, p.positional)
<1> DEFINE def == ids[p.taskId]
           n == Len(def.positionals)
<1>0. def.positionals \in Seq(ToSet(def.positionals)) /\ Buildable(def)
  BY DEF Accepted, BuiltDef
<1>a. ~TooManyWords(def, p)
  BY DEF Accepted, validateParsedArgs
<1>b. \A key \in DOMAIN p.taskArgs :
        /\ key \in DeclaredIn(def)
        /\ \E j \in DOMAIN tokens : tokens[j].option /\ CanonicalName(def, globals, tokens[j].name) = key
  BY TaskArgsDeclared
<1>c. ~VariadicNamed(tokens, globals, def)
  OBVIOUS
<1>d. p.positional \in Seq(STRING)
  BY ParseKeeps DEF Accepted, ParseInv
<1> HIDE DEF def
<1>1. n \in Nat /\ DOMAIN def.positionals = 1 .. n
  BY <1>0
<1>2. CASE def.positionals # <<>> /\ Last(def.positionals).variadic
  <2>1. n \in DOMAIN def.positionals /\ Last(def.positionals) = def.positionals[n]
    BY <1>0, <1>1, <1>2 DEF Last
  <2>2. def.positionals[n].name \notin DOMAIN p.taskArgs
    BY <1>2, <1>b, <1>c, <2>1 DEF VariadicNamed
  <2> QED
    BY <1>2, <2>1, <2>2 DEF Fits, def
<1>3. CASE ~(def.positionals # <<>> /\ Last(def.positionals).variadic)
  <2> DEFINE slots == {k \in DOMAIN def.positionals : ~Supplied(p, def.positionals[k].name)}
  <2>1. ASSUME NEW k \in DOMAIN def.positionals
        PROVE  Supplied(p, def.positionals[k].name) <=> def.positionals[k].name \in DOMAIN p.taskArgs
    <3> DEFINE m == def.positionals[k].name
    <3>1. m \in DeclaredIn(def) /\ m \in getPublicArgumentNames(m)
      BY DEF DeclaredIn, NamesOf, ToSet, getPublicArgumentNames
    <3>2. ASSUME Supplied(p, m)
          PROVE  m \in DOMAIN p.taskArgs
      <4>1. PICK key \in DOMAIN p.taskArgs : key \in getPublicArgumentNames(m)
        BY <3>2 DEF Supplied
      <4>2. key \in DeclaredIn(def) /\ key \in getPublicArgumentNames(key)
        BY <1>b DEF getPublicArgumentNames
      <4>3. ~Apart(key, m)
        BY <4>1, <4>2 DEF Apart
      <4> QED
        BY <1>0, <3>1, <4>1, <4>2, <4>3, DeclaredApart
    <3> QED
      BY <3>1, <3>2 DEF Supplied
  <2>2. slots = FreeOf(def.positionals, p.taskArgs, n)
    BY <1>1, <2>1 DEF FreeOf
  <2>3. ~(Len(p.positional) > Cardinality(slots))
    BY <1>3, <1>a DEF TooManyWords
  <2>4. Cardinality(slots) \in Nat
    <3>1. IsFiniteSet(1 .. n) /\ slots \subseteq 1 .. n
      BY <1>1, FS_Interval
    <3> QED
      BY <3>1, FS_Subset, FS_CardinalityType
  <2>5. Len(p.positional) \in Nat
    BY <1>d
  <2> HIDE DEF slots
  <2>6. Len(p.positional) <= Cardinality(slots)
    BY <2>3, <2>4, <2>5
  <2> QED
    BY <1>3, <2>2, <2>6 DEF Fits, def
<1> QED
  BY <1>2, <1>3

(* The option at i is followed by a value or needs none.                   *)
HasValueAt(tokens, p, def, i) ==
  \/ tokens[i].inline # NoValue
  \/ i < Len(tokens) /\ ~tokens[i + 1].option /\ tokens[i + 1].name # p.taskId
  \/ buildTaskArgumentLookup(def)[tokens[i].name].type = "boolean"

RepeatedName(tokens, globals, def, n) ==
  \E i, j \in DOMAIN tokens : /\ tokens[i].option /\ tokens[j].option /\ i # j
                              /\ CanonicalName(def, globals, tokens[i].name) = n
                              /\ CanonicalName(def, globals, tokens[j].name) = n

(* Whatever is typed is an argument of the action.                         *)
LEMMA TypedReaches ==
  ASSUME NEW tokens \in Seq(Token), NEW globals, NEW ids, NEW p, Accepted(tokens, globals, ids, p),
         ~VariadicNamed(tokens, globals, ids[p.taskId]),
         NEW a \in prepareArgs(ids[p.taskId], p.taskArgs, p.positional)
  PROVE  LET def == ids[p.taskId]
         IN  /\ \A i \in DOMAIN tokens :
                  tokens[i].option /\ TaskOption(def, tokens[i].name) /\ HasValueAt(tokens, p, def, i) =>
                    buildTaskArgumentLookup(def)[tokens[i].name].name \in DOMAIN a
             /\ \A i \in DOMAIN tokens : ~tokens[i].option =>
                  \/ tokens[i].name = p.taskId
                  \/ tokens[i].name \in WordsOf(a) \cup WordsOf(p.globalArgs)
                  \/ /\ i > 1 /\ tokens[i - 1].option
                     /\ RepeatedName(tokens, globals, def,
                                     CanonicalName(def, globals, tokens[i - 1].name))
<1> DEFINE known == Lookups(tokens, globals, ids)
           def == ids[p.taskId]
<1>1. /\ ParseInv(tokens, known, p, Len(tokens))
      /\ known.task # NoTask /\ WordAt(tokens, known.task) /\ known.task.id = p.taskId
      /\ known.schema = buildTaskArgumentLookup(def)
      /\ \A n : ForTask(known, n) <=> TaskOption(def, n)
      /\ \A n : KeptAs(known, n) = CanonicalName(def, globals, n)
  BY SameNames
<1>2. /\ \A n \in DOMAIN p.taskArgs : n \in DOMAIN a /\ a[n].words = p.taskArgs[n].words
      /\ ToSet(p.positional) \subseteq WordsOf(a)
  <2>1. \A n \in DOMAIN p.taskArgs : n \in DeclaredIn(def) /\ Plain(p.taskArgs[n])
    BY TaskArgsDeclared
  <2>2. Fits(def, p.taskArgs, p.positional)
    BY WordsFit
  <2>3. p.positional \in Seq(STRING) /\ BuiltDef(def)
    BY <1>1 DEF ParseInv, Accepted
  <2> HIDE DEF def
  <2>4. a \in prepareArgs(def, p.taskArgs, p.positional)
    BY DEF def
  <2>5. DOMAIN p.taskArgs \subseteq DeclaredIn(def)
    BY <2>1
  <2> QED
    BY <2>1, <2>2, <2>3, <2>4, <2>5, ArgsPrepared
<1>3. p.preTaskArgs = <<>>
  BY DEF Accepted, validateParsedArgs
<1> HIDE DEF known, def
<1>4. Len(tokens) \in Nat /\ DOMAIN tokens = 1 .. Len(tokens)
  OBVIOUS
<1>5. /\ \A k \in DOMAIN tokens : tokens[k].option => OptionKept(tokens, known, p, k)
      /\ \A k \in DOMAIN tokens : ~tokens[k].option => WordKept(tokens, known, p, k)
  BY <1>1, <1>4 DEF ParseInv
<1>6. ASSUME NEW i \in DOMAIN tokens, tokens[i].option, TaskOption(def, tokens[i].name),
             HasValueAt(tokens, p, def, i)
      PROVE  buildTaskArgumentLookup(def)[tokens[i].name].name \in DOMAIN a
  <2>1. ForTask(known, tokens[i].name)
    BY <1>1, <1>6
  <2>2. Valued(tokens, known, i)
    <3>1. CASE buildTaskArgumentLookup(def)[tokens[i].name].type = "boolean"
      BY <1>1, <2>1, <3>1 DEF Valued, Boolean
    <3>2. CASE \/ tokens[i].inline # NoValue
               \/ i < Len(tokens) /\ ~tokens[i + 1].option /\ tokens[i + 1].name # p.taskId
      BY <1>1, <3>2, FollowedByValue
    <3> QED
      BY <1>6, <3>1, <3>2 DEF HasValueAt
  <2>3. KeptAs(known, tokens[i].name) \in DOMAIN p.taskArgs
    BY <1>5, <1>6, <2>1, <2>2 DEF OptionKept
  <2>4. KeptAs(known, tokens[i].name) = CanonicalName(def, globals, tokens[i].name)
    BY <1>1
  <2>5. CanonicalName(def, globals, tokens[i].name) = buildTaskArgumentLookup(def)[tokens[i].name].name
    BY <1>6 DEF CanonicalName
  <2> QED
    BY <1>2, <2>3, <2>4, <2>5
<1>7. ASSUME NEW args, NEW n \in DOMAIN args, NEW w, args[n].words = <<w>>
      PROVE  w \in WordsOf(args)
  <2>1. w \in ToSet(<<w>>)
    BY DEF ToSet
  <2> QED
    BY <1>7, <2>1 DEF WordsOf
<1>8. ASSUME NEW i \in DOMAIN tokens, ~tokens[i].option
      PROVE  \/ tokens[i].name = p.taskId
             \/ tokens[i].name \in WordsOf(a) \cup WordsOf(p.globalArgs)
             \/ /\ i > 1 /\ tokens[i - 1].option
                /\ RepeatedName(tokens, globals, def, CanonicalName(def, globals, tokens[i - 1].name))
  <2>1. \/ i = known.task.index \/ tokens[i].name \in ToSet(p.positional)
        \/ ValueKept(tokens, known, p, i)
    BY <1>1, <1>3, <1>5, <1>8 DEF WordKept
  <2>2. CASE i = known.task.index
    BY <1>1, <2>2 DEF WordAt
  <2>3. CASE tokens[i].name \in ToSet(p.positional)
    BY <1>2, <2>3
  <2>4. CASE ValueKept(tokens, known, p, i)
    <3> DEFINE name == tokens[i - 1].name
               w == tokens[i].name
    <3>1. i > 1 /\ tokens[i - 1].option /\ i - 1 \in DOMAIN tokens
      BY <1>4, <2>4 DEF ValueKept
    <3>2. CASE Again(tokens, known, i - 1)
      <4>1. RepeatedName(tokens, globals, def, CanonicalName(def, globals, name))
        BY <1>1, <3>1, <3>2 DEF Again, RepeatedName
      <4> QED
        BY <3>1, <4>1
    <3>3. CASE Holds(p.globalArgs, KeptAs(known, name), Text(w))
      <4>1. KeptAs(known, name) \in DOMAIN p.globalArgs
            /\ p.globalArgs[KeptAs(known, name)].words = <<w>>
        BY <3>3 DEF Holds, Text
      <4> QED
        BY <1>7, <4>1
    <3>4. CASE Holds(p.taskArgs, KeptAs(known, name), Text(w))
      <4>1. KeptAs(known, name) \in DOMAIN p.taskArgs
            /\ p.taskArgs[KeptAs(known, name)].words = <<w>>
        BY <3>4 DEF Holds, Text
      <4>2. KeptAs(known, name) \in DOMAIN a /\ a[KeptAs(known, name)].words = <<w>>
        BY <1>2, <4>1
      <4> QED
        BY <1>7, <4>2
    <3> QED
      BY <2>4, <3>2, <3>3, <3>4 DEF ValueKept
  <2> QED
    BY <2>1, <2>2, <2>3, <2>4
<1> QED
  BY <1>6, <1>8 DEF def

-----------------------------------------------------------------------------
(* Imports                                                                 *)

(* References in the order of the resolved configuration.                  *)
Increasing(s) == \A i, j \in DOMAIN s : i < j => rank[s[i]] < rank[s[j]]

(* Finitely many references can be listed in order, in one way.            *)
LEMMA OrderExists ==
  ASSUME NEW n \in Nat
  PROVE  \A refs \in SUBSET DOMAIN rank : IsFiniteSet(refs) /\ Cardinality(refs) = n =>
           \E s \in [1 .. n -> refs] : Increasing(s)
<1> DEFINE Listed(k) == \A refs \in SUBSET DOMAIN rank : IsFiniteSet(refs) /\ Cardinality(refs) = k =>
                          \E s \in [1 .. k -> refs] : Increasing(s)
           S == {k \in Nat : Listed(k)}
<1>1. 0 \in S
  <2> SUFFICES ASSUME NEW refs \in SUBSET DOMAIN rank
               PROVE  \E s \in [1 .. 0 -> refs] : Increasing(s)
    OBVIOUS
  <2>1. [i \in 1 .. 0 |-> i] \in [1 .. 0 -> refs] /\ Increasing([i \in 1 .. 0 |-> i])
    BY DEF Increasing
  <2> QED
    BY <2>1
<1>2. ASSUME NEW k \in S
      PROVE  k + 1 \in S
  <2> SUFFICES ASSUME NEW refs \in SUBSET DOMAIN rank, IsFiniteSet(refs), Cardinality(refs) = k + 1
               PROVE  \E s \in [1 .. k + 1 -> refs] : Increasing(s)
    OBVIOUS
  <2> DEFINE ranks == {rank[r] : r \in refs}
  <2>0. \A r \in DOMAIN rank : rank[r] \in Nat
    BY ConfigAssumption
  <2>1. ranks \in SUBSET Nat /\ ranks # {}
    <3>1. refs # {}
      BY FS_EmptySet
    <3> QED
      BY <2>0, <3>1
  <2>2. PICK least \in ranks : \A m \in ranks : least <= m
    <3> HIDE DEF ranks
    <3> QED
      BY <2>1, LeastNumber
  <2>3. PICK first \in refs : rank[first] = least
    BY <2>2
  <2> DEFINE others == refs \ {first}
  <2>4. IsFiniteSet(others) /\ Cardinality(others) = k /\ others \in SUBSET DOMAIN rank
    BY FS_RemoveElement
  <2>5. PICK s \in [1 .. k -> others] : Increasing(s)
    BY <2>4
  <2> DEFINE t == [i \in 1 .. k + 1 |-> IF i = 1 THEN first ELSE s[i - 1]]
  <2>6. \A i \in 1 .. k + 1 : i # 1 => i - 1 \in 1 .. k
    OBVIOUS
  <2>7. t \in [1 .. k + 1 -> refs]
    BY <2>5, <2>6
  <2>8. ASSUME NEW i \in 1 .. k + 1, NEW j \in 1 .. k + 1, i < j
        PROVE  rank[t[i]] < rank[t[j]]
    <3>1. j # 1 /\ j - 1 \in 1 .. k /\ t[j] = s[j - 1] /\ s[j - 1] \in others
      BY <2>5, <2>6, <2>8
    <3>2. CASE i = 1
      <4>1. t[i] = first /\ t[j] \in refs /\ t[j] # first
        BY <3>1, <3>2
      <4>2. rank[first] # rank[t[j]]
        BY <4>1, ConfigAssumption
      <4>3. rank[first] \in Nat /\ rank[t[j]] \in Nat /\ rank[first] <= rank[t[j]]
        BY <2>0, <2>2, <2>3, <4>1
      <4> QED
        BY <4>1, <4>2, <4>3
    <3>3. CASE i # 1
      <4>1. i - 1 \in 1 .. k /\ t[i] = s[i - 1] /\ i - 1 < j - 1
        BY <2>6, <2>8, <3>3
      <4>2. i - 1 \in DOMAIN s /\ j - 1 \in DOMAIN s
        BY <2>5, <3>1, <4>1
      <4>3. rank[s[i - 1]] < rank[s[j - 1]]
        BY <2>5, <4>1, <4>2 DEF Increasing
      <4> QED
        BY <3>1, <4>1, <4>3
    <3> QED
      BY <3>2, <3>3
  <2> HIDE DEF t
  <2>9. Increasing(t)
    BY <2>7, <2>8 DEF Increasing
  <2> QED
    BY <2>7, <2>9
<1> HIDE DEF S
<1>3. S \in SUBSET Nat
  BY DEF S
<1>4. n \in S
  BY <1>1, <1>2, <1>3, NatSteps
<1> QED
  BY <1>4 DEF S

(* Sorting loses no reference.                                             *)
LEMMA ImportsSorted ==
  ASSUME NEW refs \in SUBSET DOMAIN rank, IsFiniteSet(refs)
  PROVE  /\ ToSet(dedupAndSortRuntimeImports(refs)) = refs
         /\ Increasing(dedupAndSortRuntimeImports(refs))
<1> DEFINE n == Cardinality(refs)
           s == dedupAndSortRuntimeImports(refs)
<1>1. n \in Nat
  BY FS_CardinalityType
<1>2. \E t \in [1 .. n -> refs] : Increasing(t)
  BY <1>1, OrderExists
<1>3. s \in [1 .. n -> refs] /\ Increasing(s)
  <2>1. s = CHOOSE t \in [1 .. n -> refs] : Increasing(t)
    BY DEF dedupAndSortRuntimeImports, Increasing
  <2> HIDE DEF s
  <2> QED
    BY <1>2, <2>1
<1> HIDE DEF s
<1>4. \A i, j \in 1 .. n : s[i] = s[j] => i = j
  <2> SUFFICES ASSUME NEW i \in 1 .. n, NEW j \in 1 .. n, s[i] = s[j], i # j
               PROVE  FALSE
    OBVIOUS
  <2>1. rank[s[i]] \in Nat /\ rank[s[i]] = rank[s[j]]
    BY <1>3, ConfigAssumption
  <2>2. i < j \/ j < i
    BY <1>1
  <2> HIDE DEF n
  <2>3. DOMAIN s = 1 .. n
    BY <1>3
  <2> QED
    BY <1>3, <2>1, <2>2, <2>3 DEF Increasing
<1>5. s \in Injection(1 .. n, refs)
  BY <1>3, <1>4 DEF Injection, IsInjective
<1>6. IsFiniteSet(1 .. n) /\ Cardinality(1 .. n) = n
  BY <1>1, FS_Interval
<1>7. s \in Surjection(1 .. n, refs)
  BY <1>5, <1>6, FS_Injection
<1>8. ToSet(s) = refs
  <2> HIDE DEF n
  <2> QED
    BY <1>3, <1>7 DEF Surjection, ToSet
<1> QED
  BY <1>3, <1>8 DEF s

(* A function of finitely many things has finitely many values.            *)
LEMMA ValuesFinite ==
  ASSUME NEW S, IsFiniteSet(S), NEW f, DOMAIN f = S
  PROVE  IsFiniteSet({f[x] : x \in S})
<1> DEFINE T == {f[x] : x \in S}
           g == [x \in S |-> f[x]]
<1>1. g \in Surjection(S, T)
  BY DEF Surjection
<1> HIDE DEF T, g
<1>2. IsFiniteSet(T)
  BY <1>1, FS_Surjection
<1> QED
  BY <1>2 DEF T

(* Imports as a user writes them.                                          *)
Importable(imports) ==
  /\ IsFiniteSet(DOMAIN imports)
  /\ \A k \in DOMAIN imports :
       /\ imports[k] \in Seq(DOMAIN refKind)
       /\ \A i \in DOMAIN imports[k] : refKind[imports[k][i]] # "invalid" =>
            normalizeRuntimeImportRef(imports[k][i]) \in DOMAIN rank

(* Every reference of the user is in the list of its program, in order.    *)
LEMMA ExecutionResolved ==
  ASSUME NEW imports, Importable(imports)
  PROVE  /\ DOMAIN resolveExecutionConfig(imports) = {normalizeProgramId(k) : k \in DOMAIN imports}
         /\ \A k \in DOMAIN imports : \A i \in DOMAIN imports[k] :
              refKind[imports[k][i]] # "invalid" =>
                normalizeRuntimeImportRef(imports[k][i]) \in
                  ToSet(resolveExecutionConfig(imports)[normalizeProgramId(k)])
         /\ \A key \in DOMAIN resolveExecutionConfig(imports) :
              Increasing(resolveExecutionConfig(imports)[key])
<1> DEFINE keys == {normalizeProgramId(k) : k \in DOMAIN imports}
           valid(k) == {q \in ToSet(imports[k]) : refKind[q] # "invalid"}
           Refs(k) == {normalizeRuntimeImportRef(r) : r \in valid(k)}
           Of(key) == {k \in DOMAIN imports : normalizeProgramId(k) = key}
           All(key) == UNION {Refs(k) : k \in Of(key)}
           made == resolveExecutionConfig(imports)
<1>1. made = [key \in keys |-> dedupAndSortRuntimeImports(All(key))]
  BY DEF resolveExecutionConfig
<1>2. ASSUME NEW k \in DOMAIN imports
      PROVE  IsFiniteSet(Refs(k)) /\ Refs(k) \subseteq DOMAIN rank
  <2>1. imports[k] \in Seq(DOMAIN refKind) /\ DOMAIN imports[k] = 1 .. Len(imports[k])
        /\ Len(imports[k]) \in Nat
    BY DEF Importable
  <2>2. IsFiniteSet(ToSet(imports[k]))
    <3>1. IsFiniteSet(1 .. Len(imports[k]))
      BY <2>1, FS_Interval
    <3> QED
      BY <2>1, <3>1, ValuesFinite DEF ToSet
  <2>3. IsFiniteSet(valid(k))
    BY <2>2, FS_Subset
  <2> DEFINE f == [r \in valid(k) |-> normalizeRuntimeImportRef(r)]
  <2>4. IsFiniteSet({f[r] : r \in valid(k)})
    <3>1. DOMAIN f = valid(k)
      OBVIOUS
    <3> HIDE DEF f, valid
    <3> QED
      BY <2>3, <3>1, ValuesFinite
  <2>5. Refs(k) = {f[r] : r \in valid(k)}
    OBVIOUS
  <2>6. Refs(k) \subseteq DOMAIN rank
    BY DEF Importable, ToSet
  <2> HIDE DEF Refs, f
  <2> QED
    BY <2>4, <2>5, <2>6
<1>3. ASSUME NEW key
      PROVE  IsFiniteSet(All(key)) /\ All(key) \subseteq DOMAIN rank
  <2>1. IsFiniteSet(Of(key))
    BY FS_Subset DEF Importable
  <2> DEFINE f == [k \in Of(key) |-> Refs(k)]
  <2> HIDE DEF Refs
  <2>2. IsFiniteSet({f[k] : k \in Of(key)})
    <3>1. DOMAIN f = Of(key)
      OBVIOUS
    <3> HIDE DEF f, Of
    <3> QED
      BY <2>1, <3>1, ValuesFinite
  <2>3. {f[k] : k \in Of(key)} = {Refs(k) : k \in Of(key)}
    OBVIOUS
  <2>4. \A T \in {Refs(k) : k \in Of(key)} : IsFiniteSet(T) /\ T \subseteq DOMAIN rank
    BY <1>2
  <2>5. IsFiniteSet(UNION {Refs(k) : k \in Of(key)})
    <3> DEFINE Sets == {Refs(k) : k \in Of(key)}
    <3>1. IsFiniteSet(Sets) /\ \A T \in Sets : IsFiniteSet(T)
      BY <2>2, <2>3, <2>4
    <3> HIDE DEF Sets
    <3>2. IsFiniteSet(UNION Sets)
      BY <3>1, FS_UNION
    <3> QED
      BY <3>2 DEF Sets
  <2> QED
    BY <2>4, <2>5
<1>4. \A key \in keys : ToSet(made[key]) = All(key) /\ Increasing(made[key])
  <2> SUFFICES ASSUME NEW key \in keys
               PROVE  ToSet(made[key]) = All(key) /\ Increasing(made[key])
    OBVIOUS
  <2>1. made[key] = dedupAndSortRuntimeImports(All(key))
    BY <1>1
  <2>2. IsFiniteSet(All(key)) /\ All(key) \in SUBSET DOMAIN rank
    BY <1>3
  <2> HIDE DEF All, made
  <2> QED
    BY <2>1, <2>2, ImportsSorted
<1>5. ASSUME NEW k \in DOMAIN imports, NEW i \in DOMAIN imports[k], refKind[imports[k][i]] # "invalid"
      PROVE  normalizeRuntimeImportRef(imports[k][i]) \in ToSet(made[normalizeProgramId(k)])
  <2>1. imports[k][i] \in valid(k)
    BY <1>5 DEF ToSet
  <2>2. normalizeRuntimeImportRef(imports[k][i]) \in Refs(k)
    BY <2>1
  <2>3. k \in Of(normalizeProgramId(k)) /\ normalizeProgramId(k) \in keys
    OBVIOUS
  <2> HIDE DEF Refs, Of, made, keys
  <2>4. normalizeRuntimeImportRef(imports[k][i]) \in All(normalizeProgramId(k))
    BY <2>2, <2>3
  <2> HIDE DEF All
  <2> QED
    BY <1>4, <2>3, <2>4
<1>6. DOMAIN made = keys
  BY <1>1
<1> HIDE DEF made, keys
<1> QED
  BY <1>4, <1>5, <1>6 DEF made, keys

-----------------------------------------------------------------------------
(* What plugins do to a configuration                                      *)

(* The loop over what the plugins add to the user configuration.           *)
ExtendFunction(R, given, hooks, n) ==
  R = [i \in 0 .. n |-> IF i = 0 THEN given ELSE Over(Or(hooks[i], "extend", None), R[i - 1])]

LEMMA ExtendDefined ==
  ASSUME NEW given, NEW hooks, NEW n \in Nat
  PROVE  \E R : ExtendFunction(R, given, hooks, n)
<1> DEFINE Step(r, i) == Over(Or(hooks[i], "extend", None), r)
           S == {k \in Nat : \E R : ExtendFunction(R, given, hooks, k)}
<1>1. 0 \in S
  <2>1. ExtendFunction([i \in 0 .. 0 |-> given], given, hooks, 0)
    BY DEF ExtendFunction
  <2> QED
    BY <2>1
<1>2. ASSUME NEW k \in S
      PROVE  k + 1 \in S
  <2>1. PICK R : ExtendFunction(R, given, hooks, k)
    OBVIOUS
  <2> DEFINE Q == [i \in 0 .. k + 1 |-> IF i = k + 1 THEN Step(R[k], k + 1) ELSE R[i]]
  <2> HIDE DEF Step
  <2>2. \A i \in 0 .. k : R[i] = IF i = 0 THEN given ELSE Step(R[i - 1], i)
    BY <2>1 DEF ExtendFunction, Step
  <2>3. \A i \in 0 .. k + 1 : Q[i] = IF i = 0 THEN given ELSE Step(Q[i - 1], i)
    BY <2>2
  <2>4. Q = [i \in 0 .. k + 1 |-> IF i = 0 THEN given ELSE Step(Q[i - 1], i)]
    BY <2>3
  <2> HIDE DEF Q
  <2>5. ExtendFunction(Q, given, hooks, k + 1)
    BY <2>4 DEF ExtendFunction, Step
  <2> QED
    BY <2>5
<1> HIDE DEF S
<1>3. S \in SUBSET Nat
  BY DEF S
<1>4. n \in S
  BY <1>1, <1>2, <1>3, NatSteps
<1> QED
  BY <1>4 DEF S

LEMMA ExtendedIs ==
  ASSUME NEW given, NEW hooks, Len(hooks) \in Nat
  PROVE  \E R : ExtendFunction(R, given, hooks, Len(hooks)) /\ extendUserConfig(given, hooks) = R[Len(hooks)]
<1> DEFINE R == CHOOSE R : ExtendFunction(R, given, hooks, Len(hooks))
<1>1. ExtendFunction(R, given, hooks, Len(hooks))
  BY ExtendDefined
<1>2. extendUserConfig(given, hooks) = R[Len(hooks)]
  BY DEF extendUserConfig, ExtendFunction
<1> HIDE DEF R
<1> QED
  BY <1>1, <1>2

(* A section no plugin extends is the user's.                              *)
LEMMA SectionKept ==
  ASSUME NEW given, NEW hooks, Len(hooks) \in Nat, NEW section, NEW default,
         \A i \in 1 .. Len(hooks) : section \notin DOMAIN Or(hooks[i], "extend", None)
  PROVE  Or(extendUserConfig(given, hooks), section, default) = Or(given, section, default)
<1> DEFINE n == Len(hooks)
<1>1. PICK R : ExtendFunction(R, given, hooks, n) /\ extendUserConfig(given, hooks) = R[n]
  BY ExtendedIs
<1> DEFINE S == {k \in Nat : k <= n => Or(R[k], section, default) = Or(given, section, default)}
<1>2. 0 \in S
  <2>1. R[0] = given
    BY <1>1 DEF ExtendFunction
  <2> QED
    BY <2>1
<1>3. ASSUME NEW k \in S
      PROVE  k + 1 \in S
  <2> SUFFICES ASSUME k + 1 <= n
               PROVE  Or(R[k + 1], section, default) = Or(given, section, default)
    OBVIOUS
  <2>1. k + 1 \in 1 .. n /\ (k + 1) - 1 = k /\ k <= n /\ k + 1 # 0 /\ k + 1 \in 0 .. n
    OBVIOUS
  <2>2. R[k + 1] = IF k + 1 = 0 THEN given ELSE Over(Or(hooks[k + 1], "extend", None), R[(k + 1) - 1])
    BY <1>1, <2>1, Zenon DEF ExtendFunction
  <2>3. R[k + 1] = Over(Or(hooks[k + 1], "extend", None), R[k])
    BY <2>1, <2>2
  <2>4. section \notin DOMAIN Or(hooks[k + 1], "extend", None)
    BY <2>1
  <2>5. \A over, under : section \notin DOMAIN over =>
          Or(Over(over, under), section, default) = Or(under, section, default)
    BY DEF Or, Over
  <2>6. Or(R[k], section, default) = Or(given, section, default)
    BY <2>1
  <2> QED
    BY <2>3, <2>4, <2>5, <2>6
<1>4. S \in SUBSET Nat
  OBVIOUS
<1>5. n \in S
  <2> HIDE DEF S
  <2> QED
    BY <1>2, <1>3, <1>4, NatSteps
<1> QED
  BY <1>1, <1>5

(* The imports a plugin lists.                                             *)
AddedImports(hook) == Or(Or(hook, "partial", None), "imports", None)

(* Programs no plugin lists imports for keep those of the base.            *)
LEMMA ImportsKept ==
  ASSUME NEW base, NEW hooks, Len(hooks) \in Nat, NEW keys \in SUBSET DOMAIN base.imports,
         \A k \in DOMAIN base.imports : Increasing(base.imports[k]),
         \A i \in 1 .. Len(hooks) : \A k \in DOMAIN AddedImports(hooks[i]) :
           k \notin keys /\ Increasing(AddedImports(hooks[i])[k])
  PROVE  LET made == mergePartials(base, hooks).imports
         IN  /\ \A k \in keys : k \in DOMAIN made /\ made[k] = base.imports[k]
             /\ \A k \in DOMAIN made : Increasing(made[k])
<1> DEFINE n == Len(hooks)
           Good(imports) == /\ \A k \in keys : k \in DOMAIN imports /\ imports[k] = base.imports[k]
                            /\ \A k \in DOMAIN imports : Increasing(imports[k])
<1>1. PICK R : MergeFunction(R, base, hooks, n) /\ mergePartials(base, hooks) = R[n]
  BY MergedIs
<1> DEFINE S == {k \in Nat : k <= n => Good(R[k].imports)}
<1>2. 0 \in S
  <2>1. R[0] = base
    BY <1>1 DEF MergeFunction
  <2> QED
    BY <2>1
<1>3. ASSUME NEW k \in S
      PROVE  k + 1 \in S
  <2> SUFFICES ASSUME k + 1 <= n
               PROVE  Good(R[k + 1].imports)
    OBVIOUS
  <2>1. k + 1 \in 1 .. n /\ (k + 1) - 1 = k /\ k <= n /\ k + 1 # 0 /\ k + 1 \in 0 .. n
    OBVIOUS
  <2>2. R[k + 1] = IF k + 1 = 0 THEN base
                   ELSE mergePartial(R[(k + 1) - 1], Or(hooks[k + 1], "partial", None))
    BY <1>1, <2>1, Zenon DEF MergeFunction
  <2> DEFINE added == AddedImports(hooks[k + 1])
             old == R[k].imports
             made == R[k + 1].imports
  <2>3. made = Over(added, old)
    <3>1. R[k + 1] = mergePartial(R[k], Or(hooks[k + 1], "partial", None))
      BY <2>1, <2>2
    <3> QED
      BY <3>1 DEF mergePartial, AddedImports
  <2>4. \A m \in DOMAIN added : m \notin keys /\ Increasing(added[m])
    BY <2>1
  <2>5. Good(old)
    BY <2>1
  <2> HIDE DEF added, old, made
  <2>6. \A m \in keys : m \in DOMAIN made /\ made[m] = base.imports[m]
    BY <2>3, <2>4, <2>5 DEF Over
  <2>7. \A m \in DOMAIN made : \/ m \in DOMAIN added /\ made[m] = added[m]
                               \/ m \in DOMAIN old /\ made[m] = old[m]
    BY <2>3 DEF Over
  <2>8. \A m \in DOMAIN made : Increasing(made[m])
    BY <2>4, <2>5, <2>7
  <2> QED
    BY <2>6, <2>8 DEF made
<1>4. S \in SUBSET Nat
  OBVIOUS
<1>5. n \in S
  <2> HIDE DEF S
  <2> QED
    BY <1>2, <1>3, <1>4, NatSteps
<1> QED
  BY <1>1, <1>5

-----------------------------------------------------------------------------
(* The state of main()                                                     *)

(* A task is to run.                                                       *)
Ready == stage \in {"run", "running", "tested"}

(* What main() resolves and parses.                                        *)
Resolution == resolveConfig(project.config, Hooks, env, project.files)
Parsing == parseArgs(argv, PluginGlobals(plugins), Definitions)

(* The command and the project are one of those that are started.          *)
CommandInv == \E c \in Commands : argv = c[1] /\ project = c[2]

(* The tasks are those of TaskBuilders, and the options of the plugins     *)
(* have been checked.                                                      *)
TasksInv ==
  /\ stage \in {"begin", "load", "configure"} => tasks = NoTasks
  /\ tasks # NoTasks \/ Ready \/ stage \in {"configure", "route"} => collectGlobalOptions(plugins)
  /\ \A id \in DOMAIN tasks : BuiltDef(tasks[id].definition)

(* The configuration is the one that was resolved, with the default        *)
(* network the options choose.                                             *)
ConfigInv ==
  /\ stage \in {"begin", "load", "configure"} => config = None
  /\ stage = "route" => config \in Resolution
  /\ Ready => \E r \in Resolution : config = [r EXCEPT !.defaultNetwork = Or(globalOptions, "network", @)]
  /\ config # None => /\ plugins \in resolvePluginOrder(project.table, project.plugins)
                      /\ \E r \in Resolution : config.imports = r.imports

(* What is kept of the third parse has been validated.                     *)
ParsedInv ==
  /\ Ready \/ (tasks # NoTasks /\ stage # "route") => parsed = Parsing
  /\ Ready => /\ parsed.taskId # NoValue /\ validateParsedArgs(Definitions, parsed)
              /\ NetworkKnown(parsed.globalArgs)
              /\ assertDeployBackendArg(argv, parsed, Providers)
              /\ globalOptions = seedGlobalOptions(parsed.globalArgs)

(* The newest action was called with the arguments of the command.         *)
CalledInv ==
  /\ stage \notin {"running", "tested", "failed"} => received = <<>>
  /\ stage \in {"running", "tested"} =>
       /\ \E X : received \in Seq(X)
       /\ received # <<>>
       /\ received[1] \in prepareArgs(Task.definition, parsed.taskArgs, parsed.positional)

(* A worker is what createTestLre() makes of its variables, and its        *)
(* parent's backend is a provider.                                         *)
WorkerInv ==
  stage = "tested" =>
    /\ readExplicitDeployBackend
    /\ worker \in IF buildLre(WorkerEnv) = {} THEN {None} ELSE buildLre(WorkerEnv)

MainInv == CommandInv /\ TasksInv /\ ConfigInv /\ ParsedInv /\ CalledInv /\ WorkerInv

(* The plugins are objects of the project.                                 *)
LEMMA PluginsLoaded ==
  ASSUME CommandInv, plugins \in resolvePluginOrder(project.table, project.plugins)
  PROVE  plugins \in Seq(DOMAIN project.table) /\ Len(Hooks) \in Nat /\ DOMAIN Hooks = 1 .. Len(Hooks)
<1> DEFINE table == project.table
           needed == Needed(table, project.plugins)
<1>1. Loadable(table, project.plugins)
  BY StartupAssumption DEF CommandInv, Loadable
<1>2. Ordered(DepsIn(table), plugins, needed)
  BY <1>1, OrderResolved
<1>3. needed \subseteq DOMAIN table
  BY <1>1, NeededClosed DEF Needed, Needs, DepsIn
<1>4. plugins \in Seq(needed)
  BY <1>2 DEF Ordered
<1> HIDE DEF needed
<1>5. plugins \in Seq(DOMAIN table)
  BY <1>3, <1>4
<1>6. /\ Hooks = [i \in 1 .. Len(plugins) |-> project.table[plugins[i]].hooks] /\ Len(plugins) \in Nat
  BY <1>5 DEF Hooks
<1>7. Len(Hooks) = Len(plugins) /\ DOMAIN Hooks = 1 .. Len(plugins)
  BY <1>6
<1> QED
  BY <1>5, <1>6, <1>7

(* What a project registers is made of the tasks it was given.             *)
LEMMA TasksBuilt ==
  ASSUME CommandInv, plugins \in resolvePluginOrder(project.table, project.plugins),
         NEW t \in RegisteredTasks
  PROVE  \A id \in DOMAIN t : BuiltDef(t[id].definition)
<1> DEFINE table == project.table
           X == ToSet(project.tasks) \cup UNION {ToSet(table[p].tasks) : p \in DOMAIN table}
           lists == [i \in DOMAIN plugins |-> table[plugins[i]].tasks]
<1>1. /\ Built(project.tasks) /\ \A p \in DOMAIN table : Built(table[p].tasks)
  BY StartupAssumption DEF CommandInv
<1>2. \A d \in X : BuiltDef(d.definition)
  BY <1>1 DEF Built, BuiltDef
<1>3. /\ project.tasks \in Seq(ToSet(project.tasks))
      /\ \A p \in DOMAIN table : table[p].tasks \in Seq(ToSet(table[p].tasks))
  BY <1>1 DEF Built
<1>4. ToSet(project.tasks) \subseteq X /\ \A p \in DOMAIN table : ToSet(table[p].tasks) \subseteq X
  OBVIOUS
<1> HIDE DEF X
<1>5. project.tasks \in Seq(X) /\ \A p \in DOMAIN table : table[p].tasks \in Seq(X)
  <2>1. ASSUME NEW S \in SUBSET X, NEW s \in Seq(S)
        PROVE  s \in Seq(X)
    OBVIOUS
  <2> QED
    BY <1>3, <1>4, <2>1
<1>6. plugins \in Seq(DOMAIN table)
  BY PluginsLoaded
<1>7. lists \in Seq(Seq(X))
  <2>1. lists = [i \in 1 .. Len(plugins) |-> table[plugins[i]].tasks] /\ Len(plugins) \in Nat
    BY <1>6
  <2>2. \A i \in 1 .. Len(plugins) : table[plugins[i]].tasks \in Seq(X)
    BY <1>5, <1>6
  <2> HIDE DEF lists
  <2>3. lists \in [1 .. Len(plugins) -> Seq(X)]
    BY <2>1, <2>2
  <2> QED
    BY <2>1, <2>3
<1>8. FlattenSeq(lists) \in Seq(X)
  <2> HIDE DEF lists
  <2> QED
    BY <1>7, Flattened
<1>9. FlattenSeq(lists) \o project.tasks \in Seq(X)
  <2> HIDE DEF lists
  <2> QED
    BY <1>5, <1>8
<1>10. t \in registerTasks(NoTasks, FlattenSeq(lists) \o project.tasks)
  BY DEF RegisteredTasks
<1>11. Registry(t, X)
  <2> HIDE DEF lists
  <2> QED
    BY <1>9, <1>10, Registered
<1> QED
  BY <1>2, <1>11 DEF Registry

(* What is typed, and where, stays the same.                               *)
LEMMA Frames ==
  ASSUME [Next]_vars
  PROVE  UNCHANGED <<argv, project, env>>
BY DEF Next, vars, Begin, LoadConfig, Configure, Route, Run, RunSuper, StartWorker

LEMMA CommandKept ==
  ASSUME CommandInv, [Next]_vars
  PROVE  CommandInv'
BY Frames DEF CommandInv

(* The steps of main() keep each part of the invariant.                    *)
LEMMA TasksKept ==
  ASSUME CommandInv, LoadInv, TasksInv, [Next]_vars
  PROVE  TasksInv'
<1>1. CASE Begin
  <2>1. /\ stage = "begin" /\ stage' \in {"version", "load", "help", "failed"} /\ UNCHANGED tasks
    BY <1>1 DEF Begin
  <2> QED
    BY <2>1 DEF TasksInv, Ready, NoTasks
<1>2. CASE LoadConfig
  <2>1. /\ stage = "load" /\ stage' \in {"configure", "failed"} /\ UNCHANGED <<tasks, project>>
    BY <1>2 DEF LoadConfig
  <2>2. \A s : collectGlobalOptions(s)' = collectGlobalOptions(s)
    BY <2>1 DEF collectGlobalOptions, PluginGlobals
  <2>3. stage' = "configure" => collectGlobalOptions(plugins')
    <3> SUFFICES ASSUME stage' = "configure"
                 PROVE  collectGlobalOptions(plugins')
      OBVIOUS
    <3> DEFINE order == resolvePluginOrder(project.table, project.plugins)
    <3>1. plugins' \in order /\ \E s \in order : collectGlobalOptions(s)
      BY <1>2 DEF LoadConfig
    <3>2. \A s \in order : s = plugins'
      <4> HIDE DEF order
      <4>1. \A s, t \in order : s = t
        BY DEF order, resolvePluginOrder
      <4> QED
        BY <3>1, <4>1
    <3> HIDE DEF order
    <3> QED
      BY <3>1, <3>2
  <2>4. collectGlobalOptions(plugins)' = collectGlobalOptions(plugins')
    BY <2>1 DEF collectGlobalOptions, PluginGlobals
  <2>5. tasks' = NoTasks
    BY <2>1 DEF TasksInv
  <2>6. DOMAIN NoTasks = {}
    BY DEF NoTasks
  <2> QED
    BY <2>1, <2>3, <2>4, <2>5, <2>6 DEF TasksInv, Ready
<1>3. CASE Configure
  <2>1. /\ stage = "configure" /\ stage' \in {"route", "failed"} /\ UNCHANGED <<project, plugins>>
        /\ tasks' \in RegisteredTasks \/ tasks' = tasks
    BY <1>3 DEF Configure
  <2>2. collectGlobalOptions(plugins)' = collectGlobalOptions(plugins)
    BY <2>1 DEF collectGlobalOptions, PluginGlobals
  <2>3. \A id \in DOMAIN tasks' : BuiltDef(tasks'[id].definition)
    BY <2>1, TasksBuilt DEF LoadInv, TasksInv
  <2> QED
    BY <2>1, <2>2, <2>3 DEF TasksInv, Ready
<1>4. CASE Route \/ Run \/ RunSuper \/ StartWorker
  <2>1. /\ stage \in {"route", "run", "running"} /\ UNCHANGED <<tasks, project, plugins>>
        /\ stage' \in {"run", "running", "tested", "help", "failed"}
    BY <1>4 DEF Route, Run, RunSuper, StartWorker, Call
  <2>2. collectGlobalOptions(plugins)' = collectGlobalOptions(plugins)
    BY <2>1 DEF collectGlobalOptions, PluginGlobals
  <2> QED
    BY <2>1, <2>2 DEF TasksInv, Ready
<1>5. CASE UNCHANGED vars
  <2>1. UNCHANGED <<tasks, project, plugins, stage>>
    BY <1>5 DEF vars
  <2>2. collectGlobalOptions(plugins)' = collectGlobalOptions(plugins)
    BY <2>1 DEF collectGlobalOptions, PluginGlobals
  <2> QED
    BY <2>1, <2>2 DEF TasksInv, Ready
<1> QED
  BY <1>1, <1>2, <1>3, <1>4, <1>5 DEF Next

LEMMA SameResolution ==
  ASSUME UNCHANGED <<project, plugins, env>>
  PROVE  Resolution' = Resolution
BY DEF Resolution, Hooks

LEMMA ConfigKept ==
  ASSUME CommandInv, LoadInv, ConfigInv, [Next]_vars
  PROVE  ConfigInv'
<1>1. CASE Begin
  <2>1. /\ stage = "begin" /\ stage' \in {"version", "load", "help", "failed"} /\ UNCHANGED config
    BY <1>1 DEF Begin
  <2> QED
    BY <2>1 DEF ConfigInv, Ready
<1>2. CASE LoadConfig
  <2>1. stage = "load" /\ stage' \in {"configure", "failed"} /\ UNCHANGED config
    BY <1>2 DEF LoadConfig
  <2> QED
    BY <2>1 DEF ConfigInv, Ready
<1>3. CASE Configure
  <2>1. /\ stage = "configure" /\ stage' \in {"route", "failed"} /\ UNCHANGED <<project, plugins, env>>
        /\ \/ config' \in Resolution
           \/ stage' = "failed" /\ config' = config
    BY <1>3 DEF Configure, Resolution
  <2>2. plugins \in resolvePluginOrder(project.table, project.plugins)
    BY <2>1 DEF LoadInv
  <2> QED
    BY <2>1, <2>2, SameResolution DEF ConfigInv, Ready
<1>4. CASE Route
  <2>1. /\ stage = "route" /\ UNCHANGED <<project, plugins, env>>
        /\ \/ stage' \in {"help", "failed"} /\ config' = config
           \/ /\ stage' \in {"help", "run"}
              /\ config' = [config EXCEPT !.defaultNetwork = Or(globalOptions', "network", @)]
    BY <1>4 DEF Route
  <2>2. config \in Resolution
    BY <2>1 DEF ConfigInv
  <2>3. Resolution' = Resolution /\ plugins' \in resolvePluginOrder(project'.table, project'.plugins)
    BY <2>1, SameResolution DEF LoadInv
  <2>4. CASE stage' \in {"help", "failed"} /\ config' = config
    BY <2>2, <2>3, <2>4 DEF ConfigInv, Ready
  <2>5. CASE /\ stage' \in {"help", "run"}
             /\ config' = [config EXCEPT !.defaultNetwork = Or(globalOptions', "network", @)]
    <3>1. config'.imports = config.imports
      <4>1. Len(Hooks) \in Nat
        BY <2>1, PluginsLoaded DEF LoadInv
      <4>2. Resolved(config)
        BY <2>2, <4>1, ConfigResolved DEF Resolution
      <4>3. DOMAIN config = {"networks", "keyCache", "imports", "defaultNetwork", "backend"}
        BY <4>2, Zenon DEF Resolved
      <4> QED
        BY <2>5, <4>3
    <3> QED
      BY <2>2, <2>3, <2>5, <3>1 DEF ConfigInv, Ready
  <2> QED
    BY <2>1, <2>4, <2>5
<1>5. CASE Run \/ RunSuper \/ StartWorker \/ UNCHANGED vars
  <2>1. /\ UNCHANGED <<project, plugins, env, config, globalOptions>>
        /\ stage' = stage \/ (Ready /\ (Ready' \/ stage' = "failed"))
    BY <1>5 DEF Run, RunSuper, StartWorker, Call, vars, Ready
  <2>2. Resolution' = Resolution
    BY <2>1, SameResolution
  <2>3. stage' \in {"begin", "load", "configure", "route"} => stage' = stage
    BY <2>1 DEF Ready
  <2>4. Ready' => Ready
    BY <2>1 DEF Ready
  <2> QED
    BY <2>1, <2>2, <2>3, <2>4 DEF ConfigInv
<1> QED
  BY <1>1, <1>2, <1>3, <1>4, <1>5 DEF Next

LEMMA SameParsing ==
  ASSUME UNCHANGED <<argv, project, plugins, tasks>>
  PROVE  Parsing' = Parsing
BY DEF Parsing, PluginGlobals, Definitions

LEMMA ParsedKept ==
  ASSUME CommandInv, LoadInv, TasksInv, ConfigInv, ParsedInv, [Next]_vars
  PROVE  ParsedInv'
<1>1. CASE Begin \/ LoadConfig
  <2>1. /\ stage \in {"begin", "load"} /\ UNCHANGED tasks
        /\ stage' \in {"version", "load", "help", "failed", "configure"}
    BY <1>1 DEF Begin, LoadConfig
  <2> QED
    BY <2>1 DEF ParsedInv, TasksInv, Ready
<1>2. CASE Configure
  <2>1. stage' = "route" \/ (stage = "configure" /\ stage' = "failed" /\ UNCHANGED tasks)
    BY <1>2 DEF Configure
  <2> QED
    BY <2>1 DEF ParsedInv, TasksInv, Ready
<1>3. CASE Route
  <2>1. /\ UNCHANGED <<argv, project, plugins, tasks>> /\ parsed' = Parsing
        /\ stage = "route" /\ stage' \in {"help", "failed", "run"}
    BY <1>3 DEF Route, Parsing
  <2>2. Parsing' = Parsing
    BY <2>1, SameParsing
  <2>3. ASSUME Ready'
        PROVE  /\ parsed'.taskId # NoValue /\ validateParsedArgs(Definitions, parsed')
               /\ NetworkKnown(parsed'.globalArgs) /\ assertDeployBackendArg(argv, parsed', Providers)
               /\ globalOptions' = seedGlobalOptions(parsed'.globalArgs)
               /\ config' = [config EXCEPT !.defaultNetwork = Or(globalOptions', "network", @)]
    <3>1. stage' = "run"
      BY <2>1, <2>3 DEF Ready
    <3> QED
      BY <1>3, <3>1 DEF Route
  <2>4. ASSUME Ready'
        PROVE  NetworkKnown(parsed.globalArgs)'
    <3>1. Len(Hooks) \in Nat /\ config \in Resolution
      BY <2>1, PluginsLoaded DEF LoadInv, ConfigInv
    <3>2. Resolved(config)
      BY <3>1, ConfigResolved DEF Resolution
    <3>3. DOMAIN config = {"networks", "keyCache", "imports", "defaultNetwork", "backend"}
      BY <3>2, Zenon DEF Resolved
    <3>4. config'.networks = config.networks
      BY <2>3, <2>4, <3>3
    <3> QED
      BY <2>3, <2>4, <3>4 DEF NetworkKnown
  <2>5. /\ Definitions' = Definitions
        /\ \A args : seedGlobalOptions(args)' = seedGlobalOptions(args)
    BY <2>1 DEF Definitions, seedGlobalOptions, PluginGlobals
  <2> QED
    BY <2>1, <2>2, <2>3, <2>4, <2>5 DEF ParsedInv
<1>4. CASE Run \/ RunSuper \/ StartWorker \/ UNCHANGED vars
  <2>1. /\ UNCHANGED <<argv, project, plugins, tasks, parsed, config, globalOptions>>
        /\ stage' = stage \/ (Ready /\ (Ready' \/ stage' = "failed"))
    BY <1>4 DEF Run, RunSuper, StartWorker, Call, vars, Ready
  <2>2. /\ Parsing' = Parsing /\ Definitions' = Definitions
        /\ seedGlobalOptions(parsed.globalArgs)' = seedGlobalOptions(parsed.globalArgs)
    BY <2>1, SameParsing DEF Definitions, seedGlobalOptions, PluginGlobals
  <2>3. /\ (Ready \/ (tasks # NoTasks /\ stage # "route"))' => Ready \/ (tasks # NoTasks /\ stage # "route")
        /\ Ready' => Ready
    BY <2>1 DEF Ready, NoTasks
  <2> QED
    BY <2>1, <2>2, <2>3 DEF ParsedInv, NetworkKnown
<1> QED
  BY <1>1, <1>2, <1>3, <1>4 DEF Next

LEMMA CalledKept ==
  ASSUME CalledInv, [Next]_vars
  PROVE  CalledInv'
<1>1. CASE Begin \/ LoadConfig \/ Configure \/ Route
  <2>1. /\ stage \in {"begin", "load", "configure", "route"} /\ UNCHANGED received
        /\ stage' \in {"version", "load", "help", "failed", "configure", "route", "run"}
    BY <1>1 DEF Begin, LoadConfig, Configure, Route
  <2> QED
    BY <2>1 DEF CalledInv
<1>2. CASE Run \/ RunSuper
  <2> DEFINE args == IF stage = "run" THEN parsed.taskArgs ELSE Last(received)
             First(a) == a \in prepareArgs(Task.definition, parsed.taskArgs, parsed.positional)
  <2>1. /\ stage \in {"run", "running"} /\ UNCHANGED <<tasks, parsed>>
        /\ Call(args)
    BY <1>2 DEF Run, RunSuper
  <2>2. Task' = Task
    BY <2>1 DEF Task
  <2>3. \/ stage' = "failed"
        \/ stage' = "running" /\ \E a \in prepareArgs(Task.definition, args, parsed.positional) :
                                   received' = Append(received, a)
    BY <2>1 DEF Call
  <2>4. CASE stage' = "running"
    <3>1. PICK a \in prepareArgs(Task.definition, args, parsed.positional) : received' = Append(received, a)
      BY <2>3, <2>4
    <3>2. PICK X : received \in Seq(X)
      <4>1. <<>> \in Seq({})
        OBVIOUS
      <4> QED
        BY <2>1, <4>1 DEF CalledInv
    <3>3. received \in Seq(X \cup {a})
      BY <3>2
    <3>4. received' \in Seq(X \cup {a}) /\ received' # <<>>
      BY <3>1, <3>3
    <3>5. First(received'[1])
      <4>1. CASE stage = "run"
        <5>1. received = <<>>
          BY <4>1 DEF CalledInv
        <5>2. received'[1] = a
          BY <3>1, <5>1
        <5> QED
          BY <3>1, <4>1, <5>2
      <4>2. CASE stage = "running"
        <5>1. received # <<>> /\ First(received[1])
          BY <4>2 DEF CalledInv
        <5>2. received'[1] = received[1]
          BY <3>1, <3>3, <5>1
        <5> QED
          BY <5>1, <5>2
      <4> QED
        BY <2>1, <4>1, <4>2
    <3>6. (received[1] \in prepareArgs(Task.definition, parsed.taskArgs, parsed.positional))'
      BY <2>1, <2>2, <3>5
    <3> QED
      BY <2>4, <3>4, <3>6 DEF CalledInv
  <2>5. CASE stage' = "failed"
    BY <2>5 DEF CalledInv
  <2> QED
    BY <2>3, <2>4, <2>5
<1>3. CASE StartWorker \/ UNCHANGED vars
  <2>1. /\ UNCHANGED <<received, tasks, parsed>>
        /\ stage' = stage \/ (stage = "running" /\ stage' \in {"tested", "failed"})
    BY <1>3 DEF StartWorker, vars
  <2>2. Task' = Task
    BY <2>1 DEF Task
  <2> QED
    BY <2>1, <2>2 DEF CalledInv
<1> QED
  BY <1>1, <1>2, <1>3 DEF Next

LEMMA WorkerKept ==
  ASSUME WorkerInv, [Next]_vars
  PROVE  WorkerInv'
<1>1. ASSUME UNCHANGED <<project, plugins, env, config, globalOptions, configPath>>
      PROVE  /\ buildLre(WorkerEnv)' = buildLre(WorkerEnv)
             /\ readExplicitDeployBackend' = readExplicitDeployBackend
  <2>0. readExplicitDeployBackend' = readExplicitDeployBackend
    BY <1>1 DEF readExplicitDeployBackend
  <2>1. WorkerEnv' = WorkerEnv
    BY <1>1 DEF WorkerEnv
  <2>2. \A v : buildLre(v)' = buildLre(v)
    BY <1>1 DEF buildLre
  <2> QED
    BY <2>0, <2>1, <2>2
<1>2. CASE Begin \/ LoadConfig \/ Configure \/ Route \/ Run \/ RunSuper
  <2>1. stage' # "tested"
    BY <1>2 DEF Begin, LoadConfig, Configure, Route, Run, RunSuper, Call
  <2> QED
    BY <2>1 DEF WorkerInv
<1>3. CASE StartWorker
  <2>1. /\ UNCHANGED <<project, plugins, env, config, globalOptions, configPath>>
        /\ \/ stage' = "failed"
           \/ /\ readExplicitDeployBackend
              /\ worker' \in IF buildLre(WorkerEnv) = {} THEN {None} ELSE buildLre(WorkerEnv)
    BY <1>3 DEF StartWorker
  <2> QED
    BY <1>1, <2>1 DEF WorkerInv
<1>4. CASE UNCHANGED vars
  <2>1. UNCHANGED <<project, plugins, env, config, globalOptions, configPath, worker, stage>>
    BY <1>4 DEF vars
  <2> QED
    BY <1>1, <2>1 DEF WorkerInv
<1> QED
  BY <1>2, <1>3, <1>4 DEF Next

LEMMA MainKept ==
  ASSUME LoadInv, MainInv, [Next]_vars
  PROVE  MainInv'
BY CommandKept, TasksKept, ConfigKept, ParsedKept, CalledKept, WorkerKept DEF MainInv

LEMMA MainBegins == Init => MainInv
<1> SUFFICES ASSUME Init
             PROVE  MainInv
  OBVIOUS
<1>1. /\ stage = "begin" /\ tasks = NoTasks /\ config = None /\ received = <<>>
      /\ \E c \in Commands : argv = c[1] /\ project = c[2]
  BY DEF Init
<1>2. DOMAIN NoTasks = {}
  BY DEF NoTasks
<1> QED
  BY <1>1, <1>2 DEF MainInv, CommandInv, TasksInv, ConfigInv, ParsedInv, CalledInv, WorkerInv, Ready

-----------------------------------------------------------------------------
(* What the user wrote is refused or takes effect                          *)

LEMMA TokensTyped == CommandInv => argv \in Seq(Token)
BY StartupAssumption DEF CommandInv, Token

LEMMA NoNameReserved ==
  ASSUME collectGlobalOptions(plugins)
  PROVE  PublicNames(NamesOf(PluginGlobals(plugins))) \cap Reserved = {}
BY DEF collectGlobalOptions, Reserved

(* A task that runs was accepted with its arguments.                       *)
LEMMA CommandAccepted ==
  ASSUME MainInv, Ready
  PROVE  /\ Accepted(argv, PluginGlobals(plugins), Definitions, parsed)
         /\ Task.definition = Definitions[parsed.taskId]
<1>1. /\ collectGlobalOptions(plugins) /\ \A id \in DOMAIN tasks : BuiltDef(tasks[id].definition)
      /\ parsed = Parsing /\ parsed.taskId # NoValue /\ validateParsedArgs(Definitions, parsed)
  BY DEF MainInv, TasksInv, ParsedInv
<1>2. DOMAIN Definitions = DOMAIN tasks /\ \A id \in DOMAIN tasks : Definitions[id] = tasks[id].definition
  BY DEF Definitions
<1>3. parsed.taskId \in DOMAIN tasks
  BY <1>1, <1>2 DEF validateParsedArgs
<1>4. BuiltDef(Definitions[parsed.taskId])
  BY <1>1, <1>2, <1>3
<1>5. PublicNames(NamesOf(PluginGlobals(plugins))) \cap Reserved = {}
  BY <1>1, NoNameReserved
<1>6. parsed = parseArgs(argv, PluginGlobals(plugins), Definitions)
  BY <1>1 DEF Parsing
<1> QED
  BY <1>1, <1>2, <1>3, <1>4, <1>5, <1>6 DEF Accepted, Task

(* The parts of InputHonoured follow from the invariant.                   *)
LEMMA NamedIsFound == MainInv => TaskNamedIsFound
<1> SUFFICES ASSUME MainInv, Routed, NEW i \in DOMAIN argv, ~argv[i].option, argv[i].name \in DOMAIN tasks
             PROVE  parsed.taskId \in DOMAIN tasks
  BY DEF TaskNamedIsFound
<1> DEFINE known == Lookups(argv, PluginGlobals(plugins), Definitions)
<1>1. argv \in Seq(Token)
  BY TokensTyped DEF MainInv
<1>2. DOMAIN Definitions = DOMAIN tasks
  BY DEF Definitions
<1>3. parsed = parseArgs(argv, PluginGlobals(plugins), Definitions)
  BY DEF MainInv, ParsedInv, Routed, Parsing
<1>4. ParseInv(argv, known, parsed, Len(argv))
  BY <1>1, <1>3, ParseKeeps
<1>5. parsed.taskId = findTask(argv, PluginGlobals(plugins), Definitions).id
  <2>1. parsed.taskId = known.task.id
    <3> HIDE DEF known
    <3> QED
      BY <1>4 DEF ParseInv
  <2> QED
    BY <2>1 DEF Lookups
<1>6. TaskWord(argv, Definitions, i)
  BY <1>2 DEF TaskWord
<1> QED
  BY <1>1, <1>2, <1>5, <1>6, TaskFound

LEMMA TypedArrives == MainInv => NothingDropped
<1> DEFINE globals == PluginGlobals(plugins)
           def == Task.definition
<1>1. SUFFICES ASSUME MainInv, Dispatched, ~VariadicNamed(argv, globals, def)
               PROVE  /\ \A i \in DOMAIN argv :
                           argv[i].option /\ TaskOption(def, argv[i].name) /\ HasValueAt(argv, parsed, def, i) =>
                             buildTaskArgumentLookup(def)[argv[i].name].name \in DOMAIN received[1]
                      /\ \A i \in DOMAIN argv : ~argv[i].option =>
                           \/ argv[i].name = parsed.taskId
                           \/ argv[i].name \in WordsOf(received[1]) \cup WordsOf(parsed.globalArgs)
                           \/ /\ i > 1 /\ argv[i - 1].option
                              /\ RepeatedName(argv, globals, def,
                                              CanonicalName(def, globals, argv[i - 1].name))
  BY DEF NothingDropped, HasValue, VariadicNamed, TaskOption, HasValueAt, RepeatedName, CanonicalName,
         Reserved
<1>2. argv \in Seq(Token)
  BY <1>1, TokensTyped DEF MainInv
<1>3. /\ Accepted(argv, globals, Definitions, parsed) /\ def = Definitions[parsed.taskId]
  BY <1>1, CommandAccepted DEF Dispatched, Ready
<1>4. received[1] \in prepareArgs(def, parsed.taskArgs, parsed.positional)
  BY <1>1 DEF MainInv, CalledInv, Dispatched
<1> HIDE DEF globals, def
<1> QED
  BY <1>1, <1>2, <1>3, <1>4, TypedReaches

(* An option that is given has the value it is given.                      *)
LEMMA SeededAt ==
  ASSUME NEW args, NEW n \in DOMAIN args, n \notin {"prove", "help", "version", "verbose", "config"}
  PROVE  n \in DOMAIN seedGlobalOptions(args) /\ seedGlobalOptions(args)[n] = args[n].words[1]
BY DEF seedGlobalOptions, Over

LEMMA TextIs ==
  ASSUME NEW v, NEW w
  PROVE  /\ Text(v) = Text(w) => v = w
         /\ Text(v).words[1] = v
         /\ Text(v) # Bool(TRUE) /\ Text(v) # Bool(FALSE)
<1>1. Text(v).words[1] = v /\ Text(w).words[1] = w
  BY DEF Text
<1>2. Text(v).is = "string" /\ Bool(TRUE).is = "boolean" /\ Bool(FALSE).is = "boolean"
  BY DEF Text, Bool
<1> QED
  BY <1>1, <1>2

(* Fields that are put over others.                                        *)
LEMMA OverDomain ==
  ASSUME NEW over, NEW under
  PROVE  \A n : n \in DOMAIN Over(over, under) <=> n \in DOMAIN over \/ n \in DOMAIN under
BY DEF Over

LEMMA OverAt ==
  ASSUME NEW over, NEW under
  PROVE  \A n \in DOMAIN over : Over(over, under)[n] = over[n]
BY DEF Over

LEMMA UnderAt ==
  ASSUME NEW over, NEW under
  PROVE  \A n \in DOMAIN under : n \notin DOMAIN over => Over(over, under)[n] = under[n]
BY DEF Over

(* The names built-in options and plugin options are kept under.           *)
LEMMA BuiltInNames ==
  ASSUME NEW globals, PublicNames(NamesOf(globals)) \cap Reserved = {}, NEW n \in Reserved
  PROVE  buildGlobalArgumentLookup(globals)[n].name # "deployBackend"
<1> DEFINE builtIn(m) == [name |-> m, type |-> BUILT_IN_GLOBAL_ARGUMENTS[m], builtIn |-> TRUE]
           plugin(p) == CHOOSE g \in globals : p \in getPublicArgumentNames(g.name)
           P == [p \in PublicNames(NamesOf(globals)) |->
                   [name |-> plugin(p).name, type |-> plugin(p).type, builtIn |-> FALSE]]
           B == [m \in DOMAIN BUILT_IN_GLOBAL_ARGUMENTS |-> builtIn(m)]
           A == [a \in DOMAIN BUILT_IN_GLOBAL_ARGUMENT_ALIASES |->
                   builtIn(BUILT_IN_GLOBAL_ARGUMENT_ALIASES[a])]
           made == buildGlobalArgumentLookup(globals)
<1>1. made = Over(P, Over(B, A))
  BY DEF buildGlobalArgumentLookup
<1>2. n \notin DOMAIN P
  OBVIOUS
<1>3. DOMAIN BUILT_IN_GLOBAL_ARGUMENTS = {"config", "network", "prove", "verbose", "help", "version"}
      /\ DOMAIN BUILT_IN_GLOBAL_ARGUMENT_ALIASES = {"h", "v"}
      /\ BUILT_IN_GLOBAL_ARGUMENT_ALIASES["h"] = "help" /\ BUILT_IN_GLOBAL_ARGUMENT_ALIASES["v"] = "version"
  BY DEF BUILT_IN_GLOBAL_ARGUMENTS, BUILT_IN_GLOBAL_ARGUMENT_ALIASES
<1>4. /\ DOMAIN B = DOMAIN BUILT_IN_GLOBAL_ARGUMENTS /\ \A m \in DOMAIN B : B[m].name = m
      /\ DOMAIN A = DOMAIN BUILT_IN_GLOBAL_ARGUMENT_ALIASES
      /\ \A a \in DOMAIN A : A[a].name = BUILT_IN_GLOBAL_ARGUMENT_ALIASES[a]
  OBVIOUS
<1>5. n \in DOMAIN B \/ n \in DOMAIN A
  BY <1>4 DEF Reserved, getReservedBuiltInGlobalArgumentNames
<1> HIDE DEF P, B, A, made
<1>6. n \in DOMAIN B => made[n] = B[n]
  BY <1>1, <1>2, OverAt, UnderAt, OverDomain
<1>7. n \notin DOMAIN B => made[n] = A[n]
  BY <1>1, <1>2, <1>5, UnderAt, OverDomain
<1> QED
  BY <1>3, <1>4, <1>5, <1>6, <1>7 DEF made

(* An option of a plugin is kept under the name it is a spelling of.       *)
LEMMA PluginNames ==
  ASSUME NEW globals, NEW n \in PublicNames(NamesOf(globals))
  PROVE  \E g \in globals : /\ n \in getPublicArgumentNames(g.name)
                            /\ buildGlobalArgumentLookup(globals)[n].name = g.name
<1> DEFINE builtIn(m) == [name |-> m, type |-> BUILT_IN_GLOBAL_ARGUMENTS[m], builtIn |-> TRUE]
           plugin(p) == CHOOSE g \in globals : p \in getPublicArgumentNames(g.name)
           P == [p \in PublicNames(NamesOf(globals)) |->
                   [name |-> plugin(p).name, type |-> plugin(p).type, builtIn |-> FALSE]]
           B == [m \in DOMAIN BUILT_IN_GLOBAL_ARGUMENTS |-> builtIn(m)]
           A == [a \in DOMAIN BUILT_IN_GLOBAL_ARGUMENT_ALIASES |->
                   builtIn(BUILT_IN_GLOBAL_ARGUMENT_ALIASES[a])]
           made == buildGlobalArgumentLookup(globals)
<1>1. made = Over(P, Over(B, A))
  BY DEF buildGlobalArgumentLookup
<1>2. n \in DOMAIN P /\ P[n].name = plugin(n).name
  OBVIOUS
<1>3. plugin(n) \in globals /\ n \in getPublicArgumentNames(plugin(n).name)
  <2>1. \E g \in globals : n \in getPublicArgumentNames(g.name)
    BY DEF PublicNames, NamesOf
  <2> QED
    BY <2>1
<1> HIDE DEF P, B, A, made, plugin
<1>4. made[n] = P[n]
  BY <1>1, <1>2, OverAt
<1> QED
  BY <1>2, <1>3, <1>4 DEF made

(* The options deployBackend and deploy-backend are the one of the plugin. *)
LEMMA BackendLookup ==
  ASSUME collectGlobalOptions(plugins), "deployBackend" \in NamesOf(PluginGlobals(plugins)),
         NEW n \in {"deployBackend", "deploy-backend"}
  PROVE  /\ n \in DOMAIN buildGlobalArgumentLookup(PluginGlobals(plugins)) \ Reserved
         /\ buildGlobalArgumentLookup(PluginGlobals(plugins))[n].name = "deployBackend"
<1> DEFINE globals == PluginGlobals(plugins)
           pairs == {pair \in ToSet(plugins) \X globals : pair[2] \in project.table[pair[1]].globals}
           Names(pair) == getPublicArgumentNames(pair[2].name)
<1>1. PublicNames(NamesOf(globals)) \cap Reserved = {} /\ \A a, b \in pairs : a # b => Names(a) \cap Names(b) = {}
  BY DEF collectGlobalOptions, Reserved
<1>2. PICK g \in globals : g.name = "deployBackend"
  BY DEF NamesOf
<1>3. n \in getPublicArgumentNames(g.name)
  BY <1>2, KebabAssumption DEF getPublicArgumentNames, camelToKebab
<1>4. n \in PublicNames(NamesOf(globals))
  BY <1>3 DEF PublicNames, NamesOf
<1>5. PICK h \in globals : /\ n \in getPublicArgumentNames(h.name)
                           /\ buildGlobalArgumentLookup(globals)[n].name = h.name
  BY <1>4, PluginNames
<1>6. PICK p \in ToSet(plugins), q \in ToSet(plugins) :
        g \in project.table[p].globals /\ h \in project.table[q].globals
  BY DEF PluginGlobals
<1>7. <<p, g>> \in pairs /\ <<q, h>> \in pairs /\ n \in Names(<<p, g>>) /\ n \in Names(<<q, h>>)
  BY <1>3, <1>5, <1>6
<1> HIDE DEF pairs, Names, globals
<1>8. <<p, g>> = <<q, h>>
  BY <1>1, <1>7
<1>9. g = h
  BY <1>8
<1>10. DOMAIN buildGlobalArgumentLookup(globals) = PublicNames(NamesOf(globals)) \cup Reserved
  BY <1>1, GlobalLookup
<1> QED
  BY <1>1, <1>2, <1>4, <1>5, <1>9, <1>10 DEF globals

(* Only an option deployBackend or deploy-backend gives the backend.       *)
LEMMA BackendSeen ==
  ASSUME NEW globals, PublicNames(NamesOf(globals)) \cap Reserved = {},
         NEW n \in DOMAIN buildGlobalArgumentLookup(globals),
         buildGlobalArgumentLookup(globals)[n].name = "deployBackend"
  PROVE  n \in {"deployBackend", "deploy-backend"}
<1>1. n \in PublicNames(NamesOf(globals)) \/ n \in Reserved
  BY GlobalLookup
<1>2. n \notin Reserved
  BY BuiltInNames
<1>3. n \in getPublicArgumentNames("deployBackend")
  BY <1>1, <1>2, PluginNames
<1> QED
  BY <1>3, KebabAssumption DEF getPublicArgumentNames, camelToKebab

(* What the parse gives for the backend is typed, if it is a provider.     *)
LEMMA BackendGiven ==
  ASSUME MainInv, Ready, "deployBackend" \in DOMAIN parsed.globalArgs
  PROVE  /\ "deployBackend" \in DOMAIN globalOptions
         /\ globalOptions["deployBackend"] = parsed.globalArgs["deployBackend"].words[1]
         /\ globalOptions["deployBackend"] \in Providers =>
              globalOptions["deployBackend"] \in UNION {TypedValue(i) : i \in BackendOptions}
<1> DEFINE globals == PluginGlobals(plugins)
           known == Lookups(argv, globals, Definitions)
           args == parsed.globalArgs
           v == args["deployBackend"]
<1>1. argv \in Seq(Token)
  BY TokensTyped DEF MainInv
<1>2. Accepted(argv, globals, Definitions, parsed)
  BY CommandAccepted
<1>3. PublicNames(NamesOf(globals)) \cap Reserved = {}
  BY <1>2 DEF Accepted
<1>4. globalOptions = seedGlobalOptions(args)
  BY DEF MainInv, ParsedInv
<1> HIDE DEF globals
<1>5. ParseInv(argv, known, parsed, Len(argv)) /\ known.global = buildGlobalArgumentLookup(globals)
  BY <1>1, <1>2, SameNames
<1> HIDE DEF known
<1>6. Given(argv, known, args, TRUE)
  BY <1>5 DEF ParseInv
<1>7. PICK j \in DOMAIN argv : /\ argv[j].option /\ KeptAs(known, argv[j].name) = "deployBackend"
                              /\ ForGlobal(known, argv[j].name) /\ From(argv, j, v)
  <2> HIDE DEF args, v
  <2>1. "deployBackend" \in DOMAIN args
    BY DEF args
  <2> QED
    BY <1>6, <2>1 DEF Given, v
<1>8. j \in BackendOptions
  <2> DEFINE n == argv[j].name
  <2>1. n \in DOMAIN buildGlobalArgumentLookup(globals)
        /\ buildGlobalArgumentLookup(globals)[n].name = "deployBackend"
    BY <1>5, <1>7 DEF ForGlobal, KeptAs
  <2>2. n \in {"deployBackend", "deploy-backend"}
    BY <1>3, <2>1, BackendSeen
  <2> QED
    BY <1>7, <2>2 DEF BackendOptions
<1>9. "deployBackend" \in DOMAIN globalOptions /\ globalOptions["deployBackend"] = v.words[1]
  <2> HIDE DEF args
  <2>1. "deployBackend" \in DOMAIN args
    BY DEF args
  <2> QED
    BY <1>4, <2>1, SeededAt
<1>10. v.words[1] \in Providers => v.words[1] \in TypedValue(j)
  <2> HIDE DEF v
  <2>1. CASE v \in {Bool(TRUE), Bool(FALSE)}
    <3>1. Bool(TRUE).words[1] = "true" /\ Bool(FALSE).words[1] = "false"
      BY DEF Bool
    <3> QED
      BY <2>1, <3>1 DEF Providers
  <2>2. CASE argv[j].inline # NoValue /\ v = Text(argv[j].inline)
    BY <2>2, TextIs DEF TypedValue
  <2>3. CASE /\ argv[j].inline = NoValue /\ j + 1 \in DOMAIN argv /\ ~argv[j + 1].option
             /\ v = Text(argv[j + 1].name)
    <3>1. j + 1 \in {k \in DOMAIN argv : k = j + 1 /\ ~argv[k].option}
      BY <2>3
    <3>2. argv[j + 1].name \in TypedValue(j)
      BY <2>3, <3>1, Zenon DEF TypedValue
    <3> QED
      BY <2>3, <3>2, TextIs
  <2> QED
    BY <1>7, <2>1, <2>2, <2>3 DEF From
<1> QED
  BY <1>8, <1>9, <1>10

(* A backend that is given a value is in the arguments.                    *)
LEMMA BackendKept ==
  ASSUME MainInv, Ready, "deployBackend" \in NamesOf(PluginGlobals(plugins)),
         {"deployBackend", "deploy-backend"} \cap DOMAIN buildTaskArgumentLookup(Task.definition) = {},
         NEW i \in BackendOptions, HasValue(i)
  PROVE  "deployBackend" \in DOMAIN parsed.globalArgs
<1> DEFINE globals == PluginGlobals(plugins)
           known == Lookups(argv, globals, Definitions)
           n == argv[i].name
<1>1. argv \in Seq(Token)
  BY TokensTyped DEF MainInv
<1>2. Accepted(argv, globals, Definitions, parsed) /\ Task.definition = Definitions[parsed.taskId]
  BY CommandAccepted
<1>3. i \in DOMAIN argv /\ argv[i].option /\ n \in {"deployBackend", "deploy-backend"}
  BY DEF BackendOptions
<1>4. /\ n \in DOMAIN buildGlobalArgumentLookup(globals) /\ n \notin Reserved
      /\ buildGlobalArgumentLookup(globals)[n].name = "deployBackend"
  BY <1>3, BackendLookup DEF MainInv, TasksInv
<1>5. n \notin DOMAIN buildTaskArgumentLookup(Definitions[parsed.taskId])
  BY <1>2, <1>3
<1> HIDE DEF globals
<1>6. /\ ParseInv(argv, known, parsed, Len(argv)) /\ WordAt(argv, known.task) /\ known.task.id = parsed.taskId
      /\ known.schema = buildTaskArgumentLookup(Definitions[parsed.taskId])
      /\ known.global = buildGlobalArgumentLookup(globals)
  BY <1>1, <1>2, SameNames
<1> HIDE DEF known, n
<1>7. ForGlobal(known, n) /\ KeptAs(known, n) = "deployBackend"
  BY <1>4, <1>5, <1>6 DEF ForGlobal, ForTask, KeptAs
<1>8. Valued(argv, known, i)
  BY <1>1, <1>3, <1>6, FollowedByValue DEF HasValue
<1>9. OptionKept(argv, known, parsed, i)
  <2>1. i <= Len(argv)
    BY <1>1, <1>3
  <2> QED
    BY <1>3, <1>6, <2>1 DEF ParseInv
<1> QED
  BY <1>7, <1>8, <1>9 DEF OptionKept, n

(* A backend that is typed with a value is the one that deploys.           *)
LEMMA BackendTyped == MainInv => BackendHonoured
<1> DEFINE chosen == resolveDeployBackendOption(globalOptions, config, config.defaultNetwork, env)
           typed == UNION {TypedValue(i) : i \in BackendOptions}
<1> HIDE DEF typed
<1> SUFFICES ASSUME MainInv, Dispatched
             PROVE  /\ sawDeployBackendFlag(argv) => \E b \in typed : chosen = {b}
                    /\ /\ "deployBackend" \in NamesOf(PluginGlobals(plugins))
                       /\ {"deployBackend", "deploy-backend"}
                            \cap DOMAIN buildTaskArgumentLookup(Task.definition) = {}
                       /\ \E i \in BackendOptions : HasValue(i)
                       => chosen \subseteq typed
  BY DEF BackendHonoured, typed
<1>1. Ready
  BY DEF Dispatched, Ready
<1>2. ASSUME "deployBackend" \in DOMAIN parsed.globalArgs
      PROVE  /\ chosen = {globalOptions["deployBackend"]} \cap Providers /\ chosen \subseteq typed
             /\ globalOptions["deployBackend"] = parsed.globalArgs["deployBackend"].words[1]
  <2>1. chosen = {globalOptions["deployBackend"]} \cap Providers
    BY <1>1, <1>2, BackendGiven DEF resolveDeployBackendOption
  <2> HIDE DEF chosen
  <2> QED
    BY <1>1, <1>2, <2>1, BackendGiven DEF typed
<1> HIDE DEF chosen
<1>3. ASSUME sawDeployBackendFlag(argv)
      PROVE  \E b \in typed : chosen = {b}
  <2>1. PICK p \in Providers : /\ "deployBackend" \in DOMAIN parsed.globalArgs
                               /\ parsed.globalArgs["deployBackend"] = Text(p)
    BY <1>1, <1>3 DEF MainInv, ParsedInv, assertDeployBackendArg
  <2>2. globalOptions["deployBackend"] = p
    BY <1>2, <2>1, TextIs
  <2> QED
    BY <1>2, <2>1, <2>2
<1> QED
  BY <1>1, <1>2, <1>3, BackendKept

(* Plugins that keep apart leave the imports of the user as they are.      *)
LEMMA ImportsTakeEffect ==
  ASSUME PluginImportsApart, MainInv
  PROVE  ImportsMerged
<1> DEFINE user == Or(project.config, "imports", None)
<1> SUFFICES ASSUME config # None
             PROVE  /\ \A k \in DOMAIN user : \A i \in DOMAIN user[k] :
                         normalizeRuntimeImportRef(user[k][i]) \in ToSet(config.imports[normalizeProgramId(k)])
                    /\ \A k \in DOMAIN config.imports : Increasing(config.imports[k])
  BY DEF ImportsMerged, Increasing
<1>1. PICK c \in Commands : argv = c[1] /\ project = c[2]
  BY DEF MainInv, CommandInv
<1>2. PICK r \in Resolution : config.imports = r.imports
  BY DEF MainInv, ConfigInv
<1>3. /\ plugins \in Seq(DOMAIN project.table) /\ Len(Hooks) \in Nat /\ DOMAIN Hooks = 1 .. Len(Hooks)
  BY PluginsLoaded DEF MainInv, ConfigInv
<1>4. \A i \in 1 .. Len(Hooks) :
        /\ "imports" \notin DOMAIN Or(Hooks[i], "extend", None)
        /\ \A k \in DOMAIN AddedImports(Hooks[i]) :
             Increasing(AddedImports(Hooks[i])[k]) /\ \A u \in DOMAIN user : normalizeProgramId(u) # k
  <2> SUFFICES ASSUME NEW i \in 1 .. Len(Hooks)
               PROVE  /\ "imports" \notin DOMAIN Or(Hooks[i], "extend", None)
                      /\ \A k \in DOMAIN AddedImports(Hooks[i]) :
                           Increasing(AddedImports(Hooks[i])[k])
                           /\ \A u \in DOMAIN user : normalizeProgramId(u) # k
    OBVIOUS
  <2>1. plugins[i] \in DOMAIN project.table /\ Hooks[i] = project.table[plugins[i]].hooks
    <3>1. i \in DOMAIN plugins
      BY <1>3 DEF Hooks
    <3> QED
      BY <1>3, <3>1 DEF Hooks
  <2>2. LET hooks == project.table[plugins[i]].hooks
        IN  /\ "imports" \notin DOMAIN Or(hooks, "extend", None)
            /\ \A k \in DOMAIN AddedImports(hooks) :
                 /\ Increasing(AddedImports(hooks)[k])
                 /\ \A u \in DOMAIN user : normalizeProgramId(u) # k
    BY <1>1, <2>1 DEF PluginImportsApart, AddedImports, Increasing
  <2> QED
    BY <2>1, <2>2
<1>5. Or(extendUserConfig(project.config, Hooks), "imports", None) = user
  <2> HIDE DEF user
  <2>1. \A i \in 1 .. Len(Hooks) : "imports" \notin DOMAIN Or(Hooks[i], "extend", None)
    BY <1>4
  <2> QED
    BY <1>3, <2>1, SectionKept DEF user
<1>6. PICK base : /\ base \in buildDefaults(extendUserConfig(project.config, Hooks), env)
                  /\ r = mergePartials(base, Hooks) /\ validateExecutionUserConfig(user)
  BY <1>2, <1>5 DEF Resolution, resolveConfig
<1>7. base.imports = resolveExecutionConfig(user)
  <2> DEFINE extended == extendUserConfig(project.config, Hooks)
  <2>1. base \in buildDefaults(extended, env) /\ Or(extended, "imports", None) = user
    BY <1>5, <1>6
  <2> HIDE DEF extended, user
  <2> QED
    BY <2>1 DEF buildDefaults
<1>8. Importable(user)
  BY <1>1, StartupAssumption DEF Importable
<1> HIDE DEF user
<1>9. /\ DOMAIN base.imports = {normalizeProgramId(k) : k \in DOMAIN user}
      /\ \A k \in DOMAIN user : \A i \in DOMAIN user[k] :
           refKind[user[k][i]] # "invalid" =>
             normalizeRuntimeImportRef(user[k][i]) \in ToSet(base.imports[normalizeProgramId(k)])
      /\ \A key \in DOMAIN base.imports : Increasing(base.imports[key])
  BY <1>7, <1>8, ExecutionResolved
<1>10. \A k \in DOMAIN user : \A i \in DOMAIN user[k] : refKind[user[k][i]] # "invalid"
  BY <1>6 DEF validateExecutionUserConfig
<1>11. \A i \in 1 .. Len(Hooks) : \A k \in DOMAIN AddedImports(Hooks[i]) :
         k \notin DOMAIN base.imports /\ Increasing(AddedImports(Hooks[i])[k])
  BY <1>4, <1>9
<1>12. /\ \A k \in DOMAIN base.imports : k \in DOMAIN r.imports /\ r.imports[k] = base.imports[k]
       /\ \A k \in DOMAIN r.imports : Increasing(r.imports[k])
  <2> DEFINE made == mergePartials(base, Hooks).imports
  <2>1. /\ \A k \in DOMAIN base.imports : k \in DOMAIN made /\ made[k] = base.imports[k]
        /\ \A k \in DOMAIN made : Increasing(made[k])
    BY <1>3, <1>9, <1>11, ImportsKept
  <2>2. made = r.imports
    BY <1>6
  <2> HIDE DEF made
  <2> QED
    BY <2>1, <2>2
<1> QED
  <2>1. \A k \in DOMAIN user : config.imports[normalizeProgramId(k)] = base.imports[normalizeProgramId(k)]
    BY <1>2, <1>9, <1>12
  <2> QED
    BY <1>2, <1>9, <1>10, <1>12, <2>1

(* What is typed on the command line takes effect or the command is        *)
(* refused: the task that is named is found, its arguments reach its       *)
(* action, a backend that is typed with a value is the one that deploys,   *)
(* --deploy-backend has a value, and imports are merged.  For any commands,*)
(* projects and environments in which no plugin lists imports for a        *)
(* program of the user's.  (findTask(), parseArgs(), prepareArgs(),        *)
(* assertDeployBackendArg(), resolveExecutionConfig().)                    *)
THEOREM InputTakesEffect ==
  ASSUME PluginImportsApart
  PROVE  Spec => []InputHonoured
<1>1. Init => LoadInv /\ MainInv
  BY MainBegins DEF Init, LoadInv
<1>2. LoadInv /\ MainInv /\ [Next]_vars => (LoadInv /\ MainInv)'
  BY LoadKept, MainKept
<1>3. LoadInv /\ MainInv => InputHonoured
  BY NamedIsFound, TypedArrives, BackendTyped, ImportsTakeEffect DEF InputHonoured
<1> QED
  BY <1>1, <1>2, <1>3, PTL DEF Spec

-----------------------------------------------------------------------------
(* What a worker resolves                                                  *)

(* The environment of a worker, part by part.                              *)
InNetwork == IF "network" \in DOMAIN globalOptions
               THEN Field("LIONDEN_NETWORK", globalOptions["network"]) ELSE None
InBackend == IF "deployBackend" \in DOMAIN globalOptions
               THEN Field("LIONDEN_DEPLOY_BACKEND", globalOptions["deployBackend"]) ELSE None
InProve == IF resolveProveOption(globalOptions, env) THEN Field("LIONDEN_PROVE", "true") ELSE None
Inherited == [n \in DOMAIN env \ {"LIONDEN_NETWORK", "LIONDEN_PROVE"} |-> env[n]]

LEMMA FieldIs ==
  ASSUME NEW name, NEW v
  PROVE  DOMAIN Field(name, v) = {name} /\ Field(name, v)[name] = v
BY DEF Field

LEMMA NoneIs == DOMAIN None = {}
BY DEF None

(* The parts together are the environment of a worker.                     *)
LEMMA PartsOfEnv ==
  /\ WorkerEnv = Over(Field("LIONDEN_CONFIG_PATH", configPath),
                      Over(Over(InNetwork, Over(InBackend, InProve)), Inherited))
  /\ DOMAIN InNetwork = {n \in {"LIONDEN_NETWORK"} : "network" \in DOMAIN globalOptions}
  /\ DOMAIN InBackend = {n \in {"LIONDEN_DEPLOY_BACKEND"} : "deployBackend" \in DOMAIN globalOptions}
  /\ DOMAIN InProve = {n \in {"LIONDEN_PROVE"} : resolveProveOption(globalOptions, env)}
  /\ DOMAIN Inherited = DOMAIN env \ {"LIONDEN_NETWORK", "LIONDEN_PROVE"}
  /\ \A n \in DOMAIN Inherited : Inherited[n] = env[n]
<1>1. WorkerEnv = Over(Field("LIONDEN_CONFIG_PATH", configPath),
                      Over(Over(InNetwork, Over(InBackend, InProve)), Inherited))
  BY DEF WorkerEnv, InNetwork, InBackend, InProve, Inherited
<1>2. DOMAIN InNetwork = {n \in {"LIONDEN_NETWORK"} : "network" \in DOMAIN globalOptions}
  BY FieldIs, NoneIs DEF InNetwork
<1>3. DOMAIN InBackend = {n \in {"LIONDEN_DEPLOY_BACKEND"} : "deployBackend" \in DOMAIN globalOptions}
  BY FieldIs, NoneIs DEF InBackend
<1>4. DOMAIN InProve = {n \in {"LIONDEN_PROVE"} : resolveProveOption(globalOptions, env)}
  BY FieldIs, NoneIs DEF InProve
<1>5. DOMAIN Inherited = DOMAIN env \ {"LIONDEN_NETWORK", "LIONDEN_PROVE"}
  BY DEF Inherited
<1>6. \A n \in DOMAIN Inherited : Inherited[n] = env[n]
  BY DEF Inherited
<1> QED
  BY <1>1, <1>2, <1>3, <1>4, <1>5, <1>6

(* Which part a variable of a worker is from.                              *)
LEMMA WorkerVariable ==
  ASSUME NEW n
  PROVE  LET explicit == Over(InNetwork, Over(InBackend, InProve))
         IN  /\ n \in DOMAIN WorkerEnv <=>
                  n = "LIONDEN_CONFIG_PATH" \/ n \in DOMAIN explicit \/ n \in DOMAIN Inherited
             /\ n \in DOMAIN explicit <=>
                  n \in DOMAIN InNetwork \/ n \in DOMAIN InBackend \/ n \in DOMAIN InProve
             /\ n = "LIONDEN_CONFIG_PATH" => WorkerEnv[n] = configPath
             /\ n # "LIONDEN_CONFIG_PATH" /\ n \in DOMAIN explicit => WorkerEnv[n] = explicit[n]
             /\ n # "LIONDEN_CONFIG_PATH" /\ n \notin DOMAIN explicit /\ n \in DOMAIN Inherited =>
                  WorkerEnv[n] = env[n]
<1> DEFINE explicit == Over(InNetwork, Over(InBackend, InProve))
           path == Field("LIONDEN_CONFIG_PATH", configPath)
           rest == Over(explicit, Inherited)
<1>1. WorkerEnv = Over(path, rest)
  BY PartsOfEnv
<1>2. DOMAIN path = {"LIONDEN_CONFIG_PATH"} /\ path["LIONDEN_CONFIG_PATH"] = configPath
  BY FieldIs
<1>3. n \in DOMAIN explicit <=> n \in DOMAIN InNetwork \/ n \in DOMAIN InBackend \/ n \in DOMAIN InProve
  BY OverDomain
<1> HIDE DEF explicit, path
<1>4. n \in DOMAIN rest <=> n \in DOMAIN explicit \/ n \in DOMAIN Inherited
  BY OverDomain
<1>5. n \in DOMAIN explicit => rest[n] = explicit[n]
  BY OverAt
<1>6. n \notin DOMAIN explicit /\ n \in DOMAIN Inherited => rest[n] = env[n]
  <2>1. n \notin DOMAIN explicit /\ n \in DOMAIN Inherited => rest[n] = Inherited[n]
    BY UnderAt
  <2> QED
    BY <2>1, PartsOfEnv
<1> HIDE DEF rest
<1>7. n \in DOMAIN WorkerEnv <=> n \in DOMAIN path \/ n \in DOMAIN rest
  BY <1>1, OverDomain
<1>8. n \in DOMAIN path => WorkerEnv[n] = path[n]
  BY <1>1, OverAt
<1>9. n \notin DOMAIN path /\ n \in DOMAIN rest => WorkerEnv[n] = rest[n]
  BY <1>1, UnderAt
<1> QED
  BY <1>2, <1>3, <1>4, <1>5, <1>6, <1>7, <1>8, <1>9 DEF explicit

LEMMA WorkerOther ==
  ASSUME NEW n, n \notin {"LIONDEN_CONFIG_PATH", "LIONDEN_NETWORK", "LIONDEN_DEPLOY_BACKEND",
                          "LIONDEN_PROVE"}
  PROVE  /\ n \in DOMAIN WorkerEnv <=> n \in DOMAIN env
         /\ n \in DOMAIN env => WorkerEnv[n] = env[n]
BY WorkerVariable, PartsOfEnv

LEMMA WorkerPath == WorkerEnv["LIONDEN_CONFIG_PATH"] = configPath
BY WorkerVariable

(* A worker's network, backend and proving mode are the parent's.          *)
LEMMA WorkerNetwork ==
  ASSUME NEW d
  PROVE  Or(WorkerEnv, "LIONDEN_NETWORK", d) = Or(globalOptions, "network", d)
<1> DEFINE n == "LIONDEN_NETWORK"
           explicit == Over(InNetwork, Over(InBackend, InProve))
<1>1. n \in DOMAIN WorkerEnv <=> "network" \in DOMAIN globalOptions
  BY WorkerVariable, PartsOfEnv
<1>2. ASSUME "network" \in DOMAIN globalOptions
      PROVE  WorkerEnv[n] = globalOptions["network"]
  <2>1. n \in DOMAIN InNetwork
    BY <1>2, PartsOfEnv
  <2>2. WorkerEnv[n] = explicit[n]
    BY <2>1, WorkerVariable
  <2>3. explicit[n] = InNetwork[n]
    BY <2>1, OverAt
  <2>4. InNetwork[n] = globalOptions["network"]
    BY <1>2, FieldIs DEF InNetwork
  <2> QED
    BY <2>2, <2>3, <2>4
<1> QED
  BY <1>1, <1>2 DEF Or

LEMMA WorkerBackend ==
  Or(WorkerEnv, "LIONDEN_DEPLOY_BACKEND", "") =
    IF "deployBackend" \in DOMAIN globalOptions THEN globalOptions["deployBackend"]
    ELSE Or(env, "LIONDEN_DEPLOY_BACKEND", "")
<1> DEFINE n == "LIONDEN_DEPLOY_BACKEND"
           explicit == Over(InNetwork, Over(InBackend, InProve))
<1>1. CASE "deployBackend" \in DOMAIN globalOptions
  <2>1. n \in DOMAIN InBackend /\ n \notin DOMAIN InNetwork
    BY <1>1, PartsOfEnv
  <2>2. n \in DOMAIN WorkerEnv /\ WorkerEnv[n] = explicit[n]
    BY <2>1, WorkerVariable
  <2>3. n \in DOMAIN Over(InBackend, InProve) /\ Over(InBackend, InProve)[n] = InBackend[n]
    BY <2>1, OverAt, OverDomain
  <2>4. explicit[n] = Over(InBackend, InProve)[n]
    BY <2>1, <2>3, UnderAt
  <2>5. InBackend[n] = globalOptions["deployBackend"]
    BY <1>1, FieldIs DEF InBackend
  <2> QED
    BY <1>1, <2>2, <2>3, <2>4, <2>5 DEF Or
<1>2. CASE "deployBackend" \notin DOMAIN globalOptions
  <2>1. n \in DOMAIN WorkerEnv <=> n \in DOMAIN env
    BY <1>2, WorkerVariable, PartsOfEnv
  <2>2. n \in DOMAIN env => WorkerEnv[n] = env[n]
    BY <1>2, WorkerVariable, PartsOfEnv
  <2> QED
    BY <1>2, <2>1, <2>2 DEF Or
<1> QED
  BY <1>1, <1>2

LEMMA WorkerProve ==
  ASSUME resolveProveOption(globalOptions, env) \in BOOLEAN
  PROVE  (Or(WorkerEnv, "LIONDEN_PROVE", "") = "true") = resolveProveOption(globalOptions, env)
<1> DEFINE n == "LIONDEN_PROVE"
           explicit == Over(InNetwork, Over(InBackend, InProve))
<1>1. n \in DOMAIN WorkerEnv <=> resolveProveOption(globalOptions, env)
  BY WorkerVariable, PartsOfEnv
<1>2. ASSUME resolveProveOption(globalOptions, env)
      PROVE  WorkerEnv[n] = "true"
  <2>1. n \in DOMAIN InProve /\ n \notin DOMAIN InNetwork /\ n \notin DOMAIN InBackend
    BY <1>2, PartsOfEnv
  <2>2. WorkerEnv[n] = explicit[n]
    BY <2>1, WorkerVariable
  <2>3. n \in DOMAIN Over(InBackend, InProve) /\ Over(InBackend, InProve)[n] = InProve[n]
    BY <2>1, UnderAt, OverDomain
  <2>4. explicit[n] = Over(InBackend, InProve)[n]
    BY <2>1, <2>3, UnderAt
  <2>5. InProve[n] = "true"
    BY <1>2, FieldIs DEF InProve
  <2> QED
    BY <2>2, <2>3, <2>4, <2>5
<1>3. CASE resolveProveOption(globalOptions, env)
  <2>1. Or(WorkerEnv, n, "") = "true"
    BY <1>1, <1>2, <1>3 DEF Or
  <2> QED
    BY <1>3, <2>1
<1>4. CASE ~resolveProveOption(globalOptions, env)
  <2>1. Or(WorkerEnv, n, "") = ""
    BY <1>1, <1>4 DEF Or
  <2>2. Or(WorkerEnv, n, "") # "true"
    BY <2>1
  <2> QED
    BY <1>4, <2>2
<1> QED
  BY <1>3, <1>4

(* What the options of the invocation hold.                                *)
LEMMA SeededFrom ==
  ASSUME MainInv, Ready, NEW n \in DOMAIN globalOptions, n \notin DOMAIN parsed.globalArgs
  PROVE  /\ n \notin Reserved
         /\ \E g \in PluginGlobals(plugins) : g.name = n /\ globalOptions[n] = g.default
<1> DEFINE args == parsed.globalArgs
           strings == {m \in DOMAIN args : m \notin {"prove", "help", "version", "verbose", "config"}}
           defaulted == {g \in PluginGlobals(plugins) : g.default # NoValue}
           S == [m \in strings |-> args[m].words[1]]
           B == [m \in DOMAIN args \cap {"prove"} |-> args[m] = Bool(TRUE)]
           D == [m \in NamesOf(defaulted) |-> (CHOOSE g \in defaulted : g.name = m).default]
<1>1. globalOptions = Over(S, Over(B, D))
  BY DEF MainInv, ParsedInv, seedGlobalOptions
<1>2. n \notin DOMAIN S /\ n \notin DOMAIN B
  OBVIOUS
<1>3. \A m \in DOMAIN D : \E g \in defaulted : g.name = m /\ D[m] = g.default
  <2> SUFFICES ASSUME NEW m \in NamesOf(defaulted)
               PROVE  \E g \in defaulted : g.name = m /\ D[m] = g.default
    OBVIOUS
  <2>1. \E g \in defaulted : g.name = m
    BY DEF NamesOf
  <2> DEFINE h == CHOOSE g \in defaulted : g.name = m
  <2>2. h \in defaulted /\ h.name = m
    BY <2>1
  <2>3. D[m] = h.default
    OBVIOUS
  <2> HIDE DEF h
  <2> QED
    BY <2>2, <2>3
<1> HIDE DEF S, B, D
<1>4. n \in DOMAIN D
  BY <1>1, <1>2, OverDomain
<1>5. globalOptions[n] = D[n]
  BY <1>1, <1>2, <1>4, UnderAt, OverDomain
<1>6. PICK g \in defaulted : g.name = n /\ D[n] = g.default
  BY <1>3, <1>4
<1>7. n \in PublicNames(NamesOf(PluginGlobals(plugins)))
  BY <1>6 DEF PublicNames, NamesOf, getPublicArgumentNames
<1>8. PublicNames(NamesOf(PluginGlobals(plugins))) \cap Reserved = {}
  BY NoNameReserved DEF MainInv, TasksInv
<1> QED
  BY <1>5, <1>6, <1>7, <1>8

(* A network that is chosen exists.                                        *)
LEMMA NetworkSeeded ==
  ASSUME MainInv, Ready, "network" \in DOMAIN globalOptions
  PROVE  globalOptions["network"] \in DOMAIN config.networks
<1>1. "network" \in Reserved
  BY DEF Reserved, getReservedBuiltInGlobalArgumentNames, BUILT_IN_GLOBAL_ARGUMENTS
<1>2. "network" \in DOMAIN parsed.globalArgs
  BY <1>1, SeededFrom
<1>3. globalOptions["network"] = parsed.globalArgs["network"].words[1]
  <2> DEFINE args == parsed.globalArgs
  <2>1. globalOptions = seedGlobalOptions(args)
    BY DEF MainInv, ParsedInv
  <2> HIDE DEF args
  <2> QED
    BY <1>2, <2>1, SeededAt DEF args
<1> QED
  BY <1>2, <1>3 DEF MainInv, ParsedInv, NetworkKnown

LEMMA ProveSeeded ==
  ASSUME MainInv, Ready
  PROVE  resolveProveOption(globalOptions, env) \in BOOLEAN
<1>1. CASE "prove" \notin DOMAIN globalOptions
  BY <1>1 DEF resolveProveOption, parseBooleanEnv
<1>2. CASE "prove" \in DOMAIN globalOptions
  <2> DEFINE args == parsed.globalArgs
             strings == {m \in DOMAIN args : m \notin {"prove", "help", "version", "verbose", "config"}}
             defaulted == {g \in PluginGlobals(plugins) : g.default # NoValue}
             S == [m \in strings |-> args[m].words[1]]
             B == [m \in DOMAIN args \cap {"prove"} |-> args[m] = Bool(TRUE)]
             D == [m \in NamesOf(defaulted) |-> (CHOOSE g \in defaulted : g.name = m).default]
  <2>1. globalOptions = Over(S, Over(B, D))
    BY DEF MainInv, ParsedInv, seedGlobalOptions
  <2>2. "prove" \in Reserved
    BY DEF Reserved, getReservedBuiltInGlobalArgumentNames, BUILT_IN_GLOBAL_ARGUMENTS
  <2>3. "prove" \in DOMAIN args
    BY <1>2, <2>2, SeededFrom
  <2>4. "prove" \notin DOMAIN S /\ "prove" \in DOMAIN B /\ B["prove"] \in BOOLEAN
    BY <2>3
  <2> HIDE DEF S, B, D
  <2>5. globalOptions["prove"] = B["prove"]
    BY <2>1, <2>4, UnderAt, OverAt, OverDomain
  <2> QED
    BY <1>2, <2>4, <2>5 DEF resolveProveOption
<1> QED
  BY <1>1, <1>2

(* The configuration a worker resolves is the one main() resolved.         *)
LEMMA WorkerResolution ==
  ASSUME VariablesApart, LoadInv, MainInv, Ready
  PROVE  resolveConfig(project.config, Hooks, WorkerEnv, project.files) = Resolution
<1> DEFINE networks == NetworksOf(project.config, Hooks)
<1>1. PICK c \in Commands : project = c[2]
  BY DEF MainInv, CommandInv
<1>2. plugins \in resolvePluginOrder(project.table, project.plugins)
  BY DEF LoadInv, Ready
<1>3. \A n \in DOMAIN networks : "privateKey" \in DOMAIN networks[n] =>
        networks[n].privateKey.name \notin
          {"LIONDEN_CONFIG_PATH", "LIONDEN_NETWORK", "LIONDEN_DEPLOY_BACKEND", "LIONDEN_PROVE"}
  BY <1>1, <1>2 DEF VariablesApart, NetworksOf, Hooks
<1> HIDE DEF networks
<1>4. ASSUME NEW n \in DOMAIN networks, "privateKey" \in DOMAIN networks[n]
      PROVE  resolveConfigVariable(networks[n].privateKey, env) =
             resolveConfigVariable(networks[n].privateKey, WorkerEnv)
  BY <1>3, <1>4, WorkerOther DEF resolveConfigVariable
<1>5. \A n \in DOMAIN networks :
        LET net == networks[n]
        IN  "privateKey" \in DOMAIN net =>
              resolveConfigVariable(net.privateKey, env) = resolveConfigVariable(net.privateKey, WorkerEnv)
  BY <1>4
<1>6. resolveConfig(project.config, Hooks, env, project.files) =
      resolveConfig(project.config, Hooks, WorkerEnv, project.files)
  BY <1>5, SameVariables DEF networks
<1> QED
  BY <1>6 DEF Resolution

(* A worker loads the same plugins.                                        *)
LEMMA WorkerOrder ==
  ASSUME LoadInv, Ready
  PROVE  LET order == CHOOSE s \in resolvePluginOrder(project.table, project.plugins) : TRUE
         IN  [i \in DOMAIN order |-> project.table[order[i]].hooks] = Hooks
<1> DEFINE all == resolvePluginOrder(project.table, project.plugins)
           order == CHOOSE s \in all : TRUE
<1>1. \A s, t \in all : s = t
  BY DEF resolvePluginOrder
<1>2. plugins \in all
  BY DEF LoadInv, Ready
<1> HIDE DEF all
<1>3. order = plugins
  BY <1>1, <1>2
<1> HIDE DEF order
<1>4. [i \in DOMAIN order |-> project.table[order[i]].hooks] = Hooks
  BY <1>3 DEF Hooks
<1> QED
  BY <1>4 DEF order, all

(* The parent's choice of a backend is the one a worker makes.             *)
LEMMA SameBackend ==
  ASSUME readExplicitDeployBackend, NEW r, NEW n,
         config.networks = r.networks, config.backend = r.backend
  PROVE  resolveDeployBackendFromEnvAndConfig(r, n, WorkerEnv) =
         resolveDeployBackendOption(globalOptions, config, n, env)
<1> DEFINE perNetwork == Or(Or(r.networks, n, None), "deployBackend", r.backend)
           chosen(v) == {IF v # "" THEN v ELSE perNetwork} \cap Providers
<1>1. resolveDeployBackendFromEnvAndConfig(r, n, WorkerEnv) = chosen(Or(WorkerEnv, "LIONDEN_DEPLOY_BACKEND", ""))
  BY DEF resolveDeployBackendFromEnvAndConfig
<1>2. resolveDeployBackendFromEnvAndConfig(config, n, env) = chosen(Or(env, "LIONDEN_DEPLOY_BACKEND", ""))
  BY DEF resolveDeployBackendFromEnvAndConfig
<1> HIDE DEF perNetwork
<1>3. CASE "deployBackend" \in DOMAIN globalOptions
  <2>1. globalOptions["deployBackend"] # ""
    BY <1>3 DEF readExplicitDeployBackend, Providers
  <2>2. Or(WorkerEnv, "LIONDEN_DEPLOY_BACKEND", "") = globalOptions["deployBackend"]
    BY <1>3, WorkerBackend
  <2>3. chosen(globalOptions["deployBackend"]) = {globalOptions["deployBackend"]} \cap Providers
    BY <2>1
  <2> HIDE DEF chosen
  <2> QED
    BY <1>1, <1>3, <2>2, <2>3 DEF resolveDeployBackendOption
<1>4. CASE "deployBackend" \notin DOMAIN globalOptions
  <2>1. Or(WorkerEnv, "LIONDEN_DEPLOY_BACKEND", "") = Or(env, "LIONDEN_DEPLOY_BACKEND", "")
    BY <1>4, WorkerBackend
  <2> HIDE DEF chosen
  <2> QED
    BY <1>1, <1>2, <1>4, <2>1 DEF resolveDeployBackendOption
<1> QED
  BY <1>3, <1>4

(* A worker agrees with its parent.                                        *)
LEMMA WorkerAgrees ==
  ASSUME VariablesApart, LoadInv, MainInv
  PROVE  WorkersAgree
<1> DEFINE made(r) == [config |-> [r EXCEPT !.defaultNetwork = Or(globalOptions, "network", r.defaultNetwork)],
                       file |-> configPath,
                       backend |-> resolveDeployBackendOption(globalOptions, config,
                                                              Or(globalOptions, "network", r.defaultNetwork), env),
                       prove |-> resolveProveOption(globalOptions, env)]
<1> SUFFICES ASSUME stage = "tested"
             PROVE  worker = [config |-> config, file |-> configPath,
                              backend |-> resolveDeployBackendOption(globalOptions, config,
                                                                     config.defaultNetwork, env),
                              prove |-> resolveProveOption(globalOptions, env)]
  BY DEF WorkersAgree
<1>1. Ready
  BY DEF Ready
<1>2. PICK r \in Resolution : config = [r EXCEPT !.defaultNetwork = Or(globalOptions, "network", @)]
  BY <1>1 DEF MainInv, ConfigInv
<1> DEFINE network == Or(globalOptions, "network", r.defaultNetwork)
<1>3. Len(Hooks) \in Nat
  BY <1>1, PluginsLoaded DEF MainInv, LoadInv, Ready
<1>4. Resolved(r) /\ r.defaultNetwork \in DOMAIN r.networks /\ \A s \in Resolution : s = r
  BY <1>2, <1>3, ConfigResolved DEF Resolution
<1>5. /\ config.networks = r.networks /\ config.backend = r.backend /\ config.defaultNetwork = network
  <2>1. DOMAIN r = {"networks", "keyCache", "imports", "defaultNetwork", "backend"}
    BY <1>4, Zenon DEF Resolved
  <2> HIDE DEF network
  <2>2. config = [r EXCEPT !.defaultNetwork = network]
    BY <1>2 DEF network
  <2> QED
    BY <2>1, <2>2
<1>6. network \in DOMAIN r.networks
  BY <1>1, <1>4, <1>5, NetworkSeeded DEF Or
<1>7. buildLre(WorkerEnv) = {made(r)}
  <2> DEFINE resolved == resolveConfig(project.config, Hooks, WorkerEnv, project.files)
             net(s) == Or(WorkerEnv, "LIONDEN_NETWORK", s.defaultNetwork)
             built(s) == [config |-> [s EXCEPT !.defaultNetwork = net(s)],
                          file |-> WorkerEnv["LIONDEN_CONFIG_PATH"],
                          backend |-> resolveDeployBackendFromEnvAndConfig(s, net(s), WorkerEnv),
                          prove |-> Or(WorkerEnv, "LIONDEN_PROVE", "") = "true"]
  <2>1. buildLre(WorkerEnv) = {built(s) : s \in {t \in resolved : net(t) \in DOMAIN t.networks}}
    BY <1>1, WorkerOrder DEF buildLre
  <2>2. resolved = {r}
    BY <1>1, <1>2, <1>4, WorkerResolution
  <2>3. net(r) = network
    BY WorkerNetwork
  <2>4. built(r) = made(r)
    <3>1. WorkerEnv["LIONDEN_CONFIG_PATH"] = configPath
      BY WorkerPath
    <3>2. (Or(WorkerEnv, "LIONDEN_PROVE", "") = "true") = resolveProveOption(globalOptions, env)
      BY <1>1, ProveSeeded, WorkerProve
    <3>3. resolveDeployBackendFromEnvAndConfig(r, net(r), WorkerEnv) =
          resolveDeployBackendOption(globalOptions, config, network, env)
      BY <1>5, <2>3, SameBackend DEF MainInv, WorkerInv
    <3> HIDE DEF net, network
    <3> QED
      BY <2>3, <3>1, <3>2, <3>3 DEF network
  <2> HIDE DEF resolved, net, built, made, network
  <2> QED
    BY <1>6, <2>1, <2>2, <2>3, <2>4
<1>8. worker = made(r)
  <2> HIDE DEF made
  <2> QED
    BY <1>7 DEF MainInv, WorkerInv
<1> QED
  BY <1>2, <1>5, <1>8

(* A worker runs with the parent's configuration file and resolves the     *)
(* network, the backend and the proving mode the parent does.  For any     *)
(* commands, projects and environments in which the private keys are not   *)
(* in variables of the workers' own.  (WorkerEnv, createTestLre().)        *)
THEOREM WorkersResolveAlike ==
  ASSUME VariablesApart
  PROVE  Spec => []WorkersAgree
<1>1. Init => LoadInv /\ MainInv
  BY MainBegins DEF Init, LoadInv
<1>2. LoadInv /\ MainInv /\ [Next]_vars => (LoadInv /\ MainInv)'
  BY LoadKept, MainKept
<1>3. LoadInv /\ MainInv => WorkersAgree
  BY WorkerAgrees
<1> QED
  BY <1>1, <1>2, <1>3, PTL DEF Spec

=============================================================================
