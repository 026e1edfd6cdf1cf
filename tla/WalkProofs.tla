----------------------------- MODULE WalkProofs -----------------------------
(***************************************************************************)
(* Lemmas about orders and the depth-first walk, for any graph of finitely *)
(* many nodes.                                                             *)
(***************************************************************************)
EXTENDS DepthFirst, FiniteSetTheorems, WellFoundedInduction, TLAPS

(* A set of numbers that is not empty has a least member.                  *)
LEMMA LeastNumber ==
  ASSUME NEW S \in SUBSET Nat, S # {}
  PROVE  \E n \in S : \A m \in S : n <= m
<1> DEFINE R == OpToRel(<, Nat)
<1>1. PICK n \in S : \A m \in S : ~ (<<m, n>> \in R)
  <2>1. IsWellFoundedOn(R, Nat)
    BY NatLessThanWellFounded
  <2> HIDE DEF R
  <2> QED
    BY <2>1, WFMin
<1>2. \A m \in S : ~ (m < n)
  BY <1>1 DEF OpToRel
<1> QED
  BY <1>2

(* Induction on numbers, for a set that is known.                          *)
LEMMA NatSteps ==
  ASSUME NEW S \in SUBSET Nat, 0 \in S, \A k \in S : k + 1 \in S
  PROVE  \A n \in Nat : n \in S
<1> SUFFICES ASSUME Nat \ S # {}
             PROVE  FALSE
  OBVIOUS
<1>1. PICK k \in Nat \ S : \A m \in Nat \ S : k <= m
  BY LeastNumber
<1>2. k - 1 \in S
  BY <1>1
<1> QED
  BY <1>1, <1>2

(* Of what is inside finitely many things and has a number before it,      *)
(* there is one that is deepest inside, with the least number.             *)
LEMMA LowestMember ==
  ASSUME NEW F, IsFiniteSet(F), NEW T, T # {},
         NEW inside \in [T -> SUBSET F], NEW before \in [T -> Nat]
  PROVE  \E w \in T : \A v \in T :
           /\ inside[w] \subseteq inside[v] => inside[v] = inside[w]
           /\ inside[v] = inside[w] => ~(before[v] < before[w])
<1> DEFINE outside(w) == F \ inside[w]
           sizes == {Cardinality(outside(w)) : w \in T}
<1>1. \A w \in T : IsFiniteSet(outside(w)) /\ Cardinality(outside(w)) \in Nat
  BY FS_Difference, FS_CardinalityType
<1>2. sizes \in SUBSET Nat /\ sizes # {}
  BY <1>1
<1>3. PICK least \in sizes : \A m \in sizes : least <= m
  <2> HIDE DEF sizes
  <2> QED
    BY <1>2, LeastNumber
<1> DEFINE D == {w \in T : Cardinality(outside(w)) = least}
           numbers == {before[w] : w \in D}
<1>4. numbers \in SUBSET Nat /\ numbers # {}
  BY <1>3
<1>5. PICK short \in numbers : \A m \in numbers : short <= m
  <2> HIDE DEF numbers
  <2> QED
    BY <1>4, LeastNumber
<1>6. PICK w \in D : before[w] = short
  BY <1>5
<1>7. ASSUME NEW v \in T, inside[w] \subseteq inside[v], inside[v] # inside[w]
      PROVE  FALSE
  <2>1. outside(v) \subseteq outside(w) /\ outside(v) # outside(w)
    BY <1>6, <1>7
  <2>2. Cardinality(outside(v)) <= Cardinality(outside(w))
        /\ Cardinality(outside(v)) # Cardinality(outside(w))
    <3> HIDE DEF outside
    <3> QED
      BY <1>1, <1>6, <2>1, FS_Subset
  <2>3. least <= Cardinality(outside(v)) /\ Cardinality(outside(w)) = least
    BY <1>3, <1>6
  <2>4. Cardinality(outside(v)) \in Nat /\ Cardinality(outside(w)) \in Nat
    BY <1>1, <1>6
  <2> HIDE DEF outside
  <2> QED
    BY <2>2, <2>3, <2>4
<1>8. ASSUME NEW v \in T, inside[v] = inside[w]
      PROVE  ~(before[v] < before[w])
  <2>1. v \in D
    BY <1>6, <1>8
  <2>2. short <= before[v] /\ before[v] \in Nat /\ short \in Nat
    BY <1>4, <1>5, <2>1
  <2> QED
    BY <1>6, <2>2
<1> QED
  BY <1>6, <1>7, <1>8

-----------------------------------------------------------------------------
(* Orders                                                                  *)

LEMMA AppendAll ==
  ASSUME NEW X, NEW s \in Seq(X), NEW f
  PROVE  ToSet(Append(s, f)) = ToSet(s) \cup {f}
<1>1. /\ DOMAIN Append(s, f) = 1 .. Len(s) + 1 /\ DOMAIN s = 1 .. Len(s) /\ Len(s) \in Nat
      /\ Append(s, f)[Len(s) + 1] = f
      /\ \A i \in 1 .. Len(s) : Append(s, f)[i] = s[i]
  OBVIOUS
<1> QED
  BY <1>1 DEF ToSet

LEMMA OrderedGrows ==
  ASSUME NEW deps, NEW s, NEW K, Ordered(deps, s, K), NEW f, f \notin K, deps[f] \subseteq K
  PROVE  Ordered(deps, Append(s, f), K \cup {f})
<1> DEFINE t == Append(s, f)
<1>1. /\ s \in Seq(K) /\ ToSet(s) = K
      /\ \A i, j \in DOMAIN s : s[i] = s[j] => i = j
      /\ \A i \in DOMAIN s : deps[s[i]] \subseteq {s[j] : j \in 1 .. i - 1}
  BY DEF Ordered, IsInjective
<1>2. /\ DOMAIN t = 1 .. Len(s) + 1 /\ DOMAIN s = 1 .. Len(s) /\ Len(s) \in Nat
      /\ t[Len(s) + 1] = f
      /\ \A i \in 1 .. Len(s) : t[i] = s[i]
      /\ t \in Seq(K \cup {f})
  BY <1>1
<1>3. ToSet(t) = K \cup {f}
  BY <1>1, AppendAll
<1>4. K = {s[j] : j \in 1 .. Len(s)}
  BY <1>1, <1>2 DEF ToSet
<1> HIDE DEF t
<1>5. ASSUME NEW i \in DOMAIN t, NEW j \in DOMAIN t, t[i] = t[j]
      PROVE  i = j
  <2>1. \A k \in 1 .. Len(s) : t[k] \in K
    BY <1>2, <1>4
  <2> QED
    BY <1>1, <1>2, <1>5, <2>1
<1>6. ASSUME NEW i \in DOMAIN t
      PROVE  deps[t[i]] \subseteq {t[j] : j \in 1 .. i - 1}
  <2>1. CASE i = Len(s) + 1
    BY <1>2, <1>4, <2>1
  <2>2. CASE i \in 1 .. Len(s)
    <3>1. {s[j] : j \in 1 .. i - 1} = {t[j] : j \in 1 .. i - 1}
      BY <1>2, <2>2
    <3> QED
      BY <1>1, <1>2, <2>2, <3>1
  <2>3. i = Len(s) + 1 \/ i \in 1 .. Len(s)
    BY <1>2
  <2> QED
    BY <2>1, <2>2, <2>3
<1> QED
  BY <1>2, <1>3, <1>5, <1>6 DEF Ordered, IsInjective, t

-----------------------------------------------------------------------------
(* What a node needs                                                       *)

Closed(deps, K) == K \subseteq DOMAIN deps /\ \A h \in K : deps[h] \subseteq K

LEMMA NeedsWithin ==
  ASSUME NEW deps, NEW S, NEW K, Closed(deps, K), S \subseteq K
  PROVE  Needs(deps, S) \subseteq K
BY DEF Needs, Closed

LEMMA NeedsClosed ==
  ASSUME NEW deps, NEW S, NEW K, Closed(deps, K), S \subseteq K
  PROVE  S \subseteq Needs(deps, S) /\ Closed(deps, Needs(deps, S))
<1>1. Needs(deps, S) \subseteq K
  BY NeedsWithin
<1>2. S \subseteq Needs(deps, S)
  BY DEF Needs, Closed
<1>3. ASSUME NEW h \in Needs(deps, S), NEW g \in deps[h]
      PROVE  g \in Needs(deps, S)
  <2>1. g \in DOMAIN deps
    BY <1>1, <1>3 DEF Closed
  <2> QED
    BY <1>3, <2>1 DEF Needs
<1> QED
  BY <1>1, <1>2, <1>3 DEF Closed

(* A node needs what it depends on and what these need.                    *)
LEMMA NeedsUnrolled ==
  ASSUME NEW deps, NEW S, NEW K, Closed(deps, K), S \subseteq K
  PROVE  Needs(deps, S) = S \cup UNION {Needs(deps, deps[g]) : g \in S}
<1> DEFINE R == S \cup UNION {Needs(deps, deps[g]) : g \in S}
<1>1. \A g \in S : deps[g] \subseteq K
  BY DEF Closed
<1>2. \A g \in S : deps[g] \subseteq Needs(deps, deps[g]) /\ Closed(deps, Needs(deps, deps[g]))
  BY <1>1, NeedsClosed
<1>3. S \subseteq Needs(deps, S) /\ Closed(deps, Needs(deps, S))
  BY NeedsClosed
<1>4. Closed(deps, R)
  BY <1>2 DEF Closed
<1>5. Needs(deps, S) \subseteq R
  BY <1>4, NeedsWithin
<1>6. ASSUME NEW g \in S
      PROVE  Needs(deps, deps[g]) \subseteq Needs(deps, S)
  <2>1. deps[g] \subseteq Needs(deps, S)
    BY <1>3 DEF Closed
  <2> QED
    BY <1>3, <2>1, NeedsWithin
<1> QED
  BY <1>3, <1>5, <1>6

(* It depends on no unit outside a set that has its dependencies.          *)
LEMMA NeedsAgree ==
  ASSUME NEW deps, NEW other, NEW S, NEW K, Closed(deps, K), S \subseteq K,
         DOMAIN other = DOMAIN deps, \A h \in K : other[h] = deps[h]
  PROVE  Needs(other, S) = Needs(deps, S)
<1>1. Closed(other, K)
  BY DEF Closed
<1>2. /\ S \subseteq Needs(deps, S) /\ Closed(deps, Needs(deps, S)) /\ Needs(deps, S) \subseteq K
      /\ S \subseteq Needs(other, S) /\ Closed(other, Needs(other, S)) /\ Needs(other, S) \subseteq K
  BY <1>1, NeedsClosed, NeedsWithin
<1>3. Closed(other, Needs(deps, S)) /\ Closed(deps, Needs(other, S))
  BY <1>2 DEF Closed
<1> QED
  BY <1>2, <1>3, NeedsWithin

-----------------------------------------------------------------------------
(* The depth-first walk                                                    *)

Graph(graph, F) == IsFiniteSet(F) /\ graph \in [F -> Seq(F)]

Entered(graph, w) == [w EXCEPT !.todo = graph[Head(w.todo)], !.stack = @ \cup {Head(w.todo)}]

(* Where a walk goes on after its first folder.                            *)
Passed(V, graph, w) ==
  LET f == Head(w.todo)
      rest == [w EXCEPT !.todo = Tail(@)]
      inner == V[Entered(graph, w)]
  IN  IF f \in ToSet(w.order) THEN rest
      ELSE IF f \in w.stack \/ ~inner.ok THEN [rest EXCEPT !.ok = FALSE]
      ELSE [rest EXCEPT !.order = Append(inner.order, f)]

Ended(w) == w.todo = <<>> \/ ~w.ok
Enters(w) == Head(w.todo) \notin ToSet(w.order) /\ Head(w.todo) \notin w.stack

WalkStep(V, graph, w) == IF Ended(w) THEN w ELSE V[Passed(V, graph, w)]

VisitFunction(V, graph) == V = [w \in Walks(DOMAIN graph) |-> WalkStep(V, graph, w)]

LEMMA VisitedIs ==
  ASSUME NEW graph, NEW fs, NEW start, \E V : VisitFunction(V, graph)
  PROVE  \E V : /\ VisitFunction(V, graph)
               /\ Visited(fs, graph, start)
                    = V[[todo |-> fs, stack |-> {}, ok |-> start, order |-> <<>>]]
<1> DEFINE W == CHOOSE V : VisitFunction(V, graph)
<1>1. VisitFunction(W, graph)
  OBVIOUS
<1>2. Visited(fs, graph, start) = W[[todo |-> fs, stack |-> {}, ok |-> start, order |-> <<>>]]
  BY DEF Visited, VisitFunction, WalkStep, Ended, Passed, Entered
<1> QED
  BY <1>1, <1>2

(* A walk is below another if it is deeper inside, or has less before it.  *)
Below(v, w) ==
  \/ w.stack \subseteq v.stack /\ v.stack # w.stack
  \/ v.stack = w.stack /\ Len(v.todo) < Len(w.todo)

LEMMA LowestWalk ==
  ASSUME NEW F, IsFiniteSet(F), NEW T \in SUBSET Walks(F), T # {}
  PROVE  \E w \in T : \A v \in T : ~Below(v, w)
<1> DEFINE inside == [w \in T |-> w.stack]
           before == [w \in T |-> Len(w.todo)]
<1>1. inside \in [T -> SUBSET F] /\ before \in [T -> Nat]
  BY DEF Walks
<1>2. PICK w \in T : \A v \in T :
        /\ inside[w] \subseteq inside[v] => inside[v] = inside[w]
        /\ inside[v] = inside[w] => ~(before[v] < before[w])
  <2> HIDE DEF inside, before
  <2> QED
    BY <1>1, LowestMember
<1> QED
  BY <1>2 DEF Below

(* Both calls of the recursion are of walks below the one they belong to.  *)
LEMMA EnteredBelow ==
  ASSUME NEW F, NEW graph, Graph(graph, F), NEW w \in Walks(F), ~Ended(w), Enters(w)
  PROVE  Entered(graph, w) \in Walks(F) /\ Below(Entered(graph, w), w)
<1>1. w.todo \in Seq(F) /\ w.todo # <<>> /\ w.stack \in SUBSET F /\ w.ok \in BOOLEAN
      /\ w.order \in Seq(F)
  BY DEF Walks, Ended
<1>2. Head(w.todo) \in F
  BY <1>1
<1>3. graph[Head(w.todo)] \in Seq(F)
  BY <1>2 DEF Graph
<1> QED
  BY <1>1, <1>2, <1>3 DEF Walks, Entered, Enters, Below

LEMMA PassedBelow ==
  ASSUME NEW F, NEW graph, Graph(graph, F), NEW w \in Walks(F), ~Ended(w), NEW V,
         Enters(w) => V[Entered(graph, w)] \in Walks(F)
  PROVE  Passed(V, graph, w) \in Walks(F) /\ Below(Passed(V, graph, w), w)
<1> DEFINE inner == V[Entered(graph, w)]
<1>1. w.todo \in Seq(F) /\ w.todo # <<>> /\ w.stack \in SUBSET F /\ w.ok \in BOOLEAN
      /\ w.order \in Seq(F)
  BY DEF Walks, Ended
<1>2. Head(w.todo) \in F /\ Tail(w.todo) \in Seq(F) /\ Len(Tail(w.todo)) < Len(w.todo)
  BY <1>1
<1>3. Enters(w) => Append(inner.order, Head(w.todo)) \in Seq(F)
  BY <1>2 DEF Walks
<1> HIDE DEF inner
<1>4. Passed(V, graph, w) \in Walks(F)
  BY <1>1, <1>2, <1>3 DEF Passed, Walks, Enters, inner
<1>5. Passed(V, graph, w).stack = w.stack /\ Passed(V, graph, w).todo = Tail(w.todo)
  BY <1>1 DEF Passed, Walks
<1> QED
  BY <1>2, <1>4, <1>5 DEF Below

-----------------------------------------------------------------------------
(* The recursion of the walk defines a function                            *)

(* A part of it: a function on walks that has those it asks for.           *)
Part(V, D, graph, F) ==
  /\ D \subseteq Walks(F) /\ V \in [D -> Walks(F)]
  /\ \A w \in D :
       /\ V[w] = WalkStep(V, graph, w)
       /\ ~Ended(w) => Passed(V, graph, w) \in D /\ (Enters(w) => Entered(graph, w) \in D)

(* What a walk asks for decides where it goes on.                          *)
LEMMA PassedSame ==
  ASSUME NEW V, NEW W, NEW graph, NEW w,
         Enters(w) => V[Entered(graph, w)] = W[Entered(graph, w)]
  PROVE  Passed(V, graph, w) = Passed(W, graph, w)
BY DEF Passed, Enters

(* Two parts agree where both are defined.                                 *)
LEMMA PartsAgree ==
  ASSUME NEW F, NEW graph, Graph(graph, F), NEW V, NEW D, Part(V, D, graph, F),
         NEW W, NEW E, Part(W, E, graph, F)
  PROVE  \A w \in D \cap E : V[w] = W[w]
<1> DEFINE T == {w \in D \cap E : V[w] # W[w]}
<1>1. T \in SUBSET Walks(F)
  BY DEF Part
<1>2. ASSUME NEW w \in T, \A v \in T : ~Below(v, w)
      PROVE  FALSE
  <2>1. w \in Walks(F) /\ w \in D /\ w \in E /\ V[w] # W[w]
    BY <1>1
  <2>2. /\ V[w] = WalkStep(V, graph, w) /\ W[w] = WalkStep(W, graph, w)
        /\ ~Ended(w) => Passed(V, graph, w) \in D /\ (Enters(w) => Entered(graph, w) \in D)
        /\ ~Ended(w) => Passed(W, graph, w) \in E /\ (Enters(w) => Entered(graph, w) \in E)
    BY <2>1 DEF Part
  <2>3. ~Ended(w)
    BY <2>1, <2>2 DEF WalkStep
  <2>4. Enters(w) => V[Entered(graph, w)] = W[Entered(graph, w)]
    BY <1>2, <2>1, <2>2, <2>3, EnteredBelow
  <2>5. Passed(V, graph, w) = Passed(W, graph, w)
    BY <2>4, PassedSame
  <2>6. Enters(w) => V[Entered(graph, w)] \in Walks(F)
    BY <2>2, <2>3 DEF Part
  <2>7. Below(Passed(V, graph, w), w)
    BY <2>1, <2>3, <2>6, PassedBelow
  <2>8. V[Passed(V, graph, w)] = W[Passed(V, graph, w)]
    BY <1>2, <2>2, <2>3, <2>5, <2>7
  <2> QED
    BY <2>1, <2>2, <2>3, <2>5, <2>8 DEF WalkStep
<1> HIDE DEF T
<1>3. T = {}
  BY <1>1, <1>2, LowestWalk DEF Graph
<1> QED
  BY <1>3 DEF T

(* Two parts together are one.                                             *)
LEMMA PartsJoined ==
  ASSUME NEW F, NEW graph, Graph(graph, F), NEW V, NEW D, Part(V, D, graph, F),
         NEW W, NEW E, Part(W, E, graph, F)
  PROVE  Part([w \in D \cup E |-> IF w \in D THEN V[w] ELSE W[w]], D \cup E, graph, F)
<1> DEFINE J == [w \in D \cup E |-> IF w \in D THEN V[w] ELSE W[w]]
<1>1. (\A w \in D : J[w] = V[w]) /\ (\A w \in E : J[w] = W[w])
  BY PartsAgree
<1>2. D \cup E \subseteq Walks(F) /\ J \in [D \cup E -> Walks(F)]
  BY DEF Part
<1> HIDE DEF J
<1>3. ASSUME NEW w \in D
      PROVE  /\ J[w] = WalkStep(J, graph, w)
             /\ ~Ended(w) => Passed(J, graph, w) \in D /\ (Enters(w) => Entered(graph, w) \in D)
  <2>1. /\ V[w] = WalkStep(V, graph, w)
        /\ ~Ended(w) => Passed(V, graph, w) \in D /\ (Enters(w) => Entered(graph, w) \in D)
    BY DEF Part
  <2>2. ~Ended(w) => Passed(J, graph, w) = Passed(V, graph, w)
    BY <1>1, <2>1, PassedSame
  <2> QED
    BY <1>1, <2>1, <2>2 DEF WalkStep
<1>4. ASSUME NEW w \in E
      PROVE  /\ J[w] = WalkStep(J, graph, w)
             /\ ~Ended(w) => Passed(J, graph, w) \in E /\ (Enters(w) => Entered(graph, w) \in E)
  <2>1. /\ W[w] = WalkStep(W, graph, w)
        /\ ~Ended(w) => Passed(W, graph, w) \in E /\ (Enters(w) => Entered(graph, w) \in E)
    BY DEF Part
  <2>2. ~Ended(w) => Passed(J, graph, w) = Passed(W, graph, w)
    BY <1>1, <2>1, PassedSame
  <2> QED
    BY <1>1, <2>1, <2>2 DEF WalkStep
<1>5. Part(J, D \cup E, graph, F)
  BY <1>2, <1>3, <1>4 DEF Part
<1> QED
  BY <1>5 DEF J

Covered(w, graph, F) == \E V, D : Part(V, D, graph, F) /\ w \in D

LEMMA PartExtended ==
  ASSUME NEW F, NEW graph, Graph(graph, F), NEW V, NEW D, Part(V, D, graph, F),
         NEW w \in Walks(F),
         ~Ended(w) => Passed(V, graph, w) \in D /\ (Enters(w) => Entered(graph, w) \in D)
  PROVE  Covered(w, graph, F)
<1>1. CASE w \in D
  BY <1>1 DEF Covered
<1>2. CASE w \notin D
  <2> DEFINE J == [v \in D \cup {w} |-> IF v \in D THEN V[v] ELSE WalkStep(V, graph, w)]
  <2>1. D \subseteq Walks(F) /\ \A v \in D : V[v] \in Walks(F)
    BY DEF Part
  <2>2. WalkStep(V, graph, w) \in Walks(F)
    BY <2>1 DEF WalkStep
  <2>3. J \in [D \cup {w} -> Walks(F)] /\ D \cup {w} \subseteq Walks(F)
    BY <2>1, <2>2
  <2>4. (\A v \in D : J[v] = V[v]) /\ J[w] = WalkStep(V, graph, w)
    BY <1>2
  <2> HIDE DEF J
  <2>5. ASSUME NEW v \in D \cup {w}
        PROVE  /\ J[v] = WalkStep(J, graph, v)
               /\ ~Ended(v) => Passed(J, graph, v) \in D /\ (Enters(v) => Entered(graph, v) \in D)
    <3>1. /\ J[v] = WalkStep(V, graph, v)
          /\ ~Ended(v) => Passed(V, graph, v) \in D /\ (Enters(v) => Entered(graph, v) \in D)
      BY <2>4 DEF Part
    <3>2. ~Ended(v) => Passed(J, graph, v) = Passed(V, graph, v)
      BY <2>4, <3>1, PassedSame
    <3> QED
      BY <2>4, <3>1, <3>2 DEF WalkStep
  <2>6. Part(J, D \cup {w}, graph, F)
    BY <2>3, <2>5 DEF Part
  <2> QED
    BY <2>6 DEF Covered
<1> QED
  BY <1>1, <1>2

LEMMA AllCovered ==
  ASSUME NEW F, NEW graph, Graph(graph, F)
  PROVE  \A w \in Walks(F) : Covered(w, graph, F)
<1> DEFINE T == {w \in Walks(F) : ~Covered(w, graph, F)}
<1>1. ASSUME NEW w \in T, \A v \in T : ~Below(v, w)
      PROVE  FALSE
  <2>1. w \in Walks(F) /\ ~Covered(w, graph, F)
    OBVIOUS
  <2>2. \A v \in Walks(F) : Below(v, w) => Covered(v, graph, F)
    BY <1>1
  <2>3. Part([v \in {} |-> v], {}, graph, F)
    BY DEF Part
  <2>4. ~Ended(w)
    BY <2>1, <2>3, PartExtended
  <2>5. \E V, D : Part(V, D, graph, F) /\ (Enters(w) => Entered(graph, w) \in D)
    BY <2>1, <2>2, <2>3, <2>4, EnteredBelow DEF Covered
  <2>6. PICK V, D : Part(V, D, graph, F) /\ (Enters(w) => Entered(graph, w) \in D)
    BY <2>5
  <2>7. Enters(w) => V[Entered(graph, w)] \in Walks(F)
    BY <2>6 DEF Part
  <2>8. Passed(V, graph, w) \in Walks(F) /\ Below(Passed(V, graph, w), w)
    BY <2>1, <2>4, <2>7, PassedBelow
  <2>9. PICK W, E : Part(W, E, graph, F) /\ Passed(V, graph, w) \in E
    BY <2>2, <2>8 DEF Covered
  <2> DEFINE J == [v \in D \cup E |-> IF v \in D THEN V[v] ELSE W[v]]
  <2>10. Part(J, D \cup E, graph, F)
    BY <2>6, <2>9, PartsJoined
  <2>11. Enters(w) => J[Entered(graph, w)] = V[Entered(graph, w)]
    BY <2>6
  <2> HIDE DEF J
  <2>12. Passed(J, graph, w) = Passed(V, graph, w)
    BY <2>11, PassedSame
  <2> QED
    BY <2>1, <2>6, <2>9, <2>10, <2>12, PartExtended
<1> HIDE DEF T
<1>2. T \in SUBSET Walks(F)
  BY DEF T
<1>3. T = {}
  BY <1>1, <1>2, LowestWalk DEF Graph
<1> QED
  BY <1>3 DEF T

LEMMA VisitDefined ==
  ASSUME NEW F, NEW graph, Graph(graph, F)
  PROVE  \E V : VisitFunction(V, graph)
<1> DEFINE Of(w) == CHOOSE r : \E W, D : Part(W, D, graph, F) /\ w \in D /\ r = W[w]
           V == [w \in Walks(F) |-> Of(w)]
<1>1. ASSUME NEW W, NEW D, Part(W, D, graph, F), NEW w \in D
      PROVE  V[w] = W[w]
  <2>1. w \in Walks(F)
    BY <1>1 DEF Part
  <2>2. \E r : \E X, E : Part(X, E, graph, F) /\ w \in E /\ r = X[w]
    BY <1>1
  <2>3. PICK X, E : Part(X, E, graph, F) /\ w \in E /\ Of(w) = X[w]
    BY <2>2
  <2> HIDE DEF Of
  <2>4. X[w] = W[w]
    BY <1>1, <2>3, PartsAgree
  <2> QED
    BY <2>1, <2>3, <2>4
<1>2. ASSUME NEW w \in Walks(F)
      PROVE  V[w] = WalkStep(V, graph, w)
  <2>1. PICK W, D : Part(W, D, graph, F) /\ w \in D
    BY AllCovered DEF Covered
  <2> HIDE DEF V
  <2>2. /\ V[w] = W[w] /\ W[w] = WalkStep(W, graph, w)
        /\ ~Ended(w) => Passed(W, graph, w) \in D /\ (Enters(w) => Entered(graph, w) \in D)
    BY <1>1, <2>1 DEF Part
  <2>3. ~Ended(w) => Passed(V, graph, w) = Passed(W, graph, w)
    BY <1>1, <2>1, <2>2, PassedSame
  <2> QED
    BY <1>1, <2>1, <2>2, <2>3 DEF WalkStep
<1>3. VisitFunction(V, graph)
  BY <1>2 DEF VisitFunction, Graph
<1> QED
  BY <1>3

-----------------------------------------------------------------------------
(* What the walk comes to                                                  *)

(* What is appended was not on the stack, and all that lay before the walk *)
(* is behind it.                                                           *)
Extends(deps, w, r) ==
  /\ Ordered(deps, r.order, ToSet(r.order))
  /\ ToSet(w.order) \subseteq ToSet(r.order) /\ ToSet(w.todo) \subseteq ToSet(r.order)
  /\ ToSet(r.order) \cap w.stack \subseteq ToSet(w.order)

LEMMA HeadAndTail ==
  ASSUME NEW X, NEW s \in Seq(X), s # <<>>
  PROVE  ToSet(s) = {Head(s)} \cup ToSet(Tail(s)) /\ Head(s) \in X /\ Tail(s) \in Seq(X)
<1>1. /\ DOMAIN s = 1 .. Len(s) /\ Len(s) \in Nat /\ Len(s) # 0 /\ Head(s) = s[1]
      /\ DOMAIN Tail(s) = 1 .. Len(s) - 1
      /\ \A i \in 1 .. Len(s) - 1 : Tail(s)[i] = s[i + 1]
  OBVIOUS
<1>2. \A i \in DOMAIN s : i = 1 \/ (i - 1 \in DOMAIN Tail(s) /\ Tail(s)[i - 1] = s[i])
  BY <1>1
<1>3. \A i \in DOMAIN Tail(s) : i + 1 \in DOMAIN s /\ s[i + 1] = Tail(s)[i]
  BY <1>1
<1>4. ToSet(s) \subseteq {Head(s)} \cup ToSet(Tail(s))
  BY <1>1, <1>2 DEF ToSet
<1>5. {Head(s)} \cup ToSet(Tail(s)) \subseteq ToSet(s)
  BY <1>1, <1>3 DEF ToSet
<1> QED
  BY <1>4, <1>5

LEMMA WalkOrders ==
  ASSUME NEW F, NEW graph, Graph(graph, F), NEW V, VisitFunction(V, graph),
         NEW deps, \A f \in F : deps[f] = ToSet(graph[f])
  PROVE  \A w \in Walks(F) :
           /\ V[w] \in Walks(F) /\ (~w.ok => ~V[w].ok)
           /\ V[w].ok /\ Ordered(deps, w.order, ToSet(w.order)) => Extends(deps, w, V[w])
<1> DEFINE P(w) == /\ V[w] \in Walks(F) /\ (~w.ok => ~V[w].ok)
                   /\ V[w].ok /\ Ordered(deps, w.order, ToSet(w.order)) => Extends(deps, w, V[w])
           T == {w \in Walks(F) : ~P(w)}
<1>1. ASSUME NEW w \in Walks(F), \A v \in Walks(F) : Below(v, w) => P(v)
      PROVE  P(w)
  <2> HIDE DEF P
  <2>1. V[w] = WalkStep(V, graph, w)
    BY DEF VisitFunction, Graph
  <2>2. CASE Ended(w)
    <3>1. V[w] = w
      BY <2>1, <2>2 DEF WalkStep
    <3>2. w.ok => w.todo = <<>> /\ ToSet(w.todo) = {}
      BY <2>2 DEF Ended, ToSet
    <3> QED
      BY <3>1, <3>2 DEF P, Extends
  <2>3. CASE ~Ended(w)
    <3> DEFINE f == Head(w.todo)
               inner == V[Entered(graph, w)]
               p == Passed(V, graph, w)
    <3>1. /\ w.todo \in Seq(F) /\ w.todo # <<>> /\ w.ok = TRUE /\ w.stack \subseteq F /\ w.order \in Seq(F)
          /\ ToSet(w.todo) = {f} \cup ToSet(Tail(w.todo)) /\ f \in F
      BY <2>3, HeadAndTail DEF Walks, Ended
    <3>2. Enters(w) => Entered(graph, w) \in Walks(F) /\ P(Entered(graph, w))
      BY <1>1, <2>3, EnteredBelow
    <3>3. Enters(w) => inner \in Walks(F)
      BY <3>2 DEF P
    <3>4. p \in Walks(F) /\ Below(p, w)
      BY <2>3, <3>3, PassedBelow
    <3>5. P(p) /\ V[w] = V[p]
      BY <1>1, <2>1, <2>3, <3>4 DEF WalkStep
    <3>6. V[w] \in Walks(F) /\ (~w.ok => ~V[w].ok)
      BY <3>1, <3>5 DEF P
    <3>7. ASSUME V[w].ok, Ordered(deps, w.order, ToSet(w.order))
          PROVE  Extends(deps, w, V[w])
      <4>1. p.ok
        BY <3>5, <3>7 DEF P
      <4>2. p.stack = w.stack /\ p.todo = Tail(w.todo)
        BY DEF Passed, Walks
      <4>3. /\ Ordered(deps, p.order, ToSet(p.order))
            /\ ToSet(w.order) \cup {f} \subseteq ToSet(p.order)
            /\ ToSet(p.order) \cap w.stack \subseteq ToSet(w.order)
        <5>1. CASE f \in ToSet(w.order)
          <6>1. p.order = w.order
            BY <5>1 DEF Passed
          <6> QED
            BY <3>7, <5>1, <6>1
        <5>2. CASE f \notin ToSet(w.order)
          <6>1. f \notin w.stack /\ inner.ok
            BY <4>1, <5>2 DEF Passed, Walks
          <6>2. Enters(w)
            BY <5>2, <6>1 DEF Enters
          <6>3. p.order = Append(inner.order, f)
            BY <5>2, <6>1 DEF Passed, Walks
          <6>4. /\ Entered(graph, w).order = w.order /\ Entered(graph, w).todo = graph[f]
                /\ Entered(graph, w).stack = w.stack \cup {f}
            BY DEF Entered, Walks
          <6>5. Extends(deps, Entered(graph, w), inner)
            BY <3>2, <3>7, <6>1, <6>2, <6>4 DEF P
          <6>6. /\ Ordered(deps, inner.order, ToSet(inner.order))
                /\ ToSet(w.order) \subseteq ToSet(inner.order)
                /\ ToSet(graph[f]) \subseteq ToSet(inner.order)
                /\ ToSet(inner.order) \cap (w.stack \cup {f}) \subseteq ToSet(w.order)
            BY <6>4, <6>5 DEF Extends
          <6>7. f \notin ToSet(inner.order) /\ deps[f] \subseteq ToSet(inner.order)
            BY <3>1, <5>2, <6>6
          <6>8. inner.order \in Seq(F)
            BY <3>3, <6>2 DEF Walks
          <6>9. ToSet(p.order) = ToSet(inner.order) \cup {f}
            BY <6>3, <6>8, AppendAll
          <6>10. Ordered(deps, p.order, ToSet(p.order))
            BY <6>3, <6>6, <6>7, <6>9, OrderedGrows
          <6> QED
            BY <6>1, <6>6, <6>9, <6>10
        <5> QED
          BY <5>1, <5>2
      <4>4. Extends(deps, p, V[p])
        BY <3>5, <3>7, <4>3 DEF P
      <4> QED
        BY <3>1, <3>5, <4>2, <4>3, <4>4 DEF Extends
    <3> QED
      BY <3>6, <3>7 DEF P
  <2> QED
    BY <2>2, <2>3
<1>2. T = {}
  <2> HIDE DEF P
  <2>1. T \in SUBSET Walks(F)
    OBVIOUS
  <2>2. ASSUME NEW w \in T, \A v \in T : ~Below(v, w)
        PROVE  FALSE
    BY <1>1, <2>2
  <2> HIDE DEF T
  <2> QED
    BY <2>1, <2>2, LowestWalk DEF Graph
<1> QED
  BY <1>2

(* A graph whose folders have places, each after what it imports, has no   *)
(* cycle to be found.                                                      *)
LEMMA NoCycleFound ==
  ASSUME NEW F, NEW graph, Graph(graph, F), NEW V, VisitFunction(V, graph),
         \A w \in Walks(F) : V[w] \in Walks(F),
         NEW place \in [F -> Nat],
         \A f \in F : \A g \in ToSet(graph[f]) : place[g] < place[f]
  PROVE  \A w \in Walks(F) :
           w.ok /\ (\A f \in ToSet(w.todo), g \in w.stack : place[f] < place[g]) => V[w].ok
<1> DEFINE Free(w) == w.ok /\ \A f \in ToSet(w.todo), g \in w.stack : place[f] < place[g]
           T == {w \in Walks(F) : Free(w) /\ ~V[w].ok}
<1>1. ASSUME NEW w \in Walks(F), \A v \in Walks(F) : Below(v, w) => (Free(v) => V[v].ok), Free(w)
      PROVE  V[w].ok
  <2>1. V[w] = WalkStep(V, graph, w)
    BY DEF VisitFunction, Graph
  <2>2. CASE Ended(w)
    BY <1>1, <2>1, <2>2 DEF WalkStep
  <2>3. CASE ~Ended(w)
    <3> DEFINE f == Head(w.todo)
               inner == V[Entered(graph, w)]
               p == Passed(V, graph, w)
    <3>1. /\ w.todo \in Seq(F) /\ w.ok = TRUE /\ w.stack \subseteq F /\ w.order \in Seq(F)
          /\ ToSet(w.todo) = {f} \cup ToSet(Tail(w.todo)) /\ f \in F
      BY <2>3, HeadAndTail DEF Walks, Ended
    <3>2. f \notin w.stack
      BY <1>1, <3>1
    <3>3. p \in Walks(F) /\ Below(p, w)
      BY <2>3, EnteredBelow, PassedBelow
    <3>4. Enters(w) => inner.ok
      <4> SUFFICES ASSUME Enters(w)
                   PROVE  inner.ok
        OBVIOUS
      <4>1. Entered(graph, w) \in Walks(F) /\ Below(Entered(graph, w), w)
        BY <2>3, EnteredBelow
      <4>2. /\ Entered(graph, w).ok = w.ok /\ Entered(graph, w).todo = graph[f]
            /\ Entered(graph, w).stack = w.stack \cup {f}
        BY DEF Entered, Walks
      <4>3. ASSUME NEW h \in ToSet(graph[f]), NEW g \in w.stack \cup {f}
            PROVE  place[h] < place[g]
        <5>1. graph[f] \in Seq(F)
          BY <3>1 DEF Graph
        <5>2. h \in F
          BY <5>1 DEF ToSet
        <5>3. place[h] < place[f] /\ (g # f => place[f] < place[g])
          BY <1>1, <3>1
        <5>4. place[h] \in Nat /\ place[f] \in Nat /\ place[g] \in Nat
          BY <3>1, <5>2
        <5> QED
          BY <5>3, <5>4
      <4> QED
        BY <1>1, <3>1, <4>1, <4>2, <4>3
    <3>5. p.ok /\ p.stack = w.stack /\ p.todo = Tail(w.todo)
      BY <3>1, <3>2, <3>4 DEF Passed, Walks, Enters
    <3>6. V[p].ok
      BY <1>1, <3>1, <3>3, <3>5
    <3> QED
      BY <2>1, <2>3, <3>6 DEF WalkStep
  <2> QED
    BY <2>2, <2>3
<1>2. T = {}
  <2> HIDE DEF Free
  <2>1. T \in SUBSET Walks(F)
    OBVIOUS
  <2>2. ASSUME NEW w \in T, \A v \in T : ~Below(v, w)
        PROVE  FALSE
    BY <1>1, <2>2
  <2> HIDE DEF T
  <2> QED
    BY <2>1, <2>2, LowestWalk DEF Graph
<1> QED
  BY <1>2

LEMMA OrderedNotCyclic ==
  ASSUME NEW F, NEW graph, Graph(graph, F), NEW V, VisitFunction(V, graph),
         \A w \in Walks(F) : V[w] \in Walks(F),
         NEW deps, \A f \in F : deps[f] = ToSet(graph[f]),
         NEW s, Ordered(deps, s, F),
         NEW w \in Walks(F), w.ok, w.stack = {}
  PROVE  V[w].ok
<1> DEFINE place == [f \in F |-> CHOOSE i \in DOMAIN s : s[i] = f]
<1>1. /\ s \in Seq(F) /\ ToSet(s) = F
      /\ \A i, j \in DOMAIN s : s[i] = s[j] => i = j
      /\ \A i \in DOMAIN s : deps[s[i]] \subseteq {s[j] : j \in 1 .. i - 1}
  BY DEF Ordered, IsInjective
<1>2. DOMAIN s = 1 .. Len(s) /\ Len(s) \in Nat
  BY <1>1
<1>3. \A f \in F : place[f] \in DOMAIN s /\ s[place[f]] = f
  <2>1. \A f \in F : \E i \in DOMAIN s : s[i] = f
    BY <1>1 DEF ToSet
  <2> QED
    BY <2>1
<1>4. place \in [F -> Nat]
  <2>1. \A f \in F : place[f] \in Nat
    BY <1>2, <1>3
  <2> QED
    BY <2>1
<1> HIDE DEF place
<1>5. ASSUME NEW f \in F, NEW g \in ToSet(graph[f])
      PROVE  place[g] < place[f]
  <2>1. g \in deps[f]
    BY <1>5
  <2>2. PICK j \in 1 .. place[f] - 1 : g = s[j]
    BY <1>1, <1>3, <2>1
  <2>3. j \in DOMAIN s /\ j < place[f]
    BY <1>2, <1>3, <2>2
  <2>4. g \in F
    BY <1>1, <2>2, <2>3 DEF ToSet
  <2>5. place[g] = j
    BY <1>1, <1>3, <2>2, <2>3, <2>4
  <2> QED
    BY <2>3, <2>5
<1>6. \A v \in Walks(F) :
        v.ok /\ (\A f \in ToSet(v.todo), g \in v.stack : place[f] < place[g]) => V[v].ok
  BY <1>4, <1>5, NoCycleFound
<1> QED
  BY <1>6

-----------------------------------------------------------------------------
(* A loop                                                                  *)

(* Where next leads from w: it is in every set that has w and what comes   *)
(* after its members.                                                      *)
LeadsTo(W, End, next, w, e) ==
  /\ e \in End
  /\ \A C \in SUBSET W : w \in C /\ (\A v \in C \ End : next[v] \in C) => e \in C

Loop(V, W, End, next) == V = [w \in W |-> IF w \in End THEN w ELSE V[next[w]]]

(* In any set there is one from which the loop ends or leaves the set.     *)
Ends(W, End, next) ==
  \A T \in SUBSET W : T # {} => \E w \in T : w \notin End => next[w] \notin T

(* A loop that ends wherever it starts defines a function.                 *)
LEMMA LoopDefined ==
  ASSUME NEW W, NEW End, NEW next \in [W -> W], Ends(W, End, next)
  PROVE  \E V : Loop(V, W, End, next)
<1> DEFINE L(w, e) == LeadsTo(W, End, next, w, e)
           V == [w \in W |-> CHOOSE e : L(w, e)]
           One(w) == (\E e : L(w, e)) /\ \A e, f : L(w, e) /\ L(w, f) => e = f
           T == {w \in W : ~One(w)}
<1>1. ASSUME NEW w \in W, w \in End
      PROVE  L(w, w) /\ \A e : L(w, e) => e = w
  BY <1>1 DEF LeadsTo
<1>2. ASSUME NEW w \in W, w \notin End
      PROVE  \A e : L(w, e) <=> L(next[w], e)
  <2>1. ASSUME NEW e, L(next[w], e)
        PROVE  L(w, e)
    BY <1>2, <2>1 DEF LeadsTo
  <2>2. ASSUME NEW e, L(w, e)
        PROVE  L(next[w], e)
    <3>1. e \in End
      BY <2>2 DEF LeadsTo
    <3>2. ASSUME NEW C \in SUBSET W, next[w] \in C, \A v \in C \ End : next[v] \in C
          PROVE  e \in C
      <4>1. C \cup {w} \in SUBSET W /\ \A v \in (C \cup {w}) \ End : next[v] \in C \cup {w}
        BY <3>2
      <4>2. e \in C \cup {w}
        BY <2>2, <4>1 DEF LeadsTo
      <4> QED
        BY <1>2, <3>1, <4>2
    <3> QED
      BY <3>1, <3>2 DEF LeadsTo
  <2> QED
    BY <2>1, <2>2
<1> HIDE DEF L
<1>3. ASSUME NEW w \in W, w \notin End => One(next[w])
      PROVE  One(w)
  <2>1. CASE w \in End
    BY <1>1, <2>1
  <2>2. CASE w \notin End
    BY <1>2, <1>3, <2>2
  <2> QED
    BY <2>1, <2>2
<1>4. \A w \in W : One(w)
  <2> HIDE DEF One
  <2> SUFFICES ASSUME T # {}
               PROVE  FALSE
    OBVIOUS
  <2>1. PICK w \in T : w \notin End => next[w] \notin T
    BY DEF Ends
  <2>2. w \notin End => One(next[w])
    BY <2>1
  <2> QED
    BY <1>3, <2>2
<1>5. ASSUME NEW w \in W
      PROVE  L(w, CHOOSE e : L(w, e)) /\ \A e, f : L(w, e) /\ L(w, f) => e = f
  <2>1. One(w)
    BY <1>4
  <2>2. (\E e : L(w, e)) /\ \A e, f : L(w, e) /\ L(w, f) => e = f
    BY <2>1
  <2>3. L(w, CHOOSE e : L(w, e))
    BY <2>2
  <2> QED
    BY <2>2, <2>3
<1>6. ASSUME NEW w \in W
      PROVE  V[w] = IF w \in End THEN w ELSE V[next[w]]
  <2>1. CASE w \in End
    BY <1>1, <1>5, <2>1
  <2>2. CASE w \notin End
    <3>1. L(w, V[w]) /\ L(next[w], V[next[w]])
      BY <1>5
    <3>2. L(w, V[next[w]])
      BY <1>2, <2>2, <3>1
    <3>3. V[w] = V[next[w]]
      BY <1>5, <3>1, <3>2
    <3> QED
      BY <2>2, <3>3
  <2> QED
    BY <2>1, <2>2
<1>7. Loop(V, W, End, next)
  BY <1>6 DEF Loop
<1> QED
  BY <1>7

(* What each round keeps holds at the end.                                 *)
LEMMA LoopKeeps ==
  ASSUME NEW W, NEW End, NEW next, Ends(W, End, next), NEW V, Loop(V, W, End, next),
         NEW I \in SUBSET W, \A w \in I : w \notin End => next[w] \in I
  PROVE  \A w \in I : V[w] \in I \cap End
<1> DEFINE T == {w \in I : V[w] \notin I \cap End}
<1>1. ASSUME NEW w \in T, w \notin End => next[w] \notin T
      PROVE  FALSE
  <2>1. V[w] = IF w \in End THEN w ELSE V[next[w]]
    BY DEF Loop
  <2>2. w \notin End /\ next[w] \in I
    BY <2>1
  <2> QED
    BY <1>1, <2>1, <2>2
<1>2. T = {}
  BY <1>1 DEF Ends
<1> QED
  BY <1>2

=============================================================================
