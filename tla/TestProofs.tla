----------------------------- MODULE TestProofs -----------------------------
(***************************************************************************)
(* Proofs about the parts of a test worker, for any number of plugins and  *)
(* any callers, programs, tests and bounds: a hook category, in which      *)
(* every handler runs and which is a single-flight value; then the         *)
(* contexts, the fixtures and the test task around it.                     *)
(***************************************************************************)
EXTENDS TestTask, WellFoundedInduction, TLAPS

HookTypeOK ==
  /\ handlers \subseteq Entries
  /\ factory \in 0 .. Plugins
  /\ resolved \in BOOLEAN
  /\ resolving \in Callers \cup {"nobody"}
  /\ hook \in [Callers -> {"idle", "resolving", "joined", "calling"} \cup Settled]
  /\ queue \in [Callers -> SUBSET Entries]
  /\ ran \in [Callers -> Seq(Nat)]

(* A resolution that is under way is at a factory that has not returned,   *)
(* or has ended and will resume those who wait for it.                     *)
OneResolution ==
  /\ factory # 0 => factory \notin handlers /\ resolving # "nobody" /\ ~resolved
  /\ resolving # "nobody" => factory # 0 \/ resolved
  /\ resolved => handlers = Entries
  /\ \A c \in Callers : hook[c] \in {"resolving", "joined"} => resolving # "nobody"

(* A caller has run the first handlers and has all others before it.       *)
InOrder ==
  \A c \in Callers :
    /\ hook[c] = "calling" =>
         /\ ran[c] = [e \in 1 .. Len(ran[c]) |-> e]
         /\ Len(ran[c]) < Plugins
         /\ queue[c] = Len(ran[c]) + 1 .. Plugins
    /\ hook[c] = "done" => ran[c] = [e \in Entries |-> e]

HookInv == HookTypeOK /\ OneResolution /\ InOrder

-----------------------------------------------------------------------------
(* The first of an interval is its lower end.                              *)
LEMMA FirstOfInterval ==
  ASSUME NEW i \in Nat, NEW n \in Nat, i <= n
  PROVE  First(i .. n) = i
<1>1. i \in i .. n /\ \A f \in i .. n : i <= f
  OBVIOUS
<1>2. \A e \in i .. n : (\A f \in i .. n : e <= f) => e = i
  OBVIOUS
<1> QED
  BY <1>1, <1>2 DEF First

(* A set of numbers that is not empty has a first one.                     *)
LEMMA FirstExists ==
  ASSUME NEW S \in SUBSET Nat, S # {}
  PROVE  First(S) \in S
<1> DEFINE R == OpToRel(<, Nat)
<1>1. PICK x \in S : \A y \in S : ~ (<<y, x>> \in R)
  <2>1. IsWellFoundedOn(R, Nat)
    BY NatLessThanWellFounded
  <2> HIDE DEF R
  <2> QED
    BY <2>1, WFMin
<1>2. \A y \in S : x <= y
  <2> SUFFICES ASSUME NEW y \in S PROVE x <= y
    OBVIOUS
  <2>1. ~ (<<y, x>> \in R)
    BY <1>1
  <2>2. ~ (y < x)
    BY <2>1 DEF OpToRel
  <2> QED
    BY <2>2
<1> QED
  BY <1>2 DEF First

(* The next factory is one that has not returned, if there is any.         *)
LEMMA NextIsMissing ==
  ASSUME NEW loaded \in SUBSET Entries
  PROVE  /\ Entries \subseteq loaded => NextFactory(loaded) = 0
         /\ ~ (Entries \subseteq loaded) =>
              NextFactory(loaded) \in Entries \ loaded /\ NextFactory(loaded) # 0
<1>1. Entries \subseteq Nat /\ 0 \notin Entries
  BY HookAssumption DEF HookAssumption, Entries
<1>2. ASSUME ~ (Entries \subseteq loaded) PROVE First(Entries \ loaded) \in Entries \ loaded
  BY <1>1, <1>2, FirstExists
<1> QED
  BY <1>1, <1>2 DEF NextFactory

-----------------------------------------------------------------------------
(* A category nobody has dispatched satisfies the invariant.               *)
LEMMA HookInitial ==
  ASSUME HookInit
  PROVE  HookInv
<1> USE DEF HookInit
<1>1. HookTypeOK
  <2>1. factory \in 0 .. Plugins /\ handlers \subseteq Entries
    BY HookAssumption DEF HookAssumption, Entries
  <2>2. resolved \in BOOLEAN
    BY Zenon
  <2>3. <<>> \in Seq(Nat) /\ {} \in SUBSET Entries
    OBVIOUS
  <2> QED
    BY <2>1, <2>2, <2>3 DEF HookTypeOK
<1>2. OneResolution
  BY DEF OneResolution
<1>3. InOrder
  BY DEF InOrder
<1> QED
  BY <1>1, <1>2, <1>3 DEF HookInv

(* Callers that go on when everything is loaded have all handlers to run.  *)
LEMMA HandleInOrder ==
  ASSUME HookInv, NEW C \in SUBSET Callers, Handle(C), handlers = Entries,
         HookTypeOK'
  PROVE  InOrder'
<1>1. getHandlers = 1 .. Plugins
  BY DEF getHandlers, Entries
<1>2. <<>> = [e \in 1 .. 0 |-> e] /\ Len(<<>>) = 0
  OBVIOUS
<1> SUFFICES ASSUME NEW c \in Callers
             PROVE  /\ hook'[c] = "calling" =>
                         /\ ran'[c] = [e \in 1 .. Len(ran'[c]) |-> e]
                         /\ Len(ran'[c]) < Plugins
                         /\ queue'[c] = Len(ran'[c]) + 1 .. Plugins
                    /\ hook'[c] = "done" => ran'[c] = [e \in Entries |-> e]
  BY DEF InOrder, Entries
<1>3. CASE c \notin C
  BY <1>3 DEF Handle, HookInv, InOrder
<1>4. CASE c \in C /\ Plugins = 0
  <2>1. hook'[c] = "done" /\ ran'[c] = <<>>
    BY <1>1, <1>4 DEF Handle
  <2> QED
    BY <2>1, <1>2, <1>4 DEF Entries
<1>5. CASE c \in C /\ Plugins # 0
  <2>1. Plugins \in Nat /\ Plugins > 0
    BY <1>5, HookAssumption DEF HookAssumption
  <2>2. hook'[c] = "calling" /\ ran'[c] = <<>> /\ queue'[c] = 1 .. Plugins
    BY <1>1, <1>5, <2>1 DEF Handle
  <2> QED
    BY <2>1, <2>2, <1>2
<1> QED
  BY <1>3, <1>4, <1>5

LEMMA HandleType ==
  ASSUME HookTypeOK, NEW C \in SUBSET Callers, Handle(C)
  PROVE  /\ hook' \in [Callers -> {"idle", "resolving", "joined", "calling"} \cup Settled]
         /\ queue' \in [Callers -> SUBSET Entries]
         /\ ran' \in [Callers -> Seq(Nat)]
<1>1. getHandlers \in SUBSET Entries /\ <<>> \in Seq(Nat)
  BY DEF getHandlers
<1> QED
  BY <1>1 DEF Handle, HookTypeOK, Settled

-----------------------------------------------------------------------------
(* A dispatch, the settling of a factory, the resumption of those who wait *)
(* and every handler keep the invariant.                                   *)
LEMMA DispatchKeeps ==
  ASSUME HookInv, NEW c \in Callers, Dispatch(c)
  PROVE  HookInv'
<1> USE DEF HookInv
<1>1. CASE resolved
  <2> USE <1>1 DEF Dispatch
  <2>1. Handle({c}) /\ UNCHANGED <<handlers, factory, resolved, resolving>>
    OBVIOUS
  <2>2. HookTypeOK'
    BY <2>1, HandleType DEF HookTypeOK, Entries
  <2>3. InOrder'
    BY <2>1, <2>2, HandleInOrder DEF OneResolution
  <2>4. \A d \in Callers : hook'[d] \in {"resolving", "joined"} => hook[d] \in {"resolving", "joined"}
    BY <2>1 DEF Handle
  <2>5. OneResolution'
    BY <2>1, <2>4 DEF OneResolution, Entries
  <2> QED
    BY <2>2, <2>3, <2>5
<1>2. CASE ~resolved /\ resolving # "nobody"
  <2> USE <1>2 DEF Dispatch
  <2>1. hook' = [hook EXCEPT ![c] = "joined"]
        /\ UNCHANGED <<handlers, factory, resolved, resolving, queue, ran>>
    OBVIOUS
  <2>2. HookTypeOK'
    BY <2>1 DEF HookTypeOK, Entries, Settled
  <2>3. OneResolution'
    BY <2>1 DEF OneResolution, Entries, HookTypeOK
  <2>4. InOrder'
    BY <2>1 DEF InOrder, Entries, HookTypeOK
  <2> QED
    BY <2>2, <2>3, <2>4
<1>3. CASE ~resolved /\ resolving = "nobody"
  <2> USE <1>3 DEF Dispatch
  <2>1. /\ resolving' = c /\ hook' = [hook EXCEPT ![c] = "resolving"]
        /\ factory' = NextFactory(handlers) /\ resolved' = (factory' = 0)
        /\ UNCHANGED <<handlers, queue, ran>>
    OBVIOUS
  <2>2. /\ factory' # 0 => factory' \in Entries \ handlers
        /\ factory' = 0 => handlers = Entries
    BY <2>1, NextIsMissing DEF HookTypeOK
  <2>3. HookTypeOK'
    <3>1. factory' \in 0 .. Plugins
      BY <2>2, HookAssumption DEF HookAssumption, Entries
    <3> QED
      BY <2>1, <3>1 DEF HookTypeOK, Entries, Settled
  <2>4. OneResolution'
    BY <2>1, <2>2, HookAssumption DEF OneResolution, Entries, HookTypeOK, HookAssumption
  <2>5. InOrder'
    BY <2>1 DEF InOrder, Entries, HookTypeOK
  <2> QED
    BY <2>3, <2>4, <2>5
<1> QED
  BY <1>1, <1>2, <1>3

LEMMA ResolutionKeeps ==
  ASSUME HookInv, Resolution
  PROVE  HookInv'
<1> USE DEF HookInv
<1>1. CASE FactoryReturns
  <2> USE <1>1 DEF FactoryReturns
  <2>1. handlers' \subseteq Entries
    BY DEF HookTypeOK, OneResolution, Entries
  <2>2. /\ factory' # 0 => factory' \in Entries \ handlers'
        /\ factory' = 0 => handlers' = Entries
    BY <2>1, NextIsMissing
  <2>3. HookTypeOK'
    <3>1. factory' \in 0 .. Plugins
      BY <2>2, HookAssumption DEF HookAssumption, Entries
    <3> QED
      BY <2>1, <3>1 DEF HookTypeOK, Entries, Settled
  <2>4. OneResolution'
    BY <2>1, <2>2 DEF OneResolution, Entries, HookTypeOK
  <2>5. InOrder'
    BY DEF InOrder, Entries
  <2> QED
    BY <2>3, <2>4, <2>5
<1>2. CASE FactoryFails
  <2> USE <1>2 DEF FactoryFails, Waiting
  <2>1. HookTypeOK'
    BY HookAssumption DEF HookTypeOK, Entries, Settled, HookAssumption
  <2>2. OneResolution'
    BY DEF OneResolution, Entries
  <2>3. InOrder'
    BY DEF InOrder, Entries
  <2> QED
    BY <2>1, <2>2, <2>3
<1>3. CASE Resume
  <2> USE <1>3 DEF Resume
  <2>1. Waiting \in SUBSET Callers
    BY DEF Waiting
  <2>2. HookTypeOK'
    BY <2>1, HandleType DEF HookTypeOK, Entries
  <2>3. InOrder'
    BY <2>1, <2>2, HandleInOrder DEF OneResolution
  <2>4. \A d \in Callers : hook'[d] \notin {"resolving", "joined"}
    BY DEF Handle, Waiting
  <2>5. OneResolution'
    BY <2>4 DEF OneResolution, Entries
  <2> QED
    BY <2>2, <2>3, <2>5
<1> QED
  BY <1>1, <1>2, <1>3 DEF Resolution

LEMMA HandlerKeeps ==
  ASSUME HookInv, NEW c \in Callers, Handler(c)
  PROVE  HookInv'
<1> USE DEF HookInv
<1>1. CASE HandlerReturns(c)
  <2> DEFINE n == Len(ran[c])
  <2>1. /\ ran[c] \in Seq(Nat) /\ n \in Nat /\ Plugins \in Nat /\ n < Plugins
        /\ ran[c] = [e \in 1 .. n |-> e] /\ queue[c] = n + 1 .. Plugins
    BY <1>1, HookAssumption DEF HandlerReturns, HookTypeOK, InOrder, HookAssumption
  <2> HIDE DEF n
  <2>2. First(queue[c]) = n + 1
    <3>1. n + 1 \in Nat /\ n + 1 <= Plugins
      BY <2>1
    <3>2. First(n + 1 .. Plugins) = n + 1
      BY <2>1, <3>1, FirstOfInterval
    <3> QED
      BY <2>1, <3>2
  <2>3. /\ ran'[c] = Append(ran[c], n + 1)
        /\ queue'[c] = (n + 1 .. Plugins) \ {n + 1}
        /\ \A d \in Callers \ {c} : ran'[d] = ran[d] /\ queue'[d] = queue[d] /\ hook'[d] = hook[d]
    BY <1>1, <2>1, <2>2 DEF HandlerReturns, HookTypeOK
  <2>4. queue'[c] = n + 2 .. Plugins
    BY <2>1, <2>3
  <2>5. ran'[c] = [e \in 1 .. n + 1 |-> e] /\ Len(ran'[c]) = n + 1
    BY <2>1, <2>3
  <2>6. hook'[c] = IF n + 1 = Plugins THEN "done" ELSE "calling"
    <3>1. hook'[c] = IF queue'[c] = {} THEN "done" ELSE "calling"
      BY <1>1 DEF HandlerReturns, HookTypeOK
    <3>2. (queue'[c] = {}) <=> (n + 1 = Plugins)
      BY <2>1, <2>4
    <3> QED
      BY <3>1, <3>2
  <2>7. HookTypeOK'
    <3>1. ran' \in [Callers -> Seq(Nat)]
      BY <1>1, <2>1, <2>2 DEF HandlerReturns, HookTypeOK
    <3>2. queue' \in [Callers -> SUBSET Entries]
      BY <1>1, <2>2 DEF HandlerReturns, HookTypeOK
    <3>3. hook' \in [Callers -> {"idle", "resolving", "joined", "calling"} \cup Settled]
      BY <1>1 DEF HandlerReturns, HookTypeOK, Settled
    <3>4. UNCHANGED <<handlers, factory, resolved, resolving>>
      BY <1>1 DEF HandlerReturns
    <3> QED
      BY <3>1, <3>2, <3>3, <3>4 DEF HookTypeOK, Entries
  <2>8. OneResolution'
    BY <1>1, <2>3, <2>6 DEF HandlerReturns, OneResolution, Entries
  <2>9. InOrder'
    <3> SUFFICES ASSUME NEW d \in Callers
                 PROVE  /\ hook'[d] = "calling" =>
                             /\ ran'[d] = [e \in 1 .. Len(ran'[d]) |-> e]
                             /\ Len(ran'[d]) < Plugins
                             /\ queue'[d] = Len(ran'[d]) + 1 .. Plugins
                        /\ hook'[d] = "done" => ran'[d] = [e \in Entries |-> e]
      BY DEF InOrder, Entries
    <3>1. CASE d = c
      <4>1. (n + 1) + 1 = n + 2
        BY <2>1
      <4>2. n + 1 # Plugins => n + 1 < Plugins
        BY <2>1
      <4> QED
        BY <3>1, <4>1, <4>2, <2>4, <2>5, <2>6 DEF Entries
    <3>2. CASE d # c
      BY <3>2, <2>3 DEF InOrder
    <3> QED
      BY <3>1, <3>2
  <2> QED
    BY <2>7, <2>8, <2>9
<1>2. CASE HandlerThrows(c)
  <2> USE <1>2 DEF HandlerThrows
  <2>1. HookTypeOK'
    BY DEF HookTypeOK, Entries, Settled
  <2>2. OneResolution'
    BY DEF OneResolution, Entries, HookTypeOK
  <2>3. InOrder'
    BY DEF InOrder, Entries, HookTypeOK
  <2> QED
    BY <2>1, <2>2, <2>3
<1> QED
  BY <1>1, <1>2 DEF Handler

LEMMA LeaveKeeps ==
  ASSUME HookInv, NEW c \in Callers, Leave(c)
  PROVE  HookInv'
<1> USE DEF HookInv, Leave
<1>1. HookTypeOK'
  BY DEF HookTypeOK, Entries
<1>2. OneResolution'
  BY DEF OneResolution, Entries, HookTypeOK
<1>3. InOrder'
  BY DEF InOrder, Entries, HookTypeOK
<1> QED
  BY <1>1, <1>2, <1>3

LEMMA HookStepKeeps ==
  ASSUME HookInv, [HookNext]_hookVars
  PROVE  HookInv'
<1>1. CASE HookNext
  BY <1>1, ResolutionKeeps, DispatchKeeps, HandlerKeeps, LeaveKeeps DEF HookNext
<1>2. CASE UNCHANGED hookVars
  BY <1>2 DEF hookVars, HookInv, HookTypeOK, OneResolution, InOrder, Entries, Settled
<1> QED
  BY <1>1, <1>2

LEMMA HookInvariant == HookSpec => []HookInv
<1>1. HookInit => HookInv
  BY HookInitial
<1>2. HookInv /\ [HookNext]_hookVars => HookInv'
  BY HookStepKeeps
<1> QED
  BY <1>1, <1>2, PTL DEF HookSpec

(* For any number of plugins, factories and callers, a dispatch that ends  *)
(* without an error has run every handler in plugin order, whoever         *)
(* resolved the category and however often a factory had failed.           *)
THEOREM HookEveryHandlerRan == HookSpec => []EveryHandlerRan
<1>1. HookInv => EveryHandlerRan
  BY DEF HookInv, InOrder, EveryHandlerRan
<1> QED
  BY <1>1, HookInvariant, PTL

-----------------------------------------------------------------------------
(* The refinement: every step of the dispatcher is a step of a single      *)
(* flight, or none.  View is what a caller is in it.                       *)
View(c) ==
  CASE hook[c] \in {"resolving", "joined"} /\ ~resolved -> "waiting"
    [] hook[c] \in {"idle", "refused"} -> hook[c]
    [] OTHER -> "got"

Views == [c \in Callers |-> View(c)]

(* What View is, case by case.                                             *)
LEMMA ViewCases ==
  ASSUME NEW c \in Callers
  PROVE  /\ hook[c] \in {"resolving", "joined"} /\ ~resolved => View(c) = "waiting"
         /\ hook[c] \in {"resolving", "joined"} /\ resolved => View(c) = "got"
         /\ hook[c] \in {"idle", "refused"} => View(c) = hook[c]
         /\ hook[c] \in {"calling", "done", "threw"} => View(c) = "got"
BY DEF View

LEMMA ViewCasesNext ==
  ASSUME NEW c \in Callers
  PROVE  /\ hook'[c] \in {"resolving", "joined"} /\ ~resolved' => View(c)' = "waiting"
         /\ hook'[c] \in {"resolving", "joined"} /\ resolved' => View(c)' = "got"
         /\ hook'[c] \in {"idle", "refused"} => View(c)' = hook'[c]
         /\ hook'[c] \in {"calling", "done", "threw"} => View(c)' = "got"
BY DEF View

(* Steps of the flight, in terms of the dispatcher.                        *)
Loads(outcome) ==
  /\ factory # 0 /\ factory' = 0
  /\ resolved' = (outcome = "got")
  /\ \A c \in Callers : View(c)' = IF View(c) = "waiting" THEN outcome ELSE View(c)

Asks(c) ==
  /\ View(c) # "waiting"
  /\ \A d \in Callers \ {c} : View(d)' = View(d)
  /\ \/ resolved /\ resolved' /\ View(c)' = "got" /\ factory' = factory
     \/ ~resolved /\ resolved' = resolved /\ View(c)' = "waiting" /\ factory' # 0
     \/ ~resolved /\ resolved' /\ View(c)' = "got" /\ factory = 0 /\ factory' = 0

Forgets(c) ==
  /\ View(c) \in {"got", "refused"} /\ View(c)' = "idle"
  /\ \A d \in Callers \ {c} : View(d)' = View(d)
  /\ resolved' = resolved /\ factory' = factory

Same ==
  /\ \A c \in Callers : View(c)' = View(c)
  /\ resolved' = resolved /\ (factory' # 0) = (factory # 0)

LEMMA ViewLoads ==
  ASSUME HookInv, NEW outcome \in {"got", "refused"}, Loads(outcome)
  PROVE  Category!Settle(outcome)
BY DEF Loads, Category!Settle, View

LEMMA ViewAsks ==
  ASSUME HookInv, NEW c \in Callers, Asks(c)
  PROVE  Category!Ask(c)
<1> DEFINE now == [d \in Callers |-> View(d)]
           to(label) == [now EXCEPT ![c] = label]
<1>1. now[c] # "waiting"
  BY DEF Asks
<1>2. \A label : View(c)' = label => now' = to(label)
  BY DEF Asks
<1>3. CASE resolved
  <2>1. now' = to("got") /\ resolved' = resolved /\ factory' = factory
    BY <1>2, <1>3 DEF Asks, HookInv, HookTypeOK
  <2> QED
    BY <1>1, <1>3, <2>1 DEF Category!Ask, View
<1>4. CASE ~resolved /\ ~resolved'
  <2>1. now' = to("waiting") /\ resolved' = resolved /\ factory' # 0
    BY <1>2, <1>4 DEF Asks
  <2> QED
    BY <1>1, <1>4, <2>1 DEF Category!Ask, View, HookInv, HookTypeOK
<1>5. CASE ~resolved /\ resolved'
  <2>1. now' = to("got") /\ factory = 0 /\ factory' = 0
    BY <1>2, <1>5 DEF Asks
  <2> QED
    BY <1>1, <1>5, <2>1 DEF Category!Ask, View
<1> QED
  BY <1>3, <1>4, <1>5

LEMMA ViewForgets ==
  ASSUME HookInv, NEW c \in Callers, Forgets(c)
  PROVE  Category!Forget(c)
BY DEF Forgets, Category!Forget, View, HookInv, HookTypeOK

LEMMA ViewSame ==
  ASSUME Same
  PROVE  UNCHANGED Category!flightVars
BY DEF Same, Category!flightVars, View

(* A factory that settles ends the attempt, or the next factory goes on    *)
(* with it; those who are resumed had been told already.                   *)
LEMMA ResolutionMaps ==
  ASSUME HookInv, Resolution
  PROVE  Loads("got") \/ Loads("refused") \/ Same
<1> USE DEF HookInv, OneResolution, HookTypeOK
<1>1. CASE FactoryReturns
  <2> USE <1>1 DEF FactoryReturns
  <2>1. ~resolved /\ factory # 0 /\ hook' = hook
    OBVIOUS
  <2>2. CASE factory' = 0
    <3>1. resolved'
      BY <2>2
    <3>2. \A c \in Callers : View(c)' = IF View(c) = "waiting" THEN "got" ELSE View(c)
      BY <2>1, <3>1, ViewCases, ViewCasesNext DEF Settled
    <3> QED
      BY <2>1, <2>2, <3>1, <3>2 DEF Loads
  <2>3. CASE factory' # 0
    <3>1. ~resolved'
      BY <2>3
    <3>2. \A c \in Callers : View(c)' = View(c)
      BY <2>1, <3>1 DEF View
    <3> QED
      BY <2>1, <2>3, <3>1, <3>2 DEF Same
  <2> QED
    BY <2>2, <2>3
<1>2. CASE FactoryFails
  <2> USE <1>2 DEF FactoryFails, Waiting
  <2>1. ~resolved /\ ~resolved' /\ factory # 0 /\ factory' = 0
    OBVIOUS
  <2>2. \A c \in Callers : View(c)' = IF View(c) = "waiting" THEN "refused" ELSE View(c)
    BY <2>1, ViewCases, ViewCasesNext DEF Settled
  <2> QED
    BY <2>1, <2>2 DEF Loads
<1>3. CASE Resume
  <2> USE <1>3 DEF Resume, Handle, Waiting
  <2>1. resolved /\ resolved' /\ factory' = factory
    OBVIOUS
  <2>2. \A c \in Callers : View(c)' = View(c)
    BY <2>1, ViewCases, ViewCasesNext DEF Settled
  <2> QED
    BY <2>1, <2>2 DEF Same
<1> QED
  BY <1>1, <1>2, <1>3 DEF Resolution

(* A dispatch asks for the category, also when it loads it at once.        *)
LEMMA DispatchMaps ==
  ASSUME HookInv, NEW c \in Callers, Dispatch(c)
  PROVE  Asks(c)
<1> USE DEF HookInv, OneResolution, HookTypeOK
<1>1. View(c) # "waiting"
  BY ViewCases DEF Dispatch
<1>2. CASE resolved
  <2> USE <1>2 DEF Dispatch, Handle
  <2>1. resolved' /\ factory' = factory /\ View(c)' = "got"
    BY ViewCasesNext
  <2>2. \A d \in Callers \ {c} : View(d)' = View(d)
    BY <2>1 DEF View
  <2> QED
    BY <1>1, <1>2, <2>1, <2>2 DEF Asks
<1>3. CASE ~resolved /\ resolving # "nobody"
  <2> USE <1>3 DEF Dispatch
  <2>1. resolved' = resolved /\ factory' # 0 /\ View(c)' = "waiting"
    BY ViewCasesNext
  <2>2. \A d \in Callers \ {c} : View(d)' = View(d)
    BY <2>1 DEF View
  <2> QED
    BY <1>1, <1>3, <2>1, <2>2 DEF Asks
<1>4. CASE ~resolved /\ resolving = "nobody"
  <2> USE <1>4 DEF Dispatch
  <2>1. factory = 0 /\ hook'[c] = "resolving" /\ \A d \in Callers \ {c} : hook'[d] = hook[d]
    OBVIOUS
  <2>2. \A d \in Callers \ {c} : View(d)' = View(d)
    BY <2>1 DEF View
  <2>3. CASE factory' = 0
    BY <1>1, <1>4, <2>1, <2>2, <2>3, ViewCasesNext DEF Asks
  <2>4. CASE factory' # 0
    BY <1>1, <1>4, <2>1, <2>2, <2>4, ViewCasesNext DEF Asks
  <2> QED
    BY <2>3, <2>4
<1> QED
  BY <1>2, <1>3, <1>4

(* Running handlers shows nothing; leaving forgets the outcome.            *)
LEMMA HandlerMaps ==
  ASSUME HookInv, NEW c \in Callers, Handler(c)
  PROVE  Same
<1> USE DEF HookInv, HookTypeOK, Handler, HandlerReturns, HandlerThrows
<1>1. hook'[c] \in {"calling", "done", "threw"} /\ \A d \in Callers \ {c} : hook'[d] = hook[d]
  OBVIOUS
<1>2. View(c)' = "got" /\ View(c) = "got"
  BY <1>1, ViewCases, ViewCasesNext
<1>3. \A d \in Callers \ {c} : View(d)' = View(d)
  BY <1>1 DEF View
<1> QED
  BY <1>2, <1>3 DEF Same

LEMMA LeaveMaps ==
  ASSUME HookInv, NEW c \in Callers, Leave(c)
  PROVE  Forgets(c)
<1> USE DEF HookInv, HookTypeOK, Leave, Settled
<1>1. hook'[c] = "idle" /\ \A d \in Callers \ {c} : hook'[d] = hook[d]
  OBVIOUS
<1>2. View(c)' = "idle" /\ View(c) \in {"got", "refused"}
  BY <1>1, ViewCases, ViewCasesNext
<1>3. \A d \in Callers \ {c} : View(d)' = View(d)
  BY <1>1 DEF View
<1> QED
  BY <1>2, <1>3 DEF Forgets

(* For any number of plugins, factories and callers the category is a      *)
(* single-flight value: one attempt to load it at a time, its outcome that *)
(* of everyone who waits, and a failed one is tried again.                 *)
THEOREM HookCategoryShared == HookSpec => CategoryShared
<1>1. HookInit => Category!FlightInit
  BY DEF HookInit, Category!FlightInit
<1>2. HookInv /\ [HookNext]_hookVars => [Category!FlightNext]_(Category!flightVars)
  <2> SUFFICES ASSUME HookInv, [HookNext]_hookVars
               PROVE  Category!FlightNext \/ UNCHANGED Category!flightVars
    OBVIOUS
  <2>1. CASE Resolution
    BY <2>1, ResolutionMaps, ViewLoads, ViewSame DEF Category!FlightNext
  <2>2. ASSUME NEW c \in Callers, Dispatch(c) PROVE Category!FlightNext
    BY <2>2, DispatchMaps, ViewAsks DEF Category!FlightNext
  <2>3. ASSUME NEW c \in Callers, Handler(c) PROVE UNCHANGED Category!flightVars
    BY <2>3, HandlerMaps, ViewSame
  <2>4. ASSUME NEW c \in Callers, Leave(c) PROVE Category!FlightNext
    BY <2>4, LeaveMaps, ViewForgets DEF Category!FlightNext
  <2>5. CASE UNCHANGED hookVars
    BY <2>5 DEF hookVars, Category!flightVars
  <2> QED
    BY <2>1, <2>2, <2>3, <2>4, <2>5 DEF HookNext
<1> QED
  BY <1>1, <1>2, HookInvariant, PTL DEF HookSpec, CategoryShared, Category!FlightSpec

-----------------------------------------------------------------------------
(* Contexts, fixtures and the task                                         *)

Stopping == {"disconnecting", "stopping", "stopping after error"}
Deploying == {"deploying", "hooks"}
Places == AtRest \cup Stopping \cup Deploying
            \cup {"lre", "begin", "starting", "connecting", "cleanup", "restoring"}

ContextTypeOK ==
  /\ pc \in [Callers -> Places]
  /\ managed \in [Callers -> {"none", "starting", "running", "spent"}]
  /\ temp \in [Callers -> BOOLEAN]
  /\ node \in Callers \cup {"nobody", "manual"}

(* A devnode that is managed, and the directory of its snapshots, belong   *)
(* to a context that has steps left to take.                               *)
Owned ==
  \A c \in Callers :
    /\ managed[c] # "none" \/ temp[c] =>
         pc[c] \in {"starting", "connecting", "cleanup", "ready", "restoring"} \cup Deploying \cup Stopping
    /\ pc[c] = "connecting" /\ managed[c] # "running" => managed[c] = "none" /\ ~temp[c]
    /\ node = c => pc[c] \in {"connecting", "cleanup", "ready"} \cup Deploying \cup Stopping
                   /\ managed[c] # "none"
    /\ pc[c] = "restoring" => managed[c] = "running"

ContextInv == ContextTypeOK /\ Owned

(* The steps of one context, those of its setup and the others.            *)
SetupStep(c) ==
  \/ Setup(c) \/ SetupBegins(c) \/ DevnodeStarts(c) \/ StartFails(c)
  \/ ConnectReturns(c) \/ ConnectFails(c) \/ CleanupAfterSetupFailure(c)

UseStep(c) ==
  \/ (\E p \in Programs : Deploy(c, p)) \/ DeployConfirmed(c) \/ DeployFails(c) \/ DeployReturns(c)
  \/ Snapshot(c) \/ RestoreStops(c) \/ RestoreReturns(c) \/ RestoreThrows(c) \/ Teardown(c)
  \/ (\E ok \in BOOLEAN : DisconnectAll(c, ok)) \/ TeardownEnds(c)

-----------------------------------------------------------------------------
LEMMA ContextInitial ==
  ASSUME ContextInit
  PROVE  ContextInv
<1> USE DEF ContextInit
<1>1. ContextTypeOK
  BY DEF ContextTypeOK, Places, AtRest
<1>2. Owned
  BY ContextAssumption DEF Owned, ContextAssumption
<1> QED
  BY <1>1, <1>2 DEF ContextInv

LEMMA SetupKeeps ==
  ASSUME ContextInv, NEW c \in Callers, SetupStep(c)
  PROVE  ContextInv'
<1> USE ContextAssumption
    DEF ContextAssumption, ContextInv, ContextTypeOK, Owned, Places, AtRest, Stopping, Deploying, Goto
<1>1. CASE Setup(c)
  BY <1>1 DEF Setup
<1>2. CASE SetupBegins(c)
  <2>1. pc[c] = "begin" /\ managed[c] = "none" /\ ~temp[c] /\ node # c /\ node' = node
    BY <1>2 DEF SetupBegins
  <2>2. CASE /\ managed' = [managed EXCEPT ![c] = "starting"] /\ Goto(c, "starting")
             /\ temp' \in {[temp EXCEPT ![c] = s] : s \in BOOLEAN}
    BY <2>1, <2>2
  <2>3. CASE \E p \in {"failed", "connecting"} : Goto(c, p) /\ UNCHANGED <<managed, temp>>
    BY <2>1, <2>3
  <2> QED
    BY <1>2, <2>2, <2>3 DEF SetupBegins
<1>3. CASE DevnodeStarts(c)
  BY <1>3 DEF DevnodeStarts
<1>4. CASE StartFails(c)
  BY <1>4 DEF StartFails, RemoveTemp
<1>5. CASE ConnectReturns(c)
  BY <1>5 DEF ConnectReturns
<1>6. CASE ConnectFails(c)
  BY <1>6 DEF ConnectFails
<1>7. CASE CleanupAfterSetupFailure(c)
  BY <1>7 DEF CleanupAfterSetupFailure, StopDevnode, RemoveTemp
<1> QED
  BY <1>1, <1>2, <1>3, <1>4, <1>5, <1>6, <1>7 DEF SetupStep

LEMMA UseKeeps ==
  ASSUME ContextInv, NEW c \in Callers, UseStep(c)
  PROVE  ContextInv'
<1> USE ContextAssumption
    DEF ContextAssumption, ContextInv, ContextTypeOK, Owned, Places, AtRest, Stopping, Deploying, Goto
<1>1. CASE \E p \in Programs : Deploy(c, p)
  <2>1. pc[c] = "ready" /\ UNCHANGED <<managed, temp, node>>
    BY <1>1 DEF Deploy
  <2>2. UNCHANGED pc \/ Goto(c, "deploying")
    BY <1>1 DEF Deploy
  <2> QED
    BY <2>1, <2>2
<1>2. CASE DeployConfirmed(c)
  BY <1>2 DEF DeployConfirmed
<1>3. CASE DeployFails(c)
  BY <1>3 DEF DeployFails
<1>4. CASE DeployReturns(c)
  BY <1>4 DEF DeployReturns
<1>5. CASE Snapshot(c)
  BY <1>5 DEF Snapshot
<1>6. CASE Teardown(c)
  BY <1>6 DEF Teardown
<1>7. CASE \E ok \in BOOLEAN : DisconnectAll(c, ok)
  BY <1>7 DEF DisconnectAll
<1>8. CASE TeardownEnds(c)
  BY <1>8 DEF TeardownEnds, StopDevnode, RemoveTemp
<1>9. CASE RestoreStops(c)
  BY <1>9 DEF RestoreStops, assertSnapshotReady
<1>10. CASE RestoreReturns(c)
  BY <1>10 DEF RestoreReturns
<1>11. CASE RestoreThrows(c)
  BY <1>11 DEF RestoreThrows
<1> QED
  BY <1>1, <1>2, <1>3, <1>4, <1>5, <1>6, <1>7, <1>8, <1>9, <1>10, <1>11 DEF UseStep

(* Those who wait for the environment go on, or fail, together.            *)
LEMMA BuildLreMoves ==
  ASSUME \E built \in BOOLEAN : BuildLre(built)
  PROVE  \E label \in {"begin", "failed"} :
           pc' = [c \in Callers |-> IF pc[c] # "lre" THEN pc[c] ELSE label]
<1>1. PICK built \in BOOLEAN : BuildLre(built)
  OBVIOUS
<1>2. CASE built
  BY <1>1, <1>2 DEF BuildLre
<1>3. CASE ~built
  BY <1>1, <1>3 DEF BuildLre
<1> QED
  BY <1>2, <1>3

LEMMA ContextStepsKeep ==
  ASSUME ContextInv, [TaskNext]_allVars
  PROVE  ContextInv'
<1>1. CASE \E c \in Callers : ContextStep(c) \/ Setup(c) \/ Snapshot(c) \/ RestoreStops(c)
                               \/ Teardown(c) \/ \E p \in Programs : Deploy(c, p)
  <2>1. PICK c \in Callers : ContextStep(c) \/ Setup(c) \/ Snapshot(c) \/ RestoreStops(c)
                             \/ Teardown(c) \/ \E p \in Programs : Deploy(c, p)
    BY <1>1
  <2>2. SetupStep(c) \/ UseStep(c)
    BY <2>1 DEF ContextStep, SetupStep, UseStep
  <2> QED
    BY <2>2, SetupKeeps, UseKeeps
<1>2. CASE \E built \in BOOLEAN : BuildLre(built)
  <2>2. PICK label \in {"begin", "failed"} :
          pc' = [c \in Callers |-> IF pc[c] # "lre" THEN pc[c] ELSE label]
    BY <1>2, BuildLreMoves
  <2>3. UNCHANGED <<managed, temp, node>>
    BY <1>2 DEF BuildLre
  <2> QED
    BY <2>2, <2>3 DEF ContextInv, ContextTypeOK, Owned, Places, AtRest, Stopping, Deploying
<1>3. CASE UNCHANGED contextVars
  BY <1>3 DEF contextVars, ContextInv, ContextTypeOK, Owned
<1>4. CASE UNCHANGED vars
  BY <1>3, <1>4 DEF vars
<1>5. CASE Next
  <2>1. CASE \E t \in Tests : LoadFixture(t)
    BY <2>1, <1>3 DEF LoadFixture
  <2>2. CASE \E k \in DOMAIN entry, o \in {"settled", "undefined"} : FixtureSettles(k, o)
    BY <2>2, <1>3 DEF FixtureSettles
  <2> QED
    BY <1>1, <1>2, <1>3, <1>5, <2>1, <2>2 DEF Next
<1>6. CASE \E ok \in BOOLEAN : Compile(ok) \/ SuiteSetup(ok) \/ Tests_(ok) \/ SuiteTeardown(ok)
  BY <1>6, <1>4 DEF Compile, SuiteSetup, Tests_, SuiteTeardown
<1> QED
  BY <1>4, <1>5, <1>6 DEF TaskNext, allVars

LEMMA ContextInvariant ==
  TaskSpec => []ContextInv
<1>1. TaskInit => ContextInv
  BY ContextInitial DEF TaskInit
<1>2. ContextInv /\ [TaskNext]_allVars => ContextInv'
  BY ContextStepsKeep
<1> QED
  BY <1>1, <1>2, PTL DEF TaskSpec

(* However a setup or a teardown ends, its devnode is stopped and its      *)
(* snapshot directory removed, and no devnode listens that nobody stops.   *)
THEOREM TestNothingLeftBehind ==
  TaskSpec => []NothingLeftBehind
<1>1. ContextInv => NothingLeftBehind
  BY DEF ContextInv, ContextTypeOK, Owned, NothingLeftBehind, AtRest, Stopping, Deploying
<1> QED
  BY <1>1, ContextInvariant, PTL

-----------------------------------------------------------------------------
(* The session grows in a deployment only, which has the devnode to        *)
(* itself: no context starts, stops or cleans up one at the time.          *)
Exclusive ==
  \A c, d \in Callers : pc[c] \in Deploying => pc[d] \in AtRest \cup Deploying

(* With no devnode there is no ledger; the ledger of a devnode that is     *)
(* being set up is empty, and that of one that is being stopped has no     *)
(* records.                                                                *)
Undisturbed ==
  /\ node = "nobody" => ledger = {}
  /\ \A c \in Callers :
       /\ pc[c] \in Stopping => session = {}
       /\ node = c /\ pc[c] \in {"connecting", "cleanup"} => session \subseteq lost

SessionInv == ContextInv /\ Exclusive /\ Undisturbed /\ SessionMatchesChain

LEMMA ExclusiveKept ==
  ASSUME ContextTypeOK, Exclusive, NEW c \in Callers, SetupStep(c) \/ UseStep(c)
  PROVE  Exclusive'
<1> USE DEF Exclusive, ContextTypeOK, Deploying, AtRest, Goto
<1>1. CASE UNCHANGED pc
  BY <1>1
(* A step to a place at rest, of any context.                              *)
<1>2. CASE \E p \in AtRest : Goto(c, p)
  BY <1>2
(* A step of setup() and teardown(), when there is no deployment.          *)
<1>3. CASE \A d \in Callers : pc[d] \notin Deploying /\ pc'[d] \notin Deploying
  BY <1>3
<1>4. CASE Setup(c)
  BY <1>3, <1>4 DEF Setup
<1>5. CASE SetupBegins(c) \/ DevnodeStarts(c) \/ StartFails(c) \/ ConnectReturns(c)
           \/ ConnectFails(c) \/ CleanupAfterSetupFailure(c)
  <2>1. pc[c] \in {"begin", "starting", "connecting", "cleanup"}
    BY <1>5 DEF SetupBegins, DevnodeStarts, StartFails, ConnectReturns, ConnectFails,
                CleanupAfterSetupFailure
  <2>2. \A d \in Callers : pc[d] \notin Deploying
    BY <2>1
  <2>3. PICK p \in {"starting", "connecting", "cleanup", "ready", "failed"} : Goto(c, p)
    BY <1>5 DEF SetupBegins, DevnodeStarts, StartFails, ConnectReturns, ConnectFails,
                CleanupAfterSetupFailure
  <2> QED
    BY <1>3, <2>2, <2>3
<1>6. CASE \E p \in Programs : Deploy(c, p)
  BY <1>1, <1>6 DEF Deploy
<1>7. CASE DeployConfirmed(c)
  BY <1>7 DEF DeployConfirmed
<1>8. CASE DeployFails(c) \/ DeployReturns(c)
  BY <1>2, <1>8 DEF DeployFails, DeployReturns
<1>9. CASE Snapshot(c)
  BY <1>1, <1>9 DEF Snapshot
<1>10. CASE Teardown(c)
  BY <1>3, <1>10 DEF Teardown, Quiet
<1>11. CASE (\E ok \in BOOLEAN : DisconnectAll(c, ok)) \/ TeardownEnds(c)
  <2>1. pc[c] \in Stopping
    BY <1>11 DEF DisconnectAll, TeardownEnds, Stopping
  <2>2. \A d \in Callers : pc[d] \notin Deploying
    BY <2>1 DEF Stopping
  <2>3. PICK p \in {"stopping", "stopping after error", "closed", "threw"} : Goto(c, p)
    BY <1>11 DEF DisconnectAll, TeardownEnds
  <2> QED
    BY <1>3, <2>2, <2>3
<1>12. CASE RestoreStops(c)
  BY <1>3, <1>12 DEF RestoreStops, Quiet
<1>13. CASE RestoreReturns(c) \/ RestoreThrows(c)
  BY <1>2, <1>13 DEF RestoreReturns, RestoreThrows
<1> QED
  BY <1>4, <1>5, <1>6, <1>7, <1>8, <1>9, <1>10, <1>11, <1>12, <1>13 DEF SetupStep, UseStep

LEMMA SetupKeepsSession ==
  ASSUME SessionInv, NEW c \in Callers, SetupStep(c)
  PROVE  SessionMatchesChain' /\ Undisturbed'
<1> USE DEF SessionInv, ContextInv, ContextTypeOK, SessionMatchesChain, Undisturbed, Stopping, Goto
<1>1. CASE Setup(c)
  BY <1>1 DEF Setup
<1>2. CASE SetupBegins(c)
  <2>1. node # c
    BY <1>2 DEF SetupBegins, Owned, Deploying
  <2>2. PICK p \in {"failed", "connecting", "starting"} : Goto(c, p)
    BY <1>2 DEF SetupBegins
  <2> QED
    BY <1>2, <2>1, <2>2 DEF SetupBegins
<1>3. CASE DevnodeStarts(c)
  <2>1. CASE node = "nobody"
    <3>1. session \subseteq lost
      BY <2>1
    <3> QED
      BY <1>3, <2>1, <3>1, ContextAssumption DEF DevnodeStarts, ContextAssumption
  <2>2. CASE node # "nobody"
    <3>1. node # c
      BY <1>3 DEF DevnodeStarts, Owned, Deploying
    <3> QED
      BY <1>3, <2>2, <3>1 DEF DevnodeStarts
  <2> QED
    BY <2>1, <2>2
<1>4. CASE StartFails(c)
  BY <1>4 DEF StartFails
<1>5. CASE ConnectReturns(c)
  BY <1>5 DEF ConnectReturns
<1>6. CASE ConnectFails(c)
  BY <1>6 DEF ConnectFails
<1>7. CASE CleanupAfterSetupFailure(c)
  BY <1>7, ContextAssumption DEF CleanupAfterSetupFailure, StopDevnode, ContextAssumption
<1> QED
  BY <1>1, <1>2, <1>3, <1>4, <1>5, <1>6, <1>7 DEF SetupStep

LEMMA UseKeepsSession ==
  ASSUME SessionInv, NEW c \in Callers, UseStep(c)
  PROVE  SessionMatchesChain' /\ Undisturbed'
<1> USE DEF SessionInv, ContextInv, ContextTypeOK, SessionMatchesChain, Undisturbed, Stopping, Goto
<1>1. CASE \E p \in Programs : Deploy(c, p)
  BY <1>1 DEF Deploy
<1>2. CASE DeployConfirmed(c)
  <2>1. \A d \in Callers : pc[d] \notin Stopping \cup {"connecting", "cleanup"}
    BY <1>2 DEF DeployConfirmed, Exclusive, Deploying, AtRest
  <2> QED
    BY <1>2, <2>1 DEF DeployConfirmed
<1>3. CASE DeployFails(c)
  BY <1>3 DEF DeployFails
<1>4. CASE DeployReturns(c)
  BY <1>4 DEF DeployReturns
<1>5. CASE Snapshot(c)
  BY <1>5 DEF Snapshot
<1>6. CASE RestoreStops(c)
  <2>1. \A d \in Callers : pc'[d] \notin Stopping \cup {"connecting", "cleanup"}
    BY <1>6 DEF RestoreStops, Quiet, AtRest
  <2> QED
    BY <1>6, <2>1 DEF RestoreStops
<1>7. CASE Teardown(c)
  BY <1>7 DEF Teardown
<1>8. CASE \E ok \in BOOLEAN : DisconnectAll(c, ok)
  BY <1>8 DEF DisconnectAll
<1>9. CASE TeardownEnds(c)
  BY <1>9, ContextAssumption DEF TeardownEnds, StopDevnode, ContextAssumption
<1>10. CASE RestoreReturns(c)
  <2>1. session' = {} /\ node' # "nobody"
    BY <1>10, ContextAssumption DEF RestoreReturns, ContextAssumption
  <2> QED
    BY <1>10, <2>1 DEF RestoreReturns
<1>11. CASE RestoreThrows(c)
  BY <1>11 DEF RestoreThrows
<1> QED
  BY <1>1, <1>2, <1>3, <1>4, <1>5, <1>6, <1>7, <1>8, <1>9, <1>10, <1>11 DEF UseStep

LEMMA SessionInitial ==
  ASSUME ContextInit
  PROVE  SessionInv
<1>1. ContextInv
  BY ContextInitial
<1>2. Exclusive /\ Undisturbed /\ SessionMatchesChain
  BY DEF ContextInit, Exclusive, Undisturbed, SessionMatchesChain, Deploying, Stopping
<1> QED
  BY <1>1, <1>2 DEF SessionInv

LEMMA SessionStepsKeep ==
  ASSUME SessionInv, [TaskNext]_allVars
  PROVE  SessionInv'
<1>1. ContextInv'
  BY ContextStepsKeep DEF SessionInv
<1>2. CASE UNCHANGED contextVars
  BY <1>1, <1>2 DEF SessionInv, contextVars, Exclusive, Undisturbed, SessionMatchesChain
<1>3. CASE \E c \in Callers : SetupStep(c) \/ UseStep(c)
  BY <1>1, <1>3, ExclusiveKept, SetupKeepsSession, UseKeepsSession
     DEF SessionInv, ContextInv
<1>4. CASE \E built \in BOOLEAN : BuildLre(built)
  <2>1. UNCHANGED <<node, ledger, session, lost>>
    BY <1>4 DEF BuildLre
  <2>2. PICK label \in {"begin", "failed"} :
          pc' = [c \in Callers |-> IF pc[c] # "lre" THEN pc[c] ELSE label]
    BY <1>4, BuildLreMoves
  <2>3. Exclusive'
    BY <2>2 DEF SessionInv, Exclusive, Deploying, AtRest
  <2>4. Undisturbed' /\ SessionMatchesChain'
    BY <2>1, <2>2 DEF SessionInv, Undisturbed, SessionMatchesChain, Stopping
  <2> QED
    BY <1>1, <2>3, <2>4 DEF SessionInv
<1>5. CASE Next
  <2>1. CASE \E c \in Callers : ContextStep(c) \/ Setup(c) \/ Snapshot(c) \/ RestoreStops(c)
                                 \/ Teardown(c) \/ \E p \in Programs : Deploy(c, p)
    BY <1>3, <2>1 DEF ContextStep, SetupStep, UseStep
  <2>2. CASE \E t \in Tests : LoadFixture(t)
    BY <1>2, <2>2 DEF LoadFixture
  <2>3. CASE \E k \in DOMAIN entry, o \in {"settled", "undefined"} : FixtureSettles(k, o)
    BY <1>2, <2>3 DEF FixtureSettles
  <2> QED
    BY <1>2, <1>4, <1>5, <2>1, <2>2, <2>3 DEF Next
<1>6. CASE \E ok \in BOOLEAN : Compile(ok) \/ SuiteSetup(ok) \/ Tests_(ok) \/ SuiteTeardown(ok)
  BY <1>2, <1>6 DEF Compile, SuiteSetup, Tests_, SuiteTeardown, vars
<1>7. CASE UNCHANGED allVars
  BY <1>2, <1>7 DEF allVars, vars
<1> QED
  BY <1>5, <1>6, <1>7 DEF TaskNext

(* ctx.deploy() answers from the session only what is on the chain of the  *)
(* devnode the contexts talk to, or what a restore() that has not returned *)
(* left there: no record survives a teardown(), or a restore() that rolled *)
(* its ledger back and returned, for any number of contexts and programs.  *)
THEOREM TestSessionMatchesChain ==
  TaskSpec => []SessionMatchesChain
<1>1. TaskInit => SessionInv
  BY SessionInitial DEF TaskInit
<1>2. SessionInv /\ [TaskNext]_allVars => SessionInv'
  BY SessionStepsKeep
<1>3. SessionInv => SessionMatchesChain
  BY DEF SessionInv
<1> QED
  BY <1>1, <1>2, <1>3, PTL DEF TaskSpec

-----------------------------------------------------------------------------
(* The fixture cache holds the last call; of the calls before it since the *)
(* last teardown(), each came to undefined.                                *)
FixtureInv ==
  /\ entry \in [1 .. MaxFixtureRuns -> {"unused", "pending", "settled", "undefined"}]
  /\ since \subseteq 1 .. MaxFixtureRuns
  /\ IF cached = 0 THEN since = {} ELSE cached \in since
  /\ \A k \in since : entry[k] # "unused" /\ (k # cached => entry[k] = "undefined")

LEMMA FixtureStepsKeep ==
  ASSUME FixtureInv, [TaskNext]_allVars
  PROVE  FixtureInv'
<1> USE ContextAssumption DEF FixtureInv, ContextAssumption
<1>1. CASE UNCHANGED <<entry, cached, since>>
  BY <1>1
<1>2. CASE \E t \in Tests : LoadFixture(t)
  <2>1. PICK t \in Tests : LoadFixture(t)
    BY <1>2
  <2>2. CASE CallFixture(t) /\ Cached \in {"none", "undefined"}
    BY <2>2 DEF CallFixture, Cached
  <2> QED
    BY <1>1, <2>1, <2>2 DEF LoadFixture, fixtureVars
<1>3. CASE \E k \in DOMAIN entry, o \in {"settled", "undefined"} : FixtureSettles(k, o)
  BY <1>3 DEF FixtureSettles
<1>4. CASE \E c \in Callers : Teardown(c)
  BY <1>4 DEF Teardown
<1>5. CASE Next
  <2>1. CASE \E c \in Callers : ContextStep(c)
    BY <1>1, <2>1 DEF ContextStep, SetupBegins, DevnodeStarts, StartFails, ConnectReturns,
       ConnectFails, CleanupAfterSetupFailure, DeployConfirmed, DeployFails, DeployReturns,
       TeardownEnds, DisconnectAll, RestoreReturns, RestoreThrows, fixtureVars
  <2>2. CASE \E c \in Callers : Setup(c) \/ Snapshot(c) \/ RestoreStops(c) \/ \E p \in Programs : Deploy(c, p)
    BY <1>1, <2>2 DEF Setup, Snapshot, RestoreStops, Deploy, fixtureVars
  <2>3. CASE \E built \in BOOLEAN : BuildLre(built)
    BY <1>1, <2>3 DEF BuildLre, fixtureVars
  <2>4. CASE UNCHANGED fixtureVars
    BY <1>1, <2>4 DEF fixtureVars
  <2> QED
    BY <1>2, <1>3, <1>4, <1>5, <2>1, <2>2, <2>3, <2>4 DEF Next
<1>6. CASE \E ok \in BOOLEAN : Compile(ok) \/ SuiteSetup(ok) \/ Tests_(ok) \/ SuiteTeardown(ok)
  BY <1>1, <1>6 DEF Compile, SuiteSetup, Tests_, SuiteTeardown, vars, fixtureVars
<1>7. CASE UNCHANGED allVars
  BY <1>1, <1>7 DEF allVars, vars, fixtureVars
<1> QED
  BY <1>5, <1>6, <1>7 DEF TaskNext

(* However many tests load the fixture at once, its function is called     *)
(* once between two teardowns, unless it returned undefined.               *)
THEOREM TestFixtureOnce ==
  TaskSpec => []FixtureOnce
<1>1. TaskInit => FixtureInv
  BY ContextAssumption DEF TaskInit, ContextInit, FixtureInv, ContextAssumption
<1>2. FixtureInv /\ [TaskNext]_allVars => FixtureInv'
  BY FixtureStepsKeep
<1>3. FixtureInv => FixtureOnce
  BY DEF FixtureInv, FixtureOnce
<1> QED
  BY <1>1, <1>2, <1>3, PTL DEF TaskSpec

-----------------------------------------------------------------------------
(* What holds of the hooks of one category holds in the worker.            *)
LEMMA TaskImplementsHooks ==
  TaskSpec => HookSpec
<1>1. TaskInit => HookInit
  BY DEF TaskInit, ContextInit
<1>2. [TaskNext]_allVars => [HookNext]_hookVars
  <2> SUFFICES ASSUME [TaskNext]_allVars
               PROVE  [HookNext]_hookVars
    OBVIOUS
  <2>1. CASE UNCHANGED hookVars
    BY <2>1
  <2>2. CASE \E c \in Callers : ContextStep(c)
    <3>1. PICK c \in Callers : ContextStep(c)
      BY <2>2
    <3>2. CASE DeployConfirmed(c)
      BY <3>2 DEF DeployConfirmed, HookNext
    <3>3. CASE DeployReturns(c)
      BY <3>3 DEF DeployReturns, HookNext
    <3> QED
      BY <2>1, <3>1, <3>2, <3>3 DEF ContextStep, SetupBegins, DevnodeStarts, StartFails,
         ConnectReturns, ConnectFails, CleanupAfterSetupFailure, DeployFails, TeardownEnds,
         DisconnectAll, RestoreReturns, RestoreThrows
  <2>3. CASE HookStep
    BY <2>3 DEF HookStep, HookNext
  <2>4. CASE Next
    <3>1. CASE \E c \in Callers : Setup(c) \/ Snapshot(c) \/ RestoreStops(c) \/ Teardown(c)
                                   \/ \E p \in Programs : Deploy(c, p)
      BY <2>1, <3>1 DEF Setup, Snapshot, RestoreStops, Teardown, Deploy
    <3>2. CASE \E built \in BOOLEAN : BuildLre(built)
      BY <2>1, <3>2 DEF BuildLre
    <3>3. CASE \E t \in Tests : LoadFixture(t)
      BY <2>1, <3>3 DEF LoadFixture
    <3>4. CASE \E k \in DOMAIN entry, o \in {"settled", "undefined"} : FixtureSettles(k, o)
      BY <2>1, <3>4 DEF FixtureSettles
    <3> QED
      BY <2>2, <2>3, <2>4, <3>1, <3>2, <3>3, <3>4 DEF Next
  <2>5. CASE \E ok \in BOOLEAN : Compile(ok) \/ SuiteSetup(ok) \/ Tests_(ok) \/ SuiteTeardown(ok)
    BY <2>1, <2>5 DEF Compile, SuiteSetup, Tests_, SuiteTeardown, vars
  <2>6. CASE UNCHANGED allVars
    BY <2>1, <2>6 DEF allVars, vars
  <2> QED
    BY <2>4, <2>5, <2>6 DEF TaskNext
<1> QED
  BY <1>1, <1>2, PTL DEF TaskSpec, HookSpec

(* A deployment of a test that returns has dispatched programDeployed to   *)
(* every handler, in plugin order, and the category is one single-flight   *)
(* value for all contexts of the worker.                                   *)
THEOREM TestHooks ==
  TaskSpec => []EveryHandlerRan /\ CategoryShared
BY TaskImplementsHooks, HookEveryHandlerRan, HookCategoryShared, PTL

-----------------------------------------------------------------------------
(* The end of the test task comes after a failed compile or after the      *)
(* suiteTeardown hooks; it throws if and only if something failed, and the *)
(* process has the LIONDEN_MANAGED_TEST it started with.                   *)
THEOREM TestSuiteHooksPaired ==
  TaskSpec => SuiteHooksPaired
<1>1. [TaskNext]_allVars =>
        (phase' = "ended" /\ phase # "ended" =>
          /\ phase \in {"compile", "suiteTeardown"}
          /\ managedTest' = "outer"
          /\ (thrown' = "nothing") = (phase = "suiteTeardown" /\ ~primaryError /\ ~teardownError'))
  <2> SUFFICES ASSUME [TaskNext]_allVars, phase' = "ended", phase # "ended"
               PROVE  /\ phase \in {"compile", "suiteTeardown"}
                      /\ managedTest' = "outer"
                      /\ (thrown' = "nothing") = (phase = "suiteTeardown" /\ ~primaryError /\ ~teardownError')
    OBVIOUS
  <2>1. PICK ok \in BOOLEAN : Compile(ok) \/ SuiteTeardown(ok)
    BY DEF TaskNext, SuiteSetup, Tests_, allVars, taskVars
  <2>2. CASE Compile(ok)
    BY <2>2 DEF Compile, Leaves
  <2>3. CASE SuiteTeardown(ok) /\ ok
    BY <2>3 DEF SuiteTeardown, Leaves
  <2>4. CASE SuiteTeardown(ok) /\ ~ok
    BY <2>4 DEF SuiteTeardown, Leaves
  <2> QED
    BY <2>1, <2>2, <2>3, <2>4
<1> QED
  BY <1>1, PTL DEF TaskSpec, SuiteHooksPaired
=============================================================================
