--------------------------- MODULE HookDispatcher ---------------------------
(***************************************************************************)
(* The hooks of one category (core/src/hook-system.ts): the entries of the *)
(* plugins in load order, some of which are factories that are called when *)
(* the category is first dispatched, and the dispatches of concurrent      *)
(* callers.  serial, waterfall and collect differ in what they do with the *)
(* results of the handlers only.                                           *)
(*                                                                         *)
(* An action is one continuation: what runs between two awaits.            *)
(***************************************************************************)
EXTENDS Naturals, Sequences, FiniteSets

CONSTANTS
  Callers,   \* code that dispatches the category
  Plugins,   \* the number of plugins with handlers in it
  Lazy       \* the plugins that register a factory

ASSUME HookAssumption ==
  /\ Plugins \in Nat
  /\ Lazy \subseteq 1 .. Plugins
  /\ "nobody" \notin Callers

VARIABLES
  handlers,    \* the entries whose handlers are there
  factory,     \* the entry whose factory is awaited, 0 when there is none
  resolved,    \* is the category in this.resolved?
  resolving,   \* the caller that made the promise in this.resolving
  hook,        \* hook[c]: where the dispatch of c is
  queue,       \* queue[c]: what its getHandlers() returned, less those that ran
  ran          \* ran[c]: the handlers that ran, in order

hookVars == <<handlers, factory, resolved, resolving, hook, queue, ran>>

Entries == 1 .. Plugins
Settled == {"done", "refused", "threw"}

(* registerPlugins(): eager entries have their handlers at once.           *)
HookInit ==
  /\ handlers = Entries \ Lazy
  /\ factory = 0 /\ resolved = FALSE /\ resolving = "nobody"
  /\ hook = [c \in Callers |-> "idle"]
  /\ queue = [c \in Callers |-> {}] /\ ran = [c \in Callers |-> <<>>]

(* Factories are called and handlers run in the order of the plugins.      *)
First(S) == CHOOSE e \in S : \A f \in S : e <= f

NextFactory(loaded) == IF Entries \subseteq loaded THEN 0 ELSE First(Entries \ loaded)

(* An entry whose factory has not returned is skipped.                     *)
getHandlers == Entries \cap handlers

(* The callers in C go on with the handlers there are.                     *)
Handle(C) ==
  /\ hook' = [c \in Callers |-> IF c \notin C THEN hook[c]
                                ELSE IF getHandlers = {} THEN "done" ELSE "calling"]
  /\ queue' = [c \in Callers |-> IF c \in C THEN getHandlers ELSE queue[c]]
  /\ ran' = [c \in Callers |-> IF c \in C THEN <<>> ELSE ran[c]]

(* A dispatch up to its first await: the category is resolved, is being    *)
(* resolved, or this caller resolves it.                                   *)
Dispatch(c) ==
  /\ hook[c] = "idle"
  /\ IF resolved THEN Handle({c}) /\ UNCHANGED <<handlers, factory, resolved, resolving>>
     ELSE /\ IF resolving # "nobody"
             THEN /\ hook' = [hook EXCEPT ![c] = "joined"]
                  /\ UNCHANGED <<resolving, factory, resolved>>
             ELSE /\ resolving' = c
                  /\ hook' = [hook EXCEPT ![c] = "resolving"]
                  /\ factory' = NextFactory(handlers)
                  /\ resolved' = (factory' = 0)
          /\ UNCHANGED <<handlers, queue, ran>>

(* A factory is awaited before the next one is called.                     *)
FactoryReturns ==
  /\ factory # 0
  /\ handlers' = handlers \cup {factory}
  /\ factory' = NextFactory(handlers')
  /\ resolved' = (factory' = 0)
  /\ UNCHANGED <<resolving, hook, queue, ran>>

Waiting == {c \in Callers : hook[c] \in {"resolving", "joined"}}

FactoryFails_Swallowed ==
  /\ factory # 0
  /\ factory' = 0 /\ resolved' = TRUE
  /\ UNCHANGED <<handlers, resolving, hook, queue, ran>>

FactoryFails_OwnerOnly ==
  /\ factory # 0
  /\ factory' = 0 /\ resolving' = "nobody"
  /\ hook' = [hook EXCEPT ![resolving] = "refused"]
  /\ UNCHANGED <<handlers, resolved, queue, ran>>

(* Its rejection is everyone's who waits; what was loaded stays.           *)
FactoryFails ==
  /\ factory # 0
  /\ factory' = 0 /\ resolving' = "nobody"
  /\ hook' = [c \in Callers |-> IF c \in Waiting THEN "refused" ELSE hook[c]]
  /\ UNCHANGED <<handlers, resolved, queue, ran>>

(* The promise of the resolution is fulfilled: everyone who waits goes on. *)
Resume ==
  /\ resolved /\ resolving # "nobody"
  /\ resolving' = "nobody"
  /\ Handle(Waiting)
  /\ UNCHANGED <<handlers, factory, resolved>>

HandlerReturns(c) ==
  /\ hook[c] = "calling"
  /\ ran' = [ran EXCEPT ![c] = Append(@, First(queue[c]))]
  /\ queue' = [queue EXCEPT ![c] = @ \ {First(@)}]
  /\ hook' = [hook EXCEPT ![c] = IF queue'[c] = {} THEN "done" ELSE @]
  /\ UNCHANGED <<handlers, factory, resolved, resolving>>

HandlerThrows(c) ==
  /\ hook[c] = "calling"
  /\ hook' = [hook EXCEPT ![c] = "threw"]
  /\ UNCHANGED <<handlers, factory, resolved, resolving, queue, ran>>

(* The promise of the dispatch has settled and its caller has gone on.      *)
Leave(c) ==
  /\ hook[c] \in Settled
  /\ hook' = [hook EXCEPT ![c] = "idle"]
  /\ queue' = [queue EXCEPT ![c] = {}] /\ ran' = [ran EXCEPT ![c] = <<>>]
  /\ UNCHANGED <<handlers, factory, resolved, resolving>>

Resolution == FactoryReturns \/ FactoryFails \/ Resume
Handler(c) == HandlerReturns(c) \/ HandlerThrows(c)

HookNext == Resolution \/ \E c \in Callers : Dispatch(c) \/ Handler(c) \/ Leave(c)

HookSpec == HookInit /\ [][HookNext]_hookVars

-----------------------------------------------------------------------------
(* A dispatch that ends without an error has run every handler that is     *)
(* registered, in plugin order, whoever resolved the category and however  *)
(* often a factory failed before.                                          *)
EveryHandlerRan ==
  \A c \in Callers : hook[c] = "done" => ran[c] = [e \in Entries |-> e]

(* The category is one single-flight value: loaded once, every attempt     *)
(* shared by the callers of the time.                                      *)
Category == INSTANCE SingleFlight WITH
  value <- resolved, attempt <- factory # 0,
  caller <- [c \in Callers |->
    CASE hook[c] \in {"resolving", "joined"} /\ ~resolved -> "waiting"
      [] hook[c] \in {"idle", "refused"} -> hook[c]
      [] OTHER -> "got"]

CategoryShared == Category!FlightSpec

=============================================================================
