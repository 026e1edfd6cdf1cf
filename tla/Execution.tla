------------------------------ MODULE Execution ------------------------------
(***************************************************************************)
(* AleoConnection.execute() and checkLocalExecution(), called while other  *)
(* calls on the connection are under way, for the same signer or another.  *)
(* An SDK operation runs inside two locks: the one of the        *)
(* diagnostics sink that collects the failed state queries of its SDK      *)
(* objects (captureSdkCall), and a process-wide one around the handlers    *)
(* that catch a WASM trap (runWithLocalWasmTrapCapture).  A trap leaves    *)
(* the promise of the operation pending for ever.                          *)
(*                                                                         *)
(* A lock is a chain of promises: to queue up is to take a ticket.  What   *)
(* comes before the locks (SDK objects, sources, imports) changes nothing  *)
(* here; a call that fails there is one that is not made.                  *)
(***************************************************************************)
EXTENDS Naturals, FiniteSets

CONSTANTS
  Calls,      \* calls that are made, each at most once
  Sinks,      \* SdkDiagnostics objects, one for each set of SDK objects
  defaultSink,\* the one of the SDK objects of the connection itself
  path,       \* path[c]: the mode of the call; "check" is checkLocalExecution
  awaits,     \* awaits[c]: options.awaitConfirmation
  sink        \* sink[c]: the sink of the SDK objects it uses

Paths == {"local", "fast", "prove", "check"}

ASSUME ExecutionAssumption ==
  /\ IsFiniteSet(Calls)
  /\ defaultSink \in Sinks
  /\ path \in [Calls -> Paths] /\ sink \in [Calls -> Sinks]
  /\ awaits \in [Calls -> BOOLEAN]
  /\ \A c \in Calls : awaits[c] => path[c] \in {"fast", "prove"}

Failures == [call : Calls, request : {"stateQuery", "broadcast"}]

Phases == {"idle", "sink", "trap", "running", "caught", "broadcast",
           "confirmed", "blockHash", "blockHeight", "returned", "failed"}

VARIABLES
  pc,             \* pc[c]: how far call c is
  sinkTicket, sinkNext, sinkServing,    \* the locks of the sinks
  trapTicket, trapNext, trapServing,    \* localWasmTrapCaptureLock
  handlers,       \* the calls whose trap handlers are installed
  op,             \* op[c]: the SDK operation
  race,           \* race[c]: what settled raceLocalOperationWithTrap
  failures,       \* failures[s]: what sink s has recorded
  blamed,         \* blamed[c]: the calls whose requests c's SdkExecutionError may name
  suppressions,   \* activeConsoleSuppressionCount
  console,        \* the methods of the console
  saved,          \* originalConsoleMethods
  tx,             \* tx[c]: c's transaction on the chain
  status          \* status[c]: the verdict waitForConfirmation has read

sinkLock == <<sinkTicket, sinkNext, sinkServing>>
trapLock == <<trapTicket, trapNext, trapServing>>
consoleVars == <<suppressions, console, saved>>
vars == <<pc, sinkLock, trapLock, handlers, op, race, failures, blamed, consoleVars,
          tx, status>>

ExecutionTypeOK ==
  /\ pc \in [Calls -> Phases]
  /\ sinkTicket \in [Calls -> Nat] /\ sinkNext \in [Sinks -> Nat] /\ sinkServing \in [Sinks -> Nat]
  /\ trapTicket \in [Calls -> Nat] /\ trapNext \in Nat /\ trapServing \in Nat
  /\ handlers \in SUBSET Calls
  /\ op \in [Calls -> {"none", "pending", "settled", "trapped"}]
  /\ race \in [Calls -> {"open", "resolved", "rejected", "trap"}]
  /\ failures \in [Sinks -> SUBSET Failures] /\ blamed \in [Calls -> SUBSET Calls]
  /\ suppressions \in Nat /\ (suppressions = 0 <=> saved = "none")
  /\ console \in {"original", "filtered"} /\ saved \in {"none", "original", "filtered"}
  /\ tx \in [Calls -> {"none", "sent", "accepted", "rejected"}]
  /\ status \in [Calls -> {"none", "accepted", "rejected"}]

Init ==
  /\ pc = [c \in Calls |-> "idle"]
  /\ sinkTicket = [c \in Calls |-> 0]
  /\ sinkNext = [s \in Sinks |-> 0] /\ sinkServing = [s \in Sinks |-> 0]
  /\ trapTicket = [c \in Calls |-> 0] /\ trapNext = 0 /\ trapServing = 0
  /\ handlers = {}
  /\ op = [c \in Calls |-> "none"] /\ race = [c \in Calls |-> "open"]
  /\ failures = [s \in Sinks |-> {}] /\ blamed = [c \in Calls |-> {}]
  /\ suppressions = 0 /\ console = "original" /\ saved = "none"
  /\ tx = [c \in Calls |-> "none"] /\ status = [c \in Calls |-> "none"]

Goto(c, phase) == pc' = [pc EXCEPT ![c] = phase]

-----------------------------------------------------------------------------
(* localWasmTrapCaptureLock is replaced before the previous one is awaited *)
JoinTrapLock(c) ==
  /\ trapTicket' = [trapTicket EXCEPT ![c] = trapNext]
  /\ trapNext' = trapNext + 1
  /\ UNCHANGED trapServing

(* execute() reaches runExclusive, checkLocalExecution() the trap capture *)
ExecuteCall(c) ==
  /\ pc[c] = "idle" /\ path[c] # "check"
  /\ sinkTicket' = [sinkTicket EXCEPT ![c] = sinkNext[sink[c]]]
  /\ sinkNext' = [sinkNext EXCEPT ![sink[c]] = @ + 1]
  /\ Goto(c, "sink")
  /\ UNCHANGED <<sinkServing, trapLock, handlers, op, race, failures, blamed,
                 consoleVars, tx, status>>

CheckCall(c) ==
  /\ pc[c] = "idle" /\ path[c] = "check"
  /\ JoinTrapLock(c)
  /\ Goto(c, "trap")
  /\ UNCHANGED <<sinkLock, handlers, op, race, failures, blamed, consoleVars, tx, status>>

InstallSuppression_AlwaysSaves ==
  /\ suppressions' = suppressions + 1
  /\ saved' = console /\ console' = "filtered"

InstallSuppression ==
  /\ suppressions' = suppressions + 1
  /\ IF suppressions = 0 THEN saved' = console /\ console' = "filtered"
     ELSE UNCHANGED <<saved, console>>

UninstallSuppression ==
  IF suppressions > 1 THEN suppressions' = suppressions - 1 /\ UNCHANGED <<saved, console>>
  ELSE /\ suppressions' = 0
       /\ console' = IF saved = "none" THEN console ELSE saved
       /\ saved' = "none"

(* captureSdkCall, once the sink is free: clears it, patches the console and *)
(* calls fn, which queues up for the trap capture                            *)
CaptureBegins(c) ==
  /\ pc[c] = "sink" /\ sinkTicket[c] = sinkServing[sink[c]]
  /\ failures' = [failures EXCEPT ![sink[c]] = {}]
  /\ InstallSuppression
  /\ JoinTrapLock(c)
  /\ Goto(c, "trap")
  /\ UNCHANGED <<sinkLock, handlers, op, race, blamed, tx, status>>

RunOperation_Unlocked(c) ==
  /\ pc[c] = "trap"
  /\ handlers' = handlers \cup {c}
  /\ op' = [op EXCEPT ![c] = "pending"]
  /\ Goto(c, "running")
  /\ UNCHANGED <<sinkLock, trapLock, race, failures, blamed, consoleVars, tx, status>>

(* raceLocalOperationWithTrap installs the handlers and starts the operation *)
RunOperation(c) ==
  /\ pc[c] = "trap" /\ trapTicket[c] = trapServing
  /\ handlers' = handlers \cup {c}
  /\ op' = [op EXCEPT ![c] = "pending"]
  /\ Goto(c, "running")
  /\ UNCHANGED <<sinkLock, trapLock, race, failures, blamed, consoleVars, tx, status>>

-----------------------------------------------------------------------------
(* The SDK: a state query of the prove path fails, and the transport records *)
(* it; the operation resolves, rejects, or traps.  pm.execute also sends the *)
(* transaction, and may reject when it has been sent.                        *)
StateQueryFails(c) ==
  /\ op[c] = "pending" /\ path[c] = "prove"
  /\ failures' = [failures EXCEPT ![sink[c]] = @ \cup {[call |-> c, request |-> "stateQuery"]}]
  /\ UNCHANGED <<pc, sinkLock, trapLock, handlers, op, race, blamed, consoleVars, tx,
                 status>>

OpSettles(c) ==
  /\ op[c] = "pending"
  /\ op' = [op EXCEPT ![c] = "settled"]
  /\ \E r \in {"resolved", "rejected"} :
       /\ race' = [race EXCEPT ![c] = IF @ = "open" THEN r ELSE @]
       /\ tx' \in IF path[c] # "prove" THEN {tx}
                  ELSE {[tx EXCEPT ![c] = t] : t \in {"sent"} \cup IF r = "resolved" THEN {} ELSE {"none"}}
  /\ UNCHANGED <<pc, sinkLock, trapLock, handlers, failures, blamed, consoleVars, status>>

(* The trap surfaces as a process-wide event: every handler installed sees it *)
OpTraps(c) ==
  /\ op[c] = "pending"
  /\ op' = [op EXCEPT ![c] = "trapped"]
  /\ race' = [h \in Calls |-> IF h \in handlers /\ race[h] = "open" THEN "trap" ELSE race[h]]
  /\ UNCHANGED <<pc, sinkLock, trapLock, handlers, failures, blamed, consoleVars, tx,
                 status>>

-----------------------------------------------------------------------------
TrapCaptureEnds_KeepsLock(c) ==
  /\ pc[c] = "running" /\ race[c] # "open"
  /\ handlers' = handlers \ {c}
  /\ trapServing' = IF race[c] = "resolved" THEN trapServing + 1 ELSE trapServing
  /\ Goto(c, IF path[c] # "check" THEN "caught" ELSE IF race[c] = "resolved" THEN "returned" ELSE "failed")
  /\ UNCHANGED <<sinkLock, trapTicket, trapNext, op, race, failures, blamed, consoleVars,
                 tx, status>>

(* The race is settled: the handlers are removed and the lock is released.   *)
(* Only microtasks lie between the two, so no trap event can.                *)
TrapCaptureEnds(c) ==
  /\ pc[c] = "running" /\ race[c] # "open"
  /\ handlers' = handlers \ {c}
  /\ trapServing' = trapServing + 1
  /\ Goto(c, IF path[c] # "check" THEN "caught" ELSE IF race[c] = "resolved" THEN "returned" ELSE "failed")
  /\ UNCHANGED <<sinkLock, trapTicket, trapNext, op, race, failures, blamed, consoleVars,
                 tx, status>>

pickRelevantFailure_AnyRequest(s) == failures[s]

(* A broadcast fails outside the lock of the sink it is recorded in, and is  *)
(* never taken for the cause of an SDK failure                               *)
pickRelevantFailure(s) == {f \in failures[s] : f.request = "stateQuery"}

AfterSending(c) == IF awaits[c] THEN "confirmed" ELSE "returned"

(* Only the fast path still has to broadcast *)
AfterCapture(c) ==
  IF race[c] # "resolved" THEN "failed"
  ELSE CASE path[c] = "local" -> "returned"
         [] path[c] = "fast" -> "broadcast"
         [] OTHER -> AfterSending(c)

(* captureSdkCall: a rejection is enriched with the recorded state queries,  *)
(* a trap passes through; the console is restored and the sink released.     *)
CaptureEnds(c) ==
  /\ pc[c] = "caught"
  /\ blamed' = [blamed EXCEPT ![c] = IF race[c] # "rejected" THEN {}
                                         ELSE {f.call : f \in pickRelevantFailure(sink[c])}]
  /\ UninstallSuppression
  /\ sinkServing' = [sinkServing EXCEPT ![sink[c]] = @ + 1]
  /\ Goto(c, AfterCapture(c))
  /\ UNCHANGED <<sinkTicket, sinkNext, trapLock, handlers, op, race, failures, tx, status>>

(* broadcastTransaction, through the network client of the connection: sent, *)
(* failed with or without reaching the chain, or not tried as it is closed   *)
BroadcastTransaction(c) ==
  /\ pc[c] = "broadcast"
  /\ \/ /\ tx' = [tx EXCEPT ![c] = "sent"]
        /\ Goto(c, AfterSending(c))
        /\ UNCHANGED failures
     \/ /\ tx' \in {tx, [tx EXCEPT ![c] = "sent"]}
        /\ failures' = [failures EXCEPT ![defaultSink] = @ \cup {[call |-> c, request |-> "broadcast"]}]
        /\ Goto(c, "failed")
     \/ Goto(c, "failed") /\ UNCHANGED <<tx, failures>>
  /\ UNCHANGED <<sinkLock, trapLock, handlers, op, race, blamed, consoleVars, status>>

(* The chain includes a transaction, a rejected one as fee-only; nobody      *)
(* looks at the one of a call that does not await it                         *)
Include(c) ==
  /\ tx[c] = "sent" /\ awaits[c]
  /\ \E v \in {"accepted", "rejected"} : tx' = [tx EXCEPT ![c] = v]
  /\ UNCHANGED <<pc, sinkLock, trapLock, handlers, op, race, failures, blamed,
                 consoleVars, status>>

-----------------------------------------------------------------------------
Polling(c) == pc[c] \in {"confirmed", "blockHash", "blockHeight"}

(* getTransitionOutputs *)
AfterLookups(c) == IF status[c] = "rejected" THEN "failed" ELSE "returned"

PollAnswers_AnyVerdict(c) ==
  /\ Polling(c) /\ tx[c] \in {"accepted", "rejected"}
  /\ IF pc[c] = "confirmed" THEN status' = [status EXCEPT ![c] = tx[c]] ELSE UNCHANGED status
  /\ Goto(c, CASE pc[c] = "confirmed" -> "blockHash" [] pc[c] = "blockHash" -> "blockHeight"
               [] OTHER -> "returned")
  /\ UNCHANGED <<sinkLock, trapLock, handlers, op, race, failures, blamed, consoleVars, tx>>

(* waitForConfirmation: three lookups, each polled until it answers.  The    *)
(* verdict is read in the first and used after the last.                     *)
PollAnswers(c) ==
  /\ Polling(c) /\ tx[c] \in {"accepted", "rejected"}
  /\ IF pc[c] = "confirmed" THEN status' = [status EXCEPT ![c] = tx[c]] ELSE UNCHANGED status
  /\ Goto(c, CASE pc[c] = "confirmed" -> "blockHash"
               [] pc[c] = "blockHash" -> "blockHeight"
               [] OTHER -> AfterLookups(c))
  /\ UNCHANGED <<sinkLock, trapLock, handlers, op, race, failures, blamed, consoleVars, tx>>

(* The deadline, a body of the wrong shape, a transition that is not in the  *)
(* transaction, or a connection that has been closed                         *)
PollThrows(c) ==
  /\ Polling(c)
  /\ Goto(c, "failed")
  /\ UNCHANGED <<sinkLock, trapLock, handlers, op, race, failures, blamed, consoleVars, tx,
                 status>>

Continue(c) ==
  \/ CaptureBegins(c) \/ RunOperation(c) \/ TrapCaptureEnds(c) \/ CaptureEnds(c)
  \/ BroadcastTransaction(c)

Next ==
  \E c \in Calls :
    \/ ExecuteCall(c) \/ CheckCall(c) \/ Continue(c)
    \/ StateQueryFails(c) \/ OpSettles(c) \/ OpTraps(c)
    \/ Include(c) \/ PollAnswers(c) \/ PollThrows(c)

Spec == Init /\ [][Next]_vars

(* Continuations run, an SDK operation settles or traps, and polling ends by *)
(* its deadline.  Nothing is assumed of the chain.                           *)
LiveSpec ==
  /\ Spec
  /\ \A c \in Calls :
       /\ WF_vars(Continue(c))
       /\ WF_vars(OpSettles(c) \/ OpTraps(c))
       /\ WF_vars(PollThrows(c))

-----------------------------------------------------------------------------
(* A trap rejects the call whose operation trapped and no other, although    *)
(* its handlers see the traps of the whole process.                          *)
TrapsReachTheirCall == \A c \in Calls : race[c] = "trap" => op[c] = "trapped"

(* The SdkExecutionError of a call names state queries of that call only,    *)
(* although calls share sinks and leave what was recorded in them.           *)
BlamesOwnQueries == \A c \in Calls : blamed[c] \subseteq {c}

(* The console is patched exactly while some captured SDK call runs, and its *)
(* own methods are back afterwards, in whatever order overlapping calls end. *)
ConsoleRestored ==
  console = IF \E c \in Calls : path[c] # "check" /\ pc[c] \in {"trap", "running", "caught"}
            THEN "filtered" ELSE "original"

(* execute() with awaitConfirmation returns outputs only for a transaction   *)
(* that the chain has accepted.                                              *)
OutputsOfAccepted ==
  \A c \in Calls : awaits[c] /\ pc[c] = "returned" => tx[c] = "accepted"

(* Every call settles: no trap, rejection or lost answer leaves a lock taken *)
(* that another call waits for.                                              *)
ExecutionsSettle ==
  \A c \in Calls : pc[c] # "idle" ~> pc[c] \in {"returned", "failed"}

==============================================================================
