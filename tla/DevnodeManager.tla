--------------------------- MODULE DevnodeManager ---------------------------
(***************************************************************************)
(* The manager that owns a devnode child process.  An action is one turn   *)
(* of the event loop or one continuation of an async method.  The child's  *)
(* exit, close and error events, the drain timer, the health check and the *)
(* callers of start, stop and restore come in any order the runtime        *)
(* allows; continuations run before the next event.                        *)
(*                                                                         *)
(* A call of start() that gets past its guard has a number c: its child,   *)
(* and the exit promise it creates, have that number too.                  *)
(***************************************************************************)
EXTENDS Naturals

CONSTANT MaxStarts    \* bound: calls of start() that get past the guard

ASSUME DevnodeAssumption == MaxStarts \in Nat

Ids == 1..MaxStarts
None == 0

VARIABLES
  child,                \* child[c]: what the OS and the runtime did with child c
  start,                \* start[c]: where call c of start() is
  race,                 \* race[c]: what settled its Promise.race first
  awaits,               \* awaits[c]: the exit promise that its stop() awaits
  stops,                \* exit promises that callers of stop() await
  resolved,             \* exit promises that were resolved
  restore,              \* where restore() is
  restoreAwaits,        \* the exit promise that its stop() awaits
  current,              \* _exitPromise and _exitResolve
  process,              \* this.process
  terminal,             \* _terminal
  exitInfo,             \* is _exitInfo set?
  exitDrainTimer,       \* _exitDrainTimer: the child whose exit armed it
  armed,                \* the drain timers that will fire
  shutdownInitiated,    \* _shutdownInitiated
  startResolved,        \* _startResolved
  diagnosticEmitted,    \* _diagnosticEmitted
  configured,           \* are _lastStartOptions, _endpoint, ... set?
  (* History: no action looks at it. *)
  mistaken,             \* was an event of another child taken for the end of the tracked one?
  overlapped            \* did someone else call start() during the latest restore()?

callVars == <<start, race, awaits, stops, resolved, restore, restoreAwaits>>
fieldVars == <<current, process, terminal, exitInfo, exitDrainTimer, armed,
               shutdownInitiated, startResolved, diagnosticEmitted, configured>>
history == <<mistaken, overlapped>>
vars == <<child, callVars, fieldVars, history>>

DevnodeTypeOK ==
  /\ child \in [Ids -> {"unborn", "alive", "broken", "dead", "exited", "forgotten", "closed"}]
  /\ start \in [Ids -> {"none", "racing", "stopping", "ok", "aborted", "failed"}]
  /\ race \in [Ids -> {"open", "health", "timeout", "exit"}]
  /\ awaits \in [Ids -> Ids \cup {None}]
  /\ stops \in SUBSET Ids /\ resolved \in SUBSET Ids
  /\ restore \in {"none", "stopping", "command"}
  /\ restoreAwaits \in Ids \cup {None} /\ exitDrainTimer \in Ids \cup {None}
  /\ current \in Ids \cup {None} /\ process \in Ids \cup {None}
  /\ terminal \in BOOLEAN /\ exitInfo \in BOOLEAN /\ shutdownInitiated \in BOOLEAN
  /\ startResolved \in BOOLEAN /\ diagnosticEmitted \in BOOLEAN /\ configured \in BOOLEAN
  /\ armed \in SUBSET Ids /\ mistaken \in BOOLEAN /\ overlapped \in BOOLEAN

Init ==
  /\ child = [c \in Ids |-> "unborn"]
  /\ start = [c \in Ids |-> "none"] /\ race = [c \in Ids |-> "open"]
  /\ awaits = [c \in Ids |-> None] /\ stops = {} /\ resolved = {}
  /\ restore = "none" /\ restoreAwaits = None
  /\ current = None /\ process = None /\ exitDrainTimer = None
  /\ terminal = FALSE /\ exitInfo = FALSE /\ shutdownInitiated = FALSE
  /\ startResolved = FALSE /\ diagnosticEmitted = FALSE /\ configured = FALSE
  /\ armed = {} /\ mistaken = FALSE /\ overlapped = FALSE

-----------------------------------------------------------------------------
(* Continuations that are ready run before the next event is taken *)
Ready ==
  \/ \E c \in Ids : start[c] = "racing" /\ race[c] # "open"
  \/ \E c \in Ids : start[c] = "stopping" /\ awaits[c] \in resolved
  \/ stops \cap resolved # {}
  \/ restore = "stopping" /\ restoreAwaits \in resolved

(* The faulty variants named X_... show that a property about X can fail *)
(* resetPerProcessState, with the new exit promise c                        *)
ResetPerProcessState(c) ==
  /\ current' = c /\ configured' = FALSE
  /\ terminal' = FALSE /\ exitInfo' = FALSE /\ exitDrainTimer' = None
  /\ armed' = armed \ {exitDrainTimer}
  /\ shutdownInitiated' = FALSE /\ startResolved' = FALSE /\ diagnosticEmitted' = FALSE

(* markTerminal, on an event of child c or its timer, when these timers are  *)
(* left: it resolves the current exit promise, whichever child called it     *)
MarkTerminal(c, timers) ==
  IF terminal
  THEN armed' = timers
       /\ UNCHANGED <<callVars, current, process, terminal, exitInfo, exitDrainTimer, shutdownInitiated,
                      startResolved, diagnosticEmitted, configured, history>>
  ELSE
  /\ terminal' = TRUE /\ exitInfo' = TRUE /\ exitDrainTimer' = None /\ process' = None
  /\ armed' = timers \ {exitDrainTimer}
  /\ resolved' = resolved \cup {current}
  /\ race' = [race EXCEPT ![current] = IF @ = "open" THEN "exit" ELSE @]
  /\ diagnosticEmitted' = (diagnosticEmitted \/ (startResolved /\ ~shutdownInitiated))
  /\ mistaken' = (mistaken \/ process \notin {None, c})
  /\ UNCHANGED <<start, awaits, stops, restore, restoreAwaits, current,
                 shutdownInitiated, startResolved, configured, overlapped>>

-----------------------------------------------------------------------------
IsNext(c) == start[c] = "none" /\ \A d \in 1..(c - 1) : start[d] # "none"

StartCall_Unguarded ==
  /\ \E c \in Ids :
       /\ IsNext(c)
       /\ ResetPerProcessState(c)
       /\ \/ /\ start' = [start EXCEPT ![c] = "failed"]
             /\ UNCHANGED <<child, process>>
          \/ \E state \in {"alive", "broken"} :
               /\ start' = [start EXCEPT ![c] = "racing"]
               /\ child' = [child EXCEPT ![c] = state]
               /\ process' = c
  /\ UNCHANGED <<race, awaits, stops, resolved, mistaken>>

(* start(): throws at once while a child is tracked.  Otherwise it resets    *)
(* the state; options it rejects (or a spawn that throws) end it there, else *)
(* the child runs, or its spawn fails and an error event follows.  The       *)
(* caller may be one that an exit promise has just woken, ahead of the       *)
(* start() whose child exited.                                               *)
StartCall ==
  /\ process = None
  /\ \E c \in Ids :
       /\ IsNext(c)
       /\ ResetPerProcessState(c)
       /\ \/ /\ start' = [start EXCEPT ![c] = "failed"]
             /\ UNCHANGED <<child, process>>
          \/ \E state \in {"alive", "broken"} :
               /\ start' = [start EXCEPT ![c] = "racing"]
               /\ child' = [child EXCEPT ![c] = state]
               /\ process' = c
  /\ UNCHANGED <<race, awaits, stops, resolved, mistaken>>

Start ==
  /\ StartCall
  /\ overlapped' = (overlapped \/ restore # "none")
  /\ UNCHANGED <<restore, restoreAwaits>>

(* The effect of stop() on a tracked child, up to its await *)
StopBegins == process # None /\ shutdownInitiated' = TRUE

Stop ==
  /\ StopBegins
  /\ stops' = stops \cup {current}
  /\ UNCHANGED <<child, start, race, awaits, resolved, restore, restoreAwaits, current, process,
                 terminal, exitInfo, exitDrainTimer, armed, startResolved, diagnosticEmitted, configured,
                 history>>

(* ... and without one *)
StopIdle == process = None /\ UNCHANGED vars

StopReturns_Early(c) ==
  /\ c \in stops
  /\ stops' = stops \ {c}
  /\ UNCHANGED <<child, start, race, awaits, resolved, restore, restoreAwaits, fieldVars, history>>

StopReturns(c) ==
  /\ c \in stops \cap resolved
  /\ stops' = stops \ {c}
  /\ UNCHANGED <<child, start, race, awaits, resolved, restore, restoreAwaits, fieldVars, history>>

-----------------------------------------------------------------------------
(* The race of start() was decided by the health check or by the exit *)
StartContinues_Trusting(c) ==
  /\ start[c] = "racing" /\ race[c] \in {"health", "exit"}
  /\ start' = [start EXCEPT ![c] = "ok"]
  /\ startResolved' = TRUE /\ configured' = TRUE
  /\ UNCHANGED <<child, race, awaits, stops, resolved, restore, restoreAwaits, current, process,
                 terminal, exitInfo, exitDrainTimer, armed, shutdownInitiated, diagnosticEmitted, history>>

StartContinues(c) ==
  /\ start[c] = "racing" /\ race[c] \in {"health", "exit"}
  /\ start' = [start EXCEPT ![c] = CASE ~exitInfo -> "ok"
                                     [] exitInfo /\ shutdownInitiated -> "aborted"
                                     [] OTHER -> "failed"]
  /\ startResolved' = (startResolved \/ ~exitInfo)
  /\ configured' = (configured \/ ~exitInfo)
  /\ UNCHANGED <<child, race, awaits, stops, resolved, restore, restoreAwaits, current, process,
                 terminal, exitInfo, exitDrainTimer, armed, shutdownInitiated, diagnosticEmitted, history>>

(* ... or the health check timed out: stop(), then throw *)
StartTimesOut(c) ==
  /\ start[c] = "racing" /\ race[c] = "timeout"
  /\ IF process = None
     THEN /\ start' = [start EXCEPT ![c] = "failed"]
          /\ UNCHANGED <<awaits, shutdownInitiated>>
     ELSE /\ StopBegins
          /\ start' = [start EXCEPT ![c] = "stopping"]
          /\ awaits' = [awaits EXCEPT ![c] = current]
  /\ UNCHANGED <<child, race, stops, resolved, restore, restoreAwaits, current, process, terminal,
                 exitInfo, exitDrainTimer, armed, startResolved, diagnosticEmitted, configured, history>>

StartThrows(c) ==
  /\ start[c] = "stopping" /\ awaits[c] \in resolved
  /\ start' = [start EXCEPT ![c] = "failed"]
  /\ UNCHANGED <<child, race, awaits, stops, resolved, restore, restoreAwaits, fieldVars, history>>

-----------------------------------------------------------------------------
(* restore(): stop, run the restore command, start again.  A caller uses    *)
(* one restore at a time.                                                   *)
Restore ==
  /\ restore = "none" /\ configured
  /\ IF process = None
     THEN /\ restore' = "command"
          /\ UNCHANGED <<restoreAwaits, shutdownInitiated>>
     ELSE /\ StopBegins
          /\ restore' = "stopping" /\ restoreAwaits' = current
  /\ overlapped' = FALSE
  /\ UNCHANGED <<child, start, race, awaits, stops, resolved, current, process, terminal, exitInfo,
                 exitDrainTimer, armed, startResolved, diagnosticEmitted, configured, mistaken>>

RestoreStopped_Early ==
  /\ restore = "stopping"
  /\ restore' = "command"
  /\ UNCHANGED <<child, start, race, awaits, stops, resolved, restoreAwaits, fieldVars, history>>

RestoreStopped ==
  /\ restore = "stopping" /\ restoreAwaits \in resolved
  /\ restore' = "command"
  /\ UNCHANGED <<child, start, race, awaits, stops, resolved, restoreAwaits, fieldVars, history>>

(* The command ends: restore() throws, or goes on with start(), which       *)
(* throws when someone else has started a child                             *)
RestoreCommandFails ==
  /\ restore = "command" /\ ~Ready
  /\ restore' = "none" /\ restoreAwaits' = None
  /\ UNCHANGED <<child, start, race, awaits, stops, resolved, fieldVars, history>>

RestoreCommandExits ==
  /\ restore = "command" /\ ~Ready
  /\ restore' = "none" /\ restoreAwaits' = None
  /\ UNCHANGED overlapped
  /\ \/ StartCall
     \/ process # None /\ UNCHANGED <<child, start, race, awaits, stops, resolved, fieldVars, mistaken>>

-----------------------------------------------------------------------------
(* The child dies, of itself or of a signal *)
ChildDies(c) ==
  /\ child[c] = "alive"
  /\ child' = [child EXCEPT ![c] = "dead"]
  /\ UNCHANGED <<callVars, fieldVars, history>>

ExitEvent_Unbounded(c) ==
  /\ child[c] = "dead" /\ ~Ready
  /\ child' = [child EXCEPT ![c] = "exited"]
  /\ exitInfo' = TRUE
  /\ UNCHANGED <<callVars, current, process, terminal, exitDrainTimer, armed, shutdownInitiated,
                 startResolved, diagnosticEmitted, configured, history>>

ExitEvent(c) ==
  /\ child[c] = "dead" /\ ~Ready
  /\ child' = [child EXCEPT ![c] = "exited"]
  /\ exitInfo' = TRUE /\ exitDrainTimer' = c /\ armed' = armed \cup {c}
  /\ UNCHANGED <<callVars, current, process, terminal, shutdownInitiated, startResolved,
                 diagnosticEmitted, configured, history>>

(* A grandchild holds a pipe of the child open: the timer ends the wait *)
DrainFires(c) ==
  /\ c \in armed /\ ~Ready
  /\ child' = [child EXCEPT ![c] = IF @ = "exited" THEN "forgotten" ELSE @]
  /\ MarkTerminal(c, armed \ {c})

(* The spawn failed: there is no exit event *)
ErrorEvent(c) ==
  /\ child[c] = "broken" /\ ~Ready
  /\ child' = [child EXCEPT ![c] = "forgotten"]
  /\ MarkTerminal(c, armed)

(* The pipes are closed, maybe long after the manager gave up on the child *)
CloseEvent(c) ==
  /\ child[c] \in {"exited", "forgotten"} /\ ~Ready
  /\ child' = [child EXCEPT ![c] = "closed"]
  /\ MarkTerminal(c, armed)

(* waitForHealthy: whoever listens at the endpoint may have answered, this  *)
(* child, another one or a node of somebody else                            *)
HealthOk(c) ==
  /\ start[c] = "racing" /\ race[c] = "open" /\ ~Ready
  /\ race' = [race EXCEPT ![c] = "health"]
  /\ UNCHANGED <<child, start, awaits, stops, resolved, restore, restoreAwaits, fieldVars, history>>

HealthTimeout(c) ==
  /\ start[c] = "racing" /\ race[c] = "open" /\ ~Ready
  /\ race' = [race EXCEPT ![c] = "timeout"]
  /\ UNCHANGED <<child, start, awaits, stops, resolved, restore, restoreAwaits, fieldVars, history>>

-----------------------------------------------------------------------------
Continue(c) == StopReturns(c) \/ StartContinues(c) \/ StartTimesOut(c) \/ StartThrows(c)
Event(c) == ExitEvent(c) \/ ErrorEvent(c)

Next ==
  \/ Start \/ Stop \/ StopIdle \/ Restore
  \/ RestoreStopped \/ RestoreCommandFails \/ RestoreCommandExits
  \/ \E c \in Ids : Continue(c) \/ Event(c) \/ DrainFires(c) \/ CloseEvent(c) \/ ChildDies(c)
                      \/ HealthOk(c) \/ HealthTimeout(c)

Spec == Init /\ [][Next]_vars

(* Continuations run and events are delivered.  A child that was told to    *)
(* stop dies (SIGKILL after SHUTDOWN_TIMEOUT_MS).  The health check settles *)
(* within HEALTH_CHECK_TIMEOUT_MS, the drain timers fire.  No child is sure *)
(* to close: who knows what else holds its pipes.                           *)
LiveSpec ==
  /\ Spec
  /\ WF_vars(RestoreStopped \/ \E c \in Ids : Continue(c))
  /\ \A c \in Ids :
       /\ WF_vars(Event(c))
       /\ WF_vars(shutdownInitiated /\ process = c /\ ChildDies(c))
       /\ WF_vars(HealthOk(c) \/ HealthTimeout(c))
       /\ WF_vars(DrainFires(c))

-----------------------------------------------------------------------------
(* A child that runs is the one that isRunning(), stop() and the guard of    *)
(* start() know of: no devnode is left behind, and there is never a second   *)
(* one on the same port.  One thing breaks it: markTerminal() does not ask   *)
(* whose event it serves, so the close event of a child the manager had      *)
(* given up on (its drain timer fired, its spawn failed) makes it forget a   *)
(* child that was started since.                                             *)
TrackedWhileAlive == ~mistaken => \A c \in Ids : child[c] = "alive" => process = c

(* stop() returns after the child it was called for has died, although it    *)
(* awaits a promise that any child's events may resolve (until one is        *)
(* resolved by an event that was taken for the tracked child's).             *)
StopMeansStopped ==
  [][ ~mistaken => \A c \in stops \ stops' : child[c] # "alive" ]_vars

(* A start() that was not overtaken by another reports success only when the *)
(* health check answered and its own child is still the tracked one,         *)
(* whatever event of whichever child came in between.                        *)
StartReturnsOwnChild ==
  [][ \A c \in Ids : start[c] = "racing" /\ start'[c] = "ok" /\ current = c =>
        race[c] = "health" /\ process = c ]_vars

(* restore() is an offline operation: no devnode runs on the storage         *)
(* directory while aleo-devnode restore rewrites it, unless someone else     *)
(* called start() since restore() began.                                     *)
RestoreOffline ==
  ~mistaken /\ ~overlapped /\ restore = "command" => \A c \in Ids : child[c] # "alive"

(* Every stop() returns and every start() settles, whatever dies when, and   *)
(* even when a grandchild keeps a pipe of the devnode open for ever.         *)
CallsSettle ==
  \A c \in Ids :
    /\ c \in stops ~> c \notin stops
    /\ start[c] \in {"racing", "stopping"} ~> start[c] \in {"ok", "aborted", "failed"}

=============================================================================
