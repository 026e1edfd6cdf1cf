---------------------------- MODULE DevnodeProofs ---------------------------
(***************************************************************************)
(* Proofs about the devnode manager, for any number of start/stop cycles.  *)
(***************************************************************************)
EXTENDS DevnodeManager, TLAPS

(* The child has events to come that the manager waits for *)
Live(c) == child[c] \in {"alive", "broken", "dead", "exited"}

(* Whatever was mistaken: a child, and the exit promise in hand, are of a      *)
(* call of start(), and a drain timer is of a child that exited                *)
Known ==
  /\ \A c \in Ids : start[c] = "none" => current # c
  /\ current = None => process = None /\ \A c \in Ids : child[c] = "unborn"
  /\ \A c \in Ids : start[c] = "none" => child[c] = "unborn"
  /\ \A c \in armed : child[c] \in {"exited", "forgotten", "closed"}

(* The inductive invariant: the manager tracks the one child that has        *)
(* events to come, the exit promise in hand is that child's and is not       *)
(* resolved, and a resolved promise belongs to a child without events        *)
Tracking ==
  /\ \A c \in Ids : Live(c) => process = c
  /\ process # None => process = current /\ current \notin resolved /\ ~terminal
  /\ \A c \in resolved : ~Live(c)
  /\ \A c \in Ids : start[c] = "none" => c \notin resolved /\ c # process

(* ... while restore() works, nobody else starts a child *)
Restoring ==
  ~overlapped =>
    /\ restore = "stopping" => restoreAwaits = current
    /\ restore = "command" => process = None

DevnodeInv == DevnodeTypeOK /\ Known /\ (~mistaken => Tracking /\ Restoring)

-----------------------------------------------------------------------------
(* The fields of a new manager satisfy the invariant *)
LEMMA DevnodeInit == Init => DevnodeInv
  <1> SUFFICES ASSUME Init PROVE DevnodeInv
    OBVIOUS
  <1>1. DevnodeTypeOK
    BY DEF Init, DevnodeTypeOK
  <1>2. Tracking /\ Known
    BY DEF Init, Tracking, Known, Live, Ids, None
  <1>3. Restoring
    BY DEF Init, Restoring
  <1> QED BY <1>1, <1>2, <1>3 DEF DevnodeInv

(* start(), called by anyone *)
LEMMA StartCallInv ==
  ASSUME DevnodeTypeOK, Known, StartCall, overlapped' \in BOOLEAN,
         restore' \in {"none", "stopping", "command"}, restoreAwaits' \in Ids \cup {None}
  PROVE  DevnodeTypeOK' /\ Known' /\ (Tracking => Tracking') /\ mistaken' = mistaken
  <1>1. PICK c \in Ids :
          /\ IsNext(c) /\ ResetPerProcessState(c)
          /\ \/ start' = [start EXCEPT ![c] = "failed"] /\ UNCHANGED <<child, process>>
             \/ \E state \in {"alive", "broken"} :
                  /\ start' = [start EXCEPT ![c] = "racing"]
                  /\ child' = [child EXCEPT ![c] = state]
                  /\ process' = c
    BY DEF StartCall
  <1>2. process = None /\ UNCHANGED <<race, awaits, stops, resolved, mistaken>> /\ None \notin Ids
    BY DEF StartCall, Ids, None
  <1>3. start[c] = "none" /\ current' = c /\ ~terminal'
    BY <1>1 DEF IsNext, ResetPerProcessState
  <1>4. DevnodeTypeOK'
    <2>1. start' \in [Ids -> {"none", "racing", "stopping", "ok", "aborted", "failed"}]
      BY <1>1 DEF DevnodeTypeOK
    <2>2. /\ child' \in [Ids -> {"unborn", "alive", "broken", "dead", "exited", "forgotten", "closed"}]
          /\ process' \in Ids \cup {None}
      BY <1>1, <1>2 DEF DevnodeTypeOK
    <2>3. /\ current' = c /\ exitDrainTimer' = None /\ armed' \in SUBSET armed
          /\ {configured', terminal', exitInfo', shutdownInitiated', startResolved', diagnosticEmitted'}
               \subseteq {FALSE}
      BY <1>1 DEF ResetPerProcessState
    <2> QED BY <1>2, <2>1, <2>2, <2>3 DEF DevnodeTypeOK
  <1>5. Known'
    <2>1. \A d \in Ids : start'[d] = "none" => start[d] = "none" /\ d # c /\ child'[d] = child[d]
      BY <1>1 DEF DevnodeTypeOK
    <2>2. armed \subseteq Ids /\ \A d \in armed : child'[d] = child[d]
      BY <1>1, <1>3 DEF Known, DevnodeTypeOK
    <2>3. armed' \in SUBSET armed
      BY <1>1 DEF ResetPerProcessState
    <2>4. \A d \in Ids : start[d] = "none" => child[d] = "unborn"
      BY DEF Known
    <2>5. \A d \in armed' : child'[d] \in {"exited", "forgotten", "closed"}
      BY <2>2, <2>3 DEF Known
    <2> QED BY <1>2, <1>3, <2>1, <2>4, <2>5 DEF Known
  <1>6. ASSUME Tracking
        PROVE  Tracking'
    <2>1. c \notin resolved /\ \A d \in Ids : ~Live(d)
      BY <1>2, <1>3, <1>6 DEF Tracking
    <2>2. CASE start' = [start EXCEPT ![c] = "failed"] /\ UNCHANGED <<child, process>>
      BY <1>2, <1>3, <1>6, <2>1, <2>2 DEF Tracking, Live, DevnodeTypeOK
    <2>3. ASSUME NEW state \in {"alive", "broken"}, start' = [start EXCEPT ![c] = "racing"],
                 child' = [child EXCEPT ![c] = state], process' = c
          PROVE  Tracking'
      <3>1. \A d \in Ids : d # c => child'[d] = child[d] /\ start'[d] = start[d]
        BY <2>3 DEF DevnodeTypeOK
      <3>2. start'[c] = "racing"
        BY <2>3 DEF DevnodeTypeOK
      <3> QED BY <1>2, <1>3, <1>6, <2>1, <2>3, <3>1, <3>2 DEF Tracking, Live, DevnodeTypeOK
    <2> QED BY <1>1, <2>2, <2>3
  <1> QED BY <1>2, <1>4, <1>6, <1>5

(* markTerminal, called by an event of a child or by its drain timer *)
LEMMA MarkTerminalInv ==
  ASSUME DevnodeInv, NEW c \in Ids, NEW timers \in SUBSET armed, MarkTerminal(c, timers),
         child[c] \in {"broken", "exited", "forgotten", "closed"},
         NEW state \in {"forgotten", "closed"}, child' = [child EXCEPT ![c] = state]
  PROVE  DevnodeInv'
  <1>1. DevnodeTypeOK /\ Known /\ current \in Ids
    BY DEF DevnodeInv, Known, DevnodeTypeOK
  <1>2. /\ child'[c] = state /\ \A d \in Ids : d # c => child'[d] = child[d]
        /\ child' \in [Ids -> {"unborn", "alive", "broken", "dead", "exited", "forgotten", "closed"}]
    BY <1>1 DEF DevnodeTypeOK
  <1>3. DevnodeTypeOK'
    <2>1. CASE terminal
      BY <1>1, <1>2, <2>1 DEF MarkTerminal, callVars, history, DevnodeTypeOK
    <2>2. CASE ~terminal
      BY <1>1, <1>2, <2>2 DEF MarkTerminal, DevnodeTypeOK
    <2> QED BY <2>1, <2>2
  <1>4. UNCHANGED <<start, current, restore, restoreAwaits, overlapped>> /\ armed' \in SUBSET armed
    BY DEF MarkTerminal, callVars, history
  <1>5. Known'
    BY <1>1, <1>2, <1>4 DEF Known, DevnodeTypeOK
  <1>6. ASSUME ~mistaken'
        PROVE  Tracking' /\ Restoring'
    <2>1. CASE terminal
      <3>1. UNCHANGED <<resolved, process, terminal, mistaken>>
        BY <2>1 DEF MarkTerminal, callVars, history
      <3>2. Tracking /\ Restoring
        BY <1>6, <3>1 DEF DevnodeInv
      <3>3. \A d \in Ids : (Live(d))' => Live(d)
        BY <1>2 DEF Live
      <3> QED BY <1>1, <1>4, <3>1, <3>2, <3>3 DEF Tracking, Restoring, DevnodeTypeOK
    <2>2. CASE ~terminal
      <3>1. /\ process' = None /\ terminal' /\ resolved' = resolved \cup {current}
            /\ ~mistaken /\ process \in {None, c}
        BY <1>6, <2>2 DEF MarkTerminal
      <3>2. Tracking /\ Restoring
        BY <3>1 DEF DevnodeInv
      <3>3. \A d \in Ids : ~(Live(d))'
        BY <1>2, <3>1, <3>2 DEF Tracking, Live, Ids, None
      <3>4. \A d \in Ids : start'[d] = "none" => d \notin resolved' /\ d # process'
        BY <1>1, <1>4, <3>1, <3>2 DEF Tracking, Known, Ids, None
      <3> QED BY <1>1, <1>4, <3>1, <3>2, <3>3, <3>4 DEF Tracking, Restoring, DevnodeTypeOK
    <2> QED BY <2>1, <2>2
  <1> QED BY <1>3, <1>5, <1>6 DEF DevnodeInv

-----------------------------------------------------------------------------
(* Steps that move no child, promise or tracking field *)
LEMMA CallInv ==
  ASSUME DevnodeInv,
         UNCHANGED <<child, resolved, current, process, terminal, armed, mistaken>>,
         \A c \in Ids : start'[c] = "none" => start[c] = "none"
  PROVE  Known' /\ (~mistaken' => Tracking')
  BY DEF DevnodeInv, Known, Tracking, Live

(* Every event and every continuation preserves the invariant *)
LEMMA DevnodeStep == DevnodeInv /\ [Next]_vars => DevnodeInv'
  <1> SUFFICES ASSUME DevnodeInv, [Next]_vars PROVE DevnodeInv'
    OBVIOUS
  <1>0. DevnodeTypeOK /\ Known /\ (~mistaken => Tracking /\ Restoring)
    BY DEF DevnodeInv
  <1>1. CASE Start
    <2>1. DevnodeTypeOK' /\ Known' /\ (Tracking => Tracking') /\ mistaken' = mistaken
      BY <1>0, <1>1, StartCallInv DEF Start, DevnodeTypeOK
    <2>2. Restoring => Restoring'
      BY <1>0, <1>1 DEF Start, Restoring, DevnodeTypeOK
    <2> QED BY <1>0, <2>1, <2>2 DEF DevnodeInv
  <1>2. CASE Stop \/ StopIdle
    <2>1. CASE Stop
      <3>1. current \in Ids
        BY <1>0, <2>1 DEF Stop, StopBegins, Known, DevnodeTypeOK
      <3>2. DevnodeTypeOK'
        BY <1>0, <2>1, <3>1 DEF Stop, StopBegins, history, DevnodeTypeOK
      <3> QED BY <1>0, <2>1, <3>2, CallInv DEF Stop, history, DevnodeInv, Restoring
    <2>2. CASE StopIdle
      BY <1>0, <2>2, CallInv DEF StopIdle, vars, callVars, fieldVars, history, DevnodeInv, DevnodeTypeOK, Restoring
    <2> QED BY <1>2, <2>1, <2>2
  <1>3. CASE Restore
    <2>1. DevnodeTypeOK'
      BY <1>0, <1>3 DEF Restore, StopBegins, DevnodeTypeOK
    <2>2. Restoring'
      BY <1>3 DEF Restore, Restoring
    <2> QED BY <1>0, <1>3, <2>1, <2>2, CallInv DEF Restore, DevnodeInv
  <1>4. CASE RestoreStopped
    <2>1. DevnodeTypeOK'
      BY <1>0, <1>4 DEF RestoreStopped, fieldVars, history, DevnodeTypeOK
    <2>2. Tracking /\ Restoring => Restoring'
      BY <1>4 DEF RestoreStopped, fieldVars, history, Restoring, Tracking
    <2> QED BY <1>0, <1>4, <2>1, <2>2, CallInv DEF RestoreStopped, fieldVars, history, DevnodeInv
  <1>5. CASE RestoreCommandFails
    <2>1. DevnodeTypeOK' /\ Restoring'
      BY <1>0, <1>5 DEF RestoreCommandFails, fieldVars, history, DevnodeTypeOK, Restoring, None
    <2> QED BY <1>0, <1>5, <2>1, CallInv DEF RestoreCommandFails, fieldVars, history, DevnodeInv
  <1>6. CASE RestoreCommandExits
    <2>1. restore' = "none" /\ restoreAwaits' = None /\ overlapped' = overlapped /\ Restoring'
      BY <1>6 DEF RestoreCommandExits, Restoring
    <2>2. CASE StartCall
      <3>1. DevnodeTypeOK' /\ Known' /\ (Tracking => Tracking') /\ mistaken' = mistaken
        BY <1>0, <2>1, <2>2, StartCallInv DEF DevnodeTypeOK
      <3> QED BY <1>0, <2>1, <3>1 DEF DevnodeInv
    <2>3. CASE UNCHANGED <<child, start, race, awaits, stops, resolved, fieldVars, mistaken>>
      <3>1. DevnodeTypeOK'
        BY <1>0, <2>1, <2>3 DEF fieldVars, DevnodeTypeOK
      <3> QED BY <1>0, <2>1, <2>3, <3>1, CallInv DEF fieldVars, DevnodeInv
    <2> QED BY <1>6, <2>2, <2>3 DEF RestoreCommandExits
  <1>7. ASSUME NEW c \in Ids, DrainFires(c)
        PROVE  DevnodeInv'
    <2>1. child[c] \in {"exited", "forgotten", "closed"}
      BY <1>0, <1>7 DEF DrainFires, Known
    <2>2. PICK state \in {"forgotten", "closed"} : child' = [child EXCEPT ![c] = state]
      BY <2>1, <1>7 DEF DrainFires
    <2> QED BY <1>7, <2>1, <2>2, MarkTerminalInv DEF DrainFires
  <1>8. ASSUME NEW c \in Ids, CloseEvent(c) \/ ErrorEvent(c)
        PROVE  DevnodeInv'
    BY <1>8, MarkTerminalInv DEF CloseEvent, ErrorEvent
  <1>9. ASSUME NEW c \in Ids, ChildDies(c) \/ ExitEvent(c)
        PROVE  DevnodeInv'
    <2>1. DevnodeTypeOK'
      <3>1. CASE ChildDies(c)
        BY <1>0, <3>1 DEF ChildDies, callVars, fieldVars, history, DevnodeTypeOK
      <3>2. CASE ExitEvent(c)
        BY <1>0, <3>2 DEF ExitEvent, callVars, history, DevnodeTypeOK
      <3> QED BY <1>9, <3>1, <3>2
    <2>2. /\ child[c] \in {"alive", "dead"} /\ child'[c] \in {"dead", "exited"}
          /\ \A d \in Ids : d # c => child'[d] = child[d]
          /\ armed' = armed \/ (armed' = armed \cup {c} /\ child'[c] = "exited")
      BY <1>0, <1>9 DEF ChildDies, ExitEvent, fieldVars, DevnodeTypeOK
    <2>3. UNCHANGED <<start, resolved, restore, restoreAwaits, current, process, terminal, history>>
      BY <1>9 DEF ChildDies, ExitEvent, callVars, fieldVars
    <2>4. Known'
      BY <1>0, <2>2, <2>3 DEF Known, DevnodeTypeOK
    <2>5. Tracking /\ Restoring => Tracking' /\ Restoring'
      BY <1>0, <2>2, <2>3 DEF Tracking, Restoring, Live, DevnodeTypeOK, history
    <2> QED BY <1>0, <2>1, <2>3, <2>4, <2>5 DEF DevnodeInv, history
  <1>10. ASSUME NEW c \in Ids, Continue(c) \/ HealthOk(c) \/ HealthTimeout(c)
         PROVE  DevnodeInv'
    <2>1. UNCHANGED <<child, resolved, current, process, terminal, armed, exitDrainTimer, restore,
                      restoreAwaits, history>>
      BY <1>10 DEF Continue, StopReturns, StartContinues, StartTimesOut, StartThrows, HealthOk,
                   HealthTimeout, fieldVars
    <2>2. start' \in [Ids -> {"none", "racing", "stopping", "ok", "aborted", "failed"}]
            /\ \A d \in Ids : start'[d] = "none" => start[d] = "none"
      BY <1>0, <1>10 DEF Continue, StopReturns, StartContinues, StartTimesOut, StartThrows, HealthOk,
                   HealthTimeout, DevnodeTypeOK
    <2>3. DevnodeTypeOK'
      <3>1. CASE StopReturns(c) \/ StartThrows(c) \/ HealthOk(c) \/ HealthTimeout(c)
        BY <1>0, <2>1, <2>2, <3>1 DEF StopReturns, StartThrows, HealthOk, HealthTimeout, fieldVars,
                                history, DevnodeTypeOK
      <3>2. CASE StartContinues(c)
        <4>1. startResolved' \in BOOLEAN /\ configured' \in BOOLEAN
          BY <1>0, <3>2 DEF StartContinues, DevnodeTypeOK
        <4>2. UNCHANGED <<race, awaits, stops, exitInfo, shutdownInitiated, diagnosticEmitted>>
          BY <3>2 DEF StartContinues
        <4> QED BY <1>0, <2>1, <2>2, <4>1, <4>2 DEF history, DevnodeTypeOK
      <3>3. CASE StartTimesOut(c)
        <4>1. shutdownInitiated' \in BOOLEAN
          BY <1>0, <3>3 DEF StartTimesOut, StopBegins, DevnodeTypeOK
        <4>2. awaits' \in [Ids -> Ids \cup {None}]
          BY <1>0, <3>3 DEF StartTimesOut, DevnodeTypeOK
        <4>3. UNCHANGED <<race, stops, exitInfo, startResolved, diagnosticEmitted, configured>>
          BY <3>3 DEF StartTimesOut
        <4> QED BY <1>0, <2>1, <2>2, <4>1, <4>2, <4>3 DEF history, DevnodeTypeOK
      <3> QED BY <1>10, <3>1, <3>2, <3>3 DEF Continue
    <2>4. Restoring => Restoring'
      BY <2>1 DEF Restoring, history
    <2> QED BY <1>0, <2>1, <2>2, <2>3, <2>4, CallInv DEF DevnodeInv, history
  <1>11. CASE UNCHANGED vars
    BY <1>0, <1>11, CallInv DEF vars, callVars, fieldVars, history, DevnodeInv, DevnodeTypeOK, Restoring
  <1> QED
    BY <1>1, <1>2, <1>3, <1>4, <1>5, <1>6, <1>7, <1>8, <1>9, <1>10, <1>11 DEF Next, Event

(* The invariant holds in every reachable state *)
LEMMA DevnodeInvariant == Spec => []DevnodeInv
  BY DevnodeInit, DevnodeStep, PTL DEF Spec

(* No devnode runs that the manager does not track, for any number of        *)
(* cycles of start, stop, crash and restore, until the late event of a child *)
(* it gave up on is taken for the end of another.                            *)
THEOREM DevnodeTracked == Spec => []TrackedWhileAlive
  <1>1. DevnodeInv => TrackedWhileAlive
    BY DEF DevnodeInv, Tracking, Live, TrackedWhileAlive
  <1> QED BY <1>1, DevnodeInvariant, PTL

(* restore() runs aleo-devnode restore only while no devnode child is alive, *)
(* as long as nobody calls start() in between and no event was mistaken.     *)
THEOREM DevnodeRestoreOffline == Spec => []RestoreOffline
  <1>1. DevnodeInv => RestoreOffline
    BY DEF DevnodeInv, Tracking, Restoring, Live, RestoreOffline, Ids, None
  <1> QED BY <1>1, DevnodeInvariant, PTL

(* A stop() that returns has stopped its child, until an event is mistaken   *)
(* (markTerminal resolves the promise in hand, whoever calls it).            *)
THEOREM DevnodeStopped == Spec => StopMeansStopped
  <1>1. DevnodeInv /\ [Next]_vars => [~mistaken => \A c \in stops \ stops' : child[c] # "alive"]_vars
    <2> SUFFICES ASSUME DevnodeInv, Next, ~mistaken, NEW c \in stops \ stops' PROVE child[c] # "alive"
      OBVIOUS
    <2>1. c \in resolved
      BY DEF Next, Start, StartCall, Stop, StopIdle, Restore, RestoreStopped, RestoreCommandFails,
             RestoreCommandExits, DrainFires, Continue, StopReturns, StartContinues, StartTimesOut,
             StartThrows, Event, ExitEvent, ErrorEvent, ChildDies, CloseEvent, HealthOk, HealthTimeout,
             MarkTerminal, vars, callVars
    <2> QED BY <2>1 DEF DevnodeInv, Tracking, Live
  <1> QED BY <1>1, DevnodeInvariant, PTL DEF StopMeansStopped, Spec

(* A start() that is decided while its own exit promise is in hand: as long  *)
(* as no exit was reported, the child it spawned is the tracked one and its  *)
(* race was not lost to an exit                                              *)
OwnChild ==
  /\ start \in [Ids -> {"none", "racing", "stopping", "ok", "aborted", "failed"}]
  /\ race \in [Ids -> {"open", "health", "timeout", "exit"}]
  /\ terminal => exitInfo
  /\ \A c \in Ids : start[c] = "none" => race[c] = "open" /\ current # c
  /\ \A c \in Ids : start[c] = "racing" /\ current = c /\ ~exitInfo => process = c /\ race[c] # "exit"

(* It does not matter how late the close event of another child comes *)
LEMMA OwnChildStep == OwnChild /\ [Next]_vars => OwnChild'
  <1> SUFFICES ASSUME OwnChild, [Next]_vars PROVE OwnChild'
    OBVIOUS
  <1> USE DEF OwnChild
  <1>0. ASSUME UNCHANGED <<start, race, terminal, current, process>>, exitInfo => exitInfo'
        PROVE  OwnChild'
    BY <1>0
  <1>1. ASSUME StartCall
        PROVE  OwnChild'
    <2>1. PICK c \in Ids :
            /\ IsNext(c) /\ ResetPerProcessState(c)
            /\ \/ start' = [start EXCEPT ![c] = "failed"] /\ UNCHANGED <<child, process>>
               \/ start' = [start EXCEPT ![c] = "racing"] /\ process' = c
      BY <1>1 DEF StartCall
    <2>2. start[c] = "none" /\ race' = race /\ race[c] = "open" /\ current' = c /\ ~terminal'
      BY <1>1, <2>1 DEF StartCall, IsNext, ResetPerProcessState
    <2> QED BY <2>1, <2>2
  <1>2. ASSUME NEW c \in Ids, NEW timers, MarkTerminal(c, timers)
        PROVE  OwnChild'
    <2>1. CASE terminal
      BY <1>2, <1>0, <2>1 DEF MarkTerminal, callVars
    <2>2. CASE ~terminal
      <3>1. terminal' /\ exitInfo' /\ UNCHANGED <<start, current>>
        BY <1>2, <2>2 DEF MarkTerminal
      <3>2. race' = [race EXCEPT ![current] = IF @ = "open" THEN "exit" ELSE @]
        BY <1>2, <2>2 DEF MarkTerminal
      <3> QED BY <3>1, <3>2
    <2> QED BY <2>1, <2>2
  <1>3. CASE Start \/ RestoreCommandExits
    BY <1>1, <1>3, <1>0 DEF Start, RestoreCommandExits, fieldVars
  <1>4. CASE Stop \/ StopIdle \/ Restore \/ RestoreStopped \/ RestoreCommandFails \/ UNCHANGED vars
    BY <1>4, <1>0 DEF Stop, StopIdle, Restore, RestoreStopped, RestoreCommandFails, vars, callVars, fieldVars
  <1>5. ASSUME NEW c \in Ids, DrainFires(c) \/ CloseEvent(c) \/ ErrorEvent(c)
        PROVE  OwnChild'
    BY <1>2, <1>5 DEF DrainFires, CloseEvent, ErrorEvent
  <1>6. ASSUME NEW c \in Ids, ChildDies(c) \/ ExitEvent(c) \/ StopReturns(c)
        PROVE  OwnChild'
    BY <1>6, <1>0 DEF ChildDies, ExitEvent, StopReturns, callVars, fieldVars
  <1>7. ASSUME NEW c \in Ids, HealthOk(c) \/ HealthTimeout(c)
        PROVE  OwnChild'
    BY <1>7 DEF HealthOk, HealthTimeout, fieldVars
  <1>8. ASSUME NEW c \in Ids, StartContinues(c) \/ StartTimesOut(c) \/ StartThrows(c)
        PROVE  OwnChild'
    BY <1>8 DEF StartContinues, StartTimesOut, StartThrows, fieldVars
  <1> QED BY <1>3, <1>4, <1>5, <1>6, <1>7, <1>8 DEF Next, Continue, Event

(* A start() that was not overtaken by another returns only with a health    *)
(* check that answered and its own child tracked, whoever stops, crashes,    *)
(* restores or closes late in between.                                       *)
THEOREM DevnodeStartOwn == Spec => StartReturnsOwnChild
  <1>1. Init => OwnChild
    BY DEF Init, OwnChild, Ids, None
  <1>2. OwnChild /\ [Next]_vars =>
          [\A c \in Ids : start[c] = "racing" /\ start'[c] = "ok" /\ current = c =>
             race[c] = "health" /\ process = c]_vars
    <2> SUFFICES ASSUME OwnChild, Next, NEW c \in Ids, start[c] = "racing", start'[c] = "ok", current = c
                 PROVE  race[c] = "health" /\ process = c
      OBVIOUS
    <2>1. ASSUME NEW d \in Ids, StartContinues(d)
          PROVE  race[c] = "health" /\ process = c
      BY <2>1 DEF OwnChild, StartContinues
    <2>2. ASSUME StartCall
          PROVE  FALSE
      BY <2>2 DEF OwnChild, StartCall, IsNext
    <2>3. ASSUME NEW d \in Ids, StartTimesOut(d) \/ StartThrows(d)
          PROVE  FALSE
      BY <2>3 DEF OwnChild, StartTimesOut, StartThrows
    <2>4. start' # start
      BY DEF OwnChild
    <2> QED
      BY <2>1, <2>2, <2>3, <2>4
      DEF Next, Start, Stop, StopIdle, Restore, RestoreStopped, RestoreCommandFails, RestoreCommandExits,
          DrainFires, Continue, StopReturns, Event, ExitEvent, ErrorEvent, ChildDies, CloseEvent,
          HealthOk, HealthTimeout, MarkTerminal, vars, callVars
  <1> QED BY <1>1, <1>2, OwnChildStep, PTL DEF StartReturnsOwnChild, Spec

==============================================================================
