---------------------------- MODULE SingleFlight ----------------------------
(***************************************************************************)
(* What the lazy loaders of the code promise: one attempt at a time, shared *)
(* by everyone who calls while it runs; a value that is loaded stays; a    *)
(* failed attempt fails its callers and the next call tries again.         *)
(* (HookDispatcher.resolveCategory(), createTestLre().)                    *)
(***************************************************************************)
CONSTANT Callers

VARIABLES
  value,      \* is the value loaded?
  attempt,    \* is an attempt to load it under way?
  caller      \* caller[c]: "idle", "waiting", "got" or "refused"

flightVars == <<value, attempt, caller>>

FlightInit ==
  /\ value = FALSE /\ attempt = FALSE
  /\ caller = [c \in Callers |-> "idle"]

Ask(c) ==
  /\ caller[c] # "waiting"
  /\ IF value
     THEN caller' = [caller EXCEPT ![c] = "got"] /\ UNCHANGED <<value, attempt>>
     ELSE \/ /\ caller' = [caller EXCEPT ![c] = "waiting"]
             /\ attempt' = TRUE /\ UNCHANGED value
          \/ /\ ~attempt
             /\ caller' = [caller EXCEPT ![c] = "got"]
             /\ value' = TRUE /\ UNCHANGED attempt

Forget(c) ==
  /\ caller[c] \in {"got", "refused"}
  /\ caller' = [caller EXCEPT ![c] = "idle"]
  /\ UNCHANGED <<value, attempt>>

Settle(outcome) ==
  /\ attempt
  /\ attempt' = FALSE
  /\ value' = (outcome = "got")
  /\ caller' = [c \in Callers |-> IF caller[c] = "waiting" THEN outcome ELSE caller[c]]

FlightNext ==
  \/ \E c \in Callers : Ask(c) \/ Forget(c)
  \/ \E outcome \in {"got", "refused"} : Settle(outcome)

FlightSpec == FlightInit /\ [][FlightNext]_flightVars

=============================================================================
