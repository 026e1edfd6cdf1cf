------------------------------- MODULE Ledger -------------------------------
(***************************************************************************)
(* The Aleo chain as the deployment code sees it through a                 *)
(* NetworkConnection: program editions, transactions that are accepted or  *)
(* rejected some time after they were broadcast, reads that lag behind the *)
(* chain, and other people who deploy and upgrade programs too.  None of   *)
(* it is under the control of LionDen; it is modelled from the calls the   *)
(* deploy and upgrade tasks make.                                          *)
(***************************************************************************)
EXTENDS Integers, FiniteSets

CONSTANTS
  Programs,     \* program ids
  Imports,      \* Imports[p]: the programs that p imports
  Endpoints,    \* REST endpoints the network may be configured with
  MaxTx,        \* bound: transactions LionDen builds
  MaxEdition,   \* bound: highest edition a program reaches
  Shared,       \* the programs that other people may deploy and upgrade too
  FlakyReads    \* may a program-source read of an existing program come back empty?

ASSUME LedgerAssumption ==
  /\ Programs # {} /\ Endpoints # {}
  /\ Imports \in [Programs -> SUBSET Programs]
  /\ MaxTx \in Nat
  /\ MaxEdition \in Nat
  /\ Shared \subseteq Programs
  /\ FlakyReads \in BOOLEAN

VARIABLES
  edition,      \* edition[e][p]: the edition of p on the chain behind e
  visible,      \* visible[e][p]: the edition that reads through e return
  tx            \* tx[t]: the t-th transaction LionDen broadcast

ledgerVars == <<edition, visible, tx>>

Absent == -1    \* the edition of a program that is not on the chain
Unknown == -1   \* an edition read that gave no number
NoTx == 0

TxIds == 1..MaxTx

Editions == {Absent} \cup Nat

TxRecord ==
  [program: Programs, action: {"deploy", "upgrade"}, endpoint: Endpoints,
   status: {"unused", "building", "pending", "accepted", "rejected"}, edition: Editions]

LedgerTypeOK ==
  /\ edition \in [Endpoints -> [Programs -> Editions]]
  /\ visible \in [Endpoints -> [Programs -> Editions]]
  /\ tx \in [TxIds -> TxRecord]

LedgerInit ==
  /\ edition = [e \in Endpoints |-> [p \in Programs |-> Absent]]
  /\ visible = [e \in Endpoints |-> [p \in Programs |-> Absent]]
  /\ tx = [t \in TxIds |->
             [program |-> CHOOSE p \in Programs : TRUE, action |-> "deploy",
              endpoint |-> CHOOSE e \in Endpoints : TRUE, status |-> "unused", edition |-> Absent]]

Used == {t \in TxIds : tx[t].status # "unused"}

(* t is the id of the next transaction *)
IsNextTx(t) == t \in TxIds \ Used /\ \A s \in TxIds : s < t => s \in Used

(* A backend starts to build and prove a transaction *)
Build(t, p, action, e) ==
  /\ IsNextTx(t)
  /\ tx' = [tx EXCEPT ![t] = [program |-> p, action |-> action, endpoint |-> e,
                              status |-> "building", edition |-> Absent]]
  /\ UNCHANGED <<edition, visible>>

(* The node takes the bytes of t; its verdict comes later *)
Submit(t) ==
  /\ tx[t].status = "building"
  /\ tx' = [tx EXCEPT ![t].status = "pending"]
  /\ UNCHANGED <<edition, visible>>

OnChain(e, p) == edition[e][p] # Absent

(* The chain's own rule for a transaction it may accept *)
Acceptable(t) ==
  LET e == tx[t].endpoint
      p == tx[t].program
  IN /\ IF tx[t].action = "deploy"
        THEN ~OnChain(e, p) /\ \A i \in Imports[p] : OnChain(e, i)
        ELSE OnChain(e, p)
     /\ edition[e][p] < MaxEdition

(* A block includes t and the program takes its next edition *)
Accept(t) ==
  /\ tx[t].status = "pending"
  /\ Acceptable(t)
  /\ LET e == tx[t].endpoint
         p == tx[t].program
     IN /\ edition' = [edition EXCEPT ![e][p] = @ + 1]
        /\ tx' = [tx EXCEPT ![t].status = "accepted", ![t].edition = edition[e][p] + 1]
  /\ UNCHANGED visible

(* A block includes t as a fee-only transaction *)
Reject(t) ==
  /\ tx[t].status = "pending"
  /\ tx' = [tx EXCEPT ![t].status = "rejected"]
  /\ UNCHANGED <<edition, visible>>

(* Someone else deploys or upgrades p *)
Stranger(e, p) ==
  /\ p \in Shared
  /\ edition[e][p] < MaxEdition
  /\ edition[e][p] = Absent => \A i \in Imports[p] : OnChain(e, i)
  /\ edition' = [edition EXCEPT ![e][p] = @ + 1]
  /\ UNCHANGED <<visible, tx>>

(* The node that answers reads catches up with p *)
Propagate(e, p) ==
  /\ visible[e][p] < edition[e][p]
  /\ visible' = [visible EXCEPT ![e][p] = edition[e][p]]
  /\ UNCHANGED <<edition, tx>>

LedgerNext ==
  \/ \E t \in TxIds : Accept(t) \/ Reject(t)
  \/ \E e \in Endpoints, p \in Programs : Stranger(e, p) \/ Propagate(e, p)

(* What checkProgramOnChain may return for p through e.  The source read and  *)
(* the edition read are two requests; the edition read gives null on any      *)
(* failure, and a source read that fails with a 404 or a 500 looks like a     *)
(* program that does not exist.                                               *)
OnChainReads(e, p) ==
  LET NotFound == [exists |-> FALSE, edition |-> Unknown]
      Found(n) == [exists |-> TRUE, edition |-> n]
  IN IF visible[e][p] = Absent THEN {NotFound}
     ELSE {Found(visible[e][p]), Found(Unknown)} \cup (IF FlakyReads THEN {NotFound} ELSE {})

=============================================================================
