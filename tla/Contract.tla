------------------------------ MODULE Contract ------------------------------
(***************************************************************************)
(* The contract object of generated bindings: what a call of a transition  *)
(* returns or throws, and what its record and value handles decrypt        *)
(* (leo-compiler/src/codegen/contract-wrapper.ts, the base class every     *)
(* generated class extends, with the calls typescript-generator.ts emits). *)
(*                                                                         *)
(* A transaction is the sequence of the transitions it ran, the called     *)
(* ones before their caller, so the transition asked for is the last.      *)
(***************************************************************************)
EXTENDS Naturals, Sequences, FiniteSets

CONSTANTS Callers,      \* calls in progress, each used once
          Instances,    \* [source, runtime]: the program generated from and the one called
          Callgraphs,   \* sequences of [program, name, inputs, outputs]; "self" is the runtime program
          Abi,          \* [name, inputs, outputs] of the transition called
          Owners        \* whose view keys are there

(* The transition that is asked for runs last, in the program the contract *)
(* is pointed at, and the ABI is of it.                                    *)
Transition == [program : STRING, name : STRING, inputs : Nat,
               outputs : Seq([kind : STRING, owner : STRING, record : STRING])]
Asked(g) == g[Len(g)].program = "self" /\ g[Len(g)].name = Abi.name /\ g[Len(g)].inputs = Abi.inputs

ASSUME InstancesAssumption == Instances \subseteq [source : STRING, runtime : STRING]
ASSUME CallgraphsAssumption == \A g \in Callgraphs : g \in Seq(Transition) \ {<<>>} /\ Asked(g)

VARIABLES call,         \* the calls
          txs           \* the transactions of the chain, in the order sent

contractVars == <<call, txs>>

Methods == {"locally", "failsLocally", "submitted", "settled", "accepted", "rejected"}
Chosen(s) == CHOOSE x \in s : TRUE
Outcome(k) == [kind |-> k]
NoResult == Outcome("none")
Idle == [pc |-> "idle", method |-> "none", instance |-> Chosen(Instances),
         graph |-> <<>>, tx |-> 0, vm |-> "none", result |-> NoResult]

ContractInit ==
  /\ call = [c \in Callers |-> Idle]
  /\ txs = <<>>

-----------------------------------------------------------------------------
(* What the network reports of a transaction (external)                    *)

(* A private value is encrypted under its place among inputs and outputs,  *)
(* counted from zero.                                                      *)
RawOutput(t, j, i) ==
  LET o == t.outputs[i]
  IN  CASE o.kind = "record" ->
             [form |-> "ciphertext",
              of |-> [program |-> t.program, record |-> o.record, owner |-> o.owner, at |-> <<j, i>>]]
        [] o.kind = "private" ->
             [form |-> "ciphertext",
              of |-> [tpk |-> j, program |-> t.program, transition |-> t.name,
                      index |-> t.inputs + i - 1, owner |-> o.owner]]
        [] o.kind \in {"external", "dynamic"} -> [form |-> "idOnly", of |-> <<j, i>>]
        [] OTHER -> [form |-> "plaintext", of |-> <<j, i>>]

(* The confirmed body of the transaction, transition by transition; a body *)
(* of another shape is ConfirmationFails.                                  *)
parseTransition(t, j) ==
  [programId |-> t.program, transitionName |-> t.name, transitionPublicKey |-> j,
   rawOutputs |-> [i \in DOMAIN t.outputs |-> RawOutput(t, j, i)]]

parseConfirmedTransitions(graph) == [j \in DOMAIN graph |-> parseTransition(graph[j], j)]

Runs(graph, instance) ==
  [j \in DOMAIN graph |->
    [graph[j] EXCEPT !.program = IF @ = "self" THEN instance.runtime ELSE @]]

decryptRecordCiphertext(ct, key) ==
  IF ct.form = "ciphertext" /\ "record" \in DOMAIN ct.of /\ ct.of.owner = key THEN {ct.of} ELSE {}

decryptValueCiphertext(ct, key, tpk, program, transition, index) ==
  IF ct.of = [tpk |-> tpk, program |-> program, transition |-> transition, index |-> index, owner |-> key]
  THEN {ct.of} ELSE {}

-----------------------------------------------------------------------------
(* Choosing the outputs of the call                                        *)

(* Where a transition of that name is in the transaction.                 *)
Matching(program, name, transitions) ==
  {j \in DOMAIN transitions : transitions[j].programId = program /\ transitions[j].transitionName = name}

First(matches) == {j \in matches : \A i \in matches : j <= i}
Only(matches) == {j \in matches : matches = {j}}

selectAcceptedTransition_FirstMatch(program, name, transitions) ==
  {transitions[j] : j \in First(Matching(program, name, transitions))}

(* None, or several when the program calls itself: a shape error.          *)
selectAcceptedTransition(program, name, transitions) ==
  {transitions[j] : j \in Only(Matching(program, name, transitions))}

selectRejectedTransitionOutputs(program, name, transitions) ==
  LET first == First(Matching(program, name, transitions))
  IN  IF first = {} THEN <<>> ELSE transitions[Chosen(first)].rawOutputs

(* rawOutputAt() wants a string, idOnlyRecordOutputAt() an id; futures     *)
(* keep their place and are not looked at.                                 *)
ElementAt(o, raw, i) ==
  \/ o.kind = "future"
  \/ i \in DOMAIN raw /\ (o.kind \in {"external", "dynamic"}) = (raw[i].form = "idOnly")

runProjector(raw) == \A i \in DOMAIN Abi.outputs : ElementAt(Abi.outputs[i], raw, i)

-----------------------------------------------------------------------------
(* The calls                                                               *)

Finish(c, result) == call' = [call EXCEPT ![c].pc = "done", ![c].result = result]

(* A transition of a contract, maybe pointed at another program id, is     *)
(* called.                                                                 *)
Begin(c, method, instance) ==
  /\ call[c].pc = "idle"
  /\ call' = [call EXCEPT ![c] =
       [Idle EXCEPT !.pc = IF method \in {"locally", "failsLocally"} THEN "local" ELSE "submit",
                    !.method = method, !.instance = instance]]
  /\ UNCHANGED txs

Ends(c, vm, kind) ==
  call' = [call EXCEPT ![c].pc = "done", ![c].vm = vm, ![c].result = Outcome(kind)]

(* The local machine runs the program, traps, or is never reached: some     *)
(* call on the way throws, or the contract was never connected to a network, *)
(* the one error that is passed through as it is.                            *)
executeLocal(c, vm) ==
  /\ call[c].pc = "local" /\ call[c].method = "locally"
  /\ Ends(c, vm, CASE vm = "runs" -> "outputs"
                   [] vm = "unconnected" -> "TransactionShapeError"
                   [] OTHER -> "LocalTransitionError")
  /\ UNCHANGED txs

(* Only what the machine itself refused is the failure that was expected.  *)
expectLocalFailure(c, vm) ==
  /\ call[c].pc = "local" /\ call[c].method = "failsLocally"
  /\ Ends(c, vm, CASE vm = "traps" -> "expected failure"
                   [] vm = "runs" -> "UnexpectedLocalSuccessError"
                   [] vm = "unconnected" -> "TransactionShapeError"
                   [] OTHER -> "error")
  /\ UNCHANGED txs

Sent(graph) == Append(txs, [graph |-> graph, status |-> "pending", shown |-> <<>>])

(* The transaction may be on its way although execute() threw, or returned *)
(* no id; a contract that is not connected sends nothing.                  *)
SubmitFails(c, graph) ==
  /\ call[c].pc = "submit"
  /\ \E why \in {"TransitionSubmissionError", "TransactionShapeError"} : Finish(c, Outcome(why))
  /\ \/ UNCHANGED txs
     \/ txs' = Sent(graph)

submitTransition(c, graph) ==
  /\ call[c].pc = "submit"
  /\ txs' = Sent(graph)
  /\ call' = [call EXCEPT ![c].tx = Len(txs'), ![c].graph = graph,
       ![c].pc = IF call[c].method = "submitted" THEN "done" ELSE "confirm",
       ![c].result = IF call[c].method = "submitted" THEN Outcome("submitted") ELSE @]

(* The chain (external).  Of a rejected transaction usually the fee is     *)
(* left and nothing is shown.                                              *)
Decided(tx, status) ==
  /\ tx \in DOMAIN txs /\ txs[tx].status = "pending"
  /\ \E shown \in IF status = "accepted" THEN {txs[tx].graph} ELSE {<<>>, txs[tx].graph} :
       txs' = [txs EXCEPT ![tx] =
         [@ EXCEPT !.status = status, !.shown = parseConfirmedTransitions(shown)]]
  /\ UNCHANGED call

Settled(c) ==
  LET tx == txs[call[c].tx]
      program == call[c].instance.runtime
  IN  IF tx.status = "rejected"
      THEN {[kind |-> "rejected",
             rawOutputs |-> selectRejectedTransitionOutputs(program, Abi.name, tx.shown)]}
      ELSE {[kind |-> "accepted", rawOutputs |-> t.rawOutputs, tpk |-> t.transitionPublicKey,
             transitions |-> tx.shown] :
            t \in selectAcceptedTransition(program, Abi.name, tx.shown)}

(* expectAcceptedTyped(), expectRejected() and settleTyped().              *)
Answer(method, settled) ==
  CASE settled.kind = "rejected" ->
         IF method = "accepted" THEN Outcome("OnChainRejectedError") ELSE settled
    [] settled.kind = "accepted" /\ method = "rejected" -> Outcome("UnexpectedTransactionStatusError")
    [] OTHER -> IF runProjector(settled.rawOutputs) THEN settled ELSE Outcome("TransactionShapeError")

settleTransition(c) ==
  /\ call[c].pc = "confirm" /\ txs[call[c].tx].status # "pending"
  /\ Finish(c, IF Settled(c) = {} THEN Outcome("TransactionShapeError")
               ELSE Answer(call[c].method, Chosen(Settled(c))))
  /\ UNCHANGED txs

(* The wait timed out, maybe just before the answer, or could not be done. *)
ConfirmationFails(c, why) ==
  /\ call[c].pc = "confirm"
  /\ why \in {"TransactionConfirmationTimeoutError", "TransactionShapeError"}
  /\ Finish(c, Outcome(why))
  /\ UNCHANGED txs

ContractNext ==
  \/ \E c \in Callers :
       \/ \E method \in Methods, instance \in Instances : Begin(c, method, instance)
       \/ \E vm \in {"runs", "traps", "unreached", "unconnected"} :
            executeLocal(c, vm) \/ expectLocalFailure(c, vm)
       \/ \E graph \in {Runs(g, call[c].instance) : g \in Callgraphs} :
            SubmitFails(c, graph) \/ submitTransition(c, graph)
       \/ settleTransition(c)
       \/ \E why \in {"TransactionConfirmationTimeoutError", "TransactionShapeError"} :
            ConfirmationFails(c, why)
  \/ \E tx \in DOMAIN txs, status \in {"accepted", "rejected"} : Decided(tx, status)

ContractSpec == ContractInit /\ [][ContractNext]_contractVars

-----------------------------------------------------------------------------
(* Handles of the outputs.  A matcher is [program, record, source]; its    *)
(* source, when bound, is [transitionIndex, outputIndex] or                *)
(* [programId, transitionName, outputIndex, match], match 0 for none.      *)

rebindMatcherSource(source, from, to) ==
  IF "programId" \in DOMAIN source /\ source.programId = from
  THEN [source EXCEPT !.programId = to] ELSE source

bindRecordOutputMatcherProgram(m, programId) ==
  [m EXCEPT !.program = programId, !.source = rebindMatcherSource(@, m.program, programId)]

(* A matcher of the program the bindings were generated from means the     *)
(* program the contract is pointed at.                                     *)
bindOwnRuntimeMatcher(m, instance) ==
  IF m.program = instance.source THEN bindRecordOutputMatcherProgram(m, instance.runtime) ELSE m

decryptRecord(ct, key) == decryptRecordCiphertext(ct, key)

(* makeEncryptedRecord(): match() compares the identity, decrypt() alone   *)
(* does not need one.                                                      *)
matchEncryptedRecord(instance, record, ct, m, key) ==
  LET runtime == bindOwnRuntimeMatcher(m, instance)
  IN  IF runtime.program = instance.runtime /\ runtime.record = record
      THEN decryptRecord(ct, key) ELSE {}

resolveIdOnlySource(transitions, source) ==
  IF "transitionIndex" \in DOMAIN source
  THEN {transitions[i] : i \in {source.transitionIndex} \cap DOMAIN transitions}
  ELSE LET matches == Matching(source.programId, source.transitionName, transitions)
           Nth(n) == {j \in matches : Cardinality({i \in matches : i <= j}) = n}
       IN  {transitions[j] : j \in IF source.match = 0 THEN Only(matches) ELSE Nth(source.match)}

resolveAndDecryptIdOnly(transitions, m, key) ==
  UNION {decryptRecord(t.rawOutputs[m.source.outputIndex], key) :
           t \in {s \in resolveIdOnlySource(transitions, m.source) :
                  s.programId = m.program /\ m.source.outputIndex \in DOMAIN s.rawOutputs}}

matchIdOnly(instance, transitions, m, key) ==
  resolveAndDecryptIdOnly(transitions, bindOwnRuntimeMatcher(m, instance), key)

globalIndex_OutputOnly(i) == i - 1

(* Inputs come first; ABI positions count from zero.                       *)
globalIndex(i) == Abi.inputs + i - 1

makeEncryptedValue(instance, raw, tpk, i, key) ==
  decryptValueCiphertext(raw, key, tpk, instance.runtime, Abi.name, globalIndex(i))

-----------------------------------------------------------------------------
(* Properties                                                              *)

(* What a call says about the chain and the machine is so: an accepted     *)
(* result is of an accepted transaction and holds the outputs of the       *)
(* transition that was called and of no other in the same transaction; a   *)
(* rejection, a rejection that was missed and a local failure happened;    *)
(* and after a timeout the transaction is out there.                       *)
OutcomesTruthful ==
  \A c \in {d \in Callers : call[d].pc = "done"} :
    LET k == call[c].result.kind
        is(status) == call[c].tx # 0 /\ txs[call[c].tx].status = status
    IN  /\ k = "accepted" =>
             /\ is("accepted")
             /\ call[c].result.tpk = Len(txs[call[c].tx].graph)
             /\ call[c].result.rawOutputs =
                  parseConfirmedTransitions(call[c].graph)[call[c].result.tpk].rawOutputs
        /\ k \in {"rejected", "OnChainRejectedError"} => is("rejected")
        /\ k = "UnexpectedTransactionStatusError" => is("accepted")
        /\ k = "expected failure" => call[c].vm = "traps"
        /\ k = "UnexpectedLocalSuccessError" => call[c].vm = "runs"
        /\ k \in {"submitted", "TransactionConfirmationTimeoutError"} =>
             txs[call[c].tx].graph = call[c].graph

Sources(transitions) ==
  {[transitionIndex |-> j, outputIndex |-> i] : j \in DOMAIN transitions, i \in 1..2}
  \cup {[programId |-> t.programId, transitionName |-> t.transitionName, outputIndex |-> i, match |-> n] :
          t \in {transitions[j] : j \in DOMAIN transitions}, i \in 1..2, n \in 0..2}

Matchers(instance, transitions) ==
  {[program |-> p, record |-> r, source |-> s] :
    p \in {instance.source, instance.runtime, "other.aleo"}, r \in {"Coin", "Note"},
    s \in Sources(transitions)}

(* Handles open what they stand for: the owner of a private output reads   *)
(* it, the owner of a record output reads that record, and a matcher gives *)
(* nothing or a record of the same transaction that its owner may read and *)
(* that was made by the matcher's program, which for the program of the    *)
(* bindings is the one the contract is pointed at; the record of a call's  *)
(* own output is only given to a matcher of its type.                      *)
HandlesFaithful ==
  \A c \in {d \in Callers : call[d].result.kind = "accepted"} :
    LET r == call[c].result
        inst == call[c].instance
        Meant(p) == IF p = inst.source THEN inst.runtime ELSE p
    IN  \A key \in Owners :
          /\ \A i \in DOMAIN Abi.outputs \cap DOMAIN r.rawOutputs :
               LET o == call[c].graph[r.tpk].outputs[i]
               IN  o.kind = Abi.outputs[i].kind =>
                   /\ o.kind = "private" =>
                        (makeEncryptedValue(inst, r.rawOutputs[i], r.tpk, i, key) # {} <=> o.owner = key)
                   /\ o.kind = "record" =>
                        /\ decryptRecord(r.rawOutputs[i], key) # {} <=> o.owner = key
                        /\ \A m \in Matchers(inst, r.transitions) :
                             matchEncryptedRecord(inst, Abi.outputs[i].record, r.rawOutputs[i], m, key) # {} =>
                               Meant(m.program) = inst.runtime /\ m.record = Abi.outputs[i].record
          /\ \A m \in Matchers(inst, r.transitions) :
               \A d \in matchIdOnly(inst, r.transitions, m, key) :
                 /\ d.program = Meant(m.program) /\ d.owner = key
                 /\ r.transitions[d.at[1]].rawOutputs[d.at[2]].of = d
=============================================================================
