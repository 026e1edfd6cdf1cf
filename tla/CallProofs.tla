----------------------------- MODULE CallProofs ----------------------------
(***************************************************************************)
(* Proofs about calls: reads of a storage vector beside any number of      *)
(* writes by others, calls of a contract, any number of them, over any     *)
(* transactions, and the executions under way in one process, for any      *)
(* calls, sinks and modes.                                                 *)
(***************************************************************************)
EXTENDS Contract, StorageVectors, Execution, FiniteSetTheorems, TLAPS


-----------------------------------------------------------------------------
(* Reads of a storage vector                                               *)

Element == [at : Nat, value : Values]

(* The length never points past the entries, which are never removed *)
CellsInv ==
  /\ length \in Nat
  /\ \A i \in 0..(length - 1) : i \in DOMAIN cells
  /\ \A i \in DOMAIN cells : cells[i] \in Values

(* What the reader has, by the request it is at *)
ReaderInv ==
  /\ DOMAIN reader = {"pc", "op", "index", "len", "out"}
  /\ reader.index \in Nat /\ reader.len \in Nat
  /\ reader.pc \in {"idle", "length", "element", "done", "error"}
  /\ reader.pc \in {"idle", "length"} => reader.out = <<>>
  /\ reader.pc = "length" => reader.op \in {"len", "get", "getAll"}
  /\ reader.pc = "element" => reader.op \in {"get", "getAll"} /\ reader.out \in Seq(Element)
  /\ reader.pc = "element" /\ reader.op = "get" => reader.index < reader.len
  /\ reader.pc = "element" /\ reader.op = "getAll" => Len(reader.out) < reader.len

(* Every place the reader may still ask for holds what was in the vector    *)
(* at some moment of the call, though the vector may be shorter by now:     *)
(* an entry past the length is never written, one before it is recorded     *)
PlacesLive ==
  /\ reader.pc # "idle" => InVector \subseteq live
  /\ reader.pc = "element" =>
       \A i \in 0..(reader.len - 1) : i \in DOMAIN cells /\ <<i, cells[i]>> \in live

VectorInv == CellsInv /\ ReaderInv /\ PlacesLive /\ VectorElementsLive

-----------------------------------------------------------------------------
(* Before a read nothing is asked *)
LEMMA VectorStarts == VectorInit => VectorInv
BY DEF VectorInit, VectorInv, CellsInv, ReaderInv, PlacesLive, VectorElementsLive, NoReader, InVector

(* Whatever another user writes within the vector, the reader keeps what it *)
(* may ask for: the length that is written is at most one past the entries, *)
(* and an entry that changes is within it                                   *)
LEMMA WriteStep ==
  ASSUME VectorInv, NEW newCells, NEW newLength \in Nat, Write(newCells, newLength),
         DOMAIN cells \subseteq DOMAIN newCells,
         \A i \in 0..(newLength - 1) : i \in DOMAIN newCells,
         \A i \in DOMAIN newCells : newCells[i] \in Values,
         \A i \in DOMAIN cells : newCells[i] = cells[i] \/ i < newLength
  PROVE  VectorInv'
<1>1. CellsInv'
  BY DEF VectorInv, CellsInv, Write
<1>2. ReaderInv' /\ VectorElementsLive'
  BY DEF VectorInv, ReaderInv, VectorElementsLive, Write
<1>3. PlacesLive'
  <2>1. InVector' \subseteq live'
    BY DEF Write, InVector
  <2>2. ASSUME reader'.pc = "element", NEW i \in 0..(reader'.len - 1)
        PROVE  i \in DOMAIN newCells /\ <<i, newCells[i]>> \in live'
    <3>1. i \in DOMAIN cells /\ <<i, cells[i]>> \in live /\ i \in Nat
      BY <2>2 DEF VectorInv, PlacesLive, ReaderInv, Write
    <3>2. CASE newCells[i] = cells[i]
      BY <3>1, <3>2 DEF Write
    <3>3. CASE i < newLength
      BY <3>1, <3>3 DEF Write
    <3> QED BY <3>1, <3>2, <3>3
  <2> QED BY <2>1, <2>2 DEF PlacesLive, Write
<1> QED BY <1>1, <1>2, <1>3 DEF VectorInv

(* Push, pop, set, swap-remove and clear are such writes: swap-remove of   *)
(* the last element writes the entry it leaves behind with its own value   *)
LEMMA UsersStep ==
  ASSUME VectorInv,
         \/ \E v \in Values : Push(v)
         \/ Pop
         \/ \E i \in 0..(MaxLength - 1), v \in Values : Set(i, v)
         \/ \E i \in 0..(MaxLength - 1) : SwapRemove(i)
         \/ Clear
  PROVE  VectorInv'
<1> USE MaxLengthAssumption
<1> USE DEF VectorInv, CellsInv
<1>1. ASSUME NEW v \in Values, Push(v) PROVE VectorInv'
  BY <1>1, WriteStep DEF Push, Stored
<1>2. CASE Pop
  BY <1>2, WriteStep DEF Pop
<1>3. ASSUME NEW i \in 0..(MaxLength - 1), NEW v \in Values, Set(i, v) PROVE VectorInv'
  BY <1>3, WriteStep DEF Set, Stored
<1>4. ASSUME NEW i \in 0..(MaxLength - 1), SwapRemove(i) PROVE VectorInv'
  <2> DEFINE last == length - 1
  <2>1. last \in Nat /\ last \in DOMAIN cells /\ cells[last] \in Values
    BY <1>4 DEF SwapRemove
  <2>2. Write(Stored(i, cells[last]), last)
    BY <1>4 DEF SwapRemove
  <2>3. \A j \in DOMAIN cells : Stored(i, cells[last])[j] = cells[j] \/ j < last
    BY <1>4, <2>1 DEF SwapRemove, Stored
  <2> QED BY <2>1, <2>2, <2>3, WriteStep DEF Stored
<1>5. CASE Clear
  BY <1>5, WriteStep DEF Clear
<1> QED BY <1>1, <1>2, <1>3, <1>4, <1>5

(* The call begins with what is in the vector *)
LEMMA AskStep ==
  ASSUME VectorInv, NEW query \in {"len", "get", "getAll"}, NEW index \in Nat, Ask(query, index)
  PROVE  VectorInv'
BY DEF VectorInv, CellsInv, ReaderInv, PlacesLive, VectorElementsLive, Ask, NoReader, InVector

(* The length bounds what the reader goes on to ask *)
LEMMA LengthStep ==
  ASSUME VectorInv, queryStorageVectorLength
  PROVE  VectorInv'
<1> USE DEF VectorInv
<1>1. reader.pc = "length" /\ reader.out = <<>> /\ UNCHANGED <<cells, length, writes, live>>
  BY DEF queryStorageVectorLength, ReaderInv
<1>2. CASE reader.op = "len"
  <2>1. reader' = [reader EXCEPT !.pc = "done", !.out = <<length>>]
    BY <1>2 DEF queryStorageVectorLength, Reply
  <2> QED BY <1>1, <1>2, <2>1 DEF CellsInv, ReaderInv, PlacesLive, VectorElementsLive, InVector
<1>3. CASE reader' = [reader EXCEPT !.pc = "done", !.out = <<>>]
  BY <1>1, <1>3 DEF CellsInv, ReaderInv, PlacesLive, VectorElementsLive, InVector
<1>4. CASE /\ reader' = [reader EXCEPT !.pc = "element", !.len = length]
           /\ reader.op = "get" => reader.index < length
           /\ reader.op = "getAll" => length > 0
           /\ reader.op # "len"
  <2>1. <<>> \in Seq(Element) /\ Len(<<>>) = 0
    OBVIOUS
  <2>2. ReaderInv'
    BY <1>1, <1>4, <2>1 DEF CellsInv, ReaderInv
  <2>3. PlacesLive'
    BY <1>1, <1>4 DEF CellsInv, ReaderInv, PlacesLive, InVector
  <2>4. CellsInv' /\ VectorElementsLive'
    BY <1>1, <1>4 DEF CellsInv, ReaderInv, VectorElementsLive
  <2> QED BY <2>2, <2>3, <2>4
<1>5. \/ reader.op = "len" \/ reader' = [reader EXCEPT !.pc = "done", !.out = <<>>]
      \/ /\ reader' = [reader EXCEPT !.pc = "element", !.len = length]
         /\ reader.op = "get" => reader.index < length
         /\ reader.op = "getAll" => length > 0
  BY <1>1 DEF queryStorageVectorLength, Reply, ReaderInv, CellsInv
<1> QED BY <1>2, <1>3, <1>4, <1>5

(* An element is read where the reader may ask, and so was in the vector *)
LEMMA GetStep ==
  ASSUME VectorInv, queryStorageVector
  PROVE  VectorInv'
<1> USE DEF VectorInv
<1>1. /\ reader.pc = "element" /\ reader.index \in 0..(reader.len - 1)
      /\ UNCHANGED <<cells, length, writes, live>>
  BY DEF queryStorageVector, ReaderInv
<1>2. /\ <<reader.index, cells[reader.index]>> \in live
      /\ reader' = [reader EXCEPT !.pc = "done",
                                 !.out = <<[at |-> reader.index, value |-> cells[reader.index]]>>]
  BY <1>1 DEF queryStorageVector, PlacesLive, Cell, Reply
<1> QED BY <1>1, <1>2 DEF CellsInv, ReaderInv, PlacesLive, VectorElementsLive, InVector

(* ... and the loop never meets a place without an entry *)
LEMMA GetAllStep ==
  ASSUME VectorInv, queryStorageVectorAll
  PROVE  VectorInv'
<1> USE DEF VectorInv
<1> DEFINE i == Len(reader.out)
           e == [at |-> i, value |-> cells[i]]
           after == IF i + 1 = reader.len THEN "done" ELSE "element"
<1>1. /\ reader.pc = "element" /\ reader.op = "getAll" /\ reader.out \in Seq(Element)
      /\ i \in 0..(reader.len - 1)
      /\ UNCHANGED <<cells, length, writes, live>>
  BY DEF queryStorageVectorAll, ReaderInv
<1>2. i \in DOMAIN cells /\ <<i, cells[i]>> \in live /\ e \in Element
  BY <1>1 DEF PlacesLive, CellsInv, Element
<1>3. reader' = [reader EXCEPT !.out = Append(@, e), !.pc = after]
  BY <1>1, <1>2 DEF queryStorageVectorAll, Cell
<1> HIDE DEF e, i, after
<1>4. reader'.out = Append(reader.out, e) /\ reader'.pc = after /\ reader'.op = "getAll"
      /\ reader'.len = reader.len /\ reader'.index = reader.index
      /\ DOMAIN reader' = {"pc", "op", "index", "len", "out"}
  BY <1>1, <1>3 DEF ReaderInv
<1>5. Append(reader.out, e) \in Seq(Element) /\ Len(Append(reader.out, e)) = i + 1
  BY <1>1, <1>2 DEF i
<1>6. ReaderInv'
  BY <1>1, <1>4, <1>5 DEF ReaderInv, after
<1>7. CellsInv' /\ PlacesLive'
  BY <1>1, <1>4, <1>5 DEF CellsInv, PlacesLive, InVector, ReaderInv
<1>8. \A k \in DOMAIN reader'.out : <<reader'.out[k].at, reader'.out[k].value>> \in live'
  <2> SUFFICES ASSUME NEW k \in DOMAIN Append(reader.out, e)
               PROVE  <<Append(reader.out, e)[k].at, Append(reader.out, e)[k].value>> \in live
    BY <1>1, <1>4
  <2>1. CASE k = i + 1
    BY <1>1, <1>2, <1>5, <2>1 DEF e, i
  <2>2. CASE k # i + 1
    BY <1>1, <1>5, <2>2 DEF VectorElementsLive, i
  <2> QED BY <2>1, <2>2
<1> QED BY <1>4, <1>6, <1>7, <1>8 DEF VectorElementsLive, after

(* A read that fails returns nothing *)
LEMMA FailedRequestStep ==
  ASSUME VectorInv, queryProgramMappingRaw_Throws
  PROVE  VectorInv'
BY DEF VectorInv, CellsInv, ReaderInv, PlacesLive, VectorElementsLive, queryProgramMappingRaw_Throws, InVector

-----------------------------------------------------------------------------
(* Whatever others do between the requests of a read, an element that was  *)
(* returned was in the vector at its index at some moment of the call, and *)
(* getAll() never meets a missing one, for any bounds (queryStorageVector, *)
(* queryStorageVectorAll).                                                 *)
THEOREM VectorCorrect == VectorSpec => []VectorElementsLive
<1>1. VectorInit => VectorInv
  BY VectorStarts
<1>2. VectorInv /\ [VectorNext]_vectorVars => VectorInv'
  <2> SUFFICES ASSUME VectorInv, [VectorNext]_vectorVars PROVE VectorInv'
    OBVIOUS
  <2>1. ASSUME NEW query \in {"len", "getAll"}, Ask(query, 0) PROVE VectorInv'
    BY <2>1, AskStep
  <2>2. ASSUME NEW i \in 0..MaxLength, Ask("get", i) PROVE VectorInv'
    BY <2>2, AskStep, MaxLengthAssumption
  <2>3. CASE UNCHANGED vectorVars
    BY <2>3 DEF VectorInv, vectorVars, CellsInv, ReaderInv, PlacesLive, VectorElementsLive, InVector
  <2> QED BY <2>1, <2>2, <2>3, UsersStep, LengthStep, GetStep, GetAllStep,
            FailedRequestStep DEF VectorNext
<1>3. VectorInv => VectorElementsLive
  BY DEF VectorInv
<1> QED BY <1>1, <1>2, <1>3, PTL DEF VectorSpec


-----------------------------------------------------------------------------
(* Calls of a contract                                                     *)

(* What the transactions of calls can be *)
Graphs == {Runs(g, i) : g \in Callgraphs, i \in Instances}
Tx == [graph : Graphs, status : {"pending", "accepted", "rejected"},
       shown : {<<>>} \cup {parseConfirmedTransitions(g) : g \in Graphs \cup {<<>>}}]

(* An accepted transaction shows all of its transitions *)
TxsInv ==
  /\ txs \in Seq(Tx)
  /\ \A n \in DOMAIN txs :
       txs[n].status = "accepted" => txs[n].shown = parseConfirmedTransitions(txs[n].graph)

CallTx(c) == txs[call[c].tx]

(* The transaction a call knows is one it sent *)
Known(c) ==
  /\ call[c].tx \in DOMAIN txs /\ call[c].tx # 0
  /\ CallTx(c).graph = call[c].graph
  /\ \E g \in Callgraphs : call[c].graph = Runs(g, call[c].instance)

(* What has been answered, with all that an accepted result was made from *)
Told(c) ==
  LET r == call[c].result
      last == Len(call[c].graph)
  IN  /\ r.kind \in {"accepted", "rejected", "OnChainRejectedError", "UnexpectedTransactionStatusError",
                     "submitted", "TransactionConfirmationTimeoutError"} => Known(c)
      /\ r.kind = "accepted" =>
           /\ CallTx(c).status = "accepted"
           /\ r.tpk = last /\ r.transitions = parseConfirmedTransitions(call[c].graph)
           /\ r.rawOutputs = parseConfirmedTransitions(call[c].graph)[last].rawOutputs
      /\ r.kind \in {"rejected", "OnChainRejectedError"} => CallTx(c).status = "rejected"
      /\ r.kind = "UnexpectedTransactionStatusError" => CallTx(c).status = "accepted"
      /\ r.kind = "expected failure" => call[c].vm = "traps"
      /\ r.kind = "UnexpectedLocalSuccessError" => call[c].vm = "runs"

CallFields == {"pc", "method", "instance", "graph", "tx", "vm", "result"}

CallInv(c) ==
  /\ DOMAIN call[c] = CallFields
  /\ call[c].pc # "idle" => call[c].instance \in Instances
  /\ call[c].pc = "confirm" => Known(c)
  /\ call[c].pc # "done" => call[c].result = NoResult
  /\ call[c].pc = "done" => Told(c)

CallsInv == TxsInv /\ DOMAIN call = Callers /\ \A c \in Callers : CallInv(c)

(* A transaction stays what it is once it is decided *)
TxsGrow ==
  \A n \in DOMAIN txs :
    /\ n \in DOMAIN txs' /\ txs'[n].graph = txs[n].graph
    /\ txs[n].status # "pending" => txs'[n].status = txs[n].status

-----------------------------------------------------------------------------
(* In a transaction of a call the last transition is the one asked for:    *)
(* the program the contract is pointed at, the name and the inputs of the  *)
(* ABI                                                                     *)
LEMMA AskedLast ==
  ASSUME NEW g \in Callgraphs, NEW i \in Instances
  PROVE  /\ Runs(g, i) \in Seq(Transition) /\ Len(Runs(g, i)) \in DOMAIN Runs(g, i)
         /\ Runs(g, i)[Len(Runs(g, i))].program = i.runtime
         /\ Runs(g, i)[Len(Runs(g, i))].name = Abi.name
         /\ Runs(g, i)[Len(Runs(g, i))].inputs = Abi.inputs
<1>1. g \in Seq(Transition) /\ g # <<>> /\ Asked(g)
  BY CallgraphsAssumption
<1>2. Len(g) \in DOMAIN g /\ DOMAIN g = 1..Len(g) /\ Len(g) \in Nat
  BY <1>1
<1>3. \A j \in DOMAIN g : Runs(g, i)[j] \in Transition
  <2> SUFFICES ASSUME NEW j \in DOMAIN g PROVE Runs(g, i)[j] \in Transition
    OBVIOUS
  <2>1. g[j] \in Transition /\ i.runtime \in STRING
    BY <1>1, InstancesAssumption
  <2> QED BY <2>1 DEF Runs, Transition
<1>4. DOMAIN Runs(g, i) = 1..Len(g)
  BY <1>2 DEF Runs
<1>5. Runs(g, i) \in [1..Len(g) -> Transition]
  BY <1>2, <1>3, <1>4 DEF Runs
<1>6. Runs(g, i) \in Seq(Transition) /\ Len(Runs(g, i)) = Len(g)
  BY <1>2, <1>5
<1>7. g[Len(g)] \in Transition
  BY <1>1, <1>2
<1>8. Runs(g, i)[Len(g)] = [g[Len(g)] EXCEPT !.program = i.runtime]
  BY <1>1, <1>2, <1>7 DEF Runs, Asked, Transition
<1> QED BY <1>1, <1>2, <1>4, <1>6, <1>7, <1>8 DEF Asked, Transition

(* What the network shows of it has its program, name and place *)
LEMMA ConfirmedFacts ==
  ASSUME NEW graph, NEW j \in DOMAIN graph
  PROVE  /\ DOMAIN parseConfirmedTransitions(graph) = DOMAIN graph
         /\ parseConfirmedTransitions(graph)[j].programId = graph[j].program
         /\ parseConfirmedTransitions(graph)[j].transitionName = graph[j].name
         /\ parseConfirmedTransitions(graph)[j].transitionPublicKey = j
         /\ DOMAIN parseConfirmedTransitions(graph)[j].rawOutputs = DOMAIN graph[j].outputs
         /\ \A i \in DOMAIN graph[j].outputs :
              parseConfirmedTransitions(graph)[j].rawOutputs[i] = RawOutput(graph[j], j, i)
BY DEF parseConfirmedTransitions, parseTransition

(* So the only transition of that program and name is the last one *)
LEMMA SelectedIsLast ==
  ASSUME NEW g \in Callgraphs, NEW i \in Instances,
         NEW t \in selectAcceptedTransition(i.runtime, Abi.name, parseConfirmedTransitions(Runs(g, i)))
  PROVE  t = parseConfirmedTransitions(Runs(g, i))[Len(Runs(g, i))]
<1> DEFINE graph == Runs(g, i)
           matches == Matching(i.runtime, Abi.name, parseConfirmedTransitions(graph))
<1>1. Len(graph) \in DOMAIN graph /\ graph[Len(graph)].program = i.runtime /\ graph[Len(graph)].name = Abi.name
  BY AskedLast
<1> HIDE DEF graph
<1>2. Len(graph) \in matches
  BY <1>1, ConfirmedFacts DEF Matching
<1>3. PICK j \in matches : matches = {j} /\ t = parseConfirmedTransitions(graph)[j]
  BY DEF selectAcceptedTransition, Only, graph
<1> QED BY <1>2, <1>3 DEF graph

-----------------------------------------------------------------------------
(* No call has begun *)
LEMMA ContractStarts == ContractInit => CallsInv
BY DEF ContractInit, CallsInv, TxsInv, CallInv, CallFields, Idle

(* What a call knows and was told stays true while transactions are sent   *)
(* and decided                                                             *)
LEMMA CallKeeps ==
  ASSUME TxsInv, TxsGrow, NEW c, CallInv(c), call'[c] = call[c]
  PROVE  CallInv(c)'
<1>1. Known(c) => Known(c)' /\ (CallTx(c).status # "pending" => CallTx(c)'.status = CallTx(c).status)
  BY DEF Known, CallTx, TxsGrow
<1>2. Told(c) => Told(c)'
  BY <1>1 DEF Told
<1> QED BY <1>1, <1>2 DEF CallInv, NoResult, Outcome


(* A step of one call leaves the others alone *)
LEMMA OneCallStep ==
  ASSUME CallsInv, TxsGrow, TxsInv', NEW c \in Callers, DOMAIN call' = Callers,
         \A d \in Callers : d # c => call'[d] = call[d], CallInv(c)'
  PROVE  CallsInv'
<1>1. \A d \in Callers : d # c => CallInv(d)'
  BY CallKeeps DEF CallsInv
<1> QED BY <1>1 DEF CallsInv

(* Sending adds a transaction at the end *)
LEMMA SentGrows ==
  ASSUME TxsInv, NEW graph \in Graphs, txs' = Sent(graph)
  PROVE  /\ TxsInv' /\ TxsGrow
         /\ Len(txs') \in DOMAIN txs' /\ Len(txs') # 0 /\ txs'[Len(txs')].graph = graph
<1> DEFINE new == [graph |-> graph, status |-> "pending", shown |-> <<>>]
<1>1. new \in Tx /\ txs \in Seq(Tx) /\ txs' = Append(txs, new)
  BY DEF Tx, Sent, TxsInv
<1>2. /\ txs' \in Seq(Tx) /\ Len(txs') = Len(txs) + 1 /\ Len(txs) \in Nat /\ txs'[Len(txs) + 1] = new
      /\ DOMAIN txs' = 1..(Len(txs) + 1) /\ DOMAIN txs = 1..Len(txs)
      /\ \A n \in DOMAIN txs : txs'[n] = txs[n]
  BY <1>1
<1>3. TxsInv'
  <2> SUFFICES ASSUME NEW n \in DOMAIN txs', txs'[n].status = "accepted"
               PROVE  txs'[n].shown = parseConfirmedTransitions(txs'[n].graph)
    BY <1>2 DEF TxsInv
  <2>1. n \in DOMAIN txs
    BY <1>2
  <2> QED BY <1>2, <2>1 DEF TxsInv
<1> QED BY <1>2, <1>3 DEF TxsGrow

(* While nothing is sent or decided the transactions stay *)
LEMMA TxsStay ==
  ASSUME TxsInv, UNCHANGED txs
  PROVE  TxsInv' /\ TxsGrow
BY DEF TxsInv, TxsGrow

(* A new call knows nothing *)
LEMMA BeginStep ==
  ASSUME CallsInv, NEW c \in Callers, NEW method, NEW instance \in Instances, Begin(c, method, instance)
  PROVE  CallsInv'
<1>1. CallInv(c)'
  BY DEF CallsInv, CallInv, Begin, Idle, CallFields
<1> QED BY <1>1, TxsStay, OneCallStep DEF CallsInv, Begin

(* What the local machine did is what is said of it *)
LEMMA LocalStep ==
  ASSUME CallsInv, NEW c \in Callers, NEW vm, executeLocal(c, vm) \/ expectLocalFailure(c, vm)
  PROVE  CallsInv'
<1>1. PICK kind : /\ Ends(c, vm, kind) /\ UNCHANGED txs
                  /\ kind \in {"outputs", "LocalTransitionError", "expected failure",
                               "UnexpectedLocalSuccessError", "TransactionShapeError", "error"}
                  /\ kind = "expected failure" => vm = "traps"
                  /\ kind = "UnexpectedLocalSuccessError" => vm = "runs"
                  /\ call[c].pc = "local"
  <2>1. CASE executeLocal(c, vm)
    BY <2>1 DEF executeLocal
  <2>2. CASE expectLocalFailure(c, vm)
    <3>1. CASE vm = "traps"
      BY <2>2, <3>1 DEF expectLocalFailure
    <3>2. CASE vm = "runs"
      BY <2>2, <3>2 DEF expectLocalFailure
    <3>3. CASE vm \notin {"traps", "runs"}
      BY <2>2, <3>3 DEF expectLocalFailure
    <3> QED BY <3>1, <3>2, <3>3
  <2> QED BY <2>1, <2>2
<1>2. /\ call'[c].pc = "done" /\ call'[c].vm = vm /\ call'[c].result = Outcome(kind)
      /\ call'[c].instance = call[c].instance /\ DOMAIN call'[c] = CallFields
      /\ DOMAIN call' = Callers /\ \A d \in Callers : d # c => call'[d] = call[d]
  BY <1>1 DEF CallsInv, CallInv, CallFields, Ends
<1>3. call'[c].result.kind = kind
  BY <1>2 DEF Outcome
<1>4. Told(c)'
  BY <1>1, <1>2, <1>3 DEF Told
<1>5. CallInv(c)'
  BY <1>1, <1>2, <1>4 DEF CallsInv, CallInv
<1> QED BY <1>1, <1>2, <1>5, TxsStay, OneCallStep DEF CallsInv

(* A submission that fails says nothing of the chain *)
LEMMA SubmitFailsStep ==
  ASSUME CallsInv, NEW c \in Callers, NEW graph \in {Runs(g, call[c].instance) : g \in Callgraphs},
         SubmitFails(c, graph)
  PROVE  CallsInv'
<1>1. /\ call[c].pc = "submit" /\ call[c].instance \in Instances /\ graph \in Graphs
      /\ DOMAIN call = Callers /\ DOMAIN call[c] = CallFields /\ TxsInv
  BY DEF SubmitFails, CallsInv, CallInv, Graphs
<1>2. PICK why \in {"TransitionSubmissionError", "TransactionShapeError"} : Finish(c, Outcome(why))
  BY DEF SubmitFails
<1>3. CallInv(c)'
  BY <1>1, <1>2 DEF CallsInv, CallInv, Finish, Told, Outcome, CallFields
<1>4. TxsInv' /\ TxsGrow
  BY <1>1, SentGrows, TxsStay DEF SubmitFails
<1> QED BY <1>1, <1>2, <1>3, <1>4, OneCallStep DEF Finish

(* A call knows the transaction it sent *)
LEMMA SubmitStep ==
  ASSUME CallsInv, NEW c \in Callers, NEW graph \in {Runs(g, call[c].instance) : g \in Callgraphs},
         submitTransition(c, graph)
  PROVE  CallsInv'
<1>1. /\ call[c].pc = "submit" /\ call[c].instance \in Instances /\ graph \in Graphs
      /\ DOMAIN call = Callers /\ DOMAIN call[c] = CallFields /\ TxsInv /\ call[c].result = NoResult
  BY DEF submitTransition, CallsInv, CallInv, Graphs
<1>2. TxsInv' /\ TxsGrow /\ Len(txs') \in DOMAIN txs' /\ Len(txs') # 0 /\ txs'[Len(txs')].graph = graph
  BY <1>1, SentGrows DEF submitTransition
<1>3. /\ call'[c].tx = Len(txs') /\ call'[c].graph = graph /\ call'[c].instance = call[c].instance
      /\ \/ call'[c].pc = "done" /\ call'[c].result = Outcome("submitted")
         \/ call'[c].pc = "confirm" /\ call'[c].result = NoResult
      /\ DOMAIN call'[c] = CallFields
      /\ DOMAIN call' = Callers /\ \A d \in Callers : d # c => call'[d] = call[d]
  BY <1>1 DEF submitTransition, CallFields
<1>4. Known(c)'
  BY <1>2, <1>3 DEF Known, CallTx
<1>5. ASSUME call'[c].pc = "done" PROVE Told(c)'
  <2>1. call'[c].result.kind = "submitted"
    BY <1>3, <1>5 DEF Outcome
  <2> QED BY <1>4, <2>1 DEF Told
<1>6. CallInv(c)'
  BY <1>1, <1>3, <1>4, <1>5 DEF CallInv
<1> QED BY <1>2, <1>3, <1>6, OneCallStep

(* The chain decides a transaction once and shows what it ran *)
LEMMA DecidedStep ==
  ASSUME CallsInv, NEW id \in DOMAIN txs, NEW verdict \in {"accepted", "rejected"}, Decided(id, verdict)
  PROVE  CallsInv'
<1>1. PICK shown \in {<<>>, txs[id].graph} :
        /\ txs' = [txs EXCEPT ![id] =
             [@ EXCEPT !.status = verdict, !.shown = parseConfirmedTransitions(shown)]]
        /\ verdict = "accepted" => shown = txs[id].graph
  BY DEF Decided
<1>2. txs[id].status = "pending" /\ UNCHANGED call /\ txs \in Seq(Tx) /\ txs[id] \in Tx
  BY DEF Decided, CallsInv, TxsInv
<1> DEFINE new == [graph |-> txs[id].graph, status |-> verdict, shown |-> parseConfirmedTransitions(shown)]
<1>3. new \in Tx
  BY <1>1, <1>2 DEF Tx
<1>4. txs'[id] = new /\ DOMAIN txs' = DOMAIN txs /\ \A n \in DOMAIN txs : n # id => txs'[n] = txs[n]
  BY <1>1, <1>2 DEF Tx
<1>5. txs' \in Seq(Tx)
  <2>1. \A n \in DOMAIN txs : txs'[n] \in Tx
    BY <1>2, <1>3, <1>4
  <2>2. txs' = [txs EXCEPT ![id] = txs'[id]]
    BY <1>1, <1>2
  <2> QED BY <1>2, <2>1, <2>2
<1>6. TxsInv' /\ TxsGrow
  BY <1>1, <1>2, <1>4, <1>5 DEF TxsInv, TxsGrow, CallsInv
<1> QED BY <1>2, <1>6, CallKeeps DEF CallsInv

(* After a timeout the call knows the transaction it gave up on *)
LEMMA ConfirmationStep ==
  ASSUME CallsInv, NEW c \in Callers, NEW why, ConfirmationFails(c, why)
  PROVE  CallsInv'
<1>1. /\ DOMAIN call'[c] = CallFields /\ call'[c].pc = "done" /\ call'[c].result = Outcome(why)
      /\ call'[c].instance = call[c].instance /\ call'[c].tx = call[c].tx /\ call'[c].graph = call[c].graph
      /\ DOMAIN call' = Callers /\ \A d \in Callers : d # c => call'[d] = call[d]
  BY DEF ConfirmationFails, Finish, CallsInv, CallInv, CallFields
<1>2. Known(c)'
  BY <1>1 DEF ConfirmationFails, CallsInv, CallInv, Known, CallTx
<1>3. call'[c].result.kind \in {"TransactionConfirmationTimeoutError", "TransactionShapeError"}
  BY <1>1 DEF ConfirmationFails, Outcome
<1>4. Told(c)'
  BY <1>2, <1>3 DEF Told
<1>5. CallInv(c)'
  BY <1>1, <1>4 DEF ConfirmationFails, CallsInv, CallInv
<1> QED BY <1>1, <1>5, TxsStay, OneCallStep DEF ConfirmationFails, CallsInv


(* The one answer of the chain a call can settle on: of a rejected         *)
(* transaction that it was, of an accepted one the outputs of the          *)
(* transition asked for, with all that ran                                 *)
LEMMA SettledOn ==
  ASSUME CallsInv, NEW c \in Callers, Known(c), call[c].instance \in Instances,
         CallTx(c).status # "pending", NEW s \in Settled(c)
  PROVE  LET last == Len(call[c].graph)
             shown == parseConfirmedTransitions(call[c].graph)
         IN  \/ CallTx(c).status = "rejected" /\ s.kind = "rejected"
             \/ /\ CallTx(c).status = "accepted" /\ s.kind = "accepted" /\ s.tpk = last
                /\ s.transitions = shown /\ s.rawOutputs = shown[last].rawOutputs
<1> DEFINE last == Len(call[c].graph)
           shown == parseConfirmedTransitions(call[c].graph)
<1>1. CallTx(c) \in Tx /\ CallTx(c).graph = call[c].graph
  BY DEF CallsInv, TxsInv, Known, CallTx
<1>2. CASE CallTx(c).status = "rejected"
  BY <1>2 DEF Settled, CallTx
<1>3. CASE CallTx(c).status = "accepted"
  <2>1. CallTx(c).shown = shown
    BY <1>1, <1>3 DEF CallsInv, TxsInv, Known, CallTx
  <2>2. PICK t \in selectAcceptedTransition(call[c].instance.runtime, Abi.name, shown) :
          s = [kind |-> "accepted", rawOutputs |-> t.rawOutputs, tpk |-> t.transitionPublicKey,
               transitions |-> shown]
    BY <1>3, <2>1 DEF Settled, CallTx
  <2>3. PICK g \in Callgraphs : call[c].graph = Runs(g, call[c].instance)
    BY DEF Known
  <2>4. t = shown[last]
    BY <2>2, <2>3, SelectedIsLast
  <2>5. t.transitionPublicKey = last
    BY <2>3, <2>4, AskedLast, ConfirmedFacts
  <2> QED BY <1>3, <2>2, <2>4, <2>5
<1> QED BY <1>1, <1>2, <1>3 DEF Tx

(* What is answered of it depends on the method that was called *)
LEMMA AnswerKinds ==
  ASSUME NEW method, NEW s, s.kind \in {"accepted", "rejected"}
  PROVE  \/ s.kind = "rejected" /\ (Answer(method, s) = Outcome("OnChainRejectedError") \/ Answer(method, s) = s)
         \/ /\ s.kind = "accepted"
            /\ \/ Answer(method, s) \in {Outcome("UnexpectedTransactionStatusError"),
                                         Outcome("TransactionShapeError")}
               \/ Answer(method, s) = s
<1>1. CASE s.kind = "rejected"
  <2>1. Answer(method, s) = IF method = "accepted" THEN Outcome("OnChainRejectedError") ELSE s
    BY <1>1 DEF Answer
  <2> QED BY <1>1, <2>1
<1>2. CASE s.kind = "accepted" /\ method = "rejected"
  BY <1>2 DEF Answer
<1>3. CASE s.kind = "accepted" /\ method # "rejected"
  BY <1>3 DEF Answer
<1> QED BY <1>1, <1>2, <1>3

(* A call that settles tells what became of its transaction *)
LEMMA SettleStep ==
  ASSUME CallsInv, NEW c \in Callers, settleTransition(c)
  PROVE  CallsInv'
<1> DEFINE result == IF Settled(c) = {} THEN Outcome("TransactionShapeError")
                     ELSE Answer(call[c].method, Chosen(Settled(c)))
<1>1. /\ Known(c) /\ call[c].instance \in Instances /\ CallTx(c).status # "pending"
      /\ UNCHANGED txs /\ call' = [call EXCEPT ![c].pc = "done", ![c].result = result]
  BY DEF settleTransition, Finish, CallsInv, CallInv, CallTx
<1>2. result = Outcome("TransactionShapeError")
      \/ \E s \in Settled(c) : result = Answer(call[c].method, s)
  BY DEF Chosen
<1> HIDE DEF result
<1>3. /\ DOMAIN call'[c] = CallFields /\ call'[c].pc = "done" /\ call'[c].result = result
      /\ call'[c].instance = call[c].instance /\ call'[c].tx = call[c].tx /\ call'[c].graph = call[c].graph
      /\ DOMAIN call' = Callers /\ \A d \in Callers : d # c => call'[d] = call[d]
  BY <1>1 DEF CallsInv, CallInv, CallFields
<1>4. Known(c)' /\ CallTx(c)' = CallTx(c)
  BY <1>1, <1>3 DEF Known, CallTx
<1>5. Told(c)'
  <2>1. CASE result = Outcome("TransactionShapeError")
    <3>1. call'[c].result.kind = "TransactionShapeError"
      BY <1>3, <2>1 DEF Outcome
    <3> QED BY <3>1 DEF Told
  <2>2. ASSUME NEW s \in Settled(c), result = Answer(call[c].method, s) PROVE Told(c)'
    <3> DEFINE last == Len(call[c].graph)
               shown == parseConfirmedTransitions(call[c].graph)
    <3>1. \/ CallTx(c).status = "rejected" /\ s.kind = "rejected"
          \/ /\ CallTx(c).status = "accepted" /\ s.kind = "accepted" /\ s.tpk = last
             /\ s.transitions = shown /\ s.rawOutputs = shown[last].rawOutputs
      BY <1>1, SettledOn
    <3>2. CASE result = s
      <4>1. call'[c].result = s
        BY <1>3, <3>2
      <4>2. CASE s.kind = "rejected"
        BY <1>4, <3>1, <4>1, <4>2 DEF Told
      <4>3. CASE s.kind = "accepted"
        BY <1>3, <1>4, <3>1, <4>1, <4>3 DEF Told
      <4> QED BY <3>1, <4>2, <4>3
    <3>3. CASE result = Outcome("OnChainRejectedError") /\ s.kind = "rejected"
      <4>1. call'[c].result.kind = "OnChainRejectedError"
        BY <1>3, <3>3 DEF Outcome
      <4> QED BY <1>4, <3>1, <3>3, <4>1 DEF Told
    <3>4. CASE result = Outcome("UnexpectedTransactionStatusError") /\ s.kind = "accepted"
      <4>1. call'[c].result.kind = "UnexpectedTransactionStatusError"
        BY <1>3, <3>4 DEF Outcome
      <4> QED BY <1>4, <3>1, <3>4, <4>1 DEF Told
    <3> QED BY <2>1, <2>2, <3>1, <3>2, <3>3, <3>4, AnswerKinds
  <2> QED BY <1>2, <2>1, <2>2
<1>6. CallInv(c)'
  BY <1>1, <1>3, <1>5 DEF CallInv
<1> QED BY <1>1, <1>3, <1>6, TxsStay, OneCallStep DEF CallsInv

(* Every step of a contract keeps what its calls know *)
LEMMA ContractStep ==
  ASSUME CallsInv, [ContractNext]_contractVars
  PROVE  CallsInv'
<1>1. CASE UNCHANGED contractVars
  <2>1. TxsInv' /\ TxsGrow /\ call' = call
    BY <1>1, TxsStay DEF contractVars, CallsInv
  <2> QED BY <2>1, CallKeeps DEF CallsInv
<1>2. CASE ContractNext
  BY <1>2, BeginStep, LocalStep, SubmitFailsStep, SubmitStep, SettleStep, ConfirmationStep, DecidedStep
     DEF ContractNext
<1> QED BY <1>1, <1>2

-----------------------------------------------------------------------------
(* What a call of generated bindings says of the chain and of the machine  *)
(* is so, for any number of calls, programs and transactions: an accepted  *)
(* result holds the outputs of the transition that was called and of no    *)
(* other of its transaction (settleTransition, selectAcceptedTransition,   *)
(* expectLocalFailure).                                                    *)
THEOREM OutcomesCorrect == ContractSpec => []OutcomesTruthful
<1>1. ContractInit => CallsInv
  BY ContractStarts
<1>2. CallsInv /\ [ContractNext]_contractVars => CallsInv'
  BY ContractStep
<1>3. CallsInv => OutcomesTruthful
  <2> SUFFICES ASSUME CallsInv, NEW c \in Callers, call[c].pc = "done"
               PROVE  LET k == call[c].result.kind
                          is(verdict) == call[c].tx # 0 /\ txs[call[c].tx].status = verdict
                      IN  /\ k = "accepted" =>
                               /\ is("accepted")
                               /\ call[c].result.tpk = Len(txs[call[c].tx].graph)
                               /\ call[c].result.rawOutputs
                                    = parseConfirmedTransitions(call[c].graph)[call[c].result.tpk].rawOutputs
                          /\ k \in {"rejected", "OnChainRejectedError"} => is("rejected")
                          /\ k = "UnexpectedTransactionStatusError" => is("accepted")
                          /\ k = "expected failure" => call[c].vm = "traps"
                          /\ k = "UnexpectedLocalSuccessError" => call[c].vm = "runs"
                          /\ k \in {"submitted", "TransactionConfirmationTimeoutError"} =>
                               txs[call[c].tx].graph = call[c].graph
    BY DEF OutcomesTruthful
  <2>1. Told(c)
    BY DEF CallsInv, CallInv
  <2> QED BY <2>1 DEF Told, Known, CallTx
<1> QED BY <1>1, <1>2, <1>3, PTL DEF ContractSpec


-----------------------------------------------------------------------------
(* Handles of the outputs                                                  *)

(* A ciphertext that opens as a record is an output of that kind, and      *)
(* opens for its owner only, as the record that was made                   *)
LEMMA OpensRecord ==
  ASSUME NEW t \in Transition, NEW j, NEW i \in DOMAIN t.outputs, NEW key,
         NEW d \in decryptRecord(RawOutput(t, j, i), key)
  PROVE  /\ d = RawOutput(t, j, i).of /\ d.owner = key /\ d.program = t.program /\ d.at = <<j, i>>
<1> DEFINE o == t.outputs[i]
<1>1. CASE o.kind = "record"
  BY <1>1 DEF decryptRecord, decryptRecordCiphertext, RawOutput
<1>2. CASE o.kind = "private"
  BY <1>2 DEF decryptRecord, decryptRecordCiphertext, RawOutput
<1>3. CASE o.kind \in {"external", "dynamic"}
  BY <1>3 DEF decryptRecord, decryptRecordCiphertext, RawOutput
<1>4. CASE o.kind \notin {"record", "private", "external", "dynamic"}
  BY <1>4 DEF decryptRecord, decryptRecordCiphertext, RawOutput
<1> QED BY <1>1, <1>2, <1>3, <1>4

(* An output of the call is opened by its owner and nobody else: a private *)
(* value under its place among the inputs and outputs of the transition    *)
LEMMA OpensOwn ==
  ASSUME NEW t \in Transition, NEW j, NEW i \in DOMAIN t.outputs, NEW key, NEW instance,
         t.program = instance.runtime, t.name = Abi.name, t.inputs = Abi.inputs
  PROVE  /\ t.outputs[i].kind = "private" =>
              (makeEncryptedValue(instance, RawOutput(t, j, i), j, i, key) # {} <=> t.outputs[i].owner = key)
         /\ t.outputs[i].kind = "record" =>
              (decryptRecord(RawOutput(t, j, i), key) # {} <=> t.outputs[i].owner = key)
<1>1. CASE t.outputs[i].kind = "private"
  <2> DEFINE ct == [tpk |-> j, program |-> t.program, transition |-> t.name,
                    index |-> t.inputs + i - 1, owner |-> t.outputs[i].owner]
             mine == [tpk |-> j, program |-> instance.runtime, transition |-> Abi.name,
                      index |-> globalIndex(i), owner |-> key]
  <2>1. RawOutput(t, j, i).of = ct
    BY <1>1 DEF RawOutput
  <2>2. ct = mine <=> t.outputs[i].owner = key
    <3>1. ct = mine => t.outputs[i].owner = key
      <4> SUFFICES ASSUME ct = mine PROVE t.outputs[i].owner = key
        OBVIOUS
      <4>1. ct.owner = t.outputs[i].owner /\ mine.owner = key
        OBVIOUS
      <4> QED BY <4>1
    <3>2. t.outputs[i].owner = key => ct = mine
      BY DEF globalIndex
    <3> QED BY <3>1, <3>2
  <2>3. makeEncryptedValue(instance, RawOutput(t, j, i), j, i, key) # {} <=> RawOutput(t, j, i).of = mine
    BY DEF makeEncryptedValue, decryptValueCiphertext
  <2> QED BY <1>1, <2>1, <2>2, <2>3
<1>2. CASE t.outputs[i].kind = "record"
  BY <1>2 DEF RawOutput, decryptRecord, decryptRecordCiphertext
<1> QED BY <1>1, <1>2

(* What a bound matcher means by its program *)
LEMMA BoundMatcher ==
  ASSUME NEW instance \in Instances, NEW transitions, NEW m \in Matchers(instance, transitions)
  PROVE  /\ bindOwnRuntimeMatcher(m, instance).program
              = IF m.program = instance.source THEN instance.runtime ELSE m.program
         /\ bindOwnRuntimeMatcher(m, instance).record = m.record
<1>1. DOMAIN m = {"program", "record", "source"}
  BY DEF Matchers
<1> QED BY <1>1 DEF bindOwnRuntimeMatcher, bindRecordOutputMatcherProgram

(* A source names transitions of the transaction *)
LEMMA SourceWithin ==
  ASSUME NEW transitions, NEW source, NEW t \in resolveIdOnlySource(transitions, source)
  PROVE  \E j \in DOMAIN transitions : t = transitions[j]
BY DEF resolveIdOnlySource, Matching, Only

(* An output by its id is given as a record of the matcher's program, from *)
(* the transition that made it                                             *)
LEMMA OpensById ==
  ASSUME NEW graph \in Seq(Transition), NEW m, NEW key,
         NEW d \in resolveAndDecryptIdOnly(parseConfirmedTransitions(graph), m, key)
  PROVE  /\ d.program = m.program /\ d.owner = key
         /\ parseConfirmedTransitions(graph)[d.at[1]].rawOutputs[d.at[2]].of = d
<1> DEFINE i == m.source.outputIndex
<1>1. PICK t : /\ t \in resolveIdOnlySource(parseConfirmedTransitions(graph), m.source)
               /\ t.programId = m.program /\ i \in DOMAIN t.rawOutputs
               /\ d \in decryptRecord(t.rawOutputs[i], key)
  BY DEF resolveAndDecryptIdOnly
<1>2. PICK j \in DOMAIN graph : t = parseConfirmedTransitions(graph)[j]
  BY <1>1, SourceWithin DEF parseConfirmedTransitions
<1>3. /\ graph[j] \in Transition /\ i \in DOMAIN graph[j].outputs
      /\ t.rawOutputs[i] = RawOutput(graph[j], j, i) /\ m.program = graph[j].program
  BY <1>1, <1>2, ConfirmedFacts
<1>4. d = RawOutput(graph[j], j, i).of /\ d.owner = key /\ d.program = graph[j].program /\ d.at = <<j, i>>
  BY <1>1, <1>3, OpensRecord
<1> QED BY <1>2, <1>3, <1>4


(* So a call that was accepted gives handles that open what they stand for *)
LEMMA HandlesOfCalls == CallsInv => HandlesFaithful
<1> SUFFICES ASSUME CallsInv, NEW c \in Callers, call[c].result.kind = "accepted", NEW key \in Owners
             PROVE  LET r == call[c].result
                        inst == call[c].instance
                        Meant(p) == IF p = inst.source THEN inst.runtime ELSE p
                    IN  /\ \A i \in DOMAIN Abi.outputs \cap DOMAIN r.rawOutputs :
                             LET o == call[c].graph[r.tpk].outputs[i]
                             IN  o.kind = Abi.outputs[i].kind =>
                                 /\ o.kind = "private" =>
                                      (makeEncryptedValue(inst, r.rawOutputs[i], r.tpk, i, key) # {}
                                         <=> o.owner = key)
                                 /\ o.kind = "record" =>
                                      /\ decryptRecord(r.rawOutputs[i], key) # {} <=> o.owner = key
                                      /\ \A m \in Matchers(inst, r.transitions) :
                                           matchEncryptedRecord(inst, Abi.outputs[i].record,
                                                                r.rawOutputs[i], m, key) # {} =>
                                             Meant(m.program) = inst.runtime /\ m.record = Abi.outputs[i].record
                        /\ \A m \in Matchers(inst, r.transitions) :
                             \A d \in matchIdOnly(inst, r.transitions, m, key) :
                               /\ d.program = Meant(m.program) /\ d.owner = key
                               /\ r.transitions[d.at[1]].rawOutputs[d.at[2]].of = d
  BY DEF HandlesFaithful
<1> DEFINE r == call[c].result
           inst == call[c].instance
           graph == call[c].graph
           last == Len(graph)
           Meant(p) == IF p = inst.source THEN inst.runtime ELSE p
<1>1. call[c].pc = "done" /\ Told(c)
  BY DEF CallsInv, CallInv, NoResult, Outcome
<1>2. inst \in Instances
  BY <1>1 DEF CallsInv, CallInv
<1>3. PICK g \in Callgraphs : graph = Runs(g, inst)
  BY <1>1 DEF Told, Known
<1>4. /\ graph \in Seq(Transition) /\ last \in DOMAIN graph /\ graph[last] \in Transition
      /\ graph[last].program = inst.runtime /\ graph[last].name = Abi.name /\ graph[last].inputs = Abi.inputs
  BY <1>2, <1>3, AskedLast
<1>5. /\ r.tpk = last /\ r.transitions = parseConfirmedTransitions(graph)
      /\ r.rawOutputs = parseConfirmedTransitions(graph)[last].rawOutputs
  BY <1>1 DEF Told
<1> HIDE DEF r, inst, graph, last
<1>6. ASSUME NEW i \in DOMAIN Abi.outputs \cap DOMAIN r.rawOutputs
      PROVE  /\ graph[last].outputs[i].kind = "private" =>
                  (makeEncryptedValue(inst, r.rawOutputs[i], last, i, key) # {}
                     <=> graph[last].outputs[i].owner = key)
             /\ graph[last].outputs[i].kind = "record" =>
                  (decryptRecord(r.rawOutputs[i], key) # {} <=> graph[last].outputs[i].owner = key)
  <2>1. i \in DOMAIN graph[last].outputs /\ r.rawOutputs[i] = RawOutput(graph[last], last, i)
    BY <1>4, <1>5, ConfirmedFacts, SMTT(30)
  <2> DEFINE t == graph[last]
  <2>2. /\ t \in Transition /\ i \in DOMAIN t.outputs
        /\ t.program = inst.runtime /\ t.name = Abi.name /\ t.inputs = Abi.inputs
    BY <1>4, <2>1
  <2> HIDE DEF t
  <2>3. /\ t.outputs[i].kind = "private" =>
              (makeEncryptedValue(inst, RawOutput(t, last, i), last, i, key) # {} <=> t.outputs[i].owner = key)
        /\ t.outputs[i].kind = "record" =>
              (decryptRecord(RawOutput(t, last, i), key) # {} <=> t.outputs[i].owner = key)
    BY <2>2, OpensOwn, SMTT(30)
  <2> QED BY <2>1, <2>3 DEF t
<1>7. ASSUME NEW i, NEW m \in Matchers(inst, r.transitions),
             matchEncryptedRecord(inst, Abi.outputs[i].record, r.rawOutputs[i], m, key) # {}
      PROVE  Meant(m.program) = inst.runtime /\ m.record = Abi.outputs[i].record
  BY <1>2, <1>7, BoundMatcher DEF matchEncryptedRecord
<1>8. ASSUME NEW m \in Matchers(inst, r.transitions), NEW d \in matchIdOnly(inst, r.transitions, m, key)
      PROVE  /\ d.program = Meant(m.program) /\ d.owner = key
             /\ r.transitions[d.at[1]].rawOutputs[d.at[2]].of = d
  <2>1. d \in resolveAndDecryptIdOnly(parseConfirmedTransitions(graph), bindOwnRuntimeMatcher(m, inst), key)
    BY <1>5, <1>8 DEF matchIdOnly
  <2>2. bindOwnRuntimeMatcher(m, inst).program = Meant(m.program)
    BY <1>2, <1>8, BoundMatcher
  <2> QED BY <1>4, <1>5, <2>1, <2>2, OpensById
<1> QED BY <1>5, <1>6, <1>7, <1>8 DEF r, inst, graph, last

(* Handles of an accepted call open what they stand for, for any calls,    *)
(* programs, transactions and owners: a private output and a record its    *)
(* owner's, and a matcher only a record of its program, which for the      *)
(* program of the bindings is the one the contract is pointed at           *)
(* (makeEncryptedRecord, makeEncryptedValue, resolveAndDecryptIdOnly).     *)
THEOREM HandlesCorrect == ContractSpec => []HandlesFaithful
<1>1. ContractInit => CallsInv
  BY ContractStarts
<1>2. CallsInv /\ [ContractNext]_contractVars => CallsInv'
  BY ContractStep
<1> QED BY <1>1, <1>2, HandlesOfCalls, PTL DEF ContractSpec

-----------------------------------------------------------------------------
(* Executions in one process                                               *)


Captured(c) == path[c] # "check"

Capturing == {c \in Calls : Captured(c) /\ pc[c] \in {"trap", "running", "caught"}}

(* A call that waits for the trap lock or has it has a ticket of its own that *)
(* is not yet served out, and the one that runs has the ticket being served.  *)
TrapLocked ==
  /\ trapServing <= trapNext
  /\ \A c \in Calls : pc[c] \in {"trap", "running"} => trapServing <= trapTicket[c] /\ trapTicket[c] < trapNext
  /\ \A c, d \in Calls :
       pc[c] \in {"trap", "running"} /\ pc[d] \in {"trap", "running"} /\ trapTicket[c] = trapTicket[d] => c = d
  /\ \A c \in Calls : pc[c] = "running" => trapTicket[c] = trapServing

(* The handlers installed are those of the running call, whose operation is   *)
(* the only one that can be pending.                                          *)
TrapOwned ==
  /\ handlers = {c \in Calls : pc[c] = "running"}
  /\ \A c \in Calls : op[c] = "pending" => pc[c] = "running" /\ race[c] = "open"
  /\ \A c \in Calls : pc[c] \in {"idle", "sink", "trap"} => race[c] = "open"
  /\ TrapsReachTheirCall

(* The same for the lock of each sink, which is held to the end of a capture. *)
SinkLocked ==
  /\ \A s \in Sinks : sinkServing[s] <= sinkNext[s]
  /\ \A c \in Calls : pc[c] = "sink" => Captured(c)
  /\ \A c \in Calls :
       pc[c] = "sink" \/ c \in Capturing
         => sinkServing[sink[c]] <= sinkTicket[c] /\ sinkTicket[c] < sinkNext[sink[c]]
  /\ \A c, d \in Calls :
       /\ pc[c] = "sink" \/ c \in Capturing
       /\ pc[d] = "sink" \/ d \in Capturing
       /\ sink[c] = sink[d] /\ sinkTicket[c] = sinkTicket[d]
       => c = d
  /\ \A c \in Capturing : sinkTicket[c] = sinkServing[sink[c]]

(* A sink that a call has taken holds state queries of that call only.        *)
SinkOwned ==
  /\ \A c \in Calls : op[c] = "pending" /\ path[c] = "prove" => c \in Capturing
  /\ \A c \in Capturing : \A f \in failures[sink[c]] : f.request = "stateQuery" => f.call = c
  /\ \A c \in Calls : pc[c] = "caught" => Captured(c)
  /\ BlamesOwnQueries

(* What waitForConfirmation has read does not change any more.                *)
Confirmed ==
  /\ \A c \in Calls :
       pc[c] \in {"blockHash", "blockHeight"} => status[c] = tx[c] /\ tx[c] \in {"accepted", "rejected"}
  /\ OutputsOfAccepted

(* The count of suppressions is the number of captures under way.             *)
Counted ==
  /\ suppressions = Cardinality(Capturing)
  /\ suppressions = 0 => console = "original"
  /\ suppressions > 0 => console = "filtered" /\ saved = "original"

ExecutionInv == ExecutionTypeOK /\ TrapLocked /\ TrapOwned /\ SinkLocked /\ SinkOwned
                /\ Confirmed /\ Counted

-----------------------------------------------------------------------------
(* After a capture the call is over, broadcasts or polls, which a call that   *)
(* awaits its transaction does not skip.                                      *)
LEMMA AfterCapturePhase ==
  ASSUME NEW c \in Calls
  PROVE  /\ AfterCapture(c) \in {"failed", "returned", "broadcast", "confirmed"}
         /\ awaits[c] => AfterCapture(c) # "returned"
<1>1. awaits[c] => path[c] # "local"
  BY ExecutionAssumption
<1>2. CASE path[c] = "local"
  BY <1>1, <1>2 DEF AfterCapture
<1>3. CASE path[c] = "fast"
  BY <1>3 DEF AfterCapture
<1>4. CASE path[c] \notin {"local", "fast"}
  BY <1>4 DEF AfterCapture, AfterSending
<1> QED
  BY <1>2, <1>3, <1>4

(* Every step keeps the types. *)
LEMMA TypeStep ==
  ASSUME ExecutionTypeOK, [Next]_vars
  PROVE  ExecutionTypeOK'
<1> USE ExecutionAssumption DEF ExecutionTypeOK, Failures, Phases, Paths
<1>1. ASSUME NEW c \in Calls, ExecuteCall(c) PROVE ExecutionTypeOK'
  BY <1>1 DEF ExecuteCall, sinkLock, trapLock, consoleVars, Goto
<1>2. ASSUME NEW c \in Calls, CheckCall(c) PROVE ExecutionTypeOK'
  BY <1>2 DEF CheckCall, JoinTrapLock, sinkLock, consoleVars, Goto
<1>3. ASSUME NEW c \in Calls, CaptureBegins(c) PROVE ExecutionTypeOK'
  BY <1>3 DEF CaptureBegins, JoinTrapLock, InstallSuppression, sinkLock, Goto
<1>4. ASSUME NEW c \in Calls, RunOperation(c) PROVE ExecutionTypeOK'
  BY <1>4 DEF RunOperation, sinkLock, trapLock, consoleVars, Goto
<1>5. ASSUME NEW c \in Calls, TrapCaptureEnds(c) PROVE ExecutionTypeOK'
  BY <1>5 DEF TrapCaptureEnds, sinkLock, trapLock, consoleVars, Goto
<1>6. ASSUME NEW c \in Calls, CaptureEnds(c) PROVE ExecutionTypeOK'
  BY <1>6, AfterCapturePhase DEF CaptureEnds, UninstallSuppression, pickRelevantFailure, trapLock, Goto
<1>7. ASSUME NEW c \in Calls, BroadcastTransaction(c) PROVE ExecutionTypeOK'
  BY <1>7, SMTT(30) DEF BroadcastTransaction, sinkLock, trapLock, consoleVars, Goto, AfterSending
<1>8. ASSUME NEW c \in Calls, StateQueryFails(c) PROVE ExecutionTypeOK'
  BY <1>8 DEF StateQueryFails, sinkLock, trapLock, consoleVars, Goto
<1>9. ASSUME NEW c \in Calls, OpSettles(c) PROVE ExecutionTypeOK'
  BY <1>9 DEF OpSettles, sinkLock, trapLock, consoleVars, Goto
<1>10. ASSUME NEW c \in Calls, OpTraps(c) PROVE ExecutionTypeOK'
  BY <1>10 DEF OpTraps, sinkLock, trapLock, consoleVars, Goto
<1>11. ASSUME NEW c \in Calls, Include(c) PROVE ExecutionTypeOK'
  BY <1>11 DEF Include, sinkLock, trapLock, consoleVars, Goto
<1>12. ASSUME NEW c \in Calls, PollAnswers(c) PROVE ExecutionTypeOK'
  BY <1>12 DEF PollAnswers, AfterLookups, sinkLock, trapLock, consoleVars, Goto, Polling
<1>13. ASSUME NEW c \in Calls, PollThrows(c) PROVE ExecutionTypeOK'
  BY <1>13 DEF PollThrows, sinkLock, trapLock, consoleVars, Goto, Polling
<1>14. ASSUME UNCHANGED vars PROVE ExecutionTypeOK'
  BY <1>14 DEF vars, sinkLock, trapLock, consoleVars
<1> QED
  BY <1>1, <1>2, <1>3, <1>4, <1>5, <1>6, <1>7, <1>8, <1>9, <1>10, <1>11, <1>12, <1>13, <1>14 DEF Next, Continue

(* Every step keeps the trap lock and the handlers to one call. *)
LEMMA TrapStep ==
  ASSUME ExecutionTypeOK, TrapLocked, TrapOwned, [Next]_vars
  PROVE  (TrapLocked /\ TrapOwned)'
<1> USE ExecutionAssumption DEF ExecutionTypeOK, TrapLocked, TrapOwned, TrapsReachTheirCall
<1>1. ASSUME NEW c \in Calls, ExecuteCall(c) PROVE (TrapLocked /\ TrapOwned)'
  BY <1>1 DEF ExecuteCall, sinkLock, trapLock, consoleVars, Goto
<1>2. ASSUME NEW c \in Calls, CheckCall(c) PROVE (TrapLocked /\ TrapOwned)'
  BY <1>2 DEF CheckCall, JoinTrapLock, sinkLock, consoleVars, Goto
<1>3. ASSUME NEW c \in Calls, CaptureBegins(c) PROVE (TrapLocked /\ TrapOwned)'
  BY <1>3 DEF CaptureBegins, JoinTrapLock, InstallSuppression, sinkLock, Goto
<1>4. ASSUME NEW c \in Calls, RunOperation(c) PROVE (TrapLocked /\ TrapOwned)'
  BY <1>4 DEF RunOperation, sinkLock, trapLock, consoleVars, Goto
<1>5. ASSUME NEW c \in Calls, TrapCaptureEnds(c) PROVE (TrapLocked /\ TrapOwned)'
  BY <1>5 DEF TrapCaptureEnds, sinkLock, trapLock, consoleVars, Goto
<1>6. ASSUME NEW c \in Calls, CaptureEnds(c) PROVE (TrapLocked /\ TrapOwned)'
  BY <1>6, AfterCapturePhase, SMTT(30) DEF CaptureEnds, UninstallSuppression, pickRelevantFailure, trapLock, Goto
<1>7. ASSUME NEW c \in Calls, BroadcastTransaction(c) PROVE (TrapLocked /\ TrapOwned)'
  BY <1>7 DEF BroadcastTransaction, sinkLock, trapLock, consoleVars, Goto, AfterSending
<1>8. ASSUME NEW c \in Calls, StateQueryFails(c) PROVE (TrapLocked /\ TrapOwned)'
  BY <1>8 DEF StateQueryFails, sinkLock, trapLock, consoleVars, Goto
<1>9. ASSUME NEW c \in Calls, OpSettles(c) PROVE (TrapLocked /\ TrapOwned)'
  BY <1>9 DEF OpSettles, sinkLock, trapLock, consoleVars, Goto
<1>10. ASSUME NEW c \in Calls, OpTraps(c) PROVE (TrapLocked /\ TrapOwned)'
  BY <1>10 DEF OpTraps, sinkLock, trapLock, consoleVars, Goto
<1>11. ASSUME NEW c \in Calls, Include(c) PROVE (TrapLocked /\ TrapOwned)'
  BY <1>11 DEF Include, sinkLock, trapLock, consoleVars, Goto
<1>12. ASSUME NEW c \in Calls, PollAnswers(c) PROVE (TrapLocked /\ TrapOwned)'
  BY <1>12 DEF PollAnswers, AfterLookups, sinkLock, trapLock, consoleVars, Goto, Polling
<1>13. ASSUME NEW c \in Calls, PollThrows(c) PROVE (TrapLocked /\ TrapOwned)'
  BY <1>13 DEF PollThrows, sinkLock, trapLock, consoleVars, Goto, Polling
<1>14. ASSUME UNCHANGED vars PROVE (TrapLocked /\ TrapOwned)'
  BY <1>14 DEF vars, sinkLock, trapLock, consoleVars
<1> QED
  BY <1>1, <1>2, <1>3, <1>4, <1>5, <1>6, <1>7, <1>8, <1>9, <1>10, <1>11, <1>12, <1>13, <1>14 DEF Next, Continue

(* Every step keeps the locks of the sinks and what is recorded in them. *)
LEMMA SinkStep ==
  ASSUME ExecutionTypeOK, TrapOwned, SinkLocked, SinkOwned, [Next]_vars
  PROVE  (SinkLocked /\ SinkOwned)'
<1> USE ExecutionAssumption DEF ExecutionTypeOK, Failures, TrapOwned, SinkLocked, SinkOwned, BlamesOwnQueries, Capturing, Captured
<1>1. ASSUME NEW c \in Calls, ExecuteCall(c) PROVE (SinkLocked /\ SinkOwned)'
  BY <1>1 DEF ExecuteCall, sinkLock, trapLock, consoleVars, Goto
<1>2. ASSUME NEW c \in Calls, CheckCall(c) PROVE (SinkLocked /\ SinkOwned)'
  BY <1>2 DEF CheckCall, JoinTrapLock, sinkLock, consoleVars, Goto
<1>3. ASSUME NEW c \in Calls, CaptureBegins(c) PROVE (SinkLocked /\ SinkOwned)'
  BY <1>3 DEF CaptureBegins, JoinTrapLock, InstallSuppression, sinkLock, Goto
<1>4. ASSUME NEW c \in Calls, RunOperation(c) PROVE (SinkLocked /\ SinkOwned)'
  BY <1>4 DEF RunOperation, sinkLock, trapLock, consoleVars, Goto
<1>5. ASSUME NEW c \in Calls, TrapCaptureEnds(c) PROVE (SinkLocked /\ SinkOwned)'
  BY <1>5 DEF TrapCaptureEnds, sinkLock, trapLock, consoleVars, Goto
<1>6. ASSUME NEW c \in Calls, CaptureEnds(c) PROVE (SinkLocked /\ SinkOwned)'
  <2>1. /\ pc' = [pc EXCEPT ![c] = AfterCapture(c)]
        /\ sinkServing' = [sinkServing EXCEPT ![sink[c]] = @ + 1]
        /\ UNCHANGED <<sinkTicket, sinkNext, failures, op>>
    BY <1>6 DEF CaptureEnds, Goto
  <2>2. AfterCapture(c) \notin {"sink", "trap", "running", "caught"}
    BY AfterCapturePhase
  <2>3. c \in Capturing /\ \A d \in Calls : (pc'[d] = "sink" \/ d \in Capturing')
                             => d # c /\ pc'[d] = pc[d]
    BY <1>6, <2>1, <2>2 DEF CaptureEnds
  <2>4. \A d \in Calls : d # c /\ (pc[d] = "sink" \/ d \in Capturing) /\ sink[d] = sink[c]
          => sinkTicket[c] < sinkTicket[d] /\ d \notin Capturing
    BY <2>3
  <2>5. \A d \in Capturing' : d \in Capturing /\ sink[d] # sink[c]
    BY <2>1, <2>2, <2>3, <2>4
  <2>6. \A s \in Sinks : sinkServing'[s] = IF s = sink[c] THEN sinkServing[s] + 1 ELSE sinkServing[s]
    BY <2>1
  <2>7. \A d \in Calls : pc'[d] = "sink" \/ d \in Capturing' => pc[d] = "sink" \/ d \in Capturing
    BY <2>3
  <2>8. \A d \in Calls : pc'[d] = "sink" \/ d \in Capturing'
          => sinkServing'[sink[d]] <= sinkTicket[d] /\ sinkTicket[d] < sinkNext[sink[d]]
    <3> HIDE DEF Capturing
    <3> QED
      BY <2>3, <2>4, <2>6, <2>7
  <2>9. SinkLocked'
    <3>1. \A s \in Sinks : sinkServing'[s] <= sinkNext'[s]
      BY <2>1, <2>3
    <3>2. \A d \in Calls : pc'[d] = "sink" => Captured(d)
      BY <2>3
    <3> HIDE DEF Capturing
    <3> QED
      BY <2>1, <2>5, <2>6, <2>7, <2>8, <3>1, <3>2
  <2>10. blamed'[c] \subseteq {c} /\ \A d \in Calls \ {c} : blamed'[d] = blamed[d]
    BY <1>6, <2>3 DEF CaptureEnds, pickRelevantFailure
  <2>11. SinkOwned'
    <3>1. \A d \in Calls : op[d] = "pending" /\ path[d] = "prove" => d \in Capturing'
      BY <1>6, <2>1, <2>3 DEF CaptureEnds
    <3>2. \A d \in Capturing' : \A f \in failures[sink[d]] : f.request = "stateQuery" => f.call = d
      BY <2>5
    <3>3. \A d \in Calls : pc'[d] = "caught" => Captured(d)
      BY <2>1, <2>2
    <3>4. BlamesOwnQueries'
      BY <2>10
    <3> QED
      BY <2>1, <3>1, <3>2, <3>3, <3>4
  <2> QED
    BY <2>9, <2>11
<1>7. ASSUME NEW c \in Calls, BroadcastTransaction(c) PROVE (SinkLocked /\ SinkOwned)'
  BY <1>7, SMTT(30) DEF BroadcastTransaction, sinkLock, trapLock, consoleVars, Goto, AfterSending
<1>8. ASSUME NEW c \in Calls, StateQueryFails(c) PROVE (SinkLocked /\ SinkOwned)'
  BY <1>8 DEF StateQueryFails, sinkLock, trapLock, consoleVars, Goto
<1>9. ASSUME NEW c \in Calls, OpSettles(c) PROVE (SinkLocked /\ SinkOwned)'
  BY <1>9 DEF OpSettles, sinkLock, trapLock, consoleVars, Goto
<1>10. ASSUME NEW c \in Calls, OpTraps(c) PROVE (SinkLocked /\ SinkOwned)'
  BY <1>10 DEF OpTraps, sinkLock, trapLock, consoleVars, Goto
<1>11. ASSUME NEW c \in Calls, Include(c) PROVE (SinkLocked /\ SinkOwned)'
  BY <1>11 DEF Include, sinkLock, trapLock, consoleVars, Goto
<1>12. ASSUME NEW c \in Calls, PollAnswers(c) PROVE (SinkLocked /\ SinkOwned)'
  BY <1>12 DEF PollAnswers, AfterLookups, sinkLock, trapLock, consoleVars, Goto, Polling
<1>13. ASSUME NEW c \in Calls, PollThrows(c) PROVE (SinkLocked /\ SinkOwned)'
  BY <1>13 DEF PollThrows, sinkLock, trapLock, consoleVars, Goto, Polling
<1>14. ASSUME UNCHANGED vars PROVE (SinkLocked /\ SinkOwned)'
  BY <1>14 DEF vars, sinkLock, trapLock, consoleVars
<1> QED
  BY <1>1, <1>2, <1>3, <1>4, <1>5, <1>6, <1>7, <1>8, <1>9, <1>10, <1>11, <1>12, <1>13, <1>14 DEF Next, Continue

(* Every step keeps what was read of a transaction. *)
LEMMA ConfirmStep ==
  ASSUME ExecutionTypeOK, TrapOwned, SinkOwned, Confirmed, [Next]_vars
  PROVE  Confirmed'
<1> USE ExecutionAssumption DEF ExecutionTypeOK, TrapOwned, SinkOwned, Captured, Confirmed, OutputsOfAccepted, Paths
<1>1. ASSUME NEW c \in Calls, ExecuteCall(c) PROVE Confirmed'
  BY <1>1 DEF ExecuteCall, sinkLock, trapLock, consoleVars, Goto
<1>2. ASSUME NEW c \in Calls, CheckCall(c) PROVE Confirmed'
  BY <1>2 DEF CheckCall, JoinTrapLock, sinkLock, consoleVars, Goto
<1>3. ASSUME NEW c \in Calls, CaptureBegins(c) PROVE Confirmed'
  BY <1>3 DEF CaptureBegins, JoinTrapLock, InstallSuppression, sinkLock, Goto
<1>4. ASSUME NEW c \in Calls, RunOperation(c) PROVE Confirmed'
  BY <1>4 DEF RunOperation, sinkLock, trapLock, consoleVars, Goto
<1>5. ASSUME NEW c \in Calls, TrapCaptureEnds(c) PROVE Confirmed'
  BY <1>5 DEF TrapCaptureEnds, sinkLock, trapLock, consoleVars, Goto
<1>6. ASSUME NEW c \in Calls, CaptureEnds(c) PROVE Confirmed'
  BY <1>6, AfterCapturePhase DEF CaptureEnds, UninstallSuppression, pickRelevantFailure, trapLock, Goto
<1>7. ASSUME NEW c \in Calls, BroadcastTransaction(c) PROVE Confirmed'
  BY <1>7 DEF BroadcastTransaction, sinkLock, trapLock, consoleVars, Goto, AfterSending
<1>8. ASSUME NEW c \in Calls, StateQueryFails(c) PROVE Confirmed'
  BY <1>8 DEF StateQueryFails, sinkLock, trapLock, consoleVars, Goto
<1>9. ASSUME NEW c \in Calls, OpSettles(c) PROVE Confirmed'
  BY <1>9 DEF OpSettles, sinkLock, trapLock, consoleVars, Goto
<1>10. ASSUME NEW c \in Calls, OpTraps(c) PROVE Confirmed'
  BY <1>10 DEF OpTraps, sinkLock, trapLock, consoleVars, Goto
<1>11. ASSUME NEW c \in Calls, Include(c) PROVE Confirmed'
  BY <1>11 DEF Include, sinkLock, trapLock, consoleVars, Goto
<1>12. ASSUME NEW c \in Calls, PollAnswers(c) PROVE Confirmed'
  BY <1>12 DEF PollAnswers, AfterLookups, sinkLock, trapLock, consoleVars, Goto, Polling
<1>13. ASSUME NEW c \in Calls, PollThrows(c) PROVE Confirmed'
  BY <1>13 DEF PollThrows, sinkLock, trapLock, consoleVars, Goto, Polling
<1>14. ASSUME UNCHANGED vars PROVE Confirmed'
  BY <1>14 DEF vars, sinkLock, trapLock, consoleVars
<1> QED
  BY <1>1, <1>2, <1>3, <1>4, <1>5, <1>6, <1>7, <1>8, <1>9, <1>10, <1>11, <1>12, <1>13, <1>14 DEF Next, Continue

(* Every step keeps the count of suppressions: only the beginning and the end *)
(* of a capture change the console, and each changes the captures by one.     *)
LEMMA CountStep ==
  ASSUME ExecutionTypeOK, SinkLocked, SinkOwned, Counted, [Next]_vars
  PROVE  Counted'
<1> DEFINE Same == Capturing' = Capturing /\ UNCHANGED consoleVars
<1> USE DEF ExecutionTypeOK
<1>1. IsFiniteSet(Capturing) /\ Cardinality(Capturing) \in Nat
  BY ExecutionAssumption, FS_Subset, FS_CardinalityType DEF Capturing
<1>2. ASSUME NEW c \in Calls, CaptureBegins(c) PROVE Counted'
  <2>1. Capturing' = Capturing \cup {c} /\ c \notin Capturing
    BY <1>2 DEF CaptureBegins, Goto, Capturing, SinkLocked, Captured
  <2>2. Cardinality(Capturing') = Cardinality(Capturing) + 1
    BY <1>1, <2>1, FS_AddElement
  <2> QED
    BY <1>1, <1>2, <2>2 DEF CaptureBegins, InstallSuppression, Counted
<1>3. ASSUME NEW c \in Calls, CaptureEnds(c) PROVE Counted'
  <2>1. Capturing' = Capturing \ {c} /\ c \in Capturing
    BY <1>3, AfterCapturePhase DEF CaptureEnds, Goto, Capturing, SinkOwned, Captured
  <2>2. Cardinality(Capturing') = Cardinality(Capturing) - 1
    BY <1>1, <2>1, FS_RemoveElement
  <2>3. Cardinality(Capturing) > 0
    BY <1>1, <2>1, FS_EmptySet
  <2> QED
    BY <1>1, <1>3, <2>2, <2>3 DEF CaptureEnds, UninstallSuppression, Counted
<1>4. ASSUME NEW c \in Calls, ExecuteCall(c) PROVE Same
  BY <1>4 DEF ExecuteCall, sinkLock, trapLock, consoleVars, Goto, Capturing, Captured
<1>5. ASSUME NEW c \in Calls, CheckCall(c) PROVE Same
  BY <1>5 DEF CheckCall, JoinTrapLock, sinkLock, consoleVars, Goto, Capturing, Captured
<1>6. ASSUME NEW c \in Calls, RunOperation(c) PROVE Same
  BY <1>6 DEF RunOperation, sinkLock, trapLock, consoleVars, Goto, Capturing, Captured
<1>7. ASSUME NEW c \in Calls, TrapCaptureEnds(c) PROVE Same
  BY <1>7 DEF TrapCaptureEnds, sinkLock, trapLock, consoleVars, Goto, Capturing, Captured
<1>8. ASSUME NEW c \in Calls, BroadcastTransaction(c) PROVE Same
  BY <1>8 DEF BroadcastTransaction, sinkLock, trapLock, consoleVars, Goto, AfterSending, Capturing, Captured
<1>9. ASSUME NEW c \in Calls, StateQueryFails(c) PROVE Same
  BY <1>9 DEF StateQueryFails, sinkLock, trapLock, consoleVars, Capturing, Captured
<1>10. ASSUME NEW c \in Calls, OpSettles(c) PROVE Same
  BY <1>10 DEF OpSettles, sinkLock, trapLock, consoleVars, Capturing, Captured
<1>11. ASSUME NEW c \in Calls, OpTraps(c) PROVE Same
  BY <1>11 DEF OpTraps, sinkLock, trapLock, consoleVars, Capturing, Captured
<1>12. ASSUME NEW c \in Calls, Include(c) PROVE Same
  BY <1>12 DEF Include, sinkLock, trapLock, consoleVars, Capturing, Captured
<1>13. ASSUME NEW c \in Calls, PollAnswers(c) PROVE Same
  BY <1>13 DEF PollAnswers, AfterLookups, Polling, sinkLock, trapLock, consoleVars, Goto, Capturing, Captured
<1>14. ASSUME NEW c \in Calls, PollThrows(c) PROVE Same
  BY <1>14 DEF PollThrows, Polling, sinkLock, trapLock, consoleVars, Goto, Capturing, Captured
<1>15. ASSUME UNCHANGED vars PROVE Same
  BY <1>15 DEF vars, consoleVars, Capturing
<1>16. Same => Counted'
  BY DEF Counted, consoleVars
<1> QED
  BY <1>2, <1>3, <1>4, <1>5, <1>6, <1>7, <1>8, <1>9, <1>10, <1>11, <1>12, <1>13, <1>14, <1>15, <1>16 DEF Next, Continue

(* The initial state satisfies the inductive invariant. *)
LEMMA ExecutionInit == Init => ExecutionInv
<1> SUFFICES ASSUME Init PROVE ExecutionInv
  OBVIOUS
<1>1. ExecutionTypeOK
  BY ExecutionAssumption DEF Init, ExecutionTypeOK, Phases
<1>2. TrapLocked /\ TrapOwned
  BY DEF Init, TrapLocked, TrapOwned, TrapsReachTheirCall
<1>3. Capturing = {}
  BY DEF Init, Capturing
<1>4. SinkLocked /\ SinkOwned
  BY <1>3 DEF Init, SinkLocked, SinkOwned, BlamesOwnQueries
<1>5. Confirmed
  BY DEF Init, Confirmed, OutputsOfAccepted
<1>6. Counted
  BY <1>3, FS_EmptySet DEF Init, Counted
<1> QED
  BY <1>1, <1>2, <1>4, <1>5, <1>6 DEF ExecutionInv

(* execute() and checkLocalExecution() keep the inductive invariant, for any  *)
(* calls, sinks and modes.                                                    *)
THEOREM ExecutionInvariance == Spec => []ExecutionInv
<1>1. ExecutionInv /\ [Next]_vars => ExecutionInv'
  BY TypeStep, TrapStep, SinkStep, ConfirmStep, CountStep DEF ExecutionInv
<1> QED
  BY <1>1, ExecutionInit, PTL DEF Spec

(* The variables of the connection's calls keep their types. *)
THEOREM ExecutionTyped == Spec => []ExecutionTypeOK
<1> QED
  BY ExecutionInvariance, PTL DEF ExecutionInv

(* runWithLocalWasmTrapCapture: however many calls overlap, a trap rejects    *)
(* the call whose operation trapped and no other.                             *)
THEOREM ExecutionTraps == Spec => []TrapsReachTheirCall
<1>1. ExecutionInv => TrapsReachTheirCall
  BY DEF ExecutionInv, TrapOwned
<1> QED
  BY <1>1, ExecutionInvariance, PTL

(* captureSdkCall: an SdkExecutionError names no state query of another call, *)
(* whatever calls share the sink.                                             *)
THEOREM ExecutionBlames == Spec => []BlamesOwnQueries
<1>1. ExecutionInv => BlamesOwnQueries
  BY DEF ExecutionInv, SinkOwned
<1> QED
  BY <1>1, ExecutionInvariance, PTL

(* withSuppressedSdkConsoleNoise: the console is patched exactly while some   *)
(* capture is under way, in whatever order captures end.                      *)
THEOREM ExecutionConsole == Spec => []ConsoleRestored
<1>1. ExecutionInv => ConsoleRestored
  <2> SUFFICES ASSUME ExecutionInv PROVE ConsoleRestored
    OBVIOUS
  <2>1. IsFiniteSet(Capturing) /\ Cardinality(Capturing) \in Nat
    BY ExecutionAssumption, FS_Subset, FS_CardinalityType DEF Capturing
  <2>2. suppressions = 0 <=> Capturing = {}
    BY <2>1, FS_EmptySet DEF ExecutionInv, Counted
  <2>3. suppressions = 0 => console = "original"
    BY DEF ExecutionInv, Counted
  <2>4. suppressions # 0 => console = "filtered"
    BY DEF ExecutionInv, ExecutionTypeOK, Counted
  <2> QED
    BY <2>2, <2>3, <2>4 DEF ConsoleRestored, Capturing, Captured
<1> QED
  BY <1>1, ExecutionInvariance, PTL

(* execute() with awaitConfirmation returns outputs of accepted transactions  *)
(* only.                                                                      *)
THEOREM ExecutionOutputs == Spec => []OutputsOfAccepted
<1>1. ExecutionInv => OutputsOfAccepted
  BY DEF ExecutionInv, Confirmed
<1> QED
  BY <1>1, ExecutionInvariance, PTL

=============================================================================
