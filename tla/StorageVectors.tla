--------------------------- MODULE StorageVectors ---------------------------
(***************************************************************************)
(* Reading a storage vector through generated bindings while the program   *)
(* is used by others (contract-wrapper.ts, queryStorageVector and          *)
(* queryStorageVectorAll; connection.ts answers each read).                *)
(*                                                                         *)
(* Leo lowers a vector to a mapping from indices to values and a length:   *)
(* shrinking it only lowers the length, the old entries stay.              *)
(***************************************************************************)
EXTENDS Naturals, Sequences

CONSTANTS Values,      \* what is stored
          MaxLength,   \* bound on the length
          MaxWrites    \* bound on what others do

ASSUME MaxLengthAssumption == MaxLength \in Nat

VARIABLES cells,       \* the mapping: index to value
          length,      \* the length entry
          reader,      \* the read in progress
          writes,      \* how often others wrote
          live         \* history: what was in the vector, where, since the read began

vectorVars == <<cells, length, reader, writes, live>>

InVector == {<<i, cells[i]>> : i \in 0..(length - 1)}
NoReader == [pc |-> "idle", op |-> "none", index |-> 0, len |-> 0, out |-> <<>>]

(* A third entry was removed earlier.                                      *)
VectorInit ==
  /\ \E v \in Values : cells = [i \in 0..2 |-> v]
  /\ length = 2
  /\ reader = NoReader
  /\ writes = 0
  /\ live = {}

-----------------------------------------------------------------------------
(* Other users of the program (external)                                   *)

Write(newCells, newLength) ==
  /\ writes < MaxWrites
  /\ writes' = writes + 1
  /\ cells' = newCells /\ length' = newLength
  /\ live' = live \cup {<<i, newCells[i]>> : i \in 0..(newLength - 1)}
  /\ UNCHANGED reader

Stored(i, v) == [j \in DOMAIN cells \cup {i} |-> IF j = i THEN v ELSE cells[j]]

Push(v) == length < MaxLength /\ Write(Stored(length, v), length + 1)
Pop == length > 0 /\ Write(cells, length - 1)
Set(i, v) == i < length /\ Write(Stored(i, v), length)
SwapRemove(i) == i < length /\ Write(Stored(i, cells[length - 1]), length - 1)
Clear == Write(cells, 0)

-----------------------------------------------------------------------------
(* The reader.  Every step is one request of the network.                  *)

Ask(op, index) ==
  /\ reader.pc = "idle"
  /\ reader' = [NoReader EXCEPT !.pc = "length", !.op = op, !.index = index]
  /\ live' = InVector
  /\ UNCHANGED <<cells, length, writes>>

(* getStorageVectorValue(): the node's 404, where nothing was ever stored, *)
(* is a null.                                                              *)
Cell(i) == IF i \in DOMAIN cells THEN {cells[i]} ELSE {}

(* Any other failure of a request ends the read; nothing that was read so  *)
(* far is returned.                                                        *)
queryProgramMappingRaw_Throws ==
  /\ reader.pc \in {"length", "element"}
  /\ reader' = [reader EXCEPT !.pc = "error", !.out = <<>>]
  /\ UNCHANGED <<cells, length, writes, live>>

Reply(out) == reader' = [reader EXCEPT !.pc = "done", !.out = out]

queryStorageVectorLength_Ignored ==
  /\ reader.pc = "length"
  /\ IF reader.op = "len" THEN Reply(<<length>>)
     ELSE reader' = [reader EXCEPT !.pc = "element", !.len = MaxLength]
  /\ UNCHANGED <<cells, length, writes, live>>

(* get(), getOrUse() and tryGet() answer null beyond the length.           *)
queryStorageVectorLength ==
  /\ reader.pc = "length"
  /\ CASE reader.op = "len" -> Reply(<<length>>)
       [] reader.op = "get" /\ reader.index >= length -> Reply(<<>>)
       [] reader.op = "getAll" /\ length = 0 -> Reply(<<>>)
       [] OTHER -> reader' = [reader EXCEPT !.pc = "element", !.len = length]
  /\ UNCHANGED <<cells, length, writes, live>>

queryStorageVector ==
  /\ reader.pc = "element" /\ reader.op = "get"
  /\ Reply(IF Cell(reader.index) = {} THEN <<>>
            ELSE <<[at |-> reader.index, value |-> cells[reader.index]]>>)
  /\ UNCHANGED <<cells, length, writes, live>>

(* One element of the loop; a null throws.                                 *)
queryStorageVectorAll ==
  /\ reader.pc = "element" /\ reader.op = "getAll"
  /\ LET i == Len(reader.out)
     IN  IF Cell(i) = {} THEN reader' = [reader EXCEPT !.pc = "failed"]
         ELSE reader' = [reader EXCEPT !.out = Append(@, [at |-> i, value |-> cells[i]]),
                                       !.pc = IF i + 1 = reader.len THEN "done" ELSE "element"]
  /\ UNCHANGED <<cells, length, writes, live>>

VectorNext ==
  \/ \E v \in Values : Push(v)
  \/ Pop
  \/ \E i \in 0..(MaxLength - 1), v \in Values : Set(i, v)
  \/ \E i \in 0..(MaxLength - 1) : SwapRemove(i)
  \/ Clear
  \/ \E op \in {"len", "getAll"} : Ask(op, 0)
  \/ \E i \in 0..MaxLength : Ask("get", i)
  \/ queryStorageVectorLength
  \/ queryStorageVector
  \/ queryStorageVectorAll
  \/ queryProgramMappingRaw_Throws

VectorSpec == VectorInit /\ [][VectorNext]_vectorVars

-----------------------------------------------------------------------------
(* Whatever others do between the requests, an element that was returned   *)
(* was in the vector at its index at some moment of the call: an entry     *)
(* that was removed before the call began is never taken for an element,   *)
(* and on one network the loop never meets a missing one.                  *)
VectorElementsLive ==
  /\ reader.op \in {"get", "getAll"} =>
       \A k \in DOMAIN reader.out : <<reader.out[k].at, reader.out[k].value>> \in live
  /\ reader.pc # "failed"
=============================================================================
