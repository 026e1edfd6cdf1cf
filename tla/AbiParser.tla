------------------------------ MODULE AbiParser ------------------------------
(***************************************************************************)
(* The ABI of a program, as Leo writes it and as the rest of LionDen reads *)
(* it (leo-compiler/src/abi-parser.ts).  Three generations of Leo write    *)
(* three shapes; the parser also reads what it has produced, because the   *)
(* ABI snapshots beside the deployment records are its own output.         *)
(*                                                                         *)
(* A JSON object is a record without the absent keys; a JSON string that   *)
(* stands where an object may stand is [bare |-> the string].              *)
(***************************************************************************)
EXTENDS Naturals, Sequences

CONSTANTS Abis,        \* programs as Leo describes them (below)
          Leaves,      \* the JSON of types without parts, {"Primitive": ...}
          References,  \* the JSON of references to structs and records
          Lengths,     \* of arrays
          MaxDepth     \* of types inside one another

VARIABLE abis          \* the programs whose ABIs are read

Null == "null"
Key(obj, k, default) == IF k \in DOMAIN obj THEN obj[k] ELSE default
Map(s, Op(_)) == [i \in DOMAIN s |-> Op(s[i])]
Has(obj, k) == k \in DOMAIN obj

(* "arg0", "arg1", ...                                                     *)
Arg(i) == <<"arg0", "arg1", "arg2">>[i]

-----------------------------------------------------------------------------
(* Types                                                                   *)

canonicalizeRefProgram_Kept(program, programId) == program

canonicalizeRefProgram(program, programId) == IF program = programId THEN Null ELSE program

(* toStructRef() and toRecordRef(); a bare name is the old format.         *)
toRef(raw, programId) ==
  IF Has(raw, "path")
  THEN [path |-> raw.path,
        program |-> canonicalizeRefProgram(Key(raw, "program", Null), programId)]
  ELSE [path |-> <<raw.bare>>, program |-> Null]

(* The JSON of types with so many others inside one another.  Leo writes   *)
(* [element, length] for an array, the parser [of, length].                *)
FlatTypes == Leaves \cup {[Struct |-> r] : r \in References}

TypesAround(T) ==
  {[Optional |-> t] : t \in T}
  \cup {[Array |-> [element |-> t, length |-> n]] : t \in T, n \in Lengths}
  \cup {[Array |-> [of |-> t, length |-> n]] : t \in T, n \in Lengths}

JsonTypes[d \in 0 .. MaxDepth] ==
  FlatTypes \cup IF d = 0 THEN {} ELSE TypesAround(JsonTypes[d - 1])

PlaintextTypes == JsonTypes[MaxDepth]

(* A type whose parts were normalized.                                     *)
NormalType(t, parts, programId) ==
  CASE Has(t, "Struct") -> [Struct |-> toRef(t.Struct, programId)]
    [] Has(t, "Array") ->
         LET element == IF Has(t.Array, "of") THEN t.Array.of ELSE t.Array.element
         IN  [Array |-> [of |-> parts[element], length |-> t.Array.length]]
    [] Has(t, "Optional") -> [Optional |-> parts[t.Optional]]
    [] OTHER -> t

normalizePlaintext(raw, programId) ==
  LET Normal[d \in 0 .. MaxDepth] ==
        [t \in PlaintextTypes |-> NormalType(t, IF d = 0 THEN <<>> ELSE Normal[d - 1], programId)]
  IN  Normal[MaxDepth][raw]

(* Vectors, and types that an old format leaves bare.                      *)
StorageTypes[d \in 0 .. MaxDepth] ==
  PlaintextTypes \cup {[Plaintext |-> t] : t \in PlaintextTypes}
  \cup IF d = 0 THEN {} ELSE {[Vector |-> s] : s \in StorageTypes[d - 1]}

VariableTypes == StorageTypes[MaxDepth]

NormalStorage(s, parts, programId) ==
  CASE Has(s, "Plaintext") -> [Plaintext |-> normalizePlaintext(s.Plaintext, programId)]
    [] Has(s, "Vector") -> [Vector |-> parts[s.Vector]]
    [] OTHER -> [Plaintext |-> normalizePlaintext(s, programId)]

normalizeStorageType(raw, programId) ==
  LET Normal[d \in 0 .. MaxDepth] ==
        [s \in VariableTypes |-> NormalStorage(s, IF d = 0 THEN <<>> ELSE Normal[d - 1], programId)]
  IN  Normal[MaxDepth][raw]

normalizeAleoType(raw, programId) ==
  CASE Has(raw, "bare") ->
         IF raw.bare \in {"Final", "Future"} THEN [Future |-> programId] ELSE raw
    [] Has(raw, "Record") -> [Record |-> toRef(raw.Record, programId)]
    [] Has(raw, "Plaintext") -> [Plaintext |-> normalizePlaintext(raw.Plaintext, programId)]
    [] OTHER -> raw

-----------------------------------------------------------------------------
(* Inputs and outputs of functions and views                               *)

detectInputShape(raw) ==
  IF Has(raw, "bare") THEN "bare"
  ELSE IF ~Has(raw, "ty") /\ {"Plaintext", "Record", "Future"} \cap DOMAIN raw # {} THEN "positional"
  ELSE "wrapper"

(* Nothing, or None, is private in a transition and public in a view.      *)
canonicalizePlaintextMode(mode, ioContext) ==
  IF mode \in {"Public", "Private", "Constant"} THEN mode
  ELSE IF ioContext = "view" THEN "Public" ELSE "Private"

modeForAleoType(ty, mode, ioContext) ==
  IF Has(ty, "Plaintext") THEN canonicalizePlaintextMode(mode, ioContext) ELSE "Private"

normalizeOutput(raw, programId, ioContext) ==
  LET shape == detectInputShape(raw)
      wrapped == IF shape = "wrapper" THEN raw.ty ELSE raw
      ty == IF shape = "positional" /\ Has(raw, "Plaintext")
            THEN [Plaintext |-> normalizePlaintext(raw.Plaintext.ty, programId)]
            ELSE normalizeAleoType(wrapped, programId)
      mode == CASE shape = "wrapper" -> Key(raw, "mode", "None")
                [] shape = "positional" /\ Has(raw, "Plaintext") -> Key(raw.Plaintext, "mode", "None")
                [] OTHER -> "None"
  IN  [ty |-> ty, mode |-> modeForAleoType(ty, mode, ioContext)]

normalizeInput(raw, programId, ioContext, index) ==
  LET output == normalizeOutput(raw, programId, ioContext)
  IN  [name |-> Key(raw, "name", Arg(index)), ty |-> output.ty, mode |-> output.mode]

normalizeIo(raw, programId, ioContext) ==
  [name |-> raw.name,
   inputs |-> [i \in DOMAIN raw.inputs |-> normalizeInput(raw.inputs[i], programId, ioContext, i)],
   outputs |-> [i \in DOMAIN raw.outputs |-> normalizeOutput(raw.outputs[i], programId, ioContext)],
   const_parameters |-> Key(raw, "const_parameters", <<>>)]

(* The flag of 4.1 or of a snapshot; 4.2 has neither.                      *)
normalizeFunction(raw, programId) ==
  LET io == normalizeIo(raw, programId, "transition")
  IN  [name |-> io.name, inputs |-> io.inputs, outputs |-> io.outputs,
       const_parameters |-> io.const_parameters,
       is_async |-> CASE Has(raw, "is_async") -> raw.is_async
                      [] Has(raw, "is_final") -> raw.is_final
                      [] OTHER -> \E i \in DOMAIN io.outputs : Has(io.outputs[i].ty, "Future")]

normalizeView(raw, programId) == normalizeIo(raw, programId, "view")

-----------------------------------------------------------------------------
(* Declarations                                                            *)

extractPath(raw) == IF Has(raw, "path") /\ raw.path # <<>> THEN raw.path ELSE <<raw.name>>

normalizeStruct(raw, programId) ==
  [path |-> extractPath(raw),
   fields |-> Map(raw.fields, LAMBDA f : [name |-> f.name, ty |-> normalizePlaintext(f.ty, programId)])]

canonicalizeRecordFieldMode(mode) == canonicalizePlaintextMode(mode, "transition")

normalizeRecord(raw, programId) ==
  [path |-> extractPath(raw),
   fields |-> Map(raw.fields, LAMBDA f :
     [name |-> f.name, ty |-> normalizePlaintext(f.ty, programId),
      mode |-> canonicalizeRecordFieldMode(Key(f, "mode", "None"))])]

normalizeMapping(raw, programId) ==
  [name |-> raw.name, key |-> normalizePlaintext(raw.key, programId),
   value |-> normalizePlaintext(raw.value, programId)]

normalizeStorageVariable(raw, programId) ==
  [name |-> raw.name, ty |-> normalizeStorageType(raw.ty, programId)]

(* The program of a reference to an interface is kept as it is.            *)
normalizeInterfaceRef(raw) ==
  IF Has(raw, "path") THEN [path |-> raw.path, program |-> Key(raw, "program", Null)] ELSE raw

(* A list of views, interfaces or constant parameters that is empty is     *)
(* absent in the code.                                                     *)
parseAbi(obj) ==
  LET id == obj.program
  IN  [program |-> id,
       structs |-> Map(Key(obj, "structs", <<>>), LAMBDA x : normalizeStruct(x, id)),
       records |-> Map(Key(obj, "records", <<>>), LAMBDA x : normalizeRecord(x, id)),
       mappings |-> Map(Key(obj, "mappings", <<>>), LAMBDA x : normalizeMapping(x, id)),
       storage_variables |->
         Map(Key(obj, "storage_variables", <<>>), LAMBDA x : normalizeStorageVariable(x, id)),
       transitions |-> Map(Key(obj, "functions", Key(obj, "transitions", <<>>)),
                           LAMBDA x : normalizeFunction(x, id)),
       views |-> Map(Key(obj, "views", <<>>), LAMBDA x : normalizeView(x, id)),
       implements |-> Map(Key(obj, "implements", <<>>), normalizeInterfaceRef)]

-----------------------------------------------------------------------------
(* What Leo writes (external), of a program whose elements are             *)
(* [name, io] with io a variant and its mode, "default" if none was given. *)

Moded(io) == Has(io, "Plaintext") /\ io.Plaintext.mode # "default"

(* 4.1: an envelope, mode None where none was given.                       *)
Envelope(io) ==
  [ty |-> IF Has(io, "Plaintext") THEN [Plaintext |-> io.Plaintext.ty] ELSE io,
   mode |-> IF Moded(io) THEN io.Plaintext.mode ELSE "None"]

(* 4.2 and 4.3: the variant itself, without names.                         *)
Variant(io) ==
  IF Has(io, "Plaintext") /\ ~Moded(io) THEN [Plaintext |-> [ty |-> io.Plaintext.ty]] ELSE io

Input(v, e) ==
  IF v # "4.1" THEN Variant(e.io)
  ELSE [name |-> e.name, ty |-> Envelope(e.io).ty, mode |-> Envelope(e.io).mode]

Output(v, e) == IF v # "4.1" THEN Variant(e.io) ELSE Envelope(e.io)

(* From 4.2 on, nothing is said of the constant parameters of functions    *)
(* and views, of what is final, and of the interfaces of the program.      *)
LeoView(v, f) ==
  LET inputs == Map(f.inputs, LAMBDA e : Input(v, e))
      outputs == Map(f.outputs, LAMBDA e : Output(v, e))
  IN  IF v # "4.1" THEN [name |-> f.name, inputs |-> inputs, outputs |-> outputs]
      ELSE [name |-> f.name, inputs |-> inputs, outputs |-> outputs,
            const_parameters |-> f.const_parameters]

LeoFunction(v, f) ==
  LET view == LeoView(v, f)
      final == \E i \in DOMAIN f.outputs : f.outputs[i].io = [bare |-> "Final"]
  IN  IF v # "4.1" THEN view
      ELSE [name |-> view.name, inputs |-> view.inputs, outputs |-> view.outputs,
            const_parameters |-> view.const_parameters, is_final |-> final]

LeoRecordField(v, f) ==
  IF v = "4.3" THEN [name |-> f.name, ty |-> f.ty, mode |-> "Private"] ELSE [name |-> f.name, ty |-> f.ty]

LeoRecord(v, r) == [path |-> r.path, fields |-> Map(r.fields, LAMBDA f : LeoRecordField(v, f))]

LeoAbi(v, p) ==
  LET records == Map(p.records, LAMBDA r : LeoRecord(v, r))
      functions == Map(p.functions, LAMBDA f : LeoFunction(v, f))
      views == Map(p.views, LAMBDA f : LeoView(v, f))
  IN  IF v # "4.1"
      THEN [program |-> p.program, structs |-> p.structs, mappings |-> p.mappings,
            storage_variables |-> p.storage_variables, records |-> records,
            functions |-> functions, views |-> views]
      ELSE [program |-> p.program, structs |-> p.structs, mappings |-> p.mappings,
            storage_variables |-> p.storage_variables, records |-> records,
            functions |-> functions, views |-> views, implements |-> p.implements]

-----------------------------------------------------------------------------
(* What the ABIs are assumed to be: types are nested no deeper than        *)
(* MaxDepth, and a reference stays one when it is written differently.     *)

Modes == {"default", "None", "Public", "Private", "Constant"}

Ios ==
  {[Plaintext |-> [ty |-> t, mode |-> m]] : t \in PlaintextTypes, m \in Modes}
  \cup {[Record |-> r] : r \in References}
  \cup {[bare |-> "Final"], [bare |-> "DynamicRecord"]}

FieldsOf(s) == \A i \in DOMAIN s.fields : s.fields[i].ty \in PlaintextTypes

IosOf(f) ==
  /\ \A i \in DOMAIN f.inputs : f.inputs[i].io \in Ios
  /\ \A i \in DOMAIN f.outputs : f.outputs[i].io \in Ios

ASSUME AbiAssumption ==
  /\ MaxDepth \in Nat
  /\ \A t \in Leaves :
       DOMAIN t \cap {"Struct", "Array", "Optional", "Plaintext", "Vector"} = {}
  /\ \A p \in Abis :
       /\ p.program # Null
       /\ \A r \in References : toRef(r, p.program) \in References
       /\ \A i \in DOMAIN p.structs : FieldsOf(p.structs[i])
       /\ \A i \in DOMAIN p.records : p.records[i].path # <<>> /\ FieldsOf(p.records[i])
       /\ \A i \in DOMAIN p.mappings :
            p.mappings[i].key \in PlaintextTypes /\ p.mappings[i].value \in PlaintextTypes
       /\ \A i \in DOMAIN p.storage_variables :
            p.storage_variables[i].ty \in VariableTypes
       /\ \A i \in DOMAIN p.functions : IosOf(p.functions[i])
       /\ \A i \in DOMAIN p.views : IosOf(p.views[i])

(* An ABI that is read does not change.                                    *)
AbiSpec == abis \subseteq Abis /\ [][UNCHANGED abis]_abis

-----------------------------------------------------------------------------
(* Properties                                                              *)

(* What every Leo says of a program.                                       *)
SharedIo(f) ==
  [f EXCEPT !.inputs = Map(@, LAMBDA i : [ty |-> i.ty, mode |-> i.mode]), !.const_parameters = <<>>]

Shared(abi) ==
  [abi EXCEPT !.transitions = Map(@, SharedIo), !.views = Map(@, SharedIo), !.implements = <<>>]

AbiStableOf(p) ==
  LET Parsed(v) == parseAbi(LeoAbi(v, p))
  IN  /\ Parsed("4.2") = Parsed("4.3")
      /\ Shared(Parsed("4.1")) = Shared(Parsed("4.2"))
      /\ \A v \in {"4.1", "4.2", "4.3"} :
           LET abi == Parsed(v)
           IN  /\ parseAbi(abi) = abi
               /\ \A t \in DOMAIN abi.transitions : \A i \in DOMAIN abi.transitions[t].outputs :
                    LET ty == abi.transitions[t].outputs[i].ty
                    IN  Has(ty, "Record") => ty.Record.program # p.program

(* Whatever Leo compiled a program, the parsed ABI is the same in all that *)
(* every version of Leo says of it: 4.2 and 4.3 differ in nothing, and 4.1 *)
(* in the names of inputs, the constant parameters and the interfaces.  No *)
(* record of the program's own looks foreign in an output.  And a snapshot *)
(* that is read back beside a deployment record and parsed again is not    *)
(* changed by that, in what 4.1 alone says neither.  (The comment on       *)
(* parseAbi() promises it, and of 4.1 and 4.2 a little more.)              *)
AbiStable == \A p \in abis : AbiStableOf(p)

=============================================================================
