---------------------------- MODULE BindingNames ----------------------------
(***************************************************************************)
(* The names a generated module declares (typescript-generator.ts).  They  *)
(* come from the program, from programs it uses, from the configuration    *)
(* and from the generator itself; some are renamed when they meet, others  *)
(* stop the generation.                                                    *)
(*                                                                         *)
(* A program is [program, structs, records, refs, helpers, storage,        *)
(* mappings, views, transitions, inputs]: sequences of type paths, refs    *)
(* to types of other programs [program, path, record] in the order of      *)
(* their keys, and names; inputs are those of one transition.              *)
(***************************************************************************)
EXTENDS Naturals, Sequences, SequencesExt

CONSTANTS ClassName,        \* programIdToClassName(): a program id in Pascal case
          Capital,          \* capitalize()
          CamelCase,        \* toCamelCase()
          TypeImports,      \* the types every module imports (BASE_CONTRACT_TYPE_IMPORT_NAMES)
          InputImports,     \* those that end in Input
          InstanceMembers,  \* the members of BaseContract
          ParamWords        \* RESERVED_PARAM_WORDS, and what is no identifier

Each(s, Op(_)) == [i \in DOMAIN s |-> Op(s[i])]

RECURSIVE Times(_, _)
Times(n, s) == IF n = 0 THEN "" ELSE s \o Times(n - 1, s)

(* The first free one of base suffix, base filler suffix, base filler      *)
(* filler suffix, ...                                                      *)
Free(base, filler, suffix, reserved) ==
  LET Name(n) == base \o Times(n, filler) \o suffix
  IN  Name(CHOOSE n \in 0..9 : Name(n) \notin reserved /\ \A k \in 0..(n - 1) : Name(k) \in reserved)

pathToTsName(path) ==
  IF Len(path) = 1 THEN path[1] ELSE Capital[path[1]] \o "_" \o Capital[path[2]]

TypeNames(p) == Each(p.structs \o p.records, pathToTsName)

-----------------------------------------------------------------------------
(* Resolution                                                              *)

baseContractValueImportNames(p) ==
  {"BaseContract", "createRecordOutputMatcher"}
  \cup IF p.helpers # <<>> THEN {"Leo", "bindDynamicRecordHelperProgram"} ELSE {}

reservedTypeImportNames == {"BaseContract"} \cup TypeImports

resolveContractClassName(p) ==
  Free(ClassName[p.program], "Contract", "",
       baseContractValueImportNames(p) \cup reservedTypeImportNames \cup ToSet(TypeNames(p)))

localDeclaredNames(p) ==
  {resolveContractClassName(p), resolveContractClassName(p) \o "Storage"} \cup ToSet(TypeNames(p))

structRefs(p) == SelectSeq(p.refs, LAMBDA r : ~r.record)
recordRefs(p) == SelectSeq(p.refs, LAMBDA r : r.record)

ExternalName(r, reserved) ==
  Free(ClassName[r.program] \o "_" \o pathToTsName(r.path), "_", "", reserved)

resolveExternalInfos_Preferred(p) ==
  Each(structRefs(p) \o recordRefs(p), LAMBDA r : ExternalName(r, {}))

(* Aliases of the types of other programs, structs first; those of structs *)
(* avoid the helpers, those of records do not.                             *)
resolveExternalInfos(p) ==
  LET claim(names, r) ==
        Append(names, ExternalName(r, localDeclaredNames(p) \cup ToSet(names)
                                      \cup (IF r.record THEN {} ELSE ToSet(p.helpers))))
  IN  FoldLeft(claim, <<>>, structRefs(p) \o recordRefs(p))

disambiguateInputName(base, reserved) ==
  Free(base, "_", "Input", reserved)

(* Local structs, local records, foreign structs, foreign records.         *)
resolveInputNames(p) ==
  LET external == resolveExternalInfos(p)
      reserved == InputImports \cup localDeclaredNames(p) \cup ToSet(p.helpers) \cup ToSet(external)
      claim(names, base) == Append(names, disambiguateInputName(base, reserved \cup ToSet(names)))
  IN  FoldLeft(claim, <<>>, TypeNames(p) \o external)

widenInputAlias(p) ==
  Free("WidenInput", "_", "",
       localDeclaredNames(p) \cup ToSet(p.helpers) \cup ToSet(resolveExternalInfos(p))
         \cup ToSet(resolveInputNames(p)))

-----------------------------------------------------------------------------
(* What stops the generation                                               *)

assertNoReservedLocalTypeNames(p) ==
  \A i \in DOMAIN TypeNames(p) :
    /\ TypeNames(p)[i] \notin reservedTypeImportNames
    /\ p.storage # <<>> => TypeNames(p)[i] # resolveContractClassName(p) \o "Storage"

assertNoReservedContractMembers(p) ==
  ToSet(p.transitions) \cap
    (InstanceMembers \cup (IF p.mappings # <<>> THEN {"mappings"} ELSE {})
       \cup (IF p.storage # <<>> THEN {"storage"} ELSE {})
       \cup (IF p.views # <<>> THEN {"views"} ELSE {})) = {}

HelperImpl(h) == "_" \o h \o "Impl"

assertNoReservedHelperNames(p) ==
  LET class == resolveContractClassName(p)
      records == ToSet(Each(p.records, pathToTsName))
      external == resolveExternalInfos(p)
      foreignRecords == {external[i] : i \in (Len(structRefs(p)) + 1)..Len(external)}
  IN  ToSet(p.helpers) \cap
        (baseContractValueImportNames(p) \cup {class, "create" \o class}
           \cup {"serialize" \o t : t \in ToSet(TypeNames(p) \o external)}
           \cup {"deserialize" \o t : t \in ToSet(TypeNames(p) \o external)}
           \cup {"decrypt" \o t : t \in records} \cup foreignRecords
           \cup {HelperImpl(h) : h \in ToSet(p.helpers)}) = {}

-----------------------------------------------------------------------------
(* What is emitted, {} when the generation stops                           *)

(* Names of types and of values are kept apart by TypeScript; a class is   *)
(* both, and so is what stands for a foreign record.                       *)
generateExternalImports(p) ==
  LET names == resolveExternalInfos(p)
      structs == SubSeq(names, 1, Len(structRefs(p)))
      records == SubSeq(names, Len(structRefs(p)) + 1, Len(names))
  IN  [types |-> names \o Each(records, LAMBDA t : "_" \o t),
       values |-> Each(names, LAMBDA t : "serialize" \o t) \o Each(names, LAMBDA t : "deserialize" \o t)
                  \o records]

generateContractClass(p) ==
  LET class == resolveContractClassName(p)
  IN  [types |-> <<class>>, values |-> <<class, "create" \o class>>]

generateBindings(p) ==
  IF ~assertNoReservedLocalTypeNames(p) \/ ~assertNoReservedContractMembers(p)
     \/ ~assertNoReservedHelperNames(p)
  THEN {}
  ELSE LET external == generateExternalImports(p)
           class == generateContractClass(p)
           types == TypeNames(p)
           records == Each(p.records, pathToTsName)
       IN  {[types |-> SetToSeq(TypeImports) \o <<"BaseContract">>
                       \o (IF p.refs = <<>> THEN <<>> ELSE <<widenInputAlias(p)>>)
                       \o external.types \o types \o resolveInputNames(p) \o class.types
                       \o (IF p.storage = <<>> THEN <<>> ELSE <<class.types[1] \o "Storage">>),
             values |-> SetToSeq(baseContractValueImportNames(p)) \o external.values
                       \o Each(types, LAMBDA t : "serialize" \o t)
                       \o Each(types, LAMBDA t : "deserialize" \o t)
                       \o Each(records, LAMBDA t : "decrypt" \o t)
                       \o p.helpers \o Each(p.helpers, HelperImpl) \o class.values]}

-----------------------------------------------------------------------------
(* Inside the class                                                        *)

Camel(n) == CamelCase[n]

(* When two meet in camel case both keep their own name.                   *)
buildStatePropKeys(entries) ==
  Each(entries, LAMBDA n :
    IF \E m \in ToSet(entries) \ {n} : Camel(m) = Camel(n) THEN n ELSE Camel(n))

safeParamName(index, name, reserved) ==
  LET candidate == IF name \in ParamWords THEN "arg" \o ToString(index) ELSE name
  IN  Free(candidate, "_", "", reserved)

buildSafeParamNames(inputs) ==
  LET claim(names, name) == Append(names, safeParamName(Len(names), name, ToSet(names)))
  IN  FoldLeft(claim, <<>>, inputs)

-----------------------------------------------------------------------------
(* Properties                                                              *)

Distinct(s) == Cardinality(ToSet(s)) = Len(s)

(* A module that is generated declares no name twice: not among its types, *)
(* its values, the members of its class, the keys of its state objects or  *)
(* the parameters of a method, and none of those is a reserved word.       *)
NamesDistinctIn(p) ==
  LET keys == buildStatePropKeys(p.mappings)
      params == buildSafeParamNames(p.inputs)
  IN  /\ \A module \in generateBindings(p) :
           /\ Distinct(module.types) /\ Distinct(module.values)
           /\ Distinct(p.transitions \o SetToSeq(InstanceMembers)
                       \o (IF p.mappings = <<>> THEN <<>> ELSE <<"mappings">>))
      /\ Distinct(keys)
      /\ Distinct(params) /\ ToSet(params) \cap ParamWords = {}
=============================================================================
