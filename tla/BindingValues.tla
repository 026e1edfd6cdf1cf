--------------------------- MODULE BindingValues ---------------------------
(***************************************************************************)
(* JavaScript values to Leo literals and back, as generated bindings do it *)
(* (typescript-generator.ts chooses the conversions, contract-wrapper.ts   *)
(* has them).                                                              *)
(*                                                                         *)
(* A type is [kind |-> "prim", prim], [kind |-> "struct", name],           *)
(* [kind |-> "array", of, length] or [kind |-> "optional", of].  A literal *)
(* keeps the structure the text has: [lit |-> "leaf", of, suffix, vis],    *)
(* [lit |-> "struct", fields], whose fields are [name, val] in order, or   *)
(* [lit |-> "array", elems].  A conversion that throws gives the empty     *)
(* set, any other the set of its result.                                   *)
(***************************************************************************)
EXTENDS Integers, Sequences, SequencesExt

CONSTANTS Bits,        \* width of every integer type
          NumberBits,  \* widest integer that is a number and not a bigint
          MaxSafe,     \* Number.MAX_SAFE_INTEGER
          Structs,     \* the structs of the program: name to its fields [name, ty]
          External     \* structs that belong to other programs

ScalarLike == {"field", "group", "scalar"}
Signed == {"i8", "i64"}

Leaf(n, suffix) == [lit |-> "leaf", of |-> n, suffix |-> suffix, vis |-> "none"]
StructLit(fields) == [lit |-> "struct", fields |-> fields]
ArrayLit(elems) == [lit |-> "array", elems |-> elems]

(* What a leaf says is a number, of an address, a name or a truth value    *)
(* too.                                                                    *)
No == 0
Yes == 1
Zeros == [address |-> 90, identifier |-> 91]

(* JavaScript.  A string that is read as a literal has its parts.          *)
Number(n) == [js |-> "number", of |-> n, whole |-> TRUE]
BigInt(n) == [js |-> "bigint", of |-> n]
Boolean(b) == [js |-> "boolean", of |-> b]
String(x, suffix) == [js |-> "string", of |-> x, suffix |-> suffix, vis |-> "none"]
Object(fields) == [js |-> "object", fields |-> fields, raw |-> {}]
List(elems) == [js |-> "array", elems |-> elems]
Nothing == [js |-> "null"]
Undefined == [js |-> "undefined"]

IsNull(v) == v \in {Nothing, Undefined}
Property(v, name) == IF name \in DOMAIN v.fields THEN v.fields[name] ELSE Undefined

(* All of the results, or none when one of the conversions throws.         *)
All(results) ==
  IF \E i \in DOMAIN results : results[i] = {} THEN {}
  ELSE {[i \in DOMAIN results |-> CHOOSE x \in results[i] : TRUE]}

-----------------------------------------------------------------------------
(* JavaScript to Leo                                                       *)

InRange(v, bits, min, max) ==
  /\ v.js = IF bits <= NumberBits THEN "number" ELSE "bigint"
  /\ v.js = "number" => v.whole
  /\ v.of \in min..max

serializeUInt(v, prim) ==
  IF InRange(v, Bits[prim], 0, 2 ^ Bits[prim] - 1) THEN {Leaf(v.of, prim)} ELSE {}

serializeInt(v, prim) ==
  LET half == 2 ^ (Bits[prim] - 1)
  IN  IF InRange(v, Bits[prim], 0 - half, half - 1) THEN {Leaf(v.of, prim)} ELSE {}

(* A visibility in a string is refused, a missing suffix is added.         *)
serializeScalarLike(v, suffix) ==
  CASE v.js = "bigint" -> IF v.of >= 0 THEN {Leaf(v.of, suffix)} ELSE {}
    [] v.js = "number" -> IF v.whole /\ v.of \in 0..MaxSafe THEN {Leaf(v.of, suffix)} ELSE {}
    [] v.js = "string" -> IF v.vis = "none" /\ v.suffix \in {"", suffix}
                          THEN {Leaf(v.of, suffix)} ELSE {}
    [] OTHER -> {}

(* An account has its address under that name.                             *)
serializeAddress(v) ==
  LET raw == IF v.js = "object" THEN Property(v, "address") ELSE v
  IN  IF raw.js = "string" /\ raw.suffix = "address" THEN {Leaf(raw.of, "address")} ELSE {}

(* With or without quotes.                                                 *)
serializeIdentifier(v) ==
  IF v.js = "string" /\ v.suffix \in {"name", "quoted"} THEN {Leaf(v.of, "quoted")} ELSE {}

serializeBoolean(v) == IF v.js = "boolean" THEN {Leaf(v.of, "boolean")} ELSE {}

serializePrimitive(v, prim) ==
  CASE prim \in DOMAIN Bits -> IF prim \in Signed THEN serializeInt(v, prim) ELSE serializeUInt(v, prim)
    [] prim \in ScalarLike -> serializeScalarLike(v, prim)
    [] prim = "address" -> serializeAddress(v)
    [] prim = "identifier" -> serializeIdentifier(v)
    [] prim = "boolean" -> serializeBoolean(v)

Repeat(n, x) == [i \in 1..n |-> x]
None(zero) == StructLit(<<[name |-> "is_some", val |-> Leaf(No, "boolean")], [name |-> "val", val |-> zero]>>)
Some(lit) == StructLit(<<[name |-> "is_some", val |-> Leaf(Yes, "boolean")], [name |-> "val", val |-> lit]>>)

ZeroLeaf(prim) ==
  CASE prim \in DOMAIN Bits \cup ScalarLike -> Leaf(0, prim)
    [] prim = "address" -> Leaf(Zeros.address, "address")
    [] prim = "identifier" -> Leaf(Zeros.identifier, "quoted")
    [] prim = "boolean" -> Leaf(No, "boolean")

FieldLits(fields, results) ==
  {StructLit([i \in DOMAIN fields |-> [name |-> fields[i].name, val |-> r[i]]]) : r \in All(results)}

(* What a None carries; there is none for structs of other programs and    *)
(* for a struct inside itself.                                             *)
RECURSIVE zeroLeoValue(_, _)
zeroLeoValue(ty, seen) ==
  CASE ty.kind = "prim" -> {ZeroLeaf(ty.prim)}
    [] ty.kind = "array" -> {ArrayLit(Repeat(ty.length, z)) : z \in zeroLeoValue(ty.of, seen)}
    [] ty.kind = "optional" -> {None(z) : z \in zeroLeoValue(ty.of, seen)}
    [] ty.kind = "struct" ->
         IF ty.name \in External \cup seen THEN {}
         ELSE LET fields == Structs[ty.name]
              IN  FieldLits(fields, [i \in DOMAIN fields |->
                                       zeroLeoValue(fields[i].ty, seen \cup {ty.name})])

assertObject(v) == v.js = "object"

RECURSIVE serializePlaintext(_, _)

(* generateStructSerializer(): fields in the order of the declaration.     *)
serializeFields(v, fields) ==
  FieldLits(fields, [i \in DOMAIN fields |->
                       serializePlaintext(Property(v, fields[i].name), fields[i].ty)])

serializePlaintext(v, ty) ==
  CASE ty.kind = "prim" -> serializePrimitive(v, ty.prim)
    [] ty.kind = "struct" -> IF assertObject(v) THEN serializeFields(v, Structs[ty.name]) ELSE {}
    [] ty.kind = "array" ->
         IF v.js = "array"
         THEN {ArrayLit(r) : r \in All([i \in DOMAIN v.elems |-> serializePlaintext(v.elems[i], ty.of)])}
         ELSE {}
    [] ty.kind = "optional" ->
         IF IsNull(v) THEN {None(z) : z \in zeroLeoValue(ty.of, {})}
         ELSE {Some(l) : l \in serializePlaintext(v, ty.of)}

-----------------------------------------------------------------------------
(* Leo to JavaScript                                                       *)

parseStruct(lit) ==
  [n \in {lit.fields[i].name : i \in DOMAIN lit.fields} |->
    lit.fields[CHOOSE i \in DOMAIN lit.fields : lit.fields[i].name = n].val]

(* stripSuffix() and stripVisibility() drop what follows the digits.       *)
deserializePrimitive(lit, prim) ==
  CASE prim \in DOMAIN Bits -> IF Bits[prim] > NumberBits THEN BigInt(lit.of) ELSE Number(lit.of)
    [] prim \in ScalarLike -> String(lit.of, prim)
    [] prim = "address" -> String(lit.of, "address")
    [] prim = "identifier" -> String(lit.of, "name")
    [] prim = "boolean" -> Boolean(lit.of)

RECURSIVE deserializePlaintext(_, _)

(* generateStructDeserializer().                                           *)
deserializeFields(lit, fields) ==
  LET parsed == parseStruct(lit)
  IN  Object([n \in {fields[i].name : i \in DOMAIN fields} |->
        deserializePlaintext(parsed[n], fields[CHOOSE i \in DOMAIN fields : fields[i].name = n].ty)])

deserializePlaintext(lit, ty) ==
  CASE ty.kind = "prim" -> deserializePrimitive(lit, ty.prim)
    [] ty.kind = "struct" -> deserializeFields(lit, Structs[ty.name])
    [] ty.kind = "array" -> List([i \in DOMAIN lit.elems |-> deserializePlaintext(lit.elems[i], ty.of)])
    [] ty.kind = "optional" ->
         LET opt == parseStruct(lit)
         IN  IF opt["is_some"].of = Yes THEN deserializePlaintext(opt["val"], ty.of) ELSE Nothing

-----------------------------------------------------------------------------
(* Records.  A record is its fields, the owner among them, and a nonce;    *)
(* the literal of the network has visibilities and a version as well.      *)

Prim(p) == [kind |-> "prim", prim |-> p]
Nonce == [name |-> "_nonce", ty |-> Prim("group")]

generateRecordSerializer_Rebuilt(v, fields) ==
  IF assertObject(v) THEN serializeFields(v, fields \o <<Nonce>>) ELSE {}

(* A decrypted record is passed on as it was.                              *)
generateRecordSerializer(v, fields) ==
  IF ~assertObject(v) THEN {}
  ELSE IF v.raw # {} THEN v.raw
  ELSE serializeFields(v, fields \o <<Nonce>>)

generateRecordDeserializer(lit, fields) ==
  [deserializeFields(lit, fields \o <<Nonce>>) EXCEPT !.raw = {lit}]

DynamicPrimitives == DOMAIN Bits \cup ScalarLike \cup {"address", "boolean"}

(* owner, the fields, the nonce; {} when one of them cannot be encoded.    *)
buildExpectedFieldsForHelper(fields) ==
  LET others == SelectSeq(fields, LAMBDA f : f.name # "owner")
  IN  IF \A i \in DOMAIN others : others[i].ty.kind = "prim" /\ others[i].ty.prim \in DynamicPrimitives
      THEN {<<[name |-> "owner", ty |-> Prim("address")]>> \o others \o <<Nonce>>}
      ELSE {}

(* The schema of the configuration: names to [prim, vis].  The helper is   *)
(* its keys in the layout of the record, or an error at generation.        *)
generateDynamicRecordHelper(schema, fields) ==
  {expected \o (IF "_version" \in DOMAIN schema
                THEN <<[name |-> "_version", ty |-> Prim("u8")]>> ELSE <<>>) :
   expected \in {e \in buildExpectedFieldsForHelper(fields) :
     /\ {e[i].name : i \in DOMAIN e} \subseteq DOMAIN schema
     /\ DOMAIN schema \subseteq {e[i].name : i \in DOMAIN e} \cup {"_version"}
     /\ \A i \in DOMAIN e : schema[e[i].name].prim = e[i].ty.prim
     /\ "_version" \in DOMAIN schema => schema["_version"] = [prim |-> "u8", vis |-> "public"]}}

(* Leo.dynamicRecord(): exactly the keys of the schema, in its order.      *)
encodeDynamicRecord(v, schema, layout) ==
  LET omitVersion == "_version" \in DOMAIN schema /\ Property(v, "_version") = Undefined
      used == SelectSeq(layout, LAMBDA f : ~(omitVersion /\ f.name = "_version"))
  IN  IF DOMAIN v.fields # {used[i].name : i \in DOMAIN used} THEN {}
      ELSE {StructLit([i \in DOMAIN used |->
              [name |-> used[i].name, val |-> [r[i] EXCEPT !.vis = schema[used[i].name].vis]]]) :
            r \in All([i \in DOMAIN used |->
                         serializePrimitive(Property(v, used[i].name), used[i].ty.prim)])}

dynamicRecordHelper(v, schema, layout) ==
  IF ~assertObject(v) THEN {}
  ELSE IF v.raw # {} THEN v.raw
  ELSE encodeDynamicRecord(v, schema, layout)

-----------------------------------------------------------------------------
(* What literals and values mean (the reference)                           *)

RECURSIVE WellTyped(_, _)
WellTyped(lit, ty) ==
  CASE ty.kind = "prim" ->
         /\ lit.lit = "leaf"
         /\ lit.suffix = IF ty.prim = "identifier" THEN "quoted" ELSE ty.prim
         /\ ty.prim \in Signed =>
              lit.of + 2 ^ (Bits[ty.prim] - 1) \in 0..(2 ^ Bits[ty.prim] - 1)
         /\ ty.prim \in DOMAIN Bits \ Signed => lit.of \in 0..(2 ^ Bits[ty.prim] - 1)
         /\ ty.prim \in ScalarLike => lit.of \in Nat
    [] ty.kind = "struct" ->
         /\ lit.lit = "struct" /\ Len(lit.fields) = Len(Structs[ty.name])
         /\ \A i \in DOMAIN lit.fields :
              /\ lit.fields[i].name = Structs[ty.name][i].name
              /\ WellTyped(lit.fields[i].val, Structs[ty.name][i].ty)
    [] ty.kind = "array" ->
         /\ lit.lit = "array" /\ Len(lit.elems) = ty.length
         /\ \A i \in DOMAIN lit.elems : WellTyped(lit.elems[i], ty.of)
    [] ty.kind = "optional" ->
         /\ lit.lit = "struct" /\ Len(lit.fields) = 2
         /\ lit.fields[1].name = "is_some" /\ WellTyped(lit.fields[1].val, Prim("boolean"))
         /\ lit.fields[2].name = "val" /\ WellTyped(lit.fields[2].val, ty.of)

(* The literal as the network prints it, with a visibility at every leaf.  *)
RECURSIVE Shown(_, _)
Shown(lit, vis) ==
  CASE lit.lit = "leaf" -> [lit EXCEPT !.vis = vis]
    [] lit.lit = "struct" ->
         StructLit([i \in DOMAIN lit.fields |->
           [name |-> lit.fields[i].name, val |-> Shown(lit.fields[i].val, vis)]])
    [] lit.lit = "array" -> ArrayLit([i \in DOMAIN lit.elems |-> Shown(lit.elems[i], vis)])

(* The value a caller meant, whichever way it was written.                 *)
RECURSIVE Meant(_, _)
Meant(v, ty) ==
  CASE ty.kind = "prim" -> IF v.js = "object" THEN v.fields["address"].of ELSE v.of
    [] ty.kind = "struct" ->
         [i \in DOMAIN Structs[ty.name] |->
            Meant(Property(v, Structs[ty.name][i].name), Structs[ty.name][i].ty)]
    [] ty.kind = "array" -> [i \in DOMAIN v.elems |-> Meant(v.elems[i], ty.of)]
    [] ty.kind = "optional" -> IF IsNull(v) THEN <<>> ELSE <<Meant(v, ty.of)>>

RECURSIVE LengthsRight(_, _)
LengthsRight(v, ty) ==
  CASE ty.kind = "array" /\ v.js = "array" ->
         Len(v.elems) = ty.length /\ \A i \in DOMAIN v.elems : LengthsRight(v.elems[i], ty.of)
    [] ty.kind = "struct" /\ v.js = "object" ->
         \A i \in DOMAIN Structs[ty.name] :
           LengthsRight(Property(v, Structs[ty.name][i].name), Structs[ty.name][i].ty)
    [] ty.kind = "optional" /\ ~IsNull(v) -> LengthsRight(v, ty.of)
    [] OTHER -> TRUE

-----------------------------------------------------------------------------
(* Properties                                                              *)

(* A value that is accepted becomes a literal of its type which reads back *)
(* as the value that was meant, with or without a visibility.              *)
ValueFaithful(v, ty) ==
  \A lit \in serializePlaintext(v, ty) :
    /\ LengthsRight(v, ty) => WellTyped(lit, ty)
    /\ \A vis \in {"none", "private"} :
         Meant(deserializePlaintext(Shown(lit, vis), ty), ty) = Meant(v, ty)

(* Whatever the network returns can be passed to the next call.            *)
LiteralAccepted(lit, ty) ==
  serializePlaintext(deserializePlaintext(Shown(lit, "private"), ty), ty) = {lit}

(* A decrypted record goes back as the literal it was, through its own     *)
(* serializer and as a dynamic record, and a record made by hand has the   *)
(* layout of the record whatever the order of the configuration.           *)
RecordFaithful(lit, fields, schema) ==
  LET v == generateRecordDeserializer(lit, fields)
      made == [v EXCEPT !.raw = {}]
      order == [i \in 1..(Len(fields) + 1) |-> lit.fields[i].name]
  IN  /\ generateRecordSerializer(v, fields) = {lit}
      /\ \A layout \in generateDynamicRecordHelper(schema, fields) :
           /\ dynamicRecordHelper(v, schema, layout) = {lit}
           /\ \A l \in dynamicRecordHelper(made, schema, layout) :
                /\ [i \in DOMAIN l.fields |-> l.fields[i].name] = order
                /\ \A i \in DOMAIN l.fields :
                     l.fields[i].val = [lit.fields[i].val EXCEPT !.vis = schema[l.fields[i].name].vis]
           /\ dynamicRecordHelper(made, schema, layout) # {}
=============================================================================
