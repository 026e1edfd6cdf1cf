----------------------------- MODULE MCBindings -----------------------------
(***************************************************************************)
(* Instances of the parts of generated bindings.  A behaviour looks at one *)
(* of them: the ABI of a program, the names of its module, a value, the    *)
(* calls of a contract, or reads of a vector.                              *)
(***************************************************************************)
EXTENDS AbiParser, BindingNames, BindingValues, Contract, StorageVectors

CONSTANT Parts

VARIABLES part, subject

Plain(ty) == [kind |-> "prim", prim |-> ty]

-----------------------------------------------------------------------------
(* Programs for the parser                                                 *)

Uint == [Primitive |-> "U64"]
Own(n) == [path |-> <<n>>, program |-> "token.aleo"]
Foreign(n) == [path |-> <<n>>, program |-> "gold.aleo"]

MCLeaves == {Uint}
MCReferences == {Own("Pair"), Foreign("Pair"), Own("Coin"), Foreign("Coin"), [bare |-> "Pair"]}
                \cup {[path |-> <<n>>, program |-> Null] : n \in {"Pair", "Coin"}}

Types == {Uint, [Struct |-> Own("Pair")], [Struct |-> Foreign("Pair")], [Struct |-> [bare |-> "Pair"]],
          [Optional |-> [Struct |-> Own("Pair")]],
          [Array |-> [element |-> [Struct |-> Own("Pair")], length |-> 2]],
          [Optional |-> [Array |-> [element |-> [Struct |-> Own("Pair")], length |-> 2]]]}
Given == {[Plaintext |-> [ty |-> ty, mode |-> mode]] : ty \in Types, mode \in {"default", "Public", "Private"}}
         \cup {[Record |-> Own("Coin")], [Record |-> Foreign("Coin")], [bare |-> "Final"], [bare |-> "DynamicRecord"]}

AbiOf(ty, in, out) ==
  [program |-> "token.aleo",
   structs |-> <<[path |-> <<"Pair">>, fields |-> <<[name |-> "a", ty |-> ty]>>],
                 [name |-> "Old", path |-> <<>>, fields |-> <<>>]>>,
   records |-> <<[path |-> <<"Coin">>, fields |-> <<[name |-> "owner", ty |-> Uint]>>]>>,
   mappings |-> <<[name |-> "m", key |-> Uint, value |-> ty]>>,
   storage_variables |-> <<[name |-> "v", ty |-> [Vector |-> [Plaintext |-> ty]]], [name |-> "w", ty |-> ty]>>,
   functions |-> <<[name |-> "f", inputs |-> <<[name |-> "x", io |-> in]>>,
                    outputs |-> <<[name |-> "y", io |-> out]>>,
                    const_parameters |-> <<[name |-> "N", type |-> "u8"]>>]>>,
   views |-> <<[name |-> "g", inputs |-> <<[name |-> "x", io |-> in]>>, outputs |-> <<>>,
                const_parameters |-> <<>>]>>,
   implements |-> <<[bare |-> "Readable"], [path |-> <<"admin", "Owned">>],
                    [path |-> <<"Coin">>, program |-> "token.aleo"]>>]

MCAbis == {AbiOf(ty, in, out) : ty \in Types, in \in Given \ {[bare |-> "Final"]}, out \in Given}

-----------------------------------------------------------------------------
(* Programs for the names                                                  *)

MCClassName == [id \in {"token", "gold", "leo_field", "record_output_matcher", "widen_input"} |->
  CASE id = "token" -> "Token" [] id = "gold" -> "Gold" [] id = "leo_field" -> "LeoField"
    [] id = "record_output_matcher" -> "RecordOutputMatcher" [] OTHER -> "WidenInput"]
MCCapital == [n \in {"gold", "Coin", "math"} |->
  CASE n = "gold" -> "Gold" [] n = "math" -> "Math" [] OTHER -> n]
MCCamelCase == [n \in {"a_b", "aB", "a__b", "c"} |-> IF n = "c" THEN n ELSE "aB"]
MCTypeImports == {"LeoField", "FieldInput", "RecordOutputMatcher"}
MCInputImports == {"FieldInput", "WidenInput"}

Paths == {<<"Token">>, <<"TokenContract">>, <<"TokenInput">>, <<"Token_Input">>, <<"TokenStorage">>,
          <<"Gold_Coin">>, <<"WidenInput">>, <<"Field">>, <<"gold", "Coin">>, <<"Gold_CoinInput">>}
OneOrTwo == {<<>>} \cup {<<p>> : p \in Paths} \cup {<<p, q>> : p, q \in Paths}
Refs == {<<>>, <<[program |-> "gold", path |-> <<"Coin">>, record |-> TRUE]>>,
         <<[program |-> "gold", path |-> <<"Coin">>, record |-> FALSE],
           [program |-> "widen_input", path |-> <<"Coin">>, record |-> TRUE]>>}
Helpers == {<<>>, <<"as", "_asImpl">>, <<"createToken">>, <<"Gold_Coin">>, <<"serializeGold_Coin">>,
            <<"WidenInput">>}

(* The generator takes it that no two of the program's own types get one   *)
(* name, which Leo does not promise (math::Foo and Math_Foo do).           *)
OwnNamesDistinct(p) == Distinct(TypeNames(p))

Plainly == [program |-> "token", structs |-> <<>>, records |-> <<>>, refs |-> <<>>, helpers |-> <<>>,
            storage |-> <<>>, mappings |-> <<>>, views |-> <<>>, transitions |-> <<"mint">>, inputs |-> <<>>]

Programs ==
  {p \in {[Plainly EXCEPT !.program = id, !.structs = s, !.records = r, !.refs = refs, !.helpers = h,
                          !.storage = <<"v">>] :
            id \in {"token", "widen_input"}, s \in OneOrTwo, r \in {<<>>, <<<<"Token">>>>, <<<<"Gold_Coin">>>>},
            refs \in Refs, h \in Helpers} : OwnNamesDistinct(p)}
  \cup {[Plainly EXCEPT !.program = id, !.transitions = t, !.mappings = m, !.inputs = in] :
          id \in {"leo_field", "record_output_matcher"}, t \in {<<"mint">>, <<"connect">>, <<"mappings">>},
          m \in {<<>>, <<"a_b", "aB">>, <<"a_b", "a__b", "c">>, <<"aB", "c">>},
          in \in {<<"class", "arg0">>, <<"arg1", "class", "arg1_">>, <<"options">>, <<"x", "y">>}}

-----------------------------------------------------------------------------
(* Values                                                                  *)

MCBits == [p \in {"u8", "i8", "u64", "i64"} |-> IF p \in {"u8", "i8"} THEN 3 ELSE 5]
MCStructs == [n \in {"Pair", "Loop", "Gold_Pair"} |->
  IF n = "Loop"
  THEN <<[name |-> "next", ty |-> [kind |-> "optional", of |-> [kind |-> "struct", name |-> "Loop"]]]>>
  ELSE <<[name |-> "a", ty |-> Plain("u8")], [name |-> "b", ty |-> Plain("address")]>>]

Alice == 50
Prims == {"u8", "i8", "u64", "i64", "field", "group", "address", "identifier", "boolean"}
Ints == -17..33
Scalars ==
  {Number(n) : n \in Ints} \cup {BigInt(n) : n \in Ints} \cup {Boolean(b) : b \in {No, Yes}}
  \cup {[Number(1) EXCEPT !.whole = FALSE]}
  \cup {String(n, s) : n \in {0, 5}, s \in {"", "field", "group"}}
  \cup {[String(5, "field") EXCEPT !.vis = "public"]}
  \cup {String(Alice, "address"), Object([address |-> String(Alice, "address")]), Object([x |-> Number(1)]),
        Nothing, Undefined, List(<<>>)}

PairTy(n) == [kind |-> "struct", name |-> n]
OptionalOf(ty) == [kind |-> "optional", of |-> ty]
ArrayOf(ty, n) == [kind |-> "array", of |-> ty, length |-> n]
PairValues == {Object([a |-> a, b |-> String(Alice, "address")]) : a \in {Number(7), Number(8), Undefined}}
Compounds ==
  {<<v, PairTy(n)>> : v \in PairValues \cup {Nothing, List(<<>>), Number(1)}, n \in {"Pair", "Gold_Pair"}}
  \cup {<<v, OptionalOf(ty)>> : v \in PairValues \cup {Nothing, Undefined, Number(3)},
                                ty \in {PairTy("Pair"), PairTy("Gold_Pair"), PairTy("Loop"), Plain("u8"),
                                        Plain("identifier"), ArrayOf(PairTy("Pair"), 2)}}
  \cup {<<v, ArrayOf(Plain("u8"), 2)>> :
          v \in {List(<<Number(1), Number(2)>>), List(<<Number(1)>>), List(<<Number(1), Number(9)>>), Nothing}}
  \cup {<<List(<<Nothing, Number(0)>>), ArrayOf(OptionalOf(Plain("u8")), 2)>>}

Literals ==
  {<<Leaf(n, p), Plain(p)>> : n \in {-4, 3}, p \in {"i8"}}
  \cup {<<Leaf(n, p), Plain(p)>> : n \in {0, 7}, p \in {"u8", "field", "group"}}
  \cup {<<Leaf(n, "u64"), Plain("u64")>> : n \in {0, 8, 31}}
  \cup {<<Leaf(n, "i64"), Plain("i64")>> : n \in {-16, -5, 15}}
  \cup {<<Leaf(60, "quoted"), Plain("identifier")>>, <<Leaf(Alice, "address"), Plain("address")>>}
  \cup {<<Leaf(b, "boolean"), Plain("boolean")>> : b \in {No, Yes}}
  \cup {<<l, OptionalOf(ArrayOf(Plain("u8"), 2))>> :
          l \in {None(ArrayLit(<<Leaf(0, "u8"), Leaf(0, "u8")>>)), Some(ArrayLit(<<Leaf(1, "u8"), Leaf(2, "u8")>>))}}

Field(n, p) == [name |-> n, ty |-> Plain(p)]
Coin == <<Field("owner", "address"), Field("amount", "u64")>>
CoinLit(versioned) ==
  StructLit(<<[name |-> "owner", val |-> [Leaf(Alice, "address") EXCEPT !.vis = "private"]],
              [name |-> "amount", val |-> [Leaf(9, "u64") EXCEPT !.vis = "private"]],
              [name |-> "_nonce", val |-> [Leaf(5, "group") EXCEPT !.vis = "public"]]>>
            \o IF versioned THEN <<[name |-> "_version", val |-> [Leaf(1, "u8") EXCEPT !.vis = "public"]]>>
               ELSE <<>>)
Schema(names) ==
  [n \in names |-> [prim |-> CASE n = "owner" -> "address" [] n = "amount" -> "u64"
                               [] n = "_nonce" -> "group" [] OTHER -> "u8",
                    vis |-> IF n \in {"owner", "amount"} THEN "private" ELSE "public"]]
Schemas == {Schema(s) : s \in SUBSET {"owner", "amount", "_nonce", "_version", "extra"}}
           \cup {[Schema({"owner", "amount", "_nonce"}) EXCEPT !.amount.prim = "u8"]}

-----------------------------------------------------------------------------
(* Calls                                                                   *)

MCInstances == {[source |-> "token.aleo", runtime |-> r] : r \in {"token.aleo", "mytoken.aleo"}}
Out(kind, owner, record) == [kind |-> kind, owner |-> owner, record |-> record]
MCAbi == [name |-> "mint", inputs |-> 2,
          outputs |-> <<Out("record", "-", "Coin"), Out("private", "-", "-"), Out("future", "-", "-"),
                        Out("external", "-", "-")>>]
Mint == [program |-> "self", name |-> "mint", inputs |-> 2,
         outputs |-> <<Out("record", "alice", "Coin"), Out("private", "bob", "-"), Out("future", "-", "-"),
                       Out("external", "-", "-")>>]
Callee(p) == [program |-> p, name |-> "make", inputs |-> 0,
              outputs |-> <<Out("record", "bob", "Note"), Out("private", "bob", "-")>>]
MCCallgraphs ==
  {<<Mint>>, <<Callee("other.aleo"), Mint>>, <<Callee("token.aleo"), Callee("self"), Mint>>,
   <<[Mint EXCEPT !.outputs[1].owner = "bob"], Mint>>,
   <<[Mint EXCEPT !.outputs = SubSeq(@, 1, 2)]>>}

-----------------------------------------------------------------------------
vars == <<part, subject, abis, contractVars, vectorVars>>

Subjects ==
  [abi |-> {<<>>}, names |-> Programs,
   value |-> {<<v, Plain(p)>> : v \in Scalars, p \in Prims} \cup Compounds,
   literal |-> Literals,
   record |-> {<<CoinLit(v), s>> : v \in BOOLEAN, s \in Schemas},
   contract |-> {<<>>}, vector |-> {<<>>}]

Init ==
  /\ part \in Parts /\ subject \in Subjects[part]
  /\ abis \in IF part = "abi" THEN {{p} : p \in Abis} ELSE {{}}
  /\ ContractInit
  /\ VectorInit /\ (part # "vector" => cells[0] = CHOOSE v \in Values : TRUE)

Next ==
  \/ part = "contract" /\ ContractNext /\ UNCHANGED <<part, subject, abis, vectorVars>>
  \/ part = "vector" /\ VectorNext /\ UNCHANGED <<part, subject, abis, contractVars>>

Spec == Init /\ [][Next]_vars

-----------------------------------------------------------------------------
(* No module that generateBindings() returns declares a name twice.        *)
NamesDistinct == part = "names" => NamesDistinctIn(subject)

(* Values become literals of their type and come back unchanged, what the  *)
(* network returns can be passed on, and records keep their literal        *)
(* (the serializers of contract-wrapper.ts).                               *)
LiteralsFaithful ==
  /\ part = "value" => ValueFaithful(subject[1], subject[2])
  /\ part = "literal" => LiteralAccepted(subject[1], subject[2])
  /\ part = "record" => RecordFaithful(subject[1], Coin, subject[2])
=============================================================================
