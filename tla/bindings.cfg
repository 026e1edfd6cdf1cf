SPECIFICATION Spec
CONSTANTS
  Parts = {"abi", "names", "value", "literal", "record", "contract", "vector"}
  Abis <- MCAbis
  Leaves <- MCLeaves
  References <- MCReferences
  Lengths = {2}
  MaxDepth = 2
  ClassName <- MCClassName
  Capital <- MCCapital
  CamelCase <- MCCamelCase
  TypeImports <- MCTypeImports
  InputImports <- MCInputImports
  InstanceMembers = {"constructor", "connect", "address"}
  ParamWords = {"class", "options"}
  Bits <- MCBits
  NumberBits = 4
  MaxSafe = 20
  Structs <- MCStructs
  External = {"Gold_Pair"}
  Callers = {c1, c2}
  Instances <- MCInstances
  Callgraphs <- MCCallgraphs
  Abi <- MCAbi
  Owners = {"alice", "bob"}
  Values = {1, 2}
  MaxLength = 3
  MaxWrites = 3
INVARIANTS AbiStable NamesDistinct LiteralsFaithful OutcomesTruthful HandlesFaithful VectorElementsLive
CHECK_DEADLOCK FALSE
