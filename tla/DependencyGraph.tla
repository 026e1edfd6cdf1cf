--------------------------- MODULE DependencyGraph ---------------------------
(***************************************************************************)
(* Discovery of the compilation units of a project and the order in which  *)
(* they are compiled (leo-compiler/src/source-discovery.ts,                *)
(* dependency-resolver.ts).                                                *)
(*                                                                         *)
(* A unit is a folder with a main.leo (a program) or a lib.leo (a          *)
(* library).  The text of its sources is a member of a small set, of which *)
(* only the imports and the declaration matter here.                       *)
(***************************************************************************)
EXTENDS DepthFirst, Naturals

CONSTANTS
  folderName,   \* folderName[f]: the base name of folder f
  kind,         \* kind[f]: "program" or "library"
  aleo,         \* aleo[name]: the name with the suffix .aleo
  importsOf,    \* importsOf[t]: the ids that text t imports, in order
  Undeclared,   \* the texts of main.leo that do not declare the folder's program
  Reserved      \* RESERVED_BUILTIN_IDS

(* discoverProgram(): one root whose declaration is missing, or is of      *)
(* another name than its folder, fails the whole tree.                     *)
discoverUnits(dirs, text) ==
  \A i \in DOMAIN dirs : kind[dirs[i]] = "program" => text[dirs[i]] \notin Undeclared

unitId(f) == IF kind[f] = "program" THEN aleo[folderName[f]] ELSE folderName[f]

(* A library is imported with and without the suffix.                      *)
lookupKeys(f) == {unitId(f), aleo[folderName[f]]}

validateUniqueLookupKeys(dirs) ==
  \A i \in DOMAIN dirs :
    /\ lookupKeys(dirs[i]) \cap Reserved = {}
    /\ \A j \in 1 .. i - 1 : lookupKeys(dirs[j]) \cap lookupKeys(dirs[i]) = {}

(* The unit an import refers to, as a set with one member at most.         *)
Named(dirs, key) == {f \in ToSet(dirs) : key \in lookupKeys(f)}

(* The members of s that are in S, in the order of s.                      *)
Kept(s, S) ==
  LET Upto[i \in 0 .. Len(s)] ==
        IF i = 0 THEN <<>>
        ELSE IF s[i] \in S THEN Append(Upto[i - 1], s[i]) ELSE Upto[i - 1]
  IN  Upto[Len(s)]

(* The local dependencies of f in the order of its imports, without f; and *)
(* the imports that no unit of the project answers to.                     *)
LocalDeps(dirs, text, f) ==
  LET imports == importsOf[text[f]]
      local == Kept(imports, {key \in ToSet(imports) : Named(dirs, key) \ {f} # {}})
  IN  [i \in DOMAIN local |-> CHOOSE g \in Named(dirs, local[i]) : TRUE]

NetworkDeps(dirs, text, f) == {key \in ToSet(importsOf[text[f]]) : Named(dirs, key) = {}}

(* What a list with a unit that fails discovery or a graph with a cycle    *)
(* comes to is an error: ok is FALSE.                                      *)
resolveDependencies(dirs, text) ==
  Visited(dirs, [f \in ToSet(dirs) |-> LocalDeps(dirs, text, f)],
          discoverUnits(dirs, text) /\ validateUniqueLookupKeys(dirs))

DepsOf(dirs, text) == [f \in ToSet(dirs) |-> ToSet(LocalDeps(dirs, text, f))]

collectTransitiveDeps(dirs, text, order, f) ==
  Kept(order, Needs(DepsOf(dirs, text), {f}))

=============================================================================
