------------------------- MODULE ExecutionArtifacts -------------------------
(***************************************************************************)
(* What execute() hands to the SDK (network/src/execution-key-cache.ts):   *)
(* the source of a program, the sources of everything it may call, and     *)
(* proving keys when some are on disk for exactly that.                    *)
(*                                                                         *)
(* A source is <<"artifact", product>> or <<"network", text>>.  Reading    *)
(* the network succeeds; a failure is an error of execute().               *)
(***************************************************************************)
EXTENDS Compiler

CONSTANT Seeds   \* lists of runtime imports: [id, source] with a source of {} for an id

SeedIds(refs) == {refs[i].id : i \in DOMAIN refs}

(* The ids that some program may import, or that somebody lists.           *)
Importable ==
  Ids \cup Foreign
  \cup (UNION {ToSet(importsOf[t]) : t \in DOMAIN importsOf})
  \cup (UNION {SeedIds(refs) : refs \in Seeds})

(* They are finitely many, and the texts of files and of the networks are  *)
(* programs of this model.                                                 *)
ASSUME ArtifactsAssumption ==
  /\ IsFiniteSet(Importable)
  /\ \A refs \in Seeds :
       /\ DOMAIN refs = 1 .. Len(refs) /\ Len(refs) \in Nat
       /\ \A i \in DOMAIN refs : refs[i].source \subseteq DOMAIN importsOf
  /\ \A n \in Networks : OnChain[n] \subseteq DOMAIN importsOf

(* parseImportIds(): the import lines of a compiled program.  Libraries    *)
(* are inlined.                                                            *)
parseImportIds(s) ==
  IF s[1] = "network" THEN ToSet(importsOf[s[2]])
  ELSE LET p == s[2].package
       IN  DOMAIN p.imports \cup {unitId(g) : g \in {h \in ToSet(p.local) : kind[h] = "program"}}

readLocalProgramSource(id) ==
  IF id \in Ids THEN {<<"artifact", a.product>> : a \in artifact[id]} ELSE {}

(* The artifact of this project if there is one, else the network, else    *)
(* nothing: an error of execute().                                         *)
SourceOf(n, id) ==
  IF readLocalProgramSource(id) # {} THEN readLocalProgramSource(id)
  ELSE IF id \in Foreign THEN {<<"network", chain[n][id]>>} ELSE {}

(* visit(): what is imported is read, and what it imports in turn, but     *)
(* what is there already is not read again.                                *)
Fetches == [todo : SUBSET Importable, met : SUBSET Importable, ok : BOOLEAN]

VisitImports(n, ids, acc) ==
  LET Visit[w \in Fetches] ==
        IF w.todo \subseteq w.met \/ ~w.ok THEN w
        ELSE LET id == Member(w.todo \ w.met)
             IN  Visit[IF SourceOf(n, id) = {} THEN [w EXCEPT !.ok = FALSE]
                       ELSE [w EXCEPT !.todo = @ \cup parseImportIds(Member(SourceOf(n, id))),
                                      !.met = @ \cup {id}]]
      end == Visit[[todo |-> ids, met |-> DOMAIN acc.imports, ok |-> TRUE]]
  IN  [ok |-> end.ok,
       imports |-> [id \in end.met |->
         IF id \in DOMAIN acc.imports THEN acc.imports[id] ELSE Member(SourceOf(n, id))]]

(* What a runtime import stands for: the file it names, or its id.         *)
SeedOf(n, ref) ==
  IF ref.source = {} THEN SourceOf(n, ref.id) ELSE {<<"network", t>> : t \in ref.source}

(* A runtime import comes with what it imports in turn; one id with two    *)
(* sources is an error.                                                    *)
SeedImport(n, ref, acc) ==
  LET s == Member(SeedOf(n, ref))
      conflict == ref.id \in DOMAIN acc.imports /\ acc.imports[ref.id] # s
  IN  IF SeedOf(n, ref) = {} \/ conflict THEN [acc EXCEPT !.ok = FALSE]
      ELSE VisitImports(n, parseImportIds(s), [acc EXCEPT !.imports = Put(@, ref.id, s)])

SeedImports(n, refs, acc) ==
  LET Seeded[i \in 0 .. Len(refs)] ==
        IF i = 0 THEN acc
        ELSE IF Seeded[i - 1].ok THEN SeedImport(n, refs[i], Seeded[i - 1]) ELSE Seeded[i - 1]
  IN  Seeded[Len(refs)]

resolveProgramImports_SeedsLast(n, s, refs) ==
  SeedImports(n, refs, VisitImports(n, parseImportIds(s), [ok |-> TRUE, imports |-> NoneYet]))

(* The runtime imports come first.                                         *)
resolveProgramImports(n, s, refs) ==
  LET seeded == SeedImports(n, refs, [ok |-> TRUE, imports |-> NoneYet])
  IN  IF seeded.ok THEN VisitImports(n, parseImportIds(s), seeded) ELSE seeded

(* readSidecarKeys(): the keys of the artifact, if its metadata is of this *)
(* source and these imports.  The compiler hashes the files of imports/    *)
(* and the runtime the programs, each in its own form: the two agree on    *)
(* nothing but the empty list.                                             *)
readSidecarKeys(id, s, imports) ==
  IF id \notin Ids THEN {}
  ELSE {c.source : c \in {d \in UNION {a.sidecar : a \in artifact[id]} :
          <<"artifact", d.source>> = s /\ d.imports = NoneYet /\ imports = NoneYet}}

-----------------------------------------------------------------------------
(* An execution gets the source of every program that can be reached from  *)
(* it or from its runtime imports and of no other, one source for each id; *)
(* a file that is named wins over what was compiled here, and that over    *)
(* the network.  It fails only if a program is nowhere, or a file that is  *)
(* named contradicts another runtime import.  Keys are used for the source *)
(* they were made from only.  (resolveProgramImports().)                   *)
ExecutionClosed ==
  \A n \in Networks, id \in Ids, refs \in Seeds : \A s \in readLocalProgramSource(id) :
    ~Compiling =>
      LET got == resolveProgramImports(n, s, refs)
          roots == parseImportIds(s) \cup SeedIds(refs)
          called == UNION {parseImportIds(got.imports[i]) : i \in DOMAIN got.imports}
          pinned == {i \in DOMAIN refs : refs[i].source # {}}
      IN  /\ got.ok => DOMAIN got.imports = roots \cup called
          /\ got.ok => \A i \in DOMAIN got.imports :
               got.imports[i] \in SourceOf(n, i) \cup
                 {<<"network", t>> : t \in UNION {refs[j].source : j \in {k \in pinned : refs[k].id = i}}}
          /\ got.ok => \A i \in pinned : got.imports[refs[i].id][2] \in refs[i].source
          /\ ~got.ok => \/ \E i \in roots \cup called : SourceOf(n, i) = {}
                        \/ \E i \in pinned, j \in DOMAIN refs : i # j
          /\ \A k \in readSidecarKeys(id, s, got.imports) : s = <<"artifact", k>>

=============================================================================
