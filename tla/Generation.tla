------------------------------- MODULE Generation -------------------------------
(***************************************************************************)
(* gormql generate, run again and again over a schema that changes, and    *)
(* the programs built from what it leaves in the output directory.         *)
(*                                                                         *)
(* A run removes the generated files of earlier runs, reads the schema,    *)
(* and writes its files one after the other; it may stop at any point,     *)
(* with an error or killed in the middle of a file.  A program is built    *)
(* from the files as they are; started, it makes a client and calls        *)
(* CreateIndexes, which sends one statement per @vector field and gives up *)
(* at the first error.  Several programs start against one database.       *)
(***************************************************************************)
EXTENDS GoModels

CONSTANTS
  Documents,    \* the versions of the schema file: a function from their names
  Databases,    \* neo4j, falkordb
  Targets,      \* the --target flag: "", a database, or something else
  Programs,     \* processes that start the program
  MaxRuns,      \* bound on runs
  MaxEdits,     \* bound on changes to the schema
  MaxFailures   \* bound on errors and kills, of runs and of statements

ASSUME GenerationAssumption ==
  /\ Databases \subseteq {"neo4j", "falkordb"}
  /\ MaxRuns \in Nat /\ MaxEdits \in Nat /\ MaxFailures \in Nat
  /\ \A v \in DOMAIN Documents : IsFiniteSet(DOMAIN Documents[v].types)

VARIABLES
  version,      \* what the schema file holds: a name in DOMAIN Documents
  database,     \* the database the programs talk to
  files,        \* the output directory: file names to [run, whole]
  pc,           \* what Generate does next: idle, clean, parse or write
  target,       \* its --target
  written,      \* files it has written
  runs,         \* the runs so far: the source and target each has, once parsed
  built,        \* the program: the Go files it was compiled from, by run
  process,      \* each process: [status, program, at]
  indexes,      \* vector indexes in the database
  \* history
  outcome,      \* how the last run ended
  left,         \* a file of an earlier run could not be removed
  edits,
  failures

runVars == <<files, pc, target, written, runs, outcome, left>>
programVars == <<built, process, indexes>>
vars == <<version, database, runVars, programVars, edits, failures>>
-----------------------------------------------------------------------------
(* A source is a version that parses with the order its types come in: the *)
(* model of a run, and all that is generated from it, is a function of it. *)
Sources ==
  UNION {{<<v, order>> : order \in Orders(Documents[v])} :
           v \in {v \in DOMAIN Documents : ValidateDirectives(Documents[v])}}

ModelOf == [s \in Sources |-> Model(Documents[s[1]], s[2])]

NotParsed == [source |-> <<>>, target |-> ""]

(* The files of a run, in the order they are written. *)
Outputs(source) ==
  When(ModelOf[source].customScalars # {}, <<"scalars_gen.go">>)
  \o <<"schema.graphql", "models_gen.go", "graphmodel_gen.go", "client_gen.go">>
  \o When(HasVectorField(ModelOf[source]), <<"indexes_gen.go">>)

GoFiles == {"scalars_gen.go", "models_gen.go", "graphmodel_gen.go", "client_gen.go", "indexes_gen.go"}

ValidTarget(t) == t \in {"", "neo4j", "falkordb"}
Normalized(t) == IF t = "" THEN "neo4j" ELSE t

Current == runs[Len(runs)]

(* GenerateIndexes: the index of each @vector field, by its node's order.  *)
VectorIndexes ==
  [s \in Sources |->
     LET nodes == VectorNodes(ModelOf[s])
     IN  [i \in DOMAIN nodes |->
            LET f == nodes[i].vectorField[1]
            IN  [name |-> f.on["vector"].indexName, label |-> nodes[i].name, property |-> f.name,
                 dimensions |-> f.on["vector"].dimensions]]]

(* What the Go compiler makes of the models of one run beside the scalars  *)
(* of one, if there are any.                                               *)
TypesResolve ==
  [s \in Sources, scalars \in Sources \cup {<<>>} |->
     Declared(GenerateModels(ModelOf[s])
              \o IF scalars = <<>> THEN <<>> ELSE GenerateScalars(ModelOf[scalars]))]

(* What client.New makes of the registry: it panics on no nodes, and on a  *)
(* schema that does not load.                                              *)
Panics ==
  [s \in Sources |-> ModelOf[s].nodes = <<>> \/ ~LoadSchema(AugmentSchema(ModelOf[s]))]

Init ==
  /\ version \in DOMAIN Documents
  /\ database \in Databases
  /\ files = [f \in {} |-> [run |-> 0, whole |-> TRUE]]
  /\ pc = "idle" /\ target = "" /\ written = 0 /\ runs = <<>>
  /\ built = [f \in {} |-> 0]
  /\ process = [p \in Programs |-> [status |-> "idle", program |-> built, at |-> 0]]
  /\ indexes = {}
  /\ outcome = "none" /\ left = FALSE /\ edits = 0 /\ failures = 0

(* A run reads the schema once: an edit during a run is one before it or   *)
(* after it.                                                               *)
Edit(v) ==
  /\ pc = "idle"
  /\ edits < MaxEdits /\ v # version
  /\ version' = v
  /\ edits' = edits + 1
  /\ UNCHANGED <<database, runVars, programVars, failures>>

Generate(t) ==
  /\ pc = "idle"
  /\ Len(runs) < MaxRuns
  /\ pc' = "clean"
  /\ target' = t
  /\ written' = 0
  /\ runs' = Append(runs, NotParsed)
  /\ outcome' = "running"
  /\ UNCHANGED <<version, database, files, left, programVars, edits, failures>>

(* Altered: nothing is removed. *)
CleanGeneratedGoFiles_Nothing(kept) ==
  /\ pc = "clean"
  /\ kept = {}
  /\ pc' = "parse"
  /\ UNCHANGED <<files, left, failures>>

(* Errors of os.Remove are ignored: the file stays. *)
CleanGeneratedGoFiles(kept) ==
  /\ pc = "clean"
  /\ kept \subseteq DOMAIN files \cap GoFiles
  /\ kept # {} => failures < MaxFailures
  /\ files' = [f \in (DOMAIN files \ GoFiles) \cup kept |-> files[f]]
  /\ left' = (left \/ kept # {})
  /\ failures' = IF kept = {} THEN failures ELSE failures + 1
  /\ pc' = "parse"

Clean ==
  /\ \E kept \in SUBSET DOMAIN files : CleanGeneratedGoFiles(kept)
  /\ UNCHANGED <<version, database, target, written, runs, outcome, programVars, edits>>

Stop(how) ==
  /\ pc' = "idle"
  /\ outcome' = how

(* ParseSchema, then the target. *)
Parse ==
  /\ pc = "parse"
  /\ IF ValidateDirectives(Documents[version]) /\ ValidTarget(target)
     THEN /\ \E order \in Orders(Documents[version]) :
               runs' = [runs EXCEPT ![Len(runs)] =
                          [source |-> <<version, order>>, target |-> Normalized(target)]]
          /\ pc' = "write"
          /\ UNCHANGED outcome
     ELSE Stop("error") /\ UNCHANGED runs
  /\ UNCHANGED <<version, database, files, target, written, left, programVars, edits, failures>>

NextFile == Outputs(Current.source)[written + 1]
Put(whole) == files' = [f \in DOMAIN files \cup {NextFile} |->
                IF f = NextFile THEN [run |-> Len(runs), whole |-> whole] ELSE files[f]]

(* Altered: the run looks for one file more. *)
WriteGeneratedFile_OneMore ==
  /\ pc = "write"
  /\ Put(TRUE)
  /\ written' = written + 1
  /\ IF written' > Len(Outputs(Current.source)) THEN Stop("done") ELSE UNCHANGED <<pc, outcome>>
  /\ UNCHANGED <<version, database, target, runs, left, programVars, edits, failures>>

WriteGeneratedFile ==
  /\ pc = "write"
  /\ Put(TRUE)
  /\ written' = written + 1
  /\ IF written' = Len(Outputs(Current.source)) THEN Stop("done") ELSE UNCHANGED <<pc, outcome>>
  /\ UNCHANGED <<version, database, target, runs, left, programVars, edits, failures>>

(* The run ends early: the schema file cannot be read, a file cannot be    *)
(* written or only in part (os.WriteFile truncates it first), the process  *)
(* is killed.                                                              *)
RunFails ==
  /\ pc # "idle"
  /\ failures < MaxFailures
  /\ failures' = failures + 1
  /\ Stop("error")
  /\ UNCHANGED files \/ (pc = "write" /\ Put(FALSE))
  /\ UNCHANGED <<version, database, target, written, runs, left, programVars, edits>>
-----------------------------------------------------------------------------
SourceOf(run) == runs[run].source
Registry(program) == SourceOf(program["graphmodel_gen.go"])

(* Every Go file is whole, the ones a program uses are there, and the      *)
(* types resolve.  A program calls CreateIndexes when its schema has a     *)
(* @vector.  The map of a FalkorDB index file cannot hold one name twice.  *)
Compiles(go) ==
  /\ {"models_gen.go", "graphmodel_gen.go", "client_gen.go"} \subseteq DOMAIN go
  /\ \A f \in DOMAIN go : files[f].whole
  /\ TypesResolve[SourceOf(go["models_gen.go"]),
                  IF "scalars_gen.go" \in DOMAIN go THEN SourceOf(go["scalars_gen.go"]) ELSE <<>>]
  /\ HasVectorField(ModelOf[Registry(go)]) => "indexes_gen.go" \in DOMAIN go
  /\ "indexes_gen.go" \in DOMAIN go /\ runs[go["indexes_gen.go"]].target = "falkordb" =>
       LET all == VectorIndexes[SourceOf(go["indexes_gen.go"])]
       IN  \A i, j \in DOMAIN all : all[i].name = all[j].name => i = j

(* The Go package in the output directory: each file with its run. *)
Package == [f \in DOMAIN files \cap GoFiles |-> files[f].run]

(* go build, at any time. *)
Build ==
  /\ built # Package
  /\ Compiles(Package)
  /\ built' = Package
  /\ UNCHANGED <<version, database, runVars, process, indexes, edits, failures>>

(* Altered: CreateIndexes starts at the second index. *)
Indexed_Skipping(program) ==
  IF "indexes_gen.go" \in DOMAIN program
  THEN Tail(VectorIndexes[SourceOf(program["indexes_gen.go"])]) ELSE <<>>

(* The statements of the program's CreateIndexes. *)
Indexed(program) ==
  IF "indexes_gen.go" \in DOMAIN program
  THEN VectorIndexes[SourceOf(program["indexes_gen.go"])] ELSE <<>>

(* NewClient, on the schema of the registry. *)
Start(p) ==
  /\ process[p].status \in {"idle", "failed", "ready"}
  /\ built # [f \in {} |-> 0]
  /\ process[p] # [status |-> "ready", program |-> built, at |-> Len(Indexed(built)) + 1]
  /\ process' = [process EXCEPT ![p] =
       [status  |-> IF Panics[Registry(built)] THEN "panicked" ELSE "indexing",
        program |-> built, at |-> 1]]
  /\ UNCHANGED <<version, database, runVars, built, indexes, edits, failures>>

(* Neo4j's IF NOT EXISTS: an index of that name or on that property is     *)
(* enough.  FalkorDB's indexes have no names.                              *)
Taken(index) ==
  \E i \in indexes :
    \/ i.label = index.label /\ i.property = index.property
    \/ database = "neo4j" /\ i.name = index.name

Added(index) ==
  indexes' = indexes \cup (IF Taken(index) THEN {} ELSE
    {IF database = "neo4j" THEN index ELSE [index EXCEPT !.name = ""]})

Statement(p) == Indexed(process[p].program)[process[p].at]

AtStatement(p) ==
  /\ process[p].status = "indexing"
  /\ process[p].at <= Len(Indexed(process[p].program))

RightDialect(p) == runs[process[p].program["indexes_gen.go"]].target = database

(* The statement works, or FalkorDB answers that the property is already   *)
(* indexed, which the generated code takes for success.                    *)
CreateIndex(p) ==
  /\ AtStatement(p) /\ RightDialect(p)
  /\ Added(Statement(p))
  /\ process' = [process EXCEPT ![p].at = @ + 1]
  /\ UNCHANGED <<version, database, runVars, built, edits, failures>>

(* An error ends CreateIndexes, whether or not the index is there now. *)
CreateIndexFails(p) ==
  /\ AtStatement(p)
  /\ RightDialect(p) => failures < MaxFailures
  /\ failures' = IF RightDialect(p) THEN failures + 1 ELSE failures
  /\ UNCHANGED indexes \/ (RightDialect(p) /\ Added(Statement(p)))
  /\ process' = [process EXCEPT ![p].status = "failed"]
  /\ UNCHANGED <<version, database, runVars, built, edits>>

Ready(p) ==
  /\ process[p].status = "indexing"
  /\ process[p].at > Len(Indexed(process[p].program))
  /\ process' = [process EXCEPT ![p].status = "ready"]
  /\ UNCHANGED <<version, database, runVars, built, indexes, edits, failures>>

Next ==
  \/ \E v \in DOMAIN Documents : Edit(v)
  \/ \E t \in Targets : Generate(t)
  \/ Clean \/ Parse \/ WriteGeneratedFile \/ RunFails
  \/ Build
  \/ \E p \in Programs : Start(p) \/ CreateIndex(p) \/ CreateIndexFails(p) \/ Ready(p)

Spec == Init /\ [][Next]_vars
-----------------------------------------------------------------------------
Files == GoFiles \cup {"schema.graphql"}

(* Every variable has a value of its kind, and no file is of a run that    *)
(* has not read its schema.                                                *)
TypeOK ==
  /\ version \in DOMAIN Documents /\ database \in Databases
  /\ DOMAIN files \subseteq Files
  /\ \A f \in DOMAIN files : files[f].run \in DOMAIN runs /\ runs[files[f].run] # NotParsed
  /\ pc \in {"idle", "clean", "parse", "write"}
  /\ pc = "write" => written < Len(Outputs(Current.source))
  /\ DOMAIN built \subseteq GoFiles
  /\ \A f \in DOMAIN built : built[f] \in DOMAIN runs
  /\ \A p \in Programs :
       /\ process[p].status \in {"idle", "indexing", "ready", "failed", "panicked"}
       /\ process[p].at \in 0..(Len(Indexed(process[p].program)) + 1)
  /\ outcome \in {"none", "running", "done", "error"} /\ left \in BOOLEAN
  /\ edits \in 0..MaxEdits /\ failures \in 0..MaxFailures

(* Whatever runs failed, were killed or are under way, a package that      *)
(* compiles holds the files of one run: the model, the schema, the Go      *)
(* types and the indexes in it are of one version of the schema.           *)
BuiltFromOneRun ==
  ~left => \A f, g \in DOMAIN built : built[f] = built[g]

(* After a run that works, the directory holds just the files its schema   *)
(* calls for, and all are its own (pipeline.go: re-running overwrites all  *)
(* generated files): no index or scalar file of an earlier schema stays.   *)
OutputMatchesSchema ==
  outcome = "done" /\ ~left =>
    /\ DOMAIN files = Range(Outputs(Current.source))
    /\ \A f \in DOMAIN files : files[f] = [run |-> Len(runs), whole |-> TRUE]

Bases(fields) == {fields[i].type.base : i \in DOMAIN fields}

(* Lists are of elements that cannot be null, and optional where they are  *)
(* a node's stored field.                                                  *)
ListsOf(fields, alsoRequired) ==
  \A i \in DOMAIN fields : LET type == fields[i].type IN
    type.list => type.inner /\ (alsoRequired \/ ~type.required)

(* What the generators handle: stored fields of built-in and declared      *)
(* scalars, no enums; one stored field besides the vector; relationships   *)
(* between nodes; and no two names that are put together to the same one.  *)
Handled(s) ==
  LET model  == ModelOf[s]
      names  == Names(model.nodes)
      scalar == Builtin \cup model.customScalars
      index  == VectorIndexes[s]
  IN  /\ model.nodes # <<>>
      /\ \A i \in DOMAIN model.nodes :
           LET node == model.nodes[i]
               stored == WithoutVector(node.fields)
           IN  /\ stored # <<>> /\ Bases(stored) \subseteq scalar /\ ListsOf(stored, FALSE)
               /\ Bases(node.cypherFields) \subseteq scalar \cup names /\ ListsOf(node.cypherFields, TRUE)
               /\ \A j \in DOMAIN node.cypherFields : Bases(node.cypherFields[j].args) \subseteq scalar
      /\ \A i \in DOMAIN model.relationships :
           LET rel == model.relationships[i] IN
           /\ rel.toNode \in names
           /\ \A j \in DOMAIN rel.properties :
                LET edge == rel.properties[j]
                IN  /\ edge.fields # <<>> /\ edge.typeName \notin names
                    /\ Bases(edge.fields) \subseteq scalar /\ ListsOf(edge.fields, TRUE)
           /\ \A n \in names : Prefix(rel) \notin {n, n \o "s", PluralCapitalized(n)}
      /\ \A i, j \in DOMAIN index : index[i].name = index[j].name => i = j

Supported == {s \in Sources : Handled(s)}

(* A package generated from a supported schema, in whatever order the      *)
(* parser's map gave its types, compiles, and NewClient does not panic on  *)
(* it: the schema names no type it does not declare.                       *)
ClientStarts ==
  /\ outcome = "done" /\ ~left /\ Current.source \in Supported => Compiles(Package)
  /\ \A p \in Programs :
       process[p].status = "panicked" => Registry(process[p].program) \notin Supported

(* What a Go value of the struct encodes to, the schema's input takes.     *)
Accepts(input, struct) ==
  /\ \A i \in DOMAIN struct.fields : \E j \in DOMAIN input.fields :
       LET go == struct.fields[i]
           f  == input.fields[j]
       IN  f.name = go.tag /\ f.type.base = go.type.base /\ f.type.list = go.type.list
  /\ \A j \in DOMAIN input.fields : input.fields[j].type.required =>
       \E i \in DOMAIN struct.fields :
         struct.fields[i].tag = input.fields[j].name /\ ~struct.fields[i].omitempty

(* The input of the schema or the struct without its update list. *)
WithoutUpdate(rels, d) ==
  [d EXCEPT !.fields = SelectSeq(@, LAMBDA f :
     f.type.base \notin {Prefix(rels[r]) \o "UpdateConnectionInput" : r \in DOMAIN rels})]

(* Sources whose mutation inputs each have a struct they accept. *)
InputsAgree ==
  {s \in Sources :
     LET model  == ModelOf[s]
         rels   == model.relationships
         sdl    == AugmentSchema(model)
         go     == GenerateModels(model)
         others == UNION {{n \o "Where", n \o "Sort"} : n \in Names(model.nodes)}
     IN  \A i \in DOMAIN sdl : sdl[i].kind = "input" /\ sdl[i].name \notin others =>
           \E j \in DOMAIN go :
             go[j].name = sdl[i].name /\ Accepts(WithoutUpdate(rels, sdl[i]), WithoutUpdate(rels, go[j]))}

(* The Go input types and the inputs of the schema are written by two      *)
(* generators from one model: each input of a mutation has its struct,     *)
(* whose tags it knows, with values of the same shape, and which leaves    *)
(* out none that is required.  (Not where inputs, whose tags are others,   *)
(* nor sort inputs, whose structs have the vector as well, nor the list a  *)
(* struct has for update, where the schema has an object.)                 *)
GoInputsAccepted ==
  outcome = "done" /\ Current.source \in Supported => Current.source \in InputsAgree

(* An index name has meant one field, with one dimension, in all schemas.  *)
NamesKept ==
  LET all == UNION {Range(VectorIndexes[runs[r].source]) :
                  r \in {r \in DOMAIN runs : runs[r] # NotParsed}}
  IN  \A i, j \in all :
        i.name = j.name \/ (i.label = j.label /\ i.property = j.property) => i = j

(* When CreateIndexes returns without an error, the database has an index  *)
(* for each @vector field the client's searches may use, whoever created   *)
(* it: an earlier version, another process at the same time, or a call     *)
(* before that failed half way or whose last reply was lost.               *)
IndexesComplete ==
  NamesKept /\ ~left =>
    \A p \in Programs : process[p].status = "ready" =>
      \A index \in Range(VectorIndexes[Registry(process[p].program)]) :
        \E i \in indexes :
          /\ i.label = index.label /\ i.property = index.property /\ i.dimensions = index.dimensions
          /\ i.name = IF database = "neo4j" THEN index.name ELSE ""
=============================================================================
