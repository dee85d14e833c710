---------------------------- MODULE GenerationProofs ----------------------------
(***************************************************************************)
(* The output directory, the programs built from it and the indexes they   *)
(* make, for any versions of the schema and any number of runs, programs   *)
(* and failures.                                                           *)
(***************************************************************************)
EXTENDS Generation, FiniteSetTheorems, TLAPS
-----------------------------------------------------------------------------
(* Runs and their files. *)

Run == {NotParsed} \cup [source : Sources, target : {"neo4j", "falkordb"}]

Parsed == {r \in DOMAIN runs : runs[r] # NotParsed}

RunTypes ==
  /\ version \in DOMAIN Documents /\ database \in Databases
  /\ runs \in Seq(Run)
  /\ pc \in {"idle", "clean", "parse", "write"}
  /\ pc # "idle" => runs # <<>>
  /\ outcome \in {"none", "running", "done", "error"}
  /\ outcome = "done" => pc = "idle"
  /\ left \in BOOLEAN
  /\ edits \in 0..MaxEdits /\ failures \in 0..MaxFailures

FileTypes ==
  /\ files = [f \in DOMAIN files |-> files[f]]
  /\ DOMAIN files \subseteq Files
  /\ \A f \in DOMAIN files : files[f] \in [run : Parsed, whole : BOOLEAN]

(* The Go files are of one run, which a run under way has removed or       *)
(* begins to replace.                                                      *)
GoFilesAgree ==
  ~left =>
    /\ \A f, g \in DOMAIN files \cap GoFiles : files[f].run = files[g].run
    /\ pc = "parse" => DOMAIN files \cap GoFiles = {}
    /\ pc = "write" => \A f \in DOMAIN files \cap GoFiles : files[f].run = Len(runs)

(* How far a run has come. *)
Progress ==
  /\ pc \in {"clean", "parse"} => written = 0 /\ Current = NotParsed
  /\ pc = "write" =>
       /\ Current.source \in Sources
       /\ written \in Nat /\ written < Len(Outputs(Current.source))
       /\ ~left =>
            /\ DOMAIN files \subseteq {Outputs(Current.source)[i] : i \in 1..written} \cup {"schema.graphql"}
            /\ \A i \in 1..written :
                 /\ Outputs(Current.source)[i] \in DOMAIN files
                 /\ files[Outputs(Current.source)[i]] = [run |-> Len(runs), whole |-> TRUE]

DirectoryInv == RunTypes /\ FileTypes /\ GoFilesAgree /\ Progress /\ OutputMatchesSchema
-----------------------------------------------------------------------------
(* The files of a run: a sequence that has the schema's file.              *)
LEMMA OutputsSeq ==
  ASSUME NEW source
  PROVE  /\ Outputs(source) \in Seq(Files)
         /\ Len(Outputs(source)) > 0
         /\ \E i \in 1..Len(Outputs(source)) : Outputs(source)[i] = "schema.graphql"
<1> DEFINE always == <<"schema.graphql", "models_gen.go", "graphmodel_gen.go", "client_gen.go">>
           Good(names) == /\ names \in Seq(Files) /\ Len(names) > 0
                          /\ \E i \in 1..Len(names) : names[i] = "schema.graphql"
<1> USE DEF Files, GoFiles
<1>1. Good(always)
  <2>1. always[1] = "schema.graphql" /\ Len(always) = 4
    OBVIOUS
  <2>2. always \in Seq(Files)
    OBVIOUS
  <2> QED BY <2>1, <2>2
<1>2. ASSUME NEW s \in Seq(Files), NEW t \in Seq(Files), Good(s) \/ Good(t) PROVE Good(s \o t)
  <2>1. s \o t \in Seq(Files) /\ Len(s \o t) = Len(s) + Len(t)
    OBVIOUS
  <2>2. CASE Good(s)
    BY <2>1, <2>2
  <2>3. CASE Good(t)
    <3>1. PICK i \in 1..Len(t) : t[i] = "schema.graphql"
      BY <2>3
    <3>2. (s \o t)[Len(s) + i] = "schema.graphql" /\ Len(s) + i \in 1..Len(s \o t)
      BY <2>1, <3>1
    <3> QED BY <2>1, <3>2
  <2> QED BY <1>2, <2>2, <2>3
<1>3. \A b : /\ When(b, <<"scalars_gen.go">>) \in Seq(Files)
             /\ When(b, <<"indexes_gen.go">>) \in Seq(Files)
  <2>1. <<"scalars_gen.go">> \in Seq(Files) /\ <<"indexes_gen.go">> \in Seq(Files) /\ <<>> \in Seq(Files)
    OBVIOUS
  <2>2. \A b, seq : When(b, seq) = seq \/ When(b, seq) = <<>>
    BY DEF When
  <2> QED BY <2>1, <2>2
<1>4. always \in Seq(Files)
  BY <1>1
<1> DEFINE scalars == When(ModelOf[source].customScalars # {}, <<"scalars_gen.go">>)
           indexed == When(HasVectorField(ModelOf[source]), <<"indexes_gen.go">>)
<1>5. scalars \in Seq(Files) /\ indexed \in Seq(Files)
  BY <1>3
<1>6. Outputs(source) = scalars \o always \o indexed
  BY DEF Outputs
<1> HIDE DEF scalars, indexed, always
<1>7. Good(scalars \o always)
  BY <1>1, <1>2, <1>4, <1>5
<1>8. Good((scalars \o always) \o indexed)
  BY <1>2, <1>5, <1>7
<1> QED BY <1>6, <1>8
-----------------------------------------------------------------------------
(* The directory, action by action. *)

LEMMA DirectoryInit == Init => DirectoryInv
<1> SUFFICES ASSUME Init PROVE DirectoryInv
  OBVIOUS
<1>1. RunTypes
  <2>1. 0 \in 0..MaxEdits /\ 0 \in 0..MaxFailures
    BY GenerationAssumption
  <2>2. runs \in Seq(Run)
    <3>1. runs = <<>>
      BY DEF Init
    <3> QED BY <3>1
  <2> QED BY <2>1, <2>2 DEF Init, RunTypes
<1>2. FileTypes /\ GoFilesAgree /\ Progress /\ OutputMatchesSchema
  BY DEF Init, FileTypes, GoFilesAgree, Progress, OutputMatchesSchema
<1> QED BY <1>1, <1>2 DEF DirectoryInv

(* Nothing of a run changes. *)
LEMMA DirectoryUnchanged ==
  ASSUME DirectoryInv, UNCHANGED runVars, version' \in DOMAIN Documents, UNCHANGED database,
         edits' \in 0..MaxEdits, failures' \in 0..MaxFailures
  PROVE  DirectoryInv'
<1> USE DEF DirectoryInv, runVars
<1>1. RunTypes'
  BY DEF RunTypes
<1>2. FileTypes' /\ GoFilesAgree'
  BY DEF FileTypes, GoFilesAgree, Parsed
<1>3. Current' = Current
  BY DEF Current
<1>4. Outputs(Current.source)' = Outputs(Current.source)
  BY <1>3 DEF Outputs
<1>5. Progress'
  BY <1>3, <1>4 DEF Progress
<1>6. OutputMatchesSchema'
  BY <1>3, <1>4 DEF OutputMatchesSchema
<1> QED BY <1>1, <1>2, <1>5, <1>6

LEMMA DirectoryGenerate ==
  ASSUME DirectoryInv, NEW t \in Targets, Generate(t)
  PROVE  DirectoryInv'
<1> USE DEF DirectoryInv, Generate
<1>1. NotParsed \in Run
  BY DEF Run
<1>2. runs' \in Seq(Run) /\ runs' # <<>> /\ Len(runs') = Len(runs) + 1
      /\ \A r \in 1..Len(runs) : runs'[r] = runs[r]
  BY <1>1 DEF RunTypes
<1>3. RunTypes'
  BY <1>2 DEF RunTypes
<1>4. Parsed \subseteq Parsed'
  BY <1>2 DEF Parsed, RunTypes
<1>5. FileTypes'
  BY <1>4 DEF FileTypes
<1>6. GoFilesAgree' /\ OutputMatchesSchema'
  BY DEF GoFilesAgree, OutputMatchesSchema
<1>7. runs'[Len(runs')] = NotParsed
  BY <1>2 DEF RunTypes
<1>8. Progress'
  BY <1>7 DEF Progress, Current
<1> QED BY <1>3, <1>5, <1>6, <1>8

LEMMA DirectoryClean ==
  ASSUME DirectoryInv, Clean
  PROVE  DirectoryInv'
<1> USE DEF DirectoryInv
<1>1. PICK kept \in SUBSET DOMAIN files : CleanGeneratedGoFiles(kept)
  BY DEF Clean
<1> USE DEF CleanGeneratedGoFiles
<1>2. RunTypes'
  BY <1>1, GenerationAssumption DEF RunTypes, Clean
<1>3. Parsed' = Parsed
  BY DEF Parsed, Clean
<1>4. /\ DOMAIN files' \subseteq DOMAIN files
      /\ files' = [f \in DOMAIN files' |-> files[f]]
      /\ kept = {} => DOMAIN files' \cap GoFiles = {}
  BY <1>1
<1>5. FileTypes'
  BY <1>3, <1>4 DEF FileTypes
<1>6. GoFilesAgree' /\ Progress' /\ OutputMatchesSchema'
  BY <1>1, <1>4 DEF GoFilesAgree, Progress, OutputMatchesSchema, Clean, RunTypes, Current
<1> QED BY <1>2, <1>5, <1>6

(* A run that cannot parse ends; one that can begins to write.             *)
LEMMA DirectoryParse ==
  ASSUME DirectoryInv, Parse
  PROVE  DirectoryInv'
<1> USE DEF DirectoryInv
<1>1. CASE ValidateDirectives(Documents[version]) /\ ValidTarget(target)
  <2>1. PICK order \in Orders(Documents[version]) :
          runs' = [runs EXCEPT ![Len(runs)] =
                     [source |-> <<version, order>>, target |-> Normalized(target)]]
    BY <1>1 DEF Parse
  <2>2. <<version, order>> \in Sources
    BY <1>1 DEF Sources, RunTypes
  <2>3. [source |-> <<version, order>>, target |-> Normalized(target)] \in Run
    BY <1>1, <2>2 DEF Run, ValidTarget, Normalized
  <2>4. Len(runs) \in 1..Len(runs)
    BY DEF Parse, RunTypes
  <2>5. /\ runs' \in Seq(Run) /\ Len(runs') = Len(runs) /\ runs' # <<>>
        /\ runs'[Len(runs)] = [source |-> <<version, order>>, target |-> Normalized(target)]
        /\ \A r \in 1..(Len(runs) - 1) : runs'[r] = runs[r]
    BY <2>1, <2>3, <2>4 DEF RunTypes
  <2>6. RunTypes'
    BY <1>1, <2>5 DEF RunTypes, Parse
  <2>7. Parsed \subseteq Parsed'
    <3>1. [source |-> <<version, order>>, target |-> Normalized(target)] # NotParsed
      BY DEF NotParsed
    <3>2. \A r \in DOMAIN runs : r = Len(runs) \/ r \in 1..(Len(runs) - 1)
      BY DEF RunTypes
    <3>3. DOMAIN runs' = DOMAIN runs
      BY <2>5 DEF RunTypes
    <3> SUFFICES ASSUME NEW r \in Parsed PROVE r \in DOMAIN runs' /\ runs'[r] # NotParsed
      BY DEF Parsed
    <3>4. CASE r = Len(runs)
      BY <2>5, <3>1, <3>3, <3>4 DEF Parsed
    <3>5. CASE r \in 1..(Len(runs) - 1)
      BY <2>5, <3>3, <3>5 DEF Parsed
    <3> QED BY <3>2, <3>4, <3>5 DEF Parsed
  <2>8. FileTypes'
    BY <2>7 DEF FileTypes, Parse
  <2>9. GoFilesAgree'
    BY DEF GoFilesAgree, Parse
  <2>10. Progress'
    <3>1. pc' = "write" /\ written' = 0 /\ UNCHANGED <<files, left>> /\ pc = "parse"
      BY <1>1 DEF Parse, Progress
    <3>2. Current'.source = <<version, order>>
      BY <2>5 DEF Current
    <3>3. ~left => DOMAIN files \subseteq {"schema.graphql"}
      BY <3>1 DEF GoFilesAgree, FileTypes, Files
    <3>4. Len(Outputs(Current'.source)) > 0
      BY OutputsSeq
    <3> QED BY <2>2, <3>1, <3>2, <3>3, <3>4 DEF Progress
  <2>11. OutputMatchesSchema'
    BY <1>1 DEF Parse, OutputMatchesSchema, RunTypes
  <2> QED BY <2>6, <2>8, <2>9, <2>10, <2>11
<1>2. CASE ~(ValidateDirectives(Documents[version]) /\ ValidTarget(target))
  <2>1. /\ pc' = "idle" /\ outcome' = "error"
        /\ UNCHANGED <<runs, version, database, files, left, edits, failures, written>>
    BY <1>2 DEF Parse, Stop
  <2> QED BY <2>1 DEF RunTypes, FileTypes, GoFilesAgree, Progress, OutputMatchesSchema, Parsed, Current
<1> QED BY <1>1, <1>2

(* What Put leaves in the directory, of a run under way. *)
LEMMA PutEffect ==
  ASSUME DirectoryInv, pc = "write", NEW whole \in BOOLEAN, Put(whole), UNCHANGED runs
  PROVE  /\ FileTypes'
         /\ NextFile \in Files
         /\ DOMAIN files' = DOMAIN files \cup {NextFile}
         /\ files'[NextFile] = [run |-> Len(runs), whole |-> whole]
         /\ \A f \in DOMAIN files \ {NextFile} : files'[f] = files[f]
         /\ ~left => \A f \in DOMAIN files' \cap GoFiles : files'[f].run = Len(runs)
<1> USE DEF DirectoryInv
<1>1. written + 1 \in 1..Len(Outputs(Current.source)) /\ Current.source \in Sources
  BY DEF Progress
<1>2. NextFile \in Files
  BY <1>1, OutputsSeq DEF NextFile
<1>3. /\ DOMAIN files' = DOMAIN files \cup {NextFile}
      /\ files' = [f \in DOMAIN files' |-> files'[f]]
      /\ files'[NextFile] = [run |-> Len(runs), whole |-> whole]
      /\ \A f \in DOMAIN files \ {NextFile} : files'[f] = files[f]
  <2> DEFINE next == NextFile
  <2> HIDE DEF next
  <2>1. files' = [f \in DOMAIN files \cup {next} |->
                    IF f = next THEN [run |-> Len(runs), whole |-> whole] ELSE files[f]]
    BY DEF Put, next
  <2>2. /\ DOMAIN files' = DOMAIN files \cup {next}
        /\ files' = [f \in DOMAIN files' |-> files'[f]]
        /\ files'[next] = [run |-> Len(runs), whole |-> whole]
        /\ \A f \in DOMAIN files \ {next} : files'[f] = files[f]
    BY <2>1
  <2> QED BY <2>2 DEF next
<1>4. Len(runs) \in Parsed
  <2>1. <<>> \notin Sources
    BY DEF Sources
  <2>2. Len(runs) \in DOMAIN runs
    BY DEF RunTypes
  <2>3. NotParsed.source = <<>>
    BY DEF NotParsed
  <2> QED BY <1>1, <2>1, <2>2, <2>3 DEF Parsed, Current
<1>5. Parsed' = Parsed
  BY DEF Parsed
<1>6. FileTypes'
  BY <1>2, <1>3, <1>4, <1>5 DEF FileTypes
<1>7. ~left => \A f \in DOMAIN files' \cap GoFiles : files'[f].run = Len(runs)
  BY <1>3 DEF GoFilesAgree
<1> QED BY <1>2, <1>3, <1>6, <1>7

LEMMA DirectoryWrite ==
  ASSUME DirectoryInv, WriteGeneratedFile
  PROVE  DirectoryInv'
<1> USE DEF DirectoryInv
<1> DEFINE all == Outputs(Current.source)
           next == NextFile
<1>1. /\ pc = "write" /\ Put(TRUE) /\ written' = written + 1
      /\ UNCHANGED <<runs, left, version, database, edits, failures>>
  BY DEF WriteGeneratedFile
<1>2. /\ FileTypes'
      /\ next \in Files
      /\ DOMAIN files' = DOMAIN files \cup {next}
      /\ files'[next] = [run |-> Len(runs), whole |-> TRUE]
      /\ \A f \in DOMAIN files \ {next} : files'[f] = files[f]
      /\ ~left => \A f \in DOMAIN files' \cap GoFiles : files'[f].run = Len(runs)
  BY <1>1, PutEffect
<1>3. next = all[written + 1] /\ all \in Seq(Files)
  BY OutputsSeq DEF NextFile
<1>4. Current' = Current /\ Outputs(Current.source)' = all
  BY <1>1 DEF Current, Outputs
<1>5. written \in Nat /\ written < Len(all) /\ Current.source \in Sources
  BY <1>1 DEF Progress
<1>6. PICK x \in 1..Len(all) : all[x] = "schema.graphql"
  BY OutputsSeq
<1>7. ~left => DOMAIN files \subseteq {all[i] : i \in 1..written} \cup {"schema.graphql"}
  BY <1>1 DEF Progress
<1>8. ~left => \A i \in 1..written : all[i] \in DOMAIN files
                                     /\ files[all[i]] = [run |-> Len(runs), whole |-> TRUE]
  BY <1>1 DEF Progress
<1> HIDE DEF all, next
<1>9. ~left => DOMAIN files' \subseteq {all[i] : i \in 1..written'} \cup {"schema.graphql"}
  <2>1. {all[i] : i \in 1..written} \cup {all[written + 1]} \subseteq {all[i] : i \in 1..written'}
    BY <1>1, <1>5
  <2> QED BY <1>2, <1>3, <1>7, <2>1
<1>10. ~left => \A i \in 1..written' : all[i] \in DOMAIN files'
                                      /\ files'[all[i]] = [run |-> Len(runs), whole |-> TRUE]
  <2>1. \A i \in 1..written' : i \in 1..written \/ i = written + 1
    BY <1>1, <1>5
  <2> QED BY <1>2, <1>3, <1>8, <2>1
<1>11. GoFilesAgree'
  <2>1. \/ pc' = "write" \/ pc' = "idle"
    BY <1>1 DEF WriteGeneratedFile, Stop
  <2> QED BY <1>1, <1>2, <2>1 DEF GoFilesAgree
<1>12. CASE written' = Len(all)
  <2>1. pc' = "idle" /\ outcome' = "done"
    BY <1>12, <1>5, <1>1 DEF WriteGeneratedFile, Stop, all
  <2>2. RunTypes' /\ Progress'
    BY <1>1, <2>1 DEF RunTypes, Progress
  <2>3. OutputMatchesSchema'
    <3>1. SUFFICES ASSUME ~left
          PROVE  /\ DOMAIN files' = Range(all)
                 /\ \A f \in DOMAIN files' : files'[f] = [run |-> Len(runs), whole |-> TRUE]
      BY <1>1, <1>4 DEF OutputMatchesSchema
    <3>2. Range(all) = {all[i] : i \in 1..Len(all)}
      BY <1>3 DEF Range
    <3>3. DOMAIN files' = Range(all)
      BY <1>6, <1>9, <1>10, <1>12, <3>1, <3>2
    <3>4. \A f \in DOMAIN files' : files'[f] = [run |-> Len(runs), whole |-> TRUE]
      <4>1. ASSUME NEW f \in DOMAIN files' PROVE \E i \in 1..written' : f = all[i]
        BY <1>12, <3>2, <3>3
      <4> QED BY <1>10, <3>1, <4>1
    <3> QED BY <3>3, <3>4
  <2> QED BY <1>2, <1>11, <2>2, <2>3
<1>13. CASE written' # Len(all)
  <2>1. pc' = "write" /\ outcome' = outcome
    BY <1>13, <1>1 DEF WriteGeneratedFile, all
  <2>2. RunTypes' /\ OutputMatchesSchema'
    BY <1>1, <2>1 DEF RunTypes, OutputMatchesSchema
  <2>3. written' \in Nat /\ written' < Len(all)
    BY <1>1, <1>3, <1>5, <1>13
  <2>4. Progress'
    BY <1>1, <1>4, <1>5, <1>9, <1>10, <2>1, <2>3 DEF Progress, all
  <2> QED BY <1>2, <1>11, <2>2, <2>4
<1> QED BY <1>12, <1>13

LEMMA DirectoryFails ==
  ASSUME DirectoryInv, RunFails
  PROVE  DirectoryInv'
<1> USE DEF DirectoryInv
<1>1. /\ pc' = "idle" /\ outcome' = "error" /\ failures' \in 0..MaxFailures
      /\ UNCHANGED <<runs, version, database, left, edits>>
  BY GenerationAssumption DEF RunFails, Stop, RunTypes
<1>2. RunTypes' /\ Progress' /\ OutputMatchesSchema'
  BY <1>1 DEF RunTypes, Progress, OutputMatchesSchema
<1>3. FileTypes' /\ GoFilesAgree'
  <2>1. CASE UNCHANGED files
    BY <1>1, <2>1 DEF FileTypes, GoFilesAgree, Parsed
  <2>2. CASE pc = "write" /\ Put(FALSE)
    BY <1>1, <2>2, PutEffect DEF GoFilesAgree
  <2> QED BY <2>1, <2>2 DEF RunFails
<1> QED BY <1>2, <1>3
-----------------------------------------------------------------------------
(* Programs and indexes. *)

Packages == UNION {[names -> Nat] : names \in SUBSET GoFiles}

Statuses == {"idle", "indexing", "ready", "failed", "panicked"}

ProgramTypes ==
  /\ built \in Packages
  /\ process \in [Programs -> [status : Statuses, program : Packages, at : Nat]]

(* A program's files are of runs that have parsed, of one run where the    *)
(* directory was clean, with the indexes its schema needs.                 *)
Sound(program) ==
  /\ \A f \in DOMAIN program : program[f] \in Parsed
  /\ ~left => \A f, g \in DOMAIN program : program[f] = program[g]

Runs(program) ==
  /\ "graphmodel_gen.go" \in DOMAIN program
  /\ HasVectorField(ModelOf[Registry(program)]) => "indexes_gen.go" \in DOMAIN program

ProgramsInv ==
  /\ Sound(built)
  /\ built = [f \in {} |-> 0] \/ Runs(built)
  /\ \A p \in Programs :
       /\ Sound(process[p].program)
       /\ process[p].status # "idle" => Runs(process[p].program) /\ process[p].at >= 1
       /\ process[p].at <= Len(Indexed(process[p].program)) + 1
       /\ process[p].status = "ready" => process[p].at = Len(Indexed(process[p].program)) + 1

(* The index a statement is for, as the database has it. *)
Matches(i, index) ==
  /\ i.label = index.label /\ i.property = index.property /\ i.dimensions = index.dimensions
  /\ i.name = IF database = "neo4j" THEN index.name ELSE ""

Present(index) == \E i \in indexes : Matches(i, index)

(* Every index in the database is one that some run generated. *)
Known(i) == \E r \in Parsed : \E index \in Range(VectorIndexes[runs[r].source]) : Matches(i, index)

IndexesKnown == \A i \in indexes : Known(i)

(* A process has made the indexes of the statements it is past. *)
IndexedSoFar ==
  NamesKept => \A p \in Programs : process[p].status \in {"indexing", "ready"} =>
    \A j \in 1..(process[p].at - 1) : Present(Indexed(process[p].program)[j])

IndInv == DirectoryInv /\ ProgramTypes /\ ProgramsInv /\ IndexesKnown /\ IndexedSoFar
-----------------------------------------------------------------------------
(* The list of indexes has an element exactly where there is a vector.     *)
LEMMA VectorIndexesSeq ==
  ASSUME NEW s \in Sources
  PROVE  /\ Len(VectorIndexes[s]) \in Nat
         /\ DOMAIN VectorIndexes[s] = 1..Len(VectorIndexes[s])
         /\ Len(VectorIndexes[s]) > 0 => HasVectorField(ModelOf[s])
<1> DEFINE model == ModelOf[s]
           with == {i \in DOMAIN model.nodes : model.nodes[i].vectorField # <<>>}
           n == Cardinality(with)
<1>1. PICK v \in DOMAIN Documents : \E order \in Orders(Documents[v]) : s = <<v, order>>
  BY DEF Sources
<1>2. PICK order \in Orders(Documents[v]) : s = <<v, order>>
  BY <1>1
<1>3. model = Model(Documents[v], order)
  BY <1>2 DEF ModelOf
<1> DEFINE size == Cardinality(TypesWith(Documents[v], "node"))
<1>4. size \in Nat
  <2>1. IsFiniteSet(DOMAIN Documents[v].types)
    BY GenerationAssumption
  <2>2. TypesWith(Documents[v], "node") \subseteq DOMAIN Documents[v].types
    BY DEF TypesWith
  <2> QED BY <2>1, <2>2, FS_Subset, FS_CardinalityType
<1>5. DOMAIN model.nodes = 1..size
  <2>1. DOMAIN model.nodes = DOMAIN order
    BY <1>3 DEF Model
  <2>2. DOMAIN order = 1..size
    BY DEF Orders
  <2> QED BY <2>1, <2>2
<1>6. IsFiniteSet(with)
  <2>1. IsFiniteSet(1..size)
    BY <1>4, FS_Interval
  <2>2. with \subseteq 1..size
    BY <1>5
  <2> QED BY <2>1, <2>2, FS_Subset
<1>7. n \in Nat /\ (n > 0 => with # {})
  BY <1>6, FS_CardinalityType, FS_EmptySet
<1>8. DOMAIN VectorNodes(model) = 1..n
  BY DEF VectorNodes
<1>9. DOMAIN VectorIndexes[s] = 1..n /\ VectorIndexes[s] = [i \in 1..n |-> VectorIndexes[s][i]]
  BY <1>8 DEF VectorIndexes
<1> DEFINE list == VectorIndexes[s]
<1>10. list = [i \in 1..n |-> list[i]]
  BY <1>9
<1>11. Len(list) = n
  <2> HIDE DEF list, n
  <2> QED BY <1>7, <1>10
<1> QED BY <1>7, <1>9, <1>11 DEF HasVectorField
-----------------------------------------------------------------------------
(* What has parsed stays as it is, and a file that was left stays left.    *)
Kept ==
  /\ \A r \in Parsed : r \in Parsed' /\ runs'[r] = runs[r]
  /\ left => left'
  /\ UNCHANGED database

LEMMA RunsKept ==
  ASSUME DirectoryInv, [Next]_vars
  PROVE  Kept
<1> USE DEF DirectoryInv, Kept
<1>1. CASE UNCHANGED <<runs, left, database>>
  BY <1>1 DEF Parsed
<1>2. CASE \E t \in Targets : Generate(t)
  <2>1. runs' = Append(runs, NotParsed) /\ UNCHANGED <<left, database>>
    BY <1>2 DEF Generate
  <2>2. \A r \in DOMAIN runs : r \in DOMAIN runs' /\ runs'[r] = runs[r]
    BY <2>1 DEF RunTypes
  <2> QED BY <2>1, <2>2 DEF Parsed
<1>3. CASE Clean
  BY <1>3 DEF Clean, CleanGeneratedGoFiles, Parsed, RunTypes
<1>4. CASE Parse
  <2>1. Len(runs) \notin Parsed /\ UNCHANGED <<left, database>>
    BY <1>4 DEF Parse, Progress, Parsed, Current
  <2>2. UNCHANGED runs \/ \E x : runs' = [runs EXCEPT ![Len(runs)] = x]
    BY <1>4 DEF Parse
  <2>3. \A r \in Parsed : r \in DOMAIN runs' /\ runs'[r] = runs[r]
    BY <2>1, <2>2 DEF Parsed, RunTypes
  <2> QED BY <2>1, <2>3 DEF Parsed
<1>5. CASE WriteGeneratedFile \/ RunFails \/ Build
           \/ (\E v \in DOMAIN Documents : Edit(v))
           \/ (\E p \in Programs : Start(p) \/ CreateIndex(p) \/ CreateIndexFails(p) \/ Ready(p))
  <2>1. UNCHANGED <<runs, left, database>>
    BY <1>5 DEF WriteGeneratedFile, RunFails, Build, Edit, Start, CreateIndex, CreateIndexFails,
                Ready, runVars
  <2> QED BY <1>1, <2>1
<1>6. CASE UNCHANGED vars
  BY <1>1, <1>6 DEF vars, runVars
<1> QED BY <1>2, <1>3, <1>4, <1>5, <1>6 DEF Next

(* Then a program keeps its meaning, and its indexes. *)
LEMMA ProgramKept ==
  ASSUME Kept, NEW program \in Packages, Sound(program)
  PROVE  /\ Sound(program)'
         /\ Runs(program) => Runs(program)'
         /\ Indexed(program)' = Indexed(program)
<1>1. \A f \in DOMAIN program : program[f] \in Parsed /\ program[f] \in Parsed'
                                /\ runs'[program[f]] = runs[program[f]]
  BY DEF Kept, Sound
<1>2. Sound(program)'
  BY <1>1 DEF Sound, Kept
<1>3. "graphmodel_gen.go" \in DOMAIN program => Registry(program)' = Registry(program)
  BY <1>1 DEF Registry, SourceOf
<1>4. Runs(program) => Runs(program)'
  BY <1>3 DEF Runs
<1>5. Indexed(program)' = Indexed(program)
  BY <1>1 DEF Indexed, SourceOf
<1> QED BY <1>2, <1>4, <1>5

(* Index names that keep their meaning have kept it so far. *)
LEMMA NamesWereKept ==
  ASSUME Kept, NamesKept'
  PROVE  NamesKept
<1>1. Parsed \subseteq Parsed' /\ \A r \in Parsed : runs'[r] = runs[r]
  BY DEF Kept
<1>2. UNION {Range(VectorIndexes[runs[r].source]) : r \in Parsed}
        \subseteq UNION {Range(VectorIndexes[runs'[r].source]) : r \in Parsed'}
  BY <1>1
<1> QED BY <1>2 DEF NamesKept, Parsed

(* A step of a run leaves programs and indexes alone. *)
LEMMA ProgramsUnchanged ==
  ASSUME IndInv, Kept, UNCHANGED programVars
  PROVE  (ProgramTypes /\ ProgramsInv /\ IndexesKnown /\ IndexedSoFar)'
<1> USE DEF IndInv, programVars
<1>1. ProgramTypes'
  BY DEF ProgramTypes
<1>2. /\ built \in Packages /\ Sound(built)
      /\ \A p \in Programs : process[p].program \in Packages /\ Sound(process[p].program)
  BY DEF ProgramTypes, ProgramsInv
<1>3. \A p \in Programs :
        /\ Sound(process[p].program)'
        /\ Runs(process[p].program) => Runs(process[p].program)'
        /\ Indexed(process[p].program)' = Indexed(process[p].program)
  <2> TAKE p \in Programs
  <2> DEFINE program == process[p].program
  <2>1. program' = program /\ program \in Packages /\ Sound(program)
    BY <1>2
  <2>2. \A q \in Packages : Sound(q) =>
          /\ Sound(q)' /\ (Runs(q) => Runs(q)') /\ Indexed(q)' = Indexed(q)
    BY ProgramKept
  <2> QED BY <2>1, <2>2 DEF Sound, Runs, Registry, SourceOf, Indexed, Parsed
<1>4. Sound(built)' /\ (Runs(built) => Runs(built)')
  BY <1>2, ProgramKept DEF Sound, Runs, Registry, SourceOf, Parsed
<1>5. ProgramsInv'
  BY <1>3, <1>4 DEF ProgramsInv
<1>6. IndexesKnown'
  <2>1. ASSUME NEW i \in indexes
        PROVE  Known(i)'
    <3>1. PICK r \in Parsed : \E index \in Range(VectorIndexes[runs[r].source]) : Matches(i, index)
      BY DEF IndexesKnown, Known
    <3>2. r \in Parsed' /\ runs'[r] = runs[r]
      BY DEF Kept
    <3> QED BY <3>1, <3>2 DEF Known, Matches, Kept
  <2> QED BY <2>1 DEF IndexesKnown
<1>7. IndexedSoFar'
  <2>1. SUFFICES ASSUME NamesKept', NEW p \in Programs, process[p].status \in {"indexing", "ready"},
                        NEW j \in 1..(process[p].at - 1)
                 PROVE  Present(Indexed(process[p].program)[j])'
    BY DEF IndexedSoFar
  <2>2. NamesKept
    BY <2>1, NamesWereKept
  <2>3. Present(Indexed(process[p].program)[j])
    BY <2>1, <2>2 DEF IndexedSoFar
  <2>4. Indexed(process[p].program)'[j] = Indexed(process[p].program)[j]
    BY <1>3
  <2> QED BY <2>3, <2>4 DEF Present, Matches, Kept
<1> QED BY <1>1, <1>5, <1>6, <1>7
-----------------------------------------------------------------------------
(* Programs, action by action. *)

(* The statements of a program are a sequence of indexes of a known run.   *)
LEMMA IndexedSeq ==
  ASSUME DirectoryInv, NEW program \in Packages, Sound(program)
  PROVE  /\ Len(Indexed(program)) \in Nat
         /\ DOMAIN Indexed(program) = 1..Len(Indexed(program))
         /\ \A j \in DOMAIN Indexed(program) :
              /\ \E r \in Parsed : Indexed(program)[j] \in Range(VectorIndexes[runs[r].source])
              /\ {"name", "label", "property", "dimensions"} \subseteq DOMAIN Indexed(program)[j]
<1>1. CASE "indexes_gen.go" \in DOMAIN program
  <2> DEFINE r == program["indexes_gen.go"]
             list == VectorIndexes[runs[r].source]
  <2>1. r \in Parsed /\ runs[r].source \in Sources
    BY <1>1 DEF Sound, DirectoryInv, RunTypes, Parsed, Run
  <2>2. Indexed(program) = list
    BY <1>1 DEF Indexed, SourceOf
  <2>3. Len(list) \in Nat /\ DOMAIN list = 1..Len(list)
    BY <2>1, VectorIndexesSeq
  <2>4. \A j \in DOMAIN list : list[j] \in Range(list)
    BY DEF Range
  <2>5. \A j \in DOMAIN list : {"name", "label", "property", "dimensions"} \subseteq DOMAIN list[j]
    <3> DEFINE nodes == VectorNodes(ModelOf[runs[r].source])
    <3> HIDE DEF nodes
    <3>1. list = [i \in DOMAIN nodes |->
            [name |-> nodes[i].vectorField[1].on["vector"].indexName, label |-> nodes[i].name,
             property |-> nodes[i].vectorField[1].name,
             dimensions |-> nodes[i].vectorField[1].on["vector"].dimensions]]
      BY <2>1 DEF VectorIndexes, nodes
    <3> HIDE DEF list
    <3> TAKE j \in DOMAIN list
    <3>2. j \in DOMAIN nodes
      BY <3>1, Zenon
    <3>3. list[j] = [name |-> nodes[j].vectorField[1].on["vector"].indexName, label |-> nodes[j].name,
                     property |-> nodes[j].vectorField[1].name,
                     dimensions |-> nodes[j].vectorField[1].on["vector"].dimensions]
      BY <3>1, <3>2, Zenon
    <3>4. \A a, b, d, e : {"name", "label", "property", "dimensions"} \subseteq
                           DOMAIN [name |-> a, label |-> b, property |-> d, dimensions |-> e]
      OBVIOUS
    <3> QED BY <3>3, <3>4, Zenon
  <2> HIDE DEF list, r
  <2> QED BY <2>1, <2>2, <2>3, <2>4, <2>5 DEF list
<1>2. CASE "indexes_gen.go" \notin DOMAIN program
  <2>1. Indexed(program) = <<>>
    BY <1>2 DEF Indexed
  <2> QED BY <2>1
<1> QED BY <1>1, <1>2

(* After its statement the index is there: made by it, or by an earlier    *)
(* one, which is the same index as long as names keep their meaning.       *)
LEMMA AddedEffect ==
  ASSUME IndexesKnown, NEW index, Added(index), UNCHANGED <<database, runs>>,
         \E r \in Parsed : index \in Range(VectorIndexes[runs[r].source]),
         {"name", "label", "property", "dimensions"} \subseteq DOMAIN index
  PROVE  /\ indexes \subseteq indexes'
         /\ IndexesKnown'
         /\ NamesKept => \E i \in indexes' : Matches(i, index)
<1> DEFINE made == IF database = "neo4j" THEN index ELSE [index EXCEPT !.name = ""]
<1>1. Matches(made, index)
  <2>1. /\ made.label = index.label /\ made.property = index.property
        /\ made.dimensions = index.dimensions
    OBVIOUS
  <2>2. made.name = IF database = "neo4j" THEN index.name ELSE ""
    OBVIOUS
  <2> QED BY <2>1, <2>2 DEF Matches
<1>2. indexes' = indexes \cup (IF Taken(index) THEN {} ELSE {made})
  BY DEF Added
<1> HIDE DEF made
<1>3. IndexesKnown'
  <2>1. \A i \in indexes' : Known(i)
    BY <1>1, <1>2 DEF IndexesKnown, Known
  <2>2. ASSUME NEW i \in indexes' PROVE Known(i)'
    BY <2>1 DEF Known, Matches, Parsed
  <2> QED BY <2>2 DEF IndexesKnown
<1>4. ASSUME NamesKept PROVE \E i \in indexes' : Matches(i, index)
  <2>1. CASE ~Taken(index)
    BY <1>1, <1>2, <2>1
  <2>2. CASE Taken(index)
    <3>1. PICK i \in indexes : \/ (i.label = index.label /\ i.property = index.property)
                              \/ (database = "neo4j" /\ i.name = index.name)
      BY <2>2 DEF Taken
    <3>2. PICK q \in Parsed : \E x \in Range(VectorIndexes[runs[q].source]) : Matches(i, x)
      BY DEF IndexesKnown, Known
    <3>3. PICK x \in Range(VectorIndexes[runs[q].source]) : Matches(i, x)
      BY <3>2
    <3>4. x.name = index.name \/ (x.label = index.label /\ x.property = index.property)
      BY <3>1, <3>3 DEF Matches
    <3>5. x = index
      BY <1>4, <3>4 DEF NamesKept, Parsed
    <3> QED BY <1>2, <3>3, <3>5
  <2> QED BY <2>1, <2>2
<1> QED BY <1>2, <1>3, <1>4

ProgramInv == ProgramTypes /\ ProgramsInv /\ IndexesKnown /\ IndexedSoFar

LEMMA ProgramInit == Init => ProgramInv
<1> SUFFICES ASSUME Init PROVE ProgramInv
  OBVIOUS
<1> DEFINE none == [f \in {} |-> 0]
<1>1. /\ built = none /\ indexes = {} /\ runs = <<>>
      /\ process = [p \in Programs |-> [status |-> "idle", program |-> none, at |-> 0]]
  BY DEF Init
<1>2. none \in Packages
  BY DEF Packages
<1>3. ProgramTypes
  BY <1>1, <1>2 DEF ProgramTypes, Statuses
<1>4. Sound(none) /\ Indexed(none) = <<>>
  BY DEF Sound, Indexed
<1>5. \A p \in Programs : /\ process[p].program = none /\ process[p].at = 0
                          /\ process[p].status = "idle"
  BY <1>1
<1>6. ProgramsInv
  BY <1>1, <1>4, <1>5 DEF ProgramsInv
<1>7. IndexesKnown /\ IndexedSoFar
  BY <1>1, <1>5 DEF IndexesKnown, IndexedSoFar
<1> QED BY <1>3, <1>6, <1>7 DEF ProgramInv

(* go build: what compiles is of one run, with the indexes of its schema.  *)
LEMMA ProgramBuild ==
  ASSUME IndInv, Build
  PROVE  ProgramInv'
<1> USE DEF IndInv, DirectoryInv
<1> DEFINE new == Package
<1>1. /\ Compiles(new) /\ built' = new
      /\ UNCHANGED <<process, indexes, runs, left, database>>
  BY DEF Build, runVars
<1>2. /\ DOMAIN new = DOMAIN files \cap GoFiles
      /\ new = [f \in DOMAIN new |-> new[f]]
      /\ \A f \in DOMAIN new : new[f] = files[f].run /\ files[f].run \in Parsed
  BY DEF Package, FileTypes
<1> HIDE DEF new
<1>3. new \in Packages
  <2>1. Parsed \subseteq Nat
    BY DEF Parsed, RunTypes
  <2>2. new \in [DOMAIN new -> Nat] /\ DOMAIN new \subseteq GoFiles
    BY <1>2, <2>1
  <2> QED BY <2>2 DEF Packages
<1>4. Sound(new)
  BY <1>2 DEF Sound, GoFilesAgree
<1>5. Runs(new)
  BY <1>1, Zenon DEF Runs, Compiles
<1>6. ProgramTypes'
  BY <1>1, <1>3 DEF ProgramTypes
<1>7. Sound(built)' /\ Runs(built)'
  BY <1>1, <1>4, <1>5 DEF Sound, Runs, Registry, SourceOf, Parsed
<1>8. ProgramsInv'
  <2>1. ASSUME NEW p \in Programs
        PROVE  /\ Sound(process[p].program)' = Sound(process[p].program)
               /\ Runs(process[p].program)' = Runs(process[p].program)
               /\ Indexed(process[p].program)' = Indexed(process[p].program)
    BY <1>1 DEF Sound, Runs, Registry, SourceOf, Indexed, Parsed
  <2> QED BY <1>1, <1>7, <2>1 DEF ProgramsInv
<1>9. indexes' = indexes
  BY DEF Build
<1>10. IndexesKnown'
  BY <1>1, <1>9 DEF IndexesKnown, Known, Matches, Parsed
<1>11. IndexedSoFar'
  <2>1. NamesKept' = NamesKept
    BY <1>1 DEF NamesKept
  <2>2. \A p \in Programs : Indexed(process[p].program)' = Indexed(process[p].program)
    BY <1>1 DEF Indexed, SourceOf
  <2>3. SUFFICES ASSUME NamesKept, NEW p \in Programs, process[p].status \in {"indexing", "ready"},
                        NEW j \in 1..(process[p].at - 1)
                 PROVE  Present(Indexed(process[p].program)[j])'
    BY <1>1, <2>1 DEF IndexedSoFar
  <2>4. Present(Indexed(process[p].program)[j])
    BY <2>3 DEF IndexedSoFar
  <2> QED BY <1>1, <1>9, <2>2, <2>4 DEF Present, Matches
<1> QED BY <1>6, <1>8, <1>10, <1>11 DEF ProgramInv

(* A process moves to next, over the indexes it needs. *)
LEMMA ProcessMoves ==
  ASSUME IndInv, UNCHANGED <<runs, left, database, built>>, NEW p \in Programs,
         NEW next \in [status : Statuses, program : Packages, at : Nat],
         process' = [process EXCEPT ![p] = next],
         Sound(next.program),
         next.status # "idle" => Runs(next.program) /\ next.at >= 1,
         next.at <= Len(Indexed(next.program)) + 1,
         next.status = "ready" => next.at = Len(Indexed(next.program)) + 1,
         indexes \subseteq indexes', IndexesKnown',
         NamesKept /\ next.status \in {"indexing", "ready"} =>
           \A j \in 1..(next.at - 1) : \E i \in indexes' : Matches(i, Indexed(next.program)[j])
  PROVE  ProgramInv'
<1> USE DEF IndInv
<1>1. process'[p] = next /\ \A q \in Programs : q # p => process'[q] = process[q]
  BY DEF ProgramTypes
<1>2. ProgramTypes'
  BY DEF ProgramTypes
<1>3. \A program \in Packages : /\ Sound(program)' <=> Sound(program)
                               /\ Runs(program)' <=> Runs(program)
                               /\ Indexed(program)' = Indexed(program)
  BY DEF Sound, Runs, Registry, SourceOf, Indexed, Parsed
<1>4. ProgramsInv'
  <2>1. Sound(built)' /\ (Runs(built)' <=> Runs(built))
    BY DEF ProgramsInv, Sound, Runs, Registry, SourceOf, Parsed
  <2>2. ASSUME NEW q \in Programs
        PROVE  /\ Sound(process'[q].program)
               /\ process'[q].status # "idle" => Runs(process'[q].program) /\ process'[q].at >= 1
               /\ process'[q].at <= Len(Indexed(process'[q].program)) + 1
               /\ process'[q].status = "ready" => process'[q].at = Len(Indexed(process'[q].program)) + 1
    BY <1>1 DEF ProgramsInv
  <2>3. ASSUME NEW q \in Programs
        PROVE  /\ Sound(process[q].program)' <=> Sound(process'[q].program)
               /\ Runs(process[q].program)' <=> Runs(process'[q].program)
               /\ Indexed(process[q].program)' = Indexed(process'[q].program)
    BY DEF Sound, Runs, Registry, SourceOf, Indexed, Parsed
  <2> QED BY <2>1, <2>2, <2>3 DEF ProgramsInv
<1>5. IndexedSoFar'
  <2>1. SUFFICES ASSUME NamesKept', NEW q \in Programs, process'[q].status \in {"indexing", "ready"},
                        NEW j \in 1..(process'[q].at - 1)
                 PROVE  Present(Indexed(process[q].program)[j])'
    BY DEF IndexedSoFar
  <2>2. NamesKept
    BY <2>1 DEF NamesKept
  <2>3. Indexed(process[q].program)' = Indexed(process'[q].program)
    BY DEF Indexed, SourceOf
  <2>4. \E i \in indexes' : Matches(i, Indexed(process'[q].program)[j])
    <3>1. CASE q = p
      BY <1>1, <2>1, <2>2, <3>1
    <3>2. CASE q # p
      <4>1. Present(Indexed(process[q].program)[j])
        BY <1>1, <2>1, <2>2, <3>2 DEF IndexedSoFar
      <4> QED BY <1>1, <3>2, <4>1 DEF Present
    <3> QED BY <3>1, <3>2
  <2> QED BY <2>3, <2>4 DEF Present, Matches
<1> QED BY <1>2, <1>4, <1>5 DEF ProgramInv

(* Indexes that do not change stay known. *)
LEMMA KnownUnchanged ==
  ASSUME IndexesKnown, UNCHANGED <<indexes, runs, database>>
  PROVE  IndexesKnown'
<1>1. ASSUME NEW i \in indexes PROVE Known(i)'
  <2>1. Known(i)
    BY DEF IndexesKnown
  <2> QED BY <2>1 DEF Known, Matches, Parsed
<1> QED BY <1>1 DEF IndexesKnown

LEMMA ProgramStart ==
  ASSUME IndInv, NEW p \in Programs, Start(p)
  PROVE  ProgramInv'
<1> USE DEF IndInv
<1>1. PICK status \in {"panicked", "indexing"} :
        process' = [process EXCEPT ![p] = [status |-> status, program |-> built, at |-> 1]]
  BY DEF Start
<1>2. UNCHANGED <<runs, left, database, built, indexes>>
  BY DEF Start, runVars
<1>3. PICK next : next = [status |-> status, program |-> built, at |-> 1]
  OBVIOUS
<1>4. built \in Packages /\ Sound(built) /\ Runs(built)
  BY DEF Start, ProgramsInv, ProgramTypes
<1>5. next \in [status : Statuses, program : Packages, at : Nat]
  BY <1>3, <1>4 DEF Statuses
<1>6. next.program = built /\ next.at = 1 /\ next.status \in {"panicked", "indexing"}
  BY <1>3
<1>7. Len(Indexed(built)) \in Nat
  BY <1>4, IndexedSeq
<1>8. IndexesKnown'
  BY <1>2, KnownUnchanged
<1>9. process' = [process EXCEPT ![p] = next]
  BY <1>1, <1>3
<1>10. next.at <= Len(Indexed(next.program)) + 1
  BY <1>6, <1>7
<1>11. Sound(next.program) /\ Runs(next.program) /\ next.at >= 1 /\ next.status # "ready"
  BY <1>4, <1>6
<1>12. 1..(next.at - 1) = {}
  BY <1>6
<1> QED BY <1>2, <1>5, <1>8, <1>9, <1>10, <1>11, <1>12, ProcessMoves

(* Of a process at a statement. *)
LEMMA StatementKnown ==
  ASSUME IndInv, NEW p \in Programs, AtStatement(p)
  PROVE  /\ process[p].program \in Packages /\ Sound(process[p].program) /\ Runs(process[p].program)
         /\ process[p].at \in DOMAIN Indexed(process[p].program) /\ process[p].at >= 1
         /\ Len(Indexed(process[p].program)) \in Nat
         /\ \E r \in Parsed : Statement(p) \in Range(VectorIndexes[runs[r].source])
         /\ {"name", "label", "property", "dimensions"} \subseteq DOMAIN Statement(p)
<1> USE DEF IndInv
<1> DEFINE list == Indexed(process[p].program)
<1>1. process[p].program \in Packages /\ Sound(process[p].program) /\ Runs(process[p].program)
      /\ process[p].at \in Nat /\ process[p].at >= 1 /\ process[p].at <= Len(list)
  BY DEF AtStatement, ProgramTypes, ProgramsInv
<1>2. /\ Len(list) \in Nat /\ DOMAIN list = 1..Len(list)
      /\ \A j \in DOMAIN list :
           /\ \E r \in Parsed : list[j] \in Range(VectorIndexes[runs[r].source])
           /\ {"name", "label", "property", "dimensions"} \subseteq DOMAIN list[j]
  BY <1>1, IndexedSeq
<1> HIDE DEF list
<1>3. process[p].at \in DOMAIN list
  BY <1>1, <1>2
<1> QED BY <1>1, <1>2, <1>3 DEF list, Statement

LEMMA ProgramCreates ==
  ASSUME IndInv, NEW p \in Programs, CreateIndex(p)
  PROVE  ProgramInv'
<1> USE DEF IndInv
<1>1. /\ AtStatement(p) /\ Added(Statement(p))
      /\ process' = [process EXCEPT ![p] = [process[p] EXCEPT !.at = @ + 1]]
      /\ UNCHANGED <<runs, left, database, built>>
  BY DEF CreateIndex, runVars
<1> DEFINE q == process[p]
           list == Indexed(q.program)
<1>2. /\ q.program \in Packages /\ Sound(q.program) /\ Runs(q.program)
      /\ q.at \in DOMAIN list /\ q.at >= 1 /\ Len(list) \in Nat /\ q.status = "indexing"
      /\ q.at <= Len(list) /\ q.at \in Nat
  BY <1>1, StatementKnown DEF AtStatement, ProgramTypes
<1>3. /\ indexes \subseteq indexes' /\ IndexesKnown'
      /\ NamesKept => \E i \in indexes' : Matches(i, list[q.at])
  BY <1>1, AddedEffect, StatementKnown DEF Statement
<1>4. NamesKept => \A j \in 1..(q.at - 1) : \E i \in indexes' : Matches(i, list[j])
  BY <1>2, <1>3 DEF IndexedSoFar, Present
<1>5. PICK next : next = [process[p] EXCEPT !.at = @ + 1]
  OBVIOUS
<1>6. q \in [status : Statuses, program : Packages, at : Nat]
  BY DEF ProgramTypes
<1>7. /\ next \in [status : Statuses, program : Packages, at : Nat]
      /\ next.program = q.program /\ next.at = q.at + 1 /\ next.status = "indexing"
  BY <1>2, <1>5, <1>6
<1>8. process' = [process EXCEPT ![p] = next]
  BY <1>1, <1>5
<1>9. NamesKept => \A j \in 1..(next.at - 1) : \E i \in indexes' : Matches(i, list[j])
  <2>1. \A j \in 1..(next.at - 1) : j \in 1..(q.at - 1) \/ j = q.at
    BY <1>2, <1>7
  <2> QED BY <1>3, <1>4, <2>1
<1>10. Indexed(next.program) = list
  BY <1>7
<1>11. next.at <= Len(list) + 1 /\ next.at >= 1
  BY <1>2, <1>7
<1> HIDE DEF list, q
<1> QED BY <1>1, <1>2, <1>3, <1>7, <1>8, <1>9, <1>10, <1>11, ProcessMoves

LEMMA ProgramFails ==
  ASSUME IndInv, NEW p \in Programs, CreateIndexFails(p)
  PROVE  ProgramInv'
<1> USE DEF IndInv
<1>1. /\ AtStatement(p) /\ (UNCHANGED indexes \/ Added(Statement(p)))
      /\ process' = [process EXCEPT ![p] = [process[p] EXCEPT !.status = "failed"]]
      /\ UNCHANGED <<runs, left, database, built>>
  BY DEF CreateIndexFails, runVars
<1> DEFINE q == process[p]
           list == Indexed(q.program)
<1>2. /\ q.program \in Packages /\ Sound(q.program) /\ Runs(q.program)
      /\ Len(list) \in Nat /\ q.at >= 1 /\ q.at <= Len(list) /\ q.at \in Nat
  BY <1>1, StatementKnown DEF AtStatement, ProgramTypes
<1>3. indexes \subseteq indexes' /\ IndexesKnown'
  BY <1>1, AddedEffect, KnownUnchanged, StatementKnown
<1>4. PICK next : next = [process[p] EXCEPT !.status = "failed"]
  OBVIOUS
<1>5. q \in [status : Statuses, program : Packages, at : Nat]
  BY DEF ProgramTypes
<1>6. /\ next \in [status : Statuses, program : Packages, at : Nat]
      /\ next.program = q.program /\ next.at = q.at /\ next.status = "failed"
  BY <1>4, <1>5 DEF Statuses
<1>7. process' = [process EXCEPT ![p] = next]
  BY <1>1, <1>4
<1>8. next.at <= Len(Indexed(next.program)) + 1
  BY <1>2, <1>6
<1> HIDE DEF list, q
<1> QED BY <1>1, <1>2, <1>3, <1>6, <1>7, <1>8, ProcessMoves

LEMMA ProgramReady ==
  ASSUME IndInv, NEW p \in Programs, Ready(p)
  PROVE  ProgramInv'
<1> USE DEF IndInv
<1>1. /\ process[p].status = "indexing" /\ process[p].at > Len(Indexed(process[p].program))
      /\ process' = [process EXCEPT ![p] = [process[p] EXCEPT !.status = "ready"]]
      /\ UNCHANGED <<runs, left, database, built, indexes>>
  BY DEF Ready, runVars
<1> DEFINE q == process[p]
           list == Indexed(q.program)
<1>2. /\ q.program \in Packages /\ Sound(q.program) /\ Runs(q.program)
      /\ q.at >= 1 /\ q.at <= Len(list) + 1 /\ q.at \in Nat
  BY <1>1 DEF ProgramTypes, ProgramsInv
<1>3. Len(list) \in Nat
  BY <1>2, IndexedSeq
<1>4. PICK next : next = [process[p] EXCEPT !.status = "ready"]
  OBVIOUS
<1>5. q \in [status : Statuses, program : Packages, at : Nat]
  BY DEF ProgramTypes
<1>6. /\ next \in [status : Statuses, program : Packages, at : Nat]
      /\ next.program = q.program /\ next.at = q.at /\ next.status = "ready"
  BY <1>4, <1>5 DEF Statuses
<1>7. process' = [process EXCEPT ![p] = next]
  BY <1>1, <1>4
<1>8. next.at = Len(Indexed(next.program)) + 1 /\ next.at <= Len(Indexed(next.program)) + 1
  BY <1>1, <1>2, <1>3, <1>6
<1>9. NamesKept => \A j \in 1..(next.at - 1) : \E i \in indexes' : Matches(i, Indexed(next.program)[j])
  BY <1>1, <1>6 DEF IndexedSoFar, Present
<1>10. IndexesKnown'
  BY <1>1, KnownUnchanged
<1> HIDE DEF list, q
<1> QED BY <1>1, <1>2, <1>3, <1>6, <1>7, <1>8, <1>9, <1>10, ProcessMoves
-----------------------------------------------------------------------------
(* All together. *)

LEMMA DirectoryStep ==
  ASSUME IndInv, [Next]_vars
  PROVE  DirectoryInv'
<1> USE DEF IndInv
<1>1. CASE \E v \in DOMAIN Documents : Edit(v)
  <2>1. version' \in DOMAIN Documents /\ UNCHANGED <<runVars, database, failures>> /\ edits' \in 0..MaxEdits
    BY <1>1, GenerationAssumption DEF Edit, DirectoryInv, RunTypes
  <2> QED BY <2>1, DirectoryUnchanged DEF DirectoryInv, RunTypes
<1>2. CASE \/ Build \/ UNCHANGED vars
           \/ \E p \in Programs : Start(p) \/ CreateIndex(p) \/ CreateIndexFails(p) \/ Ready(p)
  <2>1. UNCHANGED <<runVars, version, database, edits>>
    BY <1>2 DEF Build, Start, CreateIndex, CreateIndexFails, Ready, vars
  <2>2. failures' \in 0..MaxFailures
    BY <1>2, GenerationAssumption
       DEF Build, Start, CreateIndex, CreateIndexFails, Ready, vars, DirectoryInv, RunTypes
  <2> QED BY <2>1, <2>2, DirectoryUnchanged DEF DirectoryInv, RunTypes
<1> QED BY <1>1, <1>2, DirectoryGenerate, DirectoryClean, DirectoryParse, DirectoryWrite, DirectoryFails
        DEF Next

LEMMA ProgramStep ==
  ASSUME IndInv, [Next]_vars
  PROVE  ProgramInv'
<1>1. Kept
  BY RunsKept DEF IndInv
<1>2. CASE UNCHANGED programVars
  BY <1>1, <1>2, ProgramsUnchanged DEF ProgramInv
<1>3. CASE \/ Clean \/ Parse \/ WriteGeneratedFile \/ RunFails \/ UNCHANGED vars
           \/ (\E v \in DOMAIN Documents : Edit(v)) \/ (\E t \in Targets : Generate(t))
  BY <1>2, <1>3 DEF Clean, Parse, WriteGeneratedFile, RunFails, Edit, Generate, vars
<1> QED BY <1>3, ProgramBuild, ProgramStart, ProgramCreates, ProgramFails, ProgramReady DEF Next

(* The invariant holds in all states, whatever the bounds.                 *)
THEOREM Invariance == Spec => []IndInv
<1>1. Init => IndInv
  BY DirectoryInit, ProgramInit DEF IndInv, ProgramInv
<1>2. IndInv /\ [Next]_vars => IndInv'
  BY DirectoryStep, ProgramStep DEF IndInv, ProgramInv
<1> QED BY <1>1, <1>2, PTL DEF Spec

(* Every variable has a value of its kind: pipeline.go, Generate; the      *)
(* generated CreateIndexes.                                                *)
THEOREM TypeCorrect == Spec => []TypeOK
<1>1. IndInv => TypeOK
  <2> SUFFICES ASSUME IndInv PROVE TypeOK
    OBVIOUS
  <2> USE DEF IndInv, DirectoryInv
  <2>1. \A f \in DOMAIN files : files[f].run \in DOMAIN runs /\ runs[files[f].run] # NotParsed
    BY DEF FileTypes, Parsed
  <2>2. pc = "write" => written < Len(Outputs(Current.source))
    BY DEF Progress
  <2>3. DOMAIN built \subseteq GoFiles /\ \A f \in DOMAIN built : built[f] \in DOMAIN runs
    BY DEF ProgramTypes, ProgramsInv, Packages, Sound, Parsed
  <2>4. ASSUME NEW p \in Programs
        PROVE  /\ process[p].status \in {"idle", "indexing", "ready", "failed", "panicked"}
               /\ process[p].at \in 0..(Len(Indexed(process[p].program)) + 1)
    <3>1. /\ process[p].status \in Statuses /\ process[p].at \in Nat
          /\ process[p].program \in Packages /\ Sound(process[p].program)
          /\ process[p].at <= Len(Indexed(process[p].program)) + 1
      BY DEF ProgramTypes, ProgramsInv
    <3>2. Len(Indexed(process[p].program)) \in Nat
      BY <3>1, IndexedSeq
    <3> QED BY <3>1, <3>2 DEF Statuses
  <2> QED BY <2>1, <2>2, <2>3, <2>4 DEF TypeOK, RunTypes, FileTypes
<1> QED BY <1>1, Invariance, PTL

(* A package that compiles is of one run, whatever failed before it was    *)
(* built: cleanGeneratedGoFiles comes first in Generate.                   *)
THEOREM OneRun == Spec => []BuiltFromOneRun
<1>1. IndInv => BuiltFromOneRun
  BY DEF IndInv, ProgramsInv, Sound, BuiltFromOneRun
<1> QED BY <1>1, Invariance, PTL

(* A run that works leaves just its own files.                             *)
THEOREM OutputComplete == Spec => []OutputMatchesSchema
<1>1. IndInv => OutputMatchesSchema
  BY DEF IndInv, DirectoryInv
<1> QED BY <1>1, Invariance, PTL

(* CreateIndexes that returns without an error has made, or found, each    *)
(* index, for any number of programs, versions and failures.               *)
THEOREM IndexesAreComplete == Spec => []IndexesComplete
<1>1. IndInv => IndexesComplete
  <2>1. SUFFICES ASSUME IndInv, NamesKept, ~left, NEW p \in Programs, process[p].status = "ready",
                        NEW index \in Range(VectorIndexes[Registry(process[p].program)])
                 PROVE  \E i \in indexes : Matches(i, index)
    BY DEF IndexesComplete, Matches
  <2> USE DEF IndInv, DirectoryInv
  <2> DEFINE program == process[p].program
             s == Registry(program)
             list == VectorIndexes[s]
  <2>2. /\ program \in Packages /\ Sound(program) /\ Runs(program)
        /\ process[p].at = Len(Indexed(program)) + 1
    BY <2>1 DEF ProgramTypes, ProgramsInv
  <2>3. /\ \A f \in DOMAIN program : program[f] \in Parsed
        /\ \A f, g \in DOMAIN program : program[f] = program[g]
        /\ "graphmodel_gen.go" \in DOMAIN program
        /\ HasVectorField(ModelOf[s]) => "indexes_gen.go" \in DOMAIN program
    BY <2>1, <2>2 DEF Sound, Runs
  <2>4. s \in Sources
    <3>1. program["graphmodel_gen.go"] \in Parsed
      BY <2>3
    <3>2. \A r \in Parsed : runs[r].source \in Sources
      BY <2>1 DEF Parsed, RunTypes, Run
    <3> QED BY <3>1, <3>2 DEF Registry, SourceOf
  <2>5. Len(list) \in Nat /\ DOMAIN list = 1..Len(list) /\ (Len(list) > 0 => HasVectorField(ModelOf[s]))
    BY <2>4, VectorIndexesSeq
  <2>6. PICK j \in DOMAIN list : list[j] = index
    BY <2>1 DEF Range
  <2>7. Indexed(program) = list
    <3>1. "indexes_gen.go" \in DOMAIN program
      BY <2>3, <2>5, <2>6
    <3>2. program["indexes_gen.go"] = program["graphmodel_gen.go"]
      BY <2>3, <3>1
    <3> QED BY <3>1, <3>2 DEF Indexed, Registry, SourceOf
  <2>8. Present(Indexed(program)[j])
    <3>1. j \in 1..(process[p].at - 1)
      BY <2>2, <2>5, <2>6, <2>7
    <3> QED BY <2>1, <3>1 DEF IndexedSoFar
  <2> QED BY <2>6, <2>7, <2>8 DEF Present
<1> QED BY <1>1, Invariance, PTL
=============================================================================
