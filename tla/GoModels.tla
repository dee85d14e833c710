-------------------------------- MODULE GoModels --------------------------------
(***************************************************************************)
(* GenerateModels and GenerateScalars: the Go types generated beside the   *)
(* augmented schema, and what the two must agree on.                       *)
(*                                                                         *)
(* A Go type is [base, list, pointer]; a struct is [name, fields], a field *)
(* [tag, type, omitempty], encoded to JSON under its tag.  The bases are   *)
(* written with their GraphQL names ("Int" is int).                        *)
(***************************************************************************)
EXTENDS Augmentation

Struct(name, fields) == [name |-> name, fields |-> fields]
Tagged(tag, type, omitempty) == [tag |-> tag, type |-> type, omitempty |-> omitempty]

GoValue(base) == [base |-> base, list |-> FALSE, pointer |-> FALSE]
Pointer(base) == [base |-> base, list |-> FALSE, pointer |-> TRUE]
Slice(base) == [base |-> base, list |-> TRUE, pointer |-> FALSE]

(* GraphQLToGoType and modelsResolveGoType.  An enum is a string, even in  *)
(* a list; a list of optional scalars is not in goTypeMap and is taken for *)
(* a list of objects, named like the scalar; a custom scalar has an alias. *)
GoType(model, type) ==
  CASE type.base \in model.enums /\ type.base \notin model.customScalars ->
         [base |-> "String", list |-> FALSE, pointer |-> ~type.required]
    [] type.base \in Builtin /\ type.list /\ ~type.inner -> Slice("*" \o type.base)
    [] type.base \in Builtin \cup model.customScalars ->
         [base |-> type.base, list |-> type.list, pointer |-> ~type.list /\ ~type.required]
    [] OTHER -> [base |-> type.base, list |-> type.list, pointer |-> ~type.list]

ModelsWriteField(model, f, forceOptional) ==
  LET go == GoType(model, f.type)
      optional == go.pointer \/ (forceOptional /\ ~go.list)
  IN  Tagged(f.name, [go EXCEPT !.pointer = optional],
             ~f.type.required \/ forceOptional \/ go.pointer)

ModelsWriteFields(model, fields, forceOptional) ==
  [i \in DOMAIN fields |-> ModelsWriteField(model, fields[i], forceOptional)]

ModelsWritePropertiesTypes(model, properties) ==
  <<Struct(properties.typeName, ModelsWriteFields(model, properties.fields, FALSE)),
    Struct(properties.typeName \o "CreateInput", ModelsWriteFields(model, properties.fields, FALSE)),
    Struct(properties.typeName \o "UpdateInput", ModelsWriteFields(model, properties.fields, TRUE))>>

ModelsWriteNodeStruct(model, node, rels) ==
  Struct(node.name,
    ModelsWriteFields(model, node.fields, FALSE)
    \o [i \in DOMAIN rels |-> Tagged(rels[i].fieldName, Slice(rels[i].toNode), TRUE)]
    \o ModelsWriteFields(model, node.cypherFields, FALSE))

ModelsWriteCreateInput(model, node) ==
  Struct(node.name \o "CreateInput", ModelsWriteFields(model, WithoutID(node.fields), FALSE))

ModelsWriteUpdateInput(model, node) ==
  Struct(node.name \o "UpdateInput", ModelsWriteFields(model, WithoutID(node.fields), TRUE))

(* The tags end in _NOT, _NOT_IN, _GT, ..., not as the fields of the       *)
(* schema's where inputs do.                                               *)
ModelsWriteWhereInput(model, node) ==
  LET Tags(f) ==
        LET go   == GoType(model, f.type)
            same == <<"", "_NOT">> \o When(~IsID(f), <<"_GT", "_GTE", "_LT", "_LTE">>)
                    \o When(go.base \in {"String", "ID"} /\ ~go.list,
                            <<"_CONTAINS", "_STARTS_WITH", "_ENDS_WITH">>)
        IN  [i \in DOMAIN same |-> Tagged(f.name \o same[i], [go EXCEPT !.pointer = TRUE], TRUE)]
            \o <<Tagged(f.name \o "_IN", Slice(go.base), TRUE),
                 Tagged(f.name \o "_NOT_IN", Slice(go.base), TRUE)>>
      where == node.name \o "Where"
  IN  Struct(where, Flat([i \in DOMAIN node.fields |-> Tags(node.fields[i])])
        \o <<Tagged("AND", Slice(where), TRUE), Tagged("OR", Slice(where), TRUE),
             Tagged("NOT", Pointer(where), TRUE)>>)

ModelsWriteSortInput(node) ==
  Struct(node.name \o "Sort",
    [i \in DOMAIN node.fields |-> Tagged(node.fields[i].name, Pointer("SortDirection"), TRUE)])

ModelsConnection(connection, edge, node, properties) ==
  <<Struct(connection, <<Tagged("edges", Slice(edge), FALSE), Tagged("totalCount", GoValue("Int"), FALSE),
                         Tagged("pageInfo", GoValue("PageInfo"), FALSE)>>),
    Struct(edge, <<Tagged("node", Pointer(node), FALSE), Tagged("cursor", GoValue("String"), FALSE)>>
                 \o [i \in DOMAIN properties |->
                       Tagged("properties", Pointer(properties[i].typeName), TRUE)])>>

(* Plurals by an "s", whatever the schema's are. *)
ModelsWriteConnectionTypes(node) ==
  ModelsConnection(node.name \o "sConnection", node.name \o "Edge", node.name, <<>>)

ModelsWriteRelConnectionTypes(rel) ==
  ModelsConnection(Prefix(rel) \o "Connection", Prefix(rel) \o "Edge", rel.toNode, rel.properties)

ModelsWriteMutationResponse(node, verb) ==
  Struct(verb \o node.name \o "sMutationResponse",
         <<Tagged(PluralLower(node.name), Slice(node.name), FALSE)>>)

ModelsWriteSimilarResultType(node) ==
  Struct(node.name \o "SimilarResult",
         <<Tagged("score", GoValue("Float"), FALSE), Tagged("node", Pointer(node.name), FALSE)>>)

(* Altered: edges are created by their update input. *)
ModelsEdge_Update(rel, verb) ==
  [i \in DOMAIN rel.properties |-> Tagged("edge", Pointer(rel.properties[i].typeName \o "UpdateInput"), TRUE)]

ModelsEdge(rel, verb) ==
  [i \in DOMAIN rel.properties |-> Tagged("edge", Pointer(rel.properties[i].typeName \o verb \o "Input"), TRUE)]

ModelsWriteNestedMutationInputTypes(rel) ==
  LET many(tag, suffix) == Tagged(tag, Slice(Prefix(rel) \o suffix), TRUE)
      where == Tagged("where", GoValue(rel.toNode \o "Where"), FALSE)
      both  == <<many("create", "CreateFieldInput"), many("connect", "ConnectFieldInput")>>
  IN  <<Struct(Prefix(rel) \o "FieldInput", both),
        Struct(Prefix(rel) \o "UpdateFieldInput",
          both \o <<many("disconnect", "DisconnectFieldInput"),
                    many("update", "UpdateConnectionInput"), many("delete", "DeleteFieldInput")>>),
        Struct(Prefix(rel) \o "CreateFieldInput",
          <<Tagged("node", GoValue(rel.toNode \o "CreateInput"), FALSE)>> \o ModelsEdge(rel, "Create")),
        Struct(Prefix(rel) \o "ConnectFieldInput", <<where>> \o ModelsEdge(rel, "Create")),
        Struct(Prefix(rel) \o "DisconnectFieldInput", <<where>>),
        Struct(Prefix(rel) \o "UpdateConnectionInput",
          <<where, Tagged("node", Pointer(rel.toNode \o "UpdateInput"), TRUE)>> \o ModelsEdge(rel, "Update")),
        Struct(Prefix(rel) \o "DeleteFieldInput", <<where>>)>>

ModelsWriteMatchInput(model, node) ==
  Struct(node.name \o "MatchInput",
         ModelsWriteFields(model, WithoutVector(WithoutID(node.fields)), TRUE))

ModelsWriteMergeInput(node) ==
  Struct(node.name \o "MergeInput",
    <<Tagged("match", Pointer(node.name \o "MatchInput"), FALSE),
      Tagged("onCreate", Pointer(node.name \o "CreateInput"), TRUE),
      Tagged("onMatch", Pointer(node.name \o "UpdateInput"), TRUE)>>)

ModelsWriteConnectInput(rel) ==
  Struct("Connect" \o Prefix(rel) \o "Input",
    <<Tagged("from", Pointer(rel.fromNode \o "Where"), FALSE),
      Tagged("to", Pointer(rel.toNode \o "Where"), FALSE)>> \o ModelsEdge(rel, "Create"))

ModelsShared ==
  <<Struct("SortDirection", <<>>),
    Struct("PageInfo", <<Tagged("hasNextPage", GoValue("Boolean"), FALSE),
                         Tagged("hasPreviousPage", GoValue("Boolean"), FALSE),
                         Tagged("startCursor", Pointer("String"), TRUE),
                         Tagged("endCursor", Pointer("String"), TRUE)>>),
    Struct("DeleteInfo", <<Tagged("nodesDeleted", GoValue("Int"), FALSE)>>)>>

ModelsOfNode(model, node) ==
  LET rels == RelationshipsFrom(model, node.name)
  IN  <<ModelsWriteNodeStruct(model, node, rels),
        ModelsWriteCreateInput(model, node), ModelsWriteUpdateInput(model, node),
        ModelsWriteWhereInput(model, node), ModelsWriteSortInput(node),
        ModelsWriteMutationResponse(node, "Create"), ModelsWriteMutationResponse(node, "Update"),
        ModelsWriteMatchInput(model, node), ModelsWriteMergeInput(node),
        ModelsWriteMutationResponse(node, "Merge")>>
      \o ModelsWriteConnectionTypes(node)
      \o When(node.vectorField # <<>>, <<ModelsWriteSimilarResultType(node)>>)
      \o Flat([i \in DOMAIN rels |->
            ModelsWriteRelConnectionTypes(rels[i]) \o ModelsWriteNestedMutationInputTypes(rels[i])])

GenerateModels(model) ==
  LET rels == model.relationships
  IN  ModelsShared
      \o [i \in 1..Cardinality(model.enums) |-> Struct(SetToSeq(model.enums)[i], <<>>)]
      \o Flat([i \in DOMAIN rels |->
            When(FirstWith(rels, i), ModelsWritePropertiesTypes(model, rels[i].properties[1]))])
      \o Flat([i \in DOMAIN model.nodes |-> ModelsOfNode(model, model.nodes[i])])
      \o [i \in DOMAIN rels |-> ModelsWriteConnectInput(rels[i])]
      \o When(rels # <<>>, <<Struct("ConnectInfo", <<Tagged("relationshipsCreated", GoValue("Int"), FALSE)>>)>>)

(* An alias for each custom scalar. *)
GenerateScalars(model) ==
  [i \in 1..Cardinality(model.customScalars) |-> Struct(SetToSeq(model.customScalars)[i], <<>>)]
-----------------------------------------------------------------------------
Names(declarations) == {declarations[i].name : i \in DOMAIN declarations}

DeclaredOnce(declarations) == Cardinality(Names(declarations)) = Len(declarations)

(* The schema gqlparser.LoadSchema accepts in client.New: every type that  *)
(* is named is declared, once, and none but a scalar or an enum is empty.  *)
LoadSchema(sdl) ==
  /\ DeclaredOnce(sdl)
  /\ \A i \in DOMAIN sdl :
       /\ sdl[i].kind \in {"input", "type"} => sdl[i].fields # <<>>
       /\ \A j \in DOMAIN sdl[i].fields :
            LET f == sdl[i].fields[j]
            IN  {f.type.base} \cup {f.args[k].base : k \in DOMAIN f.args} \subseteq Builtin \cup Names(sdl)

(* What the Go compiler asks of the types. *)
Declared(go) ==
  /\ DeclaredOnce(go)
  /\ \A i \in DOMAIN go : \A j \in DOMAIN go[i].fields :
       go[i].fields[j].type.base \in Builtin \cup Names(go)
=============================================================================
