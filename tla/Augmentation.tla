------------------------------ MODULE Augmentation ------------------------------
(***************************************************************************)
(* What Generate writes about a graph model: the declarations of the       *)
(* augmented schema (AugmentSchema), those of the Go models                *)
(* (GenerateModels, GenerateScalars), and the vector indexes.              *)
(*                                                                         *)
(* A declaration of the schema is [kind, name, fields], a field [name,     *)
(* type, args] with the types of its arguments; one of the Go package is   *)
(* [name, fields], a field [tag, type, omitempty].  Names are put together *)
(* as the code does, so that two of them can be the same.                  *)
(***************************************************************************)
EXTENDS GraphSchema

CONSTANTS
  Capitalize(_),         \* strutil: "actors" to "Actors"
  PluralLower(_),        \* "Movie" to "movies"
  PluralCapitalized(_)   \* "Movie" to "Movies"

Declare(kind, name, fields) == [kind |-> kind, name |-> name, fields |-> fields]
WithArgs(name, type, args) == [name |-> name, type |-> type, args |-> args]
Field(name, type) == WithArgs(name, type, <<>>)

Flat(seqs) == FlattenSeq(seqs)
When(b, seq) == IF b THEN seq ELSE <<>>

StripNonNull(type) == [type EXCEPT !.required = FALSE]

(* The suffix "]" is cut before "!": a required list keeps a bracket.      *)
BaseTypeName(type) == IF type.list /\ type.required THEN type.base \o "!]" ELSE type.base

AsWritten(fields) == [i \in DOMAIN fields |-> Field(fields[i].name, fields[i].type)]
AllOptional(fields) == [i \in DOMAIN fields |-> Field(fields[i].name, StripNonNull(fields[i].type))]

WithoutID(fields) == SelectSeq(fields, LAMBDA f : ~IsID(f))
WithoutVector(fields) == SelectSeq(fields, LAMBDA f : ~Has(f, "vector"))

(* GraphQL has no input without a field. *)
OrPlaceholder(fields, type) == IF fields = <<>> THEN <<Field("_empty", type)>> ELSE fields

Prefix(rel) == rel.fromNode \o Capitalize(rel.fieldName)

Page(node) == <<Ref("Int"), Ref("String"), Ref(node \o "Where")>>
Sorts(name) == <<ListOf(name \o "Sort")>>
-----------------------------------------------------------------------------
(* Altered: a connection sorts as its relationship is named. *)
WriteNodeType_OwnSort(node, rels) ==
  Declare("type", node.name,
    AsWritten(node.fields)
    \o [i \in DOMAIN rels |-> WithArgs(rels[i].fieldName \o "Connection",
          Required(Ref(Prefix(rels[i]) \o "Connection")),
          Page(rels[i].toNode) \o Sorts(Prefix(rels[i])))])

WriteNodeType(node, rels) ==
  Declare("type", node.name,
    AsWritten(node.fields)
    \o [i \in DOMAIN node.cypherFields |->
          LET f == node.cypherFields[i]
          IN  WithArgs(f.name, f.type, [j \in DOMAIN f.args |-> f.args[j].type])]
    \o [i \in DOMAIN rels |-> WithArgs(rels[i].fieldName \o "Connection",
          Required(Ref(Prefix(rels[i]) \o "Connection")),
          Page(rels[i].toNode) \o Sorts(rels[i].toNode))])

Operators(f) ==
  LET base == BaseTypeName(f.type)
      same == <<"", "_not">>
              \o When(base # "Boolean", <<"_gt", "_gte", "_lt", "_lte">>)
              \o When(base \in {"String", "ID"}, <<"_contains", "_startsWith", "_endsWith", "_regex">>)
  IN  [i \in DOMAIN same |-> Field(f.name \o same[i], StripNonNull(f.type))]
      \o <<Field(f.name \o "_in", ListOf(base)), Field(f.name \o "_nin", ListOf(base)),
           Field(f.name \o "_isNull", Ref("Boolean"))>>

WriteWhereInput(node, rels) ==
  LET stored == WithoutVector(node.fields)
      where  == node.name \o "Where"
  IN  Declare("input", where,
        Flat([i \in DOMAIN stored |-> Operators(stored[i])])
        \o [i \in DOMAIN rels |->
              Field(rels[i].fieldName \o (IF rels[i].isList THEN "_some" ELSE ""),
                    Ref(rels[i].toNode \o "Where"))]
        \o <<Field("AND", ListOf(where)), Field("OR", ListOf(where)), Field("NOT", Ref(where))>>)

WriteSortInput(node) ==
  LET stored == WithoutVector(node.fields)
  IN  Declare("input", node.name \o "Sort",
        [i \in DOMAIN stored |-> Field(stored[i].name, Ref("SortDirection"))])

WriteCreateInput(node, rels) ==
  Declare("input", node.name \o "CreateInput", OrPlaceholder(
    AsWritten(WithoutID(node.fields))
    \o [i \in DOMAIN rels |-> Field(rels[i].fieldName, Ref(Prefix(rels[i]) \o "FieldInput"))],
    Ref("Boolean")))

WriteUpdateInput(node, rels) ==
  Declare("input", node.name \o "UpdateInput", OrPlaceholder(
    AllOptional(WithoutID(node.fields))
    \o [i \in DOMAIN rels |-> Field(rels[i].fieldName, Ref(Prefix(rels[i]) \o "UpdateFieldInput"))],
    Ref("Boolean")))

WriteMatchInput(node) ==
  Declare("input", node.name \o "MatchInput",
    OrPlaceholder(AllOptional(WithoutVector(WithoutID(node.fields))), Ref("String")))

WriteMergeInput(node) ==
  Declare("input", node.name \o "MergeInput",
    <<Field("match", Required(Ref(node.name \o "MatchInput"))),
      Field("onCreate", Ref(node.name \o "CreateInput")),
      Field("onMatch", Ref(node.name \o "UpdateInput"))>>)

WriteMutationResponse(node, verb) ==
  Declare("type", verb \o PluralCapitalized(node.name) \o "MutationResponse",
    <<Field(PluralLower(node.name), Required(ListOf(node.name)))>>)

ConnectionTypes(connection, edge, node, properties) ==
  <<Declare("type", connection,
      <<Field("edges", Required(ListOf(edge))), Field("pageInfo", Required(Ref("PageInfo"))),
        Field("totalCount", Required(Ref("Int")))>>),
    Declare("type", edge,
      <<Field("node", Required(Ref(node))), Field("cursor", Required(Ref("String")))>>
      \o [i \in DOMAIN properties |-> Field("properties", Ref(properties[i].typeName))])>>

WriteConnectionTypes(node) ==
  ConnectionTypes(PluralCapitalized(node.name) \o "Connection", node.name \o "Edge", node.name, <<>>)

WriteSimilarResultType(node) ==
  Declare("type", node.name \o "SimilarResult",
    <<Field("score", Required(Ref("Float"))), Field("node", Required(Ref(node.name)))>>)

NodeDeclarations(model, node) ==
  LET rels == RelationshipsFrom(model, node.name)
  IN  <<WriteWhereInput(node, rels), WriteSortInput(node),
        WriteCreateInput(node, rels), WriteUpdateInput(node, rels),
        WriteMutationResponse(node, "Create"), WriteMutationResponse(node, "Update"),
        WriteMatchInput(node), WriteMergeInput(node), WriteMutationResponse(node, "Merge")>>
      \o WriteConnectionTypes(node)
      \o When(node.vectorField # <<>>, <<WriteSimilarResultType(node)>>)
-----------------------------------------------------------------------------
EdgeInput(rel, verb) ==
  [i \in DOMAIN rel.properties |-> Field("edge", Ref(rel.properties[i].typeName \o verb \o "Input"))]

(* The lists of nested operations a relationship field takes. *)
NestedFields(rel, ops) ==
  [i \in DOMAIN ops |-> Field(ops[i][1], ListOf(Prefix(rel) \o ops[i][2] \o "FieldInput"))]

CreateAndConnect == <<<<"create", "Create">>, <<"connect", "Connect">>>>

WriteNestedInputTypes(rel) ==
  <<Declare("input", Prefix(rel) \o "FieldInput", NestedFields(rel, CreateAndConnect)),
    Declare("input", Prefix(rel) \o "CreateFieldInput",
      <<Field("node", Required(Ref(rel.toNode \o "CreateInput")))>> \o EdgeInput(rel, "Create")),
    Declare("input", Prefix(rel) \o "ConnectFieldInput",
      <<Field("where", Ref(rel.toNode \o "Where"))>> \o EdgeInput(rel, "Create"))>>

(* update is one object, the others are lists. *)
WriteUpdateFieldInput(rel) ==
  Declare("input", Prefix(rel) \o "UpdateFieldInput",
    NestedFields(rel, CreateAndConnect \o <<<<"disconnect", "Disconnect">>>>)
    \o <<Field("update", Ref(Prefix(rel) \o "UpdateConnectionInput"))>>
    \o NestedFields(rel, <<<<"delete", "Delete">>>>))

WriteWhereOnlyInput(rel, suffix) ==
  Declare("input", Prefix(rel) \o suffix \o "FieldInput", <<Field("where", Ref(rel.toNode \o "Where"))>>)

WriteUpdateConnectionInput(rel) ==
  Declare("input", Prefix(rel) \o "UpdateConnectionInput",
    <<Field("where", Ref(rel.toNode \o "Where")), Field("node", Ref(rel.toNode \o "UpdateInput"))>>
    \o EdgeInput(rel, "Update"))

WriteRelConnectionTypes(rel) ==
  ConnectionTypes(Prefix(rel) \o "Connection", Prefix(rel) \o "Edge", rel.toNode, rel.properties)

WritePropertiesTypes(properties) ==
  <<Declare("input", properties.typeName \o "CreateInput", AsWritten(properties.fields)),
    Declare("input", properties.typeName \o "UpdateInput", AllOptional(properties.fields)),
    Declare("type", properties.typeName, AsWritten(properties.fields))>>

(* The properties of relationship i have not been written for an earlier.  *)
FirstWith(rels, i) ==
  rels[i].properties # <<>> /\ \A j \in 1..(i - 1) : rels[j].properties # rels[i].properties

RelationshipDeclarations(rels, i) ==
  LET rel == rels[i]
  IN  WriteNestedInputTypes(rel)
      \o <<WriteUpdateFieldInput(rel), WriteWhereOnlyInput(rel, "Disconnect"),
           WriteWhereOnlyInput(rel, "Delete"), WriteUpdateConnectionInput(rel)>>
      \o WriteRelConnectionTypes(rel)
      \o When(FirstWith(rels, i), WritePropertiesTypes(rel.properties[1]))

WriteConnectInput(rel) ==
  Declare("input", "Connect" \o Prefix(rel) \o "Input",
    <<Field("from", Required(Ref(rel.fromNode \o "Where"))),
      Field("to", Required(Ref(rel.toNode \o "Where")))>> \o EdgeInput(rel, "Create"))
-----------------------------------------------------------------------------
WriteSharedTypes ==
  <<Declare("type", "DeleteInfo", <<Field("nodesDeleted", Required(Ref("Int"))),
                                    Field("relationshipsDeleted", Required(Ref("Int")))>>),
    Declare("type", "PageInfo",
      <<Field("hasNextPage", Required(Ref("Boolean"))), Field("hasPreviousPage", Required(Ref("Boolean"))),
        Field("startCursor", Ref("String")), Field("endCursor", Ref("String"))>>)>>

WriteConnectInfo == Declare("type", "ConnectInfo", <<Field("relationshipsCreated", Required(Ref("Int")))>>)

WriteQueryType(nodes) ==
  Declare("type", "Query", Flat([i \in DOMAIN nodes |->
    LET name == nodes[i].name
        root == PluralLower(name)
    IN  <<WithArgs(root, Required(ListOf(name)), <<Ref(name \o "Where")>> \o Sorts(name)),
          WithArgs(root \o "Connection", Required(Ref(PluralCapitalized(name) \o "Connection")),
                   Page(name) \o Sorts(name))>>
        \o When(nodes[i].vectorField # <<>>,
             <<WithArgs(root \o "Similar", Required(ListOf(name \o "SimilarResult")),
                        <<Required(ListOf("Float")), Ref("Int")>>)>>)]))

WriteMutationType(nodes, rels) ==
  Declare("type", "Mutation",
    Flat([i \in DOMAIN nodes |->
      LET name == nodes[i].name
          many == PluralCapitalized(name)
          Answer(verb) == Required(Ref(verb \o many \o "MutationResponse"))
      IN  <<WithArgs("create" \o many, Answer("Create"), <<Required(ListOf(name \o "CreateInput"))>>),
            WithArgs("update" \o many, Answer("Update"),
                     <<Ref(name \o "Where"), Ref(name \o "UpdateInput")>>),
            WithArgs("delete" \o many, Required(Ref("DeleteInfo")), <<Ref(name \o "Where")>>),
            WithArgs("merge" \o many, Answer("Merge"), <<Required(ListOf(name \o "MergeInput"))>>)>>])
    \o [i \in DOMAIN rels |->
          WithArgs("connect" \o Prefix(rels[i]), Required(Ref("ConnectInfo")),
                   <<Required(ListOf("Connect" \o Prefix(rels[i]) \o "Input"))>>)])

AugmentSchema(model) ==
  LET nodes == model.nodes
      rels  == model.relationships
  IN  When(nodes # <<>>,
        [i \in 1..Cardinality(model.customScalars) |->
           Declare("scalar", SetToSeq(model.customScalars)[i], <<>>)]
        \o [i \in DOMAIN nodes |-> WriteNodeType(nodes[i], RelationshipsFrom(model, nodes[i].name))]
        \o Flat([i \in DOMAIN nodes |-> NodeDeclarations(model, nodes[i])])
        \o Flat([i \in DOMAIN rels |-> RelationshipDeclarations(rels, i)])
        \o [i \in DOMAIN rels |-> WriteConnectInput(rels[i])]
        \o WriteSharedTypes
        \o When(rels # <<>>, <<WriteConnectInfo>>)
        \o <<Declare("enum", "SortDirection", <<>>), WriteQueryType(nodes), WriteMutationType(nodes, rels)>>)
=============================================================================
