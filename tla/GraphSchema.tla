------------------------------ MODULE GraphSchema ------------------------------
(***************************************************************************)
(* ParseSchema: what a schema document's directives must look like, and    *)
(* the graph model made of it.                                             *)
(*                                                                         *)
(* A document is [types, enums, scalars], types a function from names to   *)
(* [directives, fields].  A field is [name, type, args, on], on a function *)
(* from the names of its directives to their arguments.  A type reference  *)
(* is [base, list, required, inner]: [String!] is a list, not required,    *)
(* whose inner type is.  gqlparser.LoadSchema has accepted the document:   *)
(* what it refers to is declared.                                          *)
(***************************************************************************)
EXTENDS Naturals, Sequences, FiniteSets, SequencesExt

Builtin == {"String", "Int", "Float", "Boolean", "ID"}

Ref(base) == [base |-> base, list |-> FALSE, required |-> FALSE, inner |-> FALSE]
ListOf(base) == [base |-> base, list |-> TRUE, required |-> FALSE, inner |-> TRUE]
Required(type) == [type EXCEPT !.required = TRUE]

Has(f, directive) == directive \in DOMAIN f.on

TypesWith(doc, directive) == {t \in DOMAIN doc.types : directive \in doc.types[t].directives}
-----------------------------------------------------------------------------
ValidRelationshipField(doc, f) ==
  Has(f, "relationship") =>
    LET rel == f.on["relationship"] IN
    /\ rel.type # ""
    /\ rel.direction \in {"IN", "OUT"}
    /\ rel.properties \in {""} \cup TypesWith(doc, "relationshipProperties")

ValidCypherField(f) ==
  Has(f, "cypher") => ~Has(f, "relationship") /\ f.on["cypher"].statement # ""

ValidVectorField(f) ==
  Has(f, "vector") =>
    /\ ~Has(f, "cypher") /\ ~Has(f, "relationship")
    /\ f.type = Required(ListOf("Float"))

VectorFields(fields) == SelectSeq(fields, LAMBDA f : Has(f, "vector"))

OneVectorPerNode(doc) ==
  \A t \in TypesWith(doc, "node") : Len(VectorFields(doc.types[t].fields)) <= 1

ValidateDirectives(doc) ==
  /\ \A t \in DOMAIN doc.types : \A i \in DOMAIN doc.types[t].fields :
       LET f == doc.types[t].fields[i] IN
       ValidRelationshipField(doc, f) /\ ValidCypherField(f) /\ ValidVectorField(f)
  /\ OneVectorPerNode(doc)
-----------------------------------------------------------------------------
(* Any required field of type ID, or list of them, counts as the node's. *)
IsID(f) == f.type.base = "ID" /\ f.type.required

ScalarFields(fields) == SelectSeq(fields, LAMBDA f : ~Has(f, "relationship"))

(* A @vector field stays among the fields. *)
NodeDefinition(doc, t) ==
  LET fields == ScalarFields(doc.types[t].fields)
  IN  [name   |-> t,
       fields |-> SelectSeq(fields, LAMBDA f : ~Has(f, "cypher")),
       cypherFields |-> SelectSeq(fields, LAMBDA f : Has(f, "cypher")),
       vectorField  |-> VectorFields(fields)]

RelationshipDefinition(doc, t, f) ==
  LET rel == f.on["relationship"]
  IN  [fieldName |-> f.name, relType |-> rel.type, direction |-> rel.direction,
       fromNode  |-> t, toNode |-> f.type.base, isList |-> f.type.list,
       properties |-> IF rel.properties = "" THEN <<>>
                      ELSE <<[typeName |-> rel.properties,
                              fields   |-> ScalarFields(doc.types[rel.properties].fields)]>>]

RelationshipsOf(doc, t) ==
  LET fields == SelectSeq(doc.types[t].fields, LAMBDA f : Has(f, "relationship"))
  IN  [i \in DOMAIN fields |-> RelationshipDefinition(doc, t, fields[i])]

(* The types come out of a Go map: in any order. *)
Orders(doc) ==
  LET nodes == TypesWith(doc, "node")
  IN  {s \in [1..Cardinality(nodes) -> nodes] : \A i, j \in DOMAIN s : s[i] = s[j] => i = j}

Model(doc, order) ==
  [nodes |-> [i \in DOMAIN order |-> NodeDefinition(doc, order[i])],
   relationships |-> FlattenSeq([i \in DOMAIN order |-> RelationshipsOf(doc, order[i])]),
   enums |-> doc.enums,
   customScalars |-> doc.scalars]

HasVectorField(model) == \E i \in DOMAIN model.nodes : model.nodes[i].vectorField # <<>>

(* The nodes that have one, in their order. *)
VectorNodes(model) ==
  LET with == {i \in DOMAIN model.nodes : model.nodes[i].vectorField # <<>>}
      Rank(i) == Cardinality({j \in with : j <= i})
  IN  [k \in 1..Cardinality(with) |-> model.nodes[CHOOSE i \in with : Rank(i) = k]]

RelationshipsFrom(model, name) ==
  SelectSeq(model.relationships, LAMBDA r : r.fromNode = name)
=============================================================================
