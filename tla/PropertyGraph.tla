----------------------------- MODULE PropertyGraph -----------------------------
(***************************************************************************)
(* The database as the translated statements see it, and the WHERE clauses *)
(* that Translator.buildWhereClause writes from a where argument.          *)
(*                                                                         *)
(* A node has a label and properties; an edge is named by its ends, its    *)
(* type and a copy number, since CREATE can add a second edge beside the   *)
(* first.  Cypher's logic has a third truth value, for a property that is  *)
(* not there.  The text of a clause is reduced to what becomes of it: none *)
(* at all, one the database cannot parse, or one that selects nodes.       *)
(***************************************************************************)
EXTENDS Integers, Sequences, FiniteSets, SequencesExt

CONSTANTS
  Labels,         \* node types of the schema
  Props,          \* their properties, the ID aside
  Values,         \* property values: Scalar(v), or List(s) of such (see Chunking)
  Null,           \* a property that is not there
  Relationships,  \* GraphModel.Relationships, in the order the parser found them
  Wheres          \* where arguments, the ones nested in others and the ones chunks have of them included

(* A relationship field: the type that has it, its name, the edge type,    *)
(* the target type, the direction, and whether edges have a property.      *)
RelationshipDefinition ==
  [from : Labels, field : STRING, type : STRING, to : Labels,
   dir : {"IN", "OUT"}, edges : BOOLEAN]

(* A where argument is [written, parts]: written is FALSE when the request *)
(* gives it as a variable, and then the value has no children to read.  A  *)
(* part is a predicate [tag = "is", prop, op, value], where value is a     *)
(* Boolean for isNull, a list for in and nin, and may be Null otherwise; a *)
(* relationship filter [tag = "some", field, where], [tag = "NOT", where], *)
(* or [tag = "AND" or "OR", wheres].                                       *)
Inner(part) ==
  CASE part.tag \in {"AND", "OR"} -> {part.wheres[i] : i \in DOMAIN part.wheres}
    [] part.tag \in {"NOT", "some"} -> {part.where}
    [] OTHER -> {}

InnerWheres(w) == UNION {Inner(w.parts[i]) : i \in DOMAIN w.parts}

IsWhere(w) ==
  /\ w.written \in BOOLEAN
  /\ w.parts \in Seq(Range(w.parts))
  /\ \A i \in DOMAIN w.parts :
       /\ \/ w.parts[i].tag = "is" /\ w.parts[i].op \in {"isNull", "is", "not", "in", "nin"}
          \/ w.parts[i].tag \in {"some", "NOT"}
          \/ w.parts[i].tag \in {"AND", "OR"} /\ w.parts[i].wheres \in Seq(Range(w.parts[i].wheres))
       /\ Inner(w.parts[i]) \subseteq Wheres

(* A type has one field of a name.  Filters end somewhere: among any of    *)
(* them there is one that has none of the others in it.                    *)
ASSUME GraphAssumption ==
  /\ Null \notin Values
  /\ Relationships \in Seq(RelationshipDefinition)
  /\ \A i, j \in DOMAIN Relationships :
       Relationships[i].from = Relationships[j].from /\ Relationships[i].field = Relationships[j].field
         => i = j
  /\ \A w \in Wheres : IsWhere(w)
  /\ \A some \in (SUBSET Wheres) \ {{}} : \E w \in some : InnerWheres(w) \cap some = {}

(* The types whose input type for filters has what the filter asks about.  *)
Applies[w \in Wheres] ==
  {l \in Labels : \A i \in DOMAIN w.parts :
     IF w.parts[i].tag = "some"
     THEN \E r \in DOMAIN Relationships :
            /\ Relationships[r].from = l
            /\ Relationships[r].field = w.parts[i].field
            /\ Relationships[r].to \in Applies[w.parts[i].where]
     ELSE \A v \in Inner(w.parts[i]) : l \in Applies[v]}

VARIABLES
  nodes,   \* from identifiers to [label, props]
  edges    \* from Edge to the role on it

Node == [label : Labels, props : [Props -> Values \cup {Null}]]
Edge == [from : Nat, to : Nat, type : STRING, copy : Nat]

NoProps == [p \in {} |-> p]

(* A map read with item.p: a missing key is null. *)
Given(map, p) == IF p \in DOMAIN map THEN map[p] ELSE Null

Labelled(l) == {n \in DOMAIN nodes : nodes[n].label = l}

(* n.p1 = $v1 AND n.p2 = $v2 ...: a null on either side is no match. *)
Equals(n, map) ==
  \A p \in DOMAIN map : p \in Props /\ map[p] # Null /\ nodes[n].props[p] = map[p]

(* SET n.p1 = $v1, ... *)
Assign(props, map) == [p \in Props |-> IF p \in DOMAIN map THEN map[p] ELSE props[p]]

(* The definitions a nested field may mean.  RelationshipsForNode returns  *)
(* those that start at the type and those that end there, and the callers  *)
(* look at the field's name.                                               *)
RelationshipsForNode(l) ==
  {i \in DOMAIN Relationships : l \in {Relationships[i].from, Relationships[i].to}}

Candidates(l, field) == {i \in RelationshipsForNode(l) : Relationships[i].field = field}

Leading(set) == {i \in set : \A j \in set : i <= j}

(* Altered: the pattern always points from the parent. *)
BuildRelPattern_Out(rel, parent, other) ==
  [from |-> parent, to |-> other, type |-> rel.type, copy |-> 1]

(* The edge a pattern (parent)-[:TYPE]->(other) stands for. *)
BuildRelPattern(rel, parent, other) ==
  [from |-> IF rel.dir = "IN" THEN other ELSE parent,
   to   |-> IF rel.dir = "IN" THEN parent ELSE other,
   type |-> rel.type, copy |-> 1]

Copies(edge) == {e \in DOMAIN edges : [e EXCEPT !.copy = 1] = edge}

(* MATCH (parent)-[r:TYPE]->(target:Label). *)
Related(rel, parent) ==
  {m \in Labelled(rel.to) : Copies(BuildRelPattern(rel, parent, m)) # {}}

-----------------------------------------------------------------------------
(* Cypher's logic. *)
Conjunction(vs) == IF "no" \in vs THEN "no" ELSE IF "null" \in vs THEN "null" ELSE "yes"
Disjunction_IsConjunction(vs) == Conjunction(vs)  \* Altered: OR is written AND.
Disjunction(vs) == IF "yes" \in vs THEN "yes" ELSE IF "null" \in vs THEN "null" ELSE "no"
Negation(v) == CASE v = "yes" -> "no" [] v = "no" -> "yes" [] OTHER -> v
Truth(b) == IF b THEN "yes" ELSE "no"

(* The parts buildWhereClause sees. *)
Written(w) == IF w.written THEN w.parts ELSE <<>>

(* What one part adds to the list of predicates, given what became of the  *)
(* clauses in it: "" (empty) is added to the list, "left out" is not.      *)
PartText(part, texts) ==
  CASE "broken" \in texts -> "broken"
    [] part.tag = "NOT" /\ texts = {"none"} -> "left out"
    [] part.tag \in {"AND", "OR"} /\ texts \subseteq {"none"} -> "empty"
    [] OTHER -> "some"

(* The clause buildWhereClause writes.  An empty predicate leaves AND with *)
(* nothing on one side, or, alone, no clause at all.                       *)
Text[w \in Wheres] ==
  LET parts == Written(w)
      text  == [i \in DOMAIN parts |-> PartText(parts[i], {Text[v] : v \in Inner(parts[i])})]
      kept  == {i \in DOMAIN parts : text[i] # "left out"}
      empty == {i \in kept : text[i] = "empty"}
  IN  CASE (\E i \in kept : text[i] = "broken") \/ (empty # {} /\ kept # empty)
             \/ Cardinality(empty) > 1 -> "broken"
        [] kept = empty -> "none"
        [] OTHER -> "some"

(* n.p = $v is null where either side is. *)
Equal(v, w) == IF Null \in {v, w} THEN "null" ELSE Truth(v = w)

(* v IN list is v = x for one x of the list: of no x in an empty list.     *)
IsIn(v, list) ==
  IF list = Null THEN "null" ELSE Disjunction({Equal(v, x) : x \in Range(list.items)})

Compare(part, v) ==
  CASE part.op = "isNull" -> Truth((v = Null) = part.value)
    [] part.op = "is"  -> Equal(v, part.value)
    [] part.op = "not" -> Negation(Equal(v, part.value))
    [] part.op = "in"  -> IsIn(v, part.value)
    [] part.op = "nin" -> Negation(IsIn(v, part.value))

(* The parts that add a predicate. *)
Predicates(w) ==
  {part \in {Written(w)[i] : i \in DOMAIN Written(w)} :
     PartText(part, {Text[v] : v \in Inner(part)}) = "some"}

(* The value of the written clause at node n.  A filter that wrote no      *)
(* clause is left out of the AND or OR around it.                          *)
Holds[w \in Wheres] ==
  LET Within(part, n) == {Holds[v][n] : v \in {u \in Inner(part) : Text[u] = "some"}}
      PartHolds(part, n) ==
        CASE part.tag = "is"  -> Compare(part, nodes[n].props[part.prop])
          [] part.tag = "NOT" -> Negation(Holds[part.where][n])
          [] part.tag = "AND" -> Conjunction(Within(part, n))
          [] part.tag = "OR"  -> Disjunction(Within(part, n))
          [] part.tag = "some" ->
               Truth(\E i \in Leading(Candidates(nodes[n].label, part.field)) :
                       \E m \in Related(Relationships[i], n) : Holds[part.where][m] = "yes")
  IN  [n \in DOMAIN nodes |-> Conjunction({PartHolds(part, n) : part \in Predicates(w)})]

(* MATCH (n:Label) WHERE ... *)
Matching(l, w) == {n \in Labelled(l) : Holds[w][n] = "yes"}

=============================================================================
