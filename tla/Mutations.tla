------------------------------- MODULE Mutations -------------------------------
(***************************************************************************)
(* What a GraphQL mutation does to the graph: the statements               *)
(* Translator.translateMutationSplit writes for it, run by Client.Execute  *)
(* chunk by chunk, and called again from the chunk an error names.         *)
(*                                                                         *)
(* A merge or connect field writes in a statement of its own, one row per  *)
(* item, before anything else of its chunk.  The read statement then holds *)
(* one CALL block per field, in the order of the request: reading back for *)
(* merge, a number for connect, and the whole work of create, update and   *)
(* delete, nested operations included.  A block runs once per row that the *)
(* blocks before it returned.  The database takes back a statement that    *)
(* fails.  Statements of different callers run one after the other, but a  *)
(* merge may overlook nodes that others committed while it was under way:  *)
(* Neo4j's transactions run side by side and see what has been committed   *)
(* when they look.                                                         *)
(*                                                                         *)
(* A field is [op, label, asked, items | where, set, nested, ...], asked   *)
(* the lengths of the lists in the arguments of its selection; a nested    *)
(* operation is [op, field, listed, items], its items functions from the   *)
(* parts given ("where", "node", "edge") to maps of properties.            *)
(***************************************************************************)
EXTENDS PropertyGraph, Chunking

CONSTANTS
  Callers,     \* goroutines that execute mutations
  Nobody,      \* no caller's statement is running
  Graphs,      \* graphs to start from: [nodes, edges]
  Requests,    \* mutations: sequences of fields
  BatchSize,   \* Client.batchSize
  MaxRetries   \* bound on calls made again after an error

(* What a chunk has of a list: its slice. *)
IsListValue(v) == v # Null /\ v.kind = "list"

CutValue(v, k) == IF IsListValue(v) THEN List(SliceAt(v.items, k, BatchSize)) ELSE v

IsMap(map) == \A p \in DOMAIN map : map[p] \in Values \cup {Null}

(* What GraphQL validation lets through of a nested operation under a type *)
(* l: an operation its input type has, on a relationship field of l.       *)
IsNested(op, l, ops) ==
  /\ op.op \in ops
  /\ \E i \in DOMAIN Relationships : Relationships[i].from = l /\ Relationships[i].field = op.field
  /\ \A k \in DOMAIN op.items : \A part \in DOMAIN op.items[k] : IsMap(op.items[k][part])

IsList(items, parts) ==
  /\ items \in Seq(Range(items))
  /\ \A i \in DOMAIN items : \A part \in parts : IsMap(items[i][part])

(* And of a field of a mutation.  Input items are a list of maps, as they  *)
(* are in the text of a request and in variables read from JSON; a list of *)
(* another Go type (a []map[string]any, say) is neither cut nor looked     *)
(* into for its keys, and is left out here.                                *)
IsField(f) ==
  /\ f.label \in Labels
  /\ f.asked \subseteq Nat
  /\ \/ /\ f.op = "merge" /\ IsList(f.items, {"match", "onCreate", "onMatch"})
        /\ \A i \in DOMAIN f.items : DOMAIN f.items[i].match \subseteq Props
     \/ /\ f.op = "connect" /\ IsList(f.items, {"from", "to", "edge"})
        /\ \E i \in DOMAIN Relationships : Relationships[i].from = f.label /\ Relationships[i].field = f.field
     \/ /\ f.op = "create" /\ IsList(f.items, {"props"})
        /\ \A i \in DOMAIN f.items : \A j \in DOMAIN f.items[i].nested :
             IsNested(f.items[i].nested[j], f.label, {"create", "connect"})
     \/ /\ f.op = "update" /\ IsMap(f.set)
        /\ f.where \in Wheres /\ f.label \in Applies[f.where]
        /\ \A j \in DOMAIN f.nested :
             IsNested(f.nested[j], f.label, {"create", "connect", "disconnect", "update", "delete"})
     \/ f.op = "delete" /\ f.where \in Wheres /\ f.label \in Applies[f.where]

(* The edge joins two nodes that are there, of the types and in the        *)
(* direction one relationship field of the schema says.                    *)
Joins(ns, e) ==
  /\ e.from \in DOMAIN ns /\ e.to \in DOMAIN ns
  /\ \E i \in DOMAIN Relationships :
       LET rel  == Relationships[i]
           ends == <<ns[e.from].label, ns[e.to].label>>
       IN  /\ rel.type = e.type
           /\ ends = IF rel.dir = "IN" THEN <<rel.to, rel.from>> ELSE <<rel.from, rel.to>>

Fits(ns, es) == \A e \in DOMAIN es : Joins(ns, e)

IsGraph(g) ==
  /\ g.nodes \in Seq(Node)
  /\ \A e \in DOMAIN g.edges : e \in Edge /\ g.edges[e] \in Values \cup {Null}
  /\ Fits(g.nodes, g.edges)

ASSUME MutationsAssumption ==
  /\ Nobody \notin Callers
  /\ BatchSize \in Nat \ {0}
  /\ MaxRetries \in Nat
  /\ \A v \in Values : v.kind = "list" =>
       /\ v.items \in Seq(Range(v.items))
       /\ List(<<>>) \in Values /\ \A k \in DOMAIN v.items : CutValue(v, k) \in Values
  /\ \A g \in Graphs : IsGraph(g)
  /\ \A req \in Requests : req \in Seq(Range(req)) /\ \A i \in DOMAIN req : IsField(req[i])

VARIABLES
  fresh,       \* identifiers up to this one have been used
  before,      \* the graph when the statement began
  active,      \* whose statement the database is running, or Nobody
  field,       \* the field whose write or CALL block is running
  reading,     \* it is the read statement
  row,         \* items the write statement has gone through
  left,        \* rows for which the block has not run yet
  out,         \* rows it has returned
  open,        \* it has bound n: only nested operations and RETURN are left
  table,       \* the nodes bound to n
  todo,        \* <<nested operation, by position in the request, node>> left
  request,     \* each caller's mutation
  status,      \* idle, running, failed or done
  chunk,       \* number of the chunk it is at
  due,         \* fields whose write statement the chunk has not run yet
  retries,
  unseen,      \* nodes others added while the merge the caller has sent is under way
  \* history
  met,         \* labels of merges that were under way when another caller added such a node
  listed,      \* length of each field's answer in the statement under way
  answered,    \* length of each field's answer, over the chunks answered
  twice,       \* a statement the database kept is sent again
  origin       \* the graph at the start

graphVars == <<nodes, edges, fresh>>
blockVars == <<left, out, open, table, todo, listed>>
stmtVars == <<before, active, field, reading, row>>
callVars == <<request, status, chunk, due, retries, unseen, met, answered, twice, origin>>
vars == <<graphVars, blockVars, stmtVars, callVars>>
-----------------------------------------------------------------------------
Items(f) == IF f.op \in {"merge", "connect", "create"} THEN f.items ELSE <<>>

Slice_Whole(c, i) == Items(request[c][i])  \* Altered: each chunk has all items.

(* The items of a field that are in the caller's chunk.  A request that is *)
(* not split is one slice.                                                 *)
Slice(c, i) == SliceAt(Items(request[c][i]), chunk[c], BatchSize)

Writes(req) == {i \in DOMAIN req : req[i].op \in {"merge", "connect"}}

Current == request[active][field]
Rows == Slice(active, field)

(* extractMergeMatchKeyNames, extractConnectFieldNames: the keys of the    *)
(* first item of the request, whatever item the statement is at.           *)
KeysOf(f, part) == IF f.items = <<>> THEN {} ELSE DOMAIN f.items[1][part]

Wanted(keys, map) == [p \in keys |-> Given(map, p)]

(* A nested operation's items.  A single object, which GraphQL takes for a *)
(* list of one, is not a list in the query: each of its parts is taken for *)
(* an item, and has no parts itself.                                       *)
NestedItems(op) ==
  IF op.listed THEN op.items
  ELSE [i \in 1..Cardinality(DOMAIN op.items[1]) |-> [part \in {} |-> NoProps]]

Part(item, part) == IF part \in DOMAIN item THEN item[part] ELSE NoProps

(* Where the request has nested operations: <<item, operation,             *)
(* relationship, item of the operation>>.  A create takes those of all     *)
(* items of the request, and every relationship the name may mean; an      *)
(* update takes the first.  None are seen in an argument given as a        *)
(* variable.                                                               *)
Nested(f) ==
  IF ~f.inline THEN {}
  ELSE IF f.op = "create"
  THEN UNION {UNION {
         {<<i, j, r, k>> : k \in DOMAIN NestedItems(f.items[i].nested[j]),
                           r \in Candidates(f.label, f.items[i].nested[j].field)}
         : j \in DOMAIN f.items[i].nested} : i \in DOMAIN f.items}
  ELSE UNION {{<<1, j, r, k>> : k \in DOMAIN NestedItems(f.nested[j]),
                                r \in Leading(Candidates(f.label, f.nested[j].field))}
              : j \in DOMAIN f.nested}

Relationship(at) == Relationships[at[3]]

NestedOps(f, i) == IF f.op = "create" THEN f.items[i].nested ELSE f.nested

NestedOp(f, at) == NestedOps(f, at[1])[at[2]]

(* The order in which their CALL blocks follow each other: item by item,   *)
(* under it field by field, each with all its operations for one           *)
(* relationship before the next.                                           *)
Place(f, at) ==
  LET ops   == NestedOps(f, at[1])
      first == Min({j \in DOMAIN ops : ops[j].field = ops[at[2]].field})
  IN  <<at[1], first, at[3], at[2], at[4]>>

Precedes(f, x, y) ==
  LET a == Place(f, x)
      b == Place(f, y)
  IN  \E i \in DOMAIN a : a[i] < b[i] /\ \A j \in 1..(i - 1) : a[j] = b[j]

(* A block the database cannot parse: a WHERE clause with a side missing,  *)
(* or a nested update that sets nothing, which ends in MATCH.              *)
Broken(f) ==
  \/ f.op \in {"update", "delete"} /\ Text[f.where] = "broken"
  \/ /\ f.op = "update"
     /\ \E at \in Nested(f) :
          /\ NestedOp(f, at).op = "update"
          /\ LET item == NestedItems(NestedOp(f, at))[at[4]]
             IN  DOMAIN Part(item, "node") \cup DOMAIN Part(item, "edge") = {}
-----------------------------------------------------------------------------
(* How a request is split.  Each list in it is a parameter of its own:     *)
(* the items, and also the list an in or nin filter compares with and a    *)
(* list given for a property.  The longest says how many chunks there are, *)
(* and every chunk has its slice of each, nothing once a list is used up.  *)
CutMap(map, k) == [p \in DOMAIN map |-> CutValue(map[p], k)]

(* A filter as it stands in each chunk. *)
Cut[w \in Wheres] ==
  [k \in Nat \ {0} |->
     IF ~w.written THEN w
     ELSE [w EXCEPT !.parts = [i \in DOMAIN w.parts |->
       LET x == w.parts[i] IN
       CASE x.tag = "is" /\ x.op = "isNull" -> x
         [] x.tag = "is" /\ x.op # "isNull" -> [x EXCEPT !.value = CutValue(@, k)]
         [] x.tag \in {"AND", "OR"} -> [x EXCEPT !.wheres = [j \in DOMAIN @ |-> Cut[@[j]][k]]]
         [] OTHER -> [x EXCEPT !.where = Cut[@][k]]]]]

ValueLengths(v) == IF IsListValue(v) THEN {Len(v.items)} ELSE {}

MapLengths(map) == UNION {ValueLengths(map[p]) : p \in DOMAIN map}

WhereLengths[w \in Wheres] ==
  IF ~w.written THEN {}
  ELSE UNION {IF w.parts[i].tag = "is"
              THEN IF w.parts[i].op = "isNull" THEN {} ELSE ValueLengths(w.parts[i].value)
              ELSE UNION {WhereLengths[v] : v \in Inner(w.parts[i])}
              : i \in DOMAIN w.parts}

NestedLengths(f) ==
  UNION {UNION {MapLengths(Part(NestedItems(NestedOp(f, at))[at[4]], part)) :
                  part \in {"where", "node", "edge"}} : at \in Nested(f)}

(* The lengths of the lists among the parameters of a field. *)
Lengths(f) ==
  f.asked \cup
  CASE f.op \in {"merge", "connect"} -> {Len(f.items)}
    [] f.op = "create" -> {Len(f.items)} \cup NestedLengths(f)
    [] f.op = "update" -> WhereLengths[f.where] \cup NestedLengths(f)
                            \cup (IF f.inline THEN MapLengths(f.set) ELSE {})
    [] f.op = "delete" -> WhereLengths[f.where]

(* Altered: what does not fill a batch is left over. *)
HasChunk_Down(req, k) ==
  k = 1 \/ \E i \in DOMAIN req : \E n \in Lengths(req[i]) : n >= k * BatchSize

HasChunk(req, k) ==
  k = 1 \/ \E i \in DOMAIN req : \E n \in Lengths(req[i]) : n > (k - 1) * BatchSize
-----------------------------------------------------------------------------
(* Altered: a connect adds an edge whatever there is. *)
MergeEdges_Creates(patterns, map) ==
  LET added == {[p EXCEPT !.copy = Cardinality(Copies(p)) + 1] : p \in patterns}
  IN  [e \in DOMAIN edges \cup added |->
         IF e \in added THEN Given(map, "role") ELSE edges[e]]

(* MERGE (a)-[r:TYPE]->(b) SET r.role = ... for each of the patterns: no   *)
(* edge is added where there is one.                                       *)
MergeEdges(patterns, map) ==
  LET added == {p \in patterns : Copies(p) = {}}
      set   == added \cup UNION {Copies(p) : p \in patterns}
  IN  [e \in DOMAIN edges \cup added |->
         IF e \in set /\ "role" \in DOMAIN map THEN map["role"]
         ELSE IF e \in added THEN Null ELSE edges[e]]

(* DETACH DELETE *)
DetachDelete(dead) ==
  /\ nodes' = [n \in DOMAIN nodes \ dead |-> nodes[n]]
  /\ edges' = [e \in {d \in DOMAIN edges : d.from \notin dead /\ d.to \notin dead} |-> edges[e]]
-----------------------------------------------------------------------------
NoStatement ==
  /\ active = Nobody
  /\ before = [nodes |-> <<>>, edges |-> <<>>, fresh |-> 0]
  /\ field = 0 /\ reading = FALSE /\ row = 0
  /\ left = 0 /\ out = 0 /\ open = FALSE /\ table = {} /\ todo = {} /\ listed = <<>>

Init ==
  /\ \E g \in Graphs : nodes = g.nodes /\ edges = g.edges
  /\ fresh = Max({0} \cup DOMAIN nodes)
  /\ origin = [nodes |-> nodes, edges |-> edges]
  /\ NoStatement
  /\ request = [c \in Callers |-> <<>>]
  /\ status = [c \in Callers |-> "idle"]
  /\ chunk = [c \in Callers |-> 1]
  /\ due = [c \in Callers |-> {}]
  /\ retries = 0
  /\ unseen = [c \in Callers |-> {}]
  /\ met = {}
  /\ answered = [c \in Callers |-> <<>>]
  /\ twice = [c \in Callers |-> FALSE]

(* Client.Execute, up to the first statement. *)
Execute(c, req) ==
  /\ status[c] = "idle"
  /\ status' = [status EXCEPT ![c] = "running"]
  /\ request' = [request EXCEPT ![c] = req]
  /\ due' = [due EXCEPT ![c] = Writes(req)]
  /\ answered' = [answered EXCEPT ![c] = [i \in DOMAIN req |-> 0]]
  /\ UNCHANGED <<graphVars, blockVars, stmtVars, chunk, retries, unseen, met, twice, origin>>

(* The database takes the next statement of the caller's chunk. *)
Begin(c) ==
  /\ active = Nobody
  /\ status[c] = "running"
  /\ active' = c
  /\ before' = [nodes |-> nodes, edges |-> edges, fresh |-> fresh]
  /\ UNCHANGED <<graphVars, callVars>>

(* Altered: the last write comes first. *)
NextWrite_Last(c) == {i \in due[c] : \A j \in due[c] : i >= j}

NextWrite(c) == {i \in due[c] : \A j \in due[c] : i <= j}

BeginWrite(c) ==
  /\ Begin(c)
  /\ field' \in NextWrite(c)
  /\ row' = 0
  /\ reading' = FALSE
  /\ UNCHANGED blockVars

BeginRead(c) ==
  /\ Begin(c)
  /\ due[c] = {}
  /\ \A i \in DOMAIN request[c] : ~Broken(request[c][i])
  /\ field' = 1
  /\ row' = 0
  /\ reading' = TRUE
  /\ left' = 1 /\ out' = 0 /\ open' = FALSE /\ table' = {} /\ todo' = {}
  /\ listed' = [i \in DOMAIN request[c] |-> 0]

(* The writes of the chunk have run by the time the database reads the     *)
(* text of the read statement.                                             *)
ReadRefused(c) ==
  /\ active = Nobody
  /\ status[c] = "running"
  /\ due[c] = {}
  /\ \E i \in DOMAIN request[c] : Broken(request[c][i])
  /\ status' = [status EXCEPT ![c] = "failed"]
  /\ UNCHANGED <<graphVars, blockVars, stmtVars, request, chunk, due, retries, unseen, met, answered, twice, origin>>
-----------------------------------------------------------------------------
(* The write statements, row by row. *)
Writing(op) ==
  /\ active # Nobody
  /\ ~reading
  /\ Current.op = op
  /\ row < Len(Rows)

(* Altered: the pattern holds the onCreate fields as well. *)
Merged_OnCreate(f, item) ==
  {n \in Labelled(f.label) : Equals(n, Wanted(KeysOf(f, "match"), item.match)) /\ Equals(n, item.onCreate)}

Merged(f, item) == {n \in Labelled(f.label) : Equals(n, Wanted(KeysOf(f, "match"), item.match))}

(* FOREACH item MERGE (n {key: item.match.key}): a null key is an error,   *)
(* and only Fail is left.  Nothing stops it from adding a node with the    *)
(* keys of one it has overlooked: no index the generator writes is on      *)
(* them.                                                                   *)
Merge ==
  /\ Writing("merge")
  /\ LET item  == Rows[row + 1]
         keys  == KeysOf(Current, "match")
         want  == Wanted(keys, item.match)
         made  == [p \in Props |-> IF p \in keys THEN want[p] ELSE Given(item.onCreate, p)]
     IN  \E overlooked \in SUBSET unseen[active] :
         LET found == Merged(Current, item) \ overlooked IN
         /\ \A p \in keys : want[p] # Null
         /\ IF found = {}
            THEN /\ fresh' = fresh + 1
                 /\ nodes' = [n \in DOMAIN nodes \cup {fresh + 1} |->
                      IF n \in DOMAIN nodes THEN nodes[n]
                      ELSE [label |-> Current.label, props |-> made]]
            ELSE /\ nodes' = [n \in DOMAIN nodes |->
                      IF n \in found
                      THEN [nodes[n] EXCEPT !.props = [p \in Props |->
                              IF Given(item.onMatch, p) # Null THEN item.onMatch[p] ELSE @[p]]]
                      ELSE nodes[n]]
                 /\ UNCHANGED fresh
  /\ row' = row + 1
  /\ UNCHANGED <<edges, blockVars, before, active, field, reading, callVars>>

(* MATCH (from) WHERE from.key = item.from.key, and to likewise *)
Ends(f, item, l, end) == {n \in Labelled(l) : Equals(n, Wanted(KeysOf(f, end), item[end]))}

RowPatterns(f, rel, item) ==
  {BuildRelPattern(rel, m, n) : m \in Ends(f, item, rel.from, "from"), n \in Ends(f, item, rel.to, "to")}

(* SET r.role = item.edge.role: removes the role where the item gives none *)
RowEdge(rel, item) == IF rel.edges THEN [p \in {"role"} |-> Given(item.edge, p)] ELSE NoProps

(* UNWIND items MATCH (from) MATCH (to) MERGE (from)-[r]-(to) SET ... *)
Connect ==
  /\ Writing("connect")
  /\ \E i \in Leading({j \in DOMAIN Relationships :
              Relationships[j].from = Current.label /\ Relationships[j].field = Current.field}) :
       LET rel  == Relationships[i]
           item == Rows[row + 1]
       IN  edges' = MergeEdges(RowPatterns(Current, rel, item), RowEdge(rel, item))
  /\ row' = row + 1
  /\ UNCHANGED <<nodes, fresh, blockVars, before, active, field, reading, callVars>>
-----------------------------------------------------------------------------
(* The CALL blocks of the read statement. *)
InBlock(op) ==
  /\ active # Nobody
  /\ reading
  /\ left > 0
  /\ field <= Len(request[active])
  /\ Current.op = op

(* The block has run for one row, and returned rows of its own.  Only the  *)
(* first record of the statement is the answer.                            *)
Return(rows, length) ==
  /\ left' = left - 1
  /\ out' = out + rows
  /\ listed' = [listed EXCEPT ![field] = IF out = 0 THEN length ELSE @]
  /\ open' = FALSE
  /\ UNCHANGED <<stmtVars, callVars>>

(* The block has bound n; nested operations follow. *)
Open(bound) ==
  /\ ~open
  /\ open' = TRUE
  /\ table' = bound
  /\ todo' = Nested(Current) \X bound
  /\ UNCHANGED <<left, out, listed, stmtVars, callVars>>

(* UNWIND items MATCH (n {key: item.match.key}) RETURN collect(n) *)
ReadMerged ==
  /\ InBlock("merge")
  /\ Return(1, Cardinality(
       {x \in (DOMAIN Rows) \X DOMAIN nodes : x[2] \in Merged(Current, Rows[x[1]])}))
  /\ UNCHANGED <<graphVars, table, todo>>

(* RETURN size(items) *)
CountConnected ==
  /\ InBlock("connect")
  /\ Return(1, Len(Rows))
  /\ UNCHANGED <<graphVars, table, todo>>

(* UNWIND items CREATE (n) SET n.id = randomUUID(), n.p = item.p *)
Create ==
  /\ InBlock("create")
  /\ nodes' = [n \in DOMAIN nodes \cup (fresh + 1)..(fresh + Len(Rows)) |->
       IF n \in DOMAIN nodes THEN nodes[n]
       ELSE [label |-> Current.label, props |-> Wanted(Props, Rows[n - fresh].props)]]
  /\ fresh' = fresh + Len(Rows)
  /\ Open((fresh + 1)..(fresh + Len(Rows)))
  /\ UNCHANGED edges

(* The filter of an update or delete, as the chunk has it. *)
WhereNow == Cut[Current.where][chunk[active]]

(* MATCH (n) WHERE ... SET n.p = $v: values are read from the children of  *)
(* the update argument, which a variable does not have.                    *)
Update ==
  /\ InBlock("update")
  /\ LET found == Matching(Current.label, WhereNow)
     IN  /\ nodes' = [n \in DOMAIN nodes |->
              IF n \in found /\ Current.inline
              THEN [nodes[n] EXCEPT !.props = Assign(@, CutMap(Current.set, chunk[active]))]
              ELSE nodes[n]]
         /\ Open(found)
  /\ UNCHANGED <<edges, fresh>>

(* MATCH (n) WHERE ... WITH n, count(n) AS cnt DETACH DELETE n RETURN cnt: *)
(* a row with cnt = 1 for each node.                                       *)
Delete ==
  /\ InBlock("delete")
  /\ LET found == Matching(Current.label, WhereNow)
     IN  DetachDelete(found) /\ Return(Cardinality(found), 1)
  /\ UNCHANGED <<fresh, table, todo>>

(* The next nested CALL block, once for each n, in any order: a run sees    *)
(* what the ones before it did.                                            *)
AtNested(op, at, n) ==
  /\ active # Nobody
  /\ reading
  /\ open
  /\ <<at, n>> \in todo
  /\ \A b \in todo : b[1] = at \/ Precedes(Current, at, b[1])
  /\ NestedOp(Current, at).op = op
  /\ todo' = todo \ {<<at, n>>}
  /\ UNCHANGED <<left, out, open, table, listed, stmtVars, callVars>>

NestedPart(at, part) ==
  CutMap(Part(NestedItems(NestedOp(Current, at))[at[4]], part), chunk[active])

(* CREATE (n)-[r]-(child) SET child.id = randomUUID(), ...  An edge needs  *)
(* both its ends: where an operation before has deleted n, only Fail is    *)
(* left.                                                                   *)
NestedCreate(at, n) ==
  /\ AtNested("create", at, n)
  /\ n \in DOMAIN nodes
  /\ LET rel   == Relationship(at)
         child == fresh + 1
         edge  == BuildRelPattern(rel, n, child)
     IN  /\ nodes' = [m \in DOMAIN nodes \cup {child} |->
              IF m = child
              THEN [label |-> rel.to, props |-> Wanted(Props, NestedPart(at, "node"))]
              ELSE nodes[m]]
         /\ edges' = [e \in DOMAIN edges \cup {edge} |->
              IF e = edge THEN Given(NestedPart(at, "edge"), "role") ELSE edges[e]]
  /\ fresh' = fresh + 1

(* MATCH (target) WHERE ... MERGE (n)-[r]-(target) SET r.role = ... *)
NestedConnect(at, n) ==
  /\ AtNested("connect", at, n)
  /\ LET rel == Relationship(at)
         targets == {m \in Labelled(rel.to) : Equals(m, NestedPart(at, "where"))}
     IN  /\ n \in DOMAIN nodes \/ targets = {}
         /\ edges' = MergeEdges({BuildRelPattern(rel, n, m) : m \in targets}, NestedPart(at, "edge"))
  /\ UNCHANGED <<nodes, fresh>>

Targets_Anywhere(at, n) ==  \* Altered: every node of the target type.
  {m \in Labelled(Relationship(at).to) : Equals(m, NestedPart(at, "where"))}

(* MATCH (n)-[r]-(target) WHERE target.p = $v ... *)
Targets(at, n) == {m \in Related(Relationship(at), n) : Equals(m, NestedPart(at, "where"))}

Between(at, n) == UNION {Copies(BuildRelPattern(Relationship(at), n, m)) : m \in Targets(at, n)}

(* DELETE r *)
NestedDisconnect(at, n) ==
  /\ AtNested("disconnect", at, n)
  /\ edges' = [e \in DOMAIN edges \ Between(at, n) |-> edges[e]]
  /\ UNCHANGED <<nodes, fresh>>

(* SET target.p = ... SET r.role = ... *)
NestedUpdate(at, n) ==
  /\ AtNested("update", at, n)
  /\ LET map == NestedPart(at, "edge")
     IN  /\ nodes' = [m \in DOMAIN nodes |->
              IF m \in Targets(at, n)
              THEN [nodes[m] EXCEPT !.props = Assign(@, NestedPart(at, "node"))] ELSE nodes[m]]
         /\ edges' = [e \in DOMAIN edges |->
              IF e \in Between(at, n) /\ "role" \in DOMAIN map THEN map["role"] ELSE edges[e]]
  /\ UNCHANGED fresh

(* DETACH DELETE target *)
NestedDelete(at, n) ==
  /\ AtNested("delete", at, n)
  /\ DetachDelete(Targets(at, n))
  /\ UNCHANGED fresh

NestedStep ==
  \E b \in todo :
    \/ NestedCreate(b[1], b[2]) \/ NestedConnect(b[1], b[2]) \/ NestedDisconnect(b[1], b[2])
    \/ NestedUpdate(b[1], b[2]) \/ NestedDelete(b[1], b[2])

(* RETURN collect(n) *)
Collect ==
  /\ active # Nobody
  /\ reading
  /\ open /\ todo = {}
  /\ Return(1, Cardinality(table))
  /\ UNCHANGED <<graphVars, table, todo>>

NextBlock ==
  /\ active # Nobody
  /\ reading
  /\ left = 0
  /\ field <= Len(request[active])
  /\ field' = field + 1
  /\ left' = out
  /\ out' = 0
  /\ UNCHANGED <<graphVars, open, table, todo, listed, before, active, reading, row, callVars>>
-----------------------------------------------------------------------------
(* How a statement ends, and what the client does then. *)
WriteComplete ==
  /\ active # Nobody
  /\ ~reading
  /\ row = Len(Rows)

ReadComplete ==
  /\ active # Nobody
  /\ reading
  /\ field > Len(request[active])

Finished ==
  /\ active' = Nobody
  /\ before' = [nodes |-> <<>>, edges |-> <<>>, fresh |-> 0]
  /\ field' = 0 /\ reading' = FALSE /\ row' = 0
  /\ left' = 0 /\ out' = 0 /\ open' = FALSE /\ table' = {} /\ todo' = {} /\ listed' = <<>>

(* A node the statement has added, of the type that the next write of      *)
(* another caller merges.  That may have been under way at the time.       *)
Missed(c) ==
  {n \in DOMAIN nodes \ DOMAIN before.nodes :
     /\ c # active /\ status[c] = "running"
     /\ \E i \in NextWrite(c) : request[c][i].op = "merge" /\ request[c][i].label = nodes[n].label}

Committed ==
  /\ unseen' = [c \in Callers |-> IF c = active THEN {} ELSE unseen[c] \cup Missed(c)]
  /\ met' = met \cup {nodes[n].label : n \in UNION {Missed(c) : c \in Callers}}

Release ==
  /\ Finished
  /\ Committed
  /\ UNCHANGED <<graphVars, request, origin>>

EndWrite ==
  /\ WriteComplete
  /\ due' = [due EXCEPT ![active] = @ \ {field}]
  /\ Release
  /\ UNCHANGED <<status, chunk, retries, answered, twice>>

(* Altered: one chunk too many. *)
EndRead_OneMore ==
  /\ ReadComplete
  /\ chunk' = [chunk EXCEPT ![active] = @ + 1]
  /\ due' = [due EXCEPT ![active] = Writes(request[active])]
  /\ Release
  /\ UNCHANGED <<status, answered, retries, twice>>

(* aggregateResults puts the lists of the chunks one after the other; an   *)
(* answer without a record adds nothing.                                   *)
EndRead ==
  /\ ReadComplete
  /\ answered' = [answered EXCEPT ![active] =
       [i \in DOMAIN @ |-> @[i] + (IF left > 0 THEN listed[i] ELSE 0)]]
  /\ IF HasChunk(request[active], chunk[active] + 1)
     THEN /\ chunk' = [chunk EXCEPT ![active] = @ + 1]
          /\ due' = [due EXCEPT ![active] = Writes(request[active])]
          /\ UNCHANGED status
     ELSE /\ status' = [status EXCEPT ![active] = "done"]
          /\ UNCHANGED <<chunk, due>>
  /\ Release
  /\ UNCHANGED <<retries, twice>>

(* The database reports an error and takes the statement back. *)
Fail ==
  /\ active # Nobody
  /\ nodes' = before.nodes
  /\ edges' = before.edges
  /\ fresh' = before.fresh
  /\ status' = [status EXCEPT ![active] = "failed"]
  /\ Finished
  /\ unseen' = [unseen EXCEPT ![active] = {}]
  /\ UNCHANGED <<request, chunk, due, retries, met, answered, twice, origin>>

(* The statement is done, and the client gets an error instead of a reply. *)
ReplyLost ==
  /\ WriteComplete \/ ReadComplete
  /\ status' = [status EXCEPT ![active] = "failed"]
  /\ twice' = [twice EXCEPT ![active] = TRUE]
  /\ Release
  /\ UNCHANGED <<chunk, due, retries, answered>>

(* The caller takes up the request at the chunk the error names, with the  *)
(* statements of it that have run.                                         *)
Resume(c) ==
  /\ status[c] = "failed"
  /\ retries < MaxRetries
  /\ retries' = retries + 1
  /\ status' = [status EXCEPT ![c] = "running"]
  /\ due' = [due EXCEPT ![c] = Writes(request[c])]
  /\ twice' = [twice EXCEPT ![c] = @ \/ due[c] # Writes(request[c])]
  /\ UNCHANGED <<graphVars, blockVars, stmtVars, request, chunk, unseen, met, answered, origin>>

DatabaseStep ==
  \/ Merge \/ Connect
  \/ ReadMerged \/ CountConnected \/ Create \/ Update \/ Delete
  \/ NestedStep \/ Collect \/ NextBlock
  \/ EndWrite \/ EndRead \/ Fail \/ ReplyLost

Next ==
  \/ \E c \in Callers :
       \/ \E req \in Requests : Execute(c, req)
       \/ BeginWrite(c) \/ BeginRead(c) \/ ReadRefused(c) \/ Resume(c)
  \/ DatabaseStep

Spec == Init /\ [][Next]_vars
-----------------------------------------------------------------------------

(* Every variable has a value of its kind; the statement the database runs *)
(* is that of a caller who waits for it, at a field of its request.        *)
TypeOK ==
  /\ \A n \in DOMAIN nodes : nodes[n] \in Node
  /\ \A e \in DOMAIN edges : e \in Edge /\ edges[e] \in Values \cup {Null}
  /\ fresh \in Nat /\ \A n \in DOMAIN nodes : n <= fresh
  /\ active \in Callers \cup {Nobody}
  /\ status \in [Callers -> {"idle", "running", "failed", "done"}]
  /\ active # Nobody => /\ status[active] = "running"
                        /\ field \in 1..(Len(request[active]) + 1)
  /\ \A c \in Callers : /\ due[c] \subseteq Writes(request[c])
                         /\ chunk[c] \in Nat \ {0} /\ HasChunk(request[c], chunk[c])
  /\ unseen \in [Callers -> SUBSET Nat] /\ met \subseteq Labels
  /\ left \in Nat /\ out \in Nat /\ row \in Nat /\ retries \in 0..MaxRetries

(* Whichever of the five ways an edge came to be, by connect, by a nested  *)
(* create or connect, under a type that has the field or beside one that   *)
(* is only its target, it joins two nodes that are there, of the types and *)
(* in the direction one relationship field of the schema says.             *)
EdgesFitSchema == Fits(nodes, edges)

AllFields == UNION {{request[c][i] : i \in DOMAIN request[c]} : c \in Callers}

(* A merge whose items all have the same keys, and do not overwrite them.  *)
Plain(f) ==
  \A i \in DOMAIN f.items :
    /\ DOMAIN f.items[i].match = KeysOf(f, "match")
    /\ DOMAIN f.items[i].onMatch \cap KeysOf(f, "match") = {}

UniqueBy(ns, l, keys) ==
  \A m, n \in DOMAIN ns :
    ns[m].label = l /\ ns[n].label = l /\ m # n => \E p \in keys : ns[m].props[p] # ns[n].props[p]

(* Only merges on these keys write nodes of the label, and none was under  *)
(* way in one caller while another caller's added a node.                  *)
MergedBy(l, keys) ==
  /\ l \notin met
  /\ \A f \in AllFields :
       CASE f.op = "merge" -> f.label = l => Plain(f) /\ f.items # <<>> /\ KeysOf(f, "match") = keys
         [] f.op = "connect" -> TRUE
         [] OTHER -> FALSE
  /\ UniqueBy(origin.nodes, l, keys)

(* Callers that merge on the same keys, in whatever chunks and in whatever *)
(* order their statements run, failed ones run again and replies lost,     *)
(* never leave two nodes with one key, as long as no statement adds a node *)
(* while another caller's merge of the type is under way.  (Where one      *)
(* does, both may: the program has no constraint made that forbids it.)    *)
MergedOnce ==
  \A l \in Labels, keys \in SUBSET Props : MergedBy(l, keys) => UniqueBy(nodes, l, keys)

(* Connecting again, in another chunk, request or retry, or by a nested    *)
(* connect, never puts a second edge beside the first (README: safe to     *)
(* call multiple times without creating duplicate relationships).          *)
ConnectedOnce ==
  (\A e \in DOMAIN origin.edges : e.copy = 1) => \A e \in DOMAIN edges : e.copy = 1

(* No other caller has run anything, and nothing was sent twice. *)
Alone(c) == ~twice[c] /\ \A d \in Callers \ {c} : status[d] = "idle"

(* The items of f with the same keys as item i, the nodes that had those   *)
(* keys, the items that set property p of such a node, and what the last   *)
(* of all these leaves in it.                                              *)
Same(f, i) ==
  {j \in DOMAIN f.items : \A k \in DOMAIN f.items[i].match : f.items[j].match[k] = f.items[i].match[k]}

Olds(f, i) ==
  {n \in DOMAIN origin.nodes :
     /\ origin.nodes[n].label = f.label
     /\ \A k \in DOMAIN f.items[i].match : origin.nodes[n].props[k] = f.items[i].match[k]}

Sets(f, i, p) ==
  {j \in Same(f, i) : (Olds(f, i) # {} \/ j # Min(Same(f, i))) /\ Given(f.items[j].onMatch, p) # Null}

Upserted(f, i, p) ==
  IF Sets(f, i, p) # {} THEN f.items[Max(Sets(f, i, p))].onMatch[p]
  ELSE IF Olds(f, i) # {} THEN origin.nodes[CHOOSE n \in Olds(f, i) : TRUE].props[p]
  ELSE Given(f.items[Min(Same(f, i))].onCreate, p)

(* When a request that merges is done, one node has each item's keys, and  *)
(* its other properties are those of an upsert item after item: onCreate   *)
(* of the first where the node is new, then onMatch of the later ones,     *)
(* wherever the chunks were cut and whatever statements failed and ran     *)
(* again.  (One that ran twice, because its reply was lost or the read     *)
(* after it failed, meets its own nodes and applies onMatch; so does the   *)
(* second of two merges of one type.)                                      *)
MergeIsUpsert ==
  \A c \in Callers : status[c] = "done" /\ Alone(c) =>
    \A y \in DOMAIN request[c] :
      LET f == request[c][y] IN
      f.op = "merge" /\ MergedBy(f.label, KeysOf(f, "match"))
        /\ (\A z \in DOMAIN request[c] : request[c][z].op = "merge" /\ request[c][z].label = f.label => z = y) =>
        \A i \in DOMAIN f.items :
          LET found == {n \in Labelled(f.label) : Equals(n, f.items[i].match)}
          IN  /\ Cardinality(found) = 1
              /\ \A n \in found, p \in Props \ DOMAIN f.items[i].match :
                   nodes[n].props[p] = Upserted(f, i, p)

(* The answers of the chunks hold each item of a create once, and each     *)
(* item of a merge, though its nodes are read back in a statement of their *)
(* own, with other callers' statements in between (merges of the type that *)
(* add a node while it merges excepted); a connect's number is its items.  *)
EveryItemAnswered ==
  \A c \in Callers : status[c] = "done" =>
    \A i \in DOMAIN request[c] :
      LET f == request[c][i] IN
      \/ f.op \in {"update", "delete"}
      \/ f.op # "merge" /\ \E g \in AllFields : g.op = "delete"
      \/ f.op = "merge" /\ ~MergedBy(f.label, KeysOf(f, "match"))
      \/ answered[c][i] = Len(f.items)

Position(i) == CeilDiv(i, BatchSize)

(* The nodes the request's merges have seen to by the chunk of item i. *)
Reached(req, i) ==
  {n \in DOMAIN nodes :
     \/ n \in DOMAIN origin.nodes
     \/ \E g \in Writes(req) : \E j \in DOMAIN req[g].items :
          /\ req[g].op = "merge" /\ req[g].label = nodes[n].label
          /\ Position(j) <= Position(i)
          /\ Equals(n, req[g].items[j].match)}

(* The relationship field of the schema that a connect is for. *)
Connected(f) ==
  Relationships[CHOOSE i \in DOMAIN Relationships :
    Relationships[i].from = f.label /\ Relationships[i].field = f.field]

(* All merges of a type are on the same keys, and none sets one of these   *)
(* properties on a node that is there.                                     *)
Settled(req, l, props) ==
  \A g, h \in {y \in DOMAIN req : req[y].op = "merge" /\ req[y].label = l} :
    \A i \in DOMAIN req[g].items, j \in DOMAIN req[h].items :
      /\ DOMAIN req[g].items[i].match = DOMAIN req[h].items[j].match
      /\ DOMAIN req[g].items[i].onMatch \cap props = {}

(* A connect, number x of a mutation that merges before it, and looks      *)
(* nodes up by properties that stay as the merges made them.               *)
Follows(req, x) ==
  /\ req[x].op = "connect"
  /\ \A y \in DOMAIN req : (req[y].op = "merge" /\ Plain(req[y]) /\ y < x) \/ req[y].op = "connect"
  /\ Settled(req, Connected(req[x]).from, KeysOf(req[x], "from"))
  /\ Settled(req, Connected(req[x]).to, KeysOf(req[x], "to"))

(* A connect after the merges of one mutation finds what they made: its    *)
(* item i joins all nodes with its keys that were there before or were     *)
(* merged in the same chunk or an earlier one.  What a later chunk merges  *)
(* or sets, it does not see.                                               *)
ConnectFollowsMerge ==
  \A c \in Callers : status[c] = "done" /\ Alone(c) =>
    LET req == request[c] IN
    \A x \in DOMAIN req : Follows(req, x) =>
      LET f   == req[x]
          rel == Connected(f)
      IN  \A i \in DOMAIN f.items :
            \A m \in Labelled(rel.from) \cap Reached(req, i), n \in Labelled(rel.to) \cap Reached(req, i) :
              Equals(m, Wanted(KeysOf(f, "from"), f.items[i].from))
                /\ Equals(n, Wanted(KeysOf(f, "to"), f.items[i].to))
                => Copies(BuildRelPattern(rel, m, n)) # {}
-----------------------------------------------------------------------------
(* What a where argument means, written in the request or given as a       *)
(* variable: the nodes for which it is true and those for which it is      *)
(* false, by set algebra.                                                  *)
Means[w \in Wheres] ==
  LET all == DOMAIN nodes
      Every(sets) == {n \in all : \A s \in sets : n \in s}
      Meaning(x) ==
        LET inner == {Means[v] : v \in Inner(x)}
            yes   == {v.yes : v \in inner}
            no    == {v.no : v \in inner}
        IN CASE x.tag = "is"  -> [yes |-> {n \in all : Compare(x, nodes[n].props[x.prop]) = "yes"},
                                  no  |-> {n \in all : Compare(x, nodes[n].props[x.prop]) = "no"}]
             [] x.tag = "NOT" -> [yes |-> UNION no, no |-> UNION yes]
             [] x.tag = "AND" -> [yes |-> Every(yes), no |-> UNION no]
             [] x.tag = "OR"  -> [yes |-> UNION yes, no |-> Every(no)]
             [] x.tag = "some" ->
                  LET has == {n \in all : \E i \in DOMAIN Relationships :
                                /\ Relationships[i].from = nodes[n].label
                                /\ Relationships[i].field = x.field
                                /\ Related(Relationships[i], n) \cap UNION yes # {}}
                  IN  [yes |-> has, no |-> all \ has]
      parts == {Meaning(w.parts[i]) : i \in DOMAIN w.parts}
  IN  [yes |-> Every({m.yes : m \in parts}), no |-> UNION {m.no : m \in parts}]

(* Written out in the request, with no AND, OR or NOT of nothing. *)
Full[w \in Wheres] ==
  /\ w.written
  /\ \A i \in DOMAIN w.parts :
       /\ w.parts[i].tag \in {"AND", "OR"} => w.parts[i].wheres # <<>>
       /\ \A v \in Inner(w.parts[i]) : Full[v] /\ (v.parts # <<>> \/ w.parts[i].tag = "some")

(* However AND, OR, NOT and relationship filters are nested in a filter,   *)
(* and whatever is missing on a node, the clause written for it selects    *)
(* the nodes of a type it is for that it is true of, in every graph        *)
(* between statements.                                                     *)
FiltersSelectMeaning ==
  active = Nobody =>
  \A w \in {v \in Wheres : Full[v]} :
    /\ Text[w] # "broken"
    /\ LET meant == Means[w].yes
       IN  \A l \in Applies[w] : Matching(l, w) = meant \cap Labelled(l)

(* The nodes a nested operation is about. *)
NestedMeans(op, rel, n) ==
  {m \in Related(rel, n) : \E k \in DOMAIN op.items : Equals(m, Part(op.items[k], "where"))}

(* The nodes the block under way may change or remove. *)
Addressed ==
  IF field > Len(request[active]) \/ Current.op \notin {"update", "delete", "create"} THEN {}
  ELSE IF ~open THEN IF Current.op = "create" THEN {}
                     ELSE Means[Current.where].yes \cap Labelled(Current.label)
  ELSE UNION {NestedMeans(NestedOp(Current, b[1]), Relationship(b[1]), b[2]) :
                b \in {t \in todo : Relationship(t[1]).from = Current.label}}

(* An update or a delete changes and removes only nodes that its where     *)
(* argument, as the caller wrote it, is true of when its block runs; its   *)
(* nested operations only nodes that are related to one of those as the    *)
(* field says, and that their own where is true of.                        *)
OnlyMatchingChange ==
  [][active # Nobody /\ reading /\ active' # Nobody /\ field' = field =>
       /\ \A n \in DOMAIN nodes \ Addressed : n \in DOMAIN nodes' /\ nodes'[n] = nodes[n]
       /\ \A e \in DOMAIN edges :
            \/ {e.from, e.to} \cap Addressed # {}
            \/ e \in DOMAIN edges' /\ edges'[e] = edges[e]]_vars

=============================================================================
