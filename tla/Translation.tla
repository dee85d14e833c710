------------------------------ MODULE Translation ------------------------------
(***************************************************************************)
(* Translator.Translate: the walk over a GraphQL operation that writes one *)
(* Cypher query.  What the modules' properties tell apart are names: the   *)
(* parameters of a paramScope, the variable of each pattern, and the alias *)
(* under which each nested CALL block hands its value to the projection    *)
(* around it.  The text between them is left out.                          *)
(*                                                                         *)
(* The request is not built beforehand: each action is the translator's    *)
(* meeting the next field, with whatever arguments it may have.  A         *)
(* selection set that buildProjection is working on is a frame on stack;   *)
(* leaving it is the return of the call, which closes the CALL block.      *)
(***************************************************************************)
EXTENDS Naturals, Sequences

CONSTANTS
  Types,         \* node types of the schema, by their plural names
  Values,        \* argument values
  Exists,        \* in a where: a relationship filter, EXISTS { MATCH ... }
  Wheres,        \* where arguments: their predicates and filters, in order
  Inputs,        \* values the nested and update parts of an input register
  Pages,         \* [first, offset] of a connection, after parsePagination
  Searches,      \* index name, first and vector of a similarity search
  CypherCalls,   \* arguments of a @cypher field: functions from names to values
  MaxRoots,      \* bound on the root fields of a request
  MaxSelections  \* bound on all its fields

ASSUME TranslationAssumption ==
  /\ Exists \notin Values
  /\ Wheres \subseteq Seq(Values \cup {Exists})
  /\ Inputs \subseteq Seq(Values)
  /\ Searches \subseteq Seq(Values)
  /\ \A page \in Pages : page.first \in Nat /\ page.offset \in Nat
  /\ \A call \in CypherCalls : \A n \in DOMAIN call : n[1] = "arg"
  /\ MaxRoots \in Nat /\ MaxSelections \in Nat

VARIABLES
  op,            \* the operation: query or mutation
  phase,         \* walk, done, or failed (Translate returned an error)
  next,          \* paramScope.next
  params,        \* paramScope.params
  stack,         \* frames of the buildProjection calls under way
  top,           \* aliases of the root fields so far
  \* history
  selections,    \* number of fields met
  placed,        \* the placeholders written into the text, with their values
  dangling       \* aliases used where no CALL block binds them

vars == <<op, phase, next, params, stack, top, selections, placed, dangling>>
scopeVars == <<next, params, placed>>
-----------------------------------------------------------------------------
(* paramScope.  A name is a pair: <<"p", 3>> for p3, <<"offset", t>> for   *)
(* <t>Connection_offset, <<"conn_offset", 1>> for conn1_offset.            *)
Numbered(k) == <<"p", k>>

NoParams == [n \in {} |-> n]

With(new, old) ==
  [n \in DOMAIN new \cup DOMAIN old |-> IF n \in DOMAIN new THEN new[n] ELSE old[n]]

(* add, once for each value; a relationship filter takes a number for its  *)
(* variable rel<k> and registers nothing.                                  *)
NumberedParams(tokens) ==
  [n \in {Numbered(next + i - 1) : i \in {j \in DOMAIN tokens : tokens[j] # Exists}}
     |-> tokens[n[2] + 1 - next]]

(* add for the tokens and addNamed for the named values: an entry of the   *)
(* map is overwritten without notice.                                      *)
Register(tokens, named) ==
  LET new == With(named, NumberedParams(tokens)) IN
  /\ next' = next + Len(tokens)
  /\ params' = With(new, params)
  /\ placed' = placed \cup {[name |-> n, value |-> new[n]] : n \in DOMAIN new}

PageParams(offset, first, owner, page) ==
  [n \in {<<offset, owner>>, <<first, owner>>} |-> IF n[1] = offset THEN page.offset ELSE page.first]

(* Altered: one name for the pages of all root connections. *)
RootPage_Unscoped(t, page) == PageParams("offset", "first", "root", page)

RootPage(t, page) == PageParams("offset", "first", t, page)
NestedPage(depth, page) == PageParams("conn_offset", "conn_first", depth, page)
-----------------------------------------------------------------------------
(* A call of buildProjection: the variable it projects, the fieldContext's *)
(* depth as it stands, the aliases its CALL blocks bind and those its      *)
(* projection uses.  kind and sorted say what its caller does with the     *)
(* blocks.  Variables are numbered: n is 0, childVariable(d) is d + 1.     *)
Frame(kind, alias, sorted, var, depth) ==
  [kind |-> kind, alias |-> alias, sorted |-> sorted, var |-> var, depth |-> depth,
   bound |-> <<>>, used |-> {}]

Root(kind, alias, sorted) == Frame(kind, alias, sorted, 0, 0)

(* Altered: the alias is numbered after the depth has moved on. *)
Child_AliasAhead(kind, label, sorted, parent) ==
  Frame(kind, <<label, parent.depth + 1>>, sorted, parent.depth + 1, parent.depth + 1)

(* Altered: the nested selection set starts at its parent's depth. *)
Child_SameDepth(kind, label, sorted, parent) ==
  Frame(kind, <<label, parent.depth>>, sorted, parent.depth + 1, parent.depth)

Child(kind, label, sorted, parent) ==
  Frame(kind, <<label, parent.depth>>, sorted, parent.depth + 1, parent.depth + 1)

(* Altered: the depth stays. *)
Bind_SameDepth(frame, alias) ==
  [frame EXCEPT !.bound = Append(@, alias), !.used = @ \cup {alias}]

(* After a nested field: its block is one of the frame's subqueries, its   *)
(* alias is in the projection, and the depth has moved on.                 *)
Bind(frame, alias) ==
  [frame EXCEPT !.bound = Append(@, alias), !.used = @ \cup {alias}, !.depth = @ + 1]

(* What the projection can see of the blocks when it is returned.  Edges,  *)
(* nodes of connections and of similarity searches drop the blocks         *)
(* (proj, _, err); WITH var ORDER BY between the blocks and RETURN drops   *)
(* all names but var.                                                      *)
KeepsBlocks_NotAnswers == {"list", "sub"}  \* Altered: mutations drop the blocks.

KeepsBlocks == {"list", "answer", "sub"}

Visible(frame) ==
  IF frame.kind \in KeepsBlocks /\ ~frame.sorted
    THEN {frame.bound[i] : i \in DOMAIN frame.bound} ELSE {}

Dangling(frame) ==
  {[kind |-> frame.kind, sorted |-> frame.sorted, alias |-> a] : a \in frame.used \ Visible(frame)}

Top == stack[Len(stack)]
Below == SubSeq(stack, 1, Len(stack) - 1)
-----------------------------------------------------------------------------
Init ==
  /\ op \in {"query", "mutation"}
  /\ phase = "walk"
  /\ next = 0
  /\ params = NoParams
  /\ stack = <<>>
  /\ top = <<>>
  /\ selections = 0
  /\ placed = {}
  /\ dangling = {}

Select ==
  /\ phase = "walk"
  /\ selections < MaxSelections
  /\ selections' = selections + 1
  /\ UNCHANGED <<op, phase>>

(* A root field, and the selection set it descends into, if any. *)
RootField(operation, alias, frames) ==
  /\ Select
  /\ op = operation
  /\ stack = <<>>
  /\ Len(top) < MaxRoots
  /\ top' = Append(top, alias)
  /\ stack' = frames
  /\ UNCHANGED dangling

(* translateRootField: a plural name. *)
RootList(t, where, sorted) ==
  /\ RootField("query", <<"list", t>>, <<Root("list", <<"list", t>>, sorted)>>)
  /\ Register(where, NoParams)

(* translateConnectionField; node: edges { node { ... } } is selected.     *)
RootConnection(t, where, page, node) ==
  /\ RootField("query", <<"connection", t>>,
       IF node THEN <<Root("nodes", <<"connection", t>>, TRUE)>> ELSE <<>>)
  /\ Register(where, RootPage(t, page))

(* translateSimilarField registers the index name, first and the vector.   *)
RootSimilar(t, search, node) ==
  /\ RootField("query", <<"similar", t>>,
       IF node THEN <<Root("similar", <<"similar", t>>, FALSE)>> ELSE <<>>)
  /\ Register(search, NoParams)

(* appendProjectionReturn; the response may select no nodes. *)
Answer(operation, t, nodes) ==
  RootField("mutation", <<operation, t>>,
    IF nodes THEN <<Root("answer", <<operation, t>>, FALSE)>> ELSE <<>>)

(* translateCreateField: the input as a whole, then each value of the      *)
(* nested create and connect parts.                                        *)
Create(t, input, nested, nodes) ==
  /\ Answer("create", t, nodes)
  /\ Register(<<input>> \o nested, NoParams)

(* translateUpdateField: the where, then the fields to set and the values  *)
(* of the nested parts.                                                    *)
Update(t, where, sets, nodes) ==
  /\ Answer("update", t, nodes)
  /\ Register(where \o sets, NoParams)

Delete(t, where) ==
  /\ Answer("delete", t, FALSE)
  /\ Register(where, NoParams)

(* translateMergeFieldSplit: write statement and read block use the one    *)
(* input parameter.                                                        *)
Merge(t, input, nodes) ==
  /\ Answer("merge", t, nodes)
  /\ Register(<<input>>, NoParams)

(* translateConnectFieldSplit; the alias is the relationship's, which its  *)
(* source type stands for.                                                 *)
Connect(t, input) ==
  /\ Answer("connect", t, FALSE)
  /\ Register(<<input>>, NoParams)

(* The end of a root field's selection set closes its block.               *)
LeaveRoot ==
  /\ phase = "walk"
  /\ Len(stack) = 1
  /\ stack' = <<>>
  /\ dangling' = dangling \cup Dangling(Top)
  /\ UNCHANGED <<op, phase, top, selections, scopeVars>>

(* An unknown type or operation, a similarity search on a type without     *)
(* vectors, a mutation without input: nothing of the translation is used.  *)
Reject ==
  /\ phase = "walk"
  /\ stack = <<>>
  /\ phase' = "failed"
  /\ UNCHANGED <<op, stack, top, selections, dangling, scopeVars>>

(* RETURN {field: alias, ...} AS data; params becomes the statement's.     *)
Finish ==
  /\ phase = "walk"
  /\ stack = <<>>
  /\ phase' = "done"
  /\ UNCHANGED <<op, stack, top, selections, dangling, scopeVars>>
-----------------------------------------------------------------------------
(* The fields of a selection set, in buildProjection.  A scalar field      *)
(* touches no name and is left out.                                        *)
InSelectionSet ==
  /\ Select
  /\ stack # <<>>
  /\ UNCHANGED <<top, dangling>>

(* buildCypherSubquery, called with the depth already moved on.  Its block *)
(* ends with the statement of the schema, which does not know the alias.   *)
SelectCypher(args) ==
  /\ InSelectionSet
  /\ stack' = Append(Below, [Top EXCEPT !.depth = @ + 1, !.used = @ \cup {<<"cypher", Top.depth + 1>>}])
  /\ Register(<<>>, args)

(* buildSubquery *)
SelectSub(where, sorted) ==
  /\ InSelectionSet
  /\ stack' = Append(stack, Child("sub", "sub", sorted, Top))
  /\ Register(where, NoParams)

(* buildConnectionSubquery *)
SelectConnection(where, page, node) ==
  /\ InSelectionSet
  /\ stack' = IF node THEN Append(stack, Child("edges", "conn", TRUE, Top))
                      ELSE Append(Below, Bind(Top, <<"conn", Top.depth>>))
  /\ Register(where, NestedPage(Top.depth, page))

LeaveNested ==
  /\ phase = "walk"
  /\ Len(stack) > 1
  /\ stack' = [Below EXCEPT ![Len(Below)] = Bind(@, Top.alias)]
  /\ dangling' = dangling \cup Dangling(Top)
  /\ UNCHANGED <<op, phase, top, selections, scopeVars>>
-----------------------------------------------------------------------------
QueryField ==
  \E t \in Types :
    \/ \E where \in Wheres, sorted \in BOOLEAN : RootList(t, where, sorted)
    \/ \E where \in Wheres, page \in Pages, node \in BOOLEAN : RootConnection(t, where, page, node)
    \/ \E search \in Searches, node \in BOOLEAN : RootSimilar(t, search, node)

MutationField ==
  \E t \in Types :
    \/ \E input \in Values, nested \in Inputs, nodes \in BOOLEAN : Create(t, input, nested, nodes)
    \/ \E where \in Wheres, sets \in Inputs, nodes \in BOOLEAN : Update(t, where, sets, nodes)
    \/ \E where \in Wheres : Delete(t, where)
    \/ \E input \in Values, nodes \in BOOLEAN : Merge(t, input, nodes)
    \/ \E input \in Values : Connect(t, input)

NestedField ==
  \/ \E args \in CypherCalls : SelectCypher(args)
  \/ \E where \in Wheres, sorted \in BOOLEAN : SelectSub(where, sorted)
  \/ \E where \in Wheres, page \in Pages, node \in BOOLEAN : SelectConnection(where, page, node)

Next ==
  \/ QueryField
  \/ MutationField
  \/ NestedField
  \/ LeaveRoot
  \/ LeaveNested
  \/ Reject
  \/ Finish

Spec == Init /\ [][Next]_vars
-----------------------------------------------------------------------------
(* Properties *)

BlockAliases == {"sub", "conn"} \X Nat

RootKinds == {"list", "connection", "similar", "create", "update", "delete", "merge", "connect"}

Frames ==
  [kind : {"list", "nodes", "similar", "answer", "sub", "edges"},
   alias : (RootKinds \X Types) \cup BlockAliases, sorted : BOOLEAN, var : Nat, depth : Nat,
   bound : Seq(BlockAliases), used : SUBSET (BlockAliases \cup ({"cypher"} \X Nat))]

(* Numbers, names and frames have their types, and a selection set below   *)
(* another will hand its value over under the number its parent stands at. *)
TypeOK ==
  /\ op \in {"query", "mutation"} /\ phase \in {"walk", "done", "failed"}
  /\ next \in Nat /\ selections \in 0..MaxSelections
  /\ top \in Seq(RootKinds \X Types)
  /\ stack \in Seq(Frames)
  /\ \A i \in DOMAIN stack : i > 1 =>
       stack[i].alias \in BlockAliases /\ stack[i].alias[2] = stack[i - 1].depth

(* The root field of that type is selected at most once; a repetition,     *)
(* which GraphQL allows under two aliases, is another matter: then the     *)
(* block's own alias is declared twice as well.                            *)
SelectedOnce(alias) ==
  \A i, j \in DOMAIN top : top[i] = alias /\ top[j] = alias => i = j

(* Every placeholder has a parameter (params.go:38-51).  Those of filters, *)
(* inputs and similarity searches, and the page of each root connection,   *)
(* which query.go scopes by the field's name, keep the value they were     *)
(* written for until the end, whatever else the request asks for.          *)
ParametersKept ==
  \A p \in placed :
    /\ p.name \in DOMAIN params
    /\ \/ p.name[1] = "p"
       \/ p.name[1] \in {"offset", "first"} /\ SelectedOnce(<<"connection", p.name[2]>>)
       => params[p.name] = p.value

(* params.go:8-9: parameters are globally unique across the entire query   *)
(* via namespacing.  (The case that SelectedOnce sets apart is left out.)  *)
ParametersUnique ==
  (\A i \in DOMAIN top : SelectedOnce(top[i])) =>
    \A p, q \in placed : p.name = q.name => p.value = q.value

(* childVariable (subquery.go:14-20): the variables of the selection sets  *)
(* that enclose a field are pairwise different, so that MATCH (a)-->(b)    *)
(* never names one node twice.                                             *)
VariablesDistinct ==
  \A i, j \in DOMAIN stack : i # j => stack[i].var # stack[j].var

(* translator.go:101-102: depth tracks nesting for unique subquery aliases. *)
(* No two blocks of a selection set bind one alias, and the block still    *)
(* open will not bind one that is taken.                                   *)
AliasesDistinct ==
  \A i \in DOMAIN stack :
    LET bound == stack[i].bound IN
    /\ \A j, k \in DOMAIN bound : j # k => bound[j] # bound[k]
    /\ i < Len(stack) => \A j \in DOMAIN bound : bound[j] # stack[i + 1].alias

(* Outside connections, similarity searches, sorted lists and @cypher      *)
(* fields, a projection uses no alias that the blocks before it leave      *)
(* unbound.                                                                *)
PlainProjectionsBound ==
  \A d \in dangling : d.sorted \/ d.kind \in {"nodes", "similar", "edges"} \/ d.alias[1] = "cypher"
=============================================================================
