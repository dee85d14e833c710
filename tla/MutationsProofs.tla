----------------------------- MODULE MutationsProofs -----------------------------
(***************************************************************************)
(* What mutations leave in the graph and in their answers, for any schema, *)
(* graph, mutations, filters, batch size and number of callers and retries.*)
(***************************************************************************)
EXTENDS Mutations, ChunkingProofs
-----------------------------------------------------------------------------
(* Only the start and the end of a statement change what callers see.      *)
LEMMA BlocksLeaveCalls ==
  ASSUME Merge \/ Connect \/ ReadMerged \/ CountConnected \/ Create \/ Update \/ Delete
           \/ NestedStep \/ Collect \/ NextBlock \/ UNCHANGED vars
  PROVE  UNCHANGED <<callVars, active, reading>>
<1>1. CASE Merge \/ Connect \/ Collect \/ NextBlock \/ UNCHANGED vars
  BY <1>1 DEF Merge, Connect, Collect, NextBlock, Return, vars, stmtVars
<1>2. CASE ReadMerged \/ CountConnected \/ Create \/ Update \/ Delete
  BY <1>2 DEF ReadMerged, CountConnected, Create, Update, Delete, Return, Open, stmtVars
<1>3. CASE NestedStep
  BY <1>3 DEF NestedStep, NestedCreate, NestedConnect, NestedDisconnect, NestedUpdate, NestedDelete,
              AtNested, stmtVars
<1> QED BY <1>1, <1>2, <1>3

(* The history of the graph at the start stays. *)
LEMMA OriginStays ==
  ASSUME [Next]_vars
  PROVE  origin' = origin
<1>1. CASE \E c \in Callers : \/ \E req \in Requests : Execute(c, req)
                              \/ BeginWrite(c) \/ BeginRead(c) \/ ReadRefused(c) \/ Resume(c)
  BY <1>1 DEF Execute, BeginWrite, BeginRead, Begin, ReadRefused, Resume, callVars
<1>2. CASE \/ Merge \/ Connect \/ ReadMerged \/ CountConnected \/ Create \/ Update \/ Delete
           \/ NestedStep \/ Collect \/ NextBlock \/ UNCHANGED vars
  BY <1>2, BlocksLeaveCalls DEF callVars
<1>3. CASE EndWrite \/ EndRead \/ Fail \/ ReplyLost
  BY <1>3 DEF EndWrite, EndRead, Fail, ReplyLost, Release
<1> QED BY <1>1, <1>2, <1>3 DEF Next, DatabaseStep

-----------------------------------------------------------------------------
(* Edges. *)

Single(es) == \A e \in DOMAIN es : e.copy = 1

(* The graph a failed statement goes back to has no double edge either.    *)
EdgesInv == Single(origin.edges) => Single(edges) /\ Single(before.edges)

(* MERGE adds only first edges. *)
LEMMA MergeKeepsSingle ==
  ASSUME NEW patterns, NEW map, \A p \in patterns : p.copy = 1, Single(edges)
  PROVE  Single(MergeEdges(patterns, map))
BY DEF MergeEdges, Single

LEMMA PatternIsFirst ==
  ASSUME NEW rel, NEW m, NEW n
  PROVE  BuildRelPattern(rel, m, n).copy = 1
BY DEF BuildRelPattern

(* Whatever a step does to the edges, it adds none beside another.         *)
LEMMA EdgesStep ==
  ASSUME EdgesInv, [Next]_vars
  PROVE  EdgesInv'
<1> SUFFICES ASSUME Single(origin.edges), Single(edges), Single(before.edges), origin' = origin
             PROVE  Single(edges') /\ Single(before'.edges)
  <2>1. origin' = origin
    BY OriginStays
  <2> QED BY <2>1 DEF EdgesInv, Single
<1> DEFINE none == [nodes |-> <<>>, edges |-> <<>>, fresh |-> 0]
<1>1. Single(none.edges)
  BY DEF Single
<1>2. CASE UNCHANGED edges /\ (before' = before \/ before'.edges = edges \/ before' = none)
  BY <1>1, <1>2
<1>3. CASE \E c \in Callers : \/ \E req \in Requests : Execute(c, req)
                              \/ BeginWrite(c) \/ BeginRead(c) \/ ReadRefused(c) \/ Resume(c)
  BY <1>2, <1>3 DEF Execute, BeginWrite, BeginRead, Begin, ReadRefused, Resume, stmtVars, graphVars
<1>4. CASE Merge \/ ReadMerged \/ CountConnected \/ Create \/ Update \/ Collect \/ NextBlock
           \/ EndWrite \/ EndRead \/ ReplyLost \/ UNCHANGED vars
  BY <1>2, <1>4 DEF Merge, ReadMerged, CountConnected, Create, Update, Collect, NextBlock, EndWrite,
                    EndRead, ReplyLost, Release, Finished, Return, Open, vars, stmtVars, graphVars
<1>5. CASE Fail
  BY <1>1, <1>5 DEF Fail, Finished
<1>6. CASE Connect
  BY <1>6, MergeKeepsSingle, PatternIsFirst DEF Connect, RowPatterns
<1>7. CASE Delete
  BY <1>7 DEF Delete, DetachDelete, Return, stmtVars, Single
<1>8. CASE NestedStep
  <2> PICK at, n : \/ NestedCreate(at, n) \/ NestedConnect(at, n) \/ NestedDisconnect(at, n)
                   \/ NestedUpdate(at, n) \/ NestedDelete(at, n)
    BY <1>8 DEF NestedStep
  <2>1. before' = before
    BY DEF NestedCreate, NestedConnect, NestedDisconnect, NestedUpdate, NestedDelete, AtNested, stmtVars
  <2>2. CASE NestedCreate(at, n)
    <3>1. DOMAIN edges' = DOMAIN edges \cup {BuildRelPattern(Relationship(at), n, fresh + 1)}
      BY <2>2 DEF NestedCreate
    <3>2. \A e \in DOMAIN edges' : e.copy = 1
      BY <3>1, PatternIsFirst DEF Single
    <3> QED BY <2>1, <3>2 DEF Single
  <2>3. CASE NestedConnect(at, n)
    BY <2>1, <2>3, MergeKeepsSingle, PatternIsFirst DEF NestedConnect
  <2>4. CASE NestedDisconnect(at, n) \/ NestedDelete(at, n) \/ NestedUpdate(at, n)
    BY <2>1, <2>4 DEF NestedDisconnect, NestedDelete, NestedUpdate, DetachDelete, Single
  <2> QED BY <2>2, <2>3, <2>4
<1> QED BY <1>3, <1>4, <1>5, <1>6, <1>7, <1>8 DEF Next, DatabaseStep

(* Connecting again, by MERGE statements or nested connects, in any chunk, *)
(* request or retry, never puts a second edge beside one: merge.go,        *)
(* translateConnectFieldSplit; mutation_nested.go, buildNestedConnect.     *)
THEOREM ConnectsOnce == Spec => []ConnectedOnce
<1>1. Init => EdgesInv
  BY DEF Init, NoStatement, EdgesInv, Single
<1>2. EdgesInv /\ [Next]_vars => EdgesInv'
  BY EdgesStep
<1>3. EdgesInv => ConnectedOnce
  BY DEF EdgesInv, Single, ConnectedOnce
<1> QED BY <1>1, <1>2, <1>3, PTL DEF Spec
-----------------------------------------------------------------------------
(* Callers and the statement under way. *)

(* An idle caller has no request yet; the others have one of the mutations.*)
(* The statement the database runs is that of a caller who waits for it,   *)
(* at one of its fields; where n is bound the field is a create or update. *)
CallersInv ==
  /\ request \in [Callers -> Requests \cup {<<>>}]
  /\ status \in [Callers -> {"idle", "running", "failed", "done"}]
  /\ \A c \in Callers : status[c] = "idle" => request[c] = <<>>
  /\ due \in [Callers -> SUBSET Nat]
  /\ \A c \in Callers : due[c] \subseteq Writes(request[c])
  /\ chunk \in [Callers -> Nat \ {0}]

StatementInv ==
  /\ active \in Callers \cup {Nobody}
  /\ active # Nobody => status[active] = "running" /\ field \in Nat \ {0}
  /\ active # Nobody /\ ~reading => field \in Writes(request[active])
  /\ active # Nobody /\ ~reading => row \in Nat
  /\ open => /\ active # Nobody /\ reading /\ left > 0
             /\ field \in DOMAIN request[active] /\ Current.op \in {"create", "update"}

LEMMA RequestShape ==
  ASSUME NEW req \in Requests \cup {<<>>}
  PROVE  /\ DOMAIN req = 1..Len(req) /\ Len(req) \in Nat
         /\ Writes(req) \subseteq DOMAIN req /\ Writes(req) \in SUBSET Nat
<1>1. CASE req \in Requests
  <2>1. req \in Seq(Range(req))
    BY <1>1, MutationsAssumption
  <2> QED BY <2>1 DEF Writes
<1>2. CASE req = <<>>
  BY <1>2 DEF Writes
<1> QED BY <1>1, <1>2

LEMMA ListOfField ==
  ASSUME NEW f, IsField(f)
  PROVE  Items(f) \in Seq(Range(Items(f)))
<1>1. CASE f.op \in {"merge", "connect", "create"}
  BY <1>1 DEF IsField, IsList, Items
<1>2. CASE f.op \notin {"merge", "connect", "create"}
  <2>1. Items(f) = <<>>
    BY <1>2 DEF Items
  <2> QED BY <2>1
<1> QED BY <1>1, <1>2

(* What validation says of a field of a request. *)
LEMMA FieldShape ==
  ASSUME CallersInv, NEW c \in Callers, NEW i \in DOMAIN request[c]
  PROVE  IsField(request[c][i]) /\ Items(request[c][i]) \in Seq(Range(Items(request[c][i])))
<1>1. request[c] \in Requests
  <2>1. request[c] # <<>>
    OBVIOUS
  <2> QED BY <2>1 DEF CallersInv
<1>2. IsField(request[c][i])
  BY <1>1, MutationsAssumption
<1> QED BY <1>2, ListOfField

LEMMA SliceFrom ==
  ASSUME NEW S, NEW list \in Seq(S), NEW i \in Nat \ {0}, NEW size \in Nat \ {0}
  PROVE  /\ SliceAt(list, i, size) \in Seq(S)
         /\ \A j \in 1..Len(SliceAt(list, i, size)) : \E k \in DOMAIN list : SliceAt(list, i, size)[j] = list[k]
<1>1. /\ SliceAt(list, i, size) \in Seq(S)
      /\ \A j \in 1..Len(SliceAt(list, i, size)) :
           /\ (i - 1) * size + j \in 1..Len(list)
           /\ SliceAt(list, i, size)[j] = list[(i - 1) * size + j]
  BY SliceElements
<1>2. DOMAIN list = 1..Len(list)
  OBVIOUS
<1> QED BY <1>1, <1>2

(* The rows of a field in a chunk are items of it, in their order. *)
LEMMA SliceShape ==
  ASSUME CallersInv, NEW c \in Callers, NEW i \in DOMAIN request[c]
  PROVE  /\ Slice(c, i) \in Seq(Range(Items(request[c][i])))
         /\ Len(Slice(c, i)) \in Nat
         /\ \A j \in 1..Len(Slice(c, i)) :
              \E k \in DOMAIN Items(request[c][i]) : Slice(c, i)[j] = Items(request[c][i])[k]
<1>1. PICK list : list = Items(request[c][i])
  OBVIOUS
<1>2. PICK S : S = Range(list)
  OBVIOUS
<1>3. list \in Seq(S)
  BY <1>1, <1>2, FieldShape
<1>4. PICK at \in Nat \ {0} : at = chunk[c]
  BY DEF CallersInv
<1>5. PICK size \in Nat \ {0} : size = BatchSize
  BY MutationsAssumption
<1>6. Slice(c, i) = SliceAt(list, at, size)
  BY <1>1, <1>4, <1>5 DEF Slice
<1>7. /\ SliceAt(list, at, size) \in Seq(S)
      /\ \A j \in 1..Len(SliceAt(list, at, size)) : \E k \in DOMAIN list : SliceAt(list, at, size)[j] = list[k]
  BY <1>3, SliceFrom, SMTT(40)
<1>8. PICK slice : slice = SliceAt(list, at, size)
  OBVIOUS
<1>9. slice \in Seq(S) /\ \A j \in 1..Len(slice) : \E k \in DOMAIN list : slice[j] = list[k]
  BY <1>7, <1>8, Zenon
<1> QED BY <1>1, <1>2, <1>6, <1>8, <1>9

LEMMA CallersStep ==
  ASSUME CallersInv, StatementInv, [Next]_vars
  PROVE  CallersInv'
<1> USE DEF CallersInv
<1>1. CASE \E c \in Callers, req \in Requests : Execute(c, req)
  <2> PICK c \in Callers, req \in Requests : Execute(c, req)
    BY <1>1
  <2>1. Writes(req) \in SUBSET Nat
    BY RequestShape
  <2> QED BY <2>1 DEF Execute, Writes
<1>2. CASE \E c \in Callers : BeginWrite(c) \/ BeginRead(c)
  BY <1>2 DEF BeginWrite, BeginRead, Begin, callVars, Writes
<1>3. CASE \E c \in Callers : ReadRefused(c) \/ Resume(c)
  <2>1. \A c \in Callers : Writes(request[c]) \in SUBSET Nat
    BY RequestShape
  <2> HIDE DEF CallersInv
  <2>2. CASE \E c \in Callers : ReadRefused(c)
    <3> PICK c \in Callers : ReadRefused(c)
      BY <2>2
    <3> QED BY DEF CallersInv, ReadRefused
  <2>3. CASE \E c \in Callers : Resume(c)
    <3> PICK c \in Callers : Resume(c)
      BY <2>3
    <3> QED BY <2>1 DEF CallersInv, Resume
  <2> QED BY <1>3, <2>2, <2>3
<1>4. CASE \/ Merge \/ Connect \/ ReadMerged \/ CountConnected \/ Create \/ Update \/ Delete
           \/ NestedStep \/ Collect \/ NextBlock \/ UNCHANGED vars
  <2>1. UNCHANGED callVars
    BY <1>4, BlocksLeaveCalls
  <2> QED BY <2>1 DEF callVars, Writes
<1>5. CASE EndWrite \/ EndRead \/ Fail \/ ReplyLost
  <2>1. active \in Callers /\ status[active] = "running"
    BY <1>5 DEF EndWrite, EndRead, Fail, ReplyLost, WriteComplete, ReadComplete, StatementInv
  <2>2. Writes(request[active]) \in SUBSET Nat
    BY <2>1, RequestShape
  <2>3. request' = request
    BY <1>5 DEF EndWrite, EndRead, Fail, ReplyLost, Release
  <2>4. status' \in {status, [status EXCEPT ![active] = "done"], [status EXCEPT ![active] = "failed"]}
    BY <1>5 DEF EndWrite, EndRead, Fail, ReplyLost
  <2>5. due' \in {due, [due EXCEPT ![active] = @ \ {field}], [due EXCEPT ![active] = Writes(request[active])]}
    BY <1>5 DEF EndWrite, EndRead, Fail, ReplyLost
  <2>6. chunk' \in {chunk, [chunk EXCEPT ![active] = @ + 1]}
    BY <1>5 DEF EndWrite, EndRead, Fail, ReplyLost
  <2>7. /\ status' \in [Callers -> {"idle", "running", "failed", "done"}]
        /\ \A c \in Callers : status'[c] = "idle" => request'[c] = <<>>
    BY <2>1, <2>3, <2>4
  <2>8. /\ due' \in [Callers -> SUBSET Nat]
        /\ \A c \in Callers : due'[c] \subseteq Writes(request[c])
    BY <2>1, <2>2, <2>5
  <2>9. chunk' \in [Callers -> Nat \ {0}]
    BY <2>1, <2>6
  <2> QED BY <2>3, <2>7, <2>8, <2>9 DEF Writes
<1> QED BY <1>1, <1>2, <1>3, <1>4, <1>5 DEF Next, DatabaseStep

(* At a block the field is one of the request. *)
LEMMA AtField ==
  ASSUME CallersInv, StatementInv, active # Nobody,
         field \in Writes(request[active]) \/ field <= Len(request[active])
  PROVE  active \in Callers /\ field \in DOMAIN request[active] /\ Current \in AllFields
<1>1. active \in Callers /\ request[active] \in Requests \cup {<<>>} /\ field \in Nat \ {0}
  BY DEF StatementInv, CallersInv
<1>2. field \in DOMAIN request[active]
  BY <1>1, RequestShape
<1>3. Current \in {request[active][i] : i \in DOMAIN request[active]}
  BY <1>2 DEF Current
<1> QED BY <1>1, <1>2, <1>3 DEF AllFields

LEMMA StatementStep ==
  ASSUME CallersInv, StatementInv, [Next]_vars
  PROVE  StatementInv'
<1> USE DEF StatementInv
<1>1. CASE \E c \in Callers : (\E req \in Requests : Execute(c, req)) \/ ReadRefused(c) \/ Resume(c)
  <2> PICK c \in Callers : (\E req \in Requests : Execute(c, req)) \/ ReadRefused(c) \/ Resume(c)
    BY <1>1
  <2>1. /\ UNCHANGED <<active, field, reading, row, open, left>>
        /\ active # Nobody => c # active
    BY DEF Execute, ReadRefused, Resume, stmtVars, blockVars
  <2>2. active # Nobody => request'[active] = request[active] /\ status'[active] = status[active]
    BY <2>1 DEF Execute, ReadRefused, Resume, CallersInv
  <2> QED BY <2>1, <2>2 DEF Current
<1>2. CASE \E c \in Callers : BeginWrite(c)
  <2> PICK c \in Callers : BeginWrite(c)
    BY <1>2
  <2>1. /\ active = Nobody /\ active' = c /\ field' \in due[c] /\ reading' = FALSE /\ row' = 0
        /\ status[c] = "running" /\ UNCHANGED <<status, request, open>>
    BY DEF BeginWrite, Begin, NextWrite, callVars, blockVars
  <2>2. due[c] \subseteq Writes(request[c]) /\ request[c] \in Requests \cup {<<>>}
    BY DEF CallersInv
  <2>3. Writes(request[c]) \subseteq Nat \ {0}
    BY <2>2, RequestShape
  <2> QED BY <2>1, <2>2, <2>3 DEF Writes
<1>3. CASE \E c \in Callers : BeginRead(c)
  BY <1>3 DEF BeginRead, Begin, callVars
<1>4. CASE Merge \/ Connect
  <2>1. UNCHANGED <<active, field, reading, status, request, open>> /\ row' = row + 1 /\ ~reading
    BY <1>4 DEF Merge, Connect, Writing, callVars, blockVars
  <2> QED BY <2>1 DEF Writes
<1>5. CASE ReadMerged \/ CountConnected \/ Delete \/ Collect
  <2>1. UNCHANGED <<active, field, reading, row, status, request>> /\ open' = FALSE
    BY <1>5 DEF ReadMerged, CountConnected, Delete, Collect, Return, stmtVars, callVars
  <2> QED BY <2>1 DEF Writes
<1>6. CASE Create \/ Update
  <2>1. /\ UNCHANGED <<active, field, reading, row, status, request, left>>
        /\ active # Nobody /\ reading /\ left > 0 /\ Current.op \in {"create", "update"}
        /\ field <= Len(request[active])
    BY <1>6 DEF Create, Update, Open, InBlock, stmtVars, callVars
  <2>2. field \in DOMAIN request[active]
    BY <2>1, AtField
  <2> QED BY <2>1, <2>2 DEF Current
<1>7. CASE NestedStep
  <2>1. UNCHANGED <<active, field, reading, row, status, request, left, open>>
    BY <1>7 DEF NestedStep, NestedCreate, NestedConnect, NestedDisconnect, NestedUpdate, NestedDelete,
                AtNested, stmtVars, callVars
  <2> QED BY <2>1 DEF Current, Writes
<1>8. CASE NextBlock
  <2>1. /\ UNCHANGED <<active, reading, row, status, request, open>> /\ field' = field + 1
        /\ active # Nobody /\ reading /\ left = 0
    BY <1>8 DEF NextBlock, callVars
  <2> QED BY <2>1
<1>9. CASE EndWrite \/ EndRead \/ Fail \/ ReplyLost
  BY <1>9 DEF EndWrite, EndRead, Fail, ReplyLost, Release, Finished
<1>10. CASE UNCHANGED vars
  BY <1>10 DEF vars, stmtVars, blockVars, callVars, Current, Writes
<1> QED BY <1>1, <1>2, <1>3, <1>4, <1>5, <1>6, <1>7, <1>8, <1>9, <1>10 DEF Next, DatabaseStep
-----------------------------------------------------------------------------
(* What a merge may overlook. *)

(* A caller's merge overlooks nodes only once it has met another caller's  *)
(* statement that added them.                                              *)
UnseenInv ==
  /\ active # Nobody /\ ~reading => field \in NextWrite(active)
  /\ unseen = [c \in Callers |-> unseen[c]]
  /\ \A c \in Callers : unseen[c] # {} =>
       /\ status[c] = "running" /\ NextWrite(c) # {}
       /\ \A i \in NextWrite(c) : request[c][i].label \in met
       /\ \E d \in Callers \ {c} : status[d] # "idle"

LEMMA OneNextWrite ==
  ASSUME CallersInv, NEW c \in Callers, NEW i \in NextWrite(c), NEW j \in NextWrite(c)
  PROVE  i = j
<1>1. i \in due[c] /\ j \in due[c] /\ i <= j /\ j <= i
  BY DEF NextWrite
<1>2. due[c] \subseteq Nat
  BY DEF CallersInv
<1> QED BY <1>1, <1>2

(* The end of a statement. *)
LEMMA CommittedUnseen ==
  ASSUME CallersInv, StatementInv, UnseenInv, Release, active \in Callers,
         status'[active] # "idle",
         \A c \in Callers \ {active} : status'[c] = status[c] /\ due'[c] = due[c]
  PROVE  UnseenInv'
<1>1. active' = Nobody /\ request' = request
  BY DEF Release, Finished
<1>2. /\ unseen' = [c \in Callers |-> IF c = active THEN {} ELSE unseen[c] \cup Missed(c)]
      /\ met' = met \cup {nodes[n].label : n \in UNION {Missed(c) : c \in Callers}}
  BY DEF Release, Committed
<1>3. ASSUME NEW c \in Callers, unseen'[c] # {}
      PROVE  /\ status'[c] = "running" /\ NextWrite(c)' # {}
             /\ \A i \in NextWrite(c)' : request'[c][i].label \in met'
             /\ \E d \in Callers \ {c} : status'[d] # "idle"
  <2>1. c # active /\ (unseen[c] # {} \/ Missed(c) # {})
    BY <1>2, <1>3
  <2>2. NextWrite(c)' = NextWrite(c) /\ status'[c] = status[c]
    BY <2>1 DEF NextWrite
  <2>3. CASE unseen[c] # {}
    BY <1>1, <1>2, <2>1, <2>2, <2>3 DEF UnseenInv
  <2>4. CASE Missed(c) # {}
    <3>1. PICK n \in Missed(c) : TRUE
      BY <2>4
    <3>2. PICK i \in NextWrite(c) : status[c] = "running" /\ request[c][i].label = nodes[n].label
      BY <3>1 DEF Missed
    <3>3. nodes[n].label \in met'
      BY <1>2, <3>1
    <3>4. \A j \in NextWrite(c) : j = i
      BY <3>2, OneNextWrite
    <3> QED BY <1>1, <2>1, <2>2, <3>2, <3>3, <3>4
  <2> QED BY <2>1, <2>3, <2>4
<1>4. unseen' = [c \in Callers |-> unseen'[c]]
  BY <1>2
<1> QED BY <1>1, <1>3, <1>4 DEF UnseenInv

LEMMA UnseenStep ==
  ASSUME CallersInv, StatementInv, UnseenInv, [Next]_vars
  PROVE  UnseenInv'
<1>1. ASSUME NEW c \in Callers, (\E req \in Requests : Execute(c, req)) \/ ReadRefused(c) \/ Resume(c)
      PROVE  UnseenInv'
  <2>1. UNCHANGED <<active, field, reading, unseen, met>>
    BY <1>1 DEF Execute, ReadRefused, Resume, stmtVars
  <2>2. /\ \A d \in Callers \ {c} : UNCHANGED <<request[d], status[d], due[d]>>
        /\ status'[c] # "idle"
    BY <1>1 DEF Execute, ReadRefused, Resume, CallersInv
  <2>3. \A d \in Callers \ {c} : NextWrite(d)' = NextWrite(d)
    BY <2>2 DEF NextWrite
  <2>4. active # Nobody => active \in Callers \ {c}
    BY <1>1 DEF Execute, ReadRefused, Resume, StatementInv
  <2>5. unseen[c] = {}
    <3>1. status[c] # "running" \/ due[c] = {}
      BY <1>1 DEF Execute, ReadRefused, Resume
    <3>2. due[c] = {} => NextWrite(c) = {}
      BY DEF NextWrite
    <3> QED BY <3>1, <3>2 DEF UnseenInv
  <2>6. ASSUME NEW d \in Callers, unseen'[d] # {}
        PROVE  /\ status'[d] = "running" /\ NextWrite(d)' # {}
               /\ \A i \in NextWrite(d)' : request'[d][i].label \in met'
               /\ \E e \in Callers \ {d} : status'[e] # "idle"
    <3>1. d # c /\ unseen[d] # {}
      BY <2>1, <2>5, <2>6
    <3> QED BY <2>1, <2>2, <2>3, <3>1 DEF UnseenInv
  <2>7. ASSUME active' # Nobody, ~reading' PROVE field' \in NextWrite(active)'
    <3>1. PICK d \in Callers \ {c} : d = active
      BY <2>1, <2>4, <2>7
    <3>2. field \in NextWrite(d)
      BY <2>1, <2>7, <3>1 DEF UnseenInv
    <3>3. NextWrite(active)' = NextWrite(d)'
      BY <2>1, <3>1
    <3> QED BY <2>1, <2>3, <3>2, <3>3
  <2>8. unseen' = [d \in Callers |-> unseen'[d]]
    BY <2>1 DEF UnseenInv
  <2> QED BY <2>6, <2>7, <2>8 DEF UnseenInv
<1>2. ASSUME NEW c \in Callers, BeginWrite(c) \/ BeginRead(c) PROVE UnseenInv'
  <2>1. UNCHANGED callVars /\ active' = c /\ (reading' \/ field' \in NextWrite(c))
    BY <1>2 DEF BeginWrite, BeginRead, Begin
  <2> QED BY <2>1 DEF UnseenInv, NextWrite, callVars
<1>3. CASE \/ Merge \/ Connect \/ ReadMerged \/ CountConnected \/ Create \/ Update \/ Delete
           \/ NestedStep \/ Collect \/ NextBlock \/ UNCHANGED vars
  <2>1. UNCHANGED <<callVars, active, reading>>
    BY <1>3, BlocksLeaveCalls
  <2>2. ~reading => field' = field
    BY <1>3 DEF Merge, Connect, ReadMerged, CountConnected, Create, Update, Delete, InBlock, NestedStep,
                NestedCreate, NestedConnect, NestedDisconnect, NestedUpdate, NestedDelete, AtNested,
                Collect, NextBlock, vars, stmtVars
  <2> QED BY <2>1, <2>2 DEF UnseenInv, NextWrite, callVars
<1>4. CASE EndWrite \/ EndRead \/ ReplyLost
  <2>1. active \in Callers /\ status[active] = "running" /\ Release
    BY <1>4 DEF EndWrite, EndRead, ReplyLost, WriteComplete, ReadComplete, StatementInv
  <2>2. /\ \A c \in Callers \ {active} : status'[c] = status[c] /\ due'[c] = due[c]
        /\ status'[active] # "idle"
    <3>1. status' \in {status, [status EXCEPT ![active] = "done"], [status EXCEPT ![active] = "failed"]}
      BY <1>4 DEF EndWrite, EndRead, ReplyLost
    <3>2. due' \in {due, [due EXCEPT ![active] = @ \ {field}], [due EXCEPT ![active] = Writes(request[active])]}
      BY <1>4 DEF EndWrite, EndRead, ReplyLost
    <3> QED BY <2>1, <3>1, <3>2 DEF CallersInv
  <2> QED BY <2>1, <2>2, CommittedUnseen
<1>5. CASE Fail
  <2>1. active \in Callers /\ active' = Nobody /\ UNCHANGED <<request, due, met>>
    BY <1>5 DEF Fail, Finished, StatementInv
  <2>2. unseen' = [unseen EXCEPT ![active] = {}] /\ status' = [status EXCEPT ![active] = "failed"]
    BY <1>5 DEF Fail
  <2>3. unseen'[active] = {} /\ \A c \in Callers \ {active} : unseen'[c] = unseen[c] /\ status'[c] = status[c]
    BY <2>1, <2>2 DEF UnseenInv, CallersInv
  <2>4. status'[active] = "failed" /\ \A c \in Callers : NextWrite(c)' = NextWrite(c)
    BY <2>1, <2>2 DEF CallersInv, NextWrite
  <2>5. unseen' = [c \in Callers |-> unseen'[c]]
    <3>1. DOMAIN unseen = Callers
      BY DEF UnseenInv
    <3> QED BY <2>2, <3>1
  <2>6. ASSUME NEW c \in Callers, unseen'[c] # {}
        PROVE  /\ status'[c] = "running" /\ NextWrite(c)' # {}
               /\ \A i \in NextWrite(c)' : request'[c][i].label \in met'
               /\ \E d \in Callers \ {c} : status'[d] # "idle"
    BY <2>1, <2>3, <2>4, <2>6 DEF UnseenInv
  <2> QED BY <2>1, <2>5, <2>6 DEF UnseenInv
<1> QED BY <1>1, <1>2, <1>3, <1>4, <1>5 DEF Next, DatabaseStep

(* The labels of merges that met each other stay. *)
LEMMA MetGrows ==
  ASSUME [Next]_vars
  PROVE  met \subseteq met'
<1>1. CASE \E c \in Callers : \/ \E req \in Requests : Execute(c, req)
                              \/ BeginWrite(c) \/ BeginRead(c) \/ ReadRefused(c) \/ Resume(c)
  BY <1>1 DEF Execute, BeginWrite, BeginRead, Begin, ReadRefused, Resume, callVars
<1>2. CASE \/ Merge \/ Connect \/ ReadMerged \/ CountConnected \/ Create \/ Update \/ Delete
           \/ NestedStep \/ Collect \/ NextBlock \/ UNCHANGED vars
  BY <1>2, BlocksLeaveCalls DEF callVars
<1>3. CASE EndWrite \/ EndRead \/ Fail \/ ReplyLost
  BY <1>3 DEF EndWrite, EndRead, Fail, ReplyLost, Release, Committed
<1> QED BY <1>1, <1>2, <1>3 DEF Next, DatabaseStep

(* A row of a merge: the nodes it finds have the keys, and they are all    *)
(* there are unless it overlooks some.                                     *)
LEMMA RowFinds ==
  ASSUME Merge
  PROVE  LET item == Rows[row + 1]
             keys == KeysOf(Current, "match")
             made == [p \in Props |-> IF p \in keys THEN Wanted(keys, item.match)[p] ELSE Given(item.onCreate, p)]
         IN  \E found \in SUBSET Merged(Current, item) :
               /\ unseen[active] = {} => found = Merged(Current, item)
               /\ \A p \in keys : Wanted(keys, item.match)[p] # Null
               /\ \/ /\ found = {} /\ fresh' = fresh + 1
                     /\ nodes' = [n \in DOMAIN nodes \cup {fresh + 1} |->
                          IF n \in DOMAIN nodes THEN nodes[n] ELSE [label |-> Current.label, props |-> made]]
                  \/ /\ found # {} /\ fresh' = fresh
                     /\ nodes' = [n \in DOMAIN nodes |->
                          IF n \in found
                          THEN [nodes[n] EXCEPT !.props = [p \in Props |->
                                  IF Given(item.onMatch, p) # Null THEN item.onMatch[p] ELSE @[p]]]
                          ELSE nodes[n]]
<1> DEFINE item == Rows[row + 1]
           keys == KeysOf(Current, "match")
           made == [p \in Props |-> IF p \in keys THEN Wanted(keys, item.match)[p] ELSE Given(item.onCreate, p)]
           Adds == /\ fresh' = fresh + 1
                   /\ nodes' = [n \in DOMAIN nodes \cup {fresh + 1} |->
                        IF n \in DOMAIN nodes THEN nodes[n] ELSE [label |-> Current.label, props |-> made]]
           SetsOn(found) == /\ nodes' = [n \in DOMAIN nodes |->
                              IF n \in found
                              THEN [nodes[n] EXCEPT !.props = [p \in Props |->
                                      IF Given(item.onMatch, p) # Null THEN item.onMatch[p] ELSE @[p]]]
                              ELSE nodes[n]]
                          /\ UNCHANGED fresh
<1>1. \E overlooked \in SUBSET unseen[active] :
         /\ \A p \in keys : Wanted(keys, item.match)[p] # Null
         /\ IF Merged(Current, item) \ overlooked = {} THEN Adds ELSE SetsOn(Merged(Current, item) \ overlooked)
  BY DEF Merge
<1>2. PICK overlooked \in SUBSET unseen[active] :
         /\ \A p \in keys : Wanted(keys, item.match)[p] # Null
         /\ IF Merged(Current, item) \ overlooked = {} THEN Adds ELSE SetsOn(Merged(Current, item) \ overlooked)
  BY <1>1
<1> DEFINE found == Merged(Current, item) \ overlooked
<1>3. found \in SUBSET Merged(Current, item) /\ (unseen[active] = {} => found = Merged(Current, item))
  OBVIOUS
<1>4. /\ \A p \in keys : Wanted(keys, item.match)[p] # Null
      /\ (found = {} /\ Adds) \/ (found # {} /\ SetsOn(found))
  BY <1>2
<1> HIDE DEF found, item, keys
<1> QED BY <1>3, <1>4 DEF item, keys
-----------------------------------------------------------------------------
(* Nodes. *)

Shaped(ns) == \A n \in DOMAIN ns : {"label", "props"} \subseteq DOMAIN ns[n]

ShapeInv == Shaped(nodes) /\ Shaped(before.nodes)

(* The graph a failed statement goes back to has one node for a key, too.  *)
MergedInv ==
  \A l \in Labels, keys \in SUBSET Props :
    MergedBy(l, keys) => UniqueBy(nodes, l, keys) /\ UniqueBy(before.nodes, l, keys)

(* No field leaves the requests. *)
LEMMA FieldsStay ==
  ASSUME CallersInv, [Next]_vars
  PROVE  /\ \A c \in Callers : request'[c] = request[c] \/ request[c] = <<>>
         /\ AllFields \subseteq AllFields'
<1>1. \A c \in Callers : request'[c] = request[c] \/ request[c] = <<>>
  <2>1. CASE \E c \in Callers, req \in Requests : Execute(c, req)
    BY <2>1 DEF Execute, CallersInv
  <2>2. CASE \E c \in Callers : BeginWrite(c) \/ BeginRead(c) \/ ReadRefused(c) \/ Resume(c)
    BY <2>2 DEF BeginWrite, BeginRead, Begin, ReadRefused, Resume, callVars
  <2>3. CASE \/ Merge \/ Connect \/ ReadMerged \/ CountConnected \/ Create \/ Update \/ Delete
             \/ NestedStep \/ Collect \/ NextBlock \/ UNCHANGED vars
    BY <2>3, BlocksLeaveCalls DEF callVars
  <2>4. CASE EndWrite \/ EndRead \/ Fail \/ ReplyLost
    BY <2>4 DEF EndWrite, EndRead, Fail, ReplyLost, Release
  <2> QED BY <2>1, <2>2, <2>3, <2>4 DEF Next, DatabaseStep
<1>2. AllFields \subseteq AllFields'
  <2>1. \A c \in Callers : {request[c][i] : i \in DOMAIN request[c]}
                           \subseteq {request'[c][i] : i \in DOMAIN request'[c]}
    BY <1>1
  <2> QED BY <2>1 DEF AllFields
<1> QED BY <1>1, <1>2

(* What merges on these keys alone say in one state, they said before.     *)
LEMMA MergedByBefore ==
  ASSUME CallersInv, [Next]_vars, NEW l, NEW keys, MergedBy(l, keys)'
  PROVE  MergedBy(l, keys)
<1>1. origin' = origin
  BY OriginStays
<1>2. AllFields \subseteq AllFields'
  BY FieldsStay
<1>3. ASSUME NEW f \in AllFields
      PROVE  CASE f.op = "merge" -> f.label = l => Plain(f) /\ f.items # <<>> /\ KeysOf(f, "match") = keys
               [] f.op = "connect" -> TRUE
               [] OTHER -> FALSE
  BY <1>2 DEF MergedBy
<1>4. UniqueBy(origin.nodes, l, keys)
  BY <1>1 DEF MergedBy, UniqueBy
<1>5. l \notin met
  BY MetGrows DEF MergedBy
<1> QED BY <1>3, <1>4, <1>5 DEF MergedBy

(* Where only merges write the nodes of a label, no other block does.      *)
LEMMA OnlyMerges ==
  ASSUME CallersInv, StatementInv, NEW l, NEW keys, MergedBy(l, keys),
         Create \/ Update \/ Delete \/ NestedStep
  PROVE  FALSE
<1>1. \A f \in AllFields : f.op \in {"merge", "connect"}
  BY DEF MergedBy
<1>2. CASE Create \/ Update \/ Delete
  <2>1. active # Nobody /\ field <= Len(request[active]) /\ Current.op \in {"create", "update", "delete"}
    BY <1>2 DEF Create, Update, Delete, InBlock
  <2> QED BY <1>1, <2>1, AtField
<1>3. CASE NestedStep
  <2>1. open
    BY <1>3 DEF NestedStep, NestedCreate, NestedConnect, NestedDisconnect, NestedUpdate, NestedDelete, AtNested
  <2>2. active \in Callers /\ field \in DOMAIN request[active] /\ Current.op \in {"create", "update"}
    BY <2>1 DEF StatementInv
  <2>3. Current \in AllFields
    BY <2>2 DEF Current, AllFields
  <2> QED BY <1>1, <2>2, <2>3
<1> QED BY <1>2, <1>3

(* One row of a merge, on the keys its label is merged by: the nodes there *)
(* keep their label and keys, and one has the keys of the row, made for it *)
(* where there was none.                                                   *)
LEMMA MergeRow ==
  ASSUME CallersInv, StatementInv, UnseenInv, ShapeInv, Merge,
         NEW l \in Labels, NEW keys \in SUBSET Props, MergedBy(l, keys)
  PROVE  LET item == Rows[row + 1] IN
         /\ \A n \in DOMAIN nodes :
              /\ n \in DOMAIN nodes' /\ nodes'[n].label = nodes[n].label
              /\ nodes[n].label = l => \A p \in keys : nodes'[n].props[p] = nodes[n].props[p]
         /\ \A n \in DOMAIN nodes' \ DOMAIN nodes :
              /\ n = fresh + 1 /\ nodes'[n].label = Current.label
              /\ Current.label = l =>
                   /\ \A p \in keys : nodes'[n].props[p] = item.match[p]
                   /\ \A m \in DOMAIN nodes : nodes[m].label = l => \E p \in keys : nodes[m].props[p] # item.match[p]
         /\ Current.label = l /\ fresh + 1 \notin DOMAIN nodes =>
              /\ \A p \in keys : item.match[p] # Null
              /\ \E n \in DOMAIN nodes' : nodes'[n].label = l /\ \A p \in keys : nodes'[n].props[p] = item.match[p]
<1> DEFINE f == Current
           item == Rows[row + 1]
           ks == KeysOf(f, "match")
           want == Wanted(ks, item.match)
           made == [p \in Props |-> IF p \in ks THEN want[p] ELSE Given(item.onCreate, p)]
           new == fresh + 1
<1>1. /\ active # Nobody /\ ~reading /\ f.op = "merge" /\ row + 1 \in 1..Len(Rows)
      /\ active \in Callers /\ field \in DOMAIN request[active] /\ f \in AllFields
  <2>1. active # Nobody /\ ~reading /\ f.op = "merge" /\ row < Len(Rows) /\ row \in Nat
    BY DEF Merge, Writing, StatementInv
  <2>2. active \in Callers /\ field \in DOMAIN request[active]
    BY <2>1, AtField DEF StatementInv
  <2>3. Len(Rows) \in Nat
    BY <2>2, SliceShape DEF Rows
  <2> QED BY <2>1, <2>3, AtField DEF StatementInv
<1>2. PICK found \in SUBSET Merged(f, item) :
      /\ unseen[active] = {} => found = Merged(f, item)
      /\ \A p \in ks : want[p] # Null
      /\ \/ /\ found = {}
            /\ nodes' = [n \in DOMAIN nodes \cup {new} |->
                 IF n \in DOMAIN nodes THEN nodes[n] ELSE [label |-> f.label, props |-> made]]
         \/ /\ found # {}
            /\ nodes' = [n \in DOMAIN nodes |->
                 IF n \in found
                 THEN [nodes[n] EXCEPT !.props = [p \in Props |->
                         IF Given(item.onMatch, p) # Null THEN item.onMatch[p] ELSE @[p]]]
                 ELSE nodes[n]]
  BY RowFinds
<1>3. f.label = l => Plain(f) /\ KeysOf(f, "match") = keys
  BY <1>1 DEF MergedBy
<1>11. f.label = l => found = Merged(f, item)
  <2>1. field \in NextWrite(active) /\ f = request[active][field]
    BY <1>1 DEF UnseenInv, Current
  <2>2. f.label = l => unseen[active] = {}
    BY <1>1, <2>1 DEF UnseenInv, MergedBy
  <2> QED BY <1>2, <2>2
<1>4. PICK k \in DOMAIN f.items : item = f.items[k]
  <2>1. Items(f) = f.items
    BY <1>1 DEF Items
  <2>2. \E k \in DOMAIN Items(f) : item = Items(f)[k]
    BY <1>1, SliceShape DEF Rows, Current
  <2> QED BY <2>1, <2>2
<1>5. f.label = l =>
        /\ \A p \in keys : want[p] = item.match[p] /\ want[p] # Null /\ Given(item.onMatch, p) = Null
        /\ ks = keys
  BY <1>2, <1>3, <1>4 DEF Plain, Wanted, Given
<1>6. \A n \in found : nodes[n].label = f.label /\ n \in DOMAIN nodes
  BY <1>2 DEF Merged, Labelled
<1>7. f.label = l => \A n \in DOMAIN nodes \ found : nodes[n].label = l =>
                      \E p \in keys : nodes[n].props[p] # want[p]
  <2> SUFFICES ASSUME f.label = l, NEW n \in DOMAIN nodes \ found, nodes[n].label = l,
                      \A p \in keys : nodes[n].props[p] = want[p]
      PROVE  FALSE
    OBVIOUS
  <2>1. n \in Labelled(f.label) /\ n \notin Merged(f, item)
    BY <1>11 DEF Labelled
  <2>2. DOMAIN want = keys
    BY <1>5 DEF Wanted
  <2>3. keys \subseteq Props
    OBVIOUS
  <2>4. Equals(n, want)
    BY <1>5, <2>2, <2>3 DEF Equals
  <2> QED BY <2>1, <2>4 DEF Merged
<1>10. f.label = l => \A n \in found : \A p \in keys : nodes[n].props[p] = want[p]
  BY <1>5, <1>11 DEF Merged, Equals, Wanted
<1> HIDE DEF f, item, ks, want, made, new
<1>8. CASE /\ found = {}
           /\ nodes' = [n \in DOMAIN nodes \cup {new} |->
                IF n \in DOMAIN nodes THEN nodes[n] ELSE [label |-> f.label, props |-> made]]
  <2>1. \A n \in DOMAIN nodes : n \in DOMAIN nodes' /\ nodes'[n] = nodes[n]
    BY <1>8
  <2>2. new \notin DOMAIN nodes => new \in DOMAIN nodes' /\ nodes'[new].label = f.label /\ nodes'[new].props = made
    BY <1>8
  <2>3. f.label = l => \A p \in keys : made[p] = item.match[p]
    BY <1>5 DEF made
  <2>4. \A n \in DOMAIN nodes' \ DOMAIN nodes : n = new
    BY <1>8
  <2>5. f.label = l => \A m \in DOMAIN nodes : nodes[m].label = l => \E p \in keys : nodes[m].props[p] # item.match[p]
    BY <1>5, <1>7, <1>8
  <2> QED BY <1>5, <2>1, <2>2, <2>3, <2>4, <2>5 DEF f, item, new
<1>9. CASE /\ found # {}
           /\ nodes' = [n \in DOMAIN nodes |->
                IF n \in found
                THEN [nodes[n] EXCEPT !.props = [p \in Props |->
                        IF Given(item.onMatch, p) # Null THEN item.onMatch[p] ELSE @[p]]]
                ELSE nodes[n]]
  <2>1. DOMAIN nodes' = DOMAIN nodes
    BY <1>9
  <2>2. ASSUME NEW n \in DOMAIN nodes
        PROVE  /\ nodes'[n].label = nodes[n].label
               /\ nodes[n].label = l => \A p \in keys : nodes'[n].props[p] = nodes[n].props[p]
    <3>1. CASE n \notin found
      BY <1>9, <3>1
    <3>2. CASE n \in found
      <4> DEFINE new_props == [p \in Props |->
                   IF Given(item.onMatch, p) # Null THEN item.onMatch[p] ELSE nodes[n].props[p]]
      <4>1. nodes'[n] = [nodes[n] EXCEPT !.props = new_props]
        BY <1>9, <3>2
      <4>2. "label" \in DOMAIN nodes[n] /\ "props" \in DOMAIN nodes[n]
        BY DEF ShapeInv, Shaped
      <4>3. f.label = nodes[n].label
        BY <1>6, <3>2
      <4>4. nodes[n].label = l => \A p \in keys : new_props[p] = nodes[n].props[p]
        BY <1>5, <4>3
      <4> HIDE DEF new_props
      <4>5. nodes'[n].label = nodes[n].label /\ nodes'[n].props = new_props
        BY <4>1, <4>2
      <4> QED BY <4>4, <4>5
    <3> QED BY <3>1, <3>2
  <2>3. PICK n \in found : TRUE
    BY <1>9
  <2>4. n \in DOMAIN nodes
    BY <1>6, <2>3
  <2>5. f.label = l => nodes'[n].label = l /\ \A p \in keys : nodes'[n].props[p] = item.match[p]
    BY <1>5, <1>6, <1>10, <2>2, <2>3, <2>4
  <2> QED BY <1>5, <2>1, <2>2, <2>4, <2>5 DEF f, item, new
<1> QED BY <1>2, <1>8, <1>9

(* It keeps nodes apart. *)
LEMMA MergeKeepsUnique ==
  ASSUME CallersInv, StatementInv, UnseenInv, ShapeInv, Merge,
         NEW l \in Labels, NEW keys \in SUBSET Props, MergedBy(l, keys), UniqueBy(nodes, l, keys)
  PROVE  UniqueBy(nodes', l, keys)
<1> DEFINE item == Rows[row + 1]
<1>1. \A n \in DOMAIN nodes :
        /\ n \in DOMAIN nodes' /\ nodes'[n].label = nodes[n].label
        /\ nodes[n].label = l => \A p \in keys : nodes'[n].props[p] = nodes[n].props[p]
  BY MergeRow
<1>2. \A n \in DOMAIN nodes' \ DOMAIN nodes :
        /\ n = fresh + 1 /\ nodes'[n].label = Current.label
        /\ Current.label = l =>
             /\ \A p \in keys : nodes'[n].props[p] = item.match[p]
             /\ \A m \in DOMAIN nodes : nodes[m].label = l => \E p \in keys : nodes[m].props[p] # item.match[p]
  BY MergeRow
<1> HIDE DEF item
<1>3. ASSUME NEW m \in DOMAIN nodes', NEW n \in DOMAIN nodes', nodes'[m].label = l, nodes'[n].label = l, m # n
      PROVE  \E p \in keys : nodes'[m].props[p] # nodes'[n].props[p]
  <2>1. CASE m \in DOMAIN nodes /\ n \in DOMAIN nodes
    BY <1>1, <1>3, <2>1 DEF UniqueBy
  <2>2. CASE m \in DOMAIN nodes /\ n \notin DOMAIN nodes
    BY <1>1, <1>2, <1>3, <2>2
  <2>3. CASE m \notin DOMAIN nodes /\ n \in DOMAIN nodes
    BY <1>1, <1>2, <1>3, <2>3
  <2>4. CASE m \notin DOMAIN nodes /\ n \notin DOMAIN nodes
    BY <1>2, <1>3, <2>4
  <2> QED BY <2>1, <2>2, <2>3, <2>4
<1> QED BY <1>3 DEF UniqueBy

(* Steps that write no node. *)
LEMMA NodesUnchanged ==
  ASSUME \/ \E c \in Callers : \/ \E req \in Requests : Execute(c, req)
                             \/ BeginWrite(c) \/ BeginRead(c) \/ ReadRefused(c) \/ Resume(c)
         \/ Connect \/ ReadMerged \/ CountConnected \/ Collect \/ NextBlock
         \/ EndWrite \/ EndRead \/ ReplyLost \/ UNCHANGED vars
  PROVE  nodes' = nodes /\ (before' = before \/ before'.nodes = nodes \/ before'.nodes = <<>>)
<1>1. CASE \E c \in Callers : \/ \E req \in Requests : Execute(c, req)
                              \/ BeginWrite(c) \/ BeginRead(c) \/ ReadRefused(c) \/ Resume(c)
  BY <1>1 DEF Execute, BeginWrite, BeginRead, Begin, ReadRefused, Resume, stmtVars, graphVars
<1>2. CASE Connect \/ ReadMerged \/ CountConnected \/ Collect \/ NextBlock \/ UNCHANGED vars
  BY <1>2 DEF Connect, ReadMerged, CountConnected, Collect, NextBlock, Return, vars, stmtVars, graphVars
<1>3. CASE EndWrite \/ EndRead \/ ReplyLost
  BY <1>3 DEF EndWrite, EndRead, ReplyLost, Release, Finished, graphVars
<1> QED BY <1>1, <1>2, <1>3

LEMMA ShapeStep ==
  ASSUME ShapeInv, [Next]_vars
  PROVE  ShapeInv'
<1> USE DEF ShapeInv
<1>1. CASE /\ nodes' = nodes
           /\ before' = before \/ before'.nodes = nodes \/ before'.nodes = <<>>
  BY <1>1 DEF Shaped
<1>2. CASE Merge
  <2>1. before' = before
    BY <1>2 DEF Merge
  <2>2. Shaped(nodes')
    <3> DEFINE item == Rows[row + 1]
    <3>1. \E found, made :
            \/ nodes' = [n \in DOMAIN nodes \cup {fresh + 1} |->
                 IF n \in DOMAIN nodes THEN nodes[n] ELSE [label |-> Current.label, props |-> made]]
            \/ nodes' = [n \in DOMAIN nodes |->
                 IF n \in found
                 THEN [nodes[n] EXCEPT !.props = [p \in Props |->
                         IF Given(item.onMatch, p) # Null THEN item.onMatch[p] ELSE @[p]]]
                 ELSE nodes[n]]
      BY <1>2, RowFinds
    <3> QED BY <3>1 DEF Shaped
  <2> QED BY <2>1, <2>2
<1>3. CASE Create
  BY <1>3 DEF Create, Open, stmtVars, Shaped
<1>4. CASE Update
  BY <1>4 DEF Update, Open, stmtVars, Shaped
<1>5. CASE Delete
  BY <1>5 DEF Delete, DetachDelete, Return, stmtVars, Shaped
<1>6. CASE NestedStep
  <2> PICK at, n : \/ NestedCreate(at, n) \/ NestedConnect(at, n) \/ NestedDisconnect(at, n)
                   \/ NestedUpdate(at, n) \/ NestedDelete(at, n)
    BY <1>6 DEF NestedStep
  <2>1. before' = before
    BY DEF NestedCreate, NestedConnect, NestedDisconnect, NestedUpdate, NestedDelete, AtNested, stmtVars
  <2>2. CASE NestedCreate(at, n)
    BY <2>1, <2>2 DEF NestedCreate, Shaped
  <2>3. CASE NestedConnect(at, n) \/ NestedDisconnect(at, n)
    BY <2>1, <2>3 DEF NestedConnect, NestedDisconnect
  <2>4. CASE NestedUpdate(at, n)
    BY <2>1, <2>4 DEF NestedUpdate, Shaped
  <2>5. CASE NestedDelete(at, n)
    BY <2>1, <2>5 DEF NestedDelete, DetachDelete, Shaped
  <2> QED BY <2>2, <2>3, <2>4, <2>5
<1>7. CASE Fail
  BY <1>7 DEF Fail, Finished, Shaped
<1> QED BY <1>1, <1>2, <1>3, <1>4, <1>5, <1>6, <1>7, NodesUnchanged DEF Next, DatabaseStep

LEMMA MergedStep ==
  ASSUME CallersInv, StatementInv, UnseenInv, ShapeInv, MergedInv, [Next]_vars
  PROVE  MergedInv'
<1> SUFFICES ASSUME NEW l \in Labels, NEW keys \in SUBSET Props, MergedBy(l, keys)'
             PROVE  UniqueBy(nodes', l, keys) /\ UniqueBy(before'.nodes, l, keys)
  BY DEF MergedInv, UniqueBy
<1>1. MergedBy(l, keys) /\ UniqueBy(nodes, l, keys) /\ UniqueBy(before.nodes, l, keys)
  BY MergedByBefore DEF MergedInv
<1>2. UniqueBy(<<>>, l, keys)
  BY DEF UniqueBy
<1>3. CASE /\ nodes' = nodes
           /\ before' = before \/ before'.nodes = nodes \/ before'.nodes = <<>>
  BY <1>1, <1>2, <1>3
<1>4. CASE Merge
  BY <1>1, <1>4, MergeKeepsUnique DEF Merge
<1>5. CASE Fail
  BY <1>1, <1>2, <1>5 DEF Fail, Finished
<1>6. ~(Create \/ Update \/ Delete \/ NestedStep)
  BY <1>1, OnlyMerges
<1> QED BY <1>3, <1>4, <1>5, <1>6, NodesUnchanged DEF Next, DatabaseStep
-----------------------------------------------------------------------------
MutationInv == CallersInv /\ StatementInv /\ UnseenInv /\ ShapeInv /\ MergedInv

THEOREM Invariance == Spec => []MutationInv
<1>1. Init => MutationInv
  <2> SUFFICES ASSUME Init PROVE MutationInv
    OBVIOUS
  <2>1. CallersInv
    BY DEF Init, CallersInv, Writes
  <2>2. StatementInv
    BY DEF Init, NoStatement, StatementInv
  <2>3. nodes = origin.nodes /\ before.nodes = <<>> /\ \E g \in Graphs : nodes = g.nodes
    BY DEF Init, NoStatement
  <2>4. ShapeInv
    <3>1. PICK g \in Graphs : nodes = g.nodes
      BY <2>3
    <3>2. \A n \in DOMAIN nodes : nodes[n] \in Node
      <4>1. nodes \in Seq(Node)
        BY <3>1, MutationsAssumption DEF IsGraph
      <4> QED BY <4>1
    <3>3. \A x \in Node : {"label", "props"} \subseteq DOMAIN x
      BY DEF Node
    <3> QED BY <2>3, <3>2, <3>3 DEF ShapeInv, Shaped
  <2>5. MergedInv
    BY <2>3 DEF MergedInv, MergedBy, UniqueBy
  <2>6. UnseenInv
    BY DEF Init, NoStatement, UnseenInv
  <2> QED BY <2>1, <2>2, <2>4, <2>5, <2>6 DEF MutationInv
<1>2. MutationInv /\ [Next]_vars => MutationInv'
  BY CallersStep, StatementStep, UnseenStep, ShapeStep, MergedStep DEF MutationInv
<1> QED BY <1>1, <1>2, PTL DEF Spec

(* Callers that merge on the same keys never leave two nodes with one key, *)
(* whatever their lists, chunks, failures and retries, where no statement  *)
(* adds a node of the type while another caller's merge is under way:      *)
(* merge.go, translateMergeFieldSplit; chunk.go, chunkParams.              *)
THEOREM MergesOnce == Spec => []MergedOnce
<1>1. MutationInv => MergedOnce
  BY DEF MutationInv, MergedInv, MergedOnce
<1> QED BY <1>1, Invariance, PTL
-----------------------------------------------------------------------------
(* Kinds of values. *)

EdgeKinds(es) == \A e \in DOMAIN es : e \in Edge /\ es[e] \in Values \cup {Null}

Kinds(ns, es, last) ==
  /\ last \in Nat
  /\ \A n \in DOMAIN ns : n \in 1..last /\ ns[n] \in Node
  /\ EdgeKinds(es)

(* The graph a failed statement goes back to is of its kind, too; the      *)
(* nested operations left are of the field under way, for nodes it bound.  *)
KindInv ==
  /\ Kinds(nodes, edges, fresh) /\ Kinds(before.nodes, before.edges, before.fresh)
  /\ active # Nobody => field <= Len(request[active]) + 1
  /\ open => table \subseteq 1..fresh /\ todo \subseteq Nested(Current) \X table
  /\ \A c \in Callers : HasChunk(request[c], chunk[c])
  /\ unseen \in [Callers -> SUBSET Nat] /\ met \subseteq Labels
  /\ left \in Nat /\ out \in Nat /\ row \in Nat /\ retries \in 0..MaxRetries

(* The items of a field, and those of its that a number of chunks have. *)
LEMMA ItemsShape ==
  ASSUME NEW req \in Requests \cup {<<>>}, NEW i \in DOMAIN req
  PROVE  Len(Items(req[i])) \in Nat
<1>1. req \in Requests
  <2>1. req # <<>>
    OBVIOUS
  <2> QED BY <2>1
<1>2. IsField(req[i])
  BY <1>1, MutationsAssumption
<1>3. Items(req[i]) \in Seq(Range(Items(req[i])))
  BY <1>2, ListOfField
<1> QED BY <1>3

(* There are chunks enough for all items. *)
LEMMA ItemsEnd ==
  ASSUME NEW req \in Requests \cup {<<>>}, NEW k \in Nat, ~HasChunk(req, k + 1), NEW i \in DOMAIN req
  PROVE  Len(Items(req[i])) <= k * BatchSize
<1>1. PICK n \in Nat : n = Len(Items(req[i]))
  BY ItemsShape
<1>2. PICK end \in Nat : end = k * BatchSize
  <2>1. PICK size \in Nat : size = BatchSize
    BY MutationsAssumption
  <2>2. k * size \in Nat
    OBVIOUS
  <2> QED BY <2>1, <2>2
<1>3. \A x \in Lengths(req[i]) : ~(x > end)
  <2>1. (k + 1) - 1 = k
    OBVIOUS
  <2> QED BY <1>2, <2>1 DEF HasChunk
<1>4. CASE req[i].op \in {"merge", "connect", "create"}
  <2>1. n \in Lengths(req[i])
    BY <1>1, <1>4 DEF Lengths, Items
  <2> QED BY <1>1, <1>2, <1>3, <2>1
<1>5. CASE req[i].op \notin {"merge", "connect", "create"}
  <2>1. n = 0
    BY <1>1, <1>5 DEF Items
  <2> QED BY <1>1, <1>2, <2>1
<1> QED BY <1>4, <1>5

LEMMA ProductGrows ==
  ASSUME NEW m \in Nat, NEW size \in Nat \ {0}
  PROVE  m * size \in Nat /\ m * size >= m
<1>1. PICK less \in Nat : size = less + 1
  <2>1. size - 1 \in Nat /\ size = (size - 1) + 1
    OBVIOUS
  <2> QED BY <2>1
<1>2. m * (less + 1) = m * less + m /\ m * less \in Nat
  OBVIOUS
<1> QED BY <1>1, <1>2

(* What a chunk has of a map of properties is one, too. *)
LEMMA CutKind ==
  ASSUME NEW map, IsMap(map), NEW k \in Nat \ {0}
  PROVE  IsMap(CutMap(map, k))
<1>1. ASSUME NEW v \in Values PROVE CutValue(v, k) \in Values
  <2>1. CASE ~IsListValue(v)
    BY <2>1 DEF CutValue
  <2>2. CASE IsListValue(v)
    <3>1. /\ v.items \in Seq(Range(v.items)) /\ List(<<>>) \in Values
          /\ \A j \in DOMAIN v.items : CutValue(v, j) \in Values
      BY <2>2, MutationsAssumption DEF IsListValue
    <3>2. DOMAIN v.items = 1..Len(v.items) /\ Len(v.items) \in Nat
      BY <3>1
    <3>3. CASE k <= Len(v.items)
      BY <3>1, <3>2, <3>3
    <3>4. CASE ~(k <= Len(v.items))
      <4>1. PICK size \in Nat \ {0} : size = BatchSize
        BY MutationsAssumption
      <4>2. PICK more \in Nat : more = k - 1
        OBVIOUS
      <4>3. more * size >= more
        BY ProductGrows
      <4>4. (k - 1) * BatchSize >= Len(v.items)
        BY <3>2, <3>4, <4>1, <4>2, <4>3
      <4>5. SliceAt(v.items, k, BatchSize) = <<>>
        BY <4>4 DEF SliceAt
      <4> QED BY <2>2, <3>1, <4>5 DEF CutValue
    <3> QED BY <3>3, <3>4
  <2> QED BY <2>1, <2>2
<1>2. CutValue(Null, k) = Null
  BY DEF CutValue, IsListValue
<1> QED BY <1>1, <1>2 DEF IsMap, CutMap

(* A property read from a map is a value or null. *)
LEMMA GivenValue ==
  ASSUME NEW map, IsMap(map)
  PROVE  /\ \A p : Given(map, p) \in Values \cup {Null}
         /\ \A keys : \A p \in keys : Wanted(keys, map)[p] \in Values \cup {Null}
BY DEF IsMap, Given, Wanted

(* A nested operation is one the request has, on a relationship field of   *)
(* the field's type, and its parts are maps.                               *)
LEMMA NestedShape ==
  ASSUME NEW f, IsField(f), f.op \in {"create", "update"}, NEW at \in Nested(f)
  PROVE  /\ at[3] \in Candidates(f.label, NestedOp(f, at).field)
         /\ \E i \in DOMAIN Relationships :
              Relationships[i].from = f.label /\ Relationships[i].field = NestedOp(f, at).field
         /\ \A part : IsMap(Part(NestedItems(NestedOp(f, at))[at[4]], part))
         /\ at[4] \in DOMAIN NestedItems(NestedOp(f, at))
         /\ \/ f.op = "create" /\ NestedOp(f, at).op \in {"create", "connect"}
            \/ f.op = "update" /\ at[2] \in DOMAIN f.nested
<1> DEFINE op == NestedOp(f, at)
           all == {"create", "connect", "disconnect", "update", "delete"}
<1>1. /\ at[3] \in Candidates(f.label, op.field) /\ at[4] \in DOMAIN NestedItems(op)
      /\ \E ops : IsNested(op, f.label, ops)
      /\ \/ f.op = "create" /\ op.op \in {"create", "connect"}
         \/ f.op = "update" /\ at[2] \in DOMAIN f.nested
  <2>1. CASE f.op = "create"
    <3>0. PICK i \in DOMAIN f.items : \E j \in DOMAIN f.items[i].nested :
            \E k \in DOMAIN NestedItems(f.items[i].nested[j]),
               r \in Candidates(f.label, f.items[i].nested[j].field) : at = <<i, j, r, k>>
      BY <2>1 DEF Nested
    <3>1. PICK j \in DOMAIN f.items[i].nested :
            \E k \in DOMAIN NestedItems(f.items[i].nested[j]),
               r \in Candidates(f.label, f.items[i].nested[j].field) : at = <<i, j, r, k>>
      BY <3>0
    <3>2. PICK k \in DOMAIN NestedItems(f.items[i].nested[j]),
               r \in Candidates(f.label, f.items[i].nested[j].field) : at = <<i, j, r, k>>
      BY <3>1
    <3>3. at[1] = i /\ at[2] = j /\ at[3] = r /\ at[4] = k
      BY <3>2
    <3>4. op = f.items[i].nested[j]
      BY <2>1, <3>3 DEF NestedOp, NestedOps
    <3>5. IsNested(f.items[i].nested[j], f.label, {"create", "connect"})
      BY <2>1 DEF IsField
    <3> QED BY <2>1, <3>3, <3>4, <3>5 DEF IsNested
  <2>2. CASE f.op = "update"
    <3>1. PICK j \in DOMAIN f.nested :
            \E k \in DOMAIN NestedItems(f.nested[j]), r \in Leading(Candidates(f.label, f.nested[j].field)) :
              at = <<1, j, r, k>>
      BY <2>2 DEF Nested
    <3>2. PICK k \in DOMAIN NestedItems(f.nested[j]), r \in Leading(Candidates(f.label, f.nested[j].field)) :
            at = <<1, j, r, k>>
      BY <3>1
    <3>3. at[2] = j /\ at[3] = r /\ at[4] = k
      BY <3>2
    <3>4. op = f.nested[j]
      BY <2>2, <3>3 DEF NestedOp, NestedOps
    <3>5. IsNested(f.nested[j], f.label, all)
      BY <2>2 DEF IsField
    <3>6. r \in Candidates(f.label, f.nested[j].field)
      BY DEF Leading
    <3> QED BY <2>2, <3>3, <3>4, <3>5, <3>6
  <2> QED BY <2>1, <2>2
<1> HIDE DEF op
<1>2. ASSUME NEW part PROVE IsMap(Part(NestedItems(op)[at[4]], part))
  <2>1. IsMap(NoProps)
    BY DEF IsMap, NoProps
  <2>2. CASE op.listed
    <3>1. NestedItems(op) = op.items
      BY <2>2 DEF NestedItems
    <3> QED BY <1>1, <2>1, <3>1 DEF IsNested, Part
  <2>3. CASE ~op.listed
    <3>1. NestedItems(op)[at[4]] = [p \in {} |-> NoProps]
      BY <1>1, <2>3 DEF NestedItems
    <3>2. part \notin DOMAIN NestedItems(op)[at[4]]
      BY <3>1
    <3> QED BY <2>1, <3>2 DEF Part
  <2> QED BY <2>2, <2>3
<1> QED BY <1>1, <1>2 DEF IsNested, op

LEMMA CandidateDefinition ==
  ASSUME NEW l, NEW field_, NEW i \in Candidates(l, field_)
  PROVE  i \in DOMAIN Relationships /\ Relationships[i] \in RelationshipDefinition /\ Relationships[i].field = field_
<1>1. i \in DOMAIN Relationships /\ Relationships[i].field = field_
  BY DEF Candidates, RelationshipsForNode
<1>2. Relationships \in Seq(RelationshipDefinition)
  BY GraphAssumption
<1> QED BY <1>1, <1>2

LEMMA PatternKind ==
  ASSUME NEW rel \in RelationshipDefinition, NEW m \in Nat, NEW n \in Nat
  PROVE  BuildRelPattern(rel, m, n) \in Edge
BY DEF BuildRelPattern, Edge, RelationshipDefinition

LEMMA MergeEdgesKind ==
  ASSUME NEW patterns, NEW map, IsMap(map), \A p \in patterns : p \in Edge, EdgeKinds(edges)
  PROVE  EdgeKinds(MergeEdges(patterns, map))
BY DEF MergeEdges, EdgeKinds, IsMap

LEMMA AssignKind ==
  ASSUME NEW x \in Node, NEW map, IsMap(map)
  PROVE  [x EXCEPT !.props = Assign(@, map)] \in Node
BY DEF Node, Assign, IsMap

(* A row of a field of the statement under way has maps for its parts. *)
LEMMA RowMaps ==
  ASSUME CallersInv, active \in Callers, field \in DOMAIN request[active], NEW j \in 1..Len(Rows)
  PROVE  /\ Current.op = "merge" => \A part \in {"match", "onCreate", "onMatch"} : IsMap(Rows[j][part])
         /\ Current.op = "connect" => \A part \in {"from", "to", "edge"} : IsMap(Rows[j][part])
         /\ Current.op = "create" => IsMap(Rows[j].props)
<1>1. IsField(Current)
  BY FieldShape DEF Current
<1>2. PICK k \in DOMAIN Items(Current) : Rows[j] = Items(Current)[k]
  BY SliceShape DEF Rows, Current
<1>3. Current.op \in {"merge", "connect", "create"} => Items(Current) = Current.items
  BY DEF Items
<1> QED BY <1>1, <1>2, <1>3 DEF IsField, IsList

(* The statement under way is at a field of the request. *)
LEMMA WritingAt ==
  ASSUME CallersInv, StatementInv, NEW op, Writing(op)
  PROVE  /\ active \in Callers /\ field \in DOMAIN request[active] /\ IsField(Current)
         /\ row + 1 \in 1..Len(Rows)
<1>1. active \in Callers /\ field \in DOMAIN request[active]
  BY AtField DEF Writing, StatementInv
<1>2. row \in Nat /\ row < Len(Rows)
  BY DEF Writing, StatementInv
<1>3. Len(Rows) \in Nat
  BY <1>1, SliceShape DEF Rows
<1> QED BY <1>1, <1>2, <1>3, FieldShape DEF Current

LEMMA BlockAt ==
  ASSUME CallersInv, StatementInv, \/ \E op : InBlock(op)
                                   \/ open
  PROVE  /\ active \in Callers /\ field \in DOMAIN request[active] /\ IsField(Current)
         /\ Len(Rows) \in Nat
<1>1. active \in Callers /\ field \in DOMAIN request[active]
  BY AtField DEF InBlock, StatementInv
<1> QED BY <1>1, FieldShape, SliceShape DEF Current, Rows

(* A nested block is one of the request's; its parts are maps. *)
LEMMA NestedAt ==
  ASSUME CallersInv, StatementInv, KindInv, NEW op, NEW at, NEW n, AtNested(op, at, n)
  PROVE  /\ IsField(Current) /\ Current.op \in {"create", "update"} /\ at \in Nested(Current)
         /\ n \in 1..fresh /\ n \in table
         /\ Relationship(at) \in RelationshipDefinition
         /\ \A part : IsMap(NestedPart(at, part))
<1>1. open /\ <<at, n>> \in todo
  BY DEF AtNested
<1>2. at \in Nested(Current) /\ n \in table /\ n \in 1..fresh
  BY <1>1 DEF KindInv
<1>3. IsField(Current) /\ Current.op \in {"create", "update"}
  BY <1>1, BlockAt DEF StatementInv
<1>4. at[3] \in Candidates(Current.label, NestedOp(Current, at).field)
  BY <1>2, <1>3, NestedShape
<1>5. Relationship(at) \in RelationshipDefinition
  BY <1>4, CandidateDefinition DEF Relationship
<1>6. \A part : IsMap(NestedPart(at, part))
  <2>1. chunk[active] \in Nat \ {0}
    BY <1>1, BlockAt DEF CallersInv
  <2> QED BY <1>2, <1>3, <2>1, NestedShape, CutKind DEF NestedPart
<1> QED BY <1>2, <1>3, <1>5, <1>6

LEMMA WriteKinds ==
  ASSUME CallersInv, StatementInv, KindInv, Merge \/ Connect
  PROVE  Kinds(nodes', edges', fresh')
<1>1. Kinds(nodes, edges, fresh)
  BY DEF KindInv
<1>2. CASE Merge
  <2> DEFINE item == Rows[row + 1]
             ks == KeysOf(Current, "match")
             want == Wanted(ks, item.match)
             made == [p \in Props |-> IF p \in ks THEN want[p] ELSE Given(item.onCreate, p)]
             new == fresh + 1
  <2>1. /\ IsField(Current) /\ edges' = edges
        /\ IsMap(item.match) /\ IsMap(item.onCreate) /\ IsMap(item.onMatch)
    <3>1. Writing("merge") /\ Current.op = "merge" /\ edges' = edges
      BY <1>2 DEF Merge, Writing
    <3> QED BY <3>1, WritingAt, RowMaps
  <2>2. PICK found :
        \/ /\ fresh' = new
           /\ nodes' = [n \in DOMAIN nodes \cup {new} |->
                IF n \in DOMAIN nodes THEN nodes[n] ELSE [label |-> Current.label, props |-> made]]
        \/ /\ fresh' = fresh
           /\ nodes' = [n \in DOMAIN nodes |->
                IF n \in found
                THEN [nodes[n] EXCEPT !.props = [p \in Props |->
                        IF Given(item.onMatch, p) # Null THEN item.onMatch[p] ELSE @[p]]]
                ELSE nodes[n]]
    BY <1>2, RowFinds
  <2>3. made \in [Props -> Values \cup {Null}]
    BY <2>1, GivenValue
  <2>4. \A p : Given(item.onMatch, p) # Null => item.onMatch[p] \in Values \cup {Null}
    BY <2>1 DEF Given, IsMap
  <2>5. Current.label \in Labels
    BY <2>1 DEF IsField
  <2>6. \A n \in DOMAIN nodes : nodes[n] \in Node /\ n \in 1..fresh /\ fresh \in Nat
    BY <1>1 DEF Kinds
  <2> HIDE DEF item, ks, want, made
  <2>7. CASE /\ fresh' = new
             /\ nodes' = [n \in DOMAIN nodes \cup {new} |->
                  IF n \in DOMAIN nodes THEN nodes[n] ELSE [label |-> Current.label, props |-> made]]
    <3>1. [label |-> Current.label, props |-> made] \in Node
      BY <2>3, <2>5 DEF Node
    <3>2. \A n \in DOMAIN nodes' : nodes'[n] \in Node /\ (n \in DOMAIN nodes \/ n = new)
      BY <2>6, <2>7, <3>1
    <3>3. fresh \in Nat
      BY <1>1 DEF Kinds
    <3>4. \A n \in DOMAIN nodes' : n \in 1..fresh'
      BY <2>6, <2>7, <3>2, <3>3
    <3>5. fresh' \in Nat /\ EdgeKinds(edges')
      BY <1>1, <2>1, <2>7, <3>3 DEF Kinds
    <3> QED BY <3>2, <3>4, <3>5 DEF Kinds
  <2>8. CASE /\ fresh' = fresh
             /\ nodes' = [n \in DOMAIN nodes |->
                  IF n \in found
                  THEN [nodes[n] EXCEPT !.props = [p \in Props |->
                          IF Given(item.onMatch, p) # Null THEN item.onMatch[p] ELSE @[p]]]
                  ELSE nodes[n]]
    <3>1. ASSUME NEW x \in Node
          PROVE  [x EXCEPT !.props = [p \in Props |->
                     IF Given(item.onMatch, p) # Null THEN item.onMatch[p] ELSE @[p]]] \in Node
      BY <2>4 DEF Node
    <3>2. \A n \in DOMAIN nodes' : n \in DOMAIN nodes /\ nodes'[n] \in Node
      BY <2>6, <2>8, <3>1
    <3> QED BY <1>1, <2>1, <2>6, <2>8, <3>2 DEF Kinds
  <2> QED BY <2>2, <2>7, <2>8
<1>3. CASE Connect
  <2> DEFINE item == Rows[row + 1]
  <2>1. PICK i \in DOMAIN Relationships :
          edges' = MergeEdges(RowPatterns(Current, Relationships[i], item), RowEdge(Relationships[i], item))
    BY <1>3 DEF Connect, Leading
  <2> DEFINE rel == Relationships[i]
             patterns == RowPatterns(Current, rel, item)
             map == RowEdge(rel, item)
  <2>2. IsMap(item.edge) /\ nodes' = nodes /\ fresh' = fresh
    <3>1. Writing("connect") /\ Current.op = "connect" /\ nodes' = nodes /\ fresh' = fresh
      BY <1>3 DEF Connect, Writing
    <3> QED BY <3>1, WritingAt, RowMaps
  <2>3. IsMap(map)
    BY <2>2, GivenValue DEF RowEdge, IsMap, NoProps
  <2>4. \A l, end : Ends(Current, item, l, end) \subseteq Nat
    BY <1>1 DEF Kinds, Labelled, Ends
  <2>5. rel \in RelationshipDefinition
    BY GraphAssumption
  <2>6. \A p \in patterns : p \in Edge
    BY <2>4, <2>5, PatternKind DEF RowPatterns
  <2>7. edges' = MergeEdges(patterns, map)
    BY <2>1
  <2> HIDE DEF patterns, map
  <2>8. EdgeKinds(edges')
    BY <1>1, <2>3, <2>6, <2>7, MergeEdgesKind DEF Kinds
  <2> QED BY <1>1, <2>2, <2>8 DEF Kinds
<1> QED BY <1>2, <1>3

(* Nodes and edges that go leave the others of their kind. *)
LEMMA DetachKinds ==
  ASSUME NEW dead, DetachDelete(dead), Kinds(nodes, edges, fresh), fresh' = fresh
  PROVE  Kinds(nodes', edges', fresh')
BY DEF DetachDelete, Kinds, EdgeKinds

LEMMA BlockKinds ==
  ASSUME CallersInv, StatementInv, KindInv, Create \/ Update \/ Delete
  PROVE  Kinds(nodes', edges', fresh')
<1>1. Kinds(nodes, edges, fresh)
  BY DEF KindInv
<1>2. /\ active \in Callers /\ field \in DOMAIN request[active] /\ IsField(Current)
      /\ Len(Rows) \in Nat
  BY BlockAt DEF Create, Update, Delete
<1>3. CASE Create
  <2>1. /\ Current.op = "create" /\ edges' = edges /\ fresh' = fresh + Len(Rows)
        /\ nodes' = [n \in DOMAIN nodes \cup (fresh + 1)..(fresh + Len(Rows)) |->
             IF n \in DOMAIN nodes THEN nodes[n]
             ELSE [label |-> Current.label, props |-> Wanted(Props, Rows[n - fresh].props)]]
    BY <1>3 DEF Create, InBlock
  <2>2. ASSUME NEW n \in (fresh + 1)..(fresh + Len(Rows))
        PROVE  [label |-> Current.label, props |-> Wanted(Props, Rows[n - fresh].props)] \in Node
    <3>1. n - fresh \in 1..Len(Rows)
      BY <1>1, <1>2 DEF Kinds
    <3>2. IsMap(Rows[n - fresh].props)
      BY <1>2, <2>1, <3>1, RowMaps
    <3>3. Wanted(Props, Rows[n - fresh].props) \in [Props -> Values \cup {Null}]
      BY <3>2, GivenValue DEF Wanted
    <3>4. Current.label \in Labels
      BY <1>2 DEF IsField
    <3> QED BY <3>3, <3>4 DEF Node
  <2>3. fresh \in Nat /\ \A n \in DOMAIN nodes : nodes[n] \in Node /\ n \in 1..fresh
    BY <1>1 DEF Kinds
  <2>4. \A n \in DOMAIN nodes' : nodes'[n] \in Node
    BY <2>1, <2>2, <2>3
  <2>5. \A n \in DOMAIN nodes' : n \in 1..fresh'
    BY <1>2, <2>1, <2>3
  <2>6. fresh' \in Nat /\ EdgeKinds(edges')
    BY <1>1, <1>2, <2>1 DEF Kinds
  <2> QED BY <2>4, <2>5, <2>6 DEF Kinds
<1>4. CASE Update
  <2> DEFINE set == CutMap(Current.set, chunk[active])
  <2>1. /\ Current.op = "update" /\ edges' = edges /\ fresh' = fresh
        /\ nodes' = [n \in DOMAIN nodes |->
             IF n \in Matching(Current.label, WhereNow) /\ Current.inline
             THEN [nodes[n] EXCEPT !.props = Assign(@, set)] ELSE nodes[n]]
    BY <1>4 DEF Update, InBlock
  <2>2. IsMap(set)
    <3>1. IsMap(Current.set)
      BY <1>2, <2>1 DEF IsField
    <3>2. chunk[active] \in Nat \ {0}
      BY <1>4, BlockAt DEF Update, CallersInv
    <3> QED BY <3>1, <3>2, CutKind
  <2> HIDE DEF set
  <2>3. \A n \in DOMAIN nodes : nodes[n] \in Node /\ [nodes[n] EXCEPT !.props = Assign(@, set)] \in Node
    BY <1>1, <2>2, AssignKind DEF Kinds
  <2>4. \A n \in DOMAIN nodes' : nodes'[n] \in Node /\ n \in DOMAIN nodes
    BY <2>1, <2>3
  <2> QED BY <1>1, <2>1, <2>4 DEF Kinds
<1>5. CASE Delete
  <2>1. DetachDelete(Matching(Current.label, WhereNow)) /\ fresh' = fresh
    BY <1>5 DEF Delete
  <2> QED BY <1>1, <2>1, DetachKinds
<1> QED BY <1>3, <1>4, <1>5

LEMMA NestedKinds ==
  ASSUME CallersInv, StatementInv, KindInv, NestedStep
  PROVE  Kinds(nodes', edges', fresh')
<1> PICK at, n : \/ NestedCreate(at, n) \/ NestedConnect(at, n) \/ NestedDisconnect(at, n)
                 \/ NestedUpdate(at, n) \/ NestedDelete(at, n)
  BY DEF NestedStep
<1>1. Kinds(nodes, edges, fresh)
  BY DEF KindInv
<1>2. /\ n \in Nat /\ Relationship(at) \in RelationshipDefinition
      /\ \A part : IsMap(NestedPart(at, part))
  <2>1. \E op : AtNested(op, at, n)
    BY DEF NestedCreate, NestedConnect, NestedDisconnect, NestedUpdate, NestedDelete
  <2>2. n \in 1..fresh
    BY <2>1, NestedAt
  <2>3. fresh \in Nat
    BY <1>1 DEF Kinds
  <2> QED BY <2>1, <2>2, <2>3, NestedAt
<1>3. CASE NestedCreate(at, n)
  <2> DEFINE child == fresh + 1
             edge == BuildRelPattern(Relationship(at), n, child)
             made == [label |-> Relationship(at).to, props |-> Wanted(Props, NestedPart(at, "node"))]
             role == Given(NestedPart(at, "edge"), "role")
  <2>1. /\ nodes' = [m \in DOMAIN nodes \cup {child} |-> IF m = child THEN made ELSE nodes[m]]
        /\ edges' = [e \in DOMAIN edges \cup {edge} |-> IF e = edge THEN role ELSE edges[e]]
        /\ fresh' = child
    BY <1>3 DEF NestedCreate
  <2>2. made \in Node
    <3>1. Wanted(Props, NestedPart(at, "node")) \in [Props -> Values \cup {Null}]
      BY <1>2, GivenValue DEF Wanted
    <3>2. Relationship(at).to \in Labels
      BY <1>2 DEF RelationshipDefinition
    <3> QED BY <3>1, <3>2 DEF Node
  <2>3. fresh \in Nat /\ child \in Nat
    BY <1>1 DEF Kinds
  <2>4. edge \in Edge /\ role \in Values \cup {Null}
    BY <1>2, <2>3, PatternKind, GivenValue
  <2>5. \A m \in DOMAIN nodes : nodes[m] \in Node /\ m \in 1..fresh
    BY <1>1 DEF Kinds
  <2> HIDE DEF made, edge, role
  <2>6. \A m \in DOMAIN nodes' : nodes'[m] \in Node
    BY <2>1, <2>2, <2>5
  <2>7. \A m \in DOMAIN nodes' : m \in 1..fresh'
    BY <2>1, <2>3, <2>5
  <2>8. EdgeKinds(edges')
    BY <1>1, <2>1, <2>4 DEF Kinds, EdgeKinds
  <2> QED BY <2>1, <2>3, <2>6, <2>7, <2>8 DEF Kinds
<1>4. CASE NestedConnect(at, n)
  <2> DEFINE patterns == {BuildRelPattern(Relationship(at), n, m) :
                            m \in {k \in Labelled(Relationship(at).to) : Equals(k, NestedPart(at, "where"))}}
  <2>1. edges' = MergeEdges(patterns, NestedPart(at, "edge")) /\ nodes' = nodes /\ fresh' = fresh
    BY <1>4 DEF NestedConnect
  <2>2. \A k \in DOMAIN nodes : k \in Nat
    BY <1>1 DEF Kinds
  <2>3. \A p \in patterns : p \in Edge
    BY <1>2, <2>2, PatternKind DEF Labelled
  <2> HIDE DEF patterns
  <2>4. EdgeKinds(edges')
    BY <1>1, <1>2, <2>1, <2>3, MergeEdgesKind DEF Kinds
  <2> QED BY <1>1, <2>1, <2>4 DEF Kinds
<1>5. CASE NestedDisconnect(at, n)
  BY <1>1, <1>5 DEF NestedDisconnect, Kinds, EdgeKinds
<1>6. CASE NestedUpdate(at, n)
  <2> DEFINE map == NestedPart(at, "edge")
  <2>1. /\ nodes' = [m \in DOMAIN nodes |->
             IF m \in Targets(at, n)
             THEN [nodes[m] EXCEPT !.props = Assign(@, NestedPart(at, "node"))] ELSE nodes[m]]
        /\ edges' = [e \in DOMAIN edges |->
             IF e \in Between(at, n) /\ "role" \in DOMAIN map THEN map["role"] ELSE edges[e]]
        /\ fresh' = fresh
    BY <1>6 DEF NestedUpdate
  <2>2. IsMap(map)
    BY <1>2
  <2>3. \A m \in DOMAIN nodes :
          nodes[m] \in Node /\ [nodes[m] EXCEPT !.props = Assign(@, NestedPart(at, "node"))] \in Node
    BY <1>1, <1>2, AssignKind DEF Kinds
  <2>4. \A m \in DOMAIN nodes' : nodes'[m] \in Node /\ m \in DOMAIN nodes
    BY <2>1, <2>3
  <2> HIDE DEF map
  <2>5. EdgeKinds(edges')
    BY <1>1, <2>1, <2>2 DEF Kinds, EdgeKinds, IsMap
  <2> QED BY <1>1, <2>1, <2>4, <2>5 DEF Kinds
<1>7. CASE NestedDelete(at, n)
  <2>1. DetachDelete(Targets(at, n)) /\ fresh' = fresh
    BY <1>7 DEF NestedDelete
  <2> QED BY <1>1, <2>1, DetachKinds
<1> QED BY <1>3, <1>4, <1>5, <1>6, <1>7

LEMMA NoGraph ==
  ASSUME NEW g, g = [nodes |-> <<>>, edges |-> <<>>, fresh |-> 0]
  PROVE  Kinds(g.nodes, g.edges, g.fresh)
BY DEF Kinds, EdgeKinds

(* The graph, and the one a failed statement goes back to. *)
LEMMA GraphsStep ==
  ASSUME CallersInv, StatementInv, KindInv, [Next]_vars
  PROVE  Kinds(nodes', edges', fresh') /\ Kinds(before'.nodes, before'.edges, before'.fresh)
<1> DEFINE none == [nodes |-> <<>>, edges |-> <<>>, fresh |-> 0]
<1>1. Kinds(nodes, edges, fresh) /\ Kinds(before.nodes, before.edges, before.fresh)
  BY DEF KindInv
<1>2. Kinds(none.nodes, none.edges, none.fresh)
  BY NoGraph
<1>3. CASE \E c \in Callers : BeginWrite(c) \/ BeginRead(c)
  <2>1. UNCHANGED <<nodes, edges, fresh>> /\ before' = [nodes |-> nodes, edges |-> edges, fresh |-> fresh]
    BY <1>3 DEF BeginWrite, BeginRead, Begin, graphVars
  <2>2. before'.nodes = nodes /\ before'.edges = edges /\ before'.fresh = fresh
    BY <2>1
  <2> QED BY <1>1, <2>1, <2>2
<1>4. CASE \/ \E c \in Callers : (\E req \in Requests : Execute(c, req)) \/ ReadRefused(c) \/ Resume(c)
           \/ ReadMerged \/ CountConnected \/ Collect \/ NextBlock \/ UNCHANGED vars
  <2>1. UNCHANGED <<nodes, edges, fresh, before>>
    BY <1>4 DEF Execute, ReadRefused, Resume, ReadMerged, CountConnected, Collect, NextBlock, Return,
                vars, graphVars, stmtVars
  <2> QED BY <1>1, <2>1
<1>5. CASE EndWrite \/ EndRead \/ ReplyLost
  <2>1. UNCHANGED <<nodes, edges, fresh>> /\ before' = none
    BY <1>5 DEF EndWrite, EndRead, ReplyLost, Release, Finished, graphVars
  <2> QED BY <1>1, <1>2, <2>1
<1>6. CASE Fail
  <2>1. nodes' = before.nodes /\ edges' = before.edges /\ fresh' = before.fresh /\ before' = none
    BY <1>6 DEF Fail, Finished
  <2> QED BY <1>1, <1>2, <2>1
<1>7. CASE Merge \/ Connect
  <2>1. before' = before
    BY <1>7 DEF Merge, Connect
  <2> QED BY <1>1, <1>7, <2>1, WriteKinds
<1>8. CASE Create \/ Update \/ Delete
  <2>1. before' = before
    BY <1>8 DEF Create, Update, Delete, Open, Return, stmtVars
  <2> QED BY <1>1, <1>8, <2>1, BlockKinds
<1>9. CASE NestedStep
  <2>1. before' = before
    BY <1>9 DEF NestedStep, NestedCreate, NestedConnect, NestedDisconnect, NestedUpdate, NestedDelete,
                AtNested, stmtVars
  <2> QED BY <1>1, <1>9, <2>1, NestedKinds
<1> QED BY <1>3, <1>4, <1>5, <1>6, <1>7, <1>8, <1>9 DEF Next, DatabaseStep

(* Chunk numbers grow only while there is a chunk left. *)
LEMMA ChunkStep ==
  ASSUME CallersInv, StatementInv, KindInv, [Next]_vars
  PROVE  \A c \in Callers : HasChunk(request'[c], chunk'[c])
<1>1. \A c \in Callers : HasChunk(request[c], chunk[c])
  BY DEF KindInv
<1>2. CASE \E c \in Callers, req \in Requests : Execute(c, req)
  <2> PICK c \in Callers, req \in Requests : Execute(c, req)
    BY <1>2
  <2>1. request[c] = <<>> /\ request' = [request EXCEPT ![c] = req] /\ chunk' = chunk
    BY DEF Execute, CallersInv
  <2>2. chunk[c] = 1
    BY <1>1, <2>1 DEF HasChunk
  <2>3. \A d \in Callers \ {c} : request'[d] = request[d]
    BY <2>1 DEF CallersInv
  <2> QED BY <1>1, <2>1, <2>2, <2>3 DEF HasChunk
<1>3. CASE EndRead
  <2>1. active \in Callers /\ request' = request
    BY <1>3 DEF EndRead, ReadComplete, Release, StatementInv
  <2>2. \/ chunk' = chunk
        \/ HasChunk(request[active], chunk[active] + 1) /\ chunk' = [chunk EXCEPT ![active] = @ + 1]
    BY <1>3 DEF EndRead
  <2> QED BY <1>1, <2>1, <2>2 DEF CallersInv
<1>4. CASE \/ \E c \in Callers : BeginWrite(c) \/ BeginRead(c) \/ ReadRefused(c) \/ Resume(c)
           \/ EndWrite \/ Fail \/ ReplyLost
  <2>1. chunk' = chunk /\ request' = request
    BY <1>4 DEF BeginWrite, BeginRead, Begin, ReadRefused, Resume, EndWrite, Fail, ReplyLost, Release, callVars
  <2> QED BY <1>1, <2>1
<1>5. CASE \/ Merge \/ Connect \/ ReadMerged \/ CountConnected \/ Create \/ Update \/ Delete
           \/ NestedStep \/ Collect \/ NextBlock \/ UNCHANGED vars
  <2>1. chunk' = chunk /\ request' = request
    BY <1>5, BlocksLeaveCalls DEF callVars
  <2> QED BY <1>1, <2>1
<1> QED BY <1>2, <1>3, <1>4, <1>5 DEF Next, DatabaseStep

(* What a merge may overlook are nodes of the graph, or were. *)
LEMMA UnseenKind ==
  ASSUME CallersInv, StatementInv, KindInv, [Next]_vars
  PROVE  unseen' \in [Callers -> SUBSET Nat] /\ met' \subseteq Labels
<1> USE DEF KindInv
<1>1. CASE \E c \in Callers : \/ \E req \in Requests : Execute(c, req)
                              \/ BeginWrite(c) \/ BeginRead(c) \/ ReadRefused(c) \/ Resume(c)
  BY <1>1 DEF Execute, BeginWrite, BeginRead, Begin, ReadRefused, Resume, callVars
<1>2. CASE \/ Merge \/ Connect \/ ReadMerged \/ CountConnected \/ Create \/ Update \/ Delete
           \/ NestedStep \/ Collect \/ NextBlock \/ UNCHANGED vars
  BY <1>2, BlocksLeaveCalls DEF callVars
<1>3. CASE Fail
  BY <1>3 DEF Fail
<1>4. CASE EndWrite \/ EndRead \/ ReplyLost
  <2>1. /\ unseen' = [c \in Callers |-> IF c = active THEN {} ELSE unseen[c] \cup Missed(c)]
        /\ met' = met \cup {nodes[n].label : n \in UNION {Missed(c) : c \in Callers}}
    BY <1>4 DEF EndWrite, EndRead, ReplyLost, Release, Committed
  <2>2. \A c \in Callers : Missed(c) \subseteq DOMAIN nodes
    BY DEF Missed
  <2>3. \A n \in DOMAIN nodes : n \in Nat /\ nodes[n].label \in Labels
    BY DEF Kinds, Node
  <2> QED BY <2>1, <2>2, <2>3
<1> QED BY <1>1, <1>2, <1>3, <1>4 DEF Next, DatabaseStep

LEMMA KindStep ==
  ASSUME CallersInv, StatementInv, KindInv, [Next]_vars
  PROVE  KindInv'
<1> DEFINE AtItsField == active # Nobody => field <= Len(request[active]) + 1
           Left == open => table \subseteq 1..fresh /\ todo \subseteq Nested(Current) \X table
           Numbers == left \in Nat /\ out \in Nat /\ row \in Nat /\ retries \in 0..MaxRetries
<1>1. AtItsField /\ Left /\ Numbers /\ fresh \in Nat /\ fresh' \in Nat
  BY GraphsStep DEF KindInv, Kinds
<1> SUFFICES AtItsField' /\ Left' /\ Numbers'
  BY GraphsStep, ChunkStep, UnseenKind DEF KindInv
<1>2. CASE \E c \in Callers : (\E req \in Requests : Execute(c, req)) \/ ReadRefused(c) \/ Resume(c)
  <2> PICK c \in Callers : (\E req \in Requests : Execute(c, req)) \/ ReadRefused(c) \/ Resume(c)
    BY <1>2
  <2>1. /\ UNCHANGED <<active, field, left, out, row, open, table, todo, fresh>>
        /\ active # Nobody => c # active
    BY DEF Execute, ReadRefused, Resume, stmtVars, blockVars, graphVars, StatementInv
  <2>2. active # Nobody => request'[active] = request[active]
    <3>1. request' = request \/ \E req \in Requests : request' = [request EXCEPT ![c] = req]
      BY DEF Execute, ReadRefused, Resume
    <3>2. DOMAIN request = Callers /\ active \in Callers \cup {Nobody}
      BY DEF CallersInv, StatementInv
    <3> QED BY <2>1, <3>1, <3>2
  <2>3. retries' \in 0..MaxRetries
    BY <1>1, MutationsAssumption DEF Execute, ReadRefused, Resume
  <2>4. open => active # Nobody
    BY DEF StatementInv
  <2>5. Left'
    BY <1>1, <2>1, <2>2, <2>4 DEF Current
  <2> QED BY <1>1, <2>1, <2>2, <2>3, <2>5
<1>3. CASE \E c \in Callers : BeginWrite(c) \/ BeginRead(c)
  <2> PICK c \in Callers : BeginWrite(c) \/ BeginRead(c)
    BY <1>3
  <2>1. active = Nobody /\ active' = c /\ request' = request /\ retries' = retries /\ row' = 0
    BY DEF BeginWrite, BeginRead, Begin, callVars
  <2>2. ~open /\ ~open'
    BY <2>1 DEF BeginWrite, BeginRead, blockVars, StatementInv
  <2>3. request[c] \in Requests \cup {<<>>} /\ due[c] \subseteq Writes(request[c])
    BY DEF CallersInv
  <2>4. /\ DOMAIN request[c] = 1..Len(request[c]) /\ Len(request[c]) \in Nat
        /\ Writes(request[c]) \subseteq DOMAIN request[c]
    BY <2>3, RequestShape
  <2>5. field' \in due[c] \/ field' = 1
    BY DEF BeginWrite, BeginRead, NextWrite
  <2>6. field' <= Len(request[c]) + 1
    BY <2>3, <2>4, <2>5
  <2>7. left' \in Nat /\ out' \in Nat
    BY <1>1 DEF BeginWrite, BeginRead, blockVars
  <2> QED BY <1>1, <2>1, <2>2, <2>6, <2>7
<1>4. CASE Merge \/ Connect
  <2>1. /\ UNCHANGED <<active, field, request, retries, left, out>> /\ row' = row + 1
        /\ ~reading /\ UNCHANGED open
    BY <1>4 DEF Merge, Connect, Writing, callVars, blockVars
  <2>2. ~open'
    BY <2>1 DEF StatementInv
  <2> QED BY <1>1, <2>1, <2>2
<1>5. CASE ReadMerged \/ CountConnected \/ Collect \/ Delete
  <2>1. /\ UNCHANGED <<active, field, request, retries, row>> /\ left' = left - 1 /\ ~open' /\ left > 0
    BY <1>5 DEF ReadMerged, CountConnected, Collect, Delete, Return, InBlock, callVars, stmtVars, StatementInv
  <2>2. out' \in Nat
    <3>1. CASE ReadMerged \/ CountConnected \/ Collect
      <4>1. out' = out + 1
        BY <3>1 DEF ReadMerged, CountConnected, Collect, Return
      <4> QED BY <1>1, <4>1
    <3>2. CASE Delete
      <4>1. PICK found : /\ found = Matching(Current.label, WhereNow)
                         /\ out' = out + Cardinality(found)
        BY <3>2 DEF Delete, Return
      <4>2. found \subseteq 1..fresh
        BY <4>1 DEF Matching, Labelled, KindInv, Kinds
      <4>3. IsFiniteSet(1..fresh)
        BY <1>1, FS_Interval
      <4>4. IsFiniteSet(found)
        BY <4>2, <4>3, FS_Subset
      <4>5. Cardinality(found) \in Nat
        BY <4>4, FS_CardinalityType
      <4> QED BY <1>1, <4>1, <4>5
    <3> QED BY <1>5, <3>1, <3>2
  <2> QED BY <1>1, <2>1, <2>2
<1>6. CASE Create \/ Update
  <2>1. UNCHANGED <<active, field, request, retries, row, left, out>>
    BY <1>6 DEF Create, Update, Open, callVars, stmtVars
  <2>2. PICK bound : table' = bound /\ todo' = Nested(Current) \X bound
    BY <1>6 DEF Create, Update, Open
  <2>3. table' \subseteq 1..fresh'
    <3>1. CASE Create
      <4>1. /\ table' = (fresh + 1)..(fresh + Len(Rows)) /\ fresh' = fresh + Len(Rows)
            /\ Len(Rows) \in Nat
        BY <3>1, BlockAt DEF Create, Open
      <4> QED BY <1>1, <4>1
    <3>2. CASE Update
      <4>1. table' = Matching(Current.label, WhereNow) /\ fresh' = fresh
        BY <3>2 DEF Update, Open
      <4>2. \A n \in DOMAIN nodes : n \in 1..fresh
        BY DEF KindInv, Kinds
      <4> QED BY <4>1, <4>2 DEF Matching, Labelled
    <3> QED BY <1>6, <3>1, <3>2
  <2>4. Nested(Current)' = Nested(Current)
    BY <2>1 DEF Current
  <2>5. Left'
    BY <2>2, <2>3, <2>4
  <2> QED BY <1>1, <2>1, <2>5
<1>7. CASE NestedStep
  <2>1. UNCHANGED <<active, field, request, retries, row, left, out, open, table>>
    BY <1>7 DEF NestedStep, NestedCreate, NestedConnect, NestedDisconnect, NestedUpdate, NestedDelete,
                AtNested, callVars, stmtVars
  <2>2. open /\ todo' \subseteq todo
    BY <1>7 DEF NestedStep, NestedCreate, NestedConnect, NestedDisconnect, NestedUpdate, NestedDelete, AtNested
  <2>3. fresh' \in {fresh, fresh + 1}
    BY <1>7 DEF NestedStep, NestedCreate, NestedConnect, NestedDisconnect, NestedUpdate, NestedDelete
  <2>4. table' \subseteq 1..fresh'
    BY <1>1, <2>1, <2>2, <2>3
  <2>5. Nested(Current)' = Nested(Current)
    BY <2>1 DEF Current
  <2>6. Left'
    BY <1>1, <2>1, <2>2, <2>4, <2>5
  <2> QED BY <1>1, <2>1, <2>6
<1>8. CASE NextBlock
  <2>1. /\ UNCHANGED <<active, request, retries, row, open>> /\ field' = field + 1
        /\ left' = out /\ out' = 0 /\ active # Nobody /\ field <= Len(request[active]) /\ left = 0
    BY <1>8 DEF NextBlock, callVars
  <2>2. ~open /\ field \in Nat
    BY <1>1, <2>1 DEF StatementInv
  <2>3. Len(request[active]) \in Nat
    BY <2>1, RequestShape DEF CallersInv, StatementInv
  <2>4. AtItsField'
    BY <2>1, <2>2, <2>3
  <2> QED BY <1>1, <2>1, <2>2, <2>4
<1>9. CASE EndWrite \/ EndRead \/ Fail \/ ReplyLost
  <2>1. active' = Nobody /\ row' = 0 /\ left' = 0 /\ out' = 0 /\ open' = FALSE /\ retries' = retries
    BY <1>9 DEF EndWrite, EndRead, Fail, ReplyLost, Release, Finished
  <2> QED BY <1>1, <2>1
<1>10. CASE UNCHANGED vars
  <2>1. UNCHANGED <<active, field, request, retries, row, left, out, open, table, todo, fresh>>
    BY <1>10 DEF vars, graphVars, blockVars, stmtVars, callVars
  <2> QED BY <1>1, <2>1 DEF Current
<1> QED BY <1>2, <1>3, <1>4, <1>5, <1>6, <1>7, <1>8, <1>9, <1>10 DEF Next, DatabaseStep

TypesInv == CallersInv /\ StatementInv /\ KindInv

LEMMA KindInit ==
  ASSUME Init
  PROVE  KindInv
<1>1. PICK g \in Graphs : nodes = g.nodes /\ edges = g.edges
  BY DEF Init
<1>2. /\ nodes \in Seq(Node)
      /\ EdgeKinds(edges)
  BY <1>1, MutationsAssumption DEF IsGraph, EdgeKinds
<1>3. DOMAIN nodes = 1..Len(nodes) /\ Len(nodes) \in Nat
  BY <1>2
<1>4. fresh \in Nat /\ \A n \in DOMAIN nodes : n \in 1..fresh
  <2> DEFINE all == {0} \cup DOMAIN nodes
  <2>1. fresh = Max(all)
    BY DEF Init
  <2>2. IsFiniteSet(DOMAIN nodes \cup {0}) /\ DOMAIN nodes \cup {0} = all
    <3>1. IsFiniteSet(DOMAIN nodes)
      BY <1>3, FS_Interval
    <3> QED BY <3>1, FS_AddElement
  <2>3. all \in SUBSET Nat /\ all # {}
    BY <1>3
  <2> HIDE DEF all
  <2>4. Max(all) \in all /\ \A x \in all : x <= Max(all)
    BY <2>2, <2>3, FiniteMax
  <2>5. \A n \in DOMAIN nodes : n \in all
    BY <2>2
  <2>6. PICK last \in Nat : last = fresh
    BY <2>1, <2>3, <2>4
  <2>7. \A n \in DOMAIN nodes : n <= last
    BY <2>1, <2>4, <2>5, <2>6
  <2> QED BY <1>3, <2>6, <2>7
<1>5. \A n \in DOMAIN nodes : nodes[n] \in Node
  BY <1>2
<1>6. Kinds(nodes, edges, fresh)
  BY <1>2, <1>4, <1>5 DEF Kinds
<1>7. Kinds(before.nodes, before.edges, before.fresh)
  BY NoGraph DEF Init, NoStatement
<1>8. /\ \A c \in Callers : HasChunk(request[c], chunk[c])
      /\ unseen \in [Callers -> SUBSET Nat] /\ met \subseteq Labels
  BY DEF Init, HasChunk
<1>9. /\ active = Nobody /\ ~open /\ left \in Nat /\ out \in Nat /\ row \in Nat
      /\ retries \in 0..MaxRetries
  BY MutationsAssumption DEF Init, NoStatement
<1> QED BY <1>6, <1>7, <1>8, <1>9 DEF KindInv

THEOREM KindInvariance == Spec => []TypesInv
<1>1. Init => TypesInv
  <2> SUFFICES ASSUME Init PROVE TypesInv
    OBVIOUS
  <2>1. CallersInv
    BY DEF Init, CallersInv, Writes
  <2>2. StatementInv
    BY DEF Init, NoStatement, StatementInv
  <2> QED BY <2>1, <2>2, KindInit DEF TypesInv
<1>2. TypesInv /\ [Next]_vars => TypesInv'
  BY CallersStep, StatementStep, KindStep DEF TypesInv
<1> QED BY <1>1, <1>2, PTL DEF Spec

(* Every variable keeps its kind, and a chunk is one of the request's,     *)
(* whatever the graph, the requests and the values in them.                *)
THEOREM TypesOK == Spec => []TypeOK
<1>1. TypesInv => TypeOK
  <2> SUFFICES ASSUME TypesInv PROVE TypeOK
    OBVIOUS
  <2>1. /\ \A n \in DOMAIN nodes : nodes[n] \in Node
        /\ \A e \in DOMAIN edges : e \in Edge /\ edges[e] \in Values \cup {Null}
        /\ fresh \in Nat /\ \A n \in DOMAIN nodes : n <= fresh
    BY DEF TypesInv, KindInv, Kinds, EdgeKinds
  <2>2. \A c \in Callers : /\ due[c] \subseteq Writes(request[c])
                          /\ chunk[c] \in Nat \ {0} /\ HasChunk(request[c], chunk[c])
    BY DEF TypesInv, CallersInv, KindInv
  <2>3. active # Nobody => /\ status[active] = "running"
                           /\ field \in 1..(Len(request[active]) + 1)
    <3>1. active # Nobody => Len(request[active]) \in Nat
      BY RequestShape DEF TypesInv, CallersInv, StatementInv
    <3> QED BY <3>1 DEF TypesInv, StatementInv, KindInv
  <2> QED BY <2>1, <2>2, <2>3 DEF TypeOK, TypesInv, CallersInv, StatementInv, KindInv
<1> QED BY <1>1, KindInvariance, PTL
-----------------------------------------------------------------------------
(* Edges and the schema. *)

(* No two types have relationship fields of one name that lead from one to *)
(* the other.  Where they do, RelationshipsForNode gives a nested field    *)
(* both definitions, and the one that starts at the other type makes edges *)
(* the schema does not have.                                               *)
NamesApart ==
  \A i, j \in DOMAIN Relationships :
    Relationships[i].field = Relationships[j].field /\ Relationships[i].to = Relationships[j].from
      => Relationships[i].from = Relationships[j].from

(* The nodes bound to n that no nested delete removed are of the field's   *)
(* type.                                                                   *)
FitInv ==
  /\ Fits(nodes, edges) /\ Fits(before.nodes, before.edges)
  /\ open => \A n \in table \cap DOMAIN nodes : nodes[n].label = Current.label

SameLabels(ns, ms) == \A n \in DOMAIN ns : n \in DOMAIN ms => ms[n].label = ns[n].label

LEMMA PatternJoins ==
  ASSUME NEW ns, NEW i \in DOMAIN Relationships, NEW m \in DOMAIN ns, NEW n \in DOMAIN ns,
         ns[m].label = Relationships[i].from, ns[n].label = Relationships[i].to
  PROVE  Joins(ns, BuildRelPattern(Relationships[i], m, n))
BY DEF Joins, BuildRelPattern

LEMMA LabelsJoin ==
  ASSUME NEW ns, NEW ms, SameLabels(ns, ms), NEW e, Joins(ns, e), e.from \in DOMAIN ms, e.to \in DOMAIN ms
  PROVE  Joins(ms, e)
BY DEF Joins, SameLabels

(* Where nodes stay and keep their labels, and the edges that are new fit, *)
(* all fit.                                                                *)
LEMMA FitsKept ==
  ASSUME NEW ns, NEW ms, NEW es, NEW fs, Fits(ns, es), SameLabels(ns, ms), DOMAIN ns \subseteq DOMAIN ms,
         \A e \in DOMAIN fs \ DOMAIN es : Joins(ms, e)
  PROVE  Fits(ms, fs)
<1> SUFFICES ASSUME NEW e \in DOMAIN fs PROVE Joins(ms, e)
  BY DEF Fits
<1>1. CASE e \in DOMAIN es
  <2>1. Joins(ns, e)
    BY <1>1 DEF Fits
  <2>2. e.from \in DOMAIN ms /\ e.to \in DOMAIN ms
    BY <2>1 DEF Joins
  <2> QED BY <2>1, <2>2, LabelsJoin
<1> QED BY <1>1

LEMMA FitsDetached ==
  ASSUME NEW dead, DetachDelete(dead), Fits(nodes, edges)
  PROVE  Fits(nodes', edges') /\ SameLabels(nodes, nodes')
<1>1. /\ nodes' = [n \in DOMAIN nodes \ dead |-> nodes[n]]
      /\ edges' = [e \in {d \in DOMAIN edges : d.from \notin dead /\ d.to \notin dead} |-> edges[e]]
  BY DEF DetachDelete
<1>2. SameLabels(nodes, nodes')
  BY <1>1 DEF SameLabels
<1>3. ASSUME NEW e \in DOMAIN edges' PROVE Joins(nodes', e)
  <2>1. e \in DOMAIN edges /\ e.from \notin dead /\ e.to \notin dead
    BY <1>1
  <2>2. Joins(nodes, e)
    BY <2>1 DEF Fits
  <2>3. e.from \in DOMAIN nodes' /\ e.to \in DOMAIN nodes'
    BY <1>1, <2>1, <2>2 DEF Joins
  <2> QED BY <1>2, <2>2, <2>3, LabelsJoin
<1> QED BY <1>2, <1>3 DEF Fits

(* A change of properties leaves the label. *)
LEMMA LabelStays ==
  ASSUME NEW x \in Node, NEW props
  PROVE  [x EXCEPT !.props = props].label = x.label
BY DEF Node

LEMMA MergeEdgesFit ==
  ASSUME NEW patterns, NEW map, \A p \in patterns : Joins(nodes, p), Fits(nodes, edges)
  PROVE  Fits(nodes, MergeEdges(patterns, map))
BY DEF MergeEdges, Fits

LEMMA WriteFits ==
  ASSUME CallersInv, StatementInv, KindInv, FitInv, Merge \/ Connect
  PROVE  Fits(nodes', edges')
<1>1. CASE Merge
  <2> DEFINE item == Rows[row + 1]
             ks == KeysOf(Current, "match")
             want == Wanted(ks, item.match)
             made == [p \in Props |-> IF p \in ks THEN want[p] ELSE Given(item.onCreate, p)]
             props(n) == [p \in Props |-> IF Given(item.onMatch, p) # Null THEN item.onMatch[p] ELSE nodes[n].props[p]]
  <2>1. PICK found :
        \/ nodes' = [n \in DOMAIN nodes \cup {fresh + 1} |->
                IF n \in DOMAIN nodes THEN nodes[n] ELSE [label |-> Current.label, props |-> made]]
        \/ nodes' = [n \in DOMAIN nodes |->
                IF n \in found THEN [nodes[n] EXCEPT !.props = props(n)] ELSE nodes[n]]
    BY <1>1, RowFinds
  <2>2. \A n \in DOMAIN nodes : [nodes[n] EXCEPT !.props = props(n)].label = nodes[n].label
    BY LabelStays DEF KindInv, Kinds
  <2> HIDE DEF item, ks, want, made, props
  <2>3. SameLabels(nodes, nodes') /\ DOMAIN nodes \subseteq DOMAIN nodes'
    BY <2>1, <2>2 DEF SameLabels
  <2>4. edges' = edges
    BY <1>1 DEF Merge
  <2> QED BY <2>3, <2>4, FitsKept DEF FitInv
<1>2. CASE Connect
  <2> DEFINE item == Rows[row + 1]
  <2>1. PICK i \in DOMAIN Relationships :
          edges' = MergeEdges(RowPatterns(Current, Relationships[i], item), RowEdge(Relationships[i], item))
    BY <1>2 DEF Connect, Leading
  <2>2. \A p \in RowPatterns(Current, Relationships[i], item) : Joins(nodes, p)
    BY PatternJoins DEF RowPatterns, Ends, Labelled
  <2>3. nodes' = nodes
    BY <1>2 DEF Connect
  <2> QED BY <2>1, <2>2, <2>3, MergeEdgesFit DEF FitInv
<1> QED BY <1>1, <1>2

(* The nodes that a block binds are of its type, and it leaves the labels  *)
(* of the others.                                                          *)
LEMMA BlockFits ==
  ASSUME CallersInv, StatementInv, KindInv, FitInv, Create \/ Update \/ Delete
  PROVE  /\ Fits(nodes', edges')
         /\ open' => \A n \in table' \cap DOMAIN nodes' : nodes'[n].label = Current.label
<1>1. CASE Create
  <2> DEFINE made(n) == [label |-> Current.label, props |-> Wanted(Props, Rows[n - fresh].props)]
             new == (fresh + 1)..(fresh + Len(Rows))
  <2>1. nodes' = [n \in DOMAIN nodes \cup new |-> IF n \in DOMAIN nodes THEN nodes[n] ELSE made(n)]
    BY <1>1 DEF Create
  <2>2. table' = new /\ edges' = edges
    BY <1>1 DEF Create, Open
  <2>3. \A n : made(n).label = Current.label
    OBVIOUS
  <2>4. \A n \in new : n \notin DOMAIN nodes
    BY DEF KindInv, Kinds
  <2> HIDE DEF made, new
  <2>5. SameLabels(nodes, nodes') /\ DOMAIN nodes \subseteq DOMAIN nodes'
    BY <2>1 DEF SameLabels
  <2>6. Fits(nodes', edges')
    BY <2>2, <2>5, FitsKept DEF FitInv
  <2>7. \A n \in table' : nodes'[n].label = Current.label
    BY <2>1, <2>2, <2>3, <2>4
  <2> QED BY <2>6, <2>7
<1>2. CASE Update
  <2> DEFINE props(n) == Assign(nodes[n].props, CutMap(Current.set, chunk[active]))
             found == Matching(Current.label, WhereNow)
  <2>1. nodes' = [n \in DOMAIN nodes |->
             IF n \in found /\ Current.inline THEN [nodes[n] EXCEPT !.props = props(n)] ELSE nodes[n]]
    BY <1>2 DEF Update
  <2>2. table' = found /\ edges' = edges
    BY <1>2 DEF Update, Open
  <2>3. \A n \in DOMAIN nodes : [nodes[n] EXCEPT !.props = props(n)].label = nodes[n].label
    BY LabelStays DEF KindInv, Kinds
  <2>4. \A n \in found : n \in DOMAIN nodes /\ nodes[n].label = Current.label
    BY DEF Matching, Labelled
  <2> HIDE DEF props, found
  <2>5. SameLabels(nodes, nodes') /\ DOMAIN nodes = DOMAIN nodes'
    BY <2>1, <2>3 DEF SameLabels
  <2>6. Fits(nodes', edges')
    BY <2>2, <2>5, FitsKept DEF FitInv
  <2> QED BY <2>2, <2>4, <2>5, <2>6 DEF SameLabels
<1>3. CASE Delete
  <2>1. DetachDelete(Matching(Current.label, WhereNow)) /\ ~open'
    BY <1>3 DEF Delete, Return
  <2> QED BY <2>1, FitsDetached DEF FitInv
<1> QED BY <1>1, <1>2, <1>3

(* Where names are apart, the relationship a nested operation uses starts  *)
(* at the type of the field.                                               *)
LEMMA NestedFrom ==
  ASSUME NamesApart, NEW f, IsField(f), f.op \in {"create", "update"}, NEW at \in Nested(f)
  PROVE  at[3] \in DOMAIN Relationships /\ Relationship(at).from = f.label
<1>1. PICK i \in DOMAIN Relationships :
        Relationships[i].from = f.label /\ Relationships[i].field = NestedOp(f, at).field
  BY NestedShape
<1>2. at[3] \in Candidates(f.label, NestedOp(f, at).field)
  BY NestedShape
<1>3. /\ at[3] \in DOMAIN Relationships
      /\ Relationships[at[3]].field = Relationships[i].field
      /\ f.label \in {Relationships[at[3]].from, Relationships[at[3]].to}
  BY <1>1, <1>2 DEF Candidates, RelationshipsForNode
<1> QED BY <1>1, <1>3 DEF NamesApart, Relationship

LEMMA NestedFits ==
  ASSUME NamesApart, CallersInv, StatementInv, KindInv, FitInv, NestedStep
  PROVE  Fits(nodes', edges') /\ \A n \in table \cap DOMAIN nodes' : nodes'[n].label = Current.label
<1> PICK at, n : \/ NestedCreate(at, n) \/ NestedConnect(at, n) \/ NestedDisconnect(at, n)
                 \/ NestedUpdate(at, n) \/ NestedDelete(at, n)
  BY DEF NestedStep
<1>1. /\ n \in table /\ n \in 1..fresh /\ at[3] \in DOMAIN Relationships
      /\ Relationship(at).from = Current.label /\ open
  <2>1. PICK op : AtNested(op, at, n)
    BY DEF NestedCreate, NestedConnect, NestedDisconnect, NestedUpdate, NestedDelete
  <2>2. IsField(Current) /\ Current.op \in {"create", "update"} /\ at \in Nested(Current)
        /\ n \in 1..fresh /\ n \in table
    BY <2>1, NestedAt
  <2> QED BY <2>1, <2>2, NestedFrom DEF AtNested
<1>2. /\ Fits(nodes, edges) /\ \A m \in table \cap DOMAIN nodes : nodes[m].label = Current.label
      /\ table \subseteq 1..fresh /\ fresh \in Nat
      /\ \A m \in DOMAIN nodes : m \in 1..fresh /\ nodes[m] \in Node
  BY <1>1 DEF FitInv, KindInv, Kinds
<1>3. ASSUME SameLabels(nodes, nodes'), DOMAIN nodes' \subseteq DOMAIN nodes \cup {fresh + 1}
      PROVE  \A m \in table \cap DOMAIN nodes' : nodes'[m].label = Current.label
  <2>1. fresh + 1 \notin table
    BY <1>2
  <2> QED BY <1>2, <1>3, <2>1 DEF SameLabels
<1>4. CASE NestedCreate(at, n)
  <2> DEFINE child == fresh + 1
             edge == BuildRelPattern(Relationship(at), n, child)
             made == [label |-> Relationship(at).to, props |-> Wanted(Props, NestedPart(at, "node"))]
             role == Given(NestedPart(at, "edge"), "role")
  <2>1. /\ nodes' = [m \in DOMAIN nodes \cup {child} |-> IF m = child THEN made ELSE nodes[m]]
        /\ edges' = [e \in DOMAIN edges \cup {edge} |-> IF e = edge THEN role ELSE edges[e]]
        /\ n \in DOMAIN nodes
    BY <1>4 DEF NestedCreate
  <2>2. child \notin DOMAIN nodes
    BY <1>2
  <2>3. made.label = Relationship(at).to
    OBVIOUS
  <2> HIDE DEF made, role, child
  <2>4. SameLabels(nodes, nodes') /\ DOMAIN nodes' = DOMAIN nodes \cup {child}
    BY <2>1, <2>2 DEF SameLabels
  <2>5. nodes'[n].label = Relationship(at).from /\ nodes'[child].label = Relationship(at).to
    BY <1>1, <1>2, <2>1, <2>2, <2>3
  <2>6. Joins(nodes', edge)
    BY <1>1, <2>1, <2>4, <2>5, PatternJoins DEF Relationship
  <2> HIDE DEF edge
  <2>7. DOMAIN edges' = DOMAIN edges \cup {edge}
    BY <2>1
  <2>8. Fits(nodes', edges')
    BY <1>2, <2>4, <2>6, <2>7, FitsKept
  <2> QED BY <1>3, <2>4, <2>8 DEF child
<1>5. CASE NestedConnect(at, n)
  <2> DEFINE targets == {m \in Labelled(Relationship(at).to) : Equals(m, NestedPart(at, "where"))}
             patterns == {BuildRelPattern(Relationship(at), n, m) : m \in targets}
  <2>1. /\ edges' = MergeEdges(patterns, NestedPart(at, "edge")) /\ nodes' = nodes
        /\ n \in DOMAIN nodes \/ targets = {}
    BY <1>5 DEF NestedConnect
  <2>2. \A m \in targets : m \in DOMAIN nodes /\ nodes[m].label = Relationship(at).to
    BY DEF Labelled
  <2> HIDE DEF targets
  <2>3. ASSUME NEW m \in targets PROVE Joins(nodes, BuildRelPattern(Relationship(at), n, m))
    <3>1. n \in DOMAIN nodes /\ nodes[n].label = Relationship(at).from
      BY <1>1, <1>2, <2>1
    <3> QED BY <1>1, <2>2, <3>1, PatternJoins DEF Relationship
  <2>4. \A p \in patterns : Joins(nodes, p)
    BY <2>3
  <2> HIDE DEF patterns
  <2> QED BY <1>2, <2>1, <2>4, MergeEdgesFit
<1>6. CASE NestedDisconnect(at, n)
  <2>1. nodes' = nodes /\ edges' = [e \in DOMAIN edges \ Between(at, n) |-> edges[e]]
    BY <1>6 DEF NestedDisconnect
  <2> QED BY <1>2, <2>1 DEF Fits
<1>7. CASE NestedUpdate(at, n)
  <2> DEFINE props(m) == Assign(nodes[m].props, NestedPart(at, "node"))
             found == Targets(at, n)
  <2>1. /\ nodes' = [m \in DOMAIN nodes |->
             IF m \in found THEN [nodes[m] EXCEPT !.props = props(m)] ELSE nodes[m]]
        /\ DOMAIN edges' = DOMAIN edges
    BY <1>7 DEF NestedUpdate
  <2>2. \A m \in DOMAIN nodes : [nodes[m] EXCEPT !.props = props(m)].label = nodes[m].label
    BY <1>2, LabelStays
  <2> HIDE DEF props, found
  <2>3. SameLabels(nodes, nodes') /\ DOMAIN nodes' = DOMAIN nodes
    BY <2>1, <2>2 DEF SameLabels
  <2>4. Fits(nodes', edges')
    BY <1>2, <2>1, <2>3, FitsKept
  <2> QED BY <1>3, <2>3, <2>4
<1>8. CASE NestedDelete(at, n)
  <2>1. DetachDelete(Targets(at, n))
    BY <1>8 DEF NestedDelete
  <2>2. DOMAIN nodes' \subseteq DOMAIN nodes
    BY <2>1 DEF DetachDelete
  <2>3. Fits(nodes', edges') /\ SameLabels(nodes, nodes')
    BY <1>2, <2>1, FitsDetached
  <2> QED BY <1>3, <2>2, <2>3
<1> QED BY <1>4, <1>5, <1>6, <1>7, <1>8

LEMMA FitStep ==
  ASSUME NamesApart, CallersInv, StatementInv, KindInv, FitInv, [Next]_vars
  PROVE  FitInv'
<1> DEFINE none == [nodes |-> <<>>, edges |-> <<>>, fresh |-> 0]
           Bound == open => \A n \in table \cap DOMAIN nodes : nodes[n].label = Current.label
<1>1. Fits(nodes, edges) /\ Fits(before.nodes, before.edges) /\ Bound
  BY DEF FitInv
<1>2. Fits(none.nodes, none.edges)
  BY DEF Fits
<1> SUFFICES Fits(nodes', edges') /\ Fits(before'.nodes, before'.edges) /\ Bound'
  BY DEF FitInv
<1>3. CASE \E c \in Callers : BeginWrite(c) \/ BeginRead(c)
  <2>1. UNCHANGED <<nodes, edges>> /\ before' = [nodes |-> nodes, edges |-> edges, fresh |-> fresh]
    BY <1>3 DEF BeginWrite, BeginRead, Begin, graphVars
  <2>2. before'.nodes = nodes /\ before'.edges = edges
    BY <2>1
  <2>3. ~open'
    BY <1>3 DEF BeginWrite, BeginRead, Begin, blockVars, StatementInv
  <2> QED BY <1>1, <2>1, <2>2, <2>3
<1>4. CASE \E c \in Callers : (\E req \in Requests : Execute(c, req)) \/ ReadRefused(c) \/ Resume(c)
  <2> PICK c \in Callers : (\E req \in Requests : Execute(c, req)) \/ ReadRefused(c) \/ Resume(c)
    BY <1>4
  <2>1. UNCHANGED <<nodes, edges, before, open, table, active, field>>
    BY DEF Execute, ReadRefused, Resume, graphVars, stmtVars, blockVars
  <2>2. open => active # Nobody /\ c # active /\ active \in Callers
    BY DEF Execute, ReadRefused, Resume, StatementInv
  <2>3. request' = request \/ \E req \in Requests : request' = [request EXCEPT ![c] = req]
    BY DEF Execute, ReadRefused, Resume
  <2>4. open => request'[active] = request[active]
    BY <2>2, <2>3 DEF CallersInv
  <2> QED BY <1>1, <2>1, <2>4 DEF Current
<1>5. CASE \/ ReadMerged \/ CountConnected \/ Collect \/ EndWrite \/ EndRead \/ ReplyLost
  <2>1. /\ UNCHANGED <<nodes, edges>> /\ ~open'
        /\ before' = before \/ before' = none
    BY <1>5 DEF ReadMerged, CountConnected, Collect, Return, EndWrite, EndRead, ReplyLost, Release, Finished,
                graphVars, stmtVars
  <2> QED BY <1>1, <1>2, <2>1
<1>6. CASE NextBlock \/ UNCHANGED vars
  <2>1. UNCHANGED <<nodes, edges, before, open, table, active, request>>
        /\ (field' = field \/ left = 0)
    BY <1>6 DEF NextBlock, vars, graphVars, stmtVars, blockVars, callVars
  <2>2. open => field' = field
    BY <2>1 DEF StatementInv
  <2> QED BY <1>1, <2>1, <2>2 DEF Current
<1>7. CASE Fail
  <2>1. nodes' = before.nodes /\ edges' = before.edges /\ before' = none /\ ~open'
    BY <1>7 DEF Fail, Finished
  <2> QED BY <1>1, <1>2, <2>1
<1>8. CASE Merge \/ Connect
  <2>1. before' = before /\ ~open'
    BY <1>8 DEF Merge, Connect, Writing, blockVars, StatementInv
  <2> QED BY <1>1, <1>8, <2>1, WriteFits
<1>9. CASE Create \/ Update \/ Delete
  <2>1. UNCHANGED <<before, active, field, request>>
    BY <1>9 DEF Create, Update, Delete, Open, Return, stmtVars, callVars
  <2>2. Current' = Current
    BY <2>1 DEF Current
  <2> QED BY <1>1, <1>9, <2>1, <2>2, BlockFits
<1>10. CASE NestedStep
  <2>1. UNCHANGED <<before, active, field, request, table>>
    BY <1>10 DEF NestedStep, NestedCreate, NestedConnect, NestedDisconnect, NestedUpdate, NestedDelete,
                 AtNested, stmtVars, callVars
  <2>2. Current' = Current
    BY <2>1 DEF Current
  <2> QED BY <1>1, <1>10, <2>1, <2>2, NestedFits
<1> QED BY <1>3, <1>4, <1>5, <1>6, <1>7, <1>8, <1>9, <1>10 DEF Next, DatabaseStep

LEMMA FitInvariance ==
  ASSUME NamesApart
  PROVE  Spec => [](TypesInv /\ FitInv)
<1> DEFINE Inv == TypesInv /\ FitInv
<1>1. Init => Inv
  <2> SUFFICES ASSUME Init PROVE Inv
    OBVIOUS
  <2>1. CallersInv
    BY DEF Init, CallersInv, Writes
  <2>2. StatementInv
    BY DEF Init, NoStatement, StatementInv
  <2>3. PICK g \in Graphs : nodes = g.nodes /\ edges = g.edges
    BY DEF Init
  <2>4. Fits(nodes, edges)
    BY <2>3, MutationsAssumption DEF IsGraph
  <2>5. before.edges = <<>> /\ ~open
    BY DEF Init, NoStatement
  <2>6. Fits(before.nodes, before.edges)
    BY <2>5 DEF Fits
  <2> QED BY <2>1, <2>2, <2>4, <2>5, <2>6, KindInit DEF TypesInv, FitInv
<1>2. Inv /\ [Next]_vars => Inv'
  BY CallersStep, StatementStep, KindStep, FitStep DEF TypesInv
<1> QED BY <1>1, <1>2, PTL DEF Spec

(* Where names are apart, every edge joins nodes that are there as a       *)
(* relationship field of the schema says, in every state: buildRelPattern, *)
(* and the statements of merge.go and mutation_nested.go that use it.      *)
THEOREM EdgesFit == NamesApart => (Spec => []EdgesFitSchema)
<1> SUFFICES ASSUME NamesApart PROVE Spec => []EdgesFitSchema
  OBVIOUS
<1>1. TypesInv /\ FitInv => EdgesFitSchema
  BY DEF FitInv, EdgesFitSchema
<1>2. Spec => [](TypesInv /\ FitInv)
  BY FitInvariance
<1> QED BY <1>1, <1>2, PTL
-----------------------------------------------------------------------------
(* Answers. *)

(* The items of a list in its first k slices. *)
Taken(list, k, size) == IF k * size < Len(list) THEN k * size ELSE Len(list)

LEMMA TakenStep ==
  ASSUME NEW S, NEW list \in Seq(S), NEW size \in Nat \ {0}, NEW k \in Nat \ {0}
  PROVE  /\ Taken(list, k, size) = Taken(list, k - 1, size) + Len(SliceAt(list, k, size))
         /\ Taken(list, k - 1, size) \in Nat
<1> DEFINE slice == SliceAt(list, k, size)
<1>1. PICK start \in Nat : start = (k - 1) * size
  OBVIOUS
<1>2. k * size = start + size
  BY <1>1
<1>3. Len(slice) \in Nat /\ Len(slice) <= size
  BY SliceElements
<1>4. \A j \in 1..Len(slice) : start + j \in 1..Len(list)
  BY <1>1, SliceElements
<1>5. \A j \in 1..size : start + j <= Len(list) => j <= Len(slice)
  BY <1>1, SliceElements
<1>6. PICK len \in Nat : len = Len(list)
  OBVIOUS
<1>7. PICK width \in Nat : width = Len(slice)
  BY <1>3
<1>8. width <= size /\ \A j \in 1..width : start + j <= len
  BY <1>3, <1>4, <1>6, <1>7
<1>9. \A j \in 1..size : start + j <= len => j <= width
  BY <1>5, <1>6, <1>7
<1>10. (IF start + size < len THEN start + size ELSE len) = (IF start < len THEN start ELSE len) + width
  <2>1. CASE start >= len
    <3>1. width = 0
      BY <1>8, <2>1
    <3> QED BY <2>1, <3>1
  <2>2. CASE start < len /\ start + size <= len
    <3>1. width = size
      BY <1>8, <1>9, <2>2
    <3> QED BY <2>2, <3>1
  <2>3. CASE start < len /\ start + size > len
    <3>1. len - start \in 1..size /\ start + (len - start) = len
      BY <2>3
    <3>2. len - start <= width
      BY <1>9, <3>1
    <3>3. width >= 1 /\ start + width <= len
      BY <1>8, <3>1, <3>2
    <3> QED BY <2>3, <3>1, <3>2, <3>3
  <2> QED BY <2>1, <2>2, <2>3
<1> HIDE DEF slice
<1> QED BY <1>1, <1>2, <1>6, <1>7, <1>10 DEF Taken, slice

LEMMA TakenAll ==
  ASSUME NEW S, NEW list \in Seq(S), NEW size \in Nat \ {0}, NEW k \in Nat
  PROVE  /\ Taken(list, 0, size) = 0
         /\ Len(list) <= k * size => Taken(list, k, size) = Len(list)
<1>1. PICK len \in Nat : len = Len(list)
  OBVIOUS
<1>2. k * size \in Nat /\ 0 * size = 0
  BY ProductGrows
<1> QED BY <1>1, <1>2 DEF Taken

NoDelete == \A g \in AllFields : g.op # "delete"

(* A merge whose items have each a node of their own. *)
Merging(f) == f.op = "merge" /\ MergedBy(f.label, KeysOf(f, "match"))

(* A field whose answer is of its items. *)
Counted(f) == Merging(f) \/ (f.op \in {"create", "connect"} /\ NoDelete)

Found(ns, f, item) ==
  \E n \in DOMAIN ns :
    /\ ns[n].label = f.label
    /\ \A p \in KeysOf(f, "match") : item.match[p] # Null /\ ns[n].props[p] = item.match[p]

AllFound(ns, f, rows, last) == \A j \in 1..last : Found(ns, f, rows[j])

(* What a merge has gone through in the chunk is there, also in the graph  *)
(* that a failed statement of another caller goes back to.                 *)
SeenInv ==
  \A c \in Callers :
    /\ status[c] = "running" =>
         \A i \in Writes(request[c]) \ due[c] : \A f \in {request[c][i]} : Merging(f) =>
           /\ AllFound(nodes, f, Slice(c, i), Len(Slice(c, i)))
           /\ active # Nobody => AllFound(before.nodes, f, Slice(c, i), Len(Slice(c, i)))
    /\ active = c /\ ~reading =>
         \A i \in {field} : \A f \in {request[c][i]} : Merging(f) => AllFound(nodes, f, Slice(c, i), row)

(* Without a delete each block returns one row, and it is read after all   *)
(* writes of the chunk.                                                    *)
RowsInv ==
  \A c \in Callers : active = c /\ reading =>
    /\ due[c] = {}
    /\ DOMAIN listed = DOMAIN request[c]
    /\ NoDelete => left + out = 1 /\ (field > Len(request[c]) => left = 1)
    /\ \A i \in DOMAIN request[c] :
         /\ open /\ i = field /\ request[c][i].op = "create" => Cardinality(table) = Len(Slice(c, i))
         /\ \A f \in {request[c][i]} :
              Counted(f) /\ (i < field \/ (i = field /\ out = 1)) => listed[i] = Len(Slice(c, i))

(* Chunks whose answer has arrived. *)
Passed(c) == IF status[c] = "done" THEN chunk[c] ELSE chunk[c] - 1

AnswersInv ==
  /\ DOMAIN answered = Callers
  /\ \A c \in Callers :
       /\ status[c] = "idle" => chunk[c] = 1
       /\ status[c] = "done" => ~HasChunk(request[c], chunk[c] + 1)
       /\ DOMAIN answered[c] = DOMAIN request[c]
       /\ \A i \in DOMAIN request[c] : \A f \in {request[c][i]} :
            Counted(f) => answered[c][i] = Taken(Items(f), Passed(c), BatchSize)

LEMMA CountedNoDelete ==
  ASSUME NEW f, Counted(f)
  PROVE  NoDelete
BY DEF Counted, Merging, NoDelete, MergedBy

LEMMA CountedBefore ==
  ASSUME CallersInv, [Next]_vars
  PROVE  /\ NoDelete' => NoDelete
         /\ \A f : Merging(f)' => Merging(f)
         /\ \A f : Counted(f)' => Counted(f)
<1>1. NoDelete' => NoDelete
  BY FieldsStay DEF NoDelete
<1>2. ASSUME NEW f, Merging(f)' PROVE Merging(f)
  <2>1. f.op = "merge" /\ MergedBy(f.label, KeysOf(f, "match"))'
    BY <1>2 DEF Merging, KeysOf
  <2> QED BY <2>1, MergedByBefore DEF Merging
<1> QED BY <1>1, <1>2 DEF Counted

(* The label and the keys of a merge are of the schema. *)
LEMMA MergingShape ==
  ASSUME NEW f, IsField(f), Merging(f)
  PROVE  f.label \in Labels /\ KeysOf(f, "match") \in SUBSET Props
<1>1. f.label \in Labels
  BY DEF IsField
<1>2. /\ IsList(f.items, {"match", "onCreate", "onMatch"})
      /\ \A i \in DOMAIN f.items : DOMAIN f.items[i].match \subseteq Props
  BY DEF IsField, Merging
<1>3. CASE f.items = <<>>
  BY <1>1, <1>3 DEF KeysOf
<1>4. CASE f.items # <<>>
  <2>1. 1 \in DOMAIN f.items
    <3>1. f.items \in Seq(Range(f.items))
      BY <1>2 DEF IsList
    <3> QED BY <1>4, <3>1
  <2> QED BY <1>1, <1>2, <1>4, <2>1 DEF KeysOf
<1> QED BY <1>3, <1>4

LEMMA FoundStays ==
  ASSUME CallersInv, StatementInv, UnseenInv, ShapeInv, Merge, NEW f, IsField(f), Merging(f)
  PROVE  \A item : Found(nodes, f, item) => Found(nodes', f, item)
<1> DEFINE l == f.label
           keys == KeysOf(f, "match")
<1>1. l \in Labels /\ keys \in SUBSET Props /\ MergedBy(l, keys)
  BY MergingShape DEF Merging
<1> HIDE DEF keys, l
<1>2. \A n \in DOMAIN nodes :
        /\ n \in DOMAIN nodes' /\ nodes'[n].label = nodes[n].label
        /\ nodes[n].label = l => \A p \in keys : nodes'[n].props[p] = nodes[n].props[p]
  BY <1>1, MergeRow
<1>3. ASSUME NEW item, NEW n \in DOMAIN nodes, nodes[n].label = l,
             \A p \in keys : item.match[p] # Null /\ nodes[n].props[p] = item.match[p]
      PROVE  \E m \in DOMAIN nodes' : /\ nodes'[m].label = l
                                      /\ \A p \in keys : item.match[p] # Null /\ nodes'[m].props[p] = item.match[p]
  BY <1>2, <1>3
<1> QED BY <1>3 DEF Found, l, keys

(* The row a merge is at is there when it is done. *)
LEMMA RowFound ==
  ASSUME CallersInv, StatementInv, UnseenInv, ShapeInv, KindInv, Merge, Merging(Current)
  PROVE  Found(nodes', Current, Rows[row + 1])
<1>1. IsField(Current)
  BY WritingAt DEF Merge
<1>2. PICK l, keys : l = Current.label /\ keys = KeysOf(Current, "match")
  OBVIOUS
<1>3. l \in Labels /\ keys \in SUBSET Props /\ MergedBy(l, keys)
  BY <1>1, <1>2, MergingShape DEF Merging
<1>4. fresh + 1 \notin DOMAIN nodes
  BY DEF KindInv, Kinds
<1>5. PICK item : item = Rows[row + 1]
  OBVIOUS
<1>6. /\ \A p \in keys : item.match[p] # Null
      /\ \E n \in DOMAIN nodes' : nodes'[n].label = l /\ \A p \in keys : nodes'[n].props[p] = item.match[p]
  BY <1>2, <1>3, <1>4, <1>5, MergeRow
<1> QED BY <1>2, <1>5, <1>6 DEF Found

LEMMA WritesStay ==
  ASSUME CallersInv, StatementInv, [Next]_vars, NEW c \in Callers, status'[c] = "running",
         NEW i \in Writes(request'[c]) \ due'[c]
  PROVE  /\ request'[c] = request[c] /\ chunk'[c] = chunk[c] /\ status[c] = "running"
         /\ i \in Writes(request[c])
         /\ i \notin due[c] \/ (EndWrite /\ c = active /\ i = field)
<1> USE DEF CallersInv
<1>1. CASE \E d \in Callers, req \in Requests : Execute(d, req)
  <2> PICK d \in Callers, req \in Requests : Execute(d, req)
    BY <1>1
  <2>1. /\ request' = [request EXCEPT ![d] = req] /\ due' = [due EXCEPT ![d] = Writes(req)]
        /\ status' = [status EXCEPT ![d] = "running"] /\ chunk' = chunk
    BY DEF Execute
  <2>2. c # d
    BY <2>1
  <2> QED BY <2>1, <2>2
<1>2. CASE \E d \in Callers : BeginWrite(d) \/ BeginRead(d)
  BY <1>2 DEF BeginWrite, BeginRead, Begin, callVars
<1>3. CASE \E d \in Callers : ReadRefused(d)
  BY <1>3 DEF ReadRefused
<1>4. CASE \E d \in Callers : Resume(d)
  <2> PICK d \in Callers : Resume(d)
    BY <1>4
  <2>1. /\ request' = request /\ due' = [due EXCEPT ![d] = Writes(request[d])]
        /\ status' = [status EXCEPT ![d] = "running"] /\ chunk' = chunk
    BY DEF Resume
  <2>2. c # d
    BY <2>1
  <2> QED BY <2>1, <2>2
<1>5. CASE \/ Merge \/ Connect \/ ReadMerged \/ CountConnected \/ Create \/ Update \/ Delete
           \/ NestedStep \/ Collect \/ NextBlock \/ UNCHANGED vars
  <2>1. UNCHANGED callVars
    BY <1>5, BlocksLeaveCalls
  <2> QED BY <2>1 DEF callVars
<1>6. CASE EndWrite
  <2>1. request' = request /\ status' = status /\ chunk' = chunk /\ due' = [due EXCEPT ![active] = @ \ {field}]
    BY <1>6 DEF EndWrite, Release
  <2> QED BY <1>6, <2>1
<1>7. CASE EndRead
  <2>1. /\ request' = request /\ active \in Callers
        /\ \/ /\ chunk' = [chunk EXCEPT ![active] = @ + 1]
              /\ due' = [due EXCEPT ![active] = Writes(request[active])]
              /\ status' = status
           \/ status' = [status EXCEPT ![active] = "done"] /\ chunk' = chunk /\ due' = due
    BY <1>7 DEF EndRead, Release, ReadComplete, StatementInv
  <2>2. c # active
    BY <2>1
  <2> QED BY <2>1, <2>2
<1>8. CASE Fail \/ ReplyLost
  <2>1. /\ request' = request /\ chunk' = chunk /\ due' = due /\ active \in Callers
        /\ status' = [status EXCEPT ![active] = "failed"]
    BY <1>8 DEF Fail, ReplyLost, Release, WriteComplete, ReadComplete, StatementInv
  <2> QED BY <2>1
<1> QED BY <1>1, <1>2, <1>3, <1>4, <1>5, <1>6, <1>7, <1>8 DEF Next, DatabaseStep

(* How a step changes the graph and the one to go back to. *)
LEMMA GraphStep ==
  ASSUME StatementInv, [Next]_vars
  PROVE  \/ /\ nodes' = nodes
            /\ active' # Nobody => before'.nodes = nodes \/ (before' = before /\ active # Nobody)
         \/ Merge
         \/ Fail
         \/ Create \/ Update \/ Delete \/ NestedStep
<1>1. CASE \E c \in Callers : (\E req \in Requests : Execute(c, req)) \/ ReadRefused(c) \/ Resume(c)
  BY <1>1 DEF Execute, ReadRefused, Resume, stmtVars, graphVars
<1>2. CASE \E c \in Callers : BeginWrite(c) \/ BeginRead(c)
  BY <1>2 DEF BeginWrite, BeginRead, Begin, graphVars
<1>3. CASE Connect \/ ReadMerged \/ CountConnected \/ Collect \/ NextBlock \/ UNCHANGED vars
  BY <1>3 DEF Connect, ReadMerged, CountConnected, Collect, NextBlock, Return, vars, stmtVars, graphVars
<1>4. CASE EndWrite \/ EndRead \/ ReplyLost
  BY <1>4 DEF EndWrite, EndRead, ReplyLost, Release, Finished, graphVars
<1> QED BY <1>1, <1>2, <1>3, <1>4 DEF Next, DatabaseStep

LEMMA SeenStep ==
  ASSUME CallersInv, StatementInv, UnseenInv, ShapeInv, KindInv, SeenInv, [Next]_vars, StatementInv', CallersInv'
  PROVE  SeenInv'
<1>1. \A f : Merging(f)' => Merging(f)
  BY CountedBefore
<1>2. ASSUME NEW c \in Callers, status'[c] = "running", NEW i \in Writes(request'[c]) \ due'[c],
             NEW f \in {request'[c][i]}, Merging(f)'
      PROVE  /\ AllFound(nodes', f, Slice(c, i)', Len(Slice(c, i)'))
             /\ active' # Nobody => AllFound(before'.nodes, f, Slice(c, i)', Len(Slice(c, i)'))
  <2>1. /\ request'[c] = request[c] /\ chunk'[c] = chunk[c] /\ status[c] = "running"
        /\ i \in Writes(request[c])
        /\ i \notin due[c] \/ (EndWrite /\ c = active /\ i = field)
    BY <1>2, WritesStay
  <2>2. Slice(c, i)' = Slice(c, i)
    BY <2>1 DEF Slice
  <2>3. Merging(f) /\ f = request[c][i]
    BY <1>1, <1>2, <2>1
  <2>4. IsField(f)
    BY <2>1, <2>3, FieldShape DEF Writes
  <2>5. PICK slice : slice = Slice(c, i)
    OBVIOUS
  <2>6. CASE i \notin due[c]
    <3>1. /\ AllFound(nodes, f, slice, Len(slice))
          /\ active # Nobody => AllFound(before.nodes, f, slice, Len(slice))
      BY <2>1, <2>3, <2>5, <2>6 DEF SeenInv
    <3>2. CASE Merge
      <4>1. active' # Nobody => before' = before /\ active # Nobody
        BY <3>2 DEF Merge
      <4>2. \A item : Found(nodes, f, item) => Found(nodes', f, item)
        BY <2>3, <2>4, <3>2, FoundStays
      <4> QED BY <2>2, <2>5, <3>1, <4>1, <4>2 DEF AllFound
    <3>3. CASE Fail
      <4>1. nodes' = before.nodes /\ active # Nobody /\ active' = Nobody
        BY <3>3 DEF Fail, Finished
      <4> QED BY <2>2, <2>5, <3>1, <4>1
    <3>4. CASE /\ nodes' = nodes
               /\ active' # Nobody => before'.nodes = nodes \/ (before' = before /\ active # Nobody)
      BY <2>2, <2>5, <3>1, <3>4
    <3>5. CASE Create \/ Update \/ Delete \/ NestedStep
      BY <2>3, <3>5, OnlyMerges DEF Merging
    <3> QED BY <3>2, <3>3, <3>4, <3>5, GraphStep
  <2>7. CASE EndWrite /\ c = active /\ i = field
    <3>1. ~reading /\ row = Len(slice) /\ nodes' = nodes /\ active' = Nobody
      BY <2>5, <2>7 DEF EndWrite, WriteComplete, Release, Finished, graphVars, Rows
    <3>2. AllFound(nodes, f, slice, row)
      BY <2>3, <2>5, <2>7, <3>1 DEF SeenInv
    <3> QED BY <2>2, <2>5, <3>1, <3>2
  <2> QED BY <2>1, <2>6, <2>7
<1>3. ASSUME NEW c \in Callers, active' = c, ~reading', NEW i \in {field'}, NEW f \in {request'[c][i]}, Merging(f)'
      PROVE  AllFound(nodes', f, Slice(c, i)', row')
  <2>0. Merging(f) /\ c # Nobody
    BY <1>1, <1>3, MutationsAssumption
  <2>1. CASE \E d \in Callers : (\E req \in Requests : Execute(d, req)) \/ ReadRefused(d) \/ Resume(d)
    <3> PICK d \in Callers : (\E req \in Requests : Execute(d, req)) \/ ReadRefused(d) \/ Resume(d)
      BY <2>1
    <3>1. UNCHANGED <<active, reading, field, row, nodes, chunk>> /\ c # d /\ active = c
      BY <1>3, <2>0 DEF Execute, ReadRefused, Resume, stmtVars, graphVars, StatementInv
    <3>2. request'[c] = request[c]
      BY <3>1 DEF Execute, ReadRefused, Resume, CallersInv
    <3>3. Slice(c, i)' = Slice(c, i)
      BY <3>1, <3>2 DEF Slice
    <3> QED BY <1>3, <2>0, <3>1, <3>2, <3>3 DEF SeenInv
  <2>2. CASE \E d \in Callers : BeginWrite(d)
    BY <2>2 DEF BeginWrite, AllFound
  <2>3. CASE \E d \in Callers : BeginRead(d)
    BY <1>3, <2>3 DEF BeginRead
  <2>4. CASE Merge
    <3>1. /\ UNCHANGED <<active, reading, field, request, chunk>> /\ row' = row + 1 /\ active = c
      BY <1>3, <2>4 DEF Merge, callVars
    <3>2. Slice(c, i)' = Slice(c, i) /\ f = Current /\ Rows = Slice(c, i)
      BY <1>3, <3>1 DEF Slice, Current, Rows
    <3>3. AllFound(nodes, f, Slice(c, i), row) /\ row \in Nat
      BY <1>3, <2>0, <3>1 DEF SeenInv, KindInv
    <3>4. IsField(f)
      BY <2>4, <3>2, WritingAt DEF Merge
    <3>5. Found(nodes', f, Slice(c, i)[row + 1])
      BY <2>0, <2>4, <3>2, RowFound
    <3>6. \A item : Found(nodes, f, item) => Found(nodes', f, item)
      BY <2>0, <2>4, <3>4, FoundStays
    <3>7. PICK rows : rows = Slice(c, i)
      OBVIOUS
    <3>8. \A j \in 1..(row + 1) : Found(nodes', f, rows[j])
      BY <3>3, <3>5, <3>6, <3>7 DEF AllFound
    <3> QED BY <3>1, <3>2, <3>7, <3>8 DEF AllFound
  <2>5. CASE Connect
    <3>1. UNCHANGED <<active, field, request>> /\ Current.op = "connect"
      BY <2>5 DEF Connect, Writing, callVars
    <3>2. f = Current
      BY <1>3, <3>1 DEF Current
    <3> QED BY <2>0, <3>1, <3>2 DEF Merging
  <2>6. CASE ReadMerged \/ CountConnected \/ Create \/ Update \/ Delete \/ NestedStep \/ Collect \/ NextBlock
    <3>1. reading
      BY <2>6 DEF ReadMerged, CountConnected, Create, Update, Delete, InBlock, Collect, NextBlock, NestedStep,
                  NestedCreate, NestedConnect, NestedDisconnect, NestedUpdate, NestedDelete, AtNested
    <3> QED BY <1>3, <2>6, <3>1, BlocksLeaveCalls
  <2>7. CASE EndWrite \/ EndRead \/ Fail \/ ReplyLost
    BY <1>3, <2>0, <2>7 DEF EndWrite, EndRead, Fail, ReplyLost, Release, Finished
  <2>8. CASE UNCHANGED vars
    <3>1. UNCHANGED <<active, reading, field, row, nodes, request, chunk>>
      BY <2>8 DEF vars, graphVars, stmtVars, callVars
    <3>2. Slice(c, i)' = Slice(c, i)
      BY <3>1 DEF Slice
    <3> QED BY <1>3, <2>0, <3>1, <3>2 DEF SeenInv
  <2> QED BY <2>1, <2>2, <2>3, <2>4, <2>5, <2>6, <2>7, <2>8 DEF Next, DatabaseStep
<1> QED BY <1>2, <1>3 DEF SeenInv, Writes

(* Reading a merge back finds one node for each row. *)
LEMMA RowsCounted ==
  ASSUME CallersInv, StatementInv, MergedInv, SeenInv, RowsInv, ReadMerged, Merging(Current)
  PROVE  Cardinality({x \in (DOMAIN Rows) \X DOMAIN nodes : x[2] \in Merged(Current, Rows[x[1]])}) = Len(Rows)
<1>1. /\ active \in Callers /\ field \in DOMAIN request[active] /\ IsField(Current)
      /\ Len(Rows) \in Nat /\ reading /\ active # Nobody
  BY BlockAt DEF ReadMerged, InBlock
<1>2. PICK f : f = Current
  OBVIOUS
<1>3. PICK l, keys : l = f.label /\ keys = KeysOf(f, "match")
  OBVIOUS
<1>4. PICK rows : rows = Rows
  OBVIOUS
<1>5. PICK len \in Nat : len = Len(rows)
  BY <1>1, <1>4
<1>6. l \in Labels /\ keys \in SUBSET Props /\ MergedBy(l, keys) /\ f.op = "merge"
  BY <1>1, <1>2, <1>3, MergingShape DEF Merging
<1>7. UniqueBy(nodes, l, keys)
  BY <1>6 DEF MergedInv
<1>8. Plain(f) /\ f.items = Items(f)
  <2>1. f \in AllFields
    BY <1>1, <1>2 DEF Current, AllFields
  <2> QED BY <1>3, <1>6, <2>1 DEF MergedBy, Items
<1>9. DOMAIN rows = 1..len
  <2>1. rows \in Seq(Range(Items(f)))
    BY <1>1, <1>2, <1>4, SliceShape DEF Rows, Current
  <2> QED BY <1>5, <2>1
<1>10. \A j \in 1..len : Found(nodes, f, rows[j])
  <2>1. field \in Writes(request[active]) \ due[active]
    BY <1>1, <1>2, <1>6 DEF RowsInv, Current, Writes
  <2>2. status[active] = "running"
    BY <1>1 DEF StatementInv
  <2>3. AllFound(nodes, f, rows, len)
    BY <1>1, <1>2, <1>4, <1>5, <2>1, <2>2 DEF SeenInv, Current, Rows
  <2> QED BY <2>3 DEF AllFound
<1>11. \A j \in 1..len : DOMAIN rows[j].match = keys
  BY <1>1, <1>2, <1>3, <1>4, <1>5, <1>8, SliceShape DEF Rows, Current, Plain
<1> DEFINE At(j) == Merged(f, rows[j])
           pairs == {x \in (1..len) \X DOMAIN nodes : x[2] \in At(x[1])}
           one == [j \in 1..len |-> <<j, CHOOSE n \in DOMAIN nodes : n \in At(j)>>]
<1>12. ASSUME NEW j \in 1..len
       PROVE  /\ \E n \in DOMAIN nodes : n \in At(j)
              /\ \A m, n \in At(j) : m = n
  <2>1. \A n : n \in At(j) <=> /\ n \in DOMAIN nodes /\ nodes[n].label = l
                               /\ \A p \in keys : rows[j].match[p] # Null /\ nodes[n].props[p] = rows[j].match[p]
    BY <1>3, <1>6, <1>11 DEF Merged, Labelled, Equals, Wanted, Given
  <2>2. \E n \in DOMAIN nodes : n \in At(j)
    BY <1>3, <1>10, <2>1 DEF Found
  <2>3. \A m, n \in At(j) : m = n
    BY <1>7, <2>1 DEF UniqueBy
  <2> QED BY <2>2, <2>3
<1>13. \A j \in 1..len : At(j) \subseteq DOMAIN nodes
  BY DEF Merged, Labelled
<1> HIDE DEF At
<1>14. one \in Bijection(1..len, pairs)
  <2>1. \A j \in 1..len : one[j] \in pairs /\ one[j][1] = j
    BY <1>12
  <2>2. \A x \in pairs : x[1] \in 1..len /\ one[x[1]] = x
    <3>1. ASSUME NEW x \in pairs PROVE x[1] \in 1..len /\ one[x[1]] = x
      <4>1. x[1] \in 1..len /\ x[2] \in DOMAIN nodes /\ x[2] \in At(x[1]) /\ x = <<x[1], x[2]>>
        OBVIOUS
      <4>2. (CHOOSE n \in DOMAIN nodes : n \in At(x[1])) = x[2]
        BY <1>12, <4>1
      <4> QED BY <4>1, <4>2
    <3> QED BY <3>1
  <2>3. DOMAIN one = 1..len
    OBVIOUS
  <2>4. one \in [1..len -> pairs]
    <3>1. one = [j \in 1..len |-> one[j]]
      OBVIOUS
    <3> HIDE DEF one
    <3> QED BY <2>1, <3>1
  <2> HIDE DEF one, pairs
  <2>5. one \in Injection(1..len, pairs)
    BY <2>1, <2>4 DEF Injection, IsInjective
  <2>6. one \in Surjection(1..len, pairs)
    BY <2>2, <2>4 DEF Surjection
  <2> QED BY <2>5, <2>6 DEF Bijection
<1>15. IsFiniteSet(1..len) /\ Cardinality(1..len) = len
  BY FS_Interval
<1>16. Cardinality(pairs) = len
  <2>1. ExistsBijection(1..len, pairs)
    BY <1>14 DEF ExistsBijection
  <2> HIDE DEF pairs
  <2> QED BY <1>15, <2>1, FS_Bijection
<1>17. pairs = {x \in (DOMAIN Rows) \X DOMAIN nodes : x[2] \in Merged(Current, Rows[x[1]])}
  BY <1>2, <1>4, <1>9 DEF At
<1> QED BY <1>4, <1>5, <1>16, <1>17

(* A block that has run for its row. *)
LEMMA ReturnRows ==
  ASSUME CallersInv, StatementInv, KindInv, RowsInv, [Next]_vars,
         active \in Callers, reading, field \in DOMAIN request[active], left > 0,
         NEW rows, NEW length, Return(rows, length), NoDelete' => rows = 1,
         \A f \in {Current} : Counted(f)' => length = Len(Rows)
  PROVE  RowsInv'
<1>1. /\ left' = left - 1 /\ out' = out + rows /\ ~open'
      /\ listed' = [listed EXCEPT ![field] = IF out = 0 THEN length ELSE @]
      /\ UNCHANGED <<active, field, reading, request, chunk, due>>
  BY DEF Return, stmtVars, callVars
<1>2. /\ NoDelete' => NoDelete
      /\ \A f : Counted(f)' => Counted(f)
  BY CountedBefore
<1> SUFFICES ASSUME NEW c \in Callers, active = c
             PROVE  /\ due[c] = {}
                    /\ DOMAIN listed' = DOMAIN request[c]
                    /\ NoDelete' => left' + out' = 1 /\ (field > Len(request[c]) => left' = 1)
                    /\ \A i \in DOMAIN request[c] : \A f \in {request[c][i]} :
                         Counted(f)' /\ (i < field \/ (i = field /\ out' = 1)) => listed'[i] = Len(Slice(c, i)')
  BY <1>1 DEF RowsInv
<1>3. due[c] = {} /\ DOMAIN listed = DOMAIN request[c]
  BY DEF RowsInv
<1>4. NoDelete => left = 1 /\ out = 0
  <2>1. NoDelete => left + out = 1
    BY DEF RowsInv
  <2> QED BY <2>1 DEF KindInv
<1>5. field <= Len(request[c])
  BY RequestShape DEF CallersInv
<1>6. ASSUME NEW i \in DOMAIN request[c], NEW f \in {request[c][i]}, Counted(f)', i < field \/ i = field
      PROVE  listed'[i] = Len(Slice(c, i)')
  <2>1. Slice(c, i)' = Slice(c, i)
    BY <1>1 DEF Slice
  <2>2. Counted(f) /\ out = 0
    BY <1>2, <1>4, <1>6, CountedNoDelete
  <2>3. CASE i = field
    <3>1. listed'[i] = length
      BY <1>1, <1>3, <2>2, <2>3
    <3>2. f = Current /\ Rows = Slice(c, i)
      BY <2>3 DEF Current, Rows
    <3> QED BY <1>6, <2>1, <3>1, <3>2
  <2>4. CASE i < field
    <3>1. i # field
      <4>1. i \in Nat /\ field \in Nat
        BY RequestShape DEF CallersInv
      <4> QED BY <2>4, <4>1
    <3>2. listed'[i] = listed[i]
      BY <1>1, <1>3, <3>1
    <3>3. Counted(f) /\ (i < field \/ (i = field /\ out = 1)) => listed[i] = Len(Slice(c, i))
      BY DEF RowsInv
    <3>4. listed[i] = Len(Slice(c, i))
      BY <2>2, <2>4, <3>3
    <3> QED BY <2>1, <3>2, <3>4
  <2> QED BY <1>6, <2>3, <2>4
<1>7. NoDelete' => left' + out' = 1
  BY <1>1, <1>2, <1>4
<1>8. ~(field > Len(request[c]))
  <2>1. Len(request[c]) \in Nat
    BY RequestShape DEF CallersInv
  <2> QED BY <1>5, <2>1 DEF StatementInv
<1> QED BY <1>1, <1>3, <1>6, <1>7, <1>8

LEMMA RowsStep ==
  ASSUME CallersInv, StatementInv, ShapeInv, KindInv, MergedInv, SeenInv, RowsInv, [Next]_vars
  PROVE  RowsInv'
<1>1. /\ NoDelete' => NoDelete
      /\ \A f : Counted(f)' => Counted(f)
  BY CountedBefore
<1>2. Nobody \notin Callers
  BY MutationsAssumption
<1>3. CASE \E d \in Callers : (\E req \in Requests : Execute(d, req)) \/ ReadRefused(d) \/ Resume(d)
  <2> PICK d \in Callers : (\E req \in Requests : Execute(d, req)) \/ ReadRefused(d) \/ Resume(d)
    BY <1>3
  <2> SUFFICES ASSUME NEW c \in Callers, active' = c, reading'
               PROVE  /\ due'[c] = {}
                      /\ DOMAIN listed' = DOMAIN request'[c]
                      /\ NoDelete' => left' + out' = 1 /\ (field' > Len(request'[c]) => left' = 1)
                      /\ \A i \in DOMAIN request'[c] :
                           /\ open' /\ i = field' /\ request'[c][i].op = "create" => Cardinality(table') = Len(Slice(c, i)')
                           /\ \A f \in {request'[c][i]} :
                                Counted(f)' /\ (i < field' \/ (i = field' /\ out' = 1)) => listed'[i] = Len(Slice(c, i)')
    BY DEF RowsInv
  <2>1. UNCHANGED <<active, field, reading, left, out, open, table, listed, chunk>> /\ c # d /\ active = c
    BY <1>2 DEF Execute, ReadRefused, Resume, stmtVars, blockVars, StatementInv
  <2>2. request'[c] = request[c] /\ due'[c] = due[c]
    BY <2>1 DEF Execute, ReadRefused, Resume, CallersInv
  <2>3. \A i : Slice(c, i)' = Slice(c, i)
    BY <2>1, <2>2 DEF Slice
  <2> QED BY <1>1, <2>1, <2>2, <2>3 DEF RowsInv
<1>4. CASE \E d \in Callers : BeginRead(d)
  <2> PICK d \in Callers : BeginRead(d)
    BY <1>4
  <2>1. /\ active' = d /\ due[d] = {} /\ field' = 1 /\ left' = 1 /\ out' = 0 /\ ~open'
        /\ listed' = [i \in DOMAIN request[d] |-> 0]
        /\ UNCHANGED <<request, due>>
    BY DEF BeginRead, Begin, callVars
  <2>2. \A i \in DOMAIN request[d] : i \in Nat \ {0}
    BY RequestShape DEF CallersInv
  <2> QED BY <2>1, <2>2 DEF RowsInv
<1>5. CASE (\E d \in Callers : BeginWrite(d)) \/ Merge \/ Connect
  <2>1. ~reading'
    BY <1>5 DEF BeginWrite, Merge, Connect, Writing
  <2> QED BY <2>1 DEF RowsInv
<1>6. CASE ReadMerged
  <2>1. PICK length : /\ length = Cardinality({x \in (DOMAIN Rows) \X DOMAIN nodes : x[2] \in Merged(Current, Rows[x[1]])})
                      /\ Return(1, length)
    BY <1>6 DEF ReadMerged
  <2>2. active \in Callers /\ reading /\ field \in DOMAIN request[active] /\ left > 0 /\ Current.op = "merge"
    BY <1>6, BlockAt DEF ReadMerged, InBlock
  <2>3. \A f \in {Current} : Counted(f)' => length = Len(Rows)
    <3>1. ASSUME NEW f \in {Current}, Counted(f)' PROVE length = Len(Rows)
      <4>1. Merging(Current)
        BY <1>1, <2>2, <3>1 DEF Counted
      <4> QED BY <1>6, <2>1, <4>1, RowsCounted
    <3> QED BY <3>1
  <2> QED BY <2>1, <2>2, <2>3, ReturnRows
<1>7. CASE CountConnected
  <2>1. PICK length : length = Len(Rows) /\ Return(1, length)
    BY <1>7 DEF CountConnected
  <2>2. active \in Callers /\ reading /\ field \in DOMAIN request[active] /\ left > 0
    BY <1>7, BlockAt DEF CountConnected, InBlock
  <2> QED BY <2>1, <2>2, ReturnRows
<1>8. CASE Collect
  <2>1. PICK length : length = Cardinality(table) /\ Return(1, length)
    BY <1>8 DEF Collect
  <2>2. /\ active \in Callers /\ reading /\ field \in DOMAIN request[active] /\ left > 0 /\ open
        /\ Current.op \in {"create", "update"}
    BY <1>8, BlockAt DEF Collect, StatementInv
  <2>3. \A f \in {Current} : Counted(f)' => length = Len(Rows)
    <3>1. ASSUME NEW f \in {Current}, Counted(f)' PROVE length = Len(Rows)
      <4>1. f.op = "create"
        BY <1>1, <2>2, <3>1 DEF Counted, Merging
      <4> QED BY <2>1, <2>2, <4>1 DEF RowsInv, Current, Rows
    <3> QED BY <3>1
  <2> QED BY <2>1, <2>2, <2>3, ReturnRows
<1>9. CASE Delete
  <2>1. PICK rows, length : Return(rows, length)
    BY <1>9 DEF Delete
  <2>2. active \in Callers /\ reading /\ field \in DOMAIN request[active] /\ left > 0 /\ Current.op = "delete"
    BY <1>9, BlockAt DEF Delete, InBlock
  <2>3. ~NoDelete
    BY <2>2 DEF NoDelete, AllFields, Current
  <2>4. \A f \in {Current} : Counted(f)' => length = Len(Rows)
    BY <1>1, <2>3, CountedNoDelete
  <2> QED BY <1>1, <2>1, <2>2, <2>3, <2>4, ReturnRows
<1>10. CASE Create \/ Update
  <2>1. /\ UNCHANGED <<active, field, reading, left, out, listed, request, chunk, due>> /\ ~open
        /\ field \in DOMAIN request[active]
    BY <1>10, BlockAt DEF Create, Update, Open, stmtVars, callVars
  <2>2. \A c, i : Slice(c, i)' = Slice(c, i)
    BY <2>1 DEF Slice
  <2>3. ASSUME NEW c \in Callers, active = c, request[c][field].op = "create"
        PROVE  Cardinality(table') = Len(Slice(c, field))
    <3>1. Create
      BY <1>10, <2>3 DEF Update, InBlock, Current
    <3>2. table' = (fresh + 1)..(fresh + Len(Rows)) /\ Len(Rows) \in Nat /\ Rows = Slice(c, field)
      BY <2>3, <3>1, BlockAt DEF Create, Open, Rows
    <3>3. PICK len \in Nat : len = Len(Rows)
      BY <3>2
    <3>4. PICK last \in Nat : last = fresh
      BY DEF KindInv, Kinds
    <3>5. Cardinality((last + 1)..(last + len)) = len
      BY FS_Interval
    <3> QED BY <3>2, <3>3, <3>4, <3>5
  <2> QED BY <1>1, <2>1, <2>2, <2>3 DEF RowsInv
<1>11. CASE NestedStep
  <2>1. UNCHANGED <<active, field, reading, left, out, open, table, listed, request, chunk, due>>
    BY <1>11 DEF NestedStep, NestedCreate, NestedConnect, NestedDisconnect, NestedUpdate, NestedDelete,
                 AtNested, stmtVars, callVars
  <2>2. \A c, i : Slice(c, i)' = Slice(c, i)
    BY <2>1 DEF Slice
  <2> QED BY <1>1, <2>1, <2>2 DEF RowsInv
<1>12. CASE NextBlock
  <2>1. /\ UNCHANGED <<active, reading, open, table, listed, request, chunk, due>>
        /\ field' = field + 1 /\ left = 0 /\ left' = out /\ out' = 0
    BY <1>12 DEF NextBlock, callVars
  <2>2. ~open
    BY <2>1 DEF StatementInv
  <2>3. \A c, i : Slice(c, i)' = Slice(c, i)
    BY <2>1 DEF Slice
  <2>4. ASSUME NEW c \in Callers, active = c, reading
        PROVE  /\ NoDelete' => left' + out' = 1 /\ left' = 1
               /\ \A i \in DOMAIN request[c] : \A f \in {request[c][i]} :
                    Counted(f)' /\ i < field' => listed[i] = Len(Slice(c, i))
    <3>1. NoDelete => left + out = 1
      BY <2>4 DEF RowsInv
    <3>2. NoDelete => out = 1
      BY <2>1, <3>1 DEF KindInv
    <3>3. \A i \in DOMAIN request[c] : i < field' => i < field \/ i = field
      <4>1. DOMAIN request[c] \subseteq Nat /\ field \in Nat
        BY <2>4, <1>2, RequestShape DEF CallersInv, StatementInv
      <4> QED BY <2>1, <4>1
    <3>4. \A f : Counted(f)' => Counted(f) /\ NoDelete
      BY <1>1, CountedNoDelete
    <3>5. \A i \in DOMAIN request[c] : \A f \in {request[c][i]} :
            Counted(f) /\ (i < field \/ (i = field /\ out = 1)) => listed[i] = Len(Slice(c, i))
      BY <2>4 DEF RowsInv
    <3>6. \A i \in DOMAIN request[c] : \A f \in {request[c][i]} :
            Counted(f)' /\ i < field' => listed[i] = Len(Slice(c, i))
      BY <3>2, <3>3, <3>4, <3>5
    <3> QED BY <1>1, <2>1, <3>2, <3>6
  <2> QED BY <2>1, <2>2, <2>3, <2>4 DEF RowsInv
<1>13. CASE EndWrite \/ EndRead \/ Fail \/ ReplyLost
  BY <1>2, <1>13 DEF EndWrite, EndRead, Fail, ReplyLost, Release, Finished, RowsInv
<1>14. CASE UNCHANGED vars
  <2>1. UNCHANGED <<active, field, reading, left, out, open, table, listed, request, chunk, due>>
    BY <1>14 DEF vars, stmtVars, blockVars, callVars
  <2>2. \A c, i : Slice(c, i)' = Slice(c, i)
    BY <2>1 DEF Slice
  <2> QED BY <1>1, <2>1, <2>2 DEF RowsInv
<1> QED BY <1>3, <1>4, <1>5, <1>6, <1>7, <1>8, <1>9, <1>10, <1>11, <1>12, <1>13, <1>14 DEF Next, DatabaseStep

LEMMA AnswersStep ==
  ASSUME CallersInv, StatementInv, KindInv, RowsInv, AnswersInv, [Next]_vars
  PROVE  AnswersInv'
<1>1. \A f : Counted(f)' => Counted(f)
  BY CountedBefore
<1>2. BatchSize \in Nat \ {0}
  BY MutationsAssumption
<1>3. CASE \E d \in Callers, req \in Requests : Execute(d, req)
  <2> PICK d \in Callers, req \in Requests : Execute(d, req)
    BY <1>3
  <2>1. /\ status[d] = "idle" /\ status' = [status EXCEPT ![d] = "running"]
        /\ request' = [request EXCEPT ![d] = req]
        /\ answered' = [answered EXCEPT ![d] = [i \in DOMAIN req |-> 0]]
        /\ chunk' = chunk
    BY DEF Execute
  <2>2. ASSUME NEW c \in Callers, c # d
        PROVE  /\ status'[c] = status[c] /\ request'[c] = request[c] /\ answered'[c] = answered[c]
               /\ Passed(c)' = Passed(c)
    BY <2>1, <2>2 DEF Passed, CallersInv, AnswersInv
  <2>3. /\ status'[d] = "running" /\ request'[d] = req /\ answered'[d] = [i \in DOMAIN req |-> 0]
        /\ DOMAIN answered' = Callers
    BY <2>1 DEF CallersInv, AnswersInv
  <2>4. Passed(d)' = 0
    BY <2>1, <2>3 DEF Passed, AnswersInv
  <2>5. ASSUME NEW i \in DOMAIN req
        PROVE  Taken(Items(req[i]), 0, BatchSize) = 0
    <3>1. PICK list, S : list = Items(req[i]) /\ S = Range(list)
      OBVIOUS
    <3>2. list \in Seq(S)
      BY <3>1, ListOfField, MutationsAssumption
    <3> QED BY <1>2, <3>1, <3>2, TakenAll
  <2> QED BY <1>1, <2>1, <2>2, <2>3, <2>4, <2>5 DEF AnswersInv
<1>4. CASE EndRead
  <2>1. /\ active \in Callers /\ reading /\ field > Len(request[active]) /\ request' = request
        /\ status[active] = "running"
        /\ answered' = [answered EXCEPT ![active] =
             [i \in DOMAIN @ |-> @[i] + (IF left > 0 THEN listed[i] ELSE 0)]]
    BY <1>4 DEF EndRead, ReadComplete, Release, StatementInv
  <2>2. \/ /\ HasChunk(request[active], chunk[active] + 1) /\ chunk' = [chunk EXCEPT ![active] = @ + 1]
           /\ status' = status
        \/ /\ ~HasChunk(request[active], chunk[active] + 1) /\ chunk' = chunk
           /\ status' = [status EXCEPT ![active] = "done"]
    BY <1>4 DEF EndRead
  <2>3. ASSUME NEW c \in Callers, c # active
        PROVE  /\ status'[c] = status[c] /\ chunk'[c] = chunk[c] /\ answered'[c] = answered[c]
               /\ Passed(c)' = Passed(c)
    <3>1. status'[c] = status[c] /\ chunk'[c] = chunk[c] /\ answered'[c] = answered[c]
      BY <2>1, <2>2, <2>3 DEF CallersInv, AnswersInv
    <3> QED BY <3>1 DEF Passed
  <2>4. PICK c \in Callers : c = active
    BY <2>1
  <2>6. PICK k \in Nat \ {0} : k = chunk[c]
    BY DEF CallersInv
  <2>7. /\ status'[c] = "running" \/ (status'[c] = "done" /\ ~HasChunk(request'[c], chunk'[c] + 1))
        /\ Passed(c)' = k
    <3>1. CASE chunk' = [chunk EXCEPT ![c] = @ + 1] /\ status' = status
      <4>1. chunk'[c] = k + 1 /\ status'[c] = "running"
        BY <2>1, <2>4, <2>6, <3>1 DEF CallersInv
      <4> QED BY <2>6, <4>1 DEF Passed
    <3>2. CASE /\ ~HasChunk(request[c], chunk[c] + 1) /\ chunk' = chunk
               /\ status' = [status EXCEPT ![c] = "done"]
      <4>1. chunk'[c] = k /\ status'[c] = "done"
        BY <2>4, <2>6, <3>2 DEF CallersInv
      <4> QED BY <2>1, <2>6, <3>2, <4>1 DEF Passed
    <3> QED BY <2>2, <2>4, <3>1, <3>2
  <2>8. DOMAIN answered' = Callers /\ DOMAIN answered'[c] = DOMAIN request'[c]
        /\ \A i \in DOMAIN request[c] : answered'[c][i] = answered[c][i] + (IF left > 0 THEN listed[i] ELSE 0)
    <3>1. DOMAIN answered = Callers /\ DOMAIN answered[c] = DOMAIN request[c]
      BY DEF AnswersInv
    <3>2. answered'[c] = [i \in DOMAIN answered[c] |-> answered[c][i] + (IF left > 0 THEN listed[i] ELSE 0)]
      BY <2>1, <2>4, <3>1
    <3> QED BY <2>1, <3>1, <3>2
  <2>9. ASSUME NEW i \in DOMAIN request[c], NEW f \in {request[c][i]}, Counted(f)
        PROVE  answered'[c][i] = Taken(Items(f), k, BatchSize)
    <3>1. NoDelete
      BY <2>9, CountedNoDelete
    <3>2. left = 1
      BY <2>1, <2>4, <3>1 DEF RowsInv
    <3>3. i < field
      <4>1. i \in Nat /\ i <= Len(request[c]) /\ Len(request[c]) \in Nat
        BY RequestShape DEF CallersInv
      <4>2. field \in Nat
        BY <2>1, MutationsAssumption DEF StatementInv
      <4> QED BY <2>1, <2>4, <4>1, <4>2
    <3>4. listed[i] = Len(Slice(c, i))
      BY <2>1, <2>4, <2>9, <3>3 DEF RowsInv
    <3>5. answered[c][i] = Taken(Items(f), k - 1, BatchSize)
      <4>1. Passed(c) = k - 1
        BY <2>1, <2>4, <2>6 DEF Passed
      <4>2. answered[c][i] = Taken(Items(f), Passed(c), BatchSize)
        BY <2>9 DEF AnswersInv
      <4> QED BY <4>1, <4>2
    <3>6. Slice(c, i) = SliceAt(Items(f), k, BatchSize)
      BY <2>6, <2>9 DEF Slice
    <3>7. PICK list, S : list = Items(f) /\ S = Range(list)
      OBVIOUS
    <3>8. list \in Seq(S)
      BY <2>9, <3>7, FieldShape
    <3>9. Taken(list, k, BatchSize) = Taken(list, k - 1, BatchSize) + Len(SliceAt(list, k, BatchSize))
      BY <1>2, <3>8, TakenStep
    <3> QED BY <2>8, <3>2, <3>4, <3>5, <3>6, <3>7, <3>9
  <2>10. ASSUME NEW d \in Callers
         PROVE  /\ status'[d] = "idle" => chunk'[d] = 1
                /\ status'[d] = "done" => ~HasChunk(request'[d], chunk'[d] + 1)
                /\ DOMAIN answered'[d] = DOMAIN request'[d]
                /\ \A i \in DOMAIN request[d] : \A f \in {request[d][i]} :
                     Counted(f) => answered'[d][i] = Taken(Items(f), Passed(d)', BatchSize)
    <3>1. CASE d = c
      BY <2>1, <2>7, <2>8, <2>9, <3>1
    <3>2. CASE d # c
      BY <2>1, <2>3, <2>4, <3>2 DEF AnswersInv
    <3> QED BY <3>1, <3>2
  <2>11. request' = request /\ DOMAIN answered' = Callers
    BY <2>1, <2>8
  <2> QED BY <1>1, <2>10, <2>11 DEF AnswersInv
<1>5. CASE \/ \E d \in Callers : BeginWrite(d) \/ BeginRead(d)
           \/ Merge \/ Connect \/ ReadMerged \/ CountConnected \/ Create \/ Update \/ Delete
           \/ NestedStep \/ Collect \/ NextBlock \/ UNCHANGED vars \/ EndWrite
  <2>1. UNCHANGED <<status, chunk, request, answered>>
    <3>1. CASE \E d \in Callers : BeginWrite(d) \/ BeginRead(d)
      BY <3>1 DEF BeginWrite, BeginRead, Begin, callVars
    <3>2. CASE EndWrite
      BY <3>2 DEF EndWrite, Release
    <3> QED BY <1>5, <3>1, <3>2, BlocksLeaveCalls DEF callVars
  <2>2. \A c : Passed(c)' = Passed(c)
    BY <2>1 DEF Passed
  <2> QED BY <1>1, <2>1, <2>2 DEF AnswersInv
<1>6. CASE Fail \/ ReplyLost \/ \E d \in Callers : ReadRefused(d) \/ Resume(d)
  <2>1. UNCHANGED <<chunk, request, answered>>
    BY <1>6 DEF Fail, ReplyLost, ReadRefused, Resume, Release
  <2>2. PICK d \in Callers, st \in {"running", "failed"} :
          status[d] \in {"running", "failed"} /\ status' = [status EXCEPT ![d] = st]
    BY <1>6 DEF Fail, ReplyLost, ReadRefused, Resume, StatementInv, WriteComplete, ReadComplete
  <2>3. \A c \in Callers : /\ status'[c] = status[c] \/ status'[c] \in {"running", "failed"}
                           /\ Passed(c)' = Passed(c)
    <3>1. \A c \in Callers : status'[c] = IF c = d THEN st ELSE status[c]
      BY <2>2 DEF CallersInv
    <3> QED BY <2>1, <2>2, <3>1 DEF Passed
  <2> QED BY <1>1, <2>1, <2>3 DEF AnswersInv
<1> QED BY <1>3, <1>4, <1>5, <1>6 DEF Next, DatabaseStep

(* Every item is counted once. *)
CountInv == SeenInv /\ RowsInv /\ AnswersInv

LEMMA CountInvariance == Spec => []CountInv
<1>1. Init => CountInv
  <2> SUFFICES ASSUME Init PROVE CountInv
    OBVIOUS
  <2>1. /\ active = Nobody /\ Nobody \notin Callers
        /\ request = [c \in Callers |-> <<>>] /\ status = [c \in Callers |-> "idle"]
        /\ chunk = [c \in Callers |-> 1] /\ answered = [c \in Callers |-> <<>>]
    BY MutationsAssumption DEF Init, NoStatement
  <2>2. SeenInv
    BY <2>1 DEF SeenInv
  <2>3. RowsInv
    BY <2>1 DEF RowsInv
  <2>4. AnswersInv
    BY <2>1 DEF AnswersInv
  <2> QED BY <2>2, <2>3, <2>4 DEF CountInv
<1>2. MutationInv /\ MutationInv' /\ TypesInv /\ CountInv /\ [Next]_vars => CountInv'
  BY SeenStep, RowsStep, AnswersStep DEF MutationInv, TypesInv, CountInv
<1> QED BY <1>1, <1>2, Invariance, KindInvariance, PTL DEF Spec

(* Each item of a create or a merge is once in the answers of the chunks,  *)
(* and a connect's number is its items, whatever the lists, the batch size *)
(* and the statements of other callers in between: chunk.go, executeChunk  *)
(* and aggregateResults; merge.go, translateMergeFieldSplit.               *)
THEOREM ItemsAnswered == Spec => []EveryItemAnswered
<1>1. TypesInv /\ CountInv => EveryItemAnswered
  <2> SUFFICES ASSUME TypesInv, AnswersInv, NEW c \in Callers, status[c] = "done", NEW i \in DOMAIN request[c],
                      request[c][i].op \notin {"update", "delete"},
                      request[c][i].op # "merge" => NoDelete,
                      request[c][i].op = "merge" => MergedBy(request[c][i].label, KeysOf(request[c][i], "match"))
               PROVE  answered[c][i] = Len(request[c][i].items)
    BY DEF CountInv, EveryItemAnswered, NoDelete
  <2>1. PICK f : f = request[c][i]
    OBVIOUS
  <2>2. IsField(f) /\ Items(f) \in Seq(Range(Items(f)))
    BY <2>1, FieldShape DEF TypesInv
  <2>3. f.op \in {"merge", "create", "connect"} /\ Items(f) = f.items
    BY <2>1, <2>2 DEF IsField, Items
  <2>4. Counted(f)
    BY <2>1, <2>3 DEF Counted, Merging
  <2>5. Passed(c) = chunk[c] /\ ~HasChunk(request[c], chunk[c] + 1) /\ answered[c][i] = Taken(Items(f), Passed(c), BatchSize)
    BY <2>1, <2>4 DEF AnswersInv, Passed
  <2>6. PICK list, S : list = Items(f) /\ S = Range(list)
    OBVIOUS
  <2>7. chunk[c] \in Nat /\ request[c] \in Requests \cup {<<>>}
    BY DEF TypesInv, CallersInv
  <2>8. PICK k \in Nat : k = chunk[c] /\ Len(list) <= k * BatchSize
    BY <2>1, <2>5, <2>6, <2>7, ItemsEnd
  <2>9. Taken(list, k, BatchSize) = Len(list)
    BY <2>2, <2>6, <2>8, TakenAll, MutationsAssumption
  <2> QED BY <2>1, <2>3, <2>5, <2>6, <2>8, <2>9
<1> QED BY <1>1, CountInvariance, KindInvariance, PTL
-----------------------------------------------------------------------------
(* Recursive functions on trees. *)

(* In[w] are the trees directly in w; among any of them, one has none of   *)
(* the others in it.                                                       *)
Trees(W, In) ==
  /\ In \in [W -> SUBSET W]
  /\ \A some \in (SUBSET W) \ {{}} : \E w \in some : In[w] \cap some = {}

(* F computes the value of a tree from a function g that gives those of    *)
(* the trees in it, and looks at no others.                                *)
Recurses(W, In, V, F) ==
  /\ F \in [W \X [W -> V] -> V]
  /\ \A w \in W : \A g, h \in [W -> V] :
       (\A v \in In[w] : g[v] = h[v]) => F[<<w, g>>] = F[<<w, h>>]

(* g has the right values on a set of trees with all that are in them.     *)
Computes(W, In, V, F, C, g) ==
  /\ C \subseteq W /\ \A w \in C : In[w] \subseteq C
  /\ g \in [W -> V] /\ \A w \in C : g[w] = F[<<w, g>>]

(* Two such functions have the same values where both have the right ones. *)
LEMMA ComputesAgree ==
  ASSUME NEW W, NEW In, NEW V, NEW F, Trees(W, In), Recurses(W, In, V, F),
         NEW C, NEW g, Computes(W, In, V, F, C, g),
         NEW D, NEW h, Computes(W, In, V, F, D, h)
  PROVE  \A w \in C \cap D : g[w] = h[w]
<1> DEFINE differ == {w \in C \cap D : g[w] # h[w]}
<1> SUFFICES ASSUME differ # {} PROVE FALSE
  OBVIOUS
<1>1. differ \in (SUBSET W) \ {{}}
  BY DEF Computes
<1>2. PICK w \in differ : In[w] \cap differ = {}
  BY <1>1 DEF Trees
<1>3. w \in C /\ w \in D /\ w \in W /\ g[w] # h[w]
  BY <1>2 DEF Computes
<1>4. In[w] \subseteq C \cap D
  BY <1>3 DEF Computes
<1>5. \A v \in In[w] : g[v] = h[v]
  BY <1>2, <1>4
<1>6. F[<<w, g>>] = F[<<w, h>>]
  BY <1>3, <1>5 DEF Recurses, Computes
<1> QED BY <1>3, <1>6 DEF Computes

(* Such an F has a function that computes it on every tree. *)
LEMMA Recursion ==
  ASSUME NEW W, NEW In, NEW V, NEW F, V # {}, Trees(W, In), Recurses(W, In, V, F)
  PROVE  \E g \in [W -> V] : \A w \in W : g[w] = F[<<w, g>>]
<1> DEFINE Covers(w, C, g) == Computes(W, In, V, F, C, g) /\ w \in C
           U == {w \in W : \E C, g : Covers(w, C, g)}
           Value(w) == CHOOSE v : \E C, g : Covers(w, C, g) /\ v = g[w]
<1>1. PICK start : start \in V
  OBVIOUS
<1> DEFINE G == [w \in W |-> IF w \in U THEN Value(w) ELSE start]
<1>2. ASSUME NEW w, NEW C, NEW g, Covers(w, C, g)
      PROVE  w \in U /\ C \subseteq U /\ G[w] = g[w] /\ g[w] \in V
  <2>1. C \subseteq U
    BY <1>2 DEF Computes
  <2>2. w \in U /\ w \in W
    BY <1>2, <2>1 DEF Computes
  <2>3. \E v : \E D, h : Covers(w, D, h) /\ v = h[w]
    BY <1>2
  <2>4. PICK D, h : Covers(w, D, h) /\ Value(w) = h[w]
    BY <2>3
  <2>5. h[w] = g[w]
    BY <1>2, <2>4, ComputesAgree
  <2> QED BY <1>2, <2>1, <2>2, <2>4, <2>5 DEF Computes
<1>3. G \in [W -> V]
  <2>1. ASSUME NEW w \in W PROVE G[w] \in V
    <3>1. CASE w \in U
      BY <1>2, <3>1
    <3>2. CASE w \notin U
      BY <1>1, <3>2
    <3> QED BY <3>1, <3>2
  <2>2. G = [w \in W |-> G[w]]
    OBVIOUS
  <2> HIDE DEF G
  <2> QED BY <2>1, <2>2
<1> HIDE DEF G
<1>4. Computes(W, In, V, F, U, G)
  <2>1. ASSUME NEW w \in U PROVE In[w] \subseteq U /\ G[w] = F[<<w, G>>]
    <3>1. PICK C, g : Covers(w, C, g)
      BY <2>1
    <3>2. C \subseteq U /\ G[w] = g[w]
      BY <1>2, <3>1
    <3>3. In[w] \subseteq C /\ g[w] = F[<<w, g>>] /\ g \in [W -> V] /\ w \in W
      BY <3>1 DEF Computes
    <3>4. \A v \in In[w] : Covers(v, C, g)
      BY <3>1, <3>3
    <3>5. \A v \in In[w] : G[v] = g[v]
      BY <1>2, <3>4
    <3>6. F[<<w, G>>] = F[<<w, g>>]
      BY <1>3, <3>3, <3>5 DEF Recurses
    <3> QED BY <3>2, <3>3, <3>6
  <2> QED BY <1>3, <2>1 DEF Computes
<1>5. W \subseteq U
  <2> SUFFICES ASSUME W \ U # {} PROVE FALSE
    OBVIOUS
  <2>1. PICK w \in W \ U : In[w] \cap (W \ U) = {}
    BY DEF Trees
  <2>2. In[w] \subseteq U
    BY <2>1 DEF Trees
  <2> DEFINE v == F[<<w, G>>]
             g == [G EXCEPT ![w] = v]
             C == U \cup {w}
  <2>3. v \in V
    BY <1>3, <2>1 DEF Recurses
  <2>4. g \in [W -> V]
    BY <1>3, <2>3
  <2>5. g[w] = v /\ \A u \in U : g[u] = G[u]
    BY <1>3, <2>1
  <2>6. U \subseteq W
    OBVIOUS
  <2> HIDE DEF U, g, v
  <2>7. \A u \in C : In[u] \subseteq U
    BY <1>4, <2>2 DEF Computes
  <2>8. ASSUME NEW u \in C PROVE g[u] = F[<<u, g>>]
    <3>1. \A x \in In[u] : g[x] = G[x]
      BY <2>5, <2>7
    <3>2. F[<<u, g>>] = F[<<u, G>>]
      BY <1>3, <2>1, <2>4, <2>6, <3>1 DEF Recurses
    <3>3. g[u] = F[<<u, G>>]
      BY <1>4, <2>5 DEF Computes, v
    <3> QED BY <3>2, <3>3
  <2>9. Covers(w, C, g)
    BY <2>1, <2>4, <2>6, <2>7, <2>8 DEF Computes
  <2>10. w \in U
    BY <2>1, <2>9 DEF U
  <2> QED BY <2>1, <2>10
<1> QED BY <1>3, <1>4, <1>5 DEF Computes
-----------------------------------------------------------------------------
(* Filters are such trees, so the recursive functions on them have the     *)
(* values their definitions say.                                           *)
WheresIn == [w \in Wheres |-> InnerWheres(w)]

LEMMA WheresAreTrees == Trees(Wheres, WheresIn)
<1>1. \A w \in Wheres : InnerWheres(w) \subseteq Wheres
  BY GraphAssumption DEF InnerWheres, IsWhere
<1> QED BY <1>1, GraphAssumption DEF Trees, WheresIn

Texts == {"broken", "none", "some"}

(* The text of a filter from the texts of its parts. *)
WholeText(parts, text) ==
  LET kept  == {i \in DOMAIN parts : text[i] # "left out"}
      empty == {i \in kept : text[i] = "empty"}
  IN  CASE (\E i \in kept : text[i] = "broken") \/ (empty # {} /\ kept # empty)
             \/ Cardinality(empty) > 1 -> "broken"
        [] kept = empty -> "none"
        [] OTHER -> "some"

TextStep(w, t) ==
  LET parts == Written(w)
  IN  WholeText(parts, [i \in DOMAIN parts |-> PartText(parts[i], {t[v] : v \in Inner(parts[i])})])

LEMMA TextOf == \A w \in Wheres : Text[w] = TextStep(w, Text)
<1> DEFINE F == [x \in Wheres \X [Wheres -> Texts] |-> TextStep(x[1], x[2])]
<1>1. Recurses(Wheres, WheresIn, Texts, F)
  <2>1. \A w, t : TextStep(w, t) \in Texts
    BY DEF TextStep, WholeText, Texts
  <2>2. F \in [Wheres \X [Wheres -> Texts] -> Texts]
    BY <2>1
  <2>3. ASSUME NEW w \in Wheres, NEW g \in [Wheres -> Texts], NEW h \in [Wheres -> Texts],
               \A v \in WheresIn[w] : g[v] = h[v]
        PROVE  F[<<w, g>>] = F[<<w, h>>]
    <3>1. \A i \in DOMAIN Written(w) : \A v \in Inner(Written(w)[i]) : g[v] = h[v]
      BY <2>3 DEF WheresIn, InnerWheres, Written
    <3>2. \A i \in DOMAIN Written(w) :
            {g[v] : v \in Inner(Written(w)[i])} = {h[v] : v \in Inner(Written(w)[i])}
      BY <3>1
    <3>3. [i \in DOMAIN Written(w) |-> PartText(Written(w)[i], {g[v] : v \in Inner(Written(w)[i])})] =
          [i \in DOMAIN Written(w) |-> PartText(Written(w)[i], {h[v] : v \in Inner(Written(w)[i])})]
      BY <3>2, Zenon
    <3>4. TextStep(w, g) = TextStep(w, h)
      BY <3>3, Zenon DEF TextStep
    <3> QED BY <3>4
  <2> QED BY <2>2, <2>3 DEF Recurses
<1> HIDE DEF F
<1>2. PICK g \in [Wheres -> Texts] : \A w \in Wheres : g[w] = F[<<w, g>>]
  BY <1>1, Recursion, WheresAreTrees DEF Texts
<1>3. g = [w \in Wheres |-> TextStep(w, g)]
  BY <1>2 DEF F
<1>4. Text = CHOOSE text : text = [w \in Wheres |-> TextStep(w, text)]
  BY Zenon DEF Text, TextStep, WholeText
<1>5. Text = [w \in Wheres |-> TextStep(w, Text)]
  BY <1>3, <1>4, Zenon
<1> QED BY <1>5

FullStep(w, full) ==
  /\ w.written
  /\ \A i \in DOMAIN w.parts :
       /\ w.parts[i].tag \in {"AND", "OR"} => w.parts[i].wheres # <<>>
       /\ \A v \in Inner(w.parts[i]) : full[v] /\ (v.parts # <<>> \/ w.parts[i].tag = "some")

LEMMA FullOf == \A w \in Wheres : Full[w] = FullStep(w, Full)
<1> DEFINE F == [x \in Wheres \X [Wheres -> BOOLEAN] |-> FullStep(x[1], x[2])]
<1>1. Recurses(Wheres, WheresIn, BOOLEAN, F)
  <2>1. \A w \in Wheres : \A full : FullStep(w, full) \in BOOLEAN
    BY DEF FullStep
  <2>2. F \in [Wheres \X [Wheres -> BOOLEAN] -> BOOLEAN]
    BY <2>1
  <2>3. ASSUME NEW w \in Wheres, NEW g \in [Wheres -> BOOLEAN], NEW h \in [Wheres -> BOOLEAN],
               \A v \in WheresIn[w] : g[v] = h[v]
        PROVE  F[<<w, g>>] = F[<<w, h>>]
    <3>1. \A i \in DOMAIN w.parts : \A v \in Inner(w.parts[i]) : g[v] = h[v]
      BY <2>3 DEF WheresIn, InnerWheres
    <3>2. FullStep(w, g) = FullStep(w, h)
      BY <3>1, Zenon DEF FullStep
    <3> QED BY <3>2
  <2> QED BY <2>2, <2>3 DEF Recurses
<1> HIDE DEF F
<1>2. PICK g \in [Wheres -> BOOLEAN] : \A w \in Wheres : g[w] = F[<<w, g>>]
  <2> DEFINE V == BOOLEAN
  <2>1. Recurses(Wheres, WheresIn, V, F) /\ V # {}
    BY <1>1
  <2> HIDE DEF V
  <2>2. \E g \in [Wheres -> V] : \A w \in Wheres : g[w] = F[<<w, g>>]
    BY <2>1, Recursion, WheresAreTrees
  <2> QED BY <2>2 DEF V
<1>3. g = [w \in Wheres |-> FullStep(w, g)]
  BY <1>2 DEF F
<1>4. Full = [w \in Wheres |-> FullStep(w, Full)]
  BY <1>3 DEF Full, FullStep
<1> QED BY <1>4

(* What the request's types say of a part of a filter. *)
LEMMA InnerOf ==
  ASSUME NEW w \in Wheres, NEW i \in DOMAIN w.parts
  PROVE  /\ Inner(w.parts[i]) \subseteq Wheres /\ Inner(w.parts[i]) \subseteq WheresIn[w]
         /\ w.parts[i].tag \in {"is", "some", "NOT", "AND", "OR"}
         /\ w.parts[i].tag = "is" => Inner(w.parts[i]) = {}
         /\ w.parts[i].tag \in {"some", "NOT"} => Inner(w.parts[i]) = {w.parts[i].where}
         /\ w.parts[i].tag \in {"AND", "OR"} /\ w.parts[i].wheres # <<>> => Inner(w.parts[i]) # {}
<1>1. IsWhere(w)
  BY GraphAssumption
<1>2. w.parts[i].tag \in {"is", "some", "NOT", "AND", "OR"} /\ Inner(w.parts[i]) \subseteq Wheres
  BY <1>1 DEF IsWhere
<1>3. Inner(w.parts[i]) \subseteq WheresIn[w]
  BY DEF WheresIn, InnerWheres
<1>4. ASSUME w.parts[i].tag \in {"AND", "OR"}, w.parts[i].wheres # <<>>
      PROVE  Inner(w.parts[i]) # {}
  <2>1. PICK S : w.parts[i].wheres \in Seq(S)
    BY <1>1, <1>4 DEF IsWhere
  <2>2. 1 \in DOMAIN w.parts[i].wheres
    BY <1>4, <2>1
  <2> QED BY <1>4, <2>2 DEF Inner
<1> QED BY <1>2, <1>3, <1>4 DEF Inner

(* The clause of a filter that is written out: there is one unless the     *)
(* filter is empty, and each part adds a predicate to it.                  *)
TextIsFull(w) ==
  /\ Text[w] = IF w.parts = <<>> THEN "none" ELSE "some"
  /\ Predicates(w) = {w.parts[i] : i \in DOMAIN w.parts}

LEMMA FullText ==
  ASSUME NEW w \in Wheres, Full[w]
  PROVE  /\ TextIsFull(w)
         /\ \A i \in DOMAIN w.parts : \A v \in Inner(w.parts[i]) : Full[v]
         /\ \A i \in DOMAIN w.parts : w.parts[i].tag \in {"NOT", "AND", "OR"} =>
              Inner(w.parts[i]) # {} /\ \A v \in Inner(w.parts[i]) : Text[v] = "some"
<1> DEFINE bad == {v \in Wheres : Full[v] /\ ~TextIsFull(v)}
<1>1. ASSUME NEW v \in Wheres, Full[v],
             \A u \in WheresIn[v] : Full[u] => TextIsFull(u)
      PROVE  /\ TextIsFull(v)
             /\ \A i \in DOMAIN v.parts : \A u \in Inner(v.parts[i]) : Full[u]
             /\ \A i \in DOMAIN v.parts : v.parts[i].tag \in {"NOT", "AND", "OR"} =>
                  Inner(v.parts[i]) # {} /\ \A u \in Inner(v.parts[i]) : Text[u] = "some"
  <2>1. FullStep(v, Full)
    BY <1>1, FullOf
  <2>2. Written(v) = v.parts
    BY <2>1 DEF FullStep, Written
  <2>3. ASSUME NEW i \in DOMAIN v.parts
        PROVE  /\ \A u \in Inner(v.parts[i]) : Full[u]
               /\ v.parts[i].tag \in {"NOT", "AND", "OR"} =>
                    Inner(v.parts[i]) # {} /\ \A u \in Inner(v.parts[i]) : Text[u] = "some"
               /\ PartText(v.parts[i], {Text[u] : u \in Inner(v.parts[i])}) = "some"
    <3>1. \A u \in Inner(v.parts[i]) : Full[u] /\ TextIsFull(u)
      BY <1>1, <2>1, InnerOf DEF FullStep
    <3>2. \A u \in Inner(v.parts[i]) : Text[u] \in {"none", "some"}
      BY <3>1 DEF TextIsFull
    <3>3. \A u \in Inner(v.parts[i]) : v.parts[i].tag # "some" => Text[u] = "some"
      BY <2>1, <3>1 DEF TextIsFull, FullStep
    <3>4. v.parts[i].tag \in {"NOT", "AND", "OR"} => Inner(v.parts[i]) # {}
      <4>1. v.parts[i].tag \in {"AND", "OR"} => v.parts[i].wheres # <<>>
        BY <2>1 DEF FullStep
      <4>2. /\ v.parts[i].tag = "NOT" => Inner(v.parts[i]) = {v.parts[i].where}
            /\ v.parts[i].tag \in {"AND", "OR"} /\ v.parts[i].wheres # <<>> => Inner(v.parts[i]) # {}
        BY InnerOf
      <4> QED BY <4>1, <4>2
    <3>5. PartText(v.parts[i], {Text[u] : u \in Inner(v.parts[i])}) = "some"
      <4> DEFINE texts == {Text[u] : u \in Inner(v.parts[i])}
      <4>1. "broken" \notin texts
        BY <3>2
      <4>2. v.parts[i].tag \in {"NOT", "AND", "OR"} => "some" \in texts
        BY <3>3, <3>4
      <4>3. v.parts[i].tag \in {"is", "some", "NOT", "AND", "OR"}
        BY InnerOf
      <4> HIDE DEF texts
      <4>4. PartText(v.parts[i], texts) = "some"
        BY <4>1, <4>2, <4>3 DEF PartText
      <4> QED BY <4>4 DEF texts
    <3> QED BY <3>1, <3>3, <3>4, <3>5
  <2>4. Predicates(v) = {v.parts[i] : i \in DOMAIN v.parts}
    BY <2>2, <2>3 DEF Predicates
  <2>5. Text[v] = IF v.parts = <<>> THEN "none" ELSE "some"
    <3> DEFINE parts == v.parts
               text  == [i \in DOMAIN parts |-> PartText(parts[i], {Text[u] : u \in Inner(parts[i])})]
               kept  == {i \in DOMAIN parts : text[i] # "left out"}
               empty == {i \in kept : text[i] = "empty"}
    <3>1. \A i \in DOMAIN parts : text[i] = "some"
      BY <2>3
    <3>2. kept = DOMAIN parts /\ empty = {} /\ \A i \in kept : text[i] # "broken"
      BY <3>1
    <3>3. Cardinality(empty) = 0
      BY <3>2, FS_EmptySet
    <3>4. (kept = empty) <=> parts = <<>>
      <4>1. PICK S : parts \in Seq(S)
        BY GraphAssumption DEF IsWhere
      <4> HIDE DEF parts
      <4>2. DOMAIN parts = {} <=> parts = <<>>
        BY <4>1
      <4> QED BY <3>2, <4>2
    <3>5. Text[v] = TextStep(v, Text)
      BY TextOf
    <3>6. TextStep(v, Text) = CASE (\E i \in kept : text[i] = "broken") \/ (empty # {} /\ kept # empty)
                                     \/ Cardinality(empty) > 1 -> "broken"
                                [] kept = empty -> "none"
                                [] OTHER -> "some"
      BY <2>2 DEF TextStep, WholeText
    <3> HIDE DEF text, kept, empty
    <3> QED BY <3>2, <3>3, <3>4, <3>5, <3>6
  <2> QED BY <2>3, <2>4, <2>5 DEF TextIsFull
<1>2. bad = {}
  <2> SUFFICES ASSUME bad # {} PROVE FALSE
    OBVIOUS
  <2>1. PICK v \in bad : WheresIn[v] \cap bad = {}
    BY WheresAreTrees DEF Trees
  <2>2. WheresIn[v] \subseteq Wheres
    BY <2>1, WheresAreTrees DEF Trees
  <2>3. \A u \in WheresIn[v] : Full[u] => TextIsFull(u)
    BY <2>1, <2>2
  <2>4. v \in Wheres /\ Full[v] /\ ~TextIsFull(v)
    BY <2>1
  <2> QED BY <1>1, <2>3, <2>4
<1>3. \A u \in WheresIn[w] : Full[u] => TextIsFull(u)
  BY <1>2, WheresAreTrees DEF Trees
<1> QED BY <1>1, <1>3
-----------------------------------------------------------------------------
AppliesStep(w, applies) ==
  {l \in Labels : \A i \in DOMAIN w.parts :
     IF w.parts[i].tag = "some"
     THEN \E r \in DOMAIN Relationships :
            /\ Relationships[r].from = l
            /\ Relationships[r].field = w.parts[i].field
            /\ Relationships[r].to \in applies[w.parts[i].where]
     ELSE \A v \in Inner(w.parts[i]) : l \in applies[v]}

LEMMA AppliesOf == \A w \in Wheres : Applies[w] = AppliesStep(w, Applies)
<1> DEFINE V == SUBSET Labels
           F == [x \in Wheres \X [Wheres -> V] |-> AppliesStep(x[1], x[2])]
<1>1. Recurses(Wheres, WheresIn, V, F)
  <2>1. \A w, g : AppliesStep(w, g) \in V
    BY DEF AppliesStep
  <2>2. F \in [Wheres \X [Wheres -> V] -> V]
    BY <2>1
  <2>3. ASSUME NEW w \in Wheres, NEW g \in [Wheres -> V], NEW h \in [Wheres -> V],
               \A v \in WheresIn[w] : g[v] = h[v]
        PROVE  F[<<w, g>>] = F[<<w, h>>]
    <3>1. ASSUME NEW i \in DOMAIN w.parts
          PROVE  /\ \A v \in Inner(w.parts[i]) : g[v] = h[v]
                 /\ w.parts[i].tag = "some" => g[w.parts[i].where] = h[w.parts[i].where]
      <4>1. Inner(w.parts[i]) \subseteq WheresIn[w]
        BY InnerOf
      <4>2. w.parts[i].tag = "some" => Inner(w.parts[i]) = {w.parts[i].where}
        BY InnerOf
      <4> QED BY <2>3, <4>1, <4>2
    <3>2. AppliesStep(w, g) = AppliesStep(w, h)
      BY <3>1 DEF AppliesStep
    <3> QED BY <3>2
  <2> QED BY <2>2, <2>3 DEF Recurses
<1>2. V # {}
  OBVIOUS
<1> HIDE DEF F, V
<1>3. PICK g \in [Wheres -> V] : \A w \in Wheres : g[w] = F[<<w, g>>]
  BY <1>1, <1>2, Recursion, WheresAreTrees
<1>4. g = [w \in Wheres |-> AppliesStep(w, g)]
  BY <1>3 DEF F
<1>5. Applies = [w \in Wheres |-> AppliesStep(w, Applies)]
  BY <1>4 DEF Applies, AppliesStep
<1> QED BY <1>5

Truths == {"yes", "no", "null"}

PartHolds(part, n, holds) ==
  LET within == {holds[v][n] : v \in {u \in Inner(part) : Text[u] = "some"}}
  IN  CASE part.tag = "is"  -> Compare(part, nodes[n].props[part.prop])
        [] part.tag = "NOT" -> Negation(holds[part.where][n])
        [] part.tag = "AND" -> Conjunction(within)
        [] part.tag = "OR"  -> Disjunction(within)
        [] part.tag = "some" ->
             Truth(\E i \in Leading(Candidates(nodes[n].label, part.field)) :
                     \E m \in Related(Relationships[i], n) : holds[part.where][m] = "yes")

HoldsStep(w, holds) ==
  [n \in DOMAIN nodes |-> Conjunction({PartHolds(part, n, holds) : part \in Predicates(w)})]

LEMMA HoldsOf == \A w \in Wheres : Holds[w] = HoldsStep(w, Holds)
<1> DEFINE V == [DOMAIN nodes -> Truths]
           F == [x \in Wheres \X [Wheres -> V] |-> HoldsStep(x[1], x[2])]
<1>1. Recurses(Wheres, WheresIn, V, F)
  <2>1. \A vs : Conjunction(vs) \in Truths
    BY DEF Conjunction, Truths
  <2>2. \A w, g : HoldsStep(w, g) \in V
    BY <2>1 DEF HoldsStep
  <2>3. F \in [Wheres \X [Wheres -> V] -> V]
    BY <2>2
  <2>4. ASSUME NEW w \in Wheres, NEW g \in [Wheres -> V], NEW h \in [Wheres -> V],
               \A v \in WheresIn[w] : g[v] = h[v]
        PROVE  F[<<w, g>>] = F[<<w, h>>]
    <3>1. ASSUME NEW n \in DOMAIN nodes, NEW part \in Predicates(w)
          PROVE  PartHolds(part, n, g) = PartHolds(part, n, h)
      <4>1. PICK i \in DOMAIN w.parts : part = w.parts[i]
        BY <3>1 DEF Predicates, Written
      <4>2. \A v \in Inner(part) : g[v] = h[v]
        BY <2>4, <4>1, InnerOf
      <4>3. part.tag \in {"some", "NOT"} => g[part.where] = h[part.where]
        BY <4>1, <4>2, InnerOf
      <4>4. {g[v][n] : v \in {u \in Inner(part) : Text[u] = "some"}}
              = {h[v][n] : v \in {u \in Inner(part) : Text[u] = "some"}}
        BY <4>2
      <4>5. part.tag \in {"is", "some", "NOT", "AND", "OR"}
        BY <4>1, InnerOf
      <4> QED BY <4>3, <4>4, <4>5 DEF PartHolds
    <3>2. \A n \in DOMAIN nodes : {PartHolds(part, n, g) : part \in Predicates(w)}
                                    = {PartHolds(part, n, h) : part \in Predicates(w)}
      BY <3>1
    <3>3. HoldsStep(w, g) = HoldsStep(w, h)
      BY <3>2 DEF HoldsStep
    <3> QED BY <3>3
  <2> QED BY <2>3, <2>4 DEF Recurses
<1>2. V # {}
  <2>1. [n \in DOMAIN nodes |-> "yes"] \in V
    BY DEF Truths
  <2> QED BY <2>1
<1> HIDE DEF F, V
<1>3. PICK g \in [Wheres -> V] : \A w \in Wheres : g[w] = F[<<w, g>>]
  BY <1>1, <1>2, Recursion, WheresAreTrees
<1>4. g = [w \in Wheres |-> HoldsStep(w, g)]
  BY <1>3 DEF F
<1>5. Holds = CHOOSE holds : holds = [w \in Wheres |-> HoldsStep(w, holds)]
  BY Zenon DEF Holds, HoldsStep, PartHolds
<1>6. Holds = [w \in Wheres |-> HoldsStep(w, Holds)]
  BY <1>4, <1>5, Zenon
<1> QED BY <1>6

Every(sets) == {n \in DOMAIN nodes : \A s \in sets : n \in s}

Meaning(x, means) ==
  LET inner == {means[v] : v \in Inner(x)}
      yes   == {v.yes : v \in inner}
      no    == {v.no : v \in inner}
  IN CASE x.tag = "is"  -> [yes |-> {n \in DOMAIN nodes : Compare(x, nodes[n].props[x.prop]) = "yes"},
                            no  |-> {n \in DOMAIN nodes : Compare(x, nodes[n].props[x.prop]) = "no"}]
       [] x.tag = "NOT" -> [yes |-> UNION no, no |-> UNION yes]
       [] x.tag = "AND" -> [yes |-> Every(yes), no |-> UNION no]
       [] x.tag = "OR"  -> [yes |-> UNION yes, no |-> Every(no)]
       [] x.tag = "some" ->
            LET has == {n \in DOMAIN nodes : \E i \in DOMAIN Relationships :
                          /\ Relationships[i].from = nodes[n].label
                          /\ Relationships[i].field = x.field
                          /\ Related(Relationships[i], n) \cap UNION yes # {}}
            IN  [yes |-> has, no |-> DOMAIN nodes \ has]

MeansStep(w, means) ==
  LET parts == {Meaning(w.parts[i], means) : i \in DOMAIN w.parts}
  IN  [yes |-> Every({m.yes : m \in parts}), no |-> UNION {m.no : m \in parts}]

LEMMA MeansOf == \A w \in Wheres : Means[w] = MeansStep(w, Means)
<1> DEFINE V == [yes : SUBSET DOMAIN nodes, no : SUBSET DOMAIN nodes]
           F == [x \in Wheres \X [Wheres -> V] |-> MeansStep(x[1], x[2])]
<1>1. Recurses(Wheres, WheresIn, V, F)
  <2>1. ASSUME NEW w \in Wheres, NEW g \in [Wheres -> V], NEW i \in DOMAIN w.parts
        PROVE  Meaning(w.parts[i], g) \in V
    <3>1. w.parts[i].tag \in {"is", "some", "NOT", "AND", "OR"}
      BY InnerOf
    <3>2. Inner(w.parts[i]) \subseteq Wheres
      BY InnerOf
    <3> DEFINE yes == {v.yes : v \in {g[v] : v \in Inner(w.parts[i])}}
               no == {v.no : v \in {g[v] : v \in Inner(w.parts[i])}}
    <3>3. UNION yes \subseteq DOMAIN nodes /\ UNION no \subseteq DOMAIN nodes
      BY <3>2
    <3>4. Every(yes) \subseteq DOMAIN nodes /\ Every(no) \subseteq DOMAIN nodes
      BY DEF Every
    <3> HIDE DEF yes, no
    <3>5. CASE w.parts[i].tag = "is"
      BY <3>5 DEF Meaning
    <3>6. CASE w.parts[i].tag = "NOT"
      BY <3>3, <3>6 DEF Meaning, yes, no
    <3>7. CASE w.parts[i].tag = "AND"
      BY <3>3, <3>4, <3>7 DEF Meaning, yes, no
    <3>8. CASE w.parts[i].tag = "OR"
      BY <3>3, <3>4, <3>8 DEF Meaning, yes, no
    <3>9. CASE w.parts[i].tag = "some"
      BY <3>9 DEF Meaning
    <3> QED BY <3>1, <3>5, <3>6, <3>7, <3>8, <3>9
  <2>2. ASSUME NEW w \in Wheres, NEW g \in [Wheres -> V]
        PROVE  MeansStep(w, g) \in V
    <3>1. UNION {m.no : m \in {Meaning(w.parts[i], g) : i \in DOMAIN w.parts}} \subseteq DOMAIN nodes
      BY <2>1
    <3>2. Every({m.yes : m \in {Meaning(w.parts[i], g) : i \in DOMAIN w.parts}}) \subseteq DOMAIN nodes
      BY DEF Every
    <3> QED BY <3>1, <3>2 DEF MeansStep
  <2>3. F \in [Wheres \X [Wheres -> V] -> V]
    BY <2>2
  <2>4. ASSUME NEW w \in Wheres, NEW g \in [Wheres -> V], NEW h \in [Wheres -> V],
               \A v \in WheresIn[w] : g[v] = h[v]
        PROVE  F[<<w, g>>] = F[<<w, h>>]
    <3>1. ASSUME NEW i \in DOMAIN w.parts
          PROVE  Meaning(w.parts[i], g) = Meaning(w.parts[i], h)
      <4>1. \A v \in Inner(w.parts[i]) : g[v] = h[v]
        BY <2>4, InnerOf
      <4>2. {g[v] : v \in Inner(w.parts[i])} = {h[v] : v \in Inner(w.parts[i])}
        BY <4>1
      <4> QED BY <4>2, Zenon DEF Meaning
    <3>2. {Meaning(w.parts[i], g) : i \in DOMAIN w.parts} = {Meaning(w.parts[i], h) : i \in DOMAIN w.parts}
      BY <3>1
    <3>3. MeansStep(w, g) = MeansStep(w, h)
      BY <3>2, Zenon DEF MeansStep
    <3> QED BY <3>3
  <2> QED BY <2>3, <2>4 DEF Recurses
<1>2. V # {}
  <2>1. [yes |-> {}, no |-> {}] \in V
    OBVIOUS
  <2> QED BY <2>1
<1> HIDE DEF F, V
<1>3. PICK g \in [Wheres -> V] : \A w \in Wheres : g[w] = F[<<w, g>>]
  BY <1>1, <1>2, Recursion, WheresAreTrees
<1>4. g = [w \in Wheres |-> MeansStep(w, g)]
  BY <1>3 DEF F
<1>5. Means = CHOOSE means : means = [w \in Wheres |-> MeansStep(w, means)]
  BY Zenon DEF Means, MeansStep, Meaning, Every
<1>6. Means = [w \in Wheres |-> MeansStep(w, Means)]
  BY <1>4, <1>5, Zenon
<1> QED BY <1>6
-----------------------------------------------------------------------------
(* Conjunction and disjunction of any number of truth values. *)
LEMMA TruthTables ==
  ASSUME NEW vs, vs \subseteq Truths
  PROVE  /\ Conjunction(vs) \in Truths /\ Disjunction(vs) \in Truths
         /\ Conjunction(vs) = "yes" <=> \A v \in vs : v = "yes"
         /\ Conjunction(vs) = "no" <=> \E v \in vs : v = "no"
         /\ Disjunction(vs) = "yes" <=> \E v \in vs : v = "yes"
         /\ Disjunction(vs) = "no" <=> \A v \in vs : v = "no"
BY DEF Conjunction, Disjunction, Truths

(* A value and the sets of a meaning agree at a node. *)
Agrees(value, meaning, n) ==
  /\ value \in Truths
  /\ value = "yes" <=> n \in meaning.yes
  /\ value = "no" <=> n \in meaning.no

RightFor(w, l) == \A n \in Labelled(l) : Agrees(Holds[w][n], Means[w], n)

(* The relationship a filter's field name means for a type it applies to. *)
LEMMA FilterRelationship ==
  ASSUME NamesApart, NEW r \in DOMAIN Relationships, NEW l, l = Relationships[r].from
  PROVE  /\ Leading(Candidates(l, Relationships[r].field)) = {r}
         /\ \A i \in DOMAIN Relationships :
              Relationships[i].from = l /\ Relationships[i].field = Relationships[r].field => i = r
<1>1. \A i \in DOMAIN Relationships :
        Relationships[i].from = l /\ Relationships[i].field = Relationships[r].field => i = r
  BY GraphAssumption
<1>2. Candidates(l, Relationships[r].field) = {r}
  BY <1>1 DEF Candidates, RelationshipsForNode, NamesApart
<1>3. r \in Nat
  BY GraphAssumption
<1> QED BY <1>1, <1>2, <1>3 DEF Leading

(* If the filters in a part are right, so is its predicate. *)
LEMMA PartAgrees ==
  ASSUME NamesApart, NEW w \in Wheres, Full[w], NEW l \in Applies[w], NEW i \in DOMAIN w.parts,
         \A v \in Inner(w.parts[i]) : \A k \in Applies[v] : RightFor(v, k),
         NEW n \in Labelled(l)
  PROVE  Agrees(PartHolds(w.parts[i], n, Holds), Meaning(w.parts[i], Means), n)
<1> DEFINE part == w.parts[i]
           inner == Inner(part)
<1>1. /\ l \in Labels
      /\ part.tag # "some" => \A v \in inner : l \in Applies[v]
      /\ part.tag = "some" => \E r \in DOMAIN Relationships :
           /\ Relationships[r].from = l
           /\ Relationships[r].field = part.field
           /\ Relationships[r].to \in Applies[part.where]
  BY AppliesOf DEF AppliesStep
<1>2. /\ inner \subseteq Wheres /\ part.tag \in {"is", "some", "NOT", "AND", "OR"}
      /\ part.tag \in {"some", "NOT"} => inner = {part.where}
  BY InnerOf
<1>3. n \in DOMAIN nodes /\ nodes[n].label = l
  BY DEF Labelled
<1>4. part.tag # "some" => \A v \in inner : Agrees(Holds[v][n], Means[v], n)
  BY <1>1 DEF RightFor
<1>5. part.tag \in {"NOT", "AND", "OR"} => \A v \in inner : Text[v] = "some"
  BY FullText
<1>6. part.tag = "is" => part.op \in {"isNull", "is", "not", "in", "nin"}
  <2>1. IsWhere(w)
    BY GraphAssumption
  <2> QED BY <2>1 DEF IsWhere
<1> HIDE DEF part, inner
<1>7. CASE part.tag = "is"
  <2>1. Compare(part, nodes[n].props[part.prop]) \in Truths
    <3>1. \A v, u : Equal(v, u) \in Truths /\ IsIn(v, u) \in Truths
      BY DEF Equal, IsIn, Disjunction, Truth, Truths
    <3>2. \A v : v \in Truths => Negation(v) \in Truths
      BY DEF Negation, Truths
    <3>3. \A b : Truth(b) \in Truths
      BY DEF Truth, Truths
    <3> QED BY <1>6, <1>7, <3>1, <3>2, <3>3 DEF Compare
  <2>2. PartHolds(part, n, Holds) = Compare(part, nodes[n].props[part.prop])
    BY <1>7 DEF PartHolds
  <2>3. /\ Meaning(part, Means).yes = {m \in DOMAIN nodes : Compare(part, nodes[m].props[part.prop]) = "yes"}
        /\ Meaning(part, Means).no = {m \in DOMAIN nodes : Compare(part, nodes[m].props[part.prop]) = "no"}
    BY <1>7 DEF Meaning
  <2> QED BY <1>3, <2>1, <2>2, <2>3 DEF Agrees, part
<1>8. CASE part.tag = "NOT"
  <2>1. PartHolds(part, n, Holds) = Negation(Holds[part.where][n])
    BY <1>8 DEF PartHolds
  <2>2. inner = {part.where} /\ Agrees(Holds[part.where][n], Means[part.where], n)
    BY <1>2, <1>4, <1>8
  <2>3. Meaning(part, Means).yes = Means[part.where].no /\ Meaning(part, Means).no = Means[part.where].yes
    BY <1>8, <2>2 DEF Meaning, inner
  <2>4. Agrees(PartHolds(part, n, Holds), Meaning(part, Means), n)
    BY <2>1, <2>2, <2>3 DEF Agrees, Negation, Truths
  <2> QED BY <2>4 DEF part
<1>9. CASE part.tag \in {"AND", "OR"}
  <2> DEFINE within == {Holds[v][n] : v \in inner}
  <2>1. {v \in inner : Text[v] = "some"} = inner
    BY <1>5, <1>9
  <2>2. PartHolds(part, n, Holds) = IF part.tag = "AND" THEN Conjunction(within) ELSE Disjunction(within)
    BY <1>9, <2>1 DEF PartHolds, inner
  <2>3. \A v \in inner : Agrees(Holds[v][n], Means[v], n)
    BY <1>4, <1>9
  <2>4. within \subseteq Truths
    BY <2>3 DEF Agrees
  <2>5. /\ (\A x \in within : x = "yes") <=> (\A v \in inner : n \in Means[v].yes)
        /\ (\E x \in within : x = "yes") <=> (\E v \in inner : n \in Means[v].yes)
        /\ (\A x \in within : x = "no") <=> (\A v \in inner : n \in Means[v].no)
        /\ (\E x \in within : x = "no") <=> (\E v \in inner : n \in Means[v].no)
    BY <2>3 DEF Agrees
  <2> HIDE DEF within
  <2>6. /\ part.tag = "AND" => (n \in Meaning(part, Means).yes <=> \A v \in inner : n \in Means[v].yes)
        /\ part.tag = "AND" => (n \in Meaning(part, Means).no <=> \E v \in inner : n \in Means[v].no)
        /\ part.tag = "OR" => (n \in Meaning(part, Means).yes <=> \E v \in inner : n \in Means[v].yes)
        /\ part.tag = "OR" => (n \in Meaning(part, Means).no <=> \A v \in inner : n \in Means[v].no)
    <3>1. n \in DOMAIN nodes
      BY <1>3
    <3> QED BY <3>1 DEF Meaning, inner, Every
  <2>7. Agrees(PartHolds(part, n, Holds), Meaning(part, Means), n)
    BY <1>9, <2>2, <2>4, <2>5, <2>6, TruthTables DEF Agrees
  <2> QED BY <2>7 DEF part
<1>10. CASE part.tag = "some"
  <2>1. PICK r \in DOMAIN Relationships : /\ Relationships[r].from = l
                                          /\ Relationships[r].field = part.field
                                          /\ Relationships[r].to \in Applies[part.where]
    BY <1>1, <1>10
  <2> DEFINE here == \E m \in Related(Relationships[r], n) : Holds[part.where][m] = "yes"
  <2>2. Leading(Candidates(nodes[n].label, part.field)) = {r}
    BY <1>3, <2>1, FilterRelationship
  <2>3. PartHolds(part, n, Holds) = Truth(here)
    BY <1>10, <2>2 DEF PartHolds
  <2>4. inner = {part.where}
    BY <1>2, <1>10
  <2>5. \A m \in Labelled(Relationships[r].to) : Agrees(Holds[part.where][m], Means[part.where], m)
    BY <2>1, <2>4 DEF RightFor, inner, part
  <2>6. here <=> Related(Relationships[r], n) \cap Means[part.where].yes # {}
    BY <2>5 DEF Agrees, Related
  <2> DEFINE has == {m \in DOMAIN nodes : \E j \in DOMAIN Relationships :
                       /\ Relationships[j].from = nodes[m].label
                       /\ Relationships[j].field = part.field
                       /\ Related(Relationships[j], m) \cap Means[part.where].yes # {}}
  <2>7. Meaning(part, Means) = [yes |-> has, no |-> DOMAIN nodes \ has]
    <3>1. UNION {v.yes : v \in {Means[v] : v \in inner}} = Means[part.where].yes
      BY <2>4
    <3> QED BY <1>10, <3>1 DEF Meaning, inner
  <2>8. n \in has <=> here
    <3>1. \A j \in DOMAIN Relationships :
            Relationships[j].from = l /\ Relationships[j].field = part.field => j = r
      BY <2>1, FilterRelationship
    <3> QED BY <1>3, <2>1, <2>6, <3>1
  <2> HIDE DEF has, here
  <2>9. Agrees(PartHolds(part, n, Holds), Meaning(part, Means), n)
    BY <1>3, <2>3, <2>7, <2>8 DEF Agrees, Truth, Truths
  <2> QED BY <2>9 DEF part
<1> QED BY <1>2, <1>7, <1>8, <1>9, <1>10 DEF part

(* The clause written for a filter selects the nodes it is true of. *)
LEMMA FilterAgrees ==
  ASSUME NamesApart, NEW w \in Wheres, Full[w], NEW l \in Applies[w]
  PROVE  RightFor(w, l)
<1> DEFINE bad == {v \in Wheres : Full[v] /\ ~(\A k \in Applies[v] : RightFor(v, k))}
<1> SUFFICES ASSUME bad # {} PROVE FALSE
  OBVIOUS
<1>1. PICK v \in bad : WheresIn[v] \cap bad = {}
  BY WheresAreTrees DEF Trees
<1>2. WheresIn[v] \subseteq Wheres
  BY <1>1, WheresAreTrees DEF Trees
<1>3. \A u \in WheresIn[v] : Full[u] => \A k \in Applies[u] : RightFor(u, k)
  BY <1>1, <1>2
<1>4. v \in Wheres /\ Full[v] /\ ~(\A k \in Applies[v] : RightFor(v, k))
  BY <1>1
<1>5. PICK k \in Applies[v] : ~RightFor(v, k)
  BY <1>4
<1>6. PICK n \in Labelled(k) : ~Agrees(Holds[v][n], Means[v], n)
  BY <1>5 DEF RightFor
<1>7. n \in DOMAIN nodes
  BY DEF Labelled
<1> DEFINE value(i) == PartHolds(v.parts[i], n, Holds)
           meaning(i) == Meaning(v.parts[i], Means)
           vs == {value(i) : i \in DOMAIN v.parts}
<1>8. ASSUME NEW i \in DOMAIN v.parts PROVE Agrees(value(i), meaning(i), n)
  <2>1. \A u \in Inner(v.parts[i]) : Full[u]
    BY <1>4, FullText
  <2>2. \A u \in Inner(v.parts[i]) : \A x \in Applies[u] : RightFor(u, x)
    BY <1>3, <1>4, <2>1, InnerOf
  <2> QED BY <1>4, <2>2, PartAgrees
<1>9. Holds[v][n] = Conjunction(vs)
  <2>1. Predicates(v) = {v.parts[i] : i \in DOMAIN v.parts}
    BY <1>4, FullText DEF TextIsFull
  <2>2. Holds[v][n] = Conjunction({PartHolds(part, n, Holds) : part \in Predicates(v)})
    BY <1>4, <1>7, HoldsOf DEF HoldsStep
  <2>3. {PartHolds(part, n, Holds) : part \in Predicates(v)} = vs
    BY <2>1
  <2> QED BY <2>2, <2>3
<1>10. /\ n \in Means[v].yes <=> \A i \in DOMAIN v.parts : n \in meaning(i).yes
       /\ n \in Means[v].no <=> \E i \in DOMAIN v.parts : n \in meaning(i).no
  <2>1. Means[v] = MeansStep(v, Means)
    BY <1>4, MeansOf
  <2> QED BY <1>7, <2>1 DEF MeansStep, Every
<1> HIDE DEF value, meaning
<1>11. vs \subseteq Truths
  BY <1>8 DEF Agrees
<1>12. /\ (\A x \in vs : x = "yes") <=> \A i \in DOMAIN v.parts : n \in meaning(i).yes
       /\ (\E x \in vs : x = "no") <=> \E i \in DOMAIN v.parts : n \in meaning(i).no
  BY <1>8 DEF Agrees
<1> HIDE DEF vs
<1>13. Agrees(Holds[v][n], Means[v], n)
  BY <1>9, <1>10, <1>11, <1>12, TruthTables DEF Agrees
<1> QED BY <1>6, <1>13

(* Every filter written out selects what it means. *)
LEMMA FiltersRight == NamesApart => FiltersSelectMeaning
<1> SUFFICES ASSUME NamesApart, NEW w \in Wheres, Full[w]
    PROVE  /\ Text[w] # "broken"
           /\ \A l \in Applies[w] : Matching(l, w) = Means[w].yes \cap Labelled(l)
  BY DEF FiltersSelectMeaning
<1>1. Text[w] # "broken"
  BY FullText DEF TextIsFull
<1>2. ASSUME NEW l \in Applies[w] PROVE Matching(l, w) = Means[w].yes \cap Labelled(l)
  <2>1. RightFor(w, l)
    BY FilterAgrees
  <2> QED BY <2>1 DEF RightFor, Agrees, Matching
<1> QED BY <1>1, <1>2

(* However filters are nested, and whatever is missing on the nodes of     *)
(* whatever graph, a filter written out in the request selects the nodes   *)
(* it is true of.                                                          *)
THEOREM FiltersMean == NamesApart => (Spec => []FiltersSelectMeaning)
<1> SUFFICES ASSUME NamesApart PROVE Spec => []FiltersSelectMeaning
  OBVIOUS
<1>1. FiltersSelectMeaning
  BY FiltersRight
<1> QED BY <1>1, PTL
-----------------------------------------------------------------------------
(* Changes. *)

(* A request whose filters are written out and whose nested changes are    *)
(* lists.  The database refuses the text of a broken filter.               *)
WrittenOut(f) ==
  /\ f.op \in {"update", "delete"} => Text[f.where] = "broken" \/ Full[f.where]
  /\ f.op = "update" => \A j \in DOMAIN f.nested :
       f.nested[j].op \in {"disconnect", "update", "delete"} => f.nested[j].listed

AllWrittenOut == \A req \in Requests : \A i \in DOMAIN req : WrittenOut(req[i])

(* The filters of a field are in chunk k as they are in the request.       *)
WholeIn(f, k) ==
  /\ f.op \in {"update", "delete"} => Cut[f.where][k] = f.where
  /\ f.op \in {"create", "update"} => \A at \in Nested(f) :
       LET where == Part(NestedItems(NestedOp(f, at))[at[4]], "where")
       IN  CutMap(where, k) = where

(* No request compares, in a filter, with a list that it is split along: a *)
(* request of one chunk does not, nor does one whose filters have none.    *)
NoFilterCut ==
  \A req \in Requests, k \in Nat \ {0} :
    HasChunk(req, k) => \A i \in DOMAIN req : WholeIn(req[i], k)

LEMMA Whole ==
  ASSUME NoFilterCut, CallersInv, KindInv, active \in Callers, field \in DOMAIN request[active]
  PROVE  WholeIn(Current, chunk[active])
<1>1. request[active] # <<>>
  OBVIOUS
<1>2. request[active] \in Requests /\ chunk[active] \in Nat \ {0}
  BY <1>1 DEF CallersInv
<1>3. HasChunk(request[active], chunk[active])
  BY DEF KindInv
<1> QED BY <1>2, <1>3 DEF NoFilterCut, Current

(* No read statement runs that the database cannot parse. *)
SoundInv ==
  active # Nobody /\ reading => \A i \in DOMAIN request[active] : ~Broken(request[active][i])

LEMMA SoundStep ==
  ASSUME CallersInv, StatementInv, SoundInv, [Next]_vars
  PROVE  SoundInv'
<1>1. CASE \E c \in Callers : (\E req \in Requests : Execute(c, req)) \/ ReadRefused(c) \/ Resume(c)
  <2> PICK c \in Callers : (\E req \in Requests : Execute(c, req)) \/ ReadRefused(c) \/ Resume(c)
    BY <1>1
  <2>1. UNCHANGED <<active, reading>> /\ (active # Nobody => c # active /\ active \in Callers)
    BY DEF Execute, ReadRefused, Resume, stmtVars, StatementInv
  <2>2. request' = request \/ \E req \in Requests : request' = [request EXCEPT ![c] = req]
    BY DEF Execute, ReadRefused, Resume
  <2>3. active # Nobody => request'[active] = request[active]
    BY <2>1, <2>2 DEF CallersInv
  <2> QED BY <2>1, <2>3 DEF SoundInv
<1>2. CASE \E c \in Callers : BeginWrite(c)
  BY <1>2 DEF BeginWrite, SoundInv
<1>3. CASE \E c \in Callers : BeginRead(c)
  BY <1>3 DEF BeginRead, Begin, callVars, SoundInv
<1>4. CASE \/ Merge \/ Connect \/ ReadMerged \/ CountConnected \/ Create \/ Update \/ Delete
           \/ NestedStep \/ Collect \/ NextBlock \/ UNCHANGED vars
  <2>1. UNCHANGED <<active, reading, request>>
    BY <1>4 DEF Merge, Connect, ReadMerged, CountConnected, Create, Update, Delete, NestedStep,
                NestedCreate, NestedConnect, NestedDisconnect, NestedUpdate, NestedDelete, AtNested,
                Open, Return, Collect, NextBlock, vars, stmtVars, callVars
  <2> QED BY <2>1 DEF SoundInv
<1>5. CASE EndWrite \/ EndRead \/ Fail \/ ReplyLost
  BY <1>5 DEF EndWrite, EndRead, Fail, ReplyLost, Release, Finished, SoundInv
<1> QED BY <1>1, <1>2, <1>3, <1>4, <1>5 DEF Next, DatabaseStep

(* What a step may do while a block is under way. *)
OnlyAddressed ==
  /\ \A n \in DOMAIN nodes \ Addressed : n \in DOMAIN nodes' /\ nodes'[n] = nodes[n]
  /\ \A e \in DOMAIN edges :
       \/ {e.from, e.to} \cap Addressed # {}
       \/ e \in DOMAIN edges' /\ edges'[e] = edges[e]

(* The nodes that an update or a delete matches are the ones its filter is *)
(* true of.                                                                *)
LEMMA MatchingMeant ==
  ASSUME NamesApart, AllWrittenOut, NoFilterCut, CallersInv, StatementInv, KindInv, SoundInv,
         NEW op \in {"update", "delete"}, InBlock(op), ~open
  PROVE  Addressed = Matching(Current.label, WhereNow)
<1>1. active \in Callers /\ field \in DOMAIN request[active] /\ IsField(Current)
  BY BlockAt
<1>2. Current.op = op /\ reading /\ active # Nobody /\ field <= Len(request[active])
  BY DEF InBlock
<1>3. ~Broken(Current) /\ WrittenOut(Current)
  <2>1. request[active] \in Requests
    <3>1. request[active] # <<>>
      BY <1>1
    <3> QED BY <1>1, <3>1 DEF CallersInv
  <2> QED BY <1>1, <1>2, <2>1 DEF SoundInv, AllWrittenOut, Current
<1>4. Current.where \in Wheres /\ Current.label \in Applies[Current.where]
  BY <1>1, <1>2 DEF IsField
<1>5. Full[Current.where]
  BY <1>2, <1>3 DEF Broken, WrittenOut
<1>6. RightFor(Current.where, Current.label)
  BY <1>4, <1>5, FilterAgrees
<1>7. Matching(Current.label, Current.where) = Means[Current.where].yes \cap Labelled(Current.label)
  BY <1>6 DEF RightFor, Agrees, Matching
<1>8. field \in Nat /\ Len(request[active]) \in Nat
  BY <1>1, RequestShape DEF CallersInv, StatementInv
<1>9. WhereNow = Current.where
  BY <1>1, <1>2, Whole DEF WholeIn, WhereNow
<1>10. ~(field > Len(request[active])) /\ Current.op \in {"update", "delete"} /\ ~open
  BY <1>2, <1>8
<1>11. Addressed = Means[Current.where].yes \cap Labelled(Current.label)
  BY <1>10 DEF Addressed
<1> QED BY <1>7, <1>9, <1>11

(* A nested change meets nodes that are related to n and that its where is *)
(* true of.                                                                *)
LEMMA TargetsMeant ==
  ASSUME NamesApart, AllWrittenOut, NoFilterCut, CallersInv, StatementInv, KindInv,
         NEW op, NEW at, NEW n, AtNested(op, at, n)
  PROVE  /\ op \in {"disconnect", "update", "delete"} => Targets(at, n) \subseteq Addressed
         /\ NestedOp(Current, at).listed => Targets(at, n) \subseteq Addressed
<1>1. /\ IsField(Current) /\ Current.op \in {"create", "update"} /\ at \in Nested(Current)
      /\ <<at, n>> \in todo /\ open /\ NestedOp(Current, at).op = op
  BY NestedAt DEF AtNested
<1>2. active \in Callers /\ field \in DOMAIN request[active]
  BY <1>1, BlockAt
<1>3. WrittenOut(Current)
  <2>1. request[active] # <<>>
    BY <1>2
  <2>2. request[active] \in Requests
    BY <1>2, <2>1 DEF CallersInv
  <2> QED BY <1>2, <2>2 DEF AllWrittenOut, Current
<1>4. op \in {"disconnect", "update", "delete"} => NestedOp(Current, at).listed
  <2>1. \/ Current.op = "create" /\ op \in {"create", "connect"}
        \/ Current.op = "update" /\ at[2] \in DOMAIN Current.nested
    BY <1>1, NestedShape
  <2> QED BY <1>1, <1>3, <2>1 DEF WrittenOut, NestedOp, NestedOps
<1>5. ASSUME NestedOp(Current, at).listed PROVE Targets(at, n) \subseteq Addressed
  <2>1. at[4] \in DOMAIN NestedOp(Current, at).items
    BY <1>1, <1>5, NestedShape DEF NestedItems
  <2>2. Targets(at, n) \subseteq NestedMeans(NestedOp(Current, at), Relationship(at), n)
    <3>1. NestedPart(at, "where") = Part(NestedItems(NestedOp(Current, at))[at[4]], "where")
      BY <1>1, <1>2, Whole DEF WholeIn, NestedPart
    <3> QED BY <1>5, <2>1, <3>1 DEF Targets, NestedMeans, NestedItems
  <2>3. Relationship(at).from = Current.label
    BY <1>1, NestedFrom
  <2> DEFINE meant(b) == NestedMeans(NestedOp(Current, b[1]), Relationship(b[1]), b[2])
             mine == {t \in todo : Relationship(t[1]).from = Current.label}
  <2>4. field \in Nat /\ Len(request[active]) \in Nat /\ field <= Len(request[active])
    BY <1>2, RequestShape DEF CallersInv, StatementInv
  <2>5. Addressed = UNION {meant(b) : b \in mine}
    BY <1>1, <2>4 DEF Addressed
  <2>6. <<at, n>> \in mine /\ meant(<<at, n>>) = NestedMeans(NestedOp(Current, at), Relationship(at), n)
    BY <1>1, <2>3
  <2> HIDE DEF meant, mine
  <2> QED BY <2>2, <2>5, <2>6
<1> QED BY <1>4, <1>5

(* An edge between n and a target has a target at one end. *)
LEMMA CopyEnds ==
  ASSUME EdgeKinds(edges), NEW rel, NEW n, NEW m, NEW e \in Copies(BuildRelPattern(rel, n, m))
  PROVE  m \in {e.from, e.to}
<1>1. e \in Edge /\ [e EXCEPT !.copy = 1] = BuildRelPattern(rel, n, m)
  BY DEF Copies, EdgeKinds
<1>2. [e EXCEPT !.copy = 1].from = e.from /\ [e EXCEPT !.copy = 1].to = e.to
  BY <1>1 DEF Edge
<1>3. m \in {BuildRelPattern(rel, n, m).from, BuildRelPattern(rel, n, m).to}
  BY DEF BuildRelPattern
<1> QED BY <1>1, <1>2, <1>3

LEMMA BetweenMeant ==
  ASSUME EdgeKinds(edges), NEW at, NEW n, NEW e \in Between(at, n)
  PROVE  {e.from, e.to} \cap Targets(at, n) # {}
<1>1. PICK m \in Targets(at, n) : e \in Copies(BuildRelPattern(Relationship(at), n, m))
  BY DEF Between
<1> QED BY <1>1, CopyEnds

LEMMA NestedMeant ==
  ASSUME NamesApart, AllWrittenOut, NoFilterCut, CallersInv, StatementInv, KindInv, FitInv, NestedStep
  PROVE  OnlyAddressed
<1> PICK at, n : \/ NestedCreate(at, n) \/ NestedConnect(at, n) \/ NestedDisconnect(at, n)
                 \/ NestedUpdate(at, n) \/ NestedDelete(at, n)
  BY DEF NestedStep
<1>1. /\ EdgeKinds(edges) /\ fresh \in Nat /\ \A m \in DOMAIN nodes : m \in 1..fresh
      /\ \A e \in DOMAIN edges : e.from \in DOMAIN nodes /\ e.to \in DOMAIN nodes
  BY DEF KindInv, Kinds, FitInv, Fits, Joins
<1>2. CASE NestedCreate(at, n)
  <2> DEFINE child == fresh + 1
             edge == BuildRelPattern(Relationship(at), n, child)
             made == [label |-> Relationship(at).to, props |-> Wanted(Props, NestedPart(at, "node"))]
             role == Given(NestedPart(at, "edge"), "role")
  <2>1. /\ nodes' = [m \in DOMAIN nodes \cup {child} |-> IF m = child THEN made ELSE nodes[m]]
        /\ edges' = [e \in DOMAIN edges \cup {edge} |-> IF e = edge THEN role ELSE edges[e]]
    BY <1>2 DEF NestedCreate
  <2>2. child \notin DOMAIN nodes
    BY <1>1
  <2>3. child \in {edge.from, edge.to}
    BY DEF BuildRelPattern
  <2> HIDE DEF child, edge, made, role
  <2>4. edge \notin DOMAIN edges
    BY <1>1, <2>2, <2>3
  <2> QED BY <2>1, <2>2, <2>4 DEF OnlyAddressed
<1>3. CASE NestedConnect(at, n)
  <2> DEFINE targets == {m \in Labelled(Relationship(at).to) : Equals(m, NestedPart(at, "where"))}
             patterns == {BuildRelPattern(Relationship(at), n, m) : m \in targets}
             map == NestedPart(at, "edge")
  <2>1. AtNested("connect", at, n) /\ nodes' = nodes /\ edges' = MergeEdges(patterns, map)
    BY <1>3 DEF NestedConnect
  <2>2. ASSUME NEW e \in DOMAIN edges
        PROVE  \/ {e.from, e.to} \cap Addressed # {}
               \/ e \in DOMAIN edges' /\ edges'[e] = edges[e]
    <3>1. CASE \E m \in targets : e \in Copies(BuildRelPattern(Relationship(at), n, m))
      <4>1. PICK m \in targets : e \in Copies(BuildRelPattern(Relationship(at), n, m))
        BY <3>1
      <4>2. m \in Targets(at, n)
        BY <4>1 DEF Targets, Related
      <4>3. m \in {e.from, e.to}
        BY <1>1, <4>1, CopyEnds
      <4>4. CASE NestedOp(Current, at).listed
        BY <2>1, <4>2, <4>3, <4>4, TargetsMeant
      <4>5. CASE ~NestedOp(Current, at).listed
        <5>1. IsField(Current) /\ Current.op \in {"create", "update"} /\ at \in Nested(Current)
          BY <2>1, NestedAt
        <5>2. at[4] \in DOMAIN NestedItems(NestedOp(Current, at))
          BY <5>1, NestedShape
        <5>3. NestedItems(NestedOp(Current, at))[at[4]] = [part \in {} |-> NoProps]
          BY <4>5, <5>2 DEF NestedItems
        <5>4. map = CutMap(NoProps, chunk[active])
          BY <5>3 DEF NestedPart, Part
        <5>5. "role" \notin DOMAIN map
          BY <5>4 DEF NoProps, CutMap
        <5>6. \A p \in patterns : Copies(p) = {} => e # p
          <6>1. \A p \in patterns : p.copy = 1 /\ [p EXCEPT !.copy = 1] = p
            BY DEF BuildRelPattern
          <6> QED BY <6>1 DEF Copies
        <5> HIDE DEF patterns, map
        <5>7. e \in DOMAIN MergeEdges(patterns, map) /\ MergeEdges(patterns, map)[e] = edges[e]
          BY <5>5, <5>6 DEF MergeEdges
        <5> QED BY <2>1, <5>7
      <4> QED BY <4>4, <4>5
    <3>2. CASE ~\E m \in targets : e \in Copies(BuildRelPattern(Relationship(at), n, m))
      <4>1. \A p \in patterns : e \notin Copies(p)
        BY <3>2
      <4>2. \A p \in patterns : Copies(p) = {} => e # p
        <5>1. \A p \in patterns : [p EXCEPT !.copy = 1] = p
          BY DEF BuildRelPattern
        <5> QED BY <5>1 DEF Copies
      <4> HIDE DEF patterns, map
      <4>3. e \in DOMAIN MergeEdges(patterns, map) /\ MergeEdges(patterns, map)[e] = edges[e]
        BY <4>1, <4>2 DEF MergeEdges
      <4> QED BY <2>1, <4>3
    <3> QED BY <3>1, <3>2
  <2> QED BY <2>1, <2>2 DEF OnlyAddressed
<1>4. CASE NestedDisconnect(at, n)
  <2>1. /\ AtNested("disconnect", at, n) /\ nodes' = nodes
        /\ edges' = [e \in DOMAIN edges \ Between(at, n) |-> edges[e]]
    BY <1>4 DEF NestedDisconnect
  <2>2. Targets(at, n) \subseteq Addressed
    BY <2>1, TargetsMeant
  <2>3. \A e \in Between(at, n) : {e.from, e.to} \cap Addressed # {}
    BY <1>1, <2>2, BetweenMeant
  <2> QED BY <2>1, <2>3 DEF OnlyAddressed
<1>5. CASE NestedUpdate(at, n)
  <2> DEFINE map == NestedPart(at, "edge")
             changed(m) == [nodes[m] EXCEPT !.props = Assign(@, NestedPart(at, "node"))]
  <2>1. /\ AtNested("update", at, n)
        /\ nodes' = [m \in DOMAIN nodes |-> IF m \in Targets(at, n) THEN changed(m) ELSE nodes[m]]
        /\ edges' = [e \in DOMAIN edges |->
             IF e \in Between(at, n) /\ "role" \in DOMAIN map THEN map["role"] ELSE edges[e]]
    BY <1>5 DEF NestedUpdate
  <2>2. Targets(at, n) \subseteq Addressed
    BY <2>1, TargetsMeant
  <2>3. \A e \in Between(at, n) : {e.from, e.to} \cap Addressed # {}
    BY <1>1, <2>2, BetweenMeant
  <2> HIDE DEF map, changed
  <2> QED BY <2>1, <2>2, <2>3 DEF OnlyAddressed
<1>6. CASE NestedDelete(at, n)
  <2>1. AtNested("delete", at, n) /\ DetachDelete(Targets(at, n))
    BY <1>6 DEF NestedDelete
  <2>2. Targets(at, n) \subseteq Addressed
    BY <2>1, TargetsMeant
  <2> QED BY <2>1, <2>2 DEF OnlyAddressed, DetachDelete
<1> QED BY <1>2, <1>3, <1>4, <1>5, <1>6

LEMMA ChangeMeant ==
  ASSUME NamesApart, AllWrittenOut, NoFilterCut, CallersInv, StatementInv, KindInv, FitInv, SoundInv, [Next]_vars,
         active # Nobody, reading, active' # Nobody, field' = field
  PROVE  OnlyAddressed
<1>1. CASE UNCHANGED <<nodes, edges>>
  BY <1>1 DEF OnlyAddressed
<1>2. CASE Create
  <2>1. edges' = edges /\ \A n \in DOMAIN nodes : n \in DOMAIN nodes' /\ nodes'[n] = nodes[n]
    BY <1>2 DEF Create
  <2> QED BY <2>1 DEF OnlyAddressed
<1>3. CASE Update
  <2>1. InBlock("update") /\ ~open /\ edges' = edges
    BY <1>3 DEF Update, Open
  <2>2. Addressed = Matching(Current.label, WhereNow)
    BY <2>1, MatchingMeant
  <2>3. \A n \in DOMAIN nodes : n \in DOMAIN nodes' /\ (n \notin Matching(Current.label, WhereNow) => nodes'[n] = nodes[n])
    BY <1>3 DEF Update
  <2> QED BY <2>1, <2>2, <2>3 DEF OnlyAddressed
<1>4. CASE Delete
  <2>1. InBlock("delete") /\ DetachDelete(Matching(Current.label, WhereNow))
    BY <1>4 DEF Delete
  <2>2. ~open
    BY <2>1 DEF InBlock, StatementInv
  <2>3. Addressed = Matching(Current.label, WhereNow)
    BY <2>1, <2>2, MatchingMeant
  <2> QED BY <2>1, <2>3 DEF OnlyAddressed, DetachDelete
<1>5. CASE NestedStep
  BY <1>5, NestedMeant
<1>6. ASSUME \/ \E c \in Callers : \/ \E req \in Requests : Execute(c, req)
                                   \/ BeginWrite(c) \/ BeginRead(c) \/ ReadRefused(c) \/ Resume(c)
             \/ ReadMerged \/ CountConnected \/ Collect \/ NextBlock \/ UNCHANGED vars
      PROVE  UNCHANGED <<nodes, edges>>
  BY <1>6 DEF Execute, BeginWrite, BeginRead, Begin, ReadRefused, Resume, ReadMerged, CountConnected, Collect,
              NextBlock, vars, graphVars
<1>7. ~(Merge \/ Connect \/ EndWrite \/ EndRead \/ Fail \/ ReplyLost)
  BY DEF Merge, Connect, Writing, EndWrite, EndRead, Fail, ReplyLost, Release, Finished
<1> QED BY <1>1, <1>2, <1>3, <1>4, <1>5, <1>6, <1>7 DEF Next, DatabaseStep

(* Where filters are written out in the request and no list in them is cut *)
(* to its slice of a chunk, an update or a delete changes and removes only *)
(* what its filters are true of, whatever the graph, the nesting and the   *)
(* callers: translateUpdateField, translateDeleteField, and the nested     *)
(* operations.  (chunkParams does cut them in a request of several chunks; *)
(* the run on such requests finds what goes then.)                         *)
THEOREM OnlyMatchingChanges == NamesApart /\ AllWrittenOut /\ NoFilterCut => (Spec => OnlyMatchingChange)
<1> SUFFICES ASSUME NamesApart, AllWrittenOut, NoFilterCut PROVE Spec => OnlyMatchingChange
  OBVIOUS
<1> DEFINE Inv == TypesInv /\ FitInv /\ SoundInv
<1>1. Init => SoundInv
  BY DEF Init, NoStatement, SoundInv
<1>2. TypesInv /\ SoundInv /\ [Next]_vars => SoundInv'
  BY SoundStep DEF TypesInv
<1>3. TypesInv /\ FitInv /\ SoundInv /\ [Next]_vars =>
        [active # Nobody /\ reading /\ active' # Nobody /\ field' = field =>
           /\ \A n \in DOMAIN nodes \ Addressed : n \in DOMAIN nodes' /\ nodes'[n] = nodes[n]
           /\ \A e \in DOMAIN edges :
                \/ {e.from, e.to} \cap Addressed # {}
                \/ e \in DOMAIN edges' /\ edges'[e] = edges[e]]_vars
  BY ChangeMeant DEF TypesInv, OnlyAddressed
<1>4. Spec => [](TypesInv /\ FitInv)
  BY FitInvariance
<1> QED BY <1>1, <1>2, <1>3, <1>4, PTL DEF Spec, OnlyMatchingChange
-----------------------------------------------------------------------------
(* One caller alone. *)

(* The writes of a chunk are done in the order of the request, the one     *)
(* under way being the first of those left; none is left of a call that is *)
(* done.                                                                   *)
OrderInv ==
  /\ twice \in [Callers -> BOOLEAN]
  /\ \A c \in Callers :
       /\ status[c] = "done" => due[c] = {}
       /\ \A y \in due[c], z \in Writes(request[c]) : y < z => z \in due[c]
  /\ active # Nobody /\ ~reading => field \in due[active] /\ \A y \in due[active] : field <= y

LEMMA TwiceStays ==
  ASSUME [Next]_vars
  PROVE  twice' = twice \/ ReplyLost \/ \E c \in Callers : Resume(c)
<1>1. CASE \/ Merge \/ Connect \/ ReadMerged \/ CountConnected \/ Create \/ Update \/ Delete
           \/ NestedStep \/ Collect \/ NextBlock \/ UNCHANGED vars
  BY <1>1, BlocksLeaveCalls DEF callVars
<1>2. CASE EndWrite \/ EndRead \/ Fail
  BY <1>2 DEF EndWrite, EndRead, Fail
<1>3. CASE \E c \in Callers : \/ \E req \in Requests : Execute(c, req)
                              \/ BeginWrite(c) \/ BeginRead(c) \/ ReadRefused(c)
  BY <1>3 DEF Execute, BeginWrite, BeginRead, Begin, ReadRefused, callVars
<1> QED BY <1>1, <1>2, <1>3 DEF Next, DatabaseStep

LEMMA OrderStep ==
  ASSUME CallersInv, StatementInv, RowsInv, OrderInv, [Next]_vars
  PROVE  OrderInv'
<1> USE DEF OrderInv
<1>0. twice' \in [Callers -> BOOLEAN]
  <2>1. CASE ReplyLost
    BY <2>1 DEF ReplyLost
  <2>2. CASE \E c \in Callers : Resume(c)
    <3> PICK c \in Callers : Resume(c)
      BY <2>2
    <3>1. PICK b \in BOOLEAN : b = (twice[c] \/ due[c] # Writes(request[c]))
      OBVIOUS
    <3>2. twice' = [twice EXCEPT ![c] = b]
      BY <3>1 DEF Resume
    <3> QED BY <3>2
  <2> QED BY <2>1, <2>2, TwiceStays
<1>1. CASE \E c \in Callers : (\E req \in Requests : Execute(c, req)) \/ Resume(c)
  <2> PICK c \in Callers, req \in Requests \cup {<<>>} :
        /\ due' = [due EXCEPT ![c] = Writes(req)] /\ request' = [request EXCEPT ![c] = req]
        /\ status' = [status EXCEPT ![c] = "running"] /\ status[c] # "running"
        /\ UNCHANGED <<active, reading, field>>
    <3>1. CASE \E c \in Callers, req \in Requests : Execute(c, req)
      BY <3>1 DEF Execute, stmtVars
    <3>2. CASE \E c \in Callers : Resume(c)
      <4> PICK c \in Callers : Resume(c)
        BY <3>2
      <4>1. request[c] \in Requests \cup {<<>>} /\ request = [request EXCEPT ![c] = request[c]]
        BY DEF CallersInv
      <4>2. due' = [due EXCEPT ![c] = Writes(request[c])] /\ request' = request /\ status[c] = "failed"
            /\ status' = [status EXCEPT ![c] = "running"] /\ UNCHANGED <<active, reading, field>>
        BY DEF Resume, stmtVars
      <4> QED BY <4>1, <4>2
    <3> QED BY <1>1, <3>1, <3>2
  <2>1. /\ request'[c] = req /\ due'[c] = Writes(req) /\ status'[c] = "running"
        /\ \A d \in Callers \ {c} : request'[d] = request[d] /\ due'[d] = due[d] /\ status'[d] = status[d]
    BY DEF CallersInv
  <2>2. active # Nobody => active # c /\ active \in Callers
    BY DEF StatementInv
  <2> QED BY <1>0, <2>1, <2>2 DEF Writes
<1>2. CASE \E c \in Callers : BeginWrite(c)
  <2> PICK c \in Callers : BeginWrite(c)
    BY <1>2
  <2>1. /\ UNCHANGED <<status, due, request>> /\ active' = c
        /\ field' \in due[c] /\ \A y \in due[c] : field' <= y
    BY DEF BeginWrite, Begin, NextWrite, callVars
  <2> QED BY <1>0, <2>1 DEF Writes
<1>3. CASE \E c \in Callers : BeginRead(c)
  BY <1>0, <1>3 DEF BeginRead, Begin, callVars, Writes
<1>4. CASE EndWrite
  <2>1. /\ active \in Callers /\ ~reading /\ active' = Nobody /\ UNCHANGED <<status, request>>
        /\ due' = [due EXCEPT ![active] = @ \ {field}] /\ status[active] = "running"
    BY <1>4 DEF EndWrite, WriteComplete, Release, Finished, StatementInv
  <2>2. PICK c \in Callers : c = active
    BY <2>1
  <2>3. c # Nobody /\ due'[c] = due[c] \ {field} /\ \A d \in Callers \ {c} : due'[d] = due[d]
    BY <2>1, <2>2, MutationsAssumption DEF CallersInv
  <2>4. /\ \A y \in due[c] : field <= y
        /\ \A y \in due[c], z \in Writes(request[c]) : y < z => z \in due[c]
        /\ due[c] \in SUBSET Nat /\ field \in Nat
    BY <2>1, <2>2, <2>3 DEF CallersInv, StatementInv
  <2>5. ASSUME NEW y \in due[c] \ {field}, NEW z \in Writes(request[c]), y < z
        PROVE  z \in due[c] \ {field}
    BY <2>4, <2>5
  <2> QED BY <1>0, <2>1, <2>2, <2>3, <2>5 DEF Writes
<1>5. CASE EndRead
  <2>1. /\ active \in Callers /\ reading /\ active' = Nobody /\ request' = request
        /\ \/ due' = [due EXCEPT ![active] = Writes(request[active])] /\ status' = status
           \/ status' = [status EXCEPT ![active] = "done"] /\ due' = due
        /\ status[active] = "running" /\ due[active] = {}
    BY <1>5, MutationsAssumption DEF EndRead, ReadComplete, Release, Finished, StatementInv, RowsInv
  <2>2. \A d \in Callers \ {active} : due'[d] = due[d] /\ status'[d] = status[d]
    BY <2>1 DEF CallersInv
  <2>3. \/ due'[active] = Writes(request[active]) /\ status'[active] = "running"
        \/ due'[active] = {}
    BY <2>1 DEF CallersInv
  <2> QED BY <1>0, <2>1, <2>2, <2>3 DEF Writes
<1>6. CASE Fail \/ ReplyLost
  <2>1. /\ active \in Callers /\ active' = Nobody /\ UNCHANGED <<request, due>>
        /\ status' = [status EXCEPT ![active] = "failed"]
    BY <1>6 DEF Fail, ReplyLost, ReadComplete, WriteComplete, Release, Finished, StatementInv
  <2>2. \A d \in Callers : status'[d] = "done" => status[d] = "done"
    BY <2>1 DEF CallersInv
  <2> QED BY <1>0, <2>1, <2>2 DEF Writes
<1>7. CASE \E c \in Callers : ReadRefused(c)
  <2> PICK c \in Callers : ReadRefused(c)
    BY <1>7
  <2>1. UNCHANGED <<request, due, active, reading, field>> /\ status' = [status EXCEPT ![c] = "failed"]
    BY DEF ReadRefused, stmtVars
  <2>2. \A d \in Callers : status'[d] = "done" => status[d] = "done"
    BY <2>1 DEF CallersInv
  <2> QED BY <1>0, <2>1, <2>2 DEF Writes
<1>8. CASE \/ Merge \/ Connect \/ ReadMerged \/ CountConnected \/ Create \/ Update \/ Delete
           \/ NestedStep \/ Collect \/ NextBlock \/ UNCHANGED vars
  <2>1. UNCHANGED <<request, due, status, active, reading>>
    BY <1>8, BlocksLeaveCalls DEF callVars
  <2>2. CASE reading
    BY <1>0, <2>1, <2>2 DEF Writes
  <2>3. CASE Merge \/ Connect \/ UNCHANGED vars
    BY <1>0, <2>1, <2>3 DEF Merge, Connect, vars, stmtVars, Writes
  <2>4. CASE ReadMerged \/ CountConnected \/ Create \/ Update \/ Delete \/ NestedStep \/ Collect \/ NextBlock
    <3>1. reading
      BY <2>4 DEF ReadMerged, CountConnected, Create, Update, Delete, InBlock, Collect, NextBlock, NestedStep,
                  NestedCreate, NestedConnect, NestedDisconnect, NestedUpdate, NestedDelete, AtNested
    <3> QED BY <2>2, <3>1
  <2> QED BY <1>8, <2>3, <2>4
<1> QED BY <1>1, <1>2, <1>3, <1>4, <1>5, <1>6, <1>7, <1>8 DEF Next, DatabaseStep

(* Item i of a list is in slice k when it is one of its items. *)
LEMMA PositionOf ==
  ASSUME NEW i \in Nat \ {0}
  PROVE  /\ Position(i) \in Nat \ {0}
         /\ \A k \in Nat \ {0} : Position(i) = k <=> (k - 1) * BatchSize < i /\ i <= k * BatchSize
<1>1. PICK b \in Nat \ {0} : b = BatchSize
  BY MutationsAssumption
<1>2. PICK q \in Nat : q = Position(i) /\ q = (i + b - 1) \div b
  BY <1>1 DEF Position, CeilDiv
<1>3. q * b <= i + b - 1 /\ i + b - 1 < q * b + b
  BY <1>2
<1>4. q # 0
  BY <1>3
<1>5. ASSUME NEW k \in Nat \ {0}
      PROVE  q = k <=> (k - 1) * b < i /\ i <= k * b
  <2>1. (q - 1) * b = q * b - b /\ (k - 1) * b = k * b - b
    OBVIOUS
  <2>2. q = k => (k - 1) * b < i /\ i <= k * b
    BY <1>3, <2>1
  <2>3. CASE q < k
    <3>1. q * b + b <= k * b
      <4>1. PICK d \in Nat : k = q + 1 + d
        BY <2>3
      <4>2. k * b = q * b + b + d * b /\ d * b \in Nat
        BY <4>1
      <4> QED BY <4>2
    <3> QED BY <1>3, <2>1, <2>3, <3>1
  <2>4. CASE k < q
    <3>1. k * b + b <= q * b
      <4>1. PICK d \in Nat : q = k + 1 + d
        BY <2>4
      <4>2. q * b = k * b + b + d * b /\ d * b \in Nat
        BY <4>1
      <4> QED BY <4>2
    <3> QED BY <1>3, <2>1, <2>4, <3>1
  <2> QED BY <2>2, <2>3, <2>4
<1> QED BY <1>1, <1>2, <1>4, <1>5

(* Of each field, the items in chunks that are through, or whose write     *)
(* statement of the chunk is; and those the write statement under way has  *)
(* gone through.                                                           *)
Through(c) ==
  [y \in DOMAIN request[c] |->
     {i \in DOMAIN Items(request[c][y]) : \/ Position(i) < chunk[c]
                                          \/ Position(i) = chunk[c] /\ y \notin due[c]}]

AtRows(c, y) ==
  {i \in DOMAIN Items(request[c][y]) :
     /\ active = c /\ ~reading /\ y = field
     /\ Position(i) = chunk[c] /\ i <= (chunk[c] - 1) * BatchSize + row}

Gone(c) == [y \in DOMAIN request[c] |-> Through(c)[y] \cup AtRows(c, y)]

OnlyWrites(req) == \A y \in DOMAIN req : req[y].op \in {"merge", "connect"}

LEMMA AloneBefore ==
  ASSUME CallersInv, StatementInv, OrderInv, [Next]_vars, NEW c \in Callers, Alone(c)'
  PROVE  /\ Alone(c)
         /\ active \in {c, Nobody}
         /\ status[c] # "idle" => request'[c] = request[c] /\ status'[c] # "idle"
         /\ status[c] = "idle" => \/ \E req \in Requests : Execute(c, req)
                                  \/ status'[c] = "idle" /\ nodes' = nodes
<1>1. ~twice'[c] /\ \A d \in Callers \ {c} : status'[d] = "idle"
  BY DEF Alone
<1>2. CASE \E d \in Callers, req \in Requests : Execute(d, req)
  <2> PICK d \in Callers, req \in Requests : Execute(d, req)
    BY <1>2
  <2>1. /\ request' = [request EXCEPT ![d] = req] /\ status' = [status EXCEPT ![d] = "running"]
        /\ twice' = twice /\ status[d] = "idle"
    BY DEF Execute
  <2>2. status'[d] = "running" /\ \A e \in Callers \ {d} : status'[e] = status[e] /\ request'[e] = request[e]
    BY <2>1 DEF CallersInv
  <2>3. d = c
    BY <1>1, <2>2
  <2>4. \A e \in Callers : status[e] = "idle"
    BY <1>1, <2>1, <2>2, <2>3
  <2> QED BY <1>1, <2>1, <2>3, <2>4 DEF Alone, StatementInv
<1>3. CASE ~\E d \in Callers, req \in Requests : Execute(d, req)
  <2>1. PICK who \in Callers, st \in {"running", "failed", "done"} :
          request' = request /\ (status' = status \/ (status[who] # "idle" /\ status' = [status EXCEPT ![who] = st]))
    <3>1. CASE \/ Merge \/ Connect \/ ReadMerged \/ CountConnected \/ Create \/ Update \/ Delete
               \/ NestedStep \/ Collect \/ NextBlock \/ UNCHANGED vars
      BY <3>1, BlocksLeaveCalls DEF callVars
    <3>2. CASE EndWrite \/ EndRead \/ Fail \/ ReplyLost
      <4>1. active \in Callers /\ status[active] = "running" /\ request' = request
        BY <3>2 DEF EndWrite, EndRead, Fail, ReplyLost, Release, ReadComplete, WriteComplete, StatementInv
      <4>2. PICK st \in {"running", "failed", "done"} :
              status' = status \/ status' = [status EXCEPT ![active] = st]
        BY <3>2 DEF EndWrite, EndRead, Fail, ReplyLost
      <4> QED BY <4>1, <4>2
    <3>3. CASE \E e \in Callers : BeginWrite(e) \/ BeginRead(e)
      BY <3>3 DEF BeginWrite, BeginRead, Begin, callVars
    <3>4. CASE \E e \in Callers : ReadRefused(e) \/ Resume(e)
      <4> PICK e \in Callers : ReadRefused(e) \/ Resume(e)
        BY <3>4
      <4>1. /\ request' = request /\ status[e] # "idle"
            /\ \/ status' = [status EXCEPT ![e] = "running"]
               \/ status' = [status EXCEPT ![e] = "failed"]
        BY DEF ReadRefused, Resume
      <4> QED BY <4>1
    <3> QED BY <1>3, <3>1, <3>2, <3>3, <3>4 DEF Next, DatabaseStep
  <2>2. \A e \in Callers : status'[e] = "idle" <=> status[e] = "idle"
    BY <2>1 DEF CallersInv
  <2>3. twice[c] => twice'[c]
    <3>1. CASE ReplyLost
      <4>1. twice' = [twice EXCEPT ![active] = TRUE]
        BY <3>1 DEF ReplyLost
      <4> QED BY <4>1 DEF OrderInv
    <3>2. CASE \E d \in Callers : Resume(d)
      <4> PICK d \in Callers : Resume(d)
        BY <3>2
      <4>1. twice' = [twice EXCEPT ![d] = @ \/ due[d] # Writes(request[d])]
        BY DEF Resume
      <4>2. CASE c = d
        BY <4>1, <4>2 DEF OrderInv
      <4>3. CASE c # d
        BY <4>1, <4>3 DEF OrderInv
      <4> QED BY <4>2, <4>3
    <3> QED BY <3>1, <3>2, TwiceStays
  <2>4. Alone(c) /\ active \in {c, Nobody}
    BY <1>1, <2>2, <2>3 DEF Alone, StatementInv
  <2>5. status[c] = "idle" => nodes' = nodes
    <3>1. ASSUME status[c] = "idle" PROVE UNCHANGED vars
      <4>1. \A d \in Callers : status[d] = "idle"
        BY <1>1, <2>2, <3>1
      <4>2. active = Nobody
        BY <4>1 DEF StatementInv
      <4>3. ~DatabaseStep
        BY <4>2 DEF DatabaseStep, Merge, Connect, Writing, ReadMerged, CountConnected, Create, Update, Delete,
                    InBlock, NestedStep, NestedCreate, NestedConnect, NestedDisconnect, NestedUpdate,
                    NestedDelete, AtNested, Collect, NextBlock, EndWrite, EndRead, Fail, ReplyLost,
                    WriteComplete, ReadComplete
      <4>4. ~\E d \in Callers : BeginWrite(d) \/ BeginRead(d) \/ ReadRefused(d) \/ Resume(d)
        BY <4>1 DEF BeginWrite, BeginRead, Begin, ReadRefused, Resume
      <4> QED BY <1>3, <4>3, <4>4 DEF Next
    <3> QED BY <3>1 DEF vars, graphVars
  <2> QED BY <2>1, <2>2, <2>4, <2>5
<1> QED BY <1>2, <1>3

(* A merge of a caller alone overlooks nothing. *)
LEMMA AloneSees ==
  ASSUME UnseenInv, NEW c \in Callers, Alone(c)
  PROVE  unseen[c] = {}
BY DEF UnseenInv, Alone

LEMMA ItemNumbers ==
  ASSUME CallersInv, NEW c \in Callers, NEW y \in DOMAIN request[c]
  PROVE  DOMAIN Items(request[c][y]) \subseteq Nat \ {0}
<1>1. PICK list, S : list = Items(request[c][y]) /\ S = Range(list)
  OBVIOUS
<1>2. list \in Seq(S)
  BY <1>1, FieldShape
<1> QED BY <1>1, <1>2

(* The rows of a slice are the items of the list at its position. *)
LEMMA RowItem ==
  ASSUME CallersInv, NEW c \in Callers, NEW y \in DOMAIN request[c]
  PROVE  LET start == (chunk[c] - 1) * BatchSize IN
         /\ \A j \in 1..Len(Slice(c, y)) :
              /\ start + j \in DOMAIN Items(request[c][y]) /\ Position(start + j) = chunk[c]
              /\ Slice(c, y)[j] = Items(request[c][y])[start + j]
         /\ \A i \in DOMAIN Items(request[c][y]) :
              Position(i) = chunk[c] => i \in Nat \ {0} /\ start < i /\ i <= start + Len(Slice(c, y))
<1>1. PICK list, S : list = Items(request[c][y]) /\ S = Range(list)
  OBVIOUS
<1>2. list \in Seq(S)
  BY <1>1, FieldShape
<1>3. PICK k \in Nat \ {0} : k = chunk[c]
  BY DEF CallersInv
<1>4. PICK b \in Nat \ {0} : b = BatchSize
  BY MutationsAssumption
<1>5. PICK start \in Nat : start = (k - 1) * b
  OBVIOUS
<1>6. start + b = k * b
  BY <1>5
<1>7. PICK slice : slice = SliceAt(list, k, b)
  OBVIOUS
<1>8. /\ Len(slice) \in Nat /\ Len(slice) <= b
      /\ \A j \in 1..Len(slice) : start + j \in 1..Len(list) /\ slice[j] = list[start + j]
      /\ \A j \in 1..b : start + j <= Len(list) => j <= Len(slice)
  <2>1. slice \in Seq(S)
    BY <1>2, <1>7, SliceElements
  <2>2. /\ Len(slice) <= b
        /\ \A j \in 1..Len(slice) :
             (k - 1) * b + j \in 1..Len(list) /\ slice[j] = list[(k - 1) * b + j]
        /\ \A j \in 1..b : (k - 1) * b + j <= Len(list) => j <= Len(slice)
    BY <1>2, <1>3, <1>4, <1>7, SliceElements
  <2> QED BY <1>5, <2>1, <2>2
<1>9. Slice(c, y) = slice
  BY <1>1, <1>3, <1>4, <1>7 DEF Slice
<1>10. DOMAIN list = 1..Len(list) /\ Len(list) \in Nat
  BY <1>2
<1>11. ASSUME NEW j \in 1..Len(slice)
       PROVE  /\ start + j \in DOMAIN list /\ Position(start + j) = k
              /\ slice[j] = list[start + j]
  <2>1. start + j \in Nat \ {0} /\ start < start + j /\ start + j <= k * b
    BY <1>6, <1>8
  <2>2. Position(start + j) = k
    BY <1>4, <1>5, <2>1, PositionOf
  <2> QED BY <1>8, <1>10, <2>2
<1>12. ASSUME NEW i \in DOMAIN list, Position(i) = k
       PROVE  i \in Nat \ {0} /\ start < i /\ i <= start + Len(slice)
  <2>1. i \in Nat \ {0} /\ i <= Len(list)
    BY <1>10
  <2>2. start < i /\ i <= start + b
    BY <1>4, <1>5, <1>6, <1>12, <2>1, PositionOf
  <2>3. i - start \in 1..b /\ start + (i - start) = i
    BY <2>1, <2>2
  <2>4. i - start <= Len(slice)
    BY <1>8, <2>1, <2>3
  <2> QED BY <1>8, <2>1, <2>2, <2>4
<1> QED BY <1>1, <1>3, <1>4, <1>5, <1>9, <1>11, <1>12

(* Before the first row, and between write statements. *)
LEMMA NoRows ==
  ASSUME CallersInv, NEW c \in Callers, row = 0 \/ active # c \/ reading
  PROVE  Gone(c) = Through(c)
<1>1. ASSUME NEW y \in DOMAIN request[c], NEW i \in AtRows(c, y)
      PROVE  FALSE
  <2>1. /\ i \in Nat \ {0} /\ row = 0
        /\ Position(i) = chunk[c] /\ i <= (chunk[c] - 1) * BatchSize + row
    BY <1>1, ItemNumbers DEF AtRows
  <2>2. PICK k \in Nat \ {0}, b \in Nat \ {0} : k = chunk[c] /\ b = BatchSize
    BY MutationsAssumption DEF CallersInv
  <2>3. PICK start \in Nat : start = (k - 1) * b
    BY <2>2
  <2>4. start < i
    BY <2>1, <2>2, <2>3, PositionOf
  <2> QED BY <2>1, <2>2, <2>3, <2>4
<1>2. \A y \in DOMAIN request[c] : AtRows(c, y) = {}
  BY <1>1
<1> QED BY <1>2 DEF Gone, Through

(* When a write statement is done, its items of the chunk are through. *)
LEMMA WriteThrough ==
  ASSUME CallersInv, StatementInv, OrderInv, EndWrite, NEW c \in Callers, c = active
  PROVE  Through(c)' = Gone(c)
<1>1. /\ active \in Callers /\ ~reading /\ row = Len(Rows) /\ UNCHANGED <<request, chunk>>
      /\ due' = [due EXCEPT ![active] = @ \ {field}]
  BY DEF EndWrite, WriteComplete, Release, StatementInv
<1>2. c = active
  OBVIOUS
<1>3. due'[c] = due[c] \ {field} /\ chunk'[c] = chunk[c] /\ request'[c] = request[c]
  BY <1>1, <1>2 DEF CallersInv
<1>4. ASSUME NEW y \in DOMAIN request[c], y = field, NEW i \in DOMAIN Items(request[c][y]), Position(i) = chunk[c]
      PROVE  i <= (chunk[c] - 1) * BatchSize + row
  <2>1. Rows = Slice(c, y)
    BY <1>2, <1>4 DEF Rows
  <2> QED BY <1>1, <1>4, <2>1, RowItem
<1>5. ASSUME NEW y \in DOMAIN request[c], NEW i \in DOMAIN Items(request[c][y])
      PROVE  (Position(i) < chunk[c] \/ (Position(i) = chunk[c] /\ y \notin due'[c]))
               <=> i \in Through(c)[y] \cup AtRows(c, y)
  BY <1>1, <1>2, <1>3, <1>4 DEF Through, AtRows
<1>6. \A y \in DOMAIN request[c] :
        {i \in DOMAIN Items(request[c][y]) : Position(i) < chunk[c] \/ (Position(i) = chunk[c] /\ y \notin due'[c])}
          = Through(c)[y] \cup AtRows(c, y)
  <2>1. \A y \in DOMAIN request[c] : Through(c)[y] \cup AtRows(c, y) \subseteq DOMAIN Items(request[c][y])
    BY DEF Through, AtRows
  <2> QED BY <1>5, <2>1
<1>7. Through(c)' = [y \in DOMAIN request[c] |->
        {i \in DOMAIN Items(request[c][y]) : Position(i) < chunk[c] \/ (Position(i) = chunk[c] /\ y \notin due'[c])}]
  BY <1>3 DEF Through
<1> QED BY <1>2, <1>6, <1>7 DEF Gone

(* When the read is done, so is the chunk. *)
LEMMA ReadThrough ==
  ASSUME CallersInv, StatementInv, RowsInv, EndRead, NEW c \in Callers, c = active, OnlyWrites(request[c])
  PROVE  Through(c)' = Through(c)
<1>1. /\ active \in Callers /\ reading /\ request' = request /\ due[active] = {}
      /\ \/ /\ chunk' = [chunk EXCEPT ![active] = @ + 1]
            /\ due' = [due EXCEPT ![active] = Writes(request[active])]
         \/ UNCHANGED <<chunk, due>>
  BY MutationsAssumption DEF EndRead, ReadComplete, Release, StatementInv, RowsInv
<1>2. c = active
  OBVIOUS
<1>3. CASE UNCHANGED <<chunk, due>>
  <2>1. chunk'[c] = chunk[c] /\ due'[c] = due[c] /\ request'[c] = request[c]
    BY <1>1, <1>3
  <2> QED BY <1>2, <2>1 DEF Through
<1>4. CASE /\ chunk' = [chunk EXCEPT ![active] = @ + 1]
           /\ due' = [due EXCEPT ![active] = Writes(request[active])]
  <2>1. chunk'[c] = chunk[c] + 1 /\ due'[c] = Writes(request[c]) /\ request'[c] = request[c]
    BY <1>1, <1>2, <1>4 DEF CallersInv
  <2>2. PICK k \in Nat \ {0} : k = chunk[c]
    BY DEF CallersInv
  <2>3. ASSUME NEW y \in DOMAIN request[c], NEW i \in DOMAIN Items(request[c][y])
        PROVE  (Position(i) < k + 1 \/ (Position(i) = k + 1 /\ y \notin Writes(request[c])))
                 <=> (Position(i) < k \/ (Position(i) = k /\ y \notin due[c]))
    <3>1. y \in Writes(request[c]) /\ i \in Nat \ {0}
      BY <1>2, ItemNumbers DEF OnlyWrites, Writes
    <3>2. Position(i) \in Nat
      BY <3>1, PositionOf
    <3> QED BY <1>1, <1>2, <3>1, <3>2
  <2>4. \A y \in DOMAIN request[c] :
          {i \in DOMAIN Items(request[c][y]) :
             Position(i) < k + 1 \/ (Position(i) = k + 1 /\ y \notin Writes(request[c]))}
          = {i \in DOMAIN Items(request[c][y]) : Position(i) < k \/ (Position(i) = k /\ y \notin due[c])}
    BY <2>3
  <2>5. Through(c)' = [y \in DOMAIN request[c] |-> {i \in DOMAIN Items(request[c][y]) :
             Position(i) < k + 1 \/ (Position(i) = k + 1 /\ y \notin Writes(request[c]))}]
    BY <2>1, <2>2 DEF Through
  <2>6. Through(c) = [y \in DOMAIN request[c] |-> {i \in DOMAIN Items(request[c][y]) :
             Position(i) < k \/ (Position(i) = k /\ y \notin due[c])}]
    BY <2>2 DEF Through
  <2> QED BY <1>2, <2>4, <2>5, <2>6
<1> QED BY <1>1, <1>3, <1>4

LEMMA NoRowsNext ==
  \A c \in Callers : CallersInv' /\ (row' = 0 \/ active' # c \/ reading') => Gone(c)' = Through(c)'
<1> DEFINE None == \A c \in Callers : CallersInv /\ (row = 0 \/ active # c \/ reading) => Gone(c) = Through(c)
<1>1. None
  BY NoRows
<1> HIDE DEF None
<1>2. None'
  BY <1>1, PTL
<1> QED BY <1>2 DEF None

LEMMA ThroughSame ==
  ASSUME NEW c \in Callers, request'[c] = request[c], chunk'[c] = chunk[c], due'[c] = due[c]
  PROVE  Through(c)' = Through(c)
BY DEF Through

(* What a step that is no row of a write does while no one else has run a  *)
(* statement: the graph stays, or goes back with what is through.          *)
LEMMA CallStep ==
  ASSUME CallersInv, StatementInv, OrderInv, RowsInv, [Next]_vars, CallersInv', ~Merge, ~Connect,
         NEW c \in Callers, Alone(c)', status[c] # "idle", OnlyWrites(request[c])
  PROVE  \/ /\ UNCHANGED <<nodes, edges>> /\ Gone(c)' = Gone(c)
            /\ active' = c => \/ before'.nodes = nodes /\ before'.edges = edges /\ Through(c)' = Gone(c)
                              \/ before' = before /\ active = c /\ Through(c)' = Through(c)
         \/ /\ active = c /\ active' # c /\ nodes' = before.nodes /\ edges' = before.edges
            /\ Gone(c)' = Through(c)
<1>1. /\ Alone(c) /\ active \in {c, Nobody} /\ request'[c] = request[c] /\ status'[c] # "idle" /\ c # Nobody
  BY AloneBefore, MutationsAssumption
<1>2. ~twice'[c] /\ \A d \in Callers \ {c} : status[d] = "idle" /\ status'[d] = "idle"
  BY <1>1 DEF Alone
<1>3. row' = 0 \/ active' # c \/ reading' => Gone(c)' = Through(c)'
  BY NoRowsNext
<1>4. row = 0 \/ active # c \/ reading => Gone(c) = Through(c)
  BY NoRows
<1>5. ~\E d \in Callers, req \in Requests : Execute(d, req)
  <2> SUFFICES ASSUME NEW d \in Callers, NEW req \in Requests, Execute(d, req) PROVE FALSE
    OBVIOUS
  <2>1. status[d] = "idle" /\ status'[d] = "running"
    BY DEF Execute, CallersInv
  <2> QED BY <1>2, <2>1
<1>6. CASE \E d \in Callers : BeginWrite(d) \/ BeginRead(d)
  <2> PICK d \in Callers : BeginWrite(d) \/ BeginRead(d)
    BY <1>6
  <2>1. /\ active = Nobody /\ active' = d /\ row' = 0 /\ UNCHANGED <<nodes, edges, due, chunk>>
        /\ before' = [nodes |-> nodes, edges |-> edges, fresh |-> fresh]
    BY DEF BeginWrite, BeginRead, Begin, graphVars, callVars
  <2>2. Through(c)' = Through(c)
    BY <1>1, <2>1, ThroughSame
  <2> QED BY <1>1, <1>3, <1>4, <2>1, <2>2
<1>7. CASE \E d \in Callers : ReadRefused(d)
  <2>1. active = Nobody /\ UNCHANGED <<nodes, edges, due, chunk, active>>
    BY <1>7 DEF ReadRefused, graphVars, stmtVars
  <2>2. Through(c)' = Through(c)
    BY <1>1, <2>1, ThroughSame
  <2> QED BY <1>1, <1>3, <1>4, <2>1, <2>2
<1>8. CASE \E d \in Callers : Resume(d)
  <2> PICK d \in Callers : Resume(d)
    BY <1>8
  <2>1. d = c
    BY <1>2 DEF Resume
  <2>2. /\ status[c] = "failed" /\ UNCHANGED <<nodes, edges, chunk, active>>
        /\ due' = [due EXCEPT ![c] = Writes(request[c])]
        /\ twice' = [twice EXCEPT ![c] = @ \/ due[c] # Writes(request[c])]
    BY <2>1 DEF Resume, graphVars, stmtVars
  <2>3. due[c] = Writes(request[c])
    BY <1>2, <2>2 DEF OrderInv
  <2>4. due'[c] = due[c] /\ active # c
    BY <1>1, <2>2, <2>3 DEF CallersInv, StatementInv
  <2>5. Through(c)' = Through(c)
    BY <1>1, <2>2, <2>4, ThroughSame
  <2> QED BY <1>1, <1>3, <1>4, <2>2, <2>4, <2>5
<1>9. CASE ReadMerged \/ CountConnected \/ Collect \/ NextBlock
  <2>1. reading /\ UNCHANGED <<nodes, edges, before>>
    BY <1>9 DEF ReadMerged, CountConnected, InBlock, Collect, NextBlock, Return, graphVars, stmtVars
  <2>2. UNCHANGED <<due, chunk, active, reading>>
    BY <1>9, BlocksLeaveCalls DEF callVars
  <2>3. Through(c)' = Through(c)
    BY <1>1, <2>2, ThroughSame
  <2> QED BY <1>1, <1>3, <1>4, <2>1, <2>2, <2>3
<1>10. CASE UNCHANGED vars
  <2>1. UNCHANGED <<nodes, edges, before, due, chunk, active, reading, field, row, request>>
    BY <1>10 DEF vars, graphVars, stmtVars, callVars
  <2>2. Gone(c)' = Gone(c) /\ Through(c)' = Through(c)
    BY <2>1 DEF Gone, Through, AtRows
  <2> QED BY <2>1, <2>2
<1>11. CASE EndWrite
  <2>1. active # Nobody /\ active' = Nobody /\ UNCHANGED <<nodes, edges>>
    BY <1>11 DEF EndWrite, WriteComplete, Release, Finished, graphVars
  <2>2. Through(c)' = Gone(c)
    BY <1>1, <1>11, <2>1, WriteThrough
  <2> QED BY <1>1, <1>3, <2>1, <2>2
<1>12. CASE EndRead
  <2>1. active # Nobody /\ reading /\ active' = Nobody /\ UNCHANGED <<nodes, edges>>
    BY <1>12 DEF EndRead, ReadComplete, Release, Finished, graphVars
  <2>2. Through(c)' = Through(c)
    BY <1>1, <1>12, <2>1, ReadThrough
  <2> QED BY <1>1, <1>3, <1>4, <2>1, <2>2
<1>13. CASE Fail
  <2>1. /\ active # Nobody /\ active' = Nobody /\ nodes' = before.nodes /\ edges' = before.edges
        /\ UNCHANGED <<due, chunk>>
    BY <1>13 DEF Fail, Finished
  <2>2. Through(c)' = Through(c)
    BY <1>1, <2>1, ThroughSame
  <2> QED BY <1>1, <1>3, <2>1, <2>2
<1>14. ~ReplyLost
  <2> SUFFICES ASSUME ReplyLost PROVE FALSE
    OBVIOUS
  <2>1. active # Nobody /\ twice' = [twice EXCEPT ![active] = TRUE]
    BY DEF ReplyLost, WriteComplete, ReadComplete
  <2> QED BY <1>1, <1>2, <2>1 DEF OrderInv
<1>15. ~(Create \/ Update \/ Delete \/ NestedStep)
  <2> SUFFICES ASSUME Create \/ Update \/ Delete \/ NestedStep PROVE FALSE
    OBVIOUS
  <2>1. /\ active # Nobody /\ field \in DOMAIN request[active]
        /\ Current.op \in {"create", "update", "delete"}
    <3>1. CASE Create \/ Update \/ Delete
      BY <3>1, BlockAt DEF Create, Update, Delete, InBlock
    <3>2. CASE NestedStep
      BY <3>2 DEF NestedStep, NestedCreate, NestedConnect, NestedDisconnect, NestedUpdate, NestedDelete,
                  AtNested, StatementInv
    <3> QED BY <3>1, <3>2
  <2> QED BY <1>1, <2>1 DEF Current, OnlyWrites
<1> QED BY <1>5, <1>6, <1>7, <1>8, <1>9, <1>10, <1>11, <1>12, <1>13, <1>14, <1>15 DEF Next, DatabaseStep

(* What a row of a merge leaves: a node of its own, or the nodes with its  *)
(* keys with the properties it sets.                                       *)
MadeNode(f, item, new) ==
  /\ new.label = f.label
  /\ \A p \in Props : new.props[p] =
       IF p \in KeysOf(f, "match") THEN Given(item.match, p) ELSE Given(item.onCreate, p)

SetNode(item, old, new) ==
  /\ new.label = old.label
  /\ \A p \in Props : new.props[p] = IF Given(item.onMatch, p) # Null THEN item.onMatch[p] ELSE old.props[p]

LEMMA MergeLeaves ==
  ASSUME CallersInv, StatementInv, ShapeInv, KindInv, Merge, unseen[active] = {},
         NEW item, item = Rows[row + 1]
  PROVE  /\ \A p \in KeysOf(Current, "match") : Given(item.match, p) # Null
         /\ Merged(Current, item) \subseteq DOMAIN nodes /\ fresh + 1 \notin DOMAIN nodes
         /\ \A n \in DOMAIN nodes \ Merged(Current, item) : n \in DOMAIN nodes' /\ nodes'[n] = nodes[n]
         /\ \/ /\ Merged(Current, item) = {} /\ DOMAIN nodes' = DOMAIN nodes \cup {fresh + 1}
               /\ MadeNode(Current, item, nodes'[fresh + 1])
            \/ /\ Merged(Current, item) # {} /\ DOMAIN nodes' = DOMAIN nodes
               /\ \A n \in Merged(Current, item) : SetNode(item, nodes[n], nodes'[n])
<1> DEFINE f == Current
           ks == KeysOf(f, "match")
           want == Wanted(ks, item.match)
           found == Merged(f, item)
           made == [p \in Props |-> IF p \in ks THEN want[p] ELSE Given(item.onCreate, p)]
           new == fresh + 1
<1>1. /\ \A p \in ks : want[p] # Null
      /\ \/ /\ found = {}
            /\ nodes' = [n \in DOMAIN nodes \cup {new} |->
                 IF n \in DOMAIN nodes THEN nodes[n] ELSE [label |-> f.label, props |-> made]]
         \/ /\ found # {}
            /\ nodes' = [n \in DOMAIN nodes |->
                 IF n \in found
                 THEN [nodes[n] EXCEPT !.props = [p \in Props |->
                         IF Given(item.onMatch, p) # Null THEN item.onMatch[p] ELSE @[p]]]
                 ELSE nodes[n]]
  BY RowFinds
<1>2. \A p \in ks : want[p] = Given(item.match, p)
  BY DEF Wanted
<1>3. found \subseteq DOMAIN nodes
  BY DEF Merged, Labelled
<1>4. new \notin DOMAIN nodes
  BY DEF KindInv, Kinds
<1>5. MadeNode(f, item, [label |-> f.label, props |-> made])
  BY <1>2 DEF MadeNode
<1> HIDE DEF f, ks, want, found, made, new
<1>6. CASE /\ found = {}
           /\ nodes' = [n \in DOMAIN nodes \cup {new} |->
                IF n \in DOMAIN nodes THEN nodes[n] ELSE [label |-> f.label, props |-> made]]
  <2>1. \A n \in DOMAIN nodes : n \in DOMAIN nodes' /\ nodes'[n] = nodes[n]
    BY <1>6
  <2>2. nodes'[new] = [label |-> f.label, props |-> made] /\ DOMAIN nodes' = DOMAIN nodes \cup {new}
    BY <1>4, <1>6
  <2>3. MadeNode(f, item, nodes'[new])
    BY <1>5, <2>2
  <2> QED BY <1>1, <1>2, <1>3, <1>4, <1>6, <2>1, <2>2, <2>3 DEF f, ks, found, new
<1>7. CASE /\ found # {}
           /\ nodes' = [n \in DOMAIN nodes |->
                IF n \in found
                THEN [nodes[n] EXCEPT !.props = [p \in Props |->
                        IF Given(item.onMatch, p) # Null THEN item.onMatch[p] ELSE @[p]]]
                ELSE nodes[n]]
  <2>1. DOMAIN nodes' = DOMAIN nodes /\ \A n \in DOMAIN nodes \ found : nodes'[n] = nodes[n]
    BY <1>7
  <2>2. ASSUME NEW n \in found
        PROVE  SetNode(item, nodes[n], nodes'[n])
    <3> DEFINE props == [p \in Props |->
                 IF Given(item.onMatch, p) # Null THEN item.onMatch[p] ELSE nodes[n].props[p]]
    <3>1. nodes'[n] = [nodes[n] EXCEPT !.props = props]
      BY <1>3, <1>7
    <3>2. "label" \in DOMAIN nodes[n] /\ "props" \in DOMAIN nodes[n]
      BY <1>3 DEF ShapeInv, Shaped
    <3>3. \A p \in Props : props[p] = IF Given(item.onMatch, p) # Null THEN item.onMatch[p] ELSE nodes[n].props[p]
      OBVIOUS
    <3> HIDE DEF props
    <3>4. nodes'[n].label = nodes[n].label /\ nodes'[n].props = props
      BY <3>1, <3>2
    <3> QED BY <3>3, <3>4 DEF SetNode
  <2> QED BY <1>1, <1>2, <1>3, <1>4, <1>7, <2>1, <2>2 DEF f, ks, found, new
<1> QED BY <1>1, <1>6, <1>7

(* The item of the request that a write statement is at. *)
LEMMA RowAt ==
  ASSUME CallersInv, StatementInv, NEW op \in {"merge", "connect"}, Writing(op)
  PROVE  LET i == (chunk[active] - 1) * BatchSize + (row + 1) IN
         /\ active \in Callers /\ field \in DOMAIN request[active] /\ IsField(Current)
         /\ i \in DOMAIN Current.items /\ Position(i) = chunk[active] /\ Current.items = Items(Current)
         /\ Rows[row + 1] = Current.items[i] /\ i \in Nat \ {0}
<1>1. active \in Callers /\ field \in DOMAIN request[active] /\ IsField(Current) /\ row + 1 \in 1..Len(Rows)
  BY WritingAt
<1>2. Current.items = Items(Current)
  BY DEF Writing, Items
<1>3. PICK i : i = (chunk[active] - 1) * BatchSize + (row + 1)
  OBVIOUS
<1>4. i \in DOMAIN Items(request[active][field]) /\ Position(i) = chunk[active]
      /\ Slice(active, field)[row + 1] = Items(request[active][field])[i]
  BY <1>1, <1>3, RowItem DEF Rows
<1>5. i \in Nat \ {0}
  BY <1>1, <1>4, ItemNumbers
<1> QED BY <1>1, <1>2, <1>3, <1>4, <1>5 DEF Current, Rows

(* A row adds its item to those that are gone through, and nothing else.   *)
LEMMA RowGone ==
  ASSUME CallersInv, StatementInv, Merge \/ Connect, NEW c \in Callers, c = active
  PROVE  LET i == (chunk[c] - 1) * BatchSize + (row + 1) IN
         /\ \A y \in DOMAIN request[c] :
              Gone(c)'[y] = IF y = field THEN Gone(c)[y] \cup {i} ELSE Gone(c)[y]
         /\ DOMAIN Gone(c)' = DOMAIN request[c]
         /\ Through(c)' = Through(c) /\ before' = before /\ active' = active
         /\ request' = request /\ chunk' = chunk /\ status' = status
<1>1. \E op \in {"merge", "connect"} : Writing(op)
  BY DEF Merge, Connect
<1>2. PICK i : i = (chunk[c] - 1) * BatchSize + (row + 1)
  OBVIOUS
<1>3. /\ field \in DOMAIN request[c] /\ i \in DOMAIN Items(request[c][field]) /\ Position(i) = chunk[c]
      /\ i \in Nat \ {0}
  BY <1>1, <1>2, RowAt DEF Current
<1>4. /\ UNCHANGED <<request, chunk, status, due, active, reading, field, before>> /\ row' = row + 1
      /\ active # Nobody /\ ~reading
  BY DEF Merge, Connect, Writing, callVars
<1>5. Through(c)' = Through(c)
  BY <1>4 DEF Through
<1>6. row \in Nat /\ (chunk[c] - 1) * BatchSize \in Nat
  <2>1. chunk[c] - 1 \in Nat /\ BatchSize \in Nat
    BY MutationsAssumption DEF CallersInv
  <2>2. \A a, b \in Nat : a * b \in Nat
    OBVIOUS
  <2> QED BY <1>4, <2>1, <2>2 DEF StatementInv
<1>7. PICK start \in Nat : start = (chunk[c] - 1) * BatchSize
  BY <1>6
<1>8. ASSUME NEW y \in DOMAIN request[c]
      PROVE  AtRows(c, y)' = IF y = field THEN AtRows(c, y) \cup {i} ELSE AtRows(c, y)
  <2>1. DOMAIN Items(request[c][y]) \subseteq Nat
    BY ItemNumbers
  <2>2. AtRows(c, y)' = {j \in DOMAIN Items(request[c][y]) :
                           y = field /\ Position(j) = chunk[c] /\ j <= start + (row + 1)}
    BY <1>4, <1>7 DEF AtRows
  <2>3. AtRows(c, y) = {j \in DOMAIN Items(request[c][y]) :
                           y = field /\ Position(j) = chunk[c] /\ j <= start + row}
    BY <1>4, <1>7 DEF AtRows
  <2>4. i = start + (row + 1)
    BY <1>2, <1>7
  <2>5. \A j \in DOMAIN Items(request[c][y]) : j <= start + (row + 1) <=> j <= start + row \/ j = i
    BY <1>6, <2>1, <2>4
  <2>6. y = field => i \in DOMAIN Items(request[c][y]) /\ Position(i) = chunk[c] /\ i <= start + (row + 1)
    BY <1>3, <1>6, <2>4
  <2> HIDE DEF AtRows
  <2> QED BY <2>2, <2>3, <2>5, <2>6
<1>9. Gone(c)' = [y \in DOMAIN request[c] |-> Through(c)[y] \cup AtRows(c, y)']
  BY <1>4, <1>5 DEF Gone
<1> QED BY <1>2, <1>4, <1>5, <1>8, <1>9 DEF Gone

(* Connects after merges. *)

Has(ns, n, map) == \A p \in DOMAIN map : p \in Props /\ map[p] # Null /\ ns[n].props[p] = map[p]

(* There is a node with the keys of the item. *)
Seen(ns, f, item) == \E n \in DOMAIN ns : ns[n].label = f.label /\ Has(ns, n, item.match)

Within(req, old, ns, i, n) ==
  \/ n \in DOMAIN old
  \/ \E g \in DOMAIN req : \E j \in DOMAIN req[g].items :
       /\ req[g].op = "merge" /\ req[g].label = ns[n].label
       /\ Position(j) <= Position(i)
       /\ Has(ns, n, req[g].items[j].match)

(* One of the nodes that item i of the connect is to join, at one end. *)
AtEnd(req, x, i, old, ns, end, n) ==
  /\ n \in DOMAIN ns /\ ns[n].label = Connected(req[x])[end]
  /\ Within(req, old, ns, i, n)
  /\ Has(ns, n, Wanted(KeysOf(req[x], end), req[x].items[i][end]))

Joined(es, pattern) == \E e \in DOMAIN es : [e EXCEPT !.copy = 1] = pattern

(* In this graph the merges gone through have their nodes, and the items   *)
(* of the connect gone through join theirs.                                *)
Kept(req, x, old, ns, es, gone) ==
  /\ DOMAIN old \subseteq DOMAIN ns
  /\ \A y \in DOMAIN req : \A i \in gone[y] :
       req[y].op = "merge" /\ req[y].label \in {Connected(req[x]).from, Connected(req[x]).to}
         => Seen(ns, req[y], req[y].items[i])
  /\ \A i \in gone[x] : \A m, n :
       AtEnd(req, x, i, old, ns, "from", m) /\ AtEnd(req, x, i, old, ns, "to", n)
         => Joined(es, BuildRelPattern(Connected(req[x]), m, n))

(* A row of a merge leaves what it does not set. *)
LEMMA HasStays ==
  ASSUME CallersInv, StatementInv, ShapeInv, KindInv, Merge, unseen[active] = {},
         NEW item, item = Rows[row + 1],
         NEW n \in DOMAIN nodes, NEW map,
         nodes[n].label = Current.label => DOMAIN item.onMatch \cap DOMAIN map = {}
  PROVE  n \in DOMAIN nodes' /\ nodes'[n].label = nodes[n].label /\ (Has(nodes', n, map) <=> Has(nodes, n, map))
<1>1. CASE n \notin Merged(Current, item)
  <2>1. n \in DOMAIN nodes' /\ nodes'[n] = nodes[n]
    BY <1>1, MergeLeaves
  <2> QED BY <2>1 DEF Has
<1>2. CASE n \in Merged(Current, item)
  <2>1. n \in DOMAIN nodes' /\ SetNode(item, nodes[n], nodes'[n])
    BY <1>2, MergeLeaves
  <2>2. nodes[n].label = Current.label
    BY <1>2 DEF Merged, Labelled
  <2>3. \A p \in DOMAIN map \cap Props : nodes'[n].props[p] = nodes[n].props[p]
    BY <2>1, <2>2 DEF SetNode, Given
  <2> QED BY <2>1, <2>3 DEF Has, SetNode
<1> QED BY <1>1, <1>2

(* What the merges of a request that comes before a connect have in common.*)
LEMMA FollowsShape ==
  ASSUME CallersInv, NEW c \in Callers, NEW x \in DOMAIN request[c], Follows(request[c], x),
         NEW y \in DOMAIN request[c], request[c][y].op = "merge", NEW i \in DOMAIN request[c][y].items
  PROVE  /\ y < x
         /\ DOMAIN request[c][y].items[i].match = KeysOf(request[c][y], "match")
         /\ KeysOf(request[c][y], "match") \subseteq Props
         /\ DOMAIN request[c][y].items[i].onMatch \cap KeysOf(request[c][y], "match") = {}
<1>1. IsField(request[c][y])
  BY FieldShape
<1>2. y < x /\ Plain(request[c][y])
  BY DEF Follows
<1> QED BY <1>1, <1>2 DEF Plain, IsField

(* A node that an item of the connect in an earlier chunk would join after *)
(* a row of a merge, it would have joined before it.                       *)
LEMMA EndStays ==
  ASSUME CallersInv, StatementInv, ShapeInv, KindInv, Merge, unseen[active] = {}, NEW c \in Callers, c = active,
         NEW x \in DOMAIN request[c], Follows(request[c], x),
         Kept(request[c], x, origin.nodes, nodes, edges, Gone(c)),
         NEW i \in Nat \ {0}, Position(i) < chunk[c], NEW end \in {"from", "to"}, NEW n,
         AtEnd(request[c], x, i, origin.nodes, nodes', end, n)
  PROVE  AtEnd(request[c], x, i, origin.nodes, nodes, end, n)
<1> DEFINE req == request[c]
           l == Connected(req[x])[end]
           keys == KeysOf(req[x], end)
           wanted == Wanted(keys, req[x].items[i][end])
<1>1. PICK item : item = Rows[row + 1]
  OBVIOUS
<1>2. PICK at \in DOMAIN Current.items : item = Current.items[at]
  BY <1>1, RowAt DEF Merge
<1>3. field \in DOMAIN req /\ Current = req[field] /\ Current.op = "merge"
  BY RowAt DEF Merge, Writing, Current
<1>4. /\ DOMAIN item.match = KeysOf(Current, "match")
      /\ KeysOf(Current, "match") \subseteq Props
      /\ DOMAIN item.onMatch \cap KeysOf(Current, "match") = {}
  BY <1>2, <1>3, FollowsShape
<1>5. Settled(req, l, keys)
  BY DEF Follows
<1>6. Current.label = l =>
        /\ DOMAIN item.onMatch \cap keys = {}
        /\ \A g \in DOMAIN req : req[g].op = "merge" /\ req[g].label = l =>
             \A j \in DOMAIN req[g].items : DOMAIN req[g].items[j].match = DOMAIN item.match
  BY <1>2, <1>3, <1>5 DEF Settled
<1>7. /\ n \in DOMAIN nodes' /\ nodes'[n].label = l /\ Within(req, origin.nodes, nodes', i, n) /\ Has(nodes', n, wanted)
  BY DEF AtEnd
<1>8. DOMAIN wanted = keys
  BY DEF Wanted
<1> HIDE DEF wanted, keys, l
<1>9. n \in DOMAIN nodes
  <2> SUFFICES ASSUME n \notin DOMAIN nodes PROVE FALSE
    OBVIOUS
  <2>1. /\ Merged(Current, item) = {} /\ n = fresh + 1
        /\ MadeNode(Current, item, nodes'[n])
    BY <1>1, <1>7, MergeLeaves
  <2>2. n \notin DOMAIN origin.nodes
    BY DEF Kept
  <2>3. PICK g \in DOMAIN req : \E j \in DOMAIN req[g].items :
          /\ req[g].op = "merge" /\ req[g].label = l /\ Position(j) <= Position(i)
          /\ Has(nodes', n, req[g].items[j].match)
    BY <1>7, <2>2 DEF Within
  <2>11. PICK j \in DOMAIN req[g].items :
           /\ req[g].op = "merge" /\ req[g].label = l /\ Position(j) <= Position(i)
           /\ Has(nodes', n, req[g].items[j].match)
    BY <2>3
  <2>4. Current.label = l
    BY <1>7, <2>1 DEF MadeNode
  <2>5. j \in Gone(c)[g]
    <3>1. Items(req[g]) = req[g].items
      BY <2>11 DEF Items
    <3>2. Position(j) \in Nat /\ Position(i) \in Nat /\ chunk[c] \in Nat
      BY <3>1, ItemNumbers, PositionOf DEF CallersInv
    <3>3. j \in Through(c)[g]
      BY <2>11, <3>1, <3>2 DEF Through
    <3> QED BY <3>3 DEF Gone
  <2>6. PICK m \in DOMAIN nodes : nodes[m].label = l /\ Has(nodes, m, req[g].items[j].match)
    <3>1. l \in {Connected(req[x]).from, Connected(req[x]).to}
      BY DEF l
    <3> QED BY <2>11, <2>5, <3>1 DEF Kept, Seen
  <2>7. DOMAIN req[g].items[j].match = DOMAIN item.match
    BY <1>6, <2>11, <2>4
  <2>8. \A p \in DOMAIN item.match : nodes'[n].props[p] = item.match[p]
    BY <1>4, <2>1 DEF MadeNode, Given
  <2>9. \A p \in DOMAIN item.match : p \in Props /\ item.match[p] # Null /\ nodes[m].props[p] = item.match[p]
    BY <2>11, <2>6, <2>7, <2>8 DEF Has
  <2>10. m \in Merged(Current, item)
    BY <1>4, <2>4, <2>6, <2>9 DEF Merged, Labelled, Equals, Wanted, Given
  <2> QED BY <2>1, <2>10
<1>10. nodes'[n].label = nodes[n].label
  BY <1>1, <1>9, MergeLeaves DEF SetNode
<1>11. Has(nodes, n, wanted)
  BY <1>1, <1>6, <1>7, <1>8, <1>9, <1>10, HasStays
<1>12. Within(req, origin.nodes, nodes, i, n)
  <2>1. CASE n \in DOMAIN origin.nodes
    BY <2>1 DEF Within
  <2>2. CASE n \notin DOMAIN origin.nodes
    <3>4. PICK g \in DOMAIN req : \E j \in DOMAIN req[g].items :
            /\ req[g].op = "merge" /\ req[g].label = l /\ Position(j) <= Position(i)
            /\ Has(nodes', n, req[g].items[j].match)
      BY <1>7, <2>2 DEF Within
    <3>1. PICK j \in DOMAIN req[g].items :
            /\ req[g].op = "merge" /\ req[g].label = l /\ Position(j) <= Position(i)
            /\ Has(nodes', n, req[g].items[j].match)
      BY <3>4
    <3>2. Current.label = l => DOMAIN item.onMatch \cap DOMAIN req[g].items[j].match = {}
      BY <1>4, <1>6, <3>1
    <3>3. Has(nodes, n, req[g].items[j].match)
      BY <1>1, <1>7, <1>9, <1>10, <3>1, <3>2, HasStays
    <3> QED BY <1>7, <1>10, <3>1, <3>3 DEF Within
  <2> QED BY <2>1, <2>2
<1> QED BY <1>7, <1>9, <1>10, <1>11, <1>12 DEF AtEnd, wanted, keys, l

(* A row of a merge keeps what is kept, its item gone through. *)
LEMMA MergeKeeps ==
  ASSUME CallersInv, StatementInv, ShapeInv, KindInv, OrderInv, Merge, unseen[active] = {},
         NEW c \in Callers, c = active,
         NEW x \in DOMAIN request[c], Follows(request[c], x),
         Kept(request[c], x, origin.nodes, nodes, edges, Gone(c))
  PROVE  Kept(request[c], x, origin.nodes, nodes', edges', Gone(c)')
<1> DEFINE req == request[c]
           ends == {Connected(req[x]).from, Connected(req[x]).to}
<1>1. PICK item : item = Rows[row + 1]
  OBVIOUS
<1>2. PICK at : at = (chunk[c] - 1) * BatchSize + (row + 1)
  OBVIOUS
<1>3. /\ at \in DOMAIN Current.items /\ item = Current.items[at]
      /\ field \in DOMAIN req /\ Current = req[field] /\ Current.op = "merge"
  BY <1>1, <1>2, RowAt DEF Merge, Writing, Current
<1>4. /\ DOMAIN item.match = KeysOf(Current, "match")
      /\ KeysOf(Current, "match") \subseteq Props
      /\ DOMAIN item.onMatch \cap KeysOf(Current, "match") = {}
      /\ field < x
  BY <1>3, FollowsShape
<1>5. \A y \in DOMAIN req : Gone(c)'[y] = IF y = field THEN Gone(c)[y] \cup {at} ELSE Gone(c)[y]
  BY <1>2, RowGone
<1>6. DOMAIN nodes \subseteq DOMAIN nodes' /\ edges' = edges
  BY <1>1, MergeLeaves DEF Merge
<1>7. ASSUME NEW y \in DOMAIN req, NEW i \in Gone(c)'[y], req[y].op = "merge", req[y].label \in ends
      PROVE  Seen(nodes', req[y], req[y].items[i])
  <2>1. CASE i \in Gone(c)[y]
    <3>1. PICK n \in DOMAIN nodes : nodes[n].label = req[y].label /\ Has(nodes, n, req[y].items[i].match)
      BY <1>7, <2>1 DEF Kept, Seen
    <3>2. i \in DOMAIN req[y].items
      BY <1>7, <2>1 DEF Gone, Through, AtRows, Items
    <3>3. nodes[n].label = Current.label => DOMAIN req[y].items[i].match = DOMAIN item.match
      <4>1. ASSUME req[y].label = Current.label
            PROVE  DOMAIN req[y].items[i].match = DOMAIN item.match
        BY <1>3, <1>7, <3>2, <4>1 DEF Follows, Settled
      <4> QED BY <3>1, <4>1
    <3>4. n \in DOMAIN nodes' /\ nodes'[n].label = nodes[n].label /\ Has(nodes', n, req[y].items[i].match)
      BY <1>1, <1>4, <3>1, <3>3, HasStays
    <3> QED BY <3>1, <3>4 DEF Seen
  <2>2. CASE y = field /\ i = at
    <3>1. req[y] = Current /\ req[y].items[i] = item
      BY <1>3, <2>2
    <3>2. CASE Merged(Current, item) = {}
      <4>1. fresh + 1 \in DOMAIN nodes' /\ MadeNode(Current, item, nodes'[fresh + 1])
            /\ \A p \in KeysOf(Current, "match") : Given(item.match, p) # Null
        BY <1>1, <3>2, MergeLeaves
      <4>2. Has(nodes', fresh + 1, item.match)
        BY <1>4, <4>1 DEF Has, MadeNode, Given
      <4> QED BY <3>1, <4>1, <4>2 DEF Seen, MadeNode
    <3>3. CASE Merged(Current, item) # {}
      <4>1. PICK n \in Merged(Current, item) : TRUE
        BY <3>3
      <4>2. n \in DOMAIN nodes /\ nodes[n].label = Current.label /\ Has(nodes, n, item.match)
        BY <1>4 DEF Merged, Labelled, Equals, Wanted, Given, Has
      <4>3. n \in DOMAIN nodes' /\ nodes'[n].label = nodes[n].label /\ Has(nodes', n, item.match)
        BY <1>1, <1>4, <4>2, HasStays
      <4> QED BY <3>1, <4>2, <4>3 DEF Seen
    <3> QED BY <3>2, <3>3
  <2> QED BY <1>5, <1>7, <2>1, <2>2
<1>8. ASSUME NEW i \in Gone(c)'[x], NEW m, NEW n,
             AtEnd(req, x, i, origin.nodes, nodes', "from", m), AtEnd(req, x, i, origin.nodes, nodes', "to", n)
      PROVE  Joined(edges', BuildRelPattern(Connected(req[x]), m, n))
  <2>1. i \in Gone(c)[x] /\ x # field
    BY <1>3, <1>5 DEF Follows
  <2>2. i \in Nat \ {0} /\ Position(i) < chunk[c]
    <3>1. i \in DOMAIN Items(req[x]) /\ (Position(i) < chunk[c] \/ x \notin due[c])
      BY <2>1 DEF Gone, Through, AtRows
    <3>2. x \in due[c]
      <4>1. field \in due[c] /\ x \in Writes(req)
        BY MutationsAssumption DEF OrderInv, Merge, Writing, Follows, Writes
      <4> QED BY <1>4, <4>1 DEF OrderInv
    <3> QED BY <3>1, <3>2, ItemNumbers
  <2>3. AtEnd(req, x, i, origin.nodes, nodes, "from", m) /\ AtEnd(req, x, i, origin.nodes, nodes, "to", n)
    BY <1>8, <2>2, EndStays
  <2> QED BY <1>6, <2>1, <2>3 DEF Kept
<1>9. DOMAIN origin.nodes \subseteq DOMAIN nodes'
  BY <1>6 DEF Kept
<1> HIDE DEF req
<1> QED BY <1>7, <1>8, <1>9 DEF Kept, ends, req

(* A row of a connect joins the nodes of its item, and leaves the edges    *)
(* that are there.                                                         *)
LEMMA ConnectKeeps ==
  ASSUME CallersInv, StatementInv, Connect, NEW c \in Callers, c = active,
         NEW x \in DOMAIN request[c], Follows(request[c], x),
         Kept(request[c], x, origin.nodes, nodes, edges, Gone(c))
  PROVE  Kept(request[c], x, origin.nodes, nodes', edges', Gone(c)')
<1> DEFINE req == request[c]
<1>1. PICK item : item = Rows[row + 1]
  OBVIOUS
<1>2. PICK at : at = (chunk[c] - 1) * BatchSize + (row + 1)
  OBVIOUS
<1>3. /\ at \in DOMAIN Current.items /\ item = Current.items[at]
      /\ field \in DOMAIN req /\ Current = req[field] /\ Current.op = "connect"
  BY <1>1, <1>2, RowAt DEF Connect, Writing, Current
<1>4. \A y \in DOMAIN req : Gone(c)'[y] = IF y = field THEN Gone(c)[y] \cup {at} ELSE Gone(c)[y]
  BY <1>2, RowGone
<1>5. nodes' = nodes
  BY DEF Connect
<1>6. PICK j \in DOMAIN Relationships :
        /\ Relationships[j].from = Current.label /\ Relationships[j].field = Current.field
        /\ edges' = MergeEdges(RowPatterns(Current, Relationships[j], item), RowEdge(Relationships[j], item))
  BY <1>1 DEF Connect, Leading
<1>7. Connected(Current) = Relationships[j]
  BY <1>6, GraphAssumption DEF Connected
<1>8. PICK rel : rel = Connected(Current)
  OBVIOUS
<1>9. PICK patterns : patterns = RowPatterns(Current, rel, item)
  OBVIOUS
<1>10. DOMAIN edges' = DOMAIN edges \cup {p \in patterns : Copies(p) = {}}
  BY <1>6, <1>7, <1>8, <1>9 DEF MergeEdges
<1>11. \A pattern : Joined(edges, pattern) => Joined(edges', pattern)
  BY <1>10 DEF Joined
<1>12. ASSUME NEW i \in Gone(c)'[x], NEW m, NEW n,
              AtEnd(req, x, i, origin.nodes, nodes, "from", m), AtEnd(req, x, i, origin.nodes, nodes, "to", n)
       PROVE  Joined(edges', BuildRelPattern(Connected(req[x]), m, n))
  <2>1. CASE i \in Gone(c)[x]
    BY <1>11, <1>12, <2>1 DEF Kept
  <2>2. CASE x = field /\ i = at
    <3>1. req[x] = Current /\ req[x].items[i] = item
      BY <1>3, <2>2
    <3>2. m \in Ends(Current, item, rel.from, "from")
      BY <1>8, <1>12, <3>1 DEF AtEnd, Has, Ends, Labelled, Equals
    <3>3. n \in Ends(Current, item, rel.to, "to")
      BY <1>8, <1>12, <3>1 DEF AtEnd, Has, Ends, Labelled, Equals
    <3>4. PICK pattern : pattern = BuildRelPattern(rel, m, n)
      OBVIOUS
    <3>5. pattern \in patterns /\ [pattern EXCEPT !.copy = 1] = pattern
      <4>1. pattern \in patterns
        BY <1>9, <3>2, <3>3, <3>4 DEF RowPatterns
      <4>2. [pattern EXCEPT !.copy = 1] = pattern
        BY <3>4 DEF BuildRelPattern
      <4> QED BY <4>1, <4>2
    <3>6. CASE Copies(pattern) = {}
      BY <1>8, <1>10, <3>1, <3>4, <3>5, <3>6 DEF Joined
    <3>7. CASE Copies(pattern) # {}
      BY <1>8, <1>11, <3>1, <3>4, <3>7 DEF Joined, Copies
    <3> QED BY <3>6, <3>7
  <2> QED BY <1>4, <1>12, <2>1, <2>2
<1>13. ASSUME NEW y \in DOMAIN req, NEW i \in Gone(c)'[y], req[y].op = "merge",
              req[y].label \in {Connected(req[x]).from, Connected(req[x]).to}
       PROVE  Seen(nodes, req[y], req[y].items[i])
  BY <1>3, <1>4, <1>13 DEF Kept
<1> HIDE DEF req
<1> QED BY <1>5, <1>12, <1>13 DEF Kept, req

(* While one caller alone has run statements, its connects have joined     *)
(* what its merges made; in the graph a failed statement goes back to too. *)
FollowInv ==
  \A c \in Callers : Alone(c) =>
    IF status[c] = "idle" THEN nodes = origin.nodes
    ELSE \A x \in DOMAIN request[c] : Follows(request[c], x) =>
           /\ Kept(request[c], x, origin.nodes, nodes, edges, Gone(c))
           /\ active = c => Kept(request[c], x, origin.nodes, before.nodes, before.edges, Through(c))

(* Nothing is through when a call begins. *)
LEMMA NoneThrough ==
  ASSUME CallersInv, CallersInv', StatementInv, AnswersInv, NEW c \in Callers, NEW req \in Requests,
         Execute(c, req), OnlyWrites(req)
  PROVE  \A y \in DOMAIN req : Gone(c)'[y] = {}
<1>1. /\ status[c] = "idle" /\ request' = [request EXCEPT ![c] = req] /\ due' = [due EXCEPT ![c] = Writes(req)]
      /\ UNCHANGED <<chunk, active>>
  BY DEF Execute, stmtVars
<1>2. request'[c] = req /\ due'[c] = Writes(req) /\ chunk'[c] = 1
  BY <1>1 DEF CallersInv, AnswersInv
<1>3. active' # c
  BY <1>1, MutationsAssumption DEF StatementInv
<1>4. Gone(c)' = Through(c)'
  BY <1>3, NoRowsNext
<1>5. Through(c)' = [y \in DOMAIN req |->
        {i \in DOMAIN Items(req[y]) : Position(i) < 1 \/ (Position(i) = 1 /\ y \notin Writes(req))}]
  BY <1>2 DEF Through
<1>6. ASSUME NEW y \in DOMAIN req, NEW i \in DOMAIN Items(req[y])
      PROVE  ~(Position(i) < 1) /\ y \in Writes(req)
  <2>1. IsField(req[y])
    BY MutationsAssumption
  <2>2. PICK list, S : list = Items(req[y]) /\ S = Range(list)
    OBVIOUS
  <2>3. list \in Seq(S)
    BY <2>1, <2>2, ListOfField
  <2>4. i \in Nat \ {0}
    BY <2>2, <2>3
  <2> QED BY <2>4, PositionOf DEF OnlyWrites, Writes
<1> QED BY <1>4, <1>5, <1>6

LEMMA FollowStep ==
  ASSUME CallersInv, StatementInv, UnseenInv, ShapeInv, KindInv, OrderInv, RowsInv, AnswersInv, FollowInv,
         CallersInv', [Next]_vars
  PROVE  FollowInv'
<1>1. origin' = origin
  BY OriginStays
<1> SUFFICES ASSUME NEW c \in Callers, Alone(c)'
             PROVE  IF status'[c] = "idle" THEN nodes' = origin'.nodes
                    ELSE \A x \in DOMAIN request'[c] : Follows(request'[c], x) =>
                           /\ Kept(request[c], x, origin.nodes, nodes, edges, Gone(c))'
                           /\ active' = c => Kept(request[c], x, origin.nodes, before.nodes, before.edges, Through(c))'
  BY DEF FollowInv
<1>2. Alone(c) /\ active \in {c, Nobody} /\ c # Nobody
  BY AloneBefore, MutationsAssumption
<1>3. CASE status[c] # "idle"
  <2>1. request'[c] = request[c] /\ status'[c] # "idle"
    BY <1>3, AloneBefore
  <2>2. ASSUME NEW x \in DOMAIN request[c], Follows(request[c], x)
        PROVE  /\ Kept(request[c], x, origin.nodes, nodes', edges', Gone(c)')
               /\ active' = c => Kept(request[c], x, origin.nodes, before'.nodes, before'.edges, Through(c)')
    <3>1. /\ Kept(request[c], x, origin.nodes, nodes, edges, Gone(c))
          /\ active = c => Kept(request[c], x, origin.nodes, before.nodes, before.edges, Through(c))
      BY <1>2, <1>3, <2>2 DEF FollowInv
    <3>2. CASE Merge
      <4>1. c = active /\ unseen[active] = {}
        BY <1>2, <3>2, AloneSees DEF Merge, Writing
      <4> QED BY <2>2, <3>1, <3>2, <4>1, MergeKeeps, RowGone
    <3>3. CASE Connect
      <4>1. c = active
        BY <1>2, <3>3 DEF Connect, Writing
      <4> QED BY <2>2, <3>1, <3>3, <4>1, ConnectKeeps, RowGone
    <3>4. CASE ~Merge /\ ~Connect
      <4>1. OnlyWrites(request[c])
        BY <2>2 DEF Follows, OnlyWrites
      <4> QED BY <1>3, <3>1, <3>4, <4>1, CallStep
    <3> QED BY <3>2, <3>3, <3>4
  <2> QED BY <1>1, <2>1, <2>2
<1>4. CASE status[c] = "idle"
  <2>1. nodes = origin.nodes
    BY <1>2, <1>4 DEF FollowInv
  <2>2. CASE status'[c] = "idle" /\ nodes' = nodes
    BY <1>1, <2>1, <2>2
  <2>3. CASE \E req \in Requests : Execute(c, req)
    <3> PICK req \in Requests : Execute(c, req)
      BY <2>3
    <3>1. /\ nodes' = nodes /\ edges' = edges /\ active' = active /\ active # c
          /\ request'[c] = req /\ status'[c] = "running"
      BY <1>4, MutationsAssumption DEF Execute, graphVars, stmtVars, CallersInv, StatementInv
    <3>2. ASSUME NEW x \in DOMAIN req, Follows(req, x)
          PROVE  Kept(request[c], x, origin.nodes, nodes, edges, Gone(c))'
      <4>1. OnlyWrites(req)
        BY <3>2 DEF Follows, OnlyWrites
      <4>2. \A y \in DOMAIN req : Gone(c)'[y] = {}
        BY <4>1, NoneThrough
      <4> QED BY <1>1, <2>1, <3>1, <3>2, <4>2 DEF Kept
    <3> QED BY <3>1, <3>2
  <2> QED BY <1>4, <2>2, <2>3, AloneBefore
<1> QED BY <1>3, <1>4

(* A call that is done has gone through all its items. *)
LEMMA AllThrough ==
  ASSUME CallersInv, StatementInv, KindInv, OrderInv, AnswersInv,
         NEW c \in Callers, status[c] = "done", NEW y \in DOMAIN request[c], NEW i \in DOMAIN Items(request[c][y])
  PROVE  i \in Gone(c)[y]
<1>1. PICK list, S : list = Items(request[c][y]) /\ S = Range(list)
  OBVIOUS
<1>2. list \in Seq(S)
  BY <1>1, FieldShape
<1>3. PICK b \in Nat \ {0} : b = BatchSize
  BY MutationsAssumption
<1>4. PICK most \in Nat : most = chunk[c] /\ Len(list) <= most * b
  <2>1. ~HasChunk(request[c], chunk[c] + 1) /\ chunk[c] \in Nat /\ request[c] \in Requests \cup {<<>>}
    BY DEF AnswersInv, CallersInv
  <2> QED BY <1>1, <1>3, <2>1, ItemsEnd
<1>5. i \in Nat \ {0} /\ i <= Len(list) /\ Len(list) \in Nat
  BY <1>1, <1>2
<1>6. Position(i) <= most
  <2>1. PICK p \in Nat : p = Position(i) /\ p # 0 /\ (p - 1) * b < i
    BY <1>3, <1>5, PositionOf
  <2> SUFFICES ASSUME most < p PROVE FALSE
    BY <2>1
  <2>2. PICK d \in Nat : p - 1 = most + d
    <3>1. (p - 1) - most \in Nat /\ p - 1 = most + ((p - 1) - most)
      BY <2>1
    <3> QED BY <3>1
  <2>3. PICK u \in Nat, v \in Nat : u = most * b /\ v = d * b /\ (most + d) * b = u + v
    <3>1. most * b \in Nat /\ d * b \in Nat /\ (most + d) * b = most * b + d * b
      BY <1>3
    <3> QED BY <3>1
  <2>4. u + v < i
    BY <2>1, <2>2, <2>3
  <2>5. i <= u
    BY <1>4, <1>5, <2>3
  <2> QED BY <1>5, <2>3, <2>4, <2>5
<1>7. due[c] = {}
  BY DEF OrderInv
<1>8. Position(i) \in Nat
  BY <1>5, PositionOf
<1>9. Position(i) < chunk[c] \/ Position(i) = chunk[c]
  BY <1>4, <1>6, <1>8
<1> QED BY <1>7, <1>9 DEF Gone, Through

(* At the end every item of a connect that follows the merges has gone out. *)
LEMMA ConnectThrough ==
  ASSUME CallersInv, StatementInv, KindInv, OrderInv, AnswersInv,
         NEW c \in Callers, status[c] = "done", NEW x \in DOMAIN request[c], Follows(request[c], x),
         NEW i \in DOMAIN request[c][x].items
  PROVE  i \in Gone(c)[x]
<1>1. request[c][x].op = "connect"
  BY Zenon DEF Follows
<1>2. i \in DOMAIN Items(request[c][x])
  BY <1>1, Zenon DEF Items
<1> QED BY <1>2, AllThrough, Zenon

(* A connect after the merges of its mutation joins the nodes they made or *)
(* found, each item those of its own chunk and of earlier ones, whatever   *)
(* statements failed and ran again: merge.go, translateMutationSplit and   *)
(* translateConnectFieldSplit; client.go, executeChunked.                  *)
THEOREM ConnectsFollow == Spec => []ConnectFollowsMerge
<1>1. Init => OrderInv /\ FollowInv
  <2> SUFFICES ASSUME Init PROVE OrderInv /\ FollowInv
    OBVIOUS
  <2>1. /\ active = Nobody /\ status = [c \in Callers |-> "idle"] /\ due = [c \in Callers |-> {}]
        /\ twice = [c \in Callers |-> FALSE] /\ origin = [nodes |-> nodes, edges |-> edges]
    BY DEF Init, NoStatement
  <2>2. OrderInv
    BY <2>1 DEF OrderInv
  <2>3. FollowInv
    BY <2>1 DEF FollowInv
  <2> QED BY <2>2, <2>3
<1>2. /\ MutationInv /\ MutationInv' /\ TypesInv /\ CountInv
      /\ OrderInv /\ FollowInv /\ [Next]_vars
      => OrderInv' /\ FollowInv'
  BY OrderStep, FollowStep DEF MutationInv, TypesInv, CountInv
<1>3. TypesInv /\ CountInv /\ OrderInv /\ FollowInv => ConnectFollowsMerge
  <2> SUFFICES ASSUME TypesInv, CountInv, OrderInv, FollowInv, NEW c \in Callers, status[c] = "done", Alone(c),
                      NEW x \in DOMAIN request[c], Follows(request[c], x),
                      NEW i \in DOMAIN request[c][x].items,
                      NEW m \in Labelled(Connected(request[c][x]).from) \cap Reached(request[c], i),
                      NEW n \in Labelled(Connected(request[c][x]).to) \cap Reached(request[c], i),
                      Equals(m, Wanted(KeysOf(request[c][x], "from"), request[c][x].items[i].from)),
                      Equals(n, Wanted(KeysOf(request[c][x], "to"), request[c][x].items[i].to))
               PROVE  Copies(BuildRelPattern(Connected(request[c][x]), m, n)) # {}
    BY DEF ConnectFollowsMerge
  <2>1. Kept(request[c], x, origin.nodes, nodes, edges, Gone(c))
    BY DEF FollowInv
  <2>2. i \in Gone(c)[x]
    BY ConnectThrough DEF TypesInv, CountInv
  <2>3. Within(request[c], origin.nodes, nodes, i, m) /\ Within(request[c], origin.nodes, nodes, i, n)
    BY DEF Reached, Within, Equals, Has, Writes
  <2>4. /\ AtEnd(request[c], x, i, origin.nodes, nodes, "from", m)
        /\ AtEnd(request[c], x, i, origin.nodes, nodes, "to", n)
    BY <2>3 DEF AtEnd, Labelled, Equals, Has
  <2>5. Joined(edges, BuildRelPattern(Connected(request[c][x]), m, n))
    BY <2>1, <2>2, <2>4 DEF Kept
  <2> QED BY <2>5 DEF Joined, Copies
<1> QED BY <1>1, <1>2, <1>3, Invariance, KindInvariance, CountInvariance, PTL DEF Spec
-----------------------------------------------------------------------------
(* Merges as upserts. *)

(* The only merge of its type in a mutation that merges and connects. *)
Upserts(req, y) ==
  /\ req[y].op = "merge" /\ Plain(req[y])
  /\ OnlyWrites(req)
  /\ \A z \in DOMAIN req : req[z].op = "merge" /\ req[z].label = req[y].label => z = y

(* The nodes of old with the keys of item i. *)
Was(f, i, old) ==
  {n \in DOMAIN old :
     /\ old[n].label = f.label
     /\ \A k \in DOMAIN f.items[i].match : old[n].props[k] = f.items[i].match[k]}

(* The items with these keys that find a node, and set property p of it. *)
Setting(f, i, old, p) ==
  {j \in Same(f, i) : /\ Was(f, i, old) # {} \/ \E k \in Same(f, i) : k < j
                      /\ Given(f.items[j].onMatch, p) # Null}

(* v is what those of the items gone through leave in it. *)
Leave(f, i, old, gone, p, v) ==
  \/ \E j \in Setting(f, i, old, p) \cap gone :
       /\ \A k \in Setting(f, i, old, p) \cap gone : k <= j
       /\ v = f.items[j].onMatch[p]
  \/ /\ Setting(f, i, old, p) \cap gone = {}
     /\ \/ \E n \in Was(f, i, old) : v = old[n].props[p]
        \/ /\ Was(f, i, old) = {}
           /\ \E j \in Same(f, i) \cap gone : v = Given(f.items[j].onCreate, p) /\ \A k \in Same(f, i) : j <= k

(* What the items gone through come to: each has its node, with what they  *)
(* leave in it; the other nodes of the type are as they were.              *)
Upserting(f, old, ns, gone) ==
  /\ \A i \in gone : Seen(ns, f, f.items[i])
  /\ \A i \in gone, n \in DOMAIN ns :
       ns[n].label = f.label /\ Has(ns, n, f.items[i].match) =>
         \A p \in Props \ DOMAIN f.items[i].match : Leave(f, i, old, gone, p, ns[n].props[p])
  /\ \A n \in DOMAIN ns :
       ns[n].label = f.label /\ (\A i \in gone : ~Has(ns, n, f.items[i].match)) =>
         n \in DOMAIN old /\ old[n].label = f.label /\ \A p \in Props : old[n].props[p] = ns[n].props[p]
  /\ \A n \in DOMAIN old : old[n].label = f.label =>
       /\ n \in DOMAIN ns /\ ns[n].label = f.label
       /\ \A p \in KeysOf(f, "match") : ns[n].props[p] = old[n].props[p]

(* Of each item before position k, and only of those, i is at most (k-1)*b.*)
LEMMA PositionBefore ==
  ASSUME NEW i \in Nat \ {0}, NEW k \in Nat \ {0}
  PROVE  Position(i) < k <=> i <= (k - 1) * BatchSize
<1>1. PICK b \in Nat \ {0} : b = BatchSize
  BY MutationsAssumption
<1>2. PICK q \in Nat \ {0} : q = Position(i)
  BY PositionOf
<1>3. (q - 1) * b < i /\ i <= q * b
  BY <1>1, <1>2, PositionOf
<1>4. CASE q < k
  <2>1. PICK d \in Nat : k = q + 1 + d
    BY <1>4
  <2>2. (k - 1) * b = q * b + d * b /\ d * b \in Nat /\ q * b \in Nat
    BY <2>1
  <2> QED BY <1>1, <1>2, <1>3, <1>4, <2>2
<1>5. CASE k <= q
  <2>1. PICK d \in Nat : q = k + d
    BY <1>5
  <2>2. (q - 1) * b = (k - 1) * b + d * b /\ d * b \in Nat /\ (k - 1) * b \in Nat
    BY <2>1
  <2> QED BY <1>1, <1>2, <1>3, <1>5, <2>2
<1> QED BY <1>4, <1>5

(* Within one field items come in the order of the list. *)
LEMMA GoneAreFirst ==
  ASSUME CallersInv, StatementInv, OrderInv, NEW op \in {"merge", "connect"}, Writing(op),
         NEW c \in Callers, c = active
  PROVE  Gone(c)[field] = {j \in DOMAIN Items(request[c][field]) : j < (chunk[c] - 1) * BatchSize + (row + 1)}
<1>1. PICK at : at = (chunk[c] - 1) * BatchSize + (row + 1)
  OBVIOUS
<1>2. field \in DOMAIN request[c] /\ at \in Nat \ {0} /\ Position(at) = chunk[c] /\ field \in due[c] /\ row \in Nat
  BY <1>1, RowAt DEF OrderInv, Writing, StatementInv
<1>3. PICK k \in Nat \ {0}, b \in Nat \ {0} : k = chunk[c] /\ b = BatchSize
  BY MutationsAssumption DEF CallersInv
<1>4. PICK start \in Nat : start = (k - 1) * b
  BY <1>3
<1>5. at = start + (row + 1)
  BY <1>1, <1>3, <1>4
<1>6. ASSUME NEW j \in DOMAIN Items(request[c][field])
      PROVE  (Position(j) < k \/ (Position(j) = k /\ j <= start + row)) <=> j < at
  <2>1. j \in Nat \ {0}
    BY <1>2, ItemNumbers
  <2>2. PICK q \in Nat \ {0} : q = Position(j)
    BY <2>1, PositionOf
  <2>3. q < k <=> j <= start
    BY <1>3, <1>4, <2>1, <2>2, PositionBefore
  <2>4. q < k + 1 <=> j <= start + b
    <3>1. (k + 1 - 1) * b = start + b /\ k + 1 \in Nat \ {0}
      BY <1>4
    <3> QED BY <1>3, <2>1, <2>2, <3>1, PositionBefore
  <2>5. at <= start + b
    <3>1. at <= k * b
      BY <1>2, <1>3, PositionOf
    <3>2. k * b = start + b
      BY <1>4
    <3> QED BY <3>1, <3>2
  <2> QED BY <1>2, <1>5, <2>1, <2>2, <2>3, <2>4, <2>5
<1>7. /\ Through(c)[field] = {j \in DOMAIN Items(request[c][field]) : Position(j) < k}
      /\ AtRows(c, field) = {j \in DOMAIN Items(request[c][field]) : Position(j) = k /\ j <= start + row}
  BY <1>2, <1>3, <1>4 DEF Through, AtRows, Writing
<1>8. Gone(c)[field] = Through(c)[field] \cup AtRows(c, field)
  BY <1>2 DEF Gone
<1> QED BY <1>1, <1>6, <1>7, <1>8

(* All items have these keys, and set none of them. *)
OneKeyed(f, keys) ==
  /\ keys \subseteq Props /\ KeysOf(f, "match") = keys
  /\ DOMAIN f.items \subseteq Nat
  /\ \A i \in DOMAIN f.items : DOMAIN f.items[i].match = keys /\ DOMAIN f.items[i].onMatch \cap keys = {}

(* Items with the same keys are about the same nodes. *)
LEMMA SameItems ==
  ASSUME NEW f, NEW keys, OneKeyed(f, keys), NEW i \in DOMAIN f.items, NEW j \in DOMAIN f.items
  PROVE  /\ i \in Same(f, i)
         /\ j \in Same(f, i) <=> i \in Same(f, j)
         /\ j \in Same(f, i) => Same(f, i) = Same(f, j)
         /\ \A ns, n : Has(ns, n, f.items[i].match) /\ j \in Same(f, i) => Has(ns, n, f.items[j].match)
         /\ \A ns, n : Has(ns, n, f.items[i].match) /\ Has(ns, n, f.items[j].match) => j \in Same(f, i)
         /\ \A old : j \in Same(f, i) => Was(f, i, old) = Was(f, j, old)
<1>1. DOMAIN f.items[i].match = keys /\ DOMAIN f.items[j].match = keys
  BY DEF OneKeyed
<1>2. \A h \in DOMAIN f.items, k \in DOMAIN f.items :
        k \in Same(f, h) <=> \A p \in keys : f.items[k].match[p] = f.items[h].match[p]
  BY DEF Same, OneKeyed
<1>3. i \in Same(f, i) /\ (j \in Same(f, i) <=> i \in Same(f, j))
  BY <1>2
<1>4. j \in Same(f, i) => Same(f, i) = Same(f, j)
  <2>1. Same(f, i) \subseteq DOMAIN f.items /\ Same(f, j) \subseteq DOMAIN f.items
    BY DEF Same
  <2> QED BY <1>2, <2>1
<1>5. \A ns, n : Has(ns, n, f.items[i].match) /\ j \in Same(f, i) => Has(ns, n, f.items[j].match)
  BY <1>1, <1>2 DEF Has
<1>6. \A ns, n : Has(ns, n, f.items[i].match) /\ Has(ns, n, f.items[j].match) => j \in Same(f, i)
  BY <1>1, <1>2 DEF Has
<1>7. \A old : j \in Same(f, i) => Was(f, i, old) = Was(f, j, old)
  BY <1>1, <1>2 DEF Was
<1> QED BY <1>3, <1>4, <1>5, <1>6, <1>7

LEMMA LeaveAlike ==
  ASSUME NEW f, NEW keys, OneKeyed(f, keys), NEW i \in DOMAIN f.items, NEW j \in Same(f, i),
         NEW old, NEW gone, NEW p, NEW v
  PROVE  Leave(f, i, old, gone, p, v) <=> Leave(f, j, old, gone, p, v)
<1>1. j \in DOMAIN f.items
  BY DEF Same
<1>2. Same(f, i) = Same(f, j) /\ Was(f, i, old) = Was(f, j, old)
  BY <1>1, SameItems
<1>3. Setting(f, i, old, p) = Setting(f, j, old, p)
  BY <1>2 DEF Setting
<1> QED BY <1>2, <1>3 DEF Leave

(* Another item changes nothing for these keys. *)
LEMMA LeaveSame ==
  ASSUME NEW f, NEW i, NEW at, at \notin Same(f, i), NEW old, NEW gone, NEW p, NEW v,
         Leave(f, i, old, gone, p, v)
  PROVE  Leave(f, i, old, gone \cup {at}, p, v)
<1>1. Setting(f, i, old, p) \cap (gone \cup {at}) = Setting(f, i, old, p) \cap gone
  BY DEF Setting
<1>2. Same(f, i) \cap (gone \cup {at}) = Same(f, i) \cap gone
  OBVIOUS
<1> QED BY <1>1, <1>2 DEF Leave

(* A merge of another type. *)
LEMMA UpsertOther ==
  ASSUME CallersInv, StatementInv, ShapeInv, KindInv, Merge, unseen[active] = {},
         NEW f, f.label # Current.label, NEW old, NEW gone, Upserting(f, old, nodes, gone)
  PROVE  Upserting(f, old, nodes', gone)
<1>1. PICK item : item = Rows[row + 1]
  OBVIOUS
<1>2. \A n \in DOMAIN nodes : n \in DOMAIN nodes' /\ nodes'[n].label = nodes[n].label
                              /\ (nodes[n].label = f.label => nodes'[n] = nodes[n])
  <2> SUFFICES ASSUME NEW n \in DOMAIN nodes
               PROVE  n \in DOMAIN nodes' /\ nodes'[n].label = nodes[n].label
                      /\ (nodes[n].label = f.label => nodes'[n] = nodes[n])
    OBVIOUS
  <2>1. CASE n \in Merged(Current, item)
    <3>1. nodes[n].label = Current.label
      BY <2>1 DEF Merged, Labelled
    <3> QED BY <1>1, <2>1, <3>1, MergeLeaves DEF SetNode
  <2>2. CASE n \notin Merged(Current, item)
    BY <1>1, <2>2, MergeLeaves
  <2> QED BY <2>1, <2>2
<1>3. \A n \in DOMAIN nodes' : nodes'[n].label = f.label => n \in DOMAIN nodes
  BY <1>1, MergeLeaves DEF MadeNode
<1>4. \A n \in DOMAIN nodes' : nodes'[n].label = f.label =>
        n \in DOMAIN nodes /\ nodes[n].label = f.label /\ nodes'[n] = nodes[n]
  BY <1>2, <1>3
<1>5. \A n \in DOMAIN nodes : nodes[n].label = f.label =>
        n \in DOMAIN nodes' /\ nodes'[n].label = f.label /\ nodes'[n] = nodes[n]
  BY <1>2
<1>6. \A n, map : nodes'[n] = nodes[n] => (Has(nodes', n, map) <=> Has(nodes, n, map))
  BY DEF Has
<1>7. \A i \in gone : Seen(nodes', f, f.items[i])
  BY <1>5, <1>6 DEF Upserting, Seen
<1>8. \A i \in gone, n \in DOMAIN nodes' :
        nodes'[n].label = f.label /\ Has(nodes', n, f.items[i].match) =>
          \A p \in Props \ DOMAIN f.items[i].match : Leave(f, i, old, gone, p, nodes'[n].props[p])
  BY <1>4, <1>6 DEF Upserting
<1>9. \A n \in DOMAIN nodes' :
        nodes'[n].label = f.label /\ (\A i \in gone : ~Has(nodes', n, f.items[i].match)) =>
          n \in DOMAIN old /\ old[n].label = f.label /\ \A p \in Props : old[n].props[p] = nodes'[n].props[p]
  BY <1>4, <1>6 DEF Upserting
<1>10. \A n \in DOMAIN old : old[n].label = f.label =>
         /\ n \in DOMAIN nodes' /\ nodes'[n].label = f.label
         /\ \A p \in KeysOf(f, "match") : nodes'[n].props[p] = old[n].props[p]
  BY <1>5 DEF Upserting
<1> QED BY <1>7, <1>8, <1>9, <1>10 DEF Upserting

(* A row of the merge for whose keys there is no node. *)
LEMMA UpsertMakes ==
  ASSUME CallersInv, StatementInv, ShapeInv, KindInv, Merge, unseen[active] = {},
         NEW f, f = Current, NEW keys, OneKeyed(f, keys),
         NEW at \in DOMAIN f.items, f.items[at] = Rows[row + 1], Merged(f, f.items[at]) = {},
         NEW old, NEW gone, gone = {j \in DOMAIN f.items : j < at}, Upserting(f, old, nodes, gone)
  PROVE  Upserting(f, old, nodes', gone \cup {at})
<1>1. PICK item : item = f.items[at]
  OBVIOUS
<1>2. PICK new : new = fresh + 1
  OBVIOUS
<1>3. /\ \A p \in keys : Given(item.match, p) # Null
      /\ new \notin DOMAIN nodes /\ DOMAIN nodes' = DOMAIN nodes \cup {new}
      /\ \A n \in DOMAIN nodes : nodes'[n] = nodes[n]
      /\ MadeNode(f, item, nodes'[new])
  BY <1>1, <1>2, MergeLeaves DEF OneKeyed
<1>4. keys \subseteq Props /\ DOMAIN item.match = keys /\ KeysOf(f, "match") = keys
  BY <1>1 DEF OneKeyed
<1>5. nodes'[new].label = f.label /\ Has(nodes', new, item.match)
      /\ \A p \in Props \ keys : nodes'[new].props[p] = Given(item.onCreate, p)
  BY <1>3, <1>4 DEF MadeNode, Has, Given
<1>6. \A n \in DOMAIN nodes : nodes[n].label = f.label => ~Has(nodes, n, item.match)
  BY <1>1, <1>3, <1>4 DEF Merged, Labelled, Equals, Wanted, Has, Given
<1>7. \A i \in gone : i \in DOMAIN f.items /\ at \notin Same(f, i) /\ i \notin Same(f, at)
  <2> SUFFICES ASSUME NEW i \in gone, at \in Same(f, i) \/ i \in Same(f, at) PROVE FALSE
    OBVIOUS
  <2>1. i \in DOMAIN f.items /\ at \in Same(f, i)
    BY SameItems
  <2>2. PICK n \in DOMAIN nodes : nodes[n].label = f.label /\ Has(nodes, n, f.items[i].match)
    BY DEF Upserting, Seen
  <2>3. Has(nodes, n, item.match)
    BY <1>1, <2>1, <2>2, SameItems
  <2> QED BY <1>6, <2>2, <2>3
<1>8. Was(f, at, old) = {}
  <2> SUFFICES ASSUME NEW n \in Was(f, at, old) PROVE FALSE
    OBVIOUS
  <2>1. n \in DOMAIN old /\ old[n].label = f.label /\ \A p \in keys : old[n].props[p] = item.match[p]
    BY <1>1, <1>4 DEF Was
  <2>2. n \in DOMAIN nodes /\ nodes[n].label = f.label /\ \A p \in keys : nodes[n].props[p] = item.match[p]
    BY <1>4, <2>1 DEF Upserting
  <2>3. Has(nodes, n, item.match)
    BY <1>3, <1>4, <2>2 DEF Has, Given
  <2> QED BY <1>6, <2>2, <2>3
<1>9. \A k \in Same(f, at) : at <= k
  <2>1. DOMAIN f.items \subseteq Nat /\ Same(f, at) \subseteq DOMAIN f.items
    BY DEF OneKeyed, Same
  <2> QED BY <1>7, <2>1
<1>10. at \in Same(f, at)
  BY SameItems
<1>11. ASSUME NEW p, NEW v, v = Given(item.onCreate, p)
       PROVE  Leave(f, at, old, gone \cup {at}, p, v)
  <2>1. Setting(f, at, old, p) \cap (gone \cup {at}) = {}
    <3>1. DOMAIN f.items \subseteq Nat /\ Same(f, at) \subseteq DOMAIN f.items
      BY DEF OneKeyed, Same
    <3> SUFFICES ASSUME NEW j \in Setting(f, at, old, p), j \in gone \cup {at} PROVE FALSE
      OBVIOUS
    <3>2. j \in Same(f, at) /\ \E k \in Same(f, at) : k < j
      BY <1>8 DEF Setting
    <3> QED BY <1>7, <1>9, <3>1, <3>2
  <2> QED BY <1>1, <1>8, <1>9, <1>10, <1>11, <2>1 DEF Leave
<1>12. \A n : n \in DOMAIN nodes => \A map : Has(nodes', n, map) <=> Has(nodes, n, map)
  BY <1>3 DEF Has
<1>13. ASSUME NEW i \in gone \cup {at}
       PROVE  Seen(nodes', f, f.items[i])
  <2>1. CASE i = at
    BY <1>1, <1>3, <1>5, <2>1 DEF Seen
  <2>2. CASE i \in gone
    <3>1. PICK n \in DOMAIN nodes : nodes[n].label = f.label /\ Has(nodes, n, f.items[i].match)
      BY <2>2 DEF Upserting, Seen
    <3> QED BY <1>3, <1>12, <3>1 DEF Seen
  <2> QED BY <2>1, <2>2
<1>14. ASSUME NEW i \in gone \cup {at}, NEW n \in DOMAIN nodes', nodes'[n].label = f.label,
              Has(nodes', n, f.items[i].match), NEW p \in Props \ DOMAIN f.items[i].match
       PROVE  Leave(f, i, old, gone \cup {at}, p, nodes'[n].props[p])
  <2>1. i \in DOMAIN f.items /\ DOMAIN f.items[i].match = keys
    BY <1>7, <1>14 DEF OneKeyed
  <2>2. CASE n = new
    <3>1. i \in Same(f, at)
      BY <1>1, <1>5, <1>14, <2>1, <2>2, SameItems
    <3>2. i = at
      BY <1>7, <3>1
    <3> QED BY <1>5, <1>11, <1>14, <2>1, <2>2, <3>2
  <2>3. CASE n \in DOMAIN nodes
    <3>1. nodes'[n] = nodes[n] /\ Has(nodes, n, f.items[i].match)
      BY <1>3, <1>12, <1>14, <2>3
    <3>2. i \in gone
      BY <1>1, <1>6, <1>14, <2>3, <3>1
    <3>3. Leave(f, i, old, gone, p, nodes[n].props[p])
      BY <1>14, <2>3, <3>1, <3>2 DEF Upserting
    <3> QED BY <1>7, <3>1, <3>2, <3>3, LeaveSame
  <2> QED BY <1>3, <1>14, <2>2, <2>3
<1>15. ASSUME NEW n \in DOMAIN nodes', nodes'[n].label = f.label,
              \A i \in gone \cup {at} : ~Has(nodes', n, f.items[i].match)
       PROVE  n \in DOMAIN old /\ old[n].label = f.label /\ \A p \in Props : old[n].props[p] = nodes'[n].props[p]
  <2>1. n \in DOMAIN nodes /\ nodes'[n] = nodes[n] /\ \A i \in gone : ~Has(nodes, n, f.items[i].match)
    BY <1>1, <1>3, <1>5, <1>12, <1>15
  <2> QED BY <1>15, <2>1 DEF Upserting
<1>16. \A n \in DOMAIN old : old[n].label = f.label =>
         /\ n \in DOMAIN nodes' /\ nodes'[n].label = f.label
         /\ \A p \in KeysOf(f, "match") : nodes'[n].props[p] = old[n].props[p]
  BY <1>3 DEF Upserting
<1> QED BY <1>13, <1>14, <1>15, <1>16 DEF Upserting

(* A row of the merge for whose keys there is a node. *)
LEMMA UpsertSets ==
  ASSUME CallersInv, StatementInv, ShapeInv, KindInv, Merge, unseen[active] = {},
         NEW f, f = Current, NEW keys, OneKeyed(f, keys),
         NEW at \in DOMAIN f.items, f.items[at] = Rows[row + 1], Merged(f, f.items[at]) # {},
         NEW old, NEW gone, gone = {j \in DOMAIN f.items : j < at}, Upserting(f, old, nodes, gone)
  PROVE  Upserting(f, old, nodes', gone \cup {at})
<1>1. PICK item : item = f.items[at]
  OBVIOUS
<1>2. PICK found : found = Merged(f, item)
  OBVIOUS
<1>3. /\ DOMAIN nodes' = DOMAIN nodes /\ found \subseteq DOMAIN nodes
      /\ \A n \in DOMAIN nodes \ found : nodes'[n] = nodes[n]
      /\ \A n \in found : SetNode(item, nodes[n], nodes'[n])
      /\ \A p \in keys : Given(item.match, p) # Null
  BY <1>1, <1>2, MergeLeaves DEF OneKeyed
<1>4. /\ keys \subseteq Props /\ DOMAIN item.match = keys /\ KeysOf(f, "match") = keys
      /\ DOMAIN item.onMatch \cap keys = {} /\ DOMAIN f.items \subseteq Nat
  BY <1>1 DEF OneKeyed
<1>5. \A n : n \in found <=> n \in DOMAIN nodes /\ nodes[n].label = f.label /\ Has(nodes, n, item.match)
  BY <1>2, <1>3, <1>4 DEF Merged, Labelled, Equals, Wanted, Given, Has
<1>6. \A n \in DOMAIN nodes : /\ nodes'[n].label = nodes[n].label
                              /\ \A p \in keys : nodes'[n].props[p] = nodes[n].props[p]
  BY <1>3, <1>4 DEF SetNode, Given
<1>7. \A n \in DOMAIN nodes, i \in DOMAIN f.items :
        Has(nodes', n, f.items[i].match) <=> Has(nodes, n, f.items[i].match)
  BY <1>6 DEF Has, OneKeyed
<1>8. at \in Same(f, at) /\ at \notin gone /\ gone \subseteq DOMAIN f.items
      /\ \A k \in gone \cup {at} : k <= at
  BY <1>4, SameItems
<1>9. ASSUME NEW n \in found, NEW p \in Props \ keys
      PROVE  Leave(f, at, old, gone \cup {at}, p, nodes'[n].props[p])
  <2>1. nodes'[n].props[p] = IF Given(item.onMatch, p) # Null THEN item.onMatch[p] ELSE nodes[n].props[p]
    BY <1>3, <1>9 DEF SetNode
  <2>2. CASE \E j \in gone : j \in Same(f, at)
    <3>1. PICK j \in gone : j \in Same(f, at)
      BY <2>2
    <3>2. j < at /\ j \in DOMAIN f.items
      OBVIOUS
    <3>3. Has(nodes, n, f.items[j].match) /\ p \in Props \ DOMAIN f.items[j].match
      BY <1>1, <1>5, <1>9, <3>1, <3>2, SameItems DEF OneKeyed
    <3>4. Leave(f, j, old, gone, p, nodes[n].props[p])
      BY <1>5, <1>9, <3>1, <3>3 DEF Upserting
    <3>5. Leave(f, at, old, gone, p, nodes[n].props[p])
      BY <3>1, <3>4, LeaveAlike
    <3>6. CASE Given(item.onMatch, p) # Null
      <4>1. at \in Setting(f, at, old, p)
        BY <1>1, <1>8, <3>1, <3>2, <3>6 DEF Setting
      <4> QED BY <1>1, <1>8, <2>1, <3>6, <4>1 DEF Leave
    <3>7. CASE Given(item.onMatch, p) = Null
      <4>1. at \notin Setting(f, at, old, p)
        BY <1>1, <3>7 DEF Setting
      <4>2. Setting(f, at, old, p) \cap (gone \cup {at}) = Setting(f, at, old, p) \cap gone
        BY <4>1
      <4> QED BY <2>1, <3>5, <3>7, <4>2 DEF Leave
    <3> QED BY <3>6, <3>7
  <2>3. CASE \A j \in gone : j \notin Same(f, at)
    <3>1. \A i \in gone : ~Has(nodes, n, f.items[i].match)
      BY <1>1, <1>5, <1>8, <1>9, <2>3, SameItems
    <3>2. n \in DOMAIN old /\ old[n].label = f.label /\ \A q \in Props : old[n].props[q] = nodes[n].props[q]
      BY <1>5, <1>9, <3>1 DEF Upserting
    <3>3. n \in Was(f, at, old)
      BY <1>1, <1>4, <1>5, <1>9, <3>2 DEF Was, Has
    <3>4. CASE Given(item.onMatch, p) # Null
      <4>1. at \in Setting(f, at, old, p)
        BY <1>1, <1>8, <3>3, <3>4 DEF Setting
      <4> QED BY <1>1, <1>8, <2>1, <3>4, <4>1 DEF Leave
    <3>5. CASE Given(item.onMatch, p) = Null
      <4>1. Setting(f, at, old, p) \cap (gone \cup {at}) = {}
        BY <1>1, <2>3, <3>5 DEF Setting
      <4> QED BY <1>9, <2>1, <3>2, <3>3, <3>5, <4>1 DEF Leave
    <3> QED BY <3>4, <3>5
  <2> QED BY <2>2, <2>3
<1>10. ASSUME NEW i \in gone \cup {at}
       PROVE  Seen(nodes', f, f.items[i])
  <2>1. i \in DOMAIN f.items
    BY <1>8
  <2>2. \E n \in DOMAIN nodes : nodes[n].label = f.label /\ Has(nodes, n, f.items[i].match)
    <3>1. CASE i = at
      BY <1>1, <1>2, <1>5, <3>1
    <3>2. CASE i \in gone
      BY <3>2 DEF Upserting, Seen
    <3> QED BY <3>1, <3>2
  <2> QED BY <1>3, <1>6, <1>7, <2>1, <2>2 DEF Seen
<1>11. ASSUME NEW i \in gone \cup {at}, NEW n \in DOMAIN nodes', nodes'[n].label = f.label,
              Has(nodes', n, f.items[i].match), NEW p \in Props \ DOMAIN f.items[i].match
       PROVE  Leave(f, i, old, gone \cup {at}, p, nodes'[n].props[p])
  <2>1. i \in DOMAIN f.items /\ DOMAIN f.items[i].match = keys
    BY <1>8 DEF OneKeyed
  <2>2. n \in DOMAIN nodes /\ nodes[n].label = f.label /\ Has(nodes, n, f.items[i].match)
    BY <1>3, <1>6, <1>7, <1>11, <2>1
  <2>3. CASE n \in found
    <3>1. at \in Same(f, i)
      BY <1>1, <1>5, <2>1, <2>2, <2>3, SameItems
    <3>2. Leave(f, at, old, gone \cup {at}, p, nodes'[n].props[p])
      BY <1>9, <2>1, <2>3
    <3> QED BY <2>1, <3>1, <3>2, LeaveAlike
  <2>4. CASE n \notin found
    <3>1. i # at /\ at \notin Same(f, i)
      BY <1>1, <1>5, <2>1, <2>2, <2>4, SameItems
    <3>2. Leave(f, i, old, gone, p, nodes[n].props[p])
      BY <1>11, <2>2, <3>1 DEF Upserting
    <3>3. nodes'[n] = nodes[n]
      BY <1>3, <2>2, <2>4
    <3> QED BY <3>1, <3>2, <3>3, LeaveSame
  <2> QED BY <2>3, <2>4
<1>12. ASSUME NEW n \in DOMAIN nodes', nodes'[n].label = f.label,
              \A i \in gone \cup {at} : ~Has(nodes', n, f.items[i].match)
       PROVE  n \in DOMAIN old /\ old[n].label = f.label /\ \A p \in Props : old[n].props[p] = nodes'[n].props[p]
  <2>1. n \in DOMAIN nodes /\ nodes[n].label = f.label /\ \A i \in gone \cup {at} : ~Has(nodes, n, f.items[i].match)
    BY <1>3, <1>6, <1>7, <1>8, <1>12
  <2>2. n \notin found /\ nodes'[n] = nodes[n]
    BY <1>1, <1>3, <1>5, <2>1
  <2> QED BY <2>1, <2>2 DEF Upserting
<1>13. \A n \in DOMAIN old : old[n].label = f.label =>
         /\ n \in DOMAIN nodes' /\ nodes'[n].label = f.label
         /\ \A p \in KeysOf(f, "match") : nodes'[n].props[p] = old[n].props[p]
  BY <1>3, <1>4, <1>6 DEF Upserting
<1> QED BY <1>10, <1>11, <1>12, <1>13 DEF Upserting

(* While one caller alone has run statements, its merges are upserts; in   *)
(* the graph a failed statement goes back to too.                          *)
UpsertInv ==
  \A c \in Callers : Alone(c) =>
    IF status[c] = "idle" THEN nodes = origin.nodes
    ELSE \A y \in DOMAIN request[c] : Upserts(request[c], y) =>
           /\ Upserting(request[c][y], origin.nodes, nodes, Gone(c)[y])
           /\ active = c => Upserting(request[c][y], origin.nodes, before.nodes, Through(c)[y])

LEMMA UpsertsShape ==
  ASSUME CallersInv, NEW c \in Callers, NEW y \in DOMAIN request[c], Upserts(request[c], y)
  PROVE  OneKeyed(request[c][y], KeysOf(request[c][y], "match")) /\ Items(request[c][y]) = request[c][y].items
<1>1. PICK f : f = request[c][y]
  OBVIOUS
<1>2. f.op = "merge" /\ Plain(f) /\ IsField(f)
  BY <1>1, FieldShape DEF Upserts
<1>3. Items(f) = f.items
  BY <1>2 DEF Items
<1>4. DOMAIN f.items \subseteq Nat
  BY <1>1, <1>3, ItemNumbers
<1>5. \A i \in DOMAIN f.items :
        /\ DOMAIN f.items[i].match = KeysOf(f, "match") /\ DOMAIN f.items[i].match \subseteq Props
        /\ DOMAIN f.items[i].onMatch \cap KeysOf(f, "match") = {}
  BY <1>2 DEF Plain, IsField
<1>6. KeysOf(f, "match") \subseteq Props
  <2>1. CASE f.items = <<>>
    BY <2>1 DEF KeysOf
  <2>2. CASE f.items # <<>>
    <3>1. PICK list, S : list = f.items /\ S = Range(list)
      OBVIOUS
    <3>2. list \in Seq(S)
      BY <1>1, <1>3, <3>1, FieldShape
    <3>3. 1 \in DOMAIN list
      BY <2>2, <3>1, <3>2
    <3> QED BY <1>5, <3>1, <3>3
  <2> QED BY <2>1, <2>2
<1> QED BY <1>1, <1>3, <1>4, <1>5, <1>6 DEF OneKeyed

LEMMA UpsertRow ==
  ASSUME CallersInv, StatementInv, ShapeInv, KindInv, OrderInv, Merge, unseen[active] = {},
         NEW c \in Callers, c = active,
         NEW y \in DOMAIN request[c], Upserts(request[c], y),
         Upserting(request[c][y], origin.nodes, nodes, Gone(c)[y])
  PROVE  Upserting(request[c][y], origin.nodes, nodes', Gone(c)'[y])
<1>1. PICK at : at = (chunk[c] - 1) * BatchSize + (row + 1)
  OBVIOUS
<1>2. /\ at \in DOMAIN Current.items /\ Rows[row + 1] = Current.items[at] /\ field \in DOMAIN request[c]
      /\ Current = request[c][field] /\ Current.op = "merge"
  BY <1>1, RowAt DEF Merge, Writing, Current
<1>3. Gone(c)'[y] = IF y = field THEN Gone(c)[y] \cup {at} ELSE Gone(c)[y]
  BY <1>1, RowGone
<1>4. CASE y # field
  <2>1. request[c][y].label # Current.label
    BY <1>2, <1>4 DEF Upserts
  <2> QED BY <1>3, <1>4, <2>1, UpsertOther
<1>5. CASE y = field
  <2>1. PICK f : f = Current
    OBVIOUS
  <2>2. PICK keys : keys = KeysOf(f, "match")
    OBVIOUS
  <2>3. f = request[c][y] /\ OneKeyed(f, keys) /\ Items(f) = f.items
    BY <1>2, <1>5, <2>1, <2>2, UpsertsShape
  <2>4. PICK gone : gone = Gone(c)[y]
    OBVIOUS
  <2>5. gone = {j \in DOMAIN f.items : j < at}
    <3>1. Writing("merge")
      BY DEF Merge
    <3> QED BY <1>1, <1>5, <2>3, <2>4, <3>1, GoneAreFirst
  <2>6. PICK old : old = origin.nodes
    OBVIOUS
  <2>7. Upserting(f, old, nodes, gone) /\ at \in DOMAIN f.items /\ f.items[at] = Rows[row + 1]
    BY <1>2, <2>1, <2>3, <2>4, <2>6
  <2>8. Upserting(f, old, nodes', gone \cup {at})
    BY <2>1, <2>3, <2>5, <2>7, UpsertMakes, UpsertSets
  <2> QED BY <1>3, <1>5, <2>3, <2>4, <2>6, <2>8
<1> QED BY <1>4, <1>5

LEMMA UpsertStep ==
  ASSUME CallersInv, StatementInv, UnseenInv, ShapeInv, KindInv, OrderInv, RowsInv, AnswersInv, UpsertInv,
         CallersInv', [Next]_vars
  PROVE  UpsertInv'
<1>1. origin' = origin
  BY OriginStays
<1> SUFFICES ASSUME NEW c \in Callers, Alone(c)'
             PROVE  IF status'[c] = "idle" THEN nodes' = origin'.nodes
                    ELSE \A y \in DOMAIN request'[c] : Upserts(request'[c], y) =>
                           /\ Upserting(request[c][y], origin.nodes, nodes, Gone(c)[y])'
                           /\ active' = c => Upserting(request[c][y], origin.nodes, before.nodes, Through(c)[y])'
  BY DEF UpsertInv
<1>2. Alone(c) /\ active \in {c, Nobody} /\ c # Nobody
  BY AloneBefore, MutationsAssumption
<1>3. CASE status[c] # "idle"
  <2>1. request'[c] = request[c] /\ status'[c] # "idle"
    BY <1>3, AloneBefore
  <2>2. ASSUME NEW y \in DOMAIN request[c], Upserts(request[c], y)
        PROVE  /\ Upserting(request[c][y], origin.nodes, nodes', Gone(c)'[y])
               /\ active' = c => Upserting(request[c][y], origin.nodes, before'.nodes, Through(c)'[y])
    <3>1. /\ Upserting(request[c][y], origin.nodes, nodes, Gone(c)[y])
          /\ active = c => Upserting(request[c][y], origin.nodes, before.nodes, Through(c)[y])
      BY <1>2, <1>3, <2>2 DEF UpsertInv
    <3>2. CASE Merge
      <4>1. c = active /\ unseen[active] = {}
        BY <1>2, <3>2, AloneSees DEF Merge, Writing
      <4> QED BY <2>2, <3>1, <3>2, <4>1, UpsertRow, RowGone
    <3>3. CASE Connect
      <4>1. c = active /\ nodes' = nodes
        BY <1>2, <3>3 DEF Connect, Writing
      <4>2. y # field
        BY <2>2, <3>3, <4>1 DEF Connect, Writing, Current, Upserts
      <4>3. Gone(c)'[y] = Gone(c)[y] /\ Through(c)' = Through(c) /\ before' = before
        BY <2>2, <3>3, <4>1, <4>2, RowGone
      <4> QED BY <3>1, <4>1, <4>3
    <3>4. CASE ~Merge /\ ~Connect
      <4>1. OnlyWrites(request[c])
        BY <2>2 DEF Upserts
      <4> QED BY <1>3, <3>1, <3>4, <4>1, CallStep
    <3> QED BY <3>2, <3>3, <3>4
  <2> QED BY <1>1, <2>1, <2>2
<1>4. CASE status[c] = "idle"
  <2>1. nodes = origin.nodes
    BY <1>2, <1>4 DEF UpsertInv
  <2>2. CASE status'[c] = "idle" /\ nodes' = nodes
    BY <1>1, <2>1, <2>2
  <2>3. CASE \E req \in Requests : Execute(c, req)
    <3> PICK req \in Requests : Execute(c, req)
      BY <2>3
    <3>1. /\ nodes' = nodes /\ active' = active /\ active # c
          /\ request'[c] = req /\ status'[c] = "running"
      BY <1>4, MutationsAssumption DEF Execute, graphVars, stmtVars, CallersInv, StatementInv
    <3>2. ASSUME NEW y \in DOMAIN req, Upserts(req, y)
          PROVE  Upserting(request[c][y], origin.nodes, nodes, Gone(c)[y])'
      <4>1. OnlyWrites(req)
        BY <3>2 DEF Upserts
      <4>2. Gone(c)'[y] = {}
        BY <4>1, NoneThrough
      <4> QED BY <1>1, <2>1, <3>1, <3>2, <4>2 DEF Upserting
    <3> QED BY <3>1, <3>2
  <2> QED BY <1>4, <2>2, <2>3, AloneBefore
<1> QED BY <1>3, <1>4

LEMMA FirstOf ==
  ASSUME NEW last \in Nat, NEW T \in SUBSET (1..last), T # {}
  PROVE  \E x \in T : \A y \in T : x <= y
<1> DEFINE U == {d \in 0..last : last - d \in T}
<1>1. U \in SUBSET Nat /\ \A d \in U : d <= last
  OBVIOUS
<1>2. IsFiniteSet(U)
  <2> HIDE DEF U
  <2> QED BY <1>1, FS_BoundedSetOfNaturals
<1>3. \A x \in T : last - x \in U /\ x \in Nat
  OBVIOUS
<1>4. \A d \in U : last - d \in T /\ d \in Nat
  OBVIOUS
<1> HIDE DEF U
<1>5. U # {}
  BY <1>3
<1>6. PICK d : d = Max(U)
  OBVIOUS
<1>7. d \in U /\ \A e \in U : e <= d
  BY <1>1, <1>2, <1>5, <1>6, FiniteMax
<1>8. \A y \in T : last - d <= y
  BY <1>3, <1>4, <1>7
<1> QED BY <1>4, <1>7, <1>8

(* What the items leave when all are through is what an upsert leaves.     *)
LEMMA LeaveUpserted ==
  ASSUME NEW f, NEW keys, OneKeyed(f, keys), NEW last \in Nat, DOMAIN f.items = 1..last,
         UniqueBy(origin.nodes, f.label, keys), NEW i \in DOMAIN f.items, NEW p, NEW v,
         Leave(f, i, origin.nodes, DOMAIN f.items, p, v)
  PROVE  v = Upserted(f, i, p)
<1>1. PICK same : same = Same(f, i)
  OBVIOUS
<1>2. same \in SUBSET (1..last) /\ i \in same /\ same \subseteq Nat
  BY <1>1, SameItems DEF Same
<1>3. PICK first \in same : \A k \in same : first <= k
  BY <1>2, FirstOf
<1>4. Min(same) = first
  <2>1. \A x \in same : (\A k \in same : x <= k) => x = first
    BY <1>2, <1>3
  <2> QED BY <1>3, <2>1 DEF Min
<1>5. \A j \in same : j # first <=> \E k \in same : k < j
  BY <1>2, <1>3
<1>6. Olds(f, i) = Was(f, i, origin.nodes)
  BY DEF Olds, Was
<1>7. PICK sets : sets = Sets(f, i, p)
  OBVIOUS
<1>8. Setting(f, i, origin.nodes, p) = sets /\ sets \subseteq same
  BY <1>1, <1>4, <1>5, <1>6, <1>7 DEF Setting, Sets
<1>9. sets \cap DOMAIN f.items = sets
  BY <1>1, <1>8 DEF Same
<1>10. CASE \E j \in sets : (\A k \in sets : k <= j) /\ v = f.items[j].onMatch[p]
  <2>1. PICK j \in sets : (\A k \in sets : k <= j) /\ v = f.items[j].onMatch[p]
    BY <1>10
  <2>2. ASSUME NEW x \in sets, \A k \in sets : x >= k
        PROVE  x = j
    <3>1. x \in Nat /\ j \in Nat
      BY <1>2, <1>8
    <3>2. x >= j /\ x <= j
      BY <2>1, <2>2
    <3> QED BY <3>1, <3>2
  <2>3. Max(sets) = j
    BY <1>2, <1>8, <2>1, <2>2 DEF Max
  <2> QED BY <1>7, <2>1, <2>3 DEF Upserted
<1>11. CASE sets = {} /\ \E n \in Was(f, i, origin.nodes) : v = origin.nodes[n].props[p]
  <2>1. PICK n \in Olds(f, i) : v = origin.nodes[n].props[p]
    BY <1>6, <1>11
  <2>2. \A m \in Olds(f, i) : m = n
    BY <2>1 DEF Olds, UniqueBy, OneKeyed
  <2>3. (CHOOSE m \in Olds(f, i) : TRUE) = n
    BY <2>1, <2>2
  <2> QED BY <1>7, <1>11, <2>1, <2>3 DEF Upserted
<1>12. CASE /\ sets = {} /\ Was(f, i, origin.nodes) = {}
            /\ \E j \in same : v = Given(f.items[j].onCreate, p) /\ \A k \in same : j <= k
  <2>1. v = Given(f.items[first].onCreate, p)
    BY <1>2, <1>3, <1>12
  <2> QED BY <1>1, <1>4, <1>6, <1>7, <1>12, <2>1 DEF Upserted
<1> QED BY <1>1, <1>8, <1>9, <1>10, <1>11, <1>12 DEF Leave

(* A merge leaves one node for each item's keys, with the properties of an *)
(* upsert item after item, wherever the chunks are cut and whatever        *)
(* statements fail and run again: merge.go, translateMergeFieldSplit;      *)
(* client.go, executeChunked.                                              *)
THEOREM MergesUpsert == Spec => []MergeIsUpsert
<1>1. Init => OrderInv /\ UpsertInv
  <2> SUFFICES ASSUME Init PROVE OrderInv /\ UpsertInv
    OBVIOUS
  <2>1. /\ active = Nobody /\ status = [c \in Callers |-> "idle"] /\ due = [c \in Callers |-> {}]
        /\ twice = [c \in Callers |-> FALSE] /\ origin = [nodes |-> nodes, edges |-> edges]
    BY DEF Init, NoStatement
  <2>2. OrderInv
    BY <2>1 DEF OrderInv
  <2>3. UpsertInv
    BY <2>1 DEF UpsertInv
  <2> QED BY <2>2, <2>3
<1>2. /\ MutationInv /\ MutationInv' /\ TypesInv /\ CountInv
      /\ OrderInv /\ UpsertInv /\ [Next]_vars
      => OrderInv' /\ UpsertInv'
  BY OrderStep, UpsertStep DEF MutationInv, TypesInv, CountInv
<1>3. MutationInv /\ TypesInv /\ CountInv /\ OrderInv /\ UpsertInv => MergeIsUpsert
  <2> SUFFICES ASSUME MutationInv, TypesInv, CountInv, OrderInv, UpsertInv, NEW c \in Callers,
                      status[c] = "done", Alone(c), NEW y \in DOMAIN request[c], NEW f, f = request[c][y],
                      f.op = "merge", MergedBy(f.label, KeysOf(f, "match")),
                      \A z \in DOMAIN request[c] :
                        request[c][z].op = "merge" /\ request[c][z].label = f.label => z = y,
                      NEW i \in DOMAIN f.items, NEW found,
                      found = {n \in Labelled(f.label) : Equals(n, f.items[i].match)}
               PROVE  /\ Cardinality(found) = 1
                      /\ \A n \in found, p \in Props \ DOMAIN f.items[i].match :
                           nodes[n].props[p] = Upserted(f, i, p)
    BY DEF MergeIsUpsert
  <2>1. PICK keys : keys = KeysOf(f, "match")
    OBVIOUS
  <2>2. \A z \in DOMAIN request[c] : request[c][z] \in AllFields
    BY DEF AllFields
  <2>3. Upserts(request[c], y)
    BY <2>2 DEF MergedBy, Upserts, OnlyWrites
  <2>4. OneKeyed(f, keys) /\ Items(f) = f.items
    BY <2>1, <2>3, UpsertsShape DEF TypesInv
  <2>5. Gone(c)[y] = DOMAIN f.items
    <3>1. \A j \in DOMAIN f.items : j \in Gone(c)[y]
      BY <2>4, AllThrough DEF TypesInv, CountInv
    <3>2. Gone(c)[y] \subseteq DOMAIN f.items
      BY <2>4 DEF Gone, Through, AtRows
    <3> QED BY <3>1, <3>2
  <2>6. Upserting(f, origin.nodes, nodes, DOMAIN f.items)
    BY <2>3, <2>5 DEF UpsertInv
  <2>7. UniqueBy(nodes, f.label, keys) /\ UniqueBy(origin.nodes, f.label, keys)
    <3>1. f.label \in Labels /\ keys \in SUBSET Props
      BY <2>4, FieldShape DEF OneKeyed, IsField, TypesInv
    <3> QED BY <2>1, <3>1 DEF MutationInv, MergedInv, MergedBy
  <2>8. \A n : n \in found <=> n \in DOMAIN nodes /\ nodes[n].label = f.label /\ Has(nodes, n, f.items[i].match)
    BY DEF Labelled, Equals, Has
  <2>9. PICK one : found = {one}
    <3>1. PICK n \in DOMAIN nodes : nodes[n].label = f.label /\ Has(nodes, n, f.items[i].match)
      BY <2>6 DEF Upserting, Seen
    <3>2. \A m \in found : m = n
      BY <2>4, <2>7, <2>8, <3>1 DEF UniqueBy, OneKeyed, Has
    <3> QED BY <2>8, <3>1, <3>2
  <2>10. Cardinality(found) = 1
    BY <2>9, FS_Singleton
  <2>11. PICK last \in Nat : DOMAIN f.items = 1..last
    <3>1. PICK list, S : list = f.items /\ S = Range(list)
      OBVIOUS
    <3>2. list \in Seq(S)
      BY <2>4, <3>1, FieldShape DEF TypesInv
    <3> QED BY <3>1, <3>2
  <2>12. ASSUME NEW n \in found, NEW p \in Props \ DOMAIN f.items[i].match
         PROVE  nodes[n].props[p] = Upserted(f, i, p)
    <3>1. Leave(f, i, origin.nodes, DOMAIN f.items, p, nodes[n].props[p])
      BY <2>6, <2>8, <2>12 DEF Upserting
    <3> QED BY <2>4, <2>7, <2>11, <3>1, LeaveUpserted
  <2> QED BY <2>10, <2>12
<1> QED BY <1>1, <1>2, <1>3, Invariance, KindInvariance, CountInvariance, PTL DEF Spec
=============================================================================
