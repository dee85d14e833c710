------------------------------- MODULE Chunking -------------------------------
(***************************************************************************)
(* How Client.Execute splits the parameters of a bulk operation and puts   *)
(* the answers of the chunks together, and how ExecuteRawBatch splits its  *)
(* items.                                                                  *)
(*                                                                         *)
(* A Go value of type any is a record whose `kind' is what a type switch   *)
(* sees.  Parameter maps, and the maps in answers, are functions from      *)
(* names to values.  Go slices list[lo:hi], which count from 0, are        *)
(* SubSeq(list, lo + 1, hi).                                               *)
(***************************************************************************)
EXTENDS Integers, Sequences, FiniteSets, SequencesExt, TLC

List(s) == [kind |-> "list", items |-> s]
Number(k, n) == [kind |-> k, n |-> n]
Map(f) == [kind |-> "map", entries |-> f]
Scalar(v) == [kind |-> "other", value |-> v]
Nil == [kind |-> "nil"]

NoEntries == <<>>

ListKeys(params) == {k \in DOMAIN params : params[k].kind = "list"}

MaxLen(params) == Max({0} \cup {Len(params[k].items) : k \in ListKeys(params)})

CeilDiv(n, d) == (n + d - 1) \div d

(* Altered: the slice ends one element early. *)
SliceAt_Short(list, i, size) ==
  LET start == (i - 1) * size
  IN  IF start >= Len(list) THEN <<>>
      ELSE SubSeq(list, start + 1, Min({start + size - 1, Len(list)}))

(* The i-th slice of at most size elements; empty once the list is used up. *)
SliceAt(list, i, size) ==
  LET start == (i - 1) * size
  IN  IF start >= Len(list) THEN <<>>
      ELSE SubSeq(list, start + 1, Min({start + size, Len(list)}))

(* One map per chunk: every list is cut at the same offsets, the longest   *)
(* one decides how many chunks there are, and the rest is copied to each.  *)
(* No parameters at all (a nil map) is the empty map here: one chunk.      *)
ChunkParams(params, batchSize) ==
  IF MaxLen(params) <= batchSize
  THEN <<params>>
  ELSE [i \in 1..CeilDiv(MaxLen(params), batchSize) |->
         [k \in DOMAIN params |->
            IF k \in ListKeys(params)
            THEN List(SliceAt(params[k].items, i, batchSize))
            ELSE params[k]]]

Statement(query, params) == [query |-> query, params |-> params]

(* The same queries, all with the parameters of one chunk. *)
BuildChunkPlan(plan, params) ==
  [writes |-> [w \in DOMAIN plan.writes |-> Statement(plan.writes[w].query, params)],
   read   |-> Statement(plan.read.query, params)]

(* The plans Execute runs one after the other. *)
ChunkPlans(plan, batchSize) ==
  LET chunks == ChunkParams(plan.read.params, batchSize)
  IN  IF Len(chunks) = 1
      THEN <<plan>>
      ELSE [i \in DOMAIN chunks |-> BuildChunkPlan(plan, chunks[i])]

(* ExecuteRawBatch: one UNWIND statement per slice of the items. *)
RawBatchPlans(query, items, batchSize) ==
  [i \in 1..CeilDiv(Len(items), batchSize) |->
     [writes |-> <<>>,
      read   |-> Statement(query, [items |-> List(SliceAt(items, i, batchSize))])]]

-----------------------------------------------------------------------------
(* The data of an answer: the column "data" of its first record; no record,*)
(* no such column and a value that is no map all give the nil map.         *)
ExtractResultData(answer) ==
  IF answer.kind = "map" THEN answer.entries ELSE NoEntries

(* Lists are joined, numbers of one type added, otherwise the last wins.   *)
(* (Counts of answers stay far from the 64 bits the code has for them.)    *)
MergeLeaf(existing, incoming) ==
  CASE existing.kind = "list" /\ incoming.kind = "list" ->
         List(existing.items \o incoming.items)
    [] existing.kind \in {"int", "float"} /\ incoming.kind = existing.kind ->
         Number(existing.kind, existing.n + incoming.n)
    [] OTHER -> incoming

Maps(existing, incoming) == existing.kind = "map" /\ incoming.kind = "map"

(* mergeValue calls itself for the keys two maps share and keeps the       *)
(* others.                                                                 *)
MergeEntries(f, g, Merge(_, _)) ==
  [k \in DOMAIN f \cup DOMAIN g |->
     CASE k \in DOMAIN f \cap DOMAIN g -> Merge(f[k], g[k])
       [] k \notin DOMAIN g -> f[k]
       [] OTHER -> g[k]]

(* It is unrolled to the depth answers have: a field of `data' may be a    *)
(* connection, and that has a pageInfo.                                    *)
MergePageInfo(existing, incoming) ==
  IF Maps(existing, incoming)
  THEN Map(MergeEntries(existing.entries, incoming.entries, MergeLeaf))
  ELSE MergeLeaf(existing, incoming)

MergeValue(existing, incoming) ==
  IF Maps(existing, incoming)
  THEN Map(MergeEntries(existing.entries, incoming.entries, MergePageInfo))
  ELSE MergeLeaf(existing, incoming)

MergeData(data, more) == MergeEntries(data, more, MergeValue)

(* Altered: each chunk is joined to the first, not to what is joined so far. *)
AggregateResults_ToFirst(results) ==
  IF Len(results) <= 1 THEN FoldLeft(MergeData, NoEntries, results)
  ELSE MergeData(results[1], results[Len(results)])

(* The data of the chunks, joined field by field. *)
AggregateResults(results) ==
  LET upto[n \in 0..Len(results)] ==
        IF n = 0 THEN NoEntries ELSE MergeData(upto[n - 1], results[n])
  IN  upto[Len(results)]

=============================================================================
