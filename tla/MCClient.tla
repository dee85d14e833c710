------------------------------- MODULE MCClient -------------------------------
(***************************************************************************)
(* Small requests for Client.  With a batch size of 2, a list of 2 is the  *)
(* boundary that needs one chunk, 3 and 5 leave a short last chunk, and    *)
(* the shorter list of Merge(3, 1) runs out before the longer one.         *)
(***************************************************************************)
EXTENDS Client

CONSTANTS c1, k1, k2

OneCaller == {c1}
OneCloser == {k1}
TwoClosers == {k1, k2}
OneAndOne == OneCaller \cup OneCloser
OneAndTwo == OneCaller \cup TwoClosers

ListOf(n) == List([i \in 1..n |-> i])

Request(mode, itemwise, writes, read, params) ==
  [mode |-> mode, itemwise |-> itemwise,
   plan |-> [writes |-> [w \in DOMAIN writes |-> Statement(writes[w], params)],
             read |-> Statement(read, params)]]

Create(n) ==
  Request("write", TRUE, <<>>, "create", ("input" :> ListOf(n)) @@ ("limit" :> Scalar(7)))

(* mergeMovies and connectMovieActors in one mutation: a FOREACH write, an *)
(* UNWIND write, and the statement that reads.                             *)
Merge(n, m) ==
  Request("write", TRUE, <<"foreach", "unwind">>, "merged",
          ("match" :> ListOf(n)) @@ ("edges" :> ListOf(m)))

(* An update that sets a list-valued property. *)
UpdateTags(n) ==
  Request("write", FALSE, <<>>, "update", "tags" :> ListOf(n))

(* Queries with a filter id_in or id_nin. *)
Including(n) ==
  Request("read", FALSE, <<>>, "connection", ("ids" :> ListOf(n)) @@ ("first" :> Scalar(10)))

Excluding(n) ==
  Request("read", FALSE, <<>>, "others", "ids" :> ListOf(n))

Batch(n, size) == [query |-> "unwind", items |-> [i \in 1..n |-> i], size |-> size]

(* What the database returns: the nodes it created or matched, their       *)
(* number, or, of four stored movies, those the filter lets through.       *)
Connection(nodes) ==
  Map(("edges" :> List(nodes)) @@ ("totalCount" :> Number("int", Len(nodes)))
        @@ ("pageInfo" :> Map("hasNextPage" :> Scalar(FALSE))))

AnswerTo(stmt) ==
  LET p == stmt.params
  IN  CASE stmt.query = "create" -> Map("createMovies" :> p["input"])
        [] stmt.query = "merged" ->
             Map(("mergeMovies" :> p["match"])
                   @@ ("connectMovieActors" :> Number("int", Len(p["edges"].items))))
        [] stmt.query = "update" -> Map("updateMovies" :> List(<<p["tags"]>>))
        [] stmt.query = "connection" -> Map("moviesConnection" :> Connection(p["ids"].items))
        [] stmt.query = "others" ->
             Map("movies" :> List(SelectSeq(<<1, 2, 3, 4>>,
                                            LAMBDA m : m \notin Range(p["ids"].items))))
        [] OTHER -> Nil

MixedOperations == {Create(2), Create(5), Merge(3, 1), UpdateTags(3), Including(3)}
Queries == {Excluding(2), Excluding(3)}
RawQueryOfThree == {Statement("raw", "input" :> ListOf(3))}
SmallBatches == {Batch(4, 2), Batch(3, 0)}
None == {}

ASSUME AnswersAssumption == AnswersAddUp

=============================================================================
