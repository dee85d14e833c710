------------------------------ MODULE MCMutations ------------------------------
(***************************************************************************)
(* Movies and actors, joined by one edge type that both types have a field *)
(* for, in opposite directions, and movies that follow movies.  Batches of *)
(* two items.                                                              *)
(***************************************************************************)
EXTENDS Mutations

MCLabels == {"Movie", "Actor"}
MCProps == {"name", "year"}

V(s) == Scalar(s)
Two == List(<<V("a"), V("b")>>)
Three == List(<<V("a"), V("b"), V("a")>>)

(* The lists, and the slices of them. *)
MCValues == {V("a"), V("b"), V("1"), V("2"), Two, Three, List(<<V("a")>>), List(<<>>)}

MCRelationships ==
  <<[from |-> "Movie", field |-> "actors", type |-> "ACTED_IN", to |-> "Actor", dir |-> "IN", edges |-> TRUE],
    [from |-> "Actor", field |-> "movies", type |-> "ACTED_IN", to |-> "Movie", dir |-> "OUT", edges |-> TRUE],
    [from |-> "Movie", field |-> "follows", type |-> "FOLLOWS", to |-> "Movie", dir |-> "OUT", edges |-> FALSE]>>

Name(v) == "name" :> V(v)
Year(v) == "year" :> V(v)
Role(v) == "role" :> V(v)

MovieNode(v, y) == [label |-> "Movie", props |-> Name(v) @@ Year(y)]
ActorNode(v) == [label |-> "Actor", props |-> Name(v) @@ ("year" :> Null)]

MCGraphs == {
  [nodes |-> <<MovieNode("a", "1"), ActorNode("a"), ActorNode("b"), ActorNode("b")>>,
   edges |-> [from |-> 2, to |-> 1, type |-> "ACTED_IN", copy |-> 1] :> V("1")
             @@ [from |-> 3, to |-> 1, type |-> "ACTED_IN", copy |-> 1] :> V("1")]}
-----------------------------------------------------------------------------
Is(p, op, v) == [tag |-> "is", prop |-> p, op |-> op, value |-> v]
Where(parts) == [written |-> TRUE, parts |-> parts]

NameIsA == Where(<<Is("name", "is", V("a"))>>)
NameIsB == Where(<<Is("name", "is", V("b"))>>)
NotNew == Where(<<Is("year", "not", V("2"))>>)
YearIs2 == Where(<<Is("year", "is", V("2"))>>)
Everything == Where(<<>>)
WithActorB == Where(<<[tag |-> "some", field |-> "actors", where |-> NameIsB]>>)
AOrNew == Where(<<[tag |-> "OR", wheres |-> <<WithActorB, YearIs2>>]>>)
NotA == Where(<<[tag |-> "NOT", where |-> NameIsA]>>)
NestedAnd == Where(<<[tag |-> "AND", wheres |-> <<NotNew, AOrNew>>],
                     [tag |-> "NOT", where |-> NameIsA],
                     Is("year", "isNull", FALSE)>>)
OnlyEmpty == Where(<<[tag |-> "OR", wheres |-> <<Everything>>]>>)
NotEmpty == Where(<<[tag |-> "NOT", where |-> OnlyEmpty], Is("name", "nin", List(<<V("b")>>)), Is("name", "in", Two)>>)
EmptyOrA == Where(<<[tag |-> "OR", wheres |-> <<>>], Is("name", "is", V("a"))>>)
BVariable == [NameIsB EXCEPT !.written = FALSE]
NotNull == Where(<<[tag |-> "NOT", where |-> Where(<<Is("year", "not", Null)>>)]>>)
In(list) == Where(<<Is("name", "in", list)>>)
NotIn(list) == Where(<<Is("name", "nin", list)>>)

MCWheres ==
  {NameIsA, NameIsB, YearIs2, NotNew, Everything, WithActorB, AOrNew, NotA, NestedAnd, NotEmpty,
   OnlyEmpty, EmptyOrA, BVariable, NotNull, NotNull.parts[1].where, In(Two), In(List(<<>>))}

(* A nin filter of three names, and what chunks make of it. *)
MCCutWheres == {NotIn(list) : list \in {Three, Two, List(<<V("a")>>), List(<<>>)}}
-----------------------------------------------------------------------------
MergeItem(v, created, matched) ==
  [match |-> Name(v), onCreate |-> Year(created), onMatch |-> matched]

(* A field whose selection has no list in its arguments. *)
Plainly(f) == f @@ [asked |-> {}]

MergeMovies(items) == Plainly([op |-> "merge", label |-> "Movie", items |-> items])
AB == <<MergeItem("a", "1", Year("2")), MergeItem("b", "1", Year("2")), MergeItem("b", "2", NoProps)>>
BBA == <<MergeItem("b", "1", NoProps), MergeItem("b", "2", Year("2")), MergeItem("a", "2", NoProps)>>

Pair(actor, movie, edge) == [from |-> Name(actor), to |-> Name(movie), edge |-> edge]
ConnectActorMovies(items) == Plainly([op |-> "connect", label |-> "Actor", field |-> "movies", items |-> items])
Pairs == <<Pair("a", "b", Role("1")), Pair("b", "b", NoProps), Pair("a", "b", Role("2"))>>

NestedList(op, name, items) == [op |-> op, field |-> name, listed |-> TRUE, items |-> items]
NestedObject(op, name, item) == [op |-> op, field |-> name, listed |-> FALSE, items |-> <<item>>]

CreateMovies(items) == Plainly([op |-> "create", label |-> "Movie", inline |-> TRUE, items |-> items])
NewMovie(v, nested) == [props |-> Name(v), nested |-> nested]

UpdateMovies(where, set, nested, inline) ==
  Plainly([op |-> "update", label |-> "Movie", where |-> where, set |-> set, nested |-> nested, inline |-> inline])
DeleteMovies(where) == Plainly([op |-> "delete", label |-> "Movie", where |-> where])

MCRequests == {
  <<MergeMovies(AB)>>,
  <<MergeMovies(BBA), ConnectActorMovies(Pairs)>>,
  <<CreateMovies(<<NewMovie("b", <<
      NestedList("create", "actors", <<[node |-> Name("b"), edge |-> Role("2")]>>),
      NestedList("connect", "actors", <<[where |-> Name("a"), edge |-> Role("1")],
                                        [where |-> Name("a")]>>)>>)>>)>>,
  <<CreateMovies(<<NewMovie("b", <<NestedObject("connect", "actors", [where |-> Name("a")])>>),
                   NewMovie("a", <<>>), NewMovie("b", <<>>)>>)>>,
  <<UpdateMovies(AOrNew, Year("2"), <<
      NestedList("disconnect", "actors", <<[where |-> Name("a")]>>),
      NestedList("update", "actors", <<[where |-> Name("b"), node |-> Year("1"), edge |-> Role("2")]>>),
      NestedList("connect", "actors", <<[where |-> Name("a")]>>),
      NestedList("delete", "actors", <<[where |-> Name("b")]>>)>>, TRUE),
    DeleteMovies(NotA)>>,
  \* One movie that the update is of may delete another, which then gets no actor.
  <<CreateMovies(<<NewMovie("b", <<NestedList("connect", "follows", <<[where |-> Name("a")]>>)>>)>>)>>,
  <<UpdateMovies(Everything, NoProps, <<
      NestedList("delete", "follows", <<[where |-> Name("a")]>>),
      NestedList("create", "actors", <<[node |-> Name("b")]>>)>>, TRUE)>>,
  <<MergeMovies(AB), DeleteMovies(EmptyOrA)>>,
  \* Split though no field has items to split.
  <<UpdateMovies(In(Two), "year" :> Three, <<>>, TRUE)>>,
  <<DeleteMovies(NotNull), [CreateMovies(<<NewMovie("b", <<>>)>>) EXCEPT !.asked = {3}]>>}

(* A where argument given as a variable, $where. *)
MCVariableRequests == {<<DeleteMovies(BVariable)>>, <<MergeMovies(AB)>>}

(* A nin filter that is split itself, and one beside items that are. *)
MCCutRequests == {<<DeleteMovies(NotIn(Three))>>, <<MergeMovies(AB), DeleteMovies(NotIn(List(<<V("a")>>)))>>}

(* The callers are alike. *)
CallersAlike == Permutations(Callers)
=============================================================================
