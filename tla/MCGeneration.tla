------------------------------ MODULE MCGeneration ------------------------------
(***************************************************************************)
(* Movies and actors: plain; with vectors and a custom scalar; with the    *)
(* vector indexes renamed; with an enum; with two vectors on one type.     *)
(***************************************************************************)
EXTENDS Generation

MCCapitalize(s) == CASE s = "actors" -> "Actors" [] s = "movies" -> "Movies"
MCPluralLower(s) == CASE s = "Movie" -> "movies" [] s = "Actor" -> "actors"
MCPluralCapitalized(s) == CASE s = "Movie" -> "Movies" [] s = "Actor" -> "Actors"

Scalar(name, type) == [name |-> name, type |-> type, args |-> <<>>, on |-> <<>>]
Relationship(name, node, direction) ==
  [name |-> name, type |-> Required(ListOf(node)), args |-> <<>>,
   on |-> "relationship" :> [type |-> "ACTED_IN", direction |-> direction, properties |-> "ActedIn"]]
Vector(name, index) ==
  [name |-> name, type |-> Required(ListOf("Float")), args |-> <<>>,
   on |-> "vector" :> [indexName |-> index, dimensions |-> 3]]
Computed(name, type, args) ==
  [name |-> name, type |-> type, args |-> args, on |-> "cypher" :> [statement |-> "RETURN 1"]]

ID == Scalar("id", Required(Ref("ID")))
NodeType(fields) == [directives |-> {"node"}, fields |-> fields]
ActedIn == [directives |-> {"relationshipProperties"}, fields |-> <<Scalar("role", Required(Ref("String")))>>]

Document(movie, actor, enums, scalars) ==
  [types |-> "Movie" :> NodeType(<<ID, Relationship("actors", "Actor", "IN")>> \o movie)
             @@ "Actor" :> NodeType(<<ID>> \o actor)
             @@ "ActedIn" :> ActedIn,
   enums |-> enums, scalars |-> scalars]

Base == <<Scalar("title", Required(Ref("String"))), Scalar("tags", ListOf("String")),
          Computed("rating", Ref("Float"), <<Scalar("scale", Ref("Int"))>>)>>

Vectors(movie) ==
  Document(Base \o <<Scalar("released", Ref("DateTime")), Vector("embedding", movie)>>,
           <<Relationship("movies", "Movie", "OUT"), Vector("face", "actor_index")>>, {}, {"DateTime"})
WithEnum == Document(Base \o <<Scalar("genre", Ref("Genre"))>>, <<>>, {"Genre"}, {})
Plain == Document(Base, <<>>, {}, {})
TwoVectors == Document(<<>>, <<Vector("face", "a"), Vector("voice", "b")>>, {}, {})

MCDocuments ==
  [plain |-> Plain, vectors |-> Vectors("movie_index"), renamed |-> Vectors("film_index"),
   enum |-> WithEnum, two |-> TwoVectors]

(* Processes are alike. *)
ProgramsAlike == Permutations(Programs)
=============================================================================
