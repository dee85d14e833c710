----------------------------- MODULE MCTranslation -----------------------------
(***************************************************************************)
(* A small instance of Translation for TLC: one node type whose nodes      *)
(* relate to nodes of the type and have one @cypher field.                 *)
(***************************************************************************)
EXTENDS Translation

CONSTANTS movies, actors, v, w

MCWheres == {<<>>, <<Exists, w>>}

MCInputs == {<<v, w>>}

MCSearches == {<<w, v, v>>}

MCPages == {[first |-> 10, offset |-> 0], [first |-> 10, offset |-> 5]}

MCCypherCalls == [{<<"arg", "limit">>} -> {v, w}]
=============================================================================
