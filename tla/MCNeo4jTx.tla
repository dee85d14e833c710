------------------------------ MODULE MCNeo4jTx ------------------------------
(* Small instances of Neo4jTx.  Goroutines and statements are              *)
(* interchangeable.                                                        *)
EXTENDS Neo4jTx, TLC

Symmetry == Permutations(Threads) \cup Permutations(Stmts)
=============================================================================
