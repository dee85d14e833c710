------------------------------ MODULE MCFalkorTx ------------------------------
(* Small instances of FalkorTx.  Goroutines and statements are             *)
(* interchangeable.                                                        *)
EXTENDS FalkorTx, TLC

Symmetry == Permutations(Threads) \cup Permutations(Stmts)
=============================================================================
