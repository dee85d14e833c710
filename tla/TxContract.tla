------------------------------ MODULE TxContract ------------------------------
(***************************************************************************)
(* What driver.Transaction promises its caller: the statements the         *)
(* transaction accepted reach the database together, exactly once, when it *)
(* commits, and not at all when it is rolled back.  A transaction ends     *)
(* once; afterwards it accepts nothing and changes nothing.                *)
(***************************************************************************)
EXTENDS Naturals

CONSTANT Stmts  \* the statements callers may hand to Execute

VARIABLES
  status,    \* "open", "committed" or "rolledback"
  accepted,  \* the statements for which Execute returned no error
  applied    \* how many times the database has run each statement

vars == <<status, accepted, applied>>

TypeOK ==
  /\ status \in {"open", "committed", "rolledback"}
  /\ accepted \subseteq Stmts
  /\ applied \in [Stmts -> Nat]

Init ==
  /\ status = "open"
  /\ accepted = {}
  /\ applied = [s \in Stmts |-> 0]

(* Execute returns no error: the statement belongs to the open transaction. *)
Accept(s) ==
  /\ status = "open"
  /\ accepted' = accepted \cup {s}
  /\ UNCHANGED <<status, applied>>

(* Commit: "either all succeed", in one step. *)
Commit ==
  /\ status = "open"
  /\ status' = "committed"
  /\ applied' = [s \in Stmts |-> IF s \in accepted THEN 1 ELSE 0]
  /\ UNCHANGED accepted

(* Rollback: "or all are rolled back". *)
Rollback ==
  /\ status = "open"
  /\ status' = "rolledback"
  /\ UNCHANGED <<accepted, applied>>

Next ==
  \/ \E s \in Stmts : Accept(s)
  \/ Commit
  \/ Rollback

Spec == Init /\ [][Next]_vars

=============================================================================
