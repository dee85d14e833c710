---------------------------- MODULE Neo4jTxProofs ----------------------------
(* Theorems about Neo4jTx, for any set of goroutines and of statements.    *)
EXTENDS Neo4jTx, TLAPS

(* BeginTx returns a transaction that satisfies the invariant.             *)
LEMMA InitInd == Init => IndInv
<1> SUFFICES ASSUME Init PROVE IndInv
  OBVIOUS
<1> USE DEF Init
<1>1. TypeOK
  <2>1. /\ pc \in [Threads -> Points]
        /\ arg \in [Threads -> Stmts \cup {NoStmt}]
        /\ ret \in [Threads -> {"none", "nil", "error"}]
        /\ applied \in [Stmts -> Nat]
    BY DEF Points
  <2>2. lost \in 0..MaxLost
    BY Neo4jTxAssumption
  <2> QED BY <2>1, <2>2 DEF TypeOK, Ended
<1>2. RunHasStatement /\ AppliedAtCommit /\ EndIsKnown
  BY DEF RunHasStatement, AppliedAtCommit, EndIsKnown
<1>3. OneClosesSession /\ SessionClosedAfterEnd
  BY DEF OneClosesSession, SessionClosedAfterEnd, Closing, Ended
<1> QED BY <1>1, <1>2, <1>3 DEF IndInv

(* A step of one goroutine preserves the invariant. *)
LEMMA StepInd == IndInv /\ [Next]_vars => IndInv'
<1> SUFFICES ASSUME IndInv, [Next]_vars PROVE IndInv'
  OBVIOUS
<1> USE DEF IndInv, TypeOK, Points, Ended, RunHasStatement, AppliedAtCommit, EndIsKnown,
            OneClosesSession, SessionClosedAfterEnd, Closing, dbVars, history, Goto, Return,
            ServerCommits
<1>1. CASE UNCHANGED vars
  BY <1>1 DEF vars
<1>2. ASSUME NEW t \in Threads, Start(t) PROVE IndInv'
  <2>1. CASE ExecuteRefused(t)
    BY <2>1 DEF ExecuteRefused
  <2>2. ASSUME NEW s \in Stmts, ExecuteCheck(t, s) PROVE IndInv'
    BY <2>2 DEF ExecuteCheck
  <2>3. CASE CommitAgain(t)
    BY <2>3 DEF CommitAgain
  <2>4. CASE CommitCheck(t)
    BY <2>4 DEF CommitCheck
  <2>5. CASE RollbackAgain(t)
    BY <2>5 DEF RollbackAgain
  <2>6. CASE RollbackCheck(t)
    BY <2>6 DEF RollbackCheck
  <2> QED BY <1>2, <2>1, <2>2, <2>3, <2>4, <2>5, <2>6 DEF Start
<1>3. ASSUME NEW t \in Threads, Continue(t) PROVE IndInv'
  <2>1. CASE RunOK(t)
    BY <2>1 DEF RunOK
  <2>2. CASE RunError(t)
    BY <2>2 DEF RunError
  <2>3. CASE TxCommitOK(t)
    BY <2>3 DEF TxCommitOK
  <2>4. CASE TxCommitError(t)
    BY <2>4 DEF TxCommitError
  <2>5. CASE TxCommitReplyLost(t)
    BY <2>5, Neo4jTxAssumption DEF TxCommitReplyLost
  <2>6. CASE CommitMark(t)
    BY <2>6 DEF CommitMark
  <2>7. CASE TxRollbackOK(t)
    BY <2>7 DEF TxRollbackOK
  <2>8. CASE TxRollbackError(t)
    BY <2>8 DEF TxRollbackError
  <2>9. CASE SessionClose(t)
    BY <2>9 DEF SessionClose
  <2> QED BY <1>3, <2>1, <2>2, <2>3, <2>4, <2>5, <2>6, <2>7, <2>8, <2>9 DEF Continue
<1> QED BY <1>1, <1>2, <1>3 DEF Next

(* Every state any interleaving of the methods reaches satisfies IndInv.   *)
THEOREM Invariance == Spec => []IndInv
BY InitInd, StepInd, PTL DEF Spec

-----------------------------------------------------------------------------
(* Every field, program counter and history variable keeps its type.       *)
THEOREM TypeCorrect == Spec => []TypeOK
<1>1. IndInv => TypeOK
  BY DEF IndInv
<1> QED BY <1>1, Invariance, PTL

(* Once Rollback is a no-op and Execute an error, the database has         *)
(* committed, whichever calls raced for it.                                *)
THEOREM FlagIsCommit == Spec => []FlagMeansCommitted
<1>1. IndInv => FlagMeansCommitted
  BY DEF IndInv, EndIsKnown, FlagMeansCommitted
<1> QED BY <1>1, Invariance, PTL

(* The session is closed once, by the goroutine whose call ended the       *)
(* transaction, and never before it ended.                                 *)
THEOREM SessionClosedOnce == Spec => []SessionClosedAfterEnd
<1>1. IndInv => SessionClosedAfterEnd
  BY DEF IndInv
<1> QED BY <1>1, Invariance, PTL

(* When no call is under way, an ended transaction has released its        *)
(* session unless tx.Commit or tx.Rollback reported an error.              *)
THEOREM SessionLeaks == Spec => []SessionLeaksOnlyOnError
<1>1. IndInv => SessionLeaksOnlyOnError
  BY DEF IndInv, OneClosesSession, Closing, AllIdle, SessionLeaksOnlyOnError
<1> QED BY <1>1, Invariance, PTL

(* After a Rollback that worked nothing is applied, lost replies included. *)
THEOREM RolledBackIsEmpty == Spec => []RollbackLeavesNothing
<1>1. IndInv => RollbackLeavesNothing
  BY DEF IndInv, EndIsKnown, AppliedAtCommit, RollbackLeavesNothing
<1> QED BY <1>1, Invariance, PTL

-----------------------------------------------------------------------------
(* The refinement. *)

(* BeginTx opens a transaction of the contract. *)
LEMMA InitRefines == Init => Contract!Init
BY DEF Init, Contract!Init, Ended

(* What a commit by the server does is the contract's Commit. *)
LEMMA CommitRefines ==
  ASSUME IndInv, ServerCommits, UNCHANGED accepted
  PROVE  Contract!Commit
<1> USE DEF ServerCommits, Ended
<1>1. applied = [s \in Stmts |-> 0]
  BY DEF IndInv, AppliedAtCommit
<1>2. applied' = [s \in Stmts |-> IF s \in accepted THEN 1 ELSE 0]
  BY <1>1
<1> QED BY <1>2 DEF Contract!Commit

(* Every step maps to a step of the contract or to a stutter: the check of *)
(* `committed' may be stale, the underlying transaction decides.           *)
LEMMA StepRefines ==
  ASSUME IndInv, [Next]_vars
  PROVE  [Contract!Next]_(Contract!vars)
<1> USE DEF Ended, dbVars, history, Goto, Return, Contract!vars
<1>1. CASE UNCHANGED vars
  BY <1>1 DEF vars
<1>2. ASSUME NEW t \in Threads, Start(t) PROVE UNCHANGED Contract!vars
  BY <1>2 DEF Start, ExecuteRefused, ExecuteCheck, CommitAgain, CommitCheck, RollbackAgain,
              RollbackCheck
<1>3. ASSUME NEW t \in Threads, Continue(t) PROVE [Contract!Next]_(Contract!vars)
  <2>1. CASE RunOK(t)
    <3>1. arg[t] \in Stmts
      BY <2>1 DEF RunOK, IndInv, RunHasStatement
    <3>2. Contract!Accept(arg[t])
      BY <2>1 DEF RunOK, Contract!Accept
    <3> QED BY <3>1, <3>2 DEF Contract!Next
  <2>2. CASE RunError(t)
    BY <2>2 DEF RunError
  <2>3. CASE TxCommitOK(t)
    BY <2>3, CommitRefines DEF TxCommitOK, Contract!Next
  <2>4. CASE TxCommitError(t)
    BY <2>4 DEF TxCommitError, Contract!Next, Contract!Rollback
  <2>5. CASE TxCommitReplyLost(t)
    BY <2>5, CommitRefines DEF TxCommitReplyLost, Contract!Next
  <2>6. CASE CommitMark(t)
    BY <2>6 DEF CommitMark
  <2>7. CASE TxRollbackOK(t)
    BY <2>7 DEF TxRollbackOK, Contract!Next, Contract!Rollback
  <2>8. CASE TxRollbackError(t)
    BY <2>8 DEF TxRollbackError, Contract!Next, Contract!Rollback
  <2>9. CASE SessionClose(t)
    BY <2>9 DEF SessionClose
  <2> QED BY <1>3, <2>1, <2>2, <2>3, <2>4, <2>5, <2>6, <2>7, <2>8, <2>9 DEF Continue
<1> QED BY <1>1, <1>2, <1>3 DEF Next

(* Shared by any number of goroutines, with commits whose reply is lost,   *)
(* the Neo4j transaction is the one driver.Transaction promises.           *)
THEOREM Refinement == Spec => ImplementsContract
<1>1. Spec => Contract!Init /\ [][Contract!Next]_(Contract!vars)
  BY InitRefines, StepRefines, Invariance, PTL DEF Spec
<1> QED BY <1>1 DEF ImplementsContract, Contract!Spec
=============================================================================
