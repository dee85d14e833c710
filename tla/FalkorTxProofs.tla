---------------------------- MODULE FalkorTxProofs ----------------------------
(* Theorems about FalkorTx, for any set of goroutines and of statements.   *)
EXTENDS FalkorTx, TLAPS

(* BeginTx returns a transaction that satisfies the invariant.             *)
LEMMA InitInd == Init => IndInv
<1> SUFFICES ASSUME Init PROVE IndInv
  OBVIOUS
<1> USE DEF Init
<1>1. TypeOK
  <2>1. /\ pc \in [Threads -> Points]
        /\ arg \in [Threads -> Stmts \cup {NoStmt}]
        /\ ret \in [Threads -> {"none", "nil", "error"}]
        /\ applied \in [Stmts -> Nat]
        /\ appliedBy \in [Threads -> Nat]
    BY DEF Points
  <2>2. lost \in 0..MaxLost
    BY FalkorTxAssumption
  <2> QED BY <2>1, <2>2 DEF TypeOK
<1>2. ExecuteHasStatement /\ MutexHeldByQuery /\ BufferIsAccepted /\ SentStatementIsStable
  BY FalkorTxAssumption DEF ExecuteHasStatement, MutexHeldByQuery, BufferIsAccepted, SentStatementIsStable
<1>3. UnacknowledgedSoFar /\ OncePerGoroutine
  BY DEF UnacknowledgedSoFar, OncePerGoroutine
<1> QED BY <1>1, <1>2, <1>3 DEF IndInv

(* One step of one goroutine, or of the driver, preserves the invariant.   *)
LEMMA StepInd == IndInv /\ [Next]_vars => IndInv'
<1> SUFFICES ASSUME IndInv, [Next]_vars PROVE IndInv'
  OBVIOUS
<1> USE DEF IndInv, TypeOK, Points, ExecuteHasStatement, MutexHeldByQuery,
            BufferIsAccepted, SentStatementIsStable, UnacknowledgedSoFar, OncePerGoroutine,
            txVars, dbVars, Goto, Return, IsCommitted, Settle, DatabaseRuns
<1>1. CASE UNCHANGED vars
  BY <1>1 DEF vars
<1>2. CASE DriverCloses
  BY <1>2 DEF DriverCloses
<1>3. ASSUME NEW t \in Threads, Start(t) PROVE IndInv'
  <2>1. CASE ExecuteRefused(t)
    BY <2>1 DEF ExecuteRefused
  <2>2. ASSUME NEW s \in Stmts, ExecuteCheck(t, s) PROVE IndInv'
    BY <2>2 DEF ExecuteCheck
  <2>3. CASE CommitAgain(t)
    BY <2>3 DEF CommitAgain
  <2>4. CASE CommitCheck(t)
    BY <2>4 DEF CommitCheck
  <2>5. CASE RollbackAgain(t)
    BY <2>5 DEF RollbackAgain
  <2>6. CASE RollbackCheck(t)
    BY <2>6 DEF RollbackCheck
  <2> QED BY <1>3, <2>1, <2>2, <2>3, <2>4, <2>5, <2>6 DEF Start
<1>4. ASSUME NEW t \in Threads, Continue(t) PROVE IndInv'
  <2>1. CASE ExecuteSecond(t)
    BY <2>1 DEF ExecuteSecond
  <2>2. CASE ExecuteBuffer(t)
    BY <2>2 DEF ExecuteBuffer
  <2>3. CASE CommitEmpty(t)
    <3>1. TypeOK'
      BY <2>3, FalkorTxAssumption DEF CommitEmpty
    <3>2. ExecuteHasStatement' /\ MutexHeldByQuery' /\ SentStatementIsStable'
      BY <2>3, FalkorTxAssumption DEF CommitEmpty
    <3>3. BufferIsAccepted'
      BY <2>3, FalkorTxAssumption DEF CommitEmpty
    <3>4. UnacknowledgedSoFar' /\ OncePerGoroutine'
      BY <2>3, FalkorTxAssumption DEF CommitEmpty
    <3> QED BY <3>1, <3>2, <3>3, <3>4
  <2>4. CASE CommitSend(t)
    <3>1. TypeOK'
      BY <2>4, FalkorTxAssumption DEF CommitSend
    <3>2. ExecuteHasStatement' /\ MutexHeldByQuery' /\ SentStatementIsStable'
      BY <2>4, FalkorTxAssumption DEF CommitSend
    <3>3. BufferIsAccepted'
      BY <2>4, FalkorTxAssumption DEF CommitSend
    <3>4. UnacknowledgedSoFar' /\ OncePerGoroutine'
      BY <2>4, FalkorTxAssumption DEF CommitSend
    <3> QED BY <3>1, <3>2, <3>3, <3>4
  <2>5. CASE CommitApplied(t)
    <3>1. TypeOK'
      BY <2>5, FalkorTxAssumption DEF CommitApplied
    <3>2. ExecuteHasStatement' /\ MutexHeldByQuery' /\ SentStatementIsStable'
      BY <2>5, FalkorTxAssumption DEF CommitApplied
    <3>3. BufferIsAccepted'
      BY <2>5, FalkorTxAssumption DEF CommitApplied
    <3>4. UnacknowledgedSoFar' /\ OncePerGoroutine'
      BY <2>5, FalkorTxAssumption DEF CommitApplied
    <3> QED BY <3>1, <3>2, <3>3, <3>4
  <2>6. CASE CommitFailed(t)
    <3>1. TypeOK'
      BY <2>6, FalkorTxAssumption DEF CommitFailed
    <3>2. ExecuteHasStatement' /\ MutexHeldByQuery' /\ SentStatementIsStable'
      BY <2>6, FalkorTxAssumption DEF CommitFailed
    <3>3. BufferIsAccepted'
      BY <2>6, FalkorTxAssumption DEF CommitFailed
    <3>4. UnacknowledgedSoFar' /\ OncePerGoroutine'
      BY <2>6, FalkorTxAssumption DEF CommitFailed
    <3> QED BY <3>1, <3>2, <3>3, <3>4
  <2>7. CASE CommitReplyLost(t)
    <3>1. TypeOK'
      BY <2>7, FalkorTxAssumption DEF CommitReplyLost
    <3>2. ExecuteHasStatement' /\ MutexHeldByQuery' /\ SentStatementIsStable'
      BY <2>7, FalkorTxAssumption DEF CommitReplyLost
    <3>3. BufferIsAccepted'
      BY <2>7, FalkorTxAssumption DEF CommitReplyLost
    <3>4. UnacknowledgedSoFar' /\ OncePerGoroutine'
      BY <2>7, FalkorTxAssumption DEF CommitReplyLost
    <3> QED BY <3>1, <3>2, <3>3, <3>4
  <2>8. CASE RollbackDiscard(t)
    <3>1. TypeOK'
      BY <2>8, FalkorTxAssumption DEF RollbackDiscard
    <3>2. ExecuteHasStatement' /\ MutexHeldByQuery' /\ SentStatementIsStable'
      BY <2>8, FalkorTxAssumption DEF RollbackDiscard
    <3>3. BufferIsAccepted'
      BY <2>8, FalkorTxAssumption DEF RollbackDiscard
    <3>4. UnacknowledgedSoFar' /\ OncePerGoroutine'
      BY <2>8, FalkorTxAssumption DEF RollbackDiscard
    <3> QED BY <3>1, <3>2, <3>3, <3>4
  <2> QED BY <1>4, <2>1, <2>2, <2>3, <2>4, <2>5, <2>6, <2>7, <2>8 DEF Continue
<1> QED BY <1>1, <1>2, <1>3, <1>4 DEF Next

(* Every state any interleaving of the methods reaches satisfies IndInv.   *)
THEOREM Invariance == Spec => []IndInv
BY InitInd, StepInd, PTL DEF Spec

-----------------------------------------------------------------------------
(* Every field, program counter and history variable keeps its type.       *)
THEOREM TypeCorrect == Spec => []TypeOK
<1>1. IndInv => TypeOK
  BY DEF IndInv
<1> QED BY <1>1, Invariance, PTL

(* Whatever calls race, Execute accepts one statement, and the buffer      *)
(* never holds another.                                                    *)
THEOREM AcceptsOneStatement == Spec => []OneStatement
<1>1. IndInv => OneStatement
  BY DEF IndInv, BufferIsAccepted, OneStatement
<1> QED BY <1>1, Invariance, PTL

(* While graph.Query runs for a Commit the buffered statement stays.       *)
THEOREM SentStatementStays == Spec => []SentStatementIsStable
<1>1. IndInv => SentStatementIsStable
  BY DEF IndInv
<1> QED BY <1>1, Invariance, PTL

(* The commits of one goroutine run the statement once, plus once for each *)
(* reply lost, for any number of goroutines.                               *)
THEOREM AppliedOncePerGoroutine == Spec => []OncePerGoroutine
<1>1. IndInv => OncePerGoroutine
  BY DEF IndInv
<1> QED BY <1>1, Invariance, PTL

-----------------------------------------------------------------------------
(* Calls that do not overlap. *)

(* Calls one after the other are calls. *)
LEMMA SerialStepIsStep == SerialNext => Next
BY DEF SerialNext, Next, AllIdle

(* BeginTx satisfies the invariant of calls one after the other. *)
LEMMA InitSerial == Init => SerialInv
BY InitInd DEF Init, SerialInv

(* The three clauses about program counters, for a goroutine that moves    *)
(* from one point of a method to another or out of it.                     *)
LEMMA SerialStep ==
  ASSUME MaxLost = 0, SerialInv, [SerialNext]_vars
  PROVE  SerialInv'
<1>1. IndInv'
  BY SerialStepIsStep, StepInd DEF SerialInv
<1> USE DEF SerialInv, IndInv, TypeOK, Points, BufferIsAccepted, SentStatementIsStable,
            ExecuteHasStatement, txVars, dbVars, Goto, Return, IsCommitted, Settle, DatabaseRuns
<1>2. CASE UNCHANGED vars
  BY <1>1, <1>2 DEF vars
<1>3. CASE DriverCloses
  BY <1>1, <1>3 DEF DriverCloses
<1>4. ASSUME NEW t \in Threads, AllIdle, Start(t) PROVE SerialInv'
  <2>1. CASE ExecuteRefused(t)
    BY <1>1, <2>1 DEF ExecuteRefused
  <2>2. ASSUME NEW s \in Stmts, ExecuteCheck(t, s) PROVE SerialInv'
    BY <1>1, <1>4, <2>2 DEF ExecuteCheck, AllIdle
  <2>3. CASE CommitAgain(t)
    BY <1>1, <2>3 DEF CommitAgain
  <2>4. CASE CommitCheck(t)
    BY <1>1, <1>4, <2>4 DEF CommitCheck, AllIdle
  <2>5. CASE RollbackAgain(t)
    BY <1>1, <2>5 DEF RollbackAgain
  <2>6. CASE RollbackCheck(t)
    BY <1>1, <1>4, <2>6 DEF RollbackCheck, AllIdle
  <2> QED BY <1>4, <2>1, <2>2, <2>3, <2>4, <2>5, <2>6 DEF Start
<1>5. ASSUME NEW t \in Threads, Continue(t) PROVE SerialInv'
  <2>1. CASE ExecuteSecond(t)
    BY <1>1, <2>1 DEF ExecuteSecond
  <2>2. CASE ExecuteBuffer(t)
    BY <1>1, <2>2, FalkorTxAssumption DEF ExecuteBuffer
  <2>3. CASE CommitEmpty(t)
    BY <1>1, <2>3 DEF CommitEmpty
  <2>4. CASE CommitSend(t)
    BY <1>1, <2>4 DEF CommitSend
  <2>5. CASE CommitApplied(t)
    BY <1>1, <2>5 DEF CommitApplied
  <2>6. CASE CommitFailed(t)
    BY <1>1, <2>6 DEF CommitFailed
  <2>7. CASE CommitReplyLost(t)
    BY <2>7 DEF CommitReplyLost
  <2>8. CASE RollbackDiscard(t)
    BY <1>1, <2>8 DEF RollbackDiscard
  <2> QED BY <1>5, <2>1, <2>2, <2>3, <2>4, <2>5, <2>6, <2>7, <2>8 DEF Continue
<1> QED BY <1>2, <1>3, <1>4, <1>5 DEF SerialNext

(* Every step maps to a step of the contract or to a stutter.              *)
LEMMA SerialStepRefines ==
  ASSUME MaxLost = 0, SerialInv, [SerialNext]_vars
  PROVE  [Contract!Next]_(Contract!vars)
<1> USE DEF SerialInv, IndInv, TypeOK, BufferIsAccepted, ExecuteHasStatement,
            txVars, dbVars, Goto, Return, IsCommitted, Settle, DatabaseRuns,
            Contract!Next, Contract!vars
<1>1. CASE UNCHANGED vars
  BY <1>1 DEF vars
<1>2. CASE DriverCloses
  BY <1>2 DEF DriverCloses
<1>3. ASSUME NEW t \in Threads, Start(t) PROVE [Contract!Next]_(Contract!vars)
  BY <1>3 DEF Start, ExecuteRefused, ExecuteCheck, CommitAgain, CommitCheck,
              RollbackAgain, RollbackCheck
<1>4. ASSUME NEW t \in Threads, Continue(t) PROVE [Contract!Next]_(Contract!vars)
  <2>1. CASE ExecuteSecond(t)
    BY <2>1 DEF ExecuteSecond
  <2>2. CASE ExecuteBuffer(t)
    <3>1. Contract!Accept(arg[t])
      BY <2>2 DEF ExecuteBuffer, Contract!Accept
    <3> QED BY <3>1, <2>2 DEF ExecuteBuffer
  <2>3. CASE CommitEmpty(t)
    <3>1. accepted = {} /\ outcome = "open"
      BY <2>3 DEF CommitEmpty
    <3> QED BY <3>1, <2>3 DEF CommitEmpty, Contract!Commit
  <2>4. CASE CommitSend(t)
    BY <2>4 DEF CommitSend
  <2>5. CASE CommitApplied(t)
    <3>1. accepted = {stmt} /\ stmt \in Stmts /\ outcome = "open"
      BY <2>5, FalkorTxAssumption DEF CommitApplied, SentStatementIsStable
    <3>2. applied' = [s \in Stmts |-> IF s \in accepted THEN 1 ELSE 0]
      <4>1. applied = [s \in Stmts |-> 0]
        BY <3>1
      <4>2. applied' = [applied EXCEPT ![stmt] = @ + 1]
        BY <2>5 DEF CommitApplied
      <4>3. \A s \in Stmts : applied'[s] = IF s = stmt THEN 1 ELSE 0
        BY <4>1, <4>2
      <4> QED BY <3>1, <4>1, <4>2, <4>3
    <3> QED BY <3>1, <3>2, <2>5 DEF CommitApplied, Contract!Commit
  <2>6. CASE CommitFailed(t)
    BY <2>6 DEF CommitFailed
  <2>7. CASE CommitReplyLost(t)
    BY <2>7 DEF CommitReplyLost
  <2>8. CASE RollbackDiscard(t)
    <3>1. Contract!Rollback
      BY <2>8 DEF RollbackDiscard, Contract!Rollback
    <3> QED BY <3>1
  <2> QED BY <1>4, <2>1, <2>2, <2>3, <2>4, <2>5, <2>6, <2>7, <2>8 DEF Continue
<1> QED BY <1>1, <1>2, <1>3, <1>4 DEF SerialNext

(* Calls that do not overlap, and replies that arrive: the FalkorDB        *)
(* transaction is the transaction driver.Transaction promises, whatever    *)
(* goroutines make the calls.                                              *)
THEOREM SerialImplementsContract ==
  ASSUME MaxLost = 0
  PROVE  SerialSpec => ImplementsContract
<1>1. Init => Contract!Init
  BY DEF Init, Contract!Init
<1>2. SerialInv /\ [SerialNext]_vars => SerialInv'
  BY SerialStep
<1>3. SerialInv /\ [SerialNext]_vars => [Contract!Next]_(Contract!vars)
  BY SerialStepRefines
<1> QED BY <1>1, <1>2, <1>3, InitSerial, PTL DEF SerialSpec, Contract!Spec, ImplementsContract

=============================================================================
