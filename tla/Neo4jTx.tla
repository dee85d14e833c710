------------------------------- MODULE Neo4jTx -------------------------------
(***************************************************************************)
(* The Neo4j transaction, neo4jTransaction: a flag and a session around an *)
(* explicit transaction of the neo4j driver.                               *)
(*                                                                         *)
(* Every method reads `committed' under the mutex, releases it, and then   *)
(* calls the underlying transaction; Commit takes the mutex again to set   *)
(* the flag and closes the session after that.  No method holds the mutex  *)
(* across a call, so each critical section is part of one action.          *)
(*                                                                         *)
(* The underlying transaction (transactionRunner) is external: it runs     *)
(* statements while active, ends once, and returns an error for every call *)
(* after it has ended.                                                     *)
(***************************************************************************)
EXTENDS Naturals

CONSTANTS
  Threads,   \* goroutines that share the transaction
  Stmts,     \* statements they may pass to Execute, one for each call that works
  NoStmt,    \* no pending statement
  MaxLost    \* bound on commits the server made and whose reply was lost

ASSUME Neo4jTxAssumption ==
  /\ NoStmt \notin Stmts
  /\ MaxLost \in Nat

VARIABLES
  \* the fields of neo4jTransaction
  committed,
  sessionCloses,  \* how often session.Close was called
  \* the goroutines
  pc, arg, ret,
  \* the underlying transaction and the database
  utx,            \* "active", "failed" by a statement, "committed", "rolledback"
  applied,        \* how many times the database has run each statement for good
  lost,
  \* history
  accepted,       \* statements for which Execute returned no error
  endedBy,        \* which of Commit and Rollback ended it without an error
  endError        \* tx.Commit or tx.Rollback has returned an error

dbVars == <<utx, applied, lost>>
history == <<accepted, endedBy, endError>>
vars == <<committed, sessionCloses, pc, arg, ret, dbVars, history>>

Points == {"idle", "run", "commit", "mark", "close", "rollback"}
Ended == {"committed", "rolledback"}

TypeOK ==
  /\ committed \in BOOLEAN
  /\ sessionCloses \in Nat
  /\ pc \in [Threads -> Points]
  /\ arg \in [Threads -> Stmts \cup {NoStmt}]
  /\ ret \in [Threads -> {"none", "nil", "error"}]
  /\ utx \in {"active", "failed"} \cup Ended
  /\ applied \in [Stmts -> Nat]
  /\ lost \in 0..MaxLost
  /\ accepted \subseteq Stmts
  /\ endedBy \in {"none", "commit", "rollback"}
  /\ endError \in BOOLEAN

(* BeginTx: NewSession, then BeginTransaction on it. *)
Init ==
  /\ committed = FALSE
  /\ sessionCloses = 0
  /\ pc = [t \in Threads |-> "idle"]
  /\ arg = [t \in Threads |-> NoStmt]
  /\ ret = [t \in Threads |-> "none"]
  /\ utx = "active"
  /\ applied = [s \in Stmts |-> 0]
  /\ lost = 0
  /\ accepted = {}
  /\ endedBy = "none"
  /\ endError = FALSE

-----------------------------------------------------------------------------
Goto(t, from, to) ==
  /\ pc[t] = from
  /\ pc' = [pc EXCEPT ![t] = to]
  /\ UNCHANGED ret

Return(t, from, r) ==
  /\ pc[t] = from
  /\ pc' = [pc EXCEPT ![t] = "idle"]
  /\ ret' = [ret EXCEPT ![t] = r]

AllIdle == \A t \in Threads : pc[t] = "idle"

-----------------------------------------------------------------------------
(* Execute. *)

ExecuteRefused(t) ==
  /\ committed
  /\ Return(t, "idle", "error")
  /\ UNCHANGED <<committed, sessionCloses, arg, dbVars, history>>

ExecuteCheck(t, s) ==
  /\ s \notin accepted
  /\ \A u \in Threads : arg[u] # s
  /\ ~committed
  /\ Goto(t, "idle", "run")
  /\ arg' = [arg EXCEPT ![t] = s]
  /\ UNCHANGED <<committed, sessionCloses, dbVars, history>>

(* Altered: the argument is dropped before it is recorded. *)
RunOK_DropsFirst(t) ==
  /\ utx = "active"
  /\ arg' = [arg EXCEPT ![t] = NoStmt]
  /\ accepted' = accepted \cup {arg'[t]}
  /\ Return(t, "run", "nil")
  /\ UNCHANGED <<committed, sessionCloses, dbVars, endedBy, endError>>

RunOK(t) ==
  /\ utx = "active"
  /\ accepted' = accepted \cup {arg[t]}
  /\ Return(t, "run", "nil")
  /\ arg' = [arg EXCEPT ![t] = NoStmt]
  /\ UNCHANGED <<committed, sessionCloses, dbVars, endedBy, endError>>

(* Altered: the error of tx.Run is dropped. *)
RunError_Swallowed(t) ==
  /\ utx' = IF utx = "active" THEN "failed" ELSE utx
  /\ accepted' = accepted \cup {arg[t]}
  /\ Return(t, "run", "nil")
  /\ arg' = [arg EXCEPT ![t] = NoStmt]
  /\ UNCHANGED <<committed, sessionCloses, applied, lost, endedBy, endError>>

(* tx.Run returns an error: the statement is refused by an active          *)
(* transaction, which it fails, or by one that can run nothing any more.   *)
RunError(t) ==
  /\ utx' = IF utx = "active" THEN "failed" ELSE utx
  /\ Return(t, "run", "error")
  /\ arg' = [arg EXCEPT ![t] = NoStmt]
  /\ UNCHANGED <<committed, sessionCloses, applied, lost, history>>

-----------------------------------------------------------------------------
(* Commit. *)

CommitAgain(t) ==
  /\ committed
  /\ Return(t, "idle", "nil")
  /\ UNCHANGED <<committed, sessionCloses, arg, dbVars, history>>

CommitCheck(t) ==
  /\ ~committed
  /\ Goto(t, "idle", "commit")
  /\ UNCHANGED <<committed, sessionCloses, arg, dbVars, history>>

(* The server makes the accepted statements durable. *)
ServerCommits ==
  /\ utx = "active"
  /\ utx' = "committed"
  /\ applied' = [s \in Stmts |-> IF s \in accepted THEN applied[s] + 1 ELSE applied[s]]

TxCommitOK(t) ==
  /\ ServerCommits
  /\ Goto(t, "commit", "mark")
  /\ endedBy' = "commit"
  /\ UNCHANGED <<committed, sessionCloses, arg, lost, accepted, endError>>

(* Altered: the session is closed (a defer) whether or not Commit worked. *)
TxCommitError_ClosesSession(t) ==
  /\ utx' = IF utx \in Ended THEN utx ELSE "rolledback"
  /\ Return(t, "commit", "error")
  /\ sessionCloses' = sessionCloses + 1
  /\ endError' = TRUE
  /\ UNCHANGED <<committed, arg, applied, lost, accepted, endedBy>>

(* tx.Commit returns an error: the transaction is gone, or had ended.  The *)
(* method returns before it sets the flag and before it closes the session.*)
TxCommitError(t) ==
  /\ utx' = IF utx \in Ended THEN utx ELSE "rolledback"
  /\ Return(t, "commit", "error")
  /\ endError' = TRUE
  /\ UNCHANGED <<committed, sessionCloses, arg, applied, lost, accepted, endedBy>>

(* The server committed; the reply did not arrive. *)
TxCommitReplyLost(t) ==
  /\ lost < MaxLost
  /\ lost' = lost + 1
  /\ ServerCommits
  /\ Return(t, "commit", "error")
  /\ endError' = TRUE
  /\ UNCHANGED <<committed, sessionCloses, arg, accepted, endedBy>>

CommitMark(t) ==
  /\ Goto(t, "mark", "close")
  /\ committed' = TRUE
  /\ UNCHANGED <<sessionCloses, arg, dbVars, history>>

-----------------------------------------------------------------------------
(* Rollback. *)

RollbackAgain(t) ==
  /\ committed
  /\ Return(t, "idle", "nil")
  /\ UNCHANGED <<committed, sessionCloses, arg, dbVars, history>>

RollbackCheck(t) ==
  /\ ~committed
  /\ Goto(t, "idle", "rollback")
  /\ UNCHANGED <<committed, sessionCloses, arg, dbVars, history>>

(* Altered: returns before the session is closed. *)
TxRollbackOK_KeepsSession(t) ==
  /\ utx \notin Ended
  /\ utx' = "rolledback"
  /\ Return(t, "rollback", "nil")
  /\ endedBy' = "rollback"
  /\ UNCHANGED <<committed, sessionCloses, arg, applied, lost, accepted, endError>>

(* The flag stays FALSE after a rollback. *)
TxRollbackOK(t) ==
  /\ utx \notin Ended
  /\ utx' = "rolledback"
  /\ Goto(t, "rollback", "close")
  /\ endedBy' = "rollback"
  /\ UNCHANGED <<committed, sessionCloses, arg, applied, lost, accepted, endError>>

(* Altered: an error of tx.Rollback is taken for a finished rollback. *)
TxRollbackError_Ignored(t) ==
  /\ utx' = IF utx \in Ended THEN utx ELSE "rolledback"
  /\ Goto(t, "rollback", "close")
  /\ endedBy' = "rollback"
  /\ UNCHANGED <<committed, sessionCloses, arg, applied, lost, accepted, endError>>

TxRollbackError(t) ==
  /\ utx' = IF utx \in Ended THEN utx ELSE "rolledback"
  /\ Return(t, "rollback", "error")
  /\ endError' = TRUE
  /\ UNCHANGED <<committed, sessionCloses, arg, applied, lost, accepted, endedBy>>

(* The last step of a Commit or a Rollback that worked. *)
SessionClose(t) ==
  /\ sessionCloses' = sessionCloses + 1
  /\ Return(t, "close", "nil")
  /\ UNCHANGED <<committed, arg, dbVars, history>>

-----------------------------------------------------------------------------
Start(t) ==
  \/ ExecuteRefused(t)
  \/ \E s \in Stmts : ExecuteCheck(t, s)
  \/ CommitAgain(t)
  \/ CommitCheck(t)
  \/ RollbackAgain(t)
  \/ RollbackCheck(t)

Continue(t) ==
  \/ RunOK(t)
  \/ RunError(t)
  \/ TxCommitOK(t)
  \/ TxCommitError(t)
  \/ TxCommitReplyLost(t)
  \/ CommitMark(t)
  \/ TxRollbackOK(t)
  \/ TxRollbackError(t)
  \/ SessionClose(t)

Next == \E t \in Threads : Start(t) \/ Continue(t)

Spec == Init /\ [][Next]_vars

-----------------------------------------------------------------------------
(* Concurrent calls included, and commits whose reply is lost, the         *)
(* transaction is the one driver.Transaction promises: the check of        *)
(* `committed' may be stale, the underlying transaction decides.           *)
Contract == INSTANCE TxContract
  WITH status <- IF utx \in Ended THEN utx ELSE "open"

ImplementsContract == Contract!Spec

(* The flag that turns Rollback into a no-op and Execute into an error is  *)
(* set only when the database has committed, whichever calls race.         *)
FlagMeansCommitted == committed => utx = "committed" /\ endedBy = "commit"

(* The session is closed at most once and never under a live transaction.  *)
SessionClosedAfterEnd ==
  /\ sessionCloses <= 1
  /\ sessionCloses = 1 => utx \in Ended

(* A session outlives its transaction only if tx.Commit or tx.Rollback     *)
(* returned an error: both error paths return without closing it.          *)
SessionLeaksOnlyOnError ==
  AllIdle /\ utx \in Ended /\ ~endError => sessionCloses = 1

(* A Rollback that worked means the database kept nothing, even when an    *)
(* earlier Commit failed without telling whether it was applied.           *)
RollbackLeavesNothing ==
  endedBy = "rollback" => \A s \in Stmts : applied[s] = 0

(* The inductive invariant behind them: a pending tx.Run has its statement;*)
(* nothing is applied before the server commits; the flag and endedBy      *)
(* agree with the underlying transaction; one goroutine, the one whose     *)
(* Commit or Rollback ended it, is on its way to close the session.        *)
Closing(t) == pc[t] \in {"mark", "close"}

RunHasStatement == \A t \in Threads : pc[t] = "run" => arg[t] \in Stmts

AppliedAtCommit == utx # "committed" => applied = [s \in Stmts |-> 0]

EndIsKnown ==
  /\ endedBy = "commit" => utx = "committed"
  /\ endedBy = "rollback" => utx = "rolledback"
  /\ \A t \in Threads : pc[t] = "mark" => endedBy = "commit"
  /\ committed => endedBy = "commit"

OneClosesSession ==
  /\ \A t, u \in Threads : Closing(t) /\ Closing(u) => t = u
  /\ \A t \in Threads : Closing(t) => sessionCloses = 0 /\ utx \in Ended
  /\ utx \in Ended /\ ~endError => sessionCloses = 1 \/ \E t \in Threads : Closing(t)

IndInv ==
  /\ TypeOK
  /\ RunHasStatement
  /\ AppliedAtCommit
  /\ EndIsKnown
  /\ OneClosesSession
  /\ SessionClosedAfterEnd

=============================================================================
