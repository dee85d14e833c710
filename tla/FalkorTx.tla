------------------------------- MODULE FalkorTx -------------------------------
(***************************************************************************)
(* The FalkorDB transaction, falkordbTransaction: one buffered statement,  *)
(* sent to the graph by Commit.                                            *)
(*                                                                         *)
(* Every method first reads `committed' through isCommitted, which takes   *)
(* and releases the mutex, and then takes the mutex again to act.  The two *)
(* critical sections are separate actions here, so goroutines sharing the  *)
(* transaction interleave between them as they may in the program.  Commit *)
(* holds the mutex while the graph runs the statement.                     *)
(***************************************************************************)
EXTENDS Naturals

CONSTANTS
  Threads,     \* goroutines that share the transaction
  Stmts,       \* statements they may pass to Execute
  NoStmt,      \* the nil *cypher.Statement
  Free,        \* the mutex is not held
  MaxLost      \* bound on replies lost after the database ran the statement

ASSUME FalkorTxAssumption ==
  /\ NoStmt \notin Stmts
  /\ Free \notin Threads
  /\ MaxLost \in Nat

VARIABLES
  \* the fields of falkordbTransaction
  mu,         \* the goroutine holding the mutex, or Free
  committed,
  stmt,
  executed,
  \* the goroutines
  pc,         \* where each goroutine is inside a method of the transaction
  arg,        \* the argument of its pending Execute
  ret,        \* what its last call returned
  \* the database behind graphRunner
  dbOpen,     \* FALSE once the driver has closed the connection
  applied,    \* how many times the database has run each statement
  lost,       \* replies lost so far
  \* history
  accepted,   \* statements for which Execute returned no error
  outcome,    \* how `committed' came to be set
  appliedBy   \* how many times the database ran it for a Commit of each goroutine

txVars == <<mu, committed, stmt, executed>>
dbVars == <<dbOpen, applied, lost>>
vars == <<mu, committed, stmt, executed, pc, arg, ret, dbOpen, applied, lost,
          accepted, outcome, appliedBy>>

Points == {"idle", "execute", "commit", "query", "rollback"}

TypeOK ==
  /\ mu \in Threads \cup {Free}
  /\ committed \in BOOLEAN
  /\ stmt \in Stmts \cup {NoStmt}
  /\ executed \in BOOLEAN
  /\ pc \in [Threads -> Points]
  /\ arg \in [Threads -> Stmts \cup {NoStmt}]
  /\ ret \in [Threads -> {"none", "nil", "error"}]
  /\ dbOpen \in BOOLEAN
  /\ applied \in [Stmts -> Nat]
  /\ lost \in 0..MaxLost
  /\ accepted \subseteq Stmts
  /\ outcome \in {"open", "committed", "rolledback"}
  /\ appliedBy \in [Threads -> Nat]

Init ==
  /\ mu = Free
  /\ committed = FALSE
  /\ stmt = NoStmt
  /\ executed = FALSE
  /\ pc = [t \in Threads |-> "idle"]
  /\ arg = [t \in Threads |-> NoStmt]
  /\ ret = [t \in Threads |-> "none"]
  /\ dbOpen = TRUE
  /\ applied = [s \in Stmts |-> 0]
  /\ lost = 0
  /\ accepted = {}
  /\ outcome = "open"
  /\ appliedBy = [t \in Threads |-> 0]

-----------------------------------------------------------------------------
(* Steps shared by the methods.                                            *)

Goto(t, from, to) ==
  /\ pc[t] = from
  /\ pc' = [pc EXCEPT ![t] = to]
  /\ UNCHANGED ret

Return(t, from, r) ==
  /\ pc[t] = from
  /\ pc' = [pc EXCEPT ![t] = "idle"]
  /\ ret' = [ret EXCEPT ![t] = r]

(* isCommitted: a critical section of its own. *)
IsCommitted(yes) == mu = Free /\ committed = yes

(* committed = true, remembering which of Commit and Rollback set it first. *)
Settle(how) ==
  /\ committed' = TRUE
  /\ outcome' = IF outcome = "open" THEN how ELSE outcome

-----------------------------------------------------------------------------
(* Execute. *)

ExecuteRefused(t) ==
  /\ IsCommitted(TRUE)
  /\ Return(t, "idle", "error")
  /\ UNCHANGED <<txVars, arg, dbVars, accepted, outcome, appliedBy>>

ExecuteCheck(t, s) ==
  /\ IsCommitted(FALSE)
  /\ Goto(t, "idle", "execute")
  /\ arg' = [arg EXCEPT ![t] = s]
  /\ UNCHANGED <<txVars, dbVars, accepted, outcome, appliedBy>>

(* errSingleStatementOnly *)
ExecuteSecond(t) ==
  /\ mu = Free
  /\ executed
  /\ Return(t, "execute", "error")
  /\ arg' = [arg EXCEPT ![t] = NoStmt]
  /\ UNCHANGED <<txVars, dbVars, accepted, outcome, appliedBy>>

(* Altered: the mutex is taken but `executed' is not looked at again. *)
ExecuteBuffer_NoGuard(t) ==
  /\ mu = Free
  /\ stmt' = arg[t]
  /\ executed' = TRUE
  /\ accepted' = accepted \cup {arg[t]}
  /\ Return(t, "execute", "nil")
  /\ arg' = [arg EXCEPT ![t] = NoStmt]
  /\ UNCHANGED <<mu, committed, dbVars, outcome, appliedBy>>

(* Altered: the argument is dropped before it is recorded. *)
ExecuteBuffer_DropsFirst(t) ==
  /\ mu = Free
  /\ ~executed
  /\ arg' = [arg EXCEPT ![t] = NoStmt]
  /\ stmt' = arg'[t]
  /\ executed' = TRUE
  /\ accepted' = accepted \cup {arg'[t]}
  /\ Return(t, "execute", "nil")
  /\ UNCHANGED <<mu, committed, dbVars, outcome, appliedBy>>

ExecuteBuffer(t) ==
  /\ mu = Free
  /\ ~executed
  /\ stmt' = arg[t]
  /\ executed' = TRUE
  /\ accepted' = accepted \cup {arg[t]}
  /\ Return(t, "execute", "nil")
  /\ arg' = [arg EXCEPT ![t] = NoStmt]
  /\ UNCHANGED <<mu, committed, dbVars, outcome, appliedBy>>

-----------------------------------------------------------------------------
(* Commit. *)

CommitAgain(t) ==
  /\ IsCommitted(TRUE)
  /\ Return(t, "idle", "nil")
  /\ UNCHANGED <<txVars, arg, dbVars, accepted, outcome, appliedBy>>

CommitCheck(t) ==
  /\ IsCommitted(FALSE)
  /\ Goto(t, "idle", "commit")
  /\ UNCHANGED <<txVars, arg, dbVars, accepted, outcome, appliedBy>>

(* Nothing buffered: the transaction ends without a query. *)
CommitEmpty(t) ==
  /\ mu = Free
  /\ stmt = NoStmt
  /\ Settle("committed")
  /\ Return(t, "commit", "nil")
  /\ UNCHANGED <<mu, stmt, executed, arg, dbVars, accepted, appliedBy>>

CommitSend(t) ==
  /\ mu = Free
  /\ stmt # NoStmt
  /\ mu' = t
  /\ Goto(t, "commit", "query")
  /\ UNCHANGED <<committed, stmt, executed, arg, dbVars, accepted, outcome, appliedBy>>

(* The database runs the buffered statement on behalf of t's Commit. *)
DatabaseRuns(t) ==
  /\ pc[t] = "query"
  /\ dbOpen
  /\ applied' = [applied EXCEPT ![stmt] = @ + 1]
  /\ appliedBy' = [appliedBy EXCEPT ![t] = @ + 1]

(* Altered: committed is set only where there was nothing to send. *)
CommitApplied_NotSettled(t) ==
  /\ DatabaseRuns(t)
  /\ mu' = Free
  /\ Return(t, "query", "nil")
  /\ UNCHANGED <<committed, stmt, executed, arg, dbOpen, lost, accepted, outcome>>

CommitApplied(t) ==
  /\ DatabaseRuns(t)
  /\ Settle("committed")
  /\ mu' = Free
  /\ Return(t, "query", "nil")
  /\ UNCHANGED <<stmt, executed, arg, dbOpen, lost, accepted>>

(* Altered: the error path returns without releasing the mutex. *)
CommitFailed_KeepsMutex(t) ==
  /\ Return(t, "query", "error")
  /\ UNCHANGED <<txVars, arg, dbVars, accepted, outcome, appliedBy>>

(* graph.Query fails and the statement did not run. *)
CommitFailed(t) ==
  /\ mu' = Free
  /\ Return(t, "query", "error")
  /\ UNCHANGED <<committed, stmt, executed, arg, dbVars, accepted, outcome, appliedBy>>

(* The statement ran and its reply is lost: the read timeout of the        *)
(* connection expires and graph.Query returns an error all the same.       *)
CommitReplyLost(t) ==
  /\ lost < MaxLost
  /\ lost' = lost + 1
  /\ DatabaseRuns(t)
  /\ mu' = Free
  /\ Return(t, "query", "error")
  /\ UNCHANGED <<committed, stmt, executed, arg, dbOpen, accepted, outcome>>

-----------------------------------------------------------------------------
(* Rollback. *)

RollbackAgain(t) ==
  /\ IsCommitted(TRUE)
  /\ Return(t, "idle", "nil")
  /\ UNCHANGED <<txVars, arg, dbVars, accepted, outcome, appliedBy>>

RollbackCheck(t) ==
  /\ IsCommitted(FALSE)
  /\ Goto(t, "idle", "rollback")
  /\ UNCHANGED <<txVars, arg, dbVars, accepted, outcome, appliedBy>>

(* Altered: the statement is dropped without taking the mutex again. *)
RollbackDiscard_Unlocked(t) ==
  /\ stmt' = NoStmt
  /\ Settle("rolledback")
  /\ Return(t, "rollback", "nil")
  /\ UNCHANGED <<mu, executed, arg, dbVars, accepted, appliedBy>>

(* Altered: the statement is dropped and the transaction stays open. *)
RollbackDiscard_LeavesOpen(t) ==
  /\ mu = Free
  /\ stmt' = NoStmt
  /\ Return(t, "rollback", "nil")
  /\ UNCHANGED <<mu, committed, executed, arg, dbVars, accepted, outcome, appliedBy>>

RollbackDiscard(t) ==
  /\ mu = Free
  /\ stmt' = NoStmt
  /\ Settle("rolledback")
  /\ Return(t, "rollback", "nil")
  /\ UNCHANGED <<mu, executed, arg, dbVars, accepted, appliedBy>>

-----------------------------------------------------------------------------
(* The driver is closed while the transaction is still in use: the graph   *)
(* handle stays, the connection behind it is gone.                         *)
DriverCloses ==
  /\ dbOpen
  /\ dbOpen' = FALSE
  /\ UNCHANGED <<txVars, pc, arg, ret, applied, lost, accepted, outcome, appliedBy>>

(* A goroutine calls a method. *)
Start(t) ==
  \/ ExecuteRefused(t)
  \/ \E s \in Stmts : ExecuteCheck(t, s)
  \/ CommitAgain(t)
  \/ CommitCheck(t)
  \/ RollbackAgain(t)
  \/ RollbackCheck(t)

(* A goroutine inside a method takes its next step. *)
Continue(t) ==
  \/ ExecuteSecond(t)
  \/ ExecuteBuffer(t)
  \/ CommitEmpty(t)
  \/ CommitSend(t)
  \/ CommitApplied(t)
  \/ CommitFailed(t)
  \/ CommitReplyLost(t)
  \/ RollbackDiscard(t)

Next ==
  \/ \E t \in Threads : Start(t) \/ Continue(t)
  \/ DriverCloses

Spec == Init /\ [][Next]_vars

(* A goroutine inside a method is scheduled, and Go's mutex hands itself   *)
(* over to a goroutine that has waited for it, so no waiter starves.       *)
(* Nothing makes a goroutine start a call.                                 *)
FairSpec == Spec /\ \A t \in Threads : SF_vars(Continue(t))

-----------------------------------------------------------------------------
(* Callers that do not overlap their calls, on however many goroutines.     *)

AllIdle == \A t \in Threads : pc[t] = "idle"

SerialNext ==
  \/ \E t \in Threads : (AllIdle /\ Start(t)) \/ Continue(t)
  \/ DriverCloses

SerialSpec == Init /\ [][SerialNext]_vars

-----------------------------------------------------------------------------
(* Properties of any use, concurrent or not. *)

(* A transaction accepts one statement in its life, whatever calls race:   *)
(* Execute looks at `executed' and sets it in one critical section.        *)
OneStatement ==
  /\ \A s1, s2 \in accepted : s1 = s2
  /\ stmt # NoStmt => stmt \in accepted

(* Commit reads t.stmt more than once after finding it non-nil: it may not *)
(* become nil, or another statement, before graph.Query has returned.      *)
SentStatementIsStable ==
  \A t \in Threads : pc[t] = "query" => mu = t /\ stmt # NoStmt

(* The commits of one goroutine run the statement at most once, however    *)
(* often it retries and whatever the others do, and once more for each     *)
(* reply that was lost.                                                    *)
OncePerGoroutine == \A t \in Threads : appliedBy[t] <= lost + 1

(* Every call returns: the mutex is released on every path. *)
CallsReturn == \A t \in Threads : pc[t] # "idle" ~> pc[t] = "idle"

(* The inductive invariant behind the three: the mutex belongs to the      *)
(* goroutine that queries, a pending Execute holds its statement, the      *)
(* buffer holds the one accepted statement, and a goroutine that may still *)
(* query has not had a query of its own acknowledged.                      *)
ExecuteHasStatement ==
  \A t \in Threads : pc[t] = "execute" => arg[t] \in Stmts

MutexHeldByQuery == \A t \in Threads : mu = t => pc[t] = "query"

BufferIsAccepted ==
  /\ ~executed => accepted = {} /\ stmt = NoStmt
  /\ executed => \E s \in Stmts : accepted = {s} /\ stmt \in {s, NoStmt}

UnacknowledgedSoFar ==
  \A t \in Threads :
    ~committed \/ pc[t] \in {"commit", "query"} => appliedBy[t] <= lost

IndInv ==
  /\ TypeOK
  /\ ExecuteHasStatement
  /\ MutexHeldByQuery
  /\ BufferIsAccepted
  /\ SentStatementIsStable
  /\ UnacknowledgedSoFar
  /\ OncePerGoroutine

-----------------------------------------------------------------------------
(* Callers that do not overlap their calls get the promised transaction.   *)

Contract == INSTANCE TxContract WITH status <- outcome

(* BeginTx, Execute, Commit and Rollback used one after the other, with    *)
(* replies that arrive, implement driver.Transaction: all or nothing, once.*)
ImplementsContract == Contract!Spec

(* The inductive invariant behind the refinement: one goroutine at a time  *)
(* is inside a method, only while the transaction is open; as long as it   *)
(* is, what was accepted is still buffered and the database saw nothing.   *)
SerialInv ==
  /\ IndInv
  /\ \A t, u \in Threads : pc[t] # "idle" /\ pc[u] # "idle" => t = u
  /\ \A t \in Threads : pc[t] # "idle" => ~committed
  /\ committed <=> outcome # "open"
  /\ executed /\ ~committed => stmt # NoStmt
  /\ outcome # "committed" => applied = [s \in Stmts |-> 0]

-----------------------------------------------------------------------------
(* What the documentation says that the code does not ensure. *)

(* "either all succeed (Commit) or all are rolled back (Rollback)": when a *)
(* transaction is committed and no call is inside of it, what Execute      *)
(* accepted has run, once.                                                 *)
CommitRunsAccepted ==
  outcome = "committed" /\ AllIdle
    => \A s \in Stmts : applied[s] = IF s \in accepted THEN 1 ELSE 0

=============================================================================
