-------------------------------- MODULE Driver --------------------------------
(***************************************************************************)
(* What Neo4jDriver and FalkorDBDriver have in common: the closed flag,    *)
(* the mutex around it, and the connection it stands for.                  *)
(*                                                                         *)
(* Execute and ExecuteWrite read the flag in a critical section            *)
(* (checkClosed) and use the connection after it; Close sets the flag and  *)
(* closes the connection inside one.  A call admitted before Close may     *)
(* therefore reach the connection while it closes or after it has closed.  *)
(*                                                                         *)
(* This module has the driver's state and one action per step of a process *)
(* inside it; the module that extends it says who calls.                   *)
(***************************************************************************)
EXTENDS Naturals

CONSTANTS
  Procs,    \* goroutines that call the driver
  Free      \* the mutex is not held

ASSUME DriverAssumption == Free \notin Procs

VARIABLES
  drvClosed,   \* the field closed
  drvMu,       \* the holder of the mutex, or Free
  dbOpen,      \* the connection (neo4jDB, falkordbDB) can run statements
  dbCloses,    \* how often the connection was closed
  at           \* where each process is inside the driver

driverVars == <<drvClosed, drvMu, dbOpen, dbCloses, at>>

DriverTypeOK ==
  /\ drvClosed \in BOOLEAN
  /\ drvMu \in Procs \cup {Free}
  /\ dbOpen \in BOOLEAN
  /\ dbCloses \in Nat
  /\ at \in [Procs -> {"out", "entered", "admitted", "closing", "dbclose"}]

DriverInit ==
  /\ drvClosed = FALSE
  /\ drvMu = Free
  /\ dbOpen = TRUE
  /\ dbCloses = 0
  /\ at = [p \in Procs |-> "out"]

Move(p, from, to) ==
  /\ at[p] = from
  /\ at' = [at EXCEPT ![p] = to]

(* Execute or ExecuteWrite is called. *)
Enter(p) ==
  /\ Move(p, "out", "entered")
  /\ UNCHANGED <<drvClosed, drvMu, dbOpen, dbCloses>>

(* Altered: the closed flag is not looked at. *)
Admit_Always(p) ==
  /\ drvMu = Free
  /\ Move(p, "entered", "admitted")
  /\ UNCHANGED <<drvClosed, drvMu, dbOpen, dbCloses>>

(* checkClosed finds the driver open. *)
Admit(p) ==
  /\ drvMu = Free
  /\ ~drvClosed
  /\ Move(p, "entered", "admitted")
  /\ UNCHANGED <<drvClosed, drvMu, dbOpen, dbCloses>>

(* checkClosed returns "driver is closed". *)
Refuse(p) ==
  /\ drvMu = Free
  /\ drvClosed
  /\ Move(p, "entered", "out")
  /\ UNCHANGED <<drvClosed, drvMu, dbOpen, dbCloses>>

(* The connection runs the statement; the call returns afterwards, with    *)
(* its records or with an error.                                           *)
Run(p) ==
  /\ dbOpen
  /\ Move(p, "admitted", "out")
  /\ UNCHANGED <<drvClosed, drvMu, dbOpen, dbCloses>>

(* The connection returns an error without having run the statement: the   *)
(* statement is wrong, the network is down, the connection is closed.      *)
Fail(p) ==
  /\ Move(p, "admitted", "out")
  /\ UNCHANGED <<drvClosed, drvMu, dbOpen, dbCloses>>

CloseEnter(p) ==
  /\ Move(p, "out", "closing")
  /\ UNCHANGED <<drvClosed, drvMu, dbOpen, dbCloses>>

CloseAgain(p) ==
  /\ drvMu = Free
  /\ drvClosed
  /\ Move(p, "closing", "out")
  /\ UNCHANGED <<drvClosed, drvMu, dbOpen, dbCloses>>

(* Altered: the flag is left alone. *)
CloseBegin_FlagUnset(p) ==
  /\ drvMu = Free
  /\ ~drvClosed
  /\ drvMu' = p
  /\ Move(p, "closing", "dbclose")
  /\ UNCHANGED <<drvClosed, dbOpen, dbCloses>>

CloseBegin(p) ==
  /\ drvMu = Free
  /\ ~drvClosed
  /\ drvClosed' = TRUE
  /\ drvMu' = p
  /\ Move(p, "closing", "dbclose")
  /\ UNCHANGED <<dbOpen, dbCloses>>

(* Altered: returns with the mutex held. *)
CloseEnd_KeepsMutex(p) ==
  /\ Move(p, "dbclose", "out")
  /\ dbOpen' \in BOOLEAN
  /\ dbCloses' = dbCloses + 1
  /\ UNCHANGED <<drvClosed, drvMu>>

(* db.Close, under the mutex; the flag stays set whether or not it worked, *)
(* so a Close that failed cannot be repeated.                              *)
CloseEnd(p) ==
  /\ Move(p, "dbclose", "out")
  /\ dbOpen' \in BOOLEAN
  /\ dbCloses' = dbCloses + 1
  /\ drvMu' = Free
  /\ UNCHANGED drvClosed

(* Close may be called any number of times, from any goroutine: the        *)
(* connection is closed once.                                              *)
ConnectionClosedOnce ==
  /\ dbCloses <= 1
  /\ \A p \in Procs : at[p] = "dbclose" => drvMu = p /\ dbCloses = 0

=============================================================================
