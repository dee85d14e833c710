------------------------------ MODULE ClientProofs ------------------------------
(***************************************************************************)
(* The driver and the client under any number of callers and closers, with *)
(* any requests.                                                           *)
(***************************************************************************)
EXTENDS Client, ChunkingProofs
-----------------------------------------------------------------------------
(* The driver's flag, mutex and connection. *)

(* The process inside db.Close holds the mutex, the flag is set before and *)
(* stays, and the connection has not been closed unless the flag is set.   *)
DriverInv ==
  /\ DriverTypeOK
  /\ \A p \in Procs : at[p] = "dbclose" <=> drvMu = p
  /\ drvMu # Free => drvClosed /\ dbCloses = 0
  /\ ~drvClosed => dbCloses = 0
  /\ dbCloses <= 1

(* What has been sent is a sequence, a job has a kind, histories are       *)
(* numbers.                                                                *)
SentShape ==
  /\ delivered = [c \in Callers |-> delivered[c]]
  /\ \A c \in Callers : delivered[c] \in Seq(Range(delivered[c]))

JobShape ==
  /\ job = [c \in Callers |-> job[c]]
  /\ \A c \in Callers : "kind" \in DOMAIN job[c]

HistoryTypes ==
  /\ cancelled \in [Callers -> BOOLEAN]
  /\ sentAtCancel \in [Callers -> Nat]
  /\ sentAtClose \in [Callers -> Nat]

Shapes == SentShape /\ JobShape /\ HistoryTypes

(* After Close, a call that is admitted may run its statement; one that is *)
(* not has used up its allowance or will be refused.                       *)
CutOffSoFar ==
  drvClosed => \A c \in Callers :
    Len(delivered[c]) <= sentAtClose[c] + (IF at[c] = "admitted" THEN 0 ELSE 1)

(* After the cancellation of a batch, the same for the call under way.     *)
StoppedSoFar ==
  \A c \in Callers : job[c].kind = "batch" /\ cancelled[c] =>
    Len(delivered[c]) <= sentAtCancel[c] + (IF at[c] \in {"entered", "admitted"} THEN 0 ELSE 1)

IndInv == DriverInv /\ Shapes /\ CutOffSoFar /\ StoppedSoFar
-----------------------------------------------------------------------------
(* One more element. *)
LEMMA AppendShape ==
  ASSUME NEW s, s \in Seq(Range(s)), NEW e
  PROVE  /\ Append(s, e) \in Seq(Range(Append(s, e)))
         /\ Len(Append(s, e)) = Len(s) + 1 /\ Len(s) \in Nat
<1>1. s \in Seq(Range(s) \cup {e}) /\ e \in Range(s) \cup {e}
  OBVIOUS
<1>2. Append(s, e) \in Seq(Range(s) \cup {e}) /\ Len(Append(s, e)) = Len(s) + 1 /\ Len(s) \in Nat
  BY <1>1
<1>3. \A i \in 1..Len(Append(s, e)) : Append(s, e)[i] \in Range(Append(s, e))
  BY <1>2 DEF Range
<1> QED BY <1>2, <1>3

(* Inside the driver, a step of a process keeps the mutex, flag and        *)
(* connection in order.                                                    *)
LEMMA DriverStep ==
  ASSUME NEW p \in Procs, DriverInv,
         \/ Enter(p) \/ Admit(p) \/ Refuse(p) \/ Run(p) \/ Fail(p)
         \/ CloseEnter(p) \/ CloseAgain(p) \/ CloseBegin(p) \/ CloseEnd(p)
  PROVE  DriverInv'
<1> USE DriverAssumption DEF DriverInv, DriverTypeOK, Move
<1>1. CASE Enter(p)
  BY <1>1 DEF Enter
<1>2. CASE Admit(p)
  BY <1>2 DEF Admit
<1>3. CASE Refuse(p)
  BY <1>3 DEF Refuse
<1>4. CASE Run(p)
  BY <1>4 DEF Run
<1>5. CASE Fail(p)
  BY <1>5 DEF Fail
<1>6. CASE CloseEnter(p)
  BY <1>6 DEF CloseEnter
<1>7. CASE CloseAgain(p)
  BY <1>7 DEF CloseAgain
<1>8. CASE CloseBegin(p)
  BY <1>8 DEF CloseBegin
<1>9. CASE CloseEnd(p)
  BY <1>9 DEF CloseEnd
<1> QED BY <1>1, <1>2, <1>3, <1>4, <1>5, <1>6, <1>7, <1>8, <1>9
-----------------------------------------------------------------------------
(* The client's steps. *)

(* A call keeps its kind. *)
LEMMA JobStep ==
  ASSUME JobShape, NEW c \in Callers, Advance(c) \/ \E r : Finish(c, r)
  PROVE  JobShape' /\ \A d \in Callers : job'[d].kind = job[d].kind
<1> DEFINE g == Gathered(c)
<1> HIDE DEF g
<1>1. \/ job' = [job EXCEPT ![c].active = FALSE]
      \/ job' = [job EXCEPT ![c].w = @ + 1]
      \/ job' = [job EXCEPT ![c].i = @ + 1, ![c].w = 1, ![c].results = g]
      \/ job' = [job EXCEPT ![c].active = FALSE, ![c].results = g]
  BY DEF Finish, Advance, g
<1> QED BY <1>1 DEF JobShape

(* A client is made open, with nothing under way.                          *)
LEMMA InitInd == Init => IndInv
<1> SUFFICES ASSUME Init PROVE IndInv
  OBVIOUS
<1>1. DriverInv
  <2>1. DriverInit
    BY DEF Init
  <2>2. \A p \in Procs : at[p] = "out" /\ drvMu # p
    BY <2>1, DriverAssumption DEF DriverInit
  <2>3. DriverTypeOK
    BY <2>1 DEF DriverInit, DriverTypeOK
  <2>4. drvMu = Free /\ dbCloses = 0
    BY <2>1 DEF DriverInit
  <2> QED BY <2>2, <2>3, <2>4 DEF DriverInv
<1>2. Shapes
  <2>1. "kind" \in DOMAIN NoJob
    BY DEF NoJob, Job
  <2> QED BY <2>1 DEF Init, Shapes, SentShape, JobShape, HistoryTypes
<1>3. CutOffSoFar /\ StoppedSoFar
  BY DEF Init, DriverInit, CutOffSoFar, StoppedSoFar
<1> QED BY <1>1, <1>2, <1>3 DEF IndInv

(* A new call starts with nothing sent and a context that is alive.        *)
LEMMA BeginInd ==
  ASSUME IndInv, NEW c \in Callers, NEW j, "kind" \in DOMAIN j, NEW r, Begin(c, j, r)
  PROVE  IndInv'
<1> USE DEF IndInv, Begin
<1>1. DriverInv'
  BY DEF DriverInv, DriverTypeOK, driverVars
<1>2. SentShape'
  <2>1. <<>> \in Seq(Range(<<>>))
    OBVIOUS
  <2>2. /\ delivered' = [d \in Callers |-> delivered'[d]]
        /\ delivered'[c] = <<>> /\ \A d \in Callers \ {c} : delivered'[d] = delivered[d]
    BY DEF Shapes, SentShape
  <2>3. \A d \in Callers : delivered'[d] \in Seq(Range(delivered'[d]))
    BY <2>1, <2>2 DEF Shapes, SentShape
  <2> QED BY <2>2, <2>3 DEF SentShape
<1>3. JobShape'
  BY DEF Shapes, JobShape
<1>4. HistoryTypes'
  BY DEF Shapes, HistoryTypes
<1>5. CutOffSoFar'
  BY DEF CutOffSoFar, Shapes, SentShape, HistoryTypes, driverVars
<1>6. StoppedSoFar'
  BY DEF StoppedSoFar, Shapes, SentShape, JobShape, HistoryTypes, driverVars
<1> QED BY <1>1, <1>2, <1>3, <1>4, <1>5, <1>6 DEF Shapes

(* A step of a caller inside its call: the driver refuses, runs or fails   *)
(* its statement, or its context stops it.                                 *)
LEMMA ProceedInd ==
  ASSUME IndInv, NEW c \in Callers, Proceed(c)
  PROVE  IndInv'
<1> c \in Procs
  BY ClientAssumption
<1> USE DEF IndInv
<1>1. CASE CancelledBatch(c)
  <2>1. DriverInv'
    BY <1>1 DEF CancelledBatch, DriverInv, DriverTypeOK, driverVars
  <2>2. \E r : Finish(c, r)
    BY <1>1 DEF CancelledBatch
  <2> QED BY <1>1, <2>1, <2>2, JobStep DEF CancelledBatch, Shapes, SentShape, JobShape, HistoryTypes, CutOffSoFar, StoppedSoFar, driverVars
<1>2. CASE CallDriver(c)
  <2>1. DriverInv'
    BY <1>2, DriverStep DEF CallDriver
  <2> QED BY <1>2, <2>1 DEF CallDriver, Enter, Move, ContextStops, Shapes, SentShape, JobShape, HistoryTypes, CutOffSoFar, StoppedSoFar,
                            DriverInv, DriverTypeOK, clientVars
<1>3. CASE DriverAdmits(c)
  <2>1. DriverInv'
    BY <1>3, DriverStep DEF DriverAdmits
  <2> QED BY <1>3, <2>1 DEF DriverAdmits, Admit, Move, Shapes, SentShape, JobShape, HistoryTypes, CutOffSoFar, StoppedSoFar,
                            DriverInv, DriverTypeOK, clientVars
<1>4. CASE DriverRefuses(c)
  <2>1. DriverInv'
    BY <1>4, DriverStep DEF DriverRefuses
  <2>2. \E r : Finish(c, r)
    BY <1>4 DEF DriverRefuses
  <2> QED BY <1>4, <2>1, <2>2, JobStep DEF DriverRefuses, Refuse, Move, Shapes, SentShape, JobShape, HistoryTypes, CutOffSoFar, StoppedSoFar,
                            DriverInv, DriverTypeOK
<1>5. CASE StatementFails(c)
  <2>1. DriverInv'
    BY <1>5, DriverStep DEF StatementFails
  <2>2. \E r : Finish(c, r)
    BY <1>5 DEF StatementFails
  <2> QED BY <1>5, <2>1, <2>2, JobStep DEF StatementFails, Fail, Move, Shapes, SentShape, JobShape, HistoryTypes, CutOffSoFar, StoppedSoFar,
                            DriverInv, DriverTypeOK
<1>6. CASE StatementRuns(c) \/ ReplyLost(c)
  <2>1. DriverInv'
    BY <1>6, DriverStep DEF StatementRuns, ReplyLost
  <2>2. Advance(c) \/ \E r : Finish(c, r)
    BY <1>6 DEF StatementRuns, ReplyLost
  <2>3. /\ Run(c) /\ Deliver(c)
        /\ UNCHANGED <<cancelled, sentAtCancel, sentAtClose>>
    BY <1>6 DEF StatementRuns, ReplyLost
  <2>4. /\ delivered' = [d \in Callers |-> delivered'[d]]
        /\ \A d \in Callers \ {c} : delivered'[d] = delivered[d]
        /\ delivered'[c] \in Seq(Range(delivered'[c]))
        /\ Len(delivered'[c]) = Len(delivered[c]) + 1 /\ Len(delivered[c]) \in Nat
    <3>1. delivered'[c] = Append(delivered[c], Current(c))
      BY <2>3 DEF Deliver, Shapes, SentShape
    <3>2. delivered[c] \in Seq(Range(delivered[c]))
      BY DEF Shapes, SentShape
    <3>3. /\ delivered'[c] \in Seq(Range(delivered'[c]))
          /\ Len(delivered'[c]) = Len(delivered[c]) + 1 /\ Len(delivered[c]) \in Nat
      BY <3>1, <3>2, AppendShape
    <3>4. /\ delivered' = [d \in Callers |-> delivered'[d]]
          /\ \A d \in Callers \ {c} : delivered'[d] = delivered[d]
      BY <2>3 DEF Deliver, Shapes, SentShape
    <3> QED BY <3>3, <3>4
  <2>5. Shapes' /\ \A d \in Callers : job'[d].kind = job[d].kind
    BY <2>2, <2>3, <2>4, JobStep DEF Shapes, SentShape, HistoryTypes
  <2>6. at[c] = "admitted" /\ at'[c] = "out" /\ drvClosed' = drvClosed
        /\ \A d \in Callers \ {c} : at'[d] = at[d]
    BY <2>3 DEF Run, Move, DriverInv, DriverTypeOK
  <2>7. CutOffSoFar'
    <3> SUFFICES ASSUME drvClosed', NEW d \in Callers
        PROVE  Len(delivered'[d]) <= sentAtClose'[d] + (IF at'[d] = "admitted" THEN 0 ELSE 1)
      BY DEF CutOffSoFar
    <3>1. sentAtClose'[d] = sentAtClose[d] /\ sentAtClose[d] \in Nat /\ sentAtClose[c] \in Nat
      BY <2>3 DEF Shapes, HistoryTypes
    <3>2. Len(delivered[d]) <= sentAtClose[d] + (IF at[d] = "admitted" THEN 0 ELSE 1)
      BY <2>6 DEF CutOffSoFar
    <3>3. CASE d = c
      BY <2>4, <2>6, <3>1, <3>2, <3>3
    <3>4. CASE d # c
      BY <2>4, <2>6, <3>1, <3>2, <3>4
    <3> QED BY <3>3, <3>4
  <2>8. StoppedSoFar'
    <3> SUFFICES ASSUME NEW d \in Callers, job'[d].kind = "batch", cancelled'[d]
        PROVE  Len(delivered'[d]) <= sentAtCancel'[d] + (IF at'[d] \in {"entered", "admitted"} THEN 0 ELSE 1)
      BY DEF StoppedSoFar
    <3>1. sentAtCancel'[d] = sentAtCancel[d] /\ sentAtCancel[d] \in Nat
      BY <2>3 DEF Shapes, HistoryTypes
    <3>2. Len(delivered[d]) <= sentAtCancel[d] + (IF at[d] \in {"entered", "admitted"} THEN 0 ELSE 1)
      BY <2>3, <2>5 DEF StoppedSoFar
    <3>3. CASE d = c
      BY <2>4, <2>6, <3>1, <3>2, <3>3
    <3>4. CASE d # c
      BY <2>4, <2>6, <3>1, <3>2, <3>4
    <3> QED BY <3>3, <3>4
  <2> QED BY <2>1, <2>5, <2>7, <2>8
<1> QED BY <1>1, <1>2, <1>3, <1>4, <1>5, <1>6 DEF Proceed

(* The caller cancels; a closer's step. *)
LEMMA CancelInd ==
  ASSUME IndInv, NEW c \in Callers, Cancel(c)
  PROVE  IndInv'
<1> USE DEF IndInv, Cancel
<1>1. DriverInv'
  BY DEF DriverInv, DriverTypeOK, driverVars
<1>2. Shapes'
  <2>1. Len(delivered[c]) \in Nat
    BY DEF Shapes, SentShape
  <2> QED BY <2>1 DEF Shapes, SentShape, JobShape, HistoryTypes
<1>3. CutOffSoFar'
  BY DEF CutOffSoFar, driverVars
<1>4. StoppedSoFar'
  <2>1. Len(delivered[c]) \in Nat
    BY DEF Shapes, SentShape
  <2> QED BY <2>1 DEF StoppedSoFar, Shapes, HistoryTypes, driverVars
<1> QED BY <1>1, <1>2, <1>3, <1>4

LEMMA CloserInd ==
  ASSUME IndInv, NEW k \in Closers, Close(k) \/ ProceedClose(k)
  PROVE  IndInv'
<1>1. k \in Procs /\ k \notin Callers
  BY ClientAssumption
<1> USE DEF IndInv
<1>2. DriverInv'
  BY <1>1, DriverStep DEF Close, ProceedClose, DriverCloseAgain, DriverCloseBegin, DriverCloseEnd
<1>3. \A c \in Callers : Len(delivered[c]) \in Nat
  BY DEF Shapes, SentShape
<1>4. \A c \in Callers : at'[c] = at[c]
  <2>1. \E to : at' = [at EXCEPT ![k] = to]
    BY DEF Close, ProceedClose, DriverCloseAgain, DriverCloseBegin, DriverCloseEnd,
           CloseEnter, CloseAgain, CloseBegin, CloseEnd, Move
  <2>2. DOMAIN at = Procs /\ Callers \subseteq Procs
    BY ClientAssumption DEF DriverInv, DriverTypeOK
  <2> QED BY <1>1, <2>1, <2>2
<1>5. UNCHANGED <<job, cancelled, delivered, sentAtCancel>>
  BY DEF Close, ProceedClose, DriverCloseAgain, DriverCloseBegin, DriverCloseEnd, clientVars
<1>6. \/ UNCHANGED <<drvClosed, sentAtClose>>
      \/ drvClosed' /\ sentAtClose' = [c \in Callers |-> Len(delivered[c])]
  BY DEF Close, ProceedClose, DriverCloseAgain, DriverCloseBegin, DriverCloseEnd, clientVars,
         CloseEnter, CloseAgain, CloseBegin, CloseEnd
<1>7. Shapes'
  BY <1>3, <1>5, <1>6 DEF Shapes, SentShape, JobShape, HistoryTypes
<1>8. CutOffSoFar'
  <2>1. CASE UNCHANGED <<drvClosed, sentAtClose>>
    BY <1>4, <1>5, <2>1 DEF CutOffSoFar
  <2>2. CASE sentAtClose' = [c \in Callers |-> Len(delivered[c])]
    <3> SUFFICES ASSUME NEW c \in Callers
        PROVE  Len(delivered'[c]) <= sentAtClose'[c] + (IF at'[c] = "admitted" THEN 0 ELSE 1)
      BY DEF CutOffSoFar
    <3> DEFINE n == Len(delivered[c])
               m == Len(delivered'[c])
    <3>1. sentAtClose'[c] = n /\ m = n /\ n \in Nat
      BY <1>3, <1>5, <2>2
    <3> HIDE DEF n, m
    <3>2. m <= sentAtClose'[c] /\ m <= sentAtClose'[c] + 1 /\ m <= sentAtClose'[c] + 0
      BY <3>1
    <3> QED BY <3>2 DEF m
  <2> QED BY <1>6, <2>1, <2>2
<1>9. StoppedSoFar'
  BY <1>4, <1>5 DEF StoppedSoFar
<1> QED BY <1>2, <1>7, <1>8, <1>9

(* A step of any process preserves the invariant. *)
LEMMA StepInd == IndInv /\ [Next]_vars => IndInv'
<1> SUFFICES ASSUME IndInv, [Next]_vars PROVE IndInv'
  OBVIOUS
<1>1. CASE UNCHANGED vars
  BY <1>1 DEF vars, driverVars, clientVars, IndInv, DriverInv, DriverTypeOK, Shapes, SentShape,
              JobShape, HistoryTypes, CutOffSoFar, StoppedSoFar
<1>2. ASSUME NEW c \in Callers, Call(c) PROVE IndInv'
  <2>1. "kind" \in DOMAIN NoJob
    BY DEF NoJob, Job
  <2>2. \A kind, op, plans, size : "kind" \in DOMAIN Job(kind, op, plans, size)
    BY DEF Job
  <2>3. \E j, r : "kind" \in DOMAIN j /\ Begin(c, j, r)
    <3>1. CASE ClosedCall(c)
      BY <2>1, <3>1 DEF ClosedCall
    <3>2. CASE BadRequest(c)
      BY <2>1, <3>2 DEF BadRequest
    <3>3. CASE \E op \in Operations : Execute(c, op)
      BY <2>2, <3>3 DEF Execute
    <3>4. CASE \E q \in RawQueries : ExecuteRaw(c, q)
      BY <2>2, <3>4 DEF ExecuteRaw
    <3>5. CASE ExecuteRawBatchEmpty(c)
      BY <2>1, <3>5 DEF ExecuteRawBatchEmpty
    <3>6. CASE \E b \in Batches : ExecuteRawBatch(c, b)
      BY <2>2, <3>6 DEF ExecuteRawBatch
    <3> QED BY <1>2, <3>1, <3>2, <3>3, <3>4, <3>5, <3>6 DEF Call
  <2> QED BY <2>3, BeginInd
<1> QED BY <1>1, <1>2, ProceedInd, CancelInd, CloserInd DEF Next

(* Every state of the client and its driver satisfies the invariant.       *)
THEOREM Invariance == Spec => []IndInv
BY InitInd, StepInd, PTL DEF Spec
-----------------------------------------------------------------------------
(* However many goroutines close the client, and however often, the        *)
(* connection is closed once, by the one that holds the mutex.             *)
THEOREM ClosedOnce == Spec => []ConnectionClosedOnce
<1>1. IndInv => ConnectionClosedOnce
  BY DriverAssumption DEF IndInv, DriverInv, ConnectionClosedOnce
<1> QED BY <1>1, Invariance, PTL

(* Once the driver is marked closed, each call under way gets at most the  *)
(* one statement it was already admitted with into the database.           *)
THEOREM CutOffByClose == Spec => []CloseCutsOff
<1>1. IndInv => CloseCutsOff
  BY DEF IndInv, Shapes, HistoryTypes, SentShape, CutOffSoFar, CloseCutsOff
<1> QED BY <1>1, Invariance, PTL

(* Once its context is cancelled, ExecuteRawBatch sends nothing after the  *)
(* statement under way, whatever the batch and its size.                   *)
THEOREM StoppedByCancel == Spec => []CancelStopsBatch
<1>1. IndInv => CancelStopsBatch
  BY DEF IndInv, Shapes, HistoryTypes, SentShape, StoppedSoFar, CancelStopsBatch
<1> QED BY <1>1, Invariance, PTL
=============================================================================
