-------------------------------- MODULE Client --------------------------------
(***************************************************************************)
(* client.Client over a driver: Execute with its chunks, ExecuteRaw,       *)
(* ExecuteRawBatch and Close, called from several goroutines.              *)
(*                                                                         *)
(* A call of Execute looks at the client's closed flag once, translates    *)
(* the request into a plan (write statements, then one read statement),    *)
(* splits the plan into chunks, and runs the statements one driver call at *)
(* a time, stopping at the first error.  What earlier statements changed   *)
(* stays changed.  When all have run, the data their read statements       *)
(* returned are put together into one answer.  ExecuteRaw is a plan of one *)
(* statement; ExecuteRawBatch is one such plan per batch, with a look at   *)
(* the context before each.                                                *)
(***************************************************************************)
EXTENDS Driver, Chunking

CONSTANTS
  Callers,       \* goroutines that execute requests
  Closers,       \* goroutines that call Client.Close
  Operations,    \* translated requests: [mode, itemwise, plan]
  RawQueries,    \* queries given to ExecuteRaw
  Batches,       \* arguments of ExecuteRawBatch: [query, items, size]
  BatchSize,     \* Client.batchSize
  DefaultRawBatchSize,
  MaxLost,       \* bound on replies lost after the statement ran
  Answer(_)      \* what the database returns for a statement

(* A parameter map has finitely many names, and a list in it is a sequence.*)
IsParams(params) ==
  /\ IsFiniteSet(DOMAIN params)
  /\ \A k \in ListKeys(params) : params[k].items \in Seq(Range(params[k].items))
  /\ params = [k \in DOMAIN params |->
                 IF k \in ListKeys(params) THEN List(params[k].items) ELSE params[k]]

(* A plan as the translator makes it: any number of write statements, then *)
(* the one that reads, all of them with the parameters of the one scope.   *)
IsPlan(plan) ==
  /\ plan.writes \in Seq(Range(plan.writes))
  /\ plan = [writes |-> [w \in DOMAIN plan.writes |-> Statement(plan.writes[w].query, plan.read.params)],
             read   |-> Statement(plan.read.query, plan.read.params)]
  /\ IsParams(plan.read.params)

ASSUME ClientAssumption ==
  /\ Procs = Callers \cup Closers
  /\ Callers \cap Closers = {}
  /\ BatchSize \in Nat \ {0}
  /\ DefaultRawBatchSize \in Nat \ {0}
  /\ MaxLost \in Nat
  /\ \A op \in Operations : IsPlan(op.plan)
  /\ \A q \in RawQueries : IsParams(q.params)
  /\ \A b \in Batches : b.size \in Int /\ b.items \in Seq(Range(b.items))

VARIABLES
  clientClosed,  \* the field closed
  job,           \* each caller's current or last call
  result,        \* what it returned
  cancelled,     \* its context has been cancelled
  lost,
  \* history
  delivered,     \* the statements of the call the database has run, in order
  sentAtCancel,  \* how many of them when its context was cancelled
  sentAtClose    \* how many of them when the driver was marked closed

clientVars == <<clientClosed, job, result, cancelled, lost, delivered, sentAtCancel, sentAtClose>>
vars == <<driverVars, clientVars>>

Results == {"none", "ok", "errClientClosed", "errRequest", "errContext", "errChunk"}

(* A call under way.  i and w: the chunk, and the statement within it, it  *)
(* is at; results: the data the chunks before returned; whole: the plan as *)
(* it was before it was split, kept for the properties.                    *)
Job(kind, op, plans, size) ==
  [kind |-> kind, mode |-> op.mode, itemwise |-> op.itemwise, whole |-> op.plan,
   plans |-> plans, size |-> size, i |-> 1, w |-> 1, results |-> <<>>, active |-> TRUE]

Single(query, params) ==
  [mode |-> "write", itemwise |-> TRUE,
   plan |-> [writes |-> <<>>, read |-> Statement(query, params)]]

NoJob == [Job("none", Single("", NoEntries), <<>>, 1) EXCEPT !.active = FALSE]

Init ==
  /\ DriverInit
  /\ clientClosed = FALSE
  /\ job = [c \in Callers |-> NoJob]
  /\ result = [c \in Callers |-> "none"]
  /\ cancelled = [c \in Callers |-> FALSE]
  /\ lost = 0
  /\ delivered = [c \in Callers |-> <<>>]
  /\ sentAtCancel = [c \in Callers |-> 0]
  /\ sentAtClose = [c \in Callers |-> 0]

-----------------------------------------------------------------------------
(* Calls. *)

(* A call of c begins with job j and, when it ends at once, result r. *)
Begin(c, j, r) ==
  /\ ~job[c].active
  /\ job' = [job EXCEPT ![c] = j]
  /\ result' = [result EXCEPT ![c] = r]
  /\ cancelled' = [cancelled EXCEPT ![c] = FALSE]
  /\ delivered' = [delivered EXCEPT ![c] = <<>>]
  /\ sentAtCancel' = [sentAtCancel EXCEPT ![c] = 0]
  /\ sentAtClose' = [sentAtClose EXCEPT ![c] = 0]
  /\ UNCHANGED <<driverVars, clientClosed, lost>>

(* isClosed, the first thing each of the three methods does. *)
ClosedCall(c) ==
  /\ clientClosed
  /\ Begin(c, NoJob, "errClientClosed")

(* Execute: empty query, parse error, no operation, translation error. *)
BadRequest(c) ==
  /\ ~clientClosed
  /\ Begin(c, NoJob, "errRequest")

Execute(c, op) ==
  /\ ~clientClosed
  /\ Begin(c, Job("execute", op, ChunkPlans(op.plan, BatchSize), BatchSize), "none")

ExecuteRaw(c, q) ==
  /\ ~clientClosed
  /\ LET op == Single(q.query, q.params)
     IN  Begin(c, Job("raw", op, <<op.plan>>, 1), "none")

ExecuteRawBatchEmpty(c) ==
  /\ ~clientClosed
  /\ Begin(c, NoJob, "ok")

ExecuteRawBatch(c, b) ==
  LET size == IF b.size <= 0 THEN DefaultRawBatchSize ELSE b.size
  IN  /\ ~clientClosed
      /\ b.items # <<>>
      /\ Begin(c, Job("batch", Single(b.query, [items |-> List(b.items)]),
                      RawBatchPlans(b.query, b.items, size), size), "none")

-----------------------------------------------------------------------------
(* The statements of a plan, in the order executeChunk runs them. *)

ChunkStatements(plan, mode) ==
  Append([w \in DOMAIN plan.writes |-> [mode |-> "write", stmt |-> plan.writes[w]]],
         [mode |-> mode, stmt |-> plan.read])

Current(c) ==
  LET j == job[c] IN ChunkStatements(j.plans[j.i], j.mode)[j.w]

(* Altered: the loop runs past a failed chunk to the next one. *)
Finish_Continues(c, r) ==
  /\ IF r = "errChunk" /\ job[c].i < Len(job[c].plans)
     THEN /\ job' = [job EXCEPT ![c].i = @ + 1, ![c].w = 1]
          /\ UNCHANGED result
     ELSE /\ job' = [job EXCEPT ![c].active = FALSE]
          /\ result' = [result EXCEPT ![c] = r]

(* The call returns r.  When a chunk failed, job[c].i is the number the    *)
(* error names ("chunk i/n failed").                                       *)
Finish(c, r) ==
  /\ job' = [job EXCEPT ![c].active = FALSE]
  /\ result' = [result EXCEPT ![c] = r]

LastOfChunk(c) == job[c].w > Len(job[c].plans[job[c].i].writes)
LastOfCall(c) == LastOfChunk(c) /\ job[c].i = Len(job[c].plans)

(* results = append(results, result.data), in Execute only. *)
Gathered(c) ==
  IF job[c].kind = "execute" /\ LastOfChunk(c)
  THEN Append(job[c].results, ExtractResultData(Answer(Current(c).stmt)))
  ELSE job[c].results

(* Altered: goes on to a chunk past the last. *)
Advance_OneTooFar(c) ==
  /\ job' = IF LastOfChunk(c)
            THEN [job EXCEPT ![c].i = @ + 1, ![c].w = 1, ![c].results = Gathered(c)]
            ELSE [job EXCEPT ![c].w = @ + 1]
  /\ UNCHANGED result

(* A statement worked: the next write, the read, the next chunk, or done.  *)
Advance(c) ==
  \/ /\ ~LastOfChunk(c)
     /\ job' = [job EXCEPT ![c].w = @ + 1]
     /\ UNCHANGED result
  \/ /\ LastOfChunk(c) /\ ~LastOfCall(c)
     /\ job' = [job EXCEPT ![c].i = @ + 1, ![c].w = 1, ![c].results = Gathered(c)]
     /\ UNCHANGED result
  \/ /\ LastOfCall(c)
     /\ job' = [job EXCEPT ![c].active = FALSE, ![c].results = Gathered(c)]
     /\ result' = [result EXCEPT ![c] = "ok"]

Between(c) == job[c].active /\ at[c] = "out"

(* Altered: the context is only looked at before the first batch. *)
ContextStops_Once(c) ==
  job[c].kind = "batch" /\ cancelled[c] /\ job[c].i = 1

(* ctx.Err() at the head of ExecuteRawBatch's loop; Execute has no such check. *)
ContextStops(c) == job[c].kind = "batch" /\ cancelled[c]

CancelledBatch(c) ==
  /\ Between(c)
  /\ ContextStops(c)
  /\ Finish(c, "errContext")
  /\ UNCHANGED <<driverVars, clientClosed, cancelled, lost, delivered, sentAtCancel, sentAtClose>>

(* drv.Execute or drv.ExecuteWrite is called with the next statement. *)
CallDriver(c) ==
  /\ Between(c)
  /\ ~ContextStops(c)
  /\ Enter(c)
  /\ UNCHANGED clientVars

DriverAdmits(c) ==
  /\ Admit(c)
  /\ UNCHANGED clientVars

DriverRefuses(c) ==
  /\ Refuse(c)
  /\ Finish(c, "errChunk")
  /\ UNCHANGED <<clientClosed, cancelled, lost, delivered, sentAtCancel, sentAtClose>>

Deliver(c) ==
  delivered' = [delivered EXCEPT ![c] = Append(@, Current(c))]

StatementRuns(c) ==
  /\ Run(c)
  /\ Deliver(c)
  /\ Advance(c)
  /\ UNCHANGED <<clientClosed, cancelled, lost, sentAtCancel, sentAtClose>>

StatementFails(c) ==
  /\ Fail(c)
  /\ Finish(c, "errChunk")
  /\ UNCHANGED <<clientClosed, cancelled, lost, delivered, sentAtCancel, sentAtClose>>

ReplyLost(c) ==
  /\ lost < MaxLost
  /\ lost' = lost + 1
  /\ Run(c)
  /\ Deliver(c)
  /\ Finish(c, "errChunk")
  /\ UNCHANGED <<clientClosed, cancelled, sentAtCancel, sentAtClose>>

(* The caller cancels the context it passed. *)
Cancel(c) ==
  /\ job[c].active
  /\ ~cancelled[c]
  /\ cancelled' = [cancelled EXCEPT ![c] = TRUE]
  /\ sentAtCancel' = [sentAtCancel EXCEPT ![c] = Len(delivered[c])]
  /\ UNCHANGED <<driverVars, clientClosed, job, result, lost, delivered, sentAtClose>>

-----------------------------------------------------------------------------
(* Client.Close: the flag, under the client's mutex; then the driver's Close. *)

Close(k) ==
  /\ clientClosed' = TRUE
  /\ CloseEnter(k)
  /\ UNCHANGED <<job, result, cancelled, lost, delivered, sentAtCancel, sentAtClose>>

DriverCloseAgain(k) ==
  /\ CloseAgain(k)
  /\ UNCHANGED clientVars

DriverCloseBegin(k) ==
  /\ CloseBegin(k)
  /\ sentAtClose' = [c \in Callers |-> Len(delivered[c])]
  /\ UNCHANGED <<clientClosed, job, result, cancelled, lost, delivered, sentAtCancel>>

DriverCloseEnd(k) ==
  /\ CloseEnd(k)
  /\ UNCHANGED clientVars

-----------------------------------------------------------------------------
Call(c) ==
  \/ ClosedCall(c)
  \/ BadRequest(c)
  \/ \E op \in Operations : Execute(c, op)
  \/ \E q \in RawQueries : ExecuteRaw(c, q)
  \/ ExecuteRawBatchEmpty(c)
  \/ \E b \in Batches : ExecuteRawBatch(c, b)

Proceed(c) ==
  \/ CancelledBatch(c)
  \/ CallDriver(c)
  \/ DriverAdmits(c)
  \/ DriverRefuses(c)
  \/ StatementRuns(c)
  \/ StatementFails(c)
  \/ ReplyLost(c)

ProceedClose(k) ==
  \/ DriverCloseAgain(k)
  \/ DriverCloseBegin(k)
  \/ DriverCloseEnd(k)

Next ==
  \/ \E c \in Callers : Call(c) \/ Proceed(c) \/ Cancel(c)
  \/ \E k \in Closers : Close(k) \/ ProceedClose(k)

Spec == Init /\ [][Next]_vars

(* Goroutines inside a call are scheduled, the connection answers or fails *)
(* in the end, and a goroutine waiting for the driver's mutex gets it.     *)
FairSpec ==
  /\ Spec
  /\ \A c \in Callers : SF_vars(Proceed(c))
  /\ \A k \in Closers : SF_vars(ProceedClose(k))

-----------------------------------------------------------------------------
Program(j) ==
  FlattenSeq([i \in DOMAIN j.plans |-> ChunkStatements(j.plans[i], j.mode)])

StatementsBefore(j) ==
  Len(FlattenSeq([i \in 1..(j.i - 1) |-> ChunkStatements(j.plans[i], j.mode)]))

TypeOK ==
  /\ DriverTypeOK
  /\ clientClosed \in BOOLEAN
  /\ DOMAIN job = Callers
  /\ \A c \in Callers :
       /\ job[c].active \in BOOLEAN
       /\ job[c].active => job[c].i \in DOMAIN job[c].plans
       /\ job[c].active => job[c].w \in 1..Len(job[c].plans[job[c].i].writes) + 1
  /\ result \in [Callers -> Results]
  /\ cancelled \in [Callers -> BOOLEAN]
  /\ lost \in 0..MaxLost
  /\ sentAtCancel \in [Callers -> Nat]
  /\ sentAtClose \in [Callers -> Nat]

(* The database runs the statements of a call in the order of its plan,    *)
(* each once, and never one that follows a failure.                        *)
DeliveryIsPrefix ==
  \A c \in Callers : IsPrefix(delivered[c], Program(job[c]))

(* What the database was sent for the w-th statement of the plan, chunk by *)
(* chunk.                                                                  *)
Received(c, w) ==
  LET width == Len(job[c].whole.writes) + 1
  IN  [i \in DOMAIN job[c].plans |-> delivered[c][(i - 1) * width + w].stmt]

(* Together, the statements got hand over what the one statement sent does:*)
(* its query, its parameters, and the elements of its lists once, in order,*)
(* in slices of at most size unless it is raw.                             *)
HandOver(got, sent, kind, size) ==
  /\ \A i \in DOMAIN got : got[i].query = sent.query
  /\ \A k \in DOMAIN sent.params \ ListKeys(sent.params) :
       \A i \in DOMAIN got : got[i].params[k] = sent.params[k]
  /\ \A k \in ListKeys(sent.params) :
       /\ FlattenSeq([i \in DOMAIN got |-> got[i].params[k].items]) = sent.params[k].items
       /\ kind # "raw" => \A i \in DOMAIN got : Len(got[i].params[k].items) <= size

(* A call that returns no error has handed every list over completely:     *)
(* each statement of the plan has run once per chunk and has received the  *)
(* elements of each list once, in order, in slices of at most the batch    *)
(* size, and every other parameter as it was.                              *)
ListsArriveWhole ==
  \A c \in Callers :
    result[c] = "ok" =>
      LET plan == ChunkStatements(job[c].whole, job[c].mode)
      IN  /\ Len(delivered[c]) = Len(job[c].plans) * Len(plan)
          /\ \A w \in DOMAIN plan :
               HandOver(Received(c, w), plan[w].stmt, job[c].kind, job[c].size)

(* What Execute returns: the data of the one chunk, or of all of them put  *)
(* together.                                                               *)
Returned(c) == AggregateResults(job[c].results)

Whole(c) == ExtractResultData(Answer(job[c].whole.read))

(* The parameters with the elements lo + 1 to hi of each list.             *)
Window(params, lo, hi) ==
  [k \in DOMAIN params |->
     IF k \in ListKeys(params)
     THEN List(SubSeq(params[k].items, lo + 1, Min({hi, Len(params[k].items)})))
     ELSE params[k]]

(* Of a database that answers a mutation item by item: its answers for the *)
(* first items and for the next ones, put together, are its answer for all *)
(* of these.                                                               *)
AnswersAddUp ==
  \A op \in {o \in Operations : o.mode = "write" /\ o.itemwise} :
    LET params == op.plan.read.params
        Data(lo, hi) ==
          ExtractResultData(Answer(Statement(op.plan.read.query, Window(params, lo, hi))))
    IN  \A c \in 0..MaxLen(params) :
          /\ Data(0, c) = [k \in DOMAIN Data(0, c) |-> Data(0, c)[k]]
          /\ \A b \in 1..(c - 1) : Data(0, c) = MergeData(Data(0, b), Data(b, c))

(* A mutation whose list parameters are lists of input items returns what  *)
(* it would have returned had it not been split.                           *)
MutationAnswerIsWhole ==
  \A c \in Callers :
    /\ job[c].kind = "execute" /\ job[c].mode = "write" /\ job[c].itemwise
    /\ result[c] = "ok"
    => Returned(c) = Whole(c)

(* The chunk number in an error is where to resume: every earlier chunk is *)
(* in the database completely, no later one is at all, and the named one   *)
(* is not complete unless its last reply was lost.                         *)
ErrorNamesResumePoint ==
  \A c \in Callers :
    result[c] = "errChunk" =>
      LET done == StatementsBefore(job[c])
          named == Len(ChunkStatements(job[c].plans[job[c].i], job[c].mode))
      IN  /\ Len(delivered[c]) >= done
          /\ Len(delivered[c]) <= done + named
          /\ lost = 0 => Len(delivered[c]) < done + named

(* Once the driver is marked closed, a call in flight gets at most the one *)
(* statement it was already admitted with into the database.               *)
CloseCutsOff ==
  drvClosed => \A c \in Callers : Len(delivered[c]) <= sentAtClose[c] + 1

(* Once its context is cancelled, ExecuteRawBatch sends nothing after the  *)
(* statement under way.                                                    *)
CancelStopsBatch ==
  \A c \in Callers :
    job[c].kind = "batch" /\ cancelled[c] => Len(delivered[c]) <= sentAtCancel[c] + 1

(* Every call of the client returns, and so does every Close. *)
CallsReturn ==
  /\ \A c \in Callers : job[c].active ~> ~job[c].active
  /\ \A k \in Closers : at[k] # "out" ~> at[k] = "out"

-----------------------------------------------------------------------------
(* What the documentation says that the code does not ensure. *)

(* "Query operations are never chunked (no list inputs)": a query returns  *)
(* what its one statement returns.  A filter _in or _nin is a list.        *)
QueryAnswerIsWhole ==
  \A c \in Callers :
    job[c].kind = "execute" /\ job[c].mode = "read" /\ result[c] = "ok"
    => Returned(c) = Whole(c)

=============================================================================
