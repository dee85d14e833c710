---------------------------- MODULE ClientCallProofs ----------------------------
(***************************************************************************)
(* What a call of the client sends to the database and what it reports,    *)
(* for any plans, lists, batch sizes, failures and interleavings.          *)
(*                                                                         *)
(* The invariant CallInv says of every call whether it is under way, failed*)
(* complete or never begun, and what the database has run in each case: the*)
(* chunks before the one it is at, and the statements before the one it is *)
(* at.  The properties follow from it by lemmas on concatenations.         *)
(***************************************************************************)
EXTENDS ClientProofs
-----------------------------------------------------------------------------
(* The statements of a call, chunk by chunk; those of the first n chunks   *)
(* are Upto(Stages(j), n).                                                 *)
Stages(j) == [i \in DOMAIN j.plans |-> ChunkStatements(j.plans[i], j.mode)]

HasJobFields(j) ==
  j = [kind |-> j.kind, mode |-> j.mode, itemwise |-> j.itemwise, whole |-> j.whole,
       plans |-> j.plans, size |-> j.size, i |-> j.i, w |-> j.w, results |-> j.results,
       active |-> j.active]

(* A call as Job builds one, over the statements of some set: as many      *)
(* write statements in each chunk as in the plan.                          *)
IsJob(j) ==
  /\ HasJobFields(j)
  /\ Len(j.plans) \in Nat /\ DOMAIN j.plans = 1..Len(j.plans)
  /\ Len(j.whole.writes) \in Nat /\ DOMAIN j.whole.writes = 1..Len(j.whole.writes)
  /\ \E S : \A i \in DOMAIN j.plans : Stages(j)[i] \in Seq(S)
  /\ \A i \in DOMAIN j.plans : /\ Len(j.plans[i].writes) = Len(j.whole.writes)
                               /\ Len(Stages(j)[i]) = Len(j.whole.writes) + 1

(* Over its chunks, each statement of the plan is handed over.             *)
Carries(j) ==
  \A w \in 1..Len(j.whole.writes) + 1 :
    HandOver([i \in DOMAIN j.plans |-> Stages(j)[i][w].stmt],
             ChunkStatements(j.whole, j.mode)[w].stmt, j.kind, j.size)

(* Where the call is, and what the database has been sent when it has run  *)
(* n statements of the chunk the call is at.                               *)
InPlans(j) == j.i \in 1..Len(j.plans) /\ j.w \in 1..Len(j.whole.writes) + 1

SentAt(j, n) == FlattenSeq(Upto(Stages(j), j.i - 1)) \o SubSeq(Stages(j)[j.i], 1, n)

(* A call j with result r, the statements d it has delivered, and l replies*)
(* lost: under way; failed at the statement it is at, whose reply may have *)
(* been lost; complete; or never begun.                                    *)
Underway(j, r, d) ==
  /\ j.active /\ r = "none"
  /\ InPlans(j)
  /\ d = SentAt(j, j.w - 1)

Failed(j, r, d, l) ==
  /\ ~j.active /\ r \in {"errContext", "errChunk"}
  /\ InPlans(j)
  /\ d = SentAt(j, j.w - 1) \/ (l > 0 /\ d = SentAt(j, j.w))

Complete(j, r, d) == ~j.active /\ r = "ok" /\ d = Program(j)

NotBegun(j, r, d) ==
  ~j.active /\ r \in {"none", "errClientClosed", "errRequest"} /\ d = <<>>

CallOK(j, r, d, l) ==
  /\ IsJob(j) /\ j.active \in BOOLEAN
  /\ Carries(j)
  /\ Underway(j, r, d) \/ Failed(j, r, d, l) \/ Complete(j, r, d) \/ NotBegun(j, r, d)

CallInv ==
  /\ clientClosed \in BOOLEAN /\ lost \in 0..MaxLost
  /\ result = [c \in Callers |-> result[c]]
  /\ \A c \in Callers :
       /\ CallOK(job[c], result[c], delivered[c], lost)
       /\ at[c] # "out" => job[c].active
-----------------------------------------------------------------------------
(* The chunks of a call are sequences over one set. *)
LEMMA StagesType ==
  ASSUME NEW j, IsJob(j)
  PROVE  /\ \E S : Stages(j) \in Seq(Seq(S))
         /\ Len(Stages(j)) = Len(j.plans)
         /\ DOMAIN Stages(j) = 1..Len(j.plans)
<1>1. PICK S : \A i \in DOMAIN j.plans : Stages(j)[i] \in Seq(S)
  BY DEF IsJob
<1>2. DOMAIN j.plans = 1..Len(j.plans) /\ Len(j.plans) \in Nat
  BY DEF IsJob
<1>3. Stages(j) = [i \in 1..Len(j.plans) |-> Stages(j)[i]]
  BY <1>2 DEF Stages
<1> DEFINE ss == Stages(j)
           n == Len(j.plans)
<1> HIDE DEF ss, n
<1>4. ss = [i \in 1..n |-> ss[i]] /\ n \in Nat /\ \A i \in 1..n : ss[i] \in Seq(S)
  BY <1>1, <1>2, <1>3 DEF ss, n
<1>5. ss \in Seq(Seq(S)) /\ Len(ss) = n /\ DOMAIN ss = 1..n
  BY <1>4
<1> QED BY <1>5 DEF ss, n

(* What was sent before the chunk a call is at, and that chunk. *)
LEMMA BeforeType ==
  ASSUME NEW j, NEW S, Stages(j) \in Seq(Seq(S)), IsJob(j), InPlans(j)
  PROVE  /\ FlattenSeq(Upto(Stages(j), j.i - 1)) \in Seq(S)
         /\ Stages(j)[j.i] \in Seq(S)
         /\ Len(Stages(j)[j.i]) = Len(j.whole.writes) + 1
         /\ Len(j.whole.writes) \in Nat
         /\ FlattenSeq(Upto(Stages(j), j.i)) = FlattenSeq(Upto(Stages(j), j.i - 1)) \o Stages(j)[j.i]
         /\ Len(FlattenSeq(Upto(Stages(j), j.i - 1))) = StatementsBefore(j)
<1>1. /\ j.i \in 1..Len(j.plans) /\ Len(j.plans) \in Nat /\ DOMAIN j.plans = 1..Len(j.plans)
      /\ Len(Stages(j)) = Len(j.plans)
  BY StagesType DEF InPlans, IsJob
<1>2. PICK n \in Nat : n = j.i - 1
  BY <1>1
<1>3. n \in 0..Len(Stages(j)) /\ n < Len(Stages(j)) /\ j.i = n + 1
  BY <1>1, <1>2
<1>4. /\ FlattenSeq(Upto(Stages(j), n)) \in Seq(S)
      /\ FlattenSeq(Upto(Stages(j), n + 1)) = FlattenSeq(Upto(Stages(j), n)) \o Stages(j)[n + 1]
  BY <1>3, FlattenNext
<1>5. Stages(j)[j.i] \in Seq(S)
  BY <1>1
<1>6. Len(Stages(j)[j.i]) = Len(j.whole.writes) + 1 /\ Len(j.whole.writes) \in Nat
  BY <1>1 DEF IsJob
<1>7. Upto(Stages(j), j.i - 1) = [i \in 1..(j.i - 1) |-> ChunkStatements(j.plans[i], j.mode)]
  <2>1. \A i \in 1..(j.i - 1) : i \in DOMAIN j.plans
    BY <1>1
  <2> QED BY <2>1 DEF Upto, Stages
<1>8. Len(FlattenSeq(Upto(Stages(j), j.i - 1))) = StatementsBefore(j)
  BY <1>7 DEF StatementsBefore
<1> QED BY <1>2, <1>3, <1>4, <1>5, <1>6, <1>8

(* What has been sent in the middle of a call begins the program of the    *)
(* call, and its length says where the call is.                            *)
LEMMA SentAtBegins ==
  ASSUME NEW j, IsJob(j), InPlans(j), NEW n \in 0..Len(j.whole.writes) + 1
  PROVE  /\ IsPrefix(SentAt(j, n), Program(j))
         /\ Len(SentAt(j, n)) = StatementsBefore(j) + n
         /\ StatementsBefore(j) \in Nat
<1>1. PICK S : Stages(j) \in Seq(Seq(S))
  BY StagesType
<1>2. /\ j.i \in 1..Len(j.plans) /\ Len(j.plans) \in Nat /\ Len(Stages(j)) = Len(j.plans)
  BY StagesType DEF InPlans, IsJob
<1> DEFINE before == FlattenSeq(Upto(Stages(j), j.i - 1))
           stage == Stages(j)[j.i]
           upto == FlattenSeq(Upto(Stages(j), j.i))
<1>3. /\ before \in Seq(S) /\ stage \in Seq(S) /\ Len(stage) = Len(j.whole.writes) + 1
      /\ upto = before \o stage /\ Len(before) = StatementsBefore(j)
  BY <1>1, BeforeType
<1>4. IsPrefix(upto, Program(j))
  <2>1. j.i \in 0..Len(Stages(j))
    BY <1>2
  <2>2. Program(j) = FlattenSeq(Stages(j))
    BY DEF Program, Stages
  <2> QED BY <1>1, <2>1, <2>2, FlattenPrefix
<1>5. Program(j) \in Seq(S)
  <2>1. Len(Stages(j)) \in 0..Len(Stages(j)) /\ Upto(Stages(j), Len(Stages(j))) = Stages(j)
    BY <1>1, <1>2, UptoAll
  <2>2. FlattenSeq(Upto(Stages(j), Len(Stages(j)))) \in Seq(S)
    BY <1>1, <2>1, FlattenNext
  <2> QED BY <2>1, <2>2 DEF Program, Stages
<1>6. SentAt(j, n) = before \o SubSeq(stage, 1, n)
  BY DEF SentAt
<1> HIDE DEF before, stage, upto
<1>7. /\ before \o SubSeq(stage, 1, n) \in Seq(S) /\ IsPrefix(before \o SubSeq(stage, 1, n), before \o stage)
      /\ SubSeq(stage, 1, n) \in Seq(S) /\ Len(SubSeq(stage, 1, n)) = n
  <2>1. n \in 0..Len(stage)
    BY <1>3
  <2> QED BY <1>3, <2>1, PrefixSlice
<1>8. upto \in Seq(S)
  BY <1>3, PrefixOfConcat
<1> DEFINE sent == SentAt(j, n)
<1>9. sent \in Seq(S) /\ IsPrefix(sent, upto)
  BY <1>3, <1>6, <1>7
<1> HIDE DEF sent
<1>10. IsPrefix(sent, Program(j))
  <2> DEFINE all == Program(j)
  <2> HIDE DEF all
  <2>1. all \in Seq(S) /\ IsPrefix(upto, all)
    BY <1>4, <1>5 DEF all
  <2>2. IsPrefix(sent, all)
    BY <1>8, <1>9, <2>1, PrefixTransitive
  <2> QED BY <2>2 DEF all
<1>11. Len(before \o SubSeq(stage, 1, n)) = Len(before) + n
  <2> DEFINE part == SubSeq(stage, 1, n)
  <2>1. part \in Seq(S) /\ Len(part) = n
    BY <1>7
  <2> HIDE DEF part
  <2>2. Len(before \o part) = Len(before) + Len(part)
    BY <1>3, <2>1, ConcatElements
  <2> QED BY <2>1, <2>2 DEF part
<1>12. StatementsBefore(j) \in Nat
  BY <1>3
<1> QED BY <1>3, <1>6, <1>10, <1>11, <1>12 DEF sent

(* One statement further; the last of a chunk begins the next; the last of *)
(* all completes the program.                                              *)
LEMMA SentNext ==
  ASSUME NEW j, IsJob(j), InPlans(j)
  PROVE  /\ Append(SentAt(j, j.w - 1), Stages(j)[j.i][j.w]) = SentAt(j, j.w)
         /\ j.i = Len(j.plans) /\ j.w = Len(j.whole.writes) + 1 => SentAt(j, j.w) = Program(j)
         /\ j.w = Len(j.whole.writes) + 1 => SentAt(j, j.w) = FlattenSeq(Upto(Stages(j), j.i))
<1>1. PICK S : Stages(j) \in Seq(Seq(S))
  BY StagesType
<1>2. /\ j.i \in 1..Len(j.plans) /\ Len(j.plans) \in Nat /\ Len(Stages(j)) = Len(j.plans)
  BY StagesType DEF InPlans, IsJob
<1> DEFINE before == FlattenSeq(Upto(Stages(j), j.i - 1))
           stage == Stages(j)[j.i]
           upto == FlattenSeq(Upto(Stages(j), j.i))
<1>3. /\ before \in Seq(S) /\ stage \in Seq(S) /\ Len(stage) = Len(j.whole.writes) + 1
      /\ upto = before \o stage
  BY <1>1, BeforeType
<1>4. \A n : SentAt(j, n) = before \o SubSeq(stage, 1, n)
  BY DEF SentAt
<1>5. PICK w \in Nat : w = j.w
  BY DEF InPlans, IsJob
<1>6. w \in 1..Len(stage)
  BY <1>3, <1>5 DEF InPlans
<1>7. ASSUME w = Len(j.whole.writes) + 1
      PROVE  SentAt(j, j.w) = upto
  <2>1. SubSeq(stage, 1, Len(stage)) = stage
    BY <1>3
  <2> QED BY <1>3, <1>4, <1>5, <1>7, <2>1
<1>8. ASSUME j.i = Len(j.plans)
      PROVE  upto = Program(j)
  <2>1. Upto(Stages(j), Len(Stages(j))) = Stages(j)
    BY <1>1, UptoAll
  <2> QED BY <1>2, <1>8, <2>1 DEF Program, Stages
<1> HIDE DEF before, stage, upto
<1>9. Append(before \o SubSeq(stage, 1, w - 1), stage[w]) = before \o SubSeq(stage, 1, w)
  <2> DEFINE part == SubSeq(stage, 1, w - 1)
             more == SubSeq(stage, 1, w)
  <2>1. part \in Seq(S) /\ stage[w] \in S /\ Append(part, stage[w]) = more
    <3>1. /\ part \in Seq(S) /\ stage[w] \in S /\ more \in Seq(S) /\ Len(part) = w - 1 /\ Len(more) = w
          /\ \A i \in 1..w - 1 : part[i] = stage[i]
          /\ \A i \in 1..w : more[i] = stage[i]
      BY <1>3, <1>6
    <3> HIDE DEF part, more
    <3> QED BY <3>1, <1>6
  <2> HIDE DEF part, more
  <2>2. Append(before \o part, stage[w]) = before \o Append(part, stage[w])
    <3>1. before \in Seq(S) /\ part \in Seq(S) /\ stage[w] \in S
      BY <1>3, <2>1
    <3> DEFINE e == stage[w]
    <3> HIDE DEF e
    <3>2. before \in Seq(S) /\ part \in Seq(S) /\ e \in S
      BY <3>1 DEF e
    <3>3. Append(before \o part, e) = before \o Append(part, e)
      BY <3>2
    <3> QED BY <3>3 DEF e
  <2> QED BY <2>1, <2>2 DEF part, more
<1>10. Append(SentAt(j, j.w - 1), stage[j.w]) = SentAt(j, j.w)
  BY <1>4, <1>5, <1>9
<1> QED BY <1>5, <1>7, <1>8, <1>10 DEF stage, upto

-----------------------------------------------------------------------------
(* Chunks that carry their plan. *)

(* The statements of one chunk: the writes in their order, then the read.  *)
LEMMA ChunkStatementsOf ==
  ASSUME NEW plan, NEW mode, Len(plan.writes) \in Nat, DOMAIN plan.writes = 1..Len(plan.writes)
  PROVE  LET st == ChunkStatements(plan, mode)
             n == Len(plan.writes)
         IN  /\ \E S : st \in Seq(S)
             /\ Len(st) = n + 1 /\ DOMAIN st = 1..n + 1
             /\ \A w \in 1..n : st[w].stmt = plan.writes[w]
             /\ st[n + 1].stmt = plan.read
<1> DEFINE ws == [w \in DOMAIN plan.writes |-> [mode |-> "write", stmt |-> plan.writes[w]]]
           last == [mode |-> mode, stmt |-> plan.read]
           n == Len(plan.writes)
           S == {ws[w] : w \in 1..n} \cup {last}
           st == Append(ws, last)
<1>1. /\ ws = [w \in 1..n |-> ws[w]] /\ n \in Nat
      /\ \A w \in 1..n : ws[w].stmt = plan.writes[w]
  OBVIOUS
<1>6. last.stmt = plan.read
  OBVIOUS
<1>2. last \in S /\ \A w \in 1..n : ws[w] \in S
  OBVIOUS
<1>3. st = ChunkStatements(plan, mode)
  BY DEF ChunkStatements
<1> HIDE DEF S, ws, n
<1>4. ws \in Seq(S) /\ Len(ws) = n
  BY <1>1, <1>2
<1> HIDE DEF last
<1>5. /\ st \in Seq(S) /\ Len(st) = n + 1 /\ DOMAIN st = 1..n + 1
      /\ \A w \in 1..n : st[w] = ws[w]
      /\ st[n + 1] = last
  BY <1>1, <1>2, <1>4
<1> HIDE DEF st
<1>7. /\ \E T : st \in Seq(T)
      /\ Len(st) = n + 1 /\ DOMAIN st = 1..n + 1
      /\ \A w \in 1..n : st[w].stmt = plan.writes[w]
      /\ st[n + 1].stmt = plan.read
  BY <1>1, <1>5, <1>6
<1> QED BY <1>3, <1>7, Zenon DEF n

(* The parameter maps p hold the lists of params in n parts, which are of  *)
(* at most size elements unless the call is raw, and its other parameters. *)
PartsOf(p, n, params, kind, size) ==
  /\ \A k \in DOMAIN params \ ListKeys(params) : \A i \in 1..n : p[i][k] = params[k]
  /\ \A k \in ListKeys(params) :
       /\ FlattenSeq([i \in 1..n |-> p[i][k].items]) = params[k].items
       /\ kind # "raw" => \A i \in 1..n : Len(p[i][k].items) <= size

(* Statements with one query and a parameter map each that holds the       *)
(* slices of the lists and the other parameters.                           *)
LEMMA HandedOver ==
  ASSUME NEW n \in Nat, NEW p, NEW params, NEW q, NEW got, NEW sent, NEW kind, NEW size,
         DOMAIN got = 1..n,
         \A i \in 1..n : got[i] = Statement(q, p[i]),
         sent = Statement(q, params),
         PartsOf(p, n, params, kind, size)
  PROVE  HandOver(got, sent, kind, size)
<1>1. \A i \in 1..n : got[i].query = q /\ got[i].params = p[i]
  BY DEF Statement
<1>2. sent.query = q /\ sent.params = params
  BY DEF Statement
<1>3. ASSUME NEW k
      PROVE  [i \in DOMAIN got |-> got[i].params[k].items] = [i \in 1..n |-> p[i][k].items]
  BY <1>1
<1>4. ASSUME NEW k \in ListKeys(params)
      PROVE  /\ FlattenSeq([i \in DOMAIN got |-> got[i].params[k].items]) = params[k].items
             /\ kind # "raw" => \A i \in DOMAIN got : Len(got[i].params[k].items) <= size
  <2>1. FlattenSeq([i \in DOMAIN got |-> got[i].params[k].items]) = params[k].items
    BY <1>3, <1>4, Zenon DEF PartsOf
  <2> QED BY <1>1, <1>4, <2>1 DEF PartsOf
<1>5. \A k \in DOMAIN params \ ListKeys(params) : \A i \in DOMAIN got : got[i].params[k] = params[k]
  BY <1>1 DEF PartsOf
<1> QED BY <1>1, <1>2, <1>4, <1>5 DEF HandOver

(* What makes a call that carries its plan: every chunk has the queries of *)
(* the plan and one parameter map p[i] for all its statements, which holds *)
(* the slices of the plan's lists and its other parameters.                *)
LEMMA CarriedPlan ==
  ASSUME NEW j, NEW plan, NEW n \in Nat, NEW p,
         HasJobFields(j),
         j.whole = plan, IsPlan(plan),
         j.plans = [i \in 1..n |-> BuildChunkPlan(plan, p[i])],
         PartsOf(p, n, plan.read.params, j.kind, j.size)
  PROVE  IsJob(j) /\ Carries(j) /\ Len(j.plans) = n
<1> DEFINE m == Len(plan.writes)
<1>1. m \in Nat /\ DOMAIN plan.writes = 1..m
  <2>1. plan.writes \in Seq(Range(plan.writes))
    BY DEF IsPlan
  <2> QED BY <2>1
<1>2. /\ \A w \in 1..m : plan.writes[w] = Statement(plan.writes[w].query, plan.read.params)
      /\ plan.read = Statement(plan.read.query, plan.read.params)
  <2> DEFINE writes == [w \in DOMAIN plan.writes |-> Statement(plan.writes[w].query, plan.read.params)]
             read == Statement(plan.read.query, plan.read.params)
  <2>1. plan = [writes |-> writes, read |-> read]
    BY DEF IsPlan
  <2>2. \A w \in 1..m : writes[w] = Statement(plan.writes[w].query, plan.read.params)
    BY <1>1
  <2> HIDE DEF writes, read
  <2>3. plan.writes = writes /\ plan.read = read
    BY <2>1
  <2> QED BY <2>2, <2>3 DEF read
<1>3. Len(j.plans) = n /\ DOMAIN j.plans = 1..n
  OBVIOUS
<1>4. ASSUME NEW i \in 1..n
      PROVE  /\ Len(j.plans[i].writes) = m /\ DOMAIN j.plans[i].writes = 1..m
             /\ \A w \in 1..m : j.plans[i].writes[w] = Statement(plan.writes[w].query, p[i])
             /\ j.plans[i].read = Statement(plan.read.query, p[i])
  <2>1. j.plans[i] = BuildChunkPlan(plan, p[i])
    OBVIOUS
  <2>2. /\ BuildChunkPlan(plan, p[i]).writes = [w \in 1..m |-> Statement(plan.writes[w].query, p[i])]
        /\ BuildChunkPlan(plan, p[i]).read = Statement(plan.read.query, p[i])
    BY <1>1 DEF BuildChunkPlan
  <2> DEFINE writes == [w \in 1..m |-> Statement(plan.writes[w].query, p[i])]
  <2>3. /\ Len(writes) = m /\ DOMAIN writes = 1..m
        /\ \A w \in 1..m : writes[w] = Statement(plan.writes[w].query, p[i])
    BY <1>1
  <2> HIDE DEF writes
  <2> QED BY <2>1, <2>2, <2>3 DEF writes
<1>5. ASSUME NEW i \in 1..n
      PROVE  /\ \E S : Stages(j)[i] \in Seq(S)
             /\ Len(Stages(j)[i]) = m + 1
             /\ \A w \in 1..m : Stages(j)[i][w].stmt = Statement(plan.writes[w].query, p[i])
             /\ Stages(j)[i][m + 1].stmt = Statement(plan.read.query, p[i])
  <2> DEFINE chunk == j.plans[i]
             stage == ChunkStatements(chunk, j.mode)
  <2>1. Stages(j)[i] = stage
    BY <1>3 DEF Stages
  <2>2. /\ Len(chunk.writes) = m /\ DOMAIN chunk.writes = 1..m
        /\ \A w \in 1..m : chunk.writes[w] = Statement(plan.writes[w].query, p[i])
        /\ chunk.read = Statement(plan.read.query, p[i])
    BY <1>4
  <2>3. Len(chunk.writes) \in Nat /\ DOMAIN chunk.writes = 1..Len(chunk.writes)
    BY <1>1, <2>2
  <2> HIDE DEF chunk, m
  <2>4. /\ \E S : stage \in Seq(S)
        /\ Len(stage) = Len(chunk.writes) + 1
        /\ \A w \in 1..Len(chunk.writes) : stage[w].stmt = chunk.writes[w]
        /\ stage[Len(chunk.writes) + 1].stmt = chunk.read
    BY <2>3, ChunkStatementsOf
  <2> HIDE DEF stage
  <2>5. /\ \A w \in 1..m : stage[w].stmt = Statement(plan.writes[w].query, p[i])
        /\ stage[m + 1].stmt = Statement(plan.read.query, p[i])
        /\ Len(stage) = m + 1
    <3>1. /\ \A w \in 1..m : stage[w].stmt = chunk.writes[w]
          /\ stage[m + 1].stmt = chunk.read
          /\ Len(stage) = m + 1
      <4>1. Len(chunk.writes) = m
        BY <2>2
      <4> QED BY <2>4, <4>1, Zenon
    <3> QED BY <2>2, <3>1, Zenon
  <2> QED BY <2>1, <2>4, <2>5
<1> DEFINE st == ChunkStatements(plan, j.mode)
<1>6. /\ \A w \in 1..m : st[w].stmt = Statement(plan.writes[w].query, plan.read.params)
      /\ st[m + 1].stmt = Statement(plan.read.query, plan.read.params)
  <2> HIDE DEF m
  <2>1. /\ \A w \in 1..Len(plan.writes) : st[w].stmt = plan.writes[w]
        /\ st[Len(plan.writes) + 1].stmt = plan.read
    BY <1>1, ChunkStatementsOf DEF m
  <2> HIDE DEF st
  <2>2. (\A w \in 1..m : st[w].stmt = plan.writes[w]) /\ st[m + 1].stmt = plan.read
    BY <2>1 DEF m
  <2> QED BY <1>2, <2>2, Zenon
<1>7. IsJob(j)
  <2>1. \E S : \A i \in DOMAIN j.plans : Stages(j)[i] \in Seq(S)
    <3> DEFINE S == UNION {Range(Stages(j)[i]) : i \in 1..n}
    <3>1. ASSUME NEW i \in 1..n PROVE Stages(j)[i] \in Seq(S)
      <4>1. PICK T : Stages(j)[i] \in Seq(T)
        BY <1>5
      <4> DEFINE stage == Stages(j)[i]
      <4>2. Range(stage) \subseteq S
        OBVIOUS
      <4> HIDE DEF S, stage
      <4>3. \A w \in 1..Len(stage) : stage[w] \in S
        BY <4>1, <4>2 DEF Range, stage
      <4>4. stage \in Seq(S)
        BY <4>1, <4>3 DEF stage
      <4> QED BY <4>4 DEF stage
    <3> QED BY <1>3, <3>1
  <2> HIDE DEF m
  <2>2. \A i \in DOMAIN j.plans : Len(j.plans[i].writes) = m /\ Len(Stages(j)[i]) = m + 1
    BY <1>3, <1>4, <1>5
  <2>3. Len(j.whole.writes) = m /\ DOMAIN j.whole.writes = 1..m
    BY <1>1 DEF m
  <2> QED BY <1>1, <1>3, <2>1, <2>2, <2>3 DEF IsJob
<1>8. Carries(j)
  <2> SUFFICES ASSUME NEW w \in 1..m + 1
      PROVE  HandOver([i \in 1..n |-> Stages(j)[i][w].stmt], st[w].stmt, j.kind, j.size)
    BY <1>3 DEF Carries
  <2> DEFINE got == [i \in 1..n |-> Stages(j)[i][w].stmt]
             sent == st[w].stmt
  <2> HIDE DEF st
  <2>1. PICK q : sent = Statement(q, plan.read.params) /\ \A i \in 1..n : got[i] = Statement(q, p[i])
    <3> HIDE DEF m
    <3>1. CASE w \in 1..m
      BY <1>1, <1>5, <1>6, <3>1
    <3>2. CASE w = m + 1
      BY <1>1, <1>5, <1>6, <3>2
    <3> QED BY <1>1, <3>1, <3>2
  <2>2. DOMAIN got = 1..n
    OBVIOUS
  <2> HIDE DEF got, sent
  <2>3. HandOver(got, sent, j.kind, j.size)
    BY <2>1, <2>2, HandedOver
  <2> QED BY <2>3 DEF got, sent
<1> QED BY <1>3, <1>7, <1>8

-----------------------------------------------------------------------------
(* The chunks Execute, ExecuteRaw and ExecuteRawBatch make. *)

(* A list in one part is itself. *)
LEMMA OnePart ==
  ASSUME NEW params, NEW kind, NEW size, IsParams(params),
         kind = "raw" \/ (size \in Nat /\ MaxLen(params) <= size)
  PROVE  PartsOf(<<params>>, 1, params, kind, size)
<1>1. ASSUME NEW k \in ListKeys(params)
      PROVE  FlattenSeq([i \in 1..1 |-> <<params>>[i][k].items]) = params[k].items
  <2> DEFINE ss == [i \in 1..1 |-> <<params>>[i][k].items]
  <2>1. FlattenSeq(Upto(ss, 1)) = ss[1]
    BY FlattenStep
  <2>2. ss[1] = params[k].items /\ Upto(ss, 1) = ss
    BY DEF Upto
  <2> HIDE DEF ss
  <2>3. FlattenSeq(ss) = params[k].items
    BY <2>1, <2>2
  <2> QED BY <2>3 DEF ss
<1>2. ASSUME NEW k \in ListKeys(params), kind # "raw" PROVE Len(params[k].items) <= size
  <2>1. \A l \in ListKeys(params) : Len(params[l].items) \in Nat
    <3>1. \A l \in ListKeys(params) : params[l].items \in Seq(Range(params[l].items))
      BY DEF IsParams
    <3> QED BY <3>1
  <2>2. MaxLen(params) \in Nat /\ Len(params[k].items) <= MaxLen(params)
    BY <2>1, LongestList DEF IsParams
  <2> QED BY <1>2, <2>1, <2>2
<1>3. \A i \in 1..1 : <<params>>[i] = params
  OBVIOUS
<1> QED BY <1>1, <1>2, <1>3 DEF PartsOf

(* A list in slices, as many as are needed for the longest. *)
LEMMA ManyParts ==
  ASSUME NEW params, NEW kind, NEW size \in Nat \ {0}, NEW n \in Nat, NEW p,
         \A i \in 1..n : \A k \in DOMAIN params :
           p[i][k] = IF k \in ListKeys(params) THEN List(SliceAt(params[k].items, i, size)) ELSE params[k],
         \A k \in ListKeys(params) :
           params[k].items \in Seq(Range(params[k].items)) /\ Len(params[k].items) <= n * size
  PROVE  PartsOf(p, n, params, kind, size)
<1>1. ASSUME NEW k \in ListKeys(params)
      PROVE  /\ FlattenSeq([i \in 1..n |-> p[i][k].items]) = params[k].items
             /\ \A i \in 1..n : Len(p[i][k].items) <= size
  <2>1. PICK S : params[k].items \in Seq(S)
    OBVIOUS
  <2> DEFINE list == params[k].items
  <2>2. list \in Seq(S) /\ Len(list) <= n * size
    BY <2>1
  <2>3. \A i \in 1..n : p[i][k].items = SliceAt(list, i, size)
    <3>1. k \in DOMAIN params
      BY DEF ListKeys
    <3>2. \A s : List(s).items = s
      BY DEF List
    <3> QED BY <3>1, <3>2
  <2> HIDE DEF list
  <2>4. [i \in 1..n |-> p[i][k].items] = [i \in 1..n |-> SliceAt(list, i, size)]
    BY <2>3
  <2>5. FlattenSeq([i \in 1..n |-> SliceAt(list, i, size)]) = list
    BY <2>2, SlicesJoin
  <2>6. \A i \in 1..n : Len(SliceAt(list, i, size)) <= size
    BY <2>2, SliceElements
  <2> QED BY <2>3, <2>4, <2>5, <2>6, Zenon DEF list
<1>2. \A k \in DOMAIN params \ ListKeys(params) : \A i \in 1..n : p[i][k] = params[k]
  OBVIOUS
<1> QED BY <1>1, <1>2 DEF PartsOf

(* A plan with its own parameters is itself. *)
LEMMA SameChunk ==
  ASSUME NEW plan, IsPlan(plan)
  PROVE  BuildChunkPlan(plan, plan.read.params) = plan
BY DEF IsPlan, BuildChunkPlan

(* Execute's chunks carry the operation's plan. *)
LEMMA ExecutePlanned ==
  ASSUME NEW op \in Operations
  PROVE  LET j == Job("execute", op, ChunkPlans(op.plan, BatchSize), BatchSize)
         IN  IsJob(j) /\ Carries(j) /\ Len(j.plans) >= 1
<1> DEFINE j == Job("execute", op, ChunkPlans(op.plan, BatchSize), BatchSize)
           plan == op.plan
           params == plan.read.params
           chunks == ChunkParams(params, BatchSize)
<1>1. IsPlan(plan) /\ IsParams(params) /\ BatchSize \in Nat \ {0}
  BY ClientAssumption DEF IsPlan
<1>2. /\ HasJobFields(j)
      /\ j.whole = plan /\ j.kind = "execute" /\ j.size = BatchSize
      /\ j.plans = ChunkPlans(plan, BatchSize)
  BY DEF Job, HasJobFields
<1>3. \A k \in ListKeys(params) : params[k].items \in Seq(Range(params[k].items)) /\ Len(params[k].items) \in Nat
  <2>1. \A k \in ListKeys(params) : params[k].items \in Seq(Range(params[k].items))
    BY <1>1 DEF IsParams
  <2> QED BY <2>1
<1>4. MaxLen(params) \in Nat /\ \A k \in ListKeys(params) : Len(params[k].items) <= MaxLen(params)
  BY <1>1, <1>3, LongestList DEF IsParams
<1> HIDE DEF j, plan, params
<1>5. CASE MaxLen(params) <= BatchSize
  <2>1. chunks = <<params>>
    BY <1>5 DEF ChunkParams
  <2>2. j.plans = <<plan>>
    <3>1. Len(chunks) = 1
      BY <2>1
    <3> QED BY <1>2, <3>1 DEF ChunkPlans, params
  <2>3. j.plans = [i \in 1..1 |-> BuildChunkPlan(plan, <<params>>[i])]
    <3>1. BuildChunkPlan(plan, params) = plan
      BY <1>1, SameChunk DEF params
    <3> QED BY <2>2, <3>1
  <2>4. PartsOf(<<params>>, 1, params, j.kind, j.size)
    BY <1>1, <1>2, <1>5, OnePart
  <2>5. IsJob(j) /\ Carries(j) /\ Len(j.plans) = 1
    <3> DEFINE one == <<params>>
    <3>1. j.plans = [i \in 1..1 |-> BuildChunkPlan(plan, one[i])] /\ PartsOf(one, 1, params, j.kind, j.size)
      BY <2>3, <2>4
    <3> HIDE DEF one
    <3>2. HasJobFields(j) /\ j.whole = plan /\ IsPlan(plan) /\ 1 \in Nat /\ params = plan.read.params
      BY <1>1, <1>2 DEF params
    <3> QED BY <3>1, <3>2, CarriedPlan, ZenonT(40)
  <2>6. IsJob(j) /\ Carries(j) /\ Len(j.plans) >= 1
    BY <2>5
  <2> QED BY <2>6, Zenon DEF j
<1>6. CASE ~(MaxLen(params) <= BatchSize)
  <2> DEFINE n == CeilDiv(MaxLen(params), BatchSize)
  <2>1. n \in Nat /\ n > 1 /\ MaxLen(params) <= n * BatchSize
    BY <1>1, <1>4, <1>6, CeilDivBounds
  <2>2. chunks = [i \in 1..n |-> [k \in DOMAIN params |->
                     IF k \in ListKeys(params) THEN List(SliceAt(params[k].items, i, BatchSize))
                     ELSE params[k]]]
    BY <1>6 DEF ChunkParams
  <2> HIDE DEF n
  <2>3. Len(chunks) = n /\ DOMAIN chunks = 1..n
    BY <2>1, <2>2
  <2>4. \A i \in 1..n : \A k \in DOMAIN params :
          chunks[i][k] = IF k \in ListKeys(params) THEN List(SliceAt(params[k].items, i, BatchSize)) ELSE params[k]
    BY <2>2
  <2>5. \A k \in ListKeys(params) :
          params[k].items \in Seq(Range(params[k].items)) /\ Len(params[k].items) <= n * BatchSize
    <3>1. n * BatchSize \in Nat
      BY <1>1, <2>1
    <3> QED BY <1>3, <1>4, <2>1, <3>1
  <2> HIDE DEF chunks
  <2>6. PartsOf(chunks, n, params, j.kind, j.size)
    BY <1>1, <1>2, <2>1, <2>4, <2>5, ManyParts
  <2>7. j.plans = [i \in 1..n |-> BuildChunkPlan(plan, chunks[i])]
    <3>1. Len(chunks) # 1
      BY <2>1, <2>3
    <3> QED BY <1>2, <2>3, <3>1 DEF ChunkPlans, chunks, params
  <2>8. IsJob(j) /\ Carries(j) /\ Len(j.plans) = n
    BY <1>1, <1>2, <2>1, <2>6, <2>7, CarriedPlan DEF params
  <2>9. IsJob(j) /\ Carries(j) /\ Len(j.plans) >= 1
    BY <2>1, <2>8
  <2> QED BY <2>9, Zenon DEF j
<1> QED BY <1>5, <1>6

(* A single statement is a plan. *)
LEMMA SingleIsPlan ==
  ASSUME NEW query, NEW params, IsParams(params)
  PROVE  LET plan == Single(query, params).plan
         IN  IsPlan(plan) /\ plan.read.params = params /\ plan.read.query = query /\ plan.writes = <<>>
<1> DEFINE plan == [writes |-> <<>>, read |-> Statement(query, params)]
<1>1. plan.read.params = params /\ plan.read.query = query /\ plan.writes = <<>> /\ DOMAIN plan.writes = {}
  BY DEF Statement
<1>2. plan = Single(query, params).plan
  BY DEF Single
<1>3. <<>> \in Seq(Range(<<>>))
  OBVIOUS
<1>4. [w \in DOMAIN plan.writes |-> Statement(plan.writes[w].query, params)] = <<>>
  BY <1>1
<1>5. plan = [writes |-> [w \in DOMAIN plan.writes |-> Statement(plan.writes[w].query, params)],
              read |-> Statement(query, params)]
  BY <1>4
<1> HIDE DEF plan
<1>6. IsPlan(plan)
  BY <1>1, <1>3, <1>5 DEF IsPlan
<1> QED BY <1>1, <1>2, <1>6

(* ExecuteRaw's one statement is its plan. *)
LEMMA RawPlanned ==
  ASSUME NEW q \in RawQueries
  PROVE  LET op == Single(q.query, q.params)
             j == Job("raw", op, <<op.plan>>, 1)
         IN  IsJob(j) /\ Carries(j) /\ Len(j.plans) >= 1
<1> DEFINE op == Single(q.query, q.params)
           j == Job("raw", op, <<op.plan>>, 1)
           plan == op.plan
           params == q.params
<1>1. IsPlan(plan) /\ IsParams(params) /\ plan.read.params = params
  BY ClientAssumption, SingleIsPlan
<1>2. /\ HasJobFields(j)
      /\ j.whole = plan /\ j.kind = "raw" /\ j.plans = <<plan>>
  BY DEF Job, HasJobFields
<1> HIDE DEF j, plan, params
<1>3. j.plans = [i \in 1..1 |-> BuildChunkPlan(plan, <<params>>[i])]
  <2>1. BuildChunkPlan(plan, params) = plan
    BY <1>1, SameChunk
  <2> QED BY <1>2, <2>1
<1>4. PartsOf(<<params>>, 1, params, j.kind, j.size)
  BY <1>1, <1>2, OnePart
<1>5. IsJob(j) /\ Carries(j) /\ Len(j.plans) = 1
  <2> DEFINE one == <<params>>
  <2>1. j.plans = [i \in 1..1 |-> BuildChunkPlan(plan, one[i])] /\ PartsOf(one, 1, params, j.kind, j.size)
    BY <1>3, <1>4
  <2> HIDE DEF one
  <2>2. HasJobFields(j) /\ j.whole = plan /\ IsPlan(plan) /\ 1 \in Nat /\ plan.read.params = params
    BY <1>1, <1>2
  <2> QED BY <2>1, <2>2, CarriedPlan, ZenonT(40)
<1>6. IsJob(j) /\ Carries(j) /\ Len(j.plans) >= 1
  BY <1>5
<1> QED BY <1>6, Zenon DEF j

(* ExecuteRawBatch's slices carry the plan of one statement with all items.*)
LEMMA BatchPlanned ==
  ASSUME NEW b \in Batches, NEW size \in Nat \ {0}, b.items # <<>>
  PROVE  LET j == Job("batch", Single(b.query, [items |-> List(b.items)]),
                      RawBatchPlans(b.query, b.items, size), size)
         IN  IsJob(j) /\ Carries(j) /\ Len(j.plans) >= 1
<1> DEFINE params == [items |-> List(b.items)]
           op == Single(b.query, params)
           j == Job("batch", op, RawBatchPlans(b.query, b.items, size), size)
           plan == op.plan
           n == CeilDiv(Len(b.items), size)
           p == [i \in 1..n |-> [items |-> List(SliceAt(b.items, i, size))]]
<1>1. b.items \in Seq(Range(b.items)) /\ Len(b.items) \in Nat /\ Len(b.items) > 0
  <2>1. b.items \in Seq(Range(b.items))
    BY ClientAssumption
  <2> QED BY <2>1
<1>2. n \in Nat /\ n > 0 /\ Len(b.items) <= n * size
  BY <1>1, CeilDivBounds
<1>3. /\ DOMAIN params = {"items"} /\ params["items"] = List(b.items)
      /\ params = [k \in DOMAIN params |-> params[k]]
  OBVIOUS
<1>4. \A s : List(s).kind = "list" /\ List(s).items = s
  BY DEF List
<1> HIDE DEF params
<1>5. ListKeys(params) = {"items"}
  BY <1>3, <1>4 DEF ListKeys
<1>6. IsParams(params)
  <2>1. IsFiniteSet({"items"})
    BY FS_Singleton
  <2>2. params = [k \in DOMAIN params |-> IF k \in ListKeys(params) THEN List(params[k].items) ELSE params[k]]
    <3>1. \A k \in DOMAIN params : k \in ListKeys(params) /\ List(params[k].items) = params[k]
      BY <1>3, <1>4, <1>5
    <3> QED BY <1>3, <3>1
  <2>3. \A k \in ListKeys(params) : params[k].items \in Seq(Range(params[k].items))
    BY <1>1, <1>3, <1>4, <1>5
  <2> QED BY <1>3, <2>1, <2>2, <2>3 DEF IsParams
<1>7. IsPlan(plan) /\ plan.read.params = params /\ plan.read.query = b.query /\ plan.writes = <<>>
  BY <1>6, SingleIsPlan
<1>8. /\ HasJobFields(j)
      /\ j.whole = plan /\ j.size = size /\ j.plans = RawBatchPlans(b.query, b.items, size)
  BY DEF Job, HasJobFields
<1>9. \A i \in 1..n : p[i] = [items |-> List(SliceAt(b.items, i, size))]
  OBVIOUS
<1> HIDE DEF j, plan, p
<1>10. j.plans = [i \in 1..n |-> BuildChunkPlan(plan, p[i])]
  <2>1. ASSUME NEW i \in 1..n
        PROVE  BuildChunkPlan(plan, p[i]) =
                 [writes |-> <<>>, read |-> Statement(b.query, [items |-> List(SliceAt(b.items, i, size))])]
    <3>1. [w \in DOMAIN plan.writes |-> Statement(plan.writes[w].query, p[i])] = <<>>
      BY <1>7
    <3> QED BY <1>7, <1>9, <3>1 DEF BuildChunkPlan
  <2> QED BY <1>8, <2>1 DEF RawBatchPlans
<1> HIDE DEF n
<1>11. PartsOf(p, n, params, j.kind, j.size)
  <2>1. ASSUME NEW i \in 1..n, NEW k \in DOMAIN params
        PROVE  p[i][k] = IF k \in ListKeys(params) THEN List(SliceAt(params[k].items, i, size)) ELSE params[k]
    <3>1. k = "items" /\ params[k].items = b.items
      BY <1>3, <1>4
    <3>2. p[i]["items"] = List(SliceAt(b.items, i, size))
      <4> DEFINE slice == List(SliceAt(b.items, i, size))
      <4>1. p[i] = [items |-> slice]
        BY <1>9, Zenon
      <4> HIDE DEF slice
      <4>2. p[i].items = slice
        BY <4>1
      <4> QED BY <4>2 DEF slice
    <3> QED BY <1>5, <3>1, <3>2
  <2>2. \A k \in ListKeys(params) :
          params[k].items \in Seq(Range(params[k].items)) /\ Len(params[k].items) <= n * size
    BY <1>1, <1>2, <1>3, <1>4, <1>5
  <2> QED BY <1>2, <1>8, <2>1, <2>2, ManyParts
<1>12. IsJob(j) /\ Carries(j) /\ Len(j.plans) = n
  BY <1>2, <1>7, <1>8, <1>10, <1>11, CarriedPlan
<1>13. IsJob(j) /\ Carries(j) /\ Len(j.plans) >= 1
  BY <1>2, <1>12
<1> QED BY <1>13, Zenon DEF j, params

(* No call: no chunk, no parameter. *)
LEMMA NoJobPlanned == IsJob(NoJob) /\ Carries(NoJob) /\ NoJob.active = FALSE /\ Program(NoJob) = <<>>
<1> DEFINE plan == Single("", NoEntries).plan
<1>1. HasJobFields(NoJob) /\ NoJob.whole = plan /\ NoJob.plans = <<>> /\ NoJob.active = FALSE
  <2> DEFINE op == Single("", NoEntries)
             j == [kind |-> "none", mode |-> op.mode, itemwise |-> op.itemwise, whole |-> op.plan,
                   plans |-> <<>>, size |-> 1, i |-> 1, w |-> 1, results |-> <<>>, active |-> FALSE]
             k == [kind |-> "none", mode |-> op.mode, itemwise |-> op.itemwise, whole |-> op.plan,
                   plans |-> <<>>, size |-> 1, i |-> 1, w |-> 1, results |-> <<>>, active |-> TRUE]
  <2>4. NoJob = [k EXCEPT !.active = FALSE]
    BY Zenon DEF NoJob, Job
  <2>2. op.plan = plan
    OBVIOUS
  <2> HIDE DEF op, plan
  <2>1. NoJob = j
    BY <2>4
  <2>3. HasJobFields(j) /\ j.whole = plan /\ j.plans = <<>> /\ j.active = FALSE
    BY <2>2 DEF HasJobFields
  <2> HIDE DEF j
  <2> QED BY <2>1, <2>3
<1>2. IsParams(NoEntries)
  <2>1. IsFiniteSet({}) /\ DOMAIN NoEntries = {}
    BY FS_EmptySet DEF NoEntries
  <2> QED BY <2>1 DEF IsParams, ListKeys
<1>3. IsPlan(plan) /\ plan.read.params = NoEntries
  BY <1>2, SingleIsPlan
<1>4. PartsOf(<<>>, 0, NoEntries, NoJob.kind, NoJob.size)
  <2>1. DOMAIN NoEntries = {}
    BY DEF NoEntries
  <2> QED BY <2>1 DEF PartsOf, ListKeys
<1> HIDE DEF plan
<1>6. IsJob(NoJob) /\ Carries(NoJob)
  <2> DEFINE none == <<>>
             j == NoJob
             params == NoEntries
  <2>1. PartsOf(none, 0, params, j.kind, j.size)
    BY <1>4
  <2> HIDE DEF none, j, params
  <2>2. j.plans = [i \in 1..0 |-> BuildChunkPlan(plan, none[i])]
    BY <1>1 DEF j
  <2>3. HasJobFields(j) /\ j.whole = plan /\ IsPlan(plan) /\ 0 \in Nat /\ plan.read.params = params
    BY <1>1, <1>3 DEF j, params
  <2>4. IsJob(j) /\ Carries(j)
    <3>1. PICK n \in Nat : n = 0
      OBVIOUS
    <3>2. j.plans = [i \in 1..n |-> BuildChunkPlan(plan, none[i])] /\ PartsOf(none, n, params, j.kind, j.size)
      BY <2>1, <2>2, <3>1, Zenon
    <3> QED BY <2>3, <3>2, CarriedPlan
  <2> QED BY <2>4 DEF j
<1>7. Program(NoJob) = <<>>
  <2>1. [i \in DOMAIN NoJob.plans |-> ChunkStatements(NoJob.plans[i], NoJob.mode)] = Upto(<<>>, 0)
    BY <1>1 DEF Upto
  <2>2. FlattenSeq(Upto(<<>>, 0)) = <<>>
    BY FlattenStep
  <2> QED BY <2>1, <2>2 DEF Program
<1> QED BY <1>1, <1>6, <1>7

-----------------------------------------------------------------------------
(* The steps of a call. *)

(* What a step of a call does to its record, field by field: it is the     *)
(* same call, now at chunk i, statement w.                                 *)
Moved(k, j, i, w, active) ==
  /\ HasJobFields(k)
  /\ k.kind = j.kind /\ k.mode = j.mode /\ k.whole = j.whole /\ k.plans = j.plans /\ k.size = j.size
  /\ k.i = i /\ k.w = w /\ k.active = active

(* The updates of a call in Advance and Finish are such moves. *)
LEMMA JobSteps ==
  ASSUME NEW j, HasJobFields(j), NEW g
  PROVE  /\ Moved([j EXCEPT !.w = @ + 1], j, j.i, j.w + 1, j.active)
         /\ Moved([j EXCEPT !.i = @ + 1, !.w = 1, !.results = g], j, j.i + 1, 1, j.active)
         /\ Moved([j EXCEPT !.active = FALSE, !.results = g], j, j.i, j.w, FALSE)
         /\ Moved([j EXCEPT !.active = FALSE], j, j.i, j.w, FALSE)
<1>1. PICK kind, mode, itemwise, whole, plans, size, i, w, results, active :
        j = [kind |-> kind, mode |-> mode, itemwise |-> itemwise, whole |-> whole,
             plans |-> plans, size |-> size, i |-> i, w |-> w, results |-> results, active |-> active]
  BY Zenon DEF HasJobFields
<1> DEFINE R(ii, ww, rr, aa) ==
             [kind |-> kind, mode |-> mode, itemwise |-> itemwise, whole |-> whole,
              plans |-> plans, size |-> size, i |-> ii, w |-> ww, results |-> rr, active |-> aa]
<1>2. /\ j.kind = kind /\ j.mode = mode /\ j.itemwise = itemwise /\ j.whole = whole
      /\ j.plans = plans /\ j.size = size /\ j.i = i /\ j.w = w /\ j.active = active /\ j.results = results
  BY <1>1
<1>3. \A ii, ww, rr, aa : Moved(R(ii, ww, rr, aa), j, ii, ww, aa)
  BY <1>2 DEF Moved, HasJobFields
<1>4. ASSUME NEW f, NEW ii, NEW ww, NEW rr, NEW aa, f = R(ii, ww, rr, aa), NEW v
      PROVE  [f EXCEPT !.i = v] = R(v, ww, rr, aa)
  BY <1>4
<1>5. ASSUME NEW f, NEW ii, NEW ww, NEW rr, NEW aa, f = R(ii, ww, rr, aa), NEW v
      PROVE  [f EXCEPT !.w = v] = R(ii, v, rr, aa)
  BY <1>5
<1>6. ASSUME NEW f, NEW ii, NEW ww, NEW rr, NEW aa, f = R(ii, ww, rr, aa), NEW v
      PROVE  [f EXCEPT !.results = v] = R(ii, ww, v, aa)
  BY <1>6
<1>7. ASSUME NEW f, NEW ii, NEW ww, NEW rr, NEW aa, f = R(ii, ww, rr, aa), NEW v
      PROVE  [f EXCEPT !.active = v] = R(ii, ww, rr, v)
  BY <1>7
<1>8. j = R(i, w, results, active)
  BY <1>1
<1> HIDE DEF R
<1>9. Moved([j EXCEPT !.w = @ + 1], j, j.i, j.w + 1, j.active)
  <2>1. [j EXCEPT !.w = w + 1] = R(i, w + 1, results, active)
    BY <1>5, <1>8
  <2> QED BY <1>2, <1>3, <2>1
<1>10. Moved([j EXCEPT !.i = @ + 1, !.w = 1, !.results = g], j, j.i + 1, 1, j.active)
  <2>1. PICK k1 : k1 = [j EXCEPT !.i = i + 1]
    OBVIOUS
  <2>2. PICK k2 : k2 = [k1 EXCEPT !.w = 1]
    OBVIOUS
  <2>3. PICK k3 : k3 = [k2 EXCEPT !.results = g]
    OBVIOUS
  <2>4. k3 = R(i + 1, 1, g, active)
    <3>1. k1 = R(i + 1, w, results, active)
      BY <1>4, <1>8, <2>1
    <3>2. k2 = R(i + 1, 1, results, active)
      BY <1>5, <2>2, <3>1
    <3> QED BY <1>6, <2>3, <3>2
  <2>5. k3 = [j EXCEPT !.i = @ + 1, !.w = 1, !.results = g]
    BY <1>2, <2>1, <2>2, <2>3
  <2> QED BY <1>2, <1>3, <2>4, <2>5
<1>11. PICK no : no = FALSE
  OBVIOUS
<1>12. Moved([j EXCEPT !.active = FALSE, !.results = g], j, j.i, j.w, FALSE)
  <2>1. PICK k1 : k1 = [j EXCEPT !.active = no]
    OBVIOUS
  <2>2. PICK k2 : k2 = [k1 EXCEPT !.results = g]
    OBVIOUS
  <2>3. k2 = R(i, w, g, no)
    <3>1. k1 = R(i, w, results, no)
      BY <1>7, <1>8, <2>1
    <3> QED BY <1>6, <2>2, <3>1
  <2>4. k2 = [j EXCEPT !.active = FALSE, !.results = g]
    BY <1>11, <2>1, <2>2
  <2>5. Moved(k2, j, i, w, no)
    BY <1>3, <2>3
  <2> QED BY <1>2, <1>11, <2>4, <2>5
<1>13. Moved([j EXCEPT !.active = FALSE], j, j.i, j.w, FALSE)
  <2>1. PICK k1 : k1 = [j EXCEPT !.active = no]
    OBVIOUS
  <2>2. Moved(k1, j, i, w, no)
    BY <1>3, <1>7, <1>8, <2>1
  <2>3. k1 = [j EXCEPT !.active = FALSE]
    BY <1>11, <2>1
  <2> QED BY <1>2, <1>11, <2>2, <2>3
<1> QED BY <1>9, <1>10, <1>12, <1>13

(* A call's plan, its chunks and its program do not change while it runs.  *)
LEMMA SamePlan ==
  ASSUME NEW j, IsJob(j), NEW k, HasJobFields(k),
         k.kind = j.kind, k.mode = j.mode, k.whole = j.whole, k.plans = j.plans, k.size = j.size
  PROVE  /\ Stages(k) = Stages(j)
         /\ IsJob(k)
         /\ Carries(j) => Carries(k)
         /\ Program(k) = Program(j)
<1>1. Stages(k) = Stages(j)
  BY DEF Stages
<1>2. IsJob(k)
  BY <1>1 DEF IsJob
<1>3. Carries(j) => Carries(k)
  BY <1>1 DEF Carries
<1>4. Program(k) = Program(j)
  BY DEF Program
<1> QED BY <1>1, <1>2, <1>3, <1>4

(* A call begins at its first statement, with nothing delivered.           *)
LEMMA CallBegins ==
  ASSUME NEW j, IsJob(j), Carries(j), j.active = TRUE, j.i = 1, j.w = 1, Len(j.plans) >= 1, NEW l
  PROVE  CallOK(j, "none", <<>>, l)
<1>1. InPlans(j)
  BY DEF InPlans, IsJob
<1>2. SentAt(j, 0) = <<>>
  <2>1. FlattenSeq(Upto(Stages(j), 0)) = <<>>
    BY FlattenStep
  <2>2. PICK S : Stages(j) \in Seq(Seq(S))
    BY StagesType
  <2>3. Stages(j)[j.i] \in Seq(S)
    BY <1>1, <2>2, BeforeType
  <2> DEFINE stage == Stages(j)[j.i]
  <2> HIDE DEF stage
  <2>4. SubSeq(stage, 1, 0) = <<>> /\ <<>> \o <<>> = <<>>
    BY <2>3 DEF stage
  <2>5. j.i - 1 = 0
    OBVIOUS
  <2> QED BY <2>1, <2>4, <2>5 DEF SentAt, stage
<1>3. Underway(j, "none", <<>>)
  BY <1>1, <1>2 DEF Underway
<1> QED BY <1>3 DEF CallOK

(* A statement has run: the call moves on as Advance says.                 *)
LEMMA CallAdvances ==
  ASSUME NEW j, NEW r, NEW d, NEW l, CallOK(j, r, d, l), j.active, NEW k, NEW s,
         \/ j.w <= Len(j.plans[j.i].writes) /\ Moved(k, j, j.i, j.w + 1, j.active) /\ s = r
         \/ /\ j.w > Len(j.plans[j.i].writes) /\ j.i # Len(j.plans)
            /\ Moved(k, j, j.i + 1, 1, j.active) /\ s = r
         \/ /\ j.w > Len(j.plans[j.i].writes) /\ j.i = Len(j.plans)
            /\ Moved(k, j, j.i, j.w, FALSE) /\ s = "ok"
  PROVE  CallOK(k, s, Append(d, Stages(j)[j.i][j.w]), l)
<1>1. IsJob(j) /\ Carries(j) /\ Underway(j, r, d)
  BY DEF CallOK, Failed, Complete, NotBegun
<1>2. InPlans(j) /\ d = SentAt(j, j.w - 1) /\ r = "none"
  BY <1>1 DEF Underway
<1>3. /\ HasJobFields(j) /\ Len(j.whole.writes) \in Nat /\ Len(j.plans) \in Nat
      /\ j.i \in 1..Len(j.plans) /\ j.w \in 1..Len(j.whole.writes) + 1
      /\ Len(j.plans[j.i].writes) = Len(j.whole.writes)
  BY <1>1, <1>2 DEF IsJob, InPlans
<1>4. HasJobFields(k) /\ k.kind = j.kind /\ k.mode = j.mode /\ k.whole = j.whole /\ k.plans = j.plans /\ k.size = j.size
  BY DEF Moved
<1>5. IsJob(k) /\ Carries(k) /\ Stages(k) = Stages(j) /\ Program(k) = Program(j)
  BY <1>1, <1>4, SamePlan
<1>6. Append(d, Stages(j)[j.i][j.w]) = SentAt(j, j.w)
  BY <1>1, <1>2, SentNext
<1>7. CASE j.w <= Len(j.plans[j.i].writes) /\ Moved(k, j, j.i, j.w + 1, j.active) /\ s = r
  <2>1. k.i = j.i /\ k.w = j.w + 1 /\ k.active = j.active /\ s = r
    BY <1>7 DEF Moved
  <2>2. SentAt(k, j.w) = SentAt(j, j.w)
    BY <1>5, <2>1 DEF SentAt
  <2>3. InPlans(k)
    BY <1>3, <1>4, <1>7, <2>1 DEF InPlans
  <2>4. k.w - 1 = j.w
    BY <1>3, <2>1
  <2>5. Underway(k, s, SentAt(j, j.w))
    BY <1>2, <2>1, <2>2, <2>3, <2>4 DEF Underway
  <2> QED BY <1>5, <1>6, <2>1, <2>5 DEF CallOK
<1>8. CASE /\ j.w > Len(j.plans[j.i].writes) /\ j.i # Len(j.plans)
          /\ Moved(k, j, j.i + 1, 1, j.active) /\ s = r
  <2>1. k.i = j.i + 1 /\ k.w = 1 /\ k.active = j.active /\ s = r
    BY <1>8 DEF Moved
  <2>2. InPlans(k)
    BY <1>3, <1>4, <1>8, <2>1 DEF InPlans
  <2>3. SentAt(k, 0) = SentAt(j, j.w)
    <3>1. SentAt(j, j.w) = FlattenSeq(Upto(Stages(j), j.i))
      BY <1>1, <1>2, <1>3, <1>8, SentNext
    <3>2. PICK S : Stages(k) \in Seq(Seq(S))
      BY <1>5, StagesType
    <3>3. Stages(k)[k.i] \in Seq(S) /\ FlattenSeq(Upto(Stages(k), k.i - 1)) \in Seq(S)
      BY <1>5, <2>2, <3>2, BeforeType
    <3> DEFINE stage == Stages(k)[k.i]
               before == FlattenSeq(Upto(Stages(k), k.i - 1))
    <3>4. stage \in Seq(S) /\ before \in Seq(S) /\ SentAt(k, 0) = before \o SubSeq(stage, 1, 0)
      BY <3>3 DEF SentAt
    <3> HIDE DEF stage, before
    <3>5. before \o SubSeq(stage, 1, 0) = before
      BY <3>4
    <3>6. k.i - 1 = j.i
      BY <1>3, <2>1
    <3> QED BY <1>5, <3>1, <3>4, <3>5, <3>6 DEF before
  <2>4. Underway(k, s, SentAt(j, j.w))
    BY <1>2, <2>1, <2>2, <2>3 DEF Underway
  <2> QED BY <1>5, <1>6, <2>1, <2>4 DEF CallOK
<1>9. CASE /\ j.w > Len(j.plans[j.i].writes) /\ j.i = Len(j.plans)
          /\ Moved(k, j, j.i, j.w, FALSE) /\ s = "ok"
  <2>1. k.active = FALSE /\ s = "ok"
    BY <1>9 DEF Moved
  <2>2. SentAt(j, j.w) = Program(j)
    BY <1>1, <1>2, <1>3, <1>9, SentNext
  <2>3. Complete(k, s, SentAt(j, j.w))
    BY <1>5, <2>1, <2>2 DEF Complete
  <2> QED BY <1>5, <1>6, <2>1, <2>3 DEF CallOK
<1> QED BY <1>7, <1>8, <1>9

(* A call fails where it is, with or without the statement having run.     *)
LEMMA CallFails ==
  ASSUME NEW j, NEW r, NEW d, NEW l, CallOK(j, r, d, l), j.active, NEW s \in {"errContext", "errChunk"},
         NEW m \in Nat, NEW k, Moved(k, j, j.i, j.w, FALSE)
  PROVE  /\ CallOK(k, s, d, l)
         /\ m > 0 => CallOK(k, s, Append(d, Stages(j)[j.i][j.w]), m)
<1>1. IsJob(j) /\ Carries(j) /\ Underway(j, r, d)
  BY DEF CallOK, Failed, Complete, NotBegun
<1>2. InPlans(j) /\ d = SentAt(j, j.w - 1) /\ HasJobFields(j)
  BY <1>1 DEF Underway, IsJob
<1>3. /\ HasJobFields(k) /\ k.kind = j.kind /\ k.mode = j.mode /\ k.whole = j.whole /\ k.plans = j.plans
      /\ k.size = j.size /\ k.i = j.i /\ k.w = j.w /\ k.active = FALSE
  BY DEF Moved
<1>4. IsJob(k) /\ Carries(k) /\ Stages(k) = Stages(j) /\ Program(k) = Program(j)
  BY <1>1, <1>3, SamePlan
<1>5. InPlans(k) /\ \A n : SentAt(k, n) = SentAt(j, n)
  BY <1>2, <1>3, <1>4 DEF InPlans, SentAt
<1>6. Append(d, Stages(j)[j.i][j.w]) = SentAt(j, j.w)
  BY <1>1, <1>2, SentNext
<1>7. Failed(k, s, d, l) /\ (m > 0 => Failed(k, s, SentAt(j, j.w), m))
  BY <1>2, <1>3, <1>5 DEF Failed
<1>8. CallOK(k, s, d, l) /\ (m > 0 => CallOK(k, s, Append(d, Stages(j)[j.i][j.w]), m))
  BY <1>3, <1>4, <1>6, <1>7 DEF CallOK
<1> QED BY <1>8

(* More replies lost elsewhere change nothing.                             *)
LEMMA CallKeeps ==
  ASSUME NEW j, NEW r, NEW d, NEW l \in Nat, NEW m \in Nat, CallOK(j, r, d, l), l <= m
  PROVE  CallOK(j, r, d, m)
BY DEF CallOK, Failed

-----------------------------------------------------------------------------
(* The steps of the client. *)

(* No call is under way, begun or complete. *)
LEMMA NoCall ==
  ASSUME NEW l, NEW r \in {"none", "ok", "errClientClosed", "errRequest"}
  PROVE  CallOK(NoJob, r, <<>>, l)
<1>1. PICK j : j = NoJob
  OBVIOUS
<1>2. IsJob(j) /\ Carries(j) /\ j.active = FALSE /\ Program(j) = <<>>
  BY <1>1, NoJobPlanned
<1>3. Complete(j, "ok", <<>>)
  BY <1>2 DEF Complete
<1>4. r # "ok" => NotBegun(j, r, <<>>)
  BY <1>2 DEF NotBegun
<1>5. CallOK(j, r, <<>>, l)
  BY <1>2, <1>3, <1>4 DEF CallOK
<1> QED BY <1>1, <1>5

(* No request has been made. *)
LEMMA InitCalls == Init => CallInv
<1> SUFFICES ASSUME Init PROVE CallInv
  OBVIOUS
<1>1. /\ clientClosed = FALSE /\ lost = 0 /\ MaxLost \in Nat
      /\ job = [c \in Callers |-> NoJob] /\ result = [c \in Callers |-> "none"]
      /\ delivered = [c \in Callers |-> <<>>] /\ Callers \subseteq Procs
      /\ at = [p \in Procs |-> "out"]
  BY ClientAssumption DEF Init, DriverInit
<1>2. CallOK(NoJob, "none", <<>>, 0)
  BY NoCall
<1>3. \A c \in Callers : CallOK(job[c], result[c], delivered[c], lost) /\ at[c] = "out"
  BY <1>1, <1>2
<1>4. clientClosed \in BOOLEAN /\ lost \in 0..MaxLost
  <2>1. clientClosed \in BOOLEAN
    BY DEF Init
  <2>2. lost = 0 /\ MaxLost \in Nat
    BY <1>1
  <2>3. lost \in 0..MaxLost
    BY <2>2
  <2> QED BY <2>1, <2>3
<1>5. result = [c \in Callers |-> result[c]]
  BY DEF Init
<1> QED BY <1>3, <1>4, <1>5 DEF CallInv

(* A step of one call leaves the others as they are, but that a reply of   *)
(* its own may get lost.                                                   *)
LEMMA OneCall ==
  ASSUME CallInv, NEW c \in Callers,
         result' = [d \in Callers |-> result'[d]],
         \A d \in Callers \ {c} : /\ job'[d] = job[d] /\ result'[d] = result[d]
                                  /\ delivered'[d] = delivered[d] /\ at'[d] = at[d],
         CallOK(job'[c], result'[c], delivered'[c], lost'),
         at'[c] # "out" => job'[c].active,
         clientClosed' \in BOOLEAN, lost' \in lost..MaxLost
  PROVE  CallInv'
<1>1. lost \in Nat /\ lost' \in Nat /\ lost <= lost' /\ lost' \in 0..MaxLost
  BY DEF CallInv
<1>2. ASSUME NEW d \in Callers
      PROVE  CallOK(job'[d], result'[d], delivered'[d], lost') /\ (at'[d] # "out" => job'[d].active)
  <2>1. CASE d = c
    BY <2>1
  <2>2. CASE d # c
    <3>1. CallOK(job[d], result[d], delivered[d], lost) /\ (at[d] # "out" => job[d].active)
      BY DEF CallInv
    <3>2. CallOK(job[d], result[d], delivered[d], lost')
      BY <1>1, <3>1, CallKeeps
    <3> QED BY <2>2, <3>1, <3>2
  <2> QED BY <2>1, <2>2
<1> QED BY <1>1, <1>2 DEF CallInv

(* A call begins, or ends at once. *)
LEMMA BeginCalls ==
  ASSUME IndInv, CallInv, NEW c \in Callers, NEW j, NEW r, Begin(c, j, r),
         CallOK(j, r, <<>>, lost)
  PROVE  CallInv'
<1>1. /\ job' = [job EXCEPT ![c] = j] /\ result' = [result EXCEPT ![c] = r]
      /\ delivered' = [delivered EXCEPT ![c] = <<>>]
      /\ ~job[c].active /\ at' = at /\ clientClosed' = clientClosed /\ lost' = lost
  BY DEF Begin, driverVars
<1>2. job = [d \in Callers |-> job[d]] /\ delivered = [d \in Callers |-> delivered[d]]
  BY DEF IndInv, Shapes, JobShape, SentShape
<1>3. result = [d \in Callers |-> result[d]] /\ at[c] = "out" /\ clientClosed \in BOOLEAN /\ lost \in 0..MaxLost
  BY <1>1 DEF CallInv
<1>4. /\ result' = [d \in Callers |-> result'[d]]
      /\ job'[c] = j /\ result'[c] = r /\ delivered'[c] = <<>>
      /\ \A d \in Callers \ {c} : /\ job'[d] = job[d] /\ result'[d] = result[d]
                                  /\ delivered'[d] = delivered[d] /\ at'[d] = at[d]
  BY <1>1, <1>2, <1>3
<1>5. lost' \in lost..MaxLost
  BY <1>1, <1>3
<1> QED BY <1>1, <1>3, <1>4, <1>5, OneCall

(* A request of each kind begins a call that carries its plan, or ends at  *)
(* once.                                                                   *)
LEMMA CallCalls ==
  ASSUME IndInv, CallInv, NEW c \in Callers, Call(c)
  PROVE  CallInv'
<1>1. \A r \in {"errClientClosed", "errRequest"} : CallOK(NoJob, r, <<>>, lost)
  BY NoCall
<1>2. CallOK(NoJob, "ok", <<>>, lost)
  BY NoCall
<1>3. ASSUME NEW kind, NEW op, NEW plans, NEW size,
             LET j == Job(kind, op, plans, size) IN IsJob(j) /\ Carries(j) /\ Len(j.plans) >= 1
      PROVE  CallOK(Job(kind, op, plans, size), "none", <<>>, lost)
  <2> DEFINE j == Job(kind, op, plans, size)
  <2>1. j.active = TRUE /\ j.i = 1 /\ j.w = 1
    BY DEF Job
  <2>2. IsJob(j) /\ Carries(j) /\ Len(j.plans) >= 1
    BY <1>3, Zenon
  <2> HIDE DEF j
  <2>3. CallOK(j, "none", <<>>, lost)
    BY <2>1, <2>2, CallBegins
  <2> QED BY <2>3 DEF j
<1>4. CASE ClosedCall(c)
  BY <1>1, <1>4, BeginCalls DEF ClosedCall
<1>5. CASE BadRequest(c)
  BY <1>1, <1>5, BeginCalls DEF BadRequest
<1>6. CASE \E op \in Operations : Execute(c, op)
  <2>1. PICK op \in Operations : Execute(c, op)
    BY <1>6
  <2> DEFINE j == Job("execute", op, ChunkPlans(op.plan, BatchSize), BatchSize)
  <2>2. CallOK(j, "none", <<>>, lost)
    BY <1>3, ExecutePlanned, Zenon
  <2>3. Begin(c, j, "none")
    BY <2>1 DEF Execute
  <2> HIDE DEF j
  <2> QED BY <2>2, <2>3, BeginCalls
<1>7. CASE \E q \in RawQueries : ExecuteRaw(c, q)
  <2>1. PICK q \in RawQueries : ExecuteRaw(c, q)
    BY <1>7
  <2> DEFINE op == Single(q.query, q.params)
             j == Job("raw", op, <<op.plan>>, 1)
  <2>2. CallOK(j, "none", <<>>, lost)
    BY <1>3, RawPlanned, Zenon
  <2>3. Begin(c, j, "none")
    BY <2>1 DEF ExecuteRaw
  <2> HIDE DEF j
  <2> QED BY <2>2, <2>3, BeginCalls
<1>8. CASE ExecuteRawBatchEmpty(c)
  BY <1>2, <1>8, BeginCalls DEF ExecuteRawBatchEmpty
<1>9. CASE \E b \in Batches : ExecuteRawBatch(c, b)
  <2>1. PICK b \in Batches : ExecuteRawBatch(c, b)
    BY <1>9
  <2> DEFINE size == IF b.size <= 0 THEN DefaultRawBatchSize ELSE b.size
             op == Single(b.query, [items |-> List(b.items)])
             j == Job("batch", op, RawBatchPlans(b.query, b.items, size), size)
  <2>2. b.items # <<>> /\ Begin(c, j, "none")
    BY <2>1 DEF ExecuteRawBatch
  <2>3. size \in Nat \ {0}
    BY ClientAssumption
  <2> HIDE DEF size
  <2>4. CallOK(j, "none", <<>>, lost)
    BY <1>3, <2>2, <2>3, BatchPlanned, Zenon
  <2> HIDE DEF j
  <2> QED BY <2>2, <2>4, BeginCalls
<1> QED BY <1>4, <1>5, <1>6, <1>7, <1>8, <1>9 DEF Call

(* Whether a call is under way at a statement, and at which. *)
LEMMA CurrentStatement ==
  ASSUME CallInv, NEW c \in Callers, job[c].active
  PROVE  /\ HasJobFields(job[c]) /\ InPlans(job[c])
         /\ Current(c) = Stages(job[c])[job[c].i][job[c].w]
<1> DEFINE j == job[c]
<1>1. CallOK(j, result[c], delivered[c], lost)
  BY DEF CallInv
<1>2. Current(c) = ChunkStatements(j.plans[j.i], j.mode)[j.w] /\ j.active
  BY DEF Current
<1> HIDE DEF j
<1>3. IsJob(j) /\ InPlans(j)
  BY <1>1, <1>2 DEF CallOK, Underway, Failed, Complete, NotBegun
<1>4. HasJobFields(j) /\ j.i \in DOMAIN j.plans
  BY <1>3 DEF IsJob, InPlans
<1>5. Stages(j)[j.i] = ChunkStatements(j.plans[j.i], j.mode)
  BY <1>4 DEF Stages
<1> QED BY <1>2, <1>3, <1>4, <1>5 DEF j

(* A call fails, with or without its statement having run. *)
LEMMA FinishCalls ==
  ASSUME IndInv, CallInv, NEW c \in Callers, job[c].active, NEW r \in {"errContext", "errChunk"},
         Finish(c, r),
         \/ delivered' = delivered /\ lost' = lost
         \/ Deliver(c) /\ lost' = lost + 1 /\ lost < MaxLost,
         at'[c] = "out", \A d \in Callers \ {c} : at'[d] = at[d],
         clientClosed' = clientClosed
  PROVE  CallInv'
<1>1. /\ job = [d \in Callers |-> job[d]] /\ delivered = [d \in Callers |-> delivered[d]]
      /\ result = [d \in Callers |-> result[d]] /\ clientClosed \in BOOLEAN /\ lost \in 0..MaxLost
  BY DEF CallInv, IndInv, Shapes, JobShape, SentShape
<1>2. /\ result' = [d \in Callers |-> result'[d]]
      /\ result'[c] = r /\ job'[c] = [job[c] EXCEPT !.active = FALSE]
      /\ \A d \in Callers \ {c} : job'[d] = job[d] /\ result'[d] = result[d]
  <2>1. result' = [result EXCEPT ![c] = r] /\ job' = [job EXCEPT ![c].active = FALSE]
    BY DEF Finish
  <2> QED BY <1>1, <2>1
<1>3. Moved(job'[c], job[c], job[c].i, job[c].w, FALSE)
  BY <1>2, CurrentStatement, JobSteps
<1>4. CallOK(job[c], result[c], delivered[c], lost) /\ lost \in Nat /\ lost + 1 \in Nat /\ lost + 1 > 0
  BY <1>1 DEF CallInv
<1>5. /\ CallOK(job'[c], r, delivered[c], lost)
      /\ CallOK(job'[c], r, Append(delivered[c], Current(c)), lost + 1)
  <2> DEFINE j == job[c]
             k == job'[c]
             d == delivered[c]
             o == result[c]
  <2>1. Moved(k, j, j.i, j.w, FALSE) /\ CallOK(j, o, d, lost) /\ j.active
    BY <1>3, <1>4
  <2>2. PICK m \in Nat : m = lost + 1 /\ m > 0
    BY <1>4
  <2>3. Current(c) = Stages(j)[j.i][j.w]
    BY CurrentStatement
  <2> HIDE DEF j, k, d, o
  <2>4. CallOK(k, r, d, lost) /\ CallOK(k, r, Append(d, Stages(j)[j.i][j.w]), m)
    BY <2>1, <2>2, CallFails
  <2>5. CallOK(k, r, d, lost) /\ CallOK(k, r, Append(d, Current(c)), lost + 1)
    BY <2>2, <2>3, <2>4
  <2> QED BY <2>5 DEF k, d
<1>6. CASE delivered' = delivered /\ lost' = lost
  <2>1. lost' \in lost..MaxLost
    BY <1>1, <1>6
  <2> QED BY <1>1, <1>2, <1>5, <1>6, <2>1, OneCall
<1>7. CASE Deliver(c) /\ lost' = lost + 1 /\ lost < MaxLost
  <2>1. lost' \in lost..MaxLost
    BY <1>1, <1>7, ClientAssumption
  <2>2. /\ delivered'[c] = Append(delivered[c], Current(c))
        /\ \A d \in Callers \ {c} : delivered'[d] = delivered[d]
    BY <1>1, <1>7 DEF Deliver
  <2> QED BY <1>1, <1>2, <1>5, <1>7, <2>1, <2>2, OneCall
<1> QED BY <1>6, <1>7

(* A statement of a call has run. *)
LEMMA AdvanceCalls ==
  ASSUME IndInv, CallInv, NEW c \in Callers, job[c].active, Deliver(c), Advance(c),
         at'[c] = "out", \A d \in Callers \ {c} : at'[d] = at[d],
         clientClosed' = clientClosed, lost' = lost
  PROVE  CallInv'
<1> DEFINE j == job[c]
           k == job'[c]
           s == result'[c]
           g == Gathered(c)
<1>1. /\ job = [d \in Callers |-> job[d]] /\ delivered = [d \in Callers |-> delivered[d]]
      /\ result = [d \in Callers |-> result[d]] /\ clientClosed \in BOOLEAN /\ lost \in 0..MaxLost
  BY DEF CallInv, IndInv, Shapes, JobShape, SentShape
<1>2. CallOK(j, result[c], delivered[c], lost) /\ HasJobFields(j) /\ InPlans(j)
      /\ Current(c) = Stages(j)[j.i][j.w]
  BY CurrentStatement DEF CallInv
<1>3. j.w \in Nat /\ Len(j.plans[j.i].writes) \in Nat
  <2>1. IsJob(j)
    BY <1>2 DEF CallOK
  <2> HIDE DEF j
  <2> QED BY <1>2, <2>1 DEF IsJob, InPlans
<1> HIDE DEF g
<1>4. /\ result' = [d \in Callers |-> result'[d]]
      /\ \A d \in Callers \ {c} : job'[d] = job[d] /\ result'[d] = result[d]
      /\ \/ j.w <= Len(j.plans[j.i].writes) /\ k = [j EXCEPT !.w = @ + 1] /\ s = result[c]
         \/ /\ j.w > Len(j.plans[j.i].writes) /\ j.i # Len(j.plans)
            /\ k = [j EXCEPT !.i = @ + 1, !.w = 1, !.results = g] /\ s = result[c]
         \/ /\ j.w > Len(j.plans[j.i].writes) /\ j.i = Len(j.plans)
            /\ k = [j EXCEPT !.active = FALSE, !.results = g] /\ s = "ok"
  <2>1. CASE /\ ~LastOfChunk(c) /\ job' = [job EXCEPT ![c].w = @ + 1] /\ UNCHANGED result
    <3>1. j.w <= Len(j.plans[j.i].writes)
      BY <1>3, <2>1 DEF LastOfChunk
    <3>2. k = [j EXCEPT !.w = @ + 1] /\ \A d \in Callers \ {c} : job'[d] = job[d]
      BY <1>1, <2>1
    <3> QED BY <1>1, <2>1, <3>1, <3>2
  <2>2. CASE /\ LastOfChunk(c) /\ ~LastOfCall(c) /\ UNCHANGED result
             /\ job' = [job EXCEPT ![c].i = @ + 1, ![c].w = 1, ![c].results = g]
    <3>1. j.w > Len(j.plans[j.i].writes) /\ j.i # Len(j.plans)
      BY <2>2 DEF LastOfChunk, LastOfCall
    <3>2. k = [j EXCEPT !.i = @ + 1, !.w = 1, !.results = g] /\ \A d \in Callers \ {c} : job'[d] = job[d]
      BY <1>1, <2>2
    <3> QED BY <1>1, <2>2, <3>1, <3>2
  <2>3. CASE /\ LastOfCall(c) /\ result' = [result EXCEPT ![c] = "ok"]
             /\ job' = [job EXCEPT ![c].active = FALSE, ![c].results = g]
    <3>1. j.w > Len(j.plans[j.i].writes) /\ j.i = Len(j.plans)
      BY <2>3 DEF LastOfChunk, LastOfCall
    <3>2. k = [j EXCEPT !.active = FALSE, !.results = g] /\ \A d \in Callers \ {c} : job'[d] = job[d]
      BY <1>1, <2>3
    <3>3. /\ s = "ok" /\ result' = [d \in Callers |-> result'[d]]
          /\ \A d \in Callers \ {c} : result'[d] = result[d]
      BY <1>1, <2>3
    <3> QED BY <3>1, <3>2, <3>3
  <2> QED BY <2>1, <2>2, <2>3 DEF Advance, g
<1> DEFINE r == result[c]
           e == delivered[c]
<1> HIDE DEF j, k, s, r, e
<1>5. \/ j.w <= Len(j.plans[j.i].writes) /\ Moved(k, j, j.i, j.w + 1, j.active) /\ s = r
      \/ /\ j.w > Len(j.plans[j.i].writes) /\ j.i # Len(j.plans)
         /\ Moved(k, j, j.i + 1, 1, j.active) /\ s = r
      \/ /\ j.w > Len(j.plans[j.i].writes) /\ j.i = Len(j.plans)
         /\ Moved(k, j, j.i, j.w, FALSE) /\ s = "ok"
  <2>1. /\ Moved([j EXCEPT !.w = @ + 1], j, j.i, j.w + 1, j.active)
        /\ Moved([j EXCEPT !.i = @ + 1, !.w = 1, !.results = g], j, j.i + 1, 1, j.active)
        /\ Moved([j EXCEPT !.active = FALSE, !.results = g], j, j.i, j.w, FALSE)
    BY <1>2, JobSteps
  <2> QED BY <1>4, <2>1, Zenon DEF r
<1>6. CallOK(k, s, Append(e, Stages(j)[j.i][j.w]), lost)
  <2>1. CallOK(j, r, e, lost) /\ j.active
    BY <1>2 DEF r, e, j
  <2> QED BY <1>5, <2>1, CallAdvances
<1>7. /\ delivered'[c] = Append(e, Stages(j)[j.i][j.w])
      /\ \A d \in Callers \ {c} : delivered'[d] = delivered[d]
  <2>1. delivered' = [delivered EXCEPT ![c] = Append(@, Current(c))]
    BY DEF Deliver
  <2> QED BY <1>1, <1>2, <2>1 DEF e
<1>8. CallOK(job'[c], result'[c], delivered'[c], lost')
  BY <1>6, <1>7 DEF k, s
<1>9. lost' \in lost..MaxLost
  BY <1>1
<1> QED BY <1>1, <1>4, <1>7, <1>8, <1>9, OneCall

(* A step of a caller inside its call. *)
LEMMA ProceedCalls ==
  ASSUME IndInv, CallInv, NEW c \in Callers, Proceed(c)
  PROVE  CallInv'
<1>1. c \in Procs /\ Callers \subseteq Procs /\ DOMAIN at = Procs
  BY ClientAssumption DEF IndInv, DriverInv, DriverTypeOK
<1>2. \A from, to : Move(c, from, to) =>
        at[c] = from /\ at'[c] = to /\ \A d \in Callers \ {c} : at'[d] = at[d]
  BY <1>1 DEF Move
<1>3. at[c] # "out" => job[c].active
  BY DEF CallInv
<1>4. CASE CancelledBatch(c)
  <2>1. /\ job[c].active /\ at[c] = "out" /\ at' = at /\ Finish(c, "errContext")
        /\ delivered' = delivered /\ lost' = lost /\ clientClosed' = clientClosed
    BY <1>4 DEF CancelledBatch, Between, driverVars
  <2> QED BY <2>1, FinishCalls
<1>5. CASE CallDriver(c) \/ DriverAdmits(c)
  <2>1. /\ job[c].active /\ UNCHANGED clientVars
        /\ \A d \in Callers \ {c} : at'[d] = at[d]
    BY <1>2, <1>3, <1>5 DEF CallDriver, Between, Enter, DriverAdmits, Admit
  <2>2. /\ result' = result /\ job' = job /\ delivered' = delivered
        /\ lost' = lost /\ clientClosed' = clientClosed
    BY <2>1 DEF clientVars
  <2> QED BY <2>1, <2>2 DEF CallInv
<1>6. CASE DriverRefuses(c) \/ StatementFails(c)
  <2>1. /\ job[c].active /\ at'[c] = "out" /\ Finish(c, "errChunk")
        /\ delivered' = delivered /\ lost' = lost /\ clientClosed' = clientClosed
        /\ \A d \in Callers \ {c} : at'[d] = at[d]
    BY <1>2, <1>3, <1>6 DEF DriverRefuses, Refuse, StatementFails, Fail
  <2> QED BY <2>1, FinishCalls
<1>7. CASE ReplyLost(c)
  <2>1. /\ job[c].active /\ at'[c] = "out" /\ Finish(c, "errChunk")
        /\ Deliver(c) /\ lost' = lost + 1 /\ lost < MaxLost /\ clientClosed' = clientClosed
        /\ \A d \in Callers \ {c} : at'[d] = at[d]
    BY <1>2, <1>3, <1>7 DEF ReplyLost, Run
  <2> QED BY <2>1, FinishCalls
<1>8. CASE StatementRuns(c)
  <2>1. /\ job[c].active /\ at'[c] = "out" /\ Deliver(c) /\ Advance(c)
        /\ lost' = lost /\ clientClosed' = clientClosed
        /\ \A d \in Callers \ {c} : at'[d] = at[d]
    BY <1>2, <1>3, <1>8 DEF StatementRuns, Run
  <2> QED BY <2>1, AdvanceCalls
<1> QED BY <1>4, <1>5, <1>6, <1>7, <1>8 DEF Proceed

(* A step of any process keeps the calls in order. *)
LEMMA StepCalls == IndInv /\ CallInv /\ [Next]_vars => CallInv'
<1> SUFFICES ASSUME IndInv, CallInv, [Next]_vars PROVE CallInv'
  OBVIOUS
<1>1. CASE UNCHANGED vars
  BY <1>1 DEF vars, driverVars, clientVars, CallInv
<1>2. ASSUME NEW c \in Callers, Cancel(c) PROVE CallInv'
  BY <1>2 DEF Cancel, driverVars, CallInv
<1>3. ASSUME NEW k \in Closers, Close(k) \/ ProceedClose(k) PROVE CallInv'
  <2>1. \A c \in Callers : at'[c] = at[c]
    <3>1. \E to : at' = [at EXCEPT ![k] = to]
      BY <1>3 DEF Close, ProceedClose, DriverCloseAgain, DriverCloseBegin, DriverCloseEnd,
             CloseEnter, CloseAgain, CloseBegin, CloseEnd, Move
    <3>2. DOMAIN at = Procs /\ Callers \subseteq Procs /\ k \notin Callers
      BY ClientAssumption DEF IndInv, DriverInv, DriverTypeOK
    <3> QED BY <3>1, <3>2
  <2>2. UNCHANGED <<job, result, delivered, lost>> /\ clientClosed' \in {clientClosed, TRUE}
    BY <1>3 DEF Close, ProceedClose, DriverCloseAgain, DriverCloseBegin, DriverCloseEnd, clientVars
  <2>3. clientClosed' \in BOOLEAN
    BY <2>2 DEF CallInv
  <2> QED BY <2>1, <2>2, <2>3 DEF CallInv
<1> QED BY <1>1, <1>2, <1>3, CallCalls, ProceedCalls DEF Next

(* Every call is where its history says. *)
THEOREM CallsInvariant == Spec => [](IndInv /\ CallInv)
<1>1. Init => IndInv /\ CallInv
  BY InitInd, InitCalls
<1>2. IndInv /\ CallInv /\ [Next]_vars => (IndInv /\ CallInv)'
  BY StepInd, StepCalls
<1> QED BY <1>1, <1>2, PTL DEF Spec

-----------------------------------------------------------------------------
(* What is promised of every call. *)

(* The program of a call is a sequence of statements. *)
LEMMA ProgramType ==
  ASSUME NEW j, IsJob(j)
  PROVE  \E S : Program(j) \in Seq(S)
<1>1. PICK S : Stages(j) \in Seq(Seq(S))
  BY StagesType
<1>2. Len(Stages(j)) \in 0..Len(Stages(j)) /\ Upto(Stages(j), Len(Stages(j))) = Stages(j)
  BY <1>1, UptoAll
<1>3. FlattenSeq(Upto(Stages(j), Len(Stages(j)))) \in Seq(S)
  BY <1>1, <1>2, FlattenNext
<1> QED BY <1>2, <1>3 DEF Program, Stages

(* Nothing and everything begin a sequence. *)
LEMMA EndsArePrefixes ==
  ASSUME NEW S, NEW s \in Seq(S)
  PROVE  IsPrefix(s, s) /\ IsPrefix(<<>>, s)
<1>1. Len(s) \in 0..Len(s) /\ 0 \in 0..Len(s) /\ SubSeq(s, 1, Len(s)) = s /\ SubSeq(s, 1, 0) = <<>>
  OBVIOUS
<1> QED BY <1>1, PrefixSlice DEF IsPrefix

(* The fields of a client have their types; a call under way is at a       *)
(* statement of one of its chunks.                                         *)
THEOREM TypesOK == Spec => []TypeOK
<1>1. IndInv /\ CallInv => TypeOK
  <2> SUFFICES ASSUME IndInv, CallInv PROVE TypeOK
    OBVIOUS
  <2>1. ASSUME NEW c \in Callers
        PROVE  /\ job[c].active \in BOOLEAN
               /\ job[c].active => job[c].i \in DOMAIN job[c].plans
               /\ job[c].active => job[c].w \in 1..Len(job[c].plans[job[c].i].writes) + 1
               /\ result[c] \in Results
    <3> DEFINE j == job[c]
               r == result[c]
               d == delivered[c]
    <3>1. CallOK(j, r, d, lost)
      BY DEF CallInv
    <3> HIDE DEF j, r, d
    <3>2. IsJob(j) /\ j.active \in BOOLEAN
      BY <3>1 DEF CallOK
    <3>3. r \in Results
      BY <3>1 DEF CallOK, Underway, Failed, Complete, NotBegun, Results
    <3>4. ASSUME j.active
          PROVE  j.i \in DOMAIN j.plans /\ j.w \in 1..Len(j.plans[j.i].writes) + 1
      <4>1. InPlans(j)
        BY <3>1, <3>4 DEF CallOK, Underway, Failed, Complete, NotBegun
      <4>2. j.i \in DOMAIN j.plans /\ Len(j.plans[j.i].writes) = Len(j.whole.writes)
        BY <3>2, <4>1 DEF IsJob, InPlans
      <4> QED BY <4>1, <4>2 DEF InPlans
    <3> QED BY <3>2, <3>3, <3>4 DEF j, r
  <2>2. result \in [Callers -> Results]
    BY <2>1 DEF CallInv
  <2>3. /\ DriverTypeOK /\ DOMAIN job = Callers
        /\ cancelled \in [Callers -> BOOLEAN]
        /\ sentAtCancel \in [Callers -> Nat] /\ sentAtClose \in [Callers -> Nat]
    BY DEF IndInv, DriverInv, Shapes, JobShape, HistoryTypes
  <2>4. clientClosed \in BOOLEAN /\ lost \in 0..MaxLost
    BY DEF CallInv
  <2> QED BY <2>1, <2>2, <2>3, <2>4 DEF TypeOK
<1> QED BY <1>1, CallsInvariant, PTL

(* Whatever the plan, its chunks and the failures, the database runs the   *)
(* statements of a call in the order of its plan, each once, and none past *)
(* a failure.                                                              *)
THEOREM DeliveredInOrder == Spec => []DeliveryIsPrefix
<1>1. CallInv => DeliveryIsPrefix
  <2> SUFFICES ASSUME CallInv, NEW c \in Callers
      PROVE  IsPrefix(delivered[c], Program(job[c]))
    BY DEF DeliveryIsPrefix
  <2> DEFINE j == job[c]
             r == result[c]
             d == delivered[c]
  <2>1. CallOK(j, r, d, lost)
    BY DEF CallInv
  <2> HIDE DEF j, r, d
  <2>2. IsJob(j)
    BY <2>1 DEF CallOK
  <2>3. PICK S : Program(j) \in Seq(S)
    BY <2>2, ProgramType
  <2>4. ASSUME InPlans(j), d = SentAt(j, j.w - 1) \/ d = SentAt(j, j.w)
        PROVE  IsPrefix(d, Program(j))
    <3>1. j.w \in 0..Len(j.whole.writes) + 1 /\ j.w - 1 \in 0..Len(j.whole.writes) + 1
      BY <2>2, <2>4 DEF InPlans, IsJob
    <3> QED BY <2>2, <2>4, <3>1, SentAtBegins
  <2>5. ASSUME d = Program(j) \/ d = <<>>
        PROVE  IsPrefix(d, Program(j))
    <3> DEFINE all == Program(j)
    <3>1. all \in Seq(S) /\ (d = all \/ d = <<>>)
      BY <2>3, <2>5
    <3> HIDE DEF all
    <3>2. IsPrefix(d, all)
      BY <3>1, EndsArePrefixes
    <3> QED BY <3>2 DEF all
  <2>6. IsPrefix(d, Program(j))
    BY <2>1, <2>4, <2>5 DEF CallOK, Underway, Failed, Complete, NotBegun
  <2> QED BY <2>6 DEF j, d
<1> QED BY <1>1, CallsInvariant, PTL

(* The chunk number in an error is where to resume, at whatever statement  *)
(* of whatever chunk the call has failed.                                  *)
THEOREM ErrorsName == Spec => []ErrorNamesResumePoint
<1>1. CallInv => ErrorNamesResumePoint
  <2> SUFFICES ASSUME CallInv, NEW c \in Callers, result[c] = "errChunk"
      PROVE  LET done == StatementsBefore(job[c])
                 named == Len(ChunkStatements(job[c].plans[job[c].i], job[c].mode))
             IN  /\ Len(delivered[c]) >= done
                 /\ Len(delivered[c]) <= done + named
                 /\ lost = 0 => Len(delivered[c]) < done + named
    BY DEF ErrorNamesResumePoint
  <2> DEFINE j == job[c]
             d == delivered[c]
             done == StatementsBefore(j)
             named == Len(ChunkStatements(j.plans[j.i], j.mode))
  <2>1. CallOK(j, "errChunk", d, lost)
    BY DEF CallInv
  <2> HIDE DEF j, d, done, named
  <2>2. IsJob(j) /\ InPlans(j) /\ (d = SentAt(j, j.w - 1) \/ (lost > 0 /\ d = SentAt(j, j.w)))
    BY <2>1 DEF CallOK, Underway, Failed, Complete, NotBegun
  <2>3. /\ j.w \in 0..Len(j.whole.writes) + 1 /\ j.w - 1 \in 0..Len(j.whole.writes) + 1
        /\ j.w \in 1..Len(j.whole.writes) + 1 /\ Len(j.whole.writes) \in Nat
    BY <2>2 DEF InPlans, IsJob
  <2>4. named = Len(j.whole.writes) + 1
    <3>1. j.i \in DOMAIN j.plans
      BY <2>2 DEF InPlans, IsJob
    <3>2. Stages(j)[j.i] = ChunkStatements(j.plans[j.i], j.mode)
      BY <3>1 DEF Stages
    <3> QED BY <2>2, <3>1, <3>2 DEF IsJob, named
  <2>5. /\ Len(SentAt(j, j.w - 1)) = done + (j.w - 1)
        /\ Len(SentAt(j, j.w)) = done + j.w
        /\ done \in Nat
    BY <2>2, <2>3, SentAtBegins DEF done
  <2>6. lost \in Nat
    BY DEF CallInv
  <2>7. PICK w, all \in Nat : w = j.w /\ all = Len(j.whole.writes) /\ 1 <= w /\ w <= all + 1
    BY <2>3
  <2>8. ASSUME NEW n \in Nat, n = w - 1 \/ (lost > 0 /\ n = w), Len(d) = done + n
        PROVE  /\ Len(d) >= done /\ Len(d) <= done + named
               /\ lost = 0 => Len(d) < done + named
    <3>1. named = all + 1 /\ n <= all + 1 /\ (lost = 0 => n < all + 1)
      BY <2>4, <2>6, <2>7, <2>8
    <3>2. PICK begun \in Nat : begun = done
      BY <2>5
    <3> QED BY <2>8, <3>1, <3>2
  <2>9. /\ Len(d) >= done /\ Len(d) <= done + named
        /\ lost = 0 => Len(d) < done + named
    <3>1. CASE d = SentAt(j, j.w - 1)
      <4>1. Len(d) = done + (w - 1) /\ w - 1 \in Nat
        BY <2>5, <2>7, <3>1
      <4> QED BY <2>8, <4>1
    <3>2. CASE lost > 0 /\ d = SentAt(j, j.w)
      <4>1. Len(d) = done + w
        BY <2>5, <2>7, <3>2
      <4> QED BY <2>7, <2>8, <3>2, <4>1
    <3> QED BY <2>2, <3>1, <3>2
  <2> QED BY <2>9 DEF j, d, done, named
<1> QED BY <1>1, CallsInvariant, PTL

(* A call that returns no error has handed every list over completely,     *)
(* whatever the lengths of the lists and the batch size.                   *)
THEOREM ListsHandedOver == Spec => []ListsArriveWhole
<1>1. CallInv => ListsArriveWhole
  <2> SUFFICES ASSUME CallInv, NEW c \in Callers, result[c] = "ok"
      PROVE  LET plan == ChunkStatements(job[c].whole, job[c].mode)
             IN  /\ Len(delivered[c]) = Len(job[c].plans) * Len(plan)
                 /\ \A w \in DOMAIN plan :
                      HandOver(Received(c, w), plan[w].stmt, job[c].kind, job[c].size)
    BY DEF ListsArriveWhole
  <2> DEFINE j == job[c]
             d == delivered[c]
             plan == ChunkStatements(j.whole, j.mode)
             got(w) == [i \in DOMAIN j.plans |-> d[(i - 1) * (Len(j.whole.writes) + 1) + w].stmt]
  <2>1. CallOK(j, "ok", d, lost)
    BY DEF CallInv
  <2>2. \A w : Received(c, w) = got(w)
    BY DEF Received
  <2> HIDE DEF j, d, plan
  <2>3. IsJob(j) /\ Carries(j) /\ d = Program(j)
    BY <2>1 DEF CallOK, Underway, Failed, Complete, NotBegun
  <2>4. Len(plan) = Len(j.whole.writes) + 1 /\ DOMAIN plan = 1..Len(j.whole.writes) + 1
    <3>1. Len(j.whole.writes) \in Nat /\ DOMAIN j.whole.writes = 1..Len(j.whole.writes)
      BY <2>3 DEF IsJob
    <3> QED BY <3>1, ChunkStatementsOf DEF plan
  <2>5. PICK width \in Nat : width = Len(j.whole.writes) + 1
    BY <2>3 DEF IsJob
  <2>6. PICK S : Stages(j) \in Seq(Seq(S))
    BY <2>3, StagesType
  <2>7. Len(Stages(j)) = Len(j.plans) /\ DOMAIN j.plans = 1..Len(j.plans)
    BY <2>3, StagesType DEF IsJob
  <2>8. /\ Len(d) = Len(j.plans) * width
        /\ \A i \in 1..Len(j.plans) : \A w \in 1..width : d[(i - 1) * width + w] = Stages(j)[i][w]
    <3>1. d = FlattenSeq(Stages(j))
      BY <2>3 DEF Program, Stages
    <3>2. \A i \in 1..Len(Stages(j)) : Len(Stages(j)[i]) = width
      BY <2>3, <2>5, <2>7 DEF IsJob
    <3> DEFINE ss == Stages(j)
    <3> HIDE DEF ss
    <3>3. ss \in Seq(Seq(S)) /\ \A i \in 1..Len(ss) : Len(ss[i]) = width
      BY <2>6, <3>2 DEF ss
    <3>4. /\ Len(FlattenSeq(ss)) = Len(ss) * width
          /\ \A i \in 1..Len(ss) : \A w \in 1..width : FlattenSeq(ss)[(i - 1) * width + w] = ss[i][w]
      BY <3>3, FlattenUniform
    <3> QED BY <2>7, <3>1, <3>4 DEF ss
  <2>9. ASSUME NEW w \in 1..width
        PROVE  HandOver(got(w), plan[w].stmt, j.kind, j.size)
    <3>1. got(w) = [i \in DOMAIN j.plans |-> Stages(j)[i][w].stmt]
      BY <2>5, <2>7, <2>8, <2>9
    <3>2. HandOver([i \in DOMAIN j.plans |-> Stages(j)[i][w].stmt], plan[w].stmt, j.kind, j.size)
      BY <2>3, <2>5, <2>9 DEF Carries, plan
    <3> QED BY <3>1, <3>2, Zenon
  <2>10. Len(d) = Len(j.plans) * Len(plan)
    BY <2>4, <2>5, <2>8
  <2>11. \A w \in DOMAIN plan : HandOver(Received(c, w), plan[w].stmt, j.kind, j.size)
    BY <2>2, <2>4, <2>5, <2>9
  <2> QED BY <2>10, <2>11, Zenon DEF j, d, plan
<1> QED BY <1>1, CallsInvariant, PTL

-----------------------------------------------------------------------------
(* Answers. *)

(* What has been put together after each result is known when each step    *)
(* from one to the next is.                                                *)
LEMMA AggregateBy ==
  ASSUME NEW results, NEW n \in Nat, Len(results) = n, NEW W,
         W[0] = NoEntries, \A m \in 1..n : W[m] = MergeData(W[m - 1], results[m])
  PROVE  AggregateResults(results) = W[n]
<1> DEFINE Step(h, m) == IF m = 0 THEN NoEntries ELSE MergeData(h[m - 1], results[m])
           f == CHOOSE h : h = [m \in 0..n |-> Step(h, m)]
<1>1. \E h : h = [m \in 0..n |-> Step(h, m)]
  <2>1. [m \in 0..n |-> W[m]] = [m \in 0..n |-> Step([k \in 0..n |-> W[k]], m)]
    <3>1. \A m \in 0..n : m # 0 => m \in 1..n /\ m - 1 \in 0..n
      OBVIOUS
    <3>2. \A m \in 0..n : W[m] = Step([k \in 0..n |-> W[k]], m)
      BY <3>1
    <3> QED BY <3>2
  <2> QED BY <2>1
<1>2. f = [m \in 0..n |-> Step(f, m)]
  BY <1>1
<1>3. AggregateResults(results) = f[n]
  BY DEF AggregateResults
<1> HIDE DEF f
<1> DEFINE Known == {m \in Nat : m <= n => f[m] = W[m]}
<1>4. 0 \in Known
  <2>1. 0 \in 0..n
    OBVIOUS
  <2> QED BY <1>2, <2>1
<1>5. ASSUME NEW m \in Nat, m \in Known PROVE m + 1 \in Known
  <2> SUFFICES ASSUME m + 1 <= n PROVE f[m + 1] = W[m + 1]
    OBVIOUS
  <2>1. m + 1 \in 0..n /\ m + 1 \in 1..n /\ m + 1 # 0 /\ (m + 1) - 1 = m /\ f[m] = W[m]
    BY <1>5
  <2>2. f[m + 1] = MergeData(f[m], results[m + 1])
    BY <1>2, <2>1
  <2> QED BY <2>1, <2>2
<1> HIDE DEF Known
<1>6. Nat \subseteq Known
  BY <1>4, <1>5, FromZeroUp
<1>7. f[n] = W[n]
  BY <1>6 DEF Known
<1> QED BY <1>3, <1>7

(* Answers come as maps; the first is what it is put together with nothing.*)
LEMMA MergeFirst ==
  ASSUME NEW data, data = [k \in DOMAIN data |-> data[k]]
  PROVE  MergeData(NoEntries, data) = data
<1>1. DOMAIN NoEntries = {}
  BY DEF NoEntries
<1> QED BY <1>1, SMT DEF MergeData, MergeEntries

MinOf(a, b) == IF a <= b THEN a ELSE b

LEMMA MinOfTwo ==
  ASSUME NEW a \in Int, NEW b \in Int
  PROVE  Min({a, b}) = MinOf(a, b)
BY DEF Min, MinOf

(* The window over all of a map is the map. *)
LEMMA WindowOverAll ==
  ASSUME NEW params, IsParams(params)
  PROVE  Window(params, 0, MaxLen(params)) = params
<1> DEFINE longest == MaxLen(params)
<1>1. \A k \in ListKeys(params) : params[k].items \in Seq(Range(params[k].items)) /\ Len(params[k].items) \in Nat
  <2>1. \A k \in ListKeys(params) : params[k].items \in Seq(Range(params[k].items))
    BY DEF IsParams
  <2> QED BY <2>1
<1>2. longest \in Nat /\ \A k \in ListKeys(params) : Len(params[k].items) <= longest
  BY <1>1, LongestList DEF IsParams
<1> HIDE DEF longest
<1>3. ASSUME NEW k \in ListKeys(params)
      PROVE  SubSeq(params[k].items, 0 + 1, Min({longest, Len(params[k].items)})) = params[k].items
  <2>1. PICK list : list = params[k].items
    OBVIOUS
  <2>2. list \in Seq(Range(list)) /\ Len(list) <= longest /\ Len(list) \in Nat
    BY <1>1, <1>2, <2>1
  <2>3. Min({longest, Len(list)}) = Len(list)
    BY <1>2, <2>2, MinOfTwo DEF MinOf
  <2>4. SubSeq(list, 1, Len(list)) = list
    BY <2>2
  <2> QED BY <2>1, <2>3, <2>4
<1>4. params = [k \in DOMAIN params |-> IF k \in ListKeys(params) THEN List(params[k].items) ELSE params[k]]
  BY DEF IsParams
<1>5. Window(params, 0, longest)
        = [k \in DOMAIN params |-> IF k \in ListKeys(params) THEN List(params[k].items) ELSE params[k]]
  BY <1>3 DEF Window
<1> QED BY <1>4, <1>5 DEF longest

(* The chunks that a map of parameters is cut into are windows, one after  *)
(* the other.                                                              *)
LEMMA ChunksAreWindows ==
  ASSUME NEW params, IsParams(params), NEW size \in Nat \ {0}, MaxLen(params) > size
  PROVE  LET longest == MaxLen(params)
             n == CeilDiv(longest, size)
             chunks == ChunkParams(params, size)
         IN  /\ n \in Nat /\ n > 1 /\ Len(chunks) = n /\ DOMAIN chunks = 1..n
             /\ \A i \in 1..n : /\ (i - 1) * size \in Nat /\ i * size \in Nat
                                /\ (i - 1) * size < longest
                                /\ chunks[i] = Window(params, (i - 1) * size, MinOf(i * size, longest))
             /\ longest <= n * size
<1> DEFINE longest == MaxLen(params)
           n == CeilDiv(longest, size)
           chunks == ChunkParams(params, size)
<1>1. \A k \in ListKeys(params) : params[k].items \in Seq(Range(params[k].items)) /\ Len(params[k].items) \in Nat
  <2>1. \A k \in ListKeys(params) : params[k].items \in Seq(Range(params[k].items))
    BY DEF IsParams
  <2> QED BY <2>1
<1>2. longest \in Nat /\ \A k \in ListKeys(params) : Len(params[k].items) <= longest
  BY <1>1, LongestList DEF IsParams
<1>3. n \in Nat /\ n > 1 /\ longest <= n * size
  BY <1>2, CeilDivBounds
<1>4. (n - 1) * size < longest
  <2> DEFINE r == (longest + size - 1) % size
  <2>1. n \in Nat /\ r \in 0..(size - 1) /\ longest + size - 1 = n * size + r
    BY <1>2 DEF CeilDiv
  <2>2. n * size = (n - 1) * size + size /\ (n - 1) * size \in Int
    BY <2>1
  <2> HIDE DEF n, r
  <2> QED BY <1>2, <2>1, <2>2
<1>5. chunks = [i \in 1..n |-> [k \in DOMAIN params |->
                   IF k \in ListKeys(params) THEN List(SliceAt(params[k].items, i, size)) ELSE params[k]]]
  BY <1>2 DEF ChunkParams
<1> HIDE DEF n, chunks, longest
<1>6. Len(chunks) = n /\ DOMAIN chunks = 1..n
  BY <1>3, <1>5
<1>7. ASSUME NEW i \in 1..n
      PROVE  /\ (i - 1) * size \in Nat /\ i * size \in Nat
             /\ (i - 1) * size < longest
             /\ chunks[i] = Window(params, (i - 1) * size, MinOf(i * size, longest))
  <2>1. i \in Nat /\ i - 1 \in Nat
    BY <1>3
  <2>2. PICK start : start = (i - 1) * size
    OBVIOUS
  <2>3. start \in Nat /\ i * size = start + size
    BY <2>1, <2>2
  <2>4. start < longest
    <3>1. PICK e \in Nat : n - 1 = (i - 1) + e
      <4>1. n - i \in Nat /\ n - 1 = (i - 1) + (n - i)
        BY <1>3
      <4> QED BY <4>1
    <3>2. (n - 1) * size = (i - 1) * size + e * size /\ e * size \in Nat
      BY <2>1, <3>1
    <3> QED BY <1>2, <1>4, <2>2, <2>3, <3>2
  <2>5. PICK hi : hi = MinOf(start + size, longest)
    OBVIOUS
  <2>6. hi \in Nat /\ (hi = start + size \/ hi = longest) /\ hi <= start + size /\ hi <= longest
    BY <1>2, <2>3, <2>5 DEF MinOf
  <2>7. ASSUME NEW k \in ListKeys(params)
        PROVE  SliceAt(params[k].items, i, size)
                 = SubSeq(params[k].items, start + 1, Min({hi, Len(params[k].items)}))
    <3>1. PICK list : list = params[k].items
      OBVIOUS
    <3>2. PICK len : len = Len(list)
      OBVIOUS
    <3>3. list \in Seq(Range(list)) /\ len \in Nat /\ len <= longest
      BY <1>1, <1>2, <3>1, <3>2
    <3>4. Min({hi, len}) = MinOf(hi, len) /\ Min({start + size, len}) = MinOf(start + size, len)
      BY <2>3, <2>6, <3>3, MinOfTwo
    <3>5. MinOf(hi, len) = MinOf(start + size, len) /\ MinOf(hi, len) \in Nat /\ MinOf(hi, len) <= len
      BY <2>3, <2>6, <3>3 DEF MinOf
    <3>6. CASE start >= len
      <4>1. SliceAt(list, i, size) = <<>>
        BY <2>2, <3>2, <3>6 DEF SliceAt
      <4>2. PICK stop \in Nat : stop = MinOf(hi, len) /\ stop < start + 1
        BY <2>3, <3>3, <3>5, <3>6
      <4>3. SubSeq(list, start + 1, stop) = <<>>
        BY <2>3, <3>3, <4>2
      <4> QED BY <3>1, <3>2, <3>4, <4>1, <4>2, <4>3
    <3>7. CASE ~(start >= len)
      <4>1. SliceAt(list, i, size) = SubSeq(list, start + 1, Min({start + size, len}))
        BY <2>2, <3>2, <3>7, Zenon DEF SliceAt
      <4> QED BY <3>1, <3>2, <3>4, <3>5, <4>1
    <3> QED BY <3>6, <3>7
  <2>8. chunks[i] = [k \in DOMAIN params |->
                       IF k \in ListKeys(params) THEN List(SliceAt(params[k].items, i, size)) ELSE params[k]]
    BY <1>5
  <2>9. Window(params, start, hi)
          = [k \in DOMAIN params |->
               IF k \in ListKeys(params) THEN List(SliceAt(params[k].items, i, size)) ELSE params[k]]
    BY <2>7 DEF Window
  <2> QED BY <2>2, <2>3, <2>4, <2>5, <2>8, <2>9
<1> QED BY <1>3, <1>6, <1>7 DEF n, chunks, longest

(* What the chunks' statements that read return, in order. *)
Answers(plans, n) == [i \in 1..n |-> ExtractResultData(Answer(plans[i].read))]

LEMMA ChunksAnswerWhole ==
  ASSUME AnswersAddUp, NEW op \in Operations, op.mode = "write", op.itemwise
  PROVE  LET plans == ChunkPlans(op.plan, BatchSize)
         IN  AggregateResults(Answers(plans, Len(plans))) = ExtractResultData(Answer(op.plan.read))
<1> DEFINE plan == op.plan
           params == plan.read.params
           query == plan.read.query
           plans == ChunkPlans(plan, BatchSize)
           longest == MaxLen(params)
           Data(lo, hi) == ExtractResultData(Answer(Statement(query, Window(params, lo, hi))))
           whole == ExtractResultData(Answer(plan.read))
<1>1. /\ IsPlan(plan) /\ IsParams(params) /\ BatchSize \in Nat \ {0}
      /\ plan.read = Statement(query, params)
  <2>1. IsPlan(plan) /\ BatchSize \in Nat \ {0}
    BY ClientAssumption
  <2>2. plan.read = Statement(query, params) /\ IsParams(params)
    <3>1. PICK p : p = plan
      OBVIOUS
    <3>2. IsPlan(p)
      BY <2>1, <3>1
    <3>3. p.read = Statement(p.read.query, p.read.params) /\ IsParams(p.read.params)
      BY <3>2 DEF IsPlan
    <3> QED BY <3>1, <3>3
  <2> QED BY <2>1, <2>2
<1>2. \A c \in 0..longest : /\ Data(0, c) = [k \in DOMAIN Data(0, c) |-> Data(0, c)[k]]
                            /\ \A b \in 1..(c - 1) : Data(0, c) = MergeData(Data(0, b), Data(b, c))
  BY DEF AnswersAddUp
<1>3. longest \in Nat
  <2>1. \A k \in ListKeys(params) : Len(params[k].items) \in Nat
    <3>1. \A k \in ListKeys(params) : params[k].items \in Seq(Range(params[k].items))
      BY <1>1 DEF IsParams
    <3> QED BY <3>1
  <2> QED BY <1>1, <2>1, LongestList DEF IsParams
<1>4. Window(params, 0, longest) = params
  BY <1>1, WindowOverAll
<1>5. whole = Data(0, longest)
  BY <1>1, <1>4
<1> HIDE DEF plan, params, query, longest, Data
<1>6. CASE longest <= BatchSize
  <2>1. plans = <<plan>>
    <3>1. ChunkParams(params, BatchSize) = <<params>>
      BY <1>6 DEF ChunkParams, longest
    <3>2. Len(ChunkParams(params, BatchSize)) = 1
      BY <3>1
    <3> QED BY <3>2 DEF ChunkPlans, params
  <2>2. Len(plans) = 1 /\ plans[1] = plan
    BY <2>1
  <2> HIDE DEF plans, whole
  <2>3. Len(Answers(plans, 1)) = 1 /\ Answers(plans, 1)[1] = whole
    BY <2>2 DEF Answers, whole
  <2>4. MergeData(NoEntries, whole) = whole
    <3>1. whole = [k \in DOMAIN whole |-> whole[k]]
      BY <1>2, <1>3, <1>5
    <3> QED BY <3>1, MergeFirst
  <2> DEFINE W == [m \in 0..1 |-> IF m = 0 THEN NoEntries ELSE whole]
  <2>5. W[0] = NoEntries /\ \A m \in 1..1 : W[m] = MergeData(W[m - 1], Answers(plans, 1)[m])
    BY <2>3, <2>4
  <2>6. W[1] = whole
    OBVIOUS
  <2> HIDE DEF W
  <2>7. AggregateResults(Answers(plans, 1)) = W[1]
    <3>1. PICK results : results = Answers(plans, 1)
      OBVIOUS
    <3>2. PICK one \in Nat : one = 1
      OBVIOUS
    <3>3. Len(results) = one /\ \A m \in 1..one : W[m] = MergeData(W[m - 1], results[m])
      BY <2>3, <2>5, <3>1, <3>2
    <3>4. AggregateResults(results) = W[one]
      BY <2>5, <3>3, AggregateBy
    <3> QED BY <3>1, <3>2, <3>4
  <2> QED BY <2>2, <2>6, <2>7 DEF plans, whole, plan
<1>7. CASE longest > BatchSize
  <2> DEFINE n == CeilDiv(longest, BatchSize)
             chunks == ChunkParams(params, BatchSize)
             Hi(i) == MinOf(i * BatchSize, longest)
             results == Answers(plans, n)
  <2>1. /\ n \in Nat /\ n > 1 /\ Len(chunks) = n /\ DOMAIN chunks = 1..n
        /\ \A i \in 1..n : /\ (i - 1) * BatchSize \in Nat /\ i * BatchSize \in Nat
                           /\ (i - 1) * BatchSize < longest
                           /\ chunks[i] = Window(params, (i - 1) * BatchSize, Hi(i))
        /\ longest <= n * BatchSize
    BY <1>1, <1>7, ChunksAreWindows DEF longest
  <2>2. plans = [i \in 1..n |-> BuildChunkPlan(plan, chunks[i])]
    <3>1. Len(chunks) # 1
      BY <2>1
    <3> QED BY <2>1, <3>1 DEF ChunkPlans, params
  <2> HIDE DEF n, chunks, plans, whole
  <2>3. Len(plans) = n
    BY <2>1, <2>2
  <2>4. Len(results) = n /\ \A i \in 1..n : results[i] = Data((i - 1) * BatchSize, Hi(i))
    <3>1. Len(results) = n /\ \A i \in 1..n : results[i] = ExtractResultData(Answer(plans[i].read))
      BY <2>1 DEF Answers
    <3>2. \A i \in 1..n : plans[i].read = Statement(query, chunks[i])
      BY <2>2 DEF BuildChunkPlan, query
    <3>3. \A i \in 1..n : plans[i].read = Statement(query, Window(params, (i - 1) * BatchSize, Hi(i)))
      BY <2>1, <3>2
    <3> HIDE DEF results, Hi
    <3> QED BY <3>1, <3>3, Zenon DEF Data
  <2>5. ASSUME NEW i \in 1..n
        PROVE  /\ Hi(i) \in 0..longest /\ Hi(i) > (i - 1) * BatchSize
               /\ i < n => Hi(i) = i * BatchSize
    <3>1. PICK lo : lo = (i - 1) * BatchSize
      OBVIOUS
    <3>2. PICK up : up = i * BatchSize
      OBVIOUS
    <3>3. lo \in Nat /\ up \in Nat /\ lo < longest /\ up = lo + BatchSize
      <4>1. i * BatchSize = (i - 1) * BatchSize + BatchSize
        BY <1>1, <2>1
      <4> QED BY <2>1, <3>1, <3>2, <4>1
    <3>4. i < n => up < longest
      <4>1. i < n => i + 1 \in 1..n /\ (i + 1) - 1 = i
        BY <2>1
      <4> QED BY <2>1, <3>2, <4>1
    <3>5. MinOf(up, longest) \in 0..longest /\ MinOf(up, longest) > lo /\ (i < n => MinOf(up, longest) = up)
      BY <1>1, <1>3, <3>3, <3>4 DEF MinOf
    <3> QED BY <3>1, <3>2, <3>5
  <2>6. Hi(n) = longest
    <3>1. n * BatchSize \in Nat
      BY <2>1
    <3> QED BY <1>3, <2>1, <3>1 DEF MinOf
  <2> DEFINE W == [m \in 0..n |-> IF m = 0 THEN NoEntries ELSE Data(0, Hi(m))]
  <2>7. ASSUME NEW m \in 1..n PROVE W[m] = MergeData(W[m - 1], results[m])
    <3>1. W[m] = Data(0, Hi(m)) /\ results[m] = Data((m - 1) * BatchSize, Hi(m)) /\ Hi(m) \in 0..longest
      BY <2>1, <2>4, <2>5
    <3>2. CASE m = 1
      <4>1. W[m - 1] = NoEntries /\ (m - 1) * BatchSize = 0
        <5>1. m - 1 = 0 /\ 0 \in 0..n /\ 0 * BatchSize = 0
          BY <1>1, <2>1, <3>2
        <5>2. W[0] = NoEntries
          BY <5>1
        <5> HIDE DEF W
        <5> QED BY <5>1, <5>2
      <4>2. W[m] = [k \in DOMAIN W[m] |-> W[m][k]]
        BY <1>2, <3>1
      <4>3. results[m] = W[m]
        BY <3>1, <4>1
      <4> HIDE DEF W, results
      <4> QED BY <4>1, <4>2, <4>3, MergeFirst
    <3>3. CASE m # 1
      <4>1. m - 1 \in 1..n /\ m - 1 < n /\ m - 1 # 0 /\ m - 1 \in 0..n
        BY <2>1, <3>3
      <4>2. PICK b : b = (m - 1) * BatchSize
        OBVIOUS
      <4>3. Hi(m - 1) = b /\ W[m - 1] = Data(0, b)
        BY <2>5, <4>1, <4>2
      <4>4. b \in 1..(Hi(m) - 1)
        <5>1. b \in Nat /\ Hi(m) \in Nat /\ Hi(m) > b
          BY <1>3, <2>1, <2>5, <4>2
        <5>2. b > ((m - 1) - 1) * BatchSize /\ ((m - 1) - 1) * BatchSize \in Nat
          BY <2>1, <2>5, <4>1, <4>3
        <5> QED BY <5>1, <5>2
      <4>5. Data(0, Hi(m)) = MergeData(Data(0, b), Data(b, Hi(m)))
        BY <1>2, <3>1, <4>4
      <4> QED BY <3>1, <4>2, <4>3, <4>5
    <3> QED BY <3>2, <3>3
  <2>8. W[0] = NoEntries /\ W[n] = whole
    BY <1>5, <2>1, <2>6
  <2> HIDE DEF W, results
  <2>9. AggregateResults(results) = W[n]
    BY <2>1, <2>4, <2>7, <2>8, AggregateBy
  <2> QED BY <2>3, <2>8, <2>9 DEF results, plans, whole, plan
<1>8. longest <= BatchSize \/ longest > BatchSize
  BY <1>1, <1>3
<1> QED BY <1>6, <1>7, <1>8

LEMMA AnswersNext ==
  ASSUME NEW plans, NEW n \in Nat \ {0}
  PROVE  Answers(plans, n) = Append(Answers(plans, n - 1), ExtractResultData(Answer(plans[n].read)))
<1> DEFINE D(i) == ExtractResultData(Answer(plans[i].read))
           S == {D(i) : i \in 1..n}
<1> HIDE DEF D
<1>1. [i \in 1..n |-> D(i)] = Append([i \in 1..(n - 1) |-> D(i)], D(n))
  OBVIOUS
<1> QED BY <1>1 DEF Answers, D

LEMMA ReadIsLast ==
  ASSUME NEW writes, Len(writes) \in Nat, DOMAIN writes = 1..Len(writes), NEW mode, NEW read
  PROVE  Append([w \in DOMAIN writes |-> [mode |-> "write", stmt |-> writes[w]]],
                [mode |-> mode, stmt |-> read])[Len(writes) + 1].stmt = read
<1>1. PICK s : s = [w \in DOMAIN writes |-> [mode |-> "write", stmt |-> writes[w]]]
  OBVIOUS
<1>2. Len(s) = Len(writes)
  BY <1>1
<1>3. PICK last : last = [mode |-> mode, stmt |-> read]
  OBVIOUS
<1>4. Append(s, last)[Len(s) + 1] = last
  BY <1>1, <1>2
<1> QED BY <1>1, <1>2, <1>3, <1>4

(* What the steps of a call leave of its record. *)
Keeps(k, j, i, results, active) ==
  /\ k.kind = j.kind /\ k.mode = j.mode /\ k.itemwise = j.itemwise /\ k.whole = j.whole
  /\ k.plans = j.plans /\ k.i = i /\ k.results = results /\ k.active = active

LEMMA JobKeeps ==
  ASSUME NEW j, HasJobFields(j), NEW g
  PROVE  /\ Keeps([j EXCEPT !.w = @ + 1], j, j.i, j.results, j.active)
         /\ Keeps([j EXCEPT !.i = @ + 1, !.w = 1, !.results = g], j, j.i + 1, g, j.active)
         /\ Keeps([j EXCEPT !.active = FALSE, !.results = g], j, j.i, g, FALSE)
         /\ Keeps([j EXCEPT !.active = FALSE], j, j.i, j.results, FALSE)
BY DEF HasJobFields, Keeps

-----------------------------------------------------------------------------
(* A call of Execute is of an operation, and its results are the data of   *)
(* the chunks it is past.                                                  *)
OfOperation(j) ==
  \E op \in Operations : /\ j.mode = op.mode /\ j.itemwise = op.itemwise /\ j.whole = op.plan
                         /\ j.plans = ChunkPlans(op.plan, BatchSize)

AnswerSoFar(j, r) ==
  j.kind = "execute" =>
    /\ OfOperation(j)
    /\ j.active => j.results = Answers(j.plans, j.i - 1)
    /\ ~j.active /\ r = "ok" => j.results = Answers(j.plans, Len(j.plans))

AnswerInv == \A c \in Callers : AnswerSoFar(job[c], result[c])

(* A step of the call keeps that. *)
LEMMA AnswersKept ==
  ASSUME NEW j, NEW r, AnswerSoFar(j, r), NEW k, NEW s,
         \/ Keeps(k, j, j.i, j.results, j.active) /\ j.active /\ s = r
         \/ /\ Keeps(k, j, j.i + 1, k.results, j.active) /\ j.active /\ j.i \in Nat
            /\ j.kind = "execute" => k.results = Answers(j.plans, j.i)
         \/ /\ Keeps(k, j, j.i, k.results, FALSE)
            /\ s # "ok" \/ (j.kind = "execute" => k.results = Answers(j.plans, Len(j.plans)))
  PROVE  AnswerSoFar(k, s)
<1>1. OfOperation(j) => OfOperation(k)
  BY DEF Keeps, OfOperation
<1>2. CASE Keeps(k, j, j.i, j.results, j.active) /\ j.active /\ s = r
  BY <1>1, <1>2, Zenon DEF Keeps, AnswerSoFar
<1>3. CASE /\ Keeps(k, j, j.i + 1, k.results, j.active) /\ j.active /\ j.i \in Nat
           /\ j.kind = "execute" => k.results = Answers(j.plans, j.i)
  <2>1. k.kind = j.kind /\ k.plans = j.plans /\ k.i = j.i + 1 /\ k.active = j.active /\ k.active
    BY <1>3 DEF Keeps
  <2>2. k.i - 1 = j.i
    BY <1>3, <2>1
  <2>3. j.kind = "execute" => k.results = Answers(k.plans, k.i - 1)
    BY <1>3, <2>1, <2>2
  <2>4. j.kind = "execute" => OfOperation(k)
    BY <1>1 DEF AnswerSoFar
  <2> QED BY <2>1, <2>3, <2>4, Zenon DEF AnswerSoFar
<1>4. CASE /\ Keeps(k, j, j.i, k.results, FALSE)
           /\ s # "ok" \/ (j.kind = "execute" => k.results = Answers(j.plans, Len(j.plans)))
  BY <1>1, <1>4, Zenon DEF Keeps, AnswerSoFar
<1> QED BY <1>2, <1>3, <1>4

LEMMA AnswerStep ==
  ASSUME IndInv, CallInv, AnswerInv, [Next]_vars
  PROVE  AnswerInv'
<1>1. job = [d \in Callers |-> job[d]] /\ result = [d \in Callers |-> result[d]]
  BY DEF CallInv, IndInv, Shapes, JobShape
<1>2. ASSUME NEW c \in Callers, NEW j, NEW r, Begin(c, j, r), AnswerSoFar(j, r)
      PROVE  AnswerInv'
  <2>1. job' = [job EXCEPT ![c] = j] /\ result' = [result EXCEPT ![c] = r]
    BY <1>2 DEF Begin
  <2>2. job'[c] = j /\ result'[c] = r
    BY <1>1, <2>1
  <2>3. \A d \in Callers \ {c} : job'[d] = job[d] /\ result'[d] = result[d]
    BY <1>1, <2>1
  <2>4. \A d \in Callers : AnswerSoFar(job'[d], result'[d])
    BY <1>2, <2>2, <2>3, Zenon DEF AnswerInv
  <2> QED BY <2>4 DEF AnswerInv
<1>3. ASSUME NEW c \in Callers, Call(c) PROVE AnswerInv'
  <2>1. \A r : AnswerSoFar(NoJob, r)
    <3>1. NoJob.kind = "none"
      BY DEF NoJob, Job
    <3> QED BY <3>1 DEF AnswerSoFar
  <2>2. ASSUME NEW op \in Operations, Execute(c, op) PROVE AnswerInv'
    <3> DEFINE j == Job("execute", op, ChunkPlans(op.plan, BatchSize), BatchSize)
    <3>1. /\ j.mode = op.mode /\ j.itemwise = op.itemwise /\ j.whole = op.plan /\ j.i = 1
          /\ j.plans = ChunkPlans(op.plan, BatchSize) /\ j.results = <<>> /\ j.active = TRUE
      BY DEF Job
    <3>2. Begin(c, j, "none")
      BY <2>2 DEF Execute
    <3> HIDE DEF j
    <3>3. OfOperation(j)
      BY <3>1 DEF OfOperation
    <3>4. Answers(j.plans, j.i - 1) = <<>>
      BY <3>1 DEF Answers
    <3>5. AnswerSoFar(j, "none")
      BY <3>1, <3>3, <3>4 DEF AnswerSoFar
    <3> QED BY <1>2, <3>2, <3>5
  <2>3. ASSUME NEW q \in RawQueries, ExecuteRaw(c, q) PROVE AnswerInv'
    <3> DEFINE j == Job("raw", Single(q.query, q.params), <<Single(q.query, q.params).plan>>, 1)
    <3>1. Begin(c, j, "none") /\ j.kind = "raw"
      BY <2>3 DEF ExecuteRaw, Job
    <3> HIDE DEF j
    <3> QED BY <1>2, <3>1 DEF AnswerSoFar
  <2>4. ASSUME NEW b \in Batches, ExecuteRawBatch(c, b) PROVE AnswerInv'
    <3> DEFINE size == IF b.size <= 0 THEN DefaultRawBatchSize ELSE b.size
               j == Job("batch", Single(b.query, [items |-> List(b.items)]),
                        RawBatchPlans(b.query, b.items, size), size)
    <3>1. Begin(c, j, "none") /\ j.kind = "batch"
      BY <2>4 DEF ExecuteRawBatch, Job
    <3> HIDE DEF j
    <3> QED BY <1>2, <3>1 DEF AnswerSoFar
  <2>5. ASSUME ClosedCall(c) \/ BadRequest(c) \/ ExecuteRawBatchEmpty(c) PROVE AnswerInv'
    <3>1. \E r : Begin(c, NoJob, r)
      BY <2>5 DEF ClosedCall, BadRequest, ExecuteRawBatchEmpty
    <3> QED BY <1>2, <2>1, <3>1
  <2> QED BY <1>3, <2>2, <2>3, <2>4, <2>5 DEF Call
<1>4. ASSUME NEW c \in Callers, job[c].active, NEW r \in {"errContext", "errChunk"}, Finish(c, r)
      PROVE  AnswerInv'
  <2> DEFINE j == job[c]
             k == job'[c]
  <2>1. /\ k = [j EXCEPT !.active = FALSE] /\ result'[c] = r
        /\ \A d \in Callers \ {c} : job'[d] = job[d] /\ result'[d] = result[d]
    BY <1>1, <1>4 DEF Finish
  <2>2. AnswerSoFar(j, result[c])
    BY DEF AnswerInv
  <2>3. HasJobFields(j)
    BY <1>4, CurrentStatement
  <2> HIDE DEF j, k
  <2>4. Keeps([j EXCEPT !.active = FALSE], j, j.i, j.results, FALSE)
    BY <2>3, JobKeeps
  <2>5. Keeps(k, j, j.i, j.results, FALSE) /\ k.results = j.results
    BY <2>1, <2>4, Zenon DEF Keeps
  <2>6. AnswerSoFar(k, r)
    BY <2>2, <2>5, AnswersKept
  <2>7. \A d \in Callers : AnswerSoFar(job'[d], result'[d])
    BY <2>1, <2>6, Zenon DEF AnswerInv, k
  <2> QED BY <2>7 DEF AnswerInv
<1>5. ASSUME NEW c \in Callers, job[c].active, Advance(c)
      PROVE  AnswerInv'
  <2> DEFINE j == job[c]
             k == job'[c]
             g == Gathered(c)
  <2>1. CallOK(j, result[c], delivered[c], lost) /\ HasJobFields(j) /\ InPlans(j)
        /\ Current(c) = Stages(j)[j.i][j.w]
    BY <1>5, CurrentStatement DEF CallInv
  <2>2. AnswerSoFar(j, result[c]) /\ j.active
    BY <1>5 DEF AnswerInv
  <2>3. IsJob(j)
    BY <2>1 DEF CallOK
  <2> DEFINE writes == j.plans[j.i].writes
  <2>4. /\ j.i \in 1..Len(j.plans) /\ Len(j.plans) \in Nat /\ j.w \in 1..Len(writes) + 1
        /\ Len(writes) \in Nat
    <3> HIDE DEF j
    <3> QED BY <2>1, <2>3 DEF IsJob, InPlans
  <2>5. LastOfChunk(c) /\ j.kind = "execute" => g = Answers(j.plans, j.i)
    <3> SUFFICES ASSUME LastOfChunk(c), j.kind = "execute" PROVE g = Answers(j.plans, j.i)
      OBVIOUS
    <3>1. j.w = Len(writes) + 1
      <4>1. j.w > Len(writes)
        BY SMTT(30) DEF LastOfChunk
      <4> HIDE DEF j, writes
      <4> QED BY <2>4, <4>1
    <3>2. Current(c).stmt = j.plans[j.i].read
      <4>1. Current(c) = Append([w \in DOMAIN writes |-> [mode |-> "write", stmt |-> writes[w]]],
                                [mode |-> j.mode, stmt |-> j.plans[j.i].read])[j.w]
        BY DEF Current, ChunkStatements
      <4> QED BY <2>1, <2>3, <2>4, <3>1, <4>1, ReadIsLast, SMTT(30)
    <3>3. g = Append(j.results, ExtractResultData(Answer(j.plans[j.i].read)))
      BY <3>2 DEF Gathered
    <3>4. j.results = Answers(j.plans, j.i - 1)
      BY <2>2 DEF AnswerSoFar
    <3> HIDE DEF j, g
    <3>5. PICK n \in Nat \ {0} : n = j.i
      BY <2>4
    <3>6. PICK plans : plans = j.plans
      OBVIOUS
    <3> QED BY <3>3, <3>4, <3>5, <3>6, AnswersNext
  <2>6. \/ k = [j EXCEPT !.w = @ + 1] /\ result'[c] = result[c]
        \/ LastOfChunk(c) /\ k = [j EXCEPT !.i = @ + 1, !.w = 1, !.results = g] /\ result'[c] = result[c]
        \/ LastOfChunk(c) /\ j.i = Len(j.plans) /\ k = [j EXCEPT !.active = FALSE, !.results = g]
    BY <1>1, <1>5 DEF Advance, LastOfCall
  <2>7. \A d \in Callers \ {c} : job'[d] = job[d] /\ result'[d] = result[d]
    BY <1>1, <1>5 DEF Advance
  <2> HIDE DEF j, k, g, writes
  <2>8. AnswerSoFar(k, result'[c])
    <3>1. /\ Keeps([j EXCEPT !.w = @ + 1], j, j.i, j.results, j.active)
          /\ Keeps([j EXCEPT !.i = @ + 1, !.w = 1, !.results = g], j, j.i + 1, g, j.active)
          /\ Keeps([j EXCEPT !.active = FALSE, !.results = g], j, j.i, g, FALSE)
      BY <2>1, JobKeeps
    <3>2. \/ Keeps(k, j, j.i, j.results, j.active) /\ result'[c] = result[c]
          \/ LastOfChunk(c) /\ Keeps(k, j, j.i + 1, g, j.active)
          \/ LastOfChunk(c) /\ j.i = Len(j.plans) /\ Keeps(k, j, j.i, g, FALSE)
      BY <2>6, <3>1, Zenon
    <3>3. \A i, a : Keeps(k, j, i, g, a) => k.results = g
      BY DEF Keeps
    <3>4. j.i \in Nat
      BY <2>4
    <3>5. CASE Keeps(k, j, j.i, j.results, j.active) /\ result'[c] = result[c]
      BY <2>2, <3>5, AnswersKept
    <3>6. CASE LastOfChunk(c) /\ Keeps(k, j, j.i + 1, g, j.active)
      BY <2>2, <2>5, <3>3, <3>4, <3>6, AnswersKept
    <3>7. CASE LastOfChunk(c) /\ j.i = Len(j.plans) /\ Keeps(k, j, j.i, g, FALSE)
      BY <2>2, <2>5, <3>3, <3>7, AnswersKept
    <3> QED BY <3>2, <3>5, <3>6, <3>7
  <2>9. \A d \in Callers : AnswerSoFar(job'[d], result'[d])
    BY <2>7, <2>8, Zenon DEF AnswerInv, k
  <2> QED BY <2>9 DEF AnswerInv
<1>6. ASSUME NEW c \in Callers, Proceed(c) PROVE AnswerInv'
  <2>1. at[c] # "out" => job[c].active
    BY DEF CallInv
  <2>2. CASE CancelledBatch(c) \/ DriverRefuses(c) \/ StatementFails(c) \/ ReplyLost(c)
    <3>1. job[c].active /\ \E r \in {"errContext", "errChunk"} : Finish(c, r)
      BY <2>1, <2>2 DEF CancelledBatch, Between, DriverRefuses, StatementFails, ReplyLost, Refuse, Fail, Run, Move
    <3> QED BY <1>4, <3>1
  <2>3. CASE StatementRuns(c)
    <3>1. job[c].active /\ Advance(c)
      BY <2>1, <2>3 DEF StatementRuns, Run, Move
    <3> QED BY <1>5, <3>1
  <2>4. CASE CallDriver(c) \/ DriverAdmits(c)
    <3>1. UNCHANGED <<job, result>>
      BY <2>4 DEF CallDriver, DriverAdmits, clientVars
    <3> QED BY <3>1 DEF AnswerInv
  <2> QED BY <1>6, <2>2, <2>3, <2>4 DEF Proceed
<1>7. ASSUME \/ UNCHANGED vars
             \/ \E c \in Callers : Cancel(c)
             \/ \E k \in Closers : Close(k) \/ ProceedClose(k)
      PROVE  AnswerInv'
  <2>1. UNCHANGED <<job, result>>
    BY <1>7 DEF vars, clientVars, Cancel, Close, ProceedClose, DriverCloseAgain, DriverCloseBegin, DriverCloseEnd
  <2> QED BY <2>1 DEF AnswerInv
<1> QED BY <1>3, <1>6, <1>7 DEF Next

(* However many chunks a mutation over items is cut into, by whatever size,*)
(* what Execute returns is the answer of the mutation that was not cut:    *)
(* buildChunkPlan, executeChunk and aggregateResults.                      *)
THEOREM AnswersWhole == AnswersAddUp => (Spec => []MutationAnswerIsWhole)
<1> SUFFICES ASSUME AnswersAddUp PROVE Spec => []MutationAnswerIsWhole
  OBVIOUS
<1>1. Init => AnswerInv
  <2> SUFFICES ASSUME Init, NEW c \in Callers PROVE AnswerSoFar(job[c], result[c])
    BY DEF AnswerInv
  <2>1. job[c] = NoJob
    BY DEF Init
  <2>2. NoJob.kind = "none"
    BY DEF NoJob, Job
  <2> QED BY <2>1, <2>2 DEF AnswerSoFar
<1>2. IndInv /\ CallInv /\ AnswerInv /\ [Next]_vars => AnswerInv'
  BY AnswerStep
<1>3. CallInv /\ AnswerInv => MutationAnswerIsWhole
  <2> SUFFICES ASSUME CallInv, AnswerInv, NEW c \in Callers, job[c].kind = "execute", job[c].mode = "write",
                      job[c].itemwise, result[c] = "ok"
      PROVE  Returned(c) = Whole(c)
    BY DEF MutationAnswerIsWhole
  <2> DEFINE j == job[c]
  <2>1. ~j.active
    BY DEF CallInv, CallOK, Underway, Failed, Complete, NotBegun
  <2>2. OfOperation(j) /\ j.results = Answers(j.plans, Len(j.plans))
    BY <2>1 DEF AnswerInv, AnswerSoFar
  <2>3. PICK op \in Operations : /\ j.mode = op.mode /\ j.itemwise = op.itemwise /\ j.whole = op.plan
                                 /\ j.plans = ChunkPlans(op.plan, BatchSize)
    BY <2>2 DEF OfOperation
  <2>4. AggregateResults(Answers(j.plans, Len(j.plans))) = ExtractResultData(Answer(j.whole.read))
    <3>1. op.mode = "write" /\ op.itemwise
      BY <2>3
    <3>2. LET plans == ChunkPlans(op.plan, BatchSize)
          IN  AggregateResults(Answers(plans, Len(plans))) = ExtractResultData(Answer(op.plan.read))
      BY <3>1, ChunksAnswerWhole
    <3> HIDE DEF j
    <3> QED BY <2>3, <3>2
  <2> QED BY <2>2, <2>4 DEF Returned, Whole
<1> QED BY <1>1, <1>2, <1>3, CallsInvariant, PTL DEF Spec
=============================================================================
