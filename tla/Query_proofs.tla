---------------------------- MODULE Query_proofs ----------------------------
(***************************************************************************)
(* What a client reads about a job from several instants of the store is   *)
(* true, as long as no request recovers a job.  A query only reads, so all *)
(* that is proved of AsyncQueue holds while queries go on.                 *)
(***************************************************************************)
EXTENDS JobQuery, OneShot_proofs

LEMMA QueriesOnlyRead == QuerySpec => Spec
<1>1. QueryInit => Init BY DEF QueryInit
<1>2. [QueryNext]_allVars => [Next]_vars
  <2> SUFFICES ASSUME [QueryNext]_allVars PROVE [Next]_vars OBVIOUS
  <2>1. CASE Queueing BY <2>1 DEF Queueing
  <2>2. CASE Query
        BY <2>2 DEF Query, Ask, ReadStatus, ReadResult, ReadType, ReadPosition,
           PositionMissing, ReadLength, ReadStart, QueryGoes
  <2>3. CASE UNCHANGED allVars BY <2>3 DEF allVars
  <2>4. QED BY <2>1, <2>2, <2>3 DEF QueryNext
<1>3. QED BY <1>1, <1>2, PTL DEF QuerySpec, Spec

-----------------------------------------------------------------------------
(* The outcome of a one-shot job is final: nothing starts the job again and*)
(* hides the result.                                                       *)

Final(b, i) == status[b][i] \in Terminal

\* A final status comes with a result.
WholeInv == \A b \in Buckets, i \in OneShot : Final(b, i) => i \in result[b]

Stays(b, i) == /\ Final(b, i)' => i \in result'[b]
               /\ Final(b, i) => Final(b, i)'

LEMMA StaysSame ==
  ASSUME WholeInv, NEW b \in Buckets, NEW i \in OneShot,
         status'[b][i] = status[b][i], i \in result[b] => i \in result'[b]
  PROVE  Stays(b, i)
BY DEF WholeInv, Stays, Final

\* The script that moves a job finds a one-shot job with a final status in no
\* place that it could start from (FitInv).
LEMMA StaysMove ==
  ASSUME StoreTypeOK, OneShotInv, FitInv, WholeInv, Move,
         NEW c \in Buckets, NEW j \in OneShot
  PROVE  Stays(c, j)
<1>1. j \in Ids /\ Placed(c, j) /\ Fit(c, j) BY DEF OneShot, OneShotInv, FitInv
<1>2. ASSUME NEW b \in Buckets, Pending2Ready(b) PROVE Stays(c, j)
  <2>1. CASE c = b /\ j \in Moved(b)
    <3>1. pending[c][j] # Absent BY <2>1 DEF Moved, Due
    <3>2. status[c][j] = "Pending" BY <1>1, <3>1 DEF Fit
    <3>3. status'[c][j] = "Ready" BY <1>1, <1>2, <2>1 DEF Pending2Ready, StoreTypeOK
    <3>4. QED BY <3>2, <3>3 DEF Stays, Final, Terminal
  <2>2. CASE ~(c = b /\ j \in Moved(b))
    <3>1. /\ status'[c][j] = status[c][j]
          /\ j \in result[c] => j \in result'[c]
          BY <1>1, <1>2, <2>2 DEF Pending2Ready, StoreTypeOK
    <3>2. QED BY <3>1, StaysSame
  <2>3. QED BY <2>1, <2>2
<1>3. ASSUME NEW b \in Buckets, Ready2RunningDrop(b) PROVE Stays(c, j)
      BY <1>3, StaysSame DEF Ready2RunningDrop
<1>4. ASSUME NEW b \in Buckets, NEW i \in Ids, Ready2Running(b, i)
      PROVE  Stays(c, j)
  <2>1. CASE c = b /\ j = i
    <3>1. Queued(ready[c], j) /\ j \in ttl[c]
          BY <1>4, <2>1, QueuedTail DEF Ready2Running, StoreTypeOK
    <3>2. status[c][j] \in {"Ready", "TimeOut"} BY <1>1, <3>1 DEF Fit
    <3>3. status'[c][j] = "Running" BY <1>1, <1>4, <2>1 DEF Ready2Running, StoreTypeOK
    <3>4. QED BY <3>2, <3>3 DEF Stays, Final, Terminal
  <2>2. CASE c # b \/ j # i
    <3>1. /\ status'[c][j] = status[c][j]
          /\ j \in result[c] => j \in result'[c]
          BY <1>1, <1>4, <2>2 DEF Ready2Running, StoreTypeOK
    <3>2. QED BY <3>1, StaysSame
  <2>3. QED BY <2>1, <2>2
<1>5. ASSUME NEW b \in Buckets, Running2Ready(b) PROVE Stays(c, j)
  <2>1. Retried(b) \subseteq Expired(b) BY DEF Retried
  <2>2. /\ c = b /\ j \in Retried(b) => status'[c][j] = "TimeOut"
        /\ c = b /\ j \in GivenUp(b) => status'[c][j] = "Error"
        /\ ~(c = b /\ j \in Expired(b)) => status'[c][j] = status[c][j]
        BY <1>1, <1>5, <2>1 DEF Running2Ready, StoreTypeOK, GivenUp
  <2>3. /\ j \in result[c] => j \in result'[c]
        /\ c = b /\ j \in GivenUp(b) => j \in result'[c]
        BY <1>1, <1>5 DEF Running2Ready, StoreTypeOK, FitsBeforeNext, Placed
  <2>4. CASE c = b /\ j \in Retried(b)
    <3>1. running[c][j] # Absent BY <2>1, <2>4 DEF Expired, Due
    <3>2. status[c][j] = "Running" BY <1>1, <3>1 DEF Fit
    <3>3. QED BY <2>2, <2>4, <3>2 DEF Stays, Final, Terminal
  <2>5. CASE c = b /\ j \in GivenUp(b)
        BY <2>2, <2>3, <2>5 DEF Stays, Final, Terminal
  <2>6. CASE ~(c = b /\ j \in Expired(b)) BY <2>2, <2>3, <2>6, StaysSame
  <2>7. QED BY <2>4, <2>5, <2>6 DEF GivenUp
<1>6. ASSUME NEW b \in Buckets, NEW i \in Ids, NEW st \in Terminal,
             Running2Finish(b, i, st)
      PROVE  Stays(c, j)
  <2>1. /\ status'[c][j] = IF c = b /\ j = i THEN st ELSE status[c][j]
        /\ j \in result'[c] <=> j \in result[c] \/ (c = b /\ j = i)
        BY <1>1, <1>6 DEF Running2Finish, StoreTypeOK
  <2>2. CASE c = b /\ j = i BY <2>1, <2>2 DEF Stays, Final
  <2>3. CASE c # b \/ j # i BY <2>1, <2>3, StaysSame
  <2>4. QED BY <2>2, <2>3
<1>7. ASSUME NEW b \in Buckets, NEW i \in Ids, Terminate(b, i) \/ Delete(b, i)
      PROVE  Stays(c, j)
      BY <1>7, StaysSame DEF Terminate, Delete
<1>8. ASSUME NEW b \in Buckets, NEW i \in Ids, NEW t, NEW next,
             Running2Pending(b, i, t, next)
      PROVE  Stays(c, j)
      BY <1>8, StaysSame DEF Running2Pending, store
<1>9. QED BY <1>2, <1>3, <1>4, <1>5, <1>6, <1>7, <1>8 DEF Move

\* A delivery starts the story of a fresh id.
LEMMA StaysDeliver ==
  ASSUME IInv, WholeInv, NEW i \in Ids, Deliver(i),
         NEW c \in Buckets, NEW j \in OneShot
  PROVE  /\ Final(c, j)' => j \in result'[c]
         /\ j \in issued => Stays(c, j)
<1>1. PICK b \in Buckets, t \in StartTimes(i) : Send2Pending(b, i, t)
      BY DEF Deliver
<1>2. StoreTypeOK /\ j \in Ids /\ i \notin issued
      BY DEF IInv, StoreInv, OneShot, Deliver
<1>3. CASE UNCHANGED store BY <1>3, StaysSame DEF store, Stays
<1>4. CASE ~DeliveryRefused(b, i)
  <2>1. /\ status' = [status EXCEPT ![b][i] = "Pending"]
        /\ result' = [result EXCEPT ![b] = @ \ {i}]
        BY <1>1, <1>4 DEF Send2Pending
  <2>2. CASE c = b /\ j = i
    <3>1. status'[c][j] = "Pending" BY <1>2, <2>1, <2>2 DEF StoreTypeOK
    <3>2. QED BY <1>2, <2>2, <3>1 DEF Final, Terminal
  <2>3. CASE c # b \/ j # i
    <3>1. /\ status'[c][j] = status[c][j]
          /\ j \in result[c] => j \in result'[c]
          BY <1>2, <2>1, <2>3 DEF StoreTypeOK
    <3>2. QED BY <3>1, StaysSame DEF Stays
  <2>4. QED BY <2>2, <2>3
<1>5. QED BY <1>1, <1>3, <1>4 DEF Send2Pending

LEMMA StaysNext ==
  ASSUME IInv, HomeInv, OneShotInv, FitInv, WholeInv, [Next]_vars,
         NEW c \in Buckets, NEW j \in OneShot
  PROVE  /\ Final(c, j)' => j \in result'[c]
         /\ j \in issued => Stays(c, j)
<1>1. StoreTypeOK BY DEF IInv, StoreInv
<1>2. CASE UNCHANGED store BY <1>2, StaysSame DEF store, Stays
<1>3. CASE Move BY <1>1, <1>3, StaysMove DEF Stays
<1>4. ASSUME NEW d \in Clients, RecoverSend(d) PROVE FALSE
      BY <1>4 DEF HomeInv, RecoverSend
<1>5. QED BY <1>2, <1>3, <1>4, StaysDeliver, OneScript

-----------------------------------------------------------------------------
(* What the query in progress has read.                                    *)

Known == query.pc \notin {"idle", "notFound"}

QueryInv ==
  /\ DOMAIN query = DOMAIN NoQuery
  /\ Known => query.id \in issued /\ query.bucket \in Buckets
  /\ Known /\ query.pc # "status" /\ query.id \in OneShot
       /\ query.status \in Terminal =>
       /\ Final(query.bucket, query.id)
       /\ query.pc # "result" => query.error

\* The queue goes on under the query.
LEMMA QueryMeanwhile ==
  ASSUME IInv, HomeInv, OneShotInv, FitInv, WholeInv, QueryInv, [Next]_vars,
         UNCHANGED query
  PROVE  QueryInv'
<1>1. issued \subseteq issued' BY IssuedGrows
<1>2. Known /\ query.id \in OneShot /\ Final(query.bucket, query.id) =>
        Final(query.bucket, query.id)'
  <2> SUFFICES ASSUME Known, query.id \in OneShot, Final(query.bucket, query.id)
               PROVE  Final(query.bucket, query.id)'
      OBVIOUS
  <2> DEFINE b == query.bucket
             i == query.id
  <2>1. b \in Buckets /\ i \in issued BY DEF QueryInv
  <2>2. Stays(b, i) BY <2>1, StaysNext
  <2>3. Final(b, i)' BY <2>2 DEF Stays
  <2>4. QED BY <2>3 DEF Final
<1>3. QED BY <1>1, <1>2 DEF QueryInv, Known, Final

LEMMA QueryReads ==
  ASSUME IInv, HomeInv, WholeInv, QueryInv, Query
  PROVE  QueryInv'
<1>1. UNCHANGED << status, result, issued >>
      BY DEF Query, Ask, ReadStatus, ReadResult, ReadType, ReadPosition,
         PositionMissing, ReadLength, ReadStart, QueryGoes, vars, env, store
<1>2. ASSUME NEW i \in Ids, Ask(i) PROVE QueryInv'
  <2>1. query' = [NoQuery EXCEPT !.id = i, !.bucket = bucketOf[i],
                    !.pc = IF bucketOf[i] = NoBucket THEN "notFound" ELSE "status"]
        BY <1>2 DEF Ask
  <2>2. /\ DOMAIN query' = DOMAIN NoQuery
        /\ query'.id = i /\ query'.bucket = bucketOf[i]
        /\ query'.pc = IF bucketOf[i] = NoBucket THEN "notFound" ELSE "status"
        BY <2>1 DEF NoQuery
  <2>3. bucketOf[i] # NoBucket => bucketOf[i] \in Buckets /\ i \in issued
        BY DEF HomeInv, IInv, StoreInv, StoreTypeOK
  <2>4. QED BY <1>1, <2>2, <2>3 DEF QueryInv, Known
<1>3. CASE ReadStatus
  <2>1. /\ DOMAIN query' = DOMAIN NoQuery /\ query.pc = "status"
        /\ query'.pc = "result" /\ query'.id = query.id
        /\ query'.bucket = query.bucket
        /\ query'.status = status[query.bucket][query.id]
        BY <1>3 DEF ReadStatus, QueryGoes, QueryInv, NoQuery
  <2>2. QED BY <1>1, <2>1 DEF QueryInv, Known, Final
<1>4. CASE ReadResult
  <2>1. /\ DOMAIN query' = DOMAIN NoQuery /\ query.pc = "result"
        /\ query'.pc = "type" /\ query'.id = query.id
        /\ query'.bucket = query.bucket /\ query'.status = query.status
        /\ query'.error = (query.id \in result[query.bucket])
        BY <1>4 DEF ReadResult, QueryGoes, QueryInv, NoQuery
  <2>2. Known BY <2>1 DEF Known
  <2>3. query.id \in OneShot /\ query.status \in Terminal =>
          Final(query.bucket, query.id) /\ query.id \in result[query.bucket]
        BY <2>1, <2>2 DEF QueryInv, WholeInv
  <2>4. QED BY <1>1, <2>1, <2>2, <2>3 DEF QueryInv, Known, Final
<1>5. CASE ReadType \/ ReadPosition \/ PositionMissing \/ ReadLength \/ ReadStart
  <2>1. /\ DOMAIN query' = DOMAIN NoQuery
        /\ query.pc \in {"type", "position", "length", "start"}
        /\ query'.pc \in {"position", "start", "length", "internal", "ok"}
        /\ query'.id = query.id /\ query'.bucket = query.bucket
        /\ query'.status = query.status /\ query'.error = query.error
        BY <1>5 DEF ReadType, ReadPosition, PositionMissing, ReadLength, ReadStart,
           QueryGoes, QueryInv, NoQuery
  <2>2. Known BY <2>1 DEF Known
  <2>3. QED BY <1>1, <2>1, <2>2 DEF QueryInv, Known, Final
<1>6. QED BY <1>2, <1>3, <1>4, <1>5 DEF Query

LEMMA QueryInvariance ==
  ASSUME "recover" \notin Ops, MaxStarts # 0
  PROVE  QuerySpec => [](WholeInv /\ QueryInv)
<1>1. QueryInit => WholeInv /\ QueryInv
  <2> SUFFICES ASSUME QueryInit PROVE WholeInv /\ QueryInv OBVIOUS
  <2>1. \A b \in Buckets, i \in OneShot : status[b][i] = "None"
        BY DEF QueryInit, Init, StoreInit, OneShot
  <2>2. WholeInv BY <2>1 DEF WholeInv, Final, Terminal
  <2>3. query = NoQuery /\ query.pc = "idle" BY DEF QueryInit, NoQuery
  <2>4. QED BY <2>2, <2>3 DEF QueryInv, Known
<1>2. IInv /\ HomeInv /\ OneShotInv /\ FitInv /\ WholeInv /\ QueryInv
        /\ [QueryNext]_allVars => WholeInv' /\ QueryInv'
  <2> SUFFICES ASSUME IInv, HomeInv, OneShotInv, FitInv, WholeInv, QueryInv,
                      [QueryNext]_allVars
               PROVE  WholeInv' /\ QueryInv'
      OBVIOUS
  <2>1. CASE Query
    <3>1. UNCHANGED << status, result >>
          BY <2>1 DEF Query, Ask, ReadStatus, ReadResult, ReadType, ReadPosition,
             PositionMissing, ReadLength, ReadStart, QueryGoes, vars, store
    <3>2. QED BY <2>1, <3>1, QueryReads DEF WholeInv, Final
  <2>2. CASE Queueing \/ UNCHANGED allVars
    <3>1. [Next]_vars /\ UNCHANGED query BY <2>2 DEF Queueing, allVars
    <3>2. WholeInv' BY <3>1, StaysNext DEF WholeInv
    <3>3. QED BY <3>1, <3>2, QueryMeanwhile
  <2>3. QED BY <2>1, <2>2 DEF QueryNext
<1>3. QED BY <1>1, <1>2, QueriesOnlyRead, Invariance, HomeInvariance,
             OneShotInvariance, FitInvariance, PTL DEF QuerySpec

(* The answer about a one-shot job is whole although its parts were read at*)
(* different instants: a final status is never shown without the result.   *)
THEOREM AnswerIsWhole ==
  ASSUME "recover" \notin Ops, MaxStarts # 0
  PROVE  QuerySpec => []FinalAnswerWhole
<1>1. QueryInv => FinalAnswerWhole BY DEF QueryInv, FinalAnswerWhole, Known
<1>2. QED BY <1>1, QueryInvariance, PTL

-----------------------------------------------------------------------------
(* Why a query misses a job that its status called queued.                 *)

LEMMA ScriptMarks ==
  ASSUME StoreTypeOK, Move, NEW b \in Buckets, NEW i \in Ids
  PROVE  /\ i \in terminate[b] => i \in terminate'[b]
         /\ status'[b][i] = "None" => status[b][i] = "None"
<1>1. ASSUME NEW c \in Buckets, Pending2Ready(c) \/ Running2Ready(c)
      PROVE  /\ UNCHANGED terminate
             /\ status'[b][i] \in {status[b][i], "Ready", "TimeOut", "Error"}
  <2>1. CASE Pending2Ready(c) BY <2>1 DEF Pending2Ready, StoreTypeOK
  <2>2. CASE Running2Ready(c) BY <2>2 DEF Running2Ready, StoreTypeOK
  <2>3. QED BY <1>1, <2>1, <2>2
<1>2. ASSUME NEW c \in Buckets, Ready2RunningDrop(c)
      PROVE  UNCHANGED << terminate, status >>
      BY <1>2 DEF Ready2RunningDrop
<1>3. ASSUME NEW c \in Buckets, NEW j \in Ids, Ready2Running(c, j)
      PROVE  UNCHANGED terminate /\ status'[b][i] \in {status[b][i], "Running"}
      BY <1>3 DEF Ready2Running, StoreTypeOK
<1>4. ASSUME NEW c \in Buckets, NEW j \in Ids, Terminate(c, j) \/ Delete(c, j)
      PROVE  UNCHANGED status /\ terminate[b] \subseteq terminate'[b]
  <2>1. UNCHANGED status /\ terminate' = [terminate EXCEPT ![c] = @ \cup {j}]
        BY <1>4 DEF Terminate, Delete
  <2>2. terminate'[b] = IF b = c THEN terminate[b] \cup {j} ELSE terminate[b]
        BY <2>1 DEF StoreTypeOK
  <2>3. QED BY <2>1, <2>2
<1>5. ASSUME NEW c \in Buckets, NEW j \in Ids, NEW t, NEW next,
             Running2Pending(c, j, t, next)
      PROVE  UNCHANGED << terminate, status >>
      BY <1>5 DEF Running2Pending, store
<1>6. ASSUME NEW c \in Buckets, NEW j \in Ids, NEW st \in Terminal,
             Running2Finish(c, j, st)
      PROVE  UNCHANGED terminate /\ status'[b][i] \in {status[b][i], st}
      BY <1>6 DEF Running2Finish, StoreTypeOK
<1>7. "None" \notin Terminal BY DEF Terminal
<1>8. QED BY <1>1, <1>2, <1>3, <1>4, <1>5, <1>6, <1>7 DEF Move

\* A delivered job never loses its stop flag, its status or its starts.
LEMMA MarksStay ==
  ASSUME IInv, HomeInv, [Next]_vars, NEW b \in Buckets, NEW i \in issued
  PROVE  /\ i \in terminate[b] => i \in terminate'[b]
         /\ status'[b][i] = "None" => status[b][i] = "None"
<1>1. StoreTypeOK /\ i \in Ids BY DEF IInv, StoreInv, EnvTypeOK
<1>2. CASE UNCHANGED store BY <1>2 DEF store
<1>3. CASE Move BY <1>1, <1>3, ScriptMarks
<1>4. ASSUME NEW d \in Clients, RecoverSend(d) PROVE FALSE
      BY <1>4 DEF HomeInv, RecoverSend
<1>5. ASSUME NEW j \in Ids, Deliver(j)
      PROVE  /\ i \in terminate[b] => i \in terminate'[b]
             /\ status'[b][i] = status[b][i]
  <2>1. PICK c \in Buckets, t \in StartTimes(j) : Send2Pending(c, j, t)
        BY <1>5 DEF Deliver
  <2>2. i # j BY <1>5 DEF Deliver
  <2>3. CASE UNCHANGED store BY <2>3 DEF store
  <2>4. CASE /\ terminate' = [terminate EXCEPT ![c] = @ \ {j}]
             /\ status' = [status EXCEPT ![c][j] = "Pending"]
        BY <1>1, <2>2, <2>4 DEF StoreTypeOK
  <2>5. QED BY <2>1, <2>3, <2>4 DEF Send2Pending
<1>6. QED BY <1>2, <1>3, <1>4, <1>5, OneScript

\* A queued job leaves the list for a run, or for good.
LEMMA QueuedMoves ==
  ASSUME IInv, HomeInv, OneShotInv, [Next]_vars,
         NEW b \in Buckets, NEW i \in OneShot, i \in issued, Queued(ready[b], i)
  PROVE  \/ /\ pending'[b][i] = Absent /\ running'[b][i] = Absent
            /\ starts'[i] = starts[i]
         \/ /\ starts[i] < Retries[i] + 1
            /\ starts'[i] = IF starts[i] < MaxStarts THEN starts[i] + 1
                                                    ELSE starts[i]
<1>1. /\ StoreTypeOK /\ i \in Ids /\ starts \in [Ids -> 0..MaxStarts]
      /\ MaxStarts \in Nat
      BY QueueAssumption DEF IInv, StoreInv, EnvTypeOK, OneShot
<1>2. pending[b][i] = Absent /\ running[b][i] = Absent
      BY DEF OneShotInv, Placed
<1>3. CASE Shrinks BY <1>2, <1>3 DEF Shrinks
<1>4. ASSUME NEW j \in Ids, Deliver(j)
      PROVE  /\ pending'[b][i] = Absent /\ running'[b][i] = Absent
             /\ starts'[i] = starts[i]
  <2>1. PICK c \in Buckets, t \in StartTimes(j) : Send2Pending(c, j, t)
        BY <1>4 DEF Deliver
  <2>2. i # j /\ UNCHANGED starts BY <1>4 DEF Deliver
  <2>3. CASE UNCHANGED store BY <1>2, <2>2, <2>3 DEF store
  <2>4. CASE pending' = [pending EXCEPT ![c][j] = t] /\ UNCHANGED running
        BY <1>1, <1>2, <2>2, <2>4 DEF StoreTypeOK
  <2>5. QED BY <2>1, <2>3, <2>4 DEF Send2Pending
<1>5. ASSUME NEW c \in Buckets, Pending2Ready(c), UNCHANGED starts
      PROVE  /\ pending'[b][i] = Absent /\ running'[b][i] = Absent
             /\ starts'[i] = starts[i]
      BY <1>1, <1>2, <1>5 DEF Pending2Ready, Removed, StoreTypeOK
<1>6. ASSUME NEW c \in Buckets, Running2Ready(c), UNCHANGED starts
      PROVE  /\ pending'[b][i] = Absent /\ running'[b][i] = Absent
             /\ starts'[i] = starts[i]
      BY <1>1, <1>2, <1>6 DEF Running2Ready, Removed, StoreTypeOK
<1>7. ASSUME NEW n \in Nodes, NEW c \in Buckets, Pop(n, c)
      PROVE  \/ /\ pending'[b][i] = Absent /\ running'[b][i] = Absent
                /\ starts'[i] = starts[i]
             \/ /\ starts[i] < Retries[i] + 1
                /\ starts'[i] = IF starts[i] < MaxStarts THEN starts[i] + 1
                                                        ELSE starts[i]
  <2>1. PICK j \in Ids :
          /\ Ready2Running(c, j)
          /\ starts' = [starts EXCEPT ![j] = IF @ < MaxStarts THEN @ + 1 ELSE @]
        BY <1>7 DEF Pop
  <2>2. /\ pending' = pending /\ j \in ttl[c]
        /\ running' = [running EXCEPT ![c][j] = Deadline(j)]
        BY <2>1 DEF Ready2Running
  <2>3. CASE i # j BY <1>1, <1>2, <2>1, <2>2, <2>3 DEF StoreTypeOK
  <2>4. CASE i = j
    <3>1. Queued(ready[c], i)
          BY <1>1, <2>1, <2>4, QueuedTail DEF Ready2Running, StoreTypeOK
    <3>2. starts[i] + Left(c, i) <= Retries[i]
          BY <2>2, <2>4, <3>1 DEF OneShotInv, Budgeted
    <3>3. Left(c, i) \in Nat /\ starts[i] \in Nat /\ Retries[i] \in Nat
          BY <1>1, LeftNat, JobsAssumption
    <3>4. starts[i] < Retries[i] + 1 BY <3>2, <3>3
    <3>5. QED BY <1>1, <2>1, <2>4, <3>4
  <2>5. QED BY <2>3, <2>4
<1>8. QED BY <1>3, <1>4, <1>5, <1>6, <1>7, OneShotSteps

LEMMA StartsGrow ==
  ASSUME IInv, HomeInv, OneShotInv, [Next]_vars, NEW i \in Ids
  PROVE  /\ starts[i] \in Nat /\ starts'[i] \in Nat
         /\ starts'[i] >= starts[i]
<1>1. starts \in [Ids -> 0..MaxStarts] /\ MaxStarts \in Nat
      BY QueueAssumption DEF IInv, EnvTypeOK
<1>2. CASE UNCHANGED starts BY <1>1, <1>2
<1>3. ASSUME NEW j \in Ids,
             starts' = [starts EXCEPT ![j] = IF @ < MaxStarts THEN @ + 1 ELSE @]
      PROVE  starts'[i] \in Nat /\ starts'[i] >= starts[i]
  <2>1. CASE i = j BY <1>1, <1>3, <2>1
  <2>2. CASE i # j BY <1>1, <1>3, <2>2
  <2>3. QED BY <2>1, <2>2
<1>4. starts[i] \in Nat BY <1>1
<1>5. \/ UNCHANGED starts
      \/ \E j \in Ids :
           starts' = [starts EXCEPT ![j] = IF @ < MaxStarts THEN @ + 1 ELSE @]
  <2>1. CASE Shrinks \/ \E j \in Ids : Deliver(j) BY <2>1 DEF Shrinks, Deliver
  <2>2. ASSUME NEW n \in Nodes, NEW c \in Buckets, Pop(n, c)
        PROVE  \E j \in Ids :
                 starts' = [starts EXCEPT ![j] = IF @ < MaxStarts THEN @ + 1 ELSE @]
        BY <2>2 DEF Pop
  <2>3. QED BY <2>1, <2>2, OneShotSteps
<1>6. QED BY <1>2, <1>3, <1>4, <1>5

\* Why a one-shot job that had begun r runs may be missing from its ready list.
Raced(b, i, r) == \/ i \in terminate[b]
                  \/ starts[i] > r
                  \/ Final(b, i)

\* It was queued when the status was read, and still is or has raced.
Reading == query.pc \in {"result", "type", "position"}

RaceInv ==
  /\ query.pc = "position" => query.status \in InQueue
  /\ Reading /\ query.id \in OneShot /\ query.status \in InQueue =>
       LET b == query.bucket
           i == query.id
       IN  /\ query.runs \in Nat /\ query.runs <= starts[i]
           /\ status[b][i] # "None"
           /\ Raced(b, i, query.runs) \/ Queued(ready[b], i)

\* What RaceInv says of one job outlives a step of the queue.
LEMMA RaceMeanwhile ==
  ASSUME IInv, HomeInv, OneShotInv, FitInv, WholeInv, ShownInv', [Next]_vars,
         StoreTypeOK', NEW b \in Buckets, NEW i \in OneShot, i \in issued,
         Retries[i] < MaxStarts,
         NEW r \in Nat, r <= starts[i], status[b][i] # "None",
         Raced(b, i, r) \/ Queued(ready[b], i)
  PROVE  /\ r <= starts'[i] /\ status'[b][i] # "None"
         /\ Raced(b, i, r)' \/ Queued(ready'[b], i)
<1>1. /\ i \in Ids /\ starts[i] \in Nat /\ starts'[i] \in Nat
      /\ starts'[i] >= starts[i]
      BY StartsGrow DEF OneShot
<1>2. status'[b][i] # "None" BY MarksStay
<1>3. CASE i \in terminate[b] BY <1>1, <1>2, <1>3, MarksStay DEF Raced
<1>4. CASE starts[i] > r BY <1>1, <1>2, <1>4 DEF Raced
<1>5. CASE Final(b, i)
  <2>1. Final(b, i)' BY <1>5, StaysNext DEF Stays
  <2>2. QED BY <1>1, <1>2, <2>1 DEF Raced
<1>6. CASE ~Raced(b, i, r)
  <2>1. Queued(ready[b], i) /\ starts[i] = r BY <1>1, <1>6 DEF Raced
  <2>2. CASE starts'[i] > r BY <1>1, <1>2, <2>2 DEF Raced
  <2>3. CASE ~(starts'[i] > r)
    <3>1. pending'[b][i] = Absent /\ running'[b][i] = Absent
          BY <1>1, <2>1, <2>3, QueuedMoves, JobsAssumption, QueueAssumption
    <3>2. Shown(b, i)' BY <1>1 DEF ShownInv
    <3>3. status'[b][i] \in Statuses BY <1>1 DEF StoreTypeOK
    <3>4. CASE i \in terminate'[b] BY <1>1, <1>2, <3>4 DEF Raced
    <3>5. CASE i \notin terminate'[b]
      <4>1. status'[b][i] \in Terminal \/ Queued(ready'[b], i)
            BY <1>2, <3>1, <3>2, <3>3, <3>5 DEF Shown, Statuses, Stoppable
      <4>2. QED BY <1>1, <1>2, <4>1 DEF Raced, Final
    <3>6. QED BY <3>4, <3>5
  <2>4. QED BY <2>2, <2>3
<1>7. QED BY <1>3, <1>4, <1>5, <1>6 DEF Raced

LEMMA RaceReads ==
  ASSUME IInv, ShownInv, QueryInv, RaceInv, Query
  PROVE  RaceInv'
<1>1. UNCHANGED << status, ready, terminate, starts >>
      BY DEF Query, Ask, ReadStatus, ReadResult, ReadType, ReadPosition,
         PositionMissing, ReadLength, ReadStart, QueryGoes, vars, env, store
<1>2. starts \in [Ids -> 0..MaxStarts] /\ MaxStarts \in Nat /\ issued \subseteq Ids
      BY QueueAssumption DEF IInv, EnvTypeOK
<1>3. ASSUME NEW i \in Ids, Ask(i) PROVE RaceInv'
  <2>1. query'.pc \in {"notFound", "status"} BY <1>3 DEF Ask, NoQuery
  <2>2. QED BY <2>1 DEF RaceInv, Reading
<1>4. CASE ReadStatus
  <2> DEFINE b == query.bucket
             i == query.id
  <2>1. /\ query'.pc = "result" /\ query'.id = i /\ query'.bucket = b
        /\ query'.status = status[b][i] /\ query'.runs = starts[i]
        /\ query.pc = "status"
        BY <1>4 DEF ReadStatus, QueryGoes, QueryInv, NoQuery
  <2>2. b \in Buckets /\ i \in Ids BY <1>2, <2>1 DEF QueryInv, Known
  <2>3. Shown(b, i) BY <2>2 DEF ShownInv
  <2>4. status[b][i] \in InQueue =>
          /\ status[b][i] # "None"
          /\ i \in terminate[b] \/ Queued(ready[b], i)
        BY <2>3 DEF Shown, InQueue
  <2>5. starts[i] \in Nat /\ starts[i] <= starts[i] BY <1>2, <2>2
  <2> HIDE DEF b, i
  <2>6. QED BY <1>1, <2>1, <2>4, <2>5 DEF RaceInv, Reading, Raced, Queued
<1>5. CASE ReadResult \/ ReadType
  <2>1. /\ Reading
        /\ query'.id = query.id /\ query'.bucket = query.bucket
        /\ query'.status = query.status /\ query'.runs = query.runs
        /\ query'.pc = "position" => query.status \in InQueue
        BY <1>5 DEF ReadResult, ReadType, QueryGoes, QueryInv, NoQuery, Reading
  <2>2. QED BY <1>1, <2>1 DEF RaceInv, Raced, Final, Queued
<1>6. CASE ReadPosition \/ PositionMissing \/ ReadLength \/ ReadStart
  <2>1. query'.pc \in {"length", "internal", "start", "ok"}
        BY <1>6 DEF ReadPosition, PositionMissing, ReadLength, ReadStart,
           QueryGoes, QueryInv, NoQuery
  <2>2. QED BY <2>1 DEF RaceInv, Reading
<1>7. QED BY <1>3, <1>4, <1>5, <1>6 DEF Query

LEMMA RaceInvariance ==
  ASSUME "recover" \notin Ops, MaxStarts # 0,
         \A i \in OneShot : Retries[i] < MaxStarts
  PROVE  QuerySpec => []RaceInv
<1>1. QueryInit => RaceInv
  <2>1. NoQuery.pc = "idle" BY DEF NoQuery
  <2>2. QueryInit => query.pc = "idle" BY <2>1 DEF QueryInit
  <2>3. QED BY <2>2 DEF RaceInv, Reading
<1>2. IInv /\ IInv' /\ HomeInv /\ OneShotInv /\ FitInv /\ ShownInv /\ ShownInv'
        /\ WholeInv /\ QueryInv /\ RaceInv /\ [QueryNext]_allVars => RaceInv'
  <2> SUFFICES ASSUME IInv, IInv', HomeInv, OneShotInv, FitInv, ShownInv,
                      ShownInv', WholeInv, QueryInv, RaceInv,
                      [QueryNext]_allVars
               PROVE  RaceInv'
      OBVIOUS
  <2>1. CASE Query BY <2>1, RaceReads
  <2>2. CASE Queueing \/ UNCHANGED allVars
    <3>1. [Next]_vars /\ UNCHANGED query BY <2>2 DEF Queueing, allVars
    <3>2. StoreTypeOK' BY DEF IInv, StoreInv
    <3> DEFINE b == query.bucket
               i == query.id
    <3>3. CASE Reading /\ i \in OneShot /\ query.status \in InQueue
      <4>1. b \in Buckets /\ i \in issued BY <3>3 DEF QueryInv, Reading, Known
      <4>2. /\ query.runs \in Nat /\ query.runs <= starts[i]
            /\ status[b][i] # "None"
            /\ Raced(b, i, query.runs) \/ Queued(ready[b], i)
            BY <3>3 DEF RaceInv
      <4>3. PICK r \in Nat : r = query.runs BY <4>2
      <4>4. /\ r <= starts'[i] /\ status'[b][i] # "None"
            /\ Raced(b, i, r)' \/ Queued(ready'[b], i)
            BY <3>1, <3>2, <3>3, <4>1, <4>2, <4>3, RaceMeanwhile
      <4>5. QED BY <3>1, <4>3, <4>4 DEF RaceInv, Raced, Final
    <3>4. CASE ~(Reading /\ i \in OneShot /\ query.status \in InQueue)
          BY <3>1, <3>4 DEF RaceInv, Reading
    <3>5. QED BY <3>3, <3>4
  <2>3. QED BY <2>1, <2>2 DEF QueryNext
<1>3. QED BY <1>1, <1>2, QueryInvariance, QueriesOnlyRead, Invariance,
             HomeInvariance, OneShotInvariance, FitInvariance, ShownInvariance,
             PTL DEF QuerySpec

(* A query whose status said that a one-shot job is queued, and that finds *)
(* it in no ready list, has lost a race: since it read the status, a run of*)
(* the job began or it ended; or the job was stopped.                      *)
THEOREM ErrorsAreRaces ==
  ASSUME "recover" \notin Ops, MaxStarts # 0,
         \A i \in OneShot : Retries[i] < MaxStarts
  PROVE  QuerySpec => ErrorIsARace
<1>1. RaceInv /\ [QueryNext]_allVars =>
        [PositionMissing /\ query.id \in OneShot =>
           LET b == query.bucket
               i == query.id
           IN  \/ i \in terminate[b]
               \/ starts[i] > query.runs
               \/ status[b][i] \in Terminal]_allVars
  <2> SUFFICES ASSUME RaceInv, PositionMissing, query.id \in OneShot
               PROVE  Raced(query.bucket, query.id, query.runs)
      BY DEF Raced, Final
  <2>1. /\ query.pc = "position"
        /\ ~Queued(ready[query.bucket], query.id)
        BY DEF PositionMissing, QueryGoes
  <2>2. QED BY <2>1 DEF RaceInv, Reading
<1>2. QED BY <1>1, RaceInvariance, PTL DEF QuerySpec, ErrorIsARace
=============================================================================
