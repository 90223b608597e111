-------------------------- MODULE Delivery_proofs --------------------------
(***************************************************************************)
(* What a client can rely on when it delivers a job, for every number of   *)
(* requests, buckets and resends: the job is in one bucket, is never early,*)
(* an id that was answered is stored, and the buckets are used evenly.     *)
(***************************************************************************)
EXTENDS Delivery, JobStore_proofs

Requests == [pc : {"idle"} \cup Waiting \cup Answers, id : Ids \cup {NoId},
             delay : Nat, at : Nat, bucket : Buckets \cup {NoBucket},
             tries : 0..MaxRetries]

\* What a request has read and promised so far: the start that the client asked
\* for is never before the instant that is left to wait for, and until the script
\* ran the id is in no bucket but the one that the request took.
Asked(r) ==
  /\ r.pc \in Waiting => r.id \in Ids /\ want[r.id] # Absent
  /\ r.pc = "cron" => r.at = want[r.id]
  /\ r.pc \in {"id", "time"} => Clock + r.delay >= 2 * want[r.id]
  /\ r.pc \in {"bucket", "eval"} => r.at >= want[r.id]
  /\ r.pc \in Waiting \ {"eval"} => bucketOf[r.id] = NoBucket
  /\ r.pc = "eval" => r.bucket \in Buckets /\ bucketOf[r.id] \in {NoBucket, r.bucket}
  /\ r.pc = "ok" => r.id \in Ids /\ bucketOf[r.id] # NoBucket

AskedInv == \A c \in Clients : Asked(req[c])

\* An id that was not asked for yet is nobody's.
Fresh == \A i \in Ids : want[i] = Absent =>
           bucketOf[i] = NoBucket /\ \A c \in Clients : req[c].id # i

\* The generator is in the middle of a round: the buckets before its turn have had
\* one name more than the last one.
DealtInv == \A b \in Buckets :
              dealt[b] = dealt[BucketNum - 1] + (IF b < turn THEN 1 ELSE 0)

DInv == /\ StoreInv /\ TypeOK /\ OneHome /\ NotEarly
        /\ AskedInv /\ Fresh /\ DealtInv

LEMMA DeliveryTypes ==
  ASSUME TypeOK
  PROVE  /\ req \in [Clients -> Requests]
         /\ half \in {0, 1} /\ now \in Nat /\ Clock \in Nat
         /\ BucketNum \in Nat /\ BucketNum # 0 /\ BucketNum - 1 \in Buckets
         /\ \A b \in Buckets : b \in Nat /\ b < BucketNum
         /\ \A c, d \in Clients : c # d /\ req[c].id = req[d].id => req[c].id = NoId
<1>1. /\ now \in 0..MaxTime /\ MaxTime \in Nat /\ half \in 0..1
      /\ BucketNum \in Nat \ {0} /\ Buckets = 0..(BucketNum - 1)
      BY ClockAssumption, DeliveryAssumption DEF TypeOK, StoreTypeOK
<1>2. now \in Nat /\ half \in {0, 1} BY <1>1
<1>3. Clock \in Nat BY <1>2 DEF Clock
<1>4. req \in [Clients -> Requests] BY DEF TypeOK, Requests
<1>5. /\ BucketNum \in Nat /\ BucketNum # 0 /\ BucketNum - 1 \in Buckets
      /\ \A b \in Buckets : b \in Nat /\ b < BucketNum
      BY <1>1
<1>6. QED BY <1>2, <1>3, <1>4, <1>5 DEF TypeOK

LEMMA NoReqIs == NoReq \in Requests /\ NoReq.id = NoId /\ NoReq.pc = "idle"
<1>1. MaxRetries \in Nat /\ 0 \in 0..MaxRetries BY DeliveryAssumption
<1>2. QED BY <1>1 DEF NoReq, Requests

LEMMA AnswerIs ==
  ASSUME NEW r \in Requests, NEW pc \in Answers
  PROVE  /\ Answer(r, pc) \in Requests
         /\ Answer(r, pc).pc = pc /\ Answer(r, pc).id = r.id
<1> DEFINE n == NoReq
<1>1. r.id \in Ids \cup {NoId} BY DEF Requests
<1>2. n \in Requests BY NoReqIs
<1> HIDE DEF n
<1> DEFINE a == [n EXCEPT !.pc = pc, !.id = r.id]
<1>3. a \in Requests /\ a.pc = pc /\ a.id = r.id BY <1>1, <1>2 DEF Requests
<1>4. QED BY <1>3 DEF Answer, n

LEMMA UnansweredIs ==
  ASSUME NEW r \in Requests, r.pc = "eval"
  PROVE  LET u == Unanswered(r)
         IN  /\ u \in Requests /\ u.id = r.id
             /\ \/ u.pc = "internalError"
                \/ u.pc = "eval" /\ u.at = r.at /\ u.bucket = r.bucket
<1>1. CASE r.tries < MaxRetries
  <2> DEFINE u == [r EXCEPT !.tries = @ + 1]
  <2>1. Unanswered(r) = u BY <1>1 DEF Unanswered
  <2>2. r.tries + 1 \in 0..MaxRetries BY <1>1, DeliveryAssumption DEF Requests
  <2>3. u = [pc |-> r.pc, id |-> r.id, delay |-> r.delay, at |-> r.at,
             bucket |-> r.bucket, tries |-> r.tries + 1]
        BY DEF Requests
  <2>4. /\ r.pc \in {"idle"} \cup Waiting \cup Answers /\ r.id \in Ids \cup {NoId}
        /\ r.delay \in Nat /\ r.at \in Nat /\ r.bucket \in Buckets \cup {NoBucket}
        BY DEF Requests
  <2>6. u \in Requests BY <2>2, <2>3, <2>4 DEF Requests
  <2>7. u.id = r.id /\ u.pc = "eval" /\ u.at = r.at /\ u.bucket = r.bucket
        BY <2>3
  <2>5. QED BY <2>1, <2>6, <2>7
<1>2. CASE ~(r.tries < MaxRetries)
  <2>1. Unanswered(r) = Answer(r, "internalError") BY <1>2 DEF Unanswered
  <2>2. QED BY <2>1, AnswerIs DEF Answers
<1>3. QED BY <1>1, <1>2

-----------------------------------------------------------------------------
(* Steps of a request.                                                     *)

\* The other requests are not disturbed by a step that leaves their ids alone.
LEMMA ReqGoes ==
  ASSUME DInv, NEW c \in Clients, NEW r \in Requests, Goes(c, r),
         r.id = req[c].id \/ (\A d \in Clients : req[d].id # r.id) \/ r.id = NoId,
         Asked(r)',
         \A i \in Ids : i # r.id => want'[i] = want[i] /\ bucketOf'[i] = bucketOf[i]
  PROVE  /\ req' \in [Clients -> Requests]
         /\ \A d, e \in Clients : d # e /\ req'[d].id = req'[e].id => req'[d].id = NoId
         /\ AskedInv'
         /\ \A d \in Clients : req'[d] = IF d = c THEN r ELSE req[d]
<1>1. /\ req \in [Clients -> Requests]
      /\ \A d, e \in Clients : d # e /\ req[d].id = req[e].id => req[d].id = NoId
      BY DeliveryTypes DEF DInv
<1>2. \A d \in Clients : req'[d] = IF d = c THEN r ELSE req[d]
      BY <1>1 DEF Goes
<1>3. req' \in [Clients -> Requests] BY <1>1 DEF Goes
<1>4. \A d \in Clients : d # c => req'[d].id = req[d].id /\ req'[c].id = r.id
      BY <1>2
<1>5. \A d \in Clients : d # c /\ req[d].id = r.id => r.id = NoId
      BY <1>1
<1>6. \A d, e \in Clients : d # e /\ req'[d].id = req'[e].id => req'[d].id = NoId
      BY <1>1, <1>4, <1>5
<1>7. ASSUME NEW d \in Clients PROVE Asked(req[d])'
  <2>1. CASE d = c
    <3>1. req'[d] = r BY <1>2, <2>1
    <3>2. QED BY <3>1 DEF Asked, Clock
  <2>2. CASE d # c
    <3>1. req'[d] = req[d] /\ Asked(req[d]) BY <1>2, <2>2 DEF DInv, AskedInv
    <3>2. UNCHANGED Clock BY DEF Goes, Clock
    <3>3. CASE req[d].id \in Ids
      <4>1. req[d].id # r.id BY <1>5, <2>2, <3>3, DeliveryAssumption
      <4>2. want'[req[d].id] = want[req[d].id] /\ bucketOf'[req[d].id] = bucketOf[req[d].id]
            BY <3>3, <4>1
      <4>3. QED BY <3>1, <3>2, <4>2 DEF Asked
    <3>4. CASE req[d].id \notin Ids
      <4>1. req[d].pc \notin Waiting /\ req[d].pc # "ok" BY <3>1, <3>4 DEF Asked
      <4>2. QED BY <3>1, <4>1 DEF Asked, Waiting
    <3>5. QED BY <3>3, <3>4
  <2>3. QED BY <2>1, <2>2
<1>8. QED BY <1>2, <1>3, <1>6, <1>7 DEF AskedInv

\* A step of a handler that sends no script and takes no name.
LEMMA ReqStep ==
  ASSUME DInv, NEW c \in Clients, NEW r \in Requests, Goes(c, r),
         UNCHANGED << store, turn, dealt, want >>,
         r.id = req[c].id \/ r.id = NoId, Asked(r)
  PROVE  DInv'
<1>0. UNCHANGED << now, half >> BY DEF Goes
<1>1. Asked(r)' BY <1>0 DEF Asked, Clock, store
<1>2. /\ req' \in [Clients -> Requests]
      /\ \A d, e \in Clients : d # e /\ req'[d].id = req'[e].id => req'[d].id = NoId
      /\ AskedInv'
      /\ \A d \in Clients : req'[d] = IF d = c THEN r ELSE req[d]
      BY <1>1, ReqGoes DEF store
<1>3. StoreInv'
      BY <1>0 DEF DInv, StoreInv, store, StoreTypeOK, NoGhostJobs, ScriptsTotal,
         ResultMeansDone, RunningHidesResult, Present, Queued
<1>4. TypeOK' BY <1>0, <1>2, <1>3 DEF DInv, StoreInv, TypeOK, Requests
<1>5. OneHome' /\ NotEarly' /\ DealtInv'
      BY DEF DInv, OneHome, NotEarly, DealtInv, store, Present, Queued
<1>6. Fresh'
  <2>1. \A i \in Ids : want'[i] = want[i] /\ bucketOf'[i] = bucketOf[i]
        BY DEF store
  <2>2. NoId \notin Ids BY DeliveryAssumption
  <2>3. QED BY <1>2, <2>1, <2>2 DEF DInv, Fresh
<1>7. QED BY <1>2, <1>3, <1>4, <1>5, <1>6 DEF DInv

LEMMA AsksInv ==
  ASSUME DInv, NEW c \in Clients, NEW i \in Ids, NEW start \in Nat,
         NEW pc \in {"id", "cron"}, NEW delay \in Nat, NEW at \in Nat,
         Asks(c, i, start, pc, delay, at),
         pc = "id" => Clock + delay >= 2 * start,
         pc = "cron" => at = start
  PROVE  DInv'
<1> DEFINE n == NoReq
           r == [n EXCEPT !.id = i, !.pc = pc, !.delay = delay, !.at = at]
<1>0. /\ want[i] = Absent /\ want' = [want EXCEPT ![i] = start]
      /\ UNCHANGED << store, turn, dealt, now, half >>
      /\ Goes(c, [NoReq EXCEPT !.id = i, !.pc = pc, !.delay = delay, !.at = at])
      BY DEF Asks, Goes
<1>1. Goes(c, r) BY <1>0
<1>15. n \in Requests BY NoReqIs
<1> HIDE DEF n
<1>2. /\ r \in Requests
      /\ r.pc = pc /\ r.id = i /\ r.delay = delay /\ r.at = at
      BY <1>15 DEF Requests, Waiting
<1>3. bucketOf[i] = NoBucket /\ \A d \in Clients : req[d].id # i
      BY <1>0 DEF DInv, Fresh
<1>4. /\ want \in [Ids -> Score] /\ start # Absent
      /\ \A j \in Ids : want'[j] = IF j = i THEN start ELSE want[j]
      /\ UNCHANGED bucketOf
      BY <1>0 DEF DInv, TypeOK, Absent, store
<1>5. Asked(r)'
  <2>1. want'[i] = start /\ bucketOf'[i] = NoBucket /\ Clock' = Clock
        BY <1>0, <1>3, <1>4 DEF Clock
  <2> HIDE DEF r
  <2>2. QED BY <1>2, <1>4, <2>1 DEF Asked, Waiting
<1>6. r.id = i BY <1>2
<1> HIDE DEF r
<1>7. /\ req' \in [Clients -> Requests]
      /\ \A d, e \in Clients : d # e /\ req'[d].id = req'[e].id => req'[d].id = NoId
      /\ AskedInv'
      /\ \A d \in Clients : req'[d] = IF d = c THEN r ELSE req[d]
      BY <1>1, <1>2, <1>3, <1>4, <1>5, <1>6, ReqGoes
<1>8. StoreInv'
      BY <1>0 DEF DInv, StoreInv, store, StoreTypeOK, NoGhostJobs, ScriptsTotal,
         ResultMeansDone, RunningHidesResult, Present, Queued
<1>9. want' \in [Ids -> Score] BY <1>0, <1>4 DEF Score
<1>10. TypeOK' BY <1>0, <1>7, <1>8, <1>9 DEF DInv, StoreInv, TypeOK, Requests
<1>11. OneHome' /\ DealtInv'
       BY <1>0 DEF DInv, OneHome, DealtInv, store, Present, Queued
<1>12. NotEarly'
  <2>1. \A b \in Buckets : pending[b][i] = Absent
        BY <1>3, BucketsAssumption DEF DInv, OneHome, Present
  <2>2. UNCHANGED pending BY <1>0 DEF store
  <2>3. QED BY <1>4, <2>1, <2>2 DEF DInv, NotEarly
<1>13. Fresh' BY <1>4, <1>6, <1>7 DEF DInv, Fresh
<1>14. QED BY <1>7, <1>8, <1>10, <1>11, <1>12, <1>13 DEF DInv

LEMMA AskInv ==
  ASSUME DInv, NEW c \in Clients,
         \/ \E i \in OneShot, start \in 0..Horizon : AskOneShot(c, i, start)
         \/ \E i \in Periodic : AskPeriodic(c, i)
  PROVE  DInv'
<1>1. now \in Nat /\ half \in {0, 1} /\ Clock \in Nat
      BY DeliveryTypes DEF DInv
<1>2. ASSUME NEW i \in OneShot, NEW start \in 0..Horizon, AskOneShot(c, i, start)
      PROVE  DInv'
  <2> DEFINE delay == IF start > now THEN 2 * start - Clock ELSE 0
  <2>1. i \in Ids /\ start \in Nat BY DeliveryAssumption, ClockAssumption DEF OneShot
  <2>2. delay \in Nat /\ Clock + delay >= 2 * start BY <1>1, <2>1 DEF Clock
  <2>3. Asks(c, i, start, "id", delay, 0) BY <1>2 DEF AskOneShot
  <2> HIDE DEF delay
  <2>4. QED BY <2>1, <2>2, <2>3, AsksInv
<1>3. ASSUME NEW i \in Periodic, AskPeriodic(c, i) PROVE DInv'
  <2>1. i \in Ids BY JobsAssumption
  <2>2. CronNext[now] \in Nat
        BY ClockAssumption DEF DInv, TypeOK, StoreTypeOK
  <2>3. Asks(c, i, CronNext[now], "cron", 0, CronNext[now])
        BY <1>3 DEF AskPeriodic
  <2>4. QED BY <2>1, <2>2, <2>3, AsksInv
<1>4. QED BY <1>2, <1>3

LEMMA HandlerInv ==
  ASSUME DInv, NEW c \in Clients,
         Refused(c) \/ CheckCron(c) \/ GetId(c) \/ ReadClock(c) \/ EvalLost(c)
  PROVE  DInv'
<1> DEFINE r == req[c]
<1>1. /\ r \in Requests /\ Asked(r)
      /\ now \in Nat /\ half \in {0, 1} /\ Clock \in Nat
      BY DeliveryTypes DEF DInv, AskedInv
<1>2. \A pc \in Answers \ {"ok"} : Asked(Answer(r, pc))
  <2> SUFFICES ASSUME NEW pc \in Answers \ {"ok"} PROVE Asked(Answer(r, pc))
      OBVIOUS
  <2>1. Answer(r, pc).pc = pc BY <1>1, AnswerIs
  <2>2. QED BY <2>1 DEF Asked, Answers, Waiting
<1>3. r.pc \in Waiting => want[r.id] \in Nat
      BY <1>1 DEF Asked, DInv, TypeOK, Score
<1>4. r.delay \in Nat /\ r.at \in Nat BY <1>1 DEF Requests
<1>5. CASE Refused(c)
  <2> DEFINE e == [NoReq EXCEPT !.pc = "paramsError"]
  <2>1. e = [pc |-> "paramsError", id |-> NoId, delay |-> 0, at |-> 0,
             bucket |-> NoBucket, tries |-> 0]
        BY DEF NoReq
  <2>2. 0 \in 0..MaxRetries BY DeliveryAssumption
  <2>3. e \in Requests /\ e.id = NoId /\ e.pc = "paramsError"
        BY <2>1, <2>2 DEF Requests, Answers
  <2>4. Goes(c, e) /\ UNCHANGED << store, turn, dealt, want >> BY <1>5 DEF Refused
  <2> HIDE DEF e
  <2>5. Asked(e) BY <2>3 DEF Asked, Waiting
  <2>6. QED BY <2>3, <2>4, <2>5, ReqStep
<1>6. CASE CheckCron(c)
  <2> DEFINE s == [r EXCEPT !.pc = "id", !.at = 0, !.delay = 2 * r.at - Clock]
  <2>1. r.pc = "cron" /\ UNCHANGED << store, turn, dealt, want >>
        BY <1>6 DEF CheckCron
  <2>2. \/ Goes(c, Answer(r, "cronError"))
        \/ Goes(c, Answer(r, "ttlError"))
        \/ r.at > now /\ Goes(c, s)
    <3> DEFINE g == r.at > now /\ CronNext[r.at] - r.at < Ttl[r.id]
    <3>1. Goes(c, CASE r.at <= now -> Answer(r, "cronError")
                    [] g -> Answer(r, "ttlError")
                    [] OTHER -> s)
          BY <1>6 DEF CheckCron
    <3>2. CASE r.at <= now
      <4>1. ~g BY <1>1, <1>4, <3>2
      <4> HIDE DEF g, s
      <4>2. QED BY <3>1, <3>2, <4>1
    <3>3. CASE ~(r.at <= now) /\ g
      <4> HIDE DEF g, s
      <4>1. QED BY <3>1, <3>3
    <3>4. CASE ~(r.at <= now) /\ ~g
      <4>1. r.at > now BY <1>1, <1>4, <3>4
      <4> HIDE DEF g, s
      <4>2. QED BY <3>1, <3>4, <4>1
    <3>5. QED BY <3>2, <3>3, <3>4
  <2>3. ASSUME r.at > now, Goes(c, s) PROVE DInv'
    <3>1. 2 * r.at - Clock \in Nat BY <1>1, <1>4, <2>3 DEF Clock
    <3>2. s \in Requests BY <1>1, <3>1 DEF Requests, Waiting
    <3>3. s.id = r.id /\ s.pc = "id" /\ s.delay = 2 * r.at - Clock
          BY <1>1 DEF Requests
    <3>4. /\ r.at = want[r.id] /\ bucketOf[r.id] = NoBucket
          /\ r.id \in Ids /\ want[r.id] # Absent
          BY <1>1, <2>1 DEF Asked, Waiting
    <3>5. Clock + s.delay >= 2 * want[r.id] BY <1>1, <1>4, <3>1, <3>3, <3>4
    <3> HIDE DEF s, r
    <3>6. Asked(s) BY <3>3, <3>4, <3>5 DEF Asked
    <3>7. QED BY <2>1, <2>3, <3>2, <3>3, <3>6, ReqStep DEF r
  <2>4. ASSUME NEW pc \in {"cronError", "ttlError"}, Goes(c, Answer(r, pc))
        PROVE  DInv'
    <3>1. pc \in Answers \ {"ok"} BY DEF Answers
    <3>2. Answer(r, pc) \in Requests /\ Answer(r, pc).id = r.id BY <1>1, <3>1, AnswerIs
    <3>3. QED BY <1>2, <2>1, <2>4, <3>1, <3>2, ReqStep
  <2>5. QED BY <2>2, <2>3, <2>4
<1>7. CASE GetId(c)
  <2> DEFINE s == [r EXCEPT !.pc = "time"]
  <2>1. r.pc = "id" /\ UNCHANGED << store, turn, dealt, want >>
        BY <1>7 DEF GetId
  <2>2. s \in Requests /\ s.id = r.id /\ s.pc = "time" /\ s.delay = r.delay
        BY <1>1 DEF Requests, Waiting
  <2>3. Asked(s)
    <3> HIDE DEF s
    <3>1. QED BY <1>1, <2>1, <2>2 DEF Asked, Waiting
  <2>4. "internalError" \in Answers \ {"ok"} BY DEF Answers
  <2>5. /\ Answer(r, "internalError") \in Requests
        /\ Answer(r, "internalError").id = r.id
        BY <1>1, <2>4, AnswerIs
  <2>6. Goes(c, s) \/ Goes(c, Answer(r, "internalError")) BY <1>7 DEF GetId
  <2> HIDE DEF s
  <2>7. QED BY <1>2, <2>1, <2>2, <2>3, <2>4, <2>5, <2>6, ReqStep
<1>8. CASE ReadClock(c)
  <2> DEFINE s == [r EXCEPT !.pc = "bucket", !.delay = 0, !.at = StartAt(r.delay)]
  <2>1. /\ r.pc = "time" /\ UNCHANGED << store, turn, dealt, want >>
        /\ Goes(c, s)
        BY <1>8 DEF ReadClock
  <2>2. StartAt(r.delay) \in Nat BY <1>1, <1>4 DEF StartAt
  <2>3. s \in Requests BY <1>1, <2>2 DEF Requests, Waiting
  <2>4. s.id = r.id /\ s.pc = "bucket" /\ s.at = StartAt(r.delay)
        BY <1>1 DEF Requests
  <2>5. /\ Clock + r.delay >= 2 * want[r.id] /\ bucketOf[r.id] = NoBucket
        /\ r.id \in Ids /\ want[r.id] # Absent /\ want[r.id] \in Nat
        BY <1>1, <1>3, <2>1 DEF Asked, Waiting
  <2>6. StartAt(r.delay) >= want[r.id] BY <1>1, <1>4, <2>5 DEF StartAt
  <2>7. Asked(s)
    <3> HIDE DEF s
    <3>1. QED BY <2>4, <2>5, <2>6 DEF Asked
  <2> HIDE DEF s
  <2>8. QED BY <2>1, <2>3, <2>4, <2>7, ReqStep
<1>9. CASE EvalLost(c)
  <2> DEFINE u == Unanswered(r)
  <2>1. /\ r.pc = "eval" /\ UNCHANGED << store, turn, dealt, want >>
        /\ Goes(c, u)
        BY <1>9 DEF EvalLost
  <2>2. /\ u \in Requests /\ u.id = r.id
        /\ \/ u.pc = "internalError"
           \/ u.pc = "eval" /\ u.at = r.at /\ u.bucket = r.bucket
        BY <1>1, <2>1, UnansweredIs
  <2> HIDE DEF u
  <2>3. Asked(u) BY <1>1, <2>1, <2>2 DEF Asked, Waiting
  <2>4. QED BY <2>1, <2>2, <2>3, ReqStep
<1>10. QED BY <1>5, <1>6, <1>7, <1>8, <1>9

\* The generator goes round: the bucket that is dealt is the next of the round.
LEMMA TakeBucketInv ==
  ASSUME DInv, NEW c \in Clients, TakeBucket(c)
  PROVE  DInv'
<1> DEFINE r == req[c]
<1>1. /\ r \in Requests /\ Asked(r)
      /\ BucketNum \in Nat /\ BucketNum # 0 /\ BucketNum - 1 \in Buckets
      /\ \A b \in Buckets : b \in Nat /\ b < BucketNum
      /\ Buckets = 0..(BucketNum - 1)
      BY DeliveryTypes, DeliveryAssumption DEF DInv, AskedInv
<1>2. turn \in Buckets /\ dealt \in [Buckets -> Nat] BY DEF DInv, TypeOK
<1>3. /\ r.pc = "bucket"
      /\ Goes(c, [r EXCEPT !.pc = "eval", !.bucket = turn])
      /\ turn' = NextTurn /\ dealt' = [dealt EXCEPT ![turn] = @ + 1]
      /\ UNCHANGED << store, want, now, half >>
      BY DEF TakeBucket, Goes
<1>4. PICK s \in Requests : /\ Goes(c, s)
                            /\ s.id = r.id /\ s.pc = "eval"
                            /\ s.at = r.at /\ s.bucket = turn
  <2> DEFINE e == [r EXCEPT !.pc = "eval", !.bucket = turn]
  <2>1. e \in Requests /\ e.id = r.id /\ e.pc = "eval" /\ e.at = r.at /\ e.bucket = turn
        BY <1>1, <1>2 DEF Requests, Waiting
  <2>2. Goes(c, e) BY <1>3
  <2> HIDE DEF e
  <2>3. QED BY <2>1, <2>2
<1>5. UNCHANGED << want, bucketOf, Clock >> BY <1>3 DEF store, Clock
<1>6. Asked(s)'
  <2>1. /\ r.id \in Ids /\ want[r.id] # Absent /\ bucketOf[r.id] = NoBucket
        /\ r.at >= want[r.id]
        BY <1>1, <1>3 DEF Asked, Waiting
  <2>2. want'[s.id] = want[r.id] /\ bucketOf'[s.id] = bucketOf[r.id]
        BY <1>4, <1>5
  <2> HIDE DEF r
  <2>3. QED BY <1>2, <1>4, <2>1, <2>2 DEF Asked, Waiting
<1>7. /\ req' \in [Clients -> Requests]
      /\ \A d, e \in Clients : d # e /\ req'[d].id = req'[e].id => req'[d].id = NoId
      /\ AskedInv'
      /\ \A d \in Clients : req'[d] = IF d = c THEN s ELSE req[d]
      BY <1>3, <1>4, <1>5, <1>6, ReqGoes
<1>8. StoreInv'
      BY <1>3 DEF DInv, StoreInv, store, StoreTypeOK, NoGhostJobs, ScriptsTotal,
         ResultMeansDone, RunningHidesResult, Present, Queued
<1>9. turn' = IF turn + 1 = BucketNum THEN 0 ELSE turn + 1
  <2>1. turn \in Nat /\ turn < BucketNum BY <1>1, <1>2
  <2>2. CASE turn + 1 = BucketNum
    <3>1. BucketNum % BucketNum = 0 BY <1>1
    <3>2. QED BY <1>3, <2>2, <3>1 DEF NextTurn
  <2>3. CASE turn + 1 # BucketNum
    <3>1. turn + 1 < BucketNum BY <1>1, <2>1, <2>3
    <3>2. (turn + 1) % BucketNum = turn + 1 BY <1>1, <2>1, <3>1
    <3>3. QED BY <1>3, <2>3, <3>2 DEF NextTurn
  <2>4. QED BY <2>2, <2>3
<1>10. turn' \in Buckets /\ dealt' \in [Buckets -> Nat]
       BY <1>1, <1>2, <1>3, <1>9
<1>11. TypeOK' BY <1>3, <1>7, <1>8, <1>10 DEF DInv, StoreInv, TypeOK, Requests
<1>12. OneHome' /\ NotEarly'
       BY <1>3 DEF DInv, OneHome, NotEarly, store, Present, Queued
<1>13. Fresh'
  <2>1. \A d \in Clients : req'[d].id = req[d].id BY <1>4, <1>7
  <2>2. QED BY <1>5, <2>1 DEF DInv, Fresh
<1>14. DealtInv'
  <2> DEFINE z == BucketNum - 1
  <2>1. \A b \in Buckets : dealt[b] = dealt[z] + (IF b < turn THEN 1 ELSE 0)
        BY DEF DInv, DealtInv
  <2>2. \A b \in Buckets : dealt'[b] = IF b = turn THEN dealt[b] + 1 ELSE dealt[b]
        BY <1>2, <1>3
  <2>3. \A b \in Buckets : b <= z /\ dealt[b] \in Nat BY <1>1, <1>2
  <2>4. z \in Buckets /\ z \in Nat /\ turn \in Nat BY <1>1, <1>2
  <2>5. CASE turn = z
    <3>1. turn' = 0 /\ dealt'[z] = dealt[z] + 1 BY <1>1, <1>9, <2>2, <2>4, <2>5
    <3>2. \A b \in Buckets : dealt'[b] = dealt'[z]
          BY <1>1, <2>1, <2>2, <2>3, <2>4, <2>5, <3>1
    <3>3. \A b \in Buckets : ~(b < turn') BY <1>1, <3>1
    <3>4. QED BY <2>3, <2>4, <1>10, <3>2, <3>3 DEF DealtInv
  <2>6. CASE turn # z
    <3>1. turn' = turn + 1 /\ dealt'[z] = dealt[z] BY <1>1, <1>9, <2>2, <2>4, <2>6
    <3>2. \A b \in Buckets : dealt'[b] = dealt'[z] + (IF b < turn' THEN 1 ELSE 0)
          BY <1>1, <2>1, <2>2, <2>3, <2>4, <3>1
    <3>3. QED BY <1>3, <3>2 DEF DealtInv
  <2>7. QED BY <2>5, <2>6
<1>15. QED BY <1>7, <1>8, <1>11, <1>12, <1>13, <1>14 DEF DInv

\* The script puts the job where the request says, or finds that it did so before.
LEMMA EvalRunsInv ==
  ASSUME DInv, NEW c \in Clients, EvalRuns(c)
  PROVE  DInv'
<1> DEFINE r == req[c]
           b == r.bucket
           i == r.id
<1>1. /\ r \in Requests /\ Asked(r) /\ r.pc = "eval"
      /\ UNCHANGED << turn, dealt, want, now, half >>
      /\ Send2Pending(b, i, r.at)
      /\ Goes(c, Answer(r, "ok")) \/ Goes(c, Unanswered(r))
      BY DeliveryTypes DEF DInv, AskedInv, EvalRuns, Goes, Target
<1>2. /\ b \in Buckets /\ i \in Ids /\ r.at \in Nat /\ r.at >= want[i]
      /\ want[i] # Absent /\ bucketOf[i] \in {NoBucket, b}
      BY <1>1 DEF Asked, Waiting, Requests
<1>3. StoreTypeOK /\ StoreInv BY DEF DInv, StoreInv
<1>4. StoreInv' BY <1>1, <1>2, <1>3, Send2PendingInv
<1>5. bucketOf \in [Ids -> Buckets \cup {NoBucket}] /\ pending \in [Buckets -> [Ids -> Score]]
      BY <1>3 DEF StoreTypeOK
<1>6. /\ OneHome'
      /\ bucketOf'[i] = b
      /\ \A j \in Ids : j # i => bucketOf'[j] = bucketOf[j]
  <2>1. CASE DeliveryRefused(b, i)
    <3>1. UNCHANGED store BY <1>1, <2>1 DEF Send2Pending
    <3>2. Present(b, i) BY <2>1 DEF DeliveryRefused, Present
    <3>3. bucketOf[i] = b BY <1>2, <3>2 DEF DInv, OneHome
    <3>4. OneHome' BY <3>1 DEF DInv, OneHome, store, Present, Queued
    <3>5. QED BY <3>1, <3>3, <3>4 DEF store
  <2>2. CASE ~DeliveryRefused(b, i)
    <3>1. bucketOf' = [bucketOf EXCEPT ![i] = b] BY <1>1, <2>2 DEF Send2Pending
    <3>2. \A j \in Ids : bucketOf'[j] = IF j = i THEN b ELSE bucketOf[j]
          BY <1>5, <3>1
    <3>3. \A d \in Buckets, j \in Ids :
            Present(d, j)' => Present(d, j) \/ (d = b /\ j = i)
          BY <1>1, <1>2, <1>3, Send2PendingPlaces DEF store, Present, Queued
    <3>4. \A d \in Buckets : Present(d, i) => d = b
          BY <1>2, BucketsAssumption DEF DInv, OneHome
    <3>5. OneHome' BY <3>2, <3>3, <3>4 DEF DInv, OneHome
    <3>6. QED BY <1>2, <3>2, <3>5
  <2>3. QED BY <2>1, <2>2
<1>7. NotEarly'
  <2>1. CASE DeliveryRefused(b, i)
    <3>1. UNCHANGED << pending, want >> BY <1>1, <2>1 DEF Send2Pending, store
    <3>2. QED BY <3>1 DEF DInv, NotEarly
  <2>2. CASE ~DeliveryRefused(b, i)
    <3>1. pending' = [pending EXCEPT ![b][i] = r.at] BY <1>1, <2>2 DEF Send2Pending
    <3>2. \A d \in Buckets, j \in Ids :
            pending'[d][j] = IF d = b /\ j = i THEN r.at ELSE pending[d][j]
          BY <1>5, <3>1
    <3> HIDE DEF r, b, i
    <3>3. QED BY <1>1, <1>2, <3>2 DEF DInv, NotEarly
  <2>3. QED BY <2>1, <2>2
<1>8. \E s \in Requests : /\ Goes(c, s) /\ s.id = i
                          /\ \/ s.pc \in {"ok", "internalError"}
                             \/ s.pc = "eval" /\ s.at = r.at /\ s.bucket = b
  <2>1. "ok" \in Answers BY DEF Answers
  <2>2. CASE Goes(c, Answer(r, "ok"))
    <3>1. /\ Answer(r, "ok") \in Requests
          /\ Answer(r, "ok").id = i /\ Answer(r, "ok").pc = "ok"
          BY <1>1, <2>1, AnswerIs
    <3>2. QED BY <2>2, <3>1
  <2>3. CASE Goes(c, Unanswered(r))
    <3> DEFINE u == Unanswered(r)
    <3>1. /\ u \in Requests /\ u.id = i
          /\ \/ u.pc = "internalError"
             \/ u.pc = "eval" /\ u.at = r.at /\ u.bucket = b
          BY <1>1, UnansweredIs
    <3>2. Goes(c, u) BY <2>3
    <3> HIDE DEF u
    <3>3. QED BY <3>1, <3>2
  <2>4. QED BY <1>1, <2>2, <2>3
<1>9. PICK s \in Requests : /\ Goes(c, s) /\ s.id = i
                            /\ \/ s.pc \in {"ok", "internalError"}
                               \/ s.pc = "eval" /\ s.at = r.at /\ s.bucket = b
      BY <1>8
<1>10. Asked(s)'
  <2>1. want'[i] = want[i] BY <1>1
  <2> HIDE DEF r, b, i
  <2>2. b # NoBucket BY <1>2, BucketsAssumption
  <2>3. QED BY <1>2, <1>6, <1>9, <2>1, <2>2 DEF Asked, Waiting
<1>11. /\ req' \in [Clients -> Requests]
       /\ \A d, e \in Clients : d # e /\ req'[d].id = req'[e].id => req'[d].id = NoId
       /\ AskedInv'
       /\ \A d \in Clients : req'[d] = IF d = c THEN s ELSE req[d]
       BY <1>1, <1>6, <1>9, <1>10, ReqGoes
<1>12. TypeOK' BY <1>1, <1>4, <1>11 DEF DInv, StoreInv, TypeOK, Requests
<1>13. Fresh'
  <2>1. \A d \in Clients : req'[d].id = req[d].id BY <1>9, <1>11
  <2>2. UNCHANGED want BY <1>1
  <2>3. \A j \in Ids : want[j] = Absent => j # i BY <1>2
  <2>4. QED BY <1>6, <2>1, <2>2, <2>3 DEF DInv, Fresh
<1>14. DealtInv' BY <1>1 DEF DInv, DealtInv
<1>15. QED BY <1>4, <1>6, <1>7, <1>11, <1>12, <1>13, <1>14 DEF DInv

-----------------------------------------------------------------------------
(* Steps of the clock, the timers and the workers.                         *)

LEMMA TickInv == ASSUME DInv, Tick PROVE DInv'
<1>1. /\ Clock < 2 * Horizon /\ half' = 1 - half /\ now' = now + half
      /\ UNCHANGED << store, turn, dealt, want, req >>
      BY DEF Tick
<1>2. /\ half \in {0, 1} /\ now \in Nat
      /\ Horizon \in Nat /\ MaxTime \in Nat /\ Horizon <= MaxTime
      BY DeliveryTypes, DeliveryAssumption, ClockAssumption DEF DInv
<1>3. half' \in 0..1 /\ now' \in 0..MaxTime /\ Clock' = Clock + 1
      BY <1>1, <1>2 DEF Clock
<1>4. StoreInv'
      BY <1>1, <1>3 DEF DInv, StoreInv, store, StoreTypeOK, NoGhostJobs, ScriptsTotal,
         ResultMeansDone, RunningHidesResult, Present, Queued
<1>5. TypeOK' BY <1>1, <1>3, <1>4 DEF DInv, StoreInv, TypeOK
<1>6. OneHome' /\ NotEarly' /\ Fresh' /\ DealtInv'
      BY <1>1 DEF DInv, OneHome, NotEarly, Fresh, DealtInv, store, Present, Queued
<1>7. ASSUME NEW c \in Clients PROVE Asked(req[c])'
  <2> DEFINE r == req[c]
  <2>1. r \in Requests /\ Asked(r) /\ UNCHANGED << req, want, bucketOf >>
        BY <1>1, DeliveryTypes DEF DInv, AskedInv, store
  <2>2. r.pc \in {"id", "time"} => Clock' + r.delay >= 2 * want[r.id]
    <3>1. SUFFICES ASSUME r.pc \in {"id", "time"}
                   PROVE  Clock' + r.delay >= 2 * want[r.id]
          OBVIOUS
    <3>2. /\ r.id \in Ids /\ want[r.id] # Absent
          /\ Clock + r.delay >= 2 * want[r.id]
          BY <2>1, <3>1 DEF Asked, Waiting
    <3>3. want[r.id] \in Nat BY <3>2 DEF DInv, TypeOK, Score
    <3>4. r.delay \in Nat /\ Clock \in Nat BY <1>2, <2>1 DEF Requests, Clock
    <3> HIDE DEF r
    <3>5. QED BY <1>3, <3>2, <3>3, <3>4
  <2>3. QED BY <2>1, <2>2 DEF Asked
<1>8. QED BY <1>4, <1>5, <1>6, <1>7 DEF DInv, AskedInv

LEMMA MoveOnInv == ASSUME DInv, NEW b \in Buckets, MoveOn(b) PROVE DInv'
<1>1. /\ UNCHANGED << now, half, turn, dealt, want, req >>
      /\ \/ Pending2Ready(b)
         \/ \E i \in Ids : \/ Ready2Running(b, i)
                           \/ Running2Finish(b, i, "Success")
      BY DEF MoveOn, outside
<1>2. StoreInv /\ StoreTypeOK BY DEF DInv, StoreInv
<1>3. /\ StoreInv' /\ NoneNew
      /\ \A d \in Buckets, j \in Ids : pending'[d][j] \in {pending[d][j], Absent}
  <2>1. CASE Pending2Ready(b)
    <3>1. StoreInv' /\ NoneNew BY <1>1, <1>2, <2>1, Pending2ReadyInv, Pending2ReadyPlaces
    <3>2. \A d \in Buckets, j \in Ids : pending'[d][j] \in {pending[d][j], Absent}
          BY <1>2, <2>1 DEF Pending2Ready, Removed, StoreTypeOK
    <3>3. QED BY <3>1, <3>2
  <2>2. ASSUME NEW i \in Ids, Ready2Running(b, i)
        PROVE  /\ StoreInv' /\ NoneNew
               /\ \A d \in Buckets, j \in Ids : pending'[d][j] \in {pending[d][j], Absent}
    <3>1. StoreInv' /\ NoneNew BY <1>1, <1>2, <2>2, Ready2RunningInv, Ready2RunningPlaces
    <3>2. UNCHANGED pending BY <2>2 DEF Ready2Running
    <3>3. QED BY <3>1, <3>2
  <2>3. ASSUME NEW i \in Ids, Running2Finish(b, i, "Success")
        PROVE  /\ StoreInv' /\ NoneNew
               /\ \A d \in Buckets, j \in Ids : pending'[d][j] \in {pending[d][j], Absent}
    <3>1. "Success" \in Terminal BY DEF Terminal
    <3>2. StoreInv' /\ NoneNew
          BY <1>1, <1>2, <2>3, <3>1, Running2FinishInv, Running2FinishPlaces
    <3>3. UNCHANGED pending BY <2>3 DEF Running2Finish
    <3>4. QED BY <3>2, <3>3
  <2>4. QED BY <1>1, <2>1, <2>2, <2>3
<1>4. UNCHANGED bucketOf
      BY <1>1 DEF Pending2Ready, Ready2Running, Running2Finish
<1>5. TypeOK' BY <1>1, <1>3 DEF DInv, StoreInv, TypeOK
<1>6. OneHome' BY <1>3, <1>4 DEF DInv, OneHome, NoneNew
<1>7. NotEarly' BY <1>1, <1>3 DEF DInv, NotEarly
<1>8. AskedInv' BY <1>1, <1>4 DEF DInv, AskedInv, Asked, Clock
<1>9. Fresh' /\ DealtInv' BY <1>1, <1>4 DEF DInv, Fresh, DealtInv
<1>10. QED BY <1>3, <1>5, <1>6, <1>7, <1>8, <1>9 DEF DInv

-----------------------------------------------------------------------------
LEMMA DInvInit == DeliveryInit => DInv
<1> SUFFICES ASSUME DeliveryInit PROVE DInv OBVIOUS
<1> USE DEF DeliveryInit, StoreInit
<1>0. \A b \in Buckets, i \in Ids : ~Present(b, i) BY DEF Present, Queued, Absent
<1>1. StoreInv
  <2>1. StoreTypeOK
        BY ClockAssumption, BucketsAssumption DEF StoreTypeOK, Score, Statuses, Absent
  <2>2. NoGhostJobs BY <1>0 DEF NoGhostJobs
  <2>3. ScriptsTotal /\ ResultMeansDone /\ RunningHidesResult
        BY DEF ScriptsTotal, ResultMeansDone, RunningHidesResult
  <2>4. QED BY <2>1, <2>2, <2>3 DEF StoreInv
<1>2. 0 \in Buckets /\ BucketNum - 1 \in Buckets /\ Buckets \subseteq Nat
      BY DeliveryAssumption
<1>3. TypeOK
  <2>1. \A c \in Clients : req[c] = NoReq OBVIOUS
  <2>2. req \in [Clients -> Requests] BY NoReqIs
  <2>3. want \in [Ids -> Score] BY DEF Score
  <2>4. \A c, d \in Clients : c # d /\ req[c].id = req[d].id => req[c].id = NoId
        BY <2>1, NoReqIs
  <2>5. QED BY <1>1, <1>2, <2>2, <2>3, <2>4 DEF TypeOK, StoreInv, Requests
<1>4. OneHome /\ NotEarly BY <1>0 DEF OneHome, NotEarly, Absent
<1>5. AskedInv
  <2>1. \A c \in Clients : req[c].pc = "idle" BY NoReqIs
  <2>2. QED BY <2>1 DEF AskedInv, Asked, Waiting
<1>6. Fresh
  <2>1. \A c \in Clients : req[c].id = NoId BY NoReqIs
  <2>2. QED BY <2>1, DeliveryAssumption DEF Fresh
<1>7. DealtInv BY <1>2 DEF DealtInv
<1>8. QED BY <1>1, <1>3, <1>4, <1>5, <1>6, <1>7 DEF DInv

LEMMA DInvNext == ASSUME DInv, [DeliveryNext]_allVars PROVE DInv'
<1>1. CASE UNCHANGED allVars
  <2>1. /\ UNCHANGED << now, half, turn, dealt, want, req >>
        /\ UNCHANGED store
        BY <1>1 DEF allVars, outside
  <2>2. StoreInv'
        BY <2>1 DEF DInv, StoreInv, store, StoreTypeOK, NoGhostJobs, ScriptsTotal,
           ResultMeansDone, RunningHidesResult, Present, Queued
  <2>3. TypeOK' BY <2>1, <2>2 DEF DInv, StoreInv, TypeOK
  <2>4. OneHome' /\ NotEarly' /\ Fresh' /\ DealtInv'
        BY <2>1 DEF DInv, OneHome, NotEarly, Fresh, DealtInv, store, Present, Queued
  <2>5. AskedInv' BY <2>1 DEF DInv, AskedInv, Asked, Clock, store
  <2>6. QED BY <2>2, <2>3, <2>4, <2>5 DEF DInv
<1>2. ASSUME NEW c \in Clients, Deliver(c) PROVE DInv'
      BY <1>2, AskInv, HandlerInv, TakeBucketInv, EvalRunsInv DEF Deliver
<1>3. QED BY <1>1, <1>2, TickInv, MoveOnInv DEF DeliveryNext

LEMMA DInvariance == DeliverySpec => []DInv
<1>1. QED BY DInvInit, DInvNext, PTL DEF DeliverySpec

(* Every request is at a point of its handler, with an id that no other    *)
(* request has.                                                            *)
THEOREM DeliveryTyped == DeliverySpec => []TypeOK
<1>1. DInv => TypeOK BY DEF DInv
<1>2. QED BY <1>1, DInvariance, PTL

(* However often go-redis sends the script again, a job is in one bucket   *)
(* only, the one that queries, stops and deletions look in.                *)
THEOREM HomeOfDelivery == DeliverySpec => []OneHome
<1>1. DInv => OneHome BY DEF DInv
<1>2. QED BY <1>1, DInvariance, PTL

(* No rounding, wait for an id or resend makes a job due before the start  *)
(* that was asked for, or before its cron instant.                         *)
THEOREM NeverEarly == DeliverySpec => []NotEarly
<1>1. DInv => NotEarly BY DEF DInv
<1>2. QED BY <1>1, DInvariance, PTL

(* An answer that is no error is given only when the script ran: the id can*)
(* be queried.                                                             *)
THEOREM StoredBeforeOk == DeliverySpec => []AnswerMeansStored
<1>1. DInv => AnswerMeansStored BY DEF DInv, AskedInv, Asked, AnswerMeansStored
<1>2. QED BY <1>1, DInvariance, PTL

(* The names that concurrent deliveries are dealt differ by one at most    *)
(* between any two buckets, failed deliveries included.                    *)
THEOREM EvenSpread == DeliverySpec => []Balanced
<1>1. ASSUME DInv PROVE Balanced
  <2>1. dealt \in [Buckets -> Nat] /\ BucketNum - 1 \in Buckets
        BY <1>1, DeliveryTypes DEF DInv, TypeOK
  <2>2. QED BY <1>1, <2>1 DEF DInv, DealtInv, Balanced
<1>2. QED BY <1>1, DInvariance, PTL
=============================================================================
