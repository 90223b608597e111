------------------------------ MODULE Delivery ------------------------------
(***************************************************************************)
(* The two delivery handlers (api/v0/asyncjob.go) and SendScheduleMsg      *)
(* (dispatch/asyncqueue.go).  A request reads the clock up to three times, *)
(* waits for an id and for the round robin of bucket names, and sends      *)
(* Send2PendingScript through go-redis, which sends a command again when   *)
(* the connection fails before the reply.  The clock goes in half seconds, *)
(* so that what the code rounds to seconds is seen.                        *)
(***************************************************************************)
EXTENDS JobStore

CONSTANTS Clients,     \* concurrent requests
          BucketNum,   \* the buckets are 0..BucketNum - 1
          NoId,        \* "no job"
          MaxRetries,  \* times go-redis sends a command again
          MaxReady,    \* bound on the length of a ready list
          Horizon      \* bound on the clock, below MaxTime: the cron goes on

ASSUME DeliveryAssumption == /\ BucketNum \in Nat \ {0}
                             /\ Buckets = 0..(BucketNum - 1)
                             /\ NoId \notin Ids
                             /\ MaxRetries \in Nat
                             /\ Horizon \in 0..MaxTime

VARIABLES half,   \* the half second of the clock
          turn,   \* i of GenerateBucketName
          dealt,  \* history: names taken, by bucket
          want,   \* history: the start asked for, by id
          req     \* the requests

outside == << half, turn, dealt, want >>
allVars == << now, store, outside, req >>

Clock   == 2 * now + half
OneShot == Ids \ Periodic

\* delay: in half seconds; at: the cron instant, then the score sent
NoReq   == [pc |-> "idle", id |-> NoId, delay |-> 0, at |-> 0,
            bucket |-> NoBucket, tries |-> 0]
Answers == {"paramsError", "cronError", "ttlError", "internalError", "ok"}
Waiting == {"cron", "id", "time", "bucket", "eval"}

(* Every request is at a point of its handler, with an id of its own.      *)
TypeOK ==
  /\ StoreTypeOK
  /\ half \in 0..1
  /\ turn \in Buckets
  /\ dealt \in [Buckets -> Nat]
  /\ want \in [Ids -> Score]
  /\ req \in [Clients -> [pc : {"idle"} \cup Waiting \cup Answers,
                          id : Ids \cup {NoId}, delay : Nat, at : Nat,
                          bucket : Buckets \cup {NoBucket},
                          tries : 0..MaxRetries]]
  /\ \A c, d \in Clients : c # d /\ req[c].id = req[d].id => req[c].id = NoId

DeliveryInit ==
  /\ StoreInit
  /\ half = 0 /\ turn = 0
  /\ dealt = [b \in Buckets |-> 0]
  /\ want = [i \in Ids |-> Absent]
  /\ req = [c \in Clients |-> NoReq]

Tick ==
  /\ Clock < 2 * Horizon
  /\ half' = 1 - half
  /\ now' = now + half
  /\ UNCHANGED << store, turn, dealt, want, req >>

-----------------------------------------------------------------------------
(* The handlers, up to the call of SendScheduleMsg.                        *)

Goes(c, r) ==
  /\ req' = [req EXCEPT ![c] = r]
  /\ UNCHANGED << now, half >>

\* web.Success with the id, or one of the errors
Answer(r, pc) == [NoReq EXCEPT !.pc = pc, !.id = r.id]

\* A body that does not bind, a type without a handler, a cron spec that
\* does not parse.
Refused(c) ==
  /\ req[c].pc = "idle"
  /\ Goes(c, [NoReq EXCEPT !.pc = "paramsError"])
  /\ UNCHANGED << store, turn, dealt, want >>

Asks(c, i, start, pc, delay, at) ==
  /\ req[c].pc \in {"idle"} \cup Answers
  /\ want[i] = Absent
  /\ want' = [want EXCEPT ![i] = start]
  /\ Goes(c, [NoReq EXCEPT !.id = i, !.pc = pc, !.delay = delay, !.at = at])
  /\ UNCHANGED << store, turn, dealt >>

\* An empty start time is as good as the present; t.Sub(now) keeps fractions.
AskOneShot(c, i, start) ==
  Asks(c, i, start, "id", IF start > now THEN 2 * start - Clock ELSE 0, 0)

AskPeriodic(c, i) == Asks(c, i, CronNext[now], "cron", 0, CronNext[now])

\* The clock is read again.  The parser has no seconds: t + 5s is before the
\* firing that follows t.
CheckCron(c) ==
  LET r == req[c]
  IN  /\ r.pc = "cron"
      /\ Goes(c, CASE r.at <= now -> Answer(r, "cronError")
                   [] r.at > now /\ CronNext[r.at] - r.at < Ttl[r.id]
                      -> Answer(r, "ttlError")
                   [] OTHER -> [r EXCEPT !.pc = "id", !.at = 0,
                                                !.delay = 2 * r.at - Clock])
      /\ UNCHANGED << store, turn, dealt, want >>

\* NextId: an id, or nothing within a second.
GetId(c) ==
  /\ req[c].pc = "id"
  /\ \/ Goes(c, [req[c] EXCEPT !.pc = "time"])
     \/ Goes(c, Answer(req[c], "internalError"))
  /\ UNCHANGED << store, turn, dealt, want >>

-----------------------------------------------------------------------------
(* SendScheduleMsg.                                                        *)

BugWholeSeconds(delay) == (Clock + 2 * (delay \div 2)) \div 2

\* t := time.Now().Add(delay), sent as t.Unix()
StartAt(delay) == (Clock + delay) \div 2

ReadClock(c) ==
  /\ req[c].pc = "time"
  /\ Goes(c, [req[c] EXCEPT !.pc = "bucket", !.delay = 0,
                            !.at = StartAt(req[c].delay)])
  /\ UNCHANGED << store, turn, dealt, want >>

BugLastLeftOut == (turn + 1) % (BucketNum - 1)

NextTurn == (turn + 1) % BucketNum

\* <-BucketQueue: the generator hands out a name and goes to the next.
TakeBucket(c) ==
  /\ req[c].pc = "bucket"
  /\ Goes(c, [req[c] EXCEPT !.pc = "eval", !.bucket = turn])
  /\ turn' = NextTurn
  /\ dealt' = [dealt EXCEPT ![turn] = @ + 1]
  /\ UNCHANGED << store, want >>

BugAnswersOk(r) == Answer(r, "ok")

BugRetriesForever(r) == [r EXCEPT !.tries = @ + 1]

\* No reply: go-redis sends the command again, or gives up.
Unanswered(r) == IF r.tries < MaxRetries THEN [r EXCEPT !.tries = @ + 1]
                                         ELSE Answer(r, "internalError")

BugOtherBucket(r) == (r.bucket + r.tries) % BucketNum

Target(r) == r.bucket

\* The script runs; the nil it returns is no error; the reply may be lost.
EvalRuns(c) ==
  LET r == req[c]
  IN  /\ r.pc = "eval"
      /\ Send2Pending(Target(r), r.id, r.at)
      /\ Goes(c, Answer(r, "ok")) \/ Goes(c, Unanswered(r))
      /\ UNCHANGED << turn, dealt, want >>

EvalLost(c) ==
  /\ req[c].pc = "eval"
  /\ Goes(c, Unanswered(req[c]))
  /\ UNCHANGED << store, turn, dealt, want >>

Deliver(c) ==
  \/ Refused(c)
  \/ \E i \in OneShot, start \in 0..Horizon : AskOneShot(c, i, start)
  \/ \E i \in Periodic : AskPeriodic(c, i)
  \/ CheckCron(c) \/ GetId(c) \/ ReadClock(c) \/ TakeBucket(c)
  \/ EvalRuns(c) \/ EvalLost(c)

\* Meanwhile the timers and the workers take the job through its life.
MoveOn(b) ==
  /\ \/ /\ Len(ready[b]) + Cardinality(Due(pending[b])) <= MaxReady
        /\ Pending2Ready(b)
     \/ \E i \in Ids : \/ Ready2Running(b, i)
                       \/ running[b][i] # Absent /\ Running2Finish(b, i, "Success")
  /\ UNCHANGED << now, outside, req >>

DeliveryNext == \/ Tick
                \/ \E c \in Clients : Deliver(c)
                \/ \E b \in Buckets : MoveOn(b)

DeliverySpec == DeliveryInit /\ [][DeliveryNext]_allVars

-----------------------------------------------------------------------------
(* No rounding, wait for an id or resend makes a job start before the time *)
(* that was asked for, or before its cron instant.                         *)
NotEarly ==
  \A b \in Buckets, i \in Ids : pending[b][i] # Absent => pending[b][i] >= want[i]

(* However often the script is sent again, a job is in one bucket only, the*)
(* one that queries, stops and deletions look in.                          *)
OneHome ==
  \A b \in Buckets, i \in Ids : Present(b, i) => bucketOf[i] = b

(* The client that is told an id can use it: an answer that is no error is *)
(* given only when the script ran.                                         *)
AnswerMeansStored ==
  \A c \in Clients : req[c].pc = "ok" => bucketOf[req[c].id] # NoBucket

(* Concurrent deliveries are spread evenly, failed ones included.          *)
Balanced == \A b, c \in Buckets : dealt[b] <= dealt[c] + 1
=============================================================================
