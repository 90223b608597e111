------------------------------ MODULE JobStore ------------------------------
(***************************************************************************)
(* The job state asyncjob keeps in Redis and the eight Lua scripts that    *)
(* are the only writers of it (app/pkg/event/tools/luascript.go).  Redis   *)
(* runs a script atomically, so each script is one action here; the module *)
(* has no Next of its own: AsyncQueue composes the scripts with the timers,*)
(* the workers and the API calls that send them.                           *)
(*                                                                         *)
(* A sorted set is a function from ids to a score, Absent when the id is   *)
(* not a member.  A hash whose value never changes for an id (ttl, job     *)
(* info, configured retries) is the set of ids that have the field: the    *)
(* value is the constant the job was delivered with.  The ready list is a  *)
(* sequence whose head is the element RPOP takes, so LPUSH appends.        *)
(* Redis TIME[1] and Unix() cut a clock reading to whole seconds: that is  *)
(* what now is.  The clocks of the nodes and of Redis are taken to agree;  *)
(* where in a second an event falls is a variable of AsyncQueue.           *)
(***************************************************************************)
EXTENDS Integers, Sequences, FiniteSets, Functions

CONSTANTS Ids,        \* job ids
          Buckets,    \* the Redis buckets (utils.BucketNum of them)
          NoBucket,   \* HGET of a missing id -> bucket field
          Periodic,   \* ids of the jobs delivered with a cron spec
          Ttl,        \* id -> seconds one execution may take
          Retries,    \* id -> retries after a timeout
          CronNext,   \* time -> first cron instant after it
          MaxTime     \* bound on the clock

ASSUME IdsAssumption     == IsFiniteSet(Ids)
ASSUME BucketsAssumption == NoBucket \notin Buckets
ASSUME JobsAssumption    == /\ Periodic \subseteq Ids
                            /\ Ttl \in [Ids -> Nat]
                            /\ Retries \in [Ids -> Nat]
ASSUME ClockAssumption   == /\ MaxTime \in Nat
                            /\ CronNext \in [0..MaxTime -> Nat]
                            /\ \A t \in 0..MaxTime : CronNext[t] > t

VARIABLES now,         \* the clock, cut to seconds
          pending,     \* zset  bucket -> id -> start time
          ready,       \* list  bucket -> queue of ids
          running,     \* zset  bucket -> id -> deadline
          period,      \* zset  bucket -> id -> next cron instant
          retry,       \* hash  bucket -> id -> retries left
          ttl,         \* hash  bucket -> ids with a ttl
          periodRetry, \* hash  bucket -> ids with a configured retry count
          info,        \* hash  bucket -> ids with job info
          status,      \* hash  bucket -> id -> task status
          result,      \* hash  bucket -> ids with a result
          terminate,   \* hash  bucket -> ids with the stop flag
          bucketOf     \* hash  id -> bucket

store == << pending, ready, running, period, retry, ttl, periodRetry,
            info, status, result, terminate, bucketOf >>

Absent   == -1
Score    == Nat \cup {Absent}
Terminal == {"Success", "Terminate", "Error"}
Statuses == {"None", "Pending", "Ready", "Running", "TimeOut"} \cup Terminal

StoreTypeOK ==
  /\ now \in 0..MaxTime
  /\ pending \in [Buckets -> [Ids -> Score]]
  /\ ready \in [Buckets -> Seq(Ids)]
  /\ running \in [Buckets -> [Ids -> Score]]
  /\ period \in [Buckets -> [Ids -> Score]]
  /\ retry \in [Buckets -> [Ids -> Score]]
  /\ ttl \in [Buckets -> SUBSET Ids]
  /\ periodRetry \in [Buckets -> SUBSET Ids]
  /\ info \in [Buckets -> SUBSET Ids]
  /\ status \in [Buckets -> [Ids -> Statuses]]
  /\ result \in [Buckets -> SUBSET Ids]
  /\ terminate \in [Buckets -> SUBSET Ids]
  /\ bucketOf \in [Ids -> Buckets \cup {NoBucket}]

StoreInit ==
  /\ now = 0
  /\ pending = [b \in Buckets |-> [i \in Ids |-> Absent]]
  /\ ready = [b \in Buckets |-> << >>]
  /\ running = [b \in Buckets |-> [i \in Ids |-> Absent]]
  /\ period = [b \in Buckets |-> [i \in Ids |-> Absent]]
  /\ retry = [b \in Buckets |-> [i \in Ids |-> Absent]]
  /\ ttl = [b \in Buckets |-> {}]
  /\ periodRetry = [b \in Buckets |-> {}]
  /\ info = [b \in Buckets |-> {}]
  /\ status = [b \in Buckets |-> [i \in Ids |-> "None"]]
  /\ result = [b \in Buckets |-> {}]
  /\ terminate = [b \in Buckets |-> {}]
  /\ bucketOf = [i \in Ids |-> NoBucket]

-----------------------------------------------------------------------------
(* Redis commands.                                                         *)

\* ZRANGEBYSCORE z 0 now
Due(z) == {i \in Ids : z[i] # Absent /\ z[i] <= now}

\* ZREM of a set of members / HDEL of a set of fields holding a number
Removed(z, S) == [i \in Ids |-> IF i \in S THEN Absent ELSE z[i]]

\* LPOS finds the id
Queued(q, i) == \E k \in DOMAIN q : q[k] = i

\* The orders in which ZRANGEBYSCORE may return S: by score, ties either way.
Orderings(S, z) ==
  {s \in [1..Cardinality(S) -> S] :
     /\ \A i \in S : \E k \in DOMAIN s : s[k] = i
     /\ \A j, k \in DOMAIN s : j < k => z[s[j]] <= z[s[k]]}

\* LREM q 0 i: the one sequence that keeps the other elements in order.
Without(q, i) ==
  LET kept == {k \in DOMAIN q : q[k] # i}
  IN  {[k \in 1..Cardinality(kept) |-> q[f[k]]] :
         f \in {g \in [1..Cardinality(kept) -> kept] :
                  /\ \A k \in kept : \E j \in DOMAIN g : g[j] = k
                  /\ \A j, k \in DOMAIN g : j < k => g[j] < g[k]}}

-----------------------------------------------------------------------------
(* The ready list in the scripts.  Definitions named Bug... are single     *)
(* plausible slips, substituted for the definition that follows to see that*)
(* the properties notice them.                                             *)
BugNotFlushed(b, S, z) == UNCHANGED ready

Pushed(b, S, z) ==
  \E s \in Orderings(S, z) : ready' = [ready EXCEPT ![b] = @ \o s]

BugKeptInQueue(b, i) == UNCHANGED ready

Unqueued(b, i) == \E q \in Without(ready[b], i) : ready' = [ready EXCEPT ![b] = q]

-----------------------------------------------------------------------------
(* Send2PendingScript.                                                     *)

DeliveryRefused(b, i) == pending[b][i] # Absent /\ i \notin terminate[b]

Send2Pending(b, i, score) ==
  IF DeliveryRefused(b, i) THEN UNCHANGED store
  ELSE
    /\ terminate' = [terminate EXCEPT ![b] = @ \ {i}]
    /\ info' = [info EXCEPT ![b] = @ \cup {i}]
    /\ ttl' = [ttl EXCEPT ![b] = @ \cup {i}]
    /\ retry' = [retry EXCEPT ![b][i] = Retries[i]]
    /\ bucketOf' = [bucketOf EXCEPT ![i] = b]
    /\ pending' = [pending EXCEPT ![b][i] = score]
    /\ status' = [status EXCEPT ![b][i] = "Pending"]
    /\ result' = [result EXCEPT ![b] = @ \ {i}]
    /\ IF i \in Periodic
       THEN /\ period' = [period EXCEPT ![b][i] = score]
            /\ periodRetry' = [periodRetry EXCEPT ![b] = @ \cup {i}]
       ELSE UNCHANGED << period, periodRetry >>
    /\ UNCHANGED << ready, running >>

(* Pending2ReadyScript.  table.insert precedes the duplicate test, so every*)
(* due id is pushed; only an id found in neither ready nor running also    *)
(* leaves pending.                                                         *)
BugStaysPending(b) == {}

Moved(b) ==
  {i \in Due(pending[b]) : ~Queued(ready[b], i) /\ running[b][i] = Absent}

Pending2Ready(b) ==
  /\ Due(pending[b]) # {}
  /\ Pushed(b, Due(pending[b]), pending[b])
  /\ pending' = [pending EXCEPT ![b] = Removed(@, Moved(b))]
  /\ status' = [status EXCEPT ![b] =
                  [i \in Ids |-> IF i \in Moved(b) THEN "Ready" ELSE @[i]]]
  /\ result' = [result EXCEPT ![b] = @ \ Moved(b)]
  /\ UNCHANGED << running, period, retry, ttl, periodRetry, info, terminate,
                  bucketOf >>

(* Ready2RunningScript.  A popped id without a ttl is dropped: the script  *)
(* returns nil and the worker gets no job.                                 *)
BugShortLease(i) == now + Ttl[i] - 1

Deadline(i) == now + Ttl[i]

Ready2RunningDrop(b) ==
  /\ ready[b] # << >>
  /\ Head(ready[b]) \notin ttl[b]
  /\ ready' = [ready EXCEPT ![b] = Tail(@)]
  /\ UNCHANGED << pending, running, period, retry, ttl, periodRetry, info,
                  status, result, terminate, bucketOf >>

Ready2Running(b, i) ==
  /\ ready[b] # << >>
  /\ i = Head(ready[b])
  /\ i \in ttl[b]
  /\ ready' = [ready EXCEPT ![b] = Tail(@)]
  /\ running' = [running EXCEPT ![b][i] = Deadline(i)]
  /\ status' = [status EXCEPT ![b][i] = "Running"]
  /\ result' = [result EXCEPT ![b] = @ \ {i}]
  /\ UNCHANGED << pending, period, retry, ttl, periodRetry, info, terminate,
                  bucketOf >>

(* Running2PendingScript with the caller's clock reading t and the next    *)
(* firing it computed.                                                     *)
BugFiringUnchecked(b, i, t) == period[b][i] # Absent

FiringDue(b, i, t) ==
  /\ period[b][i] # Absent
  /\ period[b][i] <= t
  /\ pending[b][i] = Absent

BugNotScheduled(b, i, t, next) ==
  IF FiringDue(b, i, t)
  THEN /\ period' = [period EXCEPT ![b][i] = next]
       /\ UNCHANGED << pending, ready, running, retry, ttl, periodRetry, info,
                       status, result, terminate, bucketOf >>
  ELSE UNCHANGED store

Running2Pending(b, i, t, next) ==
  IF FiringDue(b, i, t)
  THEN /\ period' = [period EXCEPT ![b][i] = next]
       /\ pending' = [pending EXCEPT ![b][i] = next]
       /\ UNCHANGED << ready, running, retry, ttl, periodRetry, info, status,
                       result, terminate, bucketOf >>
  ELSE UNCHANGED store

(* Running2ReadyScript: executions past their deadline.  A periodic one is *)
(* retried only if another ttl fits before its next firing.                *)
FitsBeforeNext(b, i) == period[b][i] = Absent \/ Deadline(i) < period[b][i]

Expired(b)  == Due(running[b])

BugNoBudget(b) == {i \in Expired(b) : FitsBeforeNext(b, i)}

Retried(b)  == {i \in Expired(b) : retry[b][i] > 0 /\ FitsBeforeNext(b, i)}

BugAllGivenUp(b) == Expired(b)

GivenUp(b)  == Expired(b) \ Retried(b)

BugForgetsPeriodic(b) == GivenUp(b)

OneShotGivenUp(b) == {i \in GivenUp(b) : period[b][i] = Absent}

RetryAfterExpiry(b) ==
  [i \in Ids |-> CASE i \in Retried(b)        -> retry[b][i] - 1
                   [] i \in OneShotGivenUp(b) -> Absent
                   [] i \in GivenUp(b) \ OneShotGivenUp(b) -> Retries[i]
                   [] OTHER                   -> retry[b][i]]

Running2Ready(b) ==
  /\ Expired(b) # {}
  /\ running' = [running EXCEPT ![b] = Removed(@, Expired(b))]
  /\ Pushed(b, Retried(b), running[b])
  /\ retry' = [retry EXCEPT ![b] = RetryAfterExpiry(b)]
  /\ status' = [status EXCEPT ![b] =
                  [i \in Ids |-> CASE i \in Retried(b) -> "TimeOut"
                                   [] i \in GivenUp(b) -> "Error"
                                   [] OTHER            -> @[i]]]
  /\ result' = [result EXCEPT ![b] =
                  @ \cup {i \in GivenUp(b) : FitsBeforeNext(b, i)}]
  /\ ttl' = [ttl EXCEPT ![b] = @ \ OneShotGivenUp(b)]
  /\ UNCHANGED << pending, period, periodRetry, info, terminate, bucketOf >>

(* Running2FinishScript, sent by exec for each outcome and by the worker   *)
(* when it cannot load the job.                                            *)
BugKeepsTtl(b, i, st) ==
  /\ status' = [status EXCEPT ![b][i] = st]
  /\ result' = [result EXCEPT ![b] = @ \cup {i}]
  /\ running' = [running EXCEPT ![b][i] = Absent]
  /\ UNCHANGED << retry, ttl, pending, ready, period, periodRetry, info,
                  terminate, bucketOf >>

Running2Finish(b, i, st) ==
  /\ status' = [status EXCEPT ![b][i] = st]
  /\ result' = [result EXCEPT ![b] = @ \cup {i}]
  /\ running' = [running EXCEPT ![b][i] = Absent]
  /\ IF period[b][i] = Absent
     THEN /\ retry' = [retry EXCEPT ![b][i] = Absent]
          /\ ttl' = [ttl EXCEPT ![b] = @ \ {i}]
     ELSE UNCHANGED << retry, ttl >>
  /\ UNCHANGED << pending, ready, period, periodRetry, info, terminate,
                  bucketOf >>

(* TerminateScript: the running set and the status are left alone.         *)
Terminate(b, i) ==
  /\ pending' = [pending EXCEPT ![b][i] = Absent]
  /\ Unqueued(b, i)
  /\ terminate' = [terminate EXCEPT ![b] = @ \cup {i}]
  /\ UNCHANGED << running, period, retry, ttl, periodRetry, info, status,
                  result, bucketOf >>

(* DeleteScript: the status and the result stay.                           *)
Delete(b, i) ==
  /\ pending' = [pending EXCEPT ![b][i] = Absent]
  /\ running' = [running EXCEPT ![b][i] = Absent]
  /\ info' = [info EXCEPT ![b] = @ \ {i}]
  /\ period' = [period EXCEPT ![b][i] = Absent]
  /\ ttl' = [ttl EXCEPT ![b] = @ \ {i}]
  /\ Unqueued(b, i)
  /\ bucketOf' = [bucketOf EXCEPT ![i] = NoBucket]
  /\ periodRetry' = [periodRetry EXCEPT ![b] = @ \ {i}]
  /\ retry' = [retry EXCEPT ![b][i] = Absent]
  /\ terminate' = [terminate EXCEPT ![b] = @ \cup {i}]
  /\ UNCHANGED << status, result >>

-----------------------------------------------------------------------------
(* What the scripts keep true among themselves, whoever sends them.        *)

Present(b, i) == \/ pending[b][i] # Absent
                 \/ running[b][i] # Absent
                 \/ period[b][i] # Absent
                 \/ Queued(ready[b], i)

(* An id that any queue of a bucket still holds has its job info there, so *)
(* no timer moves and no worker pops a job whose delete already finished.  *)
NoGhostJobs ==
  \A b \in Buckets, i \in Ids : Present(b, i) => i \in info[b]

(* A job known to a bucket's cron schedule has the ttl and the configured  *)
(* retry count that Running2ReadyScript converts without a nil check: the  *)
(* script never aborts between two of its writes.                          *)
ScriptsTotal ==
  \A b \in Buckets, i \in Ids :
    period[b][i] # Absent => i \in ttl[b] /\ i \in periodRetry[b]

(* A result is readable only for a job whose last run is over: a retry, a  *)
(* new firing or a new delivery hides the outcome of the previous run.     *)
ResultMeansDone ==
  \A b \in Buckets, i \in Ids : i \in result[b] => status[b][i] \in Terminal

(* The strengthening that makes the three inductive: a started run has hidden *)
(* the previous result.                                                    *)
RunningHidesResult ==
  \A b \in Buckets, i \in Ids : running[b][i] # Absent => i \notin result[b]

StoreInv == /\ StoreTypeOK
            /\ NoGhostJobs
            /\ ScriptsTotal
            /\ ResultMeansDone
            /\ RunningHidesResult
=============================================================================
