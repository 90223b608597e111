------------------------------ MODULE JobQuery ------------------------------
(***************************************************************************)
(* GetJobInfoHandler (api/v0/asyncjob.go): a client asks for a job while   *)
(* AsyncQueue goes on.  The handler reads seven keys in as many round      *)
(* trips, so its answer is put together from several states of the store.  *)
(***************************************************************************)
EXTENDS AsyncQueue

CONSTANT MaxQueries  \* bound on the queries

VARIABLES query,   \* the query in progress and what it has read
          queries  \* queries begun

allVars == << vars, query, queries >>

\* pc: the round trip to make next, or the answer given; runs: history, the
\* starts of the job when its status was read
NoQuery == [pc |-> "idle", id |-> NoId, bucket |-> NoBucket, status |-> "None",
            error |-> FALSE, type |-> "", pos |-> 0, len |-> 0, start |-> Absent,
            runs |-> 0]

BugInQueue == {"Pending", "Ready", "TimeOut"}

InQueue  == {"Ready", "TimeOut"}
Answered == {"idle", "notFound", "internal", "ok"}

QueryInit == Init /\ query = NoQuery /\ queries = 0

QueryGoes(pc) == /\ query.pc = pc
                 /\ UNCHANGED << vars, queries >>

\* HGET id -> bucket
Ask(i) ==
  /\ query.pc \in Answered
  /\ queries < MaxQueries
  /\ queries' = queries + 1
  /\ query' = [NoQuery EXCEPT !.id = i, !.bucket = bucketOf[i],
                 !.pc = IF bucketOf[i] = NoBucket THEN "notFound" ELSE "status"]
  /\ UNCHANGED vars

\* The status is never missing once the bucket is known, as no script deletes it.
ReadStatus ==
  /\ QueryGoes("status")
  /\ query' = [query EXCEPT !.pc = "result",
                            !.status = status[query.bucket][query.id],
                            !.runs = starts[query.id]]

ReadResult ==
  /\ QueryGoes("result")
  /\ query' = [query EXCEPT !.pc = "type",
                            !.error = query.id \in result[query.bucket]]

ReadType ==
  /\ QueryGoes("type")
  /\ query' = [query EXCEPT
       !.pc = IF query.status \in InQueue THEN "position" ELSE "start",
       !.type = IF period[query.bucket][query.id] = Absent THEN "Non-Period"
                                                          ELSE "Period"]

\* LPOS counts from the left, where LPUSH adds: the tail of the sequence.
LPos(q, i) == LET last == CHOOSE k \in DOMAIN q :
                            q[k] = i /\ \A j \in DOMAIN q : q[j] = i => j <= k
              IN  Len(q) - last

ReadPosition ==
  LET q == ready[query.bucket]
  IN  /\ QueryGoes("position")
      /\ Queued(q, query.id)
      /\ query' = [query EXCEPT !.pc = "length", !.pos = LPos(q, query.id)]

\* "the status is ready, but the job is not in the ready queue"
PositionMissing ==
  /\ QueryGoes("position")
  /\ ~Queued(ready[query.bucket], query.id)
  /\ query' = [query EXCEPT !.pc = "internal"]

ReadLength ==
  LET len == Len(ready[query.bucket])
  IN  /\ QueryGoes("length")
      /\ query' = [query EXCEPT !.pc = "start", !.len = len,
                                !.pos = len - query.pos]

ReadStart ==
  /\ QueryGoes("start")
  /\ query' = [query EXCEPT !.pc = "ok",
                            !.start = pending[query.bucket][query.id]]

Query == \/ \E i \in Ids : Ask(i)
         \/ ReadStatus \/ ReadResult \/ ReadType \/ ReadPosition
         \/ PositionMissing \/ ReadLength \/ ReadStart

\* Everything else goes on meanwhile.
Queueing == Next /\ UNCHANGED << query, queries >>

QueryNext == Queueing \/ Query

QuerySpec == QueryInit /\ [][QueryNext]_allVars

-----------------------------------------------------------------------------
(* Put together from two instants, the answer is still whole: a one-shot   *)
(* job whose status is final is never shown without its result, because no *)
(* late event starts it again and hides the result before it is read.      *)
FinalAnswerWhole ==
  query.pc = "ok" /\ query.id \in OneShot /\ query.status \in Terminal
    => query.error

(* The internal error for a one-shot job is a race of this query only: in  *)
(* the two round trips since its status was read, which said that it was   *)
(* queued, the job was started or ended.  Otherwise it was stopped, or     *)
(* deleted, before or after that read (a stop leaves the status).          *)
ErrorIsARace ==
  [][PositionMissing /\ query.id \in OneShot =>
       LET b == query.bucket
           i == query.id
       IN  \/ i \in terminate[b]
           \/ starts[i] > query.runs
           \/ status[b][i] \in Terminal]_allVars
=============================================================================
