----------------------------- MODULE AsyncQueue -----------------------------
(***************************************************************************)
(* asyncjob at run time: API requests, and on every node and for every     *)
(* bucket the three 500 ms timers (transworker.go) and the worker with its *)
(* MaxWorker execution slots (handleworker.go), all sending the scripts of *)
(* JobStore to one Redis.  An operation that makes several Redis round     *)
(* trips is several actions, and what it read before is kept in its own    *)
(* state, so every interleaving of the round trips is explored.            *)
(***************************************************************************)
EXTENDS JobStore

CONSTANTS Nodes,      \* asyncjob processes
          Slots,      \* execution slots of a worker (utils.MaxWorker)
          Clients,    \* concurrent API requests
          Ops,        \* API operations in play besides delivery
          Delays,     \* start delays of one-shot jobs
          NoId,       \* "no job"
          MaxCalls,   \* bound on API requests other than deliveries
          MaxReady,   \* bound on the length of a ready list
          MaxStarts,  \* the count of starts saturates here; 0: no histories
          MaxCrash,   \* bound on crashes and shutdowns of nodes
          MaxDown,    \* bound on the nodes shut down at one time
          Parts       \* instants told apart within a second

ASSUME QueueAssumption == /\ NoId \notin Ids
                          /\ Ops \subseteq {"stop", "recover", "delete"}
                          /\ Delays \subseteq Nat
                          /\ MaxStarts \in Nat
                          /\ Parts \in Nat \ {0}

VARIABLES part,    \* part of the current second, which no clock reading shows
          issued,  \* ids handed out by the id generator
          starts,  \* history: executions begun for each id
          call,    \* API request in progress
          calls,   \* API requests begun
          worker,  \* the Start loop of a bucket's worker
          slot,    \* its execution slots: channel ch and the exec goroutines
          sweep,   \* the running2Pending timer of a bucket
          crashes, \* nodes killed or shut down so far
          down     \* nodes whose task context is cancelled

env  == << part, issued, starts, call, calls, worker, slot, sweep, crashes,
           down >>
vars == << now, store, env >>

NoCall   == [pc |-> "idle", id |-> NoId, bucket |-> NoBucket]
CallType == {NoCall}
  \cup [pc : {"stopCheck", "stopEval", "recoverLoad", "deleteEval"},
        id : Ids, bucket : Buckets]
  \cup [pc : {"recoverSend"}, id : Ids, bucket : {NoBucket}]

\* probe: waiting for a free slot; pop: about to ask for a job; acquire, load,
\* fail: a popped job in hand; gone: the loop saw ctx.Done
IdleWorker == [pc |-> "probe", id |-> NoId, popped |-> 0]
Popping    == [pc |-> "pop", id |-> NoId, popped |-> 0]
GoneWorker == [pc |-> "gone", id |-> NoId, popped |-> 0]
Worker     == {IdleWorker, Popping, GoneWorker}
  \cup [pc : {"acquire", "load", "fail"}, id : Ids, popped : Nat]

\* held: taken by the worker; exec: an exec goroutine; lost: the worker went
\* on to its next job and nobody will ever release the slot
FreeSlot == [st |-> "free", id |-> NoId, popped |-> 0, armed |-> 0,
             stop |-> FALSE]
LostSlot == [st |-> "lost", id |-> NoId, popped |-> 0, armed |-> 0,
             stop |-> FALSE]
Slot     == {FreeSlot, LostSlot}
  \cup [st : {"held", "exec"}, id : Ids, popped : Nat, armed : Nat,
        stop : BOOLEAN]

IdleSweep == [pc |-> "idle", id |-> NoId, at |-> 0, next |-> 0]
Sweep     == {IdleSweep}
  \cup [pc : {"flag", "info", "plan", "eval"}, id : Ids, at : Nat, next : Nat]

Init ==
  /\ StoreInit
  /\ part = 0
  /\ issued = {}
  /\ starts = [i \in Ids |-> 0]
  /\ call = [c \in Clients |-> NoCall]
  /\ calls = 0
  /\ worker = [n \in Nodes |-> [b \in Buckets |-> IdleWorker]]
  /\ slot = [n \in Nodes |-> [b \in Buckets |-> [k \in Slots |-> FreeSlot]]]
  /\ sweep = [n \in Nodes |-> [b \in Buckets |-> IdleSweep]]
  /\ crashes = 0
  /\ down = {}

\* TIME[1] and Unix() both give the second only.
Tick ==
  /\ \/ part + 1 < Parts /\ part' = part + 1 /\ UNCHANGED now
     \/ part + 1 = Parts /\ part' = 0 /\ now < MaxTime /\ now' = now + 1
  /\ UNCHANGED << store, issued, starts, call, calls, worker, slot, sweep,
                  crashes, down >>

\* The instant, in parts of a second.
Clock == now * Parts + part

\* History: the instant of a pop.
Stamp == IF MaxStarts = 0 THEN 0 ELSE Clock

-----------------------------------------------------------------------------
(* API requests.                                                           *)

\* Common job delivery waits for the requested start time; a periodic job
\* waits for its next cron instant.
StartTimes(i) == IF i \in Periodic THEN {CronNext[now]}
                                   ELSE {now + d : d \in Delays}

Deliver(i) ==
  /\ i \notin issued
  /\ issued' = issued \cup {i}
  /\ \E b \in Buckets, t \in StartTimes(i) : Send2Pending(b, i, t)
  /\ UNCHANGED << now, part, starts, call, calls, worker, slot, sweep, crashes,
                  down >>

CallGoes(c, pc, i, b) ==
  /\ call' = [call EXCEPT ![c] = [pc |-> pc, id |-> i, bucket |-> b]]
  /\ UNCHANGED << now, part, issued, starts, worker, slot, sweep, crashes,
                  down >>

CallEnds(c) ==
  /\ call' = [call EXCEPT ![c] = NoCall]
  /\ UNCHANGED << now, part, issued, starts, calls, worker, slot, sweep,
                  crashes, down >>

\* Every request first reads id -> bucket; a missing id ends it.
Request(c, op, pc, i) ==
  /\ op \in Ops
  /\ call[c] = NoCall
  /\ calls < MaxCalls
  /\ calls' = calls + 1
  /\ bucketOf[i] # NoBucket
  /\ CallGoes(c, pc, i, bucketOf[i])
  /\ UNCHANGED store

StopJob(c, i)    == Request(c, "stop", "stopCheck", i)
RecoverJob(c, i) == Request(c, "recover", "recoverLoad", i)
DeleteJob(c, i)  == Request(c, "delete", "deleteEval", i)

Stoppable == {"Pending", "Ready", "Running", "TimeOut"}

StopCheck(c) ==
  /\ call[c].pc = "stopCheck"
  /\ IF status[call[c].bucket][call[c].id] \in Stoppable
     THEN CallGoes(c, "stopEval", call[c].id, call[c].bucket)
          /\ UNCHANGED calls
     ELSE CallEnds(c)
  /\ UNCHANGED store

StopEval(c) ==
  /\ call[c].pc = "stopEval"
  /\ Terminate(call[c].bucket, call[c].id)
  /\ CallEnds(c)

\* The HGET on the period zset always fails (it is not a hash), so the
\* periodic branch is never taken: every job is delivered again from its info.
RecoverLoad(c) ==
  /\ call[c].pc = "recoverLoad"
  /\ IF call[c].id \in info[call[c].bucket]
     THEN CallGoes(c, "recoverSend", call[c].id, NoBucket) /\ UNCHANGED calls
     ELSE CallEnds(c)
  /\ UNCHANGED store

RecoverSend(c) ==
  /\ call[c].pc = "recoverSend"
  /\ \E b \in Buckets : Send2Pending(b, call[c].id, now)
  /\ CallEnds(c)

DeleteEval(c) ==
  /\ call[c].pc = "deleteEval"
  /\ Delete(call[c].bucket, call[c].id)
  /\ CallEnds(c)

Api ==
  \/ \E i \in Ids : Deliver(i)
  \/ \E c \in Clients :
       \/ \E i \in issued : StopJob(c, i) \/ RecoverJob(c, i) \/ DeleteJob(c, i)
       \/ StopCheck(c) \/ StopEval(c)
       \/ RecoverLoad(c) \/ RecoverSend(c)
       \/ DeleteEval(c)

-----------------------------------------------------------------------------
(* Timers.  The two that only send a script are not tied to a node.        *)

Room(b, S) == Len(ready[b]) + Cardinality(S) <= MaxReady

Pending2ReadyTimer(b) ==
  /\ Room(b, Due(pending[b]))
  /\ Pending2Ready(b)
  /\ UNCHANGED << now, env >>

Running2ReadyTimer(b) ==
  /\ Room(b, Retried(b))
  /\ Running2Ready(b)
  /\ UNCHANGED << now, env >>

SweepGoes(n, b, s) ==
  /\ sweep' = [sweep EXCEPT ![n][b] = s]
  /\ UNCHANGED << now, part, issued, starts, call, calls, worker, slot,
                  crashes, down >>

BugSkipsHead(b) == {i \in Due(period[b]) :
                      \E j \in Due(period[b]) : period[b][j] < period[b][i]}

\* ZRANGEBYSCORE ... LIMIT 0 1: only the job with the earliest firing.
Earliest(b) == {i \in Due(period[b]) :
                  \A j \in Due(period[b]) : period[b][i] <= period[b][j]}

SweepSelect(n, b) ==
  /\ sweep[n][b].pc = "idle"
  /\ \E i \in Earliest(b) :
       SweepGoes(n, b, [pc |-> "flag", id |-> i, at |-> now, next |-> 0])
  /\ UNCHANGED store

BugStopUnread(b, i) == FALSE

Stopped(b, i) == i \in terminate[b]

SweepFlag(n, b) ==
  LET s == sweep[n][b]
  IN  /\ s.pc = "flag"
      /\ SweepGoes(n, b, IF Stopped(b, s.id) THEN IdleSweep
                                             ELSE [s EXCEPT !.pc = "info"])
      /\ UNCHANGED store

SweepInfo(n, b) ==
  LET s == sweep[n][b]
  IN  /\ s.pc = "info"
      /\ SweepGoes(n, b, IF s.id \in info[b] THEN [s EXCEPT !.pc = "plan"]
                                              ELSE IdleSweep)
      /\ UNCHANGED store

\* The second reading of the clock gives the next cron instant.
SweepPlan(n, b) ==
  LET s == sweep[n][b]
  IN  /\ s.pc = "plan"
      /\ SweepGoes(n, b, [s EXCEPT !.pc = "eval", !.next = CronNext[now]])
      /\ UNCHANGED store

SweepEval(n, b) ==
  LET s == sweep[n][b]
  IN  /\ s.pc = "eval"
      /\ Running2Pending(b, s.id, s.at, s.next)
      /\ SweepGoes(n, b, IdleSweep)

SweepStep(n, b) ==
  \/ SweepSelect(n, b) \/ SweepFlag(n, b) \/ SweepInfo(n, b)
  \/ SweepPlan(n, b) \/ SweepEval(n, b)

Timers ==
  \/ \E b \in Buckets : Pending2ReadyTimer(b) \/ Running2ReadyTimer(b)
  \/ \E n \in Nodes, b \in Buckets : SweepStep(n, b)

-----------------------------------------------------------------------------
(* The worker of a bucket and its executions.                              *)

FreeSlots(n, b) == {k \in Slots : slot[n][b][k].st = "free"}

WorkerGoes(n, b, w) ==
  /\ worker' = [worker EXCEPT ![n][b] = w]
  /\ UNCHANGED << now, part, issued, call, calls, sweep, crashes, down >>

\* Back at the top of the loop, where ctx.Done goes before default.
NextRound(n) == IF n \in down THEN GoneWorker ELSE IdleWorker

BugNoProbe(n, b) ==
  /\ worker[n][b].pc = "probe"
  /\ WorkerGoes(n, b, Popping)
  /\ UNCHANGED << store, starts, slot >>

\* w.ch <- struct{}{}; <-w.ch
Probe(n, b) ==
  /\ worker[n][b].pc = "probe"
  /\ FreeSlots(n, b) # {}
  /\ WorkerGoes(n, b, Popping)
  /\ UNCHANGED << store, starts, slot >>

\* An empty list, or a popped id without a ttl, sends the worker round again.
PopNothing(n, b) ==
  /\ worker[n][b].pc = "pop"
  /\ \/ ready[b] = << >> /\ UNCHANGED store
     \/ Ready2RunningDrop(b)
  /\ WorkerGoes(n, b, NextRound(n))
  /\ UNCHANGED << starts, slot >>

Pop(n, b) ==
  /\ worker[n][b].pc = "pop"
  /\ \E i \in Ids :
       /\ Ready2Running(b, i)
       /\ starts' = [starts EXCEPT ![i] = IF @ < MaxStarts THEN @ + 1 ELSE @]
       /\ WorkerGoes(n, b, [pc |-> "acquire", id |-> i, popped |-> Stamp])
  /\ UNCHANGED slot

Acquire(n, b) ==
  LET w == worker[n][b]
  IN  /\ w.pc = "acquire"
      /\ \E k \in FreeSlots(n, b) :
           slot' = [slot EXCEPT ![n][b][k] =
                      [st |-> "held", id |-> w.id, popped |-> w.popped,
                       armed |-> 0, stop |-> FALSE]]
      /\ WorkerGoes(n, b, [w EXCEPT !.pc = "load"])
      /\ UNCHANGED << store, starts >>

\* getTTL and GetJob find what they read.
Loadable(b, i) ==
  i \in ttl[b] /\ \E c \in Buckets : bucketOf[i] = c /\ i \in info[c]

\* The exec goroutine takes the slot over.
Load(n, b) ==
  LET w == worker[n][b]
  IN  /\ w.pc = "load"
      /\ Loadable(b, w.id)
      /\ n \notin down
      /\ \E k \in Slots :
           /\ slot[n][b][k].st = "held"
           /\ slot' = [slot EXCEPT ![n][b][k] =
                         [@ EXCEPT !.st = "exec", !.armed = Clock]]
      /\ WorkerGoes(n, b, NextRound(n))
      /\ UNCHANGED << store, starts >>

\* getTTL gets the task context, and fails once that is cancelled.
LoadFails(n, b) ==
  LET w == worker[n][b]
  IN  /\ w.pc = "load"
      /\ ~Loadable(b, w.id) \/ n \in down
      /\ WorkerGoes(n, b, [w EXCEPT !.pc = "fail"])
      /\ UNCHANGED << store, starts, slot >>

\* The caller ignores the error of running2Finish.
Finishes(b, i, st) == Running2Finish(b, i, st) \/ UNCHANGED store

\* running2Finish(Error), then `continue`: the slot is not given back.
Fail(n, b) ==
  LET w == worker[n][b]
  IN  /\ w.pc = "fail"
      /\ Finishes(b, w.id, "Error")
      /\ \E k \in Slots :
           /\ slot[n][b][k].st = "held"
           /\ slot' = [slot EXCEPT ![n][b][k] = LostSlot]
      /\ WorkerGoes(n, b, NextRound(n))
      /\ UNCHANGED starts

ExecEnds(n, b, k) ==
  /\ slot' = [slot EXCEPT ![n][b][k] = FreeSlot]
  /\ UNCHANGED << now, part, issued, starts, call, calls, worker, sweep,
                  crashes, down >>

\* The handler returned (or panicked), with or without an error.
ExecResult(n, b, k) ==
  /\ slot[n][b][k].st = "exec"
  /\ \E st \in {"Success", "Error"} : Finishes(b, slot[n][b][k].id, st)
  /\ ExecEnds(n, b, k)

\* terminateMonitor polls the flag, then hands exec the stop signal.
Monitor(n, b, k) ==
  /\ slot[n][b][k].st = "exec"
  /\ ~slot[n][b][k].stop
  /\ slot[n][b][k].id \in terminate[b]
  /\ slot' = [slot EXCEPT ![n][b][k] = [@ EXCEPT !.stop = TRUE]]
  /\ UNCHANGED << now, part, store, issued, starts, call, calls, worker, sweep,
                  crashes, down >>

ExecTerminate(n, b, k) ==
  /\ slot[n][b][k].st = "exec"
  /\ slot[n][b][k].stop
  /\ Finishes(b, slot[n][b][k].id, "Terminate")
  /\ ExecEnds(n, b, k)

TimerFired(e) == e.armed + Parts * Ttl[e.id] <= Clock

\* exec takes the timeout: it only logs, the store learns from Running2Ready.
ExecTimeout(n, b, k) ==
  /\ slot[n][b][k].st = "exec"
  /\ TimerFired(slot[n][b][k])
  /\ ExecEnds(n, b, k)
  /\ UNCHANGED store

\* exec takes ctx.Done: it leaves without a word.
ExecCancelled(n, b, k) ==
  /\ slot[n][b][k].st = "exec"
  /\ n \in down
  /\ ExecEnds(n, b, k)
  /\ UNCHANGED store

WorkerStep(n, b) ==
  \/ Probe(n, b) \/ PopNothing(n, b) \/ Pop(n, b) \/ Acquire(n, b)
  \/ Load(n, b) \/ LoadFails(n, b) \/ Fail(n, b)

Workers ==
  \E n \in Nodes, b \in Buckets :
    \/ WorkerStep(n, b)
    \/ \E k \in Slots : \/ ExecResult(n, b, k) \/ Monitor(n, b, k)
                        \/ ExecTerminate(n, b, k) \/ ExecTimeout(n, b, k)
                        \/ ExecCancelled(n, b, k)

\* taskCancel: a worker that waits in its select leaves, one that is past it
\* goes on to the end of its round.
Cancel(n) ==
  /\ n \notin down
  /\ Cardinality(down) < MaxDown
  /\ crashes < MaxCrash
  /\ crashes' = crashes + 1
  /\ down' = down \cup {n}
  /\ \E inSelect \in SUBSET {b \in Buckets : worker[n][b] = IdleWorker} :
       worker' = [worker EXCEPT ![n] = [b \in Buckets |->
                    IF b \in inSelect THEN GoneWorker ELSE @[b]]]
  /\ UNCHANGED << now, part, store, issued, starts, call, calls, slot, sweep >>

\* A node is killed, or its shutdown comes to an end, and it is started again:
\* its goroutines are gone.
Crash(n) ==
  /\ \/ n \in down /\ UNCHANGED crashes
     \/ n \notin down /\ crashes < MaxCrash /\ crashes' = crashes + 1
  /\ down' = down \ {n}
  /\ worker' = [worker EXCEPT ![n] = [b \in Buckets |-> IdleWorker]]
  /\ slot' = [slot EXCEPT ![n] = [b \in Buckets |-> [k \in Slots |-> FreeSlot]]]
  /\ sweep' = [sweep EXCEPT ![n] = [b \in Buckets |-> IdleSweep]]
  /\ UNCHANGED << now, part, store, issued, starts, call, calls >>

Next == Tick \/ Api \/ Timers \/ Workers
          \/ \E n \in Nodes : Cancel(n) \/ Crash(n)

Spec == Init /\ [][Next]_vars

Up == Nodes \ down

\* While a node is up its tickers fire again and again, its workers loop, and
\* Go's select takes a timeout that stays ready.  Nothing obliges a client, a
\* handler or the clock to move, nor a node to crash or to be started again.
Fairness ==
  /\ \A b \in Buckets : /\ WF_vars(Up # {} /\ Pending2ReadyTimer(b))
                        /\ WF_vars(Up # {} /\ Running2ReadyTimer(b))
  /\ \A n \in Nodes, b \in Buckets :
       /\ WF_vars(n \in Up /\ SweepStep(n, b))
       /\ WF_vars(n \in Up /\ WorkerStep(n, b))
       /\ \A k \in Slots : WF_vars(n \in Up /\ ExecTimeout(n, b, k))

FairSpec == Spec /\ Fairness

-----------------------------------------------------------------------------
(* Every process is in a state its code can be in.                         *)
EnvTypeOK ==
  /\ part \in 0..(Parts - 1)
  /\ issued \subseteq Ids
  /\ starts \in [Ids -> 0..MaxStarts]
  /\ call \in [Clients -> CallType]
  /\ calls \in Nat
  /\ worker \in [Nodes -> [Buckets -> Worker]]
  /\ slot \in [Nodes -> [Buckets -> [Slots -> Slot]]]
  /\ sweep \in [Nodes -> [Buckets -> Sweep]]
  /\ crashes \in Nat
  /\ down \subseteq Nodes

(* Type correctness of the store and of every process.                     *)
TypeOK == StoreTypeOK /\ EnvTypeOK

OneShot == Ids \ Periodic

(* The status shown for a job that nobody stopped names a queue that still *)
(* holds it, so a timer or a worker will pick it up.                       *)
StatusMatchesPlace ==
  \A b \in Buckets : \A i \in Ids \ terminate[b] :
    /\ status[b][i] = "Pending" => pending[b][i] # Absent
    /\ status[b][i] \in {"Ready", "TimeOut"} => Queued(ready[b], i)
    /\ status[b][i] = "Running" => running[b][i] # Absent

(* A periodic job that nobody stopped or deleted always has a next firing: *)
(* it waits in pending, or its cron entry is due and a sweep will renew it.*)
PeriodicNeverLost ==
  \A i \in issued \cap Periodic : \E b \in Buckets :
    \/ i \in terminate[b]
    \/ /\ period[b][i] # Absent
       /\ pending[b][i] # Absent \/ period[b][i] <= now

(* Without recovery a job lives only in the bucket recorded for it; once   *)
(* deleted it is in no queue of any bucket and can never start again.      *)
HomeBucket ==
  \A b \in Buckets, i \in Ids : Present(b, i) => bucketOf[i] = b

(* Atomic scheduling: a one-shot job is in one place only, once waiting,   *)
(* once queued or once running, so no two workers are handed one run.      *)
OnePlace ==
  \A b \in Buckets, i \in OneShot :
    LET at == {k \in DOMAIN ready[b] : ready[b][k] = i}
    IN  /\ \A j, k \in at : j = k
        /\ pending[b][i] # Absent => running[b][i] = Absent /\ at = {}
        /\ running[b][i] # Absent => at = {}

(* A one-shot job starts at most once plus its configured retries, late    *)
(* results, crashes, shutdowns and concurrent timers included.  Deliver is *)
(* a delivery whose script runs once: one that go-redis sends again, after *)
(* the job has left pending, starts a new life (module Delivery).          *)
StartsBounded == \A i \in OneShot : starts[i] <= 1 + Retries[i]

(* The deadline is a lease: of two executions of a one-shot job that are   *)
(* alive together, the later was popped more than Ttl - 1 seconds after the*)
(* earlier.  A whole ttl is not what the code gives: the deadline is the   *)
(* second of the pop plus ttl, and it has passed when that second begins on*)
(* the clock of the node whose timer asks, here the clock of Redis.        *)
At(x) == slot[x[1]][x[2]][x[3]]
Execs == {x \in Nodes \X Buckets \X Slots : At(x).st \in {"held", "exec"}}

OverlapOnlyAfterTtl ==
  \A x, y \in Execs :
    LET e == At(x)
        f == At(y)
    IN  x # y /\ e.id = f.id /\ e.id \in OneShot =>
          \/ e.popped + Parts * (Ttl[e.id] - 1) < f.popped
          \/ f.popped + Parts * (Ttl[e.id] - 1) < e.popped

(* A worker that moved a job to running never blocks on its semaphore: the *)
(* slot it probed for before the pop is still free when it acquires.       *)
PoppedJobHasSlot ==
  \A n \in Nodes, b \in Buckets :
    worker[n][b].pc = "acquire" => FreeSlots(n, b) # {}

(* Two sweeps racing for one firing, or a sweep with a stale clock, never  *)
(* schedule an instant again: a cron entry only moves to a later one.      *)
PeriodAdvances ==
  [][\A b \in Buckets, i \in Ids :
       period[b][i] # Absent /\ period'[b][i] # Absent
         => period'[b][i] >= period[b][i]]_vars

(* asyncqueue.go:330, "the task has finished and cannot be stopped": a     *)
(* one-shot job whose stop is refused is in no place that it could start   *)
(* from, even when its status is that of a late result of an earlier run.  *)
RefusedIsOver ==
  [][\A c \in Clients : LET b == call[c].bucket
                         i == call[c].id
     IN  StopCheck(c) /\ call'[c] = NoCall /\ i \in OneShot =>
           /\ pending[b][i] = Absent /\ running[b][i] = Absent
           /\ ~(Queued(ready[b], i) /\ i \in ttl[b])]_vars

(* No job is forgotten: again and again, every delivered one-shot job is   *)
(* over, stopped, waiting for its start time, inside a running lease, or   *)
(* queued while every slot of a node that is up runs a job whose own       *)
(* timeout is still ahead, or is lost.                                     *)
Busy(e) == e.st = "exec" /\ ~TimerFired(e)

AllBusy(b) ==
  /\ \E n \in Up, k \in Slots : Busy(slot[n][b][k])
  /\ \A n \in Up, k \in Slots :
       slot[n][b][k].st = "lost" \/ Busy(slot[n][b][k])

Settled(i) ==
  \E b \in Buckets :
    \/ status[b][i] \in Terminal
    \/ i \in terminate[b]
    \/ pending[b][i] > now
    \/ running[b][i] > now
    \/ Queued(ready[b], i) /\ AllBusy(b)

OneShotSettles == \A i \in OneShot : []<>(i \in issued => Settled(i))

(* No firing is skipped for good: when a periodic job that nobody stopped  *)
(* has left pending, some sweep schedules its next cron instant.           *)
CronRenewed ==
  \A i \in Periodic :
    []<>(i \in issued => \E b \in Buckets : \/ i \in terminate[b]
                                           \/ pending[b][i] # Absent
                                           \/ period[b][i] > now)

-----------------------------------------------------------------------------
(* What the repository says and the code does not do.                      *)

(* README.md:5, "atomic scheduling, a task is not consumed twice", and the *)
(* duplicate test of Pending2ReadyScript: a job is queued at most once and *)
(* not while one of its runs is going on.                                  *)
NotConsumedTwice ==
  \A b \in Buckets, i \in Ids :
    /\ \A j, k \in DOMAIN ready[b] :
         ready[b][j] = i /\ ready[b][k] = i => j = k
    /\ Queued(ready[b], i) => running[b][i] = Absent

(* TerminateScript, "remove the message from pending/ready/running, set the*)
(* stop signal": a stopped job that nobody recovers is not started again.  *)
StoppedNeverStarts ==
  [][\A b \in Buckets : \A i \in terminate[b] : starts'[i] = starts[i]]_vars
=============================================================================
