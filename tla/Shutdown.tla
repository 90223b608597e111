------------------------------ MODULE Shutdown ------------------------------
(***************************************************************************)
(* The life of one asyncjob process (app.go, dispatch.go): the HTTP server *)
(* starts, then the timers and one worker per bucket; on a signal the main *)
(* goroutine cancels the task context, waits for the timers and then for   *)
(* the workers, and shuts the server down.  The executions and the handlers*)
(* belong to no WaitGroup.                                                 *)
(***************************************************************************)
EXTENDS Integers

CONSTANTS Buckets,     \* a worker each
          Timers,      \* the timer goroutines, three for each bucket
          MaxWorker,   \* slots of a worker
          MaxJobs,     \* bound on the jobs popped
          MaxRequests  \* bound on the requests in flight

ASSUME ProcessAssumption == /\ MaxWorker \in Nat \ {0}
                            /\ MaxJobs \in Nat
                            /\ MaxRequests \in Nat

VARIABLES main,      \* program counter of RunServer
          taskCtx,   \* whether taskCtx is cancelled
          timer,     \* program counter of each timer
          worker,    \* program counter of each worker's Start loop
          execs,     \* executions that hold a slot, by bucket
          lost,      \* slots that nobody will release, by bucket
          handlers,  \* handlers still running, by bucket
          late,      \* jobs popped after the cancellation, by bucket
          jobs,      \* jobs popped so far
          requests   \* HTTP requests in flight

procVars == << main, taskCtx, timer, worker, execs, lost, handlers, late,
               jobs, requests >>

\* Tokens in the channel of a worker.
Taken(b) == execs[b] + lost[b] + (IF worker[b] \in {"drain", "load"} THEN 1 ELSE 0)

(* Every goroutine is at a point of its code, and a worker's channel holds *)
(* no more than MaxWorker tokens.                                          *)
ProcTypeOK ==
  /\ main \in {"boot", "serve", "sleep", "producers", "consumers", "http",
               "exited", "panicked"}
  /\ taskCtx \in BOOLEAN
  /\ timer \in [Timers -> {"off", "select", "send", "gone"}]
  /\ worker \in [Buckets -> {"off", "select", "probe", "drain", "pop",
                             "acquire", "load", "gone"}]
  /\ execs \in [Buckets -> Nat] /\ lost \in [Buckets -> Nat]
  /\ handlers \in [Buckets -> Nat] /\ late \in [Buckets -> Nat]
  /\ \A b \in Buckets : Taken(b) <= MaxWorker
  /\ jobs \in 0..MaxJobs
  /\ requests \in 0..MaxRequests

ProcInit ==
  /\ main = "boot"
  /\ taskCtx = FALSE
  /\ timer = [t \in Timers |-> "off"]
  /\ worker = [b \in Buckets |-> "off"]
  /\ execs = [b \in Buckets |-> 0]
  /\ lost = [b \in Buckets |-> 0]
  /\ handlers = [b \in Buckets |-> 0]
  /\ late = [b \in Buckets |-> 0]
  /\ jobs = 0
  /\ requests = 0

Alive == main \notin {"exited", "panicked"}

-----------------------------------------------------------------------------
(* RunServer and StopTask.                                                 *)

Main(from, to) ==
  /\ main = from
  /\ main' = to
  /\ UNCHANGED << execs, lost, handlers, late, jobs, requests >>

\* The server is already accepting requests when RunTask starts the rest.
RunTask ==
  /\ Main("boot", "serve")
  /\ timer' = [t \in Timers |-> "select"]
  /\ worker' = [b \in Buckets |-> "select"]
  /\ UNCHANGED taskCtx

Interrupt == Main("serve", "sleep") /\ UNCHANGED << taskCtx, timer, worker >>

TaskCancel ==
  /\ Main("sleep", "producers")
  /\ taskCtx' = TRUE
  /\ UNCHANGED << timer, worker >>

BugNoWait(pc) == TRUE
AllGone(pc)   == \A x \in DOMAIN pc : pc[x] = "gone"

WaitProducers ==
  /\ AllGone(timer)
  /\ Main("producers", "consumers")
  /\ UNCHANGED << taskCtx, timer, worker >>

WaitConsumers ==
  /\ AllGone(worker)
  /\ Main("consumers", "http")
  /\ UNCHANGED << taskCtx, timer, worker >>

\* httpSrv.Shutdown waits for the requests, its context for five seconds.
Exit ==
  /\ \/ requests = 0 /\ Main("http", "exited")
     \/ requests > 0 /\ Main("http", "panicked")
  /\ UNCHANGED << taskCtx, timer, worker >>

MainStep == RunTask \/ TaskCancel \/ WaitProducers \/ WaitConsumers \/ Exit

\* Requests come until Shutdown; a delivery waits on BucketQueue until the
\* generator of bucket names runs.
Request ==
  /\ Alive
  /\ \/ main # "http" /\ requests < MaxRequests /\ requests' = requests + 1
     \/ main # "boot" /\ requests > 0 /\ requests' = requests - 1
  /\ UNCHANGED << main, taskCtx, timer, worker, execs, lost, handlers, late,
                  jobs >>

-----------------------------------------------------------------------------
(* The timers: the select waits for a tick or for the cancellation.        *)

Timer(t) ==
  /\ Alive
  /\ \/ timer[t] = "select" /\ timer' = [timer EXCEPT ![t] = "send"]
     \/ timer[t] = "send" /\ timer' = [timer EXCEPT ![t] = "select"]
     \/ timer[t] = "select" /\ taskCtx /\ timer' = [timer EXCEPT ![t] = "gone"]
  /\ UNCHANGED << main, taskCtx, worker, execs, lost, handlers, late, jobs,
                  requests >>

-----------------------------------------------------------------------------
(* A worker.                                                               *)

WorkerGoes(b, from, to) ==
  /\ Alive
  /\ worker[b] = from
  /\ worker' = [worker EXCEPT ![b] = to]
  /\ UNCHANGED << main, taskCtx, timer, requests >>

BugSelects(b) ==
  /\ \/ WorkerGoes(b, "select", "probe")
     \/ taskCtx /\ WorkerGoes(b, "select", "gone")
  /\ UNCHANGED << execs, lost, handlers, late, jobs >>

\* select takes default only when ctx.Done is not ready.
Selects(b) ==
  /\ \/ ~taskCtx /\ WorkerGoes(b, "select", "probe")
     \/ taskCtx /\ WorkerGoes(b, "select", "gone")
  /\ UNCHANGED << execs, lost, handlers, late, jobs >>

\* w.ch <- struct{}{}; <-w.ch: blocks while every slot is taken, deaf to ctx.
Probes(b) ==
  /\ \/ Taken(b) < MaxWorker /\ WorkerGoes(b, "probe", "drain")
     \/ WorkerGoes(b, "drain", "pop")
  /\ UNCHANGED << execs, lost, handlers, late, jobs >>

Pops(b) ==
  /\ \/ WorkerGoes(b, "pop", "select") /\ UNCHANGED << late, jobs >>
     \/ /\ jobs < MaxJobs
        /\ WorkerGoes(b, "pop", "acquire")
        /\ jobs' = jobs + 1
        /\ late' = IF taskCtx THEN [late EXCEPT ![b] = @ + 1] ELSE late
  /\ UNCHANGED << execs, lost, handlers >>

Acquires(b) ==
  /\ Taken(b) < MaxWorker
  /\ WorkerGoes(b, "acquire", "load")
  /\ UNCHANGED << execs, lost, handlers, late, jobs >>

\* exec takes the slot over; `continue` after a failed load forgets it.  The load
\* of a late job fails, as getTTL gets the cancelled context.
Loads(b) ==
  /\ WorkerGoes(b, "load", "select")
  /\ \/ /\ late[b] = 0
        /\ execs' = [execs EXCEPT ![b] = @ + 1]
        /\ handlers' = [handlers EXCEPT ![b] = @ + 1]
        /\ UNCHANGED lost
     \/ /\ lost' = [lost EXCEPT ![b] = @ + 1]
        /\ UNCHANGED << execs, handlers >>
  /\ UNCHANGED << late, jobs >>

Worker(b) == Selects(b) \/ Probes(b) \/ Pops(b) \/ Acquires(b) \/ Loads(b)

-----------------------------------------------------------------------------
(* Executions and handlers.                                                *)

BugReleasesTwice(n) == n - 2
Released(n)         == n - 1

ExecLeaves(b) ==
  /\ Alive
  /\ execs[b] > 0
  /\ execs' = [execs EXCEPT ![b] = Released(@)]
  /\ UNCHANGED << main, taskCtx, timer, worker, lost, late, jobs, requests >>

BugDeafToCtx == FALSE
CtxDone      == taskCtx

\* exec leaves at once, its handler goes on until it looks at the context.
ExecCancelled(b) ==
  /\ CtxDone
  /\ ExecLeaves(b)
  /\ UNCHANGED handlers

\* The handler's result, or the timeout or a stop with the handler going on.
ExecEnds(b) ==
  /\ ExecLeaves(b)
  /\ \/ handlers' = [handlers EXCEPT ![b] = @ - 1]
     \/ UNCHANGED handlers

HandlerEnds(b) ==
  /\ Alive
  /\ handlers[b] > execs[b]
  /\ handlers' = [handlers EXCEPT ![b] = @ - 1]
  /\ UNCHANGED << main, taskCtx, timer, worker, execs, lost, late, jobs,
                  requests >>

ProcNext ==
  \/ MainStep \/ Interrupt \/ Request
  \/ \E t \in Timers : Timer(t)
  \/ \E b \in Buckets : \/ Worker(b) \/ ExecCancelled(b)
                         \/ ExecEnds(b) \/ HandlerEnds(b)

ProcSpec == ProcInit /\ [][ProcNext]_procVars

\* Runnable goroutines run, and a select whose ctx.Done stays ready takes it
\* in the end.  A handler may never end and a ttl may outlast the shutdown.
ProcFairness ==
  /\ WF_procVars(MainStep)
  /\ \A t \in Timers : /\ WF_procVars(timer[t] = "send" /\ Timer(t))
                        /\ SF_procVars(Timer(t) /\ timer'[t] = "gone")
  /\ \A b \in Buckets : WF_procVars(Worker(b)) /\ WF_procVars(ExecCancelled(b))

-----------------------------------------------------------------------------
StopReturned == main \in {"http", "exited", "panicked"}

(* Once StopTask has returned, no timer of the process sends a script, no  *)
(* job is popped and no execution begins.  Executions are in no WaitGroup: *)
(* those that still hold a slot may report their result until the exit.    *)
QuietAfterStop ==
  [][StopReturned => /\ \A t \in Timers : timer'[t] # "send"
                     /\ \A b \in Buckets : execs'[b] <= execs[b]
                     /\ jobs' = jobs]_procVars

(* A worker that was blocked on its slots when the shutdown began still    *)
(* pops a job afterwards, but never a second one: the jobs that a shutdown *)
(* finishes as Error without running them are bounded.                     *)
OneLatePop == \A b \in Buckets : late[b] <= 1

(* The shutdown gets through both waits, whatever the handlers and the ttls*)
(* do, unless a worker has lost all of its slots.                          *)
StopEnds ==
  taskCtx ~> (\/ StopReturned
              \/ \E b \in Buckets : lost[b] = MaxWorker)
=============================================================================
