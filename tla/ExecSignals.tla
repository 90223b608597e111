---------------------------- MODULE ExecSignals ----------------------------
(***************************************************************************)
(* One execution of a job on a worker (exec in handleworker.go): the exec  *)
(* goroutine that holds the slot, the goroutine that runs the handler, the *)
(* terminateMonitor goroutine, and the channels between them.  exec and the*)
(* handler receive from the same timeOutChan and terminateChan, so each    *)
(* token reaches only one of them; a closed channel reaches everyone.      *)
(* AsyncQueue has the outcomes of an execution, this module how they come  *)
(* about: ImplementsExecution.                                             *)
(***************************************************************************)
EXTENDS Integers

CONSTANT MaxStops  \* bound on the times the stop flag is set

ASSUME StopsAssumption == MaxStops \in Nat

VARIABLES exec,     \* program counter of exec
          branch,   \* the branch its select took
          handler,  \* program counter of the handler goroutine
          heeds,    \* whether this handler watches its three signals
          monitor,  \* program counter of terminateMonitor
          timeOut,  \* timeOutChan: time.After, one token when it fires
          stop,     \* terminateChan, capacity 1
          finish,   \* finishChan, capacity 1
          res,      \* resChan, capacity 1, with the handler's result
          ctx,      \* whether the task context is cancelled
          flag,     \* the job's field in the terminate hash
          stops,    \* times the flag was set
          outcome,  \* status written by running2Finish
          panicked  \* something was sent on a closed channel, or closed twice

world == << ctx, flag, stops >>
chans == << timeOut, stop, finish, res >>
vars  == << exec, branch, handler, heeds, monitor, chans, world, outcome,
            panicked >>

Results == {"Success", "Error"}
Channel == [tokens : 0..1, closed : BOOLEAN]
Open    == [tokens |-> 0, closed |-> FALSE]

(* Every goroutine is at a point of its code and no channel exceeds its    *)
(* capacity.                                                               *)
TypeOK ==
  /\ exec \in {"select", "stopped", "closed", "result", "written", "signalled",
               "gone"}
  /\ branch \in {"none", "ctx", "timeout", "stop", "result"}
  /\ handler \in {"run", "told", "gone"}
  /\ monitor \in {"poll", "send", "gone"}
  /\ timeOut \in {"armed", "fired", "taken"}
  /\ stop \in Channel /\ finish \in Channel
  /\ res \in [val : Results \cup {"none"}, closed : BOOLEAN]
  /\ stops \in 0..MaxStops
  /\ outcome \in Results \cup {"none", "Terminate"}
  /\ heeds \in BOOLEAN /\ panicked \in BOOLEAN
  /\ ctx \in BOOLEAN /\ flag \in BOOLEAN

\* A retried job may start with its stop flag already set.
Init ==
  /\ exec = "select" /\ branch = "none"
  /\ handler = "run" /\ heeds \in BOOLEAN
  /\ monitor = "poll"
  /\ timeOut = "armed"
  /\ stop = Open /\ finish = Open
  /\ res = [val |-> "none", closed |-> FALSE]
  /\ ctx = FALSE /\ flag \in BOOLEAN /\ stops = 0
  /\ outcome = "none"
  /\ panicked = FALSE

-----------------------------------------------------------------------------
(* The world around the execution: the timer, the shutdown of the process, *)
(* StopJob setting the flag and a new delivery clearing it.                *)

TimerFires ==
  /\ timeOut = "armed"
  /\ timeOut' = "fired"
  /\ UNCHANGED << exec, branch, handler, heeds, monitor, stop, finish, res,
                  world, outcome, panicked >>

World ==
  /\ \/ ~ctx /\ ctx' = TRUE /\ UNCHANGED << flag, stops >>
     \/ ~flag /\ stops < MaxStops /\ flag' = TRUE /\ stops' = stops + 1
        /\ UNCHANGED ctx
     \/ flag /\ flag' = FALSE /\ UNCHANGED << ctx, stops >>
  /\ UNCHANGED << exec, branch, handler, heeds, monitor, chans, outcome,
                  panicked >>

-----------------------------------------------------------------------------
(* The handler goroutine: r <- handler(job.Body, c, to, tm).               *)

Readable(c) == c.tokens = 1 \/ c.closed
Received(c) == IF c.closed THEN c ELSE [c EXCEPT !.tokens = 0]

\* A handler that selects on c, to and tm takes any one that is ready.
HandlerHears ==
  /\ handler = "run" /\ heeds
  /\ \/ ctx /\ UNCHANGED << timeOut, stop >>
     \/ timeOut = "fired" /\ timeOut' = "taken" /\ UNCHANGED stop
     \/ Readable(stop) /\ stop' = Received(stop) /\ UNCHANGED timeOut
  /\ handler' = "told"
  /\ UNCHANGED << exec, branch, heeds, monitor, finish, res, world, outcome,
                  panicked >>

\* It returns nil or an error; a panic of its own is sent as an error.
HandlerReturns ==
  /\ handler \in {"run", "told"}
  /\ handler' = "gone"
  /\ \E r \in Results : res' = [res EXCEPT !.val = r]
  /\ panicked' = (panicked \/ res.closed)
  /\ UNCHANGED << exec, branch, heeds, monitor, timeOut, stop, finish, world,
                  outcome >>

-----------------------------------------------------------------------------
(* terminateMonitor: every 500 ms it reads the flag, and sends once.       *)

BugSendsAgain == "poll"
AfterSend     == "gone"

BugAnyReply == TRUE
FlagFound   == flag

Monitor ==
  /\ \/ /\ monitor = "poll" /\ FlagFound
        /\ monitor' = "send"
        /\ UNCHANGED << stop, finish, panicked >>
     \/ /\ monitor = "send" /\ stop.tokens = 0
        /\ stop' = [stop EXCEPT !.tokens = 1]
        /\ panicked' = (panicked \/ stop.closed)
        /\ monitor' = AfterSend
        /\ UNCHANGED finish
     \/ /\ monitor = "poll" /\ Readable(finish)
        /\ finish' = Received(finish)
        /\ monitor' = "gone"
        /\ UNCHANGED << stop, panicked >>
  /\ UNCHANGED << exec, branch, handler, heeds, timeOut, res, world, outcome >>

-----------------------------------------------------------------------------
(* exec: one branch of the select, then what follows it, and the slot is   *)
(* given back.                                                             *)

BugNoTimer   == FALSE
TimeoutReady == timeOut = "fired"

BugEndsMonitor(c) == [c EXCEPT !.closed = TRUE]

\* A timeout is only logged: nobody tells the monitor.
AfterTimeout(c) == c

Select ==
  /\ exec = "select"
  /\ \/ ctx /\ branch' = "ctx" /\ exec' = "gone" /\ UNCHANGED chans
     \/ /\ TimeoutReady /\ timeOut' = "taken"
        /\ finish' = AfterTimeout(finish)
        /\ branch' = "timeout" /\ exec' = "gone"
        /\ UNCHANGED << stop, res >>
     \/ /\ Readable(stop) /\ stop' = Received(stop)
        /\ branch' = "stop" /\ exec' = "stopped"
        /\ UNCHANGED << timeOut, finish, res >>
     \/ /\ res.val # "none"
        /\ branch' = "result" /\ exec' = "result"
        /\ UNCHANGED chans
  /\ UNCHANGED << handler, heeds, monitor, world, outcome, panicked >>

\* The error of running2Finish is ignored.
Write(st) == outcome' = st \/ UNCHANGED outcome

Closed(c) == [c EXCEPT !.closed = TRUE]

\* close(terminateChan), for a handler that waits on it; then the status.
AfterStop ==
  /\ \/ /\ exec = "stopped" /\ exec' = "closed"
        /\ stop' = Closed(stop)
        /\ panicked' = (panicked \/ stop.closed)
        /\ UNCHANGED outcome
     \/ /\ exec = "closed" /\ exec' = "gone"
        /\ Write("Terminate")
        /\ UNCHANGED << stop, panicked >>
  /\ UNCHANGED << branch, handler, heeds, monitor, timeOut, finish, res, world >>

BugTwoSends(c) == [c EXCEPT !.tokens = 2]
Finished(c)    == [c EXCEPT !.tokens = 1]

BugReturnsEarly == "gone"
AfterWrite      == "written"

\* The status; finishChan <- struct{}{}; close(finishChan), close(resChan).
AfterResult ==
  /\ \/ /\ exec = "result" /\ exec' = AfterWrite
        /\ Write(res.val)
        /\ UNCHANGED << finish, res >>
     \/ /\ exec = "written" /\ exec' = "signalled"
        /\ finish' = Finished(finish)
        /\ UNCHANGED << res, outcome >>
     \/ /\ exec = "signalled" /\ exec' = "gone"
        /\ finish' = Closed(finish) /\ res' = Closed(res)
        /\ UNCHANGED outcome
  /\ UNCHANGED << branch, handler, heeds, monitor, timeOut, stop, world,
                  panicked >>

Exec == Select \/ AfterStop \/ AfterResult

Next == TimerFires \/ World \/ HandlerHears \/ HandlerReturns \/ Monitor \/ Exec

Spec == Init /\ [][Next]_vars

\* Runnable goroutines run, the timer fires, and a handler that watches its
\* signals hears one that stays ready and then returns.  Nothing else obliges
\* a handler to return, a client to stop the job or the process to shut down.
Fairness ==
  /\ WF_vars(TimerFires) /\ WF_vars(Exec) /\ WF_vars(Monitor)
  /\ WF_vars(HandlerHears) /\ WF_vars(handler = "told" /\ HandlerReturns)

-----------------------------------------------------------------------------
(* No interleaving of the three goroutines sends on a closed channel or    *)
(* closes one twice, which would end the whole process: nothing recovers   *)
(* outside the handler goroutine.                                          *)
NoPanic == ~panicked

(* The slot always comes back: exec leaves even when the handler never     *)
(* returns, and even when the handler took the timeout or the stop token   *)
(* that exec was waiting for.                                              *)
SlotFreed == <>(exec = "gone")

(* A handler that watches its signals ends when its job stays stopped,     *)
(* whoever received the single token and even after exec left on its timer.*)
StopReachesHandler == heeds => (<>[]flag => <>(handler = "gone"))

(* An execution that ended with a result or a stop leaves no monitor behind*)
(* that polls Redis every 500 ms.                                          *)
MonitorEnds ==
  (exec = "gone" /\ branch \in {"stop", "result"}) ~> (monitor = "gone")

\* The execution is over when its status is written or its select left it.
Active == exec \in {"select", "stopped", "closed", "result"}

Abstract == INSTANCE Execution WITH
              busy <- Active, told <- Active /\ monitor # "poll",
              written <- outcome, returned <- res.val,
              fired <- timeOut # "armed"

(* However its goroutines interleave, the execution ends once, for one of  *)
(* its four reasons; a timeout or a shutdown writes nothing, a stop needs  *)
(* the flag, and nothing is written once the slot may be free.             *)
ImplementsExecution == Abstract!Spec
=============================================================================
