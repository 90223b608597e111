--------------------------- MODULE Process_proofs ---------------------------
(***************************************************************************)
(* Invariants of the parts of one process that share no state: the channels*)
(* of an execution, the process from its start to its exit, and the id     *)
(* generator.                                                              *)
(***************************************************************************)
EXTENDS ExecSignals, Shutdown, UidSegment, BatchPush, SequenceTheorems, TLAPS

-----------------------------------------------------------------------------
(* ExecSignals: no interleaving of exec, the handler and terminateMonitor  *)
(* sends on a closed channel or closes one twice.                          *)

\* Who has closed or sent on a channel is past the point where it could again.
SignalInv ==
  /\ ~panicked
  /\ handler # "gone" => /\ ~res.closed /\ res.val = "none"
                         /\ exec \notin {"result", "written", "signalled"}
  /\ monitor # "gone" => /\ ~stop.closed /\ stop.tokens = 0
                         /\ exec # "stopped"
  /\ exec \in {"select", "stopped"} => ~stop.closed

SignalIInv == TypeOK /\ SignalInv

LEMMA SignalInit == Init => SignalIInv
<1> SUFFICES ASSUME Init PROVE SignalIInv OBVIOUS
<1>1. Open \in Channel BY DEF Open, Channel
<1>2. [val |-> "none", closed |-> FALSE] \in
        [val : Results \cup {"none"}, closed : BOOLEAN]
      OBVIOUS
<1>3. stops \in 0..MaxStops BY StopsAssumption DEF Init
<1>4. TypeOK BY <1>1, <1>2, <1>3, Zenon DEF Init, TypeOK
<1>5. SignalInv BY DEF Init, SignalInv, Open
<1>6. QED BY <1>4, <1>5 DEF SignalIInv

-----------------------------------------------------------------------------
(* What a receive, a send and a close do to a channel.                     *)

LEMMA ChannelSteps ==
  ASSUME NEW c \in Channel
  PROVE  /\ Received(c) \in Channel
         /\ Received(c).closed = c.closed
         /\ c.tokens = 0 => Received(c).tokens = 0
         /\ [c EXCEPT !.tokens = 1] \in Channel
         /\ [c EXCEPT !.tokens = 1].closed = c.closed
         /\ Closed(c) \in Channel /\ Closed(c).tokens = c.tokens
<1>1. /\ [c EXCEPT !.tokens = 0] \in Channel
      /\ [c EXCEPT !.tokens = 0].closed = c.closed
      /\ [c EXCEPT !.tokens = 0].tokens = 0
      BY DEF Channel
<1>2. /\ [c EXCEPT !.tokens = 1] \in Channel
      /\ [c EXCEPT !.tokens = 1].closed = c.closed
      BY DEF Channel
<1>3. Closed(c) \in Channel /\ Closed(c).tokens = c.tokens
      BY DEF Closed, Channel
<1>4. QED BY <1>1, <1>2, <1>3 DEF Received

LEMMA WorldInv ==
  ASSUME SignalIInv, TimerFires \/ World \/ UNCHANGED vars
  PROVE  SignalIInv'
<1> USE DEF SignalIInv
<1>1. CASE TimerFires
  <2>1. TypeOK' BY <1>1 DEF TypeOK, TimerFires, world
  <2>2. SignalInv' BY <1>1 DEF SignalInv, TimerFires
  <2>3. QED BY <2>1, <2>2
<1>2. CASE World
  <2>1. stops' \in 0..MaxStops
        BY <1>2, StopsAssumption DEF World, TypeOK
  <2>2. ctx' \in BOOLEAN /\ flag' \in BOOLEAN
    <3>1. \/ ctx' = TRUE /\ flag' = flag
          \/ flag' = TRUE /\ ctx' = ctx
          \/ flag' = FALSE /\ ctx' = ctx
          BY <1>2 DEF World
    <3>2. ctx \in BOOLEAN /\ flag \in BOOLEAN BY DEF TypeOK
    <3>3. QED BY <3>1, <3>2
  <2>3. UNCHANGED << exec, branch, handler, heeds, monitor, timeOut, stop,
                     finish, res, outcome, panicked >>
        BY <1>2 DEF World, chans
  <2>4. TypeOK' BY <2>1, <2>2, <2>3 DEF TypeOK
  <2>5. SignalInv' BY <2>3 DEF SignalInv
  <2>6. QED BY <2>4, <2>5
<1>3. CASE UNCHANGED vars
  <2>1. TypeOK' BY <1>3 DEF TypeOK, vars, chans, world
  <2>2. SignalInv' BY <1>3 DEF SignalInv, vars, chans
  <2>3. QED BY <2>1, <2>2
<1>4. QED BY <1>1, <1>2, <1>3

LEMMA HandlerInv ==
  ASSUME SignalIInv, HandlerHears \/ HandlerReturns
  PROVE  SignalIInv'
<1> USE DEF SignalIInv
<1>1. CASE HandlerHears
  <2>1. /\ UNCHANGED << exec, branch, heeds, monitor, finish, res, world, outcome,
                        panicked >>
        /\ handler = "run" /\ handler' = "told"
        /\ timeOut' \in {timeOut, "taken"}
        /\ stop' = stop \/ stop' = Received(stop)
        BY <1>1 DEF HandlerHears
  <2>2. /\ stop' \in Channel /\ stop'.closed = stop.closed
        /\ stop.tokens = 0 => stop'.tokens = 0
        BY <2>1, ChannelSteps DEF TypeOK
  <2>3. TypeOK' BY <2>1, <2>2 DEF TypeOK, world
  <2>4. SignalInv' BY <2>1, <2>2 DEF SignalInv, world
  <2>5. QED BY <2>3, <2>4
<1>2. CASE HandlerReturns
  <2>1. PICK r \in Results : res' = [res EXCEPT !.val = r]
        BY <1>2 DEF HandlerReturns
  <2>2. /\ UNCHANGED << exec, branch, heeds, monitor, timeOut, stop, finish,
                        world, outcome >>
        /\ handler # "gone" /\ handler' = "gone"
        /\ panicked' = (panicked \/ res.closed)
        BY <1>2 DEF HandlerReturns
  <2>3. res' \in [val : Results \cup {"none"}, closed : BOOLEAN]
        BY <2>1 DEF TypeOK
  <2>4. ~res.closed /\ ~panicked BY <2>2 DEF SignalInv
  <2>5. panicked' = FALSE BY <2>2, <2>4
  <2>6. TypeOK' BY <2>2, <2>3, <2>5 DEF TypeOK, world
  <2>7. SignalInv' BY <2>2, <2>5 DEF SignalInv
  <2>8. QED BY <2>6, <2>7
<1>3. QED BY <1>1, <1>2

\* A monitor that is about to send has not sent, so nobody has been stopped.
LEMMA MonitorInv ==
  ASSUME SignalIInv, Monitor
  PROVE  SignalIInv'
<1> USE DEF SignalIInv
<1>1. UNCHANGED << exec, branch, handler, heeds, timeOut, res, world, outcome >>
      BY DEF Monitor
<1>2. CASE monitor = "poll" /\ monitor' = "send" /\ UNCHANGED << stop, finish, panicked >>
  <2>1. TypeOK' BY <1>1, <1>2 DEF TypeOK, world
  <2>2. SignalInv' BY <1>1, <1>2 DEF SignalInv
  <2>3. QED BY <2>1, <2>2
<1>3. CASE /\ monitor = "send"
           /\ stop' = [stop EXCEPT !.tokens = 1]
           /\ panicked' = (panicked \/ stop.closed)
           /\ monitor' = AfterSend
           /\ UNCHANGED finish
  <2>1. ~stop.closed /\ ~panicked /\ exec # "stopped" BY <1>3 DEF SignalInv
  <2>2. panicked' = FALSE /\ monitor' = "gone" BY <1>3, <2>1 DEF AfterSend
  <2>3. stop' \in Channel /\ stop'.closed = stop.closed
        BY <1>3, ChannelSteps DEF TypeOK
  <2>4. TypeOK' BY <1>1, <1>3, <2>2, <2>3 DEF TypeOK, world
  <2>5. SignalInv' BY <1>1, <2>1, <2>2, <2>3 DEF SignalInv
  <2>6. QED BY <2>4, <2>5
<1>4. CASE /\ monitor = "poll" /\ finish' = Received(finish) /\ monitor' = "gone"
           /\ UNCHANGED << stop, panicked >>
  <2>1. finish' \in Channel BY <1>4, ChannelSteps DEF TypeOK
  <2>2. TypeOK' BY <1>1, <1>4, <2>1 DEF TypeOK, world
  <2>3. SignalInv' BY <1>1, <1>4 DEF SignalInv
  <2>4. QED BY <2>2, <2>3
<1>5. QED BY <1>2, <1>3, <1>4 DEF Monitor

LEMMA SelectInv ==
  ASSUME SignalIInv, Select
  PROVE  SignalIInv'
<1> USE DEF SignalIInv
<1>1. /\ exec = "select"
      /\ UNCHANGED << handler, heeds, monitor, world, outcome, panicked >>
      BY DEF Select
<1>2. CASE branch' = "ctx" /\ exec' = "gone" /\ UNCHANGED chans
  <2>1. TypeOK' BY <1>1, <1>2 DEF TypeOK, world, chans
  <2>2. SignalInv' BY <1>1, <1>2 DEF SignalInv, chans
  <2>3. QED BY <2>1, <2>2
<1>3. CASE /\ timeOut' = "taken" /\ finish' = AfterTimeout(finish)
           /\ branch' = "timeout" /\ exec' = "gone"
           /\ UNCHANGED << stop, res >>
  <2>1. TypeOK' BY <1>1, <1>3 DEF TypeOK, world, AfterTimeout
  <2>2. SignalInv' BY <1>1, <1>3 DEF SignalInv
  <2>3. QED BY <2>1, <2>2
<1>4. CASE /\ Readable(stop) /\ stop' = Received(stop)
           /\ branch' = "stop" /\ exec' = "stopped"
           /\ UNCHANGED << timeOut, finish, res >>
  <2>1. ~stop.closed BY <1>1 DEF SignalInv
  <2>2. stop.tokens # 0 BY <1>4, <2>1 DEF Readable
  <2>3. monitor = "gone" BY <2>2 DEF SignalInv
  <2>4. /\ stop' \in Channel /\ stop'.closed = stop.closed
        BY <1>4, ChannelSteps DEF TypeOK
  <2>5. TypeOK' BY <1>1, <1>4, <2>4 DEF TypeOK, world
  <2>6. SignalInv' BY <1>1, <1>4, <2>1, <2>3, <2>4 DEF SignalInv
  <2>7. QED BY <2>5, <2>6
<1>5. CASE /\ res.val # "none" /\ branch' = "result" /\ exec' = "result"
           /\ UNCHANGED chans
  <2>1. TypeOK' BY <1>1, <1>5 DEF TypeOK, world, chans
  <2>2. SignalInv' BY <1>1, <1>5 DEF SignalInv, chans
  <2>3. QED BY <2>1, <2>2
<1>6. QED BY <1>2, <1>3, <1>4, <1>5 DEF Select

LEMMA AfterStopInv ==
  ASSUME SignalIInv, AfterStop
  PROVE  SignalIInv'
<1> USE DEF SignalIInv
<1>1. UNCHANGED << branch, handler, heeds, monitor, timeOut, finish, res, world >>
      BY DEF AfterStop
<1>2. CASE /\ exec = "stopped" /\ exec' = "closed"
           /\ stop' = Closed(stop)
           /\ panicked' = (panicked \/ stop.closed)
           /\ UNCHANGED outcome
  <2>1. ~stop.closed /\ ~panicked /\ monitor = "gone" BY <1>2 DEF SignalInv
  <2>2. panicked' = FALSE BY <1>2, <2>1
  <2>3. stop' \in Channel BY <1>2, ChannelSteps DEF TypeOK
  <2>4. TypeOK' BY <1>1, <1>2, <2>2, <2>3 DEF TypeOK, world
  <2>5. SignalInv' BY <1>1, <1>2, <2>1, <2>2 DEF SignalInv
  <2>6. QED BY <2>4, <2>5
<1>3. CASE /\ exec = "closed" /\ exec' = "gone" /\ Write("Terminate")
           /\ UNCHANGED << stop, panicked >>
  <2>1. TypeOK' BY <1>1, <1>3 DEF TypeOK, world, Write
  <2>2. SignalInv' BY <1>1, <1>3 DEF SignalInv
  <2>3. QED BY <2>1, <2>2
<1>4. QED BY <1>2, <1>3 DEF AfterStop

\* The result came from a handler that has returned, so closing resChan is safe.
LEMMA AfterResultInv ==
  ASSUME SignalIInv, AfterResult
  PROVE  SignalIInv'
<1> USE DEF SignalIInv
<1>1. /\ UNCHANGED << branch, handler, heeds, monitor, timeOut, stop, world,
                      panicked >>
      /\ exec \in {"result", "written", "signalled"}
      /\ exec' \in {"written", "signalled", "gone"}
      BY DEF AfterResult, AfterWrite
<1>2. handler = "gone" BY <1>1 DEF SignalInv
<1>3. SignalInv' BY <1>1, <1>2 DEF SignalInv
<1>4. finish' \in Channel
  <2>1. finish' = finish \/ finish' = Finished(finish) \/ finish' = Closed(finish)
        BY DEF AfterResult
  <2>2. QED BY <2>1, ChannelSteps DEF Finished, TypeOK
<1>5. res' \in [val : Results \cup {"none"}, closed : BOOLEAN]
  <2>1. res' = res \/ res' = Closed(res) BY DEF AfterResult
  <2>2. QED BY <2>1 DEF Closed, TypeOK
<1>6. outcome' \in Results \cup {"none", "Terminate"}
      BY DEF AfterResult, Write, TypeOK
<1>7. TypeOK' BY <1>1, <1>4, <1>5, <1>6 DEF TypeOK, world
<1>8. QED BY <1>3, <1>7

LEMMA SignalNext == SignalIInv /\ [Next]_vars => SignalIInv'
<1> SUFFICES ASSUME SignalIInv, [Next]_vars PROVE SignalIInv' OBVIOUS
<1>1. QED BY WorldInv, HandlerInv, MonitorInv, SelectInv, AfterStopInv,
             AfterResultInv DEF Next, Exec

-----------------------------------------------------------------------------
(* Every goroutine stays at a point of its code, and no channel ever holds *)
(* more than its capacity.                                                 *)
THEOREM SignalsTyped == Spec => []TypeOK
<1>1. SignalIInv => TypeOK BY DEF SignalIInv
<1>2. QED BY <1>1, SignalInit, SignalNext, PTL DEF Spec

(* exec, the handler and terminateMonitor never bring the process down by a*)
(* send on a closed channel or a second close, in whatever order they run. *)
THEOREM NeverPanics == Spec => []NoPanic
<1>1. SignalIInv => NoPanic BY DEF SignalIInv, SignalInv, NoPanic
<1>2. QED BY <1>1, SignalInit, SignalNext, PTL DEF Spec

-----------------------------------------------------------------------------
(* ExecSignals implements Execution: an execution that is not over has not *)
(* touched finishChan, so its monitor cannot leave without having seen the *)
(* flag; its result is there before it is written, and its monitor is gone *)
(* before the end of a stop is.                                            *)

OngoingInv ==
  /\ Active => finish = Open
  /\ exec = "result" => res.val # "none"
  /\ exec = "closed" => monitor = "gone"

ExecIInv == SignalIInv /\ OngoingInv

LEMMA OngoingInit == Init => OngoingInv
BY DEF Init, OngoingInv, Open, Active

LEMMA OngoingNext == ExecIInv /\ [Next]_vars => OngoingInv'
<1> SUFFICES ASSUME SignalIInv, OngoingInv, [Next]_vars PROVE OngoingInv'
    BY DEF ExecIInv
<1>1. CASE TimerFires
      BY <1>1 DEF TimerFires, OngoingInv, Active
<1>2. CASE World \/ UNCHANGED vars
      BY <1>2 DEF World, vars, chans, OngoingInv, Active
<1>3. CASE HandlerHears
      BY <1>3 DEF HandlerHears, OngoingInv, Active
<1>4. CASE HandlerReturns
  <2>1. PICK r \in Results : res' = [res EXCEPT !.val = r]
        BY <1>4 DEF HandlerReturns
  <2>2. res'.val # "none"
        BY <2>1 DEF SignalIInv, TypeOK, Results
  <2>3. UNCHANGED << exec, monitor, finish >> BY <1>4 DEF HandlerReturns
  <2>4. QED BY <2>2, <2>3 DEF OngoingInv, Active
<1>5. CASE Monitor
  <2>1. UNCHANGED << exec, res >> BY <1>5 DEF Monitor
  <2>2. monitor # "gone" BY <1>5 DEF Monitor
  <2>3. exec # "closed" BY <2>2 DEF OngoingInv
  <2>4. UNCHANGED finish \/ Readable(finish) BY <1>5 DEF Monitor
  <2>5. Active => finish' = Open
        BY <2>4 DEF OngoingInv, Open, Readable
  <2>6. QED BY <2>1, <2>3, <2>5 DEF OngoingInv, Active
<1>6. CASE Select
  <2>1. exec = "select" /\ UNCHANGED << monitor >> BY <1>6 DEF Select
  <2>2. finish = Open BY <2>1 DEF OngoingInv, Active
  <2>3. \/ exec' = "result" /\ res.val # "none" /\ UNCHANGED chans
        \/ exec' = "stopped" /\ UNCHANGED finish
        \/ exec' = "gone"
        BY <1>6 DEF Select
  <2>4. QED BY <2>2, <2>3 DEF OngoingInv, Active, chans
<1>7. CASE AfterStop
  <2>1. UNCHANGED << monitor, finish >> BY <1>7 DEF AfterStop
  <2>2. \/ exec = "stopped" /\ exec' = "closed"
        \/ exec' = "gone"
        BY <1>7 DEF AfterStop
  <2>3. exec = "stopped" => monitor = "gone"
        BY DEF SignalIInv, SignalInv
  <2>4. QED BY <2>1, <2>2, <2>3 DEF OngoingInv, Active
<1>8. CASE AfterResult
  <2>1. exec' \in {"written", "signalled", "gone"}
        BY <1>8 DEF AfterResult, AfterWrite
  <2>2. QED BY <2>1 DEF OngoingInv, Active
<1>9. QED BY <1>1, <1>2, <1>3, <1>4, <1>5, <1>6, <1>7, <1>8 DEF Next, Exec

LEMMA ExecInvariance == Spec => []ExecIInv
<1>1. Init => ExecIInv BY SignalInit, OngoingInit DEF ExecIInv
<1>2. ExecIInv /\ [Next]_vars => ExecIInv'
      BY SignalNext, OngoingNext DEF ExecIInv
<1>3. QED BY <1>1, <1>2, PTL DEF Spec

\* Whatever leaves the execution's own state alone is a step of the world.
LEMMA AsWorld ==
  ASSUME Active' <=> Active,
         Active => (monitor' = "poll" <=> monitor = "poll"),
         outcome' = outcome,
         res.val # "none" => res'.val = res.val,
         timeOut # "armed" => timeOut' # "armed",
         ctx => ctx'
  PROVE  Abstract!World
<1>1. Active' = Active OBVIOUS
<1>2. (Active /\ monitor # "poll")' = (Active /\ monitor # "poll") OBVIOUS
<1>3. QED BY <1>1, <1>2 DEF Abstract!World, Abstract!Nothing

\* The steps of the timer, the process and the handler.
LEMMA WorldRefines ==
  ASSUME ExecIInv, TimerFires \/ World \/ HandlerHears \/ HandlerReturns
                   \/ UNCHANGED vars
  PROVE  Abstract!World
<1>1. exec' = exec /\ monitor' = monitor /\ outcome' = outcome
      BY DEF TimerFires, World, HandlerHears, HandlerReturns, vars
<1>2. timeOut # "armed" => timeOut' # "armed"
      BY DEF TimerFires, World, HandlerHears, HandlerReturns, vars, chans
<1>3. ctx => ctx'
  <2>1. CASE World BY <2>1 DEF World
  <2>2. CASE ~World
        BY <2>2 DEF TimerFires, HandlerHears, HandlerReturns, vars, world
  <2>3. QED BY <2>1, <2>2
<1>4. res.val # "none" => res' = res
  <2>1. CASE HandlerReturns
        BY <2>1 DEF HandlerReturns, ExecIInv, SignalIInv, SignalInv, TypeOK
  <2>2. CASE ~HandlerReturns
        BY <2>2 DEF TimerFires, World, HandlerHears, vars, chans
  <2>3. QED BY <2>1, <2>2
<1>5. Active' <=> Active BY <1>1 DEF Active
<1>6. QED BY <1>1, <1>2, <1>3, <1>4, <1>5, AsWorld

\* The monitor: to have seen the flag is its only step that shows, and it can
\* only be told to leave when the execution is over.
LEMMA MonitorRefines ==
  ASSUME ExecIInv, Monitor
  PROVE  Abstract!Next
<1>1. UNCHANGED << exec, timeOut, res, world, outcome >> BY DEF Monitor
<1>2. (Active' <=> Active) /\ UNCHANGED << ctx, flag >>
      BY <1>1 DEF Active, world
<1>3. CASE Active /\ monitor = "poll" /\ FlagFound /\ monitor' = "send"
  <2>1. flag BY <1>3 DEF FlagFound
  <2>2. Active' = Active BY <1>1 DEF Active
  <2>3. (timeOut # "armed")' = (timeOut # "armed") BY <1>1
  <2>4. UNCHANGED << res.val, flag, ctx, outcome >> BY <1>1, <1>2
  <2>5. Abstract!Monitor
        BY <1>3, <1>2, <2>1, <2>2, <2>3, <2>4
           DEF Abstract!Monitor, Abstract!world
  <2>6. QED BY <2>5 DEF Abstract!Next
<1>4. CASE ~Active \/ (monitor = "send" /\ monitor' = AfterSend)
  <2>1. Active => (monitor' = "poll" <=> monitor = "poll")
        BY <1>4 DEF AfterSend
  <2>2. Abstract!World BY <1>1, <1>2, <2>1, AsWorld
  <2>3. QED BY <2>2 DEF Abstract!Next
<1>5. Active => ~Readable(finish)
      BY DEF ExecIInv, OngoingInv, Open, Readable
<1>6. QED BY <1>3, <1>4, <1>5 DEF Monitor

\* What ends an execution: it is over, and its world is as it was.
LEMMA AsEnd ==
  ASSUME NEW status, Active, ~Active',
         outcome' = status \/ outcome' = outcome,
         UNCHANGED << ctx, flag, res >>,
         timeOut' # "armed" <=> timeOut # "armed"
  PROVE  Abstract!Ends(status)
<1>1. (timeOut # "armed")' = (timeOut # "armed") OBVIOUS
<1>2. UNCHANGED << res.val, flag, ctx >> OBVIOUS
<1>3. outcome' \in {status, outcome} OBVIOUS
<1>4. QED BY <1>1, <1>2, <1>3 DEF Abstract!Ends, Abstract!world

\* exec's select: the shutdown and the timer end the execution on the spot.
LEMMA SelectRefines ==
  ASSUME ExecIInv, Select
  PROVE  Abstract!Next
<1>1. exec = "select" /\ UNCHANGED << monitor, world, outcome >> BY DEF Select
<1>2. Active /\ UNCHANGED << ctx, flag >> BY <1>1 DEF Active, world
<1>3. CASE ctx /\ exec' = "gone" /\ UNCHANGED chans
  <2>1. ~Active' BY <1>3 DEF Active
  <2>2. UNCHANGED << res, timeOut >> BY <1>3 DEF chans
  <2>3. Abstract!Ends(outcome) BY <1>1, <1>2, <2>1, <2>2, AsEnd
  <2>4. QED BY <1>3, <2>3 DEF Abstract!Shutdown, Abstract!Next
<1>4. CASE TimeoutReady /\ timeOut' = "taken" /\ exec' = "gone" /\ UNCHANGED res
  <2>1. ~Active' BY <1>4 DEF Active
  <2>2. timeOut # "armed" /\ timeOut' # "armed" BY <1>4 DEF TimeoutReady
  <2>3. Abstract!Ends(outcome) BY <1>1, <1>2, <1>4, <2>1, <2>2, AsEnd
  <2>4. QED BY <2>2, <2>3 DEF Abstract!Timeout, Abstract!Next
<1>5. CASE exec' \in {"stopped", "result"} /\ UNCHANGED << timeOut, res >>
  <2>1. Active' BY <1>5 DEF Active
  <2>2. Abstract!World BY <1>1, <1>2, <1>5, <2>1, AsWorld
  <2>3. QED BY <2>2 DEF Abstract!Next
<1>6. QED BY <1>3, <1>4, <1>5 DEF Select, chans

\* A stop shows when its status is written, and the monitor is what told exec.
LEMMA AfterStopRefines ==
  ASSUME ExecIInv, AfterStop
  PROVE  Abstract!Next
<1>1. UNCHANGED << monitor, timeOut, res, world >> BY DEF AfterStop
<1>2. UNCHANGED << ctx, flag >> BY <1>1 DEF world
<1>3. CASE exec = "stopped" /\ exec' = "closed" /\ UNCHANGED outcome
  <2>1. Active /\ Active' BY <1>3 DEF Active
  <2>2. Abstract!World BY <1>1, <1>2, <1>3, <2>1, AsWorld
  <2>3. QED BY <2>2 DEF Abstract!Next
<1>4. CASE exec = "closed" /\ exec' = "gone" /\ Write("Terminate")
  <2>1. Active /\ ~Active' BY <1>4 DEF Active
  <2>2. monitor # "poll" BY <1>4 DEF ExecIInv, OngoingInv
  <2>3. Abstract!Ends("Terminate")
        BY <1>1, <1>2, <1>4, <2>1, AsEnd DEF Write
  <2>4. QED BY <2>1, <2>2, <2>3 DEF Abstract!Terminate, Abstract!Next
<1>5. QED BY <1>3, <1>4 DEF AfterStop

\* A result shows when it is written; what exec does after that does not.
LEMMA AfterResultRefines ==
  ASSUME ExecIInv, AfterResult
  PROVE  Abstract!Next
<1>1. UNCHANGED << monitor, timeOut, world >> BY DEF AfterResult
<1>2. UNCHANGED << ctx, flag >> BY <1>1 DEF world
<1>3. CASE exec = "result" /\ exec' = AfterWrite /\ Write(res.val) /\ UNCHANGED res
  <2>1. Active /\ ~Active' BY <1>3 DEF Active, AfterWrite
  <2>2. res.val # "none" BY <1>3 DEF ExecIInv, OngoingInv
  <2>3. Abstract!Ends(res.val)
        BY <1>1, <1>2, <1>3, <2>1, AsEnd DEF Write
  <2>4. QED BY <2>2, <2>3 DEF Abstract!Result, Abstract!Nothing, Abstract!Next
<1>4. CASE /\ exec \in {"written", "signalled"} /\ exec' \in {"signalled", "gone"}
           /\ res' = res \/ res' = Closed(res)
           /\ UNCHANGED outcome
  <2>1. ~Active /\ ~Active' BY <1>4 DEF Active
  <2>2. res'.val = res.val
        BY <1>4 DEF Closed, ExecIInv, SignalIInv, TypeOK
  <2>3. Abstract!World BY <1>1, <1>2, <1>4, <2>1, <2>2, AsWorld
  <2>4. QED BY <2>3 DEF Abstract!Next
<1>5. QED BY <1>3, <1>4 DEF AfterResult

(* The goroutines and channels of exec implement the execution that        *)
(* AsyncQueue has in its slots, in whatever order they run: it ends once,  *)
(* by its result, a stop that was asked for, its timer or the shutdown, the*)
(* last two write nothing, and no status is written after its end.         *)
THEOREM ExecutionRefined == Spec => ImplementsExecution
<1>1. Init => Abstract!Init
      BY DEF Init, Abstract!Init, Abstract!Nothing
<1>2. ExecIInv /\ [Next]_vars => [Abstract!Next]_Abstract!execVars
  <2> SUFFICES ASSUME ExecIInv, [Next]_vars PROVE Abstract!Next OBVIOUS
  <2>1. CASE TimerFires \/ World \/ HandlerHears \/ HandlerReturns \/ UNCHANGED vars
        BY <2>1, WorldRefines DEF Abstract!Next
  <2>2. CASE Monitor BY <2>2, MonitorRefines
  <2>3. CASE Exec
        BY <2>3, SelectRefines, AfterStopRefines, AfterResultRefines DEF Exec
  <2>4. QED BY <2>1, <2>2, <2>3 DEF Next
<1>3. QED BY <1>1, <1>2, ExecInvariance, PTL
          DEF Spec, ImplementsExecution, Abstract!Spec

-----------------------------------------------------------------------------
(* Shutdown: what StopTask leaves behind, for any number of buckets, timers*)
(* and slots and whatever the executions do.                               *)

\* How far the main goroutine is tells who is still there; a worker that has
\* passed its select since the cancellation has not popped since.
StopInv ==
  /\ taskCtx <=> main \notin {"boot", "serve", "sleep"}
  /\ StopReturned \/ main = "consumers" => \A t \in Timers : timer[t] = "gone"
  /\ StopReturned => \A b \in Buckets : worker[b] = "gone"
  /\ \A b \in Buckets :
       /\ handlers[b] >= execs[b]
       /\ late[b] <= 1
       /\ ~taskCtx \/ worker[b] \in {"probe", "drain", "pop"} => late[b] = 0

StopIInv == ProcTypeOK /\ StopInv

LEMMA StopInit == ProcInit => StopIInv
<1> SUFFICES ASSUME ProcInit PROVE StopIInv OBVIOUS
<1> USE ProcessAssumption DEF ProcInit
<1>1. jobs \in 0..MaxJobs /\ requests \in 0..MaxRequests OBVIOUS
<1>2. \A b \in Buckets : Taken(b) <= MaxWorker
  <2> SUFFICES ASSUME NEW b \in Buckets PROVE Taken(b) <= MaxWorker OBVIOUS
  <2>1. execs[b] = 0 /\ lost[b] = 0 /\ worker[b] = "off" OBVIOUS
  <2> HIDE DEF ProcInit
  <2>2. QED BY <2>1 DEF Taken
<1>3. /\ timer \in [Timers -> {"off", "select", "send", "gone"}]
      /\ worker \in [Buckets -> {"off", "select", "probe", "drain", "pop",
                                 "acquire", "load", "gone"}]
      /\ execs \in [Buckets -> Nat] /\ lost \in [Buckets -> Nat]
      /\ handlers \in [Buckets -> Nat] /\ late \in [Buckets -> Nat]
      OBVIOUS
<1>4. main = "boot" /\ taskCtx \in BOOLEAN OBVIOUS
<1>5. ProcTypeOK BY ONLY <1>1, <1>2, <1>3, <1>4, Zenon DEF ProcTypeOK
<1>6. StopInv BY DEF StopInv, StopReturned
<1>7. QED BY <1>5, <1>6 DEF StopIInv

-----------------------------------------------------------------------------
(* The main goroutine.                                                     *)

LEMMA MainInv ==
  ASSUME StopIInv, MainStep \/ Interrupt
  PROVE  StopIInv'
<1> USE DEF StopIInv
<1>1. UNCHANGED << execs, lost, handlers, late, jobs, requests >>
      BY DEF MainStep, Interrupt, RunTask, TaskCancel, WaitProducers,
             WaitConsumers, Exit, Main
<1>2. CASE RunTask
  <2>1. /\ main = "boot" /\ main' = "serve" /\ UNCHANGED taskCtx
        /\ timer' = [t \in Timers |-> "select"]
        /\ worker' = [b \in Buckets |-> "select"]
        BY <1>2 DEF RunTask, Main
  <2>2. \A b \in Buckets : worker'[b] = "select" BY <2>1
  <2>3. \A b \in Buckets : Taken(b)' <= MaxWorker
        BY <1>1, <2>2, ProcessAssumption DEF ProcTypeOK, Taken
  <2>4. ProcTypeOK' BY <1>1, <2>1, <2>3 DEF ProcTypeOK
  <2>5. StopInv' BY <1>1, <2>1, <2>2 DEF StopInv, StopReturned
  <2>6. QED BY <2>4, <2>5
<1>3. CASE ~RunTask
  <2>1. UNCHANGED << timer, worker >>
        BY <1>3 DEF MainStep, Interrupt, TaskCancel, WaitProducers,
                    WaitConsumers, Exit
  <2>2. \A b \in Buckets : Taken(b)' = Taken(b) BY <1>1, <2>1 DEF Taken
  <2>3. /\ \/ main = "serve" /\ main' = "sleep" /\ UNCHANGED taskCtx
           \/ main = "sleep" /\ main' = "producers" /\ taskCtx' = TRUE
           \/ /\ main = "producers" /\ main' = "consumers" /\ UNCHANGED taskCtx
              /\ AllGone(timer)
           \/ /\ main = "consumers" /\ main' = "http" /\ UNCHANGED taskCtx
              /\ AllGone(worker)
           \/ main = "http" /\ main' \in {"exited", "panicked"} /\ UNCHANGED taskCtx
        BY <1>3 DEF MainStep, Interrupt, TaskCancel, WaitProducers,
                    WaitConsumers, Exit, Main
  <2>4. ProcTypeOK' BY <1>1, <2>1, <2>2, <2>3 DEF ProcTypeOK
  <2>5. /\ AllGone(timer) => \A t \in Timers : timer[t] = "gone"
        /\ AllGone(worker) => \A b \in Buckets : worker[b] = "gone"
        BY DEF AllGone, ProcTypeOK
  <2>6. StopInv' BY <1>1, <2>1, <2>3, <2>5 DEF StopInv, StopReturned
  <2>7. QED BY <2>4, <2>6
<1>4. QED BY <1>2, <1>3

LEMMA RequestInv ==
  ASSUME StopIInv, Request \/ UNCHANGED procVars
  PROVE  StopIInv'
<1>1. /\ UNCHANGED << main, taskCtx, timer, worker, execs, lost, handlers,
                      late, jobs >>
      /\ requests' \in 0..MaxRequests
      BY ProcessAssumption DEF StopIInv, ProcTypeOK, Request, Alive, procVars
<1>2. ProcTypeOK' BY <1>1 DEF StopIInv, ProcTypeOK, Taken
<1>3. StopInv' BY <1>1 DEF StopIInv, StopInv, StopReturned
<1>4. QED BY <1>2, <1>3 DEF StopIInv

LEMMA TimerInv ==
  ASSUME StopIInv, NEW t \in Timers, Timer(t)
  PROVE  StopIInv'
<1> USE DEF StopIInv
<1>1. /\ UNCHANGED << main, taskCtx, worker, execs, lost, handlers, late,
                      jobs, requests >>
      /\ timer[t] # "gone"
      /\ \E pc \in {"send", "select", "gone"} : timer' = [timer EXCEPT ![t] = pc]
      BY DEF Timer
<1>2. ProcTypeOK' BY <1>1 DEF ProcTypeOK, Taken
<1>3. StopInv' BY <1>1 DEF StopInv, StopReturned, ProcTypeOK
<1>4. QED BY <1>2, <1>3

-----------------------------------------------------------------------------
(* A worker: one round of its loop.                                        *)

\* A step of one worker that keeps its slots and the count of late jobs.
LEMMA WorkerStepInv ==
  ASSUME StopIInv, NEW b \in Buckets, NEW from, NEW to, WorkerGoes(b, from, to),
         from # "gone",
         to \in {"select", "probe", "drain", "pop", "acquire", "load", "gone"},
         execs' \in [Buckets -> Nat], lost' \in [Buckets -> Nat],
         handlers' \in [Buckets -> Nat], late' \in [Buckets -> Nat],
         jobs' \in 0..MaxJobs,
         \A c \in Buckets \ {b} :
           UNCHANGED << execs[c], lost[c], handlers[c], late[c] >>,
         Taken(b)' <= MaxWorker, handlers'[b] >= execs'[b], late'[b] <= 1,
         ~taskCtx \/ to \in {"probe", "drain", "pop"} => late'[b] = 0
  PROVE  StopIInv'
<1> USE DEF StopIInv
<1>1. /\ worker[b] = from /\ worker' = [worker EXCEPT ![b] = to]
      /\ UNCHANGED << main, taskCtx, timer, requests >>
      BY DEF WorkerGoes
<1>2. /\ worker'[b] = to
      /\ \A c \in Buckets \ {b} : worker'[c] = worker[c]
      BY <1>1 DEF ProcTypeOK
<1>3. \A c \in Buckets \ {b} : Taken(c)' = Taken(c) BY <1>2 DEF Taken
<1>4. ProcTypeOK' BY <1>1, <1>3 DEF ProcTypeOK
<1>5. StopInv' BY <1>1, <1>2 DEF StopInv, StopReturned
<1>6. QED BY <1>4, <1>5

LEMMA WorkerInv ==
  ASSUME StopIInv, NEW b \in Buckets, Worker(b)
  PROVE  StopIInv'
<1> USE DEF StopIInv
<1>1. /\ ProcTypeOK /\ MaxWorker \in Nat \ {0} /\ Taken(b) <= MaxWorker
      /\ execs[b] \in Nat /\ lost[b] \in Nat /\ handlers[b] \in Nat
      /\ late[b] \in Nat /\ late[b] <= 1 /\ handlers[b] >= execs[b]
      /\ ~taskCtx \/ worker[b] \in {"probe", "drain", "pop"} => late[b] = 0
      BY ProcessAssumption DEF ProcTypeOK, StopInv
<1>2. ASSUME NEW from, NEW to, WorkerGoes(b, from, to)
      PROVE  worker[b] = from /\ worker'[b] = to
      BY <1>1, <1>2 DEF WorkerGoes, ProcTypeOK
<1>3. CASE Selects(b)
  <2>1. UNCHANGED << execs, lost, handlers, late, jobs >> BY <1>3 DEF Selects
  <2>2. CASE ~taskCtx /\ WorkerGoes(b, "select", "probe")
    <3>1. Taken(b)' <= MaxWorker BY <1>1, <1>2, <2>1, <2>2 DEF Taken
    <3>2. QED BY <1>1, <2>1, <2>2, <3>1, WorkerStepInv DEF ProcTypeOK
  <2>3. CASE taskCtx /\ WorkerGoes(b, "select", "gone")
    <3>1. Taken(b)' <= MaxWorker BY <1>1, <1>2, <2>1, <2>3 DEF Taken
    <3>2. QED BY <1>1, <2>1, <2>3, <3>1, WorkerStepInv DEF ProcTypeOK
  <2>4. QED BY <1>3, <2>2, <2>3 DEF Selects
<1>4. CASE Probes(b)
  <2>1. UNCHANGED << execs, lost, handlers, late, jobs >> BY <1>4 DEF Probes
  <2>2. CASE Taken(b) < MaxWorker /\ WorkerGoes(b, "probe", "drain")
    <3>1. worker[b] = "probe" /\ worker'[b] = "drain" BY <1>2, <2>2
    <3>2. Taken(b)' <= MaxWorker BY <1>1, <2>1, <2>2, <3>1 DEF Taken
    <3>3. QED BY <1>1, <2>1, <2>2, <3>1, <3>2, WorkerStepInv DEF ProcTypeOK
  <2>3. CASE WorkerGoes(b, "drain", "pop")
    <3>1. worker[b] = "drain" /\ worker'[b] = "pop" BY <1>2, <2>3
    <3>2. Taken(b)' <= MaxWorker BY <1>1, <2>1, <3>1 DEF Taken
    <3>3. QED BY <1>1, <2>1, <2>3, <3>1, <3>2, WorkerStepInv DEF ProcTypeOK
  <2>4. QED BY <1>4, <2>2, <2>3 DEF Probes
<1>5. CASE Pops(b)
  <2>1. UNCHANGED << execs, lost, handlers >> BY <1>5 DEF Pops
  <2>2. CASE WorkerGoes(b, "pop", "select") /\ UNCHANGED << late, jobs >>
    <3>1. worker[b] = "pop" /\ worker'[b] = "select" BY <1>2, <2>2
    <3>2. Taken(b)' <= MaxWorker BY <1>1, <2>1, <3>1 DEF Taken
    <3>3. QED BY <1>1, <2>1, <2>2, <3>1, <3>2, WorkerStepInv DEF ProcTypeOK
  <2>3. CASE /\ jobs < MaxJobs /\ WorkerGoes(b, "pop", "acquire")
             /\ jobs' = jobs + 1
             /\ late' = IF taskCtx THEN [late EXCEPT ![b] = @ + 1] ELSE late
    <3>1. worker[b] = "pop" /\ worker'[b] = "acquire" BY <1>2, <2>3
    <3>2. Taken(b)' <= MaxWorker BY <1>1, <2>1, <3>1 DEF Taken
    <3>3. late[b] = 0 /\ jobs' \in 0..MaxJobs
          BY <1>1, <2>3, <3>1, ProcessAssumption DEF ProcTypeOK
    <3>4. /\ late' \in [Buckets -> Nat] /\ late'[b] <= 1
          /\ ~taskCtx => late'[b] = 0
          /\ \A c \in Buckets \ {b} : late'[c] = late[c]
      <4>1. CASE taskCtx BY <1>1, <2>3, <3>3, <4>1 DEF ProcTypeOK
      <4>2. CASE ~taskCtx BY <1>1, <2>3, <3>3, <4>2 DEF ProcTypeOK
      <4>3. QED BY <4>1, <4>2
    <3>5. QED BY <1>1, <2>1, <2>3, <3>1, <3>2, <3>3, <3>4, WorkerStepInv DEF ProcTypeOK
  <2>4. QED BY <1>5, <2>2, <2>3 DEF Pops
<1>6. CASE Acquires(b)
  <2>1. /\ Taken(b) < MaxWorker /\ WorkerGoes(b, "acquire", "load")
        /\ UNCHANGED << execs, lost, handlers, late, jobs >>
        BY <1>6 DEF Acquires
  <2>2. worker[b] = "acquire" /\ worker'[b] = "load" BY <1>2, <2>1
  <2>3. Taken(b)' <= MaxWorker BY <1>1, <2>1, <2>2 DEF Taken
  <2>4. QED BY <1>1, <2>1, <2>2, <2>3, WorkerStepInv DEF ProcTypeOK
<1>7. CASE Loads(b)
  <2>1. WorkerGoes(b, "load", "select") /\ UNCHANGED << late, jobs >>
        BY <1>7 DEF Loads
  <2>2. worker[b] = "load" /\ worker'[b] = "select" BY <1>2, <2>1
  <2>3. CASE /\ execs' = [execs EXCEPT ![b] = @ + 1]
             /\ handlers' = [handlers EXCEPT ![b] = @ + 1]
             /\ UNCHANGED lost
    <3>1. /\ execs' \in [Buckets -> Nat] /\ execs'[b] = execs[b] + 1
          /\ handlers' \in [Buckets -> Nat] /\ handlers'[b] = handlers[b] + 1
          /\ \A c \in Buckets \ {b} : execs'[c] = execs[c] /\ handlers'[c] = handlers[c]
          BY <1>1, <2>3 DEF ProcTypeOK
    <3>2. Taken(b)' <= MaxWorker BY <1>1, <2>2, <2>3, <3>1 DEF Taken
    <3>3. QED BY <1>1, <2>1, <2>2, <2>3, <3>1, <3>2, WorkerStepInv DEF ProcTypeOK
  <2>4. CASE lost' = [lost EXCEPT ![b] = @ + 1] /\ UNCHANGED << execs,
                                                                handlers >>
    <3>1. /\ lost' \in [Buckets -> Nat] /\ lost'[b] = lost[b] + 1
          /\ \A c \in Buckets \ {b} : lost'[c] = lost[c]
          BY <1>1, <2>4 DEF ProcTypeOK
    <3>2. Taken(b)' <= MaxWorker BY <1>1, <2>2, <2>4, <3>1 DEF Taken
    <3>3. QED BY <1>1, <2>1, <2>2, <2>4, <3>1, <3>2, WorkerStepInv DEF ProcTypeOK
  <2>5. QED BY <1>7, <2>3, <2>4 DEF Loads
<1>8. QED BY <1>3, <1>4, <1>5, <1>6, <1>7 DEF Worker

-----------------------------------------------------------------------------
(* Executions and handlers.                                                *)

LEMMA ExecInv ==
  ASSUME StopIInv, NEW b \in Buckets, ExecCancelled(b) \/ ExecEnds(b) \/ HandlerEnds(b)
  PROVE  StopIInv'
<1> USE DEF StopIInv
<1>1. UNCHANGED << main, taskCtx, timer, worker, lost, late, jobs, requests >>
      BY DEF ExecCancelled, ExecEnds, HandlerEnds, ExecLeaves
<1>2. /\ execs[b] \in Nat /\ handlers[b] \in Nat /\ handlers[b] >= execs[b]
      BY DEF ProcTypeOK, StopInv
<1>3. \/ execs' = [execs EXCEPT ![b] = @ - 1] /\ execs[b] > 0 /\ UNCHANGED handlers
      \/ /\ execs' = [execs EXCEPT ![b] = @ - 1] /\ execs[b] > 0
         /\ handlers' = [handlers EXCEPT ![b] = @ - 1]
      \/ /\ UNCHANGED execs /\ handlers[b] > execs[b]
         /\ handlers' = [handlers EXCEPT ![b] = @ - 1]
      BY DEF ExecCancelled, ExecEnds, HandlerEnds, ExecLeaves, Released
<1>4. /\ execs' \in [Buckets -> Nat] /\ handlers' \in [Buckets -> Nat]
      /\ \A c \in Buckets : execs'[c] <= execs[c] /\ handlers'[c] >= execs'[c]
  <2>1. CASE execs' = [execs EXCEPT ![b] = @ - 1] /\ execs[b] > 0 /\ UNCHANGED handlers
        BY <1>2, <2>1 DEF ProcTypeOK, StopInv
  <2>2. CASE /\ execs' = [execs EXCEPT ![b] = @ - 1] /\ execs[b] > 0
             /\ handlers' = [handlers EXCEPT ![b] = @ - 1]
        BY <1>2, <2>2 DEF ProcTypeOK, StopInv
  <2>3. CASE /\ UNCHANGED execs /\ handlers[b] > execs[b]
             /\ handlers' = [handlers EXCEPT ![b] = @ - 1]
        BY <1>2, <2>3 DEF ProcTypeOK, StopInv
  <2>4. QED BY <1>3, <2>1, <2>2, <2>3
<1>5. \A c \in Buckets : Taken(c)' <= Taken(c)
      BY <1>1, <1>4 DEF Taken, ProcTypeOK
<1>6. ProcTypeOK'
  <2>1. \A c \in Buckets : Taken(c) \in Int /\ Taken(c)' \in Int
        BY <1>1, <1>4 DEF Taken, ProcTypeOK
  <2>2. \A c \in Buckets : Taken(c)' <= MaxWorker
        BY <1>5, <2>1, ProcessAssumption DEF ProcTypeOK
  <2>3. QED BY <1>1, <1>4, <2>2 DEF ProcTypeOK
<1>7. StopInv' BY <1>1, <1>4 DEF StopInv, StopReturned
<1>8. QED BY <1>6, <1>7

LEMMA StopNext == StopIInv /\ [ProcNext]_procVars => StopIInv'
<1> SUFFICES ASSUME StopIInv, [ProcNext]_procVars PROVE StopIInv' OBVIOUS
<1>1. QED BY MainInv, RequestInv, TimerInv, WorkerInv, ExecInv DEF ProcNext

LEMMA StopInvariance == ProcSpec => []StopIInv
BY StopInit, StopNext, PTL DEF ProcSpec

-----------------------------------------------------------------------------
(* Every goroutine stays at a point of its code, and a worker's channel    *)
(* never holds more tokens than its capacity.                              *)
THEOREM ShutdownTyped == ProcSpec => []ProcTypeOK
<1>1. StopIInv => ProcTypeOK BY DEF StopIInv
<1>2. QED BY <1>1, StopInvariance, PTL

(* Once StopTask has returned no timer sends a script, no job is popped and*)
(* no execution begins, whatever is still executing; what executes may only*)
(* end.                                                                    *)
THEOREM QuietStop == ProcSpec => QuietAfterStop
<1>1. StopIInv /\ [ProcNext]_procVars =>
        [StopReturned => /\ \A t \in Timers : timer'[t] # "send"
                         /\ \A b \in Buckets : execs'[b] <= execs[b]
                         /\ jobs' = jobs]_procVars
  <2> SUFFICES ASSUME StopIInv, ProcNext, StopReturned
               PROVE  /\ \A t \in Timers : timer'[t] # "send"
                      /\ \A b \in Buckets : execs'[b] <= execs[b]
                      /\ jobs' = jobs
      OBVIOUS
  <2>1. /\ \A t \in Timers : timer[t] = "gone"
        /\ \A b \in Buckets : worker[b] = "gone" /\ execs[b] \in Nat
        BY DEF StopIInv, StopInv, ProcTypeOK
  <2>2. CASE MainStep \/ Interrupt \/ Request
    <3>1. UNCHANGED << timer, execs, jobs >>
          BY <2>2 DEF StopReturned, MainStep, Interrupt, Request, RunTask,
             TaskCancel, WaitProducers, WaitConsumers, Exit, Main
    <3>2. QED BY <2>1, <3>1
  <2>3. ASSUME NEW t \in Timers, Timer(t) PROVE FALSE BY <2>1, <2>3 DEF Timer
  <2>4. ASSUME NEW b \in Buckets, Worker(b) PROVE FALSE
        BY <2>1, <2>4 DEF Worker, Selects, Probes, Pops, Acquires, Loads,
           WorkerGoes
  <2>5. ASSUME NEW b \in Buckets,
               ExecCancelled(b) \/ ExecEnds(b) \/ HandlerEnds(b)
        PROVE  /\ UNCHANGED << timer, jobs >>
               /\ \A c \in Buckets : execs'[c] <= execs[c]
    <3>1. /\ UNCHANGED << timer, jobs >>
          /\ execs' \in {execs, [execs EXCEPT ![b] = @ - 1]}
          BY <2>5 DEF ExecCancelled, ExecEnds, HandlerEnds, ExecLeaves, Released
    <3>2. QED BY <2>1, <3>1 DEF StopIInv, ProcTypeOK
  <2>6. QED BY <2>1, <2>2, <2>3, <2>4, <2>5 DEF ProcNext
<1>2. QED BY <1>1, StopInvariance, PTL DEF ProcSpec, QuietAfterStop

(* A worker pops one job at most after the cancellation, however long it   *)
(* was blocked on its slots.                                               *)
THEOREM OneJobLate == ProcSpec => []OneLatePop
<1>1. StopIInv => OneLatePop BY DEF StopIInv, StopInv, OneLatePop
<1>2. QED BY <1>1, StopInvariance, PTL

-----------------------------------------------------------------------------
(* UidSegment: types for any number of processes, and that only a race of  *)
(* two producers repeats an id.                                            *)

LEMMA RecordsOfProducer ==
  /\ Off \in Producer /\ Off.pc = "off"
  /\ Start \in Producer /\ Start.pc = "read"
  /\ \A seen \in Nat : /\ Segment(seen) \in Producer
                       /\ Segment(seen).pc = "write"
                       /\ Segment(seen).min = seen
                       /\ Segment(seen).max = seen + Step
  /\ \A u \in Producer :
       /\ [u EXCEPT !.pc = "fill"] \in Producer
       /\ [u EXCEPT !.pc = "fill"].pc = "fill"
       /\ [u EXCEPT !.pc = "fill"].min = u.min
       /\ [u EXCEPT !.pc = "fill"].max = u.max
       /\ [u EXCEPT !.pc = "read"] \in Producer
       /\ [u EXCEPT !.pc = "read"].pc = "read"
       /\ [u EXCEPT !.min = u.min + 1] \in Producer
       /\ [u EXCEPT !.min = u.min + 1].pc = u.pc
       /\ [u EXCEPT !.min = u.min + 1].min = u.min + 1
       /\ [u EXCEPT !.min = u.min + 1].max = u.max
<1>1. Off \in Producer /\ Off.pc = "off" BY DEF Off, Producer
<1>2. Start \in Producer /\ Start.pc = "read" BY DEF Off, Start, Producer
<1>3. \A seen \in Nat : /\ Segment(seen) \in Producer
                        /\ Segment(seen).pc = "write"
                        /\ Segment(seen).min = seen
                        /\ Segment(seen).max = seen + Step
      BY UidAssumption DEF Segment, Producer
<1>4. ASSUME NEW u \in Producer
      PROVE  /\ [u EXCEPT !.pc = "fill"] \in Producer
             /\ [u EXCEPT !.pc = "fill"].pc = "fill"
             /\ [u EXCEPT !.pc = "fill"].min = u.min
             /\ [u EXCEPT !.pc = "fill"].max = u.max
             /\ [u EXCEPT !.pc = "read"] \in Producer
             /\ [u EXCEPT !.pc = "read"].pc = "read"
      BY DEF Producer
<1>5. ASSUME NEW u \in Producer
      PROVE  /\ [u EXCEPT !.min = u.min + 1] \in Producer
             /\ [u EXCEPT !.min = u.min + 1].pc = u.pc
             /\ [u EXCEPT !.min = u.min + 1].min = u.min + 1
             /\ [u EXCEPT !.min = u.min + 1].max = u.max
      BY DEF Producer
<1>6. QED BY <1>1, <1>2, <1>3, <1>4, <1>5

\* The goroutines of the pool, as one step changes them: a producer becomes u and
\* its channel q.
ProducerStep(p, k, u, q) ==
  /\ producer' = [producer EXCEPT ![p][k] = u]
  /\ ch' = [ch EXCEPT ![p][k] = q]
  /\ UNCHANGED << rows, used >>

\* What a producer does on its own.
LEMMA ProducerSteps ==
  ASSUME UidTypeOK, NEW p \in Procs, NEW k \in Index, Runs(p, k) \/ GetDataFails(p, k)
  PROVE  \E u \in Producer, q \in Seq(Nat) :
           /\ ProducerStep(p, k, u, q)
           /\ maxId' \in Nat /\ UNCHANGED handed
           /\ LET v == producer[p][k]
                  c == ch[p][k]
              IN  \/ /\ v.pc = "read" /\ u.pc = "write" /\ u.min = maxId
                     /\ u.max = maxId + Step /\ q = c /\ maxId' = maxId
                  \/ /\ v.pc = "write" /\ u.pc = "fill" /\ u.min = v.min
                     /\ u.max = v.max /\ q = c /\ maxId' = v.max
                  \/ u.pc = "off" /\ q = c /\ maxId' = maxId
                  \/ /\ v.pc = "fill" /\ u.pc = "read" /\ v.min >= v.max
                     /\ q = c /\ maxId' = maxId
                  \/ /\ v.pc = "fill" /\ u.pc = "fill" /\ v.min < v.max
                     /\ u.min = v.min + 1 /\ u.max = v.max
                     /\ q = Append(c, v.min + 1) /\ maxId' = maxId
<1> DEFINE v == producer[p][k]
           c == ch[p][k]
<1>1. v \in Producer /\ c \in Seq(Nat) /\ maxId \in Nat
      /\ producer \in [Procs -> [Index -> Producer]] /\ ch \in [Procs -> [Index -> Seq(Nat)]]
      BY DEF UidTypeOK
<1>2. v.min \in Nat /\ v.max \in Nat BY <1>1 DEF Producer
<1>3. [ch EXCEPT ![p][k] = c] = ch BY <1>1
<1>4. CASE GetDataRead(p, k)
  <2>1. /\ v.pc = "read" /\ producer' = [producer EXCEPT ![p][k] = Segment(maxId)]
        /\ UNCHANGED << maxId, rows, ch, used, handed >>
        BY <1>4 DEF GetDataRead
  <2> DEFINE u == Segment(maxId)
  <2>2. ProducerStep(p, k, u, c) BY <1>3, <2>1 DEF ProducerStep
  <2>3. u \in Producer /\ u.pc = "write" /\ u.min = maxId /\ u.max = maxId + Step
        BY <1>1, RecordsOfProducer
  <2> HIDE DEF u
  <2>4. QED BY <1>1, <2>1, <2>2, <2>3
<1>5. CASE GetDataWrite(p, k)
  <2> DEFINE u == [v EXCEPT !.pc = "fill"]
  <2>1. /\ v.pc = "write" /\ maxId' = v.max
        /\ producer' = [producer EXCEPT ![p][k].pc = "fill"]
        /\ UNCHANGED << rows, ch, used, handed >>
        BY <1>5 DEF GetDataWrite
  <2>2. [producer EXCEPT ![p][k].pc = "fill"] = [producer EXCEPT ![p][k] = u] BY <1>1
  <2>3. u \in Producer /\ u.pc = "fill" /\ u.min = v.min /\ u.max = v.max
        BY <1>1, RecordsOfProducer
  <2> HIDE DEF u
  <2>4. ProducerStep(p, k, u, c) BY <1>3, <2>1, <2>2 DEF ProducerStep
  <2>5. QED BY <1>1, <1>2, <2>1, <2>3, <2>4
<1>6. CASE GetDataFails(p, k)
  <2>1. /\ producer' = [producer EXCEPT ![p][k] = Off]
        /\ UNCHANGED << maxId, rows, ch, used, handed >>
        BY <1>6 DEF GetDataFails
  <2>2. ProducerStep(p, k, Off, c) BY <1>3, <2>1 DEF ProducerStep
  <2>3. QED BY <1>1, <2>1, <2>2, RecordsOfProducer
<1>7. CASE Refill(p, k)
  <2> DEFINE u == [v EXCEPT !.pc = "read"]
  <2>1. /\ v.pc = "fill" /\ v.min >= v.max
        /\ producer' = [producer EXCEPT ![p][k].pc = "read"]
        /\ UNCHANGED << maxId, rows, ch, used, handed >>
        BY <1>7 DEF Refill, Exhausted
  <2>2. [producer EXCEPT ![p][k].pc = "read"] = [producer EXCEPT ![p][k] = u] BY <1>1
  <2>3. u \in Producer /\ u.pc = "read" BY <1>1, RecordsOfProducer
  <2> HIDE DEF u
  <2>4. ProducerStep(p, k, u, c) BY <1>3, <2>1, <2>2 DEF ProducerStep
  <2>5. QED BY <1>1, <2>1, <2>3, <2>4
<1>8. CASE Produce(p, k)
  <2> DEFINE u == [v EXCEPT !.min = v.min + 1]
             q == Append(c, v.min + 1)
  <2>1. /\ v.pc = "fill" /\ ~(v.min >= v.max)
        /\ producer' = [producer EXCEPT ![p][k].min = v.min + 1]
        /\ ch' = [ch EXCEPT ![p][k] = q]
        /\ UNCHANGED << maxId, rows, used, handed >>
        BY <1>8 DEF Produce, Exhausted
  <2>2. [producer EXCEPT ![p][k].min = v.min + 1] = [producer EXCEPT ![p][k] = u] BY <1>1
  <2>3. u \in Producer /\ u.pc = "fill" /\ u.min = v.min + 1 /\ u.max = v.max
        BY <1>1, <2>1, RecordsOfProducer
  <2>4. q \in Seq(Nat) /\ v.min < v.max BY <1>1, <1>2, <2>1
  <2>5. ProducerStep(p, k, u, q) BY <2>1, <2>2 DEF ProducerStep
  <2>6. q = Append(c, v.min + 1) OBVIOUS
  <2> HIDE DEF u, q
  <2>7. QED BY <1>1, <2>1, <2>3, <2>4, <2>5, <2>6
<1>9. QED BY <1>4, <1>5, <1>6, <1>7, <1>8 DEF Runs

LEMMA UidTypeInit == UidInit => UidTypeOK
<1> SUFFICES ASSUME UidInit PROVE UidTypeOK OBVIOUS
<1>1. AllOff \in [Index -> Producer] BY RecordsOfProducer DEF AllOff
<1>2. NoIds \in [Index -> Seq(Nat)] BY DEF NoIds
<1>3. 0 \in 0..MaxBoots BY UidAssumption
<1>4. QED BY <1>1, <1>2, <1>3 DEF UidInit, UidTypeOK

LEMMA UidTypeNext == UidTypeOK /\ [UidNext]_uidVars => UidTypeOK'
<1> SUFFICES ASSUME UidTypeOK, [UidNext]_uidVars PROVE UidTypeOK' OBVIOUS
<1>1. /\ producer \in [Procs -> [Index -> Producer]] /\ ch \in [Procs -> [Index -> Seq(Nat)]]
      /\ used \in [Procs -> 0..MaxBoots] /\ rows \in 0..MaxBoots
      /\ maxId \in Nat /\ handed \subseteq Nat /\ MaxBoots \in Nat
      BY UidAssumption DEF UidTypeOK
<1>2. raced' \in BOOLEAN
  <2>1. CASE UidNext BY <2>1 DEF UidNext
  <2>2. CASE UNCHANGED uidVars BY <2>2 DEF uidVars, UidTypeOK
  <2>3. QED BY <2>1, <2>2
<1>3. CASE UNCHANGED uidVars BY <1>3 DEF UidTypeOK, uidVars
<1>4. ASSUME NEW p \in Procs, Boot(p) PROVE UidTypeOK'
  <2>1. [k \in Index |-> IF k <= rows + 1 THEN Start ELSE Off] \in [Index -> Producer]
        BY RecordsOfProducer
  <2>2. rows + 1 \in 0..MaxBoots BY <1>1, <1>4 DEF Boot
  <2>3. QED BY <1>1, <1>4, <1>2, <2>1, <2>2 DEF Boot, UidTypeOK
<1>5. ASSUME NEW p \in Procs, Kill(p) PROVE UidTypeOK'
  <2>1. AllOff \in [Index -> Producer] BY RecordsOfProducer DEF AllOff
  <2>2. NoIds \in [Index -> Seq(Nat)] BY DEF NoIds
  <2>3. 0 \in 0..MaxBoots BY <1>1
  <2>4. QED BY <1>1, <1>5, <1>2, <2>1, <2>2, <2>3 DEF Kill, UidTypeOK
<1>6. ASSUME NEW p \in Procs, NextId(p) PROVE UidTypeOK'
  <2> DEFINE k == used[p]
             c == ch[p][k]
  <2>1. k \in Index /\ c # << >>
    <3>1. k # 0 /\ c # << >> BY <1>6 DEF NextId
    <3>2. QED BY <1>1, <3>1 DEF Index
  <2>2. c \in Seq(Nat) BY <1>1, <2>1
  <2>3. Head(c) \in Nat /\ Tail(c) \in Seq(Nat) BY <2>1, <2>2, HeadTailProperties
  <2>4. /\ handed' = handed \cup {Head(c)}
        /\ ch' = [ch EXCEPT ![p][k] = Tail(c)]
        /\ UNCHANGED << maxId, rows, producer, used >>
        BY <1>1, <1>6, <2>1 DEF NextId
  <2> HIDE DEF c, k
  <2>5. QED BY <1>1, <1>2, <2>1, <2>3, <2>4 DEF UidTypeOK
<1>7. ASSUME NEW p \in Procs, NEW k \in Index, Runs(p, k) \/ GetDataFails(p, k)
      PROVE  UidTypeOK'
  <2>1. PICK u \in Producer, q \in Seq(Nat) :
          ProducerStep(p, k, u, q) /\ maxId' \in Nat /\ UNCHANGED handed
        BY <1>7, ProducerSteps
  <2>2. QED BY <1>1, <1>2, <2>1 DEF ProducerStep, UidTypeOK
<1>8. QED BY <1>3, <1>4, <1>5, <1>6, <1>7 DEF UidNext

\* The ids that a producer may still hand out: those in its channel, and what is
\* left of its segment.
MayGive(p, k, x) ==
  \/ \E m \in DOMAIN ch[p][k] : ch[p][k][m] = x
  \/ /\ producer[p][k].pc = "fill"
     /\ producer[p][k].min < x /\ x <= producer[p][k].max

\* A producer about to write has read the current max_id; its channel is in order,
\* before the rest of its segment, and below max_id.
Sound(u, q, top) ==
  /\ u.pc = "write" => u.min = top /\ u.max = top + Step
  /\ u.pc = "fill" => u.max <= top
  /\ \A j, m \in DOMAIN q : j < m => q[j] < q[m]
  /\ \A m \in DOMAIN q : q[m] <= top /\ (u.pc = "fill" => q[m] <= u.min)

\* Segments do not overlap, and nothing that was handed out may be handed out again.
Disjoint ==
  \A p, o \in Procs, k, l \in Index, x \in Nat :
    MayGive(p, k, x) /\ MayGive(o, l, x) => p = o /\ k = l

UidInv ==
  /\ UidTypeOK
  /\ \A h \in handed : h <= maxId
  /\ \A p \in Procs, k \in Index : Sound(producer[p][k], ch[p][k], maxId)
  /\ \A p \in Procs, k \in Index, h \in handed : ~MayGive(p, k, h)
  /\ Disjoint

LEMMA UidInvInit == UidInit => UidInv
<1> SUFFICES ASSUME UidInit PROVE UidInv OBVIOUS
<1>1. UidTypeOK BY UidTypeInit
<1>2. \A p \in Procs, k \in Index : producer[p][k].pc = "off" /\ ch[p][k] = << >>
      BY RecordsOfProducer DEF UidInit, AllOff, NoIds
<1>3. \A p \in Procs, k \in Index : Sound(producer[p][k], ch[p][k], maxId)
      BY <1>2 DEF Sound
<1>4. \A p \in Procs, k \in Index, x \in Nat : ~MayGive(p, k, x)
      BY <1>2 DEF MayGive
<1>5. handed = {} BY DEF UidInit
<1>6. QED BY <1>1, <1>3, <1>4, <1>5 DEF UidInv, Disjoint

\* A step that hands out nothing and reserves nothing.
LEMMA NothingReserved ==
  ASSUME UidInv, UidTypeOK', UNCHANGED << maxId, handed >>,
         \A p \in Procs, k \in Index :
           /\ Sound(producer'[p][k], ch'[p][k], maxId)
           /\ \A x \in Nat : MayGive(p, k, x)' => MayGive(p, k, x)
  PROVE  UidInv'
<1>1. \A h \in handed : h \in Nat BY DEF UidInv, UidTypeOK
<1>2. \A p \in Procs, k \in Index, h \in handed' : ~MayGive(p, k, h)'
      BY <1>1 DEF UidInv
<1>3. Disjoint' BY DEF UidInv, Disjoint
<1>4. QED BY <1>2, <1>3 DEF UidInv

LEMMA UidProducer ==
  ASSUME UidInv, UidTypeOK', Serial, NEW p \in Procs, NEW k \in Index,
         Runs(p, k) \/ GetDataFails(p, k)
  PROVE  UidInv'
<1>0. UidTypeOK' OBVIOUS
<1> DEFINE v == producer[p][k]
           c == ch[p][k]
<1>1. PICK u \in Producer, q \in Seq(Nat) :
        /\ ProducerStep(p, k, u, q)
        /\ maxId' \in Nat /\ UNCHANGED handed
        /\ \/ /\ v.pc = "read" /\ u.pc = "write" /\ u.min = maxId
              /\ u.max = maxId + Step /\ q = c /\ maxId' = maxId
           \/ /\ v.pc = "write" /\ u.pc = "fill" /\ u.min = v.min
              /\ u.max = v.max /\ q = c /\ maxId' = v.max
           \/ u.pc = "off" /\ q = c /\ maxId' = maxId
           \/ /\ v.pc = "fill" /\ u.pc = "read" /\ v.min >= v.max
              /\ q = c /\ maxId' = maxId
           \/ /\ v.pc = "fill" /\ u.pc = "fill" /\ v.min < v.max
              /\ u.min = v.min + 1 /\ u.max = v.max
              /\ q = Append(c, v.min + 1) /\ maxId' = maxId
      BY ProducerSteps DEF UidInv
<1>2. /\ producer \in [Procs -> [Index -> Producer]] /\ ch \in [Procs -> [Index -> Seq(Nat)]]
      /\ maxId \in Nat /\ handed \subseteq Nat
      /\ Step \in Nat /\ v \in Producer /\ c \in Seq(Nat)
      BY UidAssumption DEF UidInv, UidTypeOK
<1>3. v.min \in Nat /\ v.max \in Nat BY <1>2 DEF Producer
<1>4. /\ producer'[p][k] = u /\ ch'[p][k] = q
      /\ \A o \in Procs, l \in Index : ~(o = p /\ l = k) =>
           producer'[o][l] = producer[o][l] /\ ch'[o][l] = ch[o][l]
      BY <1>1, <1>2 DEF ProducerStep
<1>5. \A o \in Procs, l \in Index, x \in Nat : ~(o = p /\ l = k) =>
        (MayGive(o, l, x)' <=> MayGive(o, l, x))
      BY <1>4 DEF MayGive
<1>6. Sound(v, c, maxId) BY DEF UidInv
<1>7. ASSUME maxId' = maxId, Sound(u, q, maxId),
             \A x \in Nat : MayGive(p, k, x)' => MayGive(p, k, x)
      PROVE  UidInv'
  <2>1. \A o \in Procs, l \in Index : Sound(producer'[o][l], ch'[o][l], maxId)
        BY <1>4, <1>7 DEF UidInv
  <2>2. QED BY <1>0, <1>1, <1>5, <1>7, <2>1, NothingReserved
<1>8. CASE q = c /\ maxId' = maxId /\ u.pc # "fill" /\ (u.pc = "write" =>
             u.min = maxId /\ u.max = maxId + Step)
  <2>1. Sound(u, q, maxId) BY <1>6, <1>8 DEF Sound
  <2>2. \A x \in Nat : MayGive(p, k, x)' => MayGive(p, k, x)
        BY <1>4, <1>8 DEF MayGive
  <2>3. QED BY <1>7, <1>8, <2>1, <2>2
<1>9. CASE /\ v.pc = "fill" /\ u.pc = "fill" /\ v.min < v.max
           /\ u.min = v.min + 1 /\ u.max = v.max
           /\ q = Append(c, v.min + 1) /\ maxId' = maxId
  <2> DEFINE n == Len(c)
  <2>1. /\ n \in Nat /\ DOMAIN c = 1..n /\ DOMAIN q = 1..(n + 1)
        /\ q[n + 1] = v.min + 1
        /\ \A m \in 1..n : q[m] = c[m] /\ c[m] \in Nat
        BY <1>2, <1>3, <1>9
  <2> HIDE DEF n, v, c
  <2>2. /\ \A j, m \in 1..n : j < m => c[j] < c[m]
        /\ \A m \in 1..n : c[m] <= maxId /\ c[m] <= v.min
        /\ v.max <= maxId
        BY <1>6, <1>9, <2>1 DEF Sound
  <2>3. \A m \in 1..(n + 1) : m \in 1..n \/ m = n + 1 BY <2>1
  <2>4. \A m \in 1..(n + 1) : q[m] <= maxId /\ q[m] <= u.min
    <3>1. \A m \in 1..n : q[m] <= maxId /\ q[m] <= u.min
          BY <1>3, <1>9, <2>1, <2>2
    <3>2. q[n + 1] <= maxId /\ q[n + 1] <= u.min
          BY <1>2, <1>3, <1>9, <2>1, <2>2
    <3>3. QED BY <2>3, <3>1, <3>2
  <2>5. ASSUME NEW j \in 1..(n + 1), NEW m \in 1..(n + 1), j < m
        PROVE  q[j] < q[m]
    <3>1. j \in 1..n BY <2>1, <2>5
    <3>2. q[j] = c[j] /\ c[j] \in Nat /\ c[j] <= v.min BY <2>1, <2>2, <3>1
    <3>3. CASE m \in 1..n BY <2>1, <2>2, <2>5, <3>1, <3>3
    <3>4. CASE m = n + 1 BY <1>3, <2>1, <3>2, <3>4
    <3>5. QED BY <2>3, <3>3, <3>4
  <2>6. Sound(u, q, maxId) BY <1>9, <2>1, <2>2, <2>4, <2>5 DEF Sound
  <2>7. ASSUME NEW x \in Nat, MayGive(p, k, x)' PROVE MayGive(p, k, x)
    <3>1. \/ \E m \in 1..(n + 1) : q[m] = x
          \/ u.min < x /\ x <= u.max
          BY <1>4, <2>1, <2>7 DEF MayGive
    <3>2. \/ \E m \in 1..n : c[m] = x
          \/ v.min < x /\ x <= v.max
          BY <1>3, <1>9, <2>1, <2>3, <3>1
    <3>3. QED BY <1>9, <2>1, <3>2 DEF MayGive, v, c
  <2>8. QED BY <1>7, <1>9, <2>6, <2>7
<1>10. CASE /\ v.pc = "write" /\ u.pc = "fill" /\ u.min = v.min
            /\ u.max = v.max /\ q = c /\ maxId' = v.max
  <2>1. u.min = maxId /\ u.max = maxId + Step /\ maxId' = maxId + Step
        BY <1>6, <1>10 DEF Sound
  <2>2. maxId <= maxId' BY <1>2, <2>1
  <2>3. \A o \in Procs, l \in Index : ~(o = p /\ l = k) => producer[o][l].pc # "write"
    <3> SUFFICES ASSUME NEW o \in Procs, NEW l \in Index, ~(o = p /\ l = k),
                        producer[o][l].pc = "write"
                 PROVE  FALSE
        OBVIOUS
    <3> DEFINE x == << p, k >>
               y == << o, l >>
    <3>1. x \in Procs \X Index /\ y \in Procs \X Index OBVIOUS
    <3>2. x[1] = p /\ x[2] = k /\ y[1] = o /\ y[2] = l /\ x # y OBVIOUS
    <3> HIDE DEF x, y
    <3>3. QED BY <1>10, <3>1, <3>2 DEF Serial
  <2>4. \A o \in Procs, l \in Index :
          /\ Sound(producer[o][l], ch[o][l], maxId)
          /\ producer[o][l] \in Producer /\ ch[o][l] \in Seq(Nat)
        BY <1>2 DEF UidInv
  <2>5. \A o \in Procs, l \in Index :
          /\ producer[o][l].max \in Nat
          /\ \A m \in DOMAIN ch[o][l] : ch[o][l][m] \in Nat
        BY <2>4 DEF Producer
  <2>6. ASSUME NEW o \in Procs, NEW l \in Index
        PROVE  Sound(producer'[o][l], ch'[o][l], maxId')
    <3>1. CASE o = p /\ l = k
      <4>1. \A m \in DOMAIN c : c[m] <= maxId /\ c[m] \in Nat
            BY <1>6, <2>5 DEF Sound
      <4>2. \A m \in DOMAIN c : c[m] <= maxId' BY <1>1, <1>2, <2>2, <4>1
      <4>3. Sound(u, q, maxId')
            BY <1>1, <1>2, <1>6, <1>10, <2>1, <4>1, <4>2 DEF Sound
      <4>4. QED BY <1>4, <3>1, <4>3
    <3>2. CASE ~(o = p /\ l = k)
      <4>1. /\ producer'[o][l] = producer[o][l] /\ ch'[o][l] = ch[o][l]
            /\ producer[o][l].pc # "write"
            BY <1>4, <2>3, <3>2
      <4>2. \A m \in DOMAIN ch[o][l] : ch[o][l][m] <= maxId'
            BY <1>1, <1>2, <2>2, <2>4, <2>5 DEF Sound
      <4>3. producer[o][l].pc = "fill" => producer[o][l].max <= maxId'
            BY <1>1, <1>2, <2>2, <2>4, <2>5 DEF Sound
      <4>4. Sound(producer[o][l], ch[o][l], maxId')
            BY <2>4, <4>1, <4>2, <4>3 DEF Sound
      <4>5. QED BY <4>1, <4>4
    <3>3. QED BY <3>1, <3>2
  <2>7. ASSUME NEW o \in Procs, NEW l \in Index, NEW x \in Nat, MayGive(o, l, x)
        PROVE  x <= maxId
        BY <1>2, <2>4, <2>5, <2>7 DEF MayGive, Sound
  <2>8. \A x \in Nat : MayGive(p, k, x)' => MayGive(p, k, x) \/ x > maxId
        BY <1>4, <1>10, <2>1 DEF MayGive
  <2>9. \A h \in handed' : h \in Nat /\ h <= maxId /\ h <= maxId'
        BY <1>1, <1>2, <2>2 DEF UidInv
  <2>10. ASSUME NEW o \in Procs, NEW l \in Index, NEW h \in handed'
         PROVE  ~MayGive(o, l, h)'
    <3>1. h \in handed /\ ~(h > maxId) BY <1>1, <1>2, <2>9
    <3>2. ~MayGive(o, l, h) BY <3>1 DEF UidInv
    <3>3. QED BY <1>5, <2>8, <2>9, <3>1, <3>2
  <2>11. ASSUME NEW o \in Procs, NEW e \in Procs, NEW l \in Index, NEW m \in Index,
                NEW x \in Nat, MayGive(o, l, x)', MayGive(e, m, x)'
         PROVE  o = e /\ l = m
    <3>1. CASE MayGive(o, l, x) /\ MayGive(e, m, x)
          BY <3>1 DEF UidInv, Disjoint
    <3>2. CASE ~MayGive(o, l, x)
      <4>1. o = p /\ l = k /\ x > maxId BY <1>5, <2>8, <2>11, <3>2
      <4>2. ~MayGive(e, m, x) BY <1>2, <2>7, <4>1
      <4>3. QED BY <1>5, <2>11, <4>1, <4>2
    <3>3. CASE ~MayGive(e, m, x)
      <4>1. e = p /\ m = k /\ x > maxId BY <1>5, <2>8, <2>11, <3>3
      <4>2. ~MayGive(o, l, x) BY <1>2, <2>7, <4>1
      <4>3. QED BY <1>5, <2>11, <4>1, <4>2
    <3>4. QED BY <3>1, <3>2, <3>3
  <2>12. Disjoint' BY <2>11 DEF Disjoint
  <2>13. QED BY <1>0, <2>6, <2>9, <2>10, <2>12 DEF UidInv
<1>11. QED BY <1>1, <1>8, <1>9, <1>10

\* The generator in use hands out the first id of its channel.
LEMMA UidHandOut ==
  ASSUME UidInv, UidTypeOK', NEW p \in Procs, NextId(p)
  PROVE  UidInv' /\ Head(ch[p][used[p]]) \notin handed
<1>0. UidTypeOK' OBVIOUS
<1>1. /\ producer \in [Procs -> [Index -> Producer]] /\ ch \in [Procs -> [Index -> Seq(Nat)]]
      /\ used \in [Procs -> 0..MaxBoots] /\ maxId \in Nat /\ handed \subseteq Nat
      BY DEF UidInv, UidTypeOK
<1>2. PICK k \in Index : k = used[p]
  <2>1. used[p] # 0 /\ MaxBoots \in Nat BY UidAssumption DEF NextId
  <2>2. QED BY <1>1, <2>1 DEF Index
<1>3. PICK c \in Seq(Nat) : c = ch[p][k] BY <1>1
<1>4. /\ c # << >> /\ handed' = handed \cup {Head(c)}
      /\ ch' = [ch EXCEPT ![p][k] = Tail(c)]
      /\ UNCHANGED << maxId, producer >>
  <2>1. /\ ch[p][k] # << >> /\ handed' = handed \cup {Head(ch[p][k])}
        /\ ch' = [ch EXCEPT ![p][k] = Tail(@)]
        /\ UNCHANGED << maxId, producer >>
        BY <1>2 DEF NextId
  <2>2. [ch EXCEPT ![p][k] = Tail(@)] = [ch EXCEPT ![p][k] = Tail(ch[p][k])] BY <1>1
  <2>3. QED BY <1>3, <2>1, <2>2
<1>5. PICK t \in Seq(Nat) : t = Tail(c) BY <1>4, HeadTailProperties
<1>6. PICK h \in Nat : h = Head(c) /\ h = c[1] BY <1>4, HeadTailProperties
<1>7. PICK n \in Nat : n = Len(t) BY <1>5
<1>8. /\ Len(c) = n + 1 /\ DOMAIN c = 1..(n + 1) /\ DOMAIN t = 1..n
      /\ \A m \in 1..n : t[m] = c[m + 1] /\ m + 1 \in 1..(n + 1)
      /\ \A m \in 1..(n + 1) : c[m] \in Nat
      BY <1>4, <1>5, <1>7
<1>9. /\ ch'[p][k] = t
      /\ \A o \in Procs, l \in Index : ~(o = p /\ l = k) => ch'[o][l] = ch[o][l]
      BY <1>1, <1>4, <1>5
<1>10. /\ 1 \in 1..(n + 1) /\ \A m \in 2..(n + 1) : m \in 1..(n + 1) /\ 1 < m
       /\ \A m \in 1..n : m \in 1..(n + 1) /\ m \in Nat
       OBVIOUS
<1>11. /\ Sound(producer[p][k], c, maxId)
       /\ \A j, m \in 1..(n + 1) : j < m => c[j] < c[m]
       /\ \A m \in 1..(n + 1) : /\ c[m] <= maxId
                                /\ producer[p][k].pc = "fill" => c[m] <= producer[p][k].min
  <2>1. Sound(producer[p][k], c, maxId) BY <1>3 DEF UidInv
  <2>2. QED BY <1>8, <2>1 DEF Sound
<1>12. MayGive(p, k, h)
  <2>1. 1 \in DOMAIN ch[p][k] /\ ch[p][k][1] = h BY <1>3, <1>6, <1>8, <1>10
  <2>2. QED BY <2>1 DEF MayGive
<1>13. h \notin handed BY <1>12 DEF UidInv
<1>14. \A m \in 2..(n + 1) : h < c[m] BY <1>6, <1>10, <1>11
<1>15. producer[p][k].pc = "fill" => h <= producer[p][k].min
      BY <1>6, <1>10, <1>11
<1>16. producer[p][k].min \in Nat BY <1>1 DEF Producer
<1>17. ASSUME NEW o \in Procs, NEW l \in Index, NEW x \in Nat, MayGive(o, l, x)'
       PROVE  MayGive(o, l, x) /\ x # h
  <2>1. CASE o = p /\ l = k
    <3>1. CASE \E m \in DOMAIN ch'[o][l] : ch'[o][l][m] = x
      <4>1. PICK m \in 1..n : t[m] = x BY <1>8, <1>9, <2>1, <3>1
      <4>2. m + 1 \in 2..(n + 1) /\ m + 1 \in DOMAIN c /\ c[m + 1] = x BY <1>8, <4>1
      <4>3. h < x BY <1>14, <4>2
      <4>4. QED BY <1>3, <2>1, <4>2, <4>3 DEF MayGive
    <3>2. CASE /\ producer'[o][l].pc = "fill"
               /\ producer'[o][l].min < x /\ x <= producer'[o][l].max
      <4>1. /\ producer[p][k].pc = "fill"
            /\ producer[p][k].min < x /\ x <= producer[p][k].max
            BY <1>4, <2>1, <3>2
      <4>2. x # h BY <1>15, <1>16, <4>1
      <4>3. QED BY <2>1, <4>1, <4>2 DEF MayGive
    <3>3. QED BY <1>17, <3>1, <3>2 DEF MayGive
  <2>2. CASE ~(o = p /\ l = k)
    <3>1. MayGive(o, l, x) BY <1>4, <1>9, <1>17, <2>2 DEF MayGive
    <3>2. QED BY <1>12, <2>2, <3>1 DEF UidInv, Disjoint
  <2>3. QED BY <2>1, <2>2
<1>18. Sound(producer[p][k], t, maxId)
  <2>1. ASSUME NEW j \in 1..n, NEW m \in 1..n, j < m PROVE t[j] < t[m]
    <3>1. t[j] = c[j + 1] /\ t[m] = c[m + 1] /\ j + 1 < m + 1 BY <1>8, <1>10, <2>1
    <3>2. QED BY <1>8, <1>11, <3>1
  <2>2. \A m \in 1..n : /\ t[m] <= maxId
                        /\ producer[p][k].pc = "fill" => t[m] <= producer[p][k].min
        BY <1>8, <1>11
  <2>3. QED BY <1>8, <1>11, <2>1, <2>2 DEF Sound
<1>19. \A o \in Procs, l \in Index : Sound(producer'[o][l], ch'[o][l], maxId')
  <2> SUFFICES ASSUME NEW o \in Procs, NEW l \in Index
               PROVE  Sound(producer'[o][l], ch'[o][l], maxId')
      OBVIOUS
  <2>1. producer'[o][l] = producer[o][l] /\ maxId' = maxId BY <1>4
  <2>2. CASE o = p /\ l = k BY <1>9, <1>18, <2>1, <2>2
  <2>3. CASE ~(o = p /\ l = k)
    <3>1. ch'[o][l] = ch[o][l] BY <1>9, <2>3
    <3>2. Sound(producer[o][l], ch[o][l], maxId) BY DEF UidInv
    <3>3. QED BY <2>1, <3>1, <3>2
  <2>4. QED BY <2>2, <2>3
<1>20. h <= maxId BY <1>6, <1>10, <1>11
<1>21. \A g \in handed' : g <= maxId' BY <1>4, <1>6, <1>20 DEF UidInv
<1>22. ASSUME NEW o \in Procs, NEW l \in Index, NEW g \in handed', MayGive(o, l, g)'
       PROVE  FALSE
  <2>1. g \in Nat BY <1>1, <1>4, <1>6, <1>22
  <2>2. MayGive(o, l, g) /\ g # h BY <1>17, <1>22, <2>1
  <2>3. g \in handed BY <1>4, <1>6, <2>2
  <2>4. QED BY <2>2, <2>3 DEF UidInv
<1>23. Disjoint' BY <1>17 DEF UidInv, Disjoint
<1>24. UidInv' BY <1>0, <1>19, <1>21, <1>22, <1>23 DEF UidInv
<1>25. QED BY <1>2, <1>3, <1>6, <1>13, <1>24

LEMMA UidInvNext == UidInv /\ Serial /\ [UidNext]_uidVars => UidInv'
<1> SUFFICES ASSUME UidInv, Serial, [UidNext]_uidVars PROVE UidInv' OBVIOUS
<1>0. UidTypeOK' BY UidTypeNext DEF UidInv
<1>1. /\ producer \in [Procs -> [Index -> Producer]] /\ ch \in [Procs -> [Index -> Seq(Nat)]]
      BY DEF UidInv, UidTypeOK
<1>2. \A o \in Procs, l \in Index : Sound(producer[o][l], ch[o][l], maxId)
      BY DEF UidInv
<1>3. CASE UNCHANGED uidVars
      BY <1>0, <1>2, <1>3, NothingReserved DEF uidVars, MayGive
<1>4. ASSUME NEW p \in Procs, Boot(p) PROVE UidInv'
  <2>1. /\ UNCHANGED << maxId, ch, handed >>
        /\ producer' = [producer EXCEPT ![p] =
                          [k \in Index |-> IF k <= rows + 1 THEN Start ELSE Off]]
        BY <1>4 DEF Boot
  <2>2. \A k \in Index : producer'[p][k].pc \in {"read", "off"}
        BY <1>1, <2>1, RecordsOfProducer
  <2>3. \A o \in Procs, k \in Index : o # p => producer'[o][k] = producer[o][k]
        BY <1>1, <2>1
  <2>4. \A o \in Procs, k \in Index :
          /\ Sound(producer'[o][k], ch'[o][k], maxId)
          /\ \A x \in Nat : MayGive(o, k, x)' => MayGive(o, k, x)
        BY <1>2, <2>1, <2>2, <2>3 DEF Sound, MayGive
  <2>5. QED BY <1>0, <2>1, <2>4, NothingReserved
<1>5. ASSUME NEW p \in Procs, Kill(p) PROVE UidInv'
  <2>1. /\ UNCHANGED << maxId, handed >>
        /\ producer' = [producer EXCEPT ![p] = AllOff]
        /\ ch' = [ch EXCEPT ![p] = NoIds]
        BY <1>5 DEF Kill
  <2>2. \A k \in Index : producer'[p][k].pc = "off" /\ ch'[p][k] = << >>
        BY <1>1, <2>1, RecordsOfProducer DEF AllOff, NoIds
  <2>3. \A o \in Procs, k \in Index : o # p =>
          producer'[o][k] = producer[o][k] /\ ch'[o][k] = ch[o][k]
        BY <1>1, <2>1
  <2>4. \A o \in Procs, k \in Index :
          /\ Sound(producer'[o][k], ch'[o][k], maxId)
          /\ \A x \in Nat : MayGive(o, k, x)' => MayGive(o, k, x)
        BY <1>2, <2>1, <2>2, <2>3 DEF Sound, MayGive
  <2>5. QED BY <1>0, <2>1, <2>4, NothingReserved
<1>6. ASSUME NEW p \in Procs, NextId(p) PROVE UidInv'
      BY <1>0, <1>6, UidHandOut
<1>7. ASSUME NEW p \in Procs, NEW k \in Index, Runs(p, k) \/ GetDataFails(p, k)
      PROVE  UidInv'
      BY <1>0, <1>7, UidProducer
<1>8. QED BY <1>3, <1>4, <1>5, <1>6, <1>7 DEF UidNext

\* UidInv holds until the race has happened.
UnracedInv == UidTypeOK /\ (~raced => Serial /\ UidInv)

LEMMA UnracedInit == UidInit => UnracedInv
<1> SUFFICES ASSUME UidInit PROVE UnracedInv OBVIOUS
<1>1. \A p \in Procs, k \in Index : producer[p][k].pc = "off"
      BY RecordsOfProducer DEF UidInit, AllOff
<1>2. Serial BY <1>1 DEF Serial
<1>3. QED BY <1>2, UidTypeInit, UidInvInit DEF UnracedInv

LEMMA UnracedNext == UnracedInv /\ [UidNext]_uidVars => UnracedInv'
<1> SUFFICES ASSUME UnracedInv, [UidNext]_uidVars PROVE UnracedInv' OBVIOUS
<1>1. UidTypeOK' BY UidTypeNext DEF UnracedInv
<1>2. ASSUME ~raced' PROVE Serial' /\ UidInv'
  <2>1. CASE UidNext
    <3>1. ~raced /\ Serial' BY <1>2, <2>1 DEF UidNext
    <3>2. QED BY <3>1, UidInvNext DEF UnracedInv
  <2>2. CASE UNCHANGED uidVars
    <3>1. ~raced /\ Serial' BY <1>2, <2>2 DEF uidVars, UnracedInv, Serial
    <3>2. QED BY <3>1, UidInvNext DEF UnracedInv
  <2>3. QED BY <2>1, <2>2
<1>3. QED BY <1>1, <1>2 DEF UnracedInv

-----------------------------------------------------------------------------
(* Every producer is at a point of its code, for any number of processes,  *)
(* boots and segments.                                                     *)
THEOREM UidTyped == UidSpec => []UidTypeOK
BY UidTypeInit, UidTypeNext, PTL DEF UidSpec

(* The read of max_id outside the transaction that writes it is the only   *)
(* thing that can make NextId return an id twice: until two producers have *)
(* been between that read and that write together, it never does, whatever *)
(* the number of processes, boots, kills, failed queries and segments.     *)
THEOREM SerialIdsUnique == UidSpec => UniqueUnlessRaced
<1>1. UnracedInv /\ [UidNext]_uidVars =>
        [\A p \in Procs :
           NextId(p) /\ ~raced => Head(ch[p][used[p]]) \notin handed]_uidVars
      BY UidTypeNext, UidHandOut DEF UnracedInv
<1>2. UidSpec => []UnracedInv BY UnracedInit, UnracedNext, PTL DEF UidSpec
<1>3. QED BY <1>1, <1>2, PTL DEF UidSpec, UniqueUnlessRaced

-----------------------------------------------------------------------------
(* BatchPush: what the loop has pushed and collected is a prefix of the due*)
(* ids, in their order.                                                    *)

\* pushed, then args, number the ids up to upto; a batch that has outgrown Flush
\* has a duplicate where it was full.
BatchInv ==
  /\ dup \in Seq(BOOLEAN) /\ upto \in 0..Len(dup)
  /\ args \in Seq(Nat) /\ pushed \in Seq(Nat)
  /\ upto = Len(pushed) + Len(args)
  /\ \A k \in 1..Len(pushed) : pushed[k] = k
  /\ \A k \in 1..Len(args) : args[k] = Len(pushed) + k
  /\ Arguments(args) >= Flush => dup[Len(pushed) + Flush - 2]
  /\ script \in {"ended", "aborted"} => upto = Len(dup)
  /\ script = "ended" => args = << >>
  /\ script = "aborted" => Arguments(args) > Limit

LEMMA BatchInvInit == BatchInit => BatchInv
<1> SUFFICES ASSUME BatchInit PROVE BatchInv OBVIOUS
<1>1. PICK n \in 1..MaxDue : dup \in [1..n -> BOOLEAN] BY DEF BatchInit, Inputs
<1>2. dup \in Seq(BOOLEAN) /\ Len(dup) \in Nat BY <1>1, BatchAssumption
<1>3. << >> \in Seq(Nat) /\ Len(<< >>) = 0 OBVIOUS
<1>4. QED BY <1>2, <1>3, BatchAssumption DEF BatchInit, BatchInv, Arguments

\* One LPUSH moves the ids of a batch behind those pushed before.
LEMMA PushInOrder ==
  ASSUME NEW p \in Seq(Nat), NEW a \in Seq(Nat),
         \A k \in 1..Len(p) : p[k] = k,
         \A k \in 1..Len(a) : a[k] = Len(p) + k
  PROVE  /\ p \o a \in Seq(Nat) /\ Len(p \o a) = Len(p) + Len(a)
         /\ \A k \in 1..Len(p \o a) : (p \o a)[k] = k
<1> DEFINE n == Len(p)
<1>1. /\ p \o a \in Seq(Nat) /\ Len(p \o a) = n + Len(a)
      /\ n \in Nat /\ Len(a) \in Nat
      OBVIOUS
<1>2. ASSUME NEW k \in 1..Len(p \o a) PROVE (p \o a)[k] = k
  <2>1. CASE k <= n BY <1>1, <2>1
  <2>2. CASE k > n
    <3>1. k - n \in 1..Len(a) /\ (p \o a)[k] = a[k - n] BY <1>1, <2>2
    <3>2. a[k - n] = n + (k - n) BY <3>1
    <3>3. QED BY <1>1, <3>1, <3>2
  <2>3. QED BY <1>1, <2>1, <2>2
<1>3. QED BY <1>1, <1>2

LEMMA BatchInvNext == BatchInv /\ [BatchNext]_batchVars => BatchInv'
<1> SUFFICES ASSUME BatchInv, [BatchNext]_batchVars PROVE BatchInv' OBVIOUS
<1> USE BatchAssumption
<1>1. /\ dup \in Seq(BOOLEAN) /\ args \in Seq(Nat) /\ pushed \in Seq(Nat)
      /\ Len(dup) \in Nat /\ Len(args) \in Nat /\ Len(pushed) \in Nat
      /\ upto \in Nat /\ upto = Len(pushed) + Len(args)
      /\ Flush \in Nat /\ Limit \in Nat /\ 3 <= Flush /\ Flush <= Limit
      BY DEF BatchInv
<1>2. CASE UNCHANGED batchVars BY <1>2 DEF BatchInv, batchVars, Arguments
<1>3. CASE Collect
  <2> DEFINE k == upto + 1
             a == Append(args, k)
  <2>1. /\ script = "loop" /\ upto < Len(dup) /\ upto' = k /\ dup' = dup
        /\ IF ~dup[k] /\ FlushDue(a) THEN PushBatch(a, "loop")
           ELSE args' = a /\ UNCHANGED << pushed, script >>
        BY <1>3 DEF Collect
  <2>2. /\ a \in Seq(Nat) /\ Len(a) = Len(args) + 1 /\ k \in 1..Len(dup)
        /\ k = Len(pushed) + Len(a)
        BY <1>1, <2>1
  <2>3. \A j \in 1..Len(a) : a[j] = Len(pushed) + j
    <3>1. \A j \in 1..Len(args) : a[j] = args[j] BY <1>1
    <3>2. a[Len(args) + 1] = k BY <1>1
    <3>3. \A j \in 1..Len(args) : args[j] = Len(pushed) + j BY DEF BatchInv
    <3>4. ASSUME NEW j \in 1..Len(a) PROVE a[j] = Len(pushed) + j
      <4>1. CASE j \in 1..Len(args) BY <3>1, <3>3, <4>1
      <4>2. CASE j = Len(args) + 1 BY <1>1, <3>2, <4>2
      <4>3. QED BY <1>1, <2>2, <4>1, <4>2
    <3>5. QED BY <3>4
  <2> HIDE DEF a
  <2>4. CASE ~dup[k] /\ FlushDue(a)
    <3>1. /\ script' = "loop" /\ args' = << >> /\ pushed' = pushed \o a
          BY <1>1, <2>1, <2>2, <2>4 DEF PushBatch, FlushDue, Arguments
    <3>2. /\ pushed' \in Seq(Nat) /\ Len(pushed') = k
          /\ \A j \in 1..Len(pushed') : pushed'[j] = j
          BY <1>1, <2>2, <2>3, <3>1, PushInOrder DEF BatchInv
    <3>3. Len(args') = 0 /\ args' \in Seq(Nat) BY <3>1
    <3>4. upto' \in 0..Len(dup') /\ upto' = Len(pushed') + Len(args')
          BY <1>1, <2>1, <2>2, <3>2, <3>3
    <3>5. ~(Arguments(args') >= Flush) BY <1>1, <3>3 DEF Arguments
    <3>6. QED BY <1>1, <2>1, <3>1, <3>2, <3>3, <3>4, <3>5 DEF BatchInv, Arguments
  <2>5. CASE ~(~dup[k] /\ FlushDue(a))
    <3>1. args' = a /\ pushed' = pushed /\ script' = script BY <2>1, <2>5
    <3>2. Arguments(a) >= Flush => dup[Len(pushed) + Flush - 2]
      <4>1. CASE Arguments(args) >= Flush BY <4>1 DEF BatchInv
      <4>2. CASE Arguments(args) < Flush /\ Arguments(a) >= Flush
        <5>1. Arguments(a) = Flush BY <1>1, <2>2, <4>2 DEF Arguments
        <5>2. dup[k] BY <2>5, <5>1 DEF FlushDue
        <5>3. Len(a) + 2 = Flush BY <5>1 DEF Arguments
        <5>4. /\ Len(args) + 1 = Len(a) /\ k = Len(pushed) + (Len(args) + 1)
              /\ Len(a) \in Nat
              BY <1>1, <2>2
        <5>5. Flush - 2 = Len(args) + 1 BY <1>1, <5>3, <5>4
        <5>6. k = Len(pushed) + Flush - 2
          <6>1. Len(pushed) + Flush - 2 = Len(pushed) + (Flush - 2) BY <1>1
          <6>2. QED BY <5>4, <5>5, <6>1
        <5>7. QED BY <5>2, <5>6
      <4>3. QED BY <1>1, <2>2, <4>1, <4>2 DEF Arguments
    <3>3. QED BY <1>1, <2>1, <2>2, <2>3, <3>1, <3>2 DEF BatchInv, Arguments
  <2>6. QED BY <2>4, <2>5
<1>4. CASE PushRest
  <2>1. /\ script = "loop" /\ upto = Len(dup) /\ upto' = upto /\ dup' = dup
        /\ IF Rest(args) THEN PushBatch(args, "ended")
           ELSE script' = "ended" /\ UNCHANGED << args, pushed >>
        BY <1>4 DEF PushRest
  <2>2. CASE Rest(args) /\ Arguments(args) <= Limit
    <3>1. script' = "ended" /\ args' = << >> /\ pushed' = pushed \o args
          BY <1>1, <2>1, <2>2 DEF PushBatch, Arguments
    <3>2. /\ pushed' \in Seq(Nat) /\ Len(pushed') = upto
          /\ \A j \in 1..Len(pushed') : pushed'[j] = j
          BY <1>1, <3>1, PushInOrder DEF BatchInv
    <3>3. Len(args') = 0 /\ args' \in Seq(Nat) BY <3>1
    <3>4. upto' \in 0..Len(dup') /\ upto' = Len(pushed') + Len(args')
          BY <1>1, <2>1, <3>2, <3>3
    <3>5. ~(Arguments(args') >= Flush) BY <1>1, <3>3 DEF Arguments
    <3>6. QED BY <1>1, <2>1, <3>1, <3>2, <3>3, <3>4, <3>5 DEF BatchInv, Arguments
  <2>3. CASE Rest(args) /\ Arguments(args) > Limit
    <3>1. script' = "aborted" /\ UNCHANGED << args, pushed >>
          BY <2>1, <2>3 DEF PushBatch
    <3>2. QED BY <1>1, <2>1, <2>3, <3>1 DEF BatchInv, Arguments
  <2>4. CASE ~Rest(args)
    <3>1. args = << >> BY <1>1, <2>4 DEF Rest, Arguments
    <3>2. script' = "ended" /\ UNCHANGED << args, pushed >> BY <2>1, <2>4
    <3>3. QED BY <1>1, <2>1, <3>1, <3>2 DEF BatchInv, Arguments
  <2>5. QED BY <1>1, <2>2, <2>3, <2>4 DEF Arguments
<1>5. QED BY <1>2, <1>3, <1>4 DEF BatchNext

LEMMA BatchInvariance == BatchSpec => []BatchInv
BY BatchInvInit, BatchInvNext, PTL DEF BatchSpec

(* The batches of Pending2ReadyScript amount to one push of all due ids,   *)
(* for any number of them and any size of a batch.                         *)
THEOREM BatchesAddUp == BatchSpec => []BatchesAsOne
<1>1. BatchInv => BatchesAsOne
  <2> SUFFICES ASSUME BatchInv, script = "ended" PROVE pushed = [k \in DOMAIN dup |-> k]
      BY DEF BatchesAsOne
  <2>1. Len(pushed) = Len(dup) /\ pushed \in Seq(Nat) /\ dup \in Seq(BOOLEAN)
        BY DEF BatchInv
  <2>2. \A k \in 1..Len(pushed) : pushed[k] = k BY DEF BatchInv
  <2>3. QED BY <2>1, <2>2
<1>2. QED BY <1>1, BatchInvariance, PTL

(* The script aborts, and loses the ids it took out of pending, only with  *)
(* more ids left than unpack can return, and only because a duplicate stood*)
(* where the batch was full.                                               *)
THEOREM AbortExplained == BatchSpec => []AbortNeedsDuplicate
<1>1. BatchInv => AbortNeedsDuplicate
      BY BatchAssumption DEF BatchInv, AbortNeedsDuplicate, Arguments
<1>2. QED BY <1>1, BatchInvariance, PTL
=============================================================================
