-------------------------- MODULE AsyncQueue_proofs --------------------------
(***************************************************************************)
(* Invariants of AsyncQueue for every number of jobs, buckets, nodes, slots*)
(* and requests: the scripts preserve StoreInv (JobStore_proofs), and each *)
(* process only sends them with ids, buckets and times of the right kind.  *)
(***************************************************************************)
EXTENDS AsyncQueue, JobStore_proofs

IInv == StoreInv /\ EnvTypeOK

\* A step that sends no script.
LEMMA StoreUnchanged ==
  ASSUME StoreInv, UNCHANGED store, now' \in 0..MaxTime
  PROVE  StoreInv'
BY DEF StoreInv, store, StoreTypeOK, NoGhostJobs, ScriptsTotal, ResultMeansDone,
       RunningHidesResult, Present, Queued

LEMMA TimesAreNat ==
  ASSUME StoreTypeOK
  PROVE  /\ now \in Nat
         /\ CronNext[now] \in Nat
         /\ \A i \in Ids : StartTimes(i) \subseteq Nat
<1>1. now \in Nat /\ CronNext[now] \in Nat
      BY ClockAssumption DEF StoreTypeOK
<1>2. QED BY <1>1, QueueAssumption DEF StartTimes

LEMMA InitInv == Init => IInv
<1> SUFFICES ASSUME Init PROVE IInv OBVIOUS
<1> USE DEF Init, StoreInit
<1>1. StoreTypeOK
      BY ClockAssumption DEF StoreTypeOK, Score, Statuses
<1>2. NoGhostJobs BY DEF NoGhostJobs, Present, Queued
<1>3. ScriptsTotal BY DEF ScriptsTotal
<1>4. ResultMeansDone BY DEF ResultMeansDone
<1>5. RunningHidesResult BY DEF RunningHidesResult
<1>6. EnvTypeOK
      BY QueueAssumption DEF EnvTypeOK, CallType, Worker, Slot, Sweep
<1>7. QED BY <1>1, <1>2, <1>3, <1>4, <1>5, <1>6 DEF IInv, StoreInv

-----------------------------------------------------------------------------
(* API requests.                                                           *)

LEMMA CallGoesType ==
  ASSUME EnvTypeOK, NEW c \in Clients, NEW pc, NEW i, NEW b,
         [pc |-> pc, id |-> i, bucket |-> b] \in CallType,
         CallGoes(c, pc, i, b), calls' \in Nat
  PROVE  EnvTypeOK'
BY DEF EnvTypeOK, CallGoes

LEMMA CallEndsType ==
  ASSUME EnvTypeOK, NEW c \in Clients, CallEnds(c)
  PROVE  EnvTypeOK'
BY DEF EnvTypeOK, CallEnds, CallType

\* A request that has read its bucket works on a known id and bucket.
LEMMA CallArgs ==
  ASSUME EnvTypeOK, NEW c \in Clients
  PROVE  /\ call[c].pc \in {"stopCheck", "stopEval", "recoverLoad", "deleteEval"}
              => call[c].id \in Ids /\ call[c].bucket \in Buckets
         /\ call[c].pc = "recoverSend" => call[c].id \in Ids
BY DEF EnvTypeOK, CallType, NoCall

LEMMA DeliverInv ==
  ASSUME IInv, NEW i \in Ids, Deliver(i)
  PROVE  IInv'
<1>1. PICK b \in Buckets, t \in StartTimes(i) : Send2Pending(b, i, t)
      BY DEF Deliver
<1>2. t \in Nat BY TimesAreNat DEF IInv, StoreInv
<1>3. StoreInv' BY <1>1, <1>2, Send2PendingInv DEF IInv, Deliver
<1>4. EnvTypeOK' BY DEF IInv, EnvTypeOK, Deliver
<1>5. QED BY <1>3, <1>4 DEF IInv

LEMMA RequestInv ==
  ASSUME IInv, NEW c \in Clients, NEW i \in Ids, NEW op,
         NEW pc \in {"stopCheck", "recoverLoad", "deleteEval"},
         Request(c, op, pc, i)
  PROVE  IInv'
<1>1. bucketOf[i] \in Buckets
      BY DEF IInv, StoreInv, StoreTypeOK, Request
<1>2. [pc |-> pc, id |-> i, bucket |-> bucketOf[i]] \in CallType
      BY <1>1 DEF CallType
<1>3. EnvTypeOK' BY <1>2, CallGoesType DEF IInv, Request, EnvTypeOK
<1>4. StoreInv'
      BY StoreUnchanged DEF IInv, Request, CallGoes, StoreInv, StoreTypeOK
<1>5. QED BY <1>3, <1>4 DEF IInv

LEMMA CallStepInv ==
  ASSUME IInv, NEW c \in Clients,
         \/ StopCheck(c) \/ StopEval(c) \/ RecoverLoad(c)
         \/ RecoverSend(c) \/ DeleteEval(c)
  PROVE  IInv'
<1> DEFINE k == call[c]
<1>0. EnvTypeOK /\ StoreInv /\ now \in 0..MaxTime /\ now \in Nat
      BY ClockAssumption DEF IInv, StoreInv, StoreTypeOK
<1>1. CASE StopCheck(c)
  <2>1. k.id \in Ids /\ k.bucket \in Buckets
        BY <1>0, <1>1, CallArgs DEF StopCheck
  <2>2. [pc |-> "stopEval", id |-> k.id, bucket |-> k.bucket] \in CallType
        BY <2>1 DEF CallType
  <2>3. EnvTypeOK'
        BY <1>0, <1>1, <2>2, CallGoesType, CallEndsType DEF StopCheck, EnvTypeOK
  <2>4. UNCHANGED << store, now >> BY <1>1 DEF StopCheck, CallGoes, CallEnds
  <2>5. QED BY <1>0, <2>3, <2>4, StoreUnchanged DEF IInv
<1>2. CASE StopEval(c)
  <2>1. k.id \in Ids /\ k.bucket \in Buckets
        BY <1>0, <1>2, CallArgs DEF StopEval
  <2>2. StoreInv' BY <1>0, <1>2, <2>1, TerminateInv DEF StopEval, CallEnds
  <2>3. EnvTypeOK' BY <1>0, <1>2, CallEndsType DEF StopEval
  <2>4. QED BY <2>2, <2>3 DEF IInv
<1>3. CASE RecoverLoad(c)
  <2>1. k.id \in Ids BY <1>0, <1>3, CallArgs DEF RecoverLoad
  <2>2. [pc |-> "recoverSend", id |-> k.id, bucket |-> NoBucket] \in CallType
        BY <2>1 DEF CallType
  <2>3. EnvTypeOK'
        BY <1>0, <1>3, <2>2, CallGoesType, CallEndsType DEF RecoverLoad, EnvTypeOK
  <2>4. UNCHANGED << store, now >> BY <1>3 DEF RecoverLoad, CallGoes, CallEnds
  <2>5. QED BY <1>0, <2>3, <2>4, StoreUnchanged DEF IInv
<1>4. CASE RecoverSend(c)
  <2>1. k.id \in Ids BY <1>0, <1>4, CallArgs DEF RecoverSend
  <2>2. StoreInv' BY <1>0, <1>4, <2>1, Send2PendingInv DEF RecoverSend, CallEnds
  <2>3. EnvTypeOK' BY <1>0, <1>4, CallEndsType DEF RecoverSend
  <2>4. QED BY <2>2, <2>3 DEF IInv
<1>5. CASE DeleteEval(c)
  <2>1. k.id \in Ids /\ k.bucket \in Buckets
        BY <1>0, <1>5, CallArgs DEF DeleteEval
  <2>2. StoreInv' BY <1>0, <1>5, <2>1, DeleteInv DEF DeleteEval, CallEnds
  <2>3. EnvTypeOK' BY <1>0, <1>5, CallEndsType DEF DeleteEval
  <2>4. QED BY <2>2, <2>3 DEF IInv
<1>6. QED BY <1>1, <1>2, <1>3, <1>4, <1>5

LEMMA ApiInv == ASSUME IInv, Api PROVE IInv'
<1>1. CASE \E i \in Ids : Deliver(i) BY <1>1, DeliverInv
<1>2. ASSUME NEW c \in Clients, NEW i \in issued,
             StopJob(c, i) \/ RecoverJob(c, i) \/ DeleteJob(c, i)
      PROVE  IInv'
  <2>1. i \in Ids BY DEF IInv, EnvTypeOK
  <2>2. QED BY <1>2, <2>1, RequestInv DEF StopJob, RecoverJob, DeleteJob
<1>3. QED BY <1>1, <1>2, CallStepInv DEF Api

-----------------------------------------------------------------------------
(* Timers.                                                                 *)

LEMMA SweepSet ==
  ASSUME NEW s \in Sweep, s.pc # "idle", NEW t \in Nat
  PROVE  /\ [s EXCEPT !.pc = "info"] \in Sweep
         /\ [s EXCEPT !.pc = "plan"] \in Sweep
         /\ [s EXCEPT !.pc = "eval", !.next = t] \in Sweep
<1> DEFINE R == [pc : {"flag", "info", "plan", "eval"}, id : Ids, at : Nat,
                 next : Nat]
<1>1. s \in R BY DEF Sweep, IdleSweep
<1>2. [s EXCEPT !.pc = "eval", !.next = t] \in R BY <1>1, Zenon
<1>3. [s EXCEPT !.pc = "info"] \in R /\ [s EXCEPT !.pc = "plan"] \in R
      BY <1>1, Zenon
<1>4. QED BY <1>2, <1>3 DEF Sweep

LEMMA SweepGoesType ==
  ASSUME EnvTypeOK, NEW n \in Nodes, NEW b \in Buckets, NEW s \in Sweep,
         SweepGoes(n, b, s)
  PROVE  EnvTypeOK'
BY DEF EnvTypeOK, SweepGoes

LEMMA SweepInv ==
  ASSUME IInv, NEW n \in Nodes, NEW b \in Buckets, SweepStep(n, b)
  PROVE  IInv'
<1> DEFINE s == sweep[n][b]
<1>1. /\ EnvTypeOK /\ StoreInv /\ now \in 0..MaxTime
      /\ now \in Nat /\ CronNext[now] \in Nat
      /\ s \in Sweep
      BY TimesAreNat DEF IInv, StoreInv, StoreTypeOK, EnvTypeOK
<1>2. CASE SweepSelect(n, b)
  <2>1. PICK i \in Earliest(b) :
          SweepGoes(n, b, [pc |-> "flag", id |-> i, at |-> now, next |-> 0])
        BY <1>2 DEF SweepSelect
  <2>2. i \in Ids BY DEF Earliest, Due
  <2>3. [pc |-> "flag", id |-> i, at |-> now, next |-> 0] \in Sweep
        BY <1>1, <2>2 DEF Sweep
  <2>4. EnvTypeOK' BY <1>1, <2>1, <2>3, SweepGoesType
  <2>5. UNCHANGED << store, now >> BY <1>2, <2>1 DEF SweepSelect, SweepGoes
  <2>6. QED BY <1>1, <2>4, <2>5, StoreUnchanged DEF IInv
<1>3. CASE SweepFlag(n, b) \/ SweepInfo(n, b) \/ SweepPlan(n, b)
  <2>1. /\ s.pc # "idle"
        /\ UNCHANGED store
        /\ \/ SweepGoes(n, b, IdleSweep)
           \/ SweepGoes(n, b, [s EXCEPT !.pc = "info"])
           \/ SweepGoes(n, b, [s EXCEPT !.pc = "plan"])
           \/ SweepGoes(n, b, [s EXCEPT !.pc = "eval", !.next = CronNext[now]])
        BY <1>3 DEF SweepFlag, SweepInfo, SweepPlan
  <2>2. PICK t \in Sweep : SweepGoes(n, b, t)
    <3>1. IdleSweep \in Sweep BY DEF Sweep
    <3>2. /\ [s EXCEPT !.pc = "info"] \in Sweep
          /\ [s EXCEPT !.pc = "plan"] \in Sweep
          /\ [s EXCEPT !.pc = "eval", !.next = CronNext[now]] \in Sweep
          BY <1>1, <2>1, SweepSet, Zenon
    <3>3. QED BY <2>1, <3>1, <3>2, Zenon
  <2>3. EnvTypeOK' BY <1>1, <2>2, SweepGoesType
  <2>4. UNCHANGED << store, now >> BY <2>1, <2>2 DEF SweepGoes
  <2>5. QED BY <1>1, <2>3, <2>4, StoreUnchanged DEF IInv
<1>4. CASE SweepEval(n, b)
  <2>1. s.id \in Ids /\ s.at \in Nat /\ s.next \in Nat
        BY <1>1, <1>4 DEF SweepEval, Sweep, IdleSweep
  <2>2. IdleSweep \in Sweep BY DEF Sweep
  <2>3. EnvTypeOK' BY <1>1, <1>4, <2>2, SweepGoesType DEF SweepEval
  <2>4. StoreInv'
        BY <1>1, <1>4, <2>1, Running2PendingInv DEF SweepEval, SweepGoes
  <2>5. QED BY <2>3, <2>4 DEF IInv
<1>5. QED BY <1>2, <1>3, <1>4 DEF SweepStep

LEMMA TimersInv == ASSUME IInv, Timers PROVE IInv'
<1>1. UNCHANGED env => (EnvTypeOK => EnvTypeOK')
      BY DEF env, EnvTypeOK
<1>2. ASSUME NEW b \in Buckets, Pending2ReadyTimer(b) PROVE IInv'
      BY <1>1, <1>2, Pending2ReadyInv DEF IInv, Pending2ReadyTimer
<1>3. ASSUME NEW b \in Buckets, Running2ReadyTimer(b) PROVE IInv'
      BY <1>1, <1>3, Running2ReadyInv DEF IInv, Running2ReadyTimer
<1>4. QED BY <1>2, <1>3, SweepInv DEF Timers

-----------------------------------------------------------------------------
(* The worker and its executions.                                          *)

LEMMA WorkerGoesType ==
  ASSUME EnvTypeOK, NEW n \in Nodes, NEW b \in Buckets, NEW w \in Worker,
         WorkerGoes(n, b, w),
         starts' \in [Ids -> 0..MaxStarts],
         slot' \in [Nodes -> [Buckets -> [Slots -> Slot]]]
  PROVE  EnvTypeOK'
BY DEF EnvTypeOK, WorkerGoes

LEMMA WorkerSet ==
  ASSUME NEW w \in Worker, w.pc \in {"acquire", "load"},
         NEW pc \in {"load", "fail"}
  PROVE  [w EXCEPT !.pc = pc] \in Worker
<1>1. w \in [pc : {"acquire", "load", "fail"}, id : Ids, popped : Nat]
      BY DEF Worker, IdleWorker, Popping, GoneWorker
<1>2. [w EXCEPT !.pc = pc] = [pc |-> pc, id |-> w.id, popped |-> w.popped]
      BY <1>1
<1>3. QED BY <1>1, <1>2 DEF Worker

\* A slot in use may be armed and may be told to stop.
LEMMA SlotInUse ==
  ASSUME NEW e \in Slot, e.st \in {"held", "exec"}, NEW t \in Nat
  PROVE  /\ [e EXCEPT !.st = "exec", !.armed = t] \in Slot
         /\ [e EXCEPT !.stop = TRUE] \in Slot
<1> DEFINE R == [st : {"held", "exec"}, id : Ids, popped : Nat, armed : Nat,
                 stop : BOOLEAN]
<1>1. e \in R BY DEF Slot, FreeSlot, LostSlot
<1>2. [e EXCEPT !.st = "exec", !.armed = t] \in R BY <1>1, Zenon
<1>3. [e EXCEPT !.stop = TRUE] \in R BY <1>1, Zenon
<1>4. QED BY <1>2, <1>3 DEF Slot

LEMMA SlotSet ==
  ASSUME EnvTypeOK, NEW n \in Nodes, NEW b \in Buckets, NEW k \in Slots,
         NEW e \in Slot, slot' = [slot EXCEPT ![n][b][k] = e]
  PROVE  slot' \in [Nodes -> [Buckets -> [Slots -> Slot]]]
BY DEF EnvTypeOK

\* The next round of a worker, or its end after a shutdown.
LEMMA NextRoundSet ==
  ASSUME NEW n
  PROVE  NextRound(n) \in Worker /\ NextRound(n).pc \in {"probe", "gone"}
BY DEF NextRound, Worker, IdleWorker, GoneWorker

LEMMA InstantsAreNat ==
  ASSUME IInv
  PROVE  Clock \in Nat /\ Stamp \in Nat
<1>1. now \in Nat /\ part \in Nat /\ Parts \in Nat
      BY TimesAreNat, QueueAssumption DEF IInv, StoreInv, EnvTypeOK
<1>2. now * Parts \in Nat BY <1>1
<1>3. QED BY <1>1, <1>2 DEF Clock, Stamp

\* A result that reaches the store, or one that is lost.
LEMMA FinishesInv ==
  ASSUME StoreInv, now' = now, NEW b \in Buckets, NEW i \in Ids,
         NEW st \in Terminal, Finishes(b, i, st)
  PROVE  StoreInv'
<1>1. now' \in 0..MaxTime BY DEF StoreInv, StoreTypeOK
<1>2. QED BY <1>1, Running2FinishInv, StoreUnchanged DEF Finishes

LEMMA WorkerInv ==
  ASSUME IInv, NEW n \in Nodes, NEW b \in Buckets, WorkerStep(n, b)
  PROVE  IInv'
<1> DEFINE w == worker[n][b]
<1>1. /\ EnvTypeOK /\ StoreInv /\ now \in 0..MaxTime /\ now \in Nat
      /\ w \in Worker
      /\ starts \in [Ids -> 0..MaxStarts]
      /\ slot \in [Nodes -> [Buckets -> [Slots -> Slot]]]
      BY ClockAssumption DEF IInv, StoreInv, StoreTypeOK, EnvTypeOK
<1>2. Popping \in Worker /\ NextRound(n) \in Worker
      BY NextRoundSet DEF Worker
<1>3. w.pc \in {"acquire", "load", "fail"} => w.id \in Ids /\ w.popped \in Nat
      BY <1>1 DEF Worker, IdleWorker, Popping, GoneWorker
<1>4. CASE Probe(n, b)
  <2>1. UNCHANGED << store, now >> BY <1>4 DEF Probe, WorkerGoes
  <2>2. EnvTypeOK' BY <1>1, <1>2, <1>4, WorkerGoesType DEF Probe
  <2>3. QED BY <1>1, <2>1, <2>2, StoreUnchanged DEF IInv
<1>5. CASE PopNothing(n, b)
  <2>1. EnvTypeOK' BY <1>1, <1>2, <1>5, WorkerGoesType DEF PopNothing
  <2>2. UNCHANGED now BY <1>5 DEF PopNothing, WorkerGoes
  <2>3. StoreInv'
        BY <1>1, <1>5, <2>2, StoreUnchanged, Ready2RunningDropInv DEF PopNothing
  <2>4. QED BY <2>1, <2>3 DEF IInv
<1>6. CASE Pop(n, b)
  <2>1. PICK i \in Ids :
          /\ Ready2Running(b, i)
          /\ starts' = [starts EXCEPT ![i] = IF @ < MaxStarts THEN @ + 1 ELSE @]
          /\ WorkerGoes(n, b, [pc |-> "acquire", id |-> i, popped |-> Stamp])
        BY <1>6 DEF Pop
  <2>2. starts' \in [Ids -> 0..MaxStarts] BY <1>1, <2>1, QueueAssumption
  <2>3. [pc |-> "acquire", id |-> i, popped |-> Stamp] \in Worker
        BY InstantsAreNat DEF Worker
  <2>4. EnvTypeOK' BY <1>1, <1>6, <2>1, <2>2, <2>3, WorkerGoesType DEF Pop
  <2>5. StoreInv' BY <1>1, <2>1, Ready2RunningInv DEF WorkerGoes
  <2>6. QED BY <2>4, <2>5 DEF IInv
<1>7. CASE Acquire(n, b)
  <2> DEFINE e == [st |-> "held", id |-> w.id, popped |-> w.popped,
                   armed |-> 0, stop |-> FALSE]
  <2>1. PICK k \in Slots : slot' = [slot EXCEPT ![n][b][k] = e]
        BY <1>7 DEF Acquire, FreeSlots
  <2>2. e \in Slot BY <1>3, <1>7 DEF Slot, Acquire
  <2>3. [w EXCEPT !.pc = "load"] \in Worker
        BY <1>1, <1>7, WorkerSet DEF Acquire
  <2>4. slot' \in [Nodes -> [Buckets -> [Slots -> Slot]]]
        BY <1>1, <2>1, <2>2, SlotSet
  <2>5. EnvTypeOK' BY <1>1, <1>7, <2>3, <2>4, WorkerGoesType DEF Acquire
  <2>6. UNCHANGED << store, now >> BY <1>7 DEF Acquire, WorkerGoes
  <2>7. QED BY <1>1, <2>5, <2>6, StoreUnchanged DEF IInv
<1>8. CASE Load(n, b)
  <2>1. PICK k \in Slots :
          /\ slot[n][b][k].st = "held"
          /\ slot' = [slot EXCEPT ![n][b][k] =
                        [@ EXCEPT !.st = "exec", !.armed = Clock]]
        BY <1>8 DEF Load
  <2> DEFINE e == [slot[n][b][k] EXCEPT !.st = "exec", !.armed = Clock]
  <2>2. slot[n][b][k] \in Slot BY <1>1
  <2>3. e \in Slot BY <2>1, <2>2, SlotInUse, InstantsAreNat
  <2>4. slot' = [slot EXCEPT ![n][b][k] = e] BY <1>1, <2>1
  <2>5. slot' \in [Nodes -> [Buckets -> [Slots -> Slot]]]
        BY <1>1, <2>3, <2>4, SlotSet
  <2>6. EnvTypeOK' BY <1>1, <1>2, <1>8, <2>5, WorkerGoesType DEF Load
  <2>7. UNCHANGED << store, now >> BY <1>8 DEF Load, WorkerGoes
  <2>8. QED BY <1>1, <2>6, <2>7, StoreUnchanged DEF IInv
<1>9. CASE LoadFails(n, b)
  <2>1. [w EXCEPT !.pc = "fail"] \in Worker
        BY <1>1, <1>9, WorkerSet DEF LoadFails
  <2>2. EnvTypeOK' BY <1>1, <1>9, <2>1, WorkerGoesType DEF LoadFails
  <2>3. UNCHANGED << store, now >> BY <1>9 DEF LoadFails, WorkerGoes
  <2>4. QED BY <1>1, <2>2, <2>3, StoreUnchanged DEF IInv
<1>10. CASE Fail(n, b)
  <2>1. PICK k \in Slots : slot' = [slot EXCEPT ![n][b][k] = LostSlot]
        BY <1>10 DEF Fail
  <2>2. slot' \in [Nodes -> [Buckets -> [Slots -> Slot]]]
        BY <1>1, <2>1, SlotSet DEF Slot
  <2>3. EnvTypeOK' BY <1>1, <1>2, <1>10, <2>2, WorkerGoesType DEF Fail
  <2>4. "Error" \in Terminal BY DEF Terminal
  <2>5. StoreInv'
        BY <1>1, <1>3, <1>10, <2>4, FinishesInv DEF Fail, WorkerGoes
  <2>6. QED BY <2>3, <2>5 DEF IInv
<1>11. QED
  BY <1>4, <1>5, <1>6, <1>7, <1>8, <1>9, <1>10, WorkerStep(n, b) DEF WorkerStep

LEMMA ExecInv ==
  ASSUME IInv, NEW n \in Nodes, NEW b \in Buckets, NEW k \in Slots,
         \/ ExecResult(n, b, k) \/ Monitor(n, b, k)
         \/ ExecTerminate(n, b, k) \/ ExecTimeout(n, b, k)
         \/ ExecCancelled(n, b, k)
  PROVE  IInv'
<1> DEFINE e == slot[n][b][k]
<1>1. EnvTypeOK /\ StoreInv /\ now \in 0..MaxTime /\ e \in Slot
      BY DEF IInv, StoreInv, StoreTypeOK, EnvTypeOK
<1>2. e.st = "exec" => e.id \in Ids BY <1>1 DEF Slot, FreeSlot, LostSlot
<1>3. ExecEnds(n, b, k) => EnvTypeOK' /\ UNCHANGED now
  <2> HAVE ExecEnds(n, b, k)
  <2>1. slot' \in [Nodes -> [Buckets -> [Slots -> Slot]]]
        BY <1>1, SlotSet DEF ExecEnds, Slot
  <2>2. QED BY <1>1, <2>1 DEF EnvTypeOK, ExecEnds
<1>4. {"Success", "Error", "Terminate"} \subseteq Terminal BY DEF Terminal
<1>5. CASE ExecResult(n, b, k)
      BY <1>1, <1>2, <1>3, <1>4, <1>5, FinishesInv DEF ExecResult, IInv
<1>6. CASE Monitor(n, b, k)
  <2> DEFINE f == [e EXCEPT !.stop = TRUE]
  <2>1. f \in Slot BY <1>1, <1>6, SlotInUse DEF Monitor
  <2>2. slot' = [slot EXCEPT ![n][b][k] = f]
        BY <1>1, <1>6 DEF Monitor, EnvTypeOK
  <2>3. slot' \in [Nodes -> [Buckets -> [Slots -> Slot]]]
        BY <1>1, <2>1, <2>2, SlotSet
  <2>4. EnvTypeOK' BY <1>1, <1>6, <2>3 DEF EnvTypeOK, Monitor
  <2>5. UNCHANGED << store, now >> BY <1>6 DEF Monitor
  <2>6. QED BY <1>1, <2>4, <2>5, StoreUnchanged DEF IInv
<1>7. CASE ExecTerminate(n, b, k)
      BY <1>1, <1>2, <1>3, <1>4, <1>7, FinishesInv DEF ExecTerminate, IInv
<1>8. CASE ExecTimeout(n, b, k) \/ ExecCancelled(n, b, k)
      BY <1>1, <1>3, <1>8, StoreUnchanged DEF ExecTimeout, ExecCancelled, IInv
<1>9. QED BY <1>5, <1>6, <1>7, <1>8

LEMMA CrashInv == ASSUME IInv, NEW n \in Nodes, Crash(n) PROVE IInv'
<1>1. IdleWorker \in Worker /\ FreeSlot \in Slot /\ IdleSweep \in Sweep
      BY DEF Worker, Slot, Sweep
<1>2. EnvTypeOK' BY <1>1 DEF IInv, EnvTypeOK, Crash
<1>3. UNCHANGED << store, now >> BY DEF Crash
<1>4. QED BY <1>2, <1>3, StoreUnchanged DEF IInv, StoreInv, StoreTypeOK

LEMMA CancelInv == ASSUME IInv, NEW n \in Nodes, Cancel(n) PROVE IInv'
<1>1. PICK inSelect \in SUBSET {b \in Buckets : worker[n][b] = IdleWorker} :
        worker' = [worker EXCEPT ![n] = [b \in Buckets |->
                     IF b \in inSelect THEN GoneWorker ELSE @[b]]]
      BY DEF Cancel
<1>2. worker' \in [Nodes -> [Buckets -> Worker]]
  <2>1. GoneWorker \in Worker /\ worker \in [Nodes -> [Buckets -> Worker]]
        BY DEF Worker, IInv, EnvTypeOK
  <2>2. QED BY <1>1, <2>1
<1>3. EnvTypeOK' BY <1>2 DEF IInv, EnvTypeOK, Cancel
<1>4. UNCHANGED << store, now >> BY DEF Cancel
<1>5. QED BY <1>3, <1>4, StoreUnchanged DEF IInv, StoreInv, StoreTypeOK

-----------------------------------------------------------------------------
LEMMA NextInv == IInv /\ [Next]_vars => IInv'
<1> SUFFICES ASSUME IInv, [Next]_vars PROVE IInv' OBVIOUS
<1>1. CASE Tick
  <2>1. now' \in 0..MaxTime
        BY <1>1, ClockAssumption DEF Tick, IInv, StoreInv, StoreTypeOK
  <2>2. StoreInv' BY <1>1, <2>1, StoreUnchanged DEF Tick, IInv
  <2>3. part' \in 0..(Parts - 1)
    <3>1. part \in 0..(Parts - 1) BY DEF IInv, EnvTypeOK
    <3>2. QED BY <1>1, <3>1, QueueAssumption DEF Tick
  <2>5. EnvTypeOK' BY <1>1, <2>3 DEF Tick, IInv, EnvTypeOK
  <2>6. QED BY <2>2, <2>5 DEF IInv
<1>2. CASE Api BY <1>2, ApiInv
<1>3. CASE Timers BY <1>3, TimersInv
<1>4. CASE Workers BY <1>4, WorkerInv, ExecInv DEF Workers
<1>5. CASE \E n \in Nodes : Cancel(n) \/ Crash(n) BY <1>5, CancelInv, CrashInv
<1>6. CASE UNCHANGED vars
  <2>1. UNCHANGED << store, now >> BY <1>6 DEF vars
  <2>2. StoreInv' BY <2>1, StoreUnchanged DEF IInv, StoreInv, StoreTypeOK
  <2>3. EnvTypeOK' BY <1>6 DEF vars, env, IInv, EnvTypeOK
  <2>4. QED BY <2>2, <2>3 DEF IInv
<1>7. QED BY <1>1, <1>2, <1>3, <1>4, <1>5, <1>6 DEF Next

(* The inductive invariant holds in every reachable state.                 *)
THEOREM Invariance == Spec => []IInv
BY InitInv, NextInv, PTL DEF Spec

(* Type correctness, for all values of the constants.                      *)
THEOREM TypeCorrect == Spec => []TypeOK
<1>1. IInv => TypeOK BY DEF IInv, StoreInv, TypeOK
<1>2. QED BY <1>1, Invariance, PTL

(* No queue of a bucket holds a job whose info is gone.                    *)
THEOREM NoGhosts == Spec => []NoGhostJobs
<1>1. IInv => NoGhostJobs BY DEF IInv, StoreInv
<1>2. QED BY <1>1, Invariance, PTL

(* Running2ReadyScript always finds the ttl and the configured retries of  *)
(* a periodic job, so it never aborts half way.                            *)
THEOREM ScriptsNeverAbort == Spec => []ScriptsTotal
<1>1. IInv => ScriptsTotal BY DEF IInv, StoreInv
<1>2. QED BY <1>1, Invariance, PTL

(* A readable result belongs to a run that is over.                        *)
THEOREM ResultsAreFinal == Spec => []ResultMeansDone
<1>1. IInv => ResultMeansDone BY DEF IInv, StoreInv
<1>2. QED BY <1>1, Invariance, PTL

-----------------------------------------------------------------------------
(* Slots.                                                                  *)

\* Only the worker of a bucket takes its slots, so the slot it found free
\* stays free until it takes it; PoppedJobHasSlot alone says nothing of the
\* worker that is about to pop.
SlotInv ==
  \A n \in Nodes, b \in Buckets :
    worker[n][b].pc \in {"pop", "acquire"} => FreeSlots(n, b) # {}

LEMMA SlotNext == IInv /\ SlotInv /\ [Next]_vars => SlotInv'
<1> SUFFICES ASSUME IInv, SlotInv, [Next]_vars, NEW n \in Nodes, NEW b \in Buckets,
                    worker'[n][b].pc \in {"pop", "acquire"}
             PROVE  \E k \in Slots : slot'[n][b][k].st = "free"
    BY DEF SlotInv, FreeSlots
<1>1. /\ worker \in [Nodes -> [Buckets -> Worker]]
      /\ slot \in [Nodes -> [Buckets -> [Slots -> Slot]]]
      BY DEF IInv, EnvTypeOK
<1>2. worker[n][b].pc \in {"pop", "acquire"} =>
        \E k \in Slots : slot[n][b][k].st = "free"
      BY DEF SlotInv, FreeSlots
<1>3. CASE UNCHANGED << worker, slot >> BY <1>2, <1>3
<1>4. CASE Tick \/ Api \/ Timers \/ UNCHANGED vars
  <2>1. UNCHANGED << worker, slot >>
        BY <1>4 DEF Tick, Api, Timers, Deliver, StopJob, RecoverJob, DeleteJob,
           Request, StopCheck, StopEval, RecoverLoad, RecoverSend, DeleteEval,
           CallGoes, CallEnds, Pending2ReadyTimer, Running2ReadyTimer,
           SweepStep, SweepSelect, SweepFlag, SweepInfo, SweepPlan, SweepEval,
           SweepGoes, env, vars
  <2>2. QED BY <1>3, <2>1
<1>5. ASSUME NEW m \in Nodes, NEW c \in Buckets, WorkerStep(m, c)
      PROVE  \E k \in Slots : slot'[n][b][k].st = "free"
  <2>1. PICK w : WorkerGoes(m, c, w) BY <1>5
        DEF WorkerStep, Probe, PopNothing, Pop, Acquire, Load, LoadFails, Fail
  <2>2. m # n \/ c # b => worker'[n][b] = worker[n][b]
        BY <1>1, <2>1 DEF WorkerGoes
  <2>3. m # n \/ c # b => slot'[n][b] = slot[n][b]
    <3>1. slot' = slot \/ \E k \in Slots : \E e : slot' = [slot EXCEPT ![m][c][k] = e]
      <4>1. CASE Probe(m, c) \/ PopNothing(m, c) \/ Pop(m, c) \/ LoadFails(m, c)
            BY <4>1 DEF Probe, PopNothing, Pop, LoadFails
      <4>2. CASE Acquire(m, c) BY <4>2 DEF Acquire, FreeSlots
      <4>3. CASE Load(m, c) BY <4>3 DEF Load
      <4>4. CASE Fail(m, c) BY <4>4 DEF Fail
      <4>5. QED BY <1>5, <4>1, <4>2, <4>3, <4>4 DEF WorkerStep
    <3>2. QED BY <1>1, <3>1
  <2>4. CASE m = n /\ c = b
    <3>1. CASE Probe(n, b) BY <3>1 DEF Probe, FreeSlots
    <3>2. CASE Pop(n, b) BY <1>2, <3>2 DEF Pop
    <3>3. CASE PopNothing(n, b) \/ Load(n, b) \/ Fail(n, b)
      <4>1. WorkerGoes(n, b, NextRound(n)) BY <3>3 DEF PopNothing, Load, Fail
      <4>2. worker'[n][b] = NextRound(n) BY <1>1, <4>1 DEF WorkerGoes
      <4>3. QED BY <4>2, NextRoundSet
    <3>4. CASE Acquire(n, b) \/ LoadFails(n, b)
      <4>1. \/ worker'[n][b] = [worker[n][b] EXCEPT !.pc = "load"]
            \/ worker'[n][b] = [worker[n][b] EXCEPT !.pc = "fail"]
            BY <1>1, <3>4 DEF Acquire, LoadFails, WorkerGoes
      <4>2. worker[n][b] \in Worker BY <1>1
      <4>3. worker'[n][b].pc \in {"load", "fail"}
            BY <4>1, <4>2 DEF Worker, IdleWorker, Popping, GoneWorker
      <4>4. QED BY <4>3
    <3>5. QED BY <1>5, <2>4, <3>1, <3>2, <3>3, <3>4 DEF WorkerStep
  <2>5. QED BY <1>2, <2>2, <2>3, <2>4
<1>6. ASSUME NEW m \in Nodes, NEW c \in Buckets, NEW k \in Slots,
             \/ ExecResult(m, c, k) \/ Monitor(m, c, k)
             \/ ExecTerminate(m, c, k) \/ ExecTimeout(m, c, k)
             \/ ExecCancelled(m, c, k)
      PROVE  \E j \in Slots : slot'[n][b][j].st = "free"
  <2>1. worker' = worker
        BY <1>6 DEF ExecResult, Monitor, ExecTerminate, ExecTimeout,
           ExecCancelled, ExecEnds
  <2>2. PICK j \in Slots : slot[n][b][j].st = "free" BY <1>2, <2>1
  <2>3. slot'[n][b][j] = slot[n][b][j] \/ slot'[n][b][j] = FreeSlot
    <3>1. CASE Monitor(m, c, k)
          BY <1>1, <2>2, <3>1 DEF Monitor
    <3>2. CASE ExecEnds(m, c, k) BY <1>1, <3>2 DEF ExecEnds
    <3>3. QED BY <1>6, <3>1, <3>2 DEF ExecResult, ExecTerminate, ExecTimeout,
             ExecCancelled
  <2>4. QED BY <2>2, <2>3 DEF FreeSlot
<1>7. ASSUME NEW m \in Nodes, Crash(m)
      PROVE  \E k \in Slots : slot'[n][b][k].st = "free"
  <2>1. CASE m = n
    <3>1. worker'[n][b] = IdleWorker BY <1>1, <1>7, <2>1 DEF Crash
    <3>2. QED BY <3>1 DEF IdleWorker
  <2>2. CASE m # n
    <3>1. worker'[n][b] = worker[n][b] /\ slot'[n][b] = slot[n][b]
          BY <1>1, <1>7, <2>2 DEF Crash
    <3>2. QED BY <1>2, <3>1
  <2>3. QED BY <2>1, <2>2
<1>8. ASSUME NEW m \in Nodes, Cancel(m)
      PROVE  \E k \in Slots : slot'[n][b][k].st = "free"
  <2>1. worker'[n][b] = worker[n][b] \/ worker'[n][b] = GoneWorker
        BY <1>1, <1>8 DEF Cancel
  <2>2. slot' = slot BY <1>8 DEF Cancel
  <2>3. QED BY <1>2, <2>1, <2>2 DEF GoneWorker
<1>9. QED BY <1>4, <1>5, <1>6, <1>7, <1>8 DEF Next, Workers

(* The slot a worker probed for before it popped is there when it needs it:*)
(* no job waits in the running set for a worker blocked on its semaphore.  *)
THEOREM PoppedFindsSlot == Spec => []PoppedJobHasSlot
<1>1. Init => SlotInv BY DEF Init, SlotInv, IdleWorker
<1>2. SlotInv => PoppedJobHasSlot BY DEF SlotInv, PoppedJobHasSlot
<1>3. QED BY <1>1, <1>2, SlotNext, Invariance, PTL DEF Spec

-----------------------------------------------------------------------------
(* The home bucket of a job.                                               *)

\* HomeBucket is not inductive alone: a fresh id must be nowhere, and a request
\* must still know the bucket of its job, or that the job was deleted meanwhile.
HomeInv ==
  /\ HomeBucket
  /\ \A i \in Ids \ issued : bucketOf[i] = NoBucket
  /\ \A c \in Clients :
       call[c].pc # "idle" =>
         /\ call[c].pc \notin {"recoverLoad", "recoverSend"}
         /\ call[c].id \in issued
         /\ bucketOf[call[c].id] \in {call[c].bucket, NoBucket}

\* A step that moves jobs inside their buckets and leaves the requests alone.
LEMMA HomeKept ==
  ASSUME HomeInv, NoneNew, UNCHANGED << issued, call >>
  PROVE  HomeInv'
BY DEF HomeInv, HomeBucket, NoneNew

LEMMA SamePlaces == ASSUME UNCHANGED store PROVE NoneNew
BY DEF store, NoneNew, Present, Queued

LEMMA HomeDeliver ==
  ASSUME IInv, HomeInv, NEW i \in Ids, Deliver(i)
  PROVE  HomeInv'
<1>1. PICK b \in Buckets, t \in StartTimes(i) : Send2Pending(b, i, t)
      BY DEF Deliver
<1>2. /\ i \notin issued
      /\ issued' = issued \cup {i}
      /\ UNCHANGED call
      /\ StoreTypeOK /\ EnvTypeOK
      BY DEF Deliver, IInv, StoreInv
<1>3. CASE UNCHANGED store
  <2>1. NoneNew BY <1>3, SamePlaces
  <2>2. QED BY <1>2, <2>1 DEF HomeInv, HomeBucket, NoneNew
<1>4. CASE /\ \A c \in Buckets, j \in Ids :
                Present(c, j)' => Present(c, j) \/ (c = b /\ j = i)
           /\ bucketOf' = [bucketOf EXCEPT ![i] = b]
  <2>1. \A j \in Ids : bucketOf'[j] = IF j = i THEN b ELSE bucketOf[j]
        BY <1>2, <1>4 DEF StoreTypeOK
  <2>2. \A c \in Buckets : ~Present(c, i)
        BY <1>2, BucketsAssumption DEF HomeInv, HomeBucket
  <2>3. HomeBucket' BY <1>4, <2>1, <2>2 DEF HomeInv, HomeBucket
  <2>4. \A j \in Ids \ issued' : bucketOf'[j] = NoBucket
        BY <1>2, <2>1 DEF HomeInv
  <2>5. \A c \in Clients : call[c].pc # "idle" =>
          call[c].id \in Ids /\ call[c].id # i
        BY <1>2 DEF HomeInv, EnvTypeOK
  <2>6. QED BY <1>2, <2>1, <2>3, <2>4, <2>5 DEF HomeInv
<1>5. QED BY <1>1, <1>2, <1>3, <1>4, Send2PendingPlaces

LEMMA HomeApi ==
  ASSUME "recover" \notin Ops, IInv, HomeInv, Api
  PROVE  HomeInv'
<1>1. /\ StoreTypeOK /\ EnvTypeOK
      /\ call \in [Clients -> CallType]
      /\ issued \subseteq Ids
      BY DEF IInv, StoreInv, EnvTypeOK
<1>2. ASSUME NEW c \in Clients, NEW i \in issued,
             StopJob(c, i) \/ RecoverJob(c, i) \/ DeleteJob(c, i)
      PROVE  HomeInv'
  <2>1. PICK pc \in {"stopCheck", "deleteEval"} :
          call' = [call EXCEPT ![c] = [pc |-> pc, id |-> i, bucket |-> bucketOf[i]]]
        BY <1>2 DEF StopJob, RecoverJob, DeleteJob, Request, CallGoes
  <2>2. UNCHANGED issued /\ UNCHANGED store
        BY <1>2 DEF StopJob, RecoverJob, DeleteJob, Request, CallGoes
  <2>3. NoneNew BY <2>2, SamePlaces
  <2>4. \A d \in Clients : call'[d] =
          IF d = c THEN [pc |-> pc, id |-> i, bucket |-> bucketOf[i]] ELSE call[d]
        BY <1>1, <2>1
  <2>5. QED BY <2>2, <2>3, <2>4 DEF HomeInv, HomeBucket, NoneNew
<1>3. ASSUME NEW c \in Clients, StopCheck(c) \/ StopEval(c)
      PROVE  HomeInv'
  <2>1. call[c].id \in Ids /\ call[c].bucket \in Buckets
        BY <1>1, <1>3, CallArgs DEF StopCheck, StopEval
  <2>2. NoneNew
        BY <1>1, <1>3, <2>1, SamePlaces, TerminatePlaces DEF StopCheck, StopEval
  <2>3. UNCHANGED issued BY <1>3 DEF StopCheck, StopEval, CallGoes, CallEnds
  <2>4. \/ call' = [call EXCEPT ![c] = NoCall]
        \/ /\ call[c].pc = "stopCheck"
           /\ call' = [call EXCEPT ![c] =
                [pc |-> "stopEval", id |-> call[c].id, bucket |-> call[c].bucket]]
        BY <1>3 DEF StopCheck, StopEval, CallGoes, CallEnds
  <2>5. \A d \in Clients :
          \/ call'[d] = call[d]
          \/ call'[d].pc = "idle"
          \/ /\ call[d].pc = "stopCheck"
             /\ call'[d] = [pc |-> "stopEval", id |-> call[d].id,
                            bucket |-> call[d].bucket]
        BY <1>1, <2>4 DEF NoCall
  <2>6. \A d \in Clients : call'[d].pc # "idle" =>
          /\ call[d].pc # "idle"
          /\ call'[d].pc \notin {"recoverLoad", "recoverSend"}
          /\ call'[d].id = call[d].id
          /\ call'[d].bucket = call[d].bucket
    <3> SUFFICES ASSUME NEW d \in Clients, call'[d].pc # "idle"
                 PROVE  /\ call[d].pc # "idle"
                        /\ call'[d].pc \notin {"recoverLoad", "recoverSend"}
                        /\ call'[d].id = call[d].id
                        /\ call'[d].bucket = call[d].bucket
        OBVIOUS
    <3>1. CASE call'[d] = call[d] BY <3>1 DEF HomeInv
    <3>2. CASE /\ call[d].pc = "stopCheck"
               /\ call'[d] = [pc |-> "stopEval", id |-> call[d].id,
                              bucket |-> call[d].bucket]
          BY <3>2
    <3>3. QED BY <2>5, <3>1, <3>2
  <2>7. HomeBucket' /\ UNCHANGED bucketOf
        BY <2>2 DEF HomeInv, HomeBucket, NoneNew
  <2>8. QED BY <2>3, <2>6, <2>7 DEF HomeInv
<1>4. ASSUME NEW c \in Clients, DeleteEval(c) PROVE HomeInv'
  <2> DEFINE b == call[c].bucket
             i == call[c].id
  <2>1. /\ i \in Ids /\ b \in Buckets
        /\ bucketOf[i] \in {b, NoBucket}
        BY <1>1, <1>4, CallArgs DEF DeleteEval, HomeInv
  <2>2. /\ \A d \in Buckets, j \in Ids :
             Present(d, j)' => Present(d, j) /\ (d # b \/ j # i)
        /\ bucketOf' = [bucketOf EXCEPT ![i] = NoBucket]
        BY <1>1, <1>4, <2>1, DeletePlaces DEF DeleteEval
  <2> HIDE DEF b, i
  <2>3. \A j \in Ids : bucketOf'[j] = IF j = i THEN NoBucket ELSE bucketOf[j]
        BY <1>1, <2>2 DEF StoreTypeOK
  <2>4. HomeBucket'
        BY <2>1, <2>2, <2>3, BucketsAssumption DEF HomeInv, HomeBucket
  <2>5. UNCHANGED issued /\ call' = [call EXCEPT ![c] = NoCall]
        BY <1>4 DEF DeleteEval, CallEnds
  <2>6. \A d \in Clients : call'[d] = call[d] \/ call'[d].pc = "idle"
        BY <1>1, <2>5 DEF NoCall
  <2>7. QED BY <1>1, <2>3, <2>4, <2>5, <2>6 DEF HomeInv
<1>5. ASSUME NEW c \in Clients, RecoverLoad(c) \/ RecoverSend(c)
      PROVE  FALSE
      BY <1>5 DEF HomeInv, RecoverLoad, RecoverSend
<1>6. QED BY <1>2, <1>3, <1>4, <1>5, HomeDeliver DEF Api

LEMMA HomeTimers == ASSUME IInv, HomeInv, Timers PROVE HomeInv'
<1>1. StoreTypeOK /\ EnvTypeOK BY DEF IInv, StoreInv
<1>2. UNCHANGED << issued, call >>
      BY DEF Timers, Pending2ReadyTimer, Running2ReadyTimer, SweepStep,
             SweepSelect, SweepFlag, SweepInfo, SweepPlan, SweepEval, SweepGoes, env
<1>3. ASSUME NEW n \in Nodes, NEW b \in Buckets, SweepEval(n, b) PROVE NoneNew
  <2>1. sweep[n][b].id \in Ids
        BY <1>1, <1>3 DEF SweepEval, EnvTypeOK, Sweep, IdleSweep
  <2>2. QED BY <1>1, <1>3, <2>1, Running2PendingPlaces DEF SweepEval
<1>4. NoneNew
      BY <1>1, <1>3, SamePlaces, Pending2ReadyPlaces, Running2ReadyPlaces
      DEF Timers, Pending2ReadyTimer, Running2ReadyTimer, SweepStep, SweepSelect,
          SweepFlag, SweepInfo, SweepPlan
<1>5. QED BY <1>2, <1>4, HomeKept

LEMMA HomeWorkers == ASSUME IInv, HomeInv, Workers PROVE HomeInv'
<1>1. StoreTypeOK /\ EnvTypeOK BY DEF IInv, StoreInv
<1>2. ASSUME NEW n \in Nodes, NEW b \in Buckets, WorkerStep(n, b)
      PROVE  NoneNew /\ UNCHANGED << issued, call >>
  <2>1. UNCHANGED << issued, call >>
        BY <1>2 DEF WorkerStep, Probe, PopNothing, Pop, Acquire, Load, LoadFails,
                    Fail, WorkerGoes
  <2>2. CASE Fail(n, b)
    <3> DEFINE w == worker[n][b]
    <3>1. w \in Worker /\ w.pc = "fail" BY <1>1, <2>2 DEF Fail, EnvTypeOK
    <3>2. w.id \in Ids BY <3>1 DEF Worker, IdleWorker, Popping, GoneWorker
    <3>3. Running2Finish(b, w.id, "Error") \/ UNCHANGED store
          BY <2>2 DEF Fail, Finishes
    <3>4. NoneNew BY <1>1, <3>2, <3>3, SamePlaces, Running2FinishPlaces
    <3>5. QED BY <2>1, <3>4
  <2>3. CASE PopNothing(n, b) \/ Pop(n, b)
    <3>1. \/ UNCHANGED store
          \/ Ready2RunningDrop(b) \/ \E i \in Ids : Ready2Running(b, i)
          BY <2>3 DEF PopNothing, Pop
    <3>2. QED BY <1>1, <2>1, <3>1, SamePlaces, Ready2RunningPlaces
  <2>4. CASE Probe(n, b) \/ Acquire(n, b) \/ Load(n, b) \/ LoadFails(n, b)
        BY <2>1, <2>4, SamePlaces DEF Probe, Acquire, Load, LoadFails
  <2>5. QED BY <1>2, <2>2, <2>3, <2>4 DEF WorkerStep
<1>3. ASSUME NEW n \in Nodes, NEW b \in Buckets, NEW k \in Slots,
             \/ ExecResult(n, b, k) \/ Monitor(n, b, k)
             \/ ExecTerminate(n, b, k) \/ ExecTimeout(n, b, k)
             \/ ExecCancelled(n, b, k)
      PROVE  NoneNew /\ UNCHANGED << issued, call >>
  <2>1. UNCHANGED << issued, call >>
        BY <1>3 DEF ExecResult, Monitor, ExecTerminate, ExecTimeout,
           ExecCancelled, ExecEnds
  <2>2. slot[n][b][k].st = "exec" => slot[n][b][k].id \in Ids
        BY <1>1 DEF EnvTypeOK, Slot, FreeSlot, LostSlot
  <2>3. NoneNew
        BY <1>1, <1>3, <2>2, SamePlaces, Running2FinishPlaces
        DEF ExecResult, Monitor, ExecTerminate, ExecTimeout, ExecCancelled, Finishes
  <2>4. QED BY <2>1, <2>3
<1>4. QED BY <1>2, <1>3, HomeKept DEF Workers

LEMMA HomeInvariance ==
  ASSUME "recover" \notin Ops
  PROVE  Spec => []HomeInv
<1>1. Init => HomeInv
      BY DEF Init, StoreInit, HomeInv, HomeBucket, Present, Queued, NoCall
<1>2. IInv /\ HomeInv /\ [Next]_vars => HomeInv'
  <2> SUFFICES ASSUME IInv, HomeInv, [Next]_vars PROVE HomeInv' OBVIOUS
  <2>1. CASE \/ Tick \/ UNCHANGED vars
             \/ \E n \in Nodes : Cancel(n) \/ Crash(n)
    <3>1. UNCHANGED store /\ UNCHANGED << issued, call >>
          BY <2>1 DEF Tick, Cancel, Crash, vars, env
    <3>2. QED BY <3>1, SamePlaces, HomeKept
  <2>2. QED BY <2>1, HomeApi, HomeTimers, HomeWorkers DEF Next
<1>3. QED BY <1>1, <1>2, Invariance, PTL DEF Spec

(* Without recovery a job is only ever in the bucket recorded for it, so a *)
(* delete that has read that bucket leaves the job in no queue at all.     *)
THEOREM HomeIsUnique ==
  ASSUME "recover" \notin Ops
  PROVE  Spec => []HomeBucket
<1>1. HomeInv => HomeBucket BY DEF HomeInv
<1>2. QED BY <1>1, HomeInvariance, PTL

-----------------------------------------------------------------------------
(* A step sends at most one script, and the clock stands still meanwhile.  *)

LEMMA OneScript ==
  ASSUME IInv, [Next]_vars
  PROVE  \/ UNCHANGED store /\ now' \in {now, now + 1}
         \/ Move /\ UNCHANGED now
         \/ /\ Script /\ UNCHANGED now
            /\ (\E i \in Ids : Deliver(i)) \/ \E c \in Clients : RecoverSend(c)
<1>1. /\ StoreTypeOK /\ EnvTypeOK /\ now \in Nat
      /\ {"Success", "Error", "Terminate"} \subseteq Terminal
      BY TimesAreNat DEF IInv, StoreInv, Terminal
<1>2. CASE \/ Tick \/ UNCHANGED vars
           \/ \E n \in Nodes : Cancel(n) \/ Crash(n)
      BY <1>2 DEF Tick, Cancel, Crash, vars, env
<1>3. CASE Api
  <2>1. ASSUME NEW i \in Ids, Deliver(i) PROVE Script /\ UNCHANGED now
    <3>1. PICK b \in Buckets, t \in StartTimes(i) : Send2Pending(b, i, t)
          BY <2>1 DEF Deliver
    <3>2. t \in Nat BY <1>1, TimesAreNat
    <3>3. QED BY <2>1, <3>1, <3>2 DEF Deliver, Script
  <2>2. ASSUME NEW c \in Clients, NEW i \in issued,
               StopJob(c, i) \/ RecoverJob(c, i) \/ DeleteJob(c, i)
        PROVE  UNCHANGED << store, now >>
        BY <2>2 DEF StopJob, RecoverJob, DeleteJob, Request, CallGoes
  <2>3. ASSUME NEW c \in Clients, StopCheck(c) \/ RecoverLoad(c)
        PROVE  UNCHANGED << store, now >>
        BY <2>3 DEF StopCheck, RecoverLoad, CallGoes, CallEnds
  <2>4. ASSUME NEW c \in Clients, StopEval(c) \/ DeleteEval(c) \/ RecoverSend(c)
        PROVE  IF RecoverSend(c) THEN Script /\ UNCHANGED now
                                 ELSE Move /\ UNCHANGED now
    <3>1. /\ call[c].id \in Ids
          /\ ~RecoverSend(c) => call[c].bucket \in Buckets
          BY <1>1, <2>4, CallArgs DEF StopEval, DeleteEval, RecoverSend
    <3>2. UNCHANGED now BY <2>4 DEF StopEval, DeleteEval, RecoverSend, CallEnds
    <3>3. CASE StopEval(c) /\ ~RecoverSend(c)
      <4>1. call[c].bucket \in Buckets BY <1>1, <3>3, CallArgs DEF StopEval
      <4>2. QED BY <3>1, <3>2, <3>3, <4>1 DEF StopEval, Move
    <3>4. CASE DeleteEval(c) /\ ~RecoverSend(c)
      <4>1. call[c].bucket \in Buckets BY <1>1, <3>4, CallArgs DEF DeleteEval
      <4>2. QED BY <3>1, <3>2, <3>4, <4>1 DEF DeleteEval, Move
    <3>5. CASE RecoverSend(c) BY <1>1, <3>1, <3>2, <3>5 DEF RecoverSend, Script
    <3>6. QED BY <2>4, <3>3, <3>4, <3>5
  <2>5. QED BY <1>3, <2>1, <2>2, <2>3, <2>4 DEF Api
<1>4. CASE Timers
  <2>1. ASSUME NEW b \in Buckets, Pending2ReadyTimer(b) \/ Running2ReadyTimer(b)
        PROVE  Move /\ UNCHANGED now
        BY <2>1 DEF Pending2ReadyTimer, Running2ReadyTimer, Move
  <2>2. ASSUME NEW n \in Nodes, NEW b \in Buckets, SweepEval(n, b)
        PROVE  Move /\ UNCHANGED now
    <3>1. sweep[n][b] \in Sweep /\ sweep[n][b].pc = "eval"
          BY <1>1, <2>2 DEF SweepEval, EnvTypeOK
    <3>2. /\ sweep[n][b].id \in Ids
          /\ sweep[n][b].at \in Nat /\ sweep[n][b].next \in Nat
          BY <3>1 DEF Sweep, IdleSweep
    <3>3. QED BY <2>2, <3>2 DEF SweepEval, SweepGoes, Move
  <2>3. ASSUME NEW n \in Nodes, NEW b \in Buckets,
               \/ SweepSelect(n, b) \/ SweepFlag(n, b)
               \/ SweepInfo(n, b) \/ SweepPlan(n, b)
        PROVE  UNCHANGED << store, now >>
        BY <2>3 DEF SweepSelect, SweepFlag, SweepInfo, SweepPlan, SweepGoes
  <2>4. QED BY <1>4, <2>1, <2>2, <2>3 DEF Timers, SweepStep
<1>5. CASE Workers
  <2>1. ASSUME NEW n \in Nodes, NEW b \in Buckets, WorkerStep(n, b)
        PROVE  \/ UNCHANGED << store, now >>
               \/ Move /\ UNCHANGED now
    <3>1. UNCHANGED now
          BY <2>1 DEF WorkerStep, Probe, PopNothing, Pop, Acquire, Load, LoadFails,
                      Fail, WorkerGoes
    <3>2. CASE PopNothing(n, b) BY <3>1, <3>2 DEF PopNothing, Move
    <3>3. CASE Pop(n, b) BY <3>1, <3>3 DEF Pop, Move
    <3>4. CASE Fail(n, b)
      <4> DEFINE w == worker[n][b]
      <4>1. w \in Worker /\ w.pc = "fail" BY <1>1, <3>4 DEF Fail, EnvTypeOK
      <4>2. w.id \in Ids BY <4>1 DEF Worker, IdleWorker, Popping, GoneWorker
      <4>3. Running2Finish(b, w.id, "Error") \/ UNCHANGED store
            BY <3>4 DEF Fail, Finishes
      <4>4. QED BY <1>1, <3>1, <4>2, <4>3 DEF Move
    <3>5. CASE Probe(n, b) \/ Acquire(n, b) \/ Load(n, b) \/ LoadFails(n, b)
          BY <3>1, <3>5 DEF Probe, Acquire, Load, LoadFails
    <3>6. QED BY <2>1, <3>2, <3>3, <3>4, <3>5 DEF WorkerStep
  <2>2. ASSUME NEW n \in Nodes, NEW b \in Buckets, NEW k \in Slots,
               \/ ExecResult(n, b, k) \/ Monitor(n, b, k)
               \/ ExecTerminate(n, b, k) \/ ExecTimeout(n, b, k)
               \/ ExecCancelled(n, b, k)
        PROVE  \/ UNCHANGED << store, now >>
               \/ Move /\ UNCHANGED now
    <3> DEFINE e == slot[n][b][k]
    <3>1. UNCHANGED now
          BY <2>2 DEF ExecResult, Monitor, ExecTerminate, ExecTimeout,
           ExecCancelled, ExecEnds
    <3>2. e.st = "exec" => e.id \in Ids
          BY <1>1 DEF EnvTypeOK, Slot, FreeSlot, LostSlot
    <3>3. CASE ExecResult(n, b, k)
          BY <1>1, <3>1, <3>2, <3>3 DEF ExecResult, Finishes, Move
    <3>4. CASE ExecTerminate(n, b, k)
          BY <1>1, <3>1, <3>2, <3>4 DEF ExecTerminate, Finishes, Move
    <3>5. CASE Monitor(n, b, k) \/ ExecTimeout(n, b, k) \/ ExecCancelled(n, b, k)
          BY <3>1, <3>5 DEF Monitor, ExecTimeout, ExecCancelled
    <3>6. QED BY <2>2, <3>3, <3>4, <3>5
  <2>3. QED BY <1>5, <2>1, <2>2 DEF Workers
<1>6. QED BY <1>2, <1>3, <1>4, <1>5 DEF Next

\* Only a delivery hands out an id.
LEMMA IssuedGrows ==
  ASSUME [Next]_vars
  PROVE  \/ UNCHANGED issued
         \/ \E i \in Ids : Deliver(i) /\ issued' = issued \cup {i}
<1>1. CASE \/ Tick \/ UNCHANGED vars
           \/ \E n \in Nodes : Cancel(n) \/ Crash(n)
      BY <1>1 DEF Tick, Cancel, Crash, vars, env
<1>2. CASE Api
      BY <1>2 DEF Api, Deliver, StopJob, RecoverJob, DeleteJob, Request, StopCheck,
         StopEval, RecoverLoad, RecoverSend, DeleteEval, CallGoes, CallEnds
<1>3. CASE Timers
      BY <1>3 DEF Timers, Pending2ReadyTimer, Running2ReadyTimer, SweepStep,
         SweepSelect, SweepFlag, SweepInfo, SweepPlan, SweepEval, SweepGoes, env
<1>4. CASE Workers
  <2>1. ASSUME NEW n \in Nodes, NEW b \in Buckets, WorkerStep(n, b)
        PROVE  UNCHANGED issued
        BY <2>1 DEF WorkerStep, Probe, PopNothing, Pop, Acquire, Load, LoadFails,
           Fail, WorkerGoes
  <2>2. ASSUME NEW n \in Nodes, NEW b \in Buckets, NEW k \in Slots,
               \/ ExecResult(n, b, k) \/ Monitor(n, b, k)
               \/ ExecTerminate(n, b, k) \/ ExecTimeout(n, b, k)
               \/ ExecCancelled(n, b, k)
        PROVE  UNCHANGED issued
        BY <2>2 DEF ExecResult, Monitor, ExecTerminate, ExecTimeout,
           ExecCancelled, ExecEnds
  <2>3. QED BY <1>4, <2>1, <2>2 DEF Workers
<1>5. QED BY <1>1, <1>2, <1>3, <1>4 DEF Next

-----------------------------------------------------------------------------
(* The cron entries, recovery included.                                    *)

LEMMA CronStepNext ==
  ASSUME IInv, CronInv, [Next]_vars
  PROVE  CronStep
<1>1. StoreTypeOK /\ now \in Nat BY TimesAreNat DEF IInv, StoreInv
<1>2. CASE UNCHANGED store /\ now' \in {now, now + 1}
  <2>1. ASSUME NEW b \in Buckets, NEW i \in Periodic
        PROVE  CronEntry(b, i)' /\ (CronKept(b, i) => CronKept(b, i)')
    <3>1. i \in Ids /\ CronEntry(b, i) BY JobsAssumption DEF CronInv
    <3>2. UNCHANGED << pending, period, running, ready, terminate >>
          BY <1>2 DEF store
    <3>3. CronEntry(b, i)' BY <3>1, <3>2 DEF CronEntry, Present, Queued
    <3>4. period[b][i] \in Score BY <1>1, <3>1 DEF StoreTypeOK
    <3>5. period[b][i] <= now => period[b][i] <= now'
          BY <1>1, <1>2, <3>4 DEF Score, Absent
    <3>6. CronKept(b, i) => CronKept(b, i)' BY <3>2, <3>5 DEF CronKept
    <3>7. QED BY <3>3, <3>6
  <2>2. QED BY <2>1 DEF CronStep, CronInv
<1>3. CASE Script /\ UNCHANGED now BY <1>1, <1>3, CronScript
<1>4. QED BY <1>2, <1>3, OneScript DEF Script

LEMMA CronInvariance == Spec => []CronInv
<1>1. Init => CronInv
      BY JobsAssumption
      DEF Init, StoreInit, CronInv, CronEntry, Present, Queued
<1>2. IInv /\ CronInv /\ [Next]_vars => CronInv'
      BY CronStepNext DEF CronStep
<1>3. QED BY <1>1, <1>2, Invariance, PTL DEF Spec
=============================================================================
