----------------------------- MODULE Cron_proofs -----------------------------
(***************************************************************************)
(* A periodic job is never lost, whatever requests do to it; and its cron  *)
(* entry only moves forward, however many nodes sweep it and however old   *)
(* the clock reading of a sweep is, as long as no request recovers a job   *)
(* (a recovery delivers the job again, for now).  Under the same condition *)
(* AsyncQueue implements CronTimer.                                        *)
(***************************************************************************)
EXTENDS AsyncTimer, AsyncQueue_proofs

\* Delivery leaves a job waiting for the instant of its entry, even when the
\* script refuses it because an earlier delivery still waits.
LEMMA KeptDeliver ==
  ASSUME IInv, CronInv, NEW i \in Periodic, Deliver(i)
  PROVE  \E b \in Buckets : CronKept(b, i)'
<1>1. i \in Ids /\ StoreTypeOK BY JobsAssumption DEF IInv, StoreInv
<1>2. PICK b \in Buckets, t \in StartTimes(i) : Send2Pending(b, i, t)
      BY DEF Deliver
<1>3. t # Absent BY <1>1, TimesAreNat DEF Absent
<1>4. CASE DeliveryRefused(b, i)
  <2>1. period[b][i] # Absent /\ pending[b][i] # Absent
        BY <1>1, <1>4 DEF DeliveryRefused, CronInv, CronEntry
  <2>2. UNCHANGED store BY <1>2, <1>4 DEF Send2Pending
  <2>3. QED BY <2>1, <2>2 DEF CronKept, store
<1>5. CASE ~DeliveryRefused(b, i)
  <2>1. /\ pending' = [pending EXCEPT ![b][i] = t]
        /\ period' = [period EXCEPT ![b][i] = t]
        BY <1>2, <1>5 DEF Send2Pending
  <2>2. pending'[b][i] = t /\ period'[b][i] = t
        BY <1>1, <2>1 DEF StoreTypeOK
  <2>3. QED BY <1>3, <2>2 DEF CronKept
<1>6. QED BY <1>4, <1>5

(* No firing of a periodic job is lost between two round trips: until the  *)
(* job is stopped or deleted some bucket holds it waiting, or holds a due  *)
(* cron entry that the next sweep renews.  Recovery, crashes and timeouts  *)
(* do not change that.                                                     *)
THEOREM NeverLost == Spec => []PeriodicNeverLost
<1>1. PeriodicNeverLost <=>
        \A i \in issued \cap Periodic : \E b \in Buckets : CronKept(b, i)
      BY DEF PeriodicNeverLost, CronKept
<1>2. Init => PeriodicNeverLost BY DEF Init, PeriodicNeverLost
<1>3. IInv /\ CronInv /\ PeriodicNeverLost /\ [Next]_vars => PeriodicNeverLost'
  <2> SUFFICES ASSUME IInv, CronInv, PeriodicNeverLost, [Next]_vars,
                      NEW i \in issued' \cap Periodic
               PROVE  \E b \in Buckets : CronKept(b, i)'
      BY DEF PeriodicNeverLost, CronKept
  <2>1. CASE i \in issued
    <3>1. PICK b \in Buckets : CronKept(b, i) BY <1>1, <2>1
    <3>2. CronKept(b, i)' BY <3>1, CronStepNext DEF CronStep
    <3>3. QED BY <3>2
  <2>2. CASE i \notin issued
    <3>1. Deliver(i) BY <2>2, IssuedGrows
    <3>2. QED BY <3>1, KeptDeliver
  <2>3. QED BY <2>1, <2>2
<1>4. QED BY <1>2, <1>3, CronInvariance, Invariance, PTL DEF Spec

-----------------------------------------------------------------------------
\* A sweep's clock reading is in the past, also when it computes the next
\* instant, so what it sends lies after the reading the script compares with.
SweepAhead ==
  \A n \in Nodes, b \in Buckets :
    /\ sweep[n][b].pc # "idle" => sweep[n][b].at <= now
    /\ sweep[n][b].pc = "eval" => sweep[n][b].at < sweep[n][b].next

\* Between its selection and its script a sweep goes on with the same job and the
\* same reading of the clock, or gives up.
Further(n, b, r) ==
  /\ r.id = sweep[n][b].id /\ r.at = sweep[n][b].at
  /\ \/ SweepFlag(n, b) /\ r.pc = "info" /\ r.id \notin terminate[b]
     \/ SweepInfo(n, b) /\ r.pc = "plan"
     \/ SweepPlan(n, b) /\ r.pc = "eval" /\ r.next = CronNext[now]

LEMMA SweepChecks ==
  ASSUME EnvTypeOK, NEW n \in Nodes, NEW b \in Buckets,
         SweepFlag(n, b) \/ SweepInfo(n, b) \/ SweepPlan(n, b)
  PROVE  /\ UNCHANGED store
         /\ \E r : SweepGoes(n, b, r) /\ (r = IdleSweep \/ Further(n, b, r))
<1> DEFINE s == sweep[n][b]
<1>1. /\ s \in Sweep /\ s.pc # "idle"
      /\ UNCHANGED store
      BY DEF EnvTypeOK, SweepFlag, SweepInfo, SweepPlan
<1>2. s \in [pc : {"flag", "info", "plan", "eval"}, id : Ids, at : Nat, next : Nat]
      BY <1>1 DEF Sweep, IdleSweep
<1>3. SUFFICES ~SweepGoes(n, b, IdleSweep) =>
                 \E r : SweepGoes(n, b, r) /\ Further(n, b, r)
      BY <1>1
<1>4. HAVE ~SweepGoes(n, b, IdleSweep)
<1>5. CASE SweepFlag(n, b)
  <2> DEFINE r == [s EXCEPT !.pc = "info"]
  <2>1. SweepGoes(n, b, r) /\ s.id \notin terminate[b]
        BY <1>4, <1>5 DEF SweepFlag, Stopped
  <2>2. r.id = s.id /\ r.at = s.at /\ r.pc = "info" BY <1>2
  <2> HIDE DEF r
  <2>3. QED BY <1>5, <2>1, <2>2 DEF Further
<1>6. CASE SweepInfo(n, b)
  <2> DEFINE r == [s EXCEPT !.pc = "plan"]
  <2>1. SweepGoes(n, b, r) BY <1>4, <1>6 DEF SweepInfo
  <2>2. r.id = s.id /\ r.at = s.at /\ r.pc = "plan" BY <1>2
  <2> HIDE DEF r
  <2>3. QED BY <1>6, <2>1, <2>2 DEF Further
<1>7. CASE SweepPlan(n, b)
  <2> DEFINE r == [s EXCEPT !.pc = "eval", !.next = CronNext[now]]
  <2>1. SweepGoes(n, b, r) BY <1>7 DEF SweepPlan
  <2>2. r.id = s.id /\ r.at = s.at /\ r.pc = "eval" /\ r.next = CronNext[now]
        BY <1>2
  <2> HIDE DEF r
  <2>3. QED BY <1>7, <2>1, <2>2 DEF Further
<1>8. QED BY <1>5, <1>6, <1>7

LEMMA SweepAheadGoes ==
  ASSUME IInv, SweepAhead, NEW n \in Nodes, NEW b \in Buckets, NEW r,
         SweepGoes(n, b, r),
         r.pc # "idle" => r.at <= now,
         r.pc = "eval" => r.at < r.next
  PROVE  SweepAhead'
<1>1. \A m \in Nodes, c \in Buckets :
        sweep'[m][c] = IF m = n /\ c = b THEN r ELSE sweep[m][c]
      BY DEF SweepGoes, IInv, EnvTypeOK
<1>2. now' = now BY DEF SweepGoes
<1>3. SUFFICES ASSUME NEW m \in Nodes, NEW c \in Buckets
               PROVE  /\ sweep'[m][c].pc # "idle" => sweep'[m][c].at <= now
                      /\ sweep'[m][c].pc = "eval" =>
                           sweep'[m][c].at < sweep'[m][c].next
      BY <1>2 DEF SweepAhead
<1>4. CASE m = n /\ c = b
  <2>1. sweep'[m][c] = r BY <1>1, <1>4
  <2>2. QED BY <2>1
<1>5. CASE ~(m = n /\ c = b)
  <2>1. sweep'[m][c] = sweep[m][c] BY <1>1, <1>5
  <2>2. QED BY <2>1 DEF SweepAhead
<1>6. QED BY <1>4, <1>5

LEMMA SweepAheadNext == IInv /\ SweepAhead /\ [Next]_vars => SweepAhead'
<1> SUFFICES ASSUME IInv, SweepAhead, [Next]_vars PROVE SweepAhead' OBVIOUS
<1>1. /\ sweep \in [Nodes -> [Buckets -> Sweep]]
      /\ now \in 0..MaxTime /\ now \in Nat
      BY ClockAssumption DEF IInv, EnvTypeOK, StoreInv, StoreTypeOK
<1>2. \A n \in Nodes, b \in Buckets : sweep[n][b].pc # "idle" =>
        sweep[n][b].at \in Nat /\ sweep[n][b].next \in Nat
      BY <1>1 DEF Sweep, IdleSweep
<1>3. CASE UNCHANGED << sweep, now >> BY <1>3 DEF SweepAhead
<1>4. CASE Tick
  <2>1. now' \in {now, now + 1} /\ UNCHANGED sweep BY <1>4 DEF Tick
  <2>2. \A n \in Nodes, b \in Buckets :
          sweep[n][b].pc # "idle" => sweep[n][b].at <= now'
    <3> SUFFICES ASSUME NEW n \in Nodes, NEW b \in Buckets,
                        sweep[n][b].pc # "idle"
                 PROVE  sweep[n][b].at <= now'
        OBVIOUS
    <3>1. sweep[n][b].at \in Nat BY <1>2
    <3>2. sweep[n][b].at <= now BY DEF SweepAhead
    <3>3. QED BY <1>1, <2>1, <3>1, <3>2
  <2>3. QED BY <2>1, <2>2 DEF SweepAhead
<1>5. CASE Api \/ Workers \/ UNCHANGED vars
  <2>1. CASE Api
    <3>1. UNCHANGED << sweep, now >>
          BY <2>1 DEF Api, Deliver, StopJob, RecoverJob, DeleteJob, Request,
             StopCheck, StopEval, RecoverLoad, RecoverSend, DeleteEval, CallGoes,
             CallEnds
    <3>2. QED BY <1>3, <3>1
  <2>2. ASSUME NEW n \in Nodes, NEW b \in Buckets, WorkerStep(n, b)
        PROVE  UNCHANGED << sweep, now >>
        BY <2>2 DEF WorkerStep, Probe, PopNothing, Pop, Acquire, Load, LoadFails,
           Fail, WorkerGoes
  <2>3. ASSUME NEW n \in Nodes, NEW b \in Buckets, NEW k \in Slots,
               \/ ExecResult(n, b, k) \/ Monitor(n, b, k)
               \/ ExecTerminate(n, b, k) \/ ExecTimeout(n, b, k)
               \/ ExecCancelled(n, b, k)
        PROVE  UNCHANGED << sweep, now >>
        BY <2>3 DEF ExecResult, Monitor, ExecTerminate, ExecTimeout,
           ExecCancelled, ExecEnds
  <2>4. CASE Workers BY <1>3, <2>2, <2>3, <2>4 DEF Workers
  <2>5. CASE UNCHANGED vars BY <1>3, <2>5 DEF vars, env
  <2>6. QED BY <1>5, <2>1, <2>4, <2>5
<1>6. ASSUME NEW b \in Buckets, Pending2ReadyTimer(b) \/ Running2ReadyTimer(b)
      PROVE  SweepAhead'
  <2>1. UNCHANGED << sweep, now >>
        BY <1>6 DEF Pending2ReadyTimer, Running2ReadyTimer, env
  <2>2. QED BY <1>3, <2>1
<1>7. ASSUME NEW n \in Nodes, NEW b \in Buckets, SweepStep(n, b)
      PROVE  SweepAhead'
  <2> DEFINE s == sweep[n][b]
  <2>1. CASE SweepSelect(n, b)
    <3>1. PICK i \in Earliest(b) :
            SweepGoes(n, b, [pc |-> "flag", id |-> i, at |-> now, next |-> 0])
          BY <2>1 DEF SweepSelect
    <3> DEFINE r == [pc |-> "flag", id |-> i, at |-> now, next |-> 0]
    <3>2. r.pc = "flag" /\ r.at = now /\ SweepGoes(n, b, r) BY <3>1
    <3> HIDE DEF r
    <3>3. QED BY <1>1, <3>2, SweepAheadGoes
  <2>2. CASE SweepFlag(n, b) \/ SweepInfo(n, b) \/ SweepPlan(n, b)
    <3>1. PICK r : SweepGoes(n, b, r) /\ (r = IdleSweep \/ Further(n, b, r))
          BY <1>1, <2>2, SweepChecks DEF IInv
    <3>2. s.at \in Nat /\ s.at <= now
          BY <1>1, <1>2, <2>2 DEF SweepFlag, SweepInfo, SweepPlan, SweepAhead
    <3>3. CASE r = IdleSweep BY <3>1, <3>3, SweepAheadGoes DEF IdleSweep
    <3>4. CASE Further(n, b, r)
      <4>1. r.at = s.at /\ (r.pc = "eval" => r.next = CronNext[now])
            BY <3>4 DEF Further
      <4>2. CronNext[now] > now /\ CronNext[now] \in Nat BY <1>1, ClockAssumption
      <4>3. r.pc = "eval" => r.at < r.next BY <1>1, <3>2, <4>1, <4>2
      <4>4. QED BY <3>1, <3>2, <4>1, <4>3, SweepAheadGoes
    <3>5. QED BY <3>1, <3>3, <3>4
  <2>3. CASE SweepEval(n, b)
    <3>1. SweepGoes(n, b, IdleSweep) BY <2>3 DEF SweepEval
    <3>2. QED BY <3>1, SweepAheadGoes DEF IdleSweep
  <2>4. QED BY <1>7, <2>1, <2>2, <2>3 DEF SweepStep
<1>8. ASSUME NEW n \in Nodes, Crash(n) PROVE SweepAhead'
  <2>1. sweep' = [sweep EXCEPT ![n] = [b \in Buckets |-> IdleSweep]]
        BY <1>8 DEF Crash
  <2>2. \A m \in Nodes, c \in Buckets :
          sweep'[m][c] = IF m = n THEN IdleSweep ELSE sweep[m][c]
        BY <1>1, <2>1
  <2>3. QED BY <1>8, <2>2 DEF SweepAhead, IdleSweep, Crash
<1>9. CASE \E n \in Nodes : Cancel(n) BY <1>3, <1>9 DEF Cancel
<1>10. QED BY <1>4, <1>5, <1>6, <1>7, <1>8, <1>9 DEF Next, Timers

-----------------------------------------------------------------------------
\* No entry goes back; PeriodAdvances says it of every step.
Advance ==
  \A b \in Buckets, i \in Ids :
    period[b][i] # Absent /\ period'[b][i] # Absent
      => period'[b][i] >= period[b][i]

LEMMA SamePeriod ==
  ASSUME StoreTypeOK,
         \A c \in Buckets, i \in Ids :
           \/ period'[c][i] = period[c][i]
           \/ period'[c][i] = Absent
  PROVE  Advance
BY DEF StoreTypeOK, Score, Absent, Advance

LEMMA AdvanceDeliver ==
  ASSUME IInv, HomeInv, NEW i \in Ids, Deliver(i)
  PROVE  Advance
<1>1. PICK b \in Buckets, t \in StartTimes(i) : Send2Pending(b, i, t)
      BY DEF Deliver
<1>2. StoreTypeOK BY DEF IInv, StoreInv
<1>3. i \notin issued BY DEF Deliver
<1>4. \A c \in Buckets : period[c][i] = Absent
      BY <1>3, BucketsAssumption DEF HomeInv, HomeBucket, Present
<1>5. UNCHANGED period \/ period' = [period EXCEPT ![b][i] = t]
      BY <1>1 DEF Send2Pending, store
<1>6. \A c \in Buckets, j \in Ids : j # i => period'[c][j] = period[c][j]
  <2>1. CASE UNCHANGED period BY <2>1
  <2>2. CASE period' = [period EXCEPT ![b][i] = t] BY <1>2, <2>2 DEF StoreTypeOK
  <2>3. QED BY <1>5, <2>1, <2>2
<1>7. \A c \in Buckets, j \in Ids : period[c][j] # Absent => period[c][j] \in Nat
      BY <1>2 DEF StoreTypeOK, Score
<1>8. SUFFICES ASSUME NEW c \in Buckets, NEW j \in Ids, period[c][j] # Absent
               PROVE  period'[c][j] >= period[c][j]
      BY DEF Advance
<1>9. period'[c][j] = period[c][j] BY <1>4, <1>6, <1>8
<1>10. QED BY <1>7, <1>8, <1>9

LEMMA AdvanceSweep ==
  ASSUME IInv, SweepAhead, NEW n \in Nodes, NEW b \in Buckets, SweepEval(n, b)
  PROVE  Advance
<1> DEFINE s == sweep[n][b]
<1>1. StoreTypeOK /\ s \in Sweep /\ s.pc = "eval" /\ s.at < s.next
      BY DEF IInv, StoreInv, EnvTypeOK, SweepEval, SweepAhead
<1>2. s.id \in Ids /\ s.at \in Nat /\ s.next \in Nat
      BY <1>1 DEF Sweep, IdleSweep
<1>3. Running2Pending(b, s.id, s.at, s.next) BY DEF SweepEval
<1> HIDE DEF s
<1>4. CASE UNCHANGED period BY <1>1, <1>4, SamePeriod
<1>5. CASE /\ period' = [period EXCEPT ![b][s.id] = s.next]
           /\ period[b][s.id] <= s.at
  <2>1. period[b][s.id] \in Score BY <1>1, <1>2 DEF StoreTypeOK
  <2>2. period[b][s.id] <= s.next
        BY <1>1, <1>2, <1>5, <2>1 DEF Score, Absent
  <2>3. \A c \in Buckets, j \in Ids :
          period'[c][j] = IF c = b /\ j = s.id THEN s.next ELSE period[c][j]
        BY <1>1, <1>5 DEF StoreTypeOK
  <2>4. \A c \in Buckets, j \in Ids : period[c][j] # Absent => period[c][j] \in Nat
        BY <1>1 DEF StoreTypeOK, Score
  <2>5. SUFFICES ASSUME NEW c \in Buckets, NEW j \in Ids, period[c][j] # Absent
                 PROVE  period'[c][j] >= period[c][j]
        BY DEF Advance
  <2>6. CASE c = b /\ j = s.id BY <1>2, <2>1, <2>2, <2>3, <2>4, <2>5, <2>6
  <2>7. CASE ~(c = b /\ j = s.id) BY <2>3, <2>4, <2>5, <2>7
  <2>8. QED BY <2>6, <2>7
<1>6. QED BY <1>3, <1>4, <1>5 DEF Running2Pending, FiringDue, store

LEMMA AdvanceNext ==
  ASSUME "recover" \notin Ops, IInv, HomeInv, SweepAhead, [Next]_vars
  PROVE  Advance
<1>1. StoreTypeOK /\ EnvTypeOK BY DEF IInv, StoreInv
<1>2. CASE UNCHANGED period BY <1>1, <1>2, SamePeriod
<1>3. CASE \/ Tick \/ Workers \/ UNCHANGED vars
           \/ \E n \in Nodes : Cancel(n) \/ Crash(n)
  <2>1. CASE \/ Tick \/ UNCHANGED vars
             \/ \E n \in Nodes : Cancel(n) \/ Crash(n)
        BY <1>2, <2>1 DEF Tick, Cancel, Crash, vars, store
  <2>2. ASSUME NEW n \in Nodes, NEW b \in Buckets, WorkerStep(n, b)
        PROVE  UNCHANGED period
        BY <2>2 DEF WorkerStep, Probe, PopNothing, Pop, Acquire, Load, LoadFails,
           Fail, Finishes, Ready2Running, Ready2RunningDrop, Running2Finish, store
  <2>3. ASSUME NEW n \in Nodes, NEW b \in Buckets, NEW k \in Slots,
               \/ ExecResult(n, b, k) \/ Monitor(n, b, k)
               \/ ExecTerminate(n, b, k) \/ ExecTimeout(n, b, k)
               \/ ExecCancelled(n, b, k)
        PROVE  UNCHANGED period
        BY <2>3 DEF ExecResult, Monitor, ExecTerminate, ExecTimeout,
           ExecCancelled, Finishes, Running2Finish, store
  <2>4. CASE Workers BY <1>2, <2>2, <2>3, <2>4 DEF Workers
  <2>5. QED BY <1>3, <2>1, <2>4
<1>4. CASE Timers
  <2>1. (\E n \in Nodes, b \in Buckets : SweepEval(n, b)) \/ UNCHANGED period
        BY <1>4 DEF Timers, Pending2ReadyTimer, Running2ReadyTimer, Pending2Ready,
           Running2Ready, SweepStep, SweepSelect, SweepFlag, SweepInfo, SweepPlan,
           store
  <2>2. QED BY <1>2, <2>1, AdvanceSweep
<1>5. ASSUME NEW c \in Clients, DeleteEval(c) PROVE Advance
  <2>1. call[c].id \in Ids /\ call[c].bucket \in Buckets
        BY <1>1, <1>5, CallArgs DEF DeleteEval
  <2>2. period' = [period EXCEPT ![call[c].bucket][call[c].id] = Absent]
        BY <1>5 DEF DeleteEval, Delete
  <2>3. \A b \in Buckets, i \in Ids :
          period'[b][i] = period[b][i] \/ period'[b][i] = Absent
        BY <1>1, <2>1, <2>2 DEF StoreTypeOK
  <2>4. QED BY <1>1, <2>3, SamePeriod
<1>6. ASSUME NEW c \in Clients, RecoverLoad(c) \/ RecoverSend(c)
      PROVE  FALSE
      BY <1>6 DEF HomeInv, RecoverLoad, RecoverSend
<1>7. CASE Api
  <2>1. \/ \E i \in Ids : Deliver(i)
        \/ \E c \in Clients : DeleteEval(c)
        \/ UNCHANGED period
        BY <1>6, <1>7 DEF Api, StopJob, RecoverJob, DeleteJob, Request, StopCheck,
           StopEval, Terminate, store
  <2>2. QED BY <1>2, <1>5, <2>1, AdvanceDeliver
<1>8. QED BY <1>3, <1>4, <1>7 DEF Next

(* Two sweeps racing for one firing, or one with an old clock reading,     *)
(* never schedule an instant again: a cron entry only moves to a later one.*)
THEOREM CronMovesForward ==
  ASSUME "recover" \notin Ops
  PROVE  Spec => PeriodAdvances
<1>1. Init => SweepAhead
      BY DEF Init, SweepAhead, IdleSweep
<1>2. IInv /\ HomeInv /\ SweepAhead /\ [Next]_vars => [Advance]_vars
      BY AdvanceNext
<1>3. Spec => []SweepAhead
      BY <1>1, SweepAheadNext, Invariance, PTL DEF Spec
<1>4. Spec => [][Advance]_vars
      BY <1>2, <1>3, HomeInvariance, Invariance, PTL DEF Spec
<1>5. QED BY <1>4 DEF PeriodAdvances, Advance

-----------------------------------------------------------------------------
(* The refinement of CronTimer.                                            *)

TimerStep == [Timer!Next]_Timer!timerVars

LEMMA CronId == cron \in Periodic /\ cron \in Ids
BY CronAssumption, JobsAssumption

\* The job of a sweep is at home in the bucket swept, or the stop flag is set
\* there, as a deletion leaves it; so a sweep that finds no flag is right to go on.
SweepHome ==
  \A n \in Nodes, b \in Buckets : LET s == sweep[n][b] IN
    s.pc # "idle" => s.id \in issued /\ (s.id \in terminate[b] \/ bucketOf[s.id] = b)

\* What the mapping reads of the job, bucket by bucket.
Alone ==
  /\ cron \in issued' <=> cron \in issued
  /\ bucketOf'[cron] = bucketOf[cron]
  /\ \A b \in Buckets : /\ pending'[b][cron] = pending[b][cron]
                        /\ period'[b][cron] = period[b][cron]
                        /\ cron \in terminate'[b] <=> cron \in terminate[b]

LEMMA AloneStays ==
  ASSUME StoreTypeOK, Alone
  PROVE  UNCHANGED << state, at, armed >>
<1>1. home' = home /\ home \in Buckets \cup {NoBucket}
      BY CronId DEF Alone, home, StoreTypeOK
<1>2. state' = state BY <1>1 DEF Alone, state
<1>3. at' = at BY <1>1 DEF Alone, at
<1>4. armed' = armed BY <1>1 DEF Alone, armed
<1>5. QED BY <1>2, <1>3, <1>4

LEMMA AloneForgets ==
  ASSUME StoreTypeOK, Alone, UNCHANGED now, plans' \subseteq plans,
         vouched' => vouched
  PROVE  TimerStep
<1>1. vouched' \in {FALSE, vouched}
  <2>1. CASE vouched' BY <2>1, Zenon DEF vouched
  <2>2. CASE ~vouched' BY <2>2, Zenon DEF vouched
  <2>3. QED BY <2>1, <2>2
<1>2. Timer!Forget BY <1>1, AloneStays DEF Timer!Forget
<1>3. QED BY <1>2 DEF TimerStep, Timer!Next

LEMMA SamePlans ==
  ASSUME UNCHANGED sweep
  PROVE  plans' = plans /\ vouched' = vouched /\ (vouched' => vouched)
BY DEF plans, vouched, SweepsAt

LEMMA PlanOf ==
  ASSUME NEW n \in Nodes, NEW b \in Buckets, sweep[n][b].pc = "eval",
         sweep[n][b].id = cron
  PROVE  sweep[n][b].next \in plans
<1>1. << n, b >> \in SweepsAt({"eval"}) BY DEF SweepsAt
<1>2. QED BY <1>1 DEF plans

LEMMA VouchedBy ==
  ASSUME NEW n \in Nodes, NEW b \in Buckets, sweep[n][b].pc \in {"info", "plan"},
         sweep[n][b].id = cron
  PROVE  vouched
<1>1. << n, b >> \in SweepsAt({"info", "plan"}) BY DEF SweepsAt
<1>2. QED BY <1>1 DEF vouched

\* A sweep step changes one sweep; what it says is its only new plan.
LEMMA SweepPlans ==
  ASSUME EnvTypeOK, NEW n \in Nodes, NEW b \in Buckets, NEW r, NEW P,
         SweepGoes(n, b, r), r.pc = "eval" /\ r.id = cron => r.next \in P
  PROVE  plans' \subseteq plans \cup P
<1>1. \A m \in Nodes, c \in Buckets :
        sweep'[m][c] = IF m = n /\ c = b THEN r ELSE sweep[m][c]
      BY DEF SweepGoes, EnvTypeOK
<1>2. SUFFICES ASSUME NEW x \in SweepsAt({"eval"})'
               PROVE  sweep'[x[1]][x[2]].next \in plans \cup P
      BY DEF plans
<1>3. PICK m \in Nodes, c \in Buckets :
        /\ x[1] = m /\ x[2] = c
        /\ sweep'[m][c].pc = "eval" /\ sweep'[m][c].id = cron
      BY DEF SweepsAt
<1>4. CASE m = n /\ c = b
  <2>1. sweep'[m][c] = r BY <1>1, <1>4
  <2>2. QED BY <1>3, <2>1
<1>5. CASE ~(m = n /\ c = b)
  <2>1. sweep'[m][c] = sweep[m][c] BY <1>1, <1>5
  <2>2. QED BY <1>3, <2>1, PlanOf
<1>6. QED BY <1>4, <1>5

\* And what it has found is its only news; if it vouched before or does not now,
\* nobody else has come to vouch.
LEMMA SweepVouches ==
  ASSUME EnvTypeOK, NEW n \in Nodes, NEW b \in Buckets, NEW r,
         SweepGoes(n, b, r),
         r.pc \in {"info", "plan"} /\ r.id = cron => vouched
  PROVE  vouched' => vouched
<1>1. \A m \in Nodes, c \in Buckets :
        sweep'[m][c] = IF m = n /\ c = b THEN r ELSE sweep[m][c]
      BY DEF SweepGoes, EnvTypeOK
<1>2. SUFFICES ASSUME NEW x \in SweepsAt({"info", "plan"})' PROVE vouched
      BY DEF vouched
<1>3. PICK m \in Nodes, c \in Buckets :
        sweep'[m][c].pc \in {"info", "plan"} /\ sweep'[m][c].id = cron
      BY DEF SweepsAt
<1>4. CASE m = n /\ c = b
  <2>1. sweep'[m][c] = r BY <1>1, <1>4
  <2>2. QED BY <1>3, <2>1
<1>5. CASE ~(m = n /\ c = b)
  <2>1. sweep'[m][c] = sweep[m][c] BY <1>1, <1>5
  <2>2. QED BY <1>3, <2>1, VouchedBy
<1>6. QED BY <1>4, <1>5

\* A sweep that neither had nor has a plan, or neither vouched nor vouches.
LEMMA SweepKeeps ==
  ASSUME EnvTypeOK, NEW n \in Nodes, NEW b \in Buckets, NEW r,
         SweepGoes(n, b, r)
  PROVE  /\ sweep[n][b].pc # "eval" => plans \subseteq plans'
         /\ sweep[n][b].pc \notin {"info", "plan"} => (vouched => vouched')
<1>1. \A m \in Nodes, c \in Buckets :
        sweep'[m][c] = IF m = n /\ c = b THEN r ELSE sweep[m][c]
      BY DEF SweepGoes, EnvTypeOK
<1>2. ASSUME sweep[n][b].pc # "eval", NEW x \in SweepsAt({"eval"})
      PROVE  sweep[x[1]][x[2]].next \in plans'
  <2>1. PICK m \in Nodes, c \in Buckets :
          /\ x[1] = m /\ x[2] = c
          /\ sweep[m][c].pc = "eval" /\ sweep[m][c].id = cron
        BY DEF SweepsAt
  <2>2. sweep'[m][c] = sweep[m][c] BY <1>1, <1>2, <2>1
  <2>3. << m, c >> \in SweepsAt({"eval"})' BY <2>1, <2>2 DEF SweepsAt
  <2>4. QED BY <2>1, <2>2, <2>3 DEF plans
<1>3. ASSUME sweep[n][b].pc \notin {"info", "plan"}, vouched PROVE vouched'
  <2>1. PICK m \in Nodes, c \in Buckets :
          sweep[m][c].pc \in {"info", "plan"} /\ sweep[m][c].id = cron
        BY <1>3 DEF vouched, SweepsAt
  <2>2. sweep'[m][c] = sweep[m][c] BY <1>1, <1>3, <2>1
  <2>3. << m, c >> \in SweepsAt({"info", "plan"})' BY <2>1, <2>2 DEF SweepsAt
  <2>4. QED BY <2>3 DEF vouched
<1>4. sweep[n][b].pc # "eval" => plans \subseteq plans' BY <1>2 DEF plans
<1>5. QED BY <1>3, <1>4

\* A job in the pending set or with a cron entry has its home there.
LEMMA AtHome ==
  ASSUME IInv, HomeInv, NEW b \in Buckets,
         pending[b][cron] # Absent \/ period[b][cron] # Absent
  PROVE  home = b /\ cron \in issued /\ home # NoBucket
<1>1. bucketOf[cron] = b BY CronId DEF HomeInv, HomeBucket, Present
<1>2. QED BY <1>1, CronId, BucketsAssumption DEF home, HomeInv

LEMMA DeliverTimer ==
  ASSUME IInv, HomeInv, NEW i \in Ids, Deliver(i)
  PROVE  TimerStep
<1>1. PICK b \in Buckets, t \in StartTimes(i) : Send2Pending(b, i, t)
      BY DEF Deliver
<1>2. /\ i \notin issued /\ issued' = issued \cup {i}
      /\ now' = now /\ plans' = plans /\ vouched' = vouched
      /\ vouched' => vouched
      BY SamePlans DEF Deliver
<1>3. StoreTypeOK /\ now \in 0..MaxTime BY DEF IInv, StoreInv, StoreTypeOK
<1>4. bucketOf[i] = NoBucket /\ pending[b][i] = Absent
      BY <1>2, BucketsAssumption DEF HomeInv, HomeBucket, Present
<1>5. /\ terminate' = [terminate EXCEPT ![b] = @ \ {i}]
      /\ bucketOf' = [bucketOf EXCEPT ![i] = b]
      /\ pending' = [pending EXCEPT ![b][i] = t]
      /\ IF i \in Periodic THEN period' = [period EXCEPT ![b][i] = t]
                           ELSE UNCHANGED period
      BY <1>1, <1>4 DEF Send2Pending, DeliveryRefused
<1>6. CASE i = cron
  <2>1. t = CronNext[now] BY <1>6, CronId DEF StartTimes
  <2>2. t \in Nat /\ t # Absent BY <1>3, <2>1, ClockAssumption DEF Absent
  <2>3. /\ home' = b /\ b # NoBucket
        /\ pending'[b][cron] = t /\ period'[b][cron] = t
        /\ cron \notin terminate'[b]
        BY <1>3, <1>5, <1>6, CronId, BucketsAssumption DEF home, StoreTypeOK
  <2>4. state = "new" /\ state' = "on" BY <1>2, <1>6, <2>3 DEF state
  <2>5. at' = CronNext[now] BY <2>1, <2>3 DEF at
  <2>6. armed' BY <2>2, <2>3 DEF armed
  <2>7. Timer!Deliver BY <1>2, <2>4, <2>5, <2>6 DEF Timer!Deliver
  <2>8. QED BY <2>7 DEF TimerStep, Timer!Next
<1>7. CASE i # cron
  <2>1. Alone BY <1>2, <1>3, <1>5, <1>7, CronId DEF Alone, StoreTypeOK
  <2>2. QED BY <1>2, <1>3, <2>1, AloneForgets
<1>8. QED BY <1>6, <1>7

LEMMA StopTimer ==
  ASSUME IInv, HomeInv, NEW c \in Clients, StopEval(c)
  PROVE  TimerStep
<1> DEFINE i == call[c].id
           b == call[c].bucket
<1>1. StoreTypeOK BY DEF IInv, StoreInv
<1>2. i \in Ids /\ b \in Buckets BY CallArgs DEF StopEval, IInv
<1>3. /\ pending' = [pending EXCEPT ![b][i] = Absent]
      /\ terminate' = [terminate EXCEPT ![b] = @ \cup {i}]
      /\ UNCHANGED << now, period, bucketOf, issued >>
      BY DEF StopEval, Terminate, CallEnds
<1>4. plans' = plans /\ vouched' = vouched /\ (vouched' => vouched)
      BY SamePlans DEF StopEval, CallEnds
<1>5. i \in issued /\ bucketOf[i] \in {b, NoBucket} BY DEF StopEval, HomeInv
<1> HIDE DEF i, b
<1>6. CASE i = cron /\ home = b
  <2>1. /\ home' = b /\ b # NoBucket
        /\ pending'[b][cron] = Absent /\ cron \in terminate'[b]
        BY <1>1, <1>2, <1>3, <1>6, BucketsAssumption DEF home, StoreTypeOK
  <2>2. state \in {"on", "stopped"} /\ state' = "stopped"
        BY <1>3, <1>5, <1>6, <2>1 DEF state
  <2>3. at' = at BY <1>3, <1>6, <2>1 DEF at
  <2>4. ~armed' BY <2>1 DEF armed
  <2>5. Timer!Stop BY <1>3, <1>4, <2>2, <2>3, <2>4 DEF Timer!Stop
  <2>6. QED BY <2>5 DEF TimerStep, Timer!Next
<1>7. CASE i = cron /\ home = NoBucket
  <2>1. home' = home BY <1>3 DEF home
  <2>2. UNCHANGED << state, at, armed >>
    <3>1. state' = state BY <1>3, <1>7, <2>1 DEF state
    <3>2. at' = at BY <1>7, <2>1 DEF at
    <3>3. armed' = armed BY <1>7, <2>1 DEF armed
    <3>4. QED BY <3>1, <3>2, <3>3
  <2>3. Timer!Forget BY <1>3, <1>4, <2>2 DEF Timer!Forget
  <2>4. QED BY <2>3 DEF TimerStep, Timer!Next
<1>8. CASE i # cron
  <2>1. Alone BY <1>1, <1>2, <1>3, <1>8, CronId DEF Alone, StoreTypeOK
  <2>2. QED BY <1>1, <1>3, <1>4, <2>1, AloneForgets
<1>9. QED BY <1>5, <1>6, <1>7, <1>8 DEF home

LEMMA DeleteTimer ==
  ASSUME IInv, HomeInv, NEW c \in Clients, DeleteEval(c)
  PROVE  TimerStep
<1> DEFINE i == call[c].id
           b == call[c].bucket
<1>1. StoreTypeOK BY DEF IInv, StoreInv
<1>2. i \in Ids /\ b \in Buckets BY CallArgs DEF DeleteEval, IInv
<1>3. /\ pending' = [pending EXCEPT ![b][i] = Absent]
      /\ period' = [period EXCEPT ![b][i] = Absent]
      /\ terminate' = [terminate EXCEPT ![b] = @ \cup {i}]
      /\ bucketOf' = [bucketOf EXCEPT ![i] = NoBucket]
      /\ UNCHANGED << now, issued >>
      BY DEF DeleteEval, Delete, CallEnds
<1>4. plans' = plans /\ vouched' = vouched /\ (vouched' => vouched)
      BY SamePlans DEF DeleteEval, CallEnds
<1>5. i \in issued /\ bucketOf[i] \in {b, NoBucket} BY DEF DeleteEval, HomeInv
<1> HIDE DEF i, b
<1>6. CASE i = cron
  <2>1. home' = NoBucket BY <1>1, <1>2, <1>3, <1>6 DEF home, StoreTypeOK
  <2>2. state' = "over" BY <1>3, <1>5, <1>6, <2>1 DEF state
  <2>3. at' = Absent BY <2>1 DEF at
  <2>4. ~armed' BY <2>1 DEF armed
  <2>5. CASE home = NoBucket
    <3>1. state = "over" /\ at = Absent /\ armed = FALSE
          BY <1>5, <1>6, <2>5 DEF state, at, armed
    <3>2. armed' = FALSE BY <2>4
    <3>3. Timer!Forget BY <1>3, <1>4, <2>2, <2>3, <3>1, <3>2 DEF Timer!Forget
    <3>4. QED BY <3>3 DEF TimerStep, Timer!Next
  <2>6. CASE home # NoBucket
    <3>1. state \in {"on", "stopped"} BY <1>5, <1>6, <2>6 DEF state
    <3>2. Timer!Delete
          BY <1>3, <1>4, <2>2, <2>3, <2>4, <3>1
          DEF Timer!Delete, Timer!Never, Absent
    <3>3. QED BY <3>2 DEF TimerStep, Timer!Next
  <2>7. QED BY <2>5, <2>6
<1>7. CASE i # cron
  <2>1. Alone BY <1>1, <1>2, <1>3, <1>7, CronId DEF Alone, StoreTypeOK
  <2>2. QED BY <1>1, <1>3, <1>4, <2>1, AloneForgets
<1>8. QED BY <1>6, <1>7

LEMMA FireTimer ==
  ASSUME IInv, HomeInv, CronInv, NEW b \in Buckets, Pending2ReadyTimer(b)
  PROVE  TimerStep
<1>1. StoreTypeOK /\ now \in Nat BY TimesAreNat DEF IInv, StoreInv
<1>2. /\ pending' = [pending EXCEPT ![b] = Removed(@, Moved(b))]
      /\ UNCHANGED << now, period, terminate, bucketOf, issued, sweep >>
      BY DEF Pending2ReadyTimer, Pending2Ready, env
<1>3. plans' = plans /\ vouched' = vouched /\ (vouched' => vouched)
      BY <1>2, SamePlans
<1>4. /\ \A c \in Buckets : c # b => pending'[c][cron] = pending[c][cron]
      /\ pending'[b][cron] = IF cron \in Moved(b) THEN Absent ELSE pending[b][cron]
      BY <1>1, <1>2, CronId DEF Removed, StoreTypeOK
<1>5. CASE cron \in Moved(b)
  <2>1. pending[b][cron] # Absent /\ pending[b][cron] <= now
        BY <1>5 DEF Moved, Due
  <2>2. home = b /\ home' = b /\ home # NoBucket /\ cron \in issued
        BY <1>2, <2>1, AtHome DEF home
  <2>3. period[b][cron] = pending[b][cron]
        BY <2>1, CronId DEF CronInv, CronEntry
  <2>4. state' = state BY <1>2, <2>2 DEF state
  <2>5. at' = at /\ at <= now BY <1>2, <2>1, <2>2, <2>3 DEF at
  <2>6. armed /\ ~armed' BY <1>4, <1>5, <2>1, <2>2 DEF armed
  <2>7. Timer!Fire BY <1>2, <1>3, <2>4, <2>5, <2>6 DEF Timer!Fire
  <2>8. QED BY <2>7 DEF TimerStep, Timer!Next
<1>6. CASE cron \notin Moved(b)
  <2>1. Alone BY <1>2, <1>4, <1>6 DEF Alone
  <2>2. QED BY <1>1, <1>2, <1>3, <2>1, AloneForgets
<1>7. QED BY <1>5, <1>6

\* A sweep that finds the job not stopped vouches for it; one that has vouched may
\* plan; any other leaves the timer alone.
LEMMA PlanTimer ==
  ASSUME IInv, HomeInv, SweepHome, NEW n \in Nodes, NEW b \in Buckets,
         \/ SweepSelect(n, b) \/ SweepFlag(n, b)
         \/ SweepInfo(n, b) \/ SweepPlan(n, b)
  PROVE  TimerStep
<1> DEFINE s == sweep[n][b]
<1>1. StoreTypeOK /\ EnvTypeOK BY DEF IInv, StoreInv
<1>2. UNCHANGED << now, store, issued >>
      BY DEF SweepSelect, SweepFlag, SweepInfo, SweepPlan, SweepGoes
<1>3. Alone /\ UNCHANGED << state, at, armed >>
      BY <1>1, <1>2, AloneStays DEF Alone, store
<1>4. ASSUME NEW r, SweepGoes(n, b, r), r.pc = "eval" => r.id # cron,
             r.pc \in {"info", "plan"} /\ r.id = cron => vouched
      PROVE  TimerStep
  <2>1. plans' \subseteq plans \cup {} BY <1>1, <1>4, SweepPlans
  <2>2. vouched' => vouched BY <1>1, <1>4, SweepVouches
  <2>3. QED BY <1>1, <1>2, <1>3, <2>1, <2>2, AloneForgets
<1>5. CASE SweepSelect(n, b)
  <2>1. PICK i \in Earliest(b) :
          SweepGoes(n, b, [pc |-> "flag", id |-> i, at |-> now, next |-> 0])
        BY <1>5 DEF SweepSelect
  <2>2. QED BY <1>4, <2>1
<1>6. CASE SweepFlag(n, b) \/ SweepInfo(n, b) \/ SweepPlan(n, b)
  <2>1. PICK r : SweepGoes(n, b, r) /\ (r = IdleSweep \/ Further(n, b, r))
        BY <1>1, <1>6, SweepChecks
  <2>2. CASE r = IdleSweep BY <1>4, <2>1, <2>2 DEF IdleSweep
  <2>3. CASE Further(n, b, r) /\ s.id # cron
        BY <1>4, <2>1, <2>3 DEF Further
  <2>4. CASE Further(n, b, r) /\ s.id = cron /\ SweepFlag(n, b) /\ r.pc = "info"
    <3>1. r.id = cron /\ cron \notin terminate[b] /\ s.pc = "flag"
          BY <2>4 DEF Further, SweepFlag, SweepInfo, SweepPlan
    <3>2. cron \in issued /\ bucketOf[cron] = b BY <2>4, <3>1 DEF SweepHome
    <3>3. state = "on" BY <3>1, <3>2, BucketsAssumption DEF state, home
    <3>4. vouched'
      <4>1. sweep'[n][b] = r BY <1>1, <2>1 DEF SweepGoes, EnvTypeOK
      <4>2. << n, b >> \in SweepsAt({"info", "plan"})'
            BY <2>4, <3>1, <4>1 DEF SweepsAt
      <4>3. QED BY <4>2 DEF vouched
    <3>5. plans' = plans
      <4>1. plans' \subseteq plans \cup {} BY <1>1, <2>1, <2>4, SweepPlans
      <4>2. plans \subseteq plans' BY <1>1, <2>1, <3>1, SweepKeeps
      <4>3. QED BY <4>1, <4>2
    <3>6. Timer!Vouch BY <1>2, <1>3, <3>3, <3>4, <3>5 DEF Timer!Vouch
    <3>7. QED BY <3>6 DEF TimerStep, Timer!Next
  <2>5. CASE Further(n, b, r) /\ s.id = cron /\ SweepInfo(n, b) /\ r.pc = "plan"
    <3>1. vouched BY <2>5, VouchedBy DEF SweepInfo
    <3>2. QED BY <1>4, <2>1, <2>5, <3>1
  <2>6. CASE /\ Further(n, b, r) /\ s.id = cron /\ SweepPlan(n, b)
             /\ r.next = CronNext[now]
    <3>1. vouched BY <2>6, VouchedBy DEF SweepPlan
    <3>2. vouched' \in BOOLEAN BY DEF vouched
    <3>3. plans' \subseteq plans \cup {CronNext[now]}
          BY <1>1, <2>1, <2>6, SweepPlans
    <3>4. Timer!Plan BY <1>2, <1>3, <3>1, <3>2, <3>3 DEF Timer!Plan
    <3>5. QED BY <3>4 DEF TimerStep, Timer!Next
  <2>7. QED BY <2>1, <2>2, <2>3, <2>4, <2>5, <2>6 DEF Further
<1>7. QED BY <1>5, <1>6

LEMMA RenewTimer ==
  ASSUME IInv, HomeInv, SweepAhead, NEW n \in Nodes, NEW b \in Buckets,
         SweepEval(n, b)
  PROVE  TimerStep
<1> DEFINE s == sweep[n][b]
<1>1. /\ StoreTypeOK /\ EnvTypeOK /\ now \in Nat
      /\ s \in Sweep /\ s.pc = "eval"
      BY TimesAreNat DEF IInv, StoreInv, EnvTypeOK, SweepEval
<1>2. /\ s.id \in Ids /\ s.at \in Nat /\ s.next \in Nat
      /\ s.at <= now /\ s.at < s.next
      BY <1>1 DEF Sweep, IdleSweep, SweepAhead
<1>3. /\ Running2Pending(b, s.id, s.at, s.next) /\ SweepGoes(n, b, IdleSweep)
      /\ UNCHANGED << now, issued >>
      BY DEF SweepEval, SweepGoes
<1>4. /\ plans' \subseteq plans
      /\ vouched' => vouched
      /\ vouched' = vouched
  <2>1. plans' \subseteq plans \cup {}
        BY <1>1, <1>3, SweepPlans DEF IdleSweep
  <2>2. vouched' <=> vouched
        BY <1>1, <1>3, SweepVouches, SweepKeeps DEF IdleSweep
  <2>3. vouched' = vouched BY <2>2, Zenon DEF vouched
  <2>4. QED BY <2>1, <2>2, <2>3
<1>5. s.id = cron => s.next \in plans BY <1>1, PlanOf
<1> HIDE DEF s
<1>6. CASE UNCHANGED store
  <2>1. Alone BY <1>3, <1>6 DEF Alone, store
  <2>2. QED BY <1>1, <1>3, <1>4, <2>1, AloneForgets
<1>7. CASE FiringDue(b, s.id, s.at)
  <2>1. /\ period' = [period EXCEPT ![b][s.id] = s.next]
        /\ pending' = [pending EXCEPT ![b][s.id] = s.next]
        /\ UNCHANGED << terminate, bucketOf >>
        BY <1>3, <1>7 DEF Running2Pending
  <2>2. /\ period[b][s.id] # Absent /\ period[b][s.id] <= s.at
        /\ pending[b][s.id] = Absent
        BY <1>7 DEF FiringDue
  <2>3. CASE s.id = cron
    <3>1. home = b /\ home' = b /\ b # NoBucket /\ cron \in issued
          BY <2>1, <2>2, <2>3, AtHome DEF home
    <3>2. period'[b][cron] = s.next /\ pending'[b][cron] = s.next
          BY <1>1, <2>1, <2>3, CronId DEF StoreTypeOK
    <3>3. state \in {"on", "stopped"} /\ state' = state
          BY <1>3, <2>1, <3>1 DEF state
    <3>4. at = period[b][cron] /\ at' = s.next BY <3>1, <3>2 DEF at
    <3>5. s.next # Absent BY <1>2 DEF Absent
    <3>6. ~armed /\ armed' BY <2>2, <2>3, <3>1, <3>2, <3>5 DEF armed
    <3>7. at <= now /\ at' > at
      <4>1. at \in Int BY <1>1, <3>4, CronId DEF StoreTypeOK, Score, Absent
      <4>2. QED BY <1>1, <1>2, <2>2, <2>3, <3>4, <4>1
    <3>8. Timer!Renew
          BY <1>3, <1>4, <1>5, <2>3, <3>3, <3>4, <3>6, <3>7 DEF Timer!Renew
    <3>9. QED BY <3>8 DEF TimerStep, Timer!Next
  <2>4. CASE s.id # cron
    <3>1. Alone BY <1>1, <1>3, <2>1, <2>4, CronId DEF Alone, StoreTypeOK
    <3>2. QED BY <1>1, <1>3, <1>4, <3>1, AloneForgets
  <2>5. QED BY <2>3, <2>4
<1>8. QED BY <1>3, <1>6, <1>7 DEF Running2Pending

LEMMA CrashTimer ==
  ASSUME IInv, NEW n \in Nodes, Crash(n)
  PROVE  TimerStep
<1>1. StoreTypeOK /\ EnvTypeOK BY DEF IInv, StoreInv
<1>2. /\ sweep' = [sweep EXCEPT ![n] = [b \in Buckets |-> IdleSweep]]
      /\ UNCHANGED << now, store, issued >>
      BY DEF Crash
<1>3. Alone BY <1>2 DEF Alone, store
<1>4. \A m \in Nodes, c \in Buckets :
        sweep'[m][c] = IF m = n THEN IdleSweep ELSE sweep[m][c]
      BY <1>1, <1>2 DEF EnvTypeOK
<1>5. \A m \in Nodes, c \in Buckets :
        sweep'[m][c].pc = "eval" => sweep'[m][c] = sweep[m][c]
      BY <1>4 DEF IdleSweep
<1>6. plans' \subseteq plans
  <2>1. SUFFICES ASSUME NEW x \in SweepsAt({"eval"})'
                 PROVE  sweep'[x[1]][x[2]].next \in plans
        BY DEF plans
  <2>2. PICK m \in Nodes, c \in Buckets :
          /\ x[1] = m /\ x[2] = c
          /\ sweep'[m][c].pc = "eval" /\ sweep'[m][c].id = cron
        BY DEF SweepsAt
  <2>3. QED BY <1>5, <2>2, PlanOf
<1>7. ASSUME vouched' PROVE vouched
  <2>1. PICK m \in Nodes, c \in Buckets :
          sweep'[m][c].pc \in {"info", "plan"} /\ sweep'[m][c].id = cron
        BY <1>7 DEF vouched, SweepsAt
  <2>2. sweep'[m][c] = sweep[m][c] BY <1>4, <2>1 DEF IdleSweep
  <2>3. QED BY <2>1, <2>2, VouchedBy
<1>8. QED BY <1>1, <1>2, <1>3, <1>6, <1>7, AloneForgets

\* What else happens touches nothing that the mapping or SweepHome reads.
LEMMA CronSteps ==
  ASSUME HomeInv, [Next]_vars
  PROVE  \/ Tick
         \/ \E i \in Ids : Deliver(i)
         \/ \E c \in Clients : StopEval(c) \/ DeleteEval(c)
         \/ \E b \in Buckets : Pending2ReadyTimer(b)
         \/ \E n \in Nodes, b \in Buckets : SweepStep(n, b)
         \/ \E n \in Nodes : Crash(n)
         \/ UNCHANGED << now, issued, pending, period, terminate, info, bucketOf,
                         sweep >>
<1> DEFINE Quiet == UNCHANGED << now, issued, pending, period, terminate, info,
                                 bucketOf, sweep >>
<1>1. CASE UNCHANGED vars \/ \E n \in Nodes : Cancel(n)
      BY <1>1 DEF Cancel, vars, env, store
<1>2. ASSUME NEW c \in Clients, RecoverLoad(c) \/ RecoverSend(c) PROVE FALSE
      BY <1>2 DEF HomeInv, RecoverLoad, RecoverSend
<1>3. ASSUME NEW c \in Clients, NEW i \in issued,
             StopJob(c, i) \/ RecoverJob(c, i) \/ DeleteJob(c, i)
      PROVE  Quiet
      BY <1>3 DEF StopJob, RecoverJob, DeleteJob, Request, CallGoes, store
<1>4. ASSUME NEW c \in Clients, StopCheck(c) PROVE Quiet
      BY <1>4 DEF StopCheck, CallGoes, CallEnds, store
<1>5. ASSUME NEW b \in Buckets, Running2ReadyTimer(b) PROVE Quiet
      BY <1>5 DEF Running2ReadyTimer, Running2Ready, env
<1>6. ASSUME NEW n \in Nodes, NEW b \in Buckets, WorkerStep(n, b) PROVE Quiet
      BY <1>6 DEF WorkerStep, Probe, PopNothing, Pop, Acquire, Load, LoadFails, Fail,
         WorkerGoes, Finishes, Ready2Running, Ready2RunningDrop, Running2Finish,
         store
<1>7. ASSUME NEW n \in Nodes, NEW b \in Buckets, NEW k \in Slots,
             \/ ExecResult(n, b, k) \/ Monitor(n, b, k)
             \/ ExecTerminate(n, b, k) \/ ExecTimeout(n, b, k)
             \/ ExecCancelled(n, b, k)
      PROVE  Quiet
      BY <1>7 DEF ExecResult, Monitor, ExecTerminate, ExecTimeout, ExecCancelled,
         ExecEnds, Finishes, Running2Finish, store
<1> HIDE DEF Quiet
<1>8. CASE Workers
  <2>1. Quiet BY <1>6, <1>7, <1>8 DEF Workers
  <2>2. QED BY <2>1 DEF Quiet
<1>9. CASE Timers
  <2>1. \/ \E b \in Buckets : Pending2ReadyTimer(b)
        \/ \E n \in Nodes, b \in Buckets : SweepStep(n, b)
        \/ Quiet
        BY <1>5, <1>9 DEF Timers
  <2>2. QED BY <2>1 DEF Quiet
<1>10. CASE Api
  <2>1. \/ \E i \in Ids : Deliver(i)
        \/ \E c \in Clients : StopEval(c) \/ DeleteEval(c)
        \/ Quiet
        BY <1>2, <1>3, <1>4, <1>10 DEF Api
  <2>2. QED BY <2>1 DEF Quiet
<1>11. QED BY <1>1, <1>8, <1>9, <1>10 DEF Next

LEMMA SweepHomeNext ==
  ASSUME IInv, HomeInv, SweepHome, [Next]_vars
  PROVE  SweepHome'
<1>1. StoreTypeOK /\ EnvTypeOK BY DEF IInv, StoreInv
<1>2. CASE UNCHANGED << issued, terminate, bucketOf, sweep >>
      BY <1>2 DEF SweepHome
<1>3. ASSUME UNCHANGED sweep,
             \A i \in issued, b \in Buckets :
               /\ i \in issued'
               /\ i \in terminate[b] \/ bucketOf[i] = b =>
                    i \in terminate'[b] \/ bucketOf'[i] = b
      PROVE  SweepHome'
      BY <1>3 DEF SweepHome
<1>4. ASSUME NEW i \in Ids, Deliver(i) PROVE SweepHome'
  <2>1. PICK b \in Buckets, t \in StartTimes(i) : Send2Pending(b, i, t)
        BY <1>4 DEF Deliver
  <2>2. /\ UNCHANGED sweep /\ i \notin issued /\ issued' = issued \cup {i}
        /\ issued \subseteq Ids
        BY <1>1, <1>4 DEF Deliver, EnvTypeOK
  <2>3. \A j \in issued : /\ bucketOf'[j] = bucketOf[j]
                         /\ \A c \in Buckets : j \in terminate'[c] <=> j \in terminate[c]
    <3>1. CASE UNCHANGED store BY <3>1 DEF store
    <3>2. CASE /\ terminate' = [terminate EXCEPT ![b] = @ \ {i}]
               /\ bucketOf' = [bucketOf EXCEPT ![i] = b]
          BY <1>1, <2>2, <3>2 DEF StoreTypeOK
    <3>3. QED BY <2>1, <3>1, <3>2 DEF Send2Pending
  <2>4. QED BY <1>3, <2>2, <2>3
<1>5. ASSUME NEW c \in Clients, StopEval(c) \/ DeleteEval(c) PROVE SweepHome'
  <2> DEFINE i == call[c].id
             b == call[c].bucket
  <2>1. /\ i \in Ids /\ b \in Buckets
        /\ bucketOf[i] \in {b, NoBucket}
        /\ UNCHANGED << sweep, issued >>
        BY <1>1, <1>5, CallArgs DEF StopEval, DeleteEval, HomeInv, CallEnds
  <2>2. /\ terminate' = [terminate EXCEPT ![b] = @ \cup {i}]
        /\ \/ UNCHANGED bucketOf
           \/ bucketOf' = [bucketOf EXCEPT ![i] = NoBucket]
        BY <1>5 DEF StopEval, DeleteEval, Terminate, Delete
  <2> HIDE DEF i, b
  <2>3. \A d \in Buckets : /\ terminate[d] \subseteq terminate'[d]
                           /\ d = b => i \in terminate'[d]
        BY <1>1, <2>1, <2>2 DEF StoreTypeOK
  <2>4. \A j \in Ids : j # i => bucketOf'[j] = bucketOf[j]
        BY <1>1, <2>1, <2>2 DEF StoreTypeOK
  <2>5. ASSUME NEW j \in issued, NEW d \in Buckets,
               j \in terminate[d] \/ bucketOf[j] = d
        PROVE  j \in terminate'[d] \/ bucketOf'[j] = d
    <3>1. j \in Ids BY <1>1 DEF EnvTypeOK
    <3>2. CASE j \in terminate[d] BY <2>3, <3>2
    <3>3. CASE bucketOf[j] = d
      <4>1. CASE j = i
        <5>1. d = b BY <2>1, <3>3, <4>1, BucketsAssumption
        <5>2. QED BY <2>3, <4>1, <5>1
      <4>2. CASE j # i BY <2>4, <3>1, <3>3, <4>2
      <4>3. QED BY <4>1, <4>2
    <3>4. QED BY <2>5, <3>2, <3>3
  <2>6. QED BY <1>3, <2>1, <2>5
<1>6. ASSUME NEW n \in Nodes, NEW b \in Buckets, SweepStep(n, b) PROVE SweepHome'
  <2> DEFINE s == sweep[n][b]
  <2>1. UNCHANGED << issued, terminate, bucketOf >>
        BY <1>6 DEF SweepStep, SweepSelect, SweepFlag, SweepInfo, SweepPlan,
           SweepEval, SweepGoes, Running2Pending, store
  <2>2. PICK r :
          /\ SweepGoes(n, b, r)
          /\ r.pc # "idle" =>
               r.id \in issued /\ (r.id \in terminate[b] \/ bucketOf[r.id] = b)
    <3>1. CASE SweepSelect(n, b)
      <4>1. PICK i \in Earliest(b) :
              SweepGoes(n, b, [pc |-> "flag", id |-> i, at |-> now, next |-> 0])
            BY <3>1 DEF SweepSelect
      <4>2. i \in Ids /\ period[b][i] # Absent BY DEF Earliest, Due
      <4>3. bucketOf[i] = b BY <4>2 DEF HomeInv, HomeBucket, Present
      <4>4. i \in issued BY <4>2, <4>3, BucketsAssumption DEF HomeInv
      <4>5. QED BY <4>1, <4>3, <4>4
    <3>2. CASE SweepFlag(n, b) \/ SweepInfo(n, b) \/ SweepPlan(n, b)
      <4>1. PICK r : SweepGoes(n, b, r) /\ (r = IdleSweep \/ Further(n, b, r))
            BY <1>1, <3>2, SweepChecks
      <4>2. CASE r = IdleSweep BY <4>1, <4>2 DEF IdleSweep
      <4>3. CASE Further(n, b, r)
        <5>1. r.id = s.id /\ s.pc # "idle"
              BY <4>3 DEF Further, SweepFlag, SweepInfo, SweepPlan
        <5>2. QED BY <4>1, <5>1 DEF SweepHome
      <4>4. QED BY <4>1, <4>2, <4>3
    <3>3. CASE SweepEval(n, b) BY <3>3 DEF SweepEval, IdleSweep
    <3>4. QED BY <1>6, <3>1, <3>2, <3>3 DEF SweepStep
  <2>3. \A m \in Nodes, c \in Buckets :
          sweep'[m][c] = IF m = n /\ c = b THEN r ELSE sweep[m][c]
        BY <1>1, <2>2 DEF SweepGoes, EnvTypeOK
  <2>4. QED BY <2>1, <2>2, <2>3 DEF SweepHome
<1>7. ASSUME NEW n \in Nodes, Crash(n) PROVE SweepHome'
  <2>1. \A m \in Nodes, c \in Buckets :
          sweep'[m][c] = IF m = n THEN IdleSweep ELSE sweep[m][c]
        BY <1>1, <1>7 DEF Crash, EnvTypeOK
  <2>2. UNCHANGED << issued, terminate, bucketOf >> BY <1>7 DEF Crash, store
  <2>3. QED BY <2>1, <2>2 DEF SweepHome, IdleSweep
<1>8. CASE Tick \/ \E b \in Buckets : Pending2ReadyTimer(b)
      BY <1>2, <1>8 DEF Tick, Pending2ReadyTimer, Pending2Ready, store, env
<1>9. QED BY <1>2, <1>4, <1>5, <1>6, <1>7, <1>8, CronSteps

LEMMA TimerNext ==
  ASSUME IInv, HomeInv, CronInv, SweepHome, SweepAhead, [Next]_vars
  PROVE  TimerStep
<1>1. StoreTypeOK BY DEF IInv, StoreInv
<1>2. CASE Tick
  <2>1. now' \in {now, now + 1} /\ UNCHANGED << store, issued, sweep >>
        BY <1>2 DEF Tick
  <2>2. Alone /\ UNCHANGED << state, at, armed >>
        BY <1>1, <2>1, AloneStays DEF Alone, store
  <2>3. CASE now' = now + 1
    <3>1. Timer!Tick BY <2>1, <2>2, <2>3, SamePlans DEF Timer!Tick
    <3>2. QED BY <3>1 DEF TimerStep, Timer!Next
  <2>4. CASE now' = now BY <1>1, <2>1, <2>2, <2>4, SamePlans, AloneForgets
  <2>5. QED BY <2>1, <2>3, <2>4
<1>3. CASE UNCHANGED << now, issued, pending, period, terminate, info, bucketOf,
                        sweep >>
      BY <1>1, <1>3, AloneForgets, SamePlans DEF Alone
<1>4. QED BY <1>2, <1>3, CronSteps, DeliverTimer, StopTimer, DeleteTimer, FireTimer,
             PlanTimer, RenewTimer, CrashTimer DEF SweepStep

LEMMA TimerInit == Init => Timer!Init
<1> SUFFICES ASSUME Init PROVE Timer!Init OBVIOUS
<1>1. /\ now = 0 /\ issued = {} /\ home = NoBucket
      /\ \A n \in Nodes, b \in Buckets : sweep[n][b].pc = "idle"
      BY CronId DEF Init, StoreInit, home, IdleSweep
<1>2. state = "new" /\ at = Absent /\ ~armed BY <1>1 DEF state, at, armed
<1>3. plans = {} /\ ~vouched BY <1>1 DEF plans, vouched, SweepsAt
<1>4. QED BY <1>1, <1>2, <1>3 DEF Timer!Init, Timer!Never, Absent

(* AsyncQueue implements CronTimer: a periodic job that nobody recovers    *)
(* fires no earlier than its instant and once for each, is put back only   *)
(* for a later instant, computed by a sweep that had found the job not     *)
(* stopped, and once deleted is over for good, whatever sweeps, stops,     *)
(* shutdowns and late requests interleave.                                 *)
THEOREM TimerRefined ==
  ASSUME "recover" \notin Ops
  PROVE  Spec => ImplementsTimer
<1> DEFINE Inv == IInv /\ HomeInv /\ CronInv /\ SweepHome /\ SweepAhead
<1>1. Init => SweepHome /\ SweepAhead
      BY DEF Init, SweepHome, SweepAhead, IdleSweep
<1>2. Spec => []SweepAhead
      BY <1>1, SweepAheadNext, Invariance, PTL DEF Spec
<1>3. IInv /\ HomeInv /\ SweepHome /\ [Next]_vars => SweepHome'
      BY SweepHomeNext
<1>4. Spec => []SweepHome
      BY <1>1, <1>3, Invariance, HomeInvariance, PTL DEF Spec
<1>5. Spec => []Inv
      BY <1>2, <1>4, Invariance, HomeInvariance, CronInvariance, PTL
<1>6. Inv /\ [Next]_vars => TimerStep BY TimerNext
<1> HIDE DEF Inv
<1>7. Spec => [][Next]_vars BY PTL DEF Spec
<1>8. Spec => [][Timer!Next]_Timer!timerVars
      BY <1>5, <1>6, <1>7, PTL DEF TimerStep
<1>9. QED BY <1>8, TimerInit, PTL DEF Spec, ImplementsTimer, Timer!Spec
=============================================================================
