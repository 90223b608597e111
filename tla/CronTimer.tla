------------------------------ MODULE CronTimer ------------------------------
(***************************************************************************)
(* What asyncjob promises to whoever delivers a periodic job: the job is a *)
(* timer.  While it is armed it waits for one instant; it fires then, once,*)
(* and is armed again for a later instant of its cron spec, planned by     *)
(* somebody who had found it on.  A stop disarms it; one who found it on   *)
(* before the stop may plan after it, and arm it once more.  Deleted, it is*)
(* over for good.  AsyncTimer shows that AsyncQueue implements this.       *)
(***************************************************************************)
EXTENDS Integers

CONSTANT Instant  \* time -> first cron instant after it

VARIABLES now,     \* the clock
          state,   \* new, on, stopped or over
          at,      \* the instant of its next firing, or of its last one
          armed,   \* whether it waits for that instant
          vouched, \* whether somebody found it on and has not planned yet
          plans    \* instants computed and not yet set

timerVars == << now, state, at, armed, vouched, plans >>

Never == -1

Init ==
  /\ now = 0 /\ state = "new" /\ at = Never
  /\ ~armed /\ ~vouched /\ plans = {}

Tick == now' = now + 1 /\ UNCHANGED << state, at, armed, vouched, plans >>

Deliver ==
  /\ state = "new" /\ state' = "on"
  /\ at' = Instant[now] /\ armed'
  /\ UNCHANGED << now, vouched, plans >>

Fire ==
  /\ armed /\ at <= now /\ ~armed'
  /\ UNCHANGED << now, state, at, vouched, plans >>

Vouch ==
  /\ state = "on" /\ vouched'
  /\ UNCHANGED << now, state, at, armed, plans >>

Plan ==
  /\ vouched /\ vouched' \in BOOLEAN
  /\ plans' \subseteq plans \cup {Instant[now]}
  /\ UNCHANGED << now, state, at, armed >>

Forget ==
  /\ vouched' \in {FALSE, vouched} /\ plans' \subseteq plans
  /\ UNCHANGED << now, state, at, armed >>

Renew ==
  /\ state \in {"on", "stopped"}
  /\ ~armed /\ armed' /\ at <= now
  /\ at' \in plans /\ at' > at
  /\ plans' \subseteq plans
  /\ UNCHANGED << now, state, vouched >>

Stop ==
  /\ state \in {"on", "stopped"} /\ state' = "stopped"
  /\ ~armed'
  /\ UNCHANGED << now, at, vouched, plans >>

Delete ==
  /\ state \in {"on", "stopped"} /\ state' = "over"
  /\ at' = Never /\ ~armed'
  /\ UNCHANGED << now, vouched, plans >>

Next == Tick \/ Deliver \/ Fire \/ Vouch \/ Plan \/ Forget \/ Renew \/ Stop
          \/ Delete

Spec == Init /\ [][Next]_timerVars
=============================================================================
