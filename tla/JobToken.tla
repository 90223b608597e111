------------------------------ MODULE JobToken ------------------------------
(***************************************************************************)
(* What asyncjob promises to whoever delivers a one-shot job: the job is a *)
(* token that is in one place at a time.  It waits for its start time, is  *)
(* queued, and is leased to a worker for Lease seconds; an expired lease   *)
(* puts it back into the queue, Budget times at most; once over, by a      *)
(* result, a stop, a deletion or a spent budget, it is over for good.      *)
(* AsyncToken shows that AsyncQueue implements this.                       *)
(***************************************************************************)
EXTENDS Integers

CONSTANTS Budget,  \* retries the job was delivered with
          Lease    \* its ttl

VARIABLES now,    \* the clock
          place,  \* where the token is
          at,     \* start time when waiting, deadline when leased
          left,   \* retries left
          runs    \* runs begun

tokenVars == << now, place, at, left, runs >>

Moves(from, to) == place = from /\ place' = to

Init == now = 0 /\ place = "new" /\ at = 0 /\ left = 0 /\ runs = 0

Tick == now' = now + 1 /\ UNCHANGED << place, at, left, runs >>

Deliver ==
  /\ Moves("new", "waiting")
  /\ at' >= now /\ left' = Budget
  /\ UNCHANGED << now, runs >>

Enqueue ==
  /\ Moves("waiting", "queued")
  /\ at <= now /\ at' = 0
  /\ UNCHANGED << now, left, runs >>

Start ==
  /\ Moves("queued", "leased")
  /\ at' = now + Lease /\ runs' = runs + 1
  /\ UNCHANGED << now, left >>

Retry ==
  /\ Moves("leased", "queued")
  /\ at <= now /\ at' = 0
  /\ left > 0 /\ left' = left - 1
  /\ UNCHANGED << now, runs >>

Finish ==
  /\ \E from \in {"waiting", "queued", "leased"} : Moves(from, "over")
  /\ at' = 0 /\ left' = 0
  /\ UNCHANGED << now, runs >>

Next == Tick \/ Deliver \/ Enqueue \/ Start \/ Retry \/ Finish

Spec == Init /\ [][Next]_tokenVars
=============================================================================
