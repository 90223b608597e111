----------------------------- MODULE AsyncTimer ------------------------------
(***************************************************************************)
(* AsyncQueue implements CronTimer for every periodic job that nobody      *)
(* recovers: the refinement mapping reads the timer off the Redis keys and *)
(* the sweeps: what they have found, the instants they are about to send.  *)
(***************************************************************************)
EXTENDS AsyncQueue

CONSTANT cron  \* any periodic job

ASSUME CronAssumption == cron \in Periodic

home == bucketOf[cron]

state == IF cron \notin issued THEN "new"
         ELSE IF home = NoBucket THEN "over"
         ELSE IF cron \in terminate[home] THEN "stopped" ELSE "on"

at    == IF home = NoBucket THEN Absent ELSE period[home][cron]
armed == home # NoBucket /\ pending[home][cron] # Absent

SweepsAt(pcs) == {x \in Nodes \X Buckets : /\ sweep[x[1]][x[2]].pc \in pcs
                                            /\ sweep[x[1]][x[2]].id = cron}
vouched == SweepsAt({"info", "plan"}) # {}
plans   == {sweep[x[1]][x[2]].next : x \in SweepsAt({"eval"})}

Timer == INSTANCE CronTimer WITH Instant <- CronNext

(* The detailed system implements the abstract one: however many nodes     *)
(* sweep the job, and however late, it fires at its instants, once each,   *)
(* and is put back only for a later instant, by a sweep that had found it  *)
(* not stopped.                                                            *)
ImplementsTimer == Timer!Spec
=============================================================================
