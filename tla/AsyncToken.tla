----------------------------- MODULE AsyncToken -----------------------------
(***************************************************************************)
(* AsyncQueue implements JobToken for every one-shot job that nobody       *)
(* recovers: the refinement mapping reads the token off the Redis keys.    *)
(***************************************************************************)
EXTENDS AsyncQueue

CONSTANT job  \* any one-shot job

ASSUME TokenAssumption == job \in OneShot

\* A queued id without a ttl is over: the pop drops it.
Waiting(b) == pending[b][job] # Absent
InQueue(b) == Queued(ready[b], job) /\ job \in ttl[b]
Leased(b)  == running[b][job] # Absent
Held(b)    == Waiting(b) \/ InQueue(b) \/ Leased(b)

Home == CHOOSE b \in Buckets : Held(b)

place == CASE job \notin issued               -> "new"
           [] \E b \in Buckets : Waiting(b)   -> "waiting"
           [] \E b \in Buckets : InQueue(b)   -> "queued"
           [] \E b \in Buckets : Leased(b)    -> "leased"
           [] OTHER                           -> "over"

at == CASE place = "waiting" -> pending[Home][job]
        [] place = "leased"  -> running[Home][job]
        [] OTHER             -> 0

left == IF place \in {"new", "over"} THEN 0 ELSE retry[Home][job]

Token == INSTANCE JobToken WITH Budget <- Retries[job], Lease <- Ttl[job],
                                runs <- starts[job]

(* The detailed system implements the abstract one: every step of an API   *)
(* call, a timer, a worker, an execution or a crash moves the token the way*)
(* JobToken allows, or leaves it where it is.                              *)
ImplementsToken == Token!Spec
=============================================================================
