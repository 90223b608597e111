----------------------------- MODULE Token_proofs -----------------------------
(***************************************************************************)
(* AsyncQueue implements JobToken: whatever the nodes, timers, workers,    *)
(* requests, late results and crashes do, a one-shot job that nobody       *)
(* recovers moves as the abstract token moves, or does not move.           *)
(***************************************************************************)
EXTENDS AsyncToken, OneShot_proofs

-----------------------------------------------------------------------------
(* What the refinement mapping reads.                                      *)

\* place, at and left by cases, each free of the choice of a bucket.
View ==
  /\ job \notin issued => place = "new" /\ at = 0 /\ left = 0
  /\ \A b \in Buckets :
       /\ Waiting(b) => /\ place = "waiting"
                        /\ at = pending[b][job] /\ left = retry[b][job]
       /\ InQueue(b) => place = "queued" /\ at = 0 /\ left = retry[b][job]
       /\ Leased(b)  => /\ place = "leased"
                        /\ at = running[b][job] /\ left = retry[b][job]
  /\ job \in issued /\ (\A b \in Buckets : ~Held(b)) =>
       place = "over" /\ at = 0 /\ left = 0

\* The job is in one bucket, and there in one place.
LEMMA OneHolder ==
  ASSUME HomeInv, OneShotInv, NEW b \in Buckets, Held(b)
  PROVE  /\ job \in issued
         /\ \A c \in Buckets : Held(c) => c = b
         /\ Waiting(b) => ~InQueue(b) /\ ~Leased(b)
         /\ InQueue(b) => ~Leased(b)
<1>1. job \in Ids /\ job \in OneShot BY TokenAssumption DEF OneShot
<1>2. \A c \in Buckets : Held(c) => bucketOf[job] = c
      BY <1>1 DEF HomeInv, HomeBucket, Held, Waiting, InQueue, Leased, Present
<1>3. job \in issued BY <1>1, <1>2, BucketsAssumption DEF HomeInv
<1>4. Placed(b, job) BY <1>1 DEF OneShotInv
<1>5. QED BY <1>2, <1>3, <1>4 DEF Placed, Waiting, InQueue, Leased

LEMMA ViewHolds == HomeInv /\ OneShotInv => View
<1> SUFFICES ASSUME HomeInv, OneShotInv PROVE View OBVIOUS
<1>1. CASE job \notin issued
  <2>1. \A b \in Buckets : ~Held(b) BY <1>1, OneHolder
  <2>2. place = "new" BY <1>1, <2>1 DEF place, Held
  <2>3. at = 0 /\ left = 0 BY <2>2 DEF at, left
  <2>4. QED BY <1>1, <2>1, <2>2, <2>3 DEF View, Held
<1>2. CASE job \in issued /\ \A b \in Buckets : ~Held(b)
  <2>1. place = "over" BY <1>2 DEF place, Held
  <2>2. at = 0 /\ left = 0 BY <2>1 DEF at, left
  <2>3. QED BY <1>2, <2>1, <2>2 DEF View, Held
<1>3. ASSUME NEW b \in Buckets, Held(b) PROVE View
  <2>1. /\ job \in issued
        /\ \A c \in Buckets : Held(c) => c = b
        /\ Waiting(b) => ~InQueue(b) /\ ~Leased(b)
        /\ InQueue(b) => ~Leased(b)
        BY <1>3, OneHolder
  <2>2. Home = b BY <1>3, <2>1 DEF Home
  <2>3. \A c \in Buckets : Waiting(c) \/ InQueue(c) \/ Leased(c) => c = b
        BY <2>1 DEF Held
  <2>4. CASE Waiting(b)
    <3>1. \A c \in Buckets : ~InQueue(c) /\ ~Leased(c) BY <2>1, <2>3, <2>4
    <3>2. place = "waiting" BY <2>1, <2>4, <3>1 DEF place
    <3>3. at = pending[b][job] /\ left = retry[b][job]
          BY <2>2, <3>2 DEF at, left
    <3>4. QED BY <1>3, <2>1, <2>3, <2>4, <3>2, <3>3 DEF View
  <2>5. CASE InQueue(b)
    <3>1. \A c \in Buckets : ~Waiting(c) /\ ~Leased(c) BY <2>1, <2>3, <2>5
    <3>2. place = "queued" BY <2>1, <2>5, <3>1 DEF place
    <3>3. at = 0 /\ left = retry[b][job] BY <2>2, <3>2 DEF at, left
    <3>4. QED BY <1>3, <2>1, <2>3, <2>5, <3>2, <3>3 DEF View
  <2>6. CASE Leased(b)
    <3>1. \A c \in Buckets : ~Waiting(c) /\ ~InQueue(c) BY <2>1, <2>3, <2>6
    <3>2. place = "leased" BY <2>1, <2>6, <3>1 DEF place
    <3>3. at = running[b][job] /\ left = retry[b][job]
          BY <2>2, <3>2 DEF at, left
    <3>4. QED BY <1>3, <2>1, <2>3, <2>6, <3>2, <3>3 DEF View
  <2>7. QED BY <1>3, <2>4, <2>5, <2>6 DEF Held
<1>4. QED BY <1>1, <1>2, <1>3

LEMMA ViewNext == HomeInv' /\ OneShotInv' => View'
BY ViewHolds, PTL

-----------------------------------------------------------------------------
(* Two ways in which a step treats the job: it leaves it alone, or it takes*)
(* it out of every place.                                                  *)

TokenStep == [Token!Next]_Token!tokenVars

Stays ==
  /\ UNCHANGED << now, starts[job] >>
  /\ job \in issued' <=> job \in issued
  /\ \A b \in Buckets : /\ UNCHANGED << pending[b][job], running[b][job] >>
                        /\ InQueue(b)' <=> InQueue(b)
                        /\ Held(b) => UNCHANGED retry[b][job]

Leaves ==
  /\ UNCHANGED << now, starts[job] >>
  /\ job \in issued /\ job \in issued'
  /\ \A b \in Buckets : ~Held(b)'

LEMMA SamePlace ==
  ASSUME View, View',
         job \in issued' <=> job \in issued,
         \A b \in Buckets : /\ UNCHANGED << pending[b][job], running[b][job] >>
                            /\ InQueue(b)' <=> InQueue(b)
                            /\ Held(b) => UNCHANGED retry[b][job]
  PROVE  UNCHANGED << place, at, left >>
<1>1. \A b \in Buckets : /\ Waiting(b)' <=> Waiting(b)
                         /\ Leased(b)' <=> Leased(b)
                         /\ Held(b)' <=> Held(b)
      BY DEF Waiting, Leased, Held
<1>2. CASE job \notin issued BY <1>2 DEF View
<1>3. CASE job \in issued /\ \A b \in Buckets : ~Held(b)
      BY <1>1, <1>3 DEF View
<1>4. ASSUME NEW b \in Buckets, Held(b) PROVE UNCHANGED << place, at, left >>
  <2>1. CASE Waiting(b) BY <1>1, <1>4, <2>1 DEF View
  <2>2. CASE InQueue(b) BY <1>1, <1>4, <2>2 DEF View
  <2>3. CASE Leased(b) BY <1>1, <1>4, <2>3 DEF View
  <2>4. QED BY <1>4, <2>1, <2>2, <2>3 DEF Held
<1>5. QED BY <1>2, <1>3, <1>4

LEMMA StaysStutters == ASSUME View, View', Stays PROVE TokenStep
<1>1. UNCHANGED << place, at, left >> BY SamePlace DEF Stays
<1>2. QED BY <1>1 DEF Stays, TokenStep, Token!tokenVars

LEMMA LeavesFinishes == ASSUME View, View', Leaves PROVE TokenStep
<1>1. place' = "over" /\ at' = 0 /\ left' = 0 BY DEF View, Leaves
<1>2. \/ place \in {"waiting", "queued", "leased"}
      \/ place = "over" /\ at = 0 /\ left = 0
      BY DEF View, Leaves, Held
<1>3. CASE place \in {"waiting", "queued", "leased"}
  <2>1. Token!Finish BY <1>1, <1>3 DEF Leaves, Token!Finish, Token!Moves
  <2>2. QED BY <2>1 DEF TokenStep, Token!Next
<1>4. CASE place = "over" /\ at = 0 /\ left = 0
      BY <1>1, <1>4 DEF Leaves, TokenStep, Token!tokenVars
<1>5. QED BY <1>2, <1>3, <1>4

LEMMA SameStays ==
  ASSUME UNCHANGED << now, store, starts, issued >>
  PROVE  Stays
BY DEF store, Stays, InQueue, Queued

-----------------------------------------------------------------------------
(* The scripts.                                                            *)

LEMMA TailKeeps ==
  ASSUME NEW q \in Seq(Ids), q # << >>, NEW i, i # Head(q)
  PROVE  Queued(Tail(q), i) <=> Queued(q, i)
<1>1. Queued(Tail(q), i) => Queued(q, i) BY QueuedTail
<1>2. ASSUME NEW k \in DOMAIN q, q[k] = i PROVE Queued(Tail(q), i)
  <2>1. q[1] = Head(q) /\ k \in 1..Len(q) /\ Len(q) \in Nat OBVIOUS
  <2>2. k - 1 \in 1..(Len(q) - 1) BY <1>2, <2>1
  <2>3. /\ DOMAIN Tail(q) = 1..(Len(q) - 1)
        /\ \A j \in 1..(Len(q) - 1) : Tail(q)[j] = q[j + 1]
        OBVIOUS
  <2>4. Tail(q)[k - 1] = q[k] BY <2>1, <2>2, <2>3
  <2>5. QED BY <1>2, <2>2, <2>3, <2>4 DEF Queued
<1>3. QED BY <1>1, <1>2 DEF Queued

\* The premises that every lemma below shares.
TokenInv == IInv /\ HomeInv /\ OneShotInv /\ FitInv /\ View

LEMMA JobId == job \in Ids /\ job \in OneShot /\ job \notin Periodic
BY TokenAssumption DEF OneShot

LEMMA JobFit ==
  ASSUME FitInv, NEW b \in Buckets
  PROVE  /\ Waiting(b) => job \in ttl[b] /\ starts[job] = 0
         /\ Leased(b) => job \in ttl[b]
BY JobId DEF FitInv, Fit, Waiting, Leased

LEMMA Pending2ReadyToken ==
  ASSUME TokenInv, View', NEW b \in Buckets, Pending2Ready(b),
         UNCHANGED << now, starts, issued >>
  PROVE  TokenStep
<1> USE JobId DEF TokenInv
<1> DEFINE D == Due(pending[b])
<1>1. StoreTypeOK /\ now \in Nat
      BY ClockAssumption DEF IInv, StoreInv, StoreTypeOK
<1>2. Pushed(b, D, pending[b]) /\ D \in SUBSET Ids
      BY DEF Pending2Ready, Due
<1>3. job \in D => pending[b][job] # Absent /\ pending[b][job] <= now BY DEF Due
<1>4. \A c \in Buckets :
        Queued(ready'[c], job) <=> Queued(ready[c], job) \/ (c = b /\ job \in D)
      BY <1>1, <1>2, PushedQueue
<1>5. job \in D <=> job \in Moved(b)
      BY <1>3 DEF Moved, OneShotInv, Placed
<1>6. \A c \in Buckets :
        pending'[c][job] = IF c = b /\ job \in D THEN Absent ELSE pending[c][job]
      BY <1>1, <1>5 DEF Pending2Ready, Removed, StoreTypeOK
<1>7. UNCHANGED << running, retry, ttl >> BY DEF Pending2Ready
<1> HIDE DEF D
<1>8. CASE job \notin D
  <2>1. Stays BY <1>4, <1>6, <1>7, <1>8 DEF Stays, InQueue
  <2>2. QED BY <2>1, StaysStutters
<1>9. CASE job \in D
  <2>1. Waiting(b) BY <1>3, <1>9 DEF Waiting
  <2>2. place = "waiting" /\ at = pending[b][job] /\ left = retry[b][job]
        BY <2>1 DEF View
  <2>3. InQueue(b)' BY <1>4, <1>7, <1>9, <2>1, JobFit DEF InQueue
  <2>4. place' = "queued" /\ at' = 0 /\ left' = retry[b][job]
        BY <1>7, <2>3 DEF View
  <2>5. Token!Enqueue BY <1>3, <1>9, <2>2, <2>4 DEF Token!Enqueue, Token!Moves
  <2>6. QED BY <2>5 DEF TokenStep, Token!Next
<1>10. QED BY <1>8, <1>9

LEMMA Running2ReadyToken ==
  ASSUME TokenInv, View', NEW b \in Buckets, Running2Ready(b),
         UNCHANGED << now, starts, issued >>
  PROVE  TokenStep
<1> USE JobId DEF TokenInv
<1> DEFINE R == Retried(b)
           X == Expired(b)
<1>1. StoreTypeOK /\ now \in Nat
      BY ClockAssumption DEF IInv, StoreInv, StoreTypeOK
<1>2. /\ R \in SUBSET Ids /\ R \subseteq X
      /\ job \in X => running[b][job] # Absent /\ running[b][job] <= now
      /\ job \in R => retry[b][job] > 0
      BY DEF Retried, Expired, Due
<1>3. Pushed(b, R, running[b]) BY DEF Running2Ready
<1>4. \A c \in Buckets :
        Queued(ready'[c], job) <=> Queued(ready[c], job) \/ (c = b /\ job \in R)
      BY <1>1, <1>2, <1>3, PushedQueue
<1>5. \A c \in Buckets :
        running'[c][job] = IF c = b /\ job \in X THEN Absent ELSE running[c][job]
      BY <1>1 DEF Running2Ready, Removed, StoreTypeOK
<1>6. UNCHANGED pending BY DEF Running2Ready
<1>7. period[b][job] = Absent BY DEF OneShotInv, Placed
<1>8. job \in OneShotGivenUp(b) <=> job \in X /\ job \notin R
      BY <1>7 DEF OneShotGivenUp, GivenUp
<1>9. \A c \in Buckets :
        job \in ttl'[c] <=> job \in ttl[c] /\ ~(c = b /\ job \in X /\ job \notin R)
      BY <1>1, <1>8 DEF Running2Ready, StoreTypeOK
<1>10. \A c \in Buckets :
         /\ c = b /\ job \in R => retry'[c][job] = retry[c][job] - 1
         /\ ~(c = b /\ job \in X) => retry'[c][job] = retry[c][job]
  <2>1. /\ job \in R => RetryAfterExpiry(b)[job] = retry[b][job] - 1
        /\ job \notin X => RetryAfterExpiry(b)[job] = retry[b][job]
        BY DEF RetryAfterExpiry, Retried, OneShotGivenUp, GivenUp
  <2>2. \A c \in Buckets :
          retry'[c] = IF c = b THEN RetryAfterExpiry(b) ELSE retry[c]
        BY <1>1 DEF Running2Ready, StoreTypeOK
  <2>3. QED BY <2>1, <2>2
<1> HIDE DEF R, X
<1>11. CASE job \notin X
  <2>1. Stays BY <1>2, <1>4, <1>5, <1>6, <1>9, <1>10, <1>11 DEF Stays, InQueue
  <2>2. QED BY <2>1, StaysStutters
<1>12. ASSUME job \in X
       PROVE  /\ place = "leased" /\ at = running[b][job] /\ left = retry[b][job]
              /\ Leased(b) /\ Held(b)
       BY <1>2, <1>12 DEF View, Leased, Held
<1>13. CASE job \in R
  <2>1. /\ place = "leased" /\ at = running[b][job] /\ left = retry[b][job]
        /\ Leased(b)
        BY <1>2, <1>12, <1>13
  <2>2. InQueue(b)' BY <1>4, <1>9, <1>13, <2>1, JobFit DEF InQueue
  <2>3. place' = "queued" /\ at' = 0 /\ left' = retry[b][job] - 1
        BY <1>10, <1>13, <2>2 DEF View
  <2>4. Token!Retry BY <1>2, <1>13, <2>1, <2>3 DEF Token!Retry, Token!Moves
  <2>5. QED BY <2>4 DEF TokenStep, Token!Next
<1>14. CASE job \in X /\ job \notin R
  <2>1. Held(b) /\ Leased(b) BY <1>12, <1>14
  <2>2. /\ job \in issued
        /\ \A c \in Buckets : Held(c) => c = b
        /\ ~Waiting(b)
        BY <2>1, OneHolder
  <2>3. ASSUME NEW c \in Buckets PROVE ~Held(c)'
    <3>1. CASE c = b
          BY <1>5, <1>6, <1>9, <1>14, <2>2, <3>1 DEF Held, Waiting, InQueue, Leased
    <3>2. CASE c # b
          BY <1>4, <1>5, <1>6, <1>9, <2>2, <3>2
          DEF Held, Waiting, InQueue, Leased
    <3>3. QED BY <3>1, <3>2
  <2>4. Leaves BY <2>2, <2>3 DEF Leaves
  <2>5. QED BY <2>4, LeavesFinishes
<1>15. QED BY <1>2, <1>11, <1>13, <1>14

LEMMA Running2PendingToken ==
  ASSUME TokenInv, View', NEW b \in Buckets, NEW i \in Ids, NEW t, NEW next,
         Running2Pending(b, i, t, next), UNCHANGED << now, starts, issued >>
  PROVE  TokenStep
<1> USE JobId DEF TokenInv
<1>1. CASE UNCHANGED store BY <1>1, SameStays, StaysStutters
<1>2. CASE FiringDue(b, i, t)
  <2>1. /\ pending' = [pending EXCEPT ![b][i] = next]
        /\ UNCHANGED << ready, running, ttl, retry >>
        /\ period[b][i] # Absent
        BY <1>2 DEF Running2Pending, FiringDue
  <2>2. i # job BY <2>1 DEF OneShotInv, Placed
  <2>3. \A c \in Buckets : pending'[c][job] = pending[c][job]
        BY <2>1, <2>2 DEF IInv, StoreInv, StoreTypeOK
  <2>4. Stays BY <2>1, <2>3 DEF Stays, InQueue, Queued
  <2>5. QED BY <2>4, StaysStutters
<1>3. QED BY <1>1, <1>2 DEF Running2Pending

\* A late result of an earlier run takes the job out of the queue as well: it
\* loses its ttl, and the pop drops it.
LEMMA Running2FinishToken ==
  ASSUME TokenInv, View', NEW b \in Buckets, NEW i \in Ids, NEW st,
         Running2Finish(b, i, st), UNCHANGED << now, starts, issued >>,
         i = job => starts[job] # 0
  PROVE  TokenStep
<1> USE JobId DEF TokenInv
<1>1. StoreTypeOK BY DEF IInv, StoreInv
<1>2. /\ running' = [running EXCEPT ![b][i] = Absent]
      /\ UNCHANGED << pending, ready >>
      BY DEF Running2Finish
<1>3. \/ /\ retry' = [retry EXCEPT ![b][i] = Absent]
         /\ ttl' = [ttl EXCEPT ![b] = @ \ {i}]
      \/ period[b][i] # Absent /\ UNCHANGED << retry, ttl >>
      BY DEF Running2Finish
<1>4. \A c \in Buckets : c # b \/ i # job =>
        /\ running'[c][job] = running[c][job]
        /\ retry'[c][job] = retry[c][job]
        /\ job \in ttl'[c] <=> job \in ttl[c]
  <2>1. \A c \in Buckets : c # b \/ i # job => running'[c][job] = running[c][job]
        BY <1>1, <1>2 DEF StoreTypeOK
  <2>2. CASE /\ retry' = [retry EXCEPT ![b][i] = Absent]
             /\ ttl' = [ttl EXCEPT ![b] = @ \ {i}]
        BY <1>1, <2>1, <2>2 DEF StoreTypeOK
  <2>3. CASE UNCHANGED << retry, ttl >> BY <2>1, <2>3
  <2>4. QED BY <1>3, <2>2, <2>3
<1>5. CASE i # job \/ ~Held(b)
  <2>1. CASE i # job
    <3>1. Stays BY <1>2, <1>4, <2>1 DEF Stays, InQueue, Queued
    <3>2. QED BY <3>1, StaysStutters
  <2>2. CASE i = job /\ ~Held(b)
    <3>1. period[b][job] = Absent BY DEF OneShotInv, Placed
    <3>2. running'[b][job] = Absent /\ job \notin ttl'[b]
          BY <1>1, <1>2, <1>3, <2>2, <3>1 DEF StoreTypeOK
    <3>3. ~Leased(b) /\ ~InQueue(b) BY <2>2 DEF Held
    <3>4. /\ running'[b][job] = running[b][job]
          /\ InQueue(b)' <=> InQueue(b)
          BY <3>2, <3>3 DEF InQueue, Leased
    <3>5. \A c \in Buckets : c # b => (InQueue(c)' <=> InQueue(c))
          BY <1>2, <1>4 DEF InQueue, Queued
    <3>6. Stays BY <1>2, <1>4, <2>2, <3>4, <3>5 DEF Stays
    <3>7. QED BY <3>6, StaysStutters
  <2>3. QED BY <1>5, <2>1, <2>2
<1>6. CASE i = job /\ Held(b)
  <2>1. job \in issued /\ \A c \in Buckets : Held(c) => c = b
        BY <1>6, OneHolder
  <2>2. period[b][job] = Absent BY DEF OneShotInv, Placed
  <2>3. running'[b][job] = Absent /\ job \notin ttl'[b]
        BY <1>1, <1>2, <1>3, <1>6, <2>2 DEF StoreTypeOK
  <2>4. ~Waiting(b) BY <1>6, JobFit
  <2>5. ASSUME NEW c \in Buckets PROVE ~Held(c)'
    <3>1. CASE c = b
          BY <1>2, <2>3, <2>4, <3>1 DEF Held, Waiting, InQueue, Leased
    <3>2. CASE c # b
          BY <1>2, <1>4, <2>1, <3>2 DEF Held, Waiting, InQueue, Leased, Queued
    <3>3. QED BY <3>1, <3>2
  <2>6. Leaves BY <2>1, <2>5 DEF Leaves
  <2>7. QED BY <2>6, LeavesFinishes
<1>7. QED BY <1>5, <1>6

\* Stopping takes a job that waits out of its place and leaves a running one.
LEMMA TerminateToken ==
  ASSUME TokenInv, View', NEW b \in Buckets, NEW i \in Ids, Terminate(b, i),
         UNCHANGED << now, starts, issued >>
  PROVE  TokenStep
<1> USE JobId DEF TokenInv
<1>1. StoreTypeOK BY DEF IInv, StoreInv
<1>2. \A c \in Buckets :
        Queued(ready'[c], job) <=> Queued(ready[c], job) /\ (c # b \/ job # i)
      BY <1>1, UnqueuedQueue DEF Terminate
<1>3. \A c \in Buckets :
        pending'[c][job] = IF c = b /\ job = i THEN Absent ELSE pending[c][job]
      BY <1>1 DEF Terminate, StoreTypeOK
<1>4. UNCHANGED << running, retry, ttl >> BY DEF Terminate
<1>5. CASE i # job \/ ~Held(b) \/ Leased(b)
  <2>1. i = job => pending[b][job] = Absent /\ ~InQueue(b)
        BY <1>5, OneHolder DEF Held, Waiting
  <2>2. \A c \in Buckets : pending'[c][job] = pending[c][job]
        BY <1>3, <2>1
  <2>3. \A c \in Buckets : InQueue(c)' <=> InQueue(c)
        BY <1>2, <1>4, <2>1 DEF InQueue
  <2>4. Stays BY <1>4, <2>2, <2>3 DEF Stays
  <2>5. QED BY <2>4, StaysStutters
<1>6. CASE i = job /\ Held(b) /\ ~Leased(b)
  <2>1. job \in issued /\ \A c \in Buckets : Held(c) => c = b
        BY <1>6, OneHolder
  <2>2. ASSUME NEW c \in Buckets PROVE ~Held(c)'
        BY <1>2, <1>3, <1>4, <1>6, <2>1 DEF Held, Waiting, InQueue, Leased
  <2>3. Leaves BY <2>1, <2>2 DEF Leaves
  <2>4. QED BY <2>3, LeavesFinishes
<1>7. QED BY <1>5, <1>6

\* A request knows the bucket of its job, or the job is deleted already.
LEMMA DeleteToken ==
  ASSUME TokenInv, View', NEW b \in Buckets, NEW i \in Ids, Delete(b, i),
         i \in issued, bucketOf[i] \in {b, NoBucket},
         UNCHANGED << now, starts, issued >>
  PROVE  TokenStep
<1> USE JobId DEF TokenInv
<1>1. StoreTypeOK BY DEF IInv, StoreInv
<1>2. \A c \in Buckets :
        Queued(ready'[c], job) <=> Queued(ready[c], job) /\ (c # b \/ job # i)
      BY <1>1, UnqueuedQueue DEF Delete
<1>3. \A c \in Buckets :
        /\ c = b /\ job = i =>
             pending'[c][job] = Absent /\ running'[c][job] = Absent
        /\ c # b \/ job # i =>
             /\ pending'[c][job] = pending[c][job]
             /\ running'[c][job] = running[c][job]
             /\ retry'[c][job] = retry[c][job]
             /\ job \in ttl'[c] <=> job \in ttl[c]
      BY <1>1 DEF Delete, StoreTypeOK
<1>4. CASE i # job
  <2>1. Stays BY <1>2, <1>3, <1>4 DEF Stays, InQueue
  <2>2. QED BY <2>1, StaysStutters
<1>5. CASE i = job
  <2>1. \A c \in Buckets : Held(c) => c = b
        BY <1>5, BucketsAssumption
        DEF HomeInv, HomeBucket, Held, Waiting, InQueue, Leased, Present
  <2>2. ASSUME NEW c \in Buckets PROVE ~Held(c)'
    <3>1. CASE c = b
          BY <1>2, <1>3, <1>5, <3>1 DEF Held, Waiting, InQueue, Leased
    <3>2. CASE c # b
          BY <1>2, <1>3, <2>1, <3>2 DEF Held, Waiting, InQueue, Leased
    <3>3. QED BY <3>1, <3>2
  <2>3. Leaves BY <1>5, <2>2 DEF Leaves
  <2>4. QED BY <2>3, LeavesFinishes
<1>6. QED BY <1>4, <1>5

\* A fresh id is nowhere, so its delivery is never taken for a duplicate.
LEMMA DeliverToken ==
  ASSUME TokenInv, View', NEW i \in Ids, Deliver(i)
  PROVE  TokenStep
<1> USE JobId DEF TokenInv
<1>1. PICK b \in Buckets, t \in StartTimes(i) : Send2Pending(b, i, t)
      BY DEF Deliver
<1>2. StoreTypeOK /\ now \in Nat
      BY ClockAssumption DEF IInv, StoreInv, StoreTypeOK
<1>3. /\ i \notin issued /\ issued' = issued \cup {i}
      /\ UNCHANGED << now, starts >>
      BY DEF Deliver
<1>4. \A c \in Buckets : ~Present(c, i)
      BY <1>3, BucketsAssumption DEF HomeInv, HomeBucket
<1>5. ~DeliveryRefused(b, i) BY <1>4 DEF DeliveryRefused, Present
<1>6. /\ ttl' = [ttl EXCEPT ![b] = @ \cup {i}]
      /\ retry' = [retry EXCEPT ![b][i] = Retries[i]]
      /\ pending' = [pending EXCEPT ![b][i] = t]
      /\ UNCHANGED << ready, running >>
      BY <1>1, <1>5 DEF Send2Pending
<1>7. \A c \in Buckets : c # b \/ i # job =>
        /\ pending'[c][job] = pending[c][job]
        /\ retry'[c][job] = retry[c][job]
        /\ job \in ttl'[c] <=> job \in ttl[c]
      BY <1>2, <1>6 DEF StoreTypeOK
<1>8. CASE i # job
  <2>1. Stays BY <1>3, <1>6, <1>7, <1>8 DEF Stays, InQueue, Queued
  <2>2. QED BY <2>1, StaysStutters
<1>9. CASE i = job
  <2>1. t \in Nat /\ t >= now
    <3>1. PICK d \in Delays : t = now + d BY <1>9 DEF StartTimes
    <3>2. d \in Nat BY QueueAssumption
    <3>3. QED BY <1>2, <3>1, <3>2
  <2>2. pending'[b][job] = t /\ retry'[b][job] = Retries[job] /\ job \in ttl'[b]
        BY <1>2, <1>6, <1>9 DEF StoreTypeOK
  <2>3. Waiting(b)' BY <2>1, <2>2 DEF Waiting, Absent
  <2>4. place' = "waiting" /\ at' = t /\ left' = Retries[job]
        BY <2>2, <2>3 DEF View
  <2>5. place = "new" BY <1>3, <1>9 DEF View
  <2>6. Token!Deliver BY <1>3, <2>1, <2>4, <2>5 DEF Token!Deliver, Token!Moves
  <2>7. QED BY <2>6 DEF TokenStep, Token!Next
<1>10. QED BY <1>8, <1>9

LEMMA Ready2RunningDropToken ==
  ASSUME TokenInv, View', NEW b \in Buckets, Ready2RunningDrop(b),
         UNCHANGED << now, starts, issued >>
  PROVE  TokenStep
<1> USE JobId DEF TokenInv
<1>1. /\ ready[b] \in Seq(Ids) /\ ready[b] # << >>
      /\ Head(ready[b]) \notin ttl[b]
      /\ UNCHANGED << pending, running, retry, ttl >>
      BY DEF Ready2RunningDrop, IInv, StoreInv, StoreTypeOK
<1>2. \A c \in Buckets : ready'[c] = IF c = b THEN Tail(ready[b]) ELSE ready[c]
      BY DEF Ready2RunningDrop, IInv, StoreInv, StoreTypeOK
<1>3. job # Head(ready[b]) =>
        (Queued(Tail(ready[b]), job) <=> Queued(ready[b], job))
      BY <1>1, TailKeeps
<1>4. \A c \in Buckets : InQueue(c)' <=> InQueue(c)
  <2> SUFFICES ASSUME NEW c \in Buckets PROVE InQueue(c)' <=> InQueue(c) OBVIOUS
  <2>1. CASE c # b BY <1>1, <1>2, <2>1 DEF InQueue
  <2>2. CASE c = b /\ job \in ttl[b] BY <1>1, <1>2, <1>3, <2>2 DEF InQueue
  <2>3. CASE c = b /\ job \notin ttl[b] BY <1>1, <2>3 DEF InQueue
  <2>4. QED BY <2>1, <2>2, <2>3
<1>5. Stays BY <1>1, <1>4 DEF Stays
<1>6. QED BY <1>5, StaysStutters

\* The count of starts saturates at MaxStarts, which the budget never reaches.
LEMMA PopToken ==
  ASSUME TokenInv, View', MaxStarts > Retries[job],
         NEW n \in Nodes, NEW b \in Buckets, Pop(n, b)
  PROVE  TokenStep
<1> USE JobId DEF TokenInv
<1>1. PICK i \in Ids :
        /\ Ready2Running(b, i)
        /\ starts' = [starts EXCEPT ![i] = IF @ < MaxStarts THEN @ + 1 ELSE @]
        /\ UNCHANGED << issued, now >>
      BY DEF Pop, WorkerGoes
<1>2. /\ StoreTypeOK /\ now \in Nat
      /\ starts \in [Ids -> 0..MaxStarts] /\ MaxStarts \in Nat
      BY QueueAssumption, ClockAssumption
      DEF IInv, StoreInv, StoreTypeOK, EnvTypeOK
<1>3. /\ ready[b] \in Seq(Ids) /\ ready[b] # << >>
      /\ i = Head(ready[b]) /\ i \in ttl[b]
      /\ ready' = [ready EXCEPT ![b] = Tail(@)]
      /\ running' = [running EXCEPT ![b][i] = Deadline(i)]
      /\ UNCHANGED << pending, retry, ttl >>
      BY <1>1, <1>2 DEF Ready2Running, StoreTypeOK
<1>4. \A c \in Buckets : ready'[c] = IF c = b THEN Tail(ready[b]) ELSE ready[c]
      BY <1>2, <1>3 DEF StoreTypeOK
<1>5. \A c \in Buckets :
        running'[c][job] = IF c = b /\ i = job THEN Deadline(job)
                                               ELSE running[c][job]
      BY <1>2, <1>3 DEF StoreTypeOK
<1>6. CASE i # job
  <2>1. Queued(Tail(ready[b]), job) <=> Queued(ready[b], job)
        BY <1>3, <1>6, TailKeeps
  <2>2. \A c \in Buckets : InQueue(c)' <=> InQueue(c)
        BY <1>3, <1>4, <2>1 DEF InQueue
  <2>3. starts'[job] = starts[job] BY <1>1, <1>2, <1>6
  <2>4. Stays BY <1>1, <1>3, <1>5, <1>6, <2>2, <2>3 DEF Stays
  <2>5. QED BY <2>4, StaysStutters
<1>7. CASE i = job
  <2>1. InQueue(b) BY <1>3, <1>7, QueuedTail DEF InQueue
  <2>2. /\ \A c \in Buckets : Held(c) => c = b
        /\ ~Waiting(b)
        BY <2>1, OneHolder DEF Held
  <2>3. place = "queued" /\ left = retry[b][job] BY <2>1 DEF View
  <2>4. Ttl[job] \in Nat /\ Retries[job] \in Nat BY JobsAssumption
  <2>5. running'[b][job] = now + Ttl[job] BY <1>5, <1>7 DEF Deadline
  <2>6. Leased(b)' BY <1>2, <2>4, <2>5 DEF Leased, Absent
  <2>7. place' = "leased" /\ at' = now + Ttl[job] /\ left' = left
        BY <1>3, <2>3, <2>5, <2>6 DEF View
  <2>8. starts'[job] = starts[job] + 1
    <3>1. starts[job] + Left(b, job) <= Retries[job]
          BY <2>1 DEF OneShotInv, Budgeted, InQueue
    <3>2. Left(b, job) \in Nat /\ starts[job] \in Nat BY <1>2, LeftNat
    <3>3. starts[job] < MaxStarts BY <1>2, <2>4, <3>1, <3>2
    <3>4. QED BY <1>1, <1>2, <1>7, <3>3
  <2>9. Token!Start
        BY <1>1, <2>3, <2>7, <2>8 DEF Token!Start, Token!Moves
  <2>10. QED BY <2>9 DEF TokenStep, Token!Next
<1>8. QED BY <1>6, <1>7

-----------------------------------------------------------------------------
(* Every step of the system.                                               *)

LEMMA ApiToken ==
  ASSUME TokenInv, View', Api
  PROVE  TokenStep
<1> USE DEF TokenInv
<1>1. EnvTypeOK BY DEF IInv
<1>2. ASSUME NEW c \in Clients, NEW i \in issued,
             StopJob(c, i) \/ RecoverJob(c, i) \/ DeleteJob(c, i)
      PROVE  TokenStep
  <2>1. UNCHANGED << now, store, starts, issued >>
        BY <1>2 DEF StopJob, RecoverJob, DeleteJob, Request, CallGoes
  <2>2. QED BY <2>1, SameStays, StaysStutters
<1>3. ASSUME NEW c \in Clients, StopCheck(c) \/ StopEval(c) \/ DeleteEval(c)
      PROVE  TokenStep
  <2>1. UNCHANGED << now, starts, issued >>
        BY <1>3 DEF StopCheck, StopEval, DeleteEval, CallGoes, CallEnds
  <2>2. call[c].id \in Ids /\ call[c].bucket \in Buckets
        BY <1>1, <1>3, CallArgs DEF StopCheck, StopEval, DeleteEval
  <2>3. CASE StopCheck(c)
        BY <2>1, <2>3, SameStays, StaysStutters DEF StopCheck
  <2>4. CASE StopEval(c)
        BY <2>1, <2>2, <2>4, TerminateToken DEF StopEval
  <2>5. CASE DeleteEval(c)
    <3>1. /\ call[c].id \in issued
          /\ bucketOf[call[c].id] \in {call[c].bucket, NoBucket}
          /\ Delete(call[c].bucket, call[c].id)
          BY <2>5 DEF DeleteEval, HomeInv
    <3>2. QED BY <2>1, <2>2, <3>1, DeleteToken
  <2>6. QED BY <1>3, <2>3, <2>4, <2>5
<1>4. ASSUME NEW c \in Clients, RecoverLoad(c) \/ RecoverSend(c)
      PROVE  FALSE
      BY <1>4 DEF HomeInv, RecoverLoad, RecoverSend
<1>5. QED BY <1>2, <1>3, <1>4, DeliverToken DEF Api

LEMMA TimersToken ==
  ASSUME TokenInv, View', Timers
  PROVE  TokenStep
<1> USE DEF TokenInv
<1>1. EnvTypeOK BY DEF IInv
<1>2. UNCHANGED << now, starts, issued >>
      BY DEF Timers, Pending2ReadyTimer, Running2ReadyTimer, SweepStep,
             SweepSelect, SweepFlag, SweepInfo, SweepPlan, SweepEval, SweepGoes,
             env
<1>3. ASSUME NEW b \in Buckets, Pending2ReadyTimer(b) \/ Running2ReadyTimer(b)
      PROVE  TokenStep
      BY <1>2, <1>3, Pending2ReadyToken, Running2ReadyToken
      DEF Pending2ReadyTimer, Running2ReadyTimer
<1>4. ASSUME NEW n \in Nodes, NEW b \in Buckets, SweepStep(n, b)
      PROVE  TokenStep
  <2>1. CASE SweepEval(n, b)
    <3>1. sweep[n][b] \in Sweep /\ sweep[n][b].pc = "eval"
          BY <1>1, <2>1 DEF SweepEval, EnvTypeOK
    <3>2. sweep[n][b].id \in Ids BY <3>1 DEF Sweep, IdleSweep
    <3>3. QED BY <1>2, <2>1, <3>2, Running2PendingToken DEF SweepEval
  <2>2. CASE \/ SweepSelect(n, b) \/ SweepFlag(n, b)
             \/ SweepInfo(n, b) \/ SweepPlan(n, b)
        BY <1>2, <2>2, SameStays, StaysStutters
        DEF SweepSelect, SweepFlag, SweepInfo, SweepPlan
  <2>3. QED BY <1>4, <2>1, <2>2 DEF SweepStep
<1>5. QED BY <1>3, <1>4 DEF Timers

LEMMA WorkersToken ==
  ASSUME TokenInv, View', MaxStarts > Retries[job], Workers
  PROVE  TokenStep
<1> USE DEF TokenInv
<1>1. EnvTypeOK BY DEF IInv
<1>2. ASSUME NEW n \in Nodes, NEW b \in Buckets, WorkerStep(n, b), ~Pop(n, b)
      PROVE  TokenStep
  <2>1. UNCHANGED << now, starts, issued >>
        BY <1>2 DEF WorkerStep, Probe, PopNothing, Acquire, Load, LoadFails,
                    Fail, WorkerGoes
  <2>2. CASE PopNothing(n, b)
    <3>1. UNCHANGED store \/ Ready2RunningDrop(b) BY <2>2 DEF PopNothing
    <3>2. QED BY <2>1, <3>1, SameStays, StaysStutters, Ready2RunningDropToken
  <2>3. CASE Fail(n, b)
    <3> DEFINE w == worker[n][b]
    <3>1. w \in Worker /\ w.pc = "fail" BY <1>1, <2>3 DEF Fail, EnvTypeOK
    <3>2. w.id \in Ids BY <3>1 DEF Worker, IdleWorker, Popping, GoneWorker
    <3>3. Running2Finish(b, w.id, "Error") \/ UNCHANGED store
          BY <2>3 DEF Fail, Finishes
    <3>4. w.id = job => starts[job] # 0 BY JobId DEF FitInv, Begun
    <3>5. QED BY <2>1, <3>2, <3>3, <3>4, Running2FinishToken, SameStays,
                 StaysStutters
  <2>4. CASE Probe(n, b) \/ Acquire(n, b) \/ Load(n, b) \/ LoadFails(n, b)
        BY <2>1, <2>4, SameStays, StaysStutters
        DEF Probe, Acquire, Load, LoadFails
  <2>5. QED BY <1>2, <2>2, <2>3, <2>4 DEF WorkerStep
<1>3. ASSUME NEW n \in Nodes, NEW b \in Buckets, NEW k \in Slots,
             \/ ExecResult(n, b, k) \/ Monitor(n, b, k)
             \/ ExecTerminate(n, b, k) \/ ExecTimeout(n, b, k)
             \/ ExecCancelled(n, b, k)
      PROVE  TokenStep
  <2>1. UNCHANGED << now, starts, issued >>
        BY <1>3 DEF ExecResult, Monitor, ExecTerminate, ExecTimeout,
                    ExecCancelled, ExecEnds
  <2>2. slot[n][b][k].st = "exec" => slot[n][b][k].id \in Ids
        BY <1>1 DEF EnvTypeOK, Slot, FreeSlot, LostSlot
  <2>3. slot[n][b][k].id = job => starts[job] # 0 BY JobId DEF FitInv, Begun
  <2>4. CASE Monitor(n, b, k) \/ ExecTimeout(n, b, k) \/ ExecCancelled(n, b, k)
        BY <2>1, <2>4, SameStays, StaysStutters
        DEF Monitor, ExecTimeout, ExecCancelled
  <2>5. CASE ExecResult(n, b, k) \/ ExecTerminate(n, b, k)
    <3>1. \/ UNCHANGED store
          \/ /\ slot[n][b][k].st = "exec"
             /\ \E st \in {"Success", "Error", "Terminate"} :
                  Running2Finish(b, slot[n][b][k].id, st)
          BY <2>5 DEF ExecResult, ExecTerminate, Finishes
    <3>2. QED BY <2>1, <2>2, <2>3, <3>1, Running2FinishToken, SameStays,
                 StaysStutters
  <2>6. QED BY <1>3, <2>4, <2>5
<1>4. QED BY <1>2, <1>3, PopToken DEF Workers, WorkerStep

LEMMA TokenNext ==
  ASSUME TokenInv, View', MaxStarts > Retries[job], [Next]_vars
  PROVE  TokenStep
<1>1. CASE Tick /\ now' = now + 1
  <2>1. UNCHANGED << store, starts, issued >> /\ now' = now + 1
        BY <1>1 DEF Tick
  <2>2. \A b \in Buckets : /\ UNCHANGED << pending[b][job], running[b][job] >>
                           /\ InQueue(b)' <=> InQueue(b)
                           /\ UNCHANGED << retry[b][job], ttl[b] >>
        BY <2>1 DEF store, InQueue, Queued
  <2>3. UNCHANGED << place, at, left >>
        BY <2>1, <2>2, SamePlace DEF TokenInv
  <2>4. Token!Tick BY <2>1, <2>3 DEF Token!Tick
  <2>5. QED BY <2>4 DEF TokenStep, Token!Next
<1>2. CASE \/ Tick /\ UNCHANGED now
           \/ \E n \in Nodes : Cancel(n) \/ Crash(n)
           \/ UNCHANGED vars
  <2>1. UNCHANGED << now, store, starts, issued >>
        BY <1>2 DEF Tick, Cancel, Crash, vars, env
  <2>2. QED BY <2>1, SameStays, StaysStutters DEF TokenInv
<1>3. Tick => now' = now + 1 \/ UNCHANGED now BY DEF Tick
<1>4. QED BY <1>1, <1>2, <1>3, ApiToken, TimersToken, WorkersToken DEF Next

LEMMA TokenInit == Init => Token!Init
<1> SUFFICES ASSUME Init PROVE Token!Init OBVIOUS
<1>1. HomeInv BY DEF Init, StoreInit, HomeInv, HomeBucket, Present, Queued, NoCall
<1>2. View BY <1>1, OneShotInit, ViewHolds
<1>3. job \notin issued /\ now = 0 /\ starts[job] = 0
      BY JobId DEF Init, StoreInit
<1>4. QED BY <1>2, <1>3 DEF View, Token!Init

(* AsyncQueue implements JobToken: a one-shot job that nobody recovers     *)
(* waits, is queued, is leased, comes back at most as often as its retries *)
(* say and only once its deadline has passed, and once over is over.       *)
THEOREM TokenRefined ==
  ASSUME "recover" \notin Ops, MaxStarts > Retries[job]
  PROVE  Spec => ImplementsToken
<1> DEFINE Inv == IInv /\ HomeInv /\ OneShotInv /\ FitInv
<1>0. MaxStarts # 0 BY JobId, JobsAssumption, QueueAssumption
<1>1. Spec => []Inv
      BY <1>0, Invariance, HomeInvariance, OneShotInvariance, FitInvariance, PTL
<1>2. Inv /\ Inv' /\ [Next]_vars => TokenStep
      BY ViewHolds, ViewNext, TokenNext DEF TokenInv
<1> HIDE DEF Inv
<1>3. Spec => [][Next]_vars BY PTL DEF Spec
<1>4. Spec => [][Token!Next]_Token!tokenVars
      BY <1>1, <1>2, <1>3, PTL DEF TokenStep
<1>5. QED BY <1>4, TokenInit, PTL DEF Spec, ImplementsToken, Token!Spec
=============================================================================
