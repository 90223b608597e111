---------------------------- MODULE OneShot_proofs ----------------------------
(***************************************************************************)
(* A one-shot job is scheduled atomically and its starts are bounded, for  *)
(* every number of nodes, timers, crashes and late results, as long as no  *)
(* request recovers a job.                                                 *)
(***************************************************************************)
EXTENDS AsyncQueue_proofs

-----------------------------------------------------------------------------
(* Positions in the ready list.                                            *)

Once(q, i) == \A j, k \in DOMAIN q : q[j] = i /\ q[k] = i => j = k

\* ZRANGEBYSCORE returns a member once: a surjection between finite sets of
\* one cardinality is injective.
LEMMA OnceOrderings ==
  ASSUME NEW S \in SUBSET Ids, NEW z, NEW s \in Orderings(S, z), NEW i
  PROVE  Once(s, i)
<1> DEFINE n == Cardinality(S)
<1>1. IsFiniteSet(S) /\ n \in Nat
      BY IdsAssumption, FS_Subset, FS_CardinalityType
<1>2. IsFiniteSet(1..n) /\ Cardinality(1..n) = n BY <1>1, FS_Interval
<1>3. s \in [1..n -> S] /\ \A j \in S : \E k \in DOMAIN s : s[k] = j
      BY DEF Orderings
<1> HIDE DEF n
<1>4. s \in Surjection(1..n, S) BY <1>3 DEF Surjection
<1>5. Cardinality(S) = n BY DEF n
<1>6. s \in Injection(1..n, S)
      BY <1>1, <1>2, <1>4, <1>5, FS_SurjSameCardinalityImpliesInj
<1>7. QED BY <1>3, <1>6 DEF Injection, IsInjective, Once

LEMMA OnceTail ==
  ASSUME NEW q \in Seq(Ids), q # << >>, NEW i, Once(q, i)
  PROVE  /\ Once(Tail(q), i)
         /\ i = Head(q) => ~Queued(Tail(q), i)
<1>1. \A k \in DOMAIN Tail(q) :
        k + 1 \in DOMAIN q /\ Tail(q)[k] = q[k + 1] /\ k \in Nat /\ k # 0
      OBVIOUS
<1>2. 1 \in DOMAIN q /\ Head(q) = q[1] OBVIOUS
<1>3. Once(Tail(q), i) BY <1>1 DEF Once
<1>4. ASSUME i = Head(q), NEW k \in DOMAIN Tail(q), Tail(q)[k] = i PROVE FALSE
  <2>1. q[k + 1] = q[1] BY <1>1, <1>2, <1>4
  <2>2. k + 1 = 1 BY <1>1, <1>2, <1>4, <2>1 DEF Once
  <2>3. QED BY <1>1, <2>2
<1>5. QED BY <1>3, <1>4 DEF Queued

LEMMA OnceConcat ==
  ASSUME NEW q \in Seq(Ids), NEW s \in Seq(Ids), NEW i,
         Once(q, i), Once(s, i), ~(Queued(q, i) /\ Queued(s, i))
  PROVE  Once(q \o s, i)
<1>1. /\ q \o s \in Seq(Ids)
      /\ Len(q \o s) = Len(q) + Len(s)
      /\ \A k \in 1..Len(q) : (q \o s)[k] = q[k]
      /\ \A k \in 1..Len(s) : (q \o s)[Len(q) + k] = s[k]
      BY ConcatProperties
<1>2. \A k \in 1..Len(q \o s) :
        k \in 1..Len(q) \/ (k - Len(q) \in 1..Len(s) /\ k = Len(q) + (k - Len(q)))
      BY <1>1
<1>3. \A k \in DOMAIN (q \o s) : (q \o s)[k] = i =>
        \/ k \in DOMAIN q /\ q[k] = i
        \/ k - Len(q) \in DOMAIN s /\ s[k - Len(q)] = i
      BY <1>1, <1>2
<1>4. \A j, k \in DOMAIN (q \o s) : j \in Nat /\ k \in Nat BY <1>1
<1>5. SUFFICES ASSUME NEW j \in DOMAIN (q \o s), NEW k \in DOMAIN (q \o s),
                      (q \o s)[j] = i, (q \o s)[k] = i
               PROVE  j = k
      BY DEF Once
<1>6. CASE j \in DOMAIN q /\ q[j] = i /\ k \in DOMAIN q /\ q[k] = i
      BY <1>6 DEF Once
<1>7. CASE /\ j - Len(q) \in DOMAIN s /\ s[j - Len(q)] = i
           /\ k - Len(q) \in DOMAIN s /\ s[k - Len(q)] = i
  <2>1. j - Len(q) = k - Len(q) BY <1>7 DEF Once
  <2>2. QED BY <1>4, <1>5, <2>1
<1>8. QED BY <1>3, <1>5, <1>6, <1>7 DEF Queued

LEMMA OnceWithout ==
  ASSUME NEW q \in Seq(Ids), NEW i, NEW r \in Without(q, i), NEW j, Once(q, j)
  PROVE  Once(r, j)
<1> DEFINE kept == {k \in DOMAIN q : q[k] # i}
           n == Cardinality(kept)
<1>1. IsFiniteSet(1..Len(q)) BY FS_Interval
<1>2. n \in Nat BY <1>1, FS_Subset, FS_CardinalityType
<1>3. PICK f \in [1..n -> kept] :
        /\ \A k, m \in DOMAIN f : k < m => f[k] < f[m]
        /\ r = [k \in 1..n |-> q[f[k]]]
      BY DEF Without
<1> HIDE DEF n
<1>4. SUFFICES ASSUME NEW k \in 1..n, NEW m \in 1..n, q[f[k]] = j, q[f[m]] = j
               PROVE  k = m
      BY <1>3 DEF Once
<1>5. f[k] = f[m] BY <1>4 DEF Once
<1>6. f[k] \in Nat /\ f[m] \in Nat OBVIOUS
<1>7. QED BY <1>2, <1>3, <1>5, <1>6

LEMMA OncePushed ==
  ASSUME StoreTypeOK, NEW b \in Buckets, NEW S \in SUBSET Ids, NEW z,
         Pushed(b, S, z), NEW c \in Buckets, NEW i \in Ids, Once(ready[c], i),
         c = b /\ i \in S => ~Queued(ready[b], i)
  PROVE  Once(ready'[c], i)
<1>1. PICK s \in Orderings(S, z) : ready' = [ready EXCEPT ![b] = @ \o s]
      BY DEF Pushed
<1>2. s \in Seq(Ids) /\ \A k \in DOMAIN s : s[k] \in S BY OrderingsSeq
<1>3. ready[b] \in Seq(Ids) BY DEF StoreTypeOK
<1>4. CASE c = b
  <2>1. ~(Queued(ready[b], i) /\ Queued(s, i)) BY <1>2, <1>4 DEF Queued
  <2>2. Once(s, i) BY OnceOrderings
  <2>3. Once(ready[b] \o s, i) BY <1>2, <1>3, <1>4, <2>1, <2>2, OnceConcat
  <2>4. ready'[c] = ready[b] \o s BY <1>1, <1>4 DEF StoreTypeOK
  <2>5. QED BY <2>3, <2>4
<1>5. CASE c # b BY <1>1, <1>5 DEF StoreTypeOK
<1>6. QED BY <1>4, <1>5

LEMMA OnceUnqueued ==
  ASSUME StoreTypeOK, NEW b \in Buckets, NEW i \in Ids, Unqueued(b, i),
         NEW c \in Buckets, NEW j \in Ids, Once(ready[c], j)
  PROVE  Once(ready'[c], j)
<1>1. PICK q \in Without(ready[b], i) : ready' = [ready EXCEPT ![b] = q]
      BY DEF Unqueued
<1>2. ready[b] \in Seq(Ids) BY DEF StoreTypeOK
<1>3. CASE c = b
  <2>1. ready'[c] = q BY <1>1, <1>3 DEF StoreTypeOK
  <2>2. QED BY <1>1, <1>2, <1>3, <2>1, OnceWithout
<1>4. CASE c # b BY <1>1, <1>4 DEF StoreTypeOK
<1>5. QED BY <1>3, <1>4
-----------------------------------------------------------------------------
(* The invariant: where a one-shot job is, and how many starts are left.   *)

Left(b, i) == IF retry[b][i] > 0 THEN retry[b][i] ELSE 0

\* OnePlace, and no cron entry: Running2ReadyScript asks period, not Periodic.
Placed(b, i) ==
  /\ period[b][i] = Absent
  /\ Once(ready[b], i)
  /\ pending[b][i] # Absent => running[b][i] = Absent /\ ~Queued(ready[b], i)
  /\ running[b][i] # Absent => ~Queued(ready[b], i)

\* A job that may be popped (it still has its ttl) has a start left; the start
\* of a running one is spent.  A late result takes the ttl of a queued retry
\* away, and the pop drops it.
Budgeted(b, i) ==
  /\ (pending[b][i] # Absent \/ Queued(ready[b], i)) /\ i \in ttl[b]
       => starts[i] + Left(b, i) <= Retries[i]
  /\ running[b][i] # Absent => starts[i] + Left(b, i) <= Retries[i] + 1

OneShotInv ==
  /\ \A b \in Buckets, i \in OneShot : Placed(b, i) /\ Budgeted(b, i)
  /\ StartsBounded
  /\ \A i \in OneShot \ issued : starts[i] = 0

LEMMA PlacedIsOnePlace == (\A b \in Buckets, i \in OneShot : Placed(b, i)) => OnePlace
BY DEF Placed, OnePlace, Once, Queued

LEMMA LeftNat ==
  ASSUME StoreTypeOK, NEW b \in Buckets, NEW i \in Ids
  PROVE  Left(b, i) \in Nat
BY DEF StoreTypeOK, Score, Absent, Left

\* A step that only takes jobs out of places, or keeps them there.
Shrinks ==
  /\ UNCHANGED starts /\ issued \subseteq issued'
  /\ \A b \in Buckets, i \in OneShot :
       /\ period[b][i] = Absent => period'[b][i] = Absent
       /\ Once(ready[b], i) => Once(ready'[b], i)
       /\ Queued(ready'[b], i) => Queued(ready[b], i)
       /\ pending'[b][i] # Absent => pending[b][i] # Absent
       /\ running'[b][i] \in {running[b][i], Absent}
       /\ i \in ttl'[b] => i \in ttl[b]
       /\ retry'[b][i] = retry[b][i] \/ retry'[b][i] = Absent

LEMMA ShrinksInv ==
  ASSUME IInv, OneShotInv, Shrinks
  PROVE  OneShotInv'
<1>1. StoreTypeOK /\ starts \in [Ids -> 0..MaxStarts] /\ MaxStarts \in Nat
      BY QueueAssumption DEF IInv, StoreInv, EnvTypeOK
<1>2. ASSUME NEW b \in Buckets, NEW i \in OneShot
      PROVE  Placed(b, i)' /\ Budgeted(b, i)'
  <2>1. Placed(b, i)' BY DEF Shrinks, OneShotInv, Placed
  <2>2. i \in Ids /\ starts[i] \in Nat /\ Retries[i] \in Nat /\ Left(b, i) \in Nat
        BY <1>1, LeftNat, JobsAssumption DEF OneShot
  <2>3. Left(b, i)' = Left(b, i) \/ Left(b, i)' = 0
    <3>1. CASE retry'[b][i] = retry[b][i] BY <3>1 DEF Left
    <3>2. CASE retry'[b][i] = Absent BY <3>2 DEF Left, Absent
    <3>3. QED BY <3>1, <3>2 DEF Shrinks
  <2>4. starts'[i] = starts[i] BY DEF Shrinks
  <2>5. Budgeted(b, i) BY DEF OneShotInv
  <2>6. /\ (pending'[b][i] # Absent \/ Queued(ready'[b], i)) /\ i \in ttl'[b]
             => (pending[b][i] # Absent \/ Queued(ready[b], i)) /\ i \in ttl[b]
        /\ running'[b][i] # Absent => running[b][i] # Absent
        BY DEF Shrinks
  <2>7. Budgeted(b, i)' BY <2>2, <2>3, <2>4, <2>5, <2>6 DEF Budgeted
  <2>8. QED BY <2>1, <2>7
<1>3. StartsBounded' BY DEF OneShotInv, StartsBounded, Shrinks
<1>4. \A i \in OneShot \ issued' : starts'[i] = 0 BY DEF OneShotInv, Shrinks
<1>5. QED BY <1>2, <1>3, <1>4 DEF OneShotInv

LEMMA SameShrinks ==
  ASSUME UNCHANGED << store, starts, issued >>
  PROVE  Shrinks
BY DEF store, Shrinks, Queued, Once

LEMMA Ready2RunningDropShrinks ==
  ASSUME StoreTypeOK, NEW b \in Buckets, Ready2RunningDrop(b),
         UNCHANGED << starts, issued >>
  PROVE  Shrinks
<1> USE DEF Ready2RunningDrop
<1>1. ready[b] \in Seq(Ids) /\ ready[b] # << >> BY DEF StoreTypeOK
<1>2. \A j \in OneShot :
        /\ Once(ready[b], j) => Once(Tail(ready[b]), j)
        /\ Queued(Tail(ready[b]), j) => Queued(ready[b], j)
      BY <1>1, OnceTail, QueuedTail
<1>3. \A c \in Buckets : ready'[c] = IF c = b THEN Tail(ready[b]) ELSE ready[c]
      BY DEF StoreTypeOK
<1>4. QED BY <1>2, <1>3 DEF Shrinks

LEMMA Running2PendingShrinks ==
  ASSUME StoreTypeOK, OneShotInv, NEW b \in Buckets, NEW i \in Ids, NEW t, NEW next,
         Running2Pending(b, i, t, next), UNCHANGED << starts, issued >>
  PROVE  Shrinks
<1>1. CASE UNCHANGED store BY <1>1, SameShrinks
<1>2. CASE FiringDue(b, i, t)
  <2>1. /\ period' = [period EXCEPT ![b][i] = next]
        /\ pending' = [pending EXCEPT ![b][i] = next]
        /\ UNCHANGED << ready, running, ttl, retry >>
        /\ period[b][i] # Absent
        BY <1>2 DEF Running2Pending, FiringDue
  <2>2. i \notin OneShot BY <2>1 DEF OneShotInv, Placed
  <2>3. \A c \in Buckets, j \in OneShot :
          period'[c][j] = period[c][j] /\ pending'[c][j] = pending[c][j]
        BY <2>1, <2>2 DEF StoreTypeOK, OneShot
  <2>4. QED BY <2>1, <2>3 DEF Shrinks
<1>3. QED BY <1>1, <1>2 DEF Running2Pending

LEMMA Running2FinishShrinks ==
  ASSUME StoreTypeOK, NEW b \in Buckets, NEW i \in Ids, NEW st,
         Running2Finish(b, i, st), UNCHANGED << starts, issued >>
  PROVE  Shrinks
<1>1. /\ running' = [running EXCEPT ![b][i] = Absent]
      /\ UNCHANGED << pending, ready, period >>
      BY DEF Running2Finish
<1>2. \A c \in Buckets, j \in Ids :
        /\ j \in ttl'[c] => j \in ttl[c]
        /\ retry'[c][j] = retry[c][j] \/ retry'[c][j] = Absent
  <2>1. CASE period[b][i] = Absent
    <3>1. /\ retry' = [retry EXCEPT ![b][i] = Absent]
          /\ ttl' = [ttl EXCEPT ![b] = @ \ {i}]
          BY <2>1 DEF Running2Finish
    <3>2. QED BY <3>1 DEF StoreTypeOK
  <2>2. CASE period[b][i] # Absent BY <2>2 DEF Running2Finish
  <2>3. QED BY <2>1, <2>2
<1>3. \A c \in Buckets, j \in Ids :
        running'[c][j] \in {running[c][j], Absent}
      BY <1>1 DEF StoreTypeOK
<1>4. QED BY <1>1, <1>2, <1>3 DEF Shrinks, OneShot

LEMMA TerminateShrinks ==
  ASSUME StoreTypeOK, NEW b \in Buckets, NEW i \in Ids, Terminate(b, i),
         UNCHANGED << starts, issued >>
  PROVE  Shrinks
<1>1. Unqueued(b, i) BY DEF Terminate
<1>2. \A c \in Buckets, j \in Ids :
        /\ Once(ready[c], j) => Once(ready'[c], j)
        /\ Queued(ready'[c], j) => Queued(ready[c], j)
      BY <1>1, OnceUnqueued, UnqueuedQueue
<1>3. \A c \in Buckets, j \in Ids :
        pending'[c][j] # Absent => pending[c][j] # Absent
      BY DEF Terminate, StoreTypeOK
<1>4. QED BY <1>2, <1>3 DEF Shrinks, Terminate, OneShot

LEMMA DeleteShrinks ==
  ASSUME StoreTypeOK, NEW b \in Buckets, NEW i \in Ids, Delete(b, i),
         UNCHANGED << starts, issued >>
  PROVE  Shrinks
<1>1. Unqueued(b, i) BY DEF Delete
<1>2. \A c \in Buckets, j \in Ids :
        /\ Once(ready[c], j) => Once(ready'[c], j)
        /\ Queued(ready'[c], j) => Queued(ready[c], j)
      BY <1>1, OnceUnqueued, UnqueuedQueue
<1>3. \A c \in Buckets, j \in Ids :
        /\ pending'[c][j] # Absent => pending[c][j] # Absent
        /\ running'[c][j] \in {running[c][j], Absent}
        /\ period[c][j] = Absent => period'[c][j] = Absent
        /\ j \in ttl'[c] => j \in ttl[c]
        /\ retry'[c][j] = retry[c][j] \/ retry'[c][j] = Absent
      BY DEF Delete, StoreTypeOK
<1>4. QED BY <1>2, <1>3 DEF Shrinks, OneShot
-----------------------------------------------------------------------------
(* The four steps that put a job somewhere.                                *)

\* A fresh id is in no place, so its delivery is the whole story of the job.
LEMMA OneShotDeliver ==
  ASSUME IInv, HomeInv, OneShotInv, NEW i \in Ids, Deliver(i)
  PROVE  OneShotInv'
<1>1. PICK b \in Buckets, t \in StartTimes(i) : Send2Pending(b, i, t)
      BY DEF Deliver
<1>2. StoreTypeOK BY DEF IInv, StoreInv
<1>3. i \notin issued /\ issued' = issued \cup {i} /\ UNCHANGED starts
      BY DEF Deliver
<1>4. CASE UNCHANGED store
  <2>1. Shrinks BY <1>3, <1>4 DEF Shrinks, store, Queued, Once
  <2>2. QED BY <2>1, ShrinksInv
<1>5. CASE ~DeliveryRefused(b, i)
  <2>1. /\ ttl' = [ttl EXCEPT ![b] = @ \cup {i}]
        /\ retry' = [retry EXCEPT ![b][i] = Retries[i]]
        /\ pending' = [pending EXCEPT ![b][i] = t]
        /\ UNCHANGED << ready, running >>
        /\ IF i \in Periodic THEN period' = [period EXCEPT ![b][i] = t]
                             ELSE UNCHANGED period
        BY <1>1, <1>5 DEF Send2Pending
  <2>2. \A c \in Buckets : ~Present(c, i)
        BY <1>3, BucketsAssumption DEF HomeInv, HomeBucket
  <2>3. ASSUME NEW c \in Buckets, NEW j \in OneShot
        PROVE  Placed(c, j)' /\ Budgeted(c, j)'
    <3>1. Placed(c, j) /\ Budgeted(c, j) /\ j \in Ids
          BY DEF OneShotInv, OneShot
    <3>2. UNCHANGED << ready[c], running[c][j], period[c][j], starts[j] >>
      <4>1. period'[c][j] = period[c][j]
        <5>1. CASE i \in Periodic
          <6>1. j # i BY <5>1 DEF OneShot
          <6>2. period' = [period EXCEPT ![b][i] = t] BY <2>1, <5>1
          <6>3. QED BY <1>2, <3>1, <6>1, <6>2 DEF StoreTypeOK
        <5>2. CASE i \notin Periodic BY <2>1, <5>2
        <5>3. QED BY <5>1, <5>2
      <4>2. QED BY <1>3, <2>1, <4>1
    <3>3. CASE c = b /\ j = i
      <4>1. Placed(c, j)'
            BY <2>2, <3>1, <3>2, <3>3 DEF Placed, Present, Queued, Once
      <4>2. retry'[c][j] = Retries[j] /\ Retries[j] \in Nat
            BY <1>2, <2>1, <3>3, JobsAssumption DEF StoreTypeOK
      <4>3. starts'[j] = 0 BY <1>3, <3>2, <3>3 DEF OneShotInv
      <4>4. running'[c][j] = Absent BY <2>2, <3>2, <3>3 DEF Present
      <4>5. Left(c, j)' = Retries[j] BY <4>2 DEF Left
      <4>6. QED BY <4>1, <4>2, <4>3, <4>4, <4>5 DEF Budgeted
    <3>4. CASE c # b \/ j # i
      <4>1. /\ UNCHANGED << pending[c][j], retry[c][j] >>
            /\ j \in ttl'[c] => j \in ttl[c]
            BY <1>2, <2>1, <3>4 DEF StoreTypeOK, OneShot
      <4>2. Placed(c, j)' BY <3>1, <3>2, <4>1 DEF Placed, Once, Queued
      <4>3. Left(c, j)' = Left(c, j) BY <4>1 DEF Left
      <4>4. Budgeted(c, j)'
            BY <3>1, <3>2, <4>1, <4>3 DEF Budgeted, Queued
      <4>5. QED BY <4>2, <4>4
    <3>5. QED BY <3>3, <3>4
  <2>4. StartsBounded' BY <1>3 DEF OneShotInv, StartsBounded
  <2>5. \A j \in OneShot \ issued' : starts'[j] = 0 BY <1>3 DEF OneShotInv
  <2>6. QED BY <2>3, <2>4, <2>5 DEF OneShotInv
<1>6. QED BY <1>1, <1>4, <1>5 DEF Send2Pending

\* Every due one-shot job is pushed once and leaves pending.
LEMMA OneShotPending2Ready ==
  ASSUME IInv, OneShotInv, NEW b \in Buckets, Pending2Ready(b),
         UNCHANGED << starts, issued >>
  PROVE  OneShotInv'
<1> DEFINE D == Due(pending[b])
<1>1. StoreTypeOK BY DEF IInv, StoreInv
<1>2. Pushed(b, D, pending[b]) /\ D \in SUBSET Ids
      BY DEF Pending2Ready, Due
<1>3. \A i \in D : pending[b][i] # Absent BY DEF Due
<1>4. \A c \in Buckets, j \in Ids :
        Queued(ready'[c], j) <=> Queued(ready[c], j) \/ (c = b /\ j \in D)
      BY <1>1, <1>2, PushedQueue
<1>5. \A j \in OneShot : j \in D <=> j \in Moved(b)
      BY <1>3 DEF Moved, OneShotInv, Placed, OneShot
<1>6. \A c \in Buckets, j \in OneShot :
        pending'[c][j] = IF c = b /\ j \in D THEN Absent ELSE pending[c][j]
      BY <1>1, <1>5 DEF Pending2Ready, Removed, StoreTypeOK, OneShot
<1>7. UNCHANGED << running, period, retry, ttl >> BY DEF Pending2Ready
<1> HIDE DEF D
<1>8. ASSUME NEW c \in Buckets, NEW j \in OneShot
      PROVE  Placed(c, j)' /\ Budgeted(c, j)'
  <2>1. Placed(c, j) /\ Budgeted(c, j) /\ j \in Ids
        BY DEF OneShotInv, OneShot
  <2>2. c = b /\ j \in D => ~Queued(ready[b], j) BY <1>3, <2>1 DEF Placed
  <2>3. Once(ready'[c], j) BY <1>1, <1>2, <2>1, <2>2, OncePushed DEF Placed
  <2>4. Placed(c, j)'
        BY <1>3, <1>4, <1>6, <1>7, <2>1, <2>3 DEF Placed
  <2>5. Left(c, j)' = Left(c, j) BY <1>7 DEF Left
  <2>6. pending'[c][j] # Absent \/ Queued(ready'[c], j) =>
          pending[c][j] # Absent \/ Queued(ready[c], j)
        BY <1>3, <1>4, <1>6, <2>1
  <2>7. Budgeted(c, j)' BY <1>7, <2>1, <2>5, <2>6 DEF Budgeted
  <2>8. QED BY <2>4, <2>7
<1>9. StartsBounded' /\ \A i \in OneShot \ issued' : starts'[i] = 0
      BY DEF OneShotInv, StartsBounded
<1>10. QED BY <1>8, <1>9 DEF OneShotInv

\* The start the pop spends was left in the budget, and the popped id was the
\* only copy in the queue.
LEMMA OneShotPop ==
  ASSUME IInv, HomeInv, OneShotInv, NEW n \in Nodes, NEW b \in Buckets, Pop(n, b)
  PROVE  OneShotInv'
<1>1. PICK i \in Ids :
        /\ Ready2Running(b, i)
        /\ starts' = [starts EXCEPT ![i] = IF @ < MaxStarts THEN @ + 1 ELSE @]
        /\ UNCHANGED issued
      BY DEF Pop, WorkerGoes
<1>2. /\ StoreTypeOK
      /\ starts \in [Ids -> 0..MaxStarts] /\ MaxStarts \in Nat
      BY QueueAssumption DEF IInv, StoreInv, EnvTypeOK
<1>3. /\ ready[b] \in Seq(Ids) /\ ready[b] # << >>
      /\ i = Head(ready[b]) /\ i \in ttl[b]
      /\ ready' = [ready EXCEPT ![b] = Tail(@)]
      /\ running' = [running EXCEPT ![b][i] = Deadline(i)]
      /\ UNCHANGED << pending, period, retry, ttl >>
      BY <1>1, <1>2 DEF Ready2Running, StoreTypeOK
<1>4. \A c \in Buckets : ready'[c] = IF c = b THEN Tail(ready[b]) ELSE ready[c]
      BY <1>2, <1>3 DEF StoreTypeOK
<1>5. \A c \in Buckets, j \in Ids :
        c # b \/ j # i => running'[c][j] = running[c][j]
      BY <1>2, <1>3 DEF StoreTypeOK
<1>6. /\ \A j \in Ids : j # i => starts'[j] = starts[j]
      /\ starts'[i] <= starts[i] + 1 /\ starts'[i] \in Nat
      BY <1>1, <1>2
<1>7. Queued(ready[b], i) BY <1>3, QueuedTail
<1>8. bucketOf[i] = b BY <1>7 DEF HomeInv, HomeBucket, Present
<1>9. i \in issued BY <1>8, BucketsAssumption DEF HomeInv
<1>10. ASSUME NEW c \in Buckets, NEW j \in OneShot
       PROVE  Placed(c, j)' /\ Budgeted(c, j)'
  <2>1. /\ Placed(c, j) /\ Budgeted(c, j) /\ j \in Ids
        /\ Left(c, j) \in Nat /\ Retries[j] \in Nat /\ starts[j] \in Nat
        BY <1>2, LeftNat, JobsAssumption DEF OneShotInv, OneShot
  <2>2. Left(c, j)' = Left(c, j) BY <1>3 DEF Left
  <2>3. /\ Once(ready'[c], j)
        /\ Queued(ready'[c], j) => Queued(ready[c], j)
        /\ c = b /\ j = i => ~Queued(ready'[c], j)
        BY <1>3, <1>4, <2>1, OnceTail, QueuedTail DEF Placed
  <2>4. CASE j # i
    <3>1. UNCHANGED << running[c][j], starts[j] >> BY <1>5, <1>6, <2>1, <2>4
    <3>2. Placed(c, j)' BY <1>3, <2>1, <2>3, <3>1 DEF Placed
    <3>3. Budgeted(c, j)' BY <1>3, <2>1, <2>2, <2>3, <3>1 DEF Budgeted
    <3>4. QED BY <3>2, <3>3
  <2>5. CASE j = i /\ c = b
    <3>1. Placed(c, j)' BY <1>3, <1>7, <2>1, <2>3, <2>5 DEF Placed
    <3>2. starts[j] + Left(c, j) <= Retries[j]
          BY <1>3, <1>7, <2>1, <2>5 DEF Budgeted
    <3>3. starts'[j] + Left(c, j) <= Retries[j] + 1
          BY <1>6, <2>1, <2>5, <3>2
    <3>4. pending'[c][j] = Absent BY <1>3, <1>7, <2>1, <2>5 DEF Placed
    <3>5. Budgeted(c, j)' BY <2>2, <2>3, <2>5, <3>3, <3>4 DEF Budgeted
    <3>6. QED BY <3>1, <3>5
  <2>6. CASE j = i /\ c # b
    <3>1. ~Present(c, j) BY <1>8, <2>1, <2>6 DEF HomeInv, HomeBucket
    <3>2. running'[c][j] = Absent /\ pending'[c][j] = Absent
          BY <1>3, <1>5, <2>1, <2>6, <3>1 DEF Present
    <3>3. ~Queued(ready'[c], j) BY <2>3, <3>1 DEF Present
    <3>4. Placed(c, j)' BY <1>3, <2>1, <2>3, <3>2 DEF Placed
    <3>5. Budgeted(c, j)' BY <3>2, <3>3 DEF Budgeted
    <3>6. QED BY <3>4, <3>5
  <2>7. QED BY <2>4, <2>5, <2>6
<1>11. StartsBounded'
  <2> SUFFICES ASSUME NEW j \in OneShot PROVE starts'[j] <= 1 + Retries[j]
      BY DEF StartsBounded
  <2>1. j \in Ids /\ starts[j] <= 1 + Retries[j]
        BY DEF OneShot, OneShotInv, StartsBounded
  <2>2. CASE j # i BY <1>6, <2>1, <2>2
  <2>3. CASE j = i
    <3>1. starts[i] + Left(b, i) <= Retries[i] /\ Left(b, i) \in Nat
          BY <1>2, <1>3, <1>7, <2>3, LeftNat DEF OneShotInv, Budgeted
    <3>2. starts[i] \in Nat /\ Retries[i] \in Nat BY <1>2, JobsAssumption
    <3>3. QED BY <1>6, <2>3, <3>1, <3>2
  <2>4. QED BY <2>2, <2>3
<1>12. \A j \in OneShot \ issued' : starts'[j] = 0
       BY <1>1, <1>6, <1>9 DEF OneShotInv, OneShot
<1>13. QED BY <1>10, <1>11, <1>12 DEF OneShotInv

\* A retry is paid from the budget, and the run it replaces leaves running.
LEMMA OneShotRunning2Ready ==
  ASSUME IInv, OneShotInv, NEW b \in Buckets, Running2Ready(b),
         UNCHANGED << starts, issued >>
  PROVE  OneShotInv'
<1> DEFINE R == Retried(b)
<1>1. StoreTypeOK /\ starts \in [Ids -> 0..MaxStarts] /\ MaxStarts \in Nat
      BY QueueAssumption DEF IInv, StoreInv, EnvTypeOK
<1>2. /\ R \in SUBSET Ids /\ R \subseteq Expired(b)
      /\ \A i \in Expired(b) : running[b][i] # Absent
      /\ \A i \in R : retry[b][i] > 0
      BY DEF Retried, Expired, Due
<1>3. Pushed(b, R, running[b]) BY DEF Running2Ready
<1>4. \A c \in Buckets, j \in Ids :
        Queued(ready'[c], j) <=> Queued(ready[c], j) \/ (c = b /\ j \in R)
      BY <1>1, <1>2, <1>3, PushedQueue
<1>5. \A c \in Buckets, j \in Ids :
        running'[c][j] = IF c = b /\ j \in Expired(b) THEN Absent ELSE running[c][j]
      BY <1>1 DEF Running2Ready, Removed, StoreTypeOK
<1>6. UNCHANGED << pending, period >> BY DEF Running2Ready
<1>7. \A c \in Buckets, j \in Ids : j \in ttl'[c] => j \in ttl[c]
      BY <1>1 DEF Running2Ready, StoreTypeOK
<1>8. \A c \in Buckets, j \in OneShot :
        retry'[c][j] = IF c = b /\ j \in R THEN retry[c][j] - 1
                       ELSE IF c = b /\ j \in Expired(b) THEN Absent
                       ELSE retry[c][j]
  <2> SUFFICES ASSUME NEW c \in Buckets, NEW j \in OneShot
               PROVE  retry'[c][j] = IF c = b /\ j \in R THEN retry[c][j] - 1
                                     ELSE IF c = b /\ j \in Expired(b) THEN Absent
                                     ELSE retry[c][j]
      OBVIOUS
  <2>1. period[b][j] = Absent /\ j \in Ids BY DEF OneShotInv, Placed, OneShot
  <2>2. j \in Expired(b) /\ j \notin R <=> j \in OneShotGivenUp(b)
        BY <2>1 DEF OneShotGivenUp, GivenUp
  <2>3. j \notin GivenUp(b) \ OneShotGivenUp(b)
        BY <2>1 DEF OneShotGivenUp
  <2>4. RetryAfterExpiry(b)[j] = IF j \in R THEN retry[b][j] - 1
                                 ELSE IF j \in Expired(b) THEN Absent
                                 ELSE retry[b][j]
        BY <1>2, <2>1, <2>2, <2>3 DEF RetryAfterExpiry
  <2>5. CASE c = b
    <3>1. retry'[c] = RetryAfterExpiry(b)
          BY <1>1, <2>5 DEF Running2Ready, StoreTypeOK
    <3>2. QED BY <2>4, <2>5, <3>1
  <2>6. CASE c # b BY <1>1, <2>6 DEF Running2Ready, StoreTypeOK
  <2>7. QED BY <2>5, <2>6
<1> HIDE DEF R
<1>9. ASSUME NEW c \in Buckets, NEW j \in OneShot
      PROVE  Placed(c, j)' /\ Budgeted(c, j)'
  <2>1. /\ Placed(c, j) /\ Budgeted(c, j) /\ j \in Ids
        /\ Left(c, j) \in Nat /\ Retries[j] \in Nat /\ starts[j] \in Nat
        /\ retry[c][j] \in Score
        BY <1>1, LeftNat, JobsAssumption DEF OneShotInv, OneShot, StoreTypeOK
  <2>2. c = b /\ j \in R => ~Queued(ready[b], j) BY <1>2, <2>1 DEF Placed
  <2>3. Once(ready'[c], j)
        BY <1>1, <1>2, <1>3, <2>1, <2>2, OncePushed DEF Placed
  <2>4. Placed(c, j)'
        BY <1>2, <1>4, <1>5, <1>6, <2>1, <2>3 DEF Placed
  <2>5. CASE c = b /\ j \in R
    <3>1. starts[j] + Left(c, j) <= Retries[j] + 1
          BY <1>2, <2>1, <2>5 DEF Budgeted
    <3>2. retry[c][j] > 0 /\ retry[c][j] \in Nat
          BY <1>2, <2>1, <2>5 DEF Score, Absent
    <3>3. retry'[c][j] = retry[c][j] - 1 BY <1>8, <2>5
    <3>4. Left(c, j) = retry[c][j] /\ Left(c, j)' = retry[c][j] - 1
          BY <3>2, <3>3 DEF Left
    <3>5. starts'[j] + Left(c, j)' <= Retries[j]
          BY <2>1, <3>1, <3>2, <3>4
    <3>6. running'[c][j] = Absent BY <1>2, <1>5, <2>1, <2>5
    <3>7. Budgeted(c, j)' BY <3>5, <3>6 DEF Budgeted
    <3>8. QED BY <2>4, <3>7
  <2>6. CASE ~(c = b /\ j \in R)
    <3>1. retry'[c][j] = retry[c][j] \/ retry'[c][j] = Absent BY <1>8, <2>6
    <3>2. Left(c, j)' = Left(c, j) \/ Left(c, j)' = 0
      <4>1. CASE retry'[c][j] = retry[c][j] BY <4>1 DEF Left
      <4>2. CASE retry'[c][j] = Absent BY <4>2 DEF Left, Absent
      <4>3. QED BY <3>1, <4>1, <4>2
    <3>3. /\ Queued(ready'[c], j) => Queued(ready[c], j)
          /\ running'[c][j] # Absent => running[c][j] # Absent
          BY <1>4, <1>5, <2>1, <2>6
    <3>4. Budgeted(c, j)'
          BY <1>6, <1>7, <2>1, <3>2, <3>3 DEF Budgeted
    <3>5. QED BY <2>4, <3>4
  <2>7. QED BY <2>5, <2>6
<1>10. StartsBounded' /\ \A i \in OneShot \ issued' : starts'[i] = 0
       BY DEF OneShotInv, StartsBounded
<1>11. QED BY <1>9, <1>10 DEF OneShotInv
-----------------------------------------------------------------------------
(* Every step of the system.                                               *)

LEMMA OneShotApi ==
  ASSUME IInv, HomeInv, OneShotInv, Api
  PROVE  (UNCHANGED now /\ Shrinks) \/ \E i \in Ids : Deliver(i)
<1>1. StoreTypeOK /\ EnvTypeOK BY DEF IInv, StoreInv
<1>2. ASSUME NEW c \in Clients, NEW i \in issued,
             StopJob(c, i) \/ RecoverJob(c, i) \/ DeleteJob(c, i)
      PROVE  UNCHANGED now /\ Shrinks
  <2>1. UNCHANGED << now, store, starts, issued >>
        BY <1>2 DEF StopJob, RecoverJob, DeleteJob, Request, CallGoes
  <2>2. QED BY <2>1, SameShrinks
<1>3. ASSUME NEW c \in Clients,
             StopCheck(c) \/ StopEval(c) \/ DeleteEval(c)
      PROVE  UNCHANGED now /\ Shrinks
  <2>1. UNCHANGED << now, starts, issued >>
        BY <1>3 DEF StopCheck, StopEval, DeleteEval, CallGoes, CallEnds
  <2>2. call[c].id \in Ids /\ call[c].bucket \in Buckets
        BY <1>1, <1>3, CallArgs DEF StopCheck, StopEval, DeleteEval
  <2>3. Shrinks
        BY <1>1, <1>3, <2>1, <2>2, SameShrinks, TerminateShrinks, DeleteShrinks
        DEF StopCheck, StopEval, DeleteEval
  <2>4. QED BY <2>1, <2>3
<1>4. ASSUME NEW c \in Clients, RecoverLoad(c) \/ RecoverSend(c)
      PROVE  FALSE
      BY <1>4 DEF HomeInv, RecoverLoad, RecoverSend
<1>5. QED BY <1>2, <1>3, <1>4 DEF Api

LEMMA OneShotTimers ==
  ASSUME IInv, OneShotInv, Timers
  PROVE  /\ UNCHANGED << now, starts, issued >>
         /\ Shrinks \/ \E b \in Buckets : Pending2Ready(b) \/ Running2Ready(b)
<1>1. StoreTypeOK /\ EnvTypeOK BY DEF IInv, StoreInv
<1>2. UNCHANGED << now, starts, issued >>
      BY DEF Timers, Pending2ReadyTimer, Running2ReadyTimer, SweepStep,
             SweepSelect, SweepFlag, SweepInfo, SweepPlan, SweepEval,
                      SweepGoes, env
<1>3. ASSUME NEW n \in Nodes, NEW b \in Buckets, SweepStep(n, b)
      PROVE  Shrinks
  <2>1. CASE SweepEval(n, b)
    <3>1. sweep[n][b] \in Sweep /\ sweep[n][b].pc = "eval"
          BY <1>1, <2>1 DEF SweepEval, EnvTypeOK
    <3>2. sweep[n][b].id \in Ids BY <3>1 DEF Sweep, IdleSweep
    <3>3. QED BY <1>1, <1>2, <2>1, <3>2, Running2PendingShrinks DEF SweepEval
  <2>2. CASE \/ SweepSelect(n, b) \/ SweepFlag(n, b)
             \/ SweepInfo(n, b) \/ SweepPlan(n, b)
        BY <1>2, <2>2, SameShrinks
        DEF SweepSelect, SweepFlag, SweepInfo, SweepPlan
  <2>3. QED BY <1>3, <2>1, <2>2 DEF SweepStep
<1>4. QED BY <1>2, <1>3 DEF Timers, Pending2ReadyTimer, Running2ReadyTimer

LEMMA OneShotWorkers ==
  ASSUME IInv, HomeInv, OneShotInv, Workers
  PROVE  (UNCHANGED now /\ Shrinks) \/ \E n \in Nodes, b \in Buckets : Pop(n, b)
<1>1. StoreTypeOK /\ EnvTypeOK BY DEF IInv, StoreInv
<1>2. ASSUME NEW n \in Nodes, NEW b \in Buckets, WorkerStep(n, b), ~Pop(n, b)
      PROVE  UNCHANGED now /\ Shrinks
  <2>1. UNCHANGED << now, starts, issued >>
        BY <1>2 DEF WorkerStep, Probe, PopNothing, Acquire, Load, LoadFails,
                    Fail, WorkerGoes
  <2>2. CASE PopNothing(n, b)
    <3>1. UNCHANGED store \/ Ready2RunningDrop(b) BY <2>2 DEF PopNothing
    <3>2. QED BY <1>1, <2>1, <3>1, SameShrinks, Ready2RunningDropShrinks
  <2>3. CASE Fail(n, b)
    <3> DEFINE w == worker[n][b]
    <3>1. w \in Worker /\ w.pc = "fail" BY <1>1, <2>3 DEF Fail, EnvTypeOK
    <3>2. w.id \in Ids BY <3>1 DEF Worker, IdleWorker, Popping, GoneWorker
    <3>3. Running2Finish(b, w.id, "Error") \/ UNCHANGED store
          BY <2>3 DEF Fail, Finishes
    <3>4. QED BY <1>1, <2>1, <3>2, <3>3, SameShrinks, Running2FinishShrinks
  <2>4. CASE Probe(n, b) \/ Acquire(n, b) \/ Load(n, b) \/ LoadFails(n, b)
        BY <2>1, <2>4, SameShrinks DEF Probe, Acquire, Load, LoadFails
  <2>5. QED BY <1>2, <2>2, <2>3, <2>4 DEF WorkerStep
<1>3. ASSUME NEW n \in Nodes, NEW b \in Buckets, NEW k \in Slots,
             \/ ExecResult(n, b, k) \/ Monitor(n, b, k)
             \/ ExecTerminate(n, b, k) \/ ExecTimeout(n, b, k)
             \/ ExecCancelled(n, b, k)
      PROVE  UNCHANGED now /\ Shrinks
  <2>1. UNCHANGED << now, starts, issued >>
        BY <1>3 DEF ExecResult, Monitor, ExecTerminate, ExecTimeout,
              ExecCancelled, ExecEnds
  <2>2. slot[n][b][k].st = "exec" => slot[n][b][k].id \in Ids
        BY <1>1 DEF EnvTypeOK, Slot, FreeSlot, LostSlot
  <2>3. QED BY <1>1, <1>3, <2>1, <2>2, SameShrinks, Running2FinishShrinks
            DEF ExecResult, Monitor, ExecTerminate, ExecTimeout, ExecCancelled,
                Finishes
<1>4. QED BY <1>2, <1>3 DEF Workers, WorkerStep

LEMMA OneShotSteps ==
  ASSUME IInv, HomeInv, OneShotInv, [Next]_vars
  PROVE  \/ now' \in {now, now + 1} /\ Shrinks
         \/ \E i \in Ids : Deliver(i)
         \/ \E b \in Buckets : /\ Pending2Ready(b) \/ Running2Ready(b)
                               /\ UNCHANGED << now, starts, issued >>
         \/ \E n \in Nodes, b \in Buckets : Pop(n, b)
<1>1. CASE \/ Tick \/ UNCHANGED vars
           \/ \E n \in Nodes : Cancel(n) \/ Crash(n)
  <2>1. UNCHANGED << store, starts, issued >> /\ now' \in {now, now + 1}
        BY <1>1 DEF Tick, Cancel, Crash, vars, env
  <2>2. QED BY <2>1, SameShrinks
<1>2. QED BY <1>1, OneShotApi, OneShotTimers, OneShotWorkers DEF Next

LEMMA OneShotNext == IInv /\ HomeInv /\ OneShotInv /\ [Next]_vars => OneShotInv'
BY OneShotSteps, ShrinksInv, OneShotDeliver, OneShotPending2Ready,
   OneShotRunning2Ready, OneShotPop

LEMMA OneShotInit == Init => OneShotInv
<1> SUFFICES ASSUME Init PROVE OneShotInv OBVIOUS
<1>1. ASSUME NEW b \in Buckets, NEW i \in OneShot
      PROVE  Placed(b, i) /\ Budgeted(b, i)
      BY DEF Init, StoreInit, Placed, Budgeted, Once, Queued, OneShot
<1>2. \A i \in OneShot : starts[i] = 0 /\ Retries[i] \in Nat
      BY JobsAssumption DEF Init, OneShot
<1>3. QED BY <1>1, <1>2 DEF OneShotInv, StartsBounded

LEMMA OneShotInvariance ==
  ASSUME "recover" \notin Ops
  PROVE  Spec => []OneShotInv
BY OneShotInit, OneShotNext, HomeInvariance, Invariance, PTL DEF Spec

(* Atomic scheduling: a one-shot job waits, is queued once, or runs, and   *)
(* two workers are never handed the same run.                              *)
THEOREM ScheduledOnce ==
  ASSUME "recover" \notin Ops
  PROVE  Spec => []OnePlace
<1>1. OneShotInv => OnePlace BY PlacedIsOnePlace DEF OneShotInv
<1>2. QED BY <1>1, OneShotInvariance, PTL

(* A one-shot job starts at most once plus its configured retries, whatever*)
(* crashes, late results and concurrent timers do.                         *)
THEOREM BoundedStarts ==
  ASSUME "recover" \notin Ops
  PROVE  Spec => []StartsBounded
<1>1. OneShotInv => StartsBounded BY DEF OneShotInv
<1>2. QED BY <1>1, OneShotInvariance, PTL

-----------------------------------------------------------------------------
(* What a one-shot job has in each of its places.                          *)

\* A worker or an execution that holds a job has begun a run of it.  The history
\* counter says so when it counts at all (MaxStarts # 0).
Begun(i) ==
  \A n \in Nodes, b \in Buckets :
    /\ worker[n][b].id = i => starts[i] # 0
    /\ \A k \in Slots : slot[n][b][k].id = i => starts[i] # 0

\* A job has its ttl until its first run and during every run, and while it may
\* still run it shows a status that StopJob accepts.  A late result takes a queued
\* job out of this, never a pending one: nobody has begun a run of that (Begun).
Fit(b, i) ==
  /\ pending[b][i] # Absent =>
       i \in ttl[b] /\ starts[i] = 0 /\ status[b][i] = "Pending"
  /\ running[b][i] # Absent => i \in ttl[b] /\ status[b][i] = "Running"
  /\ Queued(ready[b], i) /\ i \in ttl[b] => status[b][i] \in {"Ready", "TimeOut"}

FitInv == /\ \A b \in Buckets, i \in OneShot : Fit(b, i)
          /\ \A i \in Ids : Begun(i)

LEMMA BegunNext ==
  ASSUME IInv, NEW j \in Ids, Begun(j), MaxStarts # 0, [Next]_vars
  PROVE  Begun(j)'
<1>1. /\ EnvTypeOK /\ MaxStarts \in Nat /\ MaxStarts # 0
      /\ worker \in [Nodes -> [Buckets -> Worker]]
      /\ slot \in [Nodes -> [Buckets -> [Slots -> Slot]]]
      /\ starts \in [Ids -> 0..MaxStarts]
      /\ NoId # j
      BY QueueAssumption DEF IInv, EnvTypeOK
<1>2. CASE UNCHANGED << worker, slot, starts >> BY <1>2 DEF Begun
<1>3. CASE Tick \/ Api \/ Timers \/ UNCHANGED vars
  <2>1. UNCHANGED << worker, slot, starts >>
    <3>1. CASE Tick \/ UNCHANGED vars BY <3>1 DEF Tick, vars, env
    <3>2. CASE Timers
          BY <3>2 DEF Timers, Pending2ReadyTimer, Running2ReadyTimer, SweepStep,
                      SweepSelect, SweepFlag, SweepInfo, SweepPlan, SweepEval,
                      SweepGoes, env
    <3>3. CASE Api
          BY <3>3 DEF Api, Deliver, StopJob, RecoverJob, DeleteJob, Request,
                      StopCheck, StopEval, RecoverLoad, RecoverSend, DeleteEval,
                      CallGoes, CallEnds
    <3>4. QED BY <1>3, <3>1, <3>2, <3>3
  <2>2. QED BY <1>2, <2>1
<1>4. ASSUME NEW n \in Nodes, Crash(n) PROVE Begun(j)'
  <2>1. /\ UNCHANGED starts
        /\ \A m \in Nodes, b \in Buckets :
             /\ worker'[m][b] = IF m = n THEN IdleWorker ELSE worker[m][b]
             /\ \A k \in Slots :
                  slot'[m][b][k] = IF m = n THEN FreeSlot ELSE slot[m][b][k]
        BY <1>1, <1>4 DEF Crash
  <2>2. IdleWorker.id # j /\ FreeSlot.id # j BY <1>1 DEF IdleWorker, FreeSlot
  <2>3. \A m \in Nodes, b \in Buckets : worker'[m][b].id = j => starts'[j] # 0
        BY <2>1, <2>2 DEF Begun
  <2>4. \A m \in Nodes, b \in Buckets, k \in Slots :
          slot'[m][b][k].id = j => starts'[j] # 0
        BY <2>1, <2>2 DEF Begun
  <2>5. QED BY <2>3, <2>4 DEF Begun
<1>5. ASSUME NEW n \in Nodes, NEW b \in Buckets, NEW w,
             worker' = [worker EXCEPT ![n][b] = w],
             w.id = j => starts'[j] # 0,
             starts[j] # 0 => starts'[j] # 0
      PROVE  \A m \in Nodes, c \in Buckets : worker'[m][c].id = j => starts'[j] # 0
  <2>1. \A m \in Nodes, c \in Buckets :
          worker'[m][c] = IF m = n /\ c = b THEN w ELSE worker[m][c]
        BY <1>1, <1>5
  <2>2. QED BY <1>5, <2>1 DEF Begun
<1>6. ASSUME NEW n \in Nodes, NEW b \in Buckets, NEW k \in Slots, NEW e,
             slot' = [slot EXCEPT ![n][b][k] = e], UNCHANGED starts,
             e.id = j => starts[j] # 0
      PROVE  \A m \in Nodes, c \in Buckets, l \in Slots :
               slot'[m][c][l].id = j => starts'[j] # 0
  <2>1. \A m \in Nodes, c \in Buckets, l \in Slots :
          slot'[m][c][l] = IF m = n /\ c = b /\ l = k THEN e ELSE slot[m][c][l]
        BY <1>1, <1>6
  <2>2. QED BY <1>6, <2>1 DEF Begun
<1>7. ASSUME NEW n \in Nodes, NEW b \in Buckets, WorkerStep(n, b)
      PROVE  Begun(j)'
  <2> DEFINE w == worker[n][b]
  <2>1. w \in Worker /\ (w.id = j => starts[j] # 0)
        BY <1>1 DEF Begun
  <2>2. NextRound(n).id # j /\ Popping.id # j
        BY <1>1 DEF IdleWorker, Popping, GoneWorker, NextRound
  <2>3. CASE Probe(n, b) \/ PopNothing(n, b)
    <3>1. PICK v \in {NextRound(n), Popping} : worker' = [worker EXCEPT ![n][b] = v]
          BY <2>3 DEF Probe, PopNothing, WorkerGoes
    <3>2. UNCHANGED << starts, slot >> BY <2>3 DEF Probe, PopNothing
    <3>3. \A m \in Nodes, c \in Buckets : worker'[m][c].id = j => starts'[j] # 0
          BY <1>5, <2>2, <3>1, <3>2
    <3>4. QED BY <3>2, <3>3 DEF Begun
  <2>4. CASE Pop(n, b)
    <3>1. PICK i \in Ids :
            /\ starts' = [starts EXCEPT ![i] = IF @ < MaxStarts THEN @ + 1 ELSE @]
            /\ worker' = [worker EXCEPT ![n][b] =
                            [pc |-> "acquire", id |-> i, popped |-> Stamp]]
            /\ UNCHANGED slot
          BY <2>4 DEF Pop, WorkerGoes
    <3>2. /\ starts[j] # 0 => starts'[j] # 0
          /\ i = j => starts'[j] # 0
          BY <1>1, <3>1
    <3>3. \A m \in Nodes, c \in Buckets : worker'[m][c].id = j => starts'[j] # 0
          BY <1>5, <3>1, <3>2
    <3>4. QED BY <3>1, <3>2, <3>3 DEF Begun
  <2>5. CASE Acquire(n, b)
    <3> DEFINE e == [st |-> "held", id |-> w.id, popped |-> w.popped,
                     armed |-> 0, stop |-> FALSE]
    <3>1. PICK k \in Slots : slot' = [slot EXCEPT ![n][b][k] = e]
          BY <2>5 DEF Acquire, FreeSlots
    <3> e.id = j => starts[j] # 0 BY <2>1
    <3> HIDE DEF e
    <3>2. /\ worker' = [worker EXCEPT ![n][b] = [w EXCEPT !.pc = "load"]]
          /\ UNCHANGED starts
          BY <2>5 DEF Acquire, WorkerGoes
    <3>3. [w EXCEPT !.pc = "load"].id = w.id
          BY <2>1 DEF Worker, IdleWorker, Popping, GoneWorker
    <3>4. \A m \in Nodes, c \in Buckets : worker'[m][c].id = j => starts'[j] # 0
          BY <1>5, <2>1, <3>2, <3>3
    <3>5. \A m \in Nodes, c \in Buckets, l \in Slots :
            slot'[m][c][l].id = j => starts'[j] # 0
          BY <1>6, <2>1, <3>1, <3>2
    <3>6. QED BY <3>4, <3>5 DEF Begun
  <2>6. CASE LoadFails(n, b)
    <3>1. /\ worker' = [worker EXCEPT ![n][b] = [w EXCEPT !.pc = "fail"]]
          /\ UNCHANGED << starts, slot >>
          BY <2>6 DEF LoadFails, WorkerGoes
    <3>2. [w EXCEPT !.pc = "fail"].id = w.id
          BY <2>1 DEF Worker, IdleWorker, Popping, GoneWorker
    <3>3. \A m \in Nodes, c \in Buckets : worker'[m][c].id = j => starts'[j] # 0
          BY <1>5, <2>1, <3>1, <3>2
    <3>4. QED BY <3>1, <3>3 DEF Begun
  <2>7. CASE Load(n, b) \/ Fail(n, b)
    <3>1. /\ worker' = [worker EXCEPT ![n][b] = NextRound(n)]
          /\ UNCHANGED starts
          BY <2>7 DEF Load, Fail, WorkerGoes
    <3> DEFINE Taken(k) == [slot[n][b][k] EXCEPT !.st = "exec", !.armed = Clock]
    <3>2. PICK k \in Slots : \E e \in {LostSlot, Taken(k)} :
            slot' = [slot EXCEPT ![n][b][k] = e]
          BY <2>7 DEF Load, Fail
    <3> PICK e \in {LostSlot, Taken(k)} : slot' = [slot EXCEPT ![n][b][k] = e]
        BY <3>2
    <3>3. e.id = j => starts[j] # 0
      <4>1. slot[n][b][k] \in Slot BY <1>1
      <4>2. Taken(k).id = slot[n][b][k].id
            BY <4>1 DEF Slot, FreeSlot, LostSlot
      <4>3. LostSlot.id # j BY <1>1 DEF LostSlot
      <4>4. QED BY <4>2, <4>3 DEF Begun
    <3>4. \A m \in Nodes, c \in Buckets : worker'[m][c].id = j => starts'[j] # 0
          BY <1>5, <2>2, <3>1
    <3>5. \A m \in Nodes, c \in Buckets, l \in Slots :
            slot'[m][c][l].id = j => starts'[j] # 0
          BY <1>6, <3>1, <3>2, <3>3
    <3>6. QED BY <3>4, <3>5 DEF Begun
  <2>8. QED BY <1>7, <2>3, <2>4, <2>5, <2>6, <2>7 DEF WorkerStep
<1>8. ASSUME NEW n \in Nodes, NEW b \in Buckets, NEW k \in Slots,
             \/ ExecResult(n, b, k) \/ Monitor(n, b, k)
             \/ ExecTerminate(n, b, k) \/ ExecTimeout(n, b, k)
             \/ ExecCancelled(n, b, k)
      PROVE  Begun(j)'
  <2>1. UNCHANGED << starts, worker >>
        BY <1>8 DEF ExecResult, Monitor, ExecTerminate, ExecTimeout,
              ExecCancelled, ExecEnds
  <2>2. PICK e \in {FreeSlot, [slot[n][b][k] EXCEPT !.stop = TRUE]} :
          slot' = [slot EXCEPT ![n][b][k] = e]
        BY <1>8 DEF ExecResult, Monitor, ExecTerminate, ExecTimeout,
              ExecCancelled, ExecEnds
  <2>3. e.id = j => starts[j] # 0
    <3>1. slot[n][b][k] \in Slot BY <1>1
    <3>2. [slot[n][b][k] EXCEPT !.stop = TRUE].id = slot[n][b][k].id
          BY <3>1 DEF Slot, FreeSlot, LostSlot
    <3>3. FreeSlot.id # j BY <1>1 DEF FreeSlot
    <3>4. QED BY <3>2, <3>3 DEF Begun
  <2>4. \A m \in Nodes, c \in Buckets, l \in Slots :
          slot'[m][c][l].id = j => starts'[j] # 0
        BY <1>6, <2>1, <2>2, <2>3
  <2>5. QED BY <2>1, <2>4 DEF Begun
<1>9. ASSUME NEW n \in Nodes, Cancel(n) PROVE Begun(j)'
  <2>1. /\ UNCHANGED << starts, slot >>
        /\ \A m \in Nodes, b \in Buckets :
             worker'[m][b] = worker[m][b] \/ worker'[m][b] = GoneWorker
        BY <1>1, <1>9 DEF Cancel
  <2>2. GoneWorker.id # j BY <1>1 DEF GoneWorker
  <2>3. QED BY <2>1, <2>2 DEF Begun
<1>10. QED BY <1>3, <1>4, <1>7, <1>8, <1>9 DEF Next, Workers

LEMMA FitSame ==
  ASSUME FitInv, UNCHANGED << store, starts >>, NEW c \in Buckets, NEW j \in OneShot
  PROVE  Fit(c, j)'
<1>1. Fit(c, j) BY DEF FitInv
<1>2. QED BY <1>1 DEF store, Fit, Queued

LEMMA FitDeliver ==
  ASSUME IInv, HomeInv, OneShotInv, FitInv, NEW i \in Ids, Deliver(i),
         NEW c \in Buckets, NEW j \in OneShot
  PROVE  Fit(c, j)'
<1>1. PICK b \in Buckets, t \in StartTimes(i) : Send2Pending(b, i, t)
      BY DEF Deliver
<1>2. StoreTypeOK /\ j \in Ids /\ Fit(c, j) BY DEF IInv, StoreInv, OneShot, FitInv
<1>3. i \notin issued /\ UNCHANGED starts BY DEF Deliver
<1>4. \A d \in Buckets : ~Present(d, i)
      BY <1>3, BucketsAssumption DEF HomeInv, HomeBucket
<1>5. ~DeliveryRefused(b, i) BY <1>4 DEF DeliveryRefused, Present
<1>6. /\ ttl' = [ttl EXCEPT ![b] = @ \cup {i}]
      /\ pending' = [pending EXCEPT ![b][i] = t]
      /\ status' = [status EXCEPT ![b][i] = "Pending"]
      /\ UNCHANGED << ready, running >>
      BY <1>1, <1>5 DEF Send2Pending
<1>7. CASE c = b /\ j = i
  <2>1. j \in ttl'[c] /\ status'[c][j] = "Pending"
        BY <1>2, <1>6, <1>7 DEF StoreTypeOK
  <2>2. starts'[j] = 0 BY <1>3, <1>7 DEF OneShotInv
  <2>3. running'[c][j] = Absent /\ ~Queued(ready'[c], j)
        BY <1>4, <1>6, <1>7 DEF Present
  <2>4. QED BY <2>1, <2>2, <2>3 DEF Fit
<1>8. CASE c # b \/ j # i
  <2>1. /\ pending'[c][j] = pending[c][j]
        /\ status'[c][j] = status[c][j]
        /\ j \in ttl'[c] <=> j \in ttl[c]
        BY <1>2, <1>6, <1>8 DEF StoreTypeOK
  <2>2. QED BY <1>2, <1>3, <1>6, <2>1 DEF Fit
<1>9. QED BY <1>7, <1>8

LEMMA FitPending2Ready ==
  ASSUME IInv, OneShotInv, FitInv, NEW b \in Buckets, Pending2Ready(b),
         UNCHANGED starts, NEW c \in Buckets, NEW j \in OneShot
  PROVE  Fit(c, j)'
<1> DEFINE D == Due(pending[b])
<1>1. StoreTypeOK /\ j \in Ids /\ Fit(c, j) /\ Placed(c, j) /\ Placed(b, j)
      BY DEF IInv, StoreInv, OneShot, FitInv, OneShotInv
<1>2. Pushed(b, D, pending[b]) /\ D \in SUBSET Ids
      BY DEF Pending2Ready, Due
<1>3. j \in D => pending[b][j] # Absent BY DEF Due
<1>4. Queued(ready'[c], j) <=> Queued(ready[c], j) \/ (c = b /\ j \in D)
      BY <1>1, <1>2, PushedQueue
<1>5. j \in D <=> j \in Moved(b) BY <1>1, <1>3 DEF Moved, Placed
<1>6. /\ pending'[c][j] = IF c = b /\ j \in D THEN Absent ELSE pending[c][j]
      /\ status'[c][j] = IF c = b /\ j \in D THEN "Ready" ELSE status[c][j]
      BY <1>1, <1>5 DEF Pending2Ready, Removed, StoreTypeOK
<1>7. UNCHANGED << running, ttl >> BY DEF Pending2Ready
<1> HIDE DEF D
<1>8. CASE c = b /\ j \in D
  <2>1. running'[c][j] = Absent /\ pending'[c][j] = Absent /\ status'[c][j] = "Ready"
        BY <1>1, <1>3, <1>6, <1>7, <1>8 DEF Placed
  <2>2. QED BY <2>1 DEF Fit
<1>9. CASE ~(c = b /\ j \in D) BY <1>1, <1>4, <1>6, <1>7, <1>9 DEF Fit
<1>10. QED BY <1>8, <1>9

LEMMA FitPop ==
  ASSUME IInv, HomeInv, OneShotInv, FitInv, NEW n \in Nodes, NEW b \in Buckets,
         Pop(n, b), NEW c \in Buckets, NEW j \in OneShot
  PROVE  Fit(c, j)'
<1>1. PICK i \in Ids :
        /\ Ready2Running(b, i)
        /\ starts' = [starts EXCEPT ![i] = IF @ < MaxStarts THEN @ + 1 ELSE @]
      BY DEF Pop
<1>2. /\ StoreTypeOK /\ starts \in [Ids -> 0..MaxStarts] /\ j \in Ids
      /\ Fit(c, j) /\ Placed(c, j)
      BY DEF IInv, StoreInv, EnvTypeOK, OneShot, FitInv, OneShotInv
<1>3. /\ ready[b] \in Seq(Ids) /\ ready[b] # << >>
      /\ i = Head(ready[b]) /\ i \in ttl[b]
      /\ ready' = [ready EXCEPT ![b] = Tail(@)]
      /\ running' = [running EXCEPT ![b][i] = Deadline(i)]
      /\ status' = [status EXCEPT ![b][i] = "Running"]
      /\ UNCHANGED << pending, ttl >>
      BY <1>1, <1>2 DEF Ready2Running, StoreTypeOK
<1>4. \A d \in Buckets : ready'[d] = IF d = b THEN Tail(ready[b]) ELSE ready[d]
      BY <1>2, <1>3 DEF StoreTypeOK
<1>5. /\ Queued(ready'[c], j) => Queued(ready[c], j)
      /\ c = b /\ j = i => ~Queued(ready'[c], j)
      BY <1>2, <1>3, <1>4, OnceTail, QueuedTail DEF Placed
<1>6. Queued(ready[b], i) BY <1>3, QueuedTail
<1>7. CASE j # i
  <2>1. UNCHANGED << running[c][j], status[c][j], starts[j] >>
        BY <1>1, <1>2, <1>3, <1>7 DEF StoreTypeOK
  <2>2. QED BY <1>2, <1>3, <1>5, <2>1 DEF Fit
<1>8. CASE j = i /\ c = b
  <2>1. pending'[c][j] = Absent BY <1>2, <1>3, <1>6, <1>8 DEF Placed
  <2>2. status'[c][j] = "Running" /\ j \in ttl'[c]
        BY <1>2, <1>3, <1>8 DEF StoreTypeOK
  <2>3. QED BY <1>5, <1>8, <2>1, <2>2 DEF Fit
<1>9. CASE j = i /\ c # b
  <2>1. ~Present(c, j) BY <1>2, <1>6, <1>9 DEF HomeInv, HomeBucket, Present
  <2>2. running'[c][j] = Absent /\ pending'[c][j] = Absent
        BY <1>2, <1>3, <1>9, <2>1 DEF Present, StoreTypeOK
  <2>3. ~Queued(ready'[c], j) BY <1>5, <2>1 DEF Present
  <2>4. QED BY <2>2, <2>3 DEF Fit
<1>10. QED BY <1>7, <1>8, <1>9

LEMMA FitRunning2Ready ==
  ASSUME IInv, OneShotInv, FitInv, NEW b \in Buckets, Running2Ready(b),
         UNCHANGED starts, NEW c \in Buckets, NEW j \in OneShot
  PROVE  Fit(c, j)'
<1> DEFINE R == Retried(b)
           X == Expired(b)
<1>1. StoreTypeOK /\ j \in Ids /\ Fit(c, j) /\ Placed(c, j) /\ Placed(b, j)
      BY DEF IInv, StoreInv, OneShot, FitInv, OneShotInv
<1>2. /\ R \in SUBSET Ids /\ R \subseteq X
      /\ j \in X => running[b][j] # Absent
      BY DEF Retried, Expired, Due
<1>3. Pushed(b, R, running[b]) BY DEF Running2Ready
<1>4. Queued(ready'[c], j) <=> Queued(ready[c], j) \/ (c = b /\ j \in R)
      BY <1>1, <1>2, <1>3, PushedQueue
<1>5. running'[c][j] = IF c = b /\ j \in X THEN Absent ELSE running[c][j]
      BY <1>1 DEF Running2Ready, Removed, StoreTypeOK
<1>6. UNCHANGED pending BY DEF Running2Ready
<1>7. j \in OneShotGivenUp(b) <=> j \in X /\ j \notin R
      BY <1>1 DEF OneShotGivenUp, GivenUp, Placed
<1>8. j \in ttl'[c] <=> j \in ttl[c] /\ ~(c = b /\ j \in X /\ j \notin R)
      BY <1>1, <1>7 DEF Running2Ready, StoreTypeOK
<1>9. /\ c = b /\ j \in R => status'[c][j] = "TimeOut"
      /\ ~(c = b /\ j \in X) => status'[c][j] = status[c][j]
      BY <1>1, <1>2 DEF Running2Ready, StoreTypeOK, GivenUp
<1> HIDE DEF R, X
<1>10. CASE c = b /\ j \in X
  <2>1. running'[c][j] = Absent /\ pending'[c][j] = Absent
        BY <1>1, <1>2, <1>5, <1>6, <1>10 DEF Placed
  <2>2. j \in ttl'[c] => status'[c][j] = "TimeOut" BY <1>8, <1>9, <1>10
  <2>3. QED BY <2>1, <2>2 DEF Fit
<1>11. CASE ~(c = b /\ j \in X)
       BY <1>1, <1>2, <1>4, <1>5, <1>6, <1>8, <1>9, <1>11 DEF Fit
<1>12. QED BY <1>10, <1>11

LEMMA FitRunning2Finish ==
  ASSUME IInv, OneShotInv, FitInv, NEW b \in Buckets, NEW i \in Ids, NEW st,
         Running2Finish(b, i, st), UNCHANGED starts, starts[i] # 0,
         NEW c \in Buckets, NEW j \in OneShot
  PROVE  Fit(c, j)'
<1>1. StoreTypeOK /\ j \in Ids /\ Fit(c, j) /\ Placed(c, j)
      BY DEF IInv, StoreInv, OneShot, FitInv, OneShotInv
<1>2. /\ running' = [running EXCEPT ![b][i] = Absent]
      /\ status' = [status EXCEPT ![b][i] = st]
      /\ UNCHANGED << pending, ready >>
      BY DEF Running2Finish
<1>3. ttl' = [ttl EXCEPT ![b] = @ \ {i}] \/ (period[b][i] # Absent /\ UNCHANGED ttl)
      BY DEF Running2Finish
<1>4. CASE c = b /\ j = i
  <2>1. j \notin ttl'[c] BY <1>1, <1>3, <1>4 DEF StoreTypeOK, Placed
  <2>2. running'[c][j] = Absent BY <1>1, <1>2, <1>4 DEF StoreTypeOK
  <2>3. pending'[c][j] = Absent BY <1>1, <1>2, <1>4 DEF Fit
  <2>4. QED BY <2>1, <2>2, <2>3 DEF Fit
<1>5. CASE c # b \/ j # i
  <2>1. /\ running'[c][j] = running[c][j]
        /\ status'[c][j] = status[c][j]
        /\ j \in ttl'[c] <=> j \in ttl[c]
        BY <1>1, <1>2, <1>3, <1>5 DEF StoreTypeOK
  <2>2. QED BY <1>1, <1>2, <2>1 DEF Fit
<1>6. QED BY <1>4, <1>5

LEMMA FitTerminate ==
  ASSUME IInv, FitInv, NEW b \in Buckets, NEW i \in Ids,
         Terminate(b, i) \/ Delete(b, i), UNCHANGED starts,
         NEW c \in Buckets, NEW j \in OneShot
  PROVE  Fit(c, j)'
<1>1. StoreTypeOK /\ j \in Ids /\ Fit(c, j)
      BY DEF IInv, StoreInv, OneShot, FitInv
<1>2. Queued(ready'[c], j) => Queued(ready[c], j)
      BY <1>1, UnqueuedQueue DEF Terminate, Delete
<1>3. UNCHANGED status BY DEF Terminate, Delete
<1>4. CASE Terminate(b, i)
  <2>1. pending'[c][j] # Absent => pending[c][j] # Absent
        BY <1>1, <1>4 DEF Terminate, StoreTypeOK
  <2>2. UNCHANGED << running, ttl >> BY <1>4 DEF Terminate
  <2>3. QED BY <1>1, <1>2, <1>3, <2>1, <2>2 DEF Fit
<1>5. CASE Delete(b, i)
  <2>1. CASE c = b /\ j = i
    <3>1. pending'[c][j] = Absent /\ running'[c][j] = Absent /\ j \notin ttl'[c]
          BY <1>1, <1>5, <2>1 DEF Delete, StoreTypeOK
    <3>2. QED BY <3>1 DEF Fit
  <2>2. CASE c # b \/ j # i
    <3>1. /\ UNCHANGED << pending[c][j], running[c][j] >>
          /\ j \in ttl'[c] <=> j \in ttl[c]
          BY <1>1, <1>5, <2>2 DEF Delete, StoreTypeOK
    <3>2. QED BY <1>1, <1>2, <1>3, <3>1 DEF Fit
  <2>3. QED BY <2>1, <2>2
<1>6. QED BY <1>4, <1>5

LEMMA FitDrop ==
  ASSUME IInv, FitInv, NEW b \in Buckets, Ready2RunningDrop(b), UNCHANGED starts,
         NEW c \in Buckets, NEW j \in OneShot
  PROVE  Fit(c, j)'
<1>1. StoreTypeOK /\ Fit(c, j) BY DEF IInv, StoreInv, FitInv
<1>2. ready[b] \in Seq(Ids) /\ ready[b] # << >>
      BY <1>1 DEF Ready2RunningDrop, StoreTypeOK
<1>3. \A d \in Buckets : ready'[d] = IF d = b THEN Tail(ready[b]) ELSE ready[d]
      BY <1>1 DEF Ready2RunningDrop, StoreTypeOK
<1>4. Queued(ready'[c], j) => Queued(ready[c], j) BY <1>2, <1>3, QueuedTail
<1>5. UNCHANGED << pending, running, ttl, status >> BY DEF Ready2RunningDrop
<1>6. QED BY <1>1, <1>4, <1>5 DEF Fit

LEMMA FitRunning2Pending ==
  ASSUME IInv, OneShotInv, FitInv, NEW b \in Buckets, NEW i \in Ids, NEW t, NEW next,
         Running2Pending(b, i, t, next), UNCHANGED starts,
         NEW c \in Buckets, NEW j \in OneShot
  PROVE  Fit(c, j)'
<1>1. StoreTypeOK /\ j \in Ids /\ Fit(c, j)
      BY DEF IInv, StoreInv, OneShot, FitInv
<1>2. CASE UNCHANGED store BY <1>2, FitSame
<1>3. CASE FiringDue(b, i, t)
  <2>1. /\ pending' = [pending EXCEPT ![b][i] = next]
        /\ UNCHANGED << ready, running, ttl, status >>
        /\ period[b][i] # Absent
        BY <1>3 DEF Running2Pending, FiringDue
  <2>2. j # i BY <2>1 DEF OneShotInv, Placed
  <2>3. pending'[c][j] = pending[c][j] BY <1>1, <2>1, <2>2 DEF StoreTypeOK
  <2>4. QED BY <1>1, <2>1, <2>3 DEF Fit, Queued
<1>4. QED BY <1>2, <1>3 DEF Running2Pending

\* The script that a step of AsyncQueue sends, if any.
LEMMA FitStep ==
  ASSUME IInv, HomeInv, OneShotInv, FitInv, [Next]_vars,
         NEW b \in Buckets, NEW j \in OneShot
  PROVE  Fit(b, j)'
<1>1. EnvTypeOK BY DEF IInv
<1>2. CASE \/ Tick \/ UNCHANGED vars
           \/ \E n \in Nodes : Cancel(n) \/ Crash(n)
  <2>1. UNCHANGED << store, starts >> BY <1>2 DEF Tick, Cancel, Crash, vars, env
  <2>2. QED BY <2>1, FitSame
<1>3. CASE Api
  <2>1. ASSUME NEW c \in Clients, NEW i \in issued,
               StopJob(c, i) \/ RecoverJob(c, i) \/ DeleteJob(c, i)
        PROVE  Fit(b, j)'
    <3>1. UNCHANGED << store, starts >>
          BY <2>1 DEF StopJob, RecoverJob, DeleteJob, Request, CallGoes
    <3>2. QED BY <3>1, FitSame
  <2>2. ASSUME NEW c \in Clients, StopCheck(c) \/ StopEval(c) \/ DeleteEval(c)
        PROVE  Fit(b, j)'
    <3>1. UNCHANGED starts
          BY <2>2 DEF StopCheck, StopEval, DeleteEval, CallGoes, CallEnds
    <3>2. call[c].id \in Ids /\ call[c].bucket \in Buckets
          BY <1>1, <2>2, CallArgs DEF StopCheck, StopEval, DeleteEval
    <3>3. \/ UNCHANGED store
          \/ Terminate(call[c].bucket, call[c].id)
          \/ Delete(call[c].bucket, call[c].id)
          BY <2>2 DEF StopCheck, StopEval, DeleteEval
    <3>4. QED BY <3>1, <3>2, <3>3, FitSame, FitTerminate
  <2>3. ASSUME NEW c \in Clients, RecoverLoad(c) \/ RecoverSend(c)
        PROVE  FALSE
        BY <2>3 DEF HomeInv, RecoverLoad, RecoverSend
  <2>4. QED BY <1>3, <2>1, <2>2, <2>3, FitDeliver DEF Api
<1>4. CASE Timers
  <2>1. UNCHANGED starts
        BY <1>4 DEF Timers, Pending2ReadyTimer, Running2ReadyTimer, SweepStep,
                    SweepSelect, SweepFlag, SweepInfo, SweepPlan, SweepEval,
                      SweepGoes, env
  <2>2. ASSUME NEW c \in Buckets, Pending2ReadyTimer(c) \/ Running2ReadyTimer(c)
        PROVE  Fit(b, j)'
        BY <2>1, <2>2, FitPending2Ready, FitRunning2Ready
        DEF Pending2ReadyTimer, Running2ReadyTimer
  <2>3. ASSUME NEW n \in Nodes, NEW c \in Buckets, SweepStep(n, c)
        PROVE  Fit(b, j)'
    <3>1. CASE SweepEval(n, c)
      <4>1. sweep[n][c] \in Sweep /\ sweep[n][c].pc = "eval"
            BY <1>1, <3>1 DEF SweepEval, EnvTypeOK
      <4>2. sweep[n][c].id \in Ids BY <4>1 DEF Sweep, IdleSweep
      <4>3. QED BY <2>1, <3>1, <4>2, FitRunning2Pending DEF SweepEval
    <3>2. CASE \/ SweepSelect(n, c) \/ SweepFlag(n, c)
               \/ SweepInfo(n, c) \/ SweepPlan(n, c)
          BY <2>1, <3>2, FitSame DEF SweepSelect, SweepFlag, SweepInfo, SweepPlan
    <3>3. QED BY <2>3, <3>1, <3>2 DEF SweepStep
  <2>4. QED BY <1>4, <2>2, <2>3 DEF Timers
<1>5. CASE Workers
  <2>1. ASSUME NEW n \in Nodes, NEW c \in Buckets, WorkerStep(n, c), ~Pop(n, c)
        PROVE  Fit(b, j)'
    <3>1. UNCHANGED starts
          BY <2>1 DEF WorkerStep, Probe, PopNothing, Acquire, Load, LoadFails, Fail
    <3>2. CASE PopNothing(n, c)
      <4>1. UNCHANGED store \/ Ready2RunningDrop(c) BY <3>2 DEF PopNothing
      <4>2. QED BY <3>1, <4>1, FitSame, FitDrop
    <3>3. CASE Fail(n, c)
      <4> DEFINE w == worker[n][c]
      <4>1. w \in Worker /\ w.pc = "fail" BY <1>1, <3>3 DEF Fail, EnvTypeOK
      <4>2. w.id \in Ids BY <4>1 DEF Worker, IdleWorker, Popping, GoneWorker
      <4>3. Running2Finish(c, w.id, "Error") \/ UNCHANGED store
            BY <3>3 DEF Fail, Finishes
      <4>4. starts[w.id] # 0 BY <4>2 DEF FitInv, Begun
      <4>5. QED BY <3>1, <4>2, <4>3, <4>4, FitSame, FitRunning2Finish
    <3>4. CASE Probe(n, c) \/ Acquire(n, c) \/ Load(n, c) \/ LoadFails(n, c)
          BY <3>1, <3>4, FitSame DEF Probe, Acquire, Load, LoadFails
    <3>5. QED BY <2>1, <3>2, <3>3, <3>4 DEF WorkerStep
  <2>2. ASSUME NEW n \in Nodes, NEW c \in Buckets, NEW k \in Slots,
               \/ ExecResult(n, c, k) \/ Monitor(n, c, k)
               \/ ExecTerminate(n, c, k) \/ ExecTimeout(n, c, k)
               \/ ExecCancelled(n, c, k)
        PROVE  Fit(b, j)'
    <3>1. UNCHANGED starts
          BY <2>2 DEF ExecResult, Monitor, ExecTerminate, ExecTimeout,
              ExecCancelled, ExecEnds
    <3>2. CASE Monitor(n, c, k) \/ ExecTimeout(n, c, k) \/ ExecCancelled(n, c, k)
          BY <3>1, <3>2, FitSame DEF Monitor, ExecTimeout, ExecCancelled
    <3>3. CASE ExecResult(n, c, k) \/ ExecTerminate(n, c, k)
      <4>1. slot[n][c][k] \in Slot /\ slot[n][c][k].st = "exec"
            BY <1>1, <3>3 DEF ExecResult, ExecTerminate, EnvTypeOK
      <4>2. slot[n][c][k].id \in Ids BY <4>1 DEF Slot, FreeSlot, LostSlot
      <4>3. starts[slot[n][c][k].id] # 0 BY <4>2 DEF FitInv, Begun
      <4>4. \/ UNCHANGED store
            \/ \E st : Running2Finish(c, slot[n][c][k].id, st)
            BY <3>3 DEF ExecResult, ExecTerminate, Finishes
      <4>5. QED BY <3>1, <4>2, <4>3, <4>4, FitSame, FitRunning2Finish
    <3>4. QED BY <2>2, <3>2, <3>3
  <2>3. QED BY <1>5, <2>1, <2>2, FitPop DEF Workers, WorkerStep
<1>6. QED BY <1>2, <1>3, <1>4, <1>5 DEF Next

LEMMA FitInvariance ==
  ASSUME "recover" \notin Ops, MaxStarts # 0
  PROVE  Spec => []FitInv
<1>1. Init => FitInv
  <2> SUFFICES ASSUME Init PROVE FitInv OBVIOUS
  <2>1. \A b \in Buckets, i \in OneShot : Fit(b, i)
        BY DEF Init, StoreInit, Fit, Queued, OneShot
  <2>2. \A i \in Ids : Begun(i)
        BY QueueAssumption DEF Init, Begun, IdleWorker, FreeSlot
  <2>3. QED BY <2>1, <2>2 DEF FitInv
<1>2. IInv /\ HomeInv /\ OneShotInv /\ FitInv /\ [Next]_vars => FitInv'
  <2> SUFFICES ASSUME IInv, HomeInv, OneShotInv, FitInv, [Next]_vars PROVE FitInv'
      OBVIOUS
  <2>1. \A b \in Buckets, i \in OneShot : Fit(b, i)' BY FitStep
  <2>2. \A i \in Ids : Begun(i)' BY BegunNext DEF FitInv
  <2>3. QED BY <2>1, <2>2 DEF FitInv
<1>3. QED BY <1>1, <1>2, Invariance, HomeInvariance, OneShotInvariance, PTL DEF Spec

(* A refused stop is true: asyncqueue.go:330 answers that the task has     *)
(* finished, and a one-shot job in a place that it could start from, or    *)
(* running, shows a status that is not refused.                            *)
THEOREM RefusedStopIsOver ==
  ASSUME "recover" \notin Ops, MaxStarts # 0
  PROVE  Spec => RefusedIsOver
<1>1. ASSUME IInv, FitInv, NEW c \in Clients, StopCheck(c), call'[c] = NoCall,
             call[c].id \in OneShot
      PROVE  LET b == call[c].bucket
                 i == call[c].id
             IN  /\ pending[b][i] = Absent /\ running[b][i] = Absent
                 /\ ~(Queued(ready[b], i) /\ i \in ttl[b])
  <2>1. call[c].bucket \in Buckets /\ call \in [Clients -> CallType]
        BY <1>1, CallArgs DEF StopCheck, IInv, EnvTypeOK
  <2>2. status[call[c].bucket][call[c].id] \notin Stoppable
    <3> SUFFICES ASSUME CallGoes(c, "stopEval", call[c].id, call[c].bucket)
                 PROVE  FALSE
        BY <1>1 DEF StopCheck
    <3>1. call'[c] = [pc |-> "stopEval", id |-> call[c].id, bucket |-> call[c].bucket]
          BY <2>1 DEF CallGoes
    <3>2. QED BY <1>1, <3>1 DEF NoCall
  <2>3. Fit(call[c].bucket, call[c].id) BY <1>1, <2>1 DEF FitInv
  <2>4. QED BY <2>2, <2>3 DEF Fit, Stoppable
<1>2. IInv /\ FitInv /\ [Next]_vars =>
        [\A c \in Clients : LET b == call[c].bucket
                                i == call[c].id
           IN  StopCheck(c) /\ call'[c] = NoCall /\ i \in OneShot =>
                 /\ pending[b][i] = Absent /\ running[b][i] = Absent
                 /\ ~(Queued(ready[b], i) /\ i \in ttl[b])]_vars
      BY <1>1
<1>3. QED BY <1>2, Invariance, FitInvariance, PTL DEF Spec, RefusedIsOver

-----------------------------------------------------------------------------
(* The status names a queue that still holds the job.                      *)

\* A pending or running job of any kind has its ttl: a one-shot one by FitInv, a
\* periodic one because the bucket has its cron entry.
PlacesHaveTtl ==
  \A b \in Buckets, i \in Ids :
    pending[b][i] # Absent \/ running[b][i] # Absent => i \in ttl[b]

LEMMA TtlInPlaces ==
  ASSUME IInv, CronInv, FitInv
  PROVE  PlacesHaveTtl
<1> SUFFICES ASSUME NEW b \in Buckets, NEW i \in Ids,
                    pending[b][i] # Absent \/ running[b][i] # Absent
             PROVE  i \in ttl[b]
    BY DEF PlacesHaveTtl
<1>1. CASE i \in Periodic
      BY <1>1 DEF CronInv, CronEntry, Present, IInv, StoreInv, ScriptsTotal
<1>2. CASE i \in OneShot BY <1>2 DEF FitInv, Fit
<1>3. QED BY <1>1, <1>2 DEF OneShot

\* StatusMatchesPlace of one job; a queued one must also keep its ttl, or the pop
\* would drop it.
Shown(b, i) ==
  i \notin terminate[b] =>
    /\ status[b][i] \in Stoppable => i \in ttl[b]
    /\ status[b][i] = "Pending" => pending[b][i] # Absent
    /\ status[b][i] \in {"Ready", "TimeOut"} => Queued(ready[b], i)
    /\ status[b][i] = "Running" => running[b][i] # Absent

ShownInv == \A b \in Buckets, i \in Ids : Shown(b, i)

LEMMA ShownSame ==
  ASSUME ShownInv, UNCHANGED store, NEW c \in Buckets, NEW j \in Ids
  PROVE  Shown(c, j)'
BY DEF ShownInv, Shown, store, Queued

LEMMA ShownSend2Pending ==
  ASSUME StoreTypeOK, ShownInv, NEW b \in Buckets, NEW i \in Ids, NEW t \in Nat,
         Send2Pending(b, i, t), NEW c \in Buckets, NEW j \in Ids
  PROVE  Shown(c, j)'
<1>0. Shown(c, j) BY DEF ShownInv
<1>1. CASE UNCHANGED store BY <1>1, ShownSame
<1>2. CASE ~DeliveryRefused(b, i)
  <2>1. /\ terminate' = [terminate EXCEPT ![b] = @ \ {i}]
        /\ ttl' = [ttl EXCEPT ![b] = @ \cup {i}]
        /\ pending' = [pending EXCEPT ![b][i] = t]
        /\ status' = [status EXCEPT ![b][i] = "Pending"]
        /\ UNCHANGED << ready, running >>
        BY <1>2 DEF Send2Pending
  <2>2. CASE c = b /\ j = i
    <3>1. /\ pending'[c][j] = t /\ status'[c][j] = "Pending" /\ j \in ttl'[c]
          BY <2>1, <2>2 DEF StoreTypeOK
    <3>2. t # Absent BY DEF Absent
    <3>3. QED BY <3>1, <3>2 DEF Shown
  <2>3. CASE c # b \/ j # i
    <3>1. /\ UNCHANGED << pending[c][j], status[c][j] >>
          /\ j \in terminate'[c] <=> j \in terminate[c]
          /\ j \in ttl'[c] <=> j \in ttl[c]
          BY <2>1, <2>3 DEF StoreTypeOK
    <3>2. QED BY <1>0, <2>1, <3>1 DEF Shown
  <2>4. QED BY <2>2, <2>3
<1>3. QED BY <1>1, <1>2 DEF Send2Pending

LEMMA ShownPending2Ready ==
  ASSUME StoreTypeOK, PlacesHaveTtl, ShownInv, NEW b \in Buckets, Pending2Ready(b),
         NEW c \in Buckets, NEW j \in Ids
  PROVE  Shown(c, j)'
<1> DEFINE D == Due(pending[b])
           M == Moved(b)
<1>0. Shown(c, j) BY DEF ShownInv
<1>1. /\ Pushed(b, D, pending[b]) /\ D \in SUBSET Ids
      /\ M \subseteq D /\ \A k \in D : pending[b][k] # Absent
      BY DEF Pending2Ready, Due, Moved
<1>2. Queued(ready'[c], j) <=> Queued(ready[c], j) \/ (c = b /\ j \in D)
      BY <1>1, PushedQueue
<1>3. /\ pending'[c][j] = IF c = b /\ j \in M THEN Absent ELSE pending[c][j]
      /\ status'[c][j] = IF c = b /\ j \in M THEN "Ready" ELSE status[c][j]
      BY DEF Pending2Ready, Removed, StoreTypeOK
<1>4. UNCHANGED << running, ttl, terminate >> BY DEF Pending2Ready
<1> HIDE DEF D, M
<1>5. CASE c = b /\ j \in M
  <2>1. status'[c][j] = "Ready" /\ Queued(ready'[c], j)
        BY <1>1, <1>2, <1>3, <1>5
  <2>2. j \in ttl'[c] BY <1>1, <1>4, <1>5 DEF PlacesHaveTtl
  <2>3. QED BY <2>1, <2>2 DEF Shown
<1>6. CASE ~(c = b /\ j \in M)
  <2>1. pending'[c][j] = pending[c][j] /\ status'[c][j] = status[c][j]
        BY <1>3, <1>6
  <2>2. QED BY <1>0, <1>2, <1>4, <2>1 DEF Shown
<1>7. QED BY <1>5, <1>6

\* The script drops a popped id only when it has no ttl, so it shows no live status.
LEMMA ShownDrop ==
  ASSUME StoreTypeOK, ShownInv, NEW b \in Buckets, Ready2RunningDrop(b),
         NEW c \in Buckets, NEW j \in Ids
  PROVE  Shown(c, j)'
<1>0. Shown(c, j) BY DEF ShownInv
<1>1. /\ ready[b] \in Seq(Ids) /\ ready[b] # << >> /\ Head(ready[b]) \notin ttl[b]
      /\ \A d \in Buckets : ready'[d] = IF d = b THEN Tail(ready[b]) ELSE ready[d]
      /\ UNCHANGED << pending, running, ttl, status, terminate >>
      BY DEF Ready2RunningDrop, StoreTypeOK
<1>2. CASE c = b /\ j = Head(ready[b]) BY <1>0, <1>1, <1>2 DEF Shown, Stoppable
<1>3. CASE c # b \/ j # Head(ready[b])
  <2>1. Queued(ready[c], j) => Queued(ready'[c], j)
    <3>1. CASE c # b BY <1>1, <3>1
    <3>2. CASE c = b
      <4>1. SUFFICES ASSUME Queued(ready[b], j) PROVE Queued(Tail(ready[b]), j)
            BY <1>1, <3>2
      <4>2. QED BY <1>1, <1>3, <3>2, <4>1, QueuedBehind
    <3>3. QED BY <3>1, <3>2
  <2>2. QED BY <1>0, <1>1, <2>1 DEF Shown
<1>4. QED BY <1>2, <1>3

LEMMA ShownPop ==
  ASSUME StoreTypeOK, ShownInv, NEW b \in Buckets, NEW i \in Ids,
         Ready2Running(b, i), NEW c \in Buckets, NEW j \in Ids
  PROVE  Shown(c, j)'
<1>0. Shown(c, j) BY DEF ShownInv
<1>1. /\ ready[b] \in Seq(Ids) /\ ready[b] # << >> /\ Head(ready[b]) = i
      /\ \A d \in Buckets : ready'[d] = IF d = b THEN Tail(ready[b]) ELSE ready[d]
      /\ running' = [running EXCEPT ![b][i] = Deadline(i)]
      /\ status' = [status EXCEPT ![b][i] = "Running"]
      /\ i \in ttl[b]
      /\ UNCHANGED << pending, ttl, terminate >>
      BY DEF Ready2Running, StoreTypeOK
<1>2. Deadline(i) # Absent
  <2>1. now \in Nat /\ Ttl[i] \in Nat BY TimesAreNat, JobsAssumption
  <2>2. QED BY <2>1 DEF Deadline, Absent
<1>3. CASE c = b /\ j = i
  <2>1. running'[c][j] # Absent /\ status'[c][j] = "Running"
        BY <1>1, <1>2, <1>3 DEF StoreTypeOK
  <2>2. QED BY <1>1, <1>3, <2>1 DEF Shown
<1>4. CASE c # b \/ j # i
  <2>1. Queued(ready[c], j) => Queued(ready'[c], j)
    <3>1. CASE c # b BY <1>1, <3>1
    <3>2. CASE c = b
      <4>1. SUFFICES ASSUME Queued(ready[b], j) PROVE Queued(Tail(ready[b]), j)
            BY <1>1, <3>2
      <4>2. QED BY <1>1, <1>4, <3>2, <4>1, QueuedBehind
    <3>3. QED BY <3>1, <3>2
  <2>2. running'[c][j] = running[c][j] /\ status'[c][j] = status[c][j]
        BY <1>1, <1>4 DEF StoreTypeOK
  <2>3. QED BY <1>0, <1>1, <2>1, <2>2 DEF Shown
<1>5. QED BY <1>3, <1>4

LEMMA ShownRunning2Ready ==
  ASSUME StoreTypeOK, PlacesHaveTtl, ShownInv, NEW b \in Buckets, Running2Ready(b),
         NEW c \in Buckets, NEW j \in Ids
  PROVE  Shown(c, j)'
<1> DEFINE R == Retried(b)
           X == Expired(b)
<1>0. Shown(c, j) BY DEF ShownInv
<1>1. /\ R \in SUBSET Ids /\ R \subseteq X
      /\ \A k \in X : running[b][k] # Absent
      /\ OneShotGivenUp(b) \subseteq X \ R
      BY DEF Retried, Expired, Due, OneShotGivenUp, GivenUp
<1>2. Pushed(b, R, running[b]) BY DEF Running2Ready
<1>3. Queued(ready'[c], j) <=> Queued(ready[c], j) \/ (c = b /\ j \in R)
      BY <1>1, <1>2, PushedQueue
<1>4. running'[c][j] = IF c = b /\ j \in X THEN Absent ELSE running[c][j]
      BY DEF Running2Ready, Removed, StoreTypeOK
<1>5. UNCHANGED << pending, terminate >> BY DEF Running2Ready
<1>6. /\ c = b /\ j \in R => status'[c][j] = "TimeOut"
      /\ c = b /\ j \in X /\ j \notin R => status'[c][j] = "Error"
      /\ ~(c = b /\ j \in X) => status'[c][j] = status[c][j]
      BY <1>1 DEF Running2Ready, StoreTypeOK, GivenUp
<1>7. j \in ttl[c] /\ ~(c = b /\ j \in X /\ j \notin R) => j \in ttl'[c]
      BY <1>1 DEF Running2Ready, StoreTypeOK
<1> HIDE DEF R, X
<1>8. CASE c = b /\ j \in R
  <2>1. j \in ttl'[c] BY <1>1, <1>7, <1>8 DEF PlacesHaveTtl
  <2>2. QED BY <1>3, <1>6, <1>8, <2>1 DEF Shown
<1>9. CASE c = b /\ j \in X /\ j \notin R BY <1>6, <1>9 DEF Shown, Stoppable
<1>10. CASE ~(c = b /\ j \in X)
       BY <1>0, <1>3, <1>4, <1>5, <1>6, <1>7, <1>10 DEF Shown
<1>11. QED BY <1>8, <1>9, <1>10

LEMMA ShownFinish ==
  ASSUME StoreTypeOK, ShownInv, NEW b \in Buckets, NEW i \in Ids,
         NEW st \in Terminal, Running2Finish(b, i, st),
         NEW c \in Buckets, NEW j \in Ids
  PROVE  Shown(c, j)'
<1>0. Shown(c, j) BY DEF ShownInv
<1>1. /\ running' = [running EXCEPT ![b][i] = Absent]
      /\ status' = [status EXCEPT ![b][i] = st]
      /\ ttl' = [ttl EXCEPT ![b] = @ \ {i}] \/ UNCHANGED ttl
      /\ UNCHANGED << pending, ready, terminate >>
      BY DEF Running2Finish
<1>2. CASE c = b /\ j = i
  <2>1. status'[c][j] = st BY <1>1, <1>2 DEF StoreTypeOK
  <2>2. QED BY <2>1 DEF Shown, Stoppable, Terminal
<1>3. CASE c # b \/ j # i
  <2>1. /\ running'[c][j] = running[c][j]
        /\ status'[c][j] = status[c][j]
        /\ j \in ttl[c] => j \in ttl'[c]
        BY <1>1, <1>3 DEF StoreTypeOK
  <2>2. QED BY <1>0, <1>1, <2>1 DEF Shown
<1>4. QED BY <1>2, <1>3

LEMMA ShownTerminate ==
  ASSUME StoreTypeOK, ShownInv, NEW b \in Buckets, NEW i \in Ids,
         Terminate(b, i) \/ Delete(b, i), NEW c \in Buckets, NEW j \in Ids
  PROVE  Shown(c, j)'
<1>0. Shown(c, j) BY DEF ShownInv
<1>1. /\ Unqueued(b, i)
      /\ terminate' = [terminate EXCEPT ![b] = @ \cup {i}]
      /\ UNCHANGED status
      BY DEF Terminate, Delete
<1>2. CASE c = b /\ j = i
  <2>1. j \in terminate'[c] BY <1>1, <1>2 DEF StoreTypeOK
  <2>2. QED BY <2>1 DEF Shown
<1>3. CASE c # b \/ j # i
  <2>1. Queued(ready'[c], j) <=> Queued(ready[c], j)
        BY <1>1, <1>3, UnqueuedQueue
  <2>2. j \in terminate'[c] <=> j \in terminate[c] BY <1>1, <1>3 DEF StoreTypeOK
  <2>3. CASE Terminate(b, i)
    <3>1. /\ UNCHANGED << ttl, running >>
          /\ pending'[c][j] = pending[c][j]
          BY <1>3, <2>3 DEF Terminate, StoreTypeOK
    <3>2. QED BY <1>0, <1>1, <2>1, <2>2, <3>1 DEF Shown
  <2>4. CASE Delete(b, i)
    <3>1. /\ UNCHANGED << pending[c][j], running[c][j] >>
          /\ j \in ttl'[c] <=> j \in ttl[c]
          BY <1>3, <2>4 DEF Delete, StoreTypeOK
    <3>2. QED BY <1>0, <1>1, <2>1, <2>2, <3>1 DEF Shown
  <2>5. QED BY <2>3, <2>4
<1>4. QED BY <1>2, <1>3

LEMMA ShownRunning2Pending ==
  ASSUME StoreTypeOK, ShownInv, NEW b \in Buckets, NEW i \in Ids, NEW t,
         NEW next \in Nat, Running2Pending(b, i, t, next),
         NEW c \in Buckets, NEW j \in Ids
  PROVE  Shown(c, j)'
<1>0. Shown(c, j) BY DEF ShownInv
<1>1. CASE UNCHANGED store BY <1>1, ShownSame
<1>2. CASE FiringDue(b, i, t)
  <2>1. /\ pending' = [pending EXCEPT ![b][i] = next]
        /\ UNCHANGED << ready, running, ttl, status, terminate >>
        BY <1>2 DEF Running2Pending
  <2>2. next # Absent BY DEF Absent
  <2>3. pending[c][j] # Absent => pending'[c][j] # Absent
        BY <2>1, <2>2 DEF StoreTypeOK
  <2>4. QED BY <1>0, <2>1, <2>3 DEF Shown
<1>3. QED BY <1>1, <1>2 DEF Running2Pending

LEMMA ShownScript ==
  ASSUME StoreTypeOK, PlacesHaveTtl, ShownInv, Script
  PROVE  ShownInv'
<1> SUFFICES ASSUME NEW c \in Buckets, NEW j \in Ids PROVE Shown(c, j)'
    BY DEF ShownInv
<1> QED BY ShownSend2Pending, ShownPending2Ready, ShownDrop, ShownPop,
           ShownRunning2Ready, ShownFinish, ShownTerminate, ShownRunning2Pending
        DEF Script, Move

LEMMA ShownInvariance ==
  ASSUME "recover" \notin Ops, MaxStarts # 0
  PROVE  Spec => []ShownInv
<1>1. Init => ShownInv
      BY DEF Init, StoreInit, ShownInv, Shown, Stoppable
<1>2. IInv /\ CronInv /\ FitInv /\ ShownInv /\ [Next]_vars => ShownInv'
  <2> SUFFICES ASSUME IInv, CronInv, FitInv, ShownInv, [Next]_vars PROVE ShownInv'
      OBVIOUS
  <2>1. StoreTypeOK /\ PlacesHaveTtl BY TtlInPlaces DEF IInv, StoreInv
  <2>2. CASE UNCHANGED store BY <2>2, ShownSame DEF ShownInv
  <2>3. CASE Script BY <2>1, <2>3, ShownScript
  <2>4. QED BY <2>2, <2>3, OneScript DEF Script
<1>3. QED BY <1>1, <1>2, Invariance, CronInvariance, FitInvariance, PTL DEF Spec

(* No job is forgotten between two queues: the status of a job that nobody *)
(* stopped names a queue that holds it, so a timer or a worker picks it up.*)
(* Recovery is excluded for a reason: a late result of an earlier run takes*)
(* away the ttl of a one-shot job that was recovered meanwhile, and the pop*)
(* then drops the job while its status still says Ready.                   *)
THEOREM StatusIsTrue ==
  ASSUME "recover" \notin Ops, MaxStarts # 0
  PROVE  Spec => []StatusMatchesPlace
<1>1. StoreTypeOK /\ ShownInv => StatusMatchesPlace
      BY DEF ShownInv, Shown, StatusMatchesPlace
<1>2. IInv => StoreTypeOK BY DEF IInv, StoreInv
<1>3. QED BY <1>1, <1>2, ShownInvariance, Invariance, PTL

-----------------------------------------------------------------------------
(* The leases of a job.                                                    *)

\* A run is held in the hand of the worker that popped it, then in a slot.
Hand  == CHOOSE h : h \notin Slots
Seats == Nodes \X Buckets \X (Slots \cup {Hand})

InHand(n, b) == worker[n][b].pc = "acquire"

Who(x) == IF x[3] # Hand THEN At(x).id
          ELSE IF InHand(x[1], x[2]) THEN worker[x[1]][x[2]].id ELSE NoId

When(x) == IF x[3] # Hand THEN At(x).popped ELSE worker[x[1]][x[2]].popped

\* It may still be popped: pending or queued, with its ttl.
Waits(b, i) == (pending[b][i] # Absent \/ Queued(ready[b], i)) /\ i \in ttl[b]

Overdue(b, i) == running[b][i] # Absent /\ running[b][i] <= now

Apart(i, s, t) == \/ s + Parts * (Ttl[i] - 1) < t
                  \/ t + Parts * (Ttl[i] - 1) < s

\* The deadline of a run popped at the instant t, a second, is d or earlier.
Over(i, t, d) == t < Parts * (d - Ttl[i] + 1)

\* Any two runs of a job that are held were popped more than Ttl - 1 seconds
\* apart.  For that, the leases of all of them have run out when the job may be
\* popped again, and by the deadline of the current run.
Lease(i) ==
  /\ \A x, y \in Seats :
       x # y /\ Who(x) = i /\ Who(y) = i => Apart(i, When(x), When(y))
  /\ \A b \in Buckets, x \in Seats : Who(x) = i =>
       /\ Waits(b, i) => Over(i, When(x), now)
       /\ running[b][i] # Absent => Over(i, When(x), running[b][i])

LeaseInv == \A i \in OneShot : Lease(i)

LEMMA TimesGrows ==
  ASSUME NEW p \in Nat, NEW m \in Int, NEW n \in Int, m <= n
  PROVE  p * m <= p * n
<1> DEFINE d == n - m
<1>1. d \in Nat /\ n = m + d OBVIOUS
<1> HIDE DEF d
<1>2. p * d \in Nat BY <1>1
<1>3. p * m \in Int /\ p * n = p * m + p * d BY <1>1
<1>4. QED BY <1>2, <1>3

\* A later deadline is met later.
LEMMA OverGrows ==
  ASSUME NEW i \in Ids, NEW t \in Nat, NEW d \in Nat, NEW e \in Nat,
         Over(i, t, d), d <= e
  PROVE  Over(i, t, e)
<1>1. Parts \in Nat /\ Ttl[i] \in Nat BY QueueAssumption, JobsAssumption
<1> DEFINE m == d - Ttl[i] + 1
           n == e - Ttl[i] + 1
<1>2. m \in Int /\ n \in Int /\ m <= n BY <1>1
<1>3. t < Parts * m BY DEF Over
<1> HIDE DEF m, n
<1>4. Parts * m <= Parts * n BY <1>1, <1>2, TimesGrows
<1>5. Parts * m \in Int /\ Parts * n \in Int BY <1>1, <1>2
<1>6. t < Parts * n BY <1>3, <1>4, <1>5
<1>7. QED BY <1>6 DEF n, Over

\* A pop is in the second that Redis reads, and its deadline is that plus the
\* ttl; a run whose deadline has passed by then was popped long enough before.
LEMMA OverAtPop ==
  ASSUME EnvTypeOK, now \in Nat, NEW i \in Ids
  PROVE  /\ Over(i, Clock, now + Ttl[i])
         /\ \A t \in Nat : Over(i, t, now) => t + Parts * (Ttl[i] - 1) < Clock
<1>1. /\ Parts \in Nat /\ Ttl[i] \in Nat
      /\ part \in Nat /\ part < Parts
      BY QueueAssumption, JobsAssumption DEF EnvTypeOK
<1> DEFINE p == Parts * now
           l == Parts * (Ttl[i] - 1)
<1>2. p \in Nat /\ l \in Int BY <1>1
<1>3. now * Parts = p BY <1>1
<1>4. Clock = p + part BY <1>3 DEF Clock
<1>5. Parts * (now + 1) = p + Parts BY <1>1
<1>6. Over(i, Clock, now + Ttl[i])
  <2> DEFINE d == now + Ttl[i]
  <2>1. d - Ttl[i] + 1 = now + 1 BY <1>1
  <2>2. Clock < p + Parts
    <3> HIDE DEF p
    <3>1. QED BY <1>1, <1>2, <1>4
  <2> HIDE DEF d, p, l
  <2>3. Clock < Parts * (d - Ttl[i] + 1) BY <1>5, <2>1, <2>2
  <2>4. Over(i, Clock, d) BY <2>3 DEF Over
  <2>5. QED BY <2>4 DEF d
<1>7. ASSUME NEW t \in Nat, Over(i, t, now)
      PROVE  t + l < Clock
  <2>1. Parts * (now - Ttl[i] + 1) = p - l
    <3> DEFINE k == Ttl[i] - 1
    <3>1. k \in Int /\ now - Ttl[i] + 1 = now - k BY <1>1
    <3> HIDE DEF k
    <3>2. Parts * (now - k) = Parts * now - Parts * k BY <1>1, <3>1
    <3>3. QED BY <3>1, <3>2 DEF k
  <2>2. t < p - l BY <1>7, <2>1 DEF Over
  <2> HIDE DEF p, l
  <2>3. QED BY <1>1, <1>2, <1>4, <2>2
<1>8. QED BY <1>6, <1>7

LEMMA HandNotSlot == Hand \notin Slots
BY NoSetContainsEverything DEF Hand

LEMMA SeatParts ==
  ASSUME NEW x \in Seats
  PROVE  /\ x = << x[1], x[2], x[3] >>
         /\ x[1] \in Nodes /\ x[2] \in Buckets
         /\ x[3] # Hand => x[3] \in Slots
BY DEF Seats

LEMMA SeatTypes ==
  ASSUME EnvTypeOK, NEW x \in Seats, Who(x) # NoId
  PROVE  Who(x) \in Ids /\ When(x) \in Nat
<1>1. CASE x[3] # Hand
  <2>1. At(x) \in Slot BY <1>1, SeatParts DEF At, EnvTypeOK
  <2>2. At(x).id # NoId BY <1>1 DEF Who
  <2>3. At(x).id \in Ids /\ At(x).popped \in Nat
        BY <2>1, <2>2 DEF Slot, FreeSlot, LostSlot
  <2>4. QED BY <1>1, <2>3 DEF Who, When
<1>2. CASE x[3] = Hand
  <2> DEFINE w == worker[x[1]][x[2]]
  <2>1. w \in Worker BY SeatParts DEF EnvTypeOK
  <2>2. w.pc = "acquire" BY <1>2 DEF Who, InHand
  <2>3. w.id \in Ids /\ w.popped \in Nat
        BY <2>1, <2>2 DEF Worker, IdleWorker, Popping, GoneWorker
  <2>4. QED BY <1>2, <2>2, <2>3 DEF Who, When, InHand
<1>3. QED BY <1>1, <1>2

\* A step that pops nothing hands out no run: every held run was held before, each
\* by a holder of its own.
Carried ==
  \E f \in [Seats -> Seats] :
    /\ \A x \in Seats :
         Who(x)' # NoId => Who(f[x]) = Who(x)' /\ When(f[x]) = When(x)'
    /\ \A x, y \in Seats :
         Who(x)' # NoId /\ Who(y)' # NoId /\ f[x] = f[y] => x = y

StillHolds(x) == Who(x)' # NoId => Who(x)' = Who(x) /\ When(x)' = When(x)

LEMMA AllStillHold ==
  ASSUME \A x \in Seats : StillHolds(x)
  PROVE  Carried
<1> DEFINE f == [x \in Seats |-> x]
<1>1. f \in [Seats -> Seats] /\ \A x \in Seats : f[x] = x OBVIOUS
<1> HIDE DEF f
<1>2. QED BY <1>1 DEF Carried, StillHolds

LEMMA SameHolders ==
  ASSUME UNCHANGED << worker, slot >>
  PROVE  \A x \in Seats : StillHolds(x)
BY DEF StillHolds, Who, When, At, InHand

\* The worker lays a run down, or takes none.
LEMMA HandEmptied ==
  ASSUME EnvTypeOK, NEW n \in Nodes, NEW b \in Buckets, NEW w,
         worker' = [worker EXCEPT ![n][b] = w], w.pc # "acquire",
         NEW x \in Seats, x[3] # Hand => StillHolds(x)
  PROVE  StillHolds(x)
<1>1. \A m \in Nodes, c \in Buckets :
        worker'[m][c] = IF m = n /\ c = b THEN w ELSE worker[m][c]
      BY DEF EnvTypeOK
<1>2. CASE x[3] = Hand
  <2>1. worker'[x[1]][x[2]] = IF x[1] = n /\ x[2] = b THEN w
                              ELSE worker[x[1]][x[2]]
        BY <1>1, SeatParts
  <2>2. CASE x[1] = n /\ x[2] = b
    <3>1. Who(x)' = NoId BY <1>2, <2>1, <2>2 DEF Who, InHand
    <3>2. QED BY <3>1 DEF StillHolds
  <2>3. CASE ~(x[1] = n /\ x[2] = b)
        BY <1>2, <2>1, <2>3 DEF StillHolds, Who, When, InHand
  <2>4. QED BY <2>2, <2>3
<1>3. QED BY <1>2

\* A slot keeps its run, or gives it up.
LEMMA SlotKeeps ==
  ASSUME EnvTypeOK, NEW n \in Nodes, NEW b \in Buckets, NEW k \in Slots, NEW e,
         slot' = [slot EXCEPT ![n][b][k] = e],
         e.id = NoId \/ (e.id = slot[n][b][k].id /\ e.popped = slot[n][b][k].popped),
         NEW x \in Seats, x[3] # Hand
  PROVE  StillHolds(x)
<1>1. At(x)' = IF x[1] = n /\ x[2] = b /\ x[3] = k THEN e ELSE At(x)
  <2>1. \A m \in Nodes, c \in Buckets, l \in Slots :
          slot'[m][c][l] = IF m = n /\ c = b /\ l = k THEN e ELSE slot[m][c][l]
        BY DEF EnvTypeOK
  <2>2. QED BY <2>1, SeatParts DEF At
<1>2. CASE x[1] = n /\ x[2] = b /\ x[3] = k
  <2>1. At(x) = slot[n][b][k] BY <1>2 DEF At
  <2>2. QED BY <1>1, <1>2, <2>1 DEF StillHolds, Who, When
<1>3. CASE ~(x[1] = n /\ x[2] = b /\ x[3] = k)
      BY <1>1, <1>3 DEF StillHolds, Who, When
<1>4. QED BY <1>2, <1>3

\* From the hand of the worker into a slot of its own.
LEMMA AcquireCarries ==
  ASSUME EnvTypeOK, NEW n \in Nodes, NEW b \in Buckets, Acquire(n, b)
  PROVE  Carried
<1> DEFINE w == worker[n][b]
           e == [st |-> "held", id |-> w.id, popped |-> w.popped, armed |-> 0,
                 stop |-> FALSE]
           v == [w EXCEPT !.pc = "load"]
<1>1. PICK k \in Slots : slot' = [slot EXCEPT ![n][b][k] = e]
      BY DEF Acquire, FreeSlots
<1>2. worker' = [worker EXCEPT ![n][b] = v] /\ w.pc = "acquire"
      BY DEF Acquire, WorkerGoes
<1>3. v.pc = "load"
  <2>1. w \in Worker BY DEF EnvTypeOK
  <2>2. QED BY <1>2, <2>1 DEF Worker, IdleWorker, Popping, GoneWorker
<1>4. e.id = w.id /\ e.popped = w.popped OBVIOUS
<1> DEFINE s == << n, b, k >>
           h == << n, b, Hand >>
           f == [x \in Seats |-> IF x = s THEN h ELSE x]
<1>5. /\ s \in Seats /\ h \in Seats /\ s # h
      /\ h[1] = n /\ h[2] = b /\ h[3] = Hand
      BY HandNotSlot DEF Seats
<1>6. Who(h) = w.id /\ When(h) = w.popped BY <1>2 DEF Who, When, InHand
<1> HIDE DEF e, v
<1>7. \A m \in Nodes, c \in Buckets :
        worker'[m][c] = IF m = n /\ c = b THEN v ELSE worker[m][c]
      BY <1>2 DEF EnvTypeOK
<1>8. \A m \in Nodes, c \in Buckets, l \in Slots :
        slot'[m][c][l] = IF m = n /\ c = b /\ l = k THEN e ELSE slot[m][c][l]
      BY <1>1 DEF EnvTypeOK
<1>9. ASSUME NEW x \in Seats, x = s
      PROVE  Who(x)' = Who(h) /\ When(x)' = When(h)
  <2>1. At(x)' = e /\ x[3] # Hand BY <1>8, <1>9, HandNotSlot DEF At
  <2>2. QED BY <1>4, <1>6, <2>1 DEF Who, When
<1>10. ASSUME NEW x \in Seats, x = h PROVE Who(x)' = NoId
  <2>1. worker'[x[1]][x[2]] = v /\ x[3] = Hand BY <1>7, <1>10
  <2>2. QED BY <1>3, <2>1 DEF Who, InHand
<1>11. ASSUME NEW x \in Seats, x # s, x # h PROVE StillHolds(x)
  <2>1. CASE x[3] = Hand
    <3>1. ~(x[1] = n /\ x[2] = b) BY <1>11, <2>1, SeatParts
    <3>2. worker'[x[1]][x[2]] = worker[x[1]][x[2]] BY <1>7, <3>1, SeatParts
    <3>3. QED BY <2>1, <3>2 DEF StillHolds, Who, When, InHand
  <2>2. CASE x[3] # Hand
    <3>1. ~(x[1] = n /\ x[2] = b /\ x[3] = k) BY <1>11, SeatParts
    <3>2. At(x)' = At(x) BY <1>8, <2>2, <3>1, SeatParts DEF At
    <3>3. QED BY <2>2, <3>2 DEF StillHolds, Who, When
  <2>3. QED BY <2>1, <2>2
<1>12. f \in [Seats -> Seats] /\ \A x \in Seats : f[x] = IF x = s THEN h ELSE x
       BY <1>5
<1> HIDE DEF f, s, h
<1>13. ASSUME NEW x \in Seats, Who(x)' # NoId
       PROVE  Who(f[x]) = Who(x)' /\ When(f[x]) = When(x)' /\ x # h
       BY <1>9, <1>10, <1>11, <1>12, <1>13 DEF StillHolds
<1>14. QED BY <1>12, <1>13 DEF Carried

LEMMA WorkerCarries ==
  ASSUME EnvTypeOK, NEW n \in Nodes, NEW b \in Buckets, WorkerStep(n, b),
         ~Pop(n, b)
  PROVE  Carried
<1> DEFINE w == worker[n][b]
<1>1. w \in Worker BY DEF EnvTypeOK
<1>2. NextRound(n).pc # "acquire" /\ Popping.pc # "acquire"
      BY NextRoundSet DEF Popping
<1>3. CASE Probe(n, b) \/ PopNothing(n, b) \/ LoadFails(n, b)
  <2>1. UNCHANGED slot BY <1>3 DEF Probe, PopNothing, LoadFails
  <2>2. PICK v \in {NextRound(n), Popping, [w EXCEPT !.pc = "fail"]} :
          worker' = [worker EXCEPT ![n][b] = v]
        BY <1>3 DEF Probe, PopNothing, LoadFails, WorkerGoes
  <2>3. v.pc # "acquire" BY <1>1, <1>2 DEF Worker, IdleWorker, Popping, GoneWorker
  <2>4. \A x \in Seats : x[3] # Hand => StillHolds(x)
        BY <2>1 DEF StillHolds, Who, When, At
  <2>5. QED BY <2>2, <2>3, <2>4, HandEmptied, AllStillHold
<1>4. CASE Load(n, b) \/ Fail(n, b)
  <2> DEFINE Taken(k) == [slot[n][b][k] EXCEPT !.st = "exec", !.armed = Clock]
  <2>1. worker' = [worker EXCEPT ![n][b] = NextRound(n)]
        BY <1>4 DEF Load, Fail, WorkerGoes
  <2>2. PICK k \in Slots : \E e \in {LostSlot, Taken(k)} :
          slot' = [slot EXCEPT ![n][b][k] = e]
        BY <1>4 DEF Load, Fail
  <2>3. PICK e \in {LostSlot, Taken(k)} : slot' = [slot EXCEPT ![n][b][k] = e]
        BY <2>2
  <2>4. slot[n][b][k] \in Slot BY DEF EnvTypeOK
  <2>5. /\ Taken(k).id = slot[n][b][k].id /\ Taken(k).popped = slot[n][b][k].popped
        /\ LostSlot.id = NoId
        BY <2>4 DEF Slot, FreeSlot, LostSlot
  <2> HIDE DEF Taken
  <2>6. e.id = NoId \/ (e.id = slot[n][b][k].id /\ e.popped = slot[n][b][k].popped)
        BY <2>3, <2>5
  <2>7. \A x \in Seats : x[3] # Hand => StillHolds(x) BY <2>3, <2>6, SlotKeeps
  <2>8. QED BY <1>2, <2>1, <2>7, HandEmptied, AllStillHold
<1>5. QED BY <1>3, <1>4, AcquireCarries DEF WorkerStep

LEMMA ExecCarries ==
  ASSUME EnvTypeOK, NEW n \in Nodes, NEW b \in Buckets, NEW k \in Slots,
         \/ ExecResult(n, b, k) \/ Monitor(n, b, k)
         \/ ExecTerminate(n, b, k) \/ ExecTimeout(n, b, k)
         \/ ExecCancelled(n, b, k)
  PROVE  Carried
<1> DEFINE Told == [slot[n][b][k] EXCEPT !.stop = TRUE]
<1>1. UNCHANGED worker
      BY DEF ExecResult, Monitor, ExecTerminate, ExecTimeout,
              ExecCancelled, ExecEnds
<1>2. PICK e \in {FreeSlot, Told} : slot' = [slot EXCEPT ![n][b][k] = e]
      BY DEF ExecResult, Monitor, ExecTerminate, ExecTimeout,
              ExecCancelled, ExecEnds
<1>3. slot[n][b][k] \in Slot BY DEF EnvTypeOK
<1>4. /\ Told.id = slot[n][b][k].id /\ Told.popped = slot[n][b][k].popped
      /\ FreeSlot.id = NoId
      BY <1>3 DEF Slot, FreeSlot, LostSlot
<1> HIDE DEF Told
<1>5. e.id = NoId \/ (e.id = slot[n][b][k].id /\ e.popped = slot[n][b][k].popped)
      BY <1>2, <1>4
<1>6. \A x \in Seats : x[3] # Hand => StillHolds(x) BY <1>2, <1>5, SlotKeeps
<1>7. \A x \in Seats : x[3] = Hand => StillHolds(x)
      BY <1>1 DEF StillHolds, Who, When, InHand
<1>8. QED BY <1>6, <1>7, AllStillHold

LEMMA CrashCarries == ASSUME EnvTypeOK, NEW n \in Nodes, Crash(n) PROVE Carried
<1>1. \A m \in Nodes, b \in Buckets :
        /\ worker'[m][b] = IF m = n THEN IdleWorker ELSE worker[m][b]
        /\ \A k \in Slots :
             slot'[m][b][k] = IF m = n THEN FreeSlot ELSE slot[m][b][k]
      BY DEF Crash, EnvTypeOK
<1>2. ASSUME NEW x \in Seats PROVE StillHolds(x)
  <2>1. CASE x[3] = Hand
    <3>1. worker'[x[1]][x[2]] = IF x[1] = n THEN IdleWorker ELSE worker[x[1]][x[2]]
          BY <1>1, SeatParts
    <3>2. QED BY <2>1, <3>1 DEF StillHolds, Who, When, InHand, IdleWorker
  <2>2. CASE x[3] # Hand
    <3>1. At(x)' = IF x[1] = n THEN FreeSlot ELSE At(x)
          BY <1>1, <2>2, SeatParts DEF At
    <3>2. QED BY <2>2, <3>1 DEF StillHolds, Who, When, FreeSlot
  <2>3. QED BY <2>1, <2>2
<1>3. QED BY <1>2, AllStillHold

LEMMA CancelCarries == ASSUME EnvTypeOK, NEW n \in Nodes, Cancel(n) PROVE Carried
<1>1. /\ UNCHANGED slot
      /\ \A m \in Nodes, b \in Buckets :
           worker'[m][b] = worker[m][b] \/ worker'[m][b] = GoneWorker
      BY DEF Cancel, EnvTypeOK
<1>2. ASSUME NEW x \in Seats PROVE StillHolds(x)
  <2>1. CASE x[3] = Hand
    <3>1. \/ worker'[x[1]][x[2]] = worker[x[1]][x[2]]
          \/ worker'[x[1]][x[2]] = GoneWorker
          BY <1>1, SeatParts
    <3>2. QED BY <2>1, <3>1 DEF StillHolds, Who, When, InHand, GoneWorker
  <2>2. CASE x[3] # Hand BY <1>1, <2>2 DEF StillHolds, Who, When, At
  <2>3. QED BY <2>1, <2>2
<1>3. QED BY <1>2, AllStillHold

LEMMA RunsCarried ==
  ASSUME EnvTypeOK, [Next]_vars, \A n \in Nodes, b \in Buckets : ~Pop(n, b)
  PROVE  Carried
<1>1. CASE Tick \/ Api \/ Timers \/ UNCHANGED vars
  <2>1. UNCHANGED << worker, slot >>
    <3>1. CASE Tick \/ UNCHANGED vars BY <3>1 DEF Tick, vars, env
    <3>2. CASE Timers
          BY <3>2 DEF Timers, Pending2ReadyTimer, Running2ReadyTimer, SweepStep,
                      SweepSelect, SweepFlag, SweepInfo, SweepPlan, SweepEval,
                      SweepGoes, env
    <3>3. CASE Api
          BY <3>3 DEF Api, Deliver, StopJob, RecoverJob, DeleteJob, Request,
                      StopCheck, StopEval, RecoverLoad, RecoverSend, DeleteEval,
                      CallGoes, CallEnds
    <3>4. QED BY <1>1, <3>1, <3>2, <3>3
  <2>2. QED BY <2>1, SameHolders, AllStillHold
<1>2. CASE Workers BY <1>2, WorkerCarries, ExecCarries DEF Workers
<1>3. CASE \E n \in Nodes : Cancel(n) \/ Crash(n)
      BY <1>3, CancelCarries, CrashCarries
<1>4. QED BY <1>1, <1>2, <1>3 DEF Next

\* A job that may be popped after a step could be popped before, or its current
\* run has met its deadline, or it is new.
LEMMA WaitsAfter ==
  ASSUME IInv, HomeInv, OneShotInv, [Next]_vars,
         \A n \in Nodes, b \in Buckets : ~Pop(n, b),
         NEW c \in Buckets, NEW j \in OneShot
  PROVE  /\ now <= now'
         /\ \/ starts[j] = 0
            \/ /\ Waits(c, j)' => Waits(c, j) \/ Overdue(c, j)
               /\ running'[c][j] \in {running[c][j], Absent}
<1>1. StoreTypeOK /\ now \in Nat /\ j \in Ids
      BY TimesAreNat DEF IInv, StoreInv, OneShot
<1>2. CASE now' \in {now, now + 1} /\ Shrinks
  <2>1. now <= now' BY <1>1, <1>2
  <2>2. QED BY <1>2, <2>1 DEF Shrinks, Waits
<1>3. ASSUME NEW i \in Ids, Deliver(i), starts[j] # 0
      PROVE  UNCHANGED << running[c][j], now >> /\ (Waits(c, j)' => Waits(c, j))
  <2>1. PICK b \in Buckets, t \in StartTimes(i) : Send2Pending(b, i, t)
        BY <1>3 DEF Deliver
  <2>2. i # j BY <1>3 DEF Deliver, OneShotInv
  <2>3. UNCHANGED now BY <1>3 DEF Deliver
  <2>4. CASE UNCHANGED store BY <2>3, <2>4 DEF store, Waits, Queued
  <2>5. CASE ~DeliveryRefused(b, i)
    <3>1. /\ ttl' = [ttl EXCEPT ![b] = @ \cup {i}]
          /\ pending' = [pending EXCEPT ![b][i] = t]
          /\ UNCHANGED << ready, running >>
          BY <2>1, <2>5 DEF Send2Pending
    <3>2. pending'[c][j] = pending[c][j] /\ (j \in ttl'[c] => j \in ttl[c])
          BY <1>1, <2>2, <3>1 DEF StoreTypeOK
    <3>3. QED BY <2>3, <3>1, <3>2 DEF Waits, Queued
  <2>6. QED BY <2>1, <2>4, <2>5 DEF Send2Pending
<1>4. ASSUME NEW b \in Buckets, Pending2Ready(b), UNCHANGED now
      PROVE  UNCHANGED << running[c][j], now >> /\ (Waits(c, j)' => Waits(c, j))
  <2> DEFINE D == Due(pending[b])
  <2>1. Pushed(b, D, pending[b]) /\ D \in SUBSET Ids
        BY <1>4 DEF Pending2Ready, Due
  <2>2. Queued(ready'[c], j) <=> Queued(ready[c], j) \/ (c = b /\ j \in D)
        BY <1>1, <2>1, PushedQueue
  <2>3. j \in D => pending[b][j] # Absent BY DEF Due
  <2>4. pending'[c][j] # Absent => pending[c][j] # Absent
        BY <1>1, <1>4 DEF Pending2Ready, Removed, StoreTypeOK
  <2>5. UNCHANGED << running, ttl >> BY <1>4 DEF Pending2Ready
  <2> HIDE DEF D
  <2>6. QED BY <1>4, <2>2, <2>3, <2>4, <2>5 DEF Waits
<1>5. ASSUME NEW b \in Buckets, Running2Ready(b)
      PROVE  /\ Waits(c, j)' => Waits(c, j) \/ Overdue(c, j)
             /\ running'[c][j] \in {running[c][j], Absent}
  <2> DEFINE R == Retried(b)
  <2>1. Pushed(b, R, running[b]) /\ R \in SUBSET Ids
        BY <1>5 DEF Running2Ready, Retried, Expired, Due
  <2>2. Queued(ready'[c], j) <=> Queued(ready[c], j) \/ (c = b /\ j \in R)
        BY <1>1, <2>1, PushedQueue
  <2>3. j \in R => Overdue(b, j) BY DEF Retried, Expired, Due, Overdue
  <2>4. /\ running'[c][j] \in {running[c][j], Absent}
        /\ j \in ttl'[c] => j \in ttl[c]
        /\ UNCHANGED pending
        BY <1>1, <1>5 DEF Running2Ready, Removed, StoreTypeOK
  <2> HIDE DEF R
  <2>5. QED BY <2>2, <2>3, <2>4 DEF Waits
<1>6. QED BY <1>1, <1>2, <1>3, <1>4, <1>5, OneShotSteps DEF Deliver

LEMMA LeaseKept ==
  ASSUME IInv, HomeInv, OneShotInv, FitInv, LeaseInv, [Next]_vars,
         \A n \in Nodes, b \in Buckets : ~Pop(n, b), NEW j \in OneShot
  PROVE  Lease(j)'
<1>1. /\ Lease(j) /\ j \in Ids /\ j # NoId /\ Ttl[j] \in Nat
      /\ EnvTypeOK /\ StoreTypeOK /\ now \in Nat /\ now' \in Nat
      BY QueueAssumption, JobsAssumption, NextInv, TimesAreNat, ClockAssumption
      DEF LeaseInv, OneShot, IInv, StoreInv, StoreTypeOK
<1>2. PICK f \in [Seats -> Seats] :
        /\ \A x \in Seats :
             Who(x)' # NoId => Who(f[x]) = Who(x)' /\ When(f[x]) = When(x)'
        /\ \A x, y \in Seats :
             Who(x)' # NoId /\ Who(y)' # NoId /\ f[x] = f[y] => x = y
      BY <1>1, RunsCarried DEF Carried
<1>3. ASSUME NEW x \in Seats, NEW y \in Seats, x # y, Who(x)' = j, Who(y)' = j
      PROVE  Apart(j, When(x), When(y))'
  <2>1. f[x] # f[y] /\ f[x] \in Seats /\ f[y] \in Seats BY <1>1, <1>2, <1>3
  <2>2. /\ Who(f[x]) = j /\ Who(f[y]) = j
        /\ When(f[x]) = When(x)' /\ When(f[y]) = When(y)'
        BY <1>1, <1>2, <1>3
  <2>3. Apart(j, When(f[x]), When(f[y])) BY <1>1, <2>1, <2>2 DEF Lease
  <2>4. QED BY <2>2, <2>3 DEF Apart
<1>4. ASSUME NEW b \in Buckets, NEW x \in Seats, Who(x)' = j
      PROVE  /\ Waits(b, j)' => Over(j, When(x)', now')
             /\ running'[b][j] # Absent => Over(j, When(x)', running'[b][j])
  <2>1. f[x] \in Seats /\ Who(f[x]) = j /\ When(f[x]) = When(x)'
        BY <1>1, <1>2, <1>4
  <2>2. When(f[x]) \in Nat BY <1>1, <2>1, SeatTypes
  <2>3. starts[j] # 0
    <3>1. Begun(j) BY <1>1 DEF FitInv
    <3>2. QED BY <2>1, <1>1, <3>1, SeatParts DEF Begun, Who, At
  <2>4. /\ Waits(b, j) => Over(j, When(f[x]), now)
        /\ running[b][j] # Absent => Over(j, When(f[x]), running[b][j])
        BY <1>1, <2>1 DEF Lease
  <2>5. /\ now <= now'
        /\ Waits(b, j)' => Waits(b, j) \/ Overdue(b, j)
        /\ running'[b][j] \in {running[b][j], Absent}
        BY <2>3, WaitsAfter
  <2>6. running[b][j] # Absent => running[b][j] \in Nat
        BY <1>1 DEF StoreTypeOK, Score
  <2>7. ASSUME Waits(b, j)' PROVE Over(j, When(f[x]), now')
    <3>1. CASE Waits(b, j)
          BY <1>1, <2>2, <2>4, <2>5, <3>1, OverGrows
    <3>2. CASE Overdue(b, j)
      <4>1. /\ running[b][j] \in Nat /\ running[b][j] <= now'
            /\ Over(j, When(f[x]), running[b][j])
            BY <1>1, <2>4, <2>5, <2>6, <3>2 DEF Overdue
      <4>2. QED BY <1>1, <2>2, <4>1, OverGrows
    <3>3. QED BY <2>5, <2>7, <3>1, <3>2
  <2>8. running'[b][j] # Absent => Over(j, When(f[x]), running'[b][j])
        BY <2>4, <2>5
  <2>9. QED BY <2>1, <2>7, <2>8
<1>5. \A b \in Buckets, x \in Seats : Who(x)' = j =>
        /\ Waits(b, j)' => Over(j, When(x), now)'
        /\ running'[b][j] # Absent => Over(j, When(x), running[b][j])'
      BY <1>4 DEF Over
<1>6. QED BY <1>3, <1>5 DEF Lease

\* The job that is popped was waiting, so the runs that are still held have met
\* their deadline, and it now waits nowhere.
LEMMA LeasePop ==
  ASSUME IInv, HomeInv, OneShotInv, LeaseInv, MaxStarts # 0, NEW n \in Nodes,
         NEW b \in Buckets, Pop(n, b), NEW j \in OneShot
  PROVE  Lease(j)'
<1> DEFINE h == << n, b, Hand >>
<1>1. /\ Lease(j) /\ j \in Ids /\ j # NoId /\ Ttl[j] \in Nat
      /\ EnvTypeOK /\ StoreTypeOK /\ now \in Nat
      BY QueueAssumption, JobsAssumption, TimesAreNat
      DEF LeaseInv, OneShot, IInv, StoreInv
<1>2. PICK i \in Ids :
        /\ Ready2Running(b, i)
        /\ worker' = [worker EXCEPT ![n][b] = [pc |-> "acquire", id |-> i,
                                              popped |-> Stamp]]
      BY DEF Pop, WorkerGoes
<1>3. UNCHANGED << slot, now >> BY DEF Pop, WorkerGoes
<1>4. /\ ready[b] \in Seq(Ids) /\ ready[b] # << >>
      /\ i = Head(ready[b]) /\ i \in ttl[b]
      /\ running' = [running EXCEPT ![b][i] = Deadline(i)]
      /\ UNCHANGED << pending, ttl >>
      /\ \A c \in Buckets : ready'[c] = IF c = b THEN Tail(ready[b]) ELSE ready[c]
      BY <1>1, <1>2 DEF Ready2Running, StoreTypeOK
<1>5. /\ h \in Seats /\ h[1] = n /\ h[2] = b /\ h[3] = Hand
      /\ Who(h)' = i /\ When(h)' = Clock
  <2>1. h \in Seats /\ h[1] = n /\ h[2] = b /\ h[3] = Hand BY DEF Seats
  <2>2. worker'[n][b] = [pc |-> "acquire", id |-> i, popped |-> Clock]
        BY <1>1, <1>2 DEF EnvTypeOK, Stamp
  <2>3. QED BY <2>1, <2>2 DEF Who, When, InHand
<1> HIDE DEF h
<1>6. \A m \in Nodes, c \in Buckets :
        ~(m = n /\ c = b) => worker'[m][c] = worker[m][c]
      BY <1>1, <1>2 DEF EnvTypeOK
<1>7. ASSUME NEW x \in Seats, x # h PROVE Who(x)' = Who(x) /\ When(x)' = When(x)
  <2>1. CASE x[3] # Hand BY <1>3, <2>1 DEF Who, When, At
  <2>2. CASE x[3] = Hand
    <3>1. ~(x[1] = n /\ x[2] = b) BY <1>5, <1>7, <2>2, SeatParts DEF h
    <3>2. worker'[x[1]][x[2]] = worker[x[1]][x[2]] BY <1>6, <3>1, SeatParts
    <3>3. QED BY <2>2, <3>2 DEF Who, When, InHand
  <2>3. QED BY <2>1, <2>2
<1>8. Placed(b, j) /\ Queued(ready[b], i)
      BY <1>4, QueuedTail DEF OneShotInv
<1>9. ASSUME NEW c \in Buckets
      PROVE  /\ Waits(c, j)' => Waits(c, j)
             /\ j = i => ~Waits(c, j)'
             /\ j # i => running'[c][j] = running[c][j]
             /\ j = i => running'[c][j] \in {Absent, now + Ttl[j]}
  <2>1. Queued(ready'[c], j) => Queued(ready[c], j)
        BY <1>4, QueuedTail
  <2>2. CASE c = b
    <3>1. j = i => pending[c][j] = Absent /\ ~Queued(ready'[c], j)
          BY <1>4, <1>8, <2>2, OnceTail DEF Placed
    <3>2. /\ j # i => running'[c][j] = running[c][j]
          /\ j = i => running'[c][j] = now + Ttl[j]
          BY <1>1, <1>4, <2>2 DEF StoreTypeOK, Deadline
    <3>3. QED BY <1>4, <2>1, <3>1, <3>2 DEF Waits
  <2>3. CASE c # b
    <3>1. running'[c][j] = running[c][j] BY <1>1, <1>4, <2>3 DEF StoreTypeOK
    <3>2. j = i => ~Present(c, j)
          BY <1>8, <2>3 DEF HomeInv, HomeBucket, Present
    <3>3. QED BY <1>4, <2>1, <3>1, <3>2 DEF Waits, Present
  <2>4. QED BY <2>2, <2>3
<1>10. ASSUME NEW x \in Seats, x # h, Who(x)' = j
       PROVE  /\ When(x) \in Nat
              /\ j = i => Over(j, When(x), now)
  <2>1. Who(x) = j BY <1>7, <1>10
  <2>2. When(x) \in Nat BY <1>1, <2>1, SeatTypes
  <2>3. j = i => Waits(b, j) BY <1>4, <1>8 DEF Waits
  <2>4. QED BY <1>1, <2>1, <2>2, <2>3 DEF Lease
<1>11. ASSUME NEW x \in Seats, NEW y \in Seats, x # y, Who(x)' = j, Who(y)' = j
       PROVE  Apart(j, When(x), When(y))'
  <2>1. CASE x = h
    <3>1. y # h /\ j = i BY <1>5, <1>11, <2>1
    <3>2. When(y) + Parts * (Ttl[j] - 1) < Clock
          BY <1>1, <1>10, <1>11, <3>1, OverAtPop
    <3>3. QED BY <1>5, <1>7, <2>1, <3>1, <3>2 DEF Apart
  <2>2. CASE y = h
    <3>1. x # h /\ j = i BY <1>5, <1>11, <2>2
    <3>2. When(x) + Parts * (Ttl[j] - 1) < Clock
          BY <1>1, <1>10, <1>11, <3>1, OverAtPop
    <3>3. QED BY <1>5, <1>7, <2>2, <3>1, <3>2 DEF Apart
  <2>3. CASE x # h /\ y # h
        BY <1>1, <1>7, <1>11, <2>3 DEF Lease, Apart
  <2>4. QED BY <2>1, <2>2, <2>3
<1>12. ASSUME NEW c \in Buckets, NEW x \in Seats, Who(x)' = j
       PROVE  /\ Waits(c, j)' => Over(j, When(x)', now)
              /\ running'[c][j] # Absent => Over(j, When(x)', running'[c][j])
  <2>1. CASE x = h
    <3>1. j = i /\ When(x)' = Clock BY <1>5, <1>12, <2>1
    <3>2. Over(j, Clock, now + Ttl[j]) BY <1>1, OverAtPop
    <3>3. QED BY <1>9, <3>1, <3>2
  <2>2. CASE x # h /\ j = i
    <3>1. Over(j, When(x), now) /\ When(x) \in Nat /\ When(x)' = When(x)
          BY <1>7, <1>10, <1>12, <2>2
    <3>2. now + Ttl[j] \in Nat /\ now <= now + Ttl[j] BY <1>1
    <3>3. Over(j, When(x), now + Ttl[j]) BY <1>1, <3>1, <3>2, OverGrows
    <3>4. QED BY <1>9, <2>2, <3>1, <3>3
  <2>3. CASE x # h /\ j # i
    <3>1. Who(x) = j /\ When(x)' = When(x) BY <1>7, <1>12, <2>3
    <3>2. QED BY <1>1, <1>9, <2>3, <3>1 DEF Lease
  <2>4. QED BY <2>1, <2>2, <2>3
<1>13. \A c \in Buckets, x \in Seats : Who(x)' = j =>
         /\ Waits(c, j)' => Over(j, When(x), now)'
         /\ running'[c][j] # Absent => Over(j, When(x), running[c][j])'
       BY <1>3, <1>12 DEF Over
<1>14. QED BY <1>11, <1>13 DEF Lease

LEMMA LeaseInvariance ==
  ASSUME "recover" \notin Ops, MaxStarts # 0
  PROVE  Spec => []LeaseInv
<1>1. Init => LeaseInv
  <2> SUFFICES ASSUME Init, NEW i \in OneShot PROVE Lease(i) BY DEF LeaseInv
  <2>1. i # NoId BY QueueAssumption DEF OneShot
  <2>2. ASSUME NEW x \in Seats PROVE Who(x) = NoId
        BY SeatParts DEF Init, Who, At, InHand, IdleWorker, FreeSlot
  <2>3. QED BY <2>1, <2>2 DEF Lease
<1>2. IInv /\ HomeInv /\ OneShotInv /\ FitInv /\ LeaseInv /\ [Next]_vars => LeaseInv'
      BY LeaseKept, LeasePop DEF LeaseInv
<1>3. QED BY <1>1, <1>2, Invariance, HomeInvariance, OneShotInvariance,
             FitInvariance, PTL DEF Spec

(* The deadline is a lease: a second execution of a one-shot job is popped *)
(* more than ttl - 1 seconds after any other that is still going on, as the*)
(* deadline counts whole seconds of the clock, whatever late results, stops*)
(* and shutdowns come in between.                                          *)
THEOREM LeaseRespected ==
  ASSUME "recover" \notin Ops, MaxStarts # 0
  PROVE  Spec => []OverlapOnlyAfterTtl
<1>1. EnvTypeOK /\ LeaseInv => OverlapOnlyAfterTtl
  <2> SUFFICES ASSUME EnvTypeOK, LeaseInv, NEW x \in Execs, NEW y \in Execs, x # y,
                      At(x).id = At(y).id, At(x).id \in OneShot
               PROVE  Apart(At(x).id, At(x).popped, At(y).popped)
      BY DEF OverlapOnlyAfterTtl, Apart
  <2>1. /\ x \in Seats /\ y \in Seats /\ x[3] # Hand /\ y[3] # Hand
        BY HandNotSlot DEF Execs, Seats
  <2>2. QED BY <2>1 DEF LeaseInv, Lease, Who, When
<1>2. IInv => EnvTypeOK BY DEF IInv
<1>3. QED BY <1>1, <1>2, LeaseInvariance, Invariance, PTL
=============================================================================
