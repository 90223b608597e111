--------------------------- MODULE JobStore_proofs ---------------------------
(***************************************************************************)
(* Every Lua script preserves the type of the store and StoreInv.          *)
(***************************************************************************)
EXTENDS JobStore, FiniteSetTheorems, SequenceTheorems, TLAPS

(* A subset of the ids is finite, so its cardinality is a natural number.  *)
LEMMA SubsetCard ==
  ASSUME NEW S \in SUBSET Ids
  PROVE  Cardinality(S) \in Nat
BY IdsAssumption, FS_Subset, FS_CardinalityType

(* What LPUSH of the ids returned by ZRANGEBYSCORE appends: a sequence of  *)
(* these ids, each of them present.                                        *)
LEMMA OrderingsSeq ==
  ASSUME NEW S \in SUBSET Ids, NEW z, NEW s \in Orderings(S, z)
  PROVE  /\ s \in Seq(Ids)
         /\ \A k \in DOMAIN s : s[k] \in S
         /\ \A i \in S : Queued(s, i)
<1>1. Cardinality(S) \in Nat BY SubsetCard
<1>2. s \in [1..Cardinality(S) -> S] BY DEF Orderings
<1>3. s \in Seq(S) BY <1>1, <1>2
<1>4. QED BY <1>2, <1>3 DEF Orderings, Queued

(* LREM: the id is gone, every other element is still there, none is new.  *)
LEMMA WithoutSeq ==
  ASSUME NEW q \in Seq(Ids), NEW i, NEW r \in Without(q, i)
  PROVE  /\ r \in Seq(Ids)
         /\ \A j : Queued(r, j) <=> Queued(q, j) /\ j # i
<1> DEFINE kept == {k \in DOMAIN q : q[k] # i}
           n == Cardinality(kept)
<1>1. IsFiniteSet(1..Len(q)) BY FS_Interval
<1>2. n \in Nat BY <1>1, FS_Subset, FS_CardinalityType
<1>3. PICK f \in [1..n -> kept] :
        /\ \A k \in kept : \E j \in DOMAIN f : f[j] = k
        /\ r = [k \in 1..n |-> q[f[k]]]
      BY DEF Without
<1> HIDE DEF n
<1>4. r \in Seq(Ids) BY <1>2, <1>3
<1>5. ASSUME NEW j, Queued(r, j) PROVE Queued(q, j) /\ j # i
      BY <1>3, <1>5 DEF Queued
<1>6. ASSUME NEW j, Queued(q, j), j # i PROVE Queued(r, j)
  <2>1. PICK k \in kept : q[k] = j BY <1>6 DEF Queued
  <2>2. PICK m \in 1..n : f[m] = k BY <1>3
  <2>3. QED BY <1>3, <2>1, <2>2 DEF Queued
<1>7. QED BY <1>4, <1>5, <1>6

(* Membership in a queue after RPOP and after LPUSH.                       *)
LEMMA QueuedTail ==
  ASSUME NEW q \in Seq(Ids), q # << >>
  PROVE  /\ Tail(q) \in Seq(Ids)
         /\ Head(q) \in Ids
         /\ Queued(q, Head(q))
         /\ \A j : Queued(Tail(q), j) => Queued(q, j)
BY DEF Queued

\* What RPOP leaves behind.
LEMMA QueuedBehind ==
  ASSUME NEW q \in Seq(Ids), q # << >>, NEW j, Queued(q, j), j # Head(q)
  PROVE  Queued(Tail(q), j)
<1>1. PICK k \in 1..Len(q) : q[k] = j BY DEF Queued
<1>2. k # 1 BY <1>1
<1>3. k - 1 \in 1..Len(Tail(q)) /\ Tail(q)[k - 1] = q[k] BY <1>1, <1>2
<1>4. 1..Len(Tail(q)) = DOMAIN Tail(q) OBVIOUS
<1>5. QED BY <1>1, <1>3, <1>4 DEF Queued

LEMMA QueuedConcat ==
  ASSUME NEW q \in Seq(Ids), NEW s \in Seq(Ids)
  PROVE  /\ q \o s \in Seq(Ids)
         /\ \A j : Queued(q \o s, j) <=> Queued(q, j) \/ Queued(s, j)
<1>1. q \o s \in Seq(Ids) BY ConcatProperties
<1>2. Len(q \o s) = Len(q) + Len(s) BY ConcatProperties
<1>3. \A k \in 1..Len(q) : (q \o s)[k] = q[k] BY ConcatProperties
<1>4. \A k \in 1..Len(s) : (q \o s)[Len(q) + k] = s[k] BY ConcatProperties
<1>5. \A k \in 1..Len(q \o s) :
        k \in 1..Len(q) \/ (k - Len(q) \in 1..Len(s) /\ k = Len(q) + (k - Len(q)))
      BY <1>2
<1>6. \A k \in 1..Len(q) : k \in 1..Len(q \o s) BY <1>2
<1>7. \A k \in 1..Len(s) : Len(q) + k \in 1..Len(q \o s) BY <1>2
<1>8. ASSUME NEW j, Queued(q \o s, j) PROVE Queued(q, j) \/ Queued(s, j)
  <2>1. PICK k \in 1..Len(q \o s) : (q \o s)[k] = j BY <1>1, <1>8 DEF Queued
  <2>2. CASE k \in 1..Len(q) BY <1>3, <2>1, <2>2 DEF Queued
  <2>3. CASE k - Len(q) \in 1..Len(s) /\ k = Len(q) + (k - Len(q))
    <3>1. s[k - Len(q)] = j BY <1>4, <2>1, <2>3
    <3>2. QED BY <2>3, <3>1 DEF Queued
  <2>4. QED BY <1>5, <2>1, <2>2, <2>3
<1>9. ASSUME NEW j, Queued(q, j) PROVE Queued(q \o s, j)
  <2>1. PICK k \in 1..Len(q) : q[k] = j BY <1>9 DEF Queued
  <2>2. QED BY <1>1, <1>3, <1>6, <2>1 DEF Queued
<1>10. ASSUME NEW j, Queued(s, j) PROVE Queued(q \o s, j)
  <2>1. PICK k \in 1..Len(s) : s[k] = j BY <1>10 DEF Queued
  <2>2. QED BY <1>1, <1>4, <1>7, <2>1 DEF Queued
<1>11. QED BY <1>1, <1>8, <1>9, <1>10

(* What a script does to the queues, in terms of membership.               *)
LEMMA PushedQueue ==
  ASSUME StoreTypeOK, NEW b \in Buckets, NEW S \in SUBSET Ids, NEW z,
         Pushed(b, S, z)
  PROVE  /\ ready' \in [Buckets -> Seq(Ids)]
         /\ \A c \in Buckets, j \in Ids :
              Queued(ready'[c], j) <=> Queued(ready[c], j) \/ (c = b /\ j \in S)
<1>1. PICK s \in Orderings(S, z) : ready' = [ready EXCEPT ![b] = @ \o s]
      BY DEF Pushed
<1>2. /\ s \in Seq(Ids)
      /\ \A k \in DOMAIN s : s[k] \in S
      /\ \A i \in S : Queued(s, i)
      BY OrderingsSeq
<1>3. \A j : Queued(s, j) <=> j \in S BY <1>2 DEF Queued
<1>4. ready[b] \in Seq(Ids) BY DEF StoreTypeOK
<1>5. /\ ready[b] \o s \in Seq(Ids)
      /\ \A j : Queued(ready[b] \o s, j) <=> Queued(ready[b], j) \/ Queued(s, j)
      BY <1>2, <1>4, QueuedConcat
<1>6. ready' \in [Buckets -> Seq(Ids)] BY <1>1, <1>5 DEF StoreTypeOK
<1>7. \A c \in Buckets : ready'[c] = IF c = b THEN ready[b] \o s ELSE ready[c]
      BY <1>1 DEF StoreTypeOK
<1>8. QED BY <1>3, <1>5, <1>6, <1>7

LEMMA UnqueuedQueue ==
  ASSUME StoreTypeOK, NEW b \in Buckets, NEW i \in Ids, Unqueued(b, i)
  PROVE  /\ ready' \in [Buckets -> Seq(Ids)]
         /\ \A c \in Buckets, j \in Ids :
              Queued(ready'[c], j) <=> Queued(ready[c], j) /\ (c # b \/ j # i)
<1>1. PICK q \in Without(ready[b], i) : ready' = [ready EXCEPT ![b] = q]
      BY DEF Unqueued
<1>2. /\ q \in Seq(Ids)
      /\ \A j : Queued(q, j) <=> Queued(ready[b], j) /\ j # i
      BY <1>1, WithoutSeq DEF StoreTypeOK
<1>3. ready' \in [Buckets -> Seq(Ids)] BY <1>1, <1>2 DEF StoreTypeOK
<1>4. \A c \in Buckets : ready'[c] = IF c = b THEN q ELSE ready[c]
      BY <1>1 DEF StoreTypeOK
<1>5. QED BY <1>2, <1>3, <1>4

-----------------------------------------------------------------------------
(* One lemma per script.                                                   *)

LEMMA Send2PendingInv ==
  ASSUME StoreInv, NEW b \in Buckets, NEW i \in Ids, NEW score \in Nat,
         Send2Pending(b, i, score), UNCHANGED now
  PROVE  StoreInv'
<1> USE DEF StoreInv
<1>1. CASE UNCHANGED store
      BY <1>1 DEF store, StoreTypeOK, NoGhostJobs, ScriptsTotal, ResultMeansDone,
                  RunningHidesResult, Present, Queued
<1>2. CASE ~DeliveryRefused(b, i)
  <2>1. /\ info' = [info EXCEPT ![b] = @ \cup {i}]
        /\ ttl' = [ttl EXCEPT ![b] = @ \cup {i}]
        /\ retry' = [retry EXCEPT ![b][i] = Retries[i]]
        /\ pending' = [pending EXCEPT ![b][i] = score]
        /\ status' = [status EXCEPT ![b][i] = "Pending"]
        /\ result' = [result EXCEPT ![b] = @ \ {i}]
        /\ terminate' = [terminate EXCEPT ![b] = @ \ {i}]
        /\ bucketOf' = [bucketOf EXCEPT ![i] = b]
        /\ UNCHANGED << ready, running >>
        BY <1>2 DEF Send2Pending
  <2>2. \/ /\ period' = [period EXCEPT ![b][i] = score]
           /\ periodRetry' = [periodRetry EXCEPT ![b] = @ \cup {i}]
        \/ UNCHANGED << period, periodRetry >>
        BY <1>2 DEF Send2Pending
  <2>3. /\ period' \in [Buckets -> [Ids -> Score]]
        /\ periodRetry' \in [Buckets -> SUBSET Ids]
    <3>1. CASE UNCHANGED << period, periodRetry >> BY <3>1 DEF StoreTypeOK
    <3>2. CASE /\ period' = [period EXCEPT ![b][i] = score]
               /\ periodRetry' = [periodRetry EXCEPT ![b] = @ \cup {i}]
          BY <3>2 DEF StoreTypeOK, Score
    <3>3. QED BY <2>2, <3>1, <3>2
  <2>4. StoreTypeOK'
        BY <2>1, <2>3, JobsAssumption DEF StoreTypeOK, Score, Statuses
  <2>5. \A c \in Buckets, j \in Ids :
          /\ period'[c][j] # Absent => period[c][j] # Absent \/ (c = b /\ j = i)
          /\ j \in periodRetry[c] => j \in periodRetry'[c]
          /\ (c = b /\ j = i) /\ period'[c][j] # Absent =>
               period[c][j] # Absent \/ j \in periodRetry'[c]
        BY <2>2 DEF StoreTypeOK
  <2>6. NoGhostJobs'
        BY <2>1, <2>5 DEF NoGhostJobs, Present, StoreTypeOK
  <2>7. ScriptsTotal'
        BY <2>1, <2>5 DEF ScriptsTotal, StoreTypeOK
  <2>8. ResultMeansDone'
    <3> SUFFICES ASSUME NEW c \in Buckets, NEW j \in Ids, j \in result'[c]
                 PROVE  status'[c][j] \in Terminal
        BY DEF ResultMeansDone
    <3>1. j \in result[c] /\ (c # b \/ j # i) BY <2>1 DEF StoreTypeOK
    <3>2. status'[c][j] = status[c][j] BY <2>1, <3>1 DEF StoreTypeOK
    <3>3. QED BY <3>1, <3>2 DEF ResultMeansDone
  <2>9. RunningHidesResult'
        BY <2>1 DEF RunningHidesResult, StoreTypeOK
  <2>10. QED BY <2>4, <2>6, <2>7, <2>8, <2>9
<1>3. QED BY <1>1, <1>2 DEF Send2Pending

LEMMA Pending2ReadyInv ==
  ASSUME StoreInv, NEW b \in Buckets, Pending2Ready(b), UNCHANGED now
  PROVE  StoreInv'
<1> USE DEF StoreInv
<1> DEFINE D == Due(pending[b])
<1>1. /\ D \in SUBSET Ids
      /\ \A i \in D : pending[b][i] # Absent
      /\ Moved(b) \subseteq D
      BY DEF Due, Moved
<1>2. /\ ready' \in [Buckets -> Seq(Ids)]
      /\ \A c \in Buckets, j \in Ids :
           Queued(ready'[c], j) <=> Queued(ready[c], j) \/ (c = b /\ j \in D)
      BY <1>1, PushedQueue DEF Pending2Ready
<1> HIDE DEF D
<1>3. StoreTypeOK'
  <2>1. pending' \in [Buckets -> [Ids -> Score]]
        BY DEF Pending2Ready, StoreTypeOK, Removed, Score
  <2>2. status' \in [Buckets -> [Ids -> Statuses]]
        BY DEF Pending2Ready, StoreTypeOK, Statuses
  <2>3. result' \in [Buckets -> SUBSET Ids] BY DEF Pending2Ready, StoreTypeOK
  <2>4. QED BY <1>2, <2>1, <2>2, <2>3 DEF Pending2Ready, StoreTypeOK
<1>4. NoGhostJobs'
  <2>1. \A c \in Buckets, j \in Ids :
          Queued(ready'[c], j) => Queued(ready[c], j) \/ pending[c][j] # Absent
        BY <1>1, <1>2
  <2>2. \A c \in Buckets, j \in Ids :
          pending'[c][j] # Absent => pending[c][j] # Absent
        BY DEF Pending2Ready, Removed, StoreTypeOK
  <2>3. QED BY <2>1, <2>2 DEF NoGhostJobs, Present, Pending2Ready
<1>5. ScriptsTotal'
      BY DEF ScriptsTotal, Pending2Ready
<1>6. ResultMeansDone'
      BY DEF ResultMeansDone, Pending2Ready, StoreTypeOK
<1>7. RunningHidesResult'
      BY DEF RunningHidesResult, Pending2Ready, StoreTypeOK
<1>8. QED BY <1>3, <1>4, <1>5, <1>6, <1>7

LEMMA Ready2RunningDropInv ==
  ASSUME StoreInv, NEW b \in Buckets, Ready2RunningDrop(b), UNCHANGED now
  PROVE  StoreInv'
<1> USE DEF StoreInv, Ready2RunningDrop
<1>1. /\ Tail(ready[b]) \in Seq(Ids)
      /\ \A j : Queued(Tail(ready[b]), j) => Queued(ready[b], j)
      BY QueuedTail DEF StoreTypeOK
<1>2. StoreTypeOK' BY <1>1 DEF StoreTypeOK
<1>3. NoGhostJobs'
  <2>1. \A c \in Buckets, j \in Ids : Queued(ready'[c], j) => Queued(ready[c], j)
        BY <1>1 DEF StoreTypeOK
  <2>2. QED BY <2>1 DEF NoGhostJobs, Present
<1>4. ScriptsTotal' BY DEF ScriptsTotal
<1>5. ResultMeansDone' BY DEF ResultMeansDone
<1>6. RunningHidesResult' BY DEF RunningHidesResult
<1>7. QED BY <1>2, <1>3, <1>4, <1>5, <1>6

LEMMA Ready2RunningInv ==
  ASSUME StoreInv, NEW b \in Buckets, NEW i \in Ids, Ready2Running(b, i),
         UNCHANGED now
  PROVE  StoreInv'
<1> USE DEF StoreInv, Ready2Running
<1>1. /\ Tail(ready[b]) \in Seq(Ids)
      /\ Queued(ready[b], i)
      /\ \A j : Queued(Tail(ready[b]), j) => Queued(ready[b], j)
      BY QueuedTail DEF StoreTypeOK
<1>2. Deadline(i) \in Nat
      BY JobsAssumption, ClockAssumption DEF Deadline, StoreTypeOK
<1>3. StoreTypeOK' BY <1>1, <1>2 DEF StoreTypeOK, Score, Statuses
<1>4. NoGhostJobs'
  <2>1. \A c \in Buckets, j \in Ids : Queued(ready'[c], j) => Queued(ready[c], j)
        BY <1>1 DEF StoreTypeOK
  <2>2. i \in info[b] BY <1>1 DEF NoGhostJobs, Present
  <2>3. \A c \in Buckets, j \in Ids :
          running'[c][j] # Absent => running[c][j] # Absent \/ (c = b /\ j = i)
        BY DEF StoreTypeOK
  <2>4. QED BY <2>1, <2>2, <2>3 DEF NoGhostJobs, Present
<1>5. ScriptsTotal' BY DEF ScriptsTotal
<1>6. ResultMeansDone' BY DEF ResultMeansDone, StoreTypeOK
<1>7. RunningHidesResult' BY DEF RunningHidesResult, StoreTypeOK
<1>8. QED BY <1>3, <1>4, <1>5, <1>6, <1>7

LEMMA Running2PendingInv ==
  ASSUME StoreInv, NEW b \in Buckets, NEW i \in Ids, NEW t \in Nat,
         NEW next \in Nat, Running2Pending(b, i, t, next), UNCHANGED now
  PROVE  StoreInv'
<1> USE DEF StoreInv
<1>1. CASE UNCHANGED store
      BY <1>1 DEF store, StoreTypeOK, NoGhostJobs, ScriptsTotal, ResultMeansDone,
                  RunningHidesResult, Present, Queued
<1>2. CASE FiringDue(b, i, t)
  <2>1. /\ period' = [period EXCEPT ![b][i] = next]
        /\ pending' = [pending EXCEPT ![b][i] = next]
        /\ UNCHANGED << ready, running, retry, ttl, periodRetry, info, status,
                        result, terminate, bucketOf >>
        BY <1>2 DEF Running2Pending
  <2>2. StoreTypeOK' BY <2>1 DEF StoreTypeOK, Score
  <2>3. period[b][i] # Absent BY <1>2 DEF FiringDue
  <2>4. \A c \in Buckets, j \in Ids :
          /\ period'[c][j] # Absent => period[c][j] # Absent
          /\ pending'[c][j] # Absent =>
               pending[c][j] # Absent \/ period[c][j] # Absent
        BY <2>1, <2>3 DEF StoreTypeOK
  <2>5. NoGhostJobs' BY <2>1, <2>4 DEF NoGhostJobs, Present
  <2>6. ScriptsTotal' BY <2>1, <2>4 DEF ScriptsTotal
  <2>7. ResultMeansDone' BY <2>1 DEF ResultMeansDone
  <2>8. RunningHidesResult' BY <2>1 DEF RunningHidesResult
  <2>9. QED BY <2>2, <2>5, <2>6, <2>7, <2>8
<1>3. QED BY <1>1, <1>2 DEF Running2Pending

LEMMA Running2ReadyInv ==
  ASSUME StoreInv, NEW b \in Buckets, Running2Ready(b), UNCHANGED now
  PROVE  StoreInv'
<1> USE DEF StoreInv
<1> DEFINE R == Retried(b)
<1>1. /\ R \in SUBSET Ids
      /\ R \subseteq Expired(b)
      /\ GivenUp(b) \subseteq Expired(b)
      /\ OneShotGivenUp(b) \subseteq GivenUp(b)
      /\ \A i \in Expired(b) : i \in R \/ i \in GivenUp(b)
      /\ \A i \in Expired(b) : running[b][i] # Absent
      /\ \A i \in R : retry[b][i] > 0
      /\ \A i \in OneShotGivenUp(b) : period[b][i] = Absent
      /\ \A i \in GivenUp(b) : i \notin R
      BY DEF Due, Expired, Retried, GivenUp, OneShotGivenUp
<1>2. /\ ready' \in [Buckets -> Seq(Ids)]
      /\ \A c \in Buckets, j \in Ids :
           Queued(ready'[c], j) <=> Queued(ready[c], j) \/ (c = b /\ j \in R)
      BY <1>1, PushedQueue DEF Running2Ready
<1>3. StoreTypeOK'
  <2>1. RetryAfterExpiry(b) \in [Ids -> Score]
        BY <1>1, JobsAssumption DEF RetryAfterExpiry, StoreTypeOK, Score, Absent
  <2>2. status' \in [Buckets -> [Ids -> Statuses]]
        BY DEF Running2Ready, StoreTypeOK, Statuses, Terminal
  <2>3. running' \in [Buckets -> [Ids -> Score]]
        BY DEF Running2Ready, Removed, StoreTypeOK, Score
  <2>4. retry' \in [Buckets -> [Ids -> Score]]
        BY <2>1 DEF Running2Ready, StoreTypeOK
  <2>5. /\ result' \in [Buckets -> SUBSET Ids]
        /\ ttl' \in [Buckets -> SUBSET Ids]
        BY DEF Running2Ready, StoreTypeOK, GivenUp, Expired, Due
  <2>6. QED BY <1>2, <2>2, <2>3, <2>4, <2>5 DEF Running2Ready, StoreTypeOK
<1> HIDE DEF R
<1>4. NoGhostJobs'
  <2>1. \A c \in Buckets, j \in Ids :
          Queued(ready'[c], j) => Queued(ready[c], j) \/ running[c][j] # Absent
        BY <1>1, <1>2
  <2>2. \A c \in Buckets, j \in Ids :
          running'[c][j] # Absent => running[c][j] # Absent
        BY DEF Running2Ready, Removed, StoreTypeOK
  <2>3. QED BY <2>1, <2>2 DEF NoGhostJobs, Present, Running2Ready
<1>5. ScriptsTotal'
      BY <1>1 DEF ScriptsTotal, Running2Ready, StoreTypeOK
<1>6. ResultMeansDone'
  <2> SUFFICES ASSUME NEW c \in Buckets, NEW j \in Ids, j \in result'[c]
               PROVE  status'[c][j] \in Terminal
      BY DEF ResultMeansDone
  <2>1. CASE c # b
        BY <2>1 DEF ResultMeansDone, Running2Ready, StoreTypeOK
  <2>2. CASE c = b /\ j \in GivenUp(b)
    <3>1. status'[b][j] = "Error"
          BY <1>1, <2>2 DEF Running2Ready, StoreTypeOK, R
    <3>2. QED BY <2>2, <3>1 DEF Terminal
  <2>3. CASE c = b /\ j \notin GivenUp(b)
    <3>1. j \in result[b] BY <2>3 DEF Running2Ready, StoreTypeOK
    <3>2. j \notin R BY <1>1, <3>1 DEF RunningHidesResult
    <3>3. status'[b][j] = status[b][j]
          BY <2>3, <3>2 DEF Running2Ready, StoreTypeOK, R
    <3>4. QED BY <2>3, <3>1, <3>3 DEF ResultMeansDone
  <2>4. QED BY <2>1, <2>2, <2>3
<1>7. RunningHidesResult'
      BY <1>1 DEF RunningHidesResult, Running2Ready, Removed, StoreTypeOK
<1>8. QED BY <1>3, <1>4, <1>5, <1>6, <1>7

LEMMA Running2FinishInv ==
  ASSUME StoreInv, NEW b \in Buckets, NEW i \in Ids, NEW st \in Terminal,
         Running2Finish(b, i, st), UNCHANGED now
  PROVE  StoreInv'
<1> USE DEF StoreInv
<1>1. /\ status' = [status EXCEPT ![b][i] = st]
      /\ result' = [result EXCEPT ![b] = @ \cup {i}]
      /\ running' = [running EXCEPT ![b][i] = Absent]
      /\ UNCHANGED << pending, ready, period, periodRetry, info, terminate,
                      bucketOf >>
      BY DEF Running2Finish
<1>2. \/ /\ period[b][i] = Absent
         /\ retry' = [retry EXCEPT ![b][i] = Absent]
         /\ ttl' = [ttl EXCEPT ![b] = @ \ {i}]
      \/ UNCHANGED << retry, ttl >>
      BY DEF Running2Finish
<1>3. /\ retry' \in [Buckets -> [Ids -> Score]]
      /\ ttl' \in [Buckets -> SUBSET Ids]
      /\ \A c \in Buckets, j \in Ids :
           period[c][j] # Absent /\ j \in ttl[c] => j \in ttl'[c]
  <2>1. CASE UNCHANGED << retry, ttl >> BY <2>1 DEF StoreTypeOK
  <2>2. CASE /\ period[b][i] = Absent
             /\ retry' = [retry EXCEPT ![b][i] = Absent]
             /\ ttl' = [ttl EXCEPT ![b] = @ \ {i}]
        BY <2>2 DEF StoreTypeOK, Score
  <2>3. QED BY <1>2, <2>1, <2>2
<1>4. StoreTypeOK' BY <1>1, <1>3 DEF StoreTypeOK, Score, Statuses
<1>5. NoGhostJobs' BY <1>1 DEF NoGhostJobs, Present, Queued, StoreTypeOK
<1>6. ScriptsTotal' BY <1>1, <1>3 DEF ScriptsTotal
<1>7. ResultMeansDone' BY <1>1 DEF ResultMeansDone, StoreTypeOK
<1>8. RunningHidesResult' BY <1>1 DEF RunningHidesResult, StoreTypeOK
<1>9. QED BY <1>4, <1>5, <1>6, <1>7, <1>8

LEMMA TerminateInv ==
  ASSUME StoreInv, NEW b \in Buckets, NEW i \in Ids, Terminate(b, i),
         UNCHANGED now
  PROVE  StoreInv'
<1> USE DEF StoreInv
<1>1. /\ ready' \in [Buckets -> Seq(Ids)]
      /\ \A c \in Buckets, j \in Ids : Queued(ready'[c], j) => Queued(ready[c], j)
      BY UnqueuedQueue DEF Terminate
<1>2. StoreTypeOK' BY <1>1 DEF StoreTypeOK, Terminate, Score
<1>3. NoGhostJobs'
  <2>1. \A c \in Buckets, j \in Ids :
          pending'[c][j] # Absent => pending[c][j] # Absent
        BY DEF Terminate, StoreTypeOK
  <2>2. QED BY <1>1, <2>1 DEF NoGhostJobs, Present, Terminate
<1>4. ScriptsTotal' BY DEF ScriptsTotal, Terminate
<1>5. ResultMeansDone' BY DEF ResultMeansDone, Terminate
<1>6. RunningHidesResult' BY DEF RunningHidesResult, Terminate
<1>7. QED BY <1>2, <1>3, <1>4, <1>5, <1>6

LEMMA DeleteInv ==
  ASSUME StoreInv, NEW b \in Buckets, NEW i \in Ids, Delete(b, i),
         UNCHANGED now
  PROVE  StoreInv'
<1> USE DEF StoreInv
<1>1. /\ ready' \in [Buckets -> Seq(Ids)]
      /\ \A c \in Buckets, j \in Ids :
           Queued(ready'[c], j) <=> Queued(ready[c], j) /\ (c # b \/ j # i)
      BY UnqueuedQueue DEF Delete
<1>2. StoreTypeOK' BY <1>1 DEF StoreTypeOK, Delete, Score
<1>3. NoGhostJobs'
  <2>1. \A c \in Buckets, j \in Ids :
          /\ pending'[c][j] # Absent => pending[c][j] # Absent /\ (c # b \/ j # i)
          /\ running'[c][j] # Absent => running[c][j] # Absent /\ (c # b \/ j # i)
          /\ period'[c][j] # Absent => period[c][j] # Absent /\ (c # b \/ j # i)
          /\ j \in info[c] /\ (c # b \/ j # i) => j \in info'[c]
        BY DEF Delete, StoreTypeOK
  <2>2. QED BY <1>1, <2>1 DEF NoGhostJobs, Present
<1>4. ScriptsTotal' BY DEF ScriptsTotal, Delete, StoreTypeOK
<1>5. ResultMeansDone' BY DEF ResultMeansDone, Delete
<1>6. RunningHidesResult' BY DEF RunningHidesResult, Delete, StoreTypeOK
<1>7. QED BY <1>2, <1>3, <1>4, <1>5, <1>6

-----------------------------------------------------------------------------
(* Where a script puts jobs.                                               *)

\* What a script may do to the places of jobs: it moves those that are there.
NoneNew ==
  /\ \A b \in Buckets, i \in Ids : Present(b, i)' => Present(b, i)
  /\ UNCHANGED bucketOf

LEMMA Pending2ReadyPlaces ==
  ASSUME StoreTypeOK, NEW b \in Buckets, Pending2Ready(b)
  PROVE  NoneNew
<1> DEFINE D == Due(pending[b])
<1>1. D \in SUBSET Ids /\ \A i \in D : pending[b][i] # Absent BY DEF Due
<1>2. \A c \in Buckets, j \in Ids :
        Queued(ready'[c], j) <=> Queued(ready[c], j) \/ (c = b /\ j \in D)
      BY <1>1, PushedQueue DEF Pending2Ready
<1> HIDE DEF D
<1>3. \A c \in Buckets, j \in Ids :
        pending'[c][j] # Absent => pending[c][j] # Absent
      BY DEF Pending2Ready, Removed, StoreTypeOK
<1>4. UNCHANGED << running, period, bucketOf >> BY DEF Pending2Ready
<1>5. QED BY <1>1, <1>2, <1>3, <1>4 DEF NoneNew, Present

LEMMA Ready2RunningPlaces ==
  ASSUME StoreTypeOK, NEW b \in Buckets,
         Ready2RunningDrop(b) \/ \E i \in Ids : Ready2Running(b, i)
  PROVE  NoneNew
<1>1. /\ ready[b] # << >>
      /\ ready' = [ready EXCEPT ![b] = Tail(@)]
      /\ UNCHANGED << pending, period, bucketOf >>
      BY DEF Ready2RunningDrop, Ready2Running
<1>2. /\ Queued(ready[b], Head(ready[b]))
      /\ \A j : Queued(Tail(ready[b]), j) => Queued(ready[b], j)
      BY <1>1, QueuedTail DEF StoreTypeOK
<1>3. \A c \in Buckets, j \in Ids : Queued(ready'[c], j) => Queued(ready[c], j)
      BY <1>1, <1>2 DEF StoreTypeOK
<1>4. \A c \in Buckets, j \in Ids : running'[c][j] # Absent =>
        running[c][j] # Absent \/ (c = b /\ j = Head(ready[b]))
      BY DEF Ready2RunningDrop, Ready2Running, StoreTypeOK
<1>5. QED BY <1>1, <1>2, <1>3, <1>4 DEF NoneNew, Present

LEMMA Running2PendingPlaces ==
  ASSUME StoreTypeOK, NEW b \in Buckets, NEW i \in Ids, NEW t, NEW next,
         Running2Pending(b, i, t, next)
  PROVE  NoneNew
<1>1. CASE UNCHANGED store BY <1>1 DEF store, NoneNew, Present, Queued
<1>2. CASE FiringDue(b, i, t)
  <2>1. /\ period' = [period EXCEPT ![b][i] = next]
        /\ pending' = [pending EXCEPT ![b][i] = next]
        /\ UNCHANGED << ready, running, bucketOf >>
        /\ period[b][i] # Absent
        BY <1>2 DEF Running2Pending, FiringDue
  <2>2. \A c \in Buckets, j \in Ids :
          /\ period'[c][j] # Absent => period[c][j] # Absent
          /\ pending'[c][j] # Absent =>
               pending[c][j] # Absent \/ period[c][j] # Absent
        BY <2>1 DEF StoreTypeOK
  <2>3. QED BY <2>1, <2>2 DEF NoneNew, Present, Queued
<1>3. QED BY <1>1, <1>2 DEF Running2Pending

LEMMA Running2ReadyPlaces ==
  ASSUME StoreTypeOK, NEW b \in Buckets, Running2Ready(b)
  PROVE  NoneNew
<1> DEFINE R == Retried(b)
<1>1. R \in SUBSET Ids /\ \A i \in R : running[b][i] # Absent
      BY DEF Retried, Expired, Due
<1>2. \A c \in Buckets, j \in Ids :
        Queued(ready'[c], j) <=> Queued(ready[c], j) \/ (c = b /\ j \in R)
      BY <1>1, PushedQueue DEF Running2Ready
<1> HIDE DEF R
<1>3. \A c \in Buckets, j \in Ids :
        running'[c][j] # Absent => running[c][j] # Absent
      BY DEF Running2Ready, Removed, StoreTypeOK
<1>4. UNCHANGED << pending, period, bucketOf >> BY DEF Running2Ready
<1>5. QED BY <1>1, <1>2, <1>3, <1>4 DEF NoneNew, Present

LEMMA Running2FinishPlaces ==
  ASSUME StoreTypeOK, NEW b \in Buckets, NEW i \in Ids, NEW st,
         Running2Finish(b, i, st)
  PROVE  NoneNew
<1>1. /\ running' = [running EXCEPT ![b][i] = Absent]
      /\ UNCHANGED << pending, ready, period, bucketOf >>
      BY DEF Running2Finish
<1>2. QED BY <1>1 DEF NoneNew, Present, Queued, StoreTypeOK

LEMMA TerminatePlaces ==
  ASSUME StoreTypeOK, NEW b \in Buckets, NEW i \in Ids, Terminate(b, i)
  PROVE  NoneNew
<1>1. \A c \in Buckets, j \in Ids : Queued(ready'[c], j) => Queued(ready[c], j)
      BY UnqueuedQueue DEF Terminate
<1>2. \A c \in Buckets, j \in Ids :
        pending'[c][j] # Absent => pending[c][j] # Absent
      BY DEF Terminate, StoreTypeOK
<1>3. UNCHANGED << running, period, bucketOf >> BY DEF Terminate
<1>4. QED BY <1>1, <1>2, <1>3 DEF NoneNew, Present

LEMMA DeletePlaces ==
  ASSUME StoreTypeOK, NEW b \in Buckets, NEW i \in Ids, Delete(b, i)
  PROVE  /\ \A c \in Buckets, j \in Ids :
              Present(c, j)' => Present(c, j) /\ (c # b \/ j # i)
         /\ bucketOf' = [bucketOf EXCEPT ![i] = NoBucket]
<1>1. \A c \in Buckets, j \in Ids :
        Queued(ready'[c], j) => Queued(ready[c], j) /\ (c # b \/ j # i)
      BY UnqueuedQueue DEF Delete
<1>2. \A c \in Buckets, j \in Ids :
        /\ pending'[c][j] # Absent => pending[c][j] # Absent /\ (c # b \/ j # i)
        /\ running'[c][j] # Absent => running[c][j] # Absent /\ (c # b \/ j # i)
        /\ period'[c][j] # Absent => period[c][j] # Absent /\ (c # b \/ j # i)
      BY DEF Delete, StoreTypeOK
<1>3. bucketOf' = [bucketOf EXCEPT ![i] = NoBucket] BY DEF Delete
<1>4. QED BY <1>1, <1>2, <1>3 DEF Present

LEMMA Send2PendingPlaces ==
  ASSUME StoreTypeOK, NEW b \in Buckets, NEW i \in Ids, NEW score,
         Send2Pending(b, i, score)
  PROVE  \/ UNCHANGED store
         \/ /\ \A c \in Buckets, j \in Ids :
                 Present(c, j)' => Present(c, j) \/ (c = b /\ j = i)
            /\ bucketOf' = [bucketOf EXCEPT ![i] = b]
<1> SUFFICES ASSUME ~DeliveryRefused(b, i)
             PROVE  /\ \A c \in Buckets, j \in Ids :
                         Present(c, j)' => Present(c, j) \/ (c = b /\ j = i)
                    /\ bucketOf' = [bucketOf EXCEPT ![i] = b]
    BY DEF Send2Pending
<1>1. /\ pending' = [pending EXCEPT ![b][i] = score]
      /\ bucketOf' = [bucketOf EXCEPT ![i] = b]
      /\ UNCHANGED << ready, running >>
      /\ period' = [period EXCEPT ![b][i] = score] \/ UNCHANGED period
      BY DEF Send2Pending
<1>2. \A c \in Buckets, j \in Ids :
        /\ pending'[c][j] # Absent => pending[c][j] # Absent \/ (c = b /\ j = i)
        /\ period'[c][j] # Absent => period[c][j] # Absent \/ (c = b /\ j = i)
      BY <1>1 DEF StoreTypeOK
<1>3. QED BY <1>1, <1>2 DEF Present, Queued

-----------------------------------------------------------------------------
(* The cron entry of a periodic job, whoever sends the scripts.            *)

\* Any of the scripts, with arguments of the right kind: one that moves jobs, or
\* the one that delivers them.
Move ==
  \E b \in Buckets :
    \/ Pending2Ready(b) \/ Ready2RunningDrop(b) \/ Running2Ready(b)
    \/ \E i \in Ids :
         \/ Ready2Running(b, i) \/ Terminate(b, i) \/ Delete(b, i)
         \/ \E t \in Nat, next \in Nat : Running2Pending(b, i, t, next)
         \/ \E st \in Terminal : Running2Finish(b, i, st)

Script == Move \/ \E b \in Buckets, i \in Ids, t \in Nat : Send2Pending(b, i, t)

\* A bucket that has a periodic job anywhere has its cron entry, and a job that
\* waits there waits for the instant of the entry.
CronEntry(b, i) ==
  /\ Present(b, i) => period[b][i] # Absent
  /\ pending[b][i] # Absent => pending[b][i] = period[b][i]

CronInv == \A b \in Buckets, i \in Periodic : CronEntry(b, i)

\* What PeriodicNeverLost asks of one bucket.
CronKept(b, i) ==
  \/ i \in terminate[b]
  \/ /\ period[b][i] # Absent
     /\ pending[b][i] # Absent \/ period[b][i] <= now

CronStep == /\ CronInv'
            /\ \A b \in Buckets, i \in Periodic : CronKept(b, i) => CronKept(b, i)'

\* A step that leaves the entries alone and takes out of pending only what is
\* stopped or due.
LEMMA CronSteady ==
  ASSUME CronInv, NoneNew, UNCHANGED << now, period >>,
         \A b \in Buckets, i \in Periodic :
           /\ pending'[b][i] \in {pending[b][i], Absent}
           /\ i \in terminate[b] => i \in terminate'[b]
           /\ pending'[b][i] # pending[b][i] =>
                i \in terminate'[b] \/ pending[b][i] <= now
  PROVE  CronStep
<1>0. Periodic \subseteq Ids BY JobsAssumption
<1>1. ASSUME NEW b \in Buckets, NEW i \in Periodic
      PROVE  CronEntry(b, i)' /\ (CronKept(b, i) => CronKept(b, i)')
  <2>1. CronEntry(b, i) BY DEF CronInv
  <2>2. CronEntry(b, i)' BY <1>0, <2>1 DEF CronEntry, NoneNew
  <2>3. CronKept(b, i) => CronKept(b, i)' BY <2>1 DEF CronKept, CronEntry
  <2>4. QED BY <2>2, <2>3
<1>2. QED BY <1>1 DEF CronStep, CronInv

LEMMA CronSame == ASSUME CronInv, UNCHANGED << store, now >> PROVE CronStep
BY DEF store, CronStep, CronInv, CronEntry, CronKept, Present, Queued

LEMMA CronSend2Pending ==
  ASSUME StoreTypeOK, CronInv, NEW b \in Buckets, NEW i \in Ids, NEW t \in Nat,
         Send2Pending(b, i, t), UNCHANGED now
  PROVE  CronStep
<1>1. CASE UNCHANGED store BY <1>1, CronSame
<1>2. CASE ~DeliveryRefused(b, i)
  <2>1. /\ pending' = [pending EXCEPT ![b][i] = t]
        /\ terminate' = [terminate EXCEPT ![b] = @ \ {i}]
        /\ i \in Periodic => period' = [period EXCEPT ![b][i] = t]
        /\ i \notin Periodic => UNCHANGED period
        /\ UNCHANGED << ready, running >>
        BY <1>2 DEF Send2Pending
  <2>2. ASSUME NEW c \in Buckets, NEW j \in Periodic
        PROVE  CronEntry(c, j)' /\ (CronKept(c, j) => CronKept(c, j)')
    <3>1. j \in Ids /\ CronEntry(c, j) BY JobsAssumption DEF CronInv
    <3>2. CASE c = b /\ j = i
      <4>1. pending'[c][j] = t /\ period'[c][j] = t
            BY <2>1, <3>1, <3>2 DEF StoreTypeOK
      <4>2. t # Absent BY DEF Absent
      <4>3. QED BY <4>1, <4>2 DEF CronEntry, CronKept
    <3>3. CASE c # b \/ j # i
      <4>1. period'[c][j] = period[c][j]
            BY <2>1, <3>1, <3>3 DEF StoreTypeOK
      <4>2. /\ pending'[c][j] = pending[c][j]
            /\ j \in terminate'[c] <=> j \in terminate[c]
            BY <2>1, <3>1, <3>3 DEF StoreTypeOK
      <4>3. Present(c, j)' <=> Present(c, j)
            BY <2>1, <4>1, <4>2 DEF Present, Queued
      <4>4. QED BY <3>1, <4>1, <4>2, <4>3 DEF CronEntry, CronKept
    <3>4. QED BY <3>2, <3>3
  <2>3. QED BY <2>2 DEF CronStep, CronInv
<1>3. QED BY <1>1, <1>2 DEF Send2Pending

LEMMA CronRunning2Pending ==
  ASSUME StoreTypeOK, CronInv, NEW b \in Buckets, NEW i \in Ids, NEW t,
         NEW next \in Nat, Running2Pending(b, i, t, next), UNCHANGED now
  PROVE  CronStep
<1>1. CASE UNCHANGED store BY <1>1, CronSame
<1>2. CASE FiringDue(b, i, t)
  <2>1. /\ period' = [period EXCEPT ![b][i] = next]
        /\ pending' = [pending EXCEPT ![b][i] = next]
        /\ UNCHANGED << ready, running, terminate >>
        BY <1>2 DEF Running2Pending
  <2>2. ASSUME NEW c \in Buckets, NEW j \in Periodic
        PROVE  CronEntry(c, j)' /\ (CronKept(c, j) => CronKept(c, j)')
    <3>1. j \in Ids /\ CronEntry(c, j) BY JobsAssumption DEF CronInv
    <3>2. CASE c = b /\ j = i
      <4>1. pending'[c][j] = next /\ period'[c][j] = next
            BY <2>1, <3>1, <3>2 DEF StoreTypeOK
      <4>2. next # Absent BY DEF Absent
      <4>3. QED BY <4>1, <4>2 DEF CronEntry, CronKept
    <3>3. CASE c # b \/ j # i
      <4>1. period'[c][j] = period[c][j] /\ pending'[c][j] = pending[c][j]
            BY <2>1, <3>1, <3>3 DEF StoreTypeOK
      <4>2. Present(c, j)' <=> Present(c, j)
            BY <2>1, <4>1 DEF Present, Queued
      <4>3. QED BY <2>1, <3>1, <4>1, <4>2 DEF CronEntry, CronKept
    <3>4. QED BY <3>2, <3>3
  <2>3. QED BY <2>2 DEF CronStep, CronInv
<1>3. QED BY <1>1, <1>2 DEF Running2Pending

LEMMA CronDelete ==
  ASSUME StoreTypeOK, CronInv, NEW b \in Buckets, NEW i \in Ids, Delete(b, i),
         UNCHANGED now
  PROVE  CronStep
<1>1. \A c \in Buckets, j \in Ids :
        Present(c, j)' => Present(c, j) /\ (c # b \/ j # i)
      BY DeletePlaces
<1>2. ASSUME NEW c \in Buckets, NEW j \in Periodic
      PROVE  CronEntry(c, j)' /\ (CronKept(c, j) => CronKept(c, j)')
  <2>1. j \in Ids /\ CronEntry(c, j) BY JobsAssumption DEF CronInv
  <2>2. CASE c = b /\ j = i
    <3>1. j \in terminate'[c] /\ pending'[c][j] = Absent
          BY <2>1, <2>2 DEF Delete, StoreTypeOK
    <3>2. QED BY <1>1, <2>1, <2>2, <3>1 DEF CronEntry, CronKept
  <2>3. CASE c # b \/ j # i
    <3>1. /\ period'[c][j] = period[c][j] /\ pending'[c][j] = pending[c][j]
          /\ j \in terminate'[c] <=> j \in terminate[c]
          BY <2>1, <2>3 DEF Delete, StoreTypeOK
    <3>2. QED BY <1>1, <2>1, <3>1 DEF CronEntry, CronKept
  <2>4. QED BY <2>2, <2>3
<1>3. QED BY <1>2 DEF CronStep, CronInv

\* Whatever script runs, every bucket keeps the cron entries it must keep.
LEMMA CronScript ==
  ASSUME StoreTypeOK, CronInv, Script, UNCHANGED now
  PROVE  CronStep
<1>0. Periodic \subseteq Ids BY JobsAssumption
<1>1. ASSUME NEW b \in Buckets, Pending2Ready(b) PROVE CronStep
  <2>1. NoneNew BY <1>1, Pending2ReadyPlaces
  <2>2. UNCHANGED << period, terminate >> BY <1>1 DEF Pending2Ready
  <2>3. \A c \in Buckets, j \in Periodic :
          /\ pending'[c][j] \in {pending[c][j], Absent}
          /\ pending'[c][j] # pending[c][j] => pending[c][j] <= now
        BY <1>0, <1>1 DEF Pending2Ready, Removed, Moved, Due, StoreTypeOK
  <2>4. QED BY <2>1, <2>2, <2>3, CronSteady
<1>2. ASSUME NEW b \in Buckets,
             Ready2RunningDrop(b) \/ \E i \in Ids : Ready2Running(b, i)
      PROVE  CronStep
  <2>1. NoneNew BY <1>2, Ready2RunningPlaces
  <2>2. UNCHANGED << pending, period, terminate >>
        BY <1>2 DEF Ready2RunningDrop, Ready2Running
  <2>3. QED BY <2>1, <2>2, CronSteady
<1>3. ASSUME NEW b \in Buckets, Running2Ready(b) PROVE CronStep
  <2>1. NoneNew BY <1>3, Running2ReadyPlaces
  <2>2. UNCHANGED << pending, period, terminate >> BY <1>3 DEF Running2Ready
  <2>3. QED BY <2>1, <2>2, CronSteady
<1>4. ASSUME NEW b \in Buckets, NEW i \in Ids, Terminate(b, i) PROVE CronStep
  <2>1. NoneNew BY <1>4, TerminatePlaces
  <2>2. UNCHANGED period BY <1>4 DEF Terminate
  <2>3. \A c \in Buckets, j \in Periodic :
          /\ pending'[c][j] \in {pending[c][j], Absent}
          /\ j \in terminate[c] => j \in terminate'[c]
          /\ pending'[c][j] # pending[c][j] => j \in terminate'[c]
        BY <1>0, <1>4 DEF Terminate, StoreTypeOK
  <2>4. QED BY <2>1, <2>2, <2>3, CronSteady
<1>5. ASSUME NEW b \in Buckets, NEW i \in Ids, NEW st, Running2Finish(b, i, st)
      PROVE  CronStep
  <2>1. NoneNew BY <1>5, Running2FinishPlaces
  <2>2. UNCHANGED << pending, period, terminate >> BY <1>5 DEF Running2Finish
  <2>3. QED BY <2>1, <2>2, CronSteady
<1>6. QED BY <1>1, <1>2, <1>3, <1>4, <1>5, CronSend2Pending, CronRunning2Pending,
             CronDelete DEF Script, Move
=============================================================================
