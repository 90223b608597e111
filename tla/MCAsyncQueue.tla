---------------------------- MODULE MCAsyncQueue ----------------------------
(* Instances of AsyncQueue for TLC.                                        *)
EXTENDS AsyncQueue, TLC

CONSTANTS j1, j2

NoPeriodic == {}
OnlyJ1     == {j1}
AllIds     == Ids
AllTtl1    == [i \in Ids |-> 1]
AllTtl2    == [i \in Ids |-> 2]
Retry1     == [i \in Ids |-> 1]
Retry2     == [i \in Ids |-> 2]
Retry1or0  == [i \in Ids |-> IF i = j1 THEN 1 ELSE 0]
Instants   == {1, 3, 4, 6}
Cron       == [t \in 0..MaxTime |-> CHOOSE x \in Instants :
                 x > t /\ \A y \in Instants : y > t => x <= y]
EverySecond == [t \in 0..MaxTime |-> t + 1]
Symmetry   == Permutations(Slots) \cup Permutations(Nodes) \cup Permutations(Buckets)
=============================================================================
