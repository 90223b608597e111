----------------------------- MODULE MCDelivery -----------------------------
(* Instances of Delivery for TLC.                                          *)
EXTENDS Delivery, TLC

CONSTANTS j1, j2

TwoBuckets == {0, 1}
OnlyJ2     == {j2}
Ttl2       == [i \in Ids |-> 2]
Retry0     == [i \in Ids |-> 0]
Instants   == {2, 5, 6, 9, 12}
Cron       == [t \in 0..MaxTime |-> CHOOSE x \in Instants :
                 x > t /\ \A y \in Instants : y > t => x <= y]
Symmetry   == Permutations(Clients)
=============================================================================
