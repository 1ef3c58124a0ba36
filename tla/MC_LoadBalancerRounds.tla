------------------------ MODULE MC_LoadBalancerRounds ------------------------
(* Instances of LoadBalancerRounds for TLC.                                *)
EXTENDS LoadBalancerRounds, TLC

CONSTANTS h1, h2, h3, t1, t2, t3, t4, tb1, d1, r1

\* One table holding every tablet.
MCTableOfOne == [t \in Tablet |-> tb1]

\* All hosts in DC d1 and rack r1.
MCDcOfOne == [h \in Host |-> d1]

MCRackOfOne == [h \in Host |-> r1]

\* Every table has replication factor 1.
MCRFOne == [tb \in Table |-> 1]

MCSymmetry == Permutations(Host) \cup Permutations(Tablet)
=============================================================================
