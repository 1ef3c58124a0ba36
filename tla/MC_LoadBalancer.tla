--------------------------- MODULE MC_LoadBalancer ---------------------------
(* Instances of LoadBalancer for TLC.                                      *)
EXTENDS LoadBalancer, TLC

CONSTANTS h1, h2, h3, h4, t1, t2, t3, t4, tb1, tb2, d1, d2, r1, r2

\* One table holding every tablet.
MCTableOfOne == [t \in Tablet |-> tb1]

\* Tablet t1 in its own table, the others in a second one.
MCTableOfTwo == [t \in Tablet |-> IF t = t1 THEN tb1 ELSE tb2]

\* All hosts in DC d1.
MCDcOfOne == [h \in Host |-> d1]

\* h4 lives in another DC.
MCDcOfTwo == [h \in Host |-> IF h = h4 THEN d2 ELSE d1]

\* A single rack.
MCRackOfOne == [h \in Host |-> r1]

\* h1 alone in rack r1, the others in r2.
MCRackOfTwo == [h \in Host |-> IF h = h1 THEN r1 ELSE r2]

\* Every table has replication factor 2.
MCRFTwo == [tb \in Table |-> 2]

\* Table tb1 (tablet t1) has replication factor 1, table tb2 has 2.
MCRFMixed == [tb \in Table |-> IF tb = tb1 THEN 1 ELSE 2]

MCHostSymmetry == Permutations(Host)
MCTabletSymmetry == Permutations(Tablet)
MCSymmetry == Permutations(Host) \cup Permutations(Tablet)
=============================================================================
