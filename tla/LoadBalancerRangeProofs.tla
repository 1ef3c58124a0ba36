------------------------ MODULE LoadBalancerRangeProofs ------------------------
(***************************************************************************)
(* The proof that the loads make_plan(dc) computes stay, over the whole    *)
(* loop, between the least and the most loaded node of the snapshot.  It   *)
(* chains the one-step fact NextInRange of LoadBalancerPlanProofs: each    *)
(* step keeps a node's load between two loads of the step before, and     *)
(* those lie in the snapshot's range by induction, so the order on         *)
(* avg_loads must be transitive.                                           *)
(***************************************************************************)
EXTENDS LoadBalancerPlanProofs

\* Only Prepare chooses a target: before it the target is still NoHost.
PrepareHasNoTarget == pc = "prepare" => target = NoHost

RInv == PrepareHasNoTarget /\ LoadsWithinSnapshotRange

\* The snapshot's avg_load of node g, as lines 165-178 compute it.
SnapLoad(g) == <<NodeTabletCount[g], shardCount[g]>>

\* "not less than" on avg_loads with non-zero shard counts is transitive:
\* x <= y and y <= z give x <= z.
LEMMA LoadLeqTrans ==
    ASSUME NEW x \in Nat \X Nat, NEW y \in Nat \X (Nat \ {0}), NEW z \in Nat \X Nat,
           x[2] # 0 \/ z[2] # 0,
           ~LessLoad(y, x), ~LessLoad(z, y)
    PROVE  ~LessLoad(z, x)
<1>1. x[1] * y[2] <= y[1] * x[2] /\ y[1] * z[2] <= z[1] * y[2]
  BY DEF LessLoad
<1>2. (x[1] * z[2]) * y[2] <= (y[1] * x[2]) * z[2]
  BY <1>1
<1>3. (y[1] * z[2]) * x[2] <= (z[1] * y[2]) * x[2]
  BY <1>1
<1>4. (x[1] * z[2]) * y[2] <= (z[1] * x[2]) * y[2]
  BY <1>2, <1>3
<1>5. x[1] * z[2] <= z[1] * x[2]
  BY <1>4
<1>. QED
  BY <1>5 DEF LessLoad

LEMMA InitRInv == Init => RInv
BY DEF Init, RInv, PrepareHasNoTarget, LoadsWithinSnapshotRange

\* A step that changes no load, no snapshot and no target, and keeps pc in
\* the loop or moves it from the loop to "done".
LEMMA QuietRInv ==
    ASSUME RInv, UNCHANGED <<snapshot, load, target>>,
           pc \in {"loop", "done"}, pc' \in {"loop", "done"}
    PROVE  RInv'
<1>1. /\ NodeTabletCount' = NodeTabletCount /\ shardCount' = shardCount
      /\ \A h \in Host : AvgLoad(h)' = AvgLoad(h)
  BY DEF AvgLoad, NodeTabletCount, HostTablets, HostsOf, snapshot
<1>2. PrepareHasNoTarget'
  BY DEF PrepareHasNoTarget
<1>3. LoadsWithinSnapshotRange'
  <2>1. \A h \in DcNodes : AvgLoad(h)' = AvgLoad(h)
    BY <1>1, ConstantsAssumption DEF DcNodes
  <2>. QED
    BY <1>1, <2>1 DEF RInv, LoadsWithinSnapshotRange
<1>. QED
  BY <1>2, <1>3 DEF RInv

LEMMA StutterRInv ==
    ASSUME RInv, UNCHANGED vars
    PROVE  RInv'
<1>1. /\ UNCHANGED <<pc, target, NodeTabletCount, shardCount>>
      /\ \A h \in Host : AvgLoad(h)' = AvgLoad(h)
  BY DEF vars, planner, AvgLoad, NodeTabletCount, HostTablets, HostsOf, snapshot
<1>2. \A h \in DcNodes : AvgLoad(h)' = AvgLoad(h)
  BY <1>1, ConstantsAssumption DEF DcNodes
<1>. QED
  BY <1>1, <1>2 DEF RInv, PrepareHasNoTarget, LoadsWithinSnapshotRange

LEMMA PrepareRInv == IInv /\ Prepare => RInv'
<1> SUFFICES ASSUME IInv, Prepare PROVE RInv'
  OBVIOUS
<1>1. pc' = "loop" /\ load' = NodeTabletCount /\ UNCHANGED snapshot
  BY DEF Prepare
<1> SUFFICES ASSUME NEW h \in DcNodes
             PROVE  /\ ~LessLoad(SnapLoad(h), AvgLoad(h)')
                    /\ ~LessLoad(AvgLoad(h)', SnapLoad(h))
  BY <1>1 DEF RInv, PrepareHasNoTarget, LoadsWithinSnapshotRange, SnapLoad,
              NodeTabletCount, HostTablets, HostsOf, snapshot
<1>2. h \in Host
  BY ConstantsAssumption DEF DcNodes
<1>3. NodeTabletCount[h] = Cardinality(HostTablets(h)) /\ shardCount[h] \in Nat
  BY <1>2, TypeFacts DEF IInv, NodeTabletCount
<1>4. Cardinality(HostTablets(h)) \in Nat
  BY TabletSetCard DEF HostTablets
<1>5. AvgLoad(h)' = SnapLoad(h)
  BY <1>1, <1>2 DEF AvgLoad, SnapLoad, snapshot
<1>. QED
  BY <1>3, <1>4, <1>5 DEF LessLoad, SnapLoad

\* The types the chaining needs: in the loop, the loads of the DC's nodes
\* are fractions with non-zero shard counts, before and after a step.
LEMMA LoopLoadTypes ==
    ASSUME IInv, TypeOK', pc = "loop", UNCHANGED shardCount,
           NEW h \in DcNodes
    PROVE  /\ AvgLoad(h) \in Nat \X (Nat \ {0})
           /\ AvgLoad(h)' \in Nat \X (Nat \ {0})
           /\ SnapLoad(h) \in Nat \X (Nat \ {0})
<1>1. h \in Host
  BY ConstantsAssumption DEF DcNodes
<1>2. shardCount[h] \in Nat \ {0}
  BY <1>1, TypeFacts DEF IInv, LoopOverDcNodes
<1>3. load[h] \in Nat /\ load'[h] \in Nat
  BY <1>1, TypeFacts DEF IInv, TypeOK
<1>4. NodeTabletCount[h] \in Nat
  BY <1>1, TabletSetCard DEF NodeTabletCount, HostTablets
<1>. QED
  BY <1>2, <1>3, <1>4 DEF AvgLoad, SnapLoad

\* A step of the loop that keeps every node's load between two loads of the
\* state before it (LoadStepInRange) keeps it in the snapshot's range.
LEMMA LoopStepRInv ==
    ASSUME IInv, RInv, TypeOK', LoadStepInRange,
           pc = "loop", pc' \in {"loop", "done"}, UNCHANGED <<snapshot, target>>
    PROVE  RInv'
<1>1. target \in Host
  BY ConstantsAssumption DEF IInv, LoopOverDcNodes, DcNodes
<1>2. UNCHANGED <<shardCount, NodeTabletCount>>
  BY DEF snapshot, NodeTabletCount, HostTablets, HostsOf
<1>3. PrepareHasNoTarget'
  BY DEF PrepareHasNoTarget
<1> SUFFICES ASSUME NEW h \in DcNodes
             PROVE  /\ \E g \in DcNodes : ~LessLoad(SnapLoad(g), AvgLoad(h)')
                    /\ \E g \in DcNodes : ~LessLoad(AvgLoad(h)', SnapLoad(g))
  BY <1>1, <1>2, <1>3 DEF RInv, LoadsWithinSnapshotRange, SnapLoad
<1>4. \A g \in DcNodes :
          /\ \E a \in DcNodes : ~LessLoad(SnapLoad(a), AvgLoad(g))
          /\ \E a \in DcNodes : ~LessLoad(AvgLoad(g), SnapLoad(a))
  BY <1>1 DEF RInv, LoadsWithinSnapshotRange, SnapLoad
<1>5. \E g \in DcNodes : ~LessLoad(SnapLoad(g), AvgLoad(h)')
  <2>1. PICK g1 \in DcNodes : ~LessLoad(AvgLoad(g1), AvgLoad(h)')
    BY DEF LoadStepInRange
  <2>2. PICK a \in DcNodes : ~LessLoad(SnapLoad(a), AvgLoad(g1))
    BY <1>4
  <2>3. ~LessLoad(SnapLoad(a), AvgLoad(h)')
    BY <1>2, <2>1, <2>2, LoopLoadTypes, LoadLeqTrans
  <2>. QED
    BY <2>3
<1>6. \E g \in DcNodes : ~LessLoad(AvgLoad(h)', SnapLoad(g))
  <2>1. PICK g2 \in DcNodes : ~LessLoad(AvgLoad(h)', AvgLoad(g2))
    BY DEF LoadStepInRange
  <2>2. PICK b \in DcNodes : ~LessLoad(AvgLoad(g2), SnapLoad(b))
    BY <1>4
  <2>3. ~LessLoad(AvgLoad(h)', SnapLoad(b))
    BY <1>2, <2>1, <2>2, LoopLoadTypes, LoadLeqTrans
  <2>. QED
    BY <2>3
<1>. QED
  BY <1>5, <1>6

LEMMA NextRInv == IInv /\ RInv /\ [Next]_vars => RInv'
<1> SUFFICES ASSUME IInv, RInv, [Next]_vars PROVE RInv'
  OBVIOUS
<1>1. TypeOK' /\ [LoadStepInRange]_vars
  BY NextIInv, NextInRange DEF IInv
<1>0. CASE UNCHANGED vars
  BY <1>0, StutterRInv
\* The calls that return before a target is chosen leave it NoHost.
<1>2. CASE Reject \/ ReturnEmpty
  <2>1. pc = "prepare" /\ pc' \in {"error", "done"} /\ UNCHANGED target
    BY <1>2 DEF Reject, ReturnEmpty, planner
  <2>2. target' \notin Host
    BY <2>1, ConstantsAssumption DEF RInv, PrepareHasNoTarget
  <2>. QED
    BY <2>1, <2>2 DEF RInv, PrepareHasNoTarget, LoadsWithinSnapshotRange
<1>3. CASE Prepare
  BY <1>3, PrepareRInv
\* Every other action is a step of the loop: it starts in the loop, ends in
\* the loop or in "done", and changes neither the snapshot nor the target.
<1>4. ASSUME pc = "loop", pc' \in {"loop", "done"}, UNCHANGED <<snapshot, target>>
      PROVE  RInv'
  <2>1. CASE LoadStepInRange
    BY <1>1, <1>4, <2>1, LoopStepRInv
  <2>. QED
    BY <1>0, <1>1, <2>1
<1>5. CASE Finish
  BY <1>4, <1>5 DEF Finish, planner
<1>6. ASSUME NEW src \in Host, StopLoop(src) PROVE RInv'
  BY <1>4, <1>6 DEF StopLoop, StopLoopFrom, LoopRuns, planner
<1>7. ASSUME NEW src \in Host, DropNode(src) PROVE RInv'
  BY <1>4, <1>7 DEF DropNode, DropNodeFrom, LoopRuns
<1>8. ASSUME NEW src \in Host, NEW s \in Shard, DropShard(src, s) PROVE RInv'
  BY <1>4, <1>8 DEF DropShard, DropShardFrom, LoopRuns
<1>9. ASSUME NEW src \in Host, NEW s \in Shard, NEW t \in Tablet,
             SkipCandidate(src, s, t)
      PROVE  RInv'
  BY <1>4, <1>9 DEF SkipCandidate, SkipCandidateFrom, LoopRuns
<1>10. ASSUME NEW src \in Host, NEW s \in Shard, NEW t \in Tablet,
              Migrate(src, s, t)
       PROVE  RInv'
  BY <1>4, <1>10 DEF Migrate, MigrateFrom, LoopRuns
<1>. QED
  BY <1>0, <1>2, <1>3, <1>5, <1>6, <1>7, <1>8, <1>9, <1>10 DEF Next

\* However many migrations the batch of make_plan(dc) holds, every node's
\* tablet_count during the loop and in the returned plan lies between the
\* avg_loads of the least and the most loaded node of the snapshot: the
\* inversion guard of lines 316-322, step after step, never pushes a node
\* out of the range the snapshot had.
THEOREM LoadsWithinSnapshotRangeHolds == Spec => []LoadsWithinSnapshotRange
<1>1. Init => IInv /\ RInv
  BY InitIInv, InitRInv
<1>2. IInv /\ RInv /\ [Next]_vars => IInv' /\ RInv'
  BY NextIInv, NextRInv
<1>3. RInv => LoadsWithinSnapshotRange
  BY DEF RInv
<1>. QED
  BY <1>1, <1>2, <1>3, PTL DEF Spec
==============================================================================
