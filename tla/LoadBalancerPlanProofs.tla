------------------------ MODULE LoadBalancerPlanProofs ------------------------
(***************************************************************************)
(* Proof that every migration make_plan(dc) emits moves a replica the      *)
(* snapshot has, from a node of the DC other than the target, to the       *)
(* target, which holds no replica of the tablet, and that no (tablet,      *)
(* source replica) pair is chosen twice (PlanMovesSnapshotReplicas), for   *)
(* every value of the constants allowed by ConstantsAssumption.            *)
(***************************************************************************)
EXTENDS LoadBalancerProofs

(***************************************************************************)
(* PlanMovesSnapshotReplicas is not inductive: a Migrate step appends a    *)
(* migration of a candidate, and what it says of that migration rests on   *)
(* what the candidate sets are.  The strengthening records it.             *)
(***************************************************************************)

\* Candidates of a shard are tablets with a replica on that shard in the
\* snapshot (lines 239-252); the loop only removes from them (349).
CandidatesOnShard ==
    \A h \in Host, s \in Shard : candidates[h][s] \subseteq ShardTablets(h, s)

\* Nothing is planned before the loop starts (the plan is empty at line 147).
PlanOnlyInLoop == pc = "prepare" => plan = <<>>

\* A tablet chosen from a shard is no longer among its candidates (the
\* erase of line 349 precedes every emit of line 389).
ChosenNotCandidate ==
    \A i \in DOMAIN plan :
        plan[i].tablet \notin candidates[plan[i].src[1]][plan[i].src[2]]

PInv == CandidatesOnShard /\ PlanOnlyInLoop /\ ChosenNotCandidate
        /\ PlanMovesSnapshotReplicas

\* The erase of one candidate (line 349) changes one shard's set only.
LEMMA EraseCandidate ==
    ASSUME TypeOK, NEW src \in Host, NEW s \in Shard, NEW t,
           candidates' = [candidates EXCEPT ![src][s] = @ \ {t}]
    PROVE  \A h \in Host, q \in Shard :
               candidates'[h][q] = IF <<h, q>> = <<src, s>>
                                   THEN candidates[h][q] \ {t}
                                   ELSE candidates[h][q]
BY DEF TypeOK

\* The plan's entries are replicas <<host, shard>>.
LEMMA PlanEntries ==
    ASSUME TypeOK, NEW i \in DOMAIN plan
    PROVE  /\ plan[i].src[1] \in Host /\ plan[i].src[2] \in Shard
           /\ plan[i].tablet \in Tablet
<1>1. plan[i] \in Migration
  BY DEF TypeOK
<1>2. plan[i].src \in Host \X Shard /\ plan[i].tablet \in Tablet
  BY <1>1 DEF Migration, Replica
<1>. QED
  BY <1>2

LEMMA InitPInv == Init => PInv
BY DEF Init, PInv, CandidatesOnShard, PlanOnlyInLoop, ChosenNotCandidate,
       PlanMovesSnapshotReplicas

\* Steps that change nothing but pc, to "done" or "error".
LEMMA PcOnlyPInv ==
    ASSUME PInv, pc' \in {"done", "error"}, UNCHANGED <<snapshot, planner>>
    PROVE  PInv'
BY DEF PInv, CandidatesOnShard, PlanOnlyInLoop, ChosenNotCandidate,
       PlanMovesSnapshotReplicas, snapshot, planner, ShardTablets, HostsOf

\* Steps that change neither the candidates nor the plan, the target or
\* the snapshot, and keep pc at "loop".
LEMMA LoopBookPInv ==
    ASSUME PInv, pc = "loop",
           UNCHANGED <<snapshot, pc, candidates, target, plan>>
    PROVE  PInv'
BY DEF PInv, CandidatesOnShard, PlanOnlyInLoop, ChosenNotCandidate,
       PlanMovesSnapshotReplicas, snapshot, ShardTablets, HostsOf

LEMMA PreparePInv == IInv /\ PInv /\ Prepare => PInv'
<1> SUFFICES ASSUME IInv, PInv, Prepare PROVE PInv'
  OBVIOUS
<1>1. plan' = <<>>
  BY DEF Prepare, PInv, PlanOnlyInLoop
<1>2. CandidatesOnShard'
  BY DEF Prepare, CandidatesOnShard, ShardTablets, snapshot
<1>3. ChosenNotCandidate' /\ PlanMovesSnapshotReplicas'
  BY <1>1 DEF ChosenNotCandidate, PlanMovesSnapshotReplicas
<1>4. PlanOnlyInLoop'
  BY DEF Prepare, PlanOnlyInLoop
<1>. QED
  BY <1>2, <1>3, <1>4 DEF PInv

LEMMA SkipCandidatePInv ==
    ASSUME IInv, PInv, NEW src \in Host, NEW s \in Shard, NEW t \in Tablet,
           SkipCandidate(src, s, t)
    PROVE  PInv'
<1>1. TypeOK
  BY DEF IInv
<1>2. \A h \in Host, q \in Shard : candidates'[h][q] \subseteq candidates[h][q]
  <2>1. candidates' = [candidates EXCEPT ![src][s] = @ \ {t}]
    BY DEF SkipCandidate, SkipCandidateFrom
  <2>. QED
    BY <1>1, <2>1, EraseCandidate
<1>3. UNCHANGED <<snapshot, pc, target, plan>> /\ pc = "loop"
  BY DEF SkipCandidate, SkipCandidateFrom, LoopRuns
<1>4. CandidatesOnShard'
  BY <1>2, <1>3 DEF PInv, CandidatesOnShard, ShardTablets, snapshot
<1>5. ChosenNotCandidate'
  BY <1>1, <1>2, <1>3, PlanEntries DEF PInv, ChosenNotCandidate
<1>6. PlanOnlyInLoop' /\ PlanMovesSnapshotReplicas'
  BY <1>3 DEF PInv, PlanOnlyInLoop, PlanMovesSnapshotReplicas, snapshot, HostsOf
<1>. QED
  BY <1>4, <1>5, <1>6 DEF PInv

\* The node a step takes a tablet from is a node of the DC other than the
\* target: the breaks of lines 302-314 stop the loop when the popped node
\* is the target.
LEMMA SourceIsNotTarget ==
    ASSUME IInv, NEW src \in Host, src \in nodesByLoad, pc = "loop",
           ~NotAboveTarget(src)
    PROVE  src \in DcNodes \ {target}
<1>1. src \in DcNodes /\ target \in DcNodes
  BY DEF IInv, LoopOverDcNodes
<1>2. load[target] \in Nat /\ shardCount[target] \in Nat
  <2>1. target \in Host
    BY <1>1, ConstantsAssumption DEF DcNodes
  <2>. QED
    BY <2>1, TypeFacts DEF IInv
<1>3. src # target
  BY <1>2 DEF NotAboveTarget, LessLoad, AvgLoad
<1>. QED
  BY <1>1, <1>3

LEMMA MigratePInv ==
    ASSUME IInv, PInv, NEW src \in Host, NEW s \in Shard, NEW t \in Tablet,
           Migrate(src, s, t)
    PROVE  PInv'
<1>1. TypeOK
  BY DEF IInv
<1>2. /\ src \in nodesByLoad /\ pc = "loop" /\ ~NotAboveTarget(src)
      /\ t \in candidates[src][s] /\ ~HasReplicaOnTarget(t)
      /\ candidates' = [candidates EXCEPT ![src][s] = @ \ {t}]
      /\ UNCHANGED <<snapshot, pc, target>>
  BY DEF Migrate, MigrateFrom, MostLoadedNodes, LoopRuns, MayMoveFrom, snapshot
<1>5. \A h \in Host, q \in Shard :
          candidates'[h][q] = IF <<h, q>> = <<src, s>>
                              THEN candidates[h][q] \ {t}
                              ELSE candidates[h][q]
  <2>1. candidates' = [candidates EXCEPT ![src][s] = @ \ {t}]
    BY <1>2
  <2>2. candidates \in [Host -> [Shard -> SUBSET Tablet]]
    BY <1>1, TypeFacts
  <2>. QED
    BY <2>1, <2>2
<1>3. PICK d \in NextShards :
          plan' = Append(plan, [tablet |-> t, src |-> <<src, s>>,
                                dst |-> <<target, d>>])
  BY DEF Migrate, MigrateFrom
<1>4. src \in DcNodes \ {target}
  BY <1>2, SourceIsNotTarget
<1>6. /\ plan \in Seq(Migration)
      /\ DOMAIN plan' = 1..(Len(plan) + 1)
      /\ \A i \in DOMAIN plan : plan'[i] = plan[i]
      /\ plan'[Len(plan) + 1] = [tablet |-> t, src |-> <<src, s>>, dst |-> <<target, d>>]
      /\ DOMAIN plan = 1..Len(plan)
      /\ Len(plan) \in Nat
  BY <1>1, <1>3 DEF TypeOK
<1>7. CandidatesOnShard'
  BY <1>2, <1>5 DEF PInv, CandidatesOnShard, ShardTablets, snapshot
<1>8. ChosenNotCandidate'
  <2> SUFFICES ASSUME NEW i \in DOMAIN plan'
               PROVE  plan'[i].tablet \notin candidates'[plan'[i].src[1]][plan'[i].src[2]]
    BY DEF ChosenNotCandidate
  <2>1. CASE i = Len(plan) + 1
    <3>1. plan'[i].src = <<src, s>> /\ plan'[i].tablet = t
      BY <2>1, <1>6
    <3>2. candidates'[src][s] = candidates[src][s] \ {t}
      BY <1>5
    <3>. QED
      BY <3>1, <3>2
  <2>2. CASE i # Len(plan) + 1
    <3>1. i \in DOMAIN plan /\ plan'[i] = plan[i]
      BY <2>2, <1>6
    <3>2. plan[i].src[1] \in Host /\ plan[i].src[2] \in Shard
      BY <3>1, <1>1, PlanEntries
    <3>3. plan[i].tablet \notin candidates[plan[i].src[1]][plan[i].src[2]]
      BY <3>1 DEF PInv, ChosenNotCandidate
    <3>. QED
      BY <3>1, <3>2, <3>3, <1>5
  <2>. QED
    BY <2>1, <2>2
<1>9. PlanMovesSnapshotReplicas'
  <2> SUFFICES ASSUME NEW i \in DOMAIN plan'
               PROVE  /\ plan'[i].src \in replicas[plan'[i].tablet]
                      /\ plan'[i].src[1] \in DcNodes \ {target}
                      /\ plan'[i].dst[1] = target
                      /\ target \notin HostsOf(replicas[plan'[i].tablet])
                      /\ \A j \in DOMAIN plan' :
                            (i # j) => <<plan'[i].tablet, plan'[i].src>>
                                       # <<plan'[j].tablet, plan'[j].src>>
    BY <1>2 DEF PlanMovesSnapshotReplicas, snapshot
  \* The new migration differs from every earlier one: an earlier one of t
  \* from <<src, s>> would have removed t from that shard's candidates.
  <2>1. \A j \in DOMAIN plan : <<plan[j].tablet, plan[j].src>> # <<t, <<src, s>>>>
    BY <1>2 DEF PInv, ChosenNotCandidate
  <2>2. CASE i = Len(plan) + 1
    <3>1. <<src, s>> \in replicas[t]
      BY <1>2 DEF PInv, CandidatesOnShard, ShardTablets
    <3>2. target \notin HostsOf(replicas[t])
      BY <1>2 DEF HasReplicaOnTarget
    <3>. QED
      BY <2>1, <2>2, <1>4, <1>6, <3>1, <3>2
  <2>3. CASE i # Len(plan) + 1
    <3>1. i \in DOMAIN plan /\ plan'[i] = plan[i]
      BY <2>3, <1>6
    <3>2. /\ plan[i].src \in replicas[plan[i].tablet]
          /\ plan[i].src[1] \in DcNodes \ {target}
          /\ plan[i].dst[1] = target
          /\ target \notin HostsOf(replicas[plan[i].tablet])
          /\ \A j \in DOMAIN plan :
                (i # j) => <<plan[i].tablet, plan[i].src>> # <<plan[j].tablet, plan[j].src>>
      BY <3>1 DEF PInv, PlanMovesSnapshotReplicas
    <3>. QED
      BY <2>1, <1>6, <3>1, <3>2
  <2>. QED
    BY <2>2, <2>3
<1>10. PlanOnlyInLoop'
  BY <1>2 DEF PlanOnlyInLoop
<1>. QED
  BY <1>7, <1>8, <1>9, <1>10 DEF PInv

LEMMA NextPInv == IInv /\ PInv /\ [Next]_vars => PInv'
<1> SUFFICES ASSUME IInv, PInv, [Next]_vars PROVE PInv'
  OBVIOUS
<1>1. CASE Reject
  BY <1>1, PcOnlyPInv DEF Reject
<1>2. CASE ReturnEmpty
  BY <1>2, PcOnlyPInv DEF ReturnEmpty
<1>3. CASE Prepare
  BY <1>3, PreparePInv
<1>4. CASE Finish
  BY <1>4, PcOnlyPInv DEF Finish
<1>5. ASSUME NEW src \in Host, StopLoop(src)
      PROVE  PInv'
  BY <1>5, PcOnlyPInv DEF StopLoop, StopLoopFrom
<1>6. ASSUME NEW src \in Host, DropNode(src)
      PROVE  PInv'
  BY <1>6, LoopBookPInv DEF DropNode, DropNodeFrom, LoopRuns
<1>7. ASSUME NEW src \in Host, NEW s \in Shard, DropShard(src, s)
      PROVE  PInv'
  BY <1>7, LoopBookPInv DEF DropShard, DropShardFrom, LoopRuns
<1>8. ASSUME NEW src \in Host, NEW s \in Shard, NEW t \in Tablet,
             SkipCandidate(src, s, t)
      PROVE  PInv'
  BY <1>8, SkipCandidatePInv
<1>9. ASSUME NEW src \in Host, NEW s \in Shard, NEW t \in Tablet,
             Migrate(src, s, t)
      PROVE  PInv'
  BY <1>9, MigratePInv
<1>10. CASE UNCHANGED vars
  BY <1>10 DEF PInv, CandidatesOnShard, PlanOnlyInLoop, ChosenNotCandidate,
               PlanMovesSnapshotReplicas, vars, snapshot, planner, ShardTablets,
               HostsOf
<1>. QED
  BY <1>1, <1>2, <1>3, <1>4, <1>5, <1>6, <1>7, <1>8, <1>9, <1>10 DEF Next

\* Every migration in every plan make_plan(dc) builds moves a replica that
\* the snapshot has, from a node of the DC other than the target, to the
\* target, which holds no replica of that tablet; no (tablet, source) pair
\* is chosen twice.  The candidate sets (lines 239-252) and the
\* replica-on-target skip (lines 356-373) keep this over every iteration.
THEOREM PlanMovesSnapshotReplicasHolds == Spec => []PlanMovesSnapshotReplicas
<1>1. IInv /\ PInv => PlanMovesSnapshotReplicas
  BY DEF PInv
<1>2. IInv /\ PInv /\ [Next]_vars => IInv' /\ PInv'
  BY NextIInv, NextPInv
<1>. QED
  BY <1>1, <1>2, InitIInv, InitPInv, PTL DEF Spec
-----------------------------------------------------------------------------
(***************************************************************************)
(* BookkeepingMatchesPlan.  Its candidate conjuncts follow from PInv; its  *)
(* counter conjuncts are inductive once the plan's migrations are known to *)
(* leave a node of the DC other than the target and to go to the target.  *)
(***************************************************************************)

\* The counters of BookkeepingMatchesPlan (lines 165-178, 239-252, 391-400).
CountersMatchPlan ==
    pc = "loop" =>
        /\ \A h \in DcNodes :
              load[h] = Cardinality(HostTablets(h))
                        - Cardinality(MovesFrom(h)) + Cardinality(MovesTo(h))
        /\ \A h \in DcNodes, s \in Shard :
              shardLoad[h][s] = Cardinality(ShardTablets(h, s))
                                - Cardinality(MovesFromShard(<<h, s>>))

\* A set of indices of a plan is finite, and appending a migration adds
\* one index to it.
LEMMA IndexSetCard ==
    ASSUME NEW p \in Seq(Migration), NEW S \in SUBSET DOMAIN p
    PROVE  /\ IsFiniteSet(S)
           /\ Cardinality(S) \in Nat
           /\ Cardinality(S \cup {Len(p) + 1}) = Cardinality(S) + 1
<1>1. DOMAIN p = 1..Len(p) /\ Len(p) \in Nat
  OBVIOUS
<1>2. IsFiniteSet(1..Len(p))
  BY <1>1, FS_Interval
<1>3. IsFiniteSet(S) /\ Cardinality(S) \in Nat
  BY <1>1, <1>2, FS_Subset, FS_CardinalityType
<1>4. Len(p) + 1 \notin S
  BY <1>1
<1>. QED
  BY <1>3, <1>4, FS_AddElement

LEMMA BookFromInvariants ==
    ASSUME TypeOK, PInv, CountersMatchPlan
    PROVE  BookkeepingMatchesPlan
<1> SUFFICES ASSUME pc = "loop", NEW h \in DcNodes, NEW s \in Shard
             PROVE  /\ candidates[h][s] \subseteq ShardTablets(h, s)
                    /\ \A i \in MovesFromShard(<<h, s>>) :
                          plan[i].tablet \notin candidates[h][s]
  BY DEF BookkeepingMatchesPlan, CountersMatchPlan
<1>1. h \in Host
  BY ConstantsAssumption DEF DcNodes
<1>. QED
  BY <1>1 DEF PInv, CandidatesOnShard, ChosenNotCandidate, MovesFromShard

LEMMA InitCounters == Init => CountersMatchPlan
BY DEF Init, CountersMatchPlan

\* Steps that change no counter, no plan and no snapshot, and do not enter
\* the loop.
LEMMA QuietCounters ==
    ASSUME CountersMatchPlan, pc' = "loop" => pc = "loop",
           UNCHANGED <<snapshot, load, shardLoad, plan>>
    PROVE  CountersMatchPlan'
BY DEF CountersMatchPlan, snapshot, HostTablets, ShardTablets, HostsOf,
       MovesFrom, MovesTo, MovesFromShard

LEMMA PrepareCounters == IInv /\ PInv /\ Prepare => CountersMatchPlan'
<1> SUFFICES ASSUME IInv, PInv, Prepare PROVE CountersMatchPlan'
  OBVIOUS
<1>1. plan' = <<>> /\ UNCHANGED snapshot
  BY DEF Prepare, PInv, PlanOnlyInLoop
<1>2. \A h \in Host : MovesFrom(h)' = {} /\ MovesTo(h)' = {}
  BY <1>1 DEF MovesFrom, MovesTo
<1>3. \A h \in Host, s \in Shard : MovesFromShard(<<h, s>>)' = {}
  BY <1>1 DEF MovesFromShard
<1>4. \A h \in DcNodes : h \in Host
  BY ConstantsAssumption DEF DcNodes
<1>5. \A h \in Host : Cardinality(HostTablets(h)) \in Nat
  BY TabletSetCard DEF HostTablets
<1>6. \A h \in Host, s \in Shard : Cardinality(ShardTablets(h, s)) \in Nat
  BY TabletSetCard DEF ShardTablets
<1>7. \A h \in DcNodes : load'[h] = Cardinality(HostTablets(h))
  BY <1>4 DEF Prepare, NodeTabletCount
<1>8. \A h \in DcNodes, s \in Shard : shardLoad'[h][s] = Cardinality(ShardTablets(h, s))
  BY <1>4 DEF Prepare
<1>9. /\ \A h \in Host : HostTablets(h)' = HostTablets(h)
      /\ \A h \in Host, s \in Shard : ShardTablets(h, s)' = ShardTablets(h, s)
  BY <1>1 DEF snapshot, HostTablets, ShardTablets, HostsOf
<1>10. Cardinality({}) = 0
  BY FS_EmptySet
<1>11. \A h \in DcNodes :
          load'[h] = Cardinality(HostTablets(h)') - Cardinality(MovesFrom(h)')
                     + Cardinality(MovesTo(h)')
  BY <1>2, <1>4, <1>5, <1>7, <1>9, <1>10
<1>12. \A h \in DcNodes, s \in Shard :
          shardLoad'[h][s] = Cardinality(ShardTablets(h, s)')
                             - Cardinality(MovesFromShard(<<h, s>>)')
  <2> SUFFICES ASSUME NEW h \in DcNodes, NEW s \in Shard
               PROVE  shardLoad'[h][s] = Cardinality(ShardTablets(h, s)')
                                         - Cardinality(MovesFromShard(<<h, s>>)')
    OBVIOUS
  <2>1. h \in Host
    BY <1>4
  <2>2. Cardinality(MovesFromShard(<<h, s>>)') = 0
    BY <2>1, <1>3, <1>10
  <2>3. shardLoad'[h][s] = Cardinality(ShardTablets(h, s)')
    BY <2>1, <1>8, <1>9
  <2>. QED
    BY <2>1, <2>2, <2>3, <1>6, <1>9
<1>. QED
  BY <1>11, <1>12, Zenon DEF CountersMatchPlan

LEMMA MigrateCounters ==
    ASSUME IInv, PInv, CountersMatchPlan,
           NEW src \in Host, NEW s \in Shard, NEW t \in Tablet, Migrate(src, s, t)
    PROVE  CountersMatchPlan'
<1>1. TypeOK
  BY DEF IInv
<1>2. /\ pc = "loop" /\ pc' = "loop" /\ UNCHANGED snapshot
      /\ src \in nodesByLoad /\ ~NotAboveTarget(src)
  BY DEF Migrate, MigrateFrom, MostLoadedNodes, LoopRuns, MayMoveFrom, snapshot
<1>3. src \in DcNodes \ {target} /\ target \in DcNodes /\ target \in Host
  BY <1>2, SourceIsNotTarget, ConstantsAssumption DEF IInv, LoopOverDcNodes, DcNodes
<1>4. /\ load' = [load EXCEPT ![target] = @ + 1, ![src] = @ - 1]
      /\ shardLoad' = [shardLoad EXCEPT ![src][s] = @ - 1]
  BY DEF Migrate, MigrateFrom
<1>5. PICK d \in NextShards :
          plan' = Append(plan, [tablet |-> t, src |-> <<src, s>>,
                                dst |-> <<target, d>>])
  BY DEF Migrate, MigrateFrom
<1>6. /\ plan \in Seq(Migration)
      /\ DOMAIN plan' = 1..(Len(plan) + 1)
      /\ \A i \in DOMAIN plan : plan'[i] = plan[i]
      /\ plan'[Len(plan) + 1] = [tablet |-> t, src |-> <<src, s>>, dst |-> <<target, d>>]
      /\ DOMAIN plan = 1..Len(plan)
      /\ Len(plan) \in Nat
  BY <1>1, <1>5 DEF TypeOK
\* The index sets of the plan after the append.
<1>7. \A h \in Host :
          MovesFrom(h)' = IF h = src THEN MovesFrom(h) \cup {Len(plan) + 1}
                                     ELSE MovesFrom(h)
  BY <1>6 DEF MovesFrom
<1>8. \A h \in Host :
          MovesTo(h)' = IF h = target THEN MovesTo(h) \cup {Len(plan) + 1}
                                      ELSE MovesTo(h)
  BY <1>6 DEF MovesTo
<1>9. \A h \in Host, q \in Shard :
          MovesFromShard(<<h, q>>)' =
              IF <<h, q>> = <<src, s>> THEN MovesFromShard(<<h, q>>) \cup {Len(plan) + 1}
                                       ELSE MovesFromShard(<<h, q>>)
  BY <1>6 DEF MovesFromShard
<1>10. \A h \in Host, q \in Shard :
          /\ Cardinality(MovesFrom(h)) \in Nat
          /\ Cardinality(MovesFrom(h) \cup {Len(plan) + 1}) = Cardinality(MovesFrom(h)) + 1
          /\ Cardinality(MovesTo(h)) \in Nat
          /\ Cardinality(MovesTo(h) \cup {Len(plan) + 1}) = Cardinality(MovesTo(h)) + 1
          /\ Cardinality(MovesFromShard(<<h, q>>)) \in Nat
          /\ Cardinality(MovesFromShard(<<h, q>>) \cup {Len(plan) + 1})
                = Cardinality(MovesFromShard(<<h, q>>)) + 1
  <2> SUFFICES ASSUME NEW h \in Host, NEW q \in Shard PROVE
          /\ Cardinality(MovesFrom(h)) \in Nat
          /\ Cardinality(MovesFrom(h) \cup {Len(plan) + 1}) = Cardinality(MovesFrom(h)) + 1
          /\ Cardinality(MovesTo(h)) \in Nat
          /\ Cardinality(MovesTo(h) \cup {Len(plan) + 1}) = Cardinality(MovesTo(h)) + 1
          /\ Cardinality(MovesFromShard(<<h, q>>)) \in Nat
          /\ Cardinality(MovesFromShard(<<h, q>>) \cup {Len(plan) + 1})
                = Cardinality(MovesFromShard(<<h, q>>)) + 1
    OBVIOUS
  <2>1. /\ MovesFrom(h) \in SUBSET DOMAIN plan
        /\ MovesTo(h) \in SUBSET DOMAIN plan
        /\ MovesFromShard(<<h, q>>) \in SUBSET DOMAIN plan
    BY DEF MovesFrom, MovesTo, MovesFromShard
  <2>. QED
    BY <1>6, <2>1, IndexSetCard
<1>11. /\ \A h \in Host : HostTablets(h)' = HostTablets(h)
       /\ \A h \in Host, q \in Shard : ShardTablets(h, q)' = ShardTablets(h, q)
       /\ \A h \in Host : Cardinality(HostTablets(h)) \in Nat
       /\ \A h \in Host, q \in Shard : Cardinality(ShardTablets(h, q)) \in Nat
  BY <1>2, TabletSetCard DEF snapshot, HostTablets, ShardTablets, HostsOf
<1>12. /\ load \in [Host -> Nat] /\ shardLoad \in [Host -> [Shard -> Nat]]
  BY <1>1, TypeFacts
<1>13. ASSUME NEW h \in DcNodes
       PROVE  load'[h] = Cardinality(HostTablets(h)') - Cardinality(MovesFrom(h)')
                         + Cardinality(MovesTo(h)')
  <2>1. h \in Host
    BY ConstantsAssumption DEF DcNodes
  <2>2. load[h] = Cardinality(HostTablets(h))
                  - Cardinality(MovesFrom(h)) + Cardinality(MovesTo(h))
    BY <1>2 DEF CountersMatchPlan
  <2>3. CASE h = src
    <3>1. load'[h] = load[h] - 1 /\ h # target
      BY <2>1, <2>3, <1>3, <1>4, <1>12
    <3>2. MovesFrom(h)' = MovesFrom(h) \cup {Len(plan) + 1} /\ MovesTo(h)' = MovesTo(h)
      BY <2>1, <3>1, <2>3, <1>7, <1>8
    <3>3. /\ Cardinality(HostTablets(h)') = Cardinality(HostTablets(h))
          /\ Cardinality(MovesFrom(h)') = Cardinality(MovesFrom(h)) + 1
          /\ Cardinality(MovesTo(h)') = Cardinality(MovesTo(h))
      BY <2>1, <3>2, <1>10, <1>11
    <3>4. /\ Cardinality(HostTablets(h)) \in Nat /\ Cardinality(MovesFrom(h)) \in Nat
          /\ Cardinality(MovesTo(h)) \in Nat /\ load[h] \in Nat
      BY <2>1, <1>10, <1>11, <1>12
    <3>. QED
      BY <2>2, <3>1, <3>3, <3>4
  <2>4. CASE h = target
    <3>1. load'[h] = load[h] + 1 /\ h # src
      BY <2>1, <2>4, <1>3, <1>4, <1>12
    <3>2. MovesFrom(h)' = MovesFrom(h) /\ MovesTo(h)' = MovesTo(h) \cup {Len(plan) + 1}
      BY <2>1, <3>1, <2>4, <1>7, <1>8
    <3>3. /\ Cardinality(HostTablets(h)') = Cardinality(HostTablets(h))
          /\ Cardinality(MovesFrom(h)') = Cardinality(MovesFrom(h))
          /\ Cardinality(MovesTo(h)') = Cardinality(MovesTo(h)) + 1
      BY <2>1, <3>2, <1>10, <1>11
    <3>4. /\ Cardinality(HostTablets(h)) \in Nat /\ Cardinality(MovesFrom(h)) \in Nat
          /\ Cardinality(MovesTo(h)) \in Nat /\ load[h] \in Nat
      BY <2>1, <1>10, <1>11, <1>12
    <3>. QED
      BY <2>2, <3>1, <3>3, <3>4
  <2>5. CASE h # src /\ h # target
    <3>1. load'[h] = load[h]
      BY <2>1, <2>5, <1>4, <1>12
    <3>2. MovesFrom(h)' = MovesFrom(h) /\ MovesTo(h)' = MovesTo(h)
      BY <2>1, <2>5, <1>7, <1>8
    <3>. QED
      BY <2>1, <2>2, <3>1, <3>2, <1>11
  <2>. QED
    BY <2>3, <2>4, <2>5
<1>14. ASSUME NEW h \in DcNodes, NEW q \in Shard
       PROVE  shardLoad'[h][q] = Cardinality(ShardTablets(h, q)')
                                 - Cardinality(MovesFromShard(<<h, q>>)')
  <2>1. h \in Host
    BY ConstantsAssumption DEF DcNodes
  <2>2. shardLoad[h][q] = Cardinality(ShardTablets(h, q))
                          - Cardinality(MovesFromShard(<<h, q>>))
    BY <1>2 DEF CountersMatchPlan
  <2>3. CASE <<h, q>> = <<src, s>>
    <3>1. shardLoad'[h][q] = shardLoad[h][q] - 1
      BY <2>1, <2>3, <1>4, <1>12
    <3>2. MovesFromShard(<<h, q>>)' = MovesFromShard(<<h, q>>) \cup {Len(plan) + 1}
      BY <2>1, <2>3, <1>9
    <3>3. /\ Cardinality(ShardTablets(h, q)') = Cardinality(ShardTablets(h, q))
          /\ Cardinality(MovesFromShard(<<h, q>>)') = Cardinality(MovesFromShard(<<h, q>>)) + 1
      BY <2>1, <3>2, <1>10, <1>11
    <3>4. /\ Cardinality(ShardTablets(h, q)) \in Nat
          /\ Cardinality(MovesFromShard(<<h, q>>)) \in Nat /\ shardLoad[h][q] \in Nat
      BY <2>1, <1>10, <1>11, <1>12
    <3>5. shardLoad'[h][q] = Cardinality(ShardTablets(h, q))
                             - (Cardinality(MovesFromShard(<<h, q>>)) + 1)
      BY <2>2, <3>1, <3>4
    <3>. QED
      BY <3>3, <3>5
  <2>4. CASE <<h, q>> # <<src, s>>
    <3>1. shardLoad'[h][q] = shardLoad[h][q]
      BY <2>1, <2>4, <1>4, <1>12
    <3>2. MovesFromShard(<<h, q>>)' = MovesFromShard(<<h, q>>)
      BY <2>1, <2>4, <1>9
    <3>. QED
      BY <2>1, <2>2, <3>1, <3>2, <1>11
  <2>. QED
    BY <2>3, <2>4
<1>. QED
  BY <1>13, <1>14, Zenon DEF CountersMatchPlan

LEMMA NextCounters ==
    IInv /\ PInv /\ CountersMatchPlan /\ [Next]_vars => CountersMatchPlan'
<1> SUFFICES ASSUME IInv, PInv, CountersMatchPlan, [Next]_vars
             PROVE  CountersMatchPlan'
  OBVIOUS
<1>1. CASE Reject
  BY <1>1, QuietCounters DEF Reject, snapshot, planner
<1>2. CASE ReturnEmpty
  BY <1>2, QuietCounters DEF ReturnEmpty, snapshot, planner
<1>3. CASE Prepare
  BY <1>3, PrepareCounters
<1>4. CASE Finish
  BY <1>4, QuietCounters DEF Finish, snapshot, planner
<1>5. ASSUME NEW src \in Host, StopLoop(src)
      PROVE  CountersMatchPlan'
  BY <1>5, QuietCounters DEF StopLoop, StopLoopFrom, snapshot, planner
<1>6. ASSUME NEW src \in Host, DropNode(src)
      PROVE  CountersMatchPlan'
  BY <1>6, QuietCounters DEF DropNode, DropNodeFrom
<1>7. ASSUME NEW src \in Host, NEW s \in Shard, DropShard(src, s)
      PROVE  CountersMatchPlan'
  BY <1>7, QuietCounters DEF DropShard, DropShardFrom
<1>8. ASSUME NEW src \in Host, NEW s \in Shard, NEW t \in Tablet,
             SkipCandidate(src, s, t)
      PROVE  CountersMatchPlan'
  BY <1>8, QuietCounters DEF SkipCandidate, SkipCandidateFrom
<1>9. ASSUME NEW src \in Host, NEW s \in Shard, NEW t \in Tablet,
             Migrate(src, s, t)
      PROVE  CountersMatchPlan'
  BY <1>9, MigrateCounters
<1>10. CASE UNCHANGED vars
  BY <1>10, QuietCounters DEF vars, planner
<1>. QED
  BY <1>1, <1>2, <1>3, <1>4, <1>5, <1>6, <1>7, <1>8, <1>9, <1>10 DEF Next

\* While make_plan(dc) runs its loop, node_load_info.tablet_count and
\* shard_load_info.tablet_count (decremented and incremented by lines
\* 392-401) equal the snapshot's counts minus the replicas the plan moves
\* away plus those it moves in; the candidate sets hold only tablets of
\* their shard and none already chosen from it.  The counters the heaps
\* are ordered by never drift from the plan.
THEOREM BookkeepingHolds == Spec => []BookkeepingMatchesPlan
<1>1. IInv /\ PInv /\ CountersMatchPlan => BookkeepingMatchesPlan
  BY BookFromInvariants DEF IInv
<1>2. IInv /\ PInv /\ CountersMatchPlan /\ [Next]_vars
          => IInv' /\ PInv' /\ CountersMatchPlan'
  BY NextIInv, NextPInv, NextCounters
<1>3. Init => IInv /\ PInv /\ CountersMatchPlan
  BY InitIInv, InitPInv, InitCounters
<1>. QED
  BY <1>1, <1>2, <1>3, PTL DEF Spec

-----------------------------------------------------------------------------
(***************************************************************************)
(* LoadsStayWithinRange.  Its step predicate is named here so that the     *)
(* proof can speak of it; only Migrate changes a load, and it needs the    *)
(* guards ~NotAboveTarget and ~WouldInvert of lines 302-322 and the fact,  *)
(* from IInv, that the source is a node of the DC other than the target.   *)
(***************************************************************************)

LoadStepInRange ==
    pc = "loop" =>
        \A h \in DcNodes :
            /\ \E g \in DcNodes : ~LessLoad(AvgLoad(g), AvgLoad(h)')
            /\ \E g \in DcNodes : ~LessLoad(AvgLoad(h)', AvgLoad(g))

\* A step that changes no load and no shard count keeps every load where
\* it was, so each node is its own bound.
LEMMA QuietInRange ==
    ASSUME TypeOK, UNCHANGED <<load, shardCount>>
    PROVE  LoadStepInRange
<1> SUFFICES ASSUME NEW h \in DcNodes
             PROVE  /\ \E g \in DcNodes : ~LessLoad(AvgLoad(g), AvgLoad(h)')
                    /\ \E g \in DcNodes : ~LessLoad(AvgLoad(h)', AvgLoad(g))
  BY DEF LoadStepInRange
<1>1. h \in Host
  BY ConstantsAssumption DEF DcNodes
<1>2. load[h] \in Nat /\ shardCount[h] \in Nat
  BY <1>1, TypeFacts
<1>3. ~LessLoad(AvgLoad(h), AvgLoad(h)')
  BY <1>2 DEF LessLoad, AvgLoad
<1>. QED
  BY <1>3 DEF LessLoad, AvgLoad

LEMMA MigrateInRange ==
    ASSUME IInv, NEW src \in Host, NEW s \in Shard, NEW t \in Tablet,
           Migrate(src, s, t)
    PROVE  LoadStepInRange
<1>1. /\ pc = "loop" /\ src \in nodesByLoad
      /\ ~NotAboveTarget(src) /\ ~WouldInvert(src)
      /\ UNCHANGED shardCount
      /\ load' = [load EXCEPT ![target] = @ + 1, ![src] = @ - 1]
  BY DEF Migrate, MigrateFrom, MostLoadedNodes, LoopRuns, MayMoveFrom, snapshot
<1>2. src \in DcNodes \ {target} /\ target \in DcNodes /\ target \in Host
  BY <1>1, SourceIsNotTarget, ConstantsAssumption DEF IInv, LoopOverDcNodes, DcNodes
<1>3. /\ load \in [Host -> Nat]
      /\ shardCount[src] \in Nat /\ shardCount[target] \in Nat
  BY <1>2, TypeFacts DEF IInv
<1>4. /\ load'[src] = load[src] - 1
      /\ load'[target] = load[target] + 1
      /\ \A h \in Host \ {src, target} : load'[h] = load[h]
  BY <1>1, <1>2, <1>3
\* ~WouldInvert(src): the target after the move is not above the source
\* after the move.
<1>5. (load[target] + 1) * shardCount[src] <= (load[src] - 1) * shardCount[target]
  BY <1>1, <1>2, <1>3 DEF WouldInvert, LessLoad, AvgLoadIf
\* The distributive facts the comparisons below rest on.
<1>9. /\ (load[target] + 1) * shardCount[src]
            = load[target] * shardCount[src] + shardCount[src]
      /\ (load[target] + 1) * shardCount[target]
            = load[target] * shardCount[target] + shardCount[target]
      /\ (load[src] - 1) * shardCount[target]
            = load[src] * shardCount[target] - shardCount[target]
      /\ (load[src] - 1) * shardCount[src]
            = load[src] * shardCount[src] - shardCount[src]
  BY <1>2, <1>3
<1> SUFFICES ASSUME NEW h \in DcNodes
             PROVE  /\ \E g \in DcNodes : ~LessLoad(AvgLoad(g), AvgLoad(h)')
                    /\ \E g \in DcNodes : ~LessLoad(AvgLoad(h)', AvgLoad(g))
  BY DEF LoadStepInRange
<1>6. CASE h = src
  \* Below its old load, above the target's old load.
  <2>1. ~LessLoad(AvgLoad(src), AvgLoad(h)')
    BY <1>1, <1>2, <1>3, <1>4, <1>6, <1>9 DEF LessLoad, AvgLoad
  <2>2. ~LessLoad(AvgLoad(h)', AvgLoad(target))
    BY <1>1, <1>2, <1>3, <1>4, <1>5, <1>6, <1>9 DEF LessLoad, AvgLoad
  <2>. QED
    BY <1>2, <2>1, <2>2
<1>7. CASE h = target
  \* Above its old load, below the source's old load.
  <2>1. ~LessLoad(AvgLoad(src), AvgLoad(h)')
    BY <1>1, <1>2, <1>3, <1>4, <1>5, <1>7, <1>9 DEF LessLoad, AvgLoad
  <2>2. ~LessLoad(AvgLoad(h)', AvgLoad(target))
    BY <1>1, <1>2, <1>3, <1>4, <1>7, <1>9 DEF LessLoad, AvgLoad
  <2>. QED
    BY <1>2, <2>1, <2>2
<1>8. CASE h # src /\ h # target
  <2>1. h \in Host
    BY ConstantsAssumption DEF DcNodes
  <2>2. load'[h] = load[h] /\ load[h] \in Nat /\ shardCount[h] \in Nat
    BY <1>3, <1>4, <1>8, <2>1, TypeFacts DEF IInv
  <2>3. ~LessLoad(AvgLoad(h), AvgLoad(h)') /\ ~LessLoad(AvgLoad(h)', AvgLoad(h))
    BY <1>1, <2>2 DEF LessLoad, AvgLoad
  <2>. QED
    BY <2>3
<1>. QED
  BY <1>6, <1>7, <1>8

\* Every step, whatever action it takes, keeps each node's avg_load within
\* the loads the DC had before it.
LEMMA NextInRange == IInv /\ [Next]_vars => [LoadStepInRange]_vars
<1> SUFFICES ASSUME IInv, [Next]_vars PROVE LoadStepInRange
  OBVIOUS
<1>1. TypeOK
  BY DEF IInv
<1>2. CASE Prepare
  BY <1>2 DEF Prepare, LoadStepInRange
<1>3. ASSUME NEW src \in Host, NEW s \in Shard, NEW t \in Tablet,
             Migrate(src, s, t)
      PROVE  LoadStepInRange
  BY <1>3, MigrateInRange
<1>4. CASE ~Prepare /\ ~\E src \in Host, s \in Shard, t \in Tablet : Migrate(src, s, t)
  <2>1. UNCHANGED <<load, shardCount>>
    BY <1>4 DEF Next, Reject, ReturnEmpty, Finish, StopLoop, StopLoopFrom,
                DropNode, DropNodeFrom, DropShard, DropShardFrom,
                SkipCandidate, SkipCandidateFrom, vars, snapshot, planner
  <2>. QED
    BY <1>1, <2>1, QuietInRange
<1>. QED
  BY <1>2, <1>3, <1>4

\* Every step of the planner moves each node's avg_load only within the
\* range of the DC's loads before the step: the breaks of lines 302-322
\* stop the loop before a migration lifts the target above the node it
\* takes from, so no step of make_plan(dc) widens the spread of the DC.
THEOREM LoadsStayWithinRangeHolds == Spec => LoadsStayWithinRange
<1>1. IInv /\ [Next]_vars => [LoadStepInRange]_vars
  BY NextInRange
<1>2. Spec => []IInv
  BY InitIInv, NextIInv, PTL DEF Spec
<1>. QED
  BY <1>1, <1>2, PTL DEF Spec, LoadsStayWithinRange, LoadStepInRange
==============================================================================
