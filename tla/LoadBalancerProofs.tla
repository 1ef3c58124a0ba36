-------------------------- MODULE LoadBalancerProofs --------------------------
(***************************************************************************)
(* Proofs about LoadBalancer, for every value of the constants allowed by  *)
(* ConstantsAssumption.                                                    *)
(***************************************************************************)
EXTENDS LoadBalancer, FiniteSetTheorems, TLAPS

(***************************************************************************)
(* TypeOK is not inductive on its own.  The decrements of Migrate stay in  *)
(* Nat only because a shard's candidates are never more than its          *)
(* tablet_count, and the avg_load kept in maxOff has a non-zero            *)
(* denominator only because the loop runs over nodes of the DC, which have *)
(* shards.                                                                 *)
(***************************************************************************)

\* A shard never has more candidates than tablets (lines 249-250, 349, 394).
CandidatesCounted ==
    \A h \in Host, s \in Shard : Cardinality(candidates[h][s]) <= shardLoad[h][s]

\* While the loop runs, the target and the heap's nodes are nodes of the DC,
\* and those have shards (line 157).
LoopOverDcNodes ==
    pc = "loop" =>
        /\ target \in DcNodes
        /\ nodesByLoad \subseteq DcNodes
        /\ \A h \in DcNodes : shardCount[h] # 0

IInv == TypeOK /\ CandidatesCounted /\ LoopOverDcNodes

USE ConstantsAssumption

\* Every set of tablets is finite and has a natural cardinality.
LEMMA TabletSetCard ==
    ASSUME NEW S \in SUBSET Tablet
    PROVE  IsFiniteSet(S) /\ Cardinality(S) \in Nat
BY FS_Subset, FS_CardinalityType

\* The conjuncts of TypeOK the step proofs use, and the range of shard counts.
LEMMA TypeFacts ==
    ASSUME TypeOK
    PROVE  /\ \A h \in Host : shardCount[h] \in 0..MaxShards
           /\ load \in [Host -> Nat]
           /\ shardLoad \in [Host -> [Shard -> Nat]]
           /\ candidates \in [Host -> [Shard -> SUBSET Tablet]]
           /\ sketch \in [Shard -> Nat]
           /\ plan \in Seq(Migration)
           /\ maxOff \in Nat \X (Nat \ {0})
BY DEF TypeOK

LEMMA InitIInv == Init => IInv
<1> SUFFICES ASSUME Init PROVE IInv
  OBVIOUS
<1>1. TypeOK
  BY DEF Init, TypeOK
<1>2. CandidatesCounted
  BY FS_EmptySet DEF Init, CandidatesCounted
<1>3. LoopOverDcNodes
  BY DEF Init, LoopOverDcNodes
<1>. QED
  BY <1>1, <1>2, <1>3 DEF IInv

\* The steps that change nothing but pc keep IInv when pc does not become
\* "loop".
LEMMA PcOnlyStep ==
    ASSUME IInv, pc' \in {"done", "error"}, UNCHANGED <<snapshot, planner>>
    PROVE  IInv'
BY DEF IInv, TypeOK, CandidatesCounted, LoopOverDcNodes, snapshot, planner

LEMMA PrepareIInv == IInv /\ Prepare => IInv'
<1> SUFFICES ASSUME IInv, Prepare PROVE IInv'
  OBVIOUS
<1>1. PICK tgt \in LeastLoadedNodes :
          /\ target' = tgt
          /\ batchSize' = shardCount[tgt]
          /\ sketch' = [s \in Shard |-> Cardinality(ShardTablets(tgt, s))]
  BY DEF Prepare
<1>2. tgt \in DcNodes
  BY DEF LeastLoadedNodes
<1>3. \A h \in Host, s \in Shard : Cardinality(ShardTablets(h, s)) \in Nat
  BY TabletSetCard DEF ShardTablets
<1>4. \A h \in Host : Cardinality(HostTablets(h)) \in Nat
  BY TabletSetCard DEF HostTablets
<1>5. TypeOK'
  <2>1. load' \in [Host -> Nat]
    BY <1>4 DEF Prepare, NodeTabletCount
  <2>2. shardLoad' \in [Host -> [Shard -> Nat]]
    BY <1>3 DEF Prepare
  <2>3. sketch' \in [Shard -> Nat]
    BY <1>1, <1>2, <1>3 DEF DcNodes
  <2>4. batchSize' \in Nat /\ target' \in Host
    <3>1. tgt \in Host
      BY <1>2 DEF DcNodes
    <3>2. shardCount[tgt] \in 0..MaxShards
      BY <3>1, TypeFacts DEF IInv
    <3>. QED
      BY <1>1, <3>1, <3>2
  <2>5. /\ candidates' \in [Host -> [Shard -> SUBSET Tablet]]
        /\ shardsByLoad' \in [Host -> SUBSET Shard]
        /\ nodesByLoad' \subseteq Host
        /\ maxOff' \in Nat \X (Nat \ {0})
        /\ pc' \in {"prepare", "loop", "done", "error"}
    BY DEF Prepare, ShardTablets, DcNodes
  <2>6. UNCHANGED <<shardCount, replicas, pending, plan>>
    BY DEF Prepare, snapshot
  <2>. QED
    BY <2>1, <2>2, <2>3, <2>4, <2>5, <2>6 DEF IInv, TypeOK
<1>6. CandidatesCounted'
  <2> SUFFICES ASSUME NEW h \in Host, NEW s \in Shard
               PROVE  Cardinality(candidates'[h][s]) <= shardLoad'[h][s]
    BY DEF CandidatesCounted
  <2>1. CASE h \in DcNodes
    BY <2>1, <1>3 DEF Prepare
  <2>2. CASE h \notin DcNodes
    BY <2>2, FS_EmptySet DEF Prepare
  <2>. QED
    BY <2>1, <2>2
<1>7. LoopOverDcNodes'
  BY <1>1, <1>2 DEF Prepare, LoopOverDcNodes, InvalidTopology, snapshot
<1>. QED
  BY <1>5, <1>6, <1>7 DEF IInv

\* A node in the loop above the target holds a tablet (line 309 precedes
\* the decrement of line 317).
LEMMA SourceHoldsTablet ==
    ASSUME IInv, pc = "loop", NEW src \in nodesByLoad, ~NotAboveTarget(src)
    PROVE  load[src] \in Nat \ {0}
<1>1. target \in Host /\ src \in Host
  BY DEF IInv, LoopOverDcNodes, DcNodes
<1>2. load[src] \in Nat /\ load[target] \in Nat
      /\ shardCount[src] \in Nat /\ shardCount[target] \in Nat
  BY <1>1, TypeFacts DEF IInv
<1>3. load[target] * shardCount[src] < load[src] * shardCount[target]
  BY DEF NotAboveTarget, LessLoad, AvgLoad
<1>. QED
  BY <1>2, <1>3

LEMMA DropNodeIInv ==
    ASSUME IInv, NEW src \in Host, DropNode(src)
    PROVE  IInv'
<1>1. src \in nodesByLoad /\ src \in DcNodes
  BY DEF DropNode, DropNodeFrom, MostLoadedNodes, LoopRuns, IInv, LoopOverDcNodes
<1>2. shardCount[src] \in Nat \ {0} /\ load[src] \in Nat
  <2>1. pc = "loop"
    BY DEF DropNode, DropNodeFrom, LoopRuns
  <2>2. shardCount[src] # 0
    BY <1>1, <2>1 DEF IInv, LoopOverDcNodes
  <2>3. shardCount[src] \in 0..MaxShards /\ load[src] \in Nat
    BY <1>1, TypeFacts DEF IInv, DcNodes
  <2>. QED
    BY <2>2, <2>3
<1>3. maxOff' \in Nat \X (Nat \ {0})
  BY <1>2 DEF DropNode, DropNodeFrom, MaxLoad, AvgLoad, IInv, TypeOK
<1>. QED
  BY <1>3 DEF DropNode, DropNodeFrom, IInv, TypeOK, CandidatesCounted, LoopOverDcNodes,
              snapshot

LEMMA DropShardIInv ==
    ASSUME IInv, NEW src \in Host, NEW s \in Shard, DropShard(src, s)
    PROVE  IInv'
BY DEF DropShard, DropShardFrom, IInv, TypeOK, CandidatesCounted, LoopOverDcNodes, snapshot

LEMMA SkipCandidateIInv ==
    ASSUME IInv, NEW src \in Host, NEW s \in Shard, NEW t \in Tablet,
           SkipCandidate(src, s, t)
    PROVE  IInv'
<1>1. TypeOK'
  BY DEF SkipCandidate, SkipCandidateFrom, IInv, TypeOK, snapshot
<1>2. CandidatesCounted'
  <2> SUFFICES ASSUME NEW h \in Host, NEW q \in Shard
               PROVE  Cardinality(candidates'[h][q]) <= shardLoad'[h][q]
    BY DEF CandidatesCounted
  <2>1. candidates[src][s] \in SUBSET Tablet
    BY TypeFacts DEF IInv
  <2>2. IsFiniteSet(candidates[src][s]) /\ Cardinality(candidates[src][s]) \in Nat
    BY <2>1, TabletSetCard
  <2>3. Cardinality(candidates[src][s] \ {t}) <= Cardinality(candidates[src][s])
    <3>1. Cardinality(candidates[src][s] \ {t}) =
            IF t \in candidates[src][s] THEN Cardinality(candidates[src][s]) - 1
                                       ELSE Cardinality(candidates[src][s])
      BY <2>2, FS_RemoveElement
    <3>. QED
      BY <2>2, <3>1
  <2>4. candidates[h][q] \in SUBSET Tablet
    BY TypeFacts DEF IInv
  <2>5. Cardinality(candidates[h][q]) \in Nat
    BY <2>4, TabletSetCard
  <2>6. Cardinality(candidates[h][q]) <= shardLoad[h][q]
    BY DEF IInv, CandidatesCounted
  <2>7. CASE <<h, q>> = <<src, s>>
    <3>1. candidates'[h][q] = candidates[src][s] \ {t}
      BY <2>7, TypeFacts DEF IInv, SkipCandidate, SkipCandidateFrom
    <3>2. shardLoad'[h][q] = shardLoad[src][s]
      BY <2>7 DEF SkipCandidate, SkipCandidateFrom
    <3>3. Cardinality(candidates[src][s]) <= shardLoad[src][s]
      BY DEF IInv, CandidatesCounted
    <3>4. shardLoad[src][s] \in Nat
      BY TypeFacts DEF IInv
    <3>5. Cardinality(candidates'[h][q]) = Cardinality(candidates[src][s] \ {t})
      BY <3>1
    <3>6. Cardinality(candidates[src][s] \ {t}) <= shardLoad[src][s]
      <4>1. Cardinality(candidates[src][s] \ {t}) \in Nat
        BY <2>1, TabletSetCard
      <4>. QED
        BY <2>2, <2>3, <3>3, <3>4, <4>1
    <3>. QED
      BY <3>2, <3>5, <3>6
  <2>8. CASE <<h, q>> # <<src, s>>
    <3>1. candidates'[h][q] = candidates[h][q] /\ shardLoad'[h][q] = shardLoad[h][q]
      BY <2>8, TypeFacts DEF IInv, SkipCandidate, SkipCandidateFrom
    <3>. QED
      BY <2>6, <3>1
  <2>. QED
    BY <2>7, <2>8
<1>3. LoopOverDcNodes'
  BY DEF SkipCandidate, SkipCandidateFrom, IInv, LoopOverDcNodes, snapshot
<1>. QED
  BY <1>1, <1>2, <1>3 DEF IInv

LEMMA MigrateIInv ==
    ASSUME IInv, NEW src \in Host, NEW s \in Shard, NEW t \in Tablet,
           Migrate(src, s, t)
    PROVE  IInv'
<1>1. src \in nodesByLoad /\ pc = "loop" /\ ~NotAboveTarget(src)
  BY DEF Migrate, MigrateFrom, MostLoadedNodes, LoopRuns, MayMoveFrom
<1>2. load[src] \in Nat \ {0}
  BY <1>1, SourceHoldsTablet
<1>3. target \in Host /\ shardCount[target] \in 0..MaxShards
  BY <1>1 DEF IInv, TypeOK, LoopOverDcNodes, DcNodes
<1>4. t \in candidates[src][s]
  BY DEF Migrate, MigrateFrom
<1>5. IsFiniteSet(candidates[src][s])
      /\ Cardinality(candidates[src][s] \ {t}) = Cardinality(candidates[src][s]) - 1
      /\ Cardinality(candidates[src][s]) \in Nat \ {0}
  <2>1. candidates[src][s] \in SUBSET Tablet
    BY TypeFacts DEF IInv
  <2>2. IsFiniteSet(candidates[src][s]) /\ Cardinality(candidates[src][s]) \in Nat
    BY <2>1, TabletSetCard
  <2>3. Cardinality(candidates[src][s]) # 0
    BY <1>4, <2>2, FS_EmptySet
  <2>4. t \in candidates[src][s]
    BY <1>4
  <2>5. Cardinality(candidates[src][s] \ {t}) = Cardinality(candidates[src][s]) - 1
    <3>1. Cardinality(candidates[src][s] \ {t}) =
              IF t \in candidates[src][s] THEN Cardinality(candidates[src][s]) - 1
                                         ELSE Cardinality(candidates[src][s])
      BY <2>2, FS_RemoveElement, Zenon
    <3>. QED
      BY <2>4, <3>1, Zenon
  <2>. QED
    BY <2>2, <2>3, <2>5
<1>6. shardLoad[src][s] \in Nat \ {0}
  <2>1. Cardinality(candidates[src][s]) <= shardLoad[src][s]
    BY DEF IInv, CandidatesCounted
  <2>2. shardLoad[src][s] \in Nat
    BY TypeFacts DEF IInv
  <2>. QED
    BY <1>5, <2>1, <2>2
<1>7. PICK d \in NextShards :
          /\ plan' = Append(plan, [tablet |-> t, src |-> <<src, s>>,
                                   dst |-> <<target, d>>])
          /\ sketch' = [sketch EXCEPT ![d] = @ + 1]
  BY DEF Migrate, MigrateFrom
<1>8. d \in Shard
  BY <1>3, <1>7 DEF NextShards, Shard
<1>9. TypeOK'
  <2>1. plan' \in Seq(Migration)
    BY <1>3, <1>7, <1>8 DEF IInv, TypeOK, Migration, Replica
  <2>2. sketch' \in [Shard -> Nat]
    <3>1. sketch \in [Shard -> Nat]
      BY TypeFacts DEF IInv
    <3>. QED
      BY <1>7, <1>8, <3>1
  <2>3. load' \in [Host -> Nat]
    <3>1. load \in [Host -> Nat]
      BY TypeFacts DEF IInv
    <3>2. load' = [load EXCEPT ![target] = @ + 1, ![src] = @ - 1]
      BY DEF Migrate, MigrateFrom
    <3>. QED
      BY <1>2, <1>3, <3>1, <3>2
  <2>4. shardLoad' \in [Host -> [Shard -> Nat]]
    BY <1>6 DEF Migrate, MigrateFrom, IInv, TypeOK
  <2>5. /\ candidates' \in [Host -> [Shard -> SUBSET Tablet]]
        /\ shardsByLoad' \in [Host -> SUBSET Shard]
        /\ nodesByLoad' \subseteq Host
    BY DEF Migrate, MigrateFrom, IInv, TypeOK
  <2>6. UNCHANGED <<shardCount, replicas, pending, pc, maxOff, target, batchSize>>
    BY DEF Migrate, MigrateFrom, snapshot
  <2>. QED
    BY <2>1, <2>2, <2>3, <2>4, <2>5, <2>6 DEF IInv, TypeOK
<1>10. CandidatesCounted'
  <2> SUFFICES ASSUME NEW h \in Host, NEW q \in Shard
               PROVE  Cardinality(candidates'[h][q]) <= shardLoad'[h][q]
    BY DEF CandidatesCounted
  <2>0. /\ candidates \in [Host -> [Shard -> SUBSET Tablet]]
        /\ shardLoad \in [Host -> [Shard -> Nat]]
    BY TypeFacts DEF IInv
  <2>1. CASE <<h, q>> = <<src, s>>
    <3>1. candidates'[h][q] = candidates[src][s] \ {t}
          /\ shardLoad'[h][q] = shardLoad[src][s] - 1
      BY <2>0, <2>1 DEF Migrate, MigrateFrom
    <3>2. Cardinality(candidates[src][s]) <= shardLoad[src][s]
      BY DEF IInv, CandidatesCounted
    <3>. QED
      BY <1>5, <1>6, <3>1, <3>2
  <2>2. CASE <<h, q>> # <<src, s>>
    <3>1. candidates'[h][q] = candidates[h][q] /\ shardLoad'[h][q] = shardLoad[h][q]
      BY <2>0, <2>2 DEF Migrate, MigrateFrom
    <3>. QED
      BY <3>1 DEF IInv, CandidatesCounted
  <2>. QED
    BY <2>1, <2>2
<1>11. LoopOverDcNodes'
  BY DEF Migrate, MigrateFrom, IInv, TypeOK, LoopOverDcNodes, snapshot
<1>. QED
  BY <1>9, <1>10, <1>11 DEF IInv

LEMMA NextIInv == IInv /\ [Next]_vars => IInv'
<1> SUFFICES ASSUME IInv, [Next]_vars PROVE IInv'
  OBVIOUS
<1>1. CASE Reject
  BY <1>1, PcOnlyStep DEF Reject
<1>2. CASE ReturnEmpty
  BY <1>2, PcOnlyStep DEF ReturnEmpty
<1>3. CASE Prepare
  BY <1>3, PrepareIInv
<1>4. CASE Finish
  BY <1>4, PcOnlyStep DEF Finish
<1>5. ASSUME NEW src \in Host, StopLoop(src)
      PROVE  IInv'
  BY <1>5, PcOnlyStep DEF StopLoop, StopLoopFrom
<1>6. ASSUME NEW src \in Host, DropNode(src)
      PROVE  IInv'
  BY <1>6, DropNodeIInv
<1>7. ASSUME NEW src \in Host, NEW s \in Shard, DropShard(src, s)
      PROVE  IInv'
  BY <1>7, DropShardIInv
<1>8. ASSUME NEW src \in Host, NEW s \in Shard, NEW t \in Tablet,
             SkipCandidate(src, s, t)
      PROVE  IInv'
  BY <1>8, SkipCandidateIInv
<1>9. ASSUME NEW src \in Host, NEW s \in Shard, NEW t \in Tablet,
             Migrate(src, s, t)
      PROVE  IInv'
  BY <1>9, MigrateIInv
<1>10. CASE UNCHANGED vars
  BY <1>10 DEF IInv, TypeOK, CandidatesCounted, LoopOverDcNodes, vars,
               snapshot, planner
<1>. QED
  BY <1>1, <1>2, <1>3, <1>4, <1>5, <1>6, <1>7, <1>8, <1>9, <1>10 DEF Next

\* Type correctness of the planner: every counter stays a natural number, so
\* the unsigned decrements of lines 394 and 400 never wrap, and every
\* migration of the plan names a tablet, a source and a destination replica.
THEOREM TypeCorrect == Spec => []TypeOK
<1>1. IInv => TypeOK
  BY DEF IInv
<1>. QED
  BY <1>1, InitIInv, NextIInv, PTL DEF Spec

=============================================================================
