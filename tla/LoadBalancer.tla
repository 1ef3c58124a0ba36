----------------------------- MODULE LoadBalancer -----------------------------
(***************************************************************************)
(* One call of load_balancer::make_plan(dc) (service/tablet_allocator.cc): *)
(* the per-DC tablet load balancer.  The token-metadata snapshot it reads  *)
(* (shard counts, tablet replicas, pending transitions) is chosen in Init  *)
(* among all snapshots of the small sets below and never changes, as the   *)
(* planner takes an immutable token_metadata_ptr.  Prepare is the straight *)
(* code before the selection loop (lines 144-285); every other action is   *)
(* one iteration of the while loop of lines 286-406, split by the branch   *)
(* the iteration takes.                                                    *)
(*                                                                         *)
(* avg_load, a double tablets / shards, is kept as the exact fraction      *)
(* <<tablets, shards>>: for the small counts here a division of integers   *)
(* is correctly rounded, so two doubles are equal or ordered exactly when  *)
(* the fractions are.                                                      *)
(*                                                                         *)
(* The heaps nodes_by_load and shards_by_load are kept as the sets of ids  *)
(* they hold; a pop takes any element of maximal key, which is what        *)
(* std::pop_heap returns on a valid heap (ties are an implementation       *)
(* choice, so all of them are explored).                                   *)
(***************************************************************************)
EXTENDS Naturals, FiniteSets, Sequences, FiniteSetsExt

CONSTANTS
    Host,              \* host ids of the topology
    Tablet,            \* global tablet ids (table, tablet)
    Table,             \* table ids
    TableOf,           \* the table of a tablet
    Dc,                \* the datacenter make_plan(dc) plans for
    DcOf,              \* dc_rack().dc of a host
    RackOf,            \* dc_rack().rack of a host
    Normal,            \* hosts in node::state::normal
    MaxShards,         \* shard ids of a replica are 0..MaxShards-1
    ShardCountChoices, \* the shard counts the snapshot may give a host
    RF,                \* replication factor of each table's keyspace
    PendingChoices,    \* the sets of tables with pending transitions
    NoHost             \* no host (target before Prepare)

ASSUME ConstantsAssumption ==
    /\ IsFiniteSet(Host)
    /\ IsFiniteSet(Tablet)
    /\ TableOf \in [Tablet -> Table]
    /\ DOMAIN DcOf = Host
    /\ DOMAIN RackOf = Host
    /\ Normal \subseteq Host
    /\ MaxShards \in Nat \ {0}
    /\ ShardCountChoices \subseteq 0..MaxShards
    /\ ShardCountChoices # {}
    /\ RF \in [Table -> Nat \ {0}]
    /\ PendingChoices \subseteq SUBSET Table
    /\ PendingChoices # {}
    /\ NoHost \notin Host

Shard == 0..(MaxShards - 1)

\* A tablet_replica: <<host, shard>>.
Replica == Host \X Shard

HostsOf(R) == {r[1] : r \in R}

\* The replica sets a tablet_info of a table with replication factor n may
\* hold: n replicas on distinct hosts.
Placement(n) ==
    {R \in SUBSET Replica :
        /\ Cardinality(R) = n
        /\ \A r, q \in R : r[1] = q[1] => r = q}

\* The snapshots' tablet maps.
TabletMaps == {m \in [Tablet -> UNION {Placement(RF[tb]) : tb \in Table}] :
                  \A t \in Tablet : m[t] \in Placement(RF[TableOf[t]])}

\* tablet_migration_info{tablet, src, dst}.
Migration == [tablet : Tablet, src : Replica, dst : Replica]

\* The nodes make_plan(dc) balances: normal nodes of the DC (lines 151-161).
DcNodes == {h \in Normal : DcOf[h] = Dc}

(***************************************************************************)
(* Loads are fractions <<tablets, shards>> compared by cross-multiplying.  *)
(***************************************************************************)
LessLoad(a, b) == a[1] * b[2] < b[1] * a[2]

SameLoad(a, b) == a[1] * b[2] = b[1] * a[2]

MaxLoad(a, b) == IF LessLoad(a, b) THEN b ELSE a

VARIABLES
    shardCount,   \* snapshot: get_shard_count() of every host
    replicas,     \* snapshot: tablet_info::replicas of every tablet
    pending,      \* snapshot: tables whose tablet_map has transitions
    pc,           \* "prepare", "loop", or the call has returned: "done", "error"
    load,         \* nodes[h].tablet_count
    shardLoad,    \* nodes[h].shards[s].tablet_count
    candidates,   \* nodes[h].shards[s].candidates
    shardsByLoad, \* the shard ids in the heap nodes[h].shards_by_load
    nodesByLoad,  \* the host ids in the heap nodes_by_load
    maxOff,       \* max_off_candidate_load
    target,       \* the least-loaded node
    batchSize,    \* batch_size: the target's shard count
    sketch,       \* load_sketch of the target: tablets per target shard
    plan          \* the migration_plan built so far

snapshot == <<shardCount, replicas, pending>>
planner == <<load, shardLoad, candidates, shardsByLoad, nodesByLoad, maxOff,
             target, batchSize, sketch, plan>>
vars == <<snapshot, pc, planner>>

\* avg_load of a node (node_load::update, lines 104-110).
AvgLoad(h) == <<load[h], shardCount[h]>>

\* node_load::get_avg_load(tablets) (lines 108-110).
AvgLoadIf(h, tablets) == <<tablets, shardCount[h]>>

\* Tablets of the snapshot with a replica on host h, and on shard s of h.
HostTablets(h) == {t \in Tablet : h \in HostsOf(replicas[t])}

ShardTablets(h, s) == {t \in Tablet : <<h, s>> \in replicas[t]}

-----------------------------------------------------------------------------

Init ==
    /\ shardCount \in [Host -> ShardCountChoices]
    /\ replicas \in TabletMaps
    /\ pending \in PendingChoices
    /\ pc = "prepare"
    /\ load = [h \in Host |-> 0]
    /\ shardLoad = [h \in Host |-> [s \in Shard |-> 0]]
    /\ candidates = [h \in Host |-> [s \in Shard |-> {}]]
    /\ shardsByLoad = [h \in Host |-> {}]
    /\ nodesByLoad = {}
    /\ maxOff = <<0, 1>>
    /\ target = NoHost
    /\ batchSize = 0
    /\ sketch = [s \in Shard |-> 0]
    /\ plan = <<>>

(***************************************************************************)
(* The snapshot is refused: a node of the DC has no shards (the throw of   *)
(* line 158), or a replica on a node of the DC names a shard the node does *)
(* not have (on_internal_error, line 173).                                 *)
(***************************************************************************)
InvalidTopology ==
    \/ \E h \in DcNodes : shardCount[h] = 0
    \/ \E t \in Tablet : \E r \in replicas[t] :
           r[1] \in DcNodes /\ r[2] >= shardCount[r[1]]

\* Phase B: nodes[h].tablet_count for the nodes of the DC (lines 165-178).
NodeTabletCount == [h \in Host |-> IF h \in DcNodes
                                   THEN Cardinality(HostTablets(h)) ELSE 0]

\* max_load == min_load over the DC (lines 182-196).
IsBalanced ==
    \A a, b \in DcNodes : SameLoad(<<NodeTabletCount[a], shardCount[a]>>,
                                   <<NodeTabletCount[b], shardCount[b]>>)

\* The nodes min_load_node may be (lines 185-190).
LeastLoadedNodes ==
    {h \in DcNodes : \A g \in DcNodes :
        ~LessLoad(<<NodeTabletCount[g], shardCount[g]>>,
                  <<NodeTabletCount[h], shardCount[h]>>)}

Reject ==
    /\ pc = "prepare"
    /\ InvalidTopology
    /\ pc' = "error"
    /\ UNCHANGED <<snapshot, planner>>

\* The DC is balanced (line 199), or a tablet map has transitions (line 236).
ReturnEmpty ==
    /\ pc = "prepare"
    /\ ~InvalidTopology
    /\ IsBalanced \/ pending # {}
    /\ pc' = "done"
    /\ UNCHANGED <<snapshot, planner>>

(***************************************************************************)
(* Lines 207-285: pick the target, build per-shard loads and candidates    *)
(* (lines 232-253), the heaps (lines 258-278) and the target's load        *)
(* sketch (lines 280-281).                                                 *)
(***************************************************************************)
Prepare ==
    /\ pc = "prepare"
    /\ ~InvalidTopology
    /\ ~IsBalanced
    /\ pending = {}
    /\ \E tgt \in LeastLoadedNodes :
          /\ target' = tgt
          /\ batchSize' = shardCount[tgt]
          /\ sketch' = [s \in Shard |-> Cardinality(ShardTablets(tgt, s))]
    /\ load' = NodeTabletCount
    /\ shardLoad' = [h \in Host |-> [s \in Shard |->
                        IF h \in DcNodes THEN Cardinality(ShardTablets(h, s))
                                         ELSE 0]]
    /\ candidates' = [h \in Host |-> [s \in Shard |->
                        IF h \in DcNodes THEN ShardTablets(h, s) ELSE {}]]
    /\ shardsByLoad' = [h \in Host |->
                        IF h \in DcNodes
                        THEN {s \in Shard : ShardTablets(h, s) # {}}
                        ELSE {}]
    /\ nodesByLoad' = DcNodes
    /\ maxOff' = <<0, 1>>
    /\ pc' = "loop"
    /\ UNCHANGED <<snapshot, plan>>

-----------------------------------------------------------------------------
(***************************************************************************)
(* The selection loop.                                                     *)
(***************************************************************************)

\* The loop condition of line 286.
LoopRuns == pc = "loop" /\ Len(plan) < batchSize /\ nodesByLoad # {}

\* The hosts pop_heap(nodes_by_load) may return (line 289): a node of
\* maximal avg_load.  The target's key grows while it is in the heap
\* (line 391), so once it is above the others either it or a most loaded
\* other node comes out; with both the loop breaks at line 302 or 309.
MostLoadedNodes ==
    {h \in nodesByLoad : \A g \in nodesByLoad \ {target} :
        ~LessLoad(AvgLoad(h), AvgLoad(g))}

\* The shards pop_heap(shards_by_load) may return (line 335).
MostLoadedShards(h) ==
    {s \in shardsByLoad[h] : \A q \in shardsByLoad[h] :
        shardLoad[h][q] <= shardLoad[h][s]}

\* The three breaks of lines 302-322.
BalanceAchieved(src) == SameLoad(MaxLoad(maxOff, AvgLoad(src)), AvgLoad(target))

NotAboveTarget(src) == ~LessLoad(AvgLoad(target), AvgLoad(src))

\* Mutant: the inversion guard compares the loads before the move.
WouldInvertBeforeMove(src) ==
    LessLoad(AvgLoadIf(src, load[src]), AvgLoadIf(target, load[target]))

WouldInvert(src) ==
    LessLoad(AvgLoadIf(src, load[src] - 1), AvgLoadIf(target, load[target] + 1))

MayMoveFrom(src) ==
    ~BalanceAchieved(src) /\ ~NotAboveTarget(src) /\ ~WouldInvert(src)

\* The loop stops: plan full or no candidate node left (line 286).
Finish ==
    /\ pc = "loop"
    /\ Len(plan) >= batchSize \/ nodesByLoad = {}
    /\ pc' = "done"
    /\ UNCHANGED <<snapshot, planner>>

\* One of the breaks of lines 302-322 is taken.
StopLoopFrom(src) ==
    /\ LoopRuns
    /\ BalanceAchieved(src) \/ NotAboveTarget(src) \/ WouldInvert(src)
    /\ pc' = "done"
    /\ UNCHANGED <<snapshot, planner>>

StopLoop(src) == src \in MostLoadedNodes /\ StopLoopFrom(src)

\* The source ran out of candidate shards (lines 324-330).
DropNodeFrom(src) ==
    /\ LoopRuns
    /\ MayMoveFrom(src)
    /\ shardsByLoad[src] = {}
    /\ maxOff' = MaxLoad(maxOff, AvgLoad(src))
    /\ nodesByLoad' = nodesByLoad \ {src}
    /\ UNCHANGED <<snapshot, pc, load, shardLoad, candidates, shardsByLoad,
                   target, batchSize, sketch, plan>>

DropNode(src) == src \in MostLoadedNodes /\ DropNodeFrom(src)

\* Mutant: the exhausted shard is not popped from shards_by_load.
DropShardKeepsShard(src, s) ==
    /\ LoopRuns
    /\ MayMoveFrom(src)
    /\ s \in MostLoadedShards(src)
    /\ candidates[src][s] = {}
    /\ UNCHANGED vars

\* The popped source shard ran out of candidates (lines 335-343); the
\* deferred push_heap puts the node back.
DropShardFrom(src, s) ==
    /\ LoopRuns
    /\ MayMoveFrom(src)
    /\ s \in MostLoadedShards(src)
    /\ candidates[src][s] = {}
    /\ shardsByLoad' = [shardsByLoad EXCEPT ![src] = @ \ {s}]
    /\ UNCHANGED <<snapshot, pc, load, shardLoad, candidates, nodesByLoad,
                   maxOff, target, batchSize, sketch, plan>>

DropShard(src, s) == src \in MostLoadedNodes /\ DropShardFrom(src, s)

\* Mutant: the replica list is searched for the target's shard 0 rather than
\* for any replica on the target host.
HasReplicaOnTargetShard(t) == <<target, 0>> \in replicas[t]

\* has_replica_on_target, from the snapshot's replica list (lines 356-361).
HasReplicaOnTarget(t) == target \in HostsOf(replicas[t])

\* rack_load: replicas of t on nodes of the DC in rack k (lines 362-367).
RackLoad(t, k) ==
    Cardinality({h \in HostsOf(replicas[t]) : DcOf[h] = Dc /\ RackOf[h] = k})

RacksInDc(t) == {RackOf[h] : h \in {g \in HostsOf(replicas[t]) : DcOf[g] = Dc}}

\* The move would raise the target rack above max_rack_load (lines 376-385).
RackOverloaded(src, t) ==
    /\ RackOf[target] # RackOf[src]
    /\ RackLoad(t, RackOf[target]) + 1 > Max({RackLoad(t, k) : k \in RacksInDc(t)})

\* The candidate is taken from the shard (lines 348-349) and skipped
\* (lines 370-373 or 380-384); both deferred pushes put shard and node back.
SkipCandidateFrom(src, s, t) ==
    /\ LoopRuns
    /\ MayMoveFrom(src)
    /\ s \in MostLoadedShards(src)
    /\ t \in candidates[src][s]
    /\ HasReplicaOnTarget(t) \/ RackOverloaded(src, t)
    /\ candidates' = [candidates EXCEPT ![src][s] = @ \ {t}]
    /\ UNCHANGED <<snapshot, pc, load, shardLoad, shardsByLoad, nodesByLoad,
                   maxOff, target, batchSize, sketch, plan>>

SkipCandidate(src, s, t) == src \in MostLoadedNodes /\ SkipCandidateFrom(src, s, t)

\* load_sketch::next_shard(target): the least-loaded shard of the target,
\* the lowest id among equals.
NextShards ==
    LET TS == 0..(shardCount[target] - 1)
    IN  {d \in TS : \A q \in TS :
            sketch[d] < sketch[q] \/ (sketch[d] = sketch[q] /\ d <= q)}

\* Mutant: the source node's tablet_count is not decremented.
MigrateKeepsSourceCount(src, s, t) ==
    /\ LoopRuns
    /\ MayMoveFrom(src)
    /\ s \in MostLoadedShards(src)
    /\ t \in candidates[src][s]
    /\ ~HasReplicaOnTarget(t)
    /\ ~RackOverloaded(src, t)
    /\ candidates' = [candidates EXCEPT ![src][s] = @ \ {t}]
    /\ \E d \in NextShards :
          /\ plan' = Append(plan, [tablet |-> t, src |-> <<src, s>>,
                                   dst |-> <<target, d>>])
          /\ sketch' = [sketch EXCEPT ![d] = @ + 1]
    /\ load' = [load EXCEPT ![target] = @ + 1]
    /\ shardLoad' = [shardLoad EXCEPT ![src][s] = @ - 1]
    /\ shardsByLoad' = IF shardLoad[src][s] = 1
                       THEN [shardsByLoad EXCEPT ![src] = @ \ {s}]
                       ELSE shardsByLoad
    /\ nodesByLoad' = nodesByLoad
    /\ UNCHANGED <<snapshot, pc, maxOff, target, batchSize>>

\* Mutant: the count of shard 0 is decremented instead of the source shard's.
MigrateFromFirstShard(src, s, t) ==
    /\ LoopRuns
    /\ MayMoveFrom(src)
    /\ s \in MostLoadedShards(src)
    /\ t \in candidates[src][s]
    /\ ~HasReplicaOnTarget(t)
    /\ ~RackOverloaded(src, t)
    /\ candidates' = [candidates EXCEPT ![src][s] = @ \ {t}]
    /\ \E d \in NextShards :
          /\ plan' = Append(plan, [tablet |-> t, src |-> <<src, s>>,
                                   dst |-> <<target, d>>])
          /\ sketch' = [sketch EXCEPT ![d] = @ + 1]
    /\ load' = [load EXCEPT ![target] = @ + 1, ![src] = @ - 1]
    /\ shardLoad' = [shardLoad EXCEPT ![src][0] = @ - 1]
    /\ shardsByLoad' = IF shardLoad[src][s] = 1
                       THEN [shardsByLoad EXCEPT ![src] = @ \ {s}]
                       ELSE shardsByLoad
    /\ nodesByLoad' = IF load[src] = 1 THEN nodesByLoad \ {src} ELSE nodesByLoad
    /\ UNCHANGED <<snapshot, pc, maxOff, target, batchSize>>

\* A migration is emitted and the loads updated (lines 387-405).
MigrateFrom(src, s, t) ==
    /\ LoopRuns
    /\ MayMoveFrom(src)
    /\ s \in MostLoadedShards(src)
    /\ t \in candidates[src][s]
    /\ ~HasReplicaOnTarget(t)
    /\ ~RackOverloaded(src, t)
    /\ candidates' = [candidates EXCEPT ![src][s] = @ \ {t}]
    /\ \E d \in NextShards :
          /\ plan' = Append(plan, [tablet |-> t, src |-> <<src, s>>,
                                   dst |-> <<target, d>>])
          /\ sketch' = [sketch EXCEPT ![d] = @ + 1]
    /\ load' = [load EXCEPT ![target] = @ + 1, ![src] = @ - 1]
    /\ shardLoad' = [shardLoad EXCEPT ![src][s] = @ - 1]
    /\ shardsByLoad' = IF shardLoad[src][s] = 1
                       THEN [shardsByLoad EXCEPT ![src] = @ \ {s}]
                       ELSE shardsByLoad
    /\ nodesByLoad' = IF load[src] = 1 THEN nodesByLoad \ {src} ELSE nodesByLoad
    /\ UNCHANGED <<snapshot, pc, maxOff, target, batchSize>>

Migrate(src, s, t) == src \in MostLoadedNodes /\ MigrateFrom(src, s, t)

Next ==
    \/ Reject
    \/ ReturnEmpty
    \/ Prepare
    \/ Finish
    \/ \E src \in Host :
          \/ StopLoop(src)
          \/ DropNode(src)
          \/ \E s \in Shard :
                \/ DropShard(src, s)
                \/ \E t \in Tablet : SkipCandidate(src, s, t) \/ Migrate(src, s, t)

\* The planning coroutine is resumed after every maybe_yield (line 287).
Spec == Init /\ [][Next]_vars /\ WF_vars(Next)

-----------------------------------------------------------------------------
(***************************************************************************)
(* Properties.                                                             *)
(***************************************************************************)

\* Every variable has its type: counters stay natural numbers (the size_t
\* and uint64_t decrements of lines 394 and 400 never wrap).
TypeOK ==
    /\ shardCount \in [Host -> ShardCountChoices]
    /\ replicas \in TabletMaps
    /\ pending \in PendingChoices
    /\ pc \in {"prepare", "loop", "done", "error"}
    /\ load \in [Host -> Nat]
    /\ shardLoad \in [Host -> [Shard -> Nat]]
    /\ candidates \in [Host -> [Shard -> SUBSET Tablet]]
    /\ shardsByLoad \in [Host -> SUBSET Shard]
    /\ nodesByLoad \subseteq Host
    /\ maxOff \in Nat \X (Nat \ {0})
    /\ target \in Host \cup {NoHost}
    /\ batchSize \in Nat
    /\ sketch \in [Shard -> Nat]
    /\ plan \in Seq(Migration)

\* Indices of the plan moving a replica away from host h, resp. shard r,
\* and onto host h.
MovesFrom(h) == {i \in DOMAIN plan : plan[i].src[1] = h}

MovesFromShard(r) == {i \in DOMAIN plan : plan[i].src = r}

MovesTo(h) == {i \in DOMAIN plan : plan[i].dst[1] = h}

\* The planner's counters agree with the snapshot and the migrations chosen
\* so far (the bookkeeping of lines 391-401 after the counting of lines
\* 165-178 and 239-252): a node's tablet_count is its snapshot count minus
\* what left it plus what arrived; a shard's count is its snapshot count
\* minus what left it; a shard's candidates are tablets still on it that
\* have not been chosen from it.
BookkeepingMatchesPlan ==
    pc = "loop" =>
        /\ \A h \in DcNodes :
              load[h] = Cardinality(HostTablets(h))
                        - Cardinality(MovesFrom(h)) + Cardinality(MovesTo(h))
        /\ \A h \in DcNodes, s \in Shard :
              /\ shardLoad[h][s] = Cardinality(ShardTablets(h, s))
                                   - Cardinality(MovesFromShard(<<h, s>>))
              /\ candidates[h][s] \subseteq ShardTablets(h, s)
              /\ \A i \in MovesFromShard(<<h, s>>) : plan[i].tablet \notin candidates[h][s]

\* Every migration moves a replica the snapshot has, from a node of the DC
\* other than the target, to the target, which holds no replica of that
\* tablet in the snapshot; no (tablet, src) pair is chosen twice (spec 8.1,
\* 8.2).  The candidate sets of lines 239-252 and the skips of lines 370-384
\* must keep this over many iterations.
PlanMovesSnapshotReplicas ==
    \A i \in DOMAIN plan :
        /\ plan[i].src \in replicas[plan[i].tablet]
        /\ plan[i].src[1] \in DcNodes \ {target}
        /\ plan[i].dst[1] = target
        /\ target \notin HostsOf(replicas[plan[i].tablet])
        /\ \A j \in DOMAIN plan :
              (i # j) => <<plan[i].tablet, plan[i].src>> # <<plan[j].tablet, plan[j].src>>

\* No step of the selection loop widens the spread of avg_load over the DC:
\* every node's new load lies between two loads the DC had before the step.
\* The checks of lines 302-322 must stop the loop before the target is
\* pushed above the most loaded node or a source below the least loaded.
LoadsStayWithinRange ==
    [][pc = "loop" =>
         \A h \in DcNodes :
            /\ \E g \in DcNodes : ~LessLoad(AvgLoad(g), AvgLoad(h)')
            /\ \E g \in DcNodes : ~LessLoad(AvgLoad(h)', AvgLoad(g))]_vars

\* Over the whole selection loop, and in the plan make_plan(dc) returns,
\* every node's tablet_count stays between the least and the most loaded
\* node of the snapshot (lines 165-178): the moves of lines 387-401 only
\* even loads out, however many the batch holds.  One call with a target
\* has chosen it in Prepare.
LoadsWithinSnapshotRange ==
    pc \in {"loop", "done"} /\ target \in Host =>
        \A h \in DcNodes :
            /\ \E g \in DcNodes :
                  ~LessLoad(<<NodeTabletCount[g], shardCount[g]>>, AvgLoad(h))
            /\ \E g \in DcNodes :
                  ~LessLoad(AvgLoad(h), <<NodeTabletCount[g], shardCount[g]>>)

\* No load inversion (lines 316-322): once the plan is built, no node the
\* plan takes a tablet from ends with a smaller avg_load than the target,
\* although the guard compares the target only with the node popped in
\* that iteration and the target keeps receiving tablets from others.
NoLoadInversion ==
    pc = "done" =>
        \A i \in DOMAIN plan : ~LessLoad(AvgLoad(plan[i].src[1]), AvgLoad(target))

\* The replicas of tablet t once the plan is applied to the snapshot.
AppliedReplicas(t) ==
    (replicas[t] \ {plan[i].src : i \in {j \in DOMAIN plan : plan[j].tablet = t}})
    \cup {plan[i].dst : i \in {j \in DOMAIN plan : plan[j].tablet = t}}

\* Executing the plan keeps every tablet's replicas on distinct hosts
\* (spec section 1: no duplicate replicas on a node), although the check of
\* lines 356-361 looks only at the snapshot's replica list.
PlanKeepsReplicasOnDistinctHosts ==
    pc = "done" =>
        \A t \in Tablet :
            Cardinality(HostsOf(AppliedReplicas(t))) = Cardinality(replicas[t])

\* The comment of lines 293-297: during the loop the target's avg_load is not
\* greater than that of any node still in nodes_by_load.
TargetNotAboveCandidates ==
    pc = "loop" => \A h \in nodesByLoad : ~LessLoad(AvgLoad(h), AvgLoad(target))

\* Every planning call returns: the selection loop cannot spin, each of its
\* iterations consumes a candidate, a shard, a node or a plan slot.
Terminates == <>(pc \in {"done", "error"})


=============================================================================
