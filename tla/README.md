# Verification of the tablet load balancer

This directory holds TLA+ models of the tablet load balancer in
`src/service/tablet_allocator.cc`: TLC configurations that model-check them
on small instances, and TLAPS proofs of type correctness, of the
planner's bookkeeping and plan invariants, of its load-range action property and invariant,
and of safe teardown.
`PROJECT.json` lists the components, runs, mutants, the map from
definitions to source lines, the findings, the hazards and the theorems.

## The system

| Part | Code | Role |
|---|---|---|
| per-DC planner | `load_balancer::make_plan(sstring dc)`, lines 144-428 | For one DC: computes per-node and per-shard loads, picks the least-loaded node as target, then loops. Each loop step pops the most-loaded node (heap `nodes_by_load`) and its most-loaded shard (heap `shards_by_load`), then takes one candidate tablet of that shard. It checks the replication constraints and emits a migration to the target. |
| load sketch | `locator::load_sketch` (not in `src/`) | Chooses the target shard of each migration. |
| aggregator | `load_balancer::make_plan()`, lines 129-142 | Runs the per-DC planner for each DC and concatenates the plans. |
| entry point | `balance_tablets`, lines 430-433 | Builds a `load_balancer` and awaits `make_plan()`. |
| executor | not in the repository (spec section 1) | Applies a plan and invokes the planner again; balance is reached over rounds. |
| allocator | `tablet_allocator_impl`, lines 435-491 | Registers as a migration listener and adds tablet-map mutations on DDL. `stop()` unregisters it, and the destructor asserts that `stop()` completed. |
| backup task | `src/db/snapshot/backup_task.hh` | Declarations only; no bodies in the repository. |

The planner reads an immutable snapshot: normal nodes, shard counts, DC and
rack, tablet replicas, and pending transitions. It runs as one Seastar
coroutine and yields cooperatively (`maybe_yield`, line 287). Nothing else
touches its state. What makes it hard is sequential, not concurrent:

- a long chain of heap pops, skips and moves;
- several counters that must stay in step;
- three different loop exits;
- constraints evaluated against the snapshot while the plan is being built.

## Modules

- **`LoadBalancer.tla`** models one call of `make_plan(dc)`.
  - **State:**
    - the snapshot (`shardCount`, `replicas`, `pending`), chosen in `Init` among all well-formed placements and left unchanged;
    - the planner's variables, one per local of the code:
      - `load`, which is `node_load::tablet_count`;
      - `shardLoad` and `candidates`, which are `shard_load`;
      - `shardsByLoad`;
      - `nodesByLoad`;
      - `maxOff`, which is `max_off_candidate_load`;
      - `target`;
      - `batchSize`;
      - `sketch`;
      - `plan`;
    - the phase `pc`.
  - **Actions:** one per path through the code.
    - `Reject`: the throw at line 157 or `on_internal_error` at 171.
    - `ReturnEmpty`: balanced at line 196, or pending transitions at line 233.
    - `Prepare`: lines 200-285, with the choice of target among all least-loaded nodes.
    - `Finish`: the `while` condition fails.
    - `StopLoop`: one of the three `break`s, at lines 302, 309 and 317.
    - `DropNode`: lines 324-330.
    - `DropShard`: lines 339-343.
    - `SkipCandidate`: replica on target, or rack overload, at lines 348-385.
    - `Migrate`: lines 387-405, including every counter and heap update.
  - **Data abstractions:**
    - `avg_load` is an exact fraction `<<tablets, shards>>`, compared by cross-multiplication.
    - A heap is the set of its elements; a pop takes any element of maximal key, because ties are broken arbitrarily by `std::pop_heap`.
    - `load_sketch::next_shard` is the least-loaded shard of the target, lowest id first (from the spec).
    - The choice of `*candidates.begin()` of an `unordered_set` is any candidate.
- **`MC_LoadBalancer.tla`**: model values and the small functions (table of a tablet, DC, rack, RF) for the cfgs, plus symmetry sets.
- **`LoadBalancerProofs.tla`**: the inductive invariant and the TLAPS proof of `TypeCorrect`.
- **`LoadBalancerPlanProofs.tla`**: the TLAPS proofs of `PlanMovesSnapshotReplicas`, `BookkeepingMatchesPlan` and `LoadsStayWithinRange`.
- **`LoadBalancerRangeProofs.tla`**: the TLAPS proof of `LoadsWithinSnapshotRange`.
- **`HeapOps.tla`** models the libstdc++ heap algorithms that `make_plan` applies to `nodes_by_load` with `nodes_cmp`: `std::make_heap` (line 278), `std::pop_heap` (line 289, `__adjust_heap`: descend to the larger child, take a lone left child at the end of an even range, sift the old back element up) and `std::push_heap` (line 333). A key is read through a function when compared, so a key that changed since the last heap operation is seen with its new value, as in the code. The sift loops are `RECURSIVE` operators, so no proof module uses it. The operators are library code, not code of this repository, so no run checks them on their own; they are checked through what the planner does with them (`Refinement`, `HeapValidAtPop`).
- **`LoadBalancerHeap.tla`** is `make_plan(dc)` with `nodes_by_load` as the vector. It instantiates `LoadBalancer` with `nodesByLoad <- ToSet(heap)` and adds to every loop action the vector operation of the code: `pop_heap` at the top, `pop_back` when a node runs out of shards or tablets, the deferred `push_heap` otherwise, with the keys after the branch. The target's key grows at line 391 while it is in the vector.
- **`LoadBalancerRounds.tla`** extends `LoadBalancer` with the executor's step `Apply`: the plan's migrations are applied to the snapshot and the planner starts again with fresh state, as `balance_tablets` builds a new `load_balancer` per call. The executor is not in the repository and is modelled from the spec.
- **`TabletAllocatorLifecycle.tla`** models `tablet_allocator_impl`'s lifetime: registration in the constructor (line 444), `stop()` suspended at `co_await unregister_listener` and then setting `_stopped` (453-456), the destructor (449-451), and `on_before_create_column_family` suspended in `.get0()` (458-466), one per table in `Schema`. The notifier (a hook is called only on a registered listener; unregister resolves once no hook runs, and no new hook starts while it waits) and the owner (destroys after `stop()` resolved) are modelled from their contracts. The drop hooks do not suspend and change no state of the allocator, so they are not actions.
- **`TabletAllocatorLifecycleProofs.tla`**: the TLAPS proof of `TeardownSafe`.

## Runs

| Run | Instance | Checks | Result |
|---|---|---|---|
| `bookkeeping` (`MC_LoadBalancer.cfg`) | 3 normal nodes, 1 rack, 1-2 shards each, 4 tablets with RF 2, host and tablet symmetry | `BookkeepingMatchesPlan`, `PlanMovesSnapshotReplicas`, `LoadsWithinSnapshotRange`, action property `LoadsStayWithinRange` | pass |
| `racks_types` (`MC_LoadBalancer_racks.cfg`) | 2 racks, a non-normal node and a node of another DC holding replicas, RF 1 and 2, pending transitions optional, no symmetry | `TypeOK` | pass |
| `termination` (`MC_LoadBalancer_termination.cfg`) | 3 nodes of one DC in 2 racks, one of them not normal, RF 1 and 2, pending transitions optional, no symmetry | liveness `Terminates` | pass |
| `double_move` | 3 nodes, RF 2 | `PlanKeepsReplicasOnDistinctHosts` | violation (code bug) |
| `candidate_order` | 3 nodes, RF 2 | `TargetNotAboveCandidates` | violation (comment at 293-297 is wrong) |
| `load_inversion` | 3 nodes, RF 1 and 2, 4 tablets | `NoLoadInversion` | violation (guard at 317 is pairwise) |
| `heap_refinement` (`MC_LoadBalancerHeap.cfg`) | 4 normal nodes in 2 racks, 2 RF-2 tablets, every `make_heap` input order, symmetry of the 3 nodes of rack r2 and of tablets | `Refinement` (`LoadBalancer`'s safety spec) | pass |
| `heap_precondition` (`MC_LoadBalancerHeap_corrupt.cfg`) | 4 nodes, 1 rack, 4 RF-1 tablets, host and tablet symmetry | `HeapValidAtPop` | violation (UB at line 289) |
| `rounds` (`MC_LoadBalancerRounds.cfg`) | 3 nodes with 1-2 shards, 4 RF-1 tablets anywhere, no symmetry | action property `SpreadNeverGrows`, liveness `Converges` | pass |
| `lifecycle` (`MC_TabletAllocatorLifecycle.cfg`) | 6 tables whose create hooks interleave with `stop()` | `SafeTeardown` | pass |

What the properties say:

- **`BookkeepingMatchesPlan`:** the per-node and per-shard counters equal the snapshot's counts adjusted by the migrations in the plan. A shard's candidates are tablets the snapshot has on it, and none of them has already been chosen from it.
- **`PlanMovesSnapshotReplicas`:** every migration moves a replica that the snapshot has to a node that holds none of that tablet's replicas in the snapshot.
- **`LoadsStayWithinRange`:** no step moves a node's avg_load outside the range spanned by the loads before the step.
- **`LoadsWithinSnapshotRange`:** over the whole loop and in the returned plan, every node's `tablet_count` stays between the avg_loads of the least and the most loaded node of the snapshot. A single step staying in range does not give this by itself, because each step's range is that of the state before it.
- **`Terminates`:** every call returns. Each iteration consumes a candidate, a shard, a node or a plan slot.
- **`Refinement`:** every step of the vector model is a step, or a stutter, of `LoadBalancer` under the mapping `nodesByLoad <- ToSet(heap)`. A pop is compared together with what the loop then does with the popped node, not on its own. So the run shows that every iteration the vector makes is an iteration a priority queue of the current loads allows. A node popped out of order goes unnoticed when the loop then breaks, because a break leaves the planner's state as a break from a most loaded node would. The heap can only be wrong on edges into the target, whose key grew, so a node popped out of order is below the target, and the loop breaks at line 309 either way. Fairness is left out of the refined formula so that symmetry stays sound; termination is `Terminates`.
- **`HeapValidAtPop`:** `pop_heap` is called on a heap of the current keys (the standard's precondition).
- **`SpreadNeverGrows`:** applying a plan never widens the gap between the largest and smallest avg_load of the DC.
- **`Converges`:** planning and applying in rounds reaches an empty plan (the comment at lines 31-33). With RF 1 the executor's step is exact; with RF 2 the double move of finding 1 would make `Apply` produce a placement the code does not intend.
- **`SafeTeardown`:** a destroyed allocator has `_stopped` set (the destructor's assert holds), is out of the notifier's vector and has no hook suspended in it.

Every property of a passing run is killed by a mutant of the code it is about (see `mutants`):

- a missing decrement of the source node count;
- an inversion check made against the load before the move;
- a replica-on-target check that looks at one shard only;
- a decrement of the wrong shard;
- a drop of an exhausted shard that drops nothing.
- a heap descent that always takes the left child, and a sift-up of one level;
- a `pop_heap` that swaps without sifting;
- an inversion guard against the loads before the move (for both round properties: the planner then moves a tablet back and forth);
- a `stop()` that drops the future of `unregister_listener` instead of awaiting it;
- a notifier that lets new hooks start while unregister waits.

**Bounds.**

- Two shard counts (1 and 2) give unequal avg_loads, ties and the inversion case.
- Four tablets over three nodes give batches of up to two moves and sources that run dry.
- RF 2 makes the replica-on-target skip and the double move reachable.
- The racks instances make the rack check skip candidates until a shard, then a node, runs out of them (`DropShard`, `DropNode`). `racks_types` also covers replicas on nodes outside the balanced set (the `nodes.contains` filters). `termination` leaves out the node of the other DC, whose replicas the loop's filters skip, so that its liveness check stays small.

- The heap runs have four nodes, so that the vector has a node with two children and one with a single left child (the even-length case of `__adjust_heap`), and batches of two moves (`MaxShards` = 2) so that a grown key meets a later pop.
- The rounds run starts from every placement of four tablets on three nodes, so every intermediate placement is itself an initial state; the graph is shallow but contains every round.
- The lifecycle run needs one hook to show the ordering in `stop()`, and several so that hooks keep starting and ending while `stop()` waits.

Together, the passing runs fire every action.

**Fairness.** `WF_vars(Next)` is assumed. The planner is a single coroutine that the Seastar reactor resumes after each `maybe_yield`, and no other task can disable its steps. The liveness run uses no symmetry, because symmetry reduction is unsound for liveness. In `LoadBalancerRounds`, weak fairness also covers `Apply`: the spec's executor applies each plan and invokes the planner again. The lifecycle model states no fairness: its only property is the safety property `SafeTeardown`. That `stop()` returns depends on the notifier letting no new hook start while unregister waits. The notifier is not in `src/`, so no property of the allocator is about it.

**Symmetry.** Host symmetry is used only where hosts are alike in the constants: all of them in `bookkeeping` and `heap_precondition`, and the three nodes of rack r2 in `heap_refinement`.

## Findings

1. **Double move (code bug, line 357).** `has_replica_on_target` and `rack_load` read the tablet's replica list from the snapshot, not as changed by the migrations already in the plan. A tablet with replicas on `h1` and `h2` can therefore be moved from both to `h3` in one plan. Applying the plan puts two replicas of the tablet on `h3`, against the spec's "no duplicate replicas on a node".
2. **Ordering claim (comment, lines 293-297).** When two nodes tie for the least load, the target's avg_load rises above that of the other tied node, which is still a candidate.
3. **Load inversion (spec gap, line 317).** The guard compares only the current source with the target. A node drained earlier in the same plan can end below the target.
4. **`pop_heap` on a non-heap (code bug, lines 289 and 391).** The target stays in `nodes_by_load` while its `tablet_count` grows. The next `std::pop_heap` therefore gets a range that is not a heap under `nodes_cmp`. The trace: shard counts 1, 1, 1, 2, four tablets on the first node, target the two-shard node. After one move its key 1/2 sits below a node of key 0. This breaks the precondition of `[pop.heap]`, which is undefined behaviour; libstdc++'s debug mode would abort. With libstdc++'s actual algorithm, `Refinement` shows that every iteration that follows such a pop is one the priority-queue model allows.

## Proofs

`TabletAllocatorLifecycleProofs.tla` proves `THEOREM TeardownSafe == Spec => []SafeTeardown` for every non-empty set of tables. The strengthening `IInv` says: once unregister resolved, the allocator is out of the vector and no hook runs; `_stopped` is set exactly when `stop()` has returned; the owner destroys only after that. `SafeTeardown` alone is not inductive: a state with `stopPc = "returned"` and a hook still running satisfies it, and `Destroy` would leave it. The proof has one step per action.


`LoadBalancerProofs.tla` proves `THEOREM TypeCorrect == Spec => []TypeOK` for every value of the constants allowed by `ConstantsAssumption`.

`TypeOK` is not inductive by itself, so the proof uses the strengthening `IInv == TypeOK /\ CandidatesCounted /\ LoopOverDcNodes`:

- `CandidatesCounted`: a shard has no more candidates than tablets. This is why the unsigned decrements of `Migrate` stay in `Nat`.
- `LoopOverDcNodes`: in the loop, the target and the heap's nodes are nodes of the DC with non-zero shard counts. This is why `maxOff` keeps a non-zero denominator.

`IInv` was first checked with TLC as an invariant of both passing runs. The proof has:

- one lemma per action (`PrepareIInv`, `DropNodeIInv`, `DropShardIInv`, `SkipCandidateIInv`, `MigrateIInv`);
- `NextIInv`, which combines them;
- a final PTL step.

Some things stay with TLC, because they are out of the prover's reach:

- liveness (`Terminates`, `Converges`) and anything about `ENABLED`;
- induction over data;
- properties about recursive definitions (`HeapOps`, and so `Refinement` and `HeapValidAtPop`).

`LoadBalancerPlanProofs.tla` builds on `IInv` and proves three more theorems.

`THEOREM PlanMovesSnapshotReplicasHolds == Spec => []PlanMovesSnapshotReplicas`. The invariant is not inductive alone: a `Migrate` step keeps it only if the chosen tablet is still on the source shard and has not been chosen from it before. The strengthening `PInv` adds:

- `CandidatesOnShard`: every candidate of shard `s` of `h` has a replica on `<<h, s>>` in the snapshot (lines 239-252 fill the sets, lines 349 and 394 only remove from them).
- `ChosenNotCandidate`: the tablet of every migration is no longer a candidate of its source shard (line 349 erases it before the move). This is what makes the (tablet, source) pairs distinct.
- `PlanOnlyInLoop`: before `Prepare` the plan is empty, so `Prepare`, which rebuilds the candidate sets, cannot make an old migration's tablet a candidate again.

The lemma `SourceIsNotTarget` derives from the break of lines 309-314 (`NotAboveTarget`) that the source differs from the target, and `MigratePInv` handles the appended migration and the old ones separately.

`THEOREM BookkeepingHolds == Spec => []BookkeepingMatchesPlan`. The candidate conjuncts follow from `PInv`; the counter conjuncts are `CountersMatchPlan`, which is proved inductive together with `IInv` and `PInv`. `Prepare` sets the counters to the snapshot's counts while the plan is empty. `Migrate` appends index `Len(plan) + 1` to exactly one of the source's, the target's and the source shard's index sets, so each count grows by one (`IndexSetCard`, from `FS_AddElement`). `SourceIsNotTarget` is what keeps the `+1` and the `-1` of lines 391-394 on different nodes. `PInv` and `CountersMatchPlan` were checked with TLC as invariants of both passing runs of `MC_LoadBalancer` before they were proved.

`THEOREM LoadsStayWithinRangeHolds == Spec => LoadsStayWithinRange`, an action property. Its step predicate is named `LoadStepInRange`. Only `Migrate` changes a load. The source's new load lies between the target's old load and its own, and the target's new load lies between its own and the source's. Both facts come from `~WouldInvert` (lines 316-322), cross-multiplied, with the distributive facts stated as their own step because the SMT backend does not find them. `IInv` is needed for the source and target to be distinct nodes of the DC. The step fact is the lemma `NextInRange`: `IInv /\ [Next]_vars => [LoadStepInRange]_vars`.

`LoadBalancerRangeProofs.tla` proves `THEOREM LoadsWithinSnapshotRangeHolds == Spec => []LoadsWithinSnapshotRange` by chaining `NextInRange` over the loop:

- the strengthening `RInv` adds `PrepareHasNoTarget`: before `Prepare` the target is still `NoHost`. So the calls that return early (`Reject`, `ReturnEmpty`) have no target and the property is vacuous for them;
- `Prepare` sets every load to the snapshot's, so each node is its own bound;
- in a loop step, `NextInRange` puts a node's new load below some old load, which `RInv` puts below some snapshot load, and likewise from above. The lemma `LoadLeqTrans` ("not less than" on fractions is transitive when the middle one has a non-zero shard count) joins the two. `LoopOverDcNodes` supplies the non-zero shard counts.

`RInv` was checked with TLC as an invariant of both passing runs of `MC_LoadBalancer` before it was proved.

## Not modelled

- The aggregator over several DCs (lines 129-142). It concatenates per-DC plans that share no planner state, so one DC's run is the interesting part.
- The mutations the schema hooks append, built by code outside `src/`, and the drop hooks, which do not suspend and change no allocator state.
- `shards_by_load` as a vector: a shard's key changes only while it is popped out, so the priority-queue abstraction is exact for it.
- Rounding of `double` avg_loads at large counts (line 196), which a bounded model cannot reach.
- The backup task, which has no bodies.
- Proofs about the heap vector: `Refinement` and `HeapValidAtPop` are model-checked only, because `HeapOps` is recursive. `SpreadNeverGrows` (`LoadBalancerRounds`) is model-checked only. `Spread` picks the most and the least loaded node with `CHOOSE`. A proof must show that such nodes exist in every finite DC, which needs induction over finite sets, and the library's induction theorems take an operator parameter that the installed provers cannot instantiate. It would also need the placement after `Apply` related to the planner's counters, which differ when a plan moves two replicas of one tablet to the target (`double_move`). `LoadsWithinSnapshotRangeHolds` proves the planner's half of the argument.
