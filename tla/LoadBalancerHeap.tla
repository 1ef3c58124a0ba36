--------------------------- MODULE LoadBalancerHeap ---------------------------
(***************************************************************************)
(* make_plan(dc) with nodes_by_load as the vector it is (lines 256-278,     *)
(* 286-406): built by std::make_heap in the iteration order of the         *)
(* unordered_map nodes, popped with std::pop_heap at the top of every      *)
(* iteration and put back by the deferred std::push_heap.  The comparator  *)
(* reads the current avg_load of each node, so the target, whose           *)
(* tablet_count grows at line 391 while it stays in the vector, is         *)
(* compared with its new key by heap operations that assume the old one.   *)
(*                                                                         *)
(* Every other piece of state and every branch of the loop is that of      *)
(* LoadBalancer, which this module instantiates with nodesByLoad mapped to *)
(* the elements of the vector.  That LoadBalancer's Spec, whose heap pops  *)
(* a most loaded node, is implied by this one is the refinement checked.   *)
(***************************************************************************)
EXTENDS Naturals, SequencesExt, HeapOps

CONSTANTS Host, Tablet, Table, TableOf, Dc, DcOf, RackOf, Normal, MaxShards,
          ShardCountChoices, RF, PendingChoices, NoHost

VARIABLES shardCount, replicas, pending, pc, load, shardLoad, candidates,
          shardsByLoad,
          heap,         \* the vector nodes_by_load
          maxOff, target, batchSize, sketch, plan

hvars == <<shardCount, replicas, pending, pc, load, shardLoad, candidates,
           shardsByLoad, heap, maxOff, target, batchSize, sketch, plan>>

LB == INSTANCE LoadBalancer WITH nodesByLoad <- ToSet(heap)

\* nodes_cmp's keys when the tablet counts are ld.
Keys(ld) == [h \in Host |-> <<ld[h], shardCount[h]>>]

Init == heap = <<>> /\ LB!Init

HReject == UNCHANGED heap /\ LB!Reject

HReturnEmpty == UNCHANGED heap /\ LB!ReturnEmpty

\* push_back of every node in the order of nodes (lines 262-276), then
\* make_heap (line 278).
HPrepare ==
    /\ \E order \in SetToSeqs(LB!DcNodes) :
          heap' = MakeHeap(order, Keys(LB!NodeTabletCount))
    /\ LB!Prepare

HFinish == UNCHANGED heap /\ LB!Finish

\* pop_heap at the top of the loop (lines 289-290): the source is the last
\* element afterwards.
Popped == PopHeap(heap, Keys(load))

Source == Last(Popped)

\* The deferred push_heap of the source (lines 331-333), with its key after
\* the branch.
PushBack(ld) == PushHeap(Popped, Keys(ld))

\* One of the breaks of lines 302-322: the vector stays popped.
HStopLoop == LB!LoopRuns /\ heap' = Popped /\ LB!StopLoopFrom(Source)

\* pop_back of a node without candidate shards (line 329).
HDropNode == LB!LoopRuns /\ heap' = Front(Popped) /\ LB!DropNodeFrom(Source)

HDropShard(s) ==
    LB!LoopRuns /\ heap' = PushBack(load) /\ LB!DropShardFrom(Source, s)

HSkipCandidate(s, t) ==
    LB!LoopRuns /\ heap' = PushBack(load) /\ LB!SkipCandidateFrom(Source, s, t)

\* The tablet counts after a move from src (lines 391 and 400).
Moved(src) == [load EXCEPT ![target] = @ + 1, ![src] = @ - 1]

\* A move; the source is popped for good when it has no tablets left
\* (lines 401-404), pushed back otherwise.
HMigrate(s, t) ==
    /\ LB!LoopRuns
    /\ heap' = IF load[Source] = 1 THEN Front(Popped) ELSE PushBack(Moved(Source))
    /\ LB!MigrateFrom(Source, s, t)

Next ==
    \/ HReject \/ HReturnEmpty \/ HPrepare \/ HFinish
    \/ HStopLoop \/ HDropNode
    \/ \E s \in LB!Shard :
          \/ HDropShard(s)
          \/ \E t \in Tablet : HSkipCandidate(s, t) \/ HMigrate(s, t)

\* The planning coroutine is resumed after every maybe_yield (line 287).
Spec == Init /\ [][Next]_hvars /\ WF_hvars(Next)

-----------------------------------------------------------------------------

\* std::pop_heap and std::push_heap require the range to be a heap under
\* the comparator ([pop.heap], [push.heap] of the C++ standard): whenever
\* the loop pops (line 289), nodes_by_load is a heap of the current
\* avg_loads.
HeapValidAtPop == LB!LoopRuns => IsHeap(heap, Keys(load))

\* Refinement: every node the vector's pop_heap returns is one a priority
\* queue of the current avg_loads could return (a most loaded node, or,
\* once the target is above all others, the target or a most loaded other
\* node), so the in-place growth of the target's key (line 391) never makes
\* the loop take a less loaded source.  Fairness is left out: the loop's
\* termination is Terminates of LoadBalancer.
Refinement == LB!Init /\ [][LB!Next]_(LB!vars)
==============================================================================
