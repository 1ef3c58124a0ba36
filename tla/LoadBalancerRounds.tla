-------------------------- MODULE LoadBalancerRounds --------------------------
(***************************************************************************)
(* Rounds of balancing (the comment of lines 31-33): the planner of        *)
(* LoadBalancer runs on a snapshot, the executor applies the plan it       *)
(* returns, and the planner is invoked again on the new placement, until a  *)
(* call returns an empty plan.  The executor is not in the repository; it  *)
(* is modelled from the spec (section 1: a separate executor applies the   *)
(* plan and re-invokes the planner) as one step that moves every replica   *)
(* of the plan and starts the next call.                                   *)
(***************************************************************************)
EXTENDS LoadBalancer

\* The executor applies a non-empty plan and the planner is invoked again
\* on the resulting placement with fresh state (load_balancer is rebuilt by
\* balance_tablets, lines 430-433).
Apply ==
    /\ pc = "done"
    /\ plan # <<>>
    /\ replicas' = [t \in Tablet |-> AppliedReplicas(t)]
    /\ pc' = "prepare"
    /\ load' = [h \in Host |-> 0]
    /\ shardLoad' = [h \in Host |-> [s \in Shard |-> 0]]
    /\ candidates' = [h \in Host |-> [s \in Shard |-> {}]]
    /\ shardsByLoad' = [h \in Host |-> {}]
    /\ nodesByLoad' = {}
    /\ maxOff' = <<0, 1>>
    /\ target' = NoHost
    /\ batchSize' = 0
    /\ sketch' = [s \in Shard |-> 0]
    /\ plan' = <<>>
    /\ UNCHANGED <<shardCount, pending>>

RNext == Next \/ Apply

\* The executor applies every plan and the planner is invoked again; the
\* coroutine is resumed after every yield.
RSpec == Init /\ [][RNext]_vars /\ WF_vars(RNext)

-----------------------------------------------------------------------------

\* avg_load of node h in the current snapshot (lines 165-178 applied to it).
DcLoad(h) == <<Cardinality(HostTablets(h)), shardCount[h]>>

\* The difference between the largest and the smallest avg_load of the DC,
\* as a fraction.
Spread ==
    LET hi == CHOOSE h \in DcNodes : \A g \in DcNodes : ~LessLoad(DcLoad(h), DcLoad(g))
        lo == CHOOSE h \in DcNodes : \A g \in DcNodes : ~LessLoad(DcLoad(g), DcLoad(h))
    IN  <<DcLoad(hi)[1] * DcLoad(lo)[2] - DcLoad(lo)[1] * DcLoad(hi)[2],
          DcLoad(hi)[2] * DcLoad(lo)[2]>>

\* Applying a plan never widens the gap between the most and the least
\* loaded node of the DC: the guards of lines 302-322 keep every source at
\* or above the target, so no round makes the cluster less balanced.
SpreadNeverGrows == [][Apply => ~LessLoad(Spread, Spread')]_vars

\* Iterating the planner converges (lines 31-33): some call returns an
\* empty plan, or refuses the topology, after finitely many rounds.
Converges == <>(pc \in {"done", "error"} /\ plan = <<>>)
==============================================================================
