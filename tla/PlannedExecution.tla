--------------------------- MODULE PlannedExecution ---------------------------
(***************************************************************************)
(* A plan of ExecutionPlan carried out by LiveExecution, as                *)
(* _process_trigger of live_crypto_micro_executor.py joins them once every *)
(* gate is passed: the orders are those of _ordered_plan_legs, with        *)
(* basket_quantity_cap as their quantity cap and the slippage-capped limit *)
(* of their leg.  A fill at the limit is the dearest the venue may give.   *)
(***************************************************************************)
EXTENDS LiveExecution, ExecutionPlan

CONSTANTS
    Baskets,      \* baskets of N legs a scan may offer
    MinPayoff     \* min_payoff of each of them

BasketLeg == [platform : STRING, market : STRING, side : STRING, ask : Nat, fee : Nat,
              size : Nat \cup {NoSize}, complement : BOOLEAN]

ASSUME BasketsAssumption == Baskets \subseteq [1..N -> BasketLeg]
ASSUME PayoffAssumption == MinPayoff \in Nat

VARIABLE basket   \* the basket of the plan being executed

plannedVars == <<vars, basket>>

PlannedInit ==
    /\ basket \in {b \in Baskets : ExecutableIntent(b, MinPayoff)}
    /\ Init
    /\ cap = BasketQuantity(basket)

PlannedNext ==
    \/ Executor /\ UNCHANGED basket
    \/ Venue /\ UNCHANGED basket
    \/ OperatorTogglesKill /\ UNCHANGED basket

PlannedSpec == PlannedInit /\ [][PlannedNext]_plannedVars

-------------------------------------------------------------------------------
Orders == OrderedLegs(basket)

\* What the contracts held for order k cost at most.
Spent(k) == order[k].filled * AllInMaxCost(Orders[k])

SpentOn(ks) == MapThenSumSet(LAMBDA k : Spent(k), ks)

\* max_leg_notional bounds what one order can cost, fees and slippage included,
\* even when it fills late or its cancel is lost.  The quantity is the same for
\* all legs, so it must fit the cap at the limit of every one of them.
LegNotionalKept ==
    \A k, i \in Legs : order[k].filled * AllInMaxCost(basket[i]) <= MaxLeg

\* max_total_notional bounds what all the legs together can cost.
TotalNotionalKept == SpentOn(Legs) <= MaxTotal

\* A trade that ends without an emergency, and for none of the causes that keep one from
\* being raised, earns the minimum edge on all it bought: not one contract of any leg is
\* left over, whatever filled in part, late or after a lost cancel, and the baskets that
\* fill earn the edge at the limits and not only at the asks they were judged by
\* (net_edge_after_fees_at_max_limits).
QuietTradeEarnsEdge ==
    (pc = "done" /\ ~emergency /\ ~QuietCause) =>
        \A k \in Legs : SpentOn(Legs) <= order[k].filled * (MinPayoff - MinEdge)

\* An order goes to an urgent leg before a less urgent one, so the leg least
\* likely to fill is never left over as a hedge of an easier one.
HardestLegFirst ==
    ~Parallel => \A j, k \in Legs :
        (j < k /\ order[k].filled > 0) =>
            order[j].filled > 0 /\ Urgency(Orders[j]) <= Urgency(Orders[k])
================================================================================
