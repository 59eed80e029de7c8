----------------------------- MODULE ExecutionPlan -----------------------------
(***************************************************************************)
(* The sizing and ordering of one basket by                                *)
(* execution_microstructure_plan.py (_plan_for_candidate, _leg_plan,       *)
(* _order_recommendation), and the legs the executor takes from the plan   *)
(* (_ordered_plan_legs of live_crypto_micro_executor.py).                  *)
(*                                                                         *)
(* Prices, fees and notionals are integers of one unit (a cent); a         *)
(* contract pays One.  Legs are records (PlannedExecution!BasketLeg).     *)
(***************************************************************************)
EXTENDS Integers, Sequences, FiniteSetsExt, SequencesExt

CONSTANTS
    One,        \* the payoff of a contract that settles in favour of its holder
    Slip,       \* max_slippage_price
    MaxTotal,   \* max_total_notional
    MaxLeg,     \* max_leg_notional
    MinEdge,    \* min_net_edge
    Parallel    \* the effective style is parallel_protected_limit

ASSUME PriceAssumption == One \in Nat \ {0} /\ Slip \in Nat
ASSUME NotionalAssumption ==
    MaxTotal \in Nat /\ MaxLeg \in Nat /\ MinEdge \in Nat
ASSUME StyleAssumption == Parallel \in BOOLEAN

NoSize == -1      \* available_size_or_cap is None
Thin == 10        \* fewer contracts than this is a thin leg

\* The protected limit: ask plus slippage, never above the payoff; a CDNA
\* display price gets no slippage.
MaxLimitPrice(leg) ==
    IF leg.platform = "cdna" THEN leg.ask ELSE Min({leg.ask + Slip, One})

AllInMaxCost(leg) == MaxLimitPrice(leg) + leg.fee

\* total_all_in_per_unit.
UnitCost(basket) == FoldLeft(LAMBDA acc, leg : acc + AllInMaxCost(leg), 0, basket)

\* How many times a cost fits a budget.
Affords(budget, cost) == IF cost > 0 THEN budget \div cost ELSE 0

\* Mutant: a leg is sized at the quoted ask, without slippage.
LegQuantityAtAsk(leg) ==
    LET perLeg == Affords(MaxLeg, leg.ask + leg.fee)
    IN  IF leg.size = NoSize THEN perLeg ELSE Min({perLeg, leg.size})

LegQuantity(leg) ==
    LET perLeg == Affords(MaxLeg, AllInMaxCost(leg))
    IN  IF leg.size = NoSize THEN perLeg ELSE Min({perLeg, leg.size})

\* Mutant: the total budget is not one of the caps.
QuantityWithoutTotal(basket) ==
    IF basket = <<>> THEN 0
    ELSE Min({LegQuantity(basket[i]) : i \in DOMAIN basket})

\* basket_qty: the smallest of the total cap and every leg's cap.
BasketQuantity(basket) ==
    IF basket = <<>> THEN 0
    ELSE Min({Affords(MaxTotal, UnitCost(basket))}
             \cup {LegQuantity(basket[i]) : i \in DOMAIN basket})

\* per_leg_urgency, by rank.
Urgency(leg) ==
    IF leg.platform = "cdna" THEN 0
    ELSE IF leg.complement \/ leg.size \in 0..(Thin - 1) THEN 1
    ELSE IF leg.platform = "kalshi" THEN 2
    ELSE 3

\* Mutant: the most liquid leg goes first.
MoreLiquid(basket, i, j) ==
    \/ Urgency(basket[i]) > Urgency(basket[j])
    \/ Urgency(basket[i]) = Urgency(basket[j]) /\ i < j

\* The leg at position i goes before the one at position j.
GoesBefore(basket, i, j) ==
    \/ Urgency(basket[i]) < Urgency(basket[j])
    \/ Urgency(basket[i]) = Urgency(basket[j]) /\ i < j

\* The stable sort by urgency, as positions of the basket.
WorstLegFirst(basket) ==
    CHOOSE p \in [DOMAIN basket -> DOMAIN basket] :
        \A i, j \in DOMAIN basket : i < j => GoesBefore(basket, p[i], p[j])

\* leg_order_recommendation["sequence"]: market ids, without the side.
MarketSequence(basket) ==
    LET positions == IF Parallel THEN [i \in DOMAIN basket |-> i]
                                 ELSE WorstLegFirst(basket)
    IN  [i \in DOMAIN basket |-> basket[positions[i]].market]

\* by_id[m]: the last leg of the plan with that market id.
LegOfMarket(basket, m) == basket[Max({i \in DOMAIN basket : basket[i].market = m})]

\* _ordered_plan_legs.
OrderedLegs(basket) ==
    LET sequence == MarketSequence(basket)
    IN  [i \in DOMAIN basket |-> LegOfMarket(basket, sequence[i])]

\* Mutant: the edge is judged at the quoted asks.
ExecutableAtAsks(basket, minPayoff) ==
    /\ minPayoff - FoldLeft(LAMBDA acc, leg : acc + leg.ask, 0, basket) > 0
    /\ BasketQuantity(basket) > 0

\* The conditions of executable_intent that depend on the sizing: a positive
\* edge, at least min_net_edge, with every leg at its limit, and a quantity.
ExecutableIntent(basket, minPayoff) ==
    /\ minPayoff - UnitCost(basket) > 0
    /\ minPayoff - UnitCost(basket) >= MinEdge
    /\ BasketQuantity(basket) > 0
================================================================================
