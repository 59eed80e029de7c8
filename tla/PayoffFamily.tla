------------------------------ MODULE PayoffFamily ------------------------------
(***************************************************************************)
(* The bounded no-arbitrage diagnostic of market-graph-consistency         *)
(* (graph_engine/bounded_noarb.py): a family of contracts comes with the   *)
(* states of the world and what every contract pays in each.  Prices are   *)
(* feasible if, within a tolerance, they are a mixture of the states'      *)
(* payoffs and keep the bound of the family's type.                        *)
(*                                                                         *)
(* The code solves square systems in floating point; here they are solved  *)
(* exactly, with a common denominator, and a comparison that is decided by *)
(* the last bit falls either way.  Payoffs are whole multiples of 1.       *)
(* Gaps, confidences and reports are left out, and so are families         *)
(* without states.                                                         *)
(***************************************************************************)
EXTENDS Integers, Sequences, SequencesExt

CONSTANTS
    Families,  \* type, states (a state is what each contract pays), and whether the
               \* contracts have the roles or the thresholds that the type needs
    Prices,    \* prices to try, in parts of Unit
    Unit,      \* a price of 1
    Tolerance, \* DEFAULT_TOLERANCE, in parts of Unit
    Parts      \* mixtures to try have weights of so many parts

Types == {"exhaustive_group", "mutually_exclusive_group", "child_parent", "threshold_ladder"}

ASSUME FamiliesAssumption ==
    \A f \in Families :
       /\ f.complete \in BOOLEAN
       /\ f.states # <<>> /\ f.states \in Seq([1..Len(f.states[1]) -> Int])
ASSUME UnitAssumption ==
    /\ {Unit, Parts} \subseteq Nat \ {0} /\ Unit % Parts = 0
    /\ Tolerance \in 1..Unit /\ Prices \subseteq 0..Unit

VARIABLES
    family,  \* the family that is diagnosed
    price,   \* probability of each contract, if it has one
    mixture, \* the prices are a mixture of the states
    verdict  \* feasibility_status

vars == <<family, price, mixture, verdict>>

Sum(f, S) == SumFunctionOnSet(f, S)

Contracts == DOMAIN price
States    == DOMAIN family.states

NoPrice == -1

\* Weights of the states, in parts.
Weights(n) == {w \in [1..n -> 0..Parts] : Sum(w, 1..n) = Parts}

Mixed(states, w) ==
    [c \in DOMAIN states[1] |->
        Sum([s \in DOMAIN states |-> w[s] * states[s][c]], DOMAIN states) * (Unit \div Parts)]

Init ==
    /\ family \in Families
    /\ \/ /\ mixture = FALSE
          /\ price \in [DOMAIN family.states[1] -> Prices \cup {NoPrice}]
       \/ /\ mixture = TRUE
          /\ \E w \in Weights(Len(family.states)) : price = Mixed(family.states, w)
    /\ verdict = "none"

-------------------------------------------------------------------------------
(***************************************************************************)
(* The equations: the weights add up to 1 (row 0), and the payoffs of      *)
(* contract c add up to its price (row c).                                 *)
(***************************************************************************)

Rows == {0} \cup Contracts

Entry(row, s) == IF row = 0 THEN 1 ELSE family.states[s][row]
Rhs(row)      == IF row = 0 THEN Unit ELSE price[row]

(***************************************************************************)
(* _solve_square: Gauss-Jordan elimination, a column at a time.  A row is  *)
(* its entries with the right-hand side in column 0, all of them           *)
(* numerators over den.  A column is solved by a row that is left and has  *)
(* an entry there; without one the system is given up, with den = 0.  The  *)
(* code takes the largest entry, and one below 1e-12 for none, which is    *)
(* about rounding only.                                                    *)
(***************************************************************************)

Start(states, rows) ==
    [den    |-> 1,
     solved |-> <<>>,
     left   |-> [r \in rows |-> [s \in {0} \cup states |-> IF s = 0 THEN Rhs(r) ELSE Entry(r, s)]]]

Pivots(sys, s) == {r \in DOMAIN sys.left : sys.left[r][s] # 0}

\* Row u without its entry in column s, which v has.
Cleared(u, v, s) == [t \in DOMAIN u |-> v[s] * u[t] - u[s] * v[t]]

EliminateBy(sys, s, r) ==
    LET v == sys.left[r]
    IN [den    |-> sys.den * v[s],
        solved |-> [t \in DOMAIN sys.solved \cup {s} |->
                      IF t = s THEN [c \in DOMAIN v |-> sys.den * v[c]]
                      ELSE Cleared(sys.solved[t], v, s)],
        left   |-> [i \in DOMAIN sys.left \ {r} |-> Cleared(sys.left[i], v, s)]]

Eliminate(sys, s) ==
    IF sys.den = 0 \/ Pivots(sys, s) = {} THEN [sys EXCEPT !.den = 0]
    ELSE EliminateBy(sys, s, CHOOSE r \in Pivots(sys, s) : TRUE)

\* The numerator of each state's weight and their common denominator.
Solve(states, rows) ==
    LET upTo[n \in 0..Len(family.states)] ==
            IF n = 0 THEN Start(states, rows)
            ELSE IF n \in states THEN Eliminate(upTo[n - 1], n) ELSE upTo[n - 1]
        sys == upTo[Len(family.states)]
    IN [den |-> sys.den, num |-> [s \in DOMAIN sys.solved |-> sys.solved[s][0]]]

Size(n) == IF n < 0 THEN -n ELSE n

\* x <= y in floating point.
AtMost(x, y, tie) == x < y \/ (tie /\ x = y)

\* _residual: every equation holds up to the tolerance.
SmallResidual(x, states, tie) ==
    \A row \in Rows :
       AtMost(Size(Sum([s \in states |-> x.num[s] * Entry(row, s)], states) - Rhs(row) * x.den),
              Tolerance * Size(x.den), tie)

\* min(weights) >= -tolerance
NoNegativeWeight(x, states, tie) ==
    \A s \in states :
       AtMost(IF x.den > 0 THEN -x.num[s] ELSE x.num[s], Tolerance * Size(x.den), tie)

\* Mutant: weights may have any sign.
FitsWithAnyWeight(states, rows, tie) ==
    LET x == Solve(states, rows) IN
    /\ x.den # 0
    /\ SmallResidual(x, states, tie)

Fits(states, rows, tie) ==
    LET x == Solve(states, rows) IN
    /\ x.den # 0
    /\ SmallResidual(x, states, tie)
    /\ NoNegativeWeight(x, states, tie)

\* Mutant: the row of the weights is forgotten in the count.
WidthsOfContracts == 1..Min({Len(family.states), Len(price)})

Widths == 1..Min({Len(family.states), Len(price) + 1})

\* _convex_hull_feasible
InHull(tie) ==
    \E n \in Widths : \E states \in kSubset(n, States), rows \in kSubset(n, Rows) :
       Fits(states, rows, tie)

Total == Sum(price, Contracts)

\* _family_violations; contract 1 is the child and 2 the parent, and the contracts of
\* a ladder come with the stricter threshold first.
WithinBound(tie) ==
    LET kept(gap) == AtMost(gap, Tolerance, tie) IN
    CASE family.type = "exhaustive_group"         -> kept(Size(Total - Unit))
      [] family.type = "mutually_exclusive_group" -> kept(Total - Unit)
      [] family.type = "child_parent"             -> kept(price[1] - price[2])
      [] family.type = "threshold_ladder"         ->
            \A c \in Contracts \ {Len(price)} : kept(price[c] - price[c + 1])

-------------------------------------------------------------------------------
(***************************************************************************)
(* The diagnostic.                                                         *)
(***************************************************************************)

\* _base_blockers, _child_parent_blockers, _threshold_ladder_blockers.  A payoff that is
\* missing or no number blocks too; the families here have a payoff in every state.
Blocked ==
    \/ family.type \notin Types
    \/ Len(price) \notin 3..8
    \/ NoPrice \in Range(price)
    \/ ~family.complete

Outcomes ==
    IF Blocked THEN {"blocked"}
    ELSE {IF InHull(tie) /\ WithinBound(tie) THEN "feasible" ELSE "infeasible" : tie \in BOOLEAN}

\* _family_diagnostic
Diagnose ==
    /\ verdict = "none"
    /\ verdict' \in Outcomes
    /\ UNCHANGED <<family, price, mixture>>

Next == Diagnose

Spec == Init /\ [][Next]_vars

-------------------------------------------------------------------------------
(***************************************************************************)
(* Properties.                                                             *)
(***************************************************************************)

\* The states are what the family's type says of its contracts.
Honoured ==
    \A s \in States :
       LET pays(c) == family.states[s][c]
           paid    == Sum(family.states[s], Contracts)
       IN CASE family.type = "exhaustive_group"         -> paid = 1
            [] family.type = "mutually_exclusive_group" -> paid <= 1
            [] family.type = "child_parent"             -> pays(1) <= pays(2)
            [] family.type = "threshold_ladder"         ->
                  \A c \in Contracts \ {Len(price)} : pays(c) <= pays(c + 1)

\* _convex_hull_feasible looks at square subsystems only.  Still it never calls prices
\* infeasible that are a mixture of the states, if these keep the promise of the type:
\* some subsystem always finds a mixture.
MixturesAreFeasible == verdict = "infeasible" /\ mixture => ~Honoured

\* What a portfolio (1 bought, -1 sold) costs, and what it pays at least.
Portfolios == [Contracts -> {-1, 0, 1}]
Cost(h)      == Sum([c \in Contracts |-> h[c] * price[c]], Contracts)
Payoff(h, s) == Sum([c \in Contracts |-> h[c] * family.states[s][c]], Contracts)
Least(h)     == Min({Payoff(h, s) : s \in States})

\* What the tolerance can hide of a portfolio: a price, a weight and the sum of the
\* weights may each be off by it.
Slack(h) ==
    Tolerance * (Sum([c \in Contracts |-> Size(h[c])], Contracts)
               + Sum([s \in States |-> Payoff(h, s) - Least(h)], States)
               + Size(Least(h)))

\* A family that is called feasible has no portfolio that costs less than it pays in
\* every state, beyond what the tolerance can hide.
FeasibleHasNoArbitrage ==
    verdict = "feasible" =>
       \A h \in Portfolios : Cost(h) >= Least(h) * Unit - Slack(h)

===============================================================================
