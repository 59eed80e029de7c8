---------------------------- MODULE JournalVerdict ----------------------------
(***************************************************************************)
(* What finalize_crypto_micro_test and _verdict                            *)
(* (crypto_micro_test_journal.py) conclude from the fill records of one    *)
(* micro-test.                                                             *)
(*                                                                         *)
(* Money is in cents.  The fees of a record are those of the whole fill,   *)
(* the expected fee of a leg is per contract, as in the code; an edge per  *)
(* contract is therefore compared after multiplying with the quantity.     *)
(***************************************************************************)
EXTENDS Integers, Sequences, FiniteSets, FiniteSetsExt

CONSTANTS
    Legs,         \* leg keys of the intended legs in test_plan.json
    Intended,     \* intended_quantity, the same for every leg
    Ask,          \* Ask[l]: scanner_quote_ask
    ExpectedFee,  \* ExpectedFee[l]: expected_fee, per contract
    MinPayoff,    \* min_payoff of the candidate
    One,          \* the payoff that makes the basket riskless
    CrossSource   \* the legs settle on more than one source index

ASSUME LegsAssumption == IsFiniteSet(Legs)
ASSUME IntendedAssumption == Intended \in Nat
ASSUME AskAssumption == Ask \in [Legs -> Nat] /\ ExpectedFee \in [Legs -> Nat]
ASSUME PayoffAssumption == MinPayoff \in Nat /\ One \in Nat \ {0}
ASSUME CrossSourceAssumption == CrossSource \in BOOLEAN

None == -1   \* a price, quantity or fee left out

FilledStates == {"filled", "partial"}
NoFillStates == {"not_filled", "canceled", "rejected"}

\* A line of fills.jsonl, as far as a verdict reads it.
FillRecord == [leg    : Legs,
               status : FilledStates \cup NoFillStates,
               price  : Nat \cup {None},
               qty    : Nat \cup {None},
               fees   : Nat \cup {None}]

RecordsOf(fills, l) == {i \in DOMAIN fills : fills[i].leg = l}
HasRecord(fills, l) == RecordsOf(fills, l) # {}

\* fill_by_leg: a later record of a leg replaces an earlier one.
Latest(fills, l) == fills[Max(RecordsOf(fills, l))]

\* Mutant: the records of a leg add up.
QuantitySummed(fills, l) ==
    MapThenSumSet(LAMBDA i : Max({fills[i].qty, 0}), RecordsOf(fills, l))

\* A quantity that is missing counts as 0.
Quantity(fills, l) ==
    IF HasRecord(fills, l) /\ Latest(fills, l).qty # None
    THEN Latest(fills, l).qty ELSE 0

FilledLegs(fills) ==
    {l \in Legs : /\ HasRecord(fills, l)
                  /\ Latest(fills, l).status \in FilledStates
                  /\ Quantity(fills, l) > 0
                  /\ Latest(fills, l).price # None}

NoFillLegs(fills) ==
    {l \in Legs \ FilledLegs(fills) :
        /\ HasRecord(fills, l)
        /\ Latest(fills, l).status \in NoFillStates \/ Quantity(fills, l) = 0}

AllHaveFill(fills) == Legs # {} /\ \A l \in Legs : HasRecord(fills, l)

IncompleteData(fills) ==
    \E l \in Legs : /\ HasRecord(fills, l)
                    /\ Latest(fills, l).status \in FilledStates
                    /\ None \in {Latest(fills, l).price, Latest(fills, l).qty}

\* Mutant: legs without a fill do not count against the match.
MatchedAmongFilled(fills) ==
    IF FilledLegs(fills) = {} THEN 0
    ELSE Min({Quantity(fills, l) : l \in FilledLegs(fills)})

\* matched_qty.
Matched(fills) ==
    IF Legs # {} /\ FilledLegs(fills) = Legs
    THEN Min({Quantity(fills, l) : l \in Legs}) ELSE 0

Residual(fills, l) == Max({Quantity(fills, l) - Matched(fills), 0})

Residuals(fills) == {l \in Legs : Residual(fills, l) > 0}

AllFilledFull(fills) ==
    /\ Legs # {} /\ FilledLegs(fills) = Legs
    /\ \A l, m \in Legs : Quantity(fills, l) = Quantity(fills, m)

Fees(fills, l) ==
    IF HasRecord(fills, l) /\ Latest(fills, l).fees # None
    THEN Latest(fills, l).fees ELSE 0

\* The edge of the whole matched quantity, when all_filled_full.
ActualEdge(fills) ==
    Matched(fills) * MinPayoff
      - MapThenSumSet(LAMBDA l : Quantity(fills, l) * Latest(fills, l).price
                                   + Fees(fills, l), Legs)

GuaranteeHolds(fills) ==
    AllFilledFull(fills) /\ MinPayoff >= One /\ ActualEdge(fills) > 0

\* fee_drag subtracts the fee of a contract from the fees of the fill.
FeeDrag(fills) ==
    MapThenSumSet(LAMBDA l : Latest(fills, l).fees - ExpectedFee[l],
                  {l \in Legs : HasRecord(fills, l) /\ Latest(fills, l).fees # None})

SlipDrag(fills) ==
    MapThenSumSet(LAMBDA l : Latest(fills, l).price - Ask[l],
                  {l \in Legs : HasRecord(fills, l) /\ Latest(fills, l).price # None})

LostEdgeVerdict(fills) ==
    IF CrossSource /\ FeeDrag(fills) <= SlipDrag(fills) THEN "SOURCE_BASIS_LOSS"
    ELSE IF FeeDrag(fills) >= SlipDrag(fills) /\ FeeDrag(fills) > 0
         THEN "FEES_KILLED_EDGE"
    ELSE IF SlipDrag(fills) > 0 THEN "PRICE_MOVED_BEFORE_FILL"
    ELSE "FEES_KILLED_EDGE"

\* _verdict; basis: the settlement status names a basis loss.
Verdict(fills, basis) ==
    CASE basis -> "SOURCE_BASIS_LOSS"
      [] ~basis /\ FilledLegs(fills) = {} /\ NoFillLegs(fills) # {}
           /\ AllHaveFill(fills) -> "CANCELED_NO_TRADE"
      [] OTHER ->
           IF ~AllHaveFill(fills) \/ IncompleteData(fills)
             THEN "MANUAL_DATA_INCOMPLETE"
           ELSE IF FilledLegs(fills) # {} /\ NoFillLegs(fills) # {} THEN "HEDGE_FAILED"
           ELSE IF Residuals(fills) # {} THEN "PARTIAL_FILL_RISK"
           ELSE IF ~AllFilledFull(fills) THEN "MANUAL_DATA_INCOMPLETE"
           ELSE IF ActualEdge(fills) > 0 THEN "CLEAN_COMPLETE"
           ELSE LostEdgeVerdict(fills)
================================================================================
