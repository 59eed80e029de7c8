------------------------ MODULE MicroTestJournalProofs ------------------------
(***************************************************************************)
(* Theorems about MicroTestJournal for any legs, quantity, quotes and fees,*)
(* for records that come late, again or incompletely and reports drawn at  *)
(* any time: what a report says of the contracts held.                     *)
(***************************************************************************)
EXTENDS MicroTestJournal, FiniteSetTheorems, WellFoundedInduction, TLAPS

USE LegsAssumption, IntendedAssumption, PricesAssumption, MaxRecordsAssumption

\* Every record tells a fill that happened: its leg holds at least its quantity.
Happened ==
    \A i \in DOMAIN fills :
        fills[i].qty # -1 => fills[i].qty <= bought[fills[i].leg]

\* A report was drawn from a beginning of the records, and still says what they say
\* when none has come since.
StillDrawn ==
    /\ report.lines <= Len(fills)
    /\ report.verdict # "NOT_FINALIZED" /\ report.lines = Len(fills) =>
          \A l \in Legs : report.residual[l] = Residual(fills, l)

TestInv ==
    /\ TypeOK
    /\ Happened
    /\ StillDrawn
    /\ GuaranteeIsHeld
    /\ VerdictFitsResidual

\* The least of some natural numbers.
LEMMA MinIsLeast ==
    ASSUME NEW S \in SUBSET Nat, S # {}
    PROVE  Min(S) \in S /\ \A x \in S : Min(S) <= x
<1>1. \E x \in S : \A y \in S : ~(<<y, x>> \in OpToRel(<, Nat))
  BY NatLessThanWellFounded, WFMin
<1>2. \E x \in S : \A y \in S : x <= y
  <2>1. PICK x \in S : \A y \in S : ~(<<y, x>> \in OpToRel(<, Nat))
    BY <1>1
  <2>2. ASSUME NEW y \in S PROVE ~(y < x)
    <3>1. y \in Nat /\ x \in Nat
      OBVIOUS
    <3>2. y < x => <<y, x>> \in OpToRel(<, Nat)
      BY <3>1, Zenon DEF OpToRel
    <3> QED BY <2>1, <3>2
  <2> QED BY <2>2
<1> QED BY <1>2 DEF Min

\* The greatest of some bounded natural numbers.
LEMMA MaxIsGreatest ==
    ASSUME NEW n \in Nat, NEW S \in SUBSET (0..n), S # {}
    PROVE  Max(S) \in S /\ \A x \in S : Max(S) >= x
<1> DEFINE D == {n - x : x \in S}
<1>1. D \in SUBSET Nat /\ D # {}
  <2>1. \A x \in S : n - x \in Nat
    OBVIOUS
  <2> QED BY <2>1
<1>2. Min(D) \in D /\ \A d \in D : Min(D) <= d
  BY <1>1, MinIsLeast
<1>3. PICK x \in S : \A y \in S : n - x <= n - y
  BY <1>2
<1>4. \E z \in S : \A y \in S : z >= y
  BY <1>3
<1> QED BY <1>4 DEF Max

\* The quantity a report reads of a leg is one that was bought.
LEMMA QuantityWasBought ==
    ASSUME TypeOK, Happened, NEW l \in Legs
    PROVE  Quantity(fills, l) \in 0..bought[l]
<1>1. /\ bought[l] \in Nat /\ fills \in Seq(FillRecord)
      /\ DOMAIN fills = 1..Len(fills) /\ Len(fills) \in Nat
  BY DEF TypeOK
<1>2. CASE HasRecord(fills, l)
  <2> DEFINE R == RecordsOf(fills, l)
  <2>1. R \in SUBSET (0..Len(fills)) /\ R # {}
    BY <1>1, <1>2 DEF RecordsOf, HasRecord
  <2>2. Max(R) \in R
    BY <1>1, <2>1, MaxIsGreatest
  <2>3. PICK i \in DOMAIN fills : Latest(fills, l) = fills[i] /\ fills[i].leg = l
    BY <2>2 DEF RecordsOf, Latest, Max, Max
  <2>4. fills[i] \in FillRecord
    BY <1>1
  <2>5. fills[i].qty \in Nat \cup {-1}
    BY <2>4 DEF FillRecord, None
  <2> QED BY <1>1, <2>3, <2>5 DEF Quantity, None, Happened
<1>3. CASE ~HasRecord(fills, l)
  BY <1>1, <1>3 DEF Quantity
<1> QED BY <1>2, <1>3

\* matched_qty is not above any quantity, and what is left over is the difference.
LEMMA MatchedAndLeftOver ==
    ASSUME TypeOK, Happened
    PROVE  /\ Matched(fills) \in Nat
           /\ \A l \in Legs :
                 /\ Matched(fills) <= Quantity(fills, l)
                 /\ Residual(fills, l) = Quantity(fills, l) - Matched(fills)
           /\ IF Legs # {} /\ FilledLegs(fills) = Legs
              THEN \E l \in Legs : Matched(fills) = Quantity(fills, l)
              ELSE Matched(fills) = 0
<1> DEFINE Q == {Quantity(fills, l) : l \in Legs}
           M == Matched(fills)
<1>1. \A l \in Legs : bought[l] \in Nat /\ Quantity(fills, l) \in Nat
  BY QuantityWasBought DEF TypeOK
<1>2. /\ M \in Nat
      /\ \A l \in Legs : M <= Quantity(fills, l)
      /\ IF Legs # {} /\ FilledLegs(fills) = Legs
         THEN \E l \in Legs : M = Quantity(fills, l) ELSE M = 0
  <2>1. CASE Legs # {} /\ FilledLegs(fills) = Legs
    <3>1. Q \in SUBSET Nat /\ Q # {}
      BY <1>1, <2>1
    <3>2. Min(Q) \in Q /\ \A x \in Q : Min(Q) <= x
      BY <3>1, MinIsLeast
    <3>3. M = Min(Q)
      BY <2>1 DEF Matched, Min, Min
    <3> QED BY <1>1, <2>1, <3>2, <3>3
  <2>2. CASE ~(Legs # {} /\ FilledLegs(fills) = Legs)
    BY <1>1, <2>2 DEF Matched
  <2> QED BY <2>1, <2>2
<1> HIDE DEF M
<1>3. ASSUME NEW l \in Legs
      PROVE  Residual(fills, l) = Quantity(fills, l) - M
  <2> DEFINE q == Quantity(fills, l)
  <2>1. Residual(fills, l) = Max({q - M, 0})
    BY DEF Residual, M
  <2>2. q - M \in Nat
    BY <1>1, <1>2
  <2> HIDE DEF q
  <2>3. Max({q - M, 0}) = q - M
    BY <2>2 DEF Max
  <2> QED BY <2>1, <2>3 DEF q
<1> QED BY <1>2, <1>3 DEF M

\* The verdict is one of those there are, and fits what is left over.
LEMMA VerdictIsFitting ==
    ASSUME TypeOK, Happened, NEW basis \in BOOLEAN
    PROVE  LET v == Verdict(fills, basis)
           IN  /\ v \in Verdicts
               /\ ~basis /\ v \in {"HEDGE_FAILED", "PARTIAL_FILL_RISK"} =>
                     \E l \in Legs : Residual(fills, l) > 0
               /\ ~basis /\ v \in {"CLEAN_COMPLETE", "PRICE_MOVED_BEFORE_FILL",
                                   "FEES_KILLED_EDGE", "SOURCE_BASIS_LOSS"} =>
                     \A l \in Legs : Residual(fills, l) = 0
<1> DEFINE v == Verdict(fills, basis)
           lost == LostEdgeVerdict(fills)
<1>1. lost \in {"SOURCE_BASIS_LOSS", "FEES_KILLED_EDGE", "PRICE_MOVED_BEFORE_FILL"}
  BY DEF LostEdgeVerdict
<1>2. \/ basis /\ v = "SOURCE_BASIS_LOSS"
      \/ v \in {"CANCELED_NO_TRADE", "MANUAL_DATA_INCOMPLETE"}
      \/ /\ v = "HEDGE_FAILED"
         /\ FilledLegs(fills) # {} /\ NoFillLegs(fills) # {}
      \/ v = "PARTIAL_FILL_RISK" /\ Residuals(fills) # {}
      \/ /\ v \in {"CLEAN_COMPLETE", lost} /\ Residuals(fills) = {}
  BY DEF Verdict
<1> HIDE DEF v, lost
<1>3. v \in Verdicts
  BY <1>1, <1>2 DEF Verdicts
<1>4. ASSUME v = "HEDGE_FAILED" PROVE \E l \in Legs : Residual(fills, l) > 0
  <2>1. FilledLegs(fills) # {} /\ NoFillLegs(fills) # {}
    BY <1>1, <1>2, <1>4
  <2>2. PICK l \in Legs : l \in FilledLegs(fills)
    BY <2>1 DEF FilledLegs
  <2>3. FilledLegs(fills) # Legs
    BY <2>1 DEF NoFillLegs
  <2>4. Matched(fills) = 0
    BY <2>3, MatchedAndLeftOver
  <2>5. Quantity(fills, l) > 0 /\ Residual(fills, l) = Quantity(fills, l) - 0
    BY <2>2, <2>4, MatchedAndLeftOver DEF FilledLegs
  <2>6. Quantity(fills, l) \in Nat
    BY QuantityWasBought DEF TypeOK
  <2> QED BY <2>5, <2>6
<1>5. ASSUME v = "PARTIAL_FILL_RISK" PROVE \E l \in Legs : Residual(fills, l) > 0
  BY <1>1, <1>2, <1>5 DEF Residuals
<1>6. ASSUME ~basis, v \in {"CLEAN_COMPLETE", "PRICE_MOVED_BEFORE_FILL",
                           "FEES_KILLED_EDGE", "SOURCE_BASIS_LOSS"},
             NEW l \in Legs
      PROVE  Residual(fills, l) = 0
  <2>1. ~(Residual(fills, l) > 0)
    BY <1>2, <1>6 DEF Residuals
  <2>2. Quantity(fills, l) \in Nat
    BY QuantityWasBought DEF TypeOK
  <2>3. Residual(fills, l) \in Nat
    BY <2>2, MatchedAndLeftOver
  <2> QED BY <2>1, <2>3
<1> QED BY <1>3, <1>4, <1>5, <1>6 DEF v

\* A test begins without records and report.
LEMMA InitTestInv == ASSUME Init PROVE TestInv
<1> USE DEF Init, NoReport
<1>1. TypeOK
  <2>1. fills \in Seq(FillRecord) /\ Len(fills) = 0
    OBVIOUS
  <2>2. report \in Report
    BY DEF Report
  <2> QED BY <2>1, <2>2 DEF TypeOK
<1>2. Happened /\ StillDrawn
  BY DEF Happened, StillDrawn
<1>3. GuaranteeIsHeld /\ VerdictFitsResidual
  BY DEF GuaranteeIsHeld, VerdictFitsResidual
<1> QED BY <1>1, <1>2, <1>3 DEF TestInv

\* More is bought, or an order is closed: the records stay true of it.
LEMMA MarketStep ==
    ASSUME TestInv, NEW l \in Legs,
           Close(l) \/ \E n \in 1..Intended : Buy(l, n)
    PROVE  TestInv'
<1>0. TypeOK /\ Happened /\ StillDrawn
  BY DEF TestInv
<1>1. UNCHANGED <<fills, report>>
  BY DEF Close, Buy
<1>2. /\ bought' \in [Legs -> 0..Intended] /\ closed' \subseteq Legs
      /\ \A m \in Legs :
            bought[m] \in Nat /\ bought'[m] \in Nat /\ bought[m] <= bought'[m]
  BY <1>0 DEF Close, Buy, TypeOK
<1>3. TypeOK'
  BY <1>0, <1>1, <1>2 DEF TypeOK
<1>4. Happened'
  <2>1. ASSUME NEW i \in DOMAIN fills
        PROVE  fills[i].leg \in Legs /\ (fills[i].qty # -1 => fills[i].qty \in Nat)
    <3>1. fills[i] \in FillRecord
      BY <1>0 DEF TypeOK
    <3> QED BY <3>1 DEF FillRecord, None
  <2> QED BY <1>0, <1>1, <1>2, <2>1 DEF Happened
<1>5. StillDrawn'
  <2>1. \A m \in Legs : Residual(fills, m)' = Residual(fills, m)
    BY <1>1
  <2> QED BY <1>0, <1>1, <2>1 DEF StillDrawn
<1>6. GuaranteeIsHeld'
  <2>1. report.matched \in Nat
    BY <1>0 DEF TypeOK, Report
  <2> QED BY <1>1, <1>2, <2>1 DEF TestInv, GuaranteeIsHeld
<1>7. VerdictFitsResidual'
  BY <1>1 DEF TestInv, VerdictFitsResidual
<1> QED BY <1>3, <1>4, <1>5, <1>6, <1>7 DEF TestInv

\* A record of what was bought; the report is older than the records from here on.
LEMMA RecordStep ==
    ASSUME TestInv, NEW l \in Legs,
           NEW status \in FilledStates \cup NoFillStates,
           NEW price \in Prices \cup {None},
           NEW qty \in (0..Intended) \cup {None},
           NEW fees \in FeesPerFill \cup {None},
           RecordFill(l, status, price, qty, fees)
    PROVE  TestInv'
<1> DEFINE line == [leg |-> l, status |-> status, price |-> price, qty |-> qty,
                    fees |-> fees]
<1>0. TypeOK /\ Happened /\ StillDrawn
  BY DEF TestInv
<1>1. /\ fills' = Append(fills, line) /\ Len(fills) < MaxRecords
      /\ qty # -1 => qty <= bought[l]
      /\ UNCHANGED <<bought, closed, report>>
  BY DEF RecordFill, None
<1>2. line \in FillRecord
  BY DEF FillRecord, None
<1>3. /\ fills \in Seq(FillRecord) /\ Len(fills) \in Nat
      /\ fills' \in Seq(FillRecord) /\ Len(fills') = Len(fills) + 1
      /\ DOMAIN fills = 1..Len(fills) /\ DOMAIN fills' = 1..(Len(fills) + 1)
      /\ \A i \in 1..Len(fills) : fills'[i] = fills[i]
      /\ fills'[Len(fills) + 1] = line
  <2>1. fills \in Seq(FillRecord)
    BY <1>0 DEF TypeOK
  <2> HIDE DEF line
  <2> QED BY <1>1, <1>2, <2>1
<1>4. TypeOK'
  BY <1>0, <1>1, <1>3 DEF TypeOK
<1>5. Happened'
  <2> SUFFICES ASSUME NEW i \in DOMAIN fills', fills'[i].qty # -1
               PROVE  fills'[i].qty <= bought[fills'[i].leg]
    BY <1>1 DEF Happened
  <2>1. CASE i \in DOMAIN fills
    BY <1>0, <1>3, <2>1 DEF Happened
  <2>2. CASE i = Len(fills) + 1
    BY <1>1, <1>3, <2>2
  <2> QED BY <1>3, <2>1, <2>2
<1>6. StillDrawn'
  <2>1. report.lines \in Nat
    BY <1>0 DEF TypeOK, Report
  <2> QED BY <1>0, <1>1, <1>3, <2>1 DEF StillDrawn
<1>7. GuaranteeIsHeld' /\ VerdictFitsResidual'
  BY <1>1 DEF TestInv, GuaranteeIsHeld, VerdictFitsResidual
<1> QED BY <1>4, <1>5, <1>6, <1>7 DEF TestInv

\* The report is drawn from all the records there are.
LEMMA FinalizeStep ==
    ASSUME TestInv, NEW basis \in BOOLEAN, Finalize(basis)
    PROVE  TestInv'
<1>0. TypeOK /\ Happened
  BY DEF TestInv
<1> DEFINE v == Verdict(fills, basis)
           g == GuaranteeHolds(fills)
           M == Matched(fills)
           r == [l \in Legs |-> Residual(fills, l)]
<1>1. /\ report' = [verdict |-> v, guarantee |-> g, matched |-> M, residual |-> r,
                    basis |-> basis, lines |-> Len(fills)]
      /\ UNCHANGED <<bought, closed, fills>>
  BY DEF Finalize
<1>2. /\ v \in Verdicts
      /\ ~basis /\ v \in {"HEDGE_FAILED", "PARTIAL_FILL_RISK"} =>
            \E l \in Legs : r[l] > 0
      /\ ~basis /\ v \in {"CLEAN_COMPLETE", "PRICE_MOVED_BEFORE_FILL",
                          "FEES_KILLED_EDGE", "SOURCE_BASIS_LOSS"} =>
            \A l \in Legs : r[l] = 0
  BY <1>0, VerdictIsFitting
<1>3. /\ M \in 0..Intended
      /\ \A l \in Legs : r[l] \in 0..Intended
      /\ g => /\ M > 0
              /\ \A l \in Legs : bought[l] >= M /\ r[l] = 0
  <2>1. \A l \in Legs : /\ Quantity(fills, l) \in 0..bought[l]
                            /\ bought[l] \in 0..Intended
    BY <1>0, QuantityWasBought DEF TypeOK
  <2>2. M \in 0..Intended /\ \A l \in Legs : r[l] \in 0..Intended
    BY <1>0, <2>1, MatchedAndLeftOver
  <2>3. ASSUME g PROVE M > 0 /\ \A l \in Legs : bought[l] >= M /\ r[l] = 0
    <3>1. /\ Legs # {} /\ FilledLegs(fills) = Legs
          /\ \A l, m \in Legs : Quantity(fills, l) = Quantity(fills, m)
      BY <2>3 DEF GuaranteeHolds, AllFilledFull
    <3>2. \A l \in Legs : Quantity(fills, l) > 0
      BY <3>1 DEF FilledLegs
    <3>3. \A l \in Legs : M = Quantity(fills, l)
      BY <1>0, <3>1, MatchedAndLeftOver
    <3> QED BY <1>0, <2>1, <3>1, <3>2, <3>3, MatchedAndLeftOver
  <2> QED BY <2>2, <2>3
<1>4. g \in BOOLEAN
  BY DEF GuaranteeHolds, AllFilledFull
<1>5. fills \in Seq(FillRecord) /\ Len(fills) \in 0..MaxRecords
  BY <1>0 DEF TypeOK
<1>6. StillDrawn'
  <2>1. \A l \in Legs : Residual(fills, l)' = r[l]
    BY <1>1
  <2>2. report'.residual = r /\ report'.lines = Len(fills)
    BY <1>1
  <2> HIDE DEF r
  <2> QED BY <1>1, <1>5, <2>1, <2>2 DEF StillDrawn
<1> HIDE DEF v, g, M, r
<1>7. r \in [Legs -> 0..Intended]
  BY <1>3 DEF r
<1>8. TypeOK'
  <2>1. report' \in Report
    BY <1>1, <1>2, <1>3, <1>4, <1>5, <1>7 DEF Report
  <2> QED BY <1>0, <1>1, <2>1 DEF TypeOK
<1>9. Happened'
  BY <1>0, <1>1 DEF Happened
<1>10. GuaranteeIsHeld'
  BY <1>1, <1>3 DEF GuaranteeIsHeld
<1>11. VerdictFitsResidual'
  BY <1>1, <1>2 DEF VerdictFitsResidual
<1> QED BY <1>6, <1>8, <1>9, <1>10, <1>11 DEF TestInv

\* The invariant of a test is inductive.
LEMMA NextTestInv == ASSUME TestInv, [Next]_vars PROVE TestInv'
<1>1. CASE Next
  BY <1>1, MarketStep, RecordStep, FinalizeStep DEF Next
<1>2. CASE UNCHANGED vars
  <2>1. UNCHANGED <<bought, closed, fills, report>>
    BY <1>2 DEF vars
  <2>2. \A l \in Legs : Residual(fills, l)' = Residual(fills, l)
    BY <2>1
  <2>3. TypeOK' /\ Happened' /\ StillDrawn'
    BY <2>1, <2>2 DEF TestInv, TypeOK, Happened, StillDrawn
  <2>4. GuaranteeIsHeld' /\ VerdictFitsResidual'
    BY <2>1 DEF TestInv, GuaranteeIsHeld, VerdictFitsResidual
  <2> QED BY <2>3, <2>4 DEF TestInv
<1> QED BY <1>1, <1>2

LEMMA TestInvHolds == Spec => []TestInv
<1>1. Init => TestInv
  BY InitTestInv
<1>2. TestInv /\ [Next]_vars => TestInv'
  BY NextTestInv
<1> QED BY <1>1, <1>2, PTL DEF Spec

\* The types of a test: the verdict is a known one, and no quantity of a report is above
\* what was intended, whatever was recorded.
THEOREM TypeCorrect == Spec => []TypeOK
<1>1. TestInv => TypeOK
  BY DEF TestInv
<1> QED BY <1>1, TestInvHolds, PTL

\* A report that says the guarantee holds (GuaranteeHolds, at finalize) is about
\* contracts that are held on every leg, for good, and leaves nothing over.
THEOREM GuaranteesAreHeld == Spec => []GuaranteeIsHeld
<1>1. TestInv => GuaranteeIsHeld
  BY DEF TestInv
<1> QED BY <1>1, TestInvHolds, PTL

\* Once everything bought is recorded and the report is drawn, what one leg holds beyond
\* another is listed in residual_exposure, whatever the verdict.
THEOREM ExcessesAreListed == Spec => []ExcessIsListed
<1>1. TestInv => ExcessIsListed
  <2> SUFFICES ASSUME TestInv, UpToDate, NEW l \in Legs, NEW m \in Legs
               PROVE  report.residual[l] >= bought[l] - bought[m]
    BY DEF ExcessIsListed
  <2>1. TypeOK /\ Happened /\ StillDrawn
    BY DEF TestInv
  <2>2. report.residual[l] = Residual(fills, l)
    BY <2>1 DEF UpToDate, StillDrawn
  <2>3. Quantity(fills, l) = bought[l] /\ Quantity(fills, m) = bought[m]
    BY DEF UpToDate
  <2>4. /\ Matched(fills) \in Nat /\ Matched(fills) <= bought[m]
        /\ Residual(fills, l) = bought[l] - Matched(fills)
    BY <2>1, <2>3, MatchedAndLeftOver
  <2>5. bought[l] \in Nat /\ bought[m] \in Nat
    BY <2>1 DEF TypeOK
  <2> QED BY <2>2, <2>4, <2>5
<1> QED BY <1>1, TestInvHolds, PTL

\* Unless a basis loss was named, a verdict of an unhedged residual comes with one, and
\* a verdict on the edge comes with none (_verdict).
THEOREM VerdictsFitResiduals ==
    Spec => []VerdictFitsResidual
<1>1. TestInv => VerdictFitsResidual
  BY DEF TestInv
<1> QED BY <1>1, TestInvHolds, PTL
================================================================================
