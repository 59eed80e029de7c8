--------------------------- MODULE MicroTestJournal ---------------------------
(***************************************************************************)
(* One micro-test of crypto_micro_test_journal.py after its start: a       *)
(* trader (or the live executor) buys the intended legs at the venues,     *)
(* fill records are appended to fills.jsonl, and the test is finalized, as *)
(* often as the operator likes, into final_report.json.                    *)
(*                                                                         *)
(* The venue side is external.  A recorder may be behind the venue and may *)
(* leave the price or the quantity out, but writes down no fill that did   *)
(* not happen.                                                             *)
(***************************************************************************)
EXTENDS JournalVerdict

CONSTANTS
    Prices,      \* prices at which a leg may fill
    FeesPerFill, \* fees a record of a fill gives, None when it may leave them out
    MaxRecords   \* bound on the lines of fills.jsonl

ASSUME PricesAssumption ==
    Prices \subseteq Nat /\ FeesPerFill \subseteq Nat \cup {None}
ASSUME MaxRecordsAssumption == MaxRecords \in Nat

VARIABLES
    bought,   \* bought[l]: contracts of leg l held at its venue
    closed,   \* legs whose order is no longer working
    fills,    \* fills.jsonl
    report    \* final_report.json, or NoReport

vars == <<bought, closed, fills, report>>

Verdicts == {"CLEAN_COMPLETE", "PARTIAL_FILL_RISK", "HEDGE_FAILED",
             "PRICE_MOVED_BEFORE_FILL", "FEES_KILLED_EDGE", "SOURCE_BASIS_LOSS",
             "MANUAL_DATA_INCOMPLETE", "CANCELED_NO_TRADE"}

NoReport == [verdict |-> "NOT_FINALIZED", guarantee |-> FALSE, matched |-> 0,
             residual |-> [l \in Legs |-> 0], basis |-> FALSE, lines |-> 0]

Report == [verdict   : Verdicts \cup {"NOT_FINALIZED"},
           guarantee : BOOLEAN,
           matched   : 0..Intended,
           residual  : [Legs -> 0..Intended],
           basis     : BOOLEAN,
           lines     : 0..MaxRecords]

TypeOK ==
    /\ bought \in [Legs -> 0..Intended]
    /\ closed \subseteq Legs
    /\ fills \in Seq(FillRecord) /\ Len(fills) <= MaxRecords
    /\ report \in Report

Init ==
    /\ bought = [l \in Legs |-> 0]
    /\ closed = {}
    /\ fills = <<>>
    /\ report = NoReport

-------------------------------------------------------------------------------
\* n more contracts of leg l are bought.
Buy(l, n) ==
    /\ l \notin closed
    /\ bought[l] + n <= Intended
    /\ bought' = [bought EXCEPT ![l] = @ + n]
    /\ UNCHANGED <<closed, fills, report>>

\* The order of leg l is cancelled, rejected or expires.
Close(l) ==
    /\ l \notin closed
    /\ closed' = closed \cup {l}
    /\ UNCHANGED <<bought, fills, report>>

\* The status that goes with a quantity: a default of "filled" when the recorder
\* leaves the quantity out.
StatusFor(l, qty) ==
    IF qty = None THEN {"filled"}
    ELSE IF qty = 0 THEN {"not_filled"}
                         \cup (IF l \in closed THEN {"canceled", "rejected"} ELSE {})
    ELSE {"filled"} \cup (IF qty < Intended THEN {"partial"} ELSE {})
                    \cup (IF l \in closed /\ qty < Intended THEN {"canceled"} ELSE {})

\* record_crypto_micro_fill appends one line, whatever was recorded before.
RecordFill(l, status, price, qty, fees) ==
    /\ Len(fills) < MaxRecords
    /\ qty # None => qty <= bought[l]
    /\ status \in StatusFor(l, qty)
    /\ IF qty \in {None, 0} THEN price = None /\ fees = None
                            ELSE fees \in FeesPerFill
    /\ fills' = Append(fills, [leg |-> l, status |-> status, price |-> price,
                               qty |-> qty, fees |-> fees])
    /\ UNCHANGED <<bought, closed, report>>

\* finalize_crypto_micro_test reads the whole file and replaces the report.
Finalize(basis) ==
    /\ report' = [verdict   |-> Verdict(fills, basis),
                  guarantee |-> GuaranteeHolds(fills),
                  matched   |-> Matched(fills),
                  residual  |-> [l \in Legs |-> Residual(fills, l)],
                  basis     |-> basis,
                  lines     |-> Len(fills)]
    /\ UNCHANGED <<bought, closed, fills>>

Next ==
    \/ \E l \in Legs, n \in 1..Intended : Buy(l, n)
    \/ \E l \in Legs : Close(l)
    \/ \E l \in Legs, status \in FilledStates \cup NoFillStates,
          price \in Prices \cup {None}, qty \in (0..Intended) \cup {None},
          fees \in FeesPerFill \cup {None} : RecordFill(l, status, price, qty, fees)
    \/ \E basis \in BOOLEAN : Finalize(basis)

Spec == Init /\ [][Next]_vars

-------------------------------------------------------------------------------
(***************************************************************************)
(* Properties.                                                             *)
(***************************************************************************)

\* A report that says the guarantee holds is about contracts that are really
\* held: every leg has at least the matched quantity at its venue, and the records
\* it was drawn from leave nothing over ("guarantee_requires_all_legs_filled_
\* equal_qty"), however late, repeated or incomplete the records were.
GuaranteeIsHeld ==
    report.guarantee =>
        /\ report.matched > 0
        /\ \A l \in Legs : bought[l] >= report.matched /\ report.residual[l] = 0

\* The records are up to date with the venues and the report with the records.
UpToDate ==
    /\ report.verdict # "NOT_FINALIZED" /\ report.lines = Len(fills)
    /\ \A l \in Legs : Quantity(fills, l) = bought[l]

\* No excess stays out of the report: once everything bought was recorded, what
\* one leg holds beyond another is in residual_exposure.
ExcessIsListed ==
    UpToDate => \A l, m \in Legs : report.residual[l] >= bought[l] - bought[m]

\* A verdict of an unhedged residual comes with one, and a verdict on the edge of
\* a complete basket comes with none.
VerdictFitsResidual ==
    ~report.basis =>
        /\ report.verdict \in {"HEDGE_FAILED", "PARTIAL_FILL_RISK"} =>
              \E l \in Legs : report.residual[l] > 0
        /\ report.verdict \in {"CLEAN_COMPLETE", "PRICE_MOVED_BEFORE_FILL",
                               "FEES_KILLED_EDGE", "SOURCE_BASIS_LOSS"} =>
              \A l \in Legs : report.residual[l] = 0
================================================================================
