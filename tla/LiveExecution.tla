----------------------------- MODULE LiveExecution -----------------------------
(***************************************************************************)
(* One call of _execute_live_orders (live_crypto_micro_executor.py) with   *)
(* _poll_until_fill, against the venues and an operator who may create or  *)
(* remove the kill-switch file at any moment.                              *)
(*                                                                         *)
(* The executor walks the ordered legs of one plan.  For each leg it looks *)
(* at the kill file, places a protected limit buy, polls the order until   *)
(* it is filled or the timeout is reached, cancels what is left, writes    *)
(* the fill it saw to the micro-test journal, and decides whether to go on *)
(* to the next leg.  The quantity of every leg after the first is the      *)
(* quantity it saw filled on the first.                                    *)
(*                                                                         *)
(* The venue side (orders, fills, expiry, what a cancel does) is external: *)
(* an adapter forwards each call to an injected client                     *)
(* (live_crypto_execution_adapters.py).                                    *)
(***************************************************************************)
EXTENDS Integers, FiniteSets

CONSTANTS
    N,            \* len(ordered_legs)
    QuantityCap,  \* bound of the plan's basket quantity
    MaxOrders,    \* params["max_orders"]
    MaxPolls,     \* sleeps of _POLL_MS before order_timeout_ms is reached
    NoAdapter,    \* legs whose platform has no adapter in used_adapters
    Faults        \* faults a venue client may show: "cancel" (a cancel without
                  \* effect), "lag" (a status older than the last fill) and
                  \* "raise" (a call that raises)

ASSUME NAssumption == N \in Nat \ {0}
ASSUME QuantityCapAssumption == QuantityCap \in Nat
ASSUME BoundsAssumption == MaxOrders \in Nat /\ MaxPolls \in Nat
ASSUME NoAdapterAssumption == NoAdapter \subseteq 1..N
ASSUME FaultsAssumption == Faults \subseteq {"cancel", "lag", "raise"}

VARIABLES
    cap,           \* quantity_cap of the plan's legs, the same for every leg
    pc,            \* where the executor stands
    idx,           \* leg it works on
    polls,         \* sleeps since the order was placed (elapsed / _POLL_MS)
    filledQty,     \* filled_qty: the last fill it read for that order
    firstFilled,   \* first_leg_filled, and hedge_qty once the first leg is done
    ordersPlaced,  \* orders_placed
    residual,      \* unhedged_quantity in residual, 0 while the list is empty
    emergency,     \* emergency_review_required
    record,        \* record[k]: filled_quantity journalled for leg k, or NoRecord
    order,         \* order[k]: the venue's order for leg k
    cancels,       \* legs for which cancel_order was called
    killFile,      \* the kill-switch file exists
    sentSinceKill  \* history: orders sent since the file was last created

position == <<cap, idx, polls, filledQty, firstFilled, ordersPlaced>>
executor == <<pc, position>>
outcome  == <<residual, emergency, record>>
venue    == <<order, cancels>>
operator == <<killFile, sentSinceKill>>
vars     == <<executor, outcome, venue, operator>>

Legs == 1..N
NoRecord == -1
Stopped == {"done", "raised"}

Order == [state  : {"none", "working", "closed", "rejected"},
          qty    : 0..QuantityCap,
          filled : 0..QuantityCap]

NoOrder == [state |-> "none", qty |-> 0, filled |-> 0]

TypeOK ==
    /\ cap \in 0..QuantityCap
    /\ pc \in {"leg", "check", "place", "poll", "settle", "record"} \cup Stopped
    /\ idx \in Legs
    /\ polls \in 0..MaxPolls
    /\ filledQty \in 0..QuantityCap
    /\ firstFilled \in 0..QuantityCap
    /\ ordersPlaced \in 0..N
    /\ residual \in 0..QuantityCap
    /\ emergency \in BOOLEAN
    /\ record \in [Legs -> {NoRecord} \cup 0..QuantityCap]
    /\ order \in [Legs -> Order]
    /\ cancels \subseteq Legs
    /\ killFile \in BOOLEAN
    /\ sentSinceKill \in 0..N

\* What _execute_live_orders sets before its loop.
Fresh ==
    /\ pc = "leg" /\ idx = 1 /\ polls = 0 /\ filledQty = 0
    /\ firstFilled = 0 /\ ordersPlaced = 0
    /\ residual = 0 /\ emergency = FALSE
    /\ record = [k \in Legs |-> NoRecord]
    /\ order = [k \in Legs |-> NoOrder]
    /\ cancels = {}

\* A plan of the fast path may have nothing to buy: its own reasons not to trade
\* are not read there.
Init ==
    /\ cap \in 0..QuantityCap
    /\ Fresh
    /\ killFile \in BOOLEAN /\ sentSinceKill = 0

-------------------------------------------------------------------------------
(***************************************************************************)
(* The executor.                                                           *)
(***************************************************************************)

\* Mutants: the kill check looks at a file that is never there; the hedge takes
\* the planned quantity.
KillNeverSeen == FALSE
RequestedWithoutFirstFill(k) == cap

\* _kill: the kill-switch file exists.
Kill == killFile

\* qty: the plan's cap for the first leg, the exact first fill for a hedge.
Requested(k) == IF k = 1 THEN cap ELSE firstFilled

\* The loop is left with a break; what the leg did so far stays.
Break(flag) ==
    /\ pc' = "done"
    /\ emergency' = flag
    /\ UNCHANGED <<position, residual, record, venue, operator>>

\* First look at the kill file, at the head of the loop.
KillAtLeg == pc = "leg" /\ Kill /\ Break(TRUE)

\* The order budget is spent: the loop ends without a word about earlier legs.
BudgetSpent ==
    /\ pc = "leg" /\ ~Kill
    /\ ordersPlaced >= MaxOrders
    /\ Break(emergency)

\* OrderRequest.validate refuses a quantity of 0, or no adapter is configured.
NotPlaceable ==
    /\ pc = "leg" /\ ~Kill
    /\ ordersPlaced < MaxOrders
    /\ Requested(idx) = 0 \/ idx \in NoAdapter
    /\ Break(emergency)

BuildRequest ==
    /\ pc = "leg" /\ ~Kill
    /\ ordersPlaced < MaxOrders
    /\ Requested(idx) > 0 /\ idx \notin NoAdapter
    /\ pc' = "check"
    /\ UNCHANGED <<position, outcome, venue, operator>>

\* Second look at the kill file, after the request was logged.
KillBeforePlace == pc = "check" /\ Kill /\ Break(TRUE)

PassKillCheck ==
    /\ pc = "check" /\ ~Kill
    /\ pc' = "place"
    /\ UNCHANGED <<position, outcome, venue, operator>>

\* The order reaches the venue.
Send(state) ==
    /\ order' = [order EXCEPT ![idx] =
                    [state |-> state, qty |-> Requested(idx), filled |-> 0]]
    /\ sentSinceKill' = IF killFile THEN sentSinceKill + 1 ELSE sentSinceKill
    /\ UNCHANGED <<cancels, killFile>>

PlaceAccepted ==
    /\ pc = "place"
    /\ Send("working")
    /\ pc' = "poll" /\ polls' = 0 /\ filledQty' = 0
    /\ ordersPlaced' = ordersPlaced + 1
    /\ UNCHANGED <<cap, idx, firstFilled, outcome>>

\* REJECTED, MANUAL_REQUIRED or DRY_RUN_NOT_PLACED: the loop ends, whichever
\* leg it was.
PlaceRejected ==
    /\ pc = "place"
    /\ Send("rejected")
    /\ pc' = "done"
    /\ ordersPlaced' = ordersPlaced + 1
    /\ UNCHANGED <<cap, idx, polls, filledQty, firstFilled, outcome>>

\* One turn of _poll_until_fill: the kill file is looked at before the status.
PollKilled ==
    /\ pc = "poll" /\ Kill
    /\ pc' = "settle"
    /\ UNCHANGED <<position, outcome, venue, operator>>

\* What get_order_status answers for the order: its fills, or fewer of them.
StatusAnswers ==
    {n \in 0..order[idx].filled : n = order[idx].filled \/ "lag" \in Faults}

\* Mutant: the elapsed time is never compared with the timeout.
PollWithoutTimeout ==
    /\ pc = "poll" /\ ~Kill
    /\ filledQty' \in StatusAnswers
    /\ pc' = IF filledQty' >= Requested(idx) THEN "settle" ELSE "poll"
    /\ UNCHANGED <<cap, idx, polls, firstFilled, ordersPlaced,
                   outcome, venue, operator>>

PollStatus ==
    /\ pc = "poll" /\ ~Kill
    /\ filledQty' \in StatusAnswers
    /\ IF filledQty' >= Requested(idx) \/ polls >= MaxPolls
       THEN pc' = "settle" /\ polls' = polls
       ELSE pc' = "poll" /\ polls' = polls + 1
    /\ UNCHANGED <<cap, idx, firstFilled, ordersPlaced, outcome, venue,
                   operator>>

NothingToCancel ==
    /\ pc = "settle" /\ filledQty >= Requested(idx)
    /\ pc' = "record"
    /\ UNCHANGED <<position, outcome, venue, operator>>

\* Mutant: a partly filled order is taken as done and not cancelled.
CancelOnlyIfUnfilled ==
    /\ pc = "settle" /\ filledQty < Requested(idx)
    /\ pc' = "record"
    /\ IF filledQty = 0
       THEN /\ cancels' = cancels \cup {idx}
            /\ order' = [order EXCEPT ![idx].state = "closed"]
       ELSE UNCHANGED venue
    /\ UNCHANGED <<position, outcome, operator>>

\* The cancel's answer is logged, never looked at.
CancelRest ==
    /\ pc = "settle" /\ filledQty < Requested(idx)
    /\ pc' = "record"
    /\ cancels' = cancels \cup {idx}
    /\ \/ order' = [order EXCEPT ![idx].state = "closed"]
       \/ "cancel" \in Faults /\ UNCHANGED order
    /\ UNCHANGED <<position, outcome, operator>>

\* Mutant: the journal gets the quantity of the request.
JournalRequested == record' = [record EXCEPT ![idx] = Requested(idx)]

\* The journal gets the last polled quantity; then the loop goes on or ends.
Journal == record' = [record EXCEPT ![idx] = filledQty]

Continue ==
    IF idx < N THEN pc' = "leg" /\ idx' = idx + 1
               ELSE pc' = "done" /\ idx' = idx

RecordFirst ==
    /\ pc = "record" /\ idx = 1
    /\ Journal
    /\ firstFilled' = filledQty
    /\ IF filledQty = 0 THEN pc' = "done" /\ idx' = idx ELSE Continue
    /\ UNCHANGED <<cap, polls, filledQty, ordersPlaced, residual, emergency,
                   venue, operator>>

\* Mutants: a short hedge is not flagged; a short hedge does not stop the loop;
\* the residual is not clamped at zero.
RecordHedgeUnflagged ==
    /\ pc = "record" /\ idx > 1
    /\ Journal
    /\ IF filledQty < firstFilled
       THEN residual' = firstFilled - filledQty /\ pc' = "done" /\ idx' = idx
       ELSE Continue /\ UNCHANGED residual
    /\ UNCHANGED <<cap, polls, filledQty, firstFilled, ordersPlaced, emergency,
                   venue, operator>>

RecordHedgeAndGoOn ==
    /\ pc = "record" /\ idx > 1
    /\ Journal
    /\ Continue
    /\ residual' = firstFilled - filledQty
    /\ emergency' = (emergency \/ filledQty < firstFilled)
    /\ UNCHANGED <<cap, polls, filledQty, firstFilled, ordersPlaced,
                   venue, operator>>

RecordHedgeUnclamped ==
    /\ pc = "record" /\ idx > 1
    /\ Journal
    /\ residual' = filledQty - firstFilled
    /\ pc' = "done"
    /\ UNCHANGED <<position, emergency,
                   venue, operator>>

RecordHedge ==
    /\ pc = "record" /\ idx > 1
    /\ Journal
    /\ IF filledQty < firstFilled
       THEN /\ residual' = firstFilled - filledQty
            /\ emergency' = TRUE
            /\ pc' = "done" /\ idx' = idx
       ELSE /\ Continue
            /\ UNCHANGED <<residual, emergency>>
    /\ UNCHANGED <<cap, polls, filledQty, firstFilled, ordersPlaced,
                   venue, operator>>

\* An adapter call raises: nothing in the executor or its callers catches it.
\* A placement or a cancel may have reached the venue before the error.
AdapterRaises ==
    /\ "raise" \in Faults
    /\ pc \in {"place", "poll", "settle", "record"}
    /\ pc = "settle" => filledQty < Requested(idx)
    /\ pc = "poll" => ~Kill
    /\ pc' = "raised"
    /\ \/ pc = "place" /\ Send("working")
       \/ /\ pc = "settle"
          /\ order' = [order EXCEPT ![idx].state = "closed"]
          /\ UNCHANGED <<cancels, operator>>
       \/ UNCHANGED <<venue, operator>>
    /\ UNCHANGED <<position, outcome>>

Executor ==
    \/ KillAtLeg \/ BudgetSpent \/ NotPlaceable \/ BuildRequest
    \/ KillBeforePlace \/ PassKillCheck
    \/ PlaceAccepted \/ PlaceRejected
    \/ PollKilled \/ PollStatus
    \/ NothingToCancel \/ CancelRest
    \/ RecordFirst \/ RecordHedge
    \/ AdapterRaises

-------------------------------------------------------------------------------
(***************************************************************************)
(* The venues and the operator.                                            *)
(***************************************************************************)

\* n more contracts of a working order trade; a full order is closed.
VenueFills(k, n) ==
    /\ order[k].state = "working"
    /\ order[k].filled + n <= order[k].qty
    /\ order' = [order EXCEPT
          ![k].filled = @ + n,
          ![k].state = IF order[k].filled + n = order[k].qty THEN "closed" ELSE @]
    /\ UNCHANGED <<executor, outcome, cancels, operator>>

\* The venue ends an order of its own accord (time in force GTD).
VenueExpires(k) ==
    /\ order[k].state = "working"
    /\ order' = [order EXCEPT ![k].state = "closed"]
    /\ UNCHANGED <<executor, outcome, cancels, operator>>

Venue == \E k \in Legs : \/ \E n \in 1..QuantityCap : VenueFills(k, n)
                         \/ VenueExpires(k)

OperatorTogglesKill ==
    /\ killFile' = ~killFile
    /\ sentSinceKill' = 0
    /\ UNCHANGED <<executor, outcome, venue>>

Next == Executor \/ Venue \/ OperatorTogglesKill

Spec == Init /\ [][Next]_vars

-------------------------------------------------------------------------------
(***************************************************************************)
(* Properties.                                                             *)
(***************************************************************************)

\* Along the leg sequence the contracts really held at the venues never grow:
\* no hedge leg is bought beyond any leg before it, whatever fills late, whatever
\* cancel fails and whenever the kill file comes and goes ("hedge EXACT filled
\* quantity only").
CoveredLadder ==
    \A k \in 2..N : \A j \in 1..(k - 1) : order[k].filled <= order[j].filled

\* Every order still working at a venue is the one being polled or has been
\* cancelled at least once, on every way out of the loop but an exception.
NoOrphanOrder ==
    pc # "raised" =>
        \A k \in Legs : order[k].state = "working" =>
            k \in cancels \/ (k = idx /\ pc \in {"poll", "settle"})

\* Once the operator creates the kill file at most one more order goes out: the
\* one whose last check was already behind it.
AtMostOneOrderPastKill == sentSinceKill <= 1

\* The journal never says more was bought than the venue filled.
JournalNeverOverstates ==
    \A k \in Legs : record[k] # NoRecord => record[k] <= order[k].filled

Imbalance == \E k \in Legs : order[k].filled < order[1].filled

\* What may leave the legs out of balance without an emergency: the first leg filled
\* after (or was never read before) its last poll, an order was refused, the order
\* budget ran out, or a leg has no adapter.
QuietCause ==
    \/ record[1] # NoRecord /\ record[1] < order[1].filled
    \/ order[idx].state = "rejected"
    \/ ordersPlaced >= MaxOrders
    \/ idx \in NoAdapter

\* If the loop ends with the first leg not matched by every other leg and raises
\* no emergency, then it is for one of those reasons.
UnflaggedImbalanceHasCause ==
    (pc = "done" /\ Imbalance /\ ~emergency) => QuietCause

\* The contracts held, as the promise of HedgedPurchase sees them.
Held == [k \in Legs |-> order[k].filled]
Purchase == INSTANCE HedgedPurchase WITH bought <- Held
ImplementsPurchase == Purchase!Spec
================================================================================
