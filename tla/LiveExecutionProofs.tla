-------------------------- MODULE LiveExecutionProofs --------------------------
(***************************************************************************)
(* Theorems about LiveExecution for any number of legs, any planned        *)
(* quantity, any order budget and timeout, any set of missing adapters and *)
(* any of the venue faults, about the session of a process                 *)
(* (TriggerSession) for any number of scans, trades and restarts, and      *)
(* about plans and their execution (PlannedExecution) for every basket,    *)
(* price and notional.                                                     *)
(*                                                                         *)
(* For an execution the argument is one inductive invariant, ExecInv, from *)
(* which every safety property follows, and the step simulation of         *)
(* HedgedPurchase.  An execution inside a session keeps it, with what it   *)
(* says of the journal (LiveInv); between two executions its variables are *)
(* cleared; and an order that is past changes only by what the venue does, *)
(* which keeps what LiveInv said of it and of its journal on the day it    *)
(* was left behind.                                                        *)
(***************************************************************************)
EXTENDS PlannedExecution, TriggerSession, FiniteSetsExt, FiniteSetTheorems,
        SequenceTheorems, WellFoundedInduction, TLAPS

\* What a venue order can look like.
FillsWithinOrder ==
    \A k \in Legs :
        /\ order[k].filled <= order[k].qty
        /\ order[k].state = "working" => order[k].filled < order[k].qty
        /\ order[k].state \in {"none", "rejected"} => order[k].filled = 0

\* Where the executor stands says which orders exist and what it knows of the
\* one it works on.
Placement ==
    /\ \A k \in Legs : k > idx => order[k] = NoOrder
    /\ ordersPlaced <= idx
    /\ pc \in {"leg", "check", "place"} =>
          order[idx] = NoOrder /\ ordersPlaced < idx
    /\ pc \in {"check", "place"} => Requested(idx) > 0
    /\ pc \in {"poll", "settle", "record"} =>
          order[idx].qty = Requested(idx) /\ filledQty <= order[idx].filled

\* The first fill is the measure of everything after it: no hedge asks for more,
\* every leg left behind holds at least as much.
HedgesMatchFirstFill ==
    /\ order[1].qty <= cap
    /\ \A k \in Legs : k > 1 => order[k].qty <= firstFilled
    /\ idx > 1 => /\ firstFilled > 0
                  /\ record[1] = firstFilled
                  /\ \A j \in Legs : j < idx => firstFilled <= order[j].filled

\* Orders sent since the kill file appeared.
KillHistory ==
    /\ sentSinceKill <= 1
    /\ ~killFile => sentSinceKill = 0
    /\ pc = "place" => sentSinceKill = 0

\* What is known when the loop has ended without an emergency.
QuietEnd ==
    (pc = "done" /\ ~emergency) =>
        \/ /\ record[1] = firstFilled
           /\ firstFilled > 0 => \A k \in Legs : firstFilled <= order[k].filled
        \/ order[1].filled = 0 /\ order[1].state \in {"none", "rejected"}
        \/ order[idx].state = "rejected"
        \/ ordersPlaced >= MaxOrders
        \/ idx \in NoAdapter

ExecInv ==
    /\ TypeOK
    /\ FillsWithinOrder
    /\ Placement
    /\ HedgesMatchFirstFill
    /\ KillHistory
    /\ JournalNeverOverstates
    /\ NoOrphanOrder
    /\ QuietEnd

\* The journal follows the loop: the legs before the one it works on are recorded and
\* the ones after it are not, and what a record does not show of an order was cancelled.
JournalInv ==
    /\ \A k \in Legs : k < idx => record[k] # NoRecord
    /\ \A k \in Legs : k > idx => record[k] = NoRecord
    /\ pc \notin Stopped => record[idx] = NoRecord
    /\ pc = "record" => filledQty >= order[idx].qty \/ idx \in cancels
    /\ \A k \in Legs : record[k] # NoRecord => record[k] >= order[k].qty \/ k \in cancels
    /\ pc = "done" /\ record[idx] = NoRecord => order[idx].state \in {"none", "rejected"}

\* The steps that only move the executor along: no order, record or kill file
\* changes.
Control ==
    \/ KillAtLeg \/ BudgetSpent \/ NotPlaceable \/ BuildRequest
    \/ KillBeforePlace \/ PassKillCheck \/ PollKilled \/ NothingToCancel

-------------------------------------------------------------------------------
\* The invariant holds initially.
LEMMA InitExecInv == Init => ExecInv
<1> SUFFICES ASSUME Init PROVE ExecInv
  OBVIOUS
<1> USE NAssumption, QuantityCapAssumption, BoundsAssumption DEF Init, Fresh, Legs
<1>1. TypeOK
  <2>1. NoOrder \in Order
    BY DEF NoOrder, Order
  <2>2. order \in [Legs -> Order] /\ record \in [Legs -> {NoRecord} \cup 0..QuantityCap]
    BY <2>1
  <2>3. emergency \in BOOLEAN /\ killFile \in BOOLEAN /\ cancels \subseteq Legs
    OBVIOUS
  <2>4. /\ pc \in {"leg", "check", "place", "poll", "settle", "record"} \cup Stopped
        /\ idx \in Legs
    OBVIOUS
  <2>5. /\ polls \in 0..MaxPolls /\ ordersPlaced \in 0..N /\ sentSinceKill \in 0..N
        /\ filledQty \in 0..QuantityCap /\ firstFilled \in 0..QuantityCap
        /\ residual \in 0..QuantityCap
    OBVIOUS
  <2> QED BY <2>2, <2>3, <2>4, <2>5 DEF TypeOK
<1>2. FillsWithinOrder /\ Placement /\ HedgesMatchFirstFill
  BY DEF FillsWithinOrder, Placement, HedgesMatchFirstFill, NoOrder
<1>3. KillHistory /\ JournalNeverOverstates /\ NoOrphanOrder /\ QuietEnd
  BY DEF KillHistory, JournalNeverOverstates, NoOrphanOrder, QuietEnd, NoOrder
<1> QED BY <1>1, <1>2, <1>3 DEF ExecInv

\* What is asked for is a quantity, and the leg number bounds the orders sent.
LEMMA RequestTyped == ASSUME TypeOK PROVE Requested(idx) \in 0..QuantityCap
BY QuantityCapAssumption DEF TypeOK, Requested

\* Every step of the loop that touches neither orders nor journal.
LEMMA ControlStep == ASSUME ExecInv, Control PROVE ExecInv'
<1> USE NAssumption, QuantityCapAssumption, BoundsAssumption DEF ExecInv, Control
<1> USE DEF KillAtLeg, BudgetSpent, NotPlaceable, BuildRequest, KillBeforePlace,
            PassKillCheck, PollKilled, NothingToCancel, Break,
            executor, position, outcome, venue, operator
<1>1. /\ UNCHANGED <<cap, idx, polls, filledQty, firstFilled, ordersPlaced, residual,
                     record, order, cancels, killFile, sentSinceKill>>
      /\ emergency' \in BOOLEAN
      /\ pc' \in {"check", "place", "settle", "record", "done"}
  BY DEF TypeOK
<1>2. TypeOK'
  BY <1>1 DEF TypeOK, Order, Legs, Stopped
<1>3. FillsWithinOrder'
  BY <1>1 DEF FillsWithinOrder
<1>4. Placement'
  BY DEF TypeOK, Placement, Requested, Stopped
<1>5. HedgesMatchFirstFill'
  BY <1>1 DEF HedgesMatchFirstFill
<1>6. KillHistory'
  BY DEF KillHistory, TypeOK, Kill
<1>7. JournalNeverOverstates'
  BY <1>1 DEF JournalNeverOverstates
<1>8. NoOrphanOrder'
  <2>1. CASE NothingToCancel
    <3>1. order[idx].state # "working"
      BY <2>1, RequestTyped DEF TypeOK, FillsWithinOrder, Placement, Order, Legs
    <3> QED BY <2>1, <3>1 DEF NoOrphanOrder, TypeOK
  <2>2. CASE ~NothingToCancel
    BY <2>2, <1>1 DEF NoOrphanOrder, Placement, NoOrder
  <2> QED BY <2>1, <2>2
<1>9. QuietEnd'
  BY DEF TypeOK, QuietEnd, Placement, HedgesMatchFirstFill, Requested,
         NoOrder, Order, Legs
<1> QED BY <1>2, <1>3, <1>4, <1>5, <1>6, <1>7, <1>8, <1>9

\* A new order of the leg the executor stands at, whatever the venue makes of it.
LEMMA SendFacts ==
    ASSUME ExecInv, pc = "place", NEW s \in {"working", "rejected"}, Send(s)
    PROVE  /\ order' \in [Legs -> Order]
           /\ order'[idx] = [state |-> s, qty |-> Requested(idx), filled |-> 0]
           /\ \A k \in Legs : k # idx => order'[k] = order[k]
           /\ cancels' = cancels /\ killFile' = killFile
           /\ sentSinceKill' \in {0, 1}
           /\ ~killFile => sentSinceKill' = 0
           /\ 0 \in 0..QuantityCap
BY RequestTyped, NAssumption, QuantityCapAssumption
DEF ExecInv, TypeOK, Send, Order, KillHistory, Legs

LEMMA PlaceStep ==
    ASSUME ExecInv, PlaceAccepted \/ PlaceRejected PROVE ExecInv'
<1> USE NAssumption, QuantityCapAssumption, BoundsAssumption DEF ExecInv
<1> PICK s \in {"working", "rejected"} :
        /\ pc = "place" /\ Send(s)
        /\ pc' = IF s = "working" THEN "poll" ELSE "done"
        /\ ordersPlaced' = ordersPlaced + 1
        /\ s = "working" => polls' = 0 /\ filledQty' = 0
        /\ s = "rejected" => UNCHANGED <<polls, filledQty>>
        /\ UNCHANGED <<cap, idx, firstFilled, residual, emergency, record>>
  BY DEF PlaceAccepted, PlaceRejected, outcome
<1>1. /\ order' \in [Legs -> Order]
      /\ order'[idx] = [state |-> s, qty |-> Requested(idx), filled |-> 0]
      /\ \A k \in Legs : k # idx => order'[k] = order[k]
      /\ cancels' = cancels /\ killFile' = killFile
      /\ sentSinceKill' \in {0, 1}
      /\ ~killFile => sentSinceKill' = 0
  BY SendFacts
<1>2. TypeOK'
  BY <1>1 DEF TypeOK, Placement, Legs, Stopped
<1>3. FillsWithinOrder'
  BY <1>1, RequestTyped DEF TypeOK, FillsWithinOrder, Placement, Order
<1>4. Placement'
  BY <1>1 DEF TypeOK, Placement, Requested, Legs
<1>5. HedgesMatchFirstFill'
  BY <1>1 DEF TypeOK, HedgesMatchFirstFill, Requested, Legs
<1>6. KillHistory'
  BY <1>1 DEF KillHistory
<1>7. JournalNeverOverstates'
  BY <1>1 DEF TypeOK, JournalNeverOverstates, Placement, NoOrder
<1>8. NoOrphanOrder'
  BY <1>1 DEF NoOrphanOrder, TypeOK
<1>9. QuietEnd'
  BY <1>1 DEF QuietEnd, TypeOK
<1> QED BY <1>2, <1>3, <1>4, <1>5, <1>6, <1>7, <1>8, <1>9

\* A status answer is at most what the venue filled.
LEMMA PollStep == ASSUME ExecInv, PollStatus PROVE ExecInv'
<1> USE NAssumption, QuantityCapAssumption, BoundsAssumption DEF ExecInv
<1>1. /\ pc = "poll" /\ pc' \in {"poll", "settle"}
      /\ filledQty' \in 0..QuantityCap /\ filledQty' <= order[idx].filled
      /\ polls' \in 0..MaxPolls
      /\ UNCHANGED <<cap, idx, firstFilled, ordersPlaced, residual, emergency, record,
                     order, cancels, killFile, sentSinceKill>>
  <2>1. order[idx].filled \in 0..QuantityCap /\ polls \in 0..MaxPolls
    BY DEF TypeOK, Order
  <2> QED BY <2>1 DEF PollStatus, StatusAnswers, outcome, venue, operator
<1>2. TypeOK'
  BY <1>1 DEF TypeOK, Order, Legs, Stopped
<1>3. FillsWithinOrder' /\ HedgesMatchFirstFill' /\ JournalNeverOverstates'
  BY <1>1 DEF FillsWithinOrder, HedgesMatchFirstFill, JournalNeverOverstates
<1>4. Placement' /\ KillHistory' /\ NoOrphanOrder' /\ QuietEnd'
  BY <1>1 DEF Placement, KillHistory, NoOrphanOrder, QuietEnd, Requested
<1> QED BY <1>2, <1>3, <1>4

\* A cancel, effective or not, changes no quantity.
LEMMA CancelStep == ASSUME ExecInv, CancelRest PROVE ExecInv'
<1> USE NAssumption, QuantityCapAssumption, BoundsAssumption DEF ExecInv
<1>1. /\ order' \in [Legs -> Order]
      /\ \A k \in Legs : /\ order'[k].qty = order[k].qty
                         /\ order'[k].filled = order[k].filled
                         /\ k # idx => order'[k] = order[k]
                         /\ order'[k].state \in {order[k].state, "closed"}
  BY DEF TypeOK, CancelRest, Order
<1>2. /\ pc = "settle" /\ pc' = "record"
      /\ cancels' = cancels \cup {idx}
      /\ UNCHANGED <<cap, idx, polls, filledQty, firstFilled, ordersPlaced, residual,
                     emergency, record, killFile, sentSinceKill>>
  BY DEF CancelRest, position, outcome, operator
<1>3. TypeOK'
  BY <1>1, <1>2 DEF TypeOK, Legs, Stopped
<1>4. FillsWithinOrder' /\ JournalNeverOverstates'
  BY <1>1, <1>2 DEF FillsWithinOrder, JournalNeverOverstates, TypeOK, Order
<1>5. Placement'
  BY <1>1, <1>2 DEF TypeOK, Placement, Requested, Order, NoOrder, Legs
<1>6. HedgesMatchFirstFill'
  BY <1>1, <1>2 DEF HedgesMatchFirstFill, Legs
<1>7. KillHistory' /\ NoOrphanOrder' /\ QuietEnd'
  BY <1>1, <1>2 DEF TypeOK, KillHistory, NoOrphanOrder, QuietEnd
<1> QED BY <1>3, <1>4, <1>5, <1>6, <1>7

\* Journalling a leg and deciding about the next one.
LEMMA RecordStep ==
    ASSUME ExecInv, RecordFirst \/ RecordHedge PROVE ExecInv'
<1> USE NAssumption, QuantityCapAssumption, BoundsAssumption DEF ExecInv
<1> USE DEF RecordFirst, RecordHedge, Journal, Continue, venue, operator
<1>1. /\ pc = "record" /\ pc' \in {"leg", "done"}
      /\ record' = [record EXCEPT ![idx] = filledQty]
      /\ firstFilled' = IF idx = 1 THEN filledQty ELSE firstFilled
      /\ UNCHANGED <<cap, polls, filledQty, ordersPlaced, order, cancels,
                     killFile, sentSinceKill>>
  BY DEF TypeOK, Legs
<1>2. CASE pc' = "leg"
  <2>1. /\ idx < N /\ idx' = idx + 1 /\ UNCHANGED <<residual, emergency>>
        /\ 0 < firstFilled' /\ firstFilled' <= filledQty
    BY <1>1, <1>2 DEF TypeOK, Legs, HedgesMatchFirstFill
  <2>2. TypeOK'
    BY <1>1, <1>2, <2>1 DEF TypeOK, Legs, Order
  <2>3. FillsWithinOrder' /\ KillHistory' /\ NoOrphanOrder' /\ QuietEnd'
    BY <1>1, <1>2, <2>1
    DEF FillsWithinOrder, KillHistory, NoOrphanOrder, QuietEnd
  <2>4. Placement'
    BY <1>1, <1>2, <2>1 DEF TypeOK, Placement, Legs
  <2>5. HedgesMatchFirstFill'
    <3>1. \A k \in Legs : k > 1 => order'[k].qty <= firstFilled'
      BY <1>1 DEF TypeOK, Placement, HedgesMatchFirstFill, NoOrder, Legs
    <3>2. record'[1] = firstFilled'
      BY <1>1 DEF TypeOK, HedgesMatchFirstFill, Legs
    <3>3. \A j \in Legs : j < idx' => firstFilled' <= order'[j].filled
      <4> SUFFICES ASSUME NEW j \in Legs, j < idx' PROVE firstFilled' <= order[j].filled
        BY <1>1
      <4>1. CASE j = idx
        BY <1>1, <2>1, <4>1 DEF TypeOK, Placement, Order
      <4>2. CASE j < idx
        BY <1>1, <4>2 DEF TypeOK, HedgesMatchFirstFill, Legs
      <4> QED BY <2>1, <4>1, <4>2 DEF TypeOK, Legs
    <3> QED BY <2>1, <3>1, <3>2, <3>3 DEF HedgesMatchFirstFill
  <2>6. JournalNeverOverstates'
    BY <1>1, <2>1 DEF TypeOK, Placement, JournalNeverOverstates, Legs
  <2> QED BY <2>2, <2>3, <2>4, <2>5, <2>6
<1>3. CASE pc' = "done"
  <2>1. /\ idx' = idx
        /\ residual' \in 0..QuantityCap /\ emergency' \in BOOLEAN
        /\ ~emergency' => \/ idx = 1 /\ filledQty = 0
                          \/ idx = N /\ firstFilled' <= filledQty
    <3>1. idx' = idx
      BY <1>1, <1>3 DEF TypeOK, Legs
    <3>2. residual' \in 0..QuantityCap
      BY DEF TypeOK
    <3>3. emergency' \in BOOLEAN
      BY DEF TypeOK
    <3>4. \/ idx = 1 /\ filledQty = 0
          \/ idx = N /\ firstFilled' <= filledQty
          \/ emergency' = TRUE
      BY <1>3 DEF TypeOK, Legs
    <3> QED BY <3>1, <3>2, <3>3, <3>4
  <2>2. TypeOK'
    BY <1>1, <1>3, <2>1 DEF TypeOK, Legs, Order, Stopped
  <2>3. FillsWithinOrder' /\ KillHistory' /\ NoOrphanOrder'
    BY <1>1, <1>3, <2>1 DEF FillsWithinOrder, KillHistory, NoOrphanOrder
  <2>4. Placement'
    BY <1>1, <1>3, <2>1 DEF Placement
  <2>5. HedgesMatchFirstFill'
    BY <1>1, <1>3, <2>1 DEF TypeOK, Placement, HedgesMatchFirstFill, Legs, NoOrder
  <2>6. JournalNeverOverstates'
    BY <1>1, <2>1 DEF TypeOK, Placement, JournalNeverOverstates, Legs
  <2>7. QuietEnd'
    BY <1>1, <1>3, <2>1
    DEF TypeOK, Placement, HedgesMatchFirstFill, QuietEnd, Legs, Order
  <2> QED BY <2>2, <2>3, <2>4, <2>5, <2>6, <2>7
<1> QED BY <1>1, <1>2, <1>3


\* An exception leaves everything the executor knew, and may have reached the
\* venue with a placement or a cancel.
LEMMA RaiseStep == ASSUME ExecInv, AdapterRaises PROVE ExecInv'
<1> USE NAssumption, QuantityCapAssumption, BoundsAssumption DEF ExecInv
<1>1. /\ pc' = "raised" /\ pc # "raised" /\ pc # "done"
      /\ UNCHANGED <<cap, idx, polls, filledQty, firstFilled, ordersPlaced,
                     residual, emergency, record>>
  BY DEF AdapterRaises, position, outcome, Stopped
<1>2. QuietEnd' /\ NoOrphanOrder'
  BY <1>1 DEF QuietEnd, NoOrphanOrder
<1>3. CASE pc = "place" /\ Send("working")
  <2>1. /\ order' \in [Legs -> Order]
        /\ order'[idx] = [state |-> "working", qty |-> Requested(idx), filled |-> 0]
        /\ \A k \in Legs : k # idx => order'[k] = order[k]
        /\ cancels' = cancels /\ killFile' = killFile
        /\ sentSinceKill' \in {0, 1}
        /\ ~killFile => sentSinceKill' = 0
    BY <1>3, SendFacts
  <2>2. TypeOK'
    BY <1>1, <2>1 DEF TypeOK, Stopped, Legs
  <2>3. FillsWithinOrder'
    BY <1>1, <1>3, <2>1 DEF TypeOK, FillsWithinOrder, Placement, Order
  <2>4. Placement' /\ KillHistory'
    BY <1>1, <2>1 DEF TypeOK, Placement, KillHistory, Legs
  <2>5. HedgesMatchFirstFill'
    BY <1>1, <2>1 DEF TypeOK, HedgesMatchFirstFill, Requested, Legs
  <2>6. JournalNeverOverstates'
    BY <1>1, <1>3, <2>1 DEF TypeOK, JournalNeverOverstates, Placement, NoOrder
  <2> QED BY <1>2, <2>2, <2>3, <2>4, <2>5, <2>6
<1>4. CASE ~(pc = "place" /\ Send("working"))
  <2>1. /\ order' \in [Legs -> Order]
        /\ \A k \in Legs : /\ order'[k].qty = order[k].qty
                           /\ order'[k].filled = order[k].filled
                           /\ k # idx => order'[k] = order[k]
                           /\ order'[k].state \in {order[k].state, "closed"}
        /\ UNCHANGED <<cancels, killFile, sentSinceKill>>
    BY <1>4 DEF TypeOK, AdapterRaises, Order, venue, operator
  <2>2. TypeOK'
    BY <1>1, <2>1 DEF TypeOK, Stopped, Legs
  <2>3. FillsWithinOrder' /\ JournalNeverOverstates'
    BY <1>1, <2>1 DEF FillsWithinOrder, JournalNeverOverstates, TypeOK, Order
  <2>4. Placement' /\ KillHistory'
    BY <1>1, <2>1 DEF TypeOK, Placement, KillHistory, Legs
  <2>5. HedgesMatchFirstFill'
    BY <1>1, <2>1 DEF HedgesMatchFirstFill, Legs
  <2> QED BY <1>2, <2>2, <2>3, <2>4, <2>5
<1> QED BY <1>3, <1>4

\* What a step of the venue may do to the orders.
VenueMove ==
    /\ order' \in [Legs -> Order]
    /\ \A k \in Legs :
          /\ order'[k].qty = order[k].qty
          /\ order[k].filled <= order'[k].filled
          /\ order'[k].filled <= order[k].qty
          /\ order'[k].state = "working" =>
                order[k].state = "working" /\ order'[k].filled < order[k].qty
          /\ order[k].state \in {"none", "rejected"} => order'[k] = order[k]
          /\ order'[k].state \in {order[k].state, "closed"}
          /\ order[k].state # "working" => order'[k].state = order[k].state

\* The venue changes only working orders, and fills them at most in full.
LEMMA VenueMoves == ASSUME ExecInv, Venue PROVE VenueMove
<1> USE NAssumption, QuantityCapAssumption, BoundsAssumption DEF ExecInv
<1>1. ASSUME NEW k \in Legs, NEW n \in 1..QuantityCap, VenueFills(k, n)
      PROVE  VenueMove
  <2>1. /\ order \in [Legs -> Order] /\ n \in Nat
        /\ order[k].filled + n \in 0..QuantityCap
    BY <1>1 DEF VenueFills, TypeOK, Order
  <2>2. /\ order' \in [Legs -> Order]
        /\ \A l \in Legs : l # k => order'[l] = order[l]
        /\ order'[k].qty = order[k].qty
        /\ order'[k].filled = order[k].filled + n
        /\ order'[k].state \in {"working", "closed"}
        /\ order'[k].state = "working" => order[k].filled + n # order[k].qty
        /\ order[k].state = "working" /\ order[k].filled + n <= order[k].qty
    BY <1>1, <2>1 DEF VenueFills, Order
  <2>3. order[k].filled \in Nat /\ order[k].qty \in Nat
    BY <2>1 DEF Order
  <2>4. \A l \in Legs : order[l].filled \in Nat /\ order[l].qty \in Nat
    BY <2>1 DEF Order
  <2> QED BY <2>1, <2>2, <2>3, <2>4 DEF VenueMove, FillsWithinOrder
<1>2. ASSUME NEW k \in Legs, VenueExpires(k)
      PROVE  VenueMove
  BY <1>2 DEF VenueExpires, VenueMove, TypeOK, Order, FillsWithinOrder
<1> QED BY <1>1, <1>2 DEF Venue

\* Whatever the venue does to its orders keeps the invariant.
LEMMA VenueStep == ASSUME ExecInv, Venue PROVE ExecInv'
<1> USE NAssumption, QuantityCapAssumption, BoundsAssumption DEF ExecInv
<1>1. UNCHANGED <<executor, outcome, cancels, operator>>
  BY DEF Venue, VenueFills, VenueExpires
<1>2. VenueMove
  BY VenueMoves
<1>3. TypeOK'
  BY <1>1, <1>2 DEF VenueMove, TypeOK, executor, position, outcome, operator
<1>4. FillsWithinOrder' /\ KillHistory' /\ NoOrphanOrder'
  BY <1>1, <1>2 
  DEF VenueMove, FillsWithinOrder, KillHistory, NoOrphanOrder, TypeOK, Order,
      executor, position, outcome, operator
<1>5. Placement'
  BY <1>1, <1>2 DEF VenueMove, Placement, TypeOK, Order, NoOrder, Requested, Legs,
                    executor, position, outcome, operator
<1>6. HedgesMatchFirstFill'
  BY <1>1, <1>2 
  DEF VenueMove, HedgesMatchFirstFill, TypeOK, Order, Legs, executor, position, outcome
<1>7. JournalNeverOverstates'
  BY <1>1, <1>2 DEF VenueMove, JournalNeverOverstates, TypeOK, Order, NoRecord, outcome
<1>8. QuietEnd'
  BY <1>1, <1>2 
  DEF VenueMove, QuietEnd, TypeOK, Order, Legs, executor, position, outcome
<1> QED BY <1>3, <1>4, <1>5, <1>6, <1>7, <1>8

\* The operator touches nothing but the kill file.
LEMMA OperatorStep == ASSUME ExecInv, OperatorTogglesKill PROVE ExecInv'
<1> USE NAssumption DEF ExecInv, OperatorTogglesKill, executor, position, outcome, venue
<1>1. TypeOK' /\ KillHistory'
  BY DEF TypeOK, KillHistory
<1>2. FillsWithinOrder' /\ Placement' /\ HedgesMatchFirstFill'
  BY DEF FillsWithinOrder, Placement, HedgesMatchFirstFill, Requested
<1>3. JournalNeverOverstates' /\ NoOrphanOrder' /\ QuietEnd'
  BY DEF JournalNeverOverstates, NoOrphanOrder, QuietEnd
<1> QED BY <1>1, <1>2, <1>3

\* The invariant is inductive.
LEMMA NextExecInv == ExecInv /\ [Next]_vars => ExecInv'
<1> SUFFICES ASSUME ExecInv, [Next]_vars PROVE ExecInv'
  OBVIOUS
<1>1. CASE Control
  BY <1>1, ControlStep
<1>2. CASE PlaceAccepted \/ PlaceRejected
  BY <1>2, PlaceStep
<1>3. CASE PollStatus
  BY <1>3, PollStep
<1>4. CASE CancelRest
  BY <1>4, CancelStep
<1>5. CASE RecordFirst \/ RecordHedge
  BY <1>5, RecordStep
<1>6. CASE AdapterRaises
  BY <1>6, RaiseStep
<1>7. CASE Venue
  BY <1>7, VenueStep
<1>8. CASE OperatorTogglesKill
  BY <1>8, OperatorStep
<1>9. CASE UNCHANGED vars
  <2> USE <1>9 DEF vars, executor, position, outcome, venue, operator, ExecInv
  <2>1. TypeOK' /\ KillHistory' /\ FillsWithinOrder' /\ Placement'
    BY DEF TypeOK, KillHistory, FillsWithinOrder, Placement, Requested
  <2>2. HedgesMatchFirstFill' /\ JournalNeverOverstates' /\ NoOrphanOrder' /\ QuietEnd'
    BY DEF HedgesMatchFirstFill, JournalNeverOverstates, NoOrphanOrder, QuietEnd
  <2> QED BY <2>1, <2>2
<1> QED BY <1>1, <1>2, <1>3, <1>4, <1>5, <1>6, <1>7, <1>8, <1>9
        DEF Next, Executor, Control

\* It is kept by every step of the executor, the venues and the operator.
LEMMA NextJournalInv ==
    ASSUME ExecInv, JournalInv, [Next]_vars PROVE JournalInv'
<1> USE NAssumption, QuantityCapAssumption, BoundsAssumption DEF Stopped
<1>0. TypeOK /\ Placement
  BY DEF ExecInv
<1>1. CASE Control
  BY <1>0, <1>1
  DEF Control, KillAtLeg, BudgetSpent, NotPlaceable, BuildRequest, KillBeforePlace,
      PassKillCheck, PollKilled, NothingToCancel, Break, executor, position, outcome,
      venue, operator, JournalInv, Placement, TypeOK, NoOrder
<1>2. CASE PlaceAccepted \/ PlaceRejected
  <2>1. PICK s \in {"working", "rejected"} :
            pc = "place" /\ Send(s) /\ pc' = IF s = "working" THEN "poll" ELSE "done"
    BY <1>2 DEF PlaceAccepted, PlaceRejected
  <2>2. /\ order'[idx].state = s
        /\ \A k \in Legs : k # idx => order'[k] = order[k]
        /\ UNCHANGED <<record, idx, cancels>>
    BY <1>2, <2>1, SendFacts DEF PlaceAccepted, PlaceRejected, outcome
  <2> QED BY <1>0, <1>2, <2>1, <2>2
          DEF JournalInv, TypeOK
<1>3. CASE PollStatus
  BY <1>0, <1>3 DEF PollStatus, outcome, venue, JournalInv, TypeOK
<1>4. CASE CancelRest
  <2>1. \A k \in Legs : order'[k].qty = order[k].qty
    BY <1>0, <1>4 DEF CancelRest, TypeOK, Order
  <2> QED BY <1>0, <1>4, <2>1 DEF CancelRest, position, outcome, JournalInv, TypeOK
<1>5. CASE RecordFirst \/ RecordHedge
  <2>1. /\ pc = "record" /\ record' = [record EXCEPT ![idx] = filledQty]
        /\ UNCHANGED <<order, cancels>>
        /\ \/ pc' = "done" /\ idx' = idx
           \/ pc' = "leg" /\ idx < N /\ idx' = idx + 1
    BY <1>0, <1>5 DEF RecordFirst, RecordHedge, Journal, Continue, venue, TypeOK, Legs
  <2>2. filledQty # NoRecord /\ \A k \in Legs : record'[k] =
            IF k = idx THEN filledQty ELSE record[k]
    BY <1>0, <2>1 DEF TypeOK, NoRecord
  <2> QED BY <1>0, <2>1, <2>2 DEF JournalInv, TypeOK, Legs
<1>6. CASE AdapterRaises
  <2>1. pc' = "raised" /\ pc \notin Stopped /\ UNCHANGED <<idx, record, cancels>>
    BY <1>6 DEF AdapterRaises, Send, position, outcome, venue
  <2>2. \A k \in Legs : k # idx => order'[k] = order[k]
    BY <1>0, <1>6 DEF AdapterRaises, Send, venue, TypeOK
  <2> QED BY <1>0, <2>1, <2>2 DEF JournalInv, TypeOK
<1>7. CASE Venue
  <2>1. UNCHANGED <<executor, outcome, cancels>>
    BY <1>7 DEF Venue, VenueFills, VenueExpires
  <2>2. VenueMove
    BY <1>7, VenueMoves
  <2> QED BY <1>0, <2>1, <2>2
          DEF JournalInv, VenueMove, TypeOK, executor, position, outcome
<1>8. CASE OperatorTogglesKill \/ UNCHANGED vars
  BY <1>8 DEF OperatorTogglesKill, vars, executor, position, outcome, venue, JournalInv
<1> QED BY <1>1, <1>2, <1>3, <1>4, <1>5, <1>6, <1>7, <1>8
        DEF Next, Executor, Control

LEMMA ExecInvHolds == Spec => []ExecInv
BY InitExecInv, NextExecInv, PTL DEF Spec

-------------------------------------------------------------------------------
\* The invariants of LiveExecution, for every value of the constants.

\* Every variable keeps its type.
THEOREM TypeCorrect == Spec => []TypeOK
BY ExecInvHolds, PTL DEF ExecInv

\* What ExecInv says of the contracts held.
LEMMA ExecInvCovers == ExecInv => CoveredLadder
<1> SUFFICES ASSUME ExecInv, NEW k \in 2..N, NEW j \in 1..(k - 1)
             PROVE  order[k].filled <= order[j].filled
  BY DEF CoveredLadder
<1> USE NAssumption, QuantityCapAssumption DEF ExecInv, Legs
<1>0. k \in Legs /\ j \in Legs /\ j < k /\ k > 1
  OBVIOUS
<1>1. CASE k > idx
  BY <1>0, <1>1 DEF Placement, NoOrder, TypeOK, Order
<1>2. CASE k <= idx
  <2>1. idx > 1 /\ j < idx
    BY <1>0, <1>2 DEF TypeOK
  <2>2. /\ order[k].filled <= order[k].qty /\ order[k].qty <= firstFilled
        /\ firstFilled <= order[j].filled
    BY <1>0, <2>1 DEF FillsWithinOrder, HedgesMatchFirstFill
  <2>3. /\ order[k].filled \in Nat /\ order[k].qty \in Nat /\ order[j].filled \in Nat
        /\ firstFilled \in Nat
    BY <1>0 DEF TypeOK, Order
  <2> QED BY <2>2, <2>3
<1> QED BY <1>0, <1>1, <1>2 DEF TypeOK

\* No fill exceeds the quantity planned for the basket.
LEMMA ExecInvWithinCap == ExecInv => \A k \in Legs : order[k].filled <= cap
<1> SUFFICES ASSUME ExecInv, NEW k \in Legs PROVE order[k].filled <= cap
  OBVIOUS
<1> USE NAssumption, QuantityCapAssumption DEF ExecInv, Legs
<1>1. order[1].filled <= order[1].qty /\ order[1].qty <= cap
  BY DEF FillsWithinOrder, HedgesMatchFirstFill
<1>2. /\ order[k].filled \in Nat /\ order[1].filled \in Nat /\ order[1].qty \in Nat
      /\ cap \in Nat
  BY DEF TypeOK, Order
<1>3. CASE k = 1
  BY <1>1, <1>2, <1>3
<1>4. CASE k > 1
  <2>1. order[k].filled <= order[1].filled
    BY <1>4, ExecInvCovers DEF CoveredLadder
  <2> QED BY <1>1, <1>2, <2>1
<1> QED BY <1>3, <1>4

\* No hedge leg is ever held beyond a leg before it, whatever the venues do.
THEOREM LadderIsCovered == Spec => []CoveredLadder
BY ExecInvHolds, ExecInvCovers, PTL

\* Nothing is left working and uncancelled at a venue, save by an exception.
THEOREM NoOrderOrphaned == Spec => []NoOrphanOrder
BY ExecInvHolds, PTL DEF ExecInv

\* After the kill file appears at most one order goes out.
THEOREM KillStopsOrders == Spec => []AtMostOneOrderPastKill
<1>1. ExecInv => AtMostOneOrderPastKill
  BY DEF ExecInv, KillHistory, AtMostOneOrderPastKill
<1> QED BY <1>1, ExecInvHolds, PTL

\* The journal is never ahead of the venue.
THEOREM JournalIsSound == Spec => []JournalNeverOverstates
BY ExecInvHolds, PTL DEF ExecInv

\* A quiet end with the legs out of balance has one of the four known causes.
LEMMA QuietImbalanceCaused == ExecInv => UnflaggedImbalanceHasCause
<1> SUFFICES ASSUME ExecInv, pc = "done", Imbalance, ~emergency PROVE QuietCause
  BY DEF UnflaggedImbalanceHasCause
<1> USE NAssumption, QuantityCapAssumption DEF ExecInv, QuietCause
<1>1. PICK k \in Legs : order[k].filled < order[1].filled
  BY DEF Imbalance
<1>2. order[k].filled \in Nat /\ order[1].filled \in Nat /\ firstFilled \in Nat
  BY DEF TypeOK, Order, Legs
<1>3. CASE /\ record[1] = firstFilled
           /\ firstFilled > 0 => \A l \in Legs : firstFilled <= order[l].filled
  BY <1>1, <1>2, <1>3 DEF NoRecord
<1>4. CASE order[1].filled = 0
  BY <1>1, <1>2, <1>4
<1> QED BY <1>3, <1>4 DEF QuietEnd

THEOREM QuietEndExplained == Spec => []UnflaggedImbalanceHasCause
BY QuietImbalanceCaused, ExecInvHolds, PTL

\* A fill of the venue is a purchase the abstract specification allows.
LEMMA FillIsBuy ==
    ASSUME ExecInv, NEW k \in Legs, NEW n \in 1..QuantityCap, VenueFills(k, n)
    PROVE  Purchase!Buy(k, n)
<1> USE NAssumption, QuantityCapAssumption DEF ExecInv, VenueFills
<1>1. order[k].filled + n <= QuantityCap
  BY DEF TypeOK, Order
<1>2. ASSUME NEW j \in 1..(k - 1) PROVE order[k].filled + n <= order[j].filled
  <2>1. j \in Legs /\ j < k /\ k > 1 /\ k <= idx
    BY DEF Legs, Placement, NoOrder, TypeOK
  <2>2. order[k].qty <= firstFilled /\ firstFilled <= order[j].filled
    BY <2>1 DEF HedgesMatchFirstFill, TypeOK, Legs
  <2>3. /\ order[k].filled \in Nat /\ order[k].qty \in Nat /\ order[j].filled \in Nat
        /\ firstFilled \in Nat /\ n \in Nat
    BY <2>1 DEF TypeOK, Order
  <2> QED BY <2>2, <2>3
<1>3. Held' = [Held EXCEPT ![k] = @ + n]
  BY DEF TypeOK, Order, Held
<1> QED BY <1>1, <1>2, <1>3 DEF Purchase!Buy, Held, Legs

\* Nothing but a fill of the venue changes a holding.
LEMMA OtherStepsBuyNothing ==
    ASSUME ExecInv, [Next]_vars,
           ~(\E k \in Legs, n \in 1..QuantityCap : VenueFills(k, n))
    PROVE  Held' = Held
<1> USE NAssumption, QuantityCapAssumption DEF ExecInv, Held
<1>1. ASSUME pc = "place", NEW s \in {"working", "rejected"}, Send(s)
      PROVE  \A k \in Legs : order'[k].filled = order[k].filled
  BY <1>1 DEF Send, TypeOK, Placement, NoOrder, Order
<1>2. CASE PlaceAccepted \/ PlaceRejected
  BY <1>1, <1>2 DEF PlaceAccepted, PlaceRejected
<1>3. CASE CancelRest
  BY <1>3 DEF CancelRest, TypeOK, Order
<1>4. CASE AdapterRaises
  BY <1>1, <1>4 DEF AdapterRaises, TypeOK, Order, venue
<1>5. CASE Venue
  BY <1>5 DEF Venue, VenueExpires, TypeOK, Order
<1>6. CASE Control \/ PollStatus \/ RecordFirst \/ RecordHedge \/ OperatorTogglesKill
           \/ UNCHANGED vars
  <2>1. order' = order
    BY <1>6
    DEF Control, KillAtLeg, BudgetSpent, NotPlaceable, BuildRequest,
        KillBeforePlace, PassKillCheck, PollKilled, NothingToCancel, Break,
        PollStatus, RecordFirst, RecordHedge, OperatorTogglesKill, vars, venue
  <2> QED BY <2>1
<1> QED BY <1>2, <1>3, <1>4, <1>5, <1>6 DEF Next, Executor, Control

\* The executor, the venues and their faults implement the abstract purchase.
THEOREM Implements == Spec => ImplementsPurchase
<1>1. Init => Purchase!Init
  BY DEF Init, Fresh, Purchase!Init, Purchase!Legs, Legs, NoOrder, Held
<1>2. ASSUME ExecInv, [Next]_vars PROVE [Purchase!Next]_Held
  <2>1. CASE \E k \in Legs, n \in 1..QuantityCap : VenueFills(k, n)
    <3>1. PICK k \in Legs, n \in 1..QuantityCap : VenueFills(k, n)
      BY <2>1
    <3>2. Purchase!Buy(k, n)
      BY <1>2, <3>1, FillIsBuy
    <3> QED BY <3>2 DEF Purchase!Next, Purchase!Legs, Legs
  <2>2. CASE ~(\E k \in Legs, n \in 1..QuantityCap : VenueFills(k, n))
    <3>1. Held' = Held
      BY <1>2, <2>2, OtherStepsBuyNothing
    <3> QED BY <3>1
  <2> QED BY <2>1, <2>2
<1> QED BY <1>1, <1>2, ExecInvHolds, PTL DEF Spec, ImplementsPurchase, Purchase!Spec

-------------------------------------------------------------------------------
(***************************************************************************)
(* The session: executions one after the other, and what they leave.       *)
(***************************************************************************)
Line == [leg : Legs, status : {"filled", "partial", "not_filled"},
         price : Nat \cup {NoRecord}, qty : {NoRecord} \cup 0..QuantityCap,
         fees : {NoRecord}]

Trade == [order : [Legs -> Order], cancels : SUBSET Legs, fills : Seq(Line),
          finalized : BOOLEAN]

\* Between two executions there is no order and nothing has been read.
Idle == phase # "execute" => Fresh /\ cap = 0

\* An order fills within its quantity, and no hedge asks for more than any leg
\* before it holds: what keeps the ladder covered however late an order fills.
Covered(o) ==
    /\ \A k \in Legs : o[k].filled <= o[k].qty
    /\ \A k \in Legs : \A j \in Legs : j < k => o[k].qty <= o[j].filled

\* What is still working was cancelled.
Cancelled(t) == \A k \in Legs : t.order[k].state = "working" => k \in t.cancels

\* What the journal of a trade says of its orders: line k is about leg k and not above
\* what is held, an order that may be held beyond its line was cancelled, and legs
\* without a line hold nothing and have nothing at work.
Drawn(t) ==
    /\ DOMAIN t.fills \subseteq Legs
    /\ \A k \in DOMAIN t.fills :
          /\ t.fills[k].leg = k /\ t.fills[k].qty \in 0..t.order[k].filled
          /\ t.fills[k].qty >= t.order[k].qty \/ k \in t.cancels
    /\ \A k \in Legs \ DOMAIN t.fills :
          t.order[k].state \in {"none", "rejected"} /\ t.order[k].filled = 0

Settled(t) == /\ Covered(t.order)
              /\ t.finalized => Cancelled(t) /\ Drawn(t)

PastInv ==
    /\ trades \in Seq(Trade)
    /\ \A t \in DOMAIN trades : Settled(trades[t])

LiveInv == ExecInv /\ JournalInv

SessionInv == LiveInv /\ Idle /\ PastInv

\* The contracts of every trade that is over step down along its legs.
PastLadder ==
    \A t \in DOMAIN trades : \A k \in Legs : \A j \in Legs :
        j < k => trades[t].order[k].filled <= trades[t].order[j].filled

-------------------------------------------------------------------------------
\* Cleared variables satisfy the invariant of an execution.
KillTold == /\ killFile \in BOOLEAN /\ sentSinceKill \in 0..1
            /\ ~killFile => sentSinceKill = 0

LEMMA FreshExecInv == KillTold /\ cap \in 0..QuantityCap /\ Fresh => ExecInv
<1> SUFFICES ASSUME KillTold, cap \in 0..QuantityCap, Fresh PROVE ExecInv
  OBVIOUS
<1> USE NAssumption, QuantityCapAssumption, BoundsAssumption DEF Fresh, Legs, KillTold
<1>1. TypeOK
  <2>1. NoOrder \in Order
    BY DEF NoOrder, Order
  <2>2. order \in [Legs -> Order] /\ record \in [Legs -> {NoRecord} \cup 0..QuantityCap]
    BY <2>1
  <2>3. emergency \in BOOLEAN /\ killFile \in BOOLEAN /\ cancels \subseteq Legs
    OBVIOUS
  <2>4. /\ pc \in {"leg", "check", "place", "poll", "settle", "record"} \cup Stopped
        /\ idx \in Legs
    OBVIOUS
  <2>5. /\ polls \in 0..MaxPolls /\ ordersPlaced \in 0..N /\ sentSinceKill \in 0..N
        /\ filledQty \in 0..QuantityCap /\ firstFilled \in 0..QuantityCap
        /\ residual \in 0..QuantityCap
    OBVIOUS
  <2> QED BY <2>2, <2>3, <2>4, <2>5 DEF TypeOK
<1>2. FillsWithinOrder /\ Placement /\ HedgesMatchFirstFill
  BY DEF FillsWithinOrder, Placement, HedgesMatchFirstFill, NoOrder
<1>3. KillHistory /\ JournalNeverOverstates /\ NoOrphanOrder /\ QuietEnd
  BY DEF KillHistory, JournalNeverOverstates, NoOrphanOrder, QuietEnd, NoOrder
<1> QED BY <1>1, <1>2, <1>3 DEF ExecInv

LEMMA FreshLiveInv == KillTold /\ cap \in 0..QuantityCap /\ Fresh => LiveInv
BY FreshExecInv, NAssumption DEF LiveInv, JournalInv, Fresh, Stopped, Legs, NoRecord

\* The same after a step.
LEMMA FreshLiveInvNext ==
    (KillTold /\ cap \in 0..QuantityCap /\ Fresh)' => LiveInv'
BY FreshLiveInv, PTL

LEMMA NextLiveInv == LiveInv /\ [Next]_vars => LiveInv'
BY NextExecInv, NextJournalInv DEF LiveInv

\* What ExecInv says of the kill file.
LEMMA ExecKillTold == ASSUME ExecInv PROVE KillTold
BY NAssumption DEF ExecInv, TypeOK, KillHistory, KillTold

\* What ExecInv says of the orders: nothing asks for more than is held before it.
LEMMA ExecCovered == ASSUME ExecInv PROVE Covered(order)
<1> USE NAssumption, QuantityCapAssumption DEF ExecInv, Legs
<1>1. ASSUME NEW k \in Legs PROVE order[k].filled <= order[k].qty
  BY <1>1 DEF FillsWithinOrder
<1>2. ASSUME NEW k \in Legs, NEW j \in Legs, j < k
      PROVE  order[k].qty <= order[j].filled
  <2>1. order[k] \in Order /\ order[j] \in Order /\ firstFilled \in Nat /\ idx \in Legs
    BY DEF TypeOK
  <2>2. CASE k > idx
    BY <2>1, <2>2 DEF Placement, NoOrder, Order
  <2>3. CASE k <= idx
    <3>1. idx > 1 /\ j < idx /\ k > 1
      BY <1>2, <2>1, <2>3
    <3>2. order[k].qty <= firstFilled /\ firstFilled <= order[j].filled
      BY <3>1 DEF HedgesMatchFirstFill
    <3> QED BY <2>1, <3>2 DEF Order
  <2> QED BY <2>1, <2>2, <2>3
<1> QED BY <1>1, <1>2 DEF Covered

\* The lines of a journal are lines.
LEMMA LinesTyped == ASSUME TypeOK PROVE FillLines \in Seq(Line)
<1> DEFINE J == {l \in Legs : record[l] # NoRecord}
<1>1. /\ IsFiniteSet(Legs) /\ Cardinality(Legs) = N
  BY NAssumption, FS_Interval DEF Legs
<1>2. Cardinality(J) \in Nat /\ Cardinality(J) <= N
  BY <1>1, FS_Subset, FS_CardinalityType
<1>3. ASSUME NEW k \in 1..Cardinality(J) PROVE FillLine(k) \in Line
  <2>1. k \in Legs
    BY <1>2, NAssumption DEF Legs
  <2>2. record[k] \in {NoRecord} \cup 0..QuantityCap /\ Ask[k] \in Nat
    BY <2>1, MoneyAssumption DEF TypeOK, Legs
  <2>3. Finalized!None = NoRecord
    BY DEF Finalized!None, NoRecord
  <2> QED BY <2>1, <2>2, <2>3 DEF FillLine, Line
<1> QED BY <1>2, <1>3 DEF FillLines

\* The journal has a line for each leg the loop is through with, and for no other.
LEMMA LinesOfLegs ==
    ASSUME TypeOK, JournalInv
    PROVE  \E m \in 0..N : /\ DOMAIN FillLines = 1..m
                          /\ \A k \in Legs : k <= m <=> record[k] # NoRecord
<1> DEFINE J == {l \in Legs : record[l] # NoRecord}
           m == IF record[idx] = NoRecord THEN idx - 1 ELSE idx
<1>1. m \in 0..N
  BY NAssumption DEF TypeOK, Legs
<1>2. \A k \in Legs : k <= m <=> record[k] # NoRecord
  BY NAssumption DEF TypeOK, Legs, JournalInv
<1>3. J = 1..m
  BY <1>1, <1>2, NAssumption DEF Legs
<1> HIDE DEF J, m
<1>4. Cardinality(J) = m
  <2>1. 1 \in Int /\ m \in Int /\ m - 1 + 1 = m
    BY <1>1
  <2>2. Cardinality(1..m) = IF 1 > m THEN 0 ELSE m - 1 + 1
    BY <2>1, FS_Interval
  <2> QED BY <1>1, <1>3, <2>1, <2>2
<1>5. DOMAIN FillLines = 1..m
  BY <1>4 DEF FillLines, J
<1> QED BY <1>1, <1>2, <1>5

\* A finished execution leaves a journal that is drawn from its orders.
LEMMA LinesDrawn ==
    ASSUME LiveInv, pc = "done"
    PROVE  Drawn([order |-> order, cancels |-> cancels, fills |-> FillLines,
                  finalized |-> TRUE])
<1>0. TypeOK /\ JournalInv /\ JournalNeverOverstates /\ FillsWithinOrder /\ Placement
  BY DEF LiveInv, ExecInv
<1>1. PICK m \in 0..N : /\ DOMAIN FillLines = 1..m
                       /\ \A k \in Legs : k <= m <=> record[k] # NoRecord
  BY <1>0, LinesOfLegs
<1>2. DOMAIN FillLines \subseteq Legs
  BY <1>1, NAssumption DEF Legs
<1>3. ASSUME NEW k \in DOMAIN FillLines
      PROVE  /\ FillLines[k].leg = k /\ FillLines[k].qty \in 0..order[k].filled
             /\ FillLines[k].qty >= order[k].qty \/ k \in cancels
  <2>1. k \in Legs /\ record[k] # NoRecord
    BY <1>1, <1>2
  <2>2. FillLines[k].leg = k /\ FillLines[k].qty = record[k]
    BY DEF FillLines, FillLine
  <2>3. record[k] \in Nat /\ record[k] <= order[k].filled /\ order[k].filled \in Nat
    BY <1>0, <2>1, QuantityCapAssumption DEF TypeOK, JournalNeverOverstates, Order
  <2>4. record[k] >= order[k].qty \/ k \in cancels
    BY <1>0, <2>1 DEF JournalInv
  <2> QED BY <2>2, <2>3, <2>4
<1>4. ASSUME NEW k \in Legs \ DOMAIN FillLines
      PROVE  order[k].state \in {"none", "rejected"} /\ order[k].filled = 0
  <2>1. record[k] = NoRecord
    BY <1>1, NAssumption DEF Legs
  <2>2. order[k].state \in {"none", "rejected"}
    BY <1>0, <2>1, NAssumption DEF JournalInv, Placement, NoOrder, TypeOK, Legs
  <2> QED BY <1>0, <2>2 DEF FillsWithinOrder
<1> QED BY <1>2, <1>3, <1>4 DEF Drawn

-------------------------------------------------------------------------------
\* The invariant of a session holds initially.
LEMMA InitSessionInv == SessionInit => SessionInv
<1> SUFFICES ASSUME SessionInit PROVE SessionInv
  OBVIOUS
<1>1. LiveInv
  BY FreshLiveInv, QuantityCapAssumption DEF SessionInit, KillTold
<1>2. Idle /\ PastInv
  BY DEF SessionInit, Idle, PastInv
<1> QED BY <1>1, <1>2 DEF SessionInv

\* An execution that is over leaves its orders covered, and its variables cleared;
\* the ones it finalized leave nothing at work that was not cancelled.
LEMMA LeaveStep ==
    ASSUME SessionInv, NEW f \in BOOLEAN, Leave(f), f => pc = "done"
    PROVE  SessionInv'
<1> DEFINE new == [order |-> order, cancels |-> cancels, fills |-> FillLines,
                   finalized |-> f]
<1>0. ExecInv /\ JournalInv /\ PastInv /\ TypeOK
  BY DEF SessionInv, LiveInv, ExecInv
<1>1. Fresh' /\ cap' = 0 /\ UNCHANGED <<killFile, sentSinceKill>>
  BY DEF Leave, Cleared, Fresh, operator
<1>2. LiveInv'
  <2>1. KillTold
    BY <1>0, ExecKillTold
  <2>2. KillTold'
    BY <2>1, <1>1 DEF KillTold
  <2> QED BY <1>1, <2>2, FreshLiveInvNext, QuantityCapAssumption
<1>3. Idle'
  BY <1>1 DEF Idle
<1>4. new \in Trade
  BY <1>0, LinesTyped DEF TypeOK, Trade
<1>5. Covered(new.order)
  BY <1>0, ExecCovered
<1>6. f => Cancelled(new) /\ Drawn(new)
  <2>1. f => Cancelled(new)
    BY <1>0, NAssumption DEF ExecInv, NoOrphanOrder, Cancelled
  <2>2. f => Drawn(new)
    BY LinesDrawn DEF SessionInv
  <2> QED BY <2>1, <2>2
<1>7. PastInv'
  <2>1. trades' = Append(trades, new) /\ trades \in Seq(Trade)
    BY <1>0 DEF Leave, PastInv
  <2>2. trades' \in Seq(Trade)
    BY <2>1, <1>4
  <2>3. /\ DOMAIN trades' = 1..(Len(trades) + 1) /\ DOMAIN trades = 1..Len(trades)
        /\ Len(trades) \in Nat
        /\ trades'[Len(trades) + 1] = new
        /\ \A t \in 1..Len(trades) : trades'[t] = trades[t]
    BY <2>1, <1>4
  <2>4. ASSUME NEW t \in DOMAIN trades'
        PROVE  Settled(trades'[t])
    <3>1. CASE t \in DOMAIN trades
      <4>1. trades'[t] = trades[t]
        BY <2>3, <3>1
      <4> QED BY <1>0, <3>1, <4>1 DEF PastInv
    <3>2. CASE t = Len(trades) + 1
      <4>1. trades'[t] = new /\ new.finalized = f
        BY <2>3, <3>2
      <4> HIDE DEF new
      <4> QED BY <1>5, <1>6, <4>1 DEF Settled
    <3> QED BY <2>3, <3>1, <3>2
  <2>5. \A t \in DOMAIN trades' : Settled(trades'[t])
    BY <2>4
  <2> QED BY <2>2, <2>5 DEF PastInv
<1> QED BY <1>2, <1>3, <1>7 DEF SessionInv

\* What a venue does to a past order keeps it covered and cancelled.
LEMMA PastStep ==
    ASSUME PastInv, NEW t \in DOMAIN trades, NEW k \in Legs,
           PastExpires(t, k) \/ \E n \in 1..QuantityCap : PastFills(t, k, n)
    PROVE  PastInv'
<1> DEFINE o == trades[t].order[k]
<1>0. /\ trades \in Seq(Trade) /\ trades[t] \in Trade /\ o \in Order
      /\ Covered(trades[t].order)
  <2>1. trades \in Seq(Trade) /\ Covered(trades[t].order)
    BY DEF PastInv, Settled
  <2>2. trades[t] \in Trade
    <3> HIDE DEF Trade
    <3> QED BY <2>1, ElementOfSeq
  <2>3. o \in Order
    BY <2>2 DEF Trade
  <2> QED BY <2>1, <2>2, <2>3
<1>1. PICK p \in Order :
        /\ trades' = [trades EXCEPT ![t].order[k] = p]
        /\ o.state = "working" /\ p.state \in {"working", "closed"}
        /\ p.qty = o.qty /\ p.filled >= o.filled /\ p.filled <= p.qty
  <2> DEFINE e == [o EXCEPT !.state = "closed"]
  <2>1. o.filled \in 0..QuantityCap /\ o.qty \in 0..QuantityCap /\ o.filled <= o.qty
    BY <1>0 DEF Order, Covered
  <2>2. CASE PastExpires(t, k)
    <3>1. e \in Order /\ e.state = "closed" /\ e.qty = o.qty /\ e.filled = o.filled
      BY <1>0 DEF Order
    <3>2. o.state = "working" /\ trades' = [trades EXCEPT ![t].order[k] = e]
      BY <2>2 DEF PastExpires
    <3>3. e.filled >= o.filled /\ e.filled <= e.qty
      BY <2>1, <3>1
    <3> HIDE DEF e, o
    <3> QED BY <3>1, <3>2, <3>3
  <2>3. CASE \E n \in 1..QuantityCap : PastFills(t, k, n)
    <3>1. PICK n \in 1..QuantityCap : PastFills(t, k, n)
      BY <2>3
    <3> DEFINE state == IF o.filled + n = o.qty THEN "closed" ELSE o.state
               p == [o EXCEPT !.filled = @ + n, !.state = state]
    <3>2. /\ o.state = "working" /\ o.filled + n <= o.qty
          /\ trades' = [trades EXCEPT ![t].order[k] = p]
      BY <3>1 DEF PastFills
    <3>3. o.filled + n \in 0..QuantityCap /\ o.filled + n >= o.filled
      BY <2>1, <3>2, QuantityCapAssumption
    <3>4. /\ p \in Order /\ p.state = state /\ p.qty = o.qty
          /\ p.filled = o.filled + n
      BY <1>0, <3>2, <3>3 DEF Order
    <3> QED BY <3>2, <3>3, <3>4
  <2> QED BY <2>2, <2>3
<1>2. /\ DOMAIN trades' = DOMAIN trades /\ Len(trades') = Len(trades)
      /\ \A u \in DOMAIN trades : u # t => trades'[u] = trades[u]
      /\ trades'[t] = [trades[t] EXCEPT !.order[k] = p]
  BY <1>0, <1>1
<1>3. /\ trades'[t] \in Trade
      /\ trades'[t].order = [trades[t].order EXCEPT ![k] = p]
      /\ trades'[t].cancels = trades[t].cancels
      /\ trades'[t].fills = trades[t].fills
      /\ trades'[t].finalized = trades[t].finalized
  BY <1>0, <1>1, <1>2 DEF Trade
<1>4. trades' \in Seq(Trade)
  <2> DEFINE new == [trades[t] EXCEPT !.order[k] = p]
  <2>1. trades' = [trades EXCEPT ![t] = new] /\ new \in Trade
    BY <1>0, <1>1, <1>2, <1>3
  <2>2. t \in 1..Len(trades)
    BY <1>0
  <2> HIDE DEF new
  <2> QED BY <1>0, <2>1, <2>2, ExceptSeq
<1>5. Covered(trades'[t].order)
  <2>1. ASSUME NEW l \in Legs
        PROVE  /\ trades'[t].order[l].qty = trades[t].order[l].qty
               /\ trades'[t].order[l].filled >= trades[t].order[l].filled
               /\ trades'[t].order[l].filled <= trades'[t].order[l].qty
               /\ trades[t].order[l].filled \in Nat /\ trades[t].order[l].qty \in Nat
               /\ trades'[t].order[l].filled \in Nat
    <3>1. trades[t].order[l] \in Order /\ trades'[t].order[l] \in Order
      BY <1>0, <1>3 DEF Trade
    <3>2. /\ trades[t].order[l].filled \in Nat /\ trades[t].order[l].qty \in Nat
          /\ trades'[t].order[l].filled \in Nat
      BY <3>1, QuantityCapAssumption DEF Order
    <3>3. CASE l = k
      BY <1>0, <1>1, <1>3, <3>2, <3>3 DEF Trade
    <3>4. CASE l # k
      BY <1>0, <1>3, <3>2, <3>4 DEF Trade, Covered
    <3> QED BY <3>2, <3>3, <3>4
  <2>2. ASSUME NEW l \in Legs, NEW j \in Legs, j < l
        PROVE  trades'[t].order[l].qty <= trades'[t].order[j].filled
    <3>1. trades[t].order[l].qty <= trades[t].order[j].filled
      BY <1>0, <2>2 DEF Covered
    <3> QED BY <2>1, <3>1
  <2> QED BY <2>1, <2>2 DEF Covered
<1>6. Cancelled(trades[t]) => Cancelled(trades'[t])
  BY <1>0, <1>1, <1>3 DEF Cancelled, Trade
<1>7. Drawn(trades[t]) => Drawn(trades'[t])
  <2> SUFFICES ASSUME Drawn(trades[t]) PROVE Drawn(trades'[t])
    OBVIOUS
  <2>1. k \in DOMAIN trades[t].fills
    BY <1>1 DEF Drawn
  <2>2. ASSUME NEW l \in DOMAIN trades[t].fills
        PROVE  /\ l \in Legs
               /\ trades[t].fills[l].qty \in 0..trades'[t].order[l].filled
               /\ trades'[t].order[l].qty = trades[t].order[l].qty
    <3>1. l \in Legs /\ trades[t].fills[l].qty \in 0..trades[t].order[l].filled
      BY DEF Drawn
    <3>2. trades[t].order[l] \in Order /\ trades'[t].order[l] \in Order
      BY <1>0, <1>3, <3>1 DEF Trade
    <3>3. trades[t].order[l].filled \in Nat /\ trades'[t].order[l].filled \in Nat
      BY <3>2, QuantityCapAssumption DEF Order
    <3>4. /\ trades'[t].order[l].filled >= trades[t].order[l].filled
          /\ trades'[t].order[l].qty = trades[t].order[l].qty
      <4>1. CASE l = k
        BY <1>0, <1>1, <1>3, <4>1 DEF Trade
      <4>2. CASE l # k
        BY <1>0, <1>3, <3>1, <3>3, <4>2 DEF Trade
      <4> QED BY <4>1, <4>2
    <3> QED BY <3>1, <3>3, <3>4
  <2>3. \A l \in Legs \ DOMAIN trades[t].fills : trades'[t].order[l] = trades[t].order[l]
    BY <1>0, <1>3, <2>1 DEF Trade
  <2> QED BY <1>3, <2>2, <2>3 DEF Drawn
<1>8. ASSUME NEW u \in DOMAIN trades'
      PROVE  Settled(trades'[u])
  <2>1. CASE u = t
    BY <1>3, <1>5, <1>6, <1>7, <2>1 DEF PastInv, Settled
  <2>2. CASE u # t
    <3>1. u \in DOMAIN trades /\ trades'[u] = trades[u]
      BY <1>2, <2>2
    <3> QED BY <3>1 DEF PastInv
  <2> QED BY <2>1, <2>2
<1>9. \A u \in DOMAIN trades' :
         Settled(trades'[u])
  BY <1>8
<1> QED BY <1>4, <1>9 DEF PastInv

\* An execution, the venues and the operator keep LiveInv, and none of them does
\* anything to variables that are cleared but move the kill file.
LEMMA LiveStep ==
    ASSUME SessionInv, UNCHANGED session,
           \/ phase = "execute" /\ Executor
           \/ Venue \/ OperatorTogglesKill
    PROVE  SessionInv'
<1>0. LiveInv /\ Idle /\ PastInv
  BY DEF SessionInv
<1>1. LiveInv'
  BY <1>0, NextLiveInv DEF Next
<1>2. PastInv'
  BY <1>0 DEF PastInv, session
<1>3. Idle'
  <2>1. CASE phase = "execute"
    BY <2>1 DEF Idle, session, loop
  <2>2. CASE phase # "execute" /\ OperatorTogglesKill
    BY <1>0, <2>2 DEF Idle, Fresh, OperatorTogglesKill, executor, position, outcome,
                     venue, session, loop
  <2>3. CASE phase # "execute" /\ Venue
    <3>1. PICK k \in Legs : (\E n \in 1..QuantityCap : VenueFills(k, n)) \/ VenueExpires(k)
      BY <2>3 DEF Venue
    <3>2. order[k].state = "working"
      BY <3>1 DEF VenueFills, VenueExpires
    <3> QED BY <1>0, <2>3, <3>2 DEF Idle, Fresh, NoOrder
  <2> QED BY <2>1, <2>2, <2>3
<1> QED BY <1>1, <1>2, <1>3 DEF SessionInv

\* The steps of the loop around an execution leave the variables of the execution
\* alone, but for the quantity of the plan a trigger accepts.
LEMMA LoopStep ==
    ASSUME SessionInv, Scan \/ Refuse \/ Accept \/ EndIteration \/ Restart
    PROVE  SessionInv'
<1>0. LiveInv /\ Idle /\ PastInv
  BY DEF SessionInv
<1>1. UNCHANGED trades /\ phase # "execute"
  BY DEF Scan, Refuse, Accept, EndIteration, Restart, Over
<1>2. PastInv'
  BY <1>0, <1>1 DEF PastInv
<1>3. CASE Accept
  <2>1. cap' \in 1..QuantityCap /\ phase' = "execute"
    BY <1>3 DEF Accept
  <2>2. Fresh' /\ UNCHANGED <<killFile, sentSinceKill>>
    BY <1>0, <1>1, <1>3 DEF Idle, Fresh, Accept, outcome, venue, operator
  <2>3. KillTold'
    BY <1>0, <2>2, ExecKillTold DEF KillTold, LiveInv
  <2>4. LiveInv'
    BY <2>1, <2>2, <2>3, FreshLiveInvNext, QuantityCapAssumption
  <2> QED BY <1>2, <2>1, <2>4 DEF SessionInv, Idle
<1>4. CASE ~Accept
  <2>1. UNCHANGED vars
    BY <1>4 DEF Scan, Refuse, EndIteration, Restart
  <2>2. LiveInv'
    BY <1>0, <2>1, NextLiveInv
  <2>3. Idle'
    BY <1>0, <1>1, <2>1 DEF Idle, Fresh, vars, executor, position, outcome, venue
  <2> QED BY <1>2, <2>2, <2>3 DEF SessionInv
<1> QED BY <1>3, <1>4

\* The invariant is inductive.
LEMMA NextSessionInv == SessionInv /\ [SessionNext]_sessionVars => SessionInv'
<1> SUFFICES ASSUME SessionInv, [SessionNext]_sessionVars PROVE SessionInv'
  OBVIOUS
<1>1. CASE Scan \/ Refuse \/ Accept \/ EndIteration \/ Restart
  BY <1>1, LoopStep
<1>2. CASE Execute
  BY <1>2, LiveStep DEF Execute
<1>3. CASE (Venue \/ OperatorTogglesKill) /\ UNCHANGED session
  BY <1>3, LiveStep
<1>4. CASE Finalize
  BY <1>4, LeaveStep DEF Finalize
<1>5. CASE Die
  BY <1>5, LeaveStep DEF Die
<1>6. CASE Interrupt
  <2>1. CASE phase = "execute"
    BY <1>6, <2>1, LeaveStep DEF Interrupt
  <2>2. CASE phase # "execute"
    <3>1. UNCHANGED <<vars, trades>> /\ phase' # "execute"
      BY <1>6, <2>2 DEF Interrupt
    <3>2. LiveInv'
      BY <3>1, NextLiveInv DEF SessionInv
    <3> QED BY <2>2, <3>1, <3>2
            DEF SessionInv, Idle, Fresh, PastInv, vars, executor,
                position, outcome, venue
  <2> QED BY <2>1, <2>2
<1>7. CASE \E t \in DOMAIN trades, k \in Legs :
             PastExpires(t, k) \/ \E n \in 1..QuantityCap : PastFills(t, k, n)
  <2>1. PastInv'
    BY <1>7, PastStep DEF SessionInv
  <2>2. UNCHANGED <<vars, loop>>
    BY <1>7 DEF PastExpires, PastFills
  <2>3. LiveInv'
    BY <2>2, NextLiveInv DEF SessionInv
  <2> QED BY <2>1, <2>2, <2>3 DEF SessionInv, Idle, Fresh, vars, executor, position,
                                  outcome, venue, loop
<1>8. CASE UNCHANGED sessionVars
  <2>1. UNCHANGED <<vars, loop, trades>>
    BY <1>8 DEF sessionVars, session
  <2>2. LiveInv'
    BY <2>1, NextLiveInv DEF SessionInv
  <2> QED BY <2>1, <2>2 DEF SessionInv, Idle, Fresh, PastInv, vars,
                            executor, position, outcome, venue, loop
<1> QED BY <1>1, <1>2, <1>3, <1>4, <1>5, <1>6, <1>7, <1>8
        DEF SessionNext, Process, Outside

LEMMA SessionInvHolds == SessionSpec => []SessionInv
<1>1. SessionInit => SessionInv
  BY InitSessionInv
<1>2. SessionInv /\ [SessionNext]_sessionVars => SessionInv'
  BY NextSessionInv
<1> QED BY <1>1, <1>2, PTL DEF SessionSpec

-------------------------------------------------------------------------------
\* However many triggers a session carries out, one after the other, with crashes
\* and restarts between them: an order that outlives a trigger that was finalized
\* was cancelled (Finalize after _execute_live_orders).
THEOREM NothingIsForgotten == SessionSpec => []LeftoverHasCause
<1>1. SessionInv => LeftoverHasCause
  BY DEF SessionInv, PastInv, Settled, LeftoverHasCause, Reported, Cancelled
<1> QED BY <1>1, SessionInvHolds, PTL

\* The contracts of a trade that is over never turn its ladder round, although its
\* orders go on filling while later triggers run or after the process is gone.
THEOREM LadderOutlivesTheTrade == SessionSpec => []PastLadder
<1>1. SessionInv => PastLadder
  <2> SUFFICES ASSUME PastInv, NEW t \in DOMAIN trades, NEW k \in Legs, NEW j \in Legs,
                      j < k
               PROVE  trades[t].order[k].filled <= trades[t].order[j].filled
    BY DEF SessionInv, PastLadder
  <2>0. trades[t] \in Trade
    BY DEF PastInv
  <2>1. trades[t].order \in [Legs -> Order] /\ Covered(trades[t].order)
    BY <2>0 DEF PastInv, Settled, Trade
  <2>2. trades[t].order[k] \in Order /\ trades[t].order[j] \in Order
    BY <2>1
  <2>3. /\ trades[t].order[k].filled \in Nat /\ trades[t].order[k].qty \in Nat
        /\ trades[t].order[j].filled \in Nat
    BY <2>2, QuantityCapAssumption DEF Order
  <2>4. /\ trades[t].order[k].filled <= trades[t].order[k].qty
        /\ trades[t].order[k].qty <= trades[t].order[j].filled
    BY <2>1 DEF Covered
  <2> QED BY <2>3, <2>4
<1> QED BY <1>1, SessionInvHolds, PTL

\* At most one order of a whole session is sent after the kill file was last
\* created, not one per trigger: what the file stops it goes on stopping.
THEOREM KillStopsSession == SessionSpec => []AtMostOneOrderPastKill
<1>1. SessionInv => AtMostOneOrderPastKill
  BY ExecKillTold DEF SessionInv, LiveInv, KillTold, AtMostOneOrderPastKill
<1> QED BY <1>1, SessionInvHolds, PTL

-------------------------------------------------------------------------------
\* The least of some natural numbers.
LEMMA MinIsLeast ==
    ASSUME NEW S \in SUBSET Nat, S # {}
    PROVE  Min(S) \in S /\ \A x \in S : Min(S) <= x
<1>1. \E x \in S : \A y \in S : ~(<<y, x>> \in OpToRel(<, Nat))
  BY NatLessThanWellFounded, WFMin
<1>2. \E x \in S : \A y \in S : x <= y
  <2>1. PICK x \in S : \A y \in S : ~(<<y, x>> \in OpToRel(<, Nat))
    BY <1>1
  <2>2. ASSUME NEW y \in S PROVE ~(y < x)
    <3>1. y \in Nat /\ x \in Nat
      OBVIOUS
    <3>2. y < x => <<y, x>> \in OpToRel(<, Nat)
      BY <3>1, Zenon DEF OpToRel
    <3> QED BY <2>1, <3>2
  <2> QED BY <2>2
<1> QED BY <1>2 DEF Min

\* What the final report reads of a journal that is drawn from its orders: the one line
\* of each leg, and never more than is held.
LEMMA MaxOfOne == ASSUME NEW i \in Int PROVE Finalized!Max({i}) = i
BY DEF Finalized!Max

LEMMA MaxIsAbove ==
    ASSUME NEW i \in Int, NEW j \in Int
    PROVE  Finalized!Max({i, j}) \in Int /\ Finalized!Max({i, j}) >= i
<1>1. \E x \in {i, j} : \A y \in {i, j} : x >= y
  OBVIOUS
<1>2. /\ Finalized!Max({i, j}) \in {i, j}
      /\ \A y \in {i, j} : Finalized!Max({i, j}) >= y
  BY <1>1 DEF Finalized!Max
<1> QED BY <1>2

LEMMA QuantityIsTheLine ==
    ASSUME NEW t \in Trade, Drawn(t), NEW k \in Legs
    PROVE  /\ Finalized!Quantity(t.fills, k) =
                  IF k \in DOMAIN t.fills THEN t.fills[k].qty ELSE 0
           /\ Finalized!Quantity(t.fills, k) \in 0..t.order[k].filled
           /\ t.order[k].filled \in Nat
           /\ k \in DOMAIN t.fills <=> Finalized!HasRecord(t.fills, k)
<1>1. t.order[k].filled \in Nat
  BY QuantityCapAssumption DEF Trade, Order
<1>2. CASE k \in DOMAIN t.fills
  <2>1. /\ Finalized!HasRecord(t.fills, k)
        /\ Finalized!Latest(t.fills, k) = t.fills[k]
    <3>1. Finalized!RecordsOf(t.fills, k) = {k} /\ k \in Int
      BY <1>2 DEF Finalized!RecordsOf, Drawn, Legs
    <3> QED BY <3>1, MaxOfOne DEF Finalized!HasRecord, Finalized!Latest
  <2>2. t.fills[k].qty \in 0..t.order[k].filled
    BY <1>2 DEF Drawn
  <2>3. t.fills[k].qty # Finalized!None
    BY <1>1, <2>2 DEF Finalized!None
  <2> QED BY <1>1, <1>2, <2>1, <2>2, <2>3 DEF Finalized!Quantity
<1>3. CASE k \notin DOMAIN t.fills
  <2>1. ~Finalized!HasRecord(t.fills, k)
    BY <1>3 DEF Finalized!HasRecord, Finalized!RecordsOf, Drawn
  <2> QED BY <1>1, <1>3, <2>1 DEF Finalized!Quantity
<1> QED BY <1>2, <1>3

\* matched_qty is not above the quantity of any leg.
LEMMA MatchedIsBelow ==
    ASSUME NEW t \in Trade, Drawn(t)
    PROVE  /\ Finalized!Matched(t.fills) \in Nat
           /\ \A k \in Legs : Finalized!Matched(t.fills) <= Finalized!Quantity(t.fills, k)
           /\ Finalized!FilledLegs(t.fills) = Legs =>
                 \E k \in Legs : Finalized!Matched(t.fills) = Finalized!Quantity(t.fills, k)
<1> DEFINE Q == {Finalized!Quantity(t.fills, k) : k \in Legs}
<1>1. \A k \in Legs : Finalized!Quantity(t.fills, k) \in Nat
  BY QuantityIsTheLine
<1>2. Legs # {}
  BY NAssumption DEF Legs
<1>3. Q \in SUBSET Nat /\ Q # {}
  BY <1>1, <1>2
<1>4. Finalized!Min(Q) \in Q /\ \A x \in Q : Finalized!Min(Q) <= x
  BY <1>3, MinIsLeast DEF Finalized!Min, Min
<1>5. \/ /\ Finalized!Matched(t.fills) = Finalized!Min(Q)
         /\ Finalized!FilledLegs(t.fills) = Legs
      \/ /\ Finalized!Matched(t.fills) = 0
         /\ Finalized!FilledLegs(t.fills) # Legs
  BY <1>2 DEF Finalized!Matched
<1> QED BY <1>1, <1>4, <1>5

\* What a trade that was finalized is reported to leave over is at least what its legs
\* are held beyond each other, unless an order filled behind its line: whatever ended
\* the loop, also where it reported no residual itself.
THEOREM ReportsShowTheExposure == SessionSpec => []ReportShowsExposure
<1>1. SessionInv => ReportShowsExposure
  <2> SUFFICES ASSUME PastInv, NEW t \in Reported,
                      \A i \in DOMAIN trades[t].fills :
                         trades[t].fills[i].qty = trades[t].order[i].filled,
                      NEW k \in Legs, NEW l \in Legs,
                      trades[t].order[k].filled > trades[t].order[l].filled
               PROVE  Report(trades[t].fills).residual[k] >=
                         trades[t].order[k].filled - trades[t].order[l].filled
    <3>1. \A u \in Reported : Drawn(trades[u]) =>
             \A i \in DOMAIN trades[u].fills : i \in Legs
      BY DEF Drawn
    <3>2. PastInv => \A u \in Reported : Drawn(trades[u])
      BY DEF PastInv, Reported, Settled
    <3> QED BY <3>1, <3>2 DEF SessionInv, ReportShowsExposure
  <2>1. trades[t] \in Trade /\ Drawn(trades[t])
    BY DEF PastInv, Reported, Settled
  <2> DEFINE f == trades[t].fills
             o == trades[t].order
  <2>2. \A i \in Legs : Finalized!Quantity(f, i) = o[i].filled /\ o[i].filled \in Nat
    BY <2>1, QuantityIsTheLine DEF Drawn
  <2>3. Finalized!Matched(f) \in Nat /\ Finalized!Matched(f) <= o[l].filled
    BY <2>1, <2>2, MatchedIsBelow
  <2>4. Finalized!Residual(f, k) \in Int
        /\ Finalized!Residual(f, k) >= o[k].filled - Finalized!Matched(f)
    BY <2>2, <2>3, MaxIsAbove DEF Finalized!Residual
  <2>5. Report(f).residual[k] = Finalized!Residual(f, k)
    BY DEF Report
  <2> QED BY <2>2, <2>3, <2>4, <2>5
<1> QED BY <1>1, SessionInvHolds, PTL

\* A trade that was finalized as clean holds what it matched on every leg, and what it
\* holds beyond that comes from an order whose cancel came too late.
THEOREM CleanTradesStayMatched == SessionSpec => []CleanStaysMatched
<1>1. SessionInv => CleanStaysMatched
  <2> SUFFICES ASSUME PastInv, NEW t \in Reported,
                      Finalized!Verdict(trades[t].fills, FALSE) = "CLEAN_COMPLETE"
               PROVE  /\ Finalized!Matched(trades[t].fills) > 0
                      /\ \A k \in Legs : trades[t].order[k].filled >=
                                            Finalized!Matched(trades[t].fills)
                      /\ \A k \in Legs :
                            trades[t].order[k].filled > Finalized!Matched(trades[t].fills)
                               => k \in trades[t].cancels
    BY DEF SessionInv, CleanStaysMatched, Report
  <2>1. trades[t] \in Trade /\ Drawn(trades[t]) /\ Covered(trades[t].order)
    BY DEF PastInv, Reported, Settled
  <2> DEFINE f == trades[t].fills
             o == trades[t].order
             m == Finalized!Matched(f)
  <2>2. Finalized!FilledLegs(f) = Legs /\ \A k, l \in Legs :
            Finalized!Quantity(f, k) = Finalized!Quantity(f, l)
    BY DEF Finalized!Verdict, Finalized!AllFilledFull
  <2>3. \A k \in Legs : /\ Finalized!Quantity(f, k) > 0
                        /\ k \in DOMAIN f
    BY <2>1, <2>2, QuantityIsTheLine DEF Finalized!FilledLegs
  <2>4. \A k \in Legs : m = Finalized!Quantity(f, k)
    BY <2>1, <2>2, MatchedIsBelow
  <2>5. ASSUME NEW k \in Legs
        PROVE  m = f[k].qty /\ m > 0 /\ m <= o[k].filled
    BY <2>1, <2>3, <2>4, QuantityIsTheLine
  <2>6. ASSUME NEW k \in Legs, o[k].filled > m PROVE k \in trades[t].cancels
    <3>1. o[k] \in Order
      BY <2>1 DEF Trade
    <3>2. o[k].filled <= o[k].qty /\ (f[k].qty >= o[k].qty \/ k \in trades[t].cancels)
      BY <2>1, <2>3 DEF Covered, Drawn
    <3>3. o[k].filled \in Nat /\ o[k].qty \in Nat /\ m \in Nat
      BY <2>1, <3>1, MatchedIsBelow, QuantityCapAssumption DEF Order
    <3> QED BY <2>5, <2>6, <3>2, <3>3
  <2>7. 1 \in Legs
    BY NAssumption DEF Legs
  <2> QED BY <2>5, <2>6, <2>7, QuantityIsTheLine, <2>1, MatchedIsBelow
<1> QED BY <1>1, SessionInvHolds, PTL

-------------------------------------------------------------------------------
(***************************************************************************)
(* Plans and their execution.  The sizing keeps the caps by floor division *)
(* and the minimum of BasketQuantity; the execution keeps the quantity by  *)
(* ExecInv; and the orders are the legs of the basket, in the order of the *)
(* stable sort, when no two legs are on one market.                        *)
(*                                                                         *)
(* The first part is about finite sums: the folds of the community modules *)
(* add up in an order of their own, and a sum in any order is the sum.     *)
(***************************************************************************)

\* g is the sum of F over every subset of S, in whatever order.
IsSum(g, F, S) ==
    /\ g \in [SUBSET S -> Int] /\ g[{}] = 0
    /\ \A T \in SUBSET S : \A x \in T : g[T] = F[x] + g[T \ {x}]

\* h adds F up element by element, in some order.
InSomeOrder(h, F, S) ==
    /\ h[{}] = 0
    /\ \A T \in SUBSET S : T # {} =>
          \E x \in T : h[T] = F[x] + h[T \ {x}] \/ h[T] = h[T \ {x}] + F[x]

\* A number of which a set of naturals is the set of counterexamples: there is a least one.
LEMMA LeastCounterexample ==
    ASSUME NEW B \in SUBSET Nat, B # {}
    PROVE  \E n \in B : \A m \in Nat : m < n => m \notin B
<1>1. PICK n \in B : \A m \in B : ~(<<m, n>> \in OpToRel(<, Nat))
  BY NatLessThanWellFounded, WFMin
<1>2. \A m \in B : ~(m < n)
  BY <1>1, Zenon DEF OpToRel
<1> QED BY <1>2

\* Without one of its elements a finite set is smaller by one.
LEMMA OneLess ==
    ASSUME NEW T, IsFiniteSet(T), NEW x \in T
    PROVE  /\ Cardinality(T) \in Nat /\ Cardinality(T \ {x}) \in Nat
           /\ Cardinality(T \ {x}) < Cardinality(T)
<1>1. IsFiniteSet(T \ {x}) /\ Cardinality(T \ {x}) = Cardinality(T) - 1
  BY FS_RemoveElement
<1>2. Cardinality(T) \in Nat /\ Cardinality(T \ {x}) \in Nat
  BY <1>1, FS_CardinalityType
<1> QED BY <1>1, <1>2

LEMMA SumExists ==
    ASSUME NEW S, IsFiniteSet(S), NEW F \in [S -> Int]
    PROVE  \E g : IsSum(g, F, S)
<1> DEFINE Bad(T) == ~ \E g : IsSum(g, F, T)
           B == {n \in Nat : \E T \in SUBSET S : Cardinality(T) = n /\ Bad(T)}
<1> SUFFICES ASSUME Bad(S) PROVE FALSE
  OBVIOUS
<1>1. Cardinality(S) \in B
  BY FS_CardinalityType
<1>2. PICK n \in B : \A m \in Nat : m < n => m \notin B
  BY <1>1, LeastCounterexample
<1>3. PICK T \in SUBSET S : Cardinality(T) = n /\ Bad(T)
  OBVIOUS
<1>4. IsFiniteSet(T)
  BY FS_Subset
<1>5. T # {}
  <2> SUFFICES ASSUME T = {} PROVE FALSE
    OBVIOUS
  <2> DEFINE g == [U \in SUBSET T |-> 0]
  <2>1. IsSum(g, F, T)
    BY DEF IsSum
  <2> QED BY <1>3, <2>1
<1>6. PICK x \in T : TRUE
  BY <1>5
<1> DEFINE R == T \ {x}
<1>7. R \in SUBSET S /\ Cardinality(R) \in Nat /\ Cardinality(R) < n
  BY <1>3, <1>4, OneLess
<1>8. ~Bad(R)
  BY <1>2, <1>7
<1> HIDE DEF B
<1>9. PICK h : IsSum(h, F, R)
  BY <1>8
<1> DEFINE g == [U \in SUBSET T |-> IF x \in U THEN F[x] + h[U \ {x}] ELSE h[U]]
<1>10. F[x] \in Int /\ \A y \in T : F[y] \in Int
  OBVIOUS
<1>11. \A U \in SUBSET R : h[U] \in Int
  BY <1>9 DEF IsSum
<1>12. g \in [SUBSET T -> Int] /\ g[{}] = 0
  <2>1. ASSUME NEW U \in SUBSET T
        PROVE (IF x \in U THEN F[x] + h[U \ {x}] ELSE h[U]) \in Int
    <3>1. U \ {x} \in SUBSET R
      OBVIOUS
    <3> QED BY <1>10, <1>11, <3>1
  <2> QED BY <1>9, <2>1 DEF IsSum
<1>13. ASSUME NEW U \in SUBSET T, NEW y \in U PROVE g[U] = F[y] + g[U \ {y}]
  <2>1. CASE y = x
    BY <2>1
  <2>2. CASE y # x /\ x \notin U
    <3>1. U \in SUBSET R /\ g[U] = h[U] /\ g[U \ {y}] = h[U \ {y}]
      BY <2>2
    <3> QED BY <1>9, <3>1 DEF IsSum
  <2>3. CASE y # x /\ x \in U
    <3> DEFINE V == U \ {x}
    <3>1. V \in SUBSET R /\ y \in V /\ (U \ {y}) \ {x} = V \ {y}
      BY <2>3
    <3>2. h[V] = F[y] + h[V \ {y}]
      BY <1>9, <3>1 DEF IsSum
    <3>3. g[U] = F[x] + h[V] /\ g[U \ {y}] = F[x] + h[V \ {y}]
      BY <2>3, <3>1
    <3>4. h[V \ {y}] \in Int
      BY <1>11, <3>1
    <3> HIDE DEF g, V
    <3> QED BY <1>10, <3>2, <3>3, <3>4
  <2> QED BY <2>1, <2>2, <2>3
<1>14. IsSum(g, F, T)
  <2> HIDE DEF g
  <2> QED BY <1>12, <1>13 DEF IsSum
<1> QED BY <1>3, <1>14

\* A sum that is taken in some order is the sum.
LEMMA SumInAnyOrder ==
    ASSUME NEW S, IsFiniteSet(S), NEW F \in [S -> Int], NEW g, IsSum(g, F, S),
           NEW h, InSomeOrder(h, F, S)
    PROVE  h[S] = g[S]
<1> DEFINE B == {n \in Nat : \E T \in SUBSET S : Cardinality(T) = n /\ h[T] # g[T]}
<1> SUFFICES ASSUME h[S] # g[S] PROVE FALSE
  OBVIOUS
<1>1. Cardinality(S) \in B
  BY FS_CardinalityType
<1>2. PICK n \in B : \A m \in Nat : m < n => m \notin B
  BY <1>1, LeastCounterexample
<1>3. PICK T \in SUBSET S : Cardinality(T) = n /\ h[T] # g[T]
  OBVIOUS
<1>4. T # {} /\ IsFiniteSet(T)
  BY <1>3, FS_Subset DEF IsSum, InSomeOrder
<1>5. PICK x \in T : h[T] = F[x] + h[T \ {x}] \/ h[T] = h[T \ {x}] + F[x]
  BY <1>4 DEF InSomeOrder
<1>6. T \ {x} \in SUBSET S /\ Cardinality(T \ {x}) \in Nat /\ Cardinality(T \ {x}) < n
  BY <1>3, <1>4, OneLess
<1>7. h[T \ {x}] = g[T \ {x}]
  BY <1>2, <1>6
<1>8. g[T] = F[x] + g[T \ {x}] /\ g[T \ {x}] \in Int /\ F[x] \in Int
  BY <1>6 DEF IsSum
<1> QED BY <1>3, <1>5, <1>7, <1>8

LEMMA SumMonotone ==
    ASSUME NEW S, IsFiniteSet(S), NEW F \in [S -> Int], NEW G \in [S -> Int],
           NEW f, IsSum(f, F, S), NEW g, IsSum(g, G, S),
           \A x \in S : F[x] <= G[x]
    PROVE  f[S] <= g[S]
<1> DEFINE B == {n \in Nat : \E T \in SUBSET S : Cardinality(T) = n /\ ~(f[T] <= g[T])}
<1> SUFFICES ASSUME ~(f[S] <= g[S]) PROVE FALSE
  OBVIOUS
<1>1. Cardinality(S) \in B
  BY FS_CardinalityType
<1>2. PICK n \in B : \A m \in Nat : m < n => m \notin B
  BY <1>1, LeastCounterexample
<1>3. PICK T \in SUBSET S : Cardinality(T) = n /\ ~(f[T] <= g[T])
  OBVIOUS
<1>4. T # {} /\ IsFiniteSet(T)
  <2>1. f[{}] <= g[{}]
    BY DEF IsSum
  <2> QED BY <1>3, <2>1, FS_Subset
<1>5. PICK x \in T : TRUE
  BY <1>4
<1>6. T \ {x} \in SUBSET S /\ Cardinality(T \ {x}) \in Nat /\ Cardinality(T \ {x}) < n
  BY <1>3, <1>4, OneLess
<1>7. f[T \ {x}] <= g[T \ {x}]
  BY <1>2, <1>6
<1>8. f[T] = F[x] + f[T \ {x}] /\ g[T] = G[x] + g[T \ {x}]
  BY DEF IsSum
<1>9. /\ f[T \ {x}] \in Int /\ g[T \ {x}] \in Int /\ F[x] \in Int /\ G[x] \in Int
      /\ F[x] <= G[x]
  <2>1. T \in SUBSET S /\ T \ {x} \in SUBSET S /\ x \in S
    OBVIOUS
  <2>2. f[T \ {x}] \in Int /\ g[T \ {x}] \in Int
    BY <2>1 DEF IsSum
  <2> QED BY <2>1, <2>2
<1> QED BY <1>3, <1>7, <1>8, <1>9

\* A sum of naturals is a natural.
LEMMA SumNatural ==
    ASSUME NEW S, IsFiniteSet(S), NEW F \in [S -> Nat], NEW f, IsSum(f, F, S)
    PROVE  f[S] \in Nat
<1> DEFINE Z == [x \in S |-> 0]
           z == [T \in SUBSET S |-> 0]
<1>1. IsSum(z, Z, S)
  BY DEF IsSum
<1>2. Z \in [S -> Int] /\ F \in [S -> Int] /\ \A x \in S : Z[x] <= F[x]
  OBVIOUS
<1>3. z[S] = 0
  OBVIOUS
<1> HIDE DEF Z, z
<1>4. z[S] <= f[S]
  BY <1>1, <1>2, SumMonotone
<1>5. f[S] \in Int
  BY DEF IsSum
<1> QED BY <1>3, <1>4, <1>5

\* A multiple of a sum is the sum of the multiples.
Multiplies(m, F, H, S) == \A x \in S : H[x] = m * F[x]

LEMMA SumScaled ==
    ASSUME NEW S, NEW F \in [S -> Int], NEW f, IsSum(f, F, S), NEW m \in Int,
           NEW H \in [S -> Int], Multiplies(m, F, H, S)
    PROVE  \E h : IsSum(h, H, S) /\ h[S] = m * f[S]
<1> DEFINE h == [T \in SUBSET S |-> m * f[T]]
<1>1. \A T \in SUBSET S : f[T] \in Int
  BY DEF IsSum
<1>2. h \in [SUBSET S -> Int] /\ h[{}] = 0
  BY <1>1 DEF IsSum
<1>3. ASSUME NEW T \in SUBSET S, NEW x \in T PROVE h[T] = H[x] + h[T \ {x}]
  <2>1. x \in S /\ T \ {x} \in SUBSET S
    OBVIOUS
  <2>2. f[T] = F[x] + f[T \ {x}]
    BY DEF IsSum
  <2>3. F[x] \in Int /\ f[T \ {x}] \in Int
    BY <1>1, <2>1
  <2>4. m * (F[x] + f[T \ {x}]) = m * F[x] + m * f[T \ {x}]
    BY <2>3
  <2>5. h[T] = m * f[T] /\ H[x] = m * F[x] /\ h[T \ {x}] = m * f[T \ {x}]
    BY <2>1 DEF Multiplies
  <2> HIDE DEF h
  <2> QED BY <2>2, <2>4, <2>5
<1>4. h[S] = m * f[S]
  OBVIOUS
<1> HIDE DEF h
<1>5. IsSum(h, H, S)
  BY <1>2, <1>3 DEF IsSum
<1> QED BY <1>4, <1>5

\* A sum does not depend on how its summands are numbered.
Renumbers(p, S) ==
    /\ p \in [S -> S]
    /\ \A x, y \in S : p[x] = p[y] => x = y
    /\ \A y \in S : \E x \in S : p[x] = y

LEMMA SumRenumbered ==
    ASSUME NEW S, NEW F \in [S -> Int], NEW f, IsSum(f, F, S), NEW p, Renumbers(p, S),
           NEW G \in [S -> Int], \A x \in S : G[x] = F[p[x]]
    PROVE  \E h : IsSum(h, G, S) /\ h[S] = f[S]
<1> USE DEF Renumbers
<1> DEFINE image(T) == {p[x] : x \in T}
           h == [T \in SUBSET S |-> f[image(T)]]
<1>1. \A T \in SUBSET S : image(T) \in SUBSET S
  OBVIOUS
<1>2. image({}) = {} /\ image(S) = S
  OBVIOUS
<1>3. h \in [SUBSET S -> Int] /\ h[{}] = 0 /\ h[S] = f[S]
  <2>1. \A T \in SUBSET S : f[image(T)] \in Int
    BY <1>1 DEF IsSum
  <2>2. h[{}] = f[{}] /\ h[S] = f[S]
    BY <1>2
  <2> QED BY <2>1, <2>2 DEF IsSum
<1>4. ASSUME NEW T \in SUBSET S, NEW x \in T PROVE h[T] = G[x] + h[T \ {x}]
  <2>1. x \in S /\ T \ {x} \in SUBSET S /\ p[x] \in image(T) /\ G[x] = F[p[x]]
    OBVIOUS
  <2>2. image(T \ {x}) = image(T) \ {p[x]}
    BY <2>1
  <2>3. image(T) \in SUBSET S
    BY <1>1
  <2>4. h[T] = f[image(T)] /\ h[T \ {x}] = f[image(T \ {x})]
    BY <2>1
  <2> HIDE DEF h, image
  <2>5. f[image(T)] = F[p[x]] + f[image(T) \ {p[x]}]
    BY <2>1, <2>3 DEF IsSum
  <2> QED BY <2>1, <2>2, <2>4, <2>5
<1> HIDE DEF h
<1>5. IsSum(h, G, S)
  BY <1>3, <1>4 DEF IsSum
<1> QED BY <1>3, <1>5

\* There is one sum.
LEMMA SumUnique ==
    ASSUME NEW S, IsFiniteSet(S), NEW F \in [S -> Int], NEW f, IsSum(f, F, S),
           NEW g, IsSum(g, F, S)
    PROVE  f[S] = g[S]
<1>1. f[{}] = 0
  BY DEF IsSum
<1>2. \A T \in SUBSET S : T # {} => \E x \in T : f[T] = F[x] + f[T \ {x}]
  <2> SUFFICES ASSUME NEW T \in SUBSET S, T # {}
               PROVE  \E x \in T : f[T] = F[x] + f[T \ {x}]
    OBVIOUS
  <2>1. PICK x \in T : TRUE
    OBVIOUS
  <2>2. f[T] = F[x] + f[T \ {x}]
    BY DEF IsSum
  <2> QED BY <2>2
<1>3. InSomeOrder(f, F, S)
  BY <1>1, <1>2 DEF InSomeOrder
<1> QED BY <1>3, SumInAnyOrder

\* The recursion of MapThenSumSet computes the sum.
ByChoice(h, F, S) ==
    h = [s \in SUBSET S |-> IF s = {} THEN 0
                            ELSE LET x == CHOOSE x \in s : TRUE IN F[x] + h[s \ {x}]]

LEMMA ChosenSum ==
    ASSUME NEW S, IsFiniteSet(S), NEW F \in [S -> Int]
    PROVE  \E f : /\ IsSum(f, F, S) /\ ByChoice(f, F, S)
                  /\ \A h : ByChoice(h, F, S) => h[S] = f[S]
<1>1. PICK f : IsSum(f, F, S)
  BY SumExists
<1>2. \A s \in SUBSET S : s # {} => (CHOOSE x \in s : TRUE) \in s
  OBVIOUS
<1>3. ByChoice(f, F, S)
  <2>1. ASSUME NEW s \in SUBSET S
        PROVE  f[s] = IF s = {} THEN 0 ELSE LET x == CHOOSE x \in s : TRUE
                                            IN  F[x] + f[s \ {x}]
    <3>1. CASE s = {}
      BY <1>1, <3>1 DEF IsSum
    <3>2. CASE s # {}
      <4>1. (CHOOSE x \in s : TRUE) \in s
        BY <3>2
      <4> QED BY <1>1, <3>2, <4>1 DEF IsSum
    <3> QED BY <3>1, <3>2
  <2>2. f \in [SUBSET S -> Int]
    BY <1>1 DEF IsSum
  <2> QED BY <2>1, <2>2 DEF ByChoice
<1>4. ASSUME NEW h, ByChoice(h, F, S) PROVE h[S] = f[S]
  <2>1. \A s \in SUBSET S : h[s] = IF s = {} THEN 0 ELSE LET x == CHOOSE x \in s : TRUE
                                                        IN  F[x] + h[s \ {x}]
    BY <1>4 DEF ByChoice
  <2>2. ASSUME NEW T \in SUBSET S, T # {} PROVE \E x \in T : h[T] = F[x] + h[T \ {x}]
    <3>1. (CHOOSE x \in T : TRUE) \in T
      BY <2>2
    <3> QED BY <2>1, <2>2, <3>1
  <2>3. InSomeOrder(h, F, S)
    BY <2>1, <2>2 DEF InSomeOrder
  <2> QED BY <1>1, <2>3, SumInAnyOrder
<1> QED BY <1>1, <1>3, <1>4

-------------------------------------------------------------------------------
\* A quantity that divides a budget by a cost costs no more than the budget.
LEMMA DivisionFits ==
    ASSUME NEW b \in Nat, NEW c \in Nat \ {0}, NEW q \in Nat, q <= b \div c
    PROVE  q * c <= b
<1>1. (b \div c) * c <= b /\ b \div c \in Nat
  BY Z3
<1>2. q * c <= (b \div c) * c
  BY <1>1, Z3
<1> QED BY <1>1, <1>2, Z3

\* A set of naturals that is not empty has a minimum, and Min is it.
LEMMA MinOfNaturals ==
    ASSUME NEW S \in SUBSET Nat, S # {}
    PROVE  Min(S) \in S /\ \A x \in S : Min(S) <= x
<1>1. \E x \in S : \A y \in S : ~(<<y, x>> \in OpToRel(<, Nat))
  BY NatLessThanWellFounded, WFMin
<1>2. \E x \in S : \A y \in S : x <= y
  <2>1. PICK x \in S : \A y \in S : ~(<<y, x>> \in OpToRel(<, Nat))
    BY <1>1
  <2>2. ASSUME NEW y \in S PROVE ~(y < x)
    <3>1. y \in Nat /\ x \in Nat
      OBVIOUS
    <3>2. y < x => <<y, x>> \in OpToRel(<, Nat)
      BY <3>1, Zenon DEF OpToRel
    <3> QED BY <2>1, <3>2
  <2> QED BY <2>2
<1> QED BY <1>2 DEF Min

\* What a leg can cost is a natural number.
LEMMA LegCostTyped ==
    ASSUME NEW leg \in BasketLeg PROVE AllInMaxCost(leg) \in Nat
<1> USE PriceAssumption DEF BasketLeg
<1>1. MaxLimitPrice(leg) \in Nat
  <2>1. {leg.ask + Slip, One} \in SUBSET Nat /\ {leg.ask + Slip, One} # {}
    OBVIOUS
  <2>2. Min({leg.ask + Slip, One}) \in Nat
    BY <2>1, MinOfNaturals
  <2> QED BY <2>2 DEF MaxLimitPrice
<1> QED BY <1>1 DEF AllInMaxCost

\* A set of positions that is not empty has a last one, and Max is it.
LEMMA LastPosition ==
    ASSUME NEW S \in SUBSET Legs, S # {}
    PROVE  Max(S) \in S /\ \A i \in S : i <= Max(S)
<1> DEFINE B == {n \in Nat : \E i \in S : n = N - i}
<1> USE NAssumption DEF Legs
<1>1. B # {}
  <2>1. PICK i \in S : TRUE
    OBVIOUS
  <2>2. i \in 1..N
    OBVIOUS
  <2>3. N - i \in Nat
    BY <2>2
  <2>4. N - i \in B
    BY <2>3
  <2> QED BY <2>4
<1>2. PICK n \in B : \A m \in Nat : m < n => m \notin B
  BY <1>1, LeastCounterexample
<1>3. PICK i \in S : n = N - i
  OBVIOUS
<1>4. \A j \in S : i >= j
  <2> SUFFICES ASSUME NEW j \in S, j > i PROVE FALSE
    OBVIOUS
  <2>1. i \in 1..N /\ j \in 1..N
    OBVIOUS
  <2>2. N - j \in Nat /\ N - j < n
    BY <1>3, <2>1
  <2> QED BY <1>2, <2>2
<1>5. \E k \in S : \A j \in S : k >= j
  BY <1>4
<1>6. Max(S) \in S /\ \A j \in S : Max(S) >= j
  BY <1>5 DEF Max
<1> QED BY <1>6

LEMMA LegsFinite == IsFiniteSet(Legs) /\ Cardinality(Legs) = N
BY NAssumption, FS_Interval DEF Legs

\* What leg i of basket b costs at its limit.
LegCosts(b) == [i \in Legs |-> AllInMaxCost(b[i])]

LEMMA LegCostsTyped == ASSUME NEW b \in Baskets PROVE LegCosts(b) \in [Legs -> Nat]
BY BasketsAssumption, LegCostTyped DEF LegCosts, Legs

\* The cost of a contract of the basket is the sum of the costs of its legs.
LEMMA UnitCostIsSum ==
    ASSUME NEW b \in Baskets
    PROVE  \E u : IsSum(u, LegCosts(b), Legs) /\ UnitCost(b) = u[Legs]
<1>1. DOMAIN b = Legs
  BY BasketsAssumption DEF Legs
<1>2. LegCosts(b) \in [Legs -> Int]
  BY LegCostsTyped
<1>3. PICK u : IsSum(u, LegCosts(b), Legs)
  BY <1>2, LegsFinite, SumExists
<1> DEFINE Eq(h) == h = [s \in SUBSET DOMAIN b |->
                 IF s = {} THEN 0 ELSE LET x == Max(s)
                                       IN  h[s \ {x}] + AllInMaxCost(b[x])]
<1>6. Eq(u)
  <2>1. ASSUME NEW s \in SUBSET Legs
        PROVE  u[s] = IF s = {} THEN 0 ELSE u[s \ {Max(s)}] + AllInMaxCost(b[Max(s)])
    <3>1. CASE s = {}
      BY <1>3, <3>1 DEF IsSum
    <3>2. CASE s # {}
      <4>1. Max(s) \in s
        BY <3>2, LastPosition
      <4>2. u[s] = LegCosts(b)[Max(s)] + u[s \ {Max(s)}]
        BY <1>3, <4>1 DEF IsSum
      <4>3. LegCosts(b)[Max(s)] = AllInMaxCost(b[Max(s)]) /\ LegCosts(b)[Max(s)] \in Int
        BY <1>2, <4>1 DEF LegCosts
      <4>4. u[s \ {Max(s)}] \in Int
        BY <1>3 DEF IsSum
      <4> QED BY <3>2, <4>2, <4>3, <4>4
    <3> QED BY <3>1, <3>2
  <2>2. u \in [SUBSET Legs -> Int]
    BY <1>3 DEF IsSum
  <2> QED BY <1>1, <2>1, <2>2
<1> DEFINE h == CHOOSE h : Eq(h)
<1>7. Eq(h)
  BY <1>6
<1>8. UnitCost(b) = h[DOMAIN b]
  BY DEF UnitCost, FoldLeft, MapThenFoldSet
<1> HIDE DEF h
<1>9. InSomeOrder(h, LegCosts(b), Legs)
  <2>1. \A s \in SUBSET Legs :
          h[s] = IF s = {} THEN 0 ELSE h[s \ {Max(s)}] + AllInMaxCost(b[Max(s)])
    BY <1>1, <1>7
  <2>2. ASSUME NEW T \in SUBSET Legs, T # {}
        PROVE  \E i \in T : h[T] = h[T \ {i}] + LegCosts(b)[i]
    <3>1. Max(T) \in T
      BY <2>2, LastPosition
    <3> QED BY <2>1, <2>2, <3>1 DEF LegCosts
  <2> QED BY <2>1, <2>2 DEF InSomeOrder
<1>10. h[Legs] = u[Legs]
  BY <1>2, <1>3, <1>9, LegsFinite, SumInAnyOrder
<1> QED BY <1>1, <1>3, <1>8, <1>10

\* It is a natural number.
LEMMA UnitCostTyped == ASSUME NEW b \in Baskets PROVE UnitCost(b) \in Nat
<1>1. PICK u : IsSum(u, LegCosts(b), Legs) /\ UnitCost(b) = u[Legs]
  BY UnitCostIsSum
<1> QED BY <1>1, LegCostsTyped, LegsFinite, SumNatural

\* How often a cost fits a budget is a natural number, 0 for a cost of 0.
LEMMA AffordsFits ==
    ASSUME NEW budget \in Nat, NEW cost \in Nat, NEW q \in Nat, q <= Affords(budget, cost)
    PROVE  q * cost <= budget
<1>1. CASE cost = 0
  BY <1>1
<1>2. CASE cost > 0
  BY <1>2, DivisionFits DEF Affords
<1> QED BY <1>1, <1>2
\* Affords is a natural number.
LEMMA AffordsTyped ==
    ASSUME NEW budget \in Nat, NEW cost \in Nat PROVE Affords(budget, cost) \in Nat
<1>1. CASE cost = 0
  BY <1>1 DEF Affords
<1>2. CASE cost > 0
  BY <1>2 DEF Affords
<1> QED BY <1>1, <1>2

\* The quantity of a leg is a natural number its cap affords.
LEMMA LegQuantityFits ==
    ASSUME NEW leg \in BasketLeg
    PROVE  /\ LegQuantity(leg) \in Nat
           /\ LegQuantity(leg) <= Affords(MaxLeg, AllInMaxCost(leg))
<1> DEFINE perLeg == Affords(MaxLeg, AllInMaxCost(leg))
<1>1. perLeg \in Nat
  BY LegCostTyped, AffordsTyped, NotionalAssumption
<1>2. CASE leg.size = NoSize
  BY <1>1, <1>2 DEF LegQuantity
<1>3. CASE leg.size # NoSize
  <2>1. leg.size \in Nat
    BY <1>3 DEF BasketLeg
  <2>2. {perLeg, leg.size} \in SUBSET Nat /\ {perLeg, leg.size} # {}
    BY <1>1, <2>1
  <2>3. /\ Min({perLeg, leg.size}) \in {perLeg, leg.size}
        /\ \A x \in {perLeg, leg.size} : Min({perLeg, leg.size}) <= x
    BY <2>2, MinOfNaturals
  <2>4. LegQuantity(leg) = Min({perLeg, leg.size})
    BY <1>3 DEF LegQuantity
  <2> QED BY <1>1, <2>1, <2>3, <2>4
<1> QED BY <1>2, <1>3

\* The sizing of a plan: the quantity of the basket costs at most the total
\* notional over all legs, and at most the leg notional on each.
THEOREM SizingFits ==
    ASSUME NEW b \in Baskets
    PROVE  /\ BasketQuantity(b) \in Nat
           /\ BasketQuantity(b) * UnitCost(b) <= MaxTotal
           /\ \A i \in Legs : BasketQuantity(b) <= Affords(MaxLeg, AllInMaxCost(b[i]))
<1> DEFINE quantities == {Affords(MaxTotal, UnitCost(b))}
                           \cup {LegQuantity(b[i]) : i \in DOMAIN b}
<1>1. b \in [1..N -> BasketLeg] /\ DOMAIN b = Legs /\ 1 \in Legs
  BY BasketsAssumption, NAssumption DEF Legs
<1>2. b # <<>>
  BY <1>1
<1>3. UnitCost(b) \in Nat /\ Affords(MaxTotal, UnitCost(b)) \in Nat
  BY UnitCostTyped, NotionalAssumption, AffordsTyped
<1>4. \A i \in Legs : LegQuantity(b[i]) \in Nat
  BY <1>1, LegQuantityFits DEF Legs
<1>5. quantities \in SUBSET Nat /\ quantities # {}
  BY <1>1, <1>3, <1>4
<1>6. BasketQuantity(b) = Min(quantities)
  BY <1>2 DEF BasketQuantity
<1>7. BasketQuantity(b) \in Nat /\ \A x \in quantities : BasketQuantity(b) <= x
  <2> HIDE DEF quantities
  <2> QED BY <1>5, <1>6, MinOfNaturals
<1>8. BasketQuantity(b) * UnitCost(b) <= MaxTotal
  <2>1. BasketQuantity(b) <= Affords(MaxTotal, UnitCost(b))
    BY <1>7
  <2> QED BY <1>3, <1>7, <2>1, AffordsFits, NotionalAssumption
<1>9. ASSUME NEW i \in Legs
      PROVE  BasketQuantity(b) <= Affords(MaxLeg, AllInMaxCost(b[i]))
  <2>1. BasketQuantity(b) <= LegQuantity(b[i])
    BY <1>1, <1>7
  <2>2. /\ LegQuantity(b[i]) <= Affords(MaxLeg, AllInMaxCost(b[i]))
        /\ b[i] \in BasketLeg
    BY <1>1, LegQuantityFits DEF Legs
  <2>3. Affords(MaxLeg, AllInMaxCost(b[i])) \in Nat
    BY <2>2, LegCostTyped, AffordsTyped, NotionalAssumption
  <2> QED BY <1>4, <1>7, <2>1, <2>2, <2>3
<1> QED BY <1>7, <1>8, <1>9

-------------------------------------------------------------------------------
\* The plan does not change while it is executed.
PlanKept ==
    /\ basket \in Baskets /\ ExecutableIntent(basket, MinPayoff)
    /\ cap = BasketQuantity(basket)

\* A planned execution is an execution: every theorem of LiveExecutionProofs
\* holds of it.
LEMMA PlannedIsExecution == PlannedSpec => Spec
<1>1. PlannedInit => Init
  BY DEF PlannedInit
<1>2. [PlannedNext]_plannedVars => [Next]_vars
  BY DEF PlannedNext, Next, plannedVars
<1> QED BY <1>1, <1>2, PTL DEF PlannedSpec, Spec

LEMMA PlanIsKept == PlannedSpec => []PlanKept
<1>1. PlannedInit => PlanKept
  BY DEF PlannedInit, PlanKept
<1>2. PlanKept /\ [PlannedNext]_plannedVars => PlanKept'
  <2> SUFFICES ASSUME PlanKept, [PlannedNext]_plannedVars PROVE PlanKept'
    OBVIOUS
  <2>1. cap' = cap /\ basket' = basket
    <3>1. CASE UNCHANGED plannedVars
      BY <3>1 DEF plannedVars, vars, executor, position
    <3>2. CASE Venue /\ UNCHANGED basket
      BY <3>2 DEF Venue, VenueFills, VenueExpires, executor, position
    <3>3. CASE OperatorTogglesKill /\ UNCHANGED basket
      BY <3>3 DEF OperatorTogglesKill, executor, position
    <3>4. CASE Executor /\ UNCHANGED basket
      BY <3>4
      DEF Executor, KillAtLeg, BudgetSpent, NotPlaceable, BuildRequest,
          KillBeforePlace, PassKillCheck, PlaceAccepted, PlaceRejected,
          PollKilled, PollStatus, NothingToCancel, CancelRest, RecordFirst,
          RecordHedge, AdapterRaises, Break, position
    <3> QED BY <3>1, <3>2, <3>3, <3>4 DEF PlannedNext
  <2> QED BY <2>1 DEF PlanKept
<1> QED BY <1>1, <1>2, PTL DEF PlannedSpec

\* No order, filled early, late or after a lost cancel, costs more than the leg
\* notional, for every basket and every price.
THEOREM LegNotionalIsKept == PlannedSpec => []LegNotionalKept
<1>1. ExecInv /\ PlanKept => LegNotionalKept
  <2> SUFFICES ASSUME ExecInv, PlanKept, NEW k \in Legs, NEW i \in Legs
               PROVE  order[k].filled * AllInMaxCost(basket[i]) <= MaxLeg
    BY DEF LegNotionalKept
  <2>1. basket \in Baskets /\ basket[i] \in BasketLeg
    BY BasketsAssumption DEF PlanKept, Legs
  <2>2. AllInMaxCost(basket[i]) \in Nat
    BY <2>1, LegCostTyped
  <2>3. order[k].filled \in Nat /\ order[k].filled <= cap
    BY ExecInvWithinCap, QuantityCapAssumption DEF ExecInv, TypeOK, Order
  <2>4. /\ cap \in Nat
        /\ cap <= Affords(MaxLeg, AllInMaxCost(basket[i]))
    BY <2>1, SizingFits DEF PlanKept
  <2>5. Affords(MaxLeg, AllInMaxCost(basket[i])) \in Nat
    BY <2>2, AffordsTyped, NotionalAssumption
  <2>6. order[k].filled <= Affords(MaxLeg, AllInMaxCost(basket[i]))
    BY <2>3, <2>4, <2>5
  <2> QED BY <2>2, <2>3, <2>6, AffordsFits, NotionalAssumption
<1> QED BY <1>1, PlannedIsExecution, ExecInvHolds, PlanIsKept, PTL

-------------------------------------------------------------------------------
\* Numbers from 1 to N that differ are all the numbers from 1 to N.
LEMMA InjectionIsOnto ==
    ASSUME NEW p \in [Legs -> Legs], \A i, j \in Legs : p[i] = p[j] => i = j
    PROVE  \A k \in Legs : \E i \in Legs : p[i] = k
<1>1. p \in Injection(Legs, Legs)
  BY DEF Injection, IsInjective
<1>2. p \in Surjection(Legs, Legs)
  BY <1>1, LegsFinite, FS_Injection
<1> QED BY <1>2 DEF Surjection

LEMMA UrgencyTyped == ASSUME NEW leg PROVE Urgency(leg) \in 0..3
BY DEF Urgency

\* The urgencies of a basket order its positions: any two of them, and transitively.
LEMMA UrgencyOrders ==
    ASSUME NEW b, NEW i \in Legs, NEW j \in Legs, NEW k \in Legs
    PROVE  /\ ~GoesBefore(b, i, i)
           /\ i # j => GoesBefore(b, i, j) \/ GoesBefore(b, j, i)
           /\ GoesBefore(b, i, j) /\ GoesBefore(b, j, k) => GoesBefore(b, i, k)
<1>1. /\ Urgency(b[i]) \in Int /\ Urgency(b[j]) \in Int /\ Urgency(b[k]) \in Int
      /\ i \in Int /\ j \in Int /\ k \in Int
  BY UrgencyTyped, NAssumption DEF Legs
<1> QED BY <1>1 DEF GoesBefore

\* The position of a leg in the sorted plan, counted from the legs before it.
Rank(b, i) == Cardinality({j \in Legs : GoesBefore(b, j, i)}) + 1

LEMMA RankIsPosition ==
    ASSUME NEW b, NEW i \in Legs
    PROVE  /\ Rank(b, i) \in Legs
           /\ \A j \in Legs : GoesBefore(b, i, j) => Rank(b, i) < Rank(b, j)
<1> DEFINE Before(j) == {k \in Legs : GoesBefore(b, k, j)}
<1>1. ASSUME NEW j \in Legs
      PROVE  IsFiniteSet(Before(j)) /\ Cardinality(Before(j)) \in Nat
  BY LegsFinite, FS_Subset, FS_CardinalityType
<1>2. Cardinality(Before(i)) <= N - 1
  <2>1. Before(i) \subseteq Legs \ {i}
    BY UrgencyOrders
  <2>2. IsFiniteSet(Legs \ {i}) /\ Cardinality(Legs \ {i}) = N - 1
    BY LegsFinite, FS_RemoveElement
  <2> HIDE DEF Before
  <2> QED BY <2>1, <2>2, FS_Subset
<1>3. ASSUME NEW j \in Legs, GoesBefore(b, i, j)
      PROVE  Cardinality(Before(i)) < Cardinality(Before(j))
  <2>1. Before(i) \subseteq Before(j)
    BY <1>3, UrgencyOrders
  <2>2. i \in Before(j) /\ i \notin Before(i)
    BY <1>3, UrgencyOrders
  <2> HIDE DEF Before
  <2>3. Cardinality(Before(i)) <= Cardinality(Before(j))
    BY <1>1, <2>1, FS_Subset
  <2>4. Cardinality(Before(i)) # Cardinality(Before(j))
    BY <1>1, <2>1, <2>2, FS_Subset
  <2> QED BY <1>1, <2>3, <2>4
<1>4. \A j \in Legs : Rank(b, j) = Cardinality(Before(j)) + 1
  BY DEF Rank
<1> HIDE DEF Before
<1> QED BY <1>1, <1>2, <1>3, <1>4, NAssumption DEF Legs

\* The stable sort by urgency exists, and it leaves no leg out.
LEMMA SortedPositions ==
    ASSUME NEW b \in Baskets
    PROVE  /\ WorstLegFirst(b) \in [Legs -> Legs]
           /\ \A i, j \in Legs : i < j =>
                 GoesBefore(b, WorstLegFirst(b)[i], WorstLegFirst(b)[j])
<1>1. DOMAIN b = Legs
  BY BasketsAssumption DEF Legs
<1> DEFINE r == [i \in Legs |-> Rank(b, i)]
<1>2. r \in [Legs -> Legs]
  BY RankIsPosition
<1>3. \A i, j \in Legs : GoesBefore(b, i, j) => r[i] < r[j]
  BY RankIsPosition
<1> HIDE DEF r
<1>4. \A i, j \in Legs : r[i] = r[j] => i = j
  <2> SUFFICES ASSUME NEW i \in Legs, NEW j \in Legs, i # j PROVE r[i] # r[j]
    OBVIOUS
  <2>1. r[i] \in Int /\ r[j] \in Int
    BY <1>2, NAssumption DEF Legs
  <2> QED BY <1>3, <2>1, UrgencyOrders
<1>5. \A k \in Legs : \E i \in Legs : r[i] = k
  BY <1>2, <1>4, InjectionIsOnto
<1> DEFINE s == [k \in Legs |-> CHOOSE i \in Legs : r[i] = k]
<1>6. \A k \in Legs : s[k] \in Legs /\ r[s[k]] = k
  BY <1>5
<1>7. s \in [Legs -> Legs]
  BY <1>6
<1> HIDE DEF s
<1>8. ASSUME NEW i \in Legs, NEW j \in Legs, i < j PROVE GoesBefore(b, s[i], s[j])
  <2> SUFFICES ASSUME ~GoesBefore(b, s[i], s[j]) PROVE FALSE
    OBVIOUS
  <2>1. s[i] # s[j]
    BY <1>6, <1>8, NAssumption DEF Legs
  <2>2. GoesBefore(b, s[j], s[i])
    BY <1>6, <2>1, UrgencyOrders
  <2>3. r[s[j]] < r[s[i]]
    BY <1>3, <1>6, <2>2
  <2>4. i \in Int /\ j \in Int
    BY NAssumption DEF Legs
  <2> QED BY <1>6, <1>8, <2>3, <2>4
<1>9. \E p \in [DOMAIN b -> DOMAIN b] :
        \A i, j \in DOMAIN b : i < j => GoesBefore(b, p[i], p[j])
  BY <1>1, <1>7, <1>8
<1>10. /\ WorstLegFirst(b) \in [DOMAIN b -> DOMAIN b]
       /\ \A i, j \in DOMAIN b : i < j =>
             GoesBefore(b, WorstLegFirst(b)[i], WorstLegFirst(b)[j])
  BY <1>9 DEF WorstLegFirst
<1> QED BY <1>1, <1>10

\* No two legs of a basket are on one market: what the code does not check, and what
\* the lookup of plan legs by market id needs.
DistinctMarkets ==
    \A b \in Baskets : \A i, j \in Legs : b[i].market = b[j].market => i = j

\* The positions of a plan's legs, in the order they are executed.
Positions(b) == IF Parallel THEN [i \in Legs |-> i] ELSE WorstLegFirst(b)

\* The orders of a basket of distinct markets are its legs, each of them once.
LEMMA OrdersAreTheBasket ==
    ASSUME DistinctMarkets, NEW b \in Baskets
    PROVE  /\ Positions(b) \in [Legs -> Legs]
           /\ \A i, j \in Legs : Positions(b)[i] = Positions(b)[j] => i = j
           /\ \A k \in Legs : OrderedLegs(b)[k] = b[Positions(b)[k]]
<1>1. DOMAIN b = Legs
  BY BasketsAssumption DEF Legs
<1> DEFINE p == Positions(b)
<1>2. p \in [Legs -> Legs]
  BY SortedPositions DEF Positions
<1>3. \A i, j \in Legs : p[i] = p[j] => i = j
  <2>1. CASE Parallel
    BY <2>1 DEF Positions
  <2>2. CASE ~Parallel
    <3> SUFFICES ASSUME NEW i \in Legs, NEW j \in Legs, i # j PROVE p[i] # p[j]
      OBVIOUS
    <3>1. i < j \/ j < i
      BY NAssumption DEF Legs
    <3>2. p[i] \in Legs /\ p[j] \in Legs
      BY <1>2
    <3>3. p = WorstLegFirst(b)
      BY <2>2 DEF Positions
    <3>4. GoesBefore(b, p[i], p[j]) \/ GoesBefore(b, p[j], p[i])
      BY <3>1, <3>3, SortedPositions
    <3> HIDE DEF p
    <3> QED BY <3>2, <3>4, UrgencyOrders
  <2> QED BY <2>1, <2>2
<1>4. ASSUME NEW k \in Legs PROVE OrderedLegs(b)[k] = b[p[k]]
  <2>1. MarketSequence(b)[k] = b[p[k]].market
    BY <1>1 DEF MarketSequence, Positions
  <2>2. OrderedLegs(b)[k] = LegOfMarket(b, b[p[k]].market)
    BY <1>1, <2>1 DEF OrderedLegs
  <2>3. p[k] \in Legs
    BY <1>2
  <2> HIDE DEF p
  <2>4. {i \in DOMAIN b : b[i].market = b[p[k]].market} = {p[k]}
    BY <1>1, <2>3 DEF DistinctMarkets
  <2>5. Max({p[k]}) = p[k]
    BY <2>3, LastPosition
  <2> QED BY <2>2, <2>4, <2>5 DEF LegOfMarket
<1> QED BY <1>2, <1>3, <1>4

\* So their costs add up to the cost of the basket.
LEMMA OrdersCostTheBasket ==
    ASSUME DistinctMarkets, NEW b \in Baskets,
           NEW u, IsSum(u, [k \in Legs |-> AllInMaxCost(OrderedLegs(b)[k])], Legs)
    PROVE  u[Legs] = UnitCost(b)
<1> DEFINE p == Positions(b)
           C == LegCosts(b)
           K == [k \in Legs |-> AllInMaxCost(OrderedLegs(b)[k])]
<1>1. /\ p \in [Legs -> Legs] /\ \A i, j \in Legs : p[i] = p[j] => i = j
      /\ \A k \in Legs : OrderedLegs(b)[k] = b[p[k]]
  BY OrdersAreTheBasket
<1> HIDE DEF p
<1>2. PICK v : IsSum(v, C, Legs) /\ UnitCost(b) = v[Legs]
  BY UnitCostIsSum
<1>3. C \in [Legs -> Int] /\ K \in [Legs -> Int] /\ \A k \in Legs : K[k] = C[p[k]]
  <2>1. \A k \in Legs : p[k] \in Legs /\ K[k] = C[p[k]]
    BY <1>1 DEF LegCosts
  <2>2. C \in [Legs -> Int]
    BY LegCostsTyped
  <2> QED BY <2>1, <2>2
<1>4. Renumbers(p, Legs)
  BY <1>1, InjectionIsOnto DEF Renumbers
<1>5. IsSum(u, K, Legs)
  OBVIOUS
<1> HIDE DEF C, K
<1>6. PICK w : IsSum(w, K, Legs) /\ w[Legs] = v[Legs]
  BY <1>2, <1>3, <1>4, SumRenumbered
<1>7. u[Legs] = w[Legs]
  BY <1>3, <1>5, <1>6, LegsFinite, SumUnique
<1> QED BY <1>2, <1>6, <1>7

-------------------------------------------------------------------------------
\* What the contracts of every order cost at most.
OrderCosts == [k \in Legs |-> AllInMaxCost(Orders[k])]

LEMMA OrderCostsTyped ==
    ASSUME DistinctMarkets, basket \in Baskets PROVE OrderCosts \in [Legs -> Nat]
<1> SUFFICES ASSUME NEW k \in Legs PROVE AllInMaxCost(Orders[k]) \in Nat
  BY DEF OrderCosts
<1>1. Positions(basket)[k] \in Legs /\ Orders[k] = basket[Positions(basket)[k]]
  BY OrdersAreTheBasket DEF Orders
<1>2. Orders[k] \in BasketLeg
  BY <1>1, BasketsAssumption DEF Legs
<1> QED BY <1>2, LegCostTyped

LEMMA HoldingsTyped ==
    ASSUME ExecInv, NEW k \in Legs
    PROVE  order[k].filled \in Nat /\ order[k].filled <= cap /\ cap \in Nat
BY ExecInvWithinCap, QuantityCapAssumption DEF ExecInv, TypeOK, Order

Spends == [k \in Legs |-> Spent(k)]

LEMMA SpendsTyped ==
    ASSUME ExecInv, DistinctMarkets, basket \in Baskets
    PROVE  /\ Spends \in [Legs -> Int]
           /\ \A k \in Legs : Spends[k] = order[k].filled * OrderCosts[k]
<1>1. ASSUME NEW k \in Legs
      PROVE  Spent(k) \in Int /\ Spent(k) = order[k].filled * OrderCosts[k]
  <2>1. OrderCosts[k] \in Nat /\ OrderCosts[k] = AllInMaxCost(Orders[k])
    BY OrderCostsTyped DEF OrderCosts
  <2> QED BY <2>1, HoldingsTyped DEF Spent
<1> QED BY <1>1 DEF Spends

\* SpentOn adds up what the orders spend.
LEMMA SpentOnIsSum ==
    ASSUME ExecInv, DistinctMarkets, basket \in Baskets
    PROVE  \E f : IsSum(f, Spends, Legs) /\ SpentOn(Legs) = f[Legs]
<1>1. PICK f : /\ IsSum(f, Spends, Legs) /\ ByChoice(f, Spends, Legs)
               /\ \A h : ByChoice(h, Spends, Legs) => h[Legs] = f[Legs]
  BY SpendsTyped, LegsFinite, ChosenSum
<1> DEFINE Eq(h) == h = [s \in SUBSET Legs |->
                 IF s = {} THEN 0 ELSE LET x == CHOOSE x \in s : TRUE
                                       IN  Spent(x) + h[s \ {x}]]
<1>2. ASSUME NEW h PROVE Eq(h) <=> ByChoice(h, Spends, Legs)
  <2>1. \A s \in SUBSET Legs : s # {} => (CHOOSE x \in s : TRUE) \in s
    OBVIOUS
  <2>2. \A k \in Legs : Spends[k] = Spent(k)
    BY DEF Spends
  <2>3. \A s \in SUBSET Legs :
          s # {} => Spends[CHOOSE x \in s : TRUE] = Spent(CHOOSE x \in s : TRUE)
    BY <2>1, <2>2
  <2> QED BY <2>3 DEF ByChoice
<1> DEFINE h == CHOOSE h : Eq(h)
<1>3. SpentOn(Legs) = h[Legs]
  BY DEF SpentOn, MapThenSumSet, MapThenFoldSet
<1> HIDE DEF h, Eq
<1>4. Eq(f)
  BY <1>1, <1>2
<1>5. Eq(h)
  BY <1>4 DEF h
<1>6. h[Legs] = f[Legs]
  BY <1>1, <1>2, <1>5
<1> QED BY <1>1, <1>3, <1>6

\* All legs together cost at most the total notional, if the legs of a basket are on
\* distinct markets: every order is one leg of the basket, each of them sent once, and
\* each fills at most the planned quantity.
THEOREM TotalNotionalIsKept ==
    ASSUME DistinctMarkets PROVE PlannedSpec => []TotalNotionalKept
<1>1. ExecInv /\ PlanKept => TotalNotionalKept
  <2> SUFFICES ASSUME ExecInv, PlanKept PROVE SpentOn(Legs) <= MaxTotal
    BY DEF TotalNotionalKept
  <2>1. basket \in Baskets /\ cap = BasketQuantity(basket)
    BY DEF PlanKept
  <2>2. cap \in Nat /\ cap * UnitCost(basket) <= MaxTotal /\ UnitCost(basket) \in Nat
    BY <2>1, SizingFits, UnitCostTyped
  <2>3. PICK f : IsSum(f, Spends, Legs) /\ SpentOn(Legs) = f[Legs]
    BY <2>1, SpentOnIsSum
  <2>4. OrderCosts \in [Legs -> Int]
    BY <2>1, OrderCostsTyped
  <2>5. PICK u : IsSum(u, OrderCosts, Legs)
    BY <2>4, LegsFinite, SumExists
  <2>6. u[Legs] = UnitCost(basket)
    BY <2>1, <2>5, OrdersCostTheBasket DEF OrderCosts, Orders
  <2> DEFINE H == [k \in Legs |-> cap * OrderCosts[k]]
  <2>7. H \in [Legs -> Int] /\ Multiplies(cap, OrderCosts, H, Legs)
    BY <2>2, <2>4 DEF Multiplies
  <2> HIDE DEF H
  <2>8. PICK h : IsSum(h, H, Legs) /\ h[Legs] = cap * u[Legs]
    BY <2>2, <2>4, <2>5, <2>7, SumScaled
  <2>9. Spends \in [Legs -> Int] /\ \A k \in Legs : Spends[k] <= H[k]
    <3>1. ASSUME NEW k \in Legs PROVE Spends[k] <= H[k]
      <4>1. OrderCosts[k] \in Nat
        BY <2>1, OrderCostsTyped
      <4>2. order[k].filled * OrderCosts[k] <= cap * OrderCosts[k]
        BY <4>1, HoldingsTyped
      <4> QED BY <2>1, <2>7, <4>2, SpendsTyped DEF Multiplies
    <3> QED BY <2>1, <3>1, SpendsTyped
  <2>10. f[Legs] <= h[Legs]
    BY <2>3, <2>7, <2>8, <2>9, LegsFinite, SumMonotone
  <2>11. f[Legs] \in Int
    BY <2>3 DEF IsSum
  <2> QED BY <2>2, <2>3, <2>6, <2>8, <2>10, <2>11, NotionalAssumption
<1> QED BY <1>1, PlannedIsExecution, ExecInvHolds, PlanIsKept, PTL

\* An order goes to a more urgent leg before a less urgent one.
THEOREM HardestLegGoesFirst ==
    ASSUME DistinctMarkets PROVE PlannedSpec => []HardestLegFirst
<1>1. ExecInv /\ PlanKept => HardestLegFirst
  <2> SUFFICES ASSUME ExecInv, PlanKept, ~Parallel, NEW j \in Legs, NEW k \in Legs,
                      j < k, order[k].filled > 0
               PROVE  order[j].filled > 0 /\ Urgency(Orders[j]) <= Urgency(Orders[k])
    BY DEF HardestLegFirst
  <2>1. basket \in Baskets
    BY DEF PlanKept
  <2>2. order[k].filled <= order[j].filled
    BY ExecInvCovers, NAssumption DEF CoveredLadder, Legs
  <2>3. order[j].filled > 0
    BY <2>2, HoldingsTyped
  <2> DEFINE p == WorstLegFirst(basket)
  <2>4. Orders[j] = basket[p[j]] /\ Orders[k] = basket[p[k]]
    BY <2>1, OrdersAreTheBasket DEF Orders, Positions
  <2>5. GoesBefore(basket, p[j], p[k])
    BY <2>1, SortedPositions
  <2>6. Urgency(basket[p[j]]) \in Int /\ Urgency(basket[p[k]]) \in Int
    BY UrgencyTyped
  <2> HIDE DEF p
  <2>7. Urgency(basket[p[j]]) <= Urgency(basket[p[k]])
    BY <2>5, <2>6 DEF GoesBefore
  <2> QED BY <2>3, <2>4, <2>7
<1> QED BY <1>1, PlannedIsExecution, ExecInvHolds, PlanIsKept, PTL


\* When the loop ends quietly and for none of the causes, every leg holds what the first
\* one holds.
LEMMA QuietEndBalances ==
    ASSUME ExecInv, pc = "done", ~emergency, ~QuietCause, NEW k \in Legs
    PROVE  order[k].filled = order[1].filled
<1>1. ~Imbalance
  BY QuietImbalanceCaused DEF UnflaggedImbalanceHasCause
<1>2. 1 \in Legs
  BY NAssumption DEF Legs
<1>3. order[k].filled \in Nat /\ order[1].filled \in Nat
  BY <1>2, HoldingsTyped
<1>4. order[1].filled <= order[k].filled
  BY <1>1, <1>3 DEF Imbalance
<1>5. k # 1 => order[k].filled <= order[1].filled
  BY ExecInvCovers, NAssumption DEF CoveredLadder, Legs
<1> QED BY <1>3, <1>4, <1>5

\* A trade that ends quietly and for no cause earns the minimum edge on all it bought, if
\* the legs of a basket are on distinct markets: every leg holds the same number of
\* contracts, and they cost what that many baskets cost at their limits.
THEOREM QuietTradesEarnEdge ==
    ASSUME DistinctMarkets PROVE PlannedSpec => []QuietTradeEarnsEdge
<1>1. ExecInv /\ PlanKept => QuietTradeEarnsEdge
  <2> SUFFICES ASSUME ExecInv, PlanKept, pc = "done", ~emergency, ~QuietCause,
                      NEW k \in Legs
               PROVE  SpentOn(Legs) <= order[k].filled * (MinPayoff - MinEdge)
    BY DEF QuietTradeEarnsEdge
  <2>1. basket \in Baskets /\ MinPayoff - UnitCost(basket) >= MinEdge
    BY DEF PlanKept, ExecutableIntent
  <2>2. UnitCost(basket) \in Nat
    BY <2>1, UnitCostTyped
  <2>3. PICK m : m = order[1].filled /\ m \in Nat
    BY HoldingsTyped, NAssumption DEF Legs
  <2>4. PICK f : IsSum(f, Spends, Legs) /\ SpentOn(Legs) = f[Legs]
    BY <2>1, SpentOnIsSum
  <2>5. OrderCosts \in [Legs -> Int] /\ Spends \in [Legs -> Int]
    BY <2>1, OrderCostsTyped, SpendsTyped
  <2>6. PICK u : IsSum(u, OrderCosts, Legs)
    BY <2>5, LegsFinite, SumExists
  <2>7. u[Legs] = UnitCost(basket)
    BY <2>1, <2>6, OrdersCostTheBasket DEF OrderCosts, Orders
  <2>8. Multiplies(m, OrderCosts, Spends, Legs)
    BY <2>1, <2>3, SpendsTyped, QuietEndBalances DEF Multiplies
  <2>9. PICK h : IsSum(h, Spends, Legs) /\ h[Legs] = m * u[Legs]
    BY <2>3, <2>5, <2>6, <2>8, SumScaled
  <2>10. f[Legs] = h[Legs]
    BY <2>4, <2>5, <2>9, LegsFinite, SumUnique
  <2>11. SpentOn(Legs) = m * UnitCost(basket)
    BY <2>4, <2>7, <2>9, <2>10
  <2>12. UnitCost(basket) <= MinPayoff - MinEdge /\ MinPayoff - MinEdge \in Int
    BY <2>1, <2>2, PayoffAssumption, NotionalAssumption
  <2>13. m * UnitCost(basket) <= m * (MinPayoff - MinEdge)
    BY <2>2, <2>3, <2>12
  <2> QED BY <2>3, <2>11, <2>13, QuietEndBalances
<1> QED BY <1>1, PlannedIsExecution, ExecInvHolds, PlanIsKept, PTL
================================================================================
