---------------------------- MODULE TriggerSession ----------------------------
(***************************************************************************)
(* run_crypto_structural_trigger and _process_trigger of                   *)
(* live_crypto_micro_executor.py with live orders switched on: a loop of   *)
(* scans, each of which hands at most max_orders qualifying candidates to  *)
(* a trigger.  A trigger passes its gates or does not; one that passes is  *)
(* executed (LiveExecution), and its journal is finalized (JournalVerdict) *)
(* before the next candidate is looked at.                                 *)
(*                                                                         *)
(* Nothing catches an exception of an adapter, and nothing stops the       *)
(* operator from interrupting the command: the process is gone, its orders *)
(* are not.  The operator may start the command again; a new process reads *)
(* nothing an earlier one wrote.  Orders of earlier triggers may fill or   *)
(* expire at any time.                                                     *)
(***************************************************************************)
EXTENDS LiveExecution, Sequences

CONSTANTS
    Iterations,  \* n_iters
    Candidates,  \* bound on the qualifying candidates of a scan
    MaxTrades,   \* bound on the triggers that pass their gates, over all sessions
    Ask,         \* Ask[k]: what a contract of leg k is bought for
    BasketPayoff, \* min_payoff of a basket
    Riskless     \* the payoff that makes a basket riskless

ASSUME SessionAssumption ==
    Iterations \in Nat \ {0} /\ {Candidates, MaxTrades} \subseteq Nat
ASSUME MoneyAssumption ==
    Ask \in [1..N -> Nat] /\ BasketPayoff \in Nat /\ Riskless \in Nat \ {0}

VARIABLES
    phase,      \* where the process stands
    iteration,  \* i + 1
    queue,      \* candidates of this scan not yet processed
    trades      \* what every execution that is over left behind

loop        == <<phase, iteration, queue>>
session     == <<loop, trades>>
sessionVars == <<vars, session>>

Over == {"ended", "dead"}

\* finalize_crypto_micro_test for this basket: no leg has a fee of its own.
Finalized == INSTANCE JournalVerdict WITH
    Legs <- Legs, Intended <- QuantityCap, Ask <- Ask,
    ExpectedFee <- [k \in Legs |-> 0], MinPayoff <- BasketPayoff, One <- Riskless,
    CrossSource <- FALSE

\* The final report of an execution that left these fill records.
Report(fills) == [verdict  |-> Finalized!Verdict(fills, FALSE),
                  matched  |-> Finalized!Matched(fills),
                  residual |-> [k \in Legs |-> Finalized!Residual(fills, k)]]

SessionInit ==
    /\ Fresh /\ cap = 0
    /\ killFile \in BOOLEAN /\ sentSinceKill = 0
    /\ phase = "scan" /\ iteration = 0 /\ queue = 0
    /\ trades = <<>>

-------------------------------------------------------------------------------
(***************************************************************************)
(* The process.                                                            *)
(***************************************************************************)

\* One scan; qualifying[:max_orders] are processed, the others are dropped.
Scan ==
    /\ phase = "scan"
    /\ iteration' = iteration + 1
    /\ queue' \in {n \in 0..MaxOrders : n <= Candidates}
    /\ phase' = "trigger"
    /\ UNCHANGED <<vars, trades>>

\* Some gate is closed: an event, an empty report, and the next candidate.
Refuse ==
    /\ phase = "trigger" /\ queue > 0
    /\ queue' = queue - 1
    /\ UNCHANGED <<vars, phase, iteration, trades>>

\* Every gate is open; the plan has something to buy.
Accept ==
    /\ phase = "trigger" /\ queue > 0
    /\ ~Kill
    /\ Len(trades) < MaxTrades
    /\ cap' \in 1..QuantityCap
    /\ phase' = "execute"
    /\ UNCHANGED <<pc, idx, polls, filledQty, firstFilled, ordersPlaced, outcome,
                   venue, operator, iteration, queue, trades>>

Execute ==
    /\ phase = "execute"
    /\ Executor
    /\ UNCHANGED session

\* The fill record of leg k: the last status answer, with its average price.
FillLine(k) ==
    [leg    |-> k,
     status |-> IF record[k] = 0 THEN "not_filled"
                ELSE IF record[k] >= Requested(k) THEN "filled" ELSE "partial",
     price  |-> IF record[k] > 0 THEN Ask[k] ELSE Finalized!None,
     qty    |-> record[k],
     fees   |-> Finalized!None]

\* fills.jsonl of the trigger's journal: legs are journalled one after the other.
FillLines ==
    [k \in 1..Cardinality({l \in Legs : record[l] # NoRecord}) |-> FillLine(k)]

\* The variables of the execution are gone.
Cleared ==
    /\ cap' = 0 /\ pc' = "leg" /\ idx' = 1 /\ polls' = 0 /\ filledQty' = 0
    /\ firstFilled' = 0 /\ ordersPlaced' = 0
    /\ residual' = 0 /\ emergency' = FALSE
    /\ record' = [k \in Legs |-> NoRecord]
    /\ order' = [k \in Legs |-> NoOrder]
    /\ cancels' = {}

\* The execution is over; its orders are past.
Leave(finalized) ==
    /\ trades' = Append(trades, [order |-> order, cancels |-> cancels,
                                 fills |-> FillLines, finalized |-> finalized])
    /\ Cleared
    /\ UNCHANGED operator

\* Mutant: the trigger is finalized in a finally clause and the loop goes on.
FinalizeAnyhow ==
    /\ phase = "execute" /\ pc \in Stopped
    /\ Leave(TRUE)
    /\ phase' = "trigger" /\ queue' = queue - 1
    /\ UNCHANGED iteration

\* final_report.json is drawn from the lines there are now, and no process writes
\* to this journal again: see Report.
Finalize ==
    /\ phase = "execute" /\ pc = "done"
    /\ Leave(TRUE)
    /\ phase' = "trigger" /\ queue' = queue - 1
    /\ UNCHANGED iteration

\* The exception goes up through every caller: no residual file, no final report,
\* no summary.
Die ==
    /\ phase = "execute" /\ pc = "raised"
    /\ Leave(FALSE)
    /\ phase' = "dead"
    /\ UNCHANGED <<iteration, queue>>

EndIteration ==
    /\ phase = "trigger" /\ queue = 0
    /\ phase' = IF iteration < Iterations THEN "scan" ELSE "ended"
    /\ UNCHANGED <<vars, iteration, queue, trades>>

Process == Scan \/ Refuse \/ Accept \/ Execute \/ Finalize \/ Die \/ EndIteration

-------------------------------------------------------------------------------
(***************************************************************************)
(* The operator and the venues.                                            *)
(***************************************************************************)

\* The operator interrupts the command, wherever it stands.
Interrupt ==
    /\ phase \notin Over
    /\ phase' = "dead"
    /\ IF phase = "execute" THEN Leave(FALSE) ELSE UNCHANGED <<vars, trades>>
    /\ UNCHANGED <<iteration, queue>>

\* The command is started again.
Restart ==
    /\ phase \in Over /\ Len(trades) < MaxTrades
    /\ phase' = "scan" /\ iteration' = 0 /\ queue' = 0
    /\ UNCHANGED <<vars, trades>>

\* A venue fills n more contracts of an order of an earlier trigger, or ends it.
PastFills(t, k, n) ==
    LET o == trades[t].order[k]
    IN /\ o.state = "working" /\ o.filled + n <= o.qty
       /\ trades' = [trades EXCEPT ![t].order[k] =
             [o EXCEPT !.filled = @ + n,
                       !.state = IF o.filled + n = o.qty THEN "closed" ELSE @]]
       /\ UNCHANGED <<vars, loop>>

PastExpires(t, k) ==
    /\ trades[t].order[k].state = "working"
    /\ trades' = [trades EXCEPT ![t].order[k].state = "closed"]
    /\ UNCHANGED <<vars, loop>>

Outside ==
    \/ Interrupt \/ Restart
    \/ (Venue \/ OperatorTogglesKill) /\ UNCHANGED session
    \/ \E t \in DOMAIN trades, k \in Legs :
          PastExpires(t, k) \/ \E n \in 1..QuantityCap : PastFills(t, k, n)

SessionNext == Process \/ Outside

SessionSpec == SessionInit /\ [][SessionNext]_sessionVars

\* The process is one thread that goes on, whether or not a call ever raises.
\* Nothing is assumed of the operator, of the venues or of a restart.
FairSession == SessionSpec /\ WF_sessionVars(Process /\ pc' # "raised")

-------------------------------------------------------------------------------
(***************************************************************************)
(* Properties.                                                             *)
(***************************************************************************)

Reported == {t \in DOMAIN trades : trades[t].finalized}

\* What is still working at a venue after its execution ended was cancelled at
\* least once, or the process died on it: no trigger, however it ended and
\* however many came after it, leaves an order the code simply forgot.
LeftoverHasCause ==
    \A t \in Reported : \A k \in Legs :
        trades[t].order[k].state = "working" => k \in trades[t].cancels

\* A final report lists every excess of one leg over another, as long as no order
\* filled behind the last answer that was journalled: also after a refused hedge,
\* the kill file, a spent budget, where the executor itself reports no residual.
ReportShowsExposure ==
    \A t \in Reported :
        LET held  == [k \in Legs |-> trades[t].order[k].filled]
            fills == trades[t].fills
        IN (\A i \in DOMAIN fills : fills[i].qty = held[i]) =>
              \A k, l \in Legs :
                 held[k] > held[l] => Report(fills).residual[k] >= held[k] - held[l]

\* A clean verdict is about contracts that are held, every leg's, and what is
\* later held beyond it comes from an order whose cancel came too late.
CleanStaysMatched ==
    \A t \in Reported :
        LET held   == [k \in Legs |-> trades[t].order[k].filled]
            report == Report(trades[t].fills)
        IN report.verdict = "CLEAN_COMPLETE" =>
              /\ report.matched > 0
              /\ \A k \in Legs : held[k] >= report.matched
              /\ \A k \in Legs : held[k] > report.matched => k \in trades[t].cancels

\* Every session comes to an end, however the venues and the operator behave and
\* however often the command is started again.
SessionEnds == []<>(phase \in Over)
================================================================================
