# A TLA+ model of the prediction-markets program

The repository holds three Python programs: `relative-value-scanner` (finds, plans and, under
guards, executes baskets of prediction-market contracts), `kalshi-weather-edge` (records Kalshi
books and trade prints, labels settlements and runs paper market makers) and
`market-graph-consistency` (pure consistency checks over a graph of markets). Most of the 160,000
lines are batch computations that read a snapshot and write a report. What can go wrong over
*time*, or in a *guarantee* the rest relies on, is concentrated in a few files, and these are
modelled: the search for baskets that always pay, the plan, the code that places live orders, the
loop and the journal around it, the hot loop that decides to place them, the paper market maker,
the trade recorder, the settlement labels, and the bounded no-arbitrage diagnostic.

## 1. Inventory

| Component | State it keeps | Operations | Interacts with |
|---|---|---|---|
| Structural payoff scout (`crypto_structural_payoff_arb_scout.py`) | none between scans | grid of price states, instruments, candidates and their class | interval rows; fills the plan and the universe |
| Execution plan (`execution_microstructure_plan.py`) | none | size a basket, order its legs, limit prices, `executable_intent` | candidates of the scout; read by the executor |
| Live order executor (`live_crypto_micro_executor.py`) | position in the leg sequence, first fill, orders placed, residual, emergency flag; output files; the scan loop's queue | scan loop, gates, `_process_trigger`, `_execute_live_orders`, `_poll_until_fill` | plan, adapters, journal, notifier, kill file |
| Venue order adapters (`live_crypto_execution_adapters.py`) | an injected client | validate, place, status, fills, cancel | the venues |
| Micro-test journal (`crypto_micro_test_journal.py`) | `test_plan.json`, `fills.jsonl`, `event_log.jsonl`, `final_report.json` | start, record fill, record mark, finalize, show | executor, operator |
| Fast-path executor (`crypto_fast_path_executor.py`) | universe, watched legs, quote cache, decisions | discover, narrow, refresh, evaluate, decide, execute | refresher, executor, journal, notifier |
| Fast quote refresher (`crypto_fast_quote_refresher.py`) | a cache for one tick, semaphores | `refresh_all` with a thread pool | the venues' public books |
| Trade notifier (`live_trade_notifications.py`) | keys seen, with times | notify, deduplicate, send | executor, journal |
| Paper market maker, basket (`kalshi-weather-edge/live`) | rows of `paper_market_making_quotes` and `paper_orders`, targets | select, fill, expire, quote | recorder's rows |
| Trade recorder (`live/orderbook_recorder.py`) | `historical_trades`, the mark and `closed_or_failed` of the process | poll pages of prints, record books | Kalshi client, paper market maker |
| Collector (`live/collector.py`), settlement labels (`data/weather_settlement_loader.py`) | `settlement_labels`, `_source_cache`, rate-limited days | start a build under a time limit, label a contract | weather clients, storage |
| Bounded no-arbitrage (`graph_engine/bounded_noarb.py`) | none | diagnose a family of contracts | graph snapshot |
| Weather models, backtests, reports, graph checks | none | pure computations | snapshots |

`PROJECT.json` lists all components, the ones that are not modelled included, with the reason.

What makes this code hard is nearly always the same: the world changes between two calls of a
sequential program. An order fills between the last status answer and its cancel; a cancel is
lost; the kill file is created after the last look at it; a hedge is refused when its first leg is
already held; a quote is used that was fetched before something else changed; a report comes out
between two contracts of a day; prints arrive late, a page is cut off, a process dies and its
successor starts from what it finds. There are few threads: a pool for quotes, and the collector's
jobs, which go on after the collector stops waiting for them.

Correctness, by component:

* **scout**: a candidate pays in every state of the world its contracts distinguish; a strict one
  earns whatever the price sources show; a cheap pair that always pays is found.
* **plan**: the caps on a leg and on the total hold for what can be spent, at the worst price; the
  edge survives that price; the leg least likely to fill goes first.
* **executor**: contracts held step down along the leg sequence (no hedge beyond what it hedges);
  no order is forgotten at a venue; the kill file stops it within one order; the journal is not
  above the venue; an unhedged fill that it knows of is flagged.
* **session**: all of this through many triggers, exceptions, interrupts and restarts; every
  session ends; final reports show the exposure that was journalled.
* **journal**: a guarantee is reported only of contracts really held; excess is listed; the
  verdict agrees with the residual.
* **fast path**: what is executed was quoted completely in its own tick and decided in time; edges
  are not passed over; the orders keep the edge that was decided on; they buy the legs of the
  basket.
* **paper market maker**: a quote is filled only by a print of its life, at its limit or below; a
  cancel overlooks no stored print; the position limit holds up to the other open quotes; the event
  log follows the quotes through a crash; every quote leaves OPEN unless its target is dropped.
* **recorder**: no print is skipped that was not captured, but for named causes; every other print is
  stored in the end.
* **labels**: rate-limited reads make no label; the contracts of one day are labelled from one
  report; a label gets worse only by an overlap, a failed request or a source that has gone back; a
  build that hangs does not stop the collector.
* **no-arbitrage**: fair prices are feasible, feasible prices allow no arbitrage.

## 2. Modules

| Module | Models | Uses |
|---|---|---|
| `StructuralScout` | `_scan_asset`: states, instruments, candidates, and the settlement | |
| `StructuralScoutProofs` | theorems about it | |
| `HedgedPurchase` | abstract specification: what an execution may ever hold | |
| `LiveExecution` | `_execute_live_orders`, `_poll_until_fill`, the adapter calls, the venues, the kill file | implements `HedgedPurchase` |
| `ExecutionPlan` | sizing, limits, leg order, `_ordered_plan_legs` (functions) | |
| `PlannedExecution` | `_process_trigger` from plan to orders | `LiveExecution` + `ExecutionPlan` |
| `JournalVerdict` | `finalize_crypto_micro_test`, `_verdict` (functions) | |
| `MicroTestJournal` | life of one test: buying, recording, finalizing | `JournalVerdict` |
| `MicroTestJournalProofs` | theorems about it | |
| `TriggerSession` | `run_crypto_structural_trigger`: scans, triggers, exceptions, restarts | `LiveExecution` + `JournalVerdict` |
| `LiveExecutionProofs` | theorems about `LiveExecution`, `TriggerSession` and `PlannedExecution` | |
| `FastPath` | hot loop, quote refresh, re-discovery, narrowing | |
| `FastPathProofs` | theorems about it | |
| `PaperMarketMaker` | `run`, `run_once` of the paper market maker, `_select_targets` of the basket, the recorder's rows and the market | |
| `PaperMarketMakerProofs` | theorems about it | |
| `TradeRecorder` | trade polls of the recorder, their pages and their mark | |
| `TradeRecorderProofs` | theorems about it | |
| `SettlementLabels` | builds of settlement labels under the collector's time limit | |
| `SettlementLabelsProofs` | theorems about it | |
| `PayoffFamily` | the bounded no-arbitrage diagnostic of a family | |
| `PayoffFamilyProofs` | theorems about it | |
| `MC...` | instances for TLC | |

### State and actions against the code

`StructuralScout`: `group` is what `_scan_asset` gets of one asset and instant, `quote` and
`options` what it reads of quotes and flags, `rows` what it returns. `Scan` is the whole function:
grid, base and synthesized instruments, single and paired covers (G1, G2), ladder covers (G6) and
up/down pairs, each with the conditions of `paper_candidate` and its class. `Settle` is outside of
the code: every source shows a price, and contracts pay by their own unrounded terms.

`LiveExecution`: `idx` is the loop index over `ordered_legs`, `polls` the elapsed time of
`_poll_until_fill` in units of `_POLL_MS`, `filledQty` its result, `firstFilled` is
`first_leg_filled`, `residual`/`emergency`/`record` are what the result and the journal show, and
`order[k]` is the venue's side. `pc` names the places between two calls where the world may move:
head of the loop (`leg`), request built (`check`), kill file looked at (`place`), polling (`poll`),
poll ended (`settle`), fill written (`record`). There is one action per way through each: both
looks at the kill file, the spent order budget, the refused request, the accepted and the rejected
placement, the status answer, the cancel, the two decisions after a fill, and an exception from
any adapter call. Venue actions fill and expire orders. `sentSinceKill` is a history variable.

`PlannedExecution` chooses a basket with an executable plan, sets the executor's cap to the plan's
quantity and reads the notional of each order from the limit prices of `ExecutionPlan`. Money is
in cents.

`TriggerSession`: `phase`, `iteration` and `queue` are the loop of scans and the candidates left
of a scan; `Execute` is a step of `LiveExecution`; `trades` keeps what every execution left behind:
its orders, which go on living at the venues, its cancels and its journal lines. An exception or an
interrupt ends the process wherever it stands; `Restart` begins a new one with nothing. The final
report is a function of the lines of its journal, and is written as `Report` in the properties.

`MicroTestJournal`: `bought` and `closed` are the venue, `fills` is `fills.jsonl` in order,
`report` is `final_report.json`. Records may be late and repeated and may lack price or quantity,
but never report what did not happen; nothing ties them to the order of events.

`FastPath`: `universe[b]` holds the asks with which basket `b` was found, `watched` the watched
legs, `cache` the quotes with the time they are stamped with, `pending` the rest of the evaluation
loop of this tick, `trade` the execution in progress. `Fetch` is one future of the thread pool;
the fetches of a tick interleave with each other, with price drift and with time. The order of
the candidates in the evaluation loop is left open.

`PaperMarketMaker`: one action per database transaction of a pass. `quotes` and `events` are the two
tables, `latest` and `tape` the recorder's rows (`stored` says when a print became visible), `clock`
is the `now` that `run_once` reads once. Timestamps are compared as text, those of rows with
fractions and those of the query cut to the second; `Window` is what that comparison selects.
`Select` is `_select_targets`: without a setup in the book the market is no target, with one that
depends on replays and other markets and is left open.

`TradeRecorder`: `mark` is `_last_global_trade_ts` or the ticker's mark, `poll` the local variables
of a poll, `stored` the rows of `historical_trades`. A page request, each row of a page, the end of
a poll and a book are steps of their own; any of them may fail where the code catches it, and the
process may die between any two and be started again in the other mode. `OtherStores` stands for the
other writers of the table, a recorder of single markets beside this one or `load-history`: the mark
of a new process is the newest row of all of them (`LatestStored`). `behind`, `others` and `why` are
history: they say why a print may be lost.

`SettlementLabels`: `build[b]` is the thread of one build with its local variables; `cache`,
`limitedKey` and `skips` belong to the loader and its client, which all builds share. Lookup,
request and store are separate steps because another build may run in between. The day has two
station sources: the archive (`iem`) is asked only if the NWS API (`nws`) has no observation at all
(`Reading`), so a build may be given fewer hours than an earlier one without any failure. The NWS may
cover less than before, and the report may go away. `best`, `lapsed` and `displaced` are history:
what the sources have had, and the builds that asked when they had less.

`PayoffFamily`: `Diagnose` is `_family_diagnostic`, and `Solve` the elimination of `_solve_square`, a
column at a time (`Eliminate`). The code eliminates in floating point; the model keeps numerators
over a common denominator, and lets a comparison that is decided by the last bit fall either way
(`tie`). Payoffs are whole (the assumption `FamiliesAssumption`), and the tolerance is positive, as
`DEFAULT_TOLERANCE` is.

### Abstractions

Payload, file names, redaction, latency figures, notification texts and reports are left out.
Gates on parameters, which no step changes, are left out or are constants; in `TriggerSession`
any gate may refuse a candidate. `FastPath` keeps the gates that depend on the state: the kill file,
the age of a decision and the hard blockers of a basket that was not worth its price when found; it
leaves out the buffer for different price sources. The client's response cache of 300 seconds, which is the
least time between two builds of labels, and the pruning of `historical_trades`, a maintenance
command, are left out. Values, thresholds and confidences of a settlement label are left out; a
label is its source and how much of the day it was drawn from. A Polymarket token's second source
(the Gamma book) is one more way for a fetch to succeed. CDNA legs are in the scout and in
`ExecutionPlan` (no slippage, first in the order) and not in the live modules, since no adapter of
theirs places orders. The fee of a contract depends on its price in the code and on its platform only in
the scout's model. Every trigger has a journal of its own: trigger ids are unique only if two
triggers of one asset in one second are told apart by four digits of a hash
(`live_crypto_micro_executor.py:210`).

## 3. Runs

| Run | Question | Bounds |
|---|---|---|
| `scout_groups` | do candidates pay, do strict ones earn, is a cheap cover found? | 6 groups of 2 to 4 contracts, 5 quotes each, 3 modes, 6 prices per source |
| `planned_caps` | caps and leg order of planned executions with faulty venues; does a trade that ends quietly earn its edge? | 3 legs; 64 baskets of cheap, dear, thin, deep and unknown size |
| `live_faults` | safety of the executor against lost cancels, old statuses, exceptions, a toggling kill file; refinement of `HedgedPurchase` | 4 legs, order budget of 3; quantity up to 3; 2 polls |
| `session_loop` | the same through several triggers, interrupts and restarts; do reports show the exposure, do sessions end? | 2 trades of 2 legs, sessions of 2 scans of one candidate |
| `journal_records` | does the report follow from what is held? | 2 legs of 2 contracts, up to 3 records |
| `fast_ticks` | are decisions fresh and complete, is the universe watched whole, is no lasting edge passed over? | 2 baskets with a common leg, 2 prices, 2 ticks, clock to 3 |
| `paper_quotes` | are fills, cancels, limits and events right while prints come late, targets come and go and the maker dies? | 3 quotes (2 open, position 1), 1 print, 1 crash, half seconds up to 2 seconds |
| `recorder_prints` | why may a print be lost, and is every other one stored? | 3 prints in 3 seconds, pages of 1 print, 2 pages, 1 failure, 1 crash, 1 print of another writer at a time, both modes |
| `settlement_builds` | labels of builds that overlap, fail, are rate limited or meet sources that went back | 2 contracts of a day, 2 builds, 1 failure, 2 changes of the sources |
| `payoff_prices` | is the diagnostic right about fair prices and about arbitrage? | 9 families, a grid of 6 prices with pairs closer than the tolerance, all mixtures of quarters |
| `fast_edge` (violated) | do the orders keep the decided edge? | 1 tick, near misses up to 10 cents |
| `fast_token` (violated) | do the orders buy the legs of the basket? | 1 basket over two platforms |

Why the bounds are enough.

* *Executor.* Legs after the second behave alike (each is a hedge of the first fill), so three
  hedges after a first leg give every case of "before, at and after the leg that failed", and a
  quantity of 3 has a fill of nothing, two different partial fills and a complete one. Two polls
  give a first answer, an improved one and a timeout. Theorems say the rest.
* *Session.* Two trades let an order of the first fill, expire or lose its cancel while the second
  runs in the same session or in a restarted one; two scans distinguish "next scan" from "ended".
* *Plan.* Each of the three caps and the size is the smallest in some basket.
* *Journal.* Two legs and three records allow a leg to be recorded again after the other; the code
  is symmetric in the legs, and so is the instance (`LegSymmetry`).
* *Fast path.* The two prices make a basket qualify, be a near miss or be left out of the discovery,
  two ticks let quotes of the first be met in the second, and a re-discovery between them changes
  the universe. The clock ends at `MaxTime` (the world may always still drift, so no run deadlocks).
* *Paper market maker.* Three quotes of which two may be open overrun a position of one; half
  seconds tell a time from its whole second; a life of one second ends within the clock.
* *Recorder.* Pages of one print and two pages let a burst of three be cut off; with an
  hour of two seconds, three seconds let a print be older than what a new process looks back to, and a
  print of another writer be newer than one that nobody stored.
* *Labels.* Two contracts let the cache be filled by one and used by the other, two builds overlap;
  two changes let a source cover the day in the first build and be gone or displaced in the second.
* *Scout.* A cent is 6 and a dollar 24, so strikes finer than a cent, strikes of 99 cents and prices
  between a strike and its rounding exist; the six groups have ranges that add up to a threshold,
  ladders, thresholds of all shapes on one and on several sources, and windows. The theorems hold for all of them.
* *Diagnostic.* One family of each type whose states keep the type's promise, two whose states break
  it, one whose weights have other denominators than 1, and three that are blocked.

`CHECK_DEADLOCK FALSE` stands where the program really stops: the scout after the settlement, the
diagnostic after its verdict, the collector at its deadline, and the recorder when it is down and
nothing is left to happen within the bounds.

### Fairness

* `session_loop`: weak fairness of the process's steps that do not raise (`FairSession`). It is one
  thread; its calls return or raise and its sleeps are finite. Nothing is assumed of the venues, the
  operator or a restart: that a session ends although nothing ever fills is the point.
* `paper_quotes`: weak fairness of the maker's loop, whose steps are database calls that return, and
  which the operator starts again when it died, and of the clock. Nothing is assumed of the market,
  the recorder or the selection of targets; `QuotesSettle` asks that the target comes back to stay.
* `settlement_builds`: weak fairness of the collector's own thread only. A build may hang for ever.
* `recorder_prints`: weak fairness of the recorder's loop. Nobody promises to start it again, so
  `PrintsAreRecorded` speaks of a recorder that stays up.

### Disagreements found

Shown by a run:

1. `fast_edge`: the gates judge this tick's quotes and the orders carry the limits of the discovery
   (`crypto_fast_path_executor.py:1019`). In the run they cost 94 of 100 with fees, below the payoff
   but above the 90 that keep the minimum edge.
2. `fast_token`: a NO leg at Polymarket is quoted and ordered by the YES token of its market
   (`crypto_fast_path_executor.py:206`).

Met while modelling; the models behave as the code does:

3. A refused hedge order (or a spent order budget, or a hedge platform without adapter) leaves the
   loop with no emergency and an empty residual list although the first leg is held
   (`live_crypto_micro_executor.py:491`). `UnflaggedImbalanceHasCause` states all the ways this
   happens and is proved; `ReportShowsExposure` shows that the final report lists the excess anyway.
4. `max_platform_notional` is only compared with its own ceiling (`:404`); legs of one platform
   together spend more. `max_daily_notional` is accepted and never read, so nothing bounds what
   the triggers of a session spend together.
5. Plan legs are looked up by market id (`:686`), so of YES and NO of one market one is bought twice
   and the other never.
6. `stop_all_further_orders` (`:556`) ends one execution; the next candidate of the same scan is
   traded with the same flags.
7. The command line passes no `sleep` (`scan.py:5454`), and the default does nothing (`:101`): polls
   and scans follow each other at once, and `order_timeout_ms` is a number of polls.
8. A leg recorded as filled without its price is no filled leg, and the test is closed as a cancelled
   trade (`crypto_micro_test_journal.py:563`).
9. "Always pays >= $1" (`crypto_structural_payoff_arb_scout.py:6`) does not hold for prices at a
   strike, nor between a strike and the cent it is rounded to (strikes of XRP and DOGE are finer
   than a cent, `crypto_interval_evidence_collector.py:802-809`); `GuaranteePays` excludes
   exactly these.
10. Up/down pairs across sources become paper candidates in conservative mode (`:1851`), and a
    ladder cover with a CDNA leg does without the operator's acceptance of CDNA (`:1475`, against
    `:20-21`). `depth_used` (`:1485`) is never true where it is meant to be, since the blocker it
    looks for is not set when a size cap stands for the depth.
11. `_fill_for_quote` counts a print at the limit as a fill (`paper_market_maker.py:316`). In
    `kalshi-weather-edge`, `docs/DATA_REALITY.md:22` says "trade through the paper limit", and so do
    `docs/CODEX_HANDOFF.md:202`, `docs/CURRENT_STATUS.md:125` and the docstring of the class
    (`paper_market_maker.py:66-71`). A print at the limit
    only touches the quote, and touched quotes "should be treated as no-fill by default"
    (`DATA_REALITY.md:19`). `FilledInItsLife` asks for a print at the limit or below, which both
    readings imply, and leaves open which of them is right; no run shows the difference.
12. "A kill-switch file is checked before every order, retry, hedge, and cancel"
    (`live_crypto_micro_executor.py:14`): nothing looks at it before `cancel_order` (`:509`). The
    models cancel whether it is there or not, which is what `NoOrphanOrder` needs.

## 4. Proofs

TLAPS checks every theorem of `LiveExecutionProofs`, `MicroTestJournalProofs`,
`StructuralScoutProofs`, `SettlementLabelsProofs`, `TradeRecorderProofs`, `PaperMarketMakerProofs`,
`FastPathProofs` and `PayoffFamilyProofs`. Every safety property and every action property that a run
checks is proved.

**The executor**, for every number of legs, quantity, order budget, poll bound, set of missing
adapters and set of faults. The safety properties are not inductive by themselves: the ladder of
holdings depends on what the executor knows. `ExecInv` adds to the type invariant

* `FillsWithinOrder`: an order fills no further than its quantity, and only if it was accepted;
* `Placement`: at each point of the loop which orders exist yet, and that the order being polled has
  the requested quantity and holds at least the fill that was read;
* `HedgesMatchFirstFill`: no order but the first asks for more than `firstFilled`, and once the
  first leg is done every leg before `idx` holds at least that much;
* `KillHistory`: no order went out since the kill file appeared while the executor is past its last
  look at it, and at most one ever does;
* `QuietEnd`: what is known when the loop has ended without an emergency.

The argument: hedges are ordered with quantity `firstFilled`, and the executor goes on to the next
hedge only when it *saw* that quantity filled, so every leg before holds at least what the next one
may ever hold, and fills that come later cannot break the ladder. A stale status only makes it see less. From
`ExecInv` follow `TypeCorrect`, `LadderIsCovered`, `NoOrderOrphaned`, `KillStopsOrders`,
`JournalIsSound`, `QuietEndExplained`, and `Implements`: a venue fill is a `Buy` of
`HedgedPurchase`, every other step stutters.

**The session**, for any number of scans, triggers, sessions and restarts. `SessionInv` is `LiveInv`
while an execution runs, `Idle` (nothing is left of the variables of an execution between two of
them) and `PastInv`: what was known of the orders and the journal of an execution on the day it was
left behind, and what the venues keep of it ever after. `LiveInv` is `ExecInv` with `JournalInv`, by
which the journal follows the loop: the legs before the current one are recorded and no others, and
what a record does not show of an order was cancelled. `LadderOutlivesTheTrade`, `NothingIsForgotten` and
`KillStopsSession` follow; the last one needs that a new session begins with the count of the kill
file's life and not with zero. For the reports, `Drawn` says what the lines of a finished journal are
to its orders (each about its leg, not above what is held, and legs without a line hold nothing and have
nothing at work): `ReportsShowTheExposure` and `CleanTradesStayMatched` then follow from what
`finalize` makes of such lines.

**The journal**, for any legs, quotes, fees, prices and number of records. `TestInv` adds to the
types that records tell fills that happened (`Happened`) and that a report still says what the
records say while none has come since (`StillDrawn`). `QuantityWasBought` (the last record of a leg is
one that happened) and `MatchedAndLeftOver` (the matched quantity is below each, and what is left over is
exactly the difference, although the code clamps it) give `GuaranteesAreHeld`,
`ExcessesAreListed` and, with the cases of `_verdict` (`VerdictIsFitting`), `VerdictsFitResiduals`.

**The plan**, for any number of legs, baskets, prices and caps. `SizingFits` shows that the common
quantity times the limit cost of any leg fits the leg cap (integer division and minimum over the
legs), and `LegNotionalIsKept` joins it with `ExecInv` into an invariant of `PlannedSpec`. The
properties of all legs together need two things more. *Sums*: `UnitCost` and `SpentOn` are folds,
which add up in an order of their own choosing; `SumInAnyOrder` says that this order does not
matter (by taking a smallest set for which it would), and from it follow that sums are monotone,
scale and may be renumbered. *The sort*: positions sorted by what `GoesBefore` exist
(`SortedPositions`: each leg at the rank of how many go before it), and the orders are the legs of the basket, each
of them once (`OrdersAreTheBasket`), **if no two legs of a basket are on one market**
(`DistinctMarkets`). The code does not check that and looks legs up by market id alone
(disagreement 5), so it is a hypothesis of `TotalNotionalIsKept`, `HardestLegGoesFirst` and
`QuietTradesEarnEdge` and not an assumption of the model: these hold of an execution exactly as far
as the scout keeps to one leg per market. `TotalNotionalIsKept` then compares the sum of what was spent,
order by order, with quantity times the cost of a basket. `QuietTradesEarnEdge` needs the execution: a
trade that ends without an emergency and for none of the causes of `QuietEndExplained` holds the same
number of contracts on every leg (`QuietEndBalances`, from what `ExecInv` knows of such an end), and
only then is the money that was spent on all of them that number of baskets at their limits, each of
which the plan let through for the minimum edge.

**The fast path**, for any baskets, prices, ticks and time limits. The cache outlives the tick and
the universe it was filled for, so that a leg has a quote says nothing about when. `TickInv` says
what it does mean: either every candidate is watched whole, or none is and nothing but watched legs
was ever quoted (`Watching`; narrowing happens once, before the first refresh, and a re-discovery
watches whole what it finds); while a refresh runs a watched leg has a quote of this refresh or is
still asked for, and when it is over each has one (`Refreshed`); the candidates passed by in this
tick did not qualify (`Judged`), and the one being executed was decided on, is watched and was
priced in time (`Executing`). `QuotesAreOfThisTick` and `UniverseStaysWatched` follow.
`EdgesAreDecided` needs sums again: the edge at the limits must be the smaller of the two edges the
code may look at. It holds if no ask is above the payoff of a contract: `_max_limit_price` caps a
limit there but no code clamps an ask, and an ask above it would have a limit below itself.

**The scout**, for any contracts that are well formed, any quotes, modes, fees and prices.
`ScanInv` says of every row how it was made and that its legs pay in every state of the grid
(`CandidatesCover`). Every price lies in a state (`PriceHasState`: the greatest boundary below it
and the least above); a price that is at no strike is on the same side of each contract's bounds as
its state (`SameSide`, `SideFits`), so a leg that pays in the state wins at the price, and
`CandidatesPay` follows. For `StrictCandidatesEarn`, a strict row has one source
(`StrictHasOneSourceAlways`), so the sources agree by themselves, and it was made only for a cost
below what a leg pays. `SureCoversAreFound` goes the other way, from prices to states: the least price above
the greatest bound of two contracts that is not above a state lies on the same side of all their bounds as the
state (`StateHasPrice`), so sides that pay at every price pay in every state (`PairCovers`), and the
pair is a row at the cost of its two legs (`SureIsRow`). Prices of the model are integers, and a state
between two neighbouring integers holds no price that is off the strikes; the theorem therefore assumes
that two bounds of a group have a price between them (`Resolved`: real prices do, and TLC checks it
of the instance), and that `max_basket_legs` allows a pair (it is 12 unless given).

**The labels**, for any number of contracts, builds and failures. What a build writes depends on
dictionaries that all builds share. `WorthInv` says that a build that has run alone so far owns
them: what it has in hand is what is kept (`OwnReport`, `OwnObservations`), every row of it is drawn
from that (`OwnLabels`), a limited answer has marked the day (`OwnLimit`), and, if it missed
nothing and asked when the sources had all they ever had, what it read is no worse than what the
labels of earlier builds were drawn from (`NoWorse`: no label is worth more than `best`, and what a
build was given is less than `best` only if it is in `lapsed` or `displaced`). A step of one build disturbs no other that is alone,
because there is none (`OnlyOwn`). `LimitsAreHeeded`, `OneSourcePerBuild` and the action property
`LabelsKeepTheirWorth` follow.

**The recorder**, for any pages, look-back, prints, failures and crashes. `RecorderInv` follows the
prints that are neither stored nor excused (`Awaited`): the mark has passed none of them
(`MarkPassesNone`); while a poll runs, each is still to be read by it or newer than all that is
stored or asked for (`PollPassesNone`); between polls, only a poll that broke off accounts for one
that is older than a stored print (`LeftBehind`), which is what a new process without a mark would
start behind. Prints of other writers do not count here: the proof follows the rows that this recorder
stored (`Own`), and what a new process does not reach because of a newer row of another is excused
when it begins (`OwnFirstMin`). Pages leave no gap above their cursor (`PageReaches`, by cardinalities). Together with
`MarkIsStored` this gives `NoPrintIsSkipped`.

**The paper market maker**, for any books, limits, lengths of life, resolutions of the clock,
recorder delays and crashes, and any numbers of prints and quotes. `FilledInItsLife` and
`CancelledUnfilled` compare seconds with times: a time in an earlier second is earlier
(`CutEarlier`), one in no earlier second is less than a second earlier (`CutNotEarlier`). A hit of
the search lies in the life of its quote (`HitInLife`), and the search for an expired quote misses
none that was stored (`NoHitMissed`); a print that is stored afterwards is stored no earlier than
the pass, since no quote is settled in the future (`LifeInv`, `TapeStep`). `PositionBounded` is not
inductive: `PositionInv` counts open quotes as if they were filled. `EventInv` is the event log
against the quotes, and `PassInv` says which event a pass has still to write, so that a crash loses
that one and no other. `TypeCorrectMaker` is the type invariant, for any bounds.

**The no-arbitrage diagnostic**, for any number of contracts and states, any whole payoffs, prices,
unit and tolerance. `SolveIsExact` is about `_solve_square`: `Reduced` says that after n columns the
columns up to n are solved and the equations still have the same solutions (`EliminateByKeeps`), or a
column without a pivot showed that the columns depend on each other (`StuckIsDependent`); so the
solver gives up only on a system without a unique solution, and else gives that solution exactly. The
verdict then goes both ways.
*No arbitrage in what is feasible* (`FeasibleIsNoArbitrage`): the accepted subsystem mixes its
states to the prices (`Mixes`), so a portfolio costs, up to the tolerance, the mixture of what it
pays (`CostIsMixed`, by exchanging two sums), and that is no less than what it pays at least
(`MixedPaysLeast`).
*Nothing fair is refused* (`MixturesAreNeverRefused`): the code looks at square subsystems only, with no more
states than there are equations. Take a mixture with the fewest states. These are independent, for
along a dependency the weights could be moved until the first of them is 0 (`FewerStates`, with the
least of the ratios, `LeastRatio`); this is Caratheodory's theorem. Independent states are
independent on as many rows (`IndependentRows`, a row at a time; more states than rows are always
dependent, because the elimination runs out of rows). On these rows the solver finds the weights of
the mixture and no others (`MixtureFits`), with no residual and no negative weight, so that even an unlucky
last bit does not matter. That a mixture keeps the bound of its type (`MixtureKeepsBound`) needs that
every state does (`Honoured`).

**Only model-checked.** Liveness under fairness (`SessionEnds`, `QuotesSettle`, `CollectorEnds`,
`PrintsAreRecorded`), which is out of the prover's reach. That rounding does not change a verdict
other than at a tie is an assumption of the model about floating point, and not proved.

## 5. What is left

Done in this order: executor, its proofs, plan and composition, journal, fast path, paper market
maker, then trigger session, basket selection, recorder, settlement labels, no-arbitrage
diagnostic, scout, and the proofs about session, scout, labels, recorder, paper market maker, fast path,
journal, the sums of the plan and the no-arbitrage diagnostic.
What a next step would take up:

1. A report older than its records: `show` after late fills.
2. The gates of the scout's blockers (`collect_hard_blockers`) one by one, and the rows that the
   model leaves out: those that are never paper candidates, and those of equal payoffs (G3), which are
   only for a basket that covers alone and which G1 offers as well.

## 6. Not modelled

The audits, evidence reports, weather models, backtests, replays and graph relationship checks are
computations without state between runs: about 150,000 of the 160,000 lines. A model of one of them would be a
second copy of its arithmetic or its report. HTTP clients and parsers are represented by their
outcomes (an answer, none, or an exception). The trade notifier keeps keys and times, but nothing
retries a notification or reads what became of it. The paper trader places a paper order and its
position in two transactions and live placement is disabled there. The structural watcher polls
the scout and writes reports. Command lines and dashboards dispatch to the components above.
