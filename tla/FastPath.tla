-------------------------------- MODULE FastPath --------------------------------
(***************************************************************************)
(* The hot trigger loop of crypto_fast_path_executor.py in live mode, with *)
(* the parallel quote refresh of crypto_fast_quote_refresher.py: a frozen  *)
(* universe of candidates, whose legs are quoted once a tick into a cache, *)
(* judged from the cache and executed at once, and a slow re-discovery     *)
(* between ticks.                                                          *)
(*                                                                         *)
(* The venues' prices drift at any moment, and time passes during every    *)
(* fetch, every execution and every sleep.  The orders of an execution are *)
(* LiveExecution's; here they are the limits they are sent with.           *)
(* recognized_first, which only dates a latency figure, is left out; so    *)
(* are the gates that no run of the loop changes, the buffer that baskets  *)
(* of several price sources keep, the second (Gamma) book of a Polymarket  *)
(* token, which is one more way for a fetch to succeed, and CDNA legs,     *)
(* which never enter the executable universe.                              *)
(*                                                                         *)
(* A leg is the record of its leg key.  Prices are in cents.               *)
(***************************************************************************)
EXTENDS Integers, FiniteSets, FiniteSetsExt

CONSTANTS
    Baskets,         \* baskets the scout knows of: sets of legs
    Prices,          \* asks a leg may have at its venue
    Fee,             \* fee of a contract
    MinPayoff,       \* min_payoff of every basket
    Slip,            \* max_slippage_price
    One,             \* the payoff of a contract
    MinEdge,         \* min_net_edge
    NearMiss,        \* near_miss_net_edge_threshold of the discovery
    MaxCandidates,   \* max_watched_candidates
    MaxLegs,         \* max_watched_legs
    RefreshEvery,    \* refresh_universe_every_seconds
    MaxDecisionAge,  \* max_decision_age_ms
    Ticks,           \* iterations
    MaxTime          \* bound on the clock

Leg == [platform : {"kalshi", "polymarket"}, market : STRING, side : {"YES", "NO"}]
Legs == UNION Baskets

ASSUME BasketsAssumption ==
    /\ \A b \in Baskets : b \subseteq Leg /\ IsFiniteSet(b) /\ b # {}
    /\ IsFiniteSet(Baskets)
ASSUME PricesAssumption == Prices \subseteq Nat /\ Fee \in Nat /\ Slip \in Nat
ASSUME EdgeAssumption ==
    {MinPayoff, One, MinEdge, NearMiss, MaxCandidates, MaxLegs} \subseteq Nat
ASSUME TimeAssumption == {RefreshEvery, MaxDecisionAge, Ticks, MaxTime} \subseteq Nat

NoAsk == -1   \* a quote without an ask
Never == -1

VARIABLES
    price,        \* price[x]: the ask of instrument x at its venue
    now,          \* the clock
    killFile,     \* the kill-switch file exists
    pc,           \* where the loop stands
    tick,         \* ticks completed
    universe,     \* candidates: universe[b][l] is the ask of leg l when b was found
    watched,      \* watched_legs
    cache,        \* quote_cache: ask and quote_timestamp of a leg
    toFetch,      \* fetch targets of this refresh not answered yet
    started,      \* refresh_started
    completed,    \* refresh_completed
    lastFound,    \* last_discovery_at
    pending,      \* candidates still to be evaluated in this tick
    decided,      \* candidates decided on in this tick
    trade         \* the basket being executed, with the limits of its orders

market == <<price, now, killFile>>
quotes == <<cache, toFetch, started, completed>>
found  == <<universe, watched, lastFound>>
vars   == <<market, pc, tick, found, quotes, pending, decided, trade>>

-------------------------------------------------------------------------------
\* token_id of _universe_candidate and _leg_plan: the YES token whenever there
\* is one, which is always so at Polymarket.
Token(l) == IF l.platform = "polymarket" THEN [l EXCEPT !.side = "YES"] ELSE l

Instruments == Legs \cup {Token(l) : l \in Legs}

\* One book per Kalshi ticker, one per Polymarket token.
Target(l) == IF l.platform = "kalshi" THEN <<"kalshi", l.market>>
                                      ELSE <<"polymarket", Token(l)>>

MaxLimitPrice(ask) == Min({ask + Slip, One})

\* The edge of a basket when its legs cost ask[l].
Edge(b, ask) == MinPayoff - MapThenSumSet(LAMBDA l : ask[l] + Fee, b)
EdgeAtLimits(b, ask) == Edge(b, [l \in b |-> MaxLimitPrice(ask[l])])

\* The baskets a discovery freezes: priced, and at worst a near miss.
Discovered(asks) ==
    [b \in {b \in Baskets : Edge(b, asks) >= -NearMiss} |-> [l \in b |-> asks[l]]]

WatchAll(u) == UNION DOMAIN u

\* What _narrow_watch_universe may leave of a universe: its best candidates,
\* and as many of their legs as the leg cap lets through, best candidate first.
\* A candidate whose legs were cut goes too, unless that leaves none.
KeptCandidates(u) ==
    {best \in SUBSET DOMAIN u :
        /\ Cardinality(best) = Min({MaxCandidates, Cardinality(DOMAIN u)})
        /\ \A b \in best, c \in DOMAIN u \ best : Edge(b, u[b]) >= Edge(c, u[c])}

KeptLegs(u, best) ==
    {w \in SUBSET UNION best :
        /\ Cardinality(w) = Min({MaxLegs, Cardinality(UNION best)})
        /\ \A b, c \in best :
              (c \cap w) \ b # {} /\ Edge(b, u[b]) > Edge(c, u[c]) => b \subseteq w}

Priced(best, w) ==
    LET whole == {b \in best : b \subseteq w}
    IN  IF whole = {} THEN best ELSE whole

Init ==
    /\ price \in [Instruments -> Prices]
    /\ now = 0 /\ killFile \in BOOLEAN
    /\ pc = "tick" /\ tick = 0
    /\ \E before \in [Instruments -> Prices] :
          LET u == Discovered(before)
          IN  \E best \in KeptCandidates(u) : \E w \in KeptLegs(u, best) :
                 /\ watched = w
                 /\ universe = [b \in Priced(best, w) |-> u[b]]
    /\ lastFound = 0
    /\ cache = [l \in {} |-> 0] /\ toFetch = {}
    /\ started = 0 /\ completed = 0
    /\ pending = {} /\ decided = {}
    /\ trade = <<>>

-------------------------------------------------------------------------------
(***************************************************************************)
(* The loop.                                                               *)
(***************************************************************************)

Due == now - lastFound >= RefreshEvery

\* A tick without a discovery, or with one that returns nothing new.
KeepUniverse ==
    /\ pc = "tick" /\ tick < Ticks
    /\ pc' = "start"
    /\ lastFound' = IF Due THEN now ELSE lastFound
    /\ UNCHANGED <<market, tick, universe, watched, quotes, pending, decided, trade>>

\* Mutant: the new candidates are judged by the legs watched so far.
RediscoverCandidatesOnly ==
    /\ pc = "tick" /\ tick < Ticks /\ Due
    /\ pc' = "start"
    /\ universe' = Discovered(price)
    /\ lastFound' = now
    /\ UNCHANGED <<market, tick, watched, quotes, pending, decided, trade>>

\* The full scan replaces the candidates and the watched legs; the cache stays.
Rediscover ==
    /\ pc = "tick" /\ tick < Ticks /\ Due
    /\ pc' = "start"
    /\ universe' = Discovered(price)
    /\ watched' = WatchAll(universe')
    /\ lastFound' = now
    /\ UNCHANGED <<market, tick, quotes, pending, decided, trade>>

\* refresh_all: every book of the watched legs is asked for at once.
StartRefresh ==
    /\ pc = "start"
    /\ pc' = "fetch" /\ started' = now
    /\ toFetch' = {Target(l) : l \in watched}
    /\ UNCHANGED <<market, tick, found, cache, completed, pending, decided, trade>>

\* quote_age_ms is stamped 0, and quote_timestamp the start of the refresh.
Quote(ask) == [ask |-> ask, at |-> started]

Answered(target) == {l \in watched : Target(l) = target}

\* Mutant: a missing ask is read as 0.
StoreMissingAsZero(legs, ok) ==
    [l \in DOMAIN cache \cup legs |->
        IF l \in legs THEN Quote(IF ok THEN price[Token(l)] ELSE 0) ELSE cache[l]]

\* Mutant: a leg whose fetch fails keeps its last quote.
StoreSuccess(legs, ok) ==
    IF ok THEN [l \in DOMAIN cache \cup legs |->
                   IF l \in legs THEN Quote(price[Token(l)]) ELSE cache[l]]
          ELSE cache

\* Each watched leg gets a quote, without an ask if the fetch failed.
Store(legs, ok) ==
    [l \in DOMAIN cache \cup legs |->
        IF l \in legs THEN Quote(IF ok THEN price[Token(l)] ELSE NoAsk) ELSE cache[l]]

\* A worker's fetch of one book returns; the fetches run in any order.
Fetch(target) ==
    /\ pc = "fetch" /\ target \in toFetch
    /\ \E ok \in BOOLEAN : cache' = Store(Answered(target), ok)
    /\ toFetch' = toFetch \ {target}
    /\ UNCHANGED <<market, pc, tick, found, started, completed, pending, decided, trade>>

\* Every future has a result: the candidates are judged.
EndRefresh ==
    /\ pc = "fetch" /\ toFetch = {}
    /\ pc' = "evaluate" /\ completed' = now
    /\ pending' = DOMAIN universe
    /\ UNCHANGED <<market, tick, found, cache, toFetch, started, decided, trade>>

AllQuoted(b) == \A l \in b : l \in DOMAIN cache /\ cache[l].ask # NoAsk

CachedAsks(b) == [l \in b |-> cache[l].ask]

\* Mutant: the edge is judged by the asks of the discovery.
QualifiesAtDiscovery(b) ==
    AllQuoted(b) /\ Edge(b, universe[b]) >= MinEdge
                 /\ EdgeAtLimits(b, universe[b]) >= MinEdge

\* _recompute_edge_from_cache and the condition of the evaluation loop.
Qualifies(b) ==
    AllQuoted(b) /\ Edge(b, CachedAsks(b)) >= MinEdge
                 /\ EdgeAtLimits(b, CachedAsks(b)) >= MinEdge

Skip(b) ==
    /\ pc = "evaluate" /\ b \in pending
    /\ ~Qualifies(b)
    /\ pending' = pending \ {b}
    /\ UNCHANGED <<market, pc, tick, found, quotes, decided, trade>>

\* hard_blockers, which the scout gave to the row: the basket was not worth its price when
\* it was found.
Blocked(b) == Edge(b, universe[b]) <= 0

\* Mutant: the age of the decision is not looked at.
GatesWithoutAge(b) == ~killFile /\ ~Blocked(b)

\* _fast_gates, as far as they change: the kill file, the decision's age and the blockers
\* of the candidate.
Gates(b) == ~killFile /\ now - completed <= MaxDecisionAge /\ ~Blocked(b)

\* The orders sent are those of a plan built from the basket as it was found.
LimitsOf(b) == [l \in b |-> MaxLimitPrice(universe[b][l])]

DecideToTrade(b) ==
    /\ pc = "evaluate" /\ b \in pending
    /\ Qualifies(b) /\ Gates(b)
    /\ pc' = "execute"
    /\ trade' = [basket |-> b, limits |-> LimitsOf(b), at |-> now]
    /\ pending' = pending \ {b} /\ decided' = decided \cup {b}
    /\ UNCHANGED <<market, tick, found, quotes>>

\* A decision that names its reasons not to trade.
DecideNotToTrade(b) ==
    /\ pc = "evaluate" /\ b \in pending
    /\ Qualifies(b) /\ ~Gates(b)
    /\ pending' = pending \ {b} /\ decided' = decided \cup {b}
    /\ UNCHANGED <<market, pc, tick, found, quotes, trade>>

\* _execute_with_journal returns; the loop goes on with the next candidate.
Executed ==
    /\ pc = "execute"
    /\ pc' = "evaluate" /\ trade' = <<>>
    /\ UNCHANGED <<market, tick, found, quotes, pending, decided>>

EndTick ==
    /\ pc = "evaluate" /\ pending = {}
    /\ pc' = "tick" /\ tick' = tick + 1 /\ decided' = {}
    /\ UNCHANGED <<market, found, quotes, pending, trade>>

Loop ==
    \/ KeepUniverse \/ Rediscover \/ StartRefresh \/ EndRefresh \/ Executed \/ EndTick
    \/ \E target \in toFetch : Fetch(target)
    \/ \E b \in pending : Skip(b) \/ DecideToTrade(b) \/ DecideNotToTrade(b)

-------------------------------------------------------------------------------
(***************************************************************************)
(* The world: prices, the clock and the operator.                          *)
(***************************************************************************)

Drift(x) ==
    /\ \E p \in Prices : price' = [price EXCEPT ![x] = p]
    /\ UNCHANGED <<now, killFile, pc, tick, found, quotes, pending, decided, trade>>

Pass ==
    /\ now < MaxTime
    /\ now' = now + 1
    /\ UNCHANGED <<price, killFile, pc, tick, found, quotes, pending, decided, trade>>

OperatorTogglesKill ==
    /\ killFile' = ~killFile
    /\ UNCHANGED <<price, now, pc, tick, found, quotes, pending, decided, trade>>

Next == Loop \/ (\E x \in Instruments : Drift(x)) \/ Pass \/ OperatorTogglesKill

Spec == Init /\ [][Next]_vars

-------------------------------------------------------------------------------
(***************************************************************************)
(* Properties.                                                             *)
(***************************************************************************)

TypeOK ==
    /\ price \in [Instruments -> Prices]
    /\ {now, tick, started, completed, lastFound} \subseteq 0..MaxTime \cup 0..Ticks
    /\ pc \in {"tick", "start", "fetch", "evaluate", "execute"}
    /\ DOMAIN universe \subseteq Baskets
    /\ \A b \in DOMAIN universe : universe[b] \in [b -> Prices]
    /\ watched \subseteq Legs /\ DOMAIN cache \subseteq Legs
    /\ \A l \in DOMAIN cache : cache[l] \in [ask : Prices \cup {NoAsk}, at : 0..MaxTime]
    /\ pending \cup decided \subseteq DOMAIN universe
    /\ pc = "execute" => trade.basket \in decided

\* Whatever is executed was judged by quotes of its own tick, one for every leg,
\* and decided in time: although the cache outlives ticks and discoveries, fetches
\* fail, and the executions before it in the same tick take as long as they like
\* ("no order if decision_age_ms > max_decision_age_ms").
QuotesOfThisTick ==
    pc = "execute" =>
        /\ \A l \in trade.basket : cache[l].ask # NoAsk /\ cache[l].at = started
        /\ trade.at - completed <= MaxDecisionAge

\* Either every candidate can be priced or none can: no candidate stays in the
\* universe with some of its legs unwatched next to one that is watched whole.
UniverseIsWatched ==
    (\E b \in DOMAIN universe : b \subseteq watched) =>
        \A b \in DOMAIN universe : b \subseteq watched

\* "the instant edge >= min": when a tick ends, each candidate that still has, at
\* the venues, the asks it was quoted in this tick, and an edge at them, was decided
\* on in this tick, whatever it was worth when it was found.
EdgeIsDecided ==
    (pc = "evaluate" /\ pending = {}) =>
        \A b \in DOMAIN universe :
            /\ \A l \in b : l \in DOMAIN cache /\ cache[l] = Quote(price[l])
            /\ EdgeAtLimits(b, [l \in b |-> price[l]]) >= MinEdge
            => b \in decided

\* "recompute net edge from the quote cache; the instant edge >= min, build
\* protected limit BUY intents": the orders sent keep the minimum edge at their
\* limits.  The plan that sends them is built from the asks of the discovery.
LiveOrdersKeepEdge ==
    pc = "execute" =>
        MapThenSumSet(LAMBDA l : trade.limits[l] + Fee, trade.basket)
          <= MinPayoff - MinEdge

\* "maps each leg to its quote": the instruments quoted and ordered for a basket
\* are the legs of that basket.
OrdersBuyTheBasket ==
    pc = "execute" => {Token(l) : l \in trade.basket} = trade.basket
================================================================================
