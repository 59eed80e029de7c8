---------------------------- MODULE PaperMarketMaker ----------------------------
(***************************************************************************)
(* The paper market maker of kalshi-weather-edge                           *)
(* (live/paper_market_maker.py) for one market and side: each pass settles *)
(* the open paper quotes against the recorded trade prints and may open    *)
(* one more quote.  A basket (live/paper_market_making_basket.py) makes    *)
(* such a pass for each of its targets and selects them anew now and then; *)
(* the model follows one target, and a maker of one market is a basket     *)
(* that never selects again.                                               *)
(*                                                                         *)
(* The recorder is another process: the market trades, and a print is      *)
(* stored some time later.  Passes take time, and the maker may die        *)
(* between any two of its transactions and be started again.               *)
(*                                                                         *)
(* Time is counted in ticks, Second of them a second, because timestamps   *)
(* are compared as text: those of the rows carry fractions, those of the   *)
(* query end at the second.  Marks and future edges, which no decision     *)
(* reads, are left out, and so is dry_run.                                 *)
(***************************************************************************)
EXTENDS Integers, Sequences, FiniteSets, FiniteSetsExt

CONSTANTS
    Books,        \* books of this side the recorder may store
    PrintPrices,  \* prices of trade prints, for this side
    Second,       \* ticks of a second
    TTL,          \* quote_ttl_seconds, in ticks
    Stale,        \* stale_orderbook_seconds, in ticks
    Improve,      \* improve_cents
    MinSpread,    \* min_spread_cents
    MinDepth,     \* min_depth
    MaxPosition,  \* max_position in quotes of quantity
    MaxOpen,      \* max_open_quotes
    MaxTime, MaxPrints, MaxQuotes, MaxCrashes   \* bounds

Book == [bid : Nat, ask : Nat, depth : Nat, open : BOOLEAN]

ASSUME BooksAssumption == Books \subseteq Book /\ PrintPrices \subseteq Nat
ASSUME TimesAssumption ==
    /\ Second \in Nat \ {0}
    /\ {TTL, Stale} \subseteq Nat
    /\ TTL % Second = 0 /\ Stale % Second = 0   \* whole seconds
ASSUME QuoteAssumption ==
    {Improve, MinSpread, MinDepth, MaxPosition, MaxOpen} \subseteq Nat
ASSUME BoundsAssumption == {MaxTime, MaxPrints, MaxQuotes, MaxCrashes} \subseteq Nat

NoPrint == 0
NotYet == -1

VARIABLES
    now,      \* the clock
    latest,   \* the last orderbook_snapshots_live row, <<>> before the first
    tape,     \* trades of the market, in order; stored is when a print was recorded
    quotes,   \* paper_market_making_quotes, by id
    events,   \* paper_orders: fill_status and quote id of each row
    target,   \* the market and side are among the basket's targets
    pc,       \* where the maker stands
    clock,    \* the time its pass began, 0 between passes
    todo,     \* open quotes the pass has still to look at
    pending,  \* the quote whose event is still to be written
    crashes   \* times it died

world == <<now, latest, tape>>
maker == <<target, pc, clock, todo, pending>>
vars  == <<world, quotes, events, maker, crashes>>

TradePrint == [at : 0..MaxTime, price : PrintPrices, stored : {NotYet} \cup 0..MaxTime]

Quote == [at     : 0..MaxTime,
          limit  : Nat,
          status : {"OPEN", "FILLED", "CANCELLED"},
          by     : 0..MaxPrints,
          done   : {NotYet} \cup 0..MaxTime]

OpenQuotes == {i \in DOMAIN quotes : quotes[i].status = "OPEN"}
FilledQuotes == {i \in DOMAIN quotes : quotes[i].status = "FILLED"}

Init ==
    /\ now = 0 /\ latest = <<>> /\ tape = <<>>
    /\ quotes = <<>> /\ events = {}
    /\ target = TRUE /\ pc = "idle" /\ clock = 0 /\ todo = {} /\ pending = 0
    /\ crashes = 0

-------------------------------------------------------------------------------
(***************************************************************************)
(* A pass.                                                                 *)
(***************************************************************************)

\* Mutant: a maker that is started again does not know the quotes of before.
BeginAfresh ==
    /\ pc = "idle" /\ target
    /\ pc' = "refresh" /\ clock' = now
    /\ todo' = IF crashes = 0 THEN OpenQuotes ELSE {}
    /\ UNCHANGED <<world, quotes, events, target, pending, crashes>>

\* run_once reads the clock once and the open quotes once.
Begin ==
    /\ pc = "idle" /\ target
    /\ pc' = "refresh" /\ clock' = now /\ todo' = OpenQuotes
    /\ UNCHANGED <<world, quotes, events, target, pending, crashes>>

ExpiresAt(q) == q.at + TTL

\* A time cut to the second.
Cut(t) == t \div Second

\* Mutant: the search does not end with the life of the quote.
WindowUntilNow(q) ==
    {i \in DOMAIN tape : /\ Cut(tape[i].at) >= Cut(q.at)
                         /\ Cut(tape[i].at) < Cut(clock)}

\* "ts > quote_time AND ts <= not_after", as text.  A row's time has fractions and
\* so comes after its own second: prints of the quote's second are in, prints of
\* the last second are out.
Window(q) ==
    {i \in DOMAIN tape : /\ Cut(tape[i].at) >= Cut(q.at)
                         /\ Cut(tape[i].at) < Cut(Min({clock, ExpiresAt(q)}))}

\* The recorded prints that fill a quote.
Hits(q) == {i \in Window(q) : tape[i].stored # NotYet /\ tape[i].price <= q.limit}

Oldest == Min(todo)   \* ORDER BY quote_time

Expired(q) == clock - q.at >= TTL

\* Mutant: the life of a quote is looked at before the prints.
CancelExpired ==
    /\ pc = "refresh" /\ todo # {}
    /\ Expired(quotes[Oldest])
    /\ quotes' = [quotes EXCEPT ![Oldest].status = "CANCELLED", ![Oldest].done = clock]
    /\ todo' = todo \ {Oldest}
    /\ UNCHANGED <<world, events, target, pc, clock, pending, crashes>>

\* Mutant: a fill is followed by the rest of the loop body.
FillWithoutContinue ==
    /\ pc = "refresh" /\ todo # {}
    /\ Hits(quotes[Oldest]) # {}
    /\ quotes' = [quotes EXCEPT ![Oldest].status = "FILLED", ![Oldest].done = clock,
                                ![Oldest].by = Min(Hits(quotes[Oldest]))]
    /\ pc' = "fillEvent" /\ pending' = Oldest
    /\ UNCHANGED <<world, events, target, clock, todo, crashes>>

\* Mutant: a fill writes no event.
FillQuietly ==
    /\ pc = "refresh" /\ todo # {}
    /\ Hits(quotes[Oldest]) # {}
    /\ quotes' = [quotes EXCEPT ![Oldest].status = "FILLED", ![Oldest].done = clock,
                                ![Oldest].by = Min(Hits(quotes[Oldest]))]
    /\ todo' = todo \ {Oldest}
    /\ UNCHANGED <<world, events, target, pc, clock, pending, crashes>>

\* The first print that hits fills the quote at its limit.
FillQuote ==
    /\ pc = "refresh" /\ todo # {}
    /\ Hits(quotes[Oldest]) # {}
    /\ quotes' = [quotes EXCEPT ![Oldest].status = "FILLED", ![Oldest].done = clock,
                                ![Oldest].by = Min(Hits(quotes[Oldest]))]
    /\ pc' = "fillEvent" /\ pending' = Oldest
    /\ todo' = todo \ {Oldest}
    /\ UNCHANGED <<world, events, target, clock, crashes>>

FillEvent ==
    /\ pc = "fillEvent"
    /\ events' = events \cup {<<"filled_paper", pending>>}
    /\ pc' = "refresh" /\ pending' = 0
    /\ UNCHANGED <<world, quotes, target, clock, todo, crashes>>

\* No print, and its time is over.
CancelQuote ==
    /\ pc = "refresh" /\ todo # {}
    /\ Hits(quotes[Oldest]) = {} /\ Expired(quotes[Oldest])
    /\ quotes' = [quotes EXCEPT ![Oldest].status = "CANCELLED", ![Oldest].done = clock]
    /\ todo' = todo \ {Oldest}
    /\ UNCHANGED <<world, events, target, pc, clock, pending, crashes>>

KeepQuote ==
    /\ pc = "refresh" /\ todo # {}
    /\ Hits(quotes[Oldest]) = {} /\ ~Expired(quotes[Oldest])
    /\ todo' = todo \ {Oldest}
    /\ UNCHANGED <<world, quotes, events, target, pc, clock, pending, crashes>>

LimitPrice(book) == Min({book.ask - 1, book.bid + Improve})

\* The conditions on the book; the basket's selector has the same.
QuotableAt(time) ==
    /\ latest # <<>>
    /\ time - latest.at <= Stale
    /\ latest.open
    /\ latest.ask - latest.bid >= MinSpread
    /\ latest.depth >= MinDepth
    /\ LimitPrice(latest) > 0 /\ LimitPrice(latest) < latest.ask

Quotable == QuotableAt(clock)

\* Mutant: the open quotes are not counted.
RoomByPosition == Cardinality(FilledQuotes) + 1 <= MaxPosition

\* The limits on open quotes and on inventory, which counts filled quotes.
Room ==
    /\ Cardinality(OpenQuotes) < MaxOpen
    /\ Cardinality(FilledQuotes) + 1 <= MaxPosition

\* The quote is dated by the beginning of the pass, not by the book.
OpenQuote ==
    /\ pc = "refresh" /\ todo = {}
    /\ Quotable /\ Room
    /\ Len(quotes) < MaxQuotes
    /\ quotes' = Append(quotes, [at |-> clock, limit |-> LimitPrice(latest),
                                 status |-> "OPEN", by |-> NoPrint, done |-> NotYet])
    /\ pc' = "quoteEvent" /\ pending' = Len(quotes')
    /\ UNCHANGED <<world, events, target, clock, todo, crashes>>

QuoteEvent ==
    /\ pc = "quoteEvent"
    /\ events' = events \cup {<<"submitted_paper_no_fill", pending>>}
    /\ pc' = "idle" /\ pending' = 0 /\ clock' = 0
    /\ UNCHANGED <<world, quotes, target, todo, crashes>>

\* At MaxQuotes the model stops quoting.
NoQuote ==
    /\ pc = "refresh" /\ todo = {}
    /\ ~(Quotable /\ Room) \/ Len(quotes) = MaxQuotes
    /\ pc' = "idle" /\ clock' = 0
    /\ UNCHANGED <<world, quotes, events, target, todo, pending, crashes>>

\* _select_targets: without a setup in the current book it is no target; with one, that
\* depends on replays and on the other markets.
Select ==
    /\ pc = "idle"
    /\ target' \in {FALSE, QuotableAt(now)}
    /\ UNCHANGED <<world, quotes, events, pc, clock, todo, pending, crashes>>

Maker == \/ Begin \/ FillQuote \/ FillEvent \/ CancelQuote \/ KeepQuote
         \/ OpenQuote \/ QuoteEvent \/ NoQuote

\* The process dies between two transactions and is started again.
Crash ==
    /\ pc # "idle" /\ crashes < MaxCrashes
    /\ crashes' = crashes + 1
    /\ pc' = "idle" /\ todo' = {} /\ pending' = 0 /\ clock' = 0
    /\ UNCHANGED <<world, quotes, events, target>>

-------------------------------------------------------------------------------
(***************************************************************************)
(* The market and the recorder.                                            *)
(***************************************************************************)

Pass ==
    /\ now < MaxTime
    /\ now' = now + 1
    /\ UNCHANGED <<latest, tape, quotes, events, maker, crashes>>

Trade ==
    /\ Len(tape) < MaxPrints
    /\ \E p \in PrintPrices :
          tape' = Append(tape, [at |-> now, price |-> p, stored |-> NotYet])
    /\ UNCHANGED <<now, latest, quotes, events, maker, crashes>>

StorePrint(i) ==
    /\ tape[i].stored = NotYet
    /\ tape' = [tape EXCEPT ![i].stored = now]
    /\ UNCHANGED <<now, latest, quotes, events, maker, crashes>>

StoreBook ==
    /\ \E b \in Books :
          latest' = [bid |-> b.bid, ask |-> b.ask, depth |-> b.depth, open |-> b.open,
                     at |-> now]
    /\ UNCHANGED <<now, tape, quotes, events, maker, crashes>>

Recorder == Trade \/ StoreBook \/ \E i \in DOMAIN tape : StorePrint(i)

Next == Maker \/ Select \/ Crash \/ Pass \/ Recorder

\* The maker's loop goes on, is started again when it died, and time passes.
Spec == Init /\ [][Next]_vars /\ WF_vars(Maker) /\ WF_vars(Pass)

-------------------------------------------------------------------------------
(***************************************************************************)
(* Properties.                                                             *)
(***************************************************************************)

TypeOK ==
    /\ {now, clock} \subseteq 0..MaxTime /\ crashes \in 0..MaxCrashes
    /\ latest # <<>> => latest.at \in 0..MaxTime
    /\ tape \in Seq(TradePrint) /\ quotes \in Seq(Quote)
    /\ events \subseteq {"filled_paper", "submitted_paper_no_fill"} \X DOMAIN quotes
    /\ pc \in {"idle", "refresh", "fillEvent", "quoteEvent"}
    /\ target \in BOOLEAN /\ todo \subseteq OpenQuotes /\ pending \in {0} \cup DOMAIN quotes

\* Open quotes fill beyond max_position, for the limit counts what is filled only,
\* but by no more than the other quotes that may be open with one.
PositionBounded ==
    /\ Cardinality(OpenQuotes) <= MaxOpen
    /\ MaxOpen > 0 => Cardinality(FilledQuotes) <= MaxPosition + MaxOpen - 1

\* Which prints fill a quote, although passes take time and prints are stored late: only
\* recorded ones "before the quote TTL and before the current paper run time", none before
\* the second it was quoted in, and none above its limit, so that a fill never books the
\* contracts cheaper than the market traded them.  A print at the limit fills too: that
\* is what the code does (price <= limit), and less than "trade through the paper limit"
\* (docs/DATA_REALITY.md:22, the docstring of PaperMarketMaker), which takes a quote that
\* was only touched for no fill.  The property does not say which of the two is right.
FilledInItsLife ==
    \A i \in FilledQuotes :
        LET q == quotes[i]
            p == tape[q.by]
        IN  /\ p.at < ExpiresAt(q) /\ p.at < q.done /\ p.stored # NotYet
            /\ p.at > q.at - Second /\ p.price <= q.limit

\* A quote is cancelled only if no print that was stored before that pass filled it
\* in the whole seconds of its life.
CancelledUnfilled ==
    \A i \in DOMAIN quotes : quotes[i].status = "CANCELLED" =>
        ~\E k \in DOMAIN tape :
            /\ tape[k].stored \in 0..(quotes[i].done - 1)
            /\ Cut(tape[k].at) \in Cut(quotes[i].at)..(Cut(ExpiresAt(quotes[i])) - 1)
            /\ tape[k].price <= quotes[i].limit

\* The event log tells nothing that the quotes do not, and misses something only
\* where the maker died between the two transactions.
EventsFollowQuotes ==
    LET missing == {i \in DOMAIN quotes : <<"submitted_paper_no_fill", i>> \notin events}
        untold  == {i \in FilledQuotes : <<"filled_paper", i>> \notin events}
        writing == IF pending = 0 THEN 0 ELSE 1
    IN  /\ \A i \in DOMAIN quotes : <<"filled_paper", i>> \in events => i \in FilledQuotes
        /\ Cardinality(missing) + Cardinality(untold) <= crashes + writing

\* In the end no quote is open whose life is over (the bound on time cuts off the life of
\* some), whether or not a print comes, the maker dies, the book goes away or its target
\* was dropped meanwhile, unless its target is dropped again and again or for good.
QuotesSettle ==
    <>[]target => <>[](\A i \in OpenQuotes : ExpiresAt(quotes[i]) > MaxTime)
===============================================================================
