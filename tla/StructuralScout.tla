----------------------------- MODULE StructuralScout -----------------------------
(***************************************************************************)
(* The structural payoff scout (crypto_structural_payoff_arb_scout.py) on  *)
(* the rows of crypto_interval_evidence_collector.py: one asset, one       *)
(* settlement instant.  Contracts become sets of price states in which     *)
(* they pay; bought together, contracts that pay in every state for less   *)
(* than a dollar are a candidate.  Then the price sources settle.          *)
(*                                                                         *)
(* Prices are integers, a cent is Grain of them, so a strike may be finer  *)
(* than a cent.  Left out: rows that do not cover every state or cost a    *)
(* dollar or more (G4 and G5, samples of near misses, barrier rows: never  *)
(* paper candidates), sets of contracts with the payoff of another set     *)
(* (G3: a paper candidate only if the cheaper set covers alone for less    *)
(* than a dollar, which G1 offers as well), sizes, and the fee formulas: a *)
(* fee per platform stands for them.                                       *)
(***************************************************************************)
EXTENDS Integers, FiniteSets, FiniteSetsExt

CONSTANTS
    Groups,   \* contracts of one instant: Kalshi's, then Polymarket's, then CDNA's
    Quotes,   \* quotes a contract may have
    Options,  \* risk mode, CDNA accepted, size cap in place of depth
    Prices,   \* what a source may show when the contracts settle
    Bottom, Top,    \* below and above all prices: no floor, no cap
    Grain, Whole,   \* a cent and a dollar of the underlying
    Fee,            \* per contract, by platform
    Buffer,         \* basis_buffer_edge
    MaxBasketLegs,
    One             \* what a winning contract pays

None == -1

Shapes == {"above", "below", "range", "up"}

\* An "up" contract compares the price with the one at the start of its window; what
\* its source showed there is its strike, which the scout never sees.
\* Kalshi gives a threshold its floor or its cap too; a range takes its cap (or its
\* floor) for its strike.
Contract ==
    [platform : {"kalshi", "polymarket", "cdna"}, source : STRING, shape : Shapes,
     strike : Int, floor : Int, cap : Int, atStrike : BOOLEAN, window : Int]

WellFormed(k) ==
    /\ k \in Contract
    /\ Bottom < k.strike /\ k.strike < Top
    /\ k.shape = "above" => k.floor \in {Bottom, k.strike} /\ k.cap = Top
    /\ k.shape = "below" => k.cap \in {Top, k.strike} /\ k.floor = Bottom
    /\ k.shape = "range" => k.floor < k.cap /\ Bottom <= k.floor /\ k.cap <= Top

ASSUME GroupsAssumption ==
    \A g \in Groups : /\ DOMAIN g \subseteq Nat
                      /\ \A c \in DOMAIN g : WellFormed(g[c])
ASSUME PricesAssumption ==
    /\ {Bottom, Top} \subseteq Int
    /\ Prices \subseteq Int
    /\ \A p \in Prices : Bottom < p /\ p < Top
    /\ {Grain, Whole, One} \subseteq Nat \ {0}
ASSUME CostsAssumption ==
    /\ \A q \in Quotes : {q.yesAsk, q.noAsk} \subseteq Nat \cup {None}
    /\ Fee \in [{"kalshi", "polymarket", "cdna"} -> Nat]
    /\ {Buffer, MaxBasketLegs} \subseteq Nat

VARIABLES
    group,    \* the rows of the asset and the instant
    quote,    \* the quote of each
    options,  \* _Opts
    rows,     \* candidates of the report
    price,    \* what each source shows at the instant
    phase     \* "loaded", "scanned", "settled"

vars == <<group, quote, options, rows, price, phase>>

Contracts == DOMAIN group
Sources   == {group[c].source : c \in Contracts}

Init ==
    /\ group \in Groups
    /\ quote \in [Contracts -> Quotes]
    /\ options \in Options
    /\ rows = {}
    /\ price = <<>>
    /\ phase = "loaded"

-------------------------------------------------------------------------------
(***************************************************************************)
(* The state grid.                                                         *)
(***************************************************************************)

\* _round_strike: a strike of 99 cents becomes the next dollar, others are rounded
\* to a cent.
Rounded(x) ==
    LET shown == IF (x + Grain) % Whole = 0 THEN x + Grain ELSE x
    IN ((2 * shown + Grain) \div (2 * Grain)) * Grain

\* Rows of the collector are rounded; rows of the CDNA snapshot, which have a source
\* of their own, are taken as they are.
Strike(k) == IF k.source = "cdna_display" THEN k.strike ELSE Rounded(k.strike)

Terminal == {c \in Contracts : group[c].shape # "up"}

\* Mutant: the strikes are no boundaries of states.
BoundariesOfBuckets ==
    (UNION {{group[c].floor, group[c].cap} : c \in Terminal}) \ {Bottom, Top}

Boundaries ==
    (UNION {{Strike(group[c]), group[c].floor, group[c].cap} : c \in Terminal}) \ {Bottom, Top}

\* A state <<low, high>> is the prices from low up to high, without high.
States ==
    {s \in (Boundaries \cup {Bottom}) \X (Boundaries \cup {Top}) :
        s[1] < s[2] /\ \A b \in Boundaries : b <= s[1] \/ s[2] <= b}

Above(x) == {s \in States : x <= s[1]}

AtOrBelow(x) == {s \in States : s[2] <= x}

Bucket(k)    == {s \in States : k.floor <= s[1] /\ s[2] <= k.cap}

YesPays(k) ==
    CASE k.shape = "range" -> Bucket(k)
      [] k.shape = "above" -> Above(Strike(k))
      [] k.shape = "below" -> AtOrBelow(Strike(k))

Pays(k, side) == IF side = "YES" THEN YesPays(k) ELSE States \ YesPays(k)

-------------------------------------------------------------------------------
(***************************************************************************)
(* Legs and instruments.                                                   *)
(***************************************************************************)

AcceptsBasis == options.mode \in {"standard", "aggressive"}

\* _side_ask_with_complement
Leg(c, side, complement) ==
    LET direct == IF side = "YES" THEN quote[c].yesAsk ELSE quote[c].noAsk
        bid    == IF side = "YES" THEN quote[c].noBid ELSE quote[c].yesBid
        derive == direct = None /\ complement /\ bid # None
    IN [c |-> c, side |-> side, derived |-> derive,
        ask |-> IF derive THEN One - bid ELSE direct]

Cdna(legs) == \E leg \in legs : group[leg.c].platform = "cdna"

\* Mutant: a basket never counts as one of several sources.
OneSource(legs) == FALSE

CrossSource(legs) == \E l, m \in legs : group[l.c].source # group[m.c].source

Priced(legs) == \A leg \in legs : leg.ask # None

Cost(legs) == MapThenSumSet(LAMBDA leg : leg.ask + Fee[group[leg.c].platform], legs)

Cheap(legs) == Priced(legs) /\ Cost(legs) < One

\* _make_leg: a stale quote and a quote without a size block.
Blocked(legs) ==
    \E leg \in legs :
       \/ ~quote[leg.c].fresh
       \/ ~quote[leg.c].sized /\ group[leg.c].platform # "cdna" /\ ~options.anyDepth

BaseInstruments ==
    {[legs |-> {Leg(c, side, AcceptsBasis)}, pays |-> Pays(group[c], side), synthetic |-> FALSE] :
        c \in Terminal, side \in {"YES", "NO"}}

\* Every Kalshi row with a floor or a cap.
Buckets == {c \in Terminal : /\ group[c].platform = "kalshi"
                             /\ group[c].floor # Bottom \/ group[c].cap # Top}

\* _bucket_legs_for_predicate
BucketsAbove(x)    == {c \in Buckets : group[c].floor # Bottom /\ x <= group[c].floor}
BucketsNotAbove(x) == {c \in Buckets : group[c].cap # Top /\ group[c].cap <= x}

CoveredBy(B) == UNION {Bucket(group[c]) : c \in B}

PartnerStrikes ==
    {Strike(group[c]) : c \in {d \in Terminal : group[d].platform # "kalshi" /\ group[d].shape # "range"}}

\* Sets of buckets that pay like a threshold of a partner, or whatever happens.
Syntheses ==
    {B \in {Buckets} : CoveredBy(B) = States}
        \cup {BucketsAbove(x) : x \in {y \in PartnerStrikes : CoveredBy(BucketsAbove(y)) = Above(y)}}
        \cup {BucketsNotAbove(x) : x \in {y \in PartnerStrikes : CoveredBy(BucketsNotAbove(y)) = AtOrBelow(y)}}

SyntheticInstruments ==
    {[legs |-> {Leg(c, "YES", FALSE) : c \in B}, pays |-> CoveredBy(B), synthetic |-> TRUE] :
        B \in {S \in Syntheses : S # {} /\ Cardinality(S) <= MaxBasketLegs}}

Instruments == BaseInstruments \cup SyntheticInstruments

-------------------------------------------------------------------------------
(***************************************************************************)
(* Candidates.                                                             *)
(***************************************************************************)

Adjusted(legs, cost, cross) == One - cost - (IF cross THEN Buffer ELSE 0)

\* _candidate_row: what is said of a basket that pays in every state.
BasketRow(type, legs, cost) ==
    LET cross        == CrossSource(legs)
        acceptedCdna == options.acceptCdna /\ AcceptsBasis
        paper == /\ Adjusted(legs, cost, cross) > 0
                 /\ ~Blocked(legs)
                 /\ Cdna(legs) => acceptedCdna
                 /\ cross => AcceptsBasis
    IN [type |-> type, legs |-> legs, cost |-> cost, paper |-> paper,
        class |-> CASE ~paper -> "none"
                    [] paper /\ Cdna(legs) -> "cdna"
                    [] paper /\ ~Cdna(legs) /\ (cross \/ \E leg \in legs : leg.derived) -> "operator"
                    [] OTHER -> "strict"]

BasketType(i, j) ==
    LET legs == i.legs \cup j.legs
    IN IF i.synthetic \/ j.synthetic THEN "bucket"
       ELSE IF /\ \A leg \in legs : group[leg.c].shape # "range"
               /\ \E l \in i.legs, m \in j.legs : group[l.c].platform # group[m.c].platform
            THEN "cross_venue" ELSE "long_only"

\* Two instruments that pay in every state for less than One.
Cover(i, j) ==
    /\ i # j /\ i.pays \cup j.pays = States
    /\ Cardinality(i.legs) + Cardinality(j.legs) <= MaxBasketLegs
    /\ Priced(i.legs \cup j.legs) /\ Cost(i.legs) + Cost(j.legs) < One

\* G1 and G2: an instrument that covers alone, and pairs.
BasketRows ==
    LET alone == {i \in Instruments : i.pays = States /\ Cheap(i.legs)}
        pairs == {p \in Instruments \X Instruments : Cover(p[1], p[2])}
    IN {BasketRow("long_only", i.legs, Cost(i.legs)) : i \in alone}
          \cup {BasketRow(BasketType(p[1], p[2]), p[1].legs \cup p[2].legs,
                          Cost(p[1].legs) + Cost(p[2].legs)) : p \in pairs}

\* Mutant: the legs of a cover are taken the wrong way round.
CoverLegsSwapped(lo, hi) == {Leg(lo, "NO", TRUE), Leg(hi, "YES", FALSE)}

CoverLegs(lo, hi) == {Leg(lo, "YES", FALSE), Leg(hi, "NO", TRUE)}

CrossVenue(legs) ==
    \/ CrossSource(legs)
    \/ \E l, m \in legs : group[l.c].platform # group[m.c].platform

\* _build_mono_cover
CoverRow(legs) ==
    LET cross == CrossVenue(legs)
        paper == /\ options.mode = "aggressive"
                 /\ Adjusted(legs, Cost(legs), cross) > 0
                 /\ ~Blocked(legs)
    IN [type |-> "cover", legs |-> legs, cost |-> Cost(legs), paper |-> paper,
        class |-> CASE ~paper -> "none"
                    [] paper /\ cross -> "operator"
                    [] OTHER -> "strict"]

\* G6: YES above a lower strike with NO above a higher one.
CoverRows ==
    LET thresholds == {c \in Terminal : group[c].shape = "above"}
        ladder == {p \in thresholds \X thresholds : Strike(group[p[1]]) < Strike(group[p[2]])}
        covers == {CoverLegs(p[1], p[2]) : p \in ladder}
    IN {CoverRow(legs) : legs \in {l \in covers : Cheap(l)}}

\* _updown_candidates: YES of the earlier row with NO of the later one.
UpDownLegs(a, b) == {Leg(a, "YES", AcceptsBasis), Leg(b, "NO", AcceptsBasis)}

UpDownRow(legs) ==
    LET paper == Adjusted(legs, Cost(legs), CrossSource(legs)) > 0 /\ ~Blocked(legs)
    IN [type |-> "up_down", legs |-> legs, cost |-> Cost(legs), paper |-> paper,
        class |-> IF paper THEN "operator" ELSE "none"]

UpDownRows ==
    LET ups == Contracts \ Terminal
        windows == {p \in ups \X ups :
                      /\ p[1] < p[2]
                      /\ group[p[1]].platform # group[p[2]].platform
                      /\ group[p[1]].window = group[p[2]].window}
        pairs == {UpDownLegs(p[1], p[2]) : p \in windows}
    IN {UpDownRow(legs) : legs \in {l \in pairs : Cheap(l)}}

\* _scan_asset
Scan ==
    /\ phase = "loaded"
    /\ rows' = BasketRows \cup CoverRows \cup UpDownRows
    /\ phase' = "scanned"
    /\ UNCHANGED <<group, quote, options, price>>

\* The instant comes and every source shows a price.
Settle ==
    /\ phase = "scanned"
    /\ price' \in [Sources -> Prices]
    /\ phase' = "settled"
    /\ UNCHANGED <<group, quote, options, rows>>

Next == Scan \/ Settle

Spec == Init /\ [][Next]_vars

-------------------------------------------------------------------------------
(***************************************************************************)
(* What the contracts pay by their own terms.                              *)
(***************************************************************************)

YesWins(k, p) ==
    CASE k.shape = "range"           -> k.floor <= p /\ (p < k.cap \/ (k.atStrike /\ p = k.cap))
      [] k.shape = "below"           -> p < k.strike \/ (k.atStrike /\ p = k.strike)
      [] k.shape \in {"above", "up"} -> k.strike < p \/ (k.atStrike /\ p = k.strike)

LegWins(leg, p) == YesWins(group[leg.c], p) <=> leg.side = "YES"

Wins(leg) == LegWins(leg, price[group[leg.c].source])

\* The price is at no bound of the contract, nor between its strike and the strike
\* it was given.
Clear(k, p) ==
    IF k.shape = "range" THEN p # k.floor /\ p # k.cap
    ELSE IF k.shape = "up" THEN p # k.strike
    ELSE \/ p < k.strike /\ p < Strike(k)
         \/ p > k.strike /\ p > Strike(k)

AllClear(row) == \A leg \in row.legs : Clear(group[leg.c], price[group[leg.c].source])

\* The sources of the legs show the same price, at the start of a window too.
SamePrices(row) ==
    \A l, m \in row.legs :
       /\ price[group[l.c].source] = price[group[m.c].source]
       /\ group[l.c].shape = "up" /\ group[m.c].shape = "up" => group[l.c].strike = group[m.c].strike

Bounds(k) == {k.strike, k.floor, k.cap}

\* Prices are fine enough to tell the bounds of contracts apart: between two of them
\* there is one, and no strike is rounded to an end of all prices.
Resolved ==
    \A g \in Groups : \A c, d \in DOMAIN g :
        /\ Bottom < Strike(g[c]) /\ Strike(g[c]) < Top
        /\ \A x \in Bounds(g[c]) \cup {Bottom}, y \in Bounds(g[d]) \cup {Top} :
              x < y => x + 1 < y

-------------------------------------------------------------------------------
(***************************************************************************)
(* Properties.                                                             *)
(***************************************************************************)

\* Whatever the price, one of the legs of a candidate pays, as long as the sources
\* agree and the price is at no strike and at none that was rounded ("buy-only
\* basket that always pays >= $1").
GuaranteePays ==
    phase = "settled" =>
        \A row \in rows :
           SamePrices(row) /\ AllClear(row) => \E leg \in row.legs : Wins(leg)

\* A candidate classed as strict earns more than it cost, whatever each source
\* shows: its legs need no agreement of sources.
StrictEarns ==
    phase = "settled" =>
        \A row \in {r \in rows : r.class = "strict"} :
           AllClear(row) => row.cost < (IF \E leg \in row.legs : Wins(leg) THEN One ELSE 0)

\* Two sides that by their own terms pay at every price, quoted fresh and with
\* size for less than One, are found and offered.
CheapCoverIsFound ==
    phase = "scanned" =>
        \A c, d \in Terminal : \A side, other \in {"YES", "NO"} :
           LET legs == {Leg(c, side, FALSE), Leg(d, other, FALSE)}
               cross == CrossSource(legs)
           IN /\ c # d \/ side # other
              /\ \A leg \in legs : /\ Strike(group[leg.c]) = group[leg.c].strike
                                   /\ quote[leg.c].fresh /\ quote[leg.c].sized
              /\ Priced(legs) /\ Adjusted(legs, Cost(legs), cross) > 0
              /\ cross \/ Cdna(legs) => AcceptsBasis
              /\ Cdna(legs) => options.acceptCdna
              /\ \A p \in (Bottom + 1)..(Top - 1) :
                    (\A leg \in legs : Clear(group[leg.c], p)) => \E leg \in legs : LegWins(leg, p)
              => \E row \in rows : row.paper /\ row.legs = legs
================================================================================
