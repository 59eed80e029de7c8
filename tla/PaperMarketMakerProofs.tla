------------------------ MODULE PaperMarketMakerProofs ------------------------
(***************************************************************************)
(* Theorems about PaperMarketMaker for any books, limits, times, prints    *)
(* and crashes: the life in which a quote may fill, the position that open *)
(* quotes can build up, and the event log.  Timestamps are compared by     *)
(* their seconds, so the first rests on facts about floor division.        *)
(***************************************************************************)
EXTENDS PaperMarketMaker, FiniteSetTheorems, WellFoundedInduction, TLAPS

StoredBook == [bid : Nat, ask : Nat, depth : Nat, open : BOOLEAN, at : 0..MaxTime]

TypeInv ==
    /\ now \in 0..MaxTime /\ clock \in 0..now
    /\ crashes \in Nat /\ crashes <= MaxCrashes
    /\ latest # <<>> => latest \in StoredBook
    /\ tape \in Seq(TradePrint) /\ Len(tape) <= MaxPrints
    /\ quotes \in Seq(Quote)
    /\ events \subseteq {"filled_paper", "submitted_paper_no_fill"} \X DOMAIN quotes
    /\ pc \in {"idle", "refresh", "fillEvent", "quoteEvent"}
    /\ target \in BOOLEAN
    /\ todo \subseteq OpenQuotes
    /\ pending \in {0} \cup DOMAIN quotes

\* The event that a pass still has to write is not written yet.
PassInv ==
    /\ pc \in {"idle", "refresh"} => pending = 0
    /\ pc = "fillEvent" => /\ pending \in FilledQuotes
                           /\ <<"filled_paper", pending>> \notin events
    /\ pc = "quoteEvent" => /\ pending \in DOMAIN quotes
                            /\ <<"submitted_paper_no_fill", pending>> \notin events

\* Quotes are settled by prints of the tape, and not in the future.
LifeInv ==
    /\ \A i \in DOMAIN quotes : quotes[i].done <= now
    /\ \A i \in FilledQuotes : quotes[i].by \in DOMAIN tape
    /\ FilledInItsLife /\ CancelledUnfilled

\* An open quote counts as if it were filled, except for the one that is opened last.
PositionInv ==
    /\ Cardinality(OpenQuotes) <= MaxOpen
    /\ MaxOpen > 0 =>
          Cardinality(FilledQuotes) + Cardinality(OpenQuotes) <= MaxPosition + MaxOpen - 1

Missing == {i \in DOMAIN quotes : <<"submitted_paper_no_fill", i>> \notin events}
Untold  == {i \in FilledQuotes : <<"filled_paper", i>> \notin events}
Writing == IF pending = 0 THEN 0 ELSE 1

EventInv ==
    /\ \A i \in DOMAIN quotes : <<"filled_paper", i>> \in events => i \in FilledQuotes
    /\ Cardinality(Missing) + Cardinality(Untold) <= crashes + Writing

MakerInv == TypeInv /\ PassInv /\ LifeInv /\ PositionInv /\ EventInv

-------------------------------------------------------------------------------
(***************************************************************************)
(* Seconds, least elements and finite sets.                                *)
(***************************************************************************)

LEMMA FloorOf ==
    ASSUME NEW a \in Nat, NEW s \in Nat \ {0}
    PROVE  a \div s \in Nat /\ (a \div s) * s <= a /\ a < (a \div s) * s + s
OBVIOUS

LEMMA CutIsNat == \A t \in Nat : Cut(t) \in Nat
BY FloorOf, TimesAssumption DEF Cut

\* A time in an earlier second is earlier.
LEMMA CutEarlier ==
    ASSUME NEW a \in Nat, NEW b \in Nat, Cut(a) < Cut(b)
    PROVE  a < b
<1> DEFINE x == a \div Second
           y == b \div Second
<1>1. Second \in Nat \ {0} /\ x < y
  BY TimesAssumption DEF Cut
<1>2. x \in Nat /\ a < x * Second + Second
  BY <1>1, FloorOf
<1>3. y \in Nat /\ y * Second <= b
  BY <1>1, FloorOf
<1> HIDE DEF x, y
<1>4. (x + 1) * Second <= y * Second /\ (x + 1) * Second = x * Second + Second
  BY <1>1, <1>2, <1>3
<1>5. x * Second \in Nat /\ y * Second \in Nat
  BY <1>1, <1>2, <1>3
<1> QED BY <1>1, <1>2, <1>3, <1>4, <1>5

\* A time that is not in an earlier second is less than a second earlier.
LEMMA CutNotEarlier ==
    ASSUME NEW a \in Nat, NEW b \in Nat, Cut(a) >= Cut(b)
    PROVE  a > b - Second
<1> DEFINE x == a \div Second
           y == b \div Second
<1>1. Second \in Nat \ {0} /\ x >= y
  BY TimesAssumption DEF Cut
<1>2. x \in Nat /\ x * Second <= a
  BY <1>1, FloorOf
<1>3. y \in Nat /\ b < y * Second + Second
  BY <1>1, FloorOf
<1> HIDE DEF x, y
<1>4. y * Second <= x * Second
  BY <1>1, <1>2, <1>3
<1>5. x * Second \in Nat /\ y * Second \in Nat
  BY <1>1, <1>2, <1>3
<1> QED BY <1>1, <1>2, <1>3, <1>4, <1>5

LEMMA LeastOf ==
    ASSUME NEW T \in SUBSET Nat, T # {}
    PROVE  Min(T) \in T /\ \A y \in T : Min(T) <= y
<1>1. \E x \in T : \A y \in T : ~ (<<y, x>> \in OpToRel(<, Nat))
  BY NatLessThanWellFounded, WFMin
<1>2. \E x \in T : \A y \in T : ~ (y < x)
  BY <1>1, Zenon DEF OpToRel
<1>3. \E x \in T : \A y \in T : x <= y
  BY <1>2
<1> QED BY <1>3 DEF Min

LEMMA LesserOf ==
    ASSUME NEW a \in Int, NEW b \in Int
    PROVE  /\ Min({a, b}) \in {a, b} /\ Min({a, b}) <= a /\ Min({a, b}) <= b
<1>1. \E x \in {a, b} : \A y \in {a, b} : x <= y
  <2>1. CASE a <= b
    BY <2>1
  <2>2. CASE b <= a
    BY <2>2
  <2> QED BY <2>1, <2>2
<1> QED BY <1>1 DEF Min

LEMMA QuotesFinite ==
    ASSUME quotes \in Seq(Quote)
    PROVE  /\ DOMAIN quotes = 1..Len(quotes) /\ Len(quotes) \in Nat
           /\ \A S \in SUBSET DOMAIN quotes : IsFiniteSet(S) /\ Cardinality(S) \in Nat
           /\ OpenQuotes \subseteq DOMAIN quotes /\ FilledQuotes \subseteq DOMAIN quotes
<1>1. DOMAIN quotes = 1..Len(quotes) /\ Len(quotes) \in Nat
  OBVIOUS
<1>2. IsFiniteSet(DOMAIN quotes)
  BY <1>1, FS_Interval
<1>3. \A S \in SUBSET DOMAIN quotes : IsFiniteSet(S) /\ Cardinality(S) \in Nat
  BY <1>2, FS_Subset, FS_CardinalityType
<1> QED BY <1>1, <1>3 DEF OpenQuotes, FilledQuotes

-------------------------------------------------------------------------------
\* A quote that is settled at a time, by a print or by none.
LEMMA QuoteSettledAt ==
    ASSUME NEW r \in Quote, NEW s \in {"FILLED", "CANCELLED"}, NEW c \in 0..MaxTime,
           NEW k \in 0..MaxPrints
    PROVE  LET q == [r EXCEPT !.status = s, !.done = c, !.by = k]
           IN  /\ q \in Quote /\ q.status = s /\ q.done = c /\ q.by = k
               /\ q.at = r.at /\ q.limit = r.limit
BY DEF Quote

LEMMA QuoteCancelledAt ==
    ASSUME NEW r \in Quote, NEW c \in 0..MaxTime
    PROVE  LET q == [r EXCEPT !.status = "CANCELLED", !.done = c]
           IN  /\ q \in Quote /\ q.status = "CANCELLED" /\ q.done = c
               /\ q.at = r.at /\ q.limit = r.limit
BY DEF Quote

\* The quote that a pass looks at.
LEMMA OldestIsOpen ==
    ASSUME TypeInv, todo # {}
    PROVE  Oldest \in todo /\ Oldest \in OpenQuotes /\ Oldest \in DOMAIN quotes
<1>1. todo \in SUBSET Nat /\ todo \subseteq OpenQuotes /\ OpenQuotes \subseteq DOMAIN quotes
  BY QuotesFinite DEF TypeInv
<1>2. Min(todo) \in todo
  BY <1>1, LeastOf
<1> QED BY <1>1, <1>2 DEF Oldest

\* An open quote is filled or cancelled.
LEMMA Settled ==
    ASSUME TypeInv, NEW o \in OpenQuotes, NEW q \in Quote,
           q.status \in {"FILLED", "CANCELLED"}, quotes' = [quotes EXCEPT ![o] = q]
    PROVE  /\ quotes' \in Seq(Quote) /\ DOMAIN quotes' = DOMAIN quotes
           /\ quotes'[o] = q
           /\ \A x \in DOMAIN quotes \ {o} : quotes'[x] = quotes[x]
           /\ OpenQuotes' = OpenQuotes \ {o}
           /\ FilledQuotes' = IF q.status = "FILLED" THEN FilledQuotes \cup {o}
                                                     ELSE FilledQuotes
           /\ o \in DOMAIN quotes /\ o \notin FilledQuotes
<1>1. o \in DOMAIN quotes /\ o \notin FilledQuotes /\ quotes \in Seq(Quote)
  BY DEF OpenQuotes, FilledQuotes, TypeInv
<1>2. quotes' \in Seq(Quote) /\ DOMAIN quotes' = DOMAIN quotes /\ quotes'[o] = q
  BY <1>1
<1>3. \A x \in DOMAIN quotes \ {o} : quotes'[x] = quotes[x]
  BY <1>1
<1>4. OpenQuotes' = OpenQuotes \ {o}
  BY <1>1, <1>2, <1>3 DEF OpenQuotes
<1>5. FilledQuotes' = IF q.status = "FILLED" THEN FilledQuotes \cup {o} ELSE FilledQuotes
  BY <1>1, <1>2, <1>3 DEF FilledQuotes
<1> QED BY <1>1, <1>2, <1>3, <1>4, <1>5

\* Settling keeps the sum of open and filled quotes or lowers it.
LEMMA SettledPosition ==
    ASSUME TypeInv, PositionInv, NEW o \in OpenQuotes, o \notin FilledQuotes,
           OpenQuotes' = OpenQuotes \ {o},
           FilledQuotes' \in {FilledQuotes, FilledQuotes \cup {o}}
    PROVE  PositionInv'
<1>1. /\ IsFiniteSet(OpenQuotes) /\ Cardinality(OpenQuotes) \in Nat
      /\ IsFiniteSet(FilledQuotes) /\ Cardinality(FilledQuotes) \in Nat
  BY QuotesFinite DEF TypeInv
<1>2. Cardinality(OpenQuotes') = Cardinality(OpenQuotes) - 1
  BY <1>1, FS_RemoveElement
<1>3. Cardinality(FilledQuotes') \in {Cardinality(FilledQuotes), Cardinality(FilledQuotes) + 1}
  BY <1>1, FS_AddElement
<1> QED BY <1>1, <1>2, <1>3, QuoteAssumption DEF PositionInv

-------------------------------------------------------------------------------
(***************************************************************************)
(* The search for a print.                                                 *)
(***************************************************************************)

\* A hit lies in the life of its quote and before the pass.
LEMMA HitInLife ==
    ASSUME TypeInv, NEW q \in Quote, NEW k \in Hits(q)
    PROVE  /\ k \in DOMAIN tape /\ k \in 0..MaxPrints
           /\ tape[k].at < ExpiresAt(q) /\ tape[k].at < clock /\ tape[k].stored # NotYet
           /\ tape[k].at > q.at - Second /\ tape[k].price <= q.limit
<1> DEFINE t == tape[k].at
           end == Min({clock, ExpiresAt(q)})
<1>1. /\ k \in DOMAIN tape /\ Cut(t) >= Cut(q.at) /\ Cut(t) < Cut(end)
      /\ tape[k].stored # NotYet /\ tape[k].price <= q.limit
  BY DEF Hits, Window
<1>2. t \in Nat /\ q.at \in Nat /\ clock \in Nat /\ ExpiresAt(q) \in Nat
  <2>1. tape[k] \in TradePrint
    BY <1>1 DEF TypeInv
  <2>2. t \in Nat
    BY <2>1 DEF TradePrint
  <2>3. q.at \in Nat
    BY DEF Quote
  <2>4. clock \in Nat
    BY DEF TypeInv
  <2> QED BY <2>2, <2>3, <2>4, TimesAssumption DEF ExpiresAt
<1>3. end \in Nat /\ end <= clock /\ end <= ExpiresAt(q)
  BY <1>2, LesserOf
<1> HIDE DEF end
<1>4. t < end
  BY <1>1, <1>2, <1>3, CutEarlier
<1>5. t > q.at - Second
  BY <1>1, <1>2, CutNotEarlier
<1>6. k \in 0..MaxPrints
  BY <1>1, BoundsAssumption DEF TypeInv
<1> QED BY <1>1, <1>2, <1>3, <1>4, <1>5, <1>6

\* A print that was stored before the pass and lies in the whole seconds of the life of
\* an expired quote is a hit, if its price is.
LEMMA NoHitMissed ==
    ASSUME TypeInv, NEW q \in Quote, Expired(q), NEW k \in DOMAIN tape,
           tape[k].stored \in 0..(clock - 1),
           Cut(tape[k].at) \in Cut(q.at)..(Cut(ExpiresAt(q)) - 1),
           tape[k].price <= q.limit
    PROVE  k \in Hits(q)
<1>1. q.at \in Nat /\ clock \in Nat /\ ExpiresAt(q) \in Nat /\ ExpiresAt(q) <= clock
  <2>1. q.at \in Nat /\ clock \in Nat
    BY DEF Quote, TypeInv
  <2> QED BY <2>1, TimesAssumption DEF ExpiresAt, Expired
<1>2. Min({clock, ExpiresAt(q)}) = ExpiresAt(q)
  <2>1. clock \in Int /\ ExpiresAt(q) \in Int
    BY <1>1
  <2>2. /\ Min({clock, ExpiresAt(q)}) \in {clock, ExpiresAt(q)}
        /\ Min({clock, ExpiresAt(q)}) <= ExpiresAt(q)
    BY <2>1, LesserOf
  <2> QED BY <1>1, <2>1, <2>2
<1>3. tape[k].at \in Nat
  <2>1. tape[k] \in TradePrint
    BY DEF TypeInv
  <2> QED BY <2>1 DEF TradePrint
<1>4. Cut(q.at) \in Nat /\ Cut(tape[k].at) \in Nat /\ Cut(ExpiresAt(q)) \in Nat
  BY <1>1, <1>3, CutIsNat
<1>5. Cut(tape[k].at) >= Cut(q.at) /\ Cut(tape[k].at) < Cut(ExpiresAt(q))
  BY <1>4
<1>6. tape[k].stored # NotYet
  BY DEF NotYet
<1> QED BY <1>2, <1>5, <1>6 DEF Hits, Window

\* The hit that fills.
LEMMA FirstHit ==
    ASSUME TypeInv, NEW q \in Quote, Hits(q) # {}
    PROVE  Min(Hits(q)) \in Hits(q)
<1>1. Hits(q) \in SUBSET Nat
  BY DEF Hits, Window, TypeInv
<1> QED BY <1>1, LeastOf

-------------------------------------------------------------------------------
(***************************************************************************)
(* The steps of the maker.                                                 *)
(***************************************************************************)

LEMMA FillQuoteStep == ASSUME MakerInv, FillQuote PROVE MakerInv'
<1>0. TypeInv /\ PassInv /\ LifeInv /\ PositionInv /\ EventInv
  BY DEF MakerInv
<1> DEFINE o == Oldest
           k == Min(Hits(quotes[o]))
           q == [quotes[o] EXCEPT !.status = "FILLED", !.done = clock, !.by = k]
<1>1. /\ pc = "refresh" /\ todo # {} /\ Hits(quotes[o]) # {}
      /\ quotes' = [quotes EXCEPT ![o] = q]
      /\ pc' = "fillEvent" /\ pending' = o /\ todo' = todo \ {o}
      /\ UNCHANGED <<world, events, target, clock, crashes>>
  BY DEF FillQuote
<1>2. o \in todo /\ o \in OpenQuotes /\ o \in DOMAIN quotes
  BY <1>0, <1>1, OldestIsOpen
<1>3. quotes[o] \in Quote
  BY <1>0, <1>2 DEF TypeInv
<1>4. k \in Hits(quotes[o])
  BY <1>0, <1>1, <1>3, FirstHit
<1>5. /\ k \in DOMAIN tape /\ k \in 0..MaxPrints
      /\ tape[k].at < ExpiresAt(quotes[o]) /\ tape[k].at < clock /\ tape[k].stored # NotYet
      /\ tape[k].at > quotes[o].at - Second /\ tape[k].price <= quotes[o].limit
  BY <1>0, <1>3, <1>4, HitInLife
<1> HIDE DEF o, k
<1>6. /\ q \in Quote /\ q.status = "FILLED" /\ q.done = clock /\ q.by = k
      /\ q.at = quotes[o].at /\ q.limit = quotes[o].limit
  <2>1. clock \in 0..MaxTime
    BY <1>0, BoundsAssumption DEF TypeInv
  <2> QED BY <1>3, <1>5, <2>1, QuoteSettledAt
<1> HIDE DEF q
<1>7. /\ quotes' \in Seq(Quote) /\ DOMAIN quotes' = DOMAIN quotes /\ quotes'[o] = q
      /\ \A x \in DOMAIN quotes \ {o} : quotes'[x] = quotes[x]
      /\ OpenQuotes' = OpenQuotes \ {o} /\ FilledQuotes' = FilledQuotes \cup {o}
      /\ o \notin FilledQuotes
  BY <1>0, <1>1, <1>2, <1>6, Settled
<1>8. TypeInv'
  BY <1>0, <1>1, <1>2, <1>7 DEF TypeInv, world
<1>9. /\ PassInv' /\ Untold' = Untold \cup {o} /\ Missing' = Missing
      /\ <<"filled_paper", o>> \notin events /\ o \notin Untold
  BY <1>0, <1>1, <1>2, <1>7 DEF PassInv, EventInv, Untold, Missing
<1>10. LifeInv'
  <2>1. \A i \in DOMAIN quotes' : quotes'[i].done <= now'
    BY <1>0, <1>1, <1>2, <1>6, <1>7 DEF LifeInv, TypeInv, world
  <2>2. \A i \in FilledQuotes' : quotes'[i].by \in DOMAIN tape'
    BY <1>0, <1>1, <1>5, <1>6, <1>7 DEF LifeInv, FilledQuotes, world
  <2>3. FilledInItsLife'
    <3> SUFFICES ASSUME NEW i \in FilledQuotes'
                 PROVE  LET r == quotes'[i]
                            p == tape[r.by]
                        IN  /\ p.at < ExpiresAt(r) /\ p.at < r.done /\ p.stored # NotYet
                            /\ p.at > r.at - Second /\ p.price <= r.limit
      BY <1>1 DEF FilledInItsLife, ExpiresAt, world
    <3>1. CASE i = o
      BY <1>5, <1>6, <1>7, <3>1 DEF ExpiresAt
    <3>2. CASE i \in FilledQuotes /\ i # o
      BY <1>0, <1>7, <3>2 DEF LifeInv, FilledInItsLife, FilledQuotes
    <3> QED BY <1>7, <3>1, <3>2
  <2>4. CancelledUnfilled'
    BY <1>0, <1>1, <1>6, <1>7 DEF LifeInv, CancelledUnfilled, ExpiresAt, Cut, world
  <2> QED BY <2>1, <2>2, <2>3, <2>4 DEF LifeInv
<1>11. PositionInv'
  BY <1>0, <1>2, <1>7, SettledPosition
<1>12. EventInv'
  <2>1. IsFiniteSet(Untold) /\ Cardinality(Untold) \in Nat /\ Cardinality(Missing) \in Nat
    BY <1>0, QuotesFinite DEF TypeInv, Untold, Missing, FilledQuotes
  <2>2. Cardinality(Untold') = Cardinality(Untold) + 1
    BY <1>9, <2>1, FS_AddElement
  <2>3. Writing = 0 /\ Writing' = 1
    BY <1>0, <1>1, <1>2, QuotesFinite DEF Writing, PassInv, TypeInv
  <2>4. Cardinality(Missing') + Cardinality(Untold') <= crashes' + Writing'
    BY <1>0, <1>1, <1>9, <2>1, <2>2, <2>3 DEF EventInv, TypeInv
  <2>5. \A i \in DOMAIN quotes' : <<"filled_paper", i>> \in events' => i \in FilledQuotes'
    BY <1>0, <1>1, <1>7 DEF EventInv
  <2> QED BY <2>4, <2>5 DEF EventInv
<1> QED BY <1>8, <1>9, <1>10, <1>11, <1>12 DEF MakerInv

LEMMA CancelQuoteStep == ASSUME MakerInv, CancelQuote PROVE MakerInv'
<1>0. TypeInv /\ PassInv /\ LifeInv /\ PositionInv /\ EventInv
  BY DEF MakerInv
<1> DEFINE o == Oldest
           q == [quotes[o] EXCEPT !.status = "CANCELLED", !.done = clock]
<1>1. /\ pc = "refresh" /\ todo # {} /\ Hits(quotes[o]) = {} /\ Expired(quotes[o])
      /\ quotes' = [quotes EXCEPT ![o] = q]
      /\ todo' = todo \ {o}
      /\ UNCHANGED <<world, events, target, pc, clock, pending, crashes>>
  BY DEF CancelQuote
<1>2. o \in todo /\ o \in OpenQuotes /\ o \in DOMAIN quotes
  BY <1>0, <1>1, OldestIsOpen
<1>3. quotes[o] \in Quote
  BY <1>0, <1>2 DEF TypeInv
<1> HIDE DEF o
<1>4. /\ q \in Quote /\ q.status = "CANCELLED" /\ q.done = clock
      /\ q.at = quotes[o].at /\ q.limit = quotes[o].limit
  <2>1. clock \in 0..MaxTime
    BY <1>0, BoundsAssumption DEF TypeInv
  <2> QED BY <1>3, <2>1, QuoteCancelledAt
<1> HIDE DEF q
<1>5. /\ quotes' \in Seq(Quote) /\ DOMAIN quotes' = DOMAIN quotes /\ quotes'[o] = q
      /\ \A x \in DOMAIN quotes \ {o} : quotes'[x] = quotes[x]
      /\ OpenQuotes' = OpenQuotes \ {o} /\ FilledQuotes' = FilledQuotes
      /\ o \notin FilledQuotes
  BY <1>0, <1>1, <1>2, <1>4, Settled
<1>6. TypeInv'
  BY <1>0, <1>1, <1>2, <1>5 DEF TypeInv, world
<1>7. PassInv' /\ EventInv'
  BY <1>0, <1>1, <1>5 DEF PassInv, EventInv, Untold, Missing, Writing
<1>8. LifeInv'
  <2>1. \A i \in DOMAIN quotes' : quotes'[i].done <= now'
    BY <1>0, <1>1, <1>2, <1>4, <1>5 DEF LifeInv, TypeInv, world
  <2>2. /\ \A i \in FilledQuotes' : quotes'[i].by \in DOMAIN tape'
        /\ FilledInItsLife'
    BY <1>0, <1>1, <1>5 DEF LifeInv, FilledInItsLife, FilledQuotes, ExpiresAt, world
  <2>3. CancelledUnfilled'
    <3> SUFFICES ASSUME NEW i \in DOMAIN quotes, quotes'[i].status = "CANCELLED",
                        NEW k \in DOMAIN tape,
                        tape[k].stored \in 0..(quotes'[i].done - 1),
                        Cut(tape[k].at) \in
                           Cut(quotes'[i].at)..(Cut(ExpiresAt(quotes'[i])) - 1),
                        tape[k].price <= quotes'[i].limit
                 PROVE  FALSE
      BY <1>1, <1>5 DEF CancelledUnfilled, ExpiresAt, Cut, world
    <3>1. CASE i = o
      <4>1. k \in Hits(quotes[o])
        BY <1>0, <1>1, <1>3, <1>4, <1>5, <3>1, NoHitMissed DEF ExpiresAt
      <4> QED BY <1>1, <4>1
    <3>2. CASE i # o
      BY <1>0, <1>5, <3>2 DEF LifeInv, CancelledUnfilled
    <3> QED BY <3>1, <3>2
  <2> QED BY <2>1, <2>2, <2>3 DEF LifeInv
<1>9. PositionInv'
  BY <1>0, <1>2, <1>5, SettledPosition
<1> QED BY <1>6, <1>7, <1>8, <1>9 DEF MakerInv

\* Steps that leave the quotes and the tape alone.
LEMMA QuotesKept ==
    ASSUME LifeInv, PositionInv, quotes' = quotes, tape' = tape, now' >= now, TypeInv,
           now' \in Nat
    PROVE  LifeInv' /\ PositionInv' /\ OpenQuotes' = OpenQuotes /\ FilledQuotes' = FilledQuotes
<1>1. OpenQuotes' = OpenQuotes /\ FilledQuotes' = FilledQuotes
  BY DEF OpenQuotes, FilledQuotes
<1>2. \A i \in DOMAIN quotes : quotes[i].done <= now'
  <2>1. \A i \in DOMAIN quotes : quotes[i] \in Quote
    BY DEF TypeInv
  <2>2. \A r \in Quote : r.done \in Int
    BY BoundsAssumption DEF Quote, NotYet
  <2> QED BY <2>1, <2>2 DEF LifeInv, TypeInv
<1>3. FilledInItsLife' /\ CancelledUnfilled'
  BY <1>1 DEF LifeInv, FilledInItsLife, CancelledUnfilled, ExpiresAt, Cut
<1> QED BY <1>1, <1>2, <1>3 DEF LifeInv, PositionInv

\* The event that a pass still had to write is written.
LEMMA EventStep ==
    ASSUME MakerInv, FillEvent \/ QuoteEvent PROVE MakerInv'
<1>0. TypeInv /\ PassInv /\ LifeInv /\ PositionInv /\ EventInv
  BY DEF MakerInv
<1>1. /\ pending \in DOMAIN quotes /\ pending' = 0 /\ pending # 0
      /\ pc' \in {"idle", "refresh"} /\ clock' \in {clock, 0}
      /\ UNCHANGED <<world, quotes, target, todo, crashes>>
  BY <1>0, QuotesFinite DEF FillEvent, QuoteEvent, PassInv, TypeInv
<1>2. LifeInv' /\ PositionInv' /\ OpenQuotes' = OpenQuotes /\ FilledQuotes' = FilledQuotes
  BY <1>0, <1>1, QuotesKept DEF world, TypeInv
<1>3. TypeInv'
  <2>1. events' \subseteq {"filled_paper", "submitted_paper_no_fill"} \X DOMAIN quotes
    BY <1>0, <1>1 DEF FillEvent, QuoteEvent, TypeInv
  <2> QED BY <1>0, <1>1, <1>2, <2>1 DEF TypeInv, world
<1>4. PassInv'
  BY <1>1 DEF PassInv
<1>5. EventInv'
  <2>1. /\ IsFiniteSet(Untold) /\ Cardinality(Untold) \in Nat
        /\ IsFiniteSet(Missing) /\ Cardinality(Missing) \in Nat
    BY <1>0, QuotesFinite DEF TypeInv, Untold, Missing, FilledQuotes
  <2>2. Writing = 1 /\ Writing' = 0 /\ crashes' = crashes /\ crashes \in Nat
    BY <1>0, <1>1 DEF Writing, TypeInv
  <2>3. CASE FillEvent
    <3>1. pending \in Untold /\ Untold' = Untold \ {pending} /\ Missing' = Missing
      BY <1>0, <1>1, <1>2, <2>3 DEF FillEvent, PassInv, Untold, Missing
    <3>2. Cardinality(Untold') = Cardinality(Untold) - 1
      BY <2>1, <3>1, FS_RemoveElement
    <3>3. \A i \in DOMAIN quotes' : <<"filled_paper", i>> \in events' => i \in FilledQuotes'
      BY <1>0, <1>1, <1>2, <2>3 DEF FillEvent, PassInv, EventInv
    <3> QED BY <1>0, <2>1, <2>2, <3>1, <3>2, <3>3 DEF EventInv
  <2>4. CASE QuoteEvent
    <3>1. pending \in Missing /\ Missing' = Missing \ {pending} /\ Untold' = Untold
      BY <1>0, <1>1, <1>2, <2>4 DEF QuoteEvent, PassInv, Untold, Missing
    <3>2. Cardinality(Missing') = Cardinality(Missing) - 1
      BY <2>1, <3>1, FS_RemoveElement
    <3>3. \A i \in DOMAIN quotes' : <<"filled_paper", i>> \in events' => i \in FilledQuotes'
      BY <1>0, <1>1, <1>2, <2>4 DEF QuoteEvent, EventInv
    <3> QED BY <1>0, <2>1, <2>2, <3>1, <3>2, <3>3 DEF EventInv
  <2> QED BY <2>3, <2>4
<1> QED BY <1>2, <1>3, <1>4, <1>5 DEF MakerInv

\* A quote is opened where there is room, and its event is not written yet.
LEMMA OpenQuoteStep == ASSUME MakerInv, OpenQuote PROVE MakerInv'
<1>0. TypeInv /\ PassInv /\ LifeInv /\ PositionInv /\ EventInv
  BY DEF MakerInv
<1> DEFINE n == Len(quotes) + 1
           q == [at |-> clock, limit |-> LimitPrice(latest), status |-> "OPEN",
                 by |-> NoPrint, done |-> NotYet]
<1>1. /\ pc = "refresh" /\ quotes' = Append(quotes, q)
      /\ Room /\ latest # <<>> /\ LimitPrice(latest) > 0
      /\ pc' = "quoteEvent" /\ pending' = Len(quotes')
      /\ UNCHANGED <<world, events, target, clock, todo, crashes>>
  BY DEF OpenQuote, Quotable, QuotableAt
<1>2. LimitPrice(latest) \in Nat
  <2>1. latest.ask \in Nat /\ latest.bid \in Nat /\ Improve \in Nat
    BY <1>0, <1>1, QuoteAssumption DEF TypeInv, StoredBook
  <2>2. latest.ask - 1 \in Int /\ latest.bid + Improve \in Int
    BY <2>1
  <2>3. LimitPrice(latest) \in {latest.ask - 1, latest.bid + Improve}
    BY <2>2, LesserOf DEF LimitPrice
  <2> QED BY <1>1, <2>2, <2>3
<1>3. q \in Quote /\ q.status = "OPEN" /\ q.done = NotYet
  <2>1. clock \in 0..MaxTime /\ NoPrint \in 0..MaxPrints
    BY <1>0, BoundsAssumption DEF TypeInv, NoPrint
  <2> QED BY <1>2, <2>1 DEF Quote
<1> HIDE DEF q
<1>4. /\ quotes \in Seq(Quote) /\ n \in Nat /\ n # 0 /\ n \notin DOMAIN quotes
      /\ quotes' \in Seq(Quote) /\ DOMAIN quotes' = DOMAIN quotes \cup {n}
      /\ quotes'[n] = q /\ \A x \in DOMAIN quotes : quotes'[x] = quotes[x]
      /\ pending' = n
  BY <1>0, <1>1, <1>3 DEF TypeInv
<1> HIDE DEF n
<1>5. OpenQuotes' = OpenQuotes \cup {n} /\ FilledQuotes' = FilledQuotes
  BY <1>3, <1>4 DEF OpenQuotes, FilledQuotes
<1>6. TypeInv'
  <2>1. todo' \subseteq OpenQuotes' /\ pending' \in {0} \cup DOMAIN quotes'
    BY <1>0, <1>1, <1>4, <1>5 DEF TypeInv
  <2>2. events' \subseteq {"filled_paper", "submitted_paper_no_fill"} \X DOMAIN quotes'
    BY <1>0, <1>1, <1>4 DEF TypeInv
  <2> QED BY <1>0, <1>1, <1>4, <2>1, <2>2 DEF TypeInv, world
<1>7. <<"submitted_paper_no_fill", n>> \notin events /\ <<"filled_paper", n>> \notin events
  BY <1>0, <1>4 DEF TypeInv
<1>8. PassInv'
  BY <1>1, <1>4, <1>7 DEF PassInv
<1>9. LifeInv'
  <2>1. \A i \in DOMAIN quotes' : quotes'[i].done <= now'
    BY <1>0, <1>1, <1>3, <1>4, BoundsAssumption DEF LifeInv, TypeInv, NotYet, world
  <2>2. \A i \in FilledQuotes : quotes'[i] = quotes[i]
    BY <1>4 DEF FilledQuotes
  <2>3. \A i \in FilledQuotes' : quotes'[i].by \in DOMAIN tape'
    BY <1>0, <1>1, <1>5, <2>2 DEF LifeInv, world
  <2>4. FilledInItsLife'
    BY <1>0, <1>1, <1>5, <2>2 DEF LifeInv, FilledInItsLife, ExpiresAt, world
  <2>5. CancelledUnfilled'
    BY <1>0, <1>1, <1>3, <1>4 DEF LifeInv, CancelledUnfilled, ExpiresAt, Cut, world
  <2> QED BY <2>1, <2>3, <2>4, <2>5 DEF LifeInv
<1>10. PositionInv'
  <2>1. /\ IsFiniteSet(OpenQuotes) /\ Cardinality(OpenQuotes) \in Nat
        /\ Cardinality(FilledQuotes) \in Nat /\ n \notin OpenQuotes
    BY <1>0, <1>4, QuotesFinite DEF TypeInv
  <2>2. Cardinality(OpenQuotes') = Cardinality(OpenQuotes) + 1
    BY <1>5, <2>1, FS_AddElement
  <2> QED BY <1>1, <1>5, <2>1, <2>2, QuoteAssumption DEF Room, PositionInv
<1>11. EventInv'
  <2>1. /\ IsFiniteSet(Missing) /\ Cardinality(Missing) \in Nat
        /\ Cardinality(Untold) \in Nat /\ n \notin Missing
    BY <1>0, <1>4, QuotesFinite DEF TypeInv, Untold, Missing, FilledQuotes
  <2>2. Missing' = Missing \cup {n} /\ Untold' = Untold
    BY <1>1, <1>4, <1>5, <1>7 DEF Missing, Untold
  <2>3. Cardinality(Missing') = Cardinality(Missing) + 1
    BY <2>1, <2>2, FS_AddElement
  <2>4. Writing = 0 /\ Writing' = 1
    BY <1>0, <1>1, <1>4 DEF Writing, PassInv
  <2>5. \A i \in DOMAIN quotes' : <<"filled_paper", i>> \in events' => i \in FilledQuotes'
    BY <1>0, <1>1, <1>4, <1>5, <1>7 DEF EventInv
  <2>6. crashes \in Nat /\ crashes' = crashes
    BY <1>0, <1>1 DEF TypeInv
  <2> QED BY <1>0, <2>1, <2>2, <2>3, <2>4, <2>5, <2>6 DEF EventInv
<1> QED BY <1>6, <1>8, <1>9, <1>10, <1>11 DEF MakerInv

\* The maker dies: what it still had to write is missing for good.
LEMMA CrashStep == ASSUME MakerInv, Crash PROVE MakerInv'
<1>0. TypeInv /\ PassInv /\ LifeInv /\ PositionInv /\ EventInv
  BY DEF MakerInv
<1>1. /\ pc' = "idle" /\ todo' = {} /\ pending' = 0 /\ clock' = 0
      /\ crashes' = crashes + 1 /\ UNCHANGED <<world, quotes, events, target>>
      /\ crashes < MaxCrashes /\ MaxCrashes \in Nat
  BY BoundsAssumption DEF Crash
<1>2. LifeInv' /\ PositionInv' /\ OpenQuotes' = OpenQuotes /\ FilledQuotes' = FilledQuotes
  BY <1>0, <1>1, QuotesKept DEF world, TypeInv
<1>3. TypeInv' /\ PassInv'
  BY <1>0, <1>1, <1>2 DEF TypeInv, PassInv, world
<1>4. EventInv'
  <2>1. /\ Cardinality(Missing) \in Nat /\ Cardinality(Untold) \in Nat
    BY <1>0, QuotesFinite DEF TypeInv, Untold, Missing, FilledQuotes
  <2>2. Missing' = Missing /\ Untold' = Untold
    BY <1>1, <1>2 DEF Missing, Untold
  <2>3. Writing \in {0, 1} /\ Writing' = 0 /\ crashes \in Nat
    BY <1>0, <1>1 DEF Writing, TypeInv
  <2>4. Cardinality(Missing') + Cardinality(Untold') <= crashes' + Writing'
    BY <1>0, <1>1, <2>1, <2>2, <2>3 DEF EventInv
  <2> QED BY <1>0, <1>1, <1>2, <2>4 DEF EventInv
<1> QED BY <1>2, <1>3, <1>4 DEF MakerInv

\* Steps that leave the quotes, the events and the tape alone.
LEMMA QuietStep ==
    ASSUME MakerInv,
           Begin \/ KeepQuote \/ NoQuote \/ Select \/ Pass \/ StoreBook \/ UNCHANGED vars
    PROVE  MakerInv'
<1>0. TypeInv /\ PassInv /\ LifeInv /\ PositionInv /\ EventInv
  BY DEF MakerInv
<1>1. /\ UNCHANGED <<quotes, events, tape, pending, crashes>>
      /\ now' \in {now, now + 1} /\ now' \in 0..MaxTime
  <2>1. UNCHANGED <<quotes, events, tape, pending, crashes>>
    BY DEF Begin, KeepQuote, NoQuote, Select, Pass, StoreBook, vars, world, maker
  <2>2. now' = now \/ (now < MaxTime /\ now' = now + 1)
    BY DEF Begin, KeepQuote, NoQuote, Select, Pass, StoreBook, vars, world, maker
  <2>3. now \in 0..MaxTime /\ MaxTime \in Nat
    BY <1>0, BoundsAssumption DEF TypeInv
  <2> QED BY <2>1, <2>2, <2>3
<1>2. LifeInv' /\ PositionInv' /\ OpenQuotes' = OpenQuotes /\ FilledQuotes' = FilledQuotes
  <2>1. now \in Nat /\ now' \in Nat /\ now' >= now
    BY <1>0, <1>1 DEF TypeInv
  <2> QED BY <1>0, <1>1, <2>1, QuotesKept
<1>3. EventInv'
  BY <1>0, <1>1, <1>2 DEF EventInv, Missing, Untold, Writing
<1>4. PassInv'
  <2>1. pc' = pc \/ {pc, pc'} \subseteq {"idle", "refresh"}
    BY DEF Begin, KeepQuote, NoQuote, Select, Pass, StoreBook, vars, maker
  <2> QED BY <1>0, <1>1, <1>2, <2>1 DEF PassInv
<1>5. clock' \in 0..now'
  <2>1. clock' \in {clock, now, 0}
    BY DEF Begin, KeepQuote, NoQuote, Select, Pass, StoreBook, vars, maker
  <2>2. now \in Nat /\ clock \in 0..now
    BY <1>0 DEF TypeInv
  <2> QED BY <1>1, <2>1, <2>2
<1>6. latest' # <<>> => latest' \in StoredBook
  <2>1. CASE StoreBook
    <3>1. PICK b \in Books : latest' = [bid |-> b.bid, ask |-> b.ask, depth |-> b.depth,
                                        open |-> b.open, at |-> now]
      BY <2>1 DEF StoreBook
    <3>2. b \in Book /\ now \in 0..MaxTime
      BY <1>0, BooksAssumption DEF TypeInv
    <3> QED BY <3>1, <3>2 DEF StoredBook, Book
  <2>2. CASE ~StoreBook
    BY <1>0, <2>2
       DEF Begin, KeepQuote, NoQuote, Select, Pass, TypeInv, vars, world, maker
  <2> QED BY <2>1, <2>2
<1>7. target' \in BOOLEAN
  <2>1. CASE Select
    BY <2>1 DEF Select, QuotableAt
  <2>2. CASE ~Select
    BY <1>0, <2>2 DEF Begin, KeepQuote, NoQuote, Pass, StoreBook, TypeInv, vars, maker
  <2> QED BY <2>1, <2>2
<1>8. pc' \in {"idle", "refresh"} \cup {pc} /\ todo' \subseteq OpenQuotes
  BY <1>0 DEF Begin, KeepQuote, NoQuote, Select, Pass, StoreBook, TypeInv, vars, maker
<1>9. TypeInv'
  BY <1>0, <1>1, <1>2, <1>5, <1>6, <1>7, <1>8 DEF TypeInv
<1> QED BY <1>2, <1>3, <1>4, <1>9 DEF MakerInv

-------------------------------------------------------------------------------
(***************************************************************************)
(* The steps of the market and the recorder.                               *)
(***************************************************************************)

\* The tape may grow by prints that are not stored, and a print may be stored now: no
\* quote was cancelled later than now.
LEMMA TapeStep ==
    ASSUME MakerInv, UNCHANGED <<now, latest, quotes, events, maker, crashes>>,
           tape' \in Seq(TradePrint), Len(tape') <= MaxPrints,
           DOMAIN tape \subseteq DOMAIN tape',
           \A k \in DOMAIN tape :
              /\ tape'[k].at = tape[k].at /\ tape'[k].price = tape[k].price
              /\ tape'[k].stored \in {tape[k].stored, now},
           \A k \in DOMAIN tape' \ DOMAIN tape : tape'[k].stored = NotYet
    PROVE  MakerInv'
<1>0. TypeInv /\ PassInv /\ LifeInv /\ PositionInv /\ EventInv
  BY DEF MakerInv
<1>1. OpenQuotes' = OpenQuotes /\ FilledQuotes' = FilledQuotes
  BY DEF OpenQuotes, FilledQuotes
<1>2. TypeInv' /\ PassInv' /\ PositionInv' /\ EventInv'
  BY <1>0, <1>1
     DEF TypeInv, PassInv, PositionInv, EventInv, Missing, Untold, Writing, maker
<1>3. now \in Nat /\ now # NotYet
  BY <1>0 DEF TypeInv, NotYet
<1>4. \A i \in FilledQuotes : quotes[i].by \in DOMAIN tape
  BY <1>0 DEF LifeInv
<1>5. FilledInItsLife'
  BY <1>0, <1>1, <1>3, <1>4 DEF LifeInv, FilledInItsLife, ExpiresAt
<1>6. CancelledUnfilled'
  <2> SUFFICES ASSUME NEW i \in DOMAIN quotes, quotes[i].status = "CANCELLED",
                      NEW k \in DOMAIN tape', tape'[k].stored \in 0..(quotes[i].done - 1),
                      Cut(tape'[k].at) \in
                         Cut(quotes[i].at)..(Cut(ExpiresAt(quotes[i])) - 1),
                      tape'[k].price <= quotes[i].limit
               PROVE  FALSE
    BY DEF CancelledUnfilled, ExpiresAt, Cut
  <2>1. quotes[i].done <= now /\ quotes[i].done \in Int
    <3>1. quotes[i] \in Quote
      BY <1>0 DEF TypeInv
    <3>2. quotes[i].done \in Int
      BY <3>1, BoundsAssumption DEF Quote, NotYet
    <3> QED BY <1>0, <3>2 DEF LifeInv
  <2>2. k \in DOMAIN tape /\ tape'[k].stored # now
    BY <1>3, <2>1 DEF NotYet
  <2>3. /\ tape[k].stored = tape'[k].stored /\ tape[k].at = tape'[k].at
        /\ tape[k].price = tape'[k].price
    BY <2>2
  <2> QED BY <1>0, <2>2, <2>3 DEF LifeInv, CancelledUnfilled
<1>7. LifeInv'
  BY <1>0, <1>1, <1>4, <1>5, <1>6 DEF LifeInv
<1> QED BY <1>2, <1>7 DEF MakerInv

LEMMA TradeStep == ASSUME MakerInv, Trade PROVE MakerInv'
<1>1. PICK p \in PrintPrices : tape' = Append(tape, [at |-> now, price |-> p, stored |-> NotYet])
  BY DEF Trade
<1> DEFINE t == [at |-> now, price |-> p, stored |-> NotYet]
<1>2. /\ tape \in Seq(TradePrint) /\ t \in TradePrint /\ t.stored = NotYet
      /\ Len(tape) < MaxPrints
  BY DEF Trade, MakerInv, TypeInv, TradePrint
<1> HIDE DEF t
<1>3. /\ tape' \in Seq(TradePrint) /\ Len(tape') = Len(tape) + 1
      /\ DOMAIN tape' = DOMAIN tape \cup {Len(tape) + 1}
      /\ tape'[Len(tape) + 1] = t
      /\ \A k \in DOMAIN tape : tape'[k] = tape[k]
  BY <1>1, <1>2 DEF t
<1>4. Len(tape') <= MaxPrints
  BY <1>2, <1>3, BoundsAssumption
<1> QED BY <1>2, <1>3, <1>4, TapeStep DEF Trade

LEMMA StorePrintStep ==
    ASSUME MakerInv, NEW i \in DOMAIN tape, StorePrint(i) PROVE MakerInv'
<1> DEFINE t == [tape[i] EXCEPT !.stored = now]
<1>1. tape \in Seq(TradePrint) /\ tape[i] \in TradePrint /\ now \in 0..MaxTime
  BY DEF MakerInv, TypeInv
<1>2. t \in TradePrint /\ t.at = tape[i].at /\ t.price = tape[i].price /\ t.stored = now
  BY <1>1 DEF TradePrint
<1>3. tape' = [tape EXCEPT ![i] = t]
  BY DEF StorePrint
<1> HIDE DEF t
<1>4. /\ tape' \in Seq(TradePrint) /\ Len(tape') = Len(tape) /\ DOMAIN tape' = DOMAIN tape
      /\ tape'[i] = t /\ \A k \in DOMAIN tape \ {i} : tape'[k] = tape[k]
  BY <1>1, <1>2, <1>3
<1>5. Len(tape') <= MaxPrints
  BY <1>4 DEF MakerInv, TypeInv
<1> QED BY <1>2, <1>4, <1>5, TapeStep DEF StorePrint

-------------------------------------------------------------------------------
(***************************************************************************)
(* The invariant and what follows from it.                                 *)
(***************************************************************************)

LEMMA InitMakerInv == Init => MakerInv
<1> SUFFICES ASSUME Init PROVE MakerInv
  OBVIOUS
<1>1. OpenQuotes = {} /\ FilledQuotes = {} /\ DOMAIN quotes = {}
  BY DEF Init, OpenQuotes, FilledQuotes
<1>2. TypeInv /\ PassInv
  BY <1>1, BoundsAssumption DEF Init, TypeInv, PassInv
<1>3. LifeInv
  BY <1>1 DEF LifeInv, FilledInItsLife, CancelledUnfilled
<1>4. PositionInv
  BY <1>1, FS_EmptySet, QuoteAssumption DEF PositionInv
<1>5. EventInv
  <2>1. Missing = {} /\ Untold = {} /\ Writing = 0 /\ crashes = 0
    BY <1>1 DEF Missing, Untold, Writing, Init
  <2> QED BY <1>1, <2>1, FS_EmptySet DEF EventInv
<1> QED BY <1>2, <1>3, <1>4, <1>5 DEF MakerInv

LEMMA NextMakerInv == MakerInv /\ [Next]_vars => MakerInv'
<1> SUFFICES ASSUME MakerInv, [Next]_vars PROVE MakerInv'
  OBVIOUS
<1>1. CASE Begin \/ KeepQuote \/ NoQuote \/ Select \/ Pass \/ StoreBook \/ UNCHANGED vars
  BY <1>1, QuietStep
<1>2. CASE FillQuote
  BY <1>2, FillQuoteStep
<1>3. CASE CancelQuote
  BY <1>3, CancelQuoteStep
<1>4. CASE FillEvent \/ QuoteEvent
  BY <1>4, EventStep
<1>5. CASE OpenQuote
  BY <1>5, OpenQuoteStep
<1>6. CASE Crash
  BY <1>6, CrashStep
<1>7. CASE Trade
  BY <1>7, TradeStep
<1>8. ASSUME NEW i \in DOMAIN tape, StorePrint(i) PROVE MakerInv'
  BY <1>8, StorePrintStep
<1> QED BY <1>1, <1>2, <1>3, <1>4, <1>5, <1>6, <1>7, <1>8 DEF Next, Maker, Recorder

\* The maker's inductive invariant: where it stands agrees with the event still to be
\* written, quotes are settled by prints of the tape, and open quotes count as if filled.
THEOREM MakerInvariant == Spec => []MakerInv
<1> QED BY InitMakerInv, NextMakerInv, PTL DEF Spec

\* Open quotes take the position beyond max_position by at most the quotes that may be
\* open beside one, through any crashes and restarts (can_open_quote of the maker).
THEOREM PositionStaysBounded == Spec => []PositionBounded
<1>1. MakerInv => PositionBounded
  <2> SUFFICES ASSUME MakerInv PROVE PositionBounded
    OBVIOUS
  <2>1. Cardinality(OpenQuotes) \in Nat /\ Cardinality(FilledQuotes) \in Nat
    BY QuotesFinite DEF MakerInv, TypeInv
  <2> QED BY <2>1, QuoteAssumption DEF MakerInv, PositionInv, PositionBounded
<1> QED BY MakerInvariant, <1>1, PTL

\* A quote is filled by a stored print within its life, before the pass, at its limit or
\* below, although times are compared as text and prints are stored late.
THEOREM FillsAreInLife == Spec => []FilledInItsLife
<1>1. MakerInv => FilledInItsLife
  BY DEF MakerInv, LifeInv
<1> QED BY MakerInvariant, <1>1, PTL

\* No quote is cancelled that a print, stored before that pass, filled in the whole
\* seconds of its life.
THEOREM CancelsAreUnfilled == Spec => []CancelledUnfilled
<1>1. MakerInv => CancelledUnfilled
  BY DEF MakerInv, LifeInv
<1> QED BY MakerInvariant, <1>1, PTL

\* The events tell no fill that is not in the quotes, and each crash costs at most one.
THEOREM EventsAreTrue == Spec => []EventsFollowQuotes
<1>1. MakerInv => EventsFollowQuotes
  BY DEF MakerInv, EventInv, EventsFollowQuotes, Missing, Untold, Writing
<1> QED BY MakerInvariant, <1>1, PTL

\* The types of the maker: quotes to settle are open ones, an event still to be written
\* is one of a quote there is, and no time lies ahead of the clock.
THEOREM TypeCorrectMaker == Spec => []TypeOK
<1>1. MakerInv => TypeOK
  <2> SUFFICES ASSUME MakerInv PROVE TypeOK
    OBVIOUS
  <2>1. TypeInv
    BY DEF MakerInv
  <2>2. {now, clock} \subseteq 0..MaxTime /\ crashes \in 0..MaxCrashes
    BY <2>1, BoundsAssumption DEF TypeInv
  <2>3. latest # <<>> => latest.at \in 0..MaxTime
    BY <2>1 DEF TypeInv, StoredBook
  <2> QED BY <2>1, <2>2, <2>3 DEF TypeInv, TypeOK
<1> QED BY <1>1, MakerInvariant, PTL
===============================================================================
