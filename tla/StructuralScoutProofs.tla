-------------------------- MODULE StructuralScoutProofs --------------------------
(***************************************************************************)
(* The guarantee of the scout, for any contracts, quotes, options and      *)
(* prices.  Every price lies in a state of the grid (PriceHasState), where *)
(* the vector of a leg says what the leg pays there (SideFits, BucketWins) *)
(* unless the price is at a strike; and the legs of a candidate pay in     *)
(* every state of the grid.  The other way round, every state holds a      *)
(* price that is at no bound of two contracts (StateHasPrice), so two      *)
(* sides that pay at every price pay in every state and are found.         *)
(***************************************************************************)
EXTENDS StructuralScout, FiniteSetTheorems, WellFoundedInduction, TLAPS

-------------------------------------------------------------------------------
(***************************************************************************)
(* The grid.                                                               *)
(***************************************************************************)

\* Natural numbers have a least one.
LEMMA LeastNatural ==
    ASSUME NEW T \in SUBSET Nat, T # {}
    PROVE  \E x \in T : \A y \in T : x <= y
<1>1. \E x \in T : \A y \in T : ~ (<<y, x>> \in OpToRel(<, Nat))
  BY NatLessThanWellFounded, WFMin
<1>2. \E x \in T : \A y \in T : ~ (y < x)
  BY <1>1, Zenon DEF OpToRel
<1> QED
  BY <1>2

\* Of integers up to p there is a greatest one, and of integers above p a least one.
LEMMA GreatestUpTo ==
    ASSUME NEW S \in SUBSET Int, NEW p \in Int, \E b \in S : b <= p
    PROVE  \E x \in S : x <= p /\ \A b \in S : b <= p => b <= x
<1> DEFINE T == {n \in Nat : p - n \in S}
<1>1. PICK b \in S : b <= p
  OBVIOUS
<1>2. p - b \in T
  BY <1>1
<1>3. PICK n \in T : \A m \in T : n <= m
  BY <1>2, LeastNatural
<1>4. p - n \in S /\ p - n <= p
  BY <1>3
<1>5. ASSUME NEW d \in S, d <= p PROVE d <= p - n
  <2>1. p - d \in T
    BY <1>5
  <2>2. n <= p - d
    BY <2>1, <1>3
  <2>3. n \in Int /\ d \in Int
    BY <1>3
  <2> QED BY <2>2, <2>3
<1> QED
  BY <1>4, <1>5

LEMMA LeastAbove ==
    ASSUME NEW S \in SUBSET Int, NEW p \in Int, \E b \in S : p < b
    PROVE  \E x \in S : p < x /\ \A b \in S : p < b => x <= b
<1> DEFINE T == {n \in Nat : n > 0 /\ p + n \in S}
<1>1. PICK b \in S : p < b
  OBVIOUS
<1>2. b - p \in T
  BY <1>1
<1>3. PICK n \in T : \A m \in T : n <= m
  BY <1>2, LeastNatural
<1>4. p + n \in S /\ p < p + n
  BY <1>3
<1>5. ASSUME NEW d \in S, p < d PROVE p + n <= d
  <2>1. d - p \in T
    BY <1>5
  <2> QED BY <2>1, <1>3
<1> QED
  BY <1>4, <1>5

\* The terms of a contract of the group.
LEMMA Terms ==
    ASSUME group \in Groups, NEW c \in Contracts
    PROVE  WellFormed(group[c])
BY GroupsAssumption DEF Contracts

LEMMA RoundedIsInteger ==
    ASSUME NEW x \in Int
    PROVE  Rounded(x) \in Int
<1> DEFINE shown == IF (x + Grain) % Whole = 0 THEN x + Grain ELSE x
           half  == 2 * shown + Grain
           whole == 2 * Grain
<1>1. Grain \in Nat \ {0}
  BY PricesAssumption
<1>2. half \in Int /\ whole \in Nat /\ whole > 0
  BY <1>1
<1>3. half \div whole \in Int
  <2> HIDE DEF half, whole
  <2> QED BY <1>2
<1>4. (half \div whole) * Grain \in Int
  <2> DEFINE quotient == half \div whole
  <2> HIDE DEF quotient
  <2> SUFFICES quotient * Grain \in Int
    BY DEF quotient
  <2> QED BY <1>1, <1>3 DEF quotient
<1> QED
  BY <1>4 DEF Rounded

LEMMA StrikeIsInteger ==
    ASSUME group \in Groups, NEW c \in Contracts
    PROVE  Strike(group[c]) \in Int
<1>1. group[c].strike \in Int
  BY Terms DEF WellFormed, Contract
<1> QED
  BY <1>1, RoundedIsInteger DEF Strike

LEMMA BoundariesAreIntegers ==
    ASSUME group \in Groups
    PROVE  Boundaries \subseteq Int
<1>1. ASSUME NEW c \in Terminal
      PROVE  {Strike(group[c]), group[c].floor, group[c].cap} \subseteq Int
  <2>1. c \in Contracts
    BY DEF Terminal
  <2>2. group[c].floor \in Int /\ group[c].cap \in Int
    BY <2>1, Terms DEF WellFormed, Contract
  <2> QED
    BY <2>1, <2>2, StrikeIsInteger
<1> QED
  BY <1>1 DEF Boundaries

\* s is a state that the price p lies in.
Holds(s, p) ==
    /\ s \in States
    /\ Bottom <= s[1] /\ s[1] <= p
    /\ p < s[2] /\ s[2] <= Top

\* Every price lies in a state.
LEMMA PriceHasState ==
    ASSUME group \in Groups, NEW p \in Int, Bottom < p, p < Top
    PROVE  \E s \in States : Holds(s, p)
<1> USE PricesAssumption
<1>1. Boundaries \subseteq Int
  BY BoundariesAreIntegers
<1>2. PICK low \in Boundaries \cup {Bottom} :
        /\ low <= p
        /\ \A b \in Boundaries \cup {Bottom} : b <= p => b <= low
  BY <1>1, GreatestUpTo
<1>3. PICK high \in Boundaries \cup {Top} :
        /\ p < high
        /\ \A b \in Boundaries \cup {Top} : p < b => high <= b
  BY <1>1, LeastAbove
<1>4. low \in Int /\ high \in Int
  BY <1>1
<1>5. \A b \in Boundaries : b <= low \/ high <= b
  BY <1>1, <1>2, <1>3, <1>4
<1>6. low < high
  BY <1>2, <1>3, <1>4
<1>7. <<low, high>> \in States
  BY <1>5, <1>6 DEF States
<1>8. Bottom <= low /\ high <= Top
  BY <1>2, <1>3
<1> QED
  BY <1>2, <1>3, <1>7, <1>8 DEF Holds

-------------------------------------------------------------------------------
(***************************************************************************)
(* What a leg pays in the state of a price.                                *)
(***************************************************************************)

\* The strike of a contract is a boundary of states, and so are its floor and cap.
LEMMA OnTheGrid ==
    ASSUME group \in Groups, NEW c \in Terminal
    PROVE  {Strike(group[c]), group[c].floor, group[c].cap} \subseteq Boundaries \cup {Bottom, Top}
BY DEF Boundaries

\* A price is on the same side of a bound as the state it lies in.
LEMMA SameSide ==
    ASSUME group \in Groups, NEW p \in Int, NEW s, Holds(s, p),
           NEW x \in Boundaries \cup {Bottom, Top}
    PROVE  /\ x <= p <=> x <= s[1]
           /\ p < x <=> s[2] <= x
<1> USE PricesAssumption
<1>1. Boundaries \subseteq Int
  BY BoundariesAreIntegers
<1>2. PICK low \in Boundaries \cup {Bottom}, high \in Boundaries \cup {Top} :
        s = <<low, high>> /\ low < high /\ \A b \in Boundaries : b <= low \/ high <= b
  BY DEF Holds, States
<1>3. low \in Int /\ high \in Int /\ x \in Int /\ Bottom \in Int /\ Top \in Int
  BY <1>1
<1>4. Bottom <= low /\ low <= p /\ p < high /\ high <= Top
  BY <1>2 DEF Holds
<1>5. x <= low \/ high <= x
  BY <1>2, <1>3, <1>4
<1>6. x <= p <=> x <= low
  BY <1>3, <1>4, <1>5
<1>7. p < x <=> high <= x
  BY <1>3, <1>4, <1>5
<1> QED
  BY <1>2, <1>6, <1>7

\* Away from its strike, a contract pays at a price when it pays in its state.
LEMMA SideFits ==
    ASSUME group \in Groups, NEW c \in Terminal, NEW side \in {"YES", "NO"},
           NEW p \in Int, NEW s, Holds(s, p), Clear(group[c], p)
    PROVE  s \in Pays(group[c], side) <=> (YesWins(group[c], p) <=> side = "YES")
<1> DEFINE k == group[c]
<1> USE PricesAssumption
<1>0. c \in Contracts /\ k.shape # "up" /\ s \in States
  BY DEF Terminal, Holds
<1>1. WellFormed(k)
  BY <1>0, Terms
<1>2. k.shape \in {"above", "below", "range"}
  BY <1>0, <1>1 DEF WellFormed, Contract, Shapes
<1>3. Strike(k) \in Int /\ k.strike \in Int /\ k.floor \in Int /\ k.cap \in Int
  BY <1>0, <1>1, StrikeIsInteger DEF WellFormed, Contract
<1>4. /\ Strike(k) <= p <=> Strike(k) <= s[1]
      /\ p < Strike(k) <=> s[2] <= Strike(k)
  BY OnTheGrid, SameSide
<1>5. k.floor <= p <=> k.floor <= s[1]
  BY OnTheGrid, SameSide
<1>6. p < k.cap <=> s[2] <= k.cap
  BY OnTheGrid, SameSide
<1>7. s \in YesPays(k) <=> YesWins(k, p)
  <2>1. CASE k.shape = "range"
    <3>1. p # k.floor /\ p # k.cap
      BY <2>1 DEF Clear
    <3>2. YesPays(k) = Bucket(k)
      BY <2>1 DEF YesPays
    <3>3. YesWins(k, p) <=> k.floor <= p /\ p < k.cap
      BY <2>1, <3>1 DEF YesWins
    <3>4. s \in Bucket(k) <=> k.floor <= s[1] /\ s[2] <= k.cap
      BY <1>0 DEF Bucket
    <3> QED BY <3>2, <3>3, <3>4, <1>5, <1>6
  <2>2. CASE k.shape = "above"
    <3>1. (p < k.strike /\ p < Strike(k)) \/ (p > k.strike /\ p > Strike(k))
      BY <2>2 DEF Clear
    <3>2. YesPays(k) = Above(Strike(k))
      BY <2>2 DEF YesPays
    <3>3. YesWins(k, p) <=> k.strike < p
      BY <2>2, <3>1, <1>3 DEF YesWins
    <3>4. k.strike < p <=> Strike(k) <= p
      BY <3>1, <1>3
    <3>5. s \in Above(Strike(k)) <=> Strike(k) <= s[1]
      BY <1>0 DEF Above
    <3> QED BY <3>2, <3>3, <3>4, <3>5, <1>4
  <2>3. CASE k.shape = "below"
    <3>1. (p < k.strike /\ p < Strike(k)) \/ (p > k.strike /\ p > Strike(k))
      BY <2>3 DEF Clear
    <3>2. YesPays(k) = AtOrBelow(Strike(k))
      BY <2>3 DEF YesPays
    <3>3. YesWins(k, p) <=> p < k.strike
      BY <2>3, <3>1, <1>3 DEF YesWins
    <3>4. p < k.strike <=> p < Strike(k)
      BY <3>1, <1>3
    <3>5. s \in AtOrBelow(Strike(k)) <=> s[2] <= Strike(k)
      BY <1>0 DEF AtOrBelow
    <3> QED BY <3>2, <3>3, <3>4, <3>5, <1>4
  <2> QED BY <2>1, <2>2, <2>3, <1>2
<1> QED
  BY <1>0, <1>7 DEF Pays

\* A bucket of a Kalshi threshold pays no more than the threshold does.
LEMMA BucketWins ==
    ASSUME group \in Groups, NEW c \in Buckets,
           NEW p \in Int, NEW s, Holds(s, p), Clear(group[c], p), s \in Bucket(group[c])
    PROVE  YesWins(group[c], p)
<1> DEFINE k == group[c]
<1> USE PricesAssumption
<1>0. c \in Terminal /\ c \in Contracts /\ k.shape # "up"
  BY DEF Buckets, Terminal
<1>1. WellFormed(k)
  BY <1>0, Terms
<1>2. k.shape \in {"above", "below", "range"}
  BY <1>0, <1>1 DEF WellFormed, Contract, Shapes
<1>3. k.strike \in Int /\ k.floor \in Int /\ k.cap \in Int
  BY <1>1 DEF WellFormed, Contract
<1>4. k.floor <= p /\ p < k.cap
  BY <1>0, OnTheGrid, SameSide DEF Bucket
<1>5. CASE k.shape = "range"
  BY <1>4, <1>5 DEF YesWins
<1>6. CASE k.shape = "above"
  <2>1. k.floor = k.strike
    BY <1>1, <1>6 DEF WellFormed, Buckets
  <2>2. k.strike < p
    BY <2>1, <1>3, <1>4, <1>6 DEF Clear
  <2> QED BY <2>2, <1>6 DEF YesWins
<1>7. CASE k.shape = "below"
  <2>1. k.cap = k.strike
    BY <1>1, <1>7 DEF WellFormed, Buckets
  <2> QED BY <2>1, <1>4, <1>7 DEF YesWins
<1> QED
  BY <1>2, <1>5, <1>6, <1>7

-------------------------------------------------------------------------------
(***************************************************************************)
(* Instruments and rows.                                                   *)
(***************************************************************************)

LEMMA LegFields ==
    ASSUME NEW c, NEW side, NEW complement
    PROVE  /\ Leg(c, side, complement).c = c
           /\ Leg(c, side, complement).side = side
BY DEF Leg

\* The legs of an instrument are sides of terminal contracts.
LEMMA InstrumentLegs ==
    ASSUME NEW i \in Instruments, NEW leg \in i.legs
    PROVE  leg.c \in Terminal
<1>1. CASE i \in BaseInstruments
  <2>1. PICK c \in Terminal, side \in {"YES", "NO"} :
          i = [legs |-> {Leg(c, side, AcceptsBasis)}, pays |-> Pays(group[c], side), synthetic |-> FALSE]
    BY <1>1 DEF BaseInstruments
  <2>2. leg = Leg(c, side, AcceptsBasis)
    BY <2>1
  <2> QED BY <2>2, LegFields
<1>2. CASE i \in SyntheticInstruments
  <2>1. PICK B \in Syntheses :
          i = [legs |-> {Leg(c, "YES", FALSE) : c \in B}, pays |-> CoveredBy(B), synthetic |-> TRUE]
    BY <1>2 DEF SyntheticInstruments
  <2>2. PICK c \in B : leg = Leg(c, "YES", FALSE)
    BY <2>1
  <2>3. B \subseteq Buckets
    BY DEF Syntheses, BucketsAbove, BucketsNotAbove
  <2>4. c \in Terminal
    BY <2>3 DEF Buckets
  <2>5. leg.c = c /\ leg.side = "YES"
    BY <2>2 DEF Leg
  <2> QED BY <2>4, <2>5
<1> QED
  BY <1>1, <1>2 DEF Instruments

LEMMA InstrumentHasLegs ==
    ASSUME NEW i \in Instruments
    PROVE  i.legs # {}
<1>1. CASE i \in BaseInstruments
  BY <1>1 DEF BaseInstruments
<1>2. CASE i \in SyntheticInstruments
  <2>1. PICK B \in Syntheses :
          /\ B # {}
          /\ i = [legs |-> {Leg(c, "YES", FALSE) : c \in B}, pays |-> CoveredBy(B), synthetic |-> TRUE]
    BY <1>2 DEF SyntheticInstruments
  <2> QED BY <2>1
<1> QED
  BY <1>1, <1>2 DEF Instruments

\* A leg of an instrument pays at a price, when the instrument pays in its state.
LEMMA InstrumentWins ==
    ASSUME group \in Groups, NEW i \in Instruments,
           NEW p \in Int, NEW s, Holds(s, p), s \in i.pays,
           \A leg \in i.legs : Clear(group[leg.c], p)
    PROVE  \E leg \in i.legs : LegWins(leg, p)
<1>1. CASE i \in BaseInstruments
  <2>1. PICK c \in Terminal, side \in {"YES", "NO"} :
          i = [legs |-> {Leg(c, side, AcceptsBasis)}, pays |-> Pays(group[c], side), synthetic |-> FALSE]
    BY <1>1 DEF BaseInstruments
  <2> DEFINE leg == Leg(c, side, AcceptsBasis)
  <2>2. leg \in i.legs /\ s \in Pays(group[c], side)
    BY <2>1
  <2>3. leg.c = c /\ leg.side = side
    BY LegFields
  <2>4. Clear(group[c], p)
    BY <2>2, <2>3
  <2>5. YesWins(group[c], p) <=> side = "YES"
    BY <2>2, <2>4, SideFits
  <2> QED BY <2>2, <2>3, <2>5 DEF LegWins
<1>2. CASE i \in SyntheticInstruments
  <2>1. PICK B \in Syntheses :
          i = [legs |-> {Leg(c, "YES", FALSE) : c \in B}, pays |-> CoveredBy(B), synthetic |-> TRUE]
    BY <1>2 DEF SyntheticInstruments
  <2>2. PICK c \in B : s \in Bucket(group[c])
    BY <2>1 DEF CoveredBy
  <2>3. c \in Buckets
    BY DEF Syntheses, BucketsAbove, BucketsNotAbove
  <2> DEFINE leg == Leg(c, "YES", FALSE)
  <2>4. leg \in i.legs
    BY <2>1
  <2>5. leg.c = c /\ leg.side = "YES"
    BY LegFields
  <2>6. YesWins(group[c], p)
    BY <2>2, <2>3, <2>4, <2>5, BucketWins
  <2> QED BY <2>4, <2>5, <2>6 DEF LegWins
<1> QED
  BY <1>1, <1>2 DEF Instruments

\* A leg of the row pays at every price that is clear for all of them.
Covers(row) ==
    \A p \in Int :
       /\ Bottom < p /\ p < Top
       /\ \A leg \in row.legs : Clear(group[leg.c], p)
       => \E leg \in row.legs : LegWins(leg, p)

\* A row on the price at the instant, and a row of two sides of one window.
OnThePrice(row) ==
    /\ Covers(row)
    /\ row.legs # {} /\ \A leg \in row.legs : leg.c \in Terminal
    /\ row.cost < One

OnTheWindow(row) ==
    /\ row.class # "strict"
    /\ \E yes, no \in row.legs :
          /\ yes.side = "YES" /\ yes.c \in Contracts \ Terminal
          /\ no.side = "NO" /\ no.c \in Contracts \ Terminal

LEMMA BasketRowsCover ==
    ASSUME group \in Groups, NEW row \in BasketRows
    PROVE  OnThePrice(row)
<1>1. CASE \E i \in Instruments :
             /\ i.pays = States /\ Cheap(i.legs)
             /\ row = BasketRow("long_only", i.legs, Cost(i.legs))
  <2>1. PICK i \in Instruments :
             /\ i.pays = States /\ Cheap(i.legs)
             /\ row = BasketRow("long_only", i.legs, Cost(i.legs))
    BY <1>1
  <2>2. row.legs = i.legs /\ row.cost = Cost(i.legs)
    BY <2>1 DEF BasketRow
  <2>3. ASSUME NEW p \in Int, Bottom < p, p < Top,
               \A leg \in row.legs : Clear(group[leg.c], p)
        PROVE  \E leg \in row.legs : LegWins(leg, p)
    <3>1. PICK s \in States : Holds(s, p)
      BY <2>3, PriceHasState
    <3> QED BY <3>1, <2>1, <2>2, <2>3, InstrumentWins
  <2>4. row.legs # {} /\ \A leg \in row.legs : leg.c \in Terminal
    BY <2>2, InstrumentLegs, InstrumentHasLegs
  <2> QED BY <2>1, <2>2, <2>3, <2>4 DEF OnThePrice, Covers, Cheap
<1>2. CASE \E i, j \in Instruments :
             /\ Cover(i, j)
             /\ row = BasketRow(BasketType(i, j), i.legs \cup j.legs, Cost(i.legs) + Cost(j.legs))
  <2>1. PICK i \in Instruments, j \in Instruments :
             /\ Cover(i, j)
             /\ row = BasketRow(BasketType(i, j), i.legs \cup j.legs, Cost(i.legs) + Cost(j.legs))
    BY <1>2
  <2>2. row.legs = i.legs \cup j.legs /\ row.cost = Cost(i.legs) + Cost(j.legs)
    BY <2>1 DEF BasketRow
  <2>3. ASSUME NEW p \in Int, Bottom < p, p < Top,
               \A leg \in row.legs : Clear(group[leg.c], p)
        PROVE  \E leg \in row.legs : LegWins(leg, p)
    <3>1. PICK s \in States : Holds(s, p)
      BY <2>3, PriceHasState
    <3>2. CASE s \in i.pays
      BY <3>1, <3>2, <2>2, <2>3, InstrumentWins
    <3>3. CASE s \in j.pays
      BY <3>1, <3>3, <2>2, <2>3, InstrumentWins
    <3> QED BY <3>1, <3>2, <3>3, <2>1 DEF Cover
  <2>4. row.legs # {} /\ \A leg \in row.legs : leg.c \in Terminal
    BY <2>2, InstrumentLegs, InstrumentHasLegs
  <2> QED BY <2>1, <2>2, <2>3, <2>4 DEF OnThePrice, Covers, Cover
<1> QED
  BY <1>1, <1>2 DEF BasketRows

\* Below the higher strike NO above it pays, and from there on YES above the lower.
LEMMA CoverRowsCover ==
    ASSUME group \in Groups, NEW row \in CoverRows
    PROVE  OnThePrice(row)
<1>1. PICK lo \in Terminal, hi \in Terminal :
        /\ group[lo].shape = "above" /\ group[hi].shape = "above"
        /\ Strike(group[lo]) < Strike(group[hi])
        /\ Cheap(CoverLegs(lo, hi))
        /\ row = CoverRow(CoverLegs(lo, hi))
  BY DEF CoverRows
<1> DEFINE yes == Leg(lo, "YES", FALSE)
           no  == Leg(hi, "NO", TRUE)
<1>2. row.legs = CoverLegs(lo, hi) /\ row.cost = Cost(CoverLegs(lo, hi))
  BY <1>1 DEF CoverRow
<1>3. row.legs = {yes, no}
  BY <1>2 DEF CoverLegs
<1>4. yes.c = lo /\ yes.side = "YES" /\ no.c = hi /\ no.side = "NO"
  BY DEF Leg
<1>5. lo \in Contracts /\ hi \in Contracts
  BY DEF Terminal
<1>6. /\ Strike(group[lo]) \in Int /\ Strike(group[hi]) \in Int
      /\ group[lo].strike \in Int /\ group[hi].strike \in Int
  BY <1>5, StrikeIsInteger, Terms DEF WellFormed, Contract
<1>7. ASSUME NEW p \in Int, \A leg \in row.legs : Clear(group[leg.c], p)
      PROVE  \E leg \in row.legs : LegWins(leg, p)
  <2>1. Clear(group[lo], p) /\ Clear(group[hi], p)
    BY <1>3, <1>4, <1>7
  <2>2. group[lo].strike < p \/ p < group[hi].strike
    <3>1. (p < group[lo].strike /\ p < Strike(group[lo])) \/ (p > group[lo].strike /\ p > Strike(group[lo]))
      BY <2>1, <1>1 DEF Clear
    <3>2. (p < group[hi].strike /\ p < Strike(group[hi])) \/ (p > group[hi].strike /\ p > Strike(group[hi]))
      BY <2>1, <1>1 DEF Clear
    <3> QED BY <3>1, <3>2, <1>1, <1>6
  <2>3. CASE group[lo].strike < p
    <3>1. YesWins(group[lo], p)
      BY <2>3, <1>1 DEF YesWins
    <3> QED BY <3>1, <1>3, <1>4 DEF LegWins
  <2>4. CASE p < group[hi].strike
    <3>1. ~ (group[hi].strike < p) /\ p # group[hi].strike
      BY <2>4, <1>6
    <3>2. ~ YesWins(group[hi], p)
      BY <3>1, <1>1 DEF YesWins
    <3> QED BY <3>2, <1>3, <1>4 DEF LegWins
  <2> QED BY <2>2, <2>3, <2>4
<1>8. row.legs # {} /\ \A leg \in row.legs : leg.c \in Terminal
  BY <1>3, <1>4
<1> QED
  BY <1>1, <1>2, <1>7, <1>8 DEF OnThePrice, Covers, Cheap

LEMMA UpDownRowsAreWindows ==
    ASSUME NEW row \in UpDownRows
    PROVE  OnTheWindow(row)
<1>1. PICK a \in Contracts \ Terminal, b \in Contracts \ Terminal :
        row = UpDownRow(UpDownLegs(a, b))
  BY DEF UpDownRows
<1>2. row.legs = UpDownLegs(a, b) /\ row.class # "strict"
  BY <1>1 DEF UpDownRow
<1>3. Leg(a, "YES", AcceptsBasis) \in row.legs /\ Leg(b, "NO", AcceptsBasis) \in row.legs
  BY <1>2 DEF UpDownLegs
<1> QED
  BY <1>2, <1>3, LegFields DEF OnTheWindow

\* The sides of one window are opposite, when the sources agree on its start.
LEMMA WindowWins ==
    ASSUME NEW a \in Contracts \ Terminal, NEW b \in Contracts \ Terminal, NEW p \in Int,
           group[a].strike = group[b].strike, Clear(group[a], p), Clear(group[b], p)
    PROVE  YesWins(group[a], p) \/ ~ YesWins(group[b], p)
<1>1. group[a].shape = "up" /\ group[b].shape = "up"
  BY DEF Terminal
<1>2. p # group[a].strike /\ p # group[b].strike
  BY <1>1 DEF Clear
<1>3. /\ YesWins(group[a], p) <=> group[a].strike < p
      /\ YesWins(group[b], p) <=> group[b].strike < p
  BY <1>1, <1>2 DEF YesWins
<1> QED
  BY <1>3

-------------------------------------------------------------------------------
(***************************************************************************)
(* The scan and the settlement.                                            *)
(***************************************************************************)

\* Every candidate rests on the price at the instant or on one window, and every
\* source shows a price once it has settled.
ScanInv ==
    /\ group \in Groups
    /\ \A row \in rows : OnThePrice(row) \/ OnTheWindow(row)
    /\ phase = "settled" => price \in [Sources -> Prices]
    /\ phase = "loaded" => rows = {}

\* The candidates of a scan pay at every price that is clear for them, when they
\* are found and when they are settled.
THEOREM CandidatesCover == Spec => []ScanInv
<1>1. Init => ScanInv
  BY DEF Init, ScanInv
<1>2. ScanInv /\ [Next]_vars => ScanInv'
  <2> SUFFICES ASSUME ScanInv, [Next]_vars PROVE ScanInv'
    OBVIOUS
  <2>1. ASSUME group' = group, NEW row
        PROVE  /\ OnThePrice(row)' <=> OnThePrice(row)
               /\ OnTheWindow(row)' <=> OnTheWindow(row)
    BY <2>1 DEF OnThePrice, OnTheWindow, Covers, LegWins, Terminal, Contracts
  <2>2. CASE Scan
    <3>1. \A row \in rows' : OnThePrice(row) \/ OnTheWindow(row)
      BY <2>2, BasketRowsCover, CoverRowsCover, UpDownRowsAreWindows DEF Scan, ScanInv
    <3> QED BY <2>1, <2>2, <3>1 DEF Scan, ScanInv
  <2>3. CASE Settle
    <3>1. Sources' = Sources
      BY <2>3 DEF Settle, Sources, Contracts
    <3> QED BY <2>1, <2>3, <3>1 DEF Settle, ScanInv
  <2>4. CASE UNCHANGED vars
    <3>1. Sources' = Sources
      BY <2>4 DEF vars, Sources, Contracts
    <3> QED BY <2>1, <2>4, <3>1 DEF vars, ScanInv
  <2> QED BY <2>2, <2>3, <2>4 DEF Next
<1> QED
  BY <1>1, <1>2, PTL DEF Spec

\* What the source of a leg shows at the settlement is a price.
LEMMA PriceOfLeg ==
    ASSUME ScanInv, phase = "settled", NEW c \in Contracts
    PROVE  /\ price[group[c].source] \in Int
           /\ Bottom < price[group[c].source] /\ price[group[c].source] < Top
<1>1. price[group[c].source] \in Prices
  BY DEF ScanInv, Sources
<1> QED
  BY <1>1, PricesAssumption

\* Legs on the price whose sources show the same price do not all lose.
LEMMA SamePriceWins ==
    ASSUME ScanInv, phase = "settled", NEW row, OnThePrice(row), AllClear(row),
           \A l, m \in row.legs : price[group[l.c].source] = price[group[m.c].source]
    PROVE  \E leg \in row.legs : Wins(leg)
<1>1. ASSUME NEW p \in Int, Bottom < p, p < Top, \A leg \in row.legs : price[group[leg.c].source] = p
      PROVE  \E leg \in row.legs : Wins(leg)
  <2>1. \A leg \in row.legs : Clear(group[leg.c], p)
    BY <1>1 DEF AllClear
  <2>2. PICK leg \in row.legs : LegWins(leg, p)
    BY <1>1, <2>1 DEF OnThePrice, Covers
  <2> QED BY <1>1, <2>2 DEF Wins
<1>2. PICK l \in row.legs : l.c \in Contracts
  BY DEF OnThePrice, Terminal
<1> QED
  BY <1>1, <1>2, PriceOfLeg

\* Whatever the price, one of the legs of a candidate pays, as long as the sources
\* agree and the price is at no strike: for every group of contracts.
THEOREM CandidatesPay == Spec => []GuaranteePays
<1>1. ScanInv => GuaranteePays
  <2> SUFFICES ASSUME ScanInv, phase = "settled", NEW row \in rows,
                      SamePrices(row), AllClear(row)
               PROVE  \E leg \in row.legs : Wins(leg)
    BY DEF GuaranteePays
  <2>1. CASE OnThePrice(row)
    BY <2>1, SamePriceWins DEF SamePrices
  <2>2. CASE OnTheWindow(row)
    <3>1. PICK yes \in row.legs, no \in row.legs :
            /\ yes.side = "YES" /\ yes.c \in Contracts \ Terminal
            /\ no.side = "NO" /\ no.c \in Contracts \ Terminal
      BY <2>2 DEF OnTheWindow
    <3> DEFINE p == price[group[yes.c].source]
    <3>2. price[group[no.c].source] = p
      BY DEF SamePrices
    <3>3. group[yes.c].strike = group[no.c].strike
      BY <3>1 DEF SamePrices, Terminal
    <3>4. Clear(group[yes.c], p) /\ Clear(group[no.c], p)
      BY <3>2 DEF AllClear
    <3>5. p \in Int
      BY <3>1, PriceOfLeg
    <3>6. YesWins(group[yes.c], p) \/ ~ YesWins(group[no.c], p)
      BY <3>1, <3>3, <3>4, <3>5, WindowWins
    <3>7. Wins(yes) \/ Wins(no)
      BY <3>1, <3>2, <3>6 DEF Wins, LegWins
    <3> QED BY <3>7
  <2> QED BY <2>1, <2>2 DEF ScanInv
<1> QED
  BY <1>1, CandidatesCover, PTL

\* The legs of a strict candidate have one source.
LEMMA StrictHasOneSource ==
    ASSUME NEW row \in BasketRows \cup CoverRows \cup UpDownRows, row.class = "strict"
    PROVE  \A l, m \in row.legs : group[l.c].source = group[m.c].source
<1>1. ASSUME NEW type, NEW legs, NEW cost, row = BasketRow(type, legs, cost)
      PROVE  ~ CrossSource(row.legs)
  BY <1>1 DEF BasketRow
<1>2. ASSUME NEW legs, row = CoverRow(legs)
      PROVE  ~ CrossSource(row.legs)
  BY <1>2 DEF CoverRow, CrossVenue
<1>3. row \notin UpDownRows
  BY DEF UpDownRows, UpDownRow
<1>4. ~ CrossSource(row.legs)
  <2>1. CASE row \in BasketRows
    BY <2>1, <1>1 DEF BasketRows
  <2>2. CASE row \in CoverRows
    BY <2>2, <1>2 DEF CoverRows
  <2> QED BY <2>1, <2>2, <1>3
<1> QED
  BY <1>4 DEF CrossSource

\* The strict candidates of the report have one source each.
StrictInv ==
    \A row \in rows : row.class = "strict" =>
        \A l, m \in row.legs : group[l.c].source = group[m.c].source

THEOREM StrictHasOneSourceAlways == Spec => []StrictInv
<1>1. Init => StrictInv
  BY DEF Init, StrictInv
<1>2. StrictInv /\ [Next]_vars => StrictInv'
  <2> SUFFICES ASSUME StrictInv, [Next]_vars PROVE StrictInv'
    OBVIOUS
  <2>1. CASE Scan
    <3>1. \A row \in rows' : row.class = "strict" =>
            \A l, m \in row.legs : group[l.c].source = group[m.c].source
      BY <2>1, StrictHasOneSource DEF Scan
    <3> QED BY <2>1, <3>1 DEF Scan, StrictInv
  <2>2. CASE Settle
    BY <2>2 DEF Settle, StrictInv
  <2>3. CASE UNCHANGED vars
    BY <2>3 DEF vars, StrictInv
  <2> QED BY <2>1, <2>2, <2>3 DEF Next
<1> QED
  BY <1>1, <1>2, PTL DEF Spec

\* A candidate classed as strict earns more than it cost, whatever each source
\* shows: for every group of contracts.
THEOREM StrictCandidatesEarn == Spec => []StrictEarns
<1>1. ScanInv /\ StrictInv => StrictEarns
  <2> SUFFICES ASSUME ScanInv, StrictInv, phase = "settled",
                      NEW row \in rows, row.class = "strict", AllClear(row)
               PROVE  row.cost < (IF \E leg \in row.legs : Wins(leg) THEN One ELSE 0)
    BY DEF StrictEarns
  <2>1. OnThePrice(row)
    BY DEF ScanInv, OnTheWindow
  <2>2. \A l, m \in row.legs : price[group[l.c].source] = price[group[m.c].source]
    BY DEF StrictInv
  <2>3. \E leg \in row.legs : Wins(leg)
    BY <2>1, <2>2, SamePriceWins
  <2> QED BY <2>1, <2>3 DEF OnThePrice
<1> QED
  BY <1>1, CandidatesCover, StrictHasOneSourceAlways, PTL

-------------------------------------------------------------------------------
(***************************************************************************)
(* Nothing that is sure is overlooked.                                     *)
(***************************************************************************)

\* The price p is at no bound of k, and above and below the same ones as the state s.
Inside(p, s, k) ==
    \A x \in Bounds(k) : /\ x # p
                         /\ x < p <=> x <= s[1]
                         /\ p < x <=> s[2] <= x

\* The states lie between the ends of all prices.
LEMMA StatesBetween ==
    ASSUME Resolved, group \in Groups, NEW s \in States
    PROVE  /\ s[1] \in Int /\ s[2] \in Int /\ s[1] < s[2]
           /\ Bottom <= s[1] /\ s[2] <= Top
           /\ \A b \in Boundaries \cup {Bottom, Top} : b <= s[1] \/ s[2] <= b
<1> USE PricesAssumption
<1>1. ASSUME NEW b \in Boundaries PROVE b \in Int /\ Bottom < b /\ b < Top
  <2>1. PICK c \in Terminal : b \in {Strike(group[c]), group[c].floor, group[c].cap}
    BY DEF Boundaries
  <2>2. c \in Contracts /\ b # Bottom /\ b # Top /\ b \in Int
    BY BoundariesAreIntegers DEF Boundaries, Terminal
  <2>3. Bottom < Strike(group[c]) /\ Strike(group[c]) < Top
    BY <2>2 DEF Resolved, Contracts
  <2>4. WellFormed(group[c]) /\ group[c].shape \in {"above", "below", "range"}
    BY <2>2, Terms DEF WellFormed, Contract, Shapes, Terminal
  <2>5. /\ group[c].floor \in Int /\ group[c].cap \in Int /\ group[c].strike \in Int
        /\ Bottom <= group[c].floor /\ group[c].floor <= Top
        /\ Bottom <= group[c].cap /\ group[c].cap <= Top
    BY <2>4 DEF WellFormed, Contract
  <2> QED BY <2>1, <2>2, <2>3, <2>5
<1>2. PICK low \in Boundaries \cup {Bottom}, high \in Boundaries \cup {Top} :
        s = <<low, high>> /\ low < high /\ \A b \in Boundaries : b <= low \/ high <= b
  BY DEF States
<1>3. s[1] = low /\ s[2] = high
  BY <1>2
<1>4. Bottom < Top \/ Boundaries = {}
  BY <1>1
<1> QED BY <1>1, <1>2, <1>3

\* Every state holds a price that is clear of the bounds of any two contracts.
LEMMA StateHasPrice ==
    ASSUME Resolved, group \in Groups, NEW s \in States,
           NEW c \in Terminal, NEW d \in Terminal,
           Strike(group[c]) = group[c].strike, Strike(group[d]) = group[d].strike
    PROVE  \E p \in (Bottom + 1)..(Top - 1) : Inside(p, s, group[c]) /\ Inside(p, s, group[d])
<1> USE PricesAssumption
<1> DEFINE Own == Bounds(group[c]) \cup Bounds(group[d])
<1>1. c \in Contracts /\ d \in Contracts
  BY DEF Terminal
<1>2. Own \subseteq Int
  BY <1>1, Terms DEF WellFormed, Contract, Bounds
<1>3. Own \subseteq Boundaries \cup {Bottom, Top}
  BY OnTheGrid DEF Bounds
<1>4. /\ s[1] \in Int /\ s[2] \in Int /\ s[1] < s[2]
      /\ Bottom <= s[1] /\ s[2] <= Top
      /\ \A x \in Own : x <= s[1] \/ s[2] <= x
  BY <1>3, StatesBetween
<1>5. \A x \in Own \cup {Bottom}, y \in Own \cup {Top} : x < y => x + 1 < y
  BY <1>1 DEF Resolved, Contracts
<1> HIDE DEF Own
<1>6. PICK low \in Own \cup {Bottom} :
        low <= s[1] /\ \A x \in Own \cup {Bottom} : x <= s[1] => x <= low
  <2> DEFINE D == Own \cup {Bottom}
  <2>1. D \subseteq Int /\ Bottom \in D
    BY <1>2
  <2> HIDE DEF D
  <2>2. \E x \in D : x <= s[1] /\ \A b \in D : b <= s[1] => b <= x
    BY <1>4, <2>1, GreatestUpTo
  <2> QED BY <2>2 DEF D
<1> DEFINE p == low + 1
<1>7. p \in Int /\ Bottom < p /\ p < Top
  BY <1>2, <1>4, <1>5, <1>6
<1>8. ASSUME NEW x \in Own
      PROVE  x # p /\ (x < p <=> x <= s[1]) /\ (p < x <=> s[2] <= x)
  <2>1. CASE x <= s[1]
    BY <1>2, <1>4, <1>6, <2>1
  <2>2. CASE s[2] <= x
    <3>1. low < x
      BY <1>2, <1>4, <1>6, <2>2
    <3>2. p < x
      BY <1>5, <3>1
    <3> QED BY <1>2, <1>4, <1>7, <2>2, <3>2
  <2> QED BY <1>4, <2>1, <2>2
<1>9. Inside(p, s, group[c]) /\ Inside(p, s, group[d])
  <2>1. Bounds(group[c]) \subseteq Own /\ Bounds(group[d]) \subseteq Own
    BY DEF Own
  <2> HIDE DEF p
  <2> QED BY <1>8, <2>1 DEF Inside
<1> QED BY <1>7, <1>9

\* At such a price a contract pays exactly when it pays in the state.
LEMMA InsideFits ==
    ASSUME group \in Groups, NEW c \in Terminal, NEW side \in {"YES", "NO"},
           NEW p \in Int, NEW s \in States, Inside(p, s, group[c]),
           Strike(group[c]) = group[c].strike
    PROVE  /\ Clear(group[c], p)
           /\ s \in Pays(group[c], side) <=> (YesWins(group[c], p) <=> side = "YES")
<1> DEFINE k == group[c]
<1>1. c \in Contracts /\ k.shape # "up"
  BY DEF Terminal
<1>2. WellFormed(k) /\ k.shape \in {"above", "below", "range"}
  BY <1>1, Terms DEF WellFormed, Contract, Shapes
<1>3. k.strike \in Int /\ k.floor \in Int /\ k.cap \in Int
  BY <1>2 DEF WellFormed, Contract
<1>4. /\ k.strike # p /\ k.floor # p /\ k.cap # p
      /\ k.strike < p <=> k.strike <= s[1]
      /\ p < k.strike <=> s[2] <= k.strike
      /\ k.floor < p <=> k.floor <= s[1]
      /\ p < k.cap <=> s[2] <= k.cap
  BY DEF Inside, Bounds
<1>5. Clear(k, p)
  BY <1>1, <1>3, <1>4 DEF Clear
<1>6. s \in YesPays(k) <=> YesWins(k, p)
  <2>1. CASE k.shape = "range"
    <3>1. YesPays(k) = Bucket(k)
      BY <2>1 DEF YesPays
    <3>2. YesWins(k, p) <=> k.floor < p /\ p < k.cap
      BY <2>1, <1>3, <1>4 DEF YesWins
    <3> QED BY <1>4, <3>1, <3>2 DEF Bucket
  <2>2. CASE k.shape = "above"
    <3>1. YesPays(k) = Above(k.strike)
      BY <2>2 DEF YesPays
    <3>2. YesWins(k, p) <=> k.strike < p
      BY <2>2, <1>4 DEF YesWins
    <3> QED BY <1>4, <3>1, <3>2 DEF Above
  <2>3. CASE k.shape = "below"
    <3>1. YesPays(k) = AtOrBelow(k.strike)
      BY <2>3 DEF YesPays
    <3>2. YesWins(k, p) <=> p < k.strike
      BY <2>3, <1>4 DEF YesWins
    <3> QED BY <1>4, <3>1, <3>2 DEF AtOrBelow
  <2> QED BY <1>2, <2>1, <2>2, <2>3
<1> QED BY <1>5, <1>6 DEF Pays

\* Two sides that pay at every price clear of their bounds pay in every state.
LEMMA PairCovers ==
    ASSUME Resolved, group \in Groups, NEW c \in Terminal, NEW d \in Terminal,
           NEW side \in {"YES", "NO"}, NEW other \in {"YES", "NO"},
           Strike(group[c]) = group[c].strike, Strike(group[d]) = group[d].strike,
           \A p \in (Bottom + 1)..(Top - 1) :
              Clear(group[c], p) /\ Clear(group[d], p) =>
                 \/ YesWins(group[c], p) <=> side = "YES"
                 \/ YesWins(group[d], p) <=> other = "YES"
    PROVE  Pays(group[c], side) \cup Pays(group[d], other) = States
<1>1. ASSUME NEW s \in States
      PROVE  s \in Pays(group[c], side) \/ s \in Pays(group[d], other)
  <2>1. PICK p \in (Bottom + 1)..(Top - 1) :
          Inside(p, s, group[c]) /\ Inside(p, s, group[d])
    BY StateHasPrice
  <2>2. p \in Int
    BY <2>1, PricesAssumption
  <2>3. Clear(group[c], p) /\ Clear(group[d], p)
    BY <2>1, <2>2, InsideFits
  <2>4. \/ YesWins(group[c], p) <=> side = "YES"
        \/ YesWins(group[d], p) <=> other = "YES"
    BY <2>1, <2>3
  <2> QED BY <2>1, <2>2, <2>4, InsideFits
<1>2. ASSUME NEW e \in Terminal, NEW t PROVE Pays(group[e], t) \subseteq States
  <2>1. group[e].shape \in {"above", "below", "range"}
    BY Terms DEF Terminal, WellFormed, Contract, Shapes
  <2> QED BY <2>1 DEF Pays, YesPays, Bucket, Above, AtOrBelow
<1> QED BY <1>1, <1>2

\* What one leg costs, and the recursion that adds up what several do.
CostOf(leg) == leg.ask + Fee[group[leg.c].platform]

Adds(h, legs) ==
    h = [s \in SUBSET legs |-> IF s = {} THEN 0
                               ELSE LET leg == CHOOSE x \in s : TRUE
                                    IN  CostOf(leg) + h[s \ {leg}]]

LEMMA CostAdds ==
    ASSUME NEW legs, NEW g, Adds(g, legs)
    PROVE  \E h : Adds(h, legs) /\ Cost(legs) = h[legs]
<1> DEFINE Eq(f) == f = [s \in SUBSET legs |->
                 IF s = {} THEN 0 ELSE LET x == CHOOSE x \in s : TRUE
                                       IN  x.ask + Fee[group[x.c].platform] + f[s \ {x}]]
           h == CHOOSE f : Eq(f)
<1>1. Cost(legs) = h[legs]
  BY DEF Cost, MapThenSumSet, MapThenFoldSet
<1> HIDE DEF h
<1>2. ASSUME NEW f PROVE Eq(f) <=> Adds(f, legs)
  BY DEF Adds, CostOf
<1> HIDE DEF Eq
<1>3. Eq(h)
  BY <1>2 DEF h
<1> QED BY <1>1, <1>2, <1>3

\* What such a recursion says of no leg and of one.
LEMMA AddsOne ==
    ASSUME NEW legs, NEW h, Adds(h, legs), NEW l \in legs, CostOf(l) \in Int
    PROVE  h[{}] = 0 /\ h[{l}] = CostOf(l)
<1> HIDE DEF CostOf
<1>1. \A s \in SUBSET legs : h[s] = IF s = {} THEN 0 ELSE LET leg == CHOOSE x \in s : TRUE
                                                        IN  CostOf(leg) + h[s \ {leg}]
  BY DEF Adds
<1>2. {} \in SUBSET legs /\ {l} \in SUBSET legs
  OBVIOUS
<1>3. (CHOOSE x \in {l} : TRUE) = l /\ {l} \ {l} = {} /\ {l} # {}
  OBVIOUS
<1>4. h[{}] = 0
  BY <1>1, <1>2
<1>5. h[{l}] = CostOf(CHOOSE x \in {l} : TRUE) + h[{l} \ {CHOOSE x \in {l} : TRUE}]
  BY <1>1, <1>2, <1>3
<1> QED BY <1>3, <1>4, <1>5

LEMMA CostOfOne ==
    ASSUME NEW l, CostOf(l) \in Int
    PROVE  Cost({l}) = CostOf(l)
<1> HIDE DEF CostOf
<1> DEFINE g == [s \in SUBSET {l} |-> IF s = {} THEN 0 ELSE CostOf(l)]
<1>1. Adds(g, {l})
  <2>1. ASSUME NEW s \in SUBSET {l}, s # {}
        PROVE  (CHOOSE x \in s : TRUE) = l /\ s \ {l} = {}
    BY <2>1
  <2>2. ASSUME NEW s \in SUBSET {l}
        PROVE  g[s] = IF s = {} THEN 0 ELSE LET leg == CHOOSE x \in s : TRUE
                                            IN  CostOf(leg) + g[s \ {leg}]
    BY <2>1
  <2> HIDE DEF g
  <2>3. g = [s \in SUBSET {l} |-> g[s]]
    BY DEF g
  <2> QED BY <2>2, <2>3 DEF Adds
<1>2. PICK h : Adds(h, {l}) /\ Cost({l}) = h[{l}]
  BY <1>1, CostAdds
<1> QED
  <2> HIDE DEF g
  <2> QED BY <1>2, AddsOne

LEMMA CostOfTwo ==
    ASSUME NEW l, NEW m, l # m, CostOf(l) \in Int, CostOf(m) \in Int
    PROVE  Cost({l, m}) = CostOf(l) + CostOf(m)
<1> DEFINE L == {l, m}
           In(x, s) == IF x \in s THEN CostOf(x) ELSE 0
           g == [s \in SUBSET L |-> In(l, s) + In(m, s)]
<1>0. \A s \in SUBSET L : s # {} => (CHOOSE x \in s : TRUE) \in s
  OBVIOUS
<1>1. Adds(g, L)
  <2>1. ASSUME NEW s \in SUBSET L, NEW x \in s
        PROVE  g[s] = CostOf(x) + g[s \ {x}]
    <3>1. CASE x = l
      BY <3>1
    <3>2. CASE x = m
      BY <3>2
    <3> QED BY <3>1, <3>2
  <2>2. g[{}] = 0 /\ g = [s \in SUBSET L |-> g[s]]
    OBVIOUS
  <2> HIDE DEF g, L
  <2>3. ASSUME NEW s \in SUBSET L
        PROVE  g[s] = IF s = {} THEN 0 ELSE LET leg == CHOOSE x \in s : TRUE
                                            IN  CostOf(leg) + g[s \ {leg}]
    BY <1>0, <2>1, <2>2
  <2> QED BY <2>2, <2>3 DEF Adds
<1>2. PICK h : Adds(h, L) /\ Cost(L) = h[L]
  BY <1>1, CostAdds
<1>3. \E x \in L : h[L] = CostOf(x) + h[L \ {x}]
  <2> L # {} /\ L \in SUBSET L
    OBVIOUS
  <2> HIDE DEF g, L
  <2> QED BY <1>0, <1>2 DEF Adds
<1>4. h[{l}] = CostOf(l) /\ h[{m}] = CostOf(m)
  <2> l \in L /\ m \in L
    OBVIOUS
  <2> HIDE DEF g, L
  <2> QED BY <1>2, AddsOne
<1>5. PICK x \in L : h[L] = CostOf(x) + h[L \ {x}]
  BY <1>3
<1>6. CASE x = l
  <2>1. L \ {x} = {m}
    BY <1>6
  <2>2. Cost(L) = CostOf(l) + CostOf(m)
    BY <1>2, <1>4, <1>5, <1>6, <2>1
  <2> QED BY <2>2
<1>7. CASE x = m
  <2>1. L \ {x} = {l}
    BY <1>7
  <2>2. Cost(L) = CostOf(m) + CostOf(l)
    BY <1>2, <1>4, <1>5, <1>7, <2>1
  <2> QED BY <2>2
<1> QED BY <1>5, <1>6, <1>7

\* A side at its own ask.
Direct(c, side) == Leg(c, side, FALSE)

\* A side that has an ask is the same leg wherever it is made, and costs a natural
\* number.
LEMMA QuotedLeg ==
    ASSUME group \in Groups, quote \in [Contracts -> Quotes], NEW c \in Terminal,
           NEW side \in {"YES", "NO"}, Direct(c, side).ask # None
    PROVE  /\ Leg(c, side, AcceptsBasis) = Direct(c, side)
           /\ CostOf(Direct(c, side)) \in Nat
<1> DEFINE direct == IF side = "YES" THEN quote[c].yesAsk ELSE quote[c].noAsk
<1>1. c \in Contracts
  BY DEF Terminal
<1>2. direct \in Nat \cup {None}
  BY <1>1, CostsAssumption
<1>3. Direct(c, side) = [c |-> c, side |-> side, derived |-> FALSE, ask |-> direct]
  BY DEF Leg, Direct
<1>4. direct # None
  <2> HIDE DEF direct
  <2>1. Direct(c, side).ask = direct
    BY <1>3
  <2> QED BY <2>1
<1>5. Leg(c, side, AcceptsBasis) = [c |-> c, side |-> side, derived |-> FALSE, ask |-> direct]
  BY <1>4 DEF Leg
<1>6. group[c].platform \in {"kalshi", "polymarket", "cdna"}
  BY <1>1, Terms DEF WellFormed, Contract
<1>7. Fee[group[c].platform] \in Nat
  BY <1>6, CostsAssumption
<1> HIDE DEF direct
<1>8. CostOf(Direct(c, side)) = direct + Fee[group[c].platform]
  <2>1. Direct(c, side).ask = direct /\ Direct(c, side).c = c
    BY <1>3
  <2> QED BY <2>1 DEF CostOf
<1> QED BY <1>2, <1>3, <1>4, <1>5, <1>7, <1>8

\* What CheapCoverIsFound asks of the legs of two sides.
SureLegs(legs) ==
    LET cross == CrossSource(legs)
    IN /\ \A leg \in legs : /\ Strike(group[leg.c]) = group[leg.c].strike
                            /\ quote[leg.c].fresh /\ quote[leg.c].sized
       /\ Priced(legs) /\ Adjusted(legs, Cost(legs), cross) > 0
       /\ cross \/ Cdna(legs) => AcceptsBasis
       /\ Cdna(legs) => options.acceptCdna
       /\ \A p \in (Bottom + 1)..(Top - 1) :
             (\A leg \in legs : Clear(group[leg.c], p)) => \E leg \in legs : LegWins(leg, p)

Sure(c, side, d, other) ==
    (c # d \/ side # other) /\ SureLegs({Direct(c, side), Direct(d, other)})

LEMMA SureIsRow ==
    ASSUME Resolved, MaxBasketLegs >= 2, group \in Groups, quote \in [Contracts -> Quotes],
           NEW c \in Terminal, NEW d \in Terminal,
           NEW side \in {"YES", "NO"}, NEW other \in {"YES", "NO"}, Sure(c, side, d, other)
    PROVE  \E row \in BasketRows :
              row.paper /\ row.legs = {Direct(c, side), Direct(d, other)}
<1> DEFINE l == Direct(c, side)
           m == Direct(d, other)
           i == [legs |-> {l}, pays |-> Pays(group[c], side), synthetic |-> FALSE]
           j == [legs |-> {m}, pays |-> Pays(group[d], other), synthetic |-> FALSE]
           cost == Cost({l}) + Cost({m})
           row == BasketRow(BasketType(i, j), i.legs \cup j.legs, cost)
<1>1. l.c = c /\ l.side = side /\ m.c = d /\ m.side = other
  BY DEF Leg, Direct
<1>2. /\ c # d \/ side # other
      /\ Strike(group[c]) = group[c].strike /\ Strike(group[d]) = group[d].strike
      /\ ~Blocked({l, m})
      /\ l.ask # None /\ m.ask # None /\ Priced({l, m})
      /\ Adjusted({l, m}, Cost({l, m}), CrossSource({l, m})) > 0
      /\ CrossSource({l, m}) \/ Cdna({l, m}) => AcceptsBasis
      /\ Cdna({l, m}) => options.acceptCdna
  BY <1>1 DEF Sure, SureLegs, Blocked, Priced
<1>3. l # m
  BY <1>1, <1>2
<1>4. /\ Leg(c, side, AcceptsBasis) = l /\ Leg(d, other, AcceptsBasis) = m
      /\ CostOf(l) \in Nat /\ CostOf(m) \in Nat
  BY <1>2, QuotedLeg
<1>5. i \in Instruments /\ j \in Instruments
  <2> HIDE DEF l, m
  <2>1. i \in BaseInstruments /\ j \in BaseInstruments
    <3> DEFINE I(x, t) == [legs |-> {Leg(x, t, AcceptsBasis)}, pays |-> Pays(group[x], t),
                           synthetic |-> FALSE]
    <3>1. I(c, side) \in BaseInstruments /\ I(d, other) \in BaseInstruments
      <4>1. BaseInstruments = {I(x, t) : x \in Terminal, t \in {"YES", "NO"}}
        BY DEF BaseInstruments
      <4> HIDE DEF I
      <4>2. /\ I(c, side) \in {I(x, t) : x \in Terminal, t \in {"YES", "NO"}}
            /\ I(d, other) \in {I(x, t) : x \in Terminal, t \in {"YES", "NO"}}
        OBVIOUS
      <4> QED BY <4>1, <4>2
    <3> QED BY <1>4, <3>1
  <2> QED BY <2>1 DEF Instruments
<1>6. Pays(group[c], side) \cup Pays(group[d], other) = States
  <2>1. ASSUME NEW p \in (Bottom + 1)..(Top - 1), Clear(group[c], p), Clear(group[d], p)
        PROVE  \/ YesWins(group[c], p) <=> side = "YES"
               \/ YesWins(group[d], p) <=> other = "YES"
    <3>1. LegWins(l, p) \/ LegWins(m, p)
      BY <1>1, <2>1 DEF Sure, SureLegs
    <3> QED BY <1>1, <3>1 DEF LegWins
  <2> QED BY <1>2, <2>1, PairCovers
<1> HIDE DEF l, m
<1>7. Cost({l, m}) = cost /\ cost \in Nat
  BY <1>3, <1>4, CostOfOne, CostOfTwo
<1>8. cost < One
  <2>1. Buffer \in Nat /\ One \in Nat
    BY CostsAssumption, PricesAssumption
  <2> HIDE DEF cost
  <2> QED BY <1>2, <1>7, <2>1 DEF Adjusted
<1>9. Cover(i, j)
  <2>1. Cardinality({l}) = 1 /\ Cardinality({m}) = 1 /\ MaxBasketLegs \in Nat
    BY FS_Singleton, CostsAssumption
  <2>2. {l} \cup {m} = {l, m}
    OBVIOUS
  <2>3. i # j
    BY <1>3
  <2>4. i.legs = {l} /\ j.legs = {m} /\ i.pays \cup j.pays = States
    BY <1>6
  <2>5. cost = Cost(i.legs) + Cost(j.legs)
    BY <2>4
  <2> HIDE DEF i, j, cost
  <2> QED BY <1>2, <1>8, <2>1, <2>2, <2>3, <2>4, <2>5 DEF Cover
<1>10. row \in BasketRows
  <2>1. cost = Cost(i.legs) + Cost(j.legs)
    OBVIOUS
  <2> HIDE DEF i, j, cost
  <2>2. <<i, j>> \in {p \in Instruments \X Instruments : Cover(p[1], p[2])}
    BY <1>5, <1>9
  <2>3. row = BasketRow(BasketType(i, j), i.legs \cup j.legs, Cost(i.legs) + Cost(j.legs))
    BY <2>1
  <2> HIDE DEF row
  <2>4. row \in {BasketRow(BasketType(q[1], q[2]), q[1].legs \cup q[2].legs,
                          Cost(q[1].legs) + Cost(q[2].legs)) :
                   q \in {p \in Instruments \X Instruments : Cover(p[1], p[2])}}
    <3> DEFINE q == <<i, j>>
    <3>1. q[1] = i /\ q[2] = j
      OBVIOUS
    <3>2. row = BasketRow(BasketType(q[1], q[2]), q[1].legs \cup q[2].legs,
                          Cost(q[1].legs) + Cost(q[2].legs))
      BY <2>3, <3>1
    <3> HIDE DEF q
    <3> QED BY <2>2, <3>2, Zenon DEF q
  <2> QED BY <2>4, Zenon DEF BasketRows
<1>11. row.legs = {l, m}
  BY DEF BasketRow
<1>12. row.paper
  <2>1. i.legs \cup j.legs = {l, m}
    OBVIOUS
  <2> HIDE DEF cost, i, j
  <2> QED BY <1>2, <1>7, <2>1 DEF BasketRow
<1> QED BY <1>10, <1>11, <1>12 DEF l, m

\* What legs cost depends on nothing but the contracts.
CostIn(g, legs) == MapThenSumSet(LAMBDA leg : leg.ask + Fee[g[leg.c].platform], legs)

CostsOfTheGroup == \A legs : Cost(legs) = CostIn(group, legs)

LEMMA CostsAreOfTheGroup == CostsOfTheGroup
BY DEF Cost, CostIn, CostsOfTheGroup

LEMMA CostKept ==
    ASSUME group' = group, NEW legs PROVE Cost(legs)' = Cost(legs)
<1>1. CostsOfTheGroup
  BY CostsAreOfTheGroup
<1>2. CostsOfTheGroup'
  BY CostsAreOfTheGroup, PTL
<1>3. Cost(legs)' = CostIn(group', legs)
  BY <1>2 DEF CostsOfTheGroup
<1> QED BY <1>1, <1>3 DEF CostsOfTheGroup

LEMMA SureKept ==
    ASSUME group' = group, quote' = quote, options' = options,
           NEW c, NEW side, NEW d, NEW other
    PROVE  /\ Sure(c, side, d, other)' <=> Sure(c, side, d, other)
           /\ Direct(c, side)' = Direct(c, side)
<1>1. ASSUME NEW x, NEW t PROVE Direct(x, t)' = Direct(x, t)
  BY DEF Direct, Leg
<1>2. ASSUME NEW legs PROVE SureLegs(legs)' <=> SureLegs(legs)
  <2>1. /\ Cost(legs)' = Cost(legs) /\ CrossSource(legs)' = CrossSource(legs)
        /\ Cdna(legs)' = Cdna(legs) /\ AcceptsBasis' = AcceptsBasis
    BY CostKept DEF CrossSource, Cdna, AcceptsBasis
  <2>2. ASSUME NEW leg, NEW p PROVE LegWins(leg, p)' <=> LegWins(leg, p)
    BY DEF LegWins
  <2> QED BY <2>1, <2>2 DEF SureLegs
<1> QED BY <1>1, <1>2 DEF Sure

Offered(found, legs) == \E row \in found : row.paper /\ row.legs = legs

\* Every sure pair of sides is among these rows.
FoundIn(found) ==
    \A c, d \in Terminal : \A side, other \in {"YES", "NO"} :
        Sure(c, side, d, other) => Offered(found, {Direct(c, side), Direct(d, other)})

SureInv ==
    /\ group \in Groups /\ quote \in [Contracts -> Quotes]
    /\ phase = "scanned" => FoundIn(rows)

\* Two sides that by their own terms pay at every price, quoted fresh and with size for
\* less than One, are found and offered, for every group of contracts whose bounds have
\* prices between them.
THEOREM SureCoversAreFound ==
    ASSUME Resolved, MaxBasketLegs >= 2 PROVE Spec => []CheapCoverIsFound
<1>1. Init => SureInv
  BY DEF Init, SureInv
<1>2. SureInv /\ [Next]_vars => SureInv'
  <2> SUFFICES ASSUME SureInv, [Next]_vars PROVE SureInv'
    OBVIOUS
  <2>1. /\ group' = group /\ quote' = quote /\ options' = options
        /\ Contracts' = Contracts /\ Terminal' = Terminal
    BY DEF Next, Scan, Settle, vars, Contracts, Terminal
  <2>2. ASSUME NEW found PROVE FoundIn(found)' <=> FoundIn(found)
    <3>1. ASSUME NEW c, NEW side, NEW d, NEW other
          PROVE  /\ Sure(c, side, d, other)' <=> Sure(c, side, d, other)
                 /\ Direct(c, side)' = Direct(c, side)
      BY <2>1, SureKept
    <3> DEFINE Fine(c, d, side, other) ==
          Sure(c, side, d, other) => Offered(found, {Direct(c, side), Direct(d, other)})
    <3>2. FoundIn(found) <=> \A c, d \in Terminal : \A side, other \in {"YES", "NO"} :
                                Fine(c, d, side, other)
      BY DEF FoundIn
    <3>3. FoundIn(found)' <=> \A c, d \in Terminal' : \A side, other \in {"YES", "NO"} :
                                 Fine(c, d, side, other)'
      BY DEF FoundIn
    <3>4. ASSUME NEW c, NEW d, NEW side, NEW other
          PROVE  Fine(c, d, side, other)' <=> Fine(c, d, side, other)
      BY <3>1
    <3> HIDE DEF Fine
    <3> QED BY <2>1, <3>2, <3>3, <3>4
  <2>3. CASE Scan
    <3>1. FoundIn(BasketRows)
      BY SureIsRow DEF FoundIn, Offered, SureInv, Direct
    <3>2. FoundIn(rows')
      <4>1. BasketRows \subseteq rows'
        BY <2>3 DEF Scan
      <4>2. \A legs : Offered(BasketRows, legs) => Offered(rows', legs)
        BY <4>1 DEF Offered
      <4> QED BY <3>1, <4>2 DEF FoundIn
    <3> QED BY <2>1, <2>2, <3>2 DEF SureInv
  <2>4. CASE Settle
    BY <2>1, <2>4 DEF Settle, SureInv
  <2>5. CASE UNCHANGED vars
    BY <2>1, <2>2, <2>5 DEF vars, SureInv
  <2> QED BY <2>3, <2>4, <2>5 DEF Next
<1>3. SureInv => CheapCoverIsFound
  BY DEF SureInv, FoundIn, Offered, Sure, SureLegs, Direct, CheapCoverIsFound
<1> QED BY <1>1, <1>2, <1>3, PTL DEF Spec
================================================================================
