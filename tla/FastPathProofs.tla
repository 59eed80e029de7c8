----------------------------- MODULE FastPathProofs -----------------------------
(***************************************************************************)
(* Theorems about FastPath for any baskets, prices, limits and times: what *)
(* an execution was judged by, although the cache outlives the tick and    *)
(* the universe it was filled for.                                         *)
(***************************************************************************)
EXTENDS FastPath, FiniteSetTheorems, WellFoundedInduction, TLAPS

Time == 0..MaxTime

TypeInv ==
    /\ price \in [Instruments -> Prices]
    /\ now \in Nat /\ started \in Nat /\ completed \in Nat /\ lastFound \in Nat
    /\ now <= MaxTime /\ started <= now /\ completed <= now /\ lastFound <= now
    /\ tick \in 0..Ticks /\ (pc # "tick" => tick < Ticks)
    /\ killFile \in BOOLEAN
    /\ pc \in {"tick", "start", "fetch", "evaluate", "execute"}
    /\ DOMAIN universe \subseteq Baskets
    /\ \A b \in DOMAIN universe : universe[b] \in [b -> Prices]
    /\ watched \subseteq Legs /\ DOMAIN cache \subseteq Legs
    /\ \A l \in DOMAIN cache : cache[l] \in [ask : Prices \cup {NoAsk}, at : Time]
    /\ pending \subseteq DOMAIN universe /\ decided \subseteq DOMAIN universe
    /\ pc \in {"tick", "start", "fetch"} => pending = {} /\ decided = {}

\* Either every candidate is watched whole, or none is and nothing but watched legs
\* was ever quoted: narrowing happens once, before the first refresh.
Watching ==
    \/ \A b \in DOMAIN universe : b \subseteq watched
    \/ /\ \A b \in DOMAIN universe : ~(b \subseteq watched)
       /\ DOMAIN cache \subseteq watched

\* In a refresh every watched leg has a quote of this refresh or is still asked for;
\* after it, until the tick ends, every one has.
Fresh(l) == l \in DOMAIN cache /\ cache[l].at = started

Refreshed ==
    /\ pc = "fetch" => \A l \in watched : Target(l) \in toFetch \/ Fresh(l)
    /\ pc \in {"evaluate", "execute"} => \A l \in watched : Fresh(l)

\* The candidates of this tick that were passed by did not qualify.
Judged ==
    pc \in {"evaluate", "execute"} =>
        \A b \in DOMAIN universe \ (pending \cup decided) : ~Qualifies(b)

\* What is executed was decided on and priced by watched legs, in time.
Executing ==
    pc = "execute" =>
        /\ trade.basket \in decided
        /\ \A l \in trade.basket : l \in watched /\ cache[l].ask # NoAsk
        /\ trade.at - completed <= MaxDecisionAge

TickInv == TypeInv /\ Watching /\ Refreshed /\ Judged /\ Executing

-------------------------------------------------------------------------------
LEMMA InstrumentsKnown == ASSUME NEW l \in Legs PROVE l \in Instruments /\ Token(l) \in Instruments
BY DEF Instruments

LEMMA BasketIsLegs == ASSUME NEW b \in Baskets PROVE b \subseteq Legs
BY DEF Legs

\* What a discovery freezes is priced leg by leg.
LEMMA DiscoveredTyped ==
    ASSUME NEW asks \in [Instruments -> Prices]
    PROVE  /\ DOMAIN Discovered(asks) \subseteq Baskets
           /\ \A b \in DOMAIN Discovered(asks) : Discovered(asks)[b] \in [b -> Prices]
<1>1. ASSUME NEW b \in Baskets PROVE [l \in b |-> asks[l]] \in [b -> Prices]
  <2>1. \A l \in b : l \in Instruments
    BY BasketIsLegs, InstrumentsKnown
  <2> QED BY <2>1
<1> QED BY <1>1 DEF Discovered

\* A candidate is judged by the cache and nothing else.
LEMMA JudgedByTheCache ==
    ASSUME NEW b \in Baskets, cache' = cache PROVE Qualifies(b)' <=> Qualifies(b)
<1>1. CachedAsks(b)' = CachedAsks(b)
  BY DEF CachedAsks
<1> QED BY <1>1 DEF Qualifies, AllQuoted

LEMMA InitTickInv == Init => TickInv
<1> SUFFICES ASSUME Init PROVE TickInv
  OBVIOUS
<1>1. PICK before \in [Instruments -> Prices] :
        LET u == Discovered(before)
        IN  \E best \in KeptCandidates(u) : \E w \in KeptLegs(u, best) :
               watched = w /\ universe = [b \in Priced(best, w) |-> u[b]]
  BY DEF Init
<1> DEFINE u == Discovered(before)
<1>2. PICK best \in KeptCandidates(u) : \E w \in KeptLegs(u, best) :
        watched = w /\ universe = [b \in Priced(best, w) |-> u[b]]
  BY <1>1
<1> DEFINE w == watched
<1>0. w \in KeptLegs(u, best) /\ universe = [b \in Priced(best, w) |-> u[b]]
  BY <1>2
<1>3. /\ DOMAIN u \subseteq Baskets
      /\ \A b \in DOMAIN u : u[b] \in [b -> Prices]
  BY DiscoveredTyped
<1> HIDE DEF u, w
<1>4. best \subseteq DOMAIN u /\ w \subseteq UNION best
  BY <1>0 DEF KeptCandidates, KeptLegs
<1>5. DOMAIN universe = Priced(best, w) /\ Priced(best, w) \subseteq best
  BY <1>0 DEF Priced
<1>6. TypeInv
  <2>1. watched \subseteq Legs
    BY <1>3, <1>4, BasketIsLegs DEF w
  <2>2. /\ DOMAIN universe \subseteq Baskets
        /\ \A b \in DOMAIN universe : universe[b] \in [b -> Prices]
    BY <1>0, <1>3, <1>4, <1>5
  <2>3. DOMAIN cache = {}
    BY DEF Init
  <2> QED BY <2>1, <2>2, <2>3, TimeAssumption DEF Init, TypeInv
<1>7. Watching
  <2>1. DOMAIN cache = {}
    BY DEF Init
  <2>2. CASE \E b \in best : b \subseteq w
    BY <1>0, <1>5, <2>2 DEF Watching, Priced, w
  <2>3. CASE ~ \E b \in best : b \subseteq w
    BY <1>0, <1>5, <2>1, <2>3 DEF Watching, w
  <2> QED BY <2>2, <2>3
<1> QED BY <1>6, <1>7 DEF TickInv, Init, Refreshed, Judged, Executing

-------------------------------------------------------------------------------
\* The universe is kept or replaced, and then watched whole.
LEMMA DiscoveryStep == ASSUME TickInv, KeepUniverse \/ Rediscover PROVE TickInv'
<1>0. TypeInv /\ Watching /\ pc = "tick" /\ pc' = "start" /\ pending = {} /\ decided = {}
  BY DEF TickInv, TypeInv, KeepUniverse, Rediscover
<1>1. UNCHANGED <<market, tick, quotes, pending, decided, trade>>
  BY DEF KeepUniverse, Rediscover
<1>2. /\ Watching' /\ watched' \subseteq Legs /\ DOMAIN universe' \subseteq Baskets
      /\ \A b \in DOMAIN universe' : universe'[b] \in [b -> Prices]
  <2>1. CASE KeepUniverse
    BY <1>0, <2>1 DEF KeepUniverse, Watching, TypeInv, quotes
  <2>2. CASE Rediscover
    <3>1. universe' = Discovered(price) /\ watched' = UNION DOMAIN universe'
      BY <2>2 DEF Rediscover, WatchAll
    <3>2. /\ DOMAIN universe' \subseteq Baskets
          /\ \A b \in DOMAIN universe' : universe'[b] \in [b -> Prices]
      BY <1>0, <3>1, DiscoveredTyped DEF TypeInv
    <3>3. watched' \subseteq Legs
      BY <3>1, <3>2, BasketIsLegs
    <3>4. Watching'
      BY <3>1 DEF Watching
    <3> QED BY <3>2, <3>3, <3>4
  <2> QED BY <2>1, <2>2
<1>3. lastFound' \in {lastFound, now} /\ tick < Ticks
  BY DEF KeepUniverse, Rediscover
<1>4. TypeInv'
  BY <1>0, <1>1, <1>2, <1>3 DEF TypeInv, market, quotes
<1> QED BY <1>0, <1>2, <1>4 DEF TickInv, Refreshed, Judged, Executing

LEMMA StartRefreshStep == ASSUME TickInv, StartRefresh PROVE TickInv'
<1>0. TypeInv /\ Watching
  BY DEF TickInv
<1>1. /\ pc = "start" /\ pc' = "fetch" /\ started' = now
      /\ toFetch' = {Target(l) : l \in watched}
      /\ UNCHANGED <<market, tick, found, cache, completed, pending, decided, trade>>
  BY DEF StartRefresh
<1>2. TypeInv' /\ Watching'
  BY <1>0, <1>1 DEF TypeInv, Watching, market, found
<1>3. Refreshed'
  BY <1>1 DEF Refreshed, found, Target, Token
<1> QED BY <1>1, <1>2, <1>3 DEF TickInv, Judged, Executing

\* A fetch answers for every watched leg of its book.
LEMMA FetchStep ==
    ASSUME TickInv, NEW target \in toFetch, Fetch(target) PROVE TickInv'
<1>0. TypeInv /\ Watching /\ Refreshed
  BY DEF TickInv
<1>1. PICK ok \in BOOLEAN : cache' = Store(Answered(target), ok)
  BY DEF Fetch
<1>2. /\ pc = "fetch" /\ toFetch' = toFetch \ {target}
      /\ UNCHANGED <<market, pc, tick, found, started, completed, pending, decided, trade>>
  BY DEF Fetch
<1> DEFINE A == Answered(target)
           ask(l) == IF ok THEN price[Token(l)] ELSE NoAsk
<1>3. /\ DOMAIN cache' = DOMAIN cache \cup A
      /\ \A l \in A : cache'[l] = [ask |-> ask(l), at |-> started]
      /\ \A l \in DOMAIN cache \ A : cache'[l] = cache[l]
  BY <1>1 DEF Store, Quote
<1>4. A \subseteq watched /\ \A l \in watched \ A : Target(l) # target
  BY DEF Answered
<1>5. \A l \in A : cache'[l].at = started /\ cache'[l].ask = ask(l)
  BY <1>3
<1>6. \A l \in DOMAIN cache' : cache'[l] \in [ask : Prices \cup {NoAsk}, at : Time]
  <2>1. ASSUME NEW l \in A PROVE cache'[l] \in [ask : Prices \cup {NoAsk}, at : Time]
    <3>1. ask(l) \in Prices \cup {NoAsk}
      BY <1>0, <1>4, InstrumentsKnown DEF TypeInv
    <3>2. started \in Time
      BY <1>0, TimeAssumption DEF TypeInv, Time
    <3> HIDE DEF ask, A
    <3> QED BY <1>3, <3>1, <3>2
  <2>2. \A l \in DOMAIN cache \ A : cache'[l] \in [ask : Prices \cup {NoAsk}, at : Time]
    BY <1>0, <1>3 DEF TypeInv
  <2> QED BY <1>3, <2>1, <2>2
<1> HIDE DEF A, ask
<1>7. DOMAIN cache' \subseteq Legs
  BY <1>0, <1>3, <1>4 DEF TypeInv
<1>8. TypeInv'
  BY <1>0, <1>2, <1>6, <1>7 DEF TypeInv, market, found
<1>9. Watching'
  BY <1>0, <1>2, <1>3, <1>4 DEF Watching, found
<1>10. Refreshed'
  <2>1. ASSUME NEW l \in watched PROVE Target(l) \in toFetch' \/ Fresh(l)'
    <3>1. CASE l \in A
      BY <1>2, <1>3, <1>5, <3>1 DEF Fresh
    <3>2. CASE l \notin A
      <4>1. Target(l) # target
        BY <1>4, <3>2
      <4>2. CASE Target(l) \in toFetch
        BY <1>2, <4>1, <4>2
      <4>3. CASE Fresh(l)
        BY <1>2, <1>3, <3>2, <4>3 DEF Fresh
      <4> QED BY <1>0, <1>2, <4>2, <4>3 DEF Refreshed
    <3> QED BY <3>1, <3>2
  <2> QED BY <1>2, <2>1 DEF Refreshed, found, Target, Token
<1> QED BY <1>2, <1>8, <1>9, <1>10 DEF TickInv, Judged, Executing

LEMMA EndRefreshStep == ASSUME TickInv, EndRefresh PROVE TickInv'
<1>0. TypeInv /\ Watching /\ Refreshed
  BY DEF TickInv
<1>1. /\ pc = "fetch" /\ toFetch = {} /\ pc' = "evaluate" /\ completed' = now
      /\ pending' = DOMAIN universe
      /\ UNCHANGED <<market, tick, found, cache, toFetch, started, decided, trade>>
  BY DEF EndRefresh
<1>2. TypeInv' /\ Watching'
  BY <1>0, <1>1 DEF TypeInv, Watching, market, found
<1>3. Refreshed'
  BY <1>0, <1>1 DEF Refreshed, Fresh, found
<1> QED BY <1>1, <1>2, <1>3 DEF TickInv, Judged, Executing, found

\* A candidate is passed by or decided on.
LEMMA JudgeStep ==
    ASSUME TickInv, NEW b \in pending, Skip(b) \/ DecideToTrade(b) \/ DecideNotToTrade(b)
    PROVE  TickInv'
<1>0. TypeInv /\ Watching /\ Refreshed /\ Judged /\ Executing
  BY DEF TickInv
<1>1. /\ pc = "evaluate" /\ pending' = pending \ {b}
      /\ decided' \in {decided, decided \cup {b}}
      /\ pc' \in {"evaluate", "execute"}
      /\ UNCHANGED <<market, tick, found, quotes>>
  BY DEF Skip, DecideToTrade, DecideNotToTrade
<1>2. b \in DOMAIN universe
  BY <1>0 DEF TypeInv
<1>3. TypeInv' /\ Watching' /\ Refreshed'
  BY <1>0, <1>1, <1>2 DEF TypeInv, Watching, Refreshed, Fresh, market, found, quotes
<1>4. Judged'
  <2>1. \A c \in DOMAIN universe : Qualifies(c)' <=> Qualifies(c)
    BY <1>0, <1>1, JudgedByTheCache DEF quotes, TypeInv
  <2>2. Qualifies(b) => b \in decided'
    BY DEF Skip, DecideToTrade, DecideNotToTrade
  <2> QED BY <1>0, <1>1, <2>1, <2>2 DEF Judged, found
<1>5. Executing'
  <2>1. CASE Skip(b) \/ DecideNotToTrade(b)
    BY <1>1, <2>1 DEF Executing, Skip, DecideNotToTrade
  <2>2. CASE DecideToTrade(b)
    <3>1. /\ AllQuoted(b) /\ now - completed <= MaxDecisionAge
          /\ trade' = [basket |-> b, limits |-> LimitsOf(b), at |-> now]
          /\ decided' = decided \cup {b}
      BY <2>2 DEF DecideToTrade, Qualifies, Gates
    <3>2. \A l \in b : l \in DOMAIN cache /\ cache[l].ask # NoAsk
      BY <3>1 DEF AllQuoted
    <3>3. b \subseteq watched
      BY <1>0, <1>2, <3>2 DEF Watching
    <3> QED BY <1>1, <3>1, <3>2, <3>3 DEF Executing, found, quotes
  <2> QED BY <2>1, <2>2
<1> QED BY <1>3, <1>4, <1>5 DEF TickInv

\* An execution returns, or the tick ends.
LEMMA ReturnStep == ASSUME TickInv, Executed \/ EndTick PROVE TickInv'
<1>0. TypeInv /\ Watching /\ Refreshed /\ Judged
  BY DEF TickInv
<1>1. /\ UNCHANGED <<market, found, quotes, pending>>
      /\ \/ pc = "execute" /\ pc' = "evaluate" /\ UNCHANGED <<tick, decided>>
         \/ /\ pc = "evaluate" /\ pending = {} /\ pc' = "tick"
            /\ tick' = tick + 1 /\ decided' = {}
  BY DEF Executed, EndTick
<1>2. TypeInv' /\ Watching' /\ Refreshed'
  BY <1>0, <1>1, TimeAssumption
     DEF TypeInv, Watching, Refreshed, Fresh, market, found, quotes
<1>3. Judged'
  <2>1. \A c \in DOMAIN universe : Qualifies(c)' <=> Qualifies(c)
    BY <1>0, <1>1, JudgedByTheCache DEF quotes, TypeInv
  <2> QED BY <1>0, <1>1, <2>1 DEF Judged, found
<1> QED BY <1>1, <1>2, <1>3 DEF TickInv, Executing

\* Prices drift, time passes, the operator acts.
LEMMA WorldStep ==
    ASSUME TickInv,
           (\E x \in Instruments : Drift(x)) \/ Pass \/ OperatorTogglesKill \/ UNCHANGED vars
    PROVE  TickInv'
<1>0. TypeInv /\ Watching /\ Refreshed /\ Judged /\ Executing
  BY DEF TickInv
<1>1. UNCHANGED <<pc, tick, found, quotes, pending, decided, trade>>
  BY DEF Drift, Pass, OperatorTogglesKill, vars
<1>2. /\ price' \in [Instruments -> Prices] /\ killFile' \in BOOLEAN
      /\ now' = now \/ (now < MaxTime /\ now' = now + 1)
  BY <1>0 DEF TypeInv, Drift, Pass, OperatorTogglesKill, vars, market
<1>3. TypeInv'
  BY <1>0, <1>1, <1>2, TimeAssumption DEF TypeInv, found, quotes
<1>4. Watching' /\ Refreshed' /\ Executing'
  BY <1>0, <1>1 DEF Watching, Refreshed, Fresh, Executing, found, quotes
<1>5. Judged'
  <2>1. \A c \in DOMAIN universe : Qualifies(c)' <=> Qualifies(c)
    BY <1>0, <1>1, JudgedByTheCache DEF quotes, TypeInv
  <2> QED BY <1>0, <1>1, <2>1 DEF Judged, found
<1> QED BY <1>3, <1>4, <1>5 DEF TickInv

LEMMA NextTickInv == TickInv /\ [Next]_vars => TickInv'
<1> SUFFICES ASSUME TickInv, [Next]_vars PROVE TickInv'
  OBVIOUS
<1>1. CASE KeepUniverse \/ Rediscover
  BY <1>1, DiscoveryStep
<1>2. CASE StartRefresh
  BY <1>2, StartRefreshStep
<1>3. CASE \E target \in toFetch : Fetch(target)
  BY <1>3, FetchStep
<1>4. CASE EndRefresh
  BY <1>4, EndRefreshStep
<1>5. CASE \E b \in pending : Skip(b) \/ DecideToTrade(b) \/ DecideNotToTrade(b)
  BY <1>5, JudgeStep
<1>6. CASE Executed \/ EndTick
  BY <1>6, ReturnStep
<1>7. CASE (\E x \in Instruments : Drift(x)) \/ Pass \/ OperatorTogglesKill \/ UNCHANGED vars
  BY <1>7, WorldStep
<1> QED BY <1>1, <1>2, <1>3, <1>4, <1>5, <1>6, <1>7 DEF Next, Loop

LEMMA TickInvHolds == Spec => []TickInv
<1> QED BY InitTickInv, NextTickInv, PTL DEF Spec

-------------------------------------------------------------------------------
\* The types of the loop: all times lie behind the clock, and every cached quote and
\* frozen candidate is priced.
THEOREM TypeCorrectLoop == Spec => []TypeOK
<1>1. TickInv => TypeOK
  <2> SUFFICES ASSUME TickInv PROVE TypeOK
    OBVIOUS
  <2>1. TypeInv
    BY DEF TickInv
  <2>2. {now, tick, started, completed, lastFound} \subseteq 0..MaxTime \cup 0..Ticks
    BY <2>1, TimeAssumption DEF TypeInv
  <2> QED BY <2>1, <2>2 DEF TickInv, TypeInv, TypeOK, Executing, Time
<1> QED BY <1>1, TickInvHolds, PTL

\* No execution is judged by a quote of an earlier tick, by a missing one or too late,
\* whatever re-discovery, narrowing and failed fetches leave in the cache.
THEOREM QuotesAreOfThisTick == Spec => []QuotesOfThisTick
<1>1. TickInv => QuotesOfThisTick
  BY DEF TickInv, Executing, Refreshed, Fresh, QuotesOfThisTick
<1> QED BY <1>1, TickInvHolds, PTL

\* Narrowing and re-discovery never leave a candidate with unwatched legs beside one
\* that is watched whole.
THEOREM UniverseStaysWatched == Spec => []UniverseIsWatched
<1>1. TickInv => UniverseIsWatched
  BY DEF TickInv, Watching, UniverseIsWatched
<1> QED BY <1>1, TickInvHolds, PTL

-------------------------------------------------------------------------------
(***************************************************************************)
(* An edge is a sum over the legs of a basket, and falls when asks rise.   *)
(***************************************************************************)

\* g is the sum of F over every subset of S, in whatever order.
IsSum(g, F, S) ==
    /\ g \in [SUBSET S -> Int] /\ g[{}] = 0
    /\ \A T \in SUBSET S : \A x \in T : g[T] = F[x] + g[T \ {x}]

\* A number of which a set of naturals is the set of counterexamples: there is a least one.
LEMMA LeastCounterexample ==
    ASSUME NEW B \in SUBSET Nat, B # {}
    PROVE  \E n \in B : \A m \in Nat : m < n => m \notin B
<1>1. PICK n \in B : \A m \in B : ~(<<m, n>> \in OpToRel(<, Nat))
  BY NatLessThanWellFounded, WFMin
<1>2. \A m \in B : ~(m < n)
  BY <1>1, Zenon DEF OpToRel
<1> QED BY <1>2

\* Without one of its elements a finite set is smaller by one.
LEMMA OneLess ==
    ASSUME NEW T, IsFiniteSet(T), NEW x \in T
    PROVE  /\ Cardinality(T) \in Nat /\ Cardinality(T \ {x}) \in Nat
           /\ Cardinality(T \ {x}) < Cardinality(T)
<1>1. IsFiniteSet(T \ {x}) /\ Cardinality(T \ {x}) = Cardinality(T) - 1
  BY FS_RemoveElement
<1>2. Cardinality(T) \in Nat /\ Cardinality(T \ {x}) \in Nat
  BY <1>1, FS_CardinalityType
<1> QED BY <1>1, <1>2

LEMMA SumExists ==
    ASSUME NEW S, IsFiniteSet(S), NEW F \in [S -> Int]
    PROVE  \E g : IsSum(g, F, S)
<1> DEFINE Bad(T) == ~ \E g : IsSum(g, F, T)
           B == {n \in Nat : \E T \in SUBSET S : Cardinality(T) = n /\ Bad(T)}
<1> SUFFICES ASSUME Bad(S) PROVE FALSE
  OBVIOUS
<1>1. Cardinality(S) \in B
  BY FS_CardinalityType
<1>2. PICK n \in B : \A m \in Nat : m < n => m \notin B
  BY <1>1, LeastCounterexample
<1>3. PICK T \in SUBSET S : Cardinality(T) = n /\ Bad(T)
  OBVIOUS
<1>4. IsFiniteSet(T)
  BY FS_Subset
<1>5. T # {}
  <2> SUFFICES ASSUME T = {} PROVE FALSE
    OBVIOUS
  <2> DEFINE g == [U \in SUBSET T |-> 0]
  <2>1. IsSum(g, F, T)
    BY DEF IsSum
  <2> QED BY <1>3, <2>1
<1>6. PICK x \in T : TRUE
  BY <1>5
<1> DEFINE R == T \ {x}
<1>7. R \in SUBSET S /\ Cardinality(R) \in Nat /\ Cardinality(R) < n
  BY <1>3, <1>4, OneLess
<1>8. ~Bad(R)
  BY <1>2, <1>7
<1> HIDE DEF B
<1>9. PICK h : IsSum(h, F, R)
  BY <1>8
<1> DEFINE g == [U \in SUBSET T |-> IF x \in U THEN F[x] + h[U \ {x}] ELSE h[U]]
<1>10. F[x] \in Int /\ \A y \in T : F[y] \in Int
  OBVIOUS
<1>11. \A U \in SUBSET R : h[U] \in Int
  BY <1>9 DEF IsSum
<1>12. g \in [SUBSET T -> Int] /\ g[{}] = 0
  <2>1. ASSUME NEW U \in SUBSET T
        PROVE (IF x \in U THEN F[x] + h[U \ {x}] ELSE h[U]) \in Int
    <3>1. U \ {x} \in SUBSET R
      OBVIOUS
    <3> QED BY <1>10, <1>11, <3>1
  <2> QED BY <1>9, <2>1 DEF IsSum
<1>13. ASSUME NEW U \in SUBSET T, NEW y \in U PROVE g[U] = F[y] + g[U \ {y}]
  <2>1. CASE y = x
    BY <2>1
  <2>2. CASE y # x /\ x \notin U
    <3>1. U \in SUBSET R /\ g[U] = h[U] /\ g[U \ {y}] = h[U \ {y}]
      BY <2>2
    <3> QED BY <1>9, <3>1 DEF IsSum
  <2>3. CASE y # x /\ x \in U
    <3> DEFINE V == U \ {x}
    <3>1. V \in SUBSET R /\ y \in V /\ (U \ {y}) \ {x} = V \ {y}
      BY <2>3
    <3>2. h[V] = F[y] + h[V \ {y}]
      BY <1>9, <3>1 DEF IsSum
    <3>3. g[U] = F[x] + h[V] /\ g[U \ {y}] = F[x] + h[V \ {y}]
      BY <2>3, <3>1
    <3>4. h[V \ {y}] \in Int
      BY <1>11, <3>1
    <3> HIDE DEF g, V
    <3> QED BY <1>10, <3>2, <3>3, <3>4
  <2> QED BY <2>1, <2>2, <2>3
<1>14. IsSum(g, F, T)
  <2> HIDE DEF g
  <2> QED BY <1>12, <1>13 DEF IsSum
<1> QED BY <1>3, <1>14

\* The recursion of MapThenSumSet computes the sum.
ByChoice(h, F, S) ==
    h = [s \in SUBSET S |-> IF s = {} THEN 0
                            ELSE LET x == CHOOSE x \in s : TRUE IN F[x] + h[s \ {x}]]

LEMMA ChosenSumExists ==
    ASSUME NEW S, IsFiniteSet(S), NEW F \in [S -> Int]
    PROVE  \E f : ByChoice(f, F, S)
<1>1. PICK f : IsSum(f, F, S)
  BY SumExists
<1>2. ASSUME NEW s \in SUBSET S
      PROVE  f[s] = IF s = {} THEN 0 ELSE LET x == CHOOSE x \in s : TRUE
                                          IN  F[x] + f[s \ {x}]
  <2>1. CASE s = {}
    BY <1>1, <2>1 DEF IsSum
  <2>2. CASE s # {}
    <3>1. (CHOOSE x \in s : TRUE) \in s
      BY <2>2
    <3> QED BY <1>1, <2>2, <3>1 DEF IsSum
  <2> QED BY <2>1, <2>2
<1>3. f \in [SUBSET S -> Int]
  BY <1>1 DEF IsSum
<1> QED BY <1>2, <1>3 DEF ByChoice

\* A sum of greater numbers is greater.
AtMost(F, G, S) == \A x \in S : F[x] <= G[x]

LEMMA ChosenSumMonotone ==
    ASSUME NEW S, IsFiniteSet(S), NEW F \in [S -> Int], NEW G \in [S -> Int],
           AtMost(F, G, S), NEW f, ByChoice(f, F, S), NEW g, ByChoice(g, G, S)
    PROVE  f[S] \in Int /\ g[S] \in Int /\ f[S] <= g[S]
<1> DEFINE Fine(T) == f[T] \in Int /\ g[T] \in Int /\ f[T] <= g[T]
           B == {n \in Nat : \E T \in SUBSET S : Cardinality(T) = n /\ ~Fine(T)}
<1> SUFFICES ASSUME ~Fine(S) PROVE FALSE
  OBVIOUS
<1>1. Cardinality(S) \in B
  BY FS_CardinalityType
<1>2. PICK n \in B : \A m \in Nat : m < n => m \notin B
  BY <1>1, LeastCounterexample
<1>3. PICK T \in SUBSET S : Cardinality(T) = n /\ ~Fine(T)
  OBVIOUS
<1>4. \A s \in SUBSET S : s = {} => f[s] = 0 /\ g[s] = 0
  BY DEF ByChoice
<1>5. T # {} /\ IsFiniteSet(T)
  BY <1>3, <1>4, FS_Subset
<1> DEFINE x == CHOOSE x \in T : TRUE
           R == T \ {x}
<1>6. x \in T
  BY <1>5
<1>7. f[T] = F[x] + f[R] /\ g[T] = G[x] + g[R]
  BY <1>5 DEF ByChoice
<1> HIDE DEF x
<1>8. R \in SUBSET S /\ Cardinality(R) \in Nat /\ Cardinality(R) < n
  BY <1>3, <1>5, <1>6, OneLess
<1>9. Fine(R)
  <2> HIDE DEF Fine, R
  <2> QED BY <1>2, <1>8
<1>10. F[x] \in Int /\ G[x] \in Int /\ F[x] <= G[x]
  BY <1>6 DEF AtMost
<1> QED BY <1>3, <1>7, <1>9, <1>10

\* The edge of a basket falls when its legs cost more.
Summands(b, ask) == [l \in b |-> ask[l] + Fee]

LEMMA EdgeIsChosenSum ==
    ASSUME NEW b \in Baskets, NEW ask, Summands(b, ask) \in [b -> Int]
    PROVE  \E h : ByChoice(h, Summands(b, ask), b) /\ Edge(b, ask) = MinPayoff - h[b]
<1>1. IsFiniteSet(b)
  BY BasketsAssumption
<1> DEFINE Eq(h) == h = [s \in SUBSET b |->
                 IF s = {} THEN 0 ELSE LET x == CHOOSE x \in s : TRUE
                                       IN  ask[x] + Fee + h[s \ {x}]]
           h == CHOOSE h : Eq(h)
<1>2. Edge(b, ask) = MinPayoff - h[b]
  BY DEF Edge, MapThenSumSet, MapThenFoldSet
<1> HIDE DEF h
<1>3. ASSUME NEW g PROVE Eq(g) <=> ByChoice(g, Summands(b, ask), b)
  <2>1. \A s \in SUBSET b : s # {} => (CHOOSE x \in s : TRUE) \in b
    OBVIOUS
  <2>2. \A s \in SUBSET b : s # {} =>
          Summands(b, ask)[CHOOSE x \in s : TRUE] = ask[CHOOSE x \in s : TRUE] + Fee
    BY <2>1 DEF Summands
  <2> QED BY <2>2 DEF ByChoice
<1> HIDE DEF Eq
<1>4. PICK f : ByChoice(f, Summands(b, ask), b)
  BY <1>1, ChosenSumExists
<1>5. Eq(f)
  BY <1>3, <1>4
<1>6. Eq(h)
  BY <1>5 DEF h
<1> QED BY <1>2, <1>3, <1>6

LEMMA EdgeFalls ==
    ASSUME NEW b \in Baskets, NEW low \in [b -> Int], NEW high \in [b -> Int],
           \A l \in b : low[l] <= high[l]
    PROVE  Edge(b, low) \in Int /\ Edge(b, high) \in Int /\ Edge(b, high) <= Edge(b, low)
<1>1. Fee \in Int /\ MinPayoff \in Int /\ IsFiniteSet(b)
  BY PricesAssumption, EdgeAssumption, BasketsAssumption
<1>2. /\ Summands(b, low) \in [b -> Int] /\ Summands(b, high) \in [b -> Int]
      /\ AtMost(Summands(b, low), Summands(b, high), b)
  BY <1>1 DEF Summands, AtMost
<1>3. PICK f : ByChoice(f, Summands(b, low), b) /\ Edge(b, low) = MinPayoff - f[b]
  BY <1>2, EdgeIsChosenSum
<1>4. PICK g : ByChoice(g, Summands(b, high), b) /\ Edge(b, high) = MinPayoff - g[b]
  BY <1>2, EdgeIsChosenSum
<1>5. f[b] \in Int /\ g[b] \in Int /\ f[b] <= g[b]
  BY <1>1, <1>2, <1>3, <1>4, ChosenSumMonotone
<1> QED BY <1>1, <1>3, <1>4, <1>5

\* A limit is no less than its ask, if no ask is above the payoff.
LEMMA LimitsAboveAsks ==
    ASSUME NEW ask \in Nat, ask <= One
    PROVE  MaxLimitPrice(ask) \in Nat /\ ask <= MaxLimitPrice(ask)
<1>1. One \in Nat /\ Slip \in Nat
  BY PricesAssumption, EdgeAssumption
<1>2. \E x \in {ask + Slip, One} : \A y \in {ask + Slip, One} : x <= y
  <2>1. CASE ask + Slip <= One
    BY <1>1, <2>1
  <2>2. CASE One <= ask + Slip
    BY <1>1, <2>2
  <2> QED BY <1>1, <2>1, <2>2
<1>3. Min({ask + Slip, One}) \in {ask + Slip, One}
  BY <1>2 DEF Min
<1> QED BY <1>1, <1>3 DEF MaxLimitPrice

\* When a tick ends, a candidate that is still worth its minimum edge at the prices it
\* was quoted was decided on, if no ask is above the payoff of a contract: its edge at
\* the limits is then the smaller one, and the only one that decides.
THEOREM EdgesAreDecided ==
    ASSUME \A p \in Prices : p <= One PROVE Spec => []EdgeIsDecided
<1>1. TickInv => EdgeIsDecided
  <2> SUFFICES ASSUME TickInv, pc = "evaluate", pending = {},
                      NEW b \in DOMAIN universe, b \notin decided,
                      \A l \in b : l \in DOMAIN cache /\ cache[l] = Quote(price[l]),
                      EdgeAtLimits(b, [l \in b |-> price[l]]) >= MinEdge
               PROVE  FALSE
    BY DEF EdgeIsDecided
  <2>1. b \in Baskets /\ ~Qualifies(b)
    BY DEF TickInv, TypeInv, Judged
  <2> DEFINE asks == [l \in b |-> price[l]]
             limits == [l \in b |-> MaxLimitPrice(asks[l])]
  <2>2. ASSUME NEW l \in b
        PROVE  price[l] \in Nat /\ price[l] <= One /\ cache[l].ask = price[l]
    <3>1. price[l] \in Prices
      BY <2>1, BasketIsLegs, InstrumentsKnown DEF TickInv, TypeInv
    <3>2. price[l] \in Nat /\ price[l] <= One
      BY <3>1, PricesAssumption
    <3>3. cache[l] = Quote(price[l])
      OBVIOUS
    <3>4. cache[l].ask = price[l]
      BY <3>3 DEF Quote
    <3> QED BY <3>2, <3>4
  <2>3. AllQuoted(b)
    BY <2>2 DEF AllQuoted, NoAsk
  <2>4. CachedAsks(b) = asks
    BY <2>2 DEF CachedAsks
  <2>5. asks \in [b -> Int]
    BY <2>2
  <2>6. limits \in [b -> Int] /\ \A l \in b : asks[l] <= limits[l]
    BY <2>2, LimitsAboveAsks
  <2>7. EdgeAtLimits(b, asks) = Edge(b, limits)
    BY DEF EdgeAtLimits
  <2> HIDE DEF asks, limits
  <2>8. Edge(b, asks) \in Int /\ Edge(b, limits) \in Int /\ Edge(b, limits) <= Edge(b, asks)
    BY <2>1, <2>5, <2>6, EdgeFalls
  <2>9. EdgeAtLimits(b, asks) >= MinEdge /\ MinEdge \in Int
    BY EdgeAssumption DEF asks
  <2> QED BY <2>1, <2>3, <2>4, <2>7, <2>8, <2>9 DEF Qualifies
<1> QED BY <1>1, TickInvHolds, PTL
===============================================================================
