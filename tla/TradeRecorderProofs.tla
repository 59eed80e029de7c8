-------------------------- MODULE TradeRecorderProofs --------------------------
(***************************************************************************)
(* Theorems about TradeRecorder for any pages, look-back, prints, failures,*)
(* crashes and other writers.  The mark never passes a print that is neither stored nor  *)
(* excused: such a print is either still to be read by the poll that runs, *)
(* or newer than whatever this recorder stored, or left behind by a poll   *)
(* that broke off.                                                         *)
(***************************************************************************)
EXTENDS TradeRecorder, FiniteSetTheorems, WellFoundedInduction, TLAPS

Causes == {"old", "other", "broken", "row", "cut"}

TypeInv ==
    /\ setting \in [mode : {"ticker", "global"}, inclusive : BOOLEAN]
    /\ now \in Nat \ {0}
    /\ tape \in Seq(Nat) /\ Len(tape) <= MaxPrints
    /\ stored \subseteq Prints
    /\ mark \in Nat
    /\ pc \in {"sleeping", "poll", "page", "rows", "books", "down"}
    /\ poll \in [min : Int, newest : Nat, pages : Nat, cursor : Nat, rows : SUBSET Nat]
    /\ poll.cursor <= Len(tape) /\ poll.rows \subseteq Prints
    /\ behind \subseteq Prints
    /\ why \in [1..MaxPrints -> SUBSET Causes]

\* The tape is in order, and of the past.
TapeInOrder ==
    /\ \A i \in Prints : tape[i] \in 1..now
    /\ \A i, j \in Prints : i <= j => tape[i] <= tape[j]

Polling == pc \in {"page", "rows"}

\* A print that is neither stored nor excused.
Awaited(i) == i \notin stored /\ why[i] = {}

\* The mark, and what a poll will set it to, is the second of a print that it stored.
MarkIsStored ==
    /\ mark # 0 => \E j \in Own : tape[j] = mark
    /\ Polling /\ poll.newest # 0 => \E j \in Own : tape[j] = poll.newest

MarkPassesNone ==
    mark # 0 => \A i \in Prints : Awaited(i) => After(tape[i], mark - 1)

\* The poll will read the print, or the print came after it began.
PollPassesNone ==
    Polling => /\ pc = "page" => poll.rows = {}
               /\ \A i \in Prints : Awaited(i) =>
                     i \in Unread \/ \A j \in Own \cup Unread : j < i

\* Between polls only those that broke off account for a print older than one of its own.
LeftBehind ==
    ~Polling => \A i \in Prints : Awaited(i) => i \in behind \/ \A j \in Own : j < i

RecorderInv == /\ TypeInv /\ TapeInOrder
               /\ MarkIsStored /\ MarkPassesNone /\ PollPassesNone /\ LeftBehind

-------------------------------------------------------------------------------
\* Greatest and least elements.
LEMMA LeastOf ==
    ASSUME NEW T \in SUBSET Nat, T # {}
    PROVE  Min(T) \in T /\ \A y \in T : Min(T) <= y
<1>1. \E x \in T : \A y \in T : ~ (<<y, x>> \in OpToRel(<, Nat))
  BY NatLessThanWellFounded, WFMin
<1>2. \E x \in T : \A y \in T : ~ (y < x)
  BY <1>1, Zenon DEF OpToRel
<1>3. \E x \in T : \A y \in T : x <= y
  BY <1>2
<1> QED BY <1>3 DEF Min

LEMMA GreatestOf ==
    ASSUME NEW T \in SUBSET Int, T # {}, NEW bound \in Int, \A y \in T : y <= bound
    PROVE  Max(T) \in T /\ \A y \in T : y <= Max(T)
<1> DEFINE U == {n \in Nat : bound - n \in T}
<1>1. U \in SUBSET Nat /\ U # {}
  <2>1. PICK y \in T : TRUE
    OBVIOUS
  <2>2. bound - y \in U
    BY <2>1
  <2> QED BY <2>2
<1>2. Min(U) \in U /\ \A n \in U : Min(U) <= n
  BY <1>1, LeastOf
<1>3. ASSUME NEW y \in T PROVE y <= bound - Min(U)
  <2>1. bound - y \in U
    BY <1>3
  <2> QED BY <1>2, <2>1
<1>4. \E x \in T : \A y \in T : x >= y
  BY <1>2, <1>3
<1> QED BY <1>4 DEF Max

LEMMA GreaterOf ==
    ASSUME NEW a \in Int, NEW b \in Int
    PROVE  Max({a, b}) \in {a, b} /\ a <= Max({a, b}) /\ b <= Max({a, b})
<1> DEFINE bound == IF a <= b THEN b ELSE a
<1>1. bound \in Int /\ a <= bound /\ b <= bound
  OBVIOUS
<1>2. {a, b} \in SUBSET Int /\ {a, b} # {} /\ \A y \in {a, b} : y <= bound
  BY <1>1
<1> HIDE DEF bound
<1> QED BY <1>1, <1>2, GreatestOf

LEMMA PrintsOfTape == TypeInv => /\ Prints = 1..Len(tape) /\ Len(tape) \in Nat
                                 /\ Prints \subseteq 1..MaxPrints /\ MaxPrints \in Nat
BY BoundsAssumption DEF TypeInv, Prints

LEMMA AfterLater ==
    ASSUME NEW second \in Int, NEW min \in Int
    PROVE  /\ second > min => After(second, min)
           /\ After(second, min) => second >= min
BY DEF After

LEMMA InitRecorderInv == Init => RecorderInv
<1> SUFFICES ASSUME Init PROVE RecorderInv
  OBVIOUS
<1> USE DEF Init
<1>1. Prints = {} /\ Len(tape) = 0
  BY DEF Prints
<1>2. TypeInv
  <2>1. setting \in [mode : {"ticker", "global"}, inclusive : BOOLEAN]
    BY ModesAssumption
  <2>3. tape \in Seq(Nat) /\ Len(tape) <= MaxPrints
    BY <1>1, BoundsAssumption
  <2>2. why \in [1..MaxPrints -> SUBSET Causes]
    OBVIOUS
  <2> QED BY <1>1, <2>1, <2>2, <2>3 DEF TypeInv, NoPoll
<1> QED BY <1>1, <1>2 DEF RecorderInv, TapeInOrder, Polling, MarkIsStored, MarkPassesNone,
                          PollPassesNone, LeftBehind

-------------------------------------------------------------------------------
\* What is stored and excused stays so.
LEMMA FewerAwaited ==
    ASSUME stored \subseteq stored', NEW i, why[i] \subseteq why'[i], Awaited(i)'
    PROVE  Awaited(i)
BY DEF Awaited

\* Steps that leave poll, prints and mark alone.
LEMMA QuietStep ==
    ASSUME RecorderInv,
           UNCHANGED <<tape, stored, mark, poll, behind, others, why>>,
           setting' \in [mode : {"ticker", "global"}, inclusive : BOOLEAN],
           setting'.inclusive = setting.inclusive,
           now' \in Nat, now <= now',
           pc' \in {"sleeping", "poll", "page", "rows", "books", "down"},
           Polling' <=> Polling, pc' = "page" => poll.rows = {}
    PROVE  RecorderInv'
<1>1. TypeInv' /\ TapeInOrder'
  BY DEF RecorderInv, TypeInv, TapeInOrder, Prints
<1>2. MarkIsStored' /\ MarkPassesNone' /\ LeftBehind'
  BY DEF RecorderInv, MarkIsStored, MarkPassesNone, LeftBehind, Awaited, After, Prints, Own
<1>3. Unread' = Unread
  BY DEF Unread, Unasked, After
<1>4. PollPassesNone'
  BY <1>3 DEF RecorderInv, PollPassesNone, Awaited, Prints, Own
<1> QED BY <1>1, <1>2, <1>4 DEF RecorderInv

\* A poll that breaks off leaves behind what it has not read.
LEMMA BreakOffStep ==
    ASSUME RecorderInv,
           UNCHANGED <<setting, now, tape, stored, others, why>>,
           mark' \in {mark, 0}, poll' = NoPoll,
           pc' \in {"sleeping", "books", "down"},
           behind' = behind \cup Unread
    PROVE  RecorderInv'
<1>1. Unread \subseteq Prints
  BY PrintsOfTape DEF RecorderInv, TypeInv, Unread, Unasked
<1>2. TypeInv' /\ TapeInOrder'
  BY <1>1 DEF RecorderInv, TypeInv, TapeInOrder, Prints, NoPoll
<1>3. ~Polling'
  BY DEF Polling
<1>4. MarkIsStored' /\ MarkPassesNone'
  BY <1>3 DEF RecorderInv, TypeInv, MarkIsStored, MarkPassesNone, Awaited, After, Prints, Own
<1>5. LeftBehind'
  <2> SUFFICES ASSUME NEW i \in Prints, Awaited(i)
               PROVE  i \in behind' \/ \A j \in Own : j < i
    BY DEF LeftBehind, Awaited, Prints, Own
  <2>1. CASE Polling
    BY <2>1 DEF RecorderInv, PollPassesNone
  <2>2. CASE ~Polling
    BY <2>2 DEF RecorderInv, LeftBehind
  <2> QED BY <2>1, <2>2
<1> QED BY <1>2, <1>3, <1>4, <1>5 DEF RecorderInv, PollPassesNone

-------------------------------------------------------------------------------
(***************************************************************************)
(* The steps of a poll.                                                    *)
(***************************************************************************)

\* The newest second of a set of prints.
LEMMA LatestIs ==
    ASSUME TypeInv, TapeInOrder, NEW S \in SUBSET Prints
    PROVE  /\ Latest(S) \in Nat /\ \A j \in S : tape[j] <= Latest(S)
           /\ Latest(S) = 0 \/ \E j \in S : tape[j] = Latest(S)
<1> DEFINE T == {0} \cup {tape[i] : i \in S}
<1>1. T \in SUBSET Int /\ T # {} /\ \A y \in T : y <= now
  BY DEF TypeInv, TapeInOrder
<1>2. /\ Latest(S) = Max(T) /\ now \in Int
      /\ \A j \in S : tape[j] \in T
      /\ \A y \in T : y \in Nat /\ (y = 0 \/ \E j \in S : tape[j] = y)
  BY DEF Latest, TypeInv, TapeInOrder
<1> HIDE DEF T
<1>3. Max(T) \in T /\ \A y \in T : y <= Max(T)
  BY <1>1, <1>2, GreatestOf
<1> QED BY <1>2, <1>3

LEMMA OwnLatestIs ==
    ASSUME TypeInv, TapeInOrder
    PROVE  /\ Latest(Own) \in Nat
           /\ Latest(Own) = 0 \/ \E j \in Own : tape[j] = Latest(Own)
           /\ LatestStored \in Nat
<1>1. Own \in SUBSET Prints /\ stored \in SUBSET Prints
  BY DEF Own, TypeInv
<1> QED BY <1>1, LatestIs DEF LatestStored

\* Where a poll begins: every awaited print is among those it will read.
LEMMA BeginPollReaches ==
    ASSUME RecorderInv, BeginPoll, NEW i \in Prints, Awaited(i)'
    PROVE  Awaited(i) /\ After(tape[i], poll'.min)
<1> DEFINE min == IF mark = 0 THEN FirstMin ELSE mark - 1
<1>0. TypeInv /\ TapeInOrder
  BY DEF RecorderInv
<1>1. /\ stored' = stored /\ poll'.min = min /\ ~Polling /\ why' = Unreached(min)
  BY DEF BeginPoll, NoPoll, Polling
<1>2. i \in DOMAIN why
  BY <1>0, PrintsOfTape DEF TypeInv
<1>3. why[i] \subseteq why'[i]
  BY <1>1, <1>2 DEF Unreached
<1>4. Awaited(i) /\ i \notin stored
  BY <1>1, <1>3 DEF Awaited
<1>5. CASE mark # 0
  BY <1>1, <1>4, <1>5 DEF RecorderInv, MarkPassesNone
<1>6. CASE mark = 0
  <2> SUFFICES ASSUME ~After(tape[i], min) PROVE FALSE
    BY <1>1, <1>4
  <2>1. why'[i] = {}
    BY DEF Awaited
  <2>2. /\ After(tape[i], now - Lookback) /\ i \notin behind
        /\ ~After(tape[i], OwnFirstMin)
    BY <1>1, <1>2, <1>4, <1>6, <2>1 DEF Unreached
  <2>3. OwnFirstMin = Max({now - Lookback, Latest(Own) - 1}) /\ OwnFirstMin # now - Lookback
    BY <2>2 DEF OwnFirstMin, FirstMinAfter
  <2>4. OwnFirstMin = Latest(Own) - 1
    <3>1. now - Lookback \in Int /\ Latest(Own) - 1 \in Int
      BY <1>0, OwnLatestIs, TimesAssumption DEF TypeInv
    <3> QED BY <2>3, <3>1, GreaterOf
  <2>5. \A j \in Own : j < i
    BY <1>1, <1>4, <2>2 DEF RecorderInv, LeftBehind
  <2>6. tape[i] \in Nat /\ tape[i] >= Latest(Own)
    <3>1. tape[i] \in 1..now
      BY <1>0 DEF TapeInOrder
    <3>2. CASE Latest(Own) = 0
      BY <1>0, <3>1, <3>2 DEF TypeInv
    <3>3. CASE \E j \in Own : tape[j] = Latest(Own)
      <4>1. PICK j \in Own : tape[j] = Latest(Own)
        BY <3>3
      <4>2. j \in Prints /\ j <= i
        BY <1>0, <2>5, <4>1, PrintsOfTape DEF TypeInv, Own
      <4>3. tape[j] <= tape[i]
        BY <1>0, <4>2 DEF TapeInOrder
      <4> QED BY <3>1, <4>1, <4>3
    <3> QED BY <1>0, <3>2, <3>3, OwnLatestIs
  <2> QED BY <1>0, <2>2, <2>4, <2>6, OwnLatestIs, AfterLater
<1> QED BY <1>5, <1>6

LEMMA BeginPollStep == ASSUME RecorderInv, BeginPoll PROVE RecorderInv'
<1> DEFINE min == IF mark = 0 THEN FirstMin ELSE mark - 1
<1>0. TypeInv /\ TapeInOrder
  BY DEF RecorderInv
<1>1. /\ pc' = "page" /\ why' = Unreached(min)
      /\ poll' = [min |-> min, newest |-> mark, pages |-> 0,
                   cursor |-> Len(tape), rows |-> {}]
      /\ UNCHANGED <<venue, stored, mark, closed, behind, others, faults, crashes>>
  BY DEF BeginPoll, NoPoll
<1>2. min \in Int
  <2>1. now - Lookback \in Int /\ LatestStored - 1 \in Int
    BY <1>0, OwnLatestIs, TimesAssumption DEF TypeInv
  <2>2. Max({now - Lookback, LatestStored - 1}) \in Int
    BY <2>1, GreaterOf
  <2>3. FirstMin \in Int
    BY <2>1, <2>2 DEF FirstMin, FirstMinAfter
  <2>4. mark - 1 \in Int
    BY <1>0 DEF TypeInv
  <2> QED BY <2>3, <2>4
<1> HIDE DEF min
<1> USE <1>0, <1>1 DEF venue, Own
<1>3. /\ poll' \in [min : Int, newest : Nat, pages : Nat, cursor : Nat, rows : SUBSET Nat]
      /\ poll'.newest = mark /\ poll'.cursor = Len(tape) /\ poll'.rows = {}
  BY <1>2, PrintsOfTape DEF TypeInv
<1>4. why' \in [1..MaxPrints -> SUBSET Causes]
  BY DEF Unreached, TypeInv, Causes
<1>5. TypeInv'
  BY <1>3, <1>4, PrintsOfTape DEF TypeInv, Prints
<1>6. \A i \in Prints : Awaited(i)' => Awaited(i) /\ After(tape[i], poll'.min)
  BY BeginPollReaches
<1>7. MarkIsStored' /\ TapeInOrder'
  BY <1>3 DEF RecorderInv, MarkIsStored, TapeInOrder, Prints
<1>8. MarkPassesNone'
  BY <1>6 DEF RecorderInv, MarkPassesNone, After, Prints
<1>9. PollPassesNone'
  <2>1. \A i \in Prints : Awaited(i)' => i \in Unread'
    BY <1>3, <1>6, PrintsOfTape DEF Unread, Unasked, After
  <2> QED BY <1>3, <2>1 DEF PollPassesNone, Prints
<1>10. Polling'
  BY DEF Polling
<1> QED BY <1>5, <1>7, <1>8, <1>9, <1>10 DEF RecorderInv, LeftBehind

\* A page is the newest part of what is asked for: nothing is between it and the cursor.
LEMMA PageReaches ==
    ASSUME TypeInv, NEW i \in Unasked,
           i > Min({poll.cursor + 1} \cup Page(Unasked)) - 1
    PROVE  i \in Page(Unasked)
<1> DEFINE T == {poll.cursor + 1} \cup Page(Unasked)
           newer(k) == {j \in Unasked : j > k}
<1>1. Unasked \subseteq 1..poll.cursor /\ poll.cursor \in Nat /\ Page(Unasked) \subseteq Unasked
  BY DEF Unasked, TypeInv, Page
<1>2. Min(T) \in T
  <2>1. T \in SUBSET Nat /\ T # {}
    <3>1. poll.cursor + 1 \in Nat /\ 1..poll.cursor \subseteq Nat
      BY <1>1
    <3>2. Page(Unasked) \subseteq Nat
      BY <1>1, <3>1, Zenon
    <3> QED BY <3>1, <3>2
  <2> HIDE DEF T
  <2> QED BY <2>1, LeastOf
<1>3. i \in Nat /\ i <= poll.cursor /\ i > Min(T) - 1
  BY <1>1
<1>4. PICK k \in Page(Unasked) : k <= i
  <2>1. Min(T) # poll.cursor + 1
    BY <1>1, <1>3
  <2>2. Min(T) \in Page(Unasked)
    BY <1>2, <2>1
  <2>3. Min(T) \in 1..poll.cursor
    BY <1>1, <2>2, Zenon
  <2> QED BY <1>3, <2>2, <2>3
<1>5. newer(i) \subseteq newer(k) /\ IsFiniteSet(newer(k)) /\ k \in Unasked
  <2>1. IsFiniteSet(Unasked)
    <3>1. IsFiniteSet(1..poll.cursor)
      BY <1>1, FS_Interval
    <3> QED BY <1>1, <3>1, FS_Subset
  <2>2. IsFiniteSet(newer(k))
    BY <2>1, FS_Subset
  <2>3. k \in Unasked
    BY <1>4 DEF Page
  <2>4. newer(i) \subseteq newer(k)
    <3>1. k \in Nat /\ \A j \in Unasked : j \in Nat
      BY <1>1, <2>3
    <3>2. \A j \in Unasked : j > i => j > k
      BY <1>3, <1>4, <3>1
    <3> QED BY <3>2
  <2> QED BY <2>2, <2>3, <2>4
<1>6. Cardinality(newer(i)) <= Cardinality(newer(k)) /\ IsFiniteSet(newer(i))
  BY <1>5, FS_Subset
<1>7. Cardinality(newer(k)) < PageSize
  BY <1>4 DEF Page
<1>8. Cardinality(newer(i)) < PageSize
  <2>1. Cardinality(newer(i)) \in Nat /\ Cardinality(newer(k)) \in Nat
    BY <1>5, <1>6, FS_CardinalityType
  <2> QED BY <1>6, <1>7, <2>1, PagesAssumption
<1> QED BY <1>8 DEF Page

\* Asking for a page moves prints from what is to be asked for to what is to be stored.
LEMMA AskPageStep == ASSUME RecorderInv, AskPage PROVE RecorderInv'
<1> DEFINE page == Page(Unasked)
           below == Min({poll.cursor + 1} \cup page) - 1
<1>0. TypeInv /\ TapeInOrder /\ PollPassesNone
  BY DEF RecorderInv
<1>1. /\ pc = "page" /\ pc' = "rows"
      /\ poll' = [poll EXCEPT !.pages = @ + 1, !.rows = page, !.cursor = below]
      /\ UNCHANGED <<venue, stored, mark, closed, history>>
  BY DEF AskPage
<1>2. /\ Unasked \subseteq 1..poll.cursor /\ Unasked \subseteq Prints
      /\ page \subseteq Unasked /\ page \subseteq Nat
  <2>1. Unasked \subseteq 1..poll.cursor /\ poll.cursor \in Nat
    BY <1>0 DEF Unasked, TypeInv
  <2>2. Unasked \subseteq Prints
    BY <1>0, <2>1, PrintsOfTape DEF TypeInv
  <2>3. page \subseteq Unasked
    BY DEF Page
  <2> HIDE DEF page
  <2>4. page \subseteq Nat
    BY <2>1, <2>3
  <2> QED BY <2>1, <2>2, <2>3, <2>4
<1>3. below \in Nat /\ below <= poll.cursor
  <2> DEFINE T == {poll.cursor + 1} \cup page
  <2>1. T \in SUBSET Nat /\ T # {} /\ poll.cursor + 1 \in T /\ poll.cursor \in Nat
        /\ 0 \notin T
    BY <1>0, <1>2 DEF TypeInv
  <2> HIDE DEF T
  <2>2. Min(T) \in T /\ Min(T) <= poll.cursor + 1
    BY <2>1, LeastOf
  <2>3. below = Min(T) - 1
    BY DEF T
  <2>4. Min(T) \in Nat \ {0}
    BY <2>1, <2>2
  <2> HIDE DEF below
  <2> QED BY <2>1, <2>2, <2>3, <2>4
<1>4. \A i \in Unasked : i > below => i \in page
  BY <1>0, PageReaches
<1> HIDE DEF page, below
<1>5. /\ poll' \in [min : Int, newest : Nat, pages : Nat, cursor : Nat, rows : SUBSET Nat]
      /\ poll'.newest = poll.newest /\ poll'.cursor = below /\ poll'.rows = page
      /\ poll'.min = poll.min
  <2>1. poll \in [min : Int, newest : Nat, pages : Nat, cursor : Nat, rows : SUBSET Nat]
    BY <1>0 DEF TypeInv
  <2>2. /\ poll'.newest = poll.newest /\ poll'.cursor = below /\ poll'.rows = page
        /\ poll'.min = poll.min /\ poll'.pages = poll.pages + 1
    BY <1>1, <2>1
  <2>3. poll' = [min |-> poll.min, newest |-> poll.newest, pages |-> poll.pages + 1,
                 cursor |-> below, rows |-> page]
    BY <1>1, <2>1
  <2>4. poll.pages + 1 \in Nat /\ page \in SUBSET Nat
    BY <1>2, <2>1
  <2> QED BY <1>3, <2>1, <2>2, <2>3, <2>4
<1>6. TypeInv' /\ TapeInOrder'
  BY <1>0, <1>1, <1>2, <1>3, <1>5 DEF TypeInv, TapeInOrder, Prints, venue, history
<1>7. MarkIsStored' /\ MarkPassesNone'
  BY <1>1, <1>5 DEF RecorderInv, MarkIsStored, MarkPassesNone, Polling, Awaited, After,
                    Prints, Own, venue, history
<1>8. Unread' = Unread
  <2>1. Unread = Unasked
    BY <1>0, <1>1 DEF PollPassesNone, Polling, Unread
  <2>2. Unasked' = {i \in Unasked : i <= below}
    BY <1>0, <1>1, <1>3, <1>5 DEF Unasked, After, venue, TypeInv
  <2>3. Unread' = Unasked' \cup page
    BY <1>5 DEF Unread
  <2>4. \A i \in Unasked : i \in Nat
    BY <1>0, <1>2 DEF TypeInv
  <2>5. \A i \in Unasked : i <= below \/ i \in page
    BY <1>3, <1>4, <2>4
  <2> QED BY <1>2, <2>1, <2>2, <2>3, <2>5
<1>9. PollPassesNone' /\ Polling'
  BY <1>0, <1>1, <1>8 DEF PollPassesNone, Polling, Awaited, Prints, Own, venue, history
<1> QED BY <1>6, <1>7, <1>9 DEF RecorderInv, LeftBehind

LEMMA PageFailsStep == ASSUME RecorderInv, PageFails PROVE RecorderInv'
BY BreakOffStep DEF PageFails, AfterPoll, venue

LEMMA CrashStep == ASSUME RecorderInv, Crash PROVE RecorderInv'
BY BreakOffStep DEF Crash, venue

LEMMA RowIsRow ==
    ASSUME TypeInv, poll.rows # {}
    PROVE  Row \in poll.rows /\ Row \in Prints
<1>1. poll.rows \in SUBSET Int /\ \A y \in poll.rows : y <= Len(tape)
  BY PrintsOfTape DEF TypeInv
<1>2. Len(tape) \in Int /\ poll.rows \subseteq Prints
  BY PrintsOfTape DEF TypeInv
<1>3. Max(poll.rows) \in poll.rows
  BY <1>1, <1>2, GreatestOf
<1> QED BY <1>2, <1>3 DEF Row

LEMMA StoreRowStep == ASSUME RecorderInv, StoreRow PROVE RecorderInv'
<1>0. TypeInv /\ TapeInOrder /\ PollPassesNone /\ Row \in poll.rows /\ Row \in Prints
  BY RowIsRow DEF RecorderInv, StoreRow
<1> DEFINE newest == Max({poll.newest, tape[Row]})
<1>1. /\ pc = "rows" /\ pc' = "rows" /\ stored' = stored \cup {Row}
      /\ poll' = [poll EXCEPT !.rows = @ \ {Row}, !.newest = newest]
      /\ others' = others \ {Row}
      /\ UNCHANGED <<venue, mark, closed, pc, behind, why, faults, crashes>>
  BY DEF StoreRow
<1>8. Own' = Own \cup {Row}
  BY <1>1 DEF Own
<1>2. newest \in Nat /\ (newest = poll.newest \/ newest = tape[Row])
  <2>1. poll.newest \in Nat /\ tape[Row] \in Nat
    BY <1>0 DEF TypeInv, TapeInOrder
  <2>2. newest \in {poll.newest, tape[Row]}
    <3> DEFINE a == poll.newest
               b == tape[Row]
    <3>1. a \in Int /\ b \in Int
      BY <2>1
    <3> HIDE DEF a, b
    <3>2. Max({a, b}) \in {a, b}
      BY <3>1, GreaterOf
    <3> QED BY <3>2 DEF a, b
  <2> HIDE DEF newest
  <2> QED BY <2>1, <2>2
<1> HIDE DEF newest
<1>3. /\ poll' \in [min : Int, newest : Nat, pages : Nat, cursor : Nat, rows : SUBSET Nat]
      /\ poll'.newest = newest /\ poll'.cursor = poll.cursor
      /\ poll'.rows = poll.rows \ {Row} /\ poll'.min = poll.min
  BY <1>0, <1>1, <1>2 DEF TypeInv
<1>4. TypeInv' /\ TapeInOrder'
  BY <1>0, <1>1, <1>3 DEF TypeInv, TapeInOrder, Prints, venue
<1>5. MarkIsStored' /\ MarkPassesNone'
  BY <1>1, <1>2, <1>3, <1>8 DEF RecorderInv, MarkIsStored, MarkPassesNone, Polling, Awaited,
                          After, Prints, venue
<1>6. Unread \ {Row} \subseteq Unread' /\ Unread' \subseteq Unread
  BY <1>1, <1>3 DEF Unread, Unasked, After, venue
<1>7. PollPassesNone' /\ Polling'
  <2> SUFFICES ASSUME NEW i \in Prints, Awaited(i)'
               PROVE  i \in Unread' \/ \A j \in Own' \cup Unread' : j < i
    BY <1>1 DEF PollPassesNone, Polling, Prints, venue
  <2>1. Awaited(i) /\ i # Row
    BY <1>1 DEF Awaited
  <2>2. Row \in Unread
    BY <1>0 DEF Unread
  <2> QED BY <1>0, <1>1, <1>6, <1>8, <2>1, <2>2 DEF PollPassesNone, Polling
<1> QED BY <1>4, <1>5, <1>7 DEF RecorderInv, LeftBehind

LEMMA RowFailsStep == ASSUME RecorderInv, RowFails PROVE RecorderInv'
<1>0. TypeInv /\ TapeInOrder /\ PollPassesNone /\ Row \in poll.rows /\ Row \in Prints
  BY RowIsRow DEF RecorderInv, RowFails
<1>1. /\ pc = "rows" /\ pc' = "rows" /\ why' = Excuse({Row}, "row")
      /\ poll' = [poll EXCEPT !.rows = @ \ {Row}]
      /\ UNCHANGED <<venue, stored, mark, closed, pc, behind, others, crashes>>
  BY DEF RowFails
<1>2. /\ why' \in [1..MaxPrints -> SUBSET Causes] /\ why'[Row] # {}
      /\ \A i \in Prints : why[i] \subseteq why'[i]
  BY <1>0, <1>1, PrintsOfTape DEF Excuse, TypeInv, Causes
<1>3. /\ poll' \in [min : Int, newest : Nat, pages : Nat, cursor : Nat, rows : SUBSET Nat]
      /\ poll'.newest = poll.newest /\ poll'.cursor = poll.cursor
      /\ poll'.rows = poll.rows \ {Row} /\ poll'.min = poll.min
  BY <1>0, <1>1 DEF TypeInv
<1>4. TypeInv' /\ TapeInOrder'
  BY <1>0, <1>1, <1>2, <1>3 DEF TypeInv, TapeInOrder, Prints, venue
<1>5. \A i \in Prints : Awaited(i)' => Awaited(i) /\ i # Row
  BY <1>1, <1>2 DEF Awaited
<1>6. MarkIsStored' /\ MarkPassesNone'
  BY <1>1, <1>3, <1>5 DEF RecorderInv, MarkIsStored, MarkPassesNone, Polling, After,
                          Prints, Own, venue
<1>7. Unread \ {Row} \subseteq Unread' /\ Unread' \subseteq Unread
  BY <1>1, <1>3 DEF Unread, Unasked, After, venue
<1>8. PollPassesNone' /\ Polling'
  <2> SUFFICES ASSUME NEW i \in Prints, Awaited(i)'
               PROVE  i \in Unread' \/ \A j \in Own' \cup Unread' : j < i
    BY <1>1 DEF PollPassesNone, Polling, Prints, venue
  <2> QED BY <1>0, <1>1, <1>5, <1>7 DEF PollPassesNone, Polling, Own
<1> QED BY <1>4, <1>6, <1>8 DEF RecorderInv, LeftBehind

LEMMA EndPollStep == ASSUME RecorderInv, EndPoll PROVE RecorderInv'
<1>0. TypeInv /\ TapeInOrder /\ PollPassesNone /\ MarkIsStored
  BY DEF RecorderInv
<1>1. /\ pc = "rows" /\ poll.rows = {} /\ mark' = poll.newest
      /\ pc' \in {"books", "sleeping"} /\ poll' = NoPoll
      /\ behind' = {} /\ why' = Excuse(Unasked, "cut")
      /\ UNCHANGED <<venue, stored, closed, others, faults, crashes>>
  BY DEF EndPoll, AfterPoll
<1>2. /\ why' \in [1..MaxPrints -> SUBSET Causes]
      /\ \A i \in Prints : why[i] \subseteq why'[i] /\ (i \in Unasked => why'[i] # {})
  BY <1>0, <1>1, PrintsOfTape DEF Excuse, TypeInv, Causes
<1>3. TypeInv' /\ TapeInOrder'
  BY <1>0, <1>1, <1>2 DEF TypeInv, TapeInOrder, Prints, venue, NoPoll
<1>4. ~Polling' /\ Polling
  BY <1>1 DEF Polling
<1>5. \A i \in Prints : Awaited(i)' => \A j \in Own : j < i
  BY <1>0, <1>1, <1>2, <1>4 DEF Awaited, PollPassesNone, Unread
<1>6. MarkIsStored'
  BY <1>0, <1>1, <1>4 DEF MarkIsStored, Own, venue
<1>7. MarkPassesNone'
  <2> SUFFICES ASSUME mark' # 0, NEW i \in Prints, Awaited(i)'
               PROVE  After(tape[i], mark' - 1)
    BY <1>1 DEF MarkPassesNone, Prints, venue, After
  <2>1. PICK j \in Own : tape[j] = mark'
    BY <1>0, <1>1, <1>4 DEF MarkIsStored
  <2>2. j \in Prints /\ j <= i
    BY <1>0, <1>5, PrintsOfTape DEF TypeInv, Own
  <2>3. tape[i] \in Nat /\ mark' \in Nat /\ mark' <= tape[i]
    BY <1>0, <1>1, <2>1, <2>2 DEF TapeInOrder, TypeInv
  <2> QED BY <2>3, AfterLater
<1>8. LeftBehind'
  BY <1>1, <1>5 DEF LeftBehind, Prints, Own, venue
<1> QED BY <1>3, <1>4, <1>6, <1>7, <1>8 DEF RecorderInv, PollPassesNone

-------------------------------------------------------------------------------
(***************************************************************************)
(* The market, and the other steps of the recorder.                        *)
(***************************************************************************)

\* A new print is newer than whatever is stored or asked for.
LEMMA TradeStep == ASSUME RecorderInv, Trade PROVE RecorderInv'
<1>0. TypeInv /\ TapeInOrder /\ MarkIsStored
  BY DEF RecorderInv
<1> DEFINE new == Len(tape) + 1
<1>1. /\ Len(tape) < MaxPrints /\ tape' = Append(tape, now)
      /\ UNCHANGED <<setting, now, recorder, history>>
  BY DEF Trade
<1> USE <1>0, <1>1 DEF recorder, history, Own
<1>2. /\ tape \in Seq(Nat) /\ now \in Nat \ {0} /\ Len(tape) \in Nat
      /\ Prints = 1..Len(tape) /\ MaxPrints \in Nat
  BY PrintsOfTape DEF TypeInv
<1>3. /\ tape' \in Seq(Nat) /\ Len(tape') = new
      /\ \A i \in 1..Len(tape) : tape'[i] = tape[i]
      /\ tape'[new] = now
  BY <1>2
<1>4. Prints' = 1..new
  BY <1>3 DEF Prints
<1>5. /\ new \in Nat /\ 1..new = Prints \cup {new}
      /\ \A i \in Prints : i \in Nat /\ i < new /\ tape'[i] = tape[i]
      /\ new \in 1..MaxPrints
  BY <1>2, <1>3
<1> HIDE DEF new
<1>6. TypeInv'
  <2>1. stored \subseteq Prints' /\ poll.rows \subseteq Prints' /\ behind \subseteq Prints'
    BY <1>4, <1>5 DEF TypeInv
  <2>2. Len(tape') <= MaxPrints /\ poll.cursor <= Len(tape')
    BY <1>2, <1>3, <1>5 DEF TypeInv, new
  <2> QED BY <1>3, <2>1, <2>2 DEF TypeInv
<1>7. TapeInOrder'
  <2>1. \A i \in Prints' : tape'[i] \in 1..now
    BY <1>2, <1>3, <1>4, <1>5 DEF TapeInOrder
  <2>2. ASSUME NEW i \in Prints', NEW j \in Prints', i <= j PROVE tape'[i] <= tape'[j]
    <3>1. CASE j = new
      <4>1. tape'[j] = now
        BY <1>3, <3>1
      <4>2. tape'[i] \in 1..now
        BY <2>1
      <4>3. \A n \in 1..now : n <= now
        BY <1>2
      <4> QED BY <4>1, <4>2, <4>3, Zenon
    <3>2. CASE j \in Prints
      <4>1. i \in Prints
        BY <1>4, <1>5, <2>2, <3>2
      <4> QED BY <1>5, <2>2, <3>2, <4>1 DEF TapeInOrder
    <3> QED BY <1>4, <1>5, <3>1, <3>2
  <2> QED BY <2>1, <2>2 DEF TapeInOrder
<1>8. MarkIsStored'
  BY <1>5 DEF MarkIsStored, Polling, TypeInv
<1>9. \A i \in Prints : Awaited(i)' = Awaited(i)
  BY DEF Awaited
<1>10. MarkPassesNone'
  <2>1. ASSUME mark # 0 PROVE After(tape'[new], mark - 1)
    <3>1. PICK j \in Own : tape[j] = mark
      BY <2>1 DEF MarkIsStored
    <3>2. mark <= now /\ mark \in Nat
      BY <3>1 DEF TapeInOrder, TypeInv
    <3> QED BY <1>2, <1>3, <3>2, AfterLater
  <2>2. ASSUME mark # 0, NEW i \in Prints, Awaited(i)' PROVE After(tape'[i], mark - 1)
    BY <1>5, <1>9, <2>2 DEF RecorderInv, MarkPassesNone
  <2>3. \A second, min : After(second, min)' = After(second, min)
    BY DEF After
  <2> QED BY <1>4, <1>5, <2>1, <2>2, <2>3 DEF MarkPassesNone, After
<1>11. Unread' = Unread /\ Unread \subseteq Prints
  <2>1. 1..poll.cursor \subseteq Prints
    BY <1>2 DEF TypeInv
  <2>2. Unasked' = Unasked /\ Unasked \subseteq Prints
    BY <1>5, <2>1 DEF Unasked, After
  <2> QED BY <2>2 DEF Unread, TypeInv
<1>12. PollPassesNone'
  <2> SUFFICES ASSUME Polling, NEW i \in Prints', Awaited(i)'
               PROVE  i \in Unread \/ \A j \in Own \cup Unread : j < i
    BY <1>11 DEF PollPassesNone, Polling, RecorderInv
  <2>1. CASE i = new
    BY <1>5, <1>11, <2>1 DEF TypeInv
  <2>2. CASE i \in Prints
    BY <1>9, <2>2 DEF RecorderInv, PollPassesNone
  <2> QED BY <1>4, <1>5, <2>1, <2>2
<1>13. LeftBehind'
  <2> SUFFICES ASSUME ~Polling, NEW i \in Prints', Awaited(i)'
               PROVE  i \in behind \/ \A j \in Own : j < i
    BY DEF LeftBehind, Polling
  <2>1. CASE i = new
    BY <1>5, <2>1 DEF TypeInv
  <2>2. CASE i \in Prints
    BY <1>9, <2>2 DEF RecorderInv, LeftBehind
  <2> QED BY <1>4, <1>5, <2>1, <2>2
<1> QED BY <1>6, <1>7, <1>8, <1>10, <1>12, <1>13 DEF RecorderInv

\* Another writer's row is none of its own.
LEMMA OtherStoresStep ==
    ASSUME RecorderInv, NEW k \in Prints, OtherStores(k) PROVE RecorderInv'
<1>0. TypeInv
  BY DEF RecorderInv
<1>1. /\ k \notin stored /\ stored' = stored \cup {k} /\ others' = others \cup {k}
      /\ UNCHANGED <<setting, now, tape, mark, closed, pc, poll, behind, why, faults, crashes>>
  BY DEF OtherStores, venue
<1>2. Own' = Own
  BY <1>1 DEF Own
<1>3. TypeInv' /\ TapeInOrder'
  BY <1>1 DEF RecorderInv, TypeInv, TapeInOrder, Prints
<1>4. \A i \in Prints : Awaited(i)' => Awaited(i)
  BY <1>1 DEF Awaited
<1>5. Unread' = Unread /\ Prints' = Prints /\ Polling' = Polling
  BY <1>1 DEF Unread, Unasked, After, Prints, Polling
<1>6. MarkIsStored' /\ MarkPassesNone' /\ LeftBehind'
  BY <1>1, <1>2, <1>4, <1>5 DEF RecorderInv, MarkIsStored, MarkPassesNone, LeftBehind, After
<1>7. PollPassesNone'
  BY <1>1, <1>2, <1>4, <1>5 DEF RecorderInv, PollPassesNone
<1> QED BY <1>3, <1>6, <1>7 DEF RecorderInv

LEMMA NextRecorderInv == ASSUME RecorderInv, [Next]_vars PROVE RecorderInv'
<1> USE DEF venue, recorder, history
<1>0. TypeInv
  BY DEF RecorderInv
<1>1. CASE Cycle \/ Restart \/ Tick \/ NextPage \/ UNCHANGED vars
  <2>1. /\ UNCHANGED <<tape, stored, mark, poll, behind, others, why>>
        /\ setting' = setting \/ \E mode \in Modes : setting' = [setting EXCEPT !.mode = mode]
    BY <1>1 DEF Cycle, BeginCycle, BooksRecorded, BookFails, BookWriteRaises, Restart,
                Tick, NextPage, vars
  <2>2. now' \in Nat /\ now <= now'
    <3>1. now' = now \/ now' = now + 1
      BY <1>1 DEF Cycle, BeginCycle, BooksRecorded, BookFails, BookWriteRaises, Restart,
                  Tick, NextPage, vars
    <3> QED BY <1>0, <3>1 DEF TypeInv
  <2>7. /\ setting' \in [mode : {"ticker", "global"}, inclusive : BOOLEAN]
        /\ setting'.inclusive = setting.inclusive
    BY <1>0, <2>1, ModesAssumption DEF TypeInv
  <2>3. CASE pc' = pc
    BY <1>0, <2>1, <2>2, <2>3, <2>7, QuietStep DEF RecorderInv, TypeInv, Polling, PollPassesNone
  <2>4. CASE NextPage
    <3>1. /\ pc' \in {"sleeping", "poll", "page", "rows", "books", "down"}
          /\ Polling' <=> Polling
          /\ poll.rows = {}
      BY <2>4 DEF NextPage, Polling
    <3> QED BY <2>1, <2>2, <2>7, <3>1, QuietStep
  <2>5. CASE Cycle \/ Restart
    <3>1. /\ pc' \in {"sleeping", "poll", "books"} /\ ~Polling /\ ~Polling'
      BY <2>5 DEF Cycle, BeginCycle, BooksRecorded, BookFails, BookWriteRaises, Restart,
                  Polling, AfterBooks
    <3> QED BY <2>1, <2>2, <2>7, <3>1, QuietStep
  <2>6. CASE Tick \/ UNCHANGED vars
    BY <2>3, <2>6 DEF Tick, vars
  <2> QED BY <1>1, <2>4, <2>5, <2>6
<1>2. CASE Poll /\ ~NextPage
  BY <1>2, BeginPollStep, AskPageStep, PageFailsStep, StoreRowStep, RowFailsStep, EndPollStep
     DEF Poll
<1> QED BY <1>1, <1>2, CrashStep, TradeStep, OtherStoresStep DEF Next, Recorder

-------------------------------------------------------------------------------
(***************************************************************************)
(* The theorems.                                                           *)
(***************************************************************************)

\* The inductive invariant holds in every reachable state.
THEOREM RecorderInvariant == Spec => []RecorderInv
BY InitRecorderInv, NextRecorderInv, PTL DEF Spec

\* For any pages, look-back, prints, failures, crashes and rows of other writers: a print
\* behind the mark that is not stored has a newer one stored, and one of the causes that
\* LostPrintHasCause counts (_record_recent_global_trades, _record_recent_trades and
\* their high-water marks, _latest_trade_ts_from_db).
THEOREM NoPrintIsSkipped == Spec => []LostPrintHasCause
<1>1. RecorderInv => LostPrintHasCause
  <2> SUFFICES ASSUME RecorderInv, NEW i \in Prints, Lost(i)
               PROVE  why[i] # {} /\ NewerStored(i)
    BY DEF LostPrintHasCause
  <2>1. TypeInv /\ TapeInOrder /\ MarkIsStored /\ MarkPassesNone
    BY DEF RecorderInv
  <2>2. mark # 0 /\ i \notin stored /\ ~After(tape[i], mark - 1)
    BY DEF Lost
  <2>3. why[i] # {}
    BY <2>1, <2>2 DEF MarkPassesNone, Awaited
  <2>4. PICK j \in stored : tape[j] = mark
    BY <2>1, <2>2 DEF MarkIsStored, Own
  <2>5. tape[i] \in Int /\ mark \in Int
    BY <2>1 DEF TypeInv, TapeInOrder
  <2>6. tape[j] > tape[i]
    BY <2>2, <2>4, <2>5, AfterLater
  <2> QED BY <2>3, <2>6 DEF NewerStored
<1> QED BY <1>1, RecorderInvariant, PTL
===============================================================================
