----------------------------- MODULE TradeRecorder -----------------------------
(***************************************************************************)
(* The recorder of kalshi-weather-edge (live/orderbook_recorder.py): every *)
(* cycle it stores books and the trade prints behind a mark, the second of *)
(* the newest print it stored.  The mark lives in the process, the prints  *)
(* in the database; the process may die and be started again.              *)
(*                                                                         *)
(* In mode "global" one paginated poll reads the prints of all markets, in *)
(* mode "ticker" every market is read by itself, one page at a time; the   *)
(* model follows the tape that one poll reads.  Other writers store prints *)
(* of that tape too: a recorder of single markets that runs beside this    *)
(* one, and the loader of history (data/kalshi_historical_loader.py).      *)
(* The venue answers newest prints first.  Prints carry trade ids, so that *)
(* a print stored again is the same row.  Market lists, heartbeats and the *)
(* content of books and prints are left out.                               *)
(***************************************************************************)
EXTENDS Integers, Sequences, FiniteSetsExt

CONSTANTS
    Modes,     \* "ticker", "global" or both
    PageSize,  \* limit of a page of trades
    MaxPages,  \* max_global_trade_pages
    Lookback,  \* the hour a new process looks back, in seconds
    MaxTime, MaxPrints, MaxFaults, MaxCrashes,  \* bounds
    MaxOthers  \* prints that only other writers have stored, at a time

ASSUME ModesAssumption == Modes \subseteq {"ticker", "global"}
ASSUME PagesAssumption == {PageSize, MaxPages} \subseteq Nat \ {0}
ASSUME TimesAssumption == Lookback \in Nat \ {0} /\ MaxTime \in Nat
ASSUME BoundsAssumption == {MaxPrints, MaxFaults, MaxCrashes, MaxOthers} \subseteq Nat

VARIABLES
    setting,  \* mode of the recorder; whether the venue's min_ts is inclusive
    now,      \* the clock, in seconds
    tape,     \* second of each trade, in order
    stored,   \* prints in historical_trades
    mark,     \* the high-water mark, 0 before the first print
    closed,   \* the ticker is in closed_or_failed
    pc,       \* where the recorder stands
    poll,     \* the trade poll that runs
    behind,   \* history: prints that polls broke off before, since one that did not
    others,   \* history: prints that are stored, but by other writers only
    why,      \* history: why a print may never be read
    faults,   \* failed requests and writes
    crashes   \* times the process died

venue    == <<setting, now, tape>>
recorder == <<stored, mark, closed, pc, poll>>
history  == <<behind, others, why, faults, crashes>>
vars     == <<venue, recorder, history>>

Global == setting.mode = "global"
Prints == DOMAIN tape

NoPoll == [min |-> 0, newest |-> 0, pages |-> 0, cursor |-> 0, rows |-> {}]

Init ==
    /\ setting \in [mode : Modes, inclusive : BOOLEAN]
    /\ now = 1 /\ tape = <<>>
    /\ stored = {} /\ mark = 0 /\ closed = FALSE /\ pc = "sleeping" /\ poll = NoPoll
    /\ behind = {} /\ others = {} /\ why = [i \in 1..MaxPrints |-> {}]
    /\ faults = 0 /\ crashes = 0

-------------------------------------------------------------------------------
(***************************************************************************)
(* The trades endpoint.                                                    *)
(***************************************************************************)

\* Whether the venue counts a second as after min_ts.
After(second, min) == IF setting.inclusive THEN second >= min ELSE second > min

\* Prints of the poll that no page has brought yet.
Unasked == {i \in 1..poll.cursor : After(tape[i], poll.min)}
Unread  == Unasked \cup poll.rows

\* The newest of a set of prints, as many as a page holds.
Page(prints) == {i \in prints : Cardinality({j \in prints : j > i}) < PageSize}

-------------------------------------------------------------------------------
(***************************************************************************)
(* A poll.                                                                 *)
(***************************************************************************)

\* MAX(ts) of historical_trades, whoever stored the rows.
Latest(prints) == Max({0} \cup {tape[i] : i \in prints})
LatestStored   == Latest(stored)

\* Where a new process begins when latest is the newest second of the database.
FirstMinAfter(latest) ==
    IF Global THEN Max({now - Lookback, latest - 1}) ELSE now - Lookback

FirstMin == FirstMinAfter(LatestStored)

\* What this recorder stored, and where it would begin if that were all there is.
Own         == stored \ others
OwnFirstMin == FirstMinAfter(Latest(Own))

Excuse(prints, cause) ==
    [i \in DOMAIN why |-> IF i \in prints THEN why[i] \cup {cause} ELSE why[i]]

\* A process without a mark does not reach prints of more than an hour ago, nor those
\* that it would have reached if no other writer had stored newer ones, nor those that a
\* poll left behind when it broke off after it had stored newer ones.
Unreached(min) ==
    LET missing == {i \in Prints \ stored : mark = 0 /\ ~After(tape[i], min)}
        old     == {i \in missing : ~After(tape[i], now - Lookback)}
        hidden  == {i \in missing : After(tape[i], OwnFirstMin)}
    IN [i \in DOMAIN why |-> why[i] \cup (IF i \in old THEN {"old"} ELSE {})
                                  \cup (IF i \in hidden THEN {"other"} ELSE {})
                                  \cup (IF i \in missing \cap behind THEN {"broken"} ELSE {})]

\* Mutant: the poll goes on from the second of the mark.
BeginPollAtMark ==
    LET min == IF mark = 0 THEN FirstMin ELSE mark IN
    /\ pc = "poll"
    /\ pc' = "page"
    /\ poll' = [NoPoll EXCEPT !.min = min, !.newest = mark, !.cursor = Len(tape)]
    /\ why' = Unreached(min)
    /\ UNCHANGED <<venue, stored, mark, closed, behind, others, faults, crashes>>

\* From the second before the mark, or, in a new process, from an hour ago, in mode
\* "global" not before the newest print of the database.
BeginPoll ==
    LET min == IF mark = 0 THEN FirstMin ELSE mark - 1 IN
    /\ pc = "poll"
    /\ pc' = "page"
    /\ poll' = [NoPoll EXCEPT !.min = min, !.newest = mark, !.cursor = Len(tape)]
    /\ why' = Unreached(min)
    /\ UNCHANGED <<venue, stored, mark, closed, behind, others, faults, crashes>>

Fault == faults < MaxFaults /\ faults' = faults + 1

\* Where the cycle goes after its poll.
AfterPoll == IF Global THEN "books" ELSE "sleeping"

AskPage ==
    LET page == Page(Unasked) IN
    /\ pc = "page"
    /\ pc' = "rows"
    /\ poll' = [poll EXCEPT !.pages = @ + 1, !.rows = page,
                            !.cursor = Min({poll.cursor + 1} \cup page) - 1]
    /\ UNCHANGED <<venue, stored, mark, closed, history>>

\* A request that fails ends the poll; the mark stays where it was.
PageFails ==
    /\ pc = "page" /\ Fault
    /\ pc' = AfterPoll /\ poll' = NoPoll
    /\ behind' = behind \cup Unread
    /\ UNCHANGED <<venue, stored, mark, closed, others, why, crashes>>

Row == Max(poll.rows)   \* newest first

StoreRow ==
    /\ pc = "rows" /\ poll.rows # {}
    /\ stored' = stored \cup {Row} /\ others' = others \ {Row}
    /\ poll' = [poll EXCEPT !.rows = @ \ {Row}, !.newest = Max({@, tape[Row]})]
    /\ UNCHANGED <<venue, mark, closed, pc, behind, why, faults, crashes>>

\* A row that fails is passed over.
RowFails ==
    /\ pc = "rows" /\ poll.rows # {} /\ Fault
    /\ why' = Excuse({Row}, "row")
    /\ poll' = [poll EXCEPT !.rows = @ \ {Row}]
    /\ UNCHANGED <<venue, stored, mark, closed, pc, behind, others, crashes>>

PagesLeft == Global /\ poll.pages < MaxPages

NextPage ==
    /\ pc = "rows" /\ poll.rows = {} /\ Unasked # {} /\ PagesLeft
    /\ pc' = "page"
    /\ UNCHANGED <<venue, stored, mark, closed, poll, history>>

\* The last page, or the last that is allowed: the mark goes on either way.
EndPoll ==
    /\ pc = "rows" /\ poll.rows = {} /\ (Unasked = {} \/ ~PagesLeft)
    /\ mark' = poll.newest
    /\ pc' = AfterPoll /\ poll' = NoPoll
    /\ behind' = {} /\ why' = Excuse(Unasked, "cut")
    /\ UNCHANGED <<venue, stored, closed, others, faults, crashes>>

Poll == BeginPoll \/ AskPage \/ PageFails \/ StoreRow \/ RowFails \/ NextPage \/ EndPoll

-------------------------------------------------------------------------------
(***************************************************************************)
(* A cycle: prints, then books in mode "global"; book, then prints in mode *)
(* "ticker".  A book that fails by itself closes the ticker for as long as *)
(* the process lives.                                                      *)
(***************************************************************************)

\* Mutant: a closed ticker ends the poll of all markets too.
BeginCycleIfOpen ==
    /\ pc = "sleeping" /\ ~closed
    /\ pc' = IF Global THEN "poll" ELSE "books"
    /\ UNCHANGED <<venue, stored, mark, closed, poll, history>>

BeginCycle ==
    /\ pc = "sleeping" /\ (Global \/ ~closed)
    /\ pc' = IF Global THEN "poll" ELSE "books"
    /\ UNCHANGED <<venue, stored, mark, closed, poll, history>>

AfterBooks == IF Global THEN "sleeping" ELSE "poll"

BooksRecorded ==
    /\ pc = "books"
    /\ pc' = AfterBooks
    /\ UNCHANGED <<venue, stored, mark, closed, poll, history>>

\* In mode "global" the batch failed before, and the ticker was asked by itself.
BookFails ==
    /\ pc = "books" /\ ~closed /\ Fault
    /\ closed' = TRUE /\ pc' = "sleeping"
    /\ UNCHANGED <<venue, stored, mark, poll, behind, others, why, crashes>>

\* The write of a book raises: in mode "ticker" the rest of the cycle is left out.
BookWriteRaises ==
    /\ pc = "books" /\ ~closed /\ Fault
    /\ pc' = "sleeping"
    /\ UNCHANGED <<venue, stored, mark, closed, poll, behind, others, why, crashes>>

Cycle == BeginCycle \/ BooksRecorded \/ BookFails \/ BookWriteRaises

Recorder == Poll \/ Cycle

-------------------------------------------------------------------------------
(***************************************************************************)
(* The process dies and is started again; the market trades, and others    *)
(* store what was traded.                                                  *)
(***************************************************************************)

Crash ==
    /\ pc # "down" /\ crashes < MaxCrashes
    /\ crashes' = crashes + 1
    /\ pc' = "down" /\ mark' = 0 /\ closed' = FALSE /\ poll' = NoPoll
    /\ behind' = behind \cup Unread
    /\ UNCHANGED <<venue, stored, others, why, faults>>

\* It may be started in the other mode.
Restart ==
    /\ pc = "down"
    /\ pc' = "sleeping"
    /\ \E mode \in Modes : setting' = [setting EXCEPT !.mode = mode]
    /\ UNCHANGED <<now, tape, stored, mark, closed, poll, history>>

Trade ==
    /\ Len(tape) < MaxPrints
    /\ tape' = Append(tape, now)
    /\ UNCHANGED <<setting, now, recorder, history>>

Tick ==
    /\ now < MaxTime
    /\ now' = now + 1
    /\ UNCHANGED <<setting, tape, recorder, history>>

OtherStores(i) ==
    /\ i \notin stored /\ Cardinality(others) < MaxOthers
    /\ stored' = stored \cup {i} /\ others' = others \cup {i}
    /\ UNCHANGED <<venue, mark, closed, pc, poll, behind, why, faults, crashes>>

Next == Recorder \/ Crash \/ Restart \/ Trade \/ Tick \/ (\E i \in Prints : OtherStores(i))

Spec == Init /\ [][Next]_vars

\* The recorder's loop goes on; nobody promises to start it again.
FairSpec == Spec /\ WF_vars(Recorder)

-------------------------------------------------------------------------------
(***************************************************************************)
(* Properties.                                                             *)
(***************************************************************************)

\* A print that is not stored and that the next poll will not ask for.
Lost(i) == mark # 0 /\ pc = "sleeping" /\ i \notin stored /\ ~After(tape[i], mark - 1)

NewerStored(i) == \E j \in stored : tape[j] > tape[i]

\* "skip already captured trades": no print is skipped that was not captured, unless a
\* newer one is stored and this one fell to an hour without a recorder, a page limit, a
\* failed row, a poll that broke off (by a failed request or with the process) before
\* there was a mark to return to, or to a process that began behind the newest row of
\* another writer (_latest_trade_ts_from_db), where its own rows would have led it here.
\* Prints of the mark's second that come after the poll are not lost, whether min_ts is
\* inclusive or not.
LostPrintHasCause == \A i \in Prints : Lost(i) => why[i] # {} /\ NewerStored(i)

\* Once the recorder stays up every print is stored in the end, whatever requests failed
\* meanwhile, unless one of those causes took it; in mode "ticker" one failed book is
\* enough to end the recording of the ticker's prints.
PrintsAreRecorded ==
    <>[](pc # "down") =>
       \A i \in 1..MaxPrints :
          (i \in Prints) ~> (i \in stored \/ why[i] # {} \/ (closed /\ ~Global))

===============================================================================
