---------------------------- MODULE SettlementLabels ----------------------------
(***************************************************************************)
(* Settlement labels of kalshi-weather-edge: the collector                 *)
(* (live/collector.py) lets WeatherSettlementLoader.build_settlements      *)
(* (data/weather_settlement_loader.py) rebuild the labels of the last days *)
(* in every maintenance cycle, in a thread it waits for only so long.  A   *)
(* build that is given up goes on, on the same loader, while the next one  *)
(* runs.                                                                   *)
(*                                                                         *)
(* The contracts are those of one station and day, which share the report  *)
(* and the observations of that day.  The observations come from one of    *)
(* two sources, the NWS or the IEM archive, which cover the day unequally. *)
(* A label is where its value came from and how much of the day had been   *)
(* observed; values, thresholds and confidences are left out, and so are   *)
(* the other jobs of the collector, which use loaders of their own, and    *)
(* the response cache of the weather client, whose five minutes are the    *)
(* least time between two builds.                                          *)
(***************************************************************************)
EXTENDS Integers

CONSTANTS
    N,          \* contracts of the day
    MaxBuilds,  \* maintenance cycles before the collector's deadline
    MaxFaults,  \* bound on requests and writes that fail
    MaxMoves    \* bound on how often a source changes

ASSUME SizesAssumption == /\ N \in Nat \ {0} /\ MaxBuilds \in Nat \ {0}
                   /\ MaxFaults \in Nat /\ MaxMoves \in Nat

VARIABLES
    nws,        \* how much of the day the NWS observations cover, NoFeatures if it has none
    iem,        \* how much of it the IEM archive covers
    published,  \* the NWS answers with the Daily Climate Report of the day, and it parses
    moves,      \* changes of the sources so far
    best,       \* history: the most that one of these sources has had so far
    cache,      \* _source_cache: what is kept of the report and the observations
    limitedKey, \* the day is in _rate_limited_observation_keys
    skips,      \* weather_api_skipped_due_to_rate_limit_total
    labels,     \* settlement_labels, by contract
    build,      \* the builds, each in a thread of its own
    collector,  \* what the collector's loop does
    round,      \* builds it started
    faults,     \* failures so far
    overlap,    \* history: builds that ran while another one did
    missed,     \* history: builds that did not get what the sources had
    lapsed,     \* history: builds that asked for the report when it was there no more
    displaced   \* history: builds whose stations had less than one of them had before

sources == <<nws, iem, published, moves, best>>
loader  == <<cache, limitedKey, skips>>
fewer   == <<lapsed, displaced>>
history == <<faults, overlap, missed, fewer>>
vars    == <<sources, loader, labels, build, collector, round, history>>

Contracts == 1..N
Builds    == 1..MaxBuilds

\* Fewer than 3 temperatures, a part of the day, all of it.
Days == 0..2

\* The NWS has no observation of the day, not even one without a temperature.
NoFeatures == -1

\* Whatever the NWS returns is taken; the archive is asked when it returns nothing.
Offered == IF nws = NoFeatures THEN iem ELSE nws

Observations  == [temps : Days, limited : BOOLEAN]
NotRead       == "unread"
NotObserved   == [temps |-> -1, limited |-> FALSE]
NothingCached == [report |-> NotRead, obs |-> NotObserved]

\* A label: its source, how much of the day it is drawn from, whether a read behind
\* it was limited, and the build that wrote it.
NoLabel == [source |-> "none", temps |-> 0, limited |-> FALSE, by |-> 0]

\* A build: the contract it is at, what it read for it, the skips it saw before, and
\* the row it is about to write.
NewBuild == [pc |-> "new", at |-> 1, report |-> NotRead, obs |-> NotObserved,
             before |-> 0, row |-> NoLabel]

Running(b) == build[b].pc \notin {"new", "done", "failed"}

Init ==
    /\ nws = NoFeatures /\ iem = 0 /\ published = FALSE /\ moves = 0
    /\ best = [report |-> FALSE, temps |-> 0]
    /\ cache = NothingCached /\ limitedKey = FALSE /\ skips = 0
    /\ labels = [c \in Contracts |-> NoLabel]
    /\ build = [b \in Builds |-> NewBuild]
    /\ collector = "waiting" /\ round = 0
    /\ faults = 0 /\ overlap = {} /\ missed = {}
    /\ lapsed = {} /\ displaced = {}

-------------------------------------------------------------------------------
(***************************************************************************)
(* The collector.                                                          *)
(***************************************************************************)

\* build_settlements begins by resetting what the loader keeps of its sources,
\* under the builds that still run.
StartBuild ==
    LET b      == round + 1
        others == {x \in Builds : Running(x)}
    IN /\ collector = "waiting" /\ round < MaxBuilds
       /\ collector' = "joining" /\ round' = b
       /\ build' = [build EXCEPT ![b].pc = "report"]
       /\ cache' = NothingCached /\ limitedKey' = FALSE
       /\ overlap' = overlap \cup (IF others = {} THEN {} ELSE others \cup {b})
       /\ UNCHANGED <<sources, skips, labels, faults, missed, fewer>>

\* Mutant: the collector waits until the thread ends.
JoinUntilEnd ==
    /\ collector = "joining" /\ ~Running(round)
    /\ collector' = "waiting"
    /\ UNCHANGED <<sources, loader, labels, build, round, history>>

\* thread.join(timeout): the thread ended, or the time is up and it goes on.
Join ==
    /\ collector = "joining"
    /\ collector' = "waiting"
    /\ UNCHANGED <<sources, loader, labels, build, round, history>>

\* The deadline; the process ends, and its daemon threads with it.
End ==
    /\ collector = "waiting"
    /\ collector' = "ended"
    /\ UNCHANGED <<sources, loader, labels, build, round, history>>

Collector == StartBuild \/ Join \/ End

-------------------------------------------------------------------------------
(***************************************************************************)
(* A build labels one contract after the other.                            *)
(***************************************************************************)

At(b, pc) == build[b].pc = pc /\ collector # "ended"

\* The build after a contract is through, skipped or labelled.
NextContract(b) ==
    IF build[b].at < N
    THEN [NewBuild EXCEPT !.pc = "report", !.at = build[b].at + 1]
    ELSE [build[b] EXCEPT !.pc = "done"]

\* A failure that build b suffers from.
Fault(b) ==
    /\ faults < MaxFaults
    /\ faults' = faults + 1
    /\ missed' = missed \cup {b}

NoFault == UNCHANGED <<faults, missed>>

\* A report that is kept is used again.
LookUpReport(b) ==
    /\ At(b, "report")
    /\ build' = [build EXCEPT
            ![b].pc = IF cache.report = NotRead THEN "asked" ELSE "observe",
            ![b].report = cache.report]
    /\ UNCHANGED <<sources, loader, labels, collector, round, history>>

\* The NWS products: the report if the newest one of the day is among those looked at
\* and parses, else none.  A request that fails looks the same.
AskReport(b) ==
    /\ At(b, "asked")
    /\ \/ /\ build' = [build EXCEPT ![b].pc = "answered",
                                    ![b].report = IF published THEN "exact" ELSE "absent"]
          /\ NoFault
       \/ /\ published /\ Fault(b)
          /\ build' = [build EXCEPT ![b].pc = "answered", ![b].report = "absent"]
    /\ lapsed' = lapsed \cup (IF best.report /\ ~published THEN {b} ELSE {})
    /\ UNCHANGED <<sources, loader, labels, collector, round, overlap, displaced>>

\* An exception of either request skips the contract.
AskRaises(b) ==
    /\ At(b, "asked") \/ At(b, "observing")
    /\ Fault(b)
    /\ build' = [build EXCEPT ![b] = NextContract(b)]
    /\ UNCHANGED <<sources, loader, labels, collector, round, overlap, fewer>>

\* Mutant: the report is not kept for the other contracts of the day.
ForgetReport(b) ==
    /\ At(b, "answered")
    /\ build' = [build EXCEPT ![b].pc = "observe"]
    /\ UNCHANGED <<sources, loader, labels, collector, round, history>>

\* The answer is kept, in whatever dictionary the loader has by now.
KeepReport(b) ==
    /\ At(b, "answered")
    /\ build' = [build EXCEPT ![b].pc = "observe"]
    /\ cache' = [cache EXCEPT !.report = build[b].report]
    /\ UNCHANGED <<sources, limitedKey, skips, labels, collector, round, history>>

\* The counter of the client, which all builds use, is read before the request.
LookUpObservations(b) ==
    /\ At(b, "observe")
    /\ build' = [build EXCEPT
            ![b].pc = IF cache.obs = NotObserved THEN "observing" ELSE "decide",
            ![b].obs = cache.obs, ![b].before = skips]
    /\ UNCHANGED <<sources, loader, labels, collector, round, history>>

\* What the two sources give when the requests to those in failed fail: the NWS wins
\* with any observation, with gaps or without temperatures too.
Reading(failed) ==
    IF "nws" \notin failed /\ nws # NoFeatures THEN nws
    ELSE IF "iem" \notin failed THEN iem ELSE 0

\* The NWS is asked, and the archive if that gave nothing; a request may fail, by a
\* rate limit or otherwise.
AskObservations(b) ==
    /\ At(b, "observing")
    /\ \E failed \in SUBSET {"nws", "iem"}, limited \in BOOLEAN :
          /\ "iem" \in failed => "nws" \in failed \/ nws = NoFeatures
          /\ limited => failed # {}
          /\ IF failed = {} THEN NoFault ELSE Fault(b)
          /\ skips' = IF limited THEN skips + 1 ELSE skips
          /\ build' = [build EXCEPT
                ![b].pc = IF skips' > build[b].before THEN "observed" ELSE "marked",
                ![b].obs = [temps |-> Reading(failed), limited |-> limited]]
    /\ displaced' = displaced \cup (IF Offered < best.temps THEN {b} ELSE {})
    /\ UNCHANGED <<sources, cache, limitedKey, labels, collector, round, overlap, lapsed>>

\* Mutant: a rate limit is not remembered.
ForgetLimit(b) ==
    /\ At(b, "observed")
    /\ build' = [build EXCEPT ![b].pc = "marked"]
    /\ UNCHANGED <<sources, loader, labels, collector, round, history>>

MarkLimited(b) ==
    /\ At(b, "observed")
    /\ build' = [build EXCEPT ![b].pc = "marked"]
    /\ limitedKey' = TRUE
    /\ UNCHANGED <<sources, cache, skips, labels, collector, round, history>>

KeepObservations(b) ==
    /\ At(b, "marked")
    /\ build' = [build EXCEPT ![b].pc = "decide"]
    /\ cache' = [cache EXCEPT !.obs = build[b].obs]
    /\ UNCHANGED <<sources, limitedKey, skips, labels, collector, round, history>>

LabelOf(b, source) ==
    [source |-> source, temps |-> build[b].obs.temps,
     limited |-> build[b].obs.limited, by |-> b]

\* With fewer than 3 temperatures the row has no value and no result.
FallbackLabel(b) == LabelOf(b, IF build[b].obs.temps = 0 THEN "unknown" ELSE "hourly")

ToWrite(b, row) == build' = [build EXCEPT ![b].pc = "write", ![b].row = row]

\* Mutant: the observations of a whole day come before the report.
DecideByStations(b) ==
    /\ At(b, "decide")
    /\ \/ build[b].report = "exact" /\ build[b].obs.temps < 2 /\ ToWrite(b, LabelOf(b, "exact"))
       \/ /\ build[b].report = "absent" \/ build[b].obs.temps = 2
          /\ IF limitedKey THEN build' = [build EXCEPT ![b] = NextContract(b)]
                           ELSE ToWrite(b, FallbackLabel(b))
    /\ UNCHANGED <<sources, loader, labels, collector, round, history>>

\* The report decides; without one the observations do, unless the day is marked.
Decide(b) ==
    /\ At(b, "decide")
    /\ \/ build[b].report = "exact" /\ ToWrite(b, LabelOf(b, "exact"))
       \/ /\ build[b].report = "absent"
          /\ IF limitedKey THEN build' = [build EXCEPT ![b] = NextContract(b)]
                           ELSE ToWrite(b, FallbackLabel(b))
    /\ UNCHANGED <<sources, loader, labels, collector, round, history>>

\* upsert_settlement_label: whatever row is there is replaced.
Write(b) ==
    /\ At(b, "write")
    /\ labels' = [labels EXCEPT ![build[b].at] = build[b].row]
    /\ build' = [build EXCEPT ![b] = NextContract(b)]
    /\ UNCHANGED <<sources, loader, collector, round, history>>

\* The write is outside of the try: an exception ends the build.
WriteRaises(b) ==
    /\ At(b, "write") /\ Fault(b)
    /\ build' = [build EXCEPT ![b].pc = "failed"]
    /\ UNCHANGED <<sources, loader, labels, collector, round, overlap, fewer>>

BuildStep(b) ==
    \/ LookUpReport(b) \/ AskReport(b) \/ AskRaises(b) \/ KeepReport(b)
    \/ LookUpObservations(b) \/ AskObservations(b) \/ MarkLimited(b) \/ KeepObservations(b)
    \/ Decide(b) \/ Write(b) \/ WriteRaises(b)

-------------------------------------------------------------------------------
(***************************************************************************)
(* The sources move on by themselves, and back: the NWS drops hours after  *)
(* some days and has gaps, and a product of the day falls out of the 50    *)
(* that are looked at, or a later one of the same day does not parse.      *)
(***************************************************************************)

Larger(a, b) == IF a < b THEN b ELSE a

\* A source has moved: best takes in what they have now.
Moved ==
    /\ collector # "ended" /\ moves < MaxMoves
    /\ moves' = moves + 1
    /\ best' = [report |-> best.report \/ published',
                temps  |-> Larger(best.temps, Larger(nws', iem'))]
    /\ UNCHANGED <<loader, labels, build, collector, round, history>>

NwsObserves ==
    /\ \E covered \in Days \cup {NoFeatures} : covered # nws /\ nws' = covered
    /\ UNCHANGED <<iem, published>> /\ Moved

IemObserves ==
    /\ \E covered \in Days : iem < covered /\ iem' = covered
    /\ UNCHANGED <<nws, published>> /\ Moved

Publish ==
    /\ published' = ~published
    /\ UNCHANGED <<nws, iem>> /\ Moved

Next == Collector \/ (\E b \in Builds : BuildStep(b)) \/ NwsObserves \/ IemObserves \/ Publish

Spec == Init /\ [][Next]_vars

\* The collector's own thread runs; nothing is assumed of the builds.
FairSpec == Spec /\ WF_vars(Collector)

-------------------------------------------------------------------------------
(***************************************************************************)
(* Properties.                                                             *)
(***************************************************************************)

\* How much a label is worth: nothing, no value, part of a day, all of it, the report.
Worth(label) ==
    CASE label.source \in {"none", "unknown"} -> 0
      [] label.source = "hourly" -> label.temps
      [] label.source = "exact"  -> 3

\* upsert_settlement_label replaces any row by any row.  Still, a label gets worse
\* only by a build that overlapped another (one that was given up may write late, or
\* leave an old answer in the dictionary of its successor), by one of whose requests
\* one failed, or by one whose sources had gone back: an exact label is lost only if
\* the report was gone when the build asked (fetch_report), and hours are lost only if
\* the station source that was taken had fewer than one of the two had before, as when
\* the NWS comes back with gaps and takes the place of the archive
\* (historical_hourly_observations).
LabelWorsensForACause ==
    [][\A c \in Contracts :
          Worth(labels'[c]) < Worth(labels[c])
             => labels'[c].by \in overlap' \cup missed'
                   \cup (IF labels[c].source = "exact" THEN lapsed' ELSE displaced')]_vars

\* _rate_limited_observation_keys: observations cut by a rate limit make no fallback
\* label, unless another build emptied the set or filled the dictionary meanwhile.
LimitedReadMakesNoLabel ==
    \A c \in Contracts :
       (labels[c].limited /\ labels[c].source # "exact") => labels[c].by \in overlap

\* _source_cache: a build that ran alone labels all contracts of a day from one report
\* and one set of observations, however the sources move on and whichever requests
\* fail while it runs.
OneBuildOneSource ==
    \A c, d \in Contracts :
       (labels[c].by = labels[d].by /\ labels[c].by \notin overlap)
          => labels[c] = labels[d]

\* _run_with_timeout: the collector reaches its end although a build may hang.
CollectorEnds == <>(collector = "ended")

===============================================================================
