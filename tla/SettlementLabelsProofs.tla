------------------------ MODULE SettlementLabelsProofs ------------------------
(***************************************************************************)
(* Theorems about SettlementLabels for any number of contracts, builds and *)
(* failures.  What a build writes depends on state that all builds share;  *)
(* a build that has run alone so far owns it: nobody else filled the cache *)
(* or marked the day since it began.                                       *)
(***************************************************************************)
EXTENDS SettlementLabels, TLAPS

Reports == {NotRead, "exact", "absent"}

Label == [source  : {"none", "unknown", "hourly", "exact"},
          temps   : Int,
          limited : BOOLEAN,
          by      : Nat]

Reads == Observations \cup {NotObserved}

Build == [pc     : {"new", "report", "asked", "answered", "observe", "observing",
                    "observed", "marked", "decide", "write", "done", "failed"},
          at     : Contracts,
          report : Reports,
          obs    : Reads,
          before : Nat,
          row    : Label]

TypeInv ==
    /\ nws \in Days \cup {NoFeatures} /\ iem \in Days /\ published \in BOOLEAN
    /\ best \in [report : BOOLEAN, temps : Days]
    /\ cache \in [report : Reports, obs : Reads]
    /\ limitedKey \in BOOLEAN /\ skips \in Nat
    /\ labels \in [Contracts -> Label]
    /\ build \in [Builds -> Build]
    /\ round \in 0..MaxBuilds
    /\ overlap \subseteq Builds /\ missed \subseteq Builds

\* Builds begin in order; no label is of a build that has not begun; a build writes
\* rows of its own.
Begun ==
    /\ \A b \in Builds : b > round => build[b].pc = "new"
    /\ \A c \in Contracts : labels[c].by <= round
    /\ \A b \in Builds : /\ build[b].before <= skips
                         /\ build[b].pc = "write" => build[b].row.by = b

Alone(b) == Running(b) /\ b \notin overlap

Solo == \A b, x \in Builds : Alone(b) /\ Running(x) => x = b

\* The label that the shared answers make.
Drawn(b) ==
    [source  |-> IF cache.report = "exact" THEN "exact"
                 ELSE IF cache.obs.temps = 0 THEN "unknown" ELSE "hourly",
     temps   |-> cache.obs.temps,
     limited |-> cache.obs.limited,
     by      |-> b]

\* The report that build b has in hand is the one that is kept.
OwnReport(b) ==
    /\ build[b].pc \in {"asked", "answered"} => cache.report = NotRead
    /\ build[b].pc = "answered" => build[b].report # NotRead
    /\ build[b].pc \in {"observe", "observing", "observed", "marked", "decide", "write"}
          => cache.report # NotRead /\ build[b].report = cache.report

\* So are its observations, once they are kept.
OwnObservations(b) ==
    /\ build[b].pc \in {"observing", "observed", "marked"} => cache.obs = NotObserved
    /\ build[b].pc \in {"observed", "marked"} => build[b].obs # NotObserved
    /\ build[b].pc \in {"decide", "write"}
          => cache.obs # NotObserved /\ build[b].obs = cache.obs

\* Its rows, written or not, are drawn from the kept answers.
OwnLabels(b) ==
    /\ build[b].pc = "write" => build[b].row = Drawn(b)
    /\ \A c \in Contracts : labels[c].by = b =>
          cache.report # NotRead /\ cache.obs # NotObserved /\ labels[c] = Drawn(b)

\* A limited answer has marked the day, and a marked day makes no fallback row.
OwnLimit(b) ==
    /\ cache.obs.limited => limitedKey
    /\ build[b].pc = "marked" /\ build[b].obs.limited => limitedKey
    /\ build[b].pc = "write" /\ build[b].row.limited => build[b].row.source = "exact"

Owns(b) == OwnReport(b) /\ OwnObservations(b) /\ OwnLabels(b) /\ OwnLimit(b)

Owned == \A b \in Builds : Alone(b) => Owns(b)

BuildInv == /\ TypeInv /\ Begun /\ Solo /\ Owned
            /\ LimitedReadMakesNoLabel /\ OneBuildOneSource

\* best is at least what the sources have now.
Remembered == (published => best.report) /\ nws <= best.temps /\ iem <= best.temps

\* Nothing is known that the sources never had.
Sourced ==
    /\ cache.report = "exact" => best.report
    /\ cache.obs.temps <= best.temps
    /\ \A b \in Builds :
          /\ build[b].report = "exact" => best.report
          /\ build[b].obs.temps <= best.temps
          /\ build[b].row.source = "exact" => best.report
          /\ build[b].row.temps <= best.temps
    /\ \A c \in Contracts :
          (labels[c].source = "exact" => best.report) /\ labels[c].temps <= best.temps

\* What build b read is no worse than what the labels of others were drawn from, unless
\* its sources had gone back.
NoWorse(b) ==
    \A c \in Contracts : labels[c].by # b =>
       /\ labels[c].source = "exact" /\ b \notin lapsed =>
             /\ cache.report # "absent"
             /\ build[b].pc = "answered" => build[b].report = "exact"
       /\ labels[c].source = "hourly" /\ b \notin displaced =>
             /\ cache.obs # NotObserved => labels[c].temps <= cache.obs.temps
             /\ build[b].pc \in {"observed", "marked"} =>
                   labels[c].temps <= build[b].obs.temps

Improves == \A b \in Builds : Alone(b) /\ b \notin missed => NoWorse(b)

WorthInv == BuildInv /\ Remembered /\ Sourced /\ Improves

-------------------------------------------------------------------------------
\* The types of a build's records.
LEMMA NewBuildTyped == NewBuild \in Build /\ NotObserved \in Reads /\ NoLabel \in Label
BY SizesAssumption DEF NewBuild, Build, Reports, Reads, NotRead, NotObserved, NoLabel, Label, Contracts

LEMMA NextContractTyped ==
    ASSUME TypeInv, NEW b \in Builds
    PROVE  /\ NextContract(b) \in Build
           /\ NextContract(b).pc \in {"report", "done"}
           /\ NextContract(b).before \in {0, build[b].before}
           /\ NextContract(b).row \in {NoLabel, build[b].row}
           /\ NextContract(b).report \in {NotRead, build[b].report}
           /\ NextContract(b).obs \in {NotObserved, build[b].obs}
<1>1. build[b] \in Build
  BY DEF TypeInv
<1>2. CASE build[b].at < N
  <2>1. NextContract(b) = [NewBuild EXCEPT !.pc = "report", !.at = build[b].at + 1]
    BY <1>2 DEF NextContract
  <2>2. build[b].at + 1 \in Contracts
    BY <1>1, <1>2, SizesAssumption DEF Build, Contracts
  <2> QED BY <2>1, <2>2, NewBuildTyped DEF NewBuild, Build
<1>3. CASE ~(build[b].at < N)
  <2>1. NextContract(b) = [build[b] EXCEPT !.pc = "done"]
    BY <1>3 DEF NextContract
  <2> QED BY <2>1, <1>1 DEF Build
<1> QED BY <1>2, <1>3

LEMMA InitWorthInv == Init => WorthInv
<1> SUFFICES ASSUME Init PROVE WorthInv
  OBVIOUS
<1> USE DEF Init
<1>1. \A b \in Builds : build[b] = NewBuild /\ ~Running(b)
  BY DEF Running, NewBuild
<1>2. \A c \in Contracts : labels[c] = NoLabel
  OBVIOUS
<1>3. TypeInv
  <2>1. NothingCached \in [report : Reports, obs : Reads]
    BY NewBuildTyped DEF NothingCached, Reports
  <2>2. labels \in [Contracts -> Label] /\ build \in [Builds -> Build]
    BY NewBuildTyped
  <2>3. /\ nws \in Days \cup {NoFeatures} /\ iem \in Days /\ skips \in Nat
        /\ best \in [report : BOOLEAN, temps : Days] /\ round \in 0..MaxBuilds
    BY SizesAssumption DEF Days
  <2>4. /\ published \in BOOLEAN /\ limitedKey \in BOOLEAN
        /\ overlap \subseteq Builds /\ missed \subseteq Builds
    OBVIOUS
  <2> QED BY <2>1, <2>2, <2>3, <2>4 DEF TypeInv
<1>4. Begun
  BY <1>1, <1>2, SizesAssumption DEF Begun, NewBuild, NoLabel, Builds
<1>5. Solo /\ Owned /\ Improves
  BY <1>1 DEF Solo, Owned, Improves, Alone
<1>6. LimitedReadMakesNoLabel /\ OneBuildOneSource
  BY <1>2 DEF LimitedReadMakesNoLabel, OneBuildOneSource, NoLabel
<1>7. Sourced
  BY <1>1, <1>2 DEF Sourced, NewBuild, NoLabel, NothingCached, NotRead, NotObserved
<1>8. Remembered
  BY DEF Remembered, NoFeatures
<1> QED BY <1>3, <1>4, <1>5, <1>6, <1>7, <1>8 DEF WorthInv, BuildInv

-------------------------------------------------------------------------------
(***************************************************************************)
(* A step of build b disturbs no other build that runs alone: there is     *)
(* none.                                                                   *)
(***************************************************************************)

StepOf(b) ==
    /\ Running(b)
    /\ \A x \in Builds \ {b} : build'[x] = build[x]
    /\ overlap' = overlap /\ missed \subseteq missed'
    /\ sources' = sources

LEMMA OnlyOwn ==
    ASSUME Solo, NEW b \in Builds, StepOf(b)
    PROVE  /\ Solo'
           /\ \A x \in Builds : Alone(x)' => x = b /\ Alone(b)
<1>1. \A x \in Builds : Running(x)' => Running(x)
  BY DEF StepOf, Running
<1>2. \A x \in Builds : Alone(x)' => Alone(x)
  BY <1>1 DEF StepOf, Alone
<1> QED BY <1>1, <1>2 DEF Solo, StepOf, Alone

LEMMA StepKeeps ==
    ASSUME WorthInv, NEW b \in Builds, StepOf(b), TypeInv', Begun', Sourced',
           Alone(b) => Owns(b)', Alone(b) /\ b \notin missed' => NoWorse(b)',
           LimitedReadMakesNoLabel', OneBuildOneSource'
    PROVE  WorthInv'
<1>1. Solo' /\ \A x \in Builds : Alone(x)' => x = b /\ Alone(b)
  BY OnlyOwn DEF WorthInv, BuildInv
<1>2. Owned' /\ Improves'
  BY <1>1 DEF Owned, Improves
<1>3. Remembered'
  BY DEF WorthInv, Remembered, StepOf, sources
<1> QED BY <1>1, <1>2, <1>3 DEF WorthInv, BuildInv

LEMMA LabelsKept ==
    ASSUME WorthInv, labels' = labels, overlap' = overlap
    PROVE  LimitedReadMakesNoLabel' /\ OneBuildOneSource'
BY DEF WorthInv, BuildInv, LimitedReadMakesNoLabel, OneBuildOneSource

\* What WorthInv says of a build that runs.
LEMMA OfBuild ==
    ASSUME WorthInv, NEW b \in Builds
    PROVE  /\ TypeInv /\ Begun /\ Sourced
           /\ build[b] \in Build /\ cache.report \in Reports /\ cache.obs \in Reads
           /\ Running(b) => b <= round
           /\ Alone(b) => Owns(b)
           /\ Alone(b) /\ b \notin missed => NoWorse(b)
<1>1. Running(b) => b <= round
  BY SizesAssumption DEF WorthInv, BuildInv, Begun, Running, TypeInv, Builds
<1>2. build[b] \in Build /\ cache.report \in Reports /\ cache.obs \in Reads
  BY DEF WorthInv, BuildInv, TypeInv
<1> QED BY <1>1, <1>2 DEF WorthInv, BuildInv, Owned, Improves

LEMMA LookUpReportStep ==
    ASSUME WorthInv, NEW b \in Builds, LookUpReport(b) PROVE WorthInv'
<1>0. /\ TypeInv /\ Begun /\ Sourced /\ build[b] \in Build /\ cache.report \in Reports
      /\ Alone(b) => Owns(b)
      /\ Alone(b) /\ b \notin missed => NoWorse(b)
  BY OfBuild
<1>1. /\ build[b].pc = "report"
      /\ UNCHANGED <<sources, loader, labels, collector, round, history>>
  BY DEF LookUpReport, At
<1> USE <1>0, <1>1 DEF sources, loader, history, fewer
<1>2. PICK p \in {"asked", "observe"} :
         /\ build' = [build EXCEPT ![b].pc = p, ![b].report = cache.report]
         /\ p = "asked" <=> cache.report = NotRead
  <2>1. CASE cache.report = NotRead
    BY <2>1 DEF LookUpReport
  <2>2. CASE cache.report # NotRead
    BY <2>2 DEF LookUpReport
  <2> QED BY <2>1, <2>2
<1>3. /\ build'[b] = [build[b] EXCEPT !.pc = p, !.report = cache.report]
      /\ \A x \in Builds \ {b} : build'[x] = build[x]
      /\ build' \in [Builds -> Build]
  BY <1>2 DEF TypeInv, Build
<1>4. /\ build'[b].pc = p /\ build'[b].report = cache.report
      /\ build'[b].obs = build[b].obs /\ build'[b].before = build[b].before
      /\ build'[b].row = build[b].row
  BY <1>3 DEF Build
<1>5. StepOf(b)
  BY <1>3 DEF StepOf, Running
<1>6. TypeInv'
  BY <1>3 DEF TypeInv
<1>7. Begun' /\ Sourced'
  BY <1>2, <1>3, <1>4 DEF Begun, Sourced
<1>8. Alone(b) => Owns(b)'
  BY <1>2, <1>4 DEF Owns, OwnReport, OwnObservations, OwnLabels, OwnLimit, Drawn
<1>9. Alone(b) /\ b \notin missed' => NoWorse(b)'
  BY <1>2, <1>4 DEF NoWorse
<1> QED BY StepKeeps, LabelsKept, <1>5, <1>6, <1>7, <1>8, <1>9

LEMMA AskReportStep ==
    ASSUME WorthInv, NEW b \in Builds, AskReport(b) PROVE WorthInv'
<1>0. /\ TypeInv /\ Begun /\ Sourced /\ build[b] \in Build
      /\ Alone(b) => Owns(b)
      /\ Alone(b) /\ b \notin missed => NoWorse(b)
  BY OfBuild
<1>1. /\ build[b].pc = "asked"
      /\ UNCHANGED <<sources, loader, labels, collector, round, overlap, displaced>>
      /\ lapsed' = lapsed \cup (IF best.report /\ ~published THEN {b} ELSE {})
      /\ published => best.report
  BY DEF AskReport, At, WorthInv, Remembered
<1> USE <1>0, <1>1 DEF sources, loader
<1>10. lapsed \subseteq lapsed' /\ (best.report /\ ~published => b \in lapsed')
  BY <1>1
<1>2. PICK r \in {"exact", "absent"} :
         /\ build' = [build EXCEPT ![b].pc = "answered", ![b].report = r]
         /\ r = "exact" => published
         /\ published /\ b \notin missed' => r = "exact"
         /\ missed \subseteq missed' /\ missed' \subseteq Builds
  <2>1. CASE /\ build' = [build EXCEPT ![b].pc = "answered",
                                       ![b].report = IF published THEN "exact" ELSE "absent"]
             /\ NoFault
    <3>1. missed' = missed /\ missed \subseteq Builds
      BY <2>1 DEF NoFault, TypeInv
    <3>2. CASE published
      BY <2>1, <3>1, <3>2
    <3>3. CASE ~published
      BY <2>1, <3>1, <3>3
    <3> QED BY <3>2, <3>3
  <2>2. CASE /\ published /\ Fault(b)
             /\ build' = [build EXCEPT ![b].pc = "answered", ![b].report = "absent"]
    BY <2>2 DEF Fault, TypeInv
  <2> QED BY <2>1, <2>2 DEF AskReport
<1>3. /\ build'[b] = [build[b] EXCEPT !.pc = "answered", !.report = r]
      /\ \A x \in Builds \ {b} : build'[x] = build[x]
      /\ build' \in [Builds -> Build]
  BY <1>2 DEF TypeInv, Build, Reports
<1>4. /\ build'[b].pc = "answered" /\ build'[b].report = r
      /\ build'[b].obs = build[b].obs /\ build'[b].before = build[b].before
      /\ build'[b].row = build[b].row
  BY <1>3 DEF Build
<1>5. StepOf(b)
  BY <1>2, <1>3 DEF StepOf, Running
<1>6. TypeInv'
  BY <1>2, <1>3 DEF TypeInv
<1>7. Begun' /\ Sourced'
  BY <1>2, <1>3, <1>4 DEF Begun, Sourced
<1>8. Alone(b) => Owns(b)'
  BY <1>2, <1>4 DEF Owns, OwnReport, OwnObservations, OwnLabels, OwnLimit, Drawn, NotRead
<1>9. Alone(b) /\ b \notin missed' => NoWorse(b)'
  BY <1>2, <1>4, <1>10 DEF NoWorse, Sourced
<1> QED BY StepKeeps, LabelsKept, <1>5, <1>6, <1>7, <1>8, <1>9

\* A contract is passed over: the build goes on to the next one and writes nothing.
LEMMA SkipStep ==
    ASSUME WorthInv, NEW b \in Builds, Running(b),
           build' = [build EXCEPT ![b] = NextContract(b)],
           UNCHANGED <<sources, loader, labels, round, overlap, fewer>>,
           missed \subseteq missed', missed' \subseteq Builds
    PROVE  WorthInv'
<1>0. /\ TypeInv /\ Begun /\ Sourced /\ build[b] \in Build
      /\ Alone(b) => Owns(b)
      /\ Alone(b) /\ b \notin missed => NoWorse(b)
      /\ b <= round
  BY OfBuild
<1> USE <1>0 DEF sources, loader
<1>3. /\ build'[b] = NextContract(b)
      /\ \A x \in Builds \ {b} : build'[x] = build[x]
      /\ build' \in [Builds -> Build]
  BY NextContractTyped DEF TypeInv
<1>4. /\ build'[b].pc \in {"report", "done"}
      /\ build'[b].report \in {NotRead, build[b].report}
      /\ build'[b].obs \in {NotObserved, build[b].obs}
      /\ build'[b].before \in {0, build[b].before}
      /\ build'[b].row \in {NoLabel, build[b].row}
  BY <1>3, NextContractTyped
<1>5. StepOf(b)
  BY <1>3 DEF StepOf
<1>6. TypeInv'
  BY <1>3 DEF TypeInv
<1>7. Begun'
  BY <1>3, <1>4 DEF Begun, TypeInv, Build, Builds
<1>8. Sourced'
  BY <1>3, <1>4 DEF Sourced, TypeInv, Days, NotRead, NotObserved, NoLabel
<1>9. Alone(b) => Owns(b)'
  BY <1>4 DEF Owns, OwnReport, OwnObservations, OwnLabels, OwnLimit, Drawn
<1>10. Alone(b) /\ b \notin missed' => NoWorse(b)'
  BY <1>4 DEF NoWorse, fewer
<1> QED BY StepKeeps, LabelsKept, <1>5, <1>6, <1>7, <1>8, <1>9, <1>10

LEMMA AskRaisesStep ==
    ASSUME WorthInv, NEW b \in Builds, AskRaises(b) PROVE WorthInv'
<1>1. Running(b) /\ missed \subseteq missed' /\ missed' \subseteq Builds
  BY OfBuild DEF AskRaises, At, Running, Fault, TypeInv
<1> QED BY <1>1, SkipStep DEF AskRaises

LEMMA KeepReportStep ==
    ASSUME WorthInv, NEW b \in Builds, KeepReport(b) PROVE WorthInv'
<1>0. /\ TypeInv /\ Begun /\ Sourced /\ build[b] \in Build
      /\ Alone(b) => Owns(b)
      /\ Alone(b) /\ b \notin missed => NoWorse(b)
  BY OfBuild
<1>1. /\ build[b].pc = "answered"
      /\ build' = [build EXCEPT ![b].pc = "observe"]
      /\ cache' = [cache EXCEPT !.report = build[b].report]
      /\ UNCHANGED <<sources, limitedKey, skips, labels, collector, round, history>>
  BY DEF KeepReport, At
<1> USE <1>0, <1>1 DEF sources, history, fewer
<1>2. /\ cache' \in [report : Reports, obs : Reads]
      /\ cache'.report = build[b].report /\ cache'.obs = cache.obs
  BY DEF TypeInv, Build
<1>3. /\ build'[b] = [build[b] EXCEPT !.pc = "observe"]
      /\ \A x \in Builds \ {b} : build'[x] = build[x]
      /\ build' \in [Builds -> Build]
  BY DEF TypeInv, Build
<1>4. /\ build'[b].pc = "observe" /\ build'[b].report = build[b].report
      /\ build'[b].obs = build[b].obs /\ build'[b].before = build[b].before
      /\ build'[b].row = build[b].row
  BY <1>3 DEF Build
<1>5. StepOf(b)
  BY <1>3 DEF StepOf, Running
<1>6. TypeInv'
  BY <1>2, <1>3 DEF TypeInv
<1>7. Begun' /\ Sourced'
  BY <1>2, <1>3, <1>4 DEF Begun, Sourced
<1>8. Alone(b) => Owns(b)'
  BY <1>2, <1>4 DEF Owns, OwnReport, OwnObservations, OwnLabels, OwnLimit
<1>9. Alone(b) /\ b \notin missed' => NoWorse(b)'
  BY <1>2, <1>4 DEF NoWorse
<1> QED BY StepKeeps, LabelsKept, <1>5, <1>6, <1>7, <1>8, <1>9

LEMMA LookUpObservationsStep ==
    ASSUME WorthInv, NEW b \in Builds, LookUpObservations(b) PROVE WorthInv'
<1>0. /\ TypeInv /\ Begun /\ Sourced /\ build[b] \in Build /\ cache.obs \in Reads
      /\ Alone(b) => Owns(b)
      /\ Alone(b) /\ b \notin missed => NoWorse(b)
  BY OfBuild
<1>1. /\ build[b].pc = "observe"
      /\ UNCHANGED <<sources, loader, labels, collector, round, history>>
  BY DEF LookUpObservations, At
<1> USE <1>0, <1>1 DEF sources, loader, history, fewer
<1>2. PICK p \in {"observing", "decide"} :
         /\ build' = [build EXCEPT ![b].pc = p, ![b].obs = cache.obs, ![b].before = skips]
         /\ p = "observing" <=> cache.obs = NotObserved
  <2>1. CASE cache.obs = NotObserved
    BY <2>1 DEF LookUpObservations
  <2>2. CASE cache.obs # NotObserved
    BY <2>2 DEF LookUpObservations
  <2> QED BY <2>1, <2>2
<1>3. /\ build'[b] = [build[b] EXCEPT !.pc = p, !.obs = cache.obs, !.before = skips]
      /\ \A x \in Builds \ {b} : build'[x] = build[x]
      /\ build' \in [Builds -> Build]
  BY <1>2 DEF TypeInv, Build
<1>4. /\ build'[b].pc = p /\ build'[b].report = build[b].report
      /\ build'[b].obs = cache.obs /\ build'[b].before = skips
      /\ build'[b].row = build[b].row
  BY <1>3 DEF Build
<1>5. StepOf(b)
  BY <1>3 DEF StepOf, Running
<1>6. TypeInv'
  BY <1>3 DEF TypeInv
<1>7. Begun' /\ Sourced'
  BY <1>2, <1>3, <1>4 DEF Begun, Sourced, TypeInv
<1>8. Alone(b) => Owns(b)'
  BY <1>2, <1>4 DEF Owns, OwnReport, OwnObservations, OwnLabels, OwnLimit, Drawn
<1>9. Alone(b) /\ b \notin missed' => NoWorse(b)'
  BY <1>2, <1>4 DEF NoWorse
<1> QED BY StepKeeps, LabelsKept, <1>5, <1>6, <1>7, <1>8, <1>9

LEMMA AskObservationsStep ==
    ASSUME WorthInv, NEW b \in Builds, AskObservations(b) PROVE WorthInv'
<1>0. /\ TypeInv /\ Begun /\ Sourced /\ build[b] \in Build
      /\ Alone(b) => Owns(b)
      /\ Alone(b) /\ b \notin missed => NoWorse(b)
  BY OfBuild
<1>1. /\ build[b].pc = "observing"
      /\ UNCHANGED <<sources, cache, limitedKey, labels, collector, round, overlap, lapsed>>
      /\ displaced' = displaced \cup (IF Offered < best.temps THEN {b} ELSE {})
  BY DEF AskObservations, At
<1> USE <1>0, <1>1 DEF sources
<1>2. PICK failed \in SUBSET {"nws", "iem"}, limited \in BOOLEAN :
         /\ limited => failed # {}
         /\ IF failed = {} THEN NoFault ELSE Fault(b)
         /\ skips' = IF limited THEN skips + 1 ELSE skips
         /\ build' = [build EXCEPT
               ![b].pc = IF skips' > build[b].before THEN "observed" ELSE "marked",
               ![b].obs = [temps |-> Reading(failed), limited |-> limited]]
  BY DEF AskObservations
<1> DEFINE obs == [temps |-> Reading(failed), limited |-> limited]
<1>3. /\ Reading(failed) \in Days /\ Reading(failed) <= best.temps
      /\ failed = {} /\ b \notin displaced' => Reading(failed) = best.temps
  <2>1. /\ nws \in {-1, 0, 1, 2} /\ iem \in {0, 1, 2} /\ best.temps \in {0, 1, 2}
        /\ nws <= best.temps /\ iem <= best.temps
    BY DEF TypeInv, WorthInv, Remembered, Days, NoFeatures
  <2>2. \/ Reading(failed) \in {0, iem}
        \/ Reading(failed) = nws /\ nws # -1
    BY <2>1 DEF Reading, NoFeatures
  <2>3. Reading({}) = Offered
    BY DEF Reading, Offered
  <2>4. b \notin displaced' => ~(Offered < best.temps)
    BY <1>1
  <2>5. Offered \in {0, 1, 2} /\ Offered <= best.temps
    BY <2>1 DEF Offered, NoFeatures
  <2>6. Reading(failed) \in Days /\ Reading(failed) <= best.temps
    BY <2>1, <2>2 DEF Days
  <2>7. ASSUME failed = {}, b \notin displaced' PROVE Reading(failed) = best.temps
    BY <2>1, <2>3, <2>4, <2>5, <2>7
  <2> QED BY <2>6, <2>7
<1>4. obs.limited = limited /\ obs.temps = Reading(failed)
  OBVIOUS
<1>16. obs \in Reads /\ obs # NotObserved
  BY <1>3 DEF Reads, Observations, NotObserved, Days
<1>5. /\ missed \subseteq missed' /\ missed' \subseteq Builds
      /\ b \notin missed' => failed = {}
  <2>1. CASE failed # {}
    BY <1>2, <2>1 DEF Fault, TypeInv
  <2>2. CASE failed = {}
    BY <1>2, <2>2 DEF NoFault, TypeInv
  <2> QED BY <2>1, <2>2
<1>6. /\ skips' \in Nat /\ skips <= skips'
      /\ limited => skips' > build[b].before
  BY <1>2 DEF TypeInv, Begun, Build
<1> HIDE DEF obs
<1>7. PICK p \in {"observed", "marked"} :
         /\ build' = [build EXCEPT ![b].pc = p, ![b].obs = obs]
         /\ limited => p = "observed"
  <2>1. CASE skips' > build[b].before
    BY <1>2, <2>1 DEF obs
  <2>2. CASE ~(skips' > build[b].before)
    BY <1>2, <1>6, <2>2 DEF obs
  <2> QED BY <2>1, <2>2
<1>8. /\ build'[b] = [build[b] EXCEPT !.pc = p, !.obs = obs]
      /\ \A x \in Builds \ {b} : build'[x] = build[x]
      /\ build' \in [Builds -> Build]
  BY <1>16, <1>7 DEF TypeInv, Build
<1>9. /\ build'[b].pc = p /\ build'[b].report = build[b].report
      /\ build'[b].obs = obs /\ build'[b].before = build[b].before
      /\ build'[b].row = build[b].row
  BY <1>8 DEF Build
<1>10. StepOf(b)
  BY <1>5, <1>8 DEF StepOf, Running
<1>11. TypeInv'
  BY <1>5, <1>6, <1>8 DEF TypeInv
<1>12. Begun'
  <2>0. \A x \in Builds : build[x].before \in Nat /\ build[x].before <= skips
    BY DEF Begun, TypeInv, Build
  <2>1. \A x \in Builds : build'[x].before = build[x].before
    BY <1>8, <1>9
  <2>4. \A x \in Builds : build'[x].before <= skips'
    BY <1>6, <2>0, <2>1 DEF TypeInv
  <2>2. \A x \in Builds : build'[x].row = build[x].row /\ (x # b => build'[x].pc = build[x].pc)
    BY <1>8, <1>9
  <2>3. ~(b > round)
    BY OfBuild DEF Running, Begun
  <2> QED BY <1>9, <2>4, <2>2, <2>3 DEF Begun
<1>18. obs.temps <= best.temps
  BY <1>3, <1>4
<1>13. Sourced'
  <2>1. \A x \in Builds : /\ build'[x].report = build[x].report
                          /\ build'[x].row = build[x].row
                          /\ build'[x].obs = IF x = b THEN obs ELSE build[x].obs
    BY <1>8, <1>9
  <2> QED BY <1>18, <2>1 DEF Sourced
<1>14. Alone(b) => Owns(b)'
  BY <1>4, <1>7, <1>9, <1>16
     DEF Owns, OwnReport, OwnObservations, OwnLabels, OwnLimit, Drawn
<1>17. displaced \subseteq displaced'
  BY <1>1
<1>15. Alone(b) /\ b \notin missed' => NoWorse(b)'
  BY <1>3, <1>4, <1>5, <1>9, <1>17 DEF NoWorse, Sourced
<1> QED BY StepKeeps, LabelsKept, <1>10, <1>11, <1>12, <1>13, <1>14, <1>15

LEMMA MarkLimitedStep ==
    ASSUME WorthInv, NEW b \in Builds, MarkLimited(b) PROVE WorthInv'
<1>0. /\ TypeInv /\ Begun /\ Sourced /\ build[b] \in Build
      /\ Alone(b) => Owns(b)
      /\ Alone(b) /\ b \notin missed => NoWorse(b)
  BY OfBuild
<1>1. /\ build[b].pc = "observed" /\ limitedKey' = TRUE
      /\ build' = [build EXCEPT ![b].pc = "marked"]
      /\ UNCHANGED <<sources, cache, skips, labels, collector, round, history>>
  BY DEF MarkLimited, At
<1> USE <1>0, <1>1 DEF sources, history, fewer
<1>3. /\ build'[b] = [build[b] EXCEPT !.pc = "marked"]
      /\ \A x \in Builds \ {b} : build'[x] = build[x]
      /\ build' \in [Builds -> Build]
  BY DEF TypeInv, Build
<1>4. /\ build'[b].pc = "marked" /\ build'[b].report = build[b].report
      /\ build'[b].obs = build[b].obs /\ build'[b].before = build[b].before
      /\ build'[b].row = build[b].row
  BY <1>3 DEF Build
<1>5. StepOf(b)
  BY <1>3 DEF StepOf, Running
<1>6. TypeInv'
  BY <1>3 DEF TypeInv
<1>7. Begun' /\ Sourced'
  BY <1>3, <1>4 DEF Begun, Sourced
<1>8. Alone(b) => Owns(b)'
  BY <1>4 DEF Owns, OwnReport, OwnObservations, OwnLabels, OwnLimit, Drawn
<1>9. Alone(b) /\ b \notin missed' => NoWorse(b)'
  BY <1>4 DEF NoWorse
<1> QED BY StepKeeps, LabelsKept, <1>5, <1>6, <1>7, <1>8, <1>9

LEMMA KeepObservationsStep ==
    ASSUME WorthInv, NEW b \in Builds, KeepObservations(b) PROVE WorthInv'
<1>0. /\ TypeInv /\ Begun /\ Sourced /\ build[b] \in Build
      /\ Alone(b) => Owns(b)
      /\ Alone(b) /\ b \notin missed => NoWorse(b)
  BY OfBuild
<1>1. /\ build[b].pc = "marked"
      /\ build' = [build EXCEPT ![b].pc = "decide"]
      /\ cache' = [cache EXCEPT !.obs = build[b].obs]
      /\ UNCHANGED <<sources, limitedKey, skips, labels, collector, round, history>>
  BY DEF KeepObservations, At
<1> USE <1>0, <1>1 DEF sources, history, fewer
<1>2. /\ cache' \in [report : Reports, obs : Reads]
      /\ cache'.report = cache.report /\ cache'.obs = build[b].obs
  BY DEF TypeInv, Build
<1>3. /\ build'[b] = [build[b] EXCEPT !.pc = "decide"]
      /\ \A x \in Builds \ {b} : build'[x] = build[x]
      /\ build' \in [Builds -> Build]
  BY DEF TypeInv, Build
<1>4. /\ build'[b].pc = "decide" /\ build'[b].report = build[b].report
      /\ build'[b].obs = build[b].obs /\ build'[b].before = build[b].before
      /\ build'[b].row = build[b].row
  BY <1>3 DEF Build
<1>5. StepOf(b)
  BY <1>3 DEF StepOf, Running
<1>6. TypeInv'
  BY <1>2, <1>3 DEF TypeInv
<1>7. Begun' /\ Sourced'
  BY <1>2, <1>3, <1>4 DEF Begun, Sourced
<1>8. Alone(b) => Owns(b)'
  BY <1>2, <1>4 DEF Owns, OwnReport, OwnObservations, OwnLabels, OwnLimit
<1>9. Alone(b) /\ b \notin missed' => NoWorse(b)'
  BY <1>2, <1>4 DEF NoWorse
<1> QED BY StepKeeps, LabelsKept, <1>5, <1>6, <1>7, <1>8, <1>9

LEMMA DecideStep ==
    ASSUME WorthInv, NEW b \in Builds, Decide(b) PROVE WorthInv'
<1>0. /\ TypeInv /\ Begun /\ Sourced /\ build[b] \in Build
      /\ Alone(b) => Owns(b)
      /\ Alone(b) /\ b \notin missed => NoWorse(b)
  BY OfBuild
<1>1. /\ build[b].pc = "decide"
      /\ UNCHANGED <<sources, loader, labels, collector, round, history>>
  BY DEF Decide, At
<1> USE <1>0, <1>1 DEF sources, loader, history, fewer
<1>2. CASE build' = [build EXCEPT ![b] = NextContract(b)]
  BY <1>2, SkipStep DEF Running, TypeInv
<1>3. CASE \E source \in {"unknown", "hourly", "exact"} :
              /\ ToWrite(b, LabelOf(b, source))
              /\ source = "exact" <=> build[b].report = "exact"
              /\ source # "exact" =>
                    /\ ~limitedKey
                    /\ source = IF build[b].obs.temps = 0 THEN "unknown" ELSE "hourly"
  <2>1. PICK source \in {"unknown", "hourly", "exact"} :
           /\ ToWrite(b, LabelOf(b, source))
           /\ source = "exact" <=> build[b].report = "exact"
           /\ source # "exact" =>
                 /\ ~limitedKey
                 /\ source = IF build[b].obs.temps = 0 THEN "unknown" ELSE "hourly"
    BY <1>3
  <2> DEFINE row == LabelOf(b, source)
  <2>2. /\ row \in Label /\ row.source = source /\ row.by = b
        /\ row.temps = build[b].obs.temps /\ row.limited = build[b].obs.limited
    <3>1. build[b].obs.temps \in Int /\ build[b].obs.limited \in BOOLEAN
      <4>1. build[b].obs \in Observations \/ build[b].obs = NotObserved
        BY DEF Build, Reads
      <4>2. CASE build[b].obs \in Observations
        BY <4>2 DEF Observations, Days
      <4>3. CASE build[b].obs = NotObserved
        BY <4>3 DEF NotObserved
      <4> QED BY <4>1, <4>2, <4>3
    <3>2. b \in Nat
      BY DEF Builds
    <3> QED BY <3>1, <3>2 DEF LabelOf, Label
  <2>3. build' = [build EXCEPT ![b].pc = "write", ![b].row = row]
    BY <2>1 DEF ToWrite
  <2>4. Alone(b) => row = Drawn(b)
    BY <2>1 DEF Owns, OwnReport, OwnObservations, Drawn, LabelOf
  <2> HIDE DEF row
  <2>5. /\ build'[b] = [build[b] EXCEPT !.pc = "write", !.row = row]
        /\ \A x \in Builds \ {b} : build'[x] = build[x]
        /\ build' \in [Builds -> Build]
    BY <2>2, <2>3 DEF TypeInv, Build
  <2>6. /\ build'[b].pc = "write" /\ build'[b].report = build[b].report
        /\ build'[b].obs = build[b].obs /\ build'[b].before = build[b].before
        /\ build'[b].row = row
    BY <2>5 DEF Build
  <2>7. StepOf(b)
    BY <2>5 DEF StepOf, Running
  <2>8. TypeInv'
    BY <2>5 DEF TypeInv
  <2>9. Begun'
    <3>1. ~(b > round)
      BY OfBuild DEF Running, Begun
    <3>2. \A x \in Builds : build'[x].before = build[x].before
      BY <2>5, <2>6
    <3>3. ASSUME NEW x \in Builds, build'[x].pc = "write" PROVE build'[x].row.by = x
      <4>1. CASE x = b
        BY <4>1, <2>2, <2>6
      <4>2. CASE x # b
        BY <4>2, <3>3, <2>5 DEF Begun
      <4> QED BY <4>1, <4>2
    <3>4. \A x \in Builds : x > round => build'[x].pc = "new"
      BY <2>5, <3>1 DEF Begun
    <3>5. \A c \in Contracts : labels[c].by <= round
      BY DEF Begun
    <3>6. \A x \in Builds : build'[x].before <= skips
      BY <3>2 DEF Begun
    <3> QED BY <3>3, <3>4, <3>5, <3>6 DEF Begun
  <2>10. Sourced'
    <3>1. (row.source = "exact" => best.report) /\ row.temps <= best.temps
      BY <2>1, <2>2 DEF Sourced
    <3>2. \A x \in Builds :
             /\ build'[x].report = build[x].report /\ build'[x].obs = build[x].obs
             /\ build'[x].row = IF x = b THEN row ELSE build[x].row
      BY <2>5, <2>6
    <3>3. \A x \in Builds : (build'[x].report = "exact" => best.report)
                            /\ build'[x].obs.temps <= best.temps
      BY <3>2 DEF Sourced
    <3>4. \A x \in Builds : (build'[x].row.source = "exact" => best.report)
                            /\ build'[x].row.temps <= best.temps
      BY <3>1, <3>2 DEF Sourced
    <3> QED BY <3>3, <3>4 DEF Sourced
  <2>11. Alone(b) => Owns(b)'
    BY <2>1, <2>2, <2>4, <2>6
       DEF Owns, OwnReport, OwnObservations, OwnLabels, OwnLimit, Drawn
  <2>12. Alone(b) /\ b \notin missed' => NoWorse(b)'
    BY <2>6 DEF NoWorse
  <2> QED BY StepKeeps, LabelsKept, <2>7, <2>8, <2>9, <2>10, <2>11, <2>12
<1>4. CASE build[b].report = "exact" /\ ToWrite(b, LabelOf(b, "exact"))
  BY <1>3, <1>4
<1>5. CASE build[b].report = "absent" /\ ~limitedKey /\ ToWrite(b, FallbackLabel(b))
  <2>1. CASE build[b].obs.temps = 0
    BY <1>3, <1>5, <2>1 DEF FallbackLabel
  <2>2. CASE build[b].obs.temps # 0
    BY <1>3, <1>5, <2>2 DEF FallbackLabel
  <2> QED BY <2>1, <2>2
<1> QED BY <1>2, <1>4, <1>5 DEF Decide

LEMMA WriteStep ==
    ASSUME WorthInv, NEW b \in Builds, Write(b) PROVE WorthInv'
<1>0. /\ TypeInv /\ Begun /\ Sourced /\ build[b] \in Build /\ b <= round
      /\ Alone(b) => Owns(b)
      /\ Alone(b) /\ b \notin missed => NoWorse(b)
  BY OfBuild DEF Write, At, Running
<1>1. /\ build[b].pc = "write"
      /\ labels' = [labels EXCEPT ![build[b].at] = build[b].row]
      /\ build' = [build EXCEPT ![b] = NextContract(b)]
      /\ UNCHANGED <<sources, loader, collector, round, history>>
  BY DEF Write, At
<1> USE <1>0, <1>1 DEF sources, loader, history, fewer
<1>2. /\ build'[b] = NextContract(b)
      /\ \A x \in Builds \ {b} : build'[x] = build[x]
      /\ build' \in [Builds -> Build]
  BY NextContractTyped DEF TypeInv
<1>3. /\ build'[b].pc \in {"report", "done"}
      /\ build'[b].report \in {NotRead, build[b].report}
      /\ build'[b].obs \in {NotObserved, build[b].obs}
      /\ build'[b].before \in {0, build[b].before}
      /\ build'[b].row \in {NoLabel, build[b].row}
  BY <1>2, NextContractTyped
<1>4. /\ labels' \in [Contracts -> Label]
      /\ \A c \in Contracts : labels'[c] \in {labels[c], build[b].row}
      /\ build[b].row.by = b
  BY DEF TypeInv, Begun, Build
<1>5. StepOf(b)
  BY <1>2 DEF StepOf, Running
<1>6. TypeInv'
  BY <1>2, <1>4 DEF TypeInv
<1>7. Begun'
  <2>1. \A c \in Contracts : labels'[c].by <= round
    BY <1>4 DEF Begun
  <2>2. \A x \in Builds : build'[x].before <= skips
    BY <1>2, <1>3 DEF Begun, TypeInv
  <2>3. ASSUME NEW x \in Builds PROVE /\ x > round => build'[x].pc = "new"
                                      /\ build'[x].pc = "write" => build'[x].row.by = x
    <3>1. CASE x = b
      BY <1>3, <3>1 DEF Begun
    <3>2. CASE x # b
      BY <1>2, <3>2 DEF Begun
    <3> QED BY <3>1, <3>2
  <2> QED BY <2>1, <2>2, <2>3 DEF Begun
<1>8. Sourced'
  <2>1. \A c \in Contracts : (labels'[c].source = "exact" => best.report)
                             /\ labels'[c].temps <= best.temps
    BY <1>4 DEF Sourced
  <2>2. ASSUME NEW x \in Builds
        PROVE  /\ build'[x].report = "exact" => best.report
               /\ build'[x].obs.temps <= best.temps
               /\ build'[x].row.source = "exact" => best.report
               /\ build'[x].row.temps <= best.temps
    <3>1. CASE x = b
      BY <1>3, <3>1 DEF Sourced, TypeInv, Days, NotRead, NotObserved, NoLabel
    <3>2. CASE x # b
      BY <1>2, <3>2 DEF Sourced
    <3> QED BY <3>1, <3>2
  <2> QED BY <2>1, <2>2 DEF Sourced
<1>9. Alone(b) => Owns(b)'
  <2> SUFFICES ASSUME Alone(b) PROVE Owns(b)'
    OBVIOUS
  <2>1. /\ cache.report # NotRead /\ cache.obs # NotObserved
        /\ build[b].row = Drawn(b) /\ (cache.obs.limited => limitedKey)
    BY DEF Owns, OwnReport, OwnObservations, OwnLabels, OwnLimit
  <2>2. \A c \in Contracts : labels'[c].by = b => labels'[c] = Drawn(b)
    BY <1>4, <2>1 DEF Owns, OwnLabels
  <2>3. Drawn(b)' = Drawn(b)
    BY DEF Drawn
  <2> QED BY <1>3, <2>1, <2>2, <2>3
             DEF Owns, OwnReport, OwnObservations, OwnLabels, OwnLimit
<1>10. Alone(b) /\ b \notin missed' => NoWorse(b)'
  BY <1>3, <1>4 DEF NoWorse
<1>11. LimitedReadMakesNoLabel'
  <2>1. Running(b)
    BY DEF Running
  <2>2. b \notin overlap => (build[b].row.limited => build[b].row.source = "exact")
    BY <2>1 DEF Alone, Owns, OwnLimit
  <2> QED BY <1>4, <2>2 DEF WorthInv, BuildInv, LimitedReadMakesNoLabel
<1>12. OneBuildOneSource'
  <2>1. Running(b)
    BY DEF Running
  <2>2. ASSUME NEW c \in Contracts, labels'[c].by = b, b \notin overlap
        PROVE  labels'[c] = build[b].row
    BY <1>4, <2>1, <2>2 DEF Alone, Owns, OwnLabels
  <2>3. ASSUME NEW c \in Contracts, labels'[c].by # b
        PROVE  labels'[c] = labels[c]
    BY <1>4, <2>3
  <2> QED BY <2>2, <2>3 DEF WorthInv, BuildInv, OneBuildOneSource
<1> QED BY StepKeeps, <1>5, <1>6, <1>7, <1>8, <1>9, <1>10, <1>11, <1>12

LEMMA WriteRaisesStep ==
    ASSUME WorthInv, NEW b \in Builds, WriteRaises(b) PROVE WorthInv'
<1>0. /\ TypeInv /\ Begun /\ Sourced /\ build[b] \in Build /\ b <= round
      /\ Alone(b) => Owns(b)
      /\ Alone(b) /\ b \notin missed => NoWorse(b)
  BY OfBuild DEF WriteRaises, At, Running
<1>1. /\ build[b].pc = "write"
      /\ build' = [build EXCEPT ![b].pc = "failed"]
      /\ UNCHANGED <<sources, loader, labels, collector, round, overlap, fewer>>
  BY DEF WriteRaises, At
<1> USE <1>0, <1>1 DEF sources, loader, fewer
<1>2. missed \subseteq missed' /\ missed' \subseteq Builds
  BY DEF WriteRaises, Fault, TypeInv
<1> USE <1>2
<1>3. /\ build'[b] = [build[b] EXCEPT !.pc = "failed"]
      /\ \A x \in Builds \ {b} : build'[x] = build[x]
      /\ build' \in [Builds -> Build]
  BY DEF TypeInv, Build
<1>4. /\ build'[b].pc = "failed" /\ build'[b].report = build[b].report
      /\ build'[b].obs = build[b].obs /\ build'[b].before = build[b].before
      /\ build'[b].row = build[b].row
  BY <1>3 DEF Build
<1>5. StepOf(b)
  BY <1>3 DEF StepOf, Running
<1>6. TypeInv'
  BY <1>3 DEF TypeInv
<1>7. Begun' /\ Sourced'
  BY <1>3, <1>4 DEF Begun, Sourced
<1>8. Alone(b) => Owns(b)'
  BY <1>4 DEF Owns, OwnReport, OwnObservations, OwnLabels, OwnLimit, Drawn
<1>9. Alone(b) /\ b \notin missed' => NoWorse(b)'
  BY <1>4 DEF NoWorse
<1> QED BY StepKeeps, LabelsKept, <1>5, <1>6, <1>7, <1>8, <1>9

-------------------------------------------------------------------------------
\* A build that begins while others run shares the loader with them from then on; one
\* that begins by itself finds it empty.
LEMMA StartBuildStep == ASSUME WorthInv, StartBuild PROVE WorthInv'
<1> DEFINE others == {x \in Builds : Running(x)}
<1>0. TypeInv /\ Begun /\ Sourced /\ Solo /\ Owned /\ Improves
  BY DEF WorthInv, BuildInv
<1>2. PICK b \in Builds : b = round + 1 /\ round \in Nat /\ round < b
  BY <1>0, SizesAssumption DEF StartBuild, TypeInv, Builds
<1>1. /\ round < MaxBuilds /\ round' = b
      /\ build' = [build EXCEPT ![b].pc = "report"]
      /\ cache' = NothingCached /\ limitedKey' = FALSE
      /\ overlap' = overlap \cup (IF others = {} THEN {} ELSE others \cup {b})
      /\ UNCHANGED <<sources, skips, labels, faults, missed, fewer>>
  BY <1>2 DEF StartBuild
<1> USE <1>0, <1>1 DEF sources, fewer
<1>3. /\ build'[b] = [build[b] EXCEPT !.pc = "report"]
      /\ \A x \in Builds \ {b} : build'[x] = build[x]
      /\ build' \in [Builds -> Build]
  BY <1>2 DEF TypeInv, Build
<1>4. /\ build'[b].pc = "report" /\ build'[b].report = build[b].report
      /\ build'[b].obs = build[b].obs /\ build'[b].before = build[b].before
      /\ build'[b].row = build[b].row
  BY <1>2, <1>3 DEF TypeInv, Build
<1>5. \A x \in Builds : Running(x)' => x \in others \cup {b}
  BY <1>3 DEF Running
<1>6. /\ cache' \in [report : Reports, obs : Reads]
      /\ cache'.report = NotRead /\ cache'.obs = NotObserved
      /\ cache'.obs.temps = -1 /\ cache'.obs.limited = FALSE
  BY NewBuildTyped DEF NothingCached, Reports, NotObserved
<1>7. overlap \subseteq overlap' /\ overlap' \subseteq Builds
  <2>1. CASE others = {}
    BY <2>1 DEF TypeInv
  <2>2. CASE others # {}
    BY <1>2, <2>2 DEF TypeInv
  <2> QED BY <2>1, <2>2
<1>8. \A x \in Builds : Alone(x)' => x = b /\ others = {}
  <2>1. CASE others = {}
    BY <1>5, <2>1 DEF Alone
  <2>2. CASE others # {}
    BY <1>5, <2>2 DEF Alone
  <2> QED BY <2>1, <2>2
<1>9. TypeInv'
  <2>1. round' \in 0..MaxBuilds
    BY <1>2 DEF TypeInv, Builds
  <2> QED BY <1>3, <1>6, <1>7, <2>1 DEF TypeInv
<1>10. Begun'
  <2>1. \A c \in Contracts : labels[c].by <= round'
    BY <1>2 DEF Begun, TypeInv, Label
  <2>2. ASSUME NEW x \in Builds PROVE /\ x > round' => build'[x].pc = "new"
                                      /\ build'[x].before <= skips
                                      /\ build'[x].pc = "write" => build'[x].row.by = x
    <3>1. CASE x = b
      BY <1>2, <1>4, <3>1 DEF Begun
    <3>2. CASE x # b
      BY <1>2, <1>3, <3>2 DEF Begun, Builds
    <3> QED BY <3>1, <3>2
  <2> QED BY <2>1, <2>2 DEF Begun
<1>11. Sourced'
  <2>1. -1 <= best.temps /\ ~(cache'.report = "exact")
    BY <1>6 DEF TypeInv, Days, NotRead
  <2>2. \A x \in Builds : /\ build'[x].report = build[x].report
                          /\ build'[x].obs = build[x].obs /\ build'[x].row = build[x].row
    BY <1>3, <1>4
  <2> QED BY <1>6, <2>1, <2>2 DEF Sourced
<1>12. Solo'
  BY <1>5, <1>8 DEF Solo
<1>13. \A c \in Contracts : labels[c].by # b
  BY <1>2 DEF Begun, TypeInv, Label
<1>14. Owns(b)'
  BY <1>4, <1>6, <1>13 DEF Owns, OwnReport, OwnObservations, OwnLabels, OwnLimit
<1>15. NoWorse(b)'
  BY <1>4, <1>6 DEF NoWorse, NotRead
<1>16. Owned' /\ Improves'
  BY <1>8, <1>14, <1>15 DEF Owned, Improves
<1>17. LimitedReadMakesNoLabel' /\ OneBuildOneSource'
  BY <1>7 DEF WorthInv, BuildInv, LimitedReadMakesNoLabel, OneBuildOneSource
<1>18. Remembered'
  BY DEF WorthInv, Remembered
<1> QED BY <1>9, <1>10, <1>11, <1>12, <1>16, <1>17, <1>18 DEF WorthInv, BuildInv

\* What the sources had at their best only gains.
BestGains ==
    /\ nws' \in Days \cup {NoFeatures} /\ iem' \in Days /\ published' \in BOOLEAN
    /\ best' \in [report : BOOLEAN, temps : Days]
    /\ best.report => best'.report
    /\ best.temps <= best'.temps

LEMMA SourcesMove ==
    ASSUME WorthInv, BestGains, Remembered',
           UNCHANGED <<loader, labels, build, round, overlap, missed, fewer>>
    PROVE  WorthInv'
<1> USE DEF loader, fewer
<1>0. TypeInv /\ Begun /\ Sourced /\ Solo /\ Owned /\ Improves
  BY DEF WorthInv, BuildInv
<1>1. TypeInv'
  BY <1>0 DEF TypeInv, BestGains
<1>2. Begun' /\ Solo' /\ Owned' /\ Improves'
  BY <1>0 DEF Begun, Solo, Owned, Improves, Alone, Running, Owns, OwnReport,
              OwnObservations, OwnLabels, OwnLimit, Drawn, NoWorse
<1>3. Sourced'
  <2>1. /\ best.temps \in Int /\ best'.temps \in Int /\ cache.obs.temps \in Int
        /\ \A b \in Builds : build[b].obs.temps \in Int /\ build[b].row.temps \in Int
        /\ \A c \in Contracts : labels[c].temps \in Int
    <3>1. \A r \in Reads : r.temps \in Int
      BY DEF Reads, Observations, NotObserved, Days
    <3> QED BY <1>0, <3>1 DEF TypeInv, Days, Build, Label, BestGains
  <2>2. /\ cache.obs.temps <= best'.temps
        /\ \A b \in Builds : /\ build[b].obs.temps <= best'.temps
                             /\ build[b].row.temps <= best'.temps
        /\ \A c \in Contracts : labels[c].temps <= best'.temps
    BY <1>0, <2>1 DEF Sourced, BestGains
  <2> QED BY <1>0, <2>2 DEF Sourced, BestGains
<1>4. LimitedReadMakesNoLabel' /\ OneBuildOneSource'
  BY LabelsKept
<1> QED BY <1>1, <1>2, <1>3, <1>4 DEF WorthInv, BuildInv

LEMMA MovedGains ==
    ASSUME WorthInv, Moved, nws' \in Days \cup {NoFeatures}, iem' \in Days,
           published' \in BOOLEAN
    PROVE  WorthInv'
<1>1. /\ best.temps \in {0, 1, 2} /\ best.report \in BOOLEAN
      /\ nws' \in {-1, 0, 1, 2} /\ iem' \in {0, 1, 2}
  BY DEF WorthInv, BuildInv, TypeInv, Days, NoFeatures
<1> DEFINE most == Larger(best.temps, Larger(nws', iem'))
<1>2. /\ most \in Days /\ best.temps <= most /\ nws' <= most /\ iem' <= most
  BY <1>1 DEF Larger, Days
<1>3. /\ best' = [report |-> best.report \/ published', temps |-> most]
      /\ UNCHANGED <<loader, labels, build, round, overlap, missed, fewer>>
  BY DEF Moved, history
<1> HIDE DEF most
<1>4. BestGains
  BY <1>1, <1>2, <1>3 DEF BestGains
<1>5. Remembered'
  BY <1>2, <1>3 DEF Remembered
<1> QED BY <1>3, <1>4, <1>5, SourcesMove

LEMMA NextWorthInv == ASSUME WorthInv, [Next]_vars PROVE WorthInv'
<1>0. TypeInv /\ Remembered
  BY DEF WorthInv, BuildInv
<1>1. CASE StartBuild
  BY <1>1, StartBuildStep
<1>2. CASE Join \/ End \/ UNCHANGED vars
  <2>1. /\ UNCHANGED <<loader, labels, build, round, overlap, missed, fewer>>
        /\ UNCHANGED <<nws, iem, published, best>>
    BY <1>2 DEF Join, End, vars, sources, history
  <2>2. BestGains /\ Remembered'
    BY <1>0, <2>1 DEF BestGains, TypeInv, Remembered, Days
  <2> QED BY <2>1, <2>2, SourcesMove
<1>3. CASE NwsObserves
  <2>1. nws' \in Days \cup {NoFeatures} /\ iem' \in Days /\ published' \in BOOLEAN /\ Moved
    BY <1>0, <1>3 DEF NwsObserves, TypeInv
  <2> QED BY <2>1, MovedGains
<1>4. CASE IemObserves
  <2>1. nws' \in Days \cup {NoFeatures} /\ iem' \in Days /\ published' \in BOOLEAN /\ Moved
    BY <1>0, <1>4 DEF IemObserves, TypeInv
  <2> QED BY <2>1, MovedGains
<1>6. CASE Publish
  <2>1. nws' \in Days \cup {NoFeatures} /\ iem' \in Days /\ published' \in BOOLEAN /\ Moved
    BY <1>0, <1>6 DEF Publish, TypeInv
  <2> QED BY <2>1, MovedGains
<1>5. ASSUME NEW b \in Builds, BuildStep(b) PROVE WorthInv'
  BY <1>5, LookUpReportStep, AskReportStep, AskRaisesStep, KeepReportStep,
     LookUpObservationsStep, AskObservationsStep, MarkLimitedStep,
     KeepObservationsStep, DecideStep, WriteStep, WriteRaisesStep DEF BuildStep
<1> QED BY <1>1, <1>2, <1>3, <1>4, <1>5, <1>6 DEF Next, Collector

-------------------------------------------------------------------------------
LEMMA WorthOf ==
    ASSUME NEW l \in Label
    PROVE  /\ Worth(l) \in Int
           /\ l.source = "exact" => Worth(l) = 3
           /\ l.source = "hourly" => Worth(l) = l.temps
           /\ l.source \in {"none", "unknown"} => Worth(l) = 0
<1>1. CASE l.source \in {"none", "unknown"}
  BY <1>1 DEF Worth, Label
<1>2. CASE l.source = "hourly"
  BY <1>2 DEF Worth, Label
<1>3. CASE l.source = "exact"
  BY <1>3 DEF Worth, Label
<1> QED BY <1>1, <1>2, <1>3 DEF Label

\* A build that ran alone and missed nothing writes no label that is worth less, unless
\* what the label was drawn from was there no more.
LEMMA AloneWritesNoWorse ==
    ASSUME WorthInv, NEW b \in Builds, Alone(b), b \notin missed,
           build[b].pc = "write", NEW c \in Contracts,
           b \notin (IF labels[c].source = "exact" THEN lapsed ELSE displaced)
    PROVE  ~(Worth(build[b].row) < Worth(labels[c]))
<1> DEFINE row == build[b].row
           old == labels[c]
<1>1. /\ TypeInv /\ Sourced /\ Owns(b) /\ NoWorse(b)
      /\ build[b] \in Build /\ cache.report \in Reports /\ cache.obs \in Reads
  BY OfBuild
<1>2. row \in Label /\ old \in Label /\ best.temps \in Int /\ best.temps <= 2
  BY <1>1 DEF TypeInv, Build, Days
<1>3. /\ cache.report # NotRead /\ cache.obs # NotObserved
      /\ row = Drawn(b)
  BY <1>1 DEF Owns, OwnReport, OwnObservations, OwnLabels
<1>4. cache.obs.temps \in Int /\ cache.obs.temps >= 0
  BY <1>1, <1>3 DEF Reads, Observations, Days
<1>5. /\ row.temps = cache.obs.temps
      /\ row.source = "exact" <=> cache.report = "exact"
      /\ row.source = "unknown" => cache.obs.temps = 0
      /\ row.source \in {"exact", "unknown", "hourly"}
  <2>1. CASE cache.report = "exact"
    BY <1>3, <2>1 DEF Drawn
  <2>2. CASE cache.report # "exact" /\ cache.obs.temps = 0
    BY <1>3, <2>2 DEF Drawn
  <2>3. CASE cache.report # "exact" /\ cache.obs.temps # 0
    BY <1>3, <2>3 DEF Drawn
  <2> QED BY <2>1, <2>2, <2>3
<1>6. CASE old.by = b
  <2>1. old = row
    BY <1>1, <1>3, <1>6 DEF Owns, OwnLabels
  <2> QED BY <1>2, <2>1, WorthOf
<1>7. CASE old.by # b
  <2>1. old.source = "exact" => row.source = "exact"
    BY <1>1, <1>3, <1>5, <1>7 DEF NoWorse, Reports
  <2>2. old.source = "hourly" => old.temps <= cache.obs.temps /\ old.temps <= best.temps
    BY <1>1, <1>3, <1>7 DEF NoWorse, Sourced
  <2>3. Worth(row) >= 0 /\ (row.source = "exact" => Worth(row) = 3)
        /\ (row.source # "exact" => Worth(row) = cache.obs.temps)
    BY <1>2, <1>4, <1>5, WorthOf
  <2>4. CASE old.source = "exact"
    BY <1>2, <2>1, <2>3, <2>4, WorthOf
  <2>5. CASE old.source = "hourly"
    <3>1. Worth(old) = old.temps /\ old.temps \in Int
      BY <1>2, <2>5, WorthOf
    <3>2. CASE row.source = "exact"
      BY <1>2, <2>2, <2>3, <2>5, <3>1, <3>2
    <3>3. CASE row.source # "exact"
      BY <1>4, <2>2, <2>3, <2>5, <3>1, <3>3
    <3> QED BY <3>2, <3>3
  <2>6. CASE old.source \in {"none", "unknown"}
    BY <1>2, <2>3, <2>6, WorthOf
  <2> QED BY <1>2, <2>4, <2>5, <2>6 DEF Label
<1> QED BY <1>6, <1>7

LEMMA StepWorsensForACause ==
    ASSUME WorthInv, [Next]_vars
    PROVE  \A c \in Contracts :
              Worth(labels'[c]) < Worth(labels[c])
                 => labels'[c].by \in overlap' \cup missed'
                       \cup (IF labels[c].source = "exact" THEN lapsed' ELSE displaced')
<1>0. TypeInv /\ Begun
  BY DEF WorthInv, BuildInv
<1>1. CASE labels' = labels
  <2>1. \A c \in Contracts : Worth(labels[c]) \in Int
    BY <1>0, WorthOf DEF TypeInv
  <2> QED BY <1>1, <2>1
<1>2. ASSUME NEW b \in Builds, Write(b), NEW c \in Contracts,
             Worth(labels'[c]) < Worth(labels[c])
      PROVE  labels'[c].by \in overlap' \cup missed'
                \cup (IF labels[c].source = "exact" THEN lapsed' ELSE displaced')
  <2>1. /\ build[b].pc = "write" /\ Running(b) /\ build[b].row.by = b
        /\ overlap' = overlap /\ missed' = missed
        /\ lapsed' = lapsed /\ displaced' = displaced
        /\ labels' = [labels EXCEPT ![build[b].at] = build[b].row]
    BY <1>0, <1>2 DEF Write, At, Running, Begun, history, fewer
  <2>2. CASE labels'[c] = labels[c]
    <3>1. Worth(labels[c]) \in Int
      BY <1>0, WorthOf DEF TypeInv
    <3> QED BY <1>2, <2>2, <3>1
  <2>3. CASE labels'[c] = build[b].row
    BY <1>2, <2>1, <2>3, AloneWritesNoWorse DEF Alone
  <2> QED BY <1>0, <2>1, <2>2, <2>3 DEF TypeInv
<1>3. ASSUME NEW b \in Builds, BuildStep(b), ~Write(b) PROVE labels' = labels
  BY <1>3 DEF BuildStep, LookUpReport, AskReport, AskRaises, KeepReport,
              LookUpObservations, AskObservations, MarkLimited, KeepObservations,
              Decide, WriteRaises
<1>4. CASE Collector \/ NwsObserves \/ IemObserves \/ Publish \/ UNCHANGED vars
  BY <1>1, <1>4 DEF Collector, StartBuild, Join, End, NwsObserves, IemObserves, Publish,
                   Moved, vars
<1> QED BY <1>1, <1>2, <1>3, <1>4 DEF Next

-------------------------------------------------------------------------------
(***************************************************************************)
(* The theorems.                                                           *)
(***************************************************************************)

\* The inductive invariant holds in every reachable state.
THEOREM LabelsInvariant == Spec => []WorthInv
BY InitWorthInv, NextWorthInv, PTL DEF Spec

\* For any number of contracts and builds, a rate limited read makes no fallback label
\* unless builds overlapped (_rate_limited_observation_keys).
THEOREM LimitsAreHeeded == Spec => []LimitedReadMakesNoLabel
<1>1. WorthInv => LimitedReadMakesNoLabel
  BY DEF WorthInv, BuildInv
<1> QED BY <1>1, LabelsInvariant, PTL

\* For any number of contracts and builds, a build that ran alone labels them all from
\* one report and one set of observations (_source_cache).
THEOREM OneSourcePerBuild == Spec => []OneBuildOneSource
<1>1. WorthInv => OneBuildOneSource
  BY DEF WorthInv, BuildInv
<1> QED BY <1>1, LabelsInvariant, PTL

\* For any number of contracts and builds, a label becomes worth less only by a build
\* that overlapped another, missed what its sources had, or asked sources that had gone
\* back: the report for a label drawn from it, the stations for the others
\* (upsert_settlement_label, historical_hourly_observations, fetch_report).
THEOREM LabelsKeepTheirWorth == Spec => LabelWorsensForACause
<1>1. WorthInv /\ [Next]_vars =>
         [\A c \in Contracts :
             Worth(labels'[c]) < Worth(labels[c])
                => labels'[c].by \in overlap' \cup missed'
                      \cup (IF labels[c].source = "exact" THEN lapsed' ELSE displaced')]_vars
  BY StepWorsensForACause
<1> QED BY <1>1, LabelsInvariant, PTL DEF Spec, LabelWorsensForACause
===============================================================================
