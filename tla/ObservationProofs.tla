--------------------------- MODULE ObservationProofs ---------------------------
(***************************************************************************)
(* Proofs about an observation cycle (Observation), for any domains,       *)
(* lanes that become due together, changes of the machine and mishaps:     *)
(* nothing is taken for granted that was not accounted for, what is        *)
(* collected once is kept, the context is durable, and an incident is      *)
(* resolved exactly by its observed absence.                               *)
(*                                                                         *)
(* The argument follows the data.  A snapshot is in order when each of its *)
(* records was accounted for (Vouched); a cycle's new snapshot differs     *)
(* from one in order by what the cycle's events report (SeenVouched), and  *)
(* those are stored or suppressed in the transaction that makes the        *)
(* snapshot the reference.  What a cycle observed is what its coverage     *)
(* calls complete (Observes), and a volatile cycle observed no incident as *)
(* a whole (the last conjunct of ObservedInv).                             *)
(*                                                                         *)
(* The second part is about the analysis in such a cycle (Analysis), for   *)
(* any table of weights, shapes of events, windows and limits: the context *)
(* of its events is complete, more evidence never lowers a rating, and the *)
(* chain found is the best there is.  The window is the end of the past    *)
(* but for events too old for this clock (WindowOfPast).  Scores are       *)
(* numbers (ScoresAreNumbers); the order of events, the standing of        *)
(* subjects and the worth of chains are total orders, so that sets of them *)
(* have a first (MinimalExists); and each part of a rating grows with the  *)
(* events (HighestGrows, CombinedGrows, ChainedGrows).                     *)
(***************************************************************************)
EXTENDS Observation, Analysis, FiniteSetTheorems, WellFoundedInduction, TLAPS

Value == {Never, Nothing, Unknown} \union Version

Event == Source \X Value

Place == {"idle", "collected", "examined", "analysed", "full", "reference", "volatile",
          "reconciled", "saved"}

(* Where the cycle has a snapshot in hand that is not persisted yet. *)
Unpersisted == {"collected", "examined", "analysed"}

(* Where it is persisted and the reference of the next cycle. *)
Persisted == {"full", "reference", "volatile", "reconciled", "saved"}

WorldOK(w) ==
    /\ w \in [item : [Source -> Version \union {Nothing}], changes : 0..MaxChanges]
    /\ "sensitive_files" \in Enabled => w.item["sensitive_files"] # Nothing

DbOK(d) ==
    d \in [snapshot : Snapshot, manifest : Value, recorded : Value,
           active : SUBSET ((SUBSET Source) \ {{}}), backlog : BOOLEAN]

MemOK(m) ==
    m \in [snapshot : Snapshot, cold : BOOLEAN, full : BOOLEAN,
           remembered : SUBSET Value, window : SUBSET Event, pending : SUBSET Event]

(* The coverage report can be anything, its domain is told by ObservedInv. *)
CycOK(c) ==
    c \in [pc : Place, due : SUBSET Lane, active : SUBSET Domain, seen : Snapshot,
           events : SUBSET Event, kept : SUBSET Event, coverage : {c.coverage},
           observed : SUBSET Source, warned : BOOLEAN, manifest : Value,
           findings : SUBSET ((SUBSET Source) \ {{}})]

ScanOK(s) == s \in [pc : {"idle", "ran"}, snapshot : Snapshot, events : SUBSET Event]

(* The number of troubles can be anything. *)
HistOK(h) ==
    h \in [durable : SUBSET Event, accepted : SUBSET Event, lost : SUBSET Event,
           emptied : BOOLEAN, trouble : {h.trouble}]

Typed ==
    /\ WorldOK(world) /\ DbOK(db) /\ MemOK(mem) /\ CycOK(cyc) /\ ScanOK(scan) /\ HistOK(hist)
    /\ At("idle") => cyc = NoCycle
    /\ scan.pc = "idle" => scan = NoScan

Whole(snapshot) == \A d \in Snapshotted : snapshot[d] # Never

(* A process without markers, and a record of docker that carries no risk *)
(* after one that is not known.                                           *)
Harmless(d, value, accounted) ==
    /\ value \notin Risky
    /\ d = "processes" \/ (d = "docker" /\ <<d, Unknown>> \in accounted)

Vouched(snapshot, accounted) ==
    \A d \in Snapshotted :
        \/ snapshot[d] \in {Never, Nothing}
        \/ <<d, snapshot[d]>> \in accounted
        \/ Harmless(d, snapshot[d], accounted)

(* A snapshot has a record of the files, except after quietward scan stored *)
(* one of nothing at all.                                                   *)
Filed(snapshot, emptied) ==
    "sensitive_files" \in Snapshotted /\ snapshot["sensitive_files"] = Nothing => emptied

InOrder(snapshot) ==
    /\ snapshot = NoSnapshot \/ Whole(snapshot)
    /\ Vouched(snapshot, Accounted) /\ Filed(snapshot, hist.emptied)

SnapshotInv ==
    /\ InOrder(mem.snapshot) /\ InOrder(db.snapshot)
    /\ scan.pc = "ran" =>
          /\ Whole(scan.snapshot) /\ Vouched(scan.snapshot, Accounted)
          /\ Filed(scan.snapshot, hist.emptied) \/ scan.snapshot = EmptySnapshot
    /\ Whole(mem.snapshot) \/ mem.cold
    /\ cyc.pc \in Persisted => Whole(mem.snapshot)

SeenVouched(seen, events, reference, accounted) ==
    \A d \in Snapshotted :
        \/ seen[d] = Nothing
        \/ <<d, seen[d]>> \in accounted \union events
        \/ Harmless(d, seen[d], accounted)
        \/ reference = NoSnapshot
        \/ d = "sensitive_files" /\ reference[d] = Nothing

SeenInv ==
    cyc.pc \in Unpersisted =>
        /\ Whole(cyc.seen) /\ Filed(cyc.seen, hist.emptied)
        /\ SeenVouched(cyc.seen, cyc.events, mem.snapshot, Accounted)

ManifestKnown(events) ==
    \/ cyc.manifest = Never \/ db.manifest = Never
    \/ <<"self_integrity", cyc.manifest>> \in Accounted \union events

ManifestInv ==
    /\ db.manifest # Never => <<"self_integrity", db.manifest>> \in Accounted
    /\ cyc.pc \in Unpersisted => ManifestKnown(cyc.events)
    /\ cyc.pc \in Persisted => ManifestKnown({})

(* What a quiet cycle may leave out: it kept no event. *)
PendingInv ==
    /\ cyc.kept \subseteq cyc.events
    /\ mem.window \subseteq hist.durable
    /\ At("analysed") => mem.pending = cyc.kept
    /\ cyc.pc \in Persisted => mem.pending \subseteq hist.durable /\ cyc.events = {}

(* The coverage report of the collectors. *)
Collectors == Domain \union {"collector_other"}

(* What the cycle observed is what its coverage report calls complete; when *)
(* it observed all the collectors have, they had no other warning.          *)
Observes(sources) ==
    /\ DOMAIN cyc.coverage = sources
    /\ \A s \in cyc.observed : cyc.coverage[s] = "complete"
    /\ Enabled \subseteq cyc.observed =>
          \A d \in Collectors : cyc.coverage[d] \in {"complete", "disabled"}

(* A source the cycle observed was due. *)
DueOnly ==
    \A s \in cyc.observed : CASE s = "scanner"        -> "maintenance" \in cyc.due
                              [] s = "self_integrity" -> "deep" \in cyc.due
                              [] OTHER                -> s \in cyc.active

ObservedInv ==
    /\ At("collected") => Observes(Collectors) /\ cyc.observed \subseteq Domain /\ DueOnly
    /\ cyc.pc \in {"examined", "analysed"} => Observes(Collectors \union Check) /\ DueOnly
    /\ cyc.pc \in {"full", "reference", "volatile"} => Observes(Collectors \union Check)
    /\ At("volatile") => \A c \in db.active : \E s \in c : ~Testifies(s)

Inv ==
    /\ Typed /\ SnapshotInv /\ SeenInv /\ ManifestInv /\ PendingInv /\ ObservedInv
    /\ OneTimeEventsAreKept /\ ObservedAbsenceResolves

(* Every domain's warning is recognised as that domain's: the coverage report *)
(* calls complete only what was observed.                                     *)
EveryWarningIsMatched ==
    \A d \in Enabled : \A o \in Outcome(d) \ {"complete"} : MatchedBy(d, o) = {d}

CompleteIsObserved ==
    cyc.pc \in {"collected", "examined", "analysed", "full", "reference", "volatile"} =>
        \A s \in (IF At("collected") THEN Enabled ELSE Enabled \union Check) :
            cyc.coverage[s] \in {"complete", "disabled"} => s \in cyc.observed

-----------------------------------------------------------------------------
(* Values and names *)

LEMMA Values ==
    /\ Never \notin Version \union {Nothing, Unknown} /\ Nothing \notin Version \union {Unknown}
    /\ Unknown \notin Version /\ 1 \in Version
BY CollectionAssumption DEF Never, Nothing, Unknown, Version

LEMMA Names ==
    /\ Snapshotted \subseteq Enabled /\ Enabled \subseteq Domain /\ Enabled \subseteq Source
    /\ Source = Enabled \union Check \union {"freshness"} /\ Check \subseteq Source
    /\ "freshness" \notin Domain \union Check /\ "collector_other" \notin Domain \union Check
    /\ Check \intersect Domain = {} /\ "authentication" \notin Snapshotted
    /\ "self_integrity" \in Check /\ "scanner" \in Check
BY CollectionAssumption DEF Snapshotted, Source, Check, Domain, Undomained

LEMMA Snapshots ==
    /\ NoSnapshot \in Snapshot /\ EmptySnapshot \in Snapshot /\ Whole(EmptySnapshot)
    /\ \A d \in Snapshotted : NoSnapshot[d] = Never /\ EmptySnapshot[d] = Nothing
BY Values DEF Snapshot, NoSnapshot, EmptySnapshot, Whole

LEMMA NoCycleIs ==
    /\ CycOK(NoCycle) /\ NoCycle.pc = "idle" /\ NoCycle.events = {} /\ NoCycle.kept = {}
    /\ NoCycle.observed = {} /\ NoCycle.manifest = Never
BY Snapshots DEF NoCycle, CycOK, Value, Place

LEMMA NoScanIs == ScanOK(NoScan) /\ NoScan.pc = "idle" /\ NoScan.events = {}
BY Snapshots DEF NoScan, ScanOK

LEMMA VouchedMore ==
    ASSUME NEW s, NEW A, NEW B, A \subseteq B, Vouched(s, A)
    PROVE  Vouched(s, B)
BY DEF Vouched, Harmless

LEMMA SeenVouchedMore ==
    ASSUME NEW s, NEW r, NEW E, NEW F, NEW A, NEW B, A \subseteq B, E \subseteq F,
           SeenVouched(s, E, r, A)
    PROVE  SeenVouched(s, F, r, B)
BY DEF SeenVouched, Harmless

LEMMA InitInv == Init => Inv
<1> SUFFICES ASSUME Init PROVE Inv
  OBVIOUS
<1>1. Typed
  <2>1. WorldOK(world)
    BY Values, Names, CollectionAssumption DEF Init, WorldOK
  <2>2. DbOK(db) /\ MemOK(mem) /\ HistOK(hist)
    BY Snapshots DEF Init, DbOK, MemOK, HistOK, Started, Value
  <2>3. CycOK(cyc) /\ ScanOK(scan)
    BY NoCycleIs, NoScanIs DEF Init
  <2> QED
    BY <2>1, <2>2, <2>3 DEF Init, Typed
<1>2. /\ cyc.pc = "idle" /\ scan.pc = "idle" /\ mem.snapshot = NoSnapshot /\ db.snapshot = NoSnapshot
      /\ mem.cold /\ db.manifest = Never /\ mem.remembered = {} /\ db.recorded = Nothing
      /\ mem.window = {} /\ cyc.kept = {}
  BY NoCycleIs, NoScanIs DEF Init, Started
<1>3. Vouched(NoSnapshot, Accounted) /\ Filed(NoSnapshot, hist.emptied)
  BY Snapshots, Values DEF Vouched, Filed
<1>4. SnapshotInv
  BY <1>2, <1>3 DEF SnapshotInv, InOrder, Persisted
<1> QED
  BY <1>1, <1>2, <1>4 DEF Inv, SeenInv, ManifestInv, PendingInv, ObservedInv, OneTimeEventsAreKept,
     ObservedAbsenceResolves, Unpersisted, Persisted, At

-----------------------------------------------------------------------------
(* Collecting *)

LEMMA ActiveOK ==
    ASSUME NEW due \in SUBSET Lane
    PROVE  ActiveDomains(due) \subseteq Domain /\ (due = Lane => ActiveDomains(due) = Domain)
<1>1. \A g \in Coalesced : g \subseteq Domain
  BY DEF Coalesced, Domain
<1>2. \A d \in Domain : LaneOf(d) \in Lane
  BY DEF LaneOf, Lane
<1> QED
  BY <1>1, <1>2 DEF ActiveDomains

LEMMA SeenIs ==
    ASSUME NEW d, NEW o, NEW item \in Version \union {Nothing}
    PROVE  /\ Seen(d, o, item) \in Version \union {Nothing, Unknown}
           /\ d = "sensitive_files" /\ item # Nothing => Seen(d, o, item) # Nothing
<1>1. CASE o = "complete"
  BY <1>1 DEF Seen
<1>2. CASE o # "complete" /\ (d = "sensitive_files" \/ (o = "uninspected" /\ item # Nothing))
  BY <1>2, Values DEF Seen
<1>3. CASE o # "complete" /\ ~(d = "sensitive_files" \/ (o = "uninspected" /\ item # Nothing))
  BY <1>3 DEF Seen
<1> QED
  BY <1>1, <1>2, <1>3

LEMMA CollectedOK ==
    ASSUME WorldOK(world), NEW active, NEW outcome
    PROVE  /\ Collected(active, outcome) \in Snapshot /\ Whole(Collected(active, outcome))
           /\ "sensitive_files" \in Snapshotted \intersect active =>
                 Collected(active, outcome)["sensitive_files"] # Nothing
<1> DEFINE new == Collected(active, outcome)
<1>1. \A d \in Snapshotted : world.item[d] \in Version \union {Nothing}
  BY Names DEF WorldOK
<1>2. \A d \in Snapshotted : new[d] = IF d \in active THEN Seen(d, outcome[d], world.item[d])
                                      ELSE Nothing
  BY DEF Collected
<1>3. \A d \in Snapshotted : new[d] \in Version \union {Nothing, Unknown}
  BY <1>1, <1>2, SeenIs
<1>4. new = [d \in Snapshotted |-> new[d]]
  BY DEF Collected
<1>5. new \in Snapshot
  BY <1>3, <1>4 DEF Snapshot
<1>6. "sensitive_files" \in Snapshotted \intersect active => new["sensitive_files"] # Nothing
  <2>1. "sensitive_files" \in Snapshotted => world.item["sensitive_files"] # Nothing
    BY Names DEF WorldOK
  <2> QED
    BY <1>1, <1>2, <2>1, SeenIs
<1> QED
  BY <1>3, <1>5, <1>6, Values DEF Whole

(* The new snapshot is whole when a domain that was not due has a record. *)
LEMMA MergedOK ==
    ASSUME NEW previous \in Snapshot, NEW current \in Snapshot, NEW active, NEW emptied \in BOOLEAN,
           previous = NoSnapshot => Snapshotted \subseteq active,
           previous = NoSnapshot \/ Whole(previous), Whole(current), Filed(previous, emptied),
           "sensitive_files" \in Snapshotted \intersect active =>
                current["sensitive_files"] # Nothing
    PROVE  /\ Merged(previous, current, active) \in Snapshot
           /\ Whole(Merged(previous, current, active))
           /\ Filed(Merged(previous, current, active), emptied)
<1>1. CASE previous = NoSnapshot
  BY <1>1 DEF Merged, Filed
<1>2. CASE previous # NoSnapshot
  <2> DEFINE m == Merged(previous, current, active)
  <2>1. m = [d \in Snapshotted |-> IF d \in active THEN current[d] ELSE previous[d]]
    BY <1>2 DEF Merged
  <2>2. m \in Snapshot
    BY <2>1 DEF Snapshot
  <2> QED
    BY <1>2, <2>1, <2>2 DEF Whole, Filed
<1> QED
  BY <1>1, <1>2

(* Where the new snapshot differs from one in order, an event says so. *)
LEMMA DifferencesVouch ==
    ASSUME NEW previous \in Snapshot, NEW current \in Snapshot, NEW active, NEW A,
           Vouched(previous, A), previous = NoSnapshot \/ Whole(previous)
    PROVE  LET seen == Merged(previous, current, active) IN
           SeenVouched(seen, Differences(previous, seen, active), previous, A)
<1> DEFINE seen == Merged(previous, current, active)
           E    == Differences(previous, seen, active)
<1>1. CASE previous = NoSnapshot
  BY <1>1 DEF SeenVouched
<1>2. CASE previous # NoSnapshot
  <2> SUFFICES ASSUME NEW d \in Snapshotted, seen[d] # Nothing
               PROVE  \/ <<d, seen[d]>> \in A \union E
                      \/ Harmless(d, seen[d], A)
                      \/ d = "sensitive_files" /\ previous[d] = Nothing
    BY DEF SeenVouched
  <2>1. previous[d] # Never
    BY <1>2 DEF Whole
  <2>2. previous[d] = Nothing \/ <<d, previous[d]>> \in A \/ Harmless(d, previous[d], A)
    BY <2>1 DEF Vouched
  <2>3. CASE seen[d] = previous[d]
    BY <2>2, <2>3
  <2>4. CASE seen[d] # previous[d]
    <3>1. d \in active
      BY <1>2, <2>4 DEF Merged
    <3>2. CASE Reported(d, previous[d], seen[d])
      BY <1>2, <3>1, <3>2 DEF Differences
    <3>3. CASE ~Reported(d, previous[d], seen[d])
      <4>1. CASE d = "persistence"
        BY <2>4, <3>3, <4>1 DEF Reported
      <4>2. CASE d = "sensitive_files"
        BY <2>4, <3>3, <4>2 DEF Reported
      <4>3. CASE d = "docker"
        <5>1. previous[d] = Unknown /\ seen[d] \notin Risky
          BY <2>4, <3>3, <4>3 DEF Reported
        <5>2. <<d, Unknown>> \in A
          BY <2>2, <4>3, <5>1, Values DEF Harmless
        <5> QED
          BY <4>3, <5>1, <5>2 DEF Harmless
      <4>4. CASE d = "processes"
        BY <2>4, <3>3, <4>4 DEF Reported, Harmless
      <4>5. CASE d \notin {"persistence", "sensitive_files", "docker", "processes"}
        BY <2>4, <3>3, <4>5 DEF Reported
      <4> QED
        BY <4>1, <4>2, <4>3, <4>4, <4>5
    <3> QED
      BY <3>2, <3>3
  <2> QED
    BY <2>3, <2>4
<1> QED
  BY <1>1, <1>2

LEMMA DifferencesTyped ==
    ASSUME NEW previous, NEW current \in Snapshot, NEW active
    PROVE  Differences(previous, current, active) \in SUBSET Event
<1>1. \A d \in Snapshotted : <<d, current[d]>> \in Event
  BY Names DEF Snapshot, Event, Value
<1> QED
  BY <1>1 DEF Differences

LEMMA CoverageIs ==
    ASSUME NEW outcome, NEW active, NEW s \in Domain
    PROVE  /\ s \in (Enabled \intersect active) \ Incomplete(outcome) =>
                 CoverageOf(outcome, active)[s] = "complete"
           /\ s \in Enabled /\ CoverageOf(outcome, active)[s] \in {"complete", "disabled"} =>
                 /\ s \in Enabled \intersect active
                 /\ MatchedBy(s, outcome[s]) = {s} => outcome[s] = "complete"
<1>1. \A d, o : MatchedBy(d, o) \subseteq {d, "collector_other"}
  BY DEF MatchedBy
<1>2. s \in Degraded(outcome, active) <=>
        s \in Enabled \intersect active /\ outcome[s] # "complete" /\ s \in MatchedBy(s, outcome[s])
  BY <1>1, Names DEF Degraded
<1> QED
  BY <1>2 DEF CoverageOf, Incomplete

(* Where every collection was complete, nothing is degraded or not due. *)
LEMMA CoverageIsWhole ==
    ASSUME NEW outcome, NEW active, Enabled \subseteq active \ Incomplete(outcome), NEW d \in Collectors
    PROVE  CoverageOf(outcome, active)[d] \in {"complete", "disabled"}
<1>1. Degraded(outcome, active) = {}
  BY DEF Degraded, Incomplete
<1> QED
  BY <1>1 DEF CoverageOf, Collectors

(* A cycle that can testify to the sources of an incident may resolve it. *)
LEMMA TestifiedIsSafe ==
    ASSUME Observes(Collectors \union Check), NEW c, \A s \in c : Testifies(s)
    PROVE  ResolutionSafe(c, cyc.coverage)
<1> SUFFICES ASSUME NEW s \in c, s \in Undomained PROVE GloballySafe(cyc.coverage)
  BY DEF ResolutionSafe, Testifies, Observes
<1>1. Enabled \union Check \subseteq cyc.observed
  BY Names DEF Testifies, Undomained
<1> QED
  BY <1>1 DEF GloballySafe, Observes

-----------------------------------------------------------------------------
(* Every step keeps the invariant *)

LEMMA ChangeStep == Inv /\ Change => Inv'
<1> SUFFICES ASSUME Inv, Change PROVE Inv'
  OBVIOUS
<1>1. UNCHANGED <<db, mem, cyc, scan, hist>>
  BY DEF Change
<1>2. WorldOK(world')
  <2>1. PICK s \in Source, v \in {Nothing, Fresh} :
           /\ v = Nothing => s \notin Check \union {"sensitive_files"}
           /\ world' = [item |-> [world.item EXCEPT ![s] = v], changes |-> world.changes + 1]
    BY DEF Change
  <2>2. WorldOK(world) /\ world.changes < MaxChanges
    BY DEF Inv, Typed, Change
  <2>3. world.changes + 1 \in 0..MaxChanges /\ Fresh \in Version
    BY <2>2, CollectionAssumption DEF WorldOK, Fresh, Version
  <2>4. [world.item EXCEPT ![s] = v] \in [Source -> Version \union {Nothing}]
    BY <2>2, <2>3 DEF WorldOK
  <2>5. "sensitive_files" \in Enabled => [world.item EXCEPT ![s] = v]["sensitive_files"] # Nothing
    BY <2>1, <2>2, <2>3, Names, Values DEF WorldOK
  <2> QED
    BY <2>1, <2>3, <2>4, <2>5 DEF WorldOK
<1>3. Typed'
  BY <1>1, <1>2 DEF Inv, Typed, At
<1> QED
  BY <1>1, <1>3 DEF Inv, SnapshotInv, InOrder, SeenInv, ManifestInv, ManifestKnown, PendingInv,
     ObservedInv, Observes, DueOnly, OneTimeEventsAreKept, ObservedAbsenceResolves, Testifies, Accounted, At

LEMMA CollectStep == Inv /\ Collect => Inv'
<1> SUFFICES ASSUME Inv, Collect PROVE Inv'
  OBVIOUS
<1>1. /\ WorldOK(world) /\ DbOK(db) /\ MemOK(mem) /\ HistOK(hist) /\ ScanOK(scan)
      /\ cyc = NoCycle /\ CycOK(cyc) /\ cyc.pc = "idle"
  BY NoCycleIs DEF Inv, Typed, Collect, At
<1>2. UNCHANGED <<world, db, scan>>
  BY DEF Collect
<1>3. PICK due \in IF mem.cold THEN {Lane} ELSE Schedules,
           outcome \in [Enabled -> Endings] :
         LET active == ActiveDomains(due)
             seen == Merged(mem.snapshot, Collected(active, outcome), active)
             auth == Deduplicated(LoggedFailures(active, outcome))
         IN
         /\ cyc' = [cyc EXCEPT
                      !.pc = "collected", !.due = due, !.active = active, !.seen = seen,
                      !.events = Differences(mem.snapshot, seen, active) \union auth,
                      !.coverage = CoverageOf(outcome, active),
                      !.observed = (Enabled \intersect active) \ Incomplete(outcome),
                      !.warned = Incomplete(outcome) # {}]
         /\ mem' = [mem EXCEPT !.remembered = Remembering(auth)]
         /\ hist' = [hist EXCEPT !.trouble = @ + Cardinality(Incomplete(outcome))]
  BY DEF Collect
<1> DEFINE active == ActiveDomains(due)
           new  == Collected(active, outcome)
           seen == Merged(mem.snapshot, new, active)
           auth == Deduplicated(LoggedFailures(active, outcome))
           diff == Differences(mem.snapshot, seen, active)
           events == diff \union auth
           coverage == CoverageOf(outcome, active)
           observed == (Enabled \intersect active) \ Incomplete(outcome)
           warned == Incomplete(outcome) # {}
<1>4. cyc' = [cyc EXCEPT !.pc = "collected", !.due = due, !.active = active, !.seen = seen,
                         !.events = events, !.coverage = coverage, !.observed = observed,
                         !.warned = warned]
  BY <1>3
<1>5. mem' = [mem EXCEPT !.remembered = Remembering(auth)]
  BY <1>3
<1>6. PICK n : hist' = [hist EXCEPT !.trouble = n]
  BY <1>3
<1>7. due \in SUBSET Lane /\ active \subseteq Domain /\ (mem.cold => active = Domain)
  BY ActiveOK, ObservationAssumption DEF Lane
<1>8. warned \in BOOLEAN /\ observed \subseteq Source /\ observed \subseteq Domain
  BY Names
<1>9. mem.snapshot = NoSnapshot => Snapshotted \subseteq active
  <2>1. Whole(mem.snapshot) /\ mem.snapshot = NoSnapshot => Snapshotted = {}
    BY Snapshots DEF Whole
  <2> QED
    BY <1>7, <2>1, Names DEF Inv, SnapshotInv
<1>10. mem.snapshot \in Snapshot /\ hist.emptied \in BOOLEAN
  BY <1>1 DEF MemOK, HistOK
<1>11. (mem.snapshot = NoSnapshot \/ Whole(mem.snapshot)) /\ Vouched(mem.snapshot, Accounted)
       /\ Filed(mem.snapshot, hist.emptied)
  BY DEF Inv, SnapshotInv, InOrder
<1>12. seen \in Snapshot /\ Whole(seen) /\ Filed(seen, hist.emptied)
  BY <1>1, <1>9, <1>10, <1>11, CollectedOK, MergedOK
<1>13. SeenVouched(seen, diff, mem.snapshot, Accounted)
  BY <1>1, <1>10, <1>11, CollectedOK, DifferencesVouch
<1>14. \A e \in auth : e \in Event /\ e = <<"authentication", e[2]>> /\ e[2] \in Value
  BY <1>1, Names DEF Deduplicated, LoggedFailures, Event, Value, WorldOK
<1>15. events \in SUBSET Event
  BY <1>12, <1>14, DifferencesTyped
<1> HIDE DEF active, new, seen, auth, diff, events, coverage, observed, warned
<1>16. /\ cyc'.pc = "collected" /\ cyc'.due = due /\ cyc'.active = active /\ cyc'.seen = seen
       /\ cyc'.events = events /\ cyc'.coverage = coverage /\ cyc'.observed = observed
       /\ cyc'.kept = {} /\ cyc'.manifest = Never /\ CycOK(cyc')
  BY <1>1, <1>4, <1>7, <1>8, <1>12, <1>15, NoCycleIs DEF CycOK, Place
<1>17. /\ mem' = [mem EXCEPT !.remembered = mem'.remembered]
       /\ mem'.remembered = mem.remembered \union {e[2] : e \in auth}
  BY <1>1, <1>5 DEF MemOK, Remembering
<1>18. MemOK(mem') /\ mem'.snapshot = mem.snapshot /\ mem'.cold = mem.cold
       /\ mem'.window = mem.window /\ mem'.pending = mem.pending
  BY <1>1, <1>14, <1>17 DEF MemOK
<1>19. HistOK(hist') /\ hist'.durable = hist.durable /\ hist'.accepted = hist.accepted
       /\ hist'.lost = hist.lost /\ hist'.emptied = hist.emptied
  BY <1>1, <1>6 DEF HistOK
<1>20. Accounted' = Accounted
  BY <1>19 DEF Accounted
<1>21. Typed'
  BY <1>1, <1>2, <1>16, <1>18, <1>19 DEF Inv, Typed, At
<1>22. SnapshotInv'
  BY <1>2, <1>16, <1>18, <1>19, <1>20 DEF Inv, SnapshotInv, InOrder, Persisted
<1>23. SeenInv'
  <2>1. SeenVouched(seen, events, mem.snapshot, Accounted)
    BY <1>13, SeenVouchedMore DEF events
  <2> QED
    BY <2>1, <1>12, <1>16, <1>18, <1>19, <1>20 DEF SeenInv
<1>24. ManifestInv'
  BY <1>2, <1>16, <1>20 DEF Inv, ManifestInv, ManifestKnown, Persisted
<1>25. PendingInv'
  BY <1>16, <1>18, <1>19 DEF Inv, PendingInv, Persisted, At
<1>26. OneTimeEventsAreKept'
  <2>1. cyc.events = {}
    BY <1>1, NoCycleIs
  <2>2. \A e \in {"authentication"} \X mem'.remembered :
           e \in {"authentication"} \X mem.remembered \/ e \in auth
    BY <1>14, <1>17
  <2> QED
    BY <1>2, <1>16, <1>19, <1>20, <2>1, <2>2 DEF Inv, OneTimeEventsAreKept, events
<1>27. ObservedInv'
  <2>1. /\ DOMAIN coverage = Collectors
        /\ Enabled \subseteq observed => \A d \in Collectors : coverage[d] \in {"complete", "disabled"}
    BY CoverageIsWhole DEF coverage, observed, CoverageOf, Collectors
  <2>2. \A s \in observed : coverage[s] = "complete"
    BY <1>8, CoverageIs DEF coverage, observed
  <2>3. \A s \in observed : s \notin {"scanner", "self_integrity"} /\ s \in active
    BY <1>8, Names DEF observed, Check
  <2> QED
    BY <1>8, <1>16, <2>1, <2>2, <2>3 DEF ObservedInv, Observes, DueOnly, At
<1>28. ObservedAbsenceResolves'
  BY <1>16 DEF ObservedAbsenceResolves, At
<1> QED
  BY <1>21, <1>22, <1>23, <1>24, <1>25, <1>26, <1>27, <1>28 DEF Inv

LEMMA ExamineStep == Inv /\ Examine => Inv'
<1> SUFFICES ASSUME Inv, Examine PROVE Inv'
  OBVIOUS
<1>1. /\ WorldOK(world) /\ DbOK(db) /\ MemOK(mem) /\ HistOK(hist) /\ ScanOK(scan)
      /\ CycOK(cyc) /\ cyc.pc = "collected"
  BY DEF Inv, Typed, Examine, At
<1>2. UNCHANGED <<world, mem, scan>>
  BY DEF Examine
<1>3. PICK integrity \in Integrity, run \in Scanned, said \in Said : \E x \in Findable(run) :
         /\ hist' = [hist EXCEPT !.trouble = hist.trouble + Faults(integrity, run, said)]
         /\ Examined(integrity, run, x, said)
  BY DEF Examine
<1>found. PICK found \in Findable(run) : Examined(integrity, run, found, said)
  BY <1>3
<1>trouble. PICK n : hist' = [hist EXCEPT !.trouble = n]
  BY <1>3
<1> DEFINE states == Checks(integrity, run, said)
           events == cyc.events \union IntegrityEvents(integrity) \union ScannerEvents(found)
                       \union FreshnessEvents(said)
           coverage == [s \in DOMAIN cyc.coverage \union Check |->
                           IF s \in Check THEN states[s] ELSE cyc.coverage[s]]
           observed == cyc.observed \union {s \in Check : states[s] = "complete"}
           manifest == IF integrity = "not_due" THEN Never ELSE world.item["self_integrity"]
           recorded == IF run = "not_due" THEN db.recorded ELSE found
<1>4. cyc' = [cyc EXCEPT !.pc = "examined", !.events = events, !.coverage = coverage,
                         !.observed = observed, !.manifest = manifest]
  BY <1>found DEF Examined
<1>5. /\ world.item["scanner"] \in Value /\ world.item["self_integrity"] \in Value
      /\ said \in Value /\ found \in Value
  BY <1>1, Names DEF WorldOK, Value, Findable, Said
<1>6. recorded \in Value /\ manifest \in Value
  BY <1>1, <1>5 DEF DbOK, Value
<1>7. db' = [db EXCEPT !.recorded = recorded]
  BY <1>1, <1>found DEF DbOK, Examined
<1>8. /\ IntegrityEvents(integrity) \subseteq Event /\ ScannerEvents(found) \subseteq Event
      /\ FreshnessEvents(said) \subseteq Event
  <2>1. <<"scanner", found>> \in Event /\ <<"freshness", said>> \in Event
        /\ <<"self_integrity", world.item["self_integrity"]>> \in Event
    BY <1>5, Names DEF Event
  <2> QED BY <2>1 DEF IntegrityEvents, ScannerEvents, FreshnessEvents
<1>9. events \in SUBSET Event /\ observed \subseteq Source
  BY <1>1, <1>8, Names DEF CycOK
<1>10. manifest = Never \/ db.manifest = Never
       \/ <<"self_integrity", manifest>> \in Accounted \union events
  BY DEF Inv, ManifestInv, IntegrityEvents
<1>11. recorded # Nothing => recorded = db.recorded \/ <<"scanner", recorded>> \in events
  BY DEF ScannerEvents
<1>12. /\ DOMAIN coverage = Collectors \union Check
       /\ \A s \in observed : coverage[s] = "complete"
       /\ Enabled \subseteq observed => \A d \in Collectors : coverage[d] \in {"complete", "disabled"}
  <2>1. Observes(Collectors) /\ cyc.observed \subseteq Domain
    BY <1>1 DEF Inv, ObservedInv, At
  <2>2. Enabled \subseteq observed => Enabled \subseteq cyc.observed
    BY Names
  <2>3. \A d \in Collectors : d \notin Check
    BY Names DEF Collectors
  <2>4. DOMAIN cyc.coverage = Collectors /\ DOMAIN coverage = Collectors \union Check
    BY <2>1 DEF Observes
  <2>5. \A d \in Collectors : coverage[d] = cyc.coverage[d]
    BY <2>3, <2>4
  <2>6. \A s \in observed : coverage[s] = "complete"
    <3>1. ASSUME NEW s \in cyc.observed PROVE coverage[s] = "complete"
      BY <2>1, <2>5 DEF Observes, Collectors
    <3>2. ASSUME NEW s \in Check, states[s] = "complete" PROVE coverage[s] = "complete"
      BY <3>2
    <3> QED BY <3>1, <3>2
  <2>7. Enabled \subseteq observed => \A d \in Collectors : coverage[d] \in {"complete", "disabled"}
    BY <2>1, <2>2, <2>5 DEF Observes
  <2> QED BY <2>4, <2>6, <2>7
<1>13. \A s \in observed : CASE s = "scanner"        -> "maintenance" \in cyc.due
                              [] s = "self_integrity" -> "deep" \in cyc.due
                              [] OTHER                -> s \in cyc.active
  <2>1. cyc.observed \subseteq Domain /\ DueOnly
    BY <1>1 DEF Inv, ObservedInv, At
  <2>2. \A s \in cyc.observed : s \notin {"scanner", "self_integrity"} /\ s \in cyc.active
    BY <2>1, Names DEF DueOnly
  <2>3. integrity = "complete" => "deep" \in cyc.due
    BY DEF Integrity
  <2>4. ScannerState(run, said) = "complete" => "maintenance" \in cyc.due
    BY DEF Scanned, ScannerState
  <2> QED
    BY <2>2, <2>3, <2>4 DEF Check, Checks
<1> HIDE DEF states, events, coverage, observed, manifest, recorded
<1>14. /\ cyc'.pc = "examined" /\ cyc'.events = events /\ cyc'.coverage = coverage
       /\ cyc'.observed = observed /\ cyc'.manifest = manifest /\ cyc'.due = cyc.due
       /\ cyc'.active = cyc.active /\ cyc'.seen = cyc.seen /\ cyc'.kept = cyc.kept /\ CycOK(cyc')
  BY <1>1, <1>4, <1>6, <1>9 DEF CycOK, Place
<1>15. /\ db'.recorded = recorded /\ db'.snapshot = db.snapshot /\ db'.manifest = db.manifest
       /\ db'.active = db.active /\ DbOK(db')
  BY <1>1, <1>6, <1>7 DEF DbOK
<1>16. HistOK(hist') /\ hist'.durable = hist.durable /\ hist'.accepted = hist.accepted
       /\ hist'.lost = hist.lost /\ hist'.emptied = hist.emptied
  BY <1>1, <1>trouble DEF HistOK
<1>17. Accounted' = Accounted
  BY <1>16 DEF Accounted
<1>18. cyc.events \subseteq events
  BY DEF events
<1>19. Typed'
  BY <1>1, <1>2, <1>14, <1>15, <1>16 DEF Inv, Typed, At
<1>20. SnapshotInv'
  BY <1>2, <1>14, <1>15, <1>16, <1>17 DEF Inv, SnapshotInv, InOrder, Persisted
<1>21. SeenInv'
  <2>1. Whole(cyc.seen) /\ Filed(cyc.seen, hist.emptied)
        /\ SeenVouched(cyc.seen, cyc.events, mem.snapshot, Accounted)
    BY <1>1 DEF Inv, SeenInv, Unpersisted
  <2>2. SeenVouched(cyc.seen, events, mem.snapshot, Accounted)
    BY <1>18, <2>1, SeenVouchedMore
  <2> QED
    BY <1>2, <1>14, <1>16, <1>17, <2>1, <2>2 DEF SeenInv
<1>22. ManifestInv'
  BY <1>10, <1>14, <1>15, <1>17 DEF Inv, ManifestInv, ManifestKnown, Persisted
<1>23. PendingInv'
  BY <1>2, <1>14, <1>16, <1>18 DEF Inv, PendingInv, Persisted, At
<1>24. OneTimeEventsAreKept'
  BY <1>2, <1>11, <1>14, <1>15, <1>16, <1>17, <1>18 DEF Inv, OneTimeEventsAreKept
<1>25. ObservedInv'
  BY <1>12, <1>13, <1>14 DEF ObservedInv, Observes, DueOnly, At
<1>26. ObservedAbsenceResolves'
  BY <1>14 DEF ObservedAbsenceResolves, At
<1> QED
  BY <1>19, <1>20, <1>21, <1>22, <1>23, <1>24, <1>25, <1>26 DEF Inv

LEMMA FindingsTyped ==
    ASSUME NEW events \in SUBSET Event
    PROVE  FindingsOf(events) \in SUBSET ((SUBSET Source) \ {{}})
<1>1. SourcesOf(events) \subseteq Source
  BY DEF SourcesOf, Event
<1> DEFINE S == SourcesOf(events)
<1> HIDE DEF S
<1>2. \A x \in ({{s} : s \in S} \union {S}) \ {{}} : x \subseteq Source /\ x # {}
  BY <1>1 DEF S
<1>3. FindingsOf(events) = ({{s} : s \in S} \union {S}) \ {{}}
  BY DEF FindingsOf, S
<1> QED
  BY <1>2, <1>3

LEMMA AnalyseStep == Inv /\ Analyse => Inv'
<1> SUFFICES ASSUME Inv, Analyse PROVE Inv'
  OBVIOUS
<1>1. /\ WorldOK(world) /\ DbOK(db) /\ MemOK(mem) /\ HistOK(hist) /\ ScanOK(scan)
      /\ CycOK(cyc) /\ cyc.pc = "examined"
  BY DEF Inv, Typed, Analyse, At
<1>2. UNCHANGED <<world, db, scan>>
  BY DEF Analyse
<1>3. PICK gone \in SUBSET {e \in cyc.events : e[1] \notin Unsuppressible} :
         /\ cyc' = [cyc EXCEPT !.pc = "analysed", !.kept = cyc.events \ gone,
                               !.findings = FindingsOf(cyc.events \ gone)]
         /\ mem' = [mem EXCEPT !.pending = cyc.events \ gone]
  BY DEF Analyse
<1>4. PICK n : hist' = [hist EXCEPT !.trouble = n]
  BY DEF Analyse
<1> DEFINE kept == cyc.events \ gone
<1>5. kept \subseteq cyc.events /\ kept \in SUBSET Event
  BY <1>1 DEF CycOK
<1>6. cyc' = [cyc EXCEPT !.pc = "analysed", !.kept = kept, !.findings = FindingsOf(kept)]
  BY <1>3
<1>7. mem' = [mem EXCEPT !.pending = kept]
  BY <1>3
<1> HIDE DEF kept
<1>8. /\ cyc'.pc = "analysed" /\ cyc'.kept = kept /\ cyc'.events = cyc.events
      /\ cyc'.coverage = cyc.coverage /\ cyc'.observed = cyc.observed /\ cyc'.due = cyc.due
      /\ cyc'.active = cyc.active /\ cyc'.seen = cyc.seen /\ cyc'.manifest = cyc.manifest
      /\ CycOK(cyc')
  BY <1>1, <1>5, <1>6, FindingsTyped DEF CycOK, Place
<1>9. /\ MemOK(mem') /\ mem'.pending = kept /\ mem'.snapshot = mem.snapshot
      /\ mem'.cold = mem.cold /\ mem'.window = mem.window /\ mem'.remembered = mem.remembered
  BY <1>1, <1>5, <1>7 DEF MemOK
<1>10. HistOK(hist') /\ hist'.durable = hist.durable /\ hist'.accepted = hist.accepted
       /\ hist'.lost = hist.lost /\ hist'.emptied = hist.emptied
  BY <1>1, <1>4 DEF HistOK
<1>11. Accounted' = Accounted
  BY <1>10 DEF Accounted
<1>12. Typed'
  BY <1>1, <1>2, <1>8, <1>9, <1>10 DEF Inv, Typed, At
<1>13. SnapshotInv'
  BY <1>2, <1>8, <1>9, <1>10, <1>11 DEF Inv, SnapshotInv, InOrder, Persisted
<1>14. SeenInv'
  BY <1>1, <1>8, <1>9, <1>10, <1>11 DEF Inv, SeenInv, Unpersisted
<1>15. ManifestInv'
  BY <1>1, <1>2, <1>8, <1>11 DEF Inv, ManifestInv, ManifestKnown, Unpersisted, Persisted
<1>16. PendingInv'
  BY <1>5, <1>8, <1>9, <1>10 DEF Inv, PendingInv, Persisted, At
<1>17. OneTimeEventsAreKept'
  BY <1>2, <1>8, <1>9, <1>10, <1>11 DEF Inv, OneTimeEventsAreKept
<1>18. ObservedInv'
  BY <1>1, <1>8 DEF Inv, ObservedInv, Observes, DueOnly, At
<1>19. ObservedAbsenceResolves'
  BY <1>8 DEF ObservedAbsenceResolves, At
<1> QED
  BY <1>12, <1>13, <1>14, <1>15, <1>16, <1>17, <1>18, <1>19 DEF Inv

LEMMA PersistStep ==
    ASSUME NEW mode \in {"full", "reference", "volatile"}, Inv, Persist(mode)
    PROVE  Inv'
<1>1. /\ WorldOK(world) /\ DbOK(db) /\ MemOK(mem) /\ HistOK(hist) /\ ScanOK(scan)
      /\ CycOK(cyc) /\ cyc.pc = "analysed"
  BY DEF Inv, Typed, Persist, At
<1>2. UNCHANGED <<world, scan>> /\ (mode # "full" => cyc.kept = {})
      /\ (mode = "volatile" => VolatileAllowed)
  BY DEF Persist, Eligible
<1>3. cyc' = [NoCycle EXCEPT !.pc = mode, !.coverage = cyc.coverage, !.observed = cyc.observed,
                             !.findings = cyc.findings, !.manifest = cyc.manifest]
  BY DEF Persist
<1>4. /\ cyc'.pc = mode /\ cyc'.coverage = cyc.coverage /\ cyc'.observed = cyc.observed
      /\ cyc'.manifest = cyc.manifest /\ cyc'.events = {} /\ cyc'.kept = {} /\ CycOK(cyc')
  BY <1>1, <1>3, NoCycleIs DEF CycOK, Place
<1>5. /\ DbOK(db') /\ db'.manifest = db.manifest /\ db'.recorded = db.recorded
      /\ db'.active = db.active
      /\ db'.snapshot = IF mode = "full" THEN cyc.seen ELSE db.snapshot
  BY <1>1 DEF Persist, DbOK, CycOK
<1>6. /\ MemOK(mem') /\ mem'.snapshot = cyc.seen /\ mem'.cold = mem.cold
      /\ mem'.window = mem.window /\ mem'.pending = mem.pending
      /\ mem'.remembered = mem.remembered
  <2>1. PICK full \in BOOLEAN : mem' = [mem EXCEPT !.snapshot = cyc.seen, !.full = full]
    BY <1>1 DEF Persist, MemOK
  <2> QED
    BY <1>1, <2>1 DEF MemOK, CycOK
<1>7. Baseline \subseteq Event
  <2>1. \A d \in Snapshotted : <<d, cyc.seen[d]>> \in Event
    BY <1>1, Names DEF CycOK, Snapshot, Event, Value
  <2> QED
    BY <2>1 DEF Baseline
<1>8. /\ HistOK(hist') /\ hist'.lost = hist.lost /\ hist'.emptied = hist.emptied
      /\ hist'.durable = IF mode = "full" THEN hist.durable \union cyc.kept ELSE hist.durable
      /\ hist'.accepted = hist.accepted \union Baseline \union (cyc.events \ cyc.kept)
  <2> DEFINE durable  == IF mode = "full" THEN hist.durable \union cyc.kept ELSE hist.durable
             accepted == hist.accepted \union Baseline \union (cyc.events \ cyc.kept)
  <2>1. durable \in SUBSET Event /\ accepted \in SUBSET Event
    BY <1>1, <1>7 DEF CycOK, HistOK
  <2>2. hist' = [hist EXCEPT !.durable = durable, !.accepted = accepted]
    BY <1>1 DEF Persist, HistOK
  <2> HIDE DEF durable, accepted
  <2>3. HistOK(hist') /\ hist'.lost = hist.lost /\ hist'.emptied = hist.emptied
        /\ hist'.durable = durable /\ hist'.accepted = accepted
    BY <1>1, <2>1, <2>2 DEF HistOK
  <2> QED
    BY <2>3 DEF durable, accepted
<1>9. cyc.kept \subseteq cyc.events /\ mem.pending = cyc.kept /\ mem.window \subseteq hist.durable
  BY <1>1 DEF Inv, PendingInv, At
<1>10. /\ Accounted \subseteq Accounted' /\ cyc.events \subseteq Accounted'
       /\ Baseline \subseteq Accounted'
  BY <1>2, <1>8 DEF Accounted
<1>11. Typed'
  BY <1>1, <1>2, <1>4, <1>5, <1>6, <1>8 DEF Inv, Typed, At
<1>12. Whole(cyc.seen) /\ Filed(cyc.seen, hist.emptied) /\ Vouched(cyc.seen, Accounted')
  <2>1. Whole(cyc.seen) /\ Filed(cyc.seen, hist.emptied)
        /\ SeenVouched(cyc.seen, cyc.events, mem.snapshot, Accounted)
    BY <1>1 DEF Inv, SeenInv, Unpersisted
  <2>2. ASSUME NEW d \in Snapshotted, cyc.seen[d] # Nothing
        PROVE  <<d, cyc.seen[d]>> \in Accounted' \/ Harmless(d, cyc.seen[d], Accounted')
    <3>1. CASE <<d, cyc.seen[d]>> \in Accounted \union cyc.events
      BY <1>10, <3>1
    <3>2. CASE Harmless(d, cyc.seen[d], Accounted)
      BY <1>10, <3>2 DEF Harmless
    <3>3. CASE mem.snapshot = NoSnapshot
      BY <1>10, <3>3 DEF Baseline
    <3>4. CASE d = "sensitive_files" /\ mem.snapshot[d] = Nothing
      <4>1. hist.emptied
        BY <3>4 DEF Inv, SnapshotInv, InOrder, Filed
      <4> QED
        BY <1>10, <3>4, <4>1 DEF Baseline
    <3> QED
      BY <2>1, <2>2, <3>1, <3>2, <3>3, <3>4 DEF SeenVouched
  <2> QED
    BY <2>1, <2>2 DEF Vouched
<1>13. SnapshotInv'
  <2>1. InOrder(db.snapshot)'
    BY <1>5, <1>8, <1>10, <1>12, VouchedMore DEF Inv, SnapshotInv, InOrder
  <2>2. InOrder(mem.snapshot)'
    BY <1>6, <1>8, <1>12 DEF InOrder
  <2> QED
    BY <1>2, <1>6, <1>8, <1>10, <1>12, <2>1, <2>2, VouchedMore DEF Inv, SnapshotInv
<1>14. SeenInv'
  BY <1>4 DEF SeenInv, Unpersisted
<1>15. ManifestInv'
  BY <1>1, <1>4, <1>5, <1>10 DEF Inv, ManifestInv, ManifestKnown, Unpersisted
<1>16. PendingInv'
  BY <1>2, <1>4, <1>6, <1>8, <1>9 DEF PendingInv, At
<1>17. OneTimeEventsAreKept'
  BY <1>2, <1>4, <1>5, <1>6, <1>8, <1>10 DEF Inv, OneTimeEventsAreKept
<1>18. ObservedInv'
  <2>1. Observes(Collectors \union Check) /\ DueOnly
    BY <1>1 DEF Inv, ObservedInv, At
  <2>2. ASSUME VolatileAllowed, NEW c \in db.active PROVE \E s \in c : ~Testifies(s)
    <3>1. PICK s \in c : TRUE
      BY <1>1 DEF DbOK
    <3>2. ~RequiresDurable(c)
      BY <2>2 DEF VolatileAllowed
    <3>3. s \notin cyc.observed /\ s \notin Undomained
      BY <2>1, <3>1, <3>2, Names DEF RequiresDurable, DueOnly, Undomained
    <3> QED
      BY <3>1, <3>3 DEF Testifies
  <2> QED
    BY <1>2, <1>4, <1>5, <2>1, <2>2 DEF ObservedInv, Observes, Testifies, At
<1>19. ObservedAbsenceResolves'
  BY <1>4 DEF ObservedAbsenceResolves, At
<1> QED
  BY <1>11, <1>13, <1>14, <1>15, <1>16, <1>17, <1>18, <1>19 DEF Inv

LEMMA ReconcileStep == Inv /\ Reconcile => Inv'
<1> SUFFICES ASSUME Inv, Reconcile PROVE Inv'
  OBVIOUS
<1>1. /\ WorldOK(world) /\ DbOK(db) /\ MemOK(mem) /\ HistOK(hist) /\ ScanOK(scan)
      /\ CycOK(cyc) /\ cyc.pc \in {"full", "reference", "volatile"}
  BY DEF Inv, Typed, Reconcile
<1>2. UNCHANGED <<world, mem, scan, hist>>
  BY DEF Reconcile
<1> DEFINE active == IF At("volatile")
                     THEN IF db.backlog THEN db.active \ Resolved(db.active) ELSE db.active
                     ELSE (CaughtUp \ Resolved(CaughtUp)) \union cyc.findings
<1>3. db' = [db EXCEPT !.backlog = FALSE, !.active = active]
  BY DEF Reconcile
<1>4. active \in SUBSET ((SUBSET Source) \ {{}})
  <2>1. db.active \in SUBSET ((SUBSET Source) \ {{}}) /\ cyc.findings \in SUBSET ((SUBSET Source) \ {{}})
    BY <1>1 DEF DbOK, CycOK
  <2>2. CaughtUp \in SUBSET ((SUBSET Source) \ {{}})
    BY <2>1, Names DEF CaughtUp
  <2> QED
    BY <2>1, <2>2
<1>5. /\ cyc'.pc = "reconciled" /\ cyc'.observed = cyc.observed /\ cyc'.findings = cyc.findings
      /\ cyc'.manifest = cyc.manifest /\ cyc'.events = {} /\ cyc'.kept = {} /\ CycOK(cyc')
  <2>1. cyc' = [NoCycle EXCEPT !.pc = "reconciled", !.observed = cyc.observed,
                               !.findings = cyc.findings, !.manifest = cyc.manifest]
    BY DEF Reconcile
  <2> QED
    BY <1>1, <2>1, NoCycleIs DEF CycOK, Place
<1>6. cyc.events \subseteq Accounted \union cyc.events /\ Accounted' = Accounted
  BY <1>2 DEF Accounted
<1>7. \A c \in active : c \in cyc.findings \/ \E s \in c : ~Testifies(s)
  <2>1. Observes(Collectors \union Check)
    BY <1>1 DEF Inv, ObservedInv
  <2>2. ASSUME NEW c, \A s \in c : Testifies(s)
        PROVE  ResolutionSafe(c, cyc.coverage)
    BY <2>1, <2>2, TestifiedIsSafe
  <2>3. CASE At("volatile")
    <3>1. active \subseteq db.active
      BY <2>3
    <3> QED
      BY <2>3, <3>1 DEF Inv, ObservedInv
  <2>4. CASE ~At("volatile")
    BY <2>2, <2>4 DEF Resolved
  <2> QED
    BY <2>3, <2>4
<1> HIDE DEF active
<1>8. /\ DbOK(db') /\ db'.active = active /\ db'.snapshot = db.snapshot
      /\ db'.manifest = db.manifest /\ db'.recorded = db.recorded
  BY <1>1, <1>3, <1>4 DEF DbOK
<1>9. Typed'
  BY <1>1, <1>2, <1>5, <1>8 DEF Inv, Typed, At
<1>10. SnapshotInv'
  BY <1>1, <1>2, <1>5, <1>6, <1>8 DEF Inv, SnapshotInv, InOrder, Persisted
<1>11. ManifestInv' /\ PendingInv' /\ SeenInv'
  BY <1>1, <1>2, <1>5, <1>6, <1>8
  DEF Inv, ManifestInv, ManifestKnown, PendingInv, SeenInv, Unpersisted, Persisted, At
<1>12. OneTimeEventsAreKept'
  BY <1>1, <1>2, <1>5, <1>6, <1>8 DEF Inv, OneTimeEventsAreKept, PendingInv, Persisted
<1>13. ObservedInv' /\ ObservedAbsenceResolves'
  BY <1>5, <1>7, <1>8 DEF ObservedInv, ObservedAbsenceResolves, Testifies, At
<1> QED
  BY <1>9, <1>10, <1>11, <1>12, <1>13 DEF Inv

LEMMA SaveManifestStep == Inv /\ SaveManifest => Inv'
<1> SUFFICES ASSUME Inv, SaveManifest PROVE Inv'
  OBVIOUS
<1>1. /\ WorldOK(world) /\ DbOK(db) /\ MemOK(mem) /\ HistOK(hist) /\ ScanOK(scan)
      /\ CycOK(cyc) /\ cyc.pc = "reconciled"
  BY DEF Inv, Typed, SaveManifest, At
<1>2. UNCHANGED <<world, mem, scan>>
  BY DEF SaveManifest
<1>3. /\ cyc'.pc = "saved" /\ cyc'.manifest = Never /\ cyc'.events = {} /\ cyc'.kept = {}
      /\ CycOK(cyc')
  BY <1>1, NoCycleIs DEF SaveManifest, CycOK, Place
<1>4. /\ DbOK(db') /\ db'.active = db.active /\ db'.snapshot = db.snapshot
      /\ db'.recorded = db.recorded
      /\ db'.manifest = IF cyc.manifest = Never THEN db.manifest ELSE cyc.manifest
  BY <1>1 DEF SaveManifest, DbOK, CycOK
<1> DEFINE first == IF cyc.manifest # Never /\ db.manifest = Never
                    THEN {<<"self_integrity", cyc.manifest>>} ELSE {}
<1>5. first \in SUBSET Event
  BY <1>1, Names DEF CycOK, Event
<1>6. hist' = [hist EXCEPT !.accepted = hist.accepted \union first]
  BY <1>1 DEF SaveManifest, HistOK
<1> HIDE DEF first
<1>7. /\ HistOK(hist') /\ hist'.durable = hist.durable /\ hist'.lost = hist.lost
      /\ hist'.emptied = hist.emptied /\ hist'.accepted = hist.accepted \union first
  BY <1>1, <1>5, <1>6 DEF HistOK
<1>8. Accounted \subseteq Accounted' /\ first \subseteq Accounted'
  BY <1>7 DEF Accounted
<1>9. Typed'
  BY <1>1, <1>2, <1>3, <1>4, <1>7 DEF Inv, Typed, At
<1>10. SnapshotInv'
  BY <1>1, <1>2, <1>3, <1>4, <1>7, <1>8, VouchedMore DEF Inv, SnapshotInv, InOrder, Persisted
<1>11. ManifestInv'
  <2>1. db.manifest # Never => <<"self_integrity", db.manifest>> \in Accounted
    BY DEF Inv, ManifestInv
  <2>2. cyc.manifest # Never => <<"self_integrity", cyc.manifest>> \in Accounted'
    BY <1>1, <1>8 DEF Inv, ManifestInv, ManifestKnown, Persisted, first
  <2> QED
    BY <1>3, <1>4, <1>8, <2>1, <2>2 DEF ManifestInv, ManifestKnown, Unpersisted
<1>12. PendingInv' /\ SeenInv'
  BY <1>1, <1>2, <1>3, <1>7 DEF Inv, PendingInv, SeenInv, Unpersisted, Persisted, At
<1>13. OneTimeEventsAreKept'
  BY <1>1, <1>2, <1>3, <1>4, <1>7, <1>8 DEF Inv, OneTimeEventsAreKept, PendingInv, Persisted
<1>14. ObservedInv' /\ ObservedAbsenceResolves'
  BY <1>3 DEF ObservedInv, ObservedAbsenceResolves, At
<1> QED
  BY <1>9, <1>10, <1>11, <1>12, <1>13, <1>14 DEF Inv

LEMMA CompleteStep == Inv /\ Complete => Inv'
<1> SUFFICES ASSUME Inv, Complete PROVE Inv'
  OBVIOUS
<1>1. /\ WorldOK(world) /\ DbOK(db) /\ MemOK(mem) /\ HistOK(hist) /\ ScanOK(scan)
      /\ CycOK(cyc) /\ cyc.pc = "saved"
  BY DEF Inv, Typed, Complete, At
<1>2. UNCHANGED <<world, db, scan, hist>> /\ cyc' = NoCycle
  BY DEF Complete
<1> DEFINE known == mem.window \union mem.pending
<1>3. mem' = [mem EXCEPT !.cold = FALSE, !.window = known, !.pending = {}]
  BY <1>1 DEF Complete, Committed, MemOK
<1>4. known \in SUBSET Event /\ known \subseteq hist.durable
  BY <1>1 DEF Inv, PendingInv, MemOK, Persisted
<1> HIDE DEF known
<1>5. /\ MemOK(mem') /\ mem'.snapshot = mem.snapshot /\ mem'.remembered = mem.remembered
      /\ mem'.window = known
  BY <1>1, <1>3, <1>4 DEF MemOK
<1>6. Accounted' = Accounted
  BY <1>2 DEF Accounted
<1>7. Typed'
  BY <1>1, <1>2, <1>5, NoCycleIs DEF Inv, Typed, At
<1>8. SnapshotInv'
  BY <1>1, <1>2, <1>5, <1>6, NoCycleIs DEF Inv, SnapshotInv, InOrder, Persisted
<1>9. ManifestInv' /\ PendingInv' /\ SeenInv'
  BY <1>2, <1>4, <1>5, <1>6, NoCycleIs
  DEF Inv, ManifestInv, ManifestKnown, PendingInv, SeenInv, Unpersisted, Persisted, At
<1>10. OneTimeEventsAreKept'
  BY <1>1, <1>2, <1>5, <1>6, NoCycleIs DEF Inv, OneTimeEventsAreKept, PendingInv, Persisted
<1>11. ObservedInv' /\ ObservedAbsenceResolves'
  BY <1>2, NoCycleIs DEF ObservedInv, ObservedAbsenceResolves, At
<1> QED
  BY <1>7, <1>8, <1>9, <1>10, <1>11 DEF Inv

(* A failure and the end of the process lose what the cycle held.  The memory *)
(* is the old one without what was pending, or that of a service that starts. *)
LEMMA LostStep ==
    ASSUME Inv, UNCHANGED <<world, db, scan>>, cyc' = NoCycle, hist' = Lost, MemOK(mem'),
           mem'.snapshot \in {mem.snapshot, db.snapshot},
           Whole(mem'.snapshot) \/ mem'.cold,
           mem'.remembered \subseteq mem.remembered, mem'.window \subseteq mem.window
    PROVE  Inv'
<1>1. /\ WorldOK(world) /\ DbOK(db) /\ MemOK(mem) /\ HistOK(hist) /\ ScanOK(scan) /\ CycOK(cyc)
  BY DEF Inv, Typed
<1> DEFINE gone == {e \in cyc.events \ Accounted : e[1] \in OneTime}
<1>2. gone \in SUBSET Event
  BY <1>1 DEF CycOK
<1>3. PICK n : hist' = [hist EXCEPT !.trouble = n, !.lost = hist.lost \union gone]
  BY <1>1 DEF Lost, HistOK
<1>4. \A e \in cyc.events : e[1] \in OneTime => e \in Accounted \union gone
  OBVIOUS
<1> HIDE DEF gone
<1>5. /\ HistOK(hist') /\ hist'.durable = hist.durable /\ hist'.accepted = hist.accepted
      /\ hist'.emptied = hist.emptied /\ hist'.lost = hist.lost \union gone
  BY <1>1, <1>2, <1>3 DEF HistOK
<1>6. Accounted' = Accounted
  BY <1>5 DEF Accounted
<1>7. Typed'
  BY <1>1, <1>5, NoCycleIs DEF Inv, Typed, At
<1>8. SnapshotInv'
  BY <1>5, <1>6, NoCycleIs DEF Inv, SnapshotInv, InOrder, Persisted
<1>9. ManifestInv' /\ PendingInv' /\ SeenInv'
  BY <1>5, <1>6, NoCycleIs
  DEF Inv, ManifestInv, ManifestKnown, PendingInv, SeenInv, Unpersisted, Persisted, At
<1>10. OneTimeEventsAreKept'
  <2>1. ASSUME NEW e \in ({"authentication"} \X mem'.remembered) \union
                           ({"scanner"} \X ({db.recorded} \ {Nothing}))
        PROVE  e \in Accounted \union scan.events \union hist.lost \union gone
    <3>1. e[1] \in OneTime
      BY DEF OneTime
    <3>2. e \in Accounted \union cyc.events \union scan.events \union hist.lost
      BY <2>1 DEF Inv, OneTimeEventsAreKept
    <3> QED
      BY <1>4, <3>1, <3>2
  <2> QED
    BY <1>5, <1>6, <2>1 DEF OneTimeEventsAreKept
<1>11. ObservedInv' /\ ObservedAbsenceResolves'
  BY NoCycleIs DEF ObservedInv, ObservedAbsenceResolves, At
<1> QED
  BY <1>7, <1>8, <1>9, <1>10, <1>11 DEF Inv

LEMMA FailStep == Inv /\ Fail => Inv'
<1> SUFFICES ASSUME Inv, Fail PROVE Inv'
  OBVIOUS
<1>1. MemOK(mem) /\ (Whole(mem.snapshot) \/ mem.cold)
  BY DEF Inv, Typed, SnapshotInv
<1>2. mem' = [mem EXCEPT !.pending = {}]
  BY DEF Fail, Discarded
<1>3. /\ MemOK(mem') /\ mem'.snapshot = mem.snapshot /\ mem'.cold = mem.cold
      /\ mem'.remembered = mem.remembered /\ mem'.window = mem.window
  BY <1>1, <1>2 DEF MemOK
<1> QED
  BY <1>1, <1>3, LostStep DEF Fail

LEMMA RestartStep == Inv /\ Restart => Inv'
<1> SUFFICES ASSUME Inv, Restart PROVE Inv'
  OBVIOUS
<1>1. PICK cold \in BOOLEAN : /\ db.snapshot = NoSnapshot => cold
                             /\ mem' = Started(db.snapshot, cold)
  BY DEF Restart
<1>2. db.snapshot \in Snapshot /\ (db.snapshot = NoSnapshot \/ Whole(db.snapshot))
  BY DEF Inv, Typed, DbOK, SnapshotInv, InOrder
<1>3. /\ MemOK(mem') /\ mem'.snapshot = db.snapshot /\ mem'.cold = cold
      /\ mem'.remembered = {} /\ mem'.window = {}
  BY <1>1, <1>2 DEF MemOK, Started
<1> QED
  BY <1>1, <1>2, <1>3, LostStep DEF Restart

LEMMA ScanRunsStep == Inv /\ ScanRuns => Inv'
<1> SUFFICES ASSUME Inv, ScanRuns PROVE Inv'
  OBVIOUS
<1>1. /\ WorldOK(world) /\ DbOK(db) /\ MemOK(mem) /\ HistOK(hist) /\ CycOK(cyc)
      /\ scan.events = {}
  BY NoScanIs DEF Inv, Typed, ScanRuns
<1>2. UNCHANGED <<world, mem, cyc>>
  BY DEF ScanRuns
<1>3. PICK n : hist' = [hist EXCEPT !.trouble = n]
  BY DEF ScanRuns
<1> DEFINE item == world.item["scanner"]
           snapshot == IF db.snapshot = NoSnapshot THEN EmptySnapshot ELSE db.snapshot
           events == ScannerEvents(item)
<1>4. item \in Value
  BY <1>1, Names DEF WorldOK, Value
<1>5. events \in SUBSET Event /\ (item # Nothing => <<"scanner", item>> \in events)
  BY <1>4, Names DEF ScannerEvents, Event
<1>6. /\ snapshot \in Snapshot /\ Whole(snapshot) /\ Vouched(snapshot, Accounted)
      /\ Filed(snapshot, hist.emptied) \/ snapshot = EmptySnapshot
  <2>1. Vouched(EmptySnapshot, Accounted)
    BY Snapshots DEF Vouched
  <2> QED
    BY <1>1, <2>1, Snapshots DEF DbOK, Inv, SnapshotInv, InOrder
<1>7. /\ db' = [db EXCEPT !.recorded = item]
      /\ scan' = [pc |-> "ran", snapshot |-> snapshot, events |-> events]
  BY DEF ScanRuns
<1> HIDE DEF item, snapshot, events
<1>8. /\ DbOK(db') /\ db'.recorded = item /\ db'.snapshot = db.snapshot
      /\ db'.manifest = db.manifest /\ db'.active = db.active
  BY <1>1, <1>4, <1>7 DEF DbOK
<1>9. ScanOK(scan') /\ scan'.pc = "ran" /\ scan'.snapshot = snapshot /\ scan'.events = events
  BY <1>5, <1>6, <1>7 DEF ScanOK
<1>10. /\ HistOK(hist') /\ hist'.durable = hist.durable /\ hist'.accepted = hist.accepted
       /\ hist'.emptied = hist.emptied /\ hist'.lost = hist.lost
  BY <1>1, <1>3 DEF HistOK
<1>11. Accounted' = Accounted
  BY <1>10 DEF Accounted
<1>12. Typed'
  BY <1>1, <1>2, <1>8, <1>9, <1>10 DEF Inv, Typed, At
<1>13. SnapshotInv'
  BY <1>2, <1>6, <1>8, <1>9, <1>10, <1>11 DEF Inv, SnapshotInv, InOrder
<1>14. ManifestInv' /\ PendingInv' /\ SeenInv'
  BY <1>2, <1>8, <1>10, <1>11 DEF Inv, ManifestInv, ManifestKnown, PendingInv, SeenInv, At
<1>15. OneTimeEventsAreKept'
  BY <1>1, <1>2, <1>5, <1>8, <1>9, <1>10, <1>11 DEF Inv, OneTimeEventsAreKept
<1>16. ObservedInv' /\ ObservedAbsenceResolves'
  BY <1>2, <1>8 DEF Inv, ObservedInv, Observes, DueOnly, ObservedAbsenceResolves, Testifies, At
<1> QED
  BY <1>12, <1>13, <1>14, <1>15, <1>16 DEF Inv

LEMMA ScanCommitsStep == Inv /\ ScanCommits => Inv'
<1> SUFFICES ASSUME Inv, ScanCommits PROVE Inv'
  OBVIOUS
<1>1. /\ WorldOK(world) /\ DbOK(db) /\ MemOK(mem) /\ HistOK(hist) /\ CycOK(cyc) /\ ScanOK(scan)
      /\ scan.pc = "ran"
  BY DEF Inv, Typed, ScanCommits
<1>2. UNCHANGED <<world, mem, cyc>> /\ scan' = NoScan
  BY DEF ScanCommits
<1>3. PICK gone \in SUBSET scan.events :
         /\ db' = [db EXCEPT !.snapshot = scan.snapshot,
                             !.backlog = db.backlog \/ scan.events \ gone # {}]
         /\ hist' = [hist EXCEPT !.durable = hist.durable \union (scan.events \ gone),
                                 !.accepted = hist.accepted \union gone,
                                 !.emptied = hist.emptied \/ scan.snapshot = EmptySnapshot]
  BY <1>1 DEF ScanCommits, DbOK, HistOK
<1> DEFINE backlog == db.backlog \/ scan.events \ gone # {}
           durable == hist.durable \union (scan.events \ gone)
           accepted == hist.accepted \union gone
           emptied == hist.emptied \/ scan.snapshot = EmptySnapshot
<1>4. /\ db' = [db EXCEPT !.snapshot = scan.snapshot, !.backlog = backlog]
      /\ hist' = [hist EXCEPT !.durable = durable, !.accepted = accepted, !.emptied = emptied]
  BY <1>3
<1>5. /\ durable \in SUBSET Event /\ accepted \in SUBSET Event /\ emptied \in BOOLEAN
      /\ backlog \in BOOLEAN
  BY <1>1 DEF HistOK, ScanOK
<1> HIDE DEF backlog, durable, accepted, emptied
<1>6. /\ DbOK(db') /\ db'.recorded = db.recorded /\ db'.snapshot = scan.snapshot
      /\ db'.manifest = db.manifest /\ db'.active = db.active
  BY <1>1, <1>4, <1>5 DEF DbOK, ScanOK
<1>7. /\ HistOK(hist') /\ hist'.durable = durable /\ hist'.accepted = accepted
      /\ hist'.emptied = emptied /\ hist'.lost = hist.lost
  BY <1>1, <1>4, <1>5 DEF HistOK
<1>8. Accounted \subseteq Accounted' /\ scan.events \subseteq Accounted'
      /\ hist.durable \subseteq hist'.durable /\ (hist.emptied => hist'.emptied)
  BY <1>7 DEF Accounted, durable, accepted, emptied
<1>9. Typed'
  BY <1>1, <1>2, <1>6, <1>7, NoScanIs DEF Inv, Typed, At
<1>10. SnapshotInv'
  <2>1. InOrder(mem.snapshot)'
    BY <1>2, <1>8, VouchedMore DEF Inv, SnapshotInv, InOrder, Filed
  <2>2. Filed(scan.snapshot, emptied)
    BY <1>1, <1>5 DEF Inv, SnapshotInv, Filed, emptied
  <2>3. Whole(scan.snapshot) /\ Vouched(scan.snapshot, Accounted')
    BY <1>1, <1>8, VouchedMore DEF Inv, SnapshotInv
  <2>4. InOrder(db.snapshot)'
    BY <1>6, <1>7, <2>2, <2>3 DEF InOrder
  <2> QED
    BY <1>2, <2>1, <2>4, NoScanIs DEF Inv, SnapshotInv
<1>11. SeenInv'
  BY <1>2, <1>8, SeenVouchedMore DEF Inv, SeenInv, Filed
<1>12. ManifestInv' /\ PendingInv'
  BY <1>2, <1>6, <1>8 DEF Inv, ManifestInv, ManifestKnown, PendingInv, At
<1>13. OneTimeEventsAreKept'
  BY <1>2, <1>6, <1>7, <1>8, NoScanIs DEF Inv, OneTimeEventsAreKept
<1>14. ObservedInv' /\ ObservedAbsenceResolves'
  BY <1>2, <1>6 DEF Inv, ObservedInv, Observes, DueOnly, ObservedAbsenceResolves, Testifies, At
<1> QED
  BY <1>9, <1>10, <1>11, <1>12, <1>13, <1>14 DEF Inv

LEMMA UnchangedStep == Inv /\ UNCHANGED vars => Inv'
<1> SUFFICES ASSUME Inv, UNCHANGED vars PROVE Inv'
  OBVIOUS
<1>1. world' = world /\ db' = db /\ mem' = mem /\ cyc' = cyc /\ scan' = scan /\ hist' = hist
  BY DEF vars
<1>2. Typed'
  BY <1>1 DEF Inv, Typed, At
<1> QED
  BY <1>1, <1>2 DEF Inv, SnapshotInv, InOrder, SeenInv, ManifestInv, ManifestKnown, PendingInv,
     ObservedInv, Observes, DueOnly, OneTimeEventsAreKept, ObservedAbsenceResolves, Testifies, Accounted, At

LEMMA InvStep == Inv /\ [Next]_vars => Inv'
BY ChangeStep, CollectStep, ExamineStep, AnalyseStep, PersistStep, ReconcileStep, SaveManifestStep,
   CompleteStep, FailStep, RestartStep, ScanRunsStep, ScanCommitsStep, UnchangedStep DEF Next

-----------------------------------------------------------------------------
(* Theorems *)

LEMMA SpecInv == Spec => []Inv
<1>1. Init => Inv
  BY InitInv
<1>2. Inv /\ [Next]_vars => Inv'
  BY InvStep
<1> QED
  BY <1>1, <1>2, PTL DEF Spec

LEMMA InvImplies ==
    ASSUME Inv
    PROVE  NothingIsAcceptedSilently /\ ContextIsDurable
<1>1. Vouched(mem.snapshot, Accounted) /\ Vouched(db.snapshot, Accounted)
  BY DEF Inv, SnapshotInv, InOrder
<1>2. NothingIsAcceptedSilently
  BY <1>1 DEF NothingIsAcceptedSilently, Vouched, Harmless, Inv, ManifestInv
<1> QED
  BY <1>2 DEF ContextIsDurable, Inv, PendingInv

(* A change enters the reference - the service's snapshot, the stored one, the *)
(* manifest - only if an event of it was stored or suppressed, whatever fails, *)
(* restarts or runs next to the cycle (CadencedCollectorAdapter, persist_cycle, *)
(* SelfIntegrityMonitor).  Exceptions: processes without suspicious markers,   *)
(* configurations without risk markers of containers that could not be         *)
(* inspected, files after a scan that found no snapshot (diff_snapshots).      *)
THEOREM ChangesAreAccountedFor == Spec => []NothingIsAcceptedSilently
<1>1. Inv => NothingIsAcceptedSilently
  BY InvImplies
<1> QED
  BY <1>1, SpecInv, PTL

(* What can be collected once only is stored or suppressed in the end, unless *)
(* the cycle that held it failed (collectors' remembered log lines, runs of   *)
(* scanners recorded before the cycle).                                       *)
THEOREM OneTimeEvents == Spec => []OneTimeEventsAreKept
<1>1. Inv => OneTimeEventsAreKept
  BY DEF Inv
<1> QED
  BY <1>1, SpecInv, PTL

(* Only stored evidence influences later findings (ContextualPipeline). *)
THEOREM ContextDurable == Spec => []ContextIsDurable
<1>1. Inv => ContextIsDurable
  BY InvImplies
<1> QED
  BY <1>1, SpecInv, PTL

(* An active incident all of whose sources the cycle looked at without seeing *)
(* it does not outlive the cycle, stored or not                               *)
(* (_active_incidents_require_durable_cycle, incident_resolution_safe).       *)
THEOREM AbsenceResolves == Spec => []ObservedAbsenceResolves
<1>1. Inv => ObservedAbsenceResolves
  BY DEF Inv
<1> QED
  BY <1>1, SpecInv, PTL

-----------------------------------------------------------------------------
(* The converse needs that every warning is recognised as its domain's: on   *)
(* Debian two are not (MatchedBy), and there it does not hold.               *)

LEMMA CompleteInit == Init => CompleteIsObserved
BY NoCycleIs DEF Init, CompleteIsObserved

LEMMA CompleteStepwise ==
    ASSUME EveryWarningIsMatched, Inv, CompleteIsObserved, [Next]_vars
    PROVE  CompleteIsObserved'
<1>1. CycOK(cyc)
  BY DEF Inv, Typed
<1>2. CASE cyc' = cyc
  BY <1>2 DEF CompleteIsObserved, At
<1>3. CASE Collect
  <2>1. PICK due, outcome :
           LET active == ActiveDomains(due) IN
           /\ \A d \in Enabled : outcome[d] \in (IF d \in active THEN Outcome(d)
                                                 ELSE {"complete"})
           /\ cyc'.pc = "collected" /\ cyc'.coverage = CoverageOf(outcome, active)
           /\ cyc'.observed = (Enabled \intersect active) \ Incomplete(outcome)
    BY <1>1, <1>3 DEF Collect, CycOK
  <2> DEFINE active == ActiveDomains(due)
  <2>2. ASSUME NEW s \in Enabled, cyc'.coverage[s] \in {"complete", "disabled"}
        PROVE  s \in cyc'.observed
    <3>1. s \in Enabled \intersect active
          /\ (MatchedBy(s, outcome[s]) = {s} => outcome[s] = "complete")
      BY <2>1, <2>2, CoverageIs, Names
    <3>2. outcome[s] \in Outcome(s)
      BY <2>1, <3>1
    <3>3. outcome[s] = "complete"
      BY <3>1, <3>2 DEF EveryWarningIsMatched
    <3> QED
      BY <2>1, <3>1, <3>3 DEF Incomplete
  <2> QED
    BY <2>1, <2>2 DEF CompleteIsObserved, At
<1>4. CASE Examine
  <2>1. PICK integrity \in Integrity, run \in Scanned, said \in Said : \E x \in Findable(run) :
           Examined(integrity, run, x, said)
    BY <1>4 DEF Examine
  <2>0. PICK found \in Findable(run) : Examined(integrity, run, found, said)
    BY <2>1
  <2> DEFINE states == Checks(integrity, run, said)
             events == cyc.events \union IntegrityEvents(integrity) \union ScannerEvents(found)
                         \union FreshnessEvents(said)
             coverage == [s \in DOMAIN cyc.coverage \union Check |->
                             IF s \in Check THEN states[s] ELSE cyc.coverage[s]]
             observed == cyc.observed \union {s \in Check : states[s] = "complete"}
             manifest == IF integrity = "not_due" THEN Never ELSE world.item["self_integrity"]
  <2>2. cyc' = [cyc EXCEPT !.pc = "examined", !.events = events, !.coverage = coverage,
                           !.observed = observed, !.manifest = manifest]
    BY <2>0 DEF Examined
  <2>6. \A s \in Check : states[s] # "disabled"
    BY DEF Checks, ScannerState, Scanned, Integrity
  <2>7. Collectors \subseteq DOMAIN cyc.coverage
    BY <1>4 DEF Inv, ObservedInv, Observes, Examine, At
  <2> HIDE DEF states, events, coverage, observed, manifest
  <2>3. cyc'.pc = "examined" /\ cyc'.coverage = coverage /\ cyc'.observed = observed
    BY <1>1, <2>2 DEF CycOK
  <2>4. \A s \in Enabled : cyc.coverage[s] \in {"complete", "disabled"} => s \in cyc.observed
    BY <1>4 DEF CompleteIsObserved, Examine, At
  <2>5. \A s \in Enabled \union Check : coverage[s] \in {"complete", "disabled"} => s \in observed
    BY <2>4, <2>6, <2>7, Names DEF coverage, observed, Collectors
  <2> QED
    BY <2>3, <2>5 DEF CompleteIsObserved, At
<1>5. CASE Analyse
  <2>1. cyc.pc = "examined" /\ cyc'.pc = "analysed" /\ cyc'.coverage = cyc.coverage
        /\ cyc'.observed = cyc.observed
    BY <1>1, <1>5 DEF Analyse, CycOK, At
  <2> QED
    BY <2>1 DEF CompleteIsObserved, At
<1>6. CASE \E mode \in {"full", "reference", "volatile"} : Persist(mode)
  <2>1. cyc.pc = "analysed" /\ cyc'.pc \in {"full", "reference", "volatile"}
        /\ cyc'.coverage = cyc.coverage /\ cyc'.observed = cyc.observed
    BY <1>6, NoCycleIs DEF Persist, At, CycOK
  <2> QED
    BY <2>1 DEF CompleteIsObserved, At
<1>7. CASE Reconcile \/ SaveManifest \/ Complete \/ Fail \/ Restart
  <2>1. cyc'.pc \in {"reconciled", "saved", "idle"}
    BY <1>7, NoCycleIs DEF Reconcile, SaveManifest, Complete, Fail, Restart, CycOK
  <2> QED
    BY <2>1 DEF CompleteIsObserved
<1>8. CASE Change \/ ScanRuns \/ ScanCommits \/ UNCHANGED vars
  BY <1>2, <1>8 DEF Change, ScanRuns, ScanCommits, vars
<1> QED
  BY <1>3, <1>4, <1>5, <1>6, <1>7, <1>8 DEF Next

LEMMA ResolvedStep ==
    ASSUME EveryWarningIsMatched, Inv, CompleteIsObserved, [Next]_vars
    PROVE  \A c \in db.active \ db'.active : c \notin cyc.findings /\ \A s \in c : Testifies(s)
<1>1. DbOK(db)
  BY DEF Inv, Typed
<1>2. CASE db'.active = db.active
  BY <1>2
<1>3. CASE Reconcile
  <2>1. cyc.pc \in {"full", "reference", "volatile"}
    BY <1>3 DEF Reconcile
  <2>2. \A s \in Source \ Undomained :
            cyc.coverage[s] \in {"complete", "disabled"} => s \in cyc.observed
    BY <2>1, Names DEF CompleteIsObserved, At, Undomained
  <2>5. DOMAIN cyc.coverage = Collectors \union Check
    BY <2>1 DEF Inv, ObservedInv, Observes
  <2> SUFFICES ASSUME NEW c \in db.active \ db'.active
               PROVE  c \notin cyc.findings /\ \A s \in c : Testifies(s)
    OBVIOUS
  <2>3. c \notin cyc.findings /\ ResolutionSafe(c, cyc.coverage)
    BY <1>1, <1>3 DEF Reconcile, DbOK, CaughtUp, Resolved
  <2>4. c \subseteq Source /\ Source \ Undomained \subseteq DOMAIN cyc.coverage
    BY <1>1, <2>5, Names DEF DbOK, Collectors, Undomained
  <2>6. GloballySafe(cyc.coverage) => Source \ Undomained \subseteq cyc.observed
    BY <2>2, <2>4 DEF GloballySafe
  <2> QED
    BY <2>2, <2>3, <2>4, <2>6 DEF ResolutionSafe, Testifies
<1>4. CASE Examine \/ Persist("full") \/ Persist("reference") \/ Persist("volatile")
           \/ SaveManifest \/ ScanRuns \/ ScanCommits
  BY <1>1, <1>2, <1>4 DEF DbOK, Examine, Examined, Persist, SaveManifest, ScanRuns, ScanCommits
<1>5. CASE Change \/ Collect \/ Analyse \/ Complete \/ Fail \/ Restart \/ UNCHANGED vars
  BY <1>2, <1>5 DEF Change, Collect, Analyse, Complete, Fail, Restart, vars
<1> QED
  BY <1>3, <1>4, <1>5 DEF Next

(* An incident is resolved by absence only in a cycle that looked at all its  *)
(* sources and did not see it - where every warning of a collector is matched *)
(* by a pattern of its domain (coverage.py): on Windows, and on Debian        *)
(* without outbound connections and persistence.                              *)
THEOREM OnlyAbsenceResolves ==
    ASSUME EveryWarningIsMatched
    PROVE  Spec => OnlyObservedAbsenceResolves
<1>1. Init => CompleteIsObserved
  BY CompleteInit
<1>2. Inv /\ CompleteIsObserved /\ [Next]_vars => CompleteIsObserved'
  BY CompleteStepwise
<1>3. Inv /\ CompleteIsObserved /\ [Next]_vars =>
         [\A c \in db.active \ db'.active : c \notin cyc.findings /\ \A s \in c : Testifies(s)]_vars
  BY ResolvedStep
<1> QED
  BY <1>1, <1>2, <1>3, SpecInv, PTL DEF Spec, OnlyObservedAbsenceResolves

(* Where that is so. *)
LEMMA MatchedOnWindows ==
    ASSUME Platform = "windows" \/ Enabled \intersect {"outbound_connections", "persistence"} = {}
    PROVE  EveryWarningIsMatched
BY DEF EveryWarningIsMatched, MatchedBy, Outcome, Unread

-----------------------------------------------------------------------------
(* Orders and finite sets *)

(* What of a finite set precedes x *)
Below(S, R, x) == {y \in S : <<y, x>> \in R}

IsStrictOrder(S, R) ==
    /\ \A x \in S : <<x, x>> \notin R
    /\ \A x, y, z \in S : <<x, y>> \in R /\ <<y, z>> \in R => <<x, z>> \in R

IsTotal(S, R) == \A x, y \in S : x # y => <<x, y>> \in R \/ <<y, x>> \in R

(* Less is below what is greater. *)
LEMMA BelowGrows ==
    ASSUME NEW S, IsFiniteSet(S), NEW R, IsStrictOrder(S, R), NEW x \in S, NEW y \in S,
           <<y, x>> \in R
    PROVE  /\ Cardinality(Below(S, R, x)) \in Nat
           /\ Cardinality(Below(S, R, y)) \in Nat
           /\ Cardinality(Below(S, R, y)) < Cardinality(Below(S, R, x))
<1>1. Below(S, R, x) \subseteq S /\ Below(S, R, y) \subseteq Below(S, R, x)
  BY DEF Below, IsStrictOrder
<1>2. y \in Below(S, R, x) /\ y \notin Below(S, R, y)
  BY DEF Below, IsStrictOrder
<1>3. IsFiniteSet(Below(S, R, x))
  BY <1>1, FS_Subset
<1>4. /\ IsFiniteSet(Below(S, R, y))
      /\ Cardinality(Below(S, R, y)) <= Cardinality(Below(S, R, x))
      /\ Cardinality(Below(S, R, x)) = Cardinality(Below(S, R, y))
            => Below(S, R, x) = Below(S, R, y)
  BY <1>1, <1>3, FS_Subset
<1>5. Cardinality(Below(S, R, x)) \in Nat /\ Cardinality(Below(S, R, y)) \in Nat
  BY <1>3, <1>4, FS_CardinalityType
<1> QED
  BY <1>2, <1>4, <1>5

(* A finite set has a least element in every order. *)
LEMMA MinimalExists ==
    ASSUME NEW S, IsFiniteSet(S), S # {}, NEW R, IsStrictOrder(S, R)
    PROVE  \E x \in S : \A y \in S : <<y, x>> \notin R
<1> DEFINE N == {Cardinality(Below(S, R, x)) : x \in S}
<1>1. \A x \in S : Cardinality(Below(S, R, x)) \in Nat
  <2> TAKE x \in S
  <2>1. IsFiniteSet(Below(S, R, x))
    BY FS_Subset DEF Below
  <2> QED
    BY <2>1, FS_CardinalityType
<1>2. N \subseteq Nat /\ N # {}
  BY <1>1
<1>3. PICK m \in N : \A n \in N : ~ (<<n, m>> \in OpToRel(<, Nat))
  <2> HIDE DEF N
  <2> QED
    BY <1>2, NatLessThanWellFounded, WFMin, Zenon
<1>4. \A n \in N : ~ (n < m)
  BY <1>2, <1>3, Zenon DEF OpToRel
<1>5. PICK x \in S : m = Cardinality(Below(S, R, x))
  OBVIOUS
<1>6. \A y \in S : Cardinality(Below(S, R, y)) \in N
  OBVIOUS
<1>7. ASSUME NEW y \in S, <<y, x>> \in R PROVE FALSE
  <2> HIDE DEF N
  <2> QED
    BY <1>4, <1>5, <1>6, <1>7, BelowGrows
<1> QED
  BY <1>7

(* A finite set in a total order can be enumerated in it. *)
LEMMA SortedExists ==
    ASSUME NEW S, IsFiniteSet(S), NEW R, IsStrictOrder(S, R), IsTotal(S, R)
    PROVE  \E s \in [1..Cardinality(S) -> S] :
              \A i, j \in 1..Cardinality(S) : i < j => <<s[i], s[j]>> \in R
<1> DEFINE n == Cardinality(S)
           below(x) == Below(S, R, x)
           pos == [x \in S |-> Cardinality(below(x)) + 1]
<1>1. n \in Nat
  BY FS_CardinalityType
<1>2. ASSUME NEW x \in S PROVE Cardinality(below(x)) \in 0..(n - 1)
  <2>1. below(x) \subseteq S /\ x \notin below(x)
    BY DEF Below, IsStrictOrder
  <2>2. /\ IsFiniteSet(below(x)) /\ Cardinality(below(x)) <= n
        /\ n = Cardinality(below(x)) => S = below(x)
    BY <2>1, FS_Subset
  <2>3. Cardinality(below(x)) \in Nat
    BY <2>2, FS_CardinalityType
  <2> QED
    BY <1>1, <2>1, <2>2, <2>3
<1>3. pos \in [S -> 1..n]
  <2>1. ASSUME NEW x \in S PROVE Cardinality(below(x)) + 1 \in 1..n
    <3> HIDE DEF n, below
    <3> QED
      BY <1>1, <1>2
  <2> QED
    BY <2>1
<1>4. ASSUME NEW x \in S, NEW y \in S, <<y, x>> \in R PROVE pos[y] < pos[x]
  <2>1. /\ Cardinality(below(x)) \in Nat /\ Cardinality(below(y)) \in Nat
        /\ Cardinality(below(y)) < Cardinality(below(x))
    BY <1>4, BelowGrows
  <2> HIDE DEF below
  <2> QED
    BY <2>1
<1> HIDE DEF pos
<1>5. pos \in Injection(S, 1..n)
  <2>1. ASSUME NEW x \in S, NEW y \in S, x # y PROVE pos[x] # pos[y]
    <3>1. <<x, y>> \in R \/ <<y, x>> \in R
      BY <2>1 DEF IsTotal
    <3>2. pos[x] \in Nat /\ pos[y] \in Nat
      BY <1>1, <1>3
    <3> QED
      BY <1>4, <3>1, <3>2
  <2> QED
    BY <1>3, <2>1 DEF Injection, IsInjective
<1>6. IsFiniteSet(1..n) /\ Cardinality(1..n) = n
  BY <1>1, FS_Interval
<1>7. pos \in Surjection(S, 1..n)
  BY <1>5, <1>6, FS_Injection
<1>8. \A i \in 1..n : \E x \in S : pos[x] = i
  BY <1>7 DEF Surjection
<1> DEFINE s == [i \in 1..n |-> CHOOSE x \in S : pos[x] = i]
<1>9. \A i \in 1..n : s[i] \in S /\ pos[s[i]] = i
  BY <1>8
<1>10. s \in [1..n -> S]
  BY <1>9
<1>11. ASSUME NEW i \in 1..n, NEW j \in 1..n, i < j PROVE <<s[i], s[j]>> \in R
  <2> HIDE DEF s
  <2>1. s[i] # s[j]
    BY <1>1, <1>9, <1>11
  <2>2. <<s[i], s[j]>> \in R \/ <<s[j], s[i]>> \in R
    BY <1>9, <2>1 DEF IsTotal
  <2>3. <<s[j], s[i]>> \in R => j < i
    BY <1>4, <1>9
  <2> QED
    BY <1>1, <1>11, <2>2, <2>3
<1> QED
  BY <1>10, <1>11

(* A finite set of numbers has a greatest and a least one. *)
LEMMA MaxIsGreatest ==
    ASSUME NEW S \in SUBSET Int, IsFiniteSet(S), S # {}
    PROVE  /\ Max(S) \in S /\ \A y \in S : y <= Max(S)
           /\ Min(S) \in S /\ \A y \in S : Min(S) <= y
<1> DEFINE less == {p \in S \X S : p[1] < p[2]}
           more == {p \in S \X S : p[1] > p[2]}
<1>1. \A x, y \in S : (<<x, y>> \in less <=> x < y) /\ (<<x, y>> \in more <=> x > y)
  OBVIOUS
<1> HIDE DEF less, more
<1>2. IsStrictOrder(S, less) /\ IsStrictOrder(S, more)
  <2>1. ASSUME NEW x \in S, NEW y \in S, NEW z \in S
        PROVE  /\ <<x, x>> \notin less /\ <<x, x>> \notin more
               /\ <<x, y>> \in less /\ <<y, z>> \in less => <<x, z>> \in less
               /\ <<x, y>> \in more /\ <<y, z>> \in more => <<x, z>> \in more
    BY <1>1
  <2> QED
    BY <2>1 DEF IsStrictOrder
<1>3. \E x \in S : \A y \in S : x >= y
  <2>1. PICK x \in S : \A y \in S : <<y, x>> \notin more
    BY <1>2, MinimalExists
  <2>2. \A y \in S : ~(y > x)
    BY <1>1, <2>1
  <2>3. ASSUME NEW y \in S PROVE x >= y
    <3>1. x \in Int /\ y \in Int /\ ~(y > x)
      BY <2>2
    <3> QED
      BY <3>1
  <2> QED
    BY <2>3
<1>4. \E x \in S : \A y \in S : x =< y
  <2>1. PICK x \in S : \A y \in S : <<y, x>> \notin less
    BY <1>2, MinimalExists
  <2>2. \A y \in S : ~(y < x)
    BY <1>1, <2>1
  <2>3. ASSUME NEW y \in S PROVE x =< y
    <3>1. x \in Int /\ y \in Int /\ ~(y < x)
      BY <2>2
    <3> QED
      BY <3>1
  <2> QED
    BY <2>3
<1>5. Max(S) \in S /\ \A y \in S : Max(S) >= y
  BY <1>3 DEF Max
<1>6. Min(S) \in S /\ \A y \in S : Min(S) =< y
  BY <1>4 DEF Min
<1> QED
  BY <1>5, <1>6

(* A function of a finite set takes finitely many values. *)
LEMMA ImageIsFinite ==
    ASSUME NEW S, IsFiniteSet(S), NEW f
    PROVE  IsFiniteSet({f[x] : x \in S})
<1> DEFINE g == [x \in S |-> f[x]]
<1>1. g \in Surjection(S, {f[x] : x \in S})
  BY DEF Surjection
<1> QED
  BY <1>1, FS_Surjection

-----------------------------------------------------------------------------
(* Events *)

TimedEvent == UNION {{EventOf(s, time) : s \in Shape} : time \in Nat}

(* An event has what its shape has, and a time. *)
LEMMA EventHasItsShape ==
    ASSUME NEW s \in Shape, NEW time
    PROVE  LET e == EventOf(s, time) IN
           /\ e.time = time /\ e.id = s.id /\ e.kind = s.kind /\ e.subject = s.subject
           /\ e.confidence = s.confidence /\ e.flags = s.flags /\ e.markers = s.markers
           /\ e.failed = s.failed /\ e.sourceFailed = s.sourceFailed
           /\ e.accounts = s.accounts /\ e.cvss = s.cvss /\ e.deviation = s.deviation
BY AnalysisAssumption DEF EventOf

LEMMA EventIsTyped ==
    ASSUME NEW e \in TimedEvent
    PROVE  /\ e.time \in Nat /\ e.id \in DOMAIN Rank /\ Rank[e.id] \in Nat
           /\ e.kind \in DOMAIN Weight /\ Weight[e.kind] \in Nat
           /\ e.subject \in Subjects(Shape)
           /\ e.flags \subseteq DOMAIN FlagBonus /\ IsFiniteSet(e.flags)
           /\ e.markers \subseteq DOMAIN MarkerBonus /\ IsFiniteSet(e.markers)
           /\ e.confidence \in Nat /\ e.failed \in Nat /\ e.sourceFailed \in Nat
           /\ e.accounts \in Nat /\ e.cvss \in Nat /\ e.deviation \in Nat
<1>1. PICK s \in Shape, time \in Nat : e = EventOf(s, time)
  BY DEF TimedEvent
<1>2. /\ s.id \in DOMAIN Rank /\ s.kind \in DOMAIN Weight
      /\ s.flags \subseteq DOMAIN FlagBonus /\ s.markers \subseteq DOMAIN MarkerBonus
      /\ IsFiniteSet(s.flags) /\ IsFiniteSet(s.markers)
      /\ {s.confidence, s.failed, s.sourceFailed, s.accounts, s.cvss, s.deviation} \subseteq Nat
  BY AnalysisAssumption
<1>3. s.subject \in Subjects(Shape)
  BY DEF Subjects
<1> QED
  BY <1>1, <1>2, <1>3, EventHasItsShape, CorrelationAssumption

(* The order of events is total: no two have the same time and id. *)
LEMMA EventsAreOrdered ==
    ASSUME NEW x \in TimedEvent, NEW y \in TimedEvent
    PROVE  /\ x # y => Before(x, y) \/ Before(y, x)
           /\ ~(Before(x, y) /\ Before(y, x)) /\ ~Before(x, x)
           /\ ~Before(y, x) => x.time <= y.time
<1>1. PICK s \in Shape, time \in Nat : x = EventOf(s, time)
  BY DEF TimedEvent
<1>2. PICK o \in Shape, later \in Nat : y = EventOf(o, later)
  BY DEF TimedEvent
<1>3. x.time = time /\ x.id = s.id /\ y.time = later /\ y.id = o.id
  BY <1>1, <1>2, EventHasItsShape
<1>4. x # y => x.time # y.time \/ x.id # y.id
  BY <1>1, <1>2, <1>3, AnalysisAssumption
<1>5. x.id # y.id => Rank[x.id] # Rank[y.id]
  BY EventIsTyped, CorrelationAssumption
<1>6. x.time \in Nat /\ y.time \in Nat /\ Rank[x.id] \in Nat /\ Rank[y.id] \in Nat
  BY EventIsTyped
<1> QED
  BY <1>4, <1>5, <1>6 DEF Before

LEMMA BeforeIsTransitive ==
    ASSUME NEW x \in TimedEvent, NEW y \in TimedEvent, NEW z \in TimedEvent,
           Before(x, y), Before(y, z)
    PROVE  Before(x, z)
<1>1. /\ x.time \in Nat /\ y.time \in Nat /\ z.time \in Nat
      /\ Rank[x.id] \in Nat /\ Rank[y.id] \in Nat /\ Rank[z.id] \in Nat
  BY EventIsTyped
<1> QED
  BY <1>1 DEF Before

Earlier == {p \in TimedEvent \X TimedEvent : Before(p[1], p[2])}

LEMMA EarlierIsATotalOrder ==
    ASSUME NEW S \in SUBSET TimedEvent
    PROVE  /\ IsStrictOrder(S, Earlier) /\ IsTotal(S, Earlier)
           /\ \A x, y \in S : <<x, y>> \in Earlier <=> Before(x, y)
<1>1. \A x, y \in S : <<x, y>> \in Earlier <=> Before(x, y)
  BY DEF Earlier
<1>2. ASSUME NEW x \in S, NEW y \in S, NEW z \in S
      PROVE  /\ ~Before(x, x)
             /\ x # y => Before(x, y) \/ Before(y, x)
             /\ Before(x, y) /\ Before(y, z) => Before(x, z)
  BY EventsAreOrdered, BeforeIsTransitive
<1> QED
  BY <1>1, <1>2 DEF IsStrictOrder, IsTotal

(* The order in which the window takes up events is an order of just these. *)
LEMMA OrderedEnumerates ==
    ASSUME NEW S \in SUBSET TimedEvent, IsFiniteSet(S)
    PROVE  /\ Ordered(S) \in [1..Cardinality(S) -> S]
           /\ Cardinality(S) \in Nat /\ Ordered(S) \in Seq(S) /\ Len(Ordered(S)) = Cardinality(S)
<1>1. \E s \in [1..Cardinality(S) -> S] :
         \A i, j \in 1..Cardinality(S) : i < j => <<s[i], s[j]>> \in Earlier
  BY EarlierIsATotalOrder, SortedExists
<1>2. \E s \in [1..Cardinality(S) -> S] :
         \A i, j \in 1..Cardinality(S) : i < j => Before(s[i], s[j])
  BY <1>1, EarlierIsATotalOrder
<1>3. Ordered(S) \in [1..Cardinality(S) -> S]
  BY <1>2 DEF Ordered
<1>4. Cardinality(S) \in Nat
  BY FS_CardinalityType
<1> QED
  BY <1>3, <1>4

-----------------------------------------------------------------------------
(* The window and the past *)

Suffix(p, k) == SubSeq(p, k + 1, Len(p))

LEMMA SuffixIsRest ==
    ASSUME NEW S, NEW p \in Seq(S), NEW k \in 0..Len(p)
    PROVE  /\ Suffix(p, k) \in Seq(S) /\ Len(Suffix(p, k)) = Len(p) - k
           /\ \A i \in 1..(Len(p) - k) : Suffix(p, k)[i] = p[i + k]
BY DEF Suffix

LEMMA SameSequence ==
    ASSUME NEW S, NEW p \in Seq(S), NEW q \in Seq(S), NEW n \in Nat, Len(p) = n, Len(q) = n,
           \A i \in 1..n : p[i] = q[i]
    PROVE  p = q
OBVIOUS

LEMMA SuffixOfSuffix ==
    ASSUME NEW S, NEW p \in Seq(S), NEW k \in 0..Len(p), NEW j \in 0..(Len(p) - k)
    PROVE  Suffix(Suffix(p, k), j) = Suffix(p, k + j)
<1> DEFINE q == Suffix(p, k)
           n == Len(p) - k - j
<1>1. q \in Seq(S) /\ Len(q) = Len(p) - k /\ \A i \in 1..(Len(p) - k) : q[i] = p[i + k]
  BY SuffixIsRest
<1>n. /\ n \in Nat /\ k + j \in 0..Len(p) /\ Len(p) - (k + j) = n /\ Len(p) - k - j = n
      /\ \A i \in 1..n : i + j \in 1..(Len(p) - k) /\ (i + j) + k = i + (k + j)
  OBVIOUS
<1> HIDE DEF q, n
<1>2. j \in 0..Len(q) /\ Len(q) - j = n
  BY <1>1, <1>n
<1>3. /\ Suffix(q, j) \in Seq(S) /\ Len(Suffix(q, j)) = n
      /\ \A i \in 1..n : Suffix(q, j)[i] = q[i + j]
  BY <1>1, <1>2, SuffixIsRest
<1>4. /\ Suffix(p, k + j) \in Seq(S) /\ Len(Suffix(p, k + j)) = n
      /\ \A i \in 1..n : Suffix(p, k + j)[i] = p[i + (k + j)]
  BY <1>n, SuffixIsRest
<1>5. \A i \in 1..n : Suffix(q, j)[i] = Suffix(p, k + j)[i]
  BY <1>1, <1>3, <1>4, <1>n
<1>6. Suffix(q, j) = Suffix(p, k + j)
  BY <1>3, <1>4, <1>5, <1>n, SameSequence
<1> QED
  BY <1>6 DEF q

LEMMA ConcatIsBoth ==
    ASSUME NEW S, NEW p \in Seq(S), NEW o \in Seq(S)
    PROVE  /\ p \o o \in Seq(S) /\ Len(p \o o) = Len(p) + Len(o)
           /\ \A i \in 1..(Len(p) + Len(o)) :
                 (p \o o)[i] = IF i <= Len(p) THEN p[i] ELSE o[i - Len(p)]
OBVIOUS

LEMMA SuffixOfConcat ==
    ASSUME NEW S, NEW p \in Seq(S), NEW o \in Seq(S), NEW k \in 0..Len(p)
    PROVE  Suffix(p, k) \o o = Suffix(p \o o, k)
<1> DEFINE q == Suffix(p, k)
           r == p \o o
           n == Len(p) + Len(o) - k
<1>1. q \in Seq(S) /\ Len(q) = Len(p) - k /\ \A i \in 1..(Len(p) - k) : q[i] = p[i + k]
  BY SuffixIsRest
<1>2. /\ r \in Seq(S) /\ Len(r) = Len(p) + Len(o)
      /\ \A i \in 1..(Len(p) + Len(o)) : r[i] = IF i <= Len(p) THEN p[i] ELSE o[i - Len(p)]
  BY ConcatIsBoth
<1>n. n \in Nat /\ k \in 0..(Len(p) + Len(o)) /\ Len(p) + Len(o) - k = n /\ Len(p) - k + Len(o) = n
  OBVIOUS
<1>i. ASSUME NEW i \in 1..n
      PROVE  /\ i + k \in 1..(Len(p) + Len(o))
             /\ i <= Len(p) - k => i \in 1..(Len(p) - k)
             /\ i + k <= Len(p) <=> i <= Len(p) - k
             /\ i - (Len(p) - k) = i + k - Len(p)
  OBVIOUS
<1> HIDE DEF q, r, n
<1>3. /\ Suffix(r, k) \in Seq(S) /\ Len(Suffix(r, k)) = n
      /\ \A i \in 1..n : Suffix(r, k)[i] = r[i + k]
  <2>1. k \in 0..Len(r) /\ Len(r) - k = n
    BY <1>2, <1>n
  <2> QED
    BY <1>2, <2>1, SuffixIsRest
<1>4. /\ q \o o \in Seq(S) /\ Len(q \o o) = n
      /\ \A i \in 1..n : (q \o o)[i] = IF i <= Len(p) - k THEN q[i] ELSE o[i - (Len(p) - k)]
  <2>1. Len(q) + Len(o) = n
    BY <1>1, <1>n
  <2>2. /\ q \o o \in Seq(S) /\ Len(q \o o) = Len(q) + Len(o)
        /\ \A i \in 1..(Len(q) + Len(o)) :
              (q \o o)[i] = IF i <= Len(q) THEN q[i] ELSE o[i - Len(q)]
    BY <1>1, ConcatIsBoth
  <2> QED
    BY <1>1, <2>1, <2>2
<1>5. ASSUME NEW i \in 1..n PROVE (q \o o)[i] = Suffix(r, k)[i]
  <2>1. /\ (q \o o)[i] = IF i <= Len(p) - k THEN q[i] ELSE o[i - (Len(p) - k)]
        /\ Suffix(r, k)[i] = IF i + k <= Len(p) THEN p[i + k] ELSE o[i + k - Len(p)]
    BY <1>2, <1>3, <1>4, <1>i
  <2> QED
    BY <1>1, <1>i, <2>1
<1>6. q \o o = Suffix(r, k)
  BY <1>3, <1>4, <1>5, <1>n, SameSequence
<1> QED
  BY <1>6 DEF q, r

(* The deque keeps a suffix of at most n. *)
LEMMA LastOfIsSuffix ==
    ASSUME NEW S, NEW p \in Seq(S), NEW n \in Nat
    PROVE  /\ LastOf(p, n) = Suffix(p, Greatest(0, Len(p) - n))
           /\ Greatest(0, Len(p) - n) \in 0..Len(p)
<1>1. Greatest(1, Len(p) - n + 1) = Greatest(0, Len(p) - n) + 1
  BY DEF Greatest
<1> QED
  BY <1>1 DEF LastOf, Suffix, Greatest

(* What _prune drops is too old. *)
LEMMA PrunedIsSuffix ==
    ASSUME NEW w \in Seq(TimedEvent), NEW time \in Nat
    PROVE  \E k \in 0..Len(w) : /\ Pruned(w, time) = Suffix(w, k)
                                /\ \A i \in 1..k : w[i].time < time - ContextWindow
<1> DEFINE kept == {i \in 1..Len(w) : w[i].time >= time - ContextWindow}
<1>1. ContextWindow \in Nat
  BY AnalysisAssumption
<1>2. \A i \in 1..Len(w) : w[i] \in TimedEvent /\ w[i].time \in Nat
  BY EventIsTyped
<1>3. CASE kept = {}
  <2>1. Pruned(w, time) = <<>>
    BY <1>3 DEF Pruned
  <2>2. Suffix(w, Len(w)) = <<>>
    BY DEF Suffix
  <2>3. \A i \in 1..Len(w) : w[i].time < time - ContextWindow
    BY <1>1, <1>2, <1>3
  <2>4. Len(w) \in 0..Len(w)
    OBVIOUS
  <2> QED
    BY <2>1, <2>2, <2>3, <2>4
<1>4. CASE kept # {}
  <2>1. kept \subseteq Int /\ IsFiniteSet(kept)
    <3>1. IsFiniteSet(1..Len(w))
      BY FS_Interval
    <3> QED
      BY <3>1, FS_Subset
  <2>2. Min(kept) \in kept /\ \A i \in kept : Min(kept) <= i
    <3> HIDE DEF kept
    <3> QED
      BY <1>4, <2>1, MaxIsGreatest
  <2>3. Pruned(w, time) = SubSeq(w, Min(kept), Len(w))
    BY <1>4 DEF Pruned
  <2> DEFINE k == Min(kept) - 1
  <2>4. k \in 0..Len(w) /\ k + 1 = Min(kept)
    BY <2>2
  <2>5. \A i \in 1..k : i \in 1..Len(w) /\ i \notin kept
    <3> HIDE DEF kept
    <3> QED
      BY <2>2, <2>4
  <2>6. \A i \in 1..k : w[i].time < time - ContextWindow
    BY <1>1, <1>2, <2>5
  <2>7. Pruned(w, time) = Suffix(w, k)
    BY <2>3, <2>4 DEF Suffix
  <2> HIDE DEF k
  <2> QED
    BY <2>4, <2>6, <2>7
<1> QED
  BY <1>3, <1>4

-----------------------------------------------------------------------------
(* The invariant of the context *)

AnalysisTyped ==
    /\ clock \in Nat
    /\ batch \in [pc : {"idle", "collected", "analysed"}, events : SUBSET TimedEvent]
    /\ IsFiniteSet(batch.events)
    /\ batch.pc # "idle" => batch.events # {}
    /\ \A e \in batch.events : e.time <= clock
    /\ window \in Seq(TimedEvent) /\ past \in Seq(TimedEvent)

(* The window is the past without the oldest part, which is too old for what *)
(* happens now.                                                              *)
WindowOfPast(w, p, now) ==
    \E k \in 0..Len(p) : /\ w = Suffix(p, k)
                         /\ \A i \in 1..k : p[i].time < now - ContextWindow

WindowIsOfPast == WindowOfPast(window, past, clock)

AnalysisInv == AnalysisTyped /\ WindowIsOfPast

LEMMA NewestIsATime ==
    ASSUME NEW S \in SUBSET TimedEvent, IsFiniteSet(S), S # {}, NEW now \in Nat,
           \A e \in S : e.time <= now
    PROVE  Newest(S) \in 0..now
<1> DEFINE T == {e.time : e \in S}
<1>1. T \subseteq Int /\ T # {} /\ \A time \in T : time \in 0..now
  BY EventIsTyped
<1>2. IsFiniteSet(T)
  <2> DEFINE f == [e \in S |-> e.time]
  <2>1. T = {f[e] : e \in S}
    OBVIOUS
  <2> HIDE DEF f
  <2> QED
    BY <2>1, ImageIsFinite
<1>3. Max(T) \in T
  <2> HIDE DEF T
  <2> QED
    BY <1>1, <1>2, MaxIsGreatest
<1> QED
  BY <1>1, <1>3 DEF Newest

(* What a cycle or a file brings *)
LEMMA BroughtEvents ==
    ASSUME NEW n \in Nat \ {0}, NEW shapes \in kSubset(n, Shape), NEW now \in Nat,
           NEW times \in [shapes -> 0..now]
    PROVE  LET events == {EventOf(s, times[s]) : s \in shapes} IN
           /\ events \subseteq TimedEvent /\ IsFiniteSet(events) /\ events # {}
           /\ \A e \in events : e.time <= now
<1> DEFINE events == {EventOf(s, times[s]) : s \in shapes}
<1>1. shapes \subseteq Shape /\ Cardinality(shapes) = n
  BY DEF kSubset
<1>2. IsFiniteSet(shapes)
  BY <1>1, FS_Subset, AnalysisAssumption
<1>3. shapes # {}
  BY <1>1, <1>2, FS_EmptySet
<1>4. ASSUME NEW s \in shapes
      PROVE  EventOf(s, times[s]) \in TimedEvent /\ EventOf(s, times[s]).time <= now
  <2>1. times[s] \in 0..now /\ s \in Shape
    BY <1>1
  <2> QED
    BY <2>1, EventHasItsShape DEF TimedEvent
<1>5. IsFiniteSet(events)
  <2> DEFINE f == [s \in shapes |-> EventOf(s, times[s])]
  <2>1. events = {f[s] : s \in shapes}
    OBVIOUS
  <2> HIDE DEF f
  <2>2. IsFiniteSet({f[s] : s \in shapes})
    BY <1>2, ImageIsFinite
  <2> QED
    BY <2>1, <2>2
<1> QED
  BY <1>3, <1>4, <1>5

(* Time only makes what is too old older. *)
LEMMA WindowAges ==
    ASSUME NEW w \in Seq(TimedEvent), NEW p \in Seq(TimedEvent), NEW now \in Nat, NEW later \in Nat,
           now <= later, WindowOfPast(w, p, now)
    PROVE  WindowOfPast(w, p, later)
<1>1. PICK k \in 0..Len(p) : /\ w = Suffix(p, k)
                             /\ \A i \in 1..k : p[i].time < now - ContextWindow
  BY DEF WindowOfPast
<1>2. ASSUME NEW i \in 1..k PROVE p[i].time < later - ContextWindow
  <2>1. i \in 1..Len(p) /\ p[i] \in TimedEvent
    OBVIOUS
  <2>2. p[i].time \in Nat /\ ContextWindow \in Nat
    BY <2>1, EventIsTyped, AnalysisAssumption
  <2>3. p[i].time < now - ContextWindow
    BY <1>1
  <2> QED
    BY <2>2, <2>3
<1> QED
  BY <1>1, <1>2 DEF WindowOfPast

LEMMA WindowIsPruned ==
    ASSUME NEW w \in Seq(TimedEvent), NEW p \in Seq(TimedEvent), NEW now \in Nat,
           WindowOfPast(w, p, now), NEW time \in 0..now
    PROVE  Pruned(w, time) \in Seq(TimedEvent) /\ WindowOfPast(Pruned(w, time), p, now)
<1>1. PICK k \in 0..Len(p) : /\ w = Suffix(p, k)
                             /\ \A i \in 1..k : p[i].time < now - ContextWindow
  BY DEF WindowOfPast
<1>2. Len(w) = Len(p) - k /\ \A i \in 1..(Len(p) - k) : w[i] = p[i + k]
  BY <1>1, SuffixIsRest
<1>3. PICK j \in 0..Len(w) : /\ Pruned(w, time) = Suffix(w, j)
                             /\ \A i \in 1..j : w[i].time < time - ContextWindow
  <2>1. time \in Nat
    OBVIOUS
  <2> QED
    BY <2>1, PrunedIsSuffix
<1>4. j \in 0..(Len(p) - k) /\ k + j \in 0..Len(p)
  BY <1>2
<1>5. Pruned(w, time) = Suffix(p, k + j)
  BY <1>1, <1>3, <1>4, SuffixOfSuffix
<1>6. Pruned(w, time) \in Seq(TimedEvent)
  BY <1>4, <1>5, SuffixIsRest
<1>7. ASSUME NEW i \in 1..(k + j) PROVE p[i].time < now - ContextWindow
  <2>1. CASE i <= k
    BY <1>1, <2>1
  <2>2. CASE i > k
    <3>1. i - k \in 1..j /\ i - k \in 1..(Len(p) - k) /\ (i - k) + k = i /\ i \in 1..Len(p)
      BY <1>4, <2>2
    <3>2. p[i].time < time - ContextWindow
      BY <1>2, <1>3, <3>1
    <3>3. p[i].time \in Nat /\ ContextWindow \in Nat
      BY <3>1, EventIsTyped, AnalysisAssumption
    <3> QED
      BY <3>2, <3>3
  <2> QED
    BY <2>1, <2>2
<1> QED
  BY <1>4, <1>5, <1>6, <1>7 DEF WindowOfPast

(* Both take up the same events and forget the oldest. *)
LEMMA WindowTakesUp ==
    ASSUME NEW w \in Seq(TimedEvent), NEW p \in Seq(TimedEvent), NEW o \in Seq(TimedEvent), NEW now,
           WindowOfPast(w, p, now), NEW n \in Nat
    PROVE  /\ LastOf(w \o o, n) \in Seq(TimedEvent) /\ LastOf(p \o o, n) \in Seq(TimedEvent)
           /\ WindowOfPast(LastOf(w \o o, n), LastOf(p \o o, n), now)
<1> DEFINE q == p \o o
<1>1. PICK k \in 0..Len(p) : /\ w = Suffix(p, k)
                             /\ \A i \in 1..k : p[i].time < now - ContextWindow
  BY DEF WindowOfPast
<1>2. /\ q \in Seq(TimedEvent) /\ Len(q) = Len(p) + Len(o) /\ k \in 0..Len(q)
      /\ \A i \in 1..k : q[i] = p[i]
  <2>1. \A i \in 1..(Len(p) + Len(o)) : q[i] = IF i <= Len(p) THEN p[i] ELSE o[i - Len(p)]
    BY ConcatIsBoth
  <2> QED
    BY <2>1, ConcatIsBoth
<1>3. w \o o = Suffix(q, k)
  BY <1>1, SuffixOfConcat
<1> HIDE DEF q
<1>4. w \o o \in Seq(TimedEvent) /\ Len(w \o o) = Len(q) - k
  BY <1>2, <1>3, SuffixIsRest
<1> DEFINE a == Greatest(0, Len(q) - n)
           b == Greatest(0, Len(q) - k - n)
<1>5. LastOf(q, n) = Suffix(q, a) /\ a \in 0..Len(q)
  BY <1>2, LastOfIsSuffix
<1>6. LastOf(w \o o, n) = Suffix(w \o o, b) /\ b \in 0..(Len(q) - k)
  BY <1>4, LastOfIsSuffix
<1>7. a \in Nat /\ b \in Nat /\ a <= k + b /\ (k + b - a = 0 \/ k + b = k) /\ k + b \in 0..Len(q)
  BY <1>2, <1>6 DEF Greatest
<1> HIDE DEF a, b
<1>8. LastOf(w \o o, n) = Suffix(q, k + b)
  BY <1>2, <1>3, <1>6, SuffixOfSuffix
<1>9. /\ LastOf(q, n) \in Seq(TimedEvent) /\ Len(LastOf(q, n)) = Len(q) - a
      /\ \A i \in 1..(Len(q) - a) : LastOf(q, n)[i] = q[i + a]
  BY <1>2, <1>5, SuffixIsRest
<1>10. LastOf(w \o o, n) \in Seq(TimedEvent)
  BY <1>2, <1>7, <1>8, SuffixIsRest
<1> DEFINE m == k + b - a
<1>11. m \in 0..(Len(q) - a) /\ a + m = k + b
  BY <1>5, <1>7
<1>12. LastOf(w \o o, n) = Suffix(LastOf(q, n), m)
  <2>1. Suffix(Suffix(q, a), m) = Suffix(q, a + m)
    BY <1>2, <1>5, <1>11, SuffixOfSuffix
  <2> QED
    BY <1>5, <1>8, <1>11, <2>1
<1>13. ASSUME NEW i \in 1..m PROVE LastOf(q, n)[i].time < now - ContextWindow
  <2>1. i + a \in 1..k /\ i \in 1..(Len(q) - a)
    BY <1>2, <1>5, <1>7, <1>11
  <2> QED
    BY <1>1, <1>2, <1>9, <2>1
<1>14. m \in 0..Len(LastOf(q, n))
  BY <1>9, <1>11
<1>15. WindowOfPast(LastOf(w \o o, n), LastOf(q, n), now)
  <2> HIDE DEF m
  <2> QED
    BY <1>12, <1>13, <1>14 DEF WindowOfPast
<1> QED
  BY <1>9, <1>10, <1>15 DEF q

LEMMA EmptyWindow ==
    ASSUME NEW now
    PROVE  WindowOfPast(<<>>, <<>>, now)
BY DEF WindowOfPast, Suffix

LEMMA AnalysisInvInit == AnalysisInit => AnalysisInv
<1> SUFFICES ASSUME AnalysisInit PROVE AnalysisInv
  OBVIOUS
<1>1. AnalysisTyped
  BY FS_EmptySet DEF AnalysisInit, AnalysisTyped, Idle
<1>2. WindowIsOfPast
  BY EmptyWindow DEF AnalysisInit, WindowIsOfPast
<1> QED
  BY <1>1, <1>2 DEF AnalysisInv

LEMMA AnalysisInvNext == AnalysisInv /\ [AnalysisNext]_analysisVars => AnalysisInv'
<1> SUFFICES ASSUME AnalysisInv, [AnalysisNext]_analysisVars PROVE AnalysisInv'
  OBVIOUS
<1> USE DEF AnalysisInv
<1>t. AnalysisTyped
  OBVIOUS
<1>w. WindowOfPast(window, past, clock)
  BY DEF WindowIsOfPast
<1>1. CASE AnalyseFile
  <2>0. PICK n \in 1..MaxFile : \E shapes \in kSubset(n, Shape) :
           \E times \in [shapes -> 0..MaxTime] :
              batch' = [pc |-> "analysed", events |-> {EventOf(s, times[s]) : s \in shapes}]
    BY <1>1 DEF AnalyseFile
  <2>s. PICK shapes \in kSubset(n, Shape) : \E times \in [shapes -> 0..MaxTime] :
           batch' = [pc |-> "analysed", events |-> {EventOf(s, times[s]) : s \in shapes}]
    BY <2>0
  <2>1. PICK times \in [shapes -> 0..MaxTime] :
           batch' = [pc |-> "analysed", events |-> {EventOf(s, times[s]) : s \in shapes}]
    BY <2>s
  <2>2. /\ MaxTime \in Nat /\ n \in Nat \ {0} /\ clock' = MaxTime /\ clock = 0
        /\ UNCHANGED <<window, past>>
    BY <1>1, AnalysisAssumption DEF AnalyseFile
  <2> DEFINE events == {EventOf(s, times[s]) : s \in shapes}
  <2>3. /\ events \subseteq TimedEvent /\ IsFiniteSet(events) /\ events # {}
        /\ \A e \in events : e.time <= MaxTime
    BY <2>2, BroughtEvents
  <2>4. AnalysisTyped'
    BY <1>t, <2>1, <2>2, <2>3 DEF AnalysisTyped
  <2>5. WindowOfPast(window, past, clock')
    BY <1>t, <1>w, <2>2, WindowAges DEF AnalysisTyped
  <2> QED
    BY <2>2, <2>4, <2>5 DEF WindowIsOfPast
<1>2. CASE Begin
  <2>1. /\ clock' \in (clock + 1)..MaxTime /\ UNCHANGED <<window, past>>
        /\ clock \in Nat /\ MaxTime \in Nat
    BY <1>2, <1>t, AnalysisAssumption DEF Begin, AnalysisTyped
  <2>s. PICK shapes \in UNION {kSubset(n, Shape) : n \in 1..MaxBatch} :
           \E times \in [shapes -> 0..clock'] :
              batch' = [pc |-> "collected", events |-> {EventOf(s, times[s]) : s \in shapes}]
    BY <1>2, Zenon DEF Begin
  <2>0. PICK n \in 1..MaxBatch : shapes \in kSubset(n, Shape)
    OBVIOUS
  <2>2. PICK times \in [shapes -> 0..clock'] :
           batch' = [pc |-> "collected", events |-> {EventOf(s, times[s]) : s \in shapes}]
    BY <2>s
  <2>3. clock' \in Nat /\ clock <= clock' /\ n \in Nat \ {0}
    BY <2>1, AnalysisAssumption
  <2> DEFINE events == {EventOf(s, times[s]) : s \in shapes}
  <2>4. /\ events \subseteq TimedEvent /\ IsFiniteSet(events) /\ events # {}
        /\ \A e \in events : e.time <= clock'
    BY <2>3, BroughtEvents
  <2>5. AnalysisTyped'
    BY <1>t, <2>1, <2>2, <2>3, <2>4 DEF AnalysisTyped
  <2>6. WindowOfPast(window, past, clock')
    BY <1>t, <1>w, <2>1, <2>3, WindowAges DEF AnalysisTyped
  <2> QED
    BY <2>1, <2>5, <2>6 DEF WindowIsOfPast
<1>3. CASE Enrich
  <2>1. /\ batch.pc = "collected" /\ batch' = [batch EXCEPT !.pc = "analysed"]
        /\ window' = Pruned(window, Newest(batch.events)) /\ UNCHANGED <<clock, past>>
    BY <1>3 DEF Enrich, BatchIs
  <2>2. Newest(batch.events) \in 0..clock
    BY <1>t, <2>1, NewestIsATime DEF AnalysisTyped
  <2>3. window' \in Seq(TimedEvent) /\ WindowOfPast(window', past, clock)
    BY <1>t, <1>w, <2>1, <2>2, WindowIsPruned DEF AnalysisTyped
  <2>4. AnalysisTyped'
    BY <1>t, <2>1, <2>3 DEF AnalysisTyped
  <2> QED
    BY <2>1, <2>3, <2>4 DEF WindowIsOfPast
<1>4. CASE Commit
  <2> DEFINE pruned == Pruned(window, Newest(batch.events))
             new == Ordered(batch.events)
  <2>1. /\ batch.pc = "analysed" /\ batch' = Idle /\ UNCHANGED clock
        /\ window' = Taken(window, batch.events) /\ past' = LastOf(past \o new, MaxContext)
    BY <1>4 DEF Commit, BatchIs
  <2>2. batch.events # {} /\ window' = LastOf(pruned \o new, MaxContext)
    BY <1>t, <2>1 DEF Taken, AnalysisTyped
  <2>3. new \in Seq(TimedEvent)
    <3>1. new \in Seq(batch.events) /\ batch.events \subseteq TimedEvent
      BY <1>t, OrderedEnumerates DEF AnalysisTyped
    <3> HIDE DEF new
    <3> QED
      BY <3>1
  <2>4. Newest(batch.events) \in 0..clock
    BY <1>t, <2>2, NewestIsATime DEF AnalysisTyped
  <2>5. pruned \in Seq(TimedEvent) /\ WindowOfPast(pruned, past, clock)
    BY <1>t, <1>w, <2>4, WindowIsPruned DEF AnalysisTyped
  <2>6. MaxContext \in Nat
    BY AnalysisAssumption
  <2> HIDE DEF pruned, new
  <2>7. /\ window' \in Seq(TimedEvent) /\ past' \in Seq(TimedEvent)
        /\ WindowOfPast(window', past', clock)
    BY <1>t, <2>1, <2>2, <2>3, <2>5, <2>6, WindowTakesUp DEF AnalysisTyped
  <2>8. AnalysisTyped'
    BY <1>t, <2>1, <2>7, FS_EmptySet DEF AnalysisTyped, Idle
  <2> QED
    BY <2>1, <2>7, <2>8 DEF WindowIsOfPast
<1>5. CASE Discard
  <2>1. AnalysisTyped'
    BY <1>5, <1>t, FS_EmptySet DEF AnalysisTyped, Discard, Idle
  <2> QED
    BY <1>5, <1>w, <2>1 DEF Discard, WindowIsOfPast
<1>6. CASE ProcessRestarts
  <2>1. AnalysisTyped'
    BY <1>6, <1>t, FS_EmptySet DEF AnalysisTyped, ProcessRestarts, Idle
  <2> QED
    BY <1>6, <2>1, EmptyWindow DEF ProcessRestarts, WindowIsOfPast
<1>7. CASE UNCHANGED analysisVars
  BY <1>7 DEF analysisVars, AnalysisTyped, WindowIsOfPast
<1> QED
  BY <1>1, <1>2, <1>3, <1>4, <1>5, <1>6, <1>7 DEF AnalysisNext

LEMMA AnalysisInvariant == AnalysisSpec => []AnalysisInv
BY AnalysisInvInit, AnalysisInvNext, PTL DEF AnalysisSpec

(* What is missing of the past is too old to be related to what happens now. *)
LEMMA InvImpliesContext == AnalysisInv => ContextIsComplete
<1> SUFFICES ASSUME AnalysisInv, BatchIs("analysed") PROVE ContextIsComplete
  BY DEF ContextIsComplete
<1>1. /\ window \in Seq(TimedEvent) /\ past \in Seq(TimedEvent) /\ clock \in Nat
      /\ batch.events \subseteq TimedEvent
  BY DEF AnalysisInv, AnalysisTyped
<1>2. PICK k \in 0..Len(past) : /\ window = Suffix(past, k)
                                /\ \A i \in 1..k : past[i].time < clock - ContextWindow
  BY DEF AnalysisInv, WindowIsOfPast, WindowOfPast
<1>3. /\ Len(window) = Len(past) - k
      /\ \A i \in 1..(Len(past) - k) : window[i] = past[i + k]
  BY <1>1, <1>2, SuffixIsRest
<1>4. ASSUME NEW p \in ToSet(window) PROVE p \in ToSet(past)
  <2>1. PICK i \in 1..Len(window) : p = window[i]
    BY <1>1 DEF ToSet
  <2>2. i + k \in 1..Len(past) /\ p = past[i + k]
    BY <1>1, <1>3, <2>1
  <2> QED
    BY <1>1, <2>2 DEF ToSet
<1>5. ASSUME NEW e \in batch.events, e.time = clock, NEW p \in ToSet(past), Related(e, p)
      PROVE  p \in ToSet(window)
  <2>1. PICK i \in 1..Len(past) : p = past[i]
    BY <1>1 DEF ToSet
  <2>2. p.time \in Nat /\ ContextWindow \in Nat
    BY <1>1, <2>1, EventIsTyped, AnalysisAssumption
  <2>3. clock - p.time \in 0..ContextWindow
    BY <1>5 DEF Related
  <2>4. i > k
    BY <1>1, <1>2, <2>1, <2>2, <2>3
  <2>5. i - k \in 1..Len(window) /\ window[i - k] = p
    <3>1. i - k \in 1..(Len(past) - k) /\ (i - k) + k = i
      BY <1>1, <2>4
    <3> QED
      BY <1>1, <1>3, <2>1, <3>1
  <2> QED
    BY <1>1, <2>5 DEF ToSet
<1> QED
  BY <1>4, <1>5 DEF ContextIsComplete

(* For the events of this moment, the window holds every one of the last      *)
(* MaxContext events of complete cycles that is related to them, and nothing  *)
(* that is not among these, whatever failed or restarted in between           *)
(* (TemporalContextWindow: _prune, observe, commit_pending, discard_pending). *)
THEOREM ContextComplete == AnalysisSpec => []ContextIsComplete
BY AnalysisInvariant, InvImpliesContext, PTL

-----------------------------------------------------------------------------
(* Scores are numbers *)

LEMMA SumIsANumber ==
    ASSUME NEW bonus, NEW has, IsFiniteSet(has), \A x \in has : bonus[x] \in Nat
    PROVE  SumOf(bonus, has) \in Nat
<1> DEFINE f == [x \in has |-> {x} \X (1..bonus[x])]
           points == {f[x] : x \in has}
<1>1. IsFiniteSet(points)
  <2> HIDE DEF f
  <2> QED
    BY ImageIsFinite
<1>2. ASSUME NEW x \in has PROVE IsFiniteSet(f[x])
  <2>1. IsFiniteSet({x}) /\ IsFiniteSet(1..bonus[x])
    <3>1. 1 \in Int /\ bonus[x] \in Int
      OBVIOUS
    <3>2. IsFiniteSet(1..bonus[x])
      BY <3>1, FS_Interval, Zenon
    <3> QED
      BY <3>2, FS_Singleton
  <2>2. IsFiniteSet({x} \X (1..bonus[x]))
    BY <2>1, FS_Product
  <2> QED
    BY <2>2
<1>3. IsFiniteSet(UNION points)
  <2>1. \A p \in points : IsFiniteSet(p)
    BY <1>2
  <2> HIDE DEF points
  <2> QED
    BY <1>1, <2>1, FS_UNION
<1>4. UNION points = UNION {{x} \X (1..bonus[x]) : x \in has}
  OBVIOUS
<1> QED
  BY <1>3, <1>4, FS_CardinalityType DEF SumOf

LEMMA Log2IsANumber ==
    ASSUME NEW n
    PROVE  Log2(n) \in Nat
<1>1. IsFiniteSet(1..7)
  <2>1. 1 \in Int /\ 7 \in Int
    OBVIOUS
  <2> QED
    BY <2>1, FS_Interval, Zenon
<1>2. IsFiniteSet({k \in 1..7 : 2 ^ k <= n})
  BY <1>1, FS_Subset
<1> QED
  BY <1>2, FS_CardinalityType DEF Log2

LEMMA KindsAreFew ==
    ASSUME NEW K, K \subseteq DOMAIN Weight
    PROVE  IsFiniteSet(K) /\ Cardinality(K) \in Nat
BY FS_Subset, FS_CardinalityType, CorrelationAssumption

LEMMA ScoreIsANumber ==
    ASSUME NEW e \in TimedEvent, NEW context, \A c \in context : c.event \in TimedEvent
    PROVE  Score(e, context) \in Int
<1>1. /\ Weight[e.kind] \in Nat /\ e.confidence \in Nat /\ e.cvss \in Nat /\ e.deviation \in Nat
      /\ e.flags \subseteq DOMAIN FlagBonus /\ IsFiniteSet(e.flags)
      /\ e.markers \subseteq DOMAIN MarkerBonus /\ IsFiniteSet(e.markers)
  BY EventIsTyped
<1>2. SumOf(FlagBonus, e.flags) \in Nat /\ SumOf(MarkerBonus, e.markers) \in Nat
  BY <1>1, SumIsANumber, CorrelationAssumption
<1>3. MarkerPoints(e) \in Int
  BY <1>2 DEF MarkerPoints, Least
<1>4. Behaviour(e) \in Int
  <2>1. Weight[e.kind] * e.confidence \in Int
    BY <1>1
  <2> DEFINE sum == Weight[e.kind] * e.confidence
                    + Points(SumOf(FlagBonus, e.flags) + MarkerPoints(e))
  <2>2. sum \in Int
    BY <1>2, <1>3, <2>1 DEF Points
  <2> HIDE DEF sum
  <2>3. Greatest(sum, Points(65)) \in Int
    BY <2>2 DEF Greatest, Points
  <2> QED
    BY <2>2, <2>3 DEF Behaviour, sum
<1>5. FailureBonus(e) \in Int
  <2>1. Least(25, 5 * Log2(e.failed)) \in Int
    BY Log2IsANumber DEF Least
  <2> QED
    BY <2>1 DEF FailureBonus, Points
<1>6. ASSUME NEW score \in Int PROVE SprayFloor(e, score) \in Int
  <2>1. Least(22, 8 + 2 * Log2(e.accounts)) \in Int
    BY Log2IsANumber DEF Least
  <2> DEFINE lifted == Greatest(score + Points(Least(22, 8 + 2 * Log2(e.accounts))), Points(45))
  <2>2. lifted \in Int
    BY <2>1 DEF Greatest, Points
  <2> HIDE DEF lifted
  <2>3. Greatest(lifted, Points(65)) \in Int
    BY <2>2 DEF Greatest, Points
  <2> QED
    BY <2>2, <2>3 DEF SprayFloor, lifted
<1>7. ContextBonus(context) \in Int
  <2> DEFINE kinds == {c.event.kind : c \in context}
  <2>1. kinds \subseteq DOMAIN Weight
    BY EventIsTyped
  <2>2. Cardinality(kinds) \in Nat
    <3> HIDE DEF kinds
    <3> QED
      BY <2>1, KindsAreFew
  <2>3. /\ Points(Least(10, 4 + 2 * Cardinality(kinds))) \in Int
        /\ Points(Least(6, 2 + 2 * Cardinality(kinds))) \in Int
    <3> HIDE DEF kinds
    <3> QED
      BY <2>2 DEF Least, Points
  <2> QED
    BY <2>3 DEF ContextBonus
<1>8. SprayFloor(e, Behaviour(e) + FailureBonus(e)) \in Int
  BY <1>4, <1>5, <1>6
<1>9. Points(Least(30, 3 * e.cvss)) \in Int /\ Least(Points(20), 20 * e.deviation) \in Int
  BY <1>1 DEF Least, Points
<1> DEFINE total == SprayFloor(e, Behaviour(e) + FailureBonus(e))
                    + Points(Least(30, 3 * e.cvss)) + Least(Points(20), 20 * e.deviation)
                    + ContextBonus(context)
<1>10. total \in Int
  BY <1>7, <1>8, <1>9
<1> HIDE DEF total
<1>11. Least(Points(100), total) \in Int
  BY <1>10 DEF Least, Points
<1> QED
  BY <1>11 DEF Score, total

Numbers(events, score) == \A e \in events : score[e] \in Int

LEMMA ScoresAreNumbers == AnalysisInv => Numbers(batch.events, Scores)
<1> SUFFICES ASSUME AnalysisInv, NEW e \in batch.events PROVE Scores[e] \in Int
  BY DEF Numbers
<1>1. e \in TimedEvent /\ window \in Seq(TimedEvent)
  BY DEF AnalysisInv, AnalysisTyped
<1>2. ASSUME NEW c \in ContextOf(e, window) PROVE c.event \in TimedEvent
  <2> DEFINE related == {p \in ToSet(window) : Related(e, p)}
             closer(p) == {o \in related : \/ o.time > p.time
                                           \/ o.time = p.time /\ Rank[o.id] < Rank[p.id]}
             near == {p \in related : Cardinality(closer(p)) < MaxRelated}
  <2>0. ContextOf(e, window) = {[event |-> p, actor |-> SameActor(e, p)] : p \in near}
    BY Zenon DEF ContextOf
  <2>1. c.event \in ToSet(window)
    <3>1. near \subseteq ToSet(window)
      OBVIOUS
    <3> HIDE DEF near
    <3> QED
      BY <2>0, <3>1
  <2> QED
    BY <1>1, <2>1 DEF ToSet
<1>3. Score(e, ContextOf(e, window)) \in Int
  BY <1>1, <1>2, ScoreIsANumber
<1> QED
  BY <1>3 DEF Scores

-----------------------------------------------------------------------------
(* More evidence *)

LEMMA FiniteImages ==
    ASSUME NEW S, IsFiniteSet(S), NEW score
    PROVE  /\ IsFiniteSet(Subjects(S)) /\ Cardinality(Subjects(S)) \in Nat
           /\ IsFiniteSet(Kinds(S)) /\ Cardinality(Kinds(S)) \in Nat
           /\ IsFiniteSet({score[e] : e \in S}) /\ Cardinality(S) \in Nat
<1> DEFINE subject == [e \in S |-> e.subject]
           kind == [e \in S |-> e.kind]
<1>1. Subjects(S) = {subject[e] : e \in S} /\ Kinds(S) = {kind[e] : e \in S}
  BY DEF Subjects, Kinds
<1> HIDE DEF subject, kind
<1> QED
  BY <1>1, ImageIsFinite, FS_CardinalityType

LEMMA ImagesGrow ==
    ASSUME NEW S, IsFiniteSet(S), NEW T \in SUBSET S
    PROVE  /\ Cardinality(T) <= Cardinality(S)
           /\ Cardinality(Subjects(T)) <= Cardinality(Subjects(S))
           /\ Cardinality(Kinds(T)) <= Cardinality(Kinds(S))
<1>1. Subjects(T) \subseteq Subjects(S) /\ Kinds(T) \subseteq Kinds(S)
  BY DEF Subjects, Kinds
<1> QED
  BY <1>1, FiniteImages, FS_Subset

LEMMA HighestIsReached ==
    ASSUME NEW S, IsFiniteSet(S), S # {}, NEW score, Numbers(S, score)
    PROVE  /\ Highest(S, score) \in Int
           /\ \E e \in S : score[e] = Highest(S, score)
           /\ \A e \in S : score[e] <= Highest(S, score)
<1> DEFINE V == {score[e] : e \in S}
<1>1. IsFiniteSet(V)
  BY FiniteImages
<1>2. V \subseteq Int /\ V # {}
  BY DEF Numbers
<1>3. Max(V) \in V /\ \A v \in V : v <= Max(V)
  <2> HIDE DEF V
  <2> QED
    BY <1>1, <1>2, MaxIsGreatest
<1> QED
  BY <1>2, <1>3 DEF Highest

LEMMA HighestGrows ==
    ASSUME NEW S, IsFiniteSet(S), NEW T \in SUBSET S, T # {}, NEW score, Numbers(S, score)
    PROVE  Highest(T, score) <= Highest(S, score)
<1>1. IsFiniteSet(T) /\ Numbers(T, score) /\ S # {}
  BY FS_Subset DEF Numbers
<1>2. PICK e \in T : score[e] = Highest(T, score)
  BY <1>1, HighestIsReached
<1> QED
  BY <1>1, <1>2, HighestIsReached

(* Every part of a rating grows with the evidence. *)
LEMMA CombinedGrows ==
    ASSUME NEW h \in Int, NEW n \in Nat, NEW k \in Nat, NEW r \in Nat,
           NEW hh \in Int, NEW nn \in Nat, NEW kk \in Nat, NEW rr \in Nat,
           h <= hh, n <= nn, k <= kk, r <= rr
    PROVE  Combined(h, n, k, r) <= Combined(hh, nn, kk, rr)
<1>1. /\ Least(15, 4 * (n - 1)) <= Least(15, 4 * (nn - 1))
      /\ Least(15, 4 * (n - 1)) \in Int /\ Least(15, 4 * (nn - 1)) \in Int
  BY DEF Least
<1> DEFINE diversity(j) == IF j >= 3 THEN 10 ELSE IF j = 2 THEN 5 ELSE 0
           cross(j) == IF j > 0 THEN Least(12, 6 + 2 * (j - 1)) ELSE 0
<1>2. diversity(k) <= diversity(kk) /\ diversity(k) \in Int /\ diversity(kk) \in Int
  OBVIOUS
<1>3. cross(r) <= cross(rr) /\ cross(r) \in Int /\ cross(rr) \in Int
  BY DEF Least
<1> HIDE DEF diversity, cross
<1>4. Least(Points(100), h + Points(Least(15, 4 * (n - 1)) + diversity(k) + cross(r)))
      <= Least(Points(100), hh + Points(Least(15, 4 * (nn - 1)) + diversity(kk) + cross(rr)))
  <2> DEFINE e == Least(15, 4 * (n - 1))
             ee == Least(15, 4 * (nn - 1))
  <2>1. e \in Int /\ ee \in Int /\ e <= ee
    BY <1>1
  <2> HIDE DEF e, ee
  <2>2. Least(Points(100), h + Points(e + diversity(k) + cross(r)))
        <= Least(Points(100), hh + Points(ee + diversity(kk) + cross(rr)))
    BY <1>2, <1>3, <2>1 DEF Least, Points
  <2> QED
    BY <2>2 DEF e, ee
<1> QED
  BY <1>4 DEF Combined, diversity, cross

Own(s, events) == {e \in events : e.subject = s}

(* The standing of a subject among those that share an actor *)
Standing(s, events, score) ==
    [score |-> Highest(Own(s, events), score), rank |-> SubjectRank[s]]

Leads(a, b, events, score) == Precedes(Standing(a, events, score), Standing(b, events, score))

(* The rank of a subject is that of one of its shapes, and of no other's. *)
LEMMA SubjectRankIdentifies ==
    /\ \A s \in Subjects(Shape) : SubjectRank[s] \in Nat
    /\ \A s, o \in Subjects(Shape) : SubjectRank[s] = SubjectRank[o] => s = o
<1>1. ASSUME NEW s \in Subjects(Shape)
      PROVE  /\ SubjectRank[s] \in Nat
             /\ \E x \in Shape : x.subject = s /\ SubjectRank[s] = Rank[x.id]
  <2> DEFINE mine == {y \in Shape : y.subject = s}
             f == [y \in mine |-> Rank[y.id]]
             R == {f[y] : y \in mine}
  <2>1. IsFiniteSet(mine) /\ mine # {}
    BY AnalysisAssumption, FS_Subset DEF Subjects
  <2>2. R # {} /\ R \subseteq Nat
    <3>1. \A y \in mine : y.id \in DOMAIN Rank
      BY AnalysisAssumption
    <3>2. \A y \in mine : Rank[y.id] \in Nat
      BY <3>1, CorrelationAssumption
    <3> QED
      BY <2>1, <3>2
  <2>3. IsFiniteSet(R)
    <3> HIDE DEF f, mine
    <3> QED
      BY <2>1, ImageIsFinite
  <2>4. SubjectRank[s] = Min(R)
    <3>1. R = {Rank[x.id] : x \in {y \in Shape : y.subject = s}}
      OBVIOUS
    <3> HIDE DEF R
    <3> QED
      BY <3>1 DEF SubjectRank
  <2>5. Min(R) \in R
    <3> HIDE DEF R
    <3>1. R \in SUBSET Int
      BY <2>2
    <3> QED
      BY <2>2, <2>3, <3>1, MaxIsGreatest
  <2> QED
    BY <2>2, <2>4, <2>5
<1>2. ASSUME NEW s \in Subjects(Shape), NEW o \in Subjects(Shape), SubjectRank[s] = SubjectRank[o]
      PROVE  s = o
  <2>1. PICK x \in Shape : x.subject = s /\ SubjectRank[s] = Rank[x.id]
    BY <1>1
  <2>2. PICK y \in Shape : y.subject = o /\ SubjectRank[o] = Rank[y.id]
    BY <1>1
  <2>3. x.id \in DOMAIN Rank /\ y.id \in DOMAIN Rank /\ Rank[x.id] = Rank[y.id]
    BY <1>2, <2>1, <2>2, AnalysisAssumption
  <2>4. x.id = y.id
    BY <2>3, CorrelationAssumption
  <2> QED
    BY <2>1, <2>2, <2>4, AnalysisAssumption
<1> QED
  BY <1>1, <1>2

(* The subjects of any events are ordered by their standing. *)
LEMMA LeadsIsATotalOrder ==
    ASSUME NEW E \in SUBSET TimedEvent, IsFiniteSet(E), NEW score, Numbers(E, score),
           NEW a \in Subjects(E), NEW b \in Subjects(E), NEW c \in Subjects(E)
    PROVE  /\ ~Leads(a, a, E, score)
           /\ Leads(a, b, E, score) /\ Leads(b, c, E, score) => Leads(a, c, E, score)
           /\ a # b => Leads(a, b, E, score) \/ Leads(b, a, E, score)
           /\ Leads(a, b, E, score) =>
                 Highest(Own(a, E), score) >= Highest(Own(b, E), score)
<1>1. ASSUME NEW s \in Subjects(E)
      PROVE  /\ Highest(Own(s, E), score) \in Int /\ SubjectRank[s] \in Nat
             /\ s \in Subjects(Shape)
  <2>1. Own(s, E) # {} /\ IsFiniteSet(Own(s, E)) /\ Numbers(Own(s, E), score)
    BY FS_Subset DEF Own, Subjects, Numbers
  <2>2. s \in Subjects(Shape)
    BY EventIsTyped DEF Subjects
  <2> QED
    BY <2>1, <2>2, HighestIsReached, SubjectRankIdentifies
<1>2. a # b => SubjectRank[a] # SubjectRank[b]
  BY <1>1, SubjectRankIdentifies
<1> DEFINE h(s) == Highest(Own(s, E), score)
<1>3. /\ h(a) \in Int /\ h(b) \in Int /\ h(c) \in Int
      /\ SubjectRank[a] \in Nat /\ SubjectRank[b] \in Nat /\ SubjectRank[c] \in Nat
  BY <1>1
<1>4. \A s, o : Leads(s, o, E, score) <=>
         h(s) > h(o) \/ (h(s) = h(o) /\ SubjectRank[s] < SubjectRank[o])
  BY DEF Leads, Precedes, Standing
<1> HIDE DEF h
<1>5. /\ ~Leads(a, a, E, score)
      /\ Leads(a, b, E, score) /\ Leads(b, c, E, score) => Leads(a, c, E, score)
      /\ a # b => Leads(a, b, E, score) \/ Leads(b, a, E, score)
      /\ Leads(a, b, E, score) => h(a) >= h(b)
  BY <1>2, <1>3, <1>4
<1> QED
  BY <1>5 DEF h

(* The subject that takes the evidence of an actor leads all the others. *)
LEMMA CanonicalLeads ==
    ASSUME NEW key, NEW E, NEW score
    PROVE  Canonical(key, E, score, SubjectRank) =
              {s \in Subjects(ActsIn(key, E)) :
                  /\ ~(Cardinality(Subjects(ActsIn(key, E))) < 2)
                  /\ ~(Cardinality(Kinds(ActsIn(key, E))) < 2)
                  /\ \A o \in Subjects(ActsIn(key, E)) \ {s} : Leads(s, o, E, score)}
BY Zenon DEF Canonical, Leads, Standing, Own, Highest

(* An actor of several subjects with several kinds of events has its evidence *)
(* taken by one of them.                                                      *)
LEMMA CanonicalExists ==
    ASSUME NEW key, NEW E \in SUBSET TimedEvent, IsFiniteSet(E), NEW score, Numbers(E, score),
           ~(Cardinality(Subjects(ActsIn(key, E))) < 2),
           ~(Cardinality(Kinds(ActsIn(key, E))) < 2)
    PROVE  \E s \in Subjects(ActsIn(key, E)) : s \in Canonical(key, E, score, SubjectRank)
<1> DEFINE S == Subjects(ActsIn(key, E))
           R == {p \in S \X S : Leads(p[1], p[2], E, score)}
<1>1. IsFiniteSet(S) /\ S \subseteq Subjects(E)
  <2>1. ActsIn(key, E) \subseteq E
    BY DEF ActsIn
  <2>2. IsFiniteSet(ActsIn(key, E))
    BY <2>1, FS_Subset
  <2> QED
    BY <2>1, <2>2, FiniteImages DEF Subjects
<1>2. S # {}
  BY FS_EmptySet
<1>3. \A a, b \in S : <<a, b>> \in R <=> Leads(a, b, E, score)
  OBVIOUS
<1> HIDE DEF S, R
<1>4. IsStrictOrder(S, R)
  <2>1. ASSUME NEW a \in S, NEW b \in S, NEW c \in S
        PROVE  /\ <<a, a>> \notin R
               /\ <<a, b>> \in R /\ <<b, c>> \in R => <<a, c>> \in R
    <3>1. a \in Subjects(E) /\ b \in Subjects(E) /\ c \in Subjects(E)
      BY <1>1
    <3> QED
      BY <1>3, <3>1, LeadsIsATotalOrder
  <2> QED
    BY <2>1 DEF IsStrictOrder
<1>5. PICK s \in S : \A o \in S : <<o, s>> \notin R
  BY <1>1, <1>2, <1>4, MinimalExists
<1>6. \A o \in S \ {s} : Leads(s, o, E, score)
  <2> TAKE o \in S \ {s}
  <2>1. s \in Subjects(E) /\ o \in Subjects(E) /\ s # o /\ ~Leads(o, s, E, score)
    BY <1>1, <1>3, <1>5
  <2> QED
    BY <2>1, LeadsIsATotalOrder
<1> QED
  BY <1>6, CanonicalLeads DEF S
(* What a subject took of an actor's evidence, it takes of more, unless one *)
(* that leads it takes its own.                                             *)
LEMMA CorroborationGrows ==
    ASSUME NEW E \in SUBSET TimedEvent, IsFiniteSet(E), NEW score, Numbers(E, score),
           NEW fewer \in SUBSET E, NEW s \in Subjects(fewer),
           \A o \in Subjects(E) \ {s} :
              Own(s, E) \intersect Corroboration(o, E, score) # {}
              => ~(Highest(Own(o, E), score) >= Highest(Own(s, E), score))
    PROVE  Corroboration(s, fewer, score) \subseteq Corroboration(s, E, score)
<1> SUFFICES ASSUME NEW x \in Corroboration(s, fewer, score)
             PROVE  x \in Corroboration(s, E, score)
  OBVIOUS
<1> DEFINE keys(o, events) == {k \in UNION {ActorKeys(e) : e \in Own(o, events)} :
                                  o \in Canonical(k, events, score, SubjectRank)}
<1>0. \A o, events : Corroboration(o, events, score) =
         UNION {{y \in ActsIn(key, events) : y.subject # o} : key \in keys(o, events)}
  BY Zenon DEF Corroboration, RelatedTo, Own
<1>1. PICK key \in keys(s, fewer) : x \in ActsIn(key, fewer) /\ x.subject # s
  BY <1>0
<1>2. PICK e \in fewer : e.subject = s /\ key \in ActorKeys(e)
  BY DEF Own
<1>3. /\ ~(Cardinality(Subjects(ActsIn(key, fewer))) < 2)
      /\ ~(Cardinality(Kinds(ActsIn(key, fewer))) < 2)
  BY CanonicalLeads
<1>4. /\ ActsIn(key, fewer) \subseteq ActsIn(key, E) /\ ActsIn(key, E) \subseteq E
      /\ IsFiniteSet(E)
  BY DEF ActsIn
<1>5. IsFiniteSet(ActsIn(key, E)) /\ IsFiniteSet(ActsIn(key, fewer))
  BY <1>4, FS_Subset
<1>6. /\ ~(Cardinality(Subjects(ActsIn(key, E))) < 2)
      /\ ~(Cardinality(Kinds(ActsIn(key, E))) < 2)
  <2>1. /\ Cardinality(Subjects(ActsIn(key, fewer))) <= Cardinality(Subjects(ActsIn(key, E)))
        /\ Cardinality(Kinds(ActsIn(key, fewer))) <= Cardinality(Kinds(ActsIn(key, E)))
    BY <1>4, <1>5, ImagesGrow
  <2>2. /\ Cardinality(Subjects(ActsIn(key, fewer))) \in Nat
        /\ Cardinality(Subjects(ActsIn(key, E))) \in Nat
        /\ Cardinality(Kinds(ActsIn(key, fewer))) \in Nat
        /\ Cardinality(Kinds(ActsIn(key, E))) \in Nat
    BY <1>5, FiniteImages
  <2> QED
    BY <1>3, <2>1, <2>2
<1>7. PICK o \in Subjects(ActsIn(key, E)) : o \in Canonical(key, E, score, SubjectRank)
  BY <1>6, CanonicalExists
<1>8. key \in keys(o, E)
  <2>1. PICK y \in ActsIn(key, E) : y.subject = o
    BY <1>7 DEF Subjects
  <2>2. y \in Own(o, E) /\ key \in ActorKeys(y)
    BY <2>1 DEF ActsIn, Own
  <2> QED
    BY <1>7, <2>2
<1>9. x \in ActsIn(key, E) /\ e \in ActsIn(key, E) /\ e \in Own(s, E)
  BY <1>1, <1>2 DEF ActsIn, Own
<1> HIDE DEF keys
<1>10. o = s
  <2> SUFFICES ASSUME o # s PROVE FALSE
    OBVIOUS
  <2>1. e \in Corroboration(o, E, score)
    BY <1>0, <1>2, <1>8, <1>9
  <2>2. s \in Subjects(ActsIn(key, E)) /\ s \in Subjects(E) /\ o \in Subjects(E)
    BY <1>2, <1>4, <1>7, <1>9 DEF Subjects
  <2>3. Leads(o, s, E, score)
    BY <1>7, <2>2, CanonicalLeads
  <2>4. Highest(Own(o, E), score) >= Highest(Own(s, E), score)
    BY <2>2, <2>3, LeadsIsATotalOrder
  <2> QED
    BY <1>9, <2>1, <2>2, <2>4
<1> QED
  BY <1>0, <1>1, <1>8, <1>9, <1>10

LEMMA RatingGrows ==
    ASSUME NEW E \in SUBSET TimedEvent, IsFiniteSet(E), NEW score, Numbers(E, score),
           NEW fewer \in SUBSET E, NEW s \in Subjects(fewer),
           Corroboration(s, fewer, score) \subseteq Corroboration(s, E, score)
    PROVE  Rating(s, fewer, score) <= Rating(s, E, score)
<1> DEFINE rating(events) ==
              Combined(Highest(Own(s, events), score), Cardinality(Own(s, events)),
                       Cardinality(Kinds(Own(s, events))),
                       Cardinality(Subjects(Corroboration(s, events, score))))
<1>1. \A events : Rating(s, events, score) = rating(events)
  BY Zenon DEF Rating, SubjectScore, Own, Highest, Corroboration
<1>2. /\ Own(s, fewer) \subseteq Own(s, E) /\ Own(s, fewer) # {}
      /\ Own(s, E) \subseteq E
  BY DEF Own, Subjects
<1>3. IsFiniteSet(Own(s, E)) /\ IsFiniteSet(Own(s, fewer)) /\ Numbers(Own(s, E), score)
  BY <1>2, FS_Subset DEF Numbers
<1>4. Highest(Own(s, fewer), score) <= Highest(Own(s, E), score)
  BY <1>2, <1>3, HighestGrows
<1>5. Corroboration(s, E, score) \subseteq E
  BY DEF Corroboration, RelatedTo, ActsIn
<1>6. IsFiniteSet(Corroboration(s, E, score)) /\ IsFiniteSet(Corroboration(s, fewer, score))
  BY <1>5, FS_Subset
<1>7. Highest(Own(s, fewer), score) \in Int /\ Highest(Own(s, E), score) \in Int
  <2>1. Own(s, E) # {} /\ Numbers(Own(s, fewer), score)
    BY <1>2, <1>3 DEF Numbers
  <2> QED
    BY <1>2, <1>3, <2>1, HighestIsReached
<1>8. /\ Cardinality(Own(s, fewer)) <= Cardinality(Own(s, E))
      /\ Cardinality(Kinds(Own(s, fewer))) <= Cardinality(Kinds(Own(s, E)))
      /\ Cardinality(Subjects(Corroboration(s, fewer, score)))
         <= Cardinality(Subjects(Corroboration(s, E, score)))
  BY <1>2, <1>3, <1>6, ImagesGrow
<1>9. /\ Cardinality(Own(s, fewer)) \in Nat /\ Cardinality(Own(s, E)) \in Nat
      /\ Cardinality(Kinds(Own(s, fewer))) \in Nat /\ Cardinality(Kinds(Own(s, E))) \in Nat
      /\ Cardinality(Subjects(Corroboration(s, fewer, score))) \in Nat
      /\ Cardinality(Subjects(Corroboration(s, E, score))) \in Nat
  BY <1>3, <1>6, FiniteImages
<1>10. rating(fewer) <= rating(E)
  BY <1>4, <1>7, <1>8, <1>9, CombinedGrows
<1> QED
  BY <1>1, <1>10

LEMMA InvImpliesMoreEvidence == AnalysisInv => MoreEvidenceNeverLowersARating
<1> SUFFICES ASSUME AnalysisInv PROVE MoreEvidenceNeverLowersARating
  OBVIOUS
<1> DEFINE score == Scores
           E == batch.events
<1>1. E \subseteq TimedEvent /\ IsFiniteSet(E) /\ Numbers(E, score)
  BY ScoresAreNumbers DEF AnalysisInv, AnalysisTyped
<1> HIDE DEF score
<1>2. ASSUME NEW fewer \in SUBSET E, NEW s \in Subjects(fewer)
      PROVE  \/ Rating(s, fewer, score) <= Rating(s, E, score)
             \/ \E o \in Subjects(E) \ {s} :
                   /\ Own(s, E) \intersect Corroboration(o, E, score) # {}
                   /\ Highest(Own(o, E), score) >= Highest(Own(s, E), score)
  <2> HIDE DEF E
  <2> QED
    BY <1>1, CorroborationGrows, RatingGrows
<1> QED
  BY <1>2, Zenon DEF MoreEvidenceNeverLowersARating, Own, score

(* Taking away events of a cycle never raises the rating of a subject that    *)
(* still has one, unless the cycle gives the actor it shares with another     *)
(* subject to that one, which then has as high a score or a higher            *)
(* (IncidentCorrelator: subject findings and their canonical subject).        *)
THEOREM MoreEvidenceNeverLowers == AnalysisSpec => []MoreEvidenceNeverLowersARating
BY AnalysisInvariant, InvImpliesMoreEvidence, PTL

Together(w) == \A x, y \in w : x.time - y.time <= ChainWindow

(* Events at most ChainWindow apart are in the window that ends with the last *)
(* of them.                                                                   *)
LEMMA LastExists ==
    ASSUME NEW w \in SUBSET TimedEvent, IsFiniteSet(w), w # {}
    PROVE  \E e \in w : \A x \in w : ~Before(e, x)
<1> DEFINE R == {p \in w \X w : Before(p[2], p[1])}
<1>1. \A x, y \in w : <<x, y>> \in R <=> Before(y, x)
  OBVIOUS
<1> HIDE DEF R
<1>2. IsStrictOrder(w, R)
  <2>1. ASSUME NEW x \in w, NEW y \in w, NEW z \in w
        PROVE  ~Before(x, x) /\ (Before(y, x) /\ Before(z, y) => Before(z, x))
    BY EventsAreOrdered, BeforeIsTransitive
  <2> QED
    BY <1>1, <2>1 DEF IsStrictOrder
<1> QED
  BY <1>1, <1>2, MinimalExists

LEMMA WindowsHoldAll ==
    ASSUME NEW C \in SUBSET TimedEvent, NEW w \in SUBSET C, IsFiniteSet(w), w # {}, Together(w)
    PROVE  \E e \in C : w \subseteq WindowAt(e, C)
<1>1. PICK e \in w : \A x \in w : ~Before(e, x)
  BY LastExists
<1> QED
  BY <1>1 DEF Together, WindowAt

LEMMA WindowIsTogether ==
    ASSUME NEW C \in SUBSET TimedEvent, IsFiniteSet(C), NEW e \in C
    PROVE  /\ WindowAt(e, C) \subseteq C /\ e \in WindowAt(e, C) /\ Together(WindowAt(e, C))
           /\ IsFiniteSet(WindowAt(e, C))
<1>1. WindowAt(e, C) \subseteq C
  BY DEF WindowAt
<1>2. e \in WindowAt(e, C)
  <2>1. e.time \in Nat /\ ChainWindow \in Nat
    BY EventIsTyped, CorrelationAssumption
  <2> QED
    BY <2>1, EventsAreOrdered DEF WindowAt
<1>3. ASSUME NEW x \in WindowAt(e, C), NEW y \in WindowAt(e, C)
      PROVE  x.time - y.time <= ChainWindow
  <2>1. x.time <= e.time /\ e.time - y.time <= ChainWindow
    <3>1. ~Before(e, x) /\ e \in TimedEvent /\ x \in TimedEvent /\ e.time - y.time <= ChainWindow
      BY <1>1 DEF WindowAt
    <3> QED
      BY <3>1, EventsAreOrdered
  <2>2. x.time \in Nat /\ y.time \in Nat /\ e.time \in Nat /\ ChainWindow \in Nat
    BY <1>1, EventIsTyped, CorrelationAssumption
  <2> QED
    BY <2>1, <2>2
<1> QED
  BY <1>1, <1>2, <1>3, FS_Subset DEF Together

-----------------------------------------------------------------------------
(* A chain with more events is no worse *)

LEMMA PhasesGrow ==
    ASSUME NEW S, IsFiniteSet(S), NEW T \in SUBSET S
    PROVE  /\ Phases(T) \subseteq Phases(S) /\ IsFiniteSet(Phases(S))
           /\ Cardinality(Phases(T)) \in Nat /\ Cardinality(Phases(S)) \in Nat
           /\ Cardinality(Phases(T)) <= Cardinality(Phases(S))
           /\ Cardinality(Phases(T)) = Cardinality(Phases(S)) => Phases(T) = Phases(S)
<1> DEFINE f == [e \in S |-> Phase[e.kind]]
<1>1. Phases(S) = {f[e] : e \in S}
  BY DEF Phases
<1>2. IsFiniteSet(Phases(S))
  <2> HIDE DEF f
  <2> QED
    BY <1>1, ImageIsFinite
<1>3. Phases(T) \subseteq Phases(S)
  BY DEF Phases
<1> QED
  BY <1>2, <1>3, FS_Subset, FS_CardinalityType

LEMMA MatchesGrow ==
    ASSUME NEW S, NEW T \in SUBSET S
    PROVE  Matches(T) \subseteq Matches(S)
BY DEF Matches

LEMMA TwoPhases ==
    /\ IsFiniteSet({"execution", "network"})
    /\ Cardinality({"execution", "network"}) <= 2
<1>1. IsFiniteSet({"execution"}) /\ Cardinality({"execution"}) = 1
  BY FS_Singleton
<1>2. {"execution", "network"} = {"execution"} \union {"network"}
  OBVIOUS
<1>3. /\ IsFiniteSet({"execution"} \union {"network"})
      /\ Cardinality({"execution"} \union {"network"}) =
            IF "network" \in {"execution"} THEN Cardinality({"execution"})
                                           ELSE Cardinality({"execution"}) + 1
  BY <1>1, FS_AddElement, Zenon
<1> QED
  BY <1>1, <1>2, <1>3

LEMMA QualifiesGrows ==
    ASSUME NEW S, IsFiniteSet(S), NEW T \in SUBSET S, T # {}, NEW score, Numbers(S, score),
           Qualifies(T, score)
    PROVE  Qualifies(S, score)
<1> DEFINE pt == Phases(T)
           ps == Phases(S)
           ht == Highest(T, score)
           hs == Highest(S, score)
           nt == Cardinality(Subjects(T))
           ns == Cardinality(Subjects(S))
           ct == Cardinality(pt)
           cs == Cardinality(ps)
           mt == Matches(T)
           ms == Matches(S)
<1>1. IsFiniteSet(T) /\ Numbers(T, score) /\ S # {}
  BY FS_Subset DEF Numbers
<1>2. ht \in Int /\ hs \in Int /\ ht <= hs
  BY <1>1, HighestIsReached, HighestGrows
<1>3. nt \in Nat /\ ns \in Nat /\ nt <= ns
  BY <1>1, ImagesGrow, FiniteImages
<1>4. ct \in Nat /\ cs \in Nat /\ ct <= cs /\ (ct = cs => pt = ps) /\ pt \subseteq ps
  BY PhasesGrow
<1>5. mt # {} => ms # {}
  BY MatchesGrow
<1>6. (\E e \in T : HighSignal(e)) => \E e \in S : HighSignal(e)
  OBVIOUS
<1>7. ct >= 2 /\ pt # {"execution", "network"} => ps # {"execution", "network"}
  <2> SUFFICES ASSUME ct >= 2, ps = {"execution", "network"} PROVE pt = ps
    OBVIOUS
  <2>1. cs <= 2
    BY TwoPhases
  <2> HIDE DEF pt, ps
  <2>2. ct = cs
    <3> HIDE DEF ct, cs
    <3> QED
      BY <1>4, <2>1
  <2> QED
    BY <1>4, <2>2
<1>8. /\ Qualifies(T, score) <=>
           /\ nt >= 2
           /\ \/ ct >= 3 /\ ht >= Points(25)
              \/ /\ ct >= 2 /\ ht >= Points(65)
                 /\ \E e \in T : HighSignal(e)
                 /\ pt # {"execution", "network"} \/ mt # {}
              \/ ct >= 2 /\ mt # {} /\ ht >= Points(50)
      /\ Qualifies(S, score) <=>
           /\ ns >= 2
           /\ \/ cs >= 3 /\ hs >= Points(25)
              \/ /\ cs >= 2 /\ hs >= Points(65)
                 /\ \E e \in S : HighSignal(e)
                 /\ ps # {"execution", "network"} \/ ms # {}
              \/ cs >= 2 /\ ms # {} /\ hs >= Points(50)
  BY Zenon DEF Qualifies
<1>9. Points(25) \in Int /\ Points(65) \in Int /\ Points(50) \in Int
  BY DEF Points
<1> DEFINE it == \E e \in T : HighSignal(e)
           is == \E e \in S : HighSignal(e)
           ot == pt # {"execution", "network"}
           os == ps # {"execution", "network"}
           vt == mt # {}
           vs == ms # {}
<1>10. /\ ns >= 2
       /\ \/ cs >= 3 /\ hs >= Points(25)
          \/ cs >= 2 /\ hs >= Points(65) /\ is /\ (os \/ vs)
          \/ cs >= 2 /\ vs /\ hs >= Points(50)
  <2>1. /\ nt >= 2
        /\ \/ ct >= 3 /\ ht >= Points(25)
           \/ ct >= 2 /\ ht >= Points(65) /\ it /\ (ot \/ vt)
           \/ ct >= 2 /\ vt /\ ht >= Points(50)
    BY <1>8, Zenon
  <2>2. /\ vt => vs
        /\ it => is
        /\ ct >= 2 /\ ot => os
    BY <1>5, <1>6, <1>7, Zenon
  <2> HIDE DEF it, is, ot, os, vt, vs, ns, nt, cs, ct, hs, ht
  <2>3. /\ nt >= 2 => ns >= 2
        /\ ct >= 2 => cs >= 2
        /\ ct >= 3 => cs >= 3
        /\ ht >= Points(25) => hs >= Points(25)
        /\ ht >= Points(50) => hs >= Points(50)
        /\ ht >= Points(65) => hs >= Points(65)
    BY <1>2, <1>3, <1>4, <1>9
  <2> QED
    BY <2>1, <2>2, <2>3, Zenon
<1> QED
  BY <1>8, <1>10, Zenon

LEMMA ChainedGrows ==
    ASSUME NEW h \in Int, NEW p \in Nat, NEW n \in Nat, NEW m \in BOOLEAN,
           NEW hh \in Int, NEW pp \in Nat, NEW nn \in Nat, NEW mm \in BOOLEAN,
           h <= hh, p <= pp, n <= nn, m => mm
    PROVE  /\ Chained(h, p, n, m) \in Int /\ Chained(hh, pp, nn, mm) \in Int
           /\ Chained(h, p, n, m) <= Chained(hh, pp, nn, mm)
<1> DEFINE a(q) == Least(24, 7 * (q - 1))
           b(q) == IF q THEN 12 ELSE 0
           c(q) == Least(Points(10), 250 * Greatest(0, q - 2))
<1>1. a(p) \in Int /\ a(pp) \in Int /\ a(p) <= a(pp)
  BY DEF Least
<1>2. b(m) \in Int /\ b(mm) \in Int /\ b(m) <= b(mm)
  OBVIOUS
<1>3. c(n) \in Int /\ c(nn) \in Int /\ c(n) <= c(nn)
  <2>1. Greatest(0, n - 2) \in Int /\ Greatest(0, nn - 2) \in Int
        /\ Greatest(0, n - 2) <= Greatest(0, nn - 2)
    BY DEF Greatest
  <2> QED
    BY <2>1 DEF Least, Points
<1>4. /\ Chained(h, p, n, m) = Least(Points(100), h + Points(a(p) + b(m)) + c(n))
      /\ Chained(hh, pp, nn, mm) = Least(Points(100), hh + Points(a(pp) + b(mm)) + c(nn))
  BY Zenon DEF Chained
<1> HIDE DEF a, b, c
<1>5. /\ h + Points(a(p) + b(m)) + c(n) \in Int
      /\ hh + Points(a(pp) + b(mm)) + c(nn) \in Int
      /\ h + Points(a(p) + b(m)) + c(n) <= hh + Points(a(pp) + b(mm)) + c(nn)
  BY <1>1, <1>2, <1>3 DEF Points
<1> QED
  BY <1>4, <1>5 DEF Least, Points

LEMMA ChainScoreGrows ==
    ASSUME NEW S, IsFiniteSet(S), NEW T \in SUBSET S, T # {}, NEW score, Numbers(S, score)
    PROVE  /\ ChainScore(T, score) \in Int /\ ChainScore(S, score) \in Int
           /\ ChainScore(T, score) <= ChainScore(S, score)
<1>1. IsFiniteSet(T) /\ Numbers(T, score) /\ S # {}
  BY FS_Subset DEF Numbers
<1>2. /\ Highest(T, score) \in Int /\ Highest(S, score) \in Int
      /\ Highest(T, score) <= Highest(S, score)
  BY <1>1, HighestIsReached, HighestGrows
<1>3. /\ Cardinality(Phases(T)) \in Nat /\ Cardinality(Phases(S)) \in Nat
      /\ Cardinality(Phases(T)) <= Cardinality(Phases(S))
  BY PhasesGrow
<1>4. Cardinality(T) \in Nat /\ Cardinality(S) \in Nat /\ Cardinality(T) <= Cardinality(S)
  BY <1>1, ImagesGrow, FiniteImages
<1>5. /\ (Matches(T) # {}) \in BOOLEAN /\ (Matches(S) # {}) \in BOOLEAN
      /\ (Matches(T) # {}) => (Matches(S) # {})
  BY MatchesGrow
<1> QED
  BY <1>2, <1>3, <1>4, <1>5, ChainedGrows DEF ChainScore

Ends(C, score) == {e \in C : Qualifies(WindowAt(e, C), score)}

(* The loop keeps one of two windows: the better, or else the first. *)
Wins(e, o, C, score) ==
    \/ Better(ChainAt(e, C, score), ChainAt(o, C, score))
    \/ /\ ~Better(ChainAt(o, C, score), ChainAt(e, C, score))
       /\ Before(e, o)

LEMMA WinsIsATotalOrder ==
    ASSUME NEW C \in SUBSET TimedEvent, IsFiniteSet(C), NEW score, Numbers(C, score),
           NEW a \in C, NEW b \in C, NEW c \in C
    PROVE  /\ ~Wins(a, a, C, score)
           /\ Wins(a, b, C, score) /\ Wins(b, c, C, score) => Wins(a, c, C, score)
           /\ a # b => Wins(a, b, C, score) \/ Wins(b, a, C, score)
           /\ Wins(a, b, C, score) => ~Better(ChainAt(b, C, score), ChainAt(a, C, score))
<1> DEFINE v(e) == ChainAt(e, C, score).score
           n(e) == Cardinality(ChainAt(e, C, score).events)
<1>1. ASSUME NEW e \in C PROVE v(e) \in Int /\ n(e) \in Nat
  <2> DEFINE w == WindowAt(e, C)
  <2>1. w \subseteq C /\ e \in w /\ IsFiniteSet(w)
    BY WindowIsTogether
  <2>2. Numbers(w, score)
    BY <2>1 DEF Numbers
  <2>3. ChainScore(w, score) \in Int /\ Cardinality(w) \in Nat
    <3> HIDE DEF w
    <3> QED
      BY <2>1, <2>2, ChainScoreGrows, FS_CardinalityType
  <2> QED
    BY <2>3 DEF ChainAt
<1>2. /\ v(a) \in Int /\ v(b) \in Int /\ v(c) \in Int
      /\ n(a) \in Nat /\ n(b) \in Nat /\ n(c) \in Nat
  BY <1>1
<1>3. \A e, o : Better(ChainAt(e, C, score), ChainAt(o, C, score)) <=>
                   v(e) > v(o) \/ (v(e) = v(o) /\ n(e) > n(o))
  BY Zenon DEF Better
<1>4. \A e, o : Wins(e, o, C, score) <=>
         \/ v(e) > v(o) \/ (v(e) = v(o) /\ n(e) > n(o))
         \/ ~(v(o) > v(e) \/ (v(o) = v(e) /\ n(o) > n(e))) /\ Before(e, o)
  BY <1>3, Zenon DEF Wins
<1>5. /\ ~Before(a, a)
      /\ Before(a, b) /\ Before(b, c) => Before(a, c)
      /\ a # b => Before(a, b) \/ Before(b, a)
  <2>1. a \in TimedEvent /\ b \in TimedEvent /\ c \in TimedEvent
    OBVIOUS
  <2> QED
    BY <2>1, EventsAreOrdered, BeforeIsTransitive
<1> HIDE DEF v, n
<1>6. ~Wins(a, a, C, score)
  BY <1>2, <1>4, <1>5
<1>7. Wins(a, b, C, score) /\ Wins(b, c, C, score) => Wins(a, c, C, score)
  BY <1>2, <1>4, <1>5
<1>8. a # b => Wins(a, b, C, score) \/ Wins(b, a, C, score)
  BY <1>2, <1>4, <1>5
<1>9. Wins(a, b, C, score) => ~Better(ChainAt(b, C, score), ChainAt(a, C, score))
  BY <1>2, <1>3, <1>4
<1> QED
  BY <1>6, <1>7, <1>8, <1>9

(* What the loop keeps is one of the best windows. *)
LEMMA HostChainIsBest ==
    ASSUME NEW C \in SUBSET TimedEvent, IsFiniteSet(C), NEW score, Numbers(C, score)
    PROVE  IF Ends(C, score) = {} THEN HostChain(C, score) = NoChain
           ELSE \E e \in Ends(C, score) :
                   /\ HostChain(C, score) = ChainAt(e, C, score)
                   /\ \A o \in Ends(C, score) :
                         ~Better(ChainAt(o, C, score), ChainAt(e, C, score))
<1> DEFINE ends == Ends(C, score)
           best(e) == \A o \in ends \ {e} : Wins(e, o, C, score)
<1>1. HostChain(C, score) = IF ends = {} THEN NoChain
                            ELSE ChainAt(CHOOSE e \in ends : best(e), C, score)
  BY Zenon DEF HostChain, Ends, Wins
<1>2. CASE ends = {}
  BY <1>1, <1>2
<1>3. CASE ends # {}
  <2> DEFINE R == {p \in ends \X ends : Wins(p[1], p[2], C, score)}
  <2>1. \A x, y \in ends : <<x, y>> \in R <=> Wins(x, y, C, score)
    OBVIOUS
  <2>2. ends \subseteq C /\ IsFiniteSet(ends)
    BY FS_Subset DEF Ends
  <2> HIDE DEF R, ends
  <2>3. IsStrictOrder(ends, R)
    <3>1. ASSUME NEW x \in ends, NEW y \in ends, NEW z \in ends
          PROVE  /\ ~Wins(x, x, C, score)
                 /\ Wins(x, y, C, score) /\ Wins(y, z, C, score) => Wins(x, z, C, score)
      <4>1. x \in C /\ y \in C /\ z \in C
        BY <2>2
      <4> QED
        BY <4>1, WinsIsATotalOrder
    <3> QED
      BY <2>1, <3>1 DEF IsStrictOrder
  <2>4. PICK x \in ends : \A y \in ends : <<y, x>> \notin R
    BY <1>3, <2>2, <2>3, MinimalExists
  <2>5. best(x)
    <3> SUFFICES ASSUME NEW o \in ends \ {x} PROVE Wins(x, o, C, score)
      OBVIOUS
    <3>1. x \in C /\ o \in C /\ o # x /\ ~Wins(o, x, C, score)
      BY <2>1, <2>2, <2>4
    <3> QED
      BY <3>1, WinsIsATotalOrder
  <2> DEFINE e == CHOOSE y \in ends : best(y)
  <2>6. e \in ends /\ best(e)
    <3> HIDE DEF best
    <3> QED
      BY <2>5, Zenon
  <2>7. HostChain(C, score) = ChainAt(e, C, score)
    BY <1>1, <1>3
  <2> HIDE DEF e
  <2>8. ASSUME NEW o \in ends PROVE ~Better(ChainAt(o, C, score), ChainAt(e, C, score))
    <3>1. e \in C /\ o \in C
      BY <2>2, <2>6
    <3>2. CASE o = e
      <4>1. ~Wins(e, e, C, score)
        BY <3>1, WinsIsATotalOrder
      <4> QED
        BY <3>2, <4>1 DEF Wins
    <3>3. CASE o # e
      BY <2>6, <3>1, <3>3, WinsIsATotalOrder
    <3> QED
      BY <3>2, <3>3
  <2> QED
    BY <1>3, <2>6, <2>7, <2>8 DEF ends
<1> QED
  BY <1>2, <1>3

LEMMA BestOfTogether ==
    ASSUME NEW C \in SUBSET TimedEvent, IsFiniteSet(C), NEW score, Numbers(C, score),
           NEW w \in SUBSET C, w # {}, Together(w), Qualifies(w, score)
    PROVE  \E e \in Ends(C, score) :
              /\ ChainScore(w, score) <= ChainAt(e, C, score).score
              /\ ChainScore(w, score) \in Int /\ ChainAt(e, C, score).score \in Int
              /\ Cardinality(w) <= Cardinality(ChainAt(e, C, score).events)
              /\ Cardinality(w) \in Nat /\ Cardinality(ChainAt(e, C, score).events) \in Nat
<1>1. IsFiniteSet(w)
  BY FS_Subset
<1>2. PICK e \in C : w \subseteq WindowAt(e, C)
  BY <1>1, WindowsHoldAll
<1> DEFINE W == WindowAt(e, C)
<1>3. W \subseteq C /\ IsFiniteSet(W)
  BY WindowIsTogether
<1>4. Numbers(W, score) /\ w \in SUBSET W
  BY <1>2, <1>3 DEF Numbers
<1>w. ChainAt(e, C, score).score = ChainScore(W, score) /\ ChainAt(e, C, score).events = W
  BY DEF ChainAt
<1>5. Qualifies(W, score)
  <2> HIDE DEF W
  <2> QED
    BY <1>3, <1>4, QualifiesGrows
<1>6. /\ ChainScore(w, score) \in Int /\ ChainScore(W, score) \in Int
      /\ ChainScore(w, score) <= ChainScore(W, score)
  <2> HIDE DEF W
  <2> QED
    BY <1>3, <1>4, ChainScoreGrows
<1>7. Cardinality(w) <= Cardinality(W) /\ Cardinality(w) \in Nat /\ Cardinality(W) \in Nat
  BY <1>1, <1>3, <1>4, FS_Subset, FS_CardinalityType
<1>8. e \in Ends(C, score)
  BY <1>5 DEF Ends
<1> QED
  BY <1>6, <1>7, <1>8, <1>w

LEMMA InvImpliesChain == AnalysisInv => ChainIsTheBestThereIs
<1> SUFFICES ASSUME AnalysisInv PROVE ChainIsTheBestThereIs
  OBVIOUS
<1> DEFINE score == Scores
           C == Candidates(batch.events)
           chain == Chain(batch.events, score)
           together == {w \in SUBSET C : /\ w # {} /\ Together(w)
                                         /\ Qualifies(w, score)
                                         /\ ChainScore(w, score) >= MinimumScore}
           best == HostChain(C, score)
           found == IF together = {} THEN chain = NoChain
                    ELSE /\ chain.events \in together
                         /\ chain.score = ChainScore(chain.events, score)
                         /\ \A w \in together :
                               /\ ChainScore(w, score) <= chain.score
                               /\ ChainScore(w, score) = chain.score =>
                                     Cardinality(w) <= Cardinality(chain.events)
<1>1. C \subseteq TimedEvent /\ IsFiniteSet(C) /\ Numbers(C, score)
  <2>1. batch.events \subseteq TimedEvent /\ IsFiniteSet(batch.events) /\ C \subseteq batch.events
    BY DEF AnalysisInv, AnalysisTyped, Candidates
  <2>2. Numbers(batch.events, score)
    BY ScoresAreNumbers
  <2> HIDE DEF score, C
  <2> QED
    BY <2>1, <2>2, FS_Subset DEF Numbers
<1>2. MinimumScore \in Nat
  BY AnalysisAssumption
<1>3. chain = IF best.score < MinimumScore THEN NoChain ELSE best
  BY Zenon DEF Chain
<1> HIDE DEF score, C, chain, best
<1>4. ASSUME Ends(C, score) = {} PROVE found
  <2>1. best = NoChain
    BY <1>1, <1>4, HostChainIsBest DEF best
  <2>2. chain = NoChain
    BY <1>3, <2>1
  <2>3. together = {}
    BY <1>1, <1>4, BestOfTogether
  <2> QED
    BY <2>2, <2>3
<1>5. ASSUME Ends(C, score) # {} PROVE found
  <2>1. PICK e \in Ends(C, score) :
           /\ best = ChainAt(e, C, score)
           /\ \A o \in Ends(C, score) : ~Better(ChainAt(o, C, score), ChainAt(e, C, score))
    BY <1>1, <1>5, HostChainIsBest DEF best
  <2> DEFINE W == WindowAt(e, C)
  <2>2. e \in C /\ Qualifies(W, score)
    BY DEF Ends
  <2>3. W \subseteq C /\ W # {} /\ Together(W) /\ IsFiniteSet(W)
    BY <1>1, <2>2, WindowIsTogether
  <2>4. best.score = ChainScore(W, score) /\ best.events = W
    BY <2>1 DEF ChainAt
  <2>5. best.score \in Int
    <3>1. Numbers(W, score)
      BY <1>1, <2>3 DEF Numbers
    <3> HIDE DEF W
    <3> QED
      BY <2>3, <2>4, <3>1, ChainScoreGrows
  <2>6. ASSUME NEW w \in SUBSET C, w # {}, Together(w), Qualifies(w, score)
        PROVE  /\ ChainScore(w, score) \in Int /\ ChainScore(w, score) <= best.score
               /\ ChainScore(w, score) = best.score => Cardinality(w) <= Cardinality(best.events)
    <3>1. PICK o \in Ends(C, score) :
             /\ ChainScore(w, score) <= ChainAt(o, C, score).score
             /\ ChainScore(w, score) \in Int /\ ChainAt(o, C, score).score \in Int
             /\ Cardinality(w) <= Cardinality(ChainAt(o, C, score).events)
             /\ Cardinality(w) \in Nat /\ Cardinality(ChainAt(o, C, score).events) \in Nat
      BY <1>1, <2>6, BestOfTogether
    <3>2. ~Better(ChainAt(o, C, score), best)
      BY <2>1
    <3>3. Cardinality(best.events) \in Nat
      BY <2>3, <2>4, FS_CardinalityType
    <3> DEFINE vo == ChainAt(o, C, score).score
               no == Cardinality(ChainAt(o, C, score).events)
               nb == Cardinality(best.events)
               vw == ChainScore(w, score)
               nw == Cardinality(w)
    <3>4. ~(vo > best.score) /\ ~(vo = best.score /\ no > nb)
      BY <3>2 DEF Better
    <3>5. /\ vw <= vo /\ vw \in Int /\ vo \in Int /\ nw <= no /\ nw \in Nat /\ no \in Nat
          /\ nb \in Nat
      BY <3>1, <3>3
    <3> HIDE DEF vo, no, nb, vw, nw
    <3>6. vw <= best.score /\ (vw = best.score => nw <= nb)
      BY <2>5, <3>4, <3>5
    <3> QED
      BY <3>5, <3>6 DEF vw, nw, nb
  <2>7. CASE best.score < MinimumScore
    <3>1. chain = NoChain
      BY <1>3, <2>7
    <3>2. \A w \in together : FALSE
      <4> SUFFICES ASSUME NEW w \in together PROVE FALSE
        OBVIOUS
      <4>1. ChainScore(w, score) \in Int /\ ChainScore(w, score) <= best.score
        BY <2>6
      <4>2. ChainScore(w, score) >= MinimumScore
        OBVIOUS
      <4> QED
        BY <1>2, <2>5, <2>7, <4>1, <4>2
    <3> QED
      BY <3>1, <3>2
  <2>8. CASE ~(best.score < MinimumScore)
    <3>1. chain = best
      BY <1>3, <2>8
    <3>2. best.score >= MinimumScore
      BY <1>2, <2>5, <2>8
    <3>3. W \in together
      BY <2>2, <2>3, <2>4, <3>2
    <3>4. \A w \in together :
             /\ ChainScore(w, score) <= best.score
             /\ ChainScore(w, score) = best.score => Cardinality(w) <= Cardinality(best.events)
      BY <2>6
    <3> QED
      BY <2>4, <3>1, <3>3, <3>4
  <2> QED
    BY <2>7, <2>8
<1> QED
  <2>1. found
    BY <1>4, <1>5
  <2> QED
    BY <2>1, Zenon DEF ChainIsTheBestThereIs, Together, score, C, chain

(* The windows that end with one of the events are enough to find the best    *)
(* chain: no set of events at most ChainWindow apart that qualifies is better *)
(* than the one reported, and none is missed (_host_chain_finding).           *)
THEOREM ChainIsBest == AnalysisSpec => []ChainIsTheBestThereIs
BY AnalysisInvariant, InvImpliesChain, PTL
=============================================================================
