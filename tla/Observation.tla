------------------------------ MODULE Observation ------------------------------
(***************************************************************************)
(* One observation cycle of the service from the decision to the health    *)
(* report (cadenced_service.py, core_service.py), what it remembers        *)
(* between cycles, and quietward scan next to it.                          *)
(*                                                                         *)
(* The machine changes at any moment.  A cycle is a sequence of            *)
(* transactions: it can fail with an exception or be killed between any    *)
(* two of them.                                                            *)
(***************************************************************************)
EXTENDS Collection

CONSTANTS
    Schedules,    \* the sets of lanes that become due together
    MaxTrouble    \* bound on changes of the machine together with collections and
                  \* checks that do not complete, events withheld or suppressed,
                  \* exceptions, kills, runs of quietward scan

ASSUME ObservationAssumption ==
    Schedules \subseteq SUBSET Lane /\ MaxTrouble \in Nat

VARIABLES
    world,   \* the machine: item: version of each source; changes so far
    db,      \* snapshot, manifest, recorded: the findings of the last scanner
             \* run; active: incidents (sets of
             \* sources); backlog: scan's finding not yet reconciled
    mem,     \* the service's memory: snapshot, cold, full, remembered, window, pending
    cyc,     \* the cycle in progress
    scan,    \* quietward scan
    hist     \* durable and accepted events, those lost, and the budgets

vars == <<world, db, mem, cyc, scan, hist>>

(* What looks at the machine besides the collectors. *)
Check == {"self_integrity", "scanner"}

Source == Enabled \union Check \union Undomained

(* Events of these kinds are never suppressed. *)
Unsuppressible == {"self_integrity"}

NoCycle == [pc |-> "idle", due |-> {}, active |-> {}, seen |-> NoSnapshot, events |-> {},
            kept |-> {}, coverage |-> [s \in {} |-> ""], observed |-> {},
            warned |-> FALSE, manifest |-> Never, findings |-> {}]

(* The memory of a service that starts (build_service): the warm start loads *)
(* the newest snapshot; without one every lane is due in the first cycle.    *)
Started(snapshot, cold) ==
    [snapshot |-> snapshot, cold |-> cold, full |-> FALSE,
     remembered |-> {}, window |-> {}, pending |-> {}]

NoScan == [pc |-> "idle", snapshot |-> NoSnapshot, events |-> {}]

Init ==
    /\ world = [item |-> [s \in Source |->
                             IF s \in {"authentication", "scanner", "freshness"}
                             THEN Nothing ELSE 1],
                changes |-> 0]
    /\ db = [snapshot |-> NoSnapshot, manifest |-> Never, recorded |-> Nothing,
           active |-> {}, backlog |-> FALSE]
    /\ mem = Started(NoSnapshot, TRUE)
    /\ cyc = NoCycle
    /\ scan = NoScan
    /\ hist = [durable |-> {}, accepted |-> {}, lost |-> {}, emptied |-> FALSE,
               trouble |-> 0]

At(pc) == cyc.pc = pc

Bounded(n) == world.changes + hist.trouble + n <= MaxTrouble

-----------------------------------------------------------------------------
(* The machine *)

Fresh == world.changes + 2

(* A cycle reads an item once: a change in its middle is one before it or *)
(* after it.                                                              *)
Change ==
    /\ At("idle") /\ world.changes < MaxChanges /\ Bounded(1)
    /\ \E s \in Source, v \in {Nothing, Fresh} :
          /\ v = Nothing => s \notin Check \union {"sensitive_files"}
          /\ world.item[s] # v
          /\ world' = [item |-> [world.item EXCEPT ![s] = v], changes |-> world.changes + 1]
    /\ UNCHANGED <<db, mem, cyc, scan, hist>>

-----------------------------------------------------------------------------
(* Decision, collect *)

(* What the collectors make of the domains that are switched on: those   *)
(* that are not due are switched off for this cycle.                     *)
Collected(active, outcome) ==
    [d \in Snapshotted |-> IF d \in active THEN Seen(d, outcome[d], world.item[d]) ELSE Nothing]

(* The failures the log holds, if it could be read. *)
LoggedFailures(active, outcome) ==
    {<<d, world.item[d]>> : d \in {e \in {"authentication"} \intersect Enabled \intersect active :
                                     outcome[e] = "complete" /\ world.item[e] # Nothing}}

(* On Windows an event bears the time of the cycle: it is new in each. *)
Renewed == Platform = "windows"

(* An event of the rolling log is new unless it was collected before. *)
Deduplicated(events) == {e \in events : Renewed \/ e[2] \notin mem.remembered}

Remembering(events) == mem.remembered \union {e[2] : e \in events}

Incomplete(outcome) == {d \in Enabled : outcome[d] # "complete"}

(* A collection that does not complete counts against the bound. *)
Endings == IF Bounded(1) THEN UNION {Outcome(d) : d \in Enabled} ELSE {"complete"}

Collect ==
    /\ At("idle")
    /\ \E due \in IF mem.cold THEN {Lane} ELSE Schedules :
       LET active == ActiveDomains(due) IN
       \E outcome \in [Enabled -> Endings] :
          /\ \A d \in Enabled : outcome[d] \in (IF d \in active THEN Outcome(d)
                                                ELSE {"complete"})
          /\ Bounded(Cardinality(Incomplete(outcome)))
          /\ LET seen == Merged(mem.snapshot, Collected(active, outcome), active)
                 auth == Deduplicated(LoggedFailures(active, outcome))
             IN
             /\ cyc' = [cyc EXCEPT
                          !.pc = "collected", !.due = due, !.active = active, !.seen = seen,
                          !.events = Differences(mem.snapshot, seen, active) \union auth,
                          !.coverage = CoverageOf(outcome, active),
                          !.observed = (Enabled \intersect active) \ Incomplete(outcome),
                          !.warned = Incomplete(outcome) # {}]
             /\ mem' = [mem EXCEPT !.remembered = Remembering(auth)]
          /\ hist' = [hist EXCEPT !.trouble = @ + Cardinality(Incomplete(outcome))]
    /\ UNCHANGED <<world, db, scan>>

-----------------------------------------------------------------------------
(* Self-integrity and scanners *)

(* SelfIntegrityMonitor.scan: the first manifest is accepted as it is. *)
IntegrityEvents(state) ==
    IF state # "not_due" /\ db.manifest \notin {Never, world.item["self_integrity"]}
    THEN {<<"self_integrity", world.item["self_integrity"]>>} ELSE {}

(* What a run of the scanner found: an error may come with results (the job *)
(* has several targets) or without any.                                     *)
Findable(run) ==
    CASE run = "complete" -> {world.item["scanner"]}
      [] run = "degraded" -> {Nothing, world.item["scanner"]}
      [] OTHER            -> {Nothing}

ScannerEvents(found) == {<<"scanner", found>>} \ {<<"scanner", Nothing>>}

(* ScannerFreshnessInspector.event, asked in every cycle: stale data, or *)
(* nothing if that was said a while ago (Freshness has when).            *)
Said == {Nothing, world.item["freshness"]}

FreshnessEvents(said) == {<<"freshness", said>>} \ {<<"freshness", Nothing>>}

(* A scanner that ran without an error is degraded if its data is said to be *)
(* stale.                                                                    *)
ScannerState(run, said) == IF run = "complete" /\ said # Nothing THEN "degraded" ELSE run

(* How a check can end.  The interval of a scanner may not be over in a *)
(* cycle of the maintenance lane.                                       *)
Integrity == IF "deep" \in cyc.due THEN {"complete", "degraded"} ELSE {"not_due"}

Scanned ==
    IF "maintenance" \in cyc.due THEN {"not_due", "complete", "degraded"} ELSE {"not_due"}

Checks(integrity, run, said) ==
    [s \in Check |-> IF s = "scanner" THEN ScannerState(run, said) ELSE integrity]

(* What counts against the bound. *)
Faults(integrity, run, said) ==
    Cardinality({s \in Check : (IF s = "scanner" THEN run ELSE integrity) = "degraded"})
        + Cardinality({world.item["freshness"]} \ {said})

(* A scanner's run is recorded before the cycle is committed. *)
Examined(integrity, run, found, said) ==
    LET checks == Checks(integrity, run, said) IN
    /\ db' = IF run = "not_due" THEN db ELSE [db EXCEPT !.recorded = found]
    /\ cyc' = [cyc EXCEPT
                 !.pc = "examined",
                 !.events = @ \union IntegrityEvents(integrity)
                              \union ScannerEvents(found) \union FreshnessEvents(said),
                 !.coverage = [s \in DOMAIN cyc.coverage \union Check |->
                                  IF s \in Check THEN checks[s] ELSE cyc.coverage[s]],
                 !.observed = @ \union {s \in Check : checks[s] = "complete"},
                 !.manifest = IF integrity = "not_due" THEN Never
                              ELSE world.item["self_integrity"]]

Examine ==
    /\ At("collected")
    /\ \E integrity \in Integrity, run \in Scanned, said \in Said : \E found \in Findable(run) :
          /\ Bounded(Faults(integrity, run, said))
          /\ hist' = [hist EXCEPT !.trouble = @ + Faults(integrity, run, said)]
          /\ Examined(integrity, run, found, said)
    /\ UNCHANGED <<world, mem, scan>>

-----------------------------------------------------------------------------
(* Suppression, analysis, persistence *)

SourcesOf(events) == {e[1] : e \in events}

(* A finding per source, and one that correlates them all. *)
FindingsOf(events) ==
    ({{s} : s \in SourcesOf(events)} \union {SourcesOf(events)}) \ {{}}

DiscardedIntoWindow(m) == [m EXCEPT !.window = @ \union m.pending, !.pending = {}]

Discarded(m) == [m EXCEPT !.pending = {}]

Committed(m) == [m EXCEPT !.cold = FALSE, !.window = @ \union m.pending, !.pending = {}]

(* ContextualPipeline.analyze refuses while events are pending. *)
Analyse ==
    /\ At("examined") /\ mem.pending = {}
    /\ \E gone \in SUBSET {e \in cyc.events : e[1] \notin Unsuppressible} :
       LET kept == cyc.events \ gone IN
          /\ Bounded(Cardinality(gone))
          /\ hist' = [hist EXCEPT !.trouble = @ + Cardinality(gone)]
          /\ cyc' = [cyc EXCEPT !.pc = "analysed", !.kept = kept, !.findings = FindingsOf(kept)]
          /\ mem' = [mem EXCEPT !.pending = kept]
    /\ UNCHANGED <<world, db, scan>>

EligibleWithEvents == mem.full /\ ~cyc.warned

(* MaintenanceSentinelStore._quiet_cycle_eligible *)
Eligible == mem.full /\ cyc.kept = {} /\ ~cyc.warned

NeverRequiresDurable(sources) == FALSE

(* CoreSentinelStore._active_incidents_require_durable_cycle *)
RequiresDurable(sources) ==
    \E s \in sources :
        CASE s \in Undomained     -> TRUE
          [] s = "scanner"        -> "maintenance" \in cyc.due
          [] s = "self_integrity" -> "deep" \in cyc.due
          [] OTHER                -> s \in cyc.active

VolatileAllowed == \A c \in db.active : ~RequiresDurable(c)

(* The values the first snapshot brings are the baseline; so is the record of *)
(* a file after quietward scan stored a snapshot without it.                  *)
Baseline ==
    {<<d, cyc.seen[d]>> : d \in
        {e \in Snapshotted : \/ mem.snapshot = NoSnapshot
                             \/ e = "sensitive_files" /\ mem.snapshot[e] = Nothing /\ hist.emptied}}

Accounted == hist.durable \union hist.accepted

(* persist_cycle: a full cycle stores the snapshot and the events, a quiet *)
(* one refers to the stored snapshot or is not stored at all.              *)
Persist(mode) ==
    /\ At("analysed")
    /\ mode # "full" => Eligible
    /\ mode = "volatile" => VolatileAllowed
    /\ cyc' = [NoCycle EXCEPT !.pc = mode, !.coverage = cyc.coverage,
                               !.observed = cyc.observed, !.findings = cyc.findings,
                               !.manifest = cyc.manifest]
    /\ db' = IF mode = "full" THEN [db EXCEPT !.snapshot = cyc.seen] ELSE db
    /\ mem' = [mem EXCEPT !.snapshot = cyc.seen, !.full = @ \/ mode = "full"]
    /\ hist' = [hist EXCEPT !.durable = IF mode = "full" THEN @ \union cyc.kept ELSE @,
                            !.accepted = @ \union Baseline \union (cyc.events \ cyc.kept)]
    /\ UNCHANGED <<world, scan>>

-----------------------------------------------------------------------------
(* Lifecycle, manifest, context *)

Resolved(active) ==
    {c \in active : c \notin cyc.findings /\ ResolutionSafe(c, cyc.coverage)}

CaughtUp == IF db.backlog THEN db.active \union {{"scanner"}} ELSE db.active

(* A volatile cycle carries the id of the newest stored one: it reconciles *)
(* nothing, or a cycle of quietward scan without its findings.             *)
Reconcile ==
    /\ cyc.pc \in {"full", "reference", "volatile"}
    /\ db' = [db EXCEPT !.backlog = FALSE,
                        !.active =
                           IF At("volatile")
                           THEN IF db.backlog THEN @ \ Resolved(@) ELSE @
                           ELSE (CaughtUp \ Resolved(CaughtUp)) \union cyc.findings]
    /\ cyc' = [NoCycle EXCEPT !.pc = "reconciled", !.observed = cyc.observed,
                               !.findings = cyc.findings, !.manifest = cyc.manifest]
    /\ UNCHANGED <<world, mem, scan, hist>>

SaveManifest ==
    /\ At("reconciled")
    /\ db' = IF cyc.manifest = Never THEN db ELSE [db EXCEPT !.manifest = cyc.manifest]
    /\ hist' = IF cyc.manifest # Never /\ db.manifest = Never
               THEN [hist EXCEPT !.accepted = @ \union {<<"self_integrity", cyc.manifest>>}]
               ELSE hist
    /\ cyc' = [NoCycle EXCEPT !.pc = "saved"]
    /\ UNCHANGED <<world, mem, scan>>

Complete ==
    /\ At("saved")
    /\ mem' = Committed(mem)
    /\ cyc' = NoCycle
    /\ UNCHANGED <<world, db, scan, hist>>

-----------------------------------------------------------------------------
(* Failures *)

(* Sources whose events are not collected again. *)
OneTime == {"authentication", "scanner"}

Lost == [hist EXCEPT !.trouble = @ + 1, !.lost = @ \union {e \in cyc.events \ Accounted : e[1] \in OneTime}]

Fail ==
    /\ ~At("idle") /\ Bounded(1)
    /\ mem' = Discarded(mem)
    /\ cyc' = NoCycle
    /\ hist' = Lost
    /\ UNCHANGED <<world, db, scan>>

(* The process ends, in a cycle or between two, and starts again. *)
Restart ==
    /\ Bounded(1)
    /\ \E cold \in BOOLEAN :
          /\ db.snapshot = NoSnapshot => cold
          /\ mem' = Started(db.snapshot, cold)
    /\ cyc' = NoCycle
    /\ hist' = Lost
    /\ UNCHANGED <<world, db, scan>>

-----------------------------------------------------------------------------
(* quietward scan: records its runs, stores the newest snapshot once more *)

ScanRuns ==
    /\ scan.pc = "idle" /\ Bounded(1)
    /\ hist' = [hist EXCEPT !.trouble = @ + 1]
    /\ db' = [db EXCEPT !.recorded = world.item["scanner"]]
    /\ scan' = [pc |-> "ran",
                snapshot |-> IF db.snapshot = NoSnapshot THEN EmptySnapshot ELSE db.snapshot,
                events |-> ScannerEvents(world.item["scanner"])]
    /\ UNCHANGED <<world, mem, cyc>>

ScanCommits ==
    /\ scan.pc = "ran"
    /\ \E gone \in SUBSET scan.events :
          /\ db' = [db EXCEPT !.snapshot = scan.snapshot,
                              !.backlog = @ \/ scan.events \ gone # {}]
          /\ hist' = [hist EXCEPT !.durable = @ \union (scan.events \ gone),
                                  !.accepted = @ \union gone,
                                  !.emptied = @ \/ scan.snapshot = EmptySnapshot]
    /\ scan' = NoScan
    /\ UNCHANGED <<world, mem, cyc>>

Next ==
    \/ Change
    \/ Collect \/ Examine \/ Analyse
    \/ \E mode \in {"full", "reference", "volatile"} : Persist(mode)
    \/ Reconcile \/ SaveManifest \/ Complete
    \/ Fail \/ Restart
    \/ ScanRuns \/ ScanCommits

Spec == Init /\ [][Next]_vars

-----------------------------------------------------------------------------
(* Properties *)

(* Whatever the next cycle takes for granted - in the service's snapshot, in   *)
(* the stored one, in the integrity manifest - was there at the beginning, was *)
(* reported in a stored event, or was suppressed: no cycle that fails, no      *)
(* restart, no lane that is not due and no concurrent quietward scan lets a    *)
(* change slip into the reference.  Exceptions: a process without suspicious   *)
(* markers is taken as it is, a container's configuration without risk markers *)
(* is after it could not be inspected, and the next record of a file is after  *)
(* a quietward scan that found no snapshot.                                    *)
NothingIsAcceptedSilently ==
    /\ \A reference \in {mem.snapshot, db.snapshot} : \A d \in Snapshotted :
          \/ reference[d] \in {Never, Nothing}
          \/ <<d, reference[d]>> \in Accounted
          \/ d = "docker" /\ reference[d] \notin Risky /\ <<d, Unknown>> \in Accounted
          \/ d = "processes" /\ reference[d] \notin Risky
    /\ db.manifest # Never => <<"self_integrity", db.manifest>> \in Accounted

(* What is collected once only - a logon failure that is remembered, the result *)
(* of a scanner whose run is recorded - is stored or suppressed in the end,     *)
(* unless the cycle that held it failed.                                        *)
OneTimeEventsAreKept ==
    \A e \in ({"authentication"} \X mem.remembered) \union
             ({"scanner"} \X ({db.recorded} \ {Nothing})) :
        e \in Accounted \union cyc.events \union scan.events \union hist.lost

(* The correlation window holds stored evidence only, so that a failed cycle *)
(* cannot influence later findings (ContextualPipeline).                     *)
ContextIsDurable == mem.window \subseteq hist.durable

(* What the cycle can testify to: a source it observed in full, and one that *)
(* has no coverage domain if it observed all the others (stale data that the *)
(* inspector does not repeat is not seen then).                              *)
Testifies(s) ==
    IF s \in Undomained THEN Source \ Undomained \subseteq cyc.observed ELSE s \in cyc.observed

(* An incident leaves the active ones by absence only in a cycle that looked  *)
(* at everything the incident came from, and did not see it: a domain that    *)
(* was not due or degraded is no evidence (incident_coverage, coverage).      *)
OnlyObservedAbsenceResolves ==
    [][\A c \in db.active \ db'.active : c \notin cyc.findings /\ \A s \in c : Testifies(s)]_vars

(* Conversely a cycle that looked at everything an active incident came from, *)
(* and did not see it, resolves it, stored or not                             *)
(* (_active_incidents_require_durable_cycle).                                 *)
ObservedAbsenceResolves ==
    At("reconciled") =>
        \A c \in db.active : c \in cyc.findings \/ \E s \in c : ~Testifies(s)
=============================================================================
