# QuietWard: verification development

TLA+ models of QuietWard's observation cycle, evidence store, incident
lifecycle, scheduling, reviews, analysis, run loop, installation and Response
hand-off, TLC configurations that check them on small instances, and TLAPS
proofs of what matters most. Paths below are relative to the repository;
modules of the program without a directory are in `src/quietward/`.

Run a model with `tlc -workers 2 -config <X>.cfg <Module>`, a proof with
`tlapm <Module>.tla`. `PROJECT.json` lists every run with its properties, the
source lines behind every definition, a wrong form of the code that breaks each
property, the hazards and the finding.

## 1. The system

QuietWard observes one endpoint. A single service process wakes up, decides
which observation lanes are due, collects, analyses, commits one *cycle* to a
SQLite file and appends alerts to a JSON-lines log. Other processes open the
same file: `quietward scan` (commits a cycle of its own), dashboards and CLI
commands (audit, review), and the Response hand-off exporter (read-only).

| Component | Source | State | Operations | What makes it correct |
|---|---|---|---|---|
| Evidence store | `storage.py`, `maintenance_store.py`, `evidence.py` | tables `cycles`, `evidence_chain`, `evidence_signatures`; metadata for anchor and signing | open/configure signing, persist, prune, audit | retained rows link from the anchor; damage is exposed; retention bounded |
| Verification cache | `performance_store.py` | checkpoint, dirty flag, last result, `data_version` | verify: full, incremental, cached | no false alarm; damage is found and stays reported |
| Service cycle | `cadenced_service.py`, `core_service.py`, `core_store.py`, `cadenced_collector.py` | snapshot, remembered logons, manifest, cycle in progress | collect, examine, analyse, persist, reconcile, save, complete | nothing is accepted unreported; a failed cycle loses nothing it need not |
| Collection, coverage | `collectors/`, `coverage.py`, `incident_coverage.py` | snapshot and warnings of a cycle | merge, diff, coverage, resolvable sources | absence of coverage is never absence of risk |
| Incident lifecycle | `lifecycle_repository.py`, `source_aware_lifecycle.py`, `finding_lifecycle.py` | records, transitions, last processed cycle | reconcile, catch up, prune | every committed finding reaches it; only coverage resolves |
| Alerts | `operational_findings.py`, `alerts.py` | alert log, table `alerts` | query, append, mark | none lost |
| Cadence, governor | `cadence.py`, `maintenance_governor.py`, `core_service.py`, `performance_budget.py` | next due, deferrals, forced lanes, counters | govern, decide, complete | starvation bounded; incident work not deferred; every lane runs |
| Reviews, suppression | `product_store.py`, `suppression.py`, `storage.py` | rules, rule cache | review, reopen, filter | an event is hidden only while its review stands |
| Baseline, warm start | `baseline.py`, `warm_start.py`, `performance_service.py` | counts per domain, stored report and snapshot | observe, report, restore, evaluate | a warm start is earned; maturity is kept |
| Correlation, scoring, context | `scoring.py`, `correlation.py`, `pipeline.py`, `temporal_context.py`, `contextual_pipeline.py` | context window | score, chain, enrich, commit, discard | best chain; monotone ratings; complete context |
| Scanner freshness | `freshness.py` | discovery and event caches | inspect, report | stale data stays reported |
| Run loop, health, lock | `service.py`, `performance_service.py`, `health_io.py`, `locking.py` | lock, failure count, health file | start, cycle, wait, report, exit | the health file tells the truth and survives a power failure |
| Windows restart gate | `windows_restart.py`, `scripts/inspect_windows_restart_state.py` | last report | inspect, decide | stale operations are confirmed across boots |
| Migration | `scripts/migrate_pre_rename_user_install.py`, `scripts/install_user_service.sh` | two installations, backups, two units | prepare, install, roll back, finalize | recoverable; nothing lost |
| Hand-off exporter | `scripts/run_response_handoff_outbox.py` | ledger, outbox files | export_once | nothing skipped, bounded, delivered |

Interactions: within a cycle the service calls store, lifecycle repository and
alert sink in that order, each in transactions of its own; the collector is told
the lanes of the cadence decision; the coverage of the cycle decides which
incidents its silence may resolve; the governor reads the performance budget and
the domains of active incidents; what a cycle leaves in the file is what the next
start may take over; the exporter follows the chain through the database file
only, and meets Response only through the outbox directory; the installer meets
the run loop through systemd.

Hard behaviours: reads outside a transaction that go stale before they are used
(audit, rule cache, volatile cycles, the exporter's start); exceptions and kills
between the transactions of one cycle, while the references of the next
comparison are saved in several of them; retention moving the start of the chain
under every reader; deferral counters and schedules over many cycles; reports
that are coalesced, lost, or not durable; two writers on one file.
`PROJECT.json` lists them line by line.

## 2. Modules

| Module | Models | Builds on |
|---|---|---|
| `ChainRows` | the database as a record and the store's operations on it, as operators | |
| `EvidenceLog` | abstract: append-only log with a retained suffix | |
| `EvidenceChain` | processes that open, configure, persist, prune, audit and close one file | `ChainRows`, implements `EvidenceLog` |
| `EvidenceDamage` | the same on a file whose rows are damaged from outside | `EvidenceChain` |
| `VerifyCache` | the service's cached verification | `ChainRows` |
| `Collection` | what a cycle sees of each domain, merge, differences, coverage | |
| `Observation` | the observation cycle with its transactions, `quietward scan` next to it | `Collection` |
| `IncidentLifecycle` | cycle commit, catch-up, reconcile, alerts, crash, concurrent scan | |
| `Cadence` | scheduler, governor and service loop | |
| `Reviews` | reviews, rules and the filter's cache | |
| `WarmStart` | baseline, coverage report, warm start | |
| `Correlation` | event scores, subject ratings, chains, as operators | |
| `Analysis` | the context window over cycles, and analysed files | `Correlation` |
| `Freshness` | the age of a scanner's data | |
| `ServiceRun` | the run loop, the lock and the health file | |
| `Migration` | the upgrade of a Forge Sentinel installation | |
| `Operations` | the upgrade next to the service it installs and systemd | `Migration`, `ServiceRun` |
| `WindowsRestart` | the gate before a soak | |
| `HandoffOutbox` | the exporter, its ledger and outbox, Response and retention | `ChainRows` |
| `MCReviews`, `MCAnalysis`, `MCOperations` | instances for TLC | |
| `ChainRowsProofs`, `EvidenceChainProofs`, `VerifyCacheProofs`, `LifecycleProofs`, `ObservationProofs`, `OperationsProofs`, `ServiceProofs`, `HandoffProofs` | proofs | the modules they are named for; `EvidenceChainProofs` also `EvidenceDamage`; `ObservationProofs` also `Analysis`; `ServiceProofs`: `WarmStart`, `WindowsRestart`, `Freshness`, `Reviews` and `Cadence` |

### Evidence chain
`db` is the file; `conn[c]` is the memory of process `c` (its signer and the
locals of the operation it is in). A write transaction is one step, because
SQLite's write lock is held from the first INSERT and all reads in it see what
it writes on. Every read outside a transaction is a step: `ConfigureRead` /
`ConfigureWrite` for `_configure_signing`, `PersistCheck` / `PersistCommit` for
`persist_cycle`, `AuditAnchor` / `AuditMeta` / `AuditRows` for
`verify_evidence_chain` (the row cursor holds one snapshot). Hashes and MACs
are injective tuples. A payload is one of a small set. The age cutoff deletes
through any chosen id. `MaintenanceSentinelStore` may skip the prune
(`Throttled`). `EvidenceDamage` adds steps that change one column, replace a
row by a self-consistent one, or lose a row; the newest unsigned row is exempt,
since nothing in the store witnesses it - as the documentation says. What
damage leaves in a column of row i is `Garbage(i)`: no digest, and not what
damage to another row leaves. If two rows could hold the same non-digest, the
loss of the row between them would show only in the second; TLC finds that with
three damaging steps.

### Verification cache
`moved` stands for a changed `PRAGMA data_version`; `mem` for the store's
attributes and locals; `ghost.disturbed` says that another process wrote during
the call; `ghost.found` that an audit found damage which is still there: it ends
when a full audit would pass again, because retention has removed the rows. The incremental walk reads its rows and their signatures in one step:
a change in between can only produce a mismatch, and a mismatch falls back to
the full audit.

### Observation cycle
A domain holds one item; its value is a version, a number no other state of the
machine has had, so that "this very state was reported" can be said. An item can
also be absent, or present but not inspectable. The machine changes between
cycles only: a cycle reads an item once, so a change in its middle is one before
or after it. `Collection` has what differs per domain: which lane reads it, which
incomplete collection leaves the old records, which warning it leaves and which
coverage that becomes. Of the attributes of a container and of a process only
whether a version carries risk markers or suspicious markers is kept: they decide
what `diff_snapshots` reports. `Observation` runs a cycle through `Collect`, `Examine`
(scanners and integrity), `Analyse` (suppression), `Persist` in the mode the
store chooses (`full`, `reference` or `volatile`), `Reconcile`, `SaveManifest`,
`Complete`; `Fail` and `Restart` come between any two. An incident is the set of
sources it came from. Scanner runs happen in cycles of the maintenance lane at
any interval; whether a start is warm is a free choice here, `WarmStart` models
the decision. `collector_other`, where warnings go that no pattern matches, is a
domain of the coverage report: no source has it, but it makes the report unsafe
as a whole, which decides incidents whose source has no domain of its own
(`incident_coverage.py:52`, `:67`). Such a source is `freshness`, the inspector of
scanner data; an event it withholds because it said so a while ago
(`freshness.py:193`) counts as not seen, and its scanner as complete. The domain
`evidence_chain` is taken as intact here (`EvidenceChain` has it); the Windows
domain `microsoft_defender` is not required for resolution and left out. What
`collector_other` does to the baseline is in `WarmStart`.

### Incident lifecycle
A cycle is `Collect`, `PersistDurable` or `PersistVolatile`, `CatchUp`,
`Replay`*, `Reconcile`, `QueryAlerts`, `Append_`/`Mark`*, `Complete`; `Fail` and
`Crash` come between any two. Abstractions: an incident is a model value; its
signature is its score, and its severity grows with it: the alert query asks for
high and critical ones (`operational_findings.py:84`), scores from `AlertedFrom`
on; a finding is `<<incident, cycle>>`, at most one per
incident and cycle; review states and `max_findings` are left out; a domain
covers incidents, so a cycle's coverage is a set of incidents. The transitions
are a set: an incident has at most one in a cycle, and rows of one cycle that
meet at the limit may go in any order.

### Cadence
Times are the seconds left, so that the state is finite and the proofs need no
clock. The budget's verdict, the protected lanes and incident activity are free
choices each cycle; `Init` is a cold start or any warm start. `skipped` is a
history variable: consecutive cycles in which a lane was due and did not run.
`CadenceAssumption` has `DeferSeconds <= FastSeconds`, which holds for a
collection interval of a second or more (`core_service.py` takes
`min(60, max(1, interval))`).

### Reviews
A review and its rule are one transaction. The service's filter reads the
`data_version`, then the rules, then the evidence behind each rule's finding,
then filters: four steps, between which reviews, reopenings, retention and
`quietward scan` commit. `between` keeps what `ReviewsAreRespected` measures the
filter by: the scopes that were reviewed at some time since the version was read,
and the rules, each with its scope, that applied all that time. The rule has to
be the same throughout: a scope that first one rule has and then another, whose
finding is reviewed in between, need not have been in the rules that were read.

### Baseline and warm start
A count stops at three, the number that establishes a domain. A tick is about
150 s, so that the limits of the code are two ticks (snapshot 360 s, report
checkpoint and full snapshot 300 s) and four (coverage 600 s). `past` records
what the stored cycles really saw, against which the decision is judged.

### Analysis
Scores are hundredths of a point, so that a weight times a confidence in percent
is exact; a logarithm is rounded down. The host is one. The minimum score of a
finding is left to its reader: a rating is a rating whether it is reported or not.
Sums of bonuses count the points of what an event has, the logarithm the powers
of two it reaches. `HostChain` says what the loop over the ends of windows keeps:
the first of the best.
The context window is an ordered list; `past` are the last `MaxContext` events of
complete cycles, against which it is judged. The snapshots of a cycle are taken
at one time, the logs are read then or later, and their events carry the times of
their lines, up to the clock, which is monotone. Files that `quietward analyze`
reads have events of any time and no context.

### Freshness
One scanner, whose data is known by the time its newest file was written. The
caches belong to the process; what a cycle says is stored, suppressed or lost
with the cycle. The clock is the wall clock and may be set back once files were
looked up (`wall.wound`).

### Run loop, installation
`ServiceRun` has every process that is told to run: the unit's and others, some
for a single cycle. The health file has two values, what a reader sees and what a
power failure leaves; a write without an fsync reaches the disk at any later time
(`WriteBack`). The rename of a report is assumed not to overtake its data.
`Migration` is the installer's script step by step with `prepare`, `finalize` and
the trap: each rename, each `systemctl` call and each check is a step, a step can
fail (`StepFails`, with the handlers of its place), a command can be killed, the
power can fail, and the user may start or stop the legacy service. `Operations`
puts both together: `enable --now` makes systemd run `ServiceRun`'s process,
`is-active` is what systemd says of it, the trap's `disable --now` waits for its
end. The unit is `Type=simple`, so it is active as soon as it runs. A manual run
is not stopped by anybody: when the rollback takes the installation away under it,
its next report or alert makes the state directory again (`StateDirectoryMade`).
That directory has no marker, and from then on `prepare` refuses, or fails at its
last rename.

### Windows restart gate
`host` is the machine: queued operations, the files they name, flags, boots and
the boot token; `record` the last report, which is the history of the next
inspection and may be lost; `proof` the boots in which the very same set was
inspected and none of its sources found. The script passes `os.path.exists`, which
answers `False` for a source it may not read: such a source is classified stale, and
the branch of `windows_restart.py` for a question that fails is never taken.

### Hand-off exporter
`export_once` step by step: `Load`, `ReadAnchorCycle`, `ReadAnchorHash`,
`VerifyRows`, `Resolve`, `OpenRows`, then `Admit`, `Write`, `Save` per row and
`Finish`. An `OutboxError` returns to idle: the process ends and systemd starts
it again (`Restart=on-failure` in the unit the installer writes). A file is the
version that wrote it, since `__version__` is the only part of the content that
can differ for one cycle; `Write` is the exclusive create-or-compare. A file
removed between the existence test and its comparison raises as well; that only
repeats a pass and is folded into `Write`. The fail-closed rules of
`docs/V06_RESPONSE_HANDOFF.md` that depend on a cycle's content are two sets of
payloads: `_bundle` refuses an `Incompatible` one (several hosts, a host id outside
the Response contract), before the capacity is looked at, and `_atomic_json` an
`Oversized` one, before it looks for a file.

## 3. Runs

`tlc -workers 2`, each below three minutes. Bounds are named constants and stand
in the guards.

| Run | Configuration and bounds | Checks |
|---|---|---|
| `evidence_chain` | `ChainConcurrent`: two processes, no key and two keys, `max_cycles` 2, four ids | `LinksVerify`, `RetentionBounded`, refinement of `EvidenceLog` (`ImplementsLog`), `TypeOK` |
| `evidence_damage` | `ChainDamage`: one process, restarted with and without its key, two payloads, three damaging steps, four ids | `UndamagedChainVerifies`, `NoFalseAlarm`, `AuditExposesDamage` |
| `verify_cache` | `VerifyCache`: a second writer, one damaging step, four ids | `NoFalseAlarm`, `FoundDamageStaysReported`, `CachedAnswerIsAboutTheseRows`, `DamageIsReported` |
| `observation` | `Observation`: Debian with logons, sensitive files, processes and containers, a scanner, the freshness of its data, and integrity; four sets of due lanes; up to two changes of the machine, the second to a version with markers, and with them up to three troubles (incomplete collection or check, suppressed or withheld event, exception, kill, `quietward scan`) | `NothingIsAcceptedSilently`, `OneTimeEventsAreKept`, `ContextIsDurable`, `ObservedAbsenceResolves`, `OnlyObservedAbsenceResolves` |
| `coverage_misclassified` | `ObservationDebian`: outbound connections and containers, one change, two changes and troubles together | violates `OnlyObservedAbsenceResolves` |
| `incident_lifecycle` | `LifecycleCrash`: five cycles, two crashes, `max_cycles` 2, two transitions, deletion by age | `EveryFindingHasALifecycleState`, `OnlyCoverageResolves`, `CyclesAreReconciled` |
| `incident_alerts` | `LifecycleAlerts`: three scores, the upper two alerted, a crash, an exception, a concurrent scan, four cycles, three transitions (an episode below the alerted severities fits between two alerts) | `ActiveIncidentsWereAlerted`, `EscalationIsAlertedUnlessCyclesFail` |
| `cadence` | `Cadence`: four lanes, two deferrals | `StarvationBounded`, `IncidentWorkIsNotDeferred`, `EveryLaneRuns` |
| `reviews` | `Reviews`: two subjects, two kinds (one that is never hidden), one event a cycle, two findings, three commits of others, one tick; subjects are symmetric | `ReviewsAreRespected` |
| `analysis` | `Analysis`: eight shapes of events, cycles of two events, a window of three, files of four events over four instants | `ChainIsTheBestThereIs`, `MoreEvidenceNeverLowersARating`, `ContextIsComplete` |
| `operations` | `Operations`: the sum of four parts. Upgrade: two runs of the installer, one fault, one row, a manual run next to the unit, one trouble. Start: three core domains, three mishaps. Gate: four operations, five events. Data: clock to 4, three upsets | `FailedInstallRestoresLegacy`, `RetiredLegacyIsCarriedOver`, `HealthSurvivesPowerLoss`, `HealthTellsTheTruth`, `WarmStartIsEarned`, `MaturityIsKept`, `StaleIsConfirmedAcrossBoots`, `StaleDataIsReported` |
| `handoff_outbox` | `HandoffOutbox`: one exporter, a crash, an upgrade, an outbox of two files, `max_cycles` 2; payloads that are handed over, have no findings, are refused, are too large | `RetainedFindingsAreHandedOver`, `PendingIsBounded`, `RepetitionNeedsACrash`, `EveryFindingIsDelivered` |

Why the bounds are enough: ids go above the retention bound in every run, so that
pruning, an anchor that moves twice and an empty table occur; each race is
between one reader and one writer, so two of each suffice; failures are bounded
by counters that allow two in a row where one can follow from the other. A
change that is reported, reverted and reported again needs two versions. In
`analysis` four events hold two chains that overlap, which is what the sliding
window decides about; the shapes meet in every rule of the correlation. The parts
of `operations` share no state: a behaviour of `MCOperations` follows one of them,
so TLC explores their sum and not their product. The same configuration of
`Observation` passes with `Platform = "windows"`.

Deadlock is checked where the program never rests. `CHECK_DEADLOCK FALSE` stands
where a bound ends a behaviour: the clock, the commits, the runs of the
installer or the mishaps are used up (`Analysis`, `Reviews`, `Operations`) or
every item and trouble is (`Observation`, `ObservationDebian`).

### Where the properties stop
* `UndamagedChainVerifies` and `NoFalseAlarm` (evidence) are checked for one
  process at a time. With two both are false: the signing requirement is read
  before the transaction that commits (`storage.py:309`, `:230`), so a process
  without a key can commit an unsigned cycle after another has enabled signing;
  and a prune between the audit's read of the anchor and its read of the rows
  (`storage.py:483` and `499`) makes the audit of an intact chain report a fault.
* `NoFalseAlarm` and `CachedAnswerIsAboutTheseRows` (cache) excuse a call that
  another process wrote into (`ghost.disturbed`). Without the excuse both are
  false: `data_version` is read after the walk (`performance_store.py:218`), so
  a commit in between counts as verified until the next change or full audit.
* `EveryFindingHasALifecycleState` is checked with crashes but without
  exceptions and scans: with either it is false, because a volatile cycle takes
  the newest id of the database (`maintenance_store.py:100`), which may be that
  of a cycle the lifecycle has not seen.
* Alerts: nothing claims that an unchanged recurrence is quiet - after a
  reappearance it is not (`operational_findings.py:148`) - and an escalation's
  alert is lost when its cycle fails between reconciliation and alert
  (`cadenced_service.py:328`), which `EscalationIsAlertedUnlessCyclesFail` says
  in its name. An incident of lower severity is never alerted, and one that comes
  back at lower severity and rises later is "changed", so it is compared with the
  alerts from before it ended: at its old score it is not alerted in this episode
  (`operational_findings.py:150`). The property therefore counts from the last
  return at a high or critical severity.
* `FailedInstallRestoresLegacy` allows such a state directory, and nothing else of
  QuietWard, after a rollback that a manual run outlived (`service.py:38`,
  `health_io.py:44`, `alerts.py:100`). The lock and health file are modelled as if
  their directory stayed in place: after a rollback has moved it
  (`scripts/migrate_pre_rename_user_install.py:368`) the code's next unit would
  find a new lock and report next to the run that holds the old one.
  `HealthTellsTheTruth` and `HealthSurvivesPowerLoss` speak of one directory.
* A maintenance lane that becomes due between the two cadence decisions of a
  cycle (`core_service.py:84`, `cadenced_service.py:113`) is completed with the
  scanners closed; `Cadence` has both decisions, and no property claims otherwise.
* `CyclesAreReconciled` and `EveryFindingIsDelivered` name their exception:
  retention removed the next cycle the reader needs (`Overtaken`). From there
  the service fails with a gap error, the exporter with an `OutboxError`, until
  an operator intervenes.
* `EveryFindingIsDelivered` names a second one (`Blocked`): a cycle that the
  exporter refuses (`scripts/run_response_handoff_outbox.py:367`,
  `integrations/response.py:230`) or whose file is too large (`:166`) ends every
  later pass at the same row, and the findings of all later cycles wait behind it.
* The exporter's ledger can also pass cycles that are pruned between its check
  of the ledger (`scripts/run_response_handoff_outbox.py:326`) and its query of
  the rows (`:411`); `RetainedFindingsAreHandedOver` speaks of retained cycles.
* `NothingIsAcceptedSilently` excuses three things the code does: a new process
  without suspicious markers is taken as it is (`collectors/diff.py:73`); after a
  container could not be inspected, so is a configuration without risk markers;
  after a scan that found no snapshot (`cli.py:239`) the next record of a file
  that replaces none is, also when a later snapshot carries the missing record on.
* `OneTimeEventsAreKept` excuses cycles that failed: what they had remembered
  (`cadenced_collector.py:135`) or recorded is lost with them. `ContextIsDurable`
  is one-sided: a failure after the commit discards durable evidence as well.
* `MaturityIsKept` ends with the first unclassified warning: `collector_other`
  is never complete again, so no baseline is (`coverage.py:212`).
  `WarmStartIsEarned` speaks of the last report: a deep domain that degraded
  counts as healthy again in the next FAST cycle, in which it is merely not due.
* `StaleIsConfirmedAcrossBoots` says that no source was *found*: one that exists
  and cannot be read counts as absent, so the report's "contains only absent
  sources" (`windows_restart.py:178`) says more than was established. It excludes a
  clock that moved the boot token (rounded to minutes) and the external decision; `StaleDataIsReported` allows
  that the report was lost or suppressed, and data found less than
  `discovery_cache_seconds` ago.
* `HealthSurvivesPowerLoss` excludes the minimal report (`service.py:415`), which
  bypasses the durability policy; `HealthTellsTheTruth` a failed write.
* `FailedInstallRestoresLegacy` excludes killed commands, power failures and a
  user who meddles; `RetiredLegacyIsCarriedOver` rows written by a legacy service
  the user started after the copy.
* `ContextIsComplete` speaks of events of this moment. An older event, of a log
  that was read late, can be related to events that its own cycle or an earlier
  one has pruned: `enrich` prunes the window by the newest event of the cycle
  (`temporal_context.py:91`) before it looks at the older ones. It does so in
  cycles that fail afterwards too, although `contextual_pipeline.py:12` says that
  `analyze` "never mutates the window"; what it drops is too old for any event of
  a later moment, which is what the property claims.
* `ReviewsAreRespected` is about the service's filter; that of `quietward scan`
  takes an empty list of kinds for all kinds (`storage.py:700`).
* The lifecycle runs have one incident. Incidents meet only in
  `max_resolved_incidents` and the alert query's LIMIT, which the runs keep at
  zero and at the number of incidents.

### Fairness
* `VerifyCache`: the service calls verification and the audit interval elapses
  (its timer and the monotonic clock).
* `IncidentLifecycle`: weak fairness of the service's steps: the loop of
  `service.py run` and systemd's restart keep it going. Crashes are bounded, so
  it is not assumed that each cycle succeeds.
* `Cadence`: weak fairness of the loop and of time, strong fairness of a
  successful cycle per lane: after `stop_after_failures` failures in a row the
  service stops, so endless failure is not a run of it.
* `HandoffOutbox`: weak fairness of the exporter (its loop, and the restart by
  systemd) and of Response's ingestion per file.

The other specifications state safety only.

### The run that shows a disagreement
`coverage_misclassified`: `docs/V05_REVIEW_GUIDE.md:25` says "A not-due or
degraded domain must never count as proof that an incident disappeared." On
Debian a missing privacy identity withholds the outbound connections under the
warning "outbound connection privacy identity unavailable" (`collectors/debian.py:159`),
which the pattern "outbound privacy identity" (`coverage.py:176`) does not match:
the domain counts as complete and empty, and its incidents resolve. The warnings
about accounts and groups (`collectors/persistence.py:60`, `:91`) match no
pattern either. With the collector domains of run `observation`, whose warnings
match, the property holds.

## 4. Proofs

No proof assumes more than the named assumptions of the modules' constants and
what its theorem states in its ASSUME. The bounds of the runs (`MaxId`,
`MaxCrashes`, `MaxDamage`, `MaxChanges` and the like) are arbitrary natural
numbers there.

`EvidenceChainProofs` (`max_cycles` is a positive natural, `NoKey` is no key; any
processes, keys and payloads):
* `LinksAlwaysVerify`: `Spec => []LinksVerify`. `LinksVerify` is not inductive:
  a prune turns the last removed row into the anchor, which is the right start
  only because no id is missing. `DbInv` (in `ChainRowsProofs`, with what
  appending and pruning preserve) adds that: retained ids are exactly
  `anchor+1 .. lastId`, and each row is sound against its predecessor.
* `RetentionIsBounded`: from `DbInv` and a counting lemma on intervals.
* `ChainImplementsLog`: every step appends, forgets a prefix, both, or stutters.
* `TypeCorrect`: `Spec => []TypeOK`.
* `UndamagedVerifies`, `AuditsRaiseNoFalseAlarm` (at most one process): signing
  is configured only where it is not, so every row above the boundary is signed
  with the one key, and what an audit read first still holds when it walks.
* `DamageIsExposed` (at most one process, any number of damaging steps): the
  invariant says that there is a table T of the rows as they were inserted
  (`Truth`). A row's hash may have been damaged before the next row was inserted
  on it, but then it is no digest, or its row's signature does not fit it
  (`TailOf`). If an audit passed although some row is lost or not as in T, the
  newest such row would either be the newest of all or have a successor as in T,
  and each contradicts `TailOf`. Nothing weaker is inductive: a later row may
  have sealed a damaged hash, and the row that shows it may be pruned.

`VerifyCacheProofs` (`BoundsAssumption`, `GarbageAssumption` and those of
`ChainRows`; any writers and damage): `CacheRaisesNoFalseAlarm`,
`CacheHidesNoFoundDamage`, `CachedAnswersAreCurrent` from one invariant over the
file and the store's memory. The file is `Linked`: each row is as the program
appended it, but for columns that were damaged since, and its signature is that
of the row as appended. So what a walk finds is known (`SoundIsClean`): it fails
exactly if a row it sees is damaged or does not follow on where the walk starts.
The checkpoint is a row that was there; retention may have taken it, but a walk
that passes from it has still found the whole chain sound (`OldStart`), and one
that fails from it will until retention passes the fault, since only a sound walk
moves it (`Suspected`).

`LifecycleProofs` (`ParameterAssumption`; any incidents, scores and limits):
* `LifecycleTypes`, and from it `AbsenceMustBeCovered`. The transaction of a
  reconciliation makes the observed records active, ends those it names and
  keeps the rest; pruning drops inactive ones only; a replayed row ends none. No
  record is newer than the last processed cycle, which is below the one
  reconciled.
* `ActiveIncidentsAlerted`: while no row is deleted by age the finding of an
  active incident is stored, so an incident of high or critical severity is a
  candidate of the query, and the query returns all candidates within its limit;
  from the query to the end of the cycle such an incident is in the log or queued. It assumes that the
  incidents are at most the query's LIMIT and that nothing is deleted by age.
* `EscalationsAreAlerted`, under the same assumptions, for the states in which
  nothing was abandoned (`Calm`; they are closed backwards, since the budgets
  only grow). There no row is replayed and no cycle has a gap before it
  (`Position`). The alert query decides by the newest `MaxTransitions`
  transitions, so the invariant says what pruning leaves of them: of an
  incident, those after any that is kept, at most one a cycle, and of an incident
  that has ended, an end after all of them. Then what was written since the
  incident last came back at an alerted severity is at most the top of what the
  log holds of that time (`TopCovers`), and an incident with a transition from
  before has one that was alerted since or is about to be (`Marked`, `Due`).
  Without the last, a "changed" incident could be compared with an alert from
  before that return, and its escalation lost. `Marked` is kept while the incident
  is resolved or below these severities.
* `FindingsHaveALifecycle`: a service that runs and is not between commit and
  reconciliation has processed every row, or is stuck behind a row that
  retention has taken; a cycle in between has the id of the row it committed or,
  volatile, of a processed one. It assumes no concurrent scan and no exception,
  without which the property is false (see above).

`ObservationProofs` (`CollectionAssumption`, `ObservationAssumption`; any domains
of either platform, lanes, changes and mishaps), from one invariant:
* `ChangesAreAccountedFor`: every record of a snapshot is accounted for
  (`Vouched`), the cycle's new snapshot differs from one in order by what its
  events say, and those are stored or suppressed in the transaction that makes
  the snapshot the reference; likewise the manifest, which is saved later.
* `OneTimeEvents`, `ContextDurable`: what is remembered or pending is in the
  events of the cycle in progress until it is stored, suppressed or lost.
* `AbsenceResolves`: what a cycle observed is what its coverage calls complete
  or more, and a volatile cycle observed no active incident as a whole; a source
  without a domain is observed by a cycle that observed everything
  (`Testifies`), whose report is safe as a whole.
* `OnlyAbsenceResolves` assumes `EveryWarningIsMatched`: the warnings of every
  enabled domain are recognised as its own. Windows meets it, and Debian without
  outbound connections and persistence; without it the property is false, as run
  `coverage_misclassified` shows.

and about `Analysis` (`CorrelationAssumption`: weights and bonuses are natural
numbers, event ids are ordered; `AnalysisAssumption`: the shapes are finitely many
records of the right types, one for each id; any tables, windows and limits):
* `ContextComplete`: the window is the end of the past, and what is missing of it
  is older than the context window allows for this clock (`WindowOfPast`). Pruning
  drops such events only, and a full deque drops the same end of both.
* `MoreEvidenceNeverLowers`: each part of a rating grows with the events
  (`HighestGrows`, `ImagesGrow`, `CombinedGrows`); the subjects that share an
  actor are totally ordered by score and rank (`LeadsIsATotalOrder`), so one of
  them takes the evidence, and where it is another one than before, that one has
  as high a score (`CorroborationGrows`).
* `ChainIsBest`: events at most `ChainWindow` apart lie in the window that ends
  with their last (`WindowsHoldAll`), which qualifies if they do
  (`QualifiesGrows`) and scores no less (`ChainScoreGrows`); the loop's preference
  among windows is a total order (`WinsIsATotalOrder`), so it keeps a best one.
  Of these the rule for two phases is the one that is not obvious: an execution
  and a connection alone need a matching program, and a chain that gains phases
  must not fall back under that rule; it cannot, having two other phases or three.

`OperationsProofs` (`ServiceAssumption`, `UnitAssumption`, `MigrationAssumption`;
any number of processes next to the installer and systemd):
* `ServiceTypes`, `HealthIsTrue`: only the holder of the lock reports, and every
  report of an end is durable before the lock is released.
* `HealthIsDurable`: a report goes unsynced only if the policy of its process
  remembers a durable one that says the same.
* `FailedInstalls`, `RetiredLegacy`, from `UpgradeInv`: where the installer
  stands says what has been moved where; without meddling the legacy service
  stays stopped in between and what was moved can be moved back; what is
  finalized is final; a state directory that a program made again stands alone or
  next to the configuration that `prepare` takes back. The two properties are parts of the invariant, with one
  lemma for each of the installer's steps.

`ServiceProofs`:
* `WarmStartsAreEarned`, `MaturityIsNotLost` (`WarmAssumption`; any core domains,
  limits and mishaps): the stored baseline never counts more than the service's,
  and that one never more than happened; a warning of the last stored cycle is
  in the stored snapshot; the stored report is healthy only if the last one was,
  because a report that says otherwise is material and is not coalesced.
* `StaleSetsAreConfirmed` (`RestartAssumption`; any operations and events): a
  report with as many stale operations as operations found no source;
  if the token moved and the clock did not move it, the host has booted since.
* `StaleDataStaysReported` (`FreshnessAssumption`; all ages and intervals): what
  the process remembers to have said is the last report stored or lost, and what
  was found is the data unless that changed since.
* `OnlyReviewedEventsAreHidden` (`ReviewsAssumption`; any subjects, kinds,
  findings and commits): a commit of another process moves the version, so a
  cache that is filed under the present version is that of the present rules,
  and findings never gain a kind; the rules that were read, and then their
  scopes, lie between what always applied and what was ever reviewed. The run
  has one event a cycle, so that a finding has one kind; the theorem has no such
  bound.
* `CadenceTypes`, `StarvationIsBounded`, `IncidentWorkRuns`
  (`CadenceAssumption`): a deferral lasts at most as long as the loop waits, so a
  cycle starts with none pending; one that is pending when the cycle decides was
  granted, and counted, by this cycle's governor.

`HandoffProofs` (`OutboxAssumption` and those of `ChainRows`; any number of
exporters): `OutboxTypes` and `NothingIsPassedOver` from one invariant: whatever an
exporter holds in memory was true of the store when it was read, and the store
only forgets; a row is left behind by the cursor only after it was handed over.
`OneExporterIsBounded` assumes a single exporter: with two the count of files is
stale and the limit can be passed. `OneExporterRepeatsAfterCrashes` assumes one
as well, since a second exporter repeats what the first is handing over: what is
handed over ahead of the ledger is a debt, which the saved ledger settles or a
crash pays for.

Every invariant and action property of a passing run is the statement of a
theorem, in some cases under the assumption named above. Only model-checked is
liveness (`DamageIsReported`, `CyclesAreReconciled`, `EveryLaneRuns`,
`EveryFindingIsDelivered`): liveness under fairness is outside the prover's reach.

## 5. Not modelled

* Parsers and operating-system collectors beyond the warnings and records they
  leave, scanner subprocesses, process attribution: text and I/O, in one step
  for a cycle.
* Dashboards, exports, console and CLI formatting, metrics and retention report:
  they display what the store holds.
* Configuration parsing, privacy identities, the specialist model and the
  external integrations: stateless functions, hashing, or not the program's own.
* In modelled components: the review state shown with an incident,
  `max_findings` and the alert log's rotation; the wording of reasons and
  explanations; hash reuse and the file limit of the integrity monitor; the size
  limits of the freshness caches; the budget's percentiles (a free verdict); the
  cache of coalesced metadata; payload content, JSON and cryptography.

## 6. What would come next

* Liveness of the migration (run again, it ends) and of the run loop under
  systemd's restart.
* The lifecycle with two incidents that compete for the alert query's LIMIT.
