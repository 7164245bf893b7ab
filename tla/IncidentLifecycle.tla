-------------------------- MODULE IncidentLifecycle --------------------------
(***************************************************************************)
(* The incident lifecycle of QuietWard and the alerts that follow it: the  *)
(* evidence cycles the service and quietward scan commit, the lifecycle    *)
(* repository that reconciles them in order (lifecycle_repository.py,      *)
(* source_aware_lifecycle.py, finding_lifecycle.py), and the alert sink    *)
(* that reads it (operational_findings.py, alerts.py).                     *)
(*                                                                         *)
(* One service process; its cycle is a sequence of transactions with       *)
(* other steps, exceptions and crashes in between.  quietward scan is a    *)
(* process of its own on the same database file.                           *)
(***************************************************************************)
EXTENDS Integers, FiniteSetsExt, Functions

CONSTANTS
    Incident,        \* the subjects findings are about (incident keys)
    MaxScore,        \* scores are 1..MaxScore; a signature is its score
    AlertedFrom,     \* severity grows with the score: high or critical from here on
    MaxCycles,       \* retention.max_cycles
    MaxTransitions,  \* lifecycle max_transitions
    MaxResolved,     \* lifecycle max_resolved_incidents
    Limit,           \* the alert query's LIMIT
    Ages,            \* whether rows may also be deleted by age
    Scans,           \* whether quietward scan runs next to the service
    MaxId,           \* bound on cycle ids
    MaxCrashes,      \* bound on crashes of the service
    MaxErrors        \* bound on exceptions that abandon a cycle

ASSUME ParameterAssumption ==
    /\ MaxScore \in Nat \ {0} /\ AlertedFrom \in Nat \ {0} /\ MaxCycles \in Nat \ {0}
    /\ MaxTransitions \in Nat \ {0} /\ MaxResolved \in Nat /\ Limit \in Nat \ {0}
    /\ Ages \in BOOLEAN /\ Scans \in BOOLEAN
    /\ MaxId \in Nat /\ MaxCrashes \in Nat /\ MaxErrors \in Nat

VARIABLES
    store,   \* chain: retained cycle -> its findings; lastId;
             \* findings: <<incident, cycle>> rows; alerts: those marked alerted
    repo,    \* last: last_processed_cycle_id; rec: incident_lifecycle;
             \* trans: incident_lifecycle_transitions
    svc,     \* the service's cycle in progress, and what its store remembers
    emitter, \* actor -> the alerts it has queried and not yet finished
    hist     \* history of observations and appended alerts, and the budgets

vars == <<store, repo, svc, emitter, hist>>

Actor == {"service", "scan"}

(* The findings of one cycle: a score for each incident, 0 for no finding. *)
Observation == [Incident -> 0..MaxScore]

Quiet == [i \in Incident |-> 0]

NoRecord == [state |-> "none", score |-> 0, finding |-> 0, active |-> FALSE, at |-> 0]

Record == [state : {"new", "recurring", "changed", "resolved"}, score : 1..MaxScore,
           finding : 1..MaxId, active : BOOLEAN, at : 0..MaxId]

NoCycle == [pc |-> "idle", id |-> 0, seen |-> Quiet, covered |-> {}, rows |-> << >>]

NoAlerts == [queue |-> {}, hand |-> {}]

Init ==
    /\ store = [chain |-> << >>, lastId |-> 0, findings |-> {}, alerts |-> {}]
    /\ repo = [last |-> 0, rec |-> [i \in Incident |-> NoRecord], trans |-> {}]
    /\ svc = [cycle |-> NoCycle, warm |-> FALSE]
    /\ emitter = [a \in Actor |-> NoAlerts]
    /\ hist = [observed |-> {}, top |-> Quiet, ever |-> {},
               crashes |-> 0, errors |-> 0, scans |-> 0]

At(pc) == svc.cycle.pc = pc

Active == {i \in Incident : repo.rec[i].active}

-----------------------------------------------------------------------------
(* finding_lifecycle.py *)

Observed(record, id, score) ==
    [state   |-> IF record = NoRecord THEN "new"
                 ELSE IF record.active /\ record.score # score THEN "changed"
                 ELSE "recurring",
     score   |-> score,
     finding |-> id,
     active  |-> TRUE,
     at      |-> 0]

Resolved(record, id) == [record EXCEPT !.state = "resolved", !.active = FALSE, !.at = id]

-----------------------------------------------------------------------------
(* lifecycle_repository.py and source_aware_lifecycle.py *)

(* The newest n of some rows, as ORDER BY ... DESC LIMIT keeps them. *)
Newest(rows, n, Time(_)) ==
    CHOOSE K \in SUBSET rows :
        /\ Cardinality(K) = IF Cardinality(rows) <= n THEN Cardinality(rows) ELSE n
        /\ \A k \in K, j \in rows \ K : Time(k) >= Time(j)

(* Transitions beyond the newest MaxTransitions go first; then resolved    *)
(* incidents beyond the newest MaxResolved, with their transitions (ON     *)
(* DELETE CASCADE).                                                        *)
ResolvedIn(rec) == {i \in Incident : rec[i] # NoRecord /\ ~rec[i].active}

Kept(rec) == Newest(ResolvedIn(rec), MaxResolved, LAMBDA i : rec[i].at)

PrunedRepo(r) ==
    LET gone == ResolvedIn(r.rec) \ Kept(r.rec)
    IN  [r EXCEPT !.rec   = [i \in Incident |-> IF i \in gone THEN NoRecord ELSE @[i]],
                  !.trans = {t \in Newest(@, MaxTransitions, LAMBDA t : t.cycle) :
                               t.key \notin gone}]

(* A wrong form: absence resolves an incident whatever the cycle covered. *)
ResolvableIgnoringCoverage(r, seen, covered) == {i \in Incident : r.rec[i].active /\ seen[i] = 0}

(* incident_resolution_safe: the sources of the incident were covered. *)
Resolvable(r, seen, covered) == {i \in covered : r.rec[i].active /\ seen[i] = 0}

Present(seen) == {i \in Incident : seen[i] > 0}

(* The transaction that ends a reconciliation: the records of the observed *)
(* and the resolved incidents, a transition for each of "noted", the last  *)
(* processed cycle, and pruning.                                           *)
Records(r, id, seen, ended) ==
    [i \in Incident |-> IF i \in Present(seen) THEN Observed(r.rec[i], id, seen[i])
                        ELSE IF i \in ended THEN Resolved(r.rec[i], id)
                        ELSE r.rec[i]]

Transition(rec, id, i) ==
    [key |-> i, cycle |-> id, state |-> rec[i].state, finding |-> rec[i].finding,
     score |-> rec[i].score]

Stored(r, id, seen, ended, noted) ==
    LET rec == Records(r, id, seen, ended)
    IN  PrunedRepo([last |-> id, rec |-> rec,
                    trans |-> r.trans \union {Transition(rec, id, i) : i \in noted}])

(* reconcile_cycle with the coverage of the cycle: only material changes   *)
(* make a transition.                                                      *)
Reconciled(r, id, seen, covered) ==
    LET ended    == Resolvable(r, seen, covered)
        material == {i \in Present(seen) : ~r.rec[i].active \/ r.rec[i].score # seen[i]}
    IN  Stored(r, id, seen, ended, ended \union material)

(* reconcile_cycle of a replayed row: its coverage is not known, nothing   *)
(* resolves, and every finding makes a transition.                         *)
Replayed(r, id, seen) == Stored(r, id, seen, {}, Present(seen))

(* "lifecycle cycle gap"; a processed cycle is no gap, it is skipped. *)
Processed(id) == id <= repo.last

Gap(id) == ~Processed(id) /\ repo.last # 0 /\ id # repo.last + 1

-----------------------------------------------------------------------------
(* storage.py: one persisted cycle, its findings, and retention *)

OldestKept(chain) ==
    LET surplus == Cardinality(DOMAIN chain) - MaxCycles
    IN  IF surplus <= 0 THEN 0 ELSE Min({c \in DOMAIN chain :
            Cardinality({b \in DOMAIN chain : b > c}) < MaxCycles}) - 1

(* Retention deletes cycles through "old" and those beyond MaxCycles, and  *)
(* findings through "old" with the alerts that refer to them.              *)
Retain(s, old) ==
    LET through  == Max({old, OldestKept(s.chain)})
        findings == {f \in s.findings : f[2] > old}
    IN  [s EXCEPT !.chain = Restrict(s.chain, {c \in DOMAIN s.chain : c > through}),
                  !.findings = findings,
                  !.alerts = s.alerts \cap findings]

Old(s) == IF Ages THEN {0} \cup {c \in DOMAIN s.chain : c < s.lastId} ELSE {0}

Added(s, seen) ==
    LET id == s.lastId + 1
    IN  [s EXCEPT !.chain = [c \in DOMAIN s.chain \cup {id} |-> IF c = id THEN seen ELSE s.chain[c]],
                  !.lastId = id,
                  !.findings = s.findings \cup {<<i, id>> : i \in Present(seen)}]

-----------------------------------------------------------------------------
(* The service's cycle (cadenced_service.py run_cycle) *)

Go(pc) == [svc.cycle EXCEPT !.pc = pc]

(* Collectors, scanners, analysis: what was found, which domains covered. *)
(* Once MaxId is reached only cycles that need no new id are collected.    *)
Collect(seen, covered) ==
    /\ At("idle")
    /\ store.lastId < MaxId \/ (seen = Quiet /\ covered = {})
    /\ svc' = [svc EXCEPT !.cycle = [NoCycle EXCEPT !.pc = "collected", !.seen = seen,
                                                    !.covered = covered]]
    /\ UNCHANGED <<store, repo, emitter, hist>>

(* persist_cycle: a durable cycle, with retention or (throttled) without. *)
PersistDurable ==
    /\ At("collected")
    /\ store.lastId < MaxId
    /\ LET s == Added(store, svc.cycle.seen)
       IN  store' \in {s} \cup {Retain(s, old) : old \in Old(s)}
    /\ svc' = [cycle |-> [Go("persisted") EXCEPT !.id = store.lastId + 1], warm |-> TRUE]
    /\ UNCHANGED <<repo, emitter, hist>>

(* persist_cycle, volatile: within the quiet interval a cycle without      *)
(* findings or observed active incidents is given the newest cycle's id.   *)
PersistVolatile ==
    /\ At("collected")
    /\ svc.warm
    /\ svc.cycle.seen = Quiet
    /\ Active \cap svc.cycle.covered = {}
    /\ DOMAIN store.chain # {}
    /\ svc' = [svc EXCEPT !.cycle = [Go("persisted") EXCEPT !.id = Max(DOMAIN store.chain)]]
    /\ UNCHANGED <<store, repo, emitter, hist>>

(* A wrong form: the newest unprocessed row is left out. *)
UnprocessedButLast == {c \in DOMAIN store.chain : repo.last < c /\ c + 1 < svc.cycle.id}

(* catch_up_from_evidence_chain: fetch the unprocessed rows below the      *)
(* current cycle; start at a history floor when the first were pruned.     *)
Unprocessed == {c \in DOMAIN store.chain : repo.last < c /\ c < svc.cycle.id}

StartsLate ==
    /\ repo.last = 0
    /\ Unprocessed # {}
    /\ Min(Unprocessed) > 1
    /\ \A i \in Incident : repo.rec[i] = NoRecord

(* A wrong form: the first retained cycle counts as processed. *)
FloorOffByOne == IF StartsLate THEN Min(Unprocessed) ELSE repo.last

Floor == IF StartsLate THEN Min(Unprocessed) - 1 ELSE repo.last

CatchUp ==
    /\ At("persisted")
    /\ svc' = [svc EXCEPT !.cycle = [Go("replaying") EXCEPT !.rows = Restrict(store.chain, Unprocessed)]]
    /\ repo' = [repo EXCEPT !.last = Floor]
    /\ UNCHANGED <<store, emitter, hist>>

SeenIn(id, seen) == {<<i, id>> : i \in Present(seen)}

(* pending_incident_alert_findings asks for these severities only. *)
Alerting(record) == record.active /\ record.score >= AlertedFrom

(* History: an incident that comes back at such a severity starts anew. *)
Noted(id, seen) ==
    LET Returns(i) == ~repo.rec[i].active /\ Alerting(repo'.rec[i])
    IN  hist' = [hist EXCEPT
                   !.observed  = {o \in @ \cup SeenIn(id, seen) : o[2] \in DOMAIN store.chain},
                   !.top       = [i \in Incident |-> IF Returns(i) THEN 0 ELSE @[i]]]

(* One replayed row. *)
Replay ==
    /\ At("replaying")
    /\ svc.cycle.rows # << >>
    /\ LET id == Min(DOMAIN svc.cycle.rows)
       IN  /\ ~Gap(id)
           /\ IF Processed(id)
              THEN UNCHANGED <<repo, hist>>
              ELSE /\ repo' = Replayed(repo, id, svc.cycle.rows[id])
                   /\ Noted(id, svc.cycle.rows[id])
           /\ svc' = [svc EXCEPT !.cycle.rows = Restrict(@, DOMAIN @ \ {id})]
    /\ UNCHANGED <<store, emitter>>

(* reconcile_cycle of the current cycle. *)
Reconcile ==
    /\ At("replaying")
    /\ svc.cycle.rows = << >>
    /\ ~Processed(svc.cycle.id)
    /\ ~Gap(svc.cycle.id)
    /\ repo' = Reconciled(repo, svc.cycle.id, svc.cycle.seen, svc.cycle.covered)
    /\ svc' = [svc EXCEPT !.cycle = Go("reconciled")]
    /\ Noted(svc.cycle.id, svc.cycle.seen)
    /\ UNCHANGED <<store, emitter>>

AlreadyProcessed ==
    /\ At("replaying")
    /\ svc.cycle.rows = << >>
    /\ Processed(svc.cycle.id)
    /\ svc' = [svc EXCEPT !.cycle = Go("reconciled")]
    /\ UNCHANGED <<store, repo, emitter, hist>>

(* ValueError "lifecycle cycle gap": the cycle is abandoned. *)
GapFails ==
    /\ At("replaying")
    /\ Gap(Min(DOMAIN svc.cycle.rows \cup {svc.cycle.id}))
    /\ svc' = [svc EXCEPT !.cycle = NoCycle]
    /\ UNCHANGED <<store, repo, emitter, hist>>

-----------------------------------------------------------------------------
(* Alerts *)

(* The transitions of i, at most one a cycle, and those whose finding was *)
(* alerted.                                                               *)
TransitionsOf(i) == {t \in repo.trans : t.key = i}

AlertedOf(i) == {t \in TransitionsOf(i) : <<i, t.finding>> \in store.alerts}

Latest(rows) == CHOOSE t \in rows : \A u \in rows : u.cycle <= t.cycle

(* A wrong form: only a new incident is alerted for the first time. *)
FirstAlertWhenNew(i) == AlertedOf(i) = {} /\ repo.rec[i].state = "new"

FirstAlert(i) == AlertedOf(i) = {}

MaterialChange(i) ==
    /\ repo.rec[i].state = "changed"
    /\ AlertedOf(i) # {} => repo.rec[i].score > Latest(AlertedOf(i)).score

Reappeared(i) ==
    LET earlier == {t \in TransitionsOf(i) : \E u \in TransitionsOf(i) : u.cycle > t.cycle}
    IN  repo.rec[i].state = "recurring" /\ earlier # {} /\ Latest(earlier).state = "resolved"

(* Active incidents of these severities whose finding is retained; LIMIT   *)
(* takes the highest scores before the rows are filtered.                  *)
Candidates ==
    {i \in Incident : Alerting(repo.rec[i]) /\ <<i, repo.rec[i].finding>> \in store.findings}

Limited ==
    {S \in SUBSET Candidates :
        /\ Cardinality(S) = IF Cardinality(Candidates) <= Limit THEN Cardinality(Candidates) ELSE Limit
        /\ \A i \in S, j \in Candidates \ S : repo.rec[i].score >= repo.rec[j].score}

(* A wrong form: an incident that came back does not alert again. *)
WantsAlertOnce(i) == FirstAlert(i) \/ MaterialChange(i)

WantsAlert(i) == FirstAlert(i) \/ MaterialChange(i) \/ Reappeared(i)

(* pending_incident_alert_findings *)
Query(a) ==
    \E S \in Limited :
        emitter' = [emitter EXCEPT ![a].queue =
                      {[key |-> i, finding |-> repo.rec[i].finding, score |-> repo.rec[i].score] :
                         i \in {i \in S : WantsAlert(i)}}]

(* LocalAlertSink._append *)
Append_(a, f) ==
    /\ emitter[a].hand = {}
    /\ f \in emitter[a].queue
    /\ emitter' = [emitter EXCEPT ![a].queue = @ \ {f}, ![a].hand = {f}]
    /\ hist' = [hist EXCEPT !.ever = @ \cup {f.key},
                  !.top[f.key] = IF f.score > @ THEN f.score ELSE @]
    /\ UNCHANGED <<store, repo, svc>>

(* mark_alerted *)
Mark(a) ==
    \E f \in emitter[a].hand :
        /\ <<f.key, f.finding>> \in store.findings
        /\ store' = [store EXCEPT !.alerts = @ \cup {<<f.key, f.finding>>}]
        /\ emitter' = [emitter EXCEPT ![a].hand = {}]
        /\ UNCHANGED <<repo, svc, hist>>

QueryAlerts ==
    /\ At("reconciled")
    /\ Query("service")
    /\ svc' = [svc EXCEPT !.cycle = Go("alerting")]
    /\ UNCHANGED <<store, repo, hist>>

(* The cycle succeeded. *)
Complete ==
    /\ At("alerting")
    /\ emitter["service"] = NoAlerts
    /\ svc' = [svc EXCEPT !.cycle = NoCycle]
    /\ UNCHANGED <<store, repo, emitter, hist>>

-----------------------------------------------------------------------------
(* Failures and the other process *)

(* An exception (a locked database, a failed write) abandons the cycle. *)
Fail ==
    /\ ~At("idle")
    /\ hist.errors < MaxErrors /\ store.lastId < MaxId
    /\ svc' = [svc EXCEPT !.cycle = NoCycle]
    /\ emitter' = [emitter EXCEPT !["service"] = NoAlerts]
    /\ hist' = [hist EXCEPT !.errors = @ + 1]
    /\ UNCHANGED <<store, repo>>

(* The process dies and is started again: its memory is gone. *)
Crash ==
    /\ hist.crashes < MaxCrashes /\ store.lastId < MaxId
    /\ svc' = [cycle |-> NoCycle, warm |-> FALSE]
    /\ emitter' = [emitter EXCEPT !["service"] = NoAlerts]
    /\ hist' = [hist EXCEPT !.crashes = @ + 1]
    /\ UNCHANGED <<store, repo>>

(* quietward scan: a cycle with retention and no lifecycle, then alerts. *)
ScanPersist(seen) ==
    /\ Scans
    /\ store.lastId + 1 < MaxId
    /\ emitter["scan"] = NoAlerts
    /\ LET s == Added(store, seen)
       IN  store' \in {Retain(s, old) : old \in Old(s)}
    /\ hist' = [hist EXCEPT !.scans = 1]
    /\ UNCHANGED <<repo, svc, emitter>>

ScanAlerts ==
    /\ Scans
    /\ store.lastId > 0
    /\ emitter["scan"] = NoAlerts
    /\ Query("scan")
    /\ UNCHANGED <<store, repo, svc, hist>>

(* The cycle in progress goes on. *)
Continue ==
    \/ PersistDurable
    \/ PersistVolatile
    \/ CatchUp
    \/ Replay
    \/ Reconcile
    \/ AlreadyProcessed
    \/ GapFails
    \/ QueryAlerts
    \/ \E f \in emitter["service"].queue : Append_("service", f)
    \/ Mark("service")
    \/ Complete

Service ==
    \/ \E seen \in Observation, covered \in SUBSET Incident : Collect(seen, covered)
    \/ Continue

Scan ==
    \/ \E seen \in Observation : ScanPersist(seen)
    \/ ScanAlerts
    \/ \E f \in emitter["scan"].queue : Append_("scan", f)
    \/ Mark("scan")

Next == Service \/ Fail \/ Crash \/ Scan

Spec == Init /\ [][Next]_vars

(* The service keeps running: systemd restarts it, its loop starts cycle   *)
(* after cycle.  (Any start of a cycle ends the obligation to start one.)  *)
FairSpec == Spec /\ WF_vars(Continue) /\ WF_vars(Collect(Quiet, {}))

-----------------------------------------------------------------------------
(* Properties *)

(* Findings of some of the first n cycles; what a cycle holds after n. *)
Rows(n) == UNION {[C -> Observation] : C \in SUBSET (1..n)}

Cycle(n) == [pc : {"idle", "collected", "persisted", "replaying", "reconciled", "alerting"},
             id : 0..n, seen : Observation, covered : SUBSET Incident, rows : Rows(n)]

TypeOK ==
    /\ store \in [chain : Rows(store.lastId), lastId : 0..MaxId,
                  findings : SUBSET (Incident \X (1..MaxId)),
                  alerts : SUBSET (Incident \X (1..MaxId))]
    /\ store.alerts \subseteq store.findings
    /\ repo.last \in 0..store.lastId
    /\ repo.rec \in [Incident -> Record \union {NoRecord}]
    /\ \A i \in Incident : repo.rec[i].finding <= repo.last
    /\ svc \in [cycle : Cycle(store.lastId), warm : BOOLEAN]

(* "Findings now have stable new, recurring, changed, and resolved states"  *)
(* (docs/releases/v0.5.0-alpha.1.md): a finding of a retained cycle the     *)
(* repository counts as processed was observed by the lifecycle, whatever  *)
(* crashed between the cycle's commit and its reconciliation.              *)
EveryFindingHasALifecycleState ==
    \A c \in DOMAIN store.chain :
        c <= repo.last => SeenIn(c, store.chain[c]) \subseteq hist.observed

(* "An incident cannot resolve merely because an unrelated cadence did not *)
(* observe its source domain": a step that ends an incident is the         *)
(* reconciliation of the current cycle, which covered it and did not see   *)
(* it, in a cycle that was persisted after it was last seen.               *)
OnlyCoverageResolves ==
    [][\A i \in Active :
         ~repo'.rec[i].active =>
             /\ i \in svc.cycle.covered /\ svc.cycle.seen[i] = 0
             /\ repo.rec[i].finding < svc.cycle.id]_vars

(* No alert is lost for good: when a cycle completes, every active incident *)
(* of high or critical severity has been in the alert log, whatever cycles  *)
(* before it failed or crashed.  (The log asks for no other severities.)    *)
ActiveIncidentsWereAlerted ==
    [][Complete => \A i \in Incident : Alerting(repo.rec[i]) => i \in hist.ever]_vars

(* Material escalation alerts again: when a cycle completes, every active  *)
(* incident of high or critical severity has been in the alert log with    *)
(* its present score or a higher one since it last came back at such a     *)
(* severity - while every cycle is the service's and none was abandoned,   *)
(* with the alerts of another process and retention at any time.  An       *)
(* incident that comes back below and rises later is compared with what    *)
(* was alerted before it ended: at its old score it is not alerted again.  *)
EscalationIsAlertedUnlessCyclesFail ==
    [][Complete /\ hist.errors + hist.crashes + hist.scans = 0
         => \A i \in Incident :
              Alerting(repo.rec[i]) => hist.top[i] >= repo.rec[i].score]_vars

(* Catch-up overtakes crashes: again and again the lifecycle has processed *)
(* every cycle that was committed - or retention has removed the next one  *)
(* it needs, and every reconciliation ends in a gap error.                 *)
Overtaken == repo.last # 0 /\ repo.last + 1 < Min(DOMAIN store.chain)

CyclesAreReconciled == []<>(repo.last = store.lastId \/ Overtaken)
=============================================================================
