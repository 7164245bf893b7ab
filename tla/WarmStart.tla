------------------------------- MODULE WarmStart -------------------------------
(***************************************************************************)
(* What a service that starts may take over from the one before it: the    *)
(* coverage baseline (baseline.py), the coverage report that is written    *)
(* now and then (performance_service.py, service.py) and the decision for  *)
(* a warm start, which postpones the heavy lanes (warm_start.py).          *)
(*                                                                         *)
(* Time passes in ticks between two cycles.                                *)
(***************************************************************************)
EXTENDS Integers, FiniteSets

CONSTANTS
    Core,            \* the observation domains that gate the baseline
    Collectors,      \* those whose trouble is a warning of the snapshot
    Always,          \* those that are due in every cycle
    SnapshotLimit,   \* max_snapshot_age_seconds in ticks
    CoverageLimit,   \* max_coverage_age_seconds
    CoverageCheckpoint,  \* COVERAGE_CHECKPOINT_SECONDS
    FullInterval,    \* full_snapshot_interval_seconds
    MaxMishaps       \* bound on incomplete domains, failures, restarts, damage

Chain == "evidence_chain"
Scanner == "scanner"

ASSUME WarmAssumption ==
    /\ Collectors \subseteq Core /\ Always \subseteq Core /\ Chain \in Always \ Collectors
    /\ Scanner \notin Core
    /\ {SnapshotLimit, CoverageLimit, CoverageCheckpoint, FullInterval, MaxMishaps} \subseteq Nat

VARIABLES
    disk,     \* snapshot, coverage: the stored ones with their ages; intact: the chain
    svc,      \* the service's memory, its cycle in progress
    past      \* what the stored cycles really saw, and the budget

warmVars == <<disk, svc, past>>

Never == -1

Older(age, limit) == IF age = Never \/ age > limit THEN age ELSE age + 1

-----------------------------------------------------------------------------
(* baseline.py *)

(* Complete observations of each core domain, as far as they matter, and   *)
(* whether "collector_other" was met: a domain that exists in cycles with  *)
(* an unclassified warning only, required and never complete.              *)
NoBaseline == [count |-> [d \in Core |-> 0], other |-> FALSE]

BaselineObserved(baseline, states) ==
    [count |-> [d \in Core |->
                  IF states[d] = "complete" /\ baseline.count[d] < 3
                  THEN baseline.count[d] + 1 ELSE baseline.count[d]],
     other |-> baseline.other \/ "collector_other" \in DOMAIN states]

Confidence(baseline) ==
    CASE baseline.other \/ \E d \in Core : baseline.count[d] < 1 -> "unready"
      [] OTHER -> IF \A d \in Core : baseline.count[d] >= 3 THEN "established" ELSE "initial"

RestoredEmpty(coverage) == NoBaseline

(* CoverageBaselineTracker.from_coverage_metadata *)
Restored(coverage) == IF coverage.age = Never THEN NoBaseline ELSE coverage.baseline

-----------------------------------------------------------------------------
(* Coverage of a cycle *)

Degrading(states) == {d \in DOMAIN states : states[d] = "degraded"}

NoStates == [d \in {} |-> ""]

(* operationally_healthy: what is not due is healthy. *)
Healthy(states) == Degrading(states) = {}

Warned(states) == Degrading(states) \intersect (Collectors \union {"collector_other"}) # {}

CoverageKeyOfConfidence(states, baseline) == <<Confidence(baseline)>>

(* _coverage_material_key *)
CoverageKey(states, baseline) == <<Healthy(states), Confidence(baseline), Degrading(states)>>

CoverageReport(states, baseline) ==
    [age |-> 0, healthy |-> Healthy(states), baseline |-> baseline]

-----------------------------------------------------------------------------
(* warm_start.py *)

Fresh(age, limit) == age # Never /\ age <= limit

EligibleForWarmStart ==
    /\ Fresh(disk.snapshot.age, SnapshotLimit) /\ ~disk.snapshot.warned
    /\ Fresh(disk.coverage.age, CoverageLimit)
    /\ Confidence(disk.coverage.baseline) = "established"
    /\ disk.coverage.healthy
    /\ disk.intact

(* build_service.  A cold start makes every lane due; a warm one postpones *)
(* the heavy lanes, except those an active incident needs.                 *)
Loaded(start) ==
    [pc |-> "idle", start |-> start, states |-> NoStates, fullAge |-> Never,
     baseline |-> Restored(disk.coverage), checkpoint |-> Never, material |-> << >>]

WarmInit ==
    /\ disk = [snapshot |-> [age |-> Never, warned |-> FALSE],
               coverage |-> [age |-> Never, healthy |-> FALSE, baseline |-> NoBaseline],
               intact |-> TRUE]
    /\ svc = Loaded("cold")
    /\ past = [count |-> [d \in Core |-> 0], other |-> FALSE, warned |-> FALSE,
               healthy |-> TRUE, mishaps |-> 0]

Mishaps(n) ==
    /\ past.mishaps + n <= MaxMishaps
    /\ past' = [past EXCEPT !.mishaps = @ + n]

-----------------------------------------------------------------------------
(* The service's cycle *)

Abandoned == svc' = [svc EXCEPT !.pc = "idle", !.states = NoStates]

States(d) ==
    IF d = Chain THEN IF disk.intact THEN {"complete"} ELSE {"degraded"}
    ELSE {"complete", "degraded"} \union
         (IF d \in Always \/ (d \in Core /\ svc.start = "cold") THEN {} ELSE {"not_due"})

(* Collect, verify, check: the coverage report of the cycle. *)
Observe ==
    /\ svc.pc = "idle"
    /\ \E other \in {{}, {"collector_other"}} :
       \E states \in [Core \union {Scanner} \union other -> {"complete", "degraded", "not_due"}] :
          /\ \A d \in Core \union {Scanner} : states[d] \in States(d)
          /\ \A d \in other : states[d] = "degraded"
          /\ Mishaps(Cardinality(Degrading(states) \ {Chain}))
          /\ svc' = [svc EXCEPT !.pc = "observed", !.states = states]
    /\ UNCHANGED disk

(* A cycle without warnings and events may be stored without its snapshot. *)
QuietCycle ==
    /\ svc.fullAge # Never /\ svc.fullAge < FullInterval
    /\ ~Warned(svc.states) /\ disk.intact

(* persist_cycle, and the baseline that observes it. *)
Commit(full) ==
    /\ svc.pc = "observed"
    /\ full \/ QuietCycle
    /\ disk' = IF full
               THEN [disk EXCEPT !.snapshot = [age |-> 0, warned |-> Warned(svc.states)]]
               ELSE disk
    /\ svc' = [svc EXCEPT !.pc = "committed", !.start = "running",
                          !.fullAge = IF full THEN 0 ELSE @,
                          !.baseline = BaselineObserved(@, svc.states)]
    /\ LET real == BaselineObserved([count |-> past.count, other |-> past.other], svc.states) IN
       past' = [past EXCEPT !.count = real.count, !.other = real.other,
                            !.warned = Warned(svc.states)]

CheckpointDue ==
    \/ svc.checkpoint = Never \/ svc.checkpoint >= CoverageCheckpoint
    \/ svc.material # CoverageKey(svc.states, svc.baseline)

(* _persist_coverage_metadata: coalesced, or written. *)
ReportCoverage ==
    /\ svc.pc = "committed"
    /\ disk' = IF CheckpointDue THEN [disk EXCEPT !.coverage = CoverageReport(svc.states, svc.baseline)]
               ELSE disk
    /\ svc' = [svc EXCEPT
                 !.pc = "idle", !.states = NoStates,
                 !.checkpoint = IF CheckpointDue THEN 0 ELSE @,
                 !.material = IF CheckpointDue THEN CoverageKey(svc.states, svc.baseline) ELSE @]
    /\ past' = [past EXCEPT !.healthy = Healthy(svc.states)]

(* The write fails: the cycle goes on, the error is in its health report. *)
CoverageNotWritten ==
    /\ svc.pc = "committed" /\ CheckpointDue
    /\ Abandoned /\ Mishaps(1)
    /\ UNCHANGED disk

(* An exception, before the commit or in the reconciliation after it. *)
CycleRaises ==
    /\ svc.pc # "idle"
    /\ Abandoned /\ Mishaps(1)
    /\ UNCHANGED disk

-----------------------------------------------------------------------------
(* The machine *)

ServiceRestarts ==
    /\ Mishaps(1)
    /\ svc' = Loaded(IF EligibleForWarmStart THEN "warm" ELSE "cold")
    /\ UNCHANGED disk

RowIsDamaged ==
    /\ disk.intact /\ svc.pc = "idle" /\ Mishaps(1)
    /\ disk' = [disk EXCEPT !.intact = FALSE]
    /\ UNCHANGED svc

TimePasses ==
    /\ svc.pc = "idle" /\ disk.snapshot.age # Never
    /\ disk' = [disk EXCEPT !.snapshot.age = Older(@, SnapshotLimit),
                            !.coverage.age = Older(@, CoverageLimit)]
    /\ svc' = [svc EXCEPT !.fullAge = Older(@, FullInterval),
                          !.checkpoint = Older(@, CoverageCheckpoint)]
    /\ UNCHANGED past

WarmNext ==
    \/ Observe \/ (\E full \in BOOLEAN : Commit(full)) \/ ReportCoverage
    \/ CoverageNotWritten \/ CycleRaises
    \/ ServiceRestarts \/ RowIsDamaged \/ TimePasses

WarmSpec == WarmInit /\ [][WarmNext]_warmVars

-----------------------------------------------------------------------------
(* Properties *)

(* "A warm restart is allowed only from recent, established, healthy and      *)
(* cryptographically verified state" (docs/releases/v0.5.0-alpha.1.md): a     *)
(* service that starts warm follows stored cycles that really observed every  *)
(* core domain three times, the last of which had no warning, and the last    *)
(* report that was not lost was healthy - whatever crashed between a cycle's  *)
(* commit and its report, and whichever reports were coalesced.               *)
WarmStartIsEarned ==
    svc.start = "warm" =>
        /\ \A d \in Core : past.count[d] = 3
        /\ ~past.warned /\ past.healthy

(* A baseline once stored as established stays so over restarts, failed       *)
(* writes and failed cycles - until the first unclassified warning, after     *)
(* which no baseline is ever established again.                               *)
MaturityIsKept ==
    [][Confidence(disk.coverage.baseline) = "established" =>
          \/ Confidence(disk'.coverage.baseline) = "established"
          \/ past'.other]_warmVars
=============================================================================
