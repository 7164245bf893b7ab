------------------------------- MODULE Cadence -------------------------------
(***************************************************************************)
(* Which observation lanes a service cycle runs: the lane scheduler        *)
(* (cadence.py), the governor that postpones optional lanes under load     *)
(* (maintenance_governor.py), the service cycle that consults both         *)
(* (core_service.py, cadenced_service.py) and the loop that waits between  *)
(* cycles (service.py run).                                                *)
(*                                                                         *)
(* Monotonic times are kept as the seconds that remain until them: a lane  *)
(* is due when none remain.                                                *)
(***************************************************************************)
EXTENDS Integers

CONSTANTS
    FastSeconds, StandardSeconds, DeepSeconds, MaintenanceSeconds,  \* intervals
    PhaseUnit,      \* phase_unit of build_service, phase of evaluate_warm_start
    DeferSeconds,   \* the governor's defer_seconds
    MaxDeferrals    \* max_consecutive_deferrals

(* CadenceController.__init__ refuses other intervals; build_service and   *)
(* CoreSentinelService take min(60, interval) for the last two, which is   *)
(* at most the interval when that is a second or more.                     *)
ASSUME CadenceAssumption ==
    /\ FastSeconds \in Nat \ {0}
    /\ StandardSeconds \in Nat /\ StandardSeconds >= FastSeconds
    /\ DeepSeconds \in Nat /\ DeepSeconds >= StandardSeconds
    /\ MaintenanceSeconds \in Nat \ {0}
    /\ PhaseUnit \in Nat
    /\ DeferSeconds \in Nat \ {0} /\ DeferSeconds <= FastSeconds
    /\ MaxDeferrals \in Nat

VARIABLES
    dueIn,        \* lane -> seconds until _next_due, 0 once past or unset
    deferred,     \* lane -> seconds until _deferred_until, 0 once past or unset
    done,         \* the lanes in _last_completed
    forced,       \* _forced_due
    consecutive,  \* the governor's _consecutive, per optional lane
    loop,         \* the cycle in progress
    skipped       \* history: optional lane -> cycles in a row in which it was
                  \* due by its schedule and did not run

vars == <<dueIn, deferred, done, forced, consecutive, loop, skipped>>

Lane == {"fast", "standard", "deep", "maintenance"}

Optional == {"deep", "maintenance"}

Interval == [fast |-> FastSeconds, standard |-> StandardSeconds,
             deep |-> DeepSeconds, maintenance |-> MaintenanceSeconds]

PhaseOffset == [fast |-> 0, standard |-> PhaseUnit,
                deep |-> 2 * PhaseUnit, maintenance |-> 3 * PhaseUnit]

(* loop.pc     the next step of the cycle; "idle" between cycles           *)
(* loop.wait   seconds until the loop starts the next cycle                *)
(* loop.protected  lanes of active incidents, as the governor was told     *)
(* loop.scope  the lanes of the decision that opened the scanners and set  *)
(*            the store's observation scope                                *)
(* loop.lanes  the lanes the cycle runs; of the last cycle when idle       *)
NoWork == [pc |-> "idle", wait |-> 0, protected |-> {}, scope |-> {}, lanes |-> {}]

(* A cold start: no lane has run, all are due. *)
ColdStart ==
    /\ done = {}
    /\ dueIn = [l \in Lane |-> 0]

(* restore_due_schedule: heavier lanes are staged, lanes of active         *)
(* incidents are due at once.                                              *)
WarmStart ==
    /\ done = Lane
    /\ \E urgent \in SUBSET Lane :
          dueIn = [l \in Lane |-> IF l \in urgent THEN 0 ELSE PhaseOffset[l]]

Init ==
    /\ ColdStart \/ WarmStart
    /\ deferred = [l \in Lane |-> 0]
    /\ forced = {}
    /\ consecutive = [l \in Optional |-> 0]
    /\ loop = NoWork
    /\ skipped = [l \in Optional |-> 0]

-----------------------------------------------------------------------------
(* CadenceController *)

(* decision *)
Due == {l \in Lane : l \in forced \/ (deferred[l] = 0 /\ dueIn[l] = 0)}

(* defer: not a forced lane; the later of the two release times counts. *)
Deferring(lanes) ==
    [l \in Lane |-> IF l \in lanes \ forced /\ deferred[l] < DeferSeconds
                    THEN DeferSeconds ELSE deferred[l]]

(* mark_completed *)
Rescheduled(lanes) ==
    [l \in Lane |-> IF l \in lanes
                    THEN Interval[l] + (IF l \in done THEN 0 ELSE PhaseOffset[l])
                    ELSE dueIn[l]]

-----------------------------------------------------------------------------
(* AdaptiveMaintenanceGovernor.apply, on the performance budget's verdict *)

Deferrable(protected) == (Due \cap Optional) \ (protected \cup forced)

(* A wrong form: one deferral too many. *)
ExhaustedLate(l) == consecutive[l] > MaxDeferrals

Exhausted(l) == consecutive[l] >= MaxDeferrals

(* A wrong form: lanes of active incidents are deferred as well. *)
PostponedUnprotected(protected) == {l \in Deferrable({}) : ~Exhausted(l)}

Postponed(protected) == {l \in Deferrable(protected) : ~Exhausted(l)}

Govern(verdict, protected) ==
    /\ loop.pc = "idle"
    /\ loop.wait = 0
    /\ LET postponed == IF verdict = "ATTENTION" THEN Postponed(protected) ELSE {}
           cleared   == IF verdict = "PASS" THEN Optional
                        ELSE IF verdict = "ATTENTION" THEN (Due \cap Optional) \ postponed
                        ELSE {}
       IN  /\ deferred' = Deferring(postponed)
           /\ consecutive' = [l \in Optional |->
                 IF l \in postponed THEN consecutive[l] + 1
                 ELSE IF l \in cleared THEN 0
                 ELSE consecutive[l]]
    /\ loop' = [pc |-> "governed", wait |-> 0, protected |-> protected,
               scope |-> {}, lanes |-> {}]
    /\ UNCHANGED <<dueIn, done, forced, skipped>>

-----------------------------------------------------------------------------
(* The rest of the service's cycle *)

(* CoreSentinelService.run_cycle takes a decision for the store's scope    *)
(* and the scanners ...                                                    *)
SetScope ==
    /\ loop.pc = "governed"
    /\ loop' = [loop EXCEPT !.pc = "scoped", !.scope = Due]
    /\ UNCHANGED <<dueIn, deferred, done, forced, consecutive, skipped>>

(* ... and CadencedPerformanceSentinelService.run_cycle, later, another    *)
(* for the lanes it runs.                                                  *)
Decide ==
    /\ loop.pc = "scoped"
    /\ loop' = [loop EXCEPT !.pc = "running", !.lanes = Due]
    /\ skipped' = [l \in Optional |->
          IF l \in Due THEN 0
          ELSE IF dueIn[l] = 0 THEN skipped[l] + 1
          ELSE skipped[l]]
    /\ UNCHANGED <<dueIn, deferred, done, forced, consecutive>>

(* mark_completed, note_completed; an incident that is new, changed or     *)
(* alerted asks for deeper context unless this cycle was deep.             *)
Complete(incident) ==
    /\ loop.pc = "running"
    /\ dueIn' = Rescheduled(loop.lanes)
    /\ deferred' = [l \in Lane |-> IF l \in loop.lanes THEN 0 ELSE deferred[l]]
    /\ done' = done \cup loop.lanes
    /\ forced' = (forced \ loop.lanes) \cup
                 (IF incident /\ "deep" \notin loop.lanes
                  THEN {"standard", "deep", "maintenance"} ELSE {})
    /\ consecutive' = [l \in Optional |-> IF l \in loop.lanes THEN 0 ELSE consecutive[l]]
    /\ loop' = [loop EXCEPT !.pc = "idle", !.wait = FastSeconds]
    /\ UNCHANGED skipped

(* An exception: nothing is marked, the loop waits and tries again. *)
Fail ==
    /\ loop.pc = "running"
    /\ loop' = [loop EXCEPT !.pc = "idle", !.wait = FastSeconds, !.lanes = {}]
    /\ UNCHANGED <<dueIn, deferred, done, forced, consecutive, skipped>>

Later(seconds) == IF seconds = 0 THEN 0 ELSE seconds - 1

(* A wrong form: the lanes' schedule is compared with a time read once. *)
TickWithoutSchedule ==
    /\ deferred' = [l \in Lane |-> Later(deferred[l])]
    /\ loop' = [loop EXCEPT !.wait = Later(loop.wait)]
    /\ UNCHANGED <<dueIn, done, forced, consecutive, skipped>>

(* A second passes. *)
Tick ==
    /\ dueIn' = [l \in Lane |-> Later(dueIn[l])]
    /\ deferred' = [l \in Lane |-> Later(deferred[l])]
    /\ loop' = [loop EXCEPT !.wait = Later(loop.wait)]
    /\ UNCHANGED <<done, forced, consecutive, skipped>>

Verdict == {"COLLECTING", "PASS", "ATTENTION"}

Cycle ==
    \/ \E verdict \in Verdict, protected \in SUBSET Lane : Govern(verdict, protected)
    \/ SetScope
    \/ Decide
    \/ \E incident \in BOOLEAN : Complete(incident)
    \/ Fail

Next == Cycle \/ Tick

Spec == Init /\ [][Next]_vars

(* The loop runs and time passes; the cycles that run a lane do not fail   *)
(* for ever (after stop_after_failures in a row the service stops).        *)
Succeeds(l) == l \in loop.lanes /\ \E incident \in BOOLEAN : Complete(incident)

FairSpec ==
    /\ Spec
    /\ WF_vars(Cycle)
    /\ WF_vars(Tick)
    /\ \A l \in Lane : SF_vars(Succeeds(l))

-----------------------------------------------------------------------------
(* Properties *)

TypeOK ==
    /\ dueIn \in [Lane -> Nat]
    /\ deferred \in [Lane -> 0..DeferSeconds]
    /\ done \in SUBSET Lane
    /\ forced \in SUBSET Lane
    /\ consecutive \in [Optional -> 0..MaxDeferrals]
    /\ loop \in [pc : {"idle", "governed", "scoped", "running"}, wait : 0..FastSeconds,
                protected : SUBSET Lane, scope : SUBSET Lane, lanes : SUBSET Lane]
    /\ skipped \in [Optional -> Nat]

(* "Starvation is bounded" (core_service.py): whatever the budget says and *)
(* whichever cycles fail, an optional lane that is due is passed over in   *)
(* at most max_consecutive_deferrals cycles in a row.                      *)
StarvationBounded == \A l \in Optional : skipped[l] <= MaxDeferrals

(* "FAST and STANDARD are never governor-deferred, and incident-relevant   *)
(* work overrides deferral" (docs/releases/v0.5.0-alpha.1.md): a running   *)
(* cycle has every lane that was due by its schedule and is neither        *)
(* optional nor unprotected - no deferral taken before the incident was    *)
(* known still holds - and every requested lane.                           *)
IncidentWorkIsNotDeferred ==
    [][loop.pc = "scoped" /\ loop'.pc = "running" =>
         /\ forced \subseteq loop'.lanes
         /\ \A l \in Lane : dueIn[l] = 0 /\ (l \notin Optional \/ l \in loop.protected)
              => l \in loop'.lanes]_vars

(* Every lane completes again and again, under any sequence of verdicts    *)
(* and with failed cycles in between.                                      *)
EveryLaneRuns == \A l \in Lane : []<>(loop.pc = "idle" /\ l \in loop.lanes)
=============================================================================
