------------------------------ MODULE ServiceRun ------------------------------
(***************************************************************************)
(* The run loop of the service and the health file it keeps                *)
(* (service.py run, _safe_write_health, _atomic_json; performance_service  *)
(* _write_health; health_io.py; locking.py).                               *)
(*                                                                         *)
(* Every process that is told to run takes the instance lock or gives up.  *)
(* The holder repeats observation cycles and reports after each one.  Most *)
(* reports of quiet cycles are renamed into place without an fsync, so the *)
(* file has two values: what a reader sees and what a power failure        *)
(* leaves.  The rename of a report is assumed not to overtake its data.    *)
(***************************************************************************)
EXTENDS Naturals, Sequences

CONSTANTS
    Process,      \* processes told to run: the unit's and others
    Bounded,      \* those told to run a single cycle (max_cycles)
    Key,          \* the material of a healthy report
    StopAfter,    \* service.stop_after_failures
    Checkpoint,   \* ticks between two durable reports at most
    MaxTrouble    \* bound on failed health writes, kills and power failures

Nobody == "nobody"

ASSUME ServiceAssumption ==
    /\ Bounded \subseteq Process /\ Nobody \notin Process
    /\ StopAfter \in Nat \ {0} /\ Checkpoint \in Nat \ {0} /\ MaxTrouble \in Nat
    /\ "none" \notin Key /\ "unavailable" \notin Key

VARIABLES
    lock,      \* held: the process with the instance lock, or Nobody;
               \* end: how its last holder ended
    proc,      \* each process: its place in run, its failures, its policy
    health,    \* the health file: seen, durable
    trouble    \* count: what went wrong so far; writes: reports that failed

serviceVars == <<lock, proc, health, trouble>>

NoReport == [by |-> Nobody, status |-> "none", key |-> "none", failures |-> 0]

Ended == [pc |-> "off", failures |-> 0, stop |-> FALSE, last |-> NoReport, age |-> Checkpoint]

ServiceInit ==
    /\ lock = [held |-> Nobody, end |-> "none"]
    /\ proc = [p \in Process |-> Ended]
    /\ health = [seen |-> NoReport, durable |-> NoReport]
    /\ trouble = [count |-> 0, writes |-> 0]

Runs(p, pc) == proc[p].pc = pc

-----------------------------------------------------------------------------
(* Reports *)

Material(report) == [report EXCEPT !.by = Nobody]

RequiresDurableByAge(me, report, volatile) ==
    report.status # "healthy" \/ ~volatile \/ me.age >= Checkpoint

(* HealthDurabilityPolicy.requires_durable *)
RequiresDurable(me, report, volatile) ==
    \/ report.status # "healthy"
    \/ ~volatile
    \/ Material(report) # me.last
    \/ me.age >= Checkpoint

(* mark_durable, after the write *)
MarkDurable(me, report) == [me EXCEPT !.last = Material(report), !.age = 0]

(* _atomic_json: the report is on the disk before it is renamed into place. *)
WrittenDurably(report) == health' = [seen |-> report, durable |-> report]

(* atomic_live_json: renamed into place without an fsync. *)
WrittenLive(report) == health' = [health EXCEPT !.seen = report]

(* _safe_write_health by p, whose loop has brought it to the state me: the   *)
(* report is written; or a minimal one, durable but unknown to the policy,   *)
(* because the summary failed; or none at all.                               *)
Report(p, me, status, key, volatile) ==
    LET report  == [by |-> p, status |-> status, key |-> key, failures |-> me.failures]
        minimal == [report EXCEPT !.key = "unavailable"]
    IN
    \/ /\ IF RequiresDurable(me, report, volatile)
          THEN /\ WrittenDurably(report)
               /\ proc' = [proc EXCEPT ![p] = MarkDurable(me, report)]
          ELSE /\ WrittenLive(report)
               /\ proc' = [proc EXCEPT ![p] = me]
       /\ UNCHANGED trouble
    \/ /\ trouble.count < MaxTrouble
       /\ trouble' = [count |-> trouble.count + 1, writes |-> trouble.writes + 1]
       /\ proc' = [proc EXCEPT ![p] = me]
       /\ \/ WrittenDurably(minimal)
          \/ UNCHANGED health

-----------------------------------------------------------------------------
(* run *)

AcquireAlways(p) == TRUE

(* SingleInstanceLock.acquire: non-blocking; a process that does not get the *)
(* lock ends with an error and has written nothing.                          *)
MayAcquire(p) == lock.held = Nobody

Start(p) ==
    /\ Runs(p, "off") /\ MayAcquire(p)
    /\ lock' = [held |-> p, end |-> "none"]
    /\ proc' = [proc EXCEPT ![p].pc = "starting"]
    /\ UNCHANGED <<health, trouble>>

ReportStarting(p) ==
    /\ Runs(p, "starting")
    /\ Report(p, [proc[p] EXCEPT !.pc = "loop"], "starting", "none", FALSE)
    /\ UNCHANGED lock

BeginCycle(p) ==
    /\ Runs(p, "loop")
    /\ proc' = [proc EXCEPT ![p].pc = IF proc[p].stop THEN "stopping" ELSE "cycle"]
    /\ UNCHANGED <<lock, health, trouble>>

(* run_cycle ends with a healthy report; a quiet cycle was volatile. *)
CycleSucceeds(p) ==
    /\ Runs(p, "cycle")
    /\ \E key \in Key, volatile \in BOOLEAN :
          Report(p, [proc[p] EXCEPT !.pc = IF p \in Bounded THEN "stopping" ELSE "wait",
                                    !.failures = 0],
                 "healthy", key, volatile)
    /\ UNCHANGED lock

CycleFails(p) ==
    /\ Runs(p, "cycle")
    /\ LET limit == p \in Bounded \/ proc[p].failures + 1 >= StopAfter IN
       Report(p, [proc[p] EXCEPT !.pc = IF limit THEN "failing" ELSE "wait",
                                 !.failures = @ + 1],
              "degraded", "none", TRUE)
    /\ UNCHANGED lock

WaitEnds(p) ==
    /\ Runs(p, "wait")
    /\ proc' = [proc EXCEPT ![p].pc = IF proc[p].stop THEN "stopping" ELSE "loop"]
    /\ UNCHANGED <<lock, health, trouble>>

(* The last report; the lock is released next. *)
Ends(p, pc, status) ==
    /\ Runs(p, pc)
    /\ Report(p, [proc[p] EXCEPT !.pc = status], status, "none", TRUE)
    /\ UNCHANGED lock

ReportFailed(p) == Ends(p, "failing", "failed")

ReportStopped(p) == Ends(p, "stopping", "stopped")

Exit(p) ==
    /\ Runs(p, "failed") \/ Runs(p, "stopped")
    /\ lock' = [held |-> Nobody, end |-> proc[p].pc]
    /\ proc' = [proc EXCEPT ![p] = Ended]
    /\ UNCHANGED <<health, trouble>>

-----------------------------------------------------------------------------
(* Signals, kills, power failures, the kernel, time *)

Signal(p) ==
    /\ proc[p].pc \notin {"off", "failed", "stopped"} /\ ~proc[p].stop
    /\ proc' = [proc EXCEPT ![p].stop = TRUE]
    /\ UNCHANGED <<lock, health, trouble>>

Kill(p) ==
    /\ ~Runs(p, "off") /\ trouble.count < MaxTrouble
    /\ lock' = [held |-> Nobody, end |-> "killed"]
    /\ proc' = [proc EXCEPT ![p] = Ended]
    /\ trouble' = [trouble EXCEPT !.count = @ + 1]
    /\ UNCHANGED health

PowerLoss ==
    /\ trouble.count < MaxTrouble
    /\ lock' = [held |-> Nobody, end |-> "killed"]
    /\ proc' = [p \in Process |-> Ended]
    /\ trouble' = [trouble EXCEPT !.count = @ + 1]
    /\ health' = [health EXCEPT !.seen = health.durable]

WriteBack ==
    /\ health.durable # health.seen
    /\ health' = [health EXCEPT !.durable = health.seen]
    /\ UNCHANGED <<lock, proc, trouble>>

Tick ==
    /\ \E p \in Process : ~Runs(p, "off") /\ proc[p].age < Checkpoint
    /\ proc' = [p \in Process |->
                   IF Runs(p, "off") \/ proc[p].age = Checkpoint THEN proc[p]
                   ELSE [proc[p] EXCEPT !.age = @ + 1]]
    /\ UNCHANGED <<lock, health, trouble>>

Step(p) ==
    \/ Start(p) \/ ReportStarting(p) \/ BeginCycle(p) \/ CycleSucceeds(p)
    \/ CycleFails(p) \/ WaitEnds(p) \/ ReportFailed(p) \/ ReportStopped(p) \/ Exit(p)

-----------------------------------------------------------------------------
(* Properties *)

Place == {"off", "starting", "loop", "cycle", "wait", "failing", "stopping", "failed", "stopped"}

HealthReport ==
    [by : Process \union {Nobody},
     status : {"none", "starting", "healthy", "degraded", "failed", "stopped"},
     key : Key \union {"none", "unavailable"}, failures : 0..StopAfter]

(* Types; and who runs holds the lock. *)
ServiceTypeOK ==
    /\ lock \in [held : Process \union {Nobody}, end : {"none", "failed", "stopped", "killed"}]
    /\ proc \in [Process -> [pc : Place, failures : 0..StopAfter, stop : BOOLEAN,
                             last : HealthReport, age : 0..Checkpoint]]
    /\ health \in [seen : HealthReport, durable : HealthReport]
    /\ trouble \in [count : 0..MaxTrouble, writes : 0..MaxTrouble]
    /\ \A p \in Process : ~Runs(p, "off") <=> lock.held = p

(* What a power failure leaves says what the last report said: only reports   *)
(* that add nothing material are written without an fsync (performance_       *)
(* service._write_health).  The exception is a minimal report, which the      *)
(* policy does not know of.                                                   *)
HealthSurvivesPowerLoss ==
    health.durable.key # "unavailable" => Material(health.durable) = Material(health.seen)

(* Unless a report could not be written: while a process runs the file is its *)
(* own and counts its failures, and once it has ended by itself the file says *)
(* how.  No other process told to run interferes (service.run, locking.py).   *)
HealthTellsTheTruth ==
    trouble.writes = 0 =>
        /\ \A p \in Process :
              proc[p].pc \notin {"off", "starting"} =>
                  health.seen.by = p /\ health.seen.failures = proc[p].failures
        /\ lock.held = Nobody /\ lock.end \in {"failed", "stopped"} =>
              health.durable = health.seen /\ health.seen.status = lock.end
=============================================================================
