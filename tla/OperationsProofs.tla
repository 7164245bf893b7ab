---------------------------- MODULE OperationsProofs ----------------------------
(***************************************************************************)
(* Proofs about the service's run loop and its health file (ServiceRun)    *)
(* and about the upgrade (Migration) in their surroundings (Operations),   *)
(* for any number of processes, failures, ticks and mishaps.               *)
(*                                                                         *)
(* The health file tells the truth: only the holder of the instance lock   *)
(* reports, and every report of an end is durable before the lock is       *)
(* released (LastWord).  A power failure takes nothing material from it:   *)
(* a report goes unsynced only if the policy of its process knows a        *)
(* durable one that says the same (Remembered).                            *)
(*                                                                         *)
(* The upgrade (UpgradeInv): where the installer stands says what has been *)
(* moved where, whatever others do (Progress); without outside meddling    *)
(* the legacy service stays stopped in between (StaysStopped) and whatever *)
(* was moved can be moved back (Clean); and what is finalized is final, as *)
(* a later run of the installer finds no legacy unit to stop.  Each action *)
(* of the installer has a lemma, with a step for each part of UpgradeInv.  *)
(***************************************************************************)
EXTENDS Operations, TLAPS

Below == {"off", "starting", "loop", "cycle", "wait"}

ProcessState == [pc : Place, failures : 0..StopAfter, stop : BOOLEAN, last : HealthReport,
             age : 0..Checkpoint]

ProcOK(q) == q \in [Process -> ProcessState]

(* A process that goes on has not failed too often yet. *)
BelowLimit(q) == \A p \in Process : q[p].pc \in Below => q[p].failures < StopAfter

TroubleOK == trouble.writes <= trouble.count

(* The holder's report is the last one, and says how it ends. *)
LastWord ==
    trouble.writes = 0 =>
        \A p \in Process : proc[p].pc \in {"failed", "stopped"} =>
            health.durable = health.seen /\ health.seen.status = proc[p].pc

(* What a process's policy knows as the last durable healthy report is in the *)
(* file, unless a minimal one is.                                             *)
Remembered ==
    /\ \A p \in Process : Runs(p, "off") => proc[p].last.status # "healthy"
    /\ \A p \in Process : proc[p].last.status = "healthy" =>
          \A report \in {health.seen, health.durable} :
              report.key = "unavailable" \/ Material(report) = proc[p].last

Inv ==
    /\ ServiceTypeOK /\ BelowLimit(proc) /\ TroubleOK /\ LastWord /\ HealthTellsTheTruth

-----------------------------------------------------------------------------
LEMMA EndedOK == Ended \in ProcessState /\ Ended.pc = "off" /\ Ended.failures = 0
<1>1. NoReport \in HealthReport
  BY ServiceAssumption DEF NoReport, HealthReport
<1> QED
  BY <1>1, ServiceAssumption DEF Ended, ProcessState, Place

LEMMA InitInv == ServiceInit => Inv
<1> SUFFICES ASSUME ServiceInit PROVE Inv
  OBVIOUS
<1>1. NoReport \in HealthReport
  BY ServiceAssumption DEF NoReport, HealthReport
<1>2. Ended \in ProcessState /\ Ended.pc = "off" /\ Ended.failures = 0
  BY EndedOK
<1>3. ProcOK(proc) /\ \A p \in Process : proc[p].pc = "off" /\ proc[p].failures = 0
  BY <1>2 DEF ServiceInit, ProcOK
<1>4. ServiceTypeOK
  BY <1>1, <1>3, ServiceAssumption DEF ServiceInit, ServiceTypeOK, ProcOK, ProcessState, Runs
<1> QED
  BY <1>3, <1>4, ServiceAssumption
  DEF ServiceInit, Inv, BelowLimit, TroubleOK, LastWord, HealthTellsTheTruth

(* What a process that changed by itself, without a report, must satisfy. *)
LEMMA QuietStep ==
    ASSUME Inv, ProcOK(proc'), UNCHANGED <<lock, health, trouble>>,
           \A p \in Process :
              /\ proc'[p].pc = "off" <=> proc[p].pc = "off"
              /\ proc'[p].failures = proc[p].failures
              /\ proc'[p].pc \in Below => proc[p].pc \in Below
              /\ proc'[p].pc \in {"failed", "stopped"} => proc[p].pc = proc'[p].pc
              /\ proc'[p].pc \notin {"off", "starting"} => proc[p].pc \notin {"off", "starting"}
    PROVE  Inv'
<1>1. ServiceTypeOK'
  BY DEF Inv, ServiceTypeOK, ProcOK, ProcessState, Runs
<1> QED
  BY <1>1 DEF Inv, Below, BelowLimit, TroubleOK, LastWord, HealthTellsTheTruth

(* The holder of the lock has written, or tried to. *)
LEMMA HolderReported ==
    ASSUME Inv, NEW p \in Process, proc[p].pc # "off", NEW x \in ProcessState,
           x.pc \notin {"off", "starting"}, x.pc \in Below => x.failures < StopAfter,
           proc' = [proc EXCEPT ![p] = x], UNCHANGED lock,
           health' \in [seen : HealthReport, durable : HealthReport],
           trouble' \in [count : 0..MaxTrouble, writes : 0..MaxTrouble], TroubleOK',
           trouble'.writes = 0 =>
              /\ health'.seen.by = p /\ health'.seen.failures = x.failures
              /\ x.pc \in {"failed", "stopped"} =>
                    health'.durable = health'.seen /\ health'.seen.status = x.pc
    PROVE  Inv'
<1>1. ProcOK(proc)
  BY DEF Inv, ServiceTypeOK, ProcOK, ProcessState
<1>2. ProcOK(proc') /\ proc'[p] = x /\ \A o \in Process \ {p} : proc'[o] = proc[o]
  BY <1>1 DEF ProcOK
<1>3. lock.held = p /\ \A o \in Process \ {p} : proc[o].pc = "off"
  BY DEF Inv, ServiceTypeOK, Runs
<1>4. ServiceTypeOK'
  BY <1>2, <1>3 DEF Inv, ServiceTypeOK, ProcOK, ProcessState, Runs
<1>5. BelowLimit(proc)'
  BY <1>2, <1>3 DEF Inv, BelowLimit
<1>6. LastWord' /\ HealthTellsTheTruth'
  BY <1>2, <1>3, ServiceAssumption DEF LastWord, HealthTellsTheTruth
<1> QED
  BY <1>4, <1>5, <1>6 DEF Inv

LEMMA ReportStep ==
    ASSUME Inv, NEW p \in Process, proc[p].pc # "off", NEW me \in ProcessState,
           me.pc \notin {"off", "starting"}, me.pc \in Below => me.failures < StopAfter,
           NEW status \in {"starting", "healthy", "degraded", "failed", "stopped"},
           me.pc \in {"failed", "stopped"} => me.pc = status,
           NEW key \in Key \union {"none"}, NEW volatile \in BOOLEAN,
           Report(p, me, status, key, volatile), UNCHANGED lock
    PROVE  Inv'
<1> DEFINE report  == [by |-> p, status |-> status, key |-> key, failures |-> me.failures]
           minimal == [report EXCEPT !.key = "unavailable"]
<1>1. me.failures \in 0..StopAfter
  BY DEF ProcessState
<1>2. report \in HealthReport /\ Material(report) \in HealthReport /\ minimal \in HealthReport
  BY <1>1 DEF HealthReport, Material
<1>3. /\ health \in [seen : HealthReport, durable : HealthReport]
      /\ trouble \in [count : 0..MaxTrouble, writes : 0..MaxTrouble]
  BY DEF Inv, ServiceTypeOK
<1>4. report.by = p /\ report.failures = me.failures /\ report.status = status
  OBVIOUS
<1>5. CASE /\ RequiresDurable(me, report, volatile)
           /\ WrittenDurably(report)
           /\ proc' = [proc EXCEPT ![p] = MarkDurable(me, report)]
           /\ UNCHANGED trouble
  <2> DEFINE m == [me EXCEPT !.last = Material(report)]
             x == [m EXCEPT !.age = 0]
  <2>1. proc' = [proc EXCEPT ![p] = x]
    BY <1>5 DEF MarkDurable
  <2> HIDE DEF report
  <2>2. m \in ProcessState /\ m.pc = me.pc /\ m.failures = me.failures
    BY <1>2 DEF ProcessState
  <2> HIDE DEF m
  <2>3. 0 \in 0..Checkpoint
    BY ServiceAssumption
  <2>4. x \in ProcessState /\ x.pc = me.pc /\ x.failures = me.failures
    BY <2>2, <2>3 DEF ProcessState
  <2> HIDE DEF x
  <2>5. /\ health' \in [seen : HealthReport, durable : HealthReport]
        /\ health'.seen = report /\ health'.durable = report
    BY <1>2, <1>5 DEF WrittenDurably
  <2>6. TroubleOK'
    BY <1>5 DEF Inv, TroubleOK
  <2>7. /\ health'.seen.by = p /\ health'.seen.failures = x.failures
        /\ x.pc \in {"failed", "stopped"} =>
              health'.durable = health'.seen /\ health'.seen.status = x.pc
    BY <1>4, <2>4, <2>5
  <2>8. /\ trouble' \in [count : 0..MaxTrouble, writes : 0..MaxTrouble]
        /\ x.pc \notin {"off", "starting"}
        /\ x.pc \in Below => x.failures < StopAfter
    BY <1>3, <1>5, <2>4
  <2> QED BY <2>1, <2>4, <2>5, <2>6, <2>7, <2>8, HolderReported
<1>6. CASE /\ ~RequiresDurable(me, report, volatile)
           /\ WrittenLive(report)
           /\ proc' = [proc EXCEPT ![p] = me]
           /\ UNCHANGED trouble
  <2>1. me.pc \notin {"failed", "stopped"}
    BY <1>4, <1>6 DEF RequiresDurable
  <2> HIDE DEF report
  <2>2. /\ health' \in [seen : HealthReport, durable : HealthReport]
        /\ health'.seen = report
    BY <1>2, <1>3, <1>6 DEF WrittenLive
  <2>3. TroubleOK'
    BY <1>6 DEF Inv, TroubleOK
  <2> QED BY <1>3, <1>4, <1>6, <2>1, <2>2, <2>3, HolderReported
<1>7. CASE /\ trouble.count < MaxTrouble
           /\ trouble' = [count |-> trouble.count + 1, writes |-> trouble.writes + 1]
           /\ proc' = [proc EXCEPT ![p] = me]
           /\ WrittenDurably(minimal) \/ UNCHANGED health
  <2> HIDE DEF report, minimal
  <2>1. health' \in [seen : HealthReport, durable : HealthReport]
    BY <1>2, <1>3, <1>7 DEF WrittenDurably
  <2>2. /\ trouble' \in [count : 0..MaxTrouble, writes : 0..MaxTrouble] /\ TroubleOK'
        /\ trouble'.writes # 0
    BY <1>3, <1>7, ServiceAssumption DEF Inv, TroubleOK
  <2> QED BY <1>7, <2>1, <2>2, HolderReported
<1> QED
  BY <1>5, <1>6, <1>7 DEF Report

-----------------------------------------------------------------------------
(* Steps of a process *)

LEMMA AtPlace ==
    ASSUME NEW me \in ProcessState, NEW pc \in Place
    PROVE  LET x == [me EXCEPT !.pc = pc] IN
           x \in ProcessState /\ x.pc = pc /\ x.failures = me.failures
BY DEF ProcessState

LEMMA WithFailures ==
    ASSUME NEW me \in ProcessState, NEW n \in 0..StopAfter
    PROVE  LET x == [me EXCEPT !.failures = n] IN
           x \in ProcessState /\ x.pc = me.pc /\ x.failures = n
BY DEF ProcessState

LEMMA MeOK == ASSUME Inv, NEW p \in Process PROVE proc[p] \in ProcessState /\ ProcOK(proc)
BY DEF Inv, ServiceTypeOK, ProcOK, ProcessState

LEMMA PlaceStep ==
    ASSUME Inv, NEW p \in Process, NEW x \in ProcessState, proc' = [proc EXCEPT ![p] = x],
           UNCHANGED <<lock, health, trouble>>, x.failures = proc[p].failures,
           proc[p].pc # "off", x.pc # "off", x.pc # "starting" => proc[p].pc # "starting",
           x.pc \in Below => proc[p].pc \in Below,
           x.pc \in {"failed", "stopped"} => x.pc = proc[p].pc
    PROVE  Inv'
<1>1. ProcOK(proc') /\ proc'[p] = x /\ \A o \in Process \ {p} : proc'[o] = proc[o]
  BY MeOK DEF ProcOK
<1> QED
  BY <1>1, QuietStep

LEMMA StartStep == ASSUME Inv, NEW p \in Process, Start(p) PROVE Inv'
<1> DEFINE x == [proc[p] EXCEPT !.pc = "starting"]
<1>1. proc[p] \in ProcessState /\ proc[p].pc = "off" /\ "starting" \in Place
  BY MeOK DEF Start, Runs, Place
<1>2. x \in ProcessState /\ x.pc = "starting" /\ x.failures = proc[p].failures
  BY <1>1 DEF ProcessState
<1>3. proc' = [proc EXCEPT ![p] = x]
  BY DEF Start
<1> HIDE DEF x
<1>4. ProcOK(proc') /\ proc'[p] = x /\ \A o \in Process \ {p} : proc'[o] = proc[o]
  BY <1>2, <1>3, MeOK DEF ProcOK
<1>5. lock.held = Nobody /\ \A o \in Process : proc[o].pc = "off"
  BY ServiceAssumption DEF Start, MayAcquire, Inv, ServiceTypeOK, Runs
<1>6. lock' = [held |-> p, end |-> "none"] /\ UNCHANGED <<health, trouble>>
  BY DEF Start
<1>7. ServiceTypeOK'
  BY <1>1, <1>2, <1>4, <1>5, <1>6 DEF Inv, ServiceTypeOK, ProcOK, ProcessState, Runs
<1>8. proc'[p].failures < StopAfter
  BY <1>1, <1>2, <1>4 DEF Inv, BelowLimit, Below
<1> QED
  BY <1>2, <1>4, <1>5, <1>6, <1>7, <1>8, ServiceAssumption
  DEF Inv, Below, BelowLimit, TroubleOK, LastWord, HealthTellsTheTruth

LEMMA SignalStep == ASSUME Inv, NEW p \in Process, Signal(p) PROVE Inv'
<1> DEFINE x == [proc[p] EXCEPT !.stop = TRUE]
<1>1. proc' = [proc EXCEPT ![p] = x] /\ UNCHANGED <<lock, health, trouble>>
      /\ proc[p].pc \notin {"off", "failed", "stopped"}
  BY DEF Signal
<1>2. x \in ProcessState /\ x.pc = proc[p].pc /\ x.failures = proc[p].failures
  BY MeOK DEF ProcessState
<1> HIDE DEF x
<1> QED
  BY <1>1, <1>2, PlaceStep

(* A process that goes from one place to another. *)
LEMMA GoesStep ==
    ASSUME Inv, NEW p \in Process, NEW pc \in {"loop", "cycle", "wait", "stopping"},
           proc[p].pc \in {"loop", "wait"}, proc' = [proc EXCEPT ![p].pc = pc],
           UNCHANGED <<lock, health, trouble>>
    PROVE  Inv'
<1> DEFINE x == [proc[p] EXCEPT !.pc = pc]
<1>1. proc' = [proc EXCEPT ![p] = x]
  OBVIOUS
<1>2. x \in ProcessState /\ x.pc = pc /\ x.failures = proc[p].failures
  <2>1. pc \in Place BY DEF Place
  <2> QED BY MeOK, <2>1, AtPlace
<1> HIDE DEF x
<1> QED
  BY <1>1, <1>2, PlaceStep DEF Below

LEMMA WorkStep ==
    ASSUME Inv, NEW p \in Process, Step(p), ~Start(p), ~Exit(p) PROVE Inv'
<1>1. proc[p] \in ProcessState /\ proc[p].failures \in 0..StopAfter
  BY MeOK DEF ProcessState
<1>2. CASE ReportStarting(p)
  <2> DEFINE x == [proc[p] EXCEPT !.pc = "loop"]
  <2>1. Report(p, x, "starting", "none", FALSE) /\ UNCHANGED lock /\ proc[p].pc = "starting"
    BY <1>2 DEF ReportStarting, Runs
  <2>2. x \in ProcessState /\ x.pc = "loop" /\ x.failures < StopAfter
    <3>1. "loop" \in Place /\ proc[p].failures < StopAfter
      BY <2>1 DEF Place, Inv, BelowLimit, Below
    <3> QED BY <1>1, <3>1, AtPlace
  <2> HIDE DEF x
  <2> QED BY <2>1, <2>2, ReportStep
<1>3. CASE BeginCycle(p)
  BY <1>3, GoesStep DEF BeginCycle, Runs
<1>4. CASE CycleSucceeds(p)
  <2>1. PICK key \in Key, volatile \in BOOLEAN :
          Report(p, [proc[p] EXCEPT !.pc = IF p \in Bounded THEN "stopping" ELSE "wait",
                                    !.failures = 0], "healthy", key, volatile)
    BY <1>4 DEF CycleSucceeds
  <2> DEFINE pc == IF p \in Bounded THEN "stopping" ELSE "wait"
             m  == [proc[p] EXCEPT !.pc = pc]
             x  == [m EXCEPT !.failures = 0]
  <2>2. Report(p, x, "healthy", key, volatile) /\ UNCHANGED lock /\ proc[p].pc = "cycle"
    BY <1>4, <2>1 DEF CycleSucceeds, Runs
  <2>3. m \in ProcessState /\ m.pc \in {"stopping", "wait"}
    <3>1. pc \in {"stopping", "wait"} /\ pc \in Place
      BY DEF Place
    <3> HIDE DEF pc
    <3> QED BY <1>1, <3>1, AtPlace
  <2> HIDE DEF m
  <2>4. 0 \in 0..StopAfter
    BY ServiceAssumption
  <2>5. x \in ProcessState /\ x.pc \in {"stopping", "wait"} /\ x.failures = 0
    BY <2>3, <2>4, WithFailures
  <2> HIDE DEF x
  <2> QED BY <2>2, <2>5, ReportStep, ServiceAssumption
<1>5. CASE CycleFails(p)
  <2> DEFINE limit == p \in Bounded \/ proc[p].failures + 1 >= StopAfter
             n == proc[p].failures + 1
             pc == IF limit THEN "failing" ELSE "wait"
             m == [proc[p] EXCEPT !.pc = pc]
             x == [m EXCEPT !.failures = n]
  <2>1. Report(p, [m EXCEPT !.failures = proc[p].failures + 1], "degraded", "none", TRUE)
        /\ UNCHANGED lock /\ proc[p].pc = "cycle"
    BY <1>5 DEF CycleFails, Runs
  <2>2. n \in 0..StopAfter
    BY <1>1, <2>1, ServiceAssumption DEF Inv, BelowLimit, Below
  <2>3. /\ m \in ProcessState /\ m.pc \in {"failing", "wait"}
        /\ m.pc = "wait" => n < StopAfter
    <3>1. pc \in {"failing", "wait"} /\ pc \in Place /\ (pc = "wait" => n < StopAfter)
      BY <1>1, <2>2, ServiceAssumption DEF Place
    <3> HIDE DEF pc
    <3> QED BY <1>1, <3>1, AtPlace
  <2>4. Report(p, x, "degraded", "none", TRUE)
    BY <2>1
  <2> HIDE DEF m, n, limit
  <2>5. x \in ProcessState /\ x.pc = m.pc /\ x.failures = n
    BY <2>2, <2>3, WithFailures
  <2> HIDE DEF x
  <2> QED BY <2>1, <2>3, <2>4, <2>5, ReportStep DEF Below
<1>6. CASE WaitEnds(p)
  BY <1>6, GoesStep DEF WaitEnds, Runs
<1>7. ASSUME NEW pc \in {"failing", "stopping"}, NEW status \in {"failed", "stopped"},
             Ends(p, pc, status)
      PROVE  Inv'
  <2> DEFINE x == [proc[p] EXCEPT !.pc = status]
  <2>1. Report(p, x, status, "none", TRUE) /\ UNCHANGED lock /\ proc[p].pc = pc
    BY <1>7 DEF Ends, Runs
  <2>2. x \in ProcessState /\ x.pc = status
    <3>1. status \in Place BY DEF Place
    <3> QED BY <1>1, <3>1, AtPlace
  <2> HIDE DEF x
  <2> QED BY <2>1, <2>2, ReportStep DEF Below
<1> QED
  BY <1>2, <1>3, <1>4, <1>5, <1>6, <1>7 DEF Step, ReportFailed, ReportStopped

(* A process is gone and the lock is free. *)
LEMMA GoneStep ==
    ASSUME Inv, NEW p \in Process, proc[p].pc # "off", NEW how \in {"failed", "stopped", "killed"},
           proc' = [proc EXCEPT ![p] = Ended], lock' = [held |-> Nobody, end |-> how],
           UNCHANGED health,
           trouble' \in [count : 0..MaxTrouble, writes : 0..MaxTrouble], TroubleOK',
           trouble'.writes = trouble.writes,
           how \in {"failed", "stopped"} => proc[p].pc = how
    PROVE  Inv'
<1>1. Ended \in ProcessState /\ Ended.pc = "off" /\ Ended.failures = 0
  BY EndedOK
<1>2. ProcOK(proc') /\ proc'[p] = Ended /\ \A o \in Process \ {p} : proc'[o] = proc[o]
  BY <1>1, MeOK DEF ProcOK
<1>3. \A o \in Process \ {p} : proc[o].pc = "off"
  BY DEF Inv, ServiceTypeOK, Runs
<1>4. ServiceTypeOK'
  BY <1>1, <1>2, <1>3, ServiceAssumption DEF Inv, ServiceTypeOK, ProcOK, ProcessState, Runs
<1>5. BelowLimit(proc)'
  BY <1>1, <1>2, ServiceAssumption DEF Inv, BelowLimit
<1>6. LastWord' /\ HealthTellsTheTruth'
  BY <1>1, <1>2, <1>3 DEF Inv, LastWord, HealthTellsTheTruth
<1> QED
  BY <1>4, <1>5, <1>6 DEF Inv

LEMMA ExitStep == ASSUME Inv, NEW p \in Process, Exit(p) PROVE Inv'
<1>1. proc[p].pc \in {"failed", "stopped"} /\ UNCHANGED <<health, trouble>>
  BY DEF Exit, Runs
<1>2. trouble' \in [count : 0..MaxTrouble, writes : 0..MaxTrouble] /\ TroubleOK'
  BY <1>1 DEF Inv, ServiceTypeOK, TroubleOK
<1> QED
  BY <1>1, <1>2, GoneStep DEF Exit

(* One more trouble, but of another kind than a report that failed. *)
LEMMA TroubleStep ==
    ASSUME Inv, trouble.count < MaxTrouble, trouble' = [trouble EXCEPT !.count = @ + 1]
    PROVE  /\ trouble' \in [count : 0..MaxTrouble, writes : 0..MaxTrouble] /\ TroubleOK'
           /\ trouble'.writes = trouble.writes
BY ServiceAssumption DEF Inv, ServiceTypeOK, TroubleOK

LEMMA KillStep == ASSUME Inv, NEW p \in Process, Kill(p) PROVE Inv'
<1>1. /\ trouble' \in [count : 0..MaxTrouble, writes : 0..MaxTrouble] /\ TroubleOK'
      /\ trouble'.writes = trouble.writes
  BY TroubleStep DEF Kill
<1> QED
  BY <1>1, GoneStep DEF Kill, Runs

LEMMA PowerLossStep == ASSUME Inv, PowerLoss PROVE Inv'
<1>1. /\ trouble' \in [count : 0..MaxTrouble, writes : 0..MaxTrouble] /\ TroubleOK'
  BY TroubleStep DEF PowerLoss
<1>2. Ended \in ProcessState /\ Ended.pc = "off" /\ Ended.failures = 0
  BY EndedOK
<1>3. ProcOK(proc') /\ \A p \in Process : proc'[p] = Ended
  BY <1>2 DEF PowerLoss, ProcOK
<1>4. /\ lock' = [held |-> Nobody, end |-> "killed"]
      /\ health' \in [seen : HealthReport, durable : HealthReport]
  BY DEF PowerLoss, Inv, ServiceTypeOK
<1>5. ServiceTypeOK'
  BY <1>1, <1>2, <1>3, <1>4, ServiceAssumption DEF ServiceTypeOK, ProcOK, ProcessState, Runs
<1>6. BelowLimit(proc)' /\ LastWord' /\ HealthTellsTheTruth'
  BY <1>2, <1>3, <1>4, ServiceAssumption DEF BelowLimit, LastWord, HealthTellsTheTruth
<1> QED
  BY <1>1, <1>5, <1>6 DEF Inv

LEMMA WriteBackStep == ASSUME Inv, WriteBack PROVE Inv'
<1>1. /\ health' \in [seen : HealthReport, durable : HealthReport]
      /\ health'.seen = health.seen /\ health'.durable = health.seen
  BY DEF WriteBack, Inv, ServiceTypeOK
<1> QED
  BY <1>1 DEF WriteBack, Inv, ServiceTypeOK, Runs, TroubleOK, LastWord, HealthTellsTheTruth

LEMMA TickStep == ASSUME Inv, Tick PROVE Inv'
<1>1. ASSUME NEW p \in Process
      PROVE  /\ proc'[p] \in ProcessState
             /\ proc'[p].pc = proc[p].pc /\ proc'[p].failures = proc[p].failures
  <2> DEFINE x == [proc[p] EXCEPT !.age = @ + 1]
  <2>1. proc'[p] = IF Runs(p, "off") \/ proc[p].age = Checkpoint THEN proc[p] ELSE x
    BY DEF Tick
  <2>2. proc[p] \in ProcessState
    BY MeOK
  <2>3. CASE proc[p].age = Checkpoint
    BY <2>1, <2>2, <2>3
  <2>4. CASE proc[p].age # Checkpoint
    <3>1. proc[p].age + 1 \in 0..Checkpoint
      BY <2>2, <2>4, ServiceAssumption DEF ProcessState
    <3>2. x \in ProcessState /\ x.pc = proc[p].pc /\ x.failures = proc[p].failures
      BY <2>2, <3>1 DEF ProcessState
    <3> HIDE DEF x
    <3> QED BY <2>1, <2>2, <3>2
  <2> QED BY <2>3, <2>4
<1>2. DOMAIN proc' = Process /\ proc' = [p \in Process |-> proc'[p]]
  BY DEF Tick
<1>3. ProcOK(proc')
  BY <1>1, <1>2 DEF ProcOK
<1> QED
  BY <1>1, <1>3, QuietStep DEF Tick

-----------------------------------------------------------------------------
LEMMA StepInv == Inv /\ [Next]_vars => Inv'
<1> SUFFICES ASSUME Inv, [Next]_vars PROVE Inv'
  OBVIOUS
<1>1. CASE UNCHANGED serviceVars
  BY <1>1 DEF serviceVars, Inv, ServiceTypeOK, BelowLimit, TroubleOK, LastWord,
              HealthTellsTheTruth, Runs
<1>2. ASSUME NEW p \in Process, Step(p) PROVE Inv'
  BY <1>2, StartStep, ExitStep, WorkStep
<1> Unit \in Process
  BY UnitAssumption
<1>3. CASE UnitStarts
  BY <1>3, StartStep DEF UnitStarts
<1>4. CASE UnitRuns
  <2>1. CASE Step(Unit)
    BY <2>1, <1>2
  <2>2. CASE Signal(Unit)
    BY <2>2, SignalStep
  <2> QED BY <1>4, <2>1, <2>2 DEF UnitRuns, Step
<1>5. CASE UnitEnds
  BY <1>5, ExitStep, KillStep DEF UnitEnds
<1>6. CASE OthersRun
  BY <1>2, <1>6, StartStep, SignalStep, KillStep DEF OthersRun
<1>7. CASE Passing
  BY <1>7, WriteBackStep, TickStep DEF Passing
<1>8. CASE MachineGoesDown
  BY <1>8, PowerLossStep DEF MachineGoesDown
<1> QED
  BY <1>1, <1>3, <1>4, <1>5, <1>6, <1>7, <1>8
  DEF Next, vars, InstallerSteps, UnitFindsTheLockTaken, SystemdRestarts

LEMMA SpecInv == Spec => []Inv
<1>1. Init => Inv
  BY InitInv DEF Init
<1> QED
  BY <1>1, StepInv, PTL DEF Spec

-----------------------------------------------------------------------------
(* What a power failure leaves *)

LEMMA ReportIsRemembered ==
    ASSUME Inv, Remembered, HealthSurvivesPowerLoss, NEW p \in Process, proc[p].pc # "off",
           NEW me \in ProcessState, me.pc # "off", me.last = proc[p].last,
           NEW status \in {"starting", "healthy", "degraded", "failed", "stopped"},
           NEW key \in Key \union {"none"}, NEW volatile, Report(p, me, status, key, volatile)
    PROVE  Remembered' /\ HealthSurvivesPowerLoss'
<1> DEFINE report  == [by |-> p, status |-> status, key |-> key, failures |-> me.failures]
           minimal == [report EXCEPT !.key = "unavailable"]
<1>1. ProcOK(proc) /\ \A o \in Process \ {p} : proc[o].pc = "off"
  BY MeOK DEF Inv, ServiceTypeOK, Runs
<1>2. \A o \in Process \ {p} : proc[o].last.status # "healthy"
  BY <1>1 DEF Remembered, Runs
<1>3. report.key # "unavailable" /\ report.status = status /\ minimal.key = "unavailable"
  BY ServiceAssumption
<1>4. Material(report).status = status
  BY DEF Material
<1>5. DOMAIN health = {"seen", "durable"}
  BY DEF Inv, ServiceTypeOK
<1>6. ASSUME NEW x \in ProcessState, x.pc # "off", proc' = [proc EXCEPT ![p] = x],
             x.last.status = "healthy" =>
                 \A f \in {health'.seen, health'.durable} :
                     f.key = "unavailable" \/ Material(f) = x.last
      PROVE  Remembered'
  <2>1. proc'[p] = x /\ \A o \in Process \ {p} : proc'[o] = proc[o]
    BY <1>1, <1>6 DEF ProcOK
  <2> QED
    BY <1>1, <1>2, <1>6, <2>1 DEF Remembered, Runs
<1>7. CASE /\ RequiresDurable(me, report, volatile)
           /\ WrittenDurably(report)
           /\ proc' = [proc EXCEPT ![p] = MarkDurable(me, report)]
  <2> DEFINE x == MarkDurable(me, report)
  <2>1. health'.seen = report /\ health'.durable = report
    BY <1>7 DEF WrittenDurably
  <2>2. x \in ProcessState /\ x.pc = me.pc /\ x.last = Material(report)
    <3>1. Material(report) \in HealthReport
      <4>1. me.failures \in 0..StopAfter
        BY DEF ProcessState
      <4> QED
        BY <4>1 DEF HealthReport, Material
    <3>2. 0 \in 0..Checkpoint
      BY ServiceAssumption
    <3> HIDE DEF report
    <3> QED
      BY <3>1, <3>2 DEF MarkDurable, ProcessState
  <2>3. proc' = [proc EXCEPT ![p] = x]
    BY <1>7
  <2> HIDE DEF x, report
  <2> QED
    BY <1>6, <2>1, <2>2, <2>3 DEF HealthSurvivesPowerLoss
<1>8. CASE /\ ~RequiresDurable(me, report, volatile)
           /\ WrittenLive(report)
           /\ proc' = [proc EXCEPT ![p] = me]
  <2>1. status = "healthy" /\ Material(report) = me.last
    BY <1>3, <1>8 DEF RequiresDurable
  <2>2. health'.seen = report /\ health'.durable = health.durable
    BY <1>5, <1>8 DEF WrittenLive
  <2>3. health.durable.key = "unavailable" \/ Material(health.durable) = me.last
    BY <1>4, <2>1 DEF Remembered
  <2> HIDE DEF report
  <2> QED
    BY <1>6, <1>8, <2>1, <2>2, <2>3 DEF HealthSurvivesPowerLoss
<1>9. CASE proc' = [proc EXCEPT ![p] = me] /\ (WrittenDurably(minimal) \/ UNCHANGED health)
  <2>1. CASE WrittenDurably(minimal)
    <3>1. health'.seen = minimal /\ health'.durable = minimal
      BY <2>1 DEF WrittenDurably
    <3> HIDE DEF minimal
    <3> QED
      BY <1>3, <1>6, <1>9, <3>1 DEF HealthSurvivesPowerLoss
  <2>2. CASE UNCHANGED health
    BY <1>6, <1>9, <2>2 DEF Remembered, HealthSurvivesPowerLoss
  <2> QED
    BY <1>9, <2>1, <2>2
<1> QED
  BY <1>7, <1>8, <1>9 DEF Report

(* Nothing is reported, and no process comes to know more. *)
LEMMA QuietIsRemembered ==
    ASSUME Remembered, HealthSurvivesPowerLoss, UNCHANGED health,
           \A p \in Process : proc'[p].last.status = "healthy" =>
              /\ proc'[p].last = proc[p].last
              /\ proc[p].pc # "off" => proc'[p].pc # "off"
    PROVE  Remembered' /\ HealthSurvivesPowerLoss'
BY DEF Remembered, HealthSurvivesPowerLoss, Runs

LEMMA MovedIsRemembered ==
    ASSUME Inv, Remembered, HealthSurvivesPowerLoss, UNCHANGED health, NEW p \in Process,
           NEW x \in ProcessState, proc' = [proc EXCEPT ![p] = x],
           x = Ended \/ (x.last = proc[p].last /\ x.pc # "off")
    PROVE  Remembered' /\ HealthSurvivesPowerLoss'
<1>1. proc'[p] = x /\ \A o \in Process \ {p} : proc'[o] = proc[o]
  BY MeOK DEF ProcOK
<1>2. Ended.last.status # "healthy"
  BY DEF Ended, NoReport
<1> QED
  BY <1>1, <1>2, QuietIsRemembered

LEMMA StepIsRemembered ==
    ASSUME Inv, Remembered, HealthSurvivesPowerLoss, NEW p \in Process,
           Step(p) \/ Signal(p) \/ Kill(p)
    PROVE  Remembered' /\ HealthSurvivesPowerLoss'
<1>1. proc[p] \in ProcessState
  BY MeOK
<1>2. ASSUME NEW pc \in Place, pc # "off"
      PROVE  LET x == [proc[p] EXCEPT !.pc = pc] IN
             x \in ProcessState /\ x.pc # "off" /\ x.last = proc[p].last
  BY <1>1, <1>2 DEF ProcessState
<1>3. ASSUME NEW pc \in Place, pc # "off", proc' = [proc EXCEPT ![p].pc = pc], UNCHANGED health
      PROVE  Remembered' /\ HealthSurvivesPowerLoss'
  <2> DEFINE x == [proc[p] EXCEPT !.pc = pc]
  <2>1. proc' = [proc EXCEPT ![p] = x]
    BY <1>3
  <2>2. x \in ProcessState /\ x.pc # "off" /\ x.last = proc[p].last
    BY <1>2, <1>3
  <2> HIDE DEF x
  <2> QED
    BY <1>3, <2>1, <2>2, MovedIsRemembered
<1>4. CASE Start(p) \/ BeginCycle(p) \/ WaitEnds(p)
  BY <1>3, <1>4 DEF Start, BeginCycle, WaitEnds, Place
<1>5. CASE Signal(p)
  <2> DEFINE x == [proc[p] EXCEPT !.stop = TRUE]
  <2>1. proc' = [proc EXCEPT ![p] = x] /\ UNCHANGED health /\ proc[p].pc # "off"
    BY <1>5 DEF Signal
  <2>2. x \in ProcessState /\ x.pc = proc[p].pc /\ x.last = proc[p].last
    BY <1>1 DEF ProcessState
  <2> HIDE DEF x
  <2> QED
    BY <2>1, <2>2, MovedIsRemembered
<1>6. CASE Exit(p) \/ Kill(p)
  BY <1>6, EndedOK, MovedIsRemembered DEF Exit, Kill
<1>7. CASE ReportStarting(p)
  <2> DEFINE x == [proc[p] EXCEPT !.pc = "loop"]
  <2>1. Report(p, x, "starting", "none", FALSE) /\ proc[p].pc # "off"
    BY <1>7 DEF ReportStarting, Runs
  <2>2. x \in ProcessState /\ x.pc # "off" /\ x.last = proc[p].last
    BY <1>2 DEF Place
  <2> HIDE DEF x
  <2> QED
    BY <2>1, <2>2, ReportIsRemembered
<1>8. ASSUME NEW pc \in Place, pc # "off", NEW n \in 0..StopAfter
      PROVE  LET x == [proc[p] EXCEPT !.pc = pc, !.failures = n] IN
             x \in ProcessState /\ x.pc # "off" /\ x.last = proc[p].last
  <2> DEFINE m == [proc[p] EXCEPT !.pc = pc]
  <2>1. m \in ProcessState /\ m.pc # "off" /\ m.last = proc[p].last
    BY <1>2, <1>8
  <2> HIDE DEF m
  <2>2. LET x == [m EXCEPT !.failures = n] IN
        x \in ProcessState /\ x.pc # "off" /\ x.last = proc[p].last
    BY <2>1 DEF ProcessState
  <2> QED
    BY <2>2 DEF m
<1>9. CASE CycleSucceeds(p)
  <2> DEFINE pc == IF p \in Bounded THEN "stopping" ELSE "wait"
             x  == [proc[p] EXCEPT !.pc = pc, !.failures = 0]
  <2>1. PICK key \in Key, volatile \in BOOLEAN : Report(p, x, "healthy", key, volatile)
    BY <1>9 DEF CycleSucceeds
  <2>2. x \in ProcessState /\ x.pc # "off" /\ x.last = proc[p].last
    <3>1. pc \in Place /\ pc # "off" /\ 0 \in 0..StopAfter
      BY ServiceAssumption DEF Place
    <3> HIDE DEF pc
    <3> QED BY <1>8, <3>1
  <2>3. proc[p].pc # "off"
    BY <1>9 DEF CycleSucceeds, Runs
  <2> HIDE DEF x
  <2> QED
    BY <2>1, <2>2, <2>3, ReportIsRemembered
<1>10. CASE CycleFails(p)
  <2> DEFINE n  == proc[p].failures + 1
             pc == IF p \in Bounded \/ proc[p].failures + 1 >= StopAfter THEN "failing" ELSE "wait"
             x  == [proc[p] EXCEPT !.pc = pc, !.failures = n]
  <2>1. Report(p, x, "degraded", "none", TRUE) /\ proc[p].pc = "cycle"
    BY <1>10 DEF CycleFails, Runs
  <2>2. n \in 0..StopAfter
    BY <1>1, <2>1, ServiceAssumption DEF Inv, BelowLimit, Below, ProcessState
  <2>3. x \in ProcessState /\ x.pc # "off" /\ x.last = proc[p].last
    <3>1. pc \in Place /\ pc # "off"
      BY DEF Place
    <3> HIDE DEF pc, n
    <3> QED BY <1>8, <2>2, <3>1
  <2> HIDE DEF x
  <2> QED
    BY <2>1, <2>3, ReportIsRemembered
<1>11. ASSUME NEW pc \in {"failing", "stopping"}, NEW status \in {"failed", "stopped"},
              Ends(p, pc, status)
       PROVE  Remembered' /\ HealthSurvivesPowerLoss'
  <2> DEFINE x == [proc[p] EXCEPT !.pc = status]
  <2>1. Report(p, x, status, "none", TRUE) /\ proc[p].pc # "off"
    BY <1>11 DEF Ends, Runs
  <2>2. x \in ProcessState /\ x.pc # "off" /\ x.last = proc[p].last
    <3>1. status \in Place /\ status # "off"
      BY DEF Place
    <3> QED BY <1>2, <3>1
  <2> HIDE DEF x
  <2> QED
    BY <2>1, <2>2, ReportIsRemembered
<1> QED
  BY <1>4, <1>5, <1>6, <1>7, <1>9, <1>10, <1>11 DEF Step, ReportFailed, ReportStopped

LEMMA TickIsRemembered ==
    ASSUME Inv, Remembered, HealthSurvivesPowerLoss, Tick
    PROVE  Remembered' /\ HealthSurvivesPowerLoss'
<1>1. ASSUME NEW p \in Process
      PROVE  proc'[p].last = proc[p].last /\ proc'[p].pc = proc[p].pc
  BY MeOK DEF Tick, ProcessState
<1> QED
  BY <1>1, QuietIsRemembered DEF Tick

LEMMA FileIsRemembered ==
    ASSUME Inv, Remembered, HealthSurvivesPowerLoss, WriteBack \/ PowerLoss
    PROVE  Remembered' /\ HealthSurvivesPowerLoss'
<1>1. DOMAIN health = {"seen", "durable"} /\ Ended.last.status # "healthy"
  BY DEF Inv, ServiceTypeOK, Ended, NoReport
<1>2. CASE WriteBack
  BY <1>1, <1>2 DEF WriteBack, Remembered, HealthSurvivesPowerLoss, Runs
<1>3. CASE PowerLoss
  BY <1>1, <1>3 DEF PowerLoss, Remembered, HealthSurvivesPowerLoss, Runs
<1> QED
  BY <1>2, <1>3

LEMMA StepRemembered ==
    Inv /\ Remembered /\ HealthSurvivesPowerLoss /\ [Next]_vars
        => Remembered' /\ HealthSurvivesPowerLoss'
<1> SUFFICES ASSUME Inv, Remembered, HealthSurvivesPowerLoss, [Next]_vars
             PROVE  Remembered' /\ HealthSurvivesPowerLoss'
  OBVIOUS
<1> Unit \in Process
  BY UnitAssumption
<1>1. CASE UNCHANGED serviceVars
  BY <1>1 DEF serviceVars, Remembered, HealthSurvivesPowerLoss, Runs
<1>2. CASE UnitStarts \/ UnitRuns \/ UnitEnds
  BY <1>2, StepIsRemembered DEF UnitStarts, UnitRuns, UnitEnds, Step
<1>3. CASE OthersRun
  BY <1>3, StepIsRemembered DEF OthersRun, Step
<1>4. CASE Passing \/ MachineGoesDown
  BY <1>4, TickIsRemembered, FileIsRemembered DEF Passing, MachineGoesDown
<1> QED
  BY <1>1, <1>2, <1>3, <1>4
  DEF Next, vars, InstallerSteps, UnitFindsTheLockTaken, SystemdRestarts

LEMMA InitRemembered == Init => Remembered /\ HealthSurvivesPowerLoss
BY DEF Init, ServiceInit, Remembered, HealthSurvivesPowerLoss, Ended, NoReport, Runs

-----------------------------------------------------------------------------
(* The types of the run loop, and that who runs holds the instance lock *)
(* (locking.py), for any number of processes.                           *)
THEOREM ServiceTypes == Spec => []ServiceTypeOK
<1>1. Inv => ServiceTypeOK
  BY DEF Inv
<1> QED
  BY <1>1, SpecInv, PTL

(* The health file is the running process's own and counts its failures, or *)
(* says how the last one ended (service.run), for any number of processes,  *)
(* signals, kills and power failures.                                       *)
THEOREM HealthIsTrue == Spec => []HealthTellsTheTruth
<1>1. Inv => HealthTellsTheTruth
  BY DEF Inv
<1> QED
  BY <1>1, SpecInv, PTL

(* A power failure leaves what the last report said, unless that was a minimal *)
(* one: a report renamed into place without an fsync adds nothing material to  *)
(* what the disk holds (HealthDurabilityPolicy), for any number of processes   *)
(* that take turns at the file.                                                *)
THEOREM HealthIsDurable == Spec => []HealthSurvivesPowerLoss
<1>1. Init => Remembered /\ HealthSurvivesPowerLoss
  BY InitRemembered
<1>2. Inv /\ Remembered /\ HealthSurvivesPowerLoss /\ [Next]_vars
        => Remembered' /\ HealthSurvivesPowerLoss'
  BY StepRemembered
<1> QED
  BY <1>1, <1>2, SpecInv, PTL DEF Spec

-----------------------------------------------------------------------------
(* The upgrade *)

Service == [active : BOOLEAN, enabled : BOOLEAN]

BackupRecord == [rows : Nat, failed : SUBSET Part, retired : SUBSET Part, retiring : BOOLEAN]

(* Where prepare is at work, where the trap would roll it back, where the new *)
(* installation is complete.                                                  *)
Preparing == {"backup", "copy", "verify", "config", "state", "prepared"}

Installed == {"enable", "check", "disable", "retire", "move", "confirm", "retired"}

ToRollBack == {"install"} \union Installed

(* Where the marker names the backup of this run; until legacy parts move. *)
Marked == {"verify", "config", "state", "prepared"} \union ToRollBack

Unmoved == (Preparing \union ToRollBack) \ {"move", "confirm", "retired"}

Steps == {"idle", "stop", "validate", "trap"} \union Preparing \union ToRollBack

Outcomes == {"none", "failed", "finalized", "interrupted"}

Moved(k) == {Order[j] : j \in 1..k}

LegacyOK(l) == l \in [home : SUBSET Part, rows : Nat]

(* The staged parts can be anything. *)
TargetOK(t, n) ==
    t \in [staged : {t.staged}, home : SUBSET Part, rows : Nat, marker : 0..n,
           remade : BOOLEAN]

UnitOK(u) == u \in [legacy : Service, quietward : Service]

(* The numbers of runs and faults can be anything. *)
InstOK(i) ==
    i \in [step : Steps, prepared : BOOLEAN, stopped : BOOLEAN, moved : 0..4,
           runs : {i.runs}, outcome : Outcomes, faults : {i.faults},
           meddled : BOOLEAN, finalized : BOOLEAN]

UpgradeTyped ==
    /\ LegacyOK(legacy) /\ TargetOK(target, Len(backups)) /\ backups \in Seq(BackupRecord)
    /\ UnitOK(unit) /\ InstOK(inst)

Shell ==
    /\ ~At("idle") => inst.stopped
    /\ inst.step \in {"stop", "validate"} \union Preparing => ~inst.prepared
    /\ inst.step \in ToRollBack => inst.prepared
    /\ target.remade => "state" \in target.home

(* A backup nothing has been moved into yet. *)
Fresh(backup) == backup.failed = {} /\ backup.retired = {} /\ ~backup.retiring

(* What a run of the installer can rely on, whatever happened to others. *)
Progress ==
    /\ inst.step \in Unmoved => Complete(legacy.home)
    /\ At("copy") => Len(backups) > 0 /\ Fresh(backups[Len(backups)])
    /\ inst.step \in Marked =>
          target.marker = Len(backups) /\ Len(backups) > 0 /\ Backup.failed = {}
    /\ inst.step \in Marked \intersect Unmoved => Fresh(Backup)
    /\ inst.step \in {"prepared"} \union ToRollBack => "state" \in target.home /\ ~target.remade
    /\ inst.step \in Installed => target.home = Part
    /\ At("move") => /\ inst.moved \in 0..3
                     /\ legacy.home = Part \ Moved(inst.moved)
                     /\ Backup.retired = Moved(inst.moved)
    /\ inst.step \in {"confirm", "retired"} => legacy.home = {} /\ Backup.retired = Part
    /\ At("retired") => unit.legacy = Off

(* Nobody meddled: the legacy service stays stopped and stores no row. *)
StaysStopped ==
    /\ ~inst.meddled /\ inst.step \in Preparing \union ToRollBack => ~unit.legacy.active
    /\ ~inst.meddled /\ inst.step \in Marked => target.rows = legacy.rows

Untouched == ~inst.meddled /\ ~inst.finalized

(* Where nothing of QuietWard is in place yet, or any more. *)
NotInstalled == inst.step \in Steps \ ToRollBack /\ (At("trap") => ~inst.prepared)

QuietwardOff == unit.quietward = Off /\ ~restart /\ Runs(Unit, "off")

Clean ==
    Untouched =>
        /\ NotInstalled /\ inst.step \notin {"state", "prepared"} => target.home = Remade
        /\ At("state") => target.home = {"config"} \union Remade
        /\ NotInstalled \/ At("trap") => Complete(legacy.home)
        /\ At("trap") /\ inst.prepared => MarkerAvailable /\ Backup.failed = {}
        /\ NotInstalled \/ inst.step \in {"install", "enable"} => QuietwardOff

FinalizedIsFinal ==
    inst.finalized => inst.step \in {"idle", "stop", "trap"} /\ (~At("idle") => ~inst.prepared)

UpgradeInv ==
    /\ UpgradeTyped /\ Shell /\ Progress /\ StaysStopped /\ Clean /\ FinalizedIsFinal
    /\ FailedInstallRestoresLegacy /\ RetiredLegacyIsCarriedOver

(* What the service and systemd do while the installer takes a step. *)
Alongside ==
    /\ UNCHANGED proc /\ restart' = (restart /\ ~Disabling)
    /\ Disabling => Runs(Unit, "off")

LEMMA Parts ==
    /\ Part = {"share", "config", "state", "unit"} /\ Moved(0) = {} /\ Moved(4) = Part
    /\ \A k \in 0..3 : /\ Order[k + 1] \in Part /\ Order[k + 1] \notin Moved(k)
                       /\ Moved(k + 1) = Moved(k) \union {Order[k + 1]}
<1>1. \A k \in 1..4 : Order[k] = IF k = 1 THEN "share" ELSE IF k = 2 THEN "config"
                                 ELSE IF k = 3 THEN "state" ELSE "unit"
  BY DEF Order
<1>2. 1..4 = {1, 2, 3, 4} /\ 1..0 = {}
  OBVIOUS
<1>3. \A k \in 0..3 : 1..(k + 1) = (1..k) \union {k + 1}
  OBVIOUS
<1> QED
  BY <1>1, <1>2, <1>3 DEF Part, Moved

LEMMA ContinueIs ==
    ASSUME UpgradeTyped, NEW s \in Steps, Continue(s)
    PROVE  /\ InstOK(inst') /\ inst'.step = s /\ inst'.prepared = inst.prepared
           /\ inst'.stopped = inst.stopped /\ inst'.moved = inst.moved
           /\ inst'.meddled = inst.meddled /\ inst'.finalized = inst.finalized
           /\ inst'.outcome = inst.outcome
BY DEF UpgradeTyped, InstOK, Continue

(* prepare's exception handler takes nothing but the configuration back. *)
LEMMA UndoPrepareIs ==
    ASSUME UpgradeTyped, UndoPrepare
    PROVE  /\ TargetOK(target', Len(backups)) /\ target'.home = target.home \ {"config"}
           /\ target'.remade = target.remade
<1> DEFINE home == target.home \ {"config"}
           none == {}
<1>1. target' = [target EXCEPT !.staged = none, !.home = home, !.rows = 0, !.marker = 0]
  BY DEF UndoPrepare
<1>2. home \in SUBSET Part /\ 0 \in 0..Len(backups)
  BY DEF UpgradeTyped, TargetOK
<1> HIDE DEF home, none
<1>3. /\ TargetOK(target', Len(backups)) /\ target'.home = home
      /\ target'.remade = target.remade
  BY <1>1, <1>2 DEF UpgradeTyped, TargetOK
<1> QED
  BY <1>3 DEF home

(* An update of the backup the marker names. *)
LEMMA RecordPut ==
    ASSUME backups \in Seq(BackupRecord), target.marker \in 1..Len(backups),
           NEW record \in BackupRecord,
           backups' = [backups EXCEPT ![target.marker] = record]
    PROVE  /\ backups' \in Seq(BackupRecord) /\ Len(backups') = Len(backups)
           /\ backups'[target.marker] = record
BY DEF BackupRecord

-----------------------------------------------------------------------------
(* Every legacy part that went into the backup is back in place. *)
Undone ==
    /\ LegacyOK(legacy') /\ legacy'.home = Part /\ legacy'.rows = legacy.rows
    /\ backups' \in Seq(BackupRecord) /\ Len(backups') = Len(backups)
    /\ backups'[target.marker].failed = Backup.failed
    /\ UnitOK(unit') /\ unit'.legacy.active = unit.legacy.active
    /\ unit'.quietward = unit.quietward

LEMMA UndoFinalizeIs ==
    UpgradeInv /\ UndoFinalize /\ inst.step \in {"move", "confirm"} => Undone
<1> SUFFICES ASSUME UpgradeInv, UndoFinalize, inst.step \in {"move", "confirm"} PROVE Undone
  OBVIOUS
<1>1. UpgradeTyped /\ target.marker \in 1..Len(backups)
  BY DEF UpgradeInv, UpgradeTyped, Progress, Marked, ToRollBack, Installed
<1>2. legacy.home \union Backup.retired = Part
  BY DEF UpgradeInv, UpgradeTyped, LegacyOK, Progress, At, Moved, Part
<1> DEFINE record == [Backup EXCEPT !.retired = {}]
<1>3. record \in BackupRecord /\ record.failed = Backup.failed
  <2>1. Backup \in BackupRecord
    BY <1>1 DEF UpgradeTyped, Backup
  <2> QED
    BY <2>1 DEF BackupRecord
<1>4. backups' = [backups EXCEPT ![target.marker] = record]
  BY DEF UndoFinalize, Backup
<1> HIDE DEF record
<1>5. /\ backups' \in Seq(BackupRecord) /\ Len(backups') = Len(backups)
      /\ backups'[target.marker] = record
  BY <1>1, <1>3, <1>4, RecordPut DEF UpgradeTyped
<1>6. LegacyOK(legacy') /\ legacy'.home = Part /\ legacy'.rows = legacy.rows
  BY <1>1, <1>2 DEF UndoFinalize, UpgradeTyped, LegacyOK
<1>7. UnitOK(unit') /\ unit'.legacy.active = unit.legacy.active /\ unit'.quietward = unit.quietward
  BY <1>1 DEF UndoFinalize, UpgradeTyped, UnitOK, Service
<1> QED
  BY <1>3, <1>5, <1>6, <1>7 DEF Undone

LEMMA LegacyCollectsStep == UpgradeInv /\ Alongside /\ LegacyCollects => UpgradeInv'
<1> SUFFICES ASSUME UpgradeInv, Alongside, LegacyCollects PROVE UpgradeInv'
  OBVIOUS
<1>1. UpgradeTyped /\ unit.legacy.active /\ UNCHANGED <<target, backups, unit, inst>>
  BY DEF UpgradeInv, LegacyCollects
<1>2. LegacyOK(legacy') /\ legacy'.home = legacy.home
  BY <1>1 DEF LegacyCollects, UpgradeTyped, LegacyOK
<1>3. UpgradeTyped'
  BY <1>1, <1>2 DEF UpgradeTyped
<1>4. Shell' /\ FinalizedIsFinal'
  BY <1>1, <1>2 DEF UpgradeInv, Shell, FinalizedIsFinal, Preparing, ToRollBack, Installed, At
<1>5. Progress'
  BY <1>1, <1>2 DEF UpgradeInv, Progress, Fresh, Backup, Complete, Unmoved, Preparing, Marked,
     ToRollBack, Installed, At
<1>6. StaysStopped'
  BY <1>1, <1>2 DEF UpgradeInv, StaysStopped, Marked, Preparing, ToRollBack, Installed, At
<1>7. Clean'
  BY <1>1, <1>2 DEF UpgradeInv, Shell, Progress, Clean, Remade, Alongside, Untouched, NotInstalled,
     Disabling, QuietwardOff, MarkerAvailable, Backup, Complete, Steps, Preparing, ToRollBack,
     Installed, Marked, Unmoved, Runs, At
<1>8. FailedInstallRestoresLegacy' /\ RetiredLegacyIsCarriedOver'
  BY <1>1, <1>2 DEF UpgradeInv, Clean, Remade, Untouched, NotInstalled, FinalizedIsFinal,
     FailedInstallRestoresLegacy, RetiredLegacyIsCarriedOver, QuietwardOff, MarkerAvailable,
     Backup, Complete, Steps, Preparing, ToRollBack, Installed, Marked, Unmoved, At, Off
<1> QED
  BY <1>3, <1>4, <1>5, <1>6, <1>7, <1>8 DEF UpgradeInv

LEMMA UserStartsLegacyStep == UpgradeInv /\ Alongside /\ UserStartsLegacy => UpgradeInv'
<1> SUFFICES ASSUME UpgradeInv, Alongside, UserStartsLegacy PROVE UpgradeInv'
  OBVIOUS
<1>1. UpgradeTyped /\ ~At("idle") /\ Complete(legacy.home) /\ UNCHANGED <<legacy, target, backups>>
  BY DEF UpgradeInv, UserStartsLegacy
<1>2. UnitOK(unit') /\ unit'.legacy.active = TRUE /\ unit'.legacy.enabled = unit.legacy.enabled
      /\ unit'.quietward = unit.quietward
  BY <1>1 DEF UserStartsLegacy, UpgradeTyped, UnitOK, Service
<1>3. InstOK(inst') /\ inst'.step = inst.step /\ inst'.prepared = inst.prepared
      /\ inst'.stopped = inst.stopped /\ inst'.moved = inst.moved
      /\ inst'.outcome = inst.outcome /\ inst'.finalized = inst.finalized /\ inst'.meddled
  BY <1>1 DEF UserStartsLegacy, UpgradeTyped, InstOK
<1>4. legacy.home # {}
  BY <1>1, Parts DEF Complete
<1>5. UpgradeTyped'
  BY <1>1, <1>2, <1>3, <1>4 DEF UpgradeTyped
<1>6. Shell' /\ FinalizedIsFinal'
  BY <1>1, <1>2, <1>3, <1>4 DEF UpgradeInv, Shell, FinalizedIsFinal, Preparing, ToRollBack,
     Installed, At
<1>7. Progress'
  BY <1>1, <1>2, <1>3, <1>4 DEF UpgradeInv, Progress, Fresh, Backup, Complete, Unmoved,
     Preparing, Marked, ToRollBack, Installed, At
<1>8. StaysStopped'
  BY <1>1, <1>2, <1>3, <1>4 DEF UpgradeInv, StaysStopped, Marked, Preparing, ToRollBack,
     Installed, At
<1>9. Clean'
  BY <1>1, <1>2, <1>3, <1>4 DEF UpgradeInv, Shell, Progress, Clean, Remade, Alongside, Untouched,
     NotInstalled, Disabling, QuietwardOff, MarkerAvailable, Backup, Complete, Steps, Preparing,
     ToRollBack, Installed, Marked, Unmoved, Runs, At
<1>10. FailedInstallRestoresLegacy' /\ RetiredLegacyIsCarriedOver'
  BY <1>1, <1>2, <1>3, <1>4 DEF UpgradeInv, Clean, Remade, Untouched, NotInstalled,
     FinalizedIsFinal, FailedInstallRestoresLegacy, RetiredLegacyIsCarriedOver, QuietwardOff,
     MarkerAvailable, Backup, Complete, Steps, Preparing, ToRollBack, Installed, Marked, Unmoved, At
<1> QED
  BY <1>5, <1>6, <1>7, <1>8, <1>9, <1>10 DEF UpgradeInv

LEMMA UserStopsLegacyStep == UpgradeInv /\ Alongside /\ UserStopsLegacy => UpgradeInv'
<1> SUFFICES ASSUME UpgradeInv, Alongside, UserStopsLegacy PROVE UpgradeInv'
  OBVIOUS
<1>1. UpgradeTyped /\ ~At("idle") /\ unit.legacy.active /\ inst.meddled
      /\ UNCHANGED <<legacy, target, backups, inst>>
  BY DEF UpgradeInv, UserStopsLegacy
<1>2. UnitOK(unit') /\ unit'.legacy.active = FALSE /\ unit'.legacy.enabled = unit.legacy.enabled
      /\ unit'.quietward = unit.quietward
  BY <1>1 DEF UserStopsLegacy, UpgradeTyped, UnitOK, Service
<1>3. UpgradeTyped'
  BY <1>1, <1>2 DEF UpgradeTyped
<1>4. Shell' /\ FinalizedIsFinal'
  BY <1>1, <1>2 DEF UpgradeInv, Shell, FinalizedIsFinal, Preparing, ToRollBack, Installed, At
<1>5. Progress'
  BY <1>1, <1>2 DEF UpgradeInv, Progress, Fresh, Backup, Complete, Unmoved, Preparing, Marked,
     ToRollBack, Installed, At, Off
<1>6. StaysStopped'
  BY <1>1, <1>2 DEF UpgradeInv, StaysStopped, Marked, Preparing, ToRollBack, Installed, At
<1>7. Clean'
  BY <1>1, <1>2 DEF UpgradeInv, Shell, Progress, Clean, Remade, Alongside, Untouched, NotInstalled,
     Disabling, QuietwardOff, MarkerAvailable, Backup, Complete, Steps, Preparing, ToRollBack,
     Installed, Marked, Unmoved, Runs, At
<1>8. FailedInstallRestoresLegacy' /\ RetiredLegacyIsCarriedOver'
  BY <1>1, <1>2 DEF UpgradeInv, Clean, Remade, Untouched, NotInstalled, FinalizedIsFinal,
     FailedInstallRestoresLegacy, RetiredLegacyIsCarriedOver, QuietwardOff, MarkerAvailable,
     Backup, Complete, Steps, Preparing, ToRollBack, Installed, Marked, Unmoved, At, Off
<1> QED
  BY <1>3, <1>4, <1>5, <1>6, <1>7, <1>8 DEF UpgradeInv

LEMMA RunInstallerStep == UpgradeInv /\ Alongside /\ RunInstaller => UpgradeInv'
<1> SUFFICES ASSUME UpgradeInv, Alongside, RunInstaller PROVE UpgradeInv'
  OBVIOUS
<1>1. UpgradeTyped /\ inst.step = "idle" /\ UNCHANGED <<legacy, target, backups, unit>>
  BY DEF UpgradeInv, RunInstaller, At
<1> DEFINE runs == inst.runs + 1
             zero == 0
<1>2. inst' = [inst EXCEPT !.step = "stop", !.prepared = FALSE, !.stopped = TRUE, !.moved = zero,
                          !.runs = runs, !.outcome = "none"] /\ zero \in 0..4
  BY DEF RunInstaller
<1> HIDE DEF runs, zero
<1>3. InstOK(inst') /\ inst'.step = "stop" /\ ~inst'.prepared /\ inst'.stopped
      /\ inst'.meddled = inst.meddled /\ inst'.finalized = inst.finalized
      /\ inst'.outcome = "none"
  BY <1>1, <1>2 DEF UpgradeTyped, InstOK, Steps, Outcomes
<1>4. UpgradeTyped'
  BY <1>1, <1>2, <1>3 DEF UpgradeTyped
<1>5. Shell' /\ FinalizedIsFinal'
  BY <1>1, <1>2, <1>3 DEF UpgradeInv, Shell, FinalizedIsFinal, Preparing, ToRollBack, Installed,
     At
<1>6. Progress'
  BY <1>1, <1>2, <1>3 DEF UpgradeInv, Progress, Fresh, Backup, Complete, Unmoved, Preparing,
     Marked, ToRollBack, Installed, At
<1>7. StaysStopped'
  BY <1>1, <1>2, <1>3 DEF UpgradeInv, StaysStopped, Marked, Preparing, ToRollBack, Installed, At
<1>8. Clean'
  BY <1>1, <1>2, <1>3 DEF UpgradeInv, Shell, Progress, Clean, Remade, Alongside, Untouched,
     NotInstalled, Disabling, QuietwardOff, MarkerAvailable, Backup, Complete, Steps, Preparing,
     ToRollBack, Installed, Marked, Unmoved, Runs, At
<1>9. FailedInstallRestoresLegacy' /\ RetiredLegacyIsCarriedOver'
  BY <1>1, <1>2, <1>3 DEF UpgradeInv, Clean, Remade, Untouched, NotInstalled, FinalizedIsFinal,
     FailedInstallRestoresLegacy, RetiredLegacyIsCarriedOver, QuietwardOff, MarkerAvailable,
     Backup, Complete, Steps, Preparing, ToRollBack, Installed, Marked, Unmoved, At
<1> QED
  BY <1>4, <1>5, <1>6, <1>7, <1>8, <1>9 DEF UpgradeInv

LEMMA StopLegacyStep == UpgradeInv /\ Alongside /\ StopLegacy => UpgradeInv'
<1> SUFFICES ASSUME UpgradeInv, Alongside, StopLegacy PROVE UpgradeInv'
  OBVIOUS
<1>1. UpgradeTyped /\ inst.step = "stop" /\ UNCHANGED <<legacy, target, backups>>
  BY DEF UpgradeInv, StopLegacy, At
<1>2. PICK s \in {"validate", "trap"} : Continue(s)
      /\ (s = "validate" => unit' = [unit EXCEPT !.legacy.active = FALSE])
      /\ (s = "trap" => UNCHANGED unit /\ "unit" \notin legacy.home)
      /\ (s = "validate" => "unit" \in legacy.home)
  BY DEF StopLegacy
<1>3. s \in Steps
  BY DEF Steps, Preparing, ToRollBack, Installed
<1>4. InstOK(inst') /\ inst'.step = s /\ inst'.prepared = inst.prepared
      /\ inst'.stopped = inst.stopped /\ inst'.moved = inst.moved
      /\ inst'.outcome = inst.outcome /\ inst'.meddled = inst.meddled
      /\ inst'.finalized = inst.finalized
  BY <1>1, <1>2, <1>3, ContinueIs
<1>5. UnitOK(unit') /\ unit'.legacy.active \in {FALSE, unit.legacy.active}
      /\ unit'.legacy.enabled = unit.legacy.enabled /\ unit'.quietward = unit.quietward
      /\ (unit.legacy = Off => unit'.legacy = Off)
  <2> DEFINE stopped == [unit EXCEPT !.legacy.active = FALSE]
  <2>1. UnitOK(stopped) /\ stopped.legacy.active = FALSE
        /\ stopped.legacy.enabled = unit.legacy.enabled /\ stopped.quietward = unit.quietward
    BY <1>1 DEF UpgradeTyped, UnitOK, Service
  <2>2. unit.legacy = Off => stopped.legacy = Off
    <3>1. stopped.legacy \in Service
      BY <2>1 DEF UnitOK
    <3>2. stopped.legacy = [active |-> stopped.legacy.active,
                            enabled |-> stopped.legacy.enabled]
      BY <3>1 DEF Service
    <3> HIDE DEF stopped
    <3>3. unit.legacy = Off => unit.legacy.enabled = FALSE
      BY DEF Off
    <3> QED
      BY <2>1, <3>2, <3>3 DEF Off
  <2>3. unit' = stopped \/ unit' = unit
    BY <1>2
  <2> QED
    BY <1>1, <2>1, <2>2, <2>3 DEF UpgradeTyped
<1>6. UpgradeTyped'
  BY <1>1, <1>2, <1>3, <1>4, <1>5 DEF UpgradeTyped
<1>7. Shell' /\ FinalizedIsFinal'
  BY <1>1, <1>2, <1>3, <1>4, <1>5 DEF UpgradeInv, Shell, FinalizedIsFinal, Preparing,
     ToRollBack, Installed, At, RetiredLegacyIsCarriedOver
<1>8. Progress'
  BY <1>1, <1>2, <1>3, <1>4, <1>5 DEF UpgradeInv, Progress, Fresh, Backup, Complete, Unmoved,
     Preparing, Marked, ToRollBack, Installed, At
<1>9. StaysStopped'
  BY <1>1, <1>2, <1>3, <1>4, <1>5 DEF UpgradeInv, StaysStopped, Marked, Preparing, ToRollBack,
     Installed, At
<1>10. Clean'
  BY <1>1, <1>2, <1>3, <1>4, <1>5, Parts DEF UpgradeInv, Shell, Progress, Clean, Remade, Alongside,
     Untouched, NotInstalled, Disabling, QuietwardOff, MarkerAvailable, Backup, Complete, Steps,
     Preparing, ToRollBack, Installed, Marked, Unmoved, Runs, At
<1>11. FailedInstallRestoresLegacy' /\ RetiredLegacyIsCarriedOver'
  BY <1>1, <1>2, <1>3, <1>4, <1>5 DEF UpgradeInv, Clean, Remade, Untouched, NotInstalled,
     FinalizedIsFinal, FailedInstallRestoresLegacy, RetiredLegacyIsCarriedOver, QuietwardOff,
     MarkerAvailable, Backup, Complete, Steps, Preparing, ToRollBack, Installed, Marked,
     Unmoved, At
<1> QED
  BY <1>6, <1>7, <1>8, <1>9, <1>10, <1>11 DEF UpgradeInv

LEMMA ValidateStep == UpgradeInv /\ Alongside /\ Validate => UpgradeInv'
<1> SUFFICES ASSUME UpgradeInv, Alongside, Validate PROVE UpgradeInv'
  OBVIOUS
<1>1. UpgradeTyped /\ inst.step = "validate" /\ UNCHANGED <<legacy, target, backups, unit>>
  BY DEF UpgradeInv, Validate, At
<1>2. PICK s \in {"backup", "trap"} : Continue(s) /\ (s = "backup" => MayPrepare)
  BY DEF Validate
<1>3. s \in Steps
  BY DEF Steps, Preparing, ToRollBack, Installed
<1>4. InstOK(inst') /\ inst'.step = s /\ inst'.prepared = inst.prepared
      /\ inst'.stopped = inst.stopped /\ inst'.moved = inst.moved
      /\ inst'.outcome = inst.outcome /\ inst'.meddled = inst.meddled
      /\ inst'.finalized = inst.finalized
  BY <1>1, <1>2, <1>3, ContinueIs
<1>5. UpgradeTyped'
  BY <1>1, <1>2, <1>3, <1>4 DEF UpgradeTyped
<1>6. Shell' /\ FinalizedIsFinal'
  BY <1>1, <1>2, <1>3, <1>4 DEF UpgradeInv, Shell, FinalizedIsFinal, Preparing, ToRollBack,
     Installed, At
<1>7. Progress'
  BY <1>1, <1>2, <1>3, <1>4 DEF UpgradeInv, Progress, Fresh, Backup, Complete, Unmoved,
     Preparing, Marked, ToRollBack, Installed, At, MayPrepare
<1>8. StaysStopped'
  BY <1>1, <1>2, <1>3, <1>4 DEF UpgradeInv, StaysStopped, Marked, Preparing, ToRollBack,
     Installed, At, MayPrepare
<1>9. Clean'
  BY <1>1, <1>2, <1>3, <1>4 DEF UpgradeInv, Shell, Progress, Clean, Remade, Alongside, Untouched,
     NotInstalled, Disabling, QuietwardOff, MarkerAvailable, Backup, Complete, Steps, Preparing,
     ToRollBack, Installed, Marked, Unmoved, Runs, At, MayPrepare
<1>10. FailedInstallRestoresLegacy' /\ RetiredLegacyIsCarriedOver'
  BY <1>1, <1>2, <1>3, <1>4 DEF UpgradeInv, Clean, Remade, Untouched, NotInstalled,
     FinalizedIsFinal, FailedInstallRestoresLegacy, RetiredLegacyIsCarriedOver, QuietwardOff,
     MarkerAvailable, Backup, Complete, Steps, Preparing, ToRollBack, Installed, Marked, Unmoved, At
<1> QED
  BY <1>5, <1>6, <1>7, <1>8, <1>9, <1>10 DEF UpgradeInv

LEMMA CreateBackupStep == UpgradeInv /\ Alongside /\ CreateBackup => UpgradeInv'
<1> SUFFICES ASSUME UpgradeInv, Alongside, CreateBackup PROVE UpgradeInv'
  OBVIOUS
<1>1. UpgradeTyped /\ inst.step = "backup" /\ UNCHANGED <<legacy, target, unit>>
  BY DEF UpgradeInv, CreateBackup, At
<1>2. Continue("copy") /\ "copy" \in Steps
  BY DEF CreateBackup, Steps, Preparing, ToRollBack, Installed
<1>3. InstOK(inst') /\ inst'.step = "copy" /\ inst'.prepared = inst.prepared
      /\ inst'.stopped = inst.stopped /\ inst'.moved = inst.moved
      /\ inst'.outcome = inst.outcome /\ inst'.meddled = inst.meddled
      /\ inst'.finalized = inst.finalized
  BY <1>1, <1>2, ContinueIs
<1>4. backups' \in Seq(BackupRecord) /\ Len(backups') = Len(backups) + 1
      /\ Fresh(backups'[Len(backups')])
  <2> DEFINE fresh == [rows |-> legacy.rows, failed |-> {}, retired |-> {}, retiring |-> FALSE]
  <2>1. fresh \in BackupRecord /\ Fresh(fresh)
    BY <1>1 DEF UpgradeTyped, LegacyOK, BackupRecord, Fresh
  <2>2. backups' = Append(backups, fresh)
    BY DEF CreateBackup
  <2> HIDE DEF fresh
  <2> QED
    BY <1>1, <2>1, <2>2 DEF UpgradeTyped
<1>5. UpgradeTyped'
  BY <1>1, <1>2, <1>3, <1>4 DEF UpgradeTyped, TargetOK
<1>6. Shell' /\ FinalizedIsFinal'
  BY <1>1, <1>2, <1>3, <1>4 DEF UpgradeInv, Shell, FinalizedIsFinal, Preparing, ToRollBack,
     Installed, At
<1>7. Progress'
  BY <1>1, <1>2, <1>3, <1>4 DEF UpgradeInv, Progress, Fresh, Backup, Complete, Unmoved,
     Preparing, Marked, ToRollBack, Installed, At
<1>8. StaysStopped'
  BY <1>1, <1>2, <1>3, <1>4 DEF UpgradeInv, StaysStopped, Marked, Preparing, ToRollBack,
     Installed, At
<1>9. Clean'
  BY <1>1, <1>2, <1>3, <1>4 DEF UpgradeInv, Shell, Progress, Clean, Remade, Alongside, Untouched,
     NotInstalled, Disabling, QuietwardOff, MarkerAvailable, Backup, Complete, Steps, Preparing,
     ToRollBack, Installed, Marked, Unmoved, Runs, At
<1>10. FailedInstallRestoresLegacy' /\ RetiredLegacyIsCarriedOver'
  BY <1>1, <1>2, <1>3, <1>4 DEF UpgradeInv, Clean, Remade, Untouched, NotInstalled,
     FinalizedIsFinal, FailedInstallRestoresLegacy, RetiredLegacyIsCarriedOver, QuietwardOff,
     MarkerAvailable, Backup, Complete, Steps, Preparing, ToRollBack, Installed, Marked, Unmoved, At
<1> QED
  BY <1>5, <1>6, <1>7, <1>8, <1>9, <1>10 DEF UpgradeInv

LEMMA StageStep == UpgradeInv /\ Alongside /\ Stage => UpgradeInv'
<1> SUFFICES ASSUME UpgradeInv, Alongside, Stage PROVE UpgradeInv'
  OBVIOUS
<1>1. UpgradeTyped /\ inst.step = "copy" /\ UNCHANGED <<legacy, backups, unit>>
  BY DEF UpgradeInv, Stage, At
<1>2. Continue("verify") /\ "verify" \in Steps
  BY DEF Stage, Steps, Preparing, ToRollBack, Installed
<1>3. InstOK(inst') /\ inst'.step = "verify" /\ inst'.prepared = inst.prepared
      /\ inst'.stopped = inst.stopped /\ inst'.moved = inst.moved
      /\ inst'.outcome = inst.outcome /\ inst'.meddled = inst.meddled
      /\ inst'.finalized = inst.finalized
  BY <1>1, <1>2, ContinueIs
<1>4. TargetOK(target', Len(backups)) /\ target'.home = target.home /\ target'.rows = legacy.rows
      /\ target'.marker = Len(backups) /\ target'.remade = target.remade
  <2> DEFINE staged == {"config", "state"}
             marker == Len(backups)
  <2>1. target' = [target EXCEPT !.staged = staged, !.rows = legacy.rows, !.marker = marker]
    BY DEF Stage
  <2>2. marker \in 0..marker
    BY <1>1 DEF UpgradeTyped
  <2> HIDE DEF staged, marker
  <2>3. TargetOK(target', marker) /\ target'.home = target.home /\ target'.rows = legacy.rows
        /\ target'.marker = marker /\ target'.remade = target.remade
    BY <1>1, <2>1, <2>2 DEF UpgradeTyped, TargetOK, LegacyOK
  <2> QED
    BY <2>3 DEF marker
<1>5. UpgradeTyped'
  BY <1>1, <1>2, <1>3, <1>4 DEF UpgradeTyped
<1>6. Shell' /\ FinalizedIsFinal'
  BY <1>1, <1>2, <1>3, <1>4 DEF UpgradeInv, Shell, FinalizedIsFinal, Preparing, ToRollBack,
     Installed, At
<1>7. Progress'
  BY <1>1, <1>2, <1>3, <1>4 DEF UpgradeInv, Progress, Fresh, Backup, Complete, Unmoved,
     Preparing, Marked, ToRollBack, Installed, At
<1>8. StaysStopped'
  BY <1>1, <1>2, <1>3, <1>4 DEF UpgradeInv, StaysStopped, Marked, Preparing, ToRollBack,
     Installed, At
<1>9. Clean'
  BY <1>1, <1>2, <1>3, <1>4 DEF UpgradeInv, Shell, Progress, Clean, Remade, Alongside, Untouched,
     NotInstalled, Disabling, QuietwardOff, MarkerAvailable, Backup, Complete, Steps, Preparing,
     ToRollBack, Installed, Marked, Unmoved, Runs, At
<1>10. FailedInstallRestoresLegacy' /\ RetiredLegacyIsCarriedOver'
  BY <1>1, <1>2, <1>3, <1>4 DEF UpgradeInv, Clean, Remade, Untouched, NotInstalled,
     FinalizedIsFinal, FailedInstallRestoresLegacy, RetiredLegacyIsCarriedOver, QuietwardOff,
     MarkerAvailable, Backup, Complete, Steps, Preparing, ToRollBack, Installed, Marked, Unmoved, At
<1> QED
  BY <1>5, <1>6, <1>7, <1>8, <1>9, <1>10 DEF UpgradeInv

LEMMA VerifyCopyStep == UpgradeInv /\ Alongside /\ VerifyCopy => UpgradeInv'
<1> SUFFICES ASSUME UpgradeInv, Alongside, VerifyCopy PROVE UpgradeInv'
  OBVIOUS
<1>1. UpgradeTyped /\ inst.step = "verify" /\ UNCHANGED <<legacy, backups, unit>>
  BY DEF UpgradeInv, VerifyCopy, At
<1>2. PICK s \in {"config", "trap"} : Continue(s)
      /\ (s = "config" => UNCHANGED target) /\ (s = "trap" => UndoPrepare)
  BY DEF VerifyCopy
<1>3. s \in Steps
  BY DEF Steps, Preparing, ToRollBack, Installed
<1>4. InstOK(inst') /\ inst'.step = s /\ inst'.prepared = inst.prepared
      /\ inst'.stopped = inst.stopped /\ inst'.moved = inst.moved
      /\ inst'.outcome = inst.outcome /\ inst'.meddled = inst.meddled
      /\ inst'.finalized = inst.finalized
  BY <1>1, <1>2, <1>3, ContinueIs
<1>5. s = "trap" => /\ TargetOK(target', Len(backups)) /\ target'.home = target.home \ {"config"}
                    /\ target'.remade = target.remade
  BY <1>1, <1>2, UndoPrepareIs
<1>6. UpgradeTyped'
  BY <1>1, <1>2, <1>3, <1>4, <1>5 DEF UpgradeTyped
<1>7. Shell' /\ FinalizedIsFinal'
  BY <1>1, <1>2, <1>3, <1>4, <1>5 DEF UpgradeInv, Shell, FinalizedIsFinal, Preparing,
     ToRollBack, Installed, At
<1>8. Progress'
  BY <1>1, <1>2, <1>3, <1>4, <1>5 DEF UpgradeInv, Progress, Fresh, Backup, Complete, Unmoved,
     Preparing, Marked, ToRollBack, Installed, At
<1>9. StaysStopped'
  BY <1>1, <1>2, <1>3, <1>4, <1>5 DEF UpgradeInv, StaysStopped, Marked, Preparing, ToRollBack,
     Installed, At
<1>10. Clean'
  BY <1>1, <1>2, <1>3, <1>4, <1>5 DEF UpgradeInv, Shell, Progress, Clean, Remade, Alongside,
     Untouched, NotInstalled, Disabling, QuietwardOff, MarkerAvailable, Backup, Complete, Steps,
     Preparing, ToRollBack, Installed, Marked, Unmoved, Runs, At
<1>11. FailedInstallRestoresLegacy' /\ RetiredLegacyIsCarriedOver'
  BY <1>1, <1>2, <1>3, <1>4, <1>5 DEF UpgradeInv, Clean, Remade, Untouched, NotInstalled,
     FinalizedIsFinal, FailedInstallRestoresLegacy, RetiredLegacyIsCarriedOver, QuietwardOff,
     MarkerAvailable, Backup, Complete, Steps, Preparing, ToRollBack, Installed, Marked,
     Unmoved, At
<1> QED
  BY <1>6, <1>7, <1>8, <1>9, <1>10, <1>11 DEF UpgradeInv

LEMMA RenameConfigStep == UpgradeInv /\ Alongside /\ RenameConfig => UpgradeInv'
<1> SUFFICES ASSUME UpgradeInv, Alongside, RenameConfig PROVE UpgradeInv'
  OBVIOUS
<1>1. UpgradeTyped /\ inst.step = "config" /\ UNCHANGED <<legacy, backups, unit>>
  BY DEF UpgradeInv, RenameConfig, At
<1>2. Continue("state") /\ "state" \in Steps
  BY DEF RenameConfig, Steps, Preparing, ToRollBack, Installed
<1>3. InstOK(inst') /\ inst'.step = "state" /\ inst'.prepared = inst.prepared
      /\ inst'.stopped = inst.stopped /\ inst'.moved = inst.moved
      /\ inst'.outcome = inst.outcome /\ inst'.meddled = inst.meddled
      /\ inst'.finalized = inst.finalized
  BY <1>1, <1>2, ContinueIs
<1>4. "config" \in Part /\ target' = MoveIntoPlace("config")
  BY Parts DEF RenameConfig
<1>5. TargetOK(target', Len(backups)) /\ target'.home = target.home \union {"config"}
      /\ target'.rows = target.rows /\ target'.marker = target.marker
      /\ target'.remade = target.remade
  BY <1>1, <1>4 DEF UpgradeTyped, TargetOK, MoveIntoPlace
<1>6. UpgradeTyped'
  BY <1>1, <1>2, <1>3, <1>4, <1>5 DEF UpgradeTyped
<1>7. Shell' /\ FinalizedIsFinal'
  BY <1>1, <1>2, <1>3, <1>4, <1>5 DEF UpgradeInv, Shell, FinalizedIsFinal, Preparing,
     ToRollBack, Installed, At
<1>8. Progress'
  BY <1>1, <1>2, <1>3, <1>4, <1>5 DEF UpgradeInv, Progress, Fresh, Backup, Complete, Unmoved,
     Preparing, Marked, ToRollBack, Installed, At
<1>9. StaysStopped'
  BY <1>1, <1>2, <1>3, <1>4, <1>5 DEF UpgradeInv, StaysStopped, Marked, Preparing, ToRollBack,
     Installed, At
<1>10. Clean'
  BY <1>1, <1>2, <1>3, <1>4, <1>5 DEF UpgradeInv, Shell, Progress, Clean, Remade, Alongside,
     Untouched, NotInstalled, Disabling, QuietwardOff, MarkerAvailable, Backup, Complete, Steps,
     Preparing, ToRollBack, Installed, Marked, Unmoved, Runs, At
<1>11. FailedInstallRestoresLegacy' /\ RetiredLegacyIsCarriedOver'
  BY <1>1, <1>2, <1>3, <1>4, <1>5 DEF UpgradeInv, Clean, Remade, Untouched, NotInstalled,
     FinalizedIsFinal, FailedInstallRestoresLegacy, RetiredLegacyIsCarriedOver, QuietwardOff,
     MarkerAvailable, Backup, Complete, Steps, Preparing, ToRollBack, Installed, Marked,
     Unmoved, At
<1> QED
  BY <1>6, <1>7, <1>8, <1>9, <1>10, <1>11 DEF UpgradeInv

LEMMA RenameStateStep == UpgradeInv /\ Alongside /\ RenameState => UpgradeInv'
<1> SUFFICES ASSUME UpgradeInv, Alongside, RenameState PROVE UpgradeInv'
  OBVIOUS
<1>1. UpgradeTyped /\ inst.step = "state" /\ UNCHANGED <<legacy, backups, unit>>
  BY DEF UpgradeInv, RenameState, At
<1>2. PICK s \in {"prepared", "trap"} :
         /\ Continue(s)
         /\ s = "trap" => UndoPrepare
         /\ s = "prepared" => "state" \notin target.home /\ target' = MoveIntoPlace("state")
  BY DEF RenameState
<1>3. InstOK(inst') /\ inst'.step = s /\ inst'.prepared = inst.prepared
      /\ inst'.stopped = inst.stopped /\ inst'.moved = inst.moved
      /\ inst'.outcome = inst.outcome /\ inst'.meddled = inst.meddled
      /\ inst'.finalized = inst.finalized
  <2>1. s \in Steps
    BY DEF Steps, Preparing, ToRollBack, Installed
  <2> QED
    BY <1>1, <1>2, <2>1, ContinueIs
<1>4. s = "trap" => /\ TargetOK(target', Len(backups)) /\ target'.home = target.home \ {"config"}
                    /\ target'.remade = target.remade
  BY <1>1, <1>2, UndoPrepareIs
<1>5. s = "prepared" =>
         /\ TargetOK(target', Len(backups)) /\ target'.home = target.home \union {"state"}
         /\ target'.rows = target.rows /\ target'.marker = target.marker
         /\ target'.remade = target.remade /\ "state" \notin target.home
  <2>1. "state" \in Part
    BY Parts
  <2> QED
    BY <1>1, <1>2, <2>1 DEF UpgradeTyped, TargetOK, MoveIntoPlace
<1>6. UpgradeTyped'
  BY <1>1, <1>2, <1>3, <1>4, <1>5 DEF UpgradeTyped
<1>7. Shell' /\ FinalizedIsFinal'
  BY <1>1, <1>2, <1>3, <1>4, <1>5 DEF UpgradeInv, Shell, FinalizedIsFinal, Preparing,
     ToRollBack, Installed, At
<1>8. Progress'
  <2>1. CASE s = "trap"
    BY <1>3, <2>1 DEF Progress, Unmoved, Preparing, Marked, ToRollBack, Installed, At
  <2>2. CASE s = "prepared"
    <3>1. ~target'.remade /\ "state" \in target'.home
      BY <1>5, <2>2 DEF UpgradeInv, Shell
    <3> QED
      BY <1>1, <1>3, <1>5, <2>2, <3>1 DEF UpgradeInv, Progress, Fresh, Backup, Complete,
         Unmoved, Preparing, Marked, ToRollBack, Installed, At
  <2> QED
    BY <1>2, <2>1, <2>2
<1>9. StaysStopped'
  BY <1>1, <1>2, <1>3, <1>4, <1>5 DEF UpgradeInv, StaysStopped, Marked, Preparing, ToRollBack,
     Installed, At
<1>10. Clean'
  BY <1>1, <1>2, <1>3, <1>4, <1>5 DEF UpgradeInv, Shell, Progress, Clean, Remade, Alongside,
     Untouched, NotInstalled, Disabling, QuietwardOff, MarkerAvailable, Backup, Complete, Steps,
     Preparing, ToRollBack, Installed, Marked, Unmoved, Runs, At
<1>11. FailedInstallRestoresLegacy' /\ RetiredLegacyIsCarriedOver'
  BY <1>1, <1>2, <1>3, <1>4, <1>5 DEF UpgradeInv, Clean, Remade, Untouched, NotInstalled,
     FinalizedIsFinal, FailedInstallRestoresLegacy, RetiredLegacyIsCarriedOver, QuietwardOff,
     MarkerAvailable, Backup, Complete, Steps, Preparing, ToRollBack, Installed, Marked,
     Unmoved, At
<1> QED
  BY <1>6, <1>7, <1>8, <1>9, <1>10, <1>11 DEF UpgradeInv

LEMMA PrepareReturnsStep == UpgradeInv /\ Alongside /\ PrepareReturns => UpgradeInv'
<1> SUFFICES ASSUME UpgradeInv, Alongside, PrepareReturns PROVE UpgradeInv'
  OBVIOUS
<1>1. UpgradeTyped /\ inst.step = "prepared" /\ UNCHANGED <<legacy, target, backups, unit>>
  BY DEF UpgradeInv, PrepareReturns, At
<1>2. InstOK(inst') /\ inst'.step = "install" /\ inst'.stopped = inst.stopped
      /\ inst'.moved = inst.moved /\ inst'.outcome = inst.outcome
      /\ inst'.meddled = inst.meddled /\ inst'.finalized = inst.finalized /\ inst'.prepared
  BY <1>1 DEF PrepareReturns, UpgradeTyped, InstOK, Steps, ToRollBack
<1>3. UpgradeTyped'
  BY <1>1, <1>2 DEF UpgradeTyped
<1>4. Shell' /\ FinalizedIsFinal'
  BY <1>1, <1>2 DEF UpgradeInv, Shell, FinalizedIsFinal, Preparing, ToRollBack, Installed, At
<1>5. Progress'
  BY <1>1, <1>2 DEF UpgradeInv, Progress, Fresh, Backup, Complete, Unmoved, Preparing, Marked,
     ToRollBack, Installed, At
<1>6. StaysStopped'
  BY <1>1, <1>2 DEF UpgradeInv, StaysStopped, Marked, Preparing, ToRollBack, Installed, At
<1>7. Clean'
  BY <1>1, <1>2 DEF UpgradeInv, Shell, Progress, Clean, Remade, Alongside, Untouched, NotInstalled,
     Disabling, QuietwardOff, MarkerAvailable, Backup, Complete, Steps, Preparing, ToRollBack,
     Installed, Marked, Unmoved, Runs, At
<1>8. FailedInstallRestoresLegacy' /\ RetiredLegacyIsCarriedOver'
  BY <1>1, <1>2 DEF UpgradeInv, Clean, Remade, Untouched, NotInstalled, FinalizedIsFinal,
     FailedInstallRestoresLegacy, RetiredLegacyIsCarriedOver, QuietwardOff, MarkerAvailable,
     Backup, Complete, Steps, Preparing, ToRollBack, Installed, Marked, Unmoved, At
<1> QED
  BY <1>3, <1>4, <1>5, <1>6, <1>7, <1>8 DEF UpgradeInv

LEMMA InstallFilesStep == UpgradeInv /\ Alongside /\ InstallFiles => UpgradeInv'
<1> SUFFICES ASSUME UpgradeInv, Alongside, InstallFiles PROVE UpgradeInv'
  OBVIOUS
<1>1. UpgradeTyped /\ inst.step = "install" /\ UNCHANGED <<legacy, backups, unit>>
  BY DEF UpgradeInv, InstallFiles, At
<1>2. Continue("enable") /\ "enable" \in Steps
  BY DEF InstallFiles, Steps, Preparing, ToRollBack, Installed
<1>3. InstOK(inst') /\ inst'.step = "enable" /\ inst'.prepared = inst.prepared
      /\ inst'.stopped = inst.stopped /\ inst'.moved = inst.moved
      /\ inst'.outcome = inst.outcome /\ inst'.meddled = inst.meddled
      /\ inst'.finalized = inst.finalized
  BY <1>1, <1>2, ContinueIs
<1>4. TargetOK(target', Len(backups)) /\ target'.home = Part
      /\ target'.rows = target.rows /\ target'.marker = target.marker
      /\ target'.remade = target.remade
  BY <1>1 DEF InstallFiles, UpgradeTyped, TargetOK
<1>5. "state" \in Part
  BY Parts
<1>6. UpgradeTyped'
  BY <1>1, <1>2, <1>3, <1>4, <1>5 DEF UpgradeTyped
<1>7. Shell' /\ FinalizedIsFinal'
  BY <1>1, <1>2, <1>3, <1>4, <1>5 DEF UpgradeInv, Shell, FinalizedIsFinal, Preparing,
     ToRollBack, Installed, At
<1>8. Progress'
  BY <1>1, <1>2, <1>3, <1>4, <1>5 DEF UpgradeInv, Progress, Fresh, Backup, Complete, Unmoved,
     Preparing, Marked, ToRollBack, Installed, At
<1>9. StaysStopped'
  BY <1>1, <1>2, <1>3, <1>4, <1>5 DEF UpgradeInv, StaysStopped, Marked, Preparing, ToRollBack,
     Installed, At
<1>10. Clean'
  BY <1>1, <1>2, <1>3, <1>4, <1>5 DEF UpgradeInv, Shell, Progress, Clean, Remade, Alongside,
     Untouched, NotInstalled, Disabling, QuietwardOff, MarkerAvailable, Backup, Complete, Steps,
     Preparing, ToRollBack, Installed, Marked, Unmoved, Runs, At
<1>11. FailedInstallRestoresLegacy' /\ RetiredLegacyIsCarriedOver'
  BY <1>1, <1>2, <1>3, <1>4, <1>5 DEF UpgradeInv, Clean, Remade, Untouched, NotInstalled,
     FinalizedIsFinal, FailedInstallRestoresLegacy, RetiredLegacyIsCarriedOver, QuietwardOff,
     MarkerAvailable, Backup, Complete, Steps, Preparing, ToRollBack, Installed, Marked,
     Unmoved, At
<1> QED
  BY <1>6, <1>7, <1>8, <1>9, <1>10, <1>11 DEF UpgradeInv

LEMMA EnableNowStep == UpgradeInv /\ Alongside /\ EnableNow => UpgradeInv'
<1> SUFFICES ASSUME UpgradeInv, Alongside, EnableNow PROVE UpgradeInv'
  OBVIOUS
<1>1. UpgradeTyped /\ inst.step = "enable" /\ UNCHANGED <<legacy, target, backups>>
  BY DEF UpgradeInv, EnableNow, At
<1>2. Continue("check") /\ "check" \in Steps
  BY DEF EnableNow, Steps, Preparing, ToRollBack, Installed
<1>3. InstOK(inst') /\ inst'.step = "check" /\ inst'.prepared = inst.prepared
      /\ inst'.stopped = inst.stopped /\ inst'.moved = inst.moved
      /\ inst'.outcome = inst.outcome /\ inst'.meddled = inst.meddled
      /\ inst'.finalized = inst.finalized
  BY <1>1, <1>2, ContinueIs
<1>4. UnitOK(unit') /\ unit'.legacy = unit.legacy
  BY <1>1 DEF EnableNow, UpgradeTyped, UnitOK, Service
<1>5. UpgradeTyped'
  BY <1>1, <1>2, <1>3, <1>4 DEF UpgradeTyped
<1>6. Shell' /\ FinalizedIsFinal'
  BY <1>1, <1>2, <1>3, <1>4 DEF UpgradeInv, Shell, FinalizedIsFinal, Preparing, ToRollBack,
     Installed, At
<1>7. Progress'
  BY <1>1, <1>2, <1>3, <1>4 DEF UpgradeInv, Progress, Fresh, Backup, Complete, Unmoved,
     Preparing, Marked, ToRollBack, Installed, At
<1>8. StaysStopped'
  BY <1>1, <1>2, <1>3, <1>4 DEF UpgradeInv, StaysStopped, Marked, Preparing, ToRollBack,
     Installed, At
<1>9. Clean'
  BY <1>1, <1>2, <1>3, <1>4 DEF UpgradeInv, Shell, Progress, Clean, Remade, Alongside, Untouched,
     NotInstalled, Disabling, QuietwardOff, MarkerAvailable, Backup, Complete, Steps, Preparing,
     ToRollBack, Installed, Marked, Unmoved, Runs, At
<1>10. FailedInstallRestoresLegacy' /\ RetiredLegacyIsCarriedOver'
  BY <1>1, <1>2, <1>3, <1>4 DEF UpgradeInv, Clean, Remade, Untouched, NotInstalled,
     FinalizedIsFinal, FailedInstallRestoresLegacy, RetiredLegacyIsCarriedOver, QuietwardOff,
     MarkerAvailable, Backup, Complete, Steps, Preparing, ToRollBack, Installed, Marked, Unmoved, At
<1> QED
  BY <1>5, <1>6, <1>7, <1>8, <1>9, <1>10 DEF UpgradeInv

LEMMA CheckActiveStep == UpgradeInv /\ Alongside /\ CheckActive => UpgradeInv'
<1> SUFFICES ASSUME UpgradeInv, Alongside, CheckActive PROVE UpgradeInv'
  OBVIOUS
<1>1. UpgradeTyped /\ inst.step = "check" /\ UNCHANGED <<legacy, target, backups, unit>>
  BY DEF UpgradeInv, CheckActive, At
<1>2. PICK s \in {"disable", "trap"} : Continue(s)
  BY DEF CheckActive
<1>3. s \in Steps
  BY DEF Steps, Preparing, ToRollBack, Installed
<1>4. InstOK(inst') /\ inst'.step = s /\ inst'.prepared = inst.prepared
      /\ inst'.stopped = inst.stopped /\ inst'.moved = inst.moved
      /\ inst'.outcome = inst.outcome /\ inst'.meddled = inst.meddled
      /\ inst'.finalized = inst.finalized
  BY <1>1, <1>2, <1>3, ContinueIs
<1>5. UpgradeTyped'
  BY <1>1, <1>2, <1>3, <1>4 DEF UpgradeTyped
<1>6. Shell' /\ FinalizedIsFinal'
  BY <1>1, <1>2, <1>3, <1>4 DEF UpgradeInv, Shell, FinalizedIsFinal, Preparing, ToRollBack,
     Installed, At
<1>7. Progress'
  BY <1>1, <1>2, <1>3, <1>4 DEF UpgradeInv, Progress, Fresh, Backup, Complete, Unmoved,
     Preparing, Marked, ToRollBack, Installed, At
<1>8. StaysStopped'
  BY <1>1, <1>2, <1>3, <1>4 DEF UpgradeInv, StaysStopped, Marked, Preparing, ToRollBack,
     Installed, At
<1>9. Clean'
  BY <1>1, <1>2, <1>3, <1>4 DEF UpgradeInv, Shell, Progress, Clean, Remade, Alongside, Untouched,
     NotInstalled, Disabling, QuietwardOff, MarkerAvailable, Backup, Complete, Steps, Preparing,
     ToRollBack, Installed, Marked, Unmoved, Runs, At
<1>10. FailedInstallRestoresLegacy' /\ RetiredLegacyIsCarriedOver'
  BY <1>1, <1>2, <1>3, <1>4 DEF UpgradeInv, Clean, Remade, Untouched, NotInstalled,
     FinalizedIsFinal, FailedInstallRestoresLegacy, RetiredLegacyIsCarriedOver, QuietwardOff,
     MarkerAvailable, Backup, Complete, Steps, Preparing, ToRollBack, Installed, Marked, Unmoved, At
<1> QED
  BY <1>5, <1>6, <1>7, <1>8, <1>9, <1>10 DEF UpgradeInv

LEMMA DisableLegacyStep == UpgradeInv /\ Alongside /\ DisableLegacy => UpgradeInv'
<1> SUFFICES ASSUME UpgradeInv, Alongside, DisableLegacy PROVE UpgradeInv'
  OBVIOUS
<1>1. UpgradeTyped /\ inst.step = "disable" /\ UNCHANGED <<legacy, target, backups>>
  BY DEF UpgradeInv, DisableLegacy, At
<1>2. PICK s \in {"retire", "trap"} : Continue(s)
      /\ (unit' = unit \/ unit' = [unit EXCEPT !.legacy.enabled = FALSE])
  BY DEF DisableLegacy
<1>3. s \in Steps
  BY DEF Steps, Preparing, ToRollBack, Installed
<1>4. InstOK(inst') /\ inst'.step = s /\ inst'.prepared = inst.prepared
      /\ inst'.stopped = inst.stopped /\ inst'.moved = inst.moved
      /\ inst'.outcome = inst.outcome /\ inst'.meddled = inst.meddled
      /\ inst'.finalized = inst.finalized
  BY <1>1, <1>2, <1>3, ContinueIs
<1>5. UnitOK(unit') /\ unit'.legacy.active = unit.legacy.active /\ unit'.quietward = unit.quietward
  <2> DEFINE disabled == [unit EXCEPT !.legacy.enabled = FALSE]
  <2>1. UnitOK(disabled) /\ disabled.legacy.active = unit.legacy.active
        /\ disabled.quietward = unit.quietward
    BY <1>1 DEF UpgradeTyped, UnitOK, Service
  <2> QED
    BY <1>1, <1>2, <2>1 DEF UpgradeTyped
<1>6. UpgradeTyped'
  BY <1>1, <1>2, <1>3, <1>4, <1>5 DEF UpgradeTyped
<1>7. Shell' /\ FinalizedIsFinal'
  BY <1>1, <1>2, <1>3, <1>4, <1>5 DEF UpgradeInv, Shell, FinalizedIsFinal, Preparing,
     ToRollBack, Installed, At
<1>8. Progress'
  BY <1>1, <1>2, <1>3, <1>4, <1>5 DEF UpgradeInv, Progress, Fresh, Backup, Complete, Unmoved,
     Preparing, Marked, ToRollBack, Installed, At
<1>9. StaysStopped'
  BY <1>1, <1>2, <1>3, <1>4, <1>5 DEF UpgradeInv, StaysStopped, Marked, Preparing, ToRollBack,
     Installed, At
<1>10. Clean'
  BY <1>1, <1>2, <1>3, <1>4, <1>5 DEF UpgradeInv, Shell, Progress, Clean, Remade, Alongside,
     Untouched, NotInstalled, Disabling, QuietwardOff, MarkerAvailable, Backup, Complete, Steps,
     Preparing, ToRollBack, Installed, Marked, Unmoved, Runs, At
<1>11. FailedInstallRestoresLegacy' /\ RetiredLegacyIsCarriedOver'
  BY <1>1, <1>2, <1>3, <1>4, <1>5 DEF UpgradeInv, Clean, Remade, Untouched, NotInstalled,
     FinalizedIsFinal, FailedInstallRestoresLegacy, RetiredLegacyIsCarriedOver, QuietwardOff,
     MarkerAvailable, Backup, Complete, Steps, Preparing, ToRollBack, Installed, Marked,
     Unmoved, At
<1> QED
  BY <1>6, <1>7, <1>8, <1>9, <1>10, <1>11 DEF UpgradeInv

LEMMA MakeRetiredStep == UpgradeInv /\ Alongside /\ MakeRetired => UpgradeInv'
<1> SUFFICES ASSUME UpgradeInv, Alongside, MakeRetired PROVE UpgradeInv'
  OBVIOUS
<1>1. UpgradeTyped /\ inst.step = "retire" /\ UNCHANGED <<legacy, target, unit>>
  BY DEF UpgradeInv, MakeRetired, At
<1>2. target.marker \in 1..Len(backups)
  BY <1>1 DEF UpgradeInv, UpgradeTyped, Progress, Marked, ToRollBack, Installed
<1>3. Fresh(Backup)
  BY <1>1 DEF UpgradeInv, Progress, Marked, Unmoved, Preparing, ToRollBack, Installed
<1> DEFINE record == [Backup EXCEPT !.retiring = TRUE]
             zero == 0
<1>4. backups' = [backups EXCEPT ![target.marker] = record]
      /\ inst' = [inst EXCEPT !.step = "move", !.moved = zero]
      /\ zero \in 0..4 /\ zero = 0
  BY <1>3 DEF MakeRetired, Fresh, Backup
<1>5. record \in BackupRecord /\ record.failed = {} /\ record.retired = {}
  <2>1. Backup \in BackupRecord
    BY <1>1, <1>2 DEF UpgradeTyped, Backup
  <2> QED
    BY <1>3, <2>1 DEF BackupRecord, Fresh
<1> HIDE DEF record, zero
<1>6. backups' \in Seq(BackupRecord) /\ Len(backups') = Len(backups)
      /\ backups'[target.marker] = record
  BY <1>1, <1>2, <1>4, <1>5, RecordPut DEF UpgradeTyped
<1>7. InstOK(inst') /\ inst'.step = "move" /\ inst'.prepared = inst.prepared
      /\ inst'.stopped = inst.stopped /\ inst'.outcome = inst.outcome
      /\ inst'.meddled = inst.meddled /\ inst'.finalized = inst.finalized /\ inst'.moved = zero
  BY <1>1, <1>4 DEF UpgradeTyped, InstOK, Steps, ToRollBack, Installed
<1>8. inst'.moved \in 0..3 /\ Part \ Moved(inst'.moved) = Part /\ Moved(inst'.moved) = {}
  BY <1>4, <1>7, Parts
<1>9. UpgradeTyped'
  BY <1>1, <1>2, <1>3, <1>4, <1>5, <1>6, <1>7, <1>8 DEF UpgradeTyped
<1>10. Shell' /\ FinalizedIsFinal'
  BY <1>1, <1>2, <1>3, <1>4, <1>5, <1>6, <1>7, <1>8 DEF UpgradeInv, Shell, FinalizedIsFinal,
     Preparing, ToRollBack, Installed, At
<1>11. Progress'
  BY <1>1, <1>2, <1>3, <1>4, <1>5, <1>6, <1>7, <1>8 DEF UpgradeInv, Progress, Fresh, Backup,
     Complete, Unmoved, Preparing, Marked, ToRollBack, Installed, At
<1>12. StaysStopped'
  BY <1>1, <1>2, <1>3, <1>4, <1>5, <1>6, <1>7, <1>8 DEF UpgradeInv, StaysStopped, Marked,
     Preparing, ToRollBack, Installed, At
<1>13. Clean'
  BY <1>1, <1>2, <1>3, <1>4, <1>5, <1>6, <1>7, <1>8 DEF UpgradeInv, Shell, Progress, Clean, Remade,
     Alongside, Untouched, NotInstalled, Disabling, QuietwardOff, MarkerAvailable, Backup,
     Complete, Steps, Preparing, ToRollBack, Installed, Marked, Unmoved, Runs, At
<1>14. FailedInstallRestoresLegacy' /\ RetiredLegacyIsCarriedOver'
  BY <1>1, <1>2, <1>3, <1>4, <1>5, <1>6, <1>7, <1>8 DEF UpgradeInv, Clean, Remade, Untouched,
     NotInstalled, FinalizedIsFinal, FailedInstallRestoresLegacy, RetiredLegacyIsCarriedOver,
     QuietwardOff, MarkerAvailable, Backup, Complete, Steps, Preparing, ToRollBack, Installed,
     Marked, Unmoved, At
<1> QED
  BY <1>9, <1>10, <1>11, <1>12, <1>13, <1>14 DEF UpgradeInv

LEMMA MoveLegacyStep == UpgradeInv /\ Alongside /\ MoveLegacy => UpgradeInv'
<1> SUFFICES ASSUME UpgradeInv, Alongside, MoveLegacy PROVE UpgradeInv'
  OBVIOUS
<1>1. UpgradeTyped /\ inst.step = "move" /\ UNCHANGED <<target, unit>>
  BY DEF UpgradeInv, MoveLegacy, At
<1>2. target.marker \in 1..Len(backups)
  BY <1>1 DEF UpgradeInv, UpgradeTyped, Progress, Marked, ToRollBack, Installed
<1>3. inst.moved \in 0..3 /\ legacy.home = Part \ Moved(inst.moved)
      /\ Backup.retired = Moved(inst.moved)
  BY <1>1 DEF UpgradeInv, Progress, At
<1> DEFINE part == Order[inst.moved + 1]
             moved == inst.moved + 1
             step == IF inst.moved = 3 THEN "confirm" ELSE "move"
             record == [Backup EXCEPT !.retired = @ \union {part}]
<1>4. /\ legacy' = [legacy EXCEPT !.home = @ \ {part}]
      /\ backups' = [backups EXCEPT ![target.marker] = record]
      /\ inst' = [inst EXCEPT !.moved = moved, !.step = step]
  BY DEF MoveLegacy, Backup
<1>5. part \in Part /\ Moved(moved) = Moved(inst.moved) \union {part} /\ moved \in 1..4
      /\ moved \in 0..4
  BY <1>3, Parts
<1>6. record \in BackupRecord /\ record.failed = Backup.failed /\ record.retired = Moved(moved)
  <2>1. Backup \in BackupRecord
    BY <1>1, <1>2 DEF UpgradeTyped, Backup
  <2> QED
    BY <1>3, <1>5, <2>1 DEF BackupRecord
<1>7. step \in Steps /\ (moved = 4 => step = "confirm") /\ (moved # 4 => step = "move")
  BY <1>3 DEF Steps, ToRollBack, Installed
<1> HIDE DEF part, moved, step, record
<1>8. backups' \in Seq(BackupRecord) /\ Len(backups') = Len(backups)
      /\ backups'[target.marker] = record
  BY <1>1, <1>2, <1>4, <1>6, RecordPut DEF UpgradeTyped
<1>9. InstOK(inst') /\ inst'.step = step /\ inst'.prepared = inst.prepared
      /\ inst'.stopped = inst.stopped /\ inst'.outcome = inst.outcome
      /\ inst'.meddled = inst.meddled /\ inst'.finalized = inst.finalized /\ inst'.moved = moved
  BY <1>1, <1>4, <1>5, <1>7 DEF UpgradeTyped, InstOK
<1>10. LegacyOK(legacy') /\ legacy'.home = Part \ Moved(moved) /\ legacy'.rows = legacy.rows
  BY <1>1, <1>3, <1>4, <1>5 DEF UpgradeTyped, LegacyOK
<1>11. Part \ Moved(4) = {} /\ Moved(4) = Part
  BY Parts
<1>12. step \in {"confirm", "move"} /\ moved \in 1..4 /\ (moved # 4 => moved \in 0..3)
  BY <1>5, <1>7
<1>13. UpgradeTyped'
  BY <1>1, <1>2, <1>3, <1>4, <1>5, <1>6, <1>7, <1>8, <1>9, <1>10, <1>11, <1>12 DEF UpgradeTyped
<1>14. Shell' /\ FinalizedIsFinal'
  BY <1>1, <1>2, <1>3, <1>4, <1>5, <1>6, <1>7, <1>8, <1>9, <1>10, <1>11, <1>12 DEF UpgradeInv,
     Shell, FinalizedIsFinal, Preparing, ToRollBack, Installed, At
<1>15. Progress'
  BY <1>1, <1>2, <1>3, <1>4, <1>5, <1>6, <1>7, <1>8, <1>9, <1>10, <1>11, <1>12 DEF UpgradeInv,
     Progress, Fresh, Backup, Complete, Unmoved, Preparing, Marked, ToRollBack, Installed, At
<1>16. StaysStopped'
  BY <1>1, <1>2, <1>3, <1>4, <1>5, <1>6, <1>7, <1>8, <1>9, <1>10, <1>11, <1>12 DEF UpgradeInv,
     StaysStopped, Marked, Preparing, ToRollBack, Installed, At
<1>17. Clean'
  BY <1>1, <1>2, <1>3, <1>4, <1>5, <1>6, <1>7, <1>8, <1>9, <1>10, <1>11, <1>12 DEF UpgradeInv,
     Shell, Progress, Clean, Remade, Alongside, Untouched, NotInstalled, Disabling, QuietwardOff,
     MarkerAvailable, Backup, Complete, Steps, Preparing, ToRollBack, Installed, Marked,
     Unmoved, Runs, At
<1>18. FailedInstallRestoresLegacy' /\ RetiredLegacyIsCarriedOver'
  BY <1>1, <1>2, <1>3, <1>4, <1>5, <1>6, <1>7, <1>8, <1>9, <1>10, <1>11, <1>12 DEF UpgradeInv,
     Clean, Remade, Untouched, NotInstalled, FinalizedIsFinal, FailedInstallRestoresLegacy,
     RetiredLegacyIsCarriedOver, QuietwardOff, MarkerAvailable, Backup, Complete, Steps,
     Preparing, ToRollBack, Installed, Marked, Unmoved, At
<1> QED
  BY <1>13, <1>14, <1>15, <1>16, <1>17, <1>18 DEF UpgradeInv

LEMMA ConfirmRetiredStep == UpgradeInv /\ Alongside /\ ConfirmRetired => UpgradeInv'
<1> SUFFICES ASSUME UpgradeInv, Alongside, ConfirmRetired PROVE UpgradeInv'
  OBVIOUS
<1>1. UpgradeTyped /\ inst.step = "confirm" /\ UNCHANGED <<target>>
  BY DEF UpgradeInv, ConfirmRetired, At
<1>2. PICK s \in {"retired", "trap"} : Continue(s)
      /\ (s = "retired" => LegacyGone /\ UNCHANGED <<legacy, backups, unit>>)
      /\ (s = "trap" => UndoFinalize)
  BY DEF ConfirmRetired
<1>3. s \in Steps
  BY DEF Steps, Preparing, ToRollBack, Installed
<1>4. InstOK(inst') /\ inst'.step = s /\ inst'.prepared = inst.prepared
      /\ inst'.stopped = inst.stopped /\ inst'.moved = inst.moved
      /\ inst'.outcome = inst.outcome /\ inst'.meddled = inst.meddled
      /\ inst'.finalized = inst.finalized
  BY <1>1, <1>2, <1>3, ContinueIs
<1>5. s = "trap" => Undone
  BY <1>1, <1>2, UndoFinalizeIs
<1>6. UpgradeTyped'
  BY <1>1, <1>2, <1>3, <1>4, <1>5 DEF UpgradeTyped, Undone
<1>7. Shell' /\ FinalizedIsFinal'
  BY <1>1, <1>2, <1>3, <1>4, <1>5 DEF UpgradeInv, Shell, FinalizedIsFinal, Preparing,
     ToRollBack, Installed, At
<1>8. Progress'
  BY <1>1, <1>2, <1>3, <1>4, <1>5 DEF UpgradeInv, Progress, Fresh, Backup, Complete, Unmoved,
     Preparing, Marked, ToRollBack, Installed, At, Undone, LegacyGone
<1>9. StaysStopped'
  BY <1>1, <1>2, <1>3, <1>4, <1>5 DEF UpgradeInv, StaysStopped, Marked, Preparing, ToRollBack,
     Installed, At, Undone
<1>10. Clean'
  BY <1>1, <1>2, <1>3, <1>4, <1>5 DEF UpgradeInv, Shell, Progress, Clean, Remade, Alongside,
     Untouched, NotInstalled, Disabling, QuietwardOff, MarkerAvailable, Backup, Complete, Steps,
     Preparing, ToRollBack, Installed, Marked, Unmoved, Runs, At, Undone
<1>11. FailedInstallRestoresLegacy' /\ RetiredLegacyIsCarriedOver'
  BY <1>1, <1>2, <1>3, <1>4, <1>5 DEF UpgradeInv, Clean, Remade, Untouched, NotInstalled,
     FinalizedIsFinal, FailedInstallRestoresLegacy, RetiredLegacyIsCarriedOver, QuietwardOff,
     MarkerAvailable, Backup, Complete, Steps, Preparing, ToRollBack, Installed, Marked,
     Unmoved, At, Undone
<1> QED
  BY <1>6, <1>7, <1>8, <1>9, <1>10, <1>11 DEF UpgradeInv

LEMMA FinalizeReturnsStep == UpgradeInv /\ Alongside /\ FinalizeReturns => UpgradeInv'
<1> SUFFICES ASSUME UpgradeInv, Alongside, FinalizeReturns PROVE UpgradeInv'
  OBVIOUS
<1>1. UpgradeTyped /\ inst.step = "retired" /\ UNCHANGED <<legacy, target, backups, unit>>
  BY DEF UpgradeInv, FinalizeReturns, At
<1>2. inst' = [inst EXCEPT !.step = "idle", !.outcome = "finalized", !.finalized = TRUE]
  BY DEF FinalizeReturns
<1>3. InstOK(inst') /\ inst'.step = "idle" /\ inst'.meddled = inst.meddled
      /\ inst'.finalized /\ inst'.outcome = "finalized"
  BY <1>1, <1>2 DEF UpgradeTyped, InstOK, Steps, Outcomes
<1>4. UpgradeTyped'
  BY <1>1, <1>2, <1>3 DEF UpgradeTyped
<1>5. Shell' /\ FinalizedIsFinal'
  BY <1>1, <1>2, <1>3 DEF UpgradeInv, Shell, FinalizedIsFinal, Preparing, ToRollBack, Installed,
     At
<1>6. Progress'
  BY <1>1, <1>2, <1>3 DEF UpgradeInv, Progress, Fresh, Backup, Complete, Unmoved, Preparing,
     Marked, ToRollBack, Installed, At
<1>7. StaysStopped'
  BY <1>1, <1>2, <1>3 DEF UpgradeInv, StaysStopped, Marked, Preparing, ToRollBack, Installed, At
<1>8. Clean'
  BY <1>1, <1>2, <1>3 DEF UpgradeInv, Shell, Progress, Clean, Remade, Alongside, Untouched,
     NotInstalled, Disabling, QuietwardOff, MarkerAvailable, Backup, Complete, Steps, Preparing,
     ToRollBack, Installed, Marked, Unmoved, Runs, At
<1>9. FailedInstallRestoresLegacy' /\ RetiredLegacyIsCarriedOver'
  BY <1>1, <1>2, <1>3 DEF UpgradeInv, Clean, Remade, Untouched, NotInstalled, FinalizedIsFinal,
     FailedInstallRestoresLegacy, RetiredLegacyIsCarriedOver, QuietwardOff, MarkerAvailable,
     Backup, Complete, Steps, Preparing, ToRollBack, Installed, Marked, Unmoved, At, Progress,
     StaysStopped
<1> QED
  BY <1>4, <1>5, <1>6, <1>7, <1>8, <1>9 DEF UpgradeInv

LEMMA CommandKilledStep == UpgradeInv /\ Alongside /\ CommandKilled => UpgradeInv'
<1> SUFFICES ASSUME UpgradeInv, Alongside, CommandKilled PROVE UpgradeInv'
  OBVIOUS
<1>1. UpgradeTyped /\ inst.step \in Preparing \union {"move", "confirm", "retired"}
      /\ UNCHANGED <<legacy, target, backups, unit>>
  BY DEF UpgradeInv, CommandKilled, InPrepare, InFinalize, At, Preparing
<1> DEFINE faults == inst.faults + 1
<1>2. inst' = [inst EXCEPT !.step = "trap", !.faults = faults, !.meddled = TRUE]
  BY DEF CommandKilled
<1> HIDE DEF faults
<1>3. InstOK(inst') /\ inst'.step = "trap" /\ inst'.prepared = inst.prepared
      /\ inst'.stopped = inst.stopped /\ inst'.moved = inst.moved
      /\ inst'.outcome = inst.outcome /\ inst'.finalized = inst.finalized /\ inst'.meddled
  BY <1>1, <1>2 DEF UpgradeTyped, InstOK, Steps
<1>4. UpgradeTyped'
  BY <1>1, <1>2, <1>3 DEF UpgradeTyped
<1>5. Shell' /\ FinalizedIsFinal'
  BY <1>1, <1>2, <1>3 DEF UpgradeInv, Shell, FinalizedIsFinal, Preparing, ToRollBack, Installed,
     At
<1>6. Progress'
  BY <1>1, <1>2, <1>3 DEF UpgradeInv, Progress, Fresh, Backup, Complete, Unmoved, Preparing,
     Marked, ToRollBack, Installed, At
<1>7. StaysStopped'
  BY <1>1, <1>2, <1>3 DEF UpgradeInv, StaysStopped, Marked, Preparing, ToRollBack, Installed, At
<1>8. Clean'
  BY <1>1, <1>2, <1>3 DEF UpgradeInv, Shell, Progress, Clean, Remade, Alongside, Untouched,
     NotInstalled, Disabling, QuietwardOff, MarkerAvailable, Backup, Complete, Steps, Preparing,
     ToRollBack, Installed, Marked, Unmoved, Runs, At
<1>9. FailedInstallRestoresLegacy' /\ RetiredLegacyIsCarriedOver'
  BY <1>1, <1>2, <1>3 DEF UpgradeInv, Clean, Remade, Untouched, NotInstalled, FinalizedIsFinal,
     FailedInstallRestoresLegacy, RetiredLegacyIsCarriedOver, QuietwardOff, MarkerAvailable,
     Backup, Complete, Steps, Preparing, ToRollBack, Installed, Marked, Unmoved, At
<1> QED
  BY <1>4, <1>5, <1>6, <1>7, <1>8, <1>9 DEF UpgradeInv

LEMMA StepFailsStep == UpgradeInv /\ Alongside /\ StepFails => UpgradeInv'
<1> SUFFICES ASSUME UpgradeInv, Alongside, StepFails PROVE UpgradeInv'
  OBVIOUS
<1>1. UpgradeTyped /\ inst.step \in Steps \ {"idle", "trap"}
  BY DEF UpgradeInv, UpgradeTyped, InstOK, StepFails, At
<1> DEFINE faults == inst.faults + 1
<1>2. inst' = [inst EXCEPT !.faults = faults, !.step = "trap"]
  BY DEF StepFails
<1> HIDE DEF faults
<1>3. InstOK(inst') /\ inst'.step = "trap" /\ inst'.prepared = inst.prepared
      /\ inst'.stopped = inst.stopped /\ inst'.moved = inst.moved
      /\ inst'.outcome = inst.outcome /\ inst'.meddled = inst.meddled
      /\ inst'.finalized = inst.finalized
  BY <1>1, <1>2 DEF UpgradeTyped, InstOK, Steps
<1>4. \/ /\ inst.step \in Preparing \ {"prepared"} /\ UNCHANGED <<legacy, backups, unit>>
         /\ TargetOK(target', Len(backups)) /\ target'.home = target.home \ {"config"}
         /\ target'.remade = target.remade
      \/ inst.step \in {"move", "confirm"} /\ Undone /\ UNCHANGED target
      \/ /\ inst.step \in {"stop", "validate", "install", "enable", "check", "disable", "retire"}
         /\ UNCHANGED <<legacy, target, backups, unit>>
  <2>1. CASE InPrepare /\ UndoPrepare /\ UNCHANGED <<legacy, backups, unit>>
    BY <1>1, <2>1, UndoPrepareIs DEF InPrepare, Preparing
  <2>2. CASE InFinalize /\ UndoFinalize /\ UNCHANGED target
    BY <2>2, UndoFinalizeIs DEF InFinalize
  <2>3. CASE /\ ~InPrepare /\ ~InFinalize /\ ~At("prepared") /\ ~At("retired")
             /\ UNCHANGED <<legacy, target, backups, unit>>
    BY <1>1, <2>3 DEF InPrepare, InFinalize, At, Steps, Preparing, ToRollBack, Installed
  <2> QED
    BY <2>1, <2>2, <2>3 DEF StepFails
<1>5. UpgradeTyped'
  BY <1>1, <1>2, <1>3, <1>4 DEF UpgradeTyped, Undone
<1>6. Shell' /\ FinalizedIsFinal'
  BY <1>1, <1>2, <1>3, <1>4 DEF UpgradeInv, Shell, FinalizedIsFinal, Preparing, ToRollBack,
     Installed, At, Steps
<1>7. Progress'
  BY <1>1, <1>2, <1>3, <1>4 DEF UpgradeInv, Progress, Fresh, Backup, Complete, Unmoved,
     Preparing, Marked, ToRollBack, Installed, At, Undone, Steps
<1>8. StaysStopped'
  BY <1>1, <1>2, <1>3, <1>4 DEF UpgradeInv, StaysStopped, Marked, Preparing, ToRollBack,
     Installed, At, Undone
<1>9. Clean'
  <2>1. restart' = (restart /\ ~Disabling) /\ proc' = proc /\ Disabling = FALSE
    BY <1>1 DEF Alongside, Disabling, At
  <2>2. CASE inst.step \in Preparing \ {"prepared"} /\ UNCHANGED <<legacy, backups, unit>>
             /\ target'.home = target.home \ {"config"} /\ target'.remade = target.remade
    BY <1>3, <2>1, <2>2 DEF UpgradeInv, Shell, Progress, Clean, Remade, Untouched, NotInstalled,
       QuietwardOff, MarkerAvailable, Backup, Complete, Steps, Preparing,
       ToRollBack, Installed, Marked, Unmoved, Runs, At
  <2>3. CASE inst.step \in {"move", "confirm"} /\ Undone /\ UNCHANGED target
    BY <1>1, <1>3, <2>1, <2>3 DEF UpgradeInv, Shell, Progress, Clean, Remade, Untouched,
       NotInstalled, QuietwardOff, MarkerAvailable, Backup, Complete, Steps, Preparing,
       ToRollBack, Installed, Marked, Unmoved, Runs, At, Undone
  <2>4. CASE /\ inst.step \in {"stop", "validate", "install", "enable", "check", "disable",
                              "retire"}
             /\ UNCHANGED <<legacy, target, backups, unit>>
    <3>1. CASE inst.step \in {"stop", "validate"}
      BY <1>3, <2>1, <2>4, <3>1 DEF UpgradeInv, Shell, Clean, Remade, Untouched, NotInstalled,
         QuietwardOff, Complete, Steps, Preparing, ToRollBack, Installed, Runs, At
    <3>2. CASE inst.step \in ToRollBack
      <4>1. inst'.prepared /\ Complete(legacy.home) /\ target.marker # 0
            /\ Backup.failed = {} /\ "state" \in target.home /\ ~target.remade
        BY <1>1, <1>3, <2>4, <3>2 DEF UpgradeInv, UpgradeTyped, Shell, Progress, Marked,
           Unmoved, ToRollBack, Installed
      <4> QED
        BY <1>3, <2>4, <4>1 DEF Clean, Remade, NotInstalled, MarkerAvailable, Backup, Complete, At
    <3> QED
      BY <2>4, <3>1, <3>2 DEF ToRollBack, Installed
  <2> QED
    BY <1>4, <2>2, <2>3, <2>4
<1>10. FailedInstallRestoresLegacy' /\ RetiredLegacyIsCarriedOver'
  BY <1>1, <1>2, <1>3, <1>4 DEF UpgradeInv, Clean, Remade, Untouched, NotInstalled,
     FinalizedIsFinal, FailedInstallRestoresLegacy, RetiredLegacyIsCarriedOver, QuietwardOff,
     MarkerAvailable, Backup, Complete, Steps, Preparing, ToRollBack, Installed, Marked, Unmoved,
     At, Undone
<1> QED
  BY <1>5, <1>6, <1>7, <1>8, <1>9, <1>10 DEF UpgradeInv

LEMMA TrapStep == UpgradeInv /\ Alongside /\ Trap => UpgradeInv'
<1> SUFFICES ASSUME UpgradeInv, Alongside, Trap PROVE UpgradeInv'
  OBVIOUS
<1>1. UpgradeTyped /\ inst.step = "trap" /\ UNCHANGED <<legacy>>
  BY DEF UpgradeInv, Trap, At
<1> DEFINE parts(n) == {Order[k] : k \in 1..n}
             count(n) == IF n = 4 THEN inst.faults ELSE inst.faults + 1
             meddled(n) == inst.meddled \/ n # 4
<1>2. PICK n \in IF inst.faults < MaxFaults THEN 0..4 ELSE {4} :
         /\ IF inst.prepared /\ MarkerAvailable
            THEN /\ backups' = [backups EXCEPT ![target.marker].failed =
                                                   @ \union RolledBack(parts(n))]
                 /\ target' = [target EXCEPT !.home = @ \ RolledBack(parts(n))]
            ELSE n = 4 /\ UNCHANGED <<backups, target>>
         /\ inst' = [inst EXCEPT !.step = "idle", !.outcome = "failed",
                                 !.faults = count(n), !.meddled = meddled(n)]
  BY DEF Trap
<1>3. meddled(n) \in BOOLEAN
  BY <1>1 DEF UpgradeTyped, InstOK
<1> HIDE DEF count
<1>4. InstOK(inst') /\ inst'.step = "idle" /\ inst'.outcome = "failed"
      /\ inst'.prepared = inst.prepared /\ inst'.finalized = inst.finalized
      /\ inst'.meddled = meddled(n)
  <2> HIDE DEF meddled
  <2> QED
    BY <1>1, <1>2, <1>3 DEF UpgradeTyped, InstOK, Steps, Outcomes
<1>5. UnitOK(unit') /\ unit'.legacy.enabled = unit.legacy.enabled
      /\ unit'.legacy.active = (unit.legacy.active \/ (inst.stopped /\ Complete(legacy.home)))
      /\ unit'.quietward = IF inst.prepared THEN Off ELSE unit.quietward
  <2> DEFINE active == unit.legacy.active \/ (inst.stopped /\ Complete(legacy.home))
             again == [unit EXCEPT !.legacy.active = active]
  <2>1. active \in BOOLEAN
    BY <1>1 DEF UpgradeTyped, UnitOK, Service
  <2>2. Restart = again
    BY DEF Restart
  <2> HIDE DEF active
  <2>3. UnitOK(again) /\ again.legacy.enabled = unit.legacy.enabled
        /\ again.legacy.active = active /\ again.quietward = unit.quietward
    BY <1>1, <2>1 DEF UpgradeTyped, UnitOK, Service
  <2>4. Off \in Service
    BY DEF Off, Service
  <2>5. unit' = IF inst.prepared THEN [again EXCEPT !.quietward = Off] ELSE again
    BY <2>2 DEF Trap
  <2> HIDE DEF again
  <2>6. UnitOK(unit') /\ unit'.legacy.enabled = unit.legacy.enabled
        /\ unit'.legacy.active = active
        /\ unit'.quietward = IF inst.prepared THEN Off ELSE unit.quietward
    BY <2>3, <2>4, <2>5 DEF UnitOK
  <2> QED
    BY <2>6 DEF active
<1> DEFINE rolled == RolledBack(parts(n))
<1>6. /\ TargetOK(target', Len(backups')) /\ backups' \in Seq(BackupRecord)
      /\ ~inst.prepared => UNCHANGED <<target, backups>>
      /\ target'.remade = target.remade /\ (target.remade => target' = target)
      /\ inst.prepared /\ MarkerAvailable => target'.home = target.home \ rolled
  <2>1. CASE inst.prepared /\ MarkerAvailable
    <3> DEFINE record == [Backup EXCEPT !.failed = @ \union rolled]
    <3>1. target.marker \in 1..Len(backups)
      BY <1>1, <2>1 DEF UpgradeTyped, TargetOK, MarkerAvailable
    <3>2. Backup \in BackupRecord /\ rolled \in SUBSET Part
      BY <1>1, <3>1 DEF UpgradeTyped, TargetOK, Backup, RolledBack
    <3>3. record \in BackupRecord
      BY <3>2 DEF BackupRecord
    <3>4. backups' = [backups EXCEPT ![target.marker] = record]
      BY <1>2, <2>1 DEF Backup
    <3> HIDE DEF record, rolled
    <3>5. backups' \in Seq(BackupRecord) /\ Len(backups') = Len(backups)
      BY <1>1, <3>1, <3>3, <3>4, RecordPut DEF UpgradeTyped
    <3>6. target' = [target EXCEPT !.home = @ \ rolled]
      BY <1>2, <2>1 DEF rolled
    <3>7. /\ TargetOK(target', Len(backups)) /\ target'.home = target.home \ rolled
          /\ target'.remade = target.remade
      BY <1>1, <3>6 DEF UpgradeTyped, TargetOK
    <3> QED
      BY <2>1, <3>5, <3>7 DEF MarkerAvailable
  <2>2. CASE ~(inst.prepared /\ MarkerAvailable)
    BY <1>1, <1>2, <2>2 DEF UpgradeTyped
  <2> QED
    BY <2>1, <2>2
<1>7. ~inst'.meddled => ~inst.meddled /\ parts(n) = Part
  BY <1>4 DEF Part
<1>8. inst.prepared /\ MarkerAvailable /\ ~inst'.meddled /\ Backup.failed = {}
         => target'.home = Remade
  BY <1>1, <1>6, <1>7 DEF UpgradeTyped, TargetOK, RolledBack, MarkerAvailable, Remade
<1> HIDE DEF meddled, parts, rolled
<1>9. ~inst'.meddled /\ ~inst'.finalized =>
         /\ Complete(legacy.home) /\ unit'.legacy.active = TRUE
         /\ target'.home = Remade' /\ unit'.quietward = Off /\ ~restart' /\ Runs(Unit, "off")'
  <2> SUFFICES ASSUME ~inst'.meddled, ~inst'.finalized
               PROVE  /\ Complete(legacy.home) /\ unit'.legacy.active = TRUE
                      /\ target'.home = Remade' /\ unit'.quietward = Off /\ ~restart'
                      /\ Runs(Unit, "off")'
    OBVIOUS
  <2>1. Untouched /\ At("trap")
    BY <1>1, <1>4, <1>7 DEF Untouched, At
  <2>2. Complete(legacy.home) /\ inst.stopped
    BY <2>1 DEF UpgradeInv, Clean, Remade, Shell, At
  <2>3. CASE inst.prepared
    <3>1. MarkerAvailable /\ Backup.failed = {}
      BY <2>1, <2>3 DEF UpgradeInv, Clean, Remade
    <3> QED
      BY <1>5, <1>6, <1>8, <2>1, <2>2, <2>3, <3>1 DEF Alongside, Disabling, Runs, Remade
  <2>4. CASE ~inst.prepared
    <3>1. NotInstalled
      BY <1>1, <2>4 DEF NotInstalled, Steps, Preparing, ToRollBack, Installed
    <3>2. target.home = Remade /\ QuietwardOff
      BY <1>1, <2>1, <3>1 DEF UpgradeInv, Clean
    <3> QED
      BY <1>5, <1>6, <2>1, <2>2, <2>4, <3>2
      DEF Alongside, Disabling, QuietwardOff, Runs, Remade
  <2> QED
    BY <2>3, <2>4
<1>10. inst'.finalized => UNCHANGED <<target, backups>> /\ (unit.legacy = Off => unit'.legacy = Off)
      /\ inst.finalized /\ (inst.meddled => inst'.meddled)
  <2> SUFFICES ASSUME inst'.finalized
               PROVE  UNCHANGED <<target, backups>> /\ (unit.legacy = Off => unit'.legacy = Off)
                      /\ inst.finalized /\ (inst.meddled => inst'.meddled)
    OBVIOUS
  <2>1. inst.finalized /\ ~inst.prepared
    BY <1>1, <1>4 DEF UpgradeInv, FinalizedIsFinal, At
  <2>2. legacy.home # Part
    BY <2>1, Parts DEF UpgradeInv, RetiredLegacyIsCarriedOver
  <2>3. unit.legacy = Off => unit'.legacy.active = FALSE /\ unit'.legacy.enabled = FALSE
    <3>1. unit.legacy = Off => unit.legacy.active = FALSE /\ unit.legacy.enabled = FALSE
      BY DEF Off
    <3> QED
      BY <1>5, <2>2, <3>1 DEF Complete
  <2>4. unit'.legacy = [active |-> unit'.legacy.active, enabled |-> unit'.legacy.enabled]
    BY <1>5 DEF UnitOK, Service
  <2> QED
    BY <1>6, <1>7, <2>1, <2>3, <2>4 DEF Off
<1>11. UpgradeTyped'
  BY <1>1, <1>2, <1>3, <1>4, <1>5, <1>6, <1>7, <1>8, <1>9, <1>10 DEF UpgradeTyped
<1>12. Shell' /\ FinalizedIsFinal'
  BY <1>1, <1>2, <1>3, <1>4, <1>5, <1>6, <1>7, <1>8, <1>9, <1>10 DEF UpgradeInv, Shell,
     FinalizedIsFinal, Preparing, ToRollBack, Installed, At
<1>13. Progress'
  BY <1>1, <1>2, <1>3, <1>4, <1>5, <1>6, <1>7, <1>8, <1>9, <1>10 DEF UpgradeInv, Progress,
     Fresh, Backup, Complete, Unmoved, Preparing, Marked, ToRollBack, Installed, At
<1>14. StaysStopped'
  BY <1>1, <1>2, <1>3, <1>4, <1>5, <1>6, <1>7, <1>8, <1>9, <1>10 DEF UpgradeInv, StaysStopped,
     Marked, Preparing, ToRollBack, Installed, At
<1>15. Clean'
  BY <1>1, <1>2, <1>3, <1>4, <1>5, <1>6, <1>7, <1>8, <1>9, <1>10 DEF UpgradeInv, Shell,
     Progress, Clean, Remade, Alongside, Untouched, NotInstalled, Disabling, QuietwardOff,
     MarkerAvailable, Backup, Complete, Steps, Preparing, ToRollBack, Installed, Marked,
     Unmoved, Runs, At
<1>16. FailedInstallRestoresLegacy' /\ RetiredLegacyIsCarriedOver'
  BY <1>1, <1>2, <1>3, <1>4, <1>5, <1>6, <1>7, <1>8, <1>9, <1>10 DEF UpgradeInv, Clean, Remade,
     Untouched, NotInstalled, FinalizedIsFinal, FailedInstallRestoresLegacy,
     RetiredLegacyIsCarriedOver, QuietwardOff, MarkerAvailable, Backup, Complete, Steps,
     Preparing, ToRollBack, Installed, Marked, Unmoved, At
<1> QED
  BY <1>11, <1>12, <1>13, <1>14, <1>15, <1>16 DEF UpgradeInv

(* A step of the installer. *)
LEMMA InstallerStep == UpgradeInv /\ Alongside /\ MigrationStep => UpgradeInv'
BY LegacyCollectsStep, UserStartsLegacyStep, UserStopsLegacyStep, RunInstallerStep,
   StopLegacyStep, ValidateStep, CreateBackupStep, StageStep, VerifyCopyStep, RenameConfigStep,
   RenameStateStep, PrepareReturnsStep, InstallFilesStep, EnableNowStep, CheckActiveStep,
   DisableLegacyStep, MakeRetiredStep, MoveLegacyStep, ConfirmRetiredStep, FinalizeReturnsStep,
   TrapStep, StepFailsStep, CommandKilledStep
DEF MigrationStep

(* What the unit and the program do changes nothing of the installation, and *)
(* a unit that is off stays off.                                             *)
LEMMA UnitStep ==
    UpgradeInv /\ UNCHANGED <<legacy, target, backups, inst>>
    /\ UnitOK(unit') /\ unit'.legacy = unit.legacy /\ (QuietwardOff => QuietwardOff')
        => UpgradeInv'
<1> SUFFICES ASSUME UpgradeInv, UNCHANGED <<legacy, target, backups, inst>>,
                    UnitOK(unit'), unit'.legacy = unit.legacy, QuietwardOff => QuietwardOff'
             PROVE  UpgradeInv'
  OBVIOUS
<1>1. UpgradeTyped' /\ Shell' /\ FinalizedIsFinal'
  BY DEF UpgradeInv, UpgradeTyped, Shell, FinalizedIsFinal, At
<1>2. Progress' /\ StaysStopped'
  BY DEF UpgradeInv, Progress, StaysStopped, Fresh, Backup, Complete, At
<1>3. Clean'
  BY DEF UpgradeInv, Clean, Remade, Untouched, NotInstalled, MarkerAvailable, Backup, Complete, At
<1>4. FailedInstallRestoresLegacy' /\ RetiredLegacyIsCarriedOver'
  <2>1. At("idle") /\ Untouched => QuietwardOff
    BY DEF UpgradeInv, Clean, Remade, NotInstalled, Steps, Preparing, ToRollBack, Installed, At
  <2> QED
    BY <2>1 DEF UpgradeInv, FailedInstallRestoresLegacy, Remade, RetiredLegacyIsCarriedOver,
       Untouched, QuietwardOff, MarkerAvailable, Backup, Complete, At
<1> QED
  BY <1>1, <1>2, <1>3, <1>4 DEF UpgradeInv

(* Nobody but the unit itself changes its process. *)
LEMMA OthersLeaveTheUnit ==
    ASSUME Inv, NEW p \in Process \ {Unit}, Step(p) \/ Signal(p) \/ Kill(p)
    PROVE  proc'[Unit] = proc[Unit]
<1>1. Unit \in Process /\ ProcOK(proc)
  BY UnitAssumption, MeOK
<1>2. ASSUME NEW x, proc' = [proc EXCEPT ![p] = x] PROVE proc'[Unit] = proc[Unit]
  BY <1>1, <1>2 DEF ProcOK
<1>3. ASSUME NEW me, NEW status, NEW key, NEW volatile, Report(p, me, status, key, volatile)
      PROVE  proc'[Unit] = proc[Unit]
  BY <1>2, <1>3 DEF Report
<1>4. CASE Start(p) \/ BeginCycle(p) \/ WaitEnds(p) \/ Exit(p) \/ Signal(p) \/ Kill(p)
  BY <1>2, <1>4 DEF Start, BeginCycle, WaitEnds, Exit, Signal, Kill
<1>5. CASE ReportStarting(p) \/ CycleSucceeds(p) \/ CycleFails(p) \/ ReportFailed(p)
           \/ ReportStopped(p)
  BY <1>3, <1>5 DEF ReportStarting, CycleSucceeds, CycleFails, ReportFailed, ReportStopped, Ends
<1> QED
  BY <1>4, <1>5 DEF Step

(* A program that outlived its installation makes the state directory. *)
LEMMA StateDirectoryMadeStep ==
    UpgradeInv /\ StateDirectoryMade /\ UNCHANGED <<legacy, backups, unit, inst, restart>>
    /\ proc'[Unit] = proc[Unit] => UpgradeInv'
<1> SUFFICES ASSUME UpgradeInv, StateDirectoryMade, proc'[Unit] = proc[Unit],
                    UNCHANGED <<legacy, backups, unit, inst, restart>>
             PROVE  UpgradeInv'
  OBVIOUS
<1> DEFINE made == [target EXCEPT !.home = @ \union {"state"}]
<1>1. made \in [staged : {target.staged}, home : SUBSET Part, rows : Nat,
               marker : 0..Len(backups), remade : BOOLEAN]
      /\ made.home = target.home \union {"state"} /\ made.rows = target.rows
      /\ made.marker = target.marker
  BY Parts DEF UpgradeInv, UpgradeTyped, TargetOK
<1>2. target' = [made EXCEPT !.remade = TRUE]
  BY DEF StateDirectoryMade
<1> HIDE DEF made
<1>3. /\ TargetOK(target', Len(backups)) /\ target'.home = target.home \union {"state"}
      /\ target'.rows = target.rows /\ target'.marker = target.marker /\ target'.remade
  BY <1>1, <1>2 DEF TargetOK
<1>4. "state" \notin target.home /\ ~target.remade
      /\ inst.step \notin {"prepared"} \union ToRollBack
  BY DEF StateDirectoryMade, UpgradeInv, Shell, Progress
<1>5. UpgradeTyped' /\ Shell' /\ FinalizedIsFinal'
  BY <1>3 DEF UpgradeInv, UpgradeTyped, Shell, FinalizedIsFinal, At
<1>6. Progress' /\ StaysStopped'
  BY <1>3, <1>4 DEF UpgradeInv, Progress, StaysStopped, Fresh, Backup, Complete, ToRollBack, At
<1>7. Clean'
  <2> SUFFICES ASSUME Untouched PROVE Clean'
    BY DEF Clean, Untouched
  <2>1. At("trap") => ~inst.prepared
    BY <1>4 DEF UpgradeInv, Clean, MarkerAvailable
  <2>2. QuietwardOff => QuietwardOff'
    BY DEF QuietwardOff, Runs
  <2>3. Remade = {} /\ Remade' = {"state"}
    BY <1>3, <1>4 DEF Remade
  <2> QED
    BY <1>3, <1>4, <2>1, <2>2, <2>3 DEF UpgradeInv, Clean, NotInstalled, Complete, Untouched, At
<1>8. FailedInstallRestoresLegacy'
  BY <1>3, <1>4 DEF UpgradeInv, FailedInstallRestoresLegacy, Remade, Complete, At
<1>9. RetiredLegacyIsCarriedOver'
  BY <1>4 DEF UpgradeInv, RetiredLegacyIsCarriedOver, MarkerAvailable
<1> QED
  BY <1>5, <1>6, <1>7, <1>8, <1>9 DEF UpgradeInv

LEMMA MachineGoesDownStep == Inv /\ UpgradeInv /\ MachineGoesDown => UpgradeInv'
<1> SUFFICES ASSUME Inv, UpgradeInv, MachineGoesDown PROVE UpgradeInv'
  OBVIOUS
<1>1. UpgradeTyped /\ UNCHANGED <<legacy, target, backups>>
  BY DEF UpgradeInv, MachineGoesDown, PowerFailure
<1> DEFINE old == unit.legacy.enabled /\ Complete(legacy.home)
           new == unit.quietward.enabled /\ Complete(target.home)
           faults == inst.faults + 1
           meddled == inst.meddled \/ ~At("idle")
<1>2. /\ unit' = [unit EXCEPT !.legacy.active = old, !.quietward.active = new]
      /\ inst' = [inst EXCEPT !.step = "idle", !.outcome = "interrupted", !.faults = faults,
                              !.meddled = meddled]
  BY DEF MachineGoesDown, PowerFailure
<1>3. old \in BOOLEAN /\ new \in BOOLEAN /\ meddled \in BOOLEAN
  BY <1>1 DEF UpgradeTyped, UnitOK, InstOK, Service
<1> HIDE DEF old, new, faults, meddled
<1>4. /\ UnitOK(unit') /\ unit'.legacy.enabled = unit.legacy.enabled /\ unit'.legacy.active = old
      /\ unit'.quietward.enabled = unit.quietward.enabled /\ unit'.quietward.active = new
  <2> DEFINE half == [unit EXCEPT !.legacy.active = old]
  <2>1. /\ UnitOK(half) /\ half.legacy.enabled = unit.legacy.enabled
        /\ half.legacy.active = old /\ half.quietward = unit.quietward
    BY <1>1, <1>3 DEF UpgradeTyped, UnitOK, Service
  <2>2. unit' = [half EXCEPT !.quietward.active = new]
    BY <1>2
  <2> HIDE DEF half
  <2> QED
    BY <1>3, <2>1, <2>2 DEF UnitOK, Service
<1>5. /\ InstOK(inst') /\ inst'.step = "idle" /\ inst'.outcome = "interrupted"
      /\ inst'.meddled = meddled /\ inst'.finalized = inst.finalized
  BY <1>1, <1>2, <1>3 DEF UpgradeTyped, InstOK, Steps, Outcomes
<1>6. UpgradeTyped' /\ Shell' /\ FinalizedIsFinal' /\ StaysStopped'
  BY <1>1, <1>4, <1>5 DEF UpgradeInv, UpgradeTyped, Shell, FinalizedIsFinal, StaysStopped,
     Preparing, ToRollBack, Installed, Marked, At
<1>7. Progress'
  BY <1>5 DEF Progress, Unmoved, Marked, Preparing, ToRollBack, Installed, At
<1>8. (unit.legacy = Off => unit'.legacy = Off) /\ (unit.quietward = Off => unit'.quietward = Off)
  <2>1. \A s \in Service : s = [active |-> s.active, enabled |-> s.enabled]
    BY DEF Service
  <2>2. unit'.legacy \in Service /\ unit'.quietward \in Service
    BY <1>4 DEF UnitOK
  <2>3. unit.legacy = Off => unit'.legacy.active = FALSE /\ unit'.legacy.enabled = FALSE
    <3>1. unit.legacy = Off => unit.legacy.enabled = FALSE
      BY DEF Off
    <3> QED
      BY <1>4, <3>1 DEF old
  <2>4. unit.quietward = Off => unit'.quietward.active = FALSE /\ unit'.quietward.enabled = FALSE
    <3>1. unit.quietward = Off => unit.quietward.enabled = FALSE
      BY DEF Off
    <3> QED
      BY <1>4, <3>1 DEF new
  <2> QED
    BY <2>1, <2>2, <2>3, <2>4 DEF Off
<1>9. ~restart' /\ Runs(Unit, "off")'
  BY UnitAssumption DEF MachineGoesDown, PowerLoss, Runs, Ended
<1>10. Clean'
  <2> SUFFICES ASSUME Untouched'
               PROVE  target.home = Remade /\ Complete(legacy.home) /\ QuietwardOff'
    BY <1>1, <1>5 DEF Clean, Remade, Steps, Preparing, ToRollBack, Installed, Complete, At
  <2>1. Untouched /\ At("idle")
    BY <1>5 DEF Untouched, meddled
  <2>2. target.home = Remade /\ Complete(legacy.home) /\ QuietwardOff
    BY <2>1 DEF UpgradeInv, Clean, Remade, NotInstalled, Steps, Preparing, ToRollBack, Installed, At
  <2> QED
    BY <1>8, <1>9, <2>2 DEF QuietwardOff
<1>11. FailedInstallRestoresLegacy' /\ RetiredLegacyIsCarriedOver'
  BY <1>1, <1>5, <1>8 DEF UpgradeInv, FailedInstallRestoresLegacy, Remade,
     RetiredLegacyIsCarriedOver, MarkerAvailable, Backup, Complete, At, meddled
<1> QED
  BY <1>6, <1>7, <1>10, <1>11 DEF UpgradeInv

LEMMA UpgradeStep == Inv /\ UpgradeInv /\ [Next]_vars => UpgradeInv'
<1> SUFFICES ASSUME Inv, UpgradeInv, [Next]_vars PROVE UpgradeInv'
  OBVIOUS
<1>1. UnitOK(unit)
  BY DEF UpgradeInv, UpgradeTyped
<1>2. ASSUME NEW is \in BOOLEAN, unit' = Active(is)
      PROVE  UnitOK(unit') /\ unit'.legacy = unit.legacy
  BY <1>1, <1>2 DEF Active, UnitOK, Service
<1>3. QuietwardOff => ~unit.quietward.active /\ ~restart /\ proc[Unit].pc = "off"
  BY DEF QuietwardOff, Off, Runs
<1>4. ASSUME UNCHANGED <<migrationVars, restart>>, QuietwardOff => proc'[Unit] = proc[Unit]
      PROVE  UpgradeInv'
  BY <1>1, <1>4, UnitStep DEF migrationVars, QuietwardOff, Runs
<1>5. CASE InstallerSteps
  BY <1>5, InstallerStep DEF InstallerSteps, Alongside, serviceVars
<1>6. CASE UnitStarts
  BY <1>3, <1>4, <1>6 DEF UnitStarts
<1>7. CASE UnitRuns
  BY <1>3, <1>4, <1>7 DEF UnitRuns, ReportStarting, BeginCycle, CycleSucceeds, CycleFails,
     WaitEnds, ReportFailed, ReportStopped, Ends, Signal, Runs
<1>8. CASE UnitEnds
  <2>1. proc[Unit].pc # "off"
    BY <1>8 DEF UnitEnds, Exit, Kill, Runs
  <2>2. UNCHANGED <<legacy, target, backups, inst>> /\ unit' = Active(FALSE)
    BY <1>8 DEF UnitEnds
  <2> QED
    BY <1>2, <1>3, <2>1, <2>2, UnitStep
<1>9. CASE UnitFindsTheLockTaken \/ SystemdRestarts
  <2>1. ~QuietwardOff
    BY <1>3, <1>9 DEF UnitFindsTheLockTaken, SystemdRestarts
  <2>2. UNCHANGED <<legacy, target, backups, inst>>
        /\ (unit' = Active(FALSE) \/ unit' = Active(TRUE))
    BY <1>9 DEF UnitFindsTheLockTaken, SystemdRestarts
  <2> QED
    BY <1>2, <2>1, <2>2, UnitStep
<1>10. CASE OthersRun
  <2>1. PICK p \in Process \ {Unit} : Step(p) \/ Signal(p) \/ Kill(p)
    BY <1>10 DEF OthersRun, Step
  <2>2. proc'[Unit] = proc[Unit] /\ UNCHANGED <<legacy, backups, unit, inst, restart>>
    BY <1>10, <2>1, OthersLeaveTheUnit DEF OthersRun
  <2>3. CASE UNCHANGED target
    BY <1>4, <2>2, <2>3 DEF migrationVars
  <2>4. CASE StateDirectoryMade
    BY <2>2, <2>4, StateDirectoryMadeStep
  <2> QED
    BY <1>10, <2>3, <2>4 DEF OthersRun
<1>11. CASE Passing
  <2>1. WriteBack => proc' = proc
    BY DEF WriteBack
  <2>2. Tick /\ QuietwardOff => proc'[Unit] = proc[Unit]
    BY UnitAssumption DEF Tick, QuietwardOff
  <2> QED
    BY <1>4, <1>11, <2>1, <2>2 DEF Passing
<1>12. CASE MachineGoesDown
  BY <1>12, MachineGoesDownStep
<1>13. CASE UNCHANGED vars
  BY <1>4, <1>13 DEF vars, serviceVars
<1> QED
  BY <1>5, <1>6, <1>7, <1>8, <1>9, <1>10, <1>11, <1>12, <1>13 DEF Next

LEMMA InitUpgrade == Init => UpgradeInv
<1> SUFFICES ASSUME Init PROVE UpgradeInv
  OBVIOUS
<1>1. /\ legacy = [home |-> Part, rows |-> 0]
      /\ target = [staged |-> {}, home |-> {}, rows |-> 0, marker |-> 0, remade |-> FALSE]
      /\ backups = << >>
      /\ unit = [legacy |-> [active |-> TRUE, enabled |-> TRUE], quietward |-> Off]
      /\ inst = Idle /\ restart = FALSE /\ proc[Unit] = Ended
  BY UnitAssumption DEF Init, MigrationInit, ServiceInit
<1>2. UpgradeTyped
  <2>1. Len(backups) = 0 /\ backups \in Seq(BackupRecord)
    BY <1>1
  <2> QED
    BY <1>1, <2>1 DEF UpgradeTyped, LegacyOK, TargetOK, UnitOK, InstOK,
       Service, Off, Idle, Steps, Outcomes
<1>3. inst.step = "idle" /\ ~inst.finalized /\ inst.outcome = "none"
  BY <1>1 DEF Idle
<1>4. QuietwardOff
  BY <1>1 DEF QuietwardOff, Runs, Ended
<1> QED
  BY <1>1, <1>2, <1>3, <1>4
  DEF UpgradeInv, Shell, Progress, StaysStopped, Clean, Remade, FinalizedIsFinal,
      FailedInstallRestoresLegacy, RetiredLegacyIsCarriedOver, Steps, Preparing, ToRollBack,
      Installed, Marked, Unmoved, Complete, At

LEMMA SpecUpgrade == Spec => []UpgradeInv
BY SpecInv, InitUpgrade, UpgradeStep, PTL DEF Spec

(* Whatever fails, as long as nobody meddles and no command is killed: an   *)
(* installer that gave up has put the legacy installation back and left     *)
(* nothing of QuietWard, but a state directory if a run of the program that *)
(* outlived the rollback has reported since (install_user_service.sh's      *)
(* trap, migrate_pre_rename_user_install.py, service._atomic_json).         *)
THEOREM FailedInstalls == Spec => []FailedInstallRestoresLegacy
<1>1. UpgradeInv => FailedInstallRestoresLegacy
  BY DEF UpgradeInv
<1> QED
  BY <1>1, SpecUpgrade, PTL

(* Whatever happens afterwards, a legacy installation that finalize has      *)
(* retired stays retired as a whole, and QuietWard started with all its rows *)
(* (finalize_migration).                                                     *)
THEOREM RetiredLegacy == Spec => []RetiredLegacyIsCarriedOver
<1>1. UpgradeInv => RetiredLegacyIsCarriedOver
  BY DEF UpgradeInv
<1> QED
  BY <1>1, SpecUpgrade, PTL
=============================================================================
