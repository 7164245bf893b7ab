------------------------------ MODULE ServiceProofs ------------------------------
(***************************************************************************)
(* Proofs about what the service decides on grounds it remembers, for all  *)
(* values of the constants: the start (WarmStart), the gate before a soak  *)
(* (WindowsRestart), a scanner's data (Freshness), the rules of reviews    *)
(* (Reviews), the lanes of a cycle (Cadence).                              *)
(*                                                                         *)
(* A warm start is earned, and maturity once stored is kept.  The          *)
(* argument: the stored baseline never counts more than the service's, and *)
(* that one never more than really happened (Counted); a warning of the    *)
(* last stored cycle is in the stored snapshot (WarningsAreStored); and    *)
(* the stored coverage report is healthy only if the last report was,      *)
(* because a report that would say otherwise is material and is not        *)
(* coalesced (HealthIsStored).                                             *)
(*                                                                         *)
(* A soak that starts on stale operations follows inspections in two       *)
(* different boots.  The argument: a report whose stale operations are as  *)
(* many as its operations found every source absent, so the boots in       *)
(* "proof" are those of its very set (Witnessed).  If the token moved      *)
(* since, and the clock did not move it, the host has booted since, and    *)
(* none of these boots is the present one; the confirming inspection adds  *)
(* that one.                                                               *)
(*                                                                         *)
(* Stale data is reported again and again.  The argument: what the process *)
(* remembers to have said is the last report stored or lost of that data   *)
(* (SaidIsKnown), and a cycle in progress on stale data remembers to have  *)
(* said so recently (Speaks); what was found is the data, unless that      *)
(* changed since (FoundIsRecent).                                          *)
(*                                                                         *)
(* Reviews are respected.  The argument: findings only come, their rows    *)
(* and evidence only go, so that a rule never gains a scope (ScopesGrow);  *)
(* a cache that is filed under the present version is that of the present  *)
(* rules (CacheIsOfItsVersion); and what the filter has read lies between  *)
(* what always applied and what was ever reviewed (ReadsLieBetween).       *)
(*                                                                         *)
(* No lane starves, and incident-relevant work is not deferred.  The       *)
(* argument: a deferral lasts at most as long as the loop waits, so every  *)
(* cycle starts with none pending (Ready).  A lane that is deferred when   *)
(* the cycle decides was therefore deferred by this very cycle's governor, *)
(* which counted it (CountedDeferrals), and the count never passes the     *)
(* bound.                                                                  *)
(***************************************************************************)
EXTENDS WarmStart, WindowsRestart, Freshness, Reviews, Cadence, FiniteSetTheorems, TLAPS

Baseline == [count : [Core -> 0..3], other : BOOLEAN]

Age == Nat \union {Never}

DiskOK(d) ==
    d \in [snapshot : [age : Age, warned : BOOLEAN],
           coverage : [age : Age, healthy : BOOLEAN, baseline : Baseline], intact : BOOLEAN]

(* The states, the material and the number of mishaps can be anything. *)
SvcOK(s) ==
    s \in [pc : {"idle", "observed", "committed"}, start : {"cold", "warm", "running"},
           states : {s.states}, fullAge : Age, baseline : Baseline, checkpoint : Age,
           material : {s.material}]

PastOK(p) ==
    p \in [count : [Core -> 0..3], other : BOOLEAN, warned : BOOLEAN, healthy : BOOLEAN,
           mishaps : {p.mishaps}]

WarmTyped == DiskOK(disk) /\ SvcOK(svc) /\ PastOK(past)

Counted ==
    /\ \A d \in Core : svc.baseline.count[d] <= past.count[d]
    /\ svc.baseline.other => past.other
    /\ disk.coverage.age # Never =>
          \A d \in Core : disk.coverage.baseline.count[d] <= svc.baseline.count[d]
    /\ disk.coverage.age = Never => disk.coverage.baseline = NoBaseline
    /\ disk.coverage.baseline.other => past.other

WarningsAreStored == past.warned => disk.snapshot.warned

HealthIsStored ==
    /\ disk.coverage.healthy => past.healthy
    /\ svc.checkpoint # Never => svc.material[1] = disk.coverage.healthy

CommittedRuns == svc.pc = "committed" => svc.start = "running"

WarmInv ==
    /\ WarmTyped /\ Counted /\ WarningsAreStored /\ HealthIsStored
    /\ CommittedRuns /\ WarmStartIsEarned

-----------------------------------------------------------------------------
(* Operators *)

LEMMA ConfidenceIs ==
    ASSUME NEW b \in Baseline
    PROVE  Confidence(b) = "established" <=> ~b.other /\ \A d \in Core : b.count[d] = 3
<1>1. \A d \in Core : b.count[d] \in 0..3
  BY DEF Baseline
<1>2. CASE b.other \/ \E d \in Core : b.count[d] < 1
  <2>1. Confidence(b) = "unready"
    BY <1>2 DEF Confidence
  <2> QED BY <1>1, <1>2, <2>1
<1>3. CASE ~(b.other \/ \E d \in Core : b.count[d] < 1)
  <2>1. Confidence(b) = IF \A d \in Core : b.count[d] >= 3 THEN "established" ELSE "initial"
    BY <1>3 DEF Confidence
  <2> QED BY <1>1, <1>3, <2>1
<1> QED BY <1>2, <1>3

LEMMA NothingIsNotMature == NoBaseline \in Baseline /\ Confidence(NoBaseline) # "established"
<1>1. NoBaseline \in Baseline
  BY DEF NoBaseline, Baseline
<1>2. Chain \in Core /\ NoBaseline.count[Chain] = 0
  BY WarmAssumption DEF NoBaseline
<1> QED BY <1>1, <1>2, ConfidenceIs

(* One more cycle counts, here and there, and keeps the order of two counts. *)
LEMMA ObservedKeepsOrder ==
    ASSUME NEW b \in Baseline, NEW p \in Baseline, NEW states,
           \A d \in Core : b.count[d] <= p.count[d], b.other => p.other
    PROVE  /\ BaselineObserved(b, states) \in Baseline
           /\ BaselineObserved(p, states) \in Baseline
           /\ \A d \in Core : BaselineObserved(b, states).count[d]
                                <= BaselineObserved(p, states).count[d]
           /\ \A d \in Core : b.count[d] <= BaselineObserved(b, states).count[d]
           /\ BaselineObserved(b, states).other => BaselineObserved(p, states).other
           /\ p.other => BaselineObserved(p, states).other
<1>1. \A d \in Core : b.count[d] \in 0..3 /\ p.count[d] \in 0..3
  BY DEF Baseline
<1> QED BY <1>1 DEF BaselineObserved, Baseline

LEMMA AgesAreAges ==
    ASSUME NEW age \in Age, NEW limit
    PROVE  Older(age, limit) \in Age /\ (Older(age, limit) = Never <=> age = Never)
BY DEF Older, Age, Never

-----------------------------------------------------------------------------
LEMMA WarmInitInv == WarmInit => WarmInv
<1> SUFFICES ASSUME WarmInit PROVE WarmInv
  OBVIOUS
<1>1. NoBaseline \in Baseline /\ -1 \in Age /\ ~NoBaseline.other
  BY NothingIsNotMature DEF Age, Never, NoBaseline
<1>2. disk.coverage.age = Never /\ disk.coverage.baseline = NoBaseline /\ ~disk.coverage.healthy
  BY DEF WarmInit
<1>3. /\ svc = [pc |-> "idle", start |-> "cold", states |-> NoStates, fullAge |-> Never,
                baseline |-> NoBaseline, checkpoint |-> Never, material |-> << >>]
  BY <1>2 DEF WarmInit, Loaded, Restored
<1>4. DiskOK(disk)
  BY <1>1 DEF WarmInit, DiskOK, Never
<1>5. SvcOK(svc)
  BY <1>1, <1>3 DEF SvcOK, Never
<1>6. PastOK(past)
  BY DEF WarmInit, PastOK
<1>7. Counted
  BY <1>1, <1>2, <1>3, 0 <= 0 DEF WarmInit, Counted, NoBaseline
<1> QED
  BY <1>2, <1>3, <1>4, <1>5, <1>6, <1>7
  DEF WarmInit, WarmInv, WarmTyped, WarningsAreStored, HealthIsStored, CommittedRuns, WarmStartIsEarned

(* The budget of mishaps is all that changes in "past". *)
LEMMA MishapsStep ==
    ASSUME NEW n, PastOK(past), Mishaps(n)
    PROVE  /\ PastOK(past')
           /\ past'.count = past.count /\ past'.other = past.other
           /\ past'.warned = past.warned /\ past'.healthy = past.healthy
BY DEF Mishaps, PastOK

(* A step after which the disk is the same and the service has forgotten no *)
(* more than the place it was at.                                           *)
LEMMA PlaceStep ==
    ASSUME WarmInv, NEW s, SvcOK(s), svc' = s, UNCHANGED disk,
           NEW n, Mishaps(n),
           s.start = svc.start, s.baseline = svc.baseline, s.checkpoint = svc.checkpoint,
           s.material = svc.material, s.pc # "committed"
    PROVE  WarmInv'
<1>1. /\ PastOK(past') /\ past'.count = past.count /\ past'.other = past.other
      /\ past'.warned = past.warned /\ past'.healthy = past.healthy
  BY MishapsStep DEF WarmInv, WarmTyped
<1>2. WarmTyped'
  BY <1>1 DEF WarmInv, WarmTyped
<1> QED
  BY <1>1, <1>2 DEF WarmInv, Counted, WarningsAreStored, HealthIsStored, CommittedRuns, WarmStartIsEarned

LEMMA AbandonStep ==
    ASSUME WarmInv, Abandoned, Mishaps(1), UNCHANGED disk
    PROVE  WarmInv'
<1> DEFINE s1 == [svc EXCEPT !.pc = "idle"]
           s  == [s1 EXCEPT !.states = NoStates]
<1>1. svc' = s
  BY DEF Abandoned
<1>2. /\ SvcOK(s1) /\ s1.start = svc.start /\ s1.baseline = svc.baseline
      /\ s1.checkpoint = svc.checkpoint /\ s1.material = svc.material /\ s1.pc = "idle"
  BY DEF WarmInv, WarmTyped, SvcOK
<1> HIDE DEF s1
<1>3. /\ SvcOK(s) /\ s.start = svc.start /\ s.baseline = svc.baseline
      /\ s.checkpoint = svc.checkpoint /\ s.material = svc.material /\ s.pc = "idle"
  BY <1>2 DEF SvcOK
<1> HIDE DEF s
<1> QED BY <1>1, <1>3, PlaceStep

LEMMA ObserveStep == ASSUME WarmInv, Observe PROVE WarmInv'
<1>1. PICK states, n : /\ svc' = [svc EXCEPT !.pc = "observed", !.states = states]
                       /\ Mishaps(n) /\ UNCHANGED disk
  BY DEF Observe
<1> DEFINE s1 == [svc EXCEPT !.pc = "observed"]
           s  == [s1 EXCEPT !.states = states]
<1>2. svc' = s
  BY <1>1
<1>3. /\ SvcOK(s1) /\ s1.start = svc.start /\ s1.baseline = svc.baseline
      /\ s1.checkpoint = svc.checkpoint /\ s1.material = svc.material /\ s1.pc = "observed"
  BY DEF WarmInv, WarmTyped, SvcOK
<1> HIDE DEF s1
<1>4. /\ SvcOK(s) /\ s.start = svc.start /\ s.baseline = svc.baseline
      /\ s.checkpoint = svc.checkpoint /\ s.material = svc.material /\ s.pc = "observed"
  BY <1>3 DEF SvcOK
<1> HIDE DEF s
<1> QED BY <1>1, <1>2, <1>4, PlaceStep

LEMMA CommitStep == ASSUME WarmInv, NEW full \in BOOLEAN, Commit(full) PROVE WarmInv'
<1> DEFINE b    == BaselineObserved(svc.baseline, svc.states)
           seen == [count |-> past.count, other |-> past.other]
           real == BaselineObserved(seen, svc.states)
           warn == Warned(svc.states)
<1>1. /\ svc.baseline \in Baseline /\ seen \in Baseline
      /\ \A d \in Core : svc.baseline.count[d] <= seen.count[d]
      /\ svc.baseline.other => seen.other
  BY DEF WarmInv, WarmTyped, SvcOK, PastOK, Counted, Baseline
<1>2. /\ b \in Baseline /\ real \in Baseline
      /\ \A d \in Core : b.count[d] <= real.count[d] /\ svc.baseline.count[d] <= b.count[d]
      /\ b.other => real.other
      /\ past.other => real.other
  <2> HIDE DEF seen
  <2>1. /\ b \in Baseline /\ real \in Baseline
        /\ \A d \in Core : b.count[d] <= real.count[d] /\ svc.baseline.count[d] <= b.count[d]
        /\ b.other => real.other
        /\ seen.other => real.other
    BY <1>1, ObservedKeepsOrder
  <2> QED BY <2>1 DEF seen
<1>3. warn \in BOOLEAN
  BY DEF Warned
<1>4. /\ PastOK(past') /\ past'.count = real.count /\ past'.other = real.other
      /\ past'.warned = warn /\ past'.healthy = past.healthy
  <2> DEFINE p1 == [past EXCEPT !.count = real.count]
             p2 == [p1 EXCEPT !.other = real.other]
             p3 == [p2 EXCEPT !.warned = warn]
  <2>1. past' = p3
    BY DEF Commit
  <2>2. real.count \in [Core -> 0..3] /\ real.other \in BOOLEAN
    BY <1>2 DEF Baseline
  <2> HIDE DEF real, warn
  <2>3. PastOK(p1) /\ p1.count = real.count /\ p1.healthy = past.healthy
    BY <2>2 DEF WarmInv, WarmTyped, PastOK
  <2> HIDE DEF p1
  <2>4. PastOK(p2) /\ p2.count = real.count /\ p2.other = real.other /\ p2.healthy = past.healthy
    BY <2>2, <2>3 DEF PastOK
  <2> HIDE DEF p2
  <2>5. /\ PastOK(p3) /\ p3.count = real.count /\ p3.other = real.other
        /\ p3.warned = warn /\ p3.healthy = past.healthy
    BY <1>3, <2>4 DEF PastOK
  <2> QED BY <2>1, <2>5
<1>5. /\ SvcOK(svc') /\ svc'.pc = "committed" /\ svc'.start = "running"
      /\ svc'.baseline = b /\ svc'.checkpoint = svc.checkpoint /\ svc'.material = svc.material
  <2> DEFINE age == IF full THEN 0 ELSE svc.fullAge
             s1  == [svc EXCEPT !.pc = "committed"]
             s2  == [s1 EXCEPT !.start = "running"]
             s3  == [s2 EXCEPT !.fullAge = age]
             s4  == [s3 EXCEPT !.baseline = b]
  <2>1. svc' = s4
    BY DEF Commit
  <2>2. age \in Age
    BY DEF WarmInv, WarmTyped, SvcOK, Age
  <2> HIDE DEF age, b
  <2>3. /\ SvcOK(s1) /\ s1.pc = "committed"
        /\ s1.checkpoint = svc.checkpoint /\ s1.material = svc.material
    BY DEF WarmInv, WarmTyped, SvcOK
  <2> HIDE DEF s1
  <2>4. /\ SvcOK(s2) /\ s2.pc = "committed" /\ s2.start = "running"
        /\ s2.checkpoint = svc.checkpoint /\ s2.material = svc.material
    BY <2>3 DEF SvcOK
  <2> HIDE DEF s2
  <2>5. /\ SvcOK(s3) /\ s3.pc = "committed" /\ s3.start = "running"
        /\ s3.checkpoint = svc.checkpoint /\ s3.material = svc.material
    BY <2>2, <2>4 DEF SvcOK
  <2> HIDE DEF s3
  <2>6. /\ SvcOK(s4) /\ s4.pc = "committed" /\ s4.start = "running" /\ s4.baseline = b
        /\ s4.checkpoint = svc.checkpoint /\ s4.material = svc.material
    BY <1>2, <2>5 DEF SvcOK
  <2> QED BY <2>1, <2>6
<1>6. /\ DiskOK(disk') /\ disk'.coverage = disk.coverage /\ (warn => disk'.snapshot.warned)
  <2>1. CASE full
    <3> DEFINE snapshot == [age |-> 0, warned |-> warn]
    <3>1. disk' = [disk EXCEPT !.snapshot = snapshot]
      BY <2>1 DEF Commit
    <3>2. snapshot \in [age : Age, warned : BOOLEAN] /\ snapshot.warned = warn
      BY <1>3 DEF Age
    <3> HIDE DEF snapshot, warn
    <3> QED BY <3>1, <3>2 DEF WarmInv, WarmTyped, DiskOK
  <2>2. CASE ~full
    BY <2>2 DEF Commit, QuietCycle, WarmInv, WarmTyped
  <2> QED BY <2>1, <2>2
<1> HIDE DEF b, real, warn, seen
<1>7. WarmTyped'
  BY <1>4, <1>5, <1>6 DEF WarmTyped
<1>8. Counted'
  <2>1. \A d \in Core : /\ svc.baseline.count[d] \in 0..3 /\ b.count[d] \in 0..3
                        /\ disk.coverage.baseline.count[d] \in 0..3
    BY <1>1, <1>2 DEF WarmInv, WarmTyped, DiskOK, Baseline
  <2> QED BY <1>2, <1>4, <1>5, <1>6, <2>1 DEF WarmInv, Counted
<1>9. WarningsAreStored' /\ HealthIsStored' /\ CommittedRuns' /\ WarmStartIsEarned'
  BY <1>4, <1>5, <1>6
  DEF WarmInv, WarningsAreStored, HealthIsStored, CommittedRuns, WarmStartIsEarned
<1> QED BY <1>7, <1>8, <1>9 DEF WarmInv

LEMMA ReportStep == ASSUME WarmInv, ReportCoverage PROVE WarmInv'
<1> DEFINE key     == CoverageKey(svc.states, svc.baseline)
           report  == CoverageReport(svc.states, svc.baseline)
           healthy == Healthy(svc.states)
<1>1. healthy \in BOOLEAN /\ key[1] = healthy /\ svc.baseline \in Baseline
  BY DEF Healthy, CoverageKey, WarmInv, WarmTyped, SvcOK
<1>2. /\ report \in [age : Age, healthy : BOOLEAN, baseline : Baseline]
      /\ report.age # Never /\ report.healthy = healthy /\ report.baseline = svc.baseline
  BY <1>1 DEF CoverageReport, Age, Never
<1>3. /\ PastOK(past') /\ past'.count = past.count /\ past'.other = past.other
      /\ past'.warned = past.warned /\ past'.healthy = healthy
  <2>1. past' = [past EXCEPT !.healthy = healthy]
    BY DEF ReportCoverage
  <2> HIDE DEF healthy
  <2> QED BY <1>1, <2>1 DEF WarmInv, WarmTyped, PastOK
<1>4. /\ SvcOK(svc') /\ svc'.pc = "idle" /\ svc'.start = "running" /\ svc'.baseline = svc.baseline
      /\ svc'.checkpoint = (IF CheckpointDue THEN 0 ELSE svc.checkpoint)
      /\ svc'.material = (IF CheckpointDue THEN key ELSE svc.material)
  <2> DEFINE checkpoint == IF CheckpointDue THEN 0 ELSE svc.checkpoint
             material   == IF CheckpointDue THEN key ELSE svc.material
             s1 == [svc EXCEPT !.pc = "idle"]
             s2 == [s1 EXCEPT !.states = NoStates]
             s3 == [s2 EXCEPT !.checkpoint = checkpoint]
             s4 == [s3 EXCEPT !.material = material]
  <2>1. svc' = s4
    BY DEF ReportCoverage
  <2>2. checkpoint \in Age
    BY DEF WarmInv, WarmTyped, SvcOK, Age
  <2> HIDE DEF checkpoint, material
  <2>3. SvcOK(s1) /\ s1.pc = "idle" /\ s1.start = "running" /\ s1.baseline = svc.baseline
    BY DEF ReportCoverage, WarmInv, WarmTyped, CommittedRuns, SvcOK
  <2> HIDE DEF s1
  <2>4. SvcOK(s2) /\ s2.pc = "idle" /\ s2.start = "running" /\ s2.baseline = svc.baseline
    BY <2>3 DEF SvcOK
  <2> HIDE DEF s2
  <2>5. /\ SvcOK(s3) /\ s3.pc = "idle" /\ s3.start = "running" /\ s3.baseline = svc.baseline
        /\ s3.checkpoint = checkpoint
    BY <2>2, <2>4 DEF SvcOK
  <2> HIDE DEF s3
  <2>6. /\ SvcOK(s4) /\ s4.pc = "idle" /\ s4.start = "running" /\ s4.baseline = svc.baseline
        /\ s4.checkpoint = checkpoint /\ s4.material = material
    BY <2>5 DEF SvcOK
  <2> HIDE DEF s4
  <2> QED BY <2>1, <2>6 DEF checkpoint, material
<1>5. CASE CheckpointDue
  <2>1. disk' = [disk EXCEPT !.coverage = report]
    BY <1>5 DEF ReportCoverage
  <2> HIDE DEF report, healthy, key
  <2>2. DiskOK(disk') /\ disk'.coverage = report /\ disk'.snapshot = disk.snapshot
    BY <2>1, <1>2 DEF WarmInv, WarmTyped, DiskOK
  <2>3. \A d \in Core : svc.baseline.count[d] <= svc.baseline.count[d]
    BY <1>1 DEF Baseline
  <2>4. WarmTyped' /\ Counted'
    BY <1>2, <1>3, <1>4, <2>2, <2>3 DEF WarmInv, WarmTyped, Counted
  <2>5. WarningsAreStored' /\ HealthIsStored' /\ CommittedRuns' /\ WarmStartIsEarned'
    BY <1>1, <1>2, <1>3, <1>4, <1>5, <2>2
    DEF WarmInv, WarningsAreStored, HealthIsStored, CommittedRuns, WarmStartIsEarned
  <2> QED BY <2>4, <2>5 DEF WarmInv
<1>6. CASE ~CheckpointDue
  <2>1. disk' = disk
    BY <1>6 DEF ReportCoverage
  <2>2. svc.checkpoint # Never /\ svc.material = key
    BY <1>6 DEF CheckpointDue
  <2>3. disk.coverage.healthy = healthy
    BY <1>1, <2>2 DEF WarmInv, HealthIsStored
  <2> HIDE DEF healthy, key
  <2>4. WarmTyped' /\ Counted'
    BY <1>3, <1>4, <2>1 DEF WarmInv, WarmTyped, Counted
  <2>5. WarningsAreStored' /\ HealthIsStored' /\ CommittedRuns' /\ WarmStartIsEarned'
    BY <1>3, <1>4, <1>6, <2>1, <2>3
    DEF WarmInv, WarningsAreStored, HealthIsStored, CommittedRuns, WarmStartIsEarned
  <2> QED BY <2>4, <2>5 DEF WarmInv
<1> QED BY <1>5, <1>6

LEMMA RestartStep == ASSUME WarmInv, ServiceRestarts PROVE WarmInv'
<1> DEFINE start == IF EligibleForWarmStart THEN "warm" ELSE "cold"
<1>1. /\ PastOK(past') /\ past'.count = past.count /\ past'.other = past.other
      /\ past'.warned = past.warned /\ past'.healthy = past.healthy /\ disk' = disk
  BY MishapsStep DEF WarmInv, WarmTyped, ServiceRestarts
<1>2. svc' = [pc |-> "idle", start |-> start, states |-> NoStates, fullAge |-> Never,
              baseline |-> Restored(disk.coverage), checkpoint |-> Never, material |-> << >>]
  BY DEF ServiceRestarts, Loaded
<1>3. disk.coverage.baseline \in Baseline /\ Restored(disk.coverage) = disk.coverage.baseline
  BY DEF WarmInv, WarmTyped, DiskOK, Counted, Restored
<1>4. SvcOK(svc') /\ svc'.baseline = disk.coverage.baseline
  <2>1. start \in {"warm", "cold"} /\ Never \in Age
    BY DEF Age
  <2> HIDE DEF start
  <2> QED BY <1>2, <1>3, <2>1 DEF SvcOK
<1>5. \A d \in Core : /\ disk.coverage.baseline.count[d] \in 0..3
                      /\ svc.baseline.count[d] \in 0..3 /\ past.count[d] \in 0..3
  BY <1>3 DEF WarmInv, WarmTyped, SvcOK, PastOK, Baseline
<1>6. ASSUME NEW d \in Core PROVE disk.coverage.baseline.count[d] <= past.count[d]
  <2>1. CASE disk.coverage.age # Never
    BY <1>5, <2>1 DEF WarmInv, Counted
  <2>2. CASE disk.coverage.age = Never
    BY <1>5, <2>2 DEF WarmInv, Counted, NoBaseline
  <2> QED BY <2>1, <2>2
<1>7. Counted'
  <2>1. \A d \in Core : disk.coverage.baseline.count[d] <= disk.coverage.baseline.count[d]
    BY <1>5
  <2> QED BY <1>1, <1>4, <1>6, <2>1 DEF WarmInv, Counted
<1>8. WarmStartIsEarned'
  <2> SUFFICES ASSUME EligibleForWarmStart PROVE WarmStartIsEarned'
    BY <1>2 DEF WarmStartIsEarned
  <2>1. \A d \in Core : disk.coverage.baseline.count[d] = 3
    BY <1>3, ConfidenceIs DEF EligibleForWarmStart
  <2>2. \A d \in Core : past.count[d] = 3
    BY <1>5, <1>6, <2>1
  <2>3. ~past.warned /\ past.healthy
    BY DEF EligibleForWarmStart, WarmInv, WarningsAreStored, HealthIsStored
  <2> QED BY <1>1, <2>2, <2>3 DEF WarmStartIsEarned
<1>9. WarningsAreStored' /\ HealthIsStored' /\ CommittedRuns'
  BY <1>1, <1>2 DEF WarmInv, WarningsAreStored, HealthIsStored, CommittedRuns
<1> QED BY <1>1, <1>4, <1>7, <1>8, <1>9 DEF WarmInv, WarmTyped

LEMMA DamageStep == ASSUME WarmInv, RowIsDamaged PROVE WarmInv'
<1>1. /\ PastOK(past') /\ past'.count = past.count /\ past'.other = past.other
      /\ past'.warned = past.warned /\ past'.healthy = past.healthy /\ svc' = svc
  BY MishapsStep DEF WarmInv, WarmTyped, RowIsDamaged
<1>2. DiskOK(disk') /\ disk'.coverage = disk.coverage /\ disk'.snapshot = disk.snapshot
  BY DEF WarmInv, WarmTyped, DiskOK, RowIsDamaged
<1> QED
  BY <1>1, <1>2
  DEF WarmInv, WarmTyped, Counted, WarningsAreStored, HealthIsStored, CommittedRuns, WarmStartIsEarned

LEMMA TimeStep == ASSUME WarmInv, TimePasses PROVE WarmInv'
<1> DEFINE a1 == Older(disk.snapshot.age, SnapshotLimit)
           a2 == Older(disk.coverage.age, CoverageLimit)
           a3 == Older(svc.fullAge, FullInterval)
           a4 == Older(svc.checkpoint, CoverageCheckpoint)
           d1 == [disk EXCEPT !.snapshot.age = a1]
           d2 == [d1 EXCEPT !.coverage.age = a2]
           s1 == [svc EXCEPT !.fullAge = a3]
           s2 == [s1 EXCEPT !.checkpoint = a4]
<1>1. disk' = d2 /\ svc' = s2 /\ past' = past
  BY DEF TimePasses
<1>2. /\ a1 \in Age /\ a2 \in Age /\ a3 \in Age /\ a4 \in Age
      /\ a2 = Never <=> disk.coverage.age = Never
      /\ a4 = Never <=> svc.checkpoint = Never
  BY AgesAreAges DEF WarmInv, WarmTyped, DiskOK, SvcOK
<1> HIDE DEF a1, a2, a3, a4
<1>3. DiskOK(d1) /\ d1.snapshot.warned = disk.snapshot.warned /\ d1.coverage = disk.coverage
  BY <1>2 DEF WarmInv, WarmTyped, DiskOK
<1> HIDE DEF d1
<1>4. /\ DiskOK(d2) /\ d2.snapshot = d1.snapshot /\ d2.coverage.age = a2
      /\ d2.coverage.healthy = d1.coverage.healthy /\ d2.coverage.baseline = d1.coverage.baseline
  BY <1>2, <1>3 DEF DiskOK
<1> HIDE DEF d2
<1>5. /\ SvcOK(s1) /\ s1.pc = svc.pc /\ s1.start = svc.start /\ s1.baseline = svc.baseline
      /\ s1.material = svc.material
  BY <1>2 DEF WarmInv, WarmTyped, SvcOK
<1> HIDE DEF s1
<1>6. /\ SvcOK(s2) /\ s2.pc = svc.pc /\ s2.start = svc.start /\ s2.baseline = svc.baseline
      /\ s2.material = svc.material /\ s2.checkpoint = a4
  BY <1>2, <1>5 DEF SvcOK
<1> HIDE DEF s2
<1>7. WarmTyped' /\ Counted'
  BY <1>1, <1>2, <1>3, <1>4, <1>6 DEF WarmInv, WarmTyped, Counted
<1>8. WarningsAreStored' /\ HealthIsStored' /\ CommittedRuns' /\ WarmStartIsEarned'
  BY <1>1, <1>2, <1>3, <1>4, <1>6
  DEF WarmInv, WarningsAreStored, HealthIsStored, CommittedRuns, WarmStartIsEarned
<1> QED BY <1>7, <1>8 DEF WarmInv

LEMMA WarmStepInv == WarmInv /\ [WarmNext]_warmVars => WarmInv'
<1> SUFFICES ASSUME WarmInv, [WarmNext]_warmVars PROVE WarmInv'
  OBVIOUS
<1>1. CASE CoverageNotWritten
  BY <1>1, AbandonStep DEF CoverageNotWritten
<1>2. CASE CycleRaises
  BY <1>2, AbandonStep DEF CycleRaises
<1>3. CASE UNCHANGED warmVars
  BY <1>3 DEF warmVars, WarmInv, WarmTyped, Counted, WarningsAreStored, HealthIsStored, CommittedRuns,
              WarmStartIsEarned
<1> QED
  BY <1>1, <1>2, <1>3, ObserveStep, CommitStep, ReportStep, RestartStep, DamageStep, TimeStep
  DEF WarmNext

LEMMA WarmSpecInv == WarmSpec => []WarmInv
  BY WarmInitInv, WarmStepInv, PTL DEF WarmSpec

(* Only a report that is written changes the stored baseline. *)
LEMMA OtherStepsKeepTheBaseline ==
    ASSUME WarmInv, [WarmNext]_warmVars, ~(ReportCoverage /\ CheckpointDue)
    PROVE  disk'.coverage.baseline = disk.coverage.baseline
<1>1. CASE \E full \in BOOLEAN : Commit(full)
  BY <1>1 DEF Commit, WarmInv, WarmTyped, DiskOK
<1>2. CASE TimePasses
  BY <1>2 DEF TimePasses, WarmInv, WarmTyped, DiskOK
<1>3. CASE RowIsDamaged
  BY <1>3 DEF RowIsDamaged, WarmInv, WarmTyped, DiskOK
<1> QED
  BY <1>1, <1>2, <1>3
  DEF WarmNext, warmVars, Observe, ReportCoverage, CoverageNotWritten, CycleRaises, ServiceRestarts

(* "A warm restart is allowed only from recent, established, healthy ...    *)
(* state" (docs/releases/v0.5.0-alpha.1.md), for any core domains, limits   *)
(* and intervals, and any number of mishaps.                                *)
THEOREM WarmStartsAreEarned == WarmSpec => []WarmStartIsEarned
<1>1. WarmInv => WarmStartIsEarned
  BY DEF WarmInv
<1> QED
  BY <1>1, WarmSpecInv, PTL

(* What is stored as established (baseline.py) stays so, whichever reports *)
(* are coalesced, lost or written from a restored baseline.                *)
THEOREM MaturityIsNotLost == WarmSpec => MaturityIsKept
<1> DEFINE Est == Confidence(disk.coverage.baseline) = "established"
<1>1. ASSUME WarmInv, [WarmNext]_warmVars, Est, ~Est'
      PROVE  past'.other
  <2>1. disk'.coverage.baseline # disk.coverage.baseline
    <3> SUFFICES ASSUME disk'.coverage.baseline = disk.coverage.baseline PROVE Est'
      BY <1>1
    <3> QED BY <1>1 DEF Confidence
  <2>2. ReportCoverage /\ CheckpointDue
    BY <1>1, <2>1, OtherStepsKeepTheBaseline
  <2>3. disk'.coverage.baseline = svc.baseline /\ past'.other = past.other
    BY <1>1, <2>2 DEF ReportCoverage, CoverageReport, WarmInv, WarmTyped, DiskOK, PastOK
  <2>4. \A d \in Core : disk.coverage.baseline.count[d] = 3
    BY <1>1, ConfidenceIs DEF WarmInv, WarmTyped, DiskOK
  <2>5. disk.coverage.age # Never
    BY <1>1, NothingIsNotMature DEF WarmInv, Counted
  <2>6. \A d \in Core : svc.baseline.count[d] = 3
    <3>1. \A d \in Core : svc.baseline.count[d] \in 0..3
      BY <1>1 DEF WarmInv, WarmTyped, SvcOK, Baseline
    <3> QED BY <1>1, <2>4, <2>5, <3>1 DEF WarmInv, Counted
  <2>7. svc.baseline.other
    <3>1. svc.baseline \in Baseline /\ Confidence(svc.baseline) # "established"
      BY <1>1, <2>3 DEF WarmInv, WarmTyped, SvcOK
    <3> QED BY <2>6, <3>1, ConfidenceIs
  <2> QED BY <1>1, <2>3, <2>7 DEF WarmInv, Counted
<1>2. WarmInv /\ [WarmNext]_warmVars =>
        [Confidence(disk.coverage.baseline) = "established" =>
            \/ Confidence(disk'.coverage.baseline) = "established"
            \/ past'.other]_warmVars
  BY <1>1
<1> HIDE DEF Est
<1> QED
  BY <1>2, WarmSpecInv, PTL DEF WarmSpec, MaturityIsKept

-----------------------------------------------------------------------------
(* The gate before a soak *)

(* No source was found in the last report. *)
NoneWereFound ==
    record.fingerprint # {} /\ record.stale = Cardinality(record.fingerprint)

HostOK(h) ==
    h \in [queue : SUBSET Operation,
           source : [Operation -> {"exists", "absent", "unreadable"}], flag : BOOLEAN,
           boots : Nat \ {0}, token : Nat, drifted : BOOLEAN, events : Nat]

RestartTyped ==
    /\ HostOK(host)
    /\ record.fingerprint \subseteq Operation
    /\ proof.boots \subseteq 1..host.boots

Witnessed ==
    NoneWereFound =>
        /\ proof.of = record.fingerprint
        /\ proof.boots # {}
        /\ record.boot # host.token /\ ~host.drifted => host.boots \notin proof.boots

Confirmed ==
    record.decision = "PASS_STALE" =>
        NoneWereFound /\ (host.drifted \/ Cardinality(proof.boots) >= 2)

NothingQueued == record.decision = "PASS" => record.stale = 0

RestartInv == RestartTyped /\ Witnessed /\ Confirmed /\ NothingQueued

-----------------------------------------------------------------------------
(* The part of the queue in one class is finite, and the whole queue only  *)
(* if it is as large.                                                      *)
LEMMA ClassIsPart ==
    ASSUME HostOK(host), NEW class
    PROVE  /\ Those(class) \subseteq host.queue
           /\ IsFiniteSet(Those(class)) /\ IsFiniteSet(host.queue)
           /\ Cardinality(Those(class)) \in Nat
           /\ Cardinality(Those(class)) = Cardinality(host.queue) => Those(class) = host.queue
<1>1. Those(class) \subseteq host.queue /\ host.queue \subseteq Operation
  BY DEF Those, HostOK
<1>2. IsFiniteSet(host.queue)
  BY <1>1, RestartAssumption, FS_Subset
<1>3. IsFiniteSet(Those(class))
  BY <1>1, <1>2, FS_Subset
<1> QED
  BY <1>1, <1>2, <1>3, FS_Subset, FS_CardinalityType

(* A queue with nothing active, unknown or malformed is stale. *)
LEMMA OnlyStaleLeft ==
    ASSUME HostOK(host), ~HardBlock, Those("active") = {}
    PROVE  Those("stale") = host.queue
<1>1. ASSUME NEW o \in host.queue PROVE Classified(o) \in {"stale", "active", "unknown", "malformed"}
  <2>1. host.source[o] \in {"exists", "absent", "unreadable"}
    BY DEF HostOK
  <2> QED BY <2>1 DEF Classified
<1> QED
  BY <1>1 DEF Those, HardBlock

(* The stale operations are all there are if no source was found. *)
LEMMA StaleAreNotFound ==
    ASSUME HostOK(host)
    PROVE  NoneFound <=> host.queue # {} /\ Those("stale") = host.queue
<1>1. \A o \in host.queue :
        Classified(o) = "stale" <=> /\ o \notin Malformed \union Unmapped
                                    /\ host.source[o] # "exists"
  BY DEF Classified, PathExists
<1> QED
  BY <1>1 DEF Those, NoneFound

(* Two boots are two. *)
LEMMA TwoBoots ==
    ASSUME NEW n \in Nat, NEW B \in SUBSET (1..n), B # {}, NEW b \in 1..n, b \notin B
    PROVE  Cardinality({b} \union B) >= 2
<1>1. IsFiniteSet(B)
  <2>1. IsFiniteSet(1..n)
    BY FS_Interval
  <2> QED BY <2>1, FS_Subset
<1>2. Cardinality(B) \in Nat /\ Cardinality(B) # 0
  BY <1>1, FS_CardinalityType, FS_EmptySet
<1>3. Cardinality(B \union {b}) = Cardinality(B) + 1
  BY <1>1, FS_AddElement
<1>4. {b} \union B = B \union {b}
  OBVIOUS
<1> QED
  BY <1>2, <1>3, <1>4

LEMMA MoreBoots ==
    ASSUME NEW n \in Nat, NEW B \in SUBSET (1..n), NEW b \in 1..n, Cardinality(B) >= 2
    PROVE  Cardinality({b} \union B) >= 2
<1>1. IsFiniteSet({b} \union B)
  <2>1. IsFiniteSet(1..n) /\ {b} \union B \subseteq 1..n
    BY FS_Interval
  <2> QED BY <2>1, FS_Subset
<1>2. Cardinality(B) <= Cardinality({b} \union B)
  BY <1>1, FS_Subset
<1> QED
  BY <1>1, <1>2, FS_CardinalityType, FS_Subset

-----------------------------------------------------------------------------
LEMMA RestartInitInv == RestartInit => RestartInv
<1> SUFFICES ASSUME RestartInit PROVE RestartInv
  OBVIOUS
<1>1. HostOK(host)
  BY RestartAssumption DEF RestartInit, HostOK
<1>2. /\ record.fingerprint = {} /\ record.decision = "" /\ proof.boots = {}
  BY DEF RestartInit, NoHistory
<1> QED
  BY <1>1, <1>2 DEF RestartInv, RestartTyped, Witnessed, Confirmed, NothingQueued, NoneWereFound

(* What happens on the host keeps the token, or drifts, or is a boot. *)
LEMMA HostStep ==
    ASSUME RestartInv, NEW h, HostOK(h), Happens(h), host.drifted => h.drifted,
           \/ h.boots = host.boots /\ h.token = host.token
           \/ h.boots = host.boots /\ h.drifted
           \/ h.boots = host.boots + 1
    PROVE  RestartInv'
<1>1. /\ UNCHANGED <<record, proof>>
      /\ HostOK(host') /\ host'.boots = h.boots /\ host'.token = h.token /\ host'.drifted = h.drifted
  BY DEF Happens, HostOK
<1>2. proof.boots \subseteq 1..host.boots /\ host.boots \in Nat /\ host'.boots \in Nat
  BY <1>1 DEF RestartInv, RestartTyped, HostOK
<1>3. RestartTyped'
  BY <1>1, <1>2 DEF RestartInv, RestartTyped
<1>4. Witnessed'
  <2> SUFFICES ASSUME NoneWereFound, record.boot # host'.token, ~host'.drifted
               PROVE  host'.boots \notin proof.boots
    BY <1>1 DEF RestartInv, Witnessed, NoneWereFound
  <2> QED BY <1>1, <1>2 DEF RestartInv, Witnessed, NoneWereFound, RestartTyped, HostOK
<1>5. Confirmed' /\ NothingQueued'
  BY <1>1 DEF RestartInv, Confirmed, NothingQueued, NoneWereFound, RestartTyped, HostOK
<1> QED
  BY <1>3, <1>4, <1>5 DEF RestartInv

LEMMA InspectStep ==
    ASSUME RestartInv, NEW previous \in {record, NoHistory}, Inspect(previous)
    PROVE  RestartInv'
<1> DEFINE stale == Those("stale")
           n     == host.boots
<1>1. /\ HostOK(host) /\ host.queue \subseteq Operation /\ n \in Nat /\ n \in 1..n
      /\ proof.boots \subseteq 1..n /\ UNCHANGED host
  BY DEF RestartInv, RestartTyped, HostOK, Inspect
<1>2. /\ record'.decision = Assessed(previous) /\ record'.fingerprint = host.queue
      /\ record'.boot = host.token /\ record'.stale = Cardinality(stale)
  BY DEF Inspect
<1>3. proof'.of = host.queue
  BY DEF Inspect
<1>4. NoneWereFound' <=> NoneFound
  BY <1>1, <1>2, ClassIsPart, StaleAreNotFound DEF NoneWereFound
<1>5. NoneFound => proof'.boots = {n} \union (IF proof.of = host.queue THEN proof.boots ELSE {})
  BY DEF Inspect
<1>6. proof'.boots \subseteq 1..n
  BY <1>1 DEF Inspect
<1>7. RestartTyped'
  BY <1>1, <1>2, <1>6 DEF RestartTyped
<1>8. Witnessed'
  BY <1>1, <1>2, <1>3, <1>4, <1>5 DEF Witnessed
<1>9. Confirmed'
  <2> SUFFICES ASSUME Assessed(previous) = "PASS_STALE"
               PROVE  NoneFound /\ (host.drifted \/ Cardinality(proof'.boots) >= 2)
    BY <1>1, <1>2, <1>4 DEF Confirmed
  <2>1. ~HardBlock /\ host.queue # {} /\ Those("active") = {} /\ ConfirmedStale(previous)
    BY DEF Assessed
  <2>2. NoneFound
    BY <2>1, <1>1, OnlyStaleLeft, StaleAreNotFound
  <2>3. /\ previous = record /\ record.fingerprint = host.queue
        /\ record.stale = Cardinality(host.queue)
    BY <2>1, <2>2, <1>1, StaleAreNotFound DEF ConfirmedStale, ExactStaleSet
  <2>4. NoneWereFound
    BY <2>1, <2>3 DEF NoneWereFound
  <2>5. proof.of = host.queue /\ proof.boots # {} /\ proof'.boots = {n} \union proof.boots
    BY <2>2, <2>3, <2>4, <1>5 DEF RestartInv, Witnessed
  <2>6. CASE record.decision = "PASS_STALE"
    BY <2>2, <2>5, <2>6, <1>1, MoreBoots DEF RestartInv, Confirmed
  <2>7. CASE record.boot # host.token
    BY <2>2, <2>4, <2>5, <2>7, <1>1, TwoBoots DEF RestartInv, Witnessed
  <2> QED
    BY <2>1, <2>3, <2>6, <2>7 DEF ConfirmedStale
<1>10. NothingQueued'
  <2> SUFFICES ASSUME Assessed(previous) = "PASS" PROVE Cardinality(stale) = 0
    BY <1>2 DEF NothingQueued
  <2>1. host.queue = {}
    BY DEF Assessed
  <2> QED BY <2>1, FS_EmptySet DEF Those
<1> QED
  BY <1>7, <1>8, <1>9, <1>10 DEF RestartInv

LEMMA RestartStepInv == RestartInv /\ [RestartNext]_restartVars => RestartInv'
<1> SUFFICES ASSUME RestartInv, [RestartNext]_restartVars PROVE RestartInv'
  OBVIOUS
<1>1. CASE \E previous \in {record, NoHistory} : Inspect(previous)
  BY <1>1, InspectStep
<1> HostOK(host)
  BY DEF RestartInv, RestartTyped
<1>2. CASE OperationIsQueued
  <2>1. PICK o \in Operation : Happens([host EXCEPT !.queue = @ \union {o}])
    BY <1>2 DEF OperationIsQueued
  <2> DEFINE h == [host EXCEPT !.queue = @ \union {o}]
  <2>2. HostOK(h) /\ h.boots = host.boots /\ h.token = host.token /\ h.drifted = host.drifted
    BY DEF HostOK
  <2> HIDE DEF h
  <2> QED BY <2>1, <2>2, HostStep DEF h
<1>3. CASE SourceChanges
  <2>1. PICK o \in Operation, s \in {"exists", "absent", "unreadable"} :
          Happens([host EXCEPT !.source[o] = s])
    BY <1>3 DEF SourceChanges
  <2> DEFINE h == [host EXCEPT !.source[o] = s]
  <2>2. HostOK(h) /\ h.boots = host.boots /\ h.token = host.token /\ h.drifted = host.drifted
    BY DEF HostOK
  <2> HIDE DEF h
  <2> QED BY <2>1, <2>2, HostStep DEF h
<1>4. CASE FlagChanges
  <2> DEFINE h == [host EXCEPT !.flag = ~@]
  <2>1. HostOK(h) /\ h.boots = host.boots /\ h.token = host.token /\ h.drifted = host.drifted
    BY DEF HostOK
  <2>2. Happens(h)
    BY <1>4 DEF FlagChanges
  <2> HIDE DEF h
  <2> QED BY <2>1, <2>2, HostStep
<1>5. CASE HostBoots
  <2>1. PICK left \in SUBSET host.queue, minutes \in 0..1 :
          Happens([host EXCEPT
            !.queue = left, !.boots = @ + 1, !.token = @ + minutes,
            !.source = [o \in Operation |->
                          IF o \in host.queue \ left THEN "absent" ELSE @[o]]])
    BY <1>5 DEF HostBoots
  <2> DEFINE source == [o \in Operation |->
                          IF o \in host.queue \ left THEN "absent" ELSE host.source[o]]
             h1 == [host EXCEPT !.queue = left]
             h2 == [h1 EXCEPT !.boots = @ + 1]
             h3 == [h2 EXCEPT !.token = @ + minutes]
             h  == [h3 EXCEPT !.source = source]
  <2>2. Happens(h)
    BY <2>1
  <2>3. source \in [Operation -> {"exists", "absent", "unreadable"}]
    BY DEF HostOK
  <2> HIDE DEF source
  <2>4. HostOK(h1) /\ h1.boots = host.boots /\ h1.drifted = host.drifted
    BY DEF HostOK
  <2> HIDE DEF h1
  <2>5. HostOK(h2) /\ h2.boots = host.boots + 1 /\ h2.drifted = host.drifted
    BY <2>4 DEF HostOK
  <2> HIDE DEF h2
  <2>6. HostOK(h3) /\ h3.boots = host.boots + 1 /\ h3.drifted = host.drifted
    BY <2>5 DEF HostOK
  <2> HIDE DEF h3
  <2>7. HostOK(h) /\ h.boots = host.boots + 1 /\ h.drifted = host.drifted
    BY <2>3, <2>6 DEF HostOK
  <2> HIDE DEF h
  <2> QED BY <2>2, <2>7, HostStep
<1>6. CASE TokenDrifts
  <2> DEFINE moved == [host EXCEPT !.token = @ + 1]
             h     == [moved EXCEPT !.drifted = TRUE]
  <2>1. HostOK(moved) /\ moved.boots = host.boots
    BY DEF HostOK
  <2>2. Happens(h)
    BY <1>6 DEF TokenDrifts
  <2> HIDE DEF moved
  <2>3. HostOK(h) /\ h.boots = host.boots /\ h.drifted
    BY <2>1 DEF HostOK
  <2> HIDE DEF h
  <2> QED BY <2>2, <2>3, HostStep
<1>7. CASE UNCHANGED restartVars
  BY <1>7 DEF restartVars, RestartInv, RestartTyped, Witnessed, Confirmed, NothingQueued, NoneWereFound
<1> QED
  BY <1>1, <1>2, <1>3, <1>4, <1>5, <1>6, <1>7 DEF RestartNext

(* "The unchanged pending rename set contains only absent sources and was  *)
(* confirmed across distinct boots" (windows_restart.py), where absent is  *)
(* what os.path.exists does not find: for any number of operations, boots  *)
(* and inspections, with the history lost at any time.                     *)
THEOREM StaleSetsAreConfirmed == RestartSpec => []StaleIsConfirmedAcrossBoots
<1>1. RestartInv /\ [RestartNext]_restartVars => RestartInv'
  BY RestartStepInv
<1>2. RestartInv => StaleIsConfirmedAcrossBoots
  BY DEF RestartInv, NothingQueued, Confirmed, StaleIsConfirmedAcrossBoots, MayStartSoak
<1> QED
  BY <1>1, <1>2, RestartInitInv, PTL DEF RestartSpec

-----------------------------------------------------------------------------
(* The age of a scanner's data *)

Time == Nat \union {NotYet}

FreshnessTyped ==
    /\ wall \in [now : Nat, wound : BOOLEAN]
    /\ data \in [mtime : Mtime, changed : Nat]
    /\ inspector \in [at : Time, mtime : Mtime, said : [Mtime -> Time]]
    /\ told \in [pc : {"idle", "asked", "done"}, view : Mtime, event : BOOLEAN,
                 stored : [Mtime -> Time], lost : [Mtime -> Time], upsets : Nat]

(* Only the report of the cycle in progress is neither stored nor lost yet. *)
SaidIsKnown ==
    \A m \in Mtime :
        \/ inspector.said[m] \in {NotYet, told.stored[m], told.lost[m]}
        \/ told.pc = "asked" /\ told.event /\ m = told.view

(* A cycle that asked about stale data reports it, or has reported it. *)
Speaks ==
    told.pc = "asked" =>
        /\ Outdated(told.view) => Within(inspector.said[told.view], EventRepeat)
        /\ told.event => inspector.said[told.view] = wall.now

FoundIsRecent ==
    /\ told.pc = "asked" => told.view = inspector.mtime /\ Within(inspector.at, DiscoveryCache)
    /\ \/ inspector.at = NotYet \/ wall.wound \/ inspector.mtime = data.mtime
       \/ inspector.at <= data.changed /\ data.changed <= wall.now
    /\ wall.wound \/ inspector.at <= wall.now

FreshnessInv == FreshnessTyped /\ SaidIsKnown /\ Speaks /\ FoundIsRecent /\ StaleDataIsReported

LEMMA FreshnessStarts == FreshnessInit => FreshnessInv
BY FreshnessAssumption DEF FreshnessInit, FreshnessInv, FreshnessTyped, SaidIsKnown, Speaks,
   FoundIsRecent, StaleDataIsReported, EmptyCaches, Silent, Time, NotYet, Mtime, Missing

LEMMA FreshnessAsks ==
    ASSUME FreshnessInv, AskInspector PROVE FreshnessInv'
<1> DEFINE found == Found
           said  == found.said[EventId(found.mtime)]
           event == Outdated(found.mtime) /\ ~Within(said, EventRepeat)
<1> USE FreshnessAssumption
<1>1. /\ inspector' = IF event THEN [found EXCEPT !.said[found.mtime] = wall.now] ELSE found
      /\ told' = [told EXCEPT !.pc = "asked", !.view = found.mtime, !.event = event]
      /\ wall' = [wall EXCEPT !.wound = @ /\ Within(inspector.at, DiscoveryCache)]
      /\ data' = data /\ told.pc # "asked"
  BY DEF AskInspector, EventId
<1>2. /\ found \in [at : Time, mtime : Mtime, said : [Mtime -> Time]]
      /\ found.said = inspector.said
      /\ \/ found = inspector /\ Within(inspector.at, DiscoveryCache)
         \/ found.at = wall.now /\ found.mtime = data.mtime /\ ~Within(inspector.at, DiscoveryCache)
  BY DEF Found, FreshnessInv, FreshnessTyped, Time
<1>3. event \in BOOLEAN /\ Within(inspector.at, DiscoveryCache) \in BOOLEAN
  BY DEF Within
<1> HIDE DEF found
<1>4. /\ told'.pc = "asked" /\ told'.view = found.mtime /\ told'.event = event
      /\ told'.stored = told.stored /\ told'.lost = told.lost
      /\ wall'.now = wall.now
      /\ wall'.wound = (wall.wound /\ Within(inspector.at, DiscoveryCache))
      /\ inspector'.at = found.at /\ inspector'.mtime = found.mtime
      /\ \A m \in Mtime : inspector'.said[m] =
            IF event /\ m = found.mtime THEN wall.now ELSE inspector.said[m]
      /\ inspector'.said \in [Mtime -> Time]
  BY <1>1, <1>2, <1>3 DEF FreshnessInv, FreshnessTyped, Time
<1>5. FreshnessTyped'
  BY <1>1, <1>2, <1>3 DEF FreshnessInv, FreshnessTyped, Time
<1> HIDE DEF event
<1>6. SaidIsKnown'
  BY <1>1, <1>2, <1>4 DEF FreshnessInv, SaidIsKnown
<1>7. Speaks'
  <2>1. \A m : Outdated(m)' <=> Outdated(m)
    BY <1>4 DEF Outdated
  <2>2. event => inspector'.said[found.mtime] = wall.now
    BY <1>2, <1>4
  <2>3. ~event => inspector'.said[found.mtime] = said
    BY <1>2, <1>4 DEF EventId
  <2>4. \A t : Within(t, EventRepeat)' <=> Within(t, EventRepeat)
    BY <1>4 DEF Within
  <2>5. Within(wall.now, EventRepeat)
    BY DEF Within, FreshnessInv, FreshnessTyped, NotYet
  <2>6. Outdated(found.mtime) => event \/ Within(said, EventRepeat)
    BY DEF event
  <2> HIDE DEF said
  <2>7. /\ Outdated(found.mtime) => Within(inspector'.said[found.mtime], EventRepeat)
        /\ event => inspector'.said[found.mtime] = wall'.now
    BY <1>4, <2>2, <2>3, <2>5, <2>6
  <2> QED
    BY <1>4, <2>1, <2>4, <2>7 DEF Speaks, Outdated, Within
<1>8. FoundIsRecent'
  BY <1>1, <1>2, <1>4 DEF FreshnessInv, FreshnessTyped, FoundIsRecent, Within, Time, NotYet
<1>9. StaleDataIsReported'
  BY <1>4 DEF StaleDataIsReported
<1> QED
  BY <1>5, <1>6, <1>7, <1>8, <1>9 DEF FreshnessInv

LEMMA FreshnessTells ==
    ASSUME FreshnessInv, CycleTells PROVE FreshnessInv'
<1> USE FreshnessAssumption
<1>1. FreshnessTyped'
  BY DEF FreshnessInv, FreshnessTyped, CycleTells, Time
<1>2. /\ told.pc = "asked" /\ told'.pc = "done" /\ told'.view = told.view
      /\ told'.lost = told.lost
      /\ \A m \in Mtime : told'.stored[m] =
            IF told.event /\ m = told.view THEN wall.now ELSE told.stored[m]
      /\ wall' = wall /\ data' = data /\ inspector' = inspector
  BY DEF FreshnessInv, FreshnessTyped, CycleTells, Time
<1>3. told.view \in Mtime /\ told.event \in BOOLEAN
  BY DEF FreshnessInv, FreshnessTyped
<1>4. SaidIsKnown'
  BY <1>2, <1>3 DEF FreshnessInv, SaidIsKnown, Speaks
<1>5. Speaks' /\ FoundIsRecent'
  BY <1>2 DEF FreshnessInv, Speaks, FoundIsRecent, Within
<1>6. StaleDataIsReported'
  BY <1>2, <1>3 DEF FreshnessInv, FreshnessTyped, SaidIsKnown, Speaks, FoundIsRecent,
     StaleDataIsReported, Outdated, Within, NotYet, Time
<1> QED
  BY <1>1, <1>4, <1>5, <1>6 DEF FreshnessInv

(* An event that is suppressed, or that goes down with its cycle or with the *)
(* process.                                                                  *)
LEMMA FreshnessLoses ==
    ASSUME FreshnessInv, NEW pc \in {"idle", "done"}, LoseEvent(pc),
           wall' = wall, data' = data, inspector' = inspector \/ inspector' = EmptyCaches,
           pc = "done" => told.pc = "asked" /\ told.event /\ inspector' = inspector
    PROVE  FreshnessInv'
<1> USE FreshnessAssumption
<1>1. EmptyCaches \in [at : Time, mtime : Mtime, said : [Mtime -> Time]]
      /\ EmptyCaches.at = NotYet /\ \A m \in Mtime : EmptyCaches.said[m] = NotYet
  BY DEF EmptyCaches, Silent, Time, Mtime
<1>2. /\ told'.pc = pc /\ told'.view = told.view /\ told'.stored = told.stored
      /\ told'.event = told.event
      /\ \A m \in Mtime : told'.lost[m] =
            IF told.pc = "asked" /\ told.event /\ m = told.view THEN wall.now ELSE told.lost[m]
      /\ told'.lost \in [Mtime -> Time]
  BY DEF FreshnessInv, FreshnessTyped, LoseEvent, Time
<1>3. told' \in [pc : {"idle", "asked", "done"}, view : Mtime, event : BOOLEAN,
                stored : [Mtime -> Time], lost : [Mtime -> Time], upsets : Nat]
  <2> DEFINE t1 == [told EXCEPT !.pc = pc]
             t2 == [t1 EXCEPT !.upsets = @ + 1]
             lost == [told.lost EXCEPT ![told.view] =
                         IF told.pc = "asked" /\ told.event THEN wall.now ELSE @]
             Shape == [pc : {"idle", "asked", "done"}, view : Mtime, event : BOOLEAN,
                       stored : [Mtime -> Time], lost : [Mtime -> Time], upsets : Nat]
  <2>1. lost \in [Mtime -> Time] /\ told \in Shape
    BY DEF FreshnessInv, FreshnessTyped, Time
  <2>2. told' = [t2 EXCEPT !.lost = lost]
    BY <2>1 DEF LoseEvent
  <2> HIDE DEF lost
  <2>3. t1 \in Shape
    BY <2>1
  <2> HIDE DEF t1
  <2>4. t2 \in Shape
    BY <2>3
  <2> HIDE DEF t2
  <2> QED
    BY <2>1, <2>2, <2>4
<1>4. FreshnessTyped'
  BY <1>1, <1>3 DEF FreshnessInv, FreshnessTyped
<1>5. told.view \in Mtime /\ told.event \in BOOLEAN
  BY DEF FreshnessInv, FreshnessTyped
<1>6. SaidIsKnown'
  BY <1>1, <1>2, <1>5 DEF FreshnessInv, SaidIsKnown, Speaks
<1>7. Speaks'
  BY <1>2 DEF Speaks
<1>8. FoundIsRecent'
  BY <1>1, <1>2 DEF FreshnessInv, FreshnessTyped, FoundIsRecent, NotYet
<1>9. StaleDataIsReported'
  BY <1>2, <1>5 DEF FreshnessInv, FreshnessTyped, SaidIsKnown, Speaks, FoundIsRecent,
     StaleDataIsReported, Outdated, Within, NotYet, Time
<1> QED
  BY <1>4, <1>6, <1>7, <1>8, <1>9 DEF FreshnessInv

(* Between two cycles the machine changes its data or its clock. *)
LEMMA FreshnessPasses ==
    ASSUME FreshnessInv, DataChanges \/ ClockAdvances \/ ClockIsSetBack PROVE FreshnessInv'
<1> DEFINE Shape == [pc : {"idle", "asked", "done"}, view : Mtime, event : BOOLEAN,
                     stored : [Mtime -> Time], lost : [Mtime -> Time], upsets : Nat]
           idle  == [told EXCEPT !.pc = "idle"]
           upset == [idle EXCEPT !.upsets = @ + 1]
<1>0. told.pc # "asked" /\ inspector' = inspector /\ told' \in {idle, upset}
  BY DEF DataChanges, ClockAdvances, ClockIsSetBack
<1>1. /\ told'.pc = "idle" /\ told'.stored = told.stored /\ told'.lost = told.lost
      /\ told' \in Shape
  <2>1. idle \in Shape /\ idle.pc = "idle" /\ idle.stored = told.stored /\ idle.lost = told.lost
    BY DEF FreshnessInv, FreshnessTyped
  <2> HIDE DEF idle
  <2>2. upset \in Shape /\ upset.pc = "idle" /\ upset.stored = told.stored
        /\ upset.lost = told.lost
    BY <2>1
  <2> HIDE DEF upset
  <2> QED
    BY <1>0, <2>1, <2>2
<1>2. /\ wall' \in [now : Nat, wound : BOOLEAN]
      /\ data' \in [mtime : Mtime, changed : Nat]
      /\ \/ wall' = wall /\ data'.changed = wall.now
         \/ data' = data /\ wall'.wound = wall.wound /\ wall'.now = wall.now + 1
         \/ data' = data /\ wall'.wound
  <2>1. wall \in [now : Nat, wound : BOOLEAN] /\ data \in [mtime : Mtime, changed : Nat]
    BY DEF FreshnessInv, FreshnessTyped
  <2>2. CASE DataChanges
    BY <2>1, <2>2 DEF DataChanges
  <2>3. CASE ClockAdvances
    BY <2>1, <2>3 DEF ClockAdvances
  <2>4. CASE ClockIsSetBack
    BY <2>1, <2>4 DEF ClockIsSetBack
  <2> QED
    BY <2>2, <2>3, <2>4
<1>3. FreshnessTyped'
  BY <1>0, <1>1, <1>2 DEF FreshnessInv, FreshnessTyped
<1>4. SaidIsKnown' /\ Speaks' /\ StaleDataIsReported'
  BY <1>0, <1>1 DEF FreshnessInv, SaidIsKnown, Speaks, StaleDataIsReported
<1>5. FoundIsRecent'
  BY <1>0, <1>1, <1>2 DEF FreshnessInv, FreshnessTyped, FoundIsRecent, NotYet, Time
<1> QED
  BY <1>3, <1>4, <1>5 DEF FreshnessInv

LEMMA FreshnessSteps ==
    ASSUME FreshnessInv, [FreshnessNext]_freshnessVars PROVE FreshnessInv'
<1>1. ASSUME EventSuppressed PROVE FreshnessInv'
  BY <1>1, FreshnessLoses DEF EventSuppressed
<1>2. ASSUME CycleFailsToTell PROVE FreshnessInv'
  BY <1>2, FreshnessLoses DEF CycleFailsToTell
<1>3. ASSUME InspectorRestarts PROVE FreshnessInv'
  BY <1>3, FreshnessLoses DEF InspectorRestarts
<1>4. ASSUME UNCHANGED freshnessVars PROVE FreshnessInv'
  BY <1>4 DEF freshnessVars, FreshnessInv, FreshnessTyped, SaidIsKnown, Speaks, FoundIsRecent,
     StaleDataIsReported, Outdated, Within
<1> QED
  BY <1>1, <1>2, <1>3, <1>4, FreshnessAsks, FreshnessTells, FreshnessPasses DEF FreshnessNext

(* Stale or missing scanner data is reported again at the latest after       *)
(* event_repeat_seconds, and what it is taken for is at most                 *)
(* discovery_cache_seconds old (freshness.py): for all intervals and ages,   *)
(* with failing cycles, restarts, and a clock that is set back.              *)
THEOREM StaleDataStaysReported == FreshnessSpec => []StaleDataIsReported
<1>1. FreshnessInv /\ [FreshnessNext]_freshnessVars => FreshnessInv'
  BY FreshnessSteps
<1>2. FreshnessInv => StaleDataIsReported
  BY DEF FreshnessInv
<1> QED
  BY <1>1, <1>2, FreshnessStarts, PTL DEF FreshnessSpec

-----------------------------------------------------------------------------
(* Reviews *)

Finding == [subject : Subject, kinds : SUBSET Kind]

RuleOf(d) == [finding : 1..Len(d.findings), until : Int, enabled : BOOLEAN]

ReviewsDbOK(d) ==
    /\ d = [findings |-> d.findings, noRow |-> d.noRow, noEvidence |-> d.noEvidence,
            rules |-> d.rules, version |-> d.version]
    /\ d.findings \in Seq(Finding)
    /\ d.noRow \in Nat /\ d.noEvidence \in Nat
    /\ d.rules \subseteq RuleOf(d)
    /\ d.version \in 0..MaxCommits

ServiceShape(s) ==
    s = [pc |-> s.pc, started |-> s.started, events |-> s.events, hidden |-> s.hidden,
         version |-> s.version, rows |-> s.rows, cache |-> s.cache, cached |-> s.cached]

(* What the findings behind these rules cover, evidence or not. *)
ReviewedBy(d, rows) ==
    UNION {{Scope(d.findings[r.finding].subject, k, r.until) :
               k \in d.findings[r.finding].kinds} : r \in rows}

(* Findings are only added, their rows and evidence only taken. *)
Grows(d, e) ==
    /\ Len(d.findings) <= Len(e.findings)
    /\ \A i \in 1..Len(d.findings) : e.findings[i] = d.findings[i]
    /\ d.noRow <= e.noRow /\ d.noEvidence <= e.noEvidence

(* Filed under the present version, the cache has the rules of the present. *)
CacheIsOfItsVersion(d, s) ==
    /\ s.cached = NotCached \/ s.cached \in 0..d.version
    /\ s.cached = d.version => /\ s.cache \subseteq Reviewed(d)
                               /\ Scopes(d, Enabled(d)) \subseteq s.cache

(* What was read of the rules, and is about to be used, lies between what  *)
(* was reviewed at some time and what could be applied all the time.       *)
ReadsLieBetween(d, s, b) ==
    /\ s.version \in 0..d.version
    /\ s.pc \in {"query", "resolve"} => b.all \subseteq Effective(d)
    /\ s.pc = "query" => Reviewed(d) \subseteq b.some
    /\ s.pc = "resolve" =>
         /\ s.rows \subseteq RuleOf(d)
         /\ ReviewedBy(d, s.rows) \subseteq b.some
         /\ \A a \in b.all : a[1] \in s.rows
         /\ s.version = d.version => s.rows = Enabled(d)
    /\ s.pc = "filter" =>
         /\ s.cache \subseteq b.some
         /\ \A a \in b.all : a[2] \in s.cache

FilteredRightly(s, b) ==
    s.pc = "filtered" =>
        /\ s.events \subseteq Event
        /\ \A e \in s.hidden :
              ~Bypasses(e) /\ \E x \in b.some : HidesAt(x, e, s.started)
        /\ \A e \in s.events \ s.hidden :
              Bypasses(e) \/ \A a \in b.all : ~HidesAt(a[2], e, s.started)

ReviewsParts(d, s, b) ==
    /\ ReviewsDbOK(d)
    /\ ServiceShape(s)
    /\ b = [some |-> b.some, all |-> b.all]
    /\ CacheIsOfItsVersion(d, s)
    /\ ReadsLieBetween(d, s, b)
    /\ FilteredRightly(s, b)

ReviewsInv == now \in Nat /\ ReviewsParts(db, service, between)

(* Membership in the sets of scopes. *)
LEMMA ScopesMembers ==
    ASSUME NEW d, NEW rows
    PROVE  \A s : s \in Scopes(d, rows) <=>
                \E r \in rows : \E k \in ScopedKinds(d, r.finding) :
                    s = Scope(d.findings[r.finding].subject, k, r.until)
<1>1. \A s : s \in Scopes(d, rows) <=>
         \E r \in rows : s \in {Scope(d.findings[r.finding].subject, k, r.until) :
                                  k \in ScopedKinds(d, r.finding)}
  BY DEF Scopes
<1> QED
  BY <1>1

LEMMA ReviewedMembers ==
    ASSUME NEW d, NEW rows
    PROVE  \A s : s \in ReviewedBy(d, rows) <=>
                \E r \in rows : \E k \in d.findings[r.finding].kinds :
                    s = Scope(d.findings[r.finding].subject, k, r.until)
<1>1. \A s : s \in ReviewedBy(d, rows) <=>
         \E r \in rows : s \in {Scope(d.findings[r.finding].subject, k, r.until) :
                                  k \in d.findings[r.finding].kinds}
  BY DEF ReviewedBy
<1> QED
  BY <1>1

LEMMA ReviewedByTheRules ==
    ASSUME NEW d
    PROVE  Reviewed(d) = ReviewedBy(d, Enabled(d))
BY DEF Reviewed, ReviewedBy

(* What applies was reviewed. *)
LEMMA ScopesAreReviewed ==
    ASSUME NEW d, NEW rows
    PROVE  Scopes(d, rows) \subseteq ReviewedBy(d, rows)
<1>1. \A id : ScopedKinds(d, id) \subseteq d.findings[id].kinds
  BY DEF ScopedKinds
<1> QED
  BY <1>1, ScopesMembers, ReviewedMembers

LEMMA EffectiveMembers ==
    ASSUME NEW d, NEW a \in Effective(d)
    PROVE  a[1] \in Enabled(d) /\ a[2] \in Scopes(d, {a[1]}) /\ a[2] \in Scopes(d, Enabled(d))
  BY DEF Effective

(* What a rule applied to before it no longer gains: nothing is added to   *)
(* the kinds of a finding, and what was reviewed stays what it was.        *)
LEMMA ScopesGrow ==
    ASSUME NEW d, NEW e, ReviewsDbOK(d), ReviewsDbOK(e), Grows(d, e), NEW rows, rows \subseteq RuleOf(d)
    PROVE  /\ rows \subseteq RuleOf(e)
           /\ ReviewedBy(e, rows) = ReviewedBy(d, rows)
           /\ Scopes(e, rows) \subseteq Scopes(d, rows)
<1>1. Len(d.findings) \in Nat /\ Len(e.findings) \in Nat
  BY DEF ReviewsDbOK
<1>2. rows \subseteq RuleOf(e)
  BY <1>1 DEF Grows, RuleOf
<1>3. \A r \in rows : r.finding \in 1..Len(d.findings) /\ e.findings[r.finding] = d.findings[r.finding]
  BY DEF Grows, RuleOf
<1>4. ReviewedBy(e, rows) = ReviewedBy(d, rows)
  <2>1. \A s : s \in ReviewedBy(e, rows) <=>
           \E r \in rows : \E k \in e.findings[r.finding].kinds :
               s = Scope(e.findings[r.finding].subject, k, r.until)
    BY ReviewedMembers
  <2>2. \A s : s \in ReviewedBy(d, rows) <=>
           \E r \in rows : \E k \in d.findings[r.finding].kinds :
               s = Scope(d.findings[r.finding].subject, k, r.until)
    BY ReviewedMembers
  <2> QED
    BY <1>3, <2>1, <2>2
<1>5. \A r \in rows : ScopedKinds(e, r.finding) \subseteq ScopedKinds(d, r.finding)
  BY <1>1, <1>3 DEF Grows, ScopedKinds, Live, ReviewsDbOK
<1>6. Scopes(e, rows) \subseteq Scopes(d, rows)
  <2>1. \A s : s \in Scopes(e, rows) <=>
           \E r \in rows : \E k \in ScopedKinds(e, r.finding) :
               s = Scope(e.findings[r.finding].subject, k, r.until)
    BY ScopesMembers
  <2>2. \A s : s \in Scopes(d, rows) <=>
           \E r \in rows : \E k \in ScopedKinds(d, r.finding) :
               s = Scope(d.findings[r.finding].subject, k, r.until)
    BY ScopesMembers
  <2>3. ASSUME NEW s \in Scopes(e, rows) PROVE s \in Scopes(d, rows)
    <3>1. PICK r \in rows : \E k \in ScopedKinds(e, r.finding) :
               s = Scope(e.findings[r.finding].subject, k, r.until)
      BY <2>1, <2>3
    <3> QED
      BY <1>3, <1>5, <2>2, <3>1
  <2> QED
    BY <2>3
<1> QED
  BY <1>2, <1>4, <1>6

(* The findings of a cycle, and what storing them does. *)
LEMMA FindingsAreFindings ==
    ASSUME NEW kept, kept \subseteq Event, NEW f \in FindingsFrom(kept)
    PROVE  f \in Finding
<1>1. PICK s \in {x.subject : x \in kept} :
         \E about \in {kept, {x \in kept : x.subject = s}} :
            f = [subject |-> s, kinds |-> {x.kind : x \in about}]
  BY DEF FindingsFrom
<1>2. PICK about \in {kept, {x \in kept : x.subject = s}} :
            f = [subject |-> s, kinds |-> {x.kind : x \in about}]
  BY <1>1
<1> DEFINE kinds == {x.kind : x \in about}
<1>3. s \in Subject /\ kinds \subseteq Kind
  BY <1>2 DEF Event
<1>4. f = [subject |-> s, kinds |-> kinds]
  BY <1>2
<1> HIDE DEF kinds
<1> QED
  BY <1>3, <1>4 DEF Finding

LEMMA StoredGrows ==
    ASSUME ReviewsDbOK(db), NEW kept, kept \subseteq Event, NEW own \in BOOLEAN,
           own \/ db.version < MaxCommits, Stored(kept, own)
    PROVE  /\ ReviewsDbOK(db') /\ Grows(db, db')
           /\ db'.rules = db.rules
           /\ db'.version = IF own THEN db.version ELSE db.version + 1
<1> DEFINE v == IF own THEN db.version ELSE db.version + 1
<1>2. PICK findings \in {db.findings} \union {Append(db.findings, f) : f \in FindingsFrom(kept)} :
      \E row \in db.noRow..Len(db.findings), evidence \in db.noEvidence..Len(db.findings) :
        /\ Len(findings) <= MaxFindings
        /\ db' = [db EXCEPT !.findings = findings, !.noRow = row, !.noEvidence = evidence,
                            !.version = IF own THEN @ ELSE @ + 1]
  BY DEF Stored
<1>3. PICK row \in db.noRow..Len(db.findings), evidence \in db.noEvidence..Len(db.findings) :
        db' = [db EXCEPT !.findings = findings, !.noRow = row, !.noEvidence = evidence, !.version = v]
  BY <1>2
<1>4. /\ findings \in Seq(Finding) /\ Len(db.findings) \in Nat /\ Len(findings) \in Nat
      /\ Len(db.findings) <= Len(findings)
      /\ \A i \in 1..Len(db.findings) : findings[i] = db.findings[i]
  <2>1. db.findings \in Seq(Finding)
    BY DEF ReviewsDbOK
  <2>2. CASE findings = db.findings
    BY <2>1, <2>2
  <2>3. ASSUME NEW f \in FindingsFrom(kept), findings = Append(db.findings, f)
        PROVE  /\ findings \in Seq(Finding) /\ Len(db.findings) \in Nat /\ Len(findings) \in Nat
               /\ Len(db.findings) <= Len(findings)
               /\ \A i \in 1..Len(db.findings) : findings[i] = db.findings[i]
    <3>1. f \in Finding
      BY FindingsAreFindings, <2>3
    <3> QED
      BY <2>1, <2>3, <3>1
  <2> QED
    BY <1>2, <2>2, <2>3
<1>5. v \in 0..MaxCommits
  BY ReviewsAssumption DEF ReviewsDbOK
<1> HIDE DEF v
<1>6. db' = [findings |-> findings, noRow |-> row, noEvidence |-> evidence,
             rules |-> db.rules, version |-> v]
  BY <1>3 DEF ReviewsDbOK
<1>7. row \in Nat /\ evidence \in Nat /\ db.noRow <= row /\ db.noEvidence <= evidence
  BY <1>3, <1>4 DEF ReviewsDbOK
<1>8. db'.rules \subseteq RuleOf(db')
  BY <1>4, <1>6 DEF ReviewsDbOK, RuleOf
<1>9. ReviewsDbOK(db')
  BY <1>4, <1>5, <1>6, <1>7, <1>8 DEF ReviewsDbOK
<1>10. Grows(db, db')
  BY <1>4, <1>6, <1>7 DEF Grows
<1> QED
  BY <1>6, <1>9, <1>10 DEF v

(* One lemma for each action. *)
LEMMA ReviewsInitOK ==
    ASSUME ReviewsInit
    PROVE  ReviewsInv
<1>1. Len(db.findings) = 0 /\ db.findings \in Seq(Finding)
  BY DEF ReviewsInit
<1>2. ReviewsDbOK(db)
  BY <1>1, ReviewsAssumption DEF ReviewsInit, ReviewsDbOK
<1>3. service.cached = NotCached /\ NotCached # db.version
  BY ReviewsAssumption DEF ReviewsInit, NotCached
<1> QED
  BY <1>2, <1>3 DEF ReviewsInit, ReviewsInv, ReviewsParts, ServiceShape, CacheIsOfItsVersion,
     ReadsLieBetween, FilteredRightly

(* Between cycles nothing is in use. *)
LEMMA NothingInUse ==
    ASSUME NEW d, NEW s, NEW b, NEW t, NEW c, ReviewsParts(d, s, b), ServiceShape(t),
           t.pc \in {"idle", "version"}, t.version \in 0..d.version,
           t.cached = NotCached \/ (t.cached = s.cached /\ t.cache = s.cache),
           c = [some |-> c.some, all |-> c.all]
    PROVE  ReviewsParts(d, t, c)
<1>1. NotCached # d.version
  BY ReviewsAssumption DEF ReviewsParts, ReviewsDbOK, NotCached
<1>2. CacheIsOfItsVersion(d, t)
  BY <1>1 DEF ReviewsParts, CacheIsOfItsVersion
<1> QED
  BY <1>2 DEF ReviewsParts, ReadsLieBetween, FilteredRightly

LEMMA BeginOK ==
    ASSUME ReviewsInv, Begin
    PROVE  ReviewsInv'
<1>1. /\ ServiceShape(service') /\ service'.pc = "version" /\ service'.version = service.version
      /\ service'.cached = service.cached /\ service'.cache = service.cache
  BY DEF ReviewsInv, ReviewsParts, ServiceShape, Begin
<1>2. ReviewsParts(db, service', between)
  BY <1>1, NothingInUse DEF ReviewsInv, ReviewsParts, ReadsLieBetween
<1> QED
  BY <1>2 DEF ReviewsInv, Begin

LEMMA ReadVersionOK ==
    ASSUME ReviewsInv, ReadVersion
    PROVE  ReviewsInv'
<1> DEFINE pc == IF service.cached = db.version THEN "filter" ELSE "query"
<1>1. service' = [service EXCEPT !.pc = pc, !.version = db.version]
  BY DEF ReadVersion
<1> HIDE DEF pc
<1>2. /\ ServiceShape(service') /\ service'.pc = pc /\ service'.version = db.version
      /\ service'.cached = service.cached /\ service'.cache = service.cache
  BY <1>1 DEF ReviewsInv, ReviewsParts, ServiceShape
<1>3. between' = [some |-> Reviewed(db), all |-> Effective(db)]
  BY DEF ReadVersion
<1>4. db.version \in 0..db.version
  BY DEF ReviewsInv, ReviewsParts, ReviewsDbOK
<1>5. pc = "filter" => service.cached = db.version
  BY DEF pc
<1>6. pc \in {"filter", "query"}
  BY DEF pc
<1>7. CacheIsOfItsVersion(db, service')
  BY <1>2 DEF ReviewsInv, ReviewsParts, CacheIsOfItsVersion
<1>8. ReadsLieBetween(db, service', between')
  <2>1. CASE pc = "filter"
    <3>1. service.cache \subseteq Reviewed(db) /\ Scopes(db, Enabled(db)) \subseteq service.cache
      BY <1>5, <2>1 DEF ReviewsInv, ReviewsParts, CacheIsOfItsVersion
    <3>2. \A a \in between'.all : a[2] \in service'.cache
      BY <1>2, <1>3, <3>1, EffectiveMembers
    <3> QED
      BY <1>2, <1>3, <1>4, <2>1, <3>1, <3>2 DEF ReadsLieBetween
  <2>2. CASE pc = "query"
    BY <1>2, <1>3, <1>4, <2>2 DEF ReadsLieBetween
  <2> QED
    BY <1>6, <2>1, <2>2
<1>9. FilteredRightly(service', between')
  BY <1>2, <1>6 DEF FilteredRightly
<1> QED
  BY <1>2, <1>3, <1>7, <1>8, <1>9 DEF ReviewsInv, ReviewsParts, ReadVersion

LEMMA QueryOK ==
    ASSUME ReviewsInv, Query
    PROVE  ReviewsInv'
<1> DEFINE enabled == Enabled(db)
<1>1. service' = [service EXCEPT !.pc = "resolve", !.rows = enabled]
  BY DEF Query
<1>2. enabled \subseteq RuleOf(db)
  BY DEF ReviewsInv, ReviewsParts, ReviewsDbOK, Enabled
<1>3. ReviewedBy(db, enabled) \subseteq between.some
  BY ReviewedByTheRules DEF ReviewsInv, ReviewsParts, ReadsLieBetween, Query, At
<1>4. \A a \in between.all : a[1] \in enabled
  BY EffectiveMembers DEF ReviewsInv, ReviewsParts, ReadsLieBetween, Query, At
<1>5. between.all \subseteq Effective(db) /\ service.version \in 0..db.version
  BY DEF ReviewsInv, ReviewsParts, ReadsLieBetween, Query, At
<1>6. enabled = Enabled(db)
  OBVIOUS
<1> HIDE DEF enabled
<1>7. /\ ServiceShape(service') /\ service'.pc = "resolve" /\ service'.version = service.version
      /\ service'.rows = enabled
      /\ service'.cached = service.cached /\ service'.cache = service.cache
  BY <1>1 DEF ReviewsInv, ReviewsParts, ServiceShape
<1>8. ReadsLieBetween(db, service', between)
  BY <1>2, <1>3, <1>4, <1>5, <1>6, <1>7 DEF ReadsLieBetween
<1>9. CacheIsOfItsVersion(db, service') /\ FilteredRightly(service', between)
  BY <1>7 DEF ReviewsInv, ReviewsParts, CacheIsOfItsVersion, FilteredRightly
<1> QED
  BY <1>7, <1>8, <1>9 DEF ReviewsInv, ReviewsParts, Query

LEMMA ResolveOK ==
    ASSUME ReviewsInv, Resolve
    PROVE  ReviewsInv'
<1> DEFINE scopes == Scopes(db, service.rows)
<1>1. service' = [service EXCEPT !.pc = "filter", !.rows = {}, !.cache = scopes,
                                 !.cached = service.version]
  BY DEF Resolve, Cached
<1>2. /\ service.version \in 0..db.version /\ between.all \subseteq Effective(db)
      /\ service.rows \subseteq RuleOf(db)
      /\ ReviewedBy(db, service.rows) \subseteq between.some
      /\ \A a \in between.all : a[1] \in service.rows
      /\ service.version = db.version => service.rows = Enabled(db)
  BY DEF ReviewsInv, ReviewsParts, ReadsLieBetween, Resolve, At
<1>3. scopes \subseteq ReviewedBy(db, service.rows)
  BY ScopesAreReviewed
<1>4. \A a \in between.all : a[2] \in scopes
  <2> SUFFICES ASSUME NEW a \in between.all PROVE a[2] \in scopes
    OBVIOUS
  <2>1. a[1] \in service.rows /\ a[2] \in Scopes(db, {a[1]})
    BY <1>2, EffectiveMembers
  <2>2. PICK r \in {a[1]} : \E k \in ScopedKinds(db, r.finding) :
              a[2] = Scope(db.findings[r.finding].subject, k, r.until)
    BY <2>1, ScopesMembers
  <2> QED
    BY <2>1, <2>2, ScopesMembers
<1>5. service.version = db.version => /\ scopes \subseteq Reviewed(db)
                                      /\ Scopes(db, Enabled(db)) \subseteq scopes
  BY <1>2, <1>3, ReviewedByTheRules
<1> HIDE DEF scopes
<1>6. /\ ServiceShape(service') /\ service'.pc = "filter" /\ service'.version = service.version
      /\ service'.cached = service.version /\ service'.cache = scopes
  BY <1>1 DEF ReviewsInv, ReviewsParts, ServiceShape
<1>7. CacheIsOfItsVersion(db, service')
  BY <1>2, <1>5, <1>6 DEF CacheIsOfItsVersion
<1>8. ReadsLieBetween(db, service', between)
  BY <1>2, <1>3, <1>4, <1>6 DEF ReadsLieBetween
<1>9. FilteredRightly(service', between)
  BY <1>6 DEF FilteredRightly
<1> QED
  BY <1>6, <1>7, <1>8, <1>9 DEF ReviewsInv, ReviewsParts, Resolve

LEMMA FilterOK ==
    ASSUME ReviewsInv, Filter
    PROVE  ReviewsInv'
<1> DEFINE Hidden(events) == {e \in events : /\ ~Bypasses(e)
                                             /\ \E s \in service.cache : HidesAt(s, e, service.started)}
<1>1. PICK events \in UNION {kSubset(n, Event) : n \in 0..MaxPerCycle} :
        service' = [service EXCEPT !.pc = "filtered", !.events = events, !.hidden = Hidden(events)]
  BY DEF Filter
<1>2. events \subseteq Event
  BY DEF kSubset
<1>3. /\ service.cache \subseteq between.some /\ service.version \in 0..db.version
      /\ \A a \in between.all : a[2] \in service.cache
  BY DEF ReviewsInv, ReviewsParts, ReadsLieBetween, Filter, At
<1> DEFINE hidden == Hidden(events)
<1>4. \A e \in hidden : ~Bypasses(e) /\ \E x \in between.some : HidesAt(x, e, service.started)
  BY <1>3
<1>5. \A e \in events \ hidden :
         Bypasses(e) \/ \A a \in between.all : ~HidesAt(a[2], e, service.started)
  BY <1>3
<1>6. service' = [service EXCEPT !.pc = "filtered", !.events = events, !.hidden = hidden]
  BY <1>1
<1> HIDE DEF hidden
<1>7. /\ ServiceShape(service') /\ service'.pc = "filtered" /\ service'.version = service.version
      /\ service'.events = events /\ service'.hidden = hidden /\ service'.started = service.started
      /\ service'.cached = service.cached /\ service'.cache = service.cache
  BY <1>6 DEF ReviewsInv, ReviewsParts, ServiceShape
<1>8. FilteredRightly(service', between)
  BY <1>2, <1>4, <1>5, <1>7 DEF FilteredRightly
<1>9. CacheIsOfItsVersion(db, service') /\ ReadsLieBetween(db, service', between)
  BY <1>3, <1>7 DEF ReviewsInv, ReviewsParts, CacheIsOfItsVersion, ReadsLieBetween
<1> QED
  BY <1>7, <1>8, <1>9 DEF ReviewsInv, ReviewsParts, Filter

(* The service's own transaction leaves the version, and its cache with it. *)
LEMMA PersistOK ==
    ASSUME ReviewsInv, Persist
    PROVE  ReviewsInv'
<1>1. service.events \ service.hidden \subseteq Event
  BY DEF Persist, At, ReviewsInv, ReviewsParts, FilteredRightly
<1>2. /\ ReviewsDbOK(db') /\ Grows(db, db')
      /\ db'.rules = db.rules /\ db'.version = db.version
  BY <1>1, StoredGrows DEF Persist, ReviewsInv, ReviewsParts
<1>3. Enabled(db') = Enabled(db) /\ Enabled(db) \subseteq RuleOf(db)
  BY <1>2 DEF Enabled, ReviewsInv, ReviewsParts, ReviewsDbOK
<1>4. Reviewed(db') = Reviewed(db)
  BY <1>2, <1>3, ReviewedByTheRules, ScopesGrow DEF ReviewsInv, ReviewsParts
<1>5. Scopes(db', Enabled(db')) \subseteq Scopes(db, Enabled(db))
  BY <1>2, <1>3, ScopesGrow DEF ReviewsInv, ReviewsParts
<1>6. CacheIsOfItsVersion(db', service)
  BY <1>2, <1>4, <1>5 DEF ReviewsInv, ReviewsParts, CacheIsOfItsVersion
<1>7. /\ ServiceShape(service') /\ service'.pc = "idle" /\ service'.version = 0
      /\ service'.cached = service.cached /\ service'.cache = service.cache
  BY DEF Persist, Ended, ReviewsInv, ReviewsParts, ServiceShape
<1>8. CacheIsOfItsVersion(db', service')
  BY <1>6, <1>7 DEF CacheIsOfItsVersion
<1>9. ReadsLieBetween(db', service', between') /\ FilteredRightly(service', between')
  BY <1>2, <1>7 DEF ReadsLieBetween, FilteredRightly, ReviewsDbOK
<1>10. between' = [some |-> between'.some, all |-> between'.all]
  BY DEF Persist, Forgotten
<1> QED
  BY <1>2, <1>7, <1>8, <1>9, <1>10 DEF ReviewsInv, ReviewsParts, Persist

LEMMA CycleFailsOK ==
    ASSUME ReviewsInv, CycleFails
    PROVE  ReviewsInv'
<1>1. /\ ServiceShape(service') /\ service'.pc = "idle" /\ service'.version = 0
      /\ service'.cached = service.cached /\ service'.cache = service.cache
  BY DEF CycleFails, Ended, ReviewsInv, ReviewsParts, ServiceShape
<1>2. between' = [some |-> between'.some, all |-> between'.all]
  BY DEF CycleFails, Forgotten
<1>3. 0 \in 0..db.version
  BY DEF ReviewsInv, ReviewsParts, ReviewsDbOK
<1>4. ReviewsParts(db, service', between')
  BY <1>1, <1>2, <1>3, NothingInUse DEF ReviewsInv
<1> QED
  BY <1>4 DEF ReviewsInv, CycleFails

LEMMA RestartOK ==
    ASSUME ReviewsInv, Restart
    PROVE  ReviewsInv'
<1>1. /\ ServiceShape(service') /\ service'.pc = "idle" /\ service'.version = 0
      /\ service'.cached = NotCached
  BY DEF Restart, Ended, ReviewsInv, ReviewsParts, ServiceShape
<1>2. between' = [some |-> between'.some, all |-> between'.all]
  BY DEF Restart, Forgotten
<1>3. 0 \in 0..db.version
  BY DEF ReviewsInv, ReviewsParts, ReviewsDbOK
<1>4. ReviewsParts(db, service', between')
  BY <1>1, <1>2, <1>3, NothingInUse DEF ReviewsInv
<1> QED
  BY <1>4 DEF ReviewsInv, Restart

(* Another process moves the version: no cache is of it, and the service   *)
(* keeps using what it has read.                                           *)
LEMMA AnotherCommits ==
    ASSUME ReviewsInv, ReviewsDbOK(db'), Grows(db, db'), db'.version = db.version + 1,
           Observed(db'), UNCHANGED <<service, now>>
    PROVE  ReviewsInv'
<1> DEFINE some == between.some \union Reviewed(db')
           all == between.all \intersect Effective(db')
<1>1. db.version \in 0..MaxCommits /\ db.version + 1 \in 0..MaxCommits /\ MaxCommits \in Nat
  BY ReviewsAssumption DEF ReviewsInv, ReviewsParts, ReviewsDbOK
<1>2. CacheIsOfItsVersion(db', service)
  BY <1>1 DEF ReviewsInv, ReviewsParts, CacheIsOfItsVersion, NotCached
<1>3. service.version \in 0..db'.version /\ service.version # db'.version
  BY <1>1 DEF ReviewsInv, ReviewsParts, ReadsLieBetween
<1>4. CASE Filtering
  <2>1. between' = [some |-> some, all |-> all]
    BY <1>4 DEF Observed
  <2>2. /\ Reviewed(db') \subseteq some /\ between.some \subseteq some
        /\ all \subseteq between.all /\ all \subseteq Effective(db')
    OBVIOUS
  <2> HIDE DEF some, all
  <2>3. between'.some = some /\ between'.all = all
    BY <2>1
  <2>4. service.pc = "resolve" => /\ service.rows \subseteq RuleOf(db')
                                  /\ ReviewedBy(db', service.rows) \subseteq between.some
    BY ScopesGrow DEF ReviewsInv, ReviewsParts, ReadsLieBetween
  <2>5. service.pc = "resolve" => \A a \in all : a[1] \in service.rows
    BY <2>2 DEF ReviewsInv, ReviewsParts, ReadsLieBetween
  <2>6. service.pc = "filter" => service.cache \subseteq some /\ \A a \in all : a[2] \in service.cache
    BY <2>2 DEF ReviewsInv, ReviewsParts, ReadsLieBetween
  <2>7. ReadsLieBetween(db', service, between')
    BY <1>3, <2>2, <2>3, <2>4, <2>5, <2>6 DEF ReadsLieBetween
  <2>8. FilteredRightly(service, between')
    BY <1>4 DEF Filtering, FilteredRightly
  <2> QED
    BY <1>2, <2>1, <2>3, <2>7, <2>8 DEF ReviewsInv, ReviewsParts
<1>5. CASE ~Filtering
  <2>1. between' = between
    BY <1>5 DEF Observed
  <2>2. ReadsLieBetween(db', service, between)
    BY <1>3, <1>5 DEF ReadsLieBetween, Filtering
  <2> QED
    BY <1>2, <2>1, <2>2 DEF ReviewsInv, ReviewsParts
<1> QED
  BY <1>4, <1>5

LEMMA ReviewOK ==
    ASSUME ReviewsInv, NEW id \in 1..MaxFindings, Review(id)
    PROVE  ReviewsInv'
<1>1. PICK rules \in {ReviewedAs(db.rules, id, until) : until \in (now + 1)..Forever}
                     \union {Reopened(db.rules, id)} :
        db' = [db EXCEPT !.rules = rules, !.version = @ + 1]
  BY DEF Review
<1>2. /\ ReviewsDbOK(db) /\ id \in Live(db) /\ db.version < MaxCommits /\ now \in Nat
      /\ MaxCommits \in Nat /\ db.version + 1 \in 0..MaxCommits /\ Len(db.findings) \in Nat
  BY ReviewsAssumption DEF Review, ReviewsInv, ReviewsParts, ReviewsDbOK
<1>3. db' = [findings |-> db.findings, noRow |-> db.noRow, noEvidence |-> db.noEvidence,
             rules |-> rules, version |-> db.version + 1]
  BY <1>1, <1>2 DEF ReviewsDbOK
<1>4. id \in 1..Len(db.findings)
  BY <1>2 DEF Live, ReviewsDbOK
<1>5. rules \subseteq RuleOf(db)
  <2>1. CASE rules = Reopened(db.rules, id)
    <3>1. \A r \in RuleOf(db) : [r EXCEPT !.enabled = FALSE] \in RuleOf(db)
      BY DEF RuleOf
    <3> QED
      BY <1>2, <2>1, <3>1 DEF Reopened, ReviewsDbOK
  <2>2. ASSUME NEW until \in (now + 1)..Forever, rules = ReviewedAs(db.rules, id, until)
        PROVE  rules \subseteq RuleOf(db)
    <3>1. [finding |-> id, until |-> until, enabled |-> TRUE] \in RuleOf(db)
      BY <1>4 DEF RuleOf
    <3> QED
      BY <1>2, <2>2, <3>1 DEF ReviewedAs, ReviewsDbOK
  <2> QED
    BY <1>1, <2>1, <2>2
<1>6. rules \subseteq RuleOf(db')
  BY <1>3, <1>5 DEF RuleOf
<1>7. ReviewsDbOK(db')
  BY <1>2, <1>3, <1>6 DEF ReviewsDbOK
<1>8. Grows(db, db')
  BY <1>2, <1>3 DEF Grows, ReviewsDbOK
<1> QED
  BY <1>3, <1>7, <1>8, AnotherCommits DEF Review

LEMMA ScanOK ==
    ASSUME ReviewsInv, Scan
    PROVE  ReviewsInv'
<1>1. PICK events \in {{e} : e \in Event} : Stored(events \ HiddenFromScan(events), FALSE)
  BY DEF Scan
<1>2. events \ HiddenFromScan(events) \subseteq Event
  OBVIOUS
<1>3. ReviewsDbOK(db') /\ Grows(db, db') /\ db'.version = db.version + 1
  BY <1>1, <1>2, StoredGrows DEF Scan, ReviewsInv, ReviewsParts
<1> QED
  BY <1>3, AnotherCommits DEF Scan

LEMMA ReviewsStepOK ==
    ASSUME ReviewsInv, [ReviewsNext]_reviewVars
    PROVE  ReviewsInv'
<1>1. CASE ClockTicks
  BY <1>1 DEF ReviewsInv, ClockTicks
<1>2. CASE Begin
  BY <1>2, BeginOK
<1>3. CASE ReadVersion
  BY <1>3, ReadVersionOK
<1>4. CASE Query
  BY <1>4, QueryOK
<1>5. CASE Resolve
  BY <1>5, ResolveOK
<1>6. CASE Filter
  BY <1>6, FilterOK
<1>7. CASE Persist
  BY <1>7, PersistOK
<1>8. CASE CycleFails
  BY <1>8, CycleFailsOK
<1>9. CASE Restart
  BY <1>9, RestartOK
<1>10. CASE \E id \in 1..MaxFindings : Review(id)
  BY <1>10, ReviewOK
<1>11. CASE Scan
  BY <1>11, ScanOK
<1>12. CASE UNCHANGED reviewVars
  BY <1>12 DEF ReviewsInv, reviewVars
<1> QED
  BY <1>1, <1>2, <1>3, <1>4, <1>5, <1>6, <1>7, <1>8, <1>9, <1>10, <1>11, <1>12 DEF ReviewsNext

(* What the service hides a review covered at some time since it read the  *)
(* version, and what it keeps no rule could have hidden all that time,     *)
(* whatever other processes commit between any two of its reads.           *)
THEOREM OnlyReviewedEventsAreHidden ==
    ReviewsSpec => []ReviewsAreRespected
<1>1. ReviewsInit => ReviewsInv
  BY ReviewsInitOK
<1>2. ReviewsInv /\ [ReviewsNext]_reviewVars => ReviewsInv'
  BY ReviewsStepOK
<1>3. ReviewsInv => ReviewsAreRespected
  BY DEF ReviewsInv, ReviewsParts, FilteredRightly, ReviewsAreRespected, HiddenWasReviewed,
     KeptWasNotReviewed, At
<1> QED
  BY <1>1, <1>2, <1>3, PTL DEF ReviewsSpec

-----------------------------------------------------------------------------
(* Cadence *)

USE DEF Lane, Optional

(* Between cycles no deferral outlives the wait, and the count covers the  *)
(* cycles the lane was passed over in.                                     *)
Ready == \A l \in Optional :
    loop.pc \in {"idle", "running"} =>
        /\ skipped[l] <= consecutive[l]
        /\ loop.pc = "idle" => deferred[l] <= loop.wait

(* Within a cycle, before it decides, a pending deferral is this cycle's:  *)
(* counted, and not of a lane with an active incident.                     *)
CountedDeferrals == \A l \in Optional :
    loop.pc \in {"governed", "scoped"} /\ deferred[l] > 0 =>
        /\ skipped[l] < consecutive[l]
        /\ l \notin loop.protected

(* A lane that was passed over is still due, until it runs. *)
StillDue == \A l \in Optional :
    /\ skipped[l] > 0 => dueIn[l] = 0
    /\ loop.pc = "running" /\ l \in loop.lanes => skipped[l] = 0

OnlyOptionalDeferred == \A l \in Lane \ Optional : deferred[l] = 0

Inv ==
    /\ TypeOK
    /\ OnlyOptionalDeferred
    /\ Ready
    /\ CountedDeferrals
    /\ StillDue
    /\ StarvationBounded

-----------------------------------------------------------------------------
(* The interval and the phase offset of every lane are natural numbers. *)
LEMMA SchedulesAreNat ==
    ASSUME NEW l \in Lane
    PROVE  Interval[l] \in Nat /\ PhaseOffset[l] \in Nat
<1>1. CASE l = "fast"        BY <1>1, CadenceAssumption DEF Interval, PhaseOffset
<1>2. CASE l = "standard"    BY <1>2, CadenceAssumption DEF Interval, PhaseOffset
<1>3. CASE l = "deep"        BY <1>3, CadenceAssumption DEF Interval, PhaseOffset
<1>4. CASE l = "maintenance" BY <1>4, CadenceAssumption DEF Interval, PhaseOffset
<1> QED BY <1>1, <1>2, <1>3, <1>4

(* Time passing takes a second off, or leaves nothing. *)
LEMMA LaterIsLess ==
    ASSUME NEW s \in Nat
    PROVE  /\ Later(s) \in Nat
           /\ Later(s) <= s
           /\ s = 0 => Later(s) = 0
BY DEF Later

(* Time passing keeps the order of two times. *)
LEMMA LaterKeepsOrder ==
    ASSUME NEW s \in Nat, NEW t \in Nat, s <= t
    PROVE  Later(s) <= Later(t)
BY DEF Later

LEMMA InitInv == Init => Inv
<1> SUFFICES ASSUME Init PROVE Inv
    OBVIOUS
<1>1. dueIn \in [Lane -> Nat] /\ done \in SUBSET Lane
  <2>1. CASE ColdStart BY <2>1 DEF ColdStart
  <2>2. CASE WarmStart
    <3>1. PICK urgent \in SUBSET Lane :
             dueIn = [l \in Lane |-> IF l \in urgent THEN 0 ELSE PhaseOffset[l]]
          BY <2>2 DEF WarmStart
    <3> QED BY <2>2, <3>1, SchedulesAreNat DEF WarmStart
  <2> QED BY <2>1, <2>2 DEF Init
<1>2. TypeOK
    BY <1>1, CadenceAssumption DEF Init, TypeOK, NoWork
<1> QED
    BY <1>2, CadenceAssumption
    DEF Init, Inv, NoWork, OnlyOptionalDeferred, Ready, CountedDeferrals, StillDue, StarvationBounded

LEMMA GovernInv ==
    ASSUME Inv, NEW verdict \in Verdict, NEW protected \in SUBSET Lane,
           Govern(verdict, protected)
    PROVE  Inv'
<1> DEFINE postponed == IF verdict = "ATTENTION" THEN Postponed(protected) ELSE {}
           cleared   == IF verdict = "PASS" THEN Optional
                        ELSE IF verdict = "ATTENTION" THEN (Due \cap Optional) \ postponed
                        ELSE {}
<1>1. /\ loop.pc = "idle" /\ loop.wait = 0
      /\ deferred' = Deferring(postponed)
      /\ consecutive' = [l \in Optional |->
            IF l \in postponed THEN consecutive[l] + 1
            ELSE IF l \in cleared THEN 0
            ELSE consecutive[l]]
      /\ loop' = [pc |-> "governed", wait |-> 0, protected |-> protected,
                 scope |-> {}, lanes |-> {}]
      /\ UNCHANGED <<dueIn, done, forced, skipped>>
    BY DEF Govern
<1>2. \A l \in postponed : l \in Optional /\ l \notin protected /\ consecutive[l] < MaxDeferrals
    BY CadenceAssumption
    DEF Postponed, Deferrable, Exhausted, Inv, TypeOK
<1>3. \A l \in Lane : deferred[l] = 0
  <2>1. \A l \in Optional : deferred[l] <= 0 /\ deferred[l] \in Nat
      BY <1>1, CadenceAssumption DEF Inv, Ready, TypeOK
  <2> QED BY <2>1 DEF Inv, OnlyOptionalDeferred
<1>4. \A l \in Lane : deferred'[l] \in {0, DeferSeconds} /\ (deferred'[l] # 0 => l \in postponed)
    BY <1>1, <1>3, CadenceAssumption DEF Deferring
<1> HIDE DEF postponed, cleared
<1>5. TypeOK'
  <2>1. deferred' \in [Lane -> 0..DeferSeconds]
    <3>1. deferred' = [l \in Lane |-> deferred'[l]]
        BY <1>1 DEF Deferring
    <3> QED BY <3>1, <1>4, CadenceAssumption
  <2>2. consecutive' \in [Optional -> 0..MaxDeferrals]
      BY <1>1, <1>2, CadenceAssumption DEF Inv, TypeOK
  <2> QED BY <2>1, <2>2, <1>1, CadenceAssumption DEF Inv, TypeOK
<1>6. OnlyOptionalDeferred'
    BY <1>2, <1>4 DEF OnlyOptionalDeferred
<1>7. Ready'
    BY <1>1 DEF Ready
<1>8. CountedDeferrals'
  <2> SUFFICES ASSUME NEW l \in Optional, deferred'[l] > 0
               PROVE  skipped'[l] < consecutive'[l] /\ l \notin loop'.protected
      BY DEF CountedDeferrals
  <2>1. l \in postponed
      BY <1>4, CadenceAssumption
  <2>2. consecutive'[l] = consecutive[l] + 1 /\ loop'.protected = protected
      BY <1>1, <2>1
  <2>3. skipped[l] <= consecutive[l]
      BY <1>1 DEF Inv, Ready
  <2> QED BY <1>1, <1>2, <2>1, <2>2, <2>3 DEF Inv, TypeOK
<1>9. StillDue' /\ StarvationBounded'
    BY <1>1 DEF Inv, StillDue, StarvationBounded
<1> QED BY <1>5, <1>6, <1>7, <1>8, <1>9 DEF Inv

LEMMA SetScopeInv ==
    ASSUME Inv, SetScope
    PROVE  Inv'
<1>1. /\ loop.pc = "governed"
      /\ loop' = [pc |-> "scoped", wait |-> loop.wait, protected |-> loop.protected,
                 scope |-> Due, lanes |-> loop.lanes]
      /\ UNCHANGED <<dueIn, deferred, done, forced, consecutive, skipped>>
    BY DEF SetScope, Inv, TypeOK
<1>2. TypeOK'
    BY <1>1 DEF Inv, TypeOK, Due
<1> QED
    BY <1>1, <1>2
    DEF Inv, OnlyOptionalDeferred, Ready, CountedDeferrals, StillDue, StarvationBounded

LEMMA DecideInv ==
    ASSUME Inv, Decide
    PROVE  Inv'
<1>1. /\ loop.pc = "scoped"
      /\ loop' = [pc |-> "running", wait |-> loop.wait, protected |-> loop.protected,
                 scope |-> loop.scope, lanes |-> Due]
      /\ skipped' = [l \in Optional |->
            IF l \in Due THEN 0 ELSE IF dueIn[l] = 0 THEN skipped[l] + 1 ELSE skipped[l]]
      /\ UNCHANGED <<dueIn, deferred, done, forced, consecutive>>
    BY DEF Decide, Inv, TypeOK
<1>2. TypeOK'
    BY <1>1 DEF Inv, TypeOK, Due
<1>3. \A l \in Optional : skipped'[l] <= consecutive[l]
  <2> SUFFICES ASSUME NEW l \in Optional
               PROVE  skipped'[l] <= consecutive[l]
      OBVIOUS
  <2>0. consecutive[l] \in Nat /\ skipped[l] \in Nat /\ deferred[l] \in Nat
      BY CadenceAssumption DEF Inv, TypeOK
  <2>1. CASE l \in Due
      BY <1>1, <2>0, <2>1
  <2>2. CASE l \notin Due /\ dueIn[l] = 0
    <3>1. deferred[l] > 0
        BY <2>0, <2>2 DEF Due
    <3>2. skipped[l] < consecutive[l]
        BY <1>1, <3>1 DEF Inv, CountedDeferrals
    <3> QED BY <1>1, <2>0, <2>2, <3>2
  <2>3. CASE l \notin Due /\ dueIn[l] # 0
    <3>1. skipped[l] = 0
        BY <2>0, <2>3 DEF Inv, StillDue
    <3> QED BY <1>1, <2>0, <2>3, <3>1
  <2> QED BY <2>1, <2>2, <2>3
<1>4. Ready'
    BY <1>1, <1>3 DEF Ready
<1>5. StarvationBounded'
    BY <1>1, <1>2, <1>3, CadenceAssumption DEF StarvationBounded, TypeOK
<1>6. StillDue'
    BY <1>1 DEF Inv, StillDue, TypeOK
<1>7. OnlyOptionalDeferred' /\ CountedDeferrals'
    BY <1>1 DEF Inv, OnlyOptionalDeferred, CountedDeferrals
<1> QED BY <1>2, <1>4, <1>5, <1>6, <1>7 DEF Inv

LEMMA CompleteInv ==
    ASSUME Inv, NEW incident \in BOOLEAN, Complete(incident)
    PROVE  Inv'
<1>1. /\ loop.pc = "running"
      /\ loop' = [pc |-> "idle", wait |-> FastSeconds, protected |-> loop.protected,
                 scope |-> loop.scope, lanes |-> loop.lanes]
      /\ dueIn' = Rescheduled(loop.lanes)
      /\ deferred' = [l \in Lane |-> IF l \in loop.lanes THEN 0 ELSE deferred[l]]
      /\ done' = done \cup loop.lanes
      /\ consecutive' = [l \in Optional |-> IF l \in loop.lanes THEN 0 ELSE consecutive[l]]
      /\ skipped' = skipped
    BY DEF Complete, Inv, TypeOK
<1>2. forced' \in SUBSET Lane
    BY DEF Complete, Inv, TypeOK
<1>3. dueIn' \in [Lane -> Nat]
    BY <1>1, SchedulesAreNat DEF Rescheduled, Inv, TypeOK
<1>4. TypeOK'
  <2>1. deferred' \in [Lane -> 0..DeferSeconds]
      BY <1>1, CadenceAssumption DEF Inv, TypeOK
  <2>2. consecutive' \in [Optional -> 0..MaxDeferrals]
      BY <1>1, CadenceAssumption DEF Inv, TypeOK
  <2>3. done' \in SUBSET Lane
      BY <1>1 DEF Inv, TypeOK
  <2>4. /\ loop' \in [pc : {"idle", "governed", "scoped", "running"}, wait : 0..FastSeconds,
                     protected : SUBSET Lane, scope : SUBSET Lane, lanes : SUBSET Lane]
        /\ skipped' \in [Optional -> Nat]
      BY <1>1, CadenceAssumption DEF Inv, TypeOK
  <2> QED BY <1>2, <1>3, <2>1, <2>2, <2>3, <2>4 DEF TypeOK
<1>5. Ready'
  <2> SUFFICES ASSUME NEW l \in Optional
               PROVE  skipped'[l] <= consecutive'[l] /\ deferred'[l] <= loop'.wait
      BY DEF Ready
  <2>1. skipped[l] <= consecutive[l] /\ (l \in loop.lanes => skipped[l] = 0)
      BY <1>1 DEF Inv, Ready, StillDue
  <2>2. deferred'[l] <= FastSeconds
      BY <1>1, CadenceAssumption DEF Inv, TypeOK
  <2> QED BY <1>1, <2>1, <2>2
<1>6. StillDue'
  <2> SUFFICES ASSUME NEW l \in Optional, skipped[l] > 0
               PROVE  dueIn'[l] = 0
      BY <1>1 DEF StillDue
  <2>1. l \notin loop.lanes /\ dueIn[l] = 0
      BY <1>1 DEF Inv, StillDue
  <2> QED BY <1>1, <2>1 DEF Rescheduled
<1>7. OnlyOptionalDeferred' /\ CountedDeferrals' /\ StarvationBounded'
    BY <1>1 DEF Inv, OnlyOptionalDeferred, CountedDeferrals, StarvationBounded
<1> QED BY <1>4, <1>5, <1>6, <1>7 DEF Inv

LEMMA FailInv ==
    ASSUME Inv, Fail
    PROVE  Inv'
<1>1. /\ loop.pc = "running"
      /\ loop' = [pc |-> "idle", wait |-> FastSeconds, protected |-> loop.protected,
                 scope |-> loop.scope, lanes |-> {}]
      /\ UNCHANGED <<dueIn, deferred, done, forced, consecutive, skipped>>
    BY DEF Fail, Inv, TypeOK
<1>2. TypeOK'
    BY <1>1, CadenceAssumption DEF Inv, TypeOK
<1>3. Ready'
    BY <1>1, CadenceAssumption DEF Inv, Ready, TypeOK
<1> QED
    BY <1>1, <1>2, <1>3 DEF Inv, OnlyOptionalDeferred, CountedDeferrals, StillDue, StarvationBounded

LEMMA TickInv ==
    ASSUME Inv, Tick
    PROVE  Inv'
<1>1. /\ dueIn' = [l \in Lane |-> Later(dueIn[l])]
      /\ deferred' = [l \in Lane |-> Later(deferred[l])]
      /\ loop' = [pc |-> loop.pc, wait |-> Later(loop.wait), protected |-> loop.protected,
                 scope |-> loop.scope, lanes |-> loop.lanes]
      /\ UNCHANGED <<done, forced, consecutive, skipped>>
    BY DEF Tick, Inv, TypeOK
<1>2. \A l \in Lane : /\ deferred[l] \in Nat /\ dueIn[l] \in Nat
                      /\ deferred'[l] \in Nat /\ deferred'[l] <= deferred[l]
                      /\ dueIn'[l] \in Nat /\ dueIn'[l] <= dueIn[l]
    BY <1>1, LaterIsLess DEF Inv, TypeOK
<1>3. loop.wait \in Nat /\ Later(loop.wait) \in 0..FastSeconds
    BY LaterIsLess, CadenceAssumption DEF Inv, TypeOK
<1>4. TypeOK'
  <2>1. deferred' \in [Lane -> 0..DeferSeconds]
      BY <1>1, <1>2, CadenceAssumption DEF Inv, TypeOK
  <2>2. dueIn' \in [Lane -> Nat]
      BY <1>1, <1>2
  <2> QED BY <1>1, <1>3, <2>1, <2>2 DEF Inv, TypeOK
<1>5. Ready'
  <2> SUFFICES ASSUME NEW l \in Optional, loop.pc \in {"idle", "running"}
               PROVE  /\ skipped[l] <= consecutive[l]
                      /\ loop.pc = "idle" => deferred'[l] <= Later(loop.wait)
      BY <1>1 DEF Ready
  <2>1. loop.pc = "idle" => deferred[l] <= loop.wait
      BY DEF Inv, Ready
  <2>2. loop.pc = "idle" => Later(deferred[l]) <= Later(loop.wait)
      BY <1>2, <1>3, <2>1, LaterKeepsOrder
  <2> QED BY <1>1, <2>2 DEF Inv, Ready
<1>6. CountedDeferrals'
    BY <1>1, <1>2 DEF Inv, CountedDeferrals
<1>7. StillDue' /\ OnlyOptionalDeferred'
    BY <1>1, <1>2 DEF Inv, StillDue, OnlyOptionalDeferred
<1>8. StarvationBounded'
    BY <1>1 DEF Inv, StarvationBounded
<1> QED BY <1>4, <1>5, <1>6, <1>7, <1>8 DEF Inv

(* Inv is inductive: every step of the specification preserves it. *)
LEMMA StepInv == Inv /\ [Next]_vars => Inv'
<1> SUFFICES ASSUME Inv, [Next]_vars PROVE Inv'
    OBVIOUS
<1>1. ASSUME NEW verdict \in Verdict, NEW protected \in SUBSET Lane, Govern(verdict, protected)
      PROVE  Inv'
    BY <1>1, GovernInv
<1>2. CASE SetScope BY <1>2, SetScopeInv
<1>3. CASE Decide BY <1>3, DecideInv
<1>4. ASSUME NEW incident \in BOOLEAN, Complete(incident)
      PROVE  Inv'
    BY <1>4, CompleteInv
<1>5. CASE Fail BY <1>5, FailInv
<1>6. CASE Tick BY <1>6, TickInv
<1>7. CASE UNCHANGED vars
    BY <1>7 DEF vars, Inv, TypeOK, OnlyOptionalDeferred, Ready, CountedDeferrals, StillDue,
                StarvationBounded
<1> QED BY <1>1, <1>2, <1>3, <1>4, <1>5, <1>6, <1>7 DEF Next, Cycle

LEMMA Invariance == Spec => []Inv
<1>1. Init => Inv BY InitInv
<1>2. Inv /\ [Next]_vars => Inv' BY StepInv
<1> QED BY <1>1, <1>2, PTL DEF Spec

-----------------------------------------------------------------------------
(* Every reachable state of the scheduler and the governor is well typed;  *)
(* the governor's count never passes its bound and no deferral its length. *)
THEOREM CadenceTypes == Spec => []TypeOK
<1>1. Inv => TypeOK BY DEF Inv
<1> QED BY <1>1, Invariance, PTL

(* "Starvation is bounded" (core_service.py), for every interval, load and *)
(* pattern of failed cycles.                                               *)
THEOREM StarvationIsBounded == Spec => []StarvationBounded
<1>1. Inv => StarvationBounded BY DEF Inv
<1> QED BY <1>1, Invariance, PTL

(* Incident-relevant, requested, FAST and STANDARD work is never left out  *)
(* of a cycle that finds it due.                                           *)
THEOREM IncidentWorkRuns == Spec => IncidentWorkIsNotDeferred
<1> DEFINE A == loop.pc = "scoped" /\ loop'.pc = "running" =>
                  /\ forced \subseteq loop'.lanes
                  /\ \A l \in Lane : dueIn[l] = 0 /\ (l \notin Optional \/ l \in loop.protected)
                       => l \in loop'.lanes
<1>1. Inv /\ [Next]_vars => [A]_vars
  <2> SUFFICES ASSUME Inv, Next, loop.pc = "scoped", loop'.pc = "running"
               PROVE  /\ forced \subseteq loop'.lanes
                      /\ \A l \in Lane : dueIn[l] = 0 /\ (l \notin Optional \/ l \in loop.protected)
                           => l \in loop'.lanes
      OBVIOUS
  <2>1. Decide
      BY DEF Next, Cycle, Govern, SetScope, Complete, Fail, Tick, Inv, TypeOK
  <2>2. loop'.lanes = Due
      BY <2>1 DEF Decide, Inv, TypeOK
  <2>3. forced \subseteq Due
      BY DEF Due, Inv, TypeOK
  <2>4. \A l \in Optional : l \in loop.protected => deferred[l] = 0
      BY CadenceAssumption DEF Inv, CountedDeferrals, TypeOK
  <2>5. \A l \in Lane : (l \notin Optional \/ l \in loop.protected) => deferred[l] = 0
      BY <2>4 DEF Inv, OnlyOptionalDeferred
  <2> QED BY <2>2, <2>3, <2>5 DEF Due
<1>2. Spec => []Inv /\ [][Next]_vars
    BY Invariance, PTL DEF Spec
<1> QED BY <1>1, <1>2, PTL DEF IncidentWorkIsNotDeferred
=================================================================================
