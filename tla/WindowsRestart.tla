----------------------------- MODULE WindowsRestart -----------------------------
(***************************************************************************)
(* The gate before a soak on Windows: the pending file operations and the  *)
(* restart flags of the host, the inspection that classifies them and      *)
(* remembers its last report (windows_restart.py,                          *)
(* scripts/inspect_windows_restart_state.py, scripts/start_beta_soak.ps1). *)
(*                                                                         *)
(* Between two inspections installers queue operations, files come and go, *)
(* the host boots and executes some of what is queued.                     *)
(***************************************************************************)
EXTENDS Integers, FiniteSets

CONSTANTS
    Operation,      \* entries of PendingFileRenameOperations
    Malformed,      \* those without a source
    Unmapped,       \* those whose source is no local path
    Protected,      \* those with a source or destination below a protected root
    MaxEvents       \* bound on what happens on the host

ASSUME RestartAssumption ==
    /\ IsFiniteSet(Operation)
    /\ Malformed \union Unmapped \union Protected \subseteq Operation
    /\ MaxEvents \in Nat

VARIABLES
    host,     \* the host: queue, sources, flags, boots and its boot token
    record,   \* the last report, which is the history of the next inspection
    proof     \* the boots in which the same set was inspected and no source found

restartVars == <<host, record, proof>>

NoHistory == [decision |-> "", fingerprint |-> {}, boot |-> 0, stale |-> 0]

RestartInit ==
    /\ host = [queue |-> {}, source |-> [o \in Operation |-> "absent"], flag |-> FALSE,
               boots |-> 1, token |-> 1, drifted |-> FALSE, events |-> 0]
    /\ record = NoHistory
    /\ proof = [of |-> {}, boots |-> {}]

-----------------------------------------------------------------------------
(* assess_windows_restart_state *)

(* The inspection asks os.path.exists, which answers FALSE for a source it  *)
(* may not read: the branch for a question that fails is never taken.       *)
PathExists(o) == host.source[o] = "exists"

Classified(o) ==
    IF o \in Malformed THEN "malformed"
    ELSE IF o \in Unmapped THEN "unknown"
    ELSE IF PathExists(o) THEN "active"
    ELSE "stale"

Those(class) == {o \in host.queue : Classified(o) = class}

(* The restart flags of servicing and of Windows Update, active operations *)
(* on protected paths, and what cannot be classified.                      *)
HardBlock ==
    \/ host.flag
    \/ Those("active") \intersect Protected # {}
    \/ Those("unknown") \union Those("malformed") # {}

ExactSetByFingerprint(previous) == previous.fingerprint = host.queue

ExactStaleSet(previous) ==
    /\ previous.fingerprint = host.queue
    /\ previous.stale = Cardinality(Those("stale"))

(* The same set was confirmed before, or seen under another boot token. *)
ConfirmedStale(previous) ==
    /\ previous # NoHistory
    /\ ExactStaleSet(previous)
    /\ previous.decision = "PASS_STALE" \/ previous.boot # host.token

Assessed(previous) ==
    IF HardBlock THEN "BLOCK"
    ELSE IF host.queue = {} THEN "PASS"
    ELSE IF Those("active") # {} THEN "PASS_EXTERNAL"
    ELSE IF ConfirmedStale(previous) THEN "PASS_STALE"
    ELSE "STALE_CONFIRMATION_REQUIRED"

-----------------------------------------------------------------------------
(* inspect_windows_restart_state.py *)

(* Every source is a local path, and is absent or cannot be read. *)
NoneFound ==
    /\ host.queue # {}
    /\ \A o \in host.queue : o \notin Malformed \union Unmapped /\ host.source[o] # "exists"

(* The history that can be read: the last report, or none. *)
Inspect(previous) ==
    /\ previous \in {record, NoHistory}
    /\ record' = [decision |-> Assessed(previous), fingerprint |-> host.queue,
                  boot |-> host.token, stale |-> Cardinality(Those("stale"))]
    /\ proof' = [of |-> host.queue,
                 boots |-> IF NoneFound
                           THEN {host.boots} \union (IF proof.of = host.queue THEN proof.boots ELSE {})
                           ELSE {}]
    /\ UNCHANGED host

(* start_beta_soak.ps1: the soak starts on a report that passes. *)
MayStartSoak == record.decision \in {"PASS", "PASS_STALE", "PASS_EXTERNAL"}

-----------------------------------------------------------------------------
(* The host *)

Happens(changed) ==
    /\ host.events < MaxEvents
    /\ host' = [changed EXCEPT !.events = @ + 1]
    /\ UNCHANGED <<record, proof>>

OperationIsQueued ==
    \E o \in Operation \ host.queue : Happens([host EXCEPT !.queue = @ \union {o}])

SourceChanges ==
    \E o \in Operation, s \in {"exists", "absent", "unreadable"} :
        host.source[o] # s /\ Happens([host EXCEPT !.source[o] = s])

FlagChanges == Happens([host EXCEPT !.flag = ~@])

(* A boot executes some of the queue and leaves the rest.  boot_token is   *)
(* the minute of the boot: two quick boots can have the same.              *)
HostBoots ==
    \E left \in SUBSET host.queue, minutes \in 0..1 :
        Happens([host EXCEPT
            !.queue = left, !.boots = @ + 1, !.token = @ + minutes,
            !.source = [o \in Operation |->
                          IF o \in host.queue \ left THEN "absent" ELSE @[o]]])

(* The token is computed from the wall clock, rounded to a minute: when the *)
(* clock is set, or a boot fell between two minutes, it moves without a     *)
(* boot.                                                                    *)
TokenDrifts == Happens([host EXCEPT !.token = @ + 1, !.drifted = TRUE])

RestartNext ==
    \/ \E previous \in {record, NoHistory} : Inspect(previous)
    \/ OperationIsQueued \/ SourceChanges \/ FlagChanges \/ HostBoots \/ TokenDrifts

RestartSpec == RestartInit /\ [][RestartNext]_restartVars

-----------------------------------------------------------------------------
(* Properties *)

(* "The unchanged pending rename set contains only absent sources and was   *)
(* confirmed across distinct boots" (windows_restart.py), as far as the     *)
(* inspection can tell: a soak that starts on stale operations follows      *)
(* inspections in two different boots that looked for the sources of this   *)
(* very set and found none of them, with no inspection in between that      *)
(* found one or saw another set, whatever was queued, executed, lost or     *)
(* restored meanwhile.  A source that exists but cannot be read is not      *)
(* found, so "absent" is more than the gate knows.  Exceptions: the clock   *)
(* moved the token, and the set waits next to active operations of others   *)
(* (PASS_EXTERNAL).                                                         *)
StaleIsConfirmedAcrossBoots ==
    MayStartSoak /\ record.stale > 0 /\ ~host.drifted =>
        record.decision = "PASS_EXTERNAL" \/ Cardinality(proof.boots) >= 2
=============================================================================
