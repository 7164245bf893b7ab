------------------------------- MODULE Migration -------------------------------
(***************************************************************************)
(* The upgrade of a Forge Sentinel user installation to QuietWard:         *)
(* install_user_service.sh --migrate-pre-rename, which stops the legacy    *)
(* service, runs prepare, installs, starts quietward.service and runs      *)
(* finalize, and whose ERR trap rolls back                                 *)
(* (scripts/migrate_pre_rename_user_install.py).                           *)
(*                                                                         *)
(* An installation has four parts; every rename moves one of them.  A      *)
(* command may fail at any step, be killed at any step, or be cut off by a *)
(* power failure, and the user may start the legacy service again.         *)
(***************************************************************************)
EXTENDS Naturals, Sequences, FiniteSets

CONSTANTS
    MaxRuns,     \* bound on runs of the installer
    MaxRows,     \* bound on the evidence rows of the legacy database
    MaxFaults    \* bound on failing steps, kills, power failures, interventions

ASSUME MigrationAssumption ==
    /\ MaxRuns \in Nat \ {0} /\ MaxRows \in Nat /\ MaxFaults \in Nat

VARIABLES
    legacy,    \* home: the legacy parts in place; rows: its database
    target,    \* staged, home: the QuietWard parts; rows: its database;
               \* marker: the backup its migration marker names (0: none);
               \* remade: a program still running has made the state directory
    backups,   \* the backup directories, one per prepare
    unit,      \* systemd's view of the two services
    inst       \* the installer: step, what its shell variables say, outcome

migrationVars == <<legacy, target, backups, unit, inst>>

Order == <<"share", "config", "state", "unit">>

Part == {Order[k] : k \in 1..4}

Off == [active |-> FALSE, enabled |-> FALSE]

Idle == [step |-> "idle", prepared |-> FALSE, stopped |-> FALSE, moved |-> 0,
         runs |-> 0, outcome |-> "none", faults |-> 0, meddled |-> FALSE,
         finalized |-> FALSE]

MigrationInit ==
    /\ legacy = [home |-> Part, rows |-> 0]
    /\ target = [staged |-> {}, home |-> {}, rows |-> 0, marker |-> 0,
                 remade |-> FALSE]
    /\ backups = << >>
    /\ unit = [legacy |-> [active |-> TRUE, enabled |-> TRUE], quietward |-> Off]
    /\ inst = Idle

At(step) == inst.step = step

Continue(step) == inst' = [inst EXCEPT !.step = step]

Complete(parts) == parts = Part

Backup == backups[target.marker]

(* The marker is a file of the QuietWard state directory; one that a program *)
(* has made again holds no marker.                                           *)
MarkerAvailable == "state" \in target.home /\ target.marker # 0 /\ ~target.remade

(* What a program still running after the rollback leaves of QuietWard. *)
Remade == IF target.remade THEN {"state"} ELSE {}

-----------------------------------------------------------------------------
(* The two services, systemd and the user *)

LegacyCollects ==
    /\ unit.legacy.active /\ legacy.rows < MaxRows
    /\ legacy' = [legacy EXCEPT !.rows = @ + 1]
    /\ UNCHANGED <<target, backups, unit, inst>>

(* The user starts the legacy service while the installer is at work. *)
UserStartsLegacy ==
    /\ ~At("idle") /\ ~unit.legacy.active /\ Complete(legacy.home)
    /\ inst.faults < MaxFaults
    /\ unit' = [unit EXCEPT !.legacy.active = TRUE]
    /\ inst' = [inst EXCEPT !.faults = @ + 1, !.meddled = TRUE]
    /\ UNCHANGED <<legacy, target, backups>>

UserStopsLegacy ==
    /\ ~At("idle") /\ unit.legacy.active /\ inst.meddled
    /\ unit' = [unit EXCEPT !.legacy.active = FALSE]
    /\ UNCHANGED <<legacy, target, backups, inst>>

(* The machine goes down and the user logs in again: an installer at work is *)
(* gone, and each enabled service starts if its installation is complete.    *)
PowerFailure ==
    /\ inst.faults < MaxFaults
    /\ unit' = [unit EXCEPT
                  !.legacy.active = unit.legacy.enabled /\ Complete(legacy.home),
                  !.quietward.active = unit.quietward.enabled /\ Complete(target.home)]
    /\ inst' = [inst EXCEPT !.step = "idle", !.outcome = "interrupted",
                            !.faults = @ + 1, !.meddled = @ \/ ~At("idle")]
    /\ UNCHANGED <<legacy, target, backups>>

-----------------------------------------------------------------------------
(* install_user_service.sh up to prepare *)

RunInstaller ==
    /\ At("idle") /\ inst.runs < MaxRuns
    /\ inst' = [inst EXCEPT !.step = "stop", !.prepared = FALSE, !.stopped = TRUE,
                            !.moved = 0, !.runs = @ + 1, !.outcome = "none"]
    /\ UNCHANGED <<legacy, target, backups, unit>>

(* systemctl stop fails when there is no such unit. *)
StopLegacy ==
    /\ At("stop")
    /\ IF "unit" \in legacy.home
       THEN unit' = [unit EXCEPT !.legacy.active = FALSE] /\ Continue("validate")
       ELSE UNCHANGED unit /\ Continue("trap")
    /\ UNCHANGED <<legacy, target, backups>>

-----------------------------------------------------------------------------
(* prepare_migration *)

MayPrepare ==
    /\ Complete(legacy.home)
    /\ target.home = {}
    /\ ~unit.legacy.active

Validate ==
    /\ At("validate")
    /\ Continue(IF MayPrepare THEN "backup" ELSE "trap")
    /\ UNCHANGED <<legacy, target, backups, unit>>

CreateBackup ==
    /\ At("backup")
    /\ backups' = Append(backups, [rows |-> legacy.rows, failed |-> {}, retired |-> {},
                                   retiring |-> FALSE])
    /\ Continue("copy")
    /\ UNCHANGED <<legacy, target, unit>>

(* Configuration, keys, database and marker are written to staging *)
(* directories.                                                    *)
Stage ==
    /\ At("copy")
    /\ target' = [target EXCEPT !.staged = {"config", "state"}, !.rows = legacy.rows,
                                !.marker = Len(backups)]
    /\ Continue("verify")
    /\ UNCHANGED <<legacy, backups, unit>>

(* The exception handler of prepare: the configuration goes back, the staging *)
(* directories are removed.                                                   *)
UndoPrepare ==
    target' = [target EXCEPT !.staged = {}, !.home = @ \ {"config"}, !.rows = 0, !.marker = 0]

VerifyCopy ==
    /\ At("verify")
    /\ IF target.rows = legacy.rows
       THEN Continue("config") /\ UNCHANGED target
       ELSE Continue("trap") /\ UndoPrepare
    /\ UNCHANGED <<legacy, backups, unit>>

MoveIntoPlace(part) == [target EXCEPT !.staged = @ \ {part}, !.home = @ \union {part}]

RenameConfig ==
    /\ At("config")
    /\ target' = MoveIntoPlace("config")
    /\ Continue("state")
    /\ UNCHANGED <<legacy, backups, unit>>

(* A directory is not renamed onto another that holds files. *)
RenameState ==
    /\ At("state")
    /\ IF "state" \in target.home
       THEN UndoPrepare /\ Continue("trap")
       ELSE target' = MoveIntoPlace("state") /\ Continue("prepared")
    /\ UNCHANGED <<legacy, backups, unit>>

PrepareReturns ==
    /\ At("prepared")
    /\ inst' = [inst EXCEPT !.step = "install", !.prepared = TRUE]
    /\ UNCHANGED <<legacy, target, backups, unit>>

-----------------------------------------------------------------------------
(* install_user_service.sh: files, unit, start *)

InstallFiles ==
    /\ At("install")
    /\ target' = [target EXCEPT !.home = Part]
    /\ Continue("enable")
    /\ UNCHANGED <<legacy, backups, unit>>

EnableNow ==
    /\ At("enable")
    /\ unit' = [unit EXCEPT !.quietward = [active |-> TRUE, enabled |-> TRUE]]
    /\ Continue("check")
    /\ UNCHANGED <<legacy, target, backups>>

CheckActive ==
    /\ At("check")
    /\ Continue(IF unit.quietward.active THEN "disable" ELSE "trap")
    /\ UNCHANGED <<legacy, target, backups, unit>>

-----------------------------------------------------------------------------
(* finalize_migration *)

MayFinalize == MarkerAvailable /\ unit.quietward = [active |-> TRUE, enabled |-> TRUE]

DisableLegacy ==
    /\ At("disable")
    /\ IF MayFinalize
       THEN /\ unit' = [unit EXCEPT !.legacy.enabled = FALSE]
            /\ Continue("retire")
       ELSE Continue("trap") /\ UNCHANGED unit
    /\ UNCHANGED <<legacy, target, backups>>

MakeRetired ==
    /\ At("retire")
    /\ IF Backup.retiring
       THEN Continue("trap") /\ UNCHANGED backups
       ELSE /\ backups' = [backups EXCEPT ![target.marker].retiring = TRUE]
            /\ inst' = [inst EXCEPT !.step = "move", !.moved = 0]
    /\ UNCHANGED <<legacy, target, unit>>

MoveLegacy ==
    /\ At("move")
    /\ LET part == Order[inst.moved + 1] IN
       /\ legacy' = [legacy EXCEPT !.home = @ \ {part}]
       /\ backups' = [backups EXCEPT ![target.marker].retired = @ \union {part}]
       /\ inst' = [inst EXCEPT !.moved = @ + 1,
                               !.step = IF inst.moved = 3 THEN "confirm" ELSE "move"]
    /\ UNCHANGED <<target, unit>>

(* Every part moved goes back, last first, and the service is enabled again. *)
UndoFinalize ==
    /\ legacy' = [legacy EXCEPT !.home = @ \union Backup.retired]
    /\ backups' = [backups EXCEPT ![target.marker].retired = {}]
    /\ unit' = [unit EXCEPT !.legacy.enabled = TRUE]

LegacyGoneWhenDisabled == ~unit.legacy.enabled

LegacyGone == unit.legacy = Off

ConfirmRetired ==
    /\ At("confirm")
    /\ \/ /\ LegacyGone
          /\ Continue("retired")
          /\ UNCHANGED <<legacy, backups, unit>>
       \/ ~LegacyGone /\ UndoFinalize /\ Continue("trap")
    /\ UNCHANGED target

FinalizeReturns ==
    /\ At("retired")
    /\ inst' = [inst EXCEPT !.step = "idle", !.outcome = "finalized", !.finalized = TRUE]
    /\ UNCHANGED <<legacy, target, backups, unit>>

-----------------------------------------------------------------------------
(* The ERR trap: rollback_migration and rollback_prepared *)

(* A part already among the failed ones stays where it is; a rollback that is *)
(* itself cut short moves the first of the parts only.                        *)
RolledBackButTheUnit(parts) == (target.home \intersect parts) \ {"unit"}

RolledBack(parts) == (target.home \intersect parts) \ Backup.failed

Restart == [unit EXCEPT !.legacy.active =
                           @ \/ (inst.stopped /\ Complete(legacy.home))]

Trap ==
    /\ At("trap")
    /\ unit' = IF inst.prepared THEN [Restart EXCEPT !.quietward = Off] ELSE Restart
    /\ \E n \in IF inst.faults < MaxFaults THEN 0..4 ELSE {4} :
          LET parts == {Order[k] : k \in 1..n} IN
          /\ IF inst.prepared /\ MarkerAvailable
             THEN /\ backups' = [backups EXCEPT ![target.marker].failed =
                                                   @ \union RolledBack(parts)]
                  /\ target' = [target EXCEPT !.home = @ \ RolledBack(parts)]
             ELSE n = 4 /\ UNCHANGED <<backups, target>>
          /\ inst' = [inst EXCEPT !.step = "idle", !.outcome = "failed",
                                  !.faults = IF n = 4 THEN @ ELSE @ + 1,
                                  !.meddled = @ \/ n # 4]
    /\ UNCHANGED legacy

-----------------------------------------------------------------------------
(* A step that fails, and a command that is killed *)

InPrepare == inst.step \in {"backup", "copy", "verify", "config", "state"}

InFinalize == inst.step \in {"move", "confirm"}

(* The exception handler of the command runs, then the trap. *)
StepFails ==
    /\ ~At("idle") /\ ~At("trap") /\ inst.faults < MaxFaults
    /\ inst' = [inst EXCEPT !.faults = @ + 1, !.step = "trap"]
    /\ \/ InPrepare /\ UndoPrepare /\ UNCHANGED <<legacy, backups, unit>>
       \/ InFinalize /\ UndoFinalize /\ UNCHANGED target
       \/ /\ ~InPrepare /\ ~InFinalize /\ ~At("prepared") /\ ~At("retired")
          /\ UNCHANGED <<legacy, target, backups, unit>>

(* A killed command undoes nothing; the shell sees its status and traps. *)
CommandKilled ==
    /\ InPrepare \/ InFinalize \/ At("prepared") \/ At("retired")
    /\ inst.faults < MaxFaults
    /\ inst' = [inst EXCEPT !.step = "trap", !.faults = @ + 1, !.meddled = TRUE]
    /\ UNCHANGED <<legacy, target, backups, unit>>

(* Everything but the power failure. *)
MigrationStep ==
    \/ LegacyCollects \/ UserStartsLegacy \/ UserStopsLegacy
    \/ RunInstaller \/ StopLegacy
    \/ Validate \/ CreateBackup \/ Stage \/ VerifyCopy \/ RenameConfig \/ RenameState
    \/ PrepareReturns \/ InstallFiles \/ EnableNow \/ CheckActive
    \/ DisableLegacy \/ MakeRetired \/ MoveLegacy \/ ConfirmRetired
    \/ FinalizeReturns \/ Trap \/ StepFails \/ CommandKilled
-----------------------------------------------------------------------------
(* Properties *)

(* An installation that failed has put everything back: the legacy parts are *)
(* all in place and the legacy service runs, and no part of QuietWard is     *)
(* left (install_user_service.sh's trap; prepare's and finalize's exception  *)
(* handlers; rollback_prepared), unless a run of the program that outlived   *)
(* the rollback has reported since: its report makes a state directory, and  *)
(* nothing else.  A command killed in the middle, a power failure or a       *)
(* failing rollback is excluded: nothing puts those back.                    *)
FailedInstallRestoresLegacy ==
    At("idle") /\ inst.outcome = "failed" /\ ~inst.meddled /\ ~inst.finalized =>
        /\ Complete(legacy.home) /\ unit.legacy.active
        /\ target.home = Remade /\ unit.quietward = Off

(* Once finalize has returned the legacy installation is retired as a whole   *)
(* into the backup the marker names, its service is stopped for good, the     *)
(* QuietWard installation is complete, and its database started with every    *)
(* row the legacy service ever stored, unless someone ran that service again. *)
RetiredLegacyIsCarriedOver ==
    inst.finalized =>
        /\ legacy.home = {} /\ unit.legacy = Off
        /\ Complete(target.home) /\ MarkerAvailable /\ Backup.retired = Part
        /\ inst.meddled \/ target.rows = legacy.rows
=============================================================================
