------------------------------ MODULE Operations ------------------------------
(***************************************************************************)
(* The upgrade of an installation next to the service it installs: the     *)
(* user unit quietward.service (deploy/quietward.service: Type=simple,     *)
(* Restart=on-failure) runs the loop of ServiceRun, the installer of       *)
(* Migration enables it, asks systemd whether it is active and takes it    *)
(* down again.  A power failure hits both.                                 *)
(***************************************************************************)
EXTENDS Migration, ServiceRun

CONSTANT Unit     \* the process the unit runs

ASSUME UnitAssumption == Unit \in Process \ Bounded

VARIABLE restart  \* the unit's process failed and systemd will start it again

vars == <<migrationVars, serviceVars, restart>>

Init == MigrationInit /\ ServiceInit /\ restart = FALSE

Active(is) == [unit EXCEPT !.quietward.active = is]

(* systemctl disable --now waits for the process to end. *)
Disabling == At("trap") /\ inst.prepared

InstallerSteps ==
    /\ MigrationStep
    /\ Disabling => Runs(Unit, "off")
    /\ restart' = (restart /\ ~Disabling)
    /\ UNCHANGED serviceVars

(* The unit's process.  A failure or a kill makes the unit inactive until *)
(* systemd starts it again.                                               *)
UnitStarts ==
    /\ unit.quietward.active /\ Complete(target.home) /\ ~Disabling
    /\ Start(Unit)
    /\ UNCHANGED <<migrationVars, restart>>

UnitRuns ==
    /\ \/ ReportStarting(Unit) \/ BeginCycle(Unit) \/ CycleSucceeds(Unit)
       \/ CycleFails(Unit) \/ WaitEnds(Unit) \/ ReportFailed(Unit) \/ ReportStopped(Unit)
       \/ (Disabling /\ Signal(Unit))
    /\ UNCHANGED <<migrationVars, restart>>

UnitEnds ==
    /\ \/ Exit(Unit) /\ restart' = (Runs(Unit, "failed") /\ ~Disabling)
       \/ Kill(Unit) /\ restart' = ~Disabling
    /\ unit' = Active(FALSE)
    /\ UNCHANGED <<legacy, target, backups, inst>>

(* The unit was active, but another process holds the lock: the same failure. *)
UnitFindsTheLockTaken ==
    /\ unit.quietward.active /\ Runs(Unit, "off") /\ ~MayAcquire(Unit)
    /\ unit' = Active(FALSE) /\ restart' = TRUE
    /\ UNCHANGED <<legacy, target, backups, inst, serviceVars>>

SystemdRestarts ==
    /\ restart
    /\ unit' = Active(TRUE) /\ restart' = FALSE
    /\ UNCHANGED <<legacy, target, backups, inst, serviceVars>>

(* Every report, and every alert of a cycle, makes the state directory if it *)
(* is gone; only a report that fails may leave that undone.                  *)
MayWrite(p) == proc[p].pc \in {"starting", "cycle", "failing", "stopping"}

StateDirectoryMade ==
    /\ "state" \notin target.home
    /\ target' = [target EXCEPT !.home = @ \union {"state"}, !.remade = TRUE]

(* Others run the installed program by hand, and may go on with it when the *)
(* installation is taken back.                                              *)
OthersRun ==
    /\ \E p \in Process \ {Unit} :
          \/ Start(p) /\ {"share", "config"} \subseteq target.home /\ UNCHANGED target
          \/ /\ Step(p) /\ ~Runs(p, "off")
             /\ \/ MayWrite(p) /\ StateDirectoryMade
                \/ ("state" \in target.home \/ health' = health) /\ UNCHANGED target
          \/ (Signal(p) \/ Kill(p)) /\ UNCHANGED target
    /\ UNCHANGED <<legacy, backups, unit, inst, restart>>

Passing == (WriteBack \/ Tick) /\ UNCHANGED <<migrationVars, restart>>

MachineGoesDown == PowerFailure /\ PowerLoss /\ restart' = FALSE

Next ==
    \/ InstallerSteps \/ UnitStarts \/ UnitRuns \/ UnitEnds
    \/ UnitFindsTheLockTaken \/ SystemdRestarts \/ OthersRun \/ Passing \/ MachineGoesDown

Spec == Init /\ [][Next]_vars
=============================================================================
