------------------------------ MODULE MCOperations ------------------------------
(***************************************************************************)
(* What happens around the observation cycles: the upgrade of a Debian     *)
(* installation under its running service (Operations), the start of a     *)
(* service on what the last one left (WarmStart), the gate before a soak   *)
(* on Windows (WindowsRestart), the age of a scanner's data (Freshness).   *)
(* They share no state, so a behaviour follows one of them: TLC explores   *)
(* their sum and not their product.                                        *)
(***************************************************************************)
EXTENDS Operations, WarmStart, WindowsRestart, Freshness

VARIABLE part

MCvars == <<vars, warmVars, restartVars, freshnessVars, part>>

MCInit ==
    /\ Init /\ WarmInit /\ RestartInit /\ FreshnessInit
    /\ part \in {"upgrade", "start", "gate", "data"}

MCNext ==
    /\ UNCHANGED part
    /\ \/ part = "upgrade" /\ Next /\ UNCHANGED <<warmVars, restartVars, freshnessVars>>
       \/ part = "start" /\ WarmNext /\ UNCHANGED <<vars, restartVars, freshnessVars>>
       \/ part = "gate" /\ RestartNext /\ UNCHANGED <<vars, warmVars, freshnessVars>>
       \/ part = "data" /\ FreshnessNext /\ UNCHANGED <<vars, warmVars, restartVars>>

MCSpec == MCInit /\ [][MCNext]_MCvars
=============================================================================
