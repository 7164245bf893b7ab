------------------------------- MODULE MCAnalysis -------------------------------
(***************************************************************************)
(* Analysis for TLC: the weights of the code for the kinds that occur, and *)
(* events that meet in every rule of the correlation.                      *)
(***************************************************************************)
EXTENDS Analysis, TLC

MCWeight ==
    [auth_failure |-> 8, process_start |-> 3, outbound_connection |-> 14,
     persistence_change |-> 44, new_listening_port |-> 28, sensitive_file_change |-> 48, yara_match |-> 82]

MCFlagBonus == [external_destination |-> 10, privileged_context |-> 12, external_bind |-> 8]

MCMarkerBonus == [reverse_shell |-> 30, encoded_command |-> 18, credential_spray |-> 22]

MCPhase ==
    [auth_failure |-> "identity", process_start |-> "execution",
     outbound_connection |-> "network", persistence_change |-> "persistence",
     new_listening_port |-> "network", sensitive_file_change |-> "file_integrity",
     yara_match |-> "malware"]

Quiet ==
    [confidence |-> 100, flags |-> {}, markers |-> {}, failed |-> 0, sourceFailed |-> 0,
     accounts |-> 0, cvss |-> 0, deviation |-> 100, pids |-> {}, names |-> {},
     programs |-> {}, logged |-> FALSE]

MCShape == {
    [id |-> "spray", kind |-> "auth_failure", subject |-> "auth", confidence |-> 98,
     markers |-> {"credential_spray"}, failed |-> 32, sourceFailed |-> 64, accounts |-> 8,
     logged |-> TRUE, deviation |-> 0] @@ Quiet,
    [id |-> "shell", kind |-> "process_start", subject |-> "process", confidence |-> 90,
     markers |-> {"reverse_shell"}, flags |-> {"privileged_context"},
     pids |-> {7}, names |-> {"nc"}, programs |-> {"nc"}] @@ Quiet,
    [id |-> "encoded", kind |-> "process_start", subject |-> "interpreter", confidence |-> 90,
     markers |-> {"encoded_command"}, pids |-> {8}, programs |-> {"bash"}] @@ Quiet,
    [id |-> "outbound", kind |-> "outbound_connection", subject |-> "connection",
     flags |-> {"external_destination"}, pids |-> {7}, names |-> {"nc"},
     programs |-> {"nc"}] @@ Quiet,
    [id |-> "listener", kind |-> "new_listening_port", subject |-> "port",
     flags |-> {"external_bind"}, programs |-> {"bash"}] @@ Quiet,
    [id |-> "unit", kind |-> "persistence_change", subject |-> "unit",
     names |-> {"nc"}] @@ Quiet,
    [id |-> "file", kind |-> "sensitive_file_change", subject |-> "tool"] @@ Quiet,
    [id |-> "yara", kind |-> "yara_match", subject |-> "tool", confidence |-> 80,
     deviation |-> 0] @@ Quiet }

MCRank ==
    [spray |-> 5, shell |-> 1, encoded |-> 6, outbound |-> 2, listener |-> 4, unit |-> 3,
     file |-> 8, yara |-> 7]
===============================================================================
