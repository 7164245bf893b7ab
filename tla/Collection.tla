------------------------------ MODULE Collection ------------------------------
(***************************************************************************)
(* What the collectors see, how two snapshots differ and what the coverage *)
(* report says of it (collectors/debian.py, windows.py, persistence.py,    *)
(* diff.py, cadenced_collector.py, coverage.py, incident_coverage.py).     *)
(*                                                                         *)
(* A domain holds one item.  Its value is a version: a number no other     *)
(* state of the machine has had, Nothing when there is no such item,       *)
(* Unknown when the item is there but could not be inspected.              *)
(***************************************************************************)
EXTENDS Integers, FiniteSets

CONSTANTS
    Platform,      \* "debian" or "windows"
    Enabled,       \* the collector domains switched on in the configuration
    MaxChanges,    \* bound on changes of the machine
    Risky          \* the versions of a container that carry risk markers, and
                   \* of a process with suspicious markers

Domain == {"processes", "listening_sockets", "outbound_connections",
           "authentication", "docker", "persistence", "sensitive_files"}

ASSUME CollectionAssumption ==
    /\ Platform \in {"debian", "windows"} /\ Enabled \subseteq Domain
    /\ MaxChanges \in Nat /\ Risky \subseteq Nat

(* Sources of events that have no coverage domain of their own: stale scanner *)
(* data (scanner_freshness_read_only).                                       *)
Undomained == {"freshness"}

(* Domains that leave records in the snapshot. *)
Snapshotted == Enabled \ {"authentication"}

Never == -1
Nothing == 0
Unknown == MaxChanges + 2
Version == 1..(MaxChanges + 1)

Snapshot == [Snapshotted -> {Never, Nothing, Unknown} \union Version]

NoSnapshot == [d \in Snapshotted |-> Never]

EmptySnapshot == [d \in Snapshotted |-> Nothing]

-----------------------------------------------------------------------------
(* Lanes *)

Lane == {"fast", "standard", "deep", "maintenance"}

(* COLLECTOR_DOMAIN_LANES *)
LaneOf(d) ==
    CASE d \in {"persistence", "docker"} -> "standard"
      [] d = "sensitive_files"           -> "deep"
      [] OTHER                           -> "fast"

(* cadence_coalesce_domains of the Windows collector *)
Coalesced == IF Platform = "windows" THEN {{"processes", "listening_sockets"}} ELSE {}

(* set_active_domains *)
ActiveDomains(due) ==
    LET asked == {d \in Domain : LaneOf(d) \in due} IN
    asked \union UNION {g \in Coalesced : g \intersect asked # {}}

-----------------------------------------------------------------------------
(* Collecting *)

(* Without the privacy identity key some records are withheld. *)
Unidentified(d) ==
    \/ d \in {"outbound_connections", "authentication"}
    \/ d = "persistence" /\ Platform = "windows"

(* The account files could not be read. *)
Unread(d) == d = "persistence" /\ Platform = "debian"

(* docker inspect failed: the containers are there, their settings unknown. *)
Uninspected(d) == d = "docker"

(* How the collection of a domain can end *)
Outcome(d) ==
    {"complete", "unavailable"}
    \union (IF Unidentified(d) THEN {"unidentified"} ELSE {})
    \union (IF Unread(d) THEN {"unread"} ELSE {})
    \union (IF Uninspected(d) THEN {"uninspected"} ELSE {})

(* The record of a domain in the new snapshot. *)
Seen(d, outcome, item) ==
    CASE outcome = "complete" -> item
      [] /\ outcome # "complete"
         /\ d = "sensitive_files" \/ (outcome = "uninspected" /\ item # Nothing) -> Unknown
      [] OTHER -> Nothing

(* The domains of the coverage report in whose patterns the warning of an    *)
(* outcome occurs.  Debian says "outbound connection privacy identity        *)
(* unavailable" and "account observation": no pattern of coverage.py occurs  *)
(* in either, and they go to collector_other.                                *)
MatchedBy(d, outcome) ==
    IF Platform = "debian" /\ ( \/ d = "outbound_connections" /\ outcome = "unidentified"
                                \/ outcome = "unread" )
    THEN {"collector_other"} ELSE {d}

MergedOverwriting(previous, current, active) == current

(* CadencedCollectorAdapter: a domain that was not due keeps its record. *)
Merged(previous, current, active) ==
    IF previous = NoSnapshot THEN current
    ELSE [d \in Snapshotted |-> IF d \in active THEN current[d] ELSE previous[d]]

-----------------------------------------------------------------------------
(* diff_snapshots *)

Reported(d, before, now) ==
    /\ now # before
    /\ CASE d = "persistence"     -> TRUE
         [] d = "sensitive_files" -> before # Nothing
         [] d = "docker"          -> /\ now # Nothing
                                     /\ before = Unknown => now \in Risky
         [] d = "processes"       -> now \in Risky
         [] OTHER                 -> now # Nothing

Differences(previous, current, active) ==
    IF previous = NoSnapshot THEN {}
    ELSE {<<d, current[d]>> : d \in {e \in Snapshotted \intersect active :
                                        Reported(e, previous[e], current[e])}}

-----------------------------------------------------------------------------
(* collector_coverage, apply_collector_cadence *)

Degraded(outcome, active) ==
    UNION {MatchedBy(d, outcome[d]) :
              d \in {e \in Enabled \intersect active : outcome[e] # "complete"}}

(* A report without the domain collector_other has it as disabled here. *)
CoverageOf(outcome, active) ==
    [d \in Domain \union {"collector_other"} |->
        IF d \in Degraded(outcome, active) THEN "degraded"
        ELSE IF d \notin Enabled THEN "disabled"
        ELSE IF d \notin active THEN "not_due"
        ELSE "complete"]

(* CoverageReport.resolution_safe *)
GloballySafe(coverage) == \A d \in DOMAIN coverage : coverage[d] \in {"complete", "disabled"}

ResolutionSafeUnlessDegraded(sources, coverage) ==
    \A s \in sources : IF s \in Undomained THEN GloballySafe(coverage)
                                           ELSE coverage[s] # "degraded"

(* incident_resolution_safe: every source of the incident is complete, and *)
(* for one without a domain the whole report is.  A source is named by its *)
(* coverage domain.                                                        *)
ResolutionSafe(sources, coverage) ==
    \A s \in sources : IF s \in Undomained THEN GloballySafe(coverage)
                                           ELSE coverage[s] = "complete"
=============================================================================
