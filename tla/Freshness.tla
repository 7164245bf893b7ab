------------------------------ MODULE Freshness ------------------------------
(***************************************************************************)
(* Whether the data of an enabled scanner is out of date: what the service *)
(* asks ScannerFreshnessInspector in every cycle (freshness.py,            *)
(* cadenced_service.py).  Two caches of the process save work and          *)
(* repetition: the newest file found is looked up again after a while, and *)
(* the same event is reported again after a while.                         *)
(*                                                                         *)
(* One scanner.  Its data is known by the time its newest file was written. *)
(* Times are those of the wall clock, which may be set back.               *)
(***************************************************************************)
EXTENDS Integers

CONSTANTS
    MaxDataAge,        \* the age above which data is stale
    DiscoveryCache,    \* discovery_cache_seconds
    EventRepeat,       \* event_repeat_seconds
    MaxClock,          \* bound on the clock
    MaxUpsets          \* bound on changes of the data, lost events, restarts and
                       \* settings of the clock

ASSUME FreshnessAssumption ==
    /\ {MaxDataAge, MaxClock, MaxUpsets} \subseteq Nat
    /\ {DiscoveryCache, EventRepeat} \subseteq Nat \ {0}

VARIABLES
    wall,        \* now: the clock; wound: set back since files were looked up
    data,        \* mtime: of the newest file; changed: when that was last new
    inspector,   \* the caches: when what was found; when what was said
    told         \* the cycle in progress, the events stored and those lost

freshnessVars == <<wall, data, inspector, told>>

Missing == -1       \* no file
NotYet == -1        \* no time

Mtime == {Missing} \union 0..MaxClock

Silent == [m \in Mtime |-> NotYet]

(* _cache, _event_cache *)
EmptyCaches == [at |-> NotYet, mtime |-> Missing, said |-> Silent]

FreshnessInit ==
    /\ wall = [now |-> 0, wound |-> FALSE]
    /\ data = [mtime |-> Missing, changed |-> 0]
    /\ inspector = EmptyCaches
    /\ told = [pc |-> "idle", view |-> Missing, event |-> FALSE,
               stored |-> Silent, lost |-> Silent, upsets |-> 0]

Upset == told.upsets < MaxUpsets

-----------------------------------------------------------------------------
(* The inspector *)

(* The answers of a cache are used for a while; those from a time the clock *)
(* has not reached are not.                                                 *)
Within(time, limit) == time # NotYet /\ 0 <= wall.now - time /\ wall.now - time < limit

Outdated(mtime) == mtime = Missing \/ wall.now - mtime > MaxDataAge

EventIdOfScanner(mtime) == Missing

(* The digest names the scanner and the newest file's time. *)
EventId(mtime) == mtime

(* inspect: what is cached is only judged anew. *)
Found ==
    IF Within(inspector.at, DiscoveryCache) THEN inspector
    ELSE [inspector EXCEPT !.at = wall.now, !.mtime = data.mtime]

(* A cycle asks: inspect, event. *)
AskInspector ==
    /\ told.pc # "asked"
    /\ LET found == Found
           event == Outdated(found.mtime) /\ ~Within(found.said[EventId(found.mtime)], EventRepeat)
       IN
       /\ inspector' = IF event THEN [found EXCEPT !.said[EventId(found.mtime)] = wall.now]
                       ELSE found
       /\ told' = [told EXCEPT !.pc = "asked", !.view = found.mtime, !.event = event]
    /\ wall' = [wall EXCEPT !.wound = @ /\ Within(inspector.at, DiscoveryCache)]
    /\ UNCHANGED data

-----------------------------------------------------------------------------
(* The rest of the cycle *)

(* The cycle is stored with the event, unless a rule suppresses it. *)
CycleTells ==
    /\ told.pc = "asked"
    /\ told' = [told EXCEPT !.pc = "done",
                            !.stored[told.view] = IF told.event THEN wall.now ELSE @]
    /\ UNCHANGED <<wall, data, inspector>>

LoseEvent(pc) ==
    told' = [told EXCEPT !.pc = pc, !.upsets = @ + 1,
                         !.lost[told.view] = IF told.pc = "asked" /\ told.event THEN wall.now ELSE @]

EventSuppressed ==
    /\ told.pc = "asked" /\ told.event /\ Upset
    /\ LoseEvent("done")
    /\ UNCHANGED <<wall, data, inspector>>

CycleFailsToTell ==
    /\ told.pc = "asked" /\ Upset
    /\ LoseEvent("idle")
    /\ UNCHANGED <<wall, data, inspector>>

(* The caches are those of the process. *)
InspectorRestarts ==
    /\ Upset
    /\ LoseEvent("idle")
    /\ inspector' = EmptyCaches
    /\ UNCHANGED <<wall, data>>

-----------------------------------------------------------------------------
(* The machine, between two cycles *)

(* The data is updated, or a copy with an older time is put in its place, or *)
(* it is removed.                                                            *)
DataChanges ==
    /\ told.pc # "asked" /\ Upset
    /\ \E m \in {n \in Mtime : n # data.mtime /\ n <= wall.now} :
          data' = [mtime |-> m, changed |-> wall.now]
    /\ told' = [told EXCEPT !.pc = "idle", !.upsets = @ + 1]
    /\ UNCHANGED <<wall, inspector>>

ClockAdvances ==
    /\ told.pc # "asked" /\ wall.now < MaxClock
    /\ wall' = [wall EXCEPT !.now = @ + 1]
    /\ told' = [told EXCEPT !.pc = "idle"]
    /\ UNCHANGED <<data, inspector>>

ClockIsSetBack ==
    /\ told.pc # "asked" /\ Upset
    /\ \E earlier \in 0..(wall.now - 1) : wall' = [now |-> earlier, wound |-> TRUE]
    /\ told' = [told EXCEPT !.pc = "idle", !.upsets = @ + 1]
    /\ UNCHANGED <<data, inspector>>

FreshnessNext ==
    \/ AskInspector \/ CycleTells \/ EventSuppressed \/ CycleFailsToTell
    \/ InspectorRestarts \/ DataChanges \/ ClockAdvances \/ ClockIsSetBack

FreshnessSpec == FreshnessInit /\ [][FreshnessNext]_freshnessVars

-----------------------------------------------------------------------------
(* Properties *)

(* Whenever a cycle is over, stale or missing data was reported for what it is *)
(* no longer than event_repeat_seconds ago - stored, unless that very report   *)
(* was suppressed or its cycle failed, which silences it as long - and the     *)
(* data is what it is taken for, but for a change less than                    *)
(* discovery_cache_seconds ago, whatever the caches hold, however the clock is *)
(* set, and whenever the service restarts.  A clock set back makes the files   *)
(* found before look more recent than they are.                                *)
StaleDataIsReported ==
    told.pc = "done" =>
        /\ Outdated(told.view) =>
              \/ Within(told.stored[told.view], EventRepeat)
              \/ Within(told.lost[told.view], EventRepeat)
        /\ \/ told.view = data.mtime
           \/ Within(data.changed, DiscoveryCache)
           \/ wall.wound
=============================================================================
