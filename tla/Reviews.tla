-------------------------------- MODULE Reviews --------------------------------
(***************************************************************************)
(* Reviews of findings and the suppression rules they leave                *)
(* (storage.py set_finding_state and filter_suppressed_events,             *)
(* product_store.py _suppression_rules and _finding_scoped_kinds,          *)
(* suppression.py).                                                        *)
(*                                                                         *)
(* quietward incident writes a review and its rule in one transaction.     *)
(* The service filters the events of a cycle with a cache of the rules,    *)
(* which it reads again when PRAGMA data_version says that another         *)
(* connection has written.  Between the version, the rules, the evidence   *)
(* behind them and their use anyone may write.                             *)
(***************************************************************************)
EXTENDS Naturals, Sequences, FiniteSetsExt

CONSTANTS
    Subject, Kind,   \* what events are about
    Unsuppressible,  \* SentinelStore.UNSUPPRESSIBLE_KINDS
    MaxPerCycle,     \* bound on the events of a cycle
    MaxFindings,     \* bound on the findings ever stored
    MaxCommits,      \* bound on the transactions of other processes
    MaxTime          \* bound on the clock

ASSUME ReviewsAssumption ==
    /\ Unsuppressible \subseteq Kind
    /\ {MaxPerCycle, MaxFindings, MaxCommits, MaxTime} \subseteq Nat

VARIABLES
    db,      \* findings ever stored, by id; the last ids whose rows and whose
             \* evidence retention has taken; rules; commits of other processes
    service, \* the service: its cycle, and its cache of the rules
    now,     \* the clock
    between  \* since the service read the version: the scopes reviewed at some
             \* time (some), the scopes with a rule that was enabled and whose
             \* evidence was there all the time (all)

reviewVars == <<db, service, now, between>>

(* An event is of high signal when a marker of it lifts it out of every rule. *)
Event == [subject : Subject, kind : Kind, high : BOOLEAN]

Forever == MaxTime + 1

NotCached == MaxCommits + 1

ReviewsInit ==
    /\ db = [findings |-> <<>>, noRow |-> 0, noEvidence |-> 0, rules |-> {}, version |-> 0]
    /\ service = [pc |-> "idle", started |-> 0, events |-> {}, hidden |-> {}, version |-> 0,
                  rows |-> {}, cache |-> {}, cached |-> NotCached]
    /\ now = 0
    /\ between = [some |-> {}, all |-> {}]

At(pc) == service.pc = pc

Live(d) == (d.noRow + 1)..Len(d.findings)

-----------------------------------------------------------------------------
(* What a rule hides *)

(* _finding_scoped_kinds: of the evidence of a finding only what its own     *)
(* cycle observed counts, not the context of earlier ones.  Without the row  *)
(* of the finding or the evidence of its cycle there is nothing.             *)
ScopedKinds(d, id) ==
    IF id \in Live(d) /\ id > d.noEvidence
    THEN d.findings[id].kinds \ Unsuppressible
    ELSE {}

Scope(subject, kind, until) == [subject |-> subject, kind |-> kind, until |-> until]

Scopes(d, rows) ==
    UNION {{Scope(d.findings[r.finding].subject, k, r.until) : k \in ScopedKinds(d, r.finding)} :
               r \in rows}

Enabled(d) == {r \in d.rules : r.enabled}

(* event_bypasses_suppression, UNSUPPRESSIBLE_KINDS *)
Bypasses(e) == e.high \/ e.kind \in Unsuppressible

HidesAt(s, e, time) == s.subject = e.subject /\ s.kind = e.kind /\ s.until > time

(* Whoever asks for it has reviewed all kinds its own cycle observed, also *)
(* when the evidence is gone.                                              *)
Reviewed(d) ==
    UNION {{Scope(d.findings[r.finding].subject, k, r.until) :
               k \in d.findings[r.finding].kinds} : r \in Enabled(d)}

(* The scopes that rules have, each with the rule. *)
Effective(d) == {a \in Enabled(d) \X Scopes(d, Enabled(d)) : a[2] \in Scopes(d, {a[1]})}

Filtering == service.pc \in {"query", "resolve", "filter"}

Observed(d) ==
    between' = IF Filtering
               THEN [some |-> between.some \union Reviewed(d),
                     all  |-> between.all \intersect Effective(d)]
               ELSE between

-----------------------------------------------------------------------------
(* A cycle of the service *)

ClockTicks == now < MaxTime /\ now' = now + 1 /\ UNCHANGED <<db, service, between>>

(* The events of the cycle do not depend on the rules: they are chosen when *)
(* they are filtered.                                                       *)
Begin ==
    /\ At("idle")
    /\ service' = [service EXCEPT !.pc = "version", !.started = now]
    /\ UNCHANGED <<db, now, between>>

(* _suppression_rules: the version is read before the rules. *)
ReadVersion ==
    /\ At("version")
    /\ service' = [service EXCEPT
                        !.pc = IF service.cached = db.version THEN "filter" ELSE "query",
                        !.version = db.version]
    /\ between' = [some |-> Reviewed(db), all |-> Effective(db)]
    /\ UNCHANGED <<db, now>>

Query ==
    /\ At("query")
    /\ service' = [service EXCEPT !.pc = "resolve", !.rows = Enabled(db)]
    /\ UNCHANGED <<db, now, between>>

CachedAsOf(read) == db.version

(* The version the cache is filed under. *)
Cached(read) == read

(* The kinds of each rule are read on their own. *)
Resolve ==
    /\ At("resolve")
    /\ service' = [service EXCEPT !.pc = "filter", !.rows = {},
                                  !.cache = Scopes(db, service.rows),
                                  !.cached = Cached(service.version)]
    /\ UNCHANGED <<db, now, between>>

(* filter_suppressed_events, at the time the cycle started *)
Filter ==
    /\ At("filter")
    /\ \E events \in UNION {kSubset(n, Event) : n \in 0..MaxPerCycle} :
          service' = [service EXCEPT
                         !.pc = "filtered", !.events = events,
                         !.hidden = {e \in events :
                                        /\ ~Bypasses(e)
                                        /\ \E s \in service.cache : HidesAt(s, e, service.started)}]
    /\ UNCHANGED <<db, now, between>>

Ended(s) == [s EXCEPT !.pc = "idle", !.events = {}, !.hidden = {}, !.version = 0, !.started = 0]

Forgotten == between' = [some |-> {}, all |-> {}]

-----------------------------------------------------------------------------
(* Cycles are stored, and retention follows *)

(* A finding of the kept events, with what its own cycle observed: of its      *)
(* subject, and perhaps of other subjects with the same actor.                 *)
FindingsFrom(kept) ==
    UNION {{[subject |-> s, kinds |-> {e.kind : e \in about}] :
               about \in {kept, {e \in kept : e.subject = s}}} :
           s \in {e.subject : e \in kept}}

(* A cycle whose scores stay low has no finding.  Retention takes the rows of *)
(* the oldest findings, the oldest evidence, or nothing.                      *)
Stored(kept, own) ==
    \E findings \in {db.findings} \union {Append(db.findings, f) : f \in FindingsFrom(kept)} :
    \E row \in db.noRow..Len(db.findings), evidence \in db.noEvidence..Len(db.findings) :
        /\ Len(findings) <= MaxFindings
        /\ db' = [db EXCEPT !.findings = findings, !.noRow = row, !.noEvidence = evidence,
                            !.version = IF own THEN @ ELSE @ + 1]

Persist ==
    /\ At("filtered")
    /\ Stored(service.events \ service.hidden, TRUE)
    /\ service' = Ended(service)
    /\ Forgotten
    /\ UNCHANGED now

CycleFails ==
    /\ service.pc # "idle"
    /\ service' = Ended([service EXCEPT !.rows = {}])
    /\ Forgotten
    /\ UNCHANGED <<db, now>>

Restart ==
    /\ service' = [Ended(service) EXCEPT !.rows = {}, !.cache = {}, !.cached = NotCached]
    /\ Forgotten
    /\ UNCHANGED <<db, now>>

-----------------------------------------------------------------------------
(* Other processes *)

ReviewedAs(rules, id, until) ==
    {r \in rules : r.finding # id \/ r.until # until}
        \union {[finding |-> id, until |-> until, enabled |-> TRUE]}

Reopened(rules, id) ==
    {IF r.finding = id THEN [r EXCEPT !.enabled = FALSE] ELSE r : r \in rules}

(* quietward incident expected, suppress (until a time) and reopen.  The rule *)
(* of a finding that retention has taken loses its source: nothing reaches it *)
(* any more.                                                                  *)
Review(id) ==
    /\ db.version < MaxCommits
    /\ id \in Live(db)
    /\ \E rules \in {ReviewedAs(db.rules, id, until) : until \in (now + 1)..Forever}
                     \union {Reopened(db.rules, id)} :
          db' = [db EXCEPT !.rules = rules, !.version = @ + 1]
    /\ Observed(db')
    /\ UNCHANGED <<service, now>>

(* The filter of quietward scan (SentinelStore.filter_suppressed_events): the *)
(* rules of quietward incident name no kinds, and without kinds a rule hides  *)
(* all of its subject.                                                        *)
HiddenFromScan(events) ==
    {e \in events :
        /\ e.kind \notin Unsuppressible
        /\ \E r \in Enabled(db) : db.findings[r.finding].subject = e.subject /\ r.until > now}

Scan ==
    /\ db.version < MaxCommits
    /\ \E events \in {{e} : e \in Event} :
          Stored(events \ HiddenFromScan(events), FALSE)
    /\ Observed(db')
    /\ UNCHANGED <<service, now>>

ReviewsNext ==
    \/ ClockTicks \/ Begin \/ ReadVersion \/ Query \/ Resolve \/ Filter
    \/ Persist \/ CycleFails \/ Restart
    \/ \E id \in 1..MaxFindings : Review(id)
    \/ Scan

ReviewsSpec == ReviewsInit /\ [][ReviewsNext]_reviewVars

-----------------------------------------------------------------------------
(* Properties *)

(* What the service hides was reviewed: the subject and the kind are those of   *)
(* a finding's own cycle, its rule was enabled at some time since the service   *)
(* read the version, has not expired when the cycle started, and the event is   *)
(* not one that may never be hidden.  In particular a finding that was reopened *)
(* before the filter hides nothing, however long the rules have been cached.    *)
HiddenWasReviewed ==
    At("filtered") =>
        \A e \in service.hidden :
            ~Bypasses(e) /\ \E s \in between.some : HidesAt(s, e, service.started)

(* Conversely what the service keeps no rule could have hidden all the time    *)
(* since it read the version: a new rule takes effect in the next cycle.       *)
KeptWasNotReviewed ==
    At("filtered") =>
        \A e \in service.events \ service.hidden :
            Bypasses(e) \/ \A a \in between.all : ~HidesAt(a[2], e, service.started)

ReviewsAreRespected == HiddenWasReviewed /\ KeptWasNotReviewed
=============================================================================
