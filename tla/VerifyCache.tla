----------------------------- MODULE VerifyCache -----------------------------
(***************************************************************************)
(* PerformanceSentinelStore.verify_evidence_chain (performance_store.py):  *)
(* a mandatory full audit per interval, in between an answer from memory   *)
(* when nothing changed, else an incremental walk from a checkpoint that   *)
(* falls back to the full audit on a mismatch.                             *)
(*                                                                         *)
(* One process, the service, runs it.  Other processes commit cycles and   *)
(* prune on the same file between any two of its reads; rows may be        *)
(* damaged.  Every read outside a transaction is a step of its own.        *)
(***************************************************************************)
EXTENDS ChainRows

CONSTANTS MaxId,       \* bound on the number of cycles
          MaxDamage,   \* bound on the number of damaging steps
          Others       \* whether other processes write to the file

ASSUME BoundsAssumption == MaxId \in Nat /\ MaxDamage \in Nat /\ Others \in BOOLEAN

VARIABLES db,       \* the database file
          moved,    \* PRAGMA data_version has moved since the store object
                    \* last remembered it (_last_verification_data_version)
          mem,      \* the attributes of the store object and its locals
          report,   \* the validity verify_evidence_chain last returned, none
                    \* while a call reads the tables and once the file has
                    \* changed since
          ghost     \* history: damaging steps so far, whether the damage that
                    \* an audit found is still there, whether others wrote
                    \* during the current call

vars == <<db, moved, mem, report, ghost>>

Init ==
    /\ \E k \in Key \cup {NoKey} : db = Configured(EmptyDb, k, IF k = NoKey THEN 0 ELSE 1)
    /\ moved = FALSE
    /\ mem = [pc     |-> "idle",
              ckId   |-> 0,            \* _verified_cycle_id
              ckHash |-> Genesis,      \* _verified_chain_hash
              fresh  |-> FALSE,        \* a full audit passed within the interval
              dirty  |-> TRUE,         \* _evidence_dirty
              last   |-> "none",       \* _last_verification_result
              start  |-> Genesis,      \* local: the anchor hash that was read
              result |-> "none",       \* local: the walk's outcome
              walked |-> {}]           \* history: the ids of the rows at the last walk
    /\ report = "none"
    /\ ghost = [damages |-> 0, found |-> FALSE, disturbed |-> FALSE]

At(pc) == mem.pc = pc

Verdict(valid) == IF valid THEN "valid" ELSE "invalid"

(* The key the service was opened with is the configured one. *)
ServiceKey == db.signing.key

Garbage == <<"garbage">>

ASSUME GarbageAssumption == Garbage \notin Payload

-----------------------------------------------------------------------------
(* verify_evidence_chain *)

(* A wrong form: other processes' commits are not looked for. *)
UsableUnlessDirty == mem.fresh /\ ~mem.dirty /\ mem.last # "none"

(* _cached_unchanged_verification applies: not dirty, a result is at hand,  *)
(* data_version has not moved.                                             *)
Usable ==
    mem.fresh /\ ~mem.dirty /\ mem.last # "none" /\ ~moved

VerifyCached ==
    /\ At("idle")
    /\ Usable
    /\ report' = mem.last
    /\ UNCHANGED <<db, moved, mem, ghost>>

Begin == /\ ghost' = [ghost EXCEPT !.disturbed = FALSE]
         /\ report' = "none"

(* The full audit is due: read the anchor. *)
VerifyDue ==
    /\ At("idle")
    /\ ~mem.fresh
    /\ mem' = [mem EXCEPT !.pc = "anchored", !.start = db.anchor.hash]
    /\ Begin
    /\ UNCHANGED <<db, moved>>

(* _incremental_verify: the rows above the checkpoint.  A sound walk moves *)
(* the checkpoint to the last row it saw; after a mismatch it stays.       *)
RowsAbove == {i \in DOMAIN db.chain : i > mem.ckId}

LastSeen == Newest({mem.ckId} \cup RowsAbove)

HashSeen == IF RowsAbove = {} THEN mem.ckHash ELSE db.chain[LastSeen].hash

MatchesAbove == Sound(db, mem.ckId, mem.ckHash, db.signing, ServiceKey)

IncrementalDue == At("idle") /\ mem.fresh /\ ~Usable

(* A wrong form: the checkpoint moves over a row that does not match. *)
VerifyIncrementalMovingOn ==
    /\ IncrementalDue
    /\ Begin
    /\ mem' = [mem EXCEPT !.ckId = LastSeen, !.ckHash = HashSeen, !.walked = DOMAIN db.chain,
                          !.pc = IF MatchesAbove THEN "walked" ELSE "mismatch",
                          !.result = IF MatchesAbove THEN "valid" ELSE "none"]
    /\ UNCHANGED <<db, moved>>

VerifyIncremental ==
    /\ IncrementalDue
    /\ Begin
    /\ mem' = IF MatchesAbove
              THEN [mem EXCEPT !.pc = "walked", !.result = "valid", !.walked = DOMAIN db.chain,
                               !.ckId = LastSeen, !.ckHash = HashSeen]
              ELSE [mem EXCEPT !.pc = "mismatch"]
    /\ UNCHANGED <<db, moved>>

(* A wrong form: the incremental answer is returned after a mismatch. *)
NoFallback ==
    /\ At("mismatch")
    /\ mem' = [mem EXCEPT !.pc = "walked", !.result = "invalid", !.walked = DOMAIN db.chain]
    /\ UNCHANGED <<db, moved, report, ghost>>

(* The incremental walk met a mismatch: start the full audit. *)
Fallback ==
    /\ At("mismatch")
    /\ mem' = [mem EXCEPT !.pc = "anchored", !.start = db.anchor.hash]
    /\ UNCHANGED <<db, moved, report, ghost>>

(* A wrong form: the full audit starts from the checkpoint. *)
FullWalkFromCheckpoint ==
    /\ At("anchored")
    /\ LET valid == Sound(db, mem.ckId, IF mem.ckId = 0 THEN mem.start ELSE mem.ckHash,
                          db.signing, ServiceKey)
       IN  mem' = [mem EXCEPT !.pc = IF valid THEN "audited" ELSE "walked",
                              !.result = Verdict(valid), !.walked = DOMAIN db.chain]
    /\ UNCHANGED <<db, moved, report, ghost>>

(* _full_verify: the walk over all rows ... *)
FullWalk ==
    /\ At("anchored")
    /\ LET valid == Sound(db, 0, mem.start, db.signing, ServiceKey)
       IN  mem' = [mem EXCEPT !.pc = IF valid THEN "audited" ELSE "walked",
                              !.result = Verdict(valid), !.walked = DOMAIN db.chain]
    /\ UNCHANGED <<db, moved, report, ghost>>

(* ... and, when it passed, _checkpoint_from_full and the time of the audit. *)
Checkpoint ==
    /\ At("audited")
    /\ LET ids == DOMAIN db.chain
       IN  mem' = [mem EXCEPT !.pc = "walked", !.fresh = TRUE,
                     !.ckId   = IF ids = {} THEN db.anchor.cycle ELSE Newest(ids),
                     !.ckHash = TailHash(db)]
    /\ UNCHANGED <<db, moved, report, ghost>>

(* _remember_verification, and the return. *)
Remember ==
    /\ At("walked")
    /\ mem' = [mem EXCEPT !.pc = "idle", !.last = mem.result, !.dirty = (mem.result # "valid"),
                          !.result = "none"]
    /\ report' = mem.result
    /\ ghost' = [ghost EXCEPT !.found = @ \/ (mem.result = "invalid" /\ ~AuditValid(db))]
    /\ moved' = FALSE
    /\ UNCHANGED db

Verify ==
    \/ VerifyCached \/ VerifyDue \/ VerifyIncremental \/ Fallback
    \/ FullWalk \/ Checkpoint \/ Remember

(* full_audit_interval_seconds have passed since the last full audit. *)
IntervalElapses ==
    /\ mem.fresh
    /\ mem' = [mem EXCEPT !.fresh = FALSE]
    /\ UNCHANGED <<db, moved, report, ghost>>

-----------------------------------------------------------------------------
(* persist_cycle, persist_quiet_cycle and force_maintenance_prune of the   *)
(* service: the transaction, then _mark_evidence_dirty.  data_version does *)
(* not move for a process's own commits.                                   *)

(* What was found is there until an audit with the key would pass again. *)
StillFound == [ghost EXCEPT !.found = @ /\ ~AuditValid(db')]

Aged == {{}} \cup {{i} : i \in db.cycles}

Persist(p) ==
    /\ At("idle")
    /\ db.lastId < MaxId
    /\ LET d == Appended(db, p, ServiceKey)
       IN  db' \in {Pruned(d, aged) : aged \in Aged} \cup {d}
    /\ mem' = [mem EXCEPT !.dirty = TRUE]
    /\ report' = "none"
    /\ ghost' = StillFound
    /\ UNCHANGED moved

ForcePrune ==
    /\ At("idle")
    /\ db' \in {Pruned(db, aged) : aged \in Aged}
    /\ mem' = [mem EXCEPT !.dirty = TRUE]
    /\ report' = "none"
    /\ ghost' = StillFound
    /\ UNCHANGED moved

(* Another process (quietward scan) commits a cycle and prunes. *)
OtherPersists(p) ==
    /\ Others
    /\ db.lastId < MaxId
    /\ db' \in {Pruned(Appended(db, p, ServiceKey), aged) : aged \in Aged}
    /\ moved' = TRUE
    /\ ghost' = [StillFound EXCEPT !.disturbed = @ \/ ~At("idle")]
    /\ report' = "none"
    /\ UNCHANGED mem

(* A retained row changes outside the program: through SQLite, which moves *)
(* data_version, or underneath it.                                         *)
Damage(i) ==
    /\ ghost.damages < MaxDamage
    /\ \/ db' = [db EXCEPT !.chain[i].payload = Garbage]
       \/ db' = [db EXCEPT !.chain[i].hash = Garbage]
    /\ moved' \in {moved, TRUE}
    /\ ghost' = [StillFound EXCEPT !.damages = @ + 1, !.disturbed = @ \/ ~At("idle")]
    /\ report' = "none"
    /\ UNCHANGED mem

Next ==
    \/ Verify
    \/ IntervalElapses
    \/ \E p \in Payload : Persist(p) \/ OtherPersists(p)
    \/ ForcePrune
    \/ \E i \in DOMAIN db.chain : Damage(i)

Spec == Init /\ [][Next]_vars

(* Every cycle of the service verifies, and time passes. *)
FairSpec == Spec /\ WF_vars(Verify) /\ WF_vars(IntervalElapses)

-----------------------------------------------------------------------------
(* Properties *)

(* No false alarm: unless a row was damaged, or another process wrote      *)
(* while the call was between two of its reads, the store never calls the  *)
(* chain invalid - not when its checkpoint was pruned away under it by its *)
(* own or others' retention, nor when rows it never saw were pruned.       *)
NoFalseAlarm ==
    report = "invalid" => ghost.damages > 0 \/ ghost.disturbed

(* A damage that was reported stays reported: no cached or incremental     *)
(* answer calls the chain valid again while a full audit would still fail. *)
(* (Pruning the damaged row ends it.)                                      *)
FoundDamageStaysReported == ghost.found => report # "valid"

(* Damage cannot hide behind the cache or the checkpoint for ever: it is    *)
(* reported, or retention removes it.                                      *)
DamageIsReported ==
    ~AuditValid(db) ~> (report = "invalid" \/ AuditValid(db))

(* "New durable rows or external SQLite changes invalidate the cache"      *)
(* (docs/releases/v0.5.0-alpha.1.md): while an answer from memory would be *)
(* given, the retained cycles are those that were walked - provided nobody *)
(* wrote while they were walked.                                           *)
CachedAnswerIsAboutTheseRows ==
    At("idle") /\ Usable /\ ~ghost.disturbed => mem.walked = DOMAIN db.chain
=============================================================================
