---------------------------- MODULE HandoffOutbox ----------------------------
(***************************************************************************)
(* scripts/run_response_handoff_outbox.py: an exporter follows the         *)
(* evidence chain on a read-only connection, writes a file for every cycle *)
(* with findings into an outbox directory and keeps a ledger of how far it *)
(* came.  QuietWard Response takes the files away.  Meanwhile the service  *)
(* commits cycles and prunes.                                              *)
(*                                                                         *)
(* Every query of the exporter outside a cursor is a step of its own; the  *)
(* cursor over the rows to export holds one read snapshot.  The process    *)
(* ends at the first OutboxError and systemd starts it again.              *)
(***************************************************************************)
EXTENDS ChainRows, FiniteSetsExt

CONSTANTS Exporter,     \* the running exporters: the daemon, a manual --once
          Reportable,   \* the payloads that have findings to hand over
          Incompatible, \* the payloads that _bundle refuses: cross-host, a bad host id
          Oversized,    \* the payloads whose file would exceed MAX_HANDOFF_BYTES
          MaxPending,   \* max_pending_files
          MaxId,        \* bound on the number of cycles
          MaxCrashes,   \* bound on crashes of exporters
          MaxUpgrades   \* bound on upgrades (__version__ is in every file)

ASSUME OutboxAssumption ==
    /\ Reportable \subseteq Payload
    /\ Incompatible \subseteq Reportable /\ Oversized \subseteq Reportable
    /\ MaxPending \in Nat \ {0}
    /\ MaxId \in Nat /\ MaxCrashes \in Nat /\ MaxUpgrades \in Nat

VARIABLES db,      \* the database file
          ledger,  \* the state file: the last cycle and its chain hash
          files,   \* the outbox: cycle id -> the version that wrote the file
          exp,     \* what each exporter holds in memory
          version, \* the installed __version__
          hist     \* history: payload and deliveries of each cycle; crashes

vars == <<db, ledger, files, exp, version, hist>>

NoLedger == [exists |-> FALSE, cycle |-> 0, hash |-> Genesis]

Idle == [pc |-> "idle", ledger |-> NoLedger, pending |-> 0, anchor |-> 0,
         start |-> Genesis, max |-> 0, last |-> 0, rows |-> EmptyTable, existed |-> FALSE]

Init ==
    /\ db = EmptyDb
    /\ ledger = NoLedger
    /\ files = EmptyTable
    /\ exp = [e \in Exporter |-> Idle]
    /\ version = 0
    /\ hist = [written |-> EmptyTable, delivered |-> [c \in 1..MaxId |-> 0], crashes |-> 0]

At(e, pc) == exp[e].pc = pc

(* The exporter goes on; the table, the ledger and the outbox stay. *)
Reads(e, mem) == exp' = [exp EXCEPT ![e] = mem] /\ UNCHANGED <<db, ledger, files, version, hist>>

(* If the check passes the exporter goes on, else it raises OutboxError. *)
ReadsIf(check, e, mem) == Reads(e, IF check THEN mem ELSE Idle)

-----------------------------------------------------------------------------
(* export_once *)

(* _load_state, and the count of the files that are there. *)
Load(e) ==
    /\ At(e, "idle")
    /\ Reads(e, [Idle EXCEPT !.pc = "loaded", !.ledger = ledger,
                             !.pending = Cardinality(DOMAIN files)])

(* _verify_evidence_chain: the two metadata rows of the anchor (a store    *)
(* that was never pruned has neither), then the rows.                      *)
ReadAnchorCycle(e) ==
    /\ At(e, "loaded")
    /\ Reads(e, [exp[e] EXCEPT !.pc = "anchored", !.anchor = db.anchor.cycle])

ReadAnchorHash(e) ==
    /\ At(e, "anchored")
    /\ ReadsIf((exp[e].anchor = 0) = (db.anchor.cycle = 0),
               e, [exp[e] EXCEPT !.pc = "verifying", !.start = db.anchor.hash])

Unsigned == [key |-> NoKey, from |-> 0]

VerifyRows(e) ==
    /\ At(e, "verifying")
    /\ ReadsIf(Sound(db, 0, exp[e].start, Unsigned, NoKey),
               e, [exp[e] EXCEPT !.pc = "verified",
                                 !.max = Newest({exp[e].anchor} \cup DOMAIN db.chain)])

(* _resolve_start_cycle *)
Follows(e) ==
    LET c == exp[e].ledger.cycle
    IN  /\ c <= exp[e].max
        /\ c >= exp[e].anchor
        /\ \/ c = exp[e].anchor /\ exp[e].ledger.hash = exp[e].start
           \/ c # exp[e].anchor /\ c \in DOMAIN db.chain /\ exp[e].ledger.hash = db.chain[c].hash

(* A wrong form: an exporter without a ledger starts at the newest cycle. *)
ResolveFromNewest(e) ==
    /\ At(e, "verified")
    /\ IF exp[e].ledger.exists
       THEN ReadsIf(Follows(e), e, [exp[e] EXCEPT !.pc = "resolved", !.last = exp[e].ledger.cycle])
       ELSE Reads(e, [exp[e] EXCEPT !.pc = "resolved", !.last = exp[e].max])

Resolve(e) ==
    /\ At(e, "verified")
    /\ IF exp[e].ledger.exists
       THEN ReadsIf(Follows(e), e, [exp[e] EXCEPT !.pc = "resolved", !.last = exp[e].ledger.cycle])
       ELSE Reads(e, [exp[e] EXCEPT !.pc = "resolved", !.last = exp[e].anchor])

(* The cursor over the rows to export. *)
OpenRows(e) ==
    /\ At(e, "resolved")
    /\ Reads(e, [exp[e] EXCEPT !.pc = "exporting", !.rows = Above(db.chain, exp[e].last)])

Next_(e) == Min(DOMAIN exp[e].rows)

HasRows(e) == At(e, "exporting") /\ exp[e].rows # EmptyTable

HasFindings(e) == exp[e].rows[Next_(e)].payload \in Reportable

Refused(e) == exp[e].rows[Next_(e)].payload \in Incompatible

Full(e) == Next_(e) \notin DOMAIN files /\ exp[e].pending >= MaxPending

ToWrite(e) == [exp[e] EXCEPT !.pc = "writing", !.existed = Next_(e) \in DOMAIN files]

(* A wrong form: a full outbox loses the cycle. *)
AdmitDropping(e) ==
    /\ HasRows(e)
    /\ IF HasFindings(e) /\ ~Full(e)
       THEN ReadsIf(~Refused(e), e, ToWrite(e))
       ELSE Reads(e, [exp[e] EXCEPT !.pc = "saving"])

(* _bundle refuses a cycle across hosts or with a host id that Response    *)
(* does not take; a cycle without findings has no file; a full outbox      *)
(* stops the exporter.                                                     *)
Admit(e) ==
    /\ HasRows(e)
    /\ IF HasFindings(e)
       THEN ReadsIf(~Refused(e) /\ ~Full(e), e, ToWrite(e))
       ELSE Reads(e, [exp[e] EXCEPT !.pc = "saving"])

Changed(e) == Next_(e) \in DOMAIN files /\ files[Next_(e)] # version

TooLarge(e) == exp[e].rows[Next_(e)].payload \in Oversized

PutFile(e, pending) ==
    /\ exp' = [exp EXCEPT ![e] =
         IF Changed(e) THEN Idle ELSE [exp[e] EXCEPT !.pc = "saving", !.pending = pending]]
    /\ files' = IF Next_(e) \in DOMAIN files THEN files ELSE Extended(files, Next_(e), version)
    /\ UNCHANGED <<db, ledger, version, hist>>

(* A wrong form: written files do not count until the next pass. *)
WriteUncounted(e) ==
    /\ At(e, "writing")
    /\ IF TooLarge(e) THEN Reads(e, Idle) ELSE PutFile(e, exp[e].pending)

(* _atomic_json, exclusive: the size limit comes first; a file of the same *)
(* cycle must be the same, byte for byte.                                  *)
Write(e) ==
    /\ At(e, "writing")
    /\ IF TooLarge(e) THEN Reads(e, Idle)
       ELSE PutFile(e, IF exp[e].existed THEN exp[e].pending ELSE exp[e].pending + 1)

Saved(c, hash) == [exists |-> TRUE, cycle |-> c, hash |-> hash]

NextRow(e) == [exp[e] EXCEPT !.pc = "exporting", !.rows = Above(exp[e].rows, Next_(e))]

(* A wrong form: the ledger is saved when the last row is done. *)
SaveAtTheEnd(e) ==
    /\ At(e, "saving")
    /\ ledger' = IF Above(exp[e].rows, Next_(e)) = EmptyTable
                 THEN Saved(Next_(e), exp[e].rows[Next_(e)].hash) ELSE ledger
    /\ exp' = [exp EXCEPT ![e] = NextRow(e)]
    /\ UNCHANGED <<db, files, version, hist>>

(* _save_state *)
Save(e) ==
    /\ At(e, "saving")
    /\ ledger' = Saved(Next_(e), exp[e].rows[Next_(e)].hash)
    /\ exp' = [exp EXCEPT ![e] = NextRow(e)]
    /\ UNCHANGED <<db, files, version, hist>>

Finish(e) ==
    /\ At(e, "exporting")
    /\ exp[e].rows = EmptyTable
    /\ Reads(e, Idle)

Export(e) ==
    \/ Load(e) \/ ReadAnchorCycle(e) \/ ReadAnchorHash(e) \/ VerifyRows(e)
    \/ Resolve(e) \/ OpenRows(e) \/ Admit(e) \/ Write(e) \/ Save(e) \/ Finish(e)

-----------------------------------------------------------------------------
(* Around the exporters *)

(* The process dies between two steps; what it held is gone. *)
Crash(e) ==
    /\ ~At(e, "idle")
    /\ hist.crashes < MaxCrashes
    /\ exp' = [exp EXCEPT ![e] = Idle]
    /\ hist' = [hist EXCEPT !.crashes = @ + 1]
    /\ UNCHANGED <<db, ledger, files, version>>

(* A new version is installed while no exporter runs. *)
Upgrade ==
    /\ version < MaxUpgrades
    /\ \A e \in Exporter : At(e, "idle")
    /\ version' = version + 1
    /\ UNCHANGED <<db, ledger, files, exp, hist>>

(* The service commits a cycle, with retention. *)
Commit(p) ==
    /\ db.lastId < MaxId
    /\ db' = Pruned(Appended(db, p, NoKey), {})
    /\ hist' = [hist EXCEPT !.written = Extended(@, db.lastId + 1, p)]
    /\ UNCHANGED <<ledger, files, exp, version>>

(* QuietWard Response ingests a file and removes it. *)
Ingest(c) ==
    /\ c \in DOMAIN files
    /\ files' = [f \in DOMAIN files \ {c} |-> files[f]]
    /\ hist' = [hist EXCEPT !.delivered[c] = @ + 1]
    /\ UNCHANGED <<db, ledger, exp, version>>

Next ==
    \/ \E e \in Exporter : Export(e) \/ Crash(e)
    \/ Upgrade
    \/ \E p \in Payload : Commit(p)
    \/ \E c \in DOMAIN files : Ingest(c)

Spec == Init /\ [][Next]_vars

(* Exporters are started again and again; Response works through the files. *)
FairSpec ==
    /\ Spec
    /\ \A e \in Exporter : WF_vars(Export(e))
    /\ \A c \in 1..MaxId : WF_vars(Ingest(c))

-----------------------------------------------------------------------------
(* Properties *)

(* Types, and the ledger names a cycle of the chain with that cycle's hash *)
(* as long as the cycle is retained.                                       *)
TypeOK ==
    /\ ledger.exists \in BOOLEAN
    /\ ledger.cycle \in 0..db.lastId
    /\ ledger.cycle \in DOMAIN db.chain => ledger.hash = db.chain[ledger.cycle].hash
    /\ DOMAIN files \subseteq {c \in 1..db.lastId : hist.written[c] \in Reportable}
    /\ \A c \in DOMAIN files : files[c] \in 0..version
    /\ \A e \in Exporter : exp[e].pending \in Nat

HandedOver(c) == c \in DOMAIN files \/ hist.delivered[c] > 0

(* "The exporter fails closed rather than silently dropping findings"      *)
(* (docs/V06_RESPONSE_HANDOFF.md): every retained cycle with findings that *)
(* the ledger is past is in the outbox or was ingested - with two          *)
(* exporters, a full outbox, crashes and retention at any time.            *)
RetainedFindingsAreHandedOver ==
    \A c \in DOMAIN db.chain :
        c <= ledger.cycle /\ db.chain[c].payload \in Reportable => HandedOver(c)

(* "Backpressure is bounded": with one exporter the outbox never holds     *)
(* more than max_pending_files files, although its count is stale.         *)
PendingIsBounded == Cardinality(DOMAIN files) <= MaxPending

Copies(c) == hist.delivered[c] + (IF c \in DOMAIN files THEN 1 ELSE 0)

(* The copies of the cycles' files, delivered or in the outbox, beyond each *)
(* cycle's first.                                                           *)
Repeats == UNION {{c} \X (2..Copies(c)) : c \in 1..MaxId}

(* A finding is handed over once: with one exporter every repetition is    *)
(* paid for by a crash between a file and the ledger, one at most each.    *)
RepetitionNeedsACrash == Cardinality(Repeats) <= hist.crashes

(* Every finding reaches Response, whatever crashes, upgrades and full     *)
(* outboxes come between - unless retention overtakes the exporter (the    *)
(* cycle was pruned, or the ledger is behind the anchor and the exporter   *)
(* fails closed for good), or a cycle in front of it blocks the exporter:  *)
(* one that _bundle refuses or whose file is too large ends every pass at  *)
(* the same row, and what comes after it waits.                            *)
Overtaken(c) ==
    c \notin DOMAIN db.chain \/ (ledger.exists /\ ledger.cycle < db.anchor.cycle)

Blocked(c) ==
    \E b \in DOMAIN db.chain :
        ledger.cycle < b /\ b <= c /\ db.chain[b].payload \in Incompatible \cup Oversized

EveryFindingIsDelivered ==
    \A c \in 1..MaxId :
        (c \in DOMAIN hist.written /\ hist.written[c] \in Reportable)
            ~> (hist.delivered[c] > 0 \/ Overtaken(c) \/ Blocked(c))
=============================================================================
