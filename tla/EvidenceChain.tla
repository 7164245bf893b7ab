---------------------------- MODULE EvidenceChain ----------------------------
(***************************************************************************)
(* SentinelStore (storage.py) as several processes use it at once on one   *)
(* SQLite file: the service, a `quietward scan' that persists a cycle of   *)
(* its own, dashboards and CLI commands that audit.  Each is a connection. *)
(*                                                                         *)
(* A write transaction is one step: the first INSERT takes SQLite's write  *)
(* lock and every read that follows in the transaction sees what it        *)
(* writes on.  Reads outside a transaction are steps of their own, as they *)
(* are in the code: the MAX(id) that _configure_signing reads before it    *)
(* writes the metadata, the signing requirement that persist_cycle checks  *)
(* before its transaction, and the anchor, the signing metadata and the    *)
(* rows that an audit reads one after the other.                           *)
(***************************************************************************)
EXTENDS ChainRows

CONSTANTS Conn,        \* the processes that open the store
          Throttled,   \* those whose store is a MaintenanceSentinelStore
          Signer,      \* what a connection may be opened with: keys, NoKey
          MaxId        \* bound on the number of cycles

ASSUME ThrottledAssumption == Throttled \subseteq Conn
ASSUME SignerAssumption == Signer \subseteq Key \cup {NoKey}
ASSUME MaxIdAssumption == MaxId \in Nat

VARIABLES db,        \* the database file, a record of ChainRows
          conn,      \* what each process holds in memory
          written    \* history: the payload each cycle was committed with

vars == <<db, conn, written>>

Phase == {"closed", "configuring", "open", "persisting", "anchored", "walking"}

NoMeta == [key |-> NoKey, from |-> 0]

(* What a process holds: where it is, its signer, the locals of the        *)
(* operation in progress and the verdict of its last audit.                *)
Mem(pc, key, from, start, meta, report) ==
    [pc |-> pc, key |-> key, from |-> from, start |-> start, meta |-> meta, report |-> report]

Closed == Mem("closed", NoKey, 0, Genesis, NoMeta, "none")

Opened(key, report) == Mem("open", key, 0, Genesis, NoMeta, report)

Init ==
    /\ db = EmptyDb
    /\ conn = [c \in Conn |-> Closed]
    /\ written = EmptyTable

At(c, phase) == conn[c].pc = phase

(* Back to the idle state; the locals of the operation are dropped. *)
Idle(c, report) == Opened(conn[c].key, report)

-----------------------------------------------------------------------------
(* __init__ and _configure_signing *)

(* The metadata is configured, or this store has no signer.  A signer that *)
(* differs from the configured one raises: the connection stays closed.    *)
Open(c, k) ==
    /\ At(c, "closed")
    /\ db.signing.key # NoKey \/ k = NoKey
    /\ (db.signing.key # NoKey /\ k # NoKey) => k = db.signing.key
    /\ conn' = [conn EXCEPT ![c] = Opened(k, "none")]
    /\ UNCHANGED <<db, written>>

(* Not configured yet and a signer is at hand: read MAX(id). *)
ConfigureRead(c, k) ==
    /\ At(c, "closed")
    /\ db.signing.key = NoKey
    /\ k # NoKey
    /\ conn' = [conn EXCEPT ![c] =
         Mem("configuring", k, Newest({0} \cup db.cycles) + 1, Genesis, NoMeta, "none")]
    /\ UNCHANGED <<db, written>>

(* The transaction that writes the three metadata rows. *)
ConfigureWrite(c) ==
    /\ At(c, "configuring")
    /\ db' = Configured(db, conn[c].key, conn[c].from)
    /\ conn' = [conn EXCEPT ![c] = Idle(c, "none")]
    /\ UNCHANGED written

-----------------------------------------------------------------------------
(* persist_cycle, and persist_quiet_cycle of the maintenance store, which  *)
(* writes the same rows for a payload that refers to a snapshot.           *)

(* The checks before the transaction.  Without a signer a store whose      *)
(* metadata requires signatures raises, and nothing changes.               *)
PersistWithoutCheck(c) ==
    /\ At(c, "open")
    /\ db.lastId < MaxId
    /\ conn' = [conn EXCEPT ![c] =
         Mem("persisting", conn[c].key, 0, Genesis, NoMeta, conn[c].report)]
    /\ UNCHANGED <<db, written>>

PersistCheck(c) ==
    /\ At(c, "open")
    /\ db.lastId < MaxId
    /\ db.signing.key # NoKey => conn[c].key # NoKey
    /\ conn' = [conn EXCEPT ![c] =
         Mem("persisting", conn[c].key, 0, Genesis, NoMeta, conn[c].report)]
    /\ UNCHANGED <<db, written>>

(* _prune_locked at the end of the transaction.  MaintenanceSentinelStore  *)
(* skips it when it has pruned within prune_interval_seconds.              *)
AfterPrune(c, d) ==
    {Pruned(d, aged) : aged \in {{}} \cup {{i} : i \in d.cycles}}
        \cup (IF c \in Throttled THEN {d} ELSE {})

PersistCommit(c, p) ==
    /\ At(c, "persisting")
    /\ db.lastId < MaxId
    /\ db' \in AfterPrune(c, Appended(db, p, conn[c].key))
    /\ written' = Extended(written, db.lastId + 1, p)
    /\ conn' = [conn EXCEPT ![c] = Idle(c, conn[c].report)]

(* An exception inside the transaction: it is rolled back. *)
PersistAbort(c) ==
    /\ At(c, "persisting")
    /\ conn' = [conn EXCEPT ![c] = Idle(c, conn[c].report)]
    /\ UNCHANGED <<db, written>>

(* force_maintenance_prune *)
ForcePrune(c) ==
    /\ At(c, "open")
    /\ c \in Throttled
    /\ \E aged \in {{}} \cup {{i} : i \in db.cycles} : db' = Pruned(db, aged)
    /\ UNCHANGED <<conn, written>>

-----------------------------------------------------------------------------
(* verify_evidence_chain: the anchor, then the signing metadata, then the  *)
(* rows.  The cursor over the rows holds one read snapshot to its end.     *)

AuditAnchor(c) ==
    /\ At(c, "open")
    /\ conn' = [conn EXCEPT ![c] =
         Mem("anchored", conn[c].key, 0, db.anchor.hash, NoMeta, conn[c].report)]
    /\ UNCHANGED <<db, written>>

AuditMeta(c) ==
    /\ At(c, "anchored")
    /\ conn' = [conn EXCEPT ![c] =
         Mem("walking", conn[c].key, 0, conn[c].start, db.signing, conn[c].report)]
    /\ UNCHANGED <<db, written>>

AuditRows(c) ==
    /\ At(c, "walking")
    /\ LET valid == Sound(db, 0, conn[c].start, conn[c].meta, conn[c].key)
       IN  conn' = [conn EXCEPT ![c] = Idle(c, IF valid THEN "valid" ELSE "invalid")]
    /\ UNCHANGED <<db, written>>

(* close, or the process dies: SQLite rolls an open transaction back. *)
Close(c) ==
    /\ ~At(c, "closed")
    /\ conn' = [conn EXCEPT ![c] = Closed]
    /\ UNCHANGED <<db, written>>

Step(c) ==
    \/ \E k \in Signer : Open(c, k) \/ ConfigureRead(c, k)
    \/ ConfigureWrite(c)
    \/ PersistCheck(c)
    \/ \E p \in Payload : PersistCommit(c, p)
    \/ PersistAbort(c)
    \/ ForcePrune(c)
    \/ AuditAnchor(c)
    \/ AuditMeta(c)
    \/ AuditRows(c)
    \/ Close(c)

Next == \E c \in Conn : Step(c)

Spec == Init /\ [][Next]_vars

-----------------------------------------------------------------------------
(* Properties *)

ConnOK(r) ==
    /\ r = [pc |-> r.pc, key |-> r.key, from |-> r.from, start |-> r.start,
            meta |-> r.meta, report |-> r.report]
    /\ r.pc \in Phase
    /\ r.key \in Key \cup {NoKey}
    /\ r.pc = "configuring" => r.key # NoKey
    /\ r.from \in 0..(MaxId + 1)
    /\ r.report \in {"none", "valid", "invalid"}

DbOK(d) ==
    /\ d.lastId \in 0..MaxId
    /\ d.cycles \subseteq 1..d.lastId
    /\ DOMAIN d.chain \subseteq d.cycles
    /\ DOMAIN d.sigs \subseteq d.cycles
    /\ \A i \in DOMAIN d.chain : d.chain[i].payload \in Payload
    /\ \A i \in DOMAIN d.sigs : d.sigs[i].key \in Key
    /\ d.anchor.cycle \in 0..d.lastId
    /\ d.signing.key \in Key \cup {NoKey}
    /\ d.signing.from \in 0..(MaxId + 1)

(* Every variable has its type; ids stay within the AUTOINCREMENT          *)
(* sequence, and the history has one payload per id ever given.            *)
TypeOK ==
    /\ DbOK(db)
    /\ conn = [c \in Conn |-> conn[c]]
    /\ \A c \in Conn : ConnOK(conn[c])
    /\ DOMAIN written = 1..db.lastId

(* Whatever the processes do at the same time, with or without keys, the   *)
(* rows left after any prune (storage.py 901-942) link from the anchor to  *)
(* the newest row with correct hashes: an audit that looks at links only   *)
(* passes in every state.                                                  *)
LinksVerify == Sound(db, 0, db.anchor.hash, NoMeta, NoKey)

(* A step that moves the anchor leaves at most max_cycles cycles.          *)
RetentionBounded ==
    [][db'.anchor # db.anchor => Cardinality(db'.cycles) <= MaxCycles]_vars

(* The chain is an append-only log of which a suffix is retained, and the  *)
(* anchor is exactly where the retained part begins: no operation changes, *)
(* reorders or drops a row in the middle.                                  *)
Log == INSTANCE EvidenceLog WITH
         head     <- db.lastId,
         base     <- db.anchor.cycle,
         retained <- [i \in DOMAIN db.chain |-> db.chain[i].payload]

ImplementsLog == Log!Spec
=============================================================================
