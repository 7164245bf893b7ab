------------------------------ MODULE ChainRows ------------------------------
(***************************************************************************)
(* The evidence tables of the QuietWard SQLite store, and the operations   *)
(* of storage.py on them: appending a cycle, pruning, auditing.            *)
(*                                                                         *)
(* A database is a record                                                  *)
(*   lastId   the AUTOINCREMENT sequence of the table cycles               *)
(*   cycles   the ids in the table cycles                                  *)
(*   chain    the table evidence_chain, a function on cycle ids            *)
(*   sigs     the table evidence_signatures, a function on cycle ids       *)
(*   anchor   the metadata evidence_chain_anchor_cycle and _hash           *)
(*   signing  the metadata evidence_signing_key_id and                     *)
(*            evidence_signature_required_from_cycle                       *)
(*                                                                         *)
(* SHA-256 and HMAC-SHA256 are modelled as injective: a digest is the      *)
(* tuple of what was digested.  A payload is a member of Payload; only its *)
(* identity matters to the chain.                                          *)
(***************************************************************************)
EXTENDS Integers, FiniteSets

CONSTANTS Payload,    \* what a cycle's payload_json can be
          Key,        \* the signing keys that exist
          NoKey,      \* a store opened without a signer; metadata not set
          MaxCycles   \* StorageSettings.max_cycles

ASSUME MaxCyclesAssumption == MaxCycles \in Nat \ {0}
ASSUME NoKeyAssumption == NoKey \notin Key

(* Digests. *)
PayloadHash(p) == <<p>>
Genesis == << >>
ChainHash(prev, payloadHash, id) == <<prev, payloadHash, id>>
Mac(key, id, hash) == <<key, id, hash>>

EmptyTable == [i \in {} |-> 0]

EmptyDb == [lastId  |-> 0,
            cycles  |-> {},
            chain   |-> EmptyTable,
            sigs    |-> EmptyTable,
            anchor  |-> [cycle |-> 0, hash |-> Genesis],
            signing |-> [key |-> NoKey, from |-> 0]]

(* ORDER BY id DESC LIMIT 1 on a non-empty set of ids. *)
Newest(ids) == CHOOSE i \in ids : \A j \in ids : j <= i

Extended(table, id, row) ==
    [i \in DOMAIN table \cup {id} |-> IF i = id THEN row ELSE table[i]]

Above(table, id) == [i \in {j \in DOMAIN table : j > id} |-> table[i]]

-----------------------------------------------------------------------------
(* _configure_signing: the transaction that writes the signing metadata.   *)
Configured(d, key, from) ==
    [lastId |-> d.lastId, cycles |-> d.cycles, chain |-> d.chain, sigs |-> d.sigs,
     anchor |-> d.anchor, signing |-> [key |-> key, from |-> from]]

(* persist_cycle: the transaction.                                         *)

(* previous_hash of a new row: the newest row's hash, else the anchor's. *)
TailHashIgnoringAnchor(d) ==
    IF DOMAIN d.chain = {} THEN Genesis ELSE d.chain[Newest(DOMAIN d.chain)].hash

TailHash(d) ==
    IF DOMAIN d.chain = {} THEN d.anchor.hash
                           ELSE d.chain[Newest(DOMAIN d.chain)].hash

(* An id that is MAX(id) + 1 instead of an AUTOINCREMENT id. *)
AppendedReusingId(d, p, key) ==
    LET id   == Newest({0} \cup d.cycles) + 1
        prev == TailHash(d)
        hash == ChainHash(prev, PayloadHash(p), id)
        row  == [previous |-> prev, payloadHash |-> PayloadHash(p),
                 hash |-> hash, payload |-> p]
    IN  [d EXCEPT !.cycles = @ \cup {id}, !.chain = Extended(@, id, row)]

(* The inserts into cycles, evidence_chain and, with a signer, evidence_signatures. *)
Appended(d, p, key) ==
    LET id   == d.lastId + 1
        prev == TailHash(d)
        hash == ChainHash(prev, PayloadHash(p), id)
        row  == [previous |-> prev, payloadHash |-> PayloadHash(p),
                 hash |-> hash, payload |-> p]
    IN  [lastId  |-> id,
         cycles  |-> d.cycles \cup {id},
         chain   |-> Extended(d.chain, id, row),
         sigs    |-> IF key = NoKey THEN d.sigs
                     ELSE Extended(d.sigs, id, [key |-> key, mac |-> Mac(key, id, hash)]),
         anchor  |-> d.anchor,
         signing |-> d.signing]

-----------------------------------------------------------------------------
(* _prune_cycles_locked.  aged is the set of cycles whose completed_at is  *)
(* before the retention cutoff; those beyond the newest MaxCycles go too.  *)

PruneOneTooMany(d, aged) ==
    Newest({0} \cup aged
               \cup {i \in d.cycles : Cardinality({j \in d.cycles : j > i}) >= MaxCycles + 1})

DeleteThrough(d, aged) ==
    Newest({0} \cup aged
               \cup {i \in d.cycles : Cardinality({j \in d.cycles : j > i}) >= MaxCycles})

AnchorNotMoved(d, through) == d.anchor

(* The last chain row that is about to go becomes the anchor. *)
AnchorFor(d, through) ==
    LET gone == {i \in DOMAIN d.chain : i <= through}
    IN  IF gone = {} THEN d.anchor
        ELSE [cycle |-> Newest(gone), hash |-> d.chain[Newest(gone)].hash]

Pruned(d, aged) ==
    LET through == DeleteThrough(d, aged)
    IN  IF through <= 0 THEN d
        ELSE [lastId  |-> d.lastId,
              cycles  |-> {i \in d.cycles : i > through},
              chain   |-> Above(d.chain, through),
              sigs    |-> Above(d.sigs, through),
              anchor  |-> AnchorFor(d, through),
              signing |-> d.signing]

-----------------------------------------------------------------------------
(* verify_evidence_chain.  The walk visits the rows with an id above       *)
(* `after' in order of id, and starts from the hash `start'.  meta is the  *)
(* signing metadata the audit read, key the key the store was opened with. *)

PreviousInWalk(d, after, start, i) ==
    LET older == {j \in DOMAIN d.chain : after < j /\ j < i}
    IN  IF older = {} THEN start ELSE d.chain[Newest(older)].hash

RowSoundSelfOnly(d, i, prev) ==
    LET row == d.chain[i]
    IN  /\ row.payloadHash = PayloadHash(row.payload)
        /\ row.hash = ChainHash(row.previous, PayloadHash(row.payload), i)

RowSound(d, i, prev) ==
    LET row == d.chain[i]
    IN  /\ row.previous = prev
        /\ row.payloadHash = PayloadHash(row.payload)
        /\ row.hash = ChainHash(prev, PayloadHash(row.payload), i)

SignatureSoundFromTheStart(d, i, meta, key) ==
    meta.key # NoKey =>
        /\ i \in DOMAIN d.sigs
        /\ d.sigs[i].key = meta.key
        /\ key = meta.key => d.sigs[i].mac = Mac(key, i, d.chain[i].hash)

SignatureSound(d, i, meta, key) ==
    (meta.key # NoKey /\ i >= meta.from) =>
        /\ i \in DOMAIN d.sigs
        /\ d.sigs[i].key = meta.key
        /\ key = meta.key => d.sigs[i].mac = Mac(key, i, d.chain[i].hash)

Sound(d, after, start, meta, key) ==
    /\ meta.key # NoKey => key = meta.key
    /\ \A i \in DOMAIN d.chain : i > after =>
         /\ RowSound(d, i, PreviousInWalk(d, after, start, i))
         /\ SignatureSound(d, i, meta, key)

(* The report an auditor who holds the configured key gets when nothing    *)
(* else runs meanwhile.                                                    *)
AuditValid(d) == Sound(d, 0, d.anchor.hash, d.signing, d.signing.key)
==============================================================================
