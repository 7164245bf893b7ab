--------------------------- MODULE EvidenceDamage ---------------------------
(***************************************************************************)
(* EvidenceChain on a file whose rows may change outside the program: a    *)
(* restored backup, a bad sector, a row edited or lost.  The tables are    *)
(* the only thing that is damaged; the operations are those of             *)
(* EvidenceChain, and they run on over the damage.                         *)
(***************************************************************************)
EXTENDS EvidenceChain

CONSTANT MaxDamage     \* bound on the number of damaging steps

VARIABLE damages

dvars == <<vars, damages>>

(* What damage leaves in a column of row i: no digest, and nothing that    *)
(* damage to another row leaves.                                           *)
Garbage(i) == <<"garbage", i>>

DamagedInit == Init /\ damages = 0

Undamaged == Next /\ UNCHANGED damages

Damages(d) ==
    /\ damages < MaxDamage
    /\ damages' = damages + 1
    /\ db' = d
    /\ UNCHANGED <<conn, written>>

WithRow(i, row) == [db EXCEPT !.chain = [db.chain EXCEPT ![i] = row]]

(* One column of one row holds something else. *)
DamageField(i) ==
    LET row == db.chain[i]
    IN  \/ \E p \in Payload \ {row.payload} : Damages(WithRow(i, [row EXCEPT !.payload = p]))
        \/ Damages(WithRow(i, [row EXCEPT !.previous = Garbage(i)]))
        \/ Damages(WithRow(i, [row EXCEPT !.payloadHash = Garbage(i)]))
        \/ Damages(WithRow(i, [row EXCEPT !.hash = Garbage(i)]))

SignedRow(i) == db.signing.key # NoKey /\ i >= db.signing.from

(* A whole row is replaced by one that is consistent in itself and with    *)
(* its predecessor.  The newest row is exempt unless it is signed: nothing *)
(* in the store witnesses it ("unsigned chains remain locally              *)
(* tamper-evident only").                                                  *)
ReplaceRow(i, p) ==
    /\ SignedRow(i) \/ i # Newest(DOMAIN db.chain)
    /\ p # db.chain[i].payload
    /\ LET prev == PreviousInWalk(db, 0, db.anchor.hash, i)
       IN  Damages(WithRow(i, [previous    |-> prev,
                               payloadHash |-> PayloadHash(p),
                               hash        |-> ChainHash(prev, PayloadHash(p), i),
                               payload     |-> p]))

(* A row is lost; the foreign key of evidence_signatures cascades.  The    *)
(* loss of the newest row is outside what the walk can see.                *)
LoseRow(i) ==
    /\ i # Newest(DOMAIN db.chain)
    /\ Damages([db EXCEPT !.chain = [j \in DOMAIN db.chain \ {i} |-> db.chain[j]],
                          !.sigs  = [j \in DOMAIN db.sigs \ {i} |-> db.sigs[j]]])

Damage ==
    \E i \in DOMAIN db.chain :
        \/ DamageField(i)
        \/ \E p \in Payload : ReplaceRow(i, p)
        \/ LoseRow(i)

DamagedNext == Undamaged \/ Damage

DamagedSpec == DamagedInit /\ [][DamagedNext]_dvars

-----------------------------------------------------------------------------
(* With one process at a time - restarted, with and without a key - an     *)
(* undamaged chain passes an audit with the configured key in every state, *)
(* signatures included: earlier cycles stay valid unsigned history and     *)
(* every later one is signed (docs/EVIDENCE_INTEGRITY.md).                 *)
UndamagedChainVerifies == damages = 0 => AuditValid(db)

(* The audit of such a process reports a fault only when there is one, or  *)
(* when it does not hold the configured key.                               *)
NoFalseAlarm ==
    \A c \in Conn : conn[c].report = "invalid" => damages > 0 \/ conn[c].key # db.signing.key

(* Damage is never laundered: when an audit with the configured key passes *)
(* - after any further cycles, prunes, restarts and further damage - the   *)
(* retained rows are the cycles as they were committed, none missing       *)
(* between the anchor and the newest (storage.py 482-559).                 *)
AuditExposesDamage ==
    AuditValid(db) =>
        /\ \A i \in DOMAIN db.chain : db.chain[i].payload = written[i]
        /\ DOMAIN db.chain = (db.anchor.cycle + 1)..db.lastId
=============================================================================
