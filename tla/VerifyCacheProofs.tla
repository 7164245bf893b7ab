--------------------------- MODULE VerifyCacheProofs ---------------------------
(***************************************************************************)
(* Proofs about VerifyCache for all keys, payloads, limits and numbers of  *)
(* damaging steps: no false alarm, what was found stays reported, and a    *)
(* cached answer is about the rows that are there.                         *)
(*                                                                         *)
(* The argument: every row is as the program appended it, perhaps damaged  *)
(* since (Linked), so that a walk finds a fault exactly if it meets a      *)
(* damaged column or starts from a hash that is not the first row's        *)
(* predecessor (SoundIsClean).  A walk from a row that was pruned passes   *)
(* only if the whole chain is sound (OldStart).  What the store remembers  *)
(* is a row that was there (Remembered); a checkpoint that met a fault     *)
(* meets it again until retention has passed it (Suspected).                 *)
(* Without damage and disturbance every walk passes (Quiet), a fault that  *)
(* was found keeps the answer from being valid (Reported), and a clean     *)
(* store that nobody has written to since holds what was walked (Current). *)
(***************************************************************************)
EXTENDS VerifyCache, ChainRowsProofs

-----------------------------------------------------------------------------
(* The file.                                                               *)

(* What the hash of row i can be, and the anchor's when it is at i. *)
HashOf(h, i) ==
    \/ h = Garbage
    \/ i = 0 /\ h = Genesis
    \/ \E x, y : h = ChainHash(x, y, i)

(* A row that was appended, and perhaps damaged since. *)
Row(d, i) ==
    LET row == d.chain[i]
        hash == ChainHash(row.previous, row.payloadHash, i)
    IN  /\ row = [previous |-> row.previous, payloadHash |-> row.payloadHash,
                  hash |-> row.hash, payload |-> row.payload]
        /\ row.payload = Garbage \/ row.payloadHash = PayloadHash(row.payload)
        /\ row.payloadHash # PayloadHash(Garbage)
        /\ row.hash = Garbage \/ row.hash = hash
        /\ Before(d, i) = Garbage \/ row.previous = Before(d, i)
        /\ HashOf(row.previous, i - 1)
        /\ d.signing.key # NoKey =>
             /\ i \in DOMAIN d.sigs
             /\ d.sigs[i] = [key |-> d.signing.key, mac |-> Mac(d.signing.key, i, hash)]

Linked(d) ==
    /\ d = [lastId |-> d.lastId, cycles |-> d.cycles, chain |-> d.chain,
            sigs |-> d.sigs, anchor |-> d.anchor, signing |-> d.signing]
    /\ d.lastId \in Nat
    /\ d.anchor.cycle \in 0..d.lastId
    /\ d.cycles = Retained(d)
    /\ d.chain = [i \in Retained(d) |-> d.chain[i]]
    /\ HashOf(d.anchor.hash, d.anchor.cycle)
    /\ \A i \in Retained(d) : Row(d, i)

Bad(d, i) == d.chain[i].payload = Garbage \/ d.chain[i].hash = Garbage

(* The first row a walk from `after' sees. *)
First(d, after) == IF after < d.anchor.cycle THEN d.anchor.cycle + 1 ELSE after + 1

(* What such a walk finds out. *)
Clean(d, after, start) ==
    /\ \A i \in Retained(d) : i > after => ~Bad(d, i)
    /\ First(d, after) <= d.lastId => d.chain[First(d, after)].previous = start

LEMMA DigestsDiffer ==
    /\ \A x, y, i, u, v, j : ChainHash(x, y, i) = ChainHash(u, v, j) => i = j
    /\ \A x, y, i : ChainHash(x, y, i) # Garbage
    /\ \A x, y, i : ChainHash(x, y, i) # Genesis
    /\ \A p, q : PayloadHash(p) = PayloadHash(q) => p = q
<1>1. \A x, y, i, u, v, j : ChainHash(x, y, i) = ChainHash(u, v, j) => i = j
  BY DEF ChainHash
<1>2. \A x, y, i : ChainHash(x, y, i) # Garbage
  <2> SUFFICES ASSUME NEW x, NEW y, NEW i PROVE <<x, y, i>> # <<"garbage">>
    BY DEF ChainHash, Garbage
  <2>1. DOMAIN <<x, y, i>> = 1..3 /\ DOMAIN <<"garbage">> = 1..1
    OBVIOUS
  <2> QED
    BY <2>1
<1>3. \A x, y, i : ChainHash(x, y, i) # Genesis
  BY DEF ChainHash, Genesis
<1>4. \A p, q : PayloadHash(p) = PayloadHash(q) => p = q
  BY DEF PayloadHash
<1> QED
  BY <1>1, <1>2, <1>3, <1>4

(* Only what damage leaves can be the hash of two rows. *)
LEMMA HashIsOfOneRow ==
    ASSUME NEW h, NEW a, NEW b, a # b, HashOf(h, a), HashOf(h, b)
    PROVE  h = Garbage
<1>1. h = Genesis => h = Garbage
  <2> SUFFICES ASSUME h = Genesis, h # Garbage PROVE FALSE
    OBVIOUS
  <2>1. a = 0 /\ b = 0
    BY DigestsDiffer DEF HashOf
  <2> QED
    BY <2>1
<1>2. ASSUME NEW x, NEW y, h = ChainHash(x, y, a), NEW u, NEW v, h = ChainHash(u, v, b)
      PROVE  FALSE
  BY <1>2, DigestsDiffer
<1> QED
  BY <1>1, <1>2 DEF HashOf

(* The walk of _incremental_verify and of the full audit finds a fault     *)
(* exactly when a row it sees is damaged or the first one does not follow  *)
(* the hash it starts from.                                                *)
LEMMA SoundIsClean ==
    ASSUME NEW d, Linked(d), NEW after \in Nat, NEW start
    PROVE  Sound(d, after, start, d.signing, d.signing.key) <=> Clean(d, after, start)
<1> DEFINE f == First(d, after)
<1>1. /\ d.lastId \in Nat /\ d.anchor.cycle \in Nat /\ DOMAIN d.chain = Retained(d)
      /\ Retained(d) = (d.anchor.cycle + 1)..d.lastId
  BY DEF Linked, Retained
<1>2. /\ f \in Nat /\ f > after /\ f > d.anchor.cycle
      /\ f <= d.lastId => f \in Retained(d)
      /\ \A i \in Retained(d) : i > after => i >= f
  BY <1>1 DEF First
<1>3. ASSUME NEW i \in Retained(d), i > after
      PROVE  IF i = f THEN PreviousInWalk(d, after, start, i) = start
             ELSE /\ i - 1 \in Retained(d) /\ i - 1 > after
                  /\ PreviousInWalk(d, after, start, i) = d.chain[i - 1].hash
                  /\ Before(d, i) = d.chain[i - 1].hash
  <2> DEFINE older == {j \in DOMAIN d.chain : after < j /\ j < i}
  <2>1. i \in Nat /\ i <= d.lastId /\ i >= f
    BY <1>1, <1>2, <1>3
  <2>2. CASE i = f
    <3>1. older = {}
      BY <1>1, <1>2, <2>2
    <3> QED
      BY <2>2, <3>1 DEF PreviousInWalk
  <2>3. CASE i # f
    <3>1. i - 1 \in Retained(d) /\ i - 1 > after /\ i # d.anchor.cycle + 1
      BY <1>1, <1>2, <2>1, <2>3
    <3>2. older \in SUBSET Int /\ i - 1 \in older /\ \A j \in older : j <= i - 1
      BY <1>1, <2>1, <3>1
    <3>3. Newest(older) = i - 1 /\ older # {}
      <4> HIDE DEF older
      <4> QED BY <3>2, NewestIsMaximum
    <3> QED
      BY <2>3, <3>1, <3>3 DEF PreviousInWalk, Before
  <2> QED
    BY <2>2, <2>3
<1> HIDE DEF f
<1>4. ASSUME Sound(d, after, start, d.signing, d.signing.key) PROVE Clean(d, after, start)
  <2>1. ASSUME NEW i \in Retained(d), i > after PROVE ~Bad(d, i)
    <3>1. RowSound(d, i, PreviousInWalk(d, after, start, i)) /\ Row(d, i)
      BY <1>1, <1>4, <2>1 DEF Sound, Linked
    <3> QED
      BY <3>1, DigestsDiffer DEF RowSound, Row, Bad
  <2>2. ASSUME f <= d.lastId PROVE d.chain[f].previous = start
    <3>1. RowSound(d, f, PreviousInWalk(d, after, start, f))
      BY <1>1, <1>2, <1>4, <2>2 DEF Sound
    <3> QED
      BY <1>2, <1>3, <2>2, <3>1 DEF RowSound
  <2> QED
    BY <2>1, <2>2 DEF Clean, f
<1>5. ASSUME Clean(d, after, start) PROVE Sound(d, after, start, d.signing, d.signing.key)
  <2> SUFFICES ASSUME NEW i \in Retained(d), i > after
               PROVE  /\ RowSound(d, i, PreviousInWalk(d, after, start, i))
                      /\ SignatureSound(d, i, d.signing, d.signing.key)
    BY <1>1 DEF Sound
  <2>1. ~Bad(d, i) /\ Row(d, i) /\ i \in Nat
    BY <1>1, <1>5 DEF Clean, Linked
  <2>2. d.chain[i].previous = PreviousInWalk(d, after, start, i)
    <3>1. CASE i = f
      <4>1. f <= d.lastId
        BY <1>1, <3>1
      <4> QED
        BY <1>3, <1>5, <3>1, <4>1 DEF Clean, f
    <3>2. CASE i # f
      <4>1. /\ i - 1 \in Retained(d) /\ i - 1 > after
            /\ PreviousInWalk(d, after, start, i) = d.chain[i - 1].hash
            /\ Before(d, i) = d.chain[i - 1].hash
        BY <1>3, <3>2
      <4>2. ~Bad(d, i - 1)
        BY <1>5, <4>1 DEF Clean
      <4> QED
        BY <2>1, <4>1, <4>2 DEF Row, Bad
    <3> QED
      BY <3>1, <3>2
  <2>3. RowSound(d, i, PreviousInWalk(d, after, start, i))
    BY <2>1, <2>2 DEF Row, Bad, RowSound
  <2>4. SignatureSound(d, i, d.signing, d.signing.key)
    <3> DEFINE hash == ChainHash(d.chain[i].previous, d.chain[i].payloadHash, i)
               mac  == Mac(d.signing.key, i, hash)
    <3> SUFFICES ASSUME d.signing.key # NoKey
                 PROVE  /\ i \in DOMAIN d.sigs /\ d.sigs[i].key = d.signing.key
                        /\ d.sigs[i].mac = Mac(d.signing.key, i, d.chain[i].hash)
      BY DEF SignatureSound
    <3>1. d.chain[i].hash = hash /\ i \in DOMAIN d.sigs
          /\ d.sigs[i] = [key |-> d.signing.key, mac |-> mac]
      BY <2>1 DEF Row, Bad
    <3> HIDE DEF hash
    <3> QED
      BY <3>1
  <2> QED
    BY <2>3, <2>4
<1> QED
  BY <1>4, <1>5

LEMMA AuditIsClean ==
    ASSUME NEW d, Linked(d)
    PROVE  AuditValid(d) <=> Clean(d, 0, d.anchor.hash)
  BY SoundIsClean DEF AuditValid

(* A walk that starts from the hash of a row that was pruned since, and    *)
(* still finds no fault, has found the chain sound: its first row follows  *)
(* that hash only if both are what damage leaves.                          *)
LEMMA OldStart ==
    ASSUME NEW d, Linked(d), NEW a \in Nat, a < d.anchor.cycle, NEW start, HashOf(start, a),
           NEW after \in Nat, after <= d.anchor.cycle, Clean(d, after, start)
    PROVE  AuditValid(d)
<1> DEFINE f == d.anchor.cycle + 1
<1>1. d.lastId \in Nat /\ d.anchor.cycle \in Nat /\ Retained(d) = f..d.lastId
  BY DEF Linked, Retained
<1>2. First(d, after) = f /\ First(d, 0) = f
  BY <1>1 DEF First
<1>3. \A i \in Retained(d) : i > 0 => ~Bad(d, i)
  BY <1>1 DEF Clean
<1>4. ASSUME f <= d.lastId PROVE d.chain[f].previous = d.anchor.hash
  <2>1. f \in Retained(d) /\ d.chain[f].previous = start /\ Before(d, f) = d.anchor.hash
    BY <1>1, <1>2, <1>4 DEF Clean, Before
  <2>2. Row(d, f) /\ f - 1 = d.anchor.cycle
    BY <1>1, <2>1 DEF Linked
  <2>3. start = Garbage
    BY <1>1, <2>1, <2>2, HashIsOfOneRow DEF Row
  <2> QED
    BY <2>1, <2>2, <2>3 DEF Row
<1> QED
  BY <1>2, <1>3, <1>4, AuditIsClean DEF Clean

-----------------------------------------------------------------------------
(* What a commit, a prune or a damage may do to the file: an anchor moves  *)
(* with its hash, and a retained row keeps its previous hash and its fault. *)
Evolves(d, e) ==
    /\ Linked(e)
    /\ d.lastId <= e.lastId
    /\ d.anchor.cycle <= e.anchor.cycle
    /\ e.anchor.cycle = d.anchor.cycle => e.anchor.hash = d.anchor.hash
    /\ \A i \in Retained(d) \cap Retained(e) :
          /\ e.chain[i].previous = d.chain[i].previous
          /\ Bad(d, i) => Bad(e, i)

LEMMA EvolvesTransitive ==
    ASSUME NEW d, NEW e, NEW g, Linked(d), Evolves(d, e), Evolves(e, g)
    PROVE  Evolves(d, g)
<1>1. /\ d.lastId \in Nat /\ e.lastId \in Nat /\ g.lastId \in Nat
      /\ d.anchor.cycle \in Nat /\ e.anchor.cycle \in Nat /\ g.anchor.cycle \in Nat
  BY DEF Evolves, Linked
<1>2. Retained(d) \cap Retained(g) \subseteq Retained(e)
  BY <1>1 DEF Retained, Evolves
<1>3. \A i \in Retained(d) \cap Retained(g) :
         /\ g.chain[i].previous = d.chain[i].previous
         /\ Bad(d, i) => Bad(g, i)
  BY <1>2 DEF Evolves
<1>4. /\ d.lastId <= g.lastId /\ d.anchor.cycle <= g.anchor.cycle
      /\ g.anchor.cycle = d.anchor.cycle => g.anchor.hash = d.anchor.hash
  BY <1>1 DEF Evolves
<1> QED
  BY <1>3, <1>4 DEF Evolves

(* The hash the next row is to follow. *)
LEMMA TailIsOfLastRow ==
    ASSUME NEW d, Linked(d)
    PROVE  /\ HashOf(TailHash(d), d.lastId)
           /\ TailHash(d) = IF d.anchor.cycle = d.lastId THEN d.anchor.hash
                            ELSE d.chain[d.lastId].hash
<1>1. d.lastId \in Nat /\ d.anchor.cycle \in Nat /\ d.anchor.cycle <= d.lastId
      /\ DOMAIN d.chain = (d.anchor.cycle + 1)..d.lastId
  BY DEF Linked, Retained
<1>2. CASE d.anchor.cycle = d.lastId
  <2>1. DOMAIN d.chain = {}
    BY <1>1, <1>2
  <2> QED
    BY <1>2, <2>1 DEF TailHash, Linked
<1>3. CASE d.anchor.cycle # d.lastId
  <2>1. DOMAIN d.chain # {} /\ Newest(DOMAIN d.chain) = d.lastId /\ d.lastId \in DOMAIN d.chain
    BY <1>1, <1>3, NewestOfInterval
  <2>2. Row(d, d.lastId)
    BY <1>1, <2>1 DEF Linked, Retained
  <2>3. HashOf(d.chain[d.lastId].hash, d.lastId)
    BY <2>2 DEF Row, HashOf
  <2> QED
    BY <1>3, <2>1, <2>3 DEF TailHash
<1> QED
  BY <1>2, <1>3

LEMMA AppendEvolves ==
    ASSUME NEW d, Linked(d), NEW p \in Payload
    PROVE  LET e == Appended(d, p, d.signing.key)
           IN  /\ Evolves(d, e)
               /\ AuditValid(d) => AuditValid(e)
<1> DEFINE key  == d.signing.key
           id   == d.lastId + 1
           prev == TailHash(d)
           hash == ChainHash(prev, PayloadHash(p), id)
           row  == [previous |-> prev, payloadHash |-> PayloadHash(p),
                    hash |-> hash, payload |-> p]
           sig  == [key |-> key, mac |-> Mac(key, id, hash)]
           e    == Appended(d, p, key)
<1>1. /\ d.lastId \in Nat /\ d.anchor.cycle \in Nat /\ d.anchor.cycle <= d.lastId /\ id \in Nat
      /\ DOMAIN d.chain = Retained(d) /\ d.cycles = Retained(d)
      /\ Retained(d) = (d.anchor.cycle + 1)..d.lastId
  BY DEF Linked, Retained
<1>2. /\ e = [lastId |-> e.lastId, cycles |-> e.cycles, chain |-> e.chain,
              sigs |-> e.sigs, anchor |-> e.anchor, signing |-> e.signing]
      /\ e.lastId = id /\ e.cycles = d.cycles \cup {id}
      /\ e.chain = Extended(d.chain, id, row)
      /\ e.anchor = d.anchor /\ e.signing = d.signing
      /\ key # NoKey => e.sigs = Extended(d.sigs, id, sig)
  BY DEF Appended
<1>3. Retained(e) = Retained(d) \cup {id}
  BY <1>1, <1>2 DEF Retained
<1>4. e.chain = [i \in Retained(e) |-> IF i = id THEN row ELSE d.chain[i]]
  BY <1>1, <1>2, <1>3 DEF Extended
<1>5. key # NoKey => /\ DOMAIN e.sigs = DOMAIN d.sigs \cup {id}
                     /\ e.sigs[id] = sig
                     /\ \A i \in DOMAIN d.sigs : i # id => e.sigs[i] = d.sigs[i]
  BY <1>2 DEF Extended
<1>6. /\ row.previous = prev /\ row.payloadHash = PayloadHash(p)
      /\ row.hash = hash /\ row.payload = p
  OBVIOUS
<1> HIDE DEF e, row, sig
<1>7. p # Garbage /\ PayloadHash(p) # PayloadHash(Garbage) /\ hash # Garbage
  BY GarbageAssumption, DigestsDiffer
<1>8. HashOf(prev, d.lastId)
      /\ prev = IF d.anchor.cycle = d.lastId THEN d.anchor.hash ELSE d.chain[d.lastId].hash
  BY TailIsOfLastRow
<1>9. e.chain[id] = row /\ \A i \in Retained(d) : i # id /\ e.chain[i] = d.chain[i]
  BY <1>1, <1>3, <1>4
<1>10. Row(e, id)
  <2>1. Before(e, id) = prev
    <3>1. CASE d.anchor.cycle = d.lastId
      BY <1>2, <1>8, <3>1 DEF Before
    <3>2. CASE d.anchor.cycle # d.lastId
      <4>1. d.lastId \in Retained(d) /\ id - 1 = d.lastId /\ id # d.anchor.cycle + 1
        BY <1>1, <3>2
      <4> QED
        BY <1>2, <1>8, <1>9, <3>2, <4>1 DEF Before
    <3> QED
      BY <3>1, <3>2
  <2>2. HashOf(row.previous, id - 1)
    BY <1>1, <1>6, <1>8
  <2>3. key # NoKey =>
          /\ id \in DOMAIN e.sigs
          /\ e.sigs[id] = [key |-> key, mac |-> Mac(key, id, ChainHash(row.previous, row.payloadHash, id))]
    BY <1>5, <1>6 DEF sig
  <2>4. row = [previous |-> row.previous, payloadHash |-> row.payloadHash,
               hash |-> row.hash, payload |-> row.payload]
    BY DEF row
  <2> QED
    BY <1>2, <1>6, <1>7, <1>9, <2>1, <2>2, <2>3, <2>4 DEF Row
<1>11. ASSUME NEW i \in Retained(d) PROVE Row(e, i)
  <2>1. Before(e, i) = Before(d, i)
    <3>1. i # d.anchor.cycle + 1 => i - 1 \in Retained(d)
      BY <1>1
    <3> QED
      BY <1>2, <1>9, <3>1 DEF Before
  <2>2. Row(d, i) /\ e.chain[i] = d.chain[i] /\ i # id
    BY <1>9 DEF Linked
  <2> QED
    BY <1>2, <1>5, <2>1, <2>2 DEF Row
<1>12. Linked(e)
  <2>1. e.anchor.cycle \in 0..e.lastId /\ e.lastId \in Nat /\ e.cycles = Retained(e)
    BY <1>1, <1>2, <1>3
  <2>2. e.chain = [i \in Retained(e) |-> e.chain[i]]
    BY <1>4
  <2>3. HashOf(e.anchor.hash, e.anchor.cycle)
    BY <1>2 DEF Linked
  <2> QED
    BY <1>2, <1>3, <1>10, <1>11, <2>1, <2>2, <2>3 DEF Linked
<1>13. Evolves(d, e)
  BY <1>1, <1>2, <1>9, <1>12 DEF Evolves, Bad
<1>14. ASSUME AuditValid(d) PROVE AuditValid(e)
  <2>1. Clean(d, 0, d.anchor.hash)
    BY <1>14, AuditIsClean
  <2>2. ~Bad(e, id)
    BY <1>6, <1>7, <1>9 DEF Bad
  <2>3. \A i \in Retained(e) : i > 0 => ~Bad(e, i)
    BY <1>3, <1>9, <2>1, <2>2 DEF Clean, Bad
  <2> DEFINE f == d.anchor.cycle + 1
  <2>4. First(e, 0) = f /\ First(d, 0) = f
    BY <1>1, <1>2 DEF First
  <2>5. e.chain[f].previous = d.anchor.hash
    <3>1. CASE d.anchor.cycle = d.lastId
      BY <1>6, <1>8, <1>9, <3>1
    <3>2. CASE d.anchor.cycle # d.lastId
      <4>1. f <= d.lastId /\ f \in Retained(d)
        BY <1>1, <3>2
      <4> QED
        BY <1>9, <2>1, <2>4, <4>1 DEF Clean
    <3> QED
      BY <3>1, <3>2
  <2>6. Clean(e, 0, e.anchor.hash)
    BY <1>2, <2>3, <2>4, <2>5 DEF Clean
  <2> QED
    BY <1>12, <2>6, AuditIsClean
<1> QED
  BY <1>13, <1>14 DEF e

LEMMA PruneEvolves ==
    ASSUME NEW d, Linked(d), NEW aged \in {{}} \cup {{i} : i \in d.cycles}
    PROVE  /\ Evolves(d, Pruned(d, aged))
           /\ AuditValid(d) => AuditValid(Pruned(d, aged))
<1> DEFINE t == DeleteThrough(d, aged)
           e == Pruned(d, aged)
<1>1. /\ d.lastId \in Nat /\ d.anchor.cycle \in Nat /\ d.anchor.cycle <= d.lastId
      /\ DOMAIN d.chain = Retained(d) /\ d.cycles = Retained(d)
      /\ Retained(d) = (d.anchor.cycle + 1)..d.lastId
  BY DEF Linked, Retained
<1>2. t \in {0} \cup Retained(d)
  <2> DEFINE excess == {i \in d.cycles : Cardinality({j \in d.cycles : j > i}) >= MaxCycles}
             S == {0} \cup aged \cup excess
  <2>1. S \in SUBSET (0..d.lastId) /\ S \subseteq {0} \cup Retained(d) /\ S # {}
    BY <1>1
  <2>2. t = Newest(S)
    BY DEF DeleteThrough
  <2> HIDE DEF S, t
  <2>3. Newest(S) \in S
    BY <1>1, <2>1, NewestExists
  <2> QED
    BY <2>1, <2>2, <2>3
<1> HIDE DEF t
<1>3. CASE t = 0
  <2>1. e = d
    BY <1>3 DEF Pruned, t
  <2>2. Evolves(d, d)
    BY <1>1 DEF Evolves
  <2> QED
    BY <2>1, <2>2
<1>4. CASE t \in Retained(d)
  <2>1. t \in Nat /\ t > 0 /\ t > d.anchor.cycle /\ t <= d.lastId
    BY <1>1, <1>4
  <2>2. AnchorFor(d, t) = [cycle |-> t, hash |-> d.chain[t].hash]
    <3>1. {i \in DOMAIN d.chain : i <= t} = (d.anchor.cycle + 1)..t
      BY <1>1, <2>1
    <3>2. t \in (d.anchor.cycle + 1)..t
      BY <1>1, <2>1
    <3>3. Newest((d.anchor.cycle + 1)..t) = t
      BY <1>1, <2>1, NewestOfInterval
    <3> QED
      BY <3>1, <3>2, <3>3 DEF AnchorFor
  <2>3. /\ e = [lastId |-> e.lastId, cycles |-> e.cycles, chain |-> e.chain,
                sigs |-> e.sigs, anchor |-> e.anchor, signing |-> e.signing]
        /\ e.lastId = d.lastId /\ e.cycles = {i \in d.cycles : i > t}
        /\ e.chain = Above(d.chain, t) /\ e.sigs = Above(d.sigs, t)
        /\ e.anchor = [cycle |-> t, hash |-> d.chain[t].hash]
        /\ e.signing = d.signing
    BY <2>1, <2>2 DEF Pruned, t
  <2> HIDE DEF e
  <2>4. Retained(e) = (t + 1)..d.lastId /\ Retained(e) = {i \in Retained(d) : i > t}
    BY <1>1, <2>1, <2>3 DEF Retained
  <2>5. e.chain = [i \in Retained(e) |-> d.chain[i]]
    BY <1>1, <2>3, <2>4 DEF Above
  <2>6. Row(d, t) /\ HashOf(d.chain[t].hash, t)
    BY <1>4 DEF Linked, Row, HashOf
  <2>7. ASSUME NEW i \in Retained(e) PROVE Row(e, i) /\ Before(e, i) = Before(d, i)
    <3>1. i \in Retained(d) /\ i > t /\ i \in Int /\ e.chain[i] = d.chain[i] /\ Row(d, i)
      BY <2>1, <2>4, <2>5 DEF Linked
    <3>2. Before(e, i) = Before(d, i)
      <4>1. CASE i = t + 1
        <5>1. i # d.anchor.cycle + 1 /\ i - 1 = t
          BY <1>1, <2>1, <4>1
        <5> QED
          BY <2>3, <4>1, <5>1 DEF Before
      <4>2. CASE i # t + 1
        <5>1. i - 1 \in Retained(e) /\ i # d.anchor.cycle + 1
          BY <1>1, <2>1, <2>4, <3>1, <4>2
        <5> QED
          BY <2>3, <2>5, <4>2, <5>1 DEF Before
      <4> QED
        BY <4>1, <4>2
    <3>3. i \in DOMAIN d.sigs => i \in DOMAIN e.sigs /\ e.sigs[i] = d.sigs[i]
      BY <2>3, <3>1 DEF Above
    <3> QED
      BY <2>3, <3>1, <3>2, <3>3 DEF Row
  <2>8. Linked(e)
    <3>1. e.anchor.cycle = t /\ e.anchor.hash = d.chain[t].hash
      BY <2>3
    <3>2. e.anchor.cycle \in 0..e.lastId /\ e.lastId \in Nat /\ e.cycles = Retained(e)
      BY <1>1, <2>1, <2>3, <2>4, <3>1
    <3>3. e.chain = [i \in Retained(e) |-> e.chain[i]]
      BY <2>5
    <3>4. HashOf(e.anchor.hash, e.anchor.cycle)
      BY <2>6, <3>1
    <3> QED
      BY <2>3, <2>7, <3>2, <3>3, <3>4 DEF Linked
  <2>9. Evolves(d, e)
    <3>1. e.anchor.cycle = t /\ e.lastId = d.lastId
      BY <2>3
    <3> QED
      BY <1>1, <2>1, <2>5, <2>8, <3>1 DEF Evolves, Bad
  <2>10. ASSUME AuditValid(d) PROVE AuditValid(e)
    <3>1. \A i \in Retained(d) : ~Bad(d, i)
      BY <1>1, <2>10, AuditIsClean DEF Clean
    <3>2. \A i \in Retained(e) : ~Bad(e, i)
      BY <2>4, <2>5, <3>1 DEF Bad
    <3>3. e.anchor.cycle = t /\ e.anchor.hash = d.chain[t].hash /\ e.lastId = d.lastId
      BY <2>3
    <3>4. First(e, 0) = t + 1
      BY <2>1, <3>3 DEF First
    <3>5. ASSUME t + 1 <= d.lastId PROVE e.chain[t + 1].previous = e.anchor.hash
      <4>1. t + 1 \in Retained(e) /\ t + 1 \in Retained(d)
        BY <1>1, <2>1, <2>4, <3>5
      <4>2. Row(e, t + 1) /\ Before(e, t + 1) = e.anchor.hash
        BY <2>7, <3>3, <4>1 DEF Before
      <4>3. e.anchor.hash # Garbage
        BY <1>4, <3>1, <3>3 DEF Bad
      <4> QED
        BY <4>2, <4>3 DEF Row
    <3>6. Clean(e, 0, e.anchor.hash)
      BY <3>2, <3>3, <3>4, <3>5 DEF Clean
    <3> QED
      BY <2>8, <3>6, AuditIsClean
  <2> QED
    BY <2>9, <2>10 DEF e
<1> QED
  BY <1>2, <1>3, <1>4

LEMMA DamageEvolves ==
    ASSUME NEW d, Linked(d), NEW i \in DOMAIN d.chain, NEW e,
           \/ e = [d EXCEPT !.chain[i].payload = Garbage]
           \/ e = [d EXCEPT !.chain[i].hash = Garbage]
    PROVE  /\ Evolves(d, e)
           /\ DOMAIN e.chain = DOMAIN d.chain
<1> DEFINE old == d.chain[i]
           new == e.chain[i]
<1>1. /\ d.lastId \in Nat /\ d.anchor.cycle \in Nat /\ d.anchor.cycle <= d.lastId
      /\ DOMAIN d.chain = Retained(d) /\ d.cycles = Retained(d)
      /\ Retained(d) = (d.anchor.cycle + 1)..d.lastId
      /\ i \in Retained(d) /\ i \in Nat
  BY DEF Linked, Retained
<1>2. Row(d, i)
  BY <1>1 DEF Linked
<1>3. /\ e = [lastId |-> e.lastId, cycles |-> e.cycles, chain |-> e.chain,
              sigs |-> e.sigs, anchor |-> e.anchor, signing |-> e.signing]
      /\ e.lastId = d.lastId /\ e.cycles = d.cycles /\ e.sigs = d.sigs
      /\ e.anchor = d.anchor /\ e.signing = d.signing
      /\ DOMAIN e.chain = Retained(d) /\ e.chain = [j \in Retained(d) |-> e.chain[j]]
      /\ \A j \in Retained(d) : j # i => e.chain[j] = d.chain[j]
      /\ \/ new = [old EXCEPT !.payload = Garbage]
         \/ new = [old EXCEPT !.hash = Garbage]
  <2>1. \E row : /\ e = [d EXCEPT !.chain = [d.chain EXCEPT ![i] = row]]
                 /\ \/ row = [old EXCEPT !.payload = Garbage]
                    \/ row = [old EXCEPT !.hash = Garbage]
    OBVIOUS
  <2>2. PICK row : /\ e = [d EXCEPT !.chain = [d.chain EXCEPT ![i] = row]]
                   /\ \/ row = [old EXCEPT !.payload = Garbage]
                      \/ row = [old EXCEPT !.hash = Garbage]
    BY <2>1
  <2> DEFINE table == [d.chain EXCEPT ![i] = row]
  <2>3. /\ DOMAIN table = Retained(d) /\ table[i] = row
        /\ table = [j \in Retained(d) |-> table[j]]
        /\ \A j \in Retained(d) : j # i => table[j] = d.chain[j]
    BY <1>1
  <2>4. e = [d EXCEPT !.chain = table]
    BY <2>2
  <2> HIDE DEF table
  <2>5. e = [lastId |-> d.lastId, cycles |-> d.cycles, chain |-> table,
             sigs |-> d.sigs, anchor |-> d.anchor, signing |-> d.signing]
    BY <2>4 DEF Linked
  <2>6. /\ e.lastId = d.lastId /\ e.cycles = d.cycles /\ e.chain = table
        /\ e.sigs = d.sigs /\ e.anchor = d.anchor /\ e.signing = d.signing
    BY <2>5
  <2> QED
    BY <2>2, <2>3, <2>5, <2>6
<1>4. /\ new = [previous |-> new.previous, payloadHash |-> new.payloadHash,
                hash |-> new.hash, payload |-> new.payload]
      /\ new.previous = old.previous /\ new.payloadHash = old.payloadHash
      /\ \/ new.payload = Garbage /\ new.hash = old.hash
         \/ new.payload = old.payload /\ new.hash = Garbage
  <2>1. old = [previous |-> old.previous, payloadHash |-> old.payloadHash,
               hash |-> old.hash, payload |-> old.payload]
    BY <1>2 DEF Row
  <2> HIDE DEF old
  <2> QED
    BY <1>3, <2>1
<1>5. Retained(e) = Retained(d)
  BY <1>3 DEF Retained
<1>6. ASSUME NEW j \in Retained(d)
      PROVE  /\ e.chain[j].previous = d.chain[j].previous
             /\ Bad(d, j) => Bad(e, j)
             /\ e.chain[j].hash = Garbage \/ e.chain[j].hash = d.chain[j].hash
             /\ Row(e, j)
  <2>1. /\ e.chain[j].previous = d.chain[j].previous
        /\ e.chain[j].payloadHash = d.chain[j].payloadHash
        /\ e.chain[j].payload = Garbage \/ e.chain[j].payload = d.chain[j].payload
        /\ e.chain[j].hash = Garbage \/ e.chain[j].hash = d.chain[j].hash
    BY <1>3, <1>4
  <2>2. Before(e, j) = Garbage \/ Before(e, j) = Before(d, j)
    <3>1. CASE j = d.anchor.cycle + 1
      BY <1>3, <3>1 DEF Before
    <3>2. CASE j # d.anchor.cycle + 1
      <4>1. j - 1 \in Retained(d)
        BY <1>1, <3>2
      <4>2. e.chain[j - 1].hash = Garbage \/ e.chain[j - 1].hash = d.chain[j - 1].hash
        BY <1>3, <1>4, <4>1
      <4> QED
        BY <1>3, <3>2, <4>2 DEF Before
    <3> QED
      BY <3>1, <3>2
  <2>3. Row(d, j)
    BY DEF Linked
  <2>4. e.chain[j] = [previous |-> e.chain[j].previous, payloadHash |-> e.chain[j].payloadHash,
                      hash |-> e.chain[j].hash, payload |-> e.chain[j].payload]
    BY <1>3, <1>4, <2>3 DEF Row
  <2>5. Row(e, j)
    BY <1>3, <2>1, <2>2, <2>3, <2>4 DEF Row
  <2> QED
    BY <2>1, <2>5, <1>3, <1>4 DEF Bad
<1>7. Linked(e)
  <2>1. HashOf(e.anchor.hash, e.anchor.cycle) /\ e.anchor.cycle \in 0..e.lastId
    BY <1>3 DEF Linked
  <2> QED
    BY <1>1, <1>3, <1>5, <1>6, <2>1 DEF Linked
<1>8. /\ d.lastId <= e.lastId /\ d.anchor.cycle <= e.anchor.cycle
      /\ e.anchor.cycle = d.anchor.cycle => e.anchor.hash = d.anchor.hash
  BY <1>1, <1>3
<1> QED
  BY <1>1, <1>3, <1>5, <1>6, <1>7, <1>8 DEF Evolves

(* What every step does to the file. *)
LEMMA FileStep ==
    ASSUME Linked(db),
           \/ UNCHANGED db
           \/ \E p \in Payload : Persist(p) \/ OtherPersists(p)
           \/ ForcePrune
           \/ \E i \in DOMAIN db.chain : Damage(i)
    PROVE  /\ Evolves(db, db')
           /\ AuditValid(db) => \/ AuditValid(db')
                               \/ \E i \in DOMAIN db.chain : Damage(i)
<1> DEFINE Sets(d) == {{}} \cup {{i} : i \in d.cycles}
<1>1. CASE UNCHANGED db
  BY <1>1 DEF Evolves, Linked
<1>2. ASSUME NEW p \in Payload, Persist(p) \/ OtherPersists(p)
      PROVE  Evolves(db, db') /\ (AuditValid(db) => AuditValid(db'))
  <2> DEFINE d == Appended(db, p, db.signing.key)
  <2>1. d.cycles = db.cycles \cup {db.lastId + 1}
    BY DEF Appended
  <2>2. db' = d \/ \E aged \in Aged : db' = Pruned(d, aged)
    BY <1>2 DEF Persist, OtherPersists, ServiceKey
  <2>3. Aged \subseteq Sets(d)
    BY <2>1 DEF Aged
  <2>4. Evolves(db, d) /\ (AuditValid(db) => AuditValid(d))
    BY AppendEvolves
  <2> HIDE DEF d
  <2>5. Linked(d)
    BY <2>4 DEF Evolves
  <2>6. ASSUME NEW aged \in Aged, db' = Pruned(d, aged)
        PROVE  Evolves(db, db') /\ (AuditValid(db) => AuditValid(db'))
    <3>1. Evolves(d, Pruned(d, aged)) /\ (AuditValid(d) => AuditValid(Pruned(d, aged)))
      BY <2>3, <2>5, PruneEvolves
    <3> QED
      BY <2>4, <2>6, <3>1, EvolvesTransitive
  <2> QED
    BY <2>2, <2>4, <2>6
<1>3. ASSUME ForcePrune PROVE Evolves(db, db') /\ (AuditValid(db) => AuditValid(db'))
  <2>1. PICK aged \in Aged : db' = Pruned(db, aged)
    BY <1>3 DEF ForcePrune
  <2> QED
    BY <2>1, PruneEvolves DEF Aged
<1>4. ASSUME NEW i \in DOMAIN db.chain, Damage(i) PROVE Evolves(db, db')
  <2>1. \/ db' = [db EXCEPT !.chain[i].payload = Garbage]
        \/ db' = [db EXCEPT !.chain[i].hash = Garbage]
    BY <1>4 DEF Damage
  <2> QED
    BY <2>1, DamageEvolves
<1> QED
  BY <1>1, <1>2, <1>3, <1>4

-----------------------------------------------------------------------------
(* The inductive invariant: d is the file, m the store object, v whether   *)
(* data_version moved, r the answer that stands, g the history.            *)

Shapes(v, m, g) ==
    /\ m = [pc |-> m.pc, ckId |-> m.ckId, ckHash |-> m.ckHash, fresh |-> m.fresh,
            dirty |-> m.dirty, last |-> m.last, start |-> m.start,
            result |-> m.result, walked |-> m.walked]
    /\ g = [damages |-> g.damages, found |-> g.found, disturbed |-> g.disturbed]
    /\ g.damages \in Nat
    /\ v \in BOOLEAN /\ m.fresh \in BOOLEAN /\ m.dirty \in BOOLEAN
    /\ g.found \in BOOLEAN /\ g.disturbed \in BOOLEAN

(* The checkpoint and a start that was read are hashes of rows the file    *)
(* had; the start is the anchor's unless that was pruned since.            *)
Remembered(d, m) ==
    /\ m.ckId \in 0..d.lastId
    /\ HashOf(m.ckHash, m.ckId)
    /\ m.pc = "anchored" =>
         \E a \in 0..d.anchor.cycle :
            HashOf(m.start, a) /\ (a = d.anchor.cycle => m.start = d.anchor.hash)

(* The rows above the checkpoint do not pass, or the checkpoint was pruned. *)
Suspect(d, m) ==
    \/ ~Clean(d, m.ckId, m.ckHash)
    \/ d.anchor.cycle > m.ckId

Answered(m) == m.pc = "walked" /\ m.result = "invalid"

(* A checkpoint that is used again after a fault is one that shows it.     *)
Suspected(d, m, g) ==
    m.fresh /\ (g.found \/ m.pc \in {"mismatch", "anchored"} \/ Answered(m)) => Suspect(d, m)

(* Nothing speaks of a fault where there is none.                          *)
Quiet(d, m, r, g) ==
    /\ g.damages = 0 => AuditValid(d)
    /\ g.damages = 0 /\ ~g.disturbed =>
         /\ m.pc = "anchored" => m.start = d.anchor.hash
         /\ ~Answered(m)
         /\ r # "invalid"
    /\ ~m.dirty => m.last # "invalid"

(* Nothing denies a fault that was found and is there.                     *)
Reported(d, m, r, g) ==
    /\ m.pc = "audited" => m.result = "valid"
    /\ g.found => /\ ~AuditValid(d)
                  /\ r # "valid"
                  /\ m.dirty
                  /\ m.pc # "audited"
                  /\ ~(m.pc = "walked" /\ m.result = "valid")

(* An answer that may be given again is about the rows there are.          *)
Current(d, v, m, g) ==
    ~g.disturbed =>
        /\ m.pc \in {"audited", "walked"} => m.walked = DOMAIN d.chain
        /\ m.pc = "idle" /\ ~m.dirty /\ ~v /\ m.last # "none" => m.walked = DOMAIN d.chain

CacheInv(d, v, m, r, g) ==
    /\ Linked(d)
    /\ Shapes(v, m, g)
    /\ Remembered(d, m)
    /\ Suspected(d, m, g)
    /\ Quiet(d, m, r, g)
    /\ Reported(d, m, r, g)
    /\ Current(d, v, m, g)

Inv == CacheInv(db, moved, mem, report, ghost)

LEMMA InitInv == Init => Inv
<1> SUFFICES ASSUME Init PROVE Inv
  OBVIOUS
<1>1. PICK k \in Key \cup {NoKey} : db = Configured(EmptyDb, k, IF k = NoKey THEN 0 ELSE 1)
  BY DEF Init
<1>2. /\ db = [lastId |-> db.lastId, cycles |-> db.cycles, chain |-> db.chain,
               sigs |-> db.sigs, anchor |-> db.anchor, signing |-> db.signing]
      /\ db.lastId = 0 /\ db.cycles = {} /\ db.chain = EmptyTable
      /\ db.anchor.cycle = 0 /\ db.anchor.hash = Genesis
  BY <1>1 DEF Configured, EmptyDb
<1>3. Retained(db) = {}
  BY <1>2 DEF Retained
<1>4. db.chain = [i \in Retained(db) |-> db.chain[i]]
  BY <1>2, <1>3 DEF EmptyTable
<1>5. Linked(db)
  BY <1>2, <1>3, <1>4 DEF Linked, HashOf
<1>6. Clean(db, 0, db.anchor.hash)
  BY <1>2, <1>3 DEF Clean, First
<1>7. AuditValid(db)
  BY <1>5, <1>6, AuditIsClean
<1>8. /\ mem.pc = "idle" /\ mem.ckId = 0 /\ mem.ckHash = Genesis /\ mem.fresh = FALSE
      /\ mem.dirty = TRUE /\ mem.last = "none" /\ mem.result = "none"
      /\ ghost.damages = 0 /\ ghost.found = FALSE /\ ghost.disturbed = FALSE
      /\ report = "none" /\ moved = FALSE
      /\ Shapes(moved, mem, ghost)
  BY DEF Init, Shapes
<1>9. Remembered(db, mem)
  BY <1>2, <1>8 DEF Remembered, HashOf
<1>10. Suspected(db, mem, ghost) /\ Quiet(db, mem, report, ghost)
       /\ Reported(db, mem, report, ghost) /\ Current(db, moved, mem, ghost)
  BY <1>7, <1>8 DEF Suspected, Quiet, Reported, Current, Answered
<1> QED
  BY <1>5, <1>8, <1>9, <1>10 DEF Inv, CacheInv

(* A checkpoint that shows a fault shows it until retention passes it.     *)
LEMMA SuspectEvolves ==
    ASSUME NEW d, NEW e, NEW m, Linked(d), Evolves(d, e), m.ckId \in 0..d.lastId, Suspect(d, m)
    PROVE  Suspect(e, m)
<1>1. /\ d.lastId \in Nat /\ e.lastId \in Nat /\ d.anchor.cycle \in Nat /\ e.anchor.cycle \in Nat
      /\ d.lastId <= e.lastId /\ d.anchor.cycle <= e.anchor.cycle /\ m.ckId \in Nat
  BY DEF Evolves, Linked
<1> SUFFICES ASSUME e.anchor.cycle <= m.ckId PROVE ~Clean(e, m.ckId, m.ckHash)
  BY <1>1 DEF Suspect
<1>2. ~Clean(d, m.ckId, m.ckHash) /\ First(d, m.ckId) = m.ckId + 1 /\ First(e, m.ckId) = m.ckId + 1
  BY <1>1 DEF Suspect, First
<1>3. \A i \in Retained(d) : i > m.ckId => i \in Retained(e)
  BY <1>1 DEF Retained
<1>4. CASE \E i \in Retained(d) : i > m.ckId /\ Bad(d, i)
  <2>1. PICK i \in Retained(d) : i > m.ckId /\ Bad(d, i)
    BY <1>4
  <2>2. i \in Retained(e) /\ Bad(e, i)
    BY <1>3, <2>1 DEF Evolves
  <2> QED
    BY <2>1, <2>2 DEF Clean
<1>5. CASE m.ckId + 1 <= d.lastId /\ d.chain[m.ckId + 1].previous # m.ckHash
  <2>1. m.ckId + 1 \in Retained(d) /\ m.ckId + 1 \in Retained(e) /\ m.ckId + 1 <= e.lastId
    BY <1>1, <1>5 DEF Retained
  <2>2. e.chain[m.ckId + 1].previous # m.ckHash
    BY <1>5, <2>1 DEF Evolves
  <2> QED
    BY <1>2, <2>1, <2>2 DEF Clean
<1> QED
  BY <1>2, <1>4, <1>5 DEF Clean

(* A start that was read remains the anchor's or that of a pruned row.     *)
LEMMA RememberedEvolves ==
    ASSUME NEW d, NEW e, NEW m, Linked(d), Evolves(d, e), Remembered(d, m)
    PROVE  Remembered(e, m)
<1>1. /\ d.lastId \in Nat /\ e.lastId \in Nat /\ d.anchor.cycle \in Nat /\ e.anchor.cycle \in Nat
      /\ d.lastId <= e.lastId /\ d.anchor.cycle <= e.anchor.cycle
      /\ e.anchor.cycle = d.anchor.cycle => e.anchor.hash = d.anchor.hash
  BY DEF Evolves, Linked
<1>2. ASSUME m.pc = "anchored"
      PROVE  \E a \in 0..e.anchor.cycle :
                HashOf(m.start, a) /\ (a = e.anchor.cycle => m.start = e.anchor.hash)
  <2>1. PICK a \in 0..d.anchor.cycle :
                HashOf(m.start, a) /\ (a = d.anchor.cycle => m.start = d.anchor.hash)
    BY <1>2 DEF Remembered
  <2>2. a \in 0..e.anchor.cycle /\ (a = e.anchor.cycle => m.start = e.anchor.hash)
    BY <1>1, <2>1
  <2> QED
    BY <2>1, <2>2
<1>3. m.ckId \in 0..e.lastId /\ HashOf(m.ckHash, m.ckId)
  BY <1>1 DEF Remembered
<1> QED
  BY <1>2, <1>3 DEF Remembered

-----------------------------------------------------------------------------
(* The steps that write to the file.                                       *)

(* What the service's own commits, another process's and a damage have in  *)
(* common.                                                                 *)
Writes ==
    /\ Evolves(db, db')
    /\ Shapes(moved', mem', ghost')
    /\ report' = "none"
    /\ mem'.pc = mem.pc /\ mem'.ckId = mem.ckId /\ mem'.ckHash = mem.ckHash
    /\ mem'.fresh = mem.fresh /\ mem'.last = mem.last /\ mem'.start = mem.start
    /\ mem'.result = mem.result /\ mem'.walked = mem.walked
    /\ mem.dirty => mem'.dirty
    /\ ~mem'.dirty /\ ~moved' => ~moved /\ DOMAIN db'.chain = DOMAIN db.chain
    /\ ghost'.found => ghost.found /\ ~AuditValid(db')
    /\ ghost'.damages = 0 => ghost.damages = 0 /\ (AuditValid(db) => AuditValid(db'))
    /\ ~ghost'.disturbed => ~ghost.disturbed /\ mem.pc = "idle"

LEMMA WriteStep ==
    ASSUME Inv, Writes
    PROVE  Inv'
<1>1. /\ Linked(db) /\ Shapes(moved, mem, ghost) /\ Remembered(db, mem) /\ Suspected(db, mem, ghost)
      /\ Quiet(db, mem, report, ghost) /\ Reported(db, mem, report, ghost)
      /\ Current(db, moved, mem, ghost)
  BY DEF Inv, CacheInv
<1>2. Linked(db') /\ Shapes(moved', mem', ghost')
  BY DEF Writes, Evolves
<1>3. Remembered(db', mem')
  <2>1. Remembered(db', mem)
    BY <1>1, RememberedEvolves DEF Writes
  <2> QED
    BY <2>1 DEF Writes, Remembered
<1>4. Suspected(db', mem', ghost')
  <2> SUFFICES ASSUME mem'.fresh, ghost'.found \/ mem'.pc \in {"mismatch", "anchored"} \/ Answered(mem')
               PROVE  Suspect(db', mem')
    BY DEF Suspected
  <2>1. Suspect(db, mem)
    BY <1>1 DEF Writes, Suspected, Answered
  <2>2. Suspect(db', mem)
    BY <1>1, <2>1, SuspectEvolves DEF Writes, Remembered
  <2> QED
    BY <2>2 DEF Writes, Suspect
<1>5. Quiet(db', mem', report', ghost')
  BY <1>1 DEF Writes, Quiet, Answered
<1>6. Reported(db', mem', report', ghost')
  BY <1>1 DEF Writes, Reported
<1>7. Current(db', moved', mem', ghost')
  BY <1>1 DEF Writes, Current
<1> QED
  BY <1>2, <1>3, <1>4, <1>5, <1>6, <1>7 DEF Inv, CacheInv

LEMMA OwnWrite ==
    ASSUME Inv, (\E p \in Payload : Persist(p)) \/ ForcePrune
    PROVE  Writes
<1>1. Linked(db) /\ Shapes(moved, mem, ghost)
  BY DEF Inv, CacheInv
<1>2. /\ mem.pc = "idle" /\ mem' = [mem EXCEPT !.dirty = TRUE] /\ report' = "none"
      /\ ghost' = StillFound /\ moved' = moved
  BY DEF Persist, ForcePrune, At
<1>3. Evolves(db, db') /\ (AuditValid(db) => AuditValid(db'))
  <2>1. Evolves(db, db') /\ (AuditValid(db) => AuditValid(db') \/ \E i \in DOMAIN db.chain : Damage(i))
    BY <1>1, FileStep
  <2>2. \A i : Damage(i) => ghost'.damages = ghost.damages + 1
    BY <1>1 DEF Damage, StillFound, Shapes
  <2>3. ghost'.damages = ghost.damages
    BY <1>1, <1>2 DEF StillFound, Shapes
  <2> QED
    BY <1>1, <2>1, <2>2, <2>3 DEF Shapes
<1> DEFINE still == ghost.found /\ ~AuditValid(db')
<1>4. still \in BOOLEAN /\ ghost' = [ghost EXCEPT !.found = still]
  BY <1>2 DEF StillFound
<1>5. still => ghost.found /\ ~AuditValid(db')
  OBVIOUS
<1> HIDE DEF still
<1>6. /\ ghost' = [damages |-> ghost.damages, found |-> still, disturbed |-> ghost.disturbed]
  BY <1>1, <1>4 DEF Shapes
<1>7. mem' = [pc |-> mem.pc, ckId |-> mem.ckId, ckHash |-> mem.ckHash, fresh |-> mem.fresh,
              dirty |-> TRUE, last |-> mem.last, start |-> mem.start,
              result |-> mem.result, walked |-> mem.walked]
  BY <1>1, <1>2 DEF Shapes
<1>8. Shapes(moved', mem', ghost')
  BY <1>1, <1>2, <1>4, <1>6, <1>7 DEF Shapes
<1> QED
  BY <1>2, <1>3, <1>5, <1>6, <1>7, <1>8 DEF Writes

LEMMA OthersWrite ==
    ASSUME Inv, NEW p \in Payload, OtherPersists(p)
    PROVE  Writes
<1>1. Linked(db) /\ Shapes(moved, mem, ghost)
  BY DEF Inv, CacheInv
<1>2. /\ mem' = mem /\ report' = "none" /\ moved' = TRUE
      /\ ghost' = [StillFound EXCEPT !.disturbed = @ \/ ~At("idle")]
  BY DEF OtherPersists
<1> DEFINE still == ghost.found /\ ~AuditValid(db')
           dist  == ghost.disturbed \/ ~At("idle")
<1>3. /\ still \in BOOLEAN /\ dist \in BOOLEAN
      /\ ghost' = [damages |-> ghost.damages, found |-> still, disturbed |-> dist]
  <2>1. ghost.found \in BOOLEAN /\ ghost.disturbed \in BOOLEAN
    BY <1>1 DEF Shapes
  <2>2. still \in BOOLEAN /\ dist \in BOOLEAN
    OBVIOUS
  <2>3. StillFound = [damages |-> ghost.damages, found |-> still, disturbed |-> ghost.disturbed]
    <3>1. StillFound = [ghost EXCEPT !.found = still]
      BY DEF StillFound
    <3> HIDE DEF still
    <3> QED
      BY <1>1, <3>1 DEF Shapes
  <2>4. ghost' = [StillFound EXCEPT !.disturbed = dist]
    BY <1>2, <2>3
  <2> HIDE DEF still, dist
  <2> QED
    BY <2>2, <2>3, <2>4
<1>4. (still => ghost.found /\ ~AuditValid(db')) /\ (~dist => ~ghost.disturbed /\ mem.pc = "idle")
  BY DEF At
<1> HIDE DEF still, dist
<1>5. Evolves(db, db') /\ (AuditValid(db) => AuditValid(db'))
  <2>1. Evolves(db, db') /\ (AuditValid(db) => AuditValid(db') \/ \E i \in DOMAIN db.chain : Damage(i))
    BY <1>1, FileStep
  <2>2. \A i : Damage(i) => ghost'.damages = ghost.damages + 1
    BY <1>1 DEF Damage, StillFound, Shapes
  <2> QED
    BY <1>1, <1>3, <2>1, <2>2 DEF Shapes
<1>6. /\ ghost'.damages = ghost.damages /\ ghost'.found = still /\ ghost'.disturbed = dist
      /\ moved' \in BOOLEAN /\ moved'
  BY <1>2, <1>3
<1>7. Shapes(moved', mem', ghost')
  BY <1>1, <1>2, <1>3, <1>6 DEF Shapes
<1>8. mem'.dirty = mem.dirty /\ mem'.fresh = mem.fresh
  BY <1>2
<1> QED
  BY <1>2, <1>4, <1>5, <1>6, <1>7, <1>8 DEF Writes

LEMMA DamageWrites ==
    ASSUME Inv, NEW i \in DOMAIN db.chain, Damage(i)
    PROVE  Writes
<1>1. Linked(db) /\ Shapes(moved, mem, ghost)
  BY DEF Inv, CacheInv
<1>2. /\ mem' = mem /\ report' = "none" /\ moved' \in {moved, TRUE}
      /\ ghost' = [StillFound EXCEPT !.damages = @ + 1, !.disturbed = @ \/ ~At("idle")]
      /\ \/ db' = [db EXCEPT !.chain[i].payload = Garbage]
         \/ db' = [db EXCEPT !.chain[i].hash = Garbage]
  BY DEF Damage
<1> DEFINE still == ghost.found /\ ~AuditValid(db')
           dist  == ghost.disturbed \/ ~At("idle")
<1>3. /\ still \in BOOLEAN /\ dist \in BOOLEAN
      /\ ghost' = [damages |-> ghost.damages + 1, found |-> still, disturbed |-> dist]
  <2>1. still \in BOOLEAN /\ dist \in BOOLEAN
    OBVIOUS
  <2>2. StillFound = [damages |-> ghost.damages, found |-> still, disturbed |-> ghost.disturbed]
    <3>1. StillFound = [ghost EXCEPT !.found = still]
      BY DEF StillFound
    <3> HIDE DEF still
    <3> QED
      BY <1>1, <3>1 DEF Shapes
  <2>3. ghost' = [StillFound EXCEPT !.damages = ghost.damages + 1, !.disturbed = dist]
    BY <1>2, <2>2
  <2> HIDE DEF still, dist
  <2> QED
    BY <2>1, <2>2, <2>3
<1>4. (still => ghost.found /\ ~AuditValid(db')) /\ (~dist => ~ghost.disturbed /\ mem.pc = "idle")
  BY DEF At
<1> HIDE DEF still, dist
<1>5. Evolves(db, db') /\ DOMAIN db'.chain = DOMAIN db.chain
  BY <1>1, <1>2, DamageEvolves
<1>6. /\ ghost'.damages = ghost.damages + 1 /\ ghost'.found = still /\ ghost'.disturbed = dist
  BY <1>3
<1>7. moved' \in BOOLEAN /\ (~moved' => ~moved)
  <2>1. moved \in BOOLEAN
    BY <1>1 DEF Shapes
  <2>2. moved' = moved \/ moved' = TRUE
    BY <1>2
  <2> QED
    BY <2>1, <2>2, Zenon
<1>8. Shapes(moved', mem', ghost') /\ ghost'.damages # 0
  <2>1. ghost.damages \in Nat /\ mem.fresh \in BOOLEAN /\ mem.dirty \in BOOLEAN
    BY <1>1 DEF Shapes
  <2>2. ghost'.damages \in Nat /\ ghost'.damages # 0
    BY <1>6, <2>1
  <2>3. mem' = mem /\ ghost' = [damages |-> ghost'.damages, found |-> ghost'.found,
                                disturbed |-> ghost'.disturbed]
    BY <1>2, <1>3, <1>6
  <2> QED
    BY <1>1, <1>3, <1>6, <1>7, <2>1, <2>2, <2>3 DEF Shapes
<1>9. mem'.dirty = mem.dirty /\ mem'.fresh = mem.fresh
  BY <1>2
<1> QED
  BY <1>2, <1>4, <1>5, <1>6, <1>7, <1>8, <1>9 DEF Writes

-----------------------------------------------------------------------------
(* The steps of verify_evidence_chain; the file stays as it is.            *)

LEMMA Parts ==
    Inv <=> /\ Linked(db) /\ Shapes(moved, mem, ghost) /\ Remembered(db, mem) /\ Suspected(db, mem, ghost)
            /\ Quiet(db, mem, report, ghost) /\ Reported(db, mem, report, ghost)
            /\ Current(db, moved, mem, ghost)
  BY DEF Inv, CacheInv

LEMMA CachedStep == Inv /\ VerifyCached => Inv'
<1> SUFFICES ASSUME Inv, VerifyCached PROVE Inv'
  OBVIOUS
<1>1. /\ report' = mem.last /\ ~mem.dirty
      /\ db' = db /\ moved' = moved /\ mem' = mem /\ ghost' = ghost
  BY DEF VerifyCached, Usable
<1>2. /\ Linked(db') /\ Shapes(moved', mem', ghost') /\ Remembered(db', mem')
      /\ Suspected(db', mem', ghost') /\ Current(db', moved', mem', ghost')
  BY <1>1, Parts
<1>3. Quiet(db, mem, report, ghost) /\ Reported(db, mem, report, ghost)
  BY Parts
<1>4. Quiet(db', mem', report', ghost')
  BY <1>1, <1>3 DEF Quiet
<1>5. Reported(db', mem', report', ghost')
  BY <1>1, <1>3 DEF Reported
<1> QED
  BY <1>2, <1>4, <1>5 DEF Inv, CacheInv

(* A call begins: nothing has disturbed it, no answer stands. *)
LEMMA BeginGhost ==
    ASSUME Inv, Begin
    PROVE  /\ ghost' = [damages |-> ghost.damages, found |-> ghost.found, disturbed |-> FALSE]
           /\ ghost'.damages = ghost.damages /\ ghost'.found = ghost.found
           /\ ghost'.disturbed = FALSE /\ report' = "none"
<1>1. Shapes(moved, mem, ghost)
  BY Parts
<1>2. ghost' = [damages |-> ghost.damages, found |-> ghost.found, disturbed |-> FALSE]
  BY <1>1 DEF Begin, Shapes
<1> QED
  BY <1>2 DEF Begin

LEMMA DueStep == Inv /\ VerifyDue => Inv'
<1> SUFFICES ASSUME Inv, VerifyDue PROVE Inv'
  OBVIOUS
<1>1. /\ Linked(db) /\ Shapes(moved, mem, ghost) /\ Remembered(db, mem) /\ Suspected(db, mem, ghost)
      /\ Quiet(db, mem, report, ghost) /\ Reported(db, mem, report, ghost)
      /\ Current(db, moved, mem, ghost)
  BY Parts
<1>2. /\ mem.pc = "idle" /\ ~mem.fresh /\ db' = db /\ moved' = moved
      /\ mem' = [mem EXCEPT !.pc = "anchored", !.start = db.anchor.hash]
  BY DEF VerifyDue, At
<1>3. mem' = [pc |-> "anchored", ckId |-> mem.ckId, ckHash |-> mem.ckHash, fresh |-> mem.fresh,
              dirty |-> mem.dirty, last |-> mem.last, start |-> db.anchor.hash,
              result |-> mem.result, walked |-> mem.walked]
  BY <1>1, <1>2 DEF Shapes
<1>4. /\ ghost' = [damages |-> ghost.damages, found |-> ghost.found, disturbed |-> FALSE]
      /\ ghost'.damages = ghost.damages /\ ghost'.found = ghost.found
      /\ ghost'.disturbed = FALSE /\ report' = "none"
  BY BeginGhost DEF VerifyDue
<1>5. Shapes(moved', mem', ghost')
  BY <1>1, <1>2, <1>3, <1>4 DEF Shapes
<1>6. Remembered(db', mem')
  <2>1. db.anchor.cycle \in 0..db.anchor.cycle /\ HashOf(db.anchor.hash, db.anchor.cycle)
    BY <1>1 DEF Linked
  <2> QED
    BY <1>1, <1>2, <1>3, <2>1 DEF Remembered
<1>7. Suspected(db', mem', ghost')
  BY <1>2, <1>3 DEF Suspected
<1>8. Quiet(db', mem', report', ghost')
  BY <1>1, <1>2, <1>3, <1>4 DEF Quiet, Answered
<1>9. Reported(db', mem', report', ghost') /\ Current(db', moved', mem', ghost')
  BY <1>1, <1>2, <1>3, <1>4 DEF Reported, Current
<1> QED
  BY <1>1, <1>2, <1>5, <1>6, <1>7, <1>8, <1>9 DEF Inv, CacheInv

LEMMA FallbackStep == Inv /\ Fallback => Inv'
<1> SUFFICES ASSUME Inv, Fallback PROVE Inv'
  OBVIOUS
<1>1. /\ Linked(db) /\ Shapes(moved, mem, ghost) /\ Remembered(db, mem) /\ Suspected(db, mem, ghost)
      /\ Quiet(db, mem, report, ghost) /\ Reported(db, mem, report, ghost)
      /\ Current(db, moved, mem, ghost)
  BY Parts
<1>2. /\ mem.pc = "mismatch" /\ db' = db /\ moved' = moved /\ report' = report /\ ghost' = ghost
      /\ mem' = [mem EXCEPT !.pc = "anchored", !.start = db.anchor.hash]
  BY DEF Fallback, At
<1>3. mem' = [pc |-> "anchored", ckId |-> mem.ckId, ckHash |-> mem.ckHash, fresh |-> mem.fresh,
              dirty |-> mem.dirty, last |-> mem.last, start |-> db.anchor.hash,
              result |-> mem.result, walked |-> mem.walked]
  BY <1>1, <1>2 DEF Shapes
<1>5. Shapes(moved', mem', ghost')
  BY <1>1, <1>2, <1>3 DEF Shapes
<1>6. Remembered(db', mem')
  <2>1. db.anchor.cycle \in 0..db.anchor.cycle /\ HashOf(db.anchor.hash, db.anchor.cycle)
    BY <1>1 DEF Linked
  <2> QED
    BY <1>1, <1>2, <1>3, <2>1 DEF Remembered
<1>7. Suspected(db', mem', ghost')
  BY <1>1, <1>2, <1>3 DEF Suspected, Suspect
<1>8. Quiet(db', mem', report', ghost')
  BY <1>1, <1>2, <1>3 DEF Quiet, Answered
<1>9. Reported(db', mem', report', ghost') /\ Current(db', moved', mem', ghost')
  BY <1>1, <1>2, <1>3 DEF Reported, Current
<1> QED
  BY <1>1, <1>2, <1>5, <1>6, <1>7, <1>8, <1>9 DEF Inv, CacheInv

LEMMA ElapseStep == Inv /\ IntervalElapses => Inv'
<1> SUFFICES ASSUME Inv, IntervalElapses PROVE Inv'
  OBVIOUS
<1>1. /\ Linked(db) /\ Shapes(moved, mem, ghost) /\ Remembered(db, mem) /\ Suspected(db, mem, ghost)
      /\ Quiet(db, mem, report, ghost) /\ Reported(db, mem, report, ghost)
      /\ Current(db, moved, mem, ghost)
  BY Parts
<1>2. /\ db' = db /\ moved' = moved /\ report' = report /\ ghost' = ghost
      /\ mem' = [mem EXCEPT !.fresh = FALSE]
  BY DEF IntervalElapses
<1>3. mem' = [pc |-> mem.pc, ckId |-> mem.ckId, ckHash |-> mem.ckHash, fresh |-> FALSE,
              dirty |-> mem.dirty, last |-> mem.last, start |-> mem.start,
              result |-> mem.result, walked |-> mem.walked]
  BY <1>1, <1>2 DEF Shapes
<1>4. Shapes(moved', mem', ghost')
  BY <1>1, <1>2, <1>3 DEF Shapes
<1>5. Remembered(db', mem') /\ Suspected(db', mem', ghost')
  BY <1>1, <1>2, <1>3 DEF Remembered, Suspected
<1>6. Quiet(db', mem', report', ghost')
  BY <1>1, <1>2, <1>3 DEF Quiet, Answered
<1>7. Reported(db', mem', report', ghost') /\ Current(db', moved', mem', ghost')
  BY <1>1, <1>2, <1>3 DEF Reported, Current
<1> QED
  BY <1>1, <1>2, <1>4, <1>5, <1>6, <1>7 DEF Inv, CacheInv

(* The incremental walk.  Had it passed over a fault that was found, the   *)
(* checkpoint it started from would be that of a pruned row: OldStart.     *)
LEMMA IncrementalStep == Inv /\ VerifyIncremental => Inv'
<1> SUFFICES ASSUME Inv, VerifyIncremental PROVE Inv'
  OBVIOUS
<1>1. /\ Linked(db) /\ Shapes(moved, mem, ghost) /\ Remembered(db, mem) /\ Suspected(db, mem, ghost)
      /\ Quiet(db, mem, report, ghost) /\ Reported(db, mem, report, ghost)
      /\ Current(db, moved, mem, ghost)
  BY Parts
<1>2. mem.pc = "idle" /\ mem.fresh /\ db' = db /\ moved' = moved
  BY DEF VerifyIncremental, IncrementalDue, At
<1>3. /\ ghost' = [damages |-> ghost.damages, found |-> ghost.found, disturbed |-> FALSE]
      /\ ghost'.damages = ghost.damages /\ ghost'.found = ghost.found
      /\ ghost'.disturbed = FALSE /\ report' = "none"
  BY BeginGhost DEF VerifyIncremental
<1>4. /\ db.lastId \in Nat /\ db.anchor.cycle \in Nat /\ db.anchor.cycle <= db.lastId
      /\ mem.ckId \in Nat /\ mem.ckId <= db.lastId /\ HashOf(mem.ckHash, mem.ckId)
      /\ DOMAIN db.chain = (db.anchor.cycle + 1)..db.lastId /\ Retained(db) = DOMAIN db.chain
  BY <1>1 DEF Linked, Remembered, Retained
<1>5. MatchesAbove <=> Clean(db, mem.ckId, mem.ckHash)
  BY <1>1, <1>4, SoundIsClean DEF MatchesAbove, ServiceKey
<1>6. CASE MatchesAbove
  <2>1. ~ghost.found
    <3> SUFFICES ASSUME ghost.found PROVE FALSE
      OBVIOUS
    <3>1. db.anchor.cycle > mem.ckId
      BY <1>1, <1>2, <1>5, <1>6 DEF Suspected, Suspect
    <3>2. AuditValid(db)
      BY <1>1, <1>4, <1>5, <1>6, <3>1, OldStart
    <3> QED
      BY <1>1, <3>2 DEF Reported
  <2> DEFINE id == LastSeen
             h  == HashSeen
             w  == DOMAIN db.chain
  <2>2. id \in 0..db.lastId /\ HashOf(h, id)
    <3>1. CASE RowsAbove = {}
      <4>1. id = mem.ckId
        BY <3>1 DEF LastSeen, Newest
      <4> QED
        BY <1>4, <3>1, <4>1 DEF HashSeen
    <3>2. CASE RowsAbove # {}
      <4>1. db.lastId \in RowsAbove /\ \A j \in {mem.ckId} \cup RowsAbove : j <= db.lastId
        BY <1>4, <3>2 DEF RowsAbove
      <4>2. {mem.ckId} \cup RowsAbove \in SUBSET Int
        BY <1>4 DEF RowsAbove
      <4>3. id = db.lastId
        BY <4>1, <4>2, NewestIsMaximum DEF LastSeen
      <4>4. Row(db, db.lastId) /\ h = db.chain[db.lastId].hash
        BY <1>1, <1>4, <3>2, <4>1, <4>3 DEF RowsAbove, Linked, HashSeen
      <4> QED
        BY <1>4, <4>3, <4>4 DEF Row, HashOf
    <3> QED
      BY <3>1, <3>2
  <2>3. mem' = [mem EXCEPT !.pc = "walked", !.result = "valid", !.walked = w,
                           !.ckId = id, !.ckHash = h]
    BY <1>6 DEF VerifyIncremental
  <2>4. w = DOMAIN db.chain
    OBVIOUS
  <2> HIDE DEF id, h, w
  <2>5. mem' = [pc |-> "walked", ckId |-> id, ckHash |-> h, fresh |-> mem.fresh,
                dirty |-> mem.dirty, last |-> mem.last, start |-> mem.start,
                result |-> "valid", walked |-> w]
    BY <1>1, <2>3 DEF Shapes
  <2>6. Shapes(moved', mem', ghost')
    BY <1>1, <1>2, <1>3, <2>5 DEF Shapes
  <2>7. Remembered(db', mem') /\ Suspected(db', mem', ghost')
    BY <1>2, <1>3, <2>1, <2>2, <2>5 DEF Remembered, Suspected, Answered
  <2>8. Quiet(db', mem', report', ghost')
    BY <1>1, <1>2, <1>3, <2>5 DEF Quiet, Answered
  <2>9. Reported(db', mem', report', ghost') /\ Current(db', moved', mem', ghost')
    BY <1>1, <1>2, <1>3, <2>1, <2>4, <2>5 DEF Reported, Current
  <2> QED
    BY <1>1, <1>2, <2>6, <2>7, <2>8, <2>9 DEF Inv, CacheInv
<1>7. CASE ~MatchesAbove
  <2>1. mem' = [mem EXCEPT !.pc = "mismatch"]
    BY <1>7 DEF VerifyIncremental
  <2>2. mem' = [pc |-> "mismatch", ckId |-> mem.ckId, ckHash |-> mem.ckHash, fresh |-> mem.fresh,
                dirty |-> mem.dirty, last |-> mem.last, start |-> mem.start,
                result |-> mem.result, walked |-> mem.walked]
    BY <1>1, <2>1 DEF Shapes
  <2>3. Shapes(moved', mem', ghost')
    BY <1>1, <1>2, <1>3, <2>2 DEF Shapes
  <2>4. Remembered(db', mem')
    BY <1>1, <1>2, <2>2 DEF Remembered
  <2>5. Suspected(db', mem', ghost')
    BY <1>2, <1>5, <1>7, <2>2 DEF Suspected, Suspect
  <2>6. Quiet(db', mem', report', ghost')
    BY <1>1, <1>2, <1>3, <2>2 DEF Quiet, Answered
  <2>7. Reported(db', mem', report', ghost') /\ Current(db', moved', mem', ghost')
    BY <1>1, <1>2, <1>3, <2>2 DEF Reported, Current
  <2> QED
    BY <1>1, <1>2, <2>3, <2>4, <2>5, <2>6, <2>7 DEF Inv, CacheInv
<1> QED
  BY <1>6, <1>7

(* The walk of the full audit.  From the anchor it is the audit itself;    *)
(* from the hash of a row that was pruned since, OldStart.                 *)
LEMMA FullWalkStep == Inv /\ FullWalk => Inv'
<1> SUFFICES ASSUME Inv, FullWalk PROVE Inv'
  OBVIOUS
<1>1. /\ Linked(db) /\ Shapes(moved, mem, ghost) /\ Remembered(db, mem) /\ Suspected(db, mem, ghost)
      /\ Quiet(db, mem, report, ghost) /\ Reported(db, mem, report, ghost)
      /\ Current(db, moved, mem, ghost)
  BY Parts
<1> DEFINE valid == Sound(db, 0, mem.start, db.signing, ServiceKey)
           pc    == IF valid THEN "audited" ELSE "walked"
           v     == Verdict(valid)
           w     == DOMAIN db.chain
<1>2. mem.pc = "anchored" /\ db' = db /\ moved' = moved /\ report' = report /\ ghost' = ghost
  BY DEF FullWalk, At
<1>3. valid <=> Clean(db, 0, mem.start)
  BY <1>1, SoundIsClean DEF ServiceKey
<1>4. mem' = [mem EXCEPT !.pc = pc, !.result = v, !.walked = w]
  BY DEF FullWalk
<1>5. \/ valid /\ pc = "audited" /\ v = "valid"
      \/ ~valid /\ pc = "walked" /\ v = "invalid"
  BY DEF Verdict
<1>6. w = DOMAIN db.chain
  OBVIOUS
<1>7. valid => AuditValid(db)
  <2> SUFFICES ASSUME valid PROVE AuditValid(db)
    OBVIOUS
  <2>1. PICK a \in 0..db.anchor.cycle :
           HashOf(mem.start, a) /\ (a = db.anchor.cycle => mem.start = db.anchor.hash)
    BY <1>1, <1>2 DEF Remembered
  <2>2. db.anchor.cycle \in Nat
    BY <1>1 DEF Linked
  <2>3. CASE a = db.anchor.cycle
    BY <1>1, <1>3, <2>1, <2>3, AuditIsClean
  <2>4. CASE a # db.anchor.cycle
    BY <1>1, <1>3, <2>1, <2>2, <2>4, OldStart
  <2> QED
    BY <2>3, <2>4
<1>8. mem.start = db.anchor.hash /\ AuditValid(db) => valid
  BY <1>1, <1>3, AuditIsClean
<1> HIDE DEF valid, pc, v, w
<1>9. mem' = [pc |-> pc, ckId |-> mem.ckId, ckHash |-> mem.ckHash, fresh |-> mem.fresh,
              dirty |-> mem.dirty, last |-> mem.last, start |-> mem.start,
              result |-> v, walked |-> w]
  BY <1>1, <1>4 DEF Shapes
<1>10. Shapes(moved', mem', ghost')
  BY <1>1, <1>2, <1>9 DEF Shapes
<1>11. Remembered(db', mem')
  BY <1>1, <1>2, <1>5, <1>9 DEF Remembered
<1>12. Suspected(db', mem', ghost')
  <2>1. mem.fresh => Suspect(db, mem)
    BY <1>1, <1>2 DEF Suspected
  <2> QED
    BY <1>2, <1>9, <2>1 DEF Suspected, Suspect
<1>13. Quiet(db', mem', report', ghost')
  BY <1>1, <1>2, <1>5, <1>8, <1>9 DEF Quiet, Answered
<1>14. Reported(db', mem', report', ghost')
  BY <1>1, <1>2, <1>5, <1>7, <1>9 DEF Reported
<1>15. Current(db', moved', mem', ghost')
  BY <1>1, <1>2, <1>5, <1>6, <1>9 DEF Current
<1> QED
  BY <1>1, <1>2, <1>10, <1>11, <1>12, <1>13, <1>14, <1>15 DEF Inv, CacheInv

LEMMA CheckpointStep == Inv /\ Checkpoint => Inv'
<1> SUFFICES ASSUME Inv, Checkpoint PROVE Inv'
  OBVIOUS
<1>1. /\ Linked(db) /\ Shapes(moved, mem, ghost) /\ Remembered(db, mem) /\ Suspected(db, mem, ghost)
      /\ Quiet(db, mem, report, ghost) /\ Reported(db, mem, report, ghost)
      /\ Current(db, moved, mem, ghost)
  BY Parts
<1> DEFINE ids == DOMAIN db.chain
           id  == IF ids = {} THEN db.anchor.cycle ELSE Newest(ids)
           h   == TailHash(db)
<1>2. mem.pc = "audited" /\ db' = db /\ moved' = moved /\ report' = report /\ ghost' = ghost
  BY DEF Checkpoint, At
<1>3. mem' = [mem EXCEPT !.pc = "walked", !.fresh = TRUE, !.ckId = id, !.ckHash = h]
  BY DEF Checkpoint
<1>4. id \in 0..db.lastId /\ HashOf(h, id)
  <2>1. /\ db.lastId \in Nat /\ db.anchor.cycle \in Nat /\ db.anchor.cycle <= db.lastId
        /\ ids = (db.anchor.cycle + 1)..db.lastId
    BY <1>1 DEF Linked, Retained
  <2>2. id = db.lastId
    <3>1. CASE db.anchor.cycle = db.lastId
      BY <2>1, <3>1
    <3>2. CASE db.anchor.cycle # db.lastId
      <4>1. db.lastId \in ids /\ Newest(ids) = db.lastId
        BY <2>1, <3>2, NewestOfInterval
      <4> QED
        BY <4>1
    <3> QED
      BY <3>1, <3>2
  <2> QED
    BY <1>1, <2>1, <2>2, TailIsOfLastRow
<1> HIDE DEF id, h
<1>5. mem' = [pc |-> "walked", ckId |-> id, ckHash |-> h, fresh |-> TRUE,
              dirty |-> mem.dirty, last |-> mem.last, start |-> mem.start,
              result |-> mem.result, walked |-> mem.walked]
  BY <1>1, <1>3 DEF Shapes
<1>6. Shapes(moved', mem', ghost')
  BY <1>1, <1>2, <1>5 DEF Shapes
<1>7. mem.result = "valid" /\ ~ghost.found
  BY <1>1, <1>2 DEF Reported
<1>8. Remembered(db', mem') /\ Suspected(db', mem', ghost')
  BY <1>2, <1>4, <1>5, <1>7 DEF Remembered, Suspected, Answered
<1>9. Quiet(db', mem', report', ghost')
  BY <1>1, <1>2, <1>5, <1>7 DEF Quiet, Answered
<1>10. Reported(db', mem', report', ghost') /\ Current(db', moved', mem', ghost')
  BY <1>1, <1>2, <1>5, <1>7 DEF Reported, Current
<1> QED
  BY <1>1, <1>2, <1>6, <1>8, <1>9, <1>10 DEF Inv, CacheInv

LEMMA RememberStep == Inv /\ Remember => Inv'
<1> SUFFICES ASSUME Inv, Remember PROVE Inv'
  OBVIOUS
<1>1. /\ Linked(db) /\ Shapes(moved, mem, ghost) /\ Remembered(db, mem) /\ Suspected(db, mem, ghost)
      /\ Quiet(db, mem, report, ghost) /\ Reported(db, mem, report, ghost)
      /\ Current(db, moved, mem, ghost)
  BY Parts
<1> DEFINE dirty == mem.result # "valid"
           found == ghost.found \/ (mem.result = "invalid" /\ ~AuditValid(db))
<1>2. /\ mem.pc = "walked" /\ db' = db /\ moved' = FALSE /\ report' = mem.result
      /\ mem' = [mem EXCEPT !.pc = "idle", !.last = mem.result, !.dirty = dirty, !.result = "none"]
      /\ ghost' = [ghost EXCEPT !.found = found]
  BY DEF Remember, At
<1>3. /\ dirty \in BOOLEAN /\ found \in BOOLEAN
      /\ dirty <=> mem.result # "valid"
      /\ found <=> ghost.found \/ (mem.result = "invalid" /\ ~AuditValid(db))
  OBVIOUS
<1> HIDE DEF dirty, found
<1>4. mem' = [pc |-> "idle", ckId |-> mem.ckId, ckHash |-> mem.ckHash, fresh |-> mem.fresh,
              dirty |-> dirty, last |-> mem.result, start |-> mem.start,
              result |-> "none", walked |-> mem.walked]
  BY <1>1, <1>2 DEF Shapes
<1>5. ghost' = [damages |-> ghost.damages, found |-> found, disturbed |-> ghost.disturbed]
  BY <1>1, <1>2 DEF Shapes
<1>6. Shapes(moved', mem', ghost')
  BY <1>1, <1>2, <1>3, <1>4, <1>5 DEF Shapes
<1>7. Remembered(db', mem')
  BY <1>1, <1>2, <1>4 DEF Remembered
<1>8. Suspected(db', mem', ghost')
  <2>1. mem.fresh /\ found => Suspect(db, mem)
    BY <1>1, <1>2, <1>3 DEF Suspected, Answered
  <2> QED
    BY <1>2, <1>4, <1>5, <2>1 DEF Suspected, Suspect, Answered
<1>9. Quiet(db', mem', report', ghost')
  <2>1. ~dirty => mem.result # "invalid"
    BY <1>3
  <2>2. ghost.damages = 0 /\ ~ghost.disturbed => mem.result # "invalid"
    BY <1>1, <1>2 DEF Quiet, Answered
  <2>3. ghost.damages = 0 => AuditValid(db)
    BY <1>1 DEF Quiet
  <2> QED
    BY <1>2, <1>4, <1>5, <2>1, <2>2, <2>3 DEF Quiet, Answered
<1>10. Reported(db', mem', report', ghost')
  <2>1. found => ~AuditValid(db) /\ mem.result # "valid" /\ dirty
    BY <1>1, <1>2, <1>3 DEF Reported
  <2> QED
    BY <1>2, <1>4, <1>5, <2>1 DEF Reported
<1>11. Current(db', moved', mem', ghost')
  BY <1>1, <1>2, <1>4, <1>5 DEF Current
<1> QED
  BY <1>1, <1>2, <1>6, <1>7, <1>8, <1>9, <1>10, <1>11 DEF Inv, CacheInv

-----------------------------------------------------------------------------
(* The theorems.                                                           *)

LEMMA StepInv == Inv /\ [Next]_vars => Inv'
<1> SUFFICES ASSUME Inv, [Next]_vars PROVE Inv'
  OBVIOUS
<1>1. CASE UNCHANGED vars
  BY <1>1 DEF vars, Inv
<1>2. CASE Verify
  BY <1>2, CachedStep, DueStep, IncrementalStep, FallbackStep, FullWalkStep, CheckpointStep,
     RememberStep DEF Verify
<1>3. CASE IntervalElapses
  BY <1>3, ElapseStep
<1>4. CASE (\E p \in Payload : Persist(p)) \/ ForcePrune
  BY <1>4, OwnWrite, WriteStep
<1>5. ASSUME NEW p \in Payload, OtherPersists(p) PROVE Inv'
  BY <1>5, OthersWrite, WriteStep
<1>6. ASSUME NEW i \in DOMAIN db.chain, Damage(i) PROVE Inv'
  BY <1>6, DamageWrites, WriteStep
<1> QED
  BY <1>1, <1>2, <1>3, <1>4, <1>5, <1>6 DEF Next

LEMMA AlwaysInv == Spec => []Inv
<1> QED
  BY InitInv, StepInv, PTL DEF Spec

(* Unless a row was damaged, or somebody wrote during the call, the store  *)
(* never calls the chain invalid (performance_store.py 305-470).           *)
THEOREM CacheRaisesNoFalseAlarm == Spec => []NoFalseAlarm
<1>1. Inv => NoFalseAlarm
  BY DEF Inv, CacheInv, Shapes, Quiet, NoFalseAlarm
<1> QED
  BY <1>1, AlwaysInv, PTL

(* A reported damage stays reported while the full audit would fail: no    *)
(* cached answer and no incremental walk calls the chain valid again.      *)
THEOREM CacheHidesNoFoundDamage == Spec => []FoundDamageStaysReported
<1>1. Inv => FoundDamageStaysReported
  BY DEF Inv, CacheInv, Reported, FoundDamageStaysReported
<1> QED
  BY <1>1, AlwaysInv, PTL

(* An answer from memory is about the rows the file retains.               *)
THEOREM CachedAnswersAreCurrent == Spec => []CachedAnswerIsAboutTheseRows
<1>1. Inv => CachedAnswerIsAboutTheseRows
  BY DEF Inv, CacheInv, Current, CachedAnswerIsAboutTheseRows, At, Usable
<1> QED
  BY <1>1, AlwaysInv, PTL
================================================================================
