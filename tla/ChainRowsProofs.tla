--------------------------- MODULE ChainRowsProofs ---------------------------
(***************************************************************************)
(* What appending and pruning preserve, for every database: the retained   *)
(* rows are exactly the ids from the anchor to the AUTOINCREMENT sequence, *)
(* and each row holds the hash of its predecessor - the anchor for the     *)
(* first.                                                                  *)
(***************************************************************************)
EXTENDS ChainRows, FiniteSetTheorems, WellFoundedInduction, TLAPS

(* The hash row i must hold as its previous hash. *)
Before(d, i) == IF i = d.anchor.cycle + 1 THEN d.anchor.hash ELSE d.chain[i - 1].hash

Retained(d) == (d.anchor.cycle + 1)..d.lastId

DbInv(d) ==
    /\ d.lastId \in Nat
    /\ d.anchor.cycle \in 0..d.lastId
    /\ d.cycles = Retained(d)
    /\ DOMAIN d.chain = Retained(d)
    /\ DOMAIN d.sigs \subseteq Retained(d)
    /\ \A i \in Retained(d) : RowSound(d, i, Before(d, i))

(* The newest id of an interval is its upper end. *)
LEMMA NewestOfInterval ==
    ASSUME NEW a \in Int, NEW b \in Int, a <= b
    PROVE  Newest(a..b) = b
<1>1. b \in a..b /\ \A j \in a..b : j <= b
  OBVIOUS
<1>2. \A x \in a..b : (\A j \in a..b : j <= x) => x = b
  OBVIOUS
<1> QED
  BY <1>1, <1>2 DEF Newest

(* Newest is the maximum whenever a maximum exists. *)
LEMMA NewestIsMaximum ==
    ASSUME NEW S \in SUBSET Int, NEW m \in S, \A j \in S : j <= m
    PROVE  Newest(S) = m
<1>1. \A x \in S : (\A j \in S : j <= x) => x = m
  OBVIOUS
<1> QED
  BY <1>1 DEF Newest

(* A nonempty set of numbers up to n has a newest one. *)
LEMMA NewestExists ==
    ASSUME NEW n \in Nat, NEW S \in SUBSET (0..n), S # {}
    PROVE  Newest(S) \in S /\ \A j \in S : j <= Newest(S)
<1> DEFINE D == {n - x : x \in S}
<1>1. D \subseteq Nat /\ D # {}
  <2>1. D \subseteq Nat
    OBVIOUS
  <2>2. PICK x \in S : TRUE
    OBVIOUS
  <2>3. n - x \in D
    BY <2>2
  <2> QED
    BY <2>1, <2>3
<1>2. PICK m \in D : \A y \in D : ~ (<<y, m>> \in OpToRel(<, Nat))
  <2> HIDE DEF D
  <2> QED
    BY <1>1, NatLessThanWellFounded, WFMin, Zenon
<1>3. \A y \in D : ~ (y < m)
  BY <1>1, <1>2, Zenon DEF OpToRel
<1>4. PICK x \in S : m = n - x
  OBVIOUS
<1>5. \A y \in S : n - y \in D
  OBVIOUS
<1>6. \A y \in S : y <= x
  <2> HIDE DEF D
  <2> QED
    BY <1>3, <1>4, <1>5
<1>7. Newest(S) = x
  BY <1>6, NewestIsMaximum
<1> QED
  BY <1>6, <1>7

(* The row an insert puts at the end of the chain is sound, and the rows   *)
(* before it are untouched (storage.py 299-480 before the prune).          *)
LEMMA AppendKeepsInv ==
    ASSUME NEW d, DbInv(d), NEW p, NEW key
    PROVE  /\ DbInv(Appended(d, p, key))
           /\ Appended(d, p, key).lastId = d.lastId + 1
           /\ Appended(d, p, key).anchor = d.anchor
           /\ Appended(d, p, key).signing = d.signing
           /\ Appended(d, p, key).chain =
                [i \in Retained(d) \cup {d.lastId + 1} |->
                    IF i = d.lastId + 1 THEN Appended(d, p, key).chain[i] ELSE d.chain[i]]
           /\ Appended(d, p, key).chain[d.lastId + 1].payload = p
<1> DEFINE id   == d.lastId + 1
           prev == TailHash(d)
           hash == ChainHash(prev, PayloadHash(p), id)
           row  == [previous |-> prev, payloadHash |-> PayloadHash(p),
                    hash |-> hash, payload |-> p]
           e    == Appended(d, p, key)
<1>1. /\ e.lastId = id /\ e.cycles = d.cycles \cup {id}
      /\ e.chain = Extended(d.chain, id, row)
      /\ e.anchor = d.anchor /\ e.signing = d.signing
      /\ e.sigs = IF key = NoKey THEN d.sigs
                  ELSE Extended(d.sigs, id, [key |-> key, mac |-> Mac(key, id, hash)])
  BY DEF Appended
<1>2. prev = Before(e, id)
  <2>1. CASE d.anchor.cycle = d.lastId
    <3>1. DOMAIN d.chain = {}
      BY <2>1 DEF DbInv, Retained
    <3> QED
      BY <3>1, <2>1, <1>1 DEF TailHash, Before
  <2>2. CASE d.anchor.cycle # d.lastId
    <3>1. d.anchor.cycle + 1 <= d.lastId /\ d.anchor.cycle \in Nat /\ d.lastId \in Nat
      BY <2>2 DEF DbInv
    <3>2. DOMAIN d.chain # {} /\ Newest(DOMAIN d.chain) = d.lastId
      BY <3>1, NewestOfInterval DEF DbInv, Retained
    <3>3. e.chain[id - 1] = d.chain[d.lastId]
      BY <3>1, <1>1 DEF Extended, DbInv, Retained
    <3> QED
      BY <3>1, <3>2, <3>3, <1>1 DEF TailHash, Before
  <2> QED
    BY <2>1, <2>2
<1>3. Retained(e) = Retained(d) \cup {id}
  BY <1>1 DEF Retained, DbInv
<1>4. e.chain = [i \in Retained(d) \cup {id} |-> IF i = id THEN row ELSE d.chain[i]]
  BY <1>1 DEF Extended, DbInv
<1>5. ASSUME NEW i \in Retained(e) PROVE RowSound(e, i, Before(e, i))
  <2>1. CASE i = id
    <3>1. e.chain[i] = row
      BY <2>1, <1>4
    <3> HIDE DEF e
    <3> QED
      BY <2>1, <3>1, <1>2 DEF RowSound
  <2>2. CASE i # id
    <3>1. i \in Retained(d) /\ e.chain[i] = d.chain[i]
      BY <2>2, <1>3, <1>4
    <3>2. Before(e, i) = Before(d, i)
      BY <3>1, <2>2, <1>1, <1>4 DEF Before, Retained, DbInv
    <3>3. RowSound(d, i, Before(d, i))
      BY <3>1 DEF DbInv
    <3> HIDE DEF e
    <3> QED
      BY <3>1, <3>2, <3>3 DEF RowSound
  <2> QED
    BY <2>1, <2>2
<1>6. DOMAIN e.sigs \subseteq Retained(e)
  BY <1>1, <1>3 DEF Extended, DbInv
<1>7. /\ e.lastId \in Nat /\ e.anchor.cycle \in 0..e.lastId
      /\ e.cycles = Retained(e) /\ DOMAIN e.chain = Retained(e)
  BY <1>1, <1>3, <1>4 DEF DbInv
<1>8. DbInv(e)
  <2> HIDE DEF e
  <2> QED BY <1>1, <1>5, <1>6, <1>7 DEF DbInv
<1>9. e.chain[id] = row
  BY <1>4
<1> QED
  BY <1>1, <1>4, <1>8, <1>9

(* The cycles with at least max_cycles newer ones are an initial segment of *)
(* the retained ids (the count query of _prune_cycles_locked).             *)
LEMMA ExcessIsInterval ==
    ASSUME NEW d, DbInv(d)
    PROVE  {i \in d.cycles : Cardinality({j \in d.cycles : j > i}) >= MaxCycles}
             = (d.anchor.cycle + 1)..(d.lastId - MaxCycles)
<1>1. d.lastId \in Nat /\ d.anchor.cycle \in Nat /\ MaxCycles \in Nat \ {0}
  BY MaxCyclesAssumption DEF DbInv
<1>2. ASSUME NEW i \in d.cycles
      PROVE  Cardinality({j \in d.cycles : j > i}) = d.lastId - i
  <2>1. {j \in d.cycles : j > i} = (i + 1)..d.lastId
    BY <1>1 DEF DbInv, Retained
  <2>2. i \in Int /\ i <= d.lastId
    BY <1>1 DEF DbInv, Retained
  <2>3. i + 1 \in Int /\ d.lastId \in Int
    BY <1>1, <2>2
  <2>4. Cardinality((i + 1)..d.lastId)
          = IF i + 1 > d.lastId THEN 0 ELSE d.lastId - (i + 1) + 1
    BY <2>3, FS_Interval
  <2>5. Cardinality((i + 1)..d.lastId) = d.lastId - i
    BY <1>1, <2>2, <2>4
  <2> QED
    BY <2>1, <2>5, Zenon
<1>3. {i \in d.cycles : d.lastId - i >= MaxCycles}
        = (d.anchor.cycle + 1)..(d.lastId - MaxCycles)
  BY <1>1 DEF DbInv, Retained
<1> QED
  BY <1>2, <1>3

(* What a prune deletes is nothing or an initial segment that ends in a    *)
(* retained id, and at most max_cycles ids stay.                           *)
LEMMA PruneBound ==
    ASSUME NEW d, DbInv(d),
           NEW aged \in {{}} \cup {{i} : i \in d.cycles}
    PROVE  LET t == DeleteThrough(d, aged)
           IN  /\ t = 0 \/ t \in Retained(d)
               /\ t = 0 => d.lastId - d.anchor.cycle <= MaxCycles
               /\ d.lastId - t <= MaxCycles \/ t = 0
<1> DEFINE excess == (d.anchor.cycle + 1)..(d.lastId - MaxCycles)
           S == {0} \cup aged \cup excess
<1>1. d.lastId \in Nat /\ d.anchor.cycle \in Nat /\ MaxCycles \in Nat \ {0}
  BY MaxCyclesAssumption DEF DbInv
<1>2. DeleteThrough(d, aged) = Newest(S)
  BY ExcessIsInterval DEF DeleteThrough
<1>3. PICK x \in {0} \cup Retained(d) : {0} \cup aged = {0, x}
  BY DEF DbInv
<1> DEFINE y == IF excess = {} THEN 0 ELSE d.lastId - MaxCycles
           m == IF x >= y THEN x ELSE y
<1>4. x \in Nat /\ y \in Nat
  BY <1>1 DEF Retained
<1>5. S = {0, x} \cup excess
  BY <1>3
<1>6. m \in S /\ (\A j \in S : j <= m) /\ S \in SUBSET Int
  BY <1>1, <1>4, <1>5
<1>7. Newest(S) = m
  <2> HIDE DEF m, S
  <2> QED BY <1>6, NewestIsMaximum
<1>8. m = 0 \/ m \in Retained(d)
  BY <1>1, <1>4 DEF Retained
<1>9. m = 0 => d.lastId - d.anchor.cycle <= MaxCycles
  <2>1. m = 0 => y = 0
    BY <1>4
  <2>2. CASE excess = {}
    <3>1. ~(d.anchor.cycle + 1 <= d.lastId - MaxCycles)
      <4>1. d.anchor.cycle + 1 <= d.lastId - MaxCycles => d.anchor.cycle + 1 \in excess
        BY <1>1
      <4> QED BY <2>2, <4>1
    <3> QED BY <1>1, <3>1
  <2>3. CASE excess # {}
    <3>1. y = d.lastId - MaxCycles
      BY <2>3
    <3> HIDE DEF y
    <3> QED BY <1>1, <2>1, <3>1
  <2> QED BY <2>2, <2>3
<1>10. d.lastId - m <= MaxCycles \/ m = 0
  BY <1>1, <1>4 DEF Retained
<1> QED
  BY <1>2, <1>7, <1>8, <1>9, <1>10

(* Pruning keeps the invariant: the new anchor is the row before the first *)
(* row that stays.                                                         *)
LEMMA PruneKeepsInv ==
    ASSUME NEW d, DbInv(d),
           NEW aged \in {{}} \cup {{i} : i \in d.cycles}
    PROVE  /\ DbInv(Pruned(d, aged))
           /\ Pruned(d, aged).lastId = d.lastId
           /\ Pruned(d, aged).signing = d.signing
           /\ Pruned(d, aged).anchor.cycle \in d.anchor.cycle..d.lastId
           /\ \A i \in Retained(Pruned(d, aged)) : Pruned(d, aged).chain[i] = d.chain[i]
           /\ d.lastId - Pruned(d, aged).anchor.cycle <= MaxCycles
<1> DEFINE t == DeleteThrough(d, aged)
           e == Pruned(d, aged)
<1>1. d.lastId \in Nat /\ d.anchor.cycle \in Nat /\ d.anchor.cycle <= d.lastId
  BY DEF DbInv
<1>2. /\ t = 0 \/ t \in Retained(d)
      /\ t = 0 => d.lastId - d.anchor.cycle <= MaxCycles
      /\ d.lastId - t <= MaxCycles \/ t = 0
  BY PruneBound
<1>3. CASE t = 0
  <2>1. Pruned(d, aged) = d
    BY <1>3 DEF Pruned
  <2>2. d.anchor.cycle \in d.anchor.cycle..d.lastId
    BY <1>1
  <2> QED
    BY <2>1, <2>2, <1>2, <1>3
<1>4. CASE t \in Retained(d)
  <2> HIDE DEF t
  <2>1. t \in Int /\ t > 0 /\ t > d.anchor.cycle /\ t <= d.lastId
    BY <1>1, <1>4 DEF Retained
  <2>2. {i \in DOMAIN d.chain : i <= t} = (d.anchor.cycle + 1)..t
    BY <1>1, <2>1 DEF DbInv, Retained
  <2>3. AnchorFor(d, t) = [cycle |-> t, hash |-> d.chain[t].hash]
    <3>1. Newest((d.anchor.cycle + 1)..t) = t
      BY <2>1, <1>1, NewestOfInterval
    <3>2. (d.anchor.cycle + 1)..t # {}
      BY <2>1, <1>1
    <3> QED
      BY <2>2, <3>1, <3>2 DEF AnchorFor
  <2>4. /\ e.lastId = d.lastId
        /\ e.cycles = {i \in d.cycles : i > t}
        /\ e.chain = Above(d.chain, t)
        /\ e.sigs = Above(d.sigs, t)
        /\ e.anchor = [cycle |-> t, hash |-> d.chain[t].hash]
        /\ e.signing = d.signing
    BY <2>1, <2>3 DEF Pruned, t
  <2> HIDE DEF e
  <2>5. Retained(e) = (t + 1)..d.lastId /\ Retained(e) = {i \in Retained(d) : i > t}
    BY <2>1, <2>4, <1>1 DEF Retained
  <2>6. e.chain = [i \in Retained(e) |-> d.chain[i]]
    BY <2>4, <2>5 DEF Above, DbInv
  <2>7. e.cycles = Retained(e) /\ DOMAIN e.chain = Retained(e)
        /\ DOMAIN e.sigs \subseteq Retained(e)
    BY <2>4, <2>5, <2>6 DEF Above, DbInv
  <2>8. ASSUME NEW i \in Retained(e) PROVE RowSound(e, i, Before(e, i))
    <3>1. i \in Retained(d) /\ i > t /\ i \in Int
      BY <2>5, <2>1
    <3>2. e.chain[i] = d.chain[i]
      BY <2>6
    <3>3. Before(e, i) = Before(d, i)
      <4>1. CASE i = t + 1
        BY <4>1, <2>1, <2>4, <1>1, <3>1 DEF Before
      <4>2. CASE i # t + 1
        <5>1. i - 1 \in Retained(e) /\ i # d.anchor.cycle + 1
          BY <4>2, <3>1, <2>1, <2>5, <1>1 DEF Retained
        <5> QED
          BY <5>1, <4>2, <2>4, <2>6 DEF Before
      <4> QED
        BY <4>1, <4>2
    <3> QED
      BY <3>1, <3>2, <3>3 DEF RowSound, DbInv
  <2>9. DbInv(e)
    BY <2>1, <2>4, <2>7, <2>8, <1>1 DEF DbInv
  <2> QED
    BY <2>1, <2>4, <2>6, <2>9, <1>1, <1>2 DEF e
<1> QED
  BY <1>2, <1>3, <1>4
=============================================================================
