------------------------- MODULE EvidenceChainProofs -------------------------
(***************************************************************************)
(* Theorems about EvidenceChain, for every set of processes, keys and      *)
(* payloads, every max_cycles and every number of cycles, and about        *)
(* EvidenceDamage, for one process and any amount of damage.               *)
(*                                                                         *)
(* The inductive invariant is DbInv of ChainRowsProofs: LinksVerify alone  *)
(* is not inductive, because a prune turns the last removed row into the   *)
(* anchor, which is the right start of the walk only because no id is      *)
(* missing.                                                                *)
(*                                                                         *)
(* With one process, signing is configured only where it is not (Holders), *)
(* so that every row above the boundary is signed with the one key         *)
(* (SignedRows), and what an audit has read is still so when it walks      *)
(* (ReadsAreCurrent).                                                      *)
(*                                                                         *)
(* That damage is exposed needs to know how each row was inserted: T in    *)
(* Truth.  The newest row's hash, when the next row is inserted on it, is  *)
(* its own, or no digest, or one that its signature does not fit (TailOf). *)
(* Were an audit to pass although some row is lost or not as inserted, the *)
(* newest such row would have a sound successor, or be the newest of all,  *)
(* and each contradicts TailOf (TruthIsExposed).                           *)
(***************************************************************************)
EXTENDS EvidenceDamage, ChainRowsProofs

-----------------------------------------------------------------------------
(* The steps of the specification, as they bear on the database.           *)

AgedChoice(d) == {{}} \cup {{i} : i \in d.cycles}

LEMMA DbStep ==
    ASSUME [Next]_vars
    PROVE  \/ UNCHANGED db
           \/ \E key, from : db' = Configured(db, key, from)
           \/ \E aged \in AgedChoice(db) : db' = Pruned(db, aged)
           \/ \E p \in Payload : \E key : db' = Appended(db, p, key)
           \/ \E p \in Payload : \E key :
                \E aged \in AgedChoice(Appended(db, p, key)) :
                    db' = Pruned(Appended(db, p, key), aged)
<1>1. CASE UNCHANGED vars
  BY <1>1 DEF vars
<1>2. ASSUME NEW c \in Conn, Step(c)
      PROVE  \/ UNCHANGED db
             \/ ConfigureWrite(c)
             \/ \E p \in Payload : PersistCommit(c, p)
             \/ ForcePrune(c)
  BY <1>2 DEF Step, Open, ConfigureRead, PersistCheck, PersistAbort,
              AuditAnchor, AuditMeta, AuditRows, Close
<1>3. ASSUME NEW c \in Conn, ConfigureWrite(c)
      PROVE  \E key, from : db' = Configured(db, key, from)
  BY <1>3 DEF ConfigureWrite
<1>4. ASSUME NEW c \in Conn, ForcePrune(c)
      PROVE  \E aged \in AgedChoice(db) : db' = Pruned(db, aged)
  BY <1>4 DEF ForcePrune, AgedChoice
<1>5. ASSUME NEW c \in Conn, NEW p \in Payload, PersistCommit(c, p)
      PROVE  \/ \E key : db' = Appended(db, p, key)
             \/ \E key : \E aged \in AgedChoice(Appended(db, p, key)) :
                    db' = Pruned(Appended(db, p, key), aged)
  <2> DEFINE d == Appended(db, p, conn[c].key)
  <2>1. db' \in AfterPrune(c, d)
    BY <1>5 DEF PersistCommit
  <2> HIDE DEF d
  <2>2. db' = d \/ \E aged \in AgedChoice(d) : db' = Pruned(d, aged)
    BY <2>1 DEF AfterPrune, AgedChoice
  <2> QED
    BY <2>2 DEF d
<1> QED
  BY <1>1, <1>2, <1>3, <1>4, <1>5 DEF Next

LEMMA ConfigureKeepsInv ==
    ASSUME NEW d, DbInv(d), NEW key, NEW from
    PROVE  DbInv(Configured(d, key, from))
<1> DEFINE e == Configured(d, key, from)
<1>1. /\ e.lastId = d.lastId /\ e.cycles = d.cycles /\ e.chain = d.chain
      /\ e.sigs = d.sigs /\ e.anchor = d.anchor
  BY DEF Configured
<1> HIDE DEF e
<1>2. Retained(e) = Retained(d)
  BY <1>1 DEF Retained
<1>3. \A i : Before(e, i) = Before(d, i) /\ (RowSound(e, i, Before(d, i)) <=> RowSound(d, i, Before(d, i)))
  BY <1>1 DEF Before, RowSound
<1>4. DbInv(e)
  BY <1>1, <1>2, <1>3 DEF DbInv
<1> QED
  BY <1>4 DEF e

LEMMA InitDbInv == Init => DbInv(db)
<1> SUFFICES ASSUME Init PROVE DbInv(db)
  OBVIOUS
<1>1. /\ db.lastId = 0 /\ db.cycles = {} /\ db.chain = EmptyTable
      /\ db.sigs = EmptyTable /\ db.anchor = [cycle |-> 0, hash |-> Genesis]
  BY DEF Init, EmptyDb
<1>2. Retained(db) = {} /\ DOMAIN EmptyTable = {}
  BY <1>1 DEF Retained, EmptyTable
<1> QED
  BY <1>1, <1>2 DEF DbInv

LEMMA StepDbInv == DbInv(db) /\ [Next]_vars => DbInv(db')
<1> SUFFICES ASSUME DbInv(db), [Next]_vars PROVE DbInv(db')
  OBVIOUS
<1>1. CASE UNCHANGED db
  BY <1>1
<1>2. CASE \E key, from : db' = Configured(db, key, from)
  BY <1>2, ConfigureKeepsInv
<1>3. CASE \E aged \in AgedChoice(db) : db' = Pruned(db, aged)
  <2>1. PICK aged \in AgedChoice(db) : db' = Pruned(db, aged)
    BY <1>3
  <2>2. DbInv(Pruned(db, aged))
    BY <2>1, PruneKeepsInv DEF AgedChoice
  <2> QED
    BY <2>1, <2>2
<1>4. CASE \E p \in Payload : \E key : db' = Appended(db, p, key)
  <2>0. PICK p \in Payload : \E key : db' = Appended(db, p, key)
    BY <1>4
  <2>1. PICK key : db' = Appended(db, p, key)
    BY <2>0
  <2>2. DbInv(Appended(db, p, key))
    BY AppendKeepsInv
  <2> QED
    BY <2>1, <2>2
<1>5. CASE \E p \in Payload : \E key :
             \E aged \in AgedChoice(Appended(db, p, key)) :
                 db' = Pruned(Appended(db, p, key), aged)
  <2>0. PICK p \in Payload :
           \E key : \E aged \in AgedChoice(Appended(db, p, key)) :
               db' = Pruned(Appended(db, p, key), aged)
    BY <1>5
  <2>1. PICK key : \E aged \in AgedChoice(Appended(db, p, key)) :
               db' = Pruned(Appended(db, p, key), aged)
    BY <2>0
  <2> DEFINE d == Appended(db, p, key)
  <2>2. DbInv(d)
    BY AppendKeepsInv
  <2>3. PICK aged \in AgedChoice(d) : db' = Pruned(d, aged)
    BY <2>1
  <2> HIDE DEF d
  <2>4. DbInv(Pruned(d, aged))
    BY <2>2, <2>3, PruneKeepsInv DEF AgedChoice
  <2> QED
    BY <2>3, <2>4
<1> QED
  BY <1>1, <1>2, <1>3, <1>4, <1>5, DbStep

LEMMA DbInvariant == Spec => []DbInv(db)
<1>1. Init => DbInv(db)
  BY InitDbInv
<1>2. DbInv(db) /\ [Next]_vars => DbInv(db)'
  BY StepDbInv
<1> QED
  BY <1>1, <1>2, PTL DEF Spec

(* A walk that starts at the anchor meets every row with the hash of the   *)
(* row before it.                                                          *)
LEMMA InvLinks == DbInv(db) => LinksVerify
<1> SUFFICES ASSUME DbInv(db), NEW i \in DOMAIN db.chain, i > 0
             PROVE  RowSound(db, i, PreviousInWalk(db, 0, db.anchor.hash, i))
  BY DEF LinksVerify, Sound, SignatureSound, NoMeta
<1>1. /\ db.lastId \in Nat /\ db.anchor.cycle \in Nat
      /\ DOMAIN db.chain = Retained(db) /\ i \in Retained(db)
  BY DEF DbInv
<1>2. {j \in DOMAIN db.chain : 0 < j /\ j < i} = (db.anchor.cycle + 1)..(i - 1)
  BY <1>1 DEF Retained
<1>3. PreviousInWalk(db, 0, db.anchor.hash, i) = Before(db, i)
  <2>1. CASE i = db.anchor.cycle + 1
    BY <1>1, <1>2, <2>1 DEF PreviousInWalk, Before
  <2>2. CASE i # db.anchor.cycle + 1
    <3>1. db.anchor.cycle + 1 <= i - 1 /\ i - 1 \in Int
      BY <1>1, <2>2 DEF Retained
    <3>2. Newest((db.anchor.cycle + 1)..(i - 1)) = i - 1
      BY <3>1, <1>1, NewestOfInterval
    <3>3. (db.anchor.cycle + 1)..(i - 1) # {}
      BY <3>1, <1>1
    <3> QED
      BY <1>2, <2>2, <3>2, <3>3 DEF PreviousInWalk, Before
  <2> QED
    BY <2>1, <2>2
<1> QED
  BY <1>1, <1>3 DEF DbInv

(* In every reachable state, however processes with and without keys      *)
(* interleave, restart and prune, the retained rows link from the anchor   *)
(* to the newest row with correct hashes.                                  *)
THEOREM LinksAlwaysVerify == Spec => []LinksVerify
  BY DbInvariant, InvLinks, PTL

-----------------------------------------------------------------------------
(* A step that moves the anchor leaves at most max_cycles retained cycles. *)

LEMMA StepRetention ==
    DbInv(db) /\ [Next]_vars =>
        (db'.anchor # db.anchor => Cardinality(db'.cycles) <= MaxCycles)
<1> SUFFICES ASSUME DbInv(db), [Next]_vars, db'.anchor # db.anchor
             PROVE  Cardinality(db'.cycles) <= MaxCycles
  OBVIOUS
<1>1. ASSUME NEW d, DbInv(d), NEW aged \in AgedChoice(d), db' = Pruned(d, aged)
      PROVE  db'.lastId - db'.anchor.cycle <= MaxCycles
  BY <1>1, PruneKeepsInv DEF AgedChoice
<1>2. db'.lastId - db'.anchor.cycle <= MaxCycles
  <2>1. CASE UNCHANGED db
    BY <2>1
  <2>2. CASE \E key, from : db' = Configured(db, key, from)
    BY <2>2 DEF Configured
  <2>3. CASE \E aged \in AgedChoice(db) : db' = Pruned(db, aged)
    BY <2>3, <1>1
  <2>4. CASE \E p \in Payload : \E key : db' = Appended(db, p, key)
    BY <2>4 DEF Appended
  <2>5. CASE \E p \in Payload : \E key :
               \E aged \in AgedChoice(Appended(db, p, key)) :
                   db' = Pruned(Appended(db, p, key), aged)
    <3>0. PICK p \in Payload :
             \E key : \E aged \in AgedChoice(Appended(db, p, key)) :
                 db' = Pruned(Appended(db, p, key), aged)
      BY <2>5
    <3>1. PICK key : \E aged \in AgedChoice(Appended(db, p, key)) :
                 db' = Pruned(Appended(db, p, key), aged)
      BY <3>0
    <3>2. DbInv(Appended(db, p, key))
      BY AppendKeepsInv
    <3> QED
      BY <3>1, <3>2, <1>1
  <2> QED
    BY <2>1, <2>2, <2>3, <2>4, <2>5, DbStep
<1>3. DbInv(db')
  BY StepDbInv
<1>4. /\ db'.cycles = (db'.anchor.cycle + 1)..db'.lastId
      /\ db'.lastId \in Nat /\ db'.anchor.cycle \in Nat
      /\ db'.anchor.cycle <= db'.lastId
  BY <1>3 DEF DbInv, Retained
<1>i. db'.anchor.cycle + 1 \in Int /\ db'.lastId \in Int
  BY <1>4
<1>5. Cardinality((db'.anchor.cycle + 1)..db'.lastId)
        = IF db'.anchor.cycle + 1 > db'.lastId THEN 0
          ELSE db'.lastId - (db'.anchor.cycle + 1) + 1
  BY <1>i, FS_Interval
<1>6. MaxCycles \in Nat
  BY MaxCyclesAssumption
<1> QED
  BY <1>2, <1>4, <1>5, <1>6

(* Whenever a prune forgets cycles, no more than max_cycles stay: the count *)
(* limit of _prune_cycles_locked, for every max_cycles and every writer.   *)
THEOREM RetentionIsBounded == Spec => RetentionBounded
<1>1. DbInv(db) /\ [Next]_vars =>
          [db'.anchor # db.anchor => Cardinality(db'.cycles) <= MaxCycles]_vars
  BY StepRetention
<1> QED
  BY <1>1, DbInvariant, PTL DEF Spec, RetentionBounded

-----------------------------------------------------------------------------
(* The refinement of EvidenceLog.                                          *)

View(d) == [i \in DOMAIN d.chain |-> d.chain[i].payload]

LEMMA InitRefines == Init => Log!Init
<1> SUFFICES ASSUME Init PROVE Log!Init
  OBVIOUS
<1>1. db.lastId = 0 /\ db.anchor.cycle = 0 /\ db.chain = [i \in {} |-> 0]
  BY DEF Init, EmptyDb, EmptyTable
<1> QED
  BY <1>1 DEF Log!Init

(* A prune on its own is a Forget of the log. *)
LEMMA PruneRefines ==
    ASSUME NEW d, DbInv(d), NEW aged \in AgedChoice(d)
    PROVE  LET e == Pruned(d, aged)
           IN  /\ e.lastId = d.lastId
               /\ e.anchor.cycle \in d.anchor.cycle..d.lastId
               /\ View(e) = [i \in (e.anchor.cycle + 1)..e.lastId |-> View(d)[i]]
<1> DEFINE e == Pruned(d, aged)
<1>1. /\ DbInv(e)
      /\ e.lastId = d.lastId
      /\ e.anchor.cycle \in d.anchor.cycle..d.lastId
      /\ \A i \in Retained(e) : e.chain[i] = d.chain[i]
  BY PruneKeepsInv DEF AgedChoice
<1> HIDE DEF e
<1>2. DOMAIN e.chain = Retained(e) /\ DOMAIN d.chain = Retained(d)
  BY <1>1 DEF DbInv
<1>3. Retained(e) \subseteq Retained(d)
  <2>1. d.anchor.cycle \in Int /\ d.lastId \in Int
    BY DEF DbInv
  <2> QED
    BY <1>1, <2>1 DEF Retained
<1>4. \A i \in Retained(e) : e.chain[i].payload = View(d)[i]
  BY <1>1, <1>2, <1>3 DEF View
<1>5. View(e) = [i \in Retained(e) |-> View(d)[i]]
  BY <1>2, <1>4 DEF View
<1> QED
  BY <1>1, <1>5 DEF e, Retained

(* An insert on its own extends the log by its payload. *)
LEMMA AppendRefines ==
    ASSUME NEW d, DbInv(d), NEW p, NEW key
    PROVE  LET e == Appended(d, p, key)
           IN  /\ e.lastId = d.lastId + 1
               /\ e.anchor = d.anchor
               /\ View(e) = [i \in (d.anchor.cycle + 1)..e.lastId |->
                                IF i = e.lastId THEN p ELSE View(d)[i]]
<1> DEFINE e == Appended(d, p, key)
<1>1. /\ DbInv(e)
      /\ e.lastId = d.lastId + 1
      /\ e.anchor = d.anchor
      /\ e.chain = [i \in Retained(d) \cup {d.lastId + 1} |->
                       IF i = d.lastId + 1 THEN e.chain[i] ELSE d.chain[i]]
      /\ e.chain[d.lastId + 1].payload = p
  BY AppendKeepsInv
<1> HIDE DEF e
<1>2. /\ DOMAIN e.chain = (d.anchor.cycle + 1)..e.lastId
      /\ DOMAIN d.chain = Retained(d)
      /\ d.lastId \in Nat
  BY <1>1 DEF DbInv, Retained
<1>3. ASSUME NEW i \in DOMAIN e.chain
      PROVE  e.chain[i].payload = IF i = e.lastId THEN p ELSE View(d)[i]
  <2>1. CASE i = d.lastId + 1
    BY <2>1, <1>1
  <2>2. CASE i # d.lastId + 1
    <3>1. i \in Retained(d) /\ e.chain[i] = d.chain[i]
      BY <2>2, <1>1
    <3> QED
      BY <3>1, <2>2, <1>1, <1>2 DEF View
  <2> QED
    BY <2>1, <2>2
<1>4. View(e) = [i \in (d.anchor.cycle + 1)..e.lastId |->
                    IF i = e.lastId THEN p ELSE View(d)[i]]
  BY <1>2, <1>3 DEF View
<1> QED
  BY <1>1, <1>4 DEF e

LEMMA StepRefines == DbInv(db) /\ [Next]_vars => [Log!Next]_(Log!vars)
<1> SUFFICES ASSUME DbInv(db), [Next]_vars PROVE [Log!Next]_(Log!vars)
  OBVIOUS
<1>a. db.lastId \in Nat /\ db.anchor.cycle \in 0..db.lastId
  BY DEF DbInv
<1>1. CASE UNCHANGED db
  BY <1>1 DEF Log!vars
<1>2. CASE \E key, from : db' = Configured(db, key, from)
  BY <1>2 DEF Log!vars, Configured
<1>3. CASE \E aged \in AgedChoice(db) : db' = Pruned(db, aged)
  <2>1. PICK aged \in AgedChoice(db) : db' = Pruned(db, aged)
    BY <1>3
  <2>2. /\ db'.lastId = db.lastId
        /\ db'.anchor.cycle \in db.anchor.cycle..db.lastId
        /\ View(db') = [i \in (db'.anchor.cycle + 1)..db'.lastId |-> View(db)[i]]
    BY <2>1, PruneRefines
  <2>3. Log!Forget
    BY <2>2 DEF Log!Forget, Log!ForgetThrough, View
  <2> QED
    BY <2>3 DEF Log!Next
<1>4. ASSUME NEW p \in Payload, NEW key, db' = Appended(db, p, key)
      PROVE  Log!Next
  <2>1. /\ db'.lastId = db.lastId + 1
        /\ db'.anchor = db.anchor
        /\ View(db') = [i \in (db.anchor.cycle + 1)..db'.lastId |->
                            IF i = db'.lastId THEN p ELSE View(db)[i]]
    BY <1>4, AppendRefines
  <2>2. db'.anchor.cycle \in db.anchor.cycle..db'.lastId
    BY <2>1, <1>a
  <2>3. View(db') = Log!ForgetThrough(View(db'), db'.anchor.cycle, db'.lastId)
    BY <2>1 DEF Log!ForgetThrough
  <2>4. Log!Append(p)
    BY <2>1, <2>2, <2>3 DEF Log!Append, View
  <2> QED
    BY <2>4 DEF Log!Next
<1>5. ASSUME NEW p \in Payload, NEW key,
             NEW aged \in AgedChoice(Appended(db, p, key)),
             db' = Pruned(Appended(db, p, key), aged)
      PROVE  Log!Next
  <2> DEFINE d == Appended(db, p, key)
  <2>1. /\ d.lastId = db.lastId + 1
        /\ d.anchor = db.anchor
        /\ View(d) = [i \in (db.anchor.cycle + 1)..d.lastId |->
                            IF i = d.lastId THEN p ELSE View(db)[i]]
    BY AppendRefines
  <2>d. DbInv(d)
    BY AppendKeepsInv
  <2>2. aged \in AgedChoice(d) /\ db' = Pruned(d, aged)
    BY <1>5
  <2> HIDE DEF d
  <2>3. /\ db'.lastId = d.lastId
        /\ db'.anchor.cycle \in d.anchor.cycle..d.lastId
        /\ View(db') = [i \in (db'.anchor.cycle + 1)..db'.lastId |-> View(d)[i]]
    BY <2>d, <2>2, PruneRefines
  <2>4. db'.lastId = db.lastId + 1 /\ db'.anchor.cycle \in db.anchor.cycle..db'.lastId
    BY <2>1, <2>3
  <2>5. View(db') = Log!ForgetThrough([i \in (db.anchor.cycle + 1)..db'.lastId |->
                        IF i = db'.lastId THEN p ELSE View(db)[i]],
                        db'.anchor.cycle, db'.lastId)
    BY <2>1, <2>3 DEF Log!ForgetThrough
  <2>6. Log!Append(p)
    BY <2>4, <2>5 DEF Log!Append, View
  <2> QED
    BY <2>6 DEF Log!Next
<1> QED
  BY <1>1, <1>2, <1>3, <1>4, <1>5, DbStep

(* The store implements the append-only log with a retained suffix: no     *)
(* step of any process changes, reorders or drops a retained payload.      *)
THEOREM ChainImplementsLog == Spec => ImplementsLog
<1>1. Init => Log!Init
  BY InitRefines
<1>2. DbInv(db) /\ [Next]_vars => [Log!Next]_(Log!vars)
  BY StepRefines
<1> QED
  BY <1>1, <1>2, DbInvariant, PTL DEF Spec, ImplementsLog, Log!Spec

-----------------------------------------------------------------------------
(* Type correctness.                                                       *)

IInv == TypeOK /\ DbInv(db)

ConnsOK == conn = [c \in Conn |-> conn[c]] /\ \A c \in Conn : ConnOK(conn[c])

(* A step that replaces the record of one connection by a well-typed one.  *)
LEMMA ReplaceConn ==
    ASSUME ConnsOK, NEW c \in Conn, NEW r, ConnOK(r), conn' = [conn EXCEPT ![c] = r]
    PROVE  ConnsOK'
  BY DEF ConnsOK

LEMMA StepConnsOK == IInv /\ [Next]_vars => ConnsOK'
<1> SUFFICES ASSUME IInv, [Next]_vars PROVE ConnsOK'
  OBVIOUS
<1>a. ConnsOK /\ DbOK(db) /\ MaxId \in Nat /\ Signer \subseteq Key \cup {NoKey}
  BY MaxIdAssumption, SignerAssumption DEF IInv, TypeOK, ConnsOK
<1>b. ConnOK(Closed) /\ \A k \in Key \cup {NoKey} :
        ConnOK(Opened(k, "none"))
  BY <1>a DEF ConnOK, Mem, Opened, Closed, Phase
<1>c. ASSUME NEW c \in Conn, NEW report \in {"none", "valid", "invalid"}
      PROVE  ConnOK(Idle(c, report))
  <2>1. ConnOK(conn[c])
    BY <1>a DEF ConnsOK
  <2> QED
    BY <2>1, <1>a DEF ConnOK, Mem, Idle, Opened, Phase
<1>1. CASE UNCHANGED vars
  BY <1>1, <1>a DEF vars, ConnsOK
<1>2. ASSUME NEW c \in Conn, Step(c) PROVE ConnsOK'
  <2>0. ConnOK(conn[c])
    BY <1>a DEF ConnsOK
  <2>1. ASSUME NEW k \in Signer, Open(c, k) PROVE ConnsOK'
    <3>1. ConnOK(Opened(k, "none"))
      BY <1>a, <1>b
    <3> QED
      BY <3>1, <2>1, <1>a, ReplaceConn DEF Open
  <2>2. ASSUME NEW k \in Signer, ConfigureRead(c, k) PROVE ConnsOK'
    <3>1. Newest({0} \cup db.cycles) + 1 \in 0..(MaxId + 1)
      <4>1. db.cycles = (db.anchor.cycle + 1)..db.lastId /\ db.lastId \in Nat
            /\ db.anchor.cycle \in 0..db.lastId /\ db.lastId <= MaxId
        BY <1>a DEF IInv, DbInv, Retained, DbOK
      <4>2. Newest({0} \cup db.cycles) \in {0, db.lastId}
        <5>1. CASE db.cycles = {}
          <6>1. Newest({0} \cup db.cycles) = 0
            BY <5>1 DEF Newest
          <6> QED BY <6>1
        <5>2. CASE db.cycles # {}
          <6>1. db.lastId \in db.cycles /\ \A j \in {0} \cup db.cycles : j <= db.lastId
            BY <4>1, <5>2
          <6>2. {0} \cup db.cycles \in SUBSET Int
            BY <4>1
          <6> QED
            BY <6>1, <6>2, NewestIsMaximum
        <5> QED
          BY <5>1, <5>2
      <4> QED
        BY <4>1, <4>2, <1>a
    <3> DEFINE from == Newest({0} \cup db.cycles) + 1
    <3> HIDE DEF from
    <3>2. ConnOK(Mem("configuring", k, from, Genesis, NoMeta, "none"))
      BY <3>1, <2>2, <1>a DEF ConfigureRead, ConnOK, Mem, Phase, from
    <3> QED
      BY <3>2, <2>2, <1>a, ReplaceConn DEF ConfigureRead, from
  <2>3. CASE ConfigureWrite(c)
    BY <2>3, <1>a, <1>c, ReplaceConn DEF ConfigureWrite
  <2>4. CASE PersistCheck(c)
    <3>1. ConnOK(Mem("persisting", conn[c].key, 0, Genesis, NoMeta, conn[c].report))
      BY <2>0, <1>a DEF ConnOK, Mem, Phase
    <3> QED
      BY <3>1, <2>4, <1>a, ReplaceConn DEF PersistCheck
  <2>5. ASSUME NEW p \in Payload, PersistCommit(c, p) PROVE ConnsOK'
    <3>1. ConnOK(Idle(c, conn[c].report))
      BY <2>0, <1>c DEF ConnOK
    <3> QED
      BY <3>1, <2>5, <1>a, ReplaceConn DEF PersistCommit
  <2>6. CASE PersistAbort(c)
    <3>1. ConnOK(Idle(c, conn[c].report))
      BY <2>0, <1>c DEF ConnOK
    <3> QED
      BY <3>1, <2>6, <1>a, ReplaceConn DEF PersistAbort
  <2>7. CASE ForcePrune(c)
    BY <2>7, <1>a DEF ForcePrune, ConnsOK
  <2>8. CASE AuditAnchor(c)
    <3>1. ConnOK(Mem("anchored", conn[c].key, 0, db.anchor.hash, NoMeta, conn[c].report))
      BY <2>0, <1>a DEF ConnOK, Mem, Phase
    <3> QED
      BY <3>1, <2>8, <1>a, ReplaceConn DEF AuditAnchor
  <2>9. CASE AuditMeta(c)
    <3>1. ConnOK(Mem("walking", conn[c].key, 0, conn[c].start, db.signing, conn[c].report))
      BY <2>0, <1>a DEF ConnOK, Mem, Phase
    <3> QED
      BY <3>1, <2>9, <1>a, ReplaceConn DEF AuditMeta
  <2>10. CASE AuditRows(c)
    BY <2>10, <1>a, <1>c, ReplaceConn DEF AuditRows
  <2>11. CASE Close(c)
    BY <2>11, <1>a, <1>b, ReplaceConn DEF Close
  <2> QED
    BY <1>2, <2>1, <2>2, <2>3, <2>4, <2>5, <2>6, <2>7, <2>8, <2>9, <2>10, <2>11 DEF Step
<1> QED
  BY <1>1, <1>2 DEF Next

LEMMA AppendOK ==
    ASSUME NEW d, DbInv(d), DbOK(d), d.lastId < MaxId,
           NEW p \in Payload, NEW key \in Key \cup {NoKey}
    PROVE  DbOK(Appended(d, p, key))
<1> DEFINE e == Appended(d, p, key)
           id == d.lastId + 1
<1>1. /\ e.lastId = id /\ e.cycles = d.cycles \cup {id} /\ e.anchor = d.anchor
      /\ e.signing = d.signing
      /\ DOMAIN e.sigs \subseteq DOMAIN d.sigs \cup {id}
      /\ \A i \in DOMAIN e.sigs : e.sigs[i].key \in Key
  BY DEF Appended, Extended, DbOK
<1>2. /\ DbInv(e)
      /\ e.chain = [i \in Retained(d) \cup {id} |-> IF i = id THEN e.chain[i] ELSE d.chain[i]]
      /\ e.chain[id].payload = p
  BY AppendKeepsInv
<1> HIDE DEF e
<1>3. DOMAIN e.chain = Retained(d) \cup {id} /\ DOMAIN d.chain = Retained(d)
  BY <1>2 DEF DbInv
<1>4. \A i \in DOMAIN e.chain : e.chain[i].payload \in Payload
  BY <1>2, <1>3 DEF DbOK
<1>5. /\ e.lastId \in 0..MaxId /\ e.cycles \subseteq 1..e.lastId
      /\ DOMAIN e.chain \subseteq e.cycles /\ e.anchor.cycle \in 0..e.lastId
  BY <1>1, <1>2, MaxIdAssumption DEF DbOK, DbInv
<1>6. DOMAIN e.sigs \subseteq e.cycles
  BY <1>1 DEF DbOK
<1>7. DbOK(e)
  BY <1>1, <1>4, <1>5, <1>6 DEF DbOK
<1> QED
  BY <1>7 DEF e

LEMMA PruneOK ==
    ASSUME NEW d, DbInv(d), DbOK(d), NEW aged \in AgedChoice(d)
    PROVE  DbOK(Pruned(d, aged))
<1> DEFINE e == Pruned(d, aged)
<1>1. /\ DbInv(e) /\ e.lastId = d.lastId /\ e.signing = d.signing
      /\ e.anchor.cycle \in d.anchor.cycle..d.lastId
      /\ \A i \in Retained(e) : e.chain[i] = d.chain[i]
  BY PruneKeepsInv DEF AgedChoice
<1>2. \A i \in DOMAIN e.sigs : i \in DOMAIN d.sigs /\ e.sigs[i] = d.sigs[i]
  BY DEF Pruned, Above
<1> HIDE DEF e
<1>3. /\ DOMAIN e.chain = Retained(e) /\ e.cycles = Retained(e)
      /\ DOMAIN d.chain = Retained(d) /\ DOMAIN e.sigs \subseteq Retained(e)
      /\ d.lastId \in Nat /\ d.anchor.cycle \in Nat
  BY <1>1 DEF DbInv
<1>4. Retained(e) \subseteq Retained(d) /\ Retained(e) \subseteq 1..e.lastId
  BY <1>1, <1>3 DEF Retained
<1>5. \A i \in DOMAIN e.chain : e.chain[i].payload \in Payload
  BY <1>1, <1>3, <1>4 DEF DbOK
<1>6. e.anchor.cycle \in 0..e.lastId
  BY <1>1, <1>3
<1>7. DbOK(e)
  BY <1>1, <1>2, <1>3, <1>4, <1>5, <1>6 DEF DbOK
<1> QED
  BY <1>7 DEF e

LEMMA StepDbOK ==
    IInv /\ [Next]_vars => DbOK(db') /\ DOMAIN written' = 1..db'.lastId
<1> SUFFICES ASSUME IInv, [Next]_vars
             PROVE  DbOK(db') /\ DOMAIN written' = 1..db'.lastId
  OBVIOUS
<1>a. /\ DbInv(db) /\ DbOK(db) /\ DOMAIN written = 1..db.lastId
      /\ \A c \in Conn : ConnOK(conn[c])
  BY DEF IInv, TypeOK
<1>1. CASE UNCHANGED <<db, written>>
  BY <1>1, <1>a
<1>2. ASSUME NEW c \in Conn, ConfigureWrite(c)
      PROVE  DbOK(db') /\ DOMAIN written' = 1..db'.lastId
  <2>1. /\ db'.lastId = db.lastId /\ db'.cycles = db.cycles /\ db'.chain = db.chain
        /\ db'.sigs = db.sigs /\ db'.anchor = db.anchor
        /\ db'.signing.key = conn[c].key /\ db'.signing.from = conn[c].from
        /\ UNCHANGED written
    BY <1>2 DEF ConfigureWrite, Configured
  <2>2. conn[c].key \in Key \cup {NoKey} /\ conn[c].from \in 0..(MaxId + 1)
    BY <1>a DEF ConnOK
  <2> QED
    BY <2>1, <2>2, <1>a DEF DbOK
<1>3. ASSUME NEW c \in Conn, ForcePrune(c)
      PROVE  DbOK(db') /\ DOMAIN written' = 1..db'.lastId
  <2>1. PICK aged \in AgedChoice(db) : db' = Pruned(db, aged)
    BY <1>3 DEF ForcePrune, AgedChoice
  <2>2. DbOK(Pruned(db, aged)) /\ Pruned(db, aged).lastId = db.lastId
    BY <1>a, PruneOK, PruneKeepsInv DEF AgedChoice
  <2> QED
    BY <2>1, <2>2, <1>3, <1>a DEF ForcePrune
<1>4. ASSUME NEW c \in Conn, NEW p \in Payload, PersistCommit(c, p)
      PROVE  DbOK(db') /\ DOMAIN written' = 1..db'.lastId
  <2> DEFINE d == Appended(db, p, conn[c].key)
  <2>1. conn[c].key \in Key \cup {NoKey} /\ db.lastId < MaxId
    BY <1>4, <1>a DEF PersistCommit, ConnOK
  <2>p. DbInv(db)
    BY <1>a
  <2>2. DbInv(d) /\ d.lastId = db.lastId + 1
    <3>1. DbInv(d)
      BY <2>p, AppendKeepsInv
    <3>2. d.lastId = db.lastId + 1
      BY DEF Appended
    <3> QED
      BY <3>1, <3>2
  <2>3. DbOK(d)
    BY <1>a, <2>1, AppendOK
  <2>4. db' \in AfterPrune(c, d) /\ written' = Extended(written, db.lastId + 1, p)
    BY <1>4 DEF PersistCommit
  <2> HIDE DEF d
  <2>5. db' = d \/ \E aged \in AgedChoice(d) : db' = Pruned(d, aged)
    BY <2>4 DEF AfterPrune, AgedChoice
  <2>6. DbOK(db') /\ db'.lastId = d.lastId
    <3>1. CASE db' = d
      BY <3>1, <2>3
    <3>2. ASSUME NEW aged \in AgedChoice(d), db' = Pruned(d, aged)
          PROVE  DbOK(db') /\ db'.lastId = d.lastId
      <4>1. DbOK(Pruned(d, aged))
        BY <2>2, <2>3, PruneOK
      <4>2. Pruned(d, aged).lastId = d.lastId
        BY <2>2, PruneKeepsInv DEF AgedChoice
      <4> QED
        BY <3>2, <4>1, <4>2
    <3> QED
      BY <2>5, <3>1, <3>2
  <2>7. DOMAIN written' = 1..(db.lastId + 1)
    <3>1. db.lastId \in Nat
      BY <1>a DEF DbInv
    <3> QED
      BY <3>1, <2>4, <1>a DEF Extended
  <2> QED
    BY <2>2, <2>6, <2>7
<1>5. ASSUME NEW c \in Conn, Step(c)
      PROVE  \/ UNCHANGED <<db, written>>
             \/ ConfigureWrite(c)
             \/ \E p \in Payload : PersistCommit(c, p)
             \/ ForcePrune(c)
  BY <1>5 DEF Step, Open, ConfigureRead, PersistCheck, PersistAbort,
              AuditAnchor, AuditMeta, AuditRows, Close
<1> QED
  BY <1>1, <1>2, <1>3, <1>4, <1>5 DEF Next, vars

(* Every variable keeps its type: ids never leave the AUTOINCREMENT        *)
(* sequence, each table stays within the cycles, and a process that is     *)
(* about to configure signing holds a key.                                 *)
THEOREM TypeCorrect == Spec => []TypeOK
<1>1. Init => IInv
  <2> SUFFICES ASSUME Init PROVE TypeOK
    BY InitDbInv DEF IInv
  <2>1. DbOK(db) /\ DOMAIN written = 1..db.lastId
    <3>1. /\ db.lastId = 0 /\ db.cycles = {} /\ db.chain = EmptyTable
          /\ db.sigs = EmptyTable /\ db.anchor.cycle = 0 /\ written = EmptyTable
          /\ db.signing.key = NoKey /\ db.signing.from = 0
      BY DEF Init, EmptyDb
    <3>2. DOMAIN EmptyTable = {}
      BY DEF EmptyTable
    <3>3. DOMAIN written = 1..db.lastId
      BY <3>1, <3>2
    <3> QED
      BY <3>1, <3>2, <3>3, MaxIdAssumption DEF DbOK
  <2>2. ConnOK(Closed)
    BY MaxIdAssumption DEF ConnOK, Closed, Mem, Phase
  <2>3. conn = [c \in Conn |-> conn[c]] /\ \A c \in Conn : conn[c] = Closed
    BY DEF Init
  <2> QED
    BY <2>1, <2>2, <2>3 DEF TypeOK
<1>2. IInv /\ [Next]_vars => IInv'
  <2> SUFFICES ASSUME IInv, [Next]_vars PROVE IInv'
    OBVIOUS
  <2>1. ConnsOK' /\ DbOK(db') /\ DOMAIN written' = 1..db'.lastId
    BY StepConnsOK, StepDbOK
  <2>2. DbInv(db')
    BY StepDbInv DEF IInv
  <2> QED
    BY <2>1, <2>2 DEF IInv, TypeOK, ConnsOK
<1>3. IInv => TypeOK
  BY DEF IInv
<1> QED
  BY <1>1, <1>2, <1>3, PTL DEF Spec

-----------------------------------------------------------------------------
(* One process on a file that may be damaged *)

(* The signer the process holds, against the configured one. *)
Holder(c) ==
    /\ conn[c].pc = "configuring" => db.signing.key = NoKey /\ conn[c].key # NoKey
    /\ conn[c].pc # "configuring" /\ conn[c].key # NoKey => conn[c].key = db.signing.key
    /\ conn[c].pc = "persisting" /\ db.signing.key # NoKey => conn[c].key # NoKey

Holders == conn = [c \in Conn |-> conn[c]] /\ \A c \in Conn : Holder(c)

(* Every row from the first that must be signed is, by the configured key. *)
SignedRows(d) ==
    d.signing.key # NoKey =>
        \A i \in DOMAIN d.chain : i >= d.signing.from =>
            /\ i \in DOMAIN d.sigs
            /\ d.sigs[i] = [key |-> d.signing.key,
                            mac |-> Mac(d.signing.key, i, d.chain[i].hash)]

(* What the process has read for its audit, or to configure signing, is    *)
(* still so; and a fault it found is the lack of the key.                  *)
ReadsAreCurrent(c) ==
    /\ conn[c].pc = "configuring" =>
          conn[c].from \in Nat /\ \A i \in DOMAIN db.chain : i < conn[c].from
    /\ conn[c].pc \in {"anchored", "walking"} => conn[c].start = db.anchor.hash
    /\ conn[c].pc = "walking" => conn[c].meta = db.signing
    /\ conn[c].report = "invalid" => conn[c].key # db.signing.key

UndamagedInv ==
    /\ damages \in Nat
    /\ Holders
    /\ damages = 0 => /\ DbInv(db) /\ SignedRows(db)
                      /\ \A c \in Conn : ReadsAreCurrent(c)

(* What the other steps leave alone. *)
LEMMA HoldersStep ==
    ASSUME \A c, e \in Conn : c = e, Holders, [Next]_vars
    PROVE  Holders'
<1>1. CASE UNCHANGED vars
  BY <1>1 DEF vars, Holders, Holder
<1>2. ASSUME NEW c \in Conn, Step(c) PROVE Holders'
  <2> SUFFICES ASSUME NEW r, conn' = [conn EXCEPT ![c] = r] \/ (UNCHANGED conn /\ r = conn[c])
               PROVE  /\ r.pc = "configuring" => db'.signing.key = NoKey /\ r.key # NoKey
                      /\ r.pc # "configuring" /\ r.key # NoKey => r.key = db'.signing.key
                      /\ r.pc = "persisting" /\ db'.signing.key # NoKey => r.key # NoKey
    <3>1. \E r : conn' = [conn EXCEPT ![c] = r] \/ (UNCHANGED conn /\ r = conn[c])
      BY <1>2 DEF Step, Open, ConfigureRead, ConfigureWrite, PersistCheck, PersistCommit,
         PersistAbort, ForcePrune, AuditAnchor, AuditMeta, AuditRows, Close
    <3>2. PICK r : conn' = [conn EXCEPT ![c] = r] \/ (UNCHANGED conn /\ r = conn[c])
      BY <3>1
    <3>3. conn' = [e \in Conn |-> conn'[e]] /\ conn'[c] = r
      BY <3>2 DEF Holders
    <3> QED
      BY <3>2, <3>3 DEF Holders, Holder
  <2>1. conn'[c] = r /\ Holder(c)
    BY DEF Holders
  <2>2. UNCHANGED db \/ ConfigureWrite(c) \/ db'.signing = db.signing
    <3>1. ASSUME NEW d, NEW aged PROVE Pruned(d, aged).signing = d.signing
      BY DEF Pruned
    <3>2. ASSUME NEW d, NEW p, NEW key PROVE Appended(d, p, key).signing = d.signing
      BY DEF Appended
    <3>3. ASSUME NEW d, NEW e \in AfterPrune(c, d) PROVE e.signing = d.signing
      BY <3>1, <3>3 DEF AfterPrune
    <3>4. ASSUME NEW p \in Payload, PersistCommit(c, p) PROVE db'.signing = db.signing
      BY <3>2, <3>3, <3>4 DEF PersistCommit
    <3>5. ForcePrune(c) => db'.signing = db.signing
      BY <3>1 DEF ForcePrune
    <3> QED
      BY <1>2, <3>4, <3>5 DEF Step, Open, ConfigureRead, PersistCheck, PersistAbort,
         AuditAnchor, AuditMeta, AuditRows, Close
  <2>3. CASE ConfigureWrite(c)
    BY <2>1, <2>3 DEF ConfigureWrite, Configured, Idle, Opened, Mem, At, Holder, Holders
  <2>4. ASSUME NEW k \in Signer, Open(c, k) \/ ConfigureRead(c, k)
        PROVE  /\ r.pc = "configuring" => db'.signing.key = NoKey /\ r.key # NoKey
               /\ r.pc # "configuring" /\ r.key # NoKey => r.key = db'.signing.key
               /\ r.pc = "persisting" /\ db'.signing.key # NoKey => r.key # NoKey
    <3>1. CASE Open(c, k)
      BY <2>1, <3>1 DEF Open, Opened, Mem, Holders
    <3>2. CASE ConfigureRead(c, k)
      <4> DEFINE from == Newest({0} \cup db.cycles) + 1
      <4>1. conn' = [conn EXCEPT ![c] = Mem("configuring", k, from, Genesis, NoMeta, "none")]
        BY <3>2 DEF ConfigureRead
      <4> HIDE DEF from
      <4>2. r.pc = "configuring" /\ r.key = k
        BY <2>1, <4>1 DEF Mem, Holders
      <4> QED
        BY <3>2, <4>2 DEF ConfigureRead
    <3> QED
      BY <2>4, <3>1, <3>2
  <2>5. CASE PersistCheck(c)
    BY <2>1, <2>5 DEF PersistCheck, Mem, At, Holder, Holders
  <2>6. CASE (\E p \in Payload : PersistCommit(c, p)) \/ PersistAbort(c)
    BY <2>1, <2>2, <2>6 DEF PersistCommit, PersistAbort, Idle, Opened, Mem, At, Holder, Holders,
       ConfigureWrite
  <2>7. CASE ForcePrune(c)
    BY <2>1, <2>2, <2>7 DEF ForcePrune, Holder, Holders, ConfigureWrite, At
  <2>8. CASE AuditAnchor(c) \/ AuditMeta(c)
    BY <2>1, <2>8 DEF AuditAnchor, AuditMeta, Mem, At, Holder, Holders
  <2>9. CASE AuditRows(c)
    BY <2>1, <2>9 DEF AuditRows, Idle, Opened, Mem, At, Holder, Holders
  <2>10. CASE Close(c)
    BY <2>1, <2>10 DEF Close, Closed, Mem, Holders
  <2> QED
    BY <1>2, <2>3, <2>4, <2>5, <2>6, <2>7, <2>8, <2>9, <2>10 DEF Step
<1> QED
  BY <1>1, <1>2 DEF Next

(* Rows of the invariant that are signed pass the whole audit. *)
LEMMA InvAudit == DbInv(db) /\ SignedRows(db) => AuditValid(db)
<1> SUFFICES ASSUME DbInv(db), SignedRows(db) PROVE AuditValid(db)
  OBVIOUS
<1>1. \A i \in DOMAIN db.chain : i > 0 => RowSound(db, i, PreviousInWalk(db, 0, db.anchor.hash, i))
  BY InvLinks DEF LinksVerify, Sound
<1>2. ASSUME NEW i \in DOMAIN db.chain
      PROVE  SignatureSound(db, i, db.signing, db.signing.key)
  <2> SUFFICES ASSUME db.signing.key # NoKey, i >= db.signing.from
               PROVE  /\ i \in DOMAIN db.sigs /\ db.sigs[i].key = db.signing.key
                      /\ db.sigs[i].mac = Mac(db.signing.key, i, db.chain[i].hash)
    BY DEF SignatureSound
  <2> DEFINE mac == Mac(db.signing.key, i, db.chain[i].hash)
  <2>1. i \in DOMAIN db.sigs /\ db.sigs[i] = [key |-> db.signing.key, mac |-> mac]
    BY DEF SignedRows
  <2> HIDE DEF mac
  <2>2. db.sigs[i].key = db.signing.key /\ db.sigs[i].mac = mac
    BY <2>1
  <2> QED
    BY <2>1, <2>2 DEF mac
<1> QED
  BY <1>1, <1>2 DEF AuditValid, Sound

(* A transaction signs with the configured key, and pruning takes the      *)
(* signatures of the rows it takes.                                        *)
LEMMA AppendSigns ==
    ASSUME NEW d, DbInv(d), SignedRows(d), NEW p, NEW key,
           d.signing.key # NoKey => key = d.signing.key
    PROVE  SignedRows(Appended(d, p, key))
<1> DEFINE id   == d.lastId + 1
           hash == ChainHash(TailHash(d), PayloadHash(p), id)
           row  == [previous |-> TailHash(d), payloadHash |-> PayloadHash(p),
                    hash |-> hash, payload |-> p]
           e    == Appended(d, p, key)
           sig  == [key |-> key, mac |-> Mac(key, id, hash)]
<1>1. /\ e.chain = Extended(d.chain, id, row) /\ e.signing = d.signing
      /\ e.sigs = IF key = NoKey THEN d.sigs ELSE Extended(d.sigs, id, sig)
  BY DEF Appended
<1>2. row.hash = hash
  OBVIOUS
<1> HIDE DEF e, row, sig, hash
<1> SUFFICES ASSUME d.signing.key # NoKey, NEW i \in DOMAIN e.chain, i >= d.signing.from
             PROVE  /\ i \in DOMAIN e.sigs
                    /\ e.sigs[i] = [key |-> d.signing.key,
                                    mac |-> Mac(d.signing.key, i, e.chain[i].hash)]
  BY <1>1 DEF SignedRows, e
<1>3. e.sigs = Extended(d.sigs, id, sig)
  BY <1>1
<1>4. CASE i = id
  <2>1. e.chain[i] = row /\ e.sigs[i] = sig /\ i \in DOMAIN e.sigs
    BY <1>1, <1>3, <1>4 DEF Extended
  <2> QED
    BY <2>1, <1>2, <1>4 DEF sig
<1>5. CASE i # id
  <2>1. i \in DOMAIN d.chain /\ e.chain[i] = d.chain[i]
    BY <1>1, <1>5 DEF Extended
  <2>2. i \in DOMAIN d.sigs /\ e.sigs[i] = d.sigs[i] /\ i \in DOMAIN e.sigs
    BY <2>1, <1>3, <1>5 DEF Extended, SignedRows
  <2> QED
    BY <2>1, <2>2 DEF SignedRows
<1> QED
  BY <1>4, <1>5

LEMMA PruneSigns ==
    ASSUME NEW d, SignedRows(d), NEW aged
    PROVE  SignedRows(Pruned(d, aged))
<1> DEFINE t == DeleteThrough(d, aged)
<1>1. CASE t <= 0
  BY <1>1 DEF Pruned
<1>2. CASE ~(t <= 0)
  <2>1. /\ Pruned(d, aged).chain = Above(d.chain, t) /\ Pruned(d, aged).sigs = Above(d.sigs, t)
        /\ Pruned(d, aged).signing = d.signing
    BY <1>2 DEF Pruned
  <2> HIDE DEF t
  <2>2. \A i \in DOMAIN Above(d.chain, t) :
           i \in DOMAIN d.chain /\ i > t /\ Above(d.chain, t)[i] = d.chain[i]
    BY DEF Above
  <2>3. \A i \in DOMAIN d.sigs : i > t => i \in DOMAIN Above(d.sigs, t)
                                          /\ Above(d.sigs, t)[i] = d.sigs[i]
    BY DEF Above
  <2> QED
    BY <2>1, <2>2, <2>3 DEF SignedRows
<1> QED
  BY <1>1, <1>2

(* Nothing else writes between two steps of the one process. *)
LEMMA UndamagedStep ==
    ASSUME \A c, e \in Conn : c = e, Holders, DbInv(db), SignedRows(db),
           \A c \in Conn : ReadsAreCurrent(c), [Next]_vars
    PROVE  DbInv(db') /\ SignedRows(db') /\ \A c \in Conn : ReadsAreCurrent(c)'
<1>1. DbInv(db')
  BY StepDbInv
<1>2. CASE UNCHANGED vars
  BY <1>1, <1>2 DEF vars, ReadsAreCurrent
<1>3. ASSUME NEW c \in Conn, Step(c) PROVE SignedRows(db') /\ ReadsAreCurrent(c)'
  <2>1. ASSUME NEW r, conn' = [conn EXCEPT ![c] = r] PROVE conn'[c] = r
    BY <2>1 DEF Holders
  <2>2. Holder(c) /\ ReadsAreCurrent(c)
    BY DEF Holders
  <2>3. ASSUME NEW k \in Signer, Open(c, k) PROVE SignedRows(db') /\ ReadsAreCurrent(c)'
    <3>1. UNCHANGED db /\ conn'[c] = Opened(k, "none")
      BY <2>1, <2>3 DEF Open
    <3> QED
      BY <3>1 DEF ReadsAreCurrent, Opened, Mem
  <2>4. ASSUME NEW k \in Signer, ConfigureRead(c, k) PROVE SignedRows(db') /\ ReadsAreCurrent(c)'
    <3> DEFINE from == Newest({0} \cup db.cycles) + 1
    <3>1. UNCHANGED db /\ conn'[c] = Mem("configuring", k, from, Genesis, NoMeta, "none")
      BY <2>1, <2>4 DEF ConfigureRead
    <3>2. from \in Nat /\ \A i \in DOMAIN db.chain : i < from
      <4>1. /\ db.cycles = (db.anchor.cycle + 1)..db.lastId /\ DOMAIN db.chain = db.cycles
            /\ db.lastId \in Nat /\ db.anchor.cycle \in 0..db.lastId
        BY DEF DbInv, Retained
      <4>2. CASE db.cycles = {}
        <5>1. Newest({0} \cup db.cycles) = 0
          BY <4>2 DEF Newest
        <5>2. from = 1
          BY <5>1
        <5> HIDE DEF from
        <5> QED
          BY <4>1, <4>2, <5>2
      <4>3. CASE db.cycles # {}
        <5>1. db.lastId \in {0} \cup db.cycles /\ \A j \in {0} \cup db.cycles : j <= db.lastId
          BY <4>1, <4>3
        <5>2. {0} \cup db.cycles \in SUBSET Int
          BY <4>1
        <5>3. from = db.lastId + 1
          BY <5>1, <5>2, NewestIsMaximum
        <5> HIDE DEF from
        <5> QED
          BY <4>1, <5>3
      <4> QED
        BY <4>2, <4>3
    <3> HIDE DEF from
    <3> QED
      BY <3>1, <3>2 DEF ReadsAreCurrent, Mem
  <2>5. CASE ConfigureWrite(c)
    <3>1. /\ db' = Configured(db, conn[c].key, conn[c].from) /\ conn[c].pc = "configuring"
          /\ conn'[c] = Opened(conn[c].key, "none")
      BY <2>1, <2>5 DEF ConfigureWrite, At, Idle
    <3>2. conn[c].from \in Nat /\ \A i \in DOMAIN db.chain : i < conn[c].from /\ i \in Int
      <4>1. conn[c].from \in Nat /\ \A i \in DOMAIN db.chain : i < conn[c].from
        BY <2>2, <3>1 DEF ReadsAreCurrent
      <4>2. \A i \in DOMAIN db.chain : i \in Int
        BY DEF DbInv, Retained
      <4> QED
        BY <4>1, <4>2
    <3>3. SignedRows(db')
      <4>1. db'.chain = db.chain /\ db'.signing.from = conn[c].from
        BY <3>1 DEF Configured
      <4>2. \A i \in DOMAIN db'.chain : ~(i >= db'.signing.from)
        BY <3>2, <4>1
      <4> QED
        BY <4>2 DEF SignedRows
    <3> QED
      BY <3>1, <3>3 DEF ReadsAreCurrent, Opened, Mem
  <2>6. CASE PersistCheck(c)
    <3>1. UNCHANGED db /\ conn'[c] = Mem("persisting", conn[c].key, 0, Genesis, NoMeta, conn[c].report)
      BY <2>1, <2>6 DEF PersistCheck
    <3> QED
      BY <2>2, <3>1 DEF ReadsAreCurrent, Mem
  <2>7. ASSUME NEW p \in Payload, PersistCommit(c, p) PROVE SignedRows(db') /\ ReadsAreCurrent(c)'
    <3> DEFINE d == Appended(db, p, conn[c].key)
    <3>1. /\ db' \in AfterPrune(c, d) /\ conn[c].pc = "persisting"
          /\ conn'[c] = Opened(conn[c].key, conn[c].report)
      BY <2>1, <2>7 DEF PersistCommit, At, Idle
    <3>2. SignedRows(d) /\ d.signing = db.signing
      <4>1. db.signing.key # NoKey => conn[c].key = db.signing.key
        BY <2>2, <3>1 DEF Holder
      <4>2. SignedRows(d)
        BY <4>1, AppendSigns
      <4>3. d.signing = db.signing
        BY DEF Appended
      <4> QED
        BY <4>2, <4>3
    <3> HIDE DEF d
    <3>3. SignedRows(db') /\ db'.signing = db.signing
      <4>1. ASSUME NEW aged PROVE Pruned(d, aged).signing = d.signing
        BY DEF Pruned
      <4> QED
        BY <3>1, <3>2, <4>1, PruneSigns DEF AfterPrune
    <3> QED
      BY <2>2, <3>1, <3>3 DEF ReadsAreCurrent, Opened, Mem
  <2>8. CASE PersistAbort(c)
    <3>1. UNCHANGED db /\ conn'[c] = Opened(conn[c].key, conn[c].report)
      BY <2>1, <2>8 DEF PersistAbort, Idle
    <3> QED
      BY <2>2, <3>1 DEF ReadsAreCurrent, Opened, Mem
  <2>9. CASE ForcePrune(c)
    <3>1. PICK aged : db' = Pruned(db, aged)
      BY <2>9 DEF ForcePrune
    <3>2. SignedRows(db') /\ db'.signing = db.signing
      BY <3>1, PruneSigns DEF Pruned
    <3> QED
      BY <2>2, <2>9, <3>2 DEF ForcePrune, At, ReadsAreCurrent
  <2>10. CASE AuditAnchor(c)
    <3>1. UNCHANGED db /\ conn'[c] = Mem("anchored", conn[c].key, 0, db.anchor.hash, NoMeta, conn[c].report)
      BY <2>1, <2>10 DEF AuditAnchor
    <3> QED
      BY <2>2, <3>1 DEF ReadsAreCurrent, Mem
  <2>11. CASE AuditMeta(c)
    <3>1. /\ UNCHANGED db /\ conn[c].pc = "anchored"
          /\ conn'[c] = Mem("walking", conn[c].key, 0, conn[c].start, db.signing, conn[c].report)
      BY <2>1, <2>11 DEF AuditMeta, At
    <3> QED
      BY <2>2, <3>1 DEF ReadsAreCurrent, Mem
  <2>12. CASE AuditRows(c)
    <3> DEFINE valid == Sound(db, 0, conn[c].start, conn[c].meta, conn[c].key)
    <3>1. /\ UNCHANGED db /\ conn[c].pc = "walking"
          /\ conn'[c] = Opened(conn[c].key, IF valid THEN "valid" ELSE "invalid")
      BY <2>1, <2>12 DEF AuditRows, At, Idle
    <3>2. conn[c].key = db.signing.key => valid
      BY <2>2, <3>1, InvAudit DEF ReadsAreCurrent, AuditValid
    <3> HIDE DEF valid
    <3> QED
      BY <3>1, <3>2 DEF ReadsAreCurrent, Opened, Mem
  <2>13. CASE Close(c)
    <3>1. UNCHANGED db /\ conn'[c] = Closed
      BY <2>1, <2>13 DEF Close
    <3> QED
      BY <3>1 DEF ReadsAreCurrent, Closed, Mem
  <2> QED
    BY <1>3, <2>3, <2>4, <2>5, <2>6, <2>7, <2>8, <2>9, <2>10, <2>11, <2>12, <2>13 DEF Step
<1> QED
  BY <1>1, <1>2, <1>3 DEF Next

LEMMA UndamagedInduction ==
    ASSUME \A c, e \in Conn : c = e, UndamagedInv, [DamagedNext]_dvars
    PROVE  UndamagedInv'
<1>1. CASE Damage
  <2>1. PICK d : Damages(d)
    BY <1>1 DEF Damage, DamageField, ReplaceRow, LoseRow
  <2>2. damages' = damages + 1 /\ UNCHANGED conn
    BY <2>1 DEF Damages
  <2>3. db'.signing = db.signing
    <3>1. \A i, row : WithRow(i, row).signing = db.signing
      BY DEF WithRow
    <3>2. ASSUME NEW i \in DOMAIN db.chain, LoseRow(i) PROVE db'.signing = db.signing
      BY <3>2 DEF LoseRow, Damages
    <3> QED
      BY <1>1, <3>1, <3>2 DEF Damage, DamageField, ReplaceRow, Damages
  <2> QED
    BY <2>2, <2>3 DEF UndamagedInv, Holders, Holder
<1>2. CASE Undamaged \/ UNCHANGED dvars
  <2>1. [Next]_vars /\ UNCHANGED damages
    BY <1>2 DEF Undamaged, dvars
  <2> QED
    BY <2>1, HoldersStep, UndamagedStep DEF UndamagedInv
<1> QED
  BY <1>1, <1>2 DEF DamagedNext

LEMMA InitUndamaged == DamagedInit => UndamagedInv
<1> SUFFICES ASSUME DamagedInit PROVE UndamagedInv
  OBVIOUS
<1>1. DbInv(db) /\ damages = 0 /\ db = EmptyDb /\ conn = [c \in Conn |-> Closed]
  BY InitDbInv DEF DamagedInit, Init
<1>2. SignedRows(db)
  BY <1>1 DEF SignedRows, EmptyDb
<1> QED
  BY <1>1, <1>2 DEF UndamagedInv, Holders, Holder, ReadsAreCurrent, Closed, Mem

(* With one process - restarted, opened with and without the key - an      *)
(* undamaged chain passes an audit with the configured key in every state, *)
(* signatures included (storage.py 255-297, 299-480, 482-559).             *)
THEOREM UndamagedVerifies ==
    ASSUME \A c, e \in Conn : c = e
    PROVE  DamagedSpec => []UndamagedChainVerifies
<1>1. UndamagedInv => UndamagedChainVerifies
  BY InvAudit DEF UndamagedInv, UndamagedChainVerifies
<1>2. UndamagedInv /\ [DamagedNext]_dvars => UndamagedInv'
  BY UndamagedInduction
<1> QED
  BY <1>1, <1>2, InitUndamaged, PTL DEF DamagedSpec

(* The audit of that process reports a fault only if there is damage or it *)
(* does not hold the configured key: what it read in its first two steps   *)
(* is still so when it walks the rows.                                     *)
THEOREM AuditsRaiseNoFalseAlarm ==
    ASSUME \A c, e \in Conn : c = e
    PROVE  DamagedSpec => []NoFalseAlarm
<1>1. UndamagedInv => NoFalseAlarm
  BY DEF UndamagedInv, NoFalseAlarm, ReadsAreCurrent
<1>2. UndamagedInv /\ [DamagedNext]_dvars => UndamagedInv'
  BY UndamagedInduction
<1> QED
  BY <1>1, <1>2, InitUndamaged, PTL DEF DamagedSpec

-----------------------------------------------------------------------------
(* Damage is not hidden by what the program does afterwards                *)
(*                                                                         *)
(* T remembers how each row was inserted.  The hash a row holds later may  *)
(* differ from the one it was inserted with, but where a later row was     *)
(* inserted onto such a hash, it is no digest, or the signature of its row *)
(* does not fit it.  So a walk that finds every row sound, from the newest *)
(* back, finds each as it was inserted.                                    *)

(* A hash of row i, or what damage left of it. *)
HashOfRow(h, i) == h = Garbage(i) \/ \E x, y : h = ChainHash(x, y, i)

(* What the newest row's hash in d is when the next row is inserted. *)
SignedIn(d, i) == d.signing.key # NoKey /\ i >= d.signing.from

TailOf(d, h, i, T) ==
    \/ h = T[i].hash
    \/ h = Garbage(i)
    \/ SignedIn(d, i) /\ \E x, y : h = ChainHash(x, y, i)

RowShape(row) ==
    row = [previous |-> row.previous, payloadHash |-> row.payloadHash,
           hash |-> row.hash, payload |-> row.payload]

DbShape(d) ==
    /\ d = [lastId |-> d.lastId, cycles |-> d.cycles, chain |-> d.chain, sigs |-> d.sigs,
            anchor |-> d.anchor, signing |-> d.signing]
    /\ d.lastId \in Nat
    /\ d.cycles \subseteq 1..d.lastId
    /\ d.anchor.cycle \in 0..d.lastId
    /\ DOMAIN d.chain \subseteq (d.anchor.cycle + 1)..d.lastId
    /\ IF DOMAIN d.chain = {} THEN d.anchor.cycle = d.lastId
                              ELSE d.lastId \in DOMAIN d.chain
    /\ DOMAIN d.sigs \subseteq 1..d.lastId
    /\ \A i \in DOMAIN d.chain : RowShape(d.chain[i])

(* w is the payloads the cycles were committed with. *)
Inserted(d, w, T) ==
    /\ DOMAIN T = 1..d.lastId
    /\ DOMAIN w = 1..d.lastId
    /\ \A i \in 1..d.lastId : T[i].hash = ChainHash(T[i].previous, PayloadHash(w[i]), i)

Truth(d, w, T) ==
    /\ DbShape(d)
    /\ Inserted(d, w, T)
    /\ \A i \in DOMAIN d.chain : HashOfRow(d.chain[i].hash, i)
    /\ \/ d.anchor.cycle = 0 /\ d.anchor.hash = Genesis
       \/ HashOfRow(d.anchor.hash, d.anchor.cycle)
    /\ \A i \in DOMAIN d.sigs : d.sigs[i].mac = Mac(d.sigs[i].key, i, T[i].hash)
    /\ \A i \in 1..d.lastId :
         i > d.anchor.cycle /\ i < d.lastId => TailOf(d, T[i + 1].previous, i, T)
    /\ d.lastId \in DOMAIN d.chain => TailOf(d, d.chain[d.lastId].hash, d.lastId, T)

(* Hashes of different rows differ, and a digest is not what damage leaves. *)
LEMMA HashesDiffer ==
    /\ \A x, y, i, u, v, j : ChainHash(x, y, i) = ChainHash(u, v, j) => x = u /\ y = v /\ i = j
    /\ \A x, y, i, j : ChainHash(x, y, i) # Garbage(j)
    /\ \A i, j : Garbage(i) = Garbage(j) => i = j
    /\ \A i : Garbage(i) # Genesis
    /\ \A x, y, i : ChainHash(x, y, i) # Genesis
    /\ \A p, q : PayloadHash(p) = PayloadHash(q) => p = q
    /\ \A k, i, h, l, j, g : Mac(k, i, h) = Mac(l, j, g) => k = l /\ i = j /\ h = g
<1>1. \A x, y, i, u, v, j : ChainHash(x, y, i) = ChainHash(u, v, j) => x = u /\ y = v /\ i = j
  BY DEF ChainHash
<1>2. \A x, y, i, j : ChainHash(x, y, i) # Garbage(j)
  <2> SUFFICES ASSUME NEW x, NEW y, NEW i, NEW j PROVE <<x, y, i>> # <<"garbage", j>>
    BY DEF ChainHash, Garbage
  <2>1. DOMAIN <<x, y, i>> = 1..3 /\ DOMAIN <<"garbage", j>> = 1..2
    OBVIOUS
  <2> QED
    BY <2>1
<1>3. \A i, j : Garbage(i) = Garbage(j) => i = j
  BY DEF Garbage
<1>4. \A i : Garbage(i) # Genesis
  BY DEF Garbage, Genesis
<1>5. \A x, y, i : ChainHash(x, y, i) # Genesis
  BY DEF ChainHash, Genesis
<1>6. \A p, q : PayloadHash(p) = PayloadHash(q) => p = q
  BY DEF PayloadHash
<1>7. \A k, i, h, l, j, g : Mac(k, i, h) = Mac(l, j, g) => k = l /\ i = j /\ h = g
  BY DEF Mac
<1> QED
  BY <1>1, <1>2, <1>3, <1>4, <1>5, <1>6, <1>7

(* The hash a walk expects before row i + 1. *)
LEMMA WalkedBefore ==
    ASSUME NEW T, Truth(db, written, T), NEW i \in Nat, i > db.anchor.cycle, i < db.lastId
    PROVE  LET prev == PreviousInWalk(db, 0, db.anchor.hash, i + 1)
           IN  IF i \in DOMAIN db.chain THEN prev = db.chain[i].hash
               ELSE prev = Genesis \/ \E j : j # i /\ HashOfRow(prev, j)
<1> DEFINE older == {j \in DOMAIN db.chain : 0 < j /\ j < i + 1}
           prev  == PreviousInWalk(db, 0, db.anchor.hash, i + 1)
<1>1. prev = IF older = {} THEN db.anchor.hash ELSE db.chain[Newest(older)].hash
  BY DEF PreviousInWalk
<1>2. db.lastId \in Nat /\ db.anchor.cycle \in Nat /\ DOMAIN db.chain \subseteq 1..db.lastId
  BY DEF Truth, DbShape
<1>3. older \in SUBSET (0..i) /\ older \subseteq DOMAIN db.chain
  BY <1>2
<1>4. older # {} => Newest(older) \in older /\ \A j \in older : j <= Newest(older)
  <2> HIDE DEF older
  <2> QED
    BY <1>3, NewestExists
<1>5. i \in DOMAIN db.chain => i \in older
  BY <1>2
<1>6. i \notin DOMAIN db.chain => i \notin older
  OBVIOUS
<1> HIDE DEF older, prev
<1>7. CASE i \in DOMAIN db.chain
  <2>1. Newest(older) = i
    <3>1. older \in SUBSET Int /\ i \in older /\ \A j \in older : j <= i
      BY <1>3, <1>5, <1>7
    <3> QED
      BY <3>1, NewestIsMaximum
  <2> QED
    BY <1>1, <1>5, <1>7, <2>1 DEF prev
<1>8. CASE i \notin DOMAIN db.chain
  <2>1. CASE older = {}
    <3>1. prev = db.anchor.hash /\ i # db.anchor.cycle
      BY <1>1, <1>2, <2>1
    <3> QED
      BY <1>8, <3>1 DEF Truth, prev
  <2>2. CASE older # {}
    <3>1. Newest(older) \in DOMAIN db.chain /\ Newest(older) # i
      BY <1>3, <1>4, <1>6, <1>8, <2>2
    <3>2. HashOfRow(prev, Newest(older))
      BY <1>1, <2>2, <3>1 DEF Truth
    <3> QED
      BY <1>8, <3>1, <3>2 DEF prev
  <2> QED
    BY <2>1, <2>2
<1> QED
  BY <1>7, <1>8

(* A row whose hash could be a tail and that is sound is as it was         *)
(* inserted.                                                               *)
LEMMA SoundTail ==
    ASSUME NEW T, Truth(db, written, T), AuditValid(db), NEW i \in DOMAIN db.chain,
           TailOf(db, db.chain[i].hash, i, T)
    PROVE  db.chain[i].hash = T[i].hash
<1>1. i \in 1..db.lastId /\ db.lastId \in Nat
  BY DEF Truth, DbShape
<1>2. /\ RowSound(db, i, PreviousInWalk(db, 0, db.anchor.hash, i))
      /\ SignatureSound(db, i, db.signing, db.signing.key)
  BY <1>1 DEF AuditValid, Sound
<1>3. db.chain[i].hash # Garbage(i)
  BY <1>2, HashesDiffer DEF RowSound
<1>4. CASE SignedIn(db, i)
  <2>1. /\ i \in DOMAIN db.sigs /\ db.sigs[i].key = db.signing.key
        /\ db.sigs[i].mac = Mac(db.signing.key, i, db.chain[i].hash)
    BY <1>2, <1>4 DEF SignatureSound, SignedIn
  <2>2. db.sigs[i].mac = Mac(db.sigs[i].key, i, T[i].hash)
    BY <2>1 DEF Truth
  <2> QED
    BY <2>1, <2>2 DEF Mac
<1> QED
  BY <1>3, <1>4 DEF TailOf

LEMMA TruthIsExposed ==
    ASSUME NEW T, Truth(db, written, T), AuditValid(db)
    PROVE  /\ \A i \in DOMAIN db.chain : db.chain[i].payload = written[i]
           /\ DOMAIN db.chain = (db.anchor.cycle + 1)..db.lastId
<1> DEFINE n   == db.lastId
           All == (db.anchor.cycle + 1)..n
           Good(i) == i \in DOMAIN db.chain /\ db.chain[i].hash = T[i].hash
           Bad == {i \in All : ~Good(i)}
<1>1. /\ n \in Nat /\ db.anchor.cycle \in 0..n /\ DOMAIN db.chain \subseteq All
      /\ All \subseteq 1..n
  BY DEF Truth, DbShape
<1>2. \A i \in DOMAIN db.chain : RowSound(db, i, PreviousInWalk(db, 0, db.anchor.hash, i))
  BY <1>1 DEF AuditValid, Sound
<1>3. \A i \in 1..n : T[i].hash = ChainHash(T[i].previous, PayloadHash(written[i]), i)
  BY DEF Truth, Inserted
<1>4. ASSUME NEW i \in All, Good(i)
      PROVE  /\ PreviousInWalk(db, 0, db.anchor.hash, i) = T[i].previous
             /\ db.chain[i].payload = written[i]
  <2>1. db.chain[i].hash = ChainHash(PreviousInWalk(db, 0, db.anchor.hash, i),
                                     PayloadHash(db.chain[i].payload), i)
    BY <1>2, <1>4 DEF RowSound
  <2>2. db.chain[i].hash = ChainHash(T[i].previous, PayloadHash(written[i]), i)
    BY <1>1, <1>3, <1>4
  <2> QED
    BY <2>1, <2>2, HashesDiffer
<1>5. Bad = {}
  <2> SUFFICES ASSUME Bad # {} PROVE FALSE
    OBVIOUS
  <2>1. Bad \in SUBSET (0..n)
    BY <1>1
  <2> DEFINE i == Newest(Bad)
  <2>2. i \in Bad /\ \A j \in Bad : j <= i
    <3> HIDE DEF Bad
    <3> QED
      BY <1>1, <2>1, NewestExists
  <2> HIDE DEF i
  <2>3. i \in All /\ ~Good(i) /\ i \in Nat /\ i <= n /\ i > db.anchor.cycle
    BY <1>1, <2>2
  <2>4. CASE i = n
    <3>1. n \in DOMAIN db.chain
      BY <1>1, <2>3, <2>4 DEF Truth, DbShape
    <3>2. db.chain[n].hash = T[n].hash
      BY <3>1, SoundTail DEF Truth
    <3> QED
      BY <2>3, <2>4, <3>1, <3>2
  <2>5. CASE i # n
    <3>1. i < n /\ i + 1 \in All /\ i + 1 \notin Bad
      BY <1>1, <2>2, <2>3, <2>5
    <3>2. Good(i + 1)
      BY <3>1
    <3> DEFINE prev == PreviousInWalk(db, 0, db.anchor.hash, i + 1)
    <3>3. prev = T[i + 1].previous
      BY <1>4, <3>1, <3>2
    <3>4. TailOf(db, prev, i, T)
      BY <1>1, <2>3, <3>1, <3>3 DEF Truth
    <3>5. IF i \in DOMAIN db.chain THEN prev = db.chain[i].hash
          ELSE prev = Genesis \/ \E j : j # i /\ HashOfRow(prev, j)
      BY <2>3, <3>1, WalkedBefore
    <3> HIDE DEF prev
    <3>6. CASE i \in DOMAIN db.chain
      BY <2>3, <3>4, <3>5, <3>6, SoundTail
    <3>7. CASE i \notin DOMAIN db.chain
      <4>1. prev = Garbage(i) \/ \E x, y : prev = ChainHash(x, y, i)
        BY <1>1, <1>3, <2>3, <3>4 DEF TailOf
      <4> QED
        BY <3>5, <3>7, <4>1, HashesDiffer DEF HashOfRow
    <3> QED
      BY <3>6, <3>7
  <2> QED
    BY <2>4, <2>5
<1>6. \A i \in All : Good(i)
  BY <1>5
<1> QED
  BY <1>1, <1>4, <1>6

(* Appending: the new row is inserted on the newest row's hash. *)
LEMMA TruthAppend ==
    ASSUME NEW d, NEW w, NEW T, Truth(d, w, T), NEW p, NEW key,
           NEW e, e = Appended(d, p, key), NEW v, v = Extended(w, d.lastId + 1, p)
    PROVE  \E U : Truth(e, v, U)
<1> DEFINE id   == d.lastId + 1
           prev == TailHash(d)
           hash == ChainHash(prev, PayloadHash(p), id)
           row  == [previous |-> prev, payloadHash |-> PayloadHash(p),
                    hash |-> hash, payload |-> p]
           sig  == [key |-> key, mac |-> Mac(key, id, hash)]
           U    == Extended(T, id, row)
<1>1. /\ e.lastId = id /\ e.cycles = d.cycles \cup {id} /\ e.anchor = d.anchor
      /\ e.chain = Extended(d.chain, id, row) /\ e.signing = d.signing
      /\ e.sigs = IF key = NoKey THEN d.sigs ELSE Extended(d.sigs, id, sig)
      /\ e = [lastId |-> e.lastId, cycles |-> e.cycles, chain |-> e.chain,
              sigs |-> e.sigs, anchor |-> e.anchor, signing |-> e.signing]
  BY DEF Appended
<1>2. /\ d.lastId \in Nat /\ d.anchor.cycle \in 0..d.lastId /\ id = d.lastId + 1
      /\ id \in Nat /\ id # d.lastId
      /\ DOMAIN d.chain \subseteq 1..d.lastId /\ d.cycles \subseteq 1..d.lastId
      /\ DOMAIN d.chain \subseteq (d.anchor.cycle + 1)..d.lastId
      /\ DOMAIN d.sigs \subseteq 1..d.lastId
      /\ DOMAIN T = 1..d.lastId /\ DOMAIN w = 1..d.lastId
  BY DEF Truth, DbShape, Inserted
<1>3. /\ RowShape(row) /\ row.previous = prev /\ row.hash = hash /\ sig.key = key
      /\ sig.mac = Mac(key, id, hash)
  BY DEF RowShape
<1>4. d.lastId > d.anchor.cycle => TailOf(d, prev, d.lastId, T)
  <2> SUFFICES ASSUME d.lastId > d.anchor.cycle PROVE TailOf(d, prev, d.lastId, T)
    OBVIOUS
  <2>1. d.lastId \in DOMAIN d.chain
    BY <1>2 DEF Truth, DbShape
  <2>2. Newest(DOMAIN d.chain) = d.lastId
    <3>1. DOMAIN d.chain \in SUBSET Int /\ \A j \in DOMAIN d.chain : j <= d.lastId
      BY <1>2
    <3> QED
      BY <2>1, <3>1, NewestIsMaximum
  <2>3. prev = d.chain[d.lastId].hash
    BY <2>1, <2>2 DEF TailHash
  <2> QED
    BY <2>1, <2>3 DEF Truth
<1> HIDE DEF id, row, sig, prev, hash
<1>5. DOMAIN U = 1..id /\ U[id] = row /\ \A i \in 1..d.lastId : U[i] = T[i]
  BY <1>2 DEF Extended
<1>6. /\ DOMAIN v = 1..id /\ v[id] = p
      /\ \A i \in 1..d.lastId : v[i] = w[i]
  BY <1>2 DEF Extended, id
<1>7. /\ DOMAIN e.chain = DOMAIN d.chain \cup {id} /\ e.chain[id] = row
      /\ \A i \in DOMAIN d.chain : i # id /\ e.chain[i] = d.chain[i]
  BY <1>1, <1>2 DEF Extended
<1>8. /\ DOMAIN e.sigs \subseteq DOMAIN d.sigs \cup {id}
      /\ \A i \in DOMAIN e.sigs : IF i = id THEN e.sigs[i] = sig
                                  ELSE i \in DOMAIN d.sigs /\ e.sigs[i] = d.sigs[i]
  BY <1>1, <1>2 DEF Extended
<1> HIDE DEF U
<1>9. DbShape(e)
  <2>1. DOMAIN e.chain \subseteq (e.anchor.cycle + 1)..e.lastId
    BY <1>1, <1>2, <1>7
  <2>2. \A i \in DOMAIN e.chain : RowShape(e.chain[i])
    BY <1>3, <1>7 DEF Truth, DbShape
  <2>3. e.cycles \subseteq 1..e.lastId /\ DOMAIN e.sigs \subseteq 1..e.lastId
    BY <1>1, <1>2, <1>8
  <2> QED
    BY <1>1, <1>2, <1>7, <2>1, <2>2, <2>3 DEF DbShape
<1>10. Inserted(e, v, U)
  <2>1. ASSUME NEW i \in 1..id
        PROVE  U[i].hash = ChainHash(U[i].previous, PayloadHash(v[i]), i)
    <3>1. CASE i = id
      BY <1>3, <1>5, <1>6, <3>1 DEF hash
    <3>2. CASE i # id
      <4>1. i \in 1..d.lastId
        BY <1>2, <3>2
      <4> QED
        BY <1>5, <1>6, <4>1 DEF Truth, Inserted
    <3> QED
      BY <3>1, <3>2
  <2> QED
    BY <1>1, <1>5, <1>6, <2>1 DEF Inserted
<1>11. \A i \in DOMAIN e.chain : HashOfRow(e.chain[i].hash, i)
  BY <1>3, <1>7 DEF Truth, HashOfRow, hash
<1>12. \A i \in DOMAIN e.sigs : e.sigs[i].mac = Mac(e.sigs[i].key, i, U[i].hash)
  <2> SUFFICES ASSUME NEW i \in DOMAIN e.sigs
               PROVE  e.sigs[i].mac = Mac(e.sigs[i].key, i, U[i].hash)
    OBVIOUS
  <2>1. CASE i = id
    BY <1>3, <1>5, <1>8, <2>1
  <2>2. CASE i # id
    <3>1. i \in 1..d.lastId /\ i \in DOMAIN d.sigs /\ e.sigs[i] = d.sigs[i]
      BY <1>2, <1>8, <2>2
    <3> QED
      BY <1>5, <3>1 DEF Truth
  <2> QED
    BY <2>1, <2>2
<1>13. \A i \in 1..d.lastId : \A h : TailOf(d, h, i, T) => TailOf(e, h, i, U)
  BY <1>1, <1>5 DEF TailOf, SignedIn
<1>14. \A i \in 1..id : i > d.anchor.cycle /\ i < id => TailOf(e, U[i + 1].previous, i, U)
  <2> SUFFICES ASSUME NEW i \in 1..id, i > d.anchor.cycle, i < id
               PROVE  TailOf(e, U[i + 1].previous, i, U)
    OBVIOUS
  <2>1. i \in 1..d.lastId
    BY <1>2
  <2>2. CASE i = d.lastId
    <3>1. i + 1 = id /\ U[i + 1].previous = prev
      BY <1>2, <1>3, <1>5, <2>2
    <3> QED
      BY <1>4, <1>13, <2>1, <2>2, <3>1
  <2>3. CASE i # d.lastId
    <3>1. i + 1 \in 1..d.lastId /\ i < d.lastId
      BY <1>2, <2>1, <2>3
    <3> QED
      BY <1>5, <1>13, <2>1, <3>1 DEF Truth
  <2> QED
    BY <2>2, <2>3
<1>15. TailOf(e, e.chain[id].hash, id, U)
  BY <1>5, <1>7 DEF TailOf
<1>16. Truth(e, v, U)
  BY <1>1, <1>9, <1>10, <1>11, <1>12, <1>14, <1>15 DEF Truth
<1> QED
  BY <1>16

(* Pruning: the newest row that goes becomes the anchor. *)
LEMMA TruthPrune ==
    ASSUME NEW d, NEW w, NEW T, Truth(d, w, T), NEW aged \in AgedChoice(d),
           NEW e, e = Pruned(d, aged), NEW v, v = w
    PROVE  Truth(e, v, T)
<1> DEFINE t == DeleteThrough(d, aged)
           gone == {i \in DOMAIN d.chain : i <= t}
<1>1. /\ d.lastId \in Nat /\ d.anchor.cycle \in 0..d.lastId
      /\ DOMAIN d.chain \subseteq 1..d.lastId /\ d.cycles \subseteq 1..d.lastId
      /\ DOMAIN d.chain \subseteq (d.anchor.cycle + 1)..d.lastId
      /\ DOMAIN d.sigs \subseteq 1..d.lastId
  BY DEF Truth, DbShape
<1>2. t \in 0..d.lastId
  <2> DEFINE S == {0} \cup aged \cup
                  {i \in d.cycles : Cardinality({j \in d.cycles : j > i}) >= MaxCycles}
  <2>1. S \in SUBSET (0..d.lastId) /\ S # {}
    BY <1>1 DEF AgedChoice
  <2>2. t = Newest(S)
    BY DEF DeleteThrough
  <2> HIDE DEF S, t
  <2> QED
    BY <1>1, <2>1, <2>2, NewestExists
<1> HIDE DEF t
<1>3. CASE t = 0
  <2>1. e = d
    BY <1>3 DEF Pruned, t
  <2> QED
    BY <2>1 DEF Truth, DbShape, Inserted, TailOf, SignedIn
<1>4. CASE t # 0
  <2>1. /\ e.lastId = d.lastId /\ e.signing = d.signing
        /\ e.cycles = {i \in d.cycles : i > t}
        /\ e.chain = Above(d.chain, t) /\ e.sigs = Above(d.sigs, t)
        /\ e.anchor = AnchorFor(d, t)
        /\ e = [lastId |-> e.lastId, cycles |-> e.cycles, chain |-> e.chain,
                sigs |-> e.sigs, anchor |-> e.anchor, signing |-> e.signing]
    <3>1. ~(t <= 0)
      BY <1>2, <1>4
    <3> QED
      BY <3>1 DEF Pruned, t
  <2>2. /\ \A i \in DOMAIN e.chain : i \in DOMAIN d.chain /\ i > t /\ e.chain[i] = d.chain[i]
        /\ \A i \in DOMAIN d.chain : i > t => i \in DOMAIN e.chain
        /\ \A i \in DOMAIN e.sigs : i \in DOMAIN d.sigs /\ e.sigs[i] = d.sigs[i]
    BY <2>1 DEF Above
  <2>3. gone # {} => Newest(gone) \in gone /\ \A j \in gone : j <= Newest(gone)
    <3>1. gone \in SUBSET (0..d.lastId)
      BY <1>1
    <3> HIDE DEF gone
    <3> QED
      BY <1>1, <3>1, NewestExists
  <2>4. \/ gone = {} /\ e.anchor = d.anchor
        \/ /\ gone # {} /\ e.anchor.cycle = Newest(gone)
           /\ e.anchor.hash = d.chain[Newest(gone)].hash
    BY <2>1 DEF AnchorFor
  <2>5. \A i \in gone : i \in DOMAIN d.chain /\ i <= t /\ i \in 1..d.lastId
    BY <1>1
  <2>6. \A i \in DOMAIN d.chain : i <= t => i \in gone
    OBVIOUS
  <2> HIDE DEF gone
  <2>7. /\ e.anchor.cycle \in 0..d.lastId /\ e.anchor.cycle >= d.anchor.cycle
        /\ gone # {} => e.anchor.cycle <= t
    BY <1>1, <2>3, <2>4, <2>5
  <2>8. DOMAIN e.chain \subseteq (e.anchor.cycle + 1)..e.lastId
    <3> SUFFICES ASSUME NEW i \in DOMAIN e.chain PROVE i \in (e.anchor.cycle + 1)..d.lastId
      BY <2>1
    <3> QED
      BY <1>1, <1>2, <2>2, <2>4, <2>7
  <2>9. IF DOMAIN e.chain = {} THEN e.anchor.cycle = e.lastId
                               ELSE e.lastId \in DOMAIN e.chain
    <3>1. CASE DOMAIN e.chain = {}
      <4>1. CASE gone = {}
        <5>1. DOMAIN d.chain = {}
          BY <1>1, <1>2, <2>2, <2>6, <3>1, <4>1
        <5> QED
          BY <2>1, <2>4, <3>1, <4>1, <5>1 DEF Truth, DbShape
      <4>2. CASE gone # {}
        <5>1. d.lastId \in DOMAIN d.chain
          BY <2>5, <4>2 DEF Truth, DbShape
        <5>2. d.lastId \in gone
          BY <1>1, <1>2, <2>2, <2>6, <3>1, <5>1
        <5> QED
          BY <1>1, <2>1, <2>3, <2>4, <2>5, <3>1, <4>2, <5>2
      <4> QED
        BY <4>1, <4>2
    <3>2. CASE DOMAIN e.chain # {}
      <4>1. PICK i \in DOMAIN e.chain : TRUE
        BY <3>2
      <4>2. i \in DOMAIN d.chain /\ i > t /\ d.lastId \in DOMAIN d.chain
        BY <2>2, <4>1 DEF Truth, DbShape
      <4> QED
        BY <1>1, <1>2, <2>1, <2>2, <3>2, <4>2
    <3> QED
      BY <3>1, <3>2
  <2>10. DbShape(e)
    <3>1. e.cycles \subseteq 1..e.lastId /\ DOMAIN e.sigs \subseteq 1..e.lastId
      BY <1>1, <2>1, <2>2
    <3>2. \A i \in DOMAIN e.chain : RowShape(e.chain[i])
      BY <2>2 DEF Truth, DbShape
    <3> QED
      BY <1>1, <2>1, <2>7, <2>8, <2>9, <3>1, <3>2 DEF DbShape
  <2>11. Inserted(e, v, T)
    BY <2>1 DEF Truth, Inserted
  <2>12. \A i \in DOMAIN e.chain : HashOfRow(e.chain[i].hash, i)
    BY <2>2 DEF Truth
  <2>13. \/ e.anchor.cycle = 0 /\ e.anchor.hash = Genesis
         \/ HashOfRow(e.anchor.hash, e.anchor.cycle)
    BY <2>3, <2>4, <2>5 DEF Truth
  <2>14. \A i \in DOMAIN e.sigs : e.sigs[i].mac = Mac(e.sigs[i].key, i, T[i].hash)
    BY <2>2 DEF Truth
  <2>15. \A i, h : TailOf(e, h, i, T) <=> TailOf(d, h, i, T)
    BY <2>1 DEF TailOf, SignedIn
  <2>16. \A i \in 1..e.lastId : i > e.anchor.cycle /\ i < e.lastId
            => TailOf(e, T[i + 1].previous, i, T)
    BY <1>1, <2>1, <2>7, <2>15 DEF Truth
  <2>17. e.lastId \in DOMAIN e.chain => TailOf(e, e.chain[e.lastId].hash, e.lastId, T)
    BY <2>1, <2>2, <2>15 DEF Truth
  <2> QED
    BY <2>10, <2>11, <2>12, <2>13, <2>14, <2>16, <2>17 DEF Truth
<1> QED
  BY <1>3, <1>4

(* Configuring signing, where no signing was configured. *)
LEMMA TruthConfigure ==
    ASSUME NEW T, Truth(db, written, T), db.signing.key = NoKey, NEW k, NEW from,
           db' = Configured(db, k, from), UNCHANGED written
    PROVE  Truth(db', written', T)
<1>1. /\ db'.lastId = db.lastId /\ db'.cycles = db.cycles /\ db'.chain = db.chain
      /\ db'.sigs = db.sigs /\ db'.anchor = db.anchor
      /\ db' = [lastId |-> db'.lastId, cycles |-> db'.cycles, chain |-> db'.chain,
                sigs |-> db'.sigs, anchor |-> db'.anchor, signing |-> db'.signing]
  BY DEF Configured
<1>2. \A i, h : TailOf(db, h, i, T) => TailOf(db', h, i, T)
  BY DEF TailOf, SignedIn
<1>3. DbShape(db')
  BY <1>1 DEF Truth, DbShape
<1>4. Inserted(db', written', T)
  BY <1>1 DEF Truth, Inserted
<1>5. \A i \in 1..db'.lastId : i > db'.anchor.cycle /\ i < db'.lastId
         => TailOf(db', T[i + 1].previous, i, T)
  BY <1>1, <1>2 DEF Truth
<1>6. db'.lastId \in DOMAIN db'.chain => TailOf(db', db'.chain[db'.lastId].hash, db'.lastId, T)
  BY <1>1, <1>2 DEF Truth
<1> QED
  BY <1>1, <1>3, <1>4, <1>5, <1>6 DEF Truth

(* A damaged row: its hash is one of its own, or no digest; the newest     *)
(* row's is a tail still.                                                  *)
LEMMA TruthDamagedRow ==
    ASSUME NEW T, Truth(db, written, T), NEW i \in DOMAIN db.chain, NEW row, RowShape(row),
           HashOfRow(row.hash, i), i = db.lastId => TailOf(db, row.hash, i, T),
           db' = WithRow(i, row), UNCHANGED written
    PROVE  Truth(db', written', T)
<1>1. DbShape(db)
  BY DEF Truth
<1>2. /\ db'.lastId = db.lastId /\ db'.cycles = db.cycles
      /\ db'.sigs = db.sigs /\ db'.anchor = db.anchor /\ db'.signing = db.signing
      /\ db'.chain = [db.chain EXCEPT ![i] = row]
      /\ db' = [lastId |-> db'.lastId, cycles |-> db'.cycles, chain |-> db'.chain,
                sigs |-> db'.sigs, anchor |-> db'.anchor, signing |-> db'.signing]
  <2> DEFINE table == [db.chain EXCEPT ![i] = row]
  <2>1. db' = [db EXCEPT !.chain = table]
    BY DEF WithRow
  <2> HIDE DEF table
  <2>2. db' = [lastId |-> db.lastId, cycles |-> db.cycles, chain |-> table,
               sigs |-> db.sigs, anchor |-> db.anchor, signing |-> db.signing]
    BY <1>1, <2>1 DEF DbShape
  <2>3. /\ db'.lastId = db.lastId /\ db'.cycles = db.cycles
        /\ db'.sigs = db.sigs /\ db'.anchor = db.anchor /\ db'.signing = db.signing
        /\ db'.chain = table
    BY <2>2
  <2> QED
    BY <2>2, <2>3 DEF table
<1>3. /\ DOMAIN db'.chain = DOMAIN db.chain
      /\ \A j \in DOMAIN db.chain : db'.chain[j] = IF j = i THEN row ELSE db.chain[j]
  BY <1>2
<1>4. \A j, h : TailOf(db, h, j, T) => TailOf(db', h, j, T)
  BY <1>2 DEF TailOf, SignedIn
<1>5. DbShape(db')
  <2>1. \A j \in DOMAIN db'.chain : RowShape(db'.chain[j])
    BY <1>1, <1>3 DEF DbShape
  <2> QED
    BY <1>1, <1>2, <1>3, <2>1 DEF DbShape
<1>6. Inserted(db', written', T)
  BY <1>2 DEF Truth, Inserted
<1>7. \A j \in DOMAIN db'.chain : HashOfRow(db'.chain[j].hash, j)
  BY <1>3 DEF Truth
<1>8. \A j \in 1..db'.lastId : j > db'.anchor.cycle /\ j < db'.lastId
         => TailOf(db', T[j + 1].previous, j, T)
  BY <1>2, <1>4 DEF Truth
<1>9. db'.lastId \in DOMAIN db'.chain => TailOf(db', db'.chain[db'.lastId].hash, db'.lastId, T)
  BY <1>2, <1>3, <1>4 DEF Truth
<1> QED
  BY <1>2, <1>5, <1>6, <1>7, <1>8, <1>9 DEF Truth

LEMMA NewestRow ==
    ASSUME DbShape(db), DOMAIN db.chain # {}
    PROVE  Newest(DOMAIN db.chain) = db.lastId
<1>1. /\ DOMAIN db.chain \in SUBSET Int /\ db.lastId \in DOMAIN db.chain
      /\ \A j \in DOMAIN db.chain : j <= db.lastId
  BY DEF DbShape
<1> QED
  BY <1>1, NewestIsMaximum

LEMMA TruthDamage ==
    ASSUME NEW T, Truth(db, written, T), Damage
    PROVE  Truth(db', written', T)
<1>1. DbShape(db) /\ UNCHANGED written
  BY DEF Truth, Damage, DamageField, ReplaceRow, LoseRow, Damages
<1>2. PICK i \in DOMAIN db.chain :
         \/ DamageField(i)
         \/ \E p \in Payload : ReplaceRow(i, p)
         \/ LoseRow(i)
  BY DEF Damage
<1>3. CASE DamageField(i)
  <2> DEFINE row == db.chain[i]
  <2>1. RowShape(row) /\ HashOfRow(row.hash, i) /\ (i = db.lastId => TailOf(db, row.hash, i, T))
    BY <1>1 DEF Truth, DbShape
  <2>2. ASSUME NEW new, RowShape(new), new.hash = row.hash, db' = WithRow(i, new)
        PROVE  Truth(db', written', T)
    <3>1. HashOfRow(new.hash, i) /\ (i = db.lastId => TailOf(db, new.hash, i, T))
      BY <2>1, <2>2
    <3> QED
      BY <1>1, <2>2, <3>1, TruthDamagedRow
  <2>3. \/ \E p \in Payload : db' = WithRow(i, [row EXCEPT !.payload = p])
        \/ db' = WithRow(i, [row EXCEPT !.previous = Garbage(i)])
        \/ db' = WithRow(i, [row EXCEPT !.payloadHash = Garbage(i)])
        \/ db' = WithRow(i, [row EXCEPT !.hash = Garbage(i)])
    BY <1>3 DEF DamageField, Damages
  <2> HIDE DEF row
  <2>4. ASSUME NEW p PROVE RowShape([row EXCEPT !.payload = p])
                           /\ [row EXCEPT !.payload = p].hash = row.hash
    BY <2>1 DEF RowShape
  <2>5. ASSUME NEW h PROVE /\ RowShape([row EXCEPT !.previous = h])
                           /\ [row EXCEPT !.previous = h].hash = row.hash
                           /\ RowShape([row EXCEPT !.payloadHash = h])
                           /\ [row EXCEPT !.payloadHash = h].hash = row.hash
                           /\ RowShape([row EXCEPT !.hash = h])
                           /\ [row EXCEPT !.hash = h].hash = h
    BY <2>1 DEF RowShape
  <2>6. CASE \E p \in Payload : db' = WithRow(i, [row EXCEPT !.payload = p])
    BY <2>2, <2>4, <2>6
  <2>7. CASE db' = WithRow(i, [row EXCEPT !.previous = Garbage(i)])
    BY <2>2, <2>5, <2>7
  <2>8. CASE db' = WithRow(i, [row EXCEPT !.payloadHash = Garbage(i)])
    BY <2>2, <2>5, <2>8
  <2>9. CASE db' = WithRow(i, [row EXCEPT !.hash = Garbage(i)])
    <3> DEFINE new == [row EXCEPT !.hash = Garbage(i)]
    <3>1. RowShape(new) /\ new.hash = Garbage(i)
      BY <2>5
    <3> HIDE DEF new
    <3>2. HashOfRow(new.hash, i) /\ TailOf(db, new.hash, i, T)
      BY <3>1 DEF HashOfRow, TailOf
    <3>3. db' = WithRow(i, new)
      BY <2>9 DEF new
    <3> QED
      BY <1>1, <3>1, <3>2, <3>3, TruthDamagedRow
  <2> QED
    BY <2>3, <2>6, <2>7, <2>8, <2>9
<1>4. ASSUME NEW p \in Payload, ReplaceRow(i, p) PROVE Truth(db', written', T)
  <2> DEFINE prev == PreviousInWalk(db, 0, db.anchor.hash, i)
             hash == ChainHash(prev, PayloadHash(p), i)
             row  == [previous |-> prev, payloadHash |-> PayloadHash(p), hash |-> hash, payload |-> p]
  <2>1. db' = WithRow(i, row) /\ (SignedIn(db, i) \/ i # Newest(DOMAIN db.chain))
    BY <1>4 DEF ReplaceRow, Damages, SignedRow, SignedIn
  <2>2. RowShape(row) /\ row.hash = hash
    BY DEF RowShape
  <2> HIDE DEF row
  <2>3. HashOfRow(row.hash, i)
    BY <2>2 DEF HashOfRow
  <2>4. i = db.lastId => TailOf(db, row.hash, i, T)
    BY <1>1, <2>1, <2>2, NewestRow DEF TailOf
  <2> QED
    BY <1>1, <2>1, <2>2, <2>3, <2>4, TruthDamagedRow
<1>5. CASE LoseRow(i)
  <2>1. /\ db'.lastId = db.lastId /\ db'.cycles = db.cycles
        /\ db'.anchor = db.anchor /\ db'.signing = db.signing
        /\ db'.chain = [j \in DOMAIN db.chain \ {i} |-> db.chain[j]]
        /\ db'.sigs = [j \in DOMAIN db.sigs \ {i} |-> db.sigs[j]]
        /\ db' = [lastId |-> db'.lastId, cycles |-> db'.cycles, chain |-> db'.chain,
                  sigs |-> db'.sigs, anchor |-> db'.anchor, signing |-> db'.signing]
    <3> DEFINE chain == [j \in DOMAIN db.chain \ {i} |-> db.chain[j]]
               sigs  == [j \in DOMAIN db.sigs \ {i} |-> db.sigs[j]]
    <3>1. db' = [db EXCEPT !.chain = chain, !.sigs = sigs]
      BY <1>5 DEF LoseRow, Damages
    <3> HIDE DEF chain, sigs
    <3>2. db' = [lastId |-> db.lastId, cycles |-> db.cycles, chain |-> chain,
                 sigs |-> sigs, anchor |-> db.anchor, signing |-> db.signing]
      BY <1>1, <3>1 DEF DbShape
    <3>3. /\ db'.lastId = db.lastId /\ db'.cycles = db.cycles /\ db'.chain = chain
          /\ db'.sigs = sigs /\ db'.anchor = db.anchor /\ db'.signing = db.signing
      BY <3>2
    <3> QED
      BY <3>2, <3>3 DEF chain, sigs
  <2>2. i # db.lastId /\ db.lastId \in DOMAIN db.chain
    BY <1>1, <1>5, NewestRow DEF LoseRow, DbShape
  <2>3. /\ DOMAIN db'.chain = DOMAIN db.chain \ {i}
        /\ \A j \in DOMAIN db'.chain : db'.chain[j] = db.chain[j]
        /\ DOMAIN db'.sigs \subseteq DOMAIN db.sigs
        /\ \A j \in DOMAIN db'.sigs : db'.sigs[j] = db.sigs[j]
    BY <2>1
  <2>4. DbShape(db')
    <3>1. \A j \in DOMAIN db'.chain : RowShape(db'.chain[j])
      BY <1>1, <2>3 DEF DbShape
    <3>2. db'.lastId \in DOMAIN db'.chain
      BY <2>1, <2>2, <2>3
    <3> QED
      BY <1>1, <2>1, <2>3, <3>1, <3>2 DEF DbShape
  <2>5. Inserted(db', written', T)
    BY <1>1, <2>1 DEF Truth, Inserted
  <2>6. \A j \in DOMAIN db'.chain : HashOfRow(db'.chain[j].hash, j)
    BY <2>3 DEF Truth
  <2>7. \A j \in DOMAIN db'.sigs : db'.sigs[j].mac = Mac(db'.sigs[j].key, j, T[j].hash)
    BY <2>3 DEF Truth
  <2>8. \A j, h : TailOf(db, h, j, T) => TailOf(db', h, j, T)
    BY <2>1 DEF TailOf, SignedIn
  <2>9. \A j \in 1..db'.lastId : j > db'.anchor.cycle /\ j < db'.lastId
           => TailOf(db', T[j + 1].previous, j, T)
    BY <2>1, <2>8 DEF Truth
  <2>10. db'.lastId \in DOMAIN db'.chain => TailOf(db', db'.chain[db'.lastId].hash, db'.lastId, T)
    BY <2>1, <2>3, <2>8 DEF Truth
  <2> QED
    BY <2>1, <2>4, <2>5, <2>6, <2>7, <2>9, <2>10 DEF Truth
<1> QED
  BY <1>2, <1>3, <1>4, <1>5

(* A step of the program: one process configures signing only where none   *)
(* is configured.                                                          *)
LEMMA TruthStep ==
    ASSUME NEW T, Truth(db, written, T), Holders, [Next]_vars
    PROVE  \E U : Truth(db', written', U)
<1>1. CASE UNCHANGED <<db, written>>
  BY <1>1
<1>2. ASSUME NEW c \in Conn, ConfigureWrite(c) PROVE Truth(db', written', T)
  <2>1. db.signing.key = NoKey
    BY <1>2 DEF Holders, Holder, ConfigureWrite, At
  <2>2. db' = Configured(db, conn[c].key, conn[c].from) /\ UNCHANGED written
    BY <1>2 DEF ConfigureWrite
  <2> QED
    BY <2>1, <2>2, TruthConfigure
<1>3. ASSUME NEW c \in Conn, NEW p \in Payload, PersistCommit(c, p)
      PROVE  \E U : Truth(db', written', U)
  <2> DEFINE d == Appended(db, p, conn[c].key)
             w == Extended(written, db.lastId + 1, p)
  <2>1. db' \in AfterPrune(c, d) /\ written' = w
    BY <1>3 DEF PersistCommit
  <2>2. \E U : Truth(d, w, U)
    BY TruthAppend
  <2>3. PICK U : Truth(d, w, U)
    BY <2>2
  <2> HIDE DEF d, w
  <2>4. CASE db' = d
    BY <2>1, <2>3, <2>4
  <2>5. CASE \E aged \in AgedChoice(d) : db' = Pruned(d, aged)
    BY <2>1, <2>3, <2>5, TruthPrune
  <2> QED
    BY <2>1, <2>4, <2>5 DEF AfterPrune, AgedChoice
<1>4. ASSUME NEW c \in Conn, ForcePrune(c) PROVE \E U : Truth(db', written', U)
  <2>1. PICK aged \in AgedChoice(db) : db' = Pruned(db, aged)
    BY <1>4 DEF ForcePrune, AgedChoice
  <2> QED
    BY <1>4, <2>1, TruthPrune DEF ForcePrune
<1> QED
  BY <1>1, <1>2, <1>3, <1>4 DEF Next, Step, Open, ConfigureRead, PersistCheck, PersistAbort,
     AuditAnchor, AuditMeta, AuditRows, Close, vars

DamageInv == Holders /\ \E T : Truth(db, written, T)

LEMMA InitTruth == DamagedInit => DamageInv
<1> SUFFICES ASSUME DamagedInit PROVE DamageInv
  OBVIOUS
<1>1. db = EmptyDb /\ written = EmptyTable /\ conn = [c \in Conn |-> Closed]
  BY DEF DamagedInit, Init
<1>2. Holders
  BY <1>1 DEF Holders, Holder, Closed, Mem
<1>3. DOMAIN EmptyTable = {}
  BY DEF EmptyTable
<1>4. Truth(db, written, EmptyTable)
  BY <1>1, <1>3 DEF Truth, DbShape, Inserted, EmptyDb
<1> QED
  BY <1>2, <1>4 DEF DamageInv

LEMMA DamageInduction ==
    ASSUME \A c, e \in Conn : c = e, DamageInv, [DamagedNext]_dvars
    PROVE  DamageInv'
<1>1. PICK T : Truth(db, written, T)
  BY DEF DamageInv
<1>2. CASE Damage
  <2>1. UNCHANGED conn /\ db'.signing = db.signing
    <3>1. \A i, row : WithRow(i, row).signing = db.signing
      BY DEF WithRow
    <3>2. ASSUME NEW i \in DOMAIN db.chain, LoseRow(i) PROVE db'.signing = db.signing
      BY <3>2 DEF LoseRow, Damages
    <3> QED
      BY <1>2, <3>1, <3>2 DEF Damage, DamageField, ReplaceRow, LoseRow, Damages
  <2>2. Holders'
    BY <2>1 DEF DamageInv, Holders, Holder
  <2> QED
    BY <1>1, <1>2, <2>2, TruthDamage DEF DamageInv
<1>3. CASE Undamaged \/ UNCHANGED dvars
  <2>1. [Next]_vars
    BY <1>3 DEF Undamaged, dvars
  <2>2. Holders'
    BY <2>1, HoldersStep DEF DamageInv
  <2>3. \E U : Truth(db', written', U)
    BY <1>1, <2>1, TruthStep DEF DamageInv
  <2> QED
    BY <2>2, <2>3 DEF DamageInv
<1> QED
  BY <1>2, <1>3 DEF DamagedNext

(* Whatever is damaged, and however often, between the cycles, prunes,     *)
(* audits and restarts of one process: an audit with the configured key    *)
(* passes only over the rows as they were committed, none missing between  *)
(* the anchor and the newest (storage.py 299-559, 901-942).                *)
THEOREM DamageIsExposed ==
    ASSUME \A c, e \in Conn : c = e
    PROVE  DamagedSpec => []AuditExposesDamage
<1>1. DamageInv => AuditExposesDamage
  BY TruthIsExposed DEF DamageInv, AuditExposesDamage
<1>2. DamageInv /\ [DamagedNext]_dvars => DamageInv'
  BY DamageInduction
<1> QED
  BY <1>1, <1>2, InitTruth, PTL DEF DamagedSpec
=============================================================================
