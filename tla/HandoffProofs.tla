----------------------------- MODULE HandoffProofs -----------------------------
(***************************************************************************)
(* Proofs about HandoffOutbox for any number of cycles, exporters, crashes *)
(* and upgrades: no retained finding is passed over, and with a single     *)
(* exporter the outbox never overflows and nothing is handed over again    *)
(* without a crash.                                                        *)
(*                                                                         *)
(* The argument: whatever an exporter holds in memory - an old ledger, an  *)
(* old anchor, a cursor's rows - was true of the store when it was read,   *)
(* and the store only forgets: rows up to the sequence of that time either *)
(* are what they were or are gone (Grown), and what was handed over stays  *)
(* so.  A row is left behind by the cursor only after it was handed over   *)
(* (Passed), so the ledger can be moved past it.                           *)
(*                                                                         *)
(* A single exporter's cursor is ahead of the ledger (Ahead).  What it     *)
(* hands over ahead of the ledger it will hand over again, unless it lives *)
(* to save the ledger: until then a crash has to pay for it (Debts, Paid). *)
(***************************************************************************)
EXTENDS HandoffOutbox, ChainRowsProofs

Place == {"idle", "loaded", "anchored", "verifying", "verified", "resolved", "exporting",
          "writing", "saving"}

Handed(c, f, h) == c \in DOMAIN f \/ h.delivered[c] > 0

(* What is retained up to the cycle n was handed over. *)
Claim(n, d, f, h) ==
    \A c \in DOMAIN d.chain :
        c <= n /\ d.chain[c].payload \in Reportable => Handed(c, f, h)

RowsOK(rows, d, h) ==
    /\ rows = [c \in DOMAIN rows |-> rows[c]]
    /\ DOMAIN rows \subseteq 1..d.lastId
    /\ \A c \in DOMAIN rows : rows[c].payload = h.written[c]
    /\ \A c \in DOMAIN rows \intersect DOMAIN d.chain : rows[c] = d.chain[c]

(* Before the rows that are left there is nothing that was not handed over. *)
Passed(rows, d, f, h) ==
    \A r \in DOMAIN rows, c \in DOMAIN d.chain :
        c < r /\ c \notin DOMAIN rows /\ d.chain[c].payload \in Reportable => Handed(c, f, h)

First(rows) == Min(DOMAIN rows)

Shape(m) ==
    m \in [pc : Place, ledger : {m.ledger}, pending : Nat, anchor : Nat, start : {m.start},
           max : {m.max}, last : Nat, rows : {m.rows}, existed : BOOLEAN]

MemOK(m, d, f, h) ==
    /\ Shape(m)
    /\ m.pc # "idle" => m.ledger.cycle \in 0..d.lastId /\ Claim(m.ledger.cycle, d, f, h)
    /\ m.anchor <= d.anchor.cycle
    /\ m.last <= d.lastId
    /\ m.pc = "resolved" => Claim(m.last, d, f, h)
    /\ RowsOK(m.rows, d, h)
    /\ m.pc \in {"exporting", "writing", "saving"} => Passed(m.rows, d, f, h)
    /\ m.pc \in {"writing", "saving"} => DOMAIN m.rows # {}
    /\ m.pc = "writing" => m.rows[First(m.rows)].payload \in Reportable
    /\ m.pc = "saving" /\ m.rows[First(m.rows)].payload \in Reportable =>
          Handed(First(m.rows), f, h)

StoreOK(d, h) ==
    /\ DbInv(d) /\ d.lastId <= MaxId
    /\ h \in [written : {h.written}, delivered : [1..MaxId -> Nat], crashes : {h.crashes}]
    /\ h.written = [c \in 1..d.lastId |-> h.written[c]]
    /\ \A c \in DOMAIN d.chain : d.chain[c].payload = h.written[c]

Inv ==
    /\ TypeOK
    /\ StoreOK(db, hist) /\ version \in Nat
    /\ files = [c \in DOMAIN files |-> files[c]]
    /\ Claim(ledger.cycle, db, files, hist)
    /\ exp = [e \in Exporter |-> exp[e]]
    /\ \A e \in Exporter : MemOK(exp[e], db, files, hist)

-----------------------------------------------------------------------------
LEMMA RowsAreIds == ASSUME NEW d, DbInv(d) PROVE DOMAIN d.chain \subseteq 1..d.lastId
  BY DEF DbInv, Retained

LEMMA FirstIsLeast ==
    ASSUME NEW rows, NEW n \in Nat, DOMAIN rows \subseteq 1..n, DOMAIN rows # {}
    PROVE  First(rows) \in DOMAIN rows /\ \A c \in DOMAIN rows : First(rows) <= c
<1> DEFINE S == DOMAIN rows
<1>1. S \in SUBSET Nat /\ S # {}
  OBVIOUS
<1>2. PICK x \in S : \A y \in S : ~ (<<y, x>> \in OpToRel(<, Nat))
  BY <1>1, NatLessThanWellFounded, WFMin, Zenon
<1>3. \A y \in S : ~ (y < x)
  BY <1>1, <1>2, Zenon DEF OpToRel
<1>4. \A y \in S : x <= y
  BY <1>1, <1>3
<1>5. Min(S) \in S /\ \A y \in S : Min(S) <= y
  BY <1>4 DEF Min
<1> QED
  BY <1>5 DEF First

(* The store may have grown and forgotten, but it has not changed. *)
Grown(d, f, h, d2, f2, h2) ==
    /\ DbInv(d2) /\ d.lastId <= d2.lastId /\ d.anchor.cycle <= d2.anchor.cycle
    /\ \A c \in DOMAIN d2.chain : c <= d.lastId => c \in DOMAIN d.chain /\ d2.chain[c] = d.chain[c]
    /\ \A c \in 1..d.lastId : h2.written[c] = h.written[c]
    /\ \A c \in 1..d.lastId : Handed(c, f, h) => Handed(c, f2, h2)

LEMMA ClaimStays ==
    ASSUME NEW d, NEW f, NEW h, NEW d2, NEW f2, NEW h2, DbInv(d), Grown(d, f, h, d2, f2, h2),
           NEW n \in 0..d.lastId, Claim(n, d, f, h)
    PROVE  Claim(n, d2, f2, h2)
<1> SUFFICES ASSUME NEW c \in DOMAIN d2.chain, c <= n, d2.chain[c].payload \in Reportable
             PROVE  Handed(c, f2, h2)
  BY DEF Claim
<1>1. d.lastId \in Nat /\ c \in 1..d2.lastId /\ d2.lastId \in Nat
  BY RowsAreIds DEF Grown, DbInv
<1>2. c \in DOMAIN d.chain /\ d2.chain[c] = d.chain[c] /\ c \in 1..d.lastId
  BY <1>1 DEF Grown
<1> QED
  BY <1>2 DEF Claim, Grown

LEMMA MemStays ==
    ASSUME NEW d, NEW f, NEW h, NEW d2, NEW f2, NEW h2, DbInv(d), Grown(d, f, h, d2, f2, h2),
           NEW m, MemOK(m, d, f, h)
    PROVE  MemOK(m, d2, f2, h2)
<1>1. /\ d.lastId \in Nat /\ d2.lastId \in Nat /\ d.lastId <= d2.lastId
      /\ d.anchor.cycle \in Nat /\ d2.anchor.cycle \in Nat /\ d.anchor.cycle <= d2.anchor.cycle
      /\ DOMAIN m.rows \subseteq 1..d.lastId /\ DOMAIN d2.chain \subseteq 1..d2.lastId
  BY RowsAreIds DEF Grown, DbInv, MemOK, RowsOK
<1>2. Shape(m) /\ m.anchor <= d2.anchor.cycle /\ m.last <= d2.lastId
  BY <1>1 DEF MemOK, Shape
<1>3. m.pc # "idle" => m.ledger.cycle \in 0..d2.lastId /\ Claim(m.ledger.cycle, d2, f2, h2)
  BY <1>1, ClaimStays DEF MemOK
<1>4. m.pc = "resolved" => Claim(m.last, d2, f2, h2)
  BY <1>1, ClaimStays DEF MemOK, Shape
<1>5. RowsOK(m.rows, d2, h2)
  BY <1>1 DEF MemOK, RowsOK, Grown
<1>6. m.pc \in {"exporting", "writing", "saving"} => Passed(m.rows, d2, f2, h2)
  <2> SUFFICES ASSUME Passed(m.rows, d, f, h), NEW r \in DOMAIN m.rows, NEW c \in DOMAIN d2.chain,
                      c < r, c \notin DOMAIN m.rows, d2.chain[c].payload \in Reportable
               PROVE  Handed(c, f2, h2)
    BY DEF MemOK, Passed
  <2>1. c \in 1..d.lastId
    BY <1>1
  <2>2. c \in DOMAIN d.chain /\ d2.chain[c] = d.chain[c]
    BY <2>1 DEF Grown
  <2> QED BY <2>1, <2>2 DEF Passed, Grown
<1>7. m.pc = "saving" /\ m.rows[First(m.rows)].payload \in Reportable => Handed(First(m.rows), f2, h2)
  <2> SUFFICES ASSUME m.pc = "saving", m.rows[First(m.rows)].payload \in Reportable
               PROVE  Handed(First(m.rows), f2, h2)
    OBVIOUS
  <2>1. First(m.rows) \in 1..d.lastId
    BY <1>1, FirstIsLeast DEF MemOK
  <2> QED BY <2>1 DEF MemOK, Grown
<1> QED
  BY <1>2, <1>3, <1>4, <1>5, <1>6, <1>7 DEF MemOK

LEMMA IdleOK == ASSUME StoreOK(db, hist) PROVE MemOK(Idle, db, files, hist)
<1>1. /\ db.lastId \in Nat /\ db.anchor.cycle \in Nat
  BY DEF StoreOK, DbInv
<1>2. Idle.pc = "idle" /\ Idle.anchor = 0 /\ Idle.last = 0 /\ Idle.rows = EmptyTable
  BY DEF Idle
<1>3. Shape(Idle)
  BY DEF Idle, Shape, Place
<1>4. RowsOK(EmptyTable, db, hist)
  BY DEF EmptyTable, RowsOK
<1> QED
  BY <1>1, <1>2, <1>3, <1>4 DEF MemOK

LEMMA InitInv == Init => Inv
<1> SUFFICES ASSUME Init PROVE Inv
  OBVIOUS
<1>1. /\ db.lastId = 0 /\ DOMAIN db.chain = {} /\ db.anchor.cycle = 0 /\ DbInv(db)
  <2>1. /\ EmptyDb.lastId = 0 /\ EmptyDb.cycles = {} /\ DOMAIN EmptyDb.chain = {}
        /\ DOMAIN EmptyDb.sigs = {} /\ EmptyDb.anchor.cycle = 0
    BY DEF EmptyDb, EmptyTable
  <2>2. Retained(EmptyDb) = {}
    BY <2>1 DEF Retained
  <2> QED BY <2>1, <2>2 DEF Init, DbInv
<1>2. StoreOK(db, hist)
  <2>1. /\ hist.written = EmptyTable
        /\ hist \in [written : {hist.written}, delivered : [1..MaxId -> Nat], crashes : {hist.crashes}]
    BY DEF Init
  <2>2. EmptyTable = [c \in 1..0 |-> EmptyTable[c]]
    BY DEF EmptyTable
  <2> QED BY <1>1, <2>1, <2>2, OutboxAssumption DEF StoreOK
<1>3. exp = [e \in Exporter |-> Idle]
  BY DEF Init
<1>4. \A e \in Exporter : MemOK(exp[e], db, files, hist)
  BY <1>2, <1>3, IdleOK
<1>5. ledger = NoLedger /\ version = 0 /\ files = EmptyTable
  BY DEF Init
<1>6. \A e \in Exporter : exp[e].pending = 0
  BY <1>3 DEF Idle
<1>7. TypeOK
  BY <1>1, <1>5, <1>6 DEF TypeOK, NoLedger, EmptyTable
<1>8. Claim(ledger.cycle, db, files, hist)
  BY <1>1 DEF Claim
<1>9. files = [c \in DOMAIN files |-> files[c]] /\ exp = [e \in Exporter |-> exp[e]]
  BY <1>3, <1>5 DEF EmptyTable
<1> QED
  BY <1>2, <1>4, <1>5, <1>7, <1>8, <1>9 DEF Inv

-----------------------------------------------------------------------------
(* Steps of an exporter that only read *)

LEMMA ReadStep ==
    ASSUME Inv, NEW e \in Exporter, NEW m, MemOK(m, db, files, hist), Reads(e, m)
    PROVE  Inv'
<1>1. exp' = [exp EXCEPT ![e] = m] /\ UNCHANGED <<db, ledger, files, version, hist>>
  BY DEF Reads
<1>2. /\ exp' = [o \in Exporter |-> exp'[o]] /\ exp'[e] = m
      /\ \A o \in Exporter \ {e} : exp'[o] = exp[o]
  BY <1>1 DEF Inv
<1>3. \A o \in Exporter : MemOK(exp'[o], db, files, hist)
  BY <1>2 DEF Inv
<1>4. \A o \in Exporter : exp'[o].pending \in Nat
  BY <1>3 DEF MemOK, Shape
<1>5. TypeOK'
  BY <1>1, <1>4 DEF Inv, TypeOK
<1> QED
  BY <1>1, <1>2, <1>3, <1>5 DEF Inv

LEMMA IdleStep ==
    ASSUME Inv, NEW e \in Exporter, Reads(e, Idle)
    PROVE  Inv'
BY IdleOK, ReadStep DEF Inv

LEMMA LoadStep == ASSUME Inv, NEW e \in Exporter, Load(e) PROVE Inv'
<1> DEFINE n  == Cardinality(DOMAIN files)
           m1 == [Idle EXCEPT !.pc = "loaded"]
           m2 == [m1 EXCEPT !.ledger = ledger]
           m  == [m2 EXCEPT !.pending = n]
<1>1. Reads(e, m)
  BY DEF Load
<1>2. n \in Nat
  <2>1. DOMAIN files \subseteq 1..db.lastId /\ db.lastId \in Nat
    BY DEF Inv, TypeOK, StoreOK, DbInv
  <2>2. IsFiniteSet(1..db.lastId)
    BY <2>1, FS_Interval
  <2> QED BY <2>1, <2>2, FS_Subset, FS_CardinalityType
<1> HIDE DEF n
<1>3. /\ MemOK(Idle, db, files, hist) /\ Shape(Idle)
      /\ Idle.rows = EmptyTable /\ Idle.anchor = 0 /\ Idle.last = 0
  BY IdleOK DEF Inv, Idle, MemOK
<1>4. Shape(m1) /\ m1.pc = "loaded" /\ m1.rows = Idle.rows /\ m1.anchor = 0 /\ m1.last = 0
  BY <1>3 DEF Shape, Place
<1> HIDE DEF m1
<1>5. /\ Shape(m2) /\ m2.pc = "loaded" /\ m2.rows = Idle.rows /\ m2.anchor = 0 /\ m2.last = 0
      /\ m2.ledger = ledger
  BY <1>4 DEF Shape
<1> HIDE DEF m2
<1>6. /\ Shape(m) /\ m.pc = "loaded" /\ m.rows = Idle.rows /\ m.anchor = 0 /\ m.last = 0
      /\ m.ledger = ledger
  BY <1>2, <1>5 DEF Shape
<1> HIDE DEF m
<1>7. MemOK(m, db, files, hist)
  BY <1>3, <1>6 DEF MemOK, Inv, TypeOK
<1> QED
  BY <1>1, <1>7, ReadStep

LEMMA MineOK ==
    ASSUME Inv, NEW e \in Exporter
    PROVE  /\ MemOK(exp[e], db, files, hist) /\ Shape(exp[e])
           /\ MemOK(Idle, db, files, hist)
           /\ db.lastId \in Nat /\ db.anchor.cycle \in 0..db.lastId
  BY IdleOK DEF Inv, MemOK, StoreOK, DbInv

LEMMA NumbersOK ==
    ASSUME Inv PROVE DbInv(db) /\ db.lastId \in Nat /\ db.lastId <= MaxId /\ MaxId \in Nat
  BY OutboxAssumption DEF Inv, StoreOK, DbInv

LEMMA ReadAnchorCycleStep == ASSUME Inv, NEW e \in Exporter, ReadAnchorCycle(e) PROVE Inv'
<1> DEFINE m1 == [exp[e] EXCEPT !.pc = "anchored"]
           m  == [m1 EXCEPT !.anchor = db.anchor.cycle]
<1>1. Reads(e, m) /\ exp[e].pc = "loaded"
  BY DEF ReadAnchorCycle, At
<1>2. /\ Shape(m1) /\ m1.pc = "anchored" /\ m1.ledger = exp[e].ledger /\ m1.last = exp[e].last
      /\ m1.rows = exp[e].rows
  BY MineOK DEF Shape, Place
<1> HIDE DEF m1
<1>3. /\ Shape(m) /\ m.pc = "anchored" /\ m.ledger = exp[e].ledger /\ m.last = exp[e].last
      /\ m.rows = exp[e].rows /\ m.anchor = db.anchor.cycle
  BY <1>2, MineOK DEF Shape
<1> HIDE DEF m
<1>4. MemOK(m, db, files, hist)
  BY <1>1, <1>3, MineOK DEF MemOK
<1> QED
  BY <1>1, <1>4, ReadStep

LEMMA ReadAnchorHashStep == ASSUME Inv, NEW e \in Exporter, ReadAnchorHash(e) PROVE Inv'
<1> DEFINE m1 == [exp[e] EXCEPT !.pc = "verifying"]
           m  == [m1 EXCEPT !.start = db.anchor.hash]
<1>1. (Reads(e, m) \/ Reads(e, Idle)) /\ exp[e].pc = "anchored"
  BY DEF ReadAnchorHash, ReadsIf, At
<1>2. /\ Shape(m1) /\ m1.pc = "verifying" /\ m1.ledger = exp[e].ledger /\ m1.last = exp[e].last
      /\ m1.rows = exp[e].rows /\ m1.anchor = exp[e].anchor
  BY MineOK DEF Shape, Place
<1> HIDE DEF m1
<1>3. /\ Shape(m) /\ m.pc = "verifying" /\ m.ledger = exp[e].ledger /\ m.last = exp[e].last
      /\ m.rows = exp[e].rows /\ m.anchor = exp[e].anchor
  BY <1>2 DEF Shape
<1> HIDE DEF m
<1>4. MemOK(m, db, files, hist)
  BY <1>1, <1>3, MineOK DEF MemOK
<1> QED
  BY <1>1, <1>4, ReadStep, IdleStep

LEMMA VerifyRowsStep == ASSUME Inv, NEW e \in Exporter, VerifyRows(e) PROVE Inv'
<1> DEFINE max == Newest({exp[e].anchor} \cup DOMAIN db.chain)
           m1 == [exp[e] EXCEPT !.pc = "verified"]
           m  == [m1 EXCEPT !.max = max]
<1>1. (Reads(e, m) \/ Reads(e, Idle)) /\ exp[e].pc = "verifying"
  BY DEF VerifyRows, ReadsIf, At
<1> HIDE DEF max
<1>2. /\ Shape(m1) /\ m1.pc = "verified" /\ m1.ledger = exp[e].ledger /\ m1.last = exp[e].last
      /\ m1.rows = exp[e].rows /\ m1.anchor = exp[e].anchor
  BY MineOK DEF Shape, Place
<1> HIDE DEF m1
<1>3. /\ Shape(m) /\ m.pc = "verified" /\ m.ledger = exp[e].ledger /\ m.last = exp[e].last
      /\ m.rows = exp[e].rows /\ m.anchor = exp[e].anchor
  BY <1>2 DEF Shape
<1> HIDE DEF m
<1>4. MemOK(m, db, files, hist)
  BY <1>1, <1>3, MineOK DEF MemOK
<1> QED
  BY <1>1, <1>4, ReadStep, IdleStep

(* The ledger it loaded, or the anchor: before it nothing is retained. *)
LEMMA ResolveStep == ASSUME Inv, NEW e \in Exporter, Resolve(e) PROVE Inv'
<1>1. exp[e].pc = "verified"
  BY DEF Resolve, At
<1>2. ASSUME NEW n \in 0..db.lastId, Claim(n, db, files, hist)
      PROVE  MemOK([exp[e] EXCEPT !.pc = "resolved", !.last = n], db, files, hist)
  <2> DEFINE m1 == [exp[e] EXCEPT !.pc = "resolved"]
             m  == [m1 EXCEPT !.last = n]
  <2>1. /\ Shape(m1) /\ m1.pc = "resolved" /\ m1.ledger = exp[e].ledger
        /\ m1.rows = exp[e].rows /\ m1.anchor = exp[e].anchor
    BY MineOK DEF Shape, Place
  <2> HIDE DEF m1
  <2>2. /\ Shape(m) /\ m.pc = "resolved" /\ m.ledger = exp[e].ledger /\ m.last = n
        /\ m.rows = exp[e].rows /\ m.anchor = exp[e].anchor
    BY <2>1, MineOK DEF Shape
  <2> HIDE DEF m
  <2>3. MemOK(m, db, files, hist)
    BY <1>1, <1>2, <2>2, MineOK DEF MemOK
  <2> QED BY <2>3 DEF m, m1
<1>3. exp[e].ledger.cycle \in 0..db.lastId /\ Claim(exp[e].ledger.cycle, db, files, hist)
  BY <1>1, MineOK DEF MemOK
<1>4. exp[e].anchor \in 0..db.lastId /\ Claim(exp[e].anchor, db, files, hist)
  <2>1. exp[e].anchor \in Nat /\ exp[e].anchor <= db.anchor.cycle
    BY MineOK DEF MemOK, Shape
  <2>2. \A c \in DOMAIN db.chain : c > db.anchor.cycle /\ c \in Nat
    BY MineOK DEF Inv, StoreOK, DbInv, Retained
  <2> QED BY <2>1, <2>2, MineOK DEF Claim
<1>5. \/ Reads(e, [exp[e] EXCEPT !.pc = "resolved", !.last = exp[e].ledger.cycle])
      \/ Reads(e, [exp[e] EXCEPT !.pc = "resolved", !.last = exp[e].anchor])
      \/ Reads(e, Idle)
  BY DEF Resolve, ReadsIf
<1> QED
  BY <1>2, <1>3, <1>4, <1>5, ReadStep, IdleStep

LEMMA OpenRowsStep == ASSUME Inv, NEW e \in Exporter, OpenRows(e) PROVE Inv'
<1> DEFINE rows == Above(db.chain, exp[e].last)
           m1 == [exp[e] EXCEPT !.pc = "exporting"]
           m  == [m1 EXCEPT !.rows = rows]
<1>1. Reads(e, m) /\ exp[e].pc = "resolved"
  BY DEF OpenRows, At
<1>2. Claim(exp[e].last, db, files, hist) /\ exp[e].last \in Nat
  BY <1>1, MineOK DEF MemOK, Shape
<1>3. /\ DOMAIN rows = {c \in DOMAIN db.chain : c > exp[e].last}
      /\ rows = [c \in DOMAIN rows |-> rows[c]]
      /\ \A c \in DOMAIN rows : rows[c] = db.chain[c]
  BY DEF Above
<1>4. DOMAIN db.chain \subseteq 1..db.lastId /\ db.lastId \in Nat
  BY RowsAreIds, MineOK DEF Inv, StoreOK
<1> HIDE DEF rows
<1>5. RowsOK(rows, db, hist)
  BY <1>3, <1>4 DEF RowsOK, Inv, StoreOK
<1>6. Passed(rows, db, files, hist)
  <2> SUFFICES ASSUME NEW r \in DOMAIN rows, NEW c \in DOMAIN db.chain, c \notin DOMAIN rows,
                      db.chain[c].payload \in Reportable
               PROVE  Handed(c, files, hist)
    BY DEF Passed
  <2>1. c <= exp[e].last
    BY <1>2, <1>3, <1>4
  <2> QED BY <2>1, <1>2 DEF Claim
<1>7. /\ Shape(m1) /\ m1.pc = "exporting" /\ m1.ledger = exp[e].ledger
      /\ m1.anchor = exp[e].anchor /\ m1.last = exp[e].last
  BY MineOK DEF Shape, Place
<1> HIDE DEF m1
<1>8. /\ Shape(m) /\ m.pc = "exporting" /\ m.ledger = exp[e].ledger
      /\ m.anchor = exp[e].anchor /\ m.last = exp[e].last /\ m.rows = rows
  BY <1>7 DEF Shape
<1> HIDE DEF m
<1>9. MemOK(m, db, files, hist)
  BY <1>1, <1>5, <1>6, <1>8, MineOK DEF MemOK
<1> QED
  BY <1>1, <1>9, ReadStep

(* A cursor that is not at its end has a first row. *)
LEMMA HasFirst ==
    ASSUME Inv, NEW e \in Exporter, exp[e].rows # EmptyTable \/ exp[e].pc \in {"writing", "saving"}
    PROVE  /\ Next_(e) = First(exp[e].rows)
           /\ Next_(e) \in DOMAIN exp[e].rows /\ Next_(e) \in 1..db.lastId
           /\ \A c \in DOMAIN exp[e].rows : Next_(e) <= c
<1>1. RowsOK(exp[e].rows, db, hist) /\ db.lastId \in Nat
  BY MineOK DEF MemOK
<1>2. DOMAIN exp[e].rows # {}
  BY <1>1, MineOK DEF RowsOK, EmptyTable, MemOK
<1> QED
  BY <1>1, <1>2, FirstIsLeast DEF RowsOK, First, Next_

LEMMA AdmitStep == ASSUME Inv, NEW e \in Exporter, Admit(e) PROVE Inv'
<1> DEFINE there == Next_(e) \in DOMAIN files
           w1 == [exp[e] EXCEPT !.pc = "writing"]
           w  == [w1 EXCEPT !.existed = there]
           v  == [exp[e] EXCEPT !.pc = "saving"]
<1>1. /\ exp[e].pc = "exporting" /\ exp[e].rows # EmptyTable
      /\ \/ HasFindings(e) /\ (Reads(e, w) \/ Reads(e, Idle))
         \/ ~HasFindings(e) /\ Reads(e, v)
  BY DEF Admit, HasRows, At, ReadsIf, ToWrite
<1>2. /\ Next_(e) = First(exp[e].rows) /\ Next_(e) \in DOMAIN exp[e].rows
      /\ HasFindings(e) <=> exp[e].rows[First(exp[e].rows)].payload \in Reportable
  BY <1>1, HasFirst DEF HasFindings
<1>3. /\ Shape(w1) /\ w1.pc = "writing" /\ w1.ledger = exp[e].ledger
      /\ w1.anchor = exp[e].anchor /\ w1.last = exp[e].last /\ w1.rows = exp[e].rows
  BY MineOK DEF Shape, Place
<1>4. /\ Shape(v) /\ v.pc = "saving" /\ v.ledger = exp[e].ledger
      /\ v.anchor = exp[e].anchor /\ v.last = exp[e].last /\ v.rows = exp[e].rows
  BY MineOK DEF Shape, Place
<1> there \in BOOLEAN
  OBVIOUS
<1> HIDE DEF w1, v, there
<1>5. /\ Shape(w) /\ w.pc = "writing" /\ w.ledger = exp[e].ledger
      /\ w.anchor = exp[e].anchor /\ w.last = exp[e].last /\ w.rows = exp[e].rows
  BY <1>3 DEF Shape
<1> HIDE DEF w
<1>6. HasFindings(e) => MemOK(w, db, files, hist)
  BY <1>1, <1>2, <1>5, MineOK DEF MemOK
<1>7. ~HasFindings(e) => MemOK(v, db, files, hist)
  BY <1>1, <1>2, <1>4, MineOK DEF MemOK
<1> QED
  BY <1>1, <1>6, <1>7, ReadStep, IdleStep

LEMMA FinishStep == ASSUME Inv, NEW e \in Exporter, Finish(e) PROVE Inv'
  BY IdleStep DEF Finish

-----------------------------------------------------------------------------
(* Steps that change the store, the outbox or the ledger *)

LEMMA GrownStep ==
    ASSUME Inv, Grown(db, files, hist, db', files', hist'), StoreOK(db', hist'), TypeOK',
           version' \in Nat, files' = [c \in DOMAIN files' |-> files'[c]],
           Claim(ledger'.cycle, db', files', hist'),
           exp' = exp \/ (\E e \in Exporter : \E m : exp' = [exp EXCEPT ![e] = m]
                                                 /\ MemOK(m, db', files', hist'))
    PROVE  Inv'
<1>1. \A o \in Exporter : MemOK(exp[o], db', files', hist')
  BY MemStays DEF Inv, StoreOK
<1>2. exp' = [o \in Exporter |-> exp'[o]] /\ \A o \in Exporter : MemOK(exp'[o], db', files', hist')
  <2>1. CASE exp' = exp
    BY <1>1, <2>1 DEF Inv
  <2>2. ASSUME NEW e \in Exporter, NEW m, exp' = [exp EXCEPT ![e] = m], MemOK(m, db', files', hist')
        PROVE  exp' = [o \in Exporter |-> exp'[o]]
               /\ \A o \in Exporter : MemOK(exp'[o], db', files', hist')
    <3>1. exp' = [o \in Exporter |-> exp'[o]] /\ exp'[e] = m /\ \A o \in Exporter \ {e} : exp'[o] = exp[o]
      BY <2>2 DEF Inv
    <3> QED BY <1>1, <2>2, <3>1
  <2> QED BY <2>1, <2>2
<1> QED
  BY <1>2 DEF Inv

Pending(e) == IF exp[e].existed THEN exp[e].pending ELSE exp[e].pending + 1

LEMMA WriteIs ==
    ASSUME NEW e, Write(e)
    PROVE  exp[e].pc = "writing" /\ (Reads(e, Idle) \/ PutFile(e, Pending(e)))
BY DEF Write, At, Pending

LEMMA PutFileStep ==
    ASSUME Inv, NEW e \in Exporter, exp[e].pc = "writing", PutFile(e, Pending(e)) PROVE Inv'
<1> DEFINE c == Next_(e)
           pending == Pending(e)
           m1 == [exp[e] EXCEPT !.pc = "saving"]
           m  == [m1 EXCEPT !.pending = pending]
<1>1. /\ exp[e].pc = "writing" /\ UNCHANGED <<db, ledger, version, hist>>
      /\ exp' = [exp EXCEPT ![e] = Idle] \/ exp' = [exp EXCEPT ![e] = m]
      /\ files' = IF c \in DOMAIN files THEN files ELSE Extended(files, c, version)
  BY DEF PutFile
<1>2. /\ c = First(exp[e].rows) /\ c \in DOMAIN exp[e].rows /\ c \in 1..db.lastId
      /\ exp[e].rows[c].payload \in Reportable /\ hist.written[c] \in Reportable
  <2>1. c = First(exp[e].rows) /\ c \in DOMAIN exp[e].rows /\ c \in 1..db.lastId
    BY <1>1, HasFirst
  <2> HIDE DEF c
  <2>2. exp[e].rows[c].payload \in Reportable /\ RowsOK(exp[e].rows, db, hist)
    BY <1>1, <2>1, MineOK DEF MemOK
  <2> QED BY <2>1, <2>2 DEF RowsOK
<1> HIDE DEF c
<1>3. /\ DOMAIN files' = DOMAIN files \union {c} /\ files' = [i \in DOMAIN files' |-> files'[i]]
      /\ \A i \in DOMAIN files' : files'[i] \in 0..version
  <2>1. CASE c \in DOMAIN files
    BY <1>1, <2>1 DEF Inv, TypeOK
  <2>2. CASE c \notin DOMAIN files
    BY <1>1, <2>2 DEF Inv, TypeOK, Extended
  <2> QED BY <2>1, <2>2
<1>4. Grown(db, files, hist, db', files', hist')
  BY <1>1, <1>3, MineOK DEF Grown, Handed, Inv, StoreOK
<1>5. pending \in Nat
  BY MineOK DEF Shape, Pending
<1> HIDE DEF pending
<1>6. /\ Shape(m1) /\ m1.pc = "saving" /\ m1.ledger = exp[e].ledger
      /\ m1.anchor = exp[e].anchor /\ m1.last = exp[e].last /\ m1.rows = exp[e].rows
  BY MineOK DEF Shape, Place
<1> HIDE DEF m1
<1>7. /\ Shape(m) /\ m.pc = "saving" /\ m.ledger = exp[e].ledger
      /\ m.anchor = exp[e].anchor /\ m.last = exp[e].last /\ m.rows = exp[e].rows
  BY <1>5, <1>6 DEF Shape
<1> HIDE DEF m
<1>8. MemOK(exp[e], db', files', hist') /\ MemOK(Idle, db', files', hist')
  BY <1>4, MineOK, MemStays DEF Inv, StoreOK
<1>9. MemOK(m, db', files', hist')
  BY <1>1, <1>2, <1>3, <1>7, <1>8 DEF MemOK, Handed
<1>10. /\ \E x : exp' = [exp EXCEPT ![e] = x] /\ MemOK(x, db', files', hist')
       /\ \A o \in Exporter : exp'[o].pending \in Nat
  <2>1. ASSUME NEW x, exp' = [exp EXCEPT ![e] = x], MemOK(x, db', files', hist')
        PROVE  \A o \in Exporter : exp'[o].pending \in Nat
    BY <2>1 DEF Inv, MemOK, Shape
  <2> QED BY <1>1, <1>8, <1>9, <2>1
<1>11. TypeOK'
  BY <1>1, <1>2, <1>3, <1>10 DEF Inv, TypeOK
<1>12. Claim(ledger.cycle, db', files', hist') /\ StoreOK(db', hist') /\ version' \in Nat
  BY <1>1, <1>4, ClaimStays DEF Inv, StoreOK, TypeOK
<1> QED
  BY <1>1, <1>3, <1>4, <1>10, <1>11, <1>12, GrownStep

LEMMA WriteStep == ASSUME Inv, NEW e \in Exporter, Write(e) PROVE Inv'
  BY WriteIs, IdleStep, PutFileStep

LEMMA SaveStep == ASSUME Inv, NEW e \in Exporter, Save(e) PROVE Inv'
<1> DEFINE r    == Next_(e)
           rows == exp[e].rows
           left == Above(rows, r)
           m1   == [exp[e] EXCEPT !.pc = "exporting"]
           m    == [m1 EXCEPT !.rows = left]
<1>1. /\ exp[e].pc = "saving" /\ UNCHANGED <<db, files, version, hist>>
      /\ exp' = [exp EXCEPT ![e] = m]
      /\ ledger' = [exists |-> TRUE, cycle |-> r, hash |-> rows[r].hash]
  BY DEF Save, At, NextRow, Saved
<1>2. /\ r = First(rows) /\ r \in DOMAIN rows /\ r \in 1..db.lastId
      /\ \A c \in DOMAIN rows : r <= c
  BY <1>1, HasFirst
<1>3. /\ RowsOK(rows, db, hist) /\ Passed(rows, db, files, hist)
      /\ rows[r].payload \in Reportable => Handed(r, files, hist)
  BY <1>1, <1>2, MineOK DEF MemOK
<1>4. /\ DOMAIN left = {c \in DOMAIN rows : c > r} /\ left = [c \in DOMAIN left |-> left[c]]
      /\ \A c \in DOMAIN left : left[c] = rows[c]
  BY DEF Above
<1>5. DOMAIN db.chain \subseteq 1..db.lastId /\ db.lastId \in Nat /\ DOMAIN rows \subseteq 1..db.lastId
  BY <1>3, RowsAreIds, MineOK DEF Inv, StoreOK, RowsOK
<1> HIDE DEF r, rows, left
<1>6. ASSUME NEW c \in DOMAIN db.chain, db.chain[c].payload \in Reportable, c <= r
      PROVE  Handed(c, files, hist)
  <2>1. CASE c = r
    BY <1>2, <1>3, <1>6, <2>1 DEF RowsOK
  <2>2. CASE c # r
    <3>1. c < r /\ c \notin DOMAIN rows
      BY <1>2, <1>5, <1>6, <2>2
    <3> QED BY <1>2, <1>3, <1>6, <3>1 DEF Passed
  <2> QED BY <2>1, <2>2
<1>7. RowsOK(left, db, hist)
  BY <1>3, <1>4 DEF RowsOK
<1>8. Passed(left, db, files, hist)
  <2> SUFFICES ASSUME NEW n \in DOMAIN left, NEW c \in DOMAIN db.chain, c < n,
                      c \notin DOMAIN left, db.chain[c].payload \in Reportable
               PROVE  Handed(c, files, hist)
    BY DEF Passed
  <2>1. CASE c \in DOMAIN rows
    <3>1. c <= r
      BY <1>2, <1>4, <1>5, <2>1
    <3> QED BY <1>6, <3>1
  <2>2. CASE c \notin DOMAIN rows
    BY <1>3, <1>4, <2>2 DEF Passed
  <2> QED BY <2>1, <2>2
<1>9. /\ Shape(m1) /\ m1.pc = "exporting" /\ m1.ledger = exp[e].ledger
      /\ m1.anchor = exp[e].anchor /\ m1.last = exp[e].last /\ m1.pending = exp[e].pending
  BY MineOK DEF Shape, Place
<1> HIDE DEF m1
<1>10. /\ Shape(m) /\ m.pc = "exporting" /\ m.ledger = exp[e].ledger
       /\ m.anchor = exp[e].anchor /\ m.last = exp[e].last /\ m.rows = left
       /\ m.pending = exp[e].pending
  BY <1>9 DEF Shape
<1> HIDE DEF m
<1>11. MemOK(m, db, files, hist)
  BY <1>1, <1>7, <1>8, <1>10, MineOK DEF MemOK
<1>12. /\ ledger'.exists \in BOOLEAN /\ ledger'.cycle \in 0..db.lastId
       /\ ledger'.cycle \in DOMAIN db.chain => ledger'.hash = db.chain[ledger'.cycle].hash
       /\ Claim(ledger'.cycle, db, files, hist)
  BY <1>1, <1>2, <1>3, <1>6 DEF RowsOK, Claim
<1>13. \A o \in Exporter : exp'[o].pending \in Nat
  BY <1>1, <1>10 DEF Inv, TypeOK, Shape
<1>14. TypeOK'
  BY <1>1, <1>12, <1>13 DEF Inv, TypeOK
<1>15. Grown(db, files, hist, db', files', hist') /\ StoreOK(db', hist')
  <2>1. db' = db /\ files' = files /\ hist' = hist
    BY <1>1
  <2>2. StoreOK(db, hist) /\ DbInv(db)
    BY DEF Inv, StoreOK
  <2>3. StoreOK(db', hist')
    BY <2>1, <2>2
  <2>4. Grown(db, files, hist, db, files, hist)
    BY <2>2, MineOK DEF Grown
  <2> QED BY <2>1, <2>3, <2>4
<1>16. files' = [c \in DOMAIN files' |-> files'[c]] /\ version' \in Nat
  BY <1>1 DEF Inv
<1> QED
  BY <1>1, <1>11, <1>12, <1>14, <1>15, <1>16, GrownStep

LEMMA CrashStep == ASSUME Inv, NEW e \in Exporter, Crash(e) PROVE Inv'
<1>1. /\ exp' = [exp EXCEPT ![e] = Idle] /\ UNCHANGED <<db, ledger, files, version>>
      /\ hist' = [hist EXCEPT !.crashes = @ + 1]
  BY DEF Crash
<1>2. /\ hist'.written = hist.written /\ hist'.delivered = hist.delivered
      /\ hist' \in [written : {hist'.written}, delivered : [1..MaxId -> Nat], crashes : {hist'.crashes}]
  BY <1>1 DEF Inv, StoreOK
<1>3. StoreOK(db', hist')
  BY <1>1, <1>2 DEF Inv, StoreOK
<1>4. Grown(db, files, hist, db', files', hist')
  BY <1>1, <1>2, MineOK DEF Grown, Handed, Inv, StoreOK
<1>5. MemOK(Idle, db', files', hist')
  BY <1>4, MineOK, MemStays DEF Inv, StoreOK
<1>6. \A o \in Exporter : exp'[o].pending \in Nat
  BY <1>1 DEF Inv, TypeOK, Idle
<1>7. TypeOK'
  BY <1>1, <1>2, <1>6 DEF Inv, TypeOK
<1>8. Claim(ledger'.cycle, db', files', hist')
  BY <1>1, <1>4, ClaimStays DEF Inv, StoreOK, TypeOK
<1>9. files' = [c \in DOMAIN files' |-> files'[c]] /\ version' \in Nat
  BY <1>1 DEF Inv
<1> QED
  BY <1>1, <1>3, <1>4, <1>5, <1>7, <1>8, <1>9, GrownStep

LEMMA UpgradeStep == ASSUME Inv, Upgrade PROVE Inv'
<1>1. version' = version + 1 /\ UNCHANGED <<db, ledger, files, exp, hist>>
  BY DEF Upgrade
<1>2. TypeOK'
  BY <1>1 DEF Inv, TypeOK
<1> QED
  BY <1>1, <1>2 DEF Inv

LEMMA CommitStep == ASSUME Inv, NEW p \in Payload, Commit(p) PROVE Inv'
<1> DEFINE a == Appended(db, p, NoKey)
           d == Pruned(a, {})
           n == db.lastId + 1
<1>1. /\ db' = d /\ hist' = [hist EXCEPT !.written = Extended(@, n, p)]
      /\ UNCHANGED <<ledger, files, exp, version>> /\ db.lastId < MaxId
  BY DEF Commit
<1>2. /\ DbInv(db) /\ db.lastId \in Nat /\ db.anchor.cycle \in Nat
      /\ DOMAIN db.chain = Retained(db)
  BY MineOK DEF Inv, StoreOK, DbInv
<1>3. /\ DbInv(a) /\ a.lastId = n /\ a.anchor = db.anchor /\ a.chain[n].payload = p
      /\ \A c \in Retained(db) : a.chain[c] = db.chain[c]
      /\ DOMAIN a.chain = Retained(db) \union {n}
  <2>1. /\ DbInv(a) /\ a.lastId = n /\ a.anchor = db.anchor /\ a.chain[n].payload = p
        /\ a.chain = [i \in Retained(db) \cup {n} |-> IF i = n THEN a.chain[i] ELSE db.chain[i]]
    BY <1>2, AppendKeepsInv
  <2>2. n \notin Retained(db)
    BY <1>2 DEF Retained
  <2> HIDE DEF a, n
  <2> QED BY <2>1, <2>2
<1>4. /\ DbInv(d) /\ d.lastId = n /\ d.anchor.cycle \in db.anchor.cycle..n
      /\ \A c \in Retained(d) : d.chain[c] = a.chain[c]
      /\ DOMAIN d.chain = Retained(d)
  <2> HIDE DEF a
  <2>1. {} \in {{}} \cup {{i} : i \in a.cycles}
    OBVIOUS
  <2>2. /\ DbInv(d) /\ d.lastId = a.lastId /\ d.anchor.cycle \in a.anchor.cycle..a.lastId
        /\ \A c \in Retained(d) : d.chain[c] = a.chain[c]
    BY <1>3, <2>1, PruneKeepsInv
  <2> QED BY <1>3, <2>2 DEF DbInv
<1> HIDE DEF a, d
<1>5. ASSUME NEW c \in DOMAIN d.chain
      PROVE  c \in DOMAIN a.chain /\ d.chain[c] = a.chain[c] /\ c \in 1..n
  BY <1>2, <1>3, <1>4 DEF Retained
<1>6. ASSUME NEW c \in DOMAIN d.chain, c <= db.lastId
      PROVE  c \in DOMAIN db.chain /\ d.chain[c] = db.chain[c]
  BY <1>2, <1>3, <1>5, <1>6
<1>7. /\ hist'.written = Extended(hist.written, n, p) /\ hist'.delivered = hist.delivered
      /\ hist' \in [written : {hist'.written}, delivered : [1..MaxId -> Nat], crashes : {hist'.crashes}]
  BY <1>1 DEF Inv, StoreOK
<1>8. /\ hist'.written = [c \in 1..n |-> hist'.written[c]] /\ hist'.written[n] = p
      /\ \A c \in 1..db.lastId : hist'.written[c] = hist.written[c]
  <2>1. DOMAIN hist.written = 1..db.lastId
    BY DEF Inv, StoreOK
  <2>2. 1..n = 1..db.lastId \union {n} /\ n \notin 1..db.lastId
    BY <1>2
  <2> QED BY <1>7, <2>1, <2>2 DEF Extended
<1>9. \A c \in DOMAIN d.chain : d.chain[c].payload = hist'.written[c]
  <2> TAKE c \in DOMAIN d.chain
  <2>1. CASE c = n
    BY <1>3, <1>5, <1>8, <2>1
  <2>2. CASE c # n
    <3>1. c <= db.lastId /\ c \in 1..db.lastId
      BY <1>2, <1>5, <2>2
    <3> QED BY <1>6, <1>8, <3>1 DEF Inv, StoreOK
  <2> QED BY <2>1, <2>2
<1>10. StoreOK(db', hist')
  <2>1. d.lastId <= MaxId
    BY <1>1, <1>2, <1>4, NumbersOK
  <2> QED BY <1>1, <1>4, <1>7, <1>8, <1>9, <2>1 DEF StoreOK
<1>11. Grown(db, files, hist, db', files', hist')
  BY <1>1, <1>2, <1>4, <1>6, <1>7, <1>8 DEF Grown, Handed
<1>12. Claim(ledger'.cycle, db', files', hist')
  BY <1>1, <1>2, <1>11, ClaimStays DEF Inv, TypeOK
<1>13. TypeOK'
  <2>1. ledger'.cycle \in 0..db'.lastId
    BY <1>1, <1>2, <1>4 DEF Inv, TypeOK
  <2>2. ledger'.cycle \in DOMAIN db'.chain => ledger'.hash = db'.chain[ledger'.cycle].hash
    BY <1>1, <1>2, <1>6 DEF Inv, TypeOK
  <2>3. DOMAIN files' \subseteq {c \in 1..db'.lastId : hist'.written[c] \in Reportable}
    BY <1>1, <1>2, <1>4, <1>8 DEF Inv, TypeOK
  <2> QED BY <1>1, <2>1, <2>2, <2>3 DEF Inv, TypeOK
<1>14. files' = [c \in DOMAIN files' |-> files'[c]] /\ version' \in Nat /\ exp' = exp
  BY <1>1 DEF Inv
<1> QED
  BY <1>10, <1>11, <1>12, <1>13, <1>14, GrownStep

LEMMA IngestStep == ASSUME Inv, NEW c \in DOMAIN files, Ingest(c) PROVE Inv'
<1>1. /\ files' = [f \in DOMAIN files \ {c} |-> files[f]]
      /\ hist' = [hist EXCEPT !.delivered[c] = @ + 1]
      /\ UNCHANGED <<db, ledger, exp, version>>
  BY DEF Ingest
<1>2. c \in 1..MaxId /\ c \in 1..db.lastId
  <2>1. DOMAIN files \subseteq 1..db.lastId
    BY DEF Inv, TypeOK
  <2> QED BY <2>1, NumbersOK
<1>3. /\ hist'.written = hist.written /\ hist'.delivered = [hist.delivered EXCEPT ![c] = @ + 1]
      /\ hist' \in [written : {hist'.written}, delivered : [1..MaxId -> Nat], crashes : {hist'.crashes}]
  <2> DEFINE old == hist.delivered
             delivered == [old EXCEPT ![c] = @ + 1]
  <2>1. hist' = [hist EXCEPT !.delivered = delivered]
    BY <1>1
  <2>2. delivered \in [1..MaxId -> Nat]
    <3>1. old \in [1..MaxId -> Nat]
      BY DEF Inv, StoreOK
    <3> HIDE DEF old
    <3>2. old[c] + 1 \in Nat
      BY <1>2, <3>1
    <3> QED BY <3>1, <3>2
  <2> HIDE DEF delivered
  <2>3. /\ hist'.written = hist.written /\ hist'.delivered = delivered
        /\ hist' \in [written : {hist'.written}, delivered : [1..MaxId -> Nat], crashes : {hist'.crashes}]
    BY <2>1, <2>2 DEF Inv, StoreOK
  <2> QED BY <2>3 DEF delivered
<1>4. StoreOK(db', hist')
  BY <1>1, <1>3 DEF Inv, StoreOK
<1>5. \A n \in 1..db.lastId : Handed(n, files, hist) => Handed(n, files', hist')
  <2> SUFFICES ASSUME NEW n \in 1..db.lastId, Handed(n, files, hist)
               PROVE  Handed(n, files', hist')
    OBVIOUS
  <2>1. hist.delivered \in [1..MaxId -> Nat] /\ n \in 1..MaxId
    BY NumbersOK DEF Inv, StoreOK
  <2>2. CASE n = c
    <3>1. hist'.delivered[c] = hist.delivered[c] + 1 /\ hist.delivered[c] \in Nat
      BY <1>2, <1>3, <2>1
    <3> QED BY <2>2, <3>1 DEF Handed
  <2>3. CASE n # c
    BY <1>1, <1>2, <1>3, <2>1, <2>3 DEF Handed
  <2> QED BY <2>2, <2>3
<1>6. Grown(db, files, hist, db', files', hist')
  <2>1. DbInv(db') /\ db' = db
    BY <1>1, NumbersOK
  <2>2. db.anchor.cycle \in Nat /\ db.lastId \in Nat
    BY NumbersOK DEF DbInv
  <2> QED BY <1>3, <1>5, <2>1, <2>2 DEF Grown
<1>7. Claim(ledger'.cycle, db', files', hist')
  BY <1>1, <1>6, ClaimStays DEF Inv, StoreOK, TypeOK
<1>8. TypeOK'
  BY <1>1, <1>3 DEF Inv, TypeOK
<1>9. files' = [f \in DOMAIN files' |-> files'[f]] /\ version' \in Nat /\ exp' = exp
  BY <1>1 DEF Inv
<1> QED
  BY <1>4, <1>6, <1>7, <1>8, <1>9, GrownStep

LEMMA StepInv == Inv /\ [Next]_vars => Inv'
<1> SUFFICES ASSUME Inv, [Next]_vars PROVE Inv'
  OBVIOUS
<1>1. ASSUME NEW e \in Exporter, Export(e) PROVE Inv'
  BY <1>1, LoadStep, ReadAnchorCycleStep, ReadAnchorHashStep, VerifyRowsStep, ResolveStep,
     OpenRowsStep, AdmitStep, WriteStep, SaveStep, FinishStep DEF Export
<1>2. CASE UNCHANGED vars
  BY <1>2 DEF vars, Inv, TypeOK
<1> QED
  BY <1>1, <1>2, CrashStep, UpgradeStep, CommitStep, IngestStep DEF Next

LEMMA SpecInv == Spec => []Inv
  BY InitInv, StepInv, PTL DEF Spec

(* The ledger names a retained cycle by its hash and the outbox holds      *)
(* committed cycles with findings only, for any number of exporters.       *)
THEOREM OutboxTypes == Spec => []TypeOK
<1>1. Inv => TypeOK
  BY DEF Inv
<1> QED
  BY <1>1, SpecInv, PTL

(* "The exporter fails closed rather than silently dropping findings"       *)
(* (docs/V06_RESPONSE_HANDOFF.md), for any number of exporters, cycles,     *)
(* crashes and upgrades, any max_cycles and any limit of pending files.     *)
THEOREM NothingIsPassedOver == Spec => []RetainedFindingsAreHandedOver
<1>1. Inv => RetainedFindingsAreHandedOver
  BY DEF Inv, Claim, Handed, RetainedFindingsAreHandedOver, HandedOver
<1> QED
  BY <1>1, SpecInv, PTL

-----------------------------------------------------------------------------
(* A single exporter's count *)

Size == Cardinality(DOMAIN files)

(* The exporter counts at least the files there are, and a file that was *)
(* there when it was admitted is among them or has been taken away.      *)
Within(m) ==
    /\ Size <= MaxPending
    /\ m.pc # "idle" => Size <= m.pending /\ m.pending <= MaxPending
    /\ m.pc = "writing" /\ ~m.existed => m.pending < MaxPending
    /\ m.pc = "writing" /\ m.existed /\ First(m.rows) \notin DOMAIN files => Size < m.pending

LEMMA FilesAreFinite == ASSUME Inv PROVE IsFiniteSet(DOMAIN files) /\ Size \in Nat
<1>1. DOMAIN files \subseteq 1..db.lastId /\ db.lastId \in Nat
  BY NumbersOK DEF Inv, TypeOK
<1>2. IsFiniteSet(1..db.lastId)
  BY <1>1, FS_Interval
<1> QED BY <1>1, <1>2, FS_Subset, FS_CardinalityType DEF Size

(* A step that leaves the outbox and the count alone and is not an admission. *)
LEMMA SameCount ==
    ASSUME NEW e, Within(exp[e]), UNCHANGED files,
           \/ exp'[e].pc = "idle"
           \/ exp'[e].pc # "writing" /\ exp[e].pc # "idle" /\ exp'[e].pending = exp[e].pending
    PROVE  Within(exp[e])'
BY DEF Within, Size

LEMMA WithinStep ==
    ASSUME NEW e, Exporter = {e}, Inv, Within(exp[e]), [Next]_vars
    PROVE  Within(exp[e])'
<1>1. e \in Exporter /\ Shape(exp[e]) /\ DOMAIN exp = Exporter /\ Idle.pc = "idle"
  BY MineOK DEF Inv, Idle
<1>2. IsFiniteSet(DOMAIN files) /\ Size \in Nat /\ MaxPending \in Nat /\ exp[e].pending \in Nat
  BY <1>1, FilesAreFinite, OutboxAssumption DEF Shape
<1>3. CASE Load(e)
  <2>1. exp'[e] = [Idle EXCEPT !.pc = "loaded", !.ledger = ledger, !.pending = Size] /\ files' = files
    BY <1>1, <1>3 DEF Load, Reads, Size
  <2>2. exp'[e].pc = "loaded" /\ exp'[e].pending = Size
    BY <2>1 DEF Idle
  <2> QED BY <1>2, <2>1, <2>2 DEF Within, Size
<1>4. CASE ReadAnchorCycle(e) \/ ReadAnchorHash(e) \/ VerifyRows(e) \/ Resolve(e) \/ OpenRows(e)
  <2>1. UNCHANGED files /\ exp[e].pc # "idle"
    BY <1>4 DEF ReadAnchorCycle, ReadAnchorHash, VerifyRows, Resolve, OpenRows, ReadsIf, Reads, At
  <2>2. \/ exp'[e].pc = "idle"
        \/ exp'[e].pc # "writing" /\ exp'[e].pending = exp[e].pending
    <3>1. CASE ReadAnchorCycle(e)
      BY <1>1, <3>1 DEF ReadAnchorCycle, Reads, Shape
    <3>2. CASE ReadAnchorHash(e)
      BY <1>1, <3>2 DEF ReadAnchorHash, ReadsIf, Reads, Shape
    <3>3. CASE VerifyRows(e)
      BY <1>1, <3>3 DEF VerifyRows, ReadsIf, Reads, Shape
    <3>4. CASE Resolve(e)
      <4>1. PICK m \in {Idle, [exp[e] EXCEPT !.pc = "resolved", !.last = exp[e].ledger.cycle],
                        [exp[e] EXCEPT !.pc = "resolved", !.last = exp[e].anchor]} :
                exp' = [exp EXCEPT ![e] = m]
        BY <3>4 DEF Resolve, ReadsIf, Reads
      <4>2. m.pc = "idle" \/ (m.pc = "resolved" /\ m.pending = exp[e].pending)
        BY <1>1, <4>1 DEF Shape
      <4> QED BY <1>1, <4>1, <4>2
    <3>5. CASE OpenRows(e)
      BY <1>1, <3>5 DEF OpenRows, Reads, Shape
    <3> QED BY <1>4, <3>1, <3>2, <3>3, <3>4, <3>5
  <2> QED BY <2>1, <2>2, SameCount
<1>5. CASE Admit(e)
  <2>1. UNCHANGED files /\ exp[e].pc = "exporting" /\ Next_(e) = First(exp[e].rows)
    BY <1>1, <1>5, HasFirst DEF Admit, HasRows, ReadsIf, Reads, At
  <2>2. CASE exp' = [exp EXCEPT ![e] = ToWrite(e)] /\ ~Full(e)
    <3>1. /\ exp'[e].pc = "writing" /\ exp'[e].pending = exp[e].pending /\ exp'[e].rows = exp[e].rows
          /\ exp'[e].existed <=> Next_(e) \in DOMAIN files
      BY <1>1, <2>2 DEF ToWrite, Shape
    <3>2. /\ Size <= exp[e].pending /\ exp[e].pending <= MaxPending /\ Size <= MaxPending
          /\ Size' = Size
      BY <2>1 DEF Within, Size
    <3>3. Next_(e) \in DOMAIN files \/ exp[e].pending < MaxPending
      BY <1>2, <2>2 DEF Full
    <3>4. First(exp'[e].rows) = Next_(e) /\ DOMAIN files' = DOMAIN files
      BY <2>1, <3>1
    <3> QED BY <3>1, <3>2, <3>3, <3>4 DEF Within
  <2>3. CASE exp' = [exp EXCEPT ![e] = Idle] \/ exp' = [exp EXCEPT ![e] = [exp[e] EXCEPT !.pc = "saving"]]
    <3>1. \/ exp'[e].pc = "idle"
          \/ exp'[e].pc # "writing" /\ exp'[e].pending = exp[e].pending
      BY <1>1, <2>3 DEF Shape
    <3> QED BY <2>1, <3>1, SameCount
  <2> QED BY <1>5, <2>2, <2>3 DEF Admit, ReadsIf, Reads
<1>6. CASE Write(e) /\ Reads(e, Idle)
  <2>1. UNCHANGED files /\ exp'[e].pc = "idle"
    BY <1>1, <1>6 DEF Reads
  <2> QED BY <2>1, SameCount
<1>11. CASE Write(e) /\ PutFile(e, Pending(e))
  <2> DEFINE c == Next_(e)
  <2>1. c = First(exp[e].rows) /\ exp[e].pc = "writing"
    BY <1>1, <1>11, HasFirst, WriteIs
  <2>2. CASE c \in DOMAIN files
    <3>1. UNCHANGED files
      BY <1>11, <2>2 DEF PutFile
    <3>2. \/ exp'[e].pc = "idle"
          \/ /\ exp'[e].pc = "saving"
             /\ exp'[e].pending = IF exp[e].existed THEN exp[e].pending ELSE exp[e].pending + 1
      BY <1>1, <1>11 DEF PutFile, Pending, Shape
    <3> QED BY <1>2, <2>1, <3>1, <3>2 DEF Within, Size
  <2>3. CASE c \notin DOMAIN files
    <3>1. DOMAIN files' = DOMAIN files \union {c}
      BY <1>11, <2>3 DEF PutFile, Extended
    <3>2. Size' = Size + 1
      BY <1>2, <2>3, <3>1, FS_AddElement DEF Size
    <3>3. /\ exp'[e].pc = "saving"
          /\ exp'[e].pending = IF exp[e].existed THEN exp[e].pending ELSE exp[e].pending + 1
      BY <1>1, <1>11, <2>3 DEF PutFile, Pending, Changed, Shape
    <3> QED BY <1>2, <2>1, <2>3, <3>2, <3>3 DEF Within
  <2> QED BY <2>2, <2>3
<1>7. CASE Save(e)
  <2>1. /\ UNCHANGED files /\ exp[e].pc = "saving"
        /\ exp'[e].pc = "exporting" /\ exp'[e].pending = exp[e].pending
    BY <1>1, <1>7 DEF Save, NextRow, At, Shape
  <2> QED BY <2>1, SameCount
<1>8. CASE Finish(e) \/ Crash(e)
  <2>1. UNCHANGED files /\ exp'[e].pc = "idle"
    BY <1>1, <1>8 DEF Finish, Crash, Reads
  <2> QED BY <2>1, SameCount
<1>9. CASE Upgrade \/ (\E p \in Payload : Commit(p)) \/ UNCHANGED vars
  <2>1. UNCHANGED <<files, exp>>
    BY <1>9 DEF Upgrade, Commit, vars
  <2> QED BY <2>1 DEF Within, Size
<1>10. ASSUME NEW c \in DOMAIN files, Ingest(c) PROVE Within(exp[e])'
  <2>1. DOMAIN files' = DOMAIN files \ {c} /\ exp' = exp
    BY <1>10 DEF Ingest
  <2>2. Size' = Size - 1
    BY <1>2, <2>1, FS_RemoveElement DEF Size
  <2> QED BY <1>2, <2>1, <2>2 DEF Within
<1> QED
  BY <1>3, <1>4, <1>5, <1>6, <1>7, <1>8, <1>9, <1>10, <1>11, WriteIs DEF Next, Export

(* "Backpressure is bounded" (docs/V06_RESPONSE_HANDOFF.md): with a single  *)
(* exporter, for any limit, number of cycles, crashes and upgrades.         *)
THEOREM OneExporterIsBounded ==
    ASSUME NEW e, Exporter = {e}
    PROVE  Spec => []PendingIsBounded
<1>1. Init => Within(exp[e])
  <2> SUFFICES ASSUME Init PROVE Within(exp[e])
    OBVIOUS
  <2>1. exp[e].pc = "idle" /\ DOMAIN files = {}
    BY DEF Init, Idle, EmptyTable
  <2> QED BY <2>1, FS_EmptySet, OutboxAssumption DEF Within, Size
<1>2. Inv /\ Within(exp[e]) /\ [Next]_vars => Within(exp[e])'
  BY WithinStep
<1>3. Within(exp[e]) => PendingIsBounded
  BY DEF Within, Size, PendingIsBounded
<1> QED
  BY <1>1, <1>2, <1>3, SpecInv, PTL DEF Spec

-----------------------------------------------------------------------------
(* A single exporter's repetitions *)

(* A cursor holds only rows that the ledger has not passed. *)
Ahead(m) ==
    /\ ~ledger.exists => ledger.cycle = 0
    /\ m.pc \in {"loaded", "anchored", "verifying", "verified"} => m.ledger = ledger
    /\ m.pc = "resolved" => ledger.cycle <= m.last
    /\ m.pc \in {"exporting", "writing", "saving"} => \A c \in DOMAIN m.rows : ledger.cycle < c

(* What a crash has to pay for: the copies beyond the first, and the first *)
(* copy of a cycle that the ledger has not passed, since there will be     *)
(* another one ...                                                         *)
Debts ==
    {d \in (1..MaxId) \X Nat :
        /\ 1 <= d[2] /\ d[2] <= Copies(d[1])
        /\ 2 <= d[2] \/ ledger.cycle < d[1]}

(* ... unless the exporter is about to save the ledger. *)
Saving(m) == m.pc = "saving" /\ m.rows[First(m.rows)].payload \in Reportable

Paid(m) ==
    /\ hist.crashes \in Nat
    /\ IsFiniteSet(Debts)
    /\ Cardinality(Debts) <= hist.crashes + (IF Saving(m) THEN 1 ELSE 0)

LEMMA CopiesOK ==
    ASSUME Inv, NEW c \in 1..MaxId
    PROVE  /\ hist.delivered[c] \in Nat /\ Copies(c) \in Nat
           /\ c \in DOMAIN files => Copies(c) = hist.delivered[c] + 1
           /\ c \notin DOMAIN files => Copies(c) = hist.delivered[c]
           /\ Handed(c, files, hist) => 1 <= Copies(c)
<1>1. hist.delivered \in [1..MaxId -> Nat]
  BY DEF Inv, StoreOK
<1>2. hist.delivered[c] \in Nat
  BY <1>1
<1>3. c \in DOMAIN files => Copies(c) = hist.delivered[c] + 1
  BY DEF Copies
<1>4. c \notin DOMAIN files => Copies(c) = hist.delivered[c]
  BY <1>2 DEF Copies
<1> QED BY <1>2, <1>3, <1>4 DEF Handed

LEMMA AheadStep ==
    ASSUME NEW e, Exporter = {e}, Inv, Ahead(exp[e]), [Next]_vars
    PROVE  Ahead(exp[e])'
<1>1. e \in Exporter /\ Shape(exp[e]) /\ DOMAIN exp = Exporter /\ Idle.pc = "idle"
  BY MineOK DEF Inv, Idle
<1>2. ledger.cycle \in Nat
  BY NumbersOK DEF Inv, TypeOK
<1>3. CASE Load(e)
  <2>1. exp'[e] = [Idle EXCEPT !.pc = "loaded", !.ledger = ledger, !.pending = Size] /\ ledger' = ledger
    BY <1>1, <1>3 DEF Load, Reads, Size
  <2>2. exp'[e].pc = "loaded" /\ exp'[e].ledger = ledger
    BY <2>1 DEF Idle
  <2> QED BY <2>1, <2>2 DEF Ahead
<1>4. CASE ReadAnchorCycle(e) \/ ReadAnchorHash(e) \/ VerifyRows(e)
  <2>1. ledger' = ledger /\ exp[e].ledger = ledger
    BY <1>4 DEF ReadAnchorCycle, ReadAnchorHash, VerifyRows, ReadsIf, Reads, At, Ahead
  <2>2. \/ exp'[e].pc = "idle"
        \/ exp'[e].pc \in {"anchored", "verifying", "verified"} /\ exp'[e].ledger = exp[e].ledger
    <3>1. CASE ReadAnchorCycle(e)
      BY <1>1, <3>1 DEF ReadAnchorCycle, Reads, Shape
    <3>2. CASE ReadAnchorHash(e)
      BY <1>1, <3>2 DEF ReadAnchorHash, ReadsIf, Reads, Shape
    <3>3. CASE VerifyRows(e)
      BY <1>1, <3>3 DEF VerifyRows, ReadsIf, Reads, Shape
    <3> QED BY <1>4, <3>1, <3>2, <3>3
  <2> QED BY <2>1, <2>2 DEF Ahead
<1>5. CASE Resolve(e)
  <2>1. ledger' = ledger /\ exp[e].ledger = ledger /\ exp[e].anchor \in Nat
    BY <1>1, <1>5 DEF Resolve, ReadsIf, Reads, At, Ahead, Shape
  <2>2. CASE exp' = [exp EXCEPT ![e] = Idle]
    BY <1>1, <2>1, <2>2 DEF Ahead
  <2>3. CASE exp' = [exp EXCEPT ![e] = [exp[e] EXCEPT !.pc = "resolved", !.last = exp[e].ledger.cycle]]
    <3>1. exp'[e].pc = "resolved" /\ exp'[e].last = ledger.cycle
      BY <1>1, <2>1, <2>3 DEF Shape
    <3> QED BY <1>2, <2>1, <3>1 DEF Ahead
  <2>4. CASE /\ ~ledger.exists
             /\ exp' = [exp EXCEPT ![e] = [exp[e] EXCEPT !.pc = "resolved", !.last = exp[e].anchor]]
    <3>1. exp'[e].pc = "resolved" /\ exp'[e].last = exp[e].anchor /\ ledger.cycle = 0
      BY <1>1, <2>4 DEF Shape, Ahead
    <3> QED BY <2>1, <3>1 DEF Ahead
  <2> QED BY <1>5, <2>1, <2>2, <2>3, <2>4 DEF Resolve, ReadsIf, Reads
<1>6. CASE OpenRows(e)
  <2>1. ledger' = ledger /\ ledger.cycle <= exp[e].last /\ exp[e].last \in Nat
    BY <1>1, <1>6 DEF OpenRows, Reads, At, Ahead, Shape
  <2>2. exp'[e].pc = "exporting" /\ exp'[e].rows = Above(db.chain, exp[e].last)
    BY <1>1, <1>6 DEF OpenRows, Reads, Shape
  <2>3. \A c \in DOMAIN Above(db.chain, exp[e].last) : c \in Nat /\ exp[e].last < c
    BY RowsAreIds, NumbersOK DEF Above
  <2> QED BY <1>2, <2>1, <2>2, <2>3 DEF Ahead
<1>7. CASE Admit(e) \/ Write(e) \/ Finish(e) \/ Crash(e)
  <2>1. ledger' = ledger
    BY <1>7, WriteIs DEF Admit, PutFile, Finish, Crash, ReadsIf, Reads
  <2>2. \/ exp'[e].pc = "idle"
        \/ /\ exp[e].pc \in {"exporting", "writing"}
           /\ exp'[e].pc \in {"writing", "saving"} /\ exp'[e].rows = exp[e].rows
    <3>1. CASE Admit(e)
      <4>1. PICK m \in {Idle, ToWrite(e), [exp[e] EXCEPT !.pc = "saving"]} : exp' = [exp EXCEPT ![e] = m]
        BY <3>1 DEF Admit, ReadsIf, Reads
      <4>2. exp[e].pc = "exporting"
        BY <3>1 DEF Admit, HasRows, At
      <4>3. m.pc = "idle" \/ (m.pc \in {"writing", "saving"} /\ m.rows = exp[e].rows)
        BY <1>1, <4>1 DEF ToWrite, Shape
      <4> QED BY <1>1, <4>1, <4>2, <4>3
    <3>2. CASE Write(e)
      <4>1. CASE Reads(e, Idle)
        BY <1>1, <4>1 DEF Reads
      <4>2. CASE PutFile(e, Pending(e))
        BY <1>1, <3>2, <4>2, WriteIs DEF PutFile, Shape
      <4> QED BY <3>2, <4>1, <4>2, WriteIs
    <3>3. CASE Finish(e) \/ Crash(e)
      BY <1>1, <3>3 DEF Finish, Crash, Reads
    <3> QED BY <1>7, <3>1, <3>2, <3>3
  <2> QED BY <2>1, <2>2 DEF Ahead
<1>8. CASE Save(e)
  <2> DEFINE c == Next_(e)
  <2>2. ledger'.exists /\ ledger'.cycle = c
    BY <1>8 DEF Save, Saved
  <2>3. exp'[e].pc = "exporting" /\ exp'[e].rows = Above(exp[e].rows, c)
    BY <1>1, <1>8 DEF Save, NextRow, Shape
  <2>4. \A x \in DOMAIN Above(exp[e].rows, c) : c < x
    BY DEF Above
  <2> QED BY <2>2, <2>3, <2>4 DEF Ahead
<1>9. CASE UNCHANGED <<exp, ledger>>
  BY <1>9 DEF Ahead
<1>10. Upgrade \/ (\E p \in Payload : Commit(p)) \/ (\E c \in DOMAIN files : Ingest(c)) \/ UNCHANGED vars
         => UNCHANGED <<exp, ledger>>
  BY DEF Upgrade, Commit, Ingest, vars
<1> QED
  BY <1>3, <1>4, <1>5, <1>6, <1>7, <1>8, <1>9, <1>10 DEF Next, Export

(* A step that hands nothing over and leaves the ledger. *)
LEMMA SameDebts ==
    ASSUME NEW e, Paid(exp[e]), ledger' = ledger, hist'.crashes = hist.crashes,
           \A c \in 1..MaxId : Copies(c)' = Copies(c),
           ~Saving(exp[e]) \/ exp' = exp
    PROVE  Paid(exp[e])'
<1>1. Debts' = Debts
  BY DEF Debts
<1>2. Saving(exp[e]) => Saving(exp[e])'
  BY DEF Saving
<1>3. Cardinality(Debts) \in Nat
  BY FS_CardinalityType DEF Paid
<1> QED BY <1>1, <1>2, <1>3 DEF Paid

LEMMA PaidStep ==
    ASSUME NEW e, Exporter = {e}, Inv, Ahead(exp[e]), Paid(exp[e]), [Next]_vars
    PROVE  Paid(exp[e])'
<1>1. e \in Exporter /\ Shape(exp[e]) /\ DOMAIN exp = Exporter /\ Idle.pc = "idle"
  BY MineOK DEF Inv, Idle
<1>2. /\ hist.delivered \in [1..MaxId -> Nat]
      /\ IsFiniteSet(Debts) /\ Cardinality(Debts) \in Nat /\ hist.crashes \in Nat
  BY FS_CardinalityType DEF Inv, StoreOK, Paid
<1>3. \A c \in 1..MaxId : Copies(c) \in Nat
  BY CopiesOK
<1>4. ASSUME \/ Load(e) \/ ReadAnchorCycle(e) \/ ReadAnchorHash(e) \/ VerifyRows(e)
             \/ Resolve(e) \/ OpenRows(e) \/ Admit(e) \/ Finish(e)
             \/ (Write(e) /\ Reads(e, Idle))
      PROVE  Paid(exp[e])'
  <2>1. ~Saving(exp[e])
    BY <1>4 DEF Load, ReadAnchorCycle, ReadAnchorHash, VerifyRows, Resolve, OpenRows, Admit, HasRows,
       Finish, Write, At, Saving
  <2>2. UNCHANGED <<ledger, files, hist>>
    BY <1>4 DEF Load, ReadAnchorCycle, ReadAnchorHash, VerifyRows, Resolve, OpenRows, Admit,
       Finish, ReadsIf, Reads
  <2>3. \A c \in 1..MaxId : Copies(c)' = Copies(c)
    BY <2>2 DEF Copies
  <2> QED BY <2>1, <2>2, <2>3, SameDebts
<1>5. CASE Write(e) /\ PutFile(e, Pending(e))
  <2> DEFINE c == Next_(e)
             new == <<c, Copies(c) + 1>>
  <2>1. /\ c = First(exp[e].rows) /\ c \in DOMAIN exp[e].rows /\ exp[e].pc = "writing"
        /\ exp[e].rows[c].payload \in Reportable
    BY <1>1, <1>5, HasFirst, WriteIs, MineOK DEF MemOK
  <2>2. c \in 1..MaxId /\ ledger.cycle < c
    BY <1>1, <2>1, NumbersOK, MineOK DEF MemOK, RowsOK, Ahead
  <2>3. UNCHANGED <<ledger, hist>>
    BY <1>5 DEF PutFile
  <2>4. CASE c \in DOMAIN files
    <3>1. ~Saving(exp[e]) /\ files' = files
      BY <1>5, <2>1, <2>4 DEF PutFile, Saving
    <3>2. \A x \in 1..MaxId : Copies(x)' = Copies(x)
      BY <2>3, <3>1 DEF Copies
    <3> QED BY <2>3, <3>1, <3>2, SameDebts
  <2>5. CASE c \notin DOMAIN files
    <3>1. DOMAIN files' = DOMAIN files \union {c}
      BY <1>5, <2>5 DEF PutFile, Extended
    <3>2. \A x \in 1..MaxId : Copies(x)' = IF x = c THEN Copies(c) + 1 ELSE Copies(x)
      <4>1. Copies(c) = hist.delivered[c]
        BY <2>2, <2>5, CopiesOK
      <4> HIDE DEF c
      <4>3. ASSUME NEW x \in 1..MaxId, x = c PROVE Copies(x)' = hist.delivered[x] + 1
        BY <2>3, <3>1, <4>3 DEF Copies
      <4>2. ASSUME NEW x \in 1..MaxId, x # c PROVE Copies(x)' = Copies(x)
        BY <2>3, <3>1, <4>2 DEF Copies
      <4> QED BY <4>1, <4>2, <4>3
    <3>3. Debts' = Debts \union {new} /\ new \notin Debts
      <4>1. new \in (1..MaxId) \X Nat /\ new[1] = c /\ new[2] = Copies(c) + 1
        BY <1>3, <2>2
      <4>2. new \notin Debts
        BY <1>3, <2>2, <4>1 DEF Debts
      <4>3. new \in Debts'
        BY <1>3, <2>2, <2>3, <3>2, <4>1 DEF Debts
      <4>4. ASSUME NEW d \in Debts PROVE d \in Debts'
        BY <1>3, <2>3, <3>2, <4>4 DEF Debts
      <4>5. ASSUME NEW d \in Debts', d # new PROVE d \in Debts
        <5>1. d \in (1..MaxId) \X Nat /\ d = <<d[1], d[2]>>
          BY <4>5 DEF Debts
        <5>2. d[1] # c \/ d[2] # Copies(c) + 1
          BY <4>5, <5>1
        <5>3. /\ 1 <= d[2] /\ d[2] <= (IF d[1] = c THEN Copies(c) + 1 ELSE Copies(d[1]))
              /\ 2 <= d[2] \/ ledger.cycle < d[1]
          BY <2>3, <3>2, <4>5, <5>1 DEF Debts
        <5>4. d[2] <= Copies(d[1])
          BY <1>3, <2>2, <5>1, <5>2, <5>3
        <5> QED BY <5>1, <5>3, <5>4 DEF Debts
      <4> QED BY <4>2, <4>3, <4>4, <4>5
    <3>4. IsFiniteSet(Debts') /\ Cardinality(Debts') = Cardinality(Debts) + 1
      BY <1>2, <3>3, FS_AddElement
    <3>5. Cardinality(Debts) <= hist.crashes
      BY <1>2, <2>1 DEF Paid, Saving
    <3>6. exp'[e].pc = "saving" /\ exp'[e].rows = exp[e].rows
      BY <1>1, <1>5, <2>5 DEF PutFile, Pending, Changed, Shape
    <3>7. Saving(exp[e])'
      BY <2>1, <3>6 DEF Saving
    <3> QED BY <1>2, <2>3, <3>4, <3>5, <3>7 DEF Paid
  <2> QED BY <2>4, <2>5
<1>6. CASE Save(e)
  <2> DEFINE c == Next_(e)
             first == <<c, 1>>
  <2>1. /\ c = First(exp[e].rows) /\ c \in DOMAIN exp[e].rows /\ exp[e].pc = "saving"
        /\ exp[e].rows[c].payload \in Reportable => Handed(c, files, hist)
    BY <1>1, <1>6, HasFirst, MineOK DEF Save, At, MemOK
  <2>2. c \in 1..MaxId /\ ledger.cycle < c /\ ledger.cycle \in Nat
    BY <1>1, <2>1, NumbersOK, MineOK DEF MemOK, RowsOK, Ahead, Inv, TypeOK
  <2>3. UNCHANGED <<files, hist>> /\ ledger'.cycle = c
    BY <1>6 DEF Save, Saved
  <2>4. exp'[e].pc = "exporting"
    BY <1>1, <1>6 DEF Save, NextRow, Shape
  <2>5. \A x \in 1..MaxId : Copies(x)' = Copies(x)
    BY <2>3 DEF Copies
  <2>6. Debts' \subseteq Debts
    BY <2>2, <2>3, <2>5 DEF Debts
  <2>7. first \notin Debts'
    BY <2>2, <2>3 DEF Debts
  <2>8. Saving(exp[e]) => first \in Debts
    <3>1. Saving(exp[e]) => 1 <= Copies(c)
      BY <2>1, <2>2, CopiesOK DEF Saving
    <3> QED BY <2>2, <3>1 DEF Debts
  <2>9. IsFiniteSet(Debts') /\ Cardinality(Debts') <= Cardinality(Debts) /\ Cardinality(Debts') \in Nat
    BY <1>2, <2>6, FS_Subset, FS_CardinalityType
  <2>10. Saving(exp[e]) => Cardinality(Debts') <= Cardinality(Debts) - 1
    <3> SUFFICES ASSUME Saving(exp[e]) PROVE Cardinality(Debts') <= Cardinality(Debts) - 1
      OBVIOUS
    <3>1. Debts' \subseteq Debts \ {first} /\ first \in Debts
      BY <2>6, <2>7, <2>8
    <3>2. IsFiniteSet(Debts \ {first}) /\ Cardinality(Debts \ {first}) = Cardinality(Debts) - 1
      BY <1>2, <3>1, FS_RemoveElement
    <3> QED BY <3>1, <3>2, FS_Subset
  <2> QED BY <1>2, <2>3, <2>4, <2>9, <2>10 DEF Paid, Saving
<1>7. CASE Crash(e)
  <2>1. UNCHANGED <<ledger, files>> /\ exp'[e].pc = "idle"
    BY <1>1, <1>7 DEF Crash
  <2>2. hist'.delivered = hist.delivered /\ hist'.crashes = hist.crashes + 1
    BY <1>7 DEF Crash, Inv, StoreOK
  <2>3. \A c \in 1..MaxId : Copies(c)' = Copies(c)
    BY <2>1, <2>2 DEF Copies
  <2>4. Debts' = Debts
    BY <2>1, <2>3 DEF Debts
  <2> QED BY <1>2, <2>1, <2>2, <2>4 DEF Paid, Saving
<1>8. ASSUME NEW c \in DOMAIN files, Ingest(c) PROVE Paid(exp[e])'
  <2>1. c \in 1..MaxId
    BY <1>8, NumbersOK DEF Inv, TypeOK
  <2>2. DOMAIN files' = DOMAIN files \ {c} /\ UNCHANGED <<ledger, exp>>
    BY <1>8 DEF Ingest
  <2>3. hist'.crashes = hist.crashes /\ hist'.delivered = [hist.delivered EXCEPT ![c] = @ + 1]
    BY <1>8 DEF Ingest, Inv, StoreOK
  <2>4. \A x \in 1..MaxId : Copies(x)' = Copies(x)
    <3>1. /\ Copies(c) = hist.delivered[c] + 1 /\ hist.delivered[c] \in Nat
          /\ hist'.delivered[c] = hist.delivered[c] + 1
      BY <1>2, <1>8, <2>1, <2>3, CopiesOK
    <3>2. Copies(c)' = hist'.delivered[c] + 0
      BY <2>2 DEF Copies
    <3>3. ASSUME NEW x \in 1..MaxId, x # c PROVE Copies(x)' = Copies(x)
      BY <1>2, <2>2, <2>3, <3>3 DEF Copies
    <3> QED BY <3>1, <3>2, <3>3
  <2> QED BY <2>2, <2>3, <2>4, SameDebts
<1>9. ASSUME Upgrade \/ (\E p \in Payload : Commit(p)) \/ UNCHANGED vars PROVE Paid(exp[e])'
  <2>1. UNCHANGED <<ledger, files, exp>>
    BY <1>9 DEF Upgrade, Commit, vars
  <2>2. hist'.crashes = hist.crashes /\ hist'.delivered = hist.delivered
    BY <1>9 DEF Upgrade, Commit, vars, Inv, StoreOK
  <2>3. \A x \in 1..MaxId : Copies(x)' = Copies(x)
    BY <2>1, <2>2 DEF Copies
  <2> QED BY <2>1, <2>2, <2>3, SameDebts
<1> QED
  BY <1>4, <1>5, <1>6, <1>7, <1>8, <1>9, WriteIs DEF Next, Export

(* A finding is handed over again only after a crash (export_once writes   *)
(* the file before it saves the ledger), once for each at most: for any    *)
(* number of cycles, crashes and upgrades, with a single exporter.         *)
THEOREM OneExporterRepeatsAfterCrashes ==
    ASSUME NEW e, Exporter = {e}
    PROVE  Spec => []RepetitionNeedsACrash
<1>1. Init => Ahead(exp[e]) /\ Paid(exp[e])
  <2> SUFFICES ASSUME Init PROVE Ahead(exp[e]) /\ Paid(exp[e])
    OBVIOUS
  <2>1. exp[e].pc = "idle" /\ ~ledger.exists /\ ledger.cycle = 0 /\ hist.crashes = 0
    BY DEF Init, Idle, NoLedger
  <2>2. \A c \in 1..MaxId : Copies(c) = 0
    BY DEF Init, Copies, EmptyTable
  <2>3. Debts = {}
    BY <2>2 DEF Debts
  <2> QED BY <2>1, <2>3, FS_EmptySet DEF Ahead, Paid, Saving
<1>2. Inv /\ Ahead(exp[e]) /\ Paid(exp[e]) /\ [Next]_vars => Ahead(exp[e])' /\ Paid(exp[e])'
  BY AheadStep, PaidStep
<1>3. Inv /\ Ahead(exp[e]) /\ Paid(exp[e]) => RepetitionNeedsACrash
  <2> SUFFICES ASSUME Inv, Ahead(exp[e]), Paid(exp[e]) PROVE RepetitionNeedsACrash
    OBVIOUS
  <2>1. hist.delivered \in [1..MaxId -> Nat] /\ hist.crashes \in Nat /\ e \in Exporter
    BY DEF Inv, StoreOK, Paid
  <2>2. Repeats \subseteq Debts
    <3>1. \A c \in 1..MaxId : Copies(c) \in Nat
      BY CopiesOK
    <3>2. ASSUME NEW d \in Repeats PROVE d \in Debts
      <4>1. PICK c \in 1..MaxId : d \in {c} \X (2..Copies(c))
        BY <3>2 DEF Repeats
      <4>2. d[1] = c /\ d[2] \in 2..Copies(c) /\ d = <<d[1], d[2]>>
        BY <4>1
      <4> QED BY <3>1, <4>2 DEF Debts
    <3> QED BY <3>2
  <2>3. Cardinality(Repeats) \in Nat /\ Cardinality(Repeats) <= Cardinality(Debts)
    BY <2>2, FS_Subset, FS_CardinalityType DEF Paid
  <2>4. CASE ~Saving(exp[e])
    BY <2>1, <2>3, <2>4, FS_CardinalityType DEF Paid, RepetitionNeedsACrash
  <2>5. CASE Saving(exp[e])
    <3> DEFINE first == <<First(exp[e].rows), 1>>
    <3>1. first \in Debts
      <4> DEFINE c == First(exp[e].rows)
      <4>1. c \in DOMAIN exp[e].rows /\ c \in 1..MaxId /\ Handed(c, files, hist) /\ ledger.cycle < c
        BY <2>1, <2>5, HasFirst, MineOK, NumbersOK DEF Saving, MemOK, RowsOK, Ahead
      <4>2. Copies(c) \in Nat /\ 1 <= Copies(c)
        BY <4>1, CopiesOK
      <4> QED BY <4>1, <4>2 DEF Debts
    <3>2. first \notin Repeats
      <4> SUFFICES ASSUME first \in Repeats PROVE FALSE
        OBVIOUS
      <4>1. PICK c \in 1..MaxId : first \in {c} \X (2..Copies(c))
        BY DEF Repeats
      <4> QED BY <4>1
    <3>3. Repeats \subseteq Debts \ {first}
      BY <2>2, <3>2
    <3>4. IsFiniteSet(Debts \ {first}) /\ Cardinality(Debts \ {first}) = Cardinality(Debts) - 1
      BY <3>1, FS_RemoveElement DEF Paid
    <3>5. Cardinality(Repeats) <= Cardinality(Debts) - 1
      BY <3>3, <3>4, FS_Subset
    <3> QED BY <2>1, <2>3, <2>5, <3>5, FS_CardinalityType DEF Paid, RepetitionNeedsACrash
  <2> QED BY <2>4, <2>5
<1> QED
  BY <1>1, <1>2, <1>3, SpecInv, PTL DEF Spec
=============================================================================
