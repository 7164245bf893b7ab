---------------------------- MODULE LifecycleProofs ----------------------------
(***************************************************************************)
(* Proofs about IncidentLifecycle for any incidents, scores, limits and    *)
(* bounds.                                                                 *)
(*                                                                         *)
(* Nothing but the coverage of the current cycle ends an incident.  The    *)
(* transaction of a reconciliation (Stored) makes the observed records     *)
(* active, those in "ended" inactive and keeps the rest; pruning drops     *)
(* inactive records only.  A replayed row ends none, the current cycle     *)
(* ends what it covered and did not see.  No record is newer than the last *)
(* processed cycle, which is below the cycle reconciled.                   *)
(*                                                                         *)
(* No alert is lost for good.  While no row is deleted by age the finding  *)
(* of an active incident is stored (FindingsAreStored), so an incident of  *)
(* high or critical severity is a candidate of the query, which returns    *)
(* all candidates within its limit.  From the query to the end of the      *)
(* cycle such an incident is in the log or queued, and what is marked or   *)
(* written is in the log (AlertsAreLogged).                                *)
(*                                                                         *)
(* Every finding has a lifecycle state.  A running service whose cycle is  *)
(* not between its commit and its reconciliation has processed every row,  *)
(* or the row it needs next is gone and it processes none any more         *)
(* (CaughtUp, Stuck).  In between, the cycle's id is that of the row it    *)
(* committed (Committed), or a volatile cycle has the id of a row that was *)
(* processed (Borrowed).                                                   *)
(*                                                                         *)
(* Escalations are alerted.  While every cycle is the service's and none   *)
(* was abandoned, the cycles are processed one by one (Position).  Pruning *)
(* keeps, of the transitions of an incident, those after any it keeps      *)
(* (Renewed), so a transition that was alerted since the incident last     *)
(* came back at an alerted severity is there as long as one from before    *)
(* that return is (Marked), and what was written since then is bounded by  *)
(* what the log holds of that time (TopCovers).  After its reconciliation  *)
(* an incident the log does not hold with its score is one the query       *)
(* returns (Explained, LeftOut), and then it is queued.                    *)
(***************************************************************************)
EXTENDS IncidentLifecycle, FiniteSetTheorems, WellFoundedInduction, TLAPS

(* The repository has these three parts, whatever its transitions are. *)
Inv ==
    /\ TypeOK
    /\ repo = [last |-> repo.last, rec |-> repo.rec, trans |-> repo.trans]

RepoOK(r, n) ==
    /\ r = [last |-> r.last, rec |-> r.rec, trans |-> r.trans]
    /\ r.last \in 0..n
    /\ r.rec \in [Incident -> Record \union {NoRecord}]
    /\ \A i \in Incident : r.rec[i].finding <= r.last

-----------------------------------------------------------------------------
(* A nonempty set of natural numbers has a least element. *)
LEMMA LeastOfNat ==
    ASSUME NEW S \in SUBSET Nat, S # {}
    PROVE  Min(S) \in S /\ \A n \in S : Min(S) <= n
<1>1. PICK x \in S : \A y \in S : ~ (<<y, x>> \in OpToRel(<, Nat))
  BY NatLessThanWellFounded, WFMin, Zenon
<1>2. \A y \in S : ~ (y < x)
  BY <1>1, Zenon DEF OpToRel
<1>3. \A y \in S : x <= y
  BY <1>2
<1> QED
  BY <1>3 DEF Min

(* A nonempty set of numbers from 1 to n has a greatest element. *)
LEMMA GreatestOfNat ==
    ASSUME NEW n \in Nat, NEW S \in SUBSET (1..n), S # {}
    PROVE  Max(S) \in S
<1> DEFINE T == {n - x : x \in S}
<1>1. T \subseteq Nat
  OBVIOUS
<1>2. T # {}
  <2>1. PICK x \in S : TRUE
    OBVIOUS
  <2>2. n - x \in T
    BY <2>1
  <2> QED BY <2>2
<1>3. PICK m \in T : \A k \in T : m <= k
  <2> HIDE DEF T
  <2> QED BY <1>1, <1>2, LeastOfNat
<1>4. PICK x \in S : m = n - x
  OBVIOUS
<1>5. \A y \in S : n - x <= n - y
  BY <1>3, <1>4
<1>6. \A y \in S : y <= x
  <2> SUFFICES ASSUME NEW y \in S PROVE y <= x
    OBVIOUS
  <2> HIDE DEF T
  <2> QED BY <1>5
<1> QED
  BY <1>6 DEF Max

(* What it takes to be findings of some of the first n cycles. *)
LEMMA RowsOfFunction ==
    ASSUME NEW n \in Nat, NEW C \in SUBSET (1..n), NEW f \in [C -> Observation]
    PROVE  f \in Rows(n)
BY DEF Rows

LEMMA RowsAre ==
    ASSUME NEW n \in Nat, NEW f \in Rows(n)
    PROVE  DOMAIN f \subseteq 1..n /\ f \in [DOMAIN f -> Observation]
BY DEF Rows

LEMMA RowsRestricted ==
    ASSUME NEW n \in Nat, NEW f \in Rows(n), NEW C \in SUBSET DOMAIN f
    PROVE  Restrict(f, C) \in Rows(n) /\ DOMAIN Restrict(f, C) = C
BY RowsAre, RowsOfFunction DEF Restrict

LEMMA RowsGrow ==
    ASSUME NEW n \in Nat, NEW f \in Rows(n)
    PROVE  f \in Rows(n + 1)
BY RowsAre, RowsOfFunction

LEMMA NoRows == \A n \in Nat : << >> \in Rows(n)
<1> SUFFICES ASSUME NEW n \in Nat PROVE << >> \in Rows(n)
  OBVIOUS
<1>1. << >> \in [{} -> Observation]
  OBVIOUS
<1> QED
  BY <1>1, RowsOfFunction

LEMMA NoCycleType == \A n \in Nat : NoCycle \in Cycle(n)
BY NoRows, ParameterAssumption DEF NoCycle, Cycle, Quiet, Observation

-----------------------------------------------------------------------------
(* A record that observes or resolves is one, with the finding it names. *)
LEMMA ObservedType ==
    ASSUME NEW rec \in Record \union {NoRecord}, NEW id \in 1..MaxId, NEW score \in 1..MaxScore
    PROVE  /\ Observed(rec, id, score) \in Record
           /\ Observed(rec, id, score).finding = id
           /\ Observed(rec, id, score).active
BY ParameterAssumption DEF Observed, Record

LEMMA ResolvedType ==
    ASSUME NEW rec \in Record, NEW id \in 1..MaxId
    PROVE  /\ Resolved(rec, id) \in Record /\ Resolved(rec, id).finding = rec.finding
           /\ Resolved(rec, id).score = rec.score
           /\ Resolved(rec, id).state = "resolved" /\ ~Resolved(rec, id).active
<1> DEFINE ended   == [rec EXCEPT !.state = "resolved"]
           passive == [ended EXCEPT !.active = FALSE]
<1>1. /\ ended \in Record /\ ended.finding = rec.finding /\ ended.score = rec.score
      /\ ended.state = "resolved"
  BY DEF Record
<1>2. Resolved(rec, id) = [passive EXCEPT !.at = id]
  BY DEF Resolved
<1> HIDE DEF ended
<1>3. /\ passive \in Record /\ passive.finding = rec.finding /\ passive.score = rec.score
      /\ passive.state = "resolved" /\ ~passive.active
  BY <1>1 DEF Record
<1> HIDE DEF passive
<1> QED
  BY <1>2, <1>3, ParameterAssumption DEF Record

(* Pruning forgets inactive records and keeps the others as they are. *)
LEMMA PrunedKeeps ==
    ASSUME NEW n \in Nat, NEW r, RepoOK(r, n)
    PROVE  /\ RepoOK(PrunedRepo(r), n)
           /\ PrunedRepo(r).last = r.last
           /\ \A i \in Incident : r.rec[i].active => PrunedRepo(r).rec[i] = r.rec[i]
<1> DEFINE gone == ResolvedIn(r.rec) \ Kept(r.rec)
           rec  == [i \in Incident |-> IF i \in gone THEN NoRecord ELSE r.rec[i]]
<1>1. PICK trans : PrunedRepo(r) = [r EXCEPT !.rec = rec, !.trans = trans]
  BY DEF PrunedRepo
<1>2. /\ PrunedRepo(r).last = r.last /\ PrunedRepo(r).rec = rec
      /\ PrunedRepo(r) = [last |-> r.last, rec |-> rec, trans |-> trans]
  BY <1>1 DEF RepoOK
<1>3. \A i \in Incident : r.rec[i].active => i \notin gone
  BY DEF ResolvedIn
<1>4. rec \in [Incident -> Record \union {NoRecord}]
  BY DEF RepoOK
<1>5. \A i \in Incident : rec[i].finding <= r.last
  BY DEF RepoOK, NoRecord
<1> HIDE DEF gone, rec
<1>6. RepoOK(PrunedRepo(r), n)
  BY <1>2, <1>4, <1>5 DEF RepoOK
<1>7. \A i \in Incident : r.rec[i].active => rec[i] = r.rec[i]
  BY <1>3 DEF rec
<1> QED
  BY <1>2, <1>6, <1>7

(* The transaction of a reconciliation: the types, the last cycle, and     *)
(* that only the incidents of "ended" which were not observed end.         *)
LEMMA StoredKeeps ==
    ASSUME NEW n \in 0..MaxId, NEW r, RepoOK(r, n), NEW id \in 1..n, id > r.last,
           NEW seen \in Observation, NEW noted,
           NEW ended \in SUBSET {i \in Incident : r.rec[i].active}
    PROVE  /\ RepoOK(Stored(r, id, seen, ended, noted), n)
           /\ \A i \in Incident :
                 r.rec[i].active /\ ~Stored(r, id, seen, ended, noted).rec[i].active =>
                     i \in ended /\ seen[i] = 0
<1> DEFINE rec == Records(r, id, seen, ended)
<1>1. PICK trans : Stored(r, id, seen, ended, noted)
                     = PrunedRepo([last |-> id, rec |-> rec, trans |-> trans])
  BY DEF Stored
<1>2. id \in 1..MaxId
  BY ParameterAssumption
<1>3. ASSUME NEW i \in Incident
      PROVE  /\ rec[i] \in Record \union {NoRecord}
             /\ rec[i].finding <= id
             /\ r.rec[i].active /\ ~rec[i].active => i \in ended /\ seen[i] = 0
  <2>1. CASE i \in Present(seen)
    <3>1. seen[i] \in 1..MaxScore
      BY <2>1, ParameterAssumption DEF Present, Observation
    <3>2. r.rec[i] \in Record \union {NoRecord}
      BY DEF RepoOK
    <3> QED BY <2>1, <3>1, <3>2, <1>2, ObservedType DEF Records
  <2>2. CASE i \notin Present(seen)
    <3>1. seen[i] = 0
      BY <2>2, ParameterAssumption DEF Present, Observation
    <3>2. CASE i \in ended
      <4>1. r.rec[i] \in Record
        BY <3>2 DEF RepoOK, NoRecord
      <4>2. r.rec[i].finding <= r.last /\ r.rec[i].finding \in 1..MaxId /\ r.last \in Nat
        BY <4>1 DEF RepoOK, Record
      <4> QED BY <2>2, <3>1, <3>2, <4>1, <4>2, <1>2, ResolvedType DEF Records
    <3>3. CASE i \notin ended
      <4>1. r.rec[i] \in Record \union {NoRecord} /\ r.rec[i].finding <= r.last /\ r.last \in Nat
        BY DEF RepoOK
      <4>2. r.rec[i].finding \in Nat
        BY <4>1, ParameterAssumption DEF Record, NoRecord
      <4> QED BY <2>2, <3>3, <4>1, <4>2 DEF Records
    <3> QED BY <3>2, <3>3
  <2> QED BY <2>1, <2>2
<1>4. RepoOK([last |-> id, rec |-> rec, trans |-> trans], n)
  <2>1. rec \in [Incident -> Record \union {NoRecord}]
    BY <1>3 DEF Records
  <2> HIDE DEF rec
  <2> QED BY <2>1, <1>3 DEF RepoOK
<1> HIDE DEF rec
<1>5. \A i \in Incident : rec[i].active => Stored(r, id, seen, ended, noted).rec[i] = rec[i]
  BY <1>1, <1>4, PrunedKeeps
<1> QED
  BY <1>1, <1>3, <1>4, <1>5, PrunedKeeps

-----------------------------------------------------------------------------
(* Types of the parts, for a store after n cycles. *)

StoreOK(s) ==
    /\ s \in [chain : Rows(s.lastId), lastId : 0..MaxId,
              findings : SUBSET (Incident \X (1..MaxId)),
              alerts : SUBSET (Incident \X (1..MaxId))]
    /\ s.alerts \subseteq s.findings

SvcOK(s, n) == s \in [cycle : Cycle(n), warm : BOOLEAN]

LEMMA InvParts ==
    Inv <=> StoreOK(store) /\ RepoOK(repo, store.lastId) /\ SvcOK(svc, store.lastId)
BY DEF Inv, TypeOK, StoreOK, RepoOK, SvcOK

LEMMA InvPartsNext ==
    StoreOK(store') /\ RepoOK(repo', store.lastId') /\ SvcOK(svc', store.lastId') => Inv'
BY DEF Inv, TypeOK, StoreOK, RepoOK, SvcOK

(* A cycle is added with its findings, and retention takes old ones away. *)
LEMMA AddedType ==
    ASSUME NEW s, StoreOK(s), s.lastId < MaxId, NEW seen \in Observation
    PROVE  StoreOK(Added(s, seen)) /\ Added(s, seen).lastId = s.lastId + 1
<1> DEFINE id       == s.lastId + 1
           chain    == [c \in DOMAIN s.chain \cup {id} |-> IF c = id THEN seen ELSE s.chain[c]]
           findings == s.findings \cup {<<i, id>> : i \in Present(seen)}
<1>1. s.lastId \in Nat /\ id \in 1..MaxId
  BY ParameterAssumption DEF StoreOK
<1>2. Added(s, seen) = [chain |-> chain, lastId |-> id, findings |-> findings, alerts |-> s.alerts]
  <2>1. Added(s, seen) = [s EXCEPT !.chain = chain, !.lastId = id, !.findings = findings]
    BY DEF Added
  <2>2. s = [chain |-> s.chain, lastId |-> s.lastId, findings |-> s.findings, alerts |-> s.alerts]
    BY DEF StoreOK
  <2> HIDE DEF chain, findings, id
  <2> QED BY <2>1, <2>2
<1>3. chain \in Rows(id)
  <2>1. DOMAIN s.chain \subseteq 1..s.lastId /\ s.chain \in [DOMAIN s.chain -> Observation]
    BY <1>1, RowsAre DEF StoreOK
  <2>2. DOMAIN s.chain \cup {id} \subseteq 1..id
    BY <1>1, <2>1
  <2>3. chain \in [DOMAIN s.chain \cup {id} -> Observation]
    BY <2>1
  <2> HIDE DEF chain, id
  <2> QED BY <1>1, <2>2, <2>3, RowsOfFunction
<1>4. findings \subseteq Incident \X (1..MaxId) /\ s.alerts \subseteq findings
  BY <1>1 DEF StoreOK, Present
<1> HIDE DEF chain, findings, id
<1>5. StoreOK(Added(s, seen))
  BY <1>1, <1>2, <1>3, <1>4 DEF StoreOK
<1> QED
  BY <1>2, <1>5 DEF id

LEMMA RetainType ==
    ASSUME NEW s, StoreOK(s), NEW old
    PROVE  StoreOK(Retain(s, old)) /\ Retain(s, old).lastId = s.lastId
<1> DEFINE findings == {f \in s.findings : f[2] > old}
<1>1. PICK C \in SUBSET DOMAIN s.chain :
        Retain(s, old) = [s EXCEPT !.chain = Restrict(s.chain, C), !.findings = findings,
                                   !.alerts = s.alerts \cap findings]
  BY DEF Retain
<1>2. Restrict(s.chain, C) \in Rows(s.lastId)
  BY RowsRestricted, ParameterAssumption DEF StoreOK
<1>3. Retain(s, old) = [chain |-> Restrict(s.chain, C), lastId |-> s.lastId,
                        findings |-> findings, alerts |-> s.alerts \cap findings]
  BY <1>1 DEF StoreOK
<1>4. /\ findings \subseteq Incident \X (1..MaxId)
      /\ s.alerts \cap findings \subseteq Incident \X (1..MaxId)
  BY DEF StoreOK
<1> HIDE DEF findings
<1> QED
  BY <1>2, <1>3, <1>4 DEF StoreOK

(* What held after n cycles holds after one more. *)
LEMMA PartsGrow ==
    ASSUME NEW n \in Nat, NEW r, RepoOK(r, n), NEW s, SvcOK(s, n)
    PROVE  RepoOK(r, n + 1) /\ SvcOK(s, n + 1)
<1>1. RepoOK(r, n + 1)
  BY DEF RepoOK
<1>2. SvcOK(s, n + 1)
  <2>1. s.cycle \in Cycle(n) /\ s.cycle.rows \in Rows(n + 1)
    BY RowsGrow DEF SvcOK, Cycle
  <2>2. s.cycle \in Cycle(n + 1)
    BY <2>1 DEF Cycle
  <2> QED BY <2>2 DEF SvcOK
<1> QED
  BY <1>1, <1>2

LEMMA GoType ==
    ASSUME NEW n \in Nat, SvcOK(svc, n),
           NEW pc \in {"idle", "collected", "persisted", "replaying", "reconciled", "alerting"}
    PROVE  /\ Go(pc) \in Cycle(n)
           /\ Go(pc) = [pc |-> pc, id |-> svc.cycle.id, seen |-> svc.cycle.seen,
                        covered |-> svc.cycle.covered, rows |-> svc.cycle.rows]
BY DEF Go, SvcOK, Cycle

-----------------------------------------------------------------------------
(* The steps *)

(* What a step may do to the active incidents. *)
Allowed ==
    \A i \in Active :
        ~repo'.rec[i].active =>
            /\ i \in svc.cycle.covered /\ svc.cycle.seen[i] = 0
            /\ repo.rec[i].finding < svc.cycle.id

LEMMA SameRepo == UNCHANGED repo => Allowed
BY DEF Allowed, Active

(* A step of the service's memory that leaves the store and the repository. *)
LEMMA MemoryStep ==
    ASSUME Inv, UNCHANGED <<store, repo>>, SvcOK(svc', store.lastId)
    PROVE  Inv' /\ Allowed
BY InvParts, InvPartsNext, SameRepo

LEMMA CollectStep ==
    ASSUME Inv, NEW seen \in Observation, NEW covered \in SUBSET Incident, Collect(seen, covered)
    PROVE  Inv' /\ Allowed
<1> DEFINE cycle == [NoCycle EXCEPT !.pc = "collected", !.seen = seen, !.covered = covered]
<1>1. store.lastId \in Nat /\ SvcOK(svc, store.lastId)
  BY InvParts, ParameterAssumption DEF StoreOK
<1>2. NoCycle \in Cycle(store.lastId)
  BY <1>1, NoCycleType
<1>3. cycle \in Cycle(store.lastId)
  <2> DEFINE begun == [NoCycle EXCEPT !.pc = "collected"]
             found == [begun EXCEPT !.seen = seen]
  <2>1. begun \in Cycle(store.lastId)
    BY <1>2 DEF Cycle
  <2>2. cycle = [found EXCEPT !.covered = covered]
    OBVIOUS
  <2> HIDE DEF begun
  <2>3. found \in Cycle(store.lastId)
    BY <2>1 DEF Cycle
  <2> HIDE DEF found, cycle
  <2> QED BY <2>2, <2>3 DEF Cycle
<1>4. svc' = [svc EXCEPT !.cycle = cycle] /\ UNCHANGED <<store, repo>>
  BY DEF Collect
<1> HIDE DEF cycle
<1>5. SvcOK(svc', store.lastId)
  BY <1>1, <1>3, <1>4 DEF SvcOK
<1> QED
  BY <1>4, <1>5, MemoryStep

LEMMA GrownStore ==
    ASSUME Inv, NEW seen \in Observation, store.lastId < MaxId,
           \/ store' = Added(store, seen)
           \/ \E old : store' = Retain(Added(store, seen), old)
    PROVE  /\ StoreOK(store') /\ store'.lastId = store.lastId + 1
           /\ RepoOK(repo, store.lastId + 1) /\ SvcOK(svc, store.lastId + 1)
<1>1. StoreOK(store) /\ RepoOK(repo, store.lastId) /\ SvcOK(svc, store.lastId)
  BY InvParts
<1>2. store.lastId \in Nat
  BY <1>1, ParameterAssumption DEF StoreOK
<1>3. StoreOK(store') /\ store'.lastId = store.lastId + 1
  BY <1>1, AddedType, RetainType
<1> QED
  BY <1>1, <1>2, <1>3, PartsGrow

LEMMA PersistDurableStep ==
    ASSUME Inv, PersistDurable
    PROVE  Inv' /\ Allowed
<1> DEFINE n == store.lastId
           cycle == [Go("persisted") EXCEPT !.id = n + 1]
<1>1. /\ svc.cycle.seen \in Observation /\ n \in Nat /\ n < MaxId /\ SvcOK(svc, n)
      /\ svc' = [cycle |-> cycle, warm |-> TRUE] /\ UNCHANGED repo
  BY InvParts, ParameterAssumption DEF PersistDurable, StoreOK, SvcOK, Cycle
<1>2. \/ store' = Added(store, svc.cycle.seen)
      \/ \E old : store' = Retain(Added(store, svc.cycle.seen), old)
  BY DEF PersistDurable
<1> HIDE DEF n, cycle
<1>3. /\ StoreOK(store') /\ store'.lastId = n + 1
      /\ RepoOK(repo, n + 1) /\ SvcOK(svc, n + 1)
  BY <1>1, <1>2, GrownStore DEF n
<1>4. Go("persisted") \in Cycle(n + 1)
  BY <1>1, <1>3, GoType
<1>5. cycle \in Cycle(n + 1)
  BY <1>1, <1>4 DEF Cycle, cycle
<1>6. SvcOK(svc', n + 1)
  BY <1>1, <1>5 DEF SvcOK
<1> QED
  BY <1>1, <1>3, <1>6, InvPartsNext, SameRepo

LEMMA ScanPersistStep ==
    ASSUME Inv, NEW seen \in Observation, ScanPersist(seen)
    PROVE  Inv' /\ Allowed
<1>1. store.lastId < MaxId /\ UNCHANGED <<repo, svc>>
  BY InvParts, ParameterAssumption DEF ScanPersist, StoreOK
<1>2. \E old : store' = Retain(Added(store, seen), old)
  BY DEF ScanPersist
<1> QED
  BY <1>1, <1>2, GrownStore, InvPartsNext, SameRepo

LEMMA PersistVolatileStep ==
    ASSUME Inv, PersistVolatile
    PROVE  Inv' /\ Allowed
<1> DEFINE cycle == [Go("persisted") EXCEPT !.id = Max(DOMAIN store.chain)]
<1>1. SvcOK(svc, store.lastId) /\ store.lastId \in Nat
  BY InvParts, ParameterAssumption DEF StoreOK
<1>2. DOMAIN store.chain \in SUBSET (1..store.lastId) /\ DOMAIN store.chain # {}
  BY <1>1, InvParts, RowsAre DEF StoreOK, PersistVolatile
<1>3. Max(DOMAIN store.chain) \in 0..store.lastId
  <2> DEFINE S == DOMAIN store.chain
  <2> HIDE DEF S
  <2>1. Max(S) \in S
    BY <1>1, <1>2, GreatestOfNat DEF S
  <2> QED BY <1>1, <1>2, <2>1 DEF S
<1>4. Go("persisted") \in Cycle(store.lastId)
  BY <1>1, GoType
<1>5. cycle \in Cycle(store.lastId)
  BY <1>3, <1>4 DEF Cycle
<1>6. svc' = [svc EXCEPT !.cycle = cycle] /\ UNCHANGED <<store, repo>>
  BY DEF PersistVolatile
<1> HIDE DEF cycle
<1>7. SvcOK(svc', store.lastId)
  BY <1>1, <1>5, <1>6 DEF SvcOK
<1> QED
  BY <1>6, <1>7, MemoryStep

LEMMA CatchUpStep ==
    ASSUME Inv, CatchUp
    PROVE  Inv' /\ Allowed
<1> DEFINE n == store.lastId
           cycle == [Go("replaying") EXCEPT !.rows = Restrict(store.chain, Unprocessed)]
<1>1. SvcOK(svc, n) /\ n \in Nat /\ StoreOK(store) /\ RepoOK(repo, n)
  BY InvParts, ParameterAssumption DEF StoreOK
<1>2. DOMAIN store.chain \in SUBSET (1..n) /\ Unprocessed \in SUBSET DOMAIN store.chain
  BY <1>1, RowsAre DEF StoreOK, Unprocessed
<1>3. Restrict(store.chain, Unprocessed) \in Rows(n)
  BY <1>1, <1>2, RowsRestricted DEF StoreOK
<1>4. Go("replaying") \in Cycle(n)
  BY <1>1, GoType
<1>5. cycle \in Cycle(n)
  BY <1>3, <1>4 DEF Cycle
<1>6. /\ svc' = [svc EXCEPT !.cycle = cycle] /\ UNCHANGED store
      /\ repo' = [repo EXCEPT !.last = Floor]
  BY DEF CatchUp
<1>7. Floor \in 0..n /\ (Floor = repo.last \/ \A i \in Incident : repo.rec[i] = NoRecord)
  <2>1. CASE StartsLate
    <3>1. Unprocessed # {} /\ Min(Unprocessed) > 1
      BY <2>1 DEF StartsLate
    <3>2. Unprocessed \in SUBSET Nat
      BY <1>1, <1>2
    <3>3. Min(Unprocessed) \in 1..n
      BY <1>2, <3>1, <3>2, LeastOfNat
    <3> QED BY <2>1, <3>1, <3>3, <1>1 DEF Floor, StartsLate
  <2>2. CASE ~StartsLate
    BY <2>2, <1>1 DEF Floor, RepoOK
  <2> QED BY <2>1, <2>2
<1> HIDE DEF cycle, n
<1>8. repo' = [last |-> Floor, rec |-> repo.rec, trans |-> repo.trans]
  BY <1>1, <1>6 DEF RepoOK
<1>9. \A i \in Incident : repo.rec[i].finding <= Floor
  BY <1>1, <1>7 DEF RepoOK, NoRecord
<1>10. RepoOK(repo', n) /\ SvcOK(svc', n)
  BY <1>1, <1>5, <1>6, <1>7, <1>8, <1>9 DEF RepoOK, SvcOK
<1>11. Allowed
  BY <1>8 DEF Allowed, Active
<1> QED
  BY <1>1, <1>6, <1>10, <1>11, InvPartsNext DEF n

(* A replayed row ends no incident. *)
LEMMA ReplayStep ==
    ASSUME Inv, Replay
    PROVE  Inv' /\ Allowed
<1> DEFINE n == store.lastId
           rows == svc.cycle.rows
           id == Min(DOMAIN rows)
           cycle == [svc.cycle EXCEPT !.rows = Restrict(@, DOMAIN @ \ {id})]
<1>1. SvcOK(svc, n) /\ n \in 0..MaxId /\ StoreOK(store) /\ RepoOK(repo, n) /\ MaxId \in Nat
  BY InvParts, ParameterAssumption DEF StoreOK
<1>2. rows \in Rows(n) /\ rows # << >>
  BY <1>1 DEF SvcOK, Cycle, Replay
<1>3. DOMAIN rows \subseteq 1..n /\ rows \in [DOMAIN rows -> Observation] /\ DOMAIN rows # {}
  <2>1. DOMAIN rows \subseteq 1..n /\ rows \in [DOMAIN rows -> Observation]
    BY <1>1, <1>2, RowsAre
  <2> HIDE DEF rows
  <2>2. ASSUME DOMAIN rows = {} PROVE FALSE
    BY <1>2, <2>1, <2>2
  <2> QED BY <2>1, <2>2
<1>4. id \in DOMAIN rows
  <2> DEFINE S == DOMAIN rows
  <2>1. S \in SUBSET Nat /\ S # {}
    BY <1>1, <1>3
  <2> HIDE DEF S
  <2>2. Min(S) \in S
    BY <2>1, LeastOfNat
  <2> QED BY <2>2 DEF S
<1>5. rows[id] \in Observation /\ id \in 1..n
  BY <1>3, <1>4
<1>6. Restrict(rows, DOMAIN rows \ {id}) \in Rows(n)
  BY <1>1, <1>2, RowsRestricted
<1>7. /\ svc' = [svc EXCEPT !.cycle = cycle] /\ UNCHANGED store
      /\ IF Processed(id) THEN UNCHANGED repo ELSE repo' = Replayed(repo, id, rows[id])
  BY DEF Replay
<1>8. cycle \in Cycle(n)
  BY <1>1, <1>6 DEF SvcOK, Cycle
<1> HIDE DEF cycle, id, rows, n
<1>9. SvcOK(svc', n)
  BY <1>1, <1>7, <1>8 DEF SvcOK
<1>10. RepoOK(repo', n) /\ Allowed
  <2>1. CASE Processed(id)
    BY <2>1, <1>1, <1>7, SameRepo
  <2>2. CASE ~Processed(id)
    <3>1. id > repo.last
      BY <2>2, <1>1, <1>5 DEF Processed, RepoOK
    <3>2. repo' = Stored(repo, id, rows[id], {}, Present(rows[id]))
      BY <2>2, <1>7 DEF Replayed
    <3> QED BY <3>1, <3>2, <1>1, <1>5, StoredKeeps DEF Allowed, Active
  <2> QED BY <2>1, <2>2
<1> QED
  BY <1>1, <1>7, <1>9, <1>10, InvPartsNext DEF n

(* The current cycle ends what it covered and did not see. *)
LEMMA ReconcileStep ==
    ASSUME Inv, Reconcile
    PROVE  Inv' /\ Allowed
<1> DEFINE n     == store.lastId
           c     == svc.cycle
           ended == Resolvable(repo, c.seen, c.covered)
<1>1. SvcOK(svc, n) /\ n \in 0..MaxId /\ StoreOK(store) /\ RepoOK(repo, n) /\ MaxId \in Nat
  BY InvParts, ParameterAssumption DEF StoreOK
<1>2. c.seen \in Observation /\ c.covered \subseteq Incident /\ c.id \in 0..n
  BY <1>1 DEF SvcOK, Cycle
<1>3. c.id > repo.last /\ c.id \in 1..n
  BY <1>1, <1>2 DEF Reconcile, Processed, RepoOK
<1>4. ended \in SUBSET {i \in Incident : repo.rec[i].active}
  BY <1>2 DEF Resolvable
<1>5. PICK noted : repo' = Stored(repo, c.id, c.seen, ended, noted)
  BY DEF Reconcile, Reconciled
<1>6. svc' = [svc EXCEPT !.cycle = Go("reconciled")] /\ UNCHANGED store
  BY DEF Reconcile
<1>7. SvcOK(svc', n)
  BY <1>1, <1>6, GoType DEF SvcOK
<1>8. ended \subseteq c.covered
  BY DEF Resolvable
<1> HIDE DEF ended, c, n
<1>9. /\ RepoOK(repo', n)
      /\ \A i \in Incident : repo.rec[i].active /\ ~repo'.rec[i].active =>
                                i \in ended /\ c.seen[i] = 0
  BY <1>1, <1>2, <1>3, <1>4, <1>5, StoredKeeps
<1>10. \A i \in Incident : repo.rec[i].finding < c.id
  <2> SUFFICES ASSUME NEW i \in Incident PROVE repo.rec[i].finding < c.id
    OBVIOUS
  <2>1. repo.rec[i] \in Record \union {NoRecord} /\ repo.rec[i].finding <= repo.last /\ repo.last \in Nat
    BY <1>1 DEF RepoOK
  <2>2. repo.rec[i].finding \in Nat
    BY <2>1, <1>1 DEF Record, NoRecord
  <2>3. c.id \in Nat
    BY <1>2
  <2> QED BY <2>1, <2>2, <2>3, <1>3
<1>11. Allowed
  BY <1>8, <1>9, <1>10 DEF Allowed, Active, c
<1> QED
  BY <1>1, <1>6, <1>7, <1>9, <1>11, InvPartsNext DEF n

(* The cycle goes on to pc or is over, and the repository stays. *)
LEMMA CycleStep ==
    ASSUME Inv, UNCHANGED <<store, repo>>,
           \/ \E pc \in {"reconciled", "alerting"} : svc' = [svc EXCEPT !.cycle = Go(pc)]
           \/ svc' = [svc EXCEPT !.cycle = NoCycle]
           \/ svc' = [cycle |-> NoCycle, warm |-> FALSE]
           \/ UNCHANGED svc
    PROVE  Inv' /\ Allowed
<1>1. SvcOK(svc, store.lastId) /\ store.lastId \in Nat
  BY InvParts, ParameterAssumption DEF StoreOK
<1>2. \A pc \in {"reconciled", "alerting"} : Go(pc) \in Cycle(store.lastId)
  BY <1>1, GoType
<1>3. NoCycle \in Cycle(store.lastId)
  BY <1>1, NoCycleType
<1>4. SvcOK(svc', store.lastId)
  <2>1. ASSUME NEW pc \in {"reconciled", "alerting"}, svc' = [svc EXCEPT !.cycle = Go(pc)]
        PROVE  SvcOK(svc', store.lastId)
    BY <1>1, <1>2, <2>1 DEF SvcOK
  <2>2. CASE svc' = [svc EXCEPT !.cycle = NoCycle]
    BY <1>1, <1>3, <2>2 DEF SvcOK
  <2>3. CASE svc' = [cycle |-> NoCycle, warm |-> FALSE]
    BY <1>3, <2>3 DEF SvcOK
  <2> QED BY <1>1, <2>1, <2>2, <2>3
<1> QED
  BY <1>4, MemoryStep

(* An alert is marked for a finding that is there. *)
LEMMA MarkStep ==
    ASSUME Inv, NEW a \in Actor, Mark(a)
    PROVE  Inv' /\ Allowed
<1>1. PICK f \in store.findings : store' = [store EXCEPT !.alerts = @ \cup {f}]
  BY DEF Mark
<1>2. UNCHANGED <<repo, svc>>
  BY DEF Mark
<1>3. StoreOK(store') /\ store'.lastId = store.lastId
  BY <1>1, InvParts DEF StoreOK
<1> QED
  BY <1>2, <1>3, InvParts, InvPartsNext, SameRepo

LEMMA InitInv == Init => Inv
<1> SUFFICES ASSUME Init PROVE Inv
  OBVIOUS
<1>1. StoreOK(store)
  BY NoRows, ParameterAssumption DEF Init, StoreOK
<1>2. RepoOK(repo, store.lastId)
  BY DEF Init, RepoOK, NoRecord
<1>3. SvcOK(svc, store.lastId)
  BY NoCycleType DEF Init, SvcOK
<1> QED
  BY <1>1, <1>2, <1>3, InvParts

LEMMA StepInv == Inv /\ [Next]_vars => Inv' /\ Allowed
<1> SUFFICES ASSUME Inv, [Next]_vars PROVE Inv' /\ Allowed
  OBVIOUS
<1>1. CASE \E seen \in Observation, covered \in SUBSET Incident : Collect(seen, covered)
  BY <1>1, CollectStep
<1>2. CASE PersistDurable
  BY <1>2, PersistDurableStep
<1>3. CASE PersistVolatile
  BY <1>3, PersistVolatileStep
<1>4. CASE CatchUp
  BY <1>4, CatchUpStep
<1>5. CASE Replay
  BY <1>5, ReplayStep
<1>6. CASE Reconcile
  BY <1>6, ReconcileStep
<1>7. CASE AlreadyProcessed \/ QueryAlerts \/ Complete \/ GapFails
  BY <1>7, CycleStep DEF AlreadyProcessed, QueryAlerts, Complete, GapFails
<1>8. CASE \E a \in Actor : \/ \E f \in emitter[a].queue : Append_(a, f)
                            \/ Mark(a)
  <2>1. CASE \E a \in Actor : Mark(a)
    BY <2>1, MarkStep
  <2>2. CASE \E a \in Actor : \E f \in emitter[a].queue : Append_(a, f)
    BY <2>2, CycleStep DEF Append_
  <2> QED BY <1>8, <2>1, <2>2
<1>9. CASE Fail \/ Crash
  BY <1>9, CycleStep DEF Fail, Crash
<1>10. CASE \E seen \in Observation : ScanPersist(seen)
  BY <1>10, ScanPersistStep
<1>11. CASE ScanAlerts
  BY <1>11, CycleStep DEF ScanAlerts
<1>12. CASE UNCHANGED vars
  BY <1>12, CycleStep DEF vars
<1> QED
  BY <1>1, <1>2, <1>3, <1>4, <1>5, <1>6, <1>7, <1>8, <1>9, <1>10, <1>11, <1>12
     DEF Next, Service, Continue, Scan, Actor

LEMMA Invariance == Spec => []Inv
<1>1. Inv /\ [Next]_vars => Inv'
  BY StepInv
<1> QED
  BY <1>1, InitInv, PTL DEF Spec

(* The parts of the state have their types: a record names a cycle that    *)
(* was processed, a processed cycle was committed, and an alert is marked  *)
(* for a finding that is stored.                                           *)
THEOREM LifecycleTypes == Spec => []TypeOK
<1>1. Inv => TypeOK
  BY DEF Inv
<1> QED
  BY <1>1, Invariance, PTL

(* An incident ends by the reconciliation of a cycle that covered it and   *)
(* did not see it, and that was persisted after the incident was last      *)
(* seen - with any crashes, failed cycles, replays, retention and other    *)
(* processes in between (source_aware_lifecycle.py).                       *)
THEOREM AbsenceMustBeCovered == Spec => OnlyCoverageResolves
<1>1. Inv /\ [Next]_vars =>
        [\A i \in Active :
           ~repo'.rec[i].active =>
             /\ i \in svc.cycle.covered /\ svc.cycle.seen[i] = 0
             /\ repo.rec[i].finding < svc.cycle.id]_vars
  BY StepInv DEF Allowed
<1> QED
  BY <1>1, Invariance, PTL DEF Spec, OnlyCoverageResolves

-----------------------------------------------------------------------------
(* Findings stay stored while retention does not delete by age *)

FindingsAreStored ==
    /\ \A c \in DOMAIN store.chain : SeenIn(c, store.chain[c]) \subseteq store.findings
    /\ \A c \in DOMAIN svc.cycle.rows : SeenIn(c, svc.cycle.rows[c]) \subseteq store.findings
    /\ svc.cycle.pc \in {"persisted", "replaying"} =>
          SeenIn(svc.cycle.id, svc.cycle.seen) \subseteq store.findings
    /\ \A i \in Active : <<i, repo.rec[i].finding>> \in store.findings

(* What a new cycle and retention leave of the chain. *)
LEMMA ChainGrows ==
    ASSUME Inv, NEW seen \in Observation, store.lastId < MaxId,
           NEW s, s = Added(store, seen), store' \in {s} \cup {Retain(s, old) : old \in Old(s)}
    PROVE  /\ StoreOK(store') /\ store'.lastId = store.lastId + 1
           /\ \A c \in DOMAIN store'.chain :
                 \/ c = store.lastId + 1 /\ store'.chain[c] = seen
                 \/ c \in DOMAIN store.chain /\ store'.chain[c] = store.chain[c]
<1>1. StoreOK(store') /\ store'.lastId = store.lastId + 1
  BY GrownStore
<1> DEFINE id    == store.lastId + 1
           chain == [c \in DOMAIN store.chain \cup {id} |->
                        IF c = id THEN seen ELSE store.chain[c]]
<1>2. s.chain = chain
  BY InvParts DEF StoreOK, Added
<1>3. store'.chain = chain \/ \E C \in SUBSET DOMAIN chain : store'.chain = Restrict(chain, C)
  <2>1. CASE store' = s
    BY <1>2, <2>1
  <2>2. ASSUME NEW old \in Old(s), store' = Retain(s, old)
        PROVE  \E C \in SUBSET DOMAIN chain : store'.chain = Restrict(chain, C)
    <3>1. StoreOK(s)
      BY InvParts, AddedType
    <3> HIDE DEF chain
    <3> QED
      BY <1>2, <2>2, <3>1 DEF Retain, StoreOK
  <2> QED
    BY <2>1, <2>2
<1>4. ASSUME NEW C \in SUBSET DOMAIN chain, NEW c \in DOMAIN Restrict(chain, C)
      PROVE  c \in DOMAIN chain /\ Restrict(chain, C)[c] = chain[c]
  BY DEF Restrict
<1>5. \A c \in DOMAIN store'.chain : c \in DOMAIN chain /\ store'.chain[c] = chain[c]
  <2> HIDE DEF chain
  <2> QED
    BY <1>3, <1>4
<1> QED
  BY <1>1, <1>5

(* Without deletion by age no finding and no alert goes. *)
LEMMA FindingsGrow ==
    ASSUME Inv, ~Ages, NEW seen \in Observation, store.lastId < MaxId,
           NEW s, s = Added(store, seen), store' \in {s} \cup {Retain(s, old) : old \in Old(s)}
    PROVE  /\ store'.findings = store.findings \cup SeenIn(store.lastId + 1, seen)
           /\ store'.alerts = store.alerts
<1>1. StoreOK(s) /\ StoreOK(store)
  BY InvParts, AddedType
<1>2. s.findings = store.findings \cup SeenIn(store.lastId + 1, seen) /\ s.alerts = store.alerts
  BY <1>1 DEF Added, StoreOK, SeenIn
<1>3. ASSUME store' = Retain(s, 0) PROVE store'.findings = s.findings /\ store'.alerts = s.alerts
  <2>1. {f \in s.findings : f[2] > 0} = s.findings
    BY <1>1, ParameterAssumption DEF StoreOK
  <2>2. s.alerts \cap s.findings = s.alerts
    BY <1>1 DEF StoreOK
  <2> QED
    BY <1>1, <1>3, <2>1, <2>2 DEF Retain, StoreOK
<1> QED
  BY <1>2, <1>3 DEF Old

(* A record that is active after a reconciliation. *)
LEMMA StoredActive ==
    ASSUME NEW n, NEW r, RepoOK(r, n), NEW id \in 1..MaxId, NEW seen \in Observation,
           NEW ended \in SUBSET {j \in Incident : r.rec[j].active}, NEW noted,
           NEW i \in Incident, Stored(r, id, seen, ended, noted).rec[i].active
    PROVE  \/ /\ seen[i] > 0
              /\ Stored(r, id, seen, ended, noted).rec[i] = Observed(r.rec[i], id, seen[i])
           \/ /\ seen[i] = 0 /\ i \notin ended
              /\ Stored(r, id, seen, ended, noted).rec[i] = r.rec[i]
<1> DEFINE rec == Records(r, id, seen, ended)
           x   == [last |-> id, rec |-> rec,
                   trans |-> r.trans \union {Transition(rec, id, j) : j \in noted}]
<1>1. Stored(r, id, seen, ended, noted).rec[i] \in {NoRecord, rec[i]}
  <2>1. Stored(r, id, seen, ended, noted) = PrunedRepo(x)
    BY DEF Stored
  <2>2. x.rec = rec /\ DOMAIN x = {"last", "rec", "trans"}
    OBVIOUS
  <2> HIDE DEF x, rec
  <2> QED
    BY <2>1, <2>2 DEF PrunedRepo
<1>2. ~NoRecord.active
  BY DEF NoRecord
<1>3. rec[i].active /\ Stored(r, id, seen, ended, noted).rec[i] = rec[i]
  <2> HIDE DEF rec
  <2> QED
    BY <1>1, <1>2
<1>4. seen[i] \in 0..MaxScore
  BY DEF Observation
<1>5. i \in ended /\ i \notin Present(seen) => ~rec[i].active
  <2>1. i \in ended => r.rec[i] \in Record
    BY DEF RepoOK, NoRecord
  <2> QED
    BY <2>1, ResolvedType DEF Records
<1> QED
  BY <1>3, <1>4, <1>5, ParameterAssumption DEF Records, Present

LEMMA ReconcileIs ==
    ASSUME Inv, Reconcile
    PROVE  LET c     == svc.cycle
               ended == Resolvable(repo, c.seen, c.covered)
               fresh == {i \in Present(c.seen) : ~repo.rec[i].active \/ repo.rec[i].score # c.seen[i]}
           IN  /\ c.seen \in Observation /\ c.id \in 1..store.lastId /\ c.id \in 1..MaxId
               /\ c.id > repo.last /\ RepoOK(repo, store.lastId) /\ store.lastId \in 0..MaxId
               /\ ended \in SUBSET {i \in Incident : repo.rec[i].active}
               /\ repo' = Stored(repo, c.id, c.seen, ended, ended \union fresh)
<1>1. /\ SvcOK(svc, store.lastId) /\ store.lastId \in 0..MaxId /\ MaxId \in Nat
      /\ RepoOK(repo, store.lastId)
  BY InvParts, ParameterAssumption DEF StoreOK
<1>2. /\ svc.cycle.seen \in Observation /\ svc.cycle.covered \subseteq Incident
      /\ svc.cycle.id \in 0..store.lastId
  BY <1>1 DEF SvcOK, Cycle
<1>3. svc.cycle.id > repo.last
  BY <1>1, <1>2 DEF Reconcile, Processed, RepoOK
<1>4. svc.cycle.id \in 1..store.lastId /\ svc.cycle.id \in 1..MaxId
  BY <1>1, <1>2, <1>3 DEF RepoOK
<1> QED
  BY <1>1, <1>2, <1>3, <1>4 DEF Reconcile, Reconciled, Resolvable

LEMMA ReplayIs ==
    ASSUME Inv, Replay
    PROVE  LET rows == svc.cycle.rows
               id   == Min(DOMAIN rows)
           IN  /\ rows \in Rows(store.lastId) /\ id \in DOMAIN rows
               /\ rows[id] \in Observation /\ id \in 1..store.lastId /\ id \in 1..MaxId
               /\ \A c \in DOMAIN rows : id <= c
               /\ RepoOK(repo, store.lastId) /\ store.lastId \in 0..MaxId
               /\ IF Processed(id) THEN UNCHANGED <<repo, hist>>
                  ELSE id > repo.last /\ repo' = Stored(repo, id, rows[id], {}, Present(rows[id]))
               /\ svc' = [svc EXCEPT !.cycle.rows = Restrict(rows, DOMAIN rows \ {id})]
               /\ UNCHANGED <<store, emitter>>
<1> DEFINE rows == svc.cycle.rows
           id   == Min(DOMAIN rows)
<1>1. /\ SvcOK(svc, store.lastId) /\ store.lastId \in 0..MaxId /\ MaxId \in Nat
      /\ RepoOK(repo, store.lastId)
  BY InvParts, ParameterAssumption DEF StoreOK
<1>2. rows \in Rows(store.lastId) /\ rows # << >>
  BY <1>1 DEF SvcOK, Cycle, Replay
<1>3. DOMAIN rows \in SUBSET (1..store.lastId) /\ rows \in [DOMAIN rows -> Observation]
  BY <1>1, <1>2, RowsAre
<1>4. DOMAIN rows # {}
  <2> HIDE DEF rows
  <2>1. ASSUME DOMAIN rows = {} PROVE FALSE
    BY <1>2, <1>3, <2>1
  <2> QED
    BY <2>1
<1>5. id \in DOMAIN rows /\ \A c \in DOMAIN rows : id <= c
  <2> DEFINE S == DOMAIN rows
  <2>1. S \in SUBSET Nat /\ S # {}
    BY <1>1, <1>3, <1>4
  <2> HIDE DEF S
  <2>2. Min(S) \in S /\ \A c \in S : Min(S) <= c
    BY <2>1, LeastOfNat
  <2> QED
    BY <2>2 DEF S
<1>6. rows[id] \in Observation /\ id \in 1..store.lastId /\ id \in 1..MaxId
  BY <1>1, <1>3, <1>5
<1>7. ~Processed(id) => id > repo.last
  BY <1>1, <1>6 DEF Processed, RepoOK
<1>8. /\ IF Processed(id) THEN UNCHANGED <<repo, hist>> ELSE repo' = Replayed(repo, id, rows[id])
      /\ svc' = [svc EXCEPT !.cycle.rows = Restrict(rows, DOMAIN rows \ {id})]
      /\ UNCHANGED <<store, emitter>>
  BY DEF Replay
<1> HIDE DEF rows, id
<1>9. /\ rows \in Rows(store.lastId) /\ id \in DOMAIN rows
      /\ rows[id] \in Observation /\ id \in 1..store.lastId /\ id \in 1..MaxId
      /\ \A c \in DOMAIN rows : id <= c
      /\ RepoOK(repo, store.lastId) /\ store.lastId \in 0..MaxId
      /\ IF Processed(id) THEN UNCHANGED <<repo, hist>>
         ELSE id > repo.last /\ repo' = Stored(repo, id, rows[id], {}, Present(rows[id]))
      /\ svc' = [svc EXCEPT !.cycle.rows = Restrict(rows, DOMAIN rows \ {id})]
      /\ UNCHANGED <<store, emitter>>
  BY <1>1, <1>2, <1>5, <1>6, <1>7, <1>8 DEF Replayed
<1> QED
  BY <1>9 DEF rows, id

(* Every step keeps the findings that matter. *)
LEMMA FindingsStep ==
    ASSUME Inv, FindingsAreStored, ~Ages, [Next]_vars
    PROVE  FindingsAreStored'
<1>1. /\ SvcOK(svc, store.lastId) /\ store.lastId \in 0..MaxId /\ MaxId \in Nat
      /\ RepoOK(repo, store.lastId) /\ StoreOK(store)
  BY InvParts, ParameterAssumption DEF StoreOK
<1> USE DEF FindingsAreStored
<1>2. DOMAIN << >> = {}
  OBVIOUS
<1>3. CASE \E seen \in Observation, covered \in SUBSET Incident : Collect(seen, covered)
  <2>1. PICK seen \in Observation, covered \in SUBSET Incident : Collect(seen, covered)
    BY <1>3
  <2>2. svc'.cycle.rows = << >> /\ svc'.cycle.pc = "collected" /\ UNCHANGED <<store, repo>>
    BY <1>1, <2>1 DEF Collect, NoCycle, SvcOK
  <2> QED
    BY <1>2, <2>2 DEF Active
<1>4. ASSUME NEW seen \in Observation, store.lastId < MaxId, UNCHANGED repo,
             store' \in {Added(store, seen)} \cup
                          {Retain(Added(store, seen), old) : old \in Old(Added(store, seen))}
      PROVE  /\ store.findings \subseteq store'.findings
             /\ SeenIn(store.lastId + 1, seen) \subseteq store'.findings
             /\ \A c \in DOMAIN store'.chain : SeenIn(c, store'.chain[c]) \subseteq store'.findings
             /\ \A i \in Active' : <<i, repo'.rec[i].finding>> \in store'.findings
  <2>1. store'.findings = store.findings \cup SeenIn(store.lastId + 1, seen)
    BY <1>4, FindingsGrow
  <2>2. \A c \in DOMAIN store'.chain :
           \/ c = store.lastId + 1 /\ store'.chain[c] = seen
           \/ c \in DOMAIN store.chain /\ store'.chain[c] = store.chain[c]
    BY <1>4, ChainGrows
  <2> QED
    BY <1>4, <2>1, <2>2 DEF Active
<1>5. CASE PersistDurable
  <2>1. /\ svc.cycle.seen \in Observation /\ store.lastId < MaxId /\ UNCHANGED repo
        /\ store' \in {Added(store, svc.cycle.seen)} \cup
             {Retain(Added(store, svc.cycle.seen), old) : old \in Old(Added(store, svc.cycle.seen))}
    BY <1>1, <1>5 DEF PersistDurable, SvcOK, Cycle
  <2>2. /\ svc'.cycle.rows = svc.cycle.rows /\ svc'.cycle.seen = svc.cycle.seen
        /\ svc'.cycle.id = store.lastId + 1
    BY <1>1, <1>5 DEF PersistDurable, Go, SvcOK, Cycle
  <2> QED
    BY <1>4, <2>1, <2>2
<1>6. CASE \E seen \in Observation : ScanPersist(seen)
  <2>1. PICK seen \in Observation : ScanPersist(seen)
    BY <1>6
  <2>2. /\ store.lastId < MaxId /\ UNCHANGED <<repo, svc>>
        /\ store' \in {Added(store, seen)} \cup
             {Retain(Added(store, seen), old) : old \in Old(Added(store, seen))}
    BY <1>1, <2>1 DEF ScanPersist
  <2> QED
    BY <1>4, <2>2
<1>7. CASE PersistVolatile
  <2>1. /\ svc'.cycle.rows = svc.cycle.rows /\ svc'.cycle.seen = Quiet /\ UNCHANGED <<store, repo>>
    BY <1>1, <1>7 DEF PersistVolatile, Go, SvcOK, Cycle
  <2>2. \A n : SeenIn(n, Quiet) = {}
    BY DEF SeenIn, Present, Quiet
  <2> QED
    BY <2>1, <2>2 DEF Active
<1>8. CASE CatchUp
  <2>1. /\ svc'.cycle.rows = Restrict(store.chain, Unprocessed) /\ At("persisted")
        /\ svc'.cycle.seen = svc.cycle.seen /\ svc'.cycle.id = svc.cycle.id
        /\ UNCHANGED store /\ repo'.rec = repo.rec
    BY <1>1, <1>8 DEF CatchUp, Go, SvcOK, Cycle, RepoOK
  <2>2. Unprocessed \subseteq DOMAIN store.chain
    BY DEF Unprocessed
  <2>3. \A c \in DOMAIN Restrict(store.chain, Unprocessed) :
           c \in DOMAIN store.chain /\ Restrict(store.chain, Unprocessed)[c] = store.chain[c]
    BY <2>2 DEF Restrict
  <2> QED
    BY <2>1, <2>3 DEF Active, At
<1>9. CASE Replay
  <2> DEFINE rows == svc.cycle.rows
             id   == Min(DOMAIN rows)
             left == Restrict(rows, DOMAIN rows \ {id})
  <2>1. /\ id \in DOMAIN rows /\ rows[id] \in Observation /\ id \in 1..MaxId
        /\ \/ UNCHANGED repo
           \/ repo' = Stored(repo, id, rows[id], {}, Present(rows[id]))
        /\ svc' = [svc EXCEPT !.cycle.rows = left] /\ UNCHANGED store
    BY <1>9, ReplayIs
  <2>2. \A c \in DOMAIN left : c \in DOMAIN rows /\ left[c] = rows[c]
    BY DEF Restrict
  <2>3. SeenIn(id, rows[id]) \subseteq store.findings
    BY <2>1
  <2> HIDE DEF left, id
  <2>4. /\ svc'.cycle.rows = left /\ svc'.cycle.seen = svc.cycle.seen
        /\ svc'.cycle.id = svc.cycle.id /\ svc'.cycle.pc = svc.cycle.pc
    BY <1>1, <2>1 DEF SvcOK, Cycle
  <2>5. \A i \in Active' : <<i, repo'.rec[i].finding>> \in store.findings
    <3>1. CASE UNCHANGED repo
      BY <3>1 DEF Active
    <3>2. CASE repo' = Stored(repo, id, rows[id], {}, Present(rows[id]))
      <4> SUFFICES ASSUME NEW i \in Incident, repo'.rec[i].active
                   PROVE  <<i, repo'.rec[i].finding>> \in store.findings
        BY DEF Active
      <4>1. \/ rows[id][i] > 0 /\ repo'.rec[i] = Observed(repo.rec[i], id, rows[id][i])
            \/ rows[id][i] = 0 /\ repo'.rec[i] = repo.rec[i]
        BY <1>1, <2>1, <3>2, StoredActive
      <4> QED
        BY <2>3, <4>1 DEF SeenIn, Present, Observed, Active
    <3> QED
      BY <2>1, <3>1, <3>2
  <2> QED
    BY <2>1, <2>2, <2>4, <2>5
<1>10. CASE Reconcile
  <2> DEFINE c == svc.cycle
  <2>1. PICK ended \in SUBSET {i \in Incident : repo.rec[i].active}, noted \in SUBSET Incident :
           /\ c.seen \in Observation /\ c.id \in 1..MaxId
           /\ repo' = Stored(repo, c.id, c.seen, ended, noted)
    BY <1>10, ReconcileIs DEF Present
  <2>2. /\ svc'.cycle.rows = c.rows /\ svc'.cycle.pc = "reconciled" /\ UNCHANGED store
        /\ At("replaying")
    BY <1>1, <1>10 DEF Reconcile, Go, SvcOK, Cycle
  <2>3. ASSUME NEW i \in Incident, repo'.rec[i].active
        PROVE  <<i, repo'.rec[i].finding>> \in store.findings
    <3>1. \/ c.seen[i] > 0 /\ repo'.rec[i] = Observed(repo.rec[i], c.id, c.seen[i])
          \/ c.seen[i] = 0 /\ repo'.rec[i] = repo.rec[i]
      BY <1>1, <2>1, <2>3, StoredActive
    <3> QED
      BY <2>2, <2>3, <3>1 DEF SeenIn, Present, Observed, Active, At
  <2> QED
    BY <2>2, <2>3 DEF Active
<1>11. CASE \/ AlreadyProcessed \/ QueryAlerts \/ Complete \/ GapFails \/ Fail \/ Crash
            \/ \E a \in Actor : \E f \in emitter[a].queue : Append_(a, f)
  <2>1. UNCHANGED <<store, repo>>
    BY <1>11 DEF AlreadyProcessed, QueryAlerts, Complete, GapFails, Append_, Fail, Crash
  <2>2. \/ svc'.cycle.rows = << >> /\ svc'.cycle.pc = "idle"
        \/ svc'.cycle.rows = svc.cycle.rows /\ svc'.cycle.pc \in {"reconciled", "alerting"}
        \/ UNCHANGED svc
    <3>1. CASE AlreadyProcessed \/ QueryAlerts
      BY <1>1, <3>1 DEF AlreadyProcessed, QueryAlerts, Go, SvcOK, Cycle
    <3>2. CASE Complete \/ GapFails \/ Fail
      BY <1>1, <3>2 DEF Complete, GapFails, Fail, NoCycle, SvcOK
    <3>3. CASE Crash
      BY <3>3 DEF Crash, NoCycle
    <3>4. CASE \E a \in Actor : \E f \in emitter[a].queue : Append_(a, f)
      BY <3>4 DEF Append_
    <3> QED
      BY <1>11, <3>1, <3>2, <3>3, <3>4
  <2> QED
    BY <1>2, <2>1, <2>2 DEF Active
<1>12. CASE \E a \in Actor : Mark(a)
  <2>1. /\ store'.chain = store.chain /\ store'.findings = store.findings
        /\ UNCHANGED <<repo, svc>>
    BY <1>1, <1>12 DEF Mark, StoreOK
  <2> QED
    BY <2>1 DEF Active
<1>13. CASE ScanAlerts \/ UNCHANGED vars
  BY <1>13 DEF ScanAlerts, vars, Active
<1> QED
  BY <1>3, <1>5, <1>6, <1>7, <1>8, <1>9, <1>10, <1>11, <1>12, <1>13
  DEF Next, Service, Continue, Scan, Actor

-----------------------------------------------------------------------------
(* The alerts and the history *)

Alert == [key : Incident, finding : 1..MaxId, score : 1..MaxScore]

EmitterOK == emitter \in [Actor -> [queue : SUBSET Alert, hand : SUBSET Alert]]

HistOK == hist \in [observed : SUBSET (Incident \X (1..MaxId)), top : [Incident -> 0..MaxScore],
                    ever : SUBSET Incident, crashes : Nat, errors : Nat, scans : Nat]

LEMMA EmitterParts ==
    ASSUME EmitterOK, NEW a \in Actor
    PROVE  /\ \A Q : [emitter[a] EXCEPT !.queue = Q] = [queue |-> Q, hand |-> emitter[a].hand]
           /\ \A H : [emitter[a] EXCEPT !.hand = H] = [queue |-> emitter[a].queue, hand |-> H]
<1>1. emitter[a] = [queue |-> emitter[a].queue, hand |-> emitter[a].hand]
  BY DEF EmitterOK
<1> QED
  BY <1>1

(* The alerts a query may return. *)
LEMMA QueryIs ==
    ASSUME Inv, EmitterOK, NEW a \in Actor, Query(a)
    PROVE  \E S \in Limited :
              LET found == {[key |-> i, finding |-> repo.rec[i].finding,
                             score |-> repo.rec[i].score] : i \in {i \in S : WantsAlert(i)}}
              IN  /\ S \subseteq Candidates /\ found \in SUBSET Alert
                  /\ emitter' = [emitter EXCEPT ![a] = [queue |-> found, hand |-> emitter[a].hand]]
<1>1. PICK S \in Limited :
        emitter' = [emitter EXCEPT ![a].queue =
                      {[key |-> i, finding |-> repo.rec[i].finding, score |-> repo.rec[i].score] :
                         i \in {i \in S : WantsAlert(i)}}]
  BY DEF Query
<1> DEFINE found == {[key |-> i, finding |-> repo.rec[i].finding,
                      score |-> repo.rec[i].score] : i \in {i \in S : WantsAlert(i)}}
<1>2. S \subseteq Candidates
  BY DEF Limited
<1>3. \A i \in Active : repo.rec[i] \in Record
  BY InvParts DEF Active, RepoOK, NoRecord
<1>4. \A i \in S : repo.rec[i] \in Record /\ i \in Incident
  BY <1>2, <1>3 DEF Candidates, Active, Alerting
<1>5. \A i \in S : repo.rec[i].finding \in 1..MaxId /\ repo.rec[i].score \in 1..MaxScore
  BY <1>4 DEF Record
<1>6. found \in SUBSET Alert
  BY <1>4, <1>5 DEF Alert
<1>7. emitter' = [emitter EXCEPT ![a].queue = found]
  BY <1>1
<1> HIDE DEF found
<1>8. emitter' = [emitter EXCEPT ![a] = [queue |-> found, hand |-> emitter[a].hand]]
  BY <1>7, EmitterParts, Zenon DEF EmitterOK
<1> QED
  BY <1>2, <1>6, <1>8 DEF found

LEMMA NotedIs ==
    ASSUME Inv, HistOK, NEW id \in 1..MaxId, NEW seen \in Observation, Noted(id, seen)
    PROVE  /\ HistOK' /\ hist'.ever = hist.ever /\ hist'.crashes = hist.crashes
           /\ hist'.errors = hist.errors /\ hist'.scans = hist.scans
           /\ hist'.top = [i \in Incident |->
                             IF ~repo.rec[i].active /\ Alerting(repo'.rec[i]) THEN 0
                             ELSE hist.top[i]]
           /\ hist'.observed
                = {o \in hist.observed \cup SeenIn(id, seen) : o[2] \in DOMAIN store.chain}
<1> DEFINE observed == {o \in hist.observed \cup SeenIn(id, seen) : o[2] \in DOMAIN store.chain}
           top == [i \in Incident |->
                     IF ~repo.rec[i].active /\ Alerting(repo'.rec[i]) THEN 0 ELSE hist.top[i]]
<1>1. hist' = [hist EXCEPT !.observed = observed, !.top = top]
  BY DEF Noted, HistOK
<1>2. observed \subseteq Incident \X (1..MaxId)
  BY DEF HistOK, SeenIn, Present
<1>3. top \in [Incident -> 0..MaxScore]
  BY ParameterAssumption DEF HistOK
<1> HIDE DEF observed, top
<1>4. /\ HistOK' /\ hist'.ever = hist.ever /\ hist'.crashes = hist.crashes
      /\ hist'.errors = hist.errors /\ hist'.scans = hist.scans
      /\ hist'.top = top /\ hist'.observed = observed
  BY <1>1, <1>2, <1>3 DEF HistOK
<1> QED
  BY <1>4 DEF observed, top

LEMMA AppendIs ==
    ASSUME Inv, HistOK, EmitterOK, NEW a \in Actor, NEW f \in emitter[a].queue, Append_(a, f)
    PROVE  /\ f \in Alert /\ HistOK' /\ EmitterOK'
           /\ hist'.ever = hist.ever \cup {f.key} /\ hist'.observed = hist.observed
           /\ hist'.crashes = hist.crashes /\ hist'.errors = hist.errors
           /\ hist'.scans = hist.scans
           /\ hist'.top = [hist.top EXCEPT ![f.key] = IF f.score > @ THEN f.score ELSE @]
           /\ emitter' = [emitter EXCEPT ![a] = [queue |-> emitter[a].queue \ {f}, hand |-> {f}]]
           /\ UNCHANGED <<store, repo, svc>>
<1> DEFINE ever == hist.ever \cup {f.key}
           top  == [hist.top EXCEPT ![f.key] = IF f.score > @ THEN f.score ELSE @]
           left == emitter[a].queue \ {f}
<1>1. f \in Alert /\ f.key \in Incident /\ f.score \in 1..MaxScore
  BY DEF EmitterOK, Alert
<1>2. hist' = [hist EXCEPT !.ever = ever, !.top = top]
  BY <1>1 DEF Append_, HistOK
<1>3. ever \subseteq Incident /\ top \in [Incident -> 0..MaxScore]
  BY <1>1, ParameterAssumption DEF HistOK
<1>4. emitter' = [emitter EXCEPT ![a] = [queue |-> left, hand |-> {f}]]
  <2> DEFINE half == [emitter EXCEPT ![a] = [queue |-> left, hand |-> emitter[a].hand]]
  <2>1. emitter' = [half EXCEPT ![a].hand = {f}]
    BY EmitterParts DEF Append_, EmitterOK
  <2>2. half[a] = [queue |-> left, hand |-> emitter[a].hand] /\ DOMAIN half = Actor
    BY DEF EmitterOK
  <2>3. [half[a] EXCEPT !.hand = {f}] = [queue |-> left, hand |-> {f}]
    BY <2>2
  <2>4. emitter' = [half EXCEPT ![a] = [queue |-> left, hand |-> {f}]]
    <3> HIDE DEF half
    <3> QED
      BY <2>1, <2>3
  <2> QED
    BY <2>4
<1>5. left \subseteq Alert
  BY DEF EmitterOK
<1> HIDE DEF ever, top, left
<1>6. /\ HistOK' /\ hist'.ever = ever /\ hist'.top = top /\ hist'.observed = hist.observed
      /\ hist'.crashes = hist.crashes /\ hist'.errors = hist.errors
      /\ hist'.scans = hist.scans
  BY <1>2, <1>3 DEF HistOK
<1>7. EmitterOK'
  BY <1>1, <1>4, <1>5 DEF EmitterOK
<1>8. UNCHANGED <<store, repo, svc>>
  BY DEF Append_
<1> QED
  BY <1>1, <1>4, <1>6, <1>7, <1>8 DEF ever, top, left

LEMMA MarkIs ==
    ASSUME Inv, EmitterOK, NEW a \in Actor, Mark(a)
    PROVE  \E f \in emitter[a].hand :
              /\ f \in Alert /\ <<f.key, f.finding>> \in store.findings /\ EmitterOK'
              /\ store'.chain = store.chain /\ store'.lastId = store.lastId
              /\ store'.findings = store.findings
              /\ store'.alerts = store.alerts \cup {<<f.key, f.finding>>}
              /\ emitter' = [emitter EXCEPT ![a] = [queue |-> emitter[a].queue, hand |-> {}]]
              /\ UNCHANGED <<repo, svc, hist>>
<1>1. PICK f \in emitter[a].hand :
        /\ <<f.key, f.finding>> \in store.findings
        /\ store' = [store EXCEPT !.alerts = @ \cup {<<f.key, f.finding>>}]
        /\ emitter' = [emitter EXCEPT ![a].hand = {}]
        /\ UNCHANGED <<repo, svc, hist>>
  BY DEF Mark
<1>2. f \in Alert
  BY DEF EmitterOK
<1>3. emitter' = [emitter EXCEPT ![a] = [queue |-> emitter[a].queue, hand |-> {}]]
  BY <1>1, EmitterParts DEF EmitterOK
<1>4. EmitterOK'
  BY <1>3 DEF EmitterOK
<1>5. /\ store'.chain = store.chain /\ store'.lastId = store.lastId
      /\ store'.findings = store.findings
      /\ store'.alerts = store.alerts \cup {<<f.key, f.finding>>}
  BY <1>1, InvParts DEF StoreOK
<1> QED
  BY <1>1, <1>2, <1>3, <1>4, <1>5

(* The cycle in progress after each step of it. *)
LEMMA CycleIs ==
    ASSUME Inv
    PROVE  LET c == svc.cycle
               To(pc, id, seen, covered, rows) ==
                   svc'.cycle = [pc |-> pc, id |-> id, seen |-> seen, covered |-> covered,
                                 rows |-> rows]
           IN  /\ \A seen, covered : Collect(seen, covered) =>
                     To("collected", 0, seen, covered, << >>) /\ svc'.warm = svc.warm
               /\ PersistDurable =>
                     To("persisted", store.lastId + 1, c.seen, c.covered, c.rows) /\ svc'.warm
               /\ PersistVolatile =>
                     /\ To("persisted", Max(DOMAIN store.chain), c.seen, c.covered, c.rows)
                     /\ svc'.warm = svc.warm
               /\ CatchUp =>
                     /\ To("replaying", c.id, c.seen, c.covered, Restrict(store.chain, Unprocessed))
                     /\ svc'.warm = svc.warm
               /\ Replay =>
                     /\ To(c.pc, c.id, c.seen, c.covered,
                           Restrict(c.rows, DOMAIN c.rows \ {Min(DOMAIN c.rows)}))
                     /\ svc'.warm = svc.warm
               /\ Reconcile \/ AlreadyProcessed =>
                     To("reconciled", c.id, c.seen, c.covered, c.rows) /\ svc'.warm = svc.warm
               /\ QueryAlerts =>
                     To("alerting", c.id, c.seen, c.covered, c.rows) /\ svc'.warm = svc.warm
               /\ GapFails \/ Complete \/ Fail => svc'.cycle = NoCycle /\ svc'.warm = svc.warm
               /\ Crash => svc'.cycle = NoCycle /\ ~svc'.warm
<1> DEFINE c == svc.cycle
           To(pc, id, seen, covered, rows) ==
               svc'.cycle = [pc |-> pc, id |-> id, seen |-> seen, covered |-> covered,
                             rows |-> rows]
<1>1. /\ svc = [cycle |-> c, warm |-> svc.warm]
      /\ c = [pc |-> c.pc, id |-> c.id, seen |-> c.seen, covered |-> c.covered, rows |-> c.rows]
  BY InvParts DEF SvcOK, Cycle
<1>2. \A x : svc' = [svc EXCEPT !.cycle = x] => svc'.cycle = x /\ svc'.warm = svc.warm
  BY <1>1
<1>3. \A pc : Go(pc) = [pc |-> pc, id |-> c.id, seen |-> c.seen, covered |-> c.covered,
                        rows |-> c.rows]
  BY <1>1 DEF Go
<1>4. ASSUME NEW seen, NEW covered, Collect(seen, covered)
      PROVE  To("collected", 0, seen, covered, << >>) /\ svc'.warm = svc.warm
  BY <1>2, <1>4 DEF Collect, NoCycle
<1>5. PersistDurable => To("persisted", store.lastId + 1, c.seen, c.covered, c.rows) /\ svc'.warm
  BY <1>3 DEF PersistDurable
<1>6. ASSUME PersistVolatile
      PROVE  /\ To("persisted", Max(DOMAIN store.chain), c.seen, c.covered, c.rows)
             /\ svc'.warm = svc.warm
  <2> DEFINE id == Max(DOMAIN store.chain)
  <2>1. svc' = [svc EXCEPT !.cycle = [Go("persisted") EXCEPT !.id = id]]
    BY <1>6 DEF PersistVolatile
  <2> HIDE DEF id
  <2>2. [Go("persisted") EXCEPT !.id = id]
           = [pc |-> "persisted", id |-> id, seen |-> c.seen, covered |-> c.covered, rows |-> c.rows]
    BY <1>3
  <2> QED
    BY <1>2, <2>1, <2>2 DEF id
<1>7. CatchUp =>
         /\ To("replaying", c.id, c.seen, c.covered, Restrict(store.chain, Unprocessed))
         /\ svc'.warm = svc.warm
  BY <1>2, <1>3 DEF CatchUp
<1>8. ASSUME Replay
      PROVE  /\ To(c.pc, c.id, c.seen, c.covered,
                   Restrict(c.rows, DOMAIN c.rows \ {Min(DOMAIN c.rows)}))
             /\ svc'.warm = svc.warm
  <2> DEFINE left == Restrict(c.rows, DOMAIN c.rows \ {Min(DOMAIN c.rows)})
  <2>1. svc' = [svc EXCEPT !.cycle.rows = left]
    BY <1>8 DEF Replay
  <2> HIDE DEF left
  <2>2. svc' = [svc EXCEPT !.cycle = [c EXCEPT !.rows = left]]
    BY <2>1
  <2>3. [c EXCEPT !.rows = left] = [pc |-> c.pc, id |-> c.id, seen |-> c.seen,
                                    covered |-> c.covered, rows |-> left]
    BY <1>1
  <2> QED
    BY <1>2, <2>2, <2>3 DEF left
<1>9. Reconcile \/ AlreadyProcessed =>
         To("reconciled", c.id, c.seen, c.covered, c.rows) /\ svc'.warm = svc.warm
  BY <1>2, <1>3 DEF Reconcile, AlreadyProcessed
<1>10. QueryAlerts => To("alerting", c.id, c.seen, c.covered, c.rows) /\ svc'.warm = svc.warm
  BY <1>2, <1>3 DEF QueryAlerts
<1>11. GapFails \/ Complete \/ Fail => svc'.cycle = NoCycle /\ svc'.warm = svc.warm
  BY <1>2 DEF GapFails, Complete, Fail
<1>12. Crash => svc'.cycle = NoCycle /\ ~svc'.warm
  BY DEF Crash
<1> QED
  BY <1>4, <1>5, <1>6, <1>7, <1>8, <1>9, <1>10, <1>11, <1>12

(* Steps that take no part in the alerts. *)
LEMMA OtherSteps ==
    ASSUME Inv, HistOK, EmitterOK, [Next]_vars
    PROVE  \/ \E a \in Actor : \E f \in emitter[a].queue : Append_(a, f)
           \/ \E a \in Actor : Mark(a)
           \/ QueryAlerts
           \/ ScanAlerts
           \/ /\ HistOK' /\ EmitterOK' /\ hist'.ever = hist.ever
              /\ UNCHANGED emitter \/ emitter' = [emitter EXCEPT !["service"] = NoAlerts]
              /\ (UNCHANGED <<svc, emitter>> /\ UNCHANGED repo) \/ svc'.cycle.pc # "alerting"
<1>1. SvcOK(svc, store.lastId)
  BY InvParts
<1>2. HistOK /\ UNCHANGED hist => HistOK' /\ hist'.ever = hist.ever
  BY DEF HistOK
<1>3. EmitterOK /\ UNCHANGED emitter => EmitterOK'
  BY DEF EmitterOK
<1>4. ASSUME emitter' = [emitter EXCEPT !["service"] = NoAlerts] PROVE EmitterOK'
  BY <1>4 DEF EmitterOK, NoAlerts
<1>5. CASE \/ \E seen \in Observation, covered \in SUBSET Incident : Collect(seen, covered)
           \/ PersistDurable \/ PersistVolatile \/ CatchUp \/ AlreadyProcessed \/ GapFails
           \/ Complete
  <2>1. UNCHANGED <<hist, emitter>>
    BY <1>5 DEF Collect, PersistDurable, PersistVolatile, CatchUp, AlreadyProcessed, GapFails,
                Complete
  <2>2. svc'.cycle.pc # "alerting"
    <3>1. CASE \E seen \in Observation, covered \in SUBSET Incident : Collect(seen, covered)
      <4>1. PICK seen \in Observation, covered \in SUBSET Incident : Collect(seen, covered)
        BY <3>1
      <4>2. svc'.cycle = [pc |-> "collected", id |-> 0, seen |-> seen, covered |-> covered,
                          rows |-> << >>]
        BY <4>1, CycleIs
      <4> QED
        BY <4>2
    <3>2. PersistDurable => svc'.cycle.pc = "persisted"
      BY CycleIs
    <3>3. PersistVolatile => svc'.cycle.pc = "persisted"
      BY CycleIs
    <3>4. CatchUp => svc'.cycle.pc = "replaying"
      BY CycleIs
    <3>5. AlreadyProcessed => svc'.cycle.pc = "reconciled"
      BY CycleIs
    <3>6. GapFails \/ Complete => svc'.cycle = NoCycle
      BY CycleIs
    <3> QED
      BY <1>5, <3>1, <3>2, <3>3, <3>4, <3>5, <3>6 DEF NoCycle
  <2> QED
    BY <1>2, <1>3, <2>1, <2>2
<1>6. CASE Replay
  <2>1. svc'.cycle.pc = "replaying" /\ UNCHANGED emitter
    BY <1>1, <1>6 DEF Replay, At, SvcOK, Cycle
  <2>2. HistOK' /\ hist'.ever = hist.ever
    <3>1. CASE UNCHANGED hist
      BY <1>2, <3>1
    <3>2. CASE ~UNCHANGED hist
      <4>1. PICK id : id = Min(DOMAIN svc.cycle.rows)
        OBVIOUS
      <4>2. id \in 1..MaxId /\ svc.cycle.rows[id] \in Observation
        BY <1>6, <4>1, ReplayIs
      <4>3. Noted(id, svc.cycle.rows[id])
        BY <1>6, <3>2, <4>1 DEF Replay
      <4> QED
        BY <4>2, <4>3, NotedIs
    <3> QED
      BY <3>1, <3>2
  <2> QED
    BY <1>3, <2>1, <2>2
<1>7. CASE Reconcile
  <2>1. svc'.cycle.pc = "reconciled" /\ UNCHANGED emitter /\ Noted(svc.cycle.id, svc.cycle.seen)
    BY <1>1, <1>7 DEF Reconcile, Go, SvcOK, Cycle
  <2>2. svc.cycle.id \in 1..MaxId /\ svc.cycle.seen \in Observation
    BY <1>7, ReconcileIs
  <2> QED
    BY <1>3, <2>1, <2>2, NotedIs
<1>8. CASE Fail \/ Crash
  <2>1. svc'.cycle.pc = "idle" /\ emitter' = [emitter EXCEPT !["service"] = NoAlerts]
    BY <1>1, <1>8 DEF Fail, Crash, NoCycle, SvcOK
  <2>2. HistOK' /\ hist'.ever = hist.ever
    BY <1>8 DEF Fail, Crash, HistOK
  <2> QED
    BY <1>4, <2>1, <2>2
<1>9. CASE \E seen \in Observation : ScanPersist(seen)
  BY <1>3, <1>9 DEF ScanPersist, HistOK
<1>10. CASE UNCHANGED vars
  BY <1>2, <1>3, <1>10 DEF vars
<1> QED
  BY <1>5, <1>6, <1>7, <1>8, <1>9, <1>10 DEF Next, Service, Continue, Scan, Actor

LEMMA EmitterStep ==
    ASSUME Inv, HistOK, EmitterOK, [Next]_vars
    PROVE  HistOK' /\ EmitterOK'
<1>1. ASSUME NEW a \in Actor, Query(a), UNCHANGED hist PROVE HistOK' /\ EmitterOK'
  BY <1>1, QueryIs DEF HistOK, EmitterOK
<1>2. CASE \E a \in Actor : \E f \in emitter[a].queue : Append_(a, f)
  BY <1>2, AppendIs
<1>3. CASE \E a \in Actor : Mark(a)
  BY <1>3, MarkIs DEF HistOK
<1>4. CASE QueryAlerts \/ ScanAlerts
  BY <1>1, <1>4 DEF QueryAlerts, ScanAlerts, Actor
<1> QED
  BY <1>2, <1>3, <1>4, OtherSteps

-----------------------------------------------------------------------------
(* Every incident of high or critical severity has been in the alert log *)

Alertable == {i \in Incident : Alerting(repo.rec[i])}

(* An alert that is marked, or about to be, is in the log; and while a     *)
(* cycle's alerts are written, the incidents not yet in it are queued.     *)
AlertsAreLogged ==
    /\ \A x \in store.alerts : x[1] \in hist.ever
    /\ \A a \in Actor : \A f \in emitter[a].hand : f.key \in hist.ever
    /\ At("alerting") =>
          \A i \in Alertable : i \in hist.ever \/ \E f \in emitter["service"].queue : f.key = i

(* A query within its LIMIT leaves no candidate out. *)
LEMMA LimitedIsAll ==
    ASSUME IsFiniteSet(Incident), Cardinality(Incident) <= Limit, NEW S \in Limited
    PROVE  S = Candidates
<1>1. Candidates \in SUBSET Incident
  BY DEF Candidates
<1>2. /\ IsFiniteSet(Candidates) /\ Cardinality(Candidates) <= Cardinality(Incident)
  BY <1>1, FS_Subset
<1>3. Cardinality(Candidates) \in Nat /\ Cardinality(Incident) \in Nat /\ Limit \in Nat
  BY <1>2, FS_CardinalityType, ParameterAssumption
<1>4. Cardinality(S) = Cardinality(Candidates) /\ S \in SUBSET Candidates
  BY <1>2, <1>3 DEF Limited
<1> QED
  BY <1>2, <1>4, FS_Subset

LEMMA LoggedStep ==
    ASSUME IsFiniteSet(Incident), Cardinality(Incident) <= Limit, ~Ages,
           Inv, HistOK, EmitterOK, FindingsAreStored, AlertsAreLogged, [Next]_vars
    PROVE  AlertsAreLogged'
<1>1. /\ SvcOK(svc, store.lastId) /\ store.lastId \in 0..MaxId /\ StoreOK(store)
  BY InvParts DEF StoreOK
<1> USE DEF AlertsAreLogged
<1>2. CASE \E a \in Actor : \E f \in emitter[a].queue : Append_(a, f)
  <2>1. PICK a \in Actor : \E f \in emitter[a].queue : Append_(a, f)
    BY <1>2
  <2>2. PICK f \in emitter[a].queue : Append_(a, f)
    BY <2>1
  <2>3. /\ hist'.ever = hist.ever \cup {f.key} /\ UNCHANGED <<store, repo, svc>>
        /\ emitter' = [emitter EXCEPT ![a] = [queue |-> emitter[a].queue \ {f}, hand |-> {f}]]
    BY <2>1, <2>2, AppendIs
  <2>4. \A b \in Actor : \/ b = a /\ emitter'[b].queue = emitter[b].queue \ {f}
                                  /\ emitter'[b].hand = {f}
                         \/ b # a /\ emitter'[b] = emitter[b]
    BY <2>3 DEF EmitterOK
  <2>5. "service" \in Actor
    BY DEF Actor
  <2>6. \A b \in Actor : \A g \in emitter'[b].hand : g.key \in hist'.ever
    BY <2>3, <2>4
  <2>7. \A x \in store'.alerts : x[1] \in hist'.ever
    BY <2>3
  <2>8. At("alerting") =>
          \A i \in Alertable : i \in hist'.ever \/ \E g \in emitter'["service"].queue : g.key = i
    BY <2>3, <2>4, <2>5
  <2> QED
    BY <2>3, <2>6, <2>7, <2>8 DEF At, Alertable
<1>3. CASE \E a \in Actor : Mark(a)
  <2>1. PICK a \in Actor : Mark(a)
    BY <1>3
  <2>2. PICK f \in emitter[a].hand :
              /\ store'.alerts = store.alerts \cup {<<f.key, f.finding>>}
              /\ emitter' = [emitter EXCEPT ![a] = [queue |-> emitter[a].queue, hand |-> {}]]
              /\ UNCHANGED <<repo, svc, hist>>
    BY <2>1, MarkIs
  <2>3. \A b \in Actor : emitter'[b].queue = emitter[b].queue /\ emitter'[b].hand \subseteq emitter[b].hand
    BY <2>2 DEF EmitterOK
  <2>4. <<f.key, f.finding>>[1] = f.key
    OBVIOUS
  <2> QED
    BY <2>2, <2>3, <2>4 DEF At, Alertable, Actor
<1>4. ASSUME NEW b \in Actor, Query(b), UNCHANGED <<store, repo, hist>>
      PROVE  /\ \A a \in Actor : emitter'[a].hand = emitter[a].hand
             /\ \A a \in Actor : a # b => emitter'[a] = emitter[a]
             /\ \A i \in Alertable : i \in hist.ever \/ \E f \in emitter'[b].queue : f.key = i
  <2>1. PICK S \in Limited :
              emitter' = [emitter EXCEPT ![b] =
                [queue |-> {[key |-> i, finding |-> repo.rec[i].finding,
                             score |-> repo.rec[i].score] : i \in {i \in S : WantsAlert(i)}},
                 hand |-> emitter[b].hand]]
    BY <1>4, QueryIs
  <2>2. S = Candidates /\ Candidates = Alertable
    BY LimitedIsAll DEF FindingsAreStored, Candidates, Active, Alertable, Alerting
  <2>3. \A a \in Actor : emitter'[a].hand = emitter[a].hand /\ (a # b => emitter'[a] = emitter[a])
    BY <2>1 DEF EmitterOK
  <2>4. ASSUME NEW i \in Alertable
        PROVE  i \in hist.ever \/ \E f \in emitter'[b].queue : f.key = i
    <3>1. CASE WantsAlert(i)
      <4> DEFINE f == [key |-> i, finding |-> repo.rec[i].finding, score |-> repo.rec[i].score]
      <4>1. f \in emitter'[b].queue
        BY <2>1, <2>2, <3>1 DEF EmitterOK
      <4>2. f.key = i
        OBVIOUS
      <4> QED
        BY <4>1, <4>2
    <3>2. CASE ~WantsAlert(i)
      <4>1. PICK t : <<i, t.finding>> \in store.alerts
        BY <3>2 DEF WantsAlert, FirstAlert, AlertedOf
      <4> QED
        BY <4>1
    <3> QED
      BY <3>1, <3>2
  <2> QED
    BY <2>3, <2>4
<1>5. CASE QueryAlerts
  <2>1. Query("service") /\ UNCHANGED <<store, repo, hist>> /\ "service" \in Actor
    BY <1>5 DEF QueryAlerts, Actor
  <2> QED
    BY <1>4, <2>1 DEF Alertable
<1>6. CASE ScanAlerts
  <2>1. Query("scan") /\ UNCHANGED <<store, repo, svc, hist>> /\ "scan" \in Actor
        /\ "service" \in Actor /\ "service" # "scan"
    BY <1>6 DEF ScanAlerts, Actor
  <2> QED
    BY <1>4, <2>1 DEF Alertable, At
<1>7. CASE /\ hist'.ever = hist.ever
           /\ UNCHANGED emitter \/ emitter' = [emitter EXCEPT !["service"] = NoAlerts]
           /\ (UNCHANGED <<svc, emitter>> /\ UNCHANGED repo) \/ svc'.cycle.pc # "alerting"
           /\ store'.alerts \subseteq store.alerts
  <2>1. \A a \in Actor : emitter'[a].hand \subseteq emitter[a].hand
    BY <1>7 DEF EmitterOK, NoAlerts
  <2> QED
    BY <1>7, <2>1 DEF At, Alertable
<1>8. (\E a \in Actor : Mark(a)) \/ store'.alerts \subseteq store.alerts
  <2>1. ASSUME NEW seen \in Observation, store.lastId < MaxId,
               store' \in {Added(store, seen)} \cup
                            {Retain(Added(store, seen), old) : old \in Old(Added(store, seen))}
        PROVE  store'.alerts \subseteq store.alerts
    BY <2>1, FindingsGrow
  <2>2. CASE PersistDurable
    BY <1>1, <2>1, <2>2 DEF PersistDurable, SvcOK, Cycle
  <2>3. CASE \E seen \in Observation : ScanPersist(seen)
    BY <1>1, <2>1, <2>3, ParameterAssumption DEF ScanPersist
  <2>4. CASE UNCHANGED store
    BY <2>4
  <2> QED
    BY <2>2, <2>3, <2>4 DEF Next, Service, Continue, Scan, Actor, vars, Collect, PersistVolatile,
       CatchUp, Replay, Reconcile, AlreadyProcessed, GapFails, QueryAlerts, Append_, Complete,
       Fail, Crash, ScanAlerts
<1> QED
  BY <1>2, <1>3, <1>5, <1>6, <1>7, <1>8, OtherSteps

LEMMA LoggedInit == Init => HistOK /\ EmitterOK /\ FindingsAreStored /\ AlertsAreLogged
<1> SUFFICES ASSUME Init PROVE HistOK /\ EmitterOK /\ FindingsAreStored /\ AlertsAreLogged
  OBVIOUS
<1>1. HistOK
  BY ParameterAssumption DEF Init, HistOK, Quiet
<1>2. EmitterOK
  BY DEF Init, EmitterOK, NoAlerts
<1>3. FindingsAreStored
  BY DEF Init, FindingsAreStored, NoCycle, Active, NoRecord
<1>4. AlertsAreLogged
  BY DEF Init, AlertsAreLogged, NoCycle, NoAlerts, At
<1> QED
  BY <1>1, <1>2, <1>3, <1>4

(* No alert is lost for good: when a cycle completes, every active         *)
(* incident of high or critical severity has been in the alert log - after *)
(* crashes and failed cycles, retention by count at any time, and next to  *)
(* quietward scan; provided the incidents are within the query's LIMIT and *)
(* no row is deleted by age (operational_findings.py, alerts.py).          *)
THEOREM ActiveIncidentsAlerted ==
    ASSUME IsFiniteSet(Incident), Cardinality(Incident) <= Limit, ~Ages
    PROVE  Spec => ActiveIncidentsWereAlerted
<1> DEFINE All == Inv /\ HistOK /\ EmitterOK /\ FindingsAreStored /\ AlertsAreLogged
<1>1. Init => All
  BY InitInv, LoggedInit
<1>2. All /\ [Next]_vars => All'
  BY StepInv, EmitterStep, FindingsStep, LoggedStep
<1>3. All /\ [Next]_vars =>
         [Complete => \A i \in Incident : Alerting(repo.rec[i]) => i \in hist.ever]_vars
  BY DEF Complete, NoAlerts, AlertsAreLogged, Alertable
<1> HIDE DEF All
<1> QED
  BY <1>1, <1>2, <1>3, PTL DEF Spec, ActiveIncidentsWereAlerted

-----------------------------------------------------------------------------
(* Every finding of a processed cycle was observed *)

(* The next cycle the repository needs is gone, so nothing more is         *)
(* reconciled.                                                             *)
Stuck == repo.last # 0 /\ repo.last < store.lastId /\ repo.last + 1 \notin DOMAIN store.chain

CaughtUp == repo.last = store.lastId \/ Stuck

(* The cycle in progress was committed by the service, or it is a volatile *)
(* one with the id of a row that was dealt with.                           *)
Committed ==
    /\ svc.cycle.id = store.lastId
    /\ svc.cycle.id \in DOMAIN store.chain => store.chain[svc.cycle.id] = svc.cycle.seen

Borrowed == svc.cycle.id \in DOMAIN store.chain /\ CaughtUp

Observing ==
    /\ EveryFindingHasALifecycleState
    /\ svc.cycle.pc \in {"persisted", "replaying"} => Committed \/ Borrowed
    /\ svc.cycle.pc \notin {"persisted", "replaying"} /\ svc.warm => CaughtUp
    /\ svc.cycle.pc = "replaying" =>
          /\ DOMAIN svc.cycle.rows = Unprocessed
          /\ \A c \in Unprocessed : svc.cycle.rows[c] = store.chain[c]

LEMMA StoredLast ==
    ASSUME NEW n, NEW r, RepoOK(r, n), NEW id, NEW seen, NEW ended, NEW noted
    PROVE  Stored(r, id, seen, ended, noted).last = id
<1> DEFINE rec == Records(r, id, seen, ended)
           trans == r.trans \union {Transition(rec, id, i) : i \in noted}
<1>1. Stored(r, id, seen, ended, noted) = PrunedRepo([last |-> id, rec |-> rec, trans |-> trans])
  BY DEF Stored
<1> HIDE DEF rec, trans
<1>2. PrunedRepo([last |-> id, rec |-> rec, trans |-> trans]).last = id
  BY DEF PrunedRepo
<1> QED
  BY <1>1, <1>2

(* The ids in play are natural numbers. *)
LEMMA Ids ==
    ASSUME Inv
    PROVE  /\ store.lastId \in Nat /\ repo.last \in 0..store.lastId
           /\ DOMAIN store.chain \in SUBSET (1..store.lastId)
           /\ svc.cycle.id \in 0..store.lastId
           /\ DOMAIN svc.cycle.rows \in SUBSET (1..store.lastId)
           /\ svc.cycle.rows = << >> <=> DOMAIN svc.cycle.rows = {}
<1>1. /\ StoreOK(store) /\ RepoOK(repo, store.lastId) /\ SvcOK(svc, store.lastId)
      /\ store.lastId \in Nat
  BY InvParts, ParameterAssumption DEF StoreOK
<1>2. /\ DOMAIN store.chain \in SUBSET (1..store.lastId) /\ svc.cycle.rows \in Rows(store.lastId)
      /\ svc.cycle.id \in 0..store.lastId
  BY <1>1, RowsAre DEF StoreOK, SvcOK, Cycle
<1>3. /\ DOMAIN svc.cycle.rows \in SUBSET (1..store.lastId)
      /\ svc.cycle.rows \in [DOMAIN svc.cycle.rows -> Observation]
  BY <1>1, <1>2, RowsAre
<1>4. DOMAIN << >> = {}
  OBVIOUS
<1>5. DOMAIN svc.cycle.rows = {} => svc.cycle.rows = << >>
  <2> DEFINE rows == svc.cycle.rows
  <2>1. rows \in [DOMAIN rows -> Observation]
    BY <1>3
  <2> HIDE DEF rows
  <2>2. DOMAIN rows = {} => rows = << >>
    BY <2>1
  <2> QED
    BY <2>2 DEF rows
<1> QED
  BY <1>1, <1>2, <1>3, <1>4, <1>5 DEF RepoOK

(* Retention and a new cycle leave a stuck repository stuck. *)
LEMMA ObservingPersist ==
    ASSUME Inv, Observing, PersistDurable
    PROVE  Observing'
<1>1. /\ svc.cycle.seen \in Observation /\ store.lastId < MaxId /\ UNCHANGED <<repo, hist>>
      /\ store' \in {Added(store, svc.cycle.seen)} \cup
           {Retain(Added(store, svc.cycle.seen), old) : old \in Old(Added(store, svc.cycle.seen))}
  BY InvParts DEF PersistDurable, SvcOK, Cycle
<1>2. /\ store'.lastId = store.lastId + 1
      /\ \A c \in DOMAIN store'.chain :
            \/ c = store.lastId + 1 /\ store'.chain[c] = svc.cycle.seen
            \/ c \in DOMAIN store.chain /\ store'.chain[c] = store.chain[c]
  BY <1>1, ChainGrows
<1>3. /\ svc'.cycle = [pc |-> "persisted", id |-> store.lastId + 1, seen |-> svc.cycle.seen,
                       covered |-> svc.cycle.covered, rows |-> svc.cycle.rows]
      /\ svc'.warm
  BY CycleIs
<1>4. EveryFindingHasALifecycleState'
  BY <1>1, <1>2, Ids DEF Observing, EveryFindingHasALifecycleState
<1>5. Committed'
  BY <1>2, <1>3, Ids DEF Committed
<1> QED
  BY <1>3, <1>4, <1>5 DEF Observing

LEMMA ObservingCatchUp ==
    ASSUME Inv, Observing, CatchUp
    PROVE  Observing'
<1>1. /\ svc'.cycle = [pc |-> "replaying", id |-> svc.cycle.id, seen |-> svc.cycle.seen,
                       covered |-> svc.cycle.covered, rows |-> Restrict(store.chain, Unprocessed)]
      /\ UNCHANGED <<store, hist>> /\ svc.cycle.pc = "persisted"
  BY CycleIs DEF CatchUp, At
<1>2. repo'.last = Floor /\ repo'.rec = repo.rec
  BY InvParts DEF CatchUp, RepoOK
<1>3. /\ Floor >= repo.last /\ Floor \in Nat
      /\ \A c \in Unprocessed : c > Floor
      /\ Floor # repo.last => ~CaughtUp
  <2>1. CASE StartsLate
    <3> DEFINE U == Unprocessed
    <3>1. U \in SUBSET Nat /\ U # {} /\ U \in SUBSET (1..store.lastId) /\ store.lastId \in Nat
      BY <2>1, Ids DEF StartsLate, Unprocessed
    <3>2. repo.last = 0 /\ Min(U) > 1
      BY <2>1 DEF StartsLate
    <3>3. Floor = Min(U) - 1
      BY <2>1 DEF Floor
    <3> HIDE DEF U
    <3>4. Min(U) \in U /\ \A c \in U : Min(U) <= c
      BY <3>1, LeastOfNat
    <3>5. Min(U) \in 1..store.lastId
      BY <3>1, <3>4
    <3> QED
      BY <3>1, <3>2, <3>3, <3>4, <3>5 DEF U, CaughtUp, Stuck
  <2>2. CASE ~StartsLate
    BY <2>2, Ids DEF Floor, Unprocessed
  <2> QED
    BY <2>1, <2>2
<1>4. /\ DOMAIN Restrict(store.chain, Unprocessed) = Unprocessed
      /\ \A c \in Unprocessed : Restrict(store.chain, Unprocessed)[c] = store.chain[c]
  BY DEF Restrict, Unprocessed
<1>5. Unprocessed' = Unprocessed
  BY <1>1, <1>2, <1>3, Ids DEF Unprocessed
<1>6. EveryFindingHasALifecycleState'
  <2> SUFFICES ASSUME NEW c \in DOMAIN store.chain, c <= Floor
               PROVE  SeenIn(c, store.chain[c]) \subseteq hist.observed
    BY <1>1, <1>2 DEF EveryFindingHasALifecycleState
  <2>1. c <= repo.last
    <3>1. CASE StartsLate
      <4> DEFINE U == Unprocessed
      <4>1. U \in SUBSET Nat /\ U # {} /\ Floor = Min(U) - 1
        BY <3>1, Ids DEF StartsLate, Unprocessed, Floor
      <4> HIDE DEF U
      <4>2. Min(U) \in U
        BY <4>1, LeastOfNat
      <4>3. Min(U) < svc.cycle.id /\ Min(U) \in Nat
        BY <4>1, <4>2 DEF U, Unprocessed
      <4> QED
        BY <4>1, <4>3, <1>3, Ids DEF Unprocessed
    <3>2. CASE ~StartsLate
      BY <3>2 DEF Floor
    <3> QED
      BY <3>1, <3>2
  <2> QED
    BY <2>1 DEF Observing, EveryFindingHasALifecycleState
<1>7. (Committed \/ Borrowed)'
  BY <1>1, <1>2, <1>3 DEF Observing, Committed, Borrowed, CaughtUp, Stuck
<1> QED
  BY <1>1, <1>4, <1>5, <1>6, <1>7 DEF Observing

(* Only a cycle the service committed gets past the check for gaps. *)
LEMMA NoGapNoStuck ==
    ASSUME Inv, CaughtUp, NEW id \in DOMAIN store.chain, ~Processed(id)
    PROVE  Gap(id)
BY Ids DEF CaughtUp, Stuck, Processed, Gap

LEMMA ObservingReplay ==
    ASSUME Inv, HistOK, Observing, Replay
    PROVE  Observing'
<1> DEFINE rows == svc.cycle.rows
           id   == Min(DOMAIN rows)
           left == Restrict(rows, DOMAIN rows \ {id})
<1>1. /\ id \in DOMAIN rows /\ rows[id] \in Observation /\ id \in 1..MaxId
      /\ id \in 1..store.lastId
      /\ \A c \in DOMAIN rows : id <= c
      /\ IF Processed(id) THEN UNCHANGED <<repo, hist>>
         ELSE repo' = Stored(repo, id, rows[id], {}, Present(rows[id]))
      /\ UNCHANGED store /\ RepoOK(repo, store.lastId)
  BY ReplayIs
<1>2. /\ svc'.cycle = [pc |-> svc.cycle.pc, id |-> svc.cycle.id, seen |-> svc.cycle.seen,
                       covered |-> svc.cycle.covered, rows |-> left]
      /\ svc.cycle.pc = "replaying"
  BY CycleIs DEF Replay, At
<1>3. /\ DOMAIN left = DOMAIN rows \ {id}
      /\ \A c \in DOMAIN left : left[c] = rows[c]
  BY DEF Restrict
<1>4. /\ DOMAIN rows = Unprocessed /\ \A c \in Unprocessed : rows[c] = store.chain[c]
  BY <1>2 DEF Observing
<1>5. ~Gap(id)
  BY DEF Replay
<1>6. ~Processed(id) => Noted(id, rows[id])
  BY DEF Replay
<1> HIDE DEF left, id, rows
<1>7. id \in DOMAIN store.chain /\ repo.last < id /\ ~Processed(id)
  BY <1>1, <1>4, Ids DEF Unprocessed, Processed
<1>8. Committed
  BY <1>2, <1>5, <1>7, NoGapNoStuck DEF Observing, Borrowed
<1>9. repo'.last = id
  BY <1>1, <1>7, StoredLast
<1>10. hist'.observed = {o \in hist.observed \cup SeenIn(id, rows[id]) : o[2] \in DOMAIN store.chain}
  BY <1>1, <1>6, <1>7, NotedIs
<1>11. Unprocessed' = DOMAIN left
  BY <1>1, <1>2, <1>3, <1>4, <1>7, <1>9, Ids DEF Unprocessed
<1>12. EveryFindingHasALifecycleState'
  <2> SUFFICES ASSUME NEW c \in DOMAIN store.chain, c <= id
               PROVE  SeenIn(c, store.chain[c]) \subseteq hist'.observed
    BY <1>1, <1>9 DEF EveryFindingHasALifecycleState
  <2>1. CASE c <= repo.last
    <3>1. SeenIn(c, store.chain[c]) \subseteq hist.observed
      BY <2>1 DEF Observing, EveryFindingHasALifecycleState
    <3>2. \A o \in SeenIn(c, store.chain[c]) : o[2] = c
      BY DEF SeenIn
    <3> QED
      BY <3>1, <3>2, <1>10
  <2>2. CASE c > repo.last
    <3>1. id < svc.cycle.id
      BY <1>1, <1>4 DEF Unprocessed
    <3>2. c \in Unprocessed
      BY <2>2, <3>1, <1>1, Ids DEF Unprocessed
    <3>3. c = id
      BY <3>2, <1>1, <1>4, Ids
    <3>4. \A o \in SeenIn(c, store.chain[c]) : o[2] = c
      BY DEF SeenIn
    <3> QED
      BY <3>2, <3>3, <3>4, <1>4, <1>10
  <2> QED
    BY <2>1, <2>2, Ids
<1>13. Committed'
  BY <1>1, <1>2, <1>8 DEF Committed
<1> QED
  BY <1>1, <1>2, <1>3, <1>4, <1>11, <1>12, <1>13 DEF Observing

LEMMA ObservingReconcile ==
    ASSUME Inv, HistOK, Observing, Reconcile
    PROVE  Observing'
<1> DEFINE c == svc.cycle
<1>1. PICK ended, noted :
        /\ c.seen \in Observation /\ c.id \in 1..MaxId /\ c.id > repo.last
        /\ repo' = Stored(repo, c.id, c.seen, ended, noted) /\ RepoOK(repo, store.lastId)
  BY ReconcileIs
<1>2. /\ svc'.cycle = [pc |-> "reconciled", id |-> c.id, seen |-> c.seen,
                       covered |-> c.covered, rows |-> c.rows]
      /\ UNCHANGED store /\ c.pc = "replaying" /\ c.rows = << >>
      /\ ~Processed(c.id) /\ ~Gap(c.id) /\ Noted(c.id, c.seen)
  BY CycleIs DEF Reconcile, At
<1>3. Committed
  BY <1>2, NoGapNoStuck DEF Observing, Borrowed
<1>4. repo'.last = store.lastId
  BY <1>1, <1>3, StoredLast DEF Committed
<1>5. hist'.observed = {o \in hist.observed \cup SeenIn(c.id, c.seen) : o[2] \in DOMAIN store.chain}
  BY <1>1, <1>2, NotedIs
<1>6. Unprocessed = {}
  BY <1>2, Ids DEF Observing
<1>7. EveryFindingHasALifecycleState'
  <2> SUFFICES ASSUME NEW b \in DOMAIN store.chain
               PROVE  SeenIn(b, store.chain[b]) \subseteq hist'.observed
    BY <1>2 DEF EveryFindingHasALifecycleState
  <2>1. b <= repo.last \/ b = c.id
    BY <1>3, <1>6, Ids DEF Unprocessed, Committed
  <2>2. SeenIn(b, store.chain[b]) \subseteq hist.observed \cup SeenIn(c.id, c.seen)
    BY <2>1, <1>3 DEF Observing, EveryFindingHasALifecycleState, Committed
  <2>3. \A o \in SeenIn(b, store.chain[b]) : o[2] = b
    BY DEF SeenIn
  <2> QED
    BY <2>2, <2>3, <1>5
<1>8. CaughtUp'
  BY <1>2, <1>4 DEF CaughtUp
<1> QED
  BY <1>2, <1>7, <1>8 DEF Observing

(* The gap error leaves the repository stuck. *)
LEMMA ObservingGap ==
    ASSUME Inv, Observing, GapFails
    PROVE  Observing'
<1> DEFINE S == DOMAIN svc.cycle.rows \cup {svc.cycle.id}
           g == Min(S)
<1>1. /\ svc'.cycle = NoCycle /\ UNCHANGED <<store, repo, hist>> /\ svc.cycle.pc = "replaying"
      /\ Gap(g)
  BY CycleIs DEF GapFails, At
<1>2. S \in SUBSET Nat /\ S # {} /\ S \in SUBSET (0..store.lastId)
  BY Ids
<1>3. DOMAIN svc.cycle.rows = Unprocessed
  BY <1>1 DEF Observing
<1> HIDE DEF S
<1>4. g \in S /\ \A x \in S : g <= x
  BY <1>2, LeastOfNat
<1> HIDE DEF g
<1>5. repo.last # 0 /\ g > repo.last /\ g # repo.last + 1 /\ g \in 0..store.lastId
  <2>1. g \in 0..store.lastId
    BY <1>2, <1>4
  <2>2. ~Processed(g) /\ repo.last # 0 /\ g # repo.last + 1
    BY <1>1 DEF Gap
  <2> QED
    BY <2>1, <2>2, Ids DEF Processed
<1>6. svc.cycle.id \in S /\ g <= svc.cycle.id
  BY <1>4 DEF S
<1>7. repo.last + 1 \notin DOMAIN store.chain
  <2> SUFFICES ASSUME repo.last + 1 \in DOMAIN store.chain PROVE FALSE
    OBVIOUS
  <2>1. repo.last + 1 < svc.cycle.id
    BY <1>5, <1>6, Ids
  <2>2. repo.last + 1 \in Unprocessed
    BY <2>1, Ids DEF Unprocessed
  <2>3. repo.last + 1 \in S
    BY <2>2, <1>3 DEF S
  <2> QED
    BY <2>3, <1>4, <1>5, Ids
<1>8. CaughtUp'
  BY <1>1, <1>5, <1>7, Ids DEF CaughtUp, Stuck
<1>9. EveryFindingHasALifecycleState'
  BY <1>1 DEF Observing, EveryFindingHasALifecycleState
<1> QED
  BY <1>1, <1>8, <1>9 DEF Observing, NoCycle

LEMMA ObservingStep ==
    ASSUME ~Scans, MaxErrors = 0, Inv, HistOK, EmitterOK, Observing, [Next]_vars
    PROVE  Observing'
<1>1. ASSUME UNCHANGED <<store, repo>>, hist'.observed = hist.observed
      PROVE  /\ EveryFindingHasALifecycleState' /\ (CaughtUp' <=> CaughtUp)
  BY <1>1 DEF Observing, EveryFindingHasALifecycleState, CaughtUp, Stuck
<1>2. CASE \E seen \in Observation, covered \in SUBSET Incident : Collect(seen, covered)
  <2>1. PICK seen \in Observation, covered \in SUBSET Incident : Collect(seen, covered)
    BY <1>2
  <2>2. svc'.cycle = [pc |-> "collected", id |-> 0, seen |-> seen, covered |-> covered,
                      rows |-> << >>] /\ svc'.warm = svc.warm
    BY <2>1, CycleIs
  <2>3. UNCHANGED <<store, repo, hist>> /\ svc.cycle.pc = "idle"
    BY <2>1 DEF Collect, At
  <2> QED
    BY <1>1, <2>2, <2>3 DEF Observing
<1>3. CASE PersistVolatile
  <2>1. /\ svc'.cycle = [pc |-> "persisted", id |-> Max(DOMAIN store.chain), seen |-> svc.cycle.seen,
                         covered |-> svc.cycle.covered, rows |-> svc.cycle.rows]
    BY <1>3, CycleIs
  <2>2. /\ UNCHANGED <<store, repo, hist>> /\ svc.cycle.pc = "collected" /\ svc.warm
        /\ DOMAIN store.chain # {}
    BY <1>3 DEF PersistVolatile, At
  <2>3. Max(DOMAIN store.chain) \in DOMAIN store.chain
    <3> DEFINE S == DOMAIN store.chain
    <3>1. S \in SUBSET (1..store.lastId) /\ store.lastId \in Nat /\ S # {}
      BY <2>2, Ids
    <3> HIDE DEF S
    <3>2. Max(S) \in S
      BY <3>1, GreatestOfNat
    <3> QED
      BY <3>2 DEF S
  <2>4. CaughtUp
    BY <2>2 DEF Observing
  <2>5. Borrowed'
    BY <1>1, <2>1, <2>2, <2>3, <2>4 DEF Borrowed
  <2> QED
    BY <1>1, <2>1, <2>2, <2>5 DEF Observing
<1>4. CASE AlreadyProcessed
  <2>1. /\ svc'.cycle = [pc |-> "reconciled", id |-> svc.cycle.id, seen |-> svc.cycle.seen,
                         covered |-> svc.cycle.covered, rows |-> svc.cycle.rows]
    BY <1>4, CycleIs
  <2>2. UNCHANGED <<store, repo, hist>> /\ svc.cycle.pc = "replaying" /\ svc.cycle.id <= repo.last
    BY <1>4 DEF AlreadyProcessed, At, Processed
  <2>3. CaughtUp
    BY <2>2, Ids DEF Observing, Committed, Borrowed, CaughtUp
  <2> QED
    BY <1>1, <2>1, <2>2, <2>3 DEF Observing
<1>5. CASE QueryAlerts \/ Complete \/ Crash
  <2>1. /\ svc'.cycle.pc \in {"alerting", "idle"} /\ (svc'.warm => svc.warm)
        /\ svc.cycle.pc \notin {"persisted", "replaying"} \/ ~svc'.warm
    <3>1. CASE QueryAlerts
      <4>1. svc'.cycle = [pc |-> "alerting", id |-> svc.cycle.id, seen |-> svc.cycle.seen,
                         covered |-> svc.cycle.covered, rows |-> svc.cycle.rows]
            /\ svc'.warm = svc.warm
        BY <3>1, CycleIs
      <4> QED
        BY <3>1, <4>1 DEF QueryAlerts, At
    <3>2. CASE Complete
      <4>1. svc'.cycle = NoCycle /\ svc'.warm = svc.warm
        BY <3>2, CycleIs
      <4> QED
        BY <3>2, <4>1 DEF Complete, At, NoCycle
    <3>3. CASE Crash
      BY <3>3, CycleIs DEF NoCycle
    <3> QED
      BY <1>5, <3>1, <3>2, <3>3
  <2>2. UNCHANGED <<store, repo>> /\ hist'.observed = hist.observed
    BY <1>5 DEF QueryAlerts, Complete, Crash, HistOK
  <2> QED
    BY <1>1, <2>1, <2>2 DEF Observing
<1>6. CASE \E a \in Actor : \E f \in emitter[a].queue : Append_(a, f)
  <2>1. UNCHANGED <<store, repo, svc>> /\ hist'.observed = hist.observed
    BY <1>6, AppendIs
  <2> QED
    BY <1>1, <2>1 DEF Observing, Committed, Borrowed, Unprocessed
<1>7. CASE \E a \in Actor : Mark(a)
  <2>1. /\ store'.chain = store.chain /\ store'.lastId = store.lastId
        /\ UNCHANGED <<repo, svc, hist>>
    BY <1>7, MarkIs
  <2> QED
    BY <2>1 DEF Observing, EveryFindingHasALifecycleState, CaughtUp, Stuck, Committed, Borrowed,
       Unprocessed
<1>8. CASE UNCHANGED vars
  BY <1>1, <1>8 DEF vars, Observing, Committed, Borrowed, Unprocessed
<1>9. ~Fail /\ ~ScanAlerts /\ ~(\E seen \in Observation : ScanPersist(seen))
  BY DEF Fail, ScanAlerts, ScanPersist, HistOK
<1> QED
  BY <1>2, <1>3, <1>4, <1>5, <1>6, <1>7, <1>8, <1>9, ObservingPersist, ObservingCatchUp,
     ObservingReplay, ObservingReconcile, ObservingGap
  DEF Next, Service, Continue, Scan, Actor

(* "Findings now have stable new, recurring, changed, and resolved states" *)
(* : every finding of a retained cycle that counts as processed was        *)
(* observed by the lifecycle - whatever crashed, and with any retention -  *)
(* while the service alone writes cycles and none ends by an exception     *)
(* after its commit (lifecycle_repository.py, catch_up_from_evidence_chain *)
(* and reconcile_cycle).                                                   *)
THEOREM FindingsHaveALifecycle ==
    ASSUME ~Scans, MaxErrors = 0
    PROVE  Spec => []EveryFindingHasALifecycleState
<1> DEFINE All == Inv /\ HistOK /\ EmitterOK /\ Observing
<1>1. Init => All
  <2> SUFFICES ASSUME Init PROVE All
    OBVIOUS
  <2>1. Observing
    BY DEF Init, Observing, EveryFindingHasALifecycleState, NoCycle
  <2> QED
    BY <2>1, InitInv, LoggedInit
<1>2. All /\ [Next]_vars => All'
  BY StepInv, EmitterStep, ObservingStep
<1>3. All => EveryFindingHasALifecycleState
  BY DEF Observing
<1> HIDE DEF All
<1> QED
  BY <1>1, <1>2, <1>3, PTL DEF Spec

-----------------------------------------------------------------------------
(* The newest transitions *)

NewestOf(T, n) ==
    CHOOSE K \in SUBSET T :
        /\ Cardinality(K) = IF Cardinality(T) <= n THEN Cardinality(T) ELSE n
        /\ \A k \in K, j \in T \ K : k.cycle >= j.cycle

(* A nonempty set of rows of the first n cycles has a newest one. *)
LEMMA NewestRow ==
    ASSUME NEW n \in Nat, NEW T, T # {}, \A t \in T : t.cycle \in 1..n
    PROVE  \E t \in T : \A u \in T : u.cycle <= t.cycle
<1> DEFINE S == {n - t.cycle : t \in T}
<1>1. S \in SUBSET Nat /\ S # {}
  OBVIOUS
<1>2. \A t \in T : n - t.cycle \in S
  OBVIOUS
<1>3. \A m \in S : \E t \in T : m = n - t.cycle
  OBVIOUS
<1> HIDE DEF S
<1>4. Min(S) \in S /\ \A m \in S : Min(S) <= m
  BY <1>1, LeastOfNat
<1>5. PICK t \in T : Min(S) = n - t.cycle
  BY <1>3, <1>4
<1>6. \A u \in T : n - t.cycle <= n - u.cycle
  BY <1>2, <1>4, <1>5
<1> QED
  BY <1>6

(* LIMIT leaves rows, and none that is newer than one it keeps. *)
LEMMA NewestExist ==
    ASSUME NEW n \in Nat, NEW T, IsFiniteSet(T), \A t \in T : t.cycle \in 1..n,
           NEW m \in 0..Cardinality(T)
    PROVE  \E K \in SUBSET T : /\ Cardinality(K) = m
                               /\ \A k \in K, j \in T \ K : k.cycle >= j.cycle
<1> DEFINE Has(k) == \E K \in SUBSET T : /\ Cardinality(K) = k
                                         /\ \A x \in K, j \in T \ K : x.cycle >= j.cycle
           Fails == {k \in 0..Cardinality(T) : ~Has(k)}
<1>1. Cardinality(T) \in Nat
  BY FS_CardinalityType
<1>2. Has(0)
  BY FS_EmptySet
<1>3. ASSUME NEW k \in Nat, k + 1 <= Cardinality(T), Has(k) PROVE Has(k + 1)
  <2>1. PICK K \in SUBSET T : /\ Cardinality(K) = k
                              /\ \A x \in K, j \in T \ K : x.cycle >= j.cycle
    BY <1>3
  <2>2. T \ K # {} /\ IsFiniteSet(K)
    <3>1. IsFiniteSet(K)
      BY FS_Subset
    <3>2. K # T
      BY <1>1, <1>3, <2>1
    <3> QED
      BY <3>1, <3>2
  <2>3. PICK t \in T \ K : \A u \in T \ K : u.cycle <= t.cycle
    <3> DEFINE L == T \ K
    <3>1. L # {} /\ \A u \in L : u.cycle \in 1..n
      BY <2>2
    <3> HIDE DEF L
    <3>2. \E t \in L : \A u \in L : u.cycle <= t.cycle
      BY <3>1, NewestRow
    <3> QED
      BY <3>2 DEF L
  <2>4. Cardinality(K \cup {t}) = k + 1
    BY <2>1, <2>2, <2>3, FS_AddElement
  <2>5. \A x \in K \cup {t}, j \in T \ (K \cup {t}) : x.cycle >= j.cycle
    BY <2>1, <2>3
  <2>6. K \cup {t} \in SUBSET T
    OBVIOUS
  <2> QED
    BY <2>4, <2>5, <2>6
<1> HIDE DEF Has
<1>4. Fails = {}
  <2> SUFFICES ASSUME Fails # {} PROVE FALSE
    OBVIOUS
  <2>1. Fails \in SUBSET Nat
    BY <1>1
  <2>2. Min(Fails) \in Fails /\ \A x \in Fails : Min(Fails) <= x
    BY <2>1, LeastOfNat
  <2> DEFINE k == Min(Fails)
  <2>3. k \in 0..Cardinality(T) /\ ~Has(k)
    BY <2>2
  <2>4. \A x \in Fails : k <= x
    BY <2>2
  <2> HIDE DEF k
  <2>5. k # 0
    BY <1>2, <2>3
  <2>6. k - 1 \in 0..Cardinality(T) /\ k - 1 \notin Fails
    BY <1>1, <2>3, <2>4, <2>5
  <2>7. Has(k - 1)
    BY <2>6
  <2>8. Has((k - 1) + 1)
    BY <1>1, <1>3, <2>3, <2>5, <2>7
  <2>9. (k - 1) + 1 = k
    BY <1>1, <2>3
  <2> QED
    BY <2>3, <2>8, <2>9
<1>5. Has(m)
  BY <1>4
<1> QED
  BY <1>5 DEF Has

LEMMA NewestIs ==
    ASSUME NEW n \in Nat, NEW T, IsFiniteSet(T), \A t \in T : t.cycle \in 1..n,
           NEW m \in Nat
    PROVE  /\ Newest(T, m, LAMBDA t : t.cycle) \subseteq T
           /\ \A k \in Newest(T, m, LAMBDA t : t.cycle), j \in T :
                 j.cycle > k.cycle => j \in Newest(T, m, LAMBDA t : t.cycle)
<1> DEFINE size == IF Cardinality(T) <= m THEN Cardinality(T) ELSE m
<1>1. size \in 0..Cardinality(T)
  BY FS_CardinalityType
<1>2. \E K \in SUBSET T : /\ Cardinality(K) = size
                          /\ \A k \in K, j \in T \ K : k.cycle >= j.cycle
  <2> HIDE DEF size
  <2> QED
    BY <1>1, NewestExist
<1>3. Newest(T, m, LAMBDA t : t.cycle) = NewestOf(T, m)
  BY DEF Newest, NewestOf
<1>4. /\ NewestOf(T, m) \in SUBSET T
      /\ \A k \in NewestOf(T, m), j \in T \ NewestOf(T, m) : k.cycle >= j.cycle
  BY <1>2 DEF NewestOf
<1> DEFINE K == NewestOf(T, m)
<1>5. ASSUME NEW k \in K, NEW j \in T, j.cycle > k.cycle PROVE j \in K
  <2>1. k.cycle \in Nat /\ j.cycle \in Nat
    BY <1>4
  <2> QED
    BY <1>4, <1>5, <2>1
<1> HIDE DEF K
<1>6. K \subseteq T /\ \A k \in K, j \in T : j.cycle > k.cycle => j \in K
  BY <1>4, <1>5 DEF K
<1> QED
  BY <1>3, <1>6 DEF K

-----------------------------------------------------------------------------
(* The transitions of the incidents *)

(* An incident came back, at a severity that is alerted. *)
Back(t) == t.state = "recurring" /\ t.score >= AlertedFrom

(* A transition of T after which its incident did not come back so. *)
Current(T, t) == \A u \in T : u.key = t.key /\ Back(u) => u.cycle <= t.cycle

(* Transitions that agree with the records: one a cycle, a score for each  *)
(* finding, and an incident that has ended did so after all of them.       *)
TransitionsOK(r) ==
    /\ IsFiniteSet(r.trans)
    /\ \A t \in r.trans : /\ t.key \in Incident /\ t.cycle \in 1..r.last
                          /\ t.finding \in 1..r.last /\ t.score \in 1..MaxScore
    /\ \A t, u \in r.trans : t.key = u.key /\ t.cycle = u.cycle => t = u
    /\ \A t \in r.trans : r.rec[t.key] # NoRecord
    /\ \A t \in r.trans : t.finding = r.rec[t.key].finding => t.score = r.rec[t.key].score
    /\ \A t \in r.trans : ~r.rec[t.key].active =>
          \E u \in r.trans : u.key = t.key /\ u.cycle >= t.cycle /\ u.state = "resolved"

(* q is r after the reconciliation of a cycle with these findings, ended   *)
(* incidents and transitions: pruning forgets ended incidents, and of the  *)
(* transitions of an incident it keeps those after any that it keeps.      *)
Renewed(r, q, id, seen, ended, noted) ==
    LET rec == Records(r, id, seen, ended)
        all == r.trans \union {Transition(rec, id, i) : i \in noted}
    IN  /\ q.last = id
        /\ \A i \in Incident : q.rec[i] = rec[i] \/ (~rec[i].active /\ q.rec[i] = NoRecord)
        /\ q.trans \subseteq all
        /\ \A t \in q.trans : q.rec[t.key] = rec[t.key]
        /\ \A t \in q.trans, u \in all : u.key = t.key /\ u.cycle >= t.cycle => u \in q.trans

LEMMA PrunedTransitions ==
    ASSUME NEW n \in Nat, NEW r, r = [last |-> r.last, rec |-> r.rec, trans |-> r.trans],
           IsFiniteSet(r.trans), r.rec = [i \in Incident |-> r.rec[i]],
           \A t \in r.trans : t.key \in Incident /\ t.cycle \in 1..n,
           \A t, u \in r.trans : t.key = u.key /\ t.cycle = u.cycle => t = u
    PROVE  LET q == PrunedRepo(r)
           IN  /\ q.last = r.last
               /\ \A i \in Incident :
                     q.rec[i] = r.rec[i] \/ (~r.rec[i].active /\ q.rec[i] = NoRecord)
               /\ q.trans \subseteq r.trans
               /\ \A t \in q.trans : q.rec[t.key] = r.rec[t.key]
               /\ \A t \in q.trans, u \in r.trans :
                     u.key = t.key /\ u.cycle >= t.cycle => u \in q.trans
<1> DEFINE gone == ResolvedIn(r.rec) \ Kept(r.rec)
           kept == Newest(r.trans, MaxTransitions, LAMBDA t : t.cycle)
           rec  == [i \in Incident |-> IF i \in gone THEN NoRecord ELSE r.rec[i]]
           left == {t \in kept : t.key \notin gone}
<1>1. \A i \in gone : ~r.rec[i].active
  BY DEF ResolvedIn
<1>2. /\ kept \subseteq r.trans
      /\ \A k \in kept, j \in r.trans : j.cycle > k.cycle => j \in kept
  BY NewestIs, ParameterAssumption
<1>3. PrunedRepo(r) = [r EXCEPT !.rec = rec, !.trans = left]
  BY DEF PrunedRepo
<1>4. \A i \in Incident : rec[i] = IF i \in gone THEN NoRecord ELSE r.rec[i]
  OBVIOUS
<1>5. \A t \in left : t \in kept /\ t.key \notin gone
  OBVIOUS
<1>6. \A t \in kept : t.key \notin gone => t \in left
  OBVIOUS
<1> HIDE DEF gone, kept, rec, left
<1>7. PrunedRepo(r).last = r.last /\ PrunedRepo(r).rec = rec /\ PrunedRepo(r).trans = left
  BY <1>3
<1>8. \A i \in Incident : rec[i] = r.rec[i] \/ (~r.rec[i].active /\ rec[i] = NoRecord)
  BY <1>1, <1>4
<1>9. left \subseteq r.trans /\ \A t \in left : rec[t.key] = r.rec[t.key]
  BY <1>2, <1>4, <1>5
<1>10. ASSUME NEW t \in left, NEW u \in r.trans, u.key = t.key, u.cycle >= t.cycle
       PROVE  u \in left
  <2>1. t \in r.trans /\ t.cycle \in Nat /\ u.cycle \in Nat
    BY <1>9
  <2>2. CASE u.cycle = t.cycle
    BY <1>10, <2>1, <2>2
  <2>3. CASE u.cycle > t.cycle
    BY <1>2, <1>5, <1>6, <1>10, <2>3
  <2> QED
    BY <1>10, <2>1, <2>2, <2>3
<1> QED
  BY <1>7, <1>8, <1>9, <1>10

LEMMA StoredIs ==
    ASSUME IsFiniteSet(Incident), NEW n \in 0..MaxId, NEW r, RepoOK(r, n), TransitionsOK(r),
           NEW id \in 1..n, id > r.last, NEW seen \in Observation,
           NEW ended \in SUBSET {i \in Incident : r.rec[i].active}, NEW noted \in SUBSET Incident
    PROVE  Renewed(r, Stored(r, id, seen, ended, noted), id, seen, ended, noted)
<1> DEFINE rec   == Records(r, id, seen, ended)
           added == {Transition(rec, id, i) : i \in noted}
           all   == r.trans \union added
           x     == [last |-> id, rec |-> rec, trans |-> all]
<1>1. Stored(r, id, seen, ended, noted) = PrunedRepo(x)
  BY DEF Stored
<1>2. IsFiniteSet(added)
  <2> DEFINE f == [i \in noted |-> Transition(rec, id, i)]
  <2>1. f \in Surjection(noted, added)
    BY DEF Surjection
  <2>2. IsFiniteSet(noted)
    BY FS_Subset
  <2> HIDE DEF f, added
  <2> QED
    BY <2>1, <2>2, FS_Surjection
<1>3. \A t \in added : t.key \in noted /\ t.cycle = id /\ t = Transition(rec, id, t.key)
  BY DEF Transition
<1>4. rec = [i \in Incident |-> rec[i]]
  BY DEF Records
<1>5. IsFiniteSet(all)
  BY <1>2, FS_Union DEF TransitionsOK
<1>6. r.last \in Nat /\ id \in Nat
  BY DEF RepoOK
<1> HIDE DEF added, rec
<1>7. \A t \in all : t.key \in Incident /\ t.cycle \in 1..id
  BY <1>3, <1>6 DEF TransitionsOK
<1>8. \A t, u \in all : t.key = u.key /\ t.cycle = u.cycle => t = u
  BY <1>3, <1>6 DEF TransitionsOK
<1> HIDE DEF all
<1>9. /\ x = [last |-> x.last, rec |-> x.rec, trans |-> x.trans]
      /\ x.last = id /\ x.rec = rec /\ x.trans = all
  OBVIOUS
<1> HIDE DEF x
<1>10. LET q == PrunedRepo(x)
       IN  /\ q.last = x.last
           /\ \A i \in Incident :
                 q.rec[i] = x.rec[i] \/ (~x.rec[i].active /\ q.rec[i] = NoRecord)
           /\ q.trans \subseteq x.trans
           /\ \A t \in q.trans : q.rec[t.key] = x.rec[t.key]
           /\ \A t \in q.trans, u \in x.trans :
                 u.key = t.key /\ u.cycle >= t.cycle => u \in q.trans
  BY <1>4, <1>5, <1>6, <1>7, <1>8, <1>9, PrunedTransitions
<1> QED
  BY <1>1, <1>9, <1>10 DEF Renewed, rec, all, added

(* The incidents of a reconciliation that make a transition. *)
Material(r, seen) == {i \in Present(seen) : ~r.rec[i].active \/ r.rec[i].score # seen[i]}

(* What becomes of the records. *)
LEMMA RecordsAre ==
    ASSUME NEW n \in 0..MaxId, NEW r, RepoOK(r, n), NEW id \in 1..n, id > r.last,
           NEW seen \in Observation, NEW ended \in SUBSET {i \in Incident : r.rec[i].active},
           \A i \in ended : seen[i] = 0, NEW i \in Incident
    PROVE  LET rec == Records(r, id, seen, ended)
           IN  /\ r.rec[i] \in Record \union {NoRecord} /\ r.rec[i].finding \in Nat
               /\ r.rec[i].finding <= r.last /\ r.last \in Nat
               /\ \/ /\ seen[i] \in 1..MaxScore /\ i \notin ended
                     /\ rec[i] = Observed(r.rec[i], id, seen[i]) /\ rec[i].active
                     /\ rec[i].finding = id /\ rec[i].score = seen[i]
                     /\ rec[i].state = IF r.rec[i] = NoRecord THEN "new"
                                       ELSE IF r.rec[i].active /\ r.rec[i].score # seen[i]
                                            THEN "changed" ELSE "recurring"
                  \/ /\ seen[i] = 0 /\ i \in ended /\ r.rec[i] \in Record
                     /\ r.rec[i].active /\ ~rec[i].active
                     /\ rec[i].finding = r.rec[i].finding /\ rec[i].score = r.rec[i].score
                     /\ rec[i].state = "resolved"
                  \/ /\ seen[i] = 0 /\ i \notin ended /\ rec[i] = r.rec[i]
<1> DEFINE rec == Records(r, id, seen, ended)
<1>1. r.rec[i] \in Record \union {NoRecord} /\ r.rec[i].finding <= r.last /\ r.last \in Nat
  BY DEF RepoOK
<1>2. r.rec[i].finding \in Nat
  BY <1>1, ParameterAssumption DEF Record, NoRecord
<1>3. seen[i] \in 0..MaxScore /\ MaxScore \in Nat
  BY ParameterAssumption DEF Observation
<1>4. CASE seen[i] # 0
  <2>1. seen[i] \in 1..MaxScore /\ i \notin ended /\ i \in Present(seen)
    BY <1>3, <1>4 DEF Present
  <2>2. rec[i] = Observed(r.rec[i], id, seen[i])
    BY <2>1 DEF Records
  <2> HIDE DEF rec
  <2> QED
    BY <1>1, <1>2, <2>1, <2>2 DEF Observed, rec
<1>5. CASE seen[i] = 0
  <2>1. i \notin Present(seen)
    BY <1>5 DEF Present
  <2>2. CASE i \in ended
    <3>1. r.rec[i] \in Record /\ r.rec[i].active
      BY <1>1, <2>2 DEF NoRecord
    <3>2. rec[i] = Resolved(r.rec[i], id)
      BY <2>1, <2>2 DEF Records
    <3>3. id \in 1..MaxId
      BY ParameterAssumption
    <3> HIDE DEF rec
    <3> QED
      BY <1>1, <1>2, <1>5, <2>2, <3>1, <3>2, <3>3, ResolvedType DEF rec
  <2>3. CASE i \notin ended
    BY <1>1, <1>2, <1>5, <2>1, <2>3 DEF Records
  <2> QED
    BY <2>2, <2>3
<1> QED
  BY <1>4, <1>5

Reconciling(r, n, id, seen, ended) ==
    /\ IsFiniteSet(Incident)
    /\ n \in 0..MaxId /\ RepoOK(r, n) /\ TransitionsOK(r) /\ id \in 1..n /\ id > r.last
    /\ seen \in Observation
    /\ ended \in SUBSET {i \in Incident : r.rec[i].active} /\ \A i \in ended : seen[i] = 0

(* An incident of q was observed, ended, or stays as it was. *)
Outcome(r, q, id, seen, ended, i) ==
    \/ /\ seen[i] \in 1..MaxScore /\ i \notin ended
       /\ q.rec[i].active /\ q.rec[i].finding = id /\ q.rec[i].score = seen[i]
       /\ q.rec[i].state = IF r.rec[i] = NoRecord THEN "new"
                           ELSE IF r.rec[i].active /\ r.rec[i].score # seen[i]
                                THEN "changed" ELSE "recurring"
    \/ /\ seen[i] = 0 /\ i \in ended /\ r.rec[i].active /\ ~q.rec[i].active
       /\ q.rec[i] = NoRecord \/ (/\ q.rec[i].finding = r.rec[i].finding
                                  /\ q.rec[i].score = r.rec[i].score
                                  /\ q.rec[i].state = "resolved")
    \/ /\ seen[i] = 0 /\ i \notin ended
       /\ q.rec[i] = r.rec[i] \/ (q.rec[i] = NoRecord /\ ~r.rec[i].active)

(* A transition of the reconciled cycle. *)
Noting(q, t) ==
    t = [key |-> t.key, cycle |-> q.last, state |-> q.rec[t.key].state,
         finding |-> q.rec[t.key].finding, score |-> q.rec[t.key].score]

(* What the reconciled repository q takes over from r. *)
Carried(r, q, id, seen, ended) ==
    /\ q.last = id
    /\ \A i \in Incident : /\ Outcome(r, q, id, seen, ended, i)
                           /\ r.rec[i] \in Record \union {NoRecord}
                           /\ r.rec[i].finding \in 0..r.last
    /\ \A t \in q.trans :
          \/ t \in r.trans
          \/ Noting(q, t) /\ t.key \in ended \union Material(r, seen)
    /\ \A t \in q.trans : q.rec[t.key] # NoRecord /\ t.key \in Incident
    /\ \A t \in q.trans, u \in r.trans :
          u.key = t.key /\ u.cycle >= t.cycle => u \in q.trans
    /\ \A t \in q.trans : t.key \in ended \union Material(r, seen) =>
          \E u \in q.trans : u.key = t.key /\ Noting(q, u)
    /\ IsFiniteSet(q.trans)

LEMMA RenewedIs ==
    ASSUME NEW r, NEW n, NEW id, NEW seen, NEW ended, Reconciling(r, n, id, seen, ended),
           NEW q, Renewed(r, q, id, seen, ended, ended \union Material(r, seen))
    PROVE  Carried(r, q, id, seen, ended)
<1> DEFINE noted == ended \union Material(r, seen)
           rec   == Records(r, id, seen, ended)
           added == {Transition(rec, id, i) : i \in noted}
           all   == r.trans \union added
<1>1. /\ q.last = id
      /\ \A i \in Incident : q.rec[i] = rec[i] \/ (~rec[i].active /\ q.rec[i] = NoRecord)
      /\ q.trans \subseteq all
      /\ \A t \in q.trans : q.rec[t.key] = rec[t.key]
      /\ \A t \in q.trans, u \in all : u.key = t.key /\ u.cycle >= t.cycle => u \in q.trans
  BY DEF Renewed
<1>2. \A t \in added :
         /\ t.key \in noted /\ t.cycle = id
         /\ t = [key |-> t.key, cycle |-> id, state |-> rec[t.key].state,
                 finding |-> rec[t.key].finding, score |-> rec[t.key].score]
  BY DEF Transition
<1>3. \A i \in noted : \E t \in added :
         t = [key |-> i, cycle |-> id, state |-> rec[i].state,
              finding |-> rec[i].finding, score |-> rec[i].score]
  <2> SUFFICES ASSUME NEW i \in noted
               PROVE  \E t \in added :
                         t = [key |-> i, cycle |-> id, state |-> rec[i].state,
                              finding |-> rec[i].finding, score |-> rec[i].score]
    OBVIOUS
  <2>1. Transition(rec, id, i) \in added
    OBVIOUS
  <2> QED
    BY <2>1 DEF Transition
<1>4. noted \subseteq Incident
  BY DEF Reconciling, Material, Present
<1>5. \A i \in Incident :
         /\ r.rec[i] \in Record \union {NoRecord} /\ r.rec[i].finding \in Nat
         /\ r.rec[i].finding <= r.last /\ r.last \in Nat
         /\ \/ /\ seen[i] \in 1..MaxScore /\ i \notin ended
               /\ rec[i] = Observed(r.rec[i], id, seen[i]) /\ rec[i].active
               /\ rec[i].finding = id /\ rec[i].score = seen[i]
               /\ rec[i].state = IF r.rec[i] = NoRecord THEN "new"
                                 ELSE IF r.rec[i].active /\ r.rec[i].score # seen[i]
                                      THEN "changed" ELSE "recurring"
            \/ /\ seen[i] = 0 /\ i \in ended /\ r.rec[i] \in Record
               /\ r.rec[i].active /\ ~rec[i].active
               /\ rec[i].finding = r.rec[i].finding /\ rec[i].score = r.rec[i].score
               /\ rec[i].state = "resolved"
            \/ /\ seen[i] = 0 /\ i \notin ended /\ rec[i] = r.rec[i]
  <2>1. /\ n \in 0..MaxId /\ RepoOK(r, n) /\ id \in 1..n /\ id > r.last
        /\ seen \in Observation /\ ended \in SUBSET {i \in Incident : r.rec[i].active}
        /\ \A i \in ended : seen[i] = 0
    BY DEF Reconciling
  <2> QED
    BY <2>1, RecordsAre
<1>6. \A i \in noted : seen[i] = 0 => i \in ended
  BY DEF Reconciling, Material, Present
<1>7. IsFiniteSet(all)
  <2> DEFINE f == [i \in noted |-> Transition(rec, id, i)]
  <2>1. f \in Surjection(noted, added)
    BY DEF Surjection
  <2>2. IsFiniteSet(noted)
    BY <1>4, FS_Subset DEF Reconciling
  <2>3. IsFiniteSet(added)
    <3> HIDE DEF f, added, noted
    <3> QED
      BY <2>1, <2>2, FS_Surjection
  <2>4. IsFiniteSet(r.trans)
    BY DEF Reconciling, TransitionsOK
  <2> HIDE DEF added
  <2> QED
    BY <2>3, <2>4, FS_Union
<1> HIDE DEF noted, rec, added
<1>8. IsFiniteSet(q.trans)
  <2> HIDE DEF all
  <2> QED
    BY <1>1, <1>7, FS_Subset
<1>9. \A i \in Incident : /\ Outcome(r, q, id, seen, ended, i)
                          /\ r.rec[i] \in Record \union {NoRecord}
                          /\ r.rec[i].finding \in 0..r.last
  <2> SUFFICES ASSUME NEW i \in Incident
               PROVE  /\ Outcome(r, q, id, seen, ended, i)
                      /\ r.rec[i] \in Record \union {NoRecord}
                      /\ r.rec[i].finding \in 0..r.last
    OBVIOUS
  <2>1. CASE q.rec[i] = rec[i]
    BY <1>5, <2>1 DEF Outcome
  <2>2. CASE ~rec[i].active /\ q.rec[i] = NoRecord
    <3>1. ~NoRecord.active
      BY DEF NoRecord
    <3> QED
      BY <1>5, <2>2, <3>1 DEF Outcome
  <2> QED
    BY <1>1, <2>1, <2>2
<1>10. \A t \in q.trans : t \in r.trans \/ (Noting(q, t) /\ t.key \in noted)
  BY <1>1, <1>2 DEF Noting
<1>11. \A t \in r.trans : t.key \in Incident /\ r.rec[t.key] # NoRecord
  BY DEF Reconciling, TransitionsOK
<1>12. ASSUME NEW t \in q.trans PROVE q.rec[t.key] # NoRecord /\ t.key \in Incident
  <2>1. t.key \in Incident
    BY <1>4, <1>10, <1>11
  <2>2. t \notin r.trans => seen[t.key] # 0 \/ t.key \in ended
    BY <1>6, <1>10
  <2>3. q.rec[t.key] = rec[t.key]
    BY <1>1
  <2> QED
    BY <1>5, <1>11, <2>1, <2>2, <2>3 DEF NoRecord
<1>13. ASSUME NEW t \in q.trans, t.key \in noted
       PROVE  \E u \in q.trans : u.key = t.key /\ Noting(q, u)
  <2>1. PICK u \in added :
           u = [key |-> t.key, cycle |-> id, state |-> rec[t.key].state,
                finding |-> rec[t.key].finding, score |-> rec[t.key].score]
    BY <1>3, <1>13
  <2>2. t.cycle <= id
    <3>1. CASE t \in r.trans
      BY <3>1 DEF Reconciling, TransitionsOK, RepoOK
    <3>2. CASE t \in added
      BY <1>2, <3>2 DEF Reconciling
    <3> QED
      BY <1>1, <3>1, <3>2
  <2>3. t.cycle \in Nat /\ id \in Nat
    <3>1. t \in r.trans => t.cycle \in Nat
      BY DEF Reconciling, TransitionsOK
    <3> QED
      BY <1>1, <1>2, <3>1 DEF Reconciling
  <2>4. u \in q.trans
    BY <1>1, <2>1, <2>2, <2>3
  <2> QED
    BY <1>1, <2>1, <2>4 DEF Noting
<1> QED
  BY <1>1, <1>8, <1>9, <1>10, <1>12, <1>13 DEF noted, Carried

LEMMA RenewedTransitions ==
    ASSUME NEW r, NEW n, NEW id, NEW seen, NEW ended, Reconciling(r, n, id, seen, ended),
           NEW q, Renewed(r, q, id, seen, ended, ended \union Material(r, seen))
    PROVE  TransitionsOK(q)
<1> DEFINE noted == ended \union Material(r, seen)
<1>1. /\ q.last = id
      /\ \A i \in Incident : /\ Outcome(r, q, id, seen, ended, i)
                             /\ r.rec[i] \in Record \union {NoRecord}
                             /\ r.rec[i].finding \in 0..r.last
      /\ \A t \in q.trans : t \in r.trans \/ (Noting(q, t) /\ t.key \in noted)
      /\ \A t \in q.trans : q.rec[t.key] # NoRecord /\ t.key \in Incident
      /\ \A t \in q.trans, u \in r.trans : u.key = t.key /\ u.cycle >= t.cycle => u \in q.trans
      /\ \A t \in q.trans : t.key \in noted => \E u \in q.trans : u.key = t.key /\ Noting(q, u)
      /\ IsFiniteSet(q.trans)
  BY RenewedIs DEF Carried
<1>2. r.last \in Nat /\ id \in Nat /\ id > r.last
  BY DEF Reconciling, RepoOK
<1>3. \A t \in r.trans : /\ t.key \in Incident /\ t.cycle \in 1..r.last
                         /\ t.finding \in 1..r.last /\ t.score \in 1..MaxScore
                         /\ r.rec[t.key] # NoRecord
                         /\ t.finding = r.rec[t.key].finding => t.score = r.rec[t.key].score
  BY DEF Reconciling, TransitionsOK
<1>4. \A i \in ended \union Material(r, seen) : seen[i] = 0 => i \in ended
  BY DEF Reconciling, Material, Present
<1> HIDE DEF noted
<1>5. ASSUME NEW t \in q.trans
      PROVE  /\ t.cycle \in 1..q.last /\ t.finding \in 1..q.last /\ t.score \in 1..MaxScore
             /\ t.finding = q.rec[t.key].finding => t.score = q.rec[t.key].score
  <2>1. CASE t \in r.trans
    <3>1. CASE q.rec[t.key] = NoRecord
      BY <1>1, <3>1
    <3> QED
      BY <1>1, <1>2, <1>3, <2>1 DEF Outcome
  <2>2. CASE t \notin r.trans
    <3>1. Noting(q, t) /\ t.key \in noted /\ t.key \in Incident
      BY <1>1, <2>2
    <3>2. CASE seen[t.key] # 0
      BY <1>1, <1>2, <3>1, <3>2 DEF Outcome, Noting
    <3>3. CASE seen[t.key] = 0
      <4>1. t.key \in ended
        BY <1>4, <3>1, <3>3 DEF noted
      <4>2. r.rec[t.key] \in Record /\ r.rec[t.key].active
        BY <4>1, <1>1, <3>1 DEF Reconciling, NoRecord
      <4>3. q.rec[t.key].finding = r.rec[t.key].finding /\ q.rec[t.key].score = r.rec[t.key].score
        BY <1>1, <3>1, <3>3, <4>1 DEF Outcome
      <4> QED
        BY <1>1, <1>2, <3>1, <4>2, <4>3 DEF Noting, Record
    <3> QED
      BY <3>2, <3>3
  <2> QED
    BY <2>1, <2>2
<1>6. ASSUME NEW t \in q.trans, NEW u \in q.trans, t.key = u.key, t.cycle = u.cycle PROVE t = u
  <2>1. CASE t \in r.trans /\ u \in r.trans
    BY <1>6, <2>1 DEF Reconciling, TransitionsOK
  <2>2. CASE t \notin r.trans /\ u \notin r.trans
    <3>1. Noting(q, t) /\ Noting(q, u)
      BY <1>1, <2>2
    <3> QED
      BY <1>6, <3>1 DEF Noting
  <2>3. (t \in r.trans) <=> (u \in r.trans)
    BY <1>1, <1>2, <1>3, <1>6 DEF Noting
  <2> QED
    BY <2>1, <2>2, <2>3
<1>7. ASSUME NEW t \in q.trans, ~q.rec[t.key].active
      PROVE  \E u \in q.trans : u.key = t.key /\ u.cycle >= t.cycle /\ u.state = "resolved"
  <2>1. t.key \in Incident /\ q.rec[t.key] # NoRecord
    BY <1>1
  <2>2. CASE t.key \in ended
    <3>1. PICK u \in q.trans : u.key = t.key /\ Noting(q, u)
      BY <1>1, <2>2 DEF noted
    <3>2. u.state = "resolved"
      BY <1>1, <2>1, <2>2, <3>1 DEF Outcome, Noting
    <3>3. u.cycle >= t.cycle
      BY <1>1, <1>2, <1>5, <3>1 DEF Noting
    <3> QED
      BY <3>1, <3>2, <3>3
  <2>3. CASE t.key \notin ended
    <3>1. seen[t.key] = 0 /\ ~r.rec[t.key].active
      BY <1>1, <1>7, <2>1, <2>3 DEF Outcome
    <3>2. t \in r.trans
      BY <1>1, <1>4, <2>3, <3>1 DEF noted
    <3>3. PICK u \in r.trans : u.key = t.key /\ u.cycle >= t.cycle /\ u.state = "resolved"
      BY <3>1, <3>2 DEF Reconciling, TransitionsOK
    <3> QED
      BY <1>1, <3>3
  <2> QED
    BY <2>2, <2>3
<1> QED
  BY <1>1, <1>5, <1>6, <1>7 DEF TransitionsOK

(* An alert that was taken from the repository agrees with it. *)
Agrees(r, f) ==
    /\ f.finding <= r.last
    /\ \A t \in r.trans : t.key = f.key /\ t.finding = f.finding => t.score = f.score
    /\ r.rec[f.key].finding = f.finding => r.rec[f.key].score = f.score

LEMMA RenewedAgrees ==
    ASSUME NEW r, NEW n, NEW id, NEW seen, NEW ended, Reconciling(r, n, id, seen, ended),
           NEW q, Renewed(r, q, id, seen, ended, ended \union Material(r, seen)),
           NEW f \in Alert, Agrees(r, f)
    PROVE  Agrees(q, f)
<1>1. /\ q.last = id
      /\ \A i \in Incident : Outcome(r, q, id, seen, ended, i)
      /\ \A t \in q.trans : t \in r.trans \/ Noting(q, t)
  <2>1. Carried(r, q, id, seen, ended)
    BY RenewedIs
  <2> QED
    BY <2>1 DEF Carried
<1>2. r.last \in Nat /\ id \in Nat /\ id > r.last
  BY DEF Reconciling, RepoOK
<1>3. f.key \in Incident /\ f.finding \in Nat /\ f.finding # 0 /\ f.finding < id
  BY <1>2, ParameterAssumption DEF Alert, Agrees
<1>4. NoRecord.finding = 0
  BY DEF NoRecord
<1>5. q.rec[f.key].finding = f.finding => q.rec[f.key].score = f.score
  BY <1>1, <1>3, <1>4 DEF Outcome, Agrees
<1>6. \A t \in q.trans : t.key = f.key /\ t.finding = f.finding => t.score = f.score
  BY <1>1, <1>5 DEF Agrees, Noting
<1> QED
  BY <1>1, <1>2, <1>3, <1>5, <1>6 DEF Agrees

(* What was written since an incident last came back, or of its present    *)
(* finding, is at most the top of what the log holds of it.                *)
TopCovers(r, written, top) ==
    /\ \A t \in r.trans :
          Current(r.trans, t) /\ <<t.key, t.finding>> \in written => top[t.key] >= t.score
    /\ \A i \in Incident : <<i, r.rec[i].finding>> \in written => top[i] >= r.rec[i].score

(* An incident that comes back at a severity that is alerted. *)
Returns(r, q, i) == ~r.rec[i].active /\ Alerting(q.rec[i])

(* Its return makes a transition. *)
LEMMA ReturnIsNoted ==
    ASSUME NEW r, NEW q, NEW id, NEW seen, NEW ended, Carried(r, q, id, seen, ended),
           NEW i \in Incident, Returns(r, q, i)
    PROVE  /\ seen[i] \in 1..MaxScore /\ i \in Material(r, seen) /\ q.rec[i].finding = id
           /\ r.rec[i] # NoRecord => q.rec[i].state = "recurring"
<1>1. Outcome(r, q, id, seen, ended, i) /\ ~NoRecord.active
  BY DEF Carried, NoRecord
<1>2. seen[i] \in 1..MaxScore /\ q.rec[i].finding = id
  BY <1>1 DEF Returns, Alerting, Outcome
<1>3. i \in Material(r, seen)
  BY <1>2, ParameterAssumption DEF Returns, Material, Present
<1>4. seen[i] # 0
  BY <1>2, ParameterAssumption
<1> QED
  BY <1>1, <1>2, <1>3, <1>4 DEF Returns, Outcome

LEMMA RenewedTop ==
    ASSUME NEW r, NEW n, NEW id, NEW seen, NEW ended, Reconciling(r, n, id, seen, ended),
           NEW q, Renewed(r, q, id, seen, ended, ended \union Material(r, seen)),
           NEW written, \A x \in written : x[2] <= r.last,
           NEW top, \A i \in Incident : top[i] \in Nat, TopCovers(r, written, top)
    PROVE  TopCovers(q, written, [i \in Incident |-> IF Returns(r, q, i) THEN 0 ELSE top[i]])
<1> DEFINE after == [i \in Incident |-> IF Returns(r, q, i) THEN 0 ELSE top[i]]
<1>1. Carried(r, q, id, seen, ended)
  BY RenewedIs
<1>2. r.last \in Nat /\ id \in Nat /\ id > r.last /\ q.last = id
  BY <1>1 DEF Reconciling, RepoOK, Carried
<1>3. \A i, f : <<i, f>> \in written => f <= r.last
  <2> SUFFICES ASSUME NEW i, NEW f, <<i, f>> \in written PROVE f <= r.last
    OBVIOUS
  <2>1. <<i, f>>[2] = f
    OBVIOUS
  <2> QED
    BY <2>1
<1>4. ASSUME NEW t \in q.trans, Current(q.trans, t), <<t.key, t.finding>> \in written
      PROVE  after[t.key] >= t.score
  <2>1. t.key \in Incident /\ Outcome(r, q, id, seen, ended, t.key) /\ t.finding <= r.last
    BY <1>1, <1>3, <1>4 DEF Carried
  <2>2. CASE t \in r.trans
    <3>1. Current(r.trans, t)
      <4> SUFFICES ASSUME NEW u \in r.trans, u.key = t.key, Back(u), ~(u.cycle <= t.cycle)
                   PROVE  FALSE
        BY DEF Current
      <4>1. u.cycle \in Nat /\ t.cycle \in Nat
        BY <2>2 DEF Reconciling, TransitionsOK
      <4>2. u \in q.trans
        BY <1>1, <4>1 DEF Carried
      <4> QED
        BY <1>4, <4>2 DEF Current
    <3>2. ~Returns(r, q, t.key)
      <4> SUFFICES ASSUME Returns(r, q, t.key) PROVE FALSE
        OBVIOUS
      <4>1. r.rec[t.key] # NoRecord /\ t.cycle \in 1..r.last
        BY <2>2 DEF Reconciling, TransitionsOK
      <4>2. t.key \in Material(r, seen) /\ q.rec[t.key].state = "recurring"
        BY <1>1, <2>1, <4>1, ReturnIsNoted
      <4>3. PICK u \in q.trans : u.key = t.key /\ Noting(q, u)
        BY <1>1, <4>2 DEF Carried
      <4>4. u.cycle = id /\ Back(u)
        BY <1>2, <4>2, <4>3 DEF Noting, Back, Returns, Alerting
      <4> QED
        BY <1>2, <1>4, <4>1, <4>3, <4>4 DEF Current
    <3>3. top[t.key] >= t.score
      BY <1>4, <2>2, <3>1 DEF TopCovers
    <3> QED
      BY <2>1, <3>2, <3>3
  <2>3. CASE t \notin r.trans
    <3>1. Noting(q, t) /\ t.key \in ended \union Material(r, seen) /\ q.rec[t.key] # NoRecord
      BY <1>1, <2>3 DEF Carried
    <3>2. t.finding = q.rec[t.key].finding /\ t.score = q.rec[t.key].score
      BY <3>1 DEF Noting
    <3>3. seen[t.key] = 0
      BY <1>2, <2>1, <3>2 DEF Outcome
    <3>4. t.key \in ended
      BY <3>1, <3>3 DEF Material, Present
    <3>5. /\ q.rec[t.key].finding = r.rec[t.key].finding
          /\ q.rec[t.key].score = r.rec[t.key].score /\ r.rec[t.key].active
      BY <2>1, <3>1, <3>4 DEF Outcome
    <3>6. top[t.key] >= t.score
      BY <1>4, <2>1, <3>2, <3>5 DEF TopCovers
    <3> QED
      BY <2>1, <3>5, <3>6 DEF Returns
  <2> QED
    BY <2>2, <2>3
<1>5. ASSUME NEW i \in Incident, <<i, q.rec[i].finding>> \in written
      PROVE  after[i] >= q.rec[i].score
  <2>1. Outcome(r, q, id, seen, ended, i) /\ q.rec[i].finding <= r.last
    BY <1>1, <1>3, <1>5 DEF Carried
  <2>2. q.rec[i].finding # id
    BY <1>2, <2>1
  <2>3. ~Returns(r, q, i)
    BY <1>1, <2>2, ReturnIsNoted
  <2>4. CASE q.rec[i] = NoRecord
    BY <2>3, <2>4 DEF NoRecord
  <2>5. CASE q.rec[i] # NoRecord
    <3>1. q.rec[i].finding = r.rec[i].finding /\ q.rec[i].score = r.rec[i].score
      BY <2>1, <2>2, <2>5 DEF Outcome
    <3>2. top[i] >= r.rec[i].score
      BY <1>5, <3>1 DEF TopCovers
    <3> QED
      BY <2>3, <3>1, <3>2
  <2> QED
    BY <2>4, <2>5
<1> QED
  BY <1>4, <1>5 DEF TopCovers

-----------------------------------------------------------------------------
(* The incidents in a cycle *)

AlertedIn(r, alerts, i) == {t \in r.trans : t.key = i /\ <<i, t.finding>> \in alerts}

(* If the incident is one to alert, the log holds its present score. *)
Fresh(r, top, i) == Alerting(r.rec[i]) => top[i] >= r.rec[i].score

(* An incident that came back, and was there before, was alerted since. *)
Marked(r, alerts, i) ==
    (\E u \in r.trans : u.key = i /\ ~Current(r.trans, u)) =>
        \E t \in AlertedIn(r, alerts, i) : Current(r.trans, t)

Reappears(r, i) ==
    LET own     == {t \in r.trans : t.key = i}
        earlier == {t \in own : \E u \in own : u.cycle > t.cycle}
    IN  /\ Alerting(r.rec[i])
        /\ r.rec[i].state = "recurring" /\ earlier # {} /\ Latest(earlier).state = "resolved"

(* A transition of the present finding. *)
Traced(r, i) ==
    \E t \in r.trans : t.key = i /\ t.finding = r.rec[i].finding /\ Current(r.trans, t)

OnlyTraces(r, i) ==
    \A t \in r.trans : t.key = i => t.finding = r.rec[i].finding /\ Current(r.trans, t)

(* After a reconciliation: what keeps the incident from being alerted with *)
(* its present score is that it was, and if it came back, it was alerted   *)
(* since or is about to be.                                                *)
Explained(r, top, i) ==
    Fresh(r, top, i) \/ Reappears(r, i) \/ r.rec[i].state = "changed" \/ OnlyTraces(r, i)

Remarked(r, alerts, i) == Marked(r, alerts, i) \/ (Reappears(r, i) /\ Traced(r, i))

(* The newest row but the last. *)
LEMMA LatestIs ==
    ASSUME NEW n \in Nat, NEW T, T # {}, \A t \in T : t.cycle \in 1..n
    PROVE  Latest(T) \in T /\ \A u \in T : u.cycle <= Latest(T).cycle
<1>1. \E t \in T : \A u \in T : u.cycle <= t.cycle
  BY NewestRow
<1> QED
  BY <1>1 DEF Latest

(* An incident that ended comes back. *)
LEMMA ComesBack ==
    ASSUME NEW r, NEW n, NEW id, NEW seen, NEW ended, Reconciling(r, n, id, seen, ended),
           NEW q, Renewed(r, q, id, seen, ended, ended \union Material(r, seen)),
           NEW i \in Incident, Returns(r, q, i), r.rec[i] # NoRecord, seen[i] > 0,
           NEW o \in q.trans, o \in r.trans, o.key = i
    PROVE  Reappears(q, i) /\ Traced(q, i)
<1>1. Carried(r, q, id, seen, ended) /\ TransitionsOK(q)
  BY RenewedIs, RenewedTransitions
<1>2. r.last \in Nat /\ id \in Nat /\ id > r.last /\ q.last = id
  BY <1>1 DEF Reconciling, RepoOK, Carried
<1>3. i \in Material(r, seen) /\ ~r.rec[i].active
  BY <1>1, ReturnIsNoted DEF Returns
<1>4. PICK new \in q.trans : new.key = i /\ Noting(q, new)
  BY <1>1, <1>3 DEF Carried
<1>5. /\ q.rec[i].state = "recurring" /\ q.rec[i].finding = id
      /\ new.cycle = id /\ new.state = "recurring" /\ new.finding = id
  <2>1. seen[i] # 0
    OBVIOUS
  <2>2. Outcome(r, q, id, seen, ended, i)
    BY <1>1 DEF Carried
  <2>3. q.rec[i].state = "recurring" /\ q.rec[i].finding = id
    BY <1>3, <2>1, <2>2 DEF Outcome
  <2> QED
    BY <1>2, <1>4, <2>3 DEF Noting
<1>6. \A t \in r.trans : t.cycle \in Nat /\ t.cycle < id
  BY <1>2 DEF Reconciling, TransitionsOK
<1>7. \A t \in q.trans : t.cycle \in 1..id
  BY <1>1, <1>2 DEF TransitionsOK
<1> DEFINE own     == {t \in q.trans : t.key = i}
           earlier == {t \in own : \E u \in own : u.cycle > t.cycle}
<1>8. \A t \in own : t \in r.trans => t \in earlier
  BY <1>4, <1>5, <1>6
<1>9. \A t \in earlier : t \in q.trans /\ t.key = i /\ t.cycle < id
  BY <1>2, <1>7
<1>10. o \in earlier
  BY <1>8
<1>11. \A t \in earlier : t.cycle \in 1..id
  BY <1>7
<1> DEFINE last == Latest(earlier)
<1>12. last \in earlier /\ \A u \in earlier : u.cycle <= last.cycle
  <2> HIDE DEF earlier
  <2> QED
    BY <1>2, <1>10, <1>11, LatestIs
<1> HIDE DEF last
<1>13. last \in r.trans
  <2>1. last \in q.trans /\ last.cycle < id
    BY <1>9, <1>12
  <2>2. Noting(q, last) => last.cycle = id
    BY <1>2 DEF Noting
  <2> QED
    BY <1>1, <1>2, <2>1, <2>2 DEF Carried
<1>14. last.state = "resolved"
  <2>1. PICK u \in r.trans : u.key = i /\ u.cycle >= last.cycle /\ u.state = "resolved"
    BY <1>3, <1>9, <1>12, <1>13 DEF Reconciling, TransitionsOK
  <2>2. u \in q.trans
    BY <1>1, <1>9, <1>12, <2>1 DEF Carried
  <2>3. u \in earlier
    BY <1>8, <2>1, <2>2
  <2>4. u.cycle = last.cycle
    BY <1>6, <1>12, <1>13, <2>1, <2>3
  <2>5. u = last
    BY <1>9, <1>12, <1>13, <2>1, <2>4 DEF Reconciling, TransitionsOK
  <2> QED
    BY <2>1, <2>5
<1>15. Reappears(q, i)
  BY <1>5, <1>10, <1>14 DEF Reappears, Returns, last
<1>16. Current(q.trans, new)
  BY <1>2, <1>5, <1>7 DEF Current
<1> QED
  BY <1>4, <1>5, <1>15, <1>16 DEF Traced

(* Where no transition of before is left, those of the reconciled cycle    *)
(* are all there are.                                                      *)
LEMMA StartsAnew ==
    ASSUME NEW r, NEW n, NEW id, NEW seen, NEW ended, Reconciling(r, n, id, seen, ended),
           NEW q, Renewed(r, q, id, seen, ended, ended \union Material(r, seen)),
           NEW i \in Incident, \A t \in q.trans : t \in r.trans => t.key # i, NEW alerts
    PROVE  OnlyTraces(q, i) /\ Marked(q, alerts, i)
<1>1. Carried(r, q, id, seen, ended)
  BY RenewedIs
<1>2. q.last \in Nat
  BY <1>1 DEF Carried, Reconciling
<1>3. \A t \in q.trans : t.key = i => Noting(q, t)
  BY <1>1 DEF Carried
<1>4. \A t \in q.trans : t.key = i => t.cycle = q.last /\ t.finding = q.rec[i].finding
  BY <1>3 DEF Noting
<1>5. \A t \in q.trans : t.key = i => Current(q.trans, t)
  BY <1>2, <1>4 DEF Current
<1> QED
  BY <1>4, <1>5 DEF OnlyTraces, Marked

(* An incident that does not come back: the alert that followed its last   *)
(* return is still the alert of a transition that pruning keeps.           *)
LEMMA StaysMarked ==
    ASSUME NEW r, NEW n, NEW id, NEW seen, NEW ended, Reconciling(r, n, id, seen, ended),
           NEW q, Renewed(r, q, id, seen, ended, ended \union Material(r, seen)),
           NEW i \in Incident, ~Returns(r, q, i),
           NEW alerts, Marked(r, alerts, i)
    PROVE  Marked(q, alerts, i)
<1>1. Carried(r, q, id, seen, ended)
  BY RenewedIs
<1>2. Outcome(r, q, id, seen, ended, i)
  BY <1>1 DEF Carried
<1>3. r.last \in Nat /\ id \in Nat /\ id > r.last /\ q.last = id
  BY <1>1 DEF Reconciling, RepoOK, Carried
<1>4. \A v \in q.trans : v.key = i /\ Back(v) => v \in r.trans
  <2> SUFFICES ASSUME NEW v \in q.trans, v.key = i, Back(v), v \notin r.trans PROVE FALSE
    OBVIOUS
  <2>1. Noting(q, v) /\ i \in ended \union Material(r, seen) /\ q.rec[i] # NoRecord
    BY <1>1 DEF Carried
  <2>2. q.rec[i].state = "recurring" /\ q.rec[i].score >= AlertedFrom
    BY <2>1 DEF Noting, Back
  <2>3. i \notin ended
    BY <1>2, <2>1, <2>2 DEF Outcome
  <2>4. i \in Material(r, seen) /\ seen[i] # 0
    BY <2>1, <2>3 DEF Material, Present
  <2>5. q.rec[i].active
    BY <1>2, <2>4 DEF Outcome
  <2>6. ~r.rec[i].active
    BY <1>2, <2>2, <2>4 DEF Outcome, Material, NoRecord
  <2> QED
    BY <2>2, <2>5, <2>6 DEF Returns, Alerting
<1> SUFFICES ASSUME NEW u \in q.trans, u.key = i, ~Current(q.trans, u)
             PROVE  \E t \in AlertedIn(q, alerts, i) : Current(q.trans, t)
  BY DEF Marked
<1>5. PICK v \in q.trans : v.key = i /\ Back(v) /\ ~(v.cycle <= u.cycle)
  BY DEF Current
<1>6. v \in r.trans /\ v.cycle \in 1..r.last
  BY <1>4, <1>5 DEF Reconciling, TransitionsOK
<1>7. u \in r.trans
  <2>1. Noting(q, u) => u.cycle = id
    BY <1>3 DEF Noting
  <2> QED
    BY <1>1, <1>3, <1>5, <1>6, <2>1 DEF Carried
<1>8. ~Current(r.trans, u)
  BY <1>5, <1>6 DEF Current
<1>9. PICK t \in AlertedIn(r, alerts, i) : Current(r.trans, t)
  BY <1>7, <1>8 DEF Marked
<1>10. t \in r.trans /\ t.key = i /\ <<i, t.finding>> \in alerts
  BY DEF AlertedIn
<1>11. v.cycle <= t.cycle /\ v.cycle \in Nat /\ t.cycle \in Nat
  BY <1>5, <1>6, <1>9, <1>10 DEF Current, Reconciling, TransitionsOK
<1>12. t \in q.trans
  BY <1>1, <1>5, <1>10, <1>11 DEF Carried
<1>13. Current(q.trans, t)
  BY <1>4, <1>9, <1>10 DEF Current
<1> QED
  BY <1>10, <1>12, <1>13 DEF AlertedIn

(* What the reconciliation leaves of an incident. *)
LEMMA RenewedPhase ==
    ASSUME NEW r, NEW n, NEW id, NEW seen, NEW ended, Reconciling(r, n, id, seen, ended),
           NEW q, Renewed(r, q, id, seen, ended, ended \union Material(r, seen)),
           NEW i \in Incident, NEW alerts, NEW top, NEW after,
           ~Returns(r, q, i) => after[i] = top[i],
           Fresh(r, top, i), Marked(r, alerts, i)
    PROVE  Explained(q, after, i) /\ Remarked(q, alerts, i)
<1>1. Carried(r, q, id, seen, ended)
  BY RenewedIs
<1>2. Outcome(r, q, id, seen, ended, i) /\ r.rec[i] \in Record \union {NoRecord}
  BY <1>1 DEF Carried
<1>3. CASE ~Returns(r, q, i)
  <2>1. Marked(q, alerts, i)
    BY <1>3, StaysMarked
  <2>2. Fresh(q, after, i) \/ q.rec[i].state = "changed"
    <3> SUFFICES ASSUME Alerting(q.rec[i]), q.rec[i].state # "changed"
                 PROVE  after[i] >= q.rec[i].score
      BY DEF Fresh
    <3>1. r.rec[i].active /\ q.rec[i].active /\ q.rec[i].score >= AlertedFrom
      BY <1>3 DEF Returns, Alerting
    <3>2. r.rec[i] # NoRecord
      BY <3>1 DEF NoRecord
    <3>3. q.rec[i].score = r.rec[i].score
      BY <1>2, <3>1, <3>2 DEF Outcome
    <3> QED
      BY <1>3, <3>1, <3>3 DEF Fresh, Alerting
  <2> QED
    BY <2>1, <2>2 DEF Explained, Remarked
<1>4. CASE Returns(r, q, i)
  <2>1. seen[i] > 0
    BY <1>1, <1>4, ReturnIsNoted, ParameterAssumption
  <2>2. CASE \A t \in q.trans : t \in r.trans => t.key # i
    BY <2>2, StartsAnew DEF Explained, Remarked
  <2>3. CASE ~(\A t \in q.trans : t \in r.trans => t.key # i)
    <3>1. PICK o \in q.trans : o \in r.trans /\ o.key = i
      BY <2>3
    <3>2. r.rec[i] # NoRecord
      BY <3>1 DEF Reconciling, TransitionsOK
    <3> QED
      BY <1>4, <2>1, <3>1, <3>2, ComesBack DEF Explained, Remarked
  <2> QED
    BY <2>2, <2>3
<1> QED
  BY <1>3, <1>4

-----------------------------------------------------------------------------
(* The state while every cycle is the service's and none was abandoned *)

Calm == hist.errors = 0 /\ hist.crashes = 0 /\ hist.scans = 0

(* The service's cycles are processed one by one, and none is replayed. *)
Position ==
    LET c == svc.cycle
    IN  /\ c.pc \in {"idle", "collected", "reconciled", "alerting"} => repo.last = store.lastId
        /\ c.pc \in {"persisted", "replaying"} =>
              \/ c.id <= repo.last /\ repo.last = store.lastId
              \/ c.id = store.lastId /\ repo.last + 1 = c.id
        /\ c.pc = "replaying" => c.rows = << >>

Queued(r, e, i) == \E f \in e.queue : f.key = i /\ f.score = r.rec[i].score

Due(r, e, i) ==
    \E f \in e.queue \union e.hand : f.key = i /\
        \E t \in r.trans : t.key = i /\ t.finding = f.finding /\ Current(r.trans, t)

(* Between the reconciliation and the query an incident without an alert   *)
(* of its present score is one the query returns; from the query on it is  *)
(* queued.                                                                 *)
PhaseOK(pc, r, alerts, top, e, i) ==
    /\ pc \in {"idle", "collected", "persisted", "replaying"} =>
          Fresh(r, top, i) /\ Marked(r, alerts, i)
    /\ pc = "reconciled" => Explained(r, top, i) /\ Remarked(r, alerts, i)
    /\ pc = "alerting" =>
          /\ Fresh(r, top, i) \/ Queued(r, e, i)
          /\ Marked(r, alerts, i) \/ Due(r, e, i)

WrittenRows ==
    store.alerts \union
    {<<f.key, f.finding>> : f \in UNION {emitter[a].hand : a \in Actor}}

Tracked ==
    /\ Position
    /\ TransitionsOK(repo)
    /\ \A a \in Actor : \A f \in emitter[a].queue \union emitter[a].hand : Agrees(repo, f)
    /\ \A a \in Actor : \A f, g \in emitter[a].hand : f = g
    /\ \A x \in store.alerts : x[2] <= repo.last
    /\ TopCovers(repo, WrittenRows, hist.top)
    /\ \A i \in Incident :
          PhaseOK(svc.cycle.pc, repo, store.alerts, hist.top, emitter["service"], i)

LEMMA PhaseGrows ==
    ASSUME NEW pc, NEW r, NEW n, RepoOK(r, n), NEW alerts, NEW more, alerts \subseteq more,
           NEW i \in Incident, NEW top, NEW higher, top[i] \in Nat, higher[i] \in Nat,
           higher[i] >= top[i], NEW e, PhaseOK(pc, r, alerts, top, e, i)
    PROVE  PhaseOK(pc, r, more, higher, e, i)
<1>1. r.rec[i].score \in Nat
  <2>1. r.rec[i] \in Record \union {NoRecord}
    BY DEF RepoOK
  <2> QED
    BY <2>1, ParameterAssumption DEF Record, NoRecord
<1>2. Fresh(r, top, i) => Fresh(r, higher, i)
  BY <1>1 DEF Fresh
<1>3. Marked(r, alerts, i) => Marked(r, more, i)
  BY DEF Marked, AlertedIn
<1>4. Explained(r, top, i) => Explained(r, higher, i)
  BY <1>2 DEF Explained
<1>5. Remarked(r, alerts, i) => Remarked(r, more, i)
  BY <1>3 DEF Remarked
<1> QED
  BY <1>2, <1>3, <1>4, <1>5 DEF PhaseOK

(* A step that does not touch the repository, the alerts or the log. *)
LEMMA SilentStep ==
    ASSUME Tracked, UNCHANGED <<repo, emitter, hist>>, store'.alerts = store.alerts, Position',
           \A i \in Incident :
              PhaseOK(svc.cycle.pc, repo, store.alerts, hist.top, emitter["service"], i) =>
              PhaseOK(svc'.cycle.pc, repo, store.alerts, hist.top, emitter["service"], i)
    PROVE  Tracked'
<1>1. WrittenRows' = WrittenRows
  BY DEF WrittenRows
<1>2. \A i \in Incident :
         PhaseOK(svc'.cycle.pc, repo', store'.alerts, hist'.top, emitter'["service"], i)
  BY DEF Tracked
<1> QED
  BY <1>1, <1>2 DEF Tracked

(* The same, in a cycle that is before its reconciliation, or over. *)
LEMMA SilentPhase ==
    ASSUME NEW pc, NEW after \in {"idle", "collected", "persisted", "replaying"},
           NEW r, NEW alerts, NEW top, NEW e, NEW i,
           \/ pc \in {"idle", "collected", "persisted", "replaying"}
           \/ pc = "alerting" /\ e = NoAlerts,
           PhaseOK(pc, r, alerts, top, e, i)
    PROVE  PhaseOK(after, r, alerts, top, e, i)
BY DEF PhaseOK, NoAlerts, Queued, Due

LEMMA CollectTracked ==
    ASSUME Inv, Tracked, NEW seen, NEW covered, Collect(seen, covered)
    PROVE  Tracked'
<1>1. /\ svc'.cycle = [pc |-> "collected", id |-> 0, seen |-> seen, covered |-> covered,
                       rows |-> << >>]
      /\ svc.cycle.pc = "idle" /\ UNCHANGED <<store, repo, emitter, hist>>
  BY CycleIs DEF Collect, At
<1>2. Position'
  BY <1>1 DEF Tracked, Position
<1>3. \A i \in Incident :
         PhaseOK(svc.cycle.pc, repo, store.alerts, hist.top, emitter["service"], i) =>
         PhaseOK(svc'.cycle.pc, repo, store.alerts, hist.top, emitter["service"], i)
  BY <1>1, SilentPhase
<1> QED
  BY <1>1, <1>2, <1>3, SilentStep

LEMMA PersistTracked ==
    ASSUME Inv, ~Ages, Tracked, PersistDurable \/ PersistVolatile
    PROVE  Tracked'
<1>1. /\ svc.cycle.pc = "collected" /\ UNCHANGED <<repo, emitter, hist>>
      /\ svc.cycle.seen \in Observation
  BY InvParts DEF PersistDurable, PersistVolatile, At, SvcOK, Cycle
<1>2. /\ svc'.cycle.pc = "persisted" /\ store'.alerts = store.alerts
      /\ Position'
  <2>1. CASE PersistDurable
    <3>1. /\ svc'.cycle = [pc |-> "persisted", id |-> store.lastId + 1, seen |-> svc.cycle.seen,
                           covered |-> svc.cycle.covered, rows |-> svc.cycle.rows]
      BY <2>1, CycleIs
    <3>2. /\ store.lastId < MaxId
          /\ store' \in {Added(store, svc.cycle.seen)} \cup
               {Retain(Added(store, svc.cycle.seen), old) : old \in Old(Added(store, svc.cycle.seen))}
      BY <2>1 DEF PersistDurable
    <3>3. store'.lastId = store.lastId + 1 /\ store'.alerts = store.alerts
      BY <1>1, <3>2, ChainGrows, FindingsGrow
    <3> QED
      BY <1>1, <3>1, <3>3 DEF Tracked, Position
  <2>2. CASE PersistVolatile
    <3>1. /\ svc'.cycle = [pc |-> "persisted", id |-> Max(DOMAIN store.chain),
                           seen |-> svc.cycle.seen, covered |-> svc.cycle.covered,
                           rows |-> svc.cycle.rows]
      BY <2>2, CycleIs
    <3>2. DOMAIN store.chain # {} /\ UNCHANGED store
      BY <2>2 DEF PersistVolatile
    <3>3. Max(DOMAIN store.chain) \in 1..store.lastId
      <4> DEFINE S == DOMAIN store.chain
      <4>1. S \in SUBSET (1..store.lastId) /\ store.lastId \in Nat /\ S # {}
        BY <3>2, Ids
      <4> HIDE DEF S
      <4>2. Max(S) \in 1..store.lastId
        BY <4>1, GreatestOfNat
      <4> QED
        BY <4>2 DEF S
    <3> DEFINE id == Max(DOMAIN store.chain)
    <3>4. id \in 1..store.lastId /\ svc'.cycle.id = id /\ svc'.cycle.pc = "persisted"
      BY <3>1, <3>3
    <3> HIDE DEF id
    <3>5. repo.last = store.lastId /\ store.lastId \in Nat
      BY <1>1, Ids DEF Tracked, Position
    <3> QED
      BY <1>1, <3>2, <3>4, <3>5 DEF Position
  <2> QED
    BY <2>1, <2>2
<1>3. \A i \in Incident :
         PhaseOK(svc.cycle.pc, repo, store.alerts, hist.top, emitter["service"], i) =>
         PhaseOK(svc'.cycle.pc, repo, store.alerts, hist.top, emitter["service"], i)
  BY <1>1, <1>2, SilentPhase
<1> QED
  BY <1>1, <1>2, <1>3, SilentStep

LEMMA CatchUpTracked ==
    ASSUME Inv, Tracked, CatchUp
    PROVE  Tracked'
<1>1. /\ svc'.cycle = [pc |-> "replaying", id |-> svc.cycle.id, seen |-> svc.cycle.seen,
                       covered |-> svc.cycle.covered, rows |-> Restrict(store.chain, Unprocessed)]
      /\ UNCHANGED <<store, emitter, hist>> /\ svc.cycle.pc = "persisted"
  BY CycleIs DEF CatchUp, At
<1>2. \/ svc.cycle.id <= repo.last /\ repo.last = store.lastId
      \/ svc.cycle.id = store.lastId /\ repo.last + 1 = svc.cycle.id
  BY <1>1 DEF Tracked, Position
<1>3. Unprocessed = {}
  BY <1>2, Ids DEF Unprocessed
<1>4. UNCHANGED repo
  <2>1. Floor = repo.last
    BY <1>3 DEF Floor, StartsLate
  <2> QED
    BY <2>1, InvParts DEF CatchUp, RepoOK
<1>5. svc'.cycle.rows = << >>
  <2>1. Restrict(store.chain, {}) = << >>
    BY DEF Restrict
  <2> QED
    BY <1>1, <1>3, <2>1
<1>6. Position'
  BY <1>1, <1>2, <1>4, <1>5 DEF Position
<1>7. \A i \in Incident :
         PhaseOK(svc.cycle.pc, repo, store.alerts, hist.top, emitter["service"], i) =>
         PhaseOK(svc'.cycle.pc, repo, store.alerts, hist.top, emitter["service"], i)
  BY <1>1, SilentPhase
<1> QED
  BY <1>1, <1>4, <1>6, <1>7, SilentStep

LEMMA ProcessedTracked ==
    ASSUME Inv, Tracked, AlreadyProcessed
    PROVE  Tracked'
<1>1. /\ svc'.cycle = [pc |-> "reconciled", id |-> svc.cycle.id, seen |-> svc.cycle.seen,
                       covered |-> svc.cycle.covered, rows |-> svc.cycle.rows]
      /\ UNCHANGED <<store, repo, emitter, hist>> /\ svc.cycle.pc = "replaying"
      /\ svc.cycle.id <= repo.last
  BY CycleIs DEF AlreadyProcessed, At, Processed
<1>2. Position'
  BY <1>1, Ids DEF Tracked, Position
<1>3. \A i \in Incident :
         PhaseOK(svc.cycle.pc, repo, store.alerts, hist.top, emitter["service"], i) =>
         PhaseOK(svc'.cycle.pc, repo, store.alerts, hist.top, emitter["service"], i)
  BY <1>1 DEF PhaseOK, Explained, Remarked
<1> QED
  BY <1>1, <1>2, <1>3, SilentStep

LEMMA CompleteTracked ==
    ASSUME Inv, Tracked, Complete
    PROVE  Tracked'
<1>1. /\ svc'.cycle = NoCycle /\ UNCHANGED <<store, repo, emitter, hist>>
      /\ svc.cycle.pc = "alerting" /\ emitter["service"] = NoAlerts
  BY CycleIs DEF Complete, At
<1>2. svc'.cycle.pc = "idle"
  BY <1>1 DEF NoCycle
<1>3. Position'
  BY <1>1, <1>2 DEF Tracked, Position
<1>4. \A i \in Incident :
         PhaseOK(svc.cycle.pc, repo, store.alerts, hist.top, emitter["service"], i) =>
         PhaseOK(svc'.cycle.pc, repo, store.alerts, hist.top, emitter["service"], i)
  BY <1>1, <1>2, SilentPhase
<1> QED
  BY <1>1, <1>3, <1>4, SilentStep

(* No cycle is replayed and none has a gap before it. *)
LEMMA NoReplay ==
    ASSUME Inv, Tracked
    PROVE  ~Replay /\ ~GapFails
<1>1. ~Replay
  BY DEF Replay, At, Tracked, Position
<1>2. ~GapFails
  <2> SUFFICES ASSUME GapFails PROVE FALSE
    OBVIOUS
  <2>1. svc.cycle.pc = "replaying" /\ svc.cycle.rows = << >>
    BY DEF GapFails, At, Tracked, Position
  <2>2. Gap(Min({svc.cycle.id}))
    <3>1. DOMAIN << >> \cup {svc.cycle.id} = {svc.cycle.id}
      OBVIOUS
    <3> QED
      BY <2>1, <3>1 DEF GapFails
  <2>3. Min({svc.cycle.id}) = svc.cycle.id
    <3> DEFINE S == {svc.cycle.id}
    <3>1. S \in SUBSET Nat /\ S # {}
      BY Ids
    <3> HIDE DEF S
    <3>2. Min(S) \in S
      BY <3>1, LeastOfNat
    <3> QED
      BY <3>2 DEF S
  <2> QED
    BY <2>1, <2>2, <2>3, Ids DEF Gap, Processed, Tracked, Position
<1> QED
  BY <1>1, <1>2

(* An appended alert is in the log, with its score, before it is marked. *)
LEMMA AppendTracked ==
    ASSUME Inv, HistOK, EmitterOK, Tracked,
           NEW a \in Actor, NEW f \in emitter[a].queue, Append_(a, f)
    PROVE  Tracked'
<1>1. /\ f \in Alert
      /\ hist'.top = [hist.top EXCEPT ![f.key] = IF f.score > @ THEN f.score ELSE @]
      /\ emitter' = [emitter EXCEPT ![a] = [queue |-> emitter[a].queue \ {f}, hand |-> {f}]]
      /\ UNCHANGED <<store, repo, svc>>
  BY AppendIs
<1>2. f.key \in Incident /\ f.score \in Nat
  BY <1>1 DEF Alert
<1>3. hist.top \in [Incident -> 0..MaxScore] /\ MaxScore \in Nat
  BY ParameterAssumption DEF HistOK
<1>4. \A i \in Incident : /\ hist.top[i] \in Nat /\ hist'.top[i] \in Nat
                          /\ hist'.top[i] >= hist.top[i]
  BY <1>1, <1>2, <1>3
<1>5. hist'.top[f.key] >= f.score
  BY <1>1, <1>2, <1>3
<1>6. \A b \in Actor : \/ b = a /\ emitter'[b].queue = emitter[b].queue \ {f}
                               /\ emitter'[b].hand = {f}
                       \/ b # a /\ emitter'[b] = emitter[b]
  BY <1>1 DEF EmitterOK
<1>7. \A b \in Actor : \A g \in emitter'[b].queue \union emitter'[b].hand :
         g \in emitter[b].queue \union emitter[b].hand
  BY <1>6
<1>8. \A b \in Actor : \A g, h \in emitter'[b].hand : g = h
  BY <1>6 DEF Tracked
<1>9. \A x \in WrittenRows' : x \in WrittenRows \/ x = <<f.key, f.finding>>
  BY <1>1, <1>6 DEF WrittenRows
<1>10. \A t \in repo.trans : /\ t.key \in Incident /\ t.score \in Nat
  BY DEF Tracked, TransitionsOK
<1>11. TopCovers(repo, WrittenRows', hist'.top)
  <2>1. ASSUME NEW i \in Incident, NEW score \in Nat, NEW finding,
               <<i, finding>> \in WrittenRows => hist.top[i] >= score,
               i = f.key /\ finding = f.finding => score = f.score,
               <<i, finding>> \in WrittenRows'
        PROVE  hist'.top[i] >= score
    <3>1. CASE <<i, finding>> \in WrittenRows
      BY <1>4, <2>1, <3>1
    <3>2. CASE <<i, finding>> = <<f.key, f.finding>>
      BY <1>5, <2>1, <3>2
    <3> QED
      BY <1>9, <2>1, <3>1, <3>2
  <2>2. Agrees(repo, f) /\ TopCovers(repo, WrittenRows, hist.top)
    BY DEF Tracked
  <2>3. ASSUME NEW t \in repo.trans, Current(repo.trans, t), <<t.key, t.finding>> \in WrittenRows'
        PROVE  hist'.top[t.key] >= t.score
    BY <1>10, <2>1, <2>2, <2>3 DEF TopCovers, Agrees
  <2>4. ASSUME NEW i \in Incident, <<i, repo.rec[i].finding>> \in WrittenRows'
        PROVE  hist'.top[i] >= repo.rec[i].score
    <3>1. repo.rec[i].score \in Nat
      <4>1. repo.rec[i] \in Record \union {NoRecord}
        BY InvParts DEF RepoOK
      <4> QED
        BY <4>1, ParameterAssumption DEF Record, NoRecord
    <3> QED
      BY <2>1, <2>2, <2>4, <3>1 DEF TopCovers, Agrees
  <2> QED
    BY <2>3, <2>4 DEF TopCovers
<1>12. ASSUME NEW i \in Incident
       PROVE  PhaseOK(svc.cycle.pc, repo, store.alerts, hist'.top, emitter'["service"], i)
  <2>1. i \in Incident /\ "service" \in Actor /\ RepoOK(repo, store.lastId)
    BY InvParts DEF Actor
  <2>2. PhaseOK(svc.cycle.pc, repo, store.alerts, hist'.top, emitter["service"], i)
    <3>1. PhaseOK(svc.cycle.pc, repo, store.alerts, hist.top, emitter["service"], i)
      BY DEF Tracked
    <3> QED
      BY <1>4, <2>1, <3>1, PhaseGrows
  <2>3. CASE a # "service"
    BY <1>6, <2>1, <2>2, <2>3
  <2>4. CASE a = "service"
    <3>1. /\ emitter["service"].hand = {}
          /\ emitter'["service"].queue = emitter["service"].queue \ {f}
          /\ emitter'["service"].hand = {f}
      BY <1>6, <2>4 DEF Append_
    <3>2. Queued(repo, emitter["service"], i) =>
             Fresh(repo, hist'.top, i) \/ Queued(repo, emitter'["service"], i)
      BY <1>5, <3>1 DEF Queued, Fresh
    <3>3. Due(repo, emitter["service"], i) => Due(repo, emitter'["service"], i)
      BY <3>1 DEF Due
    <3> QED
      BY <2>2, <3>2, <3>3 DEF PhaseOK
  <2> QED
    BY <2>3, <2>4
<1> QED
  BY <1>1, <1>7, <1>8, <1>11, <1>12 DEF Tracked, Position

LEMMA MarkTracked ==
    ASSUME Inv, HistOK, EmitterOK, Tracked, NEW a \in Actor, Mark(a)
    PROVE  Tracked'
<1>1. PICK f \in emitter[a].hand :
        /\ f \in Alert /\ store'.lastId = store.lastId
        /\ store'.alerts = store.alerts \cup {<<f.key, f.finding>>}
        /\ emitter' = [emitter EXCEPT ![a] = [queue |-> emitter[a].queue, hand |-> {}]]
        /\ UNCHANGED <<repo, svc, hist>>
  BY MarkIs
<1>2. \A b \in Actor : \/ b = a /\ emitter'[b].queue = emitter[b].queue /\ emitter'[b].hand = {}
                       \/ b # a /\ emitter'[b] = emitter[b]
  BY <1>1 DEF EmitterOK
<1>3. \A b \in Actor : \A g \in emitter'[b].queue \union emitter'[b].hand :
         g \in emitter[b].queue \union emitter[b].hand
  BY <1>2
<1>4. \A b \in Actor : \A g, h \in emitter'[b].hand : g = h
  BY <1>2 DEF Tracked
<1>5. Agrees(repo, f)
  BY DEF Tracked
<1>6. \A x \in store'.alerts : x[2] <= repo.last
  <2>1. <<f.key, f.finding>>[2] = f.finding
    OBVIOUS
  <2> QED
    BY <1>1, <1>5, <2>1 DEF Agrees, Tracked
<1>7. \A x \in WrittenRows' : x \in WrittenRows
  BY <1>1, <1>2 DEF WrittenRows
<1>8. TopCovers(repo, WrittenRows', hist.top)
  BY <1>7 DEF TopCovers, Tracked
<1>9. ASSUME NEW i \in Incident
      PROVE  PhaseOK(svc.cycle.pc, repo, store'.alerts, hist.top, emitter'["service"], i)
  <2>1. i \in Incident /\ "service" \in Actor /\ RepoOK(repo, store.lastId)
    BY InvParts DEF Actor
  <2>2. hist.top[i] \in Nat
    BY <2>1, ParameterAssumption DEF HistOK
  <2>3. hist.top[i] >= hist.top[i] /\ store.alerts \subseteq store'.alerts
    BY <1>1, <2>2
  <2>4. PhaseOK(svc.cycle.pc, repo, store'.alerts, hist.top, emitter["service"], i)
    <3>1. PhaseOK(svc.cycle.pc, repo, store.alerts, hist.top, emitter["service"], i)
      BY DEF Tracked
    <3> QED
      BY <2>1, <2>2, <2>3, <3>1, PhaseGrows
  <2>5. CASE a # "service"
    BY <1>2, <2>1, <2>4, <2>5
  <2>6. CASE a = "service"
    <3>1. /\ emitter'["service"].queue = emitter["service"].queue
          /\ \A g \in emitter["service"].hand : g = f
      BY <1>2, <2>1, <2>6 DEF Tracked
    <3>2. Queued(repo, emitter["service"], i) => Queued(repo, emitter'["service"], i)
      BY <3>1 DEF Queued
    <3>3. Due(repo, emitter["service"], i) =>
             Marked(repo, store'.alerts, i) \/ Due(repo, emitter'["service"], i)
      BY <1>1, <3>1 DEF Due, Marked, AlertedIn
    <3> QED
      BY <2>4, <3>2, <3>3 DEF PhaseOK
  <2> QED
    BY <2>5, <2>6
<1> QED
  BY <1>1, <1>3, <1>4, <1>6, <1>8, <1>9 DEF Tracked, Position

(* An incident that the query leaves out was alerted with its present      *)
(* score, or is not to be alerted.                                         *)
LEMMA LeftOut ==
    ASSUME Inv, HistOK, Tracked, NEW i \in Incident,
           ~WantsAlert(i) \/ ~Alerting(repo.rec[i]),
           Explained(repo, hist.top, i), Remarked(repo, store.alerts, i)
    PROVE  Fresh(repo, hist.top, i) /\ Marked(repo, store.alerts, i)
<1>1. /\ repo.rec[i].score \in Nat /\ i \in Incident /\ hist.top[i] \in Nat
      /\ TransitionsOK(repo) /\ repo.last \in Nat
  <2>1. repo.rec[i] \in Record \union {NoRecord}
    BY InvParts DEF RepoOK
  <2> QED
    BY <2>1, InvParts, ParameterAssumption
    DEF Record, NoRecord, HistOK, Tracked, RepoOK
<1>2. ~Reappears(repo, i)
  BY DEF WantsAlert, Reappeared, TransitionsOf, Reappears
<1>3. Marked(repo, store.alerts, i)
  BY <1>2 DEF Remarked
<1> SUFFICES ASSUME Alerting(repo.rec[i]) PROVE Fresh(repo, hist.top, i)
  BY <1>3 DEF Fresh
<1> DEFINE alerted == AlertedOf(i)
<1>4. /\ alerted # {}
      /\ \A t \in alerted : t \in repo.trans /\ t.key = i /\ <<i, t.finding>> \in store.alerts
      /\ alerted = AlertedIn(repo, store.alerts, i)
  BY DEF WantsAlert, FirstAlert, AlertedOf, TransitionsOf, AlertedIn
<1>5. \A t \in repo.trans : t.cycle \in 1..repo.last /\ t.score \in Nat
  BY <1>1 DEF TransitionsOK
<1>6. ASSUME NEW t \in alerted, Current(repo.trans, t) PROVE hist.top[i] >= t.score
  <2>1. <<t.key, t.finding>> \in WrittenRows
    BY <1>4 DEF WrittenRows
  <2> QED
    BY <1>4, <1>6, <2>1 DEF Tracked, TopCovers
<1>7. CASE Fresh(repo, hist.top, i)
  BY <1>7
<1>8. CASE repo.rec[i].state = "changed"
  <2> DEFINE m == Latest(AlertedOf(i))
  <2>1. repo.rec[i].score <= m.score
    <3>1. ~(repo.rec[i].score > m.score)
      BY <1>4, <1>8 DEF WantsAlert, MaterialChange
    <3>2. m \in alerted
      <4> HIDE DEF alerted
      <4>1. \A t \in alerted : t.cycle \in 1..repo.last
        BY <1>4, <1>5
      <4>2. Latest(alerted) \in alerted
        BY <1>1, <1>4, <4>1, LatestIs
      <4> QED
        BY <4>2 DEF alerted
    <3>3. m.score \in Nat
      BY <1>4, <1>5, <3>2
    <3> HIDE DEF m
    <3> QED
      BY <1>1, <3>1, <3>3
  <2>2. m \in alerted /\ \A u \in alerted : u.cycle <= m.cycle
    <3> HIDE DEF alerted
    <3>1. \A t \in alerted : t.cycle \in 1..repo.last
      BY <1>4, <1>5
    <3>2. Latest(alerted) \in alerted /\ \A u \in alerted : u.cycle <= Latest(alerted).cycle
      BY <1>1, <1>4, <3>1, LatestIs
    <3> QED
      BY <3>2 DEF alerted
  <2> HIDE DEF m
  <2>3. m \in repo.trans /\ m.key = i
    BY <1>4, <2>2
  <2>4. Current(repo.trans, m)
    <3> SUFFICES ASSUME ~Current(repo.trans, m), NEW u \in repo.trans, u.key = i, Back(u)
                 PROVE  u.cycle <= m.cycle
      BY <2>3 DEF Current
    <3>1. PICK t \in alerted : Current(repo.trans, t)
      BY <1>3, <1>4, <2>3 DEF Marked
    <3>2. u.cycle <= t.cycle /\ t.cycle <= m.cycle
      BY <1>4, <2>2, <3>1 DEF Current
    <3>3. t \in repo.trans
      BY <1>4
    <3>4. u.cycle \in Nat /\ t.cycle \in Nat /\ m.cycle \in Nat
      BY <1>5, <2>3, <3>3
    <3> QED
      BY <3>2, <3>4
  <2>5. hist.top[i] >= m.score
    BY <1>6, <2>2, <2>4
  <2>6. m.score \in Nat
    BY <1>5, <2>3
  <2> QED
    BY <1>1, <2>1, <2>5, <2>6 DEF Fresh
<1>9. CASE OnlyTraces(repo, i)
  <2>1. PICK t \in alerted : TRUE
    BY <1>4
  <2>2. t.finding = repo.rec[i].finding /\ Current(repo.trans, t) /\ t \in repo.trans /\ t.key = i
    BY <1>4, <1>9 DEF OnlyTraces
  <2>3. t.score = repo.rec[i].score
    BY <1>1, <2>2 DEF TransitionsOK
  <2> QED
    BY <1>6, <2>2, <2>3 DEF Fresh
<1> QED
  BY <1>2, <1>7, <1>8, <1>9 DEF Explained

LEMMA QueryTracked ==
    ASSUME IsFiniteSet(Incident), Cardinality(Incident) <= Limit,
           Inv, HistOK, EmitterOK, FindingsAreStored, Tracked, QueryAlerts \/ ScanAlerts
    PROVE  Tracked'
<1>1. PICK a \in Actor :
        /\ Query(a) /\ UNCHANGED <<store, repo, hist>>
        /\ \/ a = "scan" /\ UNCHANGED svc
           \/ a = "service" /\ QueryAlerts /\ svc.cycle.pc = "reconciled"
  BY DEF QueryAlerts, ScanAlerts, Actor, At
<1>2. PICK S \in Limited :
        emitter' = [emitter EXCEPT ![a] =
          [queue |-> {[key |-> i, finding |-> repo.rec[i].finding,
                       score |-> repo.rec[i].score] : i \in {i \in S : WantsAlert(i)}},
           hand |-> emitter[a].hand]]
  BY <1>1, QueryIs
<1>3. S = Alertable
  BY LimitedIsAll DEF FindingsAreStored, Candidates, Active, Alertable, Alerting
<1> DEFINE found == {[key |-> i, finding |-> repo.rec[i].finding,
                      score |-> repo.rec[i].score] : i \in {i \in S : WantsAlert(i)}}
<1>4. \A b \in Actor : /\ emitter'[b].hand = emitter[b].hand
                       /\ b # a => emitter'[b] = emitter[b]
                       /\ b = a => emitter'[b].queue = found
  <2> HIDE DEF found
  <2>1. emitter' = [emitter EXCEPT ![a] = [queue |-> found, hand |-> emitter[a].hand]]
    BY <1>2 DEF found
  <2> QED
    BY <2>1 DEF EmitterOK
<1>5. \A f \in found : \E i \in Incident :
         f = [key |-> i, finding |-> repo.rec[i].finding, score |-> repo.rec[i].score]
  BY <1>3 DEF Alertable
<1>6. \A i \in Alertable : WantsAlert(i) =>
         [key |-> i, finding |-> repo.rec[i].finding, score |-> repo.rec[i].score] \in found
  BY <1>3
<1> HIDE DEF found
<1>7. \A f \in found : Agrees(repo, f)
  <2> SUFFICES ASSUME NEW f \in found PROVE Agrees(repo, f)
    OBVIOUS
  <2>1. PICK i \in Incident :
          f = [key |-> i, finding |-> repo.rec[i].finding, score |-> repo.rec[i].score]
    BY <1>5
  <2>2. repo.rec[i].finding <= repo.last
    BY InvParts DEF RepoOK
  <2>3. \A t \in repo.trans : t.key = i /\ t.finding = repo.rec[i].finding =>
                                 t.score = repo.rec[i].score
    BY DEF Tracked, TransitionsOK
  <2> QED
    BY <2>1, <2>2, <2>3 DEF Agrees
<1>8. \A b \in Actor : \A g \in emitter'[b].queue \union emitter'[b].hand : Agrees(repo, g)
  BY <1>4, <1>7 DEF Tracked
<1>9. \A b \in Actor : \A g, h \in emitter'[b].hand : g = h
  BY <1>4 DEF Tracked
<1>10. WrittenRows' = WrittenRows
  BY <1>1, <1>4 DEF WrittenRows
<1>11. Position' /\ (a = "service" => svc'.cycle.pc = "alerting")
  <2>1. CASE a = "scan"
    BY <1>1, <2>1 DEF Tracked, Position
  <2>2. CASE a = "service"
    <3>1. QueryAlerts
      BY <1>1, <2>2
    <3>2. svc'.cycle = [pc |-> "alerting", id |-> svc.cycle.id, seen |-> svc.cycle.seen,
                        covered |-> svc.cycle.covered, rows |-> svc.cycle.rows]
      BY <3>1, CycleIs
    <3> QED
      BY <1>1, <2>2, <3>2 DEF Tracked, Position
  <2> QED
    BY <1>1, <2>1, <2>2
<1>12. ASSUME NEW i \in Incident
       PROVE  PhaseOK(svc'.cycle.pc, repo, store.alerts, hist.top, emitter'["service"], i)
  <2>1. PhaseOK(svc.cycle.pc, repo, store.alerts, hist.top, emitter["service"], i)
        /\ "service" \in Actor /\ "service" # "scan"
    BY DEF Tracked, Actor
  <2>2. CASE a = "scan"
    <3>1. emitter'["service"] = emitter["service"] /\ svc' = svc
      BY <1>1, <1>4, <2>1, <2>2
    <3> QED
      BY <2>1, <3>1
  <2>3. CASE a = "service"
    <3>1. Explained(repo, hist.top, i) /\ Remarked(repo, store.alerts, i)
      BY <1>1, <2>1, <2>3 DEF PhaseOK
    <3>2. CASE ~WantsAlert(i) \/ ~Alerting(repo.rec[i])
      BY <1>11, <2>3, <3>1, <3>2, LeftOut DEF PhaseOK
    <3>3. CASE WantsAlert(i) /\ Alerting(repo.rec[i])
      <4> DEFINE f == [key |-> i, finding |-> repo.rec[i].finding, score |-> repo.rec[i].score]
      <4>1. f \in emitter'["service"].queue
        BY <1>4, <1>6, <2>1, <2>3, <3>3 DEF Alertable
      <4>2. f.key = i /\ f.finding = repo.rec[i].finding /\ f.score = repo.rec[i].score
        OBVIOUS
      <4> HIDE DEF f
      <4>3. Queued(repo, emitter'["service"], i)
        BY <4>1, <4>2 DEF Queued
      <4>4. Marked(repo, store.alerts, i) \/ Due(repo, emitter'["service"], i)
        BY <3>1, <4>1, <4>2 DEF Remarked, Traced, Due
      <4> QED
        BY <1>11, <2>3, <4>3, <4>4 DEF PhaseOK
    <3> QED
      BY <3>2, <3>3
  <2> QED
    BY <1>1, <2>2, <2>3
<1> QED
  BY <1>1, <1>8, <1>9, <1>10, <1>11, <1>12 DEF Tracked

LEMMA ReconcileTracked ==
    ASSUME IsFiniteSet(Incident), Inv, HistOK, EmitterOK, Tracked, Reconcile
    PROVE  Tracked'
<1> DEFINE c     == svc.cycle
           ended == Resolvable(repo, c.seen, c.covered)
<1>1. /\ c.seen \in Observation /\ c.id \in 1..store.lastId /\ c.id \in 1..MaxId
      /\ c.id > repo.last /\ RepoOK(repo, store.lastId) /\ store.lastId \in 0..MaxId
      /\ ended \in SUBSET {i \in Incident : repo.rec[i].active}
      /\ repo' = Stored(repo, c.id, c.seen, ended, ended \union Material(repo, c.seen))
  BY ReconcileIs DEF Material
<1>2. /\ svc'.cycle = [pc |-> "reconciled", id |-> c.id, seen |-> c.seen,
                       covered |-> c.covered, rows |-> c.rows]
      /\ UNCHANGED <<store, emitter>> /\ c.pc = "replaying" /\ Noted(c.id, c.seen)
  BY CycleIs DEF Reconcile, At
<1>3. hist'.top = [i \in Incident |-> IF Returns(repo, repo', i) THEN 0 ELSE hist.top[i]]
  BY <1>1, <1>2, NotedIs DEF Returns
<1>4. \A i \in ended : c.seen[i] = 0
  BY DEF Resolvable
<1>5. Material(repo, c.seen) \subseteq Incident
  BY DEF Material, Present
<1>6. \A i \in Incident : Fresh(repo, hist.top, i) /\ Marked(repo, store.alerts, i)
  BY <1>2 DEF Tracked, PhaseOK
<1>7. c.id = store.lastId
  BY <1>1, <1>2, Ids DEF Tracked, Position
<1> HIDE DEF c, ended
<1>8. Reconciling(repo, store.lastId, c.id, c.seen, ended)
  BY <1>1, <1>4 DEF Reconciling, Tracked
<1>9. Renewed(repo, repo', c.id, c.seen, ended, ended \union Material(repo, c.seen))
  <2>1. ended \union Material(repo, c.seen) \in SUBSET Incident
    BY <1>1, <1>5
  <2>2. TransitionsOK(repo)
    BY DEF Tracked
  <2> QED
    BY <1>1, <2>1, <2>2, StoredIs
<1>10. Carried(repo, repo', c.id, c.seen, ended)
  BY <1>8, <1>9, RenewedIs
<1>11. repo'.last = c.id /\ repo.last \in Nat /\ c.id \in Nat
  <2>1. repo'.last = c.id
    BY <1>10 DEF Carried
  <2>2. repo.last \in Nat
    BY <1>1, Ids
  <2>3. c.id \in Nat
    BY <1>1
  <2> QED
    BY <2>1, <2>2, <2>3
<1>12. TransitionsOK(repo')
  BY <1>8, <1>9, RenewedTransitions
<1>13. \A a \in Actor : \A f \in emitter[a].queue \union emitter[a].hand : Agrees(repo', f)
  <2> SUFFICES ASSUME NEW a \in Actor, NEW f \in emitter[a].queue \union emitter[a].hand
               PROVE  Agrees(repo', f)
    OBVIOUS
  <2>1. f \in Alert /\ Agrees(repo, f)
    BY DEF EmitterOK, Tracked
  <2> QED
    BY <1>8, <1>9, <2>1, RenewedAgrees
<1>14. \A x \in WrittenRows : x[2] <= repo.last
  <2> SUFFICES ASSUME NEW x \in WrittenRows PROVE x[2] <= repo.last
    OBVIOUS
  <2>1. CASE x \in store.alerts
    BY <2>1 DEF Tracked
  <2>2. CASE x \notin store.alerts
    <3>1. PICK f \in UNION {emitter[b].hand : b \in Actor} : x = <<f.key, f.finding>>
      BY <2>2 DEF WrittenRows
    <3>2. Agrees(repo, f) /\ x[2] = f.finding
      BY <3>1 DEF Tracked
    <3> QED
      BY <3>2 DEF Agrees
  <2> QED
    BY <2>1, <2>2
<1>15. TopCovers(repo', WrittenRows, hist'.top)
  <2>1. TopCovers(repo, WrittenRows, hist.top) /\ \A i \in Incident : hist.top[i] \in Nat
    BY ParameterAssumption DEF Tracked, HistOK
  <2> QED
    BY <1>3, <1>8, <1>9, <1>14, <2>1, RenewedTop
<1>16. \A x \in store.alerts : x[2] <= repo'.last
  <2> SUFFICES ASSUME NEW x \in store.alerts PROVE x[2] <= repo'.last
    OBVIOUS
  <2>1. x[2] \in Int
    BY InvParts, ParameterAssumption DEF StoreOK
  <2>2. x[2] <= repo.last
    BY DEF Tracked
  <2> QED
    BY <1>1, <1>11, <2>1, <2>2
<1>17. ASSUME NEW i \in Incident
       PROVE  PhaseOK("reconciled", repo', store.alerts, hist'.top, emitter["service"], i)
  <2>1. ~Returns(repo, repo', i) => hist'.top[i] = hist.top[i]
    BY <1>3
  <2>2. Fresh(repo, hist.top, i) /\ Marked(repo, store.alerts, i)
    BY <1>6
  <2>4. Explained(repo', hist'.top, i) /\ Remarked(repo', store.alerts, i)
    BY <1>8, <1>9, <2>1, <2>2, RenewedPhase
  <2> QED
    BY <2>4 DEF PhaseOK
<1>18. Position'
  BY <1>2, <1>7, <1>11 DEF Position
<1>19. WrittenRows' = WrittenRows
  BY <1>2 DEF WrittenRows
<1>20. \A a \in Actor : \A f, g \in emitter[a].hand : f = g
  BY DEF Tracked
<1> QED
  BY <1>2, <1>12, <1>13, <1>15, <1>16, <1>17, <1>18, <1>19, <1>20 DEF Tracked

(* The budgets only grow. *)
LEMMA CalmBefore ==
    ASSUME Inv, HistOK, EmitterOK, [Next]_vars, Calm'
    PROVE  /\ Calm /\ ~Fail /\ ~Crash
           /\ \A seen \in Observation : ~ScanPersist(seen)
<1>1. hist.errors \in Nat /\ hist.crashes \in Nat /\ hist.scans \in Nat
  BY DEF HistOK
<1>2. ~Fail /\ ~Crash
  BY <1>1 DEF Fail, Crash, Calm, HistOK
<1>3. \A seen \in Observation : ~ScanPersist(seen)
  BY DEF ScanPersist, Calm, HistOK
<1>4. \/ UNCHANGED hist
      \/ Replay \/ Reconcile
      \/ \E a \in Actor : \E f \in emitter[a].queue : Append_(a, f)
  BY <1>2, <1>3 DEF Next, Service, Continue, Scan, Actor, vars, Collect, PersistDurable,
     PersistVolatile, CatchUp, AlreadyProcessed, GapFails, QueryAlerts, Mark, Complete, ScanAlerts
<1>5. CASE UNCHANGED hist
  BY <1>2, <1>3, <1>5 DEF Calm
<1>6. CASE Replay
  <2>1. PICK id : id = Min(DOMAIN svc.cycle.rows)
    OBVIOUS
  <2>2. id \in 1..MaxId /\ svc.cycle.rows[id] \in Observation
    BY <1>6, <2>1, ReplayIs
  <2>3. UNCHANGED hist \/ Noted(id, svc.cycle.rows[id])
    BY <1>6, <2>1 DEF Replay
  <2> QED
    BY <1>2, <1>3, <1>5, <2>2, <2>3, NotedIs DEF Calm
<1>7. CASE Reconcile
  <2>1. svc.cycle.id \in 1..MaxId /\ svc.cycle.seen \in Observation
    BY <1>7, ReconcileIs
  <2>2. Noted(svc.cycle.id, svc.cycle.seen)
    BY <1>7 DEF Reconcile
  <2> QED
    BY <1>2, <1>3, <2>1, <2>2, NotedIs DEF Calm
<1>8. CASE \E a \in Actor : \E f \in emitter[a].queue : Append_(a, f)
  BY <1>2, <1>3, <1>8, AppendIs DEF Calm
<1> QED
  BY <1>4, <1>5, <1>6, <1>7, <1>8

LEMMA TrackedStep ==
    ASSUME IsFiniteSet(Incident), Cardinality(Incident) <= Limit, ~Ages,
           Inv, HistOK, EmitterOK, FindingsAreStored, Calm => Tracked, [Next]_vars
    PROVE  (Calm => Tracked)'
<1> SUFFICES ASSUME Calm' PROVE Tracked'
  OBVIOUS
<1>1. /\ Tracked /\ ~Fail /\ ~Crash
      /\ \A seen \in Observation : ~ScanPersist(seen)
  BY CalmBefore
<1>2. ~Replay /\ ~GapFails
  BY <1>1, NoReplay
<1>3. CASE \E seen \in Observation, covered \in SUBSET Incident : Collect(seen, covered)
  BY <1>1, <1>3, CollectTracked
<1>4. CASE PersistDurable \/ PersistVolatile
  BY <1>1, <1>4, PersistTracked
<1>5. CASE CatchUp \/ AlreadyProcessed \/ Complete \/ Reconcile
  BY <1>1, <1>5, CatchUpTracked, ProcessedTracked, CompleteTracked, ReconcileTracked
<1>6. CASE QueryAlerts \/ ScanAlerts
  BY <1>1, <1>6, QueryTracked
<1>7. CASE \E a \in Actor : \E f \in emitter[a].queue : Append_(a, f)
  BY <1>1, <1>7, AppendTracked
<1>8. CASE \E a \in Actor : Mark(a)
  BY <1>1, <1>8, MarkTracked
<1>9. CASE UNCHANGED vars
  BY <1>1, <1>9 DEF vars, Tracked, Position, WrittenRows
<1> QED
  BY <1>1, <1>2, <1>3, <1>4, <1>5, <1>6, <1>7, <1>8, <1>9
  DEF Next, Service, Continue, Scan, Actor

LEMMA TrackedInit == Init => Tracked
<1> SUFFICES ASSUME Init PROVE Tracked
  OBVIOUS
<1>1. /\ repo.trans = {} /\ repo.last = 0 /\ store.lastId = 0 /\ store.alerts = {}
      /\ svc.cycle.pc = "idle" /\ \A i \in Incident : ~repo.rec[i].active
      /\ \A a \in Actor : emitter[a].queue = {} /\ emitter[a].hand = {}
  BY DEF Init, NoCycle, NoRecord, NoAlerts
<1>2. TransitionsOK(repo)
  BY <1>1, FS_EmptySet DEF TransitionsOK
<1>3. Position
  BY <1>1 DEF Position
<1>4. WrittenRows = {}
  BY <1>1 DEF WrittenRows
<1>5. TopCovers(repo, WrittenRows, hist.top)
  BY <1>1, <1>4 DEF TopCovers
<1>6. \A i \in Incident :
         PhaseOK(svc.cycle.pc, repo, store.alerts, hist.top, emitter["service"], i)
  BY <1>1 DEF PhaseOK, Fresh, Marked, Alerting
<1> QED
  BY <1>1, <1>2, <1>3, <1>5, <1>6 DEF Tracked

(* Material escalation alerts again: when a cycle completes, every active  *)
(* incident of high or critical severity has been in the alert log with    *)
(* its present score or a higher one since it last came back at such a     *)
(* severity - while every cycle is the service's and none was abandoned,   *)
(* with the alerts of quietward scan in between and retention by count at  *)
(* any time; provided the incidents are within the query's LIMIT and no    *)
(* row is deleted by age (operational_findings.py, alerts.py).             *)
THEOREM EscalationsAreAlerted ==
    ASSUME IsFiniteSet(Incident), Cardinality(Incident) <= Limit, ~Ages
    PROVE  Spec => EscalationIsAlertedUnlessCyclesFail
<1> DEFINE All == Inv /\ HistOK /\ EmitterOK /\ FindingsAreStored /\ (Calm => Tracked)
<1>1. Init => All
  BY InitInv, LoggedInit, TrackedInit
<1>2. All /\ [Next]_vars => All'
  BY StepInv, EmitterStep, FindingsStep, TrackedStep
<1>3. All => [Complete /\ hist.errors + hist.crashes + hist.scans = 0
                => \A i \in Incident :
                     Alerting(repo.rec[i]) => hist.top[i] >= repo.rec[i].score]_vars
  <2> SUFFICES ASSUME All, Complete, hist.errors + hist.crashes + hist.scans = 0,
                      NEW i \in Incident, Alerting(repo.rec[i])
               PROVE  hist.top[i] >= repo.rec[i].score
    OBVIOUS
  <2>1. Calm
    BY DEF HistOK, Calm
  <2>2. PhaseOK("alerting", repo, store.alerts, hist.top, NoAlerts, i)
    BY <2>1 DEF Tracked, Complete, At
  <2> QED
    BY <2>2 DEF PhaseOK, Fresh, Queued, NoAlerts
<1> HIDE DEF All
<1> QED
  BY <1>1, <1>2, <1>3, PTL DEF Spec, EscalationIsAlertedUnlessCyclesFail
=============================================================================
