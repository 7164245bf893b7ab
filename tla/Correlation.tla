------------------------------ MODULE Correlation ------------------------------
(***************************************************************************)
(* Scores of events and findings (scoring.py, correlation.py).             *)
(*                                                                         *)
(* Scores are hundredths of a point, so that a weight times a confidence   *)
(* in percent is exact; a logarithm is rounded down.  The host is one, the *)
(* tables of the code are constants.                                       *)
(***************************************************************************)
EXTENDS Integers, SequencesExt

CONSTANTS
    Weight,          \* BASE_WEIGHTS: kind -> points
    FlagBonus,       \* attribute -> points
    MarkerBonus,     \* _MARKER_WEIGHTS: marker -> points
    Floored,         \* _HIGH_CONFIDENCE_MARKERS
    Phase,           \* _PHASE_BY_KIND: kind -> phase, for some kinds
    HighKind,        \* _HIGH_SIGNAL_KINDS
    HighMarker,      \* _HIGH_SIGNAL_MARKERS
    ChainWindow,     \* _ATTACK_CHAIN_WINDOW
    Rank             \* event id -> Nat: the order of event ids, and of subjects

ASSUME CorrelationAssumption ==
    /\ IsFiniteSet(DOMAIN Weight) /\ DOMAIN Phase \subseteq DOMAIN Weight
    /\ \A kind \in DOMAIN Weight : Weight[kind] \in Nat
    /\ \A flag \in DOMAIN FlagBonus : FlagBonus[flag] \in Nat
    /\ \A marker \in DOMAIN MarkerBonus : MarkerBonus[marker] \in Nat
    /\ \A id \in DOMAIN Rank : Rank[id] \in Nat
    /\ \A a, b \in DOMAIN Rank : Rank[a] = Rank[b] => a = b
    /\ ChainWindow \in Nat

Least(a, b) == IF a <= b THEN a ELSE b
Greatest(a, b) == IF a >= b THEN a ELSE b

Points(n) == 100 * n

(* The order of events: (observed_at, event_id). *)
Before(x, y) == x.time < y.time \/ (x.time = y.time /\ Rank[x.id] < Rank[y.id])

-----------------------------------------------------------------------------
(* DeterministicRiskScorer.score *)

(* log2, up to 7: by then both bonuses that use it have reached their limit. *)
Log2(n) == Cardinality({k \in 1..7 : 2 ^ k <= n})

(* The sum of the bonuses of what an event has: each counts its points. *)
SumOf(bonus, has) == Cardinality(UNION {{x} \X (1..bonus[x]) : x \in has})

MarkerPoints(e) == Least(30, SumOf(MarkerBonus, e.markers))

Behaviour(e) ==
    LET sum == Weight[e.kind] * e.confidence
               + Points(SumOf(FlagBonus, e.flags) + MarkerPoints(e))
    IN IF e.markers \intersect Floored # {} /\ e.confidence >= 80
       THEN Greatest(sum, Points(65)) ELSE sum

FailureBonus(e) == IF e.failed > 1 THEN Points(Least(25, 5 * Log2(e.failed))) ELSE 0

Sprays(e, attempts, accounts) ==
    e.kind = "auth_failure" /\ Greatest(e.failed, e.sourceFailed) >= attempts
                            /\ e.accounts >= accounts

(* A spray of failed logons lifts the score to a floor, or to a higher one. *)
SprayFloor(e, score) ==
    IF ~Sprays(e, 10, 5) THEN score
    ELSE LET lifted == Greatest(score + Points(Least(22, 8 + 2 * Log2(e.accounts))), Points(45))
         IN IF Sprays(e, 32, 8) /\ e.confidence >= 80
            THEN Greatest(lifted, Points(65)) ELSE lifted

(* An actor seen in the context counts for more than a subject. *)
ContextBonus(context) ==
    IF context = {} THEN 0
    ELSE LET kinds == Cardinality({c.event.kind : c \in context})
         IN IF \E c \in context : c.actor
            THEN Points(Least(10, 4 + 2 * kinds)) ELSE Points(Least(6, 2 + 2 * kinds))

Score(e, context) ==
    Least(Points(100),
          SprayFloor(e, Behaviour(e) + FailureBonus(e))
          + Points(Least(30, 3 * e.cvss)) + Least(Points(20), 20 * e.deviation)
          + ContextBonus(context))

-----------------------------------------------------------------------------
(* IncidentCorrelator: subjects *)

(* The score of a subject with n events of k kinds, related by an actor to r *)
(* other subjects.                                                           *)
Combined(highest, n, k, r) ==
    LET evidence  == Least(15, 4 * (n - 1))
        diversity == IF k >= 3 THEN 10 ELSE IF k = 2 THEN 5 ELSE 0
        cross     == IF r > 0 THEN Least(12, 6 + 2 * (r - 1)) ELSE 0
    IN Least(Points(100), highest + Points(evidence + diversity + cross))

Subjects(events) == {e.subject : e \in events}
Kinds(events) == {e.kind : e \in events}

(* Keys that identify the actor of an event: the process, or a name that is *)
(* not one of a generic interpreter.                                        *)
ActorKeys(e) == ({"pid"} \X e.pids) \union ({"name"} \X e.names)

ActsIn(key, events) == {e \in events : key \in ActorKeys(e)}

PrecedesLowest(a, b) == a.score < b.score \/ (a.score = b.score /\ a.rank < b.rank)

Precedes(a, b) == a.score > b.score \/ (a.score = b.score /\ a.rank < b.rank)

(* Of several subjects with one actor, the one with the highest score has the *)
(* others as its evidence; rank orders the names of subjects.                 *)
Canonical(key, events, score, rank) ==
    LET mine  == ActsIn(key, events)
        as(s) == [score |-> Max({score[e] : e \in {x \in events : x.subject = s}}),
                  rank |-> rank[s]]
    IN IF Cardinality(Subjects(mine)) < 2 \/ Cardinality(Kinds(mine)) < 2 THEN {}
       ELSE {s \in Subjects(mine) : \A o \in Subjects(mine) \ {s} : Precedes(as(s), as(o))}

RelatedTo(s, events, score, rank) ==
    UNION {{x \in ActsIn(key, events) : x.subject # s} :
        key \in {k \in UNION {ActorKeys(e) : e \in {x \in events : x.subject = s}} :
                    s \in Canonical(k, events, score, rank)}}

SubjectScore(s, events, score, rank) ==
    LET mine == {e \in events : e.subject = s} IN
    Combined(Max({score[e] : e \in mine}), Cardinality(mine), Cardinality(Kinds(mine)),
             Cardinality(Subjects(RelatedTo(s, events, score, rank))))

-----------------------------------------------------------------------------
(* IncidentCorrelator: the chain of a host *)

HighSignal(e) == e.kind \in HighKind \/ e.markers \intersect HighMarker # {}

(* Programs that behave suspiciously and use the network, whatever their name. *)
Matches(events) ==
    UNION {e.programs : e \in {x \in events : x.kind = "process_start" /\ x.markers # {}}}
    \intersect
    UNION {e.programs : e \in {x \in events : x.kind \in {"outbound_connection",
                                                          "new_listening_port"}}}

Phases(events) == {Phase[e.kind] : e \in events}

Highest(events, score) == Max({score[e] : e \in events})

Qualifies(events, score) ==
    LET phases  == Phases(events)
        highest == Highest(events, score)
    IN /\ Cardinality(Subjects(events)) >= 2
       /\ \/ Cardinality(phases) >= 3 /\ highest >= Points(25)
          \/ /\ Cardinality(phases) >= 2 /\ highest >= Points(65)
             /\ \E e \in events : HighSignal(e)
             /\ phases # {"execution", "network"} \/ Matches(events) # {}
          \/ Cardinality(phases) >= 2 /\ Matches(events) # {} /\ highest >= Points(50)

(* The score of a chain of n events in p phases. *)
Chained(highest, p, n, matched) ==
    Least(Points(100), highest + Points(Least(24, 7 * (p - 1)) + (IF matched THEN 12 ELSE 0))
                       + Least(Points(10), 250 * Greatest(0, n - 2)))

ChainScore(events, score) ==
    Chained(Highest(events, score), Cardinality(Phases(events)), Cardinality(events),
            Matches(events) # {})

NoChain == [score |-> -1, events |-> {}]

BetterOnlyByScore(c, best) == c.score > best.score

Better(c, best) ==
    \/ c.score > best.score
    \/ c.score = best.score /\ Cardinality(c.events) > Cardinality(best.events)

(* The window that ends with event e: those before it that are not too old. *)
WindowAt(e, events) == {x \in events : ~Before(e, x) /\ e.time - x.time <= ChainWindow}

ChainAt(e, events, score) ==
    LET w == WindowAt(e, events) IN [score |-> ChainScore(w, score), events |-> w]

(* _host_chain_finding: the loop keeps the first of the best. *)
HostChain(events, score) ==
    LET ends == {e \in events : Qualifies(WindowAt(e, events), score)}
        chain(e) == ChainAt(e, events, score)
        wins(e, o) == \/ Better(chain(e), chain(o))
                      \/ ~Better(chain(o), chain(e)) /\ Before(e, o)
    IN IF ends = {} THEN NoChain
       ELSE chain(CHOOSE e \in ends : \A o \in ends \ {e} : wins(e, o))

(* What may appear in a chain at all. *)
Candidates(events) == {e \in events : e.kind \in DOMAIN Phase}
=============================================================================
