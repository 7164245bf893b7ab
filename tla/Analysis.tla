-------------------------------- MODULE Analysis --------------------------------
(***************************************************************************)
(* The analysis of a cycle and the context it takes from earlier ones      *)
(* (contextual_pipeline.py, temporal_context.py, pipeline.py, with the     *)
(* scores and chains of Correlation).                                      *)
(*                                                                         *)
(* Events of snapshots carry the time when these were taken, events of a   *)
(* log, which is read later in a cycle, the time of the log.  The window   *)
(* takes up the events of a cycle once the cycle is complete; a cycle that *)
(* fails leaves none.                                                      *)
(***************************************************************************)
EXTENDS Correlation

CONSTANTS
    Shape,           \* what can be observed: events without a time
    ContextWindow,   \* TemporalContextWindow.window_seconds
    MaxContext,      \* max_events
    MaxRelated,      \* max_related_per_event
    MinimumScore,    \* minimum_finding_score
    MaxBatch,        \* bound on the events of a cycle
    MaxFile,         \* bound on the events of a file that quietward analyze reads
    MaxTime          \* bound on the clock

ASSUME AnalysisAssumption ==
    /\ IsFiniteSet(Shape)
    /\ \A s \in Shape :
          /\ DOMAIN s = {"id", "kind", "subject", "confidence", "flags", "markers", "failed",
                         "sourceFailed", "accounts", "cvss", "deviation", "pids", "names",
                         "programs", "logged"}
          /\ s.id \in DOMAIN Rank /\ s.kind \in DOMAIN Weight
          /\ s.flags \subseteq DOMAIN FlagBonus /\ s.markers \subseteq DOMAIN MarkerBonus
          /\ IsFiniteSet(s.flags) /\ IsFiniteSet(s.markers)
          /\ {s.confidence, s.failed, s.sourceFailed, s.accounts, s.cvss, s.deviation} \subseteq Nat
          /\ s.logged \in BOOLEAN
    /\ \A s, o \in Shape : s.id = o.id => s = o
    /\ {ContextWindow, MinimumScore, MaxBatch, MaxFile, MaxTime} \subseteq Nat
    /\ {MaxContext, MaxRelated} \subseteq Nat \ {0}

VARIABLES
    window,   \* the events retained, in the order they were taken up
    batch,      \* the cycle in progress: its place and its events
    clock,
    past      \* the last MaxContext events of all complete cycles of the process

analysisVars == <<window, batch, clock, past>>

Idle == [pc |-> "idle", events |-> {}]

AnalysisInit ==
    /\ window = <<>>
    /\ batch = Idle
    /\ clock = 0
    /\ past = <<>>

BatchIs(pc) == batch.pc = pc

EventOf(shape, time) ==
    [field \in DOMAIN shape \union {"time"} |-> IF field = "time" THEN time ELSE shape[field]]

Ordered(events) ==
    LET positions == 1..Cardinality(events)
    IN CHOOSE s \in [positions -> events] :
          \A i, j \in positions : i < j => Before(s[i], s[j])

Newest(events) == Max({e.time : e \in events})

-----------------------------------------------------------------------------
(* TemporalContextWindow *)

PrunedToo(w, time) ==
    LET kept == {i \in 1..Len(w) : w[i].time > time - ContextWindow}
    IN IF kept = {} THEN <<>> ELSE SubSeq(w, Min(kept), Len(w))

(* _prune: from the oldest end, up to the first event that is not too old. *)
Pruned(w, time) ==
    LET kept == {i \in 1..Len(w) : w[i].time >= time - ContextWindow}
    IN IF kept = {} THEN <<>> ELSE SubSeq(w, Min(kept), Len(w))

LastOf(s, n) == SubSeq(s, Greatest(1, Len(s) - n + 1), Len(s))

(* observe: the deque drops its oldest end. *)
Taken(w, events) ==
    IF events = {} THEN w
    ELSE LastOf(Pruned(w, Newest(events)) \o Ordered(events), MaxContext)

(* _cross_cycle_actor_match: the same process number alone may be another *)
(* process by now.                                                        *)
SameActor(e, p) ==
    /\ e.names \intersect p.names # {}
    /\ e.pids # {} /\ p.pids # {} => e.pids \intersect p.pids # {}

Related(e, p) ==
    /\ p.kind # e.kind
    /\ e.time - p.time \in 0..ContextWindow
    /\ SameActor(e, p) \/ p.subject = e.subject

(* enrich: the nearest related events. *)
ContextOf(e, w) ==
    LET related == {p \in ToSet(w) : Related(e, p)}
        closer(p) == {o \in related : \/ o.time > p.time
                                      \/ o.time = p.time /\ Rank[o.id] < Rank[p.id]}
    IN {[event |-> p, actor |-> SameActor(e, p)] :
            p \in {p \in related : Cardinality(closer(p)) < MaxRelated}}

-----------------------------------------------------------------------------
(* SentinelPipeline.analyze, on the events with their context *)

(* The scores of the present events *)
Scores == [e \in batch.events |-> Score(e, ContextOf(e, window))]

Chain(events, score) ==
    LET best == HostChain(Candidates(events), score)
    IN IF best.score < MinimumScore THEN NoChain ELSE best

SubjectRank ==
    [s \in Subjects(Shape) |-> Min({Rank[x.id] : x \in {y \in Shape : y.subject = s}})]

Rating(s, events, score) == SubjectScore(s, events, score, SubjectRank)

Corroboration(s, events, score) == RelatedTo(s, events, score, SubjectRank)

-----------------------------------------------------------------------------
(* Cycles *)

(* The snapshots of a cycle and its log *)
Begin ==
    /\ BatchIs("idle") /\ clock < MaxTime
    /\ clock' \in (clock + 1)..MaxTime
    /\ \E taken \in (clock + 1)..clock' :
       \E shapes \in UNION {kSubset(n, Shape) : n \in 1..MaxBatch} :
       \E times \in [shapes -> 0..clock'] :
          LET events == {EventOf(s, times[s]) : s \in shapes} IN
          /\ \A s \in shapes : ~s.logged => times[s] = taken
          /\ events \intersect ToSet(past) = {}
          /\ batch' = [pc |-> "collected", events |-> events]
    /\ UNCHANGED <<window, past>>

(* Whatever becomes of the cycle, the window is pruned by its newest event. *)
Enrich ==
    /\ BatchIs("collected")
    /\ batch' = [batch EXCEPT !.pc = "analysed"]
    /\ window' = Pruned(window, Newest(batch.events))
    /\ UNCHANGED <<clock, past>>

(* commit_pending, when the cycle is complete *)
Commit ==
    /\ BatchIs("analysed")
    /\ window' = Taken(window, batch.events)
    /\ past' = LastOf(past \o Ordered(batch.events), MaxContext)
    /\ batch' = Idle
    /\ UNCHANGED clock

(* discard_pending *)
Discard ==
    /\ batch.pc # "idle"
    /\ batch' = Idle
    /\ UNCHANGED <<window, clock, past>>

ProcessRestarts ==
    /\ window' = <<>> /\ past' = <<>>
    /\ batch' = Idle
    /\ UNCHANGED clock

(* quietward analyze: a process of its own, without a context, and events of *)
(* any time.                                                                *)
AnalyseFile ==
    /\ BatchIs("idle") /\ clock = 0
    /\ \E shapes \in UNION {kSubset(n, Shape) : n \in 1..MaxFile} :
       \E times \in [shapes -> 0..MaxTime] :
          batch' = [pc |-> "analysed", events |-> {EventOf(s, times[s]) : s \in shapes}]
    /\ clock' = MaxTime
    /\ UNCHANGED <<window, past>>

AnalysisNext == AnalyseFile \/ Begin \/ Enrich \/ Commit \/ Discard \/ ProcessRestarts

AnalysisSpec == AnalysisInit /\ [][AnalysisNext]_analysisVars

-----------------------------------------------------------------------------
(* Properties *)

(* The sliding window finds the best chain there is: among all the sets of    *)
(* events of this cycle, at most ChainWindow apart, that qualify as a chain   *)
(* and reach the minimum score, none has a higher score, and none with this   *)
(* score has more events.  With no such set there is no chain.                *)
ChainIsTheBestThereIs ==
    BatchIs("analysed") =>
        LET score    == Scores
            together == {w \in SUBSET Candidates(batch.events) :
                            /\ w # {} /\ \A x, y \in w : x.time - y.time <= ChainWindow
                            /\ Qualifies(w, score) /\ ChainScore(w, score) >= MinimumScore}
            chain    == Chain(batch.events, score)
        IN IF together = {} THEN chain = NoChain
           ELSE /\ chain.events \in together
                /\ chain.score = ChainScore(chain.events, score)
                /\ \A w \in together :
                      /\ ChainScore(w, score) <= chain.score
                      /\ ChainScore(w, score) = chain.score =>
                            Cardinality(w) <= Cardinality(chain.events)

(* More evidence never lowers the rating of a subject: taking away any events  *)
(* of a cycle leaves each subject rated no higher, unless the evidence of the  *)
(* same actor belonged to it then and belongs to another subject now, one      *)
(* that has a higher score of its own or as high a one.                        *)
MoreEvidenceNeverLowersARating ==
    BatchIs("analysed") =>
        LET score == Scores
            own(s) == {e \in batch.events : e.subject = s}
        IN \A fewer \in SUBSET batch.events : \A s \in Subjects(fewer) :
              \/ Rating(s, fewer, score) <= Rating(s, batch.events, score)
              \/ \E o \in Subjects(batch.events) \ {s} :
                    /\ own(s) \intersect Corroboration(o, batch.events, score) # {}
                    /\ Highest(own(o), score) >= Highest(own(s), score)

(* For the events of this moment the window is as good as the whole past: of   *)
(* the last MaxContext events of complete cycles, each that is related to them *)
(* is found, whatever failed cycles and late events of logs came between, and  *)
(* nothing else is.                                                            *)
ContextIsComplete ==
    BatchIs("analysed") =>
        /\ ToSet(window) \subseteq ToSet(past)
        /\ \A e \in batch.events : e.time = clock =>
              \A p \in ToSet(past) : Related(e, p) => p \in ToSet(window)
===============================================================================
