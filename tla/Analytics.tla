----------------------------- MODULE Analytics ------------------------------
(***************************************************************************)
(* AnalyticsService: a snapshot of the relationships, the funnel they have *)
(* gone through and the match score of each of them.  The relationships    *)
(* are read first and once; the stages and the funnel are computed from    *)
(* those rows, then each pair is matched on demand, two reads a pair,      *)
(* while requests move relationships and jobs are deleted.  A relationship *)
(* is matched once in a snapshot and nobody else reads here whether its    *)
(* job is deleted, so that is decided when the job is read.                *)
(*                                                                         *)
(* Abstracted: days (a stay in a stage is counted, not measured), labels,  *)
(* the counts of candidates and of jobs, and the inputs of a match, of     *)
(* which a pair may have any by the time it is matched.                    *)
(***************************************************************************)
EXTENDS RelationshipWorkflow, Search

CONSTANT MaxReads   \* bound: snapshots taken, and calls of whoever else reads

ASSUME AnalyticsAssumption == MaxReads \in Nat

VARIABLES
    snapshot,     \* the snapshot being taken, None at rest
    report,       \* the last snapshot taken, None before the first
    reads         \* snapshots and calls so far

analyticsVars == <<snapshot, report, reads>>
allVars == <<vars, analyticsVars>>

-----------------------------------------------------------------------------
(* The computations, on rows: a function from relationships to their rows. *)

(* WORKFLOW_STAGES, in the order of the code.                              *)
StageOrder ==
    <<"Sourced", "Applied", "Screening", "Technical Interview", "Hiring Manager Interview",
      "Offer", "Hired", "Rejected", "Withdrawn">>

(* stageDistribution: the relationships in each stage.                     *)
StageIds(rows, stage) == {x \in DOMAIN rows : rows[x].currentStage = stage}

(* funnelMetrics: the relationships that made a transition.                *)
TransitionIds(rows, from, to) ==
    {x \in DOMAIN rows : \E n \in DOMAIN rows[x].stageHistory :
        rows[x].stageHistory[n] = [previousStage |-> from, newStage |-> to]}

(* listByCandidate and listByJob; grouped by stage, a board.               *)
Listed(rows, pairs, stage) ==
    {x \in DOMAIN rows : rows[x].pair \in pairs /\ stage \in {None, rows[x].currentStage}}
Board(rows, pairs) == [stage \in WorkflowStages |-> Listed(rows, pairs, stage)]

(* Mutant of ReachedIds: only those that are in the stage now.             *)
ReachedIdsNow(rows, from) == {x \in DOMAIN rows : rows[x].currentStage = from}

ReachedIds(rows, from) ==
    {x \in DOMAIN rows :
        \/ rows[x].currentStage = from
        \/ \E n \in DOMAIN rows[x].stageHistory : rows[x].stageHistory[n].newStage = from}

(* The adjacent pairs of stages, from one that is not terminal.            *)
ConversionPairs ==
    {<<StageOrder[n], StageOrder[n + 1]>> : n \in 1..(Len(StageOrder) - 1)}
        \ ({"Hired", "Rejected", "Withdrawn"} \X WorkflowStages)

(* timeToStage: the finished stays in a stage, one for each entry of a     *)
(* history but the last.                                                   *)
Stays(rows, stage) ==
    UNION {{<<x, n>> : n \in {n \in 1..(Len(rows[x].stageHistory) - 1) :
                                  rows[x].stageHistory[n].newStage = stage}} : x \in DOMAIN rows}

MatchScoreBuckets ==
    <<[min |-> 0, max |-> 39], [min |-> 40, max |-> 59],
      [min |-> 60, max |-> 79], [min |-> 80, max |-> 100]>>

(* Mutant of InBucket: the lower bound is left out.                        *)
AboveBound(score, b) == MatchScoreBuckets[b].min < score /\ score <= MatchScoreBuckets[b].max

InBucket(score, b) == MatchScoreBuckets[b].min <= score /\ score <= MatchScoreBuckets[b].max

BucketsOf(score) == {b \in DOMAIN MatchScoreBuckets : InBucket(score, b)}

(* The buckets a match may be put into, for every score there is.          *)
Placements == {BucketsOf(score) : score \in Scores}

-----------------------------------------------------------------------------
(* getOverview, or getJobSnapshot of the job of a pair: the relationships  *)
(* are read.                                                               *)
ReadRelationships(pairs) ==
    /\ snapshot = None
    /\ reads < MaxReads
    /\ snapshot' = [left |-> {x \in Relationships : Exists(x) /\ relationships[x].pair \in pairs},
                    totalComputed |-> 0,
                    counts |-> [b \in DOMAIN MatchScoreBuckets |-> 0]]
    /\ reads' = reads + 1
    /\ UNCHANGED <<vars, report>>

(* matchingService.match of the next pair.                                 *)
MatchNext(x) ==
    /\ snapshot # None /\ x \in snapshot.left
    /\ \E buckets \in Placements :
           snapshot' = [snapshot EXCEPT !.left = @ \ {x}, !.totalComputed = @ + 1,
               !.counts = [b \in DOMAIN @ |-> IF b \in buckets THEN @[b] + 1 ELSE @[b]]]
    /\ UNCHANGED <<vars, report, reads>>

(* JOB_NOT_FOUND: a pair whose job is deleted is skipped.                  *)
SkipNext(x) ==
    /\ snapshot # None /\ x \in snapshot.left
    /\ snapshot' = [snapshot EXCEPT !.left = @ \ {x}]
    /\ UNCHANGED <<vars, report, reads>>

Return ==
    /\ snapshot # None /\ snapshot.left = {}
    /\ report' = snapshot
    /\ snapshot' = None
    /\ UNCHANGED <<vars, reads>>

AnalyticsInit ==
    Init /\ snapshot = None /\ report = None /\ reads = 0

AnalyticsNext ==
    \/ Next /\ UNCHANGED analyticsVars
    \/ \E pair \in Pairs : ReadRelationships({pair})
    \/ ReadRelationships(Pairs)
    \/ \E x \in Relationships : MatchNext(x) \/ SkipNext(x)
    \/ Return

AnalyticsSpec == AnalyticsInit /\ [][AnalyticsNext]_allVars

-----------------------------------------------------------------------------
(* Properties.                                                             *)

Rows == [x \in {x \in Relationships : Exists(x)} |-> relationships[x]]

(* The cards of a board, a relationship in a column each, and the entries  *)
(* of histories that lead out of a stage.                                  *)
Cards(board) == UNION {{<<stage, x>> : x \in board[stage]} : stage \in DOMAIN board}
MovesFrom(rows, stage) ==
    UNION {{<<x, n>> : n \in {n \in DOMAIN rows[x].stageHistory :
                                  rows[x].stageHistory[n].previousStage = stage}} : x \in DOMAIN rows}

(* A board shows every relationship of its list once, and so do the        *)
(* stages.                                                                 *)
BoardsWhole ==
    /\ \A pairs \in SUBSET Pairs :
          Cardinality(Cards(Board(Rows, pairs))) = Cardinality(Listed(Rows, pairs, None))
    /\ Cardinality(Cards([stage \in WorkflowStages |-> StageIds(Rows, stage)]))
          = Cardinality(DOMAIN Rows)

(* Whatever lost updates have done to the histories, the figures of a      *)
(* snapshot agree with each other: every relationship is in one stage,     *)
(* into which a transition led it; no conversion rate exceeds 1; and the   *)
(* finished stays in a stage are as many as the moves out of it.           *)
FunnelAddsUp ==
    /\ BoardsWhole
    /\ \A s \in WorkflowStages :
          /\ StageIds(Rows, s) \subseteq
                UNION {TransitionIds(Rows, t, s) : t \in WorkflowStages \cup {None}}
          /\ Cardinality(Stays(Rows, s)) = Cardinality(MovesFrom(Rows, s))
    /\ \A p \in ConversionPairs : TransitionIds(Rows, p[1], p[2]) \subseteq ReachedIds(Rows, p[1])

(* Every score computed is in exactly one bucket of the distribution.      *)
ScoresPlaced ==
    report # None =>
        report.counts[1] + report.counts[2] + report.counts[3] + report.counts[4]
            = report.totalComputed

(* No report ranks a candidate below one who is worse: the scores it was   *)
(* computed from are monotone (matching-engine.ts), so is what a search    *)
(* finds (search-service.ts), and the insights beside them come with the   *)
(* most severe first (insight-engine.ts).                                  *)
ScoresOrdered == report # None => ScoreMonotone /\ SearchStable /\ SevereFirst

(* The scores of candidates are placed in the distribution and order them. *)
ScoresSound == ScoresPlaced /\ ScoresOrdered

=============================================================================
