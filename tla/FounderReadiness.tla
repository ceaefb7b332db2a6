-------------------------- MODULE FounderReadiness --------------------------
(***************************************************************************)
(* The two reports an operator runs against the live tables of the         *)
(* pipeline: DataIntegrityChecker.check (npm run verify:data, a process of *)
(* its own on the same database) and AuditReplayService.replay.  Both read *)
(* several tables without a transaction, so requests write between the     *)
(* reads; RecruitmentPipeline is what those requests do.                   *)
(*                                                                         *)
(* Abstracted: candidates, resumes and knowledge sets, which no request of *)
(* the pipeline removes, with the findings and steps about them; messages, *)
(* severities and timestamps.  The codes that no state of the tables can   *)
(* raise (an id twice in a table, an offer or an interview of a submission *)
(* that was looked up by it) are left out with them.                       *)
(***************************************************************************)
EXTENDS RecruitmentPipeline

CONSTANT MaxReports   \* bound: reports run

(* A replay under way: what it reads next, of which submission, and the    *)
(* submissions it has still to show with their statuses.                   *)
Replay ==
    [at : {"next", "offers", "activities"}, of : Submissions \cup {None},
     rows : UNION {[S -> SubmissionStatuses] : S \in SUBSET Submissions}]

ASSUME ReadinessAssumption == MaxReports \in Nat /\ None \notin Replay

VARIABLES
    check,      \* the tables a running check has loaded so far, None at rest
    findings,   \* what the last check reported, None before the first
    replay,     \* the replay under way, None at rest
    timeline,   \* the steps the last replay has collected so far
    reports,    \* reports run so far
    standing,   \* history: the defects that stood ever since the check began
    before      \* history: the interviews and offers that were there when it began

reportVars == <<check, findings, replay, timeline, reports>>
history == <<standing, before>>
allVars == <<vars, reportVars, history>>

Codes == {"SUBMISSION_ORPHAN_JOB", "PLACEMENT_ORPHAN", "OFFER_ORPHAN", "INTERVIEW_ORPHAN",
          "PLACEMENT_WITHOUT_ACCEPTED_OFFER"}
Findings == Codes \X (Submissions \cup Interviews \cup Offers)

Tables == {"jobs", "submissions", "interviews", "offers"}

-----------------------------------------------------------------------------
(* DataIntegrityChecker.                                                   *)

(* Mutant of Loaded: closed submissions are not listed.                    *)
LoadedActive(table) ==
    CASE table = "jobs" -> {j \in Jobs : JobFound(j)}
      [] table = "submissions" ->
             [s \in Submissions |->
                 IF Exists(submissions, s) /\ submissions[s].status \in {"Rejected", "Withdrawn"}
                   THEN None ELSE submissions[s]]
      [] table = "interviews" -> interviews
      [] table = "offers" -> offers

(* The findAll of a repository; a soft-deleted job is not listed.          *)
Loaded(table) ==
    CASE table = "jobs" -> {j \in Jobs : JobFound(j)}
      [] table = "submissions" -> submissions
      [] table = "interviews" -> interviews
      [] table = "offers" -> offers

(* ConsistencyVerifier.verify on what the check has loaded.                *)
Accepted(offs, s) == \E o \in Offers :
    Exists(offs, o) /\ offs[o].submission = s /\ offs[o].status = "Accepted"

Inconsistent(subs, offs) ==
    {<<"PLACEMENT_WITHOUT_ACCEPTED_OFFER", s>> : s \in
        {s \in Submissions : Exists(subs, s) /\ subs[s].status = "Placed" /\ ~Accepted(offs, s)}}

(* What check() reports of four loaded tables.                             *)
Reported(jobIds, subs, ints, offs) ==
    LET Stray == {s \in Submissions : Exists(subs, s) /\ subs[s].job \notin jobIds}
        Orphans(rows) == {x \in DOMAIN rows : Exists(rows, x) /\ ~Exists(subs, rows[x].submission)}
    IN {<<"SUBMISSION_ORPHAN_JOB", s>> : s \in Stray}
       \cup {<<"PLACEMENT_ORPHAN", s>> : s \in {s \in Stray : subs[s].status = "Placed"}}
       \cup {<<"OFFER_ORPHAN", o>> : o \in Orphans(offs)}
       \cup {<<"INTERVIEW_ORPHAN", i>> : i \in Orphans(ints)}
       \cup Inconsistent(subs, offs)

(* The defects the tables have at this moment, by what they mean: a        *)
(* submission of a deleted job, and a placement without an accepted offer. *)
Defects ==
    {<<"SUBMISSION_ORPHAN_JOB", s>> : s \in
        {s \in Submissions : Exists(submissions, s) /\ jobs[submissions[s].job].deleted}}
    \cup {<<"PLACEMENT_WITHOUT_ACCEPTED_OFFER", s>> : s \in
        {s \in Submissions : /\ Exists(submissions, s) /\ submissions[s].status = "Placed"
                             /\ ~\E o \in OffersOf(s) : offers[o].status = "Accepted"}}

(* The seven findAll of Promise.all are sent together; each is answered    *)
(* from the table as it is then, in any order.                             *)
StartCheck ==
    /\ check = None
    /\ reports < MaxReports
    /\ check' = [t \in Tables |-> None]
    /\ findings' = None
    /\ reports' = reports + 1
    /\ standing' = Defects
    /\ before' = [interviews |-> {i \in Interviews : Exists(interviews, i)},
                  offers |-> {o \in Offers : Exists(offers, o)}]
    /\ UNCHANGED <<vars, replay, timeline>>

LoadTable(table) ==
    /\ check # None /\ check[table] = None
    /\ check' = [check EXCEPT ![table] = Loaded(table)]
    /\ UNCHANGED <<vars, findings, replay, timeline, reports, history>>

(* All tables are there: the rest of check() runs without an await.        *)
Report ==
    /\ check # None /\ \A t \in Tables : check[t] # None
    /\ findings' = Reported(check["jobs"], check["submissions"],
                            check["interviews"], check["offers"])
    /\ check' = None
    /\ UNCHANGED <<vars, replay, timeline, reports, history>>

-----------------------------------------------------------------------------
(* AuditReplayService.                                                     *)

(* The submissions of the candidate are read first, then for each of them  *)
(* in turn its interviews, its offers and its activities.                  *)
StartReplay(c) ==
    /\ replay = None
    /\ reports < MaxReports
    /\ LET mine == {s \in Submissions : Exists(submissions, s) /\ submissions[s].candidate = c}
       IN /\ replay' = [at |-> "next", of |-> None, rows |-> [s \in mine |-> submissions[s].status]]
          /\ timeline' = {}
    /\ reports' = reports + 1
    /\ UNCHANGED <<vars, check, findings, history>>

(* The replay pushes these steps and awaits its next read.                 *)
Push(steps, next) ==
    /\ timeline' = timeline \cup steps
    /\ replay' = next
    /\ UNCHANGED <<vars, check, findings, reports, history>>

InterviewSteps(s) == {<<"interview", i, interviews[i].decision>> : i \in InterviewsOf(s)}
OfferSteps(s) == {<<"offer", o, offers[o].status>> : o \in OffersOf(s)}
ActivitySteps(s) ==
    {<<"activity", s, type>> : type \in {t \in ActivityTypes : activities[s, t] > 0}}

(* The next submission, shown with the status read at the start, and its   *)
(* interviews.                                                             *)
ReplaySubmission(s) ==
    /\ replay # None /\ replay.at = "next" /\ s \in DOMAIN replay.rows
    /\ Push({<<"submission", s, replay.rows[s]>>} \cup InterviewSteps(s),
            [replay EXCEPT !.at = "offers", !.of = s])

(* Mutant of ReplayOffers: the status shown is read again with the offers. *)
ReplayOffersReread ==
    /\ replay # None /\ replay.at = "offers"
    /\ LET s == replay.of IN
       Push(OfferSteps(s) \cup {<<"submission", s, submissions[s].status>>},
            [replay EXCEPT !.at = "activities"])

ReplayOffers ==
    /\ replay # None /\ replay.at = "offers"
    /\ LET s == replay.of IN
       Push(OfferSteps(s) \cup IF replay.rows[s] = "Placed"
                                 THEN {<<"placement", s, None>>} ELSE {},
            [replay EXCEPT !.at = "activities"])

ReplayActivities ==
    /\ replay # None /\ replay.at = "activities"
    /\ LET s == replay.of IN
       Push(ActivitySteps(s),
            [replay EXCEPT !.at = "next", !.of = None,
                           !.rows = [t \in DOMAIN @ \ {s} |-> @[t]]])

(* No submission is left: the steps are sorted, deduplicated and returned. *)
ReplayEnds ==
    /\ replay # None /\ replay.at = "next" /\ DOMAIN replay.rows = {}
    /\ Push({}, None)

-----------------------------------------------------------------------------
ReadinessInit ==
    /\ Init
    /\ check = None /\ findings = None
    /\ replay = None /\ timeline = {}
    /\ reports = 0
    /\ standing = {}
    /\ before = [interviews |-> {}, offers |-> {}]

(* A request goes on, whatever the reports are reading.                    *)
Serve ==
    /\ Next
    /\ UNCHANGED reportVars
    /\ standing' = IF check = None THEN standing ELSE standing \cap Defects'
    /\ UNCHANGED before

ReadinessNext ==
    \/ Serve
    \/ StartCheck \/ (\E table \in Tables : LoadTable(table)) \/ Report
    \/ \E c \in Candidates : StartReplay(c)
    \/ \E s \in Submissions : ReplaySubmission(s)
    \/ ReplayOffers \/ ReplayActivities \/ ReplayEnds

ReadinessSpec == ReadinessInit /\ [][ReadinessNext]_allVars

-----------------------------------------------------------------------------
(* Properties.                                                             *)

(* check() reports every defect that stands from its first read to its     *)
(* last, whatever is written meanwhile and in whatever order its reads are *)
(* answered: only a defect that came or went during the check is missed.   *)
StandingReported == standing \subseteq findings

(* An OFFER_ORPHAN or INTERVIEW_ORPHAN of check() is always a row that     *)
(* arrived between two of its reads: the row was not there when the check  *)
(* began, and by the time it reports the submission it misses is in the    *)
(* table.  Run again, the check does not repeat it.                        *)
OrphansAreTorn ==
    /\ \A o \in Offers : <<"OFFER_ORPHAN", o>> \in findings =>
          o \notin before.offers /\ Exists(submissions, offers[o].submission)
    /\ \A i \in Interviews : <<"INTERVIEW_ORPHAN", i>> \in findings =>
          i \notin before.interviews /\ Exists(submissions, interviews[i].submission)

(* What an operator may conclude from a check of live tables.              *)
ReportSound == check = None /\ findings # None => StandingReported /\ OrphansAreTorn

(* A replay shows no status without its cause: handlers save an interview  *)
(* or an offer before the status it leads to, and the replay reads the     *)
(* status before the interviews and offers, so a submission shown at an    *)
(* interview or offer status has an interview or an offer among the steps  *)
(* even when requests write while it reads.                                *)
ReplayShowsCause ==
    \A s \in Submissions, status \in SubmissionStatuses \ PatchStatuses :
        /\ <<"submission", s, status>> \in timeline
        /\ replay = None
        => /\ status \in InterviewStatuses => \E i \in Interviews, d \in Decisions :
                  interviews[i].submission = s /\ <<"interview", i, d>> \in timeline
           /\ status \in OfferPhaseStatuses => \E o \in Offers, d \in OfferStatuses :
                  offers[o].submission = s /\ <<"offer", o, d>> \in timeline

=============================================================================
