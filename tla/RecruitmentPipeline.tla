------------------------ MODULE RecruitmentPipeline ------------------------
(***************************************************************************)
(* The submission pipeline: JobService and RecruitmentService over the     *)
(* PostgreSQL repositories.                                                *)
(*                                                                         *)
(* The API server is one Node process.  A handler runs without             *)
(* interruption between two awaits, and every await is a repository call,  *)
(* so each action below is one repository call together with the           *)
(* computation up to the next one.  Repositories save whole rows (an       *)
(* upsert by id, no transaction), so a request in flight carries the rows  *)
(* it read and is about to write back: request[r] holds them.              *)
(*                                                                         *)
(* Abstracted: texts, dates, notes, actor ids, the review fields of a job, *)
(* job.ready (no guard reads it), telemetry, and the knowledge signals,    *)
(* which write another component.  Every candidate here is a Ready one.    *)
(***************************************************************************)
EXTENDS Naturals, Sequences, FiniteSets

CONSTANTS
    Jobs, Candidates, Submissions, Interviews, Offers,  \* ids
    Requests,        \* slots for requests in flight at the same time
    PatchStatuses,   \* statuses a recruiter sets by PATCH .../status
    JobPatches,      \* statuses a job is created with or patched to
    Rounds,          \* interview rounds a recruiter gives explicitly (from 1)
    MaxCalls,        \* bound: requests served
    MaxAborts,       \* bound: requests cut short
    None             \* no row, no value

JobStatuses == {"Draft", "Open", "Paused", "Closed", "Filled"}

InterviewStatuses == {"Interview Scheduled", "Interview Passed", "Interview Failed"}
OfferPhaseStatuses == {"Offer Preparing", "Offer Sent", "Offer Accepted", "Offer Declined"}
SubmissionStatuses ==
    {"Submitted", "Client Reviewing", "Placed", "Rejected", "Withdrawn"}
        \cup InterviewStatuses \cup OfferPhaseStatuses

Decisions == {"Pending", "Passed", "Failed", "Cancelled"}
OfferStatuses == {"Draft", "Sent", "Accepted", "Declined", "Expired"}

ActivityTypes ==
    {"job_created", "candidate_submitted", "status_changed", "interview_scheduled",
     "interview_completed", "offer_created", "offer_sent", "offer_accepted",
     "offer_declined", "placement", "rejected", "withdrawn"}

Ops == {"createJob", "editJob", "submit", "updateStatus", "schedule", "complete",
        "createOffer", "updateOffer", "place"}
Steps == {"findDuplicate", "insertSubmission", "countInterviews", "insertInterview",
          "insertOffer", "reread", "readJob", "saveSubmission", "saveJob", "log"}

JobRow == [status: JobStatuses, deleted: BOOLEAN, submissionCount: Nat, placementCount: Nat]
SubmissionRow == [candidate: Candidates, job: Jobs, status: SubmissionStatuses]
InterviewRow == [submission: Submissions, candidate: Candidates, job: Jobs,
                 round: Nat, decision: Decisions]
OfferRow == [submission: Submissions, candidate: Candidates, job: Jobs, status: OfferStatuses]

(* A request in flight: the call it awaits next, its parameters, the rows  *)
(* it will write back and the activities it has still to append.           *)
Call == [op: Ops, at: Steps,
         job: Jobs \cup {None}, candidate: Candidates \cup {None},
         submission: Submissions \cup {None}, arg: Decisions \cup OfferStatuses \cup {None},
         round: Nat, trail: Seq(ActivityTypes),
         jobRow: JobRow \cup {None}, submissionRow: SubmissionRow \cup {None}]

ASSUME PipelineAssumption ==
    /\ IsFiniteSet(Submissions) /\ IsFiniteSet(Interviews)
    /\ Jobs \cap Submissions = {}
    /\ PatchStatuses \subseteq SubmissionStatuses
    /\ JobPatches \subseteq JobStatuses
    /\ Rounds \subseteq Nat \ {0}
    /\ MaxCalls \in Nat /\ MaxAborts \in Nat
    /\ None \notin Jobs \cup Candidates \cup Submissions \cup Decisions \cup OfferStatuses
    /\ None \notin JobRow /\ None \notin SubmissionRow
    /\ None \notin InterviewRow /\ None \notin OfferRow /\ None \notin Call

VARIABLES
    jobs, submissions, interviews, offers,  \* the tables, a row or None by id
    activities,   \* how many activities of a type a job or submission has
    request,      \* the call in each slot, None when the slot is free
    calls,        \* requests served so far
    aborts,       \* requests cut short so far
    placements    \* history: Placed rows written by markPlaced, by job

tables == <<jobs, submissions, interviews, offers, activities>>
vars == <<tables, request, calls, aborts, placements>>

Subjects == Jobs \cup Submissions

TypeOK ==
    /\ jobs \in [Jobs -> JobRow \cup {None}]
    /\ submissions \in [Submissions -> SubmissionRow \cup {None}]
    /\ interviews \in [Interviews -> InterviewRow \cup {None}]
    /\ offers \in [Offers -> OfferRow \cup {None}]
    /\ activities \in [Subjects \X ActivityTypes -> Nat]
    /\ request \in [Requests -> Call \cup {None}]
    /\ calls \in Nat /\ aborts \in Nat
    /\ placements \in [Jobs -> Nat]

Init ==
    /\ jobs = [j \in Jobs |-> None]
    /\ submissions = [s \in Submissions |-> None]
    /\ interviews = [i \in Interviews |-> None]
    /\ offers = [o \in Offers |-> None]
    /\ activities = [x \in Subjects \X ActivityTypes |-> 0]
    /\ request = [r \in Requests |-> None]
    /\ calls = 0 /\ aborts = 0
    /\ placements = [j \in Jobs |-> 0]

-----------------------------------------------------------------------------
(* Helpers.                                                                *)

Exists(table, id) == table[id] # None
SubmissionsOf(j) == {s \in Submissions : Exists(submissions, s) /\ submissions[s].job = j}
InterviewsOf(s) == {i \in Interviews : Exists(interviews, i) /\ interviews[i].submission = s}
OffersOf(s) == {o \in Offers : Exists(offers, o) /\ offers[o].submission = s}

(* Mutant of JobFound: the read that forgets that the job was deleted.     *)
JobFoundDeleted(j) == Exists(jobs, j)

(* jobService.getById: a soft-deleted job is not found.                    *)
JobFound(j) == Exists(jobs, j) /\ ~jobs[j].deleted

(* A row of the pair (candidate, job) is in the table.                     *)
PairTaken(c, j) ==
    \E s \in Submissions :
        Exists(submissions, s) /\ submissions[s].candidate = c /\ submissions[s].job = j

(* Mutant of FreshSubmission: an id that is taken, whose row the upsert    *)
(* would overwrite.                                                        *)
AnySubmission(s) == TRUE

(* An id generated for a new row is one that no row has.                   *)
FreshSubmission(s) == ~Exists(submissions, s)

(* A call that has been given nothing but its operation.                   *)
NewCall(op, at, trail) ==
    [op |-> op, at |-> at, job |-> None, candidate |-> None, submission |-> None,
     arg |-> None, round |-> 0, trail |-> trail, jobRow |-> None, submissionRow |-> None]

(* A request arrives in a free slot and awaits its next call as c.         *)
Arrive(r, c) ==
    /\ request[r] = None
    /\ calls < MaxCalls
    /\ calls' = calls + 1
    /\ request' = [request EXCEPT ![r] = c]
    /\ UNCHANGED <<aborts, placements>>

(* The request in slot r goes on to await its next call as c.              *)
Await(r, c) ==
    /\ request' = [request EXCEPT ![r] = c]
    /\ UNCHANGED <<calls, aborts>>

At(r, step) == request[r] # None /\ request[r].at = step

-----------------------------------------------------------------------------
(* JobService.                                                             *)

(* createFromParsed and createManual: save the new job, then announce it.  *)
CreateJob(r, j, status) ==
    /\ ~Exists(jobs, j)
    /\ jobs' = [jobs EXCEPT ![j] = [status |-> status, deleted |-> FALSE,
                                    submissionCount |-> 0, placementCount |-> 0]]
    /\ Arrive(r, [NewCall("createJob", "log", <<"job_created">>) EXCEPT !.job = j])
    /\ UNCHANGED <<submissions, interviews, offers, activities>>

(* getById, then the row with its change is ready to be saved.             *)
EditJob(r, j, row) ==
    /\ JobFound(j)
    /\ Arrive(r, [NewCall("editJob", "saveJob", <<>>) EXCEPT !.job = j, !.jobRow = row])
    /\ UNCHANGED tables

UpdateJob(r, j, status) == EditJob(r, j, [jobs[j] EXCEPT !.status = status])

(* reviewField, and an update of the other fields: the row as it was read. *)
ReviewField(r, j) == EditJob(r, j, jobs[j])

MarkReady(r, j) ==
    EditJob(r, j, [jobs[j] EXCEPT !.status = IF @ = "Draft" THEN "Open" ELSE @])

SoftDelete(r, j) ==
    EditJob(r, j, [jobs[j] EXCEPT !.deleted = TRUE, !.status = "Closed"])

(* The job row a submission is counted in.                                 *)
WithSubmission(row) == [row EXCEPT !.submissionCount = @ + 1]

(* submitCandidate: the job is read first and saved last but one.          *)
SubmitCandidate(r, j, c) ==
    /\ JobFound(j)
    /\ Arrive(r, [NewCall("submit", "findDuplicate", <<"candidate_submitted">>)
                      EXCEPT !.job = j, !.candidate = c, !.jobRow = WithSubmission(jobs[j])])
    /\ UNCHANGED tables

(* Mutant of FindDuplicate: a repeated submit is taken as done, and counted. *)
FindDuplicateAndCount(r) ==
    /\ At(r, "findDuplicate")
    /\ Await(r, [request[r] EXCEPT
           !.at = IF PairTaken(request[r].candidate, request[r].job)
                    THEN "saveJob" ELSE "insertSubmission"])
    /\ UNCHANGED <<tables, placements>>

(* findByCandidateAndJob: ALREADY_SUBMITTED ends the request.              *)
FindDuplicate(r) ==
    /\ At(r, "findDuplicate")
    /\ Await(r, IF PairTaken(request[r].candidate, request[r].job)
                  THEN None ELSE [request[r] EXCEPT !.at = "insertSubmission"])
    /\ UNCHANGED <<tables, placements>>

InsertSubmission(r, s) ==
    /\ At(r, "insertSubmission")
    /\ FreshSubmission(s)
    /\ ~PairTaken(request[r].candidate, request[r].job)
    /\ submissions' = [submissions EXCEPT ![s] =
           [candidate |-> request[r].candidate, job |-> request[r].job, status |-> "Submitted"]]
    /\ Await(r, [request[r] EXCEPT !.at = "saveJob", !.submission = s])
    /\ UNCHANGED <<jobs, interviews, offers, activities, placements>>

(* The unique index on (candidateId, jobId) refuses the second of two      *)
(* inserts that both found no duplicate, and the handler rejects.          *)
RefuseInsert(r) ==
    /\ At(r, "insertSubmission")
    /\ PairTaken(request[r].candidate, request[r].job)
    /\ Await(r, None)
    /\ UNCHANGED <<tables, placements>>

-----------------------------------------------------------------------------
(* RecruitmentService.                                                     *)

(* A handler that read submission s and will save it with this status.     *)
OnSubmission(op, at, s, status, trail) ==
    [NewCall(op, at, trail) EXCEPT
        !.submission = s, !.job = submissions[s].job, !.candidate = submissions[s].candidate,
        !.submissionRow = [submissions[s] EXCEPT !.status = status]]

(* updateStatus, and reject and withdraw, which append a second activity.  *)
(* ALREADY_PLACED when the row read is Placed.                             *)
SetStatus(r, s, status, trail) ==
    /\ Exists(submissions, s) /\ submissions[s].status # "Placed"
    /\ Arrive(r, OnSubmission("updateStatus", "saveSubmission", s, status, trail))
    /\ UNCHANGED tables

UpdateStatus(r, s, status) == SetStatus(r, s, status, <<"status_changed">>)
Reject(r, s) == SetStatus(r, s, "Rejected", <<"status_changed", "rejected">>)
Withdraw(r, s) == SetStatus(r, s, "Withdrawn", <<"status_changed", "withdrawn">>)

(* scheduleInterview reads the submission, then its interviews.  round is  *)
(* 0 when the recruiter gives none.                                        *)
ScheduleInterview(r, s, round) ==
    /\ Exists(submissions, s)
    /\ Arrive(r, [OnSubmission("schedule", "countInterviews", s, "Interview Scheduled",
                               <<"interview_scheduled">>) EXCEPT !.round = round])
    /\ UNCHANGED tables

CountInterviews(r) ==
    /\ At(r, "countInterviews")
    /\ Await(r, [request[r] EXCEPT
           !.at = "insertInterview",
           !.round = IF @ = 0 THEN Cardinality(InterviewsOf(request[r].submission)) + 1 ELSE @])
    /\ UNCHANGED <<tables, placements>>

InsertInterview(r, i) ==
    /\ At(r, "insertInterview")
    /\ ~Exists(interviews, i)
    /\ interviews' = [interviews EXCEPT ![i] =
           [submission |-> request[r].submission, candidate |-> request[r].candidate,
            job |-> request[r].job, round |-> request[r].round, decision |-> "Pending"]]
    /\ Await(r, [request[r] EXCEPT !.at = "saveSubmission"])
    /\ UNCHANGED <<jobs, submissions, offers, activities, placements>>

(* completeInterview reads the interview and saves it with the decision;   *)
(* no other field of the row ever changes, so the two calls are one step.  *)
(* A completed interview is decided again.                                 *)
CompleteInterview(r, i, decision) ==
    /\ Exists(interviews, i)
    /\ interviews' = [interviews EXCEPT ![i].decision = decision]
    /\ Arrive(r, [NewCall("complete", "reread", <<"interview_completed">>) EXCEPT
                     !.submission = interviews[i].submission, !.arg = decision,
                     !.job = interviews[i].job, !.candidate = interviews[i].candidate])
    /\ UNCHANGED <<jobs, submissions, offers, activities>>

(* Mutant of CreateOffer: the status is saved, the offer is forgotten.     *)
CreateOfferStatusOnly(r, s) ==
    /\ Exists(submissions, s)
    /\ Arrive(r, OnSubmission("createOffer", "saveSubmission", s, "Offer Preparing",
                              <<"offer_created">>))
    /\ UNCHANGED tables

CreateOffer(r, s) ==
    /\ Exists(submissions, s)
    /\ Arrive(r, OnSubmission("createOffer", "insertOffer", s, "Offer Preparing",
                              <<"offer_created">>))
    /\ UNCHANGED tables

InsertOffer(r, o) ==
    /\ At(r, "insertOffer")
    /\ ~Exists(offers, o)
    /\ offers' = [offers EXCEPT ![o] =
           [submission |-> request[r].submission, candidate |-> request[r].candidate,
            job |-> request[r].job, status |-> "Draft"]]
    /\ Await(r, [request[r] EXCEPT !.at = "saveSubmission"])
    /\ UNCHANGED <<jobs, submissions, interviews, activities, placements>>

(* Draft and Expired keep the initial activityType.                        *)
OfferActivity(status) ==
    CASE status = "Accepted" -> "offer_accepted"
      [] status = "Declined" -> "offer_declined"
      [] OTHER -> "offer_sent"

(* updateOfferStatus: as for interviews, only the status of the row moves. *)
UpdateOfferStatus(r, o, status) ==
    /\ Exists(offers, o)
    /\ offers' = [offers EXCEPT ![o].status = status]
    /\ Arrive(r, [NewCall("updateOffer", "reread", <<OfferActivity(status)>>) EXCEPT
                     !.submission = offers[o].submission, !.arg = status,
                     !.job = offers[o].job, !.candidate = offers[o].candidate])
    /\ UNCHANGED <<jobs, submissions, interviews, activities>>

(* The submission status an interview decision or an offer status leads to *)
(* from the status that was read again.                                    *)
StatusAfter(arg, current) ==
    CASE arg = "Passed" -> "Interview Passed"
      [] arg = "Failed" -> "Interview Failed"
      [] arg = "Sent" -> "Offer Sent"
      [] arg = "Accepted" -> "Offer Accepted"
      [] arg = "Declined" -> "Offer Declined"
      [] OTHER -> current

(* requireSubmission after the first save.  A cancelled interview does not *)
(* save the submission; a Draft or Expired offer saves it as it was read.  *)
Reread(r) ==
    LET s == request[r].submission IN
    /\ At(r, "reread")
    /\ Await(r, IF request[r].arg = "Cancelled"
                  THEN [request[r] EXCEPT !.at = "log"]
                  ELSE [request[r] EXCEPT
                          !.at = "saveSubmission",
                          !.submissionRow = [submissions[s] EXCEPT
                              !.status = StatusAfter(request[r].arg, @)]])
    /\ UNCHANGED <<tables, placements>>

(* markPlaced: ALREADY_PLACED when the row read is Placed.                 *)
MarkPlaced(r, s) ==
    /\ Exists(submissions, s) /\ submissions[s].status # "Placed"
    /\ Arrive(r, OnSubmission("place", "readJob", s, "Placed", <<"placement">>))
    /\ UNCHANGED tables

(* Mutant of WithPlacement: a flag where the code counts.                  *)
WithFirstPlacement(row) == [row EXCEPT !.placementCount = 1, !.status = "Filled"]

WithPlacement(row) == [row EXCEPT !.placementCount = @ + 1, !.status = "Filled"]

(* Mutant of ReadJob: the job is saved at once, the submission never.      *)
ReadJobSaveFirst(r) ==
    /\ At(r, "readJob")
    /\ Await(r, IF JobFound(request[r].job)
                  THEN [request[r] EXCEPT !.at = "saveJob",
                                          !.jobRow = WithPlacement(jobs[request[r].job])]
                  ELSE None)
    /\ UNCHANGED <<tables, placements>>

(* The job is read after the submission; JOB_NOT_FOUND ends the request.   *)
ReadJob(r) ==
    /\ At(r, "readJob")
    /\ Await(r, IF JobFound(request[r].job)
                  THEN [request[r] EXCEPT !.at = "saveSubmission",
                                          !.jobRow = WithPlacement(jobs[request[r].job])]
                  ELSE None)
    /\ UNCHANGED <<tables, placements>>

-----------------------------------------------------------------------------
(* Calls that several handlers end with.                                   *)

(* submissionRepository.save of a row read earlier.                        *)
SaveSubmission(r) ==
    /\ At(r, "saveSubmission")
    /\ submissions' = [submissions EXCEPT ![request[r].submission] = request[r].submissionRow]
    /\ Await(r, [request[r] EXCEPT !.at = IF request[r].op = "place" THEN "saveJob" ELSE "log"])
    /\ placements' = IF request[r].op = "place"
                       THEN [placements EXCEPT ![request[r].job] = @ + 1] ELSE placements
    /\ UNCHANGED <<jobs, interviews, offers, activities>>

(* Mutant of SaveJob: a submit ends here too and is never logged.          *)
SaveJobUnlogged(r) ==
    /\ At(r, "saveJob")
    /\ jobs' = [jobs EXCEPT ![request[r].job] = request[r].jobRow]
    /\ Await(r, IF request[r].op = "place" THEN [request[r] EXCEPT !.at = "log"] ELSE None)
    /\ UNCHANGED <<submissions, interviews, offers, activities, placements>>

(* jobRepository.save of a row read earlier; an edit ends here.            *)
SaveJob(r) ==
    /\ At(r, "saveJob")
    /\ jobs' = [jobs EXCEPT ![request[r].job] = request[r].jobRow]
    /\ Await(r, IF request[r].op = "editJob" THEN None ELSE [request[r] EXCEPT !.at = "log"])
    /\ UNCHANGED <<submissions, interviews, offers, activities, placements>>

(* appendActivity; the last one ends the request.                          *)
AppendActivity(r) ==
    LET c == request[r]
        subject == IF c.submission = None THEN c.job ELSE c.submission
    IN
    /\ At(r, "log")
    /\ activities' = [activities EXCEPT ![<<subject, Head(c.trail)>>] = @ + 1]
    /\ Await(r, IF Len(c.trail) = 1 THEN None ELSE [c EXCEPT !.trail = Tail(@)])
    /\ UNCHANGED <<jobs, submissions, interviews, offers, placements>>

(* The awaited call rejects, or the process dies before making it: what    *)
(* was saved stays saved and the rest of the handler never runs.           *)
Abort(r) ==
    /\ request[r] # None
    /\ aborts < MaxAborts
    /\ aborts' = aborts + 1
    /\ request' = [request EXCEPT ![r] = None]
    /\ UNCHANGED <<tables, calls, placements>>

JobRequest(r) ==
    \E j \in Jobs :
        \/ \E status \in JobPatches : CreateJob(r, j, status) \/ UpdateJob(r, j, status)
        \/ ReviewField(r, j)
        \/ MarkReady(r, j)
        \/ SoftDelete(r, j)
        \/ \E c \in Candidates : SubmitCandidate(r, j, c)

RecruitmentRequest(r) ==
    \/ \E s \in Submissions :
          \/ \E status \in PatchStatuses : UpdateStatus(r, s, status)
          \/ Reject(r, s) \/ Withdraw(r, s)
          \/ \E round \in Rounds \cup {0} : ScheduleInterview(r, s, round)
          \/ CreateOffer(r, s)
          \/ MarkPlaced(r, s)
    \/ \E i \in Interviews, decision \in Decisions \ {"Pending"} :
          CompleteInterview(r, i, decision)
    \/ \E o \in Offers, status \in OfferStatuses : UpdateOfferStatus(r, o, status)

Continue(r) ==
    \/ FindDuplicate(r)
    \/ \E s \in Submissions : InsertSubmission(r, s)
    \/ RefuseInsert(r)
    \/ CountInterviews(r)
    \/ \E i \in Interviews : InsertInterview(r, i)
    \/ \E o \in Offers : InsertOffer(r, o)
    \/ Reread(r)
    \/ ReadJob(r)
    \/ SaveSubmission(r)
    \/ SaveJob(r)
    \/ AppendActivity(r)
    \/ Abort(r)

Next == \E r \in Requests : JobRequest(r) \/ RecruitmentRequest(r) \/ Continue(r)

Spec == Init /\ [][Next]_vars

-----------------------------------------------------------------------------
(* Properties.                                                             *)

(* A candidate has at most one submission to a job (JobService's           *)
(* ALREADY_SUBMITTED and the unique index), however the duplicate check    *)
(* and the insert of concurrent requests interleave.                       *)
OneSubmissionPerPair ==
    \A s, t \in Submissions :
        /\ Exists(submissions, s) /\ Exists(submissions, t)
        /\ submissions[s].candidate = submissions[t].candidate
        /\ submissions[s].job = submissions[t].job
        => s = t

(* A job never counts a submission that is not in the table: concurrent    *)
(* saves of stale job rows can lose a count of submitCandidate, never      *)
(* invent one, and the count is written after the row it counts.           *)
SubmissionCountSound ==
    \A j \in Jobs : Exists(jobs, j) =>
        jobs[j].submissionCount <= Cardinality(SubmissionsOf(j))

(* A job never counts a placement that markPlaced has not written to the   *)
(* submission first.                                                       *)
PlacementCountSound ==
    \A j \in Jobs : Exists(jobs, j) => jobs[j].placementCount <= placements[j]

(* A job's counters never run ahead of the tables they count, however      *)
(* stale the rows that requests save over each other.                      *)
CountsSound == SubmissionCountSound /\ PlacementCountSound

(* Interviews and offers copy the job and the candidate of their           *)
(* submission, and a submission names an existing job: whole-row saves of  *)
(* stale rows keep every reference and every copy right.                   *)
ReferencesAgree ==
    /\ \A s \in Submissions : Exists(submissions, s) => Exists(jobs, submissions[s].job)
    /\ \A i \in Interviews : Exists(interviews, i) =>
          LET s == interviews[i].submission IN
          /\ Exists(submissions, s)
          /\ submissions[s].job = interviews[i].job
          /\ submissions[s].candidate = interviews[i].candidate
    /\ \A o \in Offers : Exists(offers, o) =>
          LET s == offers[o].submission IN
          /\ Exists(submissions, s)
          /\ submissions[s].job = offers[o].job
          /\ submissions[s].candidate = offers[o].candidate

(* What can lead submission s to a status.                                 *)
Caused(s, status) ==
    \/ status \in PatchStatuses \cup {"Submitted", "Rejected", "Withdrawn"}
    \/ status \in InterviewStatuses /\ InterviewsOf(s) # {}
    \/ status \in OfferPhaseStatuses /\ OffersOf(s) # {}
    \/ status = "Placed" /\ placements[submissions[s].job] > 0

(* A status nobody set by hand has its cause in the tables: an interview   *)
(* status an interview of the submission, an offer status an offer, and    *)
(* Placed a placement.  The handlers save the cause first, so a request    *)
(* cut short between its saves leaves a cause without the status, never a  *)
(* status without the cause.                                               *)
StatusHasCause ==
    \A s \in Submissions : Exists(submissions, s) => Caused(s, submissions[s].status)

(* The requests for submission s that have saved what the activity at the  *)
(* head of op's trail reports and have still to append it.                 *)
Unlogged(op, s) ==
    {r \in Requests :
        /\ request[r] # None /\ request[r].op = op /\ request[r].submission = s
        /\ request[r].at \in {"saveSubmission", "saveJob", "log"}}

(* As long as no request is cut short, every submission, interview and     *)
(* offer row has its activity or a request that is about to append it: no  *)
(* interleaving drops or repeats an entry of the timeline.                 *)
ActivityTrail ==
    aborts = 0 =>
        \A s \in Submissions :
            LET Told(op, type) == activities[s, type] + Cardinality(Unlogged(op, s)) IN
            /\ Told("submit", "candidate_submitted") = IF Exists(submissions, s) THEN 1 ELSE 0
            /\ Told("schedule", "interview_scheduled") = Cardinality(InterviewsOf(s))
            /\ Told("createOffer", "offer_created") = Cardinality(OffersOf(s))

-----------------------------------------------------------------------------
(* Properties of handlers that run one after the other (one slot): the     *)
(* in-memory repositories, whose awaits never let another request in, and  *)
(* a PostgreSQL server with one recruiter.                                 *)

AtRest == \A r \in Requests : request[r] = None

(* Between requests, none of them cut short, a job counts exactly its      *)
(* submissions and its placements, whatever edits, deletions and           *)
(* completions came before.                                                *)
CountsExactAtRest ==
    aborts = 0 /\ AtRest =>
        \A j \in Jobs : Exists(jobs, j) =>
            /\ jobs[j].submissionCount = Cardinality(SubmissionsOf(j))
            /\ jobs[j].placementCount = placements[j]

(* A soft-deleted job is never written again and receives no submission:   *)
(* every handler that writes a job or adds to it asks for a found job.     *)
DeletedJobFrozen ==
    [][\A j \in Jobs : Exists(jobs, j) /\ jobs[j].deleted =>
          /\ jobs'[j] = jobs[j]
          /\ SubmissionsOf(j)' = SubmissionsOf(j)]_vars

=============================================================================
