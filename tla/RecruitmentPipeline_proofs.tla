-------------------- MODULE RecruitmentPipeline_proofs --------------------
(***************************************************************************)
(* The submission pipeline keeps its invariants for every number of jobs,  *)
(* candidates, submissions, interviews, offers and concurrent requests.    *)
(*                                                                         *)
(* None of the properties is inductive alone: a request in flight holds    *)
(* rows it read long ago and will write back.  CallOK says what such a     *)
(* stale row may still be wrong about (its status, and counts that are too *)
(* low) and what it may not (its job, its candidate, counts that are too   *)
(* high, a status without a cause).  It survives the steps of the other    *)
(* requests because no step removes a row or gives it to another pair      *)
(* (RowsStay).                                                             *)
(*                                                                         *)
(* On top of it, TraceInv accounts for the timeline, whose entries are     *)
(* owed by the requests that inserted a row; and SerialInv, for one slot,  *)
(* says that the job row a request holds is the table's but for its own    *)
(* change.                                                                 *)
(*                                                                         *)
(* What reads the pipeline one table after another comes last, over        *)
(* PipelineViews.  CheckInv holds the integrity report to the tables it    *)
(* read; ReplayInv the timeline a replay copied to the rows it explains;   *)
(* ViewsInv the pages, with RejectInv and FilledInv for the rejections     *)
(* and the placements a warning names; and, for one slot, ListsInv the     *)
(* lists a page has read to the rows they were read from.                  *)
(***************************************************************************)
EXTENDS PipelineViews, FiniteSetTheorems, SequenceTheorems, TLAPS

(* Which handlers await a call.                                            *)
OnCourse(c) ==
    /\ c.at \in {"findDuplicate", "insertSubmission"} => c.op = "submit"
    /\ c.at \in {"countInterviews", "insertInterview"} => c.op = "schedule"
    /\ c.at = "insertOffer" => c.op = "createOffer"
    /\ c.at = "reread" => c.op \in {"complete", "updateOffer"}
    /\ c.at = "readJob" => c.op = "place"
    /\ c.at = "saveSubmission" => c.op \notin {"createJob", "editJob", "submit"}
    /\ c.at = "saveJob" => c.op \in {"editJob", "submit", "place"}
    /\ c.at = "log" => c.op # "editJob"

(* A call holds the values its remaining steps use.                        *)
WellFormed(c) ==
    /\ OnCourse(c)
    /\ c.job \in Jobs
    /\ c.op \notin {"createJob", "editJob"} => c.candidate \in Candidates
    /\ c.op # "editJob" => c.trail # <<>>
    /\ c.op \notin {"createJob", "editJob", "submit"} => c.submission \in Submissions
    /\ c.op = "submit" =>
          (c.submission = None <=> c.at \in {"findDuplicate", "insertSubmission"})
    /\ c.op \in {"createJob", "editJob"} => c.submission = None
    /\ c.op \in {"createJob", "editJob", "submit"} => c.submissionRow = None
    /\ c.at \in {"countInterviews", "insertInterview", "insertOffer", "readJob",
                 "saveSubmission"} => c.submissionRow # None
    /\ c.at \in {"findDuplicate", "insertSubmission", "saveJob"} => c.jobRow # None
    /\ c.op = "place" /\ c.at = "saveSubmission" => c.jobRow # None
    /\ c.op \notin {"editJob", "submit", "place"} => c.jobRow = None

(* The rows a call read belong to the job and the candidate it is about.   *)
Refers(c) ==
    /\ Exists(jobs, c.job)
    /\ c.submission # None =>
          /\ Exists(submissions, c.submission)
          /\ submissions[c.submission].job = c.job
          /\ submissions[c.submission].candidate = c.candidate
    /\ c.submissionRow # None =>
          c.submissionRow.job = c.job /\ c.submissionRow.candidate = c.candidate

(* A job row in flight is ahead of the tables by the one row its own       *)
(* request has still to write, and by nothing else.                        *)
CountsBehind(c) ==
    c.jobRow # None =>
        /\ c.jobRow.submissionCount <= Cardinality(SubmissionsOf(c.job))
               + IF c.at \in {"findDuplicate", "insertSubmission"} THEN 1 ELSE 0
        /\ c.jobRow.placementCount <= placements[c.job]
               + IF c.at = "saveSubmission" THEN 1 ELSE 0

(* A submission row about to be saved has a cause for its status, and one  *)
(* that has still to be completed will have it.                            *)
HasCause(c) ==
    /\ c.at \in {"countInterviews", "insertInterview"} =>
          c.submissionRow.status = "Interview Scheduled"
    /\ c.at = "insertOffer" => c.submissionRow.status = "Offer Preparing"
    /\ c.op = "place" => c.submissionRow.status = "Placed"
    /\ c.at = "saveSubmission" /\ c.op # "place" => Caused(c.submission, c.submissionRow.status)
    /\ c.at = "reread" =>
          \/ c.arg \in {"Passed", "Failed", "Cancelled"} /\ InterviewsOf(c.submission) # {}
          \/ c.arg \in OfferStatuses /\ OffersOf(c.submission) # {}

CallOK(c) == WellFormed(c) /\ Refers(c) /\ CountsBehind(c) /\ HasCause(c)
CallsOK == \A r \in Requests : request[r] # None => CallOK(request[r])

TablesOK ==
    /\ ReferencesAgree
    /\ OneSubmissionPerPair
    /\ SubmissionCountSound
    /\ PlacementCountSound
    /\ StatusHasCause

(* The inductive invariant.                                                *)
IInv == TypeOK /\ TablesOK /\ CallsOK

(* A step that removes no row, gives none to another job or candidate, and *)
(* takes no placement back.                                                *)
RowsStay ==
    /\ \A j \in Jobs : Exists(jobs, j) => Exists(jobs', j)
    /\ \A s \in Submissions : Exists(submissions, s) =>
          /\ Exists(submissions', s)
          /\ submissions'[s].job = submissions[s].job
          /\ submissions'[s].candidate = submissions[s].candidate
    /\ \A s \in Submissions : InterviewsOf(s) \subseteq InterviewsOf(s)'
    /\ \A s \in Submissions : OffersOf(s) \subseteq OffersOf(s)'
    /\ \A j \in Jobs : placements[j] <= placements'[j]

-----------------------------------------------------------------------------
(* Lemmas on rows that stay.                                               *)

(* The submissions of a job, and the interviews of a submission, can be    *)
(* counted.                                                                *)
LEMMA Countable ==
    ASSUME NEW j, NEW s
    PROVE  /\ IsFiniteSet(SubmissionsOf(j)) /\ Cardinality(SubmissionsOf(j)) \in Nat
           /\ IsFiniteSet(InterviewsOf(s)) /\ Cardinality(InterviewsOf(s)) \in Nat
<1>1. SubmissionsOf(j) \subseteq Submissions /\ InterviewsOf(s) \subseteq Interviews
  BY DEF SubmissionsOf, InterviewsOf
<1> QED BY <1>1, PipelineAssumption, FS_Subset, FS_CardinalityType

(* Rows that stay never lower the number of submissions of a job.          *)
LEMMA SubmissionsGrow ==
    ASSUME RowsStay, NEW j \in Jobs
    PROVE  /\ SubmissionsOf(j) \subseteq SubmissionsOf(j)'
           /\ Cardinality(SubmissionsOf(j)) <= Cardinality(SubmissionsOf(j)')
<1>1. SubmissionsOf(j) \subseteq SubmissionsOf(j)' BY DEF RowsStay, SubmissionsOf, Exists
<1>2. SubmissionsOf(j)' \subseteq Submissions BY DEF SubmissionsOf
<1>3. IsFiniteSet(SubmissionsOf(j)') BY <1>2, PipelineAssumption, FS_Subset
<1> QED BY <1>1, <1>3, FS_Subset

(* A cause, once there, stays.                                             *)
LEMMA CauseStays ==
    ASSUME TypeOK, TypeOK', RowsStay, NEW s \in Submissions, Exists(submissions, s),
           NEW status, Caused(s, status)
    PROVE  Caused(s, status)'
<1>1. submissions'[s].job = submissions[s].job /\ submissions[s].job \in Jobs
  BY DEF RowsStay, TypeOK, SubmissionRow, Exists
<1>2. \A j \in Jobs : placements[j] > 0 => placements'[j] > 0
  BY DEF RowsStay, TypeOK
<1>3. InterviewsOf(s) \subseteq InterviewsOf(s)' /\ OffersOf(s) \subseteq OffersOf(s)'
  BY DEF RowsStay
<1> QED BY <1>1, <1>2, <1>3 DEF Caused

(* What holds of a call in flight still holds after a step that keeps the  *)
(* rows.                                                                   *)
LEMMA CallStays ==
    ASSUME TypeOK, TypeOK', RowsStay, NEW c \in Call, CallOK(c)
    PROVE  CallOK(c)'
<1>1. WellFormed(c) /\ c.job \in Jobs BY DEF CallOK, WellFormed
<1>2. c.submission \in Submissions \cup {None} BY DEF Call
<1>3. Refers(c)' BY <1>1, <1>2 DEF CallOK, Refers, RowsStay
<1>4. CountsBehind(c)'
  <2> SUFFICES ASSUME c.jobRow # None PROVE CountsBehind(c)' BY DEF CountsBehind
  <2>1. c.jobRow \in JobRow BY DEF Call
  <2>2. Cardinality(SubmissionsOf(c.job)) <= Cardinality(SubmissionsOf(c.job)')
    BY <1>1, SubmissionsGrow
  <2>3. Cardinality(SubmissionsOf(c.job)) \in Nat BY Countable
  <2>4. Cardinality(SubmissionsOf(c.job)') \in Nat
    <3>1. SubmissionsOf(c.job)' \subseteq Submissions BY DEF SubmissionsOf
    <3> QED BY <3>1, PipelineAssumption, FS_Subset, FS_CardinalityType
  <2>5. /\ placements[c.job] <= placements'[c.job]
        /\ placements[c.job] \in Nat /\ placements'[c.job] \in Nat
    BY <1>1 DEF RowsStay, TypeOK
  <2> QED BY <2>1, <2>2, <2>3, <2>4, <2>5 DEF CallOK, CountsBehind, JobRow
<1>5. HasCause(c)'
  <2>1. c.at = "saveSubmission" /\ c.op # "place" => Caused(c.submission, c.submissionRow.status)'
    <3> SUFFICES ASSUME c.at = "saveSubmission", c.op # "place"
                 PROVE  Caused(c.submission, c.submissionRow.status)'
      OBVIOUS
    <3>1. c.submission \in Submissions /\ Exists(submissions, c.submission)
      BY <1>1, PipelineAssumption DEF CallOK, WellFormed, Refers, OnCourse
    <3> QED BY <3>1, CauseStays DEF CallOK, HasCause
  <2>2. c.at = "reread" => c.submission \in Submissions
    BY <1>1, <1>2 DEF WellFormed, OnCourse
  <2>3. c.at = "reread" =>
           /\ InterviewsOf(c.submission) \subseteq InterviewsOf(c.submission)'
           /\ OffersOf(c.submission) \subseteq OffersOf(c.submission)'
    BY <2>2, Zenon DEF RowsStay
  <2>4. c.at = "reread" =>
           \/ c.arg \in {"Passed", "Failed", "Cancelled"} /\ InterviewsOf(c.submission)' # {}
           \/ c.arg \in OfferStatuses /\ OffersOf(c.submission)' # {}
    BY <2>3 DEF CallOK, HasCause
  <2> QED BY <2>1, <2>4, Zenon DEF CallOK, HasCause
<1> QED BY <1>1, <1>3, <1>4, <1>5 DEF CallOK, WellFormed

(* A request moves on to call c, or ends: all calls in flight are right    *)
(* when c is.                                                              *)
LEMMA CallsStay ==
    ASSUME TypeOK, TypeOK', CallsOK, RowsStay, NEW r \in Requests, NEW c,
           request' = [request EXCEPT ![r] = c], c # None => CallOK(c)'
    PROVE  CallsOK'
<1> SUFFICES ASSUME NEW q \in Requests, request'[q] # None PROVE CallOK(request[q])'
  BY DEF CallsOK
<1>1. CASE q = r BY <1>1 DEF TypeOK
<1>2. CASE q # r
  <2>1. PICK d : d = request[q] OBVIOUS
  <2>2. request'[q] = d BY <1>2, <2>1 DEF TypeOK
  <2>3. d \in Call /\ CallOK(d) BY <2>1, <2>2 DEF TypeOK, CallsOK
  <2>4. CallOK(d)' BY <2>3, CallStays
  <2> QED BY <2>2, <2>4
<1> QED BY <1>1, <1>2

(* What StatusAfter maps to, case by case.                                 *)
LEMMA StatusAfterCases ==
    ASSUME NEW current
    PROVE  /\ StatusAfter("Passed", current) = "Interview Passed"
           /\ StatusAfter("Failed", current) = "Interview Failed"
           /\ StatusAfter("Sent", current) = "Offer Sent"
           /\ StatusAfter("Accepted", current) = "Offer Accepted"
           /\ StatusAfter("Declined", current) = "Offer Declined"
           /\ \A arg \in {"Draft", "Expired"} : StatusAfter(arg, current) = current
BY DEF StatusAfter

(* A step that leaves the tables alone keeps what holds of them.           *)
LEMMA TablesStill ==
    ASSUME TypeOK, UNCHANGED <<tables, placements>>
    PROVE  RowsStay /\ (TablesOK => TablesOK')
<1>1. RowsStay
  BY DEF RowsStay, tables, Exists, InterviewsOf, OffersOf, TypeOK
<1>2. TablesOK => TablesOK'
  BY DEF TablesOK, ReferencesAgree, OneSubmissionPerPair, SubmissionCountSound,
         PlacementCountSound, StatusHasCause, Caused, tables, Exists, SubmissionsOf,
         InterviewsOf, OffersOf
<1> QED BY <1>1, <1>2

-----------------------------------------------------------------------------
(* Steps that write no table.                                              *)

(* A step that only moves a request on keeps the invariant when its next   *)
(* call is right.                                                          *)
LEMMA OnlyCalls ==
    ASSUME IInv, NEW r \in Requests, NEW c, request' = [request EXCEPT ![r] = c],
           UNCHANGED <<tables, placements>>, calls' \in Nat, aborts' \in Nat,
           c # None => c \in Call /\ CallOK(c)
    PROVE  IInv' /\ RowsStay
<1>1. TypeOK' BY DEF IInv, TypeOK, tables
<1>2. RowsStay /\ TablesOK' BY TablesStill DEF IInv
<1>3. c # None => CallOK(c)' BY <1>1, <1>2, CallStays DEF IInv
<1>4. CallsOK' BY <1>1, <1>2, <1>3, CallsStay DEF IInv
<1> QED BY <1>1, <1>2, <1>4 DEF IInv

(* The fields of a new call.                                               *)
LEMMA NewCallFields ==
    ASSUME NEW op \in Ops, NEW at \in Steps, NEW trail \in Seq(ActivityTypes)
    PROVE  /\ NewCall(op, at, trail) \in Call
           /\ NewCall(op, at, trail).op = op
           /\ NewCall(op, at, trail).at = at
           /\ NewCall(op, at, trail).trail = trail
           /\ NewCall(op, at, trail).submission = None
           /\ NewCall(op, at, trail).jobRow = None
           /\ NewCall(op, at, trail).submissionRow = None
BY DEF NewCall, Call

(* What a call keeps when it moves to its next step, with or without a row *)
(* or value more.                                                          *)
LEMMA SetAt ==
    ASSUME NEW d \in Call, NEW at \in Steps, NEW c, c = [d EXCEPT !.at = at]
    PROVE  /\ c \in Call /\ c.at = at /\ c.op = d.op /\ c.trail = d.trail /\ c.job = d.job
           /\ c.candidate = d.candidate /\ c.submission = d.submission /\ c.arg = d.arg
           /\ c.jobRow = d.jobRow /\ c.submissionRow = d.submissionRow
BY DEF Call

(* A call that is given a round.                                           *)
LEMMA SetRound ==
    ASSUME NEW d \in Call, NEW round \in Nat, NEW c, c = [d EXCEPT !.round = round]
    PROVE  /\ c \in Call /\ c.at = d.at /\ c.op = d.op /\ c.trail = d.trail /\ c.job = d.job
           /\ c.candidate = d.candidate /\ c.submission = d.submission /\ c.arg = d.arg
           /\ c.jobRow = d.jobRow /\ c.submissionRow = d.submissionRow
BY DEF Call

(* A call whose trail is replaced.                                         *)
LEMMA SetTrail ==
    ASSUME NEW d \in Call, NEW trail \in Seq(ActivityTypes), NEW c, c = [d EXCEPT !.trail = trail]
    PROVE  /\ c \in Call /\ c.at = d.at /\ c.op = d.op /\ c.trail = trail /\ c.job = d.job
           /\ c.candidate = d.candidate /\ c.submission = d.submission /\ c.arg = d.arg
           /\ c.jobRow = d.jobRow /\ c.submissionRow = d.submissionRow
BY DEF Call

(* A call that learns its submission.                                      *)
LEMMA SetSubmission ==
    ASSUME NEW d \in Call, NEW s \in Submissions, NEW c, c = [d EXCEPT !.submission = s]
    PROVE  /\ c \in Call /\ c.at = d.at /\ c.op = d.op /\ c.trail = d.trail /\ c.job = d.job
           /\ c.candidate = d.candidate /\ c.submission = s /\ c.arg = d.arg
           /\ c.jobRow = d.jobRow /\ c.submissionRow = d.submissionRow
BY DEF Call

(* A call that is given the job row it will save.                          *)
LEMMA SetJobRow ==
    ASSUME NEW d \in Call, NEW row \in JobRow, NEW c, c = [d EXCEPT !.jobRow = row]
    PROVE  /\ c \in Call /\ c.at = d.at /\ c.op = d.op /\ c.trail = d.trail /\ c.job = d.job
           /\ c.candidate = d.candidate /\ c.submission = d.submission /\ c.arg = d.arg
           /\ c.jobRow = row /\ c.submissionRow = d.submissionRow
BY DEF Call

(* A call that is given the submission row it will save.                   *)
LEMMA SetSubmissionRow ==
    ASSUME NEW d \in Call, NEW row \in SubmissionRow, NEW c, c = [d EXCEPT !.submissionRow = row]
    PROVE  /\ c \in Call /\ c.at = d.at /\ c.op = d.op /\ c.trail = d.trail /\ c.job = d.job
           /\ c.candidate = d.candidate /\ c.submission = d.submission /\ c.arg = d.arg
           /\ c.jobRow = d.jobRow /\ c.submissionRow = row
BY DEF Call

(* A trail of one activity.                                                *)
LEMMA OneActivity ==
    ASSUME NEW type \in ActivityTypes
    PROVE  <<type>> \in Seq(ActivityTypes) /\ <<type>> # <<>>
OBVIOUS

(* A request that arrives keeps the counters right.                        *)
LEMMA Arrival ==
    ASSUME TypeOK, NEW r, NEW c, Arrive(r, c)
    PROVE  /\ request' = [request EXCEPT ![r] = c] /\ UNCHANGED placements
           /\ calls' \in Nat /\ aborts' \in Nat
BY DEF Arrive, TypeOK

(* So does one that moves on.                                              *)
LEMMA Moving ==
    ASSUME TypeOK, NEW r, NEW c, Await(r, c)
    PROVE  request' = [request EXCEPT ![r] = c] /\ calls' \in Nat /\ aborts' \in Nat
BY DEF Await, TypeOK

(* A handler that has read a submission refers to it rightly.              *)
LEMMA OnSubmissionFields ==
    ASSUME TypeOK, TablesOK, NEW op \in Ops, NEW at \in Steps,
           NEW s \in Submissions, Exists(submissions, s),
           NEW status \in SubmissionStatuses, NEW trail \in Seq(ActivityTypes),
           NEW c, c = OnSubmission(op, at, s, status, trail)
    PROVE  /\ c \in Call /\ Refers(c) /\ CountsBehind(c)
           /\ c.op = op /\ c.at = at /\ c.trail = trail
           /\ c.job \in Jobs /\ c.candidate \in Candidates /\ c.submission = s
           /\ c.jobRow = None /\ c.submissionRow # None /\ c.submissionRow.status = status
<1>1. submissions[s] \in SubmissionRow BY DEF TypeOK, Exists
<1>2. PICK row : row = [submissions[s] EXCEPT !.status = status] OBVIOUS
<1>3. /\ row \in SubmissionRow /\ row.status = status
      /\ row.job = submissions[s].job /\ row.candidate = submissions[s].candidate
  BY <1>1, <1>2 DEF SubmissionRow
<1>4. submissions[s].job \in Jobs /\ submissions[s].candidate \in Candidates
  BY <1>1 DEF SubmissionRow
<1>5. c = [NewCall(op, at, trail) EXCEPT
             !.submission = s, !.job = submissions[s].job,
             !.candidate = submissions[s].candidate, !.submissionRow = row]
  BY <1>2 DEF OnSubmission
<1>6. /\ c.op = op /\ c.at = at /\ c.trail = trail /\ c.jobRow = None
      /\ c.job = submissions[s].job /\ c.candidate = submissions[s].candidate
      /\ c.submission = s /\ c.submissionRow = row
  BY <1>5 DEF NewCall
<1>7. c \in Call
  <2>1. c = [op |-> op, at |-> at, job |-> submissions[s].job,
             candidate |-> submissions[s].candidate, submission |-> s, arg |-> None,
             round |-> 0, trail |-> trail, jobRow |-> None, submissionRow |-> row]
    BY <1>5 DEF NewCall
  <2> QED BY <1>3, <1>4, <2>1 DEF Call
<1>8. Exists(jobs, submissions[s].job) BY DEF TablesOK, ReferencesAgree
<1>9. row # None BY <1>3, PipelineAssumption
<1>10. Refers(c) BY <1>3, <1>6, <1>8 DEF Refers
<1>11. CountsBehind(c) BY <1>6 DEF CountsBehind
<1> QED BY <1>3, <1>4, <1>6, <1>7, <1>9, <1>10, <1>11

(* updateStatus, reject and withdraw up to the save.                       *)
LEMMA SetStatusStep ==
    ASSUME IInv, NEW r \in Requests, NEW s \in Submissions,
           NEW status \in PatchStatuses \cup {"Rejected", "Withdrawn"},
           NEW trail \in Seq(ActivityTypes), trail # <<>>, SetStatus(r, s, status, trail)
    PROVE  IInv' /\ RowsStay
<1>1. PICK c : c = OnSubmission("updateStatus", "saveSubmission", s, status, trail) OBVIOUS
<1>2. status \in SubmissionStatuses BY PipelineAssumption DEF SubmissionStatuses
<1>3. Exists(submissions, s) BY DEF SetStatus
<1>4. "updateStatus" \in Ops /\ "saveSubmission" \in Steps BY DEF Ops, Steps
<1>5. /\ c \in Call /\ Refers(c) /\ CountsBehind(c)
      /\ c.op = "updateStatus" /\ c.at = "saveSubmission" /\ c.trail = trail
      /\ c.job \in Jobs /\ c.candidate \in Candidates /\ c.submission = s
      /\ c.jobRow = None /\ c.submissionRow # None /\ c.submissionRow.status = status
  BY <1>1, <1>2, <1>3, <1>4, OnSubmissionFields DEF IInv
<1>6. WellFormed(c) BY <1>5 DEF WellFormed, OnCourse
<1>7. HasCause(c) BY <1>5 DEF HasCause, Caused
<1>8. Arrive(r, c) /\ UNCHANGED tables BY <1>1 DEF SetStatus
<1> QED BY <1>5, <1>6, <1>7, <1>8, Arrival, OnlyCalls DEF CallOK, IInv

(* scheduleInterview up to its read of the interviews.                     *)
LEMMA ScheduleInterviewStep ==
    ASSUME IInv, NEW r \in Requests, NEW s \in Submissions, NEW round \in Rounds \cup {0},
           ScheduleInterview(r, s, round)
    PROVE  IInv' /\ RowsStay
<1>1. PICK trail, status : trail = <<"interview_scheduled">> /\ status = "Interview Scheduled"
  OBVIOUS
<1>2. PICK d : d = OnSubmission("schedule", "countInterviews", s, status, trail) OBVIOUS
<1>3. PICK c : c = [d EXCEPT !.round = round] OBVIOUS
<1>4. trail \in Seq(ActivityTypes) /\ trail # <<>>
  BY <1>1, OneActivity DEF ActivityTypes
<1>5. /\ status \in SubmissionStatuses
      /\ "schedule" \in Ops /\ "countInterviews" \in Steps
  BY <1>1 DEF SubmissionStatuses, InterviewStatuses, Ops, Steps
<1>6. Exists(submissions, s) /\ Arrive(r, c) /\ UNCHANGED tables
  BY <1>1, <1>2, <1>3 DEF ScheduleInterview
<1>7. /\ d \in Call /\ Refers(d) /\ CountsBehind(d)
      /\ d.op = "schedule" /\ d.at = "countInterviews" /\ d.trail = trail
      /\ d.job \in Jobs /\ d.candidate \in Candidates /\ d.submission = s
      /\ d.jobRow = None /\ d.submissionRow # None /\ d.submissionRow.status = status
  BY <1>2, <1>4, <1>5, <1>6, OnSubmissionFields DEF IInv
<1>8. round \in Nat BY PipelineAssumption
<1>9. /\ c \in Call /\ c.op = d.op /\ c.at = d.at /\ c.trail = d.trail
      /\ c.job = d.job /\ c.candidate = d.candidate /\ c.submission = d.submission
      /\ c.jobRow = d.jobRow /\ c.submissionRow = d.submissionRow
  BY <1>3, <1>7, <1>8, SetRound
<1>10. WellFormed(c) BY <1>4, <1>7, <1>9 DEF WellFormed, OnCourse
<1>11. Refers(c) /\ CountsBehind(c) /\ HasCause(c)
  BY <1>1, <1>7, <1>9 DEF Refers, CountsBehind, HasCause
<1> QED BY <1>6, <1>9, <1>10, <1>11, Arrival, OnlyCalls DEF CallOK, IInv

(* createOffer up to the save of the offer.                                *)
LEMMA CreateOfferStep ==
    ASSUME IInv, NEW r \in Requests, NEW s \in Submissions, CreateOffer(r, s)
    PROVE  IInv' /\ RowsStay
<1>1. PICK trail, status : trail = <<"offer_created">> /\ status = "Offer Preparing"
  OBVIOUS
<1>2. PICK c : c = OnSubmission("createOffer", "insertOffer", s, status, trail) OBVIOUS
<1>3. trail \in Seq(ActivityTypes) /\ trail # <<>>
  BY <1>1, OneActivity DEF ActivityTypes
<1>4. /\ status \in SubmissionStatuses
      /\ "createOffer" \in Ops /\ "insertOffer" \in Steps
  BY <1>1 DEF SubmissionStatuses, OfferPhaseStatuses, Ops, Steps
<1>5. Exists(submissions, s) /\ Arrive(r, c) /\ UNCHANGED tables
  BY <1>1, <1>2 DEF CreateOffer
<1>6. /\ c \in Call /\ Refers(c) /\ CountsBehind(c)
      /\ c.op = "createOffer" /\ c.at = "insertOffer" /\ c.trail = trail
      /\ c.job \in Jobs /\ c.candidate \in Candidates /\ c.submission = s
      /\ c.jobRow = None /\ c.submissionRow # None /\ c.submissionRow.status = status
  BY <1>2, <1>3, <1>4, <1>5, OnSubmissionFields DEF IInv
<1>7. WellFormed(c) /\ HasCause(c) BY <1>1, <1>3, <1>6 DEF WellFormed, OnCourse, HasCause
<1> QED BY <1>5, <1>6, <1>7, Arrival, OnlyCalls DEF CallOK, IInv

(* markPlaced up to its read of the job.                                   *)
LEMMA MarkPlacedStep ==
    ASSUME IInv, NEW r \in Requests, NEW s \in Submissions, MarkPlaced(r, s)
    PROVE  IInv' /\ RowsStay
<1>1. PICK trail, status : trail = <<"placement">> /\ status = "Placed" OBVIOUS
<1>2. PICK c : c = OnSubmission("place", "readJob", s, status, trail) OBVIOUS
<1>3. trail \in Seq(ActivityTypes) /\ trail # <<>>
  BY <1>1, OneActivity DEF ActivityTypes
<1>4. status \in SubmissionStatuses /\ "place" \in Ops /\ "readJob" \in Steps
  BY <1>1 DEF SubmissionStatuses, Ops, Steps
<1>5. Exists(submissions, s) /\ Arrive(r, c) /\ UNCHANGED tables
  BY <1>1, <1>2 DEF MarkPlaced
<1>6. /\ c \in Call /\ Refers(c) /\ CountsBehind(c)
      /\ c.op = "place" /\ c.at = "readJob" /\ c.trail = trail
      /\ c.job \in Jobs /\ c.candidate \in Candidates /\ c.submission = s
      /\ c.jobRow = None /\ c.submissionRow # None /\ c.submissionRow.status = status
  BY <1>2, <1>3, <1>4, <1>5, OnSubmissionFields DEF IInv
<1>7. WellFormed(c) /\ HasCause(c) BY <1>1, <1>3, <1>6 DEF WellFormed, OnCourse, HasCause
<1> QED BY <1>5, <1>6, <1>7, Arrival, OnlyCalls DEF CallOK, IInv

(* The edits of a job: the row to save has the counts of the row read.     *)
LEMMA EditJobStep ==
    ASSUME IInv, NEW r \in Requests, NEW j \in Jobs, NEW row \in JobRow,
           jobs[j] # None =>
               /\ row.submissionCount = jobs[j].submissionCount
               /\ row.placementCount = jobs[j].placementCount,
           EditJob(r, j, row)
    PROVE  IInv' /\ RowsStay
<1>1. PICK trail : trail = << >> OBVIOUS
<1>2. PICK n : n = NewCall("editJob", "saveJob", trail) OBVIOUS
<1>3. PICK c : c = [n EXCEPT !.job = j, !.jobRow = row] OBVIOUS
<1>4. "editJob" \in Ops /\ "saveJob" \in Steps BY DEF Ops, Steps
<1>5. /\ c = [op |-> "editJob", at |-> "saveJob", job |-> j, candidate |-> None,
              submission |-> None, arg |-> None, round |-> 0, trail |-> trail,
              jobRow |-> row, submissionRow |-> None]
  BY <1>2, <1>3 DEF NewCall
<1>6. c \in Call
  <2>1. trail \in Seq(ActivityTypes) BY <1>1
  <2> QED BY <1>4, <1>5, <2>1 DEF Call
<1>7. WellFormed(c) /\ HasCause(c)
  <2>1. row # None BY PipelineAssumption
  <2> QED BY <1>5, <2>1 DEF WellFormed, OnCourse, HasCause
<1>8. Exists(jobs, j) /\ Arrive(r, c) /\ UNCHANGED tables
  BY <1>1, <1>2, <1>3 DEF EditJob, JobFound
<1>9. Refers(c) BY <1>5, <1>8 DEF Refers
<1>10. CountsBehind(c)
  <2>1. /\ jobs[j].submissionCount <= Cardinality(SubmissionsOf(j))
        /\ jobs[j].placementCount <= placements[j]
    BY <1>8 DEF IInv, TablesOK, SubmissionCountSound, PlacementCountSound
  <2>2. c.jobRow = row /\ c.job = j /\ c.at = "saveJob" BY <1>5
  <2>3. /\ row.submissionCount = jobs[j].submissionCount
        /\ row.placementCount = jobs[j].placementCount
    BY <1>8 DEF Exists
  <2>4. Cardinality(SubmissionsOf(j)) \in Nat /\ placements[j] \in Nat
    BY Countable DEF IInv, TypeOK
  <2> QED BY <2>1, <2>2, <2>3, <2>4 DEF CountsBehind
<1> QED BY <1>6, <1>7, <1>8, <1>9, <1>10, Arrival, OnlyCalls DEF CallOK, IInv

(* submitCandidate: the row to save counts one submission more.            *)
LEMMA SubmitCandidateStep ==
    ASSUME IInv, NEW r \in Requests, NEW j \in Jobs, NEW cand \in Candidates,
           SubmitCandidate(r, j, cand)
    PROVE  IInv' /\ RowsStay
<1>1. PICK trail : trail = <<"candidate_submitted">> OBVIOUS
<1>2. trail \in Seq(ActivityTypes) /\ trail # <<>>
  BY <1>1, OneActivity DEF ActivityTypes
<1>3. PICK row : row = WithSubmission(jobs[j]) OBVIOUS
<1>4. PICK n : n = NewCall("submit", "findDuplicate", trail) OBVIOUS
<1>5. PICK c : c = [n EXCEPT !.job = j, !.candidate = cand, !.jobRow = row] OBVIOUS
<1>6. Exists(jobs, j) /\ Arrive(r, c) /\ UNCHANGED tables
  BY <1>1, <1>3, <1>4, <1>5 DEF SubmitCandidate, JobFound
<1>7. jobs[j] \in JobRow BY <1>6 DEF IInv, TypeOK, Exists
<1>8. /\ row \in JobRow /\ row.submissionCount = jobs[j].submissionCount + 1
      /\ row.placementCount = jobs[j].placementCount
  BY <1>3, <1>7 DEF WithSubmission, JobRow
<1>9. "submit" \in Ops /\ "findDuplicate" \in Steps BY DEF Ops, Steps
<1>10. c = [op |-> "submit", at |-> "findDuplicate", job |-> j, candidate |-> cand,
            submission |-> None, arg |-> None, round |-> 0, trail |-> trail,
            jobRow |-> row, submissionRow |-> None]
  BY <1>4, <1>5 DEF NewCall
<1>11. c \in Call BY <1>2, <1>8, <1>9, <1>10 DEF Call
<1>12. WellFormed(c) /\ HasCause(c)
  <2>1. row # None BY <1>8, PipelineAssumption
  <2> QED BY <1>2, <1>10, <2>1 DEF WellFormed, OnCourse, HasCause
<1>13. Refers(c) BY <1>6, <1>10 DEF Refers
<1>14. CountsBehind(c)
  <2>1. /\ jobs[j].submissionCount <= Cardinality(SubmissionsOf(j))
        /\ jobs[j].placementCount <= placements[j]
    BY <1>6 DEF IInv, TablesOK, SubmissionCountSound, PlacementCountSound
  <2>2. c.jobRow = row /\ c.job = j /\ c.at = "findDuplicate" BY <1>10
  <2>3. /\ Cardinality(SubmissionsOf(j)) \in Nat /\ placements[j] \in Nat
        /\ jobs[j].submissionCount \in Nat /\ jobs[j].placementCount \in Nat
    BY <1>7, Countable DEF IInv, TypeOK, JobRow
  <2> QED BY <1>8, <2>1, <2>2, <2>3 DEF CountsBehind
<1> QED BY <1>6, <1>11, <1>12, <1>13, <1>14, Arrival, OnlyCalls DEF CallOK, IInv

(* The request about to take a step is one that is right.                  *)
LEMMA InFlight ==
    ASSUME IInv, NEW r \in Requests, NEW step \in Steps, At(r, step), NEW d, d = request[r]
    PROVE  d \in Call /\ CallOK(d) /\ d.at = step
BY DEF At, IInv, TypeOK, CallsOK

(* findByCandidateAndJob in submitCandidate.                               *)
LEMMA FindDuplicateStep ==
    ASSUME IInv, NEW r \in Requests, FindDuplicate(r)
    PROVE  IInv' /\ RowsStay
<1>1. PICK d : d = request[r] OBVIOUS
<1>2. At(r, "findDuplicate") /\ UNCHANGED <<tables, placements>> BY DEF FindDuplicate
<1>3. "findDuplicate" \in Steps /\ "insertSubmission" \in Steps BY DEF Steps
<1>4. d \in Call /\ CallOK(d) /\ d.at = "findDuplicate" BY <1>1, <1>2, <1>3, InFlight
<1>5. PICK c : c = [d EXCEPT !.at = "insertSubmission"] OBVIOUS
<1>6. Await(r, None) \/ Await(r, c) BY <1>1, <1>5 DEF FindDuplicate
<1>7. /\ c \in Call /\ c.at = "insertSubmission" /\ c.op = d.op /\ c.trail = d.trail
      /\ c.job = d.job /\ c.candidate = d.candidate /\ c.submission = d.submission
      /\ c.arg = d.arg /\ c.jobRow = d.jobRow /\ c.submissionRow = d.submissionRow
  BY <1>3, <1>4, <1>5, SetAt
<1>8. CallOK(c)
  BY <1>4, <1>7 DEF CallOK, WellFormed, OnCourse, Refers, CountsBehind, HasCause
<1> QED BY <1>2, <1>6, <1>7, <1>8, Moving, OnlyCalls DEF IInv

(* A request that ends.                                                    *)
LEMMA EndStep ==
    ASSUME IInv, NEW r \in Requests, RefuseInsert(r) \/ Abort(r)
    PROVE  IInv' /\ RowsStay
<1>1. /\ request' = [request EXCEPT ![r] = None] /\ UNCHANGED <<tables, placements>>
      /\ calls' \in Nat /\ aborts' \in Nat
  BY DEF RefuseInsert, Abort, Await, IInv, TypeOK
<1> QED BY <1>1, OnlyCalls

(* findBySubmissionId in scheduleInterview, which gives the round.         *)
LEMMA CountInterviewsStep ==
    ASSUME IInv, NEW r \in Requests, CountInterviews(r)
    PROVE  IInv' /\ RowsStay
<1>1. PICK d : d = request[r] OBVIOUS
<1>2. At(r, "countInterviews") /\ UNCHANGED <<tables, placements>> BY DEF CountInterviews
<1>3. "countInterviews" \in Steps /\ "insertInterview" \in Steps BY DEF Steps
<1>4. d \in Call /\ CallOK(d) /\ d.at = "countInterviews" BY <1>1, <1>2, <1>3, InFlight
<1>5. PICK round : round = IF d.round = 0 THEN Cardinality(InterviewsOf(d.submission)) + 1
                           ELSE d.round
  OBVIOUS
<1>6. round \in Nat
  <2>1. d.round \in Nat BY <1>4 DEF Call
  <2>2. Cardinality(InterviewsOf(d.submission)) \in Nat BY Countable
  <2> QED BY <1>5, <2>1, <2>2
<1>7. PICK e : e = [d EXCEPT !.at = "insertInterview"] OBVIOUS
<1>8. PICK c : c = [e EXCEPT !.round = round] OBVIOUS
<1>9. /\ e \in Call /\ e.at = "insertInterview" /\ e.op = d.op /\ e.trail = d.trail
      /\ e.job = d.job /\ e.candidate = d.candidate /\ e.submission = d.submission
      /\ e.arg = d.arg /\ e.jobRow = d.jobRow /\ e.submissionRow = d.submissionRow
  BY <1>3, <1>4, <1>7, SetAt
<1>10. /\ c \in Call /\ c.at = e.at /\ c.op = e.op /\ c.trail = e.trail
       /\ c.job = e.job /\ c.candidate = e.candidate /\ c.submission = e.submission
       /\ c.arg = e.arg /\ c.jobRow = e.jobRow /\ c.submissionRow = e.submissionRow
  BY <1>6, <1>8, <1>9, SetRound
<1>11. Await(r, c)
  <2>1. [d EXCEPT !.at = "insertInterview",
                  !.round = IF @ = 0 THEN Cardinality(InterviewsOf(d.submission)) + 1 ELSE @] = c
    BY <1>4, <1>5, <1>7, <1>8 DEF Call
  <2> QED BY <1>1, <2>1 DEF CountInterviews
<1>12. CallOK(c)
  BY <1>4, <1>9, <1>10 DEF CallOK, WellFormed, OnCourse, Refers, CountsBehind, HasCause
<1> QED BY <1>2, <1>10, <1>11, <1>12, Moving, OnlyCalls DEF IInv

(* completeInterview and updateOfferStatus read the submission again and   *)
(* give it the status of a decision or an offer that is in the table.      *)
LEMMA RereadStep ==
    ASSUME IInv, NEW r \in Requests, Reread(r)
    PROVE  IInv' /\ RowsStay
<1>1. PICK d : d = request[r] OBVIOUS
<1>2. At(r, "reread") /\ UNCHANGED <<tables, placements>> BY DEF Reread
<1>3. "reread" \in Steps /\ "saveSubmission" \in Steps /\ "log" \in Steps BY DEF Steps
<1>4. d \in Call /\ CallOK(d) /\ d.at = "reread" BY <1>1, <1>2, <1>3, InFlight
<1>5. /\ d.submission \in Submissions /\ Exists(submissions, d.submission)
      /\ d.op \in {"complete", "updateOffer"}
  BY <1>4, PipelineAssumption DEF CallOK, WellFormed, OnCourse, Refers
<1>6. PICK old : old = submissions[d.submission] OBVIOUS
<1>7. old \in SubmissionRow /\ old.job = d.job /\ old.candidate = d.candidate
  BY <1>4, <1>5, <1>6, PipelineAssumption DEF IInv, TypeOK, Exists, CallOK, Refers
<1>8. PICK status : status = StatusAfter(d.arg, old.status) OBVIOUS
<1>9. PICK row : row = [old EXCEPT !.status = status] OBVIOUS
<1>10. CASE d.arg = "Cancelled"
  <2>1. PICK c : c = [d EXCEPT !.at = "log"] OBVIOUS
  <2>2. Await(r, c) BY <1>1, <1>10, <2>1 DEF Reread
  <2>3. /\ c \in Call /\ c.at = "log" /\ c.op = d.op /\ c.trail = d.trail
        /\ c.job = d.job /\ c.candidate = d.candidate /\ c.submission = d.submission
        /\ c.arg = d.arg /\ c.jobRow = d.jobRow /\ c.submissionRow = d.submissionRow
    BY <1>3, <1>4, <2>1, SetAt
  <2>4. CallOK(c)
    BY <1>4, <1>5, <2>3 DEF CallOK, WellFormed, OnCourse, Refers, CountsBehind, HasCause
  <2> QED BY <1>2, <2>2, <2>3, <2>4, Moving, OnlyCalls DEF IInv
<1>11. CASE d.arg # "Cancelled"
  <2>1. Caused(d.submission, old.status)
    BY <1>5, <1>6 DEF IInv, TablesOK, StatusHasCause
  <2>2. \/ d.arg \in {"Passed", "Failed"} /\ InterviewsOf(d.submission) # {}
        \/ d.arg \in OfferStatuses /\ OffersOf(d.submission) # {}
    BY <1>4, <1>11 DEF CallOK, HasCause
  <2>3. status \in SubmissionStatuses /\ Caused(d.submission, status)
    <3>1. CASE d.arg \in {"Passed", "Failed"} /\ InterviewsOf(d.submission) # {}
      <4>1. status \in {"Interview Passed", "Interview Failed"} BY <1>8, <3>1, StatusAfterCases
      <4>2. status \in InterviewStatuses BY <4>1 DEF InterviewStatuses
      <4> QED BY <3>1, <4>2 DEF Caused, SubmissionStatuses
    <3>2. CASE d.arg \in {"Sent", "Accepted", "Declined"} /\ OffersOf(d.submission) # {}
      <4>1. status \in {"Offer Sent", "Offer Accepted", "Offer Declined"}
        <5>1. d.arg = "Sent" => status = "Offer Sent" BY <1>8, StatusAfterCases
        <5>2. d.arg = "Accepted" => status = "Offer Accepted" BY <1>8, StatusAfterCases
        <5>3. d.arg = "Declined" => status = "Offer Declined" BY <1>8, StatusAfterCases
        <5> QED BY <3>2, <5>1, <5>2, <5>3
      <4>2. status \in OfferPhaseStatuses BY <4>1 DEF OfferPhaseStatuses
      <4> QED BY <3>2, <4>2 DEF Caused, SubmissionStatuses
    <3>3. CASE d.arg \in {"Draft", "Expired"}
      <4>1. status = old.status BY <1>8, <3>3, StatusAfterCases
      <4> QED BY <1>7, <2>1, <4>1 DEF SubmissionRow
    <3> QED BY <2>2, <3>1, <3>2, <3>3 DEF OfferStatuses
  <2>4. /\ row \in SubmissionRow /\ row.status = status
        /\ row.job = old.job /\ row.candidate = old.candidate
    BY <1>7, <1>9, <2>3 DEF SubmissionRow
  <2>5. PICK e : e = [d EXCEPT !.at = "saveSubmission"] OBVIOUS
  <2>6. PICK c : c = [e EXCEPT !.submissionRow = row] OBVIOUS
  <2>7. Await(r, c)
    <3>1. [submissions[d.submission] EXCEPT !.status = StatusAfter(d.arg, @)] = row
      BY <1>6, <1>7, <1>8, <1>9 DEF SubmissionRow
    <3>2. [d EXCEPT !.at = "saveSubmission", !.submissionRow = row] = c
      BY <1>4, <2>5, <2>6 DEF Call
    <3> QED BY <1>1, <1>11, <3>1, <3>2 DEF Reread
  <2>8. /\ e \in Call /\ e.at = "saveSubmission" /\ e.op = d.op /\ e.trail = d.trail
        /\ e.job = d.job /\ e.candidate = d.candidate /\ e.submission = d.submission
        /\ e.arg = d.arg /\ e.jobRow = d.jobRow /\ e.submissionRow = d.submissionRow
    BY <1>3, <1>4, <2>5, SetAt
  <2>9. /\ c \in Call /\ c.at = e.at /\ c.op = e.op /\ c.trail = e.trail
        /\ c.job = e.job /\ c.candidate = e.candidate /\ c.submission = e.submission
        /\ c.arg = e.arg /\ c.jobRow = e.jobRow /\ c.submissionRow = row
    BY <2>4, <2>6, <2>8, SetSubmissionRow
  <2>10. WellFormed(c)
    <3>1. row # None BY <2>4, PipelineAssumption
    <3> QED BY <1>4, <1>5, <2>8, <2>9, <3>1 DEF CallOK, WellFormed, OnCourse
  <2>11. Refers(c) BY <1>4, <1>7, <2>4, <2>8, <2>9 DEF CallOK, Refers
  <2>12. CountsBehind(c)
    <3>1. CASE d.jobRow = None BY <2>8, <2>9, <3>1 DEF CountsBehind
    <3>2. CASE d.jobRow # None
      <4>1. d.jobRow \in JobRow /\ d.job \in Jobs BY <1>4, <3>2 DEF Call, CallOK, WellFormed
      <4>2. placements[d.job] \in Nat BY <4>1 DEF IInv, TypeOK
      <4> QED BY <1>4, <2>8, <2>9, <4>1, <4>2 DEF CallOK, CountsBehind, JobRow
    <3> QED BY <3>1, <3>2
  <2>13. HasCause(c) BY <1>5, <2>3, <2>4, <2>8, <2>9 DEF HasCause
  <2> QED BY <1>2, <2>7, <2>9, <2>10, <2>11, <2>12, <2>13, Moving, OnlyCalls DEF IInv, CallOK
<1> QED BY <1>10, <1>11

(* The job row that counts one placement more.                             *)
LEMMA PlacementFields ==
    ASSUME NEW old \in JobRow
    PROVE  /\ WithPlacement(old) \in JobRow
           /\ WithPlacement(old).placementCount = old.placementCount + 1
           /\ WithPlacement(old).submissionCount = old.submissionCount
<1>1. PICK counted : counted = [old EXCEPT !.placementCount = @ + 1] OBVIOUS
<1>2. /\ counted \in JobRow /\ counted.placementCount = old.placementCount + 1
      /\ counted.submissionCount = old.submissionCount
  BY <1>1 DEF JobRow
<1>3. WithPlacement(old) = [counted EXCEPT !.status = "Filled"] BY <1>1, Zenon DEF WithPlacement
<1> QED BY <1>2, <1>3 DEF JobRow, JobStatuses

(* markPlaced reads the job: the row to save counts one placement more.    *)
LEMMA ReadJobStep ==
    ASSUME IInv, NEW r \in Requests, ReadJob(r)
    PROVE  IInv' /\ RowsStay
<1>1. PICK d : d = request[r] OBVIOUS
<1>2. At(r, "readJob") /\ UNCHANGED <<tables, placements>> BY DEF ReadJob
<1>3. "readJob" \in Steps /\ "saveSubmission" \in Steps BY DEF Steps
<1>4. d \in Call /\ CallOK(d) /\ d.at = "readJob" BY <1>1, <1>2, <1>3, InFlight
<1>5. d.job \in Jobs /\ d.op = "place" BY <1>4 DEF CallOK, WellFormed, OnCourse
<1>6. CASE ~JobFound(d.job)
  <2>1. Await(r, None) BY <1>1, <1>6 DEF ReadJob
  <2> QED BY <1>2, <2>1, Moving, OnlyCalls DEF IInv
<1>7. CASE JobFound(d.job)
  <2>1. PICK row : row = WithPlacement(jobs[d.job]) OBVIOUS
  <2>2. jobs[d.job] \in JobRow /\ Exists(jobs, d.job)
    BY <1>5, <1>7 DEF IInv, TypeOK, JobFound, Exists
  <2>3. /\ row \in JobRow /\ row.placementCount = jobs[d.job].placementCount + 1
        /\ row.submissionCount = jobs[d.job].submissionCount
    BY <2>1, <2>2, PlacementFields
  <2>4. PICK e : e = [d EXCEPT !.at = "saveSubmission"] OBVIOUS
  <2>5. PICK c : c = [e EXCEPT !.jobRow = row] OBVIOUS
  <2>6. Await(r, c)
    <3>1. [d EXCEPT !.at = "saveSubmission", !.jobRow = row] = c
      BY <1>4, <2>4, <2>5 DEF Call
    <3> QED BY <1>1, <1>7, <2>1, <3>1 DEF ReadJob
  <2>7. /\ e \in Call /\ e.at = "saveSubmission" /\ e.op = d.op /\ e.trail = d.trail
        /\ e.job = d.job /\ e.candidate = d.candidate /\ e.submission = d.submission
        /\ e.arg = d.arg /\ e.jobRow = d.jobRow /\ e.submissionRow = d.submissionRow
    BY <1>3, <1>4, <2>4, SetAt
  <2>8. /\ c \in Call /\ c.at = e.at /\ c.op = e.op /\ c.trail = e.trail
        /\ c.job = e.job /\ c.candidate = e.candidate /\ c.submission = e.submission
        /\ c.arg = e.arg /\ c.jobRow = row /\ c.submissionRow = e.submissionRow
    BY <2>3, <2>5, <2>7, SetJobRow
  <2>9. WellFormed(c)
    <3>1. row # None BY <2>3, PipelineAssumption
    <3> QED BY <1>4, <1>5, <2>7, <2>8, <3>1 DEF CallOK, WellFormed, OnCourse
  <2>10. Refers(c) /\ HasCause(c) BY <1>4, <1>5, <2>7, <2>8 DEF CallOK, Refers, HasCause
  <2>11. CountsBehind(c)
    <3>1. /\ jobs[d.job].submissionCount <= Cardinality(SubmissionsOf(d.job))
          /\ jobs[d.job].placementCount <= placements[d.job]
      BY <1>5, <2>2 DEF IInv, TablesOK, SubmissionCountSound, PlacementCountSound
    <3>2. /\ Cardinality(SubmissionsOf(d.job)) \in Nat /\ placements[d.job] \in Nat
          /\ jobs[d.job].submissionCount \in Nat /\ jobs[d.job].placementCount \in Nat
      BY <1>5, <2>2, Countable DEF IInv, TypeOK, JobRow
    <3>3. c.job = d.job /\ c.jobRow = row /\ c.at = "saveSubmission" BY <2>7, <2>8
    <3> QED BY <2>3, <3>1, <3>2, <3>3 DEF CountsBehind
  <2> QED BY <1>2, <2>6, <2>8, <2>9, <2>10, <2>11, Moving, OnlyCalls DEF IInv, CallOK
<1> QED BY <1>6, <1>7

-----------------------------------------------------------------------------
(* Steps that write a table.                                               *)

(* A step that writes a table keeps the invariant when the rows stay, the  *)
(* tables stay right and the next call is right.                           *)
LEMMA Writing ==
    ASSUME IInv, NEW r \in Requests, NEW c, request' = [request EXCEPT ![r] = c],
           TypeOK', RowsStay, TablesOK', c # None => CallOK(c)'
    PROVE  IInv' /\ RowsStay
BY CallsStay DEF IInv

(* Other submissions keep their causes.                                    *)
LEMMA CausesStay ==
    ASSUME TypeOK, TypeOK', TablesOK, RowsStay, submissions' = submissions
    PROVE  StatusHasCause'
<1> SUFFICES ASSUME NEW s \in Submissions, Exists(submissions, s)'
             PROVE  Caused(s, submissions[s].status)'
  BY DEF StatusHasCause
<1>1. PICK status : status = submissions[s].status OBVIOUS
<1>2. Exists(submissions, s) /\ submissions'[s].status = status BY <1>1 DEF Exists
<1>3. Caused(s, status) BY <1>1, <1>2 DEF TablesOK, StatusHasCause
<1>4. Caused(s, status)' BY <1>2, <1>3, CauseStays
<1> QED BY <1>2, <1>4, Zenon DEF Caused

(* createFromParsed and createManual.                                      *)
LEMMA CreateJobStep ==
    ASSUME IInv, NEW r \in Requests, NEW j \in Jobs, NEW status \in JobPatches,
           CreateJob(r, j, status)
    PROVE  IInv' /\ RowsStay
<1>1. PICK row : row = [status |-> status, deleted |-> FALSE,
                        submissionCount |-> 0, placementCount |-> 0]
  OBVIOUS
<1>2. row \in JobRow BY <1>1, PipelineAssumption DEF JobRow
<1>3. /\ jobs' = [jobs EXCEPT ![j] = row] /\ ~Exists(jobs, j)
      /\ UNCHANGED <<submissions, interviews, offers, activities>>
  BY <1>1 DEF CreateJob
<1>4. PICK trail : trail = <<"job_created">> OBVIOUS
<1>5. trail \in Seq(ActivityTypes) /\ trail # <<>>
  BY <1>4, OneActivity DEF ActivityTypes
<1>6. PICK n : n = NewCall("createJob", "log", trail) OBVIOUS
<1>7. PICK c : c = [n EXCEPT !.job = j] OBVIOUS
<1>8. Arrive(r, c) BY <1>4, <1>6, <1>7 DEF CreateJob
<1>9. /\ request' = [request EXCEPT ![r] = c] /\ UNCHANGED placements
      /\ calls' \in Nat /\ aborts' \in Nat
  BY <1>8, Arrival DEF IInv
<1>10. c = [op |-> "createJob", at |-> "log", job |-> j, candidate |-> None,
            submission |-> None, arg |-> None, round |-> 0, trail |-> trail,
            jobRow |-> None, submissionRow |-> None]
  BY <1>6, <1>7 DEF NewCall
<1>11. c \in Call
  <2>1. "createJob" \in Ops /\ "log" \in Steps BY DEF Ops, Steps
  <2> QED BY <1>5, <1>10, <2>1 DEF Call
<1>12. TypeOK' BY <1>2, <1>3, <1>9, <1>11 DEF IInv, TypeOK
<1>13. row # None BY <1>2, PipelineAssumption
<1>14. RowsStay
  BY <1>3, <1>9, <1>13 DEF RowsStay, Exists, InterviewsOf, OffersOf, IInv, TypeOK
<1>15. TablesOK'
  <2>1. ReferencesAgree' /\ OneSubmissionPerPair'
    BY <1>3, <1>13 DEF IInv, TablesOK, TypeOK, ReferencesAgree, OneSubmissionPerPair, Exists
  <2>2. StatusHasCause' BY <1>3, <1>12, <1>14, CausesStay DEF IInv
  <2>3. ASSUME NEW k \in Jobs, Exists(jobs, k)'
        PROVE  /\ jobs'[k].submissionCount <= Cardinality(SubmissionsOf(k)')
               /\ jobs'[k].placementCount <= placements'[k]
    <3>1. SubmissionsOf(k)' = SubmissionsOf(k) BY <1>3 DEF SubmissionsOf, Exists
    <3>2. Cardinality(SubmissionsOf(k)) \in Nat /\ placements'[k] = placements[k]
          /\ placements[k] \in Nat
      BY <1>9, Countable DEF IInv, TypeOK
    <3>3. CASE k = j BY <1>1, <1>3, <3>1, <3>2, <3>3 DEF IInv, TypeOK
    <3>4. CASE k # j
      <4>1. jobs'[k] = jobs[k] /\ Exists(jobs, k) BY <1>3, <2>3, <3>4 DEF Exists, IInv, TypeOK
      <4> QED BY <3>1, <3>2, <4>1 DEF IInv, TablesOK, SubmissionCountSound, PlacementCountSound
    <3> QED BY <3>3, <3>4
  <2>4. SubmissionCountSound' /\ PlacementCountSound'
    BY <2>3 DEF SubmissionCountSound, PlacementCountSound
  <2> QED BY <2>1, <2>2, <2>4 DEF TablesOK
<1>16. CallOK(c)'
  <2>1. WellFormed(c) BY <1>5, <1>10 DEF WellFormed, OnCourse
  <2>2. Refers(c)' BY <1>3, <1>10, <1>13 DEF Refers, Exists, IInv, TypeOK
  <2>3. CountsBehind(c)' /\ HasCause(c)' BY <1>10 DEF CountsBehind, HasCause
  <2> QED BY <2>1, <2>2, <2>3 DEF CallOK, WellFormed
<1> QED BY <1>9, <1>12, <1>14, <1>15, <1>16, Writing

(* jobRepository.save of the row in flight.                                *)
LEMMA SaveJobStep ==
    ASSUME IInv, NEW r \in Requests, SaveJob(r)
    PROVE  IInv' /\ RowsStay
<1>1. PICK d : d = request[r] OBVIOUS
<1>2. At(r, "saveJob") BY DEF SaveJob
<1>3. "saveJob" \in Steps /\ "log" \in Steps BY DEF Steps
<1>4. d \in Call /\ CallOK(d) /\ d.at = "saveJob" BY <1>1, <1>2, <1>3, InFlight
<1>5. d.job \in Jobs /\ d.jobRow \in JobRow
  BY <1>4 DEF Call, CallOK, WellFormed
<1>6. /\ jobs' = [jobs EXCEPT ![d.job] = d.jobRow]
      /\ UNCHANGED <<submissions, interviews, offers, activities, placements>>
  BY <1>1 DEF SaveJob
<1>7. PICK e : e = [d EXCEPT !.at = "log"] OBVIOUS
<1>8. PICK c : c = IF d.op = "editJob" THEN None ELSE e OBVIOUS
<1>9. Await(r, c) BY <1>1, <1>7, <1>8 DEF SaveJob
<1>10. request' = [request EXCEPT ![r] = c] /\ calls' \in Nat /\ aborts' \in Nat
  BY <1>9, Moving DEF IInv
<1>11. /\ e \in Call /\ e.at = "log" /\ e.op = d.op /\ e.trail = d.trail
       /\ e.job = d.job /\ e.candidate = d.candidate /\ e.submission = d.submission
       /\ e.arg = d.arg /\ e.jobRow = d.jobRow /\ e.submissionRow = d.submissionRow
  BY <1>3, <1>4, <1>7, SetAt
<1>12. TypeOK' BY <1>5, <1>6, <1>8, <1>10, <1>11 DEF IInv, TypeOK
<1>13. d.jobRow # None BY <1>5, PipelineAssumption
<1>14. RowsStay
  BY <1>5, <1>6, <1>13 DEF RowsStay, Exists, InterviewsOf, OffersOf, IInv, TypeOK
<1>15. TablesOK'
  <2>1. ReferencesAgree' /\ OneSubmissionPerPair'
    BY <1>6, <1>13 DEF IInv, TablesOK, TypeOK, ReferencesAgree, OneSubmissionPerPair, Exists
  <2>2. StatusHasCause' BY <1>6, <1>12, <1>14, CausesStay DEF IInv
  <2>3. ASSUME NEW k \in Jobs, Exists(jobs, k)'
        PROVE  /\ jobs'[k].submissionCount <= Cardinality(SubmissionsOf(k)')
               /\ jobs'[k].placementCount <= placements'[k]
    <3>1. SubmissionsOf(k)' = SubmissionsOf(k) BY <1>6 DEF SubmissionsOf, Exists
    <3>2. Cardinality(SubmissionsOf(k)) \in Nat /\ placements'[k] = placements[k]
          /\ placements[k] \in Nat
      BY <1>6, Countable DEF IInv, TypeOK
    <3>3. CASE k = d.job
      <4>1. jobs'[k] = d.jobRow BY <1>5, <1>6, <3>3 DEF IInv, TypeOK
      <4> QED BY <1>4, <1>5, <1>13, <3>1, <3>2, <3>3, <4>1 DEF CallOK, CountsBehind, JobRow
    <3>4. CASE k # d.job
      <4>1. jobs'[k] = jobs[k] /\ Exists(jobs, k) BY <1>6, <2>3, <3>4 DEF Exists, IInv, TypeOK
      <4> QED BY <3>1, <3>2, <4>1 DEF IInv, TablesOK, SubmissionCountSound, PlacementCountSound
    <3> QED BY <3>3, <3>4
  <2>4. SubmissionCountSound' /\ PlacementCountSound'
    BY <2>3 DEF SubmissionCountSound, PlacementCountSound
  <2> QED BY <2>1, <2>2, <2>4 DEF TablesOK
<1>16. c # None => CallOK(c)'
  <2> SUFFICES ASSUME d.op # "editJob" PROVE CallOK(e)' BY <1>8
  <2>1. CallOK(e)
    BY <1>4, <1>11 DEF CallOK, WellFormed, OnCourse, Refers, CountsBehind, HasCause
  <2> QED BY <1>11, <1>12, <1>14, <2>1, CallStays DEF IInv
<1> QED BY <1>10, <1>12, <1>14, <1>15, <1>16, Writing

(* What is left of a trail.                                                *)
LEMMA RestOfTrail ==
    ASSUME NEW trail \in Seq(ActivityTypes), trail # <<>>
    PROVE  Tail(trail) \in Seq(ActivityTypes) /\ (Len(trail) # 1 => Tail(trail) # <<>>)
<1>1. /\ Tail(trail) \in Seq(ActivityTypes) /\ Len(trail) \in Nat
      /\ Len(Tail(trail)) = Len(trail) - 1
  BY HeadTailProperties, LenProperties
<1>2. Len(<< >>) = 0 BY EmptySeq
<1>3. Tail(trail) = << >> => Len(Tail(trail)) = 0 BY <1>2, Zenon
<1> QED BY <1>1, <1>3

(* appendActivity.                                                         *)
LEMMA AppendActivityStep ==
    ASSUME IInv, NEW r \in Requests, AppendActivity(r)
    PROVE  IInv' /\ RowsStay
<1>1. PICK d : d = request[r] OBVIOUS
<1>2. At(r, "log") /\ UNCHANGED <<jobs, submissions, interviews, offers, placements>>
  BY DEF AppendActivity
<1>3. "log" \in Steps BY DEF Steps
<1>4. d \in Call /\ CallOK(d) /\ d.at = "log" BY <1>1, <1>2, <1>3, InFlight
<1>5. d.trail \in Seq(ActivityTypes) /\ d.trail # <<>>
  BY <1>4 DEF Call, CallOK, WellFormed, OnCourse
<1>0. PICK rest : rest = Tail(d.trail) OBVIOUS
<1>6. PICK e : e = [d EXCEPT !.trail = rest] OBVIOUS
<1>7. PICK c : c = IF Len(d.trail) = 1 THEN None ELSE e OBVIOUS
<1>8. Await(r, c) BY <1>0, <1>1, <1>6, <1>7 DEF AppendActivity
<1>9. request' = [request EXCEPT ![r] = c] /\ calls' \in Nat /\ aborts' \in Nat
  BY <1>8, Moving DEF IInv
<1>10. rest \in Seq(ActivityTypes) /\ (Len(d.trail) # 1 => rest # <<>>)
  BY <1>0, <1>5, RestOfTrail
<1>11. /\ e \in Call /\ e.at = d.at /\ e.op = d.op /\ e.trail = rest
       /\ e.job = d.job /\ e.candidate = d.candidate /\ e.submission = d.submission
       /\ e.arg = d.arg /\ e.jobRow = d.jobRow /\ e.submissionRow = d.submissionRow
  BY <1>4, <1>6, <1>10, SetTrail
<1>12. activities' \in [Subjects \X ActivityTypes -> Nat]
  <2>1. PICK subject : subject = IF d.submission = None THEN d.job ELSE d.submission OBVIOUS
  <2>2. PICK type : type = Head(d.trail) OBVIOUS
  <2>3. PICK x : x = <<subject, type>> OBVIOUS
  <2>4. PICK D : D = Subjects \X ActivityTypes OBVIOUS
  <2>5. subject \in Subjects
    BY <1>4, <2>1 DEF Call, CallOK, WellFormed, Subjects
  <2>6. type \in ActivityTypes BY <1>5, <2>2, HeadTailProperties
  <2>7. x \in D BY <2>3, <2>4, <2>5, <2>6
  <2>8. activities' = [activities EXCEPT ![x] = @ + 1]
    BY <1>1, <2>1, <2>2, <2>3, Zenon DEF AppendActivity
  <2>9. activities \in [D -> Nat] BY <2>4, Zenon DEF IInv, TypeOK
  <2>10. activities' \in [D -> Nat] BY <2>7, <2>8, <2>9
  <2> QED BY <2>4, <2>10
<1>13. TypeOK' BY <1>2, <1>7, <1>9, <1>11, <1>12 DEF IInv, TypeOK
<1>14. RowsStay BY <1>2 DEF RowsStay, Exists, InterviewsOf, OffersOf, IInv, TypeOK
<1>15. TablesOK'
  BY <1>2 DEF IInv, TablesOK, ReferencesAgree, OneSubmissionPerPair, SubmissionCountSound,
              PlacementCountSound, StatusHasCause, Caused, Exists, SubmissionsOf,
              InterviewsOf, OffersOf
<1>16. c # None => CallOK(c)'
  <2> SUFFICES ASSUME Len(d.trail) # 1 PROVE CallOK(e)' BY <1>7
  <2>2. CallOK(e)
    BY <1>4, <1>10, <1>11 DEF CallOK, WellFormed, OnCourse, Refers, CountsBehind, HasCause
  <2> QED BY <1>11, <1>13, <1>14, <2>2, CallStays DEF IInv
<1> QED BY <1>9, <1>13, <1>14, <1>15, <1>16, Writing

(* A step that leaves the jobs, the submissions and the placements alone   *)
(* keeps their counts and the uniqueness of submissions.                   *)
LEMMA CountsStill ==
    ASSUME TablesOK, UNCHANGED <<jobs, submissions, placements>>
    PROVE  OneSubmissionPerPair' /\ SubmissionCountSound' /\ PlacementCountSound'
BY DEF TablesOK, OneSubmissionPerPair, SubmissionCountSound, PlacementCountSound,
       Exists, SubmissionsOf

(* interviewRepository.save of the new interview.                          *)
LEMMA InsertInterviewStep ==
    ASSUME IInv, NEW r \in Requests, NEW i \in Interviews, InsertInterview(r, i)
    PROVE  IInv' /\ RowsStay
<1>1. PICK d : d = request[r] OBVIOUS
<1>2. At(r, "insertInterview") /\ ~Exists(interviews, i) BY DEF InsertInterview
<1>3. "insertInterview" \in Steps /\ "saveSubmission" \in Steps BY DEF Steps
<1>4. d \in Call /\ CallOK(d) /\ d.at = "insertInterview" BY <1>1, <1>2, <1>3, InFlight
<1>5. /\ d.submission \in Submissions /\ d.job \in Jobs /\ d.candidate \in Candidates
      /\ d.op = "schedule" /\ d.submission # None
  BY <1>4, PipelineAssumption DEF CallOK, WellFormed, OnCourse
<1>6. PICK row : row = [submission |-> d.submission, candidate |-> d.candidate,
                        job |-> d.job, round |-> d.round, decision |-> "Pending"]
  OBVIOUS
<1>7. row \in InterviewRow
  BY <1>4, <1>5, <1>6 DEF Call, InterviewRow, Decisions
<1>8. row # None BY <1>7, PipelineAssumption
<1>9. /\ interviews' = [interviews EXCEPT ![i] = row]
      /\ UNCHANGED <<jobs, submissions, offers, activities, placements>>
  BY <1>1, <1>6 DEF InsertInterview
<1>10. PICK c : c = [d EXCEPT !.at = "saveSubmission"] OBVIOUS
<1>11. Await(r, c) BY <1>1, <1>10 DEF InsertInterview
<1>12. request' = [request EXCEPT ![r] = c] /\ calls' \in Nat /\ aborts' \in Nat
  BY <1>11, Moving DEF IInv
<1>13. /\ c \in Call /\ c.at = "saveSubmission" /\ c.op = d.op /\ c.trail = d.trail
       /\ c.job = d.job /\ c.candidate = d.candidate /\ c.submission = d.submission
       /\ c.arg = d.arg /\ c.jobRow = d.jobRow /\ c.submissionRow = d.submissionRow
  BY <1>3, <1>4, <1>10, SetAt
<1>14. TypeOK' BY <1>7, <1>9, <1>12, <1>13 DEF IInv, TypeOK
<1>15. \A s \in Submissions : InterviewsOf(s) \subseteq InterviewsOf(s)'
  BY <1>2, <1>9 DEF InterviewsOf, Exists, IInv, TypeOK
<1>16. RowsStay BY <1>9, <1>15 DEF RowsStay, Exists, OffersOf, IInv, TypeOK
<1>17. TablesOK'
  <2>1. StatusHasCause' BY <1>9, <1>14, <1>16, CausesStay DEF IInv
  <2>2. ReferencesAgree'
    <3>1. /\ Exists(submissions, d.submission)
          /\ submissions[d.submission].job = row.job
          /\ submissions[d.submission].candidate = row.candidate
      BY <1>4, <1>5, <1>6 DEF CallOK, Refers
    <3>2. row.submission = d.submission BY <1>6
    <3> QED BY <1>8, <1>9, <3>1, <3>2 DEF IInv, TypeOK, TablesOK, ReferencesAgree, Exists
  <2> QED BY <1>9, <2>1, <2>2, CountsStill DEF TablesOK, IInv
<1>18. CallOK(c)'
  <2>1. WellFormed(c) BY <1>4, <1>5, <1>13 DEF CallOK, WellFormed, OnCourse
  <2>2. Refers(c)' BY <1>4, <1>9, <1>13 DEF CallOK, Refers, Exists
  <2>3. d.jobRow = None \/ d.jobRow \in JobRow BY <1>4 DEF Call
  <2>4. CountsBehind(c)
    BY <1>4, <1>5, <1>13, <2>3, Countable
    DEF CallOK, WellFormed, CountsBehind, JobRow, IInv, TypeOK
  <2>5. CountsBehind(c)' BY <1>9, <2>4 DEF CountsBehind, SubmissionsOf, Exists
  <2>6. i \in InterviewsOf(c.submission)'
    BY <1>6, <1>8, <1>9, <1>13 DEF InterviewsOf, Exists, IInv, TypeOK
  <2>7. c.submissionRow.status \in InterviewStatuses
    BY <1>4, <1>13 DEF CallOK, HasCause, InterviewStatuses
  <2>8. HasCause(c)' BY <1>5, <1>13, <2>6, <2>7 DEF HasCause, Caused
  <2> QED BY <2>1, <2>2, <2>5, <2>8 DEF CallOK, WellFormed
<1> QED BY <1>12, <1>14, <1>16, <1>17, <1>18, Writing

(* offerRepository.save of the new offer.                                  *)
LEMMA InsertOfferStep ==
    ASSUME IInv, NEW r \in Requests, NEW o \in Offers, InsertOffer(r, o)
    PROVE  IInv' /\ RowsStay
<1>1. PICK d : d = request[r] OBVIOUS
<1>2. At(r, "insertOffer") /\ ~Exists(offers, o) BY DEF InsertOffer
<1>3. "insertOffer" \in Steps /\ "saveSubmission" \in Steps BY DEF Steps
<1>4. d \in Call /\ CallOK(d) /\ d.at = "insertOffer" BY <1>1, <1>2, <1>3, InFlight
<1>5. /\ d.submission \in Submissions /\ d.job \in Jobs /\ d.candidate \in Candidates
      /\ d.op = "createOffer" /\ d.submission # None
  BY <1>4, PipelineAssumption DEF CallOK, WellFormed, OnCourse
<1>6. PICK row : row = [submission |-> d.submission, candidate |-> d.candidate,
                        job |-> d.job, status |-> "Draft"]
  OBVIOUS
<1>7. row \in OfferRow BY <1>5, <1>6 DEF OfferRow, OfferStatuses
<1>8. row # None BY <1>7, PipelineAssumption
<1>9. /\ offers' = [offers EXCEPT ![o] = row]
      /\ UNCHANGED <<jobs, submissions, interviews, activities, placements>>
  BY <1>1, <1>6 DEF InsertOffer
<1>10. PICK c : c = [d EXCEPT !.at = "saveSubmission"] OBVIOUS
<1>11. Await(r, c) BY <1>1, <1>10 DEF InsertOffer
<1>12. request' = [request EXCEPT ![r] = c] /\ calls' \in Nat /\ aborts' \in Nat
  BY <1>11, Moving DEF IInv
<1>13. /\ c \in Call /\ c.at = "saveSubmission" /\ c.op = d.op /\ c.trail = d.trail
       /\ c.job = d.job /\ c.candidate = d.candidate /\ c.submission = d.submission
       /\ c.arg = d.arg /\ c.jobRow = d.jobRow /\ c.submissionRow = d.submissionRow
  BY <1>3, <1>4, <1>10, SetAt
<1>14. TypeOK' BY <1>7, <1>9, <1>12, <1>13 DEF IInv, TypeOK
<1>15. \A s \in Submissions : OffersOf(s) \subseteq OffersOf(s)'
  BY <1>2, <1>9 DEF OffersOf, Exists, IInv, TypeOK
<1>16. RowsStay BY <1>9, <1>15 DEF RowsStay, Exists, InterviewsOf, IInv, TypeOK
<1>17. TablesOK'
  <2>1. StatusHasCause' BY <1>9, <1>14, <1>16, CausesStay DEF IInv
  <2>2. ReferencesAgree'
    <3>1. /\ Exists(submissions, d.submission)
          /\ submissions[d.submission].job = row.job
          /\ submissions[d.submission].candidate = row.candidate
      BY <1>4, <1>5, <1>6 DEF CallOK, Refers
    <3>2. row.submission = d.submission BY <1>6
    <3> QED BY <1>8, <1>9, <3>1, <3>2 DEF IInv, TypeOK, TablesOK, ReferencesAgree, Exists
  <2> QED BY <1>9, <2>1, <2>2, CountsStill DEF TablesOK, IInv
<1>18. CallOK(c)'
  <2>1. WellFormed(c) BY <1>4, <1>5, <1>13 DEF CallOK, WellFormed, OnCourse
  <2>2. Refers(c)' BY <1>4, <1>9, <1>13 DEF CallOK, Refers, Exists
  <2>3. d.jobRow = None \/ d.jobRow \in JobRow BY <1>4 DEF Call
  <2>4. CountsBehind(c)
    BY <1>4, <1>5, <1>13, <2>3, Countable
    DEF CallOK, WellFormed, CountsBehind, JobRow, IInv, TypeOK
  <2>5. CountsBehind(c)' BY <1>9, <2>4 DEF CountsBehind, SubmissionsOf, Exists
  <2>6. o \in OffersOf(c.submission)'
    BY <1>6, <1>8, <1>9, <1>13 DEF OffersOf, Exists, IInv, TypeOK
  <2>7. c.submissionRow.status \in OfferPhaseStatuses
    BY <1>4, <1>13 DEF CallOK, HasCause, OfferPhaseStatuses
  <2>8. HasCause(c)' BY <1>5, <1>13, <2>6, <2>7 DEF HasCause, Caused
  <2> QED BY <2>1, <2>2, <2>5, <2>8 DEF CallOK, WellFormed
<1> QED BY <1>12, <1>14, <1>16, <1>17, <1>18, Writing

(* A call that completes an interview or an offer whose row it has just    *)
(* saved.                                                                  *)
LEMMA CompletionCall ==
    ASSUME TypeOK, TablesOK, UNCHANGED <<jobs, submissions>>,
           NEW op \in {"complete", "updateOffer"}, NEW s \in Submissions, Exists(submissions, s),
           NEW job, job = submissions[s].job,
           NEW candidate, candidate = submissions[s].candidate,
           NEW trail \in Seq(ActivityTypes), trail # <<>>,
           NEW arg \in Decisions \cup OfferStatuses,
           \/ arg \in {"Passed", "Failed", "Cancelled"} /\ InterviewsOf(s)' # {}
           \/ arg \in OfferStatuses /\ OffersOf(s)' # {},
           NEW c, c = [op |-> op, at |-> "reread", job |-> job, candidate |-> candidate,
                       submission |-> s, arg |-> arg, round |-> 0, trail |-> trail,
                       jobRow |-> None, submissionRow |-> None]
    PROVE  c \in Call /\ CallOK(c)'
<1>1. job \in Jobs /\ candidate \in Candidates /\ Exists(jobs, job)
  BY DEF TypeOK, SubmissionRow, Exists, TablesOK, ReferencesAgree
<1>2. op \in Ops /\ "reread" \in Steps BY DEF Ops, Steps
<1>3. c \in Call BY <1>1, <1>2 DEF Call
<1>4. WellFormed(c) BY <1>1 DEF WellFormed, OnCourse
<1>5. Refers(c)' BY <1>1 DEF Refers, Exists
<1>6. CountsBehind(c)' BY DEF CountsBehind
<1>7. HasCause(c)' BY DEF HasCause
<1> QED BY <1>3, <1>4, <1>5, <1>6, <1>7 DEF CallOK, WellFormed

(* completeInterview up to its second read.                                *)
LEMMA CompleteInterviewStep ==
    ASSUME IInv, NEW r \in Requests, NEW i \in Interviews,
           NEW decision \in Decisions \ {"Pending"}, CompleteInterview(r, i, decision)
    PROVE  IInv' /\ RowsStay
<1>1. Exists(interviews, i) BY DEF CompleteInterview
<1>2. PICK old : old = interviews[i] OBVIOUS
<1>3. old \in InterviewRow BY <1>1, <1>2 DEF IInv, TypeOK, Exists
<1>4. PICK row : row = [old EXCEPT !.decision = decision] OBVIOUS
<1>5. /\ row \in InterviewRow /\ row.submission = old.submission
      /\ row.job = old.job /\ row.candidate = old.candidate
  BY <1>3, <1>4 DEF InterviewRow
<1>6. row # None BY <1>5, PipelineAssumption
<1>7. /\ interviews' = [interviews EXCEPT ![i] = row]
      /\ UNCHANGED <<jobs, submissions, offers, activities>>
  BY <1>2, <1>4 DEF CompleteInterview
<1>8. PICK s : s = old.submission OBVIOUS
<1>9. /\ s \in Submissions /\ Exists(submissions, s)
      /\ submissions[s].job = old.job /\ submissions[s].candidate = old.candidate
  BY <1>1, <1>2, <1>3, <1>8 DEF IInv, TablesOK, ReferencesAgree, InterviewRow
<1>10. PICK trail, type : trail = <<type>> /\ type = "interview_completed" OBVIOUS
<1>11. PICK c : c = [op |-> "complete", at |-> "reread", job |-> old.job,
                     candidate |-> old.candidate, submission |-> s, arg |-> decision,
                     round |-> 0, trail |-> trail, jobRow |-> None, submissionRow |-> None]
  OBVIOUS
<1>12. Arrive(r, c)
  <2>1. PICK n : n = NewCall("complete", "reread", trail) OBVIOUS
  <2>2. PICK m : m = [n EXCEPT !.submission = s, !.arg = decision] OBVIOUS
  <2>3. m = [op |-> "complete", at |-> "reread", job |-> None, candidate |-> None,
             submission |-> s, arg |-> decision, round |-> 0, trail |-> trail,
             jobRow |-> None, submissionRow |-> None]
    BY <2>1, <2>2 DEF NewCall
  <2>4. PICK e : e = [m EXCEPT !.job = old.job, !.candidate = old.candidate] OBVIOUS
  <2>5. e = [op |-> "complete", at |-> "reread", job |-> old.job,
             candidate |-> old.candidate, submission |-> s, arg |-> decision,
             round |-> 0, trail |-> trail, jobRow |-> None, submissionRow |-> None]
    BY <2>3, <2>4
  <2>6. c = [NewCall("complete", "reread", trail) EXCEPT
             !.submission = s, !.arg = decision, !.job = old.job, !.candidate = old.candidate]
    BY <1>11, <2>1, <2>2, <2>4, <2>5, Zenon
  <2> QED BY <1>2, <1>8, <1>10, <2>6 DEF CompleteInterview
<1>13. /\ request' = [request EXCEPT ![r] = c] /\ UNCHANGED placements
       /\ calls' \in Nat /\ aborts' \in Nat
  BY <1>12, Arrival DEF IInv
<1>14. \A t \in Submissions : InterviewsOf(t)' = InterviewsOf(t)
  BY <1>1, <1>2, <1>5, <1>6, <1>7 DEF InterviewsOf, Exists, IInv, TypeOK
<1>15. i \in InterviewsOf(s)'
  BY <1>5, <1>6, <1>7, <1>8 DEF InterviewsOf, Exists, IInv, TypeOK
<1>16. c \in Call /\ CallOK(c)'
  <2>1. type \in ActivityTypes BY <1>10 DEF ActivityTypes
  <2>2. decision \in {"Passed", "Failed", "Cancelled"} BY DEF Decisions
  <2>3. trail \in Seq(ActivityTypes) /\ trail # <<>> BY <1>10, <2>1, OneActivity
  <2> QED BY <1>7, <1>9, <1>11, <1>15, <2>2, <2>3, CompletionCall DEF IInv
<1>17. TypeOK' BY <1>5, <1>7, <1>13, <1>16 DEF IInv, TypeOK
<1>18. RowsStay BY <1>7, <1>13, <1>14 DEF RowsStay, Exists, OffersOf, IInv, TypeOK
<1>19. TablesOK'
  <2>1. ReferencesAgree'
    BY <1>1, <1>2, <1>5, <1>7 DEF IInv, TypeOK, TablesOK, ReferencesAgree, Exists
  <2>2. StatusHasCause' BY <1>7, <1>17, <1>18, CausesStay DEF IInv
  <2> QED BY <1>7, <1>13, <2>1, <2>2, CountsStill DEF TablesOK, IInv
<1> QED BY <1>13, <1>16, <1>17, <1>18, <1>19, Writing

(* The activity of an offer's new status.                                  *)
LEMMA OfferActivityType ==
    ASSUME NEW status
    PROVE  OfferActivity(status) \in {"offer_accepted", "offer_declined", "offer_sent"}
BY DEF OfferActivity

(* updateOfferStatus up to its second read.                                *)
LEMMA UpdateOfferStatusStep ==
    ASSUME IInv, NEW r \in Requests, NEW o \in Offers,
           NEW status \in OfferStatuses, UpdateOfferStatus(r, o, status)
    PROVE  IInv' /\ RowsStay
<1>1. Exists(offers, o) BY DEF UpdateOfferStatus
<1>2. PICK old : old = offers[o] OBVIOUS
<1>3. old \in OfferRow BY <1>1, <1>2 DEF IInv, TypeOK, Exists
<1>4. PICK row : row = [old EXCEPT !.status = status] OBVIOUS
<1>5. /\ row \in OfferRow /\ row.submission = old.submission
      /\ row.job = old.job /\ row.candidate = old.candidate
  BY <1>3, <1>4 DEF OfferRow
<1>6. row # None BY <1>5, PipelineAssumption
<1>7. /\ offers' = [offers EXCEPT ![o] = row]
      /\ UNCHANGED <<jobs, submissions, interviews, activities>>
  BY <1>2, <1>4 DEF UpdateOfferStatus
<1>8. PICK s : s = old.submission OBVIOUS
<1>9. /\ s \in Submissions /\ Exists(submissions, s)
      /\ submissions[s].job = old.job /\ submissions[s].candidate = old.candidate
  BY <1>1, <1>2, <1>3, <1>8 DEF IInv, TablesOK, ReferencesAgree, OfferRow
<1>10. PICK trail, type : trail = <<type>> /\ type = OfferActivity(status) OBVIOUS
<1>11. PICK c : c = [op |-> "updateOffer", at |-> "reread", job |-> old.job,
                     candidate |-> old.candidate, submission |-> s, arg |-> status,
                     round |-> 0, trail |-> trail, jobRow |-> None, submissionRow |-> None]
  OBVIOUS
<1>12. Arrive(r, c)
  <2>1. PICK n : n = NewCall("updateOffer", "reread", trail) OBVIOUS
  <2>2. PICK m : m = [n EXCEPT !.submission = s, !.arg = status] OBVIOUS
  <2>3. m = [op |-> "updateOffer", at |-> "reread", job |-> None, candidate |-> None,
             submission |-> s, arg |-> status, round |-> 0, trail |-> trail,
             jobRow |-> None, submissionRow |-> None]
    BY <2>1, <2>2 DEF NewCall
  <2>4. PICK e : e = [m EXCEPT !.job = old.job, !.candidate = old.candidate] OBVIOUS
  <2>5. e = [op |-> "updateOffer", at |-> "reread", job |-> old.job,
             candidate |-> old.candidate, submission |-> s, arg |-> status,
             round |-> 0, trail |-> trail, jobRow |-> None, submissionRow |-> None]
    BY <2>3, <2>4
  <2>6. c = [NewCall("updateOffer", "reread", trail) EXCEPT
             !.submission = s, !.arg = status, !.job = old.job, !.candidate = old.candidate]
    BY <1>11, <2>1, <2>2, <2>4, <2>5, Zenon
  <2> QED BY <1>2, <1>8, <1>10, <2>6 DEF UpdateOfferStatus
<1>13. /\ request' = [request EXCEPT ![r] = c] /\ UNCHANGED placements
       /\ calls' \in Nat /\ aborts' \in Nat
  BY <1>12, Arrival DEF IInv
<1>14. \A t \in Submissions : OffersOf(t)' = OffersOf(t)
  BY <1>1, <1>2, <1>5, <1>6, <1>7 DEF OffersOf, Exists, IInv, TypeOK
<1>15. o \in OffersOf(s)'
  BY <1>5, <1>6, <1>7, <1>8 DEF OffersOf, Exists, IInv, TypeOK
<1>16. c \in Call /\ CallOK(c)'
  <2>1. type \in ActivityTypes BY <1>10, OfferActivityType DEF ActivityTypes
  <2>2. status \in OfferStatuses OBVIOUS
  <2>3. trail \in Seq(ActivityTypes) /\ trail # <<>> BY <1>10, <2>1, OneActivity
  <2> QED BY <1>7, <1>9, <1>11, <1>15, <2>2, <2>3, CompletionCall DEF IInv
<1>17. TypeOK' BY <1>5, <1>7, <1>13, <1>16 DEF IInv, TypeOK
<1>18. RowsStay BY <1>7, <1>13, <1>14 DEF RowsStay, Exists, InterviewsOf, IInv, TypeOK
<1>19. TablesOK'
  <2>1. ReferencesAgree'
    BY <1>1, <1>2, <1>5, <1>7 DEF IInv, TypeOK, TablesOK, ReferencesAgree, Exists
  <2>2. StatusHasCause' BY <1>7, <1>17, <1>18, CausesStay DEF IInv
  <2> QED BY <1>7, <1>13, <2>1, <2>2, CountsStill DEF TablesOK, IInv
<1> QED BY <1>13, <1>16, <1>17, <1>18, <1>19, Writing

(* submissionRepository.save of the new submission.                        *)
LEMMA InsertSubmissionStep ==
    ASSUME IInv, NEW r \in Requests, NEW s \in Submissions, InsertSubmission(r, s)
    PROVE  IInv' /\ RowsStay
<1>1. PICK d : d = request[r] OBVIOUS
<1>2. /\ At(r, "insertSubmission") /\ ~Exists(submissions, s)
      /\ ~PairTaken(request[r].candidate, request[r].job)
  BY DEF InsertSubmission, FreshSubmission
<1>3. "insertSubmission" \in Steps /\ "saveJob" \in Steps BY DEF Steps
<1>4. d \in Call /\ CallOK(d) /\ d.at = "insertSubmission" BY <1>1, <1>2, <1>3, InFlight
<1>5. d.job \in Jobs /\ d.candidate \in Candidates /\ d.op = "submit" /\ Exists(jobs, d.job)
  BY <1>4 DEF CallOK, WellFormed, OnCourse, Refers
<1>6. PICK row : row = [candidate |-> d.candidate, job |-> d.job, status |-> "Submitted"]
  OBVIOUS
<1>7. row \in SubmissionRow BY <1>5, <1>6 DEF SubmissionRow, SubmissionStatuses
<1>8. row # None BY <1>7, PipelineAssumption
<1>9. /\ submissions' = [submissions EXCEPT ![s] = row]
      /\ UNCHANGED <<jobs, interviews, offers, activities, placements>>
  BY <1>1, <1>6 DEF InsertSubmission
<1>10. PICK e : e = [d EXCEPT !.at = "saveJob"] OBVIOUS
<1>11. PICK c : c = [e EXCEPT !.submission = s] OBVIOUS
<1>12. Await(r, c)
  <2>1. [d EXCEPT !.at = "saveJob", !.submission = s] = c BY <1>10, <1>11, Zenon
  <2> QED BY <1>1, <2>1 DEF InsertSubmission
<1>13. request' = [request EXCEPT ![r] = c] /\ calls' \in Nat /\ aborts' \in Nat
  BY <1>12, Moving DEF IInv
<1>14. /\ e \in Call /\ e.at = "saveJob" /\ e.op = d.op /\ e.trail = d.trail
       /\ e.job = d.job /\ e.candidate = d.candidate /\ e.submission = d.submission
       /\ e.arg = d.arg /\ e.jobRow = d.jobRow /\ e.submissionRow = d.submissionRow
  BY <1>3, <1>4, <1>10, SetAt
<1>15. /\ c \in Call /\ c.at = e.at /\ c.op = e.op /\ c.trail = e.trail
       /\ c.job = e.job /\ c.candidate = e.candidate /\ c.submission = s
       /\ c.arg = e.arg /\ c.jobRow = e.jobRow /\ c.submissionRow = e.submissionRow
  BY <1>11, <1>14, SetSubmission
<1>16. TypeOK' BY <1>7, <1>9, <1>13, <1>15 DEF IInv, TypeOK
<1>17. \A t \in Submissions : Exists(submissions, t) =>
          t # s /\ Exists(submissions', t) /\ submissions'[t] = submissions[t]
  BY <1>2, <1>9 DEF Exists, IInv, TypeOK
<1>18. submissions'[s] = row /\ Exists(submissions', s)
  BY <1>8, <1>9 DEF Exists, IInv, TypeOK
<1>19. \A t \in Submissions : t # s => submissions'[t] = submissions[t]
  BY <1>9 DEF IInv, TypeOK
<1>20. RowsStay
  BY <1>9, <1>17 DEF RowsStay, Exists, InterviewsOf, OffersOf, IInv, TypeOK
<1>21. Cardinality(SubmissionsOf(d.job)') = Cardinality(SubmissionsOf(d.job)) + 1
  <2>1. SubmissionsOf(d.job)' = SubmissionsOf(d.job) \cup {s}
    BY <1>6, <1>17, <1>18, <1>19 DEF SubmissionsOf, Exists
  <2>2. s \notin SubmissionsOf(d.job) BY <1>2 DEF SubmissionsOf
  <2> QED BY <2>1, <2>2, Countable, FS_AddElement
<1>22. TablesOK'
  <2>1. ReferencesAgree'
    <3>1. Exists(jobs, row.job) BY <1>5, <1>6
    <3>2. ASSUME NEW i \in Interviews, Exists(interviews, i)
          PROVE  interviews[i].submission \in Submissions
      BY <3>2 DEF IInv, TypeOK, Exists, InterviewRow
    <3>3. ASSUME NEW o \in Offers, Exists(offers, o)
          PROVE  offers[o].submission \in Submissions
      BY <3>3 DEF IInv, TypeOK, Exists, OfferRow
    <3> QED BY <1>9, <1>17, <1>18, <1>19, <3>1, <3>2, <3>3
            DEF IInv, TablesOK, ReferencesAgree, Exists
  <2>2. OneSubmissionPerPair'
    <3>1. ASSUME NEW t \in Submissions, t # s, Exists(submissions', t)
          PROVE  ~(submissions'[t].candidate = row.candidate /\ submissions'[t].job = row.job)
      BY <1>1, <1>2, <1>6, <1>19, <3>1 DEF PairTaken, Exists
    <3> QED BY <1>17, <1>18, <1>19, <3>1 DEF IInv, TablesOK, OneSubmissionPerPair, Exists
  <2>3. SubmissionCountSound'
    <3> SUFFICES ASSUME NEW j \in Jobs, Exists(jobs, j)
                 PROVE  jobs[j].submissionCount <= Cardinality(SubmissionsOf(j)')
      BY <1>9 DEF SubmissionCountSound, Exists
    <3>1. jobs[j].submissionCount \in Nat BY DEF IInv, TypeOK, Exists, JobRow
    <3>2. Cardinality(SubmissionsOf(j)) \in Nat BY Countable
    <3>3. Cardinality(SubmissionsOf(j)') \in Nat
      <4>1. SubmissionsOf(j)' \subseteq Submissions BY DEF SubmissionsOf
      <4> QED BY <4>1, PipelineAssumption, FS_Subset, FS_CardinalityType
    <3>4. Cardinality(SubmissionsOf(j)) <= Cardinality(SubmissionsOf(j)')
      BY <1>20, SubmissionsGrow
    <3>5. jobs[j].submissionCount <= Cardinality(SubmissionsOf(j))
      BY DEF IInv, TablesOK, SubmissionCountSound
    <3> QED BY <3>1, <3>2, <3>3, <3>4, <3>5
  <2>4. PlacementCountSound'
    BY <1>9 DEF IInv, TablesOK, PlacementCountSound, Exists
  <2>5. StatusHasCause'
    <3> SUFFICES ASSUME NEW t \in Submissions, Exists(submissions, t)'
                 PROVE  Caused(t, submissions[t].status)'
      BY DEF StatusHasCause
    <3>1. CASE t = s BY <1>6, <1>18, <3>1 DEF Caused
    <3>2. CASE t # s
      <4>1. PICK status : status = submissions[t].status OBVIOUS
      <4>2. Exists(submissions, t) /\ submissions'[t].status = status
        BY <1>19, <3>2, <4>1 DEF Exists
      <4>3. Caused(t, status) BY <4>1, <4>2 DEF IInv, TablesOK, StatusHasCause
      <4>4. Caused(t, status)' BY <1>16, <1>20, <4>2, <4>3, CauseStays DEF IInv
      <4> QED BY <4>2, <4>4, Zenon DEF Caused
    <3> QED BY <3>1, <3>2
  <2> QED BY <2>1, <2>2, <2>3, <2>4, <2>5 DEF TablesOK
<1>23. CallOK(c)'
  <2>1. WellFormed(c)
    BY <1>4, <1>5, <1>14, <1>15, PipelineAssumption DEF CallOK, WellFormed, OnCourse
  <2>2. c.submissionRow = None BY <1>4, <1>5, <1>14, <1>15 DEF CallOK, WellFormed
  <2>3. Refers(c)' BY <1>5, <1>6, <1>9, <1>14, <1>15, <1>18, <2>2 DEF Refers, Exists
  <2>4. CountsBehind(c)'
    <3>1. d.jobRow \in JobRow /\ d.jobRow # None
      BY <1>4 DEF Call, CallOK, WellFormed
    <3>2. /\ d.jobRow.submissionCount <= Cardinality(SubmissionsOf(d.job)) + 1
          /\ d.jobRow.placementCount <= placements[d.job]
      BY <1>4, <1>5, <3>1 DEF CallOK, CountsBehind, JobRow, IInv, TypeOK
    <3>3. placements'[d.job] = placements[d.job] BY <1>9
    <3>4. c.jobRow = d.jobRow /\ c.job = d.job /\ c.at = "saveJob" BY <1>14, <1>15
    <3>5. Cardinality(SubmissionsOf(d.job)) \in Nat /\ placements[d.job] \in Nat
      BY <1>5, Countable DEF IInv, TypeOK
    <3> QED BY <1>21, <3>1, <3>2, <3>3, <3>4, <3>5 DEF CountsBehind, JobRow
  <2>5. HasCause(c)' BY <1>5, <1>14, <1>15 DEF HasCause
  <2> QED BY <2>1, <2>3, <2>4, <2>5 DEF CallOK, WellFormed
<1> QED BY <1>13, <1>16, <1>20, <1>22, <1>23, Writing

(* submissionRepository.save of a row read earlier.                        *)
LEMMA SaveSubmissionStep ==
    ASSUME IInv, NEW r \in Requests, SaveSubmission(r)
    PROVE  IInv' /\ RowsStay
<1>1. PICK d : d = request[r] OBVIOUS
<1>2. At(r, "saveSubmission") BY DEF SaveSubmission
<1>3. /\ "saveSubmission" \in Steps /\ "saveJob" \in Steps /\ "log" \in Steps
  BY DEF Steps
<1>4. d \in Call /\ CallOK(d) /\ d.at = "saveSubmission" BY <1>1, <1>2, <1>3, InFlight
<1>5. PICK s, row : s = d.submission /\ row = d.submissionRow OBVIOUS
<1>6. /\ s \in Submissions /\ d.job \in Jobs /\ d.candidate \in Candidates
      /\ d.op \notin {"createJob", "editJob", "submit"} /\ s # None
  BY <1>4, <1>5, PipelineAssumption DEF CallOK, WellFormed, OnCourse
<1>7. row \in SubmissionRow /\ row # None
  BY <1>4, <1>5 DEF Call, CallOK, WellFormed
<1>8. /\ Exists(submissions, s) /\ Exists(jobs, d.job)
      /\ row.job = d.job /\ row.candidate = d.candidate
      /\ submissions[s].job = d.job /\ submissions[s].candidate = d.candidate
  BY <1>4, <1>5, <1>6, <1>7 DEF CallOK, Refers
<1>9. /\ submissions' = [submissions EXCEPT ![s] = row]
      /\ UNCHANGED <<jobs, interviews, offers, activities>>
  BY <1>1, <1>5 DEF SaveSubmission
<1>10. placements' = IF d.op = "place" THEN [placements EXCEPT ![d.job] = @ + 1] ELSE placements
  BY <1>1 DEF SaveSubmission
<1>11. PICK at : at = IF d.op = "place" THEN "saveJob" ELSE "log" OBVIOUS
<1>12. PICK c : c = [d EXCEPT !.at = at] OBVIOUS
<1>13. Await(r, c) BY <1>1, <1>11, <1>12 DEF SaveSubmission
<1>14. request' = [request EXCEPT ![r] = c] /\ calls' \in Nat /\ aborts' \in Nat
  BY <1>13, Moving DEF IInv
<1>15. /\ c \in Call /\ c.at = at /\ c.op = d.op /\ c.trail = d.trail
       /\ c.job = d.job /\ c.candidate = d.candidate /\ c.submission = s
       /\ c.arg = d.arg /\ c.jobRow = d.jobRow /\ c.submissionRow = row
  BY <1>3, <1>4, <1>5, <1>11, <1>12, SetAt
<1>16. /\ placements' \in [Jobs -> Nat]
       /\ \A j \in Jobs : placements[j] <= placements'[j]
       /\ d.op = "place" => placements'[d.job] = placements[d.job] + 1
  BY <1>6, <1>10 DEF IInv, TypeOK
<1>17. TypeOK' BY <1>7, <1>9, <1>14, <1>15, <1>16 DEF IInv, TypeOK
<1>18. submissions'[s] = row /\ Exists(submissions', s)
  BY <1>6, <1>7, <1>9 DEF Exists, IInv, TypeOK
<1>19. \A t \in Submissions : t # s => submissions'[t] = submissions[t]
  BY <1>9 DEF IInv, TypeOK
<1>20. \A t \in Submissions :
          /\ Exists(submissions', t) <=> Exists(submissions, t)
          /\ Exists(submissions, t) => /\ submissions'[t].job = submissions[t].job
                                       /\ submissions'[t].candidate = submissions[t].candidate
  BY <1>8, <1>18, <1>19 DEF Exists
<1>21. RowsStay
  BY <1>9, <1>16, <1>20 DEF RowsStay, Exists, InterviewsOf, OffersOf
<1>22. TablesOK'
  <2>1. ReferencesAgree'
    <3>1. ASSUME NEW i \in Interviews, Exists(interviews, i)
          PROVE  interviews[i].submission \in Submissions
      BY <3>1 DEF IInv, TypeOK, Exists, InterviewRow
    <3>2. ASSUME NEW o \in Offers, Exists(offers, o)
          PROVE  offers[o].submission \in Submissions
      BY <3>2 DEF IInv, TypeOK, Exists, OfferRow
    <3> QED BY <1>9, <1>20, <3>1, <3>2 DEF IInv, TablesOK, ReferencesAgree, Exists
  <2>2. OneSubmissionPerPair'
    BY <1>20 DEF IInv, TablesOK, OneSubmissionPerPair, Exists
  <2>3. \A j : SubmissionsOf(j)' = SubmissionsOf(j)
    BY <1>20 DEF SubmissionsOf, Exists
  <2>4. SubmissionCountSound'
    BY <1>9, <2>3 DEF IInv, TablesOK, SubmissionCountSound, Exists
  <2>5. PlacementCountSound'
    <3> SUFFICES ASSUME NEW j \in Jobs, Exists(jobs, j)
                 PROVE  jobs[j].placementCount <= placements'[j]
      BY <1>9 DEF PlacementCountSound, Exists
    <3>1. /\ jobs[j].placementCount \in Nat /\ placements[j] \in Nat /\ placements'[j] \in Nat
          /\ placements[j] <= placements'[j]
      BY <1>16 DEF IInv, TypeOK, Exists, JobRow
    <3>2. jobs[j].placementCount <= placements[j] BY DEF IInv, TablesOK, PlacementCountSound
    <3> QED BY <3>1, <3>2
  <2>6. StatusHasCause'
    <3> SUFFICES ASSUME NEW t \in Submissions, Exists(submissions, t)'
                 PROVE  Caused(t, submissions[t].status)'
      BY DEF StatusHasCause
    <3>1. CASE t = s /\ d.op # "place"
      <4>1. PICK status : status = row.status OBVIOUS
      <4>2. Caused(s, status) BY <1>4, <1>5, <3>1, <4>1 DEF CallOK, HasCause
      <4>3. Caused(s, status)' BY <1>6, <1>8, <1>17, <1>21, <4>2, CauseStays DEF IInv
      <4>4. submissions'[t].status = status /\ t = s BY <1>18, <3>1, <4>1
      <4> QED BY <4>3, <4>4, Zenon DEF Caused
    <3>2. CASE t = s /\ d.op = "place"
      <4>1. row.status = "Placed" BY <1>4, <1>5, <3>2 DEF CallOK, HasCause
      <4>2. placements[d.job] \in Nat BY <1>6 DEF IInv, TypeOK
      <4>3. placements'[d.job] > 0 BY <1>16, <3>2, <4>2
      <4> QED BY <1>8, <1>18, <3>2, <4>1, <4>3 DEF Caused
    <3>3. CASE t # s
      <4>1. PICK status : status = submissions[t].status OBVIOUS
      <4>2. Exists(submissions, t) /\ submissions'[t].status = status
        BY <1>19, <3>3, <4>1 DEF Exists
      <4>3. Caused(t, status) BY <4>1, <4>2 DEF IInv, TablesOK, StatusHasCause
      <4>4. Caused(t, status)' BY <1>17, <1>21, <4>2, <4>3, CauseStays DEF IInv
      <4> QED BY <4>2, <4>4, Zenon DEF Caused
    <3> QED BY <3>1, <3>2, <3>3
  <2> QED BY <2>1, <2>2, <2>4, <2>5, <2>6 DEF TablesOK
<1>23. CallOK(c)'
  <2>1. WellFormed(c)
    BY <1>4, <1>5, <1>6, <1>7, <1>11, <1>15 DEF CallOK, WellFormed, OnCourse
  <2>2. Refers(c)' BY <1>8, <1>9, <1>15, <1>18 DEF Refers, Exists
  <2>3. CountsBehind(c)'
    <3> SUFFICES ASSUME d.jobRow # None PROVE CountsBehind(c)' BY <1>15 DEF CountsBehind
    <3>1. d.jobRow \in JobRow BY <1>4 DEF Call
    <3>2. SubmissionsOf(d.job)' = SubmissionsOf(d.job)
      BY <1>20 DEF SubmissionsOf, Exists
    <3>3. Cardinality(SubmissionsOf(d.job)) \in Nat /\ placements[d.job] \in Nat
          /\ placements'[d.job] \in Nat
      BY <1>6, <1>16, Countable DEF IInv, TypeOK
    <3>4. /\ d.jobRow.submissionCount <= Cardinality(SubmissionsOf(d.job))
          /\ d.jobRow.placementCount <= placements[d.job] + 1
      BY <1>4, <3>1, <3>3 DEF CallOK, CountsBehind, JobRow
    <3>5. d.op = "place"
      BY <1>4, <1>6 DEF CallOK, WellFormed
    <3>6. c.jobRow = d.jobRow /\ c.job = d.job /\ c.at = "saveJob"
      BY <1>11, <1>15, <3>5
    <3> QED BY <1>16, <3>1, <3>2, <3>3, <3>4, <3>5, <3>6 DEF CountsBehind, JobRow
  <2>4. HasCause(c)'
    BY <1>4, <1>5, <1>6, <1>11, <1>15 DEF CallOK, HasCause
  <2> QED BY <2>1, <2>2, <2>3, <2>4 DEF CallOK, WellFormed
<1> QED BY <1>14, <1>17, <1>21, <1>22, <1>23, Writing

-----------------------------------------------------------------------------
(* The invariant and what follows from it.                                 *)

(* The invariant holds of the empty tables.                                *)
LEMMA InitIInv == Init => IInv
<1> SUFFICES ASSUME Init PROVE IInv OBVIOUS
<1>1. TypeOK BY DEF Init, TypeOK
<1>2. TablesOK
  BY DEF Init, TablesOK, ReferencesAgree, OneSubmissionPerPair, SubmissionCountSound,
         PlacementCountSound, StatusHasCause, Exists
<1>3. CallsOK BY DEF Init, CallsOK
<1> QED BY <1>1, <1>2, <1>3 DEF IInv

(* Every step keeps the invariant and the rows: one lemma per operation,   *)
(* above.                                                                  *)
LEMMA NextKeepsRows == IInv /\ [Next]_vars => IInv' /\ RowsStay
<1> SUFFICES ASSUME IInv, [Next]_vars PROVE IInv' /\ RowsStay OBVIOUS
<1>1. ASSUME NEW r \in Requests, JobRequest(r) PROVE IInv' /\ RowsStay
  <2>1. PICK j \in Jobs :
          \/ \E status \in JobPatches : CreateJob(r, j, status) \/ UpdateJob(r, j, status)
          \/ ReviewField(r, j)
          \/ MarkReady(r, j)
          \/ SoftDelete(r, j)
          \/ \E c \in Candidates : SubmitCandidate(r, j, c)
    BY <1>1 DEF JobRequest
  <2>2. ASSUME JobFound(j) PROVE jobs[j] \in JobRow
    BY <2>2 DEF JobFound, Exists, IInv, TypeOK
  <2>3. ASSUME NEW status \in JobPatches, CreateJob(r, j, status) PROVE IInv' /\ RowsStay
    BY <2>3, CreateJobStep
  <2>4. ASSUME NEW status \in JobPatches, UpdateJob(r, j, status) PROVE IInv' /\ RowsStay
    <3>1. PICK row : row = [jobs[j] EXCEPT !.status = status] OBVIOUS
    <3>2. EditJob(r, j, row) /\ JobFound(j) BY <2>4, <3>1 DEF UpdateJob, EditJob
    <3>3. status \in JobStatuses BY PipelineAssumption
    <3>4. /\ row \in JobRow /\ row.submissionCount = jobs[j].submissionCount
          /\ row.placementCount = jobs[j].placementCount
      BY <2>2, <3>1, <3>2, <3>3 DEF JobRow
    <3> QED BY <3>2, <3>4, EditJobStep
  <2>5. ASSUME ReviewField(r, j) PROVE IInv' /\ RowsStay
    <3>1. EditJob(r, j, jobs[j]) /\ JobFound(j) BY <2>5 DEF ReviewField, EditJob
    <3> QED BY <2>2, <3>1, EditJobStep
  <2>6. ASSUME MarkReady(r, j) PROVE IInv' /\ RowsStay
    <3>1. PICK status : status = IF jobs[j].status = "Draft" THEN "Open" ELSE jobs[j].status
      OBVIOUS
    <3>2. PICK row : row = [jobs[j] EXCEPT !.status = status] OBVIOUS
    <3>3. EditJob(r, j, row) /\ JobFound(j)
      BY <2>6, <3>1, <3>2 DEF MarkReady, EditJob
    <3>4. status \in JobStatuses BY <2>2, <3>1, <3>3 DEF JobRow, JobStatuses
    <3>5. /\ row \in JobRow /\ row.submissionCount = jobs[j].submissionCount
          /\ row.placementCount = jobs[j].placementCount
      BY <2>2, <3>2, <3>3, <3>4 DEF JobRow
    <3> QED BY <3>3, <3>5, EditJobStep
  <2>7. ASSUME SoftDelete(r, j) PROVE IInv' /\ RowsStay
    <3>1. PICK gone : gone = [jobs[j] EXCEPT !.deleted = TRUE] OBVIOUS
    <3>2. PICK row : row = [gone EXCEPT !.status = "Closed"] OBVIOUS
    <3>3. EditJob(r, j, row) /\ JobFound(j)
      BY <2>7, <3>1, <3>2 DEF SoftDelete, EditJob
    <3>4. /\ gone \in JobRow /\ gone.submissionCount = jobs[j].submissionCount
          /\ gone.placementCount = jobs[j].placementCount
      BY <2>2, <3>1, <3>3 DEF JobRow
    <3>5. /\ row \in JobRow /\ row.submissionCount = jobs[j].submissionCount
          /\ row.placementCount = jobs[j].placementCount
      BY <3>2, <3>4 DEF JobRow, JobStatuses
    <3> QED BY <3>3, <3>5, EditJobStep
  <2>8. ASSUME NEW c \in Candidates, SubmitCandidate(r, j, c) PROVE IInv' /\ RowsStay
    BY <2>8, SubmitCandidateStep
  <2> QED BY <2>1, <2>3, <2>4, <2>5, <2>6, <2>7, <2>8
<1>2. ASSUME NEW r \in Requests, RecruitmentRequest(r) PROVE IInv' /\ RowsStay
  <2>1. ASSUME NEW s \in Submissions, NEW status \in PatchStatuses, UpdateStatus(r, s, status)
        PROVE  IInv' /\ RowsStay
    <3>1. PICK trail : trail = <<"status_changed">> OBVIOUS
    <3>2. trail \in Seq(ActivityTypes) /\ trail # <<>>
      BY <3>1, OneActivity DEF ActivityTypes
    <3> QED BY <2>1, <3>1, <3>2, SetStatusStep DEF UpdateStatus
  <2>2. ASSUME NEW s \in Submissions, Reject(r, s) PROVE IInv' /\ RowsStay
    <3>1. PICK trail, status : trail = <<"status_changed", "rejected">> /\ status = "Rejected"
      OBVIOUS
    <3>2. trail \in Seq(ActivityTypes) /\ trail # <<>> BY <3>1 DEF ActivityTypes
    <3>3. SetStatus(r, s, status, trail) BY <2>2, <3>1 DEF Reject
    <3>4. status \in PatchStatuses \cup {"Rejected", "Withdrawn"} BY <3>1
    <3> QED BY <3>2, <3>3, <3>4, SetStatusStep
  <2>3. ASSUME NEW s \in Submissions, Withdraw(r, s) PROVE IInv' /\ RowsStay
    <3>1. PICK trail, status : trail = <<"status_changed", "withdrawn">> /\ status = "Withdrawn"
      OBVIOUS
    <3>2. trail \in Seq(ActivityTypes) /\ trail # <<>> BY <3>1 DEF ActivityTypes
    <3>3. SetStatus(r, s, status, trail) BY <2>3, <3>1 DEF Withdraw
    <3>4. status \in PatchStatuses \cup {"Rejected", "Withdrawn"} BY <3>1
    <3> QED BY <3>2, <3>3, <3>4, SetStatusStep
  <2> QED BY <1>2, <2>1, <2>2, <2>3, ScheduleInterviewStep, CreateOfferStep, MarkPlacedStep,
             CompleteInterviewStep, UpdateOfferStatusStep
          DEF RecruitmentRequest
<1>3. ASSUME NEW r \in Requests, Continue(r) PROVE IInv' /\ RowsStay
  BY <1>3, FindDuplicateStep, InsertSubmissionStep, EndStep, CountInterviewsStep,
     InsertInterviewStep, InsertOfferStep, RereadStep, ReadJobStep, SaveSubmissionStep,
     SaveJobStep, AppendActivityStep
  DEF Continue
<1>4. CASE UNCHANGED vars
  <2>1. TypeOK' BY <1>4 DEF IInv, TypeOK, vars, tables
  <2>2. TablesOK' /\ RowsStay BY <1>4, TablesStill DEF IInv, vars
  <2>3. CallsOK'
    <3> SUFFICES ASSUME NEW r \in Requests, request'[r] # None PROVE CallOK(request[r])'
      BY DEF CallsOK
    <3>1. PICK d : d = request[r] OBVIOUS
    <3>2. d \in Call /\ CallOK(d) /\ request'[r] = d
      BY <1>4, <3>1 DEF IInv, TypeOK, CallsOK, vars
    <3>3. CallOK(d)' BY <2>1, <2>2, <3>2, CallStays DEF IInv
    <3> QED BY <3>2, <3>3
  <2> QED BY <2>1, <2>2, <2>3 DEF IInv
<1> QED BY <1>1, <1>2, <1>3, <1>4 DEF Next

(* Every step keeps the invariant.                                         *)
LEMMA NextIInv == IInv /\ [Next]_vars => IInv'
<1> QED BY NextKeepsRows

(* So it holds in every reachable state.                                   *)
LEMMA Invariance == Spec => []IInv
<1> QED BY InitIInv, NextIInv, PTL DEF Spec

(* Every row and every request in flight keeps its type.                   *)
THEOREM TypeCorrect == Spec => []TypeOK
<1>1. IInv => TypeOK BY DEF IInv
<1> QED BY <1>1, Invariance, PTL

(* A pair of a candidate and a job has one submission, however many        *)
(* requests submit it at a time.                                           *)
THEOREM UniqueSubmission == Spec => []OneSubmissionPerPair
<1>1. IInv => OneSubmissionPerPair BY DEF IInv, TablesOK
<1> QED BY <1>1, Invariance, PTL

(* A job never counts more submissions than it has, nor more placements    *)
(* than were written.                                                      *)
THEOREM CountsStaySound == Spec => []CountsSound
<1>1. IInv => CountsSound BY DEF IInv, TablesOK, CountsSound
<1> QED BY <1>1, Invariance, PTL

(* Interviews and offers agree with their submission on job and candidate. *)
THEOREM ReferencesHold == Spec => []ReferencesAgree
<1>1. IInv => ReferencesAgree BY DEF IInv, TablesOK
<1> QED BY <1>1, Invariance, PTL

(* Every status has its cause in the tables.                               *)
THEOREM CauseFirst == Spec => []StatusHasCause
<1>1. IInv => StatusHasCause BY DEF IInv, TablesOK
<1> QED BY <1>1, Invariance, PTL

-----------------------------------------------------------------------------
(* The timeline.  Every row that a handler inserts owes its activity to    *)
(* that handler, so the requests between the two are counted with the      *)
(* activities.                                                             *)

(* The handlers whose activity reports a new row, and what they report.    *)
Reporters == {"submit", "schedule", "createOffer"}
ReportTypes == {"candidate_submitted", "interview_scheduled", "offer_created"}
Reports(op) ==
    IF op = "submit" THEN "candidate_submitted"
    ELSE IF op = "schedule" THEN "interview_scheduled" ELSE "offer_created"

(* A reporter appends its one activity, and nobody else appends it.        *)
OwnTrail(c) ==
    /\ c.op \in Reporters => c.trail = <<Reports(c.op)>>
    /\ c.op \notin Reporters => \A n \in 1..Len(c.trail) : c.trail[n] \notin ReportTypes

Owes(c, op, s) ==
    c # None /\ c.op = op /\ c.submission = s /\ c.at \in {"saveSubmission", "saveJob", "log"}

Weight(c, op, s) == IF Owes(c, op, s) THEN 1 ELSE 0

Running == {r \in Requests : request[r] # None}

(* The rows of submission s that op inserts.                               *)
Inserted(op, s) ==
    IF op = "submit" THEN IF Exists(submissions, s) THEN 1 ELSE 0
    ELSE IF op = "schedule" THEN Cardinality(InterviewsOf(s)) ELSE Cardinality(OffersOf(s))

Countably ==
    /\ IsFiniteSet(Running)
    /\ \A s \in Submissions : IsFiniteSet(OffersOf(s))

Accounted(op, s) == activities[<<s, Reports(op)>>] + Cardinality(Unlogged(op, s)) = Inserted(op, s)

TraceInv ==
    /\ Countably
    /\ \A r \in Requests : request[r] # None => OwnTrail(request[r])
    /\ aborts = 0 => \A op \in Reporters, s \in Submissions : Accounted(op, s)

(* The slot r holds c where it held old.                                   *)
Turns(r, old, c) ==
    r \in Requests /\ old = request[r] /\ request' = [request EXCEPT ![r] = c]

(* The tables hold the same rows of every submission.                      *)
SameRows ==
    /\ \A s \in Submissions :
          /\ Exists(submissions', s) <=> Exists(submissions, s)
          /\ InterviewsOf(s)' = InterviewsOf(s)
          /\ OffersOf(s)' = OffersOf(s)
    /\ activities' = activities

(* What the step of a request adds to the rows it adds to the activities   *)
(* or to what the request owes.                                            *)
Settles(old, c, op, s) ==
    /\ activities[<<s, Reports(op)>>] \in Nat /\ activities'[<<s, Reports(op)>>] \in Nat
    /\ Inserted(op, s) \in Nat /\ Inserted(op, s)' \in Nat
    /\ activities'[<<s, Reports(op)>>] + Weight(c, op, s) + Inserted(op, s)
           = activities[<<s, Reports(op)>>] + Weight(old, op, s) + Inserted(op, s)'

(* A request that goes on to await c is counted by what it owes then.      *)
LEMMA UnloggedMoves ==
    ASSUME TypeOK, IsFiniteSet(Running), NEW r, NEW old, NEW c, Turns(r, old, c),
           NEW op, NEW s
    PROVE  /\ Cardinality(Unlogged(op, s)) \in Nat /\ Cardinality(Unlogged(op, s)') \in Nat
           /\ Cardinality(Unlogged(op, s)') + Weight(old, op, s)
                  = Cardinality(Unlogged(op, s)) + Weight(c, op, s)
<1>1. PICK S : S = Unlogged(op, s) OBVIOUS
<1>2. S \subseteq Running BY <1>1 DEF Unlogged, Running
<1>3. IsFiniteSet(S) BY <1>2, FS_Subset
<1>4. Cardinality(S) \in Nat BY <1>3, FS_CardinalityType
<1>5. PICK N : N = Unlogged(op, s)' OBVIOUS
<1>6. /\ request'[r] = c
      /\ \A q \in Requests : q # r => request'[q] = request[q]
  BY DEF TypeOK, Turns
<1>7. r \in S <=> Owes(old, op, s) BY <1>1 DEF Unlogged, Owes, Turns
<1>8. r \in N <=> Owes(c, op, s) BY <1>5, <1>6 DEF Unlogged, Owes, Turns
<1>9. \A q : q # r => (q \in N <=> q \in S) BY <1>1, <1>5, <1>6 DEF Unlogged
<1>10. CASE Owes(c, op, s)
  <2>1. N = S \cup {r} BY <1>8, <1>9, <1>10
  <2>2. Cardinality(N) = IF r \in S THEN Cardinality(S) ELSE Cardinality(S) + 1
    BY <1>3, <2>1, FS_AddElement
  <2> QED BY <1>1, <1>4, <1>5, <1>7, <1>10, <2>2 DEF Weight
<1>11. CASE ~Owes(c, op, s)
  <2>1. N = S \ {r} BY <1>8, <1>9, <1>11
  <2>2. Cardinality(N) = IF r \in S THEN Cardinality(S) - 1 ELSE Cardinality(S)
    BY <1>3, <2>1, FS_RemoveElement
  <2>3. r \in S => Cardinality(S) > 0 BY <1>3, <1>4, FS_EmptySet
  <2> QED BY <1>1, <1>4, <1>5, <1>7, <1>11, <2>2, <2>3 DEF Weight
<1> QED BY <1>10, <1>11

(* What a request inserted can be counted.                                 *)
LEMMA InsertedCounted ==
    ASSUME TypeOK, Countably, NEW op \in Reporters, NEW s \in Submissions
    PROVE  Inserted(op, s) \in Nat /\ activities[<<s, Reports(op)>>] \in Nat
<1>1. IsFiniteSet(InterviewsOf(s)) BY Countable
<1>2. Cardinality(InterviewsOf(s)) \in Nat /\ Cardinality(OffersOf(s)) \in Nat
  BY <1>1, FS_CardinalityType DEF Countably
<1>3. Reports(op) \in ActivityTypes BY DEF Reports, ActivityTypes
<1> QED BY <1>2, <1>3 DEF Inserted, TypeOK, Subjects

(* A step that settles what it adds keeps the timeline told.               *)
LEMMA SettledStep ==
    ASSUME TypeOK, TraceInv, NEW r, NEW old, NEW c, Turns(r, old, c),
           c # None => OwnTrail(c), NEW o,
           \A s \in Submissions : OffersOf(s)' \subseteq OffersOf(s) \cup {o},
           \/ aborts' # 0
           \/ aborts' = aborts /\ \A op \in Reporters, s \in Submissions : Settles(old, c, op, s)
    PROVE  TraceInv'
<1>1. /\ request'[r] = c
      /\ \A q \in Requests : q # r => request'[q] = request[q]
  BY DEF TypeOK, Turns
<1>2. IsFiniteSet(Running \cup {r}) BY FS_AddElement DEF TraceInv, Countably
<1>3. Running' \subseteq Running \cup {r} BY <1>1 DEF Running
<1>4. IsFiniteSet(Running') BY <1>2, <1>3, FS_Subset
<1>5. ASSUME NEW s \in Submissions PROVE IsFiniteSet(OffersOf(s)')
  <2>1. IsFiniteSet(OffersOf(s) \cup {o}) BY FS_AddElement DEF TraceInv, Countably
  <2> QED BY <2>1, FS_Subset
<1>6. Countably' BY <1>4, <1>5 DEF Countably
<1>7. ASSUME NEW q \in Requests, request'[q] # None PROVE OwnTrail(request'[q])
  BY <1>1, <1>7 DEF TraceInv
<1>8. ASSUME aborts' = 0, NEW op \in Reporters, NEW s \in Submissions PROVE Accounted(op, s)'
  <2>1. Accounted(op, s) BY <1>8 DEF TraceInv
  <2>2. Settles(old, c, op, s) BY <1>8
  <2>3. /\ Cardinality(Unlogged(op, s)) \in Nat /\ Cardinality(Unlogged(op, s)') \in Nat
        /\ Cardinality(Unlogged(op, s)') + Weight(old, op, s)
               = Cardinality(Unlogged(op, s)) + Weight(c, op, s)
    BY UnloggedMoves DEF TraceInv, Countably
  <2>4. Weight(old, op, s) \in {0, 1} /\ Weight(c, op, s) \in {0, 1} BY DEF Weight
  <2> QED BY <2>1, <2>2, <2>3, <2>4 DEF Accounted, Settles
<1> QED BY <1>6, <1>7, <1>8 DEF TraceInv, OwnTrail

(* A step that inserts and appends nothing settles when the request owes   *)
(* what it owed before.                                                    *)
LEMMA QuietStep ==
    ASSUME TypeOK, TraceInv, NEW r, NEW old, NEW c, Turns(r, old, c),
           c # None => OwnTrail(c), SameRows,
           \/ aborts' # 0
           \/ /\ aborts' = aborts
              /\ \A op \in Reporters, s \in Submissions : Weight(c, op, s) = Weight(old, op, s)
    PROVE  TraceInv'
<1>1. \A s \in Submissions : OffersOf(s)' \subseteq OffersOf(s) \cup {r} BY DEF SameRows
<1>2. ASSUME aborts' = aborts, NEW op \in Reporters, NEW s \in Submissions,
             Weight(c, op, s) = Weight(old, op, s)
      PROVE  Settles(old, c, op, s)
  <2>1. Inserted(op, s) \in Nat /\ activities[<<s, Reports(op)>>] \in Nat
    BY InsertedCounted DEF TraceInv
  <2>2. Inserted(op, s)' = Inserted(op, s) BY DEF Inserted, SameRows, Exists
  <2>3. activities' = activities BY DEF SameRows
  <2>4. Weight(old, op, s) \in {0, 1} BY DEF Weight
  <2> QED BY <1>2, <2>1, <2>2, <2>3, <2>4 DEF Settles
<1> QED BY <1>1, <1>2, SettledStep

(* A request that arrives owes nothing yet.                                *)
LEMMA ArrivesQuiet ==
    ASSUME TypeOK, TraceInv, NEW r \in Requests, NEW c, Arrive(r, c), SameRows, OwnTrail(c),
           c.op \notin Reporters \/ c.at \notin {"saveSubmission", "saveJob", "log"}
    PROVE  TraceInv'
<1>1. Turns(r, None, c) /\ aborts' = aborts BY DEF Arrive, Turns
<1>2. ASSUME NEW op \in Reporters, NEW s \in Submissions
      PROVE  Weight(c, op, s) = Weight(None, op, s)
  BY DEF Weight, Owes
<1> QED BY <1>1, <1>2, QuietStep

(* One that goes on owes what it owed.                                     *)
LEMMA GoesOnQuiet ==
    ASSUME IInv, TraceInv, NEW r \in Requests, NEW c, request[r] # None, Await(r, c), SameRows,
           LET d == request[r] IN
           \/ /\ d.op \notin Reporters \/ d.at \notin {"saveSubmission", "saveJob", "log"}
              /\ \/ c = None
                 \/ /\ c.op = d.op /\ c.trail = d.trail
                    /\ c.op \notin Reporters \/ c.at \notin {"saveSubmission", "saveJob", "log"}
           \/ /\ c # None /\ c.op = d.op /\ c.trail = d.trail /\ c.submission = d.submission
              /\ d.at \in {"saveSubmission", "saveJob", "log"}
              /\ c.at \in {"saveSubmission", "saveJob", "log"}
    PROVE  TraceInv'
<1>1. PICK d : d = request[r] OBVIOUS
<1>2. Turns(r, d, c) /\ aborts' = aborts BY <1>1 DEF Await, Turns
<1>3. OwnTrail(d) BY <1>1 DEF TraceInv
<1>4. c # None => OwnTrail(c) BY <1>1, <1>3 DEF OwnTrail
<1>5. ASSUME NEW op \in Reporters, NEW s \in Submissions
      PROVE  Weight(c, op, s) = Weight(d, op, s)
  BY <1>1 DEF Weight, Owes
<1> QED BY <1>2, <1>4, <1>5, QuietStep DEF IInv

(* Steps that leave the rows of submissions, interviews and offers alone.  *)
LEMMA SameTables ==
    ASSUME UNCHANGED <<submissions, interviews, offers, activities>>
    PROVE  SameRows
BY DEF SameRows, Exists, InterviewsOf, OffersOf

(* A request to a job reports nothing before it has inserted a row.        *)
LEMMA JobRequestTraced ==
    ASSUME IInv, TraceInv, NEW r \in Requests, JobRequest(r)
    PROVE  TraceInv'
<1>1. ASSUME NEW j \in Jobs, NEW row, EditJob(r, j, row) PROVE TraceInv'
  <2>1. PICK c : c = [NewCall("editJob", "saveJob", <<>>) EXCEPT !.job = j, !.jobRow = row]
    OBVIOUS
  <2>2. c.op = "editJob" /\ c.trail = <<>> BY <2>1 DEF NewCall
  <2>3. OwnTrail(c) BY <2>2 DEF OwnTrail, Reporters
  <2>4. Arrive(r, c) /\ SameRows BY <1>1, <2>1, SameTables DEF EditJob, tables
  <2> QED BY <2>2, <2>3, <2>4, ArrivesQuiet DEF IInv, Reporters
<1>2. ASSUME NEW j \in Jobs, NEW status, CreateJob(r, j, status) PROVE TraceInv'
  <2>1. PICK c : c = [NewCall("createJob", "log", <<"job_created">>) EXCEPT !.job = j] OBVIOUS
  <2>2. c.op = "createJob" /\ c.trail = <<"job_created">> BY <2>1 DEF NewCall
  <2>3. OwnTrail(c) BY <2>2 DEF OwnTrail, Reporters, ReportTypes
  <2>4. Arrive(r, c) /\ SameRows BY <1>2, <2>1, SameTables DEF CreateJob
  <2> QED BY <2>2, <2>3, <2>4, ArrivesQuiet DEF IInv, Reporters
<1>3. ASSUME NEW j \in Jobs, NEW d \in Candidates, SubmitCandidate(r, j, d) PROVE TraceInv'
  <2>1. PICK row : row = WithSubmission(jobs[j]) OBVIOUS
  <2>2. PICK c : c = [NewCall("submit", "findDuplicate", <<"candidate_submitted">>)
                        EXCEPT !.job = j, !.candidate = d, !.jobRow = row]
    OBVIOUS
  <2>3. c.op = "submit" /\ c.trail = <<"candidate_submitted">> /\ c.at = "findDuplicate"
    BY <2>2 DEF NewCall
  <2>4. OwnTrail(c) BY <2>3 DEF OwnTrail, Reporters, Reports
  <2>5. Arrive(r, c) /\ SameRows BY <1>3, <2>1, <2>2, SameTables DEF SubmitCandidate, tables
  <2> QED BY <2>3, <2>4, <2>5, ArrivesQuiet DEF IInv
<1> QED BY <1>1, <1>2, <1>3 DEF JobRequest, UpdateJob, ReviewField, MarkReady, SoftDelete

(* The fields of a handler that read a submission.                         *)
LEMMA ReadFields ==
    ASSUME NEW op, NEW at, NEW s, NEW status, NEW trail, NEW c,
           c = OnSubmission(op, at, s, status, trail)
    PROVE  c.op = op /\ c.at = at /\ c.trail = trail
<1>1. PICK row, j, d : /\ row = [submissions[s] EXCEPT !.status = status]
                       /\ j = submissions[s].job /\ d = submissions[s].candidate
  OBVIOUS
<1>2. c = [NewCall(op, at, trail) EXCEPT !.submission = s, !.job = j, !.candidate = d,
                                         !.submissionRow = row]
  BY <1>1 DEF OnSubmission
<1> QED BY <1>2 DEF NewCall

(* A decision or a status is saved on a row that stays where it is.        *)
LEMMA DecidingKeepsRows ==
    ASSUME TypeOK, NEW i \in Interviews, Exists(interviews, i), NEW decision \in Decisions,
           interviews' = [interviews EXCEPT ![i].decision = decision],
           UNCHANGED <<submissions, offers, activities>>
    PROVE  SameRows
<1>1. PICK row : row = [interviews[i] EXCEPT !.decision = decision] OBVIOUS
<1>2. interviews[i] \in InterviewRow BY DEF TypeOK, Exists
<1>3. row \in InterviewRow /\ row.submission = interviews[i].submission
  BY <1>1, <1>2 DEF InterviewRow
<1>4. row # None BY <1>3, PipelineAssumption
<1>5. interviews' = [interviews EXCEPT ![i] = row] BY <1>1
<1>6. \A k \in Interviews : interviews'[k] = IF k = i THEN row ELSE interviews[k]
  BY <1>5 DEF TypeOK
<1>7. ASSUME NEW s \in Submissions PROVE InterviewsOf(s)' = InterviewsOf(s)
  BY <1>2, <1>3, <1>4, <1>6 DEF InterviewsOf, Exists
<1> QED BY <1>7 DEF SameRows, OffersOf, Exists

(* The same of the status of an offer.                                    *)
LEMMA SettingKeepsRows ==
    ASSUME TypeOK, NEW o \in Offers, Exists(offers, o), NEW status \in OfferStatuses,
           offers' = [offers EXCEPT ![o].status = status],
           UNCHANGED <<submissions, interviews, activities>>
    PROVE  SameRows
<1>1. PICK row : row = [offers[o] EXCEPT !.status = status] OBVIOUS
<1>2. offers[o] \in OfferRow BY DEF TypeOK, Exists
<1>3. row \in OfferRow /\ row.submission = offers[o].submission BY <1>1, <1>2 DEF OfferRow
<1>4. row # None BY <1>3, PipelineAssumption
<1>5. offers' = [offers EXCEPT ![o] = row] BY <1>1
<1>6. \A k \in Offers : offers'[k] = IF k = o THEN row ELSE offers[k] BY <1>5 DEF TypeOK
<1>7. ASSUME NEW s \in Submissions PROVE OffersOf(s)' = OffersOf(s)
  BY <1>2, <1>3, <1>4, <1>6 DEF OffersOf, Exists
<1> QED BY <1>7 DEF SameRows, InterviewsOf, Exists

(* Nor does a request of a recruiter report before it has inserted a row.  *)
LEMMA RecruitmentRequestTraced ==
    ASSUME IInv, TraceInv, NEW r \in Requests, RecruitmentRequest(r)
    PROVE  TraceInv'
<1>1. ASSUME NEW s \in Submissions, NEW status, NEW trail, SetStatus(r, s, status, trail),
             \A n \in 1..Len(trail) : trail[n] \notin ReportTypes
      PROVE  TraceInv'
  <2>1. PICK c : c = OnSubmission("updateStatus", "saveSubmission", s, status, trail) OBVIOUS
  <2>2. c.op = "updateStatus" /\ c.trail = trail BY <2>1, ReadFields
  <2>3. OwnTrail(c) BY <1>1, <2>2 DEF OwnTrail, Reporters
  <2>4. Arrive(r, c) /\ SameRows BY <1>1, <2>1, SameTables DEF SetStatus, tables
  <2> QED BY <2>2, <2>3, <2>4, ArrivesQuiet DEF IInv, Reporters
<1>2. ASSUME NEW s \in Submissions, NEW round, ScheduleInterview(r, s, round) PROVE TraceInv'
  <2>1. PICK trail, d :
          /\ trail = <<"interview_scheduled">>
          /\ d = OnSubmission("schedule", "countInterviews", s, "Interview Scheduled", trail)
    OBVIOUS
  <2>2. d.op = "schedule" /\ d.at = "countInterviews" /\ d.trail = trail
    BY <2>1 DEF OnSubmission, NewCall
  <2>3. PICK c : c = [d EXCEPT !.round = round] OBVIOUS
  <2>4. c.op = d.op /\ c.at = d.at /\ c.trail = d.trail
    BY <2>1, <2>3 DEF OnSubmission, NewCall
  <2>5. OwnTrail(c) BY <2>1, <2>2, <2>4 DEF OwnTrail, Reporters, Reports
  <2>6. Arrive(r, c) /\ SameRows BY <1>2, <2>1, <2>3, SameTables DEF ScheduleInterview, tables
  <2> QED BY <2>2, <2>4, <2>5, <2>6, ArrivesQuiet DEF IInv
<1>3. ASSUME NEW s \in Submissions, CreateOffer(r, s) PROVE TraceInv'
  <2>1. PICK trail, c :
          /\ trail = <<"offer_created">>
          /\ c = OnSubmission("createOffer", "insertOffer", s, "Offer Preparing", trail)
    OBVIOUS
  <2>2. c.op = "createOffer" /\ c.at = "insertOffer" /\ c.trail = trail
    BY <2>1 DEF OnSubmission, NewCall
  <2>3. OwnTrail(c) BY <2>1, <2>2 DEF OwnTrail, Reporters, Reports
  <2>4. Arrive(r, c) /\ SameRows BY <1>3, <2>1, SameTables DEF CreateOffer, tables
  <2> QED BY <2>2, <2>3, <2>4, ArrivesQuiet DEF IInv
<1>4. ASSUME NEW s \in Submissions, MarkPlaced(r, s) PROVE TraceInv'
  <2>1. PICK c : c = OnSubmission("place", "readJob", s, "Placed", <<"placement">>) OBVIOUS
  <2>2. c.op = "place" /\ c.trail = <<"placement">> BY <2>1, ReadFields
  <2>3. OwnTrail(c) BY <2>2 DEF OwnTrail, Reporters, ReportTypes
  <2>4. Arrive(r, c) /\ SameRows BY <1>4, <2>1, SameTables DEF MarkPlaced, tables
  <2> QED BY <2>2, <2>3, <2>4, ArrivesQuiet DEF IInv, Reporters
<1>5. ASSUME NEW i \in Interviews, NEW decision \in Decisions, CompleteInterview(r, i, decision)
      PROVE  TraceInv'
  <2>1. PICK s, j, d : /\ s = interviews[i].submission /\ j = interviews[i].job
                       /\ d = interviews[i].candidate
    OBVIOUS
  <2>2. PICK c : c = [NewCall("complete", "reread", <<"interview_completed">>) EXCEPT
                        !.submission = s, !.arg = decision, !.job = j, !.candidate = d]
    OBVIOUS
  <2>3. c.op = "complete" /\ c.trail = <<"interview_completed">> BY <2>2 DEF NewCall
  <2>4. OwnTrail(c) BY <2>3 DEF OwnTrail, Reporters, ReportTypes
  <2>5. Arrive(r, c) BY <1>5, <2>1, <2>2 DEF CompleteInterview
  <2>6. SameRows BY <1>5, DecidingKeepsRows DEF CompleteInterview, IInv
  <2> QED BY <2>3, <2>4, <2>5, <2>6, ArrivesQuiet DEF IInv, Reporters
<1>6. ASSUME NEW o \in Offers, NEW status \in OfferStatuses, UpdateOfferStatus(r, o, status)
      PROVE  TraceInv'
  <2>1. PICK s, j, d, type : /\ s = offers[o].submission /\ j = offers[o].job
                             /\ d = offers[o].candidate /\ type = OfferActivity(status)
    OBVIOUS
  <2>2. PICK c : c = [NewCall("updateOffer", "reread", <<type>>) EXCEPT
                        !.submission = s, !.arg = status, !.job = j, !.candidate = d]
    OBVIOUS
  <2>3. c.op = "updateOffer" /\ c.trail = <<type>> BY <2>2 DEF NewCall
  <2>4. type \notin ReportTypes BY <2>1 DEF OfferActivity, ReportTypes
  <2>5. OwnTrail(c) BY <2>3, <2>4 DEF OwnTrail, Reporters
  <2>6. Arrive(r, c) BY <1>6, <2>1, <2>2 DEF UpdateOfferStatus
  <2>7. SameRows BY <1>6, SettingKeepsRows DEF UpdateOfferStatus, IInv
  <2> QED BY <2>3, <2>5, <2>6, <2>7, ArrivesQuiet DEF IInv, Reporters
<1>7. ASSUME NEW s \in Submissions, NEW status, UpdateStatus(r, s, status) PROVE TraceInv'
  BY <1>1, <1>7 DEF UpdateStatus, ReportTypes
<1>8. ASSUME NEW s \in Submissions, Reject(r, s) PROVE TraceInv'
  <2>1. \A n \in 1..Len(<<"status_changed", "rejected">>) :
            <<"status_changed", "rejected">>[n] \notin ReportTypes
    BY DEF ReportTypes
  <2> QED BY <1>1, <1>8, <2>1 DEF Reject
<1>9. ASSUME NEW s \in Submissions, Withdraw(r, s) PROVE TraceInv'
  <2>1. \A n \in 1..Len(<<"status_changed", "withdrawn">>) :
            <<"status_changed", "withdrawn">>[n] \notin ReportTypes
    BY DEF ReportTypes
  <2> QED BY <1>1, <1>9, <2>1 DEF Withdraw
<1> QED BY <1>2, <1>3, <1>4, <1>5, <1>6, <1>7, <1>8, <1>9 DEF RecruitmentRequest

(* Steps that neither insert a row nor append an activity.                 *)
LEMMA WaitingTraced ==
    ASSUME IInv, TraceInv, NEW r \in Requests,
           FindDuplicate(r) \/ RefuseInsert(r) \/ CountInterviews(r) \/ Reread(r) \/ ReadJob(r)
    PROVE  TraceInv'
<1>1. PICK d : d = request[r] OBVIOUS
<1>2. ASSUME d # None PROVE d \in Call /\ WellFormed(d)
  BY <1>1, <1>2 DEF IInv, TypeOK, CallsOK, CallOK
<1>3. CASE FindDuplicate(r)
  <2>1. PICK c : c = IF PairTaken(d.candidate, d.job) THEN None
                       ELSE [d EXCEPT !.at = "insertSubmission"]
    OBVIOUS
  <2>2. d # None /\ d.at = "findDuplicate" /\ Await(r, c) /\ SameRows
    BY <1>1, <1>3, <2>1, SameTables DEF FindDuplicate, At, tables
  <2>3. c = None \/ (c.op = d.op /\ c.trail = d.trail /\ c.at = "insertSubmission")
    BY <1>2, <2>1, <2>2, SetAt DEF Steps
  <2> QED BY <1>1, <2>2, <2>3, GoesOnQuiet
<1>4. CASE RefuseInsert(r)
  <2>1. d # None /\ d.at = "insertSubmission" /\ Await(r, None) /\ SameRows
    BY <1>1, <1>4, SameTables DEF RefuseInsert, At, tables
  <2> QED BY <1>1, <2>1, GoesOnQuiet
<1>5. CASE CountInterviews(r)
  <2>1. PICK round : round = IF d.round = 0 THEN Cardinality(InterviewsOf(d.submission)) + 1
                               ELSE d.round
    OBVIOUS
  <2>2. PICK c : c = [d EXCEPT !.at = "insertInterview", !.round = round] OBVIOUS
  <2>3. d # None /\ d.at = "countInterviews" /\ Await(r, c) /\ SameRows
    BY <1>1, <1>5, <2>1, <2>2, SameTables DEF CountInterviews, At, tables
  <2>4. c.op = d.op /\ c.trail = d.trail /\ c.at = "insertInterview"
    BY <1>2, <2>2, <2>3 DEF Call
  <2> QED BY <1>1, <2>3, <2>4, GoesOnQuiet
<1>6. CASE Reread(r)
  <2>1. PICK row : row = [submissions[d.submission] EXCEPT !.status = StatusAfter(d.arg, @)]
    OBVIOUS
  <2>2. PICK c : c = IF d.arg = "Cancelled" THEN [d EXCEPT !.at = "log"]
                       ELSE [d EXCEPT !.at = "saveSubmission", !.submissionRow = row]
    OBVIOUS
  <2>3. d # None /\ d.at = "reread" /\ Await(r, c) /\ SameRows
    BY <1>1, <1>6, <2>1, <2>2, SameTables DEF Reread, At, tables
  <2>4. c.op = d.op /\ c.trail = d.trail BY <1>2, <2>2, <2>3 DEF Call
  <2>5. d.op \notin Reporters BY <1>2, <2>3 DEF WellFormed, OnCourse, Reporters
  <2> QED BY <1>1, <2>3, <2>4, <2>5, GoesOnQuiet
<1>7. CASE ReadJob(r)
  <2>1. PICK row : row = WithPlacement(jobs[d.job]) OBVIOUS
  <2>2. PICK c : c = IF JobFound(d.job)
                       THEN [d EXCEPT !.at = "saveSubmission", !.jobRow = row] ELSE None
    OBVIOUS
  <2>3. d # None /\ d.at = "readJob" /\ Await(r, c) /\ SameRows
    BY <1>1, <1>7, <2>1, <2>2, SameTables DEF ReadJob, At, tables
  <2>4. c = None \/ (c.op = d.op /\ c.trail = d.trail) BY <1>2, <2>2, <2>3 DEF Call
  <2>5. d.op \notin Reporters BY <1>2, <2>3 DEF WellFormed, OnCourse, Reporters
  <2> QED BY <1>1, <2>3, <2>4, <2>5, GoesOnQuiet
<1> QED BY <1>3, <1>4, <1>5, <1>6, <1>7

(* Rows are saved over rows that are there.                                *)
LEMMA SavingTraced ==
    ASSUME IInv, TraceInv, NEW r \in Requests, SaveSubmission(r) \/ SaveJob(r)
    PROVE  TraceInv'
<1>1. PICK d : d = request[r] OBVIOUS
<1>2. ASSUME d # None PROVE d \in Call /\ WellFormed(d) /\ Refers(d)
  BY <1>1, <1>2 DEF IInv, TypeOK, CallsOK, CallOK
<1>3. CASE SaveSubmission(r)
  <2>1. PICK at : at = IF d.op = "place" THEN "saveJob" ELSE "log" OBVIOUS
  <2>2. PICK c : c = [d EXCEPT !.at = at] OBVIOUS
  <2>3. /\ d # None /\ d.at = "saveSubmission" /\ Await(r, c)
        /\ submissions' = [submissions EXCEPT ![d.submission] = d.submissionRow]
        /\ UNCHANGED <<interviews, offers, activities>>
    BY <1>1, <1>3, <2>1, <2>2 DEF SaveSubmission, At
  <2>4. c \in Call /\ c.op = d.op /\ c.trail = d.trail /\ c.submission = d.submission /\ c.at = at
    BY <1>2, <2>1, <2>2, <2>3, SetAt DEF Steps
  <2>5. c # None BY <2>4, PipelineAssumption
  <2>6. d.submissionRow # None /\ d.submission # None /\ Exists(submissions, d.submission)
    BY <1>2, <2>3, PipelineAssumption DEF WellFormed, OnCourse, Refers
  <2>7. ASSUME NEW s \in Submissions PROVE Exists(submissions', s) <=> Exists(submissions, s)
    BY <2>3, <2>6 DEF Exists, IInv, TypeOK
  <2>8. SameRows BY <2>3, <2>7 DEF SameRows, InterviewsOf, OffersOf, Exists
  <2> QED BY <1>1, <2>1, <2>3, <2>4, <2>5, <2>8, GoesOnQuiet
<1>4. CASE SaveJob(r)
  <2>1. PICK c : c = IF d.op = "editJob" THEN None ELSE [d EXCEPT !.at = "log"] OBVIOUS
  <2>2. d # None /\ d.at = "saveJob" /\ Await(r, c) /\ SameRows
    BY <1>1, <1>4, <2>1, SameTables DEF SaveJob, At
  <2>3. CASE d.op = "editJob" BY <1>1, <2>1, <2>2, <2>3, GoesOnQuiet DEF Reporters
  <2>4. CASE d.op # "editJob"
    <3>1. /\ c \in Call /\ c.op = d.op /\ c.trail = d.trail /\ c.submission = d.submission
          /\ c.at = "log"
      BY <1>2, <2>1, <2>2, <2>4, SetAt DEF Steps
    <3>2. c # None BY <3>1, PipelineAssumption
    <3> QED BY <1>1, <2>2, <3>1, <3>2, GoesOnQuiet
  <2> QED BY <2>3, <2>4
<1> QED BY <1>3, <1>4

(* A request that is cut short ends the promise.                           *)
LEMMA AbortTraced ==
    ASSUME IInv, TraceInv, NEW r \in Requests, Abort(r)
    PROVE  TraceInv'
<1>1. aborts' # 0 BY DEF Abort, IInv, TypeOK
<1>2. Turns(r, request[r], None) BY DEF Abort, Turns
<1>3. SameRows BY SameTables DEF Abort, tables
<1> QED BY <1>1, <1>2, <1>3, QuietStep DEF IInv

(* What a request inserts for submission s it owes an activity.            *)
Inserting(d, c, op, s) ==
    /\ d \in Call /\ c \in Call /\ c.op = op /\ d.op = op /\ op \in Reporters
    /\ c.trail = d.trail /\ c.submission = s
    /\ d.at \notin {"saveSubmission", "saveJob", "log"}
    /\ c.at \in {"saveSubmission", "saveJob"}

(* Such a step settles: the row is the only thing that is new.             *)
LEMMA InsertingSettles ==
    ASSUME IInv, TraceInv, NEW r \in Requests, NEW d, NEW c, Turns(r, d, c), aborts' = aborts,
           NEW op, NEW s \in Submissions, Inserting(d, c, op, s), activities' = activities,
           Inserted(op, s)' = Inserted(op, s) + 1,
           \A p \in Reporters, t \in Submissions :
               p # op \/ t # s => Inserted(p, t)' = Inserted(p, t),
           NEW o, \A t \in Submissions : OffersOf(t)' \subseteq OffersOf(t) \cup {o}
    PROVE  TraceInv'
<1>1. c # None /\ d # None BY PipelineAssumption DEF Inserting
<1>2. OwnTrail(d) BY <1>1 DEF TraceInv, Turns
<1>3. OwnTrail(c) BY <1>2 DEF OwnTrail, Inserting
<1>4. ASSUME NEW p \in Reporters, NEW t \in Submissions PROVE Settles(d, c, p, t)
  <2>1. Inserted(p, t) \in Nat /\ activities[<<t, Reports(p)>>] \in Nat
    BY InsertedCounted DEF TraceInv, IInv
  <2>2. Weight(d, p, t) = 0 BY DEF Weight, Owes, Inserting
  <2>3. Weight(c, p, t) = IF p = op /\ t = s THEN 1 ELSE 0
    BY <1>1 DEF Weight, Owes, Inserting
  <2>4. CASE p = op /\ t = s BY <2>1, <2>2, <2>3, <2>4 DEF Settles
  <2>5. CASE p # op \/ t # s
    <3>1. Inserted(p, t)' = Inserted(p, t) BY <2>5
    <3> QED BY <2>1, <2>2, <2>3, <2>5, <3>1 DEF Settles
  <2> QED BY <2>4, <2>5
<1> QED BY <1>3, <1>4, SettledStep DEF IInv

(* submitCandidate inserts a submission and owes its activity.             *)
LEMMA InsertSubmissionTraced ==
    ASSUME IInv, TraceInv, NEW r \in Requests, NEW s \in Submissions, InsertSubmission(r, s)
    PROVE  TraceInv'
<1>1. PICK d : d = request[r] OBVIOUS
<1>2. d # None /\ d.at = "insertSubmission" BY <1>1 DEF InsertSubmission, At
<1>3. d \in Call /\ d.op = "submit"
  BY <1>1, <1>2 DEF IInv, TypeOK, CallsOK, CallOK, WellFormed, OnCourse
<1>4. PICK c : c = [d EXCEPT !.at = "saveJob", !.submission = s] OBVIOUS
<1>5. /\ c \in Call /\ c.op = d.op /\ c.trail = d.trail /\ c.submission = s /\ c.at = "saveJob"
  BY <1>3, <1>4 DEF Call, Steps
<1>6. Turns(r, d, c) /\ aborts' = aborts BY <1>1, <1>4 DEF InsertSubmission, Await, Turns
<1>7. Inserting(d, c, "submit", s) BY <1>2, <1>3, <1>5 DEF Inserting, Reporters
<1>8. PICK row : row = [candidate |-> d.candidate, job |-> d.job, status |-> "Submitted"] OBVIOUS
<1>9. row # None
  <2>1. d.candidate \in Candidates /\ d.job \in Jobs
    BY <1>1, <1>2, <1>3 DEF IInv, CallsOK, CallOK, WellFormed
  <2>2. row \in SubmissionRow BY <1>8, <2>1 DEF SubmissionRow, SubmissionStatuses
  <2> QED BY <2>2, PipelineAssumption
<1>10. /\ submissions' = [submissions EXCEPT ![s] = row]
       /\ ~Exists(submissions, s) /\ UNCHANGED <<interviews, offers, activities>>
  BY <1>1, <1>8 DEF InsertSubmission, FreshSubmission
<1>11. \A t \in Submissions : Exists(submissions', t) <=> (t = s \/ Exists(submissions, t))
  BY <1>9, <1>10 DEF Exists, IInv, TypeOK
<1>12. \A t \in Submissions : InterviewsOf(t)' = InterviewsOf(t) /\ OffersOf(t)' = OffersOf(t)
  BY <1>10 DEF InterviewsOf, OffersOf, Exists
<1>13. Inserted("submit", s)' = Inserted("submit", s) + 1
  BY <1>10, <1>11 DEF Inserted, Exists
<1>14. ASSUME NEW p \in Reporters, NEW t \in Submissions, p # "submit" \/ t # s
       PROVE  Inserted(p, t)' = Inserted(p, t)
  BY <1>11, <1>12, <1>14 DEF Inserted, Exists
<1>15. activities' = activities BY <1>10
<1>16. \A t \in Submissions : OffersOf(t)' \subseteq OffersOf(t) \cup {r} BY <1>12
<1> QED BY <1>6, <1>7, <1>13, <1>14, <1>15, <1>16, InsertingSettles

(* scheduleInterview inserts an interview and owes its activity.           *)
LEMMA InsertInterviewTraced ==
    ASSUME IInv, TraceInv, NEW r \in Requests, NEW i \in Interviews, InsertInterview(r, i)
    PROVE  TraceInv'
<1>1. PICK d : d = request[r] OBVIOUS
<1>2. d # None /\ d.at = "insertInterview" BY <1>1 DEF InsertInterview, At
<1>3. d \in Call /\ d.op = "schedule" /\ d.submission \in Submissions
  BY <1>1, <1>2 DEF IInv, TypeOK, CallsOK, CallOK, WellFormed, OnCourse
<1>4. PICK c : c = [d EXCEPT !.at = "saveSubmission"] OBVIOUS
<1>5. /\ c \in Call /\ c.op = d.op /\ c.trail = d.trail /\ c.submission = d.submission
      /\ c.at = "saveSubmission"
  BY <1>3, <1>4, SetAt DEF Steps
<1>6. Turns(r, d, c) /\ aborts' = aborts BY <1>1, <1>4 DEF InsertInterview, Await, Turns
<1>7. Inserting(d, c, "schedule", d.submission) BY <1>2, <1>3, <1>5 DEF Inserting, Reporters
<1>8. PICK row : row = [submission |-> d.submission, candidate |-> d.candidate, job |-> d.job,
                        round |-> d.round, decision |-> "Pending"]
  OBVIOUS
<1>9. row # None /\ row.submission = d.submission
  <2>1. d.candidate \in Candidates /\ d.job \in Jobs /\ d.round \in Nat
    BY <1>1, <1>2, <1>3 DEF IInv, CallsOK, CallOK, WellFormed, Call
  <2>2. row \in InterviewRow BY <1>3, <1>8, <2>1 DEF InterviewRow, Decisions
  <2> QED BY <1>8, <2>2, PipelineAssumption
<1>10. /\ interviews' = [interviews EXCEPT ![i] = row]
       /\ interviews[i] = None /\ UNCHANGED <<submissions, offers, activities>>
  BY <1>1, <1>8 DEF InsertInterview, Exists
<1>11. \A k \in Interviews : interviews'[k] = IF k = i THEN row ELSE interviews[k]
  BY <1>10 DEF IInv, TypeOK
<1>12. InterviewsOf(d.submission)' = InterviewsOf(d.submission) \cup {i}
  BY <1>9, <1>11 DEF InterviewsOf, Exists
<1>13. \A t \in Submissions : t # d.submission => InterviewsOf(t)' = InterviewsOf(t)
  BY <1>9, <1>10, <1>11 DEF InterviewsOf, Exists
<1>14. i \notin InterviewsOf(d.submission) BY <1>10 DEF InterviewsOf, Exists
<1>15. IsFiniteSet(InterviewsOf(d.submission)) BY <1>3, Countable DEF IInv
<1>16. Cardinality(InterviewsOf(d.submission)') = Cardinality(InterviewsOf(d.submission)) + 1
  BY <1>12, <1>14, <1>15, FS_AddElement
<1>17. /\ \A t \in Submissions : OffersOf(t)' = OffersOf(t)
       /\ \A t \in Submissions : Exists(submissions', t) <=> Exists(submissions, t)
  BY <1>10 DEF OffersOf, Exists
<1>18. Inserted("schedule", d.submission)' = Inserted("schedule", d.submission) + 1
  BY <1>16 DEF Inserted
<1>19. ASSUME NEW p \in Reporters, NEW t \in Submissions, p # "schedule" \/ t # d.submission
       PROVE  Inserted(p, t)' = Inserted(p, t)
  BY <1>13, <1>17, <1>19 DEF Inserted, Exists, Reporters
<1>20. activities' = activities BY <1>10
<1>21. \A t \in Submissions : OffersOf(t)' \subseteq OffersOf(t) \cup {r} BY <1>17
<1> QED BY <1>3, <1>6, <1>7, <1>18, <1>19, <1>20, <1>21, InsertingSettles

(* createOffer inserts an offer and owes its activity.                     *)
LEMMA InsertOfferTraced ==
    ASSUME IInv, TraceInv, NEW r \in Requests, NEW o \in Offers, InsertOffer(r, o)
    PROVE  TraceInv'
<1>1. PICK d : d = request[r] OBVIOUS
<1>2. d # None /\ d.at = "insertOffer" BY <1>1 DEF InsertOffer, At
<1>3. d \in Call /\ d.op = "createOffer" /\ d.submission \in Submissions
  BY <1>1, <1>2 DEF IInv, TypeOK, CallsOK, CallOK, WellFormed, OnCourse
<1>4. PICK c : c = [d EXCEPT !.at = "saveSubmission"] OBVIOUS
<1>5. /\ c \in Call /\ c.op = d.op /\ c.trail = d.trail /\ c.submission = d.submission
      /\ c.at = "saveSubmission"
  BY <1>3, <1>4, SetAt DEF Steps
<1>6. Turns(r, d, c) /\ aborts' = aborts BY <1>1, <1>4 DEF InsertOffer, Await, Turns
<1>7. Inserting(d, c, "createOffer", d.submission) BY <1>2, <1>3, <1>5 DEF Inserting, Reporters
<1>8. PICK row : row = [submission |-> d.submission, candidate |-> d.candidate, job |-> d.job,
                        status |-> "Draft"]
  OBVIOUS
<1>9. row # None /\ row.submission = d.submission
  <2>1. d.candidate \in Candidates /\ d.job \in Jobs
    BY <1>1, <1>2, <1>3 DEF IInv, CallsOK, CallOK, WellFormed
  <2>2. row \in OfferRow BY <1>3, <1>8, <2>1 DEF OfferRow, OfferStatuses
  <2> QED BY <1>8, <2>2, PipelineAssumption
<1>10. /\ offers' = [offers EXCEPT ![o] = row]
       /\ offers[o] = None /\ UNCHANGED <<submissions, interviews, activities>>
  BY <1>1, <1>8 DEF InsertOffer, Exists
<1>11. \A k \in Offers : offers'[k] = IF k = o THEN row ELSE offers[k]
  BY <1>10 DEF IInv, TypeOK
<1>12. OffersOf(d.submission)' = OffersOf(d.submission) \cup {o}
  BY <1>9, <1>11 DEF OffersOf, Exists
<1>13. \A t \in Submissions : t # d.submission => OffersOf(t)' = OffersOf(t)
  BY <1>9, <1>10, <1>11 DEF OffersOf, Exists
<1>14. o \notin OffersOf(d.submission) BY <1>10 DEF OffersOf, Exists
<1>15. IsFiniteSet(OffersOf(d.submission)) BY <1>3 DEF TraceInv, Countably
<1>16. Cardinality(OffersOf(d.submission)') = Cardinality(OffersOf(d.submission)) + 1
  BY <1>12, <1>14, <1>15, FS_AddElement
<1>17. /\ \A t \in Submissions : InterviewsOf(t)' = InterviewsOf(t)
       /\ \A t \in Submissions : Exists(submissions', t) <=> Exists(submissions, t)
  BY <1>10 DEF InterviewsOf, Exists
<1>18. Inserted("createOffer", d.submission)' = Inserted("createOffer", d.submission) + 1
  BY <1>16 DEF Inserted
<1>19. ASSUME NEW p \in Reporters, NEW t \in Submissions, p # "createOffer" \/ t # d.submission
       PROVE  Inserted(p, t)' = Inserted(p, t)
  BY <1>13, <1>17, <1>19 DEF Inserted, Exists, Reporters
<1>20. activities' = activities BY <1>10
<1>21. \A t \in Submissions : OffersOf(t)' \subseteq OffersOf(t) \cup {o} BY <1>12, <1>13
<1> QED BY <1>3, <1>6, <1>7, <1>18, <1>19, <1>20, <1>21, InsertingSettles

(* An activity is appended by the request that owes it.                    *)
LEMMA AppendActivityTraced ==
    ASSUME IInv, TraceInv, NEW r \in Requests, AppendActivity(r)
    PROVE  TraceInv'
<1>1. PICK d : d = request[r] OBVIOUS
<1>2. d # None /\ d.at = "log" BY <1>1 DEF AppendActivity, At
<1>3. d \in Call /\ WellFormed(d) /\ OwnTrail(d) /\ d.trail # <<>>
  BY <1>1, <1>2 DEF IInv, TypeOK, CallsOK, CallOK, WellFormed, OnCourse, TraceInv
<1>4. d.trail \in Seq(ActivityTypes) BY <1>3 DEF Call
<1>5. PICK subject, type :
        subject = (IF d.submission = None THEN d.job ELSE d.submission) /\ type = Head(d.trail)
  OBVIOUS
<1>6. type \in ActivityTypes /\ type = d.trail[1] /\ 1 \in 1..Len(d.trail)
  BY <1>3, <1>4, <1>5
<1>7. subject \in Subjects BY <1>3, <1>5 DEF WellFormed, Call, Subjects
<1>8. activities' = [activities EXCEPT ![<<subject, type>>] = @ + 1]
  BY <1>1, <1>5 DEF AppendActivity
<1>9. \A x \in Subjects \X ActivityTypes :
          activities'[x] = IF x = <<subject, type>> THEN activities[x] + 1 ELSE activities[x]
  BY <1>8 DEF IInv, TypeOK
<1>10. PICK rest : rest = Tail(d.trail) OBVIOUS
<1>11. PICK c : c = IF Len(d.trail) = 1 THEN None ELSE [d EXCEPT !.trail = rest] OBVIOUS
<1>12. Await(r, c) BY <1>1, <1>10, <1>11 DEF AppendActivity
<1>13. Turns(r, d, c) /\ aborts' = aborts BY <1>1, <1>12 DEF Await, Turns
<1>14. UNCHANGED <<submissions, interviews, offers>> BY DEF AppendActivity
<1>15. \A p, t : Inserted(p, t)' = Inserted(p, t)
  BY <1>14 DEF Inserted, Exists, InterviewsOf, OffersOf
<1>16. \A t \in Submissions : OffersOf(t)' \subseteq OffersOf(t) \cup {r}
  BY <1>14 DEF OffersOf, Exists
<1>17. ASSUME d.op \in Reporters PROVE c = None /\ type = Reports(d.op)
  <2>1. d.trail = <<Reports(d.op)>> BY <1>3, <1>17 DEF OwnTrail
  <2>2. Len(d.trail) = 1 /\ d.trail[1] = Reports(d.op) BY <2>1
  <2> QED BY <1>6, <1>11, <2>2
<1>18. d.op \notin Reporters => type \notin ReportTypes BY <1>3, <1>6 DEF OwnTrail
<1>19. c # None => OwnTrail(c)
  <2> SUFFICES ASSUME c # None PROVE OwnTrail(c) OBVIOUS
  <2>1. d.op \notin Reporters /\ c = [d EXCEPT !.trail = rest] BY <1>11, <1>17
  <2>2. /\ rest \in Seq(ActivityTypes)
        /\ \A n \in 1..Len(rest) : n + 1 \in 1..Len(d.trail) /\ rest[n] = d.trail[n + 1]
    BY <1>3, <1>4, <1>10
  <2>3. c.op = d.op /\ c.trail = rest BY <1>3, <2>1, <2>2, SetTrail
  <2> QED BY <1>3, <2>1, <2>2, <2>3 DEF OwnTrail
<1>20. ASSUME NEW p \in Reporters, NEW t \in Submissions PROVE Settles(d, c, p, t)
  <2>1. Inserted(p, t) \in Nat /\ activities[<<t, Reports(p)>>] \in Nat
    BY InsertedCounted DEF TraceInv, IInv
  <2>2. Reports(p) \in ActivityTypes /\ Reports(p) \in ReportTypes
    BY DEF Reports, ActivityTypes, ReportTypes
  <2>3. <<t, Reports(p)>> \in Subjects \X ActivityTypes BY <2>2 DEF Subjects
  <2>4. activities'[<<t, Reports(p)>>] =
            IF t = subject /\ Reports(p) = type THEN activities[<<t, Reports(p)>>] + 1
            ELSE activities[<<t, Reports(p)>>]
    BY <1>9, <2>3
  <2>5. CASE d.op \in Reporters
    <3>1. c = None /\ type = Reports(d.op) BY <1>17, <2>5
    <3>2. Weight(c, p, t) = 0 BY <3>1 DEF Weight, Owes
    <3>3. d.submission # None /\ subject = d.submission
      BY <1>2, <1>3, <1>5, <2>5, PipelineAssumption DEF WellFormed, Reporters
    <3>4. Reports(p) = type <=> p = d.op BY <2>5, <3>1 DEF Reports, Reporters
    <3>5. Weight(d, p, t) = IF t = subject /\ Reports(p) = type THEN 1 ELSE 0
      BY <1>2, <3>3, <3>4 DEF Weight, Owes
    <3> QED BY <1>15, <2>1, <2>4, <3>2, <3>5 DEF Settles
  <2>6. CASE d.op \notin Reporters
    <3>1. activities'[<<t, Reports(p)>>] = activities[<<t, Reports(p)>>]
      BY <1>18, <2>2, <2>4, <2>6
    <3>2. Weight(d, p, t) = 0 BY <2>6 DEF Weight, Owes
    <3>3. Weight(c, p, t) = 0
      <4>1. c = None \/ c.op = d.op BY <1>3, <1>11 DEF Call
      <4> QED BY <2>6, <4>1 DEF Weight, Owes
    <3> QED BY <1>15, <2>1, <3>1, <3>2, <3>3 DEF Settles
  <2> QED BY <2>5, <2>6
<1> QED BY <1>13, <1>16, <1>19, <1>20, SettledStep DEF IInv

(* Nothing is inserted and nothing told at first.                          *)
LEMMA InitTraceInv == Init => TraceInv
<1> SUFFICES ASSUME Init PROVE TraceInv OBVIOUS
<1>1. Running = {} BY DEF Init, Running
<1>2. \A s \in Submissions : InterviewsOf(s) = {} /\ OffersOf(s) = {} /\ ~Exists(submissions, s)
  BY DEF Init, InterviewsOf, OffersOf, Exists
<1>3. \A op, s : Unlogged(op, s) = {} BY DEF Init, Unlogged
<1>4. Cardinality({}) = 0 /\ IsFiniteSet({}) BY FS_EmptySet
<1>5. Countably BY <1>1, <1>2, <1>4 DEF Countably
<1>6. ASSUME NEW op \in Reporters, NEW s \in Submissions PROVE Accounted(op, s)
  <2>1. Reports(op) \in ActivityTypes BY DEF Reports, ActivityTypes
  <2>2. activities[<<s, Reports(op)>>] = 0 BY <2>1 DEF Init, Subjects
  <2> QED BY <1>2, <1>3, <1>4, <2>2 DEF Accounted, Inserted
<1> QED BY <1>5, <1>6 DEF TraceInv, Init

(* Every step keeps the timeline accounted for.                            *)
LEMMA NextTraceInv == IInv /\ TraceInv /\ [Next]_vars => TraceInv'
<1> SUFFICES ASSUME IInv, TraceInv, [Next]_vars PROVE TraceInv' OBVIOUS
<1>1. ASSUME NEW r \in Requests, Continue(r) PROVE TraceInv'
  BY <1>1, WaitingTraced, SavingTraced, AbortTraced, InsertSubmissionTraced,
     InsertInterviewTraced, InsertOfferTraced, AppendActivityTraced
  DEF Continue
<1>2. CASE UNCHANGED vars
  <2>1. /\ request' = request /\ aborts' = aborts /\ activities' = activities
        /\ submissions' = submissions /\ interviews' = interviews /\ offers' = offers
    BY <1>2 DEF vars, tables
  <2>2. Countably' BY <2>1 DEF TraceInv, Countably, Running, OffersOf, Exists
  <2>3. \A r \in Requests : request'[r] # None => OwnTrail(request'[r]) BY <2>1 DEF TraceInv
  <2>4. \A op, s : Accounted(op, s)' <=> Accounted(op, s)
    BY <2>1 DEF Accounted, Unlogged, Inserted, InterviewsOf, OffersOf, Exists
  <2> QED BY <2>1, <2>2, <2>3, <2>4 DEF TraceInv, OwnTrail
<1> QED BY <1>1, <1>2, JobRequestTraced, RecruitmentRequestTraced DEF Next

(* So it is in every reachable state.                                      *)
LEMMA TraceInvariance == Spec => []TraceInv
<1> QED BY InitTraceInv, NextTraceInv, Invariance, PTL DEF Spec

(* As long as no request is cut short the timeline reports every           *)
(* submission, interview and offer exactly once, or has a request in       *)
(* flight that is about to, for any number of concurrent handlers of       *)
(* RecruitmentService and JobService.                                      *)
THEOREM TimelineComplete == Spec => []ActivityTrail
<1>1. ASSUME TraceInv PROVE ActivityTrail
  <2> SUFFICES ASSUME aborts = 0, NEW s \in Submissions
               PROVE  /\ activities[s, "candidate_submitted"] + Cardinality(Unlogged("submit", s))
                             = IF Exists(submissions, s) THEN 1 ELSE 0
                      /\ activities[s, "interview_scheduled"] + Cardinality(Unlogged("schedule", s))
                             = Cardinality(InterviewsOf(s))
                      /\ activities[s, "offer_created"] + Cardinality(Unlogged("createOffer", s))
                             = Cardinality(OffersOf(s))
    BY DEF ActivityTrail
  <2>1. \A op \in Reporters : Accounted(op, s) BY <1>1 DEF TraceInv
  <2>2. Accounted("submit", s) /\ Accounted("schedule", s) /\ Accounted("createOffer", s)
    BY <2>1 DEF Reporters
  <2> QED BY <2>2 DEF Accounted, Inserted, Reports
<1> QED BY <1>1, TraceInvariance, PTL

-----------------------------------------------------------------------------
(* One request at a time.  Then the job row a request holds is the row of  *)
(* the table but for its own change, so nothing stale is ever saved.       *)

Ahead(c, op) == IF c.op = op THEN 1 ELSE 0

(* The job row in flight is fresh and of a job that is not deleted.        *)
RowFresh(c) ==
    c.jobRow # None /\ c.at # "log" =>
        /\ ~jobs[c.job].deleted
        /\ c.jobRow.submissionCount = jobs[c.job].submissionCount + Ahead(c, "submit")
        /\ c.jobRow.placementCount = jobs[c.job].placementCount + Ahead(c, "place")

(* The row or placement of op that is in the table and not counted yet.    *)
Due(c, j, op) == IF c # None /\ c.op = op /\ c.at = "saveJob" /\ c.job = j THEN 1 ELSE 0

CountsFit(c, j) ==
    /\ Exists(jobs, j) =>
          /\ jobs[j].submissionCount + Due(c, j, "submit") = Cardinality(SubmissionsOf(j))
          /\ jobs[j].placementCount + Due(c, j, "place") = placements[j]
    /\ ~Exists(jobs, j) => placements[j] = 0

SerialInv(r) ==
    /\ request[r] # None => RowFresh(request[r])
    /\ aborts = 0 => \A j \in Jobs : CountsFit(request[r], j)

(* The jobs and their submissions and placements are the same.             *)
SameJobs == /\ jobs' = jobs /\ placements' = placements
            /\ \A j \in Jobs : SubmissionsOf(j)' = SubmissionsOf(j)

(* What holds of the call the slot goes on to holds of the slot.           *)
LEMMA SerialStep ==
    ASSUME TypeOK, NEW r, NEW old, NEW c, Turns(r, old, c),
           c # None => RowFresh(c)', aborts' = 0 => \A j \in Jobs : CountsFit(c, j)'
    PROVE  SerialInv(r)'
<1>1. request'[r] = c BY DEF TypeOK, Turns
<1> QED BY <1>1 DEF SerialInv

(* A step that neither writes a job nor adds to one.                       *)
LEMMA SerialQuiet ==
    ASSUME TypeOK, NEW r, NEW old, NEW c, SerialInv(r), Turns(r, old, c), SameJobs,
           c # None => RowFresh(c),
           \/ aborts' # 0
           \/ /\ aborts' = aborts
              /\ old # None => old.at # "saveJob"
              /\ c # None => c.at # "saveJob" \/ c.op \notin {"submit", "place"}
    PROVE  SerialInv(r)'
<1>1. c # None => RowFresh(c)' BY DEF RowFresh, SameJobs
<1>2. ASSUME aborts' = 0, NEW j \in Jobs PROVE CountsFit(c, j)'
  <2>1. CountsFit(old, j) BY <1>2 DEF SerialInv, Turns
  <2>2. /\ Due(c, j, "submit") = 0 /\ Due(c, j, "place") = 0
        /\ Due(old, j, "submit") = 0 /\ Due(old, j, "place") = 0
    BY <1>2 DEF Due
  <2>3. SubmissionsOf(j)' = SubmissionsOf(j) /\ jobs' = jobs /\ placements' = placements
    BY DEF SameJobs
  <2> QED BY <2>1, <2>2, <2>3 DEF CountsFit, Exists
<1> QED BY <1>1, <1>2, SerialStep

(* A request that arrives.                                                 *)
LEMMA SerialArrives ==
    ASSUME TypeOK, NEW r \in Requests, SerialInv(r), NEW c, Arrive(r, c),
           UNCHANGED <<jobs, submissions>>,
           RowFresh(c), c.at # "saveJob" \/ c.op = "editJob"
    PROVE  SerialInv(r)'
<1>1. Turns(r, None, c) /\ aborts' = aborts /\ SameJobs
  BY DEF Arrive, Turns, SameJobs, SubmissionsOf, Exists
<1> QED BY <1>1, SerialQuiet

(* One that goes on with the job row it has.                               *)
LEMMA SerialGoesOn ==
    ASSUME TypeOK, NEW r \in Requests, SerialInv(r), NEW d, d = request[r], d # None,
           NEW c, Await(r, c),
           SameJobs, d.at # "saveJob",
           c # None =>
              /\ c.at # "saveJob" \/ c.op \notin {"submit", "place"}
              /\ \/ c.at = "log" \/ c.jobRow = None
                 \/ d.at # "log" /\ c.jobRow = d.jobRow /\ c.job = d.job /\ c.op = d.op
    PROVE  SerialInv(r)'
<1>1. Turns(r, d, c) /\ aborts' = aborts BY DEF Await, Turns
<1>2. RowFresh(d) BY DEF SerialInv
<1>3. c # None => RowFresh(c) BY <1>2 DEF RowFresh, Ahead
<1> QED BY <1>1, <1>3, SerialQuiet

(* Submissions stay in their job when their rows are saved.                *)
LEMMA SavedStaysInJob ==
    ASSUME IInv, NEW r \in Requests, SaveSubmission(r), NEW j \in Jobs
    PROVE  SubmissionsOf(j)' = SubmissionsOf(j)
<1>1. PICK d : d = request[r] OBVIOUS
<1>2. /\ d # None /\ d.at = "saveSubmission"
      /\ submissions' = [submissions EXCEPT ![d.submission] = d.submissionRow]
  BY <1>1 DEF SaveSubmission, At
<1>3. d \in Call /\ WellFormed(d) /\ Refers(d)
  BY <1>1, <1>2 DEF IInv, TypeOK, CallsOK, CallOK
<1>4. /\ d.submission \in Submissions /\ d.submissionRow # None
      /\ Exists(submissions, d.submission) /\ submissions[d.submission].job = d.submissionRow.job
  BY <1>2, <1>3, PipelineAssumption DEF WellFormed, OnCourse, Refers
<1>5. \A s \in Submissions :
          submissions'[s] = IF s = d.submission THEN d.submissionRow ELSE submissions[s]
  BY <1>2 DEF IInv, TypeOK
<1> QED BY <1>4, <1>5 DEF SubmissionsOf, Exists

(* A job has the submissions it has while their table stays.               *)
LEMMA SubmissionsKept ==
    ASSUME UNCHANGED submissions PROVE \A j \in Jobs : SubmissionsOf(j)' = SubmissionsOf(j)
BY DEF SubmissionsOf, Exists

(* A request to a job holds the row it read, with its own change.          *)
LEMMA SerialJobRequest ==
    ASSUME IInv, NEW r \in Requests, SerialInv(r), JobRequest(r)
    PROVE  SerialInv(r)'
<1>1. ASSUME NEW j \in Jobs, NEW row, EditJob(r, j, row),
             row.submissionCount = jobs[j].submissionCount,
             row.placementCount = jobs[j].placementCount
      PROVE  SerialInv(r)'
  <2>1. PICK c : c = [NewCall("editJob", "saveJob", <<>>) EXCEPT !.job = j, !.jobRow = row]
    OBVIOUS
  <2>2. c.op = "editJob" /\ c.at = "saveJob" /\ c.job = j /\ c.jobRow = row BY <2>1 DEF NewCall
  <2>3. Arrive(r, c) /\ UNCHANGED <<jobs, submissions>> /\ JobFound(j)
    BY <1>1, <2>1 DEF EditJob, tables
  <2>4. jobs[j] \in JobRow BY <2>3 DEF JobFound, Exists, IInv, TypeOK
  <2>5. RowFresh(c) BY <1>1, <2>2, <2>3, <2>4 DEF RowFresh, JobFound, Ahead, JobRow
  <2> QED BY <2>2, <2>3, <2>5, SerialArrives DEF IInv
<1>2. ASSUME NEW j \in Jobs, NEW status \in JobPatches, CreateJob(r, j, status)
      PROVE  SerialInv(r)'
  <2>1. PICK c : c = [NewCall("createJob", "log", <<"job_created">>) EXCEPT !.job = j] OBVIOUS
  <2>2. c.op = "createJob" /\ c.at = "log" BY <2>1 DEF NewCall
  <2>3. Arrive(r, c) BY <1>2, <2>1 DEF CreateJob
  <2>4. Turns(r, None, c) /\ aborts' = aborts /\ UNCHANGED placements
    BY <2>3 DEF Arrive, Turns
  <2>5. RowFresh(c)' BY <2>2 DEF RowFresh
  <2>6. PICK row : row = [status |-> status, deleted |-> FALSE,
                          submissionCount |-> 0, placementCount |-> 0]
    OBVIOUS
  <2>7. row \in JobRow BY <2>6, PipelineAssumption DEF JobRow
  <2>8. row # None BY <2>7, PipelineAssumption
  <2>9. /\ jobs' = [jobs EXCEPT ![j] = row] /\ ~Exists(jobs, j) /\ UNCHANGED submissions
    BY <1>2, <2>6 DEF CreateJob
  <2>10. \A k \in Jobs : jobs'[k] = IF k = j THEN row ELSE jobs[k] BY <2>9 DEF IInv, TypeOK
  <2>11. ASSUME aborts' = 0, NEW k \in Jobs PROVE CountsFit(c, k)'
    <3>1. CountsFit(None, k) BY <2>3, <2>4, <2>11 DEF SerialInv, Arrive
    <3>2. /\ Due(c, k, "submit") = 0 /\ Due(c, k, "place") = 0
          /\ Due(None, k, "submit") = 0 /\ Due(None, k, "place") = 0
      BY <2>2 DEF Due
    <3>3. SubmissionsOf(k)' = SubmissionsOf(k) BY <2>9, SubmissionsKept
    <3>4. CASE k = j
      <4>1. SubmissionsOf(j) = {}
        BY <2>9 DEF SubmissionsOf, IInv, TablesOK, ReferencesAgree
      <4>2. Cardinality(SubmissionsOf(k)') = 0 BY <3>3, <3>4, <4>1, FS_EmptySet
      <4>3. placements'[k] = 0 BY <2>4, <2>9, <3>1, <3>4 DEF CountsFit
      <4> QED BY <2>6, <2>8, <2>10, <3>2, <3>4, <4>2, <4>3 DEF CountsFit, Exists
    <3>5. CASE k # j
      <4>1. jobs'[k] = jobs[k] BY <2>10, <3>5
      <4> QED BY <2>4, <3>1, <3>2, <3>3, <4>1 DEF CountsFit, Exists
    <3> QED BY <3>4, <3>5
  <2> QED BY <2>4, <2>5, <2>11, SerialStep DEF IInv
<1>3. ASSUME NEW j \in Jobs, NEW d \in Candidates, SubmitCandidate(r, j, d)
      PROVE  SerialInv(r)'
  <2>1. PICK row : row = [jobs[j] EXCEPT !.submissionCount = jobs[j].submissionCount + 1] OBVIOUS
  <2>2. PICK c : c = [NewCall("submit", "findDuplicate", <<"candidate_submitted">>)
                        EXCEPT !.job = j, !.candidate = d, !.jobRow = row]
    OBVIOUS
  <2>3. c.op = "submit" /\ c.at = "findDuplicate" /\ c.job = j /\ c.jobRow = row
    BY <2>2 DEF NewCall
  <2>4. Arrive(r, c) /\ UNCHANGED <<jobs, submissions>> /\ JobFound(j)
    BY <1>3, <2>1, <2>2 DEF SubmitCandidate, tables, WithSubmission
  <2>5. jobs[j] \in JobRow BY <2>4 DEF JobFound, Exists, IInv, TypeOK
  <2>6. /\ row.submissionCount = jobs[j].submissionCount + 1
        /\ row.placementCount = jobs[j].placementCount /\ jobs[j].placementCount \in Nat
    BY <2>1, <2>5 DEF JobRow
  <2>7. RowFresh(c) BY <2>3, <2>4, <2>6 DEF RowFresh, JobFound, Ahead
  <2> QED BY <2>3, <2>4, <2>7, SerialArrives DEF IInv
<1>4. PICK j \in Jobs :
        \/ \E status \in JobPatches : CreateJob(r, j, status) \/ UpdateJob(r, j, status)
        \/ ReviewField(r, j)
        \/ MarkReady(r, j)
        \/ SoftDelete(r, j)
        \/ \E c \in Candidates : SubmitCandidate(r, j, c)
  BY DEF JobRequest
<1>5. JobFound(j) => jobs[j] \in JobRow BY DEF JobFound, Exists, IInv, TypeOK
<1>6. ASSUME NEW status, UpdateJob(r, j, status) PROVE SerialInv(r)'
  <2>1. PICK row : row = [jobs[j] EXCEPT !.status = status] OBVIOUS
  <2>2. EditJob(r, j, row) /\ JobFound(j) BY <1>6, <2>1 DEF UpdateJob, EditJob
  <2>3. row.submissionCount = jobs[j].submissionCount /\ row.placementCount = jobs[j].placementCount
    BY <1>5, <2>1, <2>2 DEF JobRow
  <2> QED BY <1>1, <2>2, <2>3
<1>7. ASSUME ReviewField(r, j) PROVE SerialInv(r)' BY <1>1, <1>7 DEF ReviewField
<1>8. ASSUME MarkReady(r, j) PROVE SerialInv(r)'
  <2>1. PICK status : status = IF jobs[j].status = "Draft" THEN "Open" ELSE jobs[j].status
    OBVIOUS
  <2>2. PICK row : row = [jobs[j] EXCEPT !.status = status] OBVIOUS
  <2>3. EditJob(r, j, row) /\ JobFound(j) BY <1>8, <2>1, <2>2 DEF MarkReady, EditJob
  <2>4. row.submissionCount = jobs[j].submissionCount /\ row.placementCount = jobs[j].placementCount
    BY <1>5, <2>2, <2>3 DEF JobRow
  <2> QED BY <1>1, <2>3, <2>4
<1>9. ASSUME SoftDelete(r, j) PROVE SerialInv(r)'
  <2>1. PICK gone : gone = [jobs[j] EXCEPT !.deleted = TRUE] OBVIOUS
  <2>2. PICK row : row = [gone EXCEPT !.status = "Closed"] OBVIOUS
  <2>3. EditJob(r, j, row) /\ JobFound(j) BY <1>9, <2>1, <2>2 DEF SoftDelete, EditJob
  <2>4. /\ gone \in JobRow /\ gone.submissionCount = jobs[j].submissionCount
        /\ gone.placementCount = jobs[j].placementCount
    BY <1>5, <2>1, <2>3 DEF JobRow
  <2>5. row.submissionCount = jobs[j].submissionCount /\ row.placementCount = jobs[j].placementCount
    BY <2>2, <2>4 DEF JobRow
  <2> QED BY <1>1, <2>3, <2>5
<1> QED BY <1>2, <1>3, <1>4, <1>6, <1>7, <1>8, <1>9

(* A request of a recruiter holds no job row when it arrives.              *)
LEMMA SerialRecruitmentRequest ==
    ASSUME IInv, NEW r \in Requests, SerialInv(r), RecruitmentRequest(r)
    PROVE  SerialInv(r)'
<1>1. ASSUME NEW c, Arrive(r, c), UNCHANGED <<jobs, submissions>>, c.jobRow = None, c.at # "saveJob"
      PROVE  SerialInv(r)'
  <2>1. RowFresh(c) BY <1>1 DEF RowFresh
  <2> QED BY <1>1, <2>1, SerialArrives DEF IInv
<1>3. ASSUME NEW s, NEW status, NEW trail, SetStatus(r, s, status, trail) PROVE SerialInv(r)'
  <2>1. PICK c : c = OnSubmission("updateStatus", "saveSubmission", s, status, trail) OBVIOUS
  <2>2. c.jobRow = None /\ c.at = "saveSubmission" BY <2>1 DEF OnSubmission, NewCall
  <2>3. Arrive(r, c) /\ UNCHANGED <<jobs, submissions>> BY <1>3, <2>1 DEF SetStatus, tables
  <2> QED BY <1>1, <2>2, <2>3
<1>4. ASSUME NEW s, NEW round, ScheduleInterview(r, s, round) PROVE SerialInv(r)'
  <2>1. PICK c : c = [OnSubmission("schedule", "countInterviews", s, "Interview Scheduled",
                                   <<"interview_scheduled">>) EXCEPT !.round = round]
    OBVIOUS
  <2>2. c.jobRow = None /\ c.at = "countInterviews" BY <2>1 DEF OnSubmission, NewCall
  <2>3. Arrive(r, c) /\ UNCHANGED <<jobs, submissions>>
    BY <1>4, <2>1 DEF ScheduleInterview, tables
  <2> QED BY <1>1, <2>2, <2>3
<1>5. ASSUME NEW s, CreateOffer(r, s) PROVE SerialInv(r)'
  <2>1. PICK c : c = OnSubmission("createOffer", "insertOffer", s, "Offer Preparing",
                                  <<"offer_created">>)
    OBVIOUS
  <2>2. c.jobRow = None /\ c.at = "insertOffer" BY <2>1 DEF OnSubmission, NewCall
  <2>3. Arrive(r, c) /\ UNCHANGED <<jobs, submissions>> BY <1>5, <2>1 DEF CreateOffer, tables
  <2> QED BY <1>1, <2>2, <2>3
<1>6. ASSUME NEW s, MarkPlaced(r, s) PROVE SerialInv(r)'
  <2>1. PICK c : c = OnSubmission("place", "readJob", s, "Placed", <<"placement">>) OBVIOUS
  <2>2. c.jobRow = None /\ c.at = "readJob" BY <2>1 DEF OnSubmission, NewCall
  <2>3. Arrive(r, c) /\ UNCHANGED <<jobs, submissions>> BY <1>6, <2>1 DEF MarkPlaced, tables
  <2> QED BY <1>1, <2>2, <2>3
<1>7. ASSUME NEW i, NEW decision, CompleteInterview(r, i, decision) PROVE SerialInv(r)'
  <2>1. PICK s, j, d : /\ s = interviews[i].submission /\ j = interviews[i].job
                       /\ d = interviews[i].candidate
    OBVIOUS
  <2>2. PICK c : c = [NewCall("complete", "reread", <<"interview_completed">>) EXCEPT
                        !.submission = s, !.arg = decision, !.job = j, !.candidate = d]
    OBVIOUS
  <2>3. c.jobRow = None /\ c.at = "reread" BY <2>2 DEF NewCall
  <2>4. Arrive(r, c) /\ UNCHANGED <<jobs, submissions>> BY <1>7, <2>1, <2>2 DEF CompleteInterview
  <2> QED BY <1>1, <2>3, <2>4
<1>8. ASSUME NEW o, NEW status, UpdateOfferStatus(r, o, status) PROVE SerialInv(r)'
  <2>1. PICK s, j, d, type : /\ s = offers[o].submission /\ j = offers[o].job
                             /\ d = offers[o].candidate /\ type = OfferActivity(status)
    OBVIOUS
  <2>2. PICK c : c = [NewCall("updateOffer", "reread", <<type>>) EXCEPT
                        !.submission = s, !.arg = status, !.job = j, !.candidate = d]
    OBVIOUS
  <2>3. c.jobRow = None /\ c.at = "reread" BY <2>2 DEF NewCall
  <2>4. Arrive(r, c) /\ UNCHANGED <<jobs, submissions>> BY <1>8, <2>1, <2>2 DEF UpdateOfferStatus
  <2> QED BY <1>1, <2>3, <2>4
<1> QED BY <1>3, <1>4, <1>5, <1>6, <1>7, <1>8
        DEF RecruitmentRequest, UpdateStatus, Reject, Withdraw

(* Steps that leave the jobs and what is in them alone.                    *)
LEMMA SerialWaiting ==
    ASSUME IInv, NEW r \in Requests, SerialInv(r),
           \/ FindDuplicate(r) \/ RefuseInsert(r) \/ CountInterviews(r) \/ Reread(r) \/ ReadJob(r)
           \/ \E i \in Interviews : InsertInterview(r, i)
           \/ \E o \in Offers : InsertOffer(r, o)
           \/ AppendActivity(r)
    PROVE  SerialInv(r)'
<1>1. PICK d : d = request[r] OBVIOUS
<1>2. ASSUME d # None PROVE d \in Call /\ WellFormed(d)
  BY <1>1, <1>2 DEF IInv, TypeOK, CallsOK, CallOK
<1>3. ASSUME UNCHANGED <<jobs, submissions, placements>> PROVE SameJobs
  BY <1>3, SubmissionsKept DEF SameJobs
<1>4. ASSUME NEW at \in {"insertSubmission", "saveSubmission", "log"}, NEW c, d # None,
             d.at # "saveJob", d.at # "log", Await(r, c), SameJobs,
             c = [d EXCEPT !.at = at] \/ c = None
      PROVE  SerialInv(r)'
  <2>1. c # None => c.at = at /\ c.jobRow = d.jobRow /\ c.job = d.job /\ c.op = d.op
    BY <1>2, <1>4, SetAt DEF Steps
  <2> QED BY <1>1, <1>4, <2>1, SerialGoesOn DEF IInv
<1>5. CASE FindDuplicate(r)
  <2>1. PICK c : c = IF PairTaken(d.candidate, d.job) THEN None
                       ELSE [d EXCEPT !.at = "insertSubmission"]
    OBVIOUS
  <2>2. d # None /\ d.at = "findDuplicate" /\ Await(r, c) /\ SameJobs
    BY <1>1, <1>3, <1>5, <2>1 DEF FindDuplicate, At, tables
  <2> QED BY <1>4, <2>1, <2>2
<1>6. CASE RefuseInsert(r)
  <2>1. d # None /\ d.at = "insertSubmission" /\ Await(r, None) /\ SameJobs
    BY <1>1, <1>3, <1>6 DEF RefuseInsert, At, tables
  <2> QED BY <1>4, <2>1
<1>7. CASE CountInterviews(r)
  <2>1. PICK round : round = IF d.round = 0 THEN Cardinality(InterviewsOf(d.submission)) + 1
                               ELSE d.round
    OBVIOUS
  <2>2. PICK c : c = [d EXCEPT !.at = "insertInterview", !.round = round] OBVIOUS
  <2>3. d # None /\ d.at = "countInterviews" /\ Await(r, c) /\ SameJobs
    BY <1>1, <1>3, <1>7, <2>1, <2>2 DEF CountInterviews, At, tables
  <2>4. c.op = d.op /\ c.jobRow = d.jobRow /\ c.job = d.job /\ c.at = "insertInterview"
    BY <1>2, <2>2, <2>3 DEF Call
  <2> QED BY <1>1, <2>3, <2>4, SerialGoesOn DEF IInv
<1>8. CASE Reread(r)
  <2>1. PICK row : row = [submissions[d.submission] EXCEPT !.status = StatusAfter(d.arg, @)]
    OBVIOUS
  <2>2. PICK c : c = IF d.arg = "Cancelled" THEN [d EXCEPT !.at = "log"]
                       ELSE [d EXCEPT !.at = "saveSubmission", !.submissionRow = row]
    OBVIOUS
  <2>3. d # None /\ d.at = "reread" /\ Await(r, c) /\ SameJobs
    BY <1>1, <1>3, <1>8, <2>1, <2>2 DEF Reread, At, tables
  <2>4. /\ c.op = d.op /\ c.jobRow = d.jobRow /\ c.job = d.job
        /\ c.at \in {"log", "saveSubmission"}
    BY <1>2, <2>2, <2>3 DEF Call
  <2> QED BY <1>1, <2>3, <2>4, SerialGoesOn DEF IInv
<1>9. CASE ReadJob(r)
  <2>1. PICK row : row = [jobs[d.job] EXCEPT !.placementCount = jobs[d.job].placementCount + 1,
                                             !.status = "Filled"]
    OBVIOUS
  <2>2. PICK c : c = IF JobFound(d.job)
                       THEN [d EXCEPT !.at = "saveSubmission", !.jobRow = row] ELSE None
    OBVIOUS
  <2>3. d # None /\ d.at = "readJob" /\ Await(r, c) /\ SameJobs
    BY <1>1, <1>3, <1>9, <2>1, <2>2 DEF ReadJob, At, tables, WithPlacement
  <2>4. c # None => RowFresh(c) /\ c.at = "saveSubmission"
    <3> SUFFICES ASSUME c # None PROVE RowFresh(c) /\ c.at = "saveSubmission" OBVIOUS
    <3>1. JobFound(d.job) /\ c = [d EXCEPT !.at = "saveSubmission", !.jobRow = row] BY <2>2
    <3>2. c.op = "place" /\ c.job = d.job /\ c.jobRow = row /\ c.at = "saveSubmission"
      BY <1>2, <2>3, <3>1 DEF Call, WellFormed, OnCourse
    <3>3. d.job \in Jobs BY <1>2, <2>3 DEF WellFormed
    <3>4. jobs[d.job] \in JobRow BY <3>1, <3>3 DEF JobFound, Exists, IInv, TypeOK
    <3>5. /\ row.submissionCount = jobs[d.job].submissionCount
          /\ row.placementCount = jobs[d.job].placementCount + 1
          /\ jobs[d.job].submissionCount \in Nat
      BY <2>1, <3>4 DEF JobRow
    <3> QED BY <3>1, <3>2, <3>5 DEF RowFresh, JobFound, Ahead
  <2>5. Turns(r, d, c) /\ aborts' = aborts BY <1>1, <2>3 DEF Await, Turns
  <2> QED BY <2>3, <2>4, <2>5, SerialQuiet DEF IInv
<1>10. ASSUME NEW i \in Interviews, InsertInterview(r, i) PROVE SerialInv(r)'
  <2>1. PICK c : c = [d EXCEPT !.at = "saveSubmission"] OBVIOUS
  <2>2. d # None /\ d.at = "insertInterview" /\ Await(r, c) /\ SameJobs
    BY <1>1, <1>3, <1>10, <2>1 DEF InsertInterview, At
  <2> QED BY <1>4, <2>1, <2>2
<1>11. ASSUME NEW o \in Offers, InsertOffer(r, o) PROVE SerialInv(r)'
  <2>1. PICK c : c = [d EXCEPT !.at = "saveSubmission"] OBVIOUS
  <2>2. d # None /\ d.at = "insertOffer" /\ Await(r, c) /\ SameJobs
    BY <1>1, <1>3, <1>11, <2>1 DEF InsertOffer, At
  <2> QED BY <1>4, <2>1, <2>2
<1>12. CASE AppendActivity(r)
  <2>1. PICK rest : rest = Tail(d.trail) OBVIOUS
  <2>2. PICK c : c = IF Len(d.trail) = 1 THEN None ELSE [d EXCEPT !.trail = rest] OBVIOUS
  <2>3. d # None /\ d.at = "log" /\ Await(r, c) /\ SameJobs
    BY <1>1, <1>3, <1>12, <2>1, <2>2 DEF AppendActivity, At
  <2>4. c # None => c.at = "log" BY <1>2, <2>2, <2>3 DEF Call
  <2> QED BY <1>1, <2>3, <2>4, SerialGoesOn DEF IInv
<1> QED BY <1>5, <1>6, <1>7, <1>8, <1>9, <1>10, <1>11, <1>12

(* An inserted submission is counted next.                                 *)
LEMMA SerialInsertSubmission ==
    ASSUME IInv, NEW r \in Requests, SerialInv(r), NEW s \in Submissions, InsertSubmission(r, s)
    PROVE  SerialInv(r)' /\ \A j \in Jobs : Exists(jobs, j) /\ jobs[j].deleted =>
                               SubmissionsOf(j)' = SubmissionsOf(j)
<1>1. PICK d : d = request[r] OBVIOUS
<1>2. d # None /\ d.at = "insertSubmission" BY <1>1 DEF InsertSubmission, At
<1>3. /\ d \in Call /\ d.op = "submit" /\ d.jobRow # None /\ RowFresh(d)
      /\ d.job \in Jobs /\ d.candidate \in Candidates /\ Exists(jobs, d.job)
  BY <1>1, <1>2
  DEF IInv, TypeOK, CallsOK, CallOK, WellFormed, OnCourse, Refers, SerialInv
<1>4. PICK c : c = [d EXCEPT !.at = "saveJob", !.submission = s] OBVIOUS
<1>5. c.op = d.op /\ c.job = d.job /\ c.jobRow = d.jobRow /\ c.at = "saveJob" /\ c \in Call
  BY <1>3, <1>4 DEF Call, Steps
<1>6. Turns(r, d, c) /\ aborts' = aborts /\ UNCHANGED <<jobs, placements>>
  BY <1>1, <1>4 DEF InsertSubmission, Await, Turns
<1>7. RowFresh(c)' BY <1>2, <1>3, <1>5, <1>6 DEF RowFresh, Ahead
<1>8. PICK row : row = [candidate |-> d.candidate, job |-> d.job, status |-> "Submitted"] OBVIOUS
<1>9. row # None /\ row.job = d.job
  <2>1. row \in SubmissionRow BY <1>3, <1>8 DEF SubmissionRow, SubmissionStatuses
  <2> QED BY <1>8, <2>1, PipelineAssumption
<1>10. submissions' = [submissions EXCEPT ![s] = row] /\ ~Exists(submissions, s)
  BY <1>1, <1>8 DEF InsertSubmission, FreshSubmission
<1>11. \A t \in Submissions : submissions'[t] = IF t = s THEN row ELSE submissions[t]
  BY <1>10 DEF IInv, TypeOK
<1>12. SubmissionsOf(d.job)' = SubmissionsOf(d.job) \cup {s}
  BY <1>9, <1>11 DEF SubmissionsOf, Exists
<1>13. \A j \in Jobs : j # d.job => SubmissionsOf(j)' = SubmissionsOf(j)
  BY <1>9, <1>10, <1>11 DEF SubmissionsOf, Exists
<1>14. s \notin SubmissionsOf(d.job) BY <1>10 DEF SubmissionsOf
<1>15. Cardinality(SubmissionsOf(d.job)') = Cardinality(SubmissionsOf(d.job)) + 1
  BY <1>3, <1>12, <1>14, Countable, FS_AddElement
<1>16. ASSUME aborts' = 0, NEW j \in Jobs PROVE CountsFit(c, j)'
  <2>1. CountsFit(d, j) BY <1>1, <1>6, <1>16 DEF SerialInv
  <2>2. /\ Due(d, j, "submit") = 0 /\ Due(d, j, "place") = 0 /\ Due(c, j, "place") = 0
        /\ Due(c, j, "submit") = IF j = d.job THEN 1 ELSE 0
    BY <1>2, <1>3, <1>5, PipelineAssumption DEF Due
  <2>3. Cardinality(SubmissionsOf(j)) \in Nat BY Countable
  <2>4. Exists(jobs, j) => jobs[j].submissionCount \in Nat BY DEF IInv, TypeOK, Exists, JobRow
  <2>5. CASE j = d.job BY <1>6, <1>15, <2>1, <2>2, <2>3, <2>4, <2>5 DEF CountsFit, Exists
  <2>6. CASE j # d.job
    <3>1. SubmissionsOf(j)' = SubmissionsOf(j) BY <1>13, <2>6
    <3> QED BY <1>6, <2>1, <2>2, <2>6, <3>1 DEF CountsFit, Exists
  <2> QED BY <2>5, <2>6
<1>17. ~jobs[d.job].deleted BY <1>2, <1>3 DEF RowFresh
<1>18. SerialInv(r)' BY <1>6, <1>7, <1>16, SerialStep DEF IInv
<1> QED BY <1>13, <1>17, <1>18

(* So is a placement that has been written.                                *)
LEMMA SerialSaveSubmission ==
    ASSUME IInv, NEW r \in Requests, SerialInv(r), SaveSubmission(r)
    PROVE  SerialInv(r)'
<1>1. PICK d : d = request[r] OBVIOUS
<1>2. d # None /\ d.at = "saveSubmission" BY <1>1 DEF SaveSubmission, At
<1>3. d \in Call /\ d.op # "submit" /\ RowFresh(d) /\ d.job \in Jobs /\ Exists(jobs, d.job)
  BY <1>1, <1>2
  DEF IInv, TypeOK, CallsOK, CallOK, WellFormed, OnCourse, Refers, SerialInv
<1>4. PICK at : at = IF d.op = "place" THEN "saveJob" ELSE "log" OBVIOUS
<1>5. PICK c : c = [d EXCEPT !.at = at] OBVIOUS
<1>6. c \in Call /\ c.op = d.op /\ c.job = d.job /\ c.jobRow = d.jobRow /\ c.at = at
  BY <1>3, <1>4, <1>5, SetAt DEF Steps
<1>7. Turns(r, d, c) /\ aborts' = aborts /\ UNCHANGED jobs
  BY <1>1, <1>4, <1>5 DEF SaveSubmission, Await, Turns
<1>8. RowFresh(c)' BY <1>2, <1>3, <1>6, <1>7 DEF RowFresh, Ahead
<1>9. \A j \in Jobs : placements'[j] =
          IF d.op = "place" /\ j = d.job THEN placements[j] + 1 ELSE placements[j]
  BY <1>1, <1>3 DEF SaveSubmission, IInv, TypeOK
<1>10. ASSUME aborts' = 0, NEW j \in Jobs PROVE CountsFit(c, j)'
  <2>1. CountsFit(d, j) BY <1>1, <1>7, <1>10 DEF SerialInv
  <2>2. /\ Due(d, j, "submit") = 0 /\ Due(d, j, "place") = 0 /\ Due(c, j, "submit") = 0
        /\ Due(c, j, "place") = IF d.op = "place" /\ j = d.job THEN 1 ELSE 0
    BY <1>2, <1>3, <1>4, <1>6, PipelineAssumption DEF Due
  <2>3. placements[j] \in Nat BY DEF IInv, TypeOK
  <2>4. Exists(jobs, j) => jobs[j].placementCount \in Nat BY DEF IInv, TypeOK, Exists, JobRow
  <2>5. SubmissionsOf(j)' = SubmissionsOf(j) BY SavedStaysInJob
  <2> QED BY <1>3, <1>7, <1>9, <2>1, <2>2, <2>3, <2>4, <2>5 DEF CountsFit, Exists
<1> QED BY <1>7, <1>8, <1>10, SerialStep DEF IInv

(* The row that is saved is one ahead where it is due, and of no deleted   *)
(* job.                                                                    *)
LEMMA SerialSaveJob ==
    ASSUME IInv, NEW r \in Requests, SerialInv(r), SaveJob(r)
    PROVE  SerialInv(r)' /\ \A j \in Jobs : Exists(jobs, j) /\ jobs[j].deleted => jobs'[j] = jobs[j]
<1>1. PICK d : d = request[r] OBVIOUS
<1>2. d # None /\ d.at = "saveJob" BY <1>1 DEF SaveJob, At
<1>3. /\ d \in Call /\ d.op \in {"editJob", "submit", "place"} /\ d.jobRow # None /\ RowFresh(d)
      /\ d.job \in Jobs /\ Exists(jobs, d.job)
  BY <1>1, <1>2
  DEF IInv, TypeOK, CallsOK, CallOK, WellFormed, OnCourse, Refers, SerialInv
<1>4. PICK c : c = IF d.op = "editJob" THEN None ELSE [d EXCEPT !.at = "log"] OBVIOUS
<1>5. Turns(r, d, c) /\ aborts' = aborts /\ UNCHANGED <<submissions, placements>>
  BY <1>1, <1>4 DEF SaveJob, Await, Turns
<1>6. c # None => c.at = "log" BY <1>3, <1>4, SetAt DEF Steps
<1>7. c # None => RowFresh(c)' BY <1>6 DEF RowFresh
<1>8. \A j \in Jobs : jobs'[j] = IF j = d.job THEN d.jobRow ELSE jobs[j]
  BY <1>1 DEF SaveJob, IInv, TypeOK
<1>9. /\ ~jobs[d.job].deleted
      /\ d.jobRow.submissionCount = jobs[d.job].submissionCount + Ahead(d, "submit")
      /\ d.jobRow.placementCount = jobs[d.job].placementCount + Ahead(d, "place")
  BY <1>2, <1>3 DEF RowFresh
<1>10. ASSUME aborts' = 0, NEW j \in Jobs PROVE CountsFit(c, j)'
  <2>1. CountsFit(d, j) BY <1>1, <1>5, <1>10 DEF SerialInv
  <2>2. Due(c, j, "submit") = 0 /\ Due(c, j, "place") = 0 BY <1>6 DEF Due
  <2>3. /\ Due(d, j, "submit") = IF j = d.job THEN Ahead(d, "submit") ELSE 0
        /\ Due(d, j, "place") = IF j = d.job THEN Ahead(d, "place") ELSE 0
    BY <1>2 DEF Due, Ahead
  <2>4. SubmissionsOf(j)' = SubmissionsOf(j) BY <1>5, SubmissionsKept
  <2>5. jobs[d.job] \in JobRow /\ d.jobRow \in JobRow
    BY <1>3 DEF IInv, TypeOK, Exists, Call
  <2>6. /\ d.jobRow.submissionCount \in Nat /\ d.jobRow.placementCount \in Nat
    BY <2>5 DEF JobRow
  <2>7. CASE j = d.job
    <3>1. jobs'[j] = d.jobRow BY <1>8, <2>7
    <3>2. /\ d.jobRow.submissionCount = Cardinality(SubmissionsOf(j))
          /\ d.jobRow.placementCount = placements[j]
      BY <1>3, <1>9, <2>1, <2>3, <2>7 DEF CountsFit
    <3> QED BY <1>3, <1>5, <2>2, <2>4, <2>6, <3>1, <3>2 DEF CountsFit, Exists
  <2>8. CASE j # d.job
    <3>1. jobs'[j] = jobs[j] BY <1>8, <2>8
    <3>2. Due(d, j, "submit") = 0 /\ Due(d, j, "place") = 0 BY <2>3, <2>8
    <3> QED BY <1>5, <2>1, <2>2, <2>4, <3>1, <3>2 DEF CountsFit, Exists
  <2> QED BY <2>7, <2>8
<1>11. SerialInv(r)' BY <1>5, <1>7, <1>10, SerialStep DEF IInv
<1> QED BY <1>8, <1>9, <1>11

(* A request that is cut short ends the promise on counts.                 *)
LEMMA SerialAbort ==
    ASSUME IInv, NEW r \in Requests, SerialInv(r), Abort(r)
    PROVE  SerialInv(r)'
<1>1. aborts' # 0 /\ Turns(r, request[r], None) BY DEF Abort, IInv, TypeOK, Turns
<1> QED BY <1>1, SerialStep DEF IInv

(* No job, no count.                                                       *)
LEMMA InitSerialInv == ASSUME NEW r \in Requests PROVE Init => SerialInv(r)
<1> SUFFICES ASSUME Init PROVE SerialInv(r) OBVIOUS
<1> QED BY DEF Init, SerialInv, CountsFit, Exists

(* The one slot keeps its invariant.                                       *)
LEMMA NextSerialInv ==
    ASSUME NEW r, Requests = {r}
    PROVE  IInv /\ SerialInv(r) /\ [Next]_vars => SerialInv(r)'
<1> SUFFICES ASSUME IInv, SerialInv(r), [Next]_vars PROVE SerialInv(r)' OBVIOUS
<1>1. r \in Requests OBVIOUS
<1>2. ASSUME Continue(r) PROVE SerialInv(r)'
  BY <1>1, <1>2, SerialWaiting, SerialInsertSubmission, SerialSaveSubmission, SerialSaveJob,
     SerialAbort
  DEF Continue
<1>3. CASE UNCHANGED vars
  <2>1. /\ request' = request /\ aborts' = aborts /\ jobs' = jobs /\ submissions' = submissions
        /\ placements' = placements
    BY <1>3 DEF vars, tables
  <2>2. RowFresh(request[r])' <=> RowFresh(request[r]) BY <2>1 DEF RowFresh
  <2>3. \A j : CountsFit(request[r], j)' <=> CountsFit(request[r], j)
    BY <2>1 DEF CountsFit, SubmissionsOf, Exists
  <2> QED BY <2>1, <2>2, <2>3 DEF SerialInv
<1> QED BY <1>1, <1>2, <1>3, SerialJobRequest, SerialRecruitmentRequest DEF Next

(* So it holds whenever there is one slot.                                 *)
LEMMA SerialInvariance == ASSUME NEW r, Requests = {r} PROVE Spec => []SerialInv(r)
<1>1. r \in Requests OBVIOUS
<1>2. Init => SerialInv(r) BY <1>1, InitSerialInv
<1>3. IInv /\ SerialInv(r) /\ [Next]_vars => SerialInv(r)' BY NextSerialInv
<1> QED BY <1>2, <1>3, Invariance, PTL DEF Spec

(* Handlers that run one after the other, none of them cut short, leave a  *)
(* job counting exactly its submissions and its placements, over any       *)
(* number of jobs, edits, deletions and completions (JobService's          *)
(* submitCandidate, RecruitmentService's markPlaced).                      *)
THEOREM SerialCountsExact ==
    ASSUME NEW r, Requests = {r}
    PROVE  Spec => []CountsExactAtRest
<1>1. ASSUME IInv, SerialInv(r) PROVE CountsExactAtRest
  <2> SUFFICES ASSUME aborts = 0, AtRest, NEW j \in Jobs, Exists(jobs, j)
               PROVE  /\ jobs[j].submissionCount = Cardinality(SubmissionsOf(j))
                      /\ jobs[j].placementCount = placements[j]
    BY DEF CountsExactAtRest
  <2>1. request[r] = None BY DEF AtRest
  <2>2. Due(None, j, "submit") = 0 /\ Due(None, j, "place") = 0 BY DEF Due
  <2>3. CountsFit(None, j) BY <1>1, <2>1 DEF SerialInv
  <2>4. jobs[j] \in JobRow BY <1>1 DEF IInv, TypeOK, Exists
  <2> QED BY <2>2, <2>3, <2>4 DEF CountsFit, JobRow
<1>2. IInv /\ SerialInv(r) => CountsExactAtRest BY <1>1
<1>3. Spec => []SerialInv(r) BY SerialInvariance
<1> QED BY <1>2, <1>3, Invariance, PTL

(* A step of a single request at a time never writes a deleted job, nor    *)
(* adds a submission to one.                                               *)
LEMMA FrozenStep ==
    ASSUME NEW r, Requests = {r}, IInv, SerialInv(r), [Next]_vars,
           NEW j \in Jobs, Exists(jobs, j), jobs[j].deleted
    PROVE  jobs'[j] = jobs[j] /\ SubmissionsOf(j)' = SubmissionsOf(j)
<1>1. r \in Requests OBVIOUS
<1>2. ASSUME UNCHANGED jobs, UNCHANGED submissions
      PROVE  jobs'[j] = jobs[j] /\ SubmissionsOf(j)' = SubmissionsOf(j)
  BY <1>2, SubmissionsKept
<1>3. CASE JobRequest(r)
  <2>1. UNCHANGED submissions
    BY <1>3 DEF JobRequest, CreateJob, UpdateJob, ReviewField, MarkReady, SoftDelete, EditJob,
                SubmitCandidate, tables
  <2>2. SubmissionsOf(j)' = SubmissionsOf(j) BY <2>1, SubmissionsKept
  <2>3. UNCHANGED jobs \/ \E k \in Jobs, status \in JobPatches : CreateJob(r, k, status)
    BY <1>3 DEF JobRequest, UpdateJob, ReviewField, MarkReady, SoftDelete, EditJob,
                SubmitCandidate, tables
  <2>4. ASSUME NEW k \in Jobs, NEW status \in JobPatches, CreateJob(r, k, status)
        PROVE  jobs'[j] = jobs[j]
    <3>1. k # j BY <2>4 DEF CreateJob
    <3> QED BY <2>4, <3>1 DEF CreateJob, IInv, TypeOK
  <2> QED BY <2>2, <2>3, <2>4
<1>4. CASE RecruitmentRequest(r)
  <2>1. UNCHANGED jobs /\ UNCHANGED submissions
    BY <1>4 DEF RecruitmentRequest, UpdateStatus, Reject, Withdraw, SetStatus, ScheduleInterview,
                CreateOffer, MarkPlaced, CompleteInterview, UpdateOfferStatus, tables
  <2> QED BY <1>2, <2>1
<1>5. CASE Continue(r)
  <2>1. ASSUME NEW s \in Submissions, InsertSubmission(r, s)
        PROVE  jobs'[j] = jobs[j] /\ SubmissionsOf(j)' = SubmissionsOf(j)
    BY <1>1, <2>1, SerialInsertSubmission DEF InsertSubmission
  <2>2. CASE SaveSubmission(r) BY <1>1, <2>2, SavedStaysInJob DEF SaveSubmission
  <2>3. CASE SaveJob(r)
    <3>1. jobs'[j] = jobs[j] BY <1>1, <2>3, SerialSaveJob
    <3>2. SubmissionsOf(j)' = SubmissionsOf(j) BY <2>3, SubmissionsKept DEF SaveJob
    <3> QED BY <3>1, <3>2
  <2>4. \/ \E s \in Submissions : InsertSubmission(r, s)
        \/ SaveSubmission(r) \/ SaveJob(r)
        \/ UNCHANGED jobs /\ UNCHANGED submissions
    BY <1>5 DEF Continue, FindDuplicate, RefuseInsert, CountInterviews, InsertInterview,
                InsertOffer, Reread, ReadJob, AppendActivity, Abort, tables
  <2> QED BY <1>2, <2>1, <2>2, <2>3, <2>4
<1>6. CASE UNCHANGED vars BY <1>2, <1>6 DEF vars, tables
<1> QED BY <1>3, <1>4, <1>5, <1>6 DEF Next

(* A soft-deleted job is never written again and receives no submission    *)
(* from handlers that run one after the other.                             *)
THEOREM DeletedStaysFrozen ==
    ASSUME NEW r, Requests = {r}
    PROVE  Spec => DeletedJobFrozen
<1>1. IInv /\ SerialInv(r) /\ [Next]_vars =>
          [\A j \in Jobs : Exists(jobs, j) /\ jobs[j].deleted =>
              /\ jobs'[j] = jobs[j]
              /\ SubmissionsOf(j)' = SubmissionsOf(j)]_vars
  BY FrozenStep
<1>2. Spec => []SerialInv(r) BY SerialInvariance
<1> QED BY <1>1, <1>2, Invariance, PTL DEF Spec, DeletedJobFrozen

-----------------------------------------------------------------------------
(* The integrity check (DataIntegrityChecker.check), which reads one table *)
(* after the other while requests write.  CheckOK says what the tables     *)
(* read so far know of a defect that stands, and of a row that was there   *)
(* when the check began.                                                   *)

OrphanJob(s) == <<"SUBMISSION_ORPHAN_JOB", s>>
NoOffer(s) == <<"PLACEMENT_WITHOUT_ACCEPTED_OFFER", s>>

(* The rows of a table that the check has read are still there, and those  *)
(* from before it began refer to submissions it reads.                     *)
RowsKnown(name, rows) ==
    /\ \A x \in before[name] : x \in DOMAIN rows /\ Exists(rows, x)
    /\ check["submissions"] # None =>
          \A x \in before[name] : Exists(check["submissions"], rows[x].submission)
    /\ check[name] # None =>
          \A x \in DOMAIN check[name] : Exists(check[name], x) =>
              /\ x \in DOMAIN rows /\ Exists(rows, x)
              /\ rows[x].submission = check[name][x].submission

DefectsKnown ==
    /\ standing \subseteq Defects
    /\ \A s \in Submissions : OrphanJob(s) \in standing =>
          /\ check["jobs"] # None => submissions[s].job \notin check["jobs"]
          /\ check["submissions"] # None =>
                Exists(check["submissions"], s) /\ check["submissions"][s].job = submissions[s].job
    /\ \A s \in Submissions : NoOffer(s) \in standing =>
          /\ check["submissions"] # None =>
                Exists(check["submissions"], s) /\ check["submissions"][s].status = "Placed"
          /\ check["offers"] # None => ~Accepted(check["offers"], s)

CheckOK ==
    check # None =>
        /\ check = [t \in Tables |-> check[t]]
        /\ findings = None
        /\ DefectsKnown
        /\ RowsKnown("interviews", interviews) /\ RowsKnown("offers", offers)

(* What is still true of an orphan that was reported.                      *)
Torn(name, rows, x) ==
    /\ x \notin before[name]
    /\ x \in DOMAIN rows /\ Exists(rows, x) /\ Exists(submissions, rows[x].submission)

FindingsOK ==
    check = None /\ findings # None =>
        /\ StandingReported
        /\ \A o \in Offers : <<"OFFER_ORPHAN", o>> \in findings => Torn("offers", offers, o)
        /\ \A i \in Interviews : <<"INTERVIEW_ORPHAN", i>> \in findings =>
              Torn("interviews", interviews, i)

(* The inductive invariant of the check.                                   *)
CheckInv == CheckOK /\ FindingsOK

(* To the pipeline, a report and a view are steps that change nothing; so  *)
(* its invariant holds beside them, and the rows stay.                     *)
LEMMA ViewsStep == [ViewsNext]_everything => [Next]_vars
<1> SUFFICES ASSUME [ViewsNext]_everything PROVE [Next]_vars OBVIOUS
<1>1. CASE ReadinessNext
  BY <1>1
  DEF ReadinessNext, Serve, StartCheck, LoadTable, Report, StartReplay, ReplaySubmission,
      ReplayOffers, ReplayActivities, ReplayEnds, Push
<1>2. CASE \E kind \in DOMAIN Reads : Open(kind) BY <1>2 DEF Open
<1>3. CASE Read BY <1>3 DEF Read, allVars
<1>4. CASE UNCHANGED everything BY <1>4 DEF everything, allVars
<1> QED BY <1>1, <1>2, <1>3, <1>4 DEF ViewsNext

LEMMA ViewsKeepRows == IInv /\ [ViewsNext]_everything => IInv' /\ RowsStay
BY ViewsStep, NextKeepsRows

LEMMA ViewsInvariance == ViewsSpec => []IInv
<1>1. ViewsInit => IInv BY InitIInv DEF ViewsInit, ReadinessInit
<1> QED BY <1>1, ViewsKeepRows, PTL DEF ViewsSpec

(* Interviews and offers stay with their submission.                       *)
LEMMA ReferrersStay ==
    ASSUME IInv, RowsStay, IInv'
    PROVE  /\ \A i \in Interviews : Exists(interviews, i) =>
                 Exists(interviews', i) /\ interviews'[i].submission = interviews[i].submission
           /\ \A o \in Offers : Exists(offers, o) =>
                 Exists(offers', o) /\ offers'[o].submission = offers[o].submission
<1>1. ASSUME NEW i \in Interviews, Exists(interviews, i)
      PROVE  Exists(interviews', i) /\ interviews'[i].submission = interviews[i].submission
  <2>1. PICK s : s = interviews[i].submission OBVIOUS
  <2>2. s \in Submissions /\ i \in InterviewsOf(s)
    BY <1>1, <2>1 DEF IInv, TypeOK, Exists, InterviewRow, InterviewsOf
  <2>3. i \in InterviewsOf(s)' BY <2>2 DEF RowsStay
  <2> QED BY <2>1, <2>3 DEF InterviewsOf, Exists
<1>2. ASSUME NEW o \in Offers, Exists(offers, o)
      PROVE  Exists(offers', o) /\ offers'[o].submission = offers[o].submission
  <2>1. PICK s : s = offers[o].submission OBVIOUS
  <2>2. s \in Submissions /\ o \in OffersOf(s)
    BY <1>2, <2>1 DEF IInv, TypeOK, Exists, OfferRow, OffersOf
  <2>3. o \in OffersOf(s)' BY <2>2 DEF RowsStay
  <2> QED BY <2>1, <2>3 DEF OffersOf, Exists
<1> QED BY <1>1, <1>2

(* Every interview and every offer refers to a submission.                 *)
LEMMA Referred ==
    ASSUME IInv
    PROVE  /\ DOMAIN interviews = Interviews /\ DOMAIN offers = Offers
           /\ DOMAIN submissions = Submissions
           /\ \A i \in Interviews : Exists(interviews, i) =>
                 /\ interviews[i].submission \in Submissions
                 /\ Exists(submissions, interviews[i].submission)
           /\ \A o \in Offers : Exists(offers, o) =>
                 /\ offers[o].submission \in Submissions
                 /\ Exists(submissions, offers[o].submission)
<1>1. DOMAIN interviews = Interviews /\ DOMAIN offers = Offers /\ DOMAIN submissions = Submissions
  BY DEF IInv, TypeOK
<1>2. \A i \in Interviews : Exists(interviews, i) => interviews[i].submission \in Submissions
  BY DEF IInv, TypeOK, Exists, InterviewRow
<1>3. \A o \in Offers : Exists(offers, o) => offers[o].submission \in Submissions
  BY DEF IInv, TypeOK, Exists, OfferRow
<1> QED BY <1>1, <1>2, <1>3 DEF IInv, TablesOK, ReferencesAgree

(* A request leaves what the check has read, and what it knows of it.      *)
LEMMA ServeChecked ==
    ASSUME IInv, IInv', RowsStay, CheckInv, Serve
    PROVE  CheckInv'
<1>1. check' = check /\ findings' = findings /\ before' = before
  BY DEF Serve, reportVars
<1>2. CASE check # None
  <2>1. /\ standing' = standing \cap Defects' /\ standing \subseteq Defects
    BY <1>2 DEF Serve, CheckInv, CheckOK, DefectsKnown
  <2>2. \A s \in Submissions : OrphanJob(s) \in standing =>
            Exists(submissions, s) /\ submissions'[s].job = submissions[s].job
    <3> SUFFICES ASSUME NEW s \in Submissions, OrphanJob(s) \in standing
                 PROVE  Exists(submissions, s)
      BY DEF RowsStay
    <3> QED BY <2>1 DEF Defects, OrphanJob
  <2>3. DefectsKnown'
    <3>1. \A s \in Submissions : OrphanJob(s) \in standing' => OrphanJob(s) \in standing BY <2>1
    <3>2. \A s \in Submissions : NoOffer(s) \in standing' => NoOffer(s) \in standing BY <2>1
    <3>3. standing' \subseteq Defects' BY <2>1
    <3>4. DefectsKnown BY <1>2 DEF CheckInv, CheckOK
    <3> QED BY <1>1, <2>2, <3>1, <3>2, <3>3, <3>4 DEF DefectsKnown, OrphanJob, NoOffer, Exists, Accepted
  <2>4. RowsKnown("interviews", interviews) /\ RowsKnown("offers", offers)
    BY <1>2 DEF CheckInv, CheckOK
  <2>5. RowsKnown("interviews", interviews)'
    BY <1>1, <2>4, Referred, ReferrersStay DEF RowsKnown, Exists, IInv, TypeOK
  <2>6. RowsKnown("offers", offers)'
    <3>1. /\ DOMAIN offers = Offers /\ DOMAIN offers' = Offers
          /\ DOMAIN submissions = Submissions /\ DOMAIN submissions' = Submissions
      BY DEF IInv, TypeOK
    <3>2. \A o \in Offers : Exists(offers, o) =>
              Exists(offers', o) /\ offers'[o].submission = offers[o].submission
      BY ReferrersStay
    <3> QED BY <1>1, <2>4, <3>1, <3>2 DEF RowsKnown, Exists
  <2> QED BY <1>1, <1>2, <2>3, <2>5, <2>6 DEF CheckInv, CheckOK, FindingsOK
<1>3. CASE check = None
  <2>1. standing' = standing BY <1>3 DEF Serve
  <2>2. \A o \in Offers : Torn("offers", offers, o) => Torn("offers", offers, o)'
    BY <1>1, Referred, ReferrersStay DEF Torn, RowsStay, IInv, TypeOK
  <2>3. \A i \in Interviews :
            Torn("interviews", interviews, i) => Torn("interviews", interviews, i)'
    BY <1>1, Referred, ReferrersStay DEF Torn, RowsStay, IInv, TypeOK
  <2> QED BY <1>1, <1>3, <2>1, <2>2, <2>3 DEF CheckInv, CheckOK, FindingsOK, StandingReported
<1> QED BY <1>2, <1>3

(* A check begins with the defects there are and no table read.            *)
LEMMA StartChecked ==
    ASSUME IInv, CheckInv, StartCheck
    PROVE  CheckInv'
<1>1. /\ check' = [t \in Tables |-> None] /\ findings' = None /\ standing' = Defects
      /\ before' = [interviews |-> {i \in Interviews : Exists(interviews, i)},
                    offers |-> {o \in Offers : Exists(offers, o)}]
      /\ UNCHANGED tables
  BY DEF StartCheck, vars
<1>2. \A t \in Tables : check'[t] = None BY <1>1
<1>3. Defects' = Defects
  BY <1>1 DEF tables, Defects, Exists, OffersOf
<1>4. DefectsKnown' BY <1>1, <1>2, <1>3 DEF DefectsKnown, Tables
<1>5. \A i \in before'["interviews"] : i \in Interviews /\ Exists(interviews, i) BY <1>1
<1>6. \A o \in before'["offers"] : o \in Offers /\ Exists(offers, o) BY <1>1
<1>7. interviews' = interviews /\ offers' = offers BY <1>1 DEF tables
<1>8. RowsKnown("interviews", interviews)' /\ RowsKnown("offers", offers)'
  BY <1>2, <1>5, <1>6, <1>7, Referred DEF RowsKnown, Tables, Exists
<1>9. CheckOK' BY <1>1, <1>2, <1>4, <1>8 DEF CheckOK
<1>10. FindingsOK' BY <1>1 DEF FindingsOK
<1> QED BY <1>9, <1>10 DEF CheckInv

(* A table is read as it is.                                               *)
LEMMA LoadChecked ==
    ASSUME IInv, CheckInv, NEW table \in Tables, LoadTable(table)
    PROVE  CheckInv'
<1>1. /\ check # None /\ check[table] = None /\ check' = [check EXCEPT ![table] = Loaded(table)]
      /\ UNCHANGED <<tables, findings, standing, before>>
  BY DEF LoadTable, vars, history
<1>2. check = [t \in Tables |-> check[t]] /\ findings = None /\ DefectsKnown
      /\ RowsKnown("interviews", interviews) /\ RowsKnown("offers", offers)
  BY <1>1 DEF CheckInv, CheckOK
<1>3. /\ check' = [t \in Tables |-> check'[t]]
      /\ \A t \in Tables : check'[t] = IF t = table THEN Loaded(table) ELSE check[t]
  BY <1>1, <1>2
<1>4. /\ interviews' = interviews /\ offers' = offers /\ submissions' = submissions
      /\ jobs' = jobs /\ standing' = standing /\ before' = before /\ findings' = findings
  BY <1>1 DEF tables
<1>5. Defects' = Defects BY <1>4 DEF Defects, Exists, OffersOf
<1>6. \A s \in Submissions : OrphanJob(s) \in standing =>
          /\ Exists(submissions, s) /\ jobs[submissions[s].job].deleted
  BY <1>2 DEF DefectsKnown, Defects, OrphanJob
<1>7. \A s \in Submissions : NoOffer(s) \in standing =>
          /\ Exists(submissions, s) /\ submissions[s].status = "Placed"
          /\ ~\E o \in OffersOf(s) : offers[o].status = "Accepted"
  BY <1>2 DEF DefectsKnown, Defects, NoOffer
<1>8. CASE table = "jobs"
  <2>1. /\ check'["jobs"] = {j \in Jobs : JobFound(j)}
        /\ \A t \in {"submissions", "interviews", "offers"} : check'[t] = check[t]
    BY <1>3, <1>8 DEF Tables, Loaded
  <2>2. \A s \in Submissions : OrphanJob(s) \in standing =>
            submissions[s].job \notin check'["jobs"]
    BY <1>6, <2>1 DEF JobFound
  <2>3. DefectsKnown' BY <1>2, <1>4, <1>5, <2>1, <2>2 DEF DefectsKnown
  <2>4. RowsKnown("interviews", interviews)' /\ RowsKnown("offers", offers)'
    BY <1>2, <1>4, <2>1 DEF RowsKnown
  <2> QED BY <1>1, <1>2, <1>3, <1>4, <2>3, <2>4 DEF CheckInv, CheckOK, FindingsOK
<1>9. CASE table = "submissions"
  <2>1. /\ check'["submissions"] = submissions
        /\ \A t \in {"jobs", "interviews", "offers"} : check'[t] = check[t]
    BY <1>3, <1>9 DEF Tables, Loaded
  <2>2. DefectsKnown' BY <1>2, <1>4, <1>5, <1>6, <1>7, <2>1 DEF DefectsKnown
  <2>3. RowsKnown("interviews", interviews)' /\ RowsKnown("offers", offers)'
    BY <1>2, <1>4, <2>1, Referred DEF RowsKnown
  <2> QED BY <1>1, <1>2, <1>3, <1>4, <2>2, <2>3 DEF CheckInv, CheckOK, FindingsOK
<1>10. CASE table = "interviews"
  <2>1. /\ check'["interviews"] = interviews
        /\ \A t \in {"jobs", "submissions", "offers"} : check'[t] = check[t]
    BY <1>3, <1>10 DEF Tables, Loaded
  <2>2. DefectsKnown' BY <1>2, <1>4, <1>5, <2>1 DEF DefectsKnown
  <2>3. RowsKnown("interviews", interviews)' /\ RowsKnown("offers", offers)'
    BY <1>2, <1>4, <2>1 DEF RowsKnown
  <2> QED BY <1>1, <1>2, <1>3, <1>4, <2>2, <2>3 DEF CheckInv, CheckOK, FindingsOK
<1>11. CASE table = "offers"
  <2>1. /\ check'["offers"] = offers
        /\ \A t \in {"jobs", "submissions", "interviews"} : check'[t] = check[t]
    BY <1>3, <1>11 DEF Tables, Loaded
  <2>2. \A s \in Submissions : NoOffer(s) \in standing => ~Accepted(offers, s)
    BY <1>7 DEF Accepted, OffersOf
  <2>3. DefectsKnown' BY <1>2, <1>4, <1>5, <2>1, <2>2 DEF DefectsKnown
  <2>4. RowsKnown("interviews", interviews)' /\ RowsKnown("offers", offers)'
    BY <1>2, <1>4, <2>1 DEF RowsKnown
  <2> QED BY <1>1, <1>2, <1>3, <1>4, <2>3, <2>4 DEF CheckInv, CheckOK, FindingsOK
<1> QED BY <1>8, <1>9, <1>10, <1>11 DEF Tables

(* All tables are read: what stands is found, and an orphan is torn.       *)
LEMMA ReportChecked ==
    ASSUME IInv, CheckInv, Report
    PROVE  CheckInv'
<1>1. PICK jobIds, subs, ints, offs :
          /\ jobIds = check["jobs"] /\ subs = check["submissions"]
          /\ ints = check["interviews"] /\ offs = check["offers"]
  OBVIOUS
<1>2. /\ check # None /\ jobIds # None /\ subs # None /\ ints # None /\ offs # None
      /\ findings' = Reported(jobIds, subs, ints, offs) /\ check' = None
      /\ UNCHANGED <<tables, standing, before>>
  BY <1>1 DEF Report, Tables, vars, history
<1>3. DefectsKnown /\ RowsKnown("interviews", interviews) /\ RowsKnown("offers", offers)
  BY <1>2 DEF CheckInv, CheckOK
<1>4. /\ interviews' = interviews /\ offers' = offers /\ submissions' = submissions
      /\ standing' = standing /\ before' = before
  BY <1>2 DEF tables
<1>5. standing \subseteq Reported(jobIds, subs, ints, offs)
  <2> SUFFICES ASSUME NEW d \in standing PROVE d \in Reported(jobIds, subs, ints, offs) OBVIOUS
  <2>1. \E s \in Submissions : d = OrphanJob(s) \/ d = NoOffer(s)
    BY <1>3 DEF DefectsKnown, Defects, OrphanJob, NoOffer
  <2>2. ASSUME NEW s \in Submissions, d = OrphanJob(s) PROVE d \in Reported(jobIds, subs, ints, offs)
    <3>1. Exists(subs, s) /\ subs[s].job \notin jobIds
      BY <1>1, <1>2, <1>3, <2>2 DEF DefectsKnown
    <3> QED BY <2>2, <3>1 DEF Reported, OrphanJob
  <2>3. ASSUME NEW s \in Submissions, d = NoOffer(s) PROVE d \in Reported(jobIds, subs, ints, offs)
    <3>1. Exists(subs, s) /\ subs[s].status = "Placed" /\ ~Accepted(offs, s)
      BY <1>1, <1>2, <1>3, <2>3 DEF DefectsKnown
    <3>2. d \in Inconsistent(subs, offs) BY <2>3, <3>1 DEF Inconsistent, NoOffer
    <3> QED BY <3>2 DEF Reported
  <2> QED BY <2>1, <2>2, <2>3
<1>6. ASSUME NEW o \in Offers, <<"OFFER_ORPHAN", o>> \in findings'
      PROVE  Torn("offers", offers, o)
  <2>1. o \in DOMAIN offs /\ Exists(offs, o) /\ ~Exists(subs, offs[o].submission)
    BY <1>2, <1>6 DEF Reported, Inconsistent
  <2> QED BY <1>1, <1>2, <1>3, <2>1, Referred DEF RowsKnown, Torn
<1>7. ASSUME NEW i \in Interviews, <<"INTERVIEW_ORPHAN", i>> \in findings'
      PROVE  Torn("interviews", interviews, i)
  <2>1. i \in DOMAIN ints /\ Exists(ints, i) /\ ~Exists(subs, ints[i].submission)
    BY <1>2, <1>7 DEF Reported, Inconsistent
  <2> QED BY <1>1, <1>2, <1>3, <2>1, Referred DEF RowsKnown, Torn
<1>8. FindingsOK' BY <1>2, <1>4, <1>5, <1>6, <1>7 DEF FindingsOK, StandingReported, Torn
<1>9. CheckOK' BY <1>2 DEF CheckOK
<1> QED BY <1>8, <1>9 DEF CheckInv

(* A step of another reader is none of the check's.                        *)
LEMMA ElsewhereChecked ==
    ASSUME CheckInv, UNCHANGED <<vars, check, findings, history>>
    PROVE  CheckInv'
<1>1. /\ interviews' = interviews /\ offers' = offers /\ submissions' = submissions /\ jobs' = jobs
      /\ standing' = standing /\ before' = before /\ findings' = findings /\ check' = check
  BY DEF vars, tables, history
<1>2. Defects' = Defects BY <1>1 DEF Defects, Exists, OffersOf
<1>3. DefectsKnown' <=> DefectsKnown BY <1>1, <1>2 DEF DefectsKnown
<1>4. CheckOK' <=> CheckOK BY <1>1, <1>3 DEF CheckOK, RowsKnown
<1>5. FindingsOK' <=> FindingsOK BY <1>1 DEF FindingsOK, StandingReported, Torn
<1> QED BY <1>4, <1>5 DEF CheckInv

LEMMA ViewsChecked == IInv /\ CheckInv /\ [ViewsNext]_everything => CheckInv'
<1> SUFFICES ASSUME IInv, CheckInv, [ViewsNext]_everything PROVE CheckInv' OBVIOUS
<1>1. IInv' /\ RowsStay BY ViewsKeepRows
<1>2. \/ Serve \/ StartCheck \/ (\E table \in Tables : LoadTable(table)) \/ Report
      \/ UNCHANGED <<vars, check, findings, history>>
  <2>1. CASE ReadinessNext
    BY <2>1
    DEF ReadinessNext, StartReplay, ReplaySubmission, ReplayOffers, ReplayActivities,
        ReplayEnds, Push
  <2>2. CASE \E kind \in DOMAIN Reads : Open(kind) BY <2>2 DEF Open
  <2>3. CASE Read BY <2>3 DEF Read, allVars, reportVars
  <2>4. CASE UNCHANGED everything BY <2>4 DEF everything, allVars, reportVars
  <2> QED BY <2>1, <2>2, <2>3, <2>4 DEF ViewsNext
<1> QED BY <1>1, <1>2, ServeChecked, StartChecked, LoadChecked, ReportChecked, ElsewhereChecked

LEMMA CheckInvariance == ViewsSpec => []CheckInv
<1>1. ViewsInit => CheckInv
  BY DEF ViewsInit, ReadinessInit, CheckInv, CheckOK, FindingsOK
<1> QED BY <1>1, ViewsChecked, ViewsInvariance, PTL DEF ViewsSpec

(* However requests interleave with the reads of an integrity check, it    *)
(* reports every defect that stood all along, and an orphaned interview or *)
(* offer only when the row arrived meanwhile (DataIntegrityChecker.check). *)
THEOREM ChecksReportSoundly == ViewsSpec => []ReportSound
<1>1. CheckInv => ReportSound
  BY DEF CheckInv, FindingsOK, Torn, ReportSound, OrphansAreTorn
<1> QED BY <1>1, CheckInvariance, PTL

-----------------------------------------------------------------------------
(* The replay (AuditReplayService.replay) and the views.  They hold what   *)
(* they have read while requests write; the order of their reads and       *)
(* RowsStay keep the causes of what they hold in the tables they have      *)
(* still to read.                                                          *)

(* A status that is not set by hand has the interview or the offer that    *)
(* led to it in the tables.                                                *)
Why(s, status) ==
    status \notin PatchStatuses =>
        /\ status \in InterviewStatuses => InterviewsOf(s) # {}
        /\ status \in OfferPhaseStatuses => OffersOf(s) # {}

InterviewTold(s) ==
    \E i \in Interviews, d \in Decisions :
        /\ Exists(interviews, i) /\ interviews[i].submission = s
        /\ <<"interview", i, d>> \in timeline
OfferTold(s) ==
    \E o \in Offers, d \in OfferStatuses :
        /\ Exists(offers, o) /\ offers[o].submission = s
        /\ <<"offer", o, d>> \in timeline

(* The offers of submission s are what the replay reads next.              *)
OffersNext(s) == replay # None /\ replay.at = "offers" /\ replay.of = s /\ OffersOf(s) # {}

(* The inductive invariant of the replay.                                  *)
ReplayInv ==
    /\ replay # None =>
          /\ replay \in Replay
          /\ \A s \in DOMAIN replay.rows : Why(s, replay.rows[s])
          /\ replay.at = "offers" => replay.of \in DOMAIN replay.rows
    /\ \A s \in Submissions, status \in SubmissionStatuses \ PatchStatuses :
          <<"submission", s, status>> \in timeline =>
              /\ status \in InterviewStatuses => InterviewTold(s)
              /\ status \in OfferPhaseStatuses => OfferTold(s) \/ OffersNext(s)

(* A view knows what it has read, and reads in its order.                  *)
Knows(v, read) == read \in DOMAIN v.got
InOrder(v) ==
    /\ v = [kind |-> v.kind, of |-> v.of, next |-> v.next, got |-> v.got]
    /\ v.kind \in DOMAIN Reads
    /\ v.next \in 1..(Len(Reads[v.kind]) + 1)
    /\ DOMAIN v.got = {Reads[v.kind][n] : n \in 1..(v.next - 1)}

DetailKnown(v) ==
    v.kind = "detail" =>
        /\ v.of \in Submissions /\ Exists(submissions, v.of)
        /\ Knows(v, "submission") => Why(v.of, v.got["submission"].status)
        /\ Knows(v, "interviews") /\ v.got["submission"].status \notin PatchStatuses =>
              (v.got["submission"].status \in InterviewStatuses => v.got["interviews"] # {})
        /\ Knows(v, "offers") /\ v.got["submission"].status \notin PatchStatuses =>
              (v.got["submission"].status \in OfferPhaseStatuses => v.got["offers"] # {})

(* The candidate was submitted to the jobs of its interviews.              *)
InsightKnown(v) ==
    v.kind = "insight" =>
        /\ Knows(v, "interviewedFor") =>
              \A j \in v.got["interviewedFor"] :
                  /\ j \in Jobs /\ Exists(jobs, j)
                  /\ \E s \in Submissions : /\ Exists(submissions, s)
                                            /\ submissions[s].candidate = v.of
                                            /\ submissions[s].job = j
        /\ Knows(v, "interviewers") => v.got["interviewers"] = v.got["interviewedFor"]
        /\ Knows(v, "submittedTo") => v.got["interviewers"] \subseteq v.got["submittedTo"]
        /\ Knows(v, "openJobs") => v.got["openJobs"] \cap v.got["submittedTo"] = {}

(* A rejection is on the timeline, or its request has still to append it.  *)
Rejecting(c, s) ==
    /\ c # None /\ c.op = "updateStatus" /\ c.submission = s
    /\ c.at \in {"saveSubmission", "log"}
    /\ c.trail \in {<<"status_changed", "rejected">>, <<"rejected">>}
RejectTold(s) ==
    \/ aborts > 0 \/ activities[s, "rejected"] > 0
    \/ \E r \in Requests : Rejecting(request[r], s)

(* The row a request will save says Filled only of a job with a placement. *)
FilledInFlight(c) ==
    c # None /\ c.jobRow # None /\ c.jobRow.status = "Filled" =>
        placements[c.job] > 0 \/ (c.op = "place" /\ c.at = "saveSubmission")
RejectedInFlight(c) ==
    c # None /\ c.at = "saveSubmission" /\ c.submissionRow.status = "Rejected" =>
        RejectTold(c.submission)

(* The inductive invariant behind the warnings.                            *)
RejectInv ==
    "Rejected" \notin PatchStatuses =>
        /\ \A s \in Submissions :
              Exists(submissions, s) /\ submissions[s].status = "Rejected" => RejectTold(s)
        /\ \A r \in Requests : RejectedInFlight(request[r])
FilledInv ==
    "Filled" \notin JobPatches =>
        /\ \A j \in Jobs : Exists(jobs, j) /\ jobs[j].status = "Filled" => placements[j] > 0
        /\ \A r \in Requests : FilledInFlight(request[r])

WarningKnown(v) ==
    /\ v.kind = "aboutSubmission" /\ "Rejected" \notin PatchStatuses /\ Knows(v, "rejectedBefore") =>
          \A o \in v.got["rejectedBefore"] : o \in Submissions /\ RejectTold(o)
    /\ v.kind = "aboutJob" /\ "Filled" \notin JobPatches /\ Knows(v, "filled") =>
          \A j \in v.got["filled"] : j \in Jobs /\ placements[j] > 0

(* The inductive invariant of the views.                                   *)
ViewKnown(v) == InOrder(v) /\ DetailKnown(v) /\ InsightKnown(v) /\ WarningKnown(v)
ViewsInv ==
    /\ view # None => ViewKnown(view) /\ view.next <= Len(Reads[view.kind])
    /\ shown # None => ViewKnown(shown) /\ shown.next = Len(Reads[shown.kind]) + 1

(* For requests that come one after the other.                             *)
ListKnown(v) ==
    v.kind = "list" =>
        /\ Knows(v, "submissions") =>
              \A row \in v.got["submissions"] : row.job \in Jobs /\ Exists(jobs, row.job)
        /\ Knows(v, "jobs") => Knows(v, "submissions") /\
              \A row \in v.got["submissions"] :
                  row.job \in v.got["jobs"] \/ jobs[row.job].deleted
ListsInv == (view # None => ListKnown(view)) /\ (shown # None => ListKnown(shown))

(* Every status in the table has its cause there.                          *)
LEMMA CauseShows ==
    ASSUME IInv, NEW s \in Submissions, Exists(submissions, s)
    PROVE  Why(s, submissions[s].status)
<1>1. PICK status : status = submissions[s].status OBVIOUS
<1>2. Caused(s, status) BY <1>1 DEF IInv, TablesOK, StatusHasCause
<1>3. Why(s, status)
  BY <1>2 DEF Caused, Why, InterviewStatuses, OfferPhaseStatuses
<1> QED BY <1>1, <1>3

LEMMA WhyStays ==
    ASSUME RowsStay, NEW s \in Submissions, NEW status, Why(s, status)
    PROVE  Why(s, status)'
<1>1. InterviewsOf(s) \subseteq InterviewsOf(s)' /\ OffersOf(s) \subseteq OffersOf(s)'
  BY DEF RowsStay
<1> QED BY <1>1 DEF Why

(* A step told stays told.                                                 *)
LEMMA ToldStays ==
    ASSUME IInv, IInv', RowsStay, timeline \subseteq timeline', NEW s
    PROVE  /\ InterviewTold(s) => InterviewTold(s)'
           /\ OfferTold(s) => OfferTold(s)'
<1>1. InterviewTold(s) => InterviewTold(s)'
  <2> SUFFICES ASSUME InterviewTold(s) PROVE InterviewTold(s)' OBVIOUS
  <2>1. PICK i \in Interviews, d \in Decisions :
            /\ Exists(interviews, i) /\ interviews[i].submission = s
            /\ <<"interview", i, d>> \in timeline
    BY DEF InterviewTold
  <2>2. Exists(interviews', i) /\ interviews'[i].submission = s BY <2>1, ReferrersStay
  <2>3. <<"interview", i, d>> \in timeline' BY <2>1
  <2> QED BY <2>2, <2>3 DEF InterviewTold, Exists
<1>2. OfferTold(s) => OfferTold(s)'
  <2> SUFFICES ASSUME OfferTold(s) PROVE OfferTold(s)' OBVIOUS
  <2>1. PICK o \in Offers, d \in OfferStatuses :
            /\ Exists(offers, o) /\ offers[o].submission = s
            /\ <<"offer", o, d>> \in timeline
    BY DEF OfferTold
  <2>2. Exists(offers', o) /\ offers'[o].submission = s BY <2>1, ReferrersStay
  <2>3. <<"offer", o, d>> \in timeline' BY <2>1
  <2> QED BY <2>2, <2>3 DEF OfferTold, Exists
<1> QED BY <1>1, <1>2

(* The steps about interviews and offers of s that a replay pushes tell of *)
(* every one there is.                                                     *)
LEMMA PushTells ==
    ASSUME IInv, NEW s \in Submissions, UNCHANGED vars
    PROVE  /\ InterviewSteps(s) \subseteq timeline' /\ InterviewsOf(s) # {} => InterviewTold(s)'
           /\ OfferSteps(s) \subseteq timeline' /\ OffersOf(s) # {} => OfferTold(s)'
<1>1. interviews' = interviews /\ offers' = offers BY DEF vars, tables
<1>2. ASSUME InterviewSteps(s) \subseteq timeline', InterviewsOf(s) # {}
      PROVE  InterviewTold(s)'
  <2>1. PICK i : i \in InterviewsOf(s) BY <1>2
  <2>2. i \in Interviews /\ Exists(interviews, i) /\ interviews[i].submission = s
    BY <2>1 DEF InterviewsOf
  <2>3. PICK d : d = interviews[i].decision OBVIOUS
  <2>4. d \in Decisions BY <2>2, <2>3 DEF IInv, TypeOK, Exists, InterviewRow
  <2>5. <<"interview", i, d>> \in InterviewSteps(s) BY <2>1, <2>3 DEF InterviewSteps
  <2> QED BY <1>1, <1>2, <2>2, <2>4, <2>5 DEF InterviewTold, Exists
<1>3. ASSUME OfferSteps(s) \subseteq timeline', OffersOf(s) # {}
      PROVE  OfferTold(s)'
  <2>1. PICK o : o \in OffersOf(s) BY <1>3
  <2>2. o \in Offers /\ Exists(offers, o) /\ offers[o].submission = s
    BY <2>1 DEF OffersOf
  <2>3. PICK d : d = offers[o].status OBVIOUS
  <2>4. d \in OfferStatuses BY <2>2, <2>3 DEF IInv, TypeOK, Exists, OfferRow
  <2>5. <<"offer", o, d>> \in OfferSteps(s) BY <2>1, <2>3 DEF OfferSteps
  <2> QED BY <1>1, <1>3, <2>2, <2>4, <2>5 DEF OfferTold, Exists
<1> QED BY <1>2, <1>3

(* What a replay tells, as a whole: a step on submission s is new only     *)
(* when the replay shows it.                                               *)
TimelineTold ==
    \A s \in Submissions, status \in SubmissionStatuses \ PatchStatuses :
        <<"submission", s, status>> \in timeline =>
            /\ status \in InterviewStatuses => InterviewTold(s)
            /\ status \in OfferPhaseStatuses => OfferTold(s) \/ OffersNext(s)
RowsWhy ==
    replay # None =>
        /\ replay \in Replay
        /\ \A s \in DOMAIN replay.rows : Why(s, replay.rows[s])
        /\ replay.at = "offers" => replay.of \in DOMAIN replay.rows

(* A replay is one at each of its steps.                                   *)
LEMMA SomeReplay ==
    ASSUME NEW at \in {"next", "offers", "activities"}, NEW of \in Submissions \cup {None},
           NEW S \in SUBSET Submissions, NEW rows \in [S -> SubmissionStatuses]
    PROVE  /\ [at |-> at, of |-> of, rows |-> rows] \in Replay
           /\ [at |-> at, of |-> of, rows |-> rows] # None
<1>1. [at |-> at, of |-> of, rows |-> rows] \in Replay BY DEF Replay
<1> QED BY <1>1, ReadinessAssumption

(* What is known of the rows of a replay.                                  *)
LEMMA ReplayRows ==
    ASSUME NEW p \in Replay
    PROVE  /\ DOMAIN p.rows \in SUBSET Submissions /\ p.rows \in [DOMAIN p.rows -> SubmissionStatuses]
           /\ p.of \in Submissions \cup {None} /\ p.at \in {"next", "offers", "activities"}
           /\ p = [at |-> p.at, of |-> p.of, rows |-> p.rows]
BY DEF Replay

(* A step of a reader keeps the tables.                                    *)
LEMMA StillKeepsRows ==
    ASSUME IInv, UNCHANGED vars
    PROVE  IInv' /\ RowsStay
BY NextKeepsRows

(* Requests and other readers go on beside a replay.                       *)
LEMMA ReplayStill ==
    ASSUME IInv, IInv', RowsStay, ReplayInv, UNCHANGED <<replay, timeline>>
    PROVE  ReplayInv'
<1>1. RowsWhy'
  <2>1. ASSUME replay # None, NEW s \in DOMAIN replay.rows PROVE Why(s, replay.rows[s])'
    <3>1. s \in Submissions BY <2>1, ReplayRows DEF ReplayInv
    <3>2. Why(s, replay.rows[s]) BY <2>1 DEF ReplayInv
    <3> QED BY <3>1, <3>2, WhyStays
  <2> QED BY <2>1 DEF ReplayInv, RowsWhy
<1>2. \A s \in Submissions : OffersNext(s) => OffersNext(s)' BY DEF OffersNext, RowsStay
<1>3. TimelineTold' BY <1>2, ToldStays DEF ReplayInv, TimelineTold
<1> QED BY <1>1, <1>3 DEF ReplayInv, RowsWhy, TimelineTold

LEMMA StartReplayInv ==
    ASSUME IInv, ReplayInv, NEW c \in Candidates, StartReplay(c)
    PROVE  ReplayInv'
<1>1. PICK mine : mine = {s \in Submissions : Exists(submissions, s) /\ submissions[s].candidate = c}
  OBVIOUS
<1>2. PICK rows : rows = [s \in mine |-> submissions[s].status] OBVIOUS
<1>3. replay' = [at |-> "next", of |-> None, rows |-> rows] /\ timeline' = {} /\ UNCHANGED vars
  BY <1>1, <1>2 DEF StartReplay
<1>4. \A s \in Submissions : \A status : Why(s, status)' <=> Why(s, status)
  BY <1>3 DEF vars, tables, Why, InterviewsOf, OffersOf, Exists
<1>5. \A s \in mine : s \in Submissions /\ Why(s, rows[s]) BY <1>1, <1>2, CauseShows
<1>6. replay'.at = "next" /\ replay'.rows = rows /\ DOMAIN rows = mine BY <1>2, <1>3
<1>7. replay' \in Replay
  <2>1. \A s \in mine : submissions[s].status \in SubmissionStatuses
    BY <1>1 DEF IInv, TypeOK, Exists, SubmissionRow
  <2>2. rows \in [mine -> SubmissionStatuses] /\ mine \in SUBSET Submissions BY <1>1, <1>2, <2>1
  <2> QED BY <1>3, <2>2, SomeReplay
<1>8. RowsWhy' BY <1>4, <1>5, <1>6, <1>7 DEF RowsWhy
<1>9. TimelineTold' BY <1>3 DEF TimelineTold
<1> QED BY <1>8, <1>9 DEF ReplayInv, RowsWhy, TimelineTold

(* The replay of a submission.                                             *)
LEMMA ReplaySubmissionInv ==
    ASSUME IInv, ReplayInv, NEW s \in Submissions, ReplaySubmission(s)
    PROVE  ReplayInv'
<1>1. PICK rows, of, shownAt : rows = replay.rows /\ of = replay.of /\ shownAt = rows[s] OBVIOUS
<1>2. replay # None /\ replay \in Replay BY DEF ReplaySubmission, ReplayInv
<1>3. /\ replay # None /\ replay.at = "next" /\ s \in DOMAIN rows /\ UNCHANGED vars
      /\ replay = [at |-> "next", of |-> of, rows |-> rows]
      /\ timeline' = timeline \cup ({<<"submission", s, shownAt>>} \cup InterviewSteps(s))
  BY <1>1, <1>2, ReplayRows DEF ReplaySubmission, Push
<1>4. replay' = [at |-> "offers", of |-> s, rows |-> rows]
  <2>1. replay' = [replay EXCEPT !.at = "offers", !.of = s]
    BY DEF ReplaySubmission, Push
  <2> QED BY <1>3, <2>1
<1>5. /\ replay'.at = "offers" /\ replay'.of = s /\ replay'.rows = rows
      /\ replay' \in Replay /\ replay' # None
  <2>1. DOMAIN rows \in SUBSET Submissions /\ rows \in [DOMAIN rows -> SubmissionStatuses]
    BY <1>1, <1>2, ReplayRows
  <2> QED BY <1>4, <2>1, SomeReplay
<1>6. IInv' /\ RowsStay BY <1>3, StillKeepsRows
<1>7. RowsWhy /\ TimelineTold BY DEF ReplayInv, RowsWhy, TimelineTold
<1>8. \A t \in DOMAIN rows : Why(t, rows[t])'
  BY <1>1, <1>6, <1>7, <1>2, WhyStays, ReplayRows DEF RowsWhy
<1>9. RowsWhy' BY <1>3, <1>5, <1>8 DEF RowsWhy
<1>10. \A t \in Submissions : ~OffersNext(t) BY <1>3 DEF OffersNext
<1>11. ASSUME NEW t \in Submissions, t = s
       PROVE  /\ InterviewsOf(t)' # {} => InterviewTold(t)'
              /\ OffersOf(t)' # {} => OffersNext(t)'
  <2>1. interviews' = interviews /\ offers' = offers BY <1>3 DEF vars, tables
  <2>2. InterviewsOf(t)' = InterviewsOf(t) BY <2>1 DEF InterviewsOf, Exists
  <2>3. InterviewSteps(t) \subseteq timeline' BY <1>3, <1>11
  <2>4. InterviewsOf(t) # {} => InterviewTold(t)' BY <1>3, <2>3, PushTells
  <2> QED BY <1>5, <1>11, <2>2, <2>4 DEF OffersNext
<1>12. TimelineTold'
  <2> SUFFICES ASSUME NEW t \in Submissions, NEW status \in SubmissionStatuses \ PatchStatuses,
                      <<"submission", t, status>> \in timeline'
               PROVE  /\ status \in InterviewStatuses => InterviewTold(t)'
                      /\ status \in OfferPhaseStatuses => OfferTold(t)' \/ OffersNext(t)'
    BY DEF TimelineTold
  <2>1. <<"submission", t, status>> \in timeline \/ (t = s /\ status = shownAt)
    BY <1>3 DEF InterviewSteps
  <2>2. CASE <<"submission", t, status>> \in timeline
    BY <1>3, <1>6, <1>7, <1>10, <2>2, ToldStays DEF TimelineTold
  <2>3. CASE t = s /\ status = shownAt
    <3>1. t \in DOMAIN rows /\ rows[t] = status BY <1>1, <1>3, <2>3
    <3>2. /\ status \in InterviewStatuses => InterviewsOf(t)' # {}
          /\ status \in OfferPhaseStatuses => OffersOf(t)' # {}
      BY <1>8, <3>1 DEF Why
    <3> QED BY <1>11, <2>3, <3>2
  <2> QED BY <2>1, <2>2, <2>3
<1> QED BY <1>12, <1>9 DEF ReplayInv, RowsWhy, TimelineTold

LEMMA ReplayOffersInv ==
    ASSUME IInv, ReplayInv, ReplayOffers
    PROVE  ReplayInv'
<1>1. PICK rows, s : rows = replay.rows /\ s = replay.of OBVIOUS
<1>2. replay # None /\ replay \in Replay BY DEF ReplayOffers, ReplayInv
<1>3. /\ replay.at = "offers" /\ s \in DOMAIN rows /\ s \in Submissions /\ UNCHANGED vars
      /\ replay = [at |-> "offers", of |-> s, rows |-> rows]
  BY <1>1, <1>2, ReplayRows DEF ReplayOffers, Push, ReplayInv
<1>4. timeline \subseteq timeline' /\ OfferSteps(s) \subseteq timeline'
  BY <1>1 DEF ReplayOffers, Push
<1>5. \A t \in Submissions, status \in SubmissionStatuses :
          <<"submission", t, status>> \in timeline' => <<"submission", t, status>> \in timeline
  BY <1>1 DEF ReplayOffers, Push, OfferSteps
<1>6. replay' = [at |-> "activities", of |-> s, rows |-> rows]
  <2>1. replay' = [replay EXCEPT !.at = "activities"] BY DEF ReplayOffers, Push
  <2> QED BY <1>3, <2>1
<1>7. /\ replay'.at = "activities" /\ replay'.rows = rows /\ replay' \in Replay
  <2>1. DOMAIN rows \in SUBSET Submissions /\ rows \in [DOMAIN rows -> SubmissionStatuses]
    BY <1>1, <1>2, ReplayRows
  <2> QED BY <1>3, <1>6, <2>1, SomeReplay
<1>8. IInv' /\ RowsStay BY <1>3, StillKeepsRows
<1>9. \A t \in DOMAIN rows : t \in Submissions /\ Why(t, rows[t])
  BY <1>1, <1>2, ReplayRows DEF ReplayInv
<1>10. RowsWhy' BY <1>7, <1>8, <1>9, WhyStays DEF RowsWhy
<1>11. OffersOf(s) # {} => OfferTold(s)' BY <1>3, <1>4, PushTells
<1>12. TimelineTold'
  <2> SUFFICES ASSUME NEW t \in Submissions, NEW status \in SubmissionStatuses \ PatchStatuses,
                      <<"submission", t, status>> \in timeline'
               PROVE  /\ status \in InterviewStatuses => InterviewTold(t)'
                      /\ status \in OfferPhaseStatuses => OfferTold(t)'
    BY DEF TimelineTold
  <2>1. /\ status \in InterviewStatuses => InterviewTold(t)
        /\ status \in OfferPhaseStatuses => OfferTold(t) \/ OffersNext(t)
    BY <1>5 DEF ReplayInv
  <2>2. OffersNext(t) => OfferTold(t)' BY <1>1, <1>11 DEF OffersNext
  <2> QED BY <1>4, <1>8, <2>1, <2>2, ToldStays
<1> QED BY <1>10, <1>12 DEF ReplayInv, RowsWhy, TimelineTold

(* What is told of a submission is all told when the replay goes on.       *)
LEMMA ReplayActivitiesInv ==
    ASSUME IInv, ReplayInv, ReplayActivities
    PROVE  ReplayInv'
<1>1. PICK rows, s : rows = replay.rows /\ s = replay.of OBVIOUS
<1>2. replay # None /\ replay \in Replay /\ replay.at = "activities" /\ UNCHANGED vars
  BY DEF ReplayActivities, Push, ReplayInv
<1>3. PICK left : left = [t \in DOMAIN rows \ {s} |-> rows[t]] OBVIOUS
<1>4. timeline \subseteq timeline' BY DEF ReplayActivities, Push
<1>5. \A t \in Submissions, status \in SubmissionStatuses :
          <<"submission", t, status>> \in timeline' => <<"submission", t, status>> \in timeline
  BY <1>1 DEF ReplayActivities, Push, ActivitySteps
<1>6. replay' = [at |-> "next", of |-> None, rows |-> left]
  <2>1. replay' = [replay EXCEPT !.at = "next", !.of = None, !.rows = left]
    BY <1>1, <1>3 DEF ReplayActivities, Push
  <2>2. replay = [at |-> replay.at, of |-> replay.of, rows |-> replay.rows] BY <1>2, ReplayRows
  <2> QED BY <2>1, <2>2
<1>7. DOMAIN rows \in SUBSET Submissions /\ rows \in [DOMAIN rows -> SubmissionStatuses]
  BY <1>1, <1>2, ReplayRows
<1>8. replay'.at = "next" /\ replay'.rows = left /\ replay' \in Replay
  <2>1. DOMAIN rows \ {s} \in SUBSET Submissions /\ left \in [DOMAIN rows \ {s} -> SubmissionStatuses]
    BY <1>3, <1>7
  <2> QED BY <1>6, <2>1, SomeReplay
<1>9. IInv' /\ RowsStay BY <1>2, StillKeepsRows
<1>10. \A t \in DOMAIN left : t \in Submissions /\ Why(t, left[t])
  BY <1>1, <1>2, <1>3, <1>7 DEF ReplayInv
<1>11. RowsWhy' BY <1>8, <1>9, <1>10, WhyStays DEF RowsWhy
<1>12. \A t \in Submissions : ~OffersNext(t) BY <1>2 DEF OffersNext
<1>13. TimelineTold' BY <1>4, <1>5, <1>9, <1>12, ToldStays DEF TimelineTold, ReplayInv
<1> QED BY <1>11, <1>13 DEF ReplayInv, RowsWhy, TimelineTold

LEMMA ReplayEndsInv ==
    ASSUME IInv, ReplayInv, ReplayEnds
    PROVE  ReplayInv'
<1>1. replay # None /\ replay.at = "next" /\ replay' = None /\ timeline' = timeline
      /\ UNCHANGED vars
  BY DEF ReplayEnds, Push
<1>2. IInv' /\ RowsStay BY <1>1, StillKeepsRows
<1>3. \A t \in Submissions : ~OffersNext(t) BY <1>1 DEF OffersNext
<1>4. TimelineTold' BY <1>1, <1>2, <1>3, ToldStays DEF TimelineTold, ReplayInv
<1> QED BY <1>1, <1>4 DEF ReplayInv, TimelineTold

LEMMA NextReplayInv == IInv /\ ReplayInv /\ [ViewsNext]_everything => ReplayInv'
<1> SUFFICES ASSUME IInv, ReplayInv, [ViewsNext]_everything PROVE ReplayInv' OBVIOUS
<1>1. IInv' /\ RowsStay BY ViewsKeepRows
<1>2. \/ \E c \in Candidates : StartReplay(c)
      \/ \E s \in Submissions : ReplaySubmission(s)
      \/ ReplayOffers \/ ReplayActivities \/ ReplayEnds
      \/ UNCHANGED <<replay, timeline>>
  <2>1. CASE ReadinessNext
    BY <2>1 DEF ReadinessNext, Serve, reportVars, StartCheck, LoadTable, Report
  <2>2. CASE \E kind \in DOMAIN Reads : Open(kind) BY <2>2 DEF Open
  <2>3. CASE Read BY <2>3 DEF Read, allVars, reportVars
  <2>4. CASE UNCHANGED everything BY <2>4 DEF everything, allVars, reportVars
  <2> QED BY <2>1, <2>2, <2>3, <2>4 DEF ViewsNext
<1> QED
  BY <1>1, <1>2, StartReplayInv, ReplaySubmissionInv, ReplayOffersInv, ReplayActivitiesInv,
     ReplayEndsInv, ReplayStill

LEMMA ReplayInvariance == ViewsSpec => []ReplayInv
<1>1. ViewsInit => ReplayInv BY DEF ViewsInit, ReadinessInit, ReplayInv
<1> QED BY <1>1, NextReplayInv, ViewsInvariance, PTL DEF ViewsSpec

(* A finished replay shows no interview or offer status without an         *)
(* interview or an offer of that submission (AuditReplayService.replay),   *)
(* whatever requests wrote while it read.                                  *)
THEOREM ReplaysShowCause == ViewsSpec => []ReplayShowsCause
<1>1. ReplayInv => ReplayShowsCause
  BY DEF ReplayInv, ReplayShowsCause, InterviewTold, OfferTold, OffersNext
<1> QED BY <1>1, ReplayInvariance, PTL


-----------------------------------------------------------------------------
(* The rejections and the filled jobs that a warning names.                *)

(* A rejection that is told, or is about to be, stays so.                  *)
LEMMA RejectionStays ==
    ASSUME IInv, [Next]_vars, NEW s \in Submissions, RejectTold(s)
    PROVE  RejectTold(s)'
<1>1. aborts \in Nat /\ aborts' \in Nat /\ aborts <= aborts'
  <2>1. ASSUME NEW r, JobRequest(r) \/ RecruitmentRequest(r) PROVE aborts' = aborts
    BY <2>1 DEF JobRequest, CreateJob, UpdateJob, ReviewField, MarkReady, SoftDelete,
           EditJob, SubmitCandidate, Arrive, RecruitmentRequest, UpdateStatus, Reject, Withdraw,
           SetStatus, ScheduleInterview, CreateOffer, MarkPlaced, CompleteInterview,
           UpdateOfferStatus
  <2>2. ASSUME NEW r, Continue(r) PROVE aborts' = aborts \/ aborts' = aborts + 1
    BY <2>2 DEF Continue, FindDuplicate, InsertSubmission, RefuseInsert,
           CountInterviews, InsertInterview, InsertOffer, Reread, ReadJob, SaveSubmission,
           SaveJob, AppendActivity, Await, Abort
  <2>3. aborts' = aborts \/ aborts' = aborts + 1 BY <2>1, <2>2 DEF Next, vars
  <2> QED BY <2>3 DEF IInv, TypeOK
<1>2. \/ UNCHANGED activities
      \/ \E r \in Requests : AppendActivity(r)
  <2>1. ASSUME NEW r, JobRequest(r) PROVE UNCHANGED activities
    BY <2>1 DEF JobRequest, CreateJob, UpdateJob, ReviewField, MarkReady, SoftDelete,
           EditJob, SubmitCandidate, tables
  <2>2. ASSUME NEW r, RecruitmentRequest(r) PROVE UNCHANGED activities
    BY <2>2 DEF RecruitmentRequest, UpdateStatus, Reject, Withdraw, SetStatus,
           ScheduleInterview, CreateOffer, MarkPlaced, CompleteInterview, UpdateOfferStatus,
           tables
  <2>3. ASSUME NEW r, Continue(r), ~ AppendActivity(r) PROVE UNCHANGED activities
    <3>1. FindDuplicate(r) \/ RefuseInsert(r) \/ CountInterviews(r) => UNCHANGED activities
      BY DEF FindDuplicate, RefuseInsert, CountInterviews, tables
    <3>2. (\E x : InsertSubmission(r, x) \/ InsertInterview(r, x) \/ InsertOffer(r, x))
          => UNCHANGED activities
      BY DEF InsertSubmission, InsertInterview, InsertOffer, tables
    <3>3. Reread(r) \/ ReadJob(r) \/ SaveSubmission(r) \/ SaveJob(r) \/ Abort(r)
          => UNCHANGED activities
      BY DEF Reread, ReadJob, SaveSubmission, SaveJob, Abort, tables
    <3> QED BY <2>3, <3>1, <3>2, <3>3 DEF Continue
  <2>4. CASE UNCHANGED vars BY <2>4 DEF vars, tables
  <2> QED BY <2>1, <2>2, <2>3, <2>4 DEF Next
<1>3. <<s, "rejected">> \in Subjects \X ActivityTypes BY DEF Subjects, ActivityTypes
<1>4. ASSUME NEW r \in Requests, NEW subject, NEW type,
             activities' = [activities EXCEPT ![<<subject, type>>] = @ + 1]
      PROVE  /\ activities[s, "rejected"] > 0 => activities'[s, "rejected"] > 0
             /\ subject = s /\ type = "rejected" => activities'[s, "rejected"] > 0
  <2>1. PICK x, y : x = <<s, "rejected">> /\ y = <<subject, type>> OBVIOUS
  <2>2. activities'[x] = IF x = y THEN activities[x] + 1 ELSE activities[x]
    BY <1>3, <1>4, <2>1 DEF IInv, TypeOK
  <2>3. activities[x] \in Nat BY <1>3, <2>1 DEF IInv, TypeOK
  <2>4. activities[s, "rejected"] = activities[x] /\ activities'[s, "rejected"] = activities'[x]
    BY <2>1
  <2>5. activities[x] > 0 => activities'[x] > 0 BY <2>2, <2>3
  <2>6. x = y => activities'[x] > 0 BY <2>2, <2>3
  <2>7. subject = s /\ type = "rejected" => x = y BY <2>1
  <2> QED BY <2>4, <2>5, <2>6, <2>7
<1>5. CASE aborts > 0
  <2>1. aborts' > 0 BY <1>1, <1>5
  <2> QED BY <2>1 DEF RejectTold
<1>6. CASE activities[s, "rejected"] > 0
  <2>1. activities'[s, "rejected"] > 0 BY <1>2, <1>4, <1>6 DEF AppendActivity
  <2> QED BY <2>1 DEF RejectTold
<1>7. ASSUME NEW q \in Requests, Rejecting(request[q], s) PROVE RejectTold(s)'
  <2>1. PICK d : d = request[q] OBVIOUS
  <2>2. /\ d # None /\ d.op = "updateStatus" /\ d.submission = s
        /\ d.at \in {"saveSubmission", "log"}
        /\ d.trail \in {<<"status_changed", "rejected">>, <<"rejected">>}
    BY <1>7, <2>1 DEF Rejecting
  <2>3. d \in Call BY <2>1, <2>2 DEF IInv, TypeOK
  <2>4. CASE request'[q] = request[q] BY <1>7, <2>4 DEF RejectTold, Rejecting
  <2>5. request'[q] = request[q] \/ SaveSubmission(q) \/ AppendActivity(q) \/ Abort(q)
    <3>1. CASE UNCHANGED vars BY <3>1 DEF vars
    <3>2. ASSUME NEW r \in Requests, JobRequest(r) \/ RecruitmentRequest(r) \/ Continue(r), r # q
          PROVE  request'[q] = request[q]
      <4>1. \E c : request' = [request EXCEPT ![r] = c]
        BY <3>2
        DEF JobRequest, CreateJob, UpdateJob, ReviewField, MarkReady, SoftDelete,
            EditJob, SubmitCandidate, Arrive, RecruitmentRequest, UpdateStatus, Reject, Withdraw,
            SetStatus, ScheduleInterview, CreateOffer, MarkPlaced, CompleteInterview,
            UpdateOfferStatus, Continue, FindDuplicate, InsertSubmission, RefuseInsert,
            CountInterviews, InsertInterview, InsertOffer, Reread, ReadJob, SaveSubmission,
            SaveJob, AppendActivity, Await, Abort
      <4> QED BY <3>2, <4>1 DEF IInv, TypeOK
    <3>3. ~JobRequest(q) /\ ~RecruitmentRequest(q)
      BY <2>1, <2>2
      DEF JobRequest, CreateJob, UpdateJob, ReviewField, MarkReady, SoftDelete,
          EditJob, SubmitCandidate, Arrive, RecruitmentRequest, UpdateStatus, Reject, Withdraw,
          SetStatus, ScheduleInterview, CreateOffer, MarkPlaced, CompleteInterview,
          UpdateOfferStatus
    <3>4. Continue(q) => SaveSubmission(q) \/ AppendActivity(q) \/ Abort(q)
      BY <2>1, <2>2
      DEF Continue, FindDuplicate, InsertSubmission, RefuseInsert, CountInterviews,
          InsertInterview, InsertOffer, Reread, ReadJob, SaveJob, At
    <3> QED BY <3>1, <3>2, <3>3, <3>4 DEF Next
  <2>6. CASE SaveSubmission(q)
    <3>1. PICK c : c = [d EXCEPT !.at = "log"] OBVIOUS
    <3>2. /\ c \in Call /\ c.at = "log" /\ c.op = d.op /\ c.trail = d.trail
          /\ c.submission = d.submission
      BY <2>3, <3>1, SetAt DEF Steps
    <3>3. request'[q] = c
      BY <2>1, <2>2, <2>6, <3>1 DEF SaveSubmission, Await, IInv, TypeOK
    <3>4. Rejecting(c, s) BY <2>2, <3>2, PipelineAssumption DEF Rejecting
    <3>5. Rejecting(request[q], s)' BY <3>3, <3>4 DEF Rejecting
    <3> QED BY <3>5 DEF RejectTold
  <2>7. CASE AppendActivity(q)
    <3>1. PICK type, rest : type = Head(d.trail) /\ rest = Tail(d.trail) OBVIOUS
    <3>2. d.submission # None BY <2>2, PipelineAssumption
    <3>3. activities' = [activities EXCEPT ![<<s, type>>] = @ + 1]
      BY <2>1, <2>2, <2>7, <3>1, <3>2 DEF AppendActivity
    <3>4. CASE d.trail = <<"rejected">>
      <4>1. type = "rejected" BY <3>1, <3>4
      <4>2. activities'[s, "rejected"] > 0 BY <1>4, <3>3, <4>1
      <4> QED BY <4>2 DEF RejectTold
    <3>5. CASE d.trail = <<"status_changed", "rejected">>
      <4>1. Len(d.trail) = 2 /\ rest = <<"rejected">> BY <3>1, <3>5
      <4>2. rest \in Seq(ActivityTypes) BY <4>1 DEF ActivityTypes
      <4>3. PICK c : c = [d EXCEPT !.trail = rest] OBVIOUS
      <4>4. /\ c \in Call /\ c.at = d.at /\ c.op = d.op /\ c.trail = rest
            /\ c.submission = d.submission
        BY <2>3, <4>2, <4>3, SetTrail
      <4>5. request'[q] = c
        <5>1. c = IF Len(d.trail) = 1 THEN None ELSE [d EXCEPT !.trail = rest] BY <4>1, <4>3
        <5>2. Await(q, c) BY <2>1, <2>7, <3>1, <5>1 DEF AppendActivity
        <5> QED BY <5>2 DEF Await, IInv, TypeOK
      <4>6. Rejecting(c, s) BY <2>2, <4>1, <4>4, PipelineAssumption DEF Rejecting
      <4>7. Rejecting(request[q], s)' BY <4>5, <4>6 DEF Rejecting
      <4> QED BY <4>7 DEF RejectTold
    <3> QED BY <2>2, <3>4, <3>5
  <2>8. CASE Abort(q)
    <3>1. aborts' > 0 BY <2>8 DEF Abort, IInv, TypeOK
    <3> QED BY <3>1 DEF RejectTold
  <2> QED BY <2>4, <2>5, <2>6, <2>7, <2>8
<1> QED BY <1>5, <1>6, <1>7 DEF RejectTold

(* A step that saves no rejection, by a request whose next call holds none *)
(* that is not told.                                                       *)
LEMMA RejectQuiet ==
    ASSUME IInv, RejectInv, [Next]_vars, "Rejected" \notin PatchStatuses,
           \A s \in Submissions :
              Exists(submissions', s) /\ submissions'[s].status = "Rejected" =>
                  \/ Exists(submissions, s) /\ submissions[s].status = "Rejected"
                  \/ RejectTold(s),
           NEW r \in Requests, NEW c, request' = [request EXCEPT ![r] = c],
           c # None /\ c.at = "saveSubmission" /\ c.submissionRow.status = "Rejected" =>
              c.submission \in Submissions /\ (RejectTold(c.submission) \/ Rejecting(c, c.submission))
    PROVE  RejectInv'
<1>1. ASSUME NEW s \in Submissions, Exists(submissions', s), submissions'[s].status = "Rejected"
      PROVE  RejectTold(s)'
  <2>1. RejectTold(s) BY <1>1 DEF RejectInv
  <2> QED BY <2>1, RejectionStays
<1>2. ASSUME NEW q \in Requests PROVE RejectedInFlight(request[q])'
  <2>1. PICK d : d = request'[q] OBVIOUS
  <2> SUFFICES ASSUME d # None, d.at = "saveSubmission", d.submissionRow.status = "Rejected",
                      NEW s, s = d.submission
               PROVE  RejectTold(s)'
    BY <2>1 DEF RejectedInFlight
  <2>2. CASE q = r
    <3>1. d = c BY <2>1, <2>2 DEF IInv, TypeOK
    <3>2. s \in Submissions /\ (RejectTold(s) \/ Rejecting(c, s)) BY <3>1
    <3>3. CASE RejectTold(s) BY <3>2, <3>3, RejectionStays
    <3>4. CASE Rejecting(c, s)
      <4>1. Rejecting(request[r], s)' BY <2>1, <2>2, <3>1, <3>4 DEF Rejecting
      <4> QED BY <4>1 DEF RejectTold
    <3> QED BY <3>2, <3>3, <3>4
  <2>3. CASE q # r
    <3>1. request[q] = d BY <2>1, <2>3 DEF IInv, TypeOK
    <3>2. WellFormed(d) BY <3>1 DEF IInv, CallsOK, CallOK
    <3>3. s \in Submissions BY <3>2 DEF WellFormed, OnCourse
    <3>4. RejectTold(s) BY <3>1 DEF RejectInv, RejectedInFlight
    <3> QED BY <3>3, <3>4, RejectionStays
  <2> QED BY <2>2, <2>3
<1> QED BY <1>1, <1>2 DEF RejectInv

(* A request that arrives holds a rejection only if it is to be told.      *)
LEMMA RejectArrives ==
    ASSUME IInv, RejectInv, "Rejected" \notin PatchStatuses, NEW r \in Requests,
           [Next]_vars, JobRequest(r) \/ RecruitmentRequest(r)
    PROVE  RejectInv'
<1>1. ASSUME NEW c, Arrive(r, c), UNCHANGED submissions, c.at # "saveSubmission"
      PROVE  RejectInv'
  BY <1>1, RejectQuiet DEF Arrive
<1>2. ASSUME NEW j, NEW row, EditJob(r, j, row) PROVE RejectInv'
  <2>1. PICK c : c = [NewCall("editJob", "saveJob", <<>>) EXCEPT !.job = j, !.jobRow = row]
    OBVIOUS
  <2>2. c.at = "saveJob" BY <2>1 DEF NewCall
  <2>3. Arrive(r, c) /\ UNCHANGED submissions BY <1>2, <2>1 DEF EditJob, tables
  <2> QED BY <1>1, <2>2, <2>3
<1>3. ASSUME NEW j, NEW status, CreateJob(r, j, status) PROVE RejectInv'
  <2>1. PICK c : c = [NewCall("createJob", "log", <<"job_created">>) EXCEPT !.job = j] OBVIOUS
  <2>2. c.at = "log" BY <2>1 DEF NewCall
  <2>3. Arrive(r, c) /\ UNCHANGED submissions BY <1>3, <2>1 DEF CreateJob
  <2> QED BY <1>1, <2>2, <2>3
<1>4. ASSUME NEW j, NEW d, SubmitCandidate(r, j, d) PROVE RejectInv'
  <2>1. PICK row : row = WithSubmission(jobs[j]) OBVIOUS
  <2>2. PICK c : c = [NewCall("submit", "findDuplicate", <<"candidate_submitted">>)
                        EXCEPT !.job = j, !.candidate = d, !.jobRow = row]
    OBVIOUS
  <2>3. c.at = "findDuplicate" BY <2>2 DEF NewCall
  <2>4. Arrive(r, c) /\ UNCHANGED submissions
    BY <1>4, <2>1, <2>2 DEF SubmitCandidate, tables
  <2> QED BY <1>1, <2>3, <2>4
<1>5. ASSUME NEW s \in Submissions, NEW status \in SubmissionStatuses, NEW trail \in Seq(ActivityTypes),
             SetStatus(r, s, status, trail),
             status = "Rejected" => trail = <<"status_changed", "rejected">>
      PROVE  RejectInv'
  <2>1. PICK c : c = OnSubmission("updateStatus", "saveSubmission", s, status, trail) OBVIOUS
  <2>2. Arrive(r, c) /\ UNCHANGED submissions /\ Exists(submissions, s)
    BY <1>5, <2>1 DEF SetStatus, tables
  <2>3. /\ c \in Call /\ c.op = "updateStatus" /\ c.at = "saveSubmission" /\ c.trail = trail
        /\ c.submission = s /\ c.submissionRow.status = status
    BY <1>5, <2>1, <2>2, OnSubmissionFields DEF IInv, Ops, Steps
  <2>4. c # None BY <2>3, PipelineAssumption
  <2>5. status = "Rejected" => Rejecting(c, s) BY <1>5, <2>3, <2>4 DEF Rejecting
  <2> QED BY <2>2, <2>3, <2>5, RejectQuiet DEF Arrive
<1>6. ASSUME NEW s, NEW op, NEW at, NEW status, NEW trail, NEW c, at # "saveSubmission",
             c = OnSubmission(op, at, s, status, trail), Arrive(r, c), UNCHANGED submissions
      PROVE  RejectInv'
  BY <1>1, <1>6, ReadFields
<1>7. ASSUME NEW s, NEW round, ScheduleInterview(r, s, round) PROVE RejectInv'
  <2>1. PICK b : b = OnSubmission("schedule", "countInterviews", s, "Interview Scheduled",
                                  <<"interview_scheduled">>)
    OBVIOUS
  <2>2. PICK c : c = [b EXCEPT !.round = round] OBVIOUS
  <2>3. c.at = "countInterviews" BY <2>1, <2>2 DEF OnSubmission, NewCall
  <2>4. Arrive(r, c) /\ UNCHANGED submissions
    BY <1>7, <2>1, <2>2 DEF ScheduleInterview, tables
  <2> QED BY <1>1, <2>3, <2>4
<1>8. ASSUME NEW s, CreateOffer(r, s) PROVE RejectInv'
  BY <1>6, <1>8 DEF CreateOffer, tables
<1>9. ASSUME NEW s, MarkPlaced(r, s) PROVE RejectInv'
  BY <1>6, <1>9 DEF MarkPlaced, tables
<1>10. ASSUME NEW i, NEW decision, CompleteInterview(r, i, decision) PROVE RejectInv'
  <2>1. PICK s, j, d : /\ s = interviews[i].submission /\ j = interviews[i].job
                       /\ d = interviews[i].candidate
    OBVIOUS
  <2>2. PICK c : c = [NewCall("complete", "reread", <<"interview_completed">>) EXCEPT
                        !.submission = s, !.arg = decision, !.job = j, !.candidate = d]
    OBVIOUS
  <2>3. c.at = "reread" BY <2>2 DEF NewCall
  <2>4. Arrive(r, c) /\ UNCHANGED submissions BY <1>10, <2>1, <2>2 DEF CompleteInterview
  <2> QED BY <1>1, <2>3, <2>4
<1>11. ASSUME NEW o, NEW status, UpdateOfferStatus(r, o, status) PROVE RejectInv'
  <2>1. PICK s, j, d, type : /\ s = offers[o].submission /\ j = offers[o].job
                             /\ d = offers[o].candidate /\ type = OfferActivity(status)
    OBVIOUS
  <2>2. PICK c : c = [NewCall("updateOffer", "reread", <<type>>) EXCEPT
                        !.submission = s, !.arg = status, !.job = j, !.candidate = d]
    OBVIOUS
  <2>3. c.at = "reread" BY <2>2 DEF NewCall
  <2>4. Arrive(r, c) /\ UNCHANGED submissions BY <1>11, <2>1, <2>2 DEF UpdateOfferStatus
  <2> QED BY <1>1, <2>3, <2>4
<1>12. ASSUME NEW s \in Submissions, NEW status \in PatchStatuses, UpdateStatus(r, s, status)
       PROVE  RejectInv'
  <2>1. <<"status_changed">> \in Seq(ActivityTypes) /\ status \in SubmissionStatuses
    BY PipelineAssumption DEF ActivityTypes
  <2> QED BY <1>5, <1>12, <2>1 DEF UpdateStatus
<1>13. ASSUME NEW s \in Submissions, Reject(r, s) PROVE RejectInv'
  <2>1. <<"status_changed", "rejected">> \in Seq(ActivityTypes) /\ "Rejected" \in SubmissionStatuses
    BY DEF ActivityTypes, SubmissionStatuses
  <2> QED BY <1>5, <1>13, <2>1 DEF Reject
<1>14. ASSUME NEW s \in Submissions, Withdraw(r, s) PROVE RejectInv'
  <2>1. <<"status_changed", "withdrawn">> \in Seq(ActivityTypes) /\ "Withdrawn" \in SubmissionStatuses
    BY DEF ActivityTypes, SubmissionStatuses
  <2> QED BY <1>5, <1>14, <2>1 DEF Withdraw
<1>15. CASE JobRequest(r)
  BY <1>2, <1>3, <1>4, <1>15 DEF JobRequest, UpdateJob, ReviewField, MarkReady, SoftDelete
<1>16. CASE RecruitmentRequest(r)
  BY <1>7, <1>8, <1>9, <1>10, <1>11, <1>12, <1>13, <1>14, <1>16 DEF RecruitmentRequest
<1> QED BY <1>15, <1>16

(* A request that goes on takes a rejection from the table, or not at all. *)
LEMMA RejectGoesOn ==
    ASSUME IInv, RejectInv, "Rejected" \notin PatchStatuses, NEW r \in Requests,
           [Next]_vars, Continue(r)
    PROVE  RejectInv'
<1>1. PICK d : d = request[r] OBVIOUS
<1>2. ASSUME d # None PROVE d \in Call /\ CallOK(d) /\ WellFormed(d)
  BY <1>1, <1>2 DEF IInv, TypeOK, CallsOK, CallOK
<1>3. ASSUME NEW c, Await(r, c), UNCHANGED submissions, c = None \/ c.at # "saveSubmission"
      PROVE  RejectInv'
  BY <1>3, RejectQuiet DEF Await
<1>4. ASSUME NEW c, d # None, Await(r, c), UNCHANGED submissions,
             c = [d EXCEPT !.at = "saveSubmission"], d.submissionRow.status # "Rejected"
      PROVE  RejectInv'
  <2>1. c.submissionRow = d.submissionRow BY <1>2, <1>4, SetAt DEF Steps
  <2> QED BY <1>4, <2>1, RejectQuiet DEF Await
<1>5. CASE FindDuplicate(r)
  <2>1. PICK c : c = IF PairTaken(d.candidate, d.job)
                       THEN None ELSE [d EXCEPT !.at = "insertSubmission"]
    OBVIOUS
  <2>2. Await(r, c) /\ UNCHANGED submissions /\ d # None
    BY <1>1, <1>5, <2>1 DEF FindDuplicate, tables, At
  <2>3. c = None \/ c.at # "saveSubmission" BY <1>2, <2>1, <2>2, SetAt DEF Steps
  <2> QED BY <1>3, <2>2, <2>3
<1>6. CASE RefuseInsert(r) BY <1>3, <1>6 DEF RefuseInsert, tables
<1>7. ASSUME NEW s \in Submissions, InsertSubmission(r, s) PROVE RejectInv'
  <2>1. PICK b : b = [d EXCEPT !.at = "saveJob"] OBVIOUS
  <2>2. PICK c : c = [b EXCEPT !.submission = s] OBVIOUS
  <2>3. Await(r, c) /\ d # None BY <1>1, <1>7, <2>1, <2>2 DEF InsertSubmission, At
  <2>4. c.at = "saveJob" BY <1>2, <2>1, <2>2, <2>3, SetAt, SetSubmission DEF Steps
  <2>5. PICK row : row = [candidate |-> d.candidate, job |-> d.job, status |-> "Submitted"] OBVIOUS
  <2>6. submissions' = [submissions EXCEPT ![s] = row] BY <1>1, <1>7, <2>5 DEF InsertSubmission
  <2>7. \A t \in Submissions :
            Exists(submissions', t) /\ submissions'[t].status = "Rejected" =>
                Exists(submissions, t) /\ submissions[t].status = "Rejected"
    BY <2>5, <2>6 DEF IInv, TypeOK, Exists
  <2> QED BY <2>3, <2>4, <2>7, RejectQuiet DEF Await
<1>8. CASE CountInterviews(r)
  <2>1. PICK n : n = IF d.round = 0 THEN Cardinality(InterviewsOf(d.submission)) + 1 ELSE d.round
    OBVIOUS
  <2>2. PICK c : c = [d EXCEPT !.at = "insertInterview", !.round = n] OBVIOUS
  <2>3. Await(r, c) /\ UNCHANGED submissions /\ d # None
    BY <1>1, <1>8, <2>1, <2>2 DEF CountInterviews, tables, At
  <2>4. c.at # "saveSubmission" BY <1>2, <2>2, <2>3 DEF Call
  <2> QED BY <1>3, <2>3, <2>4
<1>9. ASSUME NEW i \in Interviews, InsertInterview(r, i) PROVE RejectInv'
  <2>1. PICK c : c = [d EXCEPT !.at = "saveSubmission"] OBVIOUS
  <2>2. d # None /\ d.at = "insertInterview" /\ Await(r, c) /\ UNCHANGED submissions
    BY <1>1, <1>9, <2>1 DEF InsertInterview, At
  <2>3. d.submissionRow.status = "Interview Scheduled" BY <1>2, <2>2 DEF CallOK, HasCause
  <2> QED BY <1>4, <2>1, <2>2, <2>3
<1>10. ASSUME NEW o \in Offers, InsertOffer(r, o) PROVE RejectInv'
  <2>1. PICK c : c = [d EXCEPT !.at = "saveSubmission"] OBVIOUS
  <2>2. d # None /\ d.at = "insertOffer" /\ Await(r, c) /\ UNCHANGED submissions
    BY <1>1, <1>10, <2>1 DEF InsertOffer, At
  <2>3. d.submissionRow.status = "Offer Preparing" BY <1>2, <2>2 DEF CallOK, HasCause
  <2> QED BY <1>4, <2>1, <2>2, <2>3
<1>11. CASE Reread(r)
  <2>1. PICK s : s = d.submission OBVIOUS
  <2>2. PICK status : status = StatusAfter(d.arg, submissions[s].status) OBVIOUS
  <2>3. PICK row : row = [submissions[s] EXCEPT !.status = status] OBVIOUS
  <2>4. PICK c : c = IF d.arg = "Cancelled" THEN [d EXCEPT !.at = "log"]
                       ELSE [d EXCEPT !.at = "saveSubmission", !.submissionRow = row]
    OBVIOUS
  <2>5. d # None /\ d.at = "reread" /\ UNCHANGED submissions BY <1>1, <1>11 DEF Reread, At, tables
  <2>6. Await(r, c) BY <1>1, <1>11, <2>1, <2>2, <2>3, <2>4 DEF Reread
  <2>7. /\ s \in Submissions /\ Exists(submissions, s)
        /\ d.arg \in {"Passed", "Failed", "Cancelled"} \cup OfferStatuses
    BY <1>2, <2>1, <2>5, PipelineAssumption DEF CallOK, WellFormed, OnCourse, Refers, HasCause
  <2>8. CASE d.arg = "Cancelled"
    <3>1. c.at = "log" BY <1>2, <2>4, <2>5, <2>8, SetAt DEF Steps
    <3> QED BY <1>3, <2>5, <2>6, <3>1
  <2>9. CASE d.arg # "Cancelled"
    <3>1. c.submission = s /\ c.submissionRow = row BY <1>2, <2>1, <2>4, <2>5, <2>9 DEF Call
    <3>2. submissions[s] \in SubmissionRow BY <2>7 DEF IInv, TypeOK, Exists
    <3>3. row.status = status BY <2>3, <3>2 DEF SubmissionRow
    <3>4. status = "Rejected" => submissions[s].status = "Rejected"
      <4>1. PICK current : current = submissions[s].status OBVIOUS
      <4>2. d.arg \in {"Passed", "Failed", "Sent", "Accepted", "Declined", "Draft", "Expired"}
        BY <2>7, <2>9 DEF OfferStatuses
      <4>3. PICK arg : arg = d.arg OBVIOUS
      <4>4. status = StatusAfter(arg, current) BY <2>2, <4>1, <4>3
      <4>5. CASE arg \in {"Draft", "Expired"}
        <5>1. StatusAfter(arg, current) = current BY <4>5, StatusAfterCases
        <5> QED BY <4>1, <4>4, <5>1
      <4>6. CASE arg \in {"Passed", "Failed", "Sent", "Accepted", "Declined"}
        <5>1. status # "Rejected" BY <4>4, <4>6 DEF StatusAfter
        <5> QED BY <5>1
      <4> QED BY <4>2, <4>3, <4>5, <4>6
    <3>5. row.status = "Rejected" => RejectTold(s) BY <2>7, <3>3, <3>4 DEF RejectInv
    <3> QED BY <2>5, <2>6, <2>7, <3>1, <3>5, RejectQuiet DEF Await
  <2> QED BY <2>8, <2>9
<1>12. CASE ReadJob(r)
  <2>1. PICK row : row = WithPlacement(jobs[d.job]) OBVIOUS
  <2>2. PICK c : c = IF JobFound(d.job)
                       THEN [d EXCEPT !.at = "saveSubmission", !.jobRow = row] ELSE None
    OBVIOUS
  <2>3. d # None /\ d.at = "readJob" /\ UNCHANGED submissions /\ Await(r, c)
    BY <1>1, <1>12, <2>1, <2>2 DEF ReadJob, At, tables
  <2>4. d.submissionRow.status = "Placed" BY <1>2, <2>3 DEF CallOK, WellFormed, OnCourse, HasCause
  <2>5. c = None \/ c.submissionRow = d.submissionRow BY <1>2, <2>2, <2>3 DEF Call
  <2> QED BY <2>3, <2>4, <2>5, RejectQuiet DEF Await
<1>13. CASE SaveSubmission(r)
  <2>1. PICK at : at = IF d.op = "place" THEN "saveJob" ELSE "log" OBVIOUS
  <2>2. PICK c : c = [d EXCEPT !.at = at] OBVIOUS
  <2>3. d # None /\ d.at = "saveSubmission" /\ Await(r, c)
    BY <1>1, <1>13, <2>1, <2>2 DEF SaveSubmission, At
  <2>4. c.at = at /\ at # "saveSubmission" BY <1>2, <2>1, <2>2, <2>3, SetAt DEF Steps
  <2>5. PICK s, row : s = d.submission /\ row = d.submissionRow OBVIOUS
  <2>6. submissions' = [submissions EXCEPT ![s] = row] BY <1>1, <1>13, <2>5 DEF SaveSubmission
  <2>7. s \in Submissions BY <1>2, <2>3, <2>5 DEF WellFormed, OnCourse
  <2>8. row.status = "Rejected" => RejectTold(s)
    BY <1>1, <2>3, <2>5 DEF RejectInv, RejectedInFlight
  <2>9. ASSUME NEW t \in Submissions, submissions'[t].status = "Rejected", Exists(submissions', t)
        PROVE  (Exists(submissions, t) /\ submissions[t].status = "Rejected") \/ RejectTold(t)
    <3>1. submissions'[t] = IF t = s THEN row ELSE submissions[t] BY <2>6 DEF IInv, TypeOK
    <3> QED BY <2>8, <2>9, <3>1 DEF Exists
  <2> QED BY <2>3, <2>4, <2>9, RejectQuiet DEF Await
<1>14. CASE SaveJob(r)
  <2>1. PICK c : c = IF d.op = "editJob" THEN None ELSE [d EXCEPT !.at = "log"] OBVIOUS
  <2>2. d # None /\ Await(r, c) /\ UNCHANGED submissions
    BY <1>1, <1>14, <2>1 DEF SaveJob, At
  <2>3. c = None \/ c.at # "saveSubmission" BY <1>2, <2>1, <2>2, SetAt DEF Steps
  <2> QED BY <1>3, <2>2, <2>3
<1>15. CASE AppendActivity(r)
  <2>1. PICK rest : rest = Tail(d.trail) OBVIOUS
  <2>2. PICK c : c = IF Len(d.trail) = 1 THEN None ELSE [d EXCEPT !.trail = rest] OBVIOUS
  <2>3. d # None /\ d.at = "log" /\ Await(r, c) /\ UNCHANGED submissions
    BY <1>1, <1>15, <2>1, <2>2 DEF AppendActivity, At
  <2>4. c = None \/ c.at # "saveSubmission" BY <1>2, <2>2, <2>3 DEF Call
  <2> QED BY <1>3, <2>3, <2>4
<1>16. CASE Abort(r) BY <1>16, RejectQuiet DEF Abort, tables
<1> QED
  BY <1>5, <1>6, <1>7, <1>8, <1>9, <1>10, <1>11, <1>12, <1>13, <1>14, <1>15, <1>16 DEF Continue

LEMMA NextRejectInv == IInv /\ RejectInv /\ [Next]_vars => RejectInv'
<1> SUFFICES ASSUME IInv, RejectInv, [Next]_vars, "Rejected" \notin PatchStatuses PROVE RejectInv'
  BY DEF RejectInv
<1>1. CASE UNCHANGED vars
  BY <1>1 DEF vars, tables, RejectInv, RejectedInFlight, RejectTold, Rejecting, Exists
<1> QED BY <1>1, RejectArrives, RejectGoesOn DEF Next

(* A job says it is filled only after a placement, also in the row that a  *)
(* request holds.                                                          *)
LEMMA FilledStep ==
    ASSUME IInv, RowsStay, IInv', FilledInv, "Filled" \notin JobPatches,
           \A j \in Jobs : Exists(jobs', j) /\ jobs'[j].status = "Filled" =>
               \/ Exists(jobs, j) /\ jobs[j].status = "Filled"
               \/ placements[j] > 0,
           NEW r \in Requests, NEW c, request' = [request EXCEPT ![r] = c],
           FilledInFlight(c) \/ FilledInFlight(c)'
    PROVE  FilledInv'
<1>1. ASSUME NEW j \in Jobs, placements[j] > 0 PROVE placements'[j] > 0
  BY <1>1 DEF RowsStay, IInv, TypeOK
<1>2. ASSUME NEW j \in Jobs, Exists(jobs', j), jobs'[j].status = "Filled" PROVE placements'[j] > 0
  <2>1. placements[j] > 0 BY <1>2 DEF FilledInv
  <2> QED BY <1>1, <2>1
<1>3. ASSUME NEW q \in Requests, NEW d, d = request'[q], FilledInFlight(d)
      PROVE  FilledInFlight(d)'
  <2> SUFFICES ASSUME d # None, d.jobRow # None, d.jobRow.status = "Filled"
               PROVE  placements'[d.job] > 0 \/ (d.op = "place" /\ d.at = "saveSubmission")
    BY DEF FilledInFlight
  <2>1. d.job \in Jobs
    <3>1. CallOK(d)' BY <1>3 DEF IInv, CallsOK
    <3> QED BY <3>1 DEF CallOK, WellFormed
  <2>2. placements[d.job] > 0 \/ (d.op = "place" /\ d.at = "saveSubmission")
    BY <1>3 DEF FilledInFlight
  <2> QED BY <1>1, <2>1, <2>2
<1>4. ASSUME NEW q \in Requests PROVE FilledInFlight(request[q])'
  <2>1. PICK d : d = request'[q] OBVIOUS
  <2>2. FilledInFlight(d) \/ FilledInFlight(d)'
    <3>1. CASE q = r
      <4>1. d = c BY <2>1, <3>1 DEF IInv, TypeOK
      <4> QED BY <4>1
    <3>2. CASE q # r
      <4>1. d = request[q] BY <2>1, <3>2 DEF IInv, TypeOK
      <4> QED BY <4>1 DEF FilledInv
    <3> QED BY <3>1, <3>2
  <2>3. FilledInFlight(d)' BY <1>3, <2>1, <2>2
  <2> QED BY <2>1, <2>3 DEF FilledInFlight
<1> QED BY <1>2, <1>4 DEF FilledInv

(* A request to a job holds the status it read, or one that was given.     *)
LEMMA FilledJobRequest ==
    ASSUME IInv, RowsStay, IInv', FilledInv, "Filled" \notin JobPatches,
           NEW r \in Requests, JobRequest(r)
    PROVE  FilledInv'
<1>1. ASSUME NEW j \in Jobs, NEW row, EditJob(r, j, row),
             row.status = "Filled" => jobs[j].status = "Filled"
      PROVE  FilledInv'
  <2>1. PICK c : c = [NewCall("editJob", "saveJob", <<>>) EXCEPT !.job = j, !.jobRow = row]
    OBVIOUS
  <2>2. c.job = j /\ c.jobRow = row BY <2>1 DEF NewCall
  <2>3. Arrive(r, c) /\ UNCHANGED jobs /\ JobFound(j) BY <1>1, <2>1 DEF EditJob, tables
  <2>4. FilledInFlight(c) BY <1>1, <2>2, <2>3 DEF FilledInFlight, FilledInv, JobFound
  <2> QED BY <2>3, <2>4, FilledStep DEF Arrive
<1>2. ASSUME NEW j \in Jobs, NEW status \in JobPatches, CreateJob(r, j, status) PROVE FilledInv'
  <2>1. PICK c : c = [NewCall("createJob", "log", <<"job_created">>) EXCEPT !.job = j] OBVIOUS
  <2>2. c.jobRow = None BY <2>1 DEF NewCall
  <2>3. PICK row : row = [status |-> status, deleted |-> FALSE,
                          submissionCount |-> 0, placementCount |-> 0]
    OBVIOUS
  <2>4. Arrive(r, c) /\ jobs' = [jobs EXCEPT ![j] = row] BY <1>2, <2>1, <2>3 DEF CreateJob
  <2>5. \A k \in Jobs : jobs'[k] = IF k = j THEN row ELSE jobs[k] BY <2>4 DEF IInv, TypeOK
  <2>6. \A k \in Jobs : Exists(jobs', k) /\ jobs'[k].status = "Filled" =>
            Exists(jobs, k) /\ jobs[k].status = "Filled"
    BY <2>3, <2>5 DEF Exists
  <2>7. FilledInFlight(c) BY <2>2 DEF FilledInFlight
  <2> QED BY <2>4, <2>6, <2>7, FilledStep DEF Arrive
<1>3. ASSUME NEW j \in Jobs, NEW d \in Candidates, SubmitCandidate(r, j, d) PROVE FilledInv'
  <2>1. PICK row : row = [jobs[j] EXCEPT !.submissionCount = jobs[j].submissionCount + 1] OBVIOUS
  <2>2. PICK c : c = [NewCall("submit", "findDuplicate", <<"candidate_submitted">>)
                        EXCEPT !.job = j, !.candidate = d, !.jobRow = row]
    OBVIOUS
  <2>3. c.job = j /\ c.jobRow = row BY <2>2 DEF NewCall
  <2>4. Arrive(r, c) /\ UNCHANGED jobs /\ JobFound(j)
    BY <1>3, <2>1, <2>2 DEF SubmitCandidate, tables, WithSubmission
  <2>5. jobs[j] \in JobRow BY <2>4 DEF JobFound, Exists, IInv, TypeOK
  <2>6. row.status = jobs[j].status BY <2>1, <2>5 DEF JobRow
  <2>7. FilledInFlight(c) BY <2>3, <2>4, <2>6 DEF FilledInFlight, FilledInv, JobFound
  <2> QED BY <2>4, <2>7, FilledStep DEF Arrive
<1>4. PICK j \in Jobs :
        \/ \E status \in JobPatches : CreateJob(r, j, status) \/ UpdateJob(r, j, status)
        \/ ReviewField(r, j)
        \/ MarkReady(r, j)
        \/ SoftDelete(r, j)
        \/ \E c \in Candidates : SubmitCandidate(r, j, c)
  BY DEF JobRequest
<1>5. JobFound(j) => jobs[j] \in JobRow BY DEF JobFound, Exists, IInv, TypeOK
<1>6. ASSUME NEW status, UpdateJob(r, j, status), status # "Filled" PROVE FilledInv'
  <2>1. PICK row : row = [jobs[j] EXCEPT !.status = status] OBVIOUS
  <2>2. EditJob(r, j, row) /\ JobFound(j) BY <1>6, <2>1 DEF UpdateJob, EditJob
  <2>3. row.status = status BY <1>5, <2>1, <2>2 DEF JobRow
  <2> QED BY <1>1, <1>6, <2>2, <2>3
<1>7. ASSUME ReviewField(r, j) PROVE FilledInv' BY <1>1, <1>7 DEF ReviewField
<1>8. ASSUME MarkReady(r, j) PROVE FilledInv'
  <2>1. PICK status : status = IF jobs[j].status = "Draft" THEN "Open" ELSE jobs[j].status
    OBVIOUS
  <2>2. PICK row : row = [jobs[j] EXCEPT !.status = status] OBVIOUS
  <2>3. EditJob(r, j, row) /\ JobFound(j) BY <1>8, <2>1, <2>2 DEF MarkReady, EditJob
  <2>4. row.status = status BY <1>5, <2>2, <2>3 DEF JobRow
  <2> QED BY <1>1, <2>1, <2>3, <2>4
<1>9. ASSUME SoftDelete(r, j) PROVE FilledInv'
  <2>1. PICK gone : gone = [jobs[j] EXCEPT !.deleted = TRUE] OBVIOUS
  <2>2. PICK row : row = [gone EXCEPT !.status = "Closed"] OBVIOUS
  <2>3. EditJob(r, j, row) /\ JobFound(j) BY <1>9, <2>1, <2>2 DEF SoftDelete, EditJob
  <2>4. gone \in JobRow BY <1>5, <2>1, <2>3 DEF JobRow
  <2>5. row.status = "Closed" BY <2>2, <2>4 DEF JobRow
  <2> QED BY <1>1, <2>3, <2>5
<1> QED BY <1>2, <1>3, <1>4, <1>6, <1>7, <1>8, <1>9

(* A request of a recruiter holds no job row when it arrives.              *)
LEMMA FilledRecruitmentRequest ==
    ASSUME IInv, RowsStay, IInv', FilledInv, "Filled" \notin JobPatches,
           NEW r \in Requests, RecruitmentRequest(r)
    PROVE  FilledInv'
<1>1. ASSUME NEW c, Arrive(r, c), UNCHANGED jobs, c.jobRow = None
      PROVE  FilledInv'
  <2>1. FilledInFlight(c) BY <1>1 DEF FilledInFlight
  <2> QED BY <1>1, <2>1, FilledStep DEF Arrive
<1>2. ASSUME NEW op, NEW at, NEW s, NEW status, NEW trail, NEW b, NEW round, NEW c,
             b = OnSubmission(op, at, s, status, trail), c = b \/ c = [b EXCEPT !.round = round]
      PROVE  c.jobRow = None
  BY <1>2 DEF OnSubmission, NewCall
<1>3. ASSUME NEW s, NEW status, NEW trail, SetStatus(r, s, status, trail) PROVE FilledInv'
  <2>1. PICK c : c = OnSubmission("updateStatus", "saveSubmission", s, status, trail) OBVIOUS
  <2>2. Arrive(r, c) /\ UNCHANGED jobs BY <1>3, <2>1 DEF SetStatus, tables
  <2> QED BY <1>1, <1>2, <2>1, <2>2
<1>4. ASSUME NEW s, NEW round, ScheduleInterview(r, s, round) PROVE FilledInv'
  <2>1. PICK b : b = OnSubmission("schedule", "countInterviews", s, "Interview Scheduled",
                                  <<"interview_scheduled">>)
    OBVIOUS
  <2>2. PICK c : c = [b EXCEPT !.round = round] OBVIOUS
  <2>3. Arrive(r, c) /\ UNCHANGED jobs BY <1>4, <2>1, <2>2 DEF ScheduleInterview, tables
  <2>4. c.jobRow = None BY <2>1, <2>2 DEF OnSubmission, NewCall
  <2> QED BY <1>1, <2>3, <2>4
<1>5. ASSUME NEW s, CreateOffer(r, s) PROVE FilledInv'
  <2>1. PICK c : c = OnSubmission("createOffer", "insertOffer", s, "Offer Preparing",
                                  <<"offer_created">>)
    OBVIOUS
  <2>2. Arrive(r, c) /\ UNCHANGED jobs BY <1>5, <2>1 DEF CreateOffer, tables
  <2> QED BY <1>1, <1>2, <2>1, <2>2
<1>6. ASSUME NEW s, MarkPlaced(r, s) PROVE FilledInv'
  <2>1. PICK c : c = OnSubmission("place", "readJob", s, "Placed", <<"placement">>) OBVIOUS
  <2>2. Arrive(r, c) /\ UNCHANGED jobs BY <1>6, <2>1 DEF MarkPlaced, tables
  <2> QED BY <1>1, <1>2, <2>1, <2>2
<1>7. ASSUME NEW i, NEW decision, CompleteInterview(r, i, decision) PROVE FilledInv'
  <2>1. PICK s, j, d : /\ s = interviews[i].submission /\ j = interviews[i].job
                       /\ d = interviews[i].candidate
    OBVIOUS
  <2>2. PICK c : c = [NewCall("complete", "reread", <<"interview_completed">>) EXCEPT
                        !.submission = s, !.arg = decision, !.job = j, !.candidate = d]
    OBVIOUS
  <2>3. c.jobRow = None BY <2>2 DEF NewCall
  <2>4. Arrive(r, c) /\ UNCHANGED jobs BY <1>7, <2>1, <2>2 DEF CompleteInterview
  <2> QED BY <1>1, <2>3, <2>4
<1>8. ASSUME NEW o, NEW status, UpdateOfferStatus(r, o, status) PROVE FilledInv'
  <2>1. PICK s, j, d, type : /\ s = offers[o].submission /\ j = offers[o].job
                             /\ d = offers[o].candidate /\ type = OfferActivity(status)
    OBVIOUS
  <2>2. PICK c : c = [NewCall("updateOffer", "reread", <<type>>) EXCEPT
                        !.submission = s, !.arg = status, !.job = j, !.candidate = d]
    OBVIOUS
  <2>3. c.jobRow = None BY <2>2 DEF NewCall
  <2>4. Arrive(r, c) /\ UNCHANGED jobs BY <1>8, <2>1, <2>2 DEF UpdateOfferStatus
  <2> QED BY <1>1, <2>3, <2>4
<1> QED BY <1>3, <1>4, <1>5, <1>6, <1>7, <1>8
        DEF RecruitmentRequest, UpdateStatus, Reject, Withdraw

(* A placement is written before the job that says so.                     *)
LEMMA FilledGoesOn ==
    ASSUME IInv, RowsStay, IInv', FilledInv, "Filled" \notin JobPatches,
           NEW r \in Requests, Continue(r)
    PROVE  FilledInv'
<1>1. PICK d : d = request[r] OBVIOUS
<1>2. ASSUME d # None PROVE d \in Call /\ WellFormed(d)
  BY <1>1, <1>2 DEF IInv, TypeOK, CallsOK, CallOK
<1>3. FilledInFlight(d) BY <1>1 DEF FilledInv
<1>4. ASSUME NEW c, d # None, Await(r, c), UNCHANGED jobs,
             \/ c = None
             \/ c.jobRow = None
             \/ /\ c.jobRow = d.jobRow /\ c.job = d.job
                /\ d.op # "place" \/ d.at # "saveSubmission"
      PROVE  FilledInv'
  <2>1. FilledInFlight(c) BY <1>3, <1>4 DEF FilledInFlight
  <2> QED BY <1>4, <2>1, FilledStep DEF Await
<1>5. CASE FindDuplicate(r)
  <2>1. PICK c : c = IF PairTaken(d.candidate, d.job)
                       THEN None ELSE [d EXCEPT !.at = "insertSubmission"]
    OBVIOUS
  <2>2. Await(r, c) /\ UNCHANGED jobs /\ d # None /\ d.at = "findDuplicate"
    BY <1>1, <1>5, <2>1 DEF FindDuplicate, tables, At
  <2>3. c = None \/ (c.jobRow = d.jobRow /\ c.job = d.job) BY <1>2, <2>1, <2>2, SetAt DEF Steps
  <2> QED BY <1>4, <2>2, <2>3
<1>6. CASE RefuseInsert(r) BY <1>1, <1>4, <1>6 DEF RefuseInsert, tables, At
<1>7. ASSUME NEW s \in Submissions, InsertSubmission(r, s) PROVE FilledInv'
  <2>1. PICK b : b = [d EXCEPT !.at = "saveJob"] OBVIOUS
  <2>2. PICK c : c = [b EXCEPT !.submission = s] OBVIOUS
  <2>3. Await(r, c) /\ d # None /\ UNCHANGED jobs /\ d.at = "insertSubmission"
    BY <1>1, <1>7, <2>1, <2>2 DEF InsertSubmission, At
  <2>4. b \in Call /\ b.jobRow = d.jobRow /\ b.job = d.job BY <1>2, <2>1, <2>3, SetAt DEF Steps
  <2>5. c.jobRow = d.jobRow /\ c.job = d.job BY <2>2, <2>4, SetSubmission
  <2> QED BY <1>4, <2>3, <2>5
<1>8. CASE CountInterviews(r)
  <2>1. PICK n : n = IF d.round = 0 THEN Cardinality(InterviewsOf(d.submission)) + 1 ELSE d.round
    OBVIOUS
  <2>2. PICK c : c = [d EXCEPT !.at = "insertInterview", !.round = n] OBVIOUS
  <2>3. Await(r, c) /\ UNCHANGED jobs /\ d # None /\ d.at = "countInterviews"
    BY <1>1, <1>8, <2>1, <2>2 DEF CountInterviews, tables, At
  <2>4. c.jobRow = d.jobRow /\ c.job = d.job BY <1>2, <2>2, <2>3 DEF Call
  <2> QED BY <1>4, <2>3, <2>4
<1>9. ASSUME NEW i \in Interviews, InsertInterview(r, i) PROVE FilledInv'
  <2>1. PICK c : c = [d EXCEPT !.at = "saveSubmission"] OBVIOUS
  <2>2. d # None /\ d.at = "insertInterview" /\ Await(r, c) /\ UNCHANGED jobs
    BY <1>1, <1>9, <2>1 DEF InsertInterview, At
  <2>3. c.jobRow = d.jobRow /\ c.job = d.job BY <1>2, <2>1, <2>2, SetAt DEF Steps
  <2> QED BY <1>4, <2>2, <2>3
<1>10. ASSUME NEW o \in Offers, InsertOffer(r, o) PROVE FilledInv'
  <2>1. PICK c : c = [d EXCEPT !.at = "saveSubmission"] OBVIOUS
  <2>2. d # None /\ d.at = "insertOffer" /\ Await(r, c) /\ UNCHANGED jobs
    BY <1>1, <1>10, <2>1 DEF InsertOffer, At
  <2>3. c.jobRow = d.jobRow /\ c.job = d.job BY <1>2, <2>1, <2>2, SetAt DEF Steps
  <2> QED BY <1>4, <2>2, <2>3
<1>11. CASE Reread(r)
  <2>1. PICK row : row = [submissions[d.submission] EXCEPT
                            !.status = StatusAfter(d.arg, submissions[d.submission].status)]
    OBVIOUS
  <2>2. PICK c : c = IF d.arg = "Cancelled" THEN [d EXCEPT !.at = "log"]
                       ELSE [d EXCEPT !.at = "saveSubmission", !.submissionRow = row]
    OBVIOUS
  <2>3. d # None /\ d.at = "reread" /\ UNCHANGED jobs BY <1>1, <1>11 DEF Reread, At, tables
  <2>4. Await(r, c) BY <1>1, <1>11, <2>1, <2>2 DEF Reread
  <2>5. c.jobRow = d.jobRow /\ c.job = d.job BY <1>2, <2>2, <2>3 DEF Call
  <2> QED BY <1>4, <2>3, <2>4, <2>5
<1>12. CASE ReadJob(r)
  <2>1. PICK row : row = WithPlacement(jobs[d.job]) OBVIOUS
  <2>2. PICK c : c = IF JobFound(d.job)
                       THEN [d EXCEPT !.at = "saveSubmission", !.jobRow = row] ELSE None
    OBVIOUS
  <2>3. d # None /\ d.at = "readJob" /\ UNCHANGED jobs /\ Await(r, c)
    BY <1>1, <1>12, <2>1, <2>2 DEF ReadJob, At, tables
  <2>4. c = None \/ (c.op = "place" /\ c.at = "saveSubmission")
    BY <1>2, <2>2, <2>3 DEF Call, WellFormed, OnCourse
  <2>5. FilledInFlight(c) BY <2>4 DEF FilledInFlight
  <2> QED BY <2>3, <2>5, FilledStep DEF Await
<1>13. CASE SaveSubmission(r)
  <2>1. PICK at : at = IF d.op = "place" THEN "saveJob" ELSE "log" OBVIOUS
  <2>2. PICK c : c = [d EXCEPT !.at = at] OBVIOUS
  <2>3. d # None /\ d.at = "saveSubmission" /\ Await(r, c) /\ UNCHANGED jobs
    BY <1>1, <1>13, <2>1, <2>2 DEF SaveSubmission, At
  <2>4. c.jobRow = d.jobRow /\ c.job = d.job BY <1>2, <2>1, <2>2, <2>3, SetAt DEF Steps
  <2>5. CASE d.op # "place"
    <3>1. d.jobRow = None BY <1>2, <2>3, <2>5 DEF WellFormed, OnCourse
    <3> QED BY <1>4, <2>3, <2>4, <3>1
  <2>6. CASE d.op = "place"
    <3>1. d.job \in Jobs BY <1>2, <2>3 DEF WellFormed
    <3>2. placements'[d.job] > 0
      BY <1>1, <1>13, <2>6, <3>1 DEF SaveSubmission, IInv, TypeOK
    <3>3. FilledInFlight(c)' BY <2>4, <3>2 DEF FilledInFlight
    <3> QED BY <2>3, <3>3, FilledStep DEF Await
  <2> QED BY <2>5, <2>6
<1>14. CASE SaveJob(r)
  <2>1. PICK c : c = IF d.op = "editJob" THEN None ELSE [d EXCEPT !.at = "log"] OBVIOUS
  <2>2. PICK j, row : j = d.job /\ row = d.jobRow OBVIOUS
  <2>3. d # None /\ d.at = "saveJob" /\ Await(r, c) /\ jobs' = [jobs EXCEPT ![j] = row]
    BY <1>1, <1>14, <2>1, <2>2 DEF SaveJob, At
  <2>4. row # None /\ j \in Jobs BY <1>2, <2>2, <2>3 DEF WellFormed
  <2>5. row.status = "Filled" => placements[j] > 0 BY <1>3, <2>2, <2>3, <2>4 DEF FilledInFlight
  <2>6. ASSUME NEW k \in Jobs, Exists(jobs', k), jobs'[k].status = "Filled"
        PROVE  (Exists(jobs, k) /\ jobs[k].status = "Filled") \/ placements[k] > 0
    <3>1. jobs'[k] = IF k = j THEN row ELSE jobs[k] BY <2>3 DEF IInv, TypeOK
    <3> QED BY <2>5, <2>6, <3>1 DEF Exists
  <2>7. c = None \/ (c.jobRow = d.jobRow /\ c.job = d.job) BY <1>2, <2>1, <2>3, SetAt DEF Steps
  <2>8. FilledInFlight(c) BY <1>3, <2>3, <2>7 DEF FilledInFlight
  <2> QED BY <2>3, <2>6, <2>8, FilledStep DEF Await
<1>15. CASE AppendActivity(r)
  <2>1. PICK rest : rest = Tail(d.trail) OBVIOUS
  <2>2. PICK c : c = IF Len(d.trail) = 1 THEN None ELSE [d EXCEPT !.trail = rest] OBVIOUS
  <2>3. d # None /\ d.at = "log" /\ Await(r, c) /\ UNCHANGED jobs
    BY <1>1, <1>15, <2>1, <2>2 DEF AppendActivity, At
  <2>4. c = None \/ (c.jobRow = d.jobRow /\ c.job = d.job) BY <1>2, <2>2, <2>3 DEF Call
  <2> QED BY <1>4, <2>3, <2>4
<1>16. CASE Abort(r)
  <2>1. FilledInFlight(None) BY DEF FilledInFlight
  <2> QED BY <1>16, <2>1, FilledStep DEF Abort, tables
<1> QED
  BY <1>5, <1>6, <1>7, <1>8, <1>9, <1>10, <1>11, <1>12, <1>13, <1>14, <1>15, <1>16 DEF Continue

LEMMA NextFilledInv == IInv /\ FilledInv /\ [Next]_vars => FilledInv'
<1> SUFFICES ASSUME IInv, FilledInv, [Next]_vars, "Filled" \notin JobPatches PROVE FilledInv'
  BY DEF FilledInv
<1>1. IInv' /\ RowsStay BY NextKeepsRows
<1>2. CASE UNCHANGED vars
  BY <1>2 DEF vars, tables, FilledInv, FilledInFlight, Exists
<1> QED
  BY <1>1, <1>2, FilledJobRequest, FilledRecruitmentRequest, FilledGoesOn DEF Next

-----------------------------------------------------------------------------
(* The views.                                                              *)

(* Every view reads something.                                             *)
LEMMA SomeReads ==
    ASSUME NEW kind \in DOMAIN Reads
    PROVE  Len(Reads[kind]) \in Nat /\ Len(Reads[kind]) >= 1
<1>1. PICK reads : reads = Reads[kind] OBVIOUS
<1>2. CASE kind = "detail"
  <2>1. reads = <<"submission", "job", "interviews", "offers", "activities">>
    BY <1>1, <1>2 DEF Reads
  <2> QED BY <1>1, <2>1
<1>3. CASE kind = "list"
  <2>1. reads = <<"submissions", "jobs">> BY <1>1, <1>3 DEF Reads
  <2> QED BY <1>1, <2>1
<1>4. CASE kind = "insight"
  <2>1. reads = <<"interviewedFor", "interviewers", "submittedTo", "openJobs">>
    BY <1>1, <1>4 DEF Reads
  <2> QED BY <1>1, <2>1
<1>5. CASE kind = "aboutSubmission"
  <2>1. reads = <<"submission", "job", "rejectedBefore">> BY <1>1, <1>5 DEF Reads
  <2> QED BY <1>1, <2>1
<1>6. CASE kind = "aboutJob"
  <2>1. reads = <<"found", "filled", "awaiting">> BY <1>1, <1>6 DEF Reads
  <2> QED BY <1>1, <2>1
<1>7. DOMAIN Reads = {"detail", "list", "insight", "aboutSubmission", "aboutJob"} BY DEF Reads
<1> QED BY <1>2, <1>3, <1>4, <1>5, <1>6, <1>7

(* Which reads a view has behind it.                                       *)
LEMMA ReadsDone ==
    ASSUME NEW v, InOrder(v), v.next <= Len(Reads[v.kind]), NEW read, read = Reads[v.kind][v.next]
    PROVE  /\ v.kind = "detail" =>
                 \/ read = "submission" /\ DOMAIN v.got = {}
                 \/ read = "job" /\ DOMAIN v.got = {"submission"}
                 \/ read = "interviews" /\ DOMAIN v.got = {"submission", "job"}
                 \/ read = "offers" /\ DOMAIN v.got = {"submission", "job", "interviews"}
                 \/ /\ read = "activities"
                    /\ DOMAIN v.got = {"submission", "job", "interviews", "offers"}
           /\ v.kind = "list" =>
                 \/ read = "submissions" /\ DOMAIN v.got = {}
                 \/ read = "jobs" /\ DOMAIN v.got = {"submissions"}
           /\ v.kind = "insight" =>
                 \/ read = "interviewedFor" /\ DOMAIN v.got = {}
                 \/ read = "interviewers" /\ DOMAIN v.got = {"interviewedFor"}
                 \/ read = "submittedTo" /\ DOMAIN v.got = {"interviewedFor", "interviewers"}
                 \/ /\ read = "openJobs"
                    /\ DOMAIN v.got = {"interviewedFor", "interviewers", "submittedTo"}
           /\ v.kind = "aboutSubmission" =>
                 \/ read = "submission" /\ DOMAIN v.got = {}
                 \/ read = "job" /\ DOMAIN v.got = {"submission"}
                 \/ read = "rejectedBefore" /\ DOMAIN v.got = {"submission", "job"}
           /\ v.kind = "aboutJob" =>
                 \/ read = "found" /\ DOMAIN v.got = {}
                 \/ read = "filled" /\ DOMAIN v.got = {"found"}
                 \/ read = "awaiting" /\ DOMAIN v.got = {"found", "filled"}
<1>1. PICK reads, next : reads = Reads[v.kind] /\ next = v.next OBVIOUS
<1>2. /\ next \in Nat \ {0} /\ next <= Len(reads) /\ read = reads[next]
      /\ DOMAIN v.got = {reads[n] : n \in 1..(next - 1)}
  <2>1. v.kind \in DOMAIN Reads BY DEF InOrder
  <2>2. Len(reads) \in Nat BY <1>1, <2>1, SomeReads
  <2> QED BY <1>1, <2>2 DEF InOrder
<1>3. 1..(1 - 1) = {} /\ 1..(2 - 1) = {1} /\ 1..(3 - 1) = {1, 2} /\ 1..(4 - 1) = {1, 2, 3}
      /\ 1..(5 - 1) = {1, 2, 3, 4}
  OBVIOUS
<1>4. ASSUME v.kind = "detail"
      PROVE  \/ read = "submission" /\ DOMAIN v.got = {}
             \/ read = "job" /\ DOMAIN v.got = {"submission"}
             \/ read = "interviews" /\ DOMAIN v.got = {"submission", "job"}
             \/ read = "offers" /\ DOMAIN v.got = {"submission", "job", "interviews"}
             \/ /\ read = "activities"
                /\ DOMAIN v.got = {"submission", "job", "interviews", "offers"}
  <2>1. reads = <<"submission", "job", "interviews", "offers", "activities">>
    BY <1>1, <1>4 DEF Reads
  <2>2. next \in {1, 2, 3, 4, 5} BY <1>2, <2>1
  <2> QED BY <1>2, <1>3, <2>1, <2>2
<1>5. ASSUME v.kind = "list"
      PROVE  \/ read = "submissions" /\ DOMAIN v.got = {}
             \/ read = "jobs" /\ DOMAIN v.got = {"submissions"}
  <2>1. reads = <<"submissions", "jobs">> BY <1>1, <1>5 DEF Reads
  <2>2. next \in {1, 2} BY <1>2, <2>1
  <2> QED BY <1>2, <1>3, <2>1, <2>2
<1>6. ASSUME v.kind = "insight"
      PROVE  \/ read = "interviewedFor" /\ DOMAIN v.got = {}
             \/ read = "interviewers" /\ DOMAIN v.got = {"interviewedFor"}
             \/ read = "submittedTo" /\ DOMAIN v.got = {"interviewedFor", "interviewers"}
             \/ /\ read = "openJobs"
                /\ DOMAIN v.got = {"interviewedFor", "interviewers", "submittedTo"}
  <2>1. reads = <<"interviewedFor", "interviewers", "submittedTo", "openJobs">>
    BY <1>1, <1>6 DEF Reads
  <2>2. next \in {1, 2, 3, 4} BY <1>2, <2>1
  <2> QED BY <1>2, <1>3, <2>1, <2>2
<1>7. ASSUME v.kind = "aboutSubmission"
      PROVE  \/ read = "submission" /\ DOMAIN v.got = {}
             \/ read = "job" /\ DOMAIN v.got = {"submission"}
             \/ read = "rejectedBefore" /\ DOMAIN v.got = {"submission", "job"}
  <2>1. reads = <<"submission", "job", "rejectedBefore">> BY <1>1, <1>7 DEF Reads
  <2>2. next \in {1, 2, 3} BY <1>2, <2>1
  <2> QED BY <1>2, <1>3, <2>1, <2>2
<1>8. ASSUME v.kind = "aboutJob"
      PROVE  \/ read = "found" /\ DOMAIN v.got = {}
             \/ read = "filled" /\ DOMAIN v.got = {"found"}
             \/ read = "awaiting" /\ DOMAIN v.got = {"found", "filled"}
  <2>1. reads = <<"found", "filled", "awaiting">> BY <1>1, <1>8 DEF Reads
  <2>2. next \in {1, 2, 3} BY <1>2, <2>1
  <2> QED BY <1>2, <1>3, <2>1, <2>2
<1> QED BY <1>4, <1>5, <1>6, <1>7, <1>8

(* What a view has read stays true of the tables it reads next.            *)
LEMMA ViewStays ==
    ASSUME IInv, IInv', RowsStay, [Next]_vars, NEW v, ViewKnown(v)
    PROVE  ViewKnown(v)'
<1>1. InOrder(v)' BY DEF ViewKnown, InOrder
<1>2. DetailKnown(v)'
  <2> SUFFICES ASSUME v.kind = "detail" PROVE DetailKnown(v)' BY DEF DetailKnown
  <2>1. PICK s, status : s = v.of /\ status = v.got["submission"].status OBVIOUS
  <2>2. s \in Submissions /\ Exists(submissions, s) BY <2>1 DEF ViewKnown, DetailKnown
  <2>3. Exists(submissions', s) BY <2>2 DEF RowsStay
  <2>4. Knows(v, "submission") => Why(s, status)' BY <2>1, <2>2, WhyStays DEF ViewKnown, DetailKnown
  <2> QED BY <2>1, <2>2, <2>3, <2>4 DEF ViewKnown, DetailKnown, Knows
<1>3. InsightKnown(v)'
  <2> SUFFICES ASSUME v.kind = "insight" PROVE InsightKnown(v)' BY DEF InsightKnown
  <2>1. ASSUME NEW j, Knows(v, "interviewedFor"), j \in v.got["interviewedFor"]
        PROVE  /\ j \in Jobs /\ Exists(jobs', j)
               /\ \E s \in Submissions : /\ Exists(submissions', s)
                                         /\ submissions'[s].candidate = v.of
                                         /\ submissions'[s].job = j
    <3>1. /\ j \in Jobs /\ Exists(jobs, j)
          /\ \E s \in Submissions : /\ Exists(submissions, s)
                                    /\ submissions[s].candidate = v.of
                                    /\ submissions[s].job = j
      BY <2>1 DEF ViewKnown, InsightKnown
    <3> QED BY <3>1 DEF RowsStay
  <2> QED BY <2>1 DEF ViewKnown, InsightKnown, Knows
<1>4. WarningKnown(v)'
  <2>1. ASSUME v.kind = "aboutSubmission", "Rejected" \notin PatchStatuses,
               Knows(v, "rejectedBefore"), NEW o, o \in v.got["rejectedBefore"]
        PROVE  o \in Submissions /\ RejectTold(o)'
    <3>1. o \in Submissions /\ RejectTold(o) BY <2>1 DEF ViewKnown, WarningKnown
    <3> QED BY <3>1, RejectionStays
  <2>2. ASSUME v.kind = "aboutJob", "Filled" \notin JobPatches, Knows(v, "filled"),
               NEW j, j \in v.got["filled"]
        PROVE  j \in Jobs /\ placements'[j] > 0
    <3>1. j \in Jobs /\ placements[j] > 0 BY <2>2 DEF ViewKnown, WarningKnown
    <3>2. placements[j] <= placements'[j] /\ placements[j] \in Nat /\ placements'[j] \in Nat
      BY <3>1 DEF RowsStay, IInv, TypeOK
    <3> QED BY <3>1, <3>2
  <2> QED BY <2>1, <2>2 DEF WarningKnown, Knows
<1> QED BY <1>1, <1>2, <1>3, <1>4 DEF ViewKnown

(* So does the view that was answered last.                                *)
LEMMA ShownStays ==
    ASSUME IInv, IInv', RowsStay, [Next]_vars, ViewsInv, UNCHANGED shown, shown # None
    PROVE  ViewKnown(shown)' /\ shown'.next = Len(Reads[shown'.kind]) + 1
<1>1. PICK w : w = shown OBVIOUS
<1>2. ViewKnown(w) /\ w.next = Len(Reads[w.kind]) + 1 BY <1>1 DEF ViewsInv
<1>3. ViewKnown(w)' BY <1>2, ViewStays
<1>4. shown' = w BY <1>1
<1> QED BY <1>2, <1>3, <1>4

(* A view that is opened knows nothing yet.                                *)
LEMMA OpenKnown ==
    ASSUME IInv, ViewsInv, NEW kind \in DOMAIN Reads, Open(kind)
    PROVE  ViewsInv'
<1>1. PICK x \in Subject(kind) : view' = [kind |-> kind, of |-> x, next |-> 1, got |-> << >>]
  BY DEF Open
<1>2. PICK v : v = view' OBVIOUS
<1>3. /\ v = [kind |-> kind, of |-> x, next |-> 1, got |-> << >>] /\ DOMAIN v.got = {}
      /\ v.kind = kind /\ v.of = x /\ v.next = 1
  <2>1. DOMAIN << >> = {} OBVIOUS
  <2> QED BY <1>1, <1>2, <2>1
<1>4. shown' = shown /\ UNCHANGED vars BY DEF Open
<1>5. IInv' /\ RowsStay /\ [Next]_vars BY <1>4, StillKeepsRows
<1>6. Len(Reads[kind]) \in Nat /\ Len(Reads[kind]) >= 1 BY SomeReads
<1>7. InOrder(v)
  <2>1. 1..(1 - 1) = {} OBVIOUS
  <2> QED BY <1>3, <1>6, <2>1 DEF InOrder
<1>8. DetailKnown(v)
  <2>1. kind = "detail" => x \in Submissions /\ Exists(submissions, x) BY DEF Subject
  <2> QED BY <1>3, <2>1 DEF DetailKnown, Knows
<1>9. ViewKnown(v) BY <1>3, <1>7, <1>8 DEF ViewKnown, InsightKnown, WarningKnown, Knows
<1>10. ViewKnown(v)' BY <1>5, <1>9, ViewStays
<1>11. ViewKnown(view)' /\ view'.next <= Len(Reads[view'.kind]) BY <1>2, <1>3, <1>6, <1>10
<1>12. shown' # None => ViewKnown(shown)' /\ shown'.next = Len(Reads[shown'.kind]) + 1
  BY <1>4, <1>5, ShownStays
<1> QED BY <1>11, <1>12 DEF ViewsInv

(* What a view v that reads found as read holds next.                      *)
Having(v, read, found) ==
    [kind |-> v.kind, of |-> v.of, next |-> v.next + 1,
     got |-> [n \in DOMAIN v.got \cup {read} |-> IF n = read THEN found ELSE v.got[n]]]

(* It has what it had, and what it found.                                  *)
LEMMA HavingFields ==
    ASSUME NEW v, NEW read, read \notin DOMAIN v.got, NEW found
    PROVE  /\ Having(v, read, found).kind = v.kind
           /\ Having(v, read, found).of = v.of
           /\ Having(v, read, found).next = v.next + 1
           /\ Having(v, read, found) =
                 [kind |-> Having(v, read, found).kind, of |-> Having(v, read, found).of,
                  next |-> Having(v, read, found).next, got |-> Having(v, read, found).got]
           /\ DOMAIN Having(v, read, found).got = DOMAIN v.got \cup {read}
           /\ Having(v, read, found).got[read] = found
           /\ \A n \in DOMAIN v.got : Having(v, read, found).got[n] = v.got[n]
BY DEF Having

(* A step of a view reads what is next and finds what the tables hold.     *)
LEMMA ReadStep ==
    ASSUME ViewsInv, Read
    PROVE  \E read, found, w :
              /\ read = Reads[view.kind][view.next]
              /\ found = Found(read, view.of, view.got)
              /\ w = Having(view, read, found)
              /\ \/ view.next = Len(Reads[view.kind]) /\ view' = None /\ shown' = w
                 \/ view.next # Len(Reads[view.kind]) /\ view' = w /\ shown' = shown
<1>1. PICK read, found : read = Reads[view.kind][view.next] /\ found = Found(read, view.of, view.got)
  OBVIOUS
<1>2. PICK got : got = [n \in DOMAIN view.got \cup {read} |->
                           IF n = read THEN found ELSE view.got[n]]
  OBVIOUS
<1>3. PICK now : now = [view EXCEPT !.next = @ + 1, !.got = got] OBVIOUS
<1>4. view = [kind |-> view.kind, of |-> view.of, next |-> view.next, got |-> view.got]
  BY DEF Read, ViewsInv, ViewKnown, InOrder
<1>5. now = [kind |-> view.kind, of |-> view.of, next |-> view.next + 1, got |-> got]
  BY <1>3, <1>4
<1>6. now = Having(view, read, found) BY <1>2, <1>5 DEF Having
<1>7. now = [view EXCEPT !.next = @ + 1,
                         !.got = [n \in DOMAIN view.got \cup {read} |->
                             IF n = read THEN Found(read, view.of, view.got) ELSE view.got[n]]]
  BY <1>1, <1>2, <1>3
<1>8. \/ view.next = Len(Reads[view.kind]) /\ view' = None /\ shown' = now
      \/ view.next # Len(Reads[view.kind]) /\ view' = now /\ shown' = shown
  BY <1>1, <1>7 DEF Read
<1> QED BY <1>1, <1>6, <1>8

(* The page of a submission: the interviews and the offers are read after  *)
(* the status they are the cause of.                                       *)
LEMMA ReadDetail ==
    ASSUME IInv, NEW v, ViewKnown(v), v.next <= Len(Reads[v.kind]),
           NEW read, read = Reads[v.kind][v.next], NEW found, found = Found(read, v.of, v.got),
           NEW w, w = Having(v, read, found)
    PROVE  DetailKnown(w)
<1> SUFFICES ASSUME v.kind = "detail" PROVE DetailKnown(w)
  <2>1. w.kind = v.kind BY DEF Having
  <2> QED BY <2>1 DEF DetailKnown
<1>1. PICK x : x = v.of OBVIOUS
<1>2. x \in Submissions /\ Exists(submissions, x) BY <1>1 DEF ViewKnown, DetailKnown
<1>3. \/ read = "submission" /\ DOMAIN v.got = {}
      \/ read = "job" /\ DOMAIN v.got = {"submission"}
      \/ read = "interviews" /\ DOMAIN v.got = {"submission", "job"}
      \/ read = "offers" /\ DOMAIN v.got = {"submission", "job", "interviews"}
      \/ /\ read = "activities"
         /\ DOMAIN v.got = {"submission", "job", "interviews", "offers"}
  BY ReadsDone DEF ViewKnown
<1>4. read \notin DOMAIN v.got BY <1>3
<1>5. /\ w.kind = v.kind /\ w.of = x /\ DOMAIN w.got = DOMAIN v.got \cup {read}
      /\ w.got[read] = found /\ \A n \in DOMAIN v.got : w.got[n] = v.got[n]
  BY <1>1, <1>4, HavingFields
<1>6. DetailKnown(v) BY DEF ViewKnown
<1>7. CASE read = "submission"
  <2>1. found = submissions[x] BY <1>1, <1>7 DEF Found
  <2>2. Why(x, submissions[x].status) BY <1>2, CauseShows
  <2> QED BY <1>2, <1>3, <1>5, <1>7, <2>1, <2>2 DEF DetailKnown, Knows
<1>8. CASE read = "job" BY <1>1, <1>2, <1>3, <1>5, <1>6, <1>8 DEF DetailKnown, Knows
<1>9. CASE read = "interviews"
  <2>1. found = InterviewsOf(x) BY <1>1, <1>9 DEF Found
  <2>2. Why(x, v.got["submission"].status) BY <1>1, <1>3, <1>6, <1>9 DEF DetailKnown, Knows
  <2> QED BY <1>2, <1>3, <1>5, <1>9, <2>1, <2>2 DEF DetailKnown, Knows, Why
<1>10. CASE read = "offers"
  <2>1. found = OffersOf(x) BY <1>1, <1>10 DEF Found
  <2>2. Why(x, v.got["submission"].status) BY <1>1, <1>3, <1>6, <1>10 DEF DetailKnown, Knows
  <2>3. v.got["submission"].status \in InterviewStatuses \ PatchStatuses
        => v.got["interviews"] # {}
    BY <1>3, <1>6, <1>10 DEF DetailKnown, Knows
  <2> QED BY <1>2, <1>3, <1>5, <1>10, <2>1, <2>2, <2>3 DEF DetailKnown, Knows, Why
<1>11. CASE read = "activities"
  <2>1. /\ Why(x, v.got["submission"].status)
        /\ v.got["submission"].status \notin PatchStatuses =>
              (v.got["submission"].status \in InterviewStatuses => v.got["interviews"] # {})
        /\ v.got["submission"].status \notin PatchStatuses =>
              (v.got["submission"].status \in OfferPhaseStatuses => v.got["offers"] # {})
    BY <1>1, <1>3, <1>6, <1>11 DEF DetailKnown, Knows
  <2> QED BY <1>2, <1>3, <1>5, <1>11, <2>1 DEF DetailKnown, Knows
<1> QED BY <1>3, <1>7, <1>8, <1>9, <1>10, <1>11

(* The insights about a candidate: the jobs it was submitted to are read   *)
(* after those it was interviewed for, and before the open ones.           *)
LEMMA ReadInsight ==
    ASSUME IInv, NEW v, ViewKnown(v), v.next <= Len(Reads[v.kind]),
           NEW read, read = Reads[v.kind][v.next], NEW found, found = Found(read, v.of, v.got),
           NEW w, w = Having(v, read, found)
    PROVE  InsightKnown(w)
<1> SUFFICES ASSUME v.kind = "insight" PROVE InsightKnown(w)
  <2>1. w.kind = v.kind BY DEF Having
  <2> QED BY <2>1 DEF InsightKnown
<1>1. PICK x : x = v.of OBVIOUS
<1>2. \/ read = "interviewedFor" /\ DOMAIN v.got = {}
      \/ read = "interviewers" /\ DOMAIN v.got = {"interviewedFor"}
      \/ read = "submittedTo" /\ DOMAIN v.got = {"interviewedFor", "interviewers"}
      \/ /\ read = "openJobs"
         /\ DOMAIN v.got = {"interviewedFor", "interviewers", "submittedTo"}
  BY ReadsDone DEF ViewKnown
<1>3. read \notin DOMAIN v.got BY <1>2
<1>4. /\ w.kind = v.kind /\ w.of = x /\ DOMAIN w.got = DOMAIN v.got \cup {read}
      /\ w.got[read] = found /\ \A n \in DOMAIN v.got : w.got[n] = v.got[n]
  BY <1>1, <1>3, HavingFields
<1>5. InsightKnown(v) BY DEF ViewKnown
<1> DEFINE Submitted(j) == /\ j \in Jobs /\ Exists(jobs, j)
                           /\ \E s \in Submissions : /\ Exists(submissions, s)
                                                     /\ submissions[s].candidate = x
                                                     /\ submissions[s].job = j
<1>6. Knows(v, "interviewedFor") => \A j \in v.got["interviewedFor"] : Submitted(j)
  BY <1>1, <1>5 DEF InsightKnown
<1>7. CASE read = "interviewedFor"
  <2>1. found = {interviews[i].job : i \in {i \in Interviews :
                                  Exists(interviews, i) /\ interviews[i].candidate = x}}
    BY <1>1, <1>7 DEF Found
  <2>2. ASSUME NEW i \in Interviews, Exists(interviews, i), interviews[i].candidate = x
        PROVE  Submitted(interviews[i].job)
    <3>1. PICK s, j : s = interviews[i].submission /\ j = interviews[i].job OBVIOUS
    <3>2. s \in Submissions /\ j \in Jobs BY <2>2, <3>1 DEF IInv, TypeOK, Exists, InterviewRow
    <3>3. /\ Exists(submissions, s) /\ submissions[s].job = j /\ submissions[s].candidate = x
          /\ Exists(jobs, j)
      BY <2>2, <3>1, <3>2 DEF IInv, TablesOK, ReferencesAgree
    <3> QED BY <3>1, <3>2, <3>3
  <2>3. \A j \in found : Submitted(j) BY <2>1, <2>2
  <2> QED BY <1>2, <1>4, <1>7, <2>3 DEF InsightKnown, Knows
<1>8. CASE read = "interviewers"
  <2>1. found = {j \in v.got["interviewedFor"] : Exists(jobs, j)} BY <1>8 DEF Found
  <2>2. \A j \in v.got["interviewedFor"] : Submitted(j) BY <1>2, <1>6, <1>8 DEF Knows
  <2>3. found = v.got["interviewedFor"] BY <2>1, <2>2
  <2> QED BY <1>2, <1>4, <1>8, <2>2, <2>3 DEF InsightKnown, Knows
<1>9. CASE read = "submittedTo"
  <2>1. found = {submissions[s].job : s \in {s \in Submissions :
                                  Exists(submissions, s) /\ submissions[s].candidate = x}}
    BY <1>1, <1>9 DEF Found
  <2>2. \A j \in v.got["interviewedFor"] : Submitted(j) BY <1>2, <1>6, <1>9 DEF Knows
  <2>3. v.got["interviewers"] = v.got["interviewedFor"]
    BY <1>2, <1>5, <1>9 DEF InsightKnown, Knows
  <2>4. v.got["interviewers"] \subseteq found BY <2>1, <2>2, <2>3
  <2> QED BY <1>2, <1>4, <1>9, <2>2, <2>3, <2>4 DEF InsightKnown, Knows
<1>10. CASE read = "openJobs"
  <2>1. found = OpenJobs(v.got["submittedTo"]) BY <1>10 DEF Found
  <2>2. found \cap v.got["submittedTo"] = {} BY <2>1 DEF OpenJobs
  <2>3. \A j \in v.got["interviewedFor"] : Submitted(j) BY <1>2, <1>6, <1>10 DEF Knows
  <2>4. /\ v.got["interviewers"] = v.got["interviewedFor"]
        /\ v.got["interviewers"] \subseteq v.got["submittedTo"]
    BY <1>2, <1>5, <1>10 DEF InsightKnown, Knows
  <2>5. \A n \in DOMAIN v.got : w.got[n] = v.got[n] BY <1>4
  <2>6. /\ w.got["interviewedFor"] = v.got["interviewedFor"]
        /\ w.got["interviewers"] = v.got["interviewers"]
        /\ w.got["submittedTo"] = v.got["submittedTo"]
    BY <1>2, <1>10, <2>5
  <2>7. w.got["openJobs"] = found BY <1>4, <1>10
  <2>8. \A j \in w.got["interviewedFor"] : Submitted(j) BY <2>3, <2>6
  <2>9. /\ w.got["interviewers"] = w.got["interviewedFor"]
        /\ w.got["interviewers"] \subseteq w.got["submittedTo"]
        /\ w.got["openJobs"] \cap w.got["submittedTo"] = {}
    BY <2>2, <2>4, <2>6, <2>7
  <2>10. w.of = x BY <1>4
  <2> QED BY <2>8, <2>9, <2>10 DEF InsightKnown
<1> QED BY <1>2, <1>7, <1>8, <1>9, <1>10

(* The warnings: a rejection that is read is told, a filled job was        *)
(* placed.                                                                 *)
LEMMA ReadWarning ==
    ASSUME IInv, RejectInv, FilledInv, NEW v, ViewKnown(v), v.next <= Len(Reads[v.kind]),
           NEW read, read = Reads[v.kind][v.next], NEW found, found = Found(read, v.of, v.got),
           NEW w, w = Having(v, read, found)
    PROVE  WarningKnown(w)
<1>1. w.kind = v.kind BY DEF Having
<1>2. CASE v.kind = "aboutSubmission"
  <2>1. \/ read = "submission" /\ DOMAIN v.got = {}
        \/ read = "job" /\ DOMAIN v.got = {"submission"}
        \/ read = "rejectedBefore" /\ DOMAIN v.got = {"submission", "job"}
    BY <1>2, ReadsDone DEF ViewKnown
  <2>2. DOMAIN w.got = DOMAIN v.got \cup {read} /\ w.got[read] = found
    <3>1. read \notin DOMAIN v.got BY <2>1
    <3> QED BY <3>1, HavingFields
  <2>3. ASSUME read = "rejectedBefore", "Rejected" \notin PatchStatuses, NEW o, o \in found
        PROVE  o \in Submissions /\ RejectTold(o)
    <3>1. found = RejectedBefore(v.of, v.got["submission"].candidate) BY <2>3 DEF Found
    <3>2. o \in Submissions /\ Exists(submissions, o) /\ submissions[o].status = "Rejected"
      BY <2>3, <3>1 DEF RejectedBefore
    <3> QED BY <2>3, <3>2 DEF RejectInv
  <2> QED BY <1>1, <1>2, <2>1, <2>2, <2>3 DEF WarningKnown, Knows
<1>3. CASE v.kind = "aboutJob"
  <2>1. \/ read = "found" /\ DOMAIN v.got = {}
        \/ read = "filled" /\ DOMAIN v.got = {"found"}
        \/ read = "awaiting" /\ DOMAIN v.got = {"found", "filled"}
    BY <1>3, ReadsDone DEF ViewKnown
  <2>2. /\ DOMAIN w.got = DOMAIN v.got \cup {read} /\ w.got[read] = found
        /\ \A n \in DOMAIN v.got : w.got[n] = v.got[n]
    <3>1. read \notin DOMAIN v.got BY <2>1
    <3> QED BY <3>1, HavingFields
  <2>3. ASSUME read = "filled", "Filled" \notin JobPatches, NEW j, j \in found
        PROVE  j \in Jobs /\ placements[j] > 0
    <3>1. found = Filled(v.of) BY <2>3 DEF Found
    <3>2. /\ j \in Jobs /\ Exists(jobs, j)
          /\ jobs[j].status = "Filled" \/ jobs[j].placementCount > 0
      BY <2>3, <3>1 DEF Filled, ListedJobs, JobFound
    <3>3. CASE jobs[j].status = "Filled" BY <2>3, <3>2, <3>3 DEF FilledInv
    <3>4. CASE jobs[j].placementCount > 0
      <4>1. jobs[j].placementCount \in Nat /\ placements[j] \in Nat
        BY <3>2 DEF IInv, TypeOK, Exists, JobRow
      <4>2. jobs[j].placementCount <= placements[j]
        BY <3>2 DEF IInv, TablesOK, PlacementCountSound
      <4> QED BY <3>2, <3>4, <4>1, <4>2
    <3> QED BY <3>2, <3>3, <3>4
  <2>4. read = "awaiting" => w.got["filled"] = v.got["filled"] BY <2>1, <2>2
  <2>5. WarningKnown(v) BY DEF ViewKnown
  <2> QED BY <1>1, <1>3, <2>1, <2>2, <2>3, <2>4, <2>5 DEF WarningKnown, Knows
<1> QED BY <1>1, <1>2, <1>3 DEF WarningKnown

(* A view that reads knows what it has read.                               *)
LEMMA ReadKnown ==
    ASSUME IInv, RejectInv, FilledInv, ViewsInv, Read
    PROVE  ViewsInv'
<1>1. PICK v : v = view OBVIOUS
<1>2. PICK read, found, w :
        /\ read = Reads[v.kind][v.next]
        /\ found = Found(read, v.of, v.got)
        /\ w = Having(v, read, found)
        /\ \/ v.next = Len(Reads[v.kind]) /\ view' = None /\ shown' = w
           \/ v.next # Len(Reads[v.kind]) /\ view' = w /\ shown' = shown
  BY <1>1, ReadStep
<1>3. ViewKnown(v) /\ v.next <= Len(Reads[v.kind]) BY <1>1 DEF Read, ViewsInv
<1>4. /\ v.kind \in DOMAIN Reads /\ v.next \in Nat \ {0}
      /\ Len(Reads[v.kind]) \in Nat /\ InOrder(v)
  BY <1>3, SomeReads DEF ViewKnown, InOrder
<1>5. read \notin DOMAIN v.got
  <2>1. v.kind \in {"detail", "list", "insight", "aboutSubmission", "aboutJob"}
    BY <1>4 DEF Reads
  <2> QED BY <1>2, <1>3, <1>4, <2>1, ReadsDone
<1>6. /\ w.kind = v.kind /\ w.of = v.of /\ w.next = v.next + 1
      /\ w = [kind |-> w.kind, of |-> w.of, next |-> w.next, got |-> w.got]
      /\ DOMAIN w.got = DOMAIN v.got \cup {read}
  BY <1>2, <1>5, HavingFields
<1>7. InOrder(w)
  <2>1. PICK reads, n : reads = Reads[v.kind] /\ n = v.next OBVIOUS
  <2>2. n \in Nat \ {0} /\ w.next = n + 1 /\ n <= Len(reads) /\ Len(reads) \in Nat
    BY <1>3, <1>4, <1>6, <2>1
  <2>3. DOMAIN v.got = {reads[m] : m \in 1..(n - 1)} BY <1>4, <2>1 DEF InOrder
  <2>4. 1..(w.next - 1) = 1..(n - 1) \cup {n} BY <2>2
  <2>5. DOMAIN w.got = {reads[m] : m \in 1..(w.next - 1)} BY <1>2, <1>6, <2>1, <2>3, <2>4
  <2>6. w.next \in 1..(Len(reads) + 1) BY <2>2
  <2> QED BY <1>4, <1>6, <2>1, <2>5, <2>6 DEF InOrder
<1>8. ViewKnown(w) BY <1>2, <1>3, <1>7, ReadDetail, ReadInsight, ReadWarning DEF ViewKnown
<1>9. IInv' /\ RowsStay /\ [Next]_vars
  <2>1. UNCHANGED vars BY DEF Read, allVars
  <2> QED BY <2>1, StillKeepsRows
<1>10. ViewKnown(w)' BY <1>8, <1>9, ViewStays
<1>11. CASE v.next = Len(Reads[v.kind])
  <2>1. view' = None /\ shown' = w BY <1>2, <1>11
  <2>2. ViewKnown(shown)' /\ shown'.next = Len(Reads[shown'.kind]) + 1
    BY <1>6, <1>10, <1>11, <2>1
  <2> QED BY <2>1, <2>2 DEF ViewsInv
<1>12. CASE v.next # Len(Reads[v.kind])
  <2>1. view' = w /\ shown' = shown BY <1>2, <1>12
  <2>2. ViewKnown(view)' /\ view'.next <= Len(Reads[view'.kind])
    BY <1>3, <1>4, <1>6, <1>10, <1>12, <2>1
  <2>3. shown' # None => ViewKnown(shown)' /\ shown'.next = Len(Reads[shown'.kind]) + 1
    BY <1>9, <2>1, ShownStays
  <2> QED BY <2>2, <2>3 DEF ViewsInv
<1> QED BY <1>11, <1>12

LEMMA NextViewsInv ==
    IInv /\ RejectInv /\ FilledInv /\ ViewsInv /\ [ViewsNext]_everything =>
        RejectInv' /\ FilledInv' /\ ViewsInv'
<1> SUFFICES ASSUME IInv, RejectInv, FilledInv, ViewsInv, [ViewsNext]_everything
             PROVE  RejectInv' /\ FilledInv' /\ ViewsInv'
  OBVIOUS
<1>1. IInv' /\ RowsStay /\ [Next]_vars BY ViewsKeepRows, ViewsStep
<1>2. RejectInv' /\ FilledInv' BY <1>1, NextRejectInv, NextFilledInv
<1>3. ASSUME UNCHANGED viewVars PROVE ViewsInv'
  <2>1. view' = view /\ shown' = shown BY <1>3 DEF viewVars
  <2>2. PICK v : v = view OBVIOUS
  <2>3. view # None => ViewKnown(v) /\ v.next <= Len(Reads[v.kind]) BY <2>2 DEF ViewsInv
  <2>4. view # None => ViewKnown(v)' BY <1>1, <2>3, ViewStays
  <2>5. view' # None => ViewKnown(view)' /\ view'.next <= Len(Reads[view'.kind])
    BY <2>1, <2>2, <2>3, <2>4
  <2>6. shown' # None => ViewKnown(shown)' /\ shown'.next = Len(Reads[shown'.kind]) + 1
    BY <1>1, <2>1, ShownStays
  <2> QED BY <2>5, <2>6 DEF ViewsInv
<1>4. ViewsInv'
  BY <1>3, OpenKnown, ReadKnown DEF ViewsNext, everything
<1> QED BY <1>2, <1>4

LEMMA InitViewsInv == ViewsInit => RejectInv /\ FilledInv /\ ViewsInv
<1> SUFFICES ASSUME ViewsInit PROVE RejectInv /\ FilledInv /\ ViewsInv OBVIOUS
<1>1. Init /\ view = None /\ shown = None BY DEF ViewsInit, ReadinessInit
<1>2. RejectInv BY <1>1 DEF Init, RejectInv, RejectedInFlight, Exists
<1>3. FilledInv BY <1>1 DEF Init, FilledInv, FilledInFlight, Exists
<1> QED BY <1>1, <1>2, <1>3 DEF ViewsInv

LEMMA KnownInvariance == ViewsSpec => [](RejectInv /\ FilledInv /\ ViewsInv)
<1> DEFINE I == RejectInv /\ FilledInv /\ ViewsInv
<1>1. ViewsInit => I BY InitViewsInv
<1>2. IInv /\ I /\ [ViewsNext]_everything => I' BY NextViewsInv
<1> HIDE DEF I
<1>3. ViewsSpec => []I BY <1>1, <1>2, ViewsInvariance, PTL DEF ViewsSpec
<1> QED BY <1>3 DEF I

(* An answered view has all its reads behind it.                           *)
LEMMA AllRead ==
    ASSUME NEW v, InOrder(v), v.next = Len(Reads[v.kind]) + 1
    PROVE  \A n \in 1..Len(Reads[v.kind]) : Reads[v.kind][n] \in DOMAIN v.got
<1>1. Len(Reads[v.kind]) \in Nat BY SomeReads DEF InOrder
<1>2. (Len(Reads[v.kind]) + 1) - 1 = Len(Reads[v.kind]) BY <1>1
<1> QED BY <1>2 DEF InOrder

LEMMA ShownDetail ==
    ASSUME NEW v, InOrder(v), v.next = Len(Reads[v.kind]) + 1, v.kind = "detail"
    PROVE  {"submission", "interviews", "offers"} \subseteq DOMAIN v.got
<1>1. PICK reads : reads = Reads[v.kind] OBVIOUS
<1>2. reads = <<"submission", "job", "interviews", "offers", "activities">> BY <1>1 DEF Reads
<1>3. \A n \in 1..Len(reads) : reads[n] \in DOMAIN v.got BY <1>1, AllRead
<1>4. Len(reads) = 5 BY <1>2
<1>5. 1 \in 1..Len(reads) /\ 3 \in 1..Len(reads) /\ 4 \in 1..Len(reads) BY <1>4
<1>6. reads[1] = "submission" /\ reads[3] = "interviews" /\ reads[4] = "offers" BY <1>2
<1> QED BY <1>3, <1>5, <1>6

LEMMA ShownInsight ==
    ASSUME NEW v, InOrder(v), v.next = Len(Reads[v.kind]) + 1, v.kind = "insight"
    PROVE  {"interviewedFor", "interviewers", "submittedTo", "openJobs"} \subseteq DOMAIN v.got
<1>1. PICK reads : reads = Reads[v.kind] OBVIOUS
<1>2. reads = <<"interviewedFor", "interviewers", "submittedTo", "openJobs">> BY <1>1 DEF Reads
<1>3. \A n \in 1..Len(reads) : reads[n] \in DOMAIN v.got BY <1>1, AllRead
<1>4. Len(reads) = 4 BY <1>2
<1>5. {1, 2, 3, 4} \subseteq 1..Len(reads) BY <1>4
<1>6. /\ reads[1] = "interviewedFor" /\ reads[2] = "interviewers"
      /\ reads[3] = "submittedTo" /\ reads[4] = "openJobs"
  BY <1>2
<1> QED BY <1>3, <1>5, <1>6

LEMMA ShownWarnings ==
    ASSUME NEW v, InOrder(v), v.next = Len(Reads[v.kind]) + 1
    PROVE  /\ v.kind = "aboutSubmission" => "rejectedBefore" \in DOMAIN v.got
           /\ v.kind = "aboutJob" => "filled" \in DOMAIN v.got
<1>1. PICK reads : reads = Reads[v.kind] OBVIOUS
<1>2. \A n \in 1..Len(reads) : reads[n] \in DOMAIN v.got BY <1>1, AllRead
<1>3. CASE v.kind = "aboutSubmission"
  <2>1. reads = <<"submission", "job", "rejectedBefore">> BY <1>1, <1>3 DEF Reads
  <2>2. Len(reads) = 3 /\ reads[3] = "rejectedBefore" BY <2>1
  <2> QED BY <1>2, <1>3, <2>2
<1>4. CASE v.kind = "aboutJob"
  <2>1. reads = <<"found", "filled", "awaiting">> BY <1>1, <1>4 DEF Reads
  <2>2. Len(reads) = 3 /\ reads[2] = "filled" BY <2>1
  <2> QED BY <1>2, <1>4, <2>2
<1> QED BY <1>3, <1>4

LEMMA PageShows == ViewsInv => DetailShowsCause
<1> SUFFICES ASSUME ViewsInv, Shows("detail"),
                    shown.got["submission"].status \notin PatchStatuses
             PROVE  LET got == shown.got IN
                    /\ got["submission"].status \in InterviewStatuses => got["interviews"] # {}
                    /\ got["submission"].status \in OfferPhaseStatuses => got["offers"] # {}
  BY DEF DetailShowsCause
<1>1. PICK v : v = shown OBVIOUS
<1>2. v.kind = "detail" /\ ViewKnown(v) /\ v.next = Len(Reads[v.kind]) + 1
  BY <1>1 DEF Shows, ViewsInv
<1>3. Knows(v, "interviews") /\ Knows(v, "offers")
  BY <1>2, ShownDetail DEF ViewKnown, Knows
<1> QED BY <1>1, <1>2, <1>3 DEF ViewKnown, DetailKnown

LEMMA InsightShows == ViewsInv => InsightsWhole
<1> SUFFICES ASSUME ViewsInv, Shows("insight")
             PROVE  /\ shown.got["interviewers"] = shown.got["interviewedFor"]
                    /\ shown.got["interviewers"] \subseteq shown.got["submittedTo"]
                    /\ shown.got["openJobs"] \cap shown.got["interviewers"] = {}
  BY DEF InsightsWhole
<1>1. PICK v : v = shown OBVIOUS
<1>2. v.kind = "insight" /\ ViewKnown(v) /\ v.next = Len(Reads[v.kind]) + 1
  BY <1>1 DEF Shows, ViewsInv
<1>3. Knows(v, "interviewers") /\ Knows(v, "submittedTo") /\ Knows(v, "openJobs")
  BY <1>2, ShownInsight DEF ViewKnown, Knows
<1>4. /\ v.got["interviewers"] = v.got["interviewedFor"]
      /\ v.got["interviewers"] \subseteq v.got["submittedTo"]
      /\ v.got["openJobs"] \cap v.got["submittedTo"] = {}
  BY <1>2, <1>3 DEF ViewKnown, InsightKnown
<1> QED BY <1>1, <1>4

LEMMA WarningShows == IInv /\ ViewsInv => WarningsHaveCause
<1> SUFFICES ASSUME IInv, ViewsInv PROVE WarningsHaveCause OBVIOUS
<1>1. PICK v : v = shown OBVIOUS
<1>2. ASSUME v # None
      PROVE  /\ ViewKnown(v)
             /\ v.kind = "aboutSubmission" => Knows(v, "rejectedBefore")
             /\ v.kind = "aboutJob" => Knows(v, "filled")
  <2>1. ViewKnown(v) /\ v.next = Len(Reads[v.kind]) + 1 BY <1>1, <1>2 DEF ViewsInv
  <2> QED BY <2>1, ShownWarnings DEF ViewKnown, Knows
<1>3. ASSUME NEW o \in Submissions, RejectTold(o)
      PROVE  \/ aborts > 0 \/ activities[o, "rejected"] > 0 \/ Unlogged("updateStatus", o) # {}
  <2>1. ASSUME NEW r \in Requests, Rejecting(request[r], o) PROVE r \in Unlogged("updateStatus", o)
    BY <2>1 DEF Rejecting, Unlogged
  <2> QED BY <1>3, <2>1 DEF RejectTold
<1>4. ASSUME v # None, v.kind = "aboutSubmission", "Rejected" \notin PatchStatuses,
             NEW o, o \in v.got["rejectedBefore"]
      PROVE  \/ aborts > 0 \/ activities[o, "rejected"] > 0 \/ Unlogged("updateStatus", o) # {}
  <2>1. o \in Submissions /\ RejectTold(o) BY <1>2, <1>4 DEF ViewKnown, WarningKnown
  <2> QED BY <1>3, <2>1
<1>5. ASSUME v # None, v.kind = "aboutJob", "Filled" \notin JobPatches,
             NEW j, j \in v.got["filled"]
      PROVE  placements[j] > 0
  BY <1>2, <1>5 DEF ViewKnown, WarningKnown
<1> QED BY <1>1, <1>4, <1>5 DEF WarningsHaveCause, Shows

(* The page of a submission shows no interview or offer status without an  *)
(* interview or an offer (RecruitmentService.getSubmissionDetail), with    *)
(* any number of requests writing while it is read.                        *)
THEOREM PagesShowCause == ViewsSpec => []DetailShowsCause
<1>1. ViewsInv => DetailShowsCause BY PageShows
<1>2. RejectInv /\ FilledInv /\ ViewsInv => DetailShowsCause BY <1>1
<1> QED BY <1>2, KnownInvariance, PTL

(* The insights about a candidate leave out no company that interviewed    *)
(* it, and suggest no job it was interviewed for.                          *)
THEOREM InsightsAreWhole == ViewsSpec => []InsightsWhole
<1>1. RejectInv /\ FilledInv /\ ViewsInv => InsightsWhole BY InsightShows
<1> QED BY <1>1, KnownInvariance, PTL

(* A warning about an earlier rejection, or a job filled before, has its   *)
(* cause on the timeline, or is about to.                                  *)
THEOREM WarningsStand == ViewsSpec => []WarningsHaveCause
<1>1. IInv /\ (RejectInv /\ FilledInv /\ ViewsInv) => WarningsHaveCause BY WarningShows
<1> QED BY <1>1, ViewsInvariance, KnownInvariance, PTL

-----------------------------------------------------------------------------
(* Lists and counts, of requests that come one after the other.            *)

LEMMA SerialViews == ASSUME NEW r, Requests = {r} PROVE ViewsSpec => []SerialInv(r)
<1>1. r \in Requests OBVIOUS
<1>2. ViewsInit => SerialInv(r) BY <1>1, InitSerialInv DEF ViewsInit, ReadinessInit
<1>3. IInv /\ SerialInv(r) /\ [ViewsNext]_everything => SerialInv(r)' BY NextSerialInv, ViewsStep
<1> QED BY <1>2, <1>3, ViewsInvariance, PTL DEF ViewsSpec

(* A job that was deleted stays so, hence what a list knows stays true.    *)
LEMMA ListStays ==
    ASSUME NEW r, Requests = {r}, IInv, SerialInv(r), [Next]_vars, NEW v, ListKnown(v)
    PROVE  ListKnown(v)'
<1> SUFFICES ASSUME v.kind = "list" PROVE ListKnown(v)' BY DEF ListKnown
<1>1. RowsStay BY NextKeepsRows
<1>2. ASSUME NEW row \in v.got["submissions"], Knows(v, "submissions")
      PROVE  row.job \in Jobs /\ Exists(jobs, row.job) /\ Exists(jobs', row.job)
  BY <1>1, <1>2 DEF ListKnown, RowsStay
<1>3. ASSUME NEW row \in v.got["submissions"], Knows(v, "jobs")
      PROVE  row.job \in v.got["jobs"] \/ jobs'[row.job].deleted
  <2>1. row.job \in v.got["jobs"] \/ jobs[row.job].deleted BY <1>3 DEF ListKnown
  <2>2. Knows(v, "submissions") BY <1>3 DEF ListKnown
  <2>3. PICK j : j = row.job OBVIOUS
  <2>4. j \in Jobs /\ Exists(jobs, j) BY <1>2, <2>2, <2>3
  <2>5. jobs[j].deleted => jobs'[j] = jobs[j] BY <2>4, FrozenStep
  <2> QED BY <2>1, <2>3, <2>5
<1>4. Knows(v, "jobs") => Knows(v, "submissions") BY DEF ListKnown
<1> QED BY <1>2, <1>3, <1>4 DEF ListKnown, Knows

(* The jobs of a list are read after the submissions that name them.       *)
LEMMA ReadList ==
    ASSUME IInv, NEW v, ViewKnown(v), ListKnown(v), v.next <= Len(Reads[v.kind]),
           NEW read, read = Reads[v.kind][v.next], NEW found, found = Found(read, v.of, v.got),
           NEW w, w = Having(v, read, found)
    PROVE  ListKnown(w)
<1> SUFFICES ASSUME v.kind = "list" PROVE ListKnown(w)
  <2>1. w.kind = v.kind BY DEF Having
  <2> QED BY <2>1 DEF ListKnown
<1>1. \/ read = "submissions" /\ DOMAIN v.got = {}
      \/ read = "jobs" /\ DOMAIN v.got = {"submissions"}
  BY ReadsDone DEF ViewKnown
<1>2. read \notin DOMAIN v.got BY <1>1
<1>3. /\ w.kind = v.kind /\ DOMAIN w.got = DOMAIN v.got \cup {read}
      /\ w.got[read] = found /\ \A n \in DOMAIN v.got : w.got[n] = v.got[n]
  BY <1>2, HavingFields
<1>4. CASE read = "submissions"
  <2>1. found = {submissions[s] : s \in {s \in Submissions : Exists(submissions, s)}}
    BY <1>4 DEF Found
  <2>2. ASSUME NEW s \in Submissions, Exists(submissions, s)
        PROVE  submissions[s].job \in Jobs /\ Exists(jobs, submissions[s].job)
    BY <2>2 DEF IInv, TypeOK, TablesOK, ReferencesAgree, Exists, SubmissionRow
  <2>3. \A row \in found : row.job \in Jobs /\ Exists(jobs, row.job) BY <2>1, <2>2
  <2> QED BY <1>1, <1>3, <1>4, <2>3 DEF ListKnown, Knows
<1>5. CASE read = "jobs"
  <2>1. found = ListedJobs BY <1>5 DEF Found
  <2>2. \A row \in v.got["submissions"] : row.job \in Jobs /\ Exists(jobs, row.job)
    BY <1>1, <1>5 DEF ListKnown, Knows
  <2>3. \A row \in v.got["submissions"] : row.job \in found \/ jobs[row.job].deleted
    BY <2>1, <2>2 DEF ListedJobs, JobFound
  <2> QED BY <1>1, <1>3, <1>5, <2>2, <2>3 DEF ListKnown, Knows
<1> QED BY <1>1, <1>4, <1>5

LEMMA NextListsInv ==
    ASSUME NEW r, Requests = {r}
    PROVE  IInv /\ SerialInv(r) /\ ViewsInv /\ ListsInv /\ [ViewsNext]_everything => ListsInv'
<1> SUFFICES ASSUME IInv, SerialInv(r), ViewsInv, ListsInv, [ViewsNext]_everything PROVE ListsInv'
  OBVIOUS
<1>1. [Next]_vars BY ViewsStep
<1>2. PICK v, w : v = view /\ w = shown OBVIOUS
<1>3. /\ v # None => ListKnown(v) /\ ListKnown(v)'
      /\ w # None => ListKnown(w) /\ ListKnown(w)'
  BY <1>1, <1>2, ListStays DEF ListsInv
<1>4. CASE UNCHANGED viewVars
  <2>1. view' = v /\ shown' = w BY <1>2, <1>4 DEF viewVars
  <2> QED BY <1>3, <2>1 DEF ListsInv
<1>5. ASSUME NEW kind \in DOMAIN Reads, Open(kind) PROVE ListsInv'
  <2>1. PICK x : view' = [kind |-> kind, of |-> x, next |-> 1, got |-> << >>]
    BY <1>5 DEF Open
  <2>2. PICK u : u = view' OBVIOUS
  <2>3. DOMAIN u.got = {}
    <3>1. DOMAIN << >> = {} OBVIOUS
    <3>2. u.got = << >> BY <2>1, <2>2
    <3> QED BY <3>1, <3>2
  <2>4. ListKnown(u)' BY <2>3 DEF ListKnown, Knows
  <2>5. shown' = w BY <1>2, <1>5 DEF Open
  <2> QED BY <1>3, <2>2, <2>4, <2>5 DEF ListsInv
<1>6. CASE Read
  <2>1. PICK read, found, u :
          /\ read = Reads[v.kind][v.next]
          /\ found = Found(read, v.of, v.got)
          /\ u = Having(v, read, found)
          /\ \/ v.next = Len(Reads[v.kind]) /\ view' = None /\ shown' = u
             \/ v.next # Len(Reads[v.kind]) /\ view' = u /\ shown' = w
    BY <1>2, <1>6, ReadStep
  <2>2. v # None /\ ViewKnown(v) /\ v.next <= Len(Reads[v.kind])
    BY <1>2, <1>6 DEF Read, ViewsInv
  <2>3. ListKnown(u) BY <1>3, <2>1, <2>2, ReadList
  <2>4. ListKnown(u)' BY <1>1, <2>3, ListStays
  <2>5. CASE v.next = Len(Reads[v.kind])
    <3>1. view' = None /\ shown' = u BY <2>1, <2>5
    <3> QED BY <2>4, <3>1 DEF ListsInv
  <2>6. CASE v.next # Len(Reads[v.kind])
    <3>1. view' = u /\ shown' = w BY <2>1, <2>6
    <3> QED BY <1>3, <2>4, <3>1 DEF ListsInv
  <2> QED BY <2>5, <2>6
<1> QED BY <1>4, <1>5, <1>6 DEF ViewsNext, everything

LEMMA ListsInvariance == ASSUME NEW r, Requests = {r} PROVE ViewsSpec => []ListsInv
<1>1. ViewsInit => ListsInv BY DEF ViewsInit, ListsInv
<1>2. IInv /\ SerialInv(r) /\ (RejectInv /\ FilledInv /\ ViewsInv) /\ ListsInv
         /\ [ViewsNext]_everything => ListsInv'
  BY NextListsInv
<1>3. ViewsSpec => []SerialInv(r) BY SerialViews
<1> QED BY <1>1, <1>2, <1>3, ViewsInvariance, KnownInvariance, PTL DEF ViewsSpec

LEMMA ListShows == ViewsInv /\ ListsInv => ListNamesJobs
<1> SUFFICES ASSUME ViewsInv, ListsInv, Shows("list"), NEW row \in shown.got["submissions"]
             PROVE  row.job \in shown.got["jobs"] \/ jobs[row.job].deleted
  BY DEF ListNamesJobs
<1>1. PICK v : v = shown OBVIOUS
<1>2. v.kind = "list" /\ ViewKnown(v) /\ v.next = Len(Reads[v.kind]) + 1 /\ ListKnown(v)
  BY <1>1 DEF Shows, ViewsInv, ListsInv
<1>3. Knows(v, "jobs")
  <2>1. PICK reads : reads = Reads[v.kind] OBVIOUS
  <2>2. reads = <<"submissions", "jobs">> BY <1>2, <2>1 DEF Reads
  <2>3. Len(reads) = 2 /\ reads[2] = "jobs" BY <2>2
  <2>4. \A n \in 1..Len(reads) : reads[n] \in DOMAIN v.got
    BY <1>2, <2>1, AllRead DEF ViewKnown
  <2> QED BY <2>3, <2>4 DEF Knows
<1> QED BY <1>1, <1>2, <1>3 DEF ListKnown

(* Two finite sets without a common element.                               *)
LEMMA Apart ==
    ASSUME NEW S, IsFiniteSet(S), NEW T, IsFiniteSet(T), S \cap T = {}
    PROVE  IsFiniteSet(S \cup T) /\ Cardinality(S \cup T) = Cardinality(S) + Cardinality(T)
<1>1. Cardinality(S \cap T) = 0 BY FS_EmptySet
<1>2. Cardinality(S) \in Nat /\ Cardinality(T) \in Nat BY FS_CardinalityType
<1>3. /\ IsFiniteSet(S \cup T)
      /\ Cardinality(S \cup T) = Cardinality(S) + Cardinality(T) - Cardinality(S \cap T)
  BY FS_Union
<1> QED BY <1>1, <1>2, <1>3

(* Every status goes in one of the seven counts.                           *)
LEMMA Phases ==
    /\ \A status \in SubmissionStatuses :
          Phase(status) \in {"Submitted", "Client Reviewing", "interviewing", "offers",
                             "Placed", "Rejected", "Withdrawn"}
    /\ {"Submitted", "Client Reviewing", "interviewing", "offers", "Placed", "Rejected", "Withdrawn"}
          \subseteq {Phase(s) : s \in SubmissionStatuses}
<1>1. \A status \in {"Submitted", "Client Reviewing", "Placed", "Rejected", "Withdrawn"} :
          Phase(status) = status
  BY DEF Phase, InterviewStatuses, OfferPhaseStatuses
<1>2. \A status \in InterviewStatuses : Phase(status) = "interviewing"
  BY DEF Phase, InterviewStatuses, OfferPhaseStatuses
<1>3. \A status \in OfferPhaseStatuses : Phase(status) = "offers"
  BY DEF Phase, InterviewStatuses, OfferPhaseStatuses
<1>4. \A status \in SubmissionStatuses :
         \/ status \in {"Submitted", "Client Reviewing", "Placed", "Rejected", "Withdrawn"}
         \/ status \in InterviewStatuses \/ status \in OfferPhaseStatuses
  BY DEF SubmissionStatuses
<1>5. \A status \in SubmissionStatuses :
          Phase(status) \in {"Submitted", "Client Reviewing", "interviewing", "offers",
                             "Placed", "Rejected", "Withdrawn"}
  BY <1>1, <1>2, <1>3, <1>4
<1>6. /\ "Interview Scheduled" \in InterviewStatuses \cap SubmissionStatuses
      /\ "Offer Sent" \in OfferPhaseStatuses \cap SubmissionStatuses
      /\ {"Submitted", "Client Reviewing", "Placed", "Rejected", "Withdrawn"}
            \subseteq SubmissionStatuses
  BY DEF InterviewStatuses, OfferPhaseStatuses, SubmissionStatuses
<1>7. {"Submitted", "Client Reviewing", "interviewing", "offers", "Placed", "Rejected", "Withdrawn"}
          \subseteq {Phase(s) : s \in SubmissionStatuses}
  BY <1>1, <1>2, <1>3, <1>6
<1> QED BY <1>5, <1>7

(* The counts of the phases of a job add up to its submissions.            *)
LEMMA PhasesAddUp ==
    ASSUME TypeOK, NEW j, NEW stats, stats = jobPipelineStats(j)
    PROVE  stats["Submitted"] + stats["Client Reviewing"] + stats["interviewing"]
                  + stats["offers"] + stats["Placed"] + stats["Rejected"] + stats["Withdrawn"]
               = Cardinality(SubmissionsOf(j))
<1> DEFINE In(phase) == {s \in SubmissionsOf(j) : Phase(submissions[s].status) = phase}
<1>1. IsFiniteSet(SubmissionsOf(j)) BY Countable
<1>2. ASSUME NEW phase PROVE IsFiniteSet(In(phase)) BY <1>1, FS_Subset
<1>3. ASSUME NEW phase \in {"Submitted", "Client Reviewing", "interviewing", "offers",
                            "Placed", "Rejected", "Withdrawn"}
      PROVE  stats[phase] = Cardinality(In(phase))
  <2>1. phase \in {Phase(s) : s \in SubmissionStatuses} BY Phases
  <2> QED BY <2>1 DEF jobPipelineStats
<1>4. ASSUME NEW s \in SubmissionsOf(j)
      PROVE  Phase(submissions[s].status) \in
                {"Submitted", "Client Reviewing", "interviewing", "offers",
                 "Placed", "Rejected", "Withdrawn"}
  <2>1. submissions[s].status \in SubmissionStatuses
    BY DEF SubmissionsOf, TypeOK, Exists, SubmissionRow
  <2> QED BY <2>1, Phases
<1>5. PICK A, B, C, D, E, F, G :
        /\ A = In("Submitted") /\ B = In("Client Reviewing") /\ C = In("interviewing")
        /\ D = In("offers") /\ E = In("Placed") /\ F = In("Rejected") /\ G = In("Withdrawn")
  OBVIOUS
<1>6. SubmissionsOf(j) = A \cup B \cup C \cup D \cup E \cup F \cup G BY <1>4, <1>5
<1>7. /\ A \cap B = {} /\ (A \cup B) \cap C = {} /\ (A \cup B \cup C) \cap D = {}
      /\ (A \cup B \cup C \cup D) \cap E = {} /\ (A \cup B \cup C \cup D \cup E) \cap F = {}
      /\ (A \cup B \cup C \cup D \cup E \cup F) \cap G = {}
  BY <1>5
<1>8. /\ IsFiniteSet(A) /\ IsFiniteSet(B) /\ IsFiniteSet(C) /\ IsFiniteSet(D)
      /\ IsFiniteSet(E) /\ IsFiniteSet(F) /\ IsFiniteSet(G)
  BY <1>2, <1>5
<1> HIDE DEF In
<1>9. IsFiniteSet(A \cup B) /\ Cardinality(A \cup B) = Cardinality(A) + Cardinality(B)
  BY <1>7, <1>8, Apart
<1>10. /\ IsFiniteSet(A \cup B \cup C)
       /\ Cardinality(A \cup B \cup C) = Cardinality(A \cup B) + Cardinality(C)
  BY <1>7, <1>8, <1>9, Apart
<1>11. /\ IsFiniteSet(A \cup B \cup C \cup D)
       /\ Cardinality(A \cup B \cup C \cup D) = Cardinality(A \cup B \cup C) + Cardinality(D)
  BY <1>7, <1>8, <1>10, Apart
<1>12. /\ IsFiniteSet(A \cup B \cup C \cup D \cup E)
       /\ Cardinality(A \cup B \cup C \cup D \cup E)
             = Cardinality(A \cup B \cup C \cup D) + Cardinality(E)
  BY <1>7, <1>8, <1>11, Apart
<1>13. /\ IsFiniteSet(A \cup B \cup C \cup D \cup E \cup F)
       /\ Cardinality(A \cup B \cup C \cup D \cup E \cup F)
             = Cardinality(A \cup B \cup C \cup D \cup E) + Cardinality(F)
  BY <1>7, <1>8, <1>12, Apart
<1>14. Cardinality(A \cup B \cup C \cup D \cup E \cup F \cup G)
             = Cardinality(A \cup B \cup C \cup D \cup E \cup F) + Cardinality(G)
  BY <1>7, <1>8, <1>13, Apart
<1>15. /\ stats["Submitted"] = Cardinality(A) /\ stats["Client Reviewing"] = Cardinality(B)
       /\ stats["interviewing"] = Cardinality(C) /\ stats["offers"] = Cardinality(D)
       /\ stats["Placed"] = Cardinality(E) /\ stats["Rejected"] = Cardinality(F)
       /\ stats["Withdrawn"] = Cardinality(G)
  BY <1>3, <1>5
<1>16. /\ Cardinality(A) \in Nat /\ Cardinality(B) \in Nat /\ Cardinality(C) \in Nat
       /\ Cardinality(D) \in Nat /\ Cardinality(E) \in Nat /\ Cardinality(F) \in Nat
       /\ Cardinality(G) \in Nat
  BY <1>8, FS_CardinalityType
<1> QED BY <1>6, <1>9, <1>10, <1>11, <1>12, <1>13, <1>14, <1>15, <1>16

LEMMA StatsShow == ASSUME NEW r, Requests = {r} PROVE IInv /\ SerialInv(r) => StatsAgree
<1> SUFFICES ASSUME IInv, SerialInv(r), aborts = 0, AtRest, NEW j \in ListedJobs,
                    NEW stats, stats = jobPipelineStats(j)
             PROVE  stats["Submitted"] + stats["Client Reviewing"] + stats["interviewing"]
                  + stats["offers"] + stats["Placed"] + stats["Rejected"] + stats["Withdrawn"]
               = jobs[j].submissionCount
  BY DEF StatsAgree
<1>1. j \in Jobs /\ Exists(jobs, j) BY DEF ListedJobs, JobFound
<1>2. request[r] = None BY DEF AtRest
<1>3. Due(None, j, "submit") = 0 BY DEF Due
<1>4. CountsFit(None, j) BY <1>1, <1>2 DEF SerialInv
<1>5. jobs[j].submissionCount \in Nat BY <1>1 DEF IInv, TypeOK, Exists, JobRow
<1>6. jobs[j].submissionCount = Cardinality(SubmissionsOf(j))
  BY <1>1, <1>3, <1>4, <1>5 DEF CountsFit
<1> QED BY <1>6, PhasesAddUp DEF IInv

(* Every reader of the pipeline shows a status with its cause, every       *)
(* submission with its job, all the jobs of an insight, and counts that    *)
(* add up to the one on the job, when one recruiter is at work and an      *)
(* operator reads beside them.  The parts about pages, insights, warnings  *)
(* and replays hold for any number of requests (above).                    *)
THEOREM ReadersTellWhy ==
    ASSUME NEW r, Requests = {r}
    PROVE  ViewsSpec => []ReadersShowCause
<1>1. (RejectInv /\ FilledInv /\ ViewsInv) /\ ListsInv => ListNamesJobs BY ListShows
<1>2. IInv /\ SerialInv(r) => StatsAgree BY StatsShow
<1>3. ViewsSpec => []SerialInv(r) BY SerialViews
<1>4. ViewsSpec => []ListsInv BY ListsInvariance
<1>5. ReplayShowsCause /\ DetailShowsCause /\ InsightsWhole /\ WarningsHaveCause
         /\ ListNamesJobs /\ StatsAgree => ReadersShowCause
  BY DEF ReadersShowCause
<1> QED
  BY <1>1, <1>2, <1>3, <1>4, <1>5, ViewsInvariance, KnownInvariance, ReplaysShowCause,
     PagesShowCause, InsightsAreWhole, WarningsStand, PTL
=============================================================================
