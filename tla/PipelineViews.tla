--------------------------- MODULE PipelineViews ---------------------------
(***************************************************************************)
(* What a recruiter is shown of the pipeline: the page of a submission,    *)
(* the list of submissions, the counts of a job, and the insights about a  *)
(* candidate, a submission and a job.  Each is put together from several   *)
(* reads without a transaction, while requests write between them; no read *)
(* changes a row.                                                          *)
(*                                                                         *)
(* Abstracted: names, titles, dates and texts.  The filters of a list only *)
(* leave rows out, so the list here has none; skills and companies as      *)
(* well, so all jobs are alike and of one client.  The insights made from  *)
(* salaries, scores and knowledge sets are not here.                       *)
(***************************************************************************)
EXTENDS FounderReadiness

VARIABLES
    view,     \* the view being read: of what, which read is next, what was read;
              \* None at rest
    shown     \* the last view that was answered, None before the first

viewVars == <<view, shown>>
everything == <<allVars, viewVars>>

(* Mutant of Reads: the page reads the submission after what it leads to.  *)
ReadsSubmissionLast ==
    [detail |-> <<"interviews", "offers", "activities", "submission", "job">>,
     list |-> <<"submissions", "jobs">>,
     insight |-> <<"interviewedFor", "interviewers", "submittedTo", "openJobs">>,
     aboutSubmission |-> <<"submission", "job", "rejectedBefore">>,
     aboutJob |-> <<"found", "filled", "awaiting">>]

(* The reads of a view, one await after the other. *)
Reads ==
    [detail |-> <<"submission", "job", "interviews", "offers", "activities">>,
     list |-> <<"submissions", "jobs">>,
     insight |-> <<"interviewedFor", "interviewers", "submittedTo", "openJobs">>,
     aboutSubmission |-> <<"submission", "job", "rejectedBefore">>,
     aboutJob |-> <<"found", "filled", "awaiting">>]

(* The jobs of a list; a soft-deleted one is not among them. *)
ListedJobs == {j \in Jobs : JobFound(j)}

Subject(kind) ==
    CASE kind \in {"detail", "aboutSubmission"} -> {s \in Submissions : Exists(submissions, s)}
      [] kind = "list" -> {None}
      [] kind = "insight" -> Candidates
      [] kind = "aboutJob" -> ListedJobs

-----------------------------------------------------------------------------
(* findOpenJobsBySkills, without the jobs that are excluded. *)
OpenJobs(excluded) == {j \in ListedJobs : jobs[j].status = "Open"} \ excluded

(* SubmissionInsightProvider: the other submissions of its candidate that  *)
(* the client rejected.                                                    *)
RejectedBefore(s, candidate) ==
    {o \in Submissions \ {s} :
        /\ Exists(submissions, o) /\ submissions[o].candidate = candidate
        /\ submissions[o].status = "Rejected"}

(* JobInsightProvider: the other jobs that were filled. *)
Filled(j) ==
    {o \in ListedJobs \ {j} : jobs[o].status = "Filled" \/ jobs[o].placementCount > 0}

Awaiting(j) ==
    {s \in SubmissionsOf(j) : submissions[s].status \in {"Client Reviewing", "Submitted"}}

(* What a read finds, of a view of x that has found got so far. *)
Found(read, x, got) ==
    CASE read = "submission" -> submissions[x]
      [] read = "job" -> jobs[submissions[x].job]
      [] read = "interviews" -> InterviewsOf(x)
      [] read = "offers" -> OffersOf(x)
      [] read = "activities" -> {t \in ActivityTypes : activities[x, t] > 0}
      [] read = "submissions" -> {submissions[s] : s \in {s \in Submissions : Exists(submissions, s)}}
      [] read = "jobs" -> ListedJobs
      [] read = "interviewedFor" ->
            {interviews[i].job : i \in {i \in Interviews :
                                  Exists(interviews, i) /\ interviews[i].candidate = x}}
      [] read = "interviewers" -> {j \in got["interviewedFor"] : Exists(jobs, j)}
      [] read = "submittedTo" ->
            {submissions[s].job : s \in {s \in Submissions :
                                  Exists(submissions, s) /\ submissions[s].candidate = x}}
      [] read = "openJobs" -> OpenJobs(got["submittedTo"])
      [] read = "rejectedBefore" -> RejectedBefore(x, got["submission"].candidate)
      [] read = "found" -> jobs[x]
      [] read = "filled" -> Filled(x)
      [] read = "awaiting" -> Awaiting(x)

(* getSubmissionDetail, searchSubmissions, the providers of insights. *)
Open(kind) ==
    /\ view = None
    /\ reports < MaxReports
    /\ \E x \in Subject(kind) : view' = [kind |-> kind, of |-> x, next |-> 1, got |-> << >>]
    /\ reports' = reports + 1
    /\ UNCHANGED <<vars, check, findings, replay, timeline, history, shown>>

Read ==
    /\ view # None
    /\ LET reads == Reads[view.kind]
           read == reads[view.next]
           now == [view EXCEPT !.next = @ + 1,
                               !.got = [n \in DOMAIN view.got \cup {read} |->
                                    IF n = read THEN Found(read, view.of, view.got) ELSE view.got[n]]]
       IN IF view.next = Len(reads) THEN view' = None /\ shown' = now
                                    ELSE view' = now /\ shown' = shown
    /\ UNCHANGED allVars

ViewsInit == ReadinessInit /\ view = None /\ shown = None

ViewsNext ==
    \/ ReadinessNext /\ UNCHANGED viewVars
    \/ \E kind \in DOMAIN Reads : Open(kind)
    \/ Read

ViewsSpec == ViewsInit /\ [][ViewsNext]_everything

-----------------------------------------------------------------------------
(* jobPipelineStats: in which of its counts a status goes. *)
Phase(status) ==
    CASE status \in {"Submitted", "Client Reviewing", "Placed", "Rejected", "Withdrawn"} -> status
      [] status \in InterviewStatuses -> "interviewing"
      [] status \in OfferPhaseStatuses -> "offers"

jobPipelineStats(j) ==
    [phase \in {Phase(s) : s \in SubmissionStatuses} |->
        Cardinality({s \in SubmissionsOf(j) : Phase(submissions[s].status) = phase})]

-----------------------------------------------------------------------------
(* Properties.                                                             *)

Shows(kind) == shown # None /\ shown.kind = kind

(* The page of a submission shows no interview or offer status without an  *)
(* interview or an offer, whatever is written while it is read.            *)
DetailShowsCause ==
    Shows("detail") /\ shown.got["submission"].status \notin PatchStatuses =>
        LET got == shown.got IN
        /\ got["submission"].status \in InterviewStatuses => got["interviews"] # {}
        /\ got["submission"].status \in OfferPhaseStatuses => got["offers"] # {}

(* A submission is listed without the title of its job only if the job was *)
(* deleted.                                                                *)
ListNamesJobs ==
    Shows("list") =>
        \A row \in shown.got["submissions"] :
            row.job \in shown.got["jobs"] \/ jobs[row.job].deleted

(* No company that interviewed a candidate is left out of its insights,    *)
(* also when the job was deleted since, and no job is suggested that the   *)
(* candidate was submitted to, unless that happened while it was read.     *)
InsightsWhole ==
    Shows("insight") =>
        /\ shown.got["interviewers"] = shown.got["interviewedFor"]
        /\ shown.got["interviewers"] \subseteq shown.got["submittedTo"]
        /\ shown.got["openJobs"] \cap shown.got["interviewers"] = {}

(* A warning that the client rejected the candidate before stands on the   *)
(* timeline of that other submission, or is about to; a job that is said   *)
(* to have been filled had a placement: unless it was a recruiter who set  *)
(* the status by hand.                                                     *)
WarningsHaveCause ==
    /\ Shows("aboutSubmission") /\ "Rejected" \notin PatchStatuses =>
          \A o \in shown.got["rejectedBefore"] :
             \/ aborts > 0
             \/ activities[o, "rejected"] > 0
             \/ Unlogged("updateStatus", o) # {}
    /\ Shows("aboutJob") /\ "Filled" \notin JobPatches =>
          \A j \in shown.got["filled"] : placements[j] > 0

(* Between requests, the phases of a job add up to the count on its row,   *)
(* which every list of jobs shows.                                         *)
StatsAgree ==
    aborts = 0 /\ AtRest =>
        \A j \in ListedJobs :
            LET stats == jobPipelineStats(j)
            IN stats["Submitted"] + stats["Client Reviewing"] + stats["interviewing"]
                  + stats["offers"] + stats["Placed"] + stats["Rejected"] + stats["Withdrawn"]
               = jobs[j].submissionCount

(* What is shown of the pipeline has its cause in what is shown with it.   *)
ReadersShowCause ==
    /\ ReplayShowsCause /\ DetailShowsCause /\ ListNamesJobs /\ InsightsWhole
    /\ WarningsHaveCause /\ StatsAgree

=============================================================================
