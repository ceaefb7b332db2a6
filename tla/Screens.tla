------------------------------- MODULE Screens -------------------------------
(***************************************************************************)
(* The screens of the web client over the cache they share.                *)
(*                                                                         *)
(* Every screen shows what its queries have in the cache of React Query    *)
(* (main.tsx: answers are fresh for ten seconds), and every button that    *)
(* writes says itself which queries are out of date once it has its        *)
(* answer.  A recruiter moves on between click and answer.                 *)
(*                                                                         *)
(* One row of each kind: one job, one candidate, one submission.  An       *)
(* answer is as old as the number of writes the server had done when it    *)
(* was asked for.  The age of ten seconds is a choice at the step that     *)
(* looks at it.  The list of relationships of a job is an entry for each   *)
(* stage it is filtered by: one for all stages, and one for some stage.    *)
(* Queries do not depend on each other, but where a button waits for one   *)
(* before it tells another, and where one brings up a panel: a behaviour   *)
(* follows one query with those it depends on, any of them.                *)
(* Left out: the insights beside a screen, which no write ever declares    *)
(* out of date, and what a form holds before it is sent.                   *)
(***************************************************************************)
EXTENDS Client, FiniteSetsExt

CONSTANTS
    Views,      \* screens, or tabs of a screen, the recruiter goes to
    MaxMoves,   \* bound: moves from view to view
    MaxWrites,  \* bound: writes
    Absent        \* no answer in the cache, no load under way, no view

-----------------------------------------------------------------------------
(* What the screens are.  The queries a view has mounted, by the key they  *)
(* have in the cache: a query is enabled on some tabs only.                *)

(* The entries a job's relationships have by the stage they are filtered   *)
(* by, of which the tab has one mounted: that of the filter chosen last.   *)
AllStages == "job-relationships"
StageFilters == {AllStages, "job-relationships-of-stage"}

JobTabs ==
    [JobOverview |-> {"job", "job-pipeline"},
     JobRelationships |-> {"job", "candidates-for-rel"} \cup StageFilters,
     JobCandidates |-> {"job", "job-matches", "job-submissions"},
     JobPipeline |-> {"job", "job-submissions", "job-pipeline"},
     JobAnalytics |-> {"job", "job-analytics"},
     JobTimeline |-> {"job", "job-submissions", "job-activities"}]

CandidateTabs ==
    [CandidateWorkspace |-> {"workspace"},
     CandidateRelationships |-> {"workspace", "candidate-relationships", "jobs-for-rel"},
     CandidateKnowledge |-> {"workspace", "knowledge", "knowledge-history"}]

JobDetail == DOMAIN JobTabs
CandidateDetail == DOMAIN CandidateTabs

ReviewQueries == {"review", "inbox"}
SubmissionQueries == {"submission"}
JobReviewQueries == {"job-review"}
HomeQueries == {"inbox"}
JobsQueries == {"jobs"}
CandidatesQueries == {"candidates"}
SubmissionsQueries == {"submissions"}
SearchQueries == {"search"}
AnalyticsQueries == {"analytics-overview"}

(* What a component inside a screen asks for, once the screen shows it.    *)
Panels == {"knowledge", "knowledge-history", "job-analytics"}

OtherScreens ==
    [Submission |-> SubmissionQueries, Review |-> ReviewQueries, JobReview |-> JobReviewQueries,
     Home |-> HomeQueries, Jobs |-> JobsQueries, Candidates |-> CandidatesQueries,
     Submissions |-> SubmissionsQueries, Search |-> SearchQueries, Analytics |-> AnalyticsQueries,
     JobCreate |-> {}, Assistant |-> {}, Import |-> {}]

QueriesOf ==
    [v \in JobDetail \cup CandidateDetail \cup DOMAIN OtherScreens |->
        CASE v \in JobDetail -> JobTabs[v]
          [] v \in CandidateDetail -> CandidateTabs[v]
          [] OTHER -> OtherScreens[v]]

Queries == UNION {QueriesOf[v] : v \in DOMAIN QueriesOf}

(* ... and the query without whose answer it shows nothing else.           *)
MainOf ==
    [v \in DOMAIN QueriesOf |->
        CASE v \in JobDetail -> {"job"}
          [] v \in CandidateDetail -> {"workspace"}
          [] v = "Review" -> {"review"}
          [] OTHER -> QueriesOf[v]]

(* What a query asks the server for.                                       *)
Fetches ==
    [q \in Queries |->
        CASE q = "job" -> "getJob"
          [] q \in {"jobs", "jobs-for-rel"} -> "listJobs"
          [] q = "job-review" -> "getJobReview"
          [] q = "job-pipeline" -> "getJobPipeline"
          [] q = "job-submissions" -> "getJobSubmissions"
          [] q = "job-activities" -> "getJobActivities"
          [] q = "job-matches" -> "getJobMatches"
          [] q \in StageFilters -> "listJobRelationships"
          [] q = "candidate-relationships" -> "listCandidateRelationships"
          [] q \in {"candidates-for-rel", "search", "inbox", "candidates"} -> "listCandidates"
          [] q = "knowledge-history" -> "getKnowledgeHistory"
          [] q = "analytics-overview" -> "getAnalyticsOverview"
          [] q = "job-analytics" -> "getJobAnalytics"
          [] q = "submission" -> "getSubmission"
          [] q = "submissions" -> "listSubmissions"
          [] q = "workspace" -> "getWorkspace"
          [] q = "knowledge" -> "getCandidateKnowledge"
          [] q = "review" -> "getReview"]

-----------------------------------------------------------------------------
(* The buttons that write: the view they are on, the views on which the    *)
(* component they belong to stays mounted, the flag they set while a click *)
(* is not answered, whether it disables them, what they ask the server     *)
(* for, what they tell the cache, one after the other when they wait for   *)
(* it, and the views they go on to.                                        *)

Invalidates(qs) == [how |-> "invalidate", queries |-> qs]
Refetches(qs) == [how |-> "refetch", queries |-> qs]
Button(on, within, busy, calls, tells, goes) ==
    [on |-> on, within |-> within, busy |-> busy, guarded |-> TRUE,
     calls |-> calls, tells |-> tells, goes |-> goes]
Unguarded(button) == [button EXCEPT !.guarded = FALSE]

SaveJob ==
    Button("JobOverview", JobDetail, "saveMutation", {"updateJob"},
           <<Invalidates({"job"}), Invalidates({"jobs"})>>, {Absent})

(* What is refetched is the entry of the filter chosen.                    *)
RelateCandidate ==
    Button("JobRelationships", JobDetail, "createJobRelMutation", {"createRelationship"},
           <<Refetches(StageFilters), Invalidates({"candidate-relationships"})>>, {Absent})

(* The actions of automation on one row share a flag. They invalidate the  *)
(* entries of every filter.                                                *)
AutomateRow ==
    Button("JobRelationships", JobDetail, "automationBusy",
           {"automationStageMove", "automationAssign"},
           <<Invalidates(StageFilters)>>, {Absent})

Submit ==
    Button("JobCandidates", JobDetail, "submitMutation", {"submitCandidate"},
           <<Invalidates({"job-submissions", "job", "job-pipeline", "job-activities", "jobs"})>>,
           {Absent})

ReviewJobField ==
    Button("JobReview", {"JobReview"}, "busy", {"reviewJobField"},
           <<Invalidates({"job-review", "job", "jobs"})>>, {Absent})

MarkJobReady ==
    Button("JobReview", {"JobReview"}, "busy", {"markJobReady"},
           <<Invalidates({"job-review", "job", "jobs"})>>, {"JobOverview"})

CreateManual ==
    Button("JobCreate", {"JobCreate"}, "manualMutation", {"createJobManual"}, <<Invalidates({})>>,
           {"JobOverview"})

CreateFromText ==
    Button("JobCreate", {"JobCreate"}, "jdMutation", {"createJobFromText"}, <<Invalidates({})>>,
           {"JobReview"})

CreateFromFile ==
    Button("JobCreate", {"JobCreate"}, "uploading", {"createJobFromFile"}, <<Invalidates({})>>,
           {"JobReview"})

(* Mutant of SubmissionTells: the timeline of the job is forgotten.        *)
SubmissionTellsLess ==
    <<Invalidates({"submission", "submissions", "job", "job-pipeline"})>>

SubmissionTells ==
    <<Invalidates({"submission", "submissions", "job", "job-pipeline", "job-activities"})>>

(* The buttons of a submission share one mutation, which disables those of *)
(* the row at the top, not those of an interview or an offer.              *)
SubmissionButton(calls) ==
    Button("Submission", {"Submission"}, "run", calls, SubmissionTells, {Absent})

Progress ==
    SubmissionButton({"updateSubmissionStatus", "scheduleInterview", "createOffer",
                      "rejectSubmission", "withdrawSubmission"})
Place == SubmissionButton({"markPlaced"})
CompleteInterview == Unguarded(SubmissionButton({"completeInterview"}))
DecideOffer == Unguarded(SubmissionButton({"updateOfferStatus"}))

SaveCandidate ==
    Button("CandidateWorkspace", CandidateDetail, "saveMutation", {"updateWorkspace"},
           <<Invalidates({"workspace"}), Invalidates({"candidates"})>>, {Absent})

RelateJob ==
    Button("CandidateRelationships", CandidateDetail, "createRelMutation", {"createRelationship"},
           <<Refetches({"candidate-relationships"}), Invalidates(StageFilters)>>, {Absent})

(* The stage is a list to choose from, and nothing disables it.            *)
UpdateStage ==
    Unguarded(Button("CandidateRelationships", CandidateDetail, "updateRelMutation",
                     {"updateRelationshipStage"}, <<Refetches({"candidate-relationships"})>>,
                     {Absent}))

PatchKnowledge ==
    Button("CandidateKnowledge", {"CandidateKnowledge"}, "patch", {"patchKnowledge"},
           <<Invalidates({"knowledge", "knowledge-history"})>>, {Absent})

AddEvidence ==
    Button("CandidateKnowledge", {"CandidateKnowledge"}, "addEvidence", {"addKnowledgeEvidence"},
           <<Invalidates({"knowledge", "knowledge-history"})>>, {Absent})

ReviewField ==
    Button("Review", {"Review"}, "busy", {"reviewField"},
           <<Invalidates({"review", "inbox", "candidates"})>>, {Absent})

MarkReady ==
    Button("Review", {"Review"}, "busy", {"markReady"},
           <<Invalidates({"review", "inbox", "candidates"})>>, {"Review", "Assistant", "Candidates"})

ImportResume ==
    Button("Import", {"Import"}, "importMutation", {"importResume"}, <<Invalidates({})>>, {"Review"})

Buttons ==
    [SaveJob |-> SaveJob, RelateCandidate |-> RelateCandidate, AutomateRow |-> AutomateRow,
     Submit |-> Submit, ReviewJobField |-> ReviewJobField, MarkJobReady |-> MarkJobReady,
     CreateManual |-> CreateManual, CreateFromText |-> CreateFromText,
     CreateFromFile |-> CreateFromFile, Progress |-> Progress, Place |-> Place,
     CompleteInterview |-> CompleteInterview, DecideOffer |-> DecideOffer,
     SaveCandidate |-> SaveCandidate, RelateJob |-> RelateJob, UpdateStage |-> UpdateStage,
     PatchKnowledge |-> PatchKnowledge, AddEvidence |-> AddEvidence, ReviewField |-> ReviewField,
     MarkReady |-> MarkReady, ImportResume |-> ImportResume]

-----------------------------------------------------------------------------
(* A query with those its tellings wait for, or that bring up its panel.   *)
(* The relationships of a job and of a candidate wait for each other: they *)
(* are followed together for each entry the job has of them.               *)
DependsOn(q) ==
    {q} \cup (UNION {MainOf[v] : v \in {w \in DOMAIN QueriesOf : q \in Panels \cap QueriesOf[w]}})
        \cup {r \in Queries \ StageFilters :
                \E b \in DOMAIN Buttons : \E i, j \in DOMAIN Buttons[b].tells :
                    /\ i < j
                    /\ r \in Buttons[b].tells[i].queries
                    /\ q \in Buttons[b].tells[j].queries}

VARIABLES
    followed,  \* the queries this behaviour is about
    owing,     \* by button: the followed queries that must show its write
    view,      \* the view shown
    filter,    \* the entry of the stage chosen where a job is shown
    cache,     \* by query: its last answer
    loading,   \* by query: the server's writes when it was asked for
    written,   \* writes the server has done
    pending,   \* the clicks not yet answered or not yet told to the cache
    owed,      \* by query: the last own write it must show
    moves      \* bound: moves so far

fixed == <<followed, owing>>

screenVars == <<fixed, view, filter, cache, loading, written, pending, owed, moves>>

Answer == [seen : Nat, invalid : BOOLEAN, error : BOOLEAN]

ASSUME ScreensAssumption ==
    /\ Views \subseteq DOMAIN QueriesOf
    /\ MaxMoves \in Nat /\ MaxWrites \in Nat
    /\ Absent \notin Nat \cup Answer

(* A click: "here" while its component is mounted, "latest" while it is    *)
(* the last of its mutation, "filter" what that component has chosen.      *)
Pending ==
    [button : DOMAIN Buttons, here : BOOLEAN, latest : BOOLEAN, filter : StageFilters,
     wrote : Nat, told : Nat, waits : SUBSET Queries]

ScreensTyped ==
    /\ followed \subseteq Queries
    /\ owing \in [DOMAIN Buttons -> SUBSET followed]
    /\ view \in Views
    /\ filter \in StageFilters
    /\ cache \in [followed -> Answer \cup {Absent}]
    /\ loading \in [followed -> Nat \cup {Absent}]
    /\ written \in Nat
    /\ pending \subseteq Pending
    /\ owed \in [followed -> Nat]
    /\ moves \in 0..MaxMoves

(* What a button does not tell of, though its write is in it: shown for up *)
(* to ten seconds as it was.                                               *)
Untold(b) ==
    LET shownWithBoth == {"submission", "submissions", "job-matches", "candidate-relationships"}
                            \cup StageFilters
        shownWithJobs == {"jobs-for-rel"} \cup shownWithBoth
        shownWithCandidates == {"candidates-for-rel", "job-submissions"} \cup shownWithBoth
        evidence == {"knowledge", "knowledge-history"}
        listed == {"review", "inbox"}
        never == {"search", "analytics-overview", "job-analytics"}
    IN  never \cup
        CASE b = "SaveJob" -> shownWithJobs \cup {"job-submissions", "job-review"}
          [] b = "Submit" -> shownWithJobs \cup {"job-review"}
          [] b \in {"ReviewJobField", "MarkJobReady"} -> shownWithJobs \cup {"job-submissions"}
          [] b \in {"CreateManual", "CreateFromText", "CreateFromFile"} ->
                shownWithJobs \cup {"job", "jobs", "job-submissions", "job-activities", "job-review"}
          [] b = "Progress" -> {"job-submissions"}
          [] b = "Place" ->
                (shownWithJobs \ {"submission", "submissions"}) \cup evidence
                    \cup {"jobs", "job-submissions", "job-review"}
          [] b \in {"CompleteInterview", "DecideOffer"} -> evidence \cup {"job-submissions"}
          [] b = "AutomateRow" -> {"candidate-relationships"}
          [] b = "UpdateStage" -> StageFilters
          [] b = "SaveCandidate" -> shownWithCandidates \cup listed
          [] b \in {"ReviewField", "MarkReady"} -> shownWithCandidates \cup evidence \cup {"workspace"}
          [] b = "ImportResume" ->
                shownWithCandidates \cup evidence \cup listed \cup {"workspace", "candidates"}
          [] OTHER -> {}

Affects(b, q) == Reads(Fetches[q]) \cap UNION {Writes(f) : f \in Buttons[b].calls} # {}

Owes(b) == {q \in followed : Affects(b, q)} \ Untold(b)

(* The buttons that owe a followed query their write, and the views with   *)
(* such a button or such a query; the others are all like Import.          *)
Concerns(b) == owing[b] # {}
Matters(v) ==
    \/ v = "Import"
    \/ QueriesOf[v] \cap followed # {}
    \/ \E b \in DOMAIN Buttons : Buttons[b].on = v /\ Concerns(b)

(* The queries the view has mounted: what is inside a screen comes up with *)
(* its first answer and goes when it fails, its own queries stay.          *)
Up(v, c) == \A q \in MainOf[v] \cap followed : c[q] # Absent /\ ~c[q].error
Mounted(v, c) ==
    (followed \cap IF Up(v, c) THEN QueriesOf[v] ELSE QueriesOf[v] \ Panels)
        \ (StageFilters \ {filter})

(* The tabs of a job or a candidate are one component: what two of them    *)
(* have mounted stays mounted, and the filter stays chosen.                *)
SameScreen(v, w) == v = w \/ {v, w} \subseteq JobDetail \/ {v, w} \subseteq CandidateDetail
FilterOn(v) == IF v \in JobDetail THEN filter ELSE AllStages

-----------------------------------------------------------------------------
(* React Query.                                                            *)

(* A load that starts; one that runs goes on.                              *)
Load(qs) == [q \in followed |-> IF q \in qs /\ loading[q] = Absent THEN written ELSE loading[q]]

(* What a telling does to a load that runs: it starts again if there is an *)
(* answer to show meanwhile, and is joined if there is none.               *)
Restarts(q) == cache[q] # Absent

(* The next telling of a click: a refetch is of the entry its component    *)
(* has, or had, chosen, and passes the others over.                        *)
Telling(p) ==
    LET t == Buttons[p.button].tells[p.told + 1]
    IN  IF t.how = "refetch" THEN Refetches(t.queries \ (StageFilters \ {p.filter})) ELSE t

PassedOver(p) == Buttons[p.button].tells[p.told + 1].queries \ Telling(p).queries

(* Whom a telling reaches: invalidation what is mounted, refetch its query.*)
Reached(t) == t.queries \cap IF t.how = "refetch" THEN followed ELSE Mounted(view, cache)

Told(t) ==
    [q \in followed |->
        IF q \in Reached(t) /\ (loading[q] = Absent \/ Restarts(q)) THEN written ELSE loading[q]]

Marked(t) ==
    [q \in followed |->
        IF t.how = "invalidate" /\ q \in t.queries /\ cache[q] # Absent
        THEN [cache[q] EXCEPT !.invalid = TRUE] ELSE cache[q]]

(* Who waits for a load that is started again waits no longer.             *)
Released(ps, qs) == {[p EXCEPT !.waits = @ \ qs] : p \in ps}

(* The loads a telling leaves running: their answers count as fresh.       *)
LeftRunning(t) ==
    {q \in t.queries \cap followed :
        loading[q] # Absent /\ (q \in Reached(t) => cache[q] = Absent)}

(* Queries that come up: what has no answer, what is marked, and what is   *)
(* older than ten seconds is asked for.                                    *)
Shows(qs, c, ld) ==
    \E aged \in SUBSET {q \in qs : c[q] # Absent /\ ~c[q].invalid} :
        LET asks == {q \in qs : c[q] = Absent \/ c[q].invalid} \cup aged
        IN  loading' = [q \in followed |-> IF q \in asks /\ ld[q] = Absent THEN written ELSE ld[q]]

(* What comes up with a view.                                              *)
New(v, c) == Mounted(v, c) \ IF SameScreen(view, v) THEN Mounted(view, c) ELSE {}

Gone(ps, v) == {[p EXCEPT !.here = @ /\ v \in Buttons[p.button].within] : p \in ps}

ScreensInit ==
    /\ followed \in {DependsOn(q) : q \in Queries}
    /\ owing = [b \in DOMAIN Buttons |-> Owes(b)]
    /\ view \in Views
    /\ Matters(view)
    /\ filter = AllStages
    /\ cache = [q \in followed |-> Absent]
    /\ loading = [q \in followed |-> IF q \in Mounted(view, cache) THEN 0 ELSE Absent]
    /\ written = 0
    /\ pending = {}
    /\ owed = [q \in followed |-> 0]
    /\ moves = 0

(* A link, a tab, the button back.                                         *)
Move(v) ==
    /\ moves < MaxMoves
    /\ v # view
    /\ Matters(v)
    /\ view' = v
    /\ filter' = FilterOn(v)
    /\ moves' = moves + 1
    /\ Shows(New(v, cache), cache, loading)
    /\ pending' = Gone(pending, v)
    /\ UNCHANGED <<fixed, cache, written, owed>>

(* Another stage to filter a job's relationships by.                       *)
Filtered(ps, f) == {[p EXCEPT !.filter = IF p.here THEN f ELSE @] : p \in ps}

Filter(f) ==
    /\ moves < MaxMoves
    /\ view = "JobRelationships"
    /\ StageFilters \cap followed # {}
    /\ Up(view, cache)
    /\ f # filter
    /\ filter' = f
    /\ moves' = moves + 1
    /\ Shows({f} \cap followed, cache, loading)
    /\ pending' = Filtered(pending, f)
    /\ UNCHANGED <<fixed, view, cache, written, owed>>

(* The window gets the focus back: what is mounted and out of date.        *)
Focus ==
    /\ \E qs \in SUBSET Mounted(view, cache) :
        /\ \A q \in Mounted(view, cache) \ qs : cache[q] # Absent /\ ~cache[q].invalid
        /\ loading' = Load(qs)
    /\ UNCHANGED <<fixed, view, filter, cache, written, pending, owed, moves>>

(* The answer of a request: of when it was asked for, or later.  With the  *)
(* first answer of a screen, what is inside it comes up.                   *)
Respond(q) ==
    /\ loading[q] # Absent
    /\ \E seen \in loading[q]..written :
        cache' = [cache EXCEPT ![q] = [seen |-> seen, invalid |-> FALSE, error |-> FALSE]]
    /\ Shows(Mounted(view, cache') \ Mounted(view, cache), cache', [loading EXCEPT ![q] = Absent])
    /\ pending' = Released(pending, {q})
    /\ UNCHANGED <<fixed, view, filter, written, owed, moves>>

(* The request and its one retry fail; an earlier answer stays.            *)
RespondFails(q) ==
    /\ loading[q] # Absent
    /\ loading' = [loading EXCEPT ![q] = Absent]
    /\ cache' = IF cache[q] = Absent THEN cache
                ELSE [cache EXCEPT ![q].invalid = TRUE, ![q].error = TRUE]
    /\ pending' = Released(pending, {q})
    /\ UNCHANGED <<fixed, view, filter, written, owed, moves>>

-----------------------------------------------------------------------------
(* A button that writes.                                                   *)

(* Clicks of the same mutation, whose flag is about the latest of them.    *)
Together(p, b) == p.here /\ Buttons[p.button].busy = Buttons[b].busy
Superseded(ps, b) == {[p EXCEPT !.latest = @ /\ ~Together(p, b)] : p \in ps}

Click(b) ==
    /\ view = Buttons[b].on
    /\ Concerns(b)
    /\ Up(view, cache)
    /\ Buttons[b].guarded => ~ \E p \in pending : p.latest /\ Together(p, b)
    /\ written + Cardinality({p \in pending : p.wrote = 0}) < MaxWrites
    /\ pending' = Superseded(pending, b) \cup
                    {[button |-> b, here |-> TRUE, latest |-> TRUE, filter |-> filter,
                      wrote |-> 0, told |-> 0, waits |-> {}]}
    /\ UNCHANGED <<fixed, view, filter, cache, loading, written, owed, moves>>

ServerWrites(p) ==
    /\ p.wrote = 0
    /\ written' = written + 1
    /\ pending' = (pending \ {p}) \cup {[p EXCEPT !.wrote = written + 1]}
    /\ UNCHANGED <<fixed, view, filter, cache, loading, owed, moves>>

(* Refused, or its answer lost: the screen says so and tells nobody.       *)
ClickFails(p) ==
    /\ p.told = 0
    /\ pending' = pending \ {p}
    /\ UNCHANGED <<fixed, view, filter, cache, loading, written, owed, moves>>

(* The next telling of a click that has its answer, and after the last one *)
(* the view the screen goes on to, wherever the recruiter is by then: on   *)
(* that screen already, the recruiter stays on the tab.                    *)
Tell(p) ==
    /\ p.wrote > 0
    /\ p.waits = {}
    /\ p.told < Len(Buttons[p.button].tells)
    /\ LET t == Telling(p)
           last == p.told + 1 = Len(Buttons[p.button].tells)
           next == [p EXCEPT !.told = @ + 1,
                             !.waits = IF last THEN {} ELSE Reached(t)]
           rest == Released(pending \ {p}, {q \in followed : Told(t)[q] # loading[q]})
                   \cup (IF last THEN {} ELSE {next})
       IN  /\ cache' = Marked(t)
           /\ owed' = [q \in followed |->
                        IF q \in LeftRunning(t) THEN Min({owed[q], loading[q]})
                        ELSE IF p.told = 0 /\ q \in owing[p.button] \ PassedOver(p)
                        THEN Max({owed[q], p.wrote})
                        ELSE owed[q]]
           /\ \E v \in Buttons[p.button].goes :
                IF last /\ v \in Views /\ ~SameScreen(view, v)
                THEN /\ view' = v
                     /\ filter' = FilterOn(v)
                     /\ Shows(New(v, cache'), cache', Told(t))
                     /\ pending' = Gone(rest, v)
                ELSE /\ loading' = Told(t)
                     /\ pending' = rest
                     /\ UNCHANGED <<view, filter>>
    /\ UNCHANGED <<fixed, written, moves>>

ScreensNext ==
    \/ \E v \in Views : Move(v)
    \/ \E f \in StageFilters : Filter(f)
    \/ Focus
    \/ \E q \in followed : Respond(q) \/ RespondFails(q)
    \/ \E b \in DOMAIN Buttons : Click(b)
    \/ \E p \in pending : ServerWrites(p) \/ ClickFails(p) \/ Tell(p)

ScreensSpec == ScreensInit /\ [][ScreensNext]_screenVars

-----------------------------------------------------------------------------
(* With no load and no click under way, every query on the screen shows    *)
(* every write this recruiter had answered, but for the pairs Untold       *)
(* lists, the entry of another stage than the one a refetch was for, a     *)
(* load that failed, and one that was under way without being started      *)
(* again when the write was told.                                          *)
AtRest == pending = {} /\ \A q \in Mounted(view, cache) : loading[q] = Absent

OwnWritesShown ==
    AtRest => \A q \in Mounted(view, cache) :
                cache[q] # Absent /\ ~cache[q].error => cache[q].seen >= owed[q]

=============================================================================
