------------------------------- MODULE Client -------------------------------
(***************************************************************************)
(* What the web client asks the server for: each function of api is one    *)
(* request to one of the routes the server registers.                      *)
(***************************************************************************)
EXTENDS Routes, FiniteSets

Call(method, path) == [method |-> method, path |-> path]

CandidateCalls ==
    [listCandidates |-> Call("GET", <<"candidates">>),
     getWorkspace |-> Call("GET", <<"candidates", Param>>),
     updateWorkspace |-> Call("PATCH", <<"candidates", Param>>),
     getReview |-> Call("GET", <<"candidates", Param, "review">>),
     getInsights |-> Call("GET", <<"candidates", Param, "insights">>),
     getCandidateInsights |-> Call("GET", <<"candidates", Param, "insights">>),
     getJobInsights |-> Call("GET", <<"jobs", Param, "insights">>),
     getSubmissionInsights |-> Call("GET", <<"submissions", Param, "insights">>),
     getInterviewInsights |-> Call("GET", <<"interviews", Param, "insights">>),
     trackInsightClick |-> Call("POST", <<"insights", "click">>),
     reviewField |-> Call("POST", <<"candidates", Param, "knowledge", "review">>),
     markReady |-> Call("POST", <<"candidates", Param, "mark-ready">>),
     importResume |-> Call("POST", <<"candidates", "import-resume">>),
     createIngestionJob |-> Call("POST", <<"ingestion", "jobs">>),
     confirmIngestionJob |-> Call("POST", <<"ingestion", "jobs", Param, "confirm">>),
     getIngestionJob |-> Call("GET", <<"ingestion", "jobs", Param>>),
     listIngestionJobs |-> Call("GET", <<"ingestion", "jobs">>)]

JobCalls ==
    [listJobs |-> Call("GET", <<"jobs">>),
     createJobManual |-> Call("POST", <<"jobs">>),
     updateJob |-> Call("PATCH", <<"jobs", Param>>),
     createJobFromText |-> Call("POST", <<"jobs">>),
     createJobFromFile |-> Call("POST", <<"jobs">>),
     getJob |-> Call("GET", <<"jobs", Param>>),
     createRelationship |-> Call("POST", <<"relationships">>),
     updateRelationshipStatus |-> Call("PATCH", <<"relationships", Param>>),
     getRelationship |-> Call("GET", <<"relationships", Param>>),
     updateRelationshipStage |-> Call("PATCH", <<"relationships", Param>>),
     listCandidateRelationships |-> Call("GET", <<"candidates", Param, "relationships">>),
     listJobRelationships |-> Call("GET", <<"jobs", Param, "relationships">>),
     getJobReview |-> Call("GET", <<"jobs", Param, "review">>),
     reviewJobField |-> Call("POST", <<"jobs", Param, "review">>),
     markJobReady |-> Call("POST", <<"jobs", Param, "mark-ready">>),
     getJobMatches |-> Call("GET", <<"jobs", Param, "matches">>)]

WorkCalls ==
    [getMatching |-> Call("GET", <<"matching">>),
     copilotExplainMatch |-> Call("POST", <<"copilot", "explain-match">>),
     copilotSummarizeCandidate |-> Call("POST", <<"copilot", "summarize-candidate">>),
     copilotSummarizeJob |-> Call("POST", <<"copilot", "summarize-job">>),
     copilotDraftOutreach |-> Call("POST", <<"copilot", "draft-outreach">>),
     copilotSuggestInterviewQuestions |-> Call("POST", <<"copilot", "suggest-interview-questions">>),
     getAnalyticsOverview |-> Call("GET", <<"analytics", "overview">>),
     getJobAnalytics |-> Call("GET", <<"analytics", "jobs", Param>>),
     automationStageMove |-> Call("POST", <<"automation", "stage-move">>),
     automationSendOutreach |-> Call("POST", <<"automation", "send-outreach">>),
     automationAssign |-> Call("POST", <<"automation", "assign">>)]

SubmissionCalls ==
    [getJobSubmissions |-> Call("GET", <<"jobs", Param, "submissions">>),
     submitCandidate |-> Call("POST", <<"jobs", Param, "submissions">>),
     getJobPipeline |-> Call("GET", <<"jobs", Param, "pipeline">>),
     getJobActivities |-> Call("GET", <<"jobs", Param, "activities">>),
     listSubmissions |-> Call("GET", <<"submissions">>),
     getSubmission |-> Call("GET", <<"submissions", Param>>),
     updateSubmissionStatus |-> Call("PATCH", <<"submissions", Param, "status">>),
     rejectSubmission |-> Call("POST", <<"submissions", Param, "reject">>),
     withdrawSubmission |-> Call("POST", <<"submissions", Param, "withdraw">>),
     scheduleInterview |-> Call("POST", <<"submissions", Param, "interviews">>),
     completeInterview |-> Call("POST", <<"interviews", Param, "complete">>),
     createOffer |-> Call("POST", <<"submissions", Param, "offers">>),
     updateOfferStatus |-> Call("POST", <<"offers", Param, "status">>),
     markPlaced |-> Call("POST", <<"submissions", Param, "place">>)]

KnowledgeCalls ==
    [getCandidateKnowledge |-> Call("GET", <<"knowledge", Param>>),
     getKnowledgeHistory |-> Call("GET", <<"knowledge", Param, "history">>),
     patchKnowledge |-> Call("PATCH", <<"knowledge", Param>>),
     addKnowledgeEvidence |-> Call("POST", <<"knowledge", Param, "evidence">>)]

Api ==
    [f \in UNION {DOMAIN CandidateCalls, DOMAIN JobCalls, DOMAIN WorkCalls, DOMAIN SubmissionCalls,
                  DOMAIN KnowledgeCalls} |->
        CASE f \in DOMAIN CandidateCalls -> CandidateCalls[f]
          [] f \in DOMAIN JobCalls -> JobCalls[f]
          [] f \in DOMAIN WorkCalls -> WorkCalls[f]
          [] f \in DOMAIN SubmissionCalls -> SubmissionCalls[f]
          [] OTHER -> KnowledgeCalls[f]]

(* The route a call comes to.                                              *)
Served(f) == {r \in AllRoutes : r.method = Api[f].method /\ r.path = Api[f].path}

(* Every function asks for a route the server has, and for one only.       *)
ASSUME ClientAssumption == \A f \in DOMAIN Api : Cardinality(Served(f)) = 1

Reads(f) == UNION {r.reads : r \in Served(f)}
Writes(f) == UNION {r.writes : r \in Served(f)}

=============================================================================
