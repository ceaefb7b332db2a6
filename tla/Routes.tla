------------------------------- MODULE Routes -------------------------------
(***************************************************************************)
(* What the server is asked for: the routes each module registers with     *)
(* buildApp, and the rules the authorization gate looks them up in.        *)
(*                                                                         *)
(* A route is its method, its path without /api/v1, a parameter of which   *)
(* is Param, and what the service its handler calls reads and writes of    *)
(* the tables and files.  Abstracted: bodies, queries and the answers with *)
(* which a handler refuses them, which come before anything is written.    *)
(* Left out: telemetry events, which almost every handler appends, and the *)
(* routes that have no tables: /health, the dashboard, the web client.     *)
(***************************************************************************)
EXTENDS Naturals, Sequences

Param == "*"

Tables ==
    {"candidate", "resume", "knowledge", "job", "submission", "interview", "offer", "activity",
     "relationship", "action", "notification", "note", "integration", "audit", "savedSearch",
     "ingestion", "session"}

On(method, path, reads, writes) ==
    [method |-> method, path |-> path, reads |-> reads, writes |-> writes]

Get(path, reads) == On("GET", path, reads, {})

-----------------------------------------------------------------------------
(* Candidates.                                                             *)

CandidateRoutes ==
    {Get(<<"candidates">>, {"candidate"}),
     Get(<<"candidates", Param>>, {"candidate"}),
     On("PATCH", <<"candidates", Param>>, {"candidate"}, {"candidate"}),
     On("POST", <<"candidates", "import-resume">>, {"candidate", "resume"},
        {"candidate", "resume", "knowledge"})}

(* To look at a review starts the session that mark-ready ends.            *)
ResumeRoutes ==
    {Get(<<"candidates", Param, "resume">>, {"candidate", "resume"}),
     Get(<<"candidates", Param, "resume", "content">>, {"candidate", "resume"}),
     On("GET", <<"candidates", Param, "review">>, {"candidate", "resume"}, {"session"}),
     On("GET", <<"candidates", Param, "review", "ui">>, {"candidate", "resume"}, {"session"})}

ReviewRoutes ==
    {On("POST", <<"candidates", Param, "knowledge", "review">>, {"candidate"},
        {"candidate", "knowledge"}),
     On("PATCH", <<"candidates", Param, "knowledge">>, {"candidate"}, {"candidate", "knowledge"})}

VerifyRoutes ==
    {On("POST", <<"candidates", Param, "knowledge", "verify">>, {"candidate"},
        {"candidate", "knowledge"}),
     On("POST", <<"candidates", Param, "mark-ready">>, {"candidate"},
        {"candidate", "knowledge", "session"})}

IngestionRoutes ==
    {On("POST", <<"ingestion", "jobs">>, {"ingestion"}, {"ingestion"}),
     On("POST", <<"ingestion", "jobs", Param, "confirm">>, {"ingestion"},
        {"ingestion", "candidate", "resume", "knowledge"}),
     Get(<<"ingestion", "jobs", Param>>, {"ingestion"}),
     Get(<<"ingestion", "jobs">>, {"ingestion"})}

KnowledgeRoutes ==
    {Get(<<"knowledge", Param>>, {"knowledge"}),
     Get(<<"knowledge", Param, "history">>, {"knowledge"}),
     On("PATCH", <<"knowledge", Param>>, {"knowledge"}, {"knowledge"}),
     On("POST", <<"knowledge", Param, "evidence">>, {"knowledge"}, {"knowledge"})}

InsightRoutes ==
    LET all == {"candidate", "knowledge", "job", "submission", "interview", "offer"}
    IN  {Get(<<"candidates", Param, "insights">>, all), Get(<<"jobs", Param, "insights">>, all),
         Get(<<"submissions", Param, "insights">>, all),
         Get(<<"interviews", Param, "insights">>, all),
         On("POST", <<"insights", "click">>, {}, {})}

-----------------------------------------------------------------------------
(* Jobs and what is done for them.                                         *)

JobRoutes ==
    {Get(<<"jobs">>, {"job"}),
     On("POST", <<"jobs">>, {}, {"job", "activity"}),
     Get(<<"jobs", Param>>, {"job"}),
     On("PATCH", <<"jobs", Param>>, {"job"}, {"job"})}

JobReviewRoutes ==
    {On("DELETE", <<"jobs", Param>>, {"job"}, {"job"}),
     Get(<<"jobs", Param, "review">>, {"job"}),
     On("POST", <<"jobs", Param, "review">>, {"job"}, {"job"}),
     On("POST", <<"jobs", Param, "mark-ready">>, {"job"}, {"job"}),
     Get(<<"jobs", Param, "matches">>, {"job", "candidate"}),
     Get(<<"jobs", Param, "submissions">>, {"job", "submission", "candidate"}),
     On("POST", <<"jobs", Param, "submissions">>, {"job", "submission", "candidate"},
        {"submission", "job", "activity"})}

SubmissionRoutes ==
    {Get(<<"submissions">>, {"submission", "candidate", "job"}),
     Get(<<"submissions", Param>>,
         {"submission", "candidate", "job", "interview", "offer", "activity"}),
     On("PATCH", <<"submissions", Param, "status">>, {"submission"}, {"submission", "activity"}),
     On("POST", <<"submissions", Param, "reject">>, {"submission"}, {"submission", "activity"}),
     On("POST", <<"submissions", Param, "withdraw">>, {"submission"}, {"submission", "activity"}),
     On("POST", <<"submissions", Param, "interviews">>, {"submission", "interview"},
        {"submission", "interview", "activity"}),
     On("POST", <<"interviews", Param, "complete">>, {"submission", "interview"},
        {"submission", "interview", "activity", "knowledge"}),
     On("POST", <<"submissions", Param, "offers">>, {"submission"},
        {"submission", "offer", "activity"})}

PlacementRoutes ==
    {On("POST", <<"offers", Param, "status">>, {"submission", "offer"},
        {"submission", "offer", "activity", "knowledge"}),
     On("POST", <<"submissions", Param, "place">>, {"submission", "job"},
        {"submission", "job", "activity", "knowledge"}),
     Get(<<"jobs", Param, "pipeline">>, {"submission"}),
     Get(<<"jobs", Param, "activities">>, {"activity"})}

RelationshipRoutes ==
    {On("POST", <<"relationships">>, {"candidate", "job", "relationship"}, {"relationship"}),
     Get(<<"relationships", Param>>, {"relationship"}),
     On("PATCH", <<"relationships", Param>>, {"relationship"},
        {"relationship", "notification", "audit"}),
     Get(<<"candidates", Param, "relationships">>, {"candidate", "relationship", "job"}),
     Get(<<"jobs", Param, "relationships">>, {"job", "relationship", "candidate"})}

MatchingRoutes == {Get(<<"matching">>, {"candidate", "job"})}

(* A draft is asked for and kept nowhere.                                  *)
CopilotRoutes ==
    {On("POST", <<"copilot", draft>>, {"candidate", "job", "relationship"}, {}) :
        draft \in {"explain-match", "summarize-candidate", "summarize-job", "draft-outreach",
                   "suggest-interview-questions"}}

AnalyticsRoutes ==
    {Get(<<"analytics", "overview">>, {"candidate", "job", "relationship"}),
     Get(<<"analytics", "jobs", Param>>, {"candidate", "job", "relationship"})}

AutomationRoutes ==
    {On("POST", <<"automation", "send-outreach">>, {"relationship", "action"},
        {"action", "notification", "audit"})}
    \cup {On("POST", <<"automation", step>>, {"relationship"},
             {"relationship", "action", "notification", "audit"}) : step \in {"stage-move", "assign"}}

-----------------------------------------------------------------------------
(* The files.                                                              *)

NotificationRoutes ==
    {Get(<<"notifications">>, {"notification"}),
     On("POST", <<"notifications", Param, "read">>, {"notification"}, {"notification"}),
     On("POST", <<"notifications", "read-all">>, {"notification"}, {"notification"}),
     On("POST", <<"collaboration", "notes">>, {}, {"note", "notification"})}

IntegrationRoutes ==
    LET named(step) == <<"integrations", Param>> \o step
    IN  {Get(<<"integrations">>, {"integration"}), Get(named(<<>>), {"integration"}),
         On("POST", <<"integrations">>, {}, {"integration"}),
         On("PATCH", named(<<>>), {"integration"}, {"integration"}),
         On("POST", named(<<"test-connection">>), {"integration"}, {}),
         On("POST", named(<<"import", "preview">>), {"integration"}, {}),
         On("POST", named(<<"import", "execute">>), {"integration"}, {"job", "activity", "audit"}),
         On("POST", named(<<"export", "preview">>), {"integration", "job"}, {}),
         On("POST", named(<<"export", "execute">>), {"integration", "job"}, {"audit"})}

AuditRoutes == {Get(<<"audit">>, {"audit"}), Get(<<"audit", Param>>, {"audit"})}

SearchRoutes ==
    {Get(<<"search">>, {"candidate", "job", "relationship"}),
     Get(<<"search", "saved">>, {"savedSearch"}),
     On("POST", <<"search", "saved">>, {}, {"savedSearch"}),
     On("DELETE", <<"search", "saved", Param>>, {"savedSearch"}, {"savedSearch"})}

ReportRoutes ==
    {Get(<<"reports", "overview">>, {"candidate", "job", "relationship", "audit"}),
     Get(<<"reports", "export">>, {"candidate", "job", "relationship", "audit"})}

TelemetryRoutes == {On("POST", <<"telemetry">>, {}, {"session"})}

(* buildApp.                                                               *)
AllRoutes ==
    UNION {CandidateRoutes, ResumeRoutes, ReviewRoutes, VerifyRoutes, IngestionRoutes,
           KnowledgeRoutes, InsightRoutes, JobRoutes, JobReviewRoutes, RelationshipRoutes,
           MatchingRoutes, CopilotRoutes, AnalyticsRoutes, AutomationRoutes, NotificationRoutes,
           IntegrationRoutes, AuditRoutes, SearchRoutes, ReportRoutes, SubmissionRoutes,
           PlacementRoutes, TelemetryRoutes}

-----------------------------------------------------------------------------
(* The rules of the gate.                                                  *)

Rule(method, path, permission) == [method |-> method, path |-> path, permission |-> permission]

AuthorizedCandidates ==
    <<Rule("GET", <<"candidates">>, "candidate.read"),
      Rule("GET", <<"candidates", Param>>, "candidate.read"),
      Rule("GET", <<"candidates", Param, "resume">>, "candidate.read"),
      Rule("GET", <<"candidates", Param, "resume", "content">>, "candidate.read"),
      Rule("GET", <<"candidates", Param, "review">>, "candidate.read"),
      Rule("GET", <<"candidates", Param, "review", "ui">>, "candidate.read"),
      Rule("PATCH", <<"candidates", Param>>, "candidate.write"),
      Rule("POST", <<"candidates", "import-resume">>, "candidate.write"),
      Rule("POST", <<"ingestion", "jobs">>, "candidate.write"),
      Rule("POST", <<"ingestion", "jobs", Param, "confirm">>, "candidate.write"),
      Rule("GET", <<"ingestion", "jobs">>, "candidate.read"),
      Rule("GET", <<"ingestion", "jobs", Param>>, "candidate.read"),
      Rule("POST", <<"candidates", Param, "knowledge", "review">>, "candidate.write"),
      Rule("PATCH", <<"candidates", Param, "knowledge">>, "candidate.write"),
      Rule("POST", <<"candidates", Param, "knowledge", "verify">>, "candidate.write"),
      Rule("POST", <<"candidates", Param, "mark-ready">>, "candidate.write")>>

AuthorizedJobs ==
    <<Rule("GET", <<"jobs">>, "job.read"),
      Rule("GET", <<"jobs", Param>>, "job.read"),
      Rule("GET", <<"jobs", Param, "review">>, "job.read"),
      Rule("GET", <<"jobs", Param, "matches">>, "job.read"),
      Rule("GET", <<"jobs", Param, "submissions">>, "job.read"),
      Rule("GET", <<"jobs", Param, "pipeline">>, "job.read"),
      Rule("GET", <<"jobs", Param, "activities">>, "job.read"),
      Rule("POST", <<"jobs">>, "job.write"),
      Rule("PATCH", <<"jobs", Param>>, "job.write"),
      Rule("DELETE", <<"jobs", Param>>, "job.write"),
      Rule("POST", <<"jobs", Param, "review">>, "job.write"),
      Rule("POST", <<"jobs", Param, "mark-ready">>, "job.write"),
      Rule("POST", <<"jobs", Param, "submissions">>, "job.write")>>

AuthorizedWork ==
    <<Rule("GET", <<"relationships", Param>>, "relationship.read"),
      Rule("GET", <<"candidates", Param, "relationships">>, "relationship.read"),
      Rule("GET", <<"jobs", Param, "relationships">>, "relationship.read"),
      Rule("POST", <<"relationships">>, "relationship.write"),
      Rule("PATCH", <<"relationships", Param>>, "workflow.execute"),
      Rule("GET", <<"matching">>, "matching.read"),
      Rule("POST", <<"copilot", "explain-match">>, "copilot.use"),
      Rule("POST", <<"copilot", "summarize-candidate">>, "copilot.use"),
      Rule("POST", <<"copilot", "summarize-job">>, "copilot.use"),
      Rule("POST", <<"copilot", "draft-outreach">>, "copilot.use"),
      Rule("POST", <<"copilot", "suggest-interview-questions">>, "copilot.use"),
      Rule("GET", <<"analytics", "overview">>, "analytics.read"),
      Rule("GET", <<"analytics", "jobs", Param>>, "analytics.read"),
      Rule("POST", <<"automation", "stage-move">>, "automation.execute"),
      Rule("POST", <<"automation", "send-outreach">>, "automation.execute"),
      Rule("POST", <<"automation", "assign">>, "automation.execute")>>

AuthorizedFiles ==
    <<Rule("GET", <<"notifications">>, "notification.read"),
      Rule("POST", <<"notifications", Param, "read">>, "notification.read"),
      Rule("POST", <<"notifications", "read-all">>, "notification.read"),
      Rule("POST", <<"collaboration", "notes">>, "notification.write"),
      Rule("GET", <<"integrations">>, "integration.read"),
      Rule("GET", <<"integrations", Param>>, "integration.read"),
      Rule("POST", <<"integrations">>, "integration.execute"),
      Rule("PATCH", <<"integrations", Param>>, "integration.execute"),
      Rule("POST", <<"integrations", Param, "test-connection">>, "integration.execute"),
      Rule("POST", <<"integrations", Param, "import", "preview">>, "integration.read"),
      Rule("POST", <<"integrations", Param, "import", "execute">>, "integration.execute"),
      Rule("POST", <<"integrations", Param, "export", "preview">>, "integration.read"),
      Rule("POST", <<"integrations", Param, "export", "execute">>, "integration.execute"),
      Rule("GET", <<"audit">>, "audit.read"),
      Rule("GET", <<"audit", Param>>, "audit.read"),
      Rule("GET", <<"search">>, "search.read"),
      Rule("GET", <<"search", "saved">>, "search.read"),
      Rule("POST", <<"search", "saved">>, "search.read"),
      Rule("DELETE", <<"search", "saved", Param>>, "search.read"),
      Rule("GET", <<"reports", "overview">>, "report.read"),
      Rule("GET", <<"reports", "export">>, "report.read")>>

AuthorizedRoutes == AuthorizedCandidates \o AuthorizedJobs \o AuthorizedWork \o AuthorizedFiles

(* pathToRegex: a parameter stands for any one segment.                    *)
PathMatches(pattern, path) ==
    /\ Len(pattern) = Len(path)
    /\ \A i \in DOMAIN pattern : pattern[i] \in {Param, path[i]}

=============================================================================
