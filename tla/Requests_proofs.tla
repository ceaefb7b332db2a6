-------------------------- MODULE Requests_proofs --------------------------
(***************************************************************************)
(* What stands on the requests between the web client and the server, for  *)
(* any number of requests in flight, clients, actors, signals and whatever *)
(* the limits: at the server's gate, a shutdown drains the server before   *)
(* it takes the database away, a Viewer is kept to what is open to a       *)
(* Viewer, and the rate limiter bounds every span as long as a window; at  *)
(* the client's end, the screens show the recruiter's own writes.          *)
(*                                                                         *)
(* The first is inductive as it stands, and needs no type: a request only  *)
(* comes in while the server listens, and a handler only goes on with a    *)
(* request that is there.  The second needs that a request has no role     *)
(* before the gate gave it one with the permission for its route, and that *)
(* the rules let a Viewer do no more than look on any route.  The          *)
(* third splits a span at the moment the client's bucket was begun.        *)
(* The fourth has a part about tables, that the buttons tell every query   *)
(* their calls' routes write for but those listed as left to grow stale,   *)
(* and a part about the cache, that a told query is loading, shows the     *)
(* write, or is marked and off the screen.                                 *)
(***************************************************************************)
EXTENDS RequestGate, Screens, TLAPS

Drained == \A s \in Slots : requests[s] = None

(* Where the shutdown can be once the requests are answered.               *)
Past == {"disconnecting", "flushing", "exited"}

LEMMA ServeNeedsRequest ==
    ASSUME NEW s \in Slots, Serve(s) PROVE ~Drained /\ server' = server
  BY DEF Serve, Refuse, Handle, PreHandler, Drained

(* No step but those of the shutdown takes the server there.               *)
LEMMA ShutdownStep ==
    ASSUME DrainedBeforeDisconnect, Shutdown \/ ShutdownFails
    PROVE  DrainedBeforeDisconnect'
<1>1. requests' = requests BY DEF Shutdown, ShutdownFails, CloseHttp, DisconnectPrisma,
                                  FlushLogs, ExitFailed, GoTo
<1>2. CASE CloseHttp BY <1>1, <1>2 DEF CloseHttp, DrainedBeforeDisconnect
<1>3. CASE DisconnectPrisma \/ FlushLogs
  <2>1. server \in Past BY <1>3 DEF DisconnectPrisma, FlushLogs, GoTo, Past
  <2> QED BY <1>1, <2>1 DEF DrainedBeforeDisconnect, Past
<1>4. CASE ExitFailed \/ ShutdownFails
  <2>1. server' \notin Past BY <1>4 DEF ExitFailed, ShutdownFails, GoTo, Past
  <2> QED BY <2>1 DEF DrainedBeforeDisconnect, Past
<1> QED BY <1>2, <1>3, <1>4 DEF Shutdown

LEMMA SignalStep ==
    ASSUME DrainedBeforeDisconnect, NEW name \in Signals, Signal(name)
    PROVE  DrainedBeforeDisconnect'
<1>1. requests' = requests /\ (server' = server \/ server' \notin Past)
  BY DEF Signal, Past
<1> QED BY <1>1 DEF DrainedBeforeDisconnect, Past

(* No handler finds its database disconnected by a shutdown that goes as   *)
(* it should, and exit code 0 means that every request was answered        *)
(* (registerGracefulShutdown).                                             *)
THEOREM DrainsFirst == Spec => []DrainedBeforeDisconnect
<1>1. Init => DrainedBeforeDisconnect BY DEF Init, DrainedBeforeDisconnect
<1>2. ASSUME DrainedBeforeDisconnect, [Next]_vars PROVE DrainedBeforeDisconnect'
  <2>1. CASE Tick BY <1>2, <2>1 DEF Tick, DrainedBeforeDisconnect
  <2>2. ASSUME NEW s \in Slots, NEW c \in Clients, NEW r \in Asked, OnRequest(s, c, r)
        PROVE  DrainedBeforeDisconnect'
    BY <2>2 DEF OnRequest, DrainedBeforeDisconnect
  <2>3. ASSUME NEW s \in Slots, Serve(s) PROVE DrainedBeforeDisconnect'
    <3>1. server' \notin Past
      BY <1>2, <2>3, ServeNeedsRequest DEF DrainedBeforeDisconnect, Drained, Past
    <3> QED BY <3>1 DEF DrainedBeforeDisconnect, Past
  <2>4. ASSUME NEW name \in Signals, Signal(name) PROVE DrainedBeforeDisconnect'
    BY <1>2, <2>4, SignalStep
  <2>5. CASE Shutdown \/ ShutdownFails BY <1>2, <2>5, ShutdownStep
  <2>6. CASE UNCHANGED vars BY <1>2, <2>6 DEF vars, DrainedBeforeDisconnect
  <2> QED BY <1>2, <2>1, <2>2, <2>3, <2>4, <2>5, <2>6 DEF Next
<1> QED BY <1>1, <1>2, PTL DEF Spec

-----------------------------------------------------------------------------
(* The routes: which can have a path that begins with a segment.           *)

Begins(routes, segments) == \A r \in routes : r.path[1] \in segments

(* The groups of routes that have such paths.                              *)
CandidatePaths == UNION {CandidateRoutes, ResumeRoutes, ReviewRoutes, VerifyRoutes,
                         InsightRoutes, RelationshipRoutes}
JobPaths == UNION {JobRoutes, JobReviewRoutes, InsightRoutes, PlacementRoutes,
                   RelationshipRoutes}
SubmissionPaths == UNION {SubmissionRoutes, PlacementRoutes, InsightRoutes}
InterviewPaths == UNION {SubmissionRoutes, InsightRoutes}
OfferPaths == PlacementRoutes
RelationshipPaths == RelationshipRoutes
AutomationPaths == AutomationRoutes
KnowledgePaths == KnowledgeRoutes
AnalyticsPaths == AnalyticsRoutes

(* The segments the paths of each group of routes begin with.              *)
LEMMA Beginnings ==
    /\ Begins(CandidateRoutes, {"candidates"})
    /\ Begins(ResumeRoutes, {"candidates"})
    /\ Begins(ReviewRoutes, {"candidates"})
    /\ Begins(VerifyRoutes, {"candidates"})
    /\ Begins(IngestionRoutes, {"ingestion"})
    /\ Begins(KnowledgeRoutes, {"knowledge"})
    /\ Begins(InsightRoutes, {"candidates", "jobs", "submissions", "interviews",
                              "insights"})
    /\ Begins(JobRoutes, {"jobs"})
    /\ Begins(JobReviewRoutes, {"jobs"})
    /\ Begins(RelationshipRoutes, {"candidates", "jobs", "relationships"})
    /\ Begins(MatchingRoutes, {"matching"})
    /\ Begins(CopilotRoutes, {"copilot"})
    /\ Begins(AnalyticsRoutes, {"analytics"})
    /\ Begins(AutomationRoutes, {"automation"})
    /\ Begins(NotificationRoutes, {"notifications", "collaboration"})
    /\ Begins(IntegrationRoutes, {"integrations"})
    /\ Begins(AuditRoutes, {"audit"})
    /\ Begins(SearchRoutes, {"search"})
    /\ Begins(ReportRoutes, {"reports"})
    /\ Begins(SubmissionRoutes, {"submissions", "interviews"})
    /\ Begins(PlacementRoutes, {"jobs", "submissions", "offers"})
    /\ Begins(TelemetryRoutes, {"telemetry"})
<1>1. Begins(CandidateRoutes, {"candidates"})
  BY DEF Begins, CandidateRoutes, On, Get
<1>2. Begins(ResumeRoutes, {"candidates"})
  BY DEF Begins, ResumeRoutes, On, Get
<1>3. Begins(ReviewRoutes, {"candidates"})
  BY DEF Begins, ReviewRoutes, On, Get
<1>4. Begins(VerifyRoutes, {"candidates"})
  BY DEF Begins, VerifyRoutes, On, Get
<1>5. Begins(IngestionRoutes, {"ingestion"})
  BY DEF Begins, IngestionRoutes, On, Get
<1>6. Begins(KnowledgeRoutes, {"knowledge"})
  BY DEF Begins, KnowledgeRoutes, On, Get
<1>7. Begins(InsightRoutes, {"candidates", "jobs", "submissions", "interviews", "insights"})
  BY DEF Begins, InsightRoutes, On, Get
<1>8. Begins(JobRoutes, {"jobs"})
  BY DEF Begins, JobRoutes, On, Get
<1>9. Begins(JobReviewRoutes, {"jobs"})
  BY DEF Begins, JobReviewRoutes, On, Get
<1>10. Begins(RelationshipRoutes, {"candidates", "jobs", "relationships"})
  BY DEF Begins, RelationshipRoutes, On, Get
<1>11. Begins(MatchingRoutes, {"matching"})
  BY DEF Begins, MatchingRoutes, On, Get
<1>12. Begins(CopilotRoutes, {"copilot"})
  BY DEF Begins, CopilotRoutes, On, Get
<1>13. Begins(AnalyticsRoutes, {"analytics"})
  BY DEF Begins, AnalyticsRoutes, On, Get
<1>14. Begins(AutomationRoutes, {"automation"})
  BY DEF Begins, AutomationRoutes, On, Get
<1>15. Begins(NotificationRoutes, {"notifications", "collaboration"})
  BY DEF Begins, NotificationRoutes, On, Get
<1>16. Begins(IntegrationRoutes, {"integrations"})
  <2>1. \A s : Len(s) \in Nat => (<<"integrations", Param>> \o s)[1] = "integrations"
    OBVIOUS
  <2> QED BY <2>1 DEF Begins, IntegrationRoutes, On, Get
<1>17. Begins(AuditRoutes, {"audit"})
  BY DEF Begins, AuditRoutes, On, Get
<1>18. Begins(SearchRoutes, {"search"})
  BY DEF Begins, SearchRoutes, On, Get
<1>19. Begins(ReportRoutes, {"reports"})
  BY DEF Begins, ReportRoutes, On, Get
<1>20. Begins(SubmissionRoutes, {"submissions", "interviews"})
  BY DEF Begins, SubmissionRoutes, On, Get
<1>21. Begins(PlacementRoutes, {"jobs", "submissions", "offers"})
  BY DEF Begins, PlacementRoutes, On, Get
<1>22. Begins(TelemetryRoutes, {"telemetry"})
  BY DEF Begins, TelemetryRoutes, On, Get
<1> QED BY <1>1, <1>2, <1>3, <1>4, <1>5, <1>6, <1>7, <1>8, <1>9, <1>10, <1>11, <1>12,
         <1>13, <1>14, <1>15, <1>16, <1>17, <1>18, <1>19, <1>20, <1>21, <1>22

(* A route with a path that begins with a segment is in the groups that    *)
(* have such paths.                                                        *)
LEMMA RoutesBegin ==
    ASSUME NEW r \in AllRoutes
    PROVE
      /\ r.path[1] = "candidates" => r \in CandidatePaths
      /\ r.path[1] = "jobs" => r \in JobPaths
      /\ r.path[1] = "submissions" => r \in SubmissionPaths
      /\ r.path[1] = "interviews" => r \in InterviewPaths
      /\ r.path[1] = "offers" => r \in OfferPaths
      /\ r.path[1] = "relationships" => r \in RelationshipPaths
      /\ r.path[1] = "automation" => r \in AutomationPaths
      /\ r.path[1] = "knowledge" => r \in KnowledgePaths
      /\ r.path[1] = "analytics" => r \in AnalyticsPaths
      /\ r.path[1] = "copilot" => r \in CopilotRoutes
      /\ r.path[1] = "notifications" => r \in NotificationRoutes
      /\ r.path[1] = "search" => r \in SearchRoutes
      /\ r.path[1] = "integrations" => r \in IntegrationRoutes
BY Beginnings
   DEF Begins, AllRoutes, CandidatePaths, JobPaths, SubmissionPaths, InterviewPaths, OfferPaths,
       RelationshipPaths, AutomationPaths, KnowledgePaths, AnalyticsPaths

-----------------------------------------------------------------------------
(* The rules: which of them a Viewer's permissions satisfy.                *)

(* Paths on which a Viewer may do more than read.                          *)
Shared(path) ==
    \/ Len(path) \in Nat /\ DOMAIN path = 1..Len(path) /\ Len(path) >= 1
          /\ path[1] \in {"copilot", "notifications", "search"}
    \/ Len(path) = 4 /\ DOMAIN path = 1..4 /\ path[1] = "integrations" /\ path[4] = "preview"

(* A rule that a Viewer's permissions satisfy is for reading or of these   *)
(* paths.                                                                  *)
Harmless(rule) ==
    rule.permission \in Permissions("Viewer") => rule.method = "GET" \/ Shared(rule.path)

(* A list of such rules.                                                   *)
Lined(rules) ==
    /\ Len(rules) \in Nat /\ DOMAIN rules = 1..Len(rules)
    /\ \A i \in DOMAIN rules : Harmless(rules[i])

(* Two such lists, one after the other.                                    *)
LEMMA LinedOn ==
    ASSUME NEW s, NEW t, Lined(s), Lined(t)
    PROVE  Lined(s \o t)
<1>1. Len(s \o t) = Len(s) + Len(t) /\ DOMAIN (s \o t) = 1..(Len(s) + Len(t))
  BY DEF Lined
<1>2. \A i \in 1..(Len(s) + Len(t)) :
         (s \o t)[i] = IF i <= Len(s) THEN s[i] ELSE t[i - Len(s)]
  BY DEF Lined
<1>3. \A i \in 1..(Len(s) + Len(t)) : i > Len(s) => i - Len(s) \in 1..Len(t)
  BY DEF Lined
<1> QED BY <1>1, <1>2, <1>3 DEF Lined

(* ROLE_PERMISSIONS of a Viewer.                                           *)
LEMMA ViewerMay ==
    Permissions("Viewer") =
        {"candidate.read", "job.read", "relationship.read", "analytics.read", "copilot.use",
         "matching.read", "notification.read", "integration.read", "search.read",
         "report.read"}
BY DEF Permissions

(* Permissions a Viewer does not have.                                     *)
Closed == {"candidate.write", "job.write", "relationship.write", "workflow.execute",
           "automation.execute", "notification.write", "integration.execute", "audit.read"}

(* What makes a rule harmless.                                             *)
LEMMA RuleHarmless ==
    /\ \A path, permission : Harmless(Rule("GET", path, permission))
    /\ \A method, path : \A permission \in Closed : Harmless(Rule(method, path, permission))
    /\ \A method, path, permission : Shared(path) => Harmless(Rule(method, path, permission))
BY ViewerMay DEF Harmless, Rule, Closed

(* The paths of the rules that let a Viewer do more than read.             *)
LEMMA SharedPaths ==
    /\ \A draft : Shared(<<"copilot", draft>>)
    /\ Shared(<<"notifications", Param, "read">>) /\ Shared(<<"notifications", "read-all">>)
    /\ \A way : Shared(<<"integrations", Param, way, "preview">>)
    /\ Shared(<<"search", "saved">>) /\ Shared(<<"search", "saved", Param>>)
BY DEF Shared

(* AUTHORIZED_ROUTES, part by part.                                        *)
LEMMA CandidateRules == Lined(AuthorizedCandidates)
BY RuleHarmless DEF Lined, AuthorizedCandidates, Closed

LEMMA JobRules == Lined(AuthorizedJobs)
BY RuleHarmless DEF Lined, AuthorizedJobs, Closed

LEMMA WorkRules == Lined(AuthorizedWork)
<1>1. /\ Harmless(Rule("POST", <<"copilot", "explain-match">>, "copilot.use"))
      /\ Harmless(Rule("POST", <<"copilot", "summarize-candidate">>, "copilot.use"))
      /\ Harmless(Rule("POST", <<"copilot", "summarize-job">>, "copilot.use"))
      /\ Harmless(Rule("POST", <<"copilot", "draft-outreach">>, "copilot.use"))
      /\ Harmless(Rule("POST", <<"copilot", "suggest-interview-questions">>, "copilot.use"))
  BY RuleHarmless, SharedPaths
<1> QED BY <1>1, RuleHarmless DEF Lined, AuthorizedWork, Closed

LEMMA FileRules == Lined(AuthorizedFiles)
<1>1. /\ Harmless(Rule("POST", <<"notifications", Param, "read">>, "notification.read"))
      /\ Harmless(Rule("POST", <<"notifications", "read-all">>, "notification.read"))
      /\ Harmless(Rule("POST", <<"search", "saved">>, "search.read"))
      /\ Harmless(Rule("DELETE", <<"search", "saved", Param>>, "search.read"))
  BY RuleHarmless, SharedPaths
<1>2. /\ Harmless(Rule("POST", <<"integrations", Param, "import", "preview">>, "integration.read"))
      /\ Harmless(Rule("POST", <<"integrations", Param, "export", "preview">>, "integration.read"))
  BY RuleHarmless, SharedPaths
<1> QED BY <1>1, <1>2, RuleHarmless DEF Lined, AuthorizedFiles, Closed

(* And all of them.                                                        *)
LEMMA AllRules == Lined(AuthorizedRoutes)
BY CandidateRules, JobRules, WorkRules, FileRules, LinedOn DEF AuthorizedRoutes

(* A GET writes nothing, or starts a review session.                       *)
Looks(routes) == \A r \in routes : r.method = "GET" => r.writes \subseteq Own

LEMMA LooksOnly == Looks(AllRoutes)
<1>1. Looks(CandidateRoutes)
  BY DEF Looks, CandidateRoutes, On, Get, Own
<1>2. Looks(ResumeRoutes)
  BY DEF Looks, ResumeRoutes, On, Get, Own
<1>3. Looks(ReviewRoutes)
  BY DEF Looks, ReviewRoutes, On, Get, Own
<1>4. Looks(VerifyRoutes)
  BY DEF Looks, VerifyRoutes, On, Get, Own
<1>5. Looks(IngestionRoutes)
  BY DEF Looks, IngestionRoutes, On, Get, Own
<1>6. Looks(KnowledgeRoutes)
  BY DEF Looks, KnowledgeRoutes, On, Get, Own
<1>7. Looks(InsightRoutes)
  BY DEF Looks, InsightRoutes, On, Get, Own
<1>8. Looks(JobRoutes)
  BY DEF Looks, JobRoutes, On, Get, Own
<1>9. Looks(JobReviewRoutes)
  BY DEF Looks, JobReviewRoutes, On, Get, Own
<1>10. Looks(RelationshipRoutes)
  BY DEF Looks, RelationshipRoutes, On, Get, Own
<1>11. Looks(MatchingRoutes)
  BY DEF Looks, MatchingRoutes, On, Get, Own
<1>12. Looks(CopilotRoutes)
  BY DEF Looks, CopilotRoutes, On, Get, Own
<1>13. Looks(AnalyticsRoutes)
  BY DEF Looks, AnalyticsRoutes, On, Get, Own
<1>14. Looks(AutomationRoutes)
  BY DEF Looks, AutomationRoutes, On, Get, Own
<1>15. Looks(NotificationRoutes)
  BY DEF Looks, NotificationRoutes, On, Get, Own
<1>16. Looks(IntegrationRoutes)
  BY DEF Looks, IntegrationRoutes, On, Get, Own
<1>17. Looks(AuditRoutes)
  BY DEF Looks, AuditRoutes, On, Get, Own
<1>18. Looks(SearchRoutes)
  BY DEF Looks, SearchRoutes, On, Get, Own
<1>19. Looks(ReportRoutes)
  BY DEF Looks, ReportRoutes, On, Get, Own
<1>20. Looks(SubmissionRoutes)
  BY DEF Looks, SubmissionRoutes, On, Get, Own
<1>21. Looks(PlacementRoutes)
  BY DEF Looks, PlacementRoutes, On, Get, Own
<1>22. Looks(TelemetryRoutes)
  BY DEF Looks, TelemetryRoutes, On, Get, Own
<1> QED BY <1>1, <1>2, <1>3, <1>4, <1>5, <1>6, <1>7, <1>8, <1>9, <1>10, <1>11, <1>12,
         <1>13, <1>14, <1>15, <1>16, <1>17, <1>18, <1>19, <1>20, <1>21, <1>22
   DEF Looks, AllRoutes

(* What the routes with such a path write is a Viewer's own.               *)
LEMMA SharedWrites ==
    ASSUME NEW r \in AllRoutes
    PROVE  /\ r.path[1] \in {"copilot", "notifications", "search"} => r.writes \subseteq Own
           /\ r.path[1] = "integrations" /\ Len(r.path) = 4 /\ r.path[4] = "preview" =>
                 r.writes \subseteq Own
<1>1. CASE r \in CopilotRoutes BY <1>1 DEF CopilotRoutes, On
<1>2. CASE r \in NotificationRoutes /\ r.path[1] = "notifications"
  BY <1>2 DEF NotificationRoutes, On, Get, Own
<1>3. CASE r \in SearchRoutes BY <1>3 DEF SearchRoutes, On, Get, Own
<1>4. CASE r \in IntegrationRoutes /\ Len(r.path) = 4 /\ r.path[4] = "preview"
  <2>1. /\ Len(<<"integrations", Param>> \o <<>>) = 2
        /\ (<<"integrations", Param>> \o <<"import", "execute">>)[4] = "execute"
        /\ (<<"integrations", Param>> \o <<"export", "execute">>)[4] = "execute"
    OBVIOUS
  <2> QED BY <1>4, <2>1 DEF IntegrationRoutes, On, Get
<1> QED BY <1>1, <1>2, <1>3, <1>4, RoutesBegin

(* A path that matches such a pattern is such a path, since what decides   *)
(* is no parameter.                                                        *)
LEMMA SharedMatches ==
    ASSUME NEW pattern, NEW path, Shared(pattern), PathMatches(pattern, path)
    PROVE  \/ path[1] \in {"copilot", "notifications", "search"}
           \/ path[1] = "integrations" /\ Len(path) = 4 /\ path[4] = "preview"
BY DEF Shared, PathMatches, Param

(* So the rules and the routes agree: no route that is open to a Viewer    *)
(* writes more than its own.                                               *)
LEMMA ViewerWritesOwn == \A r \in OpenToViewer : r.writes \subseteq Own
<1> SUFFICES ASSUME NEW r \in AllRoutes, PermissionFor[r] # None,
                    PermissionFor[r] \in Permissions("Viewer")
             PROVE  r.writes \subseteq Own
  BY DEF OpenToViewer
<1>1. PICK i \in RulesFor(r) : PermissionFor[r] = AuthorizedRoutes[i].permission
  BY DEF PermissionFor
<1>2. /\ i \in DOMAIN AuthorizedRoutes /\ AuthorizedRoutes[i].method = r.method
      /\ PathMatches(AuthorizedRoutes[i].path, r.path)
  BY DEF RulesFor
<1>3. r.method = "GET" \/ Shared(AuthorizedRoutes[i].path)
  BY <1>1, <1>2, AllRules DEF Lined, Harmless
<1>4. CASE r.method = "GET" BY <1>4, LooksOnly DEF Looks
<1>5. CASE Shared(AuthorizedRoutes[i].path)
  BY <1>2, <1>5, SharedMatches, SharedWrites
<1> QED BY <1>3, <1>4, <1>5

-----------------------------------------------------------------------------
(* The gate.                                                               *)

(* A request that has passed the gate, by its role.                        *)
Passed(q) ==
    /\ q.step = "preHandler" => q.role = None
    /\ q.role = "Viewer" =>
          PermissionFor[q.route] = None \/ PermissionFor[q.route] \in Permissions("Viewer")

Gated ==
    /\ requests \in [Slots -> Request \cup {None}]
    /\ \A s \in Slots : requests[s] # None => Passed(requests[s])

LEMMA OnRequestGated ==
    ASSUME Gated, NEW s \in Slots, NEW c \in Clients, NEW r \in Asked, OnRequest(s, c, r)
    PROVE  Gated'
<1> DEFINE q == [step |-> "preHandler", route |-> r, role |-> None]
<1>1. q \in Request BY DEF Request
<1>2. Passed(q) BY GateAssumption DEF Passed, Roles
<1>3. requests' = [requests EXCEPT ![s] = q] \/ requests' = [requests EXCEPT ![s] = None]
  BY DEF OnRequest
<1> HIDE DEF q
<1> QED BY <1>1, <1>2, <1>3 DEF Gated

(* A request is taken for an actor that it names, or for the default one.  *)
LEMMA SomebodyIsMeant ==
    ASSUME NEW said \in [Sources -> Actors \cup {None}]
    PROVE  ActorOf(said) \in Actors
<1> DEFINE Says(x) == /\ said[x] # None
                      /\ x # "header" => said["header"] = None
                      /\ x = "query" => said["body"] = None
           first == CHOOSE x \in Sources : Says(x)
<1>1. CASE \E x \in Sources : said[x] # None
  <2>1. \E x \in Sources : Says(x) BY <1>1 DEF Sources
  <2>2. ActorOf(said) = said[first]
    <3>1. ActorOf(said) = IF \E x \in Sources : said[x] # None THEN said[first] ELSE DefaultActor
      BY DEF ActorOf
    <3> HIDE DEF first
    <3> QED BY <1>1, <3>1
  <2> HIDE DEF Says
  <2>3. first \in Sources /\ Says(first) BY <2>1
  <2> USE DEF Says
  <2>4. said[first] # None BY <2>3
  <2> HIDE DEF first, Says
  <2> QED BY <2>2, <2>3, <2>4
<1>2. CASE ~ \E x \in Sources : said[x] # None BY <1>2, GateAssumption DEF ActorOf
<1> QED BY <1>1, <1>2

LEMMA ServeGated ==
    ASSUME Gated, NEW s \in Slots, Serve(s) PROVE Gated'
<1>1. CASE Refuse(s) \/ Handle(s)
  BY <1>1 DEF Refuse, Handle, Gated
<1>2. ASSUME NEW actor \in Named, PreHandler(s, actor) PROVE Gated'
  <2> DEFINE q == [requests[s] EXCEPT !.step = "handler", !.role = RoleOf[actor]]
  <2>1. requests[s] \in Request BY <1>2 DEF Gated, PreHandler
  <2>2. actor \in Actors BY SomebodyIsMeant DEF Named
  <2>3. RoleOf[actor] \in Roles \cup {None} BY <2>2, GateAssumption
  <2>4. q \in Request /\ q.step = "handler" /\ q.role = RoleOf[actor]
        /\ q.route = requests[s].route
    BY <2>1, <2>3 DEF Request
  <2>5. Passed(q)
    <3>1. q.role = "Viewer" => Permissions(RoleOf[actor]) = Permissions("Viewer")
      BY <2>4
    <3> QED BY <1>2, <2>4, <3>1 DEF Passed, PreHandler, Allowed
  <2>6. requests' = [requests EXCEPT ![s] = q]
    <3>1. requests' = [requests EXCEPT ![s] = [[@ EXCEPT !.step = "handler"] EXCEPT !.role = RoleOf[actor]]]
      BY <1>2 DEF PreHandler, Gated
    <3>2. [[requests[s] EXCEPT !.step = "handler"] EXCEPT !.role = RoleOf[actor]] = q
      BY <2>1 DEF Request
    <3> QED BY <3>1, <3>2 DEF Gated
  <2> HIDE DEF q
  <2> QED BY <2>4, <2>5, <2>6 DEF Gated
<1> QED BY <1>1, <1>2 DEF Serve

LEMMA GatedAlways == Spec => []Gated
<1>1. Init => Gated BY DEF Init, Gated
<1>2. ASSUME Gated, [Next]_vars PROVE Gated'
  <2>1. ASSUME NEW s \in Slots, NEW c \in Clients, NEW r \in Asked, OnRequest(s, c, r)
        PROVE  Gated'
    BY <1>2, <2>1, OnRequestGated
  <2>2. ASSUME NEW s \in Slots, Serve(s) PROVE Gated' BY <1>2, <2>2, ServeGated
  <2>3. CASE requests' = requests BY <1>2, <2>3 DEF Gated
  <2>4. ASSUME Tick \/ Shutdown \/ ShutdownFails \/ UNCHANGED vars
               \/ \E name \in Signals : Signal(name)
        PROVE  requests' = requests
    BY <2>4 DEF Tick, Signal, Shutdown, ShutdownFails, CloseHttp, DisconnectPrisma, FlushLogs,
                ExitFailed, GoTo, vars
  <2> QED BY <1>2, <2>1, <2>2, <2>3, <2>4 DEF Next
<1> QED BY <1>1, <1>2, PTL DEF Spec

(* Whoever asks for what in whatever order, and whatever the shutdown and  *)
(* the limiter do meanwhile: a Viewer's request on a route with a rule     *)
(* changes nothing but its own, and so it is on every route of the server  *)
(* (AUTHORIZED_ROUTES against ROLE_PERMISSIONS, authorize).                *)
THEOREM ViewerKeepsOut == Spec => []ViewerReadOnly
<1>1. Gated => ViewerReadOnly
  <2> SUFFICES ASSUME Gated, NEW s \in Slots, requests[s] # None, requests[s].role = "Viewer",
                      PermissionFor[requests[s].route] # None
               PROVE  requests[s].route.writes \subseteq Own
    BY ViewerWritesOwn DEF ViewerReadOnly
  <2>1. requests[s].route \in AllRoutes BY GateAssumption DEF Gated, Request
  <2>2. PermissionFor[requests[s].route] \in Permissions("Viewer") BY DEF Gated, Passed
  <2> QED BY <2>1, <2>2, ViewerWritesOwn DEF OpenToViewer
<1> QED BY <1>1, GatedAlways, PTL

-----------------------------------------------------------------------------
(* Types.                                                                  *)

LEMMA CurrentTyped ==
    ASSUME TypeOK, NEW c \in Clients, Check(c)
    PROVE  Current(c) \in Bucket /\ Current(c) # None
<1> DEFINE bucket == Current(c)
<1>1. now \in Nat /\ now <= MaxTime BY GateAssumption DEF TypeOK, Time
<1>2. bucket.count <= MaxRequests BY DEF Check
<1>3. CASE buckets[c] = None \/ now >= buckets[c].resetAt
  <2>1. bucket = [count |-> 1, resetAt |-> now + Window] BY <1>3 DEF Current
  <2>2. 1 \in 0..MaxRequests BY <1>2, <2>1, GateAssumption
  <2>3. now + Window \in 0..(MaxTime + Window) BY <1>1, GateAssumption
  <2> QED BY <2>1, <2>2, <2>3, GateAssumption DEF Bucket
<1>4. CASE ~(buckets[c] = None \/ now >= buckets[c].resetAt)
  <2>1. bucket = [buckets[c] EXCEPT !.count = @ + 1] BY <1>4 DEF Current
  <2>2. buckets[c] \in Bucket BY <1>4 DEF TypeOK
  <2>3. bucket.count = buckets[c].count + 1 BY <2>1, <2>2 DEF Bucket
  <2>4. buckets[c].count \in 0..MaxRequests BY <2>2 DEF Bucket
  <2>5. buckets[c].count + 1 \in 0..MaxRequests BY <1>2, <2>3, <2>4, GateAssumption
  <2> HIDE DEF bucket
  <2>6. bucket \in Bucket BY <2>1, <2>2, <2>5 DEF Bucket
  <2> QED BY <2>6, GateAssumption DEF bucket
<1> QED BY <1>3, <1>4

LEMMA BucketsTyped ==
    ASSUME TypeOK, NEW c \in Clients, Check(c)
    PROVE  /\ buckets' \in [Clients -> Bucket \cup {None}]
           /\ recent' \in [Clients -> [Ages -> Nat]]
<1> DEFINE bucket == Current(c)
           all == [buckets EXCEPT ![c] = bucket]
<1>1. bucket \in Bucket BY CurrentTyped
<1>2. all \in [Clients -> Bucket \cup {None}] BY <1>1 DEF TypeOK
<1>3. buckets' = Pruned(all) \/ buckets' = all BY DEF Check
<1>4. recent' = [recent EXCEPT ![c] = [age \in Ages |-> recent[c][age] + 1]] \/ recent' = recent
  BY DEF Check, TypeOK
<1>5. [age \in Ages |-> recent[c][age] + 1] \in [Ages -> Nat] BY DEF TypeOK
<1>6. recent' \in [Clients -> [Ages -> Nat]] BY <1>4, <1>5 DEF TypeOK
<1> HIDE DEF bucket, all
<1>7. Pruned(all) \in [Clients -> Bucket \cup {None}] BY <1>2 DEF Pruned
<1> QED BY <1>2, <1>3, <1>6, <1>7

LEMMA TickTyped ==
    ASSUME TypeOK, Tick PROVE TypeOK'
<1>1. now' \in Time BY GateAssumption DEF TypeOK, Tick, Time
<1>2. recent' \in [Clients -> [Ages -> Nat]]
  <2> SUFFICES ASSUME NEW c \in Clients, NEW age \in Ages
               PROVE  (IF age = 0 THEN 0 ELSE recent[c][age - 1]) \in Nat
    BY DEF Tick
  <2>1. CASE age # 0
    <3>1. age - 1 \in Ages BY <2>1, GateAssumption DEF Ages
    <3> QED BY <2>1, <3>1 DEF TypeOK
  <2> QED BY <2>1
<1> QED BY <1>1, <1>2 DEF TypeOK, Tick

(* The types of the gate's state, which every other argument starts from.  *)
THEOREM GateTyped == Spec => []TypeOK
<1>1. Init => TypeOK
  <2> SUFFICES ASSUME Init PROVE TypeOK OBVIOUS
  <2>1. now \in Time BY GateAssumption DEF Init, Time
  <2>2. recent \in [Clients -> [Ages -> Nat]] BY DEF Init
  <2> QED BY <2>1, <2>2 DEF Init, TypeOK
<1>2. ASSUME TypeOK, Gated, Gated', [Next]_vars PROVE TypeOK'
  <2>1. CASE Tick BY <1>2, <2>1, TickTyped
  <2>2. ASSUME NEW s \in Slots, NEW c \in Clients, NEW r \in Asked, OnRequest(s, c, r)
        PROVE  TypeOK'
    <3>1. /\ buckets' \in [Clients -> Bucket \cup {None}]
          /\ recent' \in [Clients -> [Ages -> Nat]]
      <4>1. CASE Mutating(r) BY <1>2, <2>2, <4>1, BucketsTyped DEF OnRequest
      <4>2. CASE ~Mutating(r) BY <1>2, <2>2, <4>2 DEF OnRequest, TypeOK
      <4> QED BY <4>1, <4>2
    <3>2. now' = now /\ server' = server /\ caught' = caught BY <2>2 DEF OnRequest
    <3> QED BY <1>2, <3>1, <3>2 DEF TypeOK, Gated
  <2>3. ASSUME NEW s \in Slots, Serve(s) PROVE TypeOK'
    <3>1. UNCHANGED <<now, buckets, server, caught, recent>>
      BY <2>3 DEF Serve, Refuse, Handle, PreHandler
    <3> QED BY <1>2, <3>1 DEF TypeOK, Gated
  <2>4. ASSUME NEW name \in Signals, Signal(name) PROVE TypeOK'
    BY <1>2, <2>4 DEF Signal, TypeOK, Ended
  <2>5. CASE Shutdown \/ ShutdownFails
    BY <1>2, <2>5 DEF Shutdown, ShutdownFails, CloseHttp, DisconnectPrisma, FlushLogs,
                      ExitFailed, GoTo, TypeOK, Ended
  <2>6. CASE UNCHANGED vars BY <1>2, <2>6 DEF vars, TypeOK
  <2> QED BY <1>2, <2>1, <2>2, <2>3, <2>4, <2>5, <2>6 DEF Next
<1> QED BY <1>1, <1>2, GatedAlways, PTL DEF Spec

-----------------------------------------------------------------------------
(* The rate limit.                                                         *)

(* The history grows with the age it goes back to.                         *)
Grows == \A c \in Clients : \A age \in Ages \ {0} : recent[c][age - 1] <= recent[c][age]

(* How long ago the client's bucket was begun.                             *)
Begun(c) == now + Window - buckets[c].resetAt

(* The requests of a span as long as a window, up to now: if no bucket is  *)
(* there that still counts, they were all let through by one bucket, for   *)
(* two before this moment are a window apart; else those since the bucket  *)
(* was begun are counted by it, and those before were let through by one.  *)
Counted(c) ==
    IF buckets[c] # None /\ Begun(c) \in Ages
      THEN /\ recent[c][Begun(c)] <= buckets[c].count
           /\ recent[c][Begun(c)] <= Limit
           /\ recent[c][Window - 1] <= recent[c][Begun(c)] + Limit
      ELSE /\ buckets[c] # None => Begun(c) \in Nat
           /\ recent[c][0] = 0
           /\ recent[c][Window - 1] <= Limit

Limited == TypeOK /\ Grows /\ \A c \in Clients : Counted(c)

LEMMA LimitedBounds == Limited => WindowBound
<1> SUFFICES ASSUME Limited, NEW c \in Clients PROVE recent[c][Window - 1] <= 2 * Limit
  BY DEF WindowBound
<1>1. Limit \in Nat /\ Window - 1 \in Ages BY GateAssumption DEF Ages
<1>2. recent[c][Window - 1] \in Nat BY <1>1 DEF Limited, TypeOK
<1>3. CASE buckets[c] # None /\ Begun(c) \in Ages
  <2>1. recent[c][Begun(c)] \in Nat BY <1>3 DEF Limited, TypeOK
  <2> QED BY <1>1, <1>2, <1>3, <2>1 DEF Limited, Counted
<1>4. CASE ~(buckets[c] # None /\ Begun(c) \in Ages)
  BY <1>1, <1>2, <1>4 DEF Limited, Counted
<1> QED BY <1>3, <1>4

(* When the clock goes on, a bucket ages with the requests it counted.     *)
LEMMA TickLimited ==
    ASSUME Limited, Tick, TypeOK' PROVE Limited'
<1>1. /\ now' = now + 1 /\ buckets' = buckets
      /\ \A c \in Clients : \A age \in Ages :
            recent'[c][age] = IF age = 0 THEN 0 ELSE recent[c][age - 1]
  BY DEF Tick
<1>2. Limit \in Nat /\ Window \in Nat /\ Window - 1 \in Ages /\ 0 \in Ages
      /\ \A n : n \in Ages <=> n \in Nat /\ n <= Window - 1
  BY GateAssumption DEF Ages
<1>3. \A c \in Clients : \A age \in Ages : recent[c][age] \in Nat /\ recent'[c][age] \in Nat
  BY DEF Limited, TypeOK
<1>4. now \in Nat /\ \A c \in Clients : buckets[c] # None => buckets[c].resetAt \in Nat
  BY GateAssumption DEF Limited, TypeOK, Time, Bucket
<1>5. Grows'
  <2> SUFFICES ASSUME NEW c \in Clients, NEW age \in Ages, age # 0
               PROVE  recent'[c][age - 1] <= recent'[c][age]
    BY DEF Grows
  <2>1. CASE age = 1 BY <1>1, <1>2, <1>3, <2>1
  <2>2. CASE age # 1
    <3>1. age - 1 \in Ages /\ age - 1 # 0 /\ age \in Nat /\ (age - 1) - 1 \in Ages
      BY <1>2, <2>2
    <3>2. recent[c][(age - 1) - 1] <= recent[c][age - 1] BY <3>1 DEF Limited, Grows
    <3> QED BY <1>1, <3>1, <3>2
  <2> QED BY <2>1, <2>2
<1>6. ASSUME NEW c \in Clients PROVE recent'[c][Window - 1] <= recent[c][Window - 1]
  <2>1. CASE Window - 1 = 0 BY <1>1, <1>2, <1>3, <2>1
  <2>2. CASE Window - 1 # 0
    <3>1. recent'[c][Window - 1] = recent[c][(Window - 1) - 1] BY <1>1, <1>2, <2>2
    <3>2. recent[c][(Window - 1) - 1] <= recent[c][Window - 1]
      BY <1>2, <2>2 DEF Limited, Grows
    <3> QED BY <3>1, <3>2
  <2> QED BY <2>1, <2>2
<1>7. ASSUME NEW c \in Clients PROVE Counted(c)'
  <2>1. recent'[c][Window - 1] \in Nat /\ recent[c][Window - 1] \in Nat
        /\ recent'[c][Window - 1] <= recent[c][Window - 1]
    BY <1>2, <1>3, <1>6
  <2>2. Counted(c) BY DEF Limited
  <2>3. recent'[c][0] = 0 BY <1>1, <1>2
  <2>4. CASE buckets[c] = None BY <1>1, <2>1, <2>2, <2>3, <2>4, <1>2 DEF Counted
  <2>5. CASE buckets[c] # None
    <3>1. Begun(c)' = Begun(c) + 1 /\ Begun(c) \in Nat
      <4>1. Begun(c) \in Nat BY <1>2, <2>2, <2>5 DEF Counted
      <4> QED BY <1>1, <1>2, <1>4, <2>5, <4>1 DEF Begun
    <3>2. CASE Begun(c) + 1 \in Ages
      <4>1. Begun(c) \in Ages BY <1>2, <3>1, <3>2
      <4>2. recent'[c][Begun(c) + 1] = recent[c][Begun(c)]
        <5>1. Begun(c) + 1 # 0 /\ (Begun(c) + 1) - 1 = Begun(c) BY <3>1
        <5> QED BY <1>1, <3>2, <5>1
      <4>3. recent[c][Begun(c)] \in Nat BY <1>3, <4>1
      <4>4. /\ recent[c][Begun(c)] <= buckets[c].count
            /\ recent[c][Begun(c)] <= Limit
            /\ recent[c][Window - 1] <= recent[c][Begun(c)] + Limit
        BY <2>2, <2>5, <4>1 DEF Counted
      <4>5. recent'[c][Window - 1] <= recent[c][Begun(c)] + Limit
        BY <1>2, <2>1, <4>3, <4>4
      <4> QED BY <1>1, <2>5, <3>1, <3>2, <4>2, <4>4, <4>5 DEF Counted
    <3>3. CASE Begun(c) + 1 \notin Ages
      <4>1. recent[c][Window - 1] <= Limit
        <5>1. CASE Begun(c) \in Ages
          <6>1. Begun(c) = Window - 1 BY <1>2, <3>1, <3>3, <5>1
          <6> QED BY <2>2, <2>5, <5>1, <6>1 DEF Counted
        <5>2. CASE Begun(c) \notin Ages BY <2>2, <2>5, <5>2 DEF Counted
        <5> QED BY <5>1, <5>2
      <4>2. recent'[c][Window - 1] <= Limit BY <1>2, <2>1, <4>1
      <4>3. Begun(c) + 1 \in Nat BY <3>1
      <4> QED BY <1>1, <2>3, <2>5, <3>1, <3>3, <4>2, <4>3 DEF Counted
    <3> QED BY <3>2, <3>3
  <2> QED BY <2>4, <2>5
<1> QED BY <1>5, <1>7 DEF Limited

(* A bucket that does not count any more was begun a window ago.           *)
LEMMA OverIsOld ==
    ASSUME Limited, NEW c \in Clients, buckets[c] # None, now >= buckets[c].resetAt
    PROVE  recent[c][0] = 0 /\ recent[c][Window - 1] <= Limit
<1>1. now \in Nat /\ buckets[c].resetAt \in Nat /\ Window \in Nat \ {0}
  BY GateAssumption DEF Limited, TypeOK, Time, Bucket
<1>2. Begun(c) \notin Ages
  <2>1. Begun(c) >= Window BY <1>1 DEF Begun
  <2>2. Begun(c) \in Int BY <1>1 DEF Begun
  <2> QED BY <1>1, <2>1, <2>2 DEF Ages
<1> QED BY <1>2 DEF Limited, Counted

(* Whom a check is not about loses a bucket at most.                       *)
LEMMA OthersLimited ==
    ASSUME Limited, NEW c \in Clients, Check(c), NEW d \in Clients, d # c, now' = now
    PROVE  Counted(d)'
<1>1. recent'[d] = recent[d] BY DEF Check, Limited, TypeOK
<1>2. buckets'[d] = buckets[d]
      \/ (buckets[d] # None /\ now >= buckets[d].resetAt /\ buckets'[d] = None)
  <2> DEFINE all == [buckets EXCEPT ![c] = Current(c)]
  <2>1. all[d] = buckets[d] BY DEF Limited, TypeOK
  <2>2. buckets' = all \/ buckets' = Pruned(all) BY DEF Check
  <2> HIDE DEF all
  <2>3. Pruned(all)[d] = all[d]
        \/ (all[d] # None /\ now >= all[d].resetAt /\ Pruned(all)[d] = None)
    BY DEF Pruned
  <2> QED BY <2>1, <2>2, <2>3
<1>3. CASE buckets'[d] = buckets[d] BY <1>1, <1>3 DEF Limited, Counted, Begun
<1>4. CASE buckets[d] # None /\ now >= buckets[d].resetAt /\ buckets'[d] = None
  BY <1>1, <1>4, OverIsOld DEF Counted
<1> QED BY <1>2, <1>3, <1>4

(* One that is let through is counted, in a bucket with room for it.       *)
LEMMA LetLimited ==
    ASSUME Limited, NEW c \in Clients, Check(c), Current(c).count <= Limit, now' = now
    PROVE  Counted(c)'
<1> DEFINE bucket == Current(c)
           all == [buckets EXCEPT ![c] = bucket]
<1>1. \A age \in Ages : recent'[c][age] = recent[c][age] + 1
  BY DEF Check, Limited, TypeOK
<1>2. Limit \in Nat \ {0} /\ Window \in Nat \ {0} /\ 0 \in Ages /\ Window - 1 \in Ages
      /\ now \in Nat /\ \A n : n \in Ages <=> n \in Nat /\ n <= Window - 1
  BY GateAssumption DEF Ages, Limited, TypeOK, Time
<1>3. \A age \in Ages : recent[c][age] \in Nat /\ recent[c][0] <= recent[c][0]
  BY <1>2 DEF Limited, TypeOK
<1>4. buckets'[c] = bucket
  <2>1. bucket.resetAt > now
    <3>1. CASE buckets[c] = None \/ now >= buckets[c].resetAt BY <1>2, <3>1 DEF Current
    <3>2. CASE ~(buckets[c] = None \/ now >= buckets[c].resetAt)
      <4>1. buckets[c] \in Bucket BY <3>2 DEF Limited, TypeOK
      <4>2. bucket.resetAt = buckets[c].resetAt /\ buckets[c].resetAt \in Nat
        BY <3>2, <4>1, GateAssumption DEF Current, Bucket
      <4> QED BY <1>2, <3>2, <4>2
    <3> QED BY <3>1, <3>2
  <2>2. buckets' = Pruned(all) BY DEF Check
  <2>3. all[c] = bucket BY DEF Limited, TypeOK
  <2>4. Pruned(all)[c] = all[c] \/ now >= all[c].resetAt BY DEF Pruned
  <2>5. bucket.resetAt \in Int
    <3>1. CASE buckets[c] = None \/ now >= buckets[c].resetAt BY <1>2, <3>1 DEF Current
    <3>2. CASE ~(buckets[c] = None \/ now >= buckets[c].resetAt)
      BY <3>2, GateAssumption DEF Current, Limited, TypeOK, Bucket
    <3> QED BY <3>1, <3>2
  <2> HIDE DEF bucket, all
  <2> QED BY <1>2, <2>1, <2>2, <2>3, <2>4, <2>5
<1>5. bucket # None BY CurrentTyped DEF Limited
<1>6. CASE buckets[c] = None \/ now >= buckets[c].resetAt
  <2>1. recent[c][Window - 1] <= Limit /\ recent[c][0] = 0
    BY <1>6, OverIsOld DEF Limited, Counted
  <2>2. bucket = [count |-> 1, resetAt |-> now + Window] BY <1>6 DEF Current
  <2>3. Begun(c)' = 0
    <3>1. Begun(c)' = now + Window - bucket.resetAt BY <1>4 DEF Begun
    <3> QED BY <1>2, <2>2, <3>1
  <2>4. /\ recent'[c][0] = 1
        /\ recent'[c][Window - 1] <= 1 + Limit
        /\ bucket.count = 1
    BY <1>1, <1>2, <1>3, <2>1, <2>2
  <2>5. 1 <= Limit BY <1>2
  <2> HIDE DEF bucket
  <2> QED BY <1>2, <1>4, <1>5, <2>3, <2>4, <2>5 DEF Counted
<1>7. CASE ~(buckets[c] = None \/ now >= buckets[c].resetAt)
  <2>1. buckets[c] \in Bucket BY <1>7 DEF Limited, TypeOK
  <2>2. /\ bucket.count = buckets[c].count + 1 /\ bucket.resetAt = buckets[c].resetAt
        /\ buckets[c].resetAt \in Nat /\ buckets[c].count \in Nat
    BY <1>7, <2>1, GateAssumption DEF Current, Bucket
  <2>3. Begun(c)' = Begun(c)
    <3>1. Begun(c)' = now + Window - bucket.resetAt BY <1>4 DEF Begun
    <3> QED BY <2>2, <3>1 DEF Begun
  <2>4. Begun(c) \in Ages
    <3>1. Begun(c) \in Int /\ Begun(c) < Window BY <1>2, <1>7, <2>2 DEF Begun
    <3>2. Begun(c) \in Nat BY <1>2, <1>7 DEF Limited, Counted
    <3> QED BY <1>2, <3>1, <3>2
  <2>5. /\ recent[c][Begun(c)] \in Nat /\ recent[c][Window - 1] \in Nat
        /\ recent'[c][Begun(c)] = recent[c][Begun(c)] + 1
        /\ recent'[c][Window - 1] = recent[c][Window - 1] + 1
    BY <1>1, <1>2, <1>3, <2>4
  <2>6. /\ recent[c][Begun(c)] <= buckets[c].count
        /\ recent[c][Window - 1] <= recent[c][Begun(c)] + Limit
    BY <1>7, <2>4 DEF Limited, Counted
  <2>7. /\ recent'[c][Begun(c)] <= bucket.count
        /\ recent'[c][Begun(c)] <= Limit
        /\ recent'[c][Window - 1] <= recent'[c][Begun(c)] + Limit
    BY <1>2, <2>2, <2>5, <2>6
  <2> HIDE DEF bucket
  <2> QED BY <1>4, <1>5, <2>3, <2>4, <2>7 DEF Counted
<1> QED BY <1>6, <1>7

(* One over the limit is not let through; its bucket counts it all the     *)
(* same.                                                                   *)
LEMMA OverLimited ==
    ASSUME Limited, NEW c \in Clients, Check(c), ~(Current(c).count <= Limit), now' = now
    PROVE  Counted(c)'
<1>1. recent' = recent /\ buckets'[c] = Current(c)
  BY DEF Check, Limited, TypeOK
<1>2. ~(buckets[c] = None \/ now >= buckets[c].resetAt)
  <2> SUFFICES ASSUME buckets[c] = None \/ now >= buckets[c].resetAt PROVE FALSE
    OBVIOUS
  <2>1. Current(c).count = 1 BY DEF Current
  <2> QED BY <2>1, GateAssumption
<1>3. buckets[c] \in Bucket BY <1>2 DEF Limited, TypeOK
<1>4. /\ Current(c).count = buckets[c].count + 1 /\ Current(c).resetAt = buckets[c].resetAt
      /\ buckets[c].count \in Nat
      /\ Current(c) # None
  <2>1. Current(c) # None BY CurrentTyped DEF Limited
  <2> QED BY <1>2, <1>3, <2>1, GateAssumption DEF Current, Bucket
<1>5. Begun(c)' = Begun(c) BY <1>1, <1>4 DEF Begun
<1>6. CASE Begun(c) \in Ages
  <2>1. recent[c][Begun(c)] \in Nat BY <1>6 DEF Limited, TypeOK
  <2>2. recent[c][Begun(c)] <= buckets[c].count + 1
    BY <1>2, <1>4, <1>6, <2>1 DEF Limited, Counted
  <2> QED BY <1>1, <1>2, <1>4, <1>5, <1>6, <2>2 DEF Limited, Counted
<1>7. CASE Begun(c) \notin Ages BY <1>1, <1>2, <1>4, <1>5, <1>7 DEF Limited, Counted
<1> QED BY <1>6, <1>7

LEMMA CheckLimited ==
    ASSUME Limited, NEW c \in Clients, Check(c), now' = now, TypeOK' PROVE Limited'
<1>1. \A d \in Clients : Counted(d)'
  BY OthersLimited, LetLimited, OverLimited
<1>2. Grows'
  <2>1. CASE Current(c).count <= Limit
    <3> SUFFICES ASSUME NEW d \in Clients, NEW age \in Ages \ {0}
                 PROVE  recent'[d][age - 1] <= recent'[d][age]
      BY DEF Grows
    <3>1. age - 1 \in Ages BY GateAssumption DEF Ages
    <3>2. recent[d][age - 1] <= recent[d][age] BY DEF Limited, Grows
    <3>3. recent[d][age - 1] \in Nat /\ recent[d][age] \in Nat
      BY <3>1 DEF Limited, TypeOK
    <3>4. CASE d = c
      <4>1. recent'[c][age - 1] = recent[c][age - 1] + 1 /\ recent'[c][age] = recent[c][age] + 1
        BY <2>1, <3>1 DEF Check, Limited, TypeOK
      <4> QED BY <3>2, <3>3, <3>4, <4>1
    <3>5. CASE d # c
      <4>1. recent'[d] = recent[d] BY <2>1, <3>5 DEF Check, Limited, TypeOK
      <4> QED BY <3>2, <4>1
    <3> QED BY <3>4, <3>5
  <2>2. CASE ~(Current(c).count <= Limit) BY <2>2 DEF Check, Limited, Grows
  <2> QED BY <2>1, <2>2
<1> QED BY <1>1, <1>2 DEF Limited

(* However a client's requests fall on the windows, and whatever clean-up  *)
(* other clients cause, no span as long as a window has more than twice    *)
(* the limit (InMemoryRateLimiter.check, prune).                           *)
THEOREM RateIsBounded == Spec => []WindowBound
<1>1. Init => Limited
  <2> SUFFICES ASSUME Init PROVE Limited OBVIOUS
  <2>1. TypeOK
    <3>1. now \in Time BY GateAssumption DEF Init, Time
    <3>2. recent \in [Clients -> [Ages -> Nat]] BY DEF Init
    <3> QED BY <3>1, <3>2 DEF Init, TypeOK
  <2>2. \A c \in Clients : \A age \in Ages : recent[c][age] = 0 BY DEF Init
  <2>3. \A age \in Ages \ {0} : age - 1 \in Ages BY GateAssumption DEF Ages
  <2>4. Grows BY <2>2, <2>3 DEF Grows
  <2>5. 0 \in Ages /\ Window - 1 \in Ages /\ 0 <= Limit BY GateAssumption DEF Ages
  <2>6. \A c \in Clients : Counted(c) BY <2>2, <2>5 DEF Init, Counted
  <2> QED BY <2>1, <2>4, <2>6 DEF Limited
<1>2. ASSUME Limited, TypeOK', [Next]_vars PROVE Limited'
  <2>1. CASE Tick BY <1>2, <2>1, TickLimited
  <2>2. ASSUME NEW s \in Slots, NEW c \in Clients, NEW r \in Asked, OnRequest(s, c, r)
        PROVE  Limited'
    <3>1. now' = now BY <2>2 DEF OnRequest
    <3>2. CASE Mutating(r) BY <1>2, <2>2, <3>1, <3>2, CheckLimited DEF OnRequest
    <3>3. CASE ~Mutating(r)
      <4>1. UNCHANGED <<now, buckets, recent>> BY <2>2, <3>1, <3>3 DEF OnRequest
      <4> QED BY <1>2, <4>1 DEF Limited, Grows, Counted, Begun
    <3> QED BY <3>2, <3>3
  <2>3. CASE UNCHANGED <<now, buckets, recent>>
    BY <1>2, <2>3 DEF Limited, Grows, Counted, Begun
  <2>4. ASSUME \/ \E s \in Slots : Serve(s)
               \/ \E name \in Signals : Signal(name)
               \/ Shutdown \/ ShutdownFails \/ UNCHANGED vars
        PROVE  UNCHANGED <<now, buckets, recent>>
    BY <2>4 DEF Serve, Refuse, Handle, PreHandler, Signal, Shutdown, ShutdownFails, CloseHttp,
                DisconnectPrisma, FlushLogs, ExitFailed, GoTo, vars
  <2> QED BY <1>2, <2>1, <2>2, <2>3, <2>4 DEF Next
<1> QED BY <1>1, <1>2, GateTyped, LimitedBounds, PTL DEF Spec

-----------------------------------------------------------------------------
(* The screens, and what a button tells.                                   *)

Hows == {"invalidate", "refetch"}

Row(tells) ==
    /\ Len(tells) \in Nat /\ DOMAIN tells = 1..Len(tells)
    /\ \A i \in DOMAIN tells : tells[i].how \in Hows /\ (i > 1 => tells[i].how = "invalidate")

(* One telling is a sequence of tellings, and so are two of which the      *)
(* second invalidates.                                                     *)
LEMMA TellingsInARow ==
    \A t, u : t.how \in Hows /\ u.how = "invalidate" => Row(<<t>>) /\ Row(<<t, u>>)
BY DEF Row, Hows

(* A telling invalidates or refetches.                                     *)
LEMMA TellingHows ==
    /\ \A qs : Invalidates(qs).how = "invalidate" /\ Refetches(qs).how = "refetch"
    /\ {"invalidate", "refetch"} \subseteq Hows
BY DEF Invalidates, Refetches, Hows

(* What a button tells the cache is a sequence of tellings.                *)
LEMMA ButtonTells ==
    ASSUME NEW b \in DOMAIN Buttons
    PROVE  Row(Buttons[b].tells)
<1>1. Row(SaveJob.tells)
  BY TellingsInARow, TellingHows DEF SaveJob, Button
<1>2. Row(RelateCandidate.tells)
  BY TellingsInARow, TellingHows DEF RelateCandidate, Button
<1>3. Row(AutomateRow.tells)
  BY TellingsInARow, TellingHows DEF AutomateRow, Button
<1>4. Row(Submit.tells)
  BY TellingsInARow, TellingHows DEF Submit, Button
<1>5. Row(ReviewJobField.tells)
  BY TellingsInARow, TellingHows DEF ReviewJobField, Button
<1>6. Row(MarkJobReady.tells)
  BY TellingsInARow, TellingHows DEF MarkJobReady, Button
<1>7. Row(CreateManual.tells)
  BY TellingsInARow, TellingHows DEF CreateManual, Button
<1>8. Row(CreateFromText.tells)
  BY TellingsInARow, TellingHows DEF CreateFromText, Button
<1>9. Row(CreateFromFile.tells)
  BY TellingsInARow, TellingHows DEF CreateFromFile, Button
<1>10. Row(Progress.tells)
  BY TellingsInARow, TellingHows DEF Progress, SubmissionButton, SubmissionTells, Button
<1>11. Row(Place.tells)
  BY TellingsInARow, TellingHows DEF Place, SubmissionButton, SubmissionTells, Button
<1>12. Row(CompleteInterview.tells)
  BY TellingsInARow, TellingHows
     DEF CompleteInterview, SubmissionButton, SubmissionTells, Unguarded, Button
<1>13. Row(DecideOffer.tells)
  BY TellingsInARow, TellingHows
     DEF DecideOffer, SubmissionButton, SubmissionTells, Unguarded, Button
<1>14. Row(SaveCandidate.tells)
  BY TellingsInARow, TellingHows DEF SaveCandidate, Button
<1>15. Row(RelateJob.tells)
  BY TellingsInARow, TellingHows DEF RelateJob, Button
<1>16. Row(UpdateStage.tells)
  BY TellingsInARow, TellingHows DEF UpdateStage, Unguarded, Button
<1>17. Row(PatchKnowledge.tells)
  BY TellingsInARow, TellingHows DEF PatchKnowledge, Button
<1>18. Row(AddEvidence.tells)
  BY TellingsInARow, TellingHows DEF AddEvidence, Button
<1>19. Row(ReviewField.tells)
  BY TellingsInARow, TellingHows DEF ReviewField, Button
<1>20. Row(MarkReady.tells)
  BY TellingsInARow, TellingHows DEF MarkReady, Button
<1>21. Row(ImportResume.tells)
  BY TellingsInARow, TellingHows DEF ImportResume, Button
<1> QED
  BY <1>1, <1>2, <1>3, <1>4, <1>5, <1>6, <1>7, <1>8, <1>9, <1>10, <1>11, <1>12, <1>13,
     <1>14, <1>15, <1>16, <1>17, <1>18, <1>19, <1>20, <1>21
     DEF Buttons

(* The tabs of a job, those of a candidate and the review are screens      *)
(* apart.                                                                  *)
LEMMA Apart ==
    /\ JobDetail \cap CandidateDetail = {}
    /\ "Review" \notin JobDetail \cup CandidateDetail
BY DEF JobDetail, CandidateDetail, JobTabs, CandidateTabs

(* A screen asks for what it stands on, the job or the candidate, itself.  *)
LEMMA MainIsQuery ==
    ASSUME NEW v \in DOMAIN QueriesOf
    PROVE  MainOf[v] \subseteq QueriesOf[v]
<1>1. CASE v \in JobDetail
  <2>1. "job" \in JobTabs[v]
    BY <1>1 DEF JobDetail, JobTabs
  <2>2. v \notin CandidateDetail /\ v # "Review"
    BY <1>1, Apart
  <2>3. QueriesOf[v] = JobTabs[v] /\ MainOf[v] = {"job"}
    BY <1>1, <2>2 DEF QueriesOf, MainOf
  <2> QED BY <2>1, <2>3
<1>2. CASE v \in CandidateDetail
  <2>1. "workspace" \in CandidateTabs[v]
    BY <1>2 DEF CandidateDetail, CandidateTabs
  <2>2. v \notin JobDetail /\ v # "Review"
    BY <1>2, Apart
  <2>3. QueriesOf[v] = CandidateTabs[v] /\ MainOf[v] = {"workspace"}
    BY <1>2, <2>2 DEF QueriesOf, MainOf
  <2> QED BY <2>1, <2>3
<1>3. CASE v = "Review"
  <2>1. v \notin JobDetail \cup CandidateDetail
    BY <1>3, Apart
  <2>2. "Review" \in DOMAIN OtherScreens /\ OtherScreens["Review"] = ReviewQueries
    BY DEF OtherScreens
  <2>3. QueriesOf[v] = ReviewQueries /\ MainOf[v] = {"review"}
    BY <1>3, <2>1, <2>2 DEF QueriesOf, MainOf
  <2> QED BY <2>3 DEF ReviewQueries
<1>4. CASE v \notin JobDetail \cup CandidateDetail \cup {"Review"}
  BY <1>4 DEF MainOf
<1> QED BY <1>1, <1>2, <1>3, <1>4

(* So what a followed query waits for is a query of a screen too.          *)
LEMMA DependsIsQueries ==
    ASSUME NEW q \in Queries
    PROVE  DependsOn(q) \subseteq Queries
<1>1. \A v \in DOMAIN QueriesOf : MainOf[v] \subseteq Queries
  BY MainIsQuery DEF Queries
<1> QED BY <1>1 DEF DependsOn

-----------------------------------------------------------------------------
(* The client's calls.                                                     *)

(* Each call of the client is in one table of the client's API module      *)
(* only.                                                                   *)
LEMMA ApiIs ==
    /\ \A f \in DOMAIN CandidateCalls : Api[f] = CandidateCalls[f]
    /\ \A f \in DOMAIN JobCalls : Api[f] = JobCalls[f]
    /\ \A f \in DOMAIN WorkCalls : Api[f] = WorkCalls[f]
    /\ \A f \in DOMAIN SubmissionCalls : Api[f] = SubmissionCalls[f]
    /\ \A f \in DOMAIN KnowledgeCalls : Api[f] = KnowledgeCalls[f]
<1>1. \A f \in DOMAIN CandidateCalls :
         f \notin UNION {DOMAIN JobCalls, DOMAIN WorkCalls, DOMAIN SubmissionCalls,
                         DOMAIN KnowledgeCalls}
  BY DEF CandidateCalls, JobCalls, WorkCalls, SubmissionCalls, KnowledgeCalls
<1>2. \A f \in DOMAIN JobCalls :
         f \notin UNION {DOMAIN CandidateCalls, DOMAIN WorkCalls, DOMAIN SubmissionCalls,
                         DOMAIN KnowledgeCalls}
  BY DEF CandidateCalls, JobCalls, WorkCalls, SubmissionCalls, KnowledgeCalls
<1>3. \A f \in DOMAIN WorkCalls :
         f \notin UNION {DOMAIN CandidateCalls, DOMAIN JobCalls, DOMAIN SubmissionCalls,
                         DOMAIN KnowledgeCalls}
  BY DEF CandidateCalls, JobCalls, WorkCalls, SubmissionCalls, KnowledgeCalls
<1>4. \A f \in DOMAIN SubmissionCalls :
         f \notin UNION {DOMAIN CandidateCalls, DOMAIN JobCalls, DOMAIN WorkCalls,
                         DOMAIN KnowledgeCalls}
  BY DEF CandidateCalls, JobCalls, WorkCalls, SubmissionCalls, KnowledgeCalls
<1>5. \A f \in DOMAIN KnowledgeCalls :
         f \notin UNION {DOMAIN CandidateCalls, DOMAIN JobCalls, DOMAIN WorkCalls,
                         DOMAIN SubmissionCalls}
  BY DEF CandidateCalls, JobCalls, WorkCalls, SubmissionCalls, KnowledgeCalls
<1> QED BY <1>1, <1>2, <1>3, <1>4, <1>5 DEF Api

(* The tables each of the reading calls of the screens is answered from,   *)
(* by the route that serves it.                                            *)
LEMMA Read ==
    /\ Reads("getJob") \subseteq {"job"}
    /\ Reads("listJobs") \subseteq {"job"}
    /\ Reads("getJobReview") \subseteq {"job"}
    /\ Reads("getJobPipeline") \subseteq {"submission"}
    /\ Reads("getJobSubmissions") \subseteq {"job", "submission", "candidate"}
    /\ Reads("getJobActivities") \subseteq {"activity"}
    /\ Reads("getJobMatches") \subseteq {"job", "candidate"}
    /\ Reads("listJobRelationships") \subseteq {"job", "relationship", "candidate"}
    /\ Reads("listCandidateRelationships") \subseteq {"job", "relationship", "candidate"}
    /\ Reads("listCandidates") \subseteq {"candidate"}
    /\ Reads("getWorkspace") \subseteq {"candidate"}
    /\ Reads("getReview") \subseteq {"candidate", "resume"}
    /\ Reads("getCandidateKnowledge") \subseteq {"knowledge"}
    /\ Reads("getKnowledgeHistory") \subseteq {"knowledge"}
    /\ Reads("getAnalyticsOverview") \subseteq {"candidate", "job", "relationship"}
    /\ Reads("getJobAnalytics") \subseteq {"candidate", "job", "relationship"}
    /\ Reads("getSubmission") \subseteq {"submission", "candidate", "job", "interview",
                                         "offer", "activity"}
    /\ Reads("listSubmissions") \subseteq {"submission", "candidate", "job"}
<1>1. Reads("getJob") \subseteq {"job"}
  <2>1. Api["getJob"] = Call("GET", <<"jobs", Param>>)
    BY ApiIs DEF JobCalls
  <2>2. \A r \in AllRoutes :
           r.method = "GET" /\ r.path = <<"jobs", Param>> => r.reads \subseteq {"job"}
    BY RoutesBegin
       DEF JobPaths, JobRoutes, JobReviewRoutes, InsightRoutes, PlacementRoutes,
           RelationshipRoutes, Get, On, Param
  <2> QED BY <2>1, <2>2 DEF Reads, Served, Call
<1>2. Reads("listJobs") \subseteq {"job"}
  <2>1. Api["listJobs"] = Call("GET", <<"jobs">>)
    BY ApiIs DEF JobCalls
  <2>2. \A r \in AllRoutes :
           r.method = "GET" /\ r.path = <<"jobs">> => r.reads \subseteq {"job"}
    BY RoutesBegin
       DEF JobPaths, JobRoutes, JobReviewRoutes, InsightRoutes, PlacementRoutes,
           RelationshipRoutes, Get, On, Param
  <2> QED BY <2>1, <2>2 DEF Reads, Served, Call
<1>3. Reads("getJobReview") \subseteq {"job"}
  <2>1. Api["getJobReview"] = Call("GET", <<"jobs", Param, "review">>)
    BY ApiIs DEF JobCalls
  <2>2. \A r \in AllRoutes :
           r.method = "GET" /\ r.path = <<"jobs", Param, "review">>
              => r.reads \subseteq {"job"}
    BY RoutesBegin
       DEF JobPaths, JobRoutes, JobReviewRoutes, InsightRoutes, PlacementRoutes,
           RelationshipRoutes, Get, On, Param
  <2> QED BY <2>1, <2>2 DEF Reads, Served, Call
<1>4. Reads("getJobPipeline") \subseteq {"submission"}
  <2>1. Api["getJobPipeline"] = Call("GET", <<"jobs", Param, "pipeline">>)
    BY ApiIs DEF SubmissionCalls
  <2>2. \A r \in AllRoutes :
           r.method = "GET" /\ r.path = <<"jobs", Param, "pipeline">>
              => r.reads \subseteq {"submission"}
    BY RoutesBegin
       DEF JobPaths, JobRoutes, JobReviewRoutes, InsightRoutes, PlacementRoutes,
           RelationshipRoutes, Get, On, Param
  <2> QED BY <2>1, <2>2 DEF Reads, Served, Call
<1>5. Reads("getJobSubmissions") \subseteq {"job", "submission", "candidate"}
  <2>1. Api["getJobSubmissions"] = Call("GET", <<"jobs", Param, "submissions">>)
    BY ApiIs DEF SubmissionCalls
  <2>2. \A r \in AllRoutes :
           r.method = "GET" /\ r.path = <<"jobs", Param, "submissions">>
              => r.reads \subseteq {"job", "submission", "candidate"}
    BY RoutesBegin
       DEF JobPaths, JobRoutes, JobReviewRoutes, InsightRoutes, PlacementRoutes,
           RelationshipRoutes, Get, On, Param
  <2> QED BY <2>1, <2>2 DEF Reads, Served, Call
<1>6. Reads("getJobActivities") \subseteq {"activity"}
  <2>1. Api["getJobActivities"] = Call("GET", <<"jobs", Param, "activities">>)
    BY ApiIs DEF SubmissionCalls
  <2>2. \A r \in AllRoutes :
           r.method = "GET" /\ r.path = <<"jobs", Param, "activities">>
              => r.reads \subseteq {"activity"}
    BY RoutesBegin
       DEF JobPaths, JobRoutes, JobReviewRoutes, InsightRoutes, PlacementRoutes,
           RelationshipRoutes, Get, On, Param
  <2> QED BY <2>1, <2>2 DEF Reads, Served, Call
<1>7. Reads("getJobMatches") \subseteq {"job", "candidate"}
  <2>1. Api["getJobMatches"] = Call("GET", <<"jobs", Param, "matches">>)
    BY ApiIs DEF JobCalls
  <2>2. \A r \in AllRoutes :
           r.method = "GET" /\ r.path = <<"jobs", Param, "matches">>
              => r.reads \subseteq {"job", "candidate"}
    BY RoutesBegin
       DEF JobPaths, JobRoutes, JobReviewRoutes, InsightRoutes, PlacementRoutes,
           RelationshipRoutes, Get, On, Param
  <2> QED BY <2>1, <2>2 DEF Reads, Served, Call
<1>8. Reads("listJobRelationships") \subseteq {"job", "relationship", "candidate"}
  <2>1. Api["listJobRelationships"] = Call("GET", <<"jobs", Param, "relationships">>)
    BY ApiIs DEF JobCalls
  <2>2. \A r \in AllRoutes :
           r.method = "GET" /\ r.path = <<"jobs", Param, "relationships">>
              => r.reads \subseteq {"job", "relationship", "candidate"}
    BY RoutesBegin
       DEF JobPaths, JobRoutes, JobReviewRoutes, InsightRoutes, PlacementRoutes,
           RelationshipRoutes, Get, On, Param
  <2> QED BY <2>1, <2>2 DEF Reads, Served, Call
<1>9. Reads("listCandidateRelationships") \subseteq {"job", "relationship", "candidate"}
  <2>1. Api["listCandidateRelationships"] = Call("GET", <<"candidates", Param, "relationships">>)
    BY ApiIs DEF JobCalls
  <2>2. \A r \in AllRoutes :
           r.method = "GET" /\ r.path = <<"candidates", Param, "relationships">>
              => r.reads \subseteq {"job", "relationship", "candidate"}
    BY RoutesBegin
       DEF CandidatePaths, CandidateRoutes, ResumeRoutes, ReviewRoutes, VerifyRoutes,
           InsightRoutes, RelationshipRoutes, Get, On, Param
  <2> QED BY <2>1, <2>2 DEF Reads, Served, Call
<1>10. Reads("listCandidates") \subseteq {"candidate"}
  <2>1. Api["listCandidates"] = Call("GET", <<"candidates">>)
    BY ApiIs DEF CandidateCalls
  <2>2. \A r \in AllRoutes :
           r.method = "GET" /\ r.path = <<"candidates">> => r.reads \subseteq {"candidate"}
    BY RoutesBegin
       DEF CandidatePaths, CandidateRoutes, ResumeRoutes, ReviewRoutes, VerifyRoutes,
           InsightRoutes, RelationshipRoutes, Get, On, Param
  <2> QED BY <2>1, <2>2 DEF Reads, Served, Call
<1>11. Reads("getWorkspace") \subseteq {"candidate"}
  <2>1. Api["getWorkspace"] = Call("GET", <<"candidates", Param>>)
    BY ApiIs DEF CandidateCalls
  <2>2. \A r \in AllRoutes :
           r.method = "GET" /\ r.path = <<"candidates", Param>>
              => r.reads \subseteq {"candidate"}
    BY RoutesBegin
       DEF CandidatePaths, CandidateRoutes, ResumeRoutes, ReviewRoutes, VerifyRoutes,
           InsightRoutes, RelationshipRoutes, Get, On, Param
  <2> QED BY <2>1, <2>2 DEF Reads, Served, Call
<1>12. Reads("getReview") \subseteq {"candidate", "resume"}
  <2>1. Api["getReview"] = Call("GET", <<"candidates", Param, "review">>)
    BY ApiIs DEF CandidateCalls
  <2>2. \A r \in AllRoutes :
           r.method = "GET" /\ r.path = <<"candidates", Param, "review">>
              => r.reads \subseteq {"candidate", "resume"}
    BY RoutesBegin
       DEF CandidatePaths, CandidateRoutes, ResumeRoutes, ReviewRoutes, VerifyRoutes,
           InsightRoutes, RelationshipRoutes, Get, On, Param
  <2> QED BY <2>1, <2>2 DEF Reads, Served, Call
<1>13. Reads("getCandidateKnowledge") \subseteq {"knowledge"}
  <2>1. Api["getCandidateKnowledge"] = Call("GET", <<"knowledge", Param>>)
    BY ApiIs DEF KnowledgeCalls
  <2>2. \A r \in AllRoutes :
           r.method = "GET" /\ r.path = <<"knowledge", Param>>
              => r.reads \subseteq {"knowledge"}
    BY RoutesBegin DEF KnowledgePaths, KnowledgeRoutes, Get, On, Param
  <2> QED BY <2>1, <2>2 DEF Reads, Served, Call
<1>14. Reads("getKnowledgeHistory") \subseteq {"knowledge"}
  <2>1. Api["getKnowledgeHistory"] = Call("GET", <<"knowledge", Param, "history">>)
    BY ApiIs DEF KnowledgeCalls
  <2>2. \A r \in AllRoutes :
           r.method = "GET" /\ r.path = <<"knowledge", Param, "history">>
              => r.reads \subseteq {"knowledge"}
    BY RoutesBegin DEF KnowledgePaths, KnowledgeRoutes, Get, On, Param
  <2> QED BY <2>1, <2>2 DEF Reads, Served, Call
<1>15. Reads("getAnalyticsOverview") \subseteq {"candidate", "job", "relationship"}
  <2>1. Api["getAnalyticsOverview"] = Call("GET", <<"analytics", "overview">>)
    BY ApiIs DEF WorkCalls
  <2>2. \A r \in AllRoutes :
           r.method = "GET" /\ r.path = <<"analytics", "overview">>
              => r.reads \subseteq {"candidate", "job", "relationship"}
    BY RoutesBegin DEF AnalyticsPaths, AnalyticsRoutes, Get, On, Param
  <2> QED BY <2>1, <2>2 DEF Reads, Served, Call
<1>16. Reads("getJobAnalytics") \subseteq {"candidate", "job", "relationship"}
  <2>1. Api["getJobAnalytics"] = Call("GET", <<"analytics", "jobs", Param>>)
    BY ApiIs DEF WorkCalls
  <2>2. \A r \in AllRoutes :
           r.method = "GET" /\ r.path = <<"analytics", "jobs", Param>>
              => r.reads \subseteq {"candidate", "job", "relationship"}
    BY RoutesBegin DEF AnalyticsPaths, AnalyticsRoutes, Get, On, Param
  <2> QED BY <2>1, <2>2 DEF Reads, Served, Call
<1>17. Reads("getSubmission") \subseteq {"submission", "candidate", "job", "interview",
                                         "offer", "activity"}
  <2>1. Api["getSubmission"] = Call("GET", <<"submissions", Param>>)
    BY ApiIs DEF SubmissionCalls
  <2>2. \A r \in AllRoutes :
           r.method = "GET" /\ r.path = <<"submissions", Param>>
              => r.reads \subseteq {"submission", "candidate", "job", "interview",
                                     "offer", "activity"}
    BY RoutesBegin
       DEF SubmissionPaths, SubmissionRoutes, PlacementRoutes, InsightRoutes, Get, On, Param
  <2> QED BY <2>1, <2>2 DEF Reads, Served, Call
<1>18. Reads("listSubmissions") \subseteq {"submission", "candidate", "job"}
  <2>1. Api["listSubmissions"] = Call("GET", <<"submissions">>)
    BY ApiIs DEF SubmissionCalls
  <2>2. \A r \in AllRoutes :
           r.method = "GET" /\ r.path = <<"submissions">>
              => r.reads \subseteq {"submission", "candidate", "job"}
    BY RoutesBegin
       DEF SubmissionPaths, SubmissionRoutes, PlacementRoutes, InsightRoutes, Get, On, Param
  <2> QED BY <2>1, <2>2 DEF Reads, Served, Call
<1> QED BY <1>1, <1>2, <1>3, <1>4, <1>5, <1>6, <1>7, <1>8, <1>9, <1>10, <1>11, <1>12,
         <1>13, <1>14, <1>15, <1>16, <1>17, <1>18

(* The tables each of the calls of the buttons writes, by the route that   *)
(* serves it.                                                              *)
LEMMA Written ==
    /\ Writes("updateJob") \subseteq {"job"}
    /\ Writes("createJobManual") \subseteq {"job", "activity"}
    /\ Writes("createJobFromText") \subseteq {"job", "activity"}
    /\ Writes("createJobFromFile") \subseteq {"job", "activity"}
    /\ Writes("reviewJobField") \subseteq {"job"}
    /\ Writes("markJobReady") \subseteq {"job"}
    /\ Writes("submitCandidate") \subseteq {"submission", "job", "activity"}
    /\ Writes("createRelationship") \subseteq {"relationship"}
    /\ Writes("updateRelationshipStage") \subseteq {"relationship", "notification", "audit"}
    /\ Writes("automationStageMove") \subseteq {"relationship", "action", "notification",
                                                "audit"}
    /\ Writes("automationAssign") \subseteq {"relationship", "action", "notification",
                                             "audit"}
    /\ Writes("updateSubmissionStatus") \subseteq {"submission", "activity"}
    /\ Writes("rejectSubmission") \subseteq {"submission", "activity"}
    /\ Writes("withdrawSubmission") \subseteq {"submission", "activity"}
    /\ Writes("scheduleInterview") \subseteq {"submission", "interview", "activity"}
    /\ Writes("createOffer") \subseteq {"submission", "offer", "activity"}
    /\ Writes("markPlaced") \subseteq {"submission", "job", "activity", "knowledge"}
    /\ Writes("completeInterview") \subseteq {"submission", "interview", "activity",
                                              "knowledge"}
    /\ Writes("updateOfferStatus") \subseteq {"submission", "offer", "activity",
                                              "knowledge"}
    /\ Writes("updateWorkspace") \subseteq {"candidate"}
    /\ Writes("reviewField") \subseteq {"candidate", "knowledge"}
    /\ Writes("markReady") \subseteq {"candidate", "knowledge", "session"}
    /\ Writes("importResume") \subseteq {"candidate", "resume", "knowledge"}
    /\ Writes("patchKnowledge") \subseteq {"knowledge"}
    /\ Writes("addKnowledgeEvidence") \subseteq {"knowledge"}
<1>1. Writes("updateJob") \subseteq {"job"}
  <2>1. Api["updateJob"] = Call("PATCH", <<"jobs", Param>>)
    BY ApiIs DEF JobCalls
  <2>2. \A r \in AllRoutes :
           r.method = "PATCH" /\ r.path = <<"jobs", Param>> => r.writes \subseteq {"job"}
    BY RoutesBegin
       DEF JobPaths, JobRoutes, JobReviewRoutes, InsightRoutes, PlacementRoutes,
           RelationshipRoutes, Get, On, Param
  <2> QED BY <2>1, <2>2 DEF Writes, Served, Call
<1>2. Writes("createJobManual") \subseteq {"job", "activity"}
  <2>1. Api["createJobManual"] = Call("POST", <<"jobs">>)
    BY ApiIs DEF JobCalls
  <2>2. \A r \in AllRoutes :
           r.method = "POST" /\ r.path = <<"jobs">>
              => r.writes \subseteq {"job", "activity"}
    BY RoutesBegin
       DEF JobPaths, JobRoutes, JobReviewRoutes, InsightRoutes, PlacementRoutes,
           RelationshipRoutes, Get, On, Param
  <2> QED BY <2>1, <2>2 DEF Writes, Served, Call
<1>3. Writes("createJobFromText") \subseteq {"job", "activity"}
  <2>1. Api["createJobFromText"] = Call("POST", <<"jobs">>)
    BY ApiIs DEF JobCalls
  <2>2. \A r \in AllRoutes :
           r.method = "POST" /\ r.path = <<"jobs">>
              => r.writes \subseteq {"job", "activity"}
    BY RoutesBegin
       DEF JobPaths, JobRoutes, JobReviewRoutes, InsightRoutes, PlacementRoutes,
           RelationshipRoutes, Get, On, Param
  <2> QED BY <2>1, <2>2 DEF Writes, Served, Call
<1>4. Writes("createJobFromFile") \subseteq {"job", "activity"}
  <2>1. Api["createJobFromFile"] = Call("POST", <<"jobs">>)
    BY ApiIs DEF JobCalls
  <2>2. \A r \in AllRoutes :
           r.method = "POST" /\ r.path = <<"jobs">>
              => r.writes \subseteq {"job", "activity"}
    BY RoutesBegin
       DEF JobPaths, JobRoutes, JobReviewRoutes, InsightRoutes, PlacementRoutes,
           RelationshipRoutes, Get, On, Param
  <2> QED BY <2>1, <2>2 DEF Writes, Served, Call
<1>5. Writes("reviewJobField") \subseteq {"job"}
  <2>1. Api["reviewJobField"] = Call("POST", <<"jobs", Param, "review">>)
    BY ApiIs DEF JobCalls
  <2>2. \A r \in AllRoutes :
           r.method = "POST" /\ r.path = <<"jobs", Param, "review">>
              => r.writes \subseteq {"job"}
    BY RoutesBegin
       DEF JobPaths, JobRoutes, JobReviewRoutes, InsightRoutes, PlacementRoutes,
           RelationshipRoutes, Get, On, Param
  <2> QED BY <2>1, <2>2 DEF Writes, Served, Call
<1>6. Writes("markJobReady") \subseteq {"job"}
  <2>1. Api["markJobReady"] = Call("POST", <<"jobs", Param, "mark-ready">>)
    BY ApiIs DEF JobCalls
  <2>2. \A r \in AllRoutes :
           r.method = "POST" /\ r.path = <<"jobs", Param, "mark-ready">>
              => r.writes \subseteq {"job"}
    BY RoutesBegin
       DEF JobPaths, JobRoutes, JobReviewRoutes, InsightRoutes, PlacementRoutes,
           RelationshipRoutes, Get, On, Param
  <2> QED BY <2>1, <2>2 DEF Writes, Served, Call
<1>7. Writes("submitCandidate") \subseteq {"submission", "job", "activity"}
  <2>1. Api["submitCandidate"] = Call("POST", <<"jobs", Param, "submissions">>)
    BY ApiIs DEF SubmissionCalls
  <2>2. \A r \in AllRoutes :
           r.method = "POST" /\ r.path = <<"jobs", Param, "submissions">>
              => r.writes \subseteq {"submission", "job", "activity"}
    BY RoutesBegin
       DEF JobPaths, JobRoutes, JobReviewRoutes, InsightRoutes, PlacementRoutes,
           RelationshipRoutes, Get, On, Param
  <2> QED BY <2>1, <2>2 DEF Writes, Served, Call
<1>8. Writes("createRelationship") \subseteq {"relationship"}
  <2>1. Api["createRelationship"] = Call("POST", <<"relationships">>)
    BY ApiIs DEF JobCalls
  <2>2. \A r \in AllRoutes :
           r.method = "POST" /\ r.path = <<"relationships">>
              => r.writes \subseteq {"relationship"}
    BY RoutesBegin DEF RelationshipPaths, RelationshipRoutes, Get, On, Param
  <2> QED BY <2>1, <2>2 DEF Writes, Served, Call
<1>9. Writes("updateRelationshipStage") \subseteq {"relationship", "notification", "audit"}
  <2>1. Api["updateRelationshipStage"] = Call("PATCH", <<"relationships", Param>>)
    BY ApiIs DEF JobCalls
  <2>2. \A r \in AllRoutes :
           r.method = "PATCH" /\ r.path = <<"relationships", Param>>
              => r.writes \subseteq {"relationship", "notification", "audit"}
    BY RoutesBegin DEF RelationshipPaths, RelationshipRoutes, Get, On, Param
  <2> QED BY <2>1, <2>2 DEF Writes, Served, Call
<1>10. Writes("automationStageMove") \subseteq {"relationship", "action", "notification",
                                                "audit"}
  <2>1. Api["automationStageMove"] = Call("POST", <<"automation", "stage-move">>)
    BY ApiIs DEF WorkCalls
  <2>2. \A r \in AllRoutes :
           r.method = "POST" /\ r.path = <<"automation", "stage-move">>
              => r.writes \subseteq {"relationship", "action", "notification", "audit"}
    BY RoutesBegin DEF AutomationPaths, AutomationRoutes, Get, On, Param
  <2> QED BY <2>1, <2>2 DEF Writes, Served, Call
<1>11. Writes("automationAssign") \subseteq {"relationship", "action", "notification",
                                             "audit"}
  <2>1. Api["automationAssign"] = Call("POST", <<"automation", "assign">>)
    BY ApiIs DEF WorkCalls
  <2>2. \A r \in AllRoutes :
           r.method = "POST" /\ r.path = <<"automation", "assign">>
              => r.writes \subseteq {"relationship", "action", "notification", "audit"}
    BY RoutesBegin DEF AutomationPaths, AutomationRoutes, Get, On, Param
  <2> QED BY <2>1, <2>2 DEF Writes, Served, Call
<1>12. Writes("updateSubmissionStatus") \subseteq {"submission", "activity"}
  <2>1. Api["updateSubmissionStatus"] = Call("PATCH", <<"submissions", Param, "status">>)
    BY ApiIs DEF SubmissionCalls
  <2>2. \A r \in AllRoutes :
           r.method = "PATCH" /\ r.path = <<"submissions", Param, "status">>
              => r.writes \subseteq {"submission", "activity"}
    BY RoutesBegin
       DEF SubmissionPaths, SubmissionRoutes, PlacementRoutes, InsightRoutes, Get, On, Param
  <2> QED BY <2>1, <2>2 DEF Writes, Served, Call
<1>13. Writes("rejectSubmission") \subseteq {"submission", "activity"}
  <2>1. Api["rejectSubmission"] = Call("POST", <<"submissions", Param, "reject">>)
    BY ApiIs DEF SubmissionCalls
  <2>2. \A r \in AllRoutes :
           r.method = "POST" /\ r.path = <<"submissions", Param, "reject">>
              => r.writes \subseteq {"submission", "activity"}
    BY RoutesBegin
       DEF SubmissionPaths, SubmissionRoutes, PlacementRoutes, InsightRoutes, Get, On, Param
  <2> QED BY <2>1, <2>2 DEF Writes, Served, Call
<1>14. Writes("withdrawSubmission") \subseteq {"submission", "activity"}
  <2>1. Api["withdrawSubmission"] = Call("POST", <<"submissions", Param, "withdraw">>)
    BY ApiIs DEF SubmissionCalls
  <2>2. \A r \in AllRoutes :
           r.method = "POST" /\ r.path = <<"submissions", Param, "withdraw">>
              => r.writes \subseteq {"submission", "activity"}
    BY RoutesBegin
       DEF SubmissionPaths, SubmissionRoutes, PlacementRoutes, InsightRoutes, Get, On, Param
  <2> QED BY <2>1, <2>2 DEF Writes, Served, Call
<1>15. Writes("scheduleInterview") \subseteq {"submission", "interview", "activity"}
  <2>1. Api["scheduleInterview"] = Call("POST", <<"submissions", Param, "interviews">>)
    BY ApiIs DEF SubmissionCalls
  <2>2. \A r \in AllRoutes :
           r.method = "POST" /\ r.path = <<"submissions", Param, "interviews">>
              => r.writes \subseteq {"submission", "interview", "activity"}
    BY RoutesBegin
       DEF SubmissionPaths, SubmissionRoutes, PlacementRoutes, InsightRoutes, Get, On, Param
  <2> QED BY <2>1, <2>2 DEF Writes, Served, Call
<1>16. Writes("createOffer") \subseteq {"submission", "offer", "activity"}
  <2>1. Api["createOffer"] = Call("POST", <<"submissions", Param, "offers">>)
    BY ApiIs DEF SubmissionCalls
  <2>2. \A r \in AllRoutes :
           r.method = "POST" /\ r.path = <<"submissions", Param, "offers">>
              => r.writes \subseteq {"submission", "offer", "activity"}
    BY RoutesBegin
       DEF SubmissionPaths, SubmissionRoutes, PlacementRoutes, InsightRoutes, Get, On, Param
  <2> QED BY <2>1, <2>2 DEF Writes, Served, Call
<1>17. Writes("markPlaced") \subseteq {"submission", "job", "activity", "knowledge"}
  <2>1. Api["markPlaced"] = Call("POST", <<"submissions", Param, "place">>)
    BY ApiIs DEF SubmissionCalls
  <2>2. \A r \in AllRoutes :
           r.method = "POST" /\ r.path = <<"submissions", Param, "place">>
              => r.writes \subseteq {"submission", "job", "activity", "knowledge"}
    BY RoutesBegin
       DEF SubmissionPaths, SubmissionRoutes, PlacementRoutes, InsightRoutes, Get, On, Param
  <2> QED BY <2>1, <2>2 DEF Writes, Served, Call
<1>18. Writes("completeInterview") \subseteq {"submission", "interview", "activity",
                                              "knowledge"}
  <2>1. Api["completeInterview"] = Call("POST", <<"interviews", Param, "complete">>)
    BY ApiIs DEF SubmissionCalls
  <2>2. \A r \in AllRoutes :
           r.method = "POST" /\ r.path = <<"interviews", Param, "complete">>
              => r.writes \subseteq {"submission", "interview", "activity", "knowledge"}
    BY RoutesBegin DEF InterviewPaths, SubmissionRoutes, InsightRoutes, Get, On, Param
  <2> QED BY <2>1, <2>2 DEF Writes, Served, Call
<1>19. Writes("updateOfferStatus") \subseteq {"submission", "offer", "activity",
                                              "knowledge"}
  <2>1. Api["updateOfferStatus"] = Call("POST", <<"offers", Param, "status">>)
    BY ApiIs DEF SubmissionCalls
  <2>2. \A r \in AllRoutes :
           r.method = "POST" /\ r.path = <<"offers", Param, "status">>
              => r.writes \subseteq {"submission", "offer", "activity", "knowledge"}
    BY RoutesBegin DEF OfferPaths, PlacementRoutes, Get, On, Param
  <2> QED BY <2>1, <2>2 DEF Writes, Served, Call
<1>20. Writes("updateWorkspace") \subseteq {"candidate"}
  <2>1. Api["updateWorkspace"] = Call("PATCH", <<"candidates", Param>>)
    BY ApiIs DEF CandidateCalls
  <2>2. \A r \in AllRoutes :
           r.method = "PATCH" /\ r.path = <<"candidates", Param>>
              => r.writes \subseteq {"candidate"}
    BY RoutesBegin
       DEF CandidatePaths, CandidateRoutes, ResumeRoutes, ReviewRoutes, VerifyRoutes,
           InsightRoutes, RelationshipRoutes, Get, On, Param
  <2> QED BY <2>1, <2>2 DEF Writes, Served, Call
<1>21. Writes("reviewField") \subseteq {"candidate", "knowledge"}
  <2>1. Api["reviewField"] = Call("POST", <<"candidates", Param, "knowledge", "review">>)
    BY ApiIs DEF CandidateCalls
  <2>2. \A r \in AllRoutes :
           r.method = "POST" /\ r.path = <<"candidates", Param, "knowledge", "review">>
              => r.writes \subseteq {"candidate", "knowledge"}
    BY RoutesBegin
       DEF CandidatePaths, CandidateRoutes, ResumeRoutes, ReviewRoutes, VerifyRoutes,
           InsightRoutes, RelationshipRoutes, Get, On, Param
  <2> QED BY <2>1, <2>2 DEF Writes, Served, Call
<1>22. Writes("markReady") \subseteq {"candidate", "knowledge", "session"}
  <2>1. Api["markReady"] = Call("POST", <<"candidates", Param, "mark-ready">>)
    BY ApiIs DEF CandidateCalls
  <2>2. \A r \in AllRoutes :
           r.method = "POST" /\ r.path = <<"candidates", Param, "mark-ready">>
              => r.writes \subseteq {"candidate", "knowledge", "session"}
    BY RoutesBegin
       DEF CandidatePaths, CandidateRoutes, ResumeRoutes, ReviewRoutes, VerifyRoutes,
           InsightRoutes, RelationshipRoutes, Get, On, Param
  <2> QED BY <2>1, <2>2 DEF Writes, Served, Call
<1>23. Writes("importResume") \subseteq {"candidate", "resume", "knowledge"}
  <2>1. Api["importResume"] = Call("POST", <<"candidates", "import-resume">>)
    BY ApiIs DEF CandidateCalls
  <2>2. \A r \in AllRoutes :
           r.method = "POST" /\ r.path = <<"candidates", "import-resume">>
              => r.writes \subseteq {"candidate", "resume", "knowledge"}
    BY RoutesBegin
       DEF CandidatePaths, CandidateRoutes, ResumeRoutes, ReviewRoutes, VerifyRoutes,
           InsightRoutes, RelationshipRoutes, Get, On, Param
  <2> QED BY <2>1, <2>2 DEF Writes, Served, Call
<1>24. Writes("patchKnowledge") \subseteq {"knowledge"}
  <2>1. Api["patchKnowledge"] = Call("PATCH", <<"knowledge", Param>>)
    BY ApiIs DEF KnowledgeCalls
  <2>2. \A r \in AllRoutes :
           r.method = "PATCH" /\ r.path = <<"knowledge", Param>>
              => r.writes \subseteq {"knowledge"}
    BY RoutesBegin DEF KnowledgePaths, KnowledgeRoutes, Get, On, Param
  <2> QED BY <2>1, <2>2 DEF Writes, Served, Call
<1>25. Writes("addKnowledgeEvidence") \subseteq {"knowledge"}
  <2>1. Api["addKnowledgeEvidence"] = Call("POST", <<"knowledge", Param, "evidence">>)
    BY ApiIs DEF KnowledgeCalls
  <2>2. \A r \in AllRoutes :
           r.method = "POST" /\ r.path = <<"knowledge", Param, "evidence">>
              => r.writes \subseteq {"knowledge"}
    BY RoutesBegin DEF KnowledgePaths, KnowledgeRoutes, Get, On, Param
  <2> QED BY <2>1, <2>2 DEF Writes, Served, Call
<1> QED BY <1>1, <1>2, <1>3, <1>4, <1>5, <1>6, <1>7, <1>8, <1>9, <1>10, <1>11, <1>12,
         <1>13, <1>14, <1>15, <1>16, <1>17, <1>18, <1>19, <1>20, <1>21, <1>22, <1>23,
         <1>24, <1>25

-----------------------------------------------------------------------------
(* The queries: which can show a write to a table.                         *)

QueryNames ==
    {"job", "jobs", "jobs-for-rel", "job-review", "job-pipeline", "job-submissions",
     "job-activities", "job-matches", "job-relationships", "job-relationships-of-stage",
     "candidate-relationships", "candidates-for-rel", "search", "inbox", "candidates",
     "knowledge-history", "analytics-overview", "job-analytics", "submission", "submissions",
     "workspace", "knowledge", "review"}

(* The queries of the screens, as the keys of their useQuery calls.        *)
LEMMA QueriesAre == Queries \subseteq QueryNames
<1>1. \A v \in JobDetail : QueriesOf[v] \subseteq QueryNames
  <2>1. \A v \in JobDetail : JobTabs[v] \subseteq QueryNames
    BY DEF JobDetail, JobTabs, StageFilters, AllStages, QueryNames
  <2> QED BY <2>1, Apart DEF QueriesOf
<1>2. \A v \in CandidateDetail : QueriesOf[v] \subseteq QueryNames
  <2>1. \A v \in CandidateDetail : CandidateTabs[v] \subseteq QueryNames
    BY DEF CandidateDetail, CandidateTabs, QueryNames
  <2> QED BY <2>1, Apart DEF QueriesOf
<1>3. \A v \in DOMAIN OtherScreens : OtherScreens[v] \subseteq QueryNames
  BY DEF OtherScreens, QueryNames, SubmissionQueries, ReviewQueries, JobReviewQueries, HomeQueries,
         JobsQueries, CandidatesQueries, SubmissionsQueries, SearchQueries, AnalyticsQueries
<1>4. \A v \in DOMAIN OtherScreens : v \notin JobDetail \cup CandidateDetail =>
         QueriesOf[v] \subseteq QueryNames
  BY <1>3 DEF QueriesOf
<1> QED BY <1>1, <1>2, <1>4 DEF Queries, QueriesOf

ShownTables ==
    {"candidate", "resume", "knowledge", "job", "submission", "interview", "offer",
     "activity", "relationship"}

(* A query is answered from no other table than those a screen shows, and  *)
(* a table is shown by these queries.                                      *)
LEMMA Readers ==
    ASSUME NEW q \in Queries
    PROVE  /\ Reads(Fetches[q]) \subseteq ShownTables
           /\ "candidate" \in Reads(Fetches[q]) => q \in {"job-submissions", "job-matches",
                    "job-relationships", "job-relationships-of-stage",
                    "candidate-relationships", "candidates-for-rel", "search", "inbox",
                    "candidates", "analytics-overview", "job-analytics", "submission",
                    "submissions", "workspace", "review"}
           /\ "resume" \in Reads(Fetches[q]) => q \in {"review"}
           /\ "knowledge" \in Reads(Fetches[q]) => q \in {"knowledge-history", "knowledge"}
           /\ "job" \in Reads(Fetches[q]) => q \in {"job", "jobs", "jobs-for-rel",
                    "job-review", "job-submissions", "job-matches", "job-relationships",
                    "job-relationships-of-stage", "candidate-relationships",
                    "analytics-overview", "job-analytics", "submission", "submissions"}
           /\ "submission" \in Reads(Fetches[q]) => q \in {"job-pipeline",
                    "job-submissions", "submission", "submissions"}
           /\ "interview" \in Reads(Fetches[q]) => q \in {"submission"}
           /\ "offer" \in Reads(Fetches[q]) => q \in {"submission"}
           /\ "activity" \in Reads(Fetches[q]) => q \in {"job-activities", "submission"}
           /\ "relationship" \in Reads(Fetches[q]) => q \in {"job-relationships",
                    "job-relationships-of-stage", "candidate-relationships",
                    "analytics-overview", "job-analytics"}
<1>1. CASE q \in {"job"}
  <2>1. Fetches[q] = "getJob" BY <1>1 DEF Fetches, StageFilters, AllStages
  <2> QED BY <1>1, <2>1, Read DEF ShownTables
<1>2. CASE q \in {"jobs", "jobs-for-rel"}
  <2>1. Fetches[q] = "listJobs" BY <1>2 DEF Fetches, StageFilters, AllStages
  <2> QED BY <1>2, <2>1, Read DEF ShownTables
<1>3. CASE q \in {"job-review"}
  <2>1. Fetches[q] = "getJobReview" BY <1>3 DEF Fetches, StageFilters, AllStages
  <2> QED BY <1>3, <2>1, Read DEF ShownTables
<1>4. CASE q \in {"job-pipeline"}
  <2>1. Fetches[q] = "getJobPipeline" BY <1>4 DEF Fetches, StageFilters, AllStages
  <2> QED BY <1>4, <2>1, Read DEF ShownTables
<1>5. CASE q \in {"job-submissions"}
  <2>1. Fetches[q] = "getJobSubmissions" BY <1>5 DEF Fetches, StageFilters, AllStages
  <2> QED BY <1>5, <2>1, Read DEF ShownTables
<1>6. CASE q \in {"job-activities"}
  <2>1. Fetches[q] = "getJobActivities" BY <1>6 DEF Fetches, StageFilters, AllStages
  <2> QED BY <1>6, <2>1, Read DEF ShownTables
<1>7. CASE q \in {"job-matches"}
  <2>1. Fetches[q] = "getJobMatches" BY <1>7 DEF Fetches, StageFilters, AllStages
  <2> QED BY <1>7, <2>1, Read DEF ShownTables
<1>8. CASE q \in {"job-relationships", "job-relationships-of-stage"}
  <2>1. Fetches[q] = "listJobRelationships" BY <1>8 DEF Fetches, StageFilters, AllStages
  <2> QED BY <1>8, <2>1, Read DEF ShownTables
<1>9. CASE q \in {"candidate-relationships"}
  <2>1. Fetches[q] = "listCandidateRelationships" BY <1>9 DEF Fetches, StageFilters, AllStages
  <2> QED BY <1>9, <2>1, Read DEF ShownTables
<1>10. CASE q \in {"candidates-for-rel", "search", "inbox", "candidates"}
  <2>1. Fetches[q] = "listCandidates" BY <1>10 DEF Fetches, StageFilters, AllStages
  <2> QED BY <1>10, <2>1, Read DEF ShownTables
<1>11. CASE q \in {"knowledge-history"}
  <2>1. Fetches[q] = "getKnowledgeHistory" BY <1>11 DEF Fetches, StageFilters, AllStages
  <2> QED BY <1>11, <2>1, Read DEF ShownTables
<1>12. CASE q \in {"analytics-overview"}
  <2>1. Fetches[q] = "getAnalyticsOverview" BY <1>12 DEF Fetches, StageFilters, AllStages
  <2> QED BY <1>12, <2>1, Read DEF ShownTables
<1>13. CASE q \in {"job-analytics"}
  <2>1. Fetches[q] = "getJobAnalytics" BY <1>13 DEF Fetches, StageFilters, AllStages
  <2> QED BY <1>13, <2>1, Read DEF ShownTables
<1>14. CASE q \in {"submission"}
  <2>1. Fetches[q] = "getSubmission" BY <1>14 DEF Fetches, StageFilters, AllStages
  <2> QED BY <1>14, <2>1, Read DEF ShownTables
<1>15. CASE q \in {"submissions"}
  <2>1. Fetches[q] = "listSubmissions" BY <1>15 DEF Fetches, StageFilters, AllStages
  <2> QED BY <1>15, <2>1, Read DEF ShownTables
<1>16. CASE q \in {"workspace"}
  <2>1. Fetches[q] = "getWorkspace" BY <1>16 DEF Fetches, StageFilters, AllStages
  <2> QED BY <1>16, <2>1, Read DEF ShownTables
<1>17. CASE q \in {"knowledge"}
  <2>1. Fetches[q] = "getCandidateKnowledge" BY <1>17 DEF Fetches, StageFilters, AllStages
  <2> QED BY <1>17, <2>1, Read DEF ShownTables
<1>18. CASE q \in {"review"}
  <2>1. Fetches[q] = "getReview" BY <1>18 DEF Fetches, StageFilters, AllStages
  <2> QED BY <1>18, <2>1, Read DEF ShownTables
<1> QED BY <1>1, <1>2, <1>3, <1>4, <1>5, <1>6, <1>7, <1>8, <1>9, <1>10, <1>11, <1>12,
         <1>13, <1>14, <1>15, <1>16, <1>17, <1>18, QueriesAre
   DEF QueryNames

-----------------------------------------------------------------------------
(* The queries the button tells of its write, in any of its tellings.      *)
TellsOf(b) == UNION {Buttons[b].tells[i].queries : i \in DOMAIN Buttons[b].tells}

(* What a button's calls write is in no query but those its onSuccess      *)
(* invalidates or refetches and those it leaves to grow stale (Untold).    *)
LEMMA AllAreTold ==
    ASSUME NEW b \in DOMAIN Buttons, NEW q \in Queries, Affects(b, q)
    PROVE  q \in Untold(b) \cup TellsOf(b)
<1>1. CASE b = "SaveJob"
  <2>1. TellsOf(b) = {"job", "jobs"}
    BY <1>1 DEF TellsOf, Buttons, SaveJob, Button, Invalidates, Refetches
  <2>2. Buttons[b].calls = {"updateJob"}
    BY <1>1 DEF Buttons, SaveJob, Button
  <2>3. UNION {Writes(f) : f \in Buttons[b].calls} \subseteq {"job"}
    BY <2>2, Written
  <2>4. {"jobs-for-rel", "job-review", "job-submissions", "job-matches", "job-relationships",
         "job-relationships-of-stage", "candidate-relationships", "analytics-overview",
         "job-analytics", "submission", "submissions"} \subseteq Untold(b)
    BY <1>1 DEF Untold, StageFilters, AllStages
  <2> QED BY <2>1, <2>3, <2>4, Readers DEF Affects, ShownTables
<1>2. CASE b = "RelateCandidate"
  <2>1. TellsOf(b) = {"job-relationships", "job-relationships-of-stage",
                      "candidate-relationships"}
    BY <1>2 DEF TellsOf, Buttons, RelateCandidate, Button, Invalidates, Refetches,
           StageFilters, AllStages
  <2>2. Buttons[b].calls = {"createRelationship"}
    BY <1>2 DEF Buttons, RelateCandidate, Button
  <2>3. UNION {Writes(f) : f \in Buttons[b].calls} \subseteq {"relationship"}
    BY <2>2, Written
  <2>4. {"analytics-overview", "job-analytics"} \subseteq Untold(b)
    BY <1>2 DEF Untold, StageFilters, AllStages
  <2> QED BY <2>1, <2>3, <2>4, Readers DEF Affects, ShownTables
<1>3. CASE b = "AutomateRow"
  <2>1. TellsOf(b) = {"job-relationships", "job-relationships-of-stage"}
    BY <1>3 DEF TellsOf, Buttons, AutomateRow, Button, Invalidates, Refetches,
           StageFilters, AllStages
  <2>2. Buttons[b].calls = {"automationStageMove", "automationAssign"}
    BY <1>3 DEF Buttons, AutomateRow, Button
  <2>3. UNION {Writes(f) : f \in Buttons[b].calls} \subseteq {"relationship", "action",
         "notification", "audit"}
    BY <2>2, Written
  <2>4. {"candidate-relationships", "analytics-overview",
         "job-analytics"} \subseteq Untold(b)
    BY <1>3 DEF Untold, StageFilters, AllStages
  <2> QED BY <2>1, <2>3, <2>4, Readers DEF Affects, ShownTables
<1>4. CASE b = "Submit"
  <2>1. TellsOf(b) = {"job-submissions", "job", "job-pipeline", "job-activities", "jobs"}
    BY <1>4 DEF TellsOf, Buttons, Submit, Button, Invalidates, Refetches
  <2>2. Buttons[b].calls = {"submitCandidate"}
    BY <1>4 DEF Buttons, Submit, Button
  <2>3. UNION {Writes(f) : f \in Buttons[b].calls} \subseteq {"submission", "job",
         "activity"}
    BY <2>2, Written
  <2>4. {"jobs-for-rel", "job-review", "job-matches", "job-relationships",
         "job-relationships-of-stage", "candidate-relationships", "analytics-overview",
         "job-analytics", "submission", "submissions"} \subseteq Untold(b)
    BY <1>4 DEF Untold, StageFilters, AllStages
  <2> QED BY <2>1, <2>3, <2>4, Readers DEF Affects, ShownTables
<1>5. CASE b = "ReviewJobField"
  <2>1. TellsOf(b) = {"job-review", "job", "jobs"}
    BY <1>5 DEF TellsOf, Buttons, ReviewJobField, Button, Invalidates, Refetches
  <2>2. Buttons[b].calls = {"reviewJobField"}
    BY <1>5 DEF Buttons, ReviewJobField, Button
  <2>3. UNION {Writes(f) : f \in Buttons[b].calls} \subseteq {"job"}
    BY <2>2, Written
  <2>4. {"jobs-for-rel", "job-submissions", "job-matches", "job-relationships",
         "job-relationships-of-stage", "candidate-relationships", "analytics-overview",
         "job-analytics", "submission", "submissions"} \subseteq Untold(b)
    BY <1>5 DEF Untold, StageFilters, AllStages
  <2> QED BY <2>1, <2>3, <2>4, Readers DEF Affects, ShownTables
<1>6. CASE b = "MarkJobReady"
  <2>1. TellsOf(b) = {"job-review", "job", "jobs"}
    BY <1>6 DEF TellsOf, Buttons, MarkJobReady, Button, Invalidates, Refetches
  <2>2. Buttons[b].calls = {"markJobReady"}
    BY <1>6 DEF Buttons, MarkJobReady, Button
  <2>3. UNION {Writes(f) : f \in Buttons[b].calls} \subseteq {"job"}
    BY <2>2, Written
  <2>4. {"jobs-for-rel", "job-submissions", "job-matches", "job-relationships",
         "job-relationships-of-stage", "candidate-relationships", "analytics-overview",
         "job-analytics", "submission", "submissions"} \subseteq Untold(b)
    BY <1>6 DEF Untold, StageFilters, AllStages
  <2> QED BY <2>1, <2>3, <2>4, Readers DEF Affects, ShownTables
<1>7. CASE b = "CreateManual"
  <2>1. TellsOf(b) = {}
    BY <1>7 DEF TellsOf, Buttons, CreateManual, Button, Invalidates, Refetches
  <2>2. Buttons[b].calls = {"createJobManual"}
    BY <1>7 DEF Buttons, CreateManual, Button
  <2>3. UNION {Writes(f) : f \in Buttons[b].calls} \subseteq {"job", "activity"}
    BY <2>2, Written
  <2>4. {"job", "jobs", "jobs-for-rel", "job-review", "job-submissions", "job-activities",
         "job-matches", "job-relationships", "job-relationships-of-stage",
         "candidate-relationships", "analytics-overview", "job-analytics", "submission",
         "submissions"} \subseteq Untold(b)
    BY <1>7 DEF Untold, StageFilters, AllStages
  <2> QED BY <2>1, <2>3, <2>4, Readers DEF Affects, ShownTables
<1>8. CASE b = "CreateFromText"
  <2>1. TellsOf(b) = {}
    BY <1>8 DEF TellsOf, Buttons, CreateFromText, Button, Invalidates, Refetches
  <2>2. Buttons[b].calls = {"createJobFromText"}
    BY <1>8 DEF Buttons, CreateFromText, Button
  <2>3. UNION {Writes(f) : f \in Buttons[b].calls} \subseteq {"job", "activity"}
    BY <2>2, Written
  <2>4. {"job", "jobs", "jobs-for-rel", "job-review", "job-submissions", "job-activities",
         "job-matches", "job-relationships", "job-relationships-of-stage",
         "candidate-relationships", "analytics-overview", "job-analytics", "submission",
         "submissions"} \subseteq Untold(b)
    BY <1>8 DEF Untold, StageFilters, AllStages
  <2> QED BY <2>1, <2>3, <2>4, Readers DEF Affects, ShownTables
<1>9. CASE b = "CreateFromFile"
  <2>1. TellsOf(b) = {}
    BY <1>9 DEF TellsOf, Buttons, CreateFromFile, Button, Invalidates, Refetches
  <2>2. Buttons[b].calls = {"createJobFromFile"}
    BY <1>9 DEF Buttons, CreateFromFile, Button
  <2>3. UNION {Writes(f) : f \in Buttons[b].calls} \subseteq {"job", "activity"}
    BY <2>2, Written
  <2>4. {"job", "jobs", "jobs-for-rel", "job-review", "job-submissions", "job-activities",
         "job-matches", "job-relationships", "job-relationships-of-stage",
         "candidate-relationships", "analytics-overview", "job-analytics", "submission",
         "submissions"} \subseteq Untold(b)
    BY <1>9 DEF Untold, StageFilters, AllStages
  <2> QED BY <2>1, <2>3, <2>4, Readers DEF Affects, ShownTables
<1>10. CASE b = "Progress"
  <2>1. TellsOf(b) = {"submission", "submissions", "job", "job-pipeline", "job-activities"}
    BY <1>10
       DEF TellsOf, Buttons, Progress, SubmissionButton, SubmissionTells, Button,
           Invalidates, Refetches
  <2>2. Buttons[b].calls = {"updateSubmissionStatus", "scheduleInterview", "createOffer",
         "rejectSubmission", "withdrawSubmission"}
    BY <1>10 DEF Buttons, Progress, SubmissionButton, SubmissionTells, Button
  <2>3. UNION {Writes(f) : f \in Buttons[b].calls} \subseteq {"submission", "activity",
         "interview", "offer"}
    BY <2>2, Written
  <2>4. {"job-submissions"} \subseteq Untold(b)
    BY <1>10 DEF Untold, StageFilters, AllStages
  <2> QED BY <2>1, <2>3, <2>4, Readers DEF Affects, ShownTables
<1>11. CASE b = "Place"
  <2>1. TellsOf(b) = {"submission", "submissions", "job", "job-pipeline", "job-activities"}
    BY <1>11
       DEF TellsOf, Buttons, Place, SubmissionButton, SubmissionTells, Button, Invalidates,
           Refetches
  <2>2. Buttons[b].calls = {"markPlaced"}
    BY <1>11 DEF Buttons, Place, SubmissionButton, SubmissionTells, Button
  <2>3. UNION {Writes(f) : f \in Buttons[b].calls} \subseteq {"submission", "job",
         "activity", "knowledge"}
    BY <2>2, Written
  <2>4. {"jobs", "jobs-for-rel", "job-review", "job-submissions", "job-matches",
         "job-relationships", "job-relationships-of-stage", "candidate-relationships",
         "knowledge-history", "analytics-overview", "job-analytics",
         "knowledge"} \subseteq Untold(b)
    BY <1>11 DEF Untold, StageFilters, AllStages
  <2> QED BY <2>1, <2>3, <2>4, Readers DEF Affects, ShownTables
<1>12. CASE b = "CompleteInterview"
  <2>1. TellsOf(b) = {"submission", "submissions", "job", "job-pipeline", "job-activities"}
    BY <1>12
       DEF TellsOf, Buttons, CompleteInterview, SubmissionButton, SubmissionTells, Unguarded, Button,
           Invalidates, Refetches
  <2>2. Buttons[b].calls = {"completeInterview"}
    BY <1>12 DEF Buttons, CompleteInterview, SubmissionButton, SubmissionTells, Unguarded, Button
  <2>3. UNION {Writes(f) : f \in Buttons[b].calls} \subseteq {"submission", "interview",
         "activity", "knowledge"}
    BY <2>2, Written
  <2>4. {"job-submissions", "knowledge-history", "knowledge"} \subseteq Untold(b)
    BY <1>12 DEF Untold, StageFilters, AllStages
  <2> QED BY <2>1, <2>3, <2>4, Readers DEF Affects, ShownTables
<1>13. CASE b = "DecideOffer"
  <2>1. TellsOf(b) = {"submission", "submissions", "job", "job-pipeline", "job-activities"}
    BY <1>13
       DEF TellsOf, Buttons, DecideOffer, SubmissionButton, SubmissionTells, Unguarded, Button,
           Invalidates, Refetches
  <2>2. Buttons[b].calls = {"updateOfferStatus"}
    BY <1>13 DEF Buttons, DecideOffer, SubmissionButton, SubmissionTells, Unguarded, Button
  <2>3. UNION {Writes(f) : f \in Buttons[b].calls} \subseteq {"submission", "offer",
         "activity", "knowledge"}
    BY <2>2, Written
  <2>4. {"job-submissions", "knowledge-history", "knowledge"} \subseteq Untold(b)
    BY <1>13 DEF Untold, StageFilters, AllStages
  <2> QED BY <2>1, <2>3, <2>4, Readers DEF Affects, ShownTables
<1>14. CASE b = "SaveCandidate"
  <2>1. TellsOf(b) = {"workspace", "candidates"}
    BY <1>14 DEF TellsOf, Buttons, SaveCandidate, Button, Invalidates, Refetches
  <2>2. Buttons[b].calls = {"updateWorkspace"}
    BY <1>14 DEF Buttons, SaveCandidate, Button
  <2>3. UNION {Writes(f) : f \in Buttons[b].calls} \subseteq {"candidate"}
    BY <2>2, Written
  <2>4. {"job-submissions", "job-matches", "job-relationships", "job-relationships-of-stage",
         "candidate-relationships", "candidates-for-rel", "search", "inbox",
         "analytics-overview", "job-analytics", "submission", "submissions",
         "review"} \subseteq Untold(b)
    BY <1>14 DEF Untold, StageFilters, AllStages
  <2> QED BY <2>1, <2>3, <2>4, Readers DEF Affects, ShownTables
<1>15. CASE b = "RelateJob"
  <2>1. TellsOf(b) = {"candidate-relationships", "job-relationships",
                      "job-relationships-of-stage"}
    BY <1>15 DEF TellsOf, Buttons, RelateJob, Button, Invalidates, Refetches,
           StageFilters, AllStages
  <2>2. Buttons[b].calls = {"createRelationship"}
    BY <1>15 DEF Buttons, RelateJob, Button
  <2>3. UNION {Writes(f) : f \in Buttons[b].calls} \subseteq {"relationship"}
    BY <2>2, Written
  <2>4. {"analytics-overview", "job-analytics"} \subseteq Untold(b)
    BY <1>15 DEF Untold, StageFilters, AllStages
  <2> QED BY <2>1, <2>3, <2>4, Readers DEF Affects, ShownTables
<1>16. CASE b = "UpdateStage"
  <2>1. TellsOf(b) = {"candidate-relationships"}
    BY <1>16 DEF TellsOf, Buttons, UpdateStage, Unguarded, Button, Invalidates, Refetches
  <2>2. Buttons[b].calls = {"updateRelationshipStage"}
    BY <1>16 DEF Buttons, UpdateStage, Unguarded, Button
  <2>3. UNION {Writes(f) : f \in Buttons[b].calls} \subseteq {"relationship",
         "notification", "audit"}
    BY <2>2, Written
  <2>4. {"job-relationships", "job-relationships-of-stage", "analytics-overview",
         "job-analytics"} \subseteq Untold(b)
    BY <1>16 DEF Untold, StageFilters, AllStages
  <2> QED BY <2>1, <2>3, <2>4, Readers DEF Affects, ShownTables
<1>17. CASE b = "PatchKnowledge"
  <2>1. TellsOf(b) = {"knowledge", "knowledge-history"}
    BY <1>17 DEF TellsOf, Buttons, PatchKnowledge, Button, Invalidates, Refetches
  <2>2. Buttons[b].calls = {"patchKnowledge"}
    BY <1>17 DEF Buttons, PatchKnowledge, Button
  <2>3. UNION {Writes(f) : f \in Buttons[b].calls} \subseteq {"knowledge"}
    BY <2>2, Written
  <2> QED BY <2>1, <2>3, Readers DEF Affects, ShownTables
<1>18. CASE b = "AddEvidence"
  <2>1. TellsOf(b) = {"knowledge", "knowledge-history"}
    BY <1>18 DEF TellsOf, Buttons, AddEvidence, Button, Invalidates, Refetches
  <2>2. Buttons[b].calls = {"addKnowledgeEvidence"}
    BY <1>18 DEF Buttons, AddEvidence, Button
  <2>3. UNION {Writes(f) : f \in Buttons[b].calls} \subseteq {"knowledge"}
    BY <2>2, Written
  <2> QED BY <2>1, <2>3, Readers DEF Affects, ShownTables
<1>19. CASE b = "ReviewField"
  <2>1. TellsOf(b) = {"review", "inbox", "candidates"}
    BY <1>19 DEF TellsOf, Buttons, ReviewField, Button, Invalidates, Refetches
  <2>2. Buttons[b].calls = {"reviewField"}
    BY <1>19 DEF Buttons, ReviewField, Button
  <2>3. UNION {Writes(f) : f \in Buttons[b].calls} \subseteq {"candidate", "knowledge"}
    BY <2>2, Written
  <2>4. {"job-submissions", "job-matches", "job-relationships", "job-relationships-of-stage",
         "candidate-relationships", "candidates-for-rel", "search", "knowledge-history",
         "analytics-overview", "job-analytics", "submission", "submissions", "workspace",
         "knowledge"} \subseteq Untold(b)
    BY <1>19 DEF Untold, StageFilters, AllStages
  <2> QED BY <2>1, <2>3, <2>4, Readers DEF Affects, ShownTables
<1>20. CASE b = "MarkReady"
  <2>1. TellsOf(b) = {"review", "inbox", "candidates"}
    BY <1>20 DEF TellsOf, Buttons, MarkReady, Button, Invalidates, Refetches
  <2>2. Buttons[b].calls = {"markReady"}
    BY <1>20 DEF Buttons, MarkReady, Button
  <2>3. UNION {Writes(f) : f \in Buttons[b].calls} \subseteq {"candidate", "knowledge",
         "session"}
    BY <2>2, Written
  <2>4. {"job-submissions", "job-matches", "job-relationships", "job-relationships-of-stage",
         "candidate-relationships", "candidates-for-rel", "search", "knowledge-history",
         "analytics-overview", "job-analytics", "submission", "submissions", "workspace",
         "knowledge"} \subseteq Untold(b)
    BY <1>20 DEF Untold, StageFilters, AllStages
  <2> QED BY <2>1, <2>3, <2>4, Readers DEF Affects, ShownTables
<1>21. CASE b = "ImportResume"
  <2>1. TellsOf(b) = {}
    BY <1>21 DEF TellsOf, Buttons, ImportResume, Button, Invalidates, Refetches
  <2>2. Buttons[b].calls = {"importResume"}
    BY <1>21 DEF Buttons, ImportResume, Button
  <2>3. UNION {Writes(f) : f \in Buttons[b].calls} \subseteq {"candidate", "resume",
         "knowledge"}
    BY <2>2, Written
  <2>4. {"job-submissions", "job-matches", "job-relationships", "job-relationships-of-stage",
         "candidate-relationships", "candidates-for-rel", "search", "inbox", "candidates",
         "knowledge-history", "analytics-overview", "job-analytics", "submission",
         "submissions", "workspace", "knowledge", "review"} \subseteq Untold(b)
    BY <1>21 DEF Untold, StageFilters, AllStages
  <2> QED BY <2>1, <2>3, <2>4, Readers DEF Affects, ShownTables
<1> QED BY <1>1, <1>2, <1>3, <1>4, <1>5, <1>6, <1>7, <1>8, <1>9, <1>10, <1>11, <1>12, <1>13,
         <1>14, <1>15, <1>16, <1>17, <1>18, <1>19, <1>20, <1>21
   DEF Buttons

(* A button owes a followed query its write only when it tells of it.      *)
LEMMA Owed ==
    ASSUME NEW b \in DOMAIN Buttons, followed \subseteq Queries
    PROVE  Owes(b) \subseteq followed \cap TellsOf(b)
<1>1. ASSUME NEW q \in followed, Affects(b, q), q \notin Untold(b)
      PROVE  q \in TellsOf(b)
  BY <1>1, AllAreTold
<1> QED BY <1>1 DEF Owes

-----------------------------------------------------------------------------
(* The lesser of two numbers.                                              *)
LEMMA MinIs ==
    ASSUME NEW m \in Nat, NEW n \in Nat
    PROVE  /\ Min({m, n}) \in {m, n}
           /\ Min({m, n}) <= m /\ Min({m, n}) <= n
<1>1. \E x \in {m, n} : \A y \in {m, n} : x <= y
  BY DEF Min
<1> QED BY <1>1 DEF Min

(* The greater of two numbers.                                             *)
LEMMA MaxIs ==
    ASSUME NEW m \in Nat, NEW n \in Nat
    PROVE  /\ Max({m, n}) \in {m, n}
           /\ Max({m, n}) >= m /\ Max({m, n}) >= n
<1>1. \E x \in {m, n} : \A y \in {m, n} : x >= y
  OBVIOUS
<1> QED BY <1>1 DEF Max

(* A click that has still to tell the query q. *)
WillTell(p, q) ==
    /\ p.told > 0
    /\ \E i \in DOMAIN Buttons[p.button].tells :
          i > p.told /\ q \in Buttons[p.button].tells[i].queries

Due(ps, q) == \E p \in ps : WillTell(p, q)

(* What is loaded shows what is owed, and so does an answer, unless it is  *)
(* marked, and not on the screen or after a load that failed.              *)
Kept(q) ==
    /\ loading[q] # Absent => loading[q] >= owed[q]
    /\ loading[q] = Absent /\ cache[q] # Absent =>
          \/ cache[q].seen >= owed[q]
          \/ cache[q].invalid /\ (q \in Mounted(view, cache) => cache[q].error)

Bounded ==
    /\ \A q \in followed : owed[q] <= written /\ (loading[q] # Absent => loading[q] <= written)
    /\ \A p \in pending : p.wrote <= written

AllTold == \A b \in DOMAIN Buttons : owing[b] \subseteq TellsOf(b)

Honoured == \A q \in followed : Due(pending, q) \/ Kept(q)

ScreensInv == ScreensTyped /\ Bounded /\ AllTold /\ Honoured

(* At rest no click has a telling left and nothing on the screen is        *)
(* loading, so an answer without error shows what it owes.                 *)
LEMMA HonouredShows ==
    ASSUME ScreensTyped, Honoured
    PROVE  OwnWritesShown
<1> SUFFICES ASSUME AtRest, NEW q \in Mounted(view, cache), cache[q] # Absent, ~cache[q].error
             PROVE  cache[q].seen >= owed[q]
  BY DEF OwnWritesShown
<1>1. q \in followed BY DEF Mounted
<1>2. Kept(q) BY <1>1 DEF Honoured, AtRest, Due
<1> QED BY <1>2 DEF Kept, AtRest

(* Nothing is owed and nothing shown when the application starts.          *)
LEMMA InitHonours ==
    ASSUME ScreensInit
    PROVE  ScreensInv
<1>1. followed \subseteq Queries
  BY DependsIsQueries DEF ScreensInit
<1>2. \A b \in DOMAIN Buttons : owing[b] \subseteq followed \cap TellsOf(b)
  BY <1>1, Owed DEF ScreensInit
<1>3. owing \in [DOMAIN Buttons -> SUBSET followed] /\ AllTold
  BY <1>2 DEF ScreensInit, AllTold
<1>4. ScreensTyped
  BY <1>1, <1>3, ScreensAssumption DEF ScreensInit, ScreensTyped, StageFilters
<1>5. Bounded
  BY ScreensAssumption DEF ScreensInit, Bounded
<1>6. \A q \in followed : Kept(q)
  BY ScreensAssumption DEF ScreensInit, Kept
<1> QED BY <1>3, <1>4, <1>5, <1>6 DEF ScreensInv, Honoured

-----------------------------------------------------------------------------
(* What comes up leaves loads as they are or starts them at the     *)
(* last write, and starts one for each of its answers that is marked.      *)
LEMMA ShowsLoads ==
    ASSUME written \in Nat, NEW qs, NEW c, NEW ld \in [followed -> Nat \cup {Absent}],
           Shows(qs, c, ld)
    PROVE  /\ loading' \in [followed -> Nat \cup {Absent}]
           /\ \A q \in followed :
                 /\ loading'[q] = ld[q] \/ (ld[q] = Absent /\ loading'[q] = written)
                 /\ q \in qs /\ c[q] # Absent /\ c[q].invalid => loading'[q] # Absent
<1>1. PICK asks :
         /\ {q \in qs : c[q] = Absent \/ c[q].invalid} \subseteq asks
         /\ loading' = [q \in followed |-> IF q \in asks /\ ld[q] = Absent THEN written ELSE ld[q]]
  BY DEF Shows
<1> QED BY <1>1, ScreensAssumption

(* A screen that is left takes no telling away.                            *)
LEMMA GoneTyped ==
    ASSUME NEW ps \in SUBSET Pending, NEW v
    PROVE  /\ Gone(ps, v) \in SUBSET Pending
           /\ \A p \in Gone(ps, v) : \E o \in ps : p.wrote = o.wrote
           /\ \A q : Due(ps, q) => Due(Gone(ps, v), q)
<1>1. \A p \in Pending : LET n == [p EXCEPT !.here = @ /\ v \in Buttons[p.button].within] IN
         n \in Pending /\ n.wrote = p.wrote /\ n.told = p.told /\ n.button = p.button
  BY DEF Pending
<1> QED BY <1>1 DEF Gone, Due, WillTell

(* Nor does a load that is over.                                           *)
LEMMA ReleasedTyped ==
    ASSUME NEW ps \in SUBSET Pending, NEW qs
    PROVE  /\ Released(ps, qs) \in SUBSET Pending
           /\ \A p \in Released(ps, qs) : \E o \in ps : p.wrote = o.wrote
           /\ \A q : Due(ps, q) => Due(Released(ps, qs), q)
<1>1. \A p \in Pending : LET n == [p EXCEPT !.waits = @ \ qs] IN
         n \in Pending /\ n.wrote = p.wrote /\ n.told = p.told /\ n.button = p.button
  BY DEF Pending
<1> QED BY <1>1 DEF Released, Due, WillTell

(* Another filter is noted in the clicks of its screen.                    *)
LEMMA FilteredTyped ==
    ASSUME NEW ps \in SUBSET Pending, NEW f \in StageFilters
    PROVE  /\ Filtered(ps, f) \in SUBSET Pending
           /\ \A p \in Filtered(ps, f) : \E o \in ps : p.wrote = o.wrote
           /\ \A q : Due(ps, q) => Due(Filtered(ps, f), q)
<1>1. \A p \in Pending : LET n == [p EXCEPT !.filter = IF p.here THEN f ELSE @] IN
         n \in Pending /\ n.wrote = p.wrote /\ n.told = p.told /\ n.button = p.button
  BY DEF Pending
<1> QED BY <1>1 DEF Filtered, Due, WillTell

(* A click of the same mutation makes an earlier one no longer the latest. *)
LEMMA SupersededTyped ==
    ASSUME NEW ps \in SUBSET Pending, NEW b
    PROVE  /\ Superseded(ps, b) \in SUBSET Pending
           /\ \A p \in Superseded(ps, b) : \E o \in ps : p.wrote = o.wrote
           /\ \A q : Due(ps, q) => Due(Superseded(ps, b), q)
<1>1. \A p \in Pending : LET n == [p EXCEPT !.latest = @ /\ ~Together(p, b)] IN
         n \in Pending /\ n.wrote = p.wrote /\ n.told = p.told /\ n.button = p.button
  BY DEF Pending
<1> QED BY <1>1 DEF Superseded, Due, WillTell

(* Which queries the screen has up depends on which have an answer, and    *)
(* which of these failed since.                                            *)
LEMMA SameShape ==
    ASSUME NEW c, NEW d, NEW v,
           \A q \in followed : /\ c[q] = Absent <=> d[q] = Absent
                               /\ c[q] # Absent => c[q].error = d[q].error
    PROVE  Mounted(v, c) = Mounted(v, d)
<1>1. Up(v, c) <=> Up(v, d)
  BY DEF Up
<1> QED BY <1>1 DEF Mounted

(* Only the tab of a job's relationships asks for one by stage.            *)
LEMMA StagesOfJobs ==
    ASSUME NEW v \in DOMAIN QueriesOf, v \notin JobDetail
    PROVE  QueriesOf[v] \cap StageFilters = {}
<1>1. CASE v \in CandidateDetail
  <2>1. CandidateTabs[v] \cap StageFilters = {}
    BY <1>1 DEF CandidateDetail, CandidateTabs, StageFilters, AllStages
  <2> QED BY <1>1, <2>1 DEF QueriesOf
<1>2. CASE v \notin CandidateDetail
  <2>1. v \in DOMAIN OtherScreens /\ QueriesOf[v] = OtherScreens[v]
    BY <1>2 DEF QueriesOf
  <2>2. \A w \in DOMAIN OtherScreens : OtherScreens[w] \cap StageFilters = {}
    BY DEF OtherScreens, StageFilters, AllStages, SubmissionQueries, ReviewQueries,
           JobReviewQueries, HomeQueries, JobsQueries, CandidatesQueries, SubmissionsQueries,
           SearchQueries, AnalyticsQueries
  <2> QED BY <2>1, <2>2
<1> QED BY <1>1, <1>2

(* What the screen has up after a step that leaves the filter as it is, or *)
(* the job.                                                                *)
LEMMA MountedNext ==
    ASSUME followed' = followed, view' \in DOMAIN QueriesOf,
           filter' = filter \/ view' \notin JobDetail
    PROVE  Mounted(view, cache)' = Mounted(view', cache')
<1>1. CASE filter' = filter
  BY <1>1 DEF Mounted, Up
<1>2. CASE view' \notin JobDetail
  <2>1. QueriesOf[view'] \cap StageFilters = {}
    BY <1>2, StagesOfJobs
  <2> QED BY <2>1 DEF Mounted, Up
<1> QED BY <1>1, <1>2

(* A step keeps a query whose answer and debt it leaves alone: its load    *)
(* goes on or starts at the last write, no telling is lost, and no marked  *)
(* answer comes up without a load.                                         *)
LEMMA Carries ==
    ASSUME ScreensTyped, Bounded, NEW q \in followed, Due(pending, q) \/ Kept(q),
           owed'[q] = owed[q], cache'[q] = cache[q],
           loading'[q] = loading[q] \/ (loading[q] = Absent /\ loading'[q] = written),
           Due(pending, q) => Due(pending', q),
           q \in Mounted(view, cache)' /\ loading'[q] = Absent /\ cache[q] # Absent
              /\ cache[q].invalid => q \in Mounted(view, cache)
    PROVE  Due(pending', q) \/ Kept(q)'
<1>1. /\ owed[q] \in Nat /\ written \in Nat /\ owed[q] <= written /\ Absent \notin Nat
      /\ loading[q] \in Nat \cup {Absent}
  BY ScreensAssumption DEF ScreensTyped, Bounded
<1> SUFFICES ASSUME Kept(q)
             PROVE  Kept(q)'
  OBVIOUS
<1>2. loading'[q] # Absent => loading'[q] >= owed'[q]
  BY <1>1 DEF Kept
<1>3. loading'[q] = Absent /\ cache'[q] # Absent =>
          \/ cache'[q].seen >= owed'[q]
          \/ cache'[q].invalid /\ (q \in Mounted(view, cache)' => cache'[q].error)
  BY <1>1 DEF Kept
<1> QED BY <1>2, <1>3 DEF Kept

-----------------------------------------------------------------------------
(* The recruiter goes to another screen.                                   *)
LEMMA MoveKeeps ==
    ASSUME ScreensInv, NEW v \in Views, Move(v)
    PROVE  ScreensInv'
<1> USE DEF ScreensInv
<1>1. /\ view' = v /\ filter' = FilterOn(v) /\ moves' = moves + 1 /\ moves < MaxMoves
      /\ UNCHANGED <<followed, owing, cache, written, owed>>
      /\ pending' = Gone(pending, v) /\ Shows(New(v, cache), cache, loading)
  BY DEF Move, fixed
<1>2. /\ loading' \in [followed -> Nat \cup {Absent}]
      /\ \A q \in followed :
            /\ loading'[q] = loading[q] \/ (loading[q] = Absent /\ loading'[q] = written)
            /\ q \in New(v, cache) /\ cache[q] # Absent /\ cache[q].invalid
                  => loading'[q] # Absent
  BY <1>1, ShowsLoads DEF ScreensTyped
<1>3. /\ pending' \in SUBSET Pending
      /\ \A p \in pending' : \E o \in pending : p.wrote = o.wrote
      /\ \A q : Due(pending, q) => Due(pending', q)
  BY <1>1, GoneTyped DEF ScreensTyped
<1>4. ScreensTyped'
  BY <1>1, <1>2, <1>3, ScreensAssumption DEF ScreensTyped, FilterOn, StageFilters
<1>5. Bounded'
  BY <1>1, <1>2, <1>3 DEF Bounded, ScreensTyped
<1>6. AllTold'
  BY <1>1 DEF AllTold
<1>7. Mounted(view, cache)' = Mounted(v, cache)
  BY <1>1, ScreensAssumption, MountedNext DEF FilterOn
<1>8. ASSUME NEW q \in followed
      PROVE  Due(pending', q) \/ Kept(q)'
  <2>1. Due(pending, q) \/ Kept(q) BY DEF Honoured
  <2>2. q \in Mounted(v, cache) => q \in New(v, cache) \/ q \in Mounted(view, cache)
    BY DEF New
  <2> QED BY <1>1, <1>2, <1>3, <1>7, <2>1, <2>2, Carries
<1> QED BY <1>1, <1>4, <1>5, <1>6, <1>8 DEF Honoured

(* The recruiter chooses another stage: its entry comes up.                *)
LEMMA FilterKeeps ==
    ASSUME ScreensInv, NEW f \in StageFilters, Filter(f)
    PROVE  ScreensInv'
<1> USE DEF ScreensInv
<1>1. /\ filter' = f /\ moves' = moves + 1 /\ moves < MaxMoves
      /\ UNCHANGED <<followed, owing, view, cache, written, owed>>
      /\ pending' = Filtered(pending, f)
      /\ Shows({f} \cap followed, cache, loading)
  BY DEF Filter, fixed
<1>2. /\ loading' \in [followed -> Nat \cup {Absent}]
      /\ \A q \in followed :
            /\ loading'[q] = loading[q] \/ (loading[q] = Absent /\ loading'[q] = written)
            /\ q = f /\ cache[q] # Absent /\ cache[q].invalid => loading'[q] # Absent
  BY <1>1, ShowsLoads DEF ScreensTyped
<1>3. /\ pending' \in SUBSET Pending
      /\ \A p \in pending' : \E o \in pending : p.wrote = o.wrote
      /\ \A q : Due(pending, q) => Due(pending', q)
  BY <1>1, FilteredTyped DEF ScreensTyped
<1>4. ScreensTyped'
  BY <1>1, <1>2, <1>3, ScreensAssumption DEF ScreensTyped
<1>5. Bounded'
  BY <1>1, <1>2, <1>3 DEF Bounded, ScreensTyped
<1>6. AllTold'
  BY <1>1 DEF AllTold
<1>7. \A q \in Mounted(view, cache)' : q = f \/ q \in Mounted(view, cache)
  BY <1>1 DEF Mounted, Up
<1>8. ASSUME NEW q \in followed
      PROVE  Due(pending', q) \/ Kept(q)'
  <2>1. Due(pending, q) \/ Kept(q) BY DEF Honoured
  <2> QED BY <1>1, <1>2, <1>3, <1>7, <2>1, Carries
<1> QED BY <1>1, <1>4, <1>5, <1>6, <1>8 DEF Honoured

(* The window gets the focus, and what is stale is asked for again.        *)
LEMMA FocusKeeps ==
    ASSUME ScreensInv, Focus
    PROVE  ScreensInv'
<1> USE DEF ScreensInv
<1>1. /\ UNCHANGED <<followed, owing, view, filter, cache, written, pending, owed, moves>>
      /\ Mounted(view, cache)' = Mounted(view, cache)
  BY DEF Focus, fixed, Mounted, Up
<1>2. PICK qs : loading' = Load(qs)
  BY DEF Focus
<1>3. /\ loading' \in [followed -> Nat \cup {Absent}]
      /\ \A q \in followed :
            loading'[q] = loading[q] \/ (loading[q] = Absent /\ loading'[q] = written)
  BY <1>2 DEF Load, ScreensTyped
<1>4. ScreensTyped'
  BY <1>1, <1>3 DEF ScreensTyped
<1>5. Bounded'
  BY <1>1, <1>3 DEF Bounded, ScreensTyped
<1>6. AllTold'
  BY <1>1 DEF AllTold
<1>7. ASSUME NEW q \in followed
      PROVE  Due(pending', q) \/ Kept(q)'
  <2>1. Due(pending, q) \/ Kept(q) BY DEF Honoured
  <2> QED BY <1>1, <1>3, <2>1, Carries
<1> QED BY <1>1, <1>4, <1>5, <1>6, <1>7 DEF Honoured

(* An answer arrives: it shows at least the writes done when it was asked  *)
(* for.                                                                    *)
LEMMA RespondKeeps ==
    ASSUME ScreensInv, NEW r \in followed, Respond(r)
    PROVE  ScreensInv'
<1> USE DEF ScreensInv
<1> DEFINE done == [loading EXCEPT ![r] = Absent]
<1>1. /\ UNCHANGED <<followed, owing, view, filter, written, owed, moves>>
      /\ loading[r] # Absent
      /\ pending' = Released(pending, {r})
  BY DEF Respond, fixed
<1>2. PICK seen \in loading[r]..written :
         cache' = [cache EXCEPT ![r] = [seen |-> seen, invalid |-> FALSE, error |-> FALSE]]
  BY DEF Respond
<1>3. /\ loading[r] \in Nat /\ written \in Nat /\ seen \in Nat /\ seen >= loading[r]
      /\ Absent \notin Nat /\ done \in [followed -> Nat \cup {Absent}]
  BY <1>1, ScreensAssumption DEF ScreensTyped
<1>4. /\ loading' \in [followed -> Nat \cup {Absent}]
      /\ \A q \in followed :
            /\ loading'[q] = done[q] \/ (done[q] = Absent /\ loading'[q] = written)
            /\ q \in Mounted(view, cache)' /\ loading'[q] = Absent /\ cache'[q] # Absent
                  /\ cache'[q].invalid => q \in Mounted(view, cache)
  <2>1. Shows(Mounted(view, cache') \ Mounted(view, cache), cache', done)
    BY DEF Respond
  <2>2. Mounted(view, cache)' = Mounted(view, cache')
    BY <1>1 DEF Mounted, Up
  <2> HIDE DEF done
  <2> QED BY <1>3, <2>1, <2>2, ShowsLoads
<1>5. /\ pending' \in SUBSET Pending
      /\ \A p \in pending' : \E o \in pending : p.wrote = o.wrote
      /\ \A q : Due(pending, q) => Due(pending', q)
  BY <1>1, ReleasedTyped DEF ScreensTyped
<1>6. ScreensTyped'
  BY <1>1, <1>2, <1>3, <1>4, <1>5 DEF ScreensTyped, Answer
<1>7. Bounded'
  <2>1. \A q \in followed : loading'[q] # Absent => loading'[q] \in {loading[q], written}
    BY <1>4 DEF ScreensTyped
  <2>2. \A p \in pending' : p.wrote <= written
    BY <1>5 DEF Bounded
  <2> QED BY <1>1, <1>3, <2>1, <2>2 DEF Bounded
<1>8. AllTold'
  BY <1>1 DEF AllTold
<1>9. ASSUME NEW q \in followed, q # r
      PROVE  Due(pending', q) \/ Kept(q)'
  <2>1. Due(pending, q) \/ Kept(q) BY DEF Honoured
  <2>2. cache'[q] = cache[q] /\ done[q] = loading[q]
    BY <1>2, <1>9 DEF ScreensTyped
  <2> HIDE DEF done
  <2> QED BY <1>1, <1>4, <1>5, <2>1, <2>2, Carries
<1>10. Due(pending', r) \/ Kept(r)'
  <2>1. CASE Due(pending, r) BY <2>1, <1>5
  <2>2. CASE Kept(r)
    <3>1. cache'[r].seen = seen
      BY <1>2 DEF ScreensTyped
    <3>2. owed[r] \in Nat /\ owed[r] <= written /\ owed[r] <= loading[r] /\ owed'[r] = owed[r]
      BY <1>1, <1>3, <2>2 DEF Kept, ScreensTyped, Bounded
    <3>3. loading'[r] \in {Absent, written}
      BY <1>4 DEF ScreensTyped
    <3> QED BY <1>3, <3>1, <3>2, <3>3 DEF Kept
  <2> QED BY <2>1, <2>2 DEF Honoured
<1> QED BY <1>1, <1>6, <1>7, <1>8, <1>9, <1>10 DEF Honoured

(* A load fails: what was there is kept, marked, and in error.             *)
LEMMA RespondFailsKeeps ==
    ASSUME ScreensInv, NEW r \in followed, RespondFails(r)
    PROVE  ScreensInv'
<1> USE DEF ScreensInv
<1>1. /\ UNCHANGED <<followed, owing, view, filter, written, owed, moves>>
      /\ loading' = [loading EXCEPT ![r] = Absent]
      /\ pending' = Released(pending, {r})
  BY DEF RespondFails, fixed
<1>2. \/ cache[r] = Absent /\ cache' = cache
      \/ /\ cache[r] \in Answer
         /\ cache' = [cache EXCEPT ![r] = [cache[r] EXCEPT !.invalid = TRUE, !.error = TRUE]]
  BY DEF RespondFails, ScreensTyped
<1>3. /\ cache' \in [followed -> Answer \cup {Absent}]
      /\ \A q \in followed : cache[q] = Absent <=> cache'[q] = Absent
      /\ cache'[r] # Absent => cache'[r].invalid /\ cache'[r].error
      /\ \A q \in followed \ {r} : cache'[q] = cache[q]
  <2>1. CASE cache[r] = Absent /\ cache' = cache
    BY <2>1 DEF ScreensTyped
  <2>2. CASE /\ cache[r] \in Answer
             /\ cache' = [cache EXCEPT ![r] = [cache[r] EXCEPT !.invalid = TRUE, !.error = TRUE]]
    <3> DEFINE new == [cache[r] EXCEPT !.invalid = TRUE, !.error = TRUE]
    <3>1. new \in Answer /\ new.invalid /\ new.error
      BY <2>2 DEF Answer
    <3> HIDE DEF new
    <3> QED BY <2>2, <3>1, ScreensAssumption DEF ScreensTyped, new
  <2> QED BY <1>2, <2>1, <2>2
<1>4. Mounted(view, cache)' \subseteq Mounted(view, cache)
  <2>1. Up(view, cache') => Up(view, cache)
    BY <1>3 DEF Up
  <2> QED BY <1>1, <2>1 DEF Mounted, Up
<1>5. /\ pending' \in SUBSET Pending
      /\ \A p \in pending' : \E o \in pending : p.wrote = o.wrote
      /\ \A q : Due(pending, q) => Due(pending', q)
  BY <1>1, ReleasedTyped DEF ScreensTyped
<1>6. ScreensTyped'
  BY <1>1, <1>3, <1>5 DEF ScreensTyped
<1>7. Bounded'
  BY <1>1, <1>5 DEF Bounded, ScreensTyped
<1>8. AllTold'
  BY <1>1 DEF AllTold
<1>9. ASSUME NEW q \in followed, q # r
      PROVE  Due(pending', q) \/ Kept(q)'
  <2>1. Due(pending, q) \/ Kept(q) BY DEF Honoured
  <2>2. cache'[q] = cache[q] /\ loading'[q] = loading[q]
    BY <1>1, <1>3, <1>9 DEF ScreensTyped
  <2> QED BY <1>1, <1>4, <1>5, <2>1, <2>2, Carries
<1>10. Kept(r)'
  BY <1>1, <1>3 DEF Kept, ScreensTyped
<1> QED BY <1>1, <1>6, <1>7, <1>8, <1>9, <1>10 DEF Honoured

-----------------------------------------------------------------------------
(* A step that changes the clicks only, or does a write, keeps the         *)
(* invariant when it takes no telling away.                                *)
LEMMA PendingKeeps ==
    ASSUME ScreensInv,
           UNCHANGED <<followed, owing, view, filter, cache, loading, owed, moves>>,
           written' \in Nat, written <= written', pending' \in SUBSET Pending,
           \A p \in pending' : p.wrote <= written',
           \A q \in followed : Due(pending, q) => Due(pending', q)
    PROVE  ScreensInv'
<1> USE DEF ScreensInv
<1>1. ScreensTyped' /\ AllTold'
  BY DEF ScreensTyped, AllTold
<1>2. Bounded'
  BY ScreensAssumption DEF Bounded, ScreensTyped
<1>3. ASSUME NEW q \in followed
      PROVE  Due(pending', q) \/ Kept(q)'
  <2>1. Due(pending, q) \/ Kept(q) BY DEF Honoured
  <2>2. Mounted(view, cache)' = Mounted(view, cache) BY DEF Mounted, Up
  <2> QED BY <2>1, <2>2, Carries
<1> QED BY <1>1, <1>2, <1>3 DEF Honoured

(* The recruiter clicks.                                                   *)
LEMMA ClickKeeps ==
    ASSUME ScreensInv, NEW b \in DOMAIN Buttons, Click(b)
    PROVE  ScreensInv'
<1> DEFINE p == [button |-> b, here |-> TRUE, latest |-> TRUE, filter |-> filter,
                 wrote |-> 0, told |-> 0, waits |-> {}]
           earlier == Superseded(pending, b)
<1>1. /\ UNCHANGED <<followed, owing, view, filter, cache, loading, written, owed, moves>>
      /\ pending' = earlier \cup {p}
  BY DEF Click, fixed
<1>2. p \in Pending /\ p.wrote = 0
  BY DEF Pending, ScreensInv, ScreensTyped
<1>3. /\ earlier \in SUBSET Pending
      /\ \A o \in earlier : \E n \in pending : o.wrote = n.wrote
      /\ \A q : Due(pending, q) => Due(earlier, q)
  BY SupersededTyped DEF ScreensInv, ScreensTyped
<1> HIDE DEF p, earlier
<1>4. /\ pending' \in SUBSET Pending
      /\ \A o \in pending' : o.wrote <= written'
      /\ written' \in Nat /\ written <= written'
  BY <1>1, <1>2, <1>3 DEF ScreensInv, ScreensTyped, Bounded
<1>5. \A q : Due(pending, q) => Due(pending', q)
  BY <1>1, <1>3 DEF Due
<1> QED BY <1>1, <1>4, <1>5, PendingKeeps

(* The server does the write of a click.                                   *)
LEMMA ServerWritesKeeps ==
    ASSUME ScreensInv, NEW p \in pending, ServerWrites(p)
    PROVE  ScreensInv'
<1> DEFINE n == [p EXCEPT !.wrote = written + 1]
<1>1. /\ UNCHANGED <<followed, owing, view, filter, cache, loading, owed, moves>>
      /\ written' = written + 1
      /\ pending' = (pending \ {p}) \cup {n}
  BY DEF ServerWrites, fixed
<1>2. n \in Pending /\ n.wrote = written + 1 /\ n.told = p.told /\ n.button = p.button
  BY DEF ScreensInv, ScreensTyped, Pending
<1> HIDE DEF n
<1>3. /\ pending' \in SUBSET Pending
      /\ \A o \in pending' : o.wrote <= written'
      /\ written' \in Nat /\ written <= written'
  <2>1. \A o \in pending : o.wrote <= written /\ o.wrote \in Nat
    BY DEF ScreensInv, ScreensTyped, Bounded, Pending
  <2> QED BY <1>1, <1>2, <2>1 DEF ScreensInv, ScreensTyped
<1>4. \A q : Due(pending, q) => Due(pending', q)
  <2>1. \A q : WillTell(p, q) => WillTell(n, q)
    BY <1>2 DEF WillTell
  <2> QED BY <1>1, <2>1 DEF Due
<1> QED BY <1>1, <1>3, <1>4, PendingKeeps

(* A click fails: it had told nothing, so nothing was owed for it.         *)
LEMMA ClickFailsKeeps ==
    ASSUME ScreensInv, NEW p \in pending, ClickFails(p)
    PROVE  ScreensInv'
<1>1. /\ UNCHANGED <<followed, owing, view, filter, cache, loading, written, owed, moves>>
      /\ pending' = pending \ {p} /\ p.told = 0
  BY DEF ClickFails, fixed
<1>2. /\ pending' \in SUBSET Pending
      /\ \A o \in pending' : o.wrote <= written'
      /\ written' \in Nat /\ written <= written'
  BY <1>1 DEF ScreensInv, ScreensTyped, Bounded
<1>3. \A q : Due(pending, q) => Due(pending', q)
  BY <1>1 DEF Due, WillTell
<1> QED BY <1>1, <1>2, <1>3, PendingKeeps

-----------------------------------------------------------------------------
(* What one telling does to each query: one it names is loading from the   *)
(* last write on, or its first load was left running, or it is off the     *)
(* screen and marked.                                                      *)
LEMMA ToldLoads ==
    ASSUME ScreensTyped, NEW t, t.how \in Hows
    PROVE  /\ Told(t) \in [followed -> Nat \cup {Absent}]
           /\ Marked(t) \in [followed -> Answer \cup {Absent}]
           /\ \A q \in followed :
                 /\ Told(t)[q] \in {loading[q], written}
                 /\ Marked(t)[q] = Absent <=> cache[q] = Absent
                 /\ cache[q] # Absent => Marked(t)[q].error = cache[q].error
                 /\ q \notin t.queries => Told(t)[q] = loading[q] /\ Marked(t)[q] = cache[q]
                 /\ q \in t.queries =>
                       \/ q \in LeftRunning(t) /\ Told(t)[q] = loading[q] /\ loading[q] # Absent
                       \/ q \notin LeftRunning(t) /\ Told(t)[q] = written
                       \/ /\ q \notin LeftRunning(t) /\ q \notin Mounted(view, cache)
                          /\ Told(t)[q] = Absent
                          /\ Marked(t)[q] # Absent => Marked(t)[q].invalid
<1>1. Told(t) \in [followed -> Nat \cup {Absent}]
      /\ \A q \in followed : Told(t)[q] \in {loading[q], written}
  BY DEF Told, ScreensTyped
<1>2. ASSUME NEW a \in Answer
      PROVE  LET n == [a EXCEPT !.invalid = TRUE] IN
                n \in Answer /\ n.invalid /\ n.error = a.error
  BY DEF Answer
<1>3. /\ Marked(t) \in [followed -> Answer \cup {Absent}]
      /\ \A q \in followed :
            /\ Marked(t)[q] = Absent <=> cache[q] = Absent
            /\ cache[q] # Absent => Marked(t)[q].error = cache[q].error
            /\ q \notin t.queries => Marked(t)[q] = cache[q]
            /\ q \in t.queries /\ t.how = "invalidate" /\ Marked(t)[q] # Absent =>
                  Marked(t)[q].invalid
  BY <1>2, ScreensAssumption DEF Marked, ScreensTyped
<1>5. \A q \in followed : q \notin t.queries => q \notin Reached(t)
  BY DEF Reached
<1>6. ASSUME NEW q \in followed, q \in t.queries
      PROVE  \/ q \in LeftRunning(t) /\ Told(t)[q] = loading[q] /\ loading[q] # Absent
             \/ q \notin LeftRunning(t) /\ Told(t)[q] = written
             \/ /\ q \notin LeftRunning(t) /\ q \notin Mounted(view, cache)
                /\ Told(t)[q] = Absent /\ t.how = "invalidate"
  BY <1>6 DEF LeftRunning, Told, Reached, Restarts, Hows
<1>7. \A q \in followed : q \notin t.queries => Told(t)[q] = loading[q]
  BY <1>5 DEF Told
<1> QED BY <1>1, <1>3, <1>6, <1>7

(* A click that has told one more.                                         *)
LEMMA ToldTyped ==
    ASSUME NEW p \in Pending, NEW waits \in SUBSET Queries
    PROVE  LET n == [p EXCEPT !.told = @ + 1, !.waits = waits] IN
           n \in Pending /\ n.wrote = p.wrote /\ n.told = p.told + 1 /\ n.button = p.button
<1>1. p.told + 1 \in Nat BY DEF Pending
<1> QED BY <1>1 DEF Pending

(* A mutation's onSuccess runs its next telling. What it names is kept     *)
(* from then on; what the button owes and it does not name, a later        *)
(* telling does, so the click stays due; and the first load it leaves      *)
(* running it does not owe more than that load shows.                      *)
LEMMA TellKeeps ==
    ASSUME ScreensInv, NEW p \in pending, Tell(p)
    PROVE  ScreensInv'
<1> USE DEF ScreensInv
<1> DEFINE b == p.button
           tells == Buttons[b].tells
           t == Telling(p)
           last == p.told + 1 = Len(tells)
           waits == IF last THEN {} ELSE Reached(t)
           next == [p EXCEPT !.told = @ + 1, !.waits = waits]
           over == {q \in followed : Told(t)[q] # loading[q]}
           rest == Released(pending \ {p}, over) \cup (IF last THEN {} ELSE {next})
<1>1. /\ UNCHANGED <<followed, owing, written, moves>>
      /\ cache' = Marked(t)
      /\ owed' = [q \in followed |->
                     IF q \in LeftRunning(t) THEN Min({owed[q], loading[q]})
                     ELSE IF p.told = 0 /\ q \in owing[b] \ PassedOver(p) THEN Max({owed[q], p.wrote})
                     ELSE owed[q]]
  BY DEF Tell, fixed
<1>2. \/ /\ view' \in Views /\ filter' = FilterOn(view') /\ pending' = Gone(rest, view')
         /\ Shows(New(view', cache'), cache', Told(t))
      \/ view' = view /\ filter' = filter /\ loading' = Told(t) /\ pending' = rest
  BY DEF Tell
<1>3. /\ p \in Pending /\ b \in DOMAIN Buttons /\ p.told \in Nat /\ p.wrote \in Nat
      /\ p.wrote <= written /\ written \in Nat /\ Absent \notin Nat
  BY ScreensAssumption DEF ScreensTyped, Bounded, Pending
<1>4. /\ Row(tells) /\ p.told < Len(tells) /\ p.told + 1 \in DOMAIN tells
  <2>1. Row(tells) BY <1>3, ButtonTells
  <2>2. p.told < Len(tells) BY DEF Tell
  <2> QED BY <1>3, <2>1, <2>2 DEF Row
<1>5. /\ t.how \in Hows
      /\ p.told > 0 => t = tells[p.told + 1]
      /\ PassedOver(p) = tells[p.told + 1].queries \ t.queries
  <2>1. CASE tells[p.told + 1].how = "refetch"
    <3>1. p.told = 0 BY <1>3, <1>4, <2>1 DEF Row
    <3> QED BY <2>1, <3>1, TellingHows DEF Telling, PassedOver
  <2>2. CASE tells[p.told + 1].how # "refetch"
    BY <1>4, <2>2 DEF Telling, PassedOver, Row
  <2> QED BY <2>1, <2>2
<1> HIDE DEF t
<1>6. /\ Told(t) \in [followed -> Nat \cup {Absent}]
      /\ Marked(t) \in [followed -> Answer \cup {Absent}]
      /\ \A q \in followed :
            /\ Told(t)[q] \in {loading[q], written}
            /\ Marked(t)[q] = Absent <=> cache[q] = Absent
            /\ cache[q] # Absent => Marked(t)[q].error = cache[q].error
            /\ q \notin t.queries => Told(t)[q] = loading[q] /\ Marked(t)[q] = cache[q]
            /\ q \in t.queries =>
                  \/ q \in LeftRunning(t) /\ Told(t)[q] = loading[q] /\ loading[q] # Absent
                  \/ q \notin LeftRunning(t) /\ Told(t)[q] = written
                  \/ /\ q \notin LeftRunning(t) /\ q \notin Mounted(view, cache)
                     /\ Told(t)[q] = Absent
                     /\ Marked(t)[q] # Absent => Marked(t)[q].invalid
  BY <1>5, ToldLoads
<1>7. Mounted(view, cache') = Mounted(view, cache)
  BY <1>1, <1>6, SameShape
<1>8. Mounted(view, cache)' = Mounted(view', cache')
  <2>1. filter' = filter \/ view' \notin JobDetail
    BY <1>2 DEF FilterOn
  <2>2. view' \in DOMAIN QueriesOf
    BY <1>2, ScreensAssumption DEF ScreensTyped
  <2> QED BY <1>1, <2>1, <2>2, MountedNext
<1>9. next \in Pending /\ next.wrote = p.wrote /\ next.told = p.told + 1 /\ next.button = b
  <2>1. waits \in SUBSET Queries BY DEF ScreensTyped, Reached, Mounted
  <2> HIDE DEF waits
  <2> QED BY <1>3, <2>1, ToldTyped
<1> HIDE DEF next
<1>10. /\ rest \in SUBSET Pending
      /\ \A o \in rest : o.wrote <= written
  <2>1. pending \ {p} \in SUBSET Pending BY DEF ScreensTyped
  <2>2. /\ Released(pending \ {p}, over) \in SUBSET Pending
        /\ \A o \in Released(pending \ {p}, over) : o.wrote <= written
    <3> HIDE DEF over
    <3> QED BY <2>1, ReleasedTyped DEF Bounded
  <2> QED BY <1>3, <1>9, <2>2
<1>11. \A q : q \notin t.queries /\ Due(pending, q) => Due(rest, q)
  <2> SUFFICES ASSUME NEW q, q \notin t.queries, NEW o \in pending, WillTell(o, q)
               PROVE  Due(rest, q)
    BY DEF Due
  <2>1. CASE o # p
    <3>1. Due(pending \ {p}, q) BY <2>1 DEF Due
    <3>2. Due(Released(pending \ {p}, over), q)
      <4> HIDE DEF over
      <4> QED BY <3>1, ReleasedTyped DEF ScreensTyped
    <3> QED BY <3>2 DEF Due
  <2>2. CASE o = p
    <3>1. PICK i \in DOMAIN tells : i > p.told /\ q \in tells[i].queries
      BY <2>2 DEF WillTell
    <3>2. i > p.told + 1 /\ ~last
      BY <1>3, <1>4, <1>5, <2>2, <3>1 DEF Row, WillTell
    <3>3. WillTell(next, q)
      BY <1>3, <1>9, <3>1, <3>2 DEF WillTell
    <3> QED BY <3>2, <3>3 DEF Due
  <2> QED BY <2>1, <2>2
<1>12. \A q \in owing[b] \ PassedOver(p) : q \notin t.queries /\ p.told = 0 => Due(rest, q)
  <2> SUFFICES ASSUME NEW q \in owing[b] \ PassedOver(p), q \notin t.queries, p.told = 0
               PROVE  Due(rest, q)
    OBVIOUS
  <2>1. PICK i \in DOMAIN tells : q \in tells[i].queries
    BY <1>3 DEF AllTold, TellsOf
  <2>2. i > 1 /\ ~last
    BY <1>3, <1>4, <1>5, <2>1 DEF Row
  <2>3. WillTell(next, q)
    BY <1>3, <1>9, <2>1, <2>2 DEF WillTell
  <2> QED BY <2>2, <2>3 DEF Due
<1> HIDE DEF rest, last
<1>13. /\ pending' \in SUBSET Pending
       /\ \A o \in pending' : o.wrote <= written
       /\ \A q : Due(rest, q) => Due(pending', q)
  BY <1>2, <1>10, GoneTyped
<1>14. /\ loading' \in [followed -> Nat \cup {Absent}]
       /\ \A q \in followed :
             /\ loading'[q] = Told(t)[q] \/ (Told(t)[q] = Absent /\ loading'[q] = written)
             /\ /\ q \in Mounted(view, cache)' /\ loading'[q] = Absent
                /\ cache'[q] # Absent /\ cache'[q].invalid
                => q \in Mounted(view, cache)
  <2>1. CASE Shows(New(view', cache'), cache', Told(t))
    <3>1. \A q \in Mounted(view', cache') : q \in New(view', cache') \/ q \in Mounted(view, cache')
      BY DEF New
    <3> QED BY <1>3, <1>6, <1>7, <1>8, <2>1, <3>1, ShowsLoads
  <2>2. CASE view' = view /\ loading' = Told(t) BY <1>6, <1>7, <1>8, <2>2
  <2> QED BY <1>2, <2>1, <2>2
<1>15. /\ owed' \in [followed -> Nat]
       /\ \A q \in followed :
             /\ owed'[q] <= written
             /\ q \in LeftRunning(t) => owed'[q] <= loading[q]
             /\ q \notin LeftRunning(t) =>
                   owed'[q] = owed[q] \/ (p.told = 0 /\ q \in owing[b] \ PassedOver(p))
  <2> SUFFICES ASSUME NEW q \in followed
               PROVE  /\ owed'[q] \in Nat
                      /\ owed'[q] <= written
                      /\ q \in LeftRunning(t) => owed'[q] <= loading[q]
                      /\ q \notin LeftRunning(t) =>
                            owed'[q] = owed[q] \/ (p.told = 0 /\ q \in owing[b] \ PassedOver(p))
    BY <1>1
  <2>1. owed[q] \in Nat /\ owed[q] <= written
    BY DEF ScreensTyped, Bounded
  <2>2. CASE q \in LeftRunning(t)
    <3>1. loading[q] \in Nat BY <2>2 DEF LeftRunning, ScreensTyped
    <3>2. owed'[q] = Min({owed[q], loading[q]}) BY <1>1, <2>2
    <3>3. /\ Min({owed[q], loading[q]}) \in {owed[q], loading[q]}
          /\ Min({owed[q], loading[q]}) <= owed[q]
          /\ Min({owed[q], loading[q]}) <= loading[q]
      BY <2>1, <3>1, MinIs
    <3>4. /\ owed'[q] \in {owed[q], loading[q]}
          /\ owed'[q] <= owed[q]
          /\ owed'[q] <= loading[q]
      BY <3>2, <3>3
    <3>5. written \in Nat BY DEF ScreensTyped
    <3>6. owed'[q] \in Nat BY <2>1, <3>1, <3>4
    <3>7. owed'[q] <= written BY <2>1, <3>4, <3>5, <3>6
    <3> QED BY <2>2, <3>4, <3>6, <3>7
  <2>3. CASE q \notin LeftRunning(t) /\ p.told = 0 /\ q \in owing[b] \ PassedOver(p)
    <3>1. owed'[q] = Max({owed[q], p.wrote}) BY <1>1, <2>3
    <3>2. p.wrote \in Nat /\ p.wrote <= written BY <1>3 DEF ScreensTyped, Bounded, Pending
    <3>3. /\ Max({owed[q], p.wrote}) \in {owed[q], p.wrote} BY <2>1, <3>2, MaxIs
    <3>4. owed'[q] \in Nat /\ owed'[q] <= written BY <2>1, <3>1, <3>2, <3>3
    <3> QED BY <2>3, <3>4
  <2>4. CASE q \notin LeftRunning(t) /\ ~(p.told = 0 /\ q \in owing[b] \ PassedOver(p))
    BY <1>1, <2>1, <2>4
  <2> QED BY <2>2, <2>3, <2>4
<1>16. ScreensTyped'
  BY <1>1, <1>2, <1>6, <1>13, <1>14, <1>15 DEF ScreensTyped, FilterOn, StageFilters
<1>17. Bounded'
  <2>1. \A q \in followed : loading'[q] # Absent => loading'[q] <= written
    BY <1>3, <1>6, <1>14 DEF Bounded
  <2> QED BY <1>1, <1>13, <1>15, <2>1 DEF Bounded
<1>18. AllTold'
  BY <1>1 DEF AllTold
<1>19. ASSUME NEW q \in followed, q \in t.queries
       PROVE  Kept(q)'
  <2>1. owed'[q] \in Nat /\ owed'[q] <= written
    BY <1>15
  <2>2. CASE q \in LeftRunning(t) /\ Told(t)[q] = loading[q] /\ loading[q] # Absent
    <3>1. loading'[q] = loading[q] /\ owed'[q] <= loading[q] /\ loading[q] \in Nat
      BY <1>14, <1>15, <2>2 DEF ScreensTyped
    <3> QED BY <2>1, <2>2, <3>1 DEF Kept
  <2>3. CASE Told(t)[q] = written
    <3>1. loading'[q] = written BY <1>3, <1>14, <2>3
    <3> QED BY <1>3, <2>1, <3>1 DEF Kept
  <2>4. CASE /\ q \notin Mounted(view, cache) /\ Told(t)[q] = Absent
             /\ Marked(t)[q] # Absent => Marked(t)[q].invalid
    <3>1. loading'[q] \in {Absent, written} BY <1>14, <2>4
    <3>2. cache'[q] # Absent => cache'[q].invalid BY <1>1, <2>4
    <3>3. loading'[q] = Absent /\ cache'[q] # Absent => q \notin Mounted(view, cache)'
      BY <1>14, <2>4, <3>2
    <3> QED BY <1>3, <2>1, <3>1, <3>2, <3>3 DEF Kept
  <2> QED BY <1>6, <1>19, <2>2, <2>3, <2>4
<1>20. ASSUME NEW q \in followed, q \notin t.queries
       PROVE  Due(pending', q) \/ Kept(q)'
  <2>1. Due(pending, q) => Due(pending', q)
    BY <1>11, <1>13, <1>20
  <2>2. q \notin LeftRunning(t)
    BY <1>20 DEF LeftRunning
  <2>3. CASE p.told = 0 /\ q \in owing[b] \ PassedOver(p)
    BY <1>12, <1>13, <1>20, <2>3
  <2>4. CASE owed'[q] = owed[q]
    <3>1. Due(pending, q) \/ Kept(q) BY DEF Honoured
    <3>2. cache'[q] = cache[q] /\ Told(t)[q] = loading[q]
      BY <1>1, <1>6, <1>20
    <3>3. loading'[q] = loading[q] \/ (loading[q] = Absent /\ loading'[q] = written)
      BY <1>14, <3>2
    <3>4. q \in Mounted(view, cache)' /\ loading'[q] = Absent /\ cache[q] # Absent
             /\ cache[q].invalid => q \in Mounted(view, cache)
      BY <1>14, <3>2
    <3> QED BY <1>1, <2>1, <2>4, <3>1, <3>2, <3>3, <3>4, Carries
  <2> QED BY <1>15, <2>2, <2>3, <2>4
<1> QED BY <1>1, <1>16, <1>17, <1>18, <1>19, <1>20 DEF Honoured

-----------------------------------------------------------------------------
(* What is owed to a query the screens show (the write of a button whose   *)
(* onSuccess invalidates or refetches it) is in the load under way; with   *)
(* no load it is in the answer, or the answer is marked, and off the       *)
(* screen or in error; or a click has still to tell the query of it.       *)
(* Whatever the queries followed and however many clicks, writes and moves *)
(* (web/src/screens, React Query's cache as main.tsx sets it up).          *)
THEOREM ScreensInvariance == ScreensSpec => []ScreensInv
<1>1. ScreensInit => ScreensInv
  BY InitHonours
<1>2. ScreensInv /\ [ScreensNext]_screenVars => ScreensInv'
  <2> SUFFICES ASSUME ScreensInv, [ScreensNext]_screenVars
               PROVE  ScreensInv'
    OBVIOUS
  <2>1. CASE \E v \in Views : Move(v) BY <2>1, MoveKeeps
  <2>2. CASE Focus BY <2>2, FocusKeeps
  <2>3. CASE \E f \in StageFilters : Filter(f) BY <2>3, FilterKeeps
  <2>4. CASE \E q \in followed : Respond(q) \/ RespondFails(q)
    BY <2>4, RespondKeeps, RespondFailsKeeps
  <2>5. CASE \E b \in DOMAIN Buttons : Click(b) BY <2>5, ClickKeeps
  <2>6. CASE \E p \in pending : ServerWrites(p) \/ ClickFails(p) \/ Tell(p)
    BY <2>6, ServerWritesKeeps, ClickFailsKeeps, TellKeeps
  <2>7. CASE UNCHANGED screenVars
    <3>1. written' \in Nat /\ written <= written'
      BY <2>7 DEF screenVars, ScreensInv, ScreensTyped
    <3>2. pending' = pending BY <2>7 DEF screenVars
    <3> QED BY <2>7, <3>1, <3>2, PendingKeeps
               DEF screenVars, fixed, ScreensInv, ScreensTyped, Bounded
  <2> QED BY <2>1, <2>2, <2>3, <2>4, <2>5, <2>6, <2>7 DEF ScreensNext
<1> QED BY <1>1, <1>2, PTL DEF ScreensSpec

(* When the client is at rest (no click unanswered, nothing on the screen  *)
(* loading), what a screen shows without an error has every own write in   *)
(* it that the buttons tell of: no order of clicks, those of one mutation  *)
(* that overlap among them, of writes, answers, failures, moves to other   *)
(* screens and filters chosen leaves an answer from before the write up as *)
(* if it were fresh. Told of is, where a refetch is for one stage only,    *)
(* the entry of that stage.                                                *)
THEOREM OwnWritesStayShown == ScreensSpec => []OwnWritesShown
<1>1. ScreensInv => OwnWritesShown
  BY HonouredShows DEF ScreensInv
<1> QED BY ScreensInvariance, <1>1, PTL

=============================================================================
