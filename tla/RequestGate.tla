----------------------------- MODULE RequestGate -----------------------------
(***************************************************************************)
(* The way of a request through the server, and the end of the server: the *)
(* rate limit on mutating requests, the gate that asks for a permission,   *)
(* the handler, and the graceful shutdown that has to wait for handlers.   *)
(*                                                                         *)
(* A hook runs without being interrupted; between the hooks, and within    *)
(* the handler, other requests, signals and the shutdown go on.            *)
(*                                                                         *)
(* Abstracted: what handlers do (the other modules) but for what they      *)
(* write, and header and body formats.                                     *)
(***************************************************************************)
EXTENDS Routes, FiniteSets, SequencesExt

CONSTANTS
    Slots,          \* bound: requests in flight
    Clients,        \* keys of the rate limiter
    Asked,          \* bound: the routes requests are made to
    Actors,         \* the actors that requests name
    RoleOf,         \* the actor registry
    DefaultActor,   \* who is meant when no actor is named
    Window,         \* rateLimitWindowMs, in ticks of the clock
    Limit,          \* rateLimitMax
    MaxBuckets,     \* how many buckets start a clean-up
    MaxTime,        \* bound: ticks
    MaxRequests,    \* bound: mutating requests of a client
    None            \* no request, bucket, actor, role or permission

Roles == {"Admin", "Recruiter", "Viewer"}

Time == 0..MaxTime
Ages == 0..(Window - 1)
Bucket == [count : 0..MaxRequests, resetAt : 0..(MaxTime + Window)]
Request == [step : {"preHandler", "handler"}, route : Asked, role : Roles \cup {None}]

ASSUME GateAssumption ==
    /\ Asked \subseteq AllRoutes
    /\ Window \in Nat \ {0} /\ Limit \in Nat \ {0} /\ MaxBuckets \in Nat
    /\ MaxTime \in Nat /\ MaxRequests \in Nat
    /\ RoleOf \in [Actors -> Roles \cup {None}]
    /\ DefaultActor \in Actors /\ None \notin Actors \cup Roles \cup Bucket

Signals == {"SIGINT", "SIGTERM"}

-----------------------------------------------------------------------------
(* Mutant of RulesFor: any rule of the path, whatever its method.          *)
RulesForPath(route) ==
    {i \in DOMAIN AuthorizedRoutes : PathMatches(AuthorizedRoutes[i].path, route.path)}

RulesFor(route) ==
    {i \in DOMAIN AuthorizedRoutes :
        /\ AuthorizedRoutes[i].method = route.method
        /\ PathMatches(AuthorizedRoutes[i].path, route.path)}

(* matchRoutePermission: the first rule of the method whose path matches.  *)
PermissionFor ==
    [route \in AllRoutes |->
        LET first == {i \in RulesFor(route) : \A j \in RulesFor(route) : i <= j}
        IN  IF first = {} THEN None ELSE AuthorizedRoutes[CHOOSE i \in first : TRUE].permission]

Mutating(route) == route.method # "GET"

(* ROLE_PERMISSIONS.                                                       *)
Permissions(role) ==
    LET asked == {rule.permission : rule \in ToSet(AuthorizedRoutes)} IN
    CASE role = "Admin" -> asked \cup {"admin.manage"}
      [] role = "Recruiter" -> asked
      [] role = "Viewer" ->
            {"candidate.read", "job.read", "relationship.read", "analytics.read", "copilot.use",
             "matching.read", "notification.read", "integration.read", "search.read",
             "report.read"}
      [] OTHER -> {}

(* resolveActorId: the header, then the body, then the query.              *)
Sources == {"header", "body", "query"}

ActorOf(said) ==
    LET first == CHOOSE x \in Sources :
                     /\ said[x] # None
                     /\ x # "header" => said["header"] = None
                     /\ x = "query" => said["body"] = None
    IN  IF \E x \in Sources : said[x] # None THEN said[first] ELSE DefaultActor

(* Whoever a request may be taken for.                                     *)
Named == {ActorOf(said) : said \in [Sources -> Actors \cup {None}]}

(* AuthorizationService.authorize.                                         *)
Allowed(actor, permission) == permission \in Permissions(RoleOf[actor])

-----------------------------------------------------------------------------
VARIABLES
    now,        \* Date.now()
    buckets,    \* of the rate limiter, by client
    requests,   \* in flight: the hook or handler a request is waiting for
    server,     \* where its end has come to
    caught,     \* signals whose handler process.once has used up
    recent      \* history: by client, the mutating requests let through since this many ticks ago

vars == <<now, buckets, requests, server, caught, recent>>

Ended == {"exited", "failed", "killed"}

TypeOK ==
    /\ now \in Time
    /\ buckets \in [Clients -> Bucket \cup {None}]
    /\ requests \in [Slots -> Request \cup {None}]
    /\ server \in {"listening", "closing", "disconnecting", "flushing", "failing"} \cup Ended
    /\ caught \subseteq Signals
    /\ recent \in [Clients -> [Ages -> Nat]]

Init ==
    /\ now = 0
    /\ buckets = [c \in Clients |-> None]
    /\ requests = [s \in Slots |-> None]
    /\ server = "listening"
    /\ caught = {}
    /\ recent = [c \in Clients |-> [age \in Ages |-> 0]]

(* The clock goes on; only the rate limiter reads it.                      *)
Tick ==
    /\ now < MaxTime
    /\ server = "listening"
    /\ now' = now + 1
    /\ recent' = [c \in Clients |->
                    [age \in Ages |-> IF age = 0 THEN 0 ELSE recent[c][age - 1]]]
    /\ UNCHANGED <<buckets, requests, server, caught>>

-----------------------------------------------------------------------------
(* InMemoryRateLimiter.check.                                              *)

(* The client's bucket, with this request counted.                         *)
Current(c) ==
    IF buckets[c] = None \/ now >= buckets[c].resetAt
      THEN [count |-> 1, resetAt |-> now + Window]
      ELSE [buckets[c] EXCEPT !.count = @ + 1]

(* Mutant of Pruned: all of them go when there are too many.               *)
PrunedAll(all) ==
    IF Cardinality({c \in Clients : all[c] # None}) > MaxBuckets
      THEN [c \in Clients |-> None] ELSE all

(* Those whose window is over go when there are too many.                  *)
Pruned(all) ==
    IF Cardinality({c \in Clients : all[c] # None}) > MaxBuckets
      THEN [c \in Clients |-> IF all[c] # None /\ now >= all[c].resetAt THEN None ELSE all[c]]
      ELSE all

(* Whether the client is within its limit.                                 *)
Check(c) ==
    LET bucket == Current(c)
        all == [buckets EXCEPT ![c] = bucket]
    IN  /\ bucket.count <= MaxRequests
        /\ buckets' = IF bucket.count <= Limit THEN Pruned(all) ELSE all
        /\ recent' = IF bucket.count <= Limit
                       THEN [recent EXCEPT ![c] = [age \in Ages |-> @[age] + 1]] ELSE recent

(* onRequest: only mutating requests are counted; one over the limit is    *)
(* answered at once.                                                       *)
OnRequest(s, c, route) ==
    LET let == ~Mutating(route) \/ Current(c).count <= Limit
    IN  /\ server = "listening"
        /\ requests[s] = None
        /\ IF Mutating(route) THEN Check(c) ELSE UNCHANGED <<buckets, recent>>
        /\ requests' = [requests EXCEPT ![s] =
               IF let THEN [step |-> "preHandler", route |-> route, role |-> None] ELSE None]
        /\ UNCHANGED <<now, server, caught>>

(* preHandler: the request goes on to its handler,                         *)
PreHandler(s, actor) ==
    /\ requests[s] # None /\ requests[s].step = "preHandler"
    /\ LET permission == PermissionFor[requests[s].route]
       IN  permission = None \/ Allowed(actor, permission)
    /\ requests' = [requests EXCEPT ![s].step = "handler", ![s].role = RoleOf[actor]]
    /\ UNCHANGED <<now, buckets, server, caught, recent>>

(* or it is answered: a malformed id, or an actor that is not allowed.     *)
Refuse(s) ==
    /\ requests[s] # None /\ requests[s].step = "preHandler"
    /\ requests' = [requests EXCEPT ![s] = None]
    /\ UNCHANGED <<now, buckets, server, caught, recent>>

(* The handler answers.                                                    *)
Handle(s) ==
    /\ requests[s] # None /\ requests[s].step = "handler"
    /\ requests' = [requests EXCEPT ![s] = None]
    /\ UNCHANGED <<now, buckets, server, caught, recent>>

-----------------------------------------------------------------------------
(* registerGracefulShutdown.                                               *)

GoTo(from, to) ==
    /\ server = from
    /\ server' = to
    /\ UNCHANGED <<now, buckets, requests, caught, recent>>

(* The first signal starts the shutdown, another one is ignored, and one   *)
(* that comes again finds no handler and ends the process.                 *)
Signal(name) ==
    /\ server \notin Ended
    /\ caught' = caught \cup {name}
    /\ server' = CASE name \in caught -> "killed"
                   [] name \notin caught /\ server = "listening" -> "closing"
                   [] OTHER -> server
    /\ UNCHANGED <<now, buckets, requests, recent>>

(* Mutant of CloseHttp: close is not awaited.                              *)
CloseHttpUnawaited == GoTo("closing", "disconnecting")

(* app.close() is over when no request is in flight.                       *)
CloseHttp ==
    /\ \A s \in Slots : requests[s] = None
    /\ GoTo("closing", "disconnecting")

DisconnectPrisma == GoTo("disconnecting", "flushing")

FlushLogs == GoTo("flushing", "exited")

(* One of the three rejects.                                               *)
ShutdownFails ==
    \E step \in {"closing", "disconnecting", "flushing"} : GoTo(step, "failing")

(* Mutant of ExitFailed: logs are flushed, and that is all.                *)
ExitFailedNever == GoTo("failing", "failing")

ExitFailed == GoTo("failing", "failed")

Shutdown == CloseHttp \/ DisconnectPrisma \/ FlushLogs \/ ExitFailed

-----------------------------------------------------------------------------
(* The process is there until it ended.                                    *)
Serve(s) ==
    /\ server \notin Ended
    /\ Refuse(s) \/ Handle(s)
         \/ \E actor \in Named : PreHandler(s, actor)

Next ==
    \/ Tick
    \/ \E s \in Slots, c \in Clients, r \in Asked : OnRequest(s, c, r)
    \/ \E s \in Slots : Serve(s)
    \/ \E name \in Signals : Signal(name)
    \/ Shutdown
    \/ ShutdownFails

(* Requests are answered: bodies by Node's request timeout, handlers since *)
(* their calls return; what the shutdown awaits is resolved or rejected.   *)
Fairness ==
    /\ \A s \in Slots : WF_vars(Serve(s))
    /\ WF_vars(Shutdown)

Spec == Init /\ [][Next]_vars /\ Fairness

-----------------------------------------------------------------------------
(* Properties.                                                             *)

(* However a client's requests fall on the windows, and whatever clean-up  *)
(* other clients cause, no span as long as a window has more than twice    *)
(* the limit (InMemoryRateLimiter.check, prune).                           *)
WindowBound == \A c \in Clients : recent[c][Window - 1] <= 2 * Limit

(* What a Viewer's request comes to change behind the gate is its own: the *)
(* inbox, saved searches, the time it spends on a review; and so it is on  *)
(* every route of the server the gate has a rule for (AUTHORIZED_ROUTES,   *)
(* in the order it is searched, against ROLE_PERMISSIONS).                 *)
Own == {"notification", "savedSearch", "session"}

OpenToViewer ==
    {r \in AllRoutes : PermissionFor[r] # None /\ PermissionFor[r] \in Permissions("Viewer")}

ViewerReadOnly ==
    /\ \A r \in OpenToViewer : r.writes \subseteq Own
    /\ \A s \in Slots :
        requests[s] # None /\ requests[s].role = "Viewer" =>
            requests[s].route.writes \subseteq Own \/ PermissionFor[requests[s].route] = None

(* No handler finds its database disconnected by a shutdown that goes as   *)
(* it should, and exit code 0 means that every request was answered        *)
(* (registerGracefulShutdown).                                             *)
DrainedBeforeDisconnect ==
    server \in {"disconnecting", "flushing", "exited"} => \A s \in Slots : requests[s] = None

(* A signal ends the process, whatever is in flight and whatever fails.    *)
ShutdownEnds == caught # {} ~> server \in Ended

=============================================================================
