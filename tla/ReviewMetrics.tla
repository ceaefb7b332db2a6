--------------------------- MODULE ReviewMetrics ----------------------------
(***************************************************************************)
(* How the review of candidates is measured: the review sessions           *)
(* (ReviewSessionMetricsService), the telemetry that the review handlers   *)
(* and the screens record, and what the operations dashboard makes of it.  *)
(*                                                                         *)
(* The handlers are those of CandidateKnowledge; a handler measures in the *)
(* step in which its last awaited call returns.  The sessions are in       *)
(* memory and go with the process; the telemetry is appended to a file and *)
(* stays.  A screen reports by beacon: at any time, once or never.         *)
(*                                                                         *)
(* Abstracted: times and durations, days, identities of sessions and       *)
(* traces, review modes and priorities; the telemetry is counted by what   *)
(* the figures below tell apart.                                           *)
(***************************************************************************)
EXTENDS ReviewView

CONSTANT
    MaxBeacons       \* bound: reviews opened and beacons sent

VARIABLES
    active,       \* by candidate, the session that is open, or None
    told,         \* how many events of a kind the telemetry file holds
    beacons       \* how many reviews were opened and beacons sent

measures == <<active, told, beacons>>
allVars == <<vars, measures>>

Session == [accepted : Nat, rejected : Nat, corrected : Nat]

ASSUME MetricsAssumption == MaxBeacons \in Nat /\ None \notin Session

(* The kinds of events, with what the dashboard reads of them. *)
FieldReviewed == [type : {"knowledge_reviewed"}, candidate : Candidates, field : Fields, action : Actions]
Qualified == [type : {"candidate_qualified"}, candidate : Candidates]
Completed ==
    [type : {"review_session_completed"}, candidate : Candidates, ready : BOOLEAN,
     overridden : Nat, reviewed : Nat]
Revision == [type : {"knowledge_revision_created"}, candidate : Candidates, field : Fields]
Signal == [type : {"knowledge_signal_recorded"}, candidate : Candidates]
Event == FieldReviewed \cup Qualified \cup Completed \cup Revision \cup Signal

MeasuresTyped ==
    /\ active \in [Candidates -> Session \cup {None}]
    /\ DOMAIN told \subseteq Event
    /\ \A e \in DOMAIN told : told[e] \in Nat \ {0}
    /\ beacons \in 0..MaxBeacons

MeasuresInit ==
    /\ active = [c \in Candidates |-> None]
    /\ told = << >>
    /\ beacons = 0

-----------------------------------------------------------------------------
(* TelemetryStore.record, for some events in a row. *)
Count(log, e) == IF e \in DOMAIN log THEN log[e] ELSE 0
Tell(log, events) ==
    [e \in DOMAIN log \cup events |-> Count(log, e) + (IF e \in events THEN 1 ELSE 0)]

Fresh == [accepted |-> 0, rejected |-> 0, corrected |-> 0]

startSession(c) ==
    active' = [active EXCEPT ![c] = IF @ = None THEN Fresh ELSE @]

Counted(session, action) ==
    CASE action \in {"accept", "verify"} -> [session EXCEPT !.accepted = @ + 1]
      [] action = "reject" -> [session EXCEPT !.rejected = @ + 1]
      [] action = "edit" -> [session EXCEPT !.corrected = @ + 1]

recordKnowledgeAction(c, action) ==
    active' = [active EXCEPT ![c] = IF @ = None THEN None ELSE Counted(@, action)]

(* The event that a finished session leaves behind, if there is one. *)
Finish(c, ready) ==
    IF active[c] = None THEN {}
    ELSE {[type |-> "review_session_completed", candidate |-> c, ready |-> ready,
           overridden |-> active[c].corrected,
           reviewed |-> active[c].accepted + active[c].rejected + active[c].corrected]}

(* Mutant of Closed: the session stays open after it was reported.         *)
ClosedLater(c) == active

Closed(c) == [active EXCEPT ![c] = None]

-----------------------------------------------------------------------------
(* The end of reviewKnowledge and of markCandidateReady: what they tell,   *)
(* and what becomes of the session.                                        *)
Ending(c, command) ==
    CASE command.op = "review" ->
            {[type |-> "knowledge_reviewed", candidate |-> c,
              field |-> command.field, action |-> command.action]}
      [] command.op = "ready" ->
            Finish(c, TRUE) \cup {[type |-> "candidate_qualified", candidate |-> c]}
      [] OTHER -> {}

Measure(c, command) ==
    CASE command.op = "review" -> recordKnowledgeAction(c, command.action)
      [] command.op = "ready" -> active' = Closed(c)
      [] OTHER -> UNCHANGED active

(* emitRevisionTelemetry and emitSignalTelemetry, once the set q has       *)
(* evolved is saved.                                                       *)
Evolution(q) ==
    (IF q.todo = {} /\ q.command.op # "patch" THEN {}
     ELSE {[type |-> "knowledge_revision_created", candidate |-> q.candidate,
            field |-> IF q.todo = {} THEN q.command.field ELSE Field(q.todo)]})
    \cup (IF q.command.op = "evidence" THEN {}
          ELSE {[type |-> "knowledge_signal_recorded", candidate |-> q.candidate]})

Returns(r) ==
    \/ SaveCandidate(r) \/ Seed(r) \/ SaveRecord(r)
    \/ ReadSet(r) \/ SaveSet(r) \/ EvolutionFails(r)

Proceed(r) ==
    /\ Returns(r)
    /\ LET q == request[r]
           saved == At(r, "saveSet") /\ failures' = failures
           ended == request'[r] = None IN
       /\ told' = Tell(told, (IF saved THEN Evolution(q) ELSE {})
                                \cup IF ended THEN Ending(q.candidate, q.command) ELSE {})
       /\ IF ended THEN Measure(q.candidate, q.command) ELSE UNCHANGED active
    /\ UNCHANGED beacons

Beacon ==
    /\ beacons < MaxBeacons
    /\ beacons' = beacons + 1
    /\ UNCHANGED vars

(* GET /candidates/:id/review: a session starts once the record is found. *)
getReview(c) ==
    /\ records[c] # None
    /\ Beacon
    /\ startSession(c)
    /\ UNCHANGED told

(* POST /telemetry, when a review screen is left before it showed c ready. *)
abandon(c) ==
    /\ Beacon
    /\ told' = Tell(told, Finish(c, FALSE))
    /\ active' = Closed(c)

(* The process ends and starts again: what was in flight or in memory goes. *)
Restart ==
    /\ failures < MaxFailures
    /\ failures' = failures + 1
    /\ disturbed' = disturbed \cup {c \in Candidates : Busy(c)}
    /\ request' = [r \in Slots |-> None]
    /\ active' = [c \in Candidates |-> None]
    /\ UNCHANGED <<records, sets, requests, told, beacons>>

MeasuredInit == Init /\ MeasuresInit

MeasuredNext ==
    \/ \E r \in Slots :
          \/ (Arrival(r) \/ Abort(r)) /\ UNCHANGED measures
          \/ Proceed(r)
    \/ \E c \in Candidates : getReview(c) \/ abandon(c)
    \/ Restart

MeasuredSpec == MeasuredInit /\ [][MeasuredNext]_allVars

-----------------------------------------------------------------------------
(* buildOperationsDashboard, of the events told so far: a figure is the     *)
(* set of what it counts, and the n-th event of a kind is <<e, n>>.        *)
Entries(log) == UNION {{e} \X (1..log[e]) : e \in DOMAIN log}

Told(events) == {p \in Entries(told) : p[1] \in events}

(* All that the sessions among some entries report of a part.              *)
Reported(entries, part) == UNION {{p} \X (1..p[1][part]) : p \in entries}

SessionKpis ==
    LET sessions == Told(Completed) IN
    [sessions |-> sessions,
     ready |-> {p \in sessions : p[1].ready},
     corrections |-> Reported(sessions, "overridden")]

FieldReviewStats ==
    [f \in Fields |->
        LET by(actions) == {p \in Told(FieldReviewed) : p[1].field = f /\ p[1].action \in actions}
        IN [reviewed |-> by(Actions), overridden |-> by({"edit"}), accepted |-> by({"accept", "verify"})]]

QualifiedCreated(c) == {p \in Told(Qualified) : p[1].candidate = c}

-----------------------------------------------------------------------------
(* Properties.                                                             *)

(* The figures of the dashboard agree with each other, although tabs share *)
(* a session, beacons close sessions under a handler and restarts lose     *)
(* them: the reviews that sessions report are reviews that were told, so   *)
(* are their corrections, and no more sessions ended ready than candidates *)
(* were qualified.                                                         *)
DashboardAddsUp ==
    /\ Cardinality(SessionKpis.corrections)
          <= Cardinality(UNION {FieldReviewStats[f].overridden : f \in Fields})
    /\ Cardinality(Reported(SessionKpis.sessions, "reviewed"))
          <= Cardinality(UNION {FieldReviewStats[f].reviewed : f \in Fields})
    /\ Cardinality(SessionKpis.ready) <= Cardinality(UNION {QualifiedCreated(c) : c \in Candidates})

(* A candidate is counted as qualified once, and only when it is ready,    *)
(* unless handlers for it overlapped or failed.                            *)
QualifiedOnce ==
    \A c \in Candidates \ disturbed :
        /\ Cardinality(QualifiedCreated(c)) <= 1
        /\ QualifiedCreated(c) # {} => records[c].ready

RevisionsTold(c, f) == {p \in Told(Revision) : p[1].candidate = c /\ p[1].field = f}
SignalsTold(c) == {p \in Told(Signal) : p[1].candidate = c}

(* The signals and the revisions in a knowledge set.                       *)
HeldIn(set) == set.signals + Cardinality(UNION {{f} \X DOMAIN set.objects[f].revisions : f \in Fields})

(* Every revision and every signal that a knowledge set holds was told,    *)
(* and no other unless handlers for the candidate overlapped or failed.    *)
TrailTold ==
    \A c \in {c \in Candidates : sets[c] # None} :
        /\ \A f \in Fields : Len(sets[c].objects[f].revisions) <= Cardinality(RevisionsTold(c, f))
        /\ HeldIn(sets[c]) <= Cardinality(SignalsTold(c))
        /\ c \notin disturbed => HeldIn(sets[c]) = Cardinality(SignalsTold(c))

(* The review of candidates is measured once, and truly.                   *)
MeasuredOnce == MeasuresTyped /\ DashboardAddsUp /\ QualifiedOnce /\ TrailTold

=============================================================================
