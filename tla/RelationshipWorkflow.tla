------------------------ MODULE RelationshipWorkflow ------------------------
(***************************************************************************)
(* The recruiter workflow: RelationshipService, called by the API and by   *)
(* AutomationService, with the notifications, audit records and action     *)
(* results they leave behind.                                              *)
(*                                                                         *)
(* As in RecruitmentPipeline each action is one awaited call with the      *)
(* computation up to the next one, and request[r] holds what the handler   *)
(* read.  Relationships are rows of PostgreSQL.  Action results are in     *)
(* memory and in a JSON Lines file that is read at the first access, after *)
(* a restart again.  Notifications and audit records only count here; the  *)
(* files they are in are in Inbox and Integration.                         *)
(*                                                                         *)
(* Abstracted: times, texts, actor ids (every caller is an actor with the  *)
(* permission and has confirmed), the candidate and the job of a pair      *)
(* (both exist), mail addresses.                                           *)
(***************************************************************************)
EXTENDS Naturals, Sequences, FiniteSets, JsonlFile

CONSTANTS
    Relationships,   \* ids
    Pairs,           \* (candidate, job) pairs
    Stages,          \* workflow stages in use
    Assignees,       \* assignee ids a caller gives
    KnownActors,     \* those the actor registry knows
    Drafts,          \* outreach drafts, by fingerprint
    Requests,        \* slots for requests in flight at the same time
    MaxCalls,        \* bound: requests served
    MaxAborts,       \* bound: requests, and processes with requests, cut short
    Invalid,         \* an argument that validation refuses
    None             \* no row, no value

WorkflowStages ==
    {"Sourced", "Applied", "Screening", "Technical Interview", "Hiring Manager Interview",
     "Offer", "Hired", "Rejected", "Withdrawn"}

Ops == {"create", "move", "assign", "send"}
Callers == {"service", "automation"}
Steps == {"insert", "read", "save", "notify", "findSend", "send", "record", "complete", "audit"}
Outcomes == {"success", "noop", "failure"}
Args == Stages \cup Assignees \cup Drafts \cup {Invalid}

HistoryEntry == [previousStage: Stages \cup {None}, newStage: Stages]
Relationship ==
    [pair: Pairs, currentStage: Stages, stageHistory: Seq(HistoryEntry),
     assigneeId: Assignees \cup {None}]

(* A request in flight: who called which operation with what, the call it  *)
(* awaits next, the row it will save, what stageMove read before.          *)
Call == [op: Ops, caller: Callers, at: Steps, rel: Relationships \cup {None}, arg: Args,
         row: Relationship \cup {None}, before: Relationship \cup {None}, outcome: Outcomes]

ASSUME WorkflowAssumption ==
    /\ Stages \subseteq WorkflowStages
    /\ KnownActors \subseteq Assignees
    /\ Stages \cap Assignees = {} /\ Stages \cap Drafts = {} /\ Assignees \cap Drafts = {}
    /\ Invalid \notin Stages \cup Assignees \cup Drafts
    /\ MaxCalls \in Nat /\ MaxAborts \in Nat
    /\ None \notin Relationships \cup WorkflowStages \cup Assignees
    /\ None \notin Relationship /\ None \notin Call

VARIABLES
    relationships,   \* the table, a row or None by id
    notices,         \* notifications appended, by subject and kind
    results,         \* action results whose append was answered, by subject and outcome
    items,           \* the action results in memory
    loaded,          \* whether their file was read
    resultsFile,     \* automation-actions.jsonl
    audits,          \* audit records appended, by subject, caller and outcome
    emails,          \* outreach mails handed to the adapter
    request,         \* the call in each slot, None when the slot is free
    calls,           \* requests served so far
    aborts,          \* requests, and processes with requests, cut short so far
    written          \* history: changes saved, by subject and caller

repository == <<items, loaded, resultsFile>>
stores == <<relationships, notices, results, repository, audits, emails, written>>
vars == <<stores, request, calls, aborts>>

Subjects == Relationships \X Args
NoticeKinds == {"changed", "automation.completed"}

(* What findSuccessfulSend looks at in a line of the file.                 *)
ActionResult == Subjects \X Outcomes

RepositoryTyped ==
    /\ items \subseteq ActionResult
    /\ loaded \in BOOLEAN
    /\ resultsFile \in File(ActionResult)

TypeOK ==
    /\ relationships \in [Relationships -> Relationship \cup {None}]
    /\ notices \in [Subjects \X NoticeKinds -> Nat]
    /\ results \in [Subjects \X Outcomes -> Nat]
    /\ RepositoryTyped
    /\ audits \in [Subjects \X Callers \X Outcomes -> Nat]
    /\ emails \in [Relationships \X Drafts -> Nat]
    /\ request \in [Requests -> Call \cup {None}]
    /\ calls \in Nat /\ aborts \in Nat
    /\ written \in [Subjects \X Callers -> Nat]

Init ==
    /\ relationships = [x \in Relationships |-> None]
    /\ notices = [k \in Subjects \X NoticeKinds |-> 0]
    /\ results = [k \in Subjects \X Outcomes |-> 0]
    /\ items = {} /\ loaded = FALSE /\ resultsFile = EmptyFile
    /\ audits = [k \in Subjects \X Callers \X Outcomes |-> 0]
    /\ emails = [k \in Relationships \X Drafts |-> 0]
    /\ request = [r \in Requests |-> None]
    /\ calls = 0 /\ aborts = 0
    /\ written = [k \in Subjects \X Callers |-> 0]

-----------------------------------------------------------------------------
(* Helpers.                                                                *)

Exists(x) == relationships[x] # None

(* A row of the pair is in the table.                                      *)
PairTaken(pair) == \E x \in Relationships : Exists(x) /\ relationships[x].pair = pair

(* Mutant of Moved: the stage changes, the history does not.               *)
MovedSilently(row, stage) == [row EXCEPT !.currentStage = stage]

(* Mutant of Moved: the row is built anew and loses its assignee.          *)
MovedUnassigned(row, stage) ==
    [row EXCEPT !.currentStage = stage, !.assigneeId = None,
                !.stageHistory = Append(@, [previousStage |-> row.currentStage, newStage |-> stage])]

NewRow(pair, stage) ==
    [pair |-> pair, currentStage |-> stage,
     stageHistory |-> <<[previousStage |-> None, newStage |-> stage]>>, assigneeId |-> None]

Moved(row, stage) ==
    [row EXCEPT !.currentStage = stage,
                !.stageHistory = Append(@, [previousStage |-> row.currentStage, newStage |-> stage])]

Assigned(row, assignee) == [row EXCEPT !.assigneeId = assignee]

NewCall(op, caller, at, x, arg) ==
    [op |-> op, caller |-> caller, at |-> at, rel |-> x, arg |-> arg,
     row |-> None, before |-> None, outcome |-> "success"]

(* A request arrives in a free slot and awaits its next call as c.         *)
Arrive(r, c) ==
    /\ request[r] = None
    /\ calls < MaxCalls
    /\ calls' = calls + 1
    /\ request' = [request EXCEPT ![r] = c]
    /\ UNCHANGED aborts

(* A request ends before its handler does.                                 *)
CutShort(r) ==
    /\ aborts < MaxAborts
    /\ aborts' = aborts + 1
    /\ request' = [request EXCEPT ![r] = None]
    /\ UNCHANGED calls

(* The request in slot r goes on to await its next call as c.              *)
Await(r, c) ==
    /\ request' = [request EXCEPT ![r] = c]
    /\ UNCHANGED <<calls, aborts>>

At(r, step) == request[r] # None /\ request[r].at = step

Recording(c, outcome) == [c EXCEPT !.at = "record", !.outcome = outcome]
Saving(c, row) == [c EXCEPT !.at = "save", !.row = row]

-----------------------------------------------------------------------------
(* RelationshipService.                                                    *)

(* create, up to findByCandidateAndJob: DUPLICATE_RELATIONSHIP when the    *)
(* pair is taken.                                                          *)
Create(r, pair, stage) ==
    /\ ~PairTaken(pair)
    /\ Arrive(r, [NewCall("create", "service", "insert", None, stage)
                      EXCEPT !.row = NewRow(pair, stage)])
    /\ UNCHANGED stores

Insert(r, x) ==
    /\ At(r, "insert")
    /\ ~Exists(x)
    /\ ~PairTaken(request[r].row.pair)
    /\ relationships' = [relationships EXCEPT ![x] = request[r].row]
    /\ Await(r, None)
    /\ UNCHANGED <<notices, results, repository, audits, emails, written>>

(* The unique index refuses the second of two creates that both found the  *)
(* pair free.                                                              *)
RefuseInsert(r) ==
    /\ At(r, "insert")
    /\ PairTaken(request[r].row.pair)
    /\ Await(r, None)
    /\ UNCHANGED stores

(* moveStage for the API.  A missing row or the stage the row is in        *)
(* already ends the request at once.                                       *)
MoveStage(r, x, stage) ==
    /\ Exists(x) /\ relationships[x].currentStage # stage
    /\ Arrive(r, Saving(NewCall("move", "service", "save", x, stage),
                        Moved(relationships[x], stage)))
    /\ UNCHANGED stores

(* assign for a caller that wants the audit record.                        *)
Assign(r, x, assignee) ==
    /\ Exists(x) /\ relationships[x].assigneeId # assignee
    /\ Arrive(r, Saving(NewCall("assign", "service", "save", x, assignee),
                        Assigned(relationships[x], assignee)))
    /\ UNCHANGED stores

(* relationshipRepository.save of the row read earlier with its change.    *)
Save(r) ==
    LET c == request[r] IN
    /\ At(r, "save")
    /\ relationships' = [relationships EXCEPT ![c.rel] = c.row]
    /\ written' = [written EXCEPT ![<<<<c.rel, c.arg>>, c.caller>>] = @ + 1]
    /\ Await(r, [c EXCEPT !.at = "notify"])
    /\ UNCHANGED <<notices, results, repository, audits, emails>>

(* stageMove calls a move a no-op when it ended where it looked first.     *)
Noop(before, after) ==
    /\ before # None
    /\ after.currentStage = before.currentStage
    /\ Len(after.stageHistory) = Len(before.stageHistory)

OutcomeOf(before, after) == IF Noop(before, after) THEN "noop" ELSE "success"

(* Mutant of Notify: without somebody to notify the handler returns early. *)
NotifyOrReturn(r) ==
    LET c == request[r] IN
    /\ At(r, "notify")
    /\ notices' = IF c.row.assigneeId \in KnownActors
                    THEN [notices EXCEPT ![<<<<c.rel, c.arg>>, "changed">>] = @ + 1]
                    ELSE notices
    /\ Await(r, IF c.caller = "automation" THEN Recording(c, OutcomeOf(c.before, c.row))
                ELSE IF c.row.assigneeId \in KnownActors THEN [c EXCEPT !.at = "audit"]
                ELSE None)
    /\ UNCHANGED <<relationships, results, repository, audits, emails, written>>

(* onStageChanged and onAssignment: to the assignee of the row saved, if   *)
(* the registry knows the actor.  Then the service records the audit, and  *)
(* for automation, which suppressed it, control returns there.             *)
Notify(r) ==
    LET c == request[r] IN
    /\ At(r, "notify")
    /\ notices' = IF c.row.assigneeId \in KnownActors
                    THEN [notices EXCEPT ![<<<<c.rel, c.arg>>, "changed">>] = @ + 1]
                    ELSE notices
    /\ Await(r, IF c.caller = "service"
                  THEN [c EXCEPT !.at = "audit"]
                  ELSE Recording(c, OutcomeOf(c.before, c.row)))
    /\ UNCHANGED <<relationships, results, repository, audits, emails, written>>

-----------------------------------------------------------------------------
(* AutomationService.                                                      *)

(* stageMove up to its own read; what it finds is kept to tell a no-op.    *)
AutomateMove(r, x, stage) ==
    LET c == NewCall("move", "automation", "read", x, stage) IN
    /\ Arrive(r, IF Exists(x) THEN [c EXCEPT !.before = relationships[x]]
                              ELSE Recording(c, "failure"))
    /\ UNCHANGED stores

(* Mutant of ReadAgain: a move to the current stage is notified all the    *)
(* same.                                                                   *)
ReadAgainAndNotify(r) ==
    LET c == request[r]
        current == relationships[c.rel]
    IN
    /\ At(r, "read")
    /\ Await(r, IF current.currentStage = c.arg
                  THEN [c EXCEPT !.at = "notify", !.row = current]
                  ELSE Saving(c, Moved(current, c.arg)))
    /\ UNCHANGED stores

(* moveStage reads the row again.                                          *)
ReadAgain(r) ==
    LET c == request[r]
        current == relationships[c.rel]
    IN
    /\ At(r, "read")
    /\ Await(r, IF current.currentStage = c.arg
                  THEN Recording(c, OutcomeOf(c.before, current))
                  ELSE Saving(c, Moved(current, c.arg)))
    /\ UNCHANGED stores

AutomateAssign(r, x, assignee) ==
    LET c == NewCall("assign", "automation", "save", x, assignee) IN
    /\ Arrive(r, IF ~Exists(x) THEN Recording(c, "failure")
                 ELSE IF relationships[x].assigneeId = assignee THEN Recording(c, "noop")
                 ELSE Saving(c, Assigned(relationships[x], assignee)))
    /\ UNCHANGED stores

(* sendOutreach up to its read of the relationship.                        *)
SendOutreach(r, x, draft) ==
    LET c == NewCall("send", "automation", "findSend", x, draft) IN
    /\ Arrive(r, IF Exists(x) THEN c ELSE Recording(c, "failure"))
    /\ UNCHANGED stores

(* INVALID_STAGE of a stage move, DRAFT_REQUIRED of an outreach.           *)
RejectArgument(r, op, x) ==
    /\ Arrive(r, Recording(NewCall(op, "automation", "record", x, Invalid), "failure"))
    /\ UNCHANGED stores

(* Mutant of Items: the file is read to be listed, not to be searched.     *)
ItemsWithoutLoad == items

(* ensureLoaded: the file is read at the first access, what does not parse *)
(* is passed over.                                                         *)
Items == IF loaded THEN items ELSE Parsed(resultsFile)

SentBefore(x, draft) == <<<<x, draft>>, "success">> \in Items

(* findSuccessfulSend: ALREADY_SENT when a send of the draft is recorded.  *)
FindSuccessfulSend(r) ==
    LET c == request[r] IN
    /\ At(r, "findSend")
    /\ items' = Items /\ loaded' = TRUE
    /\ Await(r, IF SentBefore(c.rel, c.arg) THEN Recording(c, "failure")
                                            ELSE [c EXCEPT !.at = "send"])
    /\ UNCHANGED <<relationships, notices, results, resultsFile, audits, emails, written>>

(* The file cannot be read: the request is rejected, and every later one   *)
(* finds a repository that counts as loaded and is empty.                  *)
LoadFails(r) ==
    /\ At(r, "findSend") \/ At(r, "record")
    /\ ~loaded
    /\ items' = {} /\ loaded' = TRUE
    /\ CutShort(r)
    /\ UNCHANGED <<relationships, notices, results, resultsFile, audits, emails, written>>

Send(r) ==
    LET c == request[r] IN
    /\ At(r, "send")
    /\ emails' = [emails EXCEPT ![<<c.rel, c.arg>>] = @ + 1]
    /\ Await(r, Recording(c, "success"))
    /\ UNCHANGED <<relationships, notices, results, repository, audits, written>>

(* SEND_FAILED: the adapter rejects.                                       *)
SendFails(r) ==
    /\ At(r, "send")
    /\ Await(r, Recording(request[r], "failure"))
    /\ UNCHANGED stores

(* actionResultRepository.append: the result is pushed, then its line is   *)
(* appended,                                                               *)
Result(c) == <<<<c.rel, c.arg>>, c.outcome>>

Push(result) == items' = Items \cup {result} /\ loaded' = TRUE

Record(r) ==
    LET c == request[r] IN
    /\ At(r, "record")
    /\ Push(Result(c))
    /\ resultsFile' = AddLine(resultsFile, Result(c))
    /\ results' = [results EXCEPT ![Result(c)] = @ + 1]
    /\ Await(r, [c EXCEPT !.at = IF c.outcome = "success" THEN "complete" ELSE "audit"])
    /\ UNCHANGED <<relationships, notices, audits, emails, written>>

(* or a part of it, and the request is rejected.                           *)
RecordFails(r) ==
    LET c == request[r] IN
    /\ At(r, "record")
    /\ Push(Result(c))
    /\ resultsFile' \in CutLine(resultsFile, Result(c))
    /\ CutShort(r)
    /\ UNCHANGED <<relationships, notices, results, audits, emails, written>>

(* onAutomationCompleted; the caller is a known actor.                     *)
Complete(r) ==
    LET c == request[r] IN
    /\ At(r, "complete")
    /\ notices' = [notices EXCEPT ![<<<<c.rel, c.arg>>, "automation.completed">>] = @ + 1]
    /\ Await(r, [c EXCEPT !.at = "audit"])
    /\ UNCHANGED <<relationships, results, repository, audits, emails, written>>

(* auditService.record, the last call of every handler.                    *)
Audit(r) ==
    LET c == request[r] IN
    /\ At(r, "audit")
    /\ audits' = [audits EXCEPT ![<<<<c.rel, c.arg>>, c.caller, c.outcome>>] = @ + 1]
    /\ Await(r, None)
    /\ UNCHANGED <<relationships, notices, results, repository, emails, written>>

(* The awaited call rejects.  A rejecting mail adapter is SendFails, the   *)
(* repository of action results rejects in LoadFails and RecordFails.      *)
Abort(r) ==
    /\ request[r] # None
    /\ request[r].at \notin {"findSend", "send", "record"}
    /\ CutShort(r)
    /\ UNCHANGED stores

(* The process ends and is started again; no request is taken up again.    *)
Restart ==
    LET busy == \E r \in Requests : request[r] # None IN
    /\ busy => aborts < MaxAborts
    /\ aborts' = IF busy THEN aborts + 1 ELSE aborts
    /\ request' = [r \in Requests |-> None]
    /\ items' = {} /\ loaded' = FALSE
    /\ UNCHANGED <<relationships, notices, results, resultsFile, audits, emails, written, calls>>

NewRequest(r) ==
    \/ \E pair \in Pairs, stage \in Stages : Create(r, pair, stage)
    \/ \E x \in Relationships :
          \/ \E stage \in Stages : MoveStage(r, x, stage) \/ AutomateMove(r, x, stage)
          \/ \E a \in Assignees : Assign(r, x, a) \/ AutomateAssign(r, x, a)
          \/ \E draft \in Drafts : SendOutreach(r, x, draft)
          \/ \E op \in {"move", "send"} : RejectArgument(r, op, x)

Continue(r) ==
    \/ \E x \in Relationships : Insert(r, x)
    \/ RefuseInsert(r)
    \/ Save(r) \/ Notify(r)
    \/ ReadAgain(r)
    \/ FindSuccessfulSend(r) \/ Send(r) \/ SendFails(r)
    \/ Record(r) \/ Complete(r) \/ Audit(r)
    \/ LoadFails(r) \/ RecordFails(r) \/ Abort(r)

Next ==
    \/ \E r \in Requests : NewRequest(r) \/ Continue(r)
    \/ Restart

Spec == Init /\ [][Next]_vars

-----------------------------------------------------------------------------
(* Properties.                                                             *)

(* A pair of a candidate and a job has one relationship                    *)
(* (DUPLICATE_RELATIONSHIP and the unique index), however concurrent       *)
(* creates interleave.                                                     *)
OneRelationshipPerPair ==
    \A x, y \in Relationships :
        Exists(x) /\ Exists(y) /\ relationships[x].pair = relationships[y].pair => x = y

(* The stage of a row is the one its history ends at, and each entry       *)
(* starts where the one before it ended.                                   *)
Chained(row) ==
    LET h == row.stageHistory IN
    /\ h # <<>>
    /\ h[1].previousStage = None
    /\ h[Len(h)].newStage = row.currentStage
    /\ \A n \in 2..Len(h) : /\ h[n].previousStage = h[n - 1].newStage
                            /\ h[n].previousStage # h[n].newStage

(* EPIC-004, rule 4: the current stage always reflects the latest history  *)
(* entry.  Stale whole-row saves may lose entries but never tear a         *)
(* history.                                                                *)
HistoryChained == \A x \in Relationships : Exists(x) => Chained(relationships[x])

(* Nobody is told of what did not happen: a notification of a change       *)
(* follows its save, a completion follows its action result, and a         *)
(* recorded send follows a mail.                                           *)
ToldAfterDone ==
    \A k \in Subjects :
        /\ notices[<<k, "changed">>] <= written[<<k, "service">>] + written[<<k, "automation">>]
        /\ notices[<<k, "automation.completed">>] <= results[<<k, "success">>]
        /\ k[2] \in Drafts => results[<<k, "success">>] <= emails[k]

(* The requests on subject k by a caller that are about to make one of     *)
(* these calls.                                                            *)
Pending(k, caller, steps) ==
    {r \in Requests : /\ request[r] # None /\ request[r].at \in steps
                      /\ <<request[r].rel, request[r].arg>> = k /\ request[r].caller = caller}

(* EPIC-012, rule 6: every outcome has exactly one audit record, of the    *)
(* service or, for automation, of the action result, as long as no request *)
(* is cut short: none is missing and suppressAudit leaves none twice.      *)
AuditedOnce ==
    aborts = 0 =>
        \A k \in Subjects :
            /\ written[<<k, "service">>] =
                   audits[<<k, "service", "success">>]
                       + Cardinality(Pending(k, "service", {"notify", "audit"}))
            /\ \A o \in Outcomes :
                   results[<<k, o>>] =
                       audits[<<k, "automation", o>>]
                           + Cardinality({r \in Pending(k, "automation", {"complete", "audit"}) :
                                              request[r].outcome = o})
            /\ written[<<k, "automation">>] <=
                   results[<<k, "success">>] + results[<<k, "noop">>]
                       + Cardinality(Pending(k, "automation", {"notify", "record"}))

-----------------------------------------------------------------------------
(* Properties of handlers that run one after the other (one slot).         *)

(* Mail goes out once per relationship and draft, over any number of       *)
(* restarts, and at most twice more for each request cut short (AC-9b of   *)
(* EPIC-008, findSuccessfulSend): between the mail and its record, or in   *)
(* the middle of a line, which costs the record on it and the next one.    *)
OutreachOnce ==
    \A k \in Relationships \X Drafts : emails[k] <= 1 + 2 * aborts

(* The workflow implements the abstract log: read through their histories, *)
(* relationships only ever gain entries, one per move, and a move keeps    *)
(* the assignee as an assignment keeps the history.                        *)
StagesOf(h) == [n \in 1..Len(h) |-> h[n].newStage]

Log == INSTANCE StageLog WITH
    log <- [x \in Relationships |->
               IF Exists(x) THEN StagesOf(relationships[x].stageHistory) ELSE <<>>],
    owner <- [x \in Relationships |-> IF Exists(x) THEN relationships[x].assigneeId ELSE None]

ImplementsLog == Log!Spec

-----------------------------------------------------------------------------
(* What a document of the repository says, with concurrent requests.       *)

(* EPIC-004, rule 3: "Stage history is append-only and cannot be edited."  *)
HistoryAppendOnly ==
    [][\A x \in Relationships : Exists(x) =>
          LET h == relationships[x].stageHistory IN
          /\ Len(h) <= Len(relationships'[x].stageHistory)
          /\ \A n \in 1..Len(h) : relationships'[x].stageHistory[n] = h[n]]_vars

=============================================================================
