------------------------- MODULE CandidateKnowledge -------------------------
(***************************************************************************)
(* What is known of a candidate, twice: the verified knowledge in the      *)
(* candidate's record (CandidateEditService, VerifiedKnowledge), and the   *)
(* set of knowledge objects that evolves beside it                         *)
(* (KnowledgeEvolutionService, KnowledgeObject).                           *)
(*                                                                         *)
(* Both are rows of PostgreSQL that a handler reads, changes and saves     *)
(* whole, the record first.  Every awaited call is one action.             *)
(*                                                                         *)
(* Abstracted: actors, times, reasons, provenance, evidence texts, the     *)
(* histories of confidences and signals (signals are counted), telemetry,  *)
(* the name and identity fields (part of the workspace).                   *)
(***************************************************************************)
EXTENDS Naturals, Sequences, FiniteSets

CONSTANTS
    Candidates,      \* ids
    Fields,          \* EDITABLE_FIELDS
    Values,          \* what a field may say
    Claims,          \* confidences an import may claim, in percent
    Sources,         \* where evidence may come from
    Slots,           \* requests in flight at a time
    MaxRequests,     \* bound: requests
    MaxFailures,     \* bound: calls that reject, or requests cut short
    None             \* no row, no request

Actions == {"accept", "edit", "reject", "verify"}
Percent == 0..100

(* CONFIDENCE_LADDER *)
Ladder == [resume |-> 65, recruiter |-> 90, interview |-> 95, client |-> 97]

FieldRevision == [value : Values, action : Actions]
FieldKnowledge ==
    [original : Values, current : Values, revisions : Seq(FieldRevision),
     edited : BOOLEAN, reviewed : BOOLEAN, rejected : BOOLEAN, verified : BOOLEAN]
Record == [fields : [Fields -> FieldKnowledge], ready : BOOLEAN, workspace : Values \cup {None}]

ObjectRevision == [old : Values, new : Values]
Object ==
    [original : Values, current : Values, revisions : Seq(ObjectRevision),
     confidence : Percent, signals : Nat, verified : BOOLEAN]
Set == [objects : [Fields -> Object], signals : Nat]

(* What a request asks for. *)
ImportCommand == [op : {"import"}, original : [Fields -> Values], confidence : Claims]
RecordCommand ==
    [op : {"review"}, field : Fields, action : {"edit"}, value : Values]
        \cup [op : {"review"}, field : Fields, action : Actions \ {"edit"}, value : {None}]
        \cup [op : {"workspace"}, value : Values]
        \cup [op : {"ready"}]
SetCommand ==
    [op : {"patch"}, field : Fields, value : Values]
        \cup [op : {"evidence"}, field : Fields, source : Sources]
        \cup [op : {"signal"}, source : {"interview", "client"}]
Command == ImportCommand \cup RecordCommand \cup SetCommand

(* A request in flight: the awaited call, the rows it has read, and the    *)
(* fields whose objects it still has to bring up to date.                  *)
Request ==
    [candidate : Candidates, command : Command,
     at : {"saveCandidate", "seed", "saveRecord", "readSet", "saveSet"},
     record : Record \cup {None}, set : Set \cup {None}, todo : SUBSET Fields]

ASSUME KnowledgeAssumption ==
    /\ Claims \subseteq Percent /\ Sources \subseteq DOMAIN Ladder
    /\ MaxRequests \in Nat /\ MaxFailures \in Nat
    /\ None \notin Record /\ None \notin Set /\ None \notin Request /\ None \notin Values

VARIABLES
    records,      \* candidate records by id, a row or None
    sets,         \* knowledge sets by candidate, a row or None
    request,      \* by slot, a request or None
    requests,     \* how many came
    failures,     \* how many calls failed or were cut short
    disturbed     \* candidates with overlapping or failing handlers, or a patch (history)

vars == <<records, sets, request, requests, failures, disturbed>>

TypeOK ==
    /\ records \in [Candidates -> Record \cup {None}]
    /\ sets \in [Candidates -> Set \cup {None}]
    /\ request \in [Slots -> Request \cup {None}]
    /\ requests \in Nat /\ failures \in Nat
    /\ disturbed \subseteq Candidates

Init ==
    /\ records = [c \in Candidates |-> None]
    /\ sets = [c \in Candidates |-> None]
    /\ request = [r \in Slots |-> None]
    /\ requests = 0 /\ failures = 0
    /\ disturbed = {}

-----------------------------------------------------------------------------
(* VerifiedKnowledge.                                                      *)

Claimed(value) ==
    [original |-> value, current |-> value, revisions |-> <<>>,
     edited |-> FALSE, reviewed |-> FALSE, rejected |-> FALSE, verified |-> FALSE]

FromImport(original) ==
    [fields |-> [f \in Fields |-> Claimed(original[f])], ready |-> FALSE, workspace |-> None]

(* Mutant of Revised: only the latest revision is kept.                    *)
RevisedAnew(field, value, action) ==
    [field EXCEPT !.revisions = <<[value |-> value, action |-> action]>>,
                  !.verified = TRUE,
                  !.rejected = action = "reject"]

Revised(field, value, action) ==
    [field EXCEPT !.revisions = Append(@, [value |-> value, action |-> action]),
                  !.verified = TRUE,
                  !.rejected = action = "reject"]

(* verifyField: nothing happens to a field that is verified. *)
Verify(field, reviewed) ==
    IF field.verified THEN field
    ELSE [Revised(field, field.current, "verify") EXCEPT !.reviewed = reviewed]

(* Mutant of Edit: the value the AI gave is not looked at.                 *)
EditFlagged(field, value) ==
    [Revised(field, value, "edit") EXCEPT !.current = value, !.edited = TRUE, !.reviewed = TRUE]

Edit(field, value) ==
    [Revised(field, value, "edit") EXCEPT
        !.current = value, !.edited = value # field.original, !.reviewed = TRUE]

Review(field, action, value) ==
    CASE action = "verify" -> Verify(field, TRUE)
      [] action = "edit" -> Edit(field, value)
      [] action \in {"accept", "reject"} ->
            [Revised(field, field.current, action) EXCEPT !.reviewed = TRUE]

MarkReady(record) ==
    [record EXCEPT !.fields = [f \in Fields |-> Verify(record.fields[f], FALSE)], !.ready = TRUE]

(* The record a handler saves for the record it read. *)
Updated(record, command) ==
    CASE command.op = "review" ->
            [record EXCEPT !.fields[command.field] = Review(@, command.action, command.value)]
      [] command.op = "workspace" -> [record EXCEPT !.workspace = command.value]
      [] command.op = "ready" -> MarkReady(record)

-----------------------------------------------------------------------------
(* KnowledgeObject and CandidateKnowledgeSet.                              *)

Higher(a, b) == IF a > b THEN a ELSE b

CreateFromImport(value, confidence) ==
    [original |-> value, current |-> value, revisions |-> <<>>,
     confidence |-> confidence, signals |-> 0, verified |-> FALSE]

(* Mutant of ApplyRevision: a revision only counts when it changes the     *)
(* value.                                                                  *)
ApplyChange(object, value) ==
    [object EXCEPT !.current = value,
                   !.revisions = IF value = object.current THEN @
                                 ELSE Append(@, [old |-> object.current, new |-> value]),
                   !.confidence = Ladder.recruiter,
                   !.signals = @ + 1,
                   !.verified = TRUE]

(* A revision by a recruiter, whatever the action, sets the confidence.    *)
ApplyRevision(object, value) ==
    [object EXCEPT !.current = value,
                   !.revisions = Append(@, [old |-> object.current, new |-> value]),
                   !.confidence = Ladder.recruiter,
                   !.signals = @ + 1,
                   !.verified = TRUE]

AddEvidence(object, source) == [object EXCEPT !.confidence = Higher(@, Ladder[source])]

RecordSignal(object, source) ==
    [object EXCEPT !.confidence = Higher(@, Ladder[source]), !.signals = @ + 1]

ReviseObject(set, field, value) ==
    [set EXCEPT !.objects[field] = ApplyRevision(@, value)]

Evolved(set, command) ==
    CASE command.op = "patch" -> ReviseObject(set, command.field, command.value)
      [] command.op = "evidence" ->
            [set EXCEPT !.objects[command.field] = AddEvidence(@, command.source)]
      [] command.op = "signal" ->
            [objects |-> [f \in Fields |-> RecordSignal(set.objects[f], command.source)],
             signals |-> set.signals + 1]

-----------------------------------------------------------------------------
(* Requests.                                                               *)

Busy(c) == \E r \in Slots : request[r] # None /\ request[r].candidate = c

(* A request for c comes in; its first call is the one it is at. *)
Arrive(r, c, command, at, record, set) ==
    /\ request[r] = None
    /\ requests < MaxRequests
    /\ requests' = requests + 1
    /\ request' = [request EXCEPT ![r] =
          [candidate |-> c, command |-> command, at |-> at,
           record |-> record, set |-> set, todo |-> {}]]
    /\ disturbed' = IF Busy(c) \/ command.op = "patch" THEN disturbed \cup {c} ELSE disturbed
    /\ UNCHANGED failures

At(r, call) == request[r] # None /\ request[r].at = call

Done(r) == request' = [request EXCEPT ![r] = None]

(* executeImport, after the extraction: a new candidate, then its set. *)
Import(r, c, command) ==
    /\ records[c] = None /\ ~Busy(c)
    /\ Arrive(r, c, command, "saveCandidate", None, None)
    /\ UNCHANGED <<records, sets>>

SaveCandidate(r) ==
    /\ At(r, "saveCandidate")
    /\ records' = [records EXCEPT ![request[r].candidate] = FromImport(request[r].command.original)]
    /\ request' = [request EXCEPT ![r].at = "seed"]
    /\ UNCHANGED <<sets, requests, failures, disturbed>>

Seed(r) ==
    /\ At(r, "seed")
    /\ LET command == request[r].command IN
       sets' = [sets EXCEPT ![request[r].candidate] =
          [objects |-> [f \in Fields |-> CreateFromImport(command.original[f], command.confidence)],
           signals |-> 0]]
    /\ Done(r)
    /\ UNCHANGED <<records, requests, failures, disturbed>>

(* reviewKnowledge, updateWorkspace, markCandidateReady: the record is read. *)
ReadRecord(r, c, command) ==
    /\ records[c] # None
    /\ command.op = "ready" => ~records[c].ready
    /\ Arrive(r, c, command, "saveRecord", records[c], None)
    /\ UNCHANGED <<records, sets>>

(* Mutant of Evolving: markReady looks at the record after it, not before. *)
EvolvingAfter(record, command) ==
    CASE command.op = "review" -> {command.field}
      [] command.op = "workspace" -> {}
      [] command.op = "ready" ->
            {f \in Fields : ~Updated(record, command).fields[f].verified}

(* The fields whose review is recorded in the set: the one reviewed, or    *)
(* those that markReady has just verified.                                 *)
Evolving(record, command) ==
    CASE command.op = "review" -> {command.field}
      [] command.op = "workspace" -> {}
      [] command.op = "ready" ->
            {f \in Fields : ~record.fields[f].verified}

(* The fields are taken in a fixed order. *)
Field(todo) == CHOOSE f \in todo : TRUE
Others(todo) == todo \ {Field(todo)}

(* The request goes on with the next field, if there is one. *)
GoOn(r, record, todo) ==
    request' = [request EXCEPT ![r] =
        IF todo = {} THEN None
        ELSE [@ EXCEPT !.at = "readSet", !.record = record, !.set = None, !.todo = todo]]

SaveRecord(r) ==
    /\ At(r, "saveRecord")
    /\ LET q == request[r] updated == Updated(q.record, q.command) IN
       /\ records' = [records EXCEPT ![q.candidate] = updated]
       /\ GoOn(r, updated, Evolving(q.record, q.command))
    /\ UNCHANGED <<sets, requests, failures, disturbed>>

(* recordReviewEvolution: without a set there is nothing to record. *)
ReadSet(r) ==
    /\ At(r, "readSet")
    /\ LET q == request[r] IN
       IF sets[q.candidate] = None THEN GoOn(r, q.record, Others(q.todo))
       ELSE request' = [request EXCEPT ![r].at = "saveSet", ![r].set = sets[q.candidate]]
    /\ UNCHANGED <<records, sets, requests, failures, disturbed>>

(* patchKnowledge, addEvidence, recordCandidateSignal: the set is read. *)
FindSet(r, c, command) ==
    /\ sets[c] # None
    /\ Arrive(r, c, command, "saveSet", None, sets[c])
    /\ UNCHANGED <<records, sets>>

(* A review is recorded with the value of its revision. *)
SetToSave(q) ==
    IF q.todo = {} THEN Evolved(q.set, q.command)
    ELSE LET revisions == q.record.fields[Field(q.todo)].revisions IN
         ReviseObject(q.set, Field(q.todo), revisions[Len(revisions)].value)

SaveSet(r) ==
    /\ At(r, "saveSet")
    /\ sets' = [sets EXCEPT ![request[r].candidate] = SetToSave(request[r])]
    /\ IF request[r].todo = {} THEN Done(r) ELSE GoOn(r, request[r].record, Others(request[r].todo))
    /\ UNCHANGED <<records, requests, failures, disturbed>>

Fail(r) ==
    /\ failures < MaxFailures
    /\ failures' = failures + 1
    /\ disturbed' = disturbed \cup {request[r].candidate}
    /\ UNCHANGED <<records, sets, requests>>

(* A review does not fail with the evolution of its field. *)
EvolutionFails(r) ==
    /\ At(r, "readSet") \/ At(r, "saveSet")
    /\ request[r].todo # {}
    /\ GoOn(r, request[r].record, Others(request[r].todo))
    /\ Fail(r)

(* The awaited call rejects, or the process ends. *)
Abort(r) ==
    /\ request[r] # None
    /\ Done(r)
    /\ Fail(r)

Arrival(r) ==
    \E c \in Candidates :
       \/ \E command \in ImportCommand : Import(r, c, command)
       \/ \E command \in RecordCommand : ReadRecord(r, c, command)
       \/ \E command \in SetCommand : FindSet(r, c, command)

Continue(r) ==
    \/ SaveCandidate(r) \/ Seed(r) \/ SaveRecord(r) \/ ReadSet(r) \/ SaveSet(r)
    \/ EvolutionFails(r) \/ Abort(r)

Next == \E r \in Slots : Arrival(r) \/ Continue(r)

Spec == Init /\ [][Next]_vars

-----------------------------------------------------------------------------
(* Properties.                                                             *)

FieldSound(k) ==
    LET n == Len(k.revisions) IN
    /\ k.verified <=> n > 0
    /\ k.edited <=> k.current # k.original
    /\ n > 0 => k.revisions[n].value = k.current
    /\ k.rejected <=> n > 0 /\ k.revisions[n].action = "reject"
    /\ k.reviewed => k.verified

RecordSound(record) ==
    /\ record.ready => \A f \in Fields : record.fields[f].verified
    /\ \A f \in Fields : FieldSound(record.fields[f])

(* A record is consistent whatever handlers raced for it: a candidate that *)
(* is ready has every field verified, the last revision of a field tells   *)
(* its value and its verdict, the edited flag tells human from AI values.  *)
RecordsSound == \A c \in Candidates : records[c] # None => RecordSound(records[c])

ObjectSound(object) ==
    LET n == Len(object.revisions) IN
    /\ \A k \in 1..n :
          object.revisions[k].old = IF k = 1 THEN object.original ELSE object.revisions[k - 1].new
    /\ object.current = IF n = 0 THEN object.original ELSE object.revisions[n].new
    /\ object.verified <=> n > 0
    /\ n > 0 => object.confidence >= Ladder.recruiter

SetSound(set) ==
    \A f \in Fields :
        /\ ObjectSound(set.objects[f])
        /\ set.objects[f].signals = Len(set.objects[f].revisions) + set.signals

(* The timeline of a knowledge object has no gap, from the AI's value to   *)
(* the current truth, what a human has confirmed never has less confidence *)
(* than a recruiter gives, and every signal of the candidate and of the    *)
(* field reached the object, however stale the sets that are saved.        *)
SetsSound == \A c \in Candidates : sets[c] # None => SetSound(sets[c])

(* Both rows of a candidate stay sound, each for itself.                   *)
KnowledgeSound == RecordsSound /\ SetsSound

Longer(old, new) == Len(old) <= Len(new) /\ SubSeq(new, 1, Len(old)) = old

RecordGrows(old, new) ==
    /\ new # None
    /\ old.ready => new.ready
    /\ \A f \in Fields : Longer(old.fields[f].revisions, new.fields[f].revisions)

SetGrows(old, new) ==
    /\ new # None
    /\ old.signals <= new.signals
    /\ \A f \in Fields : Longer(old.objects[f].revisions, new.objects[f].revisions)

(* r saves over a record, or a set, that is not the one it read. *)
Overwrites(r, c) ==
    /\ request[r] # None /\ request'[r] # request[r] /\ request[r].candidate = c
    /\ \/ request[r].at = "saveRecord" /\ request[r].record # records[c]
       \/ request[r].at = "saveSet" /\ request[r].set # sets[c]
       \/ request[r].at = "seed" /\ sets[c] # None

Keeps(c) ==
    \/ \E r \in Slots : Overwrites(r, c)
    \/ /\ records[c] # None => RecordGrows(records[c], records'[c])
       /\ sets[c] # None => SetGrows(sets[c], sets'[c])

(* "Knowledge always keeps historical versions" (04-business-rules.md): no *)
(* revision and no signal is lost and readiness is not taken back, except  *)
(* where a handler saves over what another one saved since it read.        *)
HistoryKept == [][\A c \in Candidates : Keeps(c)]_vars

(* The objects follow the record: when no handlers of the candidate        *)
(* overlapped, none failed and no object was patched directly, they show   *)
(* the values and the verification that the record shows.                  *)
Agreement ==
    \A c \in Candidates \ disturbed :
        sets[c] # None /\ ~Busy(c) =>
            \A f \in Fields :
                /\ sets[c].objects[f].current = records[c].fields[f].current
                /\ sets[c].objects[f].verified = records[c].fields[f].verified

=============================================================================
