--------------------- MODULE RelationshipWorkflow_proofs ---------------------
(***************************************************************************)
(* Invariants of RelationshipWorkflow for every number of relationships,   *)
(* requests and calls.  A handler saves a row it built from an earlier     *)
(* read, so the invariant also says of each request in flight that the row *)
(* it holds is chained and has the pair of the row it will replace.  What  *)
(* was told and audited is counted against the requests that still owe it. *)
(* For one request at a time: the workflow implements the log of stages,   *)
(* and mail goes out once but for requests that are cut short.             *)
(***************************************************************************)
EXTENDS Copilot, SequenceTheorems, FunctionTheorems, FiniteSetTheorems, TLAPS

(* The row a request will save, and what its next call relies on.          *)
CallOK(c) ==
    /\ c.at = "insert" => c.row \in Relationship /\ Chained(c.row)
    /\ c.at # "insert" => c.rel \in Relationships
    /\ c.at \in {"save", "notify"} =>
          /\ c.row \in Relationship /\ Chained(c.row)
          /\ Exists(c.rel) /\ relationships[c.rel].pair = c.row.pair
    /\ c.at = "read" => Exists(c.rel) /\ c.arg \in Stages
    /\ c.at \in {"findSend", "send"} => c.arg \in Drafts

CallsOK == \A r \in Requests : request[r] # None => CallOK(request[r])

IInv == TypeOK /\ OneRelationshipPerPair /\ HistoryChained /\ CallsOK

(* No step removes a relationship or gives it another pair.                *)
RowsStay ==
    \A x \in Relationships :
        Exists(x) => Exists(x)' /\ relationships'[x].pair = relationships[x].pair

-----------------------------------------------------------------------------
(* Rows.                                                                   *)

(* A new row has a history of one entry.                                   *)
LEMMA NewRowChained ==
    ASSUME NEW pair \in Pairs, NEW stage \in Stages
    PROVE  NewRow(pair, stage) \in Relationship /\ Chained(NewRow(pair, stage))
<1> DEFINE e == [previousStage |-> None, newStage |-> stage]
<1>1. e \in HistoryEntry BY DEF HistoryEntry
<1>2. <<e>> \in Seq(HistoryEntry) /\ Len(<<e>>) = 1 /\ <<e>>[1] = e BY <1>1
<1>3. PICK h : h = <<e>> OBVIOUS
<1>4. PICK row : row = [pair |-> pair, currentStage |-> stage, stageHistory |-> h,
                        assigneeId |-> None] OBVIOUS
<1>5. row = NewRow(pair, stage) BY <1>3, <1>4 DEF NewRow
<1>6. row \in Relationship BY <1>2, <1>3, <1>4 DEF Relationship
<1>7. h # <<>> /\ Len(h) = 1 /\ h[1].previousStage = None /\ h[1].newStage = stage
  BY <1>2, <1>3
<1>8. row.stageHistory = h /\ row.currentStage = stage BY <1>4
<1>9. \A n \in 2..Len(h) : FALSE BY <1>7
<1>10. Chained(row) BY <1>7, <1>8, <1>9, Zenon DEF Chained
<1> QED BY <1>10, <1>5, <1>6, <1>8

(* A move adds the entry that continues the history.                       *)
LEMMA MovedChained ==
    ASSUME NEW row \in Relationship, Chained(row), NEW stage \in Stages,
           row.currentStage # stage
    PROVE  /\ Moved(row, stage) \in Relationship /\ Chained(Moved(row, stage))
           /\ Moved(row, stage).pair = row.pair
<1>1. PICK h : h = row.stageHistory OBVIOUS
<1>2. PICK e : e = [previousStage |-> row.currentStage, newStage |-> stage] OBVIOUS
<1>3. row.currentStage \in Stages /\ h \in Seq(HistoryEntry) /\ row.pair \in Pairs
      /\ row.assigneeId \in Assignees \cup {None}
  BY <1>1 DEF Relationship
<1>4. e \in HistoryEntry /\ e.previousStage = row.currentStage /\ e.newStage = stage
  BY <1>2, <1>3 DEF HistoryEntry
<1>5. /\ Append(h, e) \in Seq(HistoryEntry) /\ Len(h) \in Nat /\ Len(Append(h, e)) = Len(h) + 1
      /\ Append(h, e)[Len(h) + 1] = e
      /\ \A n \in 1..Len(h) : Append(h, e)[n] = h[n]
  BY <1>3, <1>4
<1>6. PICK g : g = Append(h, e) OBVIOUS
<1>7. PICK new : new = [pair |-> row.pair, currentStage |-> stage, stageHistory |-> g,
                        assigneeId |-> row.assigneeId] OBVIOUS
<1>8. new = Moved(row, stage)
  <2>1. PICK m : m = Moved(row, stage) OBVIOUS
  <2>2. m = [row EXCEPT !.currentStage = stage, !.stageHistory = g]
    BY <1>1, <1>2, <1>6, <2>1 DEF Moved
  <2>3. PICK old : old = [row EXCEPT !.currentStage = stage] OBVIOUS
  <2>4. old = [pair |-> row.pair, currentStage |-> stage, stageHistory |-> h,
               assigneeId |-> row.assigneeId]
    BY <1>1, <2>3 DEF Relationship
  <2>5. m = [old EXCEPT !.stageHistory = g] BY <2>2, <2>3
  <2>6. m = new BY <1>7, <2>4, <2>5
  <2> QED BY <2>1, <2>6
<1>9. new \in Relationship /\ new.pair = row.pair BY <1>3, <1>5, <1>6, <1>7 DEF Relationship
<1>10. /\ h # <<>> /\ h[1].previousStage = None /\ h[Len(h)].newStage = row.currentStage
       /\ \A n \in 2..Len(h) : /\ h[n].previousStage = h[n - 1].newStage
                               /\ h[n].previousStage # h[n].newStage
  BY <1>1 DEF Chained
<1>11. Len(h) >= 1 BY <1>3, <1>5, <1>10
<1>12. g # <<>> /\ g[1].previousStage = None /\ Len(g) = Len(h) + 1 /\ g[Len(g)] = e
  BY <1>5, <1>6, <1>10, <1>11
<1>13. ASSUME NEW n \in 2..Len(g)
       PROVE  g[n].previousStage = g[n - 1].newStage /\ g[n].previousStage # g[n].newStage
  <2>1. CASE n = Len(g)
    <3>1. g[n] = e /\ n - 1 = Len(h) BY <1>5, <1>12, <2>1
    <3>2. g[n - 1] = h[Len(h)] BY <1>5, <1>6, <1>11, <3>1
    <3> QED BY <1>4, <1>10, <3>1, <3>2
  <2>2. CASE n # Len(g)
    <3>1. n \in 2..Len(h) /\ n - 1 \in 1..Len(h) /\ n \in 1..Len(h) BY <1>5, <1>12, <2>2
    <3>2. g[n] = h[n] /\ g[n - 1] = h[n - 1] BY <1>5, <1>6, <3>1
    <3> QED BY <1>10, <3>1, <3>2
  <2> QED BY <2>1, <2>2
<1>14. Chained(new) BY <1>4, <1>7, <1>12, <1>13 DEF Chained
<1> QED BY <1>8, <1>9, <1>14

(* An assignment leaves the history alone.                                 *)
LEMMA AssignedChained ==
    ASSUME NEW row \in Relationship, Chained(row), NEW assignee \in Assignees
    PROVE  /\ Assigned(row, assignee) \in Relationship /\ Chained(Assigned(row, assignee))
           /\ Assigned(row, assignee).pair = row.pair
<1>1. PICK new : new = Assigned(row, assignee) OBVIOUS
<1>2. /\ new \in Relationship /\ new.pair = row.pair /\ new.stageHistory = row.stageHistory
      /\ new.currentStage = row.currentStage
  BY <1>1 DEF Assigned, Relationship
<1>3. Chained(new) BY <1>2 DEF Chained
<1> QED BY <1>1, <1>2, <1>3

-----------------------------------------------------------------------------
(* Requests in flight.                                                     *)

(* The fields of a new call.                                               *)
LEMMA NewCallFields ==
    ASSUME NEW op \in Ops, NEW caller \in Callers, NEW at \in Steps,
           NEW x \in Relationships \cup {None}, NEW arg \in Args
    PROVE  /\ NewCall(op, caller, at, x, arg) \in Call
           /\ NewCall(op, caller, at, x, arg).at = at
           /\ NewCall(op, caller, at, x, arg).rel = x
           /\ NewCall(op, caller, at, x, arg).arg = arg
BY DEF NewCall, Call, Outcomes

(* A call that goes on to record its outcome.                              *)
LEMMA RecordingFields ==
    ASSUME NEW c \in Call, c.rel \in Relationships, NEW outcome \in Outcomes
    PROVE  Recording(c, outcome) \in Call /\ CallOK(Recording(c, outcome))
<1>1. PICK d : d = Recording(c, outcome) OBVIOUS
<1>2. d \in Call /\ d.at = "record" /\ d.rel = c.rel BY <1>1 DEF Recording, Call, Steps
<1>3. CallOK(d) BY <1>2 DEF CallOK
<1> QED BY <1>1, <1>2, <1>3

(* A call that goes on to save a row.                                      *)
LEMMA SavingFields ==
    ASSUME NEW c \in Call, c.rel \in Relationships, Exists(c.rel),
           NEW row \in Relationship, Chained(row), relationships[c.rel].pair = row.pair
    PROVE  Saving(c, row) \in Call /\ CallOK(Saving(c, row))
<1>1. PICK d : d = Saving(c, row) OBVIOUS
<1>2. d \in Call /\ d.at = "save" /\ d.rel = c.rel /\ d.row = row
  BY <1>1 DEF Saving, Call, Steps
<1>3. CallOK(d) BY <1>2 DEF CallOK
<1> QED BY <1>1, <1>2, <1>3

(* What holds of a call in flight still holds after a step of another      *)
(* request.                                                                *)
LEMMA CallStays ==
    ASSUME TypeOK, RowsStay, NEW c \in Call, CallOK(c)
    PROVE  CallOK(c)'
<1>1. CASE c.at \in {"save", "notify", "read"}
  <2>1. c.rel \in Relationships /\ Exists(c.rel) BY <1>1 DEF CallOK
  <2>2. Exists(c.rel)' /\ relationships'[c.rel].pair = relationships[c.rel].pair
    BY <2>1 DEF RowsStay
  <2> QED BY <2>1, <2>2 DEF CallOK, Chained
<1>2. CASE c.at \notin {"save", "notify", "read"}
  BY <1>2 DEF CallOK, Chained
<1> QED BY <1>1, <1>2

(* A request moves on to call c, or ends: all calls in flight are right    *)
(* when c is.                                                              *)
LEMMA CallsStay ==
    ASSUME TypeOK, CallsOK, RowsStay, NEW r \in Requests, NEW c,
           request' = [request EXCEPT ![r] = c], c # None => CallOK(c)'
    PROVE  CallsOK'
<1> SUFFICES ASSUME NEW q \in Requests, request[q]' # None PROVE CallOK(request[q])'
  BY DEF CallsOK
<1>1. CASE q = r
  <2>1. request[q]' = c BY <1>1 DEF TypeOK
  <2> QED BY <2>1 DEF CallOK, Chained
<1>2. CASE q # r
  <2>1. request'[q] = request[q] BY <1>2 DEF TypeOK
  <2>2. PICK d : d = request[q] OBVIOUS
  <2>3. d \in Call /\ CallOK(d) BY <2>1, <2>2 DEF TypeOK, CallsOK
  <2>4. CallOK(d)' BY <2>3, CallStays
  <2> QED BY <2>1, <2>2, <2>4
<1> QED BY <1>1, <1>2

(* A step that leaves the relationships alone keeps the invariant when its *)
(* next call is right.                                                     *)
LEMMA RowsStill ==
    ASSUME IInv, NEW r \in Requests, NEW c, request' = [request EXCEPT ![r] = c],
           relationships' = relationships, c # None => c \in Call /\ CallOK(c),
           calls' \in Nat, aborts' \in Nat,
           notices' \in [Subjects \X NoticeKinds -> Nat],
           results' \in [Subjects \X Outcomes -> Nat], RepositoryTyped',
           audits' \in [Subjects \X Callers \X Outcomes -> Nat],
           emails' \in [Relationships \X Drafts -> Nat],
           written' \in [Subjects \X Callers -> Nat]
    PROVE  IInv'
<1>1. RowsStay BY DEF RowsStay, Exists
<1>2. OneRelationshipPerPair' /\ HistoryChained'
  BY DEF IInv, OneRelationshipPerPair, HistoryChained, Exists
<1>3. TypeOK' BY DEF IInv, TypeOK
<1>4. c # None => CallOK(c)' BY <1>1, CallStays DEF IInv
<1>5. CallsOK' BY <1>1, <1>4, CallsStay DEF IInv
<1> QED BY <1>2, <1>3, <1>5 DEF IInv

(* The action results keep their types while they are left alone.          *)
LEMMA RepositoryStays == ASSUME IInv, UNCHANGED repository PROVE RepositoryTyped'
BY DEF IInv, TypeOK, RepositoryTyped, repository

(* A step that only moves a request on keeps the invariant too.            *)
LEMMA OnlyCalls ==
    ASSUME IInv, NEW r \in Requests, NEW c, request' = [request EXCEPT ![r] = c],
           UNCHANGED stores, c # None => c \in Call /\ CallOK(c),
           calls' \in Nat, aborts' \in Nat
    PROVE  IInv'
<1>1. /\ notices \in [Subjects \X NoticeKinds -> Nat]
      /\ results \in [Subjects \X Outcomes -> Nat]
      /\ audits \in [Subjects \X Callers \X Outcomes -> Nat]
      /\ emails \in [Relationships \X Drafts -> Nat]
      /\ written \in [Subjects \X Callers -> Nat]
  BY DEF IInv, TypeOK
<1>2. /\ notices' = notices /\ results' = results /\ audits' = audits /\ emails' = emails
      /\ written' = written /\ relationships' = relationships
  BY DEF stores
<1>3. RepositoryTyped' BY RepositoryStays DEF stores
<1> QED BY <1>1, <1>2, <1>3, RowsStill

(* A request that arrives, or moves on, keeps the counters right.          *)
LEMMA Stepping ==
    ASSUME IInv, NEW r, NEW c, Arrive(r, c) \/ Await(r, c)
    PROVE  request' = [request EXCEPT ![r] = c] /\ calls' \in Nat /\ aborts' \in Nat
BY DEF Arrive, Await, IInv, TypeOK

-----------------------------------------------------------------------------
(* One lemma per operation.                                                *)

(* create up to the insert.                                                *)
LEMMA CreateStep ==
    ASSUME IInv, NEW r \in Requests, NEW pair \in Pairs, NEW stage \in Stages,
           Create(r, pair, stage)
    PROVE  IInv'
<1>1. PICK op, caller, at : op = "create" /\ caller = "service" /\ at = "insert" OBVIOUS
<1>2. PICK n : n = NewCall(op, caller, at, None, stage) OBVIOUS
<1>3. n \in Call /\ n.at = "insert"
  BY <1>1, <1>2, NewCallFields DEF Ops, Callers, Steps, Args
<1>4. PICK row : row = NewRow(pair, stage) OBVIOUS
<1>5. row \in Relationship /\ Chained(row) BY <1>4, NewRowChained
<1>6. PICK c : c = [n EXCEPT !.row = row] OBVIOUS
<1>7. c \in Call /\ c.at = "insert" /\ c.row = row BY <1>3, <1>5, <1>6 DEF Call
<1>8. CallOK(c) BY <1>5, <1>7 DEF CallOK
<1>9. Arrive(r, c) /\ UNCHANGED stores BY <1>1, <1>2, <1>4, <1>6 DEF Create
<1> QED BY <1>7, <1>8, <1>9, Stepping, OnlyCalls

(* The changes moveStage and assign make of a row that was read.           *)
LEMMA ServiceStep ==
    ASSUME IInv, NEW r \in Requests, NEW x \in Relationships,
           \/ \E stage \in Stages : MoveStage(r, x, stage)
           \/ \E a \in Assignees : Assign(r, x, a)
    PROVE  IInv'
<1>1. PICK caller, at : caller = "service" /\ at = "save" OBVIOUS
<1>2. caller \in Callers /\ at \in Steps BY <1>1 DEF Callers, Steps
<1>3. ASSUME NEW stage \in Stages, MoveStage(r, x, stage) PROVE IInv'
  <2>1. PICK op : op = "move" OBVIOUS
  <2>2. PICK n : n = NewCall(op, caller, at, x, stage) OBVIOUS
  <2>3. n \in Call /\ n.rel = x BY <1>2, <2>1, <2>2, NewCallFields DEF Ops, Args
  <2>4. PICK old : old = relationships[x] OBVIOUS
  <2>5. Exists(x) /\ old \in Relationship /\ Chained(old) /\ old.currentStage # stage
    BY <1>3, <2>4 DEF MoveStage, IInv, TypeOK, HistoryChained, Exists
  <2>6. PICK row : row = Moved(old, stage) OBVIOUS
  <2>7. row \in Relationship /\ Chained(row) /\ row.pair = old.pair
    BY <2>5, <2>6, MovedChained
  <2>8. PICK c : c = Saving(n, row) OBVIOUS
  <2>9. c \in Call /\ CallOK(c) BY <2>3, <2>4, <2>5, <2>7, <2>8, SavingFields
  <2>10. Arrive(r, c) /\ UNCHANGED stores
    BY <1>1, <1>3, <2>1, <2>2, <2>4, <2>6, <2>8 DEF MoveStage
  <2> QED BY <2>9, <2>10, Stepping, OnlyCalls
<1>4. ASSUME NEW a \in Assignees, Assign(r, x, a) PROVE IInv'
  <2>1. PICK op : op = "assign" OBVIOUS
  <2>2. PICK n : n = NewCall(op, caller, at, x, a) OBVIOUS
  <2>3. n \in Call /\ n.rel = x BY <1>2, <2>1, <2>2, NewCallFields DEF Ops, Args
  <2>4. PICK old : old = relationships[x] OBVIOUS
  <2>5. Exists(x) /\ old \in Relationship /\ Chained(old)
    BY <1>4, <2>4 DEF Assign, IInv, TypeOK, HistoryChained, Exists
  <2>6. PICK row : row = Assigned(old, a) OBVIOUS
  <2>7. row \in Relationship /\ Chained(row) /\ row.pair = old.pair
    BY <2>5, <2>6, AssignedChained
  <2>8. PICK c : c = Saving(n, row) OBVIOUS
  <2>9. c \in Call /\ CallOK(c) BY <2>3, <2>4, <2>5, <2>7, <2>8, SavingFields
  <2>10. Arrive(r, c) /\ UNCHANGED stores
    BY <1>1, <1>4, <2>1, <2>2, <2>4, <2>6, <2>8 DEF Assign
  <2> QED BY <2>9, <2>10, Stepping, OnlyCalls
<1> QED BY <1>3, <1>4

(* stageMove up to its own read.                                           *)
LEMMA AutomateMoveStep ==
    ASSUME IInv, NEW r \in Requests, NEW x \in Relationships, NEW stage \in Stages,
           AutomateMove(r, x, stage)
    PROVE  IInv'
<1>1. PICK op, caller, at : op = "move" /\ caller = "automation" /\ at = "read" OBVIOUS
<1>2. PICK n : n = NewCall(op, caller, at, x, stage) OBVIOUS
<1>3. n \in Call /\ n.at = "read" /\ n.rel = x /\ n.arg = stage
  BY <1>1, <1>2, NewCallFields DEF Ops, Callers, Steps, Args
<1>4. PICK outcome : outcome = "failure" OBVIOUS
<1>5. outcome \in Outcomes BY <1>4 DEF Outcomes
<1>6. PICK c : c = IF Exists(x) THEN [n EXCEPT !.before = relationships[x]]
                                ELSE Recording(n, outcome) OBVIOUS
<1>7. c \in Call /\ CallOK(c)
  <2>1. CASE Exists(x)
    <3>1. PICK old : old = relationships[x] OBVIOUS
    <3>2. old \in Relationship BY <2>1, <3>1 DEF Exists, IInv, TypeOK
    <3>3. c = [n EXCEPT !.before = old] BY <1>6, <2>1, <3>1
    <3>4. c \in Call /\ c.at = "read" /\ c.rel = x /\ c.arg = stage
      BY <1>3, <3>2, <3>3 DEF Call
    <3> QED BY <2>1, <3>4 DEF CallOK
  <2>2. CASE ~Exists(x) BY <1>3, <1>5, <1>6, <2>2, RecordingFields
  <2> QED BY <2>1, <2>2
<1>8. Arrive(r, c) /\ UNCHANGED stores BY <1>1, <1>2, <1>4, <1>6 DEF AutomateMove
<1> QED BY <1>7, <1>8, Stepping, OnlyCalls

(* assign for automation.                                                  *)
LEMMA AutomateAssignStep ==
    ASSUME IInv, NEW r \in Requests, NEW x \in Relationships, NEW a \in Assignees,
           AutomateAssign(r, x, a)
    PROVE  IInv'
<1>1. PICK op, caller, at : op = "assign" /\ caller = "automation" /\ at = "save" OBVIOUS
<1>2. PICK n : n = NewCall(op, caller, at, x, a) OBVIOUS
<1>3. n \in Call /\ n.rel = x
  BY <1>1, <1>2, NewCallFields DEF Ops, Callers, Steps, Args
<1>4. PICK fail, noop : fail = "failure" /\ noop = "noop" OBVIOUS
<1>5. fail \in Outcomes /\ noop \in Outcomes BY <1>4 DEF Outcomes
<1>6. PICK old : old = relationships[x] OBVIOUS
<1>7. PICK c : c = IF ~Exists(x) THEN Recording(n, fail)
                   ELSE IF old.assigneeId = a THEN Recording(n, noop)
                   ELSE Saving(n, Assigned(old, a)) OBVIOUS
<1>8. Recording(n, fail) \in Call /\ CallOK(Recording(n, fail))
      /\ Recording(n, noop) \in Call /\ CallOK(Recording(n, noop))
  BY <1>3, <1>5, RecordingFields
<1>9. ASSUME Exists(x) PROVE Saving(n, Assigned(old, a)) \in Call /\ CallOK(Saving(n, Assigned(old, a)))
  <2>1. old \in Relationship /\ Chained(old)
    BY <1>6, <1>9 DEF IInv, TypeOK, HistoryChained, Exists
  <2>2. PICK row : row = Assigned(old, a) OBVIOUS
  <2>3. row \in Relationship /\ Chained(row) /\ row.pair = old.pair
    BY <2>1, <2>2, AssignedChained
  <2> QED BY <1>3, <1>6, <1>9, <2>2, <2>3, SavingFields
<1>10. c \in Call /\ CallOK(c) BY <1>7, <1>8, <1>9
<1>11. Arrive(r, c) /\ UNCHANGED stores
  BY <1>1, <1>2, <1>4, <1>6, <1>7 DEF AutomateAssign
<1> QED BY <1>10, <1>11, Stepping, OnlyCalls

(* sendOutreach up to its read of the relationship.                        *)
LEMMA SendOutreachStep ==
    ASSUME IInv, NEW r \in Requests, NEW x \in Relationships, NEW draft \in Drafts,
           SendOutreach(r, x, draft)
    PROVE  IInv'
<1>1. PICK op, caller, at : op = "send" /\ caller = "automation" /\ at = "findSend" OBVIOUS
<1>2. PICK n : n = NewCall(op, caller, at, x, draft) OBVIOUS
<1>3. n \in Call /\ n.at = "findSend" /\ n.rel = x /\ n.arg = draft
  BY <1>1, <1>2, NewCallFields DEF Ops, Callers, Steps, Args
<1>4. PICK fail : fail = "failure" OBVIOUS
<1>5. fail \in Outcomes BY <1>4 DEF Outcomes
<1>6. PICK c : c = IF Exists(x) THEN n ELSE Recording(n, fail) OBVIOUS
<1>7. CallOK(n) BY <1>3 DEF CallOK
<1>8. c \in Call /\ CallOK(c) BY <1>3, <1>5, <1>6, <1>7, RecordingFields
<1>9. Arrive(r, c) /\ UNCHANGED stores BY <1>1, <1>2, <1>4, <1>6 DEF SendOutreach
<1> QED BY <1>8, <1>9, Stepping, OnlyCalls

(* A request with an argument that is refused.                             *)
LEMMA RejectArgumentStep ==
    ASSUME IInv, NEW r \in Requests, NEW x \in Relationships, NEW op \in {"move", "send"},
           RejectArgument(r, op, x)
    PROVE  IInv'
<1>1. PICK caller, at : caller = "automation" /\ at = "record" OBVIOUS
<1>2. PICK n : n = NewCall(op, caller, at, x, Invalid) OBVIOUS
<1>3. n \in Call /\ n.rel = x
  BY <1>1, <1>2, NewCallFields DEF Ops, Callers, Steps, Args
<1>4. PICK fail : fail = "failure" OBVIOUS
<1>5. fail \in Outcomes BY <1>4 DEF Outcomes
<1>6. PICK c : c = Recording(n, fail) OBVIOUS
<1>7. c \in Call /\ CallOK(c) BY <1>3, <1>5, <1>6, RecordingFields
<1>8. Arrive(r, c) /\ UNCHANGED stores BY <1>1, <1>2, <1>4, <1>6 DEF RejectArgument
<1> QED BY <1>7, <1>8, Stepping, OnlyCalls

(* What is known of a request that makes its next call.                    *)
LEMMA Moving ==
    ASSUME IInv, NEW r \in Requests, NEW step, At(r, step)
    PROVE  /\ request[r] \in Call /\ CallOK(request[r]) /\ request[r].at = step
           /\ request[r].caller \in Callers /\ request[r].arg \in Args
           /\ request[r].outcome \in Outcomes
<1>1. request[r] \in Call BY DEF At, IInv, TypeOK
<1>2. CallOK(request[r]) BY DEF At, IInv, CallsOK
<1> QED BY <1>1, <1>2 DEF At, Call

(* A request that ends: the insert is refused, or a call rejects.          *)
LEMMA EndStep ==
    ASSUME IInv, NEW r \in Requests, RefuseInsert(r) \/ Abort(r)
    PROVE  IInv'
<1>1. UNCHANGED stores BY DEF RefuseInsert, Abort
<1>2. PICK c : c = None OBVIOUS
<1>3. request' = [request EXCEPT ![r] = c] /\ calls' \in Nat /\ aborts' \in Nat
  BY <1>2 DEF RefuseInsert, Abort, CutShort, Await, IInv, TypeOK
<1> QED BY <1>1, <1>2, <1>3, OnlyCalls

(* The action result a call will record, and the repository that has it.   *)
LEMMA ResultFields ==
    ASSUME IInv, NEW r \in Requests, At(r, "record")
    PROVE  /\ Result(request[r]) \in ActionResult
           /\ Push(Result(request[r])) => items' \subseteq ActionResult /\ loaded' \in BOOLEAN
<1>1. PICK step : step = "record" OBVIOUS
<1>2. PICK c : c = request[r] OBVIOUS
<1>3. /\ CallOK(c) /\ c.at = step /\ c.arg \in Args /\ c.outcome \in Outcomes
  BY <1>1, <1>2, Moving
<1>4. c.rel \in Relationships BY <1>1, <1>3 DEF CallOK
<1>5. Result(c) \in ActionResult BY <1>3, <1>4 DEF Result, ActionResult, Subjects
<1>6. Items \subseteq ActionResult
  BY DEF IInv, TypeOK, RepositoryTyped, Items, Parsed, File
<1> QED BY <1>2, <1>5, <1>6 DEF Push

(* What an append leaves is a file.                                        *)
LEMMA AppendsToFile ==
    ASSUME NEW R, NEW f \in File(R), NEW x \in R
    PROVE  AddLine(f, x) \in File(R) /\ CutLine(f, x) \subseteq File(R)
<1>1. AddLine(f, x) \in File(R) BY DEF File, AddLine
<1>2. ASSUME NEW t \in IF f.open THEN {{}} ELSE {{}, {x}}
      PROVE  [lines |-> f.lines, open |-> TRUE, tail |-> t] \in File(R)
  BY <1>2 DEF File
<1>3. CutLine(f, x) \subseteq File(R) BY <1>2 DEF CutLine
<1> QED BY <1>1, <1>3

(* A request that ends because the action results cannot be read, or their *)
(* file not be written.                                                    *)
LEMMA RepositoryFailsStep ==
    ASSUME IInv, NEW r \in Requests, LoadFails(r) \/ RecordFails(r)
    PROVE  IInv'
<1>1. RepositoryTyped'
  <2>1. CASE LoadFails(r)
    BY <2>1 DEF LoadFails, IInv, TypeOK, RepositoryTyped
  <2>2. CASE RecordFails(r)
    <3>1. PICK x : x = Result(request[r]) OBVIOUS
    <3>2. x \in ActionResult /\ items' \subseteq ActionResult /\ loaded' \in BOOLEAN
      BY <2>2, <3>1, ResultFields DEF RecordFails
    <3>3. resultsFile' \in CutLine(resultsFile, x) BY <2>2, <3>1 DEF RecordFails
    <3>4. resultsFile' \in File(ActionResult)
      BY <3>2, <3>3, AppendsToFile DEF IInv, TypeOK, RepositoryTyped
    <3> QED BY <3>2, <3>4 DEF RepositoryTyped
  <2> QED BY <2>1, <2>2
<1>2. PICK c : c = None OBVIOUS
<1>3. request' = [request EXCEPT ![r] = c] /\ calls' \in Nat /\ aborts' \in Nat
  BY <1>2 DEF LoadFails, RecordFails, CutShort, IInv, TypeOK
<1>4. UNCHANGED <<relationships, notices, results, audits, emails, written>>
  BY DEF LoadFails, RecordFails
<1> QED BY <1>1, <1>2, <1>3, <1>4, RowsStill DEF IInv, TypeOK

(* After a restart no request is in flight.                                *)
LEMMA RestartStep ==
    ASSUME IInv, Restart
    PROVE  IInv'
<1>1. /\ UNCHANGED <<relationships, notices, results, resultsFile, audits, emails, written, calls>>
      /\ items' = {} /\ loaded' = FALSE /\ request' = [r \in Requests |-> None]
      /\ aborts' \in Nat
  BY DEF Restart, IInv, TypeOK
<1>2. RepositoryTyped' BY <1>1 DEF IInv, TypeOK, RepositoryTyped
<1>3. TypeOK' BY <1>1, <1>2 DEF IInv, TypeOK
<1>4. OneRelationshipPerPair' /\ HistoryChained'
  BY <1>1 DEF IInv, OneRelationshipPerPair, HistoryChained, Exists
<1>5. CallsOK' BY <1>1 DEF CallsOK
<1> QED BY <1>3, <1>4, <1>5 DEF IInv

(* The insert, behind the unique index.                                    *)
LEMMA InsertStep ==
    ASSUME IInv, NEW r \in Requests, NEW x \in Relationships, Insert(r, x)
    PROVE  IInv'
<1>1. At(r, "insert") BY DEF Insert
<1>2. PICK row : row = request[r].row OBVIOUS
<1>3. row \in Relationship /\ Chained(row) BY <1>1, <1>2, Moving DEF CallOK
<1>4. relationships' = [relationships EXCEPT ![x] = row] BY <1>2 DEF Insert
<1>5. row # None BY <1>3, WorkflowAssumption
<1>6. /\ relationships'[x] = row
      /\ \A y \in Relationships : y # x => relationships'[y] = relationships[y]
  BY <1>4 DEF IInv, TypeOK
<1>7. TypeOK'
  <2>1. relationships' \in [Relationships -> Relationship \cup {None}]
    BY <1>3, <1>4 DEF IInv, TypeOK
  <2>2. request' \in [Requests -> Call \cup {None}]
    BY DEF Insert, Await, IInv, TypeOK
  <2>3. RepositoryTyped' BY RepositoryStays DEF Insert
  <2> QED BY <2>1, <2>2, <2>3 DEF Insert, Await, IInv, TypeOK
<1>8. OneRelationshipPerPair'
  <2>1. \A y \in Relationships : Exists(y) => relationships[y].pair # row.pair
    BY <1>2 DEF Insert, PairTaken
  <2> SUFFICES ASSUME NEW y \in Relationships, NEW z \in Relationships,
                      Exists(y)', Exists(z)', relationships'[y].pair = relationships'[z].pair
               PROVE  y = z
    BY DEF OneRelationshipPerPair
  <2> QED BY <1>6, <2>1 DEF Exists, IInv, OneRelationshipPerPair
<1>9. HistoryChained'
  <2> SUFFICES ASSUME NEW y \in Relationships, Exists(y)' PROVE Chained(relationships[y])'
    BY DEF HistoryChained
  <2>1. PICK new : new = relationships'[y] OBVIOUS
  <2>2. Chained(new)
    BY <1>3, <1>6, <2>1 DEF Exists, IInv, HistoryChained
  <2> QED BY <2>1, <2>2 DEF Chained
<1>10. RowsStay BY <1>6 DEF RowsStay, Exists, Insert
<1>11. request' = [request EXCEPT ![r] = None] BY DEF Insert, Await
<1>12. CallsOK' BY <1>10, <1>11, CallsStay DEF IInv
<1> QED BY <1>7, <1>8, <1>9, <1>12 DEF IInv

(* The save of a row built from an earlier read.                           *)
LEMMA SaveStep ==
    ASSUME IInv, NEW r \in Requests, Save(r)
    PROVE  IInv'
<1>1. PICK step : step = "save" OBVIOUS
<1>2. PICK c : c = request[r] OBVIOUS
<1>3. /\ c \in Call /\ CallOK(c) /\ c.at = step /\ c.caller \in Callers /\ c.arg \in Args
  BY <1>1, <1>2, Moving DEF Save
<1>4. PICK x, row : x = c.rel /\ row = c.row OBVIOUS
<1>5. /\ x \in Relationships /\ row \in Relationship /\ Chained(row)
      /\ Exists(x) /\ relationships[x].pair = row.pair
  BY <1>1, <1>3, <1>4 DEF CallOK
<1>6. relationships' = [relationships EXCEPT ![x] = row] BY <1>2, <1>4 DEF Save
<1>7. row # None BY <1>5, WorkflowAssumption
<1>8. /\ relationships'[x] = row
      /\ \A y \in Relationships : y # x => relationships'[y] = relationships[y]
  BY <1>5, <1>6 DEF IInv, TypeOK
<1>9. RowsStay BY <1>5, <1>7, <1>8 DEF RowsStay, Exists
<1>10. PICK at : at = "notify" OBVIOUS
<1>11. PICK d : d = [c EXCEPT !.at = at] OBVIOUS
<1>12. d \in Call /\ d.at = at /\ d.rel = x /\ d.row = row
  BY <1>3, <1>4, <1>10, <1>11 DEF Call, Steps
<1>13. CallOK(d)'
  <2>1. Exists(x)' /\ relationships'[x].pair = row.pair BY <1>7, <1>8 DEF Exists
  <2> QED BY <1>5, <1>10, <1>12, <2>1 DEF CallOK, Chained
<1>14. request' = [request EXCEPT ![r] = d] BY <1>2, <1>10, <1>11 DEF Save, Await
<1>15. CallsOK' BY <1>9, <1>13, <1>14, CallsStay DEF IInv
<1>16. TypeOK'
  <2>1. relationships' \in [Relationships -> Relationship \cup {None}]
    BY <1>5, <1>6 DEF IInv, TypeOK
  <2>2. request' \in [Requests -> Call \cup {None}]
    BY <1>12, <1>14 DEF IInv, TypeOK
  <2>3. PICK k : k = <<<<x, c.arg>>, c.caller>> OBVIOUS
  <2>4. k \in Subjects \X Callers BY <1>3, <1>5, <2>3 DEF Subjects
  <2>5. written' = [written EXCEPT ![k] = @ + 1] BY <1>2, <1>4, <2>3 DEF Save
  <2>6. written' \in [Subjects \X Callers -> Nat] BY <2>4, <2>5 DEF IInv, TypeOK
  <2>7. RepositoryTyped' BY RepositoryStays DEF Save
  <2> QED BY <2>1, <2>2, <2>6, <2>7 DEF Save, Await, IInv, TypeOK
<1>17. OneRelationshipPerPair'
  <2> SUFFICES ASSUME NEW y \in Relationships, NEW z \in Relationships,
                      Exists(y)', Exists(z)', relationships'[y].pair = relationships'[z].pair
               PROVE  y = z
    BY DEF OneRelationshipPerPair
  <2>1. /\ Exists(y) /\ relationships'[y].pair = relationships[y].pair
        /\ Exists(z) /\ relationships'[z].pair = relationships[z].pair
    BY <1>5, <1>8 DEF Exists
  <2> QED BY <2>1 DEF IInv, OneRelationshipPerPair
<1>18. HistoryChained'
  <2> SUFFICES ASSUME NEW y \in Relationships, Exists(y)' PROVE Chained(relationships[y])'
    BY DEF HistoryChained
  <2>1. PICK new : new = relationships'[y] OBVIOUS
  <2>2. Chained(new) BY <1>5, <1>8, <2>1 DEF Exists, IInv, HistoryChained
  <2> QED BY <2>1, <2>2 DEF Chained
<1> QED BY <1>15, <1>16, <1>17, <1>18 DEF IInv

(* The notification of a change, after which automation records its        *)
(* result.                                                                 *)
LEMMA NotifyStep ==
    ASSUME IInv, NEW r \in Requests, Notify(r)
    PROVE  IInv'
<1>1. PICK step, next : step = "notify" /\ next = "audit" OBVIOUS
<1>2. PICK c : c = request[r] OBVIOUS
<1>3. c \in Call /\ CallOK(c) /\ c.at = step /\ c.arg \in Args
  BY <1>1, <1>2, Moving DEF Notify
<1>4. c.rel \in Relationships BY <1>1, <1>3 DEF CallOK
<1>5. PICK outcome : outcome = OutcomeOf(c.before, c.row) OBVIOUS
<1>6. outcome \in Outcomes BY <1>5 DEF OutcomeOf, Outcomes
<1>7. PICK e : e = [c EXCEPT !.at = next] OBVIOUS
<1>8. e \in Call /\ e.at = next /\ e.rel = c.rel BY <1>1, <1>3, <1>7 DEF Call, Steps
<1>9. CallOK(e) BY <1>1, <1>4, <1>8 DEF CallOK
<1>10. PICK d : d = IF c.caller = "service" THEN e ELSE Recording(c, outcome) OBVIOUS
<1>11. d \in Call /\ CallOK(d) BY <1>3, <1>4, <1>6, <1>8, <1>9, <1>10, RecordingFields
<1>12. Await(r, d) BY <1>1, <1>2, <1>5, <1>7, <1>10 DEF Notify
<1>13. PICK kind : kind = "changed" OBVIOUS
<1>14. PICK k : k = <<<<c.rel, c.arg>>, kind>> OBVIOUS
<1>15. k \in Subjects \X NoticeKinds BY <1>3, <1>4, <1>13, <1>14 DEF Subjects, NoticeKinds
<1>16. notices' = notices \/ notices' = [notices EXCEPT ![k] = @ + 1]
  BY <1>2, <1>13, <1>14 DEF Notify
<1>17. notices' \in [Subjects \X NoticeKinds -> Nat] BY <1>15, <1>16 DEF IInv, TypeOK
<1>18. UNCHANGED <<relationships, results, repository, audits, emails, written>> BY DEF Notify
<1> QED BY <1>11, <1>12, <1>17, <1>18, RepositoryStays, Stepping, RowsStill DEF IInv, TypeOK

(* moveStage reads the row again and finds it in the stage, or moves it.   *)
LEMMA ReadAgainStep ==
    ASSUME IInv, NEW r \in Requests, ReadAgain(r)
    PROVE  IInv'
<1>1. PICK step : step = "read" OBVIOUS
<1>2. PICK c : c = request[r] OBVIOUS
<1>3. c \in Call /\ CallOK(c) /\ c.at = step BY <1>1, <1>2, Moving DEF ReadAgain
<1>4. c.rel \in Relationships /\ Exists(c.rel) /\ c.arg \in Stages
  BY <1>1, <1>3 DEF CallOK
<1>5. PICK old : old = relationships[c.rel] OBVIOUS
<1>6. old \in Relationship /\ Chained(old)
  BY <1>4, <1>5 DEF Exists, IInv, TypeOK, HistoryChained
<1>7. PICK outcome : outcome = OutcomeOf(c.before, old) OBVIOUS
<1>8. outcome \in Outcomes BY <1>7 DEF OutcomeOf, Outcomes
<1>9. PICK d : d = IF old.currentStage = c.arg THEN Recording(c, outcome)
                   ELSE Saving(c, Moved(old, c.arg)) OBVIOUS
<1>10. d \in Call /\ CallOK(d)
  <2>1. CASE old.currentStage = c.arg BY <1>3, <1>4, <1>8, <1>9, <2>1, RecordingFields
  <2>2. CASE old.currentStage # c.arg
    <3>1. PICK row : row = Moved(old, c.arg) OBVIOUS
    <3>2. row \in Relationship /\ Chained(row) /\ row.pair = old.pair
      BY <1>4, <1>6, <2>2, <3>1, MovedChained
    <3>3. d = Saving(c, row) BY <1>9, <2>2, <3>1
    <3> QED BY <1>3, <1>4, <1>5, <3>2, <3>3, SavingFields
  <2> QED BY <2>1, <2>2
<1>11. Await(r, d) /\ UNCHANGED stores BY <1>2, <1>5, <1>7, <1>9 DEF ReadAgain
<1> QED BY <1>10, <1>11, Stepping, OnlyCalls

(* sendOutreach looks for an earlier send of the draft.                    *)
LEMMA FindSuccessfulSendStep ==
    ASSUME IInv, NEW r \in Requests, FindSuccessfulSend(r)
    PROVE  IInv'
<1>1. PICK step, next, fail : step = "findSend" /\ next = "send" /\ fail = "failure" OBVIOUS
<1>2. PICK c : c = request[r] OBVIOUS
<1>3. c \in Call /\ CallOK(c) /\ c.at = step BY <1>1, <1>2, Moving DEF FindSuccessfulSend
<1>4. c.rel \in Relationships /\ c.arg \in Drafts BY <1>1, <1>3 DEF CallOK
<1>5. PICK e : e = [c EXCEPT !.at = next] OBVIOUS
<1>6. e \in Call /\ e.at = next /\ e.rel = c.rel /\ e.arg = c.arg
  BY <1>1, <1>3, <1>5 DEF Call, Steps
<1>7. CallOK(e) BY <1>1, <1>4, <1>6 DEF CallOK
<1>8. fail \in Outcomes BY <1>1 DEF Outcomes
<1>9. PICK d : d = IF SentBefore(c.rel, c.arg) THEN Recording(c, fail) ELSE e OBVIOUS
<1>10. d \in Call /\ CallOK(d) BY <1>3, <1>4, <1>6, <1>7, <1>8, <1>9, RecordingFields
<1>11. Await(r, d) BY <1>1, <1>2, <1>5, <1>9 DEF FindSuccessfulSend
<1>12. UNCHANGED <<relationships, notices, results, audits, emails, written>>
  BY DEF FindSuccessfulSend
<1>13. RepositoryTyped'
  BY DEF FindSuccessfulSend, Items, Parsed, File, IInv, TypeOK, RepositoryTyped
<1> QED BY <1>10, <1>11, <1>12, <1>13, Stepping, RowsStill DEF IInv, TypeOK

(* The adapter takes the mail or rejects.                                  *)
LEMMA SendStep ==
    ASSUME IInv, NEW r \in Requests, Send(r) \/ SendFails(r)
    PROVE  IInv'
<1>1. PICK step, done, fail : step = "send" /\ done = "success" /\ fail = "failure" OBVIOUS
<1>2. PICK c : c = request[r] OBVIOUS
<1>3. c \in Call /\ CallOK(c) /\ c.at = step BY <1>1, <1>2, Moving DEF Send, SendFails
<1>4. c.rel \in Relationships /\ c.arg \in Drafts BY <1>1, <1>3 DEF CallOK
<1>5. done \in Outcomes /\ fail \in Outcomes BY <1>1 DEF Outcomes
<1>6. /\ Recording(c, done) \in Call /\ CallOK(Recording(c, done))
      /\ Recording(c, fail) \in Call /\ CallOK(Recording(c, fail))
  BY <1>3, <1>4, <1>5, RecordingFields
<1>7. CASE Send(r)
  <2>1. PICK d : d = Recording(c, done) OBVIOUS
  <2>2. Await(r, d) BY <1>1, <1>2, <1>7, <2>1 DEF Send
  <2>3. PICK k : k = <<c.rel, c.arg>> OBVIOUS
  <2>4. emails' = [emails EXCEPT ![k] = @ + 1] BY <1>2, <1>7, <2>3 DEF Send
  <2>5. emails' \in [Relationships \X Drafts -> Nat]
    BY <1>4, <2>3, <2>4 DEF IInv, TypeOK
  <2>6. UNCHANGED <<relationships, notices, results, repository, audits, written>>
    BY <1>7 DEF Send
  <2> QED BY <1>6, <2>1, <2>2, <2>5, <2>6, RepositoryStays, Stepping, RowsStill DEF IInv, TypeOK
<1>8. CASE SendFails(r)
  <2>1. PICK d : d = Recording(c, fail) OBVIOUS
  <2>2. Await(r, d) /\ UNCHANGED stores BY <1>1, <1>2, <1>8, <2>1 DEF SendFails
  <2> QED BY <1>6, <2>1, <2>2, Stepping, OnlyCalls
<1> QED BY <1>7, <1>8

(* The calls that only append to a file: the action result, the completion *)
(* notice, the audit record.                                               *)
LEMMA AppendStep ==
    ASSUME IInv, NEW r \in Requests, Record(r) \/ Complete(r) \/ Audit(r)
    PROVE  IInv'
<1>1. PICK step : step \in {"record", "complete", "audit"} /\ At(r, step)
  BY DEF Record, Complete, Audit
<1>2. PICK c : c = request[r] OBVIOUS
<1>3. /\ c \in Call /\ CallOK(c) /\ c.at = step /\ c.caller \in Callers /\ c.arg \in Args
      /\ c.outcome \in Outcomes
  BY <1>1, <1>2, Moving
<1>4. c.rel \in Relationships BY <1>1, <1>3 DEF CallOK
<1>5. PICK subject : subject = <<c.rel, c.arg>> OBVIOUS
<1>6. subject \in Subjects BY <1>3, <1>4, <1>5 DEF Subjects
<1>7. ASSUME NEW next \in {"complete", "audit"}
      PROVE  [c EXCEPT !.at = next] \in Call /\ CallOK([c EXCEPT !.at = next])
  <2>1. PICK d : d = [c EXCEPT !.at = next] OBVIOUS
  <2>2. d \in Call /\ d.at = next /\ d.rel = c.rel BY <1>3, <2>1 DEF Call, Steps
  <2>3. CallOK(d) BY <1>4, <2>2 DEF CallOK
  <2> QED BY <2>1, <2>2, <2>3
<1>8. CASE Record(r)
  <2>1. PICK next : next = IF c.outcome = "success" THEN "complete" ELSE "audit" OBVIOUS
  <2>2. PICK d : d = [c EXCEPT !.at = next] OBVIOUS
  <2>3. d \in Call /\ CallOK(d) BY <1>7, <2>1, <2>2
  <2>4. Await(r, d) BY <1>2, <1>8, <2>1, <2>2 DEF Record
  <2>5. PICK k : k = <<subject, c.outcome>> OBVIOUS
  <2>6. results' = [results EXCEPT ![k] = @ + 1] BY <1>2, <1>5, <1>8, <2>5 DEF Record, Result
  <2>7. results' \in [Subjects \X Outcomes -> Nat]
    BY <1>3, <1>6, <2>5, <2>6 DEF IInv, TypeOK
  <2>8. UNCHANGED <<relationships, notices, audits, emails, written>> BY <1>8 DEF Record
  <2>9. PICK x : x = Result(c) OBVIOUS
  <2>10. x \in ActionResult /\ items' \subseteq ActionResult /\ loaded' \in BOOLEAN
    BY <1>2, <1>8, <2>9, ResultFields DEF Record
  <2>11. resultsFile' = AddLine(resultsFile, x) BY <1>2, <1>8, <2>9 DEF Record
  <2>12. resultsFile' \in File(ActionResult)
    BY <2>10, <2>11, AppendsToFile DEF IInv, TypeOK, RepositoryTyped
  <2>13. RepositoryTyped' BY <2>10, <2>12 DEF RepositoryTyped
  <2> QED BY <2>3, <2>4, <2>7, <2>8, <2>13, Stepping, RowsStill DEF IInv, TypeOK
<1>9. CASE Complete(r)
  <2>1. PICK next, kind : next = "audit" /\ kind = "automation.completed" OBVIOUS
  <2>2. PICK d : d = [c EXCEPT !.at = next] OBVIOUS
  <2>3. d \in Call /\ CallOK(d) BY <1>7, <2>1, <2>2
  <2>4. Await(r, d) BY <1>2, <1>9, <2>1, <2>2 DEF Complete
  <2>5. PICK k : k = <<subject, kind>> OBVIOUS
  <2>6. notices' = [notices EXCEPT ![k] = @ + 1]
    BY <1>2, <1>5, <1>9, <2>1, <2>5 DEF Complete
  <2>7. k \in Subjects \X NoticeKinds BY <1>6, <2>1, <2>5 DEF NoticeKinds
  <2>8. notices' \in [Subjects \X NoticeKinds -> Nat] BY <2>6, <2>7 DEF IInv, TypeOK
  <2>9. UNCHANGED <<relationships, results, repository, audits, emails, written>>
    BY <1>9 DEF Complete
  <2> QED BY <2>3, <2>4, <2>8, <2>9, RepositoryStays, Stepping, RowsStill DEF IInv, TypeOK
<1>10. CASE Audit(r)
  <2>1. PICK d : d = None OBVIOUS
  <2>2. Await(r, d) BY <1>10, <2>1 DEF Audit
  <2>3. PICK k : k = <<subject, c.caller, c.outcome>> OBVIOUS
  <2>4. audits' = [audits EXCEPT ![k] = @ + 1] BY <1>2, <1>5, <1>10, <2>3 DEF Audit
  <2>5. audits' \in [Subjects \X Callers \X Outcomes -> Nat]
    BY <1>3, <1>6, <2>3, <2>4 DEF IInv, TypeOK
  <2>6. UNCHANGED <<relationships, notices, results, repository, emails, written>>
    BY <1>10 DEF Audit
  <2> QED BY <2>1, <2>2, <2>5, <2>6, RepositoryStays, Stepping, RowsStill DEF IInv, TypeOK
<1> QED BY <1>8, <1>9, <1>10

-----------------------------------------------------------------------------
(* The invariant and the theorems.                                         *)

(* The empty tables satisfy the invariant.                                 *)
LEMMA InitIInv == Init => IInv
<1> SUFFICES ASSUME Init PROVE IInv OBVIOUS
<1>1. TypeOK
  <2>1. RepositoryTyped BY DEF Init, RepositoryTyped, EmptyFile, File
  <2> QED BY <2>1 DEF Init, TypeOK
<1>2. \A x \in Relationships : ~Exists(x) BY DEF Init, Exists
<1>3. OneRelationshipPerPair /\ HistoryChained
  BY <1>2 DEF OneRelationshipPerPair, HistoryChained
<1>4. CallsOK BY DEF Init, CallsOK
<1> QED BY <1>1, <1>3, <1>4 DEF IInv

(* Every step of every request keeps the invariant.                        *)
LEMMA NextIInv == IInv /\ [Next]_vars => IInv'
<1> SUFFICES ASSUME IInv, [Next]_vars PROVE IInv' OBVIOUS
<1>1. ASSUME NEW r \in Requests, NewRequest(r) PROVE IInv'
  <2>1. ASSUME NEW pair \in Pairs, NEW stage \in Stages, Create(r, pair, stage) PROVE IInv'
    BY <2>1, CreateStep
  <2>2. ASSUME NEW x \in Relationships, NEW stage \in Stages,
               MoveStage(r, x, stage) \/ AutomateMove(r, x, stage)
        PROVE  IInv'
    BY <2>2, ServiceStep, AutomateMoveStep
  <2>3. ASSUME NEW x \in Relationships, NEW a \in Assignees,
               Assign(r, x, a) \/ AutomateAssign(r, x, a)
        PROVE  IInv'
    BY <2>3, ServiceStep, AutomateAssignStep
  <2>4. ASSUME NEW x \in Relationships, NEW draft \in Drafts, SendOutreach(r, x, draft)
        PROVE  IInv'
    BY <2>4, SendOutreachStep
  <2>5. ASSUME NEW x \in Relationships, NEW op \in {"move", "send"}, RejectArgument(r, op, x)
        PROVE  IInv'
    BY <2>5, RejectArgumentStep
  <2> QED BY <1>1, <2>1, <2>2, <2>3, <2>4, <2>5 DEF NewRequest
<1>2. ASSUME NEW r \in Requests, Continue(r) PROVE IInv'
  BY <1>2, EndStep, RepositoryFailsStep, InsertStep, SaveStep, NotifyStep, ReadAgainStep,
     FindSuccessfulSendStep, SendStep, AppendStep
  DEF Continue
<1>3. ASSUME UNCHANGED vars PROVE IInv'
  <2>1. /\ relationships' = relationships /\ request' = request /\ TypeOK'
    BY <1>3 DEF vars, stores, repository, IInv, TypeOK, RepositoryTyped
  <2>2. OneRelationshipPerPair' /\ HistoryChained'
    BY <2>1 DEF IInv, OneRelationshipPerPair, HistoryChained, Exists
  <2>3. CallsOK' BY <2>1 DEF IInv, CallsOK, CallOK, Exists, Chained
  <2> QED BY <2>1, <2>2, <2>3 DEF IInv
<1> QED BY <1>1, <1>2, <1>3, RestartStep DEF Next

(* The inductive invariant holds in every reachable state.                 *)
THEOREM Invariance == Spec => []IInv
<1>1. Init => IInv BY InitIInv
<1>2. IInv /\ [Next]_vars => IInv' BY NextIInv
<1> QED BY <1>1, <1>2, PTL DEF Spec

(* Every table, file counter and request in flight has its type: no        *)
(* handler saves anything but a row, and none counts against a subject     *)
(* that does not exist.                                                    *)
THEOREM WorkflowTypeCorrect == Spec => []TypeOK
<1>1. IInv => TypeOK BY DEF IInv
<1> QED BY <1>1, Invariance, PTL

(* A candidate and a job never have two relationships, with any number of  *)
(* concurrent creates (RelationshipService.create, the unique index).      *)
THEOREM OneRelationship == Spec => []OneRelationshipPerPair
<1>1. IInv => OneRelationshipPerPair BY DEF IInv
<1> QED BY <1>1, Invariance, PTL

(* The stage of a relationship is the one its history ends at, however     *)
(* stale the rows that moveStage and assign write back.                    *)
THEOREM HistoryStaysChained == Spec => []HistoryChained
<1>1. IInv => HistoryChained BY DEF IInv
<1> QED BY <1>1, Invariance, PTL

-----------------------------------------------------------------------------
(* Who was told, and what is on record.  Every change owes its notice and  *)
(* its audit record to a request in flight, so the requests at each step   *)
(* are counted with the records.                                           *)

(* Call c is on subject k, with its caller, step and outcome in T.         *)
Holds(c, k, T) ==
    c # None /\ <<c.rel, c.arg>> = k /\ <<c.caller, c.at, c.outcome>> \in T

Held(k, T) == {r \in Requests : Holds(request[r], k, T)}

Weight(c, k, T) == IF Holds(c, k, T) THEN 1 ELSE 0

InFlight == {r \in Requests : request[r] # None}

(* What each caller's requests can be at.                                  *)
Tidy(c) ==
    /\ c.caller = "service" =>
          c.outcome = "success" /\ c.at \in {"insert", "save", "notify", "audit"}
    /\ c.at \in {"save", "notify"} => c.arg \notin Drafts
    /\ c.at = "complete" => c.outcome = "success"

TidyCalls == IsFiniteSet(InFlight) /\ \A r \in Requests : request[r] # None => Tidy(request[r])

(* The requests that owe something: a notice of a change, a completion, a  *)
(* result of a mail sent, an audit record of a change or of a result, the  *)
(* result of an automated change.                                          *)
Telling == Callers \X {"notify"} \X Outcomes
Completing == Callers \X {"complete"} \X Outcomes
Mailed == Callers \X {"record"} \X {"success"}
Changing == {"service"} \X {"notify", "audit"} \X Outcomes
Answering(o) == {"automation"} \X {"complete", "audit"} \X {o}
Underway == ({"automation"} \X {"notify"} \X Outcomes)
                \cup ({"automation"} \X {"record"} \X {"success", "noop"})

Owed(k, T) == Cardinality(Held(k, T))

ToldInTime(k) ==
    /\ notices[<<k, "changed">>] + Owed(k, Telling)
           <= written[<<k, "service">>] + written[<<k, "automation">>]
    /\ notices[<<k, "automation.completed">>] + Owed(k, Completing) <= results[<<k, "success">>]
    /\ k[2] \in Drafts => results[<<k, "success">>] + Owed(k, Mailed) <= emails[k]

OnRecord(k) ==
    /\ written[<<k, "service">>] = audits[<<k, "service", "success">>] + Owed(k, Changing)
    /\ \A o \in Outcomes :
           results[<<k, o>>] = audits[<<k, "automation", o>>] + Owed(k, Answering(o))
    /\ written[<<k, "automation">>]
           <= results[<<k, "success">>] + results[<<k, "noop">>] + Owed(k, Underway)

Balanced ==
    /\ \A k \in Subjects : ToldInTime(k)
    /\ aborts = 0 => \A k \in Subjects : OnRecord(k)

CInv == TidyCalls /\ Balanced

(* The slot r holds c where it held old.                                   *)
Turns(r, old, c) ==
    r \in Requests /\ old = request[r] /\ request' = [request EXCEPT ![r] = c]

(* A request that goes on to await c leaves one count and joins another.   *)
LEMMA OwedMoves ==
    ASSUME TypeOK, IsFiniteSet(InFlight), NEW r, NEW old, NEW c, Turns(r, old, c), NEW k, NEW T
    PROVE  /\ Owed(k, T) \in Nat /\ Owed(k, T)' \in Nat
           /\ Owed(k, T)' + Weight(old, k, T) = Owed(k, T) + Weight(c, k, T)
<1>1. PICK S : S = Held(k, T) OBVIOUS
<1>2. PICK F : F = InFlight OBVIOUS
<1>3. S \subseteq F BY <1>1, <1>2 DEF Held, Holds, InFlight
<1>4. IsFiniteSet(S) BY <1>2, <1>3, FS_Subset
<1>5. Cardinality(S) \in Nat BY <1>4, FS_CardinalityType
<1>6. PICK N : N = Held(k, T)' OBVIOUS
<1>7. /\ request'[r] = c
      /\ \A q \in Requests : q # r => request'[q] = request[q]
  BY DEF TypeOK, Turns
<1>8. r \in S <=> Holds(old, k, T) BY <1>1 DEF Held, Turns
<1>9. r \in N <=> Holds(c, k, T) BY <1>6, <1>7 DEF Held, Holds, Turns
<1>10. \A q : q # r => (q \in N <=> q \in S) BY <1>1, <1>6, <1>7 DEF Held, Holds
<1>11. CASE Holds(c, k, T)
  <2>1. N = S \cup {r} BY <1>9, <1>10, <1>11
  <2>2. Cardinality(N) = IF r \in S THEN Cardinality(S) ELSE Cardinality(S) + 1
    BY <1>4, <2>1, FS_AddElement
  <2> QED BY <1>1, <1>5, <1>6, <1>8, <1>11, <2>2 DEF Owed, Weight
<1>12. CASE ~Holds(c, k, T)
  <2>1. N = S \ {r} BY <1>9, <1>10, <1>12
  <2>2. Cardinality(N) = IF r \in S THEN Cardinality(S) - 1 ELSE Cardinality(S)
    BY <1>4, <2>1, FS_RemoveElement
  <2>3. r \in S => Cardinality(S) > 0 BY <1>4, <1>5, FS_EmptySet
  <2> QED BY <1>1, <1>5, <1>6, <1>8, <1>12, <2>2, <2>3 DEF Owed, Weight
<1> QED BY <1>11, <1>12

(* Only finitely many requests are in flight, and c is one of its kind.    *)
LEMMA TidyMoves ==
    ASSUME TypeOK, TidyCalls, NEW r, NEW old, NEW c, Turns(r, old, c), c # None => Tidy(c)
    PROVE  TidyCalls'
<1>1. /\ request'[r] = c
      /\ \A q \in Requests : q # r => request'[q] = request[q]
  BY DEF TypeOK, Turns
<1>2. IsFiniteSet(InFlight \cup {r}) BY FS_AddElement DEF TidyCalls
<1>3. InFlight' \subseteq InFlight \cup {r} BY <1>1 DEF InFlight
<1>4. IsFiniteSet(InFlight') BY <1>2, <1>3, FS_Subset
<1>5. ASSUME NEW q \in Requests, request'[q] # None PROVE Tidy(request'[q])
  BY <1>1, <1>5 DEF TidyCalls
<1> QED BY <1>4, <1>5 DEF TidyCalls, Tidy

(* A call weighs on its own subject only, and there by its step, caller    *)
(* and outcome.                                                            *)
LEMMA WeightsOwed ==
    ASSUME NEW c \in Call, NEW k
    PROVE  /\ \A T : <<c.rel, c.arg>> # k => Weight(c, k, T) = 0
           /\ <<c.rel, c.arg>> = k =>
                 /\ Weight(c, k, Telling) = IF c.at = "notify" THEN 1 ELSE 0
                 /\ Weight(c, k, Completing) = IF c.at = "complete" THEN 1 ELSE 0
                 /\ Weight(c, k, Mailed) = IF c.at = "record" /\ c.outcome = "success" THEN 1 ELSE 0
                 /\ Weight(c, k, Changing) =
                       IF c.caller = "service" /\ c.at \in {"notify", "audit"} THEN 1 ELSE 0
                 /\ \A o \in Outcomes :
                       Weight(c, k, Answering(o)) =
                          IF c.caller = "automation" /\ c.at \in {"complete", "audit"} /\ c.outcome = o
                            THEN 1 ELSE 0
                 /\ Weight(c, k, Underway) =
                       IF /\ c.caller = "automation"
                          /\ c.at = "notify" \/ (c.at = "record" /\ c.outcome \in {"success", "noop"})
                         THEN 1 ELSE 0
<1>1. c # None /\ c.caller \in Callers /\ c.outcome \in Outcomes BY WorkflowAssumption DEF Call
<1>2. \A T : <<c.rel, c.arg>> # k => Weight(c, k, T) = 0 BY DEF Weight, Holds
<1>3. ASSUME <<c.rel, c.arg>> = k, NEW T
      PROVE  Weight(c, k, T) = IF <<c.caller, c.at, c.outcome>> \in T THEN 1 ELSE 0
  BY <1>1, <1>3 DEF Weight, Holds
<1>4. PICK t : t = <<c.caller, c.at, c.outcome>> OBVIOUS
<1>5. t \in Telling <=> c.at = "notify" BY <1>1, <1>4 DEF Telling
<1>6. t \in Completing <=> c.at = "complete" BY <1>1, <1>4 DEF Completing
<1>7. t \in Mailed <=> c.at = "record" /\ c.outcome = "success" BY <1>1, <1>4 DEF Mailed
<1>8. t \in Changing <=> c.caller = "service" /\ c.at \in {"notify", "audit"}
  BY <1>1, <1>4 DEF Changing
<1>9. \A o : t \in Answering(o)
                <=> c.caller = "automation" /\ c.at \in {"complete", "audit"} /\ c.outcome = o
  BY <1>4 DEF Answering
<1>10. t \in Underway <=>
          /\ c.caller = "automation"
          /\ c.at = "notify" \/ (c.at = "record" /\ c.outcome \in {"success", "noop"})
  BY <1>1, <1>4 DEF Underway
<1> QED BY <1>2, <1>3, <1>4, <1>5, <1>6, <1>7, <1>8, <1>9, <1>10

(* The counters of records are numbers.                                    *)
CountersOK(k) ==
    /\ notices[<<k, "changed">>] \in Nat /\ notices[<<k, "automation.completed">>] \in Nat
    /\ \A o \in Outcomes : results[<<k, o>>] \in Nat /\ audits[<<k, "automation", o>>] \in Nat
    /\ results[<<k, "success">>] \in Nat /\ results[<<k, "noop">>] \in Nat
    /\ audits[<<k, "service", "success">>] \in Nat
    /\ written[<<k, "service">>] \in Nat /\ written[<<k, "automation">>] \in Nat
    /\ k[2] \in Drafts => emails[k] \in Nat

LEMMA Counters == ASSUME TypeOK, NEW k \in Subjects PROVE CountersOK(k)
<1>1. k = <<k[1], k[2]>> /\ k[1] \in Relationships BY DEF Subjects
<1> QED BY <1>1 DEF CountersOK, TypeOK, NoticeKinds, Callers, Outcomes

(* A count goes over from old to c.                                        *)
Passes(k, T, old, c) ==
    /\ Owed(k, T) \in Nat /\ Owed(k, T)' \in Nat
    /\ Owed(k, T)' + Weight(old, k, T) = Owed(k, T) + Weight(c, k, T)

AllPass(k, old, c) ==
    /\ Passes(k, Telling, old, c) /\ Passes(k, Completing, old, c) /\ Passes(k, Mailed, old, c)
    /\ Passes(k, Changing, old, c) /\ Passes(k, Underway, old, c)
    /\ \A o \in Outcomes : Passes(k, Answering(o), old, c)

(* All counts of a subject do when a slot turns from old to c.             *)
LEMMA OwedTurns ==
    ASSUME TypeOK, CInv, NEW r, NEW old, NEW c, Turns(r, old, c), NEW k
    PROVE  AllPass(k, old, c)
<1>1. ASSUME NEW T PROVE Passes(k, T, old, c)
  <2>1. IsFiniteSet(InFlight) BY DEF CInv, TidyCalls
  <2>2. /\ Owed(k, T) \in Nat /\ Owed(k, T)' \in Nat
        /\ Owed(k, T)' + Weight(old, k, T) = Owed(k, T) + Weight(c, k, T)
    BY <2>1, OwedMoves
  <2> QED BY <2>2 DEF Passes
<1>2. ASSUME NEW o \in Outcomes PROVE Passes(k, Answering(o), old, c)
  BY <1>1
<1> QED BY <1>1, <1>2 DEF AllPass

(* A step that appends nothing: the request had nothing to tell or to      *)
(* record, and has at most a result to record that is no mail sent.        *)
LEMMA QuietStep ==
    ASSUME TypeOK, CInv, NEW r, NEW old, NEW c, Turns(r, old, c),
           UNCHANGED <<notices, results, audits, emails, written>>,
           c = None \/ c \in Call, old = None \/ old \in Call,
           c # None => /\ c.at \notin {"notify", "complete", "audit"}
                       /\ c.at = "record" /\ c.outcome = "success" => c.arg \notin Drafts,
           \/ aborts' = aborts /\ (old # None => old.at \notin {"notify", "record", "complete", "audit"})
           \/ aborts' # 0 /\ c = None
    PROVE  Balanced'
<1> SUFFICES ASSUME NEW k \in Subjects PROVE ToldInTime(k)' /\ (aborts' = 0 => OnRecord(k)')
  BY DEF Balanced
<1>1. /\ Weight(c, k, Telling) = 0 /\ Weight(c, k, Completing) = 0
      /\ k[2] \in Drafts => Weight(c, k, Mailed) = 0
      /\ Weight(c, k, Changing) = 0
      /\ \A o \in Outcomes : Weight(c, k, Answering(o)) = 0
  <2>1. CASE c = None BY <2>1 DEF Weight, Holds
  <2>2. CASE c \in Call
    <3>1. c # None BY <2>2, WorkflowAssumption
    <3>2. k # <<c.rel, c.arg>> \/ k[2] = c.arg OBVIOUS
    <3> QED BY <2>2, <3>1, <3>2, WeightsOwed
  <2> QED BY <2>1, <2>2
<1>2. \A T : Weight(old, k, T) \in {0, 1} /\ Weight(c, k, T) \in {0, 1} BY DEF Weight
<1>3. AllPass(k, old, c) BY OwedTurns
<1>4. CountersOK(k) BY Counters
<1>5. ToldInTime(k)'
  <2>1. ToldInTime(k) BY DEF CInv, Balanced
  <2> QED BY <1>1, <1>2, <2>1, <1>3, <1>4 DEF ToldInTime, CountersOK, AllPass, Passes
<1>6. ASSUME aborts' = 0 PROVE OnRecord(k)'
  <2>1. OnRecord(k) BY <1>6 DEF CInv, Balanced
  <2>2. old # None => old.at \notin {"notify", "record", "complete", "audit"} BY <1>6
  <2>3. /\ Weight(old, k, Changing) = 0 /\ Weight(old, k, Underway) = 0
        /\ \A o \in Outcomes : Weight(old, k, Answering(o)) = 0
    <3>1. CASE old = None BY <3>1 DEF Weight, Holds
    <3>2. CASE old \in Call BY <2>2, <3>2, WeightsOwed, WorkflowAssumption
    <3> QED BY <3>1, <3>2
  <2> QED BY <1>1, <1>2, <2>1, <2>3, <1>3, <1>4 DEF OnRecord, CountersOK, AllPass, Passes
<1> QED BY <1>5, <1>6

(* What the records say of subject k is the same after the step.           *)
SameOf(k) ==
    /\ notices'[<<k, "changed">>] = notices[<<k, "changed">>]
    /\ notices'[<<k, "automation.completed">>] = notices[<<k, "automation.completed">>]
    /\ \A o \in Outcomes : /\ results'[<<k, o>>] = results[<<k, o>>]
                           /\ audits'[<<k, "automation", o>>] = audits[<<k, "automation", o>>]
    /\ audits'[<<k, "service", "success">>] = audits[<<k, "service", "success">>]
    /\ written'[<<k, "service">>] = written[<<k, "service">>]
    /\ written'[<<k, "automation">>] = written[<<k, "automation">>]
    /\ k[2] \in Drafts => emails'[k] = emails[k]

(* The request in slot r, on subject s, goes on to c, or ends.             *)
On(r, old, c, s) ==
    /\ Turns(r, old, c) /\ aborts' = aborts
    /\ old \in Call /\ <<old.rel, old.arg>> = s /\ s \in Subjects
    /\ c = None \/ (c \in Call /\ <<c.rel, c.arg>> = s /\ c.caller = old.caller)

(* Nothing changes for the other subjects.                                 *)
LEMMA Elsewhere ==
    ASSUME TypeOK, CInv, NEW r, NEW old, NEW c, NEW s, On(r, old, c, s),
           NEW k \in Subjects, k # s, SameOf(k)
    PROVE  ToldInTime(k)' /\ (aborts' = 0 => OnRecord(k)')
<1>1. AllPass(k, old, c) BY OwedTurns DEF On
<1>2. CountersOK(k) BY Counters
<1>3. \A T : Weight(old, k, T) = 0 BY WeightsOwed DEF On
<1>4. \A T : Weight(c, k, T) = 0
  <2>1. CASE c = None BY <2>1 DEF Weight, Holds
  <2>2. CASE c \in Call /\ <<c.rel, c.arg>> = s BY <2>2, WeightsOwed
  <2> QED BY <2>1, <2>2 DEF On
<1>5. ToldInTime(k) /\ (aborts = 0 => OnRecord(k)) BY DEF CInv, Balanced
<1>6. results'[<<k, "success">>] = results[<<k, "success">>]
      /\ results'[<<k, "noop">>] = results[<<k, "noop">>]
  BY DEF SameOf, Outcomes
<1>7. ToldInTime(k)'
  BY <1>1, <1>2, <1>3, <1>4, <1>5, <1>6 DEF ToldInTime, CountersOK, AllPass, Passes, SameOf
<1>8. ASSUME aborts' = 0 PROVE OnRecord(k)'
  <2>1. OnRecord(k) BY <1>5, <1>8 DEF On
  <2> QED BY <1>1, <1>2, <1>3, <1>4, <1>6, <2>1 DEF OnRecord, CountersOK, AllPass, Passes, SameOf
<1> QED BY <1>7, <1>8

(* What is known of the subject itself.                                    *)
LEMMA Here ==
    ASSUME TypeOK, CInv, NEW r, NEW old, NEW c, NEW s, On(r, old, c, s)
    PROVE  /\ AllPass(s, old, c) /\ CountersOK(s) /\ ToldInTime(s)
           /\ aborts' = 0 => OnRecord(s)
           /\ s[2] = old.arg /\ s[1] = old.rel /\ s[1] \in Relationships
BY OwedTurns, Counters DEF On, CInv, Balanced, Subjects

(* A save owes the notice and the record of the change.                    *)
LEMMA SaveBalanced ==
    ASSUME TypeOK, CInv, NEW r, NEW old, NEW c, NEW s, On(r, old, c, s),
           old.at = "save", c # None, c.at = "notify",
           written' = [written EXCEPT ![<<s, old.caller>>] = @ + 1],
           UNCHANGED <<notices, results, audits, emails>>
    PROVE  Balanced'
<1>1. old \in Call /\ c \in Call /\ old.caller \in Callers /\ c.caller = old.caller
      /\ <<old.rel, old.arg>> = s /\ <<c.rel, c.arg>> = s /\ s \in Subjects
  BY DEF On, Call
<1>2. ASSUME NEW k \in Subjects, k # s PROVE SameOf(k)
  BY <1>2 DEF SameOf, TypeOK, Callers
<1>3. /\ written'[<<s, "service">>] =
             IF old.caller = "service" THEN written[<<s, "service">>] + 1 ELSE written[<<s, "service">>]
      /\ written'[<<s, "automation">>] =
             IF old.caller = "automation" THEN written[<<s, "automation">>] + 1
             ELSE written[<<s, "automation">>]
  BY <1>1 DEF TypeOK, Callers
<1>4. /\ AllPass(s, old, c) /\ CountersOK(s) /\ ToldInTime(s)
      /\ aborts' = 0 => OnRecord(s)
  BY Here
<1>5. /\ Weight(old, s, Telling) = 0 /\ Weight(old, s, Completing) = 0
      /\ Weight(old, s, Mailed) = 0 /\ Weight(old, s, Changing) = 0
      /\ Weight(old, s, Underway) = 0
      /\ \A o \in Outcomes : Weight(old, s, Answering(o)) = 0
  BY <1>1, WeightsOwed
<1>6. /\ Weight(c, s, Telling) = 1 /\ Weight(c, s, Completing) = 0 /\ Weight(c, s, Mailed) = 0
      /\ Weight(c, s, Changing) = IF old.caller = "service" THEN 1 ELSE 0
      /\ Weight(c, s, Underway) = IF old.caller = "automation" THEN 1 ELSE 0
      /\ \A o \in Outcomes : Weight(c, s, Answering(o)) = 0
  BY <1>1, WeightsOwed
<1>7. ToldInTime(s)'
  BY <1>1, <1>3, <1>4, <1>5, <1>6 DEF ToldInTime, CountersOK, AllPass, Passes, Callers
<1>8. aborts' = 0 => OnRecord(s)'
  BY <1>1, <1>3, <1>4, <1>5, <1>6 DEF OnRecord, CountersOK, AllPass, Passes, Callers
<1> QED BY <1>2, <1>7, <1>8, Elsewhere DEF Balanced

(* A notice of a change pays for the save; automation goes on to record.   *)
LEMMA NotifyBalanced ==
    ASSUME TypeOK, CInv, NEW r, NEW old, NEW c, NEW s, On(r, old, c, s),
           old.at = "notify", old.arg \notin Drafts, c # None,
           IF old.caller = "service" THEN c.at = "audit"
           ELSE c.at = "record" /\ c.outcome \in {"success", "noop"},
           notices' = notices \/ notices' = [notices EXCEPT ![<<s, "changed">>] = @ + 1],
           UNCHANGED <<written, results, audits, emails>>
    PROVE  Balanced'
<1>1. old \in Call /\ c \in Call /\ old.caller \in Callers /\ c.caller = old.caller
      /\ <<old.rel, old.arg>> = s /\ <<c.rel, c.arg>> = s /\ s \in Subjects
  BY DEF On, Call
<1>2. ASSUME NEW k \in Subjects, k # s PROVE SameOf(k)
  BY <1>2 DEF SameOf, TypeOK, NoticeKinds
<1>3. /\ notices'[<<s, "changed">>] \in {notices[<<s, "changed">>], notices[<<s, "changed">>] + 1}
      /\ notices'[<<s, "automation.completed">>] = notices[<<s, "automation.completed">>]
  BY <1>1 DEF TypeOK, NoticeKinds
<1>4. /\ AllPass(s, old, c) /\ CountersOK(s) /\ ToldInTime(s)
      /\ aborts' = 0 => OnRecord(s)
      /\ s[2] \notin Drafts
  BY Here
<1>5. /\ Weight(old, s, Telling) = 1 /\ Weight(old, s, Completing) = 0
      /\ Weight(old, s, Changing) = IF old.caller = "service" THEN 1 ELSE 0
      /\ Weight(old, s, Underway) = IF old.caller = "automation" THEN 1 ELSE 0
      /\ \A o \in Outcomes : Weight(old, s, Answering(o)) = 0
  BY <1>1, WeightsOwed
<1>6. /\ Weight(c, s, Telling) = 0 /\ Weight(c, s, Completing) = 0
      /\ Weight(c, s, Changing) = IF old.caller = "service" THEN 1 ELSE 0
      /\ Weight(c, s, Underway) = IF old.caller = "automation" THEN 1 ELSE 0
      /\ \A o \in Outcomes : Weight(c, s, Answering(o)) = 0
  <2>1. CASE old.caller = "service" BY <1>1, <2>1, WeightsOwed
  <2>2. CASE old.caller = "automation" BY <1>1, <2>2, WeightsOwed
  <2> QED BY <1>1, <2>1, <2>2 DEF Callers
<1>7. ToldInTime(s)'
  BY <1>1, <1>3, <1>4, <1>5, <1>6 DEF ToldInTime, CountersOK, AllPass, Passes
<1>8. aborts' = 0 => OnRecord(s)'
  BY <1>1, <1>3, <1>4, <1>5, <1>6 DEF OnRecord, CountersOK, AllPass, Passes
<1> QED BY <1>2, <1>7, <1>8, Elsewhere DEF Balanced

(* A mail that was sent owes its result.                                   *)
LEMMA SendBalanced ==
    ASSUME TypeOK, CInv, NEW r, NEW old, NEW c, NEW s, On(r, old, c, s),
           old.at = "send", old.arg \in Drafts, c # None, c.at = "record",
           emails' = [emails EXCEPT ![s] = @ + 1],
           UNCHANGED <<written, results, audits, notices>>
    PROVE  Balanced'
<1>1. old \in Call /\ c \in Call /\ <<old.rel, old.arg>> = s /\ <<c.rel, c.arg>> = s
      /\ s \in Subjects
  BY DEF On, Call
<1>2. ASSUME NEW k \in Subjects, k # s PROVE SameOf(k)
  <2>1. k[2] \in Drafts => k \in Relationships \X Drafts BY DEF Subjects
  <2> QED BY <1>2, <2>1 DEF SameOf, TypeOK
<1>3. emails'[s] = emails[s] + 1
  <2>1. s \in Relationships \X Drafts BY <1>1, Here DEF Subjects
  <2> QED BY <2>1 DEF TypeOK
<1>4. /\ AllPass(s, old, c) /\ CountersOK(s) /\ ToldInTime(s)
      /\ aborts' = 0 => OnRecord(s)
      /\ s[2] \in Drafts
  BY Here
<1>5. /\ Weight(old, s, Telling) = 0 /\ Weight(old, s, Completing) = 0
      /\ Weight(old, s, Mailed) = 0 /\ Weight(old, s, Changing) = 0
      /\ Weight(old, s, Underway) = 0
      /\ \A o \in Outcomes : Weight(old, s, Answering(o)) = 0
  BY <1>1, WeightsOwed
<1>6. /\ Weight(c, s, Telling) = 0 /\ Weight(c, s, Completing) = 0
      /\ Weight(c, s, Mailed) \in {0, 1} /\ Weight(c, s, Changing) = 0
      /\ Weight(c, s, Underway) \in {0, 1}
      /\ \A o \in Outcomes : Weight(c, s, Answering(o)) = 0
  BY <1>1, WeightsOwed
<1>7. ToldInTime(s)'
  BY <1>3, <1>4, <1>5, <1>6 DEF ToldInTime, CountersOK, AllPass, Passes
<1>8. aborts' = 0 => OnRecord(s)'
  BY <1>4, <1>5, <1>6 DEF OnRecord, CountersOK, AllPass, Passes
<1> QED BY <1>2, <1>7, <1>8, Elsewhere DEF Balanced

(* A result pays for the mail and owes its completion and its record.      *)
LEMMA RecordBalanced ==
    ASSUME TypeOK, CInv, NEW r, NEW old, NEW c, NEW s, On(r, old, c, s),
           old.at = "record", old.caller = "automation", c # None, c.outcome = old.outcome,
           c.at = IF old.outcome = "success" THEN "complete" ELSE "audit",
           results' = [results EXCEPT ![<<s, old.outcome>>] = @ + 1],
           UNCHANGED <<written, emails, audits, notices>>
    PROVE  Balanced'
<1>1. old \in Call /\ c \in Call /\ <<old.rel, old.arg>> = s /\ <<c.rel, c.arg>> = s
      /\ s \in Subjects /\ old.outcome \in Outcomes /\ c.caller = "automation"
  BY DEF On, Call
<1>2. ASSUME NEW k \in Subjects, k # s PROVE SameOf(k)
  BY <1>2 DEF SameOf, TypeOK, Outcomes
<1>3. \A o \in Outcomes :
         results'[<<s, o>>] = IF o = old.outcome THEN results[<<s, o>>] + 1 ELSE results[<<s, o>>]
  BY <1>1 DEF TypeOK
<1>4. /\ AllPass(s, old, c) /\ CountersOK(s) /\ ToldInTime(s)
      /\ aborts' = 0 => OnRecord(s)
  BY Here
<1>5. /\ Weight(old, s, Telling) = 0 /\ Weight(old, s, Completing) = 0
      /\ Weight(old, s, Mailed) = IF old.outcome = "success" THEN 1 ELSE 0
      /\ Weight(old, s, Changing) = 0
      /\ Weight(old, s, Underway) = IF old.outcome \in {"success", "noop"} THEN 1 ELSE 0
      /\ \A o \in Outcomes : Weight(old, s, Answering(o)) = 0
  BY <1>1, WeightsOwed
<1>6. /\ Weight(c, s, Telling) = 0 /\ Weight(c, s, Mailed) = 0
      /\ Weight(c, s, Completing) = IF old.outcome = "success" THEN 1 ELSE 0
      /\ Weight(c, s, Changing) = 0 /\ Weight(c, s, Underway) = 0
      /\ \A o \in Outcomes : Weight(c, s, Answering(o)) = IF old.outcome = o THEN 1 ELSE 0
  <2>1. CASE old.outcome = "success" BY <1>1, <2>1, WeightsOwed
  <2>2. CASE old.outcome # "success" BY <1>1, <2>2, WeightsOwed
  <2> QED BY <2>1, <2>2
<1>7. /\ results'[<<s, "success">>] = results[<<s, "success">>]
                                         + (IF old.outcome = "success" THEN 1 ELSE 0)
      /\ results'[<<s, "noop">>] = results[<<s, "noop">>] + (IF old.outcome = "noop" THEN 1 ELSE 0)
  BY <1>3, <1>4 DEF Outcomes, CountersOK
<1>8. ToldInTime(s)'
  BY <1>4, <1>5, <1>6, <1>7 DEF ToldInTime, CountersOK, AllPass, Passes
<1>9. aborts' = 0 => OnRecord(s)'
  BY <1>3, <1>4, <1>5, <1>6, <1>7 DEF OnRecord, CountersOK, AllPass, Passes
<1> QED BY <1>2, <1>8, <1>9, Elsewhere DEF Balanced

(* A completion pays for the result.                                       *)
LEMMA CompleteBalanced ==
    ASSUME TypeOK, CInv, NEW r, NEW old, NEW c, NEW s, On(r, old, c, s),
           old.at = "complete", c # None, c.at = "audit", c.outcome = old.outcome,
           old.caller = "automation",
           notices' = [notices EXCEPT ![<<s, "automation.completed">>] = @ + 1],
           UNCHANGED <<written, emails, audits, results>>
    PROVE  Balanced'
<1>1. old \in Call /\ c \in Call /\ <<old.rel, old.arg>> = s /\ <<c.rel, c.arg>> = s
      /\ s \in Subjects /\ c.caller = "automation"
  BY DEF On, Call
<1>2. ASSUME NEW k \in Subjects, k # s PROVE SameOf(k)
  BY <1>2 DEF SameOf, TypeOK, NoticeKinds
<1>3. /\ notices'[<<s, "automation.completed">>] = notices[<<s, "automation.completed">>] + 1
      /\ notices'[<<s, "changed">>] = notices[<<s, "changed">>]
  BY <1>1 DEF TypeOK, NoticeKinds
<1>4. /\ AllPass(s, old, c) /\ CountersOK(s) /\ ToldInTime(s)
      /\ aborts' = 0 => OnRecord(s)
  BY Here
<1>5. /\ Weight(old, s, Telling) = 0 /\ Weight(old, s, Completing) = 1
      /\ Weight(old, s, Mailed) = 0 /\ Weight(old, s, Changing) = 0
      /\ Weight(old, s, Underway) = 0
      /\ \A o \in Outcomes : Weight(old, s, Answering(o)) = IF old.outcome = o THEN 1 ELSE 0
  BY <1>1, WeightsOwed
<1>6. /\ Weight(c, s, Telling) = 0 /\ Weight(c, s, Completing) = 0
      /\ Weight(c, s, Mailed) = 0 /\ Weight(c, s, Changing) = 0
      /\ Weight(c, s, Underway) = 0
      /\ \A o \in Outcomes : Weight(c, s, Answering(o)) = IF old.outcome = o THEN 1 ELSE 0
  BY <1>1, WeightsOwed
<1>7. ToldInTime(s)'
  BY <1>3, <1>4, <1>5, <1>6 DEF ToldInTime, CountersOK, AllPass, Passes
<1>8. aborts' = 0 => OnRecord(s)'
  BY <1>4, <1>5, <1>6 DEF OnRecord, CountersOK, AllPass, Passes
<1> QED BY <1>2, <1>7, <1>8, Elsewhere DEF Balanced

(* The audit record pays for the change, or for the result.                *)
LEMMA AuditBalanced ==
    ASSUME TypeOK, CInv, NEW r, NEW old, NEW s, On(r, old, None, s),
           old.at = "audit", old.caller = "service" => old.outcome = "success",
           audits' = [audits EXCEPT ![<<s, old.caller, old.outcome>>] = @ + 1],
           UNCHANGED <<written, emails, notices, results>>
    PROVE  Balanced'
<1>1. old \in Call /\ <<old.rel, old.arg>> = s /\ s \in Subjects /\ old.outcome \in Outcomes
      /\ old.caller \in Callers
  BY DEF On, Call
<1>2. ASSUME NEW k \in Subjects, k # s PROVE SameOf(k)
  BY <1>2 DEF SameOf, TypeOK, Callers, Outcomes
<1>3. /\ audits'[<<s, "service", "success">>] =
             audits[<<s, "service", "success">>] + (IF old.caller = "service" THEN 1 ELSE 0)
      /\ \A o \in Outcomes :
            audits'[<<s, "automation", o>>] =
                audits[<<s, "automation", o>>]
                    + (IF old.caller = "automation" /\ old.outcome = o THEN 1 ELSE 0)
  <2>1. \A caller \in Callers, o \in Outcomes :
           audits'[<<s, caller, o>>] =
               IF caller = old.caller /\ o = old.outcome THEN audits[<<s, caller, o>>] + 1
               ELSE audits[<<s, caller, o>>]
    BY <1>1 DEF TypeOK
  <2>2. /\ audits[<<s, "service", "success">>] \in Nat
        /\ \A o \in Outcomes : audits[<<s, "automation", o>>] \in Nat
    BY Here DEF CountersOK
  <2>3. {"service", "automation"} \subseteq Callers /\ "success" \in Outcomes
    BY DEF Callers, Outcomes
  <2> QED BY <1>1, <2>1, <2>2, <2>3
<1>4. /\ AllPass(s, old, None) /\ CountersOK(s) /\ ToldInTime(s)
      /\ aborts' = 0 => OnRecord(s)
  BY Here
<1>5. /\ Weight(old, s, Telling) = 0 /\ Weight(old, s, Completing) = 0
      /\ Weight(old, s, Mailed) = 0
      /\ Weight(old, s, Changing) = IF old.caller = "service" THEN 1 ELSE 0
      /\ Weight(old, s, Underway) = 0
      /\ \A o \in Outcomes :
            Weight(old, s, Answering(o)) =
                IF old.caller = "automation" /\ old.outcome = o THEN 1 ELSE 0
  BY <1>1, WeightsOwed
<1>6. \A T : Weight(None, s, T) = 0 BY DEF Weight, Holds
<1>7. ToldInTime(s)'
  BY <1>4, <1>5, <1>6 DEF ToldInTime, CountersOK, AllPass, Passes
<1>8. aborts' = 0 => OnRecord(s)'
  BY <1>3, <1>4, <1>5, <1>6 DEF OnRecord, CountersOK, AllPass, Passes
<1> QED BY <1>2, <1>7, <1>8, Elsewhere DEF Balanced

-----------------------------------------------------------------------------
(* The steps again, for the counts.                                        *)

(* An arriving request, or one that moves on, turns its slot.              *)
LEMMA TurnsIt ==
    ASSUME NEW r \in Requests, NEW c, Arrive(r, c) \/ Await(r, c)
    PROVE  Turns(r, request[r], c) /\ aborts' = aborts /\ (Arrive(r, c) => request[r] = None)
BY DEF Arrive, Await, Turns

(* A call that owes nothing yet: no notice, no record, no result of a mail *)
(* that was sent.                                                          *)
Fresh(c) ==
    \/ /\ c.caller = "service" /\ c.outcome = "success" /\ c.at \in {"insert", "save"}
       /\ c.arg \notin Drafts
    \/ /\ c.caller = "automation"
       /\ \/ c.at \in {"read", "findSend", "send"}
          \/ c.at = "save" /\ c.arg \notin Drafts
          \/ c.at = "record" /\ (c.outcome # "success" \/ c.arg \notin Drafts)

(* A request that owed nothing and owes nothing yet.                       *)
LEMMA FreshBalanced ==
    ASSUME IInv, IInv', CInv, NEW r \in Requests, NEW old, NEW c, Turns(r, old, c),
           UNCHANGED <<notices, results, audits, emails, written>>, aborts' = aborts,
           old # None => old.at \notin {"notify", "record", "complete", "audit"},
           c # None => Fresh(c)
    PROVE  CInv'
<1>1. old \in Call \cup {None} /\ c \in Call \cup {None} BY DEF Turns, IInv, TypeOK
<1>2. c # None => Tidy(c) BY DEF Fresh, Tidy
<1>3. TidyCalls' BY <1>2, TidyMoves DEF IInv, CInv
<1>4. c # None => /\ c.at \notin {"notify", "complete", "audit"}
                  /\ c.at = "record" /\ c.outcome = "success" => c.arg \notin Drafts
  BY DEF Fresh
<1>5. Balanced' BY <1>1, <1>4, QuietStep DEF IInv
<1> QED BY <1>3, <1>5 DEF CInv

(* A new request owes nothing yet.                                         *)
LEMMA NewRequestBalanced ==
    ASSUME IInv, IInv', CInv, NEW r \in Requests, NewRequest(r)
    PROVE  CInv'
<1>1. ASSUME NEW c, Arrive(r, c), UNCHANGED stores, Fresh(c) PROVE CInv'
  <2>1. Turns(r, None, c) /\ aborts' = aborts BY <1>1, TurnsIt
  <2> QED BY <1>1, <2>1, FreshBalanced DEF stores
<1>2. Stages \cap Drafts = {} /\ Assignees \cap Drafts = {} BY WorkflowAssumption
<1>3. ASSUME NEW pair \in Pairs, NEW stage \in Stages, Create(r, pair, stage) PROVE CInv'
  <2>1. PICK c : c = [NewCall("create", "service", "insert", None, stage)
                         EXCEPT !.row = NewRow(pair, stage)] OBVIOUS
  <2>2. /\ c.caller = "service" /\ c.outcome = "success" /\ c.at = "insert" /\ c.arg = stage
    BY <2>1 DEF NewCall
  <2>3. Fresh(c) BY <1>2, <2>2 DEF Fresh
  <2> QED BY <1>1, <1>3, <2>1, <2>3 DEF Create
<1>4. ASSUME NEW x \in Relationships, NEW stage \in Stages, MoveStage(r, x, stage) PROVE CInv'
  <2>1. PICK c : c = Saving(NewCall("move", "service", "save", x, stage),
                            Moved(relationships[x], stage)) OBVIOUS
  <2>2. /\ c.caller = "service" /\ c.outcome = "success" /\ c.at = "save" /\ c.arg = stage
    BY <2>1 DEF NewCall, Saving
  <2>3. Fresh(c) BY <1>2, <2>2 DEF Fresh
  <2> QED BY <1>1, <1>4, <2>1, <2>3 DEF MoveStage
<1>5. ASSUME NEW x \in Relationships, NEW a \in Assignees, Assign(r, x, a) PROVE CInv'
  <2>1. PICK c : c = Saving(NewCall("assign", "service", "save", x, a),
                            Assigned(relationships[x], a)) OBVIOUS
  <2>2. /\ c.caller = "service" /\ c.outcome = "success" /\ c.at = "save" /\ c.arg = a
    BY <2>1 DEF NewCall, Saving
  <2>3. Fresh(c) BY <1>2, <2>2 DEF Fresh
  <2> QED BY <1>1, <1>5, <2>1, <2>3 DEF Assign
<1>6. ASSUME NEW x \in Relationships, NEW stage \in Stages, AutomateMove(r, x, stage)
      PROVE  CInv'
  <2>1. PICK n : n = NewCall("move", "automation", "read", x, stage) OBVIOUS
  <2>2. PICK c : c = IF Exists(x) THEN [n EXCEPT !.before = relationships[x]]
                                  ELSE Recording(n, "failure") OBVIOUS
  <2>3. /\ c.caller = "automation"
        /\ c.at = "read" \/ (c.at = "record" /\ c.outcome = "failure")
    BY <2>1, <2>2 DEF NewCall, Recording
  <2>4. Fresh(c) BY <2>3 DEF Fresh
  <2>5. Arrive(r, c) /\ UNCHANGED stores BY <1>6, <2>1, <2>2 DEF AutomateMove
  <2> QED BY <1>1, <2>4, <2>5
<1>7. ASSUME NEW x \in Relationships, NEW a \in Assignees, AutomateAssign(r, x, a)
      PROVE  CInv'
  <2>1. PICK n : n = NewCall("assign", "automation", "save", x, a) OBVIOUS
  <2>2. PICK c : c = IF ~Exists(x) THEN Recording(n, "failure")
                     ELSE IF relationships[x].assigneeId = a THEN Recording(n, "noop")
                     ELSE Saving(n, Assigned(relationships[x], a)) OBVIOUS
  <2>3. /\ c.caller = "automation" /\ c.arg = a
        /\ c.at = "save" \/ (c.at = "record" /\ c.outcome \in {"failure", "noop"})
    BY <2>1, <2>2 DEF NewCall, Recording, Saving
  <2>4. Fresh(c) BY <1>2, <2>3 DEF Fresh
  <2>5. Arrive(r, c) /\ UNCHANGED stores BY <1>7, <2>1, <2>2 DEF AutomateAssign
  <2> QED BY <1>1, <2>4, <2>5
<1>8. ASSUME NEW x \in Relationships, NEW draft \in Drafts, SendOutreach(r, x, draft)
      PROVE  CInv'
  <2>1. PICK n : n = NewCall("send", "automation", "findSend", x, draft) OBVIOUS
  <2>2. PICK c : c = IF Exists(x) THEN n ELSE Recording(n, "failure") OBVIOUS
  <2>3. /\ c.caller = "automation"
        /\ c.at = "findSend" \/ (c.at = "record" /\ c.outcome = "failure")
    BY <2>1, <2>2 DEF NewCall, Recording
  <2>4. Fresh(c) BY <2>3 DEF Fresh
  <2>5. Arrive(r, c) /\ UNCHANGED stores BY <1>8, <2>1, <2>2 DEF SendOutreach
  <2> QED BY <1>1, <2>4, <2>5
<1>9. ASSUME NEW x \in Relationships, NEW op \in {"move", "send"}, RejectArgument(r, op, x)
      PROVE  CInv'
  <2>1. PICK c : c = Recording(NewCall(op, "automation", "record", x, Invalid), "failure")
    OBVIOUS
  <2>2. c.caller = "automation" /\ c.at = "record" /\ c.outcome = "failure"
    BY <2>1 DEF NewCall, Recording
  <2>3. Fresh(c) BY <2>2 DEF Fresh
  <2> QED BY <1>1, <1>9, <2>1, <2>3 DEF RejectArgument
<1> QED BY <1>3, <1>4, <1>5, <1>6, <1>7, <1>8, <1>9 DEF NewRequest

(* A request that goes on without appending anything.                      *)
LEMMA GoesOnBalanced ==
    ASSUME IInv, IInv', CInv, NEW r \in Requests,
           \/ \E x \in Relationships : Insert(r, x)
           \/ RefuseInsert(r) \/ ReadAgain(r) \/ FindSuccessfulSend(r) \/ SendFails(r)
    PROVE  CInv'
<1>1. PICK old : old = request[r] OBVIOUS
<1>2. ASSUME NEW c, Await(r, c), UNCHANGED <<notices, results, audits, emails, written>>,
             old.at \notin {"notify", "record", "complete", "audit"}, c # None => Fresh(c)
      PROVE  CInv'
  <2>1. Turns(r, old, c) /\ aborts' = aborts BY <1>1, <1>2, TurnsIt
  <2> QED BY <1>2, <2>1, FreshBalanced
<1>3. old # None => Tidy(old) /\ CallOK(old) /\ old \in Call
  BY <1>1 DEF CInv, TidyCalls, IInv, CallsOK, TypeOK
<1>4. ASSUME NEW x \in Relationships, Insert(r, x) PROVE CInv'
  <2>1. Await(r, None) /\ UNCHANGED <<notices, results, audits, emails, written>>
        /\ old.at = "insert"
    BY <1>1, <1>4 DEF Insert, At
  <2> QED BY <1>2, <2>1
<1>5. CASE RefuseInsert(r)
  <2>1. Await(r, None) /\ UNCHANGED <<notices, results, audits, emails, written>>
        /\ old.at = "insert"
    BY <1>1, <1>5 DEF RefuseInsert, At, stores
  <2> QED BY <1>2, <2>1
<1>6. CASE ReadAgain(r)
  <2>1. old # None /\ old.at = "read" BY <1>1, <1>6 DEF ReadAgain, At
  <2>2. old \in Call /\ old.caller = "automation" /\ old.arg \notin Drafts
    BY <1>3, <2>1, WorkflowAssumption DEF Tidy, CallOK, Call, Callers
  <2>3. PICK c : c = IF relationships[old.rel].currentStage = old.arg
                       THEN Recording(old, OutcomeOf(old.before, relationships[old.rel]))
                       ELSE Saving(old, Moved(relationships[old.rel], old.arg)) OBVIOUS
  <2>4. c.caller = "automation" /\ c.arg = old.arg /\ c.at \in {"record", "save"}
    BY <2>2, <2>3 DEF Recording, Saving, Call
  <2>5. Fresh(c) BY <2>2, <2>4 DEF Fresh
  <2>6. Await(r, c) /\ UNCHANGED <<notices, results, audits, emails, written>>
    BY <1>1, <1>6, <2>3 DEF ReadAgain, stores
  <2> QED BY <1>2, <2>1, <2>5, <2>6
<1>7. CASE FindSuccessfulSend(r)
  <2>1. old # None /\ old.at = "findSend" BY <1>1, <1>7 DEF FindSuccessfulSend, At
  <2>2. old \in Call /\ old.caller = "automation" BY <1>3, <2>1 DEF Tidy, Call, Callers
  <2>3. PICK c : c = IF SentBefore(old.rel, old.arg) THEN Recording(old, "failure")
                                                     ELSE [old EXCEPT !.at = "send"] OBVIOUS
  <2>4. c.caller = "automation" /\ (c.at = "send" \/ (c.at = "record" /\ c.outcome = "failure"))
    BY <2>2, <2>3 DEF Recording, Call
  <2>5. Fresh(c) BY <2>4 DEF Fresh
  <2>6. Await(r, c) /\ UNCHANGED <<notices, results, audits, emails, written>>
    BY <1>1, <1>7, <2>3 DEF FindSuccessfulSend
  <2> QED BY <1>2, <2>1, <2>5, <2>6
<1>8. CASE SendFails(r)
  <2>1. old # None /\ old.at = "send" BY <1>1, <1>8 DEF SendFails, At
  <2>2. old \in Call /\ old.caller = "automation" BY <1>3, <2>1 DEF Tidy, Call, Callers
  <2>3. PICK c : c = Recording(old, "failure") OBVIOUS
  <2>4. c.caller = "automation" /\ c.at = "record" /\ c.outcome = "failure"
    BY <2>2, <2>3 DEF Recording, Call
  <2>5. Fresh(c) BY <2>4 DEF Fresh
  <2>6. Await(r, c) /\ UNCHANGED <<notices, results, audits, emails, written>>
    BY <1>1, <1>8, <2>3 DEF SendFails, stores
  <2> QED BY <1>2, <2>1, <2>5, <2>6
<1> QED BY <1>4, <1>5, <1>6, <1>7, <1>8

(* A request that is cut short owes what it owed for ever: only what was   *)
(* told remains in order.                                                  *)
LEMMA AbortBalanced ==
    ASSUME IInv, CInv, NEW r \in Requests, Abort(r) \/ LoadFails(r) \/ RecordFails(r)
    PROVE  CInv'
<1>1. PICK old : old = request[r] OBVIOUS
<1>2. CutShort(r) /\ old # None BY <1>1 DEF Abort, LoadFails, RecordFails, At
<1>3. Turns(r, old, None) /\ old \in Call BY <1>1, <1>2 DEF CutShort, Turns, IInv, TypeOK
<1>4. aborts' # 0 BY <1>2 DEF CutShort, IInv, TypeOK
<1>5. UNCHANGED <<notices, results, audits, emails, written>>
  BY DEF Abort, LoadFails, RecordFails, stores
<1>6. Balanced' BY <1>3, <1>4, <1>5, QuietStep DEF IInv
<1>7. TidyCalls' BY <1>3, TidyMoves DEF IInv, CInv
<1> QED BY <1>6, <1>7 DEF CInv

(* Nobody owes anything after a restart; it cuts short what was owed.      *)
LEMMA RestartBalanced ==
    ASSUME IInv, CInv, Restart
    PROVE  CInv'
<1>1. /\ UNCHANGED <<notices, results, audits, emails, written>>
      /\ request' = [r \in Requests |-> None]
  BY DEF Restart
<1>2. InFlight' = {} BY <1>1 DEF InFlight
<1>3. TidyCalls' BY <1>1, <1>2, FS_EmptySet DEF TidyCalls
<1>4. \A k, T : Held(k, T)' = {} BY <1>1 DEF Held, Holds
<1>5. ASSUME NEW k, NEW T PROVE Owed(k, T)' = 0 /\ Owed(k, T) \in Nat
  <2>1. Held(k, T)' = {} BY <1>4
  <2>2. Owed(k, T)' = 0 BY <2>1, FS_EmptySet DEF Owed
  <2>3. Held(k, T) \subseteq InFlight BY DEF Held, Holds, InFlight
  <2>4. IsFiniteSet(Held(k, T)) BY <2>3, FS_Subset DEF CInv, TidyCalls
  <2> QED BY <2>2, <2>4, FS_CardinalityType DEF Owed
<1>6. ASSUME NEW k \in Subjects PROVE ToldInTime(k)'
  <2>1. CountersOK(k) BY Counters DEF IInv
  <2>2. ToldInTime(k) BY DEF CInv, Balanced
  <2> QED BY <1>1, <1>5, <2>1, <2>2 DEF ToldInTime, CountersOK
<1>7. ASSUME aborts' = 0, NEW k \in Subjects PROVE OnRecord(k)'
  <2>1. aborts = 0 /\ \A r \in Requests : request[r] = None
    BY <1>7 DEF Restart, IInv, TypeOK
  <2>2. ASSUME NEW T PROVE Owed(k, T) = 0
    <3>1. Held(k, T) = {} BY <2>1 DEF Held, Holds
    <3> QED BY <3>1, FS_EmptySet DEF Owed
  <2>3. OnRecord(k) BY <2>1 DEF CInv, Balanced
  <2> QED BY <1>1, <1>5, <2>2, <2>3 DEF OnRecord
<1> QED BY <1>3, <1>6, <1>7 DEF CInv, Balanced

(* A request that appends to a file, or saves its row.                     *)
LEMMA AppendsBalanced ==
    ASSUME IInv, IInv', CInv, NEW r \in Requests,
           Save(r) \/ Notify(r) \/ Send(r) \/ Record(r) \/ Complete(r) \/ Audit(r)
    PROVE  CInv'
<1>1. PICK old : old = request[r] OBVIOUS
<1>2. /\ old # None /\ old.at \in {"save", "notify", "send", "record", "complete", "audit"}
      /\ old \in Call /\ Tidy(old) /\ CallOK(old) /\ old.rel \in Relationships
      /\ old.arg \in Args /\ old.caller \in Callers /\ old.outcome \in Outcomes
  <2>1. old # None /\ old.at \in {"save", "notify", "send", "record", "complete", "audit"}
    BY <1>1 DEF Save, Notify, Send, Record, Complete, Audit, At
  <2>2. old \in Call /\ Tidy(old) /\ CallOK(old)
    BY <1>1, <2>1 DEF CInv, TidyCalls, IInv, CallsOK, TypeOK
  <2>3. old.rel \in Relationships BY <2>1, <2>2 DEF CallOK
  <2> QED BY <2>1, <2>2, <2>3 DEF Call
<1>3. PICK s : s = <<old.rel, old.arg>> OBVIOUS
<1>4. ASSUME NEW c, Await(r, c), c # None => /\ c.rel = old.rel /\ c.arg = old.arg
                                             /\ c.caller = old.caller /\ Tidy(c)
      PROVE  On(r, old, c, s) /\ TidyCalls'
  <2>1. Turns(r, old, c) /\ aborts' = aborts BY <1>1, <1>4, TurnsIt
  <2>2. c \in Call \cup {None} BY <2>1 DEF Turns, IInv, TypeOK
  <2>3. s \in Subjects BY <1>2, <1>3 DEF Subjects
  <2>4. On(r, old, c, s) BY <1>2, <1>3, <1>4, <2>1, <2>2, <2>3 DEF On
  <2>5. TidyCalls' BY <1>4, <2>1, TidyMoves DEF IInv, CInv
  <2> QED BY <2>4, <2>5
<1>5. TypeOK BY DEF IInv
<1>6. CASE Save(r)
  <2>1. PICK c : c = [old EXCEPT !.at = "notify"] OBVIOUS
  <2>2. old.at = "save" /\ Await(r, c) BY <1>1, <1>6, <2>1 DEF Save, At
  <2>3. /\ c.at = "notify" /\ c.rel = old.rel /\ c.arg = old.arg /\ c.caller = old.caller
        /\ c.outcome = old.outcome
    BY <1>2, <2>1 DEF Call
  <2>4. Tidy(c) BY <1>2, <2>2, <2>3 DEF Tidy
  <2>5. On(r, old, c, s) /\ TidyCalls' BY <1>4, <2>2, <2>3, <2>4
  <2>6. c # None BY <2>1, <2>2, <1>2, WorkflowAssumption DEF Call, Steps
  <2>7. /\ written' = [written EXCEPT ![<<s, old.caller>>] = @ + 1]
        /\ UNCHANGED <<notices, results, audits, emails>>
    BY <1>1, <1>3, <1>6 DEF Save
  <2>8. Balanced' BY <1>5, <2>2, <2>3, <2>5, <2>6, <2>7, SaveBalanced
  <2> QED BY <2>5, <2>8 DEF CInv
<1>7. CASE Notify(r)
  <2>1. PICK c : c = IF old.caller = "service" THEN [old EXCEPT !.at = "audit"]
                     ELSE Recording(old, OutcomeOf(old.before, old.row)) OBVIOUS
  <2>2. old.at = "notify" /\ Await(r, c) BY <1>1, <1>7, <2>1 DEF Notify, At
  <2>3. /\ c.rel = old.rel /\ c.arg = old.arg /\ c.caller = old.caller
        /\ IF old.caller = "service" THEN c.at = "audit" /\ c.outcome = old.outcome
           ELSE c.at = "record" /\ c.outcome \in {"success", "noop"}
    BY <1>2, <2>1 DEF Call, Recording, OutcomeOf
  <2>4. Tidy(c) BY <1>2, <2>2, <2>3 DEF Tidy
  <2>5. On(r, old, c, s) /\ TidyCalls' BY <1>4, <2>2, <2>3, <2>4
  <2>6. c # None
    <3>1. c \in Call
      BY <1>2, <2>1 DEF Call, Recording, OutcomeOf, Steps, Outcomes
    <3> QED BY <3>1, WorkflowAssumption
  <2>7. /\ notices' = notices \/ notices' = [notices EXCEPT ![<<s, "changed">>] = @ + 1]
        /\ UNCHANGED <<written, results, audits, emails>>
    BY <1>1, <1>3, <1>7 DEF Notify
  <2>8. old.arg \notin Drafts BY <1>2, <2>2 DEF Tidy
  <2>9. Balanced' BY <1>5, <2>2, <2>3, <2>5, <2>6, <2>7, <2>8, NotifyBalanced
  <2> QED BY <2>5, <2>9 DEF CInv
<1>8. CASE Send(r)
  <2>1. PICK c : c = Recording(old, "success") OBVIOUS
  <2>2. old.at = "send" /\ Await(r, c) BY <1>1, <1>8, <2>1 DEF Send, At
  <2>3. c.rel = old.rel /\ c.arg = old.arg /\ c.caller = old.caller /\ c.at = "record"
    BY <1>2, <2>1 DEF Call, Recording
  <2>4. old.caller = "automation" BY <1>2, <2>2 DEF Tidy, Callers
  <2>5. Tidy(c) BY <2>3, <2>4 DEF Tidy
  <2>6. On(r, old, c, s) /\ TidyCalls' BY <1>4, <2>2, <2>3, <2>5
  <2>7. c # None
    <3>1. c \in Call BY <1>2, <2>1 DEF Call, Recording, Steps, Outcomes
    <3> QED BY <3>1, WorkflowAssumption
  <2>8. /\ emails' = [emails EXCEPT ![s] = @ + 1]
        /\ UNCHANGED <<written, results, audits, notices>>
    BY <1>1, <1>3, <1>8 DEF Send
  <2>9. old.arg \in Drafts BY <1>2, <2>2 DEF CallOK
  <2>10. Balanced' BY <1>5, <2>2, <2>3, <2>6, <2>7, <2>8, <2>9, SendBalanced
  <2> QED BY <2>6, <2>10 DEF CInv
<1>9. CASE Record(r)
  <2>1. PICK c : c = [old EXCEPT !.at = IF old.outcome = "success" THEN "complete" ELSE "audit"]
    OBVIOUS
  <2>2. old.at = "record" /\ Await(r, c) BY <1>1, <1>9, <2>1 DEF Record, At
  <2>3. /\ c.rel = old.rel /\ c.arg = old.arg /\ c.caller = old.caller
        /\ c.outcome = old.outcome
        /\ c.at = IF old.outcome = "success" THEN "complete" ELSE "audit"
    BY <1>2, <2>1 DEF Call
  <2>4. old.caller = "automation" BY <1>2, <2>2 DEF Tidy, Callers
  <2>5. Tidy(c) BY <2>3, <2>4 DEF Tidy
  <2>6. On(r, old, c, s) /\ TidyCalls' BY <1>4, <2>2, <2>3, <2>5
  <2>7. c # None
    <3>1. c \in Call BY <1>2, <2>1 DEF Call, Steps
    <3> QED BY <3>1, WorkflowAssumption
  <2>8. /\ results' = [results EXCEPT ![<<s, old.outcome>>] = @ + 1]
        /\ UNCHANGED <<written, emails, audits, notices>>
    BY <1>1, <1>3, <1>9 DEF Record, Result
  <2>9. Balanced' BY <1>5, <2>2, <2>3, <2>4, <2>6, <2>7, <2>8, RecordBalanced
  <2> QED BY <2>6, <2>9 DEF CInv
<1>10. CASE Complete(r)
  <2>1. PICK c : c = [old EXCEPT !.at = "audit"] OBVIOUS
  <2>2. old.at = "complete" /\ Await(r, c) BY <1>1, <1>10, <2>1 DEF Complete, At
  <2>3. /\ c.rel = old.rel /\ c.arg = old.arg /\ c.caller = old.caller
        /\ c.outcome = old.outcome /\ c.at = "audit"
    BY <1>2, <2>1 DEF Call
  <2>4. old.caller = "automation" BY <1>2, <2>2 DEF Tidy, Callers
  <2>5. Tidy(c) BY <2>3, <2>4 DEF Tidy
  <2>6. On(r, old, c, s) /\ TidyCalls' BY <1>4, <2>2, <2>3, <2>5
  <2>7. c # None
    <3>1. c \in Call BY <1>2, <2>1 DEF Call, Steps
    <3> QED BY <3>1, WorkflowAssumption
  <2>8. /\ notices' = [notices EXCEPT ![<<s, "automation.completed">>] = @ + 1]
        /\ UNCHANGED <<written, emails, audits, results>>
    BY <1>1, <1>3, <1>10 DEF Complete
  <2>9. Balanced' BY <1>5, <2>2, <2>3, <2>4, <2>6, <2>7, <2>8, CompleteBalanced
  <2> QED BY <2>6, <2>9 DEF CInv
<1>11. CASE Audit(r)
  <2>1. old.at = "audit" /\ Await(r, None) BY <1>1, <1>11 DEF Audit, At
  <2>2. On(r, old, None, s) /\ TidyCalls' BY <1>4, <2>1
  <2>3. /\ audits' = [audits EXCEPT ![<<s, old.caller, old.outcome>>] = @ + 1]
        /\ UNCHANGED <<written, emails, notices, results>>
    BY <1>1, <1>3, <1>11 DEF Audit
  <2>4. old.caller = "service" => old.outcome = "success" BY <1>2 DEF Tidy
  <2>5. Balanced' BY <1>5, <2>1, <2>2, <2>3, <2>4, AuditBalanced
  <2> QED BY <2>2, <2>5 DEF CInv
<1> QED BY <1>6, <1>7, <1>8, <1>9, <1>10, <1>11

(* Nothing is owed in the beginning.                                       *)
LEMMA InitCInv == Init => CInv
<1> SUFFICES ASSUME Init PROVE CInv OBVIOUS
<1>1. InFlight = {} BY DEF Init, InFlight
<1>2. TidyCalls BY <1>1, FS_EmptySet DEF Init, TidyCalls
<1>3. \A k, T : Held(k, T) = {} BY DEF Init, Held, Holds
<1>4. \A k, T : Owed(k, T) = 0 BY <1>3, FS_EmptySet DEF Owed
<1>5. ASSUME NEW k \in Subjects PROVE ToldInTime(k) /\ OnRecord(k)
  <2>1. TypeOK BY InitIInv DEF IInv
  <2>2. /\ notices[<<k, "changed">>] = 0 /\ notices[<<k, "automation.completed">>] = 0
        /\ \A o \in Outcomes : results[<<k, o>>] = 0 /\ audits[<<k, "automation", o>>] = 0
        /\ results[<<k, "success">>] = 0 /\ results[<<k, "noop">>] = 0
        /\ audits[<<k, "service", "success">>] = 0
        /\ written[<<k, "service">>] = 0 /\ written[<<k, "automation">>] = 0
    BY DEF Init, NoticeKinds, Callers, Outcomes
  <2>3. k[2] \in Drafts => emails[k] = 0 BY DEF Init, Subjects
  <2>4. ToldInTime(k) BY <1>4, <2>2, <2>3 DEF ToldInTime
  <2>5. OnRecord(k) BY <1>4, <2>2 DEF OnRecord
  <2> QED BY <2>4, <2>5
<1> QED BY <1>2, <1>5 DEF CInv, Balanced

(* Every step keeps the counts in balance.                                 *)
LEMMA NextCInv == IInv /\ CInv /\ [Next]_vars => CInv'
<1> SUFFICES ASSUME IInv, CInv, [Next]_vars PROVE CInv' OBVIOUS
<1>1. IInv' BY NextIInv
<1>2. ASSUME NEW r \in Requests, NewRequest(r) \/ Continue(r) PROVE CInv'
  BY <1>1, <1>2, NewRequestBalanced, GoesOnBalanced, AbortBalanced, AppendsBalanced DEF Continue
<1>3. ASSUME UNCHANGED vars PROVE CInv'
  <2>1. /\ request' = request /\ notices' = notices /\ results' = results /\ audits' = audits
        /\ emails' = emails /\ written' = written /\ aborts' = aborts
    BY <1>3 DEF vars, stores
  <2>2. TidyCalls' BY <2>1 DEF CInv, TidyCalls, InFlight
  <2>3. ASSUME NEW k, NEW T PROVE Owed(k, T)' = Owed(k, T) BY <2>1 DEF Owed, Held
  <2>4. Balanced'
    BY <2>1 DEF CInv, Balanced, ToldInTime, OnRecord, Owed, Held
  <2> QED BY <2>2, <2>4 DEF CInv
<1> QED BY <1>2, <1>3, RestartBalanced DEF Next

(* What is owed and what is on file are in balance in every reachable      *)
(* state.                                                                  *)
THEOREM BalanceInvariance == Spec => []CInv
<1>1. Init => CInv BY InitCInv
<1>2. IInv /\ CInv /\ [Next]_vars => CInv' BY NextCInv
<1> QED BY <1>1, <1>2, Invariance, PTL DEF Spec

(* Nobody is told of a change that was not saved, of a completion without  *)
(* a result, and no send is recorded without a mail, with any number of    *)
(* concurrent and aborted requests (RelationshipService, AutomationService *)
(* and their NotificationService calls).                                   *)
THEOREM NoticesFollow == Spec => []ToldAfterDone
<1>1. ASSUME IInv, CInv PROVE ToldAfterDone
  <2> SUFFICES ASSUME NEW k \in Subjects
               PROVE  /\ notices[<<k, "changed">>]
                             <= written[<<k, "service">>] + written[<<k, "automation">>]
                      /\ notices[<<k, "automation.completed">>] <= results[<<k, "success">>]
                      /\ k[2] \in Drafts => results[<<k, "success">>] <= emails[k]
    BY DEF ToldAfterDone
  <2>1. CountersOK(k) BY <1>1, Counters DEF IInv
  <2>2. ToldInTime(k) BY <1>1 DEF CInv, Balanced
  <2>3. ASSUME NEW T PROVE Owed(k, T) \in Nat
    <3>1. Held(k, T) \subseteq InFlight BY DEF Held, Holds, InFlight
    <3>2. IsFiniteSet(InFlight) BY <1>1 DEF CInv, TidyCalls
    <3>3. IsFiniteSet(Held(k, T)) BY <3>1, <3>2, FS_Subset
    <3> QED BY <3>3, FS_CardinalityType DEF Owed
  <2> QED BY <2>1, <2>2, <2>3 DEF ToldInTime, CountersOK
<1> QED BY <1>1, Invariance, BalanceInvariance, PTL

(* As long as no request is cut short every change and every result has    *)
(* exactly one audit record, or a request in flight that owes it, for any  *)
(* number of concurrent requests (suppressAudit leaves none twice).        *)
THEOREM OutcomesAuditedOnce == Spec => []AuditedOnce
<1>1. ASSUME IInv, CInv, aborts = 0, NEW k \in Subjects
      PROVE  /\ written[<<k, "service">>] =
                    audits[<<k, "service", "success">>]
                        + Cardinality(Pending(k, "service", {"notify", "audit"}))
             /\ \A o \in Outcomes :
                    results[<<k, o>>] =
                        audits[<<k, "automation", o>>]
                            + Cardinality({r \in Pending(k, "automation", {"complete", "audit"}) :
                                               request[r].outcome = o})
             /\ written[<<k, "automation">>] <=
                    results[<<k, "success">>] + results[<<k, "noop">>]
                        + Cardinality(Pending(k, "automation", {"notify", "record"}))
  <2>1. OnRecord(k) /\ CountersOK(k) BY <1>1, Counters DEF IInv, CInv, Balanced
  <2>2. \A r \in Requests : request[r] # None =>
            /\ request[r].caller \in Callers /\ request[r].outcome \in Outcomes
    BY <1>1 DEF IInv, TypeOK, Call
  <2>3. Held(k, Changing) = Pending(k, "service", {"notify", "audit"})
    BY <2>2 DEF Held, Holds, Changing, Pending
  <2>4. ASSUME NEW o \in Outcomes
        PROVE  Held(k, Answering(o)) = {r \in Pending(k, "automation", {"complete", "audit"}) :
                                            request[r].outcome = o}
    BY <2>2 DEF Held, Holds, Answering, Pending
  <2>5. /\ Cardinality(Held(k, Underway)) \in Nat
        /\ Cardinality(Pending(k, "automation", {"notify", "record"})) \in Nat
        /\ Cardinality(Held(k, Underway))
               <= Cardinality(Pending(k, "automation", {"notify", "record"}))
    <3>1. Held(k, Underway) \subseteq Pending(k, "automation", {"notify", "record"})
      BY DEF Held, Holds, Underway, Pending
    <3>2. Pending(k, "automation", {"notify", "record"}) \subseteq InFlight
      BY DEF Pending, InFlight
    <3>3. IsFiniteSet(Pending(k, "automation", {"notify", "record"}))
      BY <1>1, <3>2, FS_Subset DEF CInv, TidyCalls
    <3> QED BY <3>1, <3>3, FS_Subset, FS_CardinalityType
  <2>6. /\ written[<<k, "service">>] =
               audits[<<k, "service", "success">>]
                   + Cardinality(Pending(k, "service", {"notify", "audit"}))
        /\ \A o \in Outcomes :
               results[<<k, o>>] =
                   audits[<<k, "automation", o>>]
                       + Cardinality({r \in Pending(k, "automation", {"complete", "audit"}) :
                                          request[r].outcome = o})
    BY <2>1, <2>3, <2>4 DEF OnRecord, Owed
  <2>7. written[<<k, "automation">>] <=
            results[<<k, "success">>] + results[<<k, "noop">>]
                + Cardinality(Pending(k, "automation", {"notify", "record"}))
    BY <2>1, <2>5 DEF OnRecord, Owed, CountersOK
  <2> QED BY <2>6, <2>7
<1>2. IInv /\ CInv => AuditedOnce BY <1>1 DEF AuditedOnce
<1> QED BY <1>2, Invariance, BalanceInvariance, PTL

-----------------------------------------------------------------------------
(* One request at a time: the workflow implements the log of stages.       *)

(* The row a request will save is that of the table with its own change.   *)
UpToDate(c) ==
    /\ c.at = "insert" => \E pair \in Pairs, stage \in Stages : c.row = NewRow(pair, stage)
    /\ c.at = "save" =>
          \/ /\ c.arg \in Stages /\ relationships[c.rel].currentStage # c.arg
             /\ c.row = Moved(relationships[c.rel], c.arg)
          \/ /\ c.arg \in Assignees /\ relationships[c.rel].assigneeId # c.arg
             /\ c.row = Assigned(relationships[c.rel], c.arg)

SerialRow(r) == request[r] # None => UpToDate(request[r])

(* The abstract log and the owner, as ImplementsLog reads them.            *)
LogOf == [x \in Relationships |->
             IF Exists(x) THEN StagesOf(relationships[x].stageHistory) ELSE <<>>]
OwnerOf == [x \in Relationships |-> IF Exists(x) THEN relationships[x].assigneeId ELSE None]

(* The stages of a history, one by one.                                    *)
LEMMA StagesOfHistory ==
    ASSUME NEW h \in Seq(HistoryEntry)
    PROVE  /\ StagesOf(h) \in Seq(Stages) /\ Len(StagesOf(h)) = Len(h)
           /\ \A n \in 1..Len(h) : StagesOf(h)[n] = h[n].newStage
<1>1. Len(h) \in Nat /\ \A n \in 1..Len(h) : h[n] \in HistoryEntry OBVIOUS
<1>2. \A n \in 1..Len(h) : h[n].newStage \in Stages BY <1>1 DEF HistoryEntry
<1>3. PICK s : s = StagesOf(h) OBVIOUS
<1>4. s \in [1..Len(h) -> Stages] BY <1>2, <1>3 DEF StagesOf
<1>5. s \in Seq(Stages) /\ Len(s) = Len(h) BY <1>1, <1>4
<1>6. \A n \in 1..Len(h) : s[n] = h[n].newStage BY <1>3 DEF StagesOf
<1> QED BY <1>3, <1>5, <1>6

(* One more entry is one more stage.                                       *)
LEMMA StagesOfAppend ==
    ASSUME NEW h \in Seq(HistoryEntry), NEW e \in HistoryEntry
    PROVE  StagesOf(Append(h, e)) = Append(StagesOf(h), e.newStage)
<1>1. PICK g : g = Append(h, e) OBVIOUS
<1>2. /\ g \in Seq(HistoryEntry) /\ Len(g) = Len(h) + 1 /\ Len(h) \in Nat /\ g[Len(h) + 1] = e
      /\ \A n \in 1..Len(h) : g[n] = h[n]
  BY <1>1
<1>3. PICK s, t : s = StagesOf(g) /\ t = StagesOf(h) OBVIOUS
<1>4. /\ s \in Seq(Stages) /\ Len(s) = Len(g) /\ \A n \in 1..Len(g) : s[n] = g[n].newStage
  BY <1>2, <1>3, StagesOfHistory
<1>5. /\ t \in Seq(Stages) /\ Len(t) = Len(h) /\ \A n \in 1..Len(h) : t[n] = h[n].newStage
  BY <1>3, StagesOfHistory
<1>6. e.newStage \in Stages BY DEF HistoryEntry
<1>7. PICK u : u = Append(t, e.newStage) OBVIOUS
<1>8. /\ u \in Seq(Stages) /\ Len(u) = Len(h) + 1 /\ u[Len(h) + 1] = e.newStage
      /\ \A n \in 1..Len(h) : u[n] = t[n]
  BY <1>2, <1>5, <1>6, <1>7
<1>9. ASSUME NEW n \in 1..Len(s) PROVE s[n] = u[n]
  <2>1. n \in 1..Len(h) \/ n = Len(h) + 1 BY <1>2, <1>4
  <2> QED BY <1>2, <1>4, <1>5, <1>8, <2>1
<1>10. s = u BY <1>2, <1>4, <1>8, <1>9, SeqEqual
<1> QED BY <1>1, <1>3, <1>7, <1>10

(* A step that leaves the relationships alone is a stutter of the log.     *)
LEMMA LogStill ==
    ASSUME relationships' = relationships
    PROVE  LogOf' = LogOf /\ OwnerOf' = OwnerOf
BY DEF LogOf, OwnerOf, Exists

(* An insert opens a log.                                                  *)
LEMMA InsertOpens ==
    ASSUME IInv, NEW r \in Requests, SerialRow(r), NEW x \in Relationships, Insert(r, x)
    PROVE  \E stage \in Stages :
               /\ LogOf[x] = <<>> /\ LogOf' = [LogOf EXCEPT ![x] = <<stage>>] /\ OwnerOf' = OwnerOf
<1>1. PICK c : c = request[r] OBVIOUS
<1>2. c # None /\ c.at = "insert" BY <1>1 DEF Insert, At
<1>3. PICK pair \in Pairs, stage \in Stages : c.row = NewRow(pair, stage)
  BY <1>1, <1>2 DEF SerialRow, UpToDate
<1>4. PICK row : row = NewRow(pair, stage) OBVIOUS
<1>5. row \in Relationship BY <1>4, NewRowChained
<1>6. row # None BY <1>5, WorkflowAssumption
<1>7. \A y \in Relationships : relationships'[y] = IF y = x THEN row ELSE relationships[y]
  BY <1>1, <1>3, <1>4 DEF Insert, IInv, TypeOK
<1>8. relationships[x] = None BY DEF Insert, Exists
<1>9. PICK e : e = [previousStage |-> None, newStage |-> stage] OBVIOUS
<1>10. row.stageHistory = <<e>> /\ row.assigneeId = None BY <1>4, <1>9 DEF NewRow
<1>11. StagesOf(<<e>>) = <<stage>>
  <2>1. e \in HistoryEntry /\ e.newStage = stage BY <1>9 DEF HistoryEntry
  <2>2. PICK h, s : h = <<e>> /\ s = StagesOf(h) OBVIOUS
  <2>3. h \in Seq(HistoryEntry) /\ Len(h) = 1 /\ h[1] = e BY <2>1, <2>2
  <2>4. /\ s \in Seq(Stages) /\ Len(s) = Len(h)
        /\ \A n \in 1..Len(h) : s[n] = h[n].newStage
    BY <2>2, <2>3, StagesOfHistory
  <2>5. Len(s) = 1 /\ s[1] = stage BY <2>1, <2>3, <2>4
  <2>6. s = <<stage>> BY <2>4, <2>5
  <2> QED BY <2>2, <2>6, Zenon
<1>12. \A y \in Relationships :
           LogOf'[y] = IF y = x THEN <<stage>> ELSE LogOf[y]
  BY <1>6, <1>7, <1>10, <1>11 DEF LogOf, Exists
<1>13. \A y \in Relationships : OwnerOf'[y] = OwnerOf[y]
  BY <1>6, <1>7, <1>8, <1>10 DEF OwnerOf, Exists
<1>14. LogOf' = [LogOf EXCEPT ![x] = <<stage>>] BY <1>12 DEF LogOf
<1>15. OwnerOf' = OwnerOf BY <1>13 DEF OwnerOf
<1>16. LogOf[x] = <<>> BY <1>8 DEF LogOf, Exists
<1> QED BY <1>14, <1>15, <1>16

(* A save moves a log on, or gives it another owner.                       *)
LEMMA SaveMovesOrAssigns ==
    ASSUME IInv, NEW r \in Requests, SerialRow(r), Save(r)
    PROVE  \E x \in Relationships :
              \/ \E stage \in Stages :
                    /\ LogOf[x] # <<>> /\ LogOf[x][Len(LogOf[x])] # stage
                    /\ LogOf' = [LogOf EXCEPT ![x] = Append(LogOf[x], stage)]
                    /\ OwnerOf' = OwnerOf
              \/ \E a \in Assignees :
                    /\ LogOf[x] # <<>> /\ OwnerOf[x] # a
                    /\ OwnerOf' = [OwnerOf EXCEPT ![x] = a]
                    /\ LogOf' = LogOf
<1>1. PICK c : c = request[r] OBVIOUS
<1>2. c # None /\ c.at = "save" /\ relationships' = [relationships EXCEPT ![c.rel] = c.row]
  BY <1>1 DEF Save, At
<1>3. c \in Call /\ CallOK(c) /\ UpToDate(c) BY <1>1, <1>2 DEF IInv, TypeOK, CallsOK, SerialRow
<1>4. PICK x : x = c.rel OBVIOUS
<1>5. x \in Relationships /\ Exists(x) /\ c.row \in Relationship BY <1>2, <1>3, <1>4 DEF CallOK
<1>6. PICK old : old = relationships[x] OBVIOUS
<1>7. old \in Relationship /\ Chained(old) BY <1>5, <1>6 DEF IInv, TypeOK, HistoryChained, Exists
<1>8. \A y \in Relationships : relationships'[y] = IF y = x THEN c.row ELSE relationships[y]
  BY <1>2, <1>4 DEF IInv, TypeOK
<1>9. old # None /\ c.row # None BY <1>5, <1>7, WorkflowAssumption
<1>10. PICK h : h = old.stageHistory OBVIOUS
<1>11. h \in Seq(HistoryEntry) /\ h # <<>> /\ h[Len(h)].newStage = old.currentStage
  BY <1>7, <1>10 DEF Relationship, Chained
<1>12. Len(h) \in 1..Len(h) BY <1>11
<1>13. /\ StagesOf(h) \in Seq(Stages) /\ Len(StagesOf(h)) = Len(h)
       /\ \A n \in 1..Len(h) : StagesOf(h)[n] = h[n].newStage
  BY <1>11, StagesOfHistory
<1>14. LogOf[x] = StagesOf(h) /\ OwnerOf[x] = old.assigneeId
  BY <1>5, <1>6, <1>10 DEF LogOf, OwnerOf
<1>15. LogOf[x] # <<>> /\ LogOf[x][Len(LogOf[x])] = old.currentStage
  BY <1>11, <1>12, <1>13, <1>14
<1>16. /\ LogOf'[x] = StagesOf(c.row.stageHistory) /\ OwnerOf'[x] = c.row.assigneeId
       /\ \A y \in Relationships : y # x => LogOf'[y] = LogOf[y] /\ OwnerOf'[y] = OwnerOf[y]
  BY <1>5, <1>8, <1>9 DEF LogOf, OwnerOf, Exists
<1>17. CASE c.arg \in Stages /\ old.currentStage # c.arg /\ c.row = Moved(old, c.arg)
  <2>1. PICK e : e = [previousStage |-> old.currentStage, newStage |-> c.arg] OBVIOUS
  <2>2. e \in HistoryEntry /\ e.newStage = c.arg
    BY <1>7, <1>17, <2>1 DEF HistoryEntry, Relationship
  <2>3. PICK g : g = Append(h, e) OBVIOUS
  <2>4. c.row.stageHistory = g /\ c.row.assigneeId = old.assigneeId
    BY <1>7, <1>10, <1>17, <2>1, <2>3 DEF Moved, Relationship
  <2>5. StagesOf(g) = Append(StagesOf(h), c.arg) BY <1>11, <2>2, <2>3, StagesOfAppend
  <2>6. LogOf' = [LogOf EXCEPT ![x] = Append(LogOf[x], c.arg)]
    BY <1>5, <1>14, <1>16, <2>4, <2>5 DEF LogOf
  <2>7. OwnerOf' = OwnerOf BY <1>5, <1>14, <1>16, <2>4 DEF OwnerOf
  <2> QED BY <1>5, <1>15, <1>17, <2>6, <2>7
<1>18. CASE c.arg \in Assignees /\ old.assigneeId # c.arg /\ c.row = Assigned(old, c.arg)
  <2>1. c.row.stageHistory = h /\ c.row.assigneeId = c.arg
    BY <1>7, <1>10, <1>18 DEF Assigned, Relationship
  <2>2. LogOf' = LogOf BY <1>5, <1>14, <1>16, <2>1 DEF LogOf
  <2>3. OwnerOf' = [OwnerOf EXCEPT ![x] = c.arg] BY <1>5, <1>16, <2>1 DEF OwnerOf
  <2> QED BY <1>5, <1>14, <1>15, <1>18, <2>2, <2>3
<1> QED BY <1>2, <1>3, <1>4, <1>6, <1>17, <1>18 DEF UpToDate

(* Every step of the one slot is a step of the log, or a stutter.          *)
LEMMA StepOfLog ==
    ASSUME NEW r, Requests = {r}, IInv, SerialRow(r), [Next]_vars
    PROVE  [Log!Next]_<<LogOf, OwnerOf>>
<1>1. r \in Requests OBVIOUS
<1>2. ASSUME NEW x \in Relationships, Insert(r, x) PROVE Log!Next
  <2>1. PICK stage \in Stages :
          LogOf[x] = <<>> /\ LogOf' = [LogOf EXCEPT ![x] = <<stage>>] /\ OwnerOf' = OwnerOf
    BY <1>1, <1>2, InsertOpens
  <2>2. Log!Open(x, stage) BY <2>1 DEF Log!Open, LogOf, OwnerOf
  <2> QED BY <2>2 DEF Log!Next
<1>3. CASE Save(r)
  <2>1. PICK x \in Relationships :
              \/ \E stage \in Stages :
                    /\ LogOf[x] # <<>> /\ LogOf[x][Len(LogOf[x])] # stage
                    /\ LogOf' = [LogOf EXCEPT ![x] = Append(LogOf[x], stage)]
                    /\ OwnerOf' = OwnerOf
              \/ \E a \in Assignees :
                    /\ LogOf[x] # <<>> /\ OwnerOf[x] # a
                    /\ OwnerOf' = [OwnerOf EXCEPT ![x] = a]
                    /\ LogOf' = LogOf
    BY <1>1, <1>3, SaveMovesOrAssigns
  <2>2. ASSUME NEW stage \in Stages, LogOf[x] # <<>>, LogOf[x][Len(LogOf[x])] # stage,
               LogOf' = [LogOf EXCEPT ![x] = Append(LogOf[x], stage)], OwnerOf' = OwnerOf
        PROVE  Log!Move(x, stage)
    BY <2>2 DEF Log!Move, LogOf, OwnerOf
  <2>3. ASSUME NEW a \in Assignees, LogOf[x] # <<>>, OwnerOf[x] # a,
               OwnerOf' = [OwnerOf EXCEPT ![x] = a], LogOf' = LogOf
        PROVE  Log!Assign(x, a)
    BY <2>3 DEF Log!Assign, LogOf, OwnerOf
  <2> QED BY <2>1, <2>2, <2>3 DEF Log!Next
<1>4. \/ relationships' = relationships
      \/ Save(r)
      \/ \E x \in Relationships : Insert(r, x)
  <2>1. CASE NewRequest(r)
    BY <2>1 DEF NewRequest, Create, MoveStage, AutomateMove, Assign, AutomateAssign, SendOutreach,
                RejectArgument, stores
  <2>2. CASE Continue(r)
    BY <2>2 DEF Continue, RefuseInsert, Notify, ReadAgain, FindSuccessfulSend, Send, SendFails,
                Record, Complete, Audit, LoadFails, RecordFails, Abort, stores
  <2>3. CASE Restart \/ UNCHANGED vars BY <2>3 DEF Restart, vars, stores
  <2> QED BY <2>1, <2>2, <2>3 DEF Next
<1> QED BY <1>2, <1>3, <1>4, LogStill

(* The slot goes on to a call that is up to date, or has no row to save.   *)
LEMMA SerialMoves ==
    ASSUME IInv, NEW r \in Requests, NEW old, NEW c, Turns(r, old, c),
           \/ c = None \/ c.at \notin {"insert", "save"}
           \/ relationships' = relationships /\ UpToDate(c)
    PROVE  SerialRow(r)'
<1>1. request'[r] = c BY DEF IInv, TypeOK, Turns
<1>2. c # None => UpToDate(c)' BY DEF UpToDate, Moved, Assigned, NewRow
<1> QED BY <1>1, <1>2 DEF SerialRow

(* A request arrives with a row it has just read, or with none to save.    *)
LEMMA SerialNewRequest ==
    ASSUME IInv, NEW r \in Requests, NewRequest(r)
    PROVE  SerialRow(r)'
<1>1. ASSUME NEW c, Arrive(r, c), UNCHANGED stores, c.at \notin {"insert", "save"} \/ UpToDate(c)
      PROVE  SerialRow(r)'
  <2>1. Turns(r, request[r], c) BY <1>1, TurnsIt
  <2> QED BY <1>1, <2>1, SerialMoves DEF stores
<1>2. ASSUME NEW pair \in Pairs, NEW stage \in Stages, Create(r, pair, stage) PROVE SerialRow(r)'
  <2>1. PICK row : row = NewRow(pair, stage) OBVIOUS
  <2>2. PICK c : c = [NewCall("create", "service", "insert", None, stage) EXCEPT !.row = row]
    OBVIOUS
  <2>3. c.at = "insert" /\ c.row = row BY <2>2 DEF NewCall
  <2>4. UpToDate(c) BY <2>1, <2>3 DEF UpToDate
  <2> QED BY <1>1, <1>2, <2>1, <2>2, <2>4 DEF Create
<1>3. ASSUME NEW x \in Relationships, NEW stage \in Stages, MoveStage(r, x, stage)
      PROVE  SerialRow(r)'
  <2>1. PICK row : row = Moved(relationships[x], stage) OBVIOUS
  <2>2. PICK c : c = Saving(NewCall("move", "service", "save", x, stage), row) OBVIOUS
  <2>3. c.at = "save" /\ c.row = row /\ c.rel = x /\ c.arg = stage BY <2>2 DEF NewCall, Saving
  <2>4. UpToDate(c) BY <1>3, <2>1, <2>3 DEF UpToDate, MoveStage
  <2> QED BY <1>1, <1>3, <2>1, <2>2, <2>4 DEF MoveStage
<1>4. ASSUME NEW x \in Relationships, NEW a \in Assignees, Assign(r, x, a) PROVE SerialRow(r)'
  <2>1. PICK row : row = Assigned(relationships[x], a) OBVIOUS
  <2>2. PICK c : c = Saving(NewCall("assign", "service", "save", x, a), row) OBVIOUS
  <2>3. c.at = "save" /\ c.row = row /\ c.rel = x /\ c.arg = a BY <2>2 DEF NewCall, Saving
  <2>4. UpToDate(c) BY <1>4, <2>1, <2>3 DEF UpToDate, Assign
  <2> QED BY <1>1, <1>4, <2>1, <2>2, <2>4 DEF Assign
<1>5. ASSUME NEW x \in Relationships, NEW stage \in Stages, AutomateMove(r, x, stage)
      PROVE SerialRow(r)'
  <2>1. PICK n : n = NewCall("move", "automation", "read", x, stage) OBVIOUS
  <2>2. PICK c : c = IF Exists(x) THEN [n EXCEPT !.before = relationships[x]]
                                  ELSE Recording(n, "failure") OBVIOUS
  <2>3. c.at \in {"read", "record"} BY <2>1, <2>2 DEF NewCall, Recording
  <2>4. Arrive(r, c) /\ UNCHANGED stores BY <1>5, <2>1, <2>2 DEF AutomateMove
  <2> QED BY <1>1, <2>3, <2>4
<1>6. ASSUME NEW x \in Relationships, NEW a \in Assignees, AutomateAssign(r, x, a)
      PROVE SerialRow(r)'
  <2>1. PICK row : row = Assigned(relationships[x], a) OBVIOUS
  <2>2. PICK n : n = NewCall("assign", "automation", "save", x, a) OBVIOUS
  <2>3. PICK c : c = IF ~Exists(x) THEN Recording(n, "failure")
                     ELSE IF relationships[x].assigneeId = a THEN Recording(n, "noop")
                     ELSE Saving(n, row) OBVIOUS
  <2>4. \/ c.at = "record"
        \/ /\ relationships[x].assigneeId # a
           /\ c.at = "save" /\ c.row = row /\ c.rel = x /\ c.arg = a
    BY <2>2, <2>3 DEF NewCall, Recording, Saving
  <2>5. c.at = "record" \/ UpToDate(c) BY <2>1, <2>4 DEF UpToDate
  <2>6. Arrive(r, c) /\ UNCHANGED stores BY <1>6, <2>1, <2>2, <2>3 DEF AutomateAssign
  <2> QED BY <1>1, <2>5, <2>6
<1>7. ASSUME NEW x \in Relationships, NEW draft \in Drafts, SendOutreach(r, x, draft)
      PROVE SerialRow(r)'
  <2>1. PICK n : n = NewCall("send", "automation", "findSend", x, draft) OBVIOUS
  <2>2. PICK c : c = IF Exists(x) THEN n ELSE Recording(n, "failure") OBVIOUS
  <2>3. c.at \in {"findSend", "record"} BY <2>1, <2>2 DEF NewCall, Recording
  <2>4. Arrive(r, c) /\ UNCHANGED stores BY <1>7, <2>1, <2>2 DEF SendOutreach
  <2> QED BY <1>1, <2>3, <2>4
<1>8. ASSUME NEW x \in Relationships, NEW op, RejectArgument(r, op, x) PROVE SerialRow(r)'
  <2>1. PICK c : c = Recording(NewCall(op, "automation", "record", x, Invalid), "failure")
    OBVIOUS
  <2>2. c.at = "record" BY <2>1 DEF NewCall, Recording
  <2> QED BY <1>1, <1>8, <2>1, <2>2 DEF RejectArgument
<1> QED BY <1>2, <1>3, <1>4, <1>5, <1>6, <1>7, <1>8 DEF NewRequest

(* Only stageMove's second read leads to a save, of the row it read.       *)
LEMMA SerialContinue ==
    ASSUME IInv, NEW r \in Requests, Continue(r)
    PROVE  SerialRow(r)'
<1>1. PICK d : d = request[r] OBVIOUS
<1>2. d # None => d \in Call /\ CallOK(d) BY <1>1 DEF IInv, TypeOK, CallsOK
<1>3. ASSUME NEW c, Await(r, c), c = None \/ c.at \notin {"insert", "save"} PROVE SerialRow(r)'
  BY <1>3, TurnsIt, SerialMoves
<1>4. ASSUME NEW at \in {"notify", "audit", "send", "complete"}, d # None
      PROVE  [d EXCEPT !.at = at].at = at
  BY <1>2, <1>4 DEF Call
<1>5. ASSUME NEW outcome, d # None PROVE Recording(d, outcome).at = "record"
  BY <1>2, <1>5 DEF Recording, Call
<1>6. ASSUME ReadAgain(r) PROVE SerialRow(r)'
  <2>1. d # None /\ d.at = "read" /\ d.arg \in Stages BY <1>1, <1>2, <1>6 DEF ReadAgain, At, CallOK
  <2>2. PICK now : now = relationships[d.rel] OBVIOUS
  <2>3. PICK row : row = Moved(now, d.arg) OBVIOUS
  <2>4. PICK c : c = IF now.currentStage = d.arg THEN Recording(d, OutcomeOf(d.before, now))
                                                 ELSE Saving(d, row) OBVIOUS
  <2>5. \/ c.at = "record"
        \/ /\ now.currentStage # d.arg
           /\ c.at = "save" /\ c.row = row /\ c.rel = d.rel /\ c.arg = d.arg
    BY <1>2, <2>1, <2>4 DEF Recording, Saving, Call
  <2>6. c.at = "record" \/ UpToDate(c) BY <2>1, <2>2, <2>3, <2>5 DEF UpToDate
  <2>7. Await(r, c) /\ relationships' = relationships
    BY <1>1, <1>6, <2>2, <2>3, <2>4 DEF ReadAgain, stores
  <2> QED BY <2>6, <2>7, TurnsIt, SerialMoves
<1>7. ASSUME NEW x \in Relationships, Insert(r, x) PROVE SerialRow(r)' BY <1>3, <1>7 DEF Insert
<1>8. ASSUME RefuseInsert(r) PROVE SerialRow(r)' BY <1>3, <1>8 DEF RefuseInsert
<1>9. ASSUME Save(r) PROVE SerialRow(r)' BY <1>1, <1>3, <1>4, <1>9 DEF Save, At
<1>10. ASSUME Notify(r) PROVE SerialRow(r)'
  BY <1>1, <1>3, <1>4, <1>5, <1>10 DEF Notify, At
<1>11. ASSUME FindSuccessfulSend(r) PROVE SerialRow(r)'
  BY <1>1, <1>3, <1>4, <1>5, <1>11 DEF FindSuccessfulSend, At
<1>12. ASSUME Send(r) PROVE SerialRow(r)' BY <1>1, <1>3, <1>5, <1>12 DEF Send, At
<1>13. ASSUME SendFails(r) PROVE SerialRow(r)' BY <1>1, <1>3, <1>5, <1>13 DEF SendFails, At
<1>14. ASSUME Record(r) PROVE SerialRow(r)'
  <2>1. PICK at : at = IF d.outcome = "success" THEN "complete" ELSE "audit" OBVIOUS
  <2>2. Await(r, [d EXCEPT !.at = at]) /\ d # None BY <1>1, <1>14, <2>1 DEF Record, At
  <2> QED BY <1>3, <1>4, <2>1, <2>2
<1>15. ASSUME Complete(r) PROVE SerialRow(r)' BY <1>1, <1>3, <1>4, <1>15 DEF Complete, At
<1>16. ASSUME Audit(r) PROVE SerialRow(r)' BY <1>3, <1>16 DEF Audit
<1>17. ASSUME Abort(r) \/ LoadFails(r) \/ RecordFails(r) PROVE SerialRow(r)'
  <2>1. Turns(r, d, None)
    BY <1>1, <1>17 DEF Abort, LoadFails, RecordFails, CutShort, Turns
  <2> QED BY <2>1, SerialMoves
<1> QED BY <1>6, <1>7, <1>8, <1>9, <1>10, <1>11, <1>12, <1>13, <1>14, <1>15, <1>16, <1>17
        DEF Continue

(* The row to save stays the table's as long as nobody else saves.         *)
LEMMA SerialRowStays ==
    ASSUME NEW r, Requests = {r}, IInv, SerialRow(r), [Next]_vars
    PROVE  SerialRow(r)'
<1>1. r \in Requests OBVIOUS
<1>2. CASE UNCHANGED vars
  BY <1>2 DEF vars, stores, SerialRow, UpToDate, Moved, Assigned, NewRow
<1>3. CASE NewRequest(r) BY <1>1, <1>3, SerialNewRequest
<1>4. CASE Continue(r) BY <1>1, <1>4, SerialContinue
<1>5. CASE Restart BY <1>1, <1>5 DEF Restart, SerialRow
<1> QED BY <1>2, <1>3, <1>4, <1>5 DEF Next

LEMMA SerialRowInvariance == ASSUME NEW r, Requests = {r} PROVE Spec => []SerialRow(r)
<1>1. r \in Requests OBVIOUS
<1>2. Init => SerialRow(r) BY <1>1 DEF Init, SerialRow
<1>3. IInv /\ SerialRow(r) /\ [Next]_vars => SerialRow(r)' BY SerialRowStays
<1> QED BY <1>2, <1>3, Invariance, PTL DEF Spec

(* Handlers that run one after the other implement the log of EPIC-004:    *)
(* read through their histories, relationships only ever gain one entry    *)
(* per move, and moves and assignments leave each other alone, over any    *)
(* number of relationships, calls and aborts.                              *)
THEOREM WorkflowImplementsLog ==
    ASSUME NEW r, Requests = {r}
    PROVE  Spec => ImplementsLog
<1>1. Init => Log!Init
  BY DEF Init, Log!Init, Exists
<1>2. IInv /\ SerialRow(r) /\ [Next]_vars => [Log!Next]_<<LogOf, OwnerOf>> BY StepOfLog
<1>3. Spec => []SerialRow(r) BY SerialRowInvariance
<1> QED BY <1>1, <1>2, <1>3, Invariance, PTL DEF Spec, ImplementsLog, Log!Spec, LogOf, OwnerOf

-----------------------------------------------------------------------------
(* One request at a time: mail goes out once, but for requests cut short.  *)

(* The call has mailed subject k and owes the record; it is about to mail. *)
Posted(c, k) ==
    c # None /\ <<c.rel, c.arg>> = k /\ c.at = "record" /\ c.outcome = "success"
Posting(c, k) == c # None /\ <<c.rel, c.arg>> = k /\ c.at = "send"

(* The record of a mail on k, and whether the repository, as it is now     *)
(* read, has it or is about to.                                            *)
SendOf(k) == <<k, "success">>
Recorded(c, k) == SendOf(k) \in Items \/ Posted(c, k)

(* The mails on k that can go out before another request is cut short.  A  *)
(* record on a line of its own is found again after every restart; one on  *)
(* an open last line only until the next record is appended to it; and     *)
(* none is found of a mail whose record goes to an open line.              *)
Due(c, k) ==
    IF SendOf(k) \in resultsFile.lines THEN IF Recorded(c, k) THEN 0 ELSE 1
    ELSE IF ~resultsFile.open THEN IF Posted(c, k) THEN 0 ELSE 1
    ELSE IF SendOf(k) \in resultsFile.tail THEN IF Recorded(c, k) THEN 1 ELSE 2
    ELSE IF Posted(c, k) THEN 1 ELSE 2

(* A request cut short pays for two mails, and the slot is about to mail   *)
(* only what the repository does not have: findSuccessfulSend looked.      *)
OnceOn(c, k) ==
    /\ emails[k] + Due(c, k) <= 1 + 2 * aborts
    /\ Posting(c, k) => SendOf(k) \notin Items

SerialSends(r) == \A k \in Relationships \X Drafts : OnceOn(request[r], k)

(* At most two mails are due.                                              *)
LEMMA DueBounded == ASSUME NEW c, NEW k PROVE Due(c, k) \in 0..2
BY DEF Due

(* The counters a send moves.                                              *)
LEMMA DraftCounters ==
    ASSUME TypeOK, NEW k \in Relationships \X Drafts
    PROVE  emails[k] \in Nat /\ aborts \in Nat
BY DEF TypeOK

(* The slot turns to c, no mail goes out and no record is written.         *)
LEMMA SendsStay ==
    ASSUME TypeOK, NEW r \in Requests, NEW c, SerialSends(r), request'[r] = c,
           emails' = emails, aborts' = aborts, resultsFile' = resultsFile, Items' = Items,
           \A k \in Relationships \X Drafts :
              /\ Posted(c, k) <=> Posted(request[r], k)
              /\ Posting(c, k) => SendOf(k) \notin Items
    PROVE  SerialSends(r)'
<1> SUFFICES ASSUME NEW k \in Relationships \X Drafts PROVE OnceOn(c, k)'
  BY DEF SerialSends
<1>1. PICK d : d = request[r] OBVIOUS
<1>2. OnceOn(d, k) /\ (Posted(c, k) <=> Posted(d, k)) BY <1>1 DEF SerialSends
<1>3. Posted(c, k)' = Posted(c, k) BY DEF Posted
<1>4. SendOf(k)' = SendOf(k) BY DEF SendOf
<1>5. Due(c, k)' = Due(d, k) BY <1>2, <1>3, <1>4 DEF Due, Recorded
<1>6. (SendOf(k) \in Items)' <=> SendOf(k) \in Items BY <1>4
<1> QED BY <1>2, <1>5, <1>6 DEF OnceOn, Posting

(* A request, or the process, is cut short.                                *)
LEMMA SendsCut ==
    ASSUME IInv, NEW r \in Requests, SerialSends(r),
           request'[r] = None, aborts' = aborts + 1, emails' = emails
    PROVE  SerialSends(r)'
<1> SUFFICES ASSUME NEW k \in Relationships \X Drafts PROVE OnceOn(None, k)'
  BY DEF SerialSends
<1>1. PICK d : d = request[r] OBVIOUS
<1>2. OnceOn(d, k) BY <1>1 DEF SerialSends
<1>3. emails[k] \in Nat /\ aborts \in Nat BY DraftCounters DEF IInv
<1>4. Due(d, k) \in 0..2 /\ Due(None, k)' \in 0..2 BY DueBounded DEF Due
<1>5. ~Posting(None, k) BY DEF Posting
<1>6. emails'[k] + Due(None, k)' <= 1 + 2 * aborts'
  BY <1>2, <1>3, <1>4 DEF OnceOn
<1> QED BY <1>5, <1>6 DEF OnceOn, Posting

(* A call that neither mails nor records a mail counts for nothing.        *)
LEMMA NoSend ==
    ASSUME NEW c, NEW k \in Relationships \X Drafts,
           \/ c = None
           \/ c.at \notin {"send", "record"}
           \/ c.at = "record" /\ (c.outcome # "success" \/ c.arg \notin Drafts)
    PROVE  ~Posted(c, k) /\ ~Posting(c, k)
<1>1. <<c.rel, c.arg>> = k => c.arg \in Drafts OBVIOUS
<1> QED BY <1>1 DEF Posted, Posting

(* Neither does a request that arrives.                                    *)
LEMMA SendsArrive ==
    ASSUME IInv, NEW r \in Requests, SerialSends(r), NewRequest(r)
    PROVE  SerialSends(r)'
<1>1. ASSUME NEW c, Arrive(r, c), UNCHANGED stores,
             \/ c.at \in {"insert", "read", "save", "findSend"}
             \/ c.at = "record" /\ c.outcome # "success"
      PROVE  SerialSends(r)'
  <2>1. request[r] = None /\ request'[r] = c /\ aborts' = aborts
    BY <1>1 DEF Arrive, IInv, TypeOK
  <2>2. \A k \in Relationships \X Drafts :
           ~Posted(c, k) /\ ~Posting(c, k) /\ ~Posted(request[r], k)
    BY <1>1, <2>1, NoSend
  <2>3. TypeOK /\ emails' = emails /\ resultsFile' = resultsFile /\ Items' = Items
    BY <1>1 DEF stores, repository, Items, IInv
  <2> QED BY <2>1, <2>2, <2>3, SendsStay
<1>2. ASSUME NEW op, NEW caller, NEW at, NEW x, NEW arg
      PROVE  /\ NewCall(op, caller, at, x, arg).at = at
             /\ \A row : Saving(NewCall(op, caller, at, x, arg), row).at = "save"
             /\ \A o : /\ Recording(NewCall(op, caller, at, x, arg), o).at = "record"
                       /\ Recording(NewCall(op, caller, at, x, arg), o).outcome = o
  BY DEF NewCall, Saving, Recording
<1>3. ASSUME NEW pair \in Pairs, NEW stage \in Stages, Create(r, pair, stage)
      PROVE  SerialSends(r)'
  <2>1. PICK c : c = [NewCall("create", "service", "insert", None, stage)
                         EXCEPT !.row = NewRow(pair, stage)] OBVIOUS
  <2>2. c.at = "insert" BY <2>1 DEF NewCall
  <2> QED BY <1>1, <1>3, <2>1, <2>2 DEF Create
<1>4. ASSUME NEW x \in Relationships, NEW stage \in Stages, MoveStage(r, x, stage)
      PROVE  SerialSends(r)'
  BY <1>1, <1>2, <1>4 DEF MoveStage
<1>5. ASSUME NEW x \in Relationships, NEW a \in Assignees, Assign(r, x, a)
      PROVE  SerialSends(r)'
  BY <1>1, <1>2, <1>5 DEF Assign
<1>6. ASSUME NEW x \in Relationships, NEW stage \in Stages, AutomateMove(r, x, stage)
      PROVE  SerialSends(r)'
  <2>1. PICK n : n = NewCall("move", "automation", "read", x, stage) OBVIOUS
  <2>2. PICK c : c = IF Exists(x) THEN [n EXCEPT !.before = relationships[x]]
                                  ELSE Recording(n, "failure") OBVIOUS
  <2>3. c.at = "read" \/ (c.at = "record" /\ c.outcome = "failure")
    BY <2>1, <2>2 DEF NewCall, Recording
  <2>4. Arrive(r, c) /\ UNCHANGED stores BY <1>6, <2>1, <2>2 DEF AutomateMove
  <2> QED BY <1>1, <2>3, <2>4
<1>7. ASSUME NEW x \in Relationships, NEW a \in Assignees, AutomateAssign(r, x, a)
      PROVE  SerialSends(r)'
  BY <1>1, <1>2, <1>7 DEF AutomateAssign
<1>8. ASSUME NEW x \in Relationships, NEW draft \in Drafts, SendOutreach(r, x, draft)
      PROVE  SerialSends(r)'
  BY <1>1, <1>2, <1>8 DEF SendOutreach
<1>9. ASSUME NEW x \in Relationships, NEW op, RejectArgument(r, op, x) PROVE SerialSends(r)'
  <2>1. PICK c : c = Recording(NewCall(op, "automation", "record", x, Invalid), "failure")
    OBVIOUS
  <2>2. c.at = "record" /\ c.outcome = "failure" BY <2>1 DEF NewCall, Recording
  <2> QED BY <1>1, <1>9, <2>1, <2>2 DEF RejectArgument
<1> QED BY <1>3, <1>4, <1>5, <1>6, <1>7, <1>8, <1>9 DEF NewRequest

(* A mail is on its way to be recorded as soon as it is out.               *)
LEMMA SendsMail ==
    ASSUME IInv, NEW r \in Requests, SerialSends(r), Send(r)
    PROVE  SerialSends(r)'
<1>1. PICK d : d = request[r] OBVIOUS
<1>2. d # None /\ d.at = "send" /\ d \in Call /\ CallOK(d)
  BY <1>1 DEF Send, At, IInv, TypeOK, CallsOK
<1>3. PICK c : c = Recording(d, "success") OBVIOUS
<1>4. c.at = "record" /\ c.outcome = "success" /\ c.rel = d.rel /\ c.arg = d.arg /\ c # None
  <2>1. c.at = "record" /\ c.outcome = "success" /\ c.rel = d.rel /\ c.arg = d.arg
    BY <1>2, <1>3 DEF Recording, Call
  <2>2. c \in Call BY <1>2, <1>3 DEF Recording, Call, Steps, Outcomes
  <2> QED BY <2>1, <2>2, WorkflowAssumption
<1>5. request'[r] = c /\ aborts' = aborts BY <1>1, <1>3 DEF Send, Await, IInv, TypeOK
<1>6. PICK s : s = <<d.rel, d.arg>> OBVIOUS
<1>7. emails' = [emails EXCEPT ![s] = @ + 1] /\ resultsFile' = resultsFile /\ Items' = Items
  BY <1>1, <1>6 DEF Send, repository, Items
<1> SUFFICES ASSUME NEW k \in Relationships \X Drafts PROVE OnceOn(c, k)'
  BY <1>5 DEF SerialSends
<1>8. OnceOn(d, k) BY <1>1 DEF SerialSends
<1>9. emails[k] \in Nat /\ aborts \in Nat BY DraftCounters DEF IInv
<1>10. ~Posted(d, k) /\ (Posting(d, k) <=> k = s) BY <1>2, <1>6 DEF Posted, Posting
<1>11. ~Posting(c, k) /\ (Posted(c, k) <=> k = s) /\ Posted(c, k)' = Posted(c, k)
  BY <1>4, <1>6 DEF Posted, Posting
<1>12. emails'[k] = IF k = s THEN emails[k] + 1 ELSE emails[k] BY <1>7 DEF IInv, TypeOK
<1>13. k = s => SendOf(k) \notin Items BY <1>8, <1>10 DEF OnceOn
<1>14. SendOf(k)' = SendOf(k) BY DEF SendOf
<1>15. Due(d, k) = Due(c, k)' + IF k = s THEN 1 ELSE 0
  BY <1>7, <1>10, <1>11, <1>13, <1>14 DEF Due, Recorded
<1>16. Due(c, k)' \in 0..2 BY DueBounded DEF Due
<1>17. emails'[k] + Due(c, k)' <= 1 + 2 * aborts'
  BY <1>5, <1>8, <1>9, <1>12, <1>15, <1>16 DEF OnceOn
<1> QED BY <1>11, <1>17 DEF OnceOn, Posting

(* The record takes the mail's place; on an open last line it is lost, and *)
(* so is the record that was there.                                        *)
LEMMA SendsRecord ==
    ASSUME IInv, NEW r \in Requests, SerialSends(r), Record(r)
    PROVE  SerialSends(r)'
<1>1. PICK d : d = request[r] OBVIOUS
<1>2. d # None /\ d.at = "record" /\ d \in Call
  BY <1>1 DEF Record, At, IInv, TypeOK
<1>3. PICK at : at = IF d.outcome = "success" THEN "complete" ELSE "audit" OBVIOUS
<1>4. PICK c : c = [d EXCEPT !.at = at] OBVIOUS
<1>5. c.at = at BY <1>2, <1>4 DEF Call
<1>6. request'[r] = c /\ aborts' = aborts BY <1>1, <1>3, <1>4 DEF Record, Await, IInv, TypeOK
<1>7. PICK x : x = <<<<d.rel, d.arg>>, d.outcome>> OBVIOUS
<1>8. Items' = Items \cup {x} /\ emails' = emails
  BY <1>1, <1>7 DEF Record, Push, Items, Result
<1>9. resultsFile' = AddLine(resultsFile, x) BY <1>1, <1>7 DEF Record, Result
<1>10. /\ resultsFile'.lines = IF resultsFile.open THEN resultsFile.lines
                               ELSE resultsFile.lines \cup {x}
       /\ resultsFile'.open = FALSE
  BY <1>9 DEF AddLine
<1> SUFFICES ASSUME NEW k \in Relationships \X Drafts PROVE OnceOn(c, k)'
  BY <1>6 DEF SerialSends
<1>11. OnceOn(d, k) BY <1>1 DEF SerialSends
<1>12. emails[k] \in Nat /\ aborts \in Nat BY DraftCounters DEF IInv
<1>13. SendOf(k) = x <=> Posted(d, k) BY <1>2, <1>7 DEF Posted, SendOf
<1>14. ~Posted(c, k) /\ ~Posting(c, k) /\ Posted(c, k)' = Posted(c, k)
  BY <1>3, <1>5 DEF Posted, Posting
<1>15. SendOf(k)' = SendOf(k) BY DEF SendOf
<1>16. SendOf(k) \in Items' <=> Recorded(d, k) BY <1>8, <1>13 DEF Recorded
<1>17. Due(c, k)' <= Due(d, k)
  <2>1. CASE resultsFile.open
    BY <1>10, <1>14, <1>15, <1>16, <2>1 DEF Due, Recorded
  <2>2. CASE ~resultsFile.open
    BY <1>10, <1>13, <1>14, <1>15, <1>16, <2>2 DEF Due, Recorded
  <2> QED BY <2>1, <2>2
<1>18. Due(d, k) \in 0..2 /\ Due(c, k)' \in 0..2 BY DueBounded DEF Due
<1>19. emails'[k] + Due(c, k)' <= 1 + 2 * aborts'
  BY <1>6, <1>8, <1>11, <1>12, <1>17, <1>18 DEF OnceOn
<1> QED BY <1>14, <1>19 DEF OnceOn, Posting

(* A restart without a request in flight: what the file has is found.      *)
LEMMA SendsRestart ==
    ASSUME IInv, NEW r \in Requests, Requests = {r}, SerialSends(r), Restart
    PROVE  SerialSends(r)'
<1>1. request'[r] = None /\ emails' = emails /\ resultsFile' = resultsFile BY DEF Restart
<1>2. CASE request[r] # None
  <2>1. aborts' = aborts + 1 BY <1>2 DEF Restart
  <2> QED BY <1>1, <2>1, SendsCut
<1>3. CASE request[r] = None
  <2>1. aborts' = aborts BY <1>3 DEF Restart
  <2>2. Items' = resultsFile.lines \cup resultsFile.tail
    BY <1>1 DEF Restart, Items, Parsed
  <2> SUFFICES ASSUME NEW k \in Relationships \X Drafts PROVE OnceOn(None, k)'
    BY <1>1 DEF SerialSends
  <2>3. OnceOn(None, k) BY <1>3 DEF SerialSends
  <2>4. ~Posted(None, k) /\ ~Posted(None, k)' /\ ~Posting(None, k) BY DEF Posted, Posting
  <2>5. SendOf(k)' = SendOf(k) BY DEF SendOf
  <2>6. Due(None, k)' <= Due(None, k) BY <1>1, <2>2, <2>4, <2>5 DEF Due, Recorded
  <2>7. Due(None, k) \in 0..2 /\ Due(None, k)' \in 0..2 BY DueBounded DEF Due
  <2>8. emails[k] \in Nat /\ aborts \in Nat BY DraftCounters DEF IInv
  <2>9. emails'[k] + Due(None, k)' <= 1 + 2 * aborts'
    BY <1>1, <2>1, <2>3, <2>6, <2>7, <2>8 DEF OnceOn
  <2> QED BY <2>4, <2>9 DEF OnceOn, Posting
<1> QED BY <1>2, <1>3

(* The other calls neither mail nor record; only findSuccessfulSend leads  *)
(* to a mail, when no send of the draft is recorded.                       *)
LEMMA SendsContinue ==
    ASSUME IInv, CInv, NEW r \in Requests, SerialSends(r), Continue(r)
    PROVE  SerialSends(r)'
<1>1. PICK d : d = request[r] OBVIOUS
<1>2. d # None => d \in Call /\ CallOK(d) /\ Tidy(d)
  BY <1>1 DEF IInv, CInv, TypeOK, CallsOK, TidyCalls
<1>3. ASSUME NEW c, Await(r, c), emails' = emails, resultsFile' = resultsFile, Items' = Items,
             d # None, d.at # "record",
             \/ c = None
             \/ c.at \notin {"send", "record"}
             \/ c.at = "record" /\ (c.outcome # "success" \/ c.arg \notin Drafts)
      PROVE  SerialSends(r)'
  <2>1. TypeOK /\ request'[r] = c /\ aborts' = aborts BY <1>3 DEF Await, IInv, TypeOK
  <2>2. \A k \in Relationships \X Drafts : ~Posted(c, k) /\ ~Posting(c, k) BY <1>3, NoSend
  <2>3. \A k \in Relationships \X Drafts : ~Posted(request[r], k) BY <1>1, <1>3 DEF Posted
  <2> QED BY <1>3, <2>1, <2>2, <2>3, SendsStay
<1>4. ASSUME NEW at \in {"notify", "audit", "send", "complete"}, d # None
      PROVE  [d EXCEPT !.at = at].at = at
  BY <1>2, <1>4 DEF Call
<1>5. ASSUME NEW o, d # None
      PROVE  /\ Recording(d, o).at = "record" /\ Recording(d, o).outcome = o
             /\ Recording(d, o).arg = d.arg
  BY <1>2, <1>5 DEF Recording, Call
<1>6. ASSUME NEW row, d # None PROVE Saving(d, row).at = "save" BY <1>2, <1>6 DEF Saving, Call
<1>7. ASSUME NEW x \in Relationships, Insert(r, x) PROVE SerialSends(r)'
  BY <1>1, <1>3, <1>7 DEF Insert, At, repository, Items
<1>8. ASSUME RefuseInsert(r) PROVE SerialSends(r)'
  BY <1>1, <1>3, <1>8 DEF RefuseInsert, At, stores, repository, Items
<1>9. ASSUME Save(r) PROVE SerialSends(r)' BY <1>1, <1>3, <1>4, <1>9 DEF Save, At, repository, Items
<1>10. ASSUME Notify(r) PROVE SerialSends(r)'
  <2>1. /\ d # None /\ d.at = "notify"
        /\ emails' = emails /\ resultsFile' = resultsFile /\ Items' = Items
    BY <1>1, <1>10 DEF Notify, At, repository, Items
  <2>2. d.arg \notin Drafts BY <1>2, <2>1 DEF Tidy
  <2>3. CASE d.caller = "service" BY <1>1, <1>3, <1>4, <1>10, <2>1, <2>3 DEF Notify
  <2>4. CASE d.caller # "service"
    <3>1. Await(r, Recording(d, OutcomeOf(d.before, d.row))) BY <1>1, <1>10, <2>4 DEF Notify
    <3> QED BY <1>3, <1>5, <2>1, <2>2, <3>1
  <2> QED BY <2>3, <2>4
<1>11. ASSUME ReadAgain(r) PROVE SerialSends(r)'
  <2>1. /\ d # None /\ d.at = "read"
        /\ emails' = emails /\ resultsFile' = resultsFile /\ Items' = Items
    BY <1>1, <1>11 DEF ReadAgain, At, stores, repository, Items
  <2>2. d.arg \notin Drafts BY <1>2, <2>1, WorkflowAssumption DEF CallOK
  <2>3. PICK now, row : now = relationships[d.rel] /\ row = Moved(now, d.arg) OBVIOUS
  <2>4. \/ Await(r, Recording(d, OutcomeOf(d.before, now)))
        \/ Await(r, Saving(d, row))
    BY <1>1, <1>11, <2>3 DEF ReadAgain
  <2> QED BY <1>3, <1>5, <1>6, <2>1, <2>2, <2>4
<1>12. ASSUME FindSuccessfulSend(r) PROVE SerialSends(r)'
  <2>1. /\ d # None /\ d.at = "findSend"
        /\ emails' = emails /\ resultsFile' = resultsFile /\ Items' = Items
    BY <1>1, <1>12 DEF FindSuccessfulSend, At, Items
  <2>2. CASE SentBefore(d.rel, d.arg)
    BY <1>1, <1>3, <1>5, <1>12, <2>1, <2>2 DEF FindSuccessfulSend
  <2>3. CASE ~SentBefore(d.rel, d.arg)
    <3>1. PICK c : c = [d EXCEPT !.at = "send"] OBVIOUS
    <3>2. c.at = "send" /\ c.rel = d.rel /\ c.arg = d.arg BY <1>2, <2>1, <3>1 DEF Call
    <3>3. Await(r, c) BY <1>1, <1>12, <2>3, <3>1 DEF FindSuccessfulSend
    <3>4. request'[r] = c /\ aborts' = aborts BY <3>3 DEF Await, IInv, TypeOK
    <3>5. ASSUME NEW k \in Relationships \X Drafts
          PROVE  /\ ~Posted(c, k) /\ ~Posted(request[r], k)
                 /\ Posting(c, k) => SendOf(k) \notin Items
      <4>1. ~Posted(c, k) /\ ~Posted(request[r], k) BY <1>1, <2>1, <3>2 DEF Posted
      <4>2. Posting(c, k) => SendOf(k) \notin Items
        BY <2>3, <3>2 DEF Posting, SendOf, SentBefore
      <4> QED BY <4>1, <4>2
    <3> QED BY <2>1, <3>4, <3>5, SendsStay DEF IInv
  <2> QED BY <2>2, <2>3
<1>13. ASSUME SendFails(r) PROVE SerialSends(r)'
  BY <1>1, <1>3, <1>5, <1>13 DEF SendFails, At, stores, repository, Items
<1>14. ASSUME Complete(r) PROVE SerialSends(r)' BY <1>1, <1>3, <1>4, <1>14 DEF Complete, At, repository, Items
<1>15. ASSUME Audit(r) PROVE SerialSends(r)' BY <1>1, <1>3, <1>15 DEF Audit, At, repository, Items
<1>16. ASSUME Abort(r) \/ LoadFails(r) \/ RecordFails(r) PROVE SerialSends(r)'
  <2>1. request'[r] = None /\ aborts' = aborts + 1 /\ emails' = emails
    BY <1>16 DEF Abort, LoadFails, RecordFails, CutShort, stores, IInv, TypeOK
  <2> QED BY <2>1, SendsCut
<1> QED BY <1>7, <1>8, <1>9, <1>10, <1>11, <1>12, <1>13, <1>14, <1>15, <1>16,
           SendsMail, SendsRecord
        DEF Continue

(* Handlers that run one after the other mail a draft of a relationship    *)
(* once, over any number of restarts, and at most twice more for each of   *)
(* them that is cut short: the record of the mail is lost with it, or with *)
(* the half of a line it leaves in the file of the action results.         *)
THEOREM OneMailPerDraft ==
    ASSUME NEW r, Requests = {r}
    PROVE  Spec => []OutreachOnce
<1>1. r \in Requests OBVIOUS
<1>2. Init => SerialSends(r)
  <2> SUFFICES ASSUME Init, NEW k \in Relationships \X Drafts PROVE OnceOn(None, k)
    BY <1>1 DEF Init, SerialSends
  <2>1. ~Posted(None, k) /\ ~Posting(None, k) BY DEF Posted, Posting
  <2>2. emails[k] = 0 /\ aborts = 0 /\ resultsFile = EmptyFile BY DEF Init
  <2>3. Due(None, k) = 1 BY <2>1, <2>2 DEF Due, EmptyFile
  <2> QED BY <2>1, <2>2, <2>3 DEF OnceOn
<1>3. IInv /\ CInv /\ SerialSends(r) /\ [Next]_vars => SerialSends(r)'
  <2> SUFFICES ASSUME IInv, CInv, SerialSends(r), [Next]_vars PROVE SerialSends(r)' OBVIOUS
  <2>1. CASE UNCHANGED vars
    BY <2>1 DEF vars, stores, repository, SerialSends, OnceOn, Due, Recorded, SendOf, Items,
                Posted, Posting
  <2>2. CASE NewRequest(r) BY <1>1, <2>2, SendsArrive
  <2>3. CASE Continue(r) BY <1>1, <2>3, SendsContinue
  <2>4. CASE Restart BY <1>1, <2>4, SendsRestart
  <2> QED BY <2>1, <2>2, <2>3, <2>4 DEF Next
<1>4. IInv /\ SerialSends(r) => OutreachOnce
  <2> SUFFICES ASSUME IInv, SerialSends(r), NEW k \in Relationships \X Drafts
               PROVE  emails[k] <= 1 + 2 * aborts
    BY DEF OutreachOnce
  <2>1. emails[k] \in Nat /\ aborts \in Nat BY DraftCounters DEF IInv
  <2>2. PICK d : d = request[r] OBVIOUS
  <2>3. Due(d, k) \in 0..2 BY DueBounded
  <2>4. emails[k] + Due(d, k) <= 1 + 2 * aborts BY <2>2 DEF SerialSends, OnceOn
  <2> QED BY <2>1, <2>3, <2>4
<1> QED BY <1>2, <1>3, <1>4, Invariance, BalanceInvariance, PTL DEF Spec

-----------------------------------------------------------------------------
(* The readers of the workflow.  To the workflow their steps are stutters. *)

LEMMA ReadersStep == [ReadersNext]_readersVars => [Next]_vars
<1> SUFFICES ASSUME [ReadersNext]_readersVars PROVE [Next]_vars OBVIOUS
<1>1. CASE AnalyticsNext
  BY <1>1 DEF AnalyticsNext, ReadRelationships, MatchNext, SkipNext, Return
<1>2. CASE \E pair \in Pairs :
              \/ explainMatch(pair) \/ summarizeCandidate(pair) \/ summarizeJob(pair)
              \/ draftOutreach(pair) \/ suggestInterviewQuestions(pair)
  BY <1>2 DEF explainMatch, summarizeCandidate, summarizeJob, draftOutreach,
              suggestInterviewQuestions, Ask
<1>3. CASE FindJob \/ LoseJob \/ FailReasoning \/ Respond
  BY <1>3 DEF FindJob, LoseJob, FailReasoning, Respond, allVars
<1>4. CASE UNCHANGED readersVars BY <1>4 DEF readersVars, allVars
<1> QED BY <1>1, <1>2, <1>3, <1>4 DEF ReadersNext

LEMMA ReadersInvariance == ReadersSpec => []IInv
<1>1. ReadersInit => IInv BY InitIInv DEF ReadersInit, AnalyticsInit
<1>2. IInv /\ [ReadersNext]_readersVars => IInv' BY NextIInv, ReadersStep
<1> QED BY <1>1, <1>2, PTL DEF ReadersSpec

(* There are finitely many rows and finitely many entries in histories: a  *)
(* step changes no more than one row.                                      *)
Ids == {x \in Relationships : Exists(x)}
EntriesOf(x) == {<<x, n>> : n \in DOMAIN relationships[x].stageHistory}
Entries == UNION {EntriesOf(x) : x \in Ids}

LEMMA RowsChange ==
    ASSUME [Next]_vars
    PROVE  \/ relationships' = relationships
           \/ \E r \in Requests : Save(r) \/ \E x \in Relationships : Insert(r, x)
<1>1. CASE Restart \/ UNCHANGED vars BY <1>1 DEF Restart, vars, stores
<1>2. ASSUME NEW r \in Requests, NewRequest(r) PROVE relationships' = relationships
  BY <1>2 DEF NewRequest, Create, MoveStage, AutomateMove, Assign, AutomateAssign, SendOutreach,
         RejectArgument, stores
<1>3. ASSUME NEW r \in Requests, Continue(r)
      PROVE  \/ relationships' = relationships
             \/ Save(r)
             \/ \E x \in Relationships : Insert(r, x)
  BY <1>3 DEF Continue, RefuseInsert, Notify, ReadAgain, FindSuccessfulSend, Send, SendFails,
         Record, Complete, Audit, LoadFails, RecordFails, Abort, stores
<1> QED BY <1>1, <1>2, <1>3 DEF Next

LEMMA OneRowChanges ==
    ASSUME IInv, [Next]_vars
    PROVE  \E x : \A y \in Relationships : y # x => relationships'[y] = relationships[y]
<1>1. ASSUME NEW r, NEW x, Insert(r, x)
      PROVE  \A y \in Relationships : y # x => relationships'[y] = relationships[y]
  BY <1>1 DEF Insert, IInv, TypeOK
<1>2. ASSUME NEW r, Save(r)
      PROVE  \A y \in Relationships :
                 y # request[r].rel => relationships'[y] = relationships[y]
  BY <1>2 DEF Save, IInv, TypeOK
<1> QED BY <1>1, <1>2, RowsChange

LEMMA FinitelyMany == ReadersSpec => [](IsFiniteSet(Ids) /\ IsFiniteSet(Entries))
<1>1. ReadersInit => IsFiniteSet(Ids) /\ IsFiniteSet(Entries)
  <2> SUFFICES ASSUME ReadersInit PROVE Ids = {} /\ Entries = {} BY FS_EmptySet
  <2>1. Ids = {} BY DEF ReadersInit, AnalyticsInit, Init, Ids, Exists
  <2> QED BY <2>1 DEF Entries
<1>2. /\ IInv /\ IInv' /\ [ReadersNext]_readersVars
      /\ IsFiniteSet(Ids) /\ IsFiniteSet(Entries)
      => IsFiniteSet(Ids)' /\ IsFiniteSet(Entries)'
  <2> SUFFICES ASSUME IInv, IInv', IsFiniteSet(Ids), IsFiniteSet(Entries),
                      [ReadersNext]_readersVars
               PROVE  IsFiniteSet(Ids') /\ IsFiniteSet(Entries')
    OBVIOUS
  <2>1. PICK x : \A y \in Relationships : y # x => relationships'[y] = relationships[y]
    BY OneRowChanges, ReadersStep
  <2>2. IsFiniteSet(Ids \cup {x}) BY FS_AddElement
  <2>3. Ids' \subseteq Ids \cup {x} BY <2>1 DEF Ids, Exists
  <2>4. PICK More : More = IF x \in Ids' THEN EntriesOf(x)' ELSE {} OBVIOUS
  <2>5. IsFiniteSet(More)
    <3>1. CASE x \notin Ids' BY <2>4, <3>1, FS_EmptySet
    <3>2. CASE x \in Ids'
      <4>1. PICK k \in Nat : DOMAIN relationships'[x].stageHistory = 1..k
        <5>1. relationships'[x] \in Relationship BY <3>2 DEF Ids, Exists, IInv, TypeOK
        <5>2. PICK h : h = relationships'[x].stageHistory OBVIOUS
        <5>3. h \in Seq(HistoryEntry) BY <5>1, <5>2 DEF Relationship
        <5> QED BY <5>2, <5>3
      <4>2. More = {<<x, n>> : n \in 1..k} BY <2>4, <3>2, <4>1 DEF EntriesOf
      <4>3. IsFiniteSet(1..k) BY FS_Interval
      <4> DEFINE f == [n \in 1..k |-> <<x, n>>]
      <4>4. f \in Bijection(1..k, More)
        <5>1. f \in [1..k -> More] BY <4>2
        <5>2. \A m, n \in 1..k : f[m] = f[n] => m = n OBVIOUS
        <5>3. \A e \in More : \E n \in 1..k : f[n] = e BY <4>2
        <5> QED BY <5>1, <5>2, <5>3, Fun_IsBij
      <4> QED BY <4>3, <4>4, FS_Bijection DEF ExistsBijection
    <3> QED BY <3>1, <3>2
  <2>6. Entries' \subseteq Entries \cup More
    <3> SUFFICES ASSUME NEW y \in Ids', NEW e \in EntriesOf(y)' PROVE e \in Entries \cup More
      BY DEF Entries
    <3>1. CASE y = x BY <2>4, <3>1
    <3>2. CASE y # x
      <4>1. y \in Ids /\ relationships'[y] = relationships[y] BY <2>1, <3>2 DEF Ids, Exists
      <4>2. EntriesOf(y)' = EntriesOf(y) BY <4>1 DEF EntriesOf
      <4> QED BY <4>1, <4>2 DEF Entries
    <3> QED BY <3>1, <3>2
  <2>7. IsFiniteSet(Entries \cup More) BY <2>5, FS_Union
  <2> QED BY <2>2, <2>3, <2>6, <2>7, FS_Subset
<1> QED BY <1>1, <1>2, ReadersInvariance, PTL DEF ReadersSpec

-----------------------------------------------------------------------------
(* The funnel of a snapshot adds up.                                       *)

(* The rows are those of the table, each with its chained history.         *)
LEMMA RowsWhole ==
    ASSUME IInv
    PROVE  /\ DOMAIN Rows = Ids
           /\ \A x \in Ids : Rows[x] \in Relationship /\ Chained(Rows[x])
BY DEF Rows, Ids, IInv, TypeOK, Exists, HistoryChained

(* Where each of finitely many relationships is in one column, a board has *)
(* a card for each.                                                        *)
LEMMA OneCardEach ==
    ASSUME NEW S, IsFiniteSet(S), NEW column \in [S -> WorkflowStages],
           NEW board, DOMAIN board = WorkflowStages,
           \A stage \in WorkflowStages : board[stage] = {x \in S : column[x] = stage}
    PROVE  Cardinality(Cards(board)) = Cardinality(S)
<1> DEFINE f == [x \in S |-> <<column[x], x>>]
<1>1. \A c : c \in Cards(board) <=> \E stage \in WorkflowStages, x \in S :
                                        column[x] = stage /\ c = <<stage, x>>
  <2>1. Cards(board) = UNION {{<<stage, x>> : x \in board[stage]} : stage \in WorkflowStages}
    BY DEF Cards
  <2> QED BY <2>1
<1>2. \A x \in S : f[x] \in Cards(board) BY <1>1
<1>3. \A x, y \in S : f[x] = f[y] => x = y OBVIOUS
<1>4. \A c \in Cards(board) : \E x \in S : f[x] = c BY <1>1
<1>5. f \in Bijection(S, Cards(board))
  <2>1. f \in [S -> Cards(board)] BY <1>2
  <2> QED BY <1>3, <1>4, <2>1, Fun_IsBij
<1>6. ExistsBijection(S, Cards(board)) BY <1>5 DEF ExistsBijection
<1> QED BY <1>6, FS_Bijection

(* The lists and the stages are boards like that.                          *)
LEMMA BoardsHold == IInv /\ IsFiniteSet(Ids) => BoardsWhole
<1> SUFFICES ASSUME IInv, IsFiniteSet(Ids) PROVE BoardsWhole OBVIOUS
<1>1. \A x \in Ids : Rows[x].currentStage \in WorkflowStages
  BY RowsWhole, WorkflowAssumption DEF Relationship
<1>2. None \notin WorkflowStages BY WorkflowAssumption
<1>3. ASSUME NEW pairs \in SUBSET Pairs
      PROVE  Cardinality(Cards(Board(Rows, pairs))) = Cardinality(Listed(Rows, pairs, None))
  <2>1. PICK S : S = Listed(Rows, pairs, None) OBVIOUS
  <2>2. S = {x \in Ids : Rows[x].pair \in pairs} BY <2>1, RowsWhole DEF Listed
  <2>3. IsFiniteSet(S) BY <2>2, FS_Subset
  <2>4. PICK column : column = [x \in S |-> Rows[x].currentStage] OBVIOUS
  <2>5. column \in [S -> WorkflowStages] BY <1>1, <2>2, <2>4
  <2>6. PICK board : board = Board(Rows, pairs) OBVIOUS
  <2>7. DOMAIN board = WorkflowStages BY <2>6 DEF Board
  <2>8. ASSUME NEW stage \in WorkflowStages PROVE board[stage] = {x \in S : column[x] = stage}
    <3>1. board[stage] = {x \in Ids : Rows[x].pair \in pairs /\ stage = Rows[x].currentStage}
      BY <1>2, <2>6, RowsWhole DEF Board, Listed
    <3> QED BY <2>2, <2>4, <3>1
  <2>9. Cardinality(Cards(board)) = Cardinality(S)
    BY <2>3, <2>5, <2>7, <2>8, OneCardEach
  <2> QED BY <2>1, <2>6, <2>9
<1>4. Cardinality(Cards([stage \in WorkflowStages |-> StageIds(Rows, stage)]))
          = Cardinality(DOMAIN Rows)
  <2>1. PICK column : column = [x \in Ids |-> Rows[x].currentStage] OBVIOUS
  <2>2. column \in [Ids -> WorkflowStages] BY <1>1, <2>1
  <2>3. PICK board : board = [stage \in WorkflowStages |-> StageIds(Rows, stage)] OBVIOUS
  <2>4. DOMAIN board = WorkflowStages BY <2>3
  <2>5. ASSUME NEW stage \in WorkflowStages PROVE board[stage] = {x \in Ids : column[x] = stage}
    BY <2>1, <2>3, RowsWhole DEF StageIds
  <2>6. Cardinality(Cards(board)) = Cardinality(Ids) BY <2>2, <2>4, <2>5, OneCardEach
  <2> QED BY <2>3, <2>6, RowsWhole
<1> QED BY <1>3, <1>4 DEF BoardsWhole

(* Each finished stay in a stage ends with the move that leads out of it,  *)
(* the next entry of its history.                                          *)
LEMMA StaysEnd ==
    ASSUME IInv, IsFiniteSet(Entries), NEW stage \in WorkflowStages
    PROVE  Cardinality(Stays(Rows, stage)) = Cardinality(MovesFrom(Rows, stage))
<1>1. PICK S, T : S = Stays(Rows, stage) /\ T = MovesFrom(Rows, stage) OBVIOUS
<1>2. DOMAIN Rows = Ids BY RowsWhole
<1>3. \A x \in Ids : /\ Rows[x] = relationships[x]
                     /\ Rows[x].stageHistory \in Seq(HistoryEntry)
                     /\ Chained(Rows[x])
  BY RowsWhole DEF Rows, Ids, Relationship
<1>4. PICK length : length = [x \in Ids |-> Len(Rows[x].stageHistory)] OBVIOUS
<1>5. \A x \in Ids : /\ length[x] \in Nat \ {0}
                     /\ DOMAIN Rows[x].stageHistory = 1..length[x]
  <2> SUFFICES ASSUME NEW x \in Ids
               PROVE  length[x] \in Nat \ {0} /\ DOMAIN Rows[x].stageHistory = 1..length[x]
    OBVIOUS
  <2>1. PICK h : h = Rows[x].stageHistory OBVIOUS
  <2>2. h \in Seq(HistoryEntry) /\ h # <<>> BY <1>3, <2>1 DEF Chained
  <2>3. Len(h) \in Nat \ {0} /\ DOMAIN h = 1..Len(h) BY <2>2
  <2> QED BY <1>4, <2>1, <2>3
<1>6. \A x \in Ids : Rows[x].stageHistory[1].previousStage # stage
  <2>1. None # stage BY WorkflowAssumption
  <2> QED BY <1>3, <2>1 DEF Chained
<1>7. \A x \in Ids : \A n \in 1..(length[x] - 1) :
          Rows[x].stageHistory[n + 1].previousStage = Rows[x].stageHistory[n].newStage
  <2> SUFFICES ASSUME NEW x \in Ids, NEW n \in 1..(length[x] - 1)
               PROVE  Rows[x].stageHistory[n + 1].previousStage = Rows[x].stageHistory[n].newStage
    OBVIOUS
  <2>1. n + 1 \in 2..length[x] /\ (n + 1) - 1 = n BY <1>5
  <2>2. length[x] = Len(Rows[x].stageHistory) BY <1>4
  <2>3. \A m \in 2..length[x] : Rows[x].stageHistory[m].previousStage
                                    = Rows[x].stageHistory[m - 1].newStage
    BY <1>3, <2>2 DEF Chained
  <2> QED BY <2>1, <2>3
<1>8. \A e : e \in S <=> \E x \in Ids : \E n \in 1..(length[x] - 1) :
                             Rows[x].stageHistory[n].newStage = stage /\ e = <<x, n>>
  <2>1. S = UNION {{<<x, n>> : n \in {n \in 1..(length[x] - 1) :
                                          Rows[x].stageHistory[n].newStage = stage}} : x \in Ids}
    BY <1>1, <1>2, <1>4 DEF Stays
  <2> QED BY <2>1
<1>9. \A e : e \in T <=> \E x \in Ids : \E n \in 1..length[x] :
                             Rows[x].stageHistory[n].previousStage = stage /\ e = <<x, n>>
  <2>1. T = UNION {{<<x, n>> : n \in {n \in 1..length[x] :
                                        Rows[x].stageHistory[n].previousStage = stage}} : x \in Ids}
    BY <1>1, <1>2, <1>5 DEF MovesFrom
  <2> QED BY <2>1
<1>10. IsFiniteSet(S)
  <2>1. ASSUME NEW x \in Ids, NEW n \in 1..(length[x] - 1) PROVE <<x, n>> \in Entries
    <3>1. n \in DOMAIN relationships[x].stageHistory BY <1>3, <1>5, <2>1
    <3> QED BY <3>1 DEF Entries, EntriesOf
  <2>2. S \subseteq Entries BY <1>8, <2>1
  <2> QED BY <2>2, FS_Subset
<1> DEFINE f == [e \in S |-> <<e[1], e[2] + 1>>]
<1>11. f \in [S -> T]
  <2> SUFFICES ASSUME NEW e \in S PROVE <<e[1], e[2] + 1>> \in T OBVIOUS
  <2>1. PICK x \in Ids, n \in Nat :
            /\ n \in 1..(length[x] - 1)
            /\ Rows[x].stageHistory[n].newStage = stage /\ e = <<x, n>>
    BY <1>8
  <2>2. n + 1 \in 1..length[x] BY <1>5, <2>1
  <2>3. Rows[x].stageHistory[n + 1].previousStage = stage BY <1>7, <2>1
  <2>4. <<x, n + 1>> \in T BY <1>9, <2>2, <2>3
  <2> QED BY <2>1, <2>4
<1>12. \A d, e \in S : f[d] = f[e] => d = e
  <2> SUFFICES ASSUME NEW d \in S, NEW e \in S, <<d[1], d[2] + 1>> = <<e[1], e[2] + 1>>
               PROVE  d = e
    OBVIOUS
  <2>1. PICK x \in Ids, m \in Nat : d = <<x, m>> BY <1>8
  <2>2. PICK y \in Ids, n \in Nat : e = <<y, n>> BY <1>8
  <2> QED BY <2>1, <2>2
<1>13. \A e \in T : \E d \in S : f[d] = e
  <2> SUFFICES ASSUME NEW e \in T PROVE \E d \in S : <<d[1], d[2] + 1>> = e OBVIOUS
  <2>1. PICK x \in Ids, n \in Nat :
            /\ n \in 1..length[x]
            /\ Rows[x].stageHistory[n].previousStage = stage /\ e = <<x, n>>
    BY <1>9
  <2>2. n # 1 BY <1>6, <2>1
  <2>3. PICK m \in Nat : n = m + 1 /\ m \in 1..(length[x] - 1)
    <3>1. n - 1 \in Nat /\ n = (n - 1) + 1 /\ n - 1 \in 1..(length[x] - 1) BY <1>5, <2>1, <2>2
    <3> QED BY <3>1
  <2>4. Rows[x].stageHistory[m].newStage = stage BY <1>7, <2>1, <2>3
  <2>5. <<x, m>> \in S BY <1>8, <2>3, <2>4
  <2>6. <<<<x, m>>[1], <<x, m>>[2] + 1>> = e BY <2>1, <2>3
  <2> QED BY <2>5, <2>6
<1>14. f \in Bijection(S, T) BY <1>11, <1>12, <1>13, Fun_IsBij
<1>15. ExistsBijection(S, T) BY <1>14 DEF ExistsBijection
<1> QED BY <1>1, <1>10, <1>15, FS_Bijection

(* A relationship is in the stage its last entry led to.                   *)
LEMMA StagesEntered ==
    ASSUME IInv, NEW s \in WorkflowStages
    PROVE  StageIds(Rows, s) \subseteq
               UNION {TransitionIds(Rows, t, s) : t \in WorkflowStages \cup {None}}
<1> SUFFICES ASSUME NEW x \in Ids, Rows[x].currentStage = s
             PROVE  \E t \in WorkflowStages \cup {None} : x \in TransitionIds(Rows, t, s)
  BY RowsWhole DEF StageIds
<1>1. PICK h : h = Rows[x].stageHistory OBVIOUS
<1>2. h \in Seq(HistoryEntry) /\ h # <<>> /\ h[Len(h)].newStage = s
  BY <1>1, RowsWhole DEF Chained, Relationship
<1>3. Len(h) \in DOMAIN h /\ h[Len(h)] \in HistoryEntry BY <1>2
<1>4. PICK e : e = h[Len(h)] OBVIOUS
<1>5. e.previousStage \in WorkflowStages \cup {None}
      /\ e = [previousStage |-> e.previousStage, newStage |-> s]
  BY <1>2, <1>3, <1>4, WorkflowAssumption DEF HistoryEntry
<1>6. x \in TransitionIds(Rows, e.previousStage, s)
  BY <1>1, <1>3, <1>4, <1>5, RowsWhole DEF TransitionIds
<1> QED BY <1>5, <1>6

(* A relationship that left a stage had reached it.                        *)
LEMMA LeftWasReached ==
    ASSUME IInv, NEW s \in WorkflowStages, NEW t
    PROVE  TransitionIds(Rows, s, t) \subseteq ReachedIds(Rows, s)
<1> SUFFICES ASSUME NEW x \in Ids, NEW n \in DOMAIN Rows[x].stageHistory,
                    Rows[x].stageHistory[n] = [previousStage |-> s, newStage |-> t]
             PROVE  x \in ReachedIds(Rows, s)
  BY RowsWhole DEF TransitionIds
<1>1. PICK h : h = Rows[x].stageHistory OBVIOUS
<1>2. h \in Seq(HistoryEntry) /\ h[1].previousStage = None
      /\ \A m \in 2..Len(h) : h[m].previousStage = h[m - 1].newStage
  BY <1>1, RowsWhole DEF Chained, Relationship
<1>3. h[n].previousStage = s BY <1>1
<1>4. n \in 1..Len(h) /\ Len(h) \in Nat BY <1>1, <1>2
<1>5. n # 1 BY <1>2, <1>3, WorkflowAssumption
<1>6. n \in 2..Len(h) /\ n - 1 \in 1..Len(h) BY <1>4, <1>5
<1>7. h[n - 1].newStage = s /\ n - 1 \in DOMAIN h BY <1>2, <1>3, <1>4, <1>6
<1> QED BY <1>1, <1>7, RowsWhole DEF ReachedIds

(* The figures of a snapshot agree with each other, whatever relationships *)
(* there are, however many requests run at the same time and whatever they *)
(* overwrite: the histories that are left are chained, and that is enough. *)
THEOREM FunnelsAddUp == ReadersSpec => []FunnelAddsUp
<1>1. IInv /\ IsFiniteSet(Ids) /\ IsFiniteSet(Entries) => FunnelAddsUp
  <2> SUFFICES ASSUME IInv, IsFiniteSet(Ids), IsFiniteSet(Entries) PROVE FunnelAddsUp OBVIOUS
  <2>1. ASSUME NEW p \in ConversionPairs
        PROVE  TransitionIds(Rows, p[1], p[2]) \subseteq ReachedIds(Rows, p[1])
    <3>1. p[1] \in WorkflowStages
      <4>1. PICK n \in 1..(Len(StageOrder) - 1) : p = <<StageOrder[n], StageOrder[n + 1]>>
        BY DEF ConversionPairs
      <4>2. Len(StageOrder) = 9 BY DEF StageOrder
      <4>3. p[1] = StageOrder[n] BY <4>1
      <4>4. n \in {1, 2, 3, 4, 5, 6, 7, 8} BY <4>2
      <4>5. /\ StageOrder[1] \in WorkflowStages /\ StageOrder[2] \in WorkflowStages
            /\ StageOrder[3] \in WorkflowStages /\ StageOrder[4] \in WorkflowStages
            /\ StageOrder[5] \in WorkflowStages /\ StageOrder[6] \in WorkflowStages
            /\ StageOrder[7] \in WorkflowStages /\ StageOrder[8] \in WorkflowStages
        BY DEF StageOrder, WorkflowStages
      <4> QED BY <4>3, <4>4, <4>5
    <3> QED BY <3>1, LeftWasReached
  <2> QED BY <2>1, BoardsHold, StagesEntered, StaysEnd DEF FunnelAddsUp
<1> QED BY <1>1, ReadersInvariance, FinitelyMany, PTL

-----------------------------------------------------------------------------
(* A draft names a stage there was.                                        *)

(* No row goes away or changes its pair.                                   *)
LEMMA RowsRemain ==
    ASSUME IInv, [Next]_vars
    PROVE  RowsStay
<1>1. CASE relationships' = relationships BY <1>1 DEF RowsStay, Exists
<1>2. ASSUME NEW r \in Requests, NEW x \in Relationships, Insert(r, x) PROVE RowsStay
  BY <1>2 DEF Insert, RowsStay, Exists, IInv, TypeOK
<1>3. ASSUME NEW r \in Requests, Save(r) PROVE RowsStay
  <2>1. PICK c : c = request[r] OBVIOUS
  <2>2. c # None /\ c.at = "save" /\ relationships' = [relationships EXCEPT ![c.rel] = c.row]
    BY <1>3, <2>1 DEF Save, At
  <2>3. CallOK(c) BY <2>1, <2>2 DEF IInv, CallsOK
  <2>4. /\ c.row # None /\ relationships[c.rel].pair = c.row.pair
    BY <2>2, <2>3, WorkflowAssumption DEF CallOK
  <2> QED BY <2>2, <2>4 DEF RowsStay, Exists, IInv, TypeOK
<1> QED BY <1>1, <1>2, <1>3, RowsChange

(* The relationship of the pair has been in the stage.                     *)
BeenIn(x, pair, stage) ==
    /\ Exists(x) /\ relationships[x].pair = pair
    /\ \E n \in DOMAIN relationships[x].stageHistory :
          relationships[x].stageHistory[n].newStage = stage
OnceIn(pair, stage) == \E x \in Relationships : BeenIn(x, pair, stage)

(* The log of a row holds the stages of its history.                       *)
Logged(x) ==
    /\ LogOf[x] \in Seq(Stages) \ {<<>>}
    /\ DOMAIN relationships[x].stageHistory = 1..Len(LogOf[x])
    /\ \A n \in 1..Len(LogOf[x]) : relationships[x].stageHistory[n].newStage = LogOf[x][n]
    /\ LogOf[x][Len(LogOf[x])] = relationships[x].currentStage
AllLogged == \A x \in Relationships : Exists(x) => Logged(x)

LEMMA LogsHold == IInv => AllLogged
<1> SUFFICES ASSUME IInv, NEW x \in Relationships, Exists(x) PROVE Logged(x) BY DEF AllLogged
<1>1. PICK h : h = relationships[x].stageHistory OBVIOUS
<1>2. h \in Seq(HistoryEntry) /\ h # <<>> /\ h[Len(h)].newStage = relationships[x].currentStage
  BY <1>1 DEF IInv, TypeOK, Exists, HistoryChained, Chained, Relationship
<1>3. LogOf[x] = StagesOf(h) BY <1>1 DEF LogOf
<1>4. PICK s : s = StagesOf(h) OBVIOUS
<1>5. s \in Seq(Stages) /\ Len(s) = Len(h) /\ \A n \in 1..Len(h) : s[n] = h[n].newStage
  BY <1>2, <1>4, StagesOfHistory
<1>6. Len(h) \in 1..Len(h) /\ DOMAIN h = 1..Len(h) BY <1>2
<1>7. s # <<>> BY <1>5, <1>6
<1> QED BY <1>1, <1>2, <1>3, <1>4, <1>5, <1>6, <1>7 DEF Logged

(* While one handler at a time changes relationships, a log only grows.    *)
LEMMA LogGrows ==
    ASSUME NEW r, Requests = {r}, IInv, IInv', SerialRow(r), [Next]_vars,
           NEW x \in Relationships, Exists(x), NEW n \in 1..Len(LogOf[x])
    PROVE  Exists(x)' /\ n \in 1..Len(LogOf'[x]) /\ LogOf'[x][n] = LogOf[x][n]
<1>1. LogOf[x] \in Seq(Stages) \ {<<>>} BY LogsHold DEF AllLogged, Logged
<1>2. Exists(x)' BY RowsRemain DEF RowsStay
<1>3. [Log!Next]_<<LogOf, OwnerOf>> BY StepOfLog
<1>4. CASE LogOf' = LogOf BY <1>2, <1>4
<1>5. ASSUME NEW y \in Relationships, NEW stage \in Stages, Log!Open(y, stage)
      PROVE  LogOf'[x] = LogOf[x]
  BY <1>1, <1>5 DEF Log!Open, LogOf
<1>6. ASSUME NEW y \in Relationships, NEW stage \in Stages, Log!Move(y, stage)
      PROVE  LogOf'[x] = IF x = y THEN Append(LogOf[x], stage) ELSE LogOf[x]
  BY <1>6 DEF Log!Move, LogOf
<1>7. ASSUME NEW y, NEW a, Log!Assign(y, a) PROVE LogOf' = LogOf BY <1>7 DEF Log!Assign, LogOf
<1>8. ASSUME NEW stage \in Stages, LogOf'[x] = Append(LogOf[x], stage)
      PROVE  n \in 1..Len(LogOf'[x]) /\ LogOf'[x][n] = LogOf[x][n]
  <2>1. PICK s, t : s = LogOf[x] /\ t = Append(s, stage) OBVIOUS
  <2>2. s \in Seq(Stages) /\ n \in 1..Len(s) BY <1>1, <2>1
  <2>3. n \in 1..Len(t) /\ t[n] = s[n] BY <2>1, <2>2
  <2> QED BY <1>8, <2>1, <2>3
<1> QED BY <1>2, <1>3, <1>4, <1>5, <1>6, <1>7, <1>8 DEF Log!Next

LEMMA OnceInStays ==
    ASSUME NEW r, Requests = {r}, IInv, IInv', SerialRow(r), [Next]_vars,
           NEW pair, NEW stage, OnceIn(pair, stage)
    PROVE  OnceIn(pair, stage)'
<1>1. PICK x \in Relationships : BeenIn(x, pair, stage) BY DEF OnceIn
<1>2. Exists(x) /\ relationships[x].pair = pair BY <1>1 DEF BeenIn
<1>3. PICK n \in 1..Len(LogOf[x]) : LogOf[x][n] = stage
  BY <1>1, <1>2, LogsHold DEF BeenIn, AllLogged, Logged
<1>4. Exists(x)' /\ n \in 1..Len(LogOf'[x]) /\ LogOf'[x][n] = stage BY <1>2, <1>3, LogGrows
<1>5. relationships'[x].pair = pair BY <1>2, RowsRemain DEF RowsStay
<1>6. /\ DOMAIN relationships'[x].stageHistory = 1..Len(LogOf'[x])
      /\ \A m \in 1..Len(LogOf'[x]) : relationships'[x].stageHistory[m].newStage = LogOf'[x][m]
  <2>1. AllLogged' BY LogsHold, PTL
  <2> QED BY <1>4, <2>1 DEF AllLogged, Logged
<1>7. relationships'[x].stageHistory[n].newStage = stage BY <1>4, <1>6
<1>8. BeenIn(x, pair, stage)' BY <1>4, <1>5, <1>6, <1>7 DEF BeenIn
<1> QED BY <1>8 DEF OnceIn

(* What a call and a response hold: the pair asked for and a stage it has  *)
(* been in.                                                                *)
Asked == [action: CopilotAction, pair: Pairs, at: {"job", "reason"},
          relationshipStage: Stages \cup {None}]
Evidenced(c) == c.relationshipStage # None => OnceIn(c.pair, c.relationshipStage)
AnswersTrue ==
    /\ copilot # None => copilot \in Asked /\ Evidenced(copilot)
    /\ response # None => Evidenced(response)

LEMMA StageRead ==
    ASSUME IInv, NEW pair, StageOf(pair) # None
    PROVE  OnceIn(pair, StageOf(pair))
<1>1. PICK of : of = {x \in Relationships : Exists(x) /\ relationships[x].pair = pair} OBVIOUS
<1>2. of # {} BY <1>1 DEF StageOf
<1>3. PICK x : x = CHOOSE y \in of : TRUE OBVIOUS
<1>4. x \in of BY <1>2, <1>3
<1>5. StageOf(pair) = relationships[x].currentStage BY <1>1, <1>2, <1>3 DEF StageOf
<1>6. x \in Relationships /\ Logged(x) BY <1>1, <1>4, LogsHold DEF AllLogged
<1>7. Len(LogOf[x]) \in 1..Len(LogOf[x])
  <2>1. PICK s : s = LogOf[x] OBVIOUS
  <2>2. s \in Seq(Stages) \ {<<>>} BY <1>6, <2>1 DEF Logged
  <2>3. Len(s) \in 1..Len(s) BY <2>2
  <2> QED BY <2>1, <2>3
<1>8. BeenIn(x, pair, StageOf(pair)) BY <1>1, <1>4, <1>5, <1>6, <1>7 DEF BeenIn, Logged
<1> QED BY <1>6, <1>8 DEF OnceIn

LEMMA StageReadType == ASSUME IInv, NEW pair PROVE StageOf(pair) \in Stages \cup {None}
<1>1. PICK of : of = {x \in Relationships : Exists(x) /\ relationships[x].pair = pair} OBVIOUS
<1>2. CASE of = {} BY <1>1, <1>2 DEF StageOf
<1>3. CASE of # {}
  <2>1. PICK x : x = CHOOSE y \in of : TRUE OBVIOUS
  <2>2. x \in of BY <1>3, <2>1
  <2>3. StageOf(pair) = relationships[x].currentStage BY <1>1, <1>3, <2>1 DEF StageOf
  <2> QED BY <1>1, <2>2, <2>3 DEF IInv, TypeOK, Exists, Relationship
<1> QED BY <1>2, <1>3

LEMMA AskKeeps ==
    ASSUME IInv, AnswersTrue, NEW pair \in Pairs,
           \/ explainMatch(pair) \/ summarizeCandidate(pair) \/ summarizeJob(pair)
           \/ draftOutreach(pair) \/ suggestInterviewQuestions(pair)
    PROVE  AnswersTrue'
<1>1. PICK action \in CopilotAction, stage \in {None, StageOf(pair)}, at \in {"job", "reason"} :
          Ask(action, pair, stage, at)
  BY DEF explainMatch, summarizeCandidate, summarizeJob, draftOutreach,
         suggestInterviewQuestions, CopilotAction
<1>2. PICK c : c = [action |-> action, pair |-> pair, at |-> at, relationshipStage |-> stage]
  OBVIOUS
<1>3. c.pair = pair /\ c.relationshipStage = stage BY <1>2
<1>4. c \in Asked BY <1>2, StageReadType DEF Asked
<1>5. stage # None => OnceIn(pair, stage) BY StageRead
<1>6. copilot' = c /\ response' = response /\ relationships' = relationships
  BY <1>1, <1>2 DEF Ask, vars, stores
<1>7. \A p, s : OnceIn(p, s)' <=> OnceIn(p, s) BY <1>6 DEF OnceIn, BeenIn, Exists
<1>8. Evidenced(copilot)' BY <1>3, <1>5, <1>6, <1>7 DEF Evidenced
<1>9. response # None => Evidenced(response)' BY <1>6, <1>7 DEF Evidenced, AnswersTrue
<1> QED BY <1>4, <1>6, <1>8, <1>9 DEF AnswersTrue

LEMMA AnswerKeeps ==
    ASSUME IInv, AnswersTrue, FindJob \/ LoseJob \/ FailReasoning \/ Respond
    PROVE  AnswersTrue'
<1>1. copilot # None /\ copilot \in Asked /\ Evidenced(copilot)
  BY DEF FindJob, LoseJob, FailReasoning, Respond, AnswersTrue
<1>2. relationships' = relationships
  BY DEF FindJob, LoseJob, FailReasoning, Respond, allVars, vars, stores
<1>3. \A p, s : OnceIn(p, s)' <=> OnceIn(p, s) BY <1>2 DEF OnceIn, BeenIn, Exists
<1>4. CASE FindJob
  <2>1. PICK c : c = [copilot EXCEPT !.at = "reason"] OBVIOUS
  <2>2. c \in Asked /\ c.pair = copilot.pair /\ c.relationshipStage = copilot.relationshipStage
    BY <1>1, <2>1 DEF Asked
  <2>3. copilot' = c /\ response' = response BY <1>4, <2>1 DEF FindJob
  <2>4. Evidenced(copilot)' BY <1>1, <1>3, <2>2, <2>3 DEF Evidenced
  <2>5. response # None => Evidenced(response)' BY <1>3, <2>3 DEF Evidenced, AnswersTrue
  <2> QED BY <2>2, <2>3, <2>4, <2>5 DEF AnswersTrue
<1>5. CASE LoseJob \/ FailReasoning
  <2>1. copilot' = None /\ response' = response BY <1>5 DEF LoseJob, FailReasoning
  <2>2. response # None => Evidenced(response)' BY <1>3, <2>1 DEF Evidenced, AnswersTrue
  <2> QED BY <2>1, <2>2 DEF AnswersTrue
<1>6. CASE Respond
  <2>1. PICK c : c = [action |-> copilot.action, pair |-> copilot.pair,
                      relationshipStage |-> copilot.relationshipStage] OBVIOUS
  <2>2. c.pair = copilot.pair /\ c.relationshipStage = copilot.relationshipStage BY <2>1
  <2>3. copilot' = None /\ response' = c BY <1>6, <2>1 DEF Respond
  <2>4. Evidenced(response)' BY <1>1, <1>3, <2>2, <2>3 DEF Evidenced
  <2> QED BY <2>3, <2>4 DEF AnswersTrue
<1> QED BY <1>4, <1>5, <1>6

(* The workflow goes on and the stage stays in the history.                *)
LEMMA WorkflowKeeps ==
    ASSUME NEW r, Requests = {r}, IInv, IInv', SerialRow(r), [Next]_vars, AnswersTrue,
           UNCHANGED copilotVars
    PROVE  AnswersTrue'
<1>1. copilot' = copilot /\ response' = response BY DEF copilotVars
<1>2. \A p, s : OnceIn(p, s) => OnceIn(p, s)' BY OnceInStays
<1>3. copilot # None => Evidenced(copilot)' BY <1>1, <1>2 DEF AnswersTrue, Evidenced
<1>4. response # None => Evidenced(response)' BY <1>1, <1>2 DEF AnswersTrue, Evidenced
<1> QED BY <1>1, <1>3, <1>4 DEF AnswersTrue

(* Every stage a draft was written for stays in the history of the         *)
(* relationship, over any number of moves between the read and the answer, *)
(* while one handler at a time changes relationships.                      *)
THEOREM DraftsStayTrue ==
    ASSUME NEW r, Requests = {r}
    PROVE  ReadersSpec => []DraftsTrue
<1>1. r \in Requests OBVIOUS
<1>2. ReadersInit => AnswersTrue /\ SerialRow(r)
  BY <1>1 DEF ReadersInit, AnalyticsInit, Init, SerialRow, AnswersTrue
<1>3. IInv /\ SerialRow(r) /\ [ReadersNext]_readersVars => SerialRow(r)'
  BY ReadersStep, SerialRowStays
<1>4. IInv /\ IInv' /\ SerialRow(r) /\ AnswersTrue /\ [ReadersNext]_readersVars => AnswersTrue'
  <2> SUFFICES ASSUME IInv, IInv', SerialRow(r), AnswersTrue, [ReadersNext]_readersVars
               PROVE  AnswersTrue'
    OBVIOUS
  <2>1. [Next]_vars BY ReadersStep
  <2>2. CASE UNCHANGED copilotVars BY <2>1, <2>2, WorkflowKeeps
  <2>3. ASSUME NEW pair \in Pairs,
               \/ explainMatch(pair) \/ summarizeCandidate(pair) \/ summarizeJob(pair)
               \/ draftOutreach(pair) \/ suggestInterviewQuestions(pair)
        PROVE  AnswersTrue'
    BY <2>3, AskKeeps
  <2>4. CASE FindJob \/ LoseJob \/ FailReasoning \/ Respond BY <2>4, AnswerKeeps
  <2>5. \/ UNCHANGED copilotVars
        \/ \E pair \in Pairs :
              \/ explainMatch(pair) \/ summarizeCandidate(pair) \/ summarizeJob(pair)
              \/ draftOutreach(pair) \/ suggestInterviewQuestions(pair)
        \/ FindJob \/ LoseJob \/ FailReasoning \/ Respond
    BY DEF ReadersNext, readersVars
  <2> QED BY <2>2, <2>3, <2>4, <2>5
<1>5. AnswersTrue => DraftsTrue
  BY DEF AnswersTrue, Evidenced, OnceIn, BeenIn, DraftsTrue
<1> QED BY <1>2, <1>3, <1>4, <1>5, ReadersInvariance, PTL DEF ReadersSpec

-----------------------------------------------------------------------------
(* Match scores.                                                           *)

(* Products of natural numbers keep an order, and lose it to no factor.    *)
LEMMA Times ==
    ASSUME NEW a \in Nat, NEW b \in Nat, NEW c \in Nat
    PROVE  a * b \in Nat /\ (a <= b => a * c <= b * c) /\ (a < b /\ c # 0 => a * c < b * c)
<1>1. a * b \in Nat OBVIOUS
<1>2. a <= b => a * c <= b * c BY Z3
<1>3. a < b /\ c # 0 => a * c < b * c BY Z3
<1> QED BY <1>1, <1>2, <1>3

(* Evidence is a fraction between 0 and 1.                                 *)
Fraction(e) == e = <<e[1], e[2]>> /\ e[1] \in Nat /\ e[2] \in Nat \ {0} /\ e[1] <= e[2]

LEMMA SkillsFraction ==
    ASSUME NEW S \in SUBSET Skills, NEW T \in SUBSET Skills
    PROVE  Fraction(SkillsScore(S, T))
<1>1. CASE S = {} BY <1>1 DEF SkillsScore, Full, Fraction
<1>2. CASE S # {}
  <2>1. IsFiniteSet(S) BY FS_Subset, MatchingAssumption
  <2>2. IsFiniteSet(S \cap T) /\ Cardinality(S \cap T) <= Cardinality(S)
    <3>1. S \cap T \in SUBSET S OBVIOUS
    <3> QED BY <2>1, <3>1, FS_Subset
  <2>3. Cardinality(S) \in Nat \ {0} /\ Cardinality(S \cap T) \in Nat
    BY <1>2, <2>1, <2>2, FS_CardinalityType, FS_EmptySet
  <2>4. PICK n, d : n = Cardinality(S \cap T) /\ d = Cardinality(S) OBVIOUS
  <2>5. SkillsScore(S, T) = <<n, d>> BY <1>2, <2>4 DEF SkillsScore
  <2> QED BY <2>2, <2>3, <2>4, <2>5 DEF Fraction
<1> QED BY <1>1, <1>2

LEMMA ExperienceFraction ==
    ASSUME NEW required \in Years \cup {Null}, NEW actual \in Years \cup {Null}
    PROVE  Fraction(ExperienceScore(required, actual))
<1>1. required # Null => required \in Nat \ {0} BY MatchingAssumption
<1>2. actual # Null => actual \in Nat \ {0} BY MatchingAssumption
<1>3. CASE required = Null BY <1>3 DEF ExperienceScore, Full, Fraction
<1>4. CASE required # Null /\ actual = Null BY <1>4 DEF ExperienceScore, Fraction
<1>5. CASE required # Null /\ actual # Null
  BY <1>1, <1>2, <1>5 DEF ExperienceScore, Full, Fraction
<1> QED BY <1>3, <1>4, <1>5

LEMMA Ranks ==
    /\ EnglishLevels = {"a1", "a2", "b1", "b2", "c1", "c2", "fluent", "native", "unknown"}
    /\ EnglishRank["a1"] = 1 /\ EnglishRank["a2"] = 2 /\ EnglishRank["b1"] = 3
    /\ EnglishRank["b2"] = 4 /\ EnglishRank["c1"] = 5 /\ EnglishRank["c2"] = 6
    /\ EnglishRank["fluent"] = 5 /\ EnglishRank["native"] = 6 /\ EnglishRank["unknown"] = 0
BY DEF EnglishLevels, EnglishRank

LEMMA EnglishFraction ==
    ASSUME NEW required \in EnglishLevels, NEW actual \in EnglishLevels
    PROVE  Fraction(EnglishScore(required, actual))
<1>1. PICK req, act : req = EnglishRank[required] /\ act = EnglishRank[actual] OBVIOUS
<1>2. req \in Nat /\ act \in Nat BY <1>1, Ranks
<1>3. EnglishScore(required, actual) =
          CASE act >= req -> Full
            [] act < req /\ act = 0 -> <<1, 5>>
            [] act < req /\ act # 0 -> <<act, req>>
  BY <1>1 DEF EnglishScore
<1>4. CASE act >= req BY <1>2, <1>3, <1>4 DEF Full, Fraction
<1>5. CASE act < req /\ act = 0 BY <1>2, <1>3, <1>5 DEF Fraction
<1>6. CASE act < req /\ act # 0 BY <1>2, <1>3, <1>6 DEF Fraction
<1> QED BY <1>2, <1>4, <1>5, <1>6

LEMMA SalaryFraction ==
    ASSUME NEW expected, NEW min, NEW max
    PROVE  Fraction(SalaryScore(expected, min, max))
<1>1. SalaryScore(expected, min, max) \in {Full, <<3, 10>>, <<2, 5>>, <<4, 5>>}
  <2>1. CASE min = Null /\ max = Null BY <2>1 DEF SalaryScore
  <2>2. CASE (min # Null \/ max # Null) /\ expected = Null BY <2>2 DEF SalaryScore
  <2>3. CASE (min # Null \/ max # Null) /\ expected # Null BY <2>3 DEF SalaryScore
  <2> QED BY <2>1, <2>2, <2>3
<1>2. Fraction(Full) /\ Fraction(<<3, 10>>) /\ Fraction(<<2, 5>>) /\ Fraction(<<4, 5>>)
  BY DEF Full, Fraction
<1> QED BY <1>1, <1>2

(* Math.round is between what it rounds and a half more or less.           *)
LEMMA Rounds ==
    ASSUME NEW N \in Nat, NEW D \in Nat \ {0}
    PROVE  /\ Rounded(<<N, D>>) \in Nat
           /\ (2 * D) * Rounded(<<N, D>>) <= 2 * N + D
           /\ 2 * N + D < (2 * D) * (Rounded(<<N, D>>) + 1)
<1>1. PICK a, b : a = 2 * N + D /\ b = 2 * D OBVIOUS
<1>2. a \in Nat /\ b \in Nat \ {0} BY <1>1
<1>3. PICK q : q = a \div b OBVIOUS
<1>4. q \in Int /\ b * q <= a /\ a < b * (q + 1) BY <1>2, <1>3, Z3
<1>5. q >= 0
  <2> SUFFICES ASSUME q < 0 PROVE FALSE BY <1>4
  <2>1. PICK p \in Nat : q + 1 = 0 - p BY <1>4
  <2>2. b * (q + 1) = 0 - b * p BY <1>2, <2>1, Z3
  <2>3. b * p \in Nat BY <1>2, <2>1
  <2> QED BY <1>2, <1>4, <2>2, <2>3
<1>6. Rounded(<<N, D>>) = q BY <1>1, <1>3 DEF Rounded
<1> QED BY <1>1, <1>4, <1>5, <1>6

(* A score is a percentage.                                                *)
LEMMA RoundedBounded ==
    ASSUME NEW N \in Nat, NEW D \in Nat \ {0}, N <= 100 * D
    PROVE  Rounded(<<N, D>>) \in 0..100
<1>1. PICK r : r = Rounded(<<N, D>>) OBVIOUS
<1>2. r \in Nat /\ (2 * D) * r <= 2 * N + D BY <1>1, Rounds
<1>3. ASSUME r >= 101 PROVE FALSE
  <2>1. 2 * D \in Nat BY Z3
  <2>2. 101 * (2 * D) <= r * (2 * D) BY <1>2, <1>3, <2>1, Times
  <2>3. r * (2 * D) = (2 * D) * r BY <1>2, <2>1
  <2> QED BY <1>2, <2>2, <2>3
<1> QED BY <1>1, <1>2, <1>3

(* A greater fraction rounds to no less.                                   *)
LEMMA RoundedMonotone ==
    ASSUME NEW N \in Nat, NEW D \in Nat \ {0}, NEW M \in Nat, NEW E \in Nat \ {0},
           N * E <= M * D
    PROVE  Rounded(<<N, D>>) <= Rounded(<<M, E>>)
<1>1. PICK p, q : p = Rounded(<<N, D>>) /\ q = Rounded(<<M, E>>) OBVIOUS
<1>2. p \in Nat /\ (2 * D) * p <= 2 * N + D BY <1>1, Rounds
<1>3. q \in Nat /\ 2 * M + E < (2 * E) * (q + 1) BY <1>1, Rounds
<1> SUFFICES ASSUME q + 1 <= p PROVE FALSE BY <1>1, <1>2, <1>3
<1>4. (2 * E) * (q + 1) <= (2 * E) * p
  <2>1. 2 * E \in Nat BY Z3
  <2>2. (q + 1) * (2 * E) <= p * (2 * E) BY <1>2, <1>3, <2>1, Times
  <2> QED BY <1>2, <1>3, <2>1, <2>2
<1>5. 2 * M + E < (2 * E) * p BY <1>2, <1>3, <1>4
<1>6. (2 * M + E) * D < ((2 * E) * p) * D
  <2>1. 2 * M + E \in Nat /\ (2 * E) * p \in Nat BY <1>2
  <2> QED BY <1>5, <2>1, Times
<1>7. ((2 * D) * p) * E <= (2 * N + D) * E
  <2>1. 2 * N + D \in Nat /\ (2 * D) * p \in Nat BY <1>2
  <2> QED BY <1>2, <2>1, Times
<1>8. ((2 * E) * p) * D = ((2 * D) * p) * E BY <1>2, Z3
<1>9. (2 * M + E) * D = 2 * (M * D) + E * D /\ (2 * N + D) * E = 2 * (N * E) + E * D BY Z3
<1>10. PICK a, b, c \in Nat : a = M * D /\ b = N * E /\ c = E * D
  <2>1. M * D \in Nat /\ N * E \in Nat /\ E * D \in Nat OBVIOUS
  <2> QED BY <2>1
<1>11. PICK u, v : u = ((2 * E) * p) * D /\ v = ((2 * D) * p) * E OBVIOUS
<1>12. u \in Nat /\ u = v BY <1>2, <1>8, <1>11
<1>13. 2 * a + c < u /\ v <= 2 * b + c /\ b <= a BY <1>6, <1>7, <1>9, <1>10, <1>11
<1> QED BY <1>12, <1>13

(* The weighted sum is a percentage of its denominator.                    *)
LEMMA OverallFraction ==
    ASSUME NEW c \in MatchingCandidateInput, NEW j \in MatchingJobInput
    PROVE  \E N \in Nat, D \in Nat \ {0} : Overall(c, j) = <<N, D>> /\ N <= 100 * D
<1>1. PICK s, x, e, m :
          /\ s = SkillsScore(j.skills, c.skills)
          /\ x = ExperienceScore(j.experienceYears, c.yearsOfExperience)
          /\ e = EnglishScore(j.englishRequirement, c.englishLevel)
          /\ m = SalaryScore(c.expectedSalary, j.salaryMin, j.salaryMax)
  OBVIOUS
<1>2. Fraction(s) /\ Fraction(x) /\ Fraction(e) /\ Fraction(m)
  BY <1>1, SkillsFraction, ExperienceFraction, EnglishFraction, SalaryFraction
  DEF MatchingCandidateInput, MatchingJobInput
<1>3. PICK s1, x1, e1, m1 \in Nat : s1 = s[1] /\ x1 = x[1] /\ e1 = e[1] /\ m1 = m[1]
  BY <1>2 DEF Fraction
<1>4. PICK s2, x2, e2, m2 \in Nat \ {0} : s2 = s[2] /\ x2 = x[2] /\ e2 = e[2] /\ m2 = m[2]
  BY <1>2 DEF Fraction
<1>5. s1 <= s2 /\ x1 <= x2 /\ e1 <= e2 /\ m1 <= m2 BY <1>2, <1>3, <1>4 DEF Fraction
<1>6. PICK D : D = s2 * x2 * e2 * m2 OBVIOUS
<1>7. D \in Nat \ {0}
  <2>1. s2 * x2 \in Nat \ {0} BY Z3
  <2>2. s2 * x2 * e2 \in Nat \ {0} BY <2>1, Z3
  <2> QED BY <1>6, <2>2, Z3
<1>8. PICK a, b, f, g : /\ a = s1 * (x2 * e2 * m2) /\ b = x1 * (s2 * e2 * m2)
                        /\ f = e1 * (s2 * x2 * m2) /\ g = m1 * (s2 * x2 * e2) OBVIOUS
<1>9. x2 * e2 * m2 \in Nat /\ s2 * e2 * m2 \in Nat /\ s2 * x2 * m2 \in Nat /\ s2 * x2 * e2 \in Nat
  OBVIOUS
<1>10. a \in Nat /\ b \in Nat /\ f \in Nat /\ g \in Nat BY <1>8, <1>9
<1>11. /\ a <= s2 * (x2 * e2 * m2) /\ b <= x2 * (s2 * e2 * m2)
       /\ f <= e2 * (s2 * x2 * m2) /\ g <= m2 * (s2 * x2 * e2)
  BY <1>5, <1>8, <1>9, Times
<1>12. /\ s2 * (x2 * e2 * m2) = D /\ x2 * (s2 * e2 * m2) = D
       /\ e2 * (s2 * x2 * m2) = D /\ m2 * (s2 * x2 * e2) = D
  BY <1>6, Z3
<1>13. PICK N : N = 60 * a + 20 * b + 10 * f + 10 * g OBVIOUS
<1>14. N \in Nat /\ N <= 100 * D BY <1>7, <1>10, <1>11, <1>12, <1>13
<1>15. Overall(c, j) =
           <<60 * s1 * x2 * e2 * m2 + 20 * x1 * s2 * e2 * m2
               + 10 * e1 * s2 * x2 * m2 + 10 * m1 * s2 * x2 * e2, s2 * x2 * e2 * m2>>
  BY <1>1, <1>3, <1>4 DEF Overall, Weights
<1>16. /\ 60 * s1 * x2 * e2 * m2 = 60 * a /\ 20 * x1 * s2 * e2 * m2 = 20 * b
       /\ 10 * e1 * s2 * x2 * m2 = 10 * f /\ 10 * m1 * s2 * x2 * e2 = 10 * g
  BY <1>8, Z3
<1>17. Overall(c, j) = <<N, D>> BY <1>6, <1>13, <1>15, <1>16
<1> QED BY <1>7, <1>14, <1>17

LEMMA ScoresArePercentages == Scores \subseteq 0..100
<1> SUFFICES ASSUME NEW c \in MatchingCandidateInput, NEW j \in MatchingJobInput,
                    NEW score \in ScoresOf(c, j)
             PROVE  score \in 0..100
  BY DEF Scores
<1>1. PICK N \in Nat, D \in Nat \ {0} : Overall(c, j) = <<N, D>> /\ N <= 100 * D
  BY OverallFraction
<1>2. PICK n : n = Rounded(<<N, D>>) OBVIOUS
<1>3. n \in 0..100 BY <1>1, <1>2, RoundedBounded
<1>4. score = n \/ (score = n - 1 /\ 2 * N = (2 * n - 1) * D) BY <1>1, <1>2 DEF ScoresOf
<1>5. ASSUME n = 0, 2 * N = (2 * n - 1) * D PROVE FALSE
  <2>1. (2 * n - 1) * D = 0 - D BY <1>5
  <2> QED BY <1>5, <2>1
<1> QED BY <1>3, <1>4, <1>5

LEMMA OneBucket ==
    ASSUME NEW buckets \in Placements
    PROVE  \E b \in 1..4 : buckets = {b}
<1>1. PICK score \in 0..100 : buckets = BucketsOf(score)
  BY ScoresArePercentages DEF Placements
<1>2. DOMAIN MatchScoreBuckets = {1, 2, 3, 4} BY DEF MatchScoreBuckets
<1>3. /\ InBucket(score, 1) <=> 0 <= score /\ score <= 39
      /\ InBucket(score, 2) <=> 40 <= score /\ score <= 59
      /\ InBucket(score, 3) <=> 60 <= score /\ score <= 79
      /\ InBucket(score, 4) <=> 80 <= score /\ score <= 100
  BY DEF InBucket, MatchScoreBuckets
<1>4. buckets = {b \in {1, 2, 3, 4} : InBucket(score, b)} BY <1>1, <1>2 DEF BucketsOf
<1>5. CASE score <= 39
  <2>1. buckets = {1} BY <1>3, <1>4, <1>5
  <2> QED BY <2>1
<1>6. CASE 40 <= score /\ score <= 59
  <2>1. buckets = {2} BY <1>3, <1>4, <1>6
  <2> QED BY <2>1
<1>7. CASE 60 <= score /\ score <= 79
  <2>1. buckets = {3} BY <1>3, <1>4, <1>7
  <2> QED BY <2>1
<1>8. CASE 80 <= score
  <2>1. buckets = {4} BY <1>3, <1>4, <1>8
  <2> QED BY <2>1
<1> QED BY <1>5, <1>6, <1>7, <1>8

(* A snapshot that counts each score it computed in one bucket.            *)
Counted(s) ==
    /\ s \in [left: SUBSET Relationships, totalComputed: Nat, counts: [1..4 -> Nat]]
    /\ s.counts[1] + s.counts[2] + s.counts[3] + s.counts[4] = s.totalComputed
AllCounted == (snapshot # None => Counted(snapshot)) /\ (report # None => Counted(report))

LEMMA MatchCounts ==
    ASSUME NEW x, AllCounted, MatchNext(x)
    PROVE  AllCounted'
<1>1. PICK old : old = snapshot OBVIOUS
<1>2. Counted(old) BY <1>1 DEF MatchNext, AllCounted
<1>3. PICK buckets \in Placements :
          snapshot' = [old EXCEPT !.left = @ \ {x}, !.totalComputed = @ + 1,
               !.counts = [b \in DOMAIN @ |-> IF b \in buckets THEN @[b] + 1 ELSE @[b]]]
  BY <1>1 DEF MatchNext
<1>4. PICK b \in 1..4 : buckets = {b} BY OneBucket
<1>5. PICK counts : counts = [i \in 1..4 |-> IF i = b THEN old.counts[i] + 1 ELSE old.counts[i]]
  OBVIOUS
<1>6. DOMAIN old.counts = 1..4 /\ \A i \in 1..4 : old.counts[i] \in Nat BY <1>2 DEF Counted
<1>7. snapshot' = [left |-> old.left \ {x}, totalComputed |-> old.totalComputed + 1,
                   counts |-> counts]
  <2>1. counts = [i \in DOMAIN old.counts |-> IF i \in buckets THEN old.counts[i] + 1
                                                               ELSE old.counts[i]]
    BY <1>4, <1>5, <1>6
  <2>2. snapshot' = [old EXCEPT !.left = @ \ {x}, !.totalComputed = @ + 1, !.counts = counts]
    BY <1>3, <2>1
  <2> QED BY <1>2, <2>2 DEF Counted
<1>8. counts \in [1..4 -> Nat] BY <1>5, <1>6
<1>9. counts[1] + counts[2] + counts[3] + counts[4] =
          old.counts[1] + old.counts[2] + old.counts[3] + old.counts[4] + 1
  <2>1. b = 1 \/ b = 2 \/ b = 3 \/ b = 4 OBVIOUS
  <2>2. /\ counts[1] = IF b = 1 THEN old.counts[1] + 1 ELSE old.counts[1]
        /\ counts[2] = IF b = 2 THEN old.counts[2] + 1 ELSE old.counts[2]
        /\ counts[3] = IF b = 3 THEN old.counts[3] + 1 ELSE old.counts[3]
        /\ counts[4] = IF b = 4 THEN old.counts[4] + 1 ELSE old.counts[4]
    BY <1>5
  <2>3. /\ old.counts[1] \in Nat /\ old.counts[2] \in Nat
        /\ old.counts[3] \in Nat /\ old.counts[4] \in Nat
    BY <1>6
  <2> QED BY <2>1, <2>2, <2>3
<1>10. PICK new : new = [left |-> old.left \ {x}, totalComputed |-> old.totalComputed + 1,
                         counts |-> counts] OBVIOUS
<1>11. new.counts = counts /\ new.totalComputed = old.totalComputed + 1 BY <1>10
<1>12. new \in [left: SUBSET Relationships, totalComputed: Nat, counts: [1..4 -> Nat]]
  BY <1>2, <1>8, <1>10 DEF Counted
<1>13. Counted(new) BY <1>2, <1>9, <1>11, <1>12 DEF Counted
<1>14. snapshot' = new /\ report' = report BY <1>7, <1>10 DEF MatchNext
<1> QED BY <1>13, <1>14 DEF AllCounted, Counted

LEMMA CountsHold == AllCounted /\ [ReadersNext]_readersVars => AllCounted'
<1> SUFFICES ASSUME AllCounted, [ReadersNext]_readersVars PROVE AllCounted' OBVIOUS
<1>1. CASE snapshot' = snapshot /\ report' = report BY <1>1 DEF AllCounted, Counted
<1>2. ASSUME NEW pairs, ReadRelationships(pairs) PROVE AllCounted'
  <2>1. PICK left : left = {x \in Relationships : Exists(x) /\ relationships[x].pair \in pairs}
    OBVIOUS
  <2>2. DOMAIN MatchScoreBuckets = 1..4 BY DEF MatchScoreBuckets
  <2>3. PICK new : new = [left |-> left, totalComputed |-> 0, counts |-> [b \in 1..4 |-> 0]]
    OBVIOUS
  <2>4. snapshot' = new /\ report' = report BY <1>2, <2>1, <2>2, <2>3 DEF ReadRelationships
  <2>5. Counted(new) BY <2>1, <2>3 DEF Counted
  <2> QED BY <2>4, <2>5 DEF AllCounted, Counted
<1>3. ASSUME NEW x, SkipNext(x) PROVE AllCounted'
  <2>1. PICK old : old = snapshot OBVIOUS
  <2>2. Counted(old) BY <1>3, <2>1 DEF SkipNext, AllCounted
  <2>3. PICK new : new = [old EXCEPT !.left = @ \ {x}] OBVIOUS
  <2>4. snapshot' = new /\ report' = report BY <1>3, <2>1, <2>3 DEF SkipNext
  <2>5. Counted(new) BY <2>2, <2>3 DEF Counted
  <2> QED BY <2>4, <2>5 DEF AllCounted, Counted
<1>4. CASE Return
  <2>1. report' = snapshot /\ snapshot' = None /\ snapshot # None BY <1>4 DEF Return
  <2> QED BY <2>1 DEF AllCounted, Counted
<1>5. \/ snapshot' = snapshot /\ report' = report
      \/ \E pairs : ReadRelationships(pairs)
      \/ \E x : MatchNext(x) \/ SkipNext(x)
      \/ Return
  <2>1. CASE AnalyticsNext BY <2>1 DEF AnalyticsNext, analyticsVars
  <2>2. CASE \E pair \in Pairs :
                \/ explainMatch(pair) \/ summarizeCandidate(pair) \/ summarizeJob(pair)
                \/ draftOutreach(pair) \/ suggestInterviewQuestions(pair)
    BY <2>2 DEF explainMatch, summarizeCandidate, summarizeJob, draftOutreach,
                suggestInterviewQuestions, Ask
  <2>3. CASE FindJob \/ LoseJob \/ FailReasoning \/ Respond
    BY <2>3 DEF FindJob, LoseJob, FailReasoning, Respond, allVars, analyticsVars
  <2>4. CASE UNCHANGED readersVars BY <2>4 DEF readersVars, allVars, analyticsVars
  <2> QED BY <2>1, <2>2, <2>3, <2>4 DEF ReadersNext
<1> QED BY <1>1, <1>2, <1>3, <1>4, <1>5, MatchCounts

(* The distribution of a snapshot holds each score it computed once,       *)
(* whatever candidates and jobs are matched: a score is a whole percentage *)
(* and the buckets leave no gap between them.                              *)
THEOREM ScoresArePlaced == ReadersSpec => []ScoresPlaced
<1>1. ReadersInit => AllCounted BY DEF ReadersInit, AnalyticsInit, AllCounted
<1>2. AllCounted => ScoresPlaced BY DEF AllCounted, Counted, ScoresPlaced
<1> QED BY <1>1, <1>2, CountsHold, PTL DEF ReadersSpec

(* More of one dimension is a greater sum: with n / d for it, the sum is   *)
(* (a * d + b * n) / (k * d).                                              *)
LEMMA SumGrows ==
    ASSUME NEW a \in Nat, NEW b \in Nat, NEW k \in Nat, NEW n \in Nat, NEW d \in Nat,
           NEW m \in Nat, NEW g \in Nat, n * g <= m * d
    PROVE  (a * d + b * n) * (k * g) <= (a * g + b * m) * (k * d)
<1>1. b * k \in Nat /\ n * g \in Nat /\ m * d \in Nat BY Z3
<1>2. (n * g) * (b * k) <= (m * d) * (b * k) BY <1>1, Times
<1>3. (a * d + b * n) * (k * g) = a * d * k * g + (n * g) * (b * k) BY Z3
<1>4. (a * g + b * m) * (k * d) = a * d * k * g + (m * d) * (b * k) BY Z3
<1>5. PICK u, v, w \in Nat : u = (n * g) * (b * k) /\ v = (m * d) * (b * k) /\ w = a * d * k * g
  <2>1. (n * g) * (b * k) \in Nat /\ (m * d) * (b * k) \in Nat BY <1>1
  <2>2. a * d * k * g \in Nat OBVIOUS
  <2> QED BY <2>1, <2>2
<1>6. w + u <= w + v BY <1>2, <1>5
<1> QED BY <1>3, <1>4, <1>5, <1>6

(* The sum of the evidence in the four dimensions.                         *)
Sum(s, x, e, m) ==
    <<60 * s[1] * x[2] * e[2] * m[2] + 20 * x[1] * s[2] * e[2] * m[2]
        + 10 * e[1] * s[2] * x[2] * m[2] + 10 * m[1] * s[2] * x[2] * e[2],
      s[2] * x[2] * e[2] * m[2]>>

Least(e, f) == e[1] * f[2] <= f[1] * e[2]

LEMMA SumOfSkills ==
    ASSUME NEW s, NEW t, NEW x, NEW e, NEW m, Fraction(s), Fraction(t), Fraction(x),
           Fraction(e), Fraction(m), Least(s, t)
    PROVE  Least(Sum(s, x, e, m), Sum(t, x, e, m))
<1>1. PICK s1, s2, t1, t2 \in Nat : s1 = s[1] /\ s2 = s[2] /\ t1 = t[1] /\ t2 = t[2]
  BY DEF Fraction
<1>2. PICK x1, x2, e1, e2, m1, m2 \in Nat :
          x1 = x[1] /\ x2 = x[2] /\ e1 = e[1] /\ e2 = e[2] /\ m1 = m[1] /\ m2 = m[2]
  BY DEF Fraction
<1>3. PICK a, b, k : /\ a = 20 * x1 * e2 * m2 + 10 * e1 * x2 * m2 + 10 * m1 * x2 * e2
                     /\ b = 60 * x2 * e2 * m2 /\ k = x2 * e2 * m2 OBVIOUS
<1>4. a \in Nat /\ b \in Nat /\ k \in Nat BY <1>3
<1>5. s1 * t2 <= t1 * s2 BY <1>1 DEF Least
<1>6. (a * s2 + b * s1) * (k * t2) <= (a * t2 + b * t1) * (k * s2) BY <1>4, <1>5, SumGrows
<1>7. /\ a * s2 + b * s1 = 60 * s1 * x2 * e2 * m2 + 20 * x1 * s2 * e2 * m2
                               + 10 * e1 * s2 * x2 * m2 + 10 * m1 * s2 * x2 * e2
      /\ k * s2 = s2 * x2 * e2 * m2
  BY <1>3, Z3
<1>8. /\ a * t2 + b * t1 = 60 * t1 * x2 * e2 * m2 + 20 * x1 * t2 * e2 * m2
                               + 10 * e1 * t2 * x2 * m2 + 10 * m1 * t2 * x2 * e2
      /\ k * t2 = t2 * x2 * e2 * m2
  BY <1>3, Z3
<1>9. Sum(s, x, e, m)[1] = a * s2 + b * s1 /\ Sum(s, x, e, m)[2] = k * s2
  BY <1>1, <1>2, <1>7 DEF Sum
<1>10. Sum(t, x, e, m)[1] = a * t2 + b * t1 /\ Sum(t, x, e, m)[2] = k * t2
  BY <1>1, <1>2, <1>8 DEF Sum
<1> QED BY <1>6, <1>9, <1>10 DEF Least

LEMMA SumOfExperience ==
    ASSUME NEW s, NEW x, NEW y, NEW e, NEW m, Fraction(s), Fraction(x), Fraction(y),
           Fraction(e), Fraction(m), Least(x, y)
    PROVE  Least(Sum(s, x, e, m), Sum(s, y, e, m))
<1>1. PICK x1, x2, y1, y2 \in Nat : x1 = x[1] /\ x2 = x[2] /\ y1 = y[1] /\ y2 = y[2]
  BY DEF Fraction
<1>2. PICK s1, s2, e1, e2, m1, m2 \in Nat :
          s1 = s[1] /\ s2 = s[2] /\ e1 = e[1] /\ e2 = e[2] /\ m1 = m[1] /\ m2 = m[2]
  BY DEF Fraction
<1>3. PICK a, b, k : /\ a = 60 * s1 * e2 * m2 + 10 * e1 * s2 * m2 + 10 * m1 * s2 * e2
                     /\ b = 20 * s2 * e2 * m2 /\ k = s2 * e2 * m2 OBVIOUS
<1>4. a \in Nat /\ b \in Nat /\ k \in Nat BY <1>3
<1>5. x1 * y2 <= y1 * x2 BY <1>1 DEF Least
<1>6. (a * x2 + b * x1) * (k * y2) <= (a * y2 + b * y1) * (k * x2) BY <1>4, <1>5, SumGrows
<1>7. /\ a * x2 + b * x1 = 60 * s1 * x2 * e2 * m2 + 20 * x1 * s2 * e2 * m2
                               + 10 * e1 * s2 * x2 * m2 + 10 * m1 * s2 * x2 * e2
      /\ k * x2 = s2 * x2 * e2 * m2
  BY <1>3, Z3
<1>8. /\ a * y2 + b * y1 = 60 * s1 * y2 * e2 * m2 + 20 * y1 * s2 * e2 * m2
                               + 10 * e1 * s2 * y2 * m2 + 10 * m1 * s2 * y2 * e2
      /\ k * y2 = s2 * y2 * e2 * m2
  BY <1>3, Z3
<1>9. Sum(s, x, e, m)[1] = a * x2 + b * x1 /\ Sum(s, x, e, m)[2] = k * x2
  BY <1>1, <1>2, <1>7 DEF Sum
<1>10. Sum(s, y, e, m)[1] = a * y2 + b * y1 /\ Sum(s, y, e, m)[2] = k * y2
  BY <1>1, <1>2, <1>8 DEF Sum
<1> QED BY <1>6, <1>9, <1>10 DEF Least

LEMMA SumOfEnglish ==
    ASSUME NEW s, NEW x, NEW e, NEW f, NEW m, Fraction(s), Fraction(x), Fraction(e),
           Fraction(f), Fraction(m), Least(e, f)
    PROVE  Least(Sum(s, x, e, m), Sum(s, x, f, m))
<1>1. PICK e1, e2, f1, f2 \in Nat : e1 = e[1] /\ e2 = e[2] /\ f1 = f[1] /\ f2 = f[2]
  BY DEF Fraction
<1>2. PICK s1, s2, x1, x2, m1, m2 \in Nat :
          s1 = s[1] /\ s2 = s[2] /\ x1 = x[1] /\ x2 = x[2] /\ m1 = m[1] /\ m2 = m[2]
  BY DEF Fraction
<1>3. PICK a, b, k : /\ a = 60 * s1 * x2 * m2 + 20 * x1 * s2 * m2 + 10 * m1 * s2 * x2
                     /\ b = 10 * s2 * x2 * m2 /\ k = s2 * x2 * m2 OBVIOUS
<1>4. a \in Nat /\ b \in Nat /\ k \in Nat BY <1>3
<1>5. e1 * f2 <= f1 * e2 BY <1>1 DEF Least
<1>6. (a * e2 + b * e1) * (k * f2) <= (a * f2 + b * f1) * (k * e2) BY <1>4, <1>5, SumGrows
<1>7. /\ a * e2 + b * e1 = 60 * s1 * x2 * e2 * m2 + 20 * x1 * s2 * e2 * m2
                               + 10 * e1 * s2 * x2 * m2 + 10 * m1 * s2 * x2 * e2
      /\ k * e2 = s2 * x2 * e2 * m2
  BY <1>3, Z3
<1>8. /\ a * f2 + b * f1 = 60 * s1 * x2 * f2 * m2 + 20 * x1 * s2 * f2 * m2
                               + 10 * f1 * s2 * x2 * m2 + 10 * m1 * s2 * x2 * f2
      /\ k * f2 = s2 * x2 * f2 * m2
  BY <1>3, Z3
<1>9. Sum(s, x, e, m)[1] = a * e2 + b * e1 /\ Sum(s, x, e, m)[2] = k * e2
  BY <1>1, <1>2, <1>7 DEF Sum
<1>10. Sum(s, x, f, m)[1] = a * f2 + b * f1 /\ Sum(s, x, f, m)[2] = k * f2
  BY <1>1, <1>2, <1>8 DEF Sum
<1> QED BY <1>6, <1>9, <1>10 DEF Least

(* One more skill, more years, the next level of English.                  *)
LEMMA SkillsLeast ==
    ASSUME NEW S \in SUBSET Skills, NEW T \in SUBSET Skills, NEW U \in SUBSET Skills,
           T \subseteq U
    PROVE  Least(SkillsScore(S, T), SkillsScore(S, U))
<1>1. CASE S = {} BY <1>1 DEF SkillsScore, Full, Least
<1>2. CASE S # {}
  <2>1. IsFiniteSet(S) BY FS_Subset, MatchingAssumption
  <2>2. S \cap U \in SUBSET S /\ S \cap T \in SUBSET (S \cap U) OBVIOUS
  <2>3. IsFiniteSet(S \cap U) BY <2>1, <2>2, FS_Subset
  <2>4. IsFiniteSet(S \cap T) /\ Cardinality(S \cap T) <= Cardinality(S \cap U)
    BY <2>2, <2>3, FS_Subset
  <2>5. PICK n, k, d \in Nat :
            n = Cardinality(S \cap T) /\ k = Cardinality(S \cap U) /\ d = Cardinality(S)
    BY <2>1, <2>3, <2>4, FS_CardinalityType
  <2>6. SkillsScore(S, T) = <<n, d>> /\ SkillsScore(S, U) = <<k, d>>
    BY <1>2, <2>5 DEF SkillsScore
  <2>7. n * d <= k * d BY <2>4, <2>5, Times
  <2> QED BY <2>6, <2>7 DEF Least
<1> QED BY <1>1, <1>2

LEMMA ExperienceLeast ==
    ASSUME NEW required \in Years \cup {Null}, NEW actual \in Years, NEW more \in Years,
           more > actual
    PROVE  Least(ExperienceScore(required, actual), ExperienceScore(required, more))
<1>1. /\ actual \in Nat \ {0} /\ more \in Nat \ {0} /\ actual # Null /\ more # Null
      /\ required # Null => required \in Nat \ {0}
  BY MatchingAssumption
<1>2. CASE required = Null BY <1>1, <1>2 DEF ExperienceScore, Full, Least
<1>3. CASE required # Null
  <2>1. ExperienceScore(required, actual) = IF actual >= required THEN Full ELSE <<actual, required>>
    BY <1>1, <1>3 DEF ExperienceScore
  <2>2. ExperienceScore(required, more) = IF more >= required THEN Full ELSE <<more, required>>
    BY <1>1, <1>3 DEF ExperienceScore
  <2>3. CASE actual >= required BY <1>1, <1>3, <2>1, <2>2, <2>3 DEF Full, Least
  <2>4. CASE actual < required /\ more >= required
    BY <1>1, <1>3, <2>1, <2>2, <2>4 DEF Full, Least
  <2>5. CASE actual < required /\ more < required
    <3>1. actual * required <= more * required BY <1>1, <1>3, Times
    <3> QED BY <1>1, <1>3, <2>1, <2>2, <2>5, <3>1 DEF Least
  <2> QED BY <1>1, <1>3, <2>3, <2>4, <2>5
<1> QED BY <1>2, <1>3

LEMMA NextLevel ==
    ASSUME NEW l, NEW better \in Better(l)
    PROVE  /\ l \in EnglishLevels /\ better \in EnglishLevels
           /\ EnglishRank[l] \in 1..6 /\ EnglishRank[better] \in EnglishRank[l]..6
<1>1. PICK n \in 2..7 : l = Ladder[n - 1] /\ better = Ladder[n] BY DEF Better
<1>2. n \in {2, 3, 4, 5, 6, 7} BY <1>1
<1>3. /\ Ladder[1] = "a1" /\ Ladder[2] = "a2" /\ Ladder[3] = "b1" /\ Ladder[4] = "b2"
      /\ Ladder[5] = "c1" /\ Ladder[6] = "c2" /\ Ladder[7] = "native"
  BY DEF Ladder
<1>4. CASE n = 2 BY <1>1, <1>3, <1>4, Ranks
<1>5. CASE n = 3 BY <1>1, <1>3, <1>5, Ranks
<1>6. CASE n = 4 BY <1>1, <1>3, <1>6, Ranks
<1>7. CASE n = 5 BY <1>1, <1>3, <1>7, Ranks
<1>8. CASE n = 6 BY <1>1, <1>3, <1>8, Ranks
<1>9. CASE n = 7 BY <1>1, <1>3, <1>9, Ranks
<1> QED BY <1>2, <1>4, <1>5, <1>6, <1>7, <1>8, <1>9

LEMMA EnglishLeast ==
    ASSUME NEW required \in EnglishLevels, NEW actual \in EnglishLevels,
           NEW better \in Better(actual)
    PROVE  Least(EnglishScore(required, actual), EnglishScore(required, better))
<1>1. PICK req, act, up : /\ req = EnglishRank[required] /\ act = EnglishRank[actual]
                          /\ up = EnglishRank[better] OBVIOUS
<1>2. act \in 1..6 /\ up \in act..6 BY <1>1, NextLevel
<1>3. req \in Nat BY <1>1, Ranks
<1>4. EnglishScore(required, actual) = IF act >= req THEN Full ELSE <<act, req>>
  BY <1>1, <1>2, <1>3 DEF EnglishScore
<1>5. EnglishScore(required, better) = IF up >= req THEN Full ELSE <<up, req>>
  BY <1>1, <1>2, <1>3 DEF EnglishScore
<1>6. CASE act >= req BY <1>2, <1>3, <1>4, <1>5, <1>6 DEF Full, Least
<1>7. CASE act < req /\ up >= req BY <1>2, <1>3, <1>4, <1>5, <1>7 DEF Full, Least
<1>8. CASE up < req
  <2>1. act * req <= up * req BY <1>2, <1>3, Times
  <2> QED BY <1>2, <1>3, <1>4, <1>5, <1>8, <2>1 DEF Least
<1> QED BY <1>2, <1>3, <1>6, <1>7, <1>8

(* Matching Stability, for all skills, years and salaries: a candidate who *)
(* is better in one dimension and equal in the others never scores less,   *)
(* whatever the job asks.                                                  *)
THEOREM BetterScoresNoLess == ScoreMonotone
<1> SUFFICES ASSUME NEW j \in MatchingJobInput, NEW c \in MatchingCandidateInput,
                    NEW d \in OneUp(c)
             PROVE  overallMatchScore(c, j) <= overallMatchScore(d, j)
  BY DEF ScoreMonotone
<1>1. /\ j.skills \in SUBSET Skills /\ j.experienceYears \in Years \cup {Null}
      /\ j.englishRequirement \in EnglishLevels
  BY DEF MatchingJobInput
<1>2. /\ c.skills \in SUBSET Skills /\ c.yearsOfExperience \in Years \cup {Null}
      /\ c.englishLevel \in EnglishLevels
  BY DEF MatchingCandidateInput
<1>3. PICK s, x, e, m :
          /\ s = SkillsScore(j.skills, c.skills)
          /\ x = ExperienceScore(j.experienceYears, c.yearsOfExperience)
          /\ e = EnglishScore(j.englishRequirement, c.englishLevel)
          /\ m = SalaryScore(c.expectedSalary, j.salaryMin, j.salaryMax)
  OBVIOUS
<1>4. Fraction(s) /\ Fraction(x) /\ Fraction(e) /\ Fraction(m)
  BY <1>1, <1>2, <1>3, SkillsFraction, ExperienceFraction, EnglishFraction, SalaryFraction
<1>5. Overall(c, j) = Sum(s, x, e, m) BY <1>3 DEF Overall, Sum, Weights
<1>6. ASSUME d \in MatchingCandidateInput, Least(Overall(c, j), Overall(d, j))
      PROVE  overallMatchScore(c, j) <= overallMatchScore(d, j)
  <2>1. PICK N \in Nat, D \in Nat \ {0} : Overall(c, j) = <<N, D>> BY OverallFraction
  <2>2. PICK M \in Nat, E \in Nat \ {0} : Overall(d, j) = <<M, E>> BY <1>6, OverallFraction
  <2>3. N * E <= M * D BY <1>6, <2>1, <2>2 DEF Least
  <2> QED BY <2>1, <2>2, <2>3, RoundedMonotone DEF overallMatchScore
<1>7. ASSUME NEW skill \in Skills, d = [c EXCEPT !.skills = @ \cup {skill}]
      PROVE  d \in MatchingCandidateInput /\ Least(Overall(c, j), Overall(d, j))
  <2>1. /\ d \in MatchingCandidateInput
        /\ d.skills = c.skills \cup {skill} /\ d.yearsOfExperience = c.yearsOfExperience
        /\ d.englishLevel = c.englishLevel /\ d.expectedSalary = c.expectedSalary
    BY <1>7 DEF MatchingCandidateInput
  <2>2. PICK t : t = SkillsScore(j.skills, d.skills) OBVIOUS
  <2>3. Overall(d, j) = Sum(t, x, e, m) BY <1>3, <2>1, <2>2 DEF Overall, Sum, Weights
  <2>4. Fraction(t) /\ Least(s, t)
    BY <1>1, <1>2, <1>3, <2>1, <2>2, SkillsFraction, SkillsLeast
  <2> QED BY <1>4, <1>5, <2>1, <2>3, <2>4, SumOfSkills
<1>8. ASSUME NEW y \in Years, c.yearsOfExperience # Null, y > c.yearsOfExperience,
             d = [c EXCEPT !.yearsOfExperience = y]
      PROVE  d \in MatchingCandidateInput /\ Least(Overall(c, j), Overall(d, j))
  <2>1. /\ d \in MatchingCandidateInput
        /\ d.skills = c.skills /\ d.yearsOfExperience = y
        /\ d.englishLevel = c.englishLevel /\ d.expectedSalary = c.expectedSalary
    BY <1>8 DEF MatchingCandidateInput
  <2>2. PICK t : t = ExperienceScore(j.experienceYears, y) OBVIOUS
  <2>3. Overall(d, j) = Sum(s, t, e, m) BY <1>3, <2>1, <2>2 DEF Overall, Sum, Weights
  <2>4. Fraction(t) /\ Least(x, t)
    BY <1>1, <1>2, <1>3, <1>8, <2>2, ExperienceFraction, ExperienceLeast
  <2> QED BY <1>4, <1>5, <2>1, <2>3, <2>4, SumOfExperience
<1>9. ASSUME NEW l \in Better(c.englishLevel), d = [c EXCEPT !.englishLevel = l]
      PROVE  d \in MatchingCandidateInput /\ Least(Overall(c, j), Overall(d, j))
  <2>1. l \in EnglishLevels BY NextLevel
  <2>2. /\ d \in MatchingCandidateInput
        /\ d.skills = c.skills /\ d.yearsOfExperience = c.yearsOfExperience
        /\ d.englishLevel = l /\ d.expectedSalary = c.expectedSalary
    BY <1>9, <2>1 DEF MatchingCandidateInput
  <2>3. PICK t : t = EnglishScore(j.englishRequirement, l) OBVIOUS
  <2>4. Overall(d, j) = Sum(s, x, t, m) BY <1>3, <2>2, <2>3 DEF Overall, Sum, Weights
  <2>5. Fraction(t) /\ Least(e, t)
    BY <1>1, <1>2, <1>3, <2>1, <2>3, EnglishFraction, EnglishLeast
  <2> QED BY <1>4, <1>5, <2>2, <2>4, <2>5, SumOfEnglish
<1> QED BY <1>6, <1>7, <1>8, <1>9 DEF OneUp

-----------------------------------------------------------------------------
(* What a search finds.                                                    *)

(* For every query, not only those the runs ask: a search that finds a     *)
(* candidate finds one who is better, unless it asks for a level of        *)
(* English or for the word a level is.                                     *)
THEOREM SearchFindsTheBetter ==
    ASSUME NEW words, NEW stages, NEW scores \in SUBSET ((0..100) \cup {Null})
    PROVE  FindsTheBetter(SearchQuery, words, stages, scores)
<1> SUFFICES ASSUME NEW query \in SearchQuery, NEW c \in MatchingCandidateInput,
                    NEW score \in scores, candidateHit(c, words, stages, score, query),
                    NEW d \in OneUp(c),
                    d.englishLevel = c.englishLevel \/ {query.english, query.q} \cap EnglishLevels = {},
                    NEW better \in scores, better # Null, score = Null \/ better >= score
             PROVE  candidateHit(d, words, stages, better, query)
  BY DEF FindsTheBetter
<1>1. /\ c.skills \in SUBSET Skills /\ c.yearsOfExperience \in Years \cup {Null}
      /\ c.englishLevel \in EnglishLevels
  BY DEF MatchingCandidateInput
<1>2. /\ c.skills \subseteq d.skills /\ d.expectedSalary = c.expectedSalary
      /\ \/ d.yearsOfExperience = c.yearsOfExperience
         \/ /\ c.yearsOfExperience # Null /\ d.yearsOfExperience \in Years
            /\ d.yearsOfExperience > c.yearsOfExperience
  <2>1. CASE \E s \in Skills : d = [c EXCEPT !.skills = @ \cup {s}]
    BY <2>1 DEF MatchingCandidateInput
  <2>2. CASE \E y \in Years : /\ c.yearsOfExperience # Null /\ y > c.yearsOfExperience
                              /\ d = [c EXCEPT !.yearsOfExperience = y]
    BY <2>2 DEF MatchingCandidateInput
  <2>3. CASE \E l \in Better(c.englishLevel) : d = [c EXCEPT !.englishLevel = l]
    BY <2>3 DEF MatchingCandidateInput
  <2> QED BY <2>1, <2>2, <2>3 DEF OneUp
<1>3. /\ textMatches(query.q, words \cup c.skills \cup {c.englishLevel})
      /\ skillsContainAll(c.skills, query.skills)
      /\ query.english \in {Null, c.englishLevel}
      /\ AtLeast(c.yearsOfExperience, query.experienceMin)
      /\ salaryInRange(c.expectedSalary, query.salaryMin, query.salaryMax)
      /\ InStage(query, stages)
      /\ AtLeast(score, query.minMatchScore)
  BY DEF candidateHit
<1>4. textMatches(query.q, words \cup d.skills \cup {d.englishLevel})
  BY <1>1, <1>2, <1>3 DEF textMatches
<1>5. skillsContainAll(d.skills, query.skills) BY <1>2, <1>3 DEF skillsContainAll
<1>6. query.english \in {Null, d.englishLevel} BY <1>1, <1>3
<1>7. AtLeast(d.yearsOfExperience, query.experienceMin)
  <2>1. CASE d.yearsOfExperience = c.yearsOfExperience BY <1>3, <2>1
  <2>2. CASE query.experienceMin = Null BY <2>2 DEF AtLeast
  <2>3. CASE /\ query.experienceMin # Null /\ c.yearsOfExperience # Null
             /\ d.yearsOfExperience \in Years /\ d.yearsOfExperience > c.yearsOfExperience
    <3>1. query.experienceMin \in Nat BY <2>3, MatchingAssumption DEF SearchQuery
    <3>2. c.yearsOfExperience \in Nat /\ d.yearsOfExperience \in Nat /\ d.yearsOfExperience # Null
      BY <1>1, <2>3, MatchingAssumption
    <3>3. c.yearsOfExperience >= query.experienceMin BY <1>3, <2>3 DEF AtLeast
    <3> QED BY <2>3, <3>1, <3>2, <3>3 DEF AtLeast
  <2> QED BY <1>2, <2>1, <2>2, <2>3
<1>8. AtLeast(better, query.minMatchScore)
  <2>1. CASE query.minMatchScore = Null BY <2>1 DEF AtLeast
  <2>2. CASE query.minMatchScore # Null
    <3>1. score # Null /\ score >= query.minMatchScore BY <1>3, <2>2 DEF AtLeast
    <3>2. score \in 0..100 /\ better \in 0..100 /\ query.minMatchScore \in 0..100
      BY <2>2, <3>1 DEF SearchQuery
    <3>3. better >= score BY <3>1
    <3> QED BY <3>1, <3>2, <3>3 DEF AtLeast
  <2> QED BY <2>1, <2>2
<1> QED BY <1>2, <1>3, <1>4, <1>5, <1>6, <1>7, <1>8 DEF candidateHit

(* A search for jobs at the salary a candidate expects finds only those    *)
(* the matching engine counts in full for it, for all salaries.            *)
THEOREM SalariesAsMatched == SalaryAsMatched
<1> SUFFICES ASSUME NEW expected \in Salaries, NEW j \in MatchingJobInput,
                    jobSalaryOverlaps(j.salaryMin, j.salaryMax, expected, expected)
             PROVE  SalaryScore(expected, j.salaryMin, j.salaryMax) = Full
  BY DEF SalaryAsMatched
<1>1. PICK min, max : min = j.salaryMin /\ max = j.salaryMax OBVIOUS
<1>2. /\ min # Null => min \in Nat
      /\ max # Null => max \in Nat
      /\ expected \in Nat /\ expected # Null
  BY <1>1, MatchingAssumption DEF MatchingJobInput
<1>3. /\ min # Null \/ max # Null
      /\ (IF max # Null THEN max ELSE min) >= expected
      /\ (IF min # Null THEN min ELSE max) <= expected
  BY <1>1, <1>2 DEF jobSalaryOverlaps
<1>4. SalaryScore(expected, min, max) =
          IF max # Null /\ expected > max THEN <<2, 5>>
          ELSE IF min # Null /\ expected < min THEN <<4, 5>>
          ELSE Full
  BY <1>2, <1>3 DEF SalaryScore
<1>5. ~(max # Null /\ expected > max) BY <1>2, <1>3
<1>6. ~(min # Null /\ expected < min) BY <1>2, <1>3
<1> QED BY <1>1, <1>4, <1>5, <1>6


-----------------------------------------------------------------------------
(* Lists in an order: the matches of a job, the hits of a search, the      *)
(* insights of a subject.                                                  *)

StrictOrder(S, order) ==
    /\ \A x \in S : <<x, x>> \notin order
    /\ \A x, y \in S : x # y => <<x, y>> \in order \/ <<y, x>> \in order
    /\ \A x, y, z \in S : <<x, y>> \in order /\ <<y, z>> \in order => <<x, z>> \in order

Under(x, S, order) == {y \in S : <<y, x>> \in order}

LEMMA UnderCounts ==
    ASSUME NEW S, IsFiniteSet(S), NEW order, StrictOrder(S, order), NEW x \in S
    PROVE  /\ IsFiniteSet(Under(x, S, order))
           /\ Cardinality(Under(x, S, order)) \in 0..(Cardinality(S) - 1)
           /\ \A y \in S : <<x, y>> \in order =>
                  Cardinality(Under(x, S, order)) < Cardinality(Under(y, S, order))
<1>1. /\ Under(x, S, order) \in SUBSET (S \ {x}) /\ S \ {x} \in SUBSET S
      /\ IsFiniteSet(S \ {x}) /\ Cardinality(S \ {x}) = Cardinality(S) - 1
  BY FS_RemoveElement DEF Under, StrictOrder
<1>2. /\ IsFiniteSet(Under(x, S, order))
      /\ Cardinality(Under(x, S, order)) <= Cardinality(S) - 1
  BY <1>1, FS_Subset
<1>3. Cardinality(Under(x, S, order)) \in Nat /\ Cardinality(S) \in Nat
  BY <1>2, FS_CardinalityType
<1>4. ASSUME NEW y \in S, <<x, y>> \in order
      PROVE  Cardinality(Under(x, S, order)) < Cardinality(Under(y, S, order))
  <2>1. /\ Under(x, S, order) \cup {x} \in SUBSET Under(y, S, order)
        /\ x \notin Under(x, S, order) /\ Under(y, S, order) \in SUBSET S
    BY <1>4 DEF Under, StrictOrder
  <2>2. IsFiniteSet(Under(y, S, order)) BY <2>1, FS_Subset
  <2>3. Cardinality(Under(x, S, order) \cup {x}) <= Cardinality(Under(y, S, order))
    BY <2>1, <2>2, FS_Subset
  <2>4. Cardinality(Under(x, S, order) \cup {x}) = Cardinality(Under(x, S, order)) + 1
    BY <1>2, <2>1, FS_AddElement
  <2>5. Cardinality(Under(y, S, order)) \in Nat BY <2>2, FS_CardinalityType
  <2> QED BY <1>3, <2>3, <2>4, <2>5
<1> QED BY <1>2, <1>3, <1>4

(* Every element has a place, and the places are all taken.                *)
LEMMA EveryPlace ==
    ASSUME NEW S, IsFiniteSet(S), NEW order, StrictOrder(S, order),
           NEW n \in 1..Cardinality(S)
    PROVE  \E x \in S : Cardinality(Under(x, S, order)) = n - 1
<1>1. PICK N : N = Cardinality(S) OBVIOUS
<1>2. N \in Nat BY <1>1, FS_CardinalityType
<1>3. PICK f : f = [x \in S |-> Cardinality(Under(x, S, order)) + 1] OBVIOUS
<1>4. f \in [S -> 1..N]
  <2>1. \A x \in S : Cardinality(Under(x, S, order)) + 1 \in 1..N
    <3> SUFFICES ASSUME NEW x \in S PROVE Cardinality(Under(x, S, order)) + 1 \in 1..N OBVIOUS
    <3>1. Cardinality(Under(x, S, order)) \in 0..(N - 1) BY <1>1, UnderCounts
    <3> QED BY <1>2, <3>1
  <2> QED BY <1>3, <2>1
<1>5. ASSUME NEW x \in S, NEW y \in S, f[x] = f[y] PROVE x = y
  <2>1. \A u, v \in S : <<u, v>> \in order => f[u] < f[v]
    <3> SUFFICES ASSUME NEW u \in S, NEW v \in S, <<u, v>> \in order PROVE f[u] < f[v] OBVIOUS
    <3>1. Cardinality(Under(u, S, order)) < Cardinality(Under(v, S, order)) BY UnderCounts
    <3>2. /\ Cardinality(Under(u, S, order)) \in 0..(N - 1)
          /\ Cardinality(Under(v, S, order)) \in 0..(N - 1) BY <1>1, UnderCounts
    <3> QED BY <1>2, <1>3, <3>1, <3>2
  <2>2. f[x] \in Nat /\ f[y] \in Nat BY <1>4
  <2>3. <<x, y>> \notin order /\ <<y, x>> \notin order BY <1>5, <2>1, <2>2
  <2> QED BY <2>3 DEF StrictOrder
<1>6. f \in Injection(S, 1..N) BY <1>4, <1>5 DEF Injection, IsInjective
<1>7. IsFiniteSet(1..N) /\ Cardinality(1..N) = N
  <2>1. 1 \in Int /\ N \in Int BY <1>2
  <2>2. IsFiniteSet(1..N) /\ Cardinality(1..N) = IF 1 > N THEN 0 ELSE N - 1 + 1
    BY <2>1, FS_Interval
  <2> QED BY <1>2, <2>2
<1>8. f \in Surjection(S, 1..N) BY <1>1, <1>6, <1>7, FS_Injection
<1>9. PICK x \in S : f[x] = n BY <1>1, <1>8 DEF Surjection
<1>10. Cardinality(Under(x, S, order)) \in 0..(N - 1) BY <1>1, UnderCounts
<1> QED BY <1>3, <1>9, <1>10

(* What InOrder makes of a finite set: each element once, in its order.    *)
LEMMA InOrderSorts ==
    ASSUME NEW S, IsFiniteSet(S), NEW order, StrictOrder(S, order)
    PROVE  /\ Cardinality(S) \in Nat
           /\ InOrder(S, order) \in [1..Cardinality(S) -> S]
           /\ \A x \in S : \E n \in 1..Cardinality(S) : InOrder(S, order)[n] = x
           /\ \A m, n \in 1..Cardinality(S) :
                  m < n <=> <<InOrder(S, order)[m], InOrder(S, order)[n]>> \in order
           /\ \A n \in 1..Cardinality(S) :
                  Cardinality(Under(InOrder(S, order)[n], S, order)) = n - 1
<1>1. PICK N : N = Cardinality(S) OBVIOUS
<1>2. N \in Nat BY <1>1, FS_CardinalityType
<1>3. PICK s : s = InOrder(S, order) OBVIOUS
<1>4. ASSUME NEW n \in 1..N
      PROVE  s[n] \in S /\ Cardinality(Under(s[n], S, order)) = n - 1
  <2>1. s[n] = CHOOSE x \in S : Cardinality(Under(x, S, order)) = n - 1
    BY <1>1, <1>3 DEF InOrder, Under
  <2>2. \E x \in S : Cardinality(Under(x, S, order)) = n - 1 BY <1>1, EveryPlace
  <2> QED BY <2>1, <2>2
<1>5. s \in [1..N -> S]
  <2>1. s = [n \in 1..N |-> CHOOSE x \in S : Cardinality({y \in S : <<y, x>> \in order}) = n - 1]
    BY <1>1, <1>3, Zenon DEF InOrder
  <2>2. \A n \in 1..N : s[n] \in S BY <1>4
  <2> QED BY <2>1, <2>2
<1>6. \A x, y \in S : <<x, y>> \in order =>
          Cardinality(Under(x, S, order)) < Cardinality(Under(y, S, order))
  BY UnderCounts
<1>7. \A x \in S : Cardinality(Under(x, S, order)) \in 0..(N - 1) BY <1>1, UnderCounts
<1>8. ASSUME NEW m \in 1..N, NEW n \in 1..N PROVE m < n <=> <<s[m], s[n]>> \in order
  <2>1. /\ s[m] \in S /\ Cardinality(Under(s[m], S, order)) = m - 1
        /\ s[n] \in S /\ Cardinality(Under(s[n], S, order)) = n - 1
    BY <1>4
  <2>2. <<s[m], s[n]>> \in order => m - 1 < n - 1 BY <1>6, <2>1
  <2>3. <<s[n], s[m]>> \in order => n - 1 < m - 1 BY <1>6, <2>1
  <2>4. s[m] = s[n] => m - 1 = n - 1 BY <2>1
  <2>5. s[m] # s[n] => <<s[m], s[n]>> \in order \/ <<s[n], s[m]>> \in order
    BY <2>1 DEF StrictOrder
  <2> QED BY <2>2, <2>3, <2>4, <2>5
<1>9. ASSUME NEW x \in S PROVE \E n \in 1..N : s[n] = x
  <2>1. PICK n : n = Cardinality(Under(x, S, order)) + 1 OBVIOUS
  <2>2. n \in 1..N /\ Cardinality(Under(x, S, order)) = n - 1 BY <1>2, <1>7, <2>1
  <2>3. s[n] \in S /\ Cardinality(Under(s[n], S, order)) = n - 1 BY <1>4, <2>2
  <2>4. <<x, s[n]>> \notin order /\ <<s[n], x>> \notin order BY <1>6, <2>2, <2>3
  <2>5. s[n] = x BY <2>3, <2>4 DEF StrictOrder
  <2> QED BY <2>2, <2>5
<1> QED BY <1>1, <1>2, <1>3, <1>4, <1>5, <1>8, <1>9

(* What is below only such elements comes before all others.               *)
LEMMA HeadOfOrder ==
    ASSUME NEW S, IsFiniteSet(S), NEW order, StrictOrder(S, order), NEW P \in SUBSET S,
           \A x \in P, y \in S \ P : <<x, y>> \in order,
           NEW n \in 1..Cardinality(S)
    PROVE  Cardinality(P) \in Nat /\ (InOrder(S, order)[n] \in P <=> n <= Cardinality(P))
<1>1. PICK x : x = InOrder(S, order)[n] OBVIOUS
<1>2. x \in S /\ Cardinality(Under(x, S, order)) = n - 1 BY <1>1, InOrderSorts
<1>3. IsFiniteSet(P) /\ Cardinality(P) \in Nat BY FS_Subset, FS_CardinalityType
<1>4. IsFiniteSet(Under(x, S, order)) BY <1>2, UnderCounts
<1>5. CASE x \in P
  <2>1. ASSUME NEW y \in Under(x, S, order) PROVE y \in P \ {x}
    <3>1. y \in S /\ <<y, x>> \in order BY DEF Under
    <3>2. y # x BY <3>1 DEF StrictOrder
    <3>3. y \in P
      <4> SUFFICES ASSUME y \notin P PROVE FALSE OBVIOUS
      <4>1. <<x, y>> \in order BY <1>5, <3>1
      <4> QED BY <1>2, <3>1, <4>1 DEF StrictOrder
    <3> QED BY <3>2, <3>3
  <2>2. Under(x, S, order) \in SUBSET (P \ {x}) BY <2>1
  <2>3. IsFiniteSet(P \ {x}) /\ Cardinality(P \ {x}) = Cardinality(P) - 1
    BY <1>3, <1>5, FS_RemoveElement
  <2>4. n - 1 <= Cardinality(P) - 1 BY <1>2, <2>2, <2>3, FS_Subset
  <2> QED BY <1>1, <1>3, <1>5, <2>4
<1>6. CASE x \notin P
  <2>1. P \in SUBSET Under(x, S, order) BY <1>2, <1>6 DEF Under
  <2>2. Cardinality(P) <= n - 1 BY <1>2, <1>4, <2>1, FS_Subset
  <2> QED BY <1>1, <1>3, <1>6, <2>2
<1> QED BY <1>5, <1>6

(* The hits of a search, and where the pages have them.                    *)
Hits(hits) ==
    /\ hits \in SUBSET Hit /\ IsFiniteSet(hits)
    /\ \A a, b \in hits : a.id = b.id => a = b

HitOrder(hits, byScore) == {p \in hits \X hits : Before(p[1], p[2], byScore)}

LEMMA HitsOrdered ==
    ASSUME NEW hits, Hits(hits), NEW byScore \in BOOLEAN
    PROVE  StrictOrder(hits, HitOrder(hits, byScore))
<1>1. \A h \in hits : h.id \in Nat /\ Rank(h) \in Nat /\ h.type \in {"candidate", "job"}
  BY DEF Hits, Hit, Rank
<1>2. \A a, b \in hits : <<a, b>> \in HitOrder(hits, byScore) <=> Before(a, b, byScore)
  BY DEF HitOrder
<1>3. \A a \in hits : ~Before(a, a, byScore) BY <1>1 DEF Before
<1>4. \A a, b \in hits : a # b => Before(a, b, byScore) \/ Before(b, a, byScore)
  <2> SUFFICES ASSUME NEW a \in hits, NEW b \in hits, a # b
               PROVE  Before(a, b, byScore) \/ Before(b, a, byScore)
    OBVIOUS
  <2>1. a.id # b.id BY DEF Hits
  <2> QED BY <1>1, <2>1 DEF Before
<1>5. \A a, b, c \in hits : Before(a, b, byScore) /\ Before(b, c, byScore) => Before(a, c, byScore)
  <2> SUFFICES ASSUME NEW a \in hits, NEW b \in hits, NEW c \in hits,
                      Before(a, b, byScore), Before(b, c, byScore)
               PROVE  Before(a, c, byScore)
    OBVIOUS
  <2>1. CASE byScore BY <1>1, <2>1 DEF Before
  <2>2. CASE ~byScore BY <1>1, <2>2 DEF Before
  <2> QED BY <2>1, <2>2
<1> QED BY <1>2, <1>3, <1>4, <1>5 DEF StrictOrder

LEMMA HitsSorted ==
    ASSUME NEW hits, Hits(hits), NEW byScore \in BOOLEAN
    PROVE  /\ Cardinality(hits) \in Nat
           /\ sortHits(hits, byScore) \in [1..Cardinality(hits) -> hits]
           /\ \A h \in hits : \E n \in 1..Cardinality(hits) : sortHits(hits, byScore)[n] = h
           /\ \A m, n \in 1..Cardinality(hits) :
                  m < n <=> Before(sortHits(hits, byScore)[m], sortHits(hits, byScore)[n], byScore)
<1>1. IsFiniteSet(hits) BY DEF Hits
<1>2. PICK order : order = HitOrder(hits, byScore) OBVIOUS
<1>3. StrictOrder(hits, order) BY <1>2, HitsOrdered
<1>4. sortHits(hits, byScore) = InOrder(hits, order) BY <1>2 DEF sortHits, HitOrder
<1>5. \A a, b \in hits : <<a, b>> \in order <=> Before(a, b, byScore) BY <1>2 DEF HitOrder
<1>6. PICK s : s = InOrder(hits, order) OBVIOUS
<1>7. PICK N : N = Cardinality(hits) OBVIOUS
<1>8. /\ N \in Nat /\ s \in [1..N -> hits]
      /\ \A h \in hits : \E n \in 1..N : s[n] = h
      /\ \A m, n \in 1..N : m < n <=> <<s[m], s[n]>> \in order
  BY <1>1, <1>3, <1>6, <1>7, InOrderSorts
<1>9. \A m, n \in 1..N : m < n <=> Before(s[m], s[n], byScore) BY <1>5, <1>8
<1> QED BY <1>4, <1>6, <1>7, <1>8, <1>9

(* A page has the places after its offset, at most L of them.              *)
PageFrom(page, s, o, L, N) ==
    /\ DOMAIN page = {i \in 1..L : o + i <= N}
    /\ \A i \in DOMAIN page : page[i] = s[o + i]

LEMMA PageHas ==
    ASSUME NEW hits, Hits(hits), NEW byScore \in BOOLEAN, NEW limit \in Nat \cup {Null},
           NEW o \in Nat, NEW N \in Nat, N = Cardinality(hits),
           NEW L \in Nat \ {0}, L = Limit(limit)
    PROVE  PageFrom(Page(hits, byScore, limit, o), sortHits(hits, byScore), o, L, N)
<1>1. PICK s : s = sortHits(hits, byScore) OBVIOUS
<1>2. s \in [1..N -> hits] BY <1>1, HitsSorted
<1>3. s \in Seq(hits) /\ Len(s) = N BY <1>2
<1>6. Offset(o) = o BY MatchingAssumption DEF Offset
<1>7. PICK last : last = IF o + L < N THEN o + L ELSE N OBVIOUS
<1>8. last \in Nat BY <1>7
<1>9. PICK page : page = Page(hits, byScore, limit, o) OBVIOUS
<1>10. page = SubSeq(s, o + 1, last) BY <1>1, <1>3, <1>6, <1>7, <1>9 DEF Page
<1>11. \A i \in (o + 1)..last : s[i] \in hits BY <1>2, <1>7
<1>12. /\ page \in Seq(hits)
       /\ Len(page) = IF o + 1 <= last THEN last - (o + 1) + 1 ELSE 0
       /\ \A i \in 1..(last - (o + 1) + 1) : page[i] = s[(o + 1) + i - 1]
  <2>1. o + 1 \in Int /\ last \in Int BY <1>8
  <2> QED BY <1>10, <1>11, <2>1, SubSeqProperties
<1>13. DOMAIN page = 1..Len(page) /\ Len(page) \in Nat BY <1>12
<1>14. 1..Len(page) = {i \in 1..L : o + i <= N}
  <2>1. Len(page) = IF o + L < N THEN L ELSE IF o < N THEN N - o ELSE 0
    BY <1>7, <1>8, <1>12
  <2> QED BY <2>1
<1>15. \A i \in 1..Len(page) : page[i] = s[o + i]
  <2> SUFFICES ASSUME NEW i \in 1..Len(page) PROVE page[i] = s[o + i] OBVIOUS
  <2>1. i \in 1..(last - (o + 1) + 1) BY <1>8, <1>12
  <2>2. (o + 1) + i - 1 = o + i BY <2>1
  <2> QED BY <1>12, <2>1, <2>2
<1> QED BY <1>1, <1>9, <1>13, <1>14, <1>15 DEF PageFrom

(* The number of a place: its page and its place on that page.             *)
LEMMA PlaceOf ==
    ASSUME NEW L \in Nat \ {0}, NEW n \in Nat, NEW m \in Nat, NEW i \in 1..L, NEW j \in 1..L
    PROVE  /\ n * L + i \in Nat /\ m * L + j \in Nat
           /\ n < m \/ (n = m /\ i < j) <=> n * L + i < m * L + j
           /\ n * L + i = m * L + j => n = m /\ i = j
<1>1. PICK a, b : a = n * L /\ b = m * L OBVIOUS
<1>2. a \in Nat /\ b \in Nat BY <1>1
<1>3. n < m => a + L <= b
  <2>1. n < m => (n + 1) * L <= m * L BY Times
  <2>2. (n + 1) * L = n * L + L BY Z3
  <2> QED BY <1>1, <2>1, <2>2
<1>4. m < n => b + L <= a
  <2>1. m < n => (m + 1) * L <= n * L BY Times
  <2>2. (m + 1) * L = m * L + L BY Z3
  <2> QED BY <1>1, <2>1, <2>2
<1>5. n = m => a = b BY <1>1
<1>6. n < m \/ m < n \/ n = m OBVIOUS
<1> QED BY <1>1, <1>2, <1>3, <1>4, <1>5, <1>6

LEMMA PlaceExists ==
    ASSUME NEW L \in Nat \ {0}, NEW N \in Nat, NEW k \in 1..N
    PROVE  \E n \in 0..N, i \in 1..L : k = n * L + i
<1>1. PICK q : q = (k - 1) \div L OBVIOUS
<1>2. q \in Int /\ L * q <= k - 1 /\ k - 1 < L * (q + 1) BY <1>1, Z3
<1>3. q \in Nat
  <2> SUFFICES ASSUME q <= -1 PROVE FALSE BY <1>2
  <2>1. L * (q + 1) <= 0 BY <1>2, Z3
  <2> QED BY <1>2, <2>1
<1>4. q <= L * q BY <1>3, Z3
<1>5. L * (q + 1) = L * q + L BY <1>3, Z3
<1>6. PICK b : b = L * q OBVIOUS
<1>7. b \in Nat BY <1>3, <1>6
<1>8. q \in 0..N /\ k - b \in 1..L BY <1>2, <1>3, <1>4, <1>5, <1>6, <1>7
<1>9. q * L = L * q BY <1>3
<1>10. k = q * L + (k - b) BY <1>6, <1>7, <1>9
<1> QED BY <1>8, <1>10

(* For all hits of different ids, in either order and for every limit, the *)
(* pages hold every hit once, in the order of the list.                    *)
THEOREM PagesAreWhole ==
    ASSUME NEW hits, Hits(hits), NEW byScore \in BOOLEAN, NEW limit \in Nat \cup {Null}
    PROVE  PagesWhole(hits, byScore, limit)
<1>1. PICK L : L = Limit(limit) OBVIOUS
<1>2. L \in Nat \ {0} BY <1>1 DEF Limit, DEFAULT_LIMIT, MAX_LIMIT
<1>3. PICK N : N = Cardinality(hits) OBVIOUS
<1>4. PICK s : s = sortHits(hits, byScore) OBVIOUS
<1>5. /\ N \in Nat /\ s \in [1..N -> hits]
      /\ \A h \in hits : \E n \in 1..N : s[n] = h
      /\ \A m, n \in 1..N : m < n <=> Before(s[m], s[n], byScore)
  BY <1>3, <1>4, HitsSorted
<1>6. PICK page : page = [n \in 0..N |-> Page(hits, byScore, limit, n * L)] OBVIOUS
<1>7. ASSUME NEW n \in 0..N
      PROVE  /\ DOMAIN page[n] = {i \in 1..L : n * L + i <= N}
             /\ \A i \in DOMAIN page[n] : page[n][i] = s[n * L + i]
  <2>1. PICK p : p = Page(hits, byScore, limit, n * L) OBVIOUS
  <2>2. PICK o : o = n * L OBVIOUS
  <2>3. o \in Nat /\ N \in Nat BY <1>2, <1>5, <2>2
  <2>4. PageFrom(Page(hits, byScore, limit, o), sortHits(hits, byScore), o, L, N)
    BY <1>1, <1>2, <1>3, <2>3, PageHas
  <2>5. page[n] = Page(hits, byScore, limit, o) BY <1>6, <2>2
  <2>6. PageFrom(page[n], s, o, L, N) BY <1>4, <2>4, <2>5
  <2> QED BY <2>2, <2>6 DEF PageFrom
<1>8. PICK places : places = UNION {{<<n, i>> : i \in DOMAIN page[n]} : n \in 0..N} OBVIOUS
<1>9. ASSUME NEW p \in places
      PROVE  \E n \in 0..N, i \in 1..L :
                 p = <<n, i>> /\ n * L + i \in 1..N /\ page[p[1]][p[2]] = s[n * L + i]
  <2>1. PICK n \in 0..N : p \in {<<n, i>> : i \in DOMAIN page[n]} BY <1>8
  <2>2. PICK i \in DOMAIN page[n] : p = <<n, i>> BY <2>1
  <2>3. i \in 1..L /\ n * L + i <= N /\ page[n][i] = s[n * L + i] BY <1>7, <2>2
  <2>4. n \in Nat /\ n * L \in Nat BY <1>2, <1>5
  <2>5. n * L + i \in 1..N BY <1>2, <1>5, <2>3, <2>4
  <2> QED BY <2>2, <2>3, <2>5
<1>10. \A p \in places : page[p[1]][p[2]] \in hits /\ p[2] <= L
  <2> SUFFICES ASSUME NEW p \in places PROVE page[p[1]][p[2]] \in hits /\ p[2] <= L OBVIOUS
  <2>1. PICK n \in 0..N, i \in 1..L :
             p = <<n, i>> /\ n * L + i \in 1..N /\ page[p[1]][p[2]] = s[n * L + i]
    BY <1>9
  <2> QED BY <1>2, <1>5, <2>1
<1>11. ASSUME NEW hit \in hits
       PROVE  Cardinality({p \in places : page[p[1]][p[2]] = hit}) = 1
  <2>1. PICK k \in 1..N : s[k] = hit BY <1>5
  <2>2. PICK n \in 0..N, i \in 1..L : k = n * L + i BY <1>2, <1>5, <2>1, PlaceExists
  <2>3. k <= N /\ n \in 0..N BY <1>5, <2>1
  <2>4. i \in DOMAIN page[n] /\ page[n][i] = hit BY <1>7, <2>1, <2>2, <2>3
  <2>5. <<n, i>> \in places BY <1>8, <2>4
  <2>6. ASSUME NEW p \in places, page[p[1]][p[2]] = hit PROVE p = <<n, i>>
    <3>1. PICK m \in 0..N, j \in 1..L :
               p = <<m, j>> /\ m * L + j \in 1..N /\ page[p[1]][p[2]] = s[m * L + j]
      BY <1>9
    <3>2. PICK l \in 1..N : l = m * L + j BY <3>1
    <3>3. s[l] = s[k] BY <2>1, <2>6, <3>1, <3>2
    <3>4. ~(l < k) /\ ~(k < l)
      <4>1. l < k <=> Before(s[l], s[k], byScore) BY <1>5, <2>1, <3>2
      <4>2. k < l <=> Before(s[k], s[l], byScore) BY <1>5, <2>1, <3>2
      <4>3. k < k <=> Before(s[k], s[k], byScore) BY <1>5, <2>1
      <4>4. ~Before(s[k], s[k], byScore) BY <1>5, <2>1, <4>3
      <4> QED BY <3>3, <4>1, <4>2, <4>4
    <3>5. l = k BY <1>5, <2>1, <3>2, <3>4
    <3>6. m \in Nat /\ n \in Nat BY <1>5
    <3>7. m = n /\ j = i BY <1>2, <2>2, <3>2, <3>5, <3>6, PlaceOf
    <3> QED BY <3>1, <3>7
  <2>7. {p \in places : page[p[1]][p[2]] = hit} = {<<n, i>>} BY <2>4, <2>5, <2>6
  <2> QED BY <2>7, FS_Singleton
<1>12. ASSUME byScore, NEW p \in places, NEW q \in places,
              p[1] < q[1] \/ (p[1] = q[1] /\ p[2] < q[2])
       PROVE  Rank(page[p[1]][p[2]]) >= Rank(page[q[1]][q[2]])
  <2>1. PICK n \in 0..N, i \in 1..L :
             p = <<n, i>> /\ n * L + i \in 1..N /\ page[p[1]][p[2]] = s[n * L + i]
    BY <1>9
  <2>2. PICK m \in 0..N, j \in 1..L :
             q = <<m, j>> /\ m * L + j \in 1..N /\ page[q[1]][q[2]] = s[m * L + j]
    BY <1>9
  <2>3. n \in Nat /\ m \in Nat BY <1>5
  <2>4. n < m \/ (n = m /\ i < j) BY <1>12, <2>1, <2>2
  <2>5. n * L + i < m * L + j BY <1>2, <2>3, <2>4, PlaceOf
  <2>6. PICK a, b : a = s[n * L + i] /\ b = s[m * L + j] OBVIOUS
  <2>7. Before(a, b, byScore) /\ a \in hits /\ b \in hits BY <1>5, <2>1, <2>2, <2>5, <2>6
  <2>8. Rank(a) \in Nat /\ Rank(b) \in Nat BY <2>7 DEF Hits, Hit, Rank
  <2>9. Rank(a) >= Rank(b) BY <1>12, <2>7, <2>8 DEF Before
  <2> QED BY <2>1, <2>2, <2>6, <2>9
<1>13. PagesWhole(hits, byScore, limit) <=>
           /\ \A p \in places : page[p[1]][p[2]] \in hits /\ p[2] <= L
           /\ \A hit \in hits : Cardinality({p \in places : page[p[1]][p[2]] = hit}) = 1
           /\ byScore => \A p, q \in places :
                 p[1] < q[1] \/ (p[1] = q[1] /\ p[2] < q[2]) =>
                     Rank(page[p[1]][p[2]]) >= Rank(page[q[1]][q[2]])
  BY <1>1, <1>3, <1>6, <1>8 DEF PagesWhole
<1> QED BY <1>10, <1>11, <1>12, <1>13

(* The rows of candidates, of different ids.                               *)
Candidates(records) ==
    /\ IsFiniteSet(records)
    /\ \A r \in records : r.id \in Nat /\ r.of \in MatchingCandidateInput
    /\ \A a, b \in records : a.id = b.id => a = b

Scored(job, records) == {scoreCandidateAgainstJob(job, r) : r \in records}

RankOrder(matches) ==
    {p \in matches \X matches :
        p[1].score > p[2].score \/ (p[1].score = p[2].score /\ p[1].id < p[2].id)}

LEMMA MatchScores ==
    ASSUME NEW c \in MatchingCandidateInput, NEW job \in MatchingJobInput
    PROVE  overallMatchScore(c, job) \in 0..100
<1>1. PICK N \in Nat, D \in Nat \ {0} : Overall(c, job) = <<N, D>> /\ N <= 100 * D
  BY OverallFraction
<1>2. Rounded(<<N, D>>) \in 0..100 BY <1>1, RoundedBounded
<1> QED BY <1>1, <1>2 DEF overallMatchScore

(* Every row has a match of its own.                                       *)
LEMMA OneMatchEach ==
    ASSUME NEW records, Candidates(records), NEW job
    PROVE  /\ IsFiniteSet(Scored(job, records))
           /\ Cardinality(Scored(job, records)) = Cardinality(records)
<1>1. PICK M : M = Scored(job, records) OBVIOUS
<1>2. PICK f : f = [r \in records |-> scoreCandidateAgainstJob(job, r)] OBVIOUS
<1>3. \A r \in records : f[r] \in M /\ f[r].id = r.id
  BY <1>1, <1>2 DEF Scored, scoreCandidateAgainstJob
<1>4. f \in [records -> M] BY <1>2, <1>3
<1>5. \A a, b \in records : f[a] = f[b] => a = b BY <1>3 DEF Candidates
<1>6. \A m \in M : \E r \in records : f[r] = m BY <1>1, <1>2 DEF Scored
<1>7. f \in Surjection(records, M) BY <1>4, <1>6 DEF Surjection
<1>8. f \in Injection(records, M) BY <1>4, <1>5 DEF Injection, IsInjective
<1>9. IsFiniteSet(records) BY DEF Candidates
<1> QED BY <1>1, <1>7, <1>8, <1>9, FS_Surjection

LEMMA MatchesOrdered ==
    ASSUME NEW records, Candidates(records), NEW job \in MatchingJobInput
    PROVE  StrictOrder(Scored(job, records), RankOrder(Scored(job, records)))
<1>1. PICK M : M = Scored(job, records) OBVIOUS
<1>2. ASSUME NEW m \in M PROVE m.id \in Nat /\ m.score \in 0..100
  <2>1. PICK r \in records : m = scoreCandidateAgainstJob(job, r) BY <1>1 DEF Scored
  <2>2. r.id \in Nat /\ r.of \in MatchingCandidateInput BY DEF Candidates
  <2>3. overallMatchScore(r.of, job) \in 0..100 BY <2>2, MatchScores
  <2> QED BY <2>1, <2>2, <2>3 DEF scoreCandidateAgainstJob
<1>3. ASSUME NEW m \in M, NEW n \in M, m.id = n.id PROVE m = n
  <2>1. PICK r \in records : m = scoreCandidateAgainstJob(job, r) BY <1>1 DEF Scored
  <2>2. PICK s \in records : n = scoreCandidateAgainstJob(job, s) BY <1>1 DEF Scored
  <2>3. r.id = s.id BY <1>3, <2>1, <2>2 DEF scoreCandidateAgainstJob
  <2> QED BY <2>1, <2>2, <2>3 DEF Candidates
<1>4. \A a, b \in M : <<a, b>> \in RankOrder(M) <=>
                          a.score > b.score \/ (a.score = b.score /\ a.id < b.id)
  BY DEF RankOrder
<1>5. \A a \in M : <<a, a>> \notin RankOrder(M) BY <1>2, <1>4
<1>6. \A a, b \in M : a # b => <<a, b>> \in RankOrder(M) \/ <<b, a>> \in RankOrder(M)
  <2> SUFFICES ASSUME NEW a \in M, NEW b \in M, a # b
               PROVE  <<a, b>> \in RankOrder(M) \/ <<b, a>> \in RankOrder(M)
    OBVIOUS
  <2>1. a.id # b.id BY <1>3
  <2> QED BY <1>2, <1>4, <2>1
<1>7. \A a, b, c \in M : <<a, b>> \in RankOrder(M) /\ <<b, c>> \in RankOrder(M) =>
                             <<a, c>> \in RankOrder(M)
  <2> SUFFICES ASSUME NEW a \in M, NEW b \in M, NEW c \in M,
                      <<a, b>> \in RankOrder(M), <<b, c>> \in RankOrder(M)
               PROVE  <<a, c>> \in RankOrder(M)
    OBVIOUS
  <2>1. /\ a.score > b.score \/ (a.score = b.score /\ a.id < b.id)
        /\ b.score > c.score \/ (b.score = c.score /\ b.id < c.id)
    BY <1>4
  <2>2. PICK p, q, s \in 0..100 : p = a.score /\ q = b.score /\ s = c.score BY <1>2
  <2>3. PICK i, j, k \in Nat : i = a.id /\ j = b.id /\ k = c.id BY <1>2
  <2>4. (p > q \/ (p = q /\ i < j)) /\ (q > s \/ (q = s /\ j < k)) BY <2>1, <2>2, <2>3
  <2>5. p > s \/ (p = s /\ i < k) BY <2>4
  <2> QED BY <1>4, <2>2, <2>3, <2>5
<1> QED BY <1>1, <1>5, <1>6, <1>7 DEF StrictOrder

Ready(records) == {r \in records : r.ready}

(* The matches of any rows: one for each ready row, and those that score   *)
(* at least min are the first ones, as many as the insight counts.         *)
RankedFirst(matches, ranked, min, count) ==
    /\ ranked \in [1..Cardinality(matches) -> matches]
    /\ \A n \in DOMAIN ranked : ranked[n].score >= min <=> n <= count
    /\ \A m \in matches : \E n \in DOMAIN ranked : ranked[n] = m
    /\ \A m, n \in DOMAIN ranked : m < n <=> <<ranked[m], ranked[n]>> \in RankOrder(matches)

LEMMA MatchesInOrder ==
    ASSUME NEW records, Candidates(records), NEW job \in MatchingJobInput, NEW min \in 0..100
    PROVE  RankedFirst(Scored(job, Ready(records)), rankReadyCandidates(job, records), min,
                       countReadyMatchesAtLeast(job, records, min))
<1> DEFINE ready == {r \in records : r.ready}
           ranked == rankReadyCandidates(job, records)
           count == countReadyMatchesAtLeast(job, records, min)
<1>1. PICK M : M = Scored(job, ready) OBVIOUS
<1>0. ready = Ready(records) BY DEF Ready
<1>2. Candidates(ready)
  <2>1. ready \in SUBSET records OBVIOUS
  <2> QED BY <2>1, FS_Subset DEF Candidates
<1>3. IsFiniteSet(M) /\ Cardinality(M) = Cardinality(ready) BY <1>1, <1>2, OneMatchEach
<1>4. PICK order : order = RankOrder(M) OBVIOUS
<1>5. StrictOrder(M, order) BY <1>1, <1>2, <1>4, MatchesOrdered
<1>6. ranked = InOrder(M, order)
  BY <1>1, <1>4 DEF rankReadyCandidates, Scored, RankOrder
<1>7. PICK P : P = {m \in M : m.score >= min} OBVIOUS
<1>8. PICK good : good = {r \in records : r.ready /\ overallMatchScore(r.of, job) >= min} OBVIOUS
<1>9. count = Cardinality(good) BY <1>8 DEF countReadyMatchesAtLeast
<1>10. Candidates(good)
  <2>1. good \in SUBSET records BY <1>8
  <2> QED BY <2>1, FS_Subset DEF Candidates
<1>11. P = Scored(job, good) BY <1>1, <1>7, <1>8 DEF Scored, scoreCandidateAgainstJob
<1>12. Cardinality(P) = count BY <1>9, <1>10, <1>11, OneMatchEach
<1> HIDE DEF ranked, count, ready
<1>13. ASSUME NEW x \in P, NEW y \in M \ P PROVE <<x, y>> \in order
  <2>1. PICK r \in ready : x = scoreCandidateAgainstJob(job, r) BY <1>1, <1>7 DEF Scored
  <2>2. PICK s \in ready : y = scoreCandidateAgainstJob(job, s) BY <1>1 DEF Scored
  <2>3. x.score \in 0..100 /\ y.score \in 0..100
    BY <1>2, <2>1, <2>2, MatchScores DEF Candidates, scoreCandidateAgainstJob
  <2>4. x.score >= min /\ ~(y.score >= min) BY <1>7
  <2>5. x.score > y.score BY <2>3, <2>4
  <2> QED BY <1>4, <1>7, <2>5 DEF RankOrder
<1>14. PICK N : N = Cardinality(M) /\ N = Cardinality(ready) BY <1>3
<1>15. /\ N \in Nat /\ ranked \in [1..N -> M]
       /\ \A m \in M : \E n \in 1..N : ranked[n] = m
       /\ \A m, n \in 1..N : m < n <=> <<ranked[m], ranked[n]>> \in order
  <2>1. IsFiniteSet(M) BY <1>3
  <2>2. /\ Cardinality(M) \in Nat
        /\ InOrder(M, order) \in [1..Cardinality(M) -> M]
        /\ \A m \in M : \E n \in 1..Cardinality(M) : InOrder(M, order)[n] = m
        /\ \A m, n \in 1..Cardinality(M) :
               m < n <=> <<InOrder(M, order)[m], InOrder(M, order)[n]>> \in order
    BY <1>5, <2>1, InOrderSorts
  <2> QED BY <1>6, <1>14, <2>2
<1>16. P \in SUBSET M BY <1>7
<1>18. ASSUME NEW n \in 1..N PROVE ranked[n].score >= min <=> n <= count
  <2>1. ranked[n] \in P <=> n <= Cardinality(P)
    BY <1>3, <1>5, <1>6, <1>13, <1>14, <1>16, HeadOfOrder
  <2>2. ranked[n] \in M BY <1>15
  <2> QED BY <1>7, <1>12, <2>1, <2>2
<1>19. DOMAIN ranked = 1..N BY <1>15
<1> QED BY <1>0, <1>1, <1>4, <1>14, <1>15, <1>18, <1>19 DEF RankedFirst, ranked, count

(* The matches of a job are ranked as the insight counts them, and nobody  *)
(* is behind a candidate who is worse, for all candidates and jobs.        *)
THEOREM MatchesAreRanked == MatchesRanked
<1> SUFFICES ASSUME NEW job \in MatchingJobInput, NEW l \in SomeCandidates,
                    NEW r \in SomeCandidates, NEW ready \in BOOLEAN, NEW min \in {0, 50, 100}
             PROVE  LET records == {[id |-> 1, of |-> l, ready |-> TRUE],
                                    [id |-> 2, of |-> r, ready |-> ready]}
                        ranked == rankReadyCandidates(job, records)
                        count == countReadyMatchesAtLeast(job, records, min)
                    IN /\ Len(ranked) = IF ready THEN 2 ELSE 1
                       /\ \A n \in DOMAIN ranked : ranked[n].score >= min <=> n <= count
                       /\ ready /\ l \in OneUp(r) => ranked[1].id = 1
  BY DEF MatchesRanked
<1>1. l \in MatchingCandidateInput /\ r \in MatchingCandidateInput
  BY DEF SomeCandidates, MatchingCandidateInput, EnglishLevels, EnglishRank
<1> DEFINE a == [id |-> 1, of |-> l, ready |-> TRUE]
           b == [id |-> 2, of |-> r, ready |-> ready]
           records == {a, b}
           ranked == rankReadyCandidates(job, records)
           count == countReadyMatchesAtLeast(job, records, min)
           chosen == Ready(records)
<1>3. /\ a.id = 1 /\ b.id = 2 /\ a.of = l /\ b.of = r
      /\ a.ready = TRUE /\ b.ready = ready
  OBVIOUS
<1> HIDE DEF a, b
<1>2. IsFiniteSet({a}) /\ Cardinality({a}) = 1 BY FS_Singleton
<1>4. IsFiniteSet(records)
  <2>1. records = {a} \cup {b} OBVIOUS
  <2> QED BY <1>2, <2>1, FS_AddElement
<1>5. Candidates(records) BY <1>1, <1>3, <1>4 DEF Candidates
<1>6. min \in 0..100 OBVIOUS
<1>7. RankedFirst(Scored(job, chosen), ranked, min, count)
  <2> HIDE DEF records
  <2> QED BY <1>5, <1>6, MatchesInOrder
<1>8. /\ ranked \in [1..Cardinality(Scored(job, chosen)) -> Scored(job, chosen)]
      /\ \A n \in DOMAIN ranked : ranked[n].score >= min <=> n <= count
      /\ \A m \in Scored(job, chosen) : \E n \in DOMAIN ranked : ranked[n] = m
      /\ \A m, n \in DOMAIN ranked :
             m < n <=> <<ranked[m], ranked[n]>> \in RankOrder(Scored(job, chosen))
  <2> HIDE DEF ranked, count, chosen, records
  <2> QED BY <1>7 DEF RankedFirst
<1>16. Candidates(chosen)
  <2>1. chosen \in SUBSET records BY DEF Ready
  <2> HIDE DEF records, chosen
  <2> QED BY <1>5, <2>1, FS_Subset DEF Candidates
<1>17. Cardinality(Scored(job, chosen)) = Cardinality(chosen)
  <2> HIDE DEF chosen
  <2> QED BY <1>16, OneMatchEach
<1>9. chosen = IF ready THEN {a} \cup {b} ELSE {a} BY <1>3 DEF Ready
<1> HIDE DEF records, ranked, count, chosen
<1>10. Cardinality(chosen) = IF ready THEN 2 ELSE 1
  <2>1. b \notin {a} BY <1>3
  <2>2. Cardinality({a} \cup {b}) = Cardinality({a}) + 1 BY <1>2, <2>1, FS_AddElement
  <2> QED BY <1>2, <1>9, <2>2
<1>11. DOMAIN ranked = 1..(IF ready THEN 2 ELSE 1) BY <1>8, <1>10, <1>17
<1>12. Len(ranked) = IF ready THEN 2 ELSE 1
  <2>1. CASE ready
    <3>1. ranked \in [1..2 -> Scored(job, chosen)] BY <1>8, <1>10, <1>17, <2>1
    <3> QED BY <2>1, <3>1
  <2>2. CASE ~ready
    <3>1. ranked \in [1..1 -> Scored(job, chosen)] BY <1>8, <1>10, <1>17, <2>2
    <3> QED BY <2>2, <3>1
  <2> QED BY <2>1, <2>2
<1>13. ASSUME ready, l \in OneUp(r) PROVE ranked[1].id = 1
  <2>1. PICK u, v : u = scoreCandidateAgainstJob(job, a) /\ v = scoreCandidateAgainstJob(job, b)
    OBVIOUS
  <2>2. /\ u.id = 1 /\ v.id = 2
        /\ u.score = overallMatchScore(l, job) /\ v.score = overallMatchScore(r, job)
    BY <1>3, <2>1 DEF scoreCandidateAgainstJob
  <2>3. u.score \in 0..100 /\ v.score \in 0..100 BY <1>1, <2>2, MatchScores
  <2>4. v.score <= u.score BY <1>1, <1>13, <2>2, BetterScoresNoLess DEF ScoreMonotone
  <2>5. Scored(job, chosen) = {u, v} BY <1>9, <1>13, <2>1 DEF Scored
  <2>6. <<u, v>> \in RankOrder({u, v}) BY <2>2, <2>3, <2>4 DEF RankOrder
  <2>7. PICK m \in DOMAIN ranked : ranked[m] = u BY <1>8, <2>5
  <2>8. PICK n \in DOMAIN ranked : ranked[n] = v BY <1>8, <2>5
  <2>9. m < n BY <1>8, <2>5, <2>6, <2>7, <2>8
  <2>10. m \in {1, 2} /\ n \in {1, 2} BY <1>11, <1>13
  <2>11. m = 1 BY <2>9, <2>10
  <2> QED BY <2>2, <2>7, <2>11
<1> QED BY <1>8, <1>12, <1>13 DEF records, ranked, count, a, b

(* Insights: lists of them in the order of their severity.                 *)
Insight == [severity : DOMAIN SEVERITY_RANK, title : Nat]

SeverityOf(insight) == SEVERITY_RANK[insight.severity]

LEMMA Severities ==
    ASSUME NEW a \in Insight, NEW b \in Insight
    PROVE  /\ SeverityOf(a) \in 0..2 /\ a.title \in Nat
           /\ SeverityOf(a) = SeverityOf(b) <=> a.severity = b.severity
BY DEF Insight, SeverityOf, SEVERITY_RANK

PlaceOrder(insights, places) ==
    {p \in places \X places :
        \/ Sooner(insights[p[1]], insights[p[2]])
        \/ ~Sooner(insights[p[2]], insights[p[1]]) /\ p[1] < p[2]}

LEMMA PlacesOrdered ==
    ASSUME NEW insights \in Seq(Insight)
    PROVE  StrictOrder(DOMAIN insights, PlaceOrder(insights, DOMAIN insights))
<1>1. PICK S : S = DOMAIN insights OBVIOUS
<1>2. PICK N \in Nat : S = 1..N BY <1>1
<1>3. PICK v : v = [n \in S |-> SeverityOf(insights[n])] OBVIOUS
<1>4. PICK t : t = [n \in S |-> insights[n].title] OBVIOUS
<1>5. /\ v \in [S -> 0..2] /\ t \in [S -> Nat]
      /\ \A m, n \in S : v[m] = v[n] <=> insights[m].severity = insights[n].severity
  BY <1>1, <1>3, <1>4, Severities
<1>6. \A m, n \in S : Sooner(insights[m], insights[n]) <=>
                          v[m] < v[n] \/ (v[m] = v[n] /\ t[m] < t[n])
  BY <1>3, <1>4, <1>5 DEF Sooner, SeverityOf
<1>7. PICK order : order = PlaceOrder(insights, S) OBVIOUS
<1>8. \A m, n \in S :
          <<m, n>> \in order <=>
              \/ v[m] < v[n]
              \/ v[m] = v[n] /\ (t[m] < t[n] \/ (t[m] = t[n] /\ m < n))
  <2> SUFFICES ASSUME NEW m \in S, NEW n \in S
               PROVE  <<m, n>> \in order <=>
                          \/ v[m] < v[n]
                          \/ v[m] = v[n] /\ (t[m] < t[n] \/ (t[m] = t[n] /\ m < n))
    OBVIOUS
  <2>1. <<m, n>> \in order <=>
            \/ Sooner(insights[m], insights[n])
            \/ ~Sooner(insights[n], insights[m]) /\ m < n
    BY <1>7 DEF PlaceOrder
  <2>2. v[m] \in 0..2 /\ v[n] \in 0..2 /\ t[m] \in Nat /\ t[n] \in Nat BY <1>5
  <2> QED BY <1>2, <1>6, <2>1, <2>2
<1>9. \A n \in S : v[n] \in 0..2 /\ t[n] \in Nat /\ n \in Nat BY <1>2, <1>5
<1>10. \A m \in S : <<m, m>> \notin order BY <1>8, <1>9
<1>11. \A m, n \in S : m # n => <<m, n>> \in order \/ <<n, m>> \in order BY <1>8, <1>9
<1>12. \A l, m, n \in S : <<l, m>> \in order /\ <<m, n>> \in order => <<l, n>> \in order
  <2> SUFFICES ASSUME NEW l \in S, NEW m \in S, NEW n \in S, <<l, m>> \in order, <<m, n>> \in order
               PROVE  <<l, n>> \in order
    OBVIOUS
  <2>1. PICK a, b, c \in 0..2 : a = v[l] /\ b = v[m] /\ c = v[n] BY <1>9
  <2>2. PICK i, j, k \in Nat : i = t[l] /\ j = t[m] /\ k = t[n] BY <1>9
  <2>3. /\ a < b \/ (a = b /\ (i < j \/ (i = j /\ l < m)))
        /\ b < c \/ (b = c /\ (j < k \/ (j = k /\ m < n)))
    BY <1>8, <2>1, <2>2
  <2>4. l \in Nat /\ m \in Nat /\ n \in Nat BY <1>9
  <2>5. a < c \/ (a = c /\ (i < k \/ (i = k /\ l < n))) BY <2>3, <2>4
  <2> QED BY <1>8, <2>1, <2>2, <2>5
<1> QED BY <1>1, <1>7, <1>10, <1>11, <1>12 DEF StrictOrder

(* Sorted, the insights are the same and the severe ones come first.       *)
LEMMA InsightsSorted ==
    ASSUME NEW insights \in Seq(Insight)
    PROVE  /\ sortInsightsBySeverity(insights) \in Seq(Insight)
           /\ Len(sortInsightsBySeverity(insights)) = Len(insights)
           /\ ToSet(sortInsightsBySeverity(insights)) = ToSet(insights)
           /\ \A m, n \in 1..Len(insights) :
                  m < n => SeverityOf(sortInsightsBySeverity(insights)[m]) <=
                               SeverityOf(sortInsightsBySeverity(insights)[n])
<1>1. PICK N \in Nat : N = Len(insights) /\ DOMAIN insights = 1..N OBVIOUS
<1>2. PICK S : S = 1..N OBVIOUS
<1>3. IsFiniteSet(S) /\ Cardinality(S) = N
  <2>1. 1 \in Int /\ N \in Int OBVIOUS
  <2>2. IsFiniteSet(1..N) /\ Cardinality(1..N) = IF 1 > N THEN 0 ELSE N - 1 + 1
    BY <2>1, FS_Interval
  <2> QED BY <1>2, <2>2
<1>4. PICK order : order = PlaceOrder(insights, S) OBVIOUS
<1>5. StrictOrder(S, order) BY <1>1, <1>2, <1>4, PlacesOrdered
<1>6. PICK s : s = InOrder(S, order) OBVIOUS
<1>7. /\ Cardinality(S) \in Nat
      /\ InOrder(S, order) \in [1..Cardinality(S) -> S]
      /\ \A x \in S : \E n \in 1..Cardinality(S) : InOrder(S, order)[n] = x
      /\ \A m, n \in 1..Cardinality(S) :
             m < n <=> <<InOrder(S, order)[m], InOrder(S, order)[n]>> \in order
  BY <1>3, <1>5, InOrderSorts
<1>8. /\ s \in [S -> S] /\ \A x \in S : \E n \in S : s[n] = x
      /\ \A m, n \in S : m < n <=> <<s[m], s[n]>> \in order
  BY <1>2, <1>3, <1>6, <1>7
<1>9. PICK sorted : sorted = sortInsightsBySeverity(insights) OBVIOUS
<1>10. sorted = [n \in S |-> insights[s[n]]]
  <2>1. PICK places : places = DOMAIN insights OBVIOUS
  <2>2. sorted = [n \in places |-> insights[InOrder(places, PlaceOrder(insights, places))[n]]]
    BY <1>9, <2>1, Zenon DEF sortInsightsBySeverity, PlaceOrder
  <2>3. places = S BY <1>1, <1>2, <2>1
  <2> QED BY <1>4, <1>6, <2>2, <2>3
<1>11. \A n \in S : insights[s[n]] \in Insight
  <2>1. insights \in [S -> Insight] BY <1>1, <1>2
  <2> QED BY <1>8, <2>1
<1>12. sorted \in [1..N -> Insight] BY <1>2, <1>10, <1>11
<1>13. sorted \in Seq(Insight) /\ Len(sorted) = N BY <1>12
<1>14. ToSet(sorted) = ToSet(insights)
  <2>1. ASSUME NEW x \in ToSet(sorted) PROVE x \in ToSet(insights)
    <3>1. PICK n \in S : x = sorted[n] BY <1>2, <1>12 DEF ToSet
    <3> QED BY <1>1, <1>2, <1>8, <1>10, <3>1 DEF ToSet
  <2>2. ASSUME NEW x \in ToSet(insights) PROVE x \in ToSet(sorted)
    <3>1. PICK m \in S : x = insights[m] BY <1>1, <1>2 DEF ToSet
    <3>2. PICK n \in S : s[n] = m BY <1>8
    <3>3. sorted[n] = x /\ n \in DOMAIN sorted BY <1>10, <3>1, <3>2
    <3> QED BY <3>3 DEF ToSet
  <2> QED BY <2>1, <2>2
<1>15. ASSUME NEW m \in S, NEW n \in S, m < n
       PROVE  SeverityOf(sorted[m]) <= SeverityOf(sorted[n])
  <2>1. PICK a, b : a = sorted[m] /\ b = sorted[n] OBVIOUS
  <2>2. a = insights[s[m]] /\ b = insights[s[n]] BY <1>10, <2>1
  <2>3. <<s[m], s[n]>> \in order BY <1>8, <1>15
  <2>4. Sooner(a, b) \/ ~Sooner(b, a) BY <1>4, <2>2, <2>3 DEF PlaceOrder
  <2>5. a \in Insight /\ b \in Insight BY <1>11, <2>2
  <2>6. SeverityOf(a) \in 0..2 /\ SeverityOf(b) \in 0..2 BY <2>5, Severities
  <2>7. SeverityOf(a) < SeverityOf(b) => Sooner(a, b) BY DEF Sooner, SeverityOf
  <2>8. SeverityOf(b) < SeverityOf(a) => Sooner(b, a) BY DEF Sooner, SeverityOf
  <2>9. Sooner(a, b) => SeverityOf(a) <= SeverityOf(b)
    BY <2>5, <2>6, Severities DEF Sooner, SeverityOf
  <2> QED BY <2>1, <2>4, <2>6, <2>8, <2>9
<1> QED BY <1>1, <1>2, <1>9, <1>13, <1>14, <1>15

(* The severity reported is that of some insight none of which is worse.   *)
LEMMA HighestIsWorst ==
    ASSUME NEW insights \in Seq(Insight), NEW worst \in ToSet(insights),
           \A x \in ToSet(insights) : SeverityOf(worst) <= SeverityOf(x)
    PROVE  highestSeverity(insights) = worst.severity
<1>1. PICK sorted : sorted = sortInsightsBySeverity(insights) OBVIOUS
<1>2. /\ sorted \in Seq(Insight) /\ Len(sorted) = Len(insights)
      /\ ToSet(sorted) = ToSet(insights)
      /\ \A m, n \in 1..Len(insights) :
             m < n => SeverityOf(sorted[m]) <= SeverityOf(sorted[n])
  BY <1>1, InsightsSorted
<1>3. PICK k \in 1..Len(sorted) : sorted[k] = worst
  <2>1. DOMAIN sorted = 1..Len(sorted) BY <1>2
  <2>2. worst \in ToSet(sorted) BY <1>2
  <2> QED BY <2>1, <2>2 DEF ToSet
<1>4. 1 \in 1..Len(sorted) /\ sorted[1] \in ToSet(insights) /\ insights # << >>
  <2>1. Len(sorted) \in Nat BY <1>2
  <2>2. 1 \in 1..Len(sorted) BY <1>3, <2>1
  <2>3. sorted[1] \in ToSet(sorted) BY <1>2, <2>2 DEF ToSet
  <2> QED BY <1>2, <2>2, <2>3
<1>5. worst \in Insight /\ sorted[1] \in Insight BY <1>2, <1>3, <1>4
<1>6. SeverityOf(worst) <= SeverityOf(sorted[1]) BY <1>4
<1>7. SeverityOf(sorted[1]) <= SeverityOf(worst)
  <2>1. CASE k = 1 BY <1>3, <1>5, <2>1, Severities
  <2>2. CASE k # 1
    <3>1. 1 < k /\ k \in 1..Len(insights) BY <1>2, <1>3, <2>2
    <3>2. SeverityOf(sorted[1]) <= SeverityOf(sorted[k]) BY <1>2, <1>4, <3>1
    <3> QED BY <1>3, <3>2
  <2> QED BY <2>1, <2>2
<1>8. sorted[1].severity = worst.severity BY <1>5, <1>6, <1>7, Severities
<1> QED BY <1>1, <1>4, <1>8 DEF highestSeverity

LEMMA FlattenTwo ==
    ASSUME NEW l \in Seq(Insight), NEW r \in Seq(Insight)
    PROVE  FlattenSeq(<<l, r>>) = l \o r
<1>1. PICK seqs : seqs = <<l, r>> OBVIOUS
<1>2. Len(seqs) = 2 /\ seqs[1] = l /\ seqs[2] = r BY <1>1
<1>3. PICK f : f = CHOOSE h : h = [i \in 1..2 |-> IF i = 1 THEN seqs[i] ELSE h[i - 1] \o seqs[i]]
  OBVIOUS
<1>4. PICK g : g = [i \in 1..2 |-> IF i = 1 THEN l ELSE l \o r] OBVIOUS
<1>5. g = [i \in 1..2 |-> IF i = 1 THEN seqs[i] ELSE g[i - 1] \o seqs[i]]
  <2>1. \A i \in 1..2 : i = 1 \/ i = 2 OBVIOUS
  <2>2. g[1] = l BY <1>4
  <2>3. \A i \in 1..2 : (IF i = 1 THEN l ELSE l \o r) =
                            (IF i = 1 THEN seqs[i] ELSE g[i - 1] \o seqs[i])
    BY <1>2, <2>1, <2>2
  <2> QED BY <1>4, <2>3, Zenon
<1>6. f = [i \in 1..2 |-> IF i = 1 THEN seqs[i] ELSE f[i - 1] \o seqs[i]]
  BY <1>3, <1>5, Zenon
<1>7. f[1] = l BY <1>2, <1>6
<1>8. f[2] = f[1] \o seqs[2]
  <2>1. 2 \in 1..2 /\ 2 # 1 /\ 2 - 1 = 1 OBVIOUS
  <2>2. f[2] = IF 2 = 1 THEN seqs[2] ELSE f[2 - 1] \o seqs[2] BY <1>6, <2>1, Zenon
  <2> QED BY <2>1, <2>2
<1>9. FlattenSeq(seqs) = f[2] BY <1>2, <1>3 DEF FlattenSeq
<1> QED BY <1>1, <1>2, <1>7, <1>8, <1>9

LEMMA ToSetOfBoth ==
    ASSUME NEW l \in Seq(Insight), NEW r \in Seq(Insight)
    PROVE  ToSet(l \o r) = ToSet(l) \cup ToSet(r)
<1>1. l \o r \in Seq(Insight) /\ Len(l \o r) = Len(l) + Len(r) OBVIOUS
<1>2. ASSUME NEW x \in ToSet(l \o r) PROVE x \in ToSet(l) \cup ToSet(r)
  <2>1. PICK n \in 1..(Len(l) + Len(r)) : x = (l \o r)[n] BY <1>1 DEF ToSet
  <2>2. CASE n <= Len(l)
    <3>1. n \in 1..Len(l) /\ x = l[n] BY <2>1, <2>2
    <3> QED BY <3>1 DEF ToSet
  <2>3. CASE n > Len(l)
    <3>1. n - Len(l) \in 1..Len(r) /\ x = r[n - Len(l)] BY <2>1, <2>3
    <3> QED BY <3>1 DEF ToSet
  <2> QED BY <2>1, <2>2, <2>3
<1>3. ASSUME NEW x \in ToSet(l) PROVE x \in ToSet(l \o r)
  <2>1. PICK n \in 1..Len(l) : x = l[n] BY DEF ToSet
  <2>2. n \in 1..Len(l \o r) /\ x = (l \o r)[n] BY <1>1, <2>1
  <2> QED BY <1>1, <2>2 DEF ToSet
<1>4. ASSUME NEW x \in ToSet(r) PROVE x \in ToSet(l \o r)
  <2>1. PICK n \in 1..Len(r) : x = r[n] BY DEF ToSet
  <2>2. Len(l) + n \in 1..Len(l \o r) /\ x = (l \o r)[Len(l) + n] BY <1>1, <2>1
  <2> QED BY <1>1, <2>2 DEF ToSet
<1> QED BY <1>2, <1>3, <1>4

(* Whatever two providers say, up to any limit: nothing is left out for    *)
(* something less severe, and the worst severity stays.                    *)
LEMMA LimitKeepsSevere ==
    ASSUME NEW l \in Seq(Insight), NEW r \in Seq(Insight), NEW limit \in Nat \ {0},
           NEW answer, answer = getInsights(<<l, r>>, limit)
    PROVE  /\ highestSeverity(answer) = highestSeverity(r \o l)
           /\ \A i \in ToSet(l \o r) \ ToSet(answer), j \in ToSet(answer) :
                  SEVERITY_RANK[j.severity] <= SEVERITY_RANK[i.severity]
<1>1. PICK all : all = l \o r OBVIOUS
<1>2. all \in Seq(Insight) BY <1>1
<1>3. PICK N \in Nat : N = Len(all) BY <1>2
<1>4. PICK sorted : sorted = sortInsightsBySeverity(all) OBVIOUS
<1>5. /\ sorted \in Seq(Insight) /\ Len(sorted) = N /\ ToSet(sorted) = ToSet(all)
      /\ \A m, n \in 1..N : m < n => SeverityOf(sorted[m]) <= SeverityOf(sorted[n])
  BY <1>2, <1>3, <1>4, InsightsSorted
<1>6. PICK last : last = IF limit < N THEN limit ELSE N OBVIOUS
<1>7. last \in 0..N /\ (N > 0 => last > 0) BY <1>6
<1>8. answer = SubSeq(sorted, 1, last)
  <2>1. FlattenSeq(<<l, r>>) = all BY <1>1, FlattenTwo
  <2> QED BY <1>4, <1>5, <1>6, <2>1 DEF getInsights
<1>9. /\ answer \in Seq(Insight) /\ Len(answer) = last
      /\ \A i \in 1..last : answer[i] = sorted[i]
  <2>1. \A i \in 1..last : sorted[i] \in Insight BY <1>5, <1>7
  <2>2. 1 \in Int /\ last \in Int BY <1>7
  <2>3. /\ SubSeq(sorted, 1, last) \in Seq(Insight)
        /\ Len(SubSeq(sorted, 1, last)) = IF 1 <= last THEN last - 1 + 1 ELSE 0
        /\ \A i \in 1..(last - 1 + 1) : SubSeq(sorted, 1, last)[i] = sorted[1 + i - 1]
    BY <2>1, <2>2, SubSeqProperties
  <2>4. last - 1 + 1 = last BY <1>7
  <2>5. Len(answer) = last BY <1>7, <1>8, <2>3, <2>4
  <2>6. ASSUME NEW i \in 1..last PROVE answer[i] = sorted[i]
    <3>1. 1 + i - 1 = i OBVIOUS
    <3> QED BY <1>8, <2>3, <2>4, <3>1
  <2> QED BY <1>8, <2>3, <2>5, <2>6
<1>10. \A m \in 1..N : sorted[m] \in Insight /\ SeverityOf(sorted[m]) \in 0..2
  BY <1>5, Severities
<1>11. ASSUME NEW i \in ToSet(all) \ ToSet(answer), NEW j \in ToSet(answer)
       PROVE  SeverityOf(j) <= SeverityOf(i)
  <2>1. DOMAIN sorted = 1..N /\ DOMAIN answer = 1..last BY <1>5, <1>9
  <2>2. PICK m \in 1..N : i = sorted[m] BY <1>5, <2>1 DEF ToSet
  <2>3. PICK n \in 1..last : j = sorted[n] BY <1>9, <2>1 DEF ToSet
  <2>4. ~(m <= last)
    <3> SUFFICES ASSUME m <= last PROVE FALSE OBVIOUS
    <3>1. m \in 1..last BY <1>7
    <3>2. answer[m] = i BY <1>9, <2>2, <3>1
    <3> QED BY <2>1, <3>1, <3>2 DEF ToSet
  <2>5. n < m /\ n \in 1..N BY <1>7, <2>4
  <2> QED BY <1>5, <2>2, <2>3, <2>5
<1>12. highestSeverity(answer) = highestSeverity(r \o l)
  <2>1. r \o l \in Seq(Insight) /\ ToSet(r \o l) = ToSet(all)
    <3>1. r \o l \in Seq(Insight) OBVIOUS
    <3>2. ToSet(r \o l) = ToSet(r) \cup ToSet(l) BY ToSetOfBoth
    <3>3. ToSet(all) = ToSet(l) \cup ToSet(r) BY <1>1, ToSetOfBoth
    <3> QED BY <3>1, <3>2, <3>3
  <2>2. CASE N = 0
    <3>1. answer = << >> BY <1>7, <1>9, <2>2
    <3>2. r \o l = << >>
      <4>0. Len(l) \in Nat /\ Len(r) \in Nat /\ Len(l \o r) = Len(l) + Len(r) OBVIOUS
      <4>4. PICK a, b \in Nat : a = Len(l) /\ b = Len(r) BY <4>0
      <4>1. a + b = 0 BY <1>1, <1>3, <2>2, <4>0, <4>4
      <4>3. Len(l) = 0 /\ Len(r) = 0 BY <4>1, <4>4
      <4>2. l = << >> /\ r = << >> BY <4>3
      <4> QED BY <4>2
    <3> QED BY <3>1, <3>2
  <2>3. CASE N > 0
    <3>1. PICK worst : worst = sorted[1] OBVIOUS
    <3>2. 1 \in 1..last /\ 1 \in 1..N BY <1>7, <2>3
    <3>3. worst \in ToSet(answer) /\ worst \in ToSet(all)
      <4>1. DOMAIN sorted = 1..N /\ DOMAIN answer = 1..last BY <1>5, <1>9
      <4>2. worst = answer[1] BY <1>9, <3>1, <3>2
      <4> QED BY <1>5, <3>1, <3>2, <4>1, <4>2 DEF ToSet
    <3>4. ASSUME NEW x \in ToSet(all) PROVE SeverityOf(worst) <= SeverityOf(x)
      <4>1. PICK m \in 1..N : x = sorted[m]
        <5>1. DOMAIN sorted = 1..N /\ x \in ToSet(sorted) BY <1>5
        <5> QED BY <5>1 DEF ToSet
      <4>2. CASE m = 1 BY <1>10, <3>1, <3>2, <4>1, <4>2
      <4>3. CASE 1 < m BY <1>5, <3>1, <3>2, <4>1, <4>3
      <4> QED BY <4>2, <4>3
    <3>5. ToSet(answer) \subseteq ToSet(all)
      <4>1. ASSUME NEW x \in ToSet(answer) PROVE x \in ToSet(all)
        <5>0. DOMAIN answer = 1..last BY <1>9
        <5>1. PICK m \in 1..last : x = sorted[m] BY <1>9, <5>0 DEF ToSet
        <5>2. m \in DOMAIN sorted BY <1>5, <1>7
        <5> QED BY <1>5, <5>1, <5>2 DEF ToSet
      <4> QED BY <4>1
    <3>6. highestSeverity(answer) = worst.severity BY <1>9, <3>3, <3>4, <3>5, HighestIsWorst
    <3>7. highestSeverity(r \o l) = worst.severity BY <2>1, <3>3, <3>4, HighestIsWorst
    <3> QED BY <3>6, <3>7
  <2> QED BY <2>2, <2>3
<1> QED BY <1>1, <1>11, <1>12 DEF SeverityOf

(* A limit on insights cuts the least severe, whoever they come from.      *)
THEOREM SevereStayFirst == SevereFirst
<1> DEFINE Insights == [severity : DOMAIN SEVERITY_RANK, title : 1..2]
<1>1. Insights \subseteq Insight BY DEF Insight
<1>2. \A s \in BoundedSeq(Insights, 2) : s \in Seq(Insight)
  <2> SUFFICES ASSUME NEW s \in BoundedSeq(Insights, 2) PROVE s \in Seq(Insight) OBVIOUS
  <2>1. PICK m \in 0..2 : s \in [1..m -> Insights] BY DEF BoundedSeq, SeqOf
  <2>2. s \in [1..m -> Insight] BY <1>1, <2>1
  <2> QED BY <2>2
<1>3. \A limit \in 1..3 : limit \in Nat \ {0} OBVIOUS
<1>4. SUFFICES ASSUME NEW l \in BoundedSeq(Insights, 2), NEW r \in BoundedSeq(Insights, 2),
                      NEW limit \in 1..3
               PROVE  LET answer == getInsights(<<l, r>>, limit) IN
                      /\ highestSeverity(answer) = highestSeverity(r \o l)
                      /\ \A i \in ToSet(l \o r) \ ToSet(answer), j \in ToSet(answer) :
                             SEVERITY_RANK[j.severity] <= SEVERITY_RANK[i.severity]
  BY Zenon DEF SevereFirst
<1> QED BY <1>2, <1>3, LimitKeepsSevere

(* What a search of rows of different ids answers can be paged.            *)
LEMMA SearchAnswers ==
    ASSUME NEW query, query.minMatchScore \in {Null, 60}, query.jobId = 3,
           NEW candidates \in Distinct(SomeRows(1..2, {Null, 59, 60})),
           NEW jobs \in Distinct(SomeRows(3..4, {Null}))
    PROVE  Hits(search(query, candidates, jobs))
<1>1. PICK hits : hits = search(query, candidates, jobs) OBVIOUS
<1>2. PICK scored : scored = IF query.minMatchScore # Null THEN 1 ELSE 0 OBVIOUS
<1>3. ASSUME NEW h \in hits
      PROVE  \/ \E row \in candidates :
                    h = [type |-> "candidate", id |-> row.id,
                         score |-> IF scored = 1 THEN row.score ELSE Null]
             \/ \E row \in jobs : h = [type |-> "job", id |-> row.id, score |-> Null]
  <2>1. query.jobId # Null BY MatchingAssumption
  <2> QED BY <1>1, <1>2, <2>1 DEF search
<1>4. /\ \A row \in candidates : row.id \in 1..2 /\ row.score \in {Null, 59, 60}
      /\ \A row \in jobs : row.id \in 3..4
      /\ \A a, b \in candidates : a.id = b.id => a = b
      /\ \A a, b \in jobs : a.id = b.id => a = b
  BY DEF Distinct, SomeRows
<1>5. ASSUME NEW h \in hits PROVE h \in Hit /\ h.id \in 1..4
  <2>1. CASE \E row \in candidates :
                 h = [type |-> "candidate", id |-> row.id,
                      score |-> IF scored = 1 THEN row.score ELSE Null]
    BY <1>4, <2>1 DEF Hit
  <2>2. CASE \E row \in jobs : h = [type |-> "job", id |-> row.id, score |-> Null]
    BY <1>4, <2>2 DEF Hit
  <2> QED BY <1>3, <2>1, <2>2
<1>6. ASSUME NEW a \in hits, NEW b \in hits, a.id = b.id PROVE a = b
  <2>1. CASE a.id \in 1..2
    <3>1. ~(\E row \in jobs : a = [type |-> "job", id |-> row.id, score |-> Null])
      BY <1>4, <2>1
    <3>2. ~(\E row \in jobs : b = [type |-> "job", id |-> row.id, score |-> Null])
      BY <1>4, <1>6, <2>1
    <3>3. PICK row \in candidates :
               a = [type |-> "candidate", id |-> row.id,
                    score |-> IF scored = 1 THEN row.score ELSE Null]
      BY <1>3, <3>1
    <3>4. PICK other \in candidates :
               b = [type |-> "candidate", id |-> other.id,
                    score |-> IF scored = 1 THEN other.score ELSE Null]
      BY <1>3, <3>2
    <3>5. row = other BY <1>4, <1>6, <3>3, <3>4
    <3> QED BY <3>3, <3>4, <3>5
  <2>2. CASE a.id \notin 1..2
    <3>1. PICK row \in jobs : a = [type |-> "job", id |-> row.id, score |-> Null]
      BY <1>3, <1>4, <2>2
    <3>2. PICK other \in jobs : b = [type |-> "job", id |-> other.id, score |-> Null]
      BY <1>3, <1>4, <1>6, <2>2
    <3> QED BY <1>6, <3>1, <3>2
  <2> QED BY <2>1, <2>2
<1>7. IsFiniteSet(hits)
  <2>1. PICK f : f = [h \in hits |-> h.id] OBVIOUS
  <2>2. f \in Injection(hits, 1..4) BY <1>5, <1>6, <2>1 DEF Injection, IsInjective
  <2>3. 1 \in Int /\ 4 \in Int OBVIOUS
  <2>4. IsFiniteSet(1..4) BY <2>3, FS_Interval
  <2> QED BY <2>2, <2>4, FS_Injection
<1> QED BY <1>1, <1>5, <1>6, <1>7 DEF Hits

LEMMA QueriesAsked == Queries \subseteq SearchQuery
<1>1. \A w \in Words \cup Skills \cup {Null}, y \in Years \cup {Null},
         l \in EnglishLevels \cup {Null} : TextQuery(w, y, l) \in SearchQuery
  BY DEF TextQuery, AnyQuery, SearchQuery
<1>2. \A S \in SUBSET Skills, m \in Salaries \cup {Null}, n \in Salaries \cup {Null},
         w \in Words \cup {Null} : RangeQuery(S, m, n, w) \in SearchQuery
  BY DEF RangeQuery, AnyQuery, SearchQuery
<1>3. ASSUME NEW n \in {0, 60}, NEW y \in Years \cup {Null}
      PROVE  ScoreQuery(n, y) \in SearchQuery
  <2>1. n \in (0..100) \cup {Null} OBVIOUS
  <2> QED BY <2>1 DEF ScoreQuery, AnyQuery, SearchQuery
<1>4. ASSUME NEW query \in Queries PROVE query \in SearchQuery
  <2>1. \/ query \in {TextQuery(w, y, l) : w \in Words \cup Skills \cup {Null},
                            y \in Years \cup {Null}, l \in EnglishLevels \cup {Null}}
        \/ query \in {RangeQuery(S, m, n, w) : S \in SUBSET Skills, m \in Salaries \cup {Null},
                            n \in Salaries \cup {Null}, w \in Words \cup {Null}}
        \/ query \in {ScoreQuery(n, y) : n \in {0, 60}, y \in Years \cup {Null}}
    BY DEF Queries
  <2>2. ASSUME query \in {TextQuery(w, y, l) : w \in Words \cup Skills \cup {Null},
                            y \in Years \cup {Null}, l \in EnglishLevels \cup {Null}}
        PROVE  query \in SearchQuery
    <3>1. PICK A, B, C : /\ A = Words \cup Skills \cup {Null} /\ B = Years \cup {Null}
                         /\ C = EnglishLevels \cup {Null} OBVIOUS
    <3>2. query \in {TextQuery(w, y, l) : w \in A, y \in B, l \in C} BY <2>2, <3>1
    <3> QED BY <1>1, <3>1, <3>2
  <2>3. ASSUME query \in {RangeQuery(S, m, n, w) : S \in SUBSET Skills, m \in Salaries \cup {Null},
                            n \in Salaries \cup {Null}, w \in Words \cup {Null}}
        PROVE  query \in SearchQuery
    BY <1>2, <2>3
  <2>4. ASSUME query \in {ScoreQuery(n, y) : n \in {0, 60}, y \in Years \cup {Null}}
        PROVE  query \in SearchQuery
    BY <1>3, <2>4
  <2> QED BY <2>1, <2>2, <2>3, <2>4
<1> QED BY <1>4

LEMMA SearchesStable == SearchStable
<1>1. \A stages \in {{}, Words} : FindsTheBetter(Queries, {}, stages, {Null, 59, 60})
  <2> SUFFICES ASSUME NEW stages
               PROVE  FindsTheBetter(Queries, {}, stages, {Null, 59, 60})
    OBVIOUS
  <2>1. {Null, 59, 60} \in SUBSET ((0..100) \cup {Null}) OBVIOUS
  <2>2. FindsTheBetter(SearchQuery, {}, stages, {Null, 59, 60})
    BY <2>1, SearchFindsTheBetter
  <2>3. \A query \in Queries : query \in SearchQuery BY QueriesAsked
  <2> QED BY <2>2, <2>3 DEF FindsTheBetter
<1>2. ASSUME NEW candidates \in Distinct(SomeRows(1..2, {Null, 59, 60})),
             NEW jobs \in Distinct(SomeRows(3..4, {Null})),
             NEW type \in {"all", "candidate", "job"}, NEW min \in {Null, 60},
             NEW limit \in {0, 1, 2, 3}
      PROVE  PagesWhole(search([AnyQuery EXCEPT !.type = type, !.minMatchScore = min, !.jobId = 3],
                               candidates, jobs), min # Null, limit)
  <2>1. PICK query : query = [AnyQuery EXCEPT !.type = type, !.minMatchScore = min, !.jobId = 3]
    OBVIOUS
  <2>2. query.minMatchScore \in {Null, 60} /\ query.jobId = 3 BY <2>1 DEF AnyQuery
  <2>3. Hits(search(query, candidates, jobs)) BY <2>2, SearchAnswers
  <2>4. limit \in Nat \cup {Null} OBVIOUS
  <2>5. CASE min = Null
    <3>1. PagesWhole(search(query, candidates, jobs), FALSE, limit)
      BY <2>3, <2>4, PagesAreWhole
    <3> QED BY <2>1, <2>5, <3>1
  <2>6. CASE min # Null
    <3>1. PagesWhole(search(query, candidates, jobs), TRUE, limit)
      BY <2>3, <2>4, PagesAreWhole
    <3> QED BY <2>1, <2>6, <3>1
  <2> QED BY <2>5, <2>6
<1> QED BY <1>1, <1>2, SalariesAsMatched, MatchesAreRanked DEF SearchStable

(* Whatever the readers say while one handler at a time changes the        *)
(* relationships: scores have their place in the distribution, better      *)
(* candidates are never scored, found, listed or paged behind, no severe   *)
(* insight is cut, and a draft names a stage there was.                    *)
THEOREM ReadersAreSound ==
    ASSUME NEW r, Requests = {r}
    PROVE  ReadersSpec => []ReadersSound
<1>1. ScoresOrdered
  BY BetterScoresNoLess, SearchesStable, SevereStayFirst DEF ScoresOrdered
<1>2. ReadersSpec => []ScoresPlaced BY ScoresArePlaced
<1>3. ReadersSpec => []DraftsTrue BY DraftsStayTrue
<1>4. ScoresPlaced /\ DraftsTrue => ReadersSound
  BY <1>1 DEF ReadersSound, ScoresSound
<1> QED BY <1>2, <1>3, <1>4, PTL
=============================================================================
