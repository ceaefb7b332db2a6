---------------------- MODULE CandidateKnowledge_proofs ----------------------
(***************************************************************************)
(* Invariants of CandidateKnowledge, of what ReviewView shows of it and of *)
(* what ReviewMetrics adds to it, for every number of candidates, fields   *)
(* and requests.                                                           *)
(*                                                                         *)
(* A handler saves a row it built from one it read before, so the first    *)
(* invariant, IInv, also says that the rows requests hold are sound, and   *)
(* that an import is alone with its candidate until it has saved it.  The  *)
(* second, Truth, says what the revisions of sound rows tell of their      *)
(* values, and, for candidates nothing disturbed, that the one request at  *)
(* work holds what is saved and how far its set lags behind its record.    *)
(* The third (Adding, QualifiedWell, TrailWell) says of the telemetry what *)
(* sessions may still report, what requests may still qualify and what the *)
(* sets that requests hold owe to it.                                      *)
(***************************************************************************)
EXTENDS ReviewMetrics, SequenceTheorems, FiniteSetTheorems, TLAPS

Held(record) == record \in Record /\ RecordSound(record)

(* A record with the fields whose revisions are still to be recorded.      *)
Pending(record, todo) == Held(record) /\ \A f \in todo : record.fields[f].verified

RequestOK(q) ==
    /\ q.at \in {"saveCandidate", "seed"} => q.command \in ImportCommand
    /\ q.at = "saveRecord" => q.command \in RecordCommand /\ Held(q.record)
    /\ q.at = "readSet" => q.todo # {} /\ Pending(q.record, q.todo)
    /\ q.at = "saveSet" =>
          /\ q.set \in Set /\ SetSound(q.set)
          /\ IF q.todo = {} THEN q.command \in SetCommand ELSE Pending(q.record, q.todo)

RequestsOK == \A r \in Slots : request[r] # None => RequestOK(request[r])

(* An import is alone with its candidate until it has saved it. *)
ImportAlone ==
    \A r \in Slots : At(r, "saveCandidate") =>
        /\ records[request[r].candidate] = None
        /\ \A s \in Slots \ {r} : request[s] # None => request[s].candidate # request[r].candidate

(* Everything else happens to candidates that have a record. *)
Recorded ==
    /\ \A c \in Candidates : sets[c] # None => records[c] # None
    /\ \A r \in Slots :
          request[r] # None /\ request[r].at # "saveCandidate" =>
              records[request[r].candidate] # None

IInv == TypeOK /\ RecordsSound /\ SetsSound /\ RequestsOK /\ ImportAlone /\ Recorded

-----------------------------------------------------------------------------
(* Fields of a record.                                                     *)

(* What a review, or nothing, makes of a field.                            *)
Reviewed(k, new) ==
    /\ new \in FieldKnowledge /\ FieldSound(new) /\ new.verified
    /\ Longer(k.revisions, new.revisions)

(* A revision is appended, and tells the value and the verdict.            *)
LEMMA RevisedFacts ==
    ASSUME NEW k \in FieldKnowledge, NEW value \in Values, NEW action \in Actions
    PROVE  LET new == Revised(k, value, action) IN
           /\ new \in FieldKnowledge
           /\ Len(new.revisions) = Len(k.revisions) + 1
           /\ new.revisions[Len(new.revisions)].value = value
           /\ new.revisions[Len(new.revisions)].action = action
           /\ Longer(k.revisions, new.revisions)
           /\ new.verified /\ (new.rejected <=> action = "reject")
           /\ new.original = k.original /\ new.current = k.current
           /\ new.edited = k.edited /\ new.reviewed = k.reviewed
<1>1. PICK e : e = [value |-> value, action |-> action] OBVIOUS
<1>2. e \in FieldRevision /\ e.value = value /\ e.action = action BY <1>1 DEF FieldRevision
<1>3. PICK h : h = k.revisions OBVIOUS
<1>4. h \in Seq(FieldRevision) /\ Len(h) \in Nat BY <1>3 DEF FieldKnowledge
<1>5. PICK g : g = Append(h, e) OBVIOUS
<1>6. /\ g \in Seq(FieldRevision) /\ Len(g) = Len(h) + 1 /\ g[Len(g)] = e
      /\ \A n \in 1..Len(h) : g[n] = h[n]
  BY <1>2, <1>4, <1>5
<1>7. SubSeq(g, 1, Len(h)) = h
  BY <1>4, <1>6
<1>8. Longer(h, g) BY <1>4, <1>6, <1>7 DEF Longer
<1>9. PICK new : new = Revised(k, value, action) OBVIOUS
<1>10. new = [k EXCEPT !.revisions = g, !.verified = TRUE, !.rejected = (action = "reject")]
  BY <1>1, <1>3, <1>5, <1>9 DEF Revised
<1>11. /\ new \in FieldKnowledge
       /\ new.revisions = g /\ new.verified = TRUE /\ new.rejected = (action = "reject")
       /\ new.original = k.original /\ new.current = k.current
       /\ new.edited = k.edited /\ new.reviewed = k.reviewed
  BY <1>6, <1>10 DEF FieldKnowledge
<1> QED BY <1>2, <1>3, <1>6, <1>8, <1>9, <1>11

LEMMA LongerReflexive ==
    ASSUME NEW S, NEW s \in Seq(S)
    PROVE  Longer(s, s)
<1>1. Len(s) \in Nat /\ SubSeq(s, 1, Len(s)) = s OBVIOUS
<1> QED BY <1>1 DEF Longer

LEMMA VerifyReviewed ==
    ASSUME NEW k \in FieldKnowledge, FieldSound(k), NEW seen \in BOOLEAN
    PROVE  Reviewed(k, Verify(k, seen))
<1>1. CASE k.verified
  <2>1. Verify(k, seen) = k BY <1>1 DEF Verify
  <2>2. Longer(k.revisions, k.revisions) BY LongerReflexive DEF FieldKnowledge
  <2> QED BY <1>1, <2>1, <2>2 DEF Reviewed
<1>2. CASE ~k.verified
  <2>1. PICK mid : mid = Revised(k, k.current, "verify") OBVIOUS
  <2>2. k.current \in Values /\ "verify" \in Actions BY DEF FieldKnowledge, Actions
  <2>3. /\ mid \in FieldKnowledge /\ mid.verified /\ ~mid.rejected
        /\ Len(mid.revisions) = Len(k.revisions) + 1
        /\ mid.revisions[Len(mid.revisions)].value = k.current
        /\ mid.revisions[Len(mid.revisions)].action = "verify"
        /\ Longer(k.revisions, mid.revisions)
        /\ mid.original = k.original /\ mid.current = k.current /\ mid.edited = k.edited
    BY <2>1, <2>2, RevisedFacts
  <2>4. PICK new : new = [mid EXCEPT !.reviewed = seen] OBVIOUS
  <2>5. new = Verify(k, seen) BY <1>2, <2>1, <2>4 DEF Verify
  <2>6. /\ new \in FieldKnowledge /\ new.revisions = mid.revisions /\ new.verified /\ ~new.rejected
        /\ new.original = mid.original /\ new.current = mid.current /\ new.edited = mid.edited
    BY <2>3, <2>4 DEF FieldKnowledge
  <2>7. Len(k.revisions) \in Nat BY DEF FieldKnowledge
  <2>8. FieldSound(new) BY <2>3, <2>6, <2>7 DEF FieldSound
  <2> QED BY <2>3, <2>5, <2>6, <2>8 DEF Reviewed
<1> QED BY <1>1, <1>2

LEMMA EditReviewed ==
    ASSUME NEW k \in FieldKnowledge, FieldSound(k), NEW value \in Values
    PROVE  Reviewed(k, Edit(k, value))
<1>1. PICK mid : mid = Revised(k, value, "edit") OBVIOUS
<1>2. "edit" \in Actions BY DEF Actions
<1>3. /\ mid \in FieldKnowledge /\ mid.verified /\ ~mid.rejected
      /\ Len(mid.revisions) = Len(k.revisions) + 1
      /\ mid.revisions[Len(mid.revisions)].value = value
      /\ mid.revisions[Len(mid.revisions)].action = "edit"
      /\ Longer(k.revisions, mid.revisions)
      /\ mid.original = k.original
  BY <1>1, <1>2, RevisedFacts
<1>4. PICK new : new = [mid EXCEPT !.current = value, !.edited = (value # k.original),
                                   !.reviewed = TRUE] OBVIOUS
<1>5. new = Edit(k, value) BY <1>1, <1>4 DEF Edit
<1>6. /\ new \in FieldKnowledge /\ new.revisions = mid.revisions /\ new.verified /\ ~new.rejected
      /\ new.original = mid.original /\ new.current = value
      /\ (new.edited <=> value # k.original)
  BY <1>3, <1>4 DEF FieldKnowledge
<1>7. Len(k.revisions) \in Nat BY DEF FieldKnowledge
<1>8. FieldSound(new) BY <1>3, <1>6, <1>7 DEF FieldSound
<1> QED BY <1>3, <1>5, <1>6, <1>8 DEF Reviewed

LEMMA JudgeReviewed ==
    ASSUME NEW k \in FieldKnowledge, FieldSound(k), NEW action \in {"accept", "reject"}
    PROVE  Reviewed(k, [Revised(k, k.current, action) EXCEPT !.reviewed = TRUE])
<1>1. PICK mid : mid = Revised(k, k.current, action) OBVIOUS
<1>2. k.current \in Values /\ action \in Actions BY DEF Actions, FieldKnowledge
<1>3. /\ mid \in FieldKnowledge /\ mid.verified /\ (mid.rejected <=> action = "reject")
      /\ Len(mid.revisions) = Len(k.revisions) + 1
      /\ mid.revisions[Len(mid.revisions)].value = k.current
      /\ mid.revisions[Len(mid.revisions)].action = action
      /\ Longer(k.revisions, mid.revisions)
      /\ mid.original = k.original /\ mid.current = k.current /\ mid.edited = k.edited
  BY <1>1, <1>2, RevisedFacts
<1>4. PICK new : new = [mid EXCEPT !.reviewed = TRUE] OBVIOUS
<1>5. /\ new \in FieldKnowledge /\ new.revisions = mid.revisions /\ new.verified
      /\ (new.rejected <=> mid.rejected)
      /\ new.original = mid.original /\ new.current = mid.current /\ new.edited = mid.edited
  BY <1>3, <1>4 DEF FieldKnowledge
<1>6. Len(k.revisions) \in Nat BY DEF FieldKnowledge
<1>7. FieldSound(new) BY <1>3, <1>5, <1>6 DEF FieldSound
<1> QED BY <1>1, <1>3, <1>4, <1>5, <1>7 DEF Reviewed

(* Every review leaves a field sound, verified, and with a longer history. *)
LEMMA ReviewReviewed ==
    ASSUME NEW k \in FieldKnowledge, FieldSound(k), NEW action \in Actions, NEW value,
           action = "edit" => value \in Values
    PROVE  Reviewed(k, Review(k, action, value))
<1>1. CASE action = "verify" BY <1>1, VerifyReviewed DEF Review
<1>2. CASE action = "edit"
  <2>1. Review(k, action, value) = Edit(k, value) BY <1>2 DEF Review
  <2> QED BY <1>2, <2>1, EditReviewed
<1>3. CASE action \in {"accept", "reject"}
  <2>1. Review(k, action, value) = [Revised(k, k.current, action) EXCEPT !.reviewed = TRUE]
    BY <1>3 DEF Review
  <2> QED BY <1>3, <2>1, JudgeReviewed
<1> QED BY <1>1, <1>2, <1>3 DEF Actions

-----------------------------------------------------------------------------
(* Records.                                                                *)

(* A record whose fields are sound is, when it is not ready or all of them *)
(* are verified.                                                           *)
LEMMA RecordOfFields ==
    ASSUME NEW record, Held(record), NEW fields \in [Fields -> FieldKnowledge],
           \A f \in Fields : /\ FieldSound(fields[f])
                             /\ Longer(record.fields[f].revisions, fields[f].revisions)
                             /\ record.fields[f].verified => fields[f].verified,
           NEW ready \in BOOLEAN, record.ready => ready,
           ready => record.ready \/ \A f \in Fields : fields[f].verified,
           NEW workspace \in Values \cup {None},
           NEW new, new = [fields |-> fields, ready |-> ready, workspace |-> workspace]
    PROVE  Held(new) /\ RecordGrows(record, new)
<1>1. new \in Record /\ new.fields = fields /\ new.ready = ready BY DEF Record
<1>2. new # None BY <1>1, KnowledgeAssumption
<1>3. new.ready => \A f \in Fields : fields[f].verified
  BY <1>1 DEF Held, RecordSound
<1>4. RecordSound(new) BY <1>1, <1>3 DEF RecordSound
<1>5. record.ready => new.ready BY <1>1
<1> QED BY <1>1, <1>2, <1>4, <1>5 DEF Held, RecordGrows

(* A new record is sound. *)
LEMMA FromImportHeld ==
    ASSUME NEW original \in [Fields -> Values]
    PROVE  Held(FromImport(original))
<1>1. PICK new : new = FromImport(original) OBVIOUS
<1>2. ASSUME NEW value \in Values
      PROVE  Claimed(value) \in FieldKnowledge /\ FieldSound(Claimed(value))
  <2>1. PICK k : k = Claimed(value) OBVIOUS
  <2>2. PICK none : none = <<>> OBVIOUS
  <2>3. none \in Seq(FieldRevision) /\ Len(none) = 0 BY <2>2
  <2>4. k = [original |-> value, current |-> value, revisions |-> none, edited |-> FALSE,
             reviewed |-> FALSE, rejected |-> FALSE, verified |-> FALSE]
    BY <2>1, <2>2 DEF Claimed
  <2>5. /\ k \in FieldKnowledge /\ k.revisions = none /\ k.current = k.original
        /\ ~k.edited /\ ~k.reviewed /\ ~k.rejected /\ ~k.verified
    BY <2>3, <2>4 DEF FieldKnowledge
  <2>6. FieldSound(k) BY <2>3, <2>5 DEF FieldSound
  <2> QED BY <2>1, <2>5, <2>6
<1>3. PICK fields : fields = [f \in Fields |-> Claimed(original[f])] OBVIOUS
<1>4. fields \in [Fields -> FieldKnowledge] /\ \A f \in Fields : FieldSound(fields[f])
  BY <1>2, <1>3
<1>5. new = [fields |-> fields, ready |-> FALSE, workspace |-> None]
  BY <1>1, <1>3 DEF FromImport
<1>6. new \in Record /\ new.fields = fields /\ ~new.ready BY <1>4, <1>5 DEF Record
<1>7. RecordSound(new) BY <1>4, <1>6 DEF RecordSound
<1> QED BY <1>1, <1>6, <1>7 DEF Held

(* What a handler saves for a sound record is sound, loses no revision,    *)
(* and has the fields verified whose revisions are still to be recorded.   *)
LEMMA UpdatedGrows ==
    ASSUME NEW record, Held(record), NEW command \in RecordCommand
    PROVE  /\ Pending(Updated(record, command), Evolving(record, command))
           /\ Evolving(record, command) \subseteq Fields
           /\ RecordGrows(record, Updated(record, command))
<1> DEFINE old == record.fields
<1>1. PICK new : new = Updated(record, command) OBVIOUS
<1>2. /\ record \in Record /\ RecordSound(record)
      /\ old \in [Fields -> FieldKnowledge] /\ record.ready \in BOOLEAN
      /\ record.workspace \in Values \cup {None}
      /\ record = [fields |-> old, ready |-> record.ready, workspace |-> record.workspace]
      /\ \A f \in Fields : old[f] \in FieldKnowledge /\ FieldSound(old[f])
  BY DEF Held, Record, RecordSound
<1>3. \A f \in Fields : Longer(old[f].revisions, old[f].revisions)
  BY <1>2, LongerReflexive DEF FieldKnowledge
<1>4. CASE command.op = "review"
  <2>1. /\ command.field \in Fields /\ command.action \in Actions
        /\ command.action = "edit" => command.value \in Values
    BY <1>4 DEF RecordCommand, Actions
  <2>2. PICK f0 : f0 = command.field OBVIOUS
  <2>3. PICK k : k = Review(old[f0], command.action, command.value) OBVIOUS
  <2>4. Reviewed(old[f0], k) BY <1>2, <2>1, <2>2, <2>3, ReviewReviewed
  <2>5. PICK fields : fields = [old EXCEPT ![f0] = k] OBVIOUS
  <2>6. new = [fields |-> fields, ready |-> record.ready, workspace |-> record.workspace]
    <3>1. new = [record EXCEPT !.fields[f0] = Review(@, command.action, command.value)]
      BY <1>1, <1>4, <2>2 DEF Updated
    <3>2. new = [record EXCEPT !.fields = [old EXCEPT ![f0] = k]] BY <3>1, <2>3, Zenon
    <3>3. new = [record EXCEPT !.fields = fields] BY <3>2, <2>5
    <3> QED BY <3>3, <1>2 DEF Record
  <2>7. fields \in [Fields -> FieldKnowledge] BY <1>2, <2>4, <2>5 DEF Reviewed
  <2>8. \A f \in Fields : /\ FieldSound(fields[f])
                          /\ Longer(old[f].revisions, fields[f].revisions)
                          /\ old[f].verified => fields[f].verified
    BY <1>2, <1>3, <2>4, <2>5 DEF Reviewed
  <2>9. Held(new) /\ RecordGrows(record, new)
    BY <1>2, <2>6, <2>7, <2>8, RecordOfFields
  <2>10. new.fields = fields /\ fields[f0].verified
    BY <1>2, <2>1, <2>2, <2>4, <2>5, <2>6 DEF Reviewed
  <2>11. Evolving(record, command) = {f0} BY <1>4, <2>2 DEF Evolving
  <2> QED BY <1>1, <2>1, <2>2, <2>9, <2>10, <2>11 DEF Pending
<1>5. CASE command.op = "workspace"
  <2>1. command.value \in Values BY <1>5 DEF RecordCommand
  <2>2. new = [record EXCEPT !.workspace = command.value] BY <1>1, <1>5 DEF Updated
  <2>3. new = [fields |-> old, ready |-> record.ready, workspace |-> command.value]
    BY <1>2, <2>2
  <2>4. Held(new) /\ RecordGrows(record, new)
    BY <1>2, <1>3, <2>1, <2>3, RecordOfFields
  <2>5. Evolving(record, command) = {} BY <1>5 DEF Evolving
  <2> QED BY <1>1, <2>4, <2>5 DEF Pending
<1>6. CASE command.op = "ready"
  <2>1. PICK fields : fields = [f \in Fields |-> Verify(old[f], FALSE)] OBVIOUS
  <2>2. \A f \in Fields : Reviewed(old[f], Verify(old[f], FALSE)) BY <1>2, VerifyReviewed
  <2>3. new = [record EXCEPT !.fields = fields, !.ready = TRUE]
    BY <1>1, <1>6, <2>1 DEF Updated, MarkReady
  <2>4. new = [fields |-> fields, ready |-> TRUE, workspace |-> record.workspace]
    BY <1>2, <2>3
  <2>5. fields \in [Fields -> FieldKnowledge] BY <2>1, <2>2 DEF Reviewed
  <2>6. \A f \in Fields : /\ FieldSound(fields[f]) /\ fields[f].verified
                          /\ Longer(old[f].revisions, fields[f].revisions)
    BY <2>1, <2>2 DEF Reviewed
  <2>7. Held(new) /\ RecordGrows(record, new)
    BY <1>2, <2>4, <2>5, <2>6, RecordOfFields
  <2>8. new.fields = fields BY <2>4
  <2>9. Evolving(record, command) \subseteq Fields BY <1>6 DEF Evolving
  <2> QED BY <1>1, <2>6, <2>7, <2>8, <2>9 DEF Pending
<1> QED BY <1>4, <1>5, <1>6 DEF RecordCommand

-----------------------------------------------------------------------------
(* Knowledge objects.                                                      *)

LEMMA LadderIsPercent == \A source \in DOMAIN Ladder : Ladder[source] \in Percent
BY DEF Ladder, Percent

LEMMA HigherFacts ==
    ASSUME NEW a \in Percent, NEW b \in Percent
    PROVE  Higher(a, b) \in Percent /\ Higher(a, b) >= a
BY DEF Higher, Percent

(* A new object has nothing to tell. *)
LEMMA CreatedSound ==
    ASSUME NEW value \in Values, NEW confidence \in Percent
    PROVE  LET new == CreateFromImport(value, confidence) IN
           /\ new \in Object /\ ObjectSound(new)
           /\ Len(new.revisions) = 0 /\ new.signals = 0
<1>1. PICK new : new = CreateFromImport(value, confidence) OBVIOUS
<1>2. PICK none : none = <<>> OBVIOUS
<1>3. none \in Seq(ObjectRevision) /\ Len(none) = 0 BY <1>2
<1>4. new = [original |-> value, current |-> value, revisions |-> none,
             confidence |-> confidence, signals |-> 0, verified |-> FALSE]
  BY <1>1, <1>2 DEF CreateFromImport
<1>5. /\ new \in Object /\ new.revisions = none /\ new.signals = 0
      /\ new.current = new.original /\ ~new.verified
  BY <1>3, <1>4 DEF Object
<1>6. ObjectSound(new) BY <1>3, <1>5 DEF ObjectSound
<1> QED BY <1>1, <1>3, <1>5, <1>6

(* A revision continues the timeline. *)
LEMMA RevisionSound ==
    ASSUME NEW o \in Object, ObjectSound(o), NEW value \in Values
    PROVE  LET new == ApplyRevision(o, value) IN
           /\ new \in Object /\ ObjectSound(new)
           /\ Longer(o.revisions, new.revisions)
           /\ Len(new.revisions) = Len(o.revisions) + 1
           /\ new.signals = o.signals + 1
<1>1. PICK h : h = o.revisions OBVIOUS
<1>2. PICK e : e = [old |-> o.current, new |-> value] OBVIOUS
<1>3. /\ h \in Seq(ObjectRevision) /\ Len(h) \in Nat /\ o.current \in Values
      /\ o.original \in Values /\ o.signals \in Nat
  BY <1>1 DEF Object
<1>4. e \in ObjectRevision /\ e.old = o.current /\ e.new = value
  BY <1>2, <1>3 DEF ObjectRevision
<1>5. PICK g : g = Append(h, e) OBVIOUS
<1>6. /\ g \in Seq(ObjectRevision) /\ Len(g) = Len(h) + 1 /\ g[Len(g)] = e
      /\ \A n \in 1..Len(h) : g[n] = h[n]
  BY <1>3, <1>4, <1>5
<1>7. SubSeq(g, 1, Len(h)) = h BY <1>3, <1>6
<1>8. Longer(h, g) BY <1>3, <1>6, <1>7 DEF Longer
<1>9. PICK new : new = ApplyRevision(o, value) OBVIOUS
<1>10. new = [o EXCEPT !.current = value, !.revisions = g, !.confidence = Ladder.recruiter,
                       !.signals = o.signals + 1, !.verified = TRUE]
  BY <1>1, <1>2, <1>5, <1>9 DEF ApplyRevision
<1>11. Ladder.recruiter \in Percent BY DEF Ladder, Percent
<1>12. /\ new \in Object /\ new.revisions = g /\ new.current = value /\ new.verified
       /\ new.original = o.original /\ new.signals = o.signals + 1
       /\ new.confidence = Ladder.recruiter
  <2>1. PICK p : p = Ladder.recruiter OBVIOUS
  <2>2. PICK n : n = o.signals + 1 OBVIOUS
  <2>3. p \in Percent /\ n \in Nat BY <1>3, <1>11, <2>1, <2>2
  <2>4. new = [o EXCEPT !.current = value, !.revisions = g, !.confidence = p,
                        !.signals = n, !.verified = TRUE]
    BY <1>10, <2>1, <2>2
  <2> QED BY <1>6, <2>1, <2>2, <2>3, <2>4 DEF Object
<1>13. /\ \A n \in 1..Len(h) : h[n].old = IF n = 1 THEN o.original ELSE h[n - 1].new
       /\ o.current = IF Len(h) = 0 THEN o.original ELSE h[Len(h)].new
  BY <1>1 DEF ObjectSound
<1>14. ASSUME NEW n \in 1..Len(g)
       PROVE  g[n].old = IF n = 1 THEN o.original ELSE g[n - 1].new
  <2>1. CASE n = Len(g)
    <3>1. g[n].old = o.current BY <1>4, <1>6, <2>1
    <3>2. CASE n = 1 BY <1>3, <1>6, <1>13, <2>1, <3>1, <3>2
    <3>3. CASE n # 1
      <4>1. n - 1 = Len(h) /\ n - 1 \in 1..Len(h) BY <1>3, <1>6, <2>1, <3>3
      <4> QED BY <1>3, <1>6, <1>13, <3>1, <3>3, <4>1
    <3> QED BY <3>2, <3>3
  <2>2. CASE n # Len(g)
    <3>1. n \in 1..Len(h) /\ g[n] = h[n] BY <1>3, <1>6, <2>2
    <3>2. n # 1 => n - 1 \in 1..Len(h) BY <1>3, <3>1
    <3> QED BY <1>6, <1>13, <3>1, <3>2
  <2> QED BY <2>1, <2>2
<1>15. new.confidence >= Ladder.recruiter BY <1>12, <1>11 DEF Percent
<1>16. ObjectSound(new) BY <1>3, <1>4, <1>6, <1>12, <1>14, <1>15 DEF ObjectSound
<1> QED BY <1>1, <1>6, <1>8, <1>9, <1>12, <1>16

Raised(o, confidence, signals) == [o EXCEPT !.confidence = confidence, !.signals = signals]

(* Raising the confidence and counting signals leaves the timeline alone.  *)
LEMMA RaisedSound ==
    ASSUME NEW o \in Object, ObjectSound(o), NEW confidence \in Percent,
           confidence >= o.confidence, NEW signals \in Nat,
           NEW new, new = Raised(o, confidence, signals)
    PROVE  /\ new \in Object /\ ObjectSound(new)
           /\ new.revisions = o.revisions /\ new.signals = signals
<1>1. /\ new \in Object /\ new.revisions = o.revisions /\ new.signals = signals
      /\ new.original = o.original /\ new.current = o.current /\ new.verified = o.verified
      /\ new.confidence = confidence
  BY DEF Object, Raised
<1>2. o.confidence \in Percent BY DEF Object
<1>3. Ladder.recruiter \in Percent BY DEF Ladder, Percent
<1>4. o.confidence >= Ladder.recruiter => new.confidence >= Ladder.recruiter
  <2>1. PICK a, b : a = o.confidence /\ b = Ladder.recruiter OBVIOUS
  <2>2. a \in Nat /\ b \in Nat /\ confidence \in Nat BY <1>2, <1>3, <2>1 DEF Percent
  <2>3. confidence >= a BY <2>1
  <2> QED BY <1>1, <2>1, <2>2, <2>3
<1>5. ObjectSound(new) BY <1>1, <1>4 DEF ObjectSound
<1> QED BY <1>1, <1>5

-----------------------------------------------------------------------------
(* Sets.                                                                   *)

(* A set of sound objects whose signals are counted right is sound. *)
LEMMA SetOfObjects ==
    ASSUME NEW set \in Set, SetSound(set), NEW objects \in [Fields -> Object],
           NEW signals \in Nat, set.signals <= signals,
           \A f \in Fields : /\ ObjectSound(objects[f])
                             /\ Longer(set.objects[f].revisions, objects[f].revisions)
                             /\ objects[f].signals = Len(objects[f].revisions) + signals,
           NEW new, new = [objects |-> objects, signals |-> signals]
    PROVE  new \in Set /\ SetSound(new) /\ SetGrows(set, new)
<1>1. new \in Set /\ new.objects = objects /\ new.signals = signals BY DEF Set
<1>2. new # None BY <1>1, KnowledgeAssumption
<1> QED BY <1>1, <1>2 DEF SetSound, SetGrows

LEMMA SeedSound ==
    ASSUME NEW original \in [Fields -> Values], NEW confidence \in Percent,
           NEW new, new = [objects |-> [f \in Fields |-> CreateFromImport(original[f], confidence)],
                           signals |-> 0]
    PROVE  new \in Set /\ SetSound(new)
<1>1. \A f \in Fields : /\ new.objects[f] \in Object /\ ObjectSound(new.objects[f])
                        /\ Len(new.objects[f].revisions) = 0 /\ new.objects[f].signals = 0
  BY CreatedSound
<1>2. new \in Set BY <1>1 DEF Set
<1> QED BY <1>1, <1>2 DEF SetSound

(* A revision of one object. *)
LEMMA ReviseGrows ==
    ASSUME NEW set \in Set, SetSound(set), NEW field \in Fields, NEW value \in Values
    PROVE  LET new == ReviseObject(set, field, value) IN
           new \in Set /\ SetSound(new) /\ SetGrows(set, new)
<1> DEFINE old == set.objects
<1>1. /\ old \in [Fields -> Object] /\ set.signals \in Nat
      /\ set = [objects |-> old, signals |-> set.signals]
      /\ \A f \in Fields : /\ old[f] \in Object /\ ObjectSound(old[f])
                            /\ old[f].signals = Len(old[f].revisions) + set.signals
                            /\ Len(old[f].revisions) \in Nat
  BY DEF Set, SetSound, Object
<1>2. \A f \in Fields : Longer(old[f].revisions, old[f].revisions)
  BY <1>1, LongerReflexive DEF Object
<1>3. PICK o : o = ApplyRevision(old[field], value) OBVIOUS
<1>4. /\ o \in Object /\ ObjectSound(o) /\ Longer(old[field].revisions, o.revisions)
      /\ Len(o.revisions) = Len(old[field].revisions) + 1
      /\ o.signals = old[field].signals + 1
  BY <1>1, <1>3, RevisionSound
<1>5. PICK objects : objects = [old EXCEPT ![field] = o] OBVIOUS
<1>6. PICK new : new = ReviseObject(set, field, value) OBVIOUS
<1>7. new = [objects |-> objects, signals |-> set.signals]
  <2>1. new = [set EXCEPT !.objects[field] = ApplyRevision(@, value)]
    BY <1>6 DEF ReviseObject
  <2>2. new = [set EXCEPT !.objects = [old EXCEPT ![field] = o]] BY <1>3, <2>1, Zenon
  <2>3. new = [set EXCEPT !.objects = objects] BY <1>5, <2>2
  <2> QED BY <1>1, <2>3
<1>8. objects \in [Fields -> Object] BY <1>1, <1>4, <1>5
<1>9. \A f \in Fields : /\ ObjectSound(objects[f])
                        /\ Longer(old[f].revisions, objects[f].revisions)
                        /\ objects[f].signals = Len(objects[f].revisions) + set.signals
  <2>1. PICK n, m, t : /\ n = Len(old[field].revisions) /\ m = old[field].signals
                       /\ t = set.signals
    OBVIOUS
  <2>2. n \in Nat /\ t \in Nat /\ m = n + t BY <1>1, <2>1
  <2>3. Len(o.revisions) = n + 1 /\ o.signals = m + 1 BY <1>4, <2>1
  <2>4. m + 1 = (n + 1) + t BY <2>2
  <2>5. o.signals = Len(o.revisions) + set.signals
    <3>1. set.signals = t BY <2>1
    <3> QED BY <2>3, <2>4, <3>1
  <2> QED BY <1>1, <1>2, <1>4, <1>5, <2>5
<1>10. set.signals <= set.signals BY <1>1
<1> QED BY <1>1, <1>6, <1>7, <1>8, <1>9, <1>10, SetOfObjects

(* Whatever the request, the set that is saved loses nothing of the set    *)
(* that was read.                                                          *)
LEMMA EvolvedGrows ==
    ASSUME NEW set \in Set, SetSound(set), NEW command \in SetCommand
    PROVE  LET new == Evolved(set, command) IN
           new \in Set /\ SetSound(new) /\ SetGrows(set, new)
<1> DEFINE old == set.objects
<1>1. /\ old \in [Fields -> Object] /\ set.signals \in Nat
      /\ set = [objects |-> old, signals |-> set.signals]
      /\ \A f \in Fields : /\ old[f] \in Object /\ ObjectSound(old[f])
                            /\ old[f].signals = Len(old[f].revisions) + set.signals
                            /\ old[f].revisions \in Seq(ObjectRevision)
                            /\ old[f].confidence \in Percent /\ old[f].signals \in Nat
  BY DEF Set, SetSound, Object
<1>2. \A f \in Fields : Longer(old[f].revisions, old[f].revisions)
  BY <1>1, LongerReflexive
<1>3. PICK new : new = Evolved(set, command) OBVIOUS
<1>4. CASE command.op = "patch"
  <2>1. command.field \in Fields /\ command.value \in Values BY <1>4 DEF SetCommand
  <2>2. new = ReviseObject(set, command.field, command.value) BY <1>3, <1>4 DEF Evolved
  <2> QED BY <1>3, <2>1, <2>2, ReviseGrows
<1>5. CASE command.op = "evidence"
  <2>1. command.field \in Fields /\ command.source \in DOMAIN Ladder BY <1>5, KnowledgeAssumption DEF SetCommand
  <2>2. PICK f0 : f0 = command.field OBVIOUS
  <2>3. PICK o : o = AddEvidence(old[f0], command.source) OBVIOUS
  <2>4. PICK p : p = Higher(old[f0].confidence, Ladder[command.source]) OBVIOUS
  <2>5. p \in Percent /\ p >= old[f0].confidence
    BY <1>1, <2>1, <2>2, <2>4, LadderIsPercent, HigherFacts
  <2>6. o = [old[f0] EXCEPT !.confidence = p] BY <2>3, <2>4 DEF AddEvidence
  <2>7. PICK n : n = old[f0].signals OBVIOUS
  <2>8. o = [old[f0] EXCEPT !.confidence = p, !.signals = n]
    BY <1>1, <2>1, <2>2, <2>6, <2>7 DEF Object
  <2>9. /\ o \in Object /\ ObjectSound(o)
        /\ o.revisions = old[f0].revisions /\ o.signals = n
    <3>1. PICK k : k = old[f0] OBVIOUS
    <3>2. k \in Object /\ ObjectSound(k) /\ n \in Nat BY <1>1, <2>1, <2>2, <2>7, <3>1
    <3>3. p \in Percent /\ p >= k.confidence BY <2>5, <3>1
    <3>4. o = Raised(k, p, n) BY <2>8, <3>1 DEF Raised
    <3>5. /\ o \in Object /\ ObjectSound(o) /\ o.revisions = k.revisions /\ o.signals = n
      BY <3>2, <3>3, <3>4, RaisedSound
    <3> QED BY <3>1, <3>5
  <2>10. PICK objects : objects = [old EXCEPT ![f0] = o] OBVIOUS
  <2>11. new = [objects |-> objects, signals |-> set.signals]
    <3>1. new = [set EXCEPT !.objects[f0] = AddEvidence(@, command.source)]
      BY <1>3, <1>5, <2>2 DEF Evolved
    <3>2. new = [set EXCEPT !.objects = [old EXCEPT ![f0] = o]] BY <2>3, <3>1, Zenon
    <3>3. new = [set EXCEPT !.objects = objects] BY <2>10, <3>2
    <3> QED BY <1>1, <3>3
  <2>12. objects \in [Fields -> Object] BY <1>1, <2>9, <2>10
  <2>13. \A f \in Fields : /\ ObjectSound(objects[f])
                           /\ Longer(old[f].revisions, objects[f].revisions)
                           /\ objects[f].signals = Len(objects[f].revisions) + set.signals
    BY <1>1, <1>2, <2>1, <2>2, <2>7, <2>9, <2>10
  <2>14. set.signals <= set.signals BY <1>1
  <2> QED BY <1>1, <1>3, <2>11, <2>12, <2>13, <2>14, SetOfObjects
<1>6. CASE command.op = "signal"
  <2>1. command.source \in DOMAIN Ladder BY <1>6 DEF SetCommand, Ladder
  <2>2. PICK objects : objects = [f \in Fields |-> RecordSignal(old[f], command.source)]
    OBVIOUS
  <2>3. PICK n : n = set.signals + 1 OBVIOUS
  <2>4. new = [objects |-> objects, signals |-> n] BY <1>3, <1>6, <2>2, <2>3 DEF Evolved
  <2>5. n \in Nat /\ set.signals <= n BY <1>1, <2>3
  <2>6. ASSUME NEW f \in Fields
        PROVE  /\ objects[f] \in Object /\ ObjectSound(objects[f])
               /\ objects[f].revisions = old[f].revisions
               /\ objects[f].signals = old[f].signals + 1
    <3>1. PICK p, m : /\ p = Higher(old[f].confidence, Ladder[command.source])
                      /\ m = old[f].signals + 1
      OBVIOUS
    <3>2. p \in Percent /\ p >= old[f].confidence
      BY <1>1, <2>1, <3>1, LadderIsPercent, HigherFacts
    <3>3. m \in Nat BY <1>1, <3>1
    <3>4. objects[f] = [old[f] EXCEPT !.confidence = p, !.signals = m]
      BY <2>2, <3>1 DEF RecordSignal
    <3>5. PICK k : k = old[f] OBVIOUS
    <3>6. k \in Object /\ ObjectSound(k) BY <1>1, <3>5
    <3>7. p >= k.confidence BY <3>2, <3>5
    <3>8. PICK o : o = objects[f] OBVIOUS
    <3>9. o = Raised(k, p, m) BY <3>4, <3>5, <3>8 DEF Raised
    <3>10. o \in Object /\ ObjectSound(o) /\ o.revisions = k.revisions /\ o.signals = m
      BY <3>2, <3>3, <3>6, <3>7, <3>9, RaisedSound
    <3> QED BY <3>1, <3>5, <3>8, <3>10
  <2>7. objects \in [Fields -> Object] BY <2>2, <2>6
  <2>8. ASSUME NEW f \in Fields
        PROVE  objects[f].signals = Len(objects[f].revisions) + n
    <3>1. PICK a, b, t : /\ a = Len(old[f].revisions) /\ b = old[f].signals
                         /\ t = set.signals
      OBVIOUS
    <3>2. a \in Nat /\ t \in Nat /\ b = a + t BY <1>1, <3>1
    <3>3. Len(objects[f].revisions) = a /\ objects[f].signals = b + 1 BY <2>6, <3>1
    <3>4. b + 1 = a + (t + 1) BY <3>2
    <3>5. n = t + 1 BY <2>3, <3>1
    <3> QED BY <3>3, <3>4, <3>5
  <2>9. \A f \in Fields : /\ ObjectSound(objects[f])
                          /\ Longer(old[f].revisions, objects[f].revisions)
                          /\ objects[f].signals = Len(objects[f].revisions) + n
    BY <1>2, <2>6, <2>8
  <2> QED BY <1>3, <2>4, <2>5, <2>7, <2>9, SetOfObjects
<1> QED BY <1>4, <1>5, <1>6 DEF SetCommand

(* What SaveSet saves. *)
LEMMA SaveGrows ==
    ASSUME NEW q, q.set \in Set, SetSound(q.set), q.todo \in SUBSET Fields,
           IF q.todo = {} THEN q.command \in SetCommand ELSE Pending(q.record, q.todo)
    PROVE  SetToSave(q) \in Set /\ SetSound(SetToSave(q)) /\ SetGrows(q.set, SetToSave(q))
<1>1. CASE q.todo = {} BY <1>1, EvolvedGrows DEF SetToSave
<1>2. CASE q.todo # {}
  <2>1. PICK f : f = Field(q.todo) OBVIOUS
  <2>2. f \in q.todo /\ f \in Fields BY <1>2, <2>1 DEF Field
  <2>3. PICK k : k = q.record.fields[f] OBVIOUS
  <2>4. k \in FieldKnowledge /\ FieldSound(k) /\ k.verified
    BY <1>2, <2>2, <2>3 DEF Pending, Held, Record, RecordSound
  <2>5. PICK value : value = k.revisions[Len(k.revisions)].value OBVIOUS
  <2>6. value = k.current /\ value \in Values
    BY <2>4, <2>5 DEF FieldSound, FieldKnowledge
  <2>7. SetToSave(q) = ReviseObject(q.set, f, value) BY <1>2, <2>1, <2>3, <2>5 DEF SetToSave
  <2> QED BY <2>2, <2>6, <2>7, ReviseGrows
<1> QED BY <1>1, <1>2

-----------------------------------------------------------------------------
(* Steps.                                                                  *)

LEMMA RecordGrowsReflexive ==
    ASSUME NEW record \in Record
    PROVE  RecordGrows(record, record)
<1>1. record # None BY KnowledgeAssumption
<1>2. \A f \in Fields : record.fields[f].revisions \in Seq(FieldRevision)
  BY DEF Record, FieldKnowledge
<1>3. \A f \in Fields : Longer(record.fields[f].revisions, record.fields[f].revisions)
  BY <1>2, LongerReflexive
<1> QED BY <1>1, <1>3 DEF RecordGrows

LEMMA SetGrowsReflexive ==
    ASSUME NEW set \in Set
    PROVE  SetGrows(set, set)
<1>1. set # None BY KnowledgeAssumption
<1>2. \A f \in Fields : set.objects[f].revisions \in Seq(ObjectRevision)
  BY DEF Set, Object
<1>3. \A f \in Fields : Longer(set.objects[f].revisions, set.objects[f].revisions)
  BY <1>2, LongerReflexive
<1>4. set.signals <= set.signals BY DEF Set
<1> QED BY <1>1, <1>3, <1>4 DEF SetGrows

(* The fields of a request, without the sets of commands and of records.   *)
LEMMA RequestFacts ==
    ASSUME NEW q \in Request
    PROVE  /\ q # None
           /\ q.candidate \in Candidates /\ q.command \in Command /\ q.todo \in SUBSET Fields
           /\ q.record \in Record \cup {None} /\ q.set \in Set \cup {None}
           /\ q.at \in {"saveCandidate", "seed", "saveRecord", "readSet", "saveSet"}
<1>1. q # None BY KnowledgeAssumption
<1> QED BY <1>1 DEF Request

(* A step of request r, which saves a row of its candidate or none,        *)
(* preserves the invariant when the row is sound, and the history when the *)
(* row grows or the step is an overwrite.                                  *)
LEMMA Continuing ==
    ASSUME IInv, NEW r \in Slots, request[r] # None,
           NEW c, c = request[r].candidate,
           NEW q, q # None => /\ q \in Request /\ RequestOK(q)
                              /\ q.candidate = c /\ q.at # "saveCandidate",
           request' = [request EXCEPT ![r] = q],
           NEW record \in Record \cup {None}, record # None => RecordSound(record),
           NEW set \in Set \cup {None}, set # None => SetSound(set),
           records' = [records EXCEPT ![c] = record],
           sets' = [sets EXCEPT ![c] = set],
           records[c] # None => record # None,
           q # None \/ set # None => record # None,
           \/ Overwrites(r, c)
           \/ /\ records[c] # None => RecordGrows(records[c], record)
              /\ sets[c] # None => SetGrows(sets[c], set),
           requests' = requests, failures' \in Nat, disturbed' \subseteq Candidates
    PROVE  IInv' /\ \A d \in Candidates : Keeps(d)
<1>1. /\ records \in [Candidates -> Record \cup {None}]
      /\ sets \in [Candidates -> Set \cup {None}]
      /\ request \in [Slots -> Request \cup {None}]
  BY DEF IInv, TypeOK
<1>2. c \in Candidates BY <1>1, RequestFacts
<1>3. /\ records'[c] = record /\ sets'[c] = set
      /\ \A d \in Candidates \ {c} : records'[d] = records[d] /\ sets'[d] = sets[d]
  BY <1>1, <1>2
<1>4. request'[r] = q /\ \A s \in Slots \ {r} : request'[s] = request[s] BY <1>1
<1>5. TypeOK'
  <2>1. requests' \in Nat BY DEF IInv, TypeOK
  <2>2. request' \in [Slots -> Request \cup {None}] BY <1>1
  <2>3. records' \in [Candidates -> Record \cup {None}] BY <1>1, <1>2
  <2>4. sets' \in [Candidates -> Set \cup {None}] BY <1>1, <1>2
  <2> QED BY <2>1, <2>2, <2>3, <2>4 DEF TypeOK
<1>6. RecordsSound' BY <1>2, <1>3 DEF IInv, RecordsSound
<1>7. SetsSound' BY <1>2, <1>3 DEF IInv, SetsSound
<1>8. RequestsOK' BY <1>4 DEF IInv, RequestsOK
<1>9. ImportAlone'
  <2>1. SUFFICES ASSUME NEW s \in Slots, request'[s] # None, request'[s].at = "saveCandidate"
                 PROVE  /\ records'[request'[s].candidate] = None
                        /\ \A t \in Slots \ {s} :
                              request'[t] # None => request'[t].candidate # request'[s].candidate
    BY DEF ImportAlone, At
  <2>2. s # r /\ request'[s] = request[s] BY <1>4, <2>1
  <2>3. /\ records[request[s].candidate] = None
        /\ \A t \in Slots \ {s} : request[t] # None => request[t].candidate # request[s].candidate
    BY <2>1, <2>2 DEF IInv, ImportAlone, At
  <2>4. request[s].candidate \in Candidates BY <1>1, <2>1, <2>2, RequestFacts
  <2>5. request[s].candidate # c BY <2>2, <2>3
  <2> QED BY <1>3, <1>4, <2>2, <2>3, <2>4, <2>5
<1>10. Recorded'
  <2>1. \A d \in Candidates : records[d] # None => records'[d] # None BY <1>3
  <2>2. \A d \in Candidates : sets'[d] # None => records'[d] # None
    BY <1>3, <2>1 DEF IInv, Recorded
  <2>3. ASSUME NEW s \in Slots, request'[s] # None, request'[s].at # "saveCandidate"
        PROVE  records'[request'[s].candidate] # None
    <3>1. CASE s = r BY <1>3, <1>4, <2>3, <3>1
    <3>2. CASE s # r
      <4>1. request[s] # None /\ request[s].at # "saveCandidate" /\ request'[s] = request[s]
        BY <1>4, <2>3, <3>2
      <4>2. records[request[s].candidate] # None BY <4>1 DEF IInv, Recorded
      <4>3. request[s].candidate \in Candidates BY <1>1, <4>1, RequestFacts
      <4> QED BY <2>1, <4>1, <4>2, <4>3
    <3> QED BY <3>1, <3>2
  <2> QED BY <2>2, <2>3 DEF Recorded
<1>11. ASSUME NEW d \in Candidates PROVE Keeps(d)
  <2>1. CASE d = c BY <1>3, <2>1 DEF Keeps
  <2>2. CASE d # c
    <3>1. records'[d] = records[d] /\ sets'[d] = sets[d] BY <1>3, <2>2
    <3>2. records[d] # None => RecordGrows(records[d], records[d])
      BY <1>1, RecordGrowsReflexive
    <3>3. sets[d] # None => SetGrows(sets[d], sets[d]) BY <1>1, SetGrowsReflexive
    <3> QED BY <3>1, <3>2, <3>3 DEF Keeps
  <2> QED BY <2>1, <2>2
<1> QED BY <1>5, <1>6, <1>7, <1>8, <1>9, <1>10, <1>11 DEF IInv

(* A request that comes in: an import, alone with a new candidate, or      *)
(* another one, for a candidate with a record.                             *)
LEMMA Arriving ==
    ASSUME IInv, NEW r \in Slots, NEW c \in Candidates, NEW command \in Command,
           NEW at \in {"saveCandidate", "seed", "saveRecord", "readSet", "saveSet"},
           NEW record \in Record \cup {None}, NEW set \in Set \cup {None},
           Arrive(r, c, command, at, record, set), UNCHANGED <<records, sets>>,
           RequestOK([candidate |-> c, command |-> command, at |-> at,
                      record |-> record, set |-> set, todo |-> {}]),
           IF at = "saveCandidate" THEN records[c] = None /\ ~Busy(c) ELSE records[c] # None
    PROVE  IInv' /\ \A d \in Candidates : Keeps(d)
<1>1. /\ records \in [Candidates -> Record \cup {None}]
      /\ sets \in [Candidates -> Set \cup {None}]
      /\ request \in [Slots -> Request \cup {None}]
      /\ disturbed \subseteq Candidates /\ requests \in Nat /\ failures \in Nat
  BY DEF IInv, TypeOK
<1>2. PICK q : q = [candidate |-> c, command |-> command, at |-> at,
                    record |-> record, set |-> set, todo |-> {}]
  OBVIOUS
<1>3. q \in Request /\ RequestOK(q) /\ q.candidate = c /\ q.at = at BY <1>2 DEF Request
<1>4. /\ request[r] = None /\ request' = [request EXCEPT ![r] = q]
      /\ requests' = requests + 1 /\ failures' = failures
      /\ disturbed' = IF Busy(c) \/ command.op = "patch" THEN disturbed \cup {c} ELSE disturbed
  BY <1>2 DEF Arrive
<1>5. /\ request'[r] = q /\ \A s \in Slots \ {r} : request'[s] = request[s]
      /\ request' \in [Slots -> Request \cup {None}]
  BY <1>1, <1>3, <1>4
<1>6. TypeOK'
  <2>1. requests' \in Nat /\ failures' \in Nat BY <1>1, <1>4
  <2>2. disturbed' \subseteq Candidates BY <1>1, <1>4
  <2> QED BY <1>1, <1>5, <2>1, <2>2 DEF TypeOK
<1>7. RecordsSound' /\ SetsSound' BY DEF IInv, RecordsSound, SetsSound
<1>8. RequestsOK' BY <1>3, <1>5 DEF IInv, RequestsOK
<1>9. ImportAlone'
  <2>1. SUFFICES ASSUME NEW s \in Slots, request'[s] # None, request'[s].at = "saveCandidate"
                 PROVE  /\ records[request'[s].candidate] = None
                        /\ \A t \in Slots \ {s} :
                              request'[t] # None => request'[t].candidate # request'[s].candidate
    BY DEF ImportAlone, At
  <2>2. CASE s = r
    <3>1. records[c] = None /\ ~Busy(c) BY <1>3, <1>5, <2>1, <2>2
    <3>2. \A t \in Slots : request[t] # None => request[t].candidate # c BY <3>1 DEF Busy
    <3> QED BY <1>3, <1>5, <2>2, <3>1, <3>2
  <2>3. CASE s # r
    <3>1. /\ request'[s] = request[s] /\ records[request[s].candidate] = None
          /\ \A t \in Slots \ {s} :
                request[t] # None => request[t].candidate # request[s].candidate
      BY <1>5, <2>1, <2>3 DEF IInv, ImportAlone, At
    <3>2. request[s].candidate # c
      BY <1>5, <2>1, <2>3, <3>1 DEF Busy
    <3> QED BY <1>3, <1>5, <3>1, <3>2
  <2> QED BY <2>2, <2>3
<1>10. Recorded' BY <1>3, <1>5 DEF IInv, Recorded
<1>11. ASSUME NEW d \in Candidates PROVE Keeps(d)
  <2>1. records[d] # None => RecordGrows(records[d], records[d])
    BY <1>1, RecordGrowsReflexive
  <2>2. sets[d] # None => SetGrows(sets[d], sets[d]) BY <1>1, SetGrowsReflexive
  <2> QED BY <2>1, <2>2 DEF Keeps
<1> QED BY <1>6, <1>7, <1>8, <1>9, <1>10, <1>11 DEF IInv

LEMMA ImportStep ==
    ASSUME IInv, NEW r \in Slots, NEW c \in Candidates, NEW command \in ImportCommand,
           Import(r, c, command)
    PROVE  IInv' /\ \A d \in Candidates : Keeps(d)
<1>1. command \in Command BY DEF Command
<1>2. RequestOK([candidate |-> c, command |-> command, at |-> "saveCandidate",
                 record |-> None, set |-> None, todo |-> {}])
  BY DEF RequestOK
<1> QED BY <1>1, <1>2, Arriving DEF Import

LEMMA ReadRecordStep ==
    ASSUME IInv, NEW r \in Slots, NEW c \in Candidates, NEW command \in RecordCommand,
           ReadRecord(r, c, command)
    PROVE  IInv' /\ \A d \in Candidates : Keeps(d)
<1>1. command \in Command BY DEF Command
<1>2. records[c] # None /\ Held(records[c])
  BY DEF ReadRecord, IInv, TypeOK, RecordsSound, Held
<1>3. RequestOK([candidate |-> c, command |-> command, at |-> "saveRecord",
                 record |-> records[c], set |-> None, todo |-> {}])
  BY <1>2 DEF RequestOK
<1>4. records[c] \in Record \cup {None} BY <1>2 DEF Held
<1> QED BY <1>1, <1>2, <1>3, <1>4, Arriving DEF ReadRecord

LEMMA FindSetStep ==
    ASSUME IInv, NEW r \in Slots, NEW c \in Candidates, NEW command \in SetCommand,
           FindSet(r, c, command)
    PROVE  IInv' /\ \A d \in Candidates : Keeps(d)
<1>1. command \in Command BY DEF Command
<1>2. sets[c] \in Set /\ SetSound(sets[c]) BY DEF FindSet, IInv, TypeOK, SetsSound
<1>3. RequestOK([candidate |-> c, command |-> command, at |-> "saveSet",
                 record |-> None, set |-> sets[c], todo |-> {}])
  BY <1>2 DEF RequestOK
<1>4. records[c] # None BY DEF FindSet, IInv, Recorded
<1> QED BY <1>1, <1>2, <1>3, <1>4, Arriving DEF FindSet

(* The facts every later step starts from. *)
LEMMA InFlight ==
    ASSUME IInv, NEW r \in Slots, request[r] # None
    PROVE  LET q == request[r] c == q.candidate IN
           /\ q \in Request /\ RequestOK(q) /\ c \in Candidates
           /\ q.command \in Command /\ q.todo \in SUBSET Fields
           /\ q.at # "saveCandidate" => records[c] # None
           /\ records[c] \in Record \cup {None} /\ sets[c] \in Set \cup {None}
           /\ records[c] # None => RecordSound(records[c])
           /\ sets[c] # None => SetSound(sets[c]) /\ records[c] # None
           /\ records = [records EXCEPT ![c] = records[c]]
           /\ sets = [sets EXCEPT ![c] = sets[c]]
           /\ records[c] # None => RecordGrows(records[c], records[c])
           /\ sets[c] # None => SetGrows(sets[c], sets[c])
           /\ failures \in Nat /\ disturbed \subseteq Candidates
<1> DEFINE q == request[r]
           c == q.candidate
<1>1. q \in Request /\ RequestOK(q) BY DEF IInv, TypeOK, RequestsOK
<1>2. c \in Candidates /\ q.command \in Command /\ q.todo \in SUBSET Fields
  BY <1>1, RequestFacts
<1>3. /\ records \in [Candidates -> Record \cup {None}]
      /\ sets \in [Candidates -> Set \cup {None}]
      /\ failures \in Nat /\ disturbed \subseteq Candidates
  BY DEF IInv, TypeOK
<1>4. /\ records[c] \in Record \cup {None} /\ sets[c] \in Set \cup {None}
      /\ records = [records EXCEPT ![c] = records[c]]
      /\ sets = [sets EXCEPT ![c] = sets[c]]
  BY <1>2, <1>3
<1>5. /\ records[c] # None => RecordSound(records[c])
      /\ sets[c] # None => SetSound(sets[c]) /\ records[c] # None
      /\ q.at # "saveCandidate" => records[c] # None
  BY <1>2 DEF IInv, RecordsSound, SetsSound, Recorded
<1>6. records[c] # None => RecordGrows(records[c], records[c]) BY <1>4, RecordGrowsReflexive
<1>7. sets[c] # None => SetGrows(sets[c], sets[c]) BY <1>4, SetGrowsReflexive
<1> QED BY <1>1, <1>2, <1>3, <1>4, <1>5, <1>6, <1>7

(* The request a handler goes on with. *)
Going(q, record, todo) ==
    IF todo = {} THEN None
    ELSE [q EXCEPT !.at = "readSet", !.record = record, !.set = None, !.todo = todo]

LEMMA GoOnFacts ==
    ASSUME NEW q \in Request, NEW record, NEW todo \in SUBSET Fields,
           todo # {} => Pending(record, todo),
           NEW new, new = Going(q, record, todo)
    PROVE  new # None => /\ new \in Request /\ RequestOK(new)
                         /\ new.candidate = q.candidate /\ new.at = "readSet"
<1>1. SUFFICES ASSUME todo # {} PROVE /\ new \in Request /\ RequestOK(new)
                                     /\ new.candidate = q.candidate /\ new.at = "readSet"
  BY DEF Going
<1>2. record \in Record BY <1>1 DEF Pending, Held
<1>3. PICK n : n = None OBVIOUS
<1>4. new = [q EXCEPT !.at = "readSet", !.record = record, !.set = n, !.todo = todo]
  BY <1>1, <1>3 DEF Going
<1>5. /\ new \in Request /\ new.candidate = q.candidate /\ new.at = "readSet"
      /\ new.record = record /\ new.todo = todo
  BY <1>2, <1>3, <1>4 DEF Request
<1>6. RequestOK(new) BY <1>1, <1>5 DEF RequestOK
<1> QED BY <1>5, <1>6

LEMMA SaveCandidateStep ==
    ASSUME IInv, NEW r \in Slots, SaveCandidate(r)
    PROVE  IInv' /\ \A d \in Candidates : Keeps(d)
<1>1. PICK q, c : q = request[r] /\ c = q.candidate OBVIOUS
<1>2. request[r] # None /\ q.at = "saveCandidate" BY <1>1 DEF SaveCandidate, At
<1>3. records[c] = None BY <1>1, <1>2 DEF IInv, ImportAlone, At
<1>4. q \in Request /\ RequestOK(q) /\ sets[c] = None BY <1>1, <1>2, <1>3, InFlight
<1>5. PICK record : record = FromImport(q.command.original) OBVIOUS
<1>6. q.command \in ImportCommand BY <1>2, <1>4 DEF RequestOK
<1>7. q.command.original \in [Fields -> Values] BY <1>6 DEF ImportCommand
<1>8. record \in Record /\ RecordSound(record) BY <1>5, <1>7, FromImportHeld DEF Held
<1>9. record # None BY <1>8, KnowledgeAssumption
<1>10. PICK new : new = [q EXCEPT !.at = "seed"] OBVIOUS
<1>11. /\ new \in Request /\ new.candidate = c /\ new.at = "seed" /\ new.command = q.command
  BY <1>1, <1>4, <1>10 DEF Request
<1>12. RequestOK(new) BY <1>6, <1>11 DEF RequestOK
<1>13. request' = [request EXCEPT ![r] = new] BY <1>1, <1>10 DEF SaveCandidate
<1>14. records' = [records EXCEPT ![c] = record] BY <1>1, <1>5 DEF SaveCandidate
<1>15. sets' = [sets EXCEPT ![c] = sets[c]] BY <1>1, <1>2, InFlight DEF SaveCandidate
<1>16. requests' = requests /\ failures' \in Nat /\ disturbed' \subseteq Candidates
  BY <1>2, InFlight DEF SaveCandidate
<1>17. sets[c] \in Set \cup {None} BY <1>4
<1>18. sets[c] # None => SetSound(sets[c]) BY <1>4
<1> QED BY <1>1, <1>2, <1>3, <1>4, <1>8, <1>9, <1>11, <1>12, <1>13, <1>14, <1>15, <1>16, <1>17,
           <1>18, Continuing

LEMMA SeedStep ==
    ASSUME IInv, NEW r \in Slots, Seed(r)
    PROVE  IInv' /\ \A d \in Candidates : Keeps(d)
<1>1. PICK q, c : q = request[r] /\ c = q.candidate OBVIOUS
<1>2. request[r] # None /\ q.at = "seed" BY <1>1 DEF Seed, At
<1>3. /\ q \in Request /\ RequestOK(q) /\ c \in Candidates
      /\ records[c] \in Record \cup {None} /\ records[c] # None
      /\ RecordSound(records[c]) /\ RecordGrows(records[c], records[c])
      /\ records = [records EXCEPT ![c] = records[c]]
  BY <1>1, <1>2, InFlight
<1>4. q.command \in ImportCommand BY <1>2, <1>3 DEF RequestOK
<1>5. q.command.original \in [Fields -> Values] /\ q.command.confidence \in Percent
  BY <1>4, KnowledgeAssumption DEF ImportCommand
<1>6. PICK set :
        set = [objects |-> [f \in Fields |->
                  CreateFromImport(q.command.original[f], q.command.confidence)],
               signals |-> 0]
  OBVIOUS
<1>7. set \in Set /\ SetSound(set) BY <1>5, <1>6, SeedSound
<1>8. request' = [request EXCEPT ![r] = None] BY DEF Seed, Done
<1>9. records' = [records EXCEPT ![c] = records[c]] BY <1>3 DEF Seed
<1>10. sets' = [sets EXCEPT ![c] = set] BY <1>1, <1>6 DEF Seed
<1>11. requests' = requests /\ failures' \in Nat /\ disturbed' \subseteq Candidates
  BY <1>2, InFlight DEF Seed
<1>12. \/ Overwrites(r, c)
       \/ sets[c] = None
  <2>1. request'[r] = None BY <1>8 DEF IInv, TypeOK
  <2> QED BY <1>1, <1>2, <2>1 DEF Overwrites
<1> QED BY <1>1, <1>2, <1>3, <1>7, <1>8, <1>9, <1>10, <1>11, <1>12, Continuing

LEMMA SaveRecordStep ==
    ASSUME IInv, NEW r \in Slots, SaveRecord(r)
    PROVE  IInv' /\ \A d \in Candidates : Keeps(d)
<1>1. PICK q, c : q = request[r] /\ c = q.candidate OBVIOUS
<1>2. request[r] # None /\ q.at = "saveRecord" BY <1>1 DEF SaveRecord, At
<1>3. /\ q \in Request /\ RequestOK(q) /\ records[c] # None
      /\ sets[c] \in Set \cup {None} /\ (sets[c] # None => SetSound(sets[c]))
      /\ (sets[c] # None => SetGrows(sets[c], sets[c]))
      /\ sets = [sets EXCEPT ![c] = sets[c]]
  BY <1>1, <1>2, InFlight
<1>4. q.command \in RecordCommand /\ Held(q.record) BY <1>2, <1>3 DEF RequestOK
<1>5. PICK record, todo : /\ record = Updated(q.record, q.command)
                          /\ todo = Evolving(q.record, q.command)
  OBVIOUS
<1>6. Pending(record, todo) /\ todo \subseteq Fields /\ RecordGrows(q.record, record)
  BY <1>4, <1>5, UpdatedGrows
<1>7. record \in Record /\ RecordSound(record) /\ record # None
  BY <1>6 DEF Pending, Held, RecordGrows
<1>8. PICK new : new = Going(q, record, todo)
  OBVIOUS
<1>9. new # None => /\ new \in Request /\ RequestOK(new)
                    /\ new.candidate = c /\ new.at = "readSet"
  BY <1>1, <1>3, <1>6, <1>8, GoOnFacts
<1>10. request' = [request EXCEPT ![r] = new]
  BY <1>1, <1>5, <1>8 DEF SaveRecord, GoOn, Going
<1>11. records' = [records EXCEPT ![c] = record] BY <1>1, <1>5 DEF SaveRecord
<1>12. sets' = [sets EXCEPT ![c] = sets[c]] BY <1>3 DEF SaveRecord
<1>13. requests' = requests /\ failures' \in Nat /\ disturbed' \subseteq Candidates
  BY <1>2, InFlight DEF SaveRecord
<1>14. Overwrites(r, c) \/ RecordGrows(records[c], record)
  <2>1. request'[r] = new BY <1>10 DEF IInv, TypeOK
  <2>2. new # q BY <1>2, <1>3, <1>9, RequestFacts
  <2>3. q.record # records[c] => Overwrites(r, c)
    BY <1>1, <1>2, <2>1, <2>2 DEF Overwrites
  <2> QED BY <1>6, <2>3
<1> QED BY <1>1, <1>2, <1>3, <1>7, <1>9, <1>10, <1>11, <1>12, <1>13, <1>14, Continuing

LEMMA ReadSetStep ==
    ASSUME IInv, NEW r \in Slots, ReadSet(r)
    PROVE  IInv' /\ \A d \in Candidates : Keeps(d)
<1>1. PICK q, c : q = request[r] /\ c = q.candidate OBVIOUS
<1>2. request[r] # None /\ q.at = "readSet" BY <1>1 DEF ReadSet, At
<1>3. /\ q \in Request /\ RequestOK(q) /\ q.todo \in SUBSET Fields
      /\ records[c] \in Record \cup {None} /\ records[c] # None /\ RecordSound(records[c])
      /\ RecordGrows(records[c], records[c])
      /\ sets[c] \in Set \cup {None} /\ (sets[c] # None => SetSound(sets[c]))
      /\ (sets[c] # None => SetGrows(sets[c], sets[c]))
      /\ records = [records EXCEPT ![c] = records[c]]
      /\ sets = [sets EXCEPT ![c] = sets[c]]
  BY <1>1, <1>2, InFlight
<1>4. q.todo # {} /\ Pending(q.record, q.todo) BY <1>2, <1>3 DEF RequestOK
<1>5. /\ records' = [records EXCEPT ![c] = records[c]]
      /\ sets' = [sets EXCEPT ![c] = sets[c]]
      /\ requests' = requests /\ failures' \in Nat /\ disturbed' \subseteq Candidates
  BY <1>2, <1>3, InFlight DEF ReadSet
<1>6. \E new : /\ request' = [request EXCEPT ![r] = new]
               /\ new # None => /\ new \in Request /\ RequestOK(new)
                                /\ new.candidate = c /\ new.at # "saveCandidate"
  <2>1. CASE sets[c] = None
    <3>1. PICK todo : todo = Others(q.todo) OBVIOUS
    <3>2. todo \in SUBSET Fields /\ Pending(q.record, todo)
      BY <1>3, <1>4, <3>1 DEF Others, Pending
    <3>3. PICK new : new = Going(q, q.record, todo)
      OBVIOUS
    <3>4. new # None => /\ new \in Request /\ RequestOK(new)
                        /\ new.candidate = c /\ new.at = "readSet"
      BY <1>1, <1>3, <3>2, <3>3, GoOnFacts
    <3>5. request' = [request EXCEPT ![r] = new]
      BY <1>1, <2>1, <3>1, <3>3 DEF ReadSet, GoOn, Going
    <3> QED BY <3>4, <3>5
  <2>2. CASE sets[c] # None
    <3>1. PICK set : set = sets[c] OBVIOUS
    <3>2. PICK new : new = [q EXCEPT !.at = "saveSet", !.set = set] OBVIOUS
    <3>3. request' = [request EXCEPT ![r].at = "saveSet", ![r].set = set]
      BY <1>1, <2>2, <3>1 DEF ReadSet
    <3>4. request' = [request EXCEPT ![r] = new]
      BY <1>1, <3>2, <3>3 DEF IInv, TypeOK
    <3>5. set \in Set /\ SetSound(set) BY <1>3, <2>2, <3>1
    <3>6. /\ new \in Request /\ new.candidate = c /\ new.at = "saveSet" /\ new.set = set
          /\ new.todo = q.todo /\ new.record = q.record
      BY <1>1, <1>3, <3>2, <3>5 DEF Request
    <3>7. RequestOK(new) BY <1>4, <3>5, <3>6 DEF RequestOK
    <3> QED BY <3>4, <3>6, <3>7
  <2> QED BY <2>1, <2>2
<1>7. PICK new : /\ request' = [request EXCEPT ![r] = new]
                 /\ new # None => /\ new \in Request /\ RequestOK(new)
                                  /\ new.candidate = c /\ new.at # "saveCandidate"
  BY <1>6
<1> QED BY <1>1, <1>2, <1>3, <1>5, <1>7, Continuing

LEMMA SaveSetStep ==
    ASSUME IInv, NEW r \in Slots, SaveSet(r)
    PROVE  IInv' /\ \A d \in Candidates : Keeps(d)
<1>1. PICK q, c : q = request[r] /\ c = q.candidate OBVIOUS
<1>2. request[r] # None /\ q.at = "saveSet" BY <1>1 DEF SaveSet, At
<1>3. /\ q \in Request /\ RequestOK(q) /\ q.todo \in SUBSET Fields
      /\ records[c] \in Record \cup {None} /\ records[c] # None /\ RecordSound(records[c])
      /\ RecordGrows(records[c], records[c])
      /\ records = [records EXCEPT ![c] = records[c]]
  BY <1>1, <1>2, InFlight
<1>4. /\ q.set \in Set /\ SetSound(q.set)
      /\ IF q.todo = {} THEN q.command \in SetCommand ELSE Pending(q.record, q.todo)
  BY <1>2, <1>3 DEF RequestOK
<1>5. PICK set : set = SetToSave(q) OBVIOUS
<1>6. set \in Set /\ SetSound(set) /\ SetGrows(q.set, set) BY <1>3, <1>4, <1>5, SaveGrows
<1>7. /\ records' = [records EXCEPT ![c] = records[c]]
      /\ sets' = [sets EXCEPT ![c] = set]
      /\ requests' = requests /\ failures' \in Nat /\ disturbed' \subseteq Candidates
  BY <1>1, <1>2, <1>3, <1>5, InFlight DEF SaveSet
<1>8. \E new : /\ request' = [request EXCEPT ![r] = new]
               /\ new # q
               /\ new # None => /\ new \in Request /\ RequestOK(new)
                                /\ new.candidate = c /\ new.at # "saveCandidate"
  <2>1. CASE q.todo = {}
    <3>1. request' = [request EXCEPT ![r] = None] BY <1>1, <2>1 DEF SaveSet, Done
    <3> QED BY <1>1, <1>2, <3>1
  <2>2. CASE q.todo # {}
    <3>1. PICK todo : todo = Others(q.todo) OBVIOUS
    <3>2. todo \in SUBSET Fields /\ Pending(q.record, todo)
      BY <1>3, <1>4, <2>2, <3>1 DEF Others, Pending
    <3>3. PICK new : new = Going(q, q.record, todo)
      OBVIOUS
    <3>4. new # None => /\ new \in Request /\ RequestOK(new)
                        /\ new.candidate = c /\ new.at = "readSet"
      BY <1>1, <1>3, <3>2, <3>3, GoOnFacts
    <3>5. request' = [request EXCEPT ![r] = new]
      BY <1>1, <2>2, <3>1, <3>3 DEF SaveSet, GoOn, Going
    <3> QED BY <1>1, <1>2, <3>4, <3>5
  <2> QED BY <2>1, <2>2
<1>9. Overwrites(r, c) \/ SetGrows(sets[c], set)
  <2>1. request'[r] # request[r] BY <1>1, <1>8 DEF IInv, TypeOK
  <2>2. q.set # sets[c] => Overwrites(r, c) BY <1>1, <1>2, <2>1 DEF Overwrites
  <2> QED BY <1>6, <2>2
<1> QED BY <1>1, <1>2, <1>3, <1>6, <1>7, <1>8, <1>9, Continuing

LEMMA EvolutionFailsStep ==
    ASSUME IInv, NEW r \in Slots, EvolutionFails(r)
    PROVE  IInv' /\ \A d \in Candidates : Keeps(d)
<1>1. PICK q, c : q = request[r] /\ c = q.candidate OBVIOUS
<1>2. request[r] # None /\ q.at \in {"readSet", "saveSet"} /\ q.todo # {}
  BY <1>1 DEF EvolutionFails, At
<1>3. /\ q \in Request /\ RequestOK(q) /\ q.todo \in SUBSET Fields /\ c \in Candidates
      /\ records[c] \in Record \cup {None} /\ records[c] # None /\ RecordSound(records[c])
      /\ RecordGrows(records[c], records[c])
      /\ sets[c] \in Set \cup {None} /\ (sets[c] # None => SetSound(sets[c]))
      /\ (sets[c] # None => SetGrows(sets[c], sets[c]))
      /\ records = [records EXCEPT ![c] = records[c]]
      /\ sets = [sets EXCEPT ![c] = sets[c]]
      /\ failures \in Nat /\ disturbed \subseteq Candidates
  BY <1>1, <1>2, InFlight
<1>4. Pending(q.record, q.todo) BY <1>2, <1>3 DEF RequestOK
<1>5. /\ records' = [records EXCEPT ![c] = records[c]]
      /\ sets' = [sets EXCEPT ![c] = sets[c]]
      /\ requests' = requests /\ failures' \in Nat /\ disturbed' \subseteq Candidates
  BY <1>1, <1>3 DEF EvolutionFails, Fail
<1>6. PICK todo : todo = Others(q.todo) OBVIOUS
<1>7. todo \in SUBSET Fields /\ Pending(q.record, todo)
  BY <1>3, <1>4, <1>6 DEF Others, Pending
<1>8. PICK new : new = Going(q, q.record, todo)
  OBVIOUS
<1>9. new # None => /\ new \in Request /\ RequestOK(new)
                    /\ new.candidate = c /\ new.at = "readSet"
  BY <1>1, <1>3, <1>7, <1>8, GoOnFacts
<1>10. request' = [request EXCEPT ![r] = new]
  BY <1>1, <1>6, <1>8 DEF EvolutionFails, GoOn, Going
<1> QED BY <1>1, <1>2, <1>3, <1>5, <1>9, <1>10, Continuing

LEMMA AbortStep ==
    ASSUME IInv, NEW r \in Slots, Abort(r)
    PROVE  IInv' /\ \A d \in Candidates : Keeps(d)
<1>1. PICK q, c : q = request[r] /\ c = q.candidate OBVIOUS
<1>2. request[r] # None BY DEF Abort
<1>3. /\ c \in Candidates /\ records[c] \in Record \cup {None}
      /\ (records[c] # None => RecordSound(records[c]))
      /\ (records[c] # None => RecordGrows(records[c], records[c]))
      /\ sets[c] \in Set \cup {None}
      /\ (sets[c] # None => SetSound(sets[c]) /\ records[c] # None)
      /\ (sets[c] # None => SetGrows(sets[c], sets[c]))
      /\ records = [records EXCEPT ![c] = records[c]]
      /\ sets = [sets EXCEPT ![c] = sets[c]]
      /\ failures \in Nat /\ disturbed \subseteq Candidates
  BY <1>1, <1>2, InFlight
<1>4. /\ records' = [records EXCEPT ![c] = records[c]]
      /\ sets' = [sets EXCEPT ![c] = sets[c]]
      /\ requests' = requests /\ failures' \in Nat /\ disturbed' \subseteq Candidates
  BY <1>1, <1>3 DEF Abort, Fail
<1>5. request' = [request EXCEPT ![r] = None] BY DEF Abort, Done
<1> QED BY <1>1, <1>2, <1>3, <1>4, <1>5, Continuing

-----------------------------------------------------------------------------
(* The theorems.                                                           *)

LEMMA StutterKeeps ==
    ASSUME IInv, UNCHANGED vars
    PROVE  IInv'
BY DEF vars, IInv, TypeOK, RecordsSound, SetsSound, RequestsOK, ImportAlone, Recorded, At

LEMMA StepKeeps ==
    ASSUME IInv, Next
    PROVE  IInv' /\ \A d \in Candidates : Keeps(d)
<1>1. PICK r \in Slots : Arrival(r) \/ Continue(r) BY DEF Next
<1>2. CASE Arrival(r)
  BY <1>2, ImportStep, ReadRecordStep, FindSetStep DEF Arrival
<1>3. CASE Continue(r)
  BY <1>3, SaveCandidateStep, SeedStep, SaveRecordStep, ReadSetStep, SaveSetStep,
     EvolutionFailsStep, AbortStep DEF Continue
<1> QED BY <1>1, <1>2, <1>3

LEMMA InitIInv == Init => IInv
BY KnowledgeAssumption
   DEF Init, IInv, TypeOK, RecordsSound, SetsSound, RequestsOK, ImportAlone, Recorded, At

(* The inductive invariant holds in every reachable state. *)
THEOREM Invariance == Spec => []IInv
<1>1. IInv /\ [Next]_vars => IInv' BY StepKeeps, StutterKeeps
<1> QED BY InitIInv, <1>1, PTL DEF Spec

(* Confidences stay within percent, rows and requests keep their types:    *)
(* no sequence of evidence, signals and reviews leaves them.               *)
THEOREM KnowledgeTypeCorrect == Spec => []TypeOK
<1>1. IInv => TypeOK BY DEF IInv
<1> QED BY Invariance, <1>1, PTL

(* A candidate that is ready has every field verified, and the flags of a  *)
(* field agree with its revisions; the timeline of every object is         *)
(* gapless, its confidence at least a recruiter's once a human reviewed    *)
(* it, and it has seen every signal its set counts: however the handlers   *)
(* interleave, fail or save over each other.                               *)
THEOREM KnowledgeStaysSound == Spec => []KnowledgeSound
<1>1. IInv => KnowledgeSound BY DEF IInv, KnowledgeSound
<1> QED BY Invariance, <1>1, PTL

(* History is lost only where a handler saves over what another one saved  *)
(* after it read.                                                          *)
THEOREM HistoryIsKept == Spec => HistoryKept
<1>1. IInv /\ [Next]_vars => [\A c \in Candidates : Keeps(c)]_vars BY StepKeeps
<1> QED BY Invariance, <1>1, PTL DEF Spec, HistoryKept

-----------------------------------------------------------------------------
(* The knowledge of a candidate stays sound under everything that the      *)
(* review screens and restarts of the process add to its handlers: a step  *)
(* of MeasuredNext is a step of Next, or leaves its variables alone, or is *)
(* a Restart, which only takes requests away.                              *)

(* A restart leaves the rows alone and no request in flight.               *)
LEMMA RestartStep ==
    ASSUME IInv, Restart
    PROVE  IInv' /\ \A c \in Candidates : Keeps(c)
<1>1. /\ records' = records /\ sets' = sets /\ requests' = requests
      /\ failures' = failures + 1
      /\ request' = [r \in Slots |-> None]
      /\ disturbed' = disturbed \cup {c \in Candidates : Busy(c)}
  BY DEF Restart
<1>2. TypeOK' BY <1>1 DEF IInv, TypeOK
<1>3. \A r \in Slots : request'[r] = None BY <1>1
<1>4. RecordsSound' /\ SetsSound' BY <1>1 DEF IInv, RecordsSound, SetsSound
<1>5. IInv' BY <1>1, <1>2, <1>3, <1>4 DEF IInv, RequestsOK, ImportAlone, Recorded, At
<1>6. ASSUME NEW c \in Candidates PROVE Keeps(c)
  <2>1. records[c] \in Record \cup {None} /\ sets[c] \in Set \cup {None}
    BY DEF IInv, TypeOK
  <2>2. records'[c] = records[c] /\ sets'[c] = sets[c] BY <1>1
  <2> QED BY <2>1, <2>2, RecordGrowsReflexive, SetGrowsReflexive DEF Keeps
<1> QED BY <1>5, <1>6

(* Every step keeps the invariant of the handlers.                         *)
LEMMA MeasuredStep ==
    ASSUME IInv, [MeasuredNext]_allVars
    PROVE  IInv' /\ (UNCHANGED vars \/ \A c \in Candidates : Keeps(c))
<1>1. CASE UNCHANGED allVars BY <1>1, StutterKeeps DEF allVars
<1>2. CASE \E r \in Slots : Arrival(r) \/ Abort(r) BY <1>2, StepKeeps DEF Next, Continue
<1>3. CASE \E r \in Slots : Proceed(r)
  BY <1>3, StepKeeps DEF Proceed, Returns, Next, Continue
<1>4. CASE \E c \in Candidates : getReview(c) \/ abandon(c)
  BY <1>4, StutterKeeps DEF getReview, abandon, Beacon
<1>5. CASE Restart BY <1>5, RestartStep
<1> QED BY <1>1, <1>2, <1>3, <1>4, <1>5 DEF MeasuredNext

THEOREM MeasuredInvariance == MeasuredSpec => []IInv
<1>1. MeasuredInit => IInv BY InitIInv DEF MeasuredInit
<1> QED BY <1>1, MeasuredStep, PTL DEF MeasuredSpec

(* Also with review sessions, beacons and restarts a record and a set of   *)
(* knowledge never contradict themselves (CandidateEditService,            *)
(* KnowledgeEvolutionService).                                             *)
THEOREM MeasuredStaysSound == MeasuredSpec => []KnowledgeSound
<1>1. IInv => KnowledgeSound BY DEF IInv, KnowledgeSound
<1> QED BY MeasuredInvariance, <1>1, PTL

(* A restart loses no history either: only a handler that saves over what  *)
(* another one saved does.                                                 *)
THEOREM MeasuredHistoryIsKept == MeasuredSpec => HistoryKept
<1>1. IInv /\ [MeasuredNext]_allVars => [\A c \in Candidates : Keeps(c)]_vars
  BY MeasuredStep
<1> QED BY MeasuredInvariance, <1>1, PTL DEF MeasuredSpec, HistoryKept

-----------------------------------------------------------------------------
(* What the revisions of a field, and of its object, tell.                 *)

(* The last edit of a field gave it its value; without one it says what    *)
(* the AI said.                                                            *)
FieldTold(k) ==
    \/ /\ \A n \in DOMAIN k.revisions : k.revisions[n].action # "edit"
       /\ k.current = k.original
    \/ \E n \in DOMAIN k.revisions :
          /\ k.revisions[n].action = "edit" /\ k.revisions[n].value = k.current
          /\ \A m \in DOMAIN k.revisions : m > n => k.revisions[m].action # "edit"

(* An object that was never corrected says what the AI said, one that was  *)
(* corrected once does not.                                                *)
ObjectTold(o) ==
    LET corrections == Cardinality(Corrections(o)) IN
    /\ corrections = 0 => o.current = o.original
    /\ corrections = 1 => o.current # o.original

(* An object has at least the revisions of the field, and the same changes. *)
Follows(k, o) ==
    /\ o.current = k.current /\ o.verified = k.verified
    /\ Len(k.revisions) <= Len(o.revisions)
    /\ Cardinality(Corrections(o)) = Cardinality(Changes(k))

(* What one more review makes of a field. *)
Advances(k, new) ==
    /\ new.original = k.original /\ FieldTold(new)
    /\ \/ new = k
       \/ \E e \in FieldRevision : new.revisions = Append(k.revisions, e) /\ e.value = new.current

LEMMA Appended ==
    ASSUME NEW S, NEW s \in Seq(S), NEW e \in S, NEW t, t = Append(s, e)
    PROVE  /\ Len(s) \in Nat /\ DOMAIN s = 1..Len(s)
           /\ t \in Seq(S) /\ Len(t) = Len(s) + 1 /\ DOMAIN t = 1..(Len(s) + 1)
           /\ t[Len(s) + 1] = e
           /\ \A n \in 1..Len(s) : t[n] = s[n]
  OBVIOUS

LEMMA EditTold ==
    ASSUME NEW k \in FieldKnowledge, NEW value \in Values
    PROVE  Advances(k, Edit(k, value))
<1>1. PICK e : e = [value |-> value, action |-> "edit"] OBVIOUS
<1>2. e \in FieldRevision /\ e.value = value /\ e.action = "edit"
  BY <1>1 DEF FieldRevision, Actions
<1>3. PICK g : g = Append(k.revisions, e) OBVIOUS
<1>4. k.revisions \in Seq(FieldRevision) BY DEF FieldKnowledge
<1>5. g \in Seq(FieldRevision) /\ DOMAIN g = 1..(Len(k.revisions) + 1)
      /\ Len(k.revisions) \in Nat /\ g[Len(k.revisions) + 1] = e
  BY <1>2, <1>3, <1>4, Appended
<1>6. PICK new : new = Edit(k, value) OBVIOUS
<1>7. PICK differs : differs = (value # k.original) OBVIOUS
<1>8. new = [k EXCEPT !.revisions = g, !.verified = TRUE, !.rejected = FALSE,
                      !.current = value, !.edited = differs, !.reviewed = TRUE]
  <2>1. PICK mid : mid = Revised(k, value, "edit") OBVIOUS
  <2>2. mid = [k EXCEPT !.revisions = g, !.verified = TRUE, !.rejected = FALSE]
    BY <1>1, <1>3, <2>1 DEF Revised
  <2>3. new = [mid EXCEPT !.current = value, !.edited = differs, !.reviewed = TRUE]
    BY <1>6, <1>7, <2>1 DEF Edit
  <2> QED BY <2>2, <2>3 DEF FieldKnowledge
<1>9. new.original = k.original /\ new.current = value /\ new.revisions = g
  BY <1>8 DEF FieldKnowledge
<1>10. FieldTold(new) BY <1>2, <1>5, <1>9 DEF FieldTold
<1> QED BY <1>2, <1>3, <1>6, <1>9, <1>10 DEF Advances

(* Any other revision leaves the value and the last edit.                  *)
LEMMA JudgeTold ==
    ASSUME NEW k \in FieldKnowledge, FieldTold(k), NEW action \in Actions \ {"edit"},
           NEW seen \in BOOLEAN
    PROVE  Advances(k, [Revised(k, k.current, action) EXCEPT !.reviewed = seen])
<1>1. PICK e : e = [value |-> k.current, action |-> action] OBVIOUS
<1>2. e \in FieldRevision /\ e.value = k.current /\ e.action # "edit"
  BY <1>1 DEF FieldRevision, FieldKnowledge
<1>3. PICK g : g = Append(k.revisions, e) OBVIOUS
<1>4. k.revisions \in Seq(FieldRevision) BY DEF FieldKnowledge
<1>5. /\ DOMAIN g = 1..(Len(k.revisions) + 1) /\ DOMAIN k.revisions = 1..Len(k.revisions)
      /\ Len(k.revisions) \in Nat /\ g[Len(k.revisions) + 1] = e
      /\ \A n \in 1..Len(k.revisions) : g[n] = k.revisions[n]
  BY <1>2, <1>3, <1>4, Appended
<1>6. PICK new : new = [Revised(k, k.current, action) EXCEPT !.reviewed = seen] OBVIOUS
<1>7. new.original = k.original /\ new.current = k.current /\ new.revisions = g
  <2>1. PICK rejected : rejected = (action = "reject") OBVIOUS
  <2>2. new = [k EXCEPT !.revisions = g, !.verified = TRUE, !.rejected = rejected,
                        !.reviewed = seen]
    <3>1. PICK mid : mid = Revised(k, k.current, action) OBVIOUS
    <3>2. mid = [k EXCEPT !.revisions = g, !.verified = TRUE, !.rejected = rejected]
      BY <1>1, <1>3, <2>1, <3>1 DEF Revised
    <3> QED BY <1>6, <3>1, <3>2 DEF FieldKnowledge
  <2> QED BY <2>2 DEF FieldKnowledge
<1>8. FieldTold(new)
  <2>1. CASE \A n \in DOMAIN k.revisions : k.revisions[n].action # "edit"
    <3>1. k.current = k.original BY <2>1 DEF FieldTold
    <3>2. \A n \in DOMAIN g : g[n].action # "edit" BY <1>2, <1>5, <2>1
    <3> QED BY <1>7, <3>1, <3>2 DEF FieldTold
  <2>2. CASE ~ \A n \in DOMAIN k.revisions : k.revisions[n].action # "edit"
    <3>1. PICK n \in DOMAIN k.revisions :
             /\ k.revisions[n].action = "edit" /\ k.revisions[n].value = k.current
             /\ \A m \in DOMAIN k.revisions : m > n => k.revisions[m].action # "edit"
      BY <2>2 DEF FieldTold
    <3>2. n \in DOMAIN g /\ g[n] = k.revisions[n] BY <1>5, <3>1
    <3>3. \A m \in DOMAIN g : m > n => g[m].action # "edit" BY <1>2, <1>5, <3>1
    <3> QED BY <1>7, <3>1, <3>2, <3>3 DEF FieldTold
  <2> QED BY <2>1, <2>2
<1> QED BY <1>2, <1>3, <1>6, <1>7, <1>8 DEF Advances

LEMMA VerifyTold ==
    ASSUME NEW k \in FieldKnowledge, FieldTold(k), NEW seen \in BOOLEAN
    PROVE  Advances(k, Verify(k, seen))
<1>1. CASE k.verified BY <1>1 DEF Verify, Advances
<1>2. CASE ~k.verified
  <2>1. Verify(k, seen) = [Revised(k, k.current, "verify") EXCEPT !.reviewed = seen]
    BY <1>2 DEF Verify
  <2> QED BY <2>1, JudgeTold DEF Actions
<1> QED BY <1>1, <1>2

LEMMA ReviewTold ==
    ASSUME NEW k \in FieldKnowledge, FieldTold(k), NEW action \in Actions, NEW value,
           action = "edit" => value \in Values
    PROVE  Advances(k, Review(k, action, value))
<1>1. CASE action = "verify" BY <1>1, VerifyTold DEF Review
<1>2. CASE action = "edit"
  <2>1. Review(k, action, value) = Edit(k, value) BY <1>2 DEF Review
  <2> QED BY <1>2, <2>1, EditTold
<1>3. CASE action \in {"accept", "reject"}
  <2>1. Review(k, action, value) = [Revised(k, k.current, action) EXCEPT !.reviewed = TRUE]
    BY <1>3 DEF Review
  <2> QED BY <1>3, <2>1, JudgeTold DEF Actions
<1> QED BY <1>1, <1>2, <1>3 DEF Actions

LEMMA OneMore ==
    ASSUME NEW n \in Nat, NEW S \in SUBSET (1..n)
    PROVE  Cardinality(S) \in Nat /\ Cardinality(S \cup {n + 1}) = Cardinality(S) + 1
<1>1. IsFiniteSet(1..n) BY FS_Interval
<1>2. IsFiniteSet(S) BY <1>1, FS_Subset
<1>3. Cardinality(S) \in Nat BY <1>2, FS_CardinalityType
<1>4. n + 1 \notin S OBVIOUS
<1>5. Cardinality(S \cup {n + 1}) = Cardinality(S) + 1 BY <1>2, <1>4, FS_AddElement
<1> QED BY <1>3, <1>5

LEMMA ChangesCount ==
    ASSUME NEW k \in FieldKnowledge, FieldSound(k), FieldTold(k),
           NEW new, new.original = k.original,
           NEW e \in FieldRevision, new.revisions = Append(k.revisions, e)
    PROVE  /\ Cardinality(Changes(k)) \in Nat
           /\ Cardinality(Changes(new))
                = Cardinality(Changes(k)) + (IF e.value # k.current THEN 1 ELSE 0)
<1> DEFINE n == Len(k.revisions)
<1>1. k.revisions \in Seq(FieldRevision) BY DEF FieldKnowledge
<1>2. /\ n \in Nat /\ DOMAIN k.revisions = 1..n /\ DOMAIN new.revisions = 1..(n + 1)
      /\ new.revisions[n + 1] = e
      /\ \A m \in 1..n : new.revisions[m] = k.revisions[m]
  BY <1>1, Appended
<1>3. n > 0 => k.revisions[n].value = k.current BY DEF FieldSound
<1>4. n = 0 => k.current = k.original BY <1>2 DEF FieldTold
<1> HIDE DEF n
<1>5. Changes(k) \in SUBSET (1..n) BY <1>2 DEF Changes
<1>6. ASSUME NEW m \in 1..n PROVE m \in Changes(new) <=> m \in Changes(k)
  <2>1. m # 1 => m - 1 \in 1..n BY <1>2
  <2> QED BY <1>2, <2>1 DEF Changes
<1>7. n + 1 \in Changes(new) <=> e.value # k.current
  <2>1. CASE n = 0 BY <1>2, <1>4, <2>1 DEF Changes
  <2>2. CASE n # 0
    <3>1. n + 1 # 1 /\ (n + 1) - 1 = n /\ n \in 1..n /\ n + 1 \in 1..(n + 1) BY <1>2, <2>2
    <3> QED BY <1>2, <1>3, <2>2, <3>1 DEF Changes
  <2> QED BY <2>1, <2>2
<1>8. Changes(new) \subseteq 1..(n + 1) BY <1>2 DEF Changes
<1>9. \A m : m \in 1..(n + 1) <=> m \in 1..n \/ m = n + 1 BY <1>2
<1>10. Cardinality(Changes(k)) \in Nat
       /\ Cardinality(Changes(k) \cup {n + 1}) = Cardinality(Changes(k)) + 1
  BY <1>2, <1>5, OneMore
<1>11. CASE e.value # k.current
  <2>1. \A m : m \in Changes(new) <=> m \in Changes(k) \cup {n + 1}
    BY <1>5, <1>6, <1>7, <1>8, <1>9, <1>11
  <2>2. Changes(new) = Changes(k) \cup {n + 1} BY <2>1
  <2> QED BY <1>10, <1>11, <2>2
<1>12. CASE e.value = k.current
  <2>1. \A m : m \in Changes(new) <=> m \in Changes(k)
    BY <1>5, <1>6, <1>7, <1>8, <1>9, <1>12
  <2>2. Changes(new) = Changes(k) BY <2>1
  <2> QED BY <1>10, <1>12, <2>2
<1> QED BY <1>11, <1>12

(* A revision of an object, and what it does to what the object tells.     *)
LEMMA CorrectionsCount ==
    ASSUME NEW o \in Object, NEW value \in Values
    PROVE  LET new == ApplyRevision(o, value) IN
           /\ new.current = value /\ new.original = o.original /\ new.verified
           /\ Len(o.revisions) \in Nat /\ Len(new.revisions) = Len(o.revisions) + 1
           /\ Cardinality(Corrections(o)) \in Nat
           /\ Cardinality(Corrections(new))
                = Cardinality(Corrections(o)) + (IF value # o.current THEN 1 ELSE 0)
           /\ ObjectTold(o) => ObjectTold(new)
<1> DEFINE n == Len(o.revisions)
<1>1. PICK e : e = [old |-> o.current, new |-> value] OBVIOUS
<1>2. o.revisions \in Seq(ObjectRevision) /\ e \in ObjectRevision /\ e.old = o.current /\ e.new = value
  BY <1>1 DEF Object, ObjectRevision
<1>3. PICK g : g = Append(o.revisions, e) OBVIOUS
<1>4. /\ n \in Nat /\ DOMAIN o.revisions = 1..n /\ DOMAIN g = 1..(n + 1) /\ Len(g) = n + 1
      /\ g \in Seq(ObjectRevision) /\ g[n + 1] = e
      /\ \A m \in 1..n : g[m] = o.revisions[m]
  BY <1>2, <1>3, Appended
<1> HIDE DEF n
<1>5. PICK new : new = ApplyRevision(o, value) OBVIOUS
<1>6. PICK p, s : p = Ladder.recruiter /\ s = o.signals + 1 OBVIOUS
<1>7. new = [o EXCEPT !.current = value, !.revisions = g, !.confidence = p, !.signals = s,
                      !.verified = TRUE]
  BY <1>1, <1>3, <1>5, <1>6 DEF ApplyRevision
<1>8. /\ new.current = value /\ new.original = o.original /\ new.verified /\ new.revisions = g
  BY <1>7 DEF Object
<1>9. Corrections(o) \in SUBSET (1..n) BY <1>4 DEF Corrections
<1>10. Corrections(new) = IF value # o.current THEN Corrections(o) \cup {n + 1} ELSE Corrections(o)
  <2>1. \A m \in 1..n : m \in Corrections(new) <=> m \in Corrections(o)
    BY <1>4, <1>8 DEF Corrections
  <2>2. n + 1 \in Corrections(new) <=> value # o.current BY <1>2, <1>4, <1>8 DEF Corrections
  <2>3. Corrections(new) \subseteq 1..(n + 1) BY <1>4, <1>8 DEF Corrections
  <2> QED BY <1>4, <1>9, <2>1, <2>2, <2>3
<1>11. /\ Cardinality(Corrections(o)) \in Nat
       /\ Cardinality(Corrections(new))
            = Cardinality(Corrections(o)) + (IF value # o.current THEN 1 ELSE 0)
  <2>1. Cardinality(Corrections(o)) \in Nat
        /\ Cardinality(Corrections(o) \cup {n + 1}) = Cardinality(Corrections(o)) + 1
    BY <1>4, <1>9, OneMore
  <2> QED BY <1>10, <2>1
<1>12. ObjectTold(o) => ObjectTold(new) BY <1>8, <1>11 DEF ObjectTold
<1> QED BY <1>4, <1>5, <1>8, <1>11, <1>12 DEF n

(* An object that followed a field follows it again, once it has recorded  *)
(* what a review made of the field.                                        *)
LEMMA FollowsAgain ==
    ASSUME NEW k \in FieldKnowledge, FieldSound(k), FieldTold(k), NEW o \in Object, Follows(k, o),
           NEW new \in FieldKnowledge, FieldSound(new), new.verified, Advances(k, new)
    PROVE  Follows(new, ApplyRevision(o, new.revisions[Len(new.revisions)].value))
<1>1. PICK value : value = new.revisions[Len(new.revisions)].value OBVIOUS
<1>2. value = new.current /\ value \in Values BY <1>1 DEF FieldSound, FieldKnowledge
<1>3. PICK p : p = ApplyRevision(o, value) OBVIOUS
<1>4. /\ p.current = value /\ p.verified
      /\ Len(o.revisions) \in Nat /\ Len(p.revisions) = Len(o.revisions) + 1
      /\ Cardinality(Corrections(o)) \in Nat
      /\ Cardinality(Corrections(p))
           = Cardinality(Corrections(o)) + (IF value # o.current THEN 1 ELSE 0)
  BY <1>2, <1>3, CorrectionsCount
<1>5. /\ o.current = k.current /\ Len(k.revisions) <= Len(o.revisions) /\ Len(k.revisions) \in Nat
      /\ Cardinality(Corrections(o)) = Cardinality(Changes(k))
  BY DEF Follows, FieldKnowledge
<1>6. p.verified = new.verified
  BY <1>3, <1>4 DEF ApplyRevision, Object, FieldKnowledge
<1>7. CASE new = k
  <2>1. Cardinality(Corrections(p)) = Cardinality(Changes(new)) BY <1>2, <1>4, <1>5, <1>7
  <2>2. Len(new.revisions) <= Len(p.revisions) BY <1>4, <1>5, <1>7
  <2> QED BY <1>1, <1>2, <1>3, <1>4, <1>6, <2>1, <2>2 DEF Follows
<1>8. CASE new # k
  <2>1. PICK e \in FieldRevision : new.revisions = Append(k.revisions, e) /\ e.value = new.current
    BY <1>8 DEF Advances
  <2>2. Len(new.revisions) = Len(k.revisions) + 1 BY <2>1, Appended DEF FieldKnowledge
  <2>3. Cardinality(Changes(new))
          = Cardinality(Changes(k)) + (IF e.value # k.current THEN 1 ELSE 0)
    BY <2>1, ChangesCount DEF Advances
  <2>4. Cardinality(Corrections(p)) = Cardinality(Changes(new))
    BY <1>2, <1>4, <1>5, <2>1, <2>3
  <2>5. Len(new.revisions) <= Len(p.revisions) BY <1>4, <1>5, <2>2
  <2> QED BY <1>1, <1>2, <1>3, <1>4, <1>6, <2>4, <2>5 DEF Follows
<1> QED BY <1>7, <1>8

-----------------------------------------------------------------------------
(* Rows that tell the truth, and rows that agree.                          *)

RecordTold(record) == \A f \in Fields : FieldTold(record.fields[f])
SetTold(set) == \A f \in Fields : ObjectTold(set.objects[f])

LastValue(k) == k.revisions[Len(k.revisions)].value

(* The objects follow the fields, or will, once the fields in todo are     *)
(* recorded.                                                               *)
Agrees(record, set, todo) ==
    \A f \in Fields :
        Follows(record.fields[f],
                IF f \in todo THEN ApplyRevision(set.objects[f], LastValue(record.fields[f]))
                              ELSE set.objects[f])

LEMMA ImportTold ==
    ASSUME NEW original \in [Fields -> Values], NEW confidence \in Percent,
           NEW set, set = [objects |-> [f \in Fields |-> CreateFromImport(original[f], confidence)],
                           signals |-> 0]
    PROVE  /\ RecordTold(FromImport(original)) /\ SetTold(set)
           /\ Agrees(FromImport(original), set, {})
<1>1. PICK record : record = FromImport(original) OBVIOUS
<1>2. ASSUME NEW f \in Fields
      PROVE  /\ FieldTold(record.fields[f]) /\ ObjectTold(set.objects[f])
             /\ Follows(record.fields[f], set.objects[f])
  <2>1. PICK k, o : k = record.fields[f] /\ o = set.objects[f] OBVIOUS
  <2>2. k = Claimed(original[f]) /\ o = CreateFromImport(original[f], confidence)
    BY <1>1, <2>1 DEF FromImport
  <2>3. /\ k.revisions = <<>> /\ k.current = k.original /\ ~k.verified
        /\ o.revisions = <<>> /\ o.current = o.original /\ ~o.verified
        /\ o.current = k.current /\ o.verified = k.verified
    BY <2>2 DEF Claimed, CreateFromImport
  <2>4. DOMAIN k.revisions = {} /\ DOMAIN o.revisions = {}
        /\ Len(k.revisions) = 0 /\ Len(o.revisions) = 0
    BY <2>3
  <2>5. Changes(k) = {} /\ Corrections(o) = {} BY <2>4 DEF Changes, Corrections
  <2>6. Cardinality(Changes(k)) = 0 /\ Cardinality(Corrections(o)) = 0 BY <2>5, FS_EmptySet
  <2>7. FieldTold(k) BY <2>3, <2>4 DEF FieldTold
  <2>8. ObjectTold(o) BY <2>3, <2>6 DEF ObjectTold
  <2>9. Follows(k, o) BY <2>3, <2>4, <2>6 DEF Follows
  <2> QED BY <2>1, <2>7, <2>8, <2>9
<1> QED BY <1>1, <1>2 DEF RecordTold, SetTold, Agrees

(* The fields a handler reviews have one more revision, or none; the       *)
(* others are as they were.                                                *)
LEMMA UpdatedTold ==
    ASSUME NEW record, Held(record), RecordTold(record), NEW command \in RecordCommand,
           NEW f \in Fields
    PROVE  LET k == record.fields[f] new == Updated(record, command).fields[f] IN
           IF f \in Evolving(record, command) THEN Advances(k, new) ELSE new = k
<1> DEFINE old == record.fields
<1>1. PICK new : new = Updated(record, command) OBVIOUS
<1>2. record \in Record /\ old \in [Fields -> FieldKnowledge]
      /\ \A g \in Fields : old[g] \in FieldKnowledge /\ FieldTold(old[g])
  BY DEF Held, Record, RecordTold
<1>3. CASE command.op = "review"
  <2>1. /\ command.field \in Fields /\ command.action \in Actions
        /\ command.action = "edit" => command.value \in Values
    BY <1>3 DEF RecordCommand, Actions
  <2>2. PICK f0 : f0 = command.field OBVIOUS
  <2>3. PICK k : k = Review(old[f0], command.action, command.value) OBVIOUS
  <2>4. Advances(old[f0], k) BY <1>2, <2>1, <2>2, <2>3, ReviewTold
  <2>5. PICK fields : fields = [old EXCEPT ![f0] = k] OBVIOUS
  <2>6. new = [record EXCEPT !.fields = fields]
    <3>1. new = [record EXCEPT !.fields[f0] = Review(@, command.action, command.value)]
      BY <1>1, <1>3, <2>2 DEF Updated
    <3>2. new = [record EXCEPT !.fields = [old EXCEPT ![f0] = k]] BY <3>1, <2>3, Zenon
    <3> QED BY <3>2, <2>5
  <2>7. new.fields = fields BY <1>2, <2>6 DEF Record
  <2>8. Evolving(record, command) = {f0} BY <1>3, <2>2 DEF Evolving
  <2> QED BY <1>1, <1>2, <2>4, <2>5, <2>7, <2>8
<1>4. CASE command.op = "workspace"
  <2>1. new = [record EXCEPT !.workspace = command.value] BY <1>1, <1>4 DEF Updated
  <2>2. new.fields = old BY <1>2, <2>1 DEF Record
  <2>3. Evolving(record, command) = {} BY <1>4 DEF Evolving
  <2> QED BY <1>1, <2>2, <2>3
<1>5. CASE command.op = "ready"
  <2>1. PICK fields : fields = [g \in Fields |-> Verify(old[g], FALSE)] OBVIOUS
  <2>2. new = [record EXCEPT !.fields = fields, !.ready = TRUE]
    BY <1>1, <1>5, <2>1 DEF Updated, MarkReady
  <2>3. new.fields = fields BY <1>2, <2>2 DEF Record
  <2>4. Advances(old[f], Verify(old[f], FALSE)) BY <1>2, VerifyTold
  <2>5. old[f].verified => Verify(old[f], FALSE) = old[f] BY DEF Verify
  <2>6. f \in Evolving(record, command) <=> ~old[f].verified BY <1>5 DEF Evolving
  <2> QED BY <1>1, <2>1, <2>3, <2>4, <2>5, <2>6
<1> QED BY <1>3, <1>4, <1>5 DEF RecordCommand

LEMMA UpdatedAgrees ==
    ASSUME NEW record, Held(record), RecordTold(record), NEW command \in RecordCommand,
           NEW new, new = Updated(record, command), NEW todo, todo = Evolving(record, command)
    PROVE  /\ RecordTold(new)
           /\ \A set \in Set : Agrees(record, set, {}) => Agrees(new, set, todo)
<1>1. Pending(new, todo) BY UpdatedGrows
<1>2. \A f \in Fields : IF f \in todo THEN Advances(record.fields[f], new.fields[f])
                                     ELSE new.fields[f] = record.fields[f]
  BY UpdatedTold
<1>3. RecordTold(new) BY <1>2 DEF RecordTold, Advances
<1>4. ASSUME NEW set \in Set, Agrees(record, set, {}), NEW f \in Fields
      PROVE  Follows(new.fields[f],
                     IF f \in todo THEN ApplyRevision(set.objects[f], LastValue(new.fields[f]))
                                   ELSE set.objects[f])
  <2>1. PICK k, n, o : k = record.fields[f] /\ n = new.fields[f] /\ o = set.objects[f] OBVIOUS
  <2>2. Follows(k, o) BY <1>4, <2>1 DEF Agrees
  <2>3. k \in FieldKnowledge /\ FieldSound(k) /\ FieldTold(k)
    BY <2>1 DEF Held, Record, RecordSound, RecordTold
  <2>4. n \in FieldKnowledge /\ FieldSound(n) /\ o \in Object
    BY <1>1, <2>1 DEF Pending, Held, Record, RecordSound, Set
  <2>5. CASE f \in todo
    <3>1. n.verified /\ Advances(k, n) BY <1>1, <1>2, <2>1, <2>5 DEF Pending
    <3>2. Follows(n, ApplyRevision(o, n.revisions[Len(n.revisions)].value))
      BY <2>2, <2>3, <2>4, <3>1, FollowsAgain
    <3> QED BY <2>1, <2>5, <3>2 DEF LastValue
  <2>6. CASE f \notin todo BY <1>2, <2>1, <2>2, <2>6
  <2> QED BY <2>5, <2>6
<1> QED BY <1>3, <1>4 DEF Agrees

(* One object is revised, the others are as they were.                     *)
LEMMA ReviseIs ==
    ASSUME NEW set \in Set, NEW field \in Fields, NEW value, NEW f \in Fields
    PROVE  ReviseObject(set, field, value).objects[f] =
              IF f = field THEN ApplyRevision(set.objects[field], value) ELSE set.objects[f]
<1>1. PICK o : o = ApplyRevision(set.objects[field], value) OBVIOUS
<1>2. PICK old : old = set.objects OBVIOUS
<1>3. PICK new : new = ReviseObject(set, field, value) OBVIOUS
<1>4. new = [set EXCEPT !.objects[field] = ApplyRevision(@, value)] BY <1>3 DEF ReviseObject
<1>5. new = [set EXCEPT !.objects = [old EXCEPT ![field] = o]] BY <1>1, <1>2, <1>4, Zenon
<1>6. old \in [Fields -> Object] BY <1>2 DEF Set
<1>7. PICK objects : objects = [old EXCEPT ![field] = o] OBVIOUS
<1>8. new = [set EXCEPT !.objects = objects] BY <1>5, <1>7
<1>9. new.objects = objects BY <1>8 DEF Set
<1> QED BY <1>1, <1>2, <1>3, <1>6, <1>7, <1>9

LEMMA ReviseTold ==
    ASSUME NEW set \in Set, SetTold(set), NEW field \in Fields, NEW value \in Values
    PROVE  SetTold(ReviseObject(set, field, value))
<1>1. ASSUME NEW f \in Fields PROVE ObjectTold(ReviseObject(set, field, value).objects[f])
  <2>1. PICK o : o = set.objects[field] OBVIOUS
  <2>2. o \in Object /\ ObjectTold(o) BY <2>1 DEF Set, SetTold
  <2>3. ObjectTold(ApplyRevision(o, value)) BY <2>2, CorrectionsCount
  <2> QED BY <2>1, <2>3, ReviseIs DEF SetTold
<1> QED BY <1>1 DEF SetTold

(* Evidence and signals leave what the objects tell.                       *)
Tells(o, new) ==
    /\ new.revisions = o.revisions /\ new.current = o.current
    /\ new.original = o.original /\ new.verified = o.verified

LEMMA TellsSame ==
    ASSUME NEW o, NEW new, Tells(o, new)
    PROVE  (ObjectTold(o) => ObjectTold(new)) /\ \A k : Follows(k, o) => Follows(k, new)
<1>1. Corrections(new) = Corrections(o) BY DEF Tells, Corrections
<1> QED BY <1>1 DEF Tells, ObjectTold, Follows

LEMMA EvolvedTells ==
    ASSUME NEW set \in Set, NEW command \in SetCommand, command.op # "patch", NEW f \in Fields
    PROVE  Tells(set.objects[f], Evolved(set, command).objects[f])
<1> DEFINE old == set.objects
<1>1. old \in [Fields -> Object] /\ \A g \in Fields : old[g] \in Object BY DEF Set
<1>2. PICK new : new = Evolved(set, command) OBVIOUS
<1>3. CASE command.op = "evidence"
  <2>1. command.field \in Fields BY <1>3 DEF SetCommand
  <2>2. PICK f0 : f0 = command.field OBVIOUS
  <2>3. PICK o : o = AddEvidence(old[f0], command.source) OBVIOUS
  <2>4. PICK p : p = Higher(old[f0].confidence, Ladder[command.source]) OBVIOUS
  <2>5. o = [old[f0] EXCEPT !.confidence = p] BY <2>3, <2>4 DEF AddEvidence
  <2>6. Tells(old[f0], o) BY <1>1, <2>1, <2>2, <2>5 DEF Object, Tells
  <2>7. PICK objects : objects = [old EXCEPT ![f0] = o] OBVIOUS
  <2>8. new.objects = objects
    <3>1. new = [set EXCEPT !.objects[f0] = AddEvidence(@, command.source)]
      BY <1>2, <1>3, <2>2 DEF Evolved
    <3>2. new = [set EXCEPT !.objects = [old EXCEPT ![f0] = o]] BY <2>3, <3>1, Zenon
    <3>3. new = [set EXCEPT !.objects = objects] BY <2>7, <3>2
    <3> QED BY <3>3 DEF Set
  <2>9. CASE f = f0 BY <1>1, <1>2, <2>6, <2>7, <2>8, <2>9
  <2>10. CASE f # f0
    <3>1. new.objects[f] = old[f] BY <1>1, <2>7, <2>8, <2>10
    <3> QED BY <1>2, <3>1 DEF Tells
  <2> QED BY <2>9, <2>10
<1>4. CASE command.op = "signal"
  <2>1. PICK objects : objects = [g \in Fields |-> RecordSignal(old[g], command.source)]
    OBVIOUS
  <2>2. new.objects = objects BY <1>2, <1>4, <2>1 DEF Evolved
  <2>3. PICK o, p, m : /\ o = old[f] /\ p = Higher(o.confidence, Ladder[command.source])
                       /\ m = o.signals + 1
    OBVIOUS
  <2>4. o \in Object BY <1>1, <2>3
  <2>5. objects[f] = [o EXCEPT !.confidence = p, !.signals = m] BY <2>1, <2>3 DEF RecordSignal
  <2>6. Tells(o, objects[f]) BY <2>4, <2>5 DEF Object, Tells
  <2> QED BY <1>2, <2>2, <2>3, <2>6
<1> QED BY <1>3, <1>4 DEF SetCommand

(* What SaveSet saves. *)
LEMMA SavedTold ==
    ASSUME NEW q, q.set \in Set, SetTold(q.set), q.todo \in SUBSET Fields,
           IF q.todo = {} THEN q.command \in SetCommand ELSE Pending(q.record, q.todo)
    PROVE  /\ SetTold(SetToSave(q))
           /\ q.todo = {} /\ q.command.op # "patch" =>
                 \A record : Agrees(record, q.set, {}) => Agrees(record, SetToSave(q), {})
           /\ q.todo # {} /\ Agrees(q.record, q.set, q.todo) =>
                 Agrees(q.record, SetToSave(q), Others(q.todo))
<1>1. CASE q.todo = {} /\ q.command.op = "patch"
  <2>1. q.command.field \in Fields /\ q.command.value \in Values BY <1>1 DEF SetCommand
  <2>2. SetToSave(q) = ReviseObject(q.set, q.command.field, q.command.value)
    BY <1>1 DEF SetToSave, Evolved
  <2> QED BY <1>1, <2>1, <2>2, ReviseTold
<1>2. CASE q.todo = {} /\ q.command.op # "patch"
  <2>1. SetToSave(q) = Evolved(q.set, q.command) BY <1>2 DEF SetToSave
  <2>2. \A f \in Fields : Tells(q.set.objects[f], SetToSave(q).objects[f])
    BY <1>2, <2>1, EvolvedTells
  <2> QED BY <1>2, <2>2, TellsSame DEF SetTold, Agrees
<1>3. CASE q.todo # {}
  <2>1. PICK f0 : f0 = Field(q.todo) OBVIOUS
  <2>2. f0 \in q.todo /\ f0 \in Fields BY <1>3, <2>1 DEF Field
  <2>3. PICK k : k = q.record.fields[f0] OBVIOUS
  <2>4. k \in FieldKnowledge /\ FieldSound(k) /\ k.verified
    BY <1>3, <2>2, <2>3 DEF Pending, Held, Record, RecordSound
  <2>5. PICK value : value = LastValue(k) OBVIOUS
  <2>6. value \in Values BY <2>4, <2>5 DEF LastValue, FieldSound, FieldKnowledge
  <2>7. SetToSave(q) = ReviseObject(q.set, f0, value)
    BY <1>3, <2>1, <2>3, <2>5 DEF SetToSave, LastValue
  <2>8. SetTold(SetToSave(q)) BY <2>2, <2>6, <2>7, ReviseTold
  <2>9. \A f \in Fields : SetToSave(q).objects[f] =
              IF f = f0 THEN ApplyRevision(q.set.objects[f0], value) ELSE q.set.objects[f]
    BY <2>2, <2>7, ReviseIs
  <2>10. Others(q.todo) = q.todo \ {f0} BY <2>1 DEF Others
  <2>11. Agrees(q.record, q.set, q.todo) => Agrees(q.record, SetToSave(q), Others(q.todo))
    BY <2>2, <2>3, <2>5, <2>9, <2>10 DEF Agrees
  <2> QED BY <1>3, <2>8, <2>11
<1> QED BY <1>1, <1>2, <1>3

-----------------------------------------------------------------------------
(* What the rows and the requests tell, whatever handlers raced, and how   *)
(* the two rows of a candidate agree while one handler at a time works on  *)
(* them: once it saved the record, the objects lag behind by what it still *)
(* has to record.                                                          *)

RequestTold(q) ==
    /\ q.at = "saveRecord" => RecordTold(q.record)
    /\ q.at = "saveSet" => SetTold(q.set)

Steady(q, record, set) ==
    /\ q.at = "seed" => record = FromImport(q.command.original)
    /\ q.at = "saveRecord" => q.record = record /\ (set # None => Agrees(record, set, {}))
    /\ q.at = "readSet" => q.record = record /\ (set # None => Agrees(record, set, q.todo))
    /\ q.at = "saveSet" =>
          /\ set # None /\ q.set = set /\ Agrees(record, set, q.todo)
          /\ IF q.todo = {} THEN q.command.op # "patch" ELSE q.record = record

RowsTold ==
    \A c \in Candidates :
        /\ records[c] # None => RecordTold(records[c])
        /\ sets[c] # None => SetTold(sets[c])

RequestsTold == \A r \in Slots : request[r] # None => RequestTold(request[r])

Alone(r) == \A s \in Slots \ {r} : request[s] # None => request[s].candidate # request[r].candidate

RequestsSteady ==
    \A r \in Slots : request[r] # None /\ request[r].candidate \notin disturbed =>
        /\ Steady(request[r], records[request[r].candidate], sets[request[r].candidate])
        /\ Alone(r)

RowsAgree ==
    \A c \in Candidates \ disturbed :
        sets[c] # None /\ ~Busy(c) => Agrees(records[c], sets[c], {})

Truth == RowsTold /\ RequestsTold /\ RequestsSteady /\ RowsAgree

(* A step of request r saves rows, of its candidate, that tell the truth,  *)
(* and goes on as it should, or ends with rows that agree.                 *)
LEMMA ContinuingTold ==
    ASSUME IInv, Truth, NEW r \in Slots, request[r] # None,
           NEW c, c = request[r].candidate,
           NEW q, q # None => RequestTold(q) /\ q.candidate = c,
           request' = [request EXCEPT ![r] = q],
           NEW record, record # None => RecordTold(record),
           NEW set, set # None => SetTold(set),
           records' = [records EXCEPT ![c] = record],
           sets' = [sets EXCEPT ![c] = set],
           disturbed \subseteq disturbed',
           c \notin disturbed' =>
              IF q = None THEN set # None => Agrees(record, set, {}) ELSE Steady(q, record, set)
    PROVE  Truth'
<1>1. /\ records \in [Candidates -> Record \cup {None}]
      /\ sets \in [Candidates -> Set \cup {None}]
      /\ request \in [Slots -> Request \cup {None}]
  BY DEF IInv, TypeOK
<1>2. c \in Candidates BY <1>1, RequestFacts
<1>3. /\ records'[c] = record /\ sets'[c] = set
      /\ \A d \in Candidates \ {c} : records'[d] = records[d] /\ sets'[d] = sets[d]
  BY <1>1, <1>2
<1>4. request'[r] = q /\ \A s \in Slots \ {r} : request'[s] = request[s] BY <1>1
<1>5. RowsTold' BY <1>3 DEF Truth, RowsTold
<1>6. RequestsTold' BY <1>4 DEF Truth, RequestsTold
<1>7. RequestsSteady'
  <2>1. SUFFICES ASSUME NEW s \in Slots, request'[s] # None, request'[s].candidate \notin disturbed'
                 PROVE  /\ Steady(request'[s], records'[request'[s].candidate],
                                  sets'[request'[s].candidate])
                        /\ \A t \in Slots \ {s} :
                              request'[t] # None => request'[t].candidate # request'[s].candidate
    BY DEF RequestsSteady, Alone
  <2>2. CASE s = r
    <3>1. request'[s] = q /\ q # None /\ q.candidate = c BY <1>4, <2>1, <2>2
    <3>2. c \notin disturbed' /\ c \notin disturbed BY <2>1, <3>1
    <3>3. Steady(q, record, set) BY <3>1, <3>2
    <3>4. Alone(r) BY <3>2 DEF Truth, RequestsSteady
    <3> QED BY <1>3, <1>4, <2>2, <3>1, <3>3, <3>4 DEF Alone
  <2>3. CASE s # r
    <3>1. PICK d : d = request[s].candidate OBVIOUS
    <3>2. request'[s] = request[s] /\ request[s] # None /\ d \notin disturbed
      BY <1>4, <2>1, <2>3, <3>1
    <3>3. Steady(request[s], records[d], sets[d]) /\ Alone(s)
      BY <3>1, <3>2 DEF Truth, RequestsSteady
    <3>4. d \in Candidates BY <1>1, <3>1, <3>2, RequestFacts
    <3>5. d # c BY <2>3, <3>1, <3>3 DEF Alone
    <3>6. records'[d] = records[d] /\ sets'[d] = sets[d] BY <1>3, <3>4, <3>5
    <3>7. \A t \in Slots \ {s} : request'[t] # None => request'[t].candidate # d
      BY <1>4, <3>1, <3>3, <3>5 DEF Alone
    <3> QED BY <3>1, <3>2, <3>3, <3>6, <3>7
  <2> QED BY <2>2, <2>3
<1>8. RowsAgree'
  <2>1. SUFFICES ASSUME NEW d \in Candidates, d \notin disturbed', sets'[d] # None,
                        \A s \in Slots : request'[s] # None => request'[s].candidate # d
                 PROVE  Agrees(records'[d], sets'[d], {})
    BY DEF RowsAgree, Busy
  <2>2. CASE d = c
    <3>1. q = None BY <1>4, <2>1, <2>2
    <3> QED BY <1>3, <2>1, <2>2, <3>1
  <2>3. CASE d # c
    <3>1. \A s \in Slots : request[s] # None => request[s].candidate # d BY <1>4, <2>1, <2>3
    <3>2. d \in Candidates \ disturbed /\ ~Busy(d) BY <2>1, <3>1 DEF Busy
    <3>3. records'[d] = records[d] /\ sets'[d] = sets[d] BY <1>3, <2>3
    <3> QED BY <2>1, <3>2, <3>3 DEF Truth, RowsAgree
  <2> QED BY <2>2, <2>3
<1> QED BY <1>5, <1>6, <1>7, <1>8 DEF Truth

(* A request that comes in reads what is there.                            *)
LEMMA ArrivingTold ==
    ASSUME IInv, Truth, NEW r \in Slots, NEW c \in Candidates, NEW command, NEW at,
           NEW record, NEW set,
           Arrive(r, c, command, at, record, set), UNCHANGED <<records, sets>>,
           at = "saveRecord" => RecordTold(record),
           at = "saveSet" => SetTold(set),
           c \notin disturbed /\ ~Busy(c) /\ command.op # "patch" =>
              Steady([candidate |-> c, command |-> command, at |-> at,
                      record |-> record, set |-> set, todo |-> {}], records[c], sets[c])
    PROVE  Truth'
<1>1. request \in [Slots -> Request \cup {None}] BY DEF IInv, TypeOK
<1>2. PICK q : q = [candidate |-> c, command |-> command, at |-> at,
                    record |-> record, set |-> set, todo |-> {}]
  OBVIOUS
<1>3. q.candidate = c /\ q.at = at /\ q.record = record /\ q.set = set BY <1>2
<1>4. /\ request[r] = None /\ request' = [request EXCEPT ![r] = q]
      /\ disturbed' = IF Busy(c) \/ command.op = "patch" THEN disturbed \cup {c} ELSE disturbed
  BY <1>2 DEF Arrive
<1>5. request'[r] = q /\ \A s \in Slots \ {r} : request'[s] = request[s] BY <1>1, <1>4
<1>6. disturbed \subseteq disturbed' BY <1>4
<1>7. c \notin disturbed' => /\ ~Busy(c) /\ Steady(q, records[c], sets[c])
  BY <1>2, <1>4
<1>8. RowsTold' BY DEF Truth, RowsTold
<1>9. RequestTold(q) BY <1>3 DEF RequestTold
<1>10. RequestsTold' BY <1>5, <1>9 DEF Truth, RequestsTold
<1>11. RequestsSteady'
  <2>1. SUFFICES ASSUME NEW s \in Slots, request'[s] # None, request'[s].candidate \notin disturbed'
                 PROVE  /\ Steady(request'[s], records[request'[s].candidate],
                                  sets[request'[s].candidate])
                        /\ \A t \in Slots \ {s} :
                              request'[t] # None => request'[t].candidate # request'[s].candidate
    BY DEF RequestsSteady, Alone
  <2>2. CASE s = r
    <3>1. ~Busy(c) /\ Steady(q, records[c], sets[c]) BY <1>3, <1>5, <1>7, <2>1, <2>2
    <3> QED BY <1>3, <1>5, <2>2, <3>1 DEF Busy
  <2>3. CASE s # r
    <3>1. PICK d : d = request[s].candidate OBVIOUS
    <3>2. request'[s] = request[s] /\ request[s] # None /\ d \notin disturbed /\ d \notin disturbed'
      BY <1>5, <1>6, <2>1, <2>3, <3>1
    <3>3. Steady(request[s], records[d], sets[d]) /\ Alone(s)
      BY <3>1, <3>2 DEF Truth, RequestsSteady
    <3>4. d # c BY <1>7, <3>1, <3>2 DEF Busy
    <3>5. \A t \in Slots \ {s} : request'[t] # None => request'[t].candidate # d
      BY <1>3, <1>5, <3>1, <3>3, <3>4 DEF Alone
    <3> QED BY <3>1, <3>2, <3>3, <3>5
  <2> QED BY <2>2, <2>3
<1>12. RowsAgree'
  <2>1. SUFFICES ASSUME NEW d \in Candidates, d \notin disturbed', sets[d] # None,
                        \A s \in Slots : request'[s] # None => request'[s].candidate # d
                 PROVE  Agrees(records[d], sets[d], {})
    BY DEF RowsAgree, Busy
  <2>2. \A s \in Slots : request[s] # None => request[s].candidate # d BY <1>4, <1>5, <2>1
  <2> QED BY <1>6, <2>1, <2>2 DEF Truth, RowsAgree, Busy
<1> QED BY <1>8, <1>10, <1>11, <1>12 DEF Truth

LEMMA ImportTells ==
    ASSUME IInv, Truth, NEW r \in Slots, NEW c \in Candidates, NEW command \in ImportCommand,
           Import(r, c, command)
    PROVE  Truth'
<1>1. PICK q : q = [candidate |-> c, command |-> command, at |-> "saveCandidate",
                    record |-> None, set |-> None, todo |-> {}]
  OBVIOUS
<1>2. Steady(q, records[c], sets[c]) BY <1>1 DEF Steady
<1> QED BY <1>1, <1>2, ArrivingTold DEF Import

LEMMA ReadRecordTells ==
    ASSUME IInv, Truth, NEW r \in Slots, NEW c \in Candidates, NEW command \in RecordCommand,
           ReadRecord(r, c, command)
    PROVE  Truth'
<1>1. PICK q : q = [candidate |-> c, command |-> command, at |-> "saveRecord",
                    record |-> records[c], set |-> None, todo |-> {}]
  OBVIOUS
<1>2. q.at = "saveRecord" /\ q.record = records[c] BY <1>1
<1>3. c \notin disturbed /\ ~Busy(c) => Steady(q, records[c], sets[c])
  BY <1>2 DEF Steady, Truth, RowsAgree
<1>4. RecordTold(records[c]) BY DEF ReadRecord, Truth, RowsTold
<1> QED BY <1>1, <1>3, <1>4, ArrivingTold DEF ReadRecord

LEMMA FindSetTells ==
    ASSUME IInv, Truth, NEW r \in Slots, NEW c \in Candidates, NEW command \in SetCommand,
           FindSet(r, c, command)
    PROVE  Truth'
<1>1. PICK q : q = [candidate |-> c, command |-> command, at |-> "saveSet",
                    record |-> None, set |-> sets[c], todo |-> {}]
  OBVIOUS
<1>2. q.at = "saveSet" /\ q.set = sets[c] /\ q.todo = {} /\ q.command = command BY <1>1
<1>3. sets[c] # None BY DEF FindSet
<1>4. c \notin disturbed /\ ~Busy(c) /\ command.op # "patch" => Steady(q, records[c], sets[c])
  BY <1>2, <1>3 DEF Steady, Truth, RowsAgree
<1>5. SetTold(sets[c]) BY <1>3 DEF Truth, RowsTold
<1> QED BY <1>1, <1>4, <1>5, ArrivingTold DEF FindSet

(* What Truth says of the request that takes the next step. *)
LEMMA InFlightTold ==
    ASSUME IInv, Truth, NEW r \in Slots, request[r] # None
    PROVE  LET q == request[r] c == q.candidate IN
           /\ RequestTold(q)
           /\ records[c] # None => RecordTold(records[c])
           /\ sets[c] # None => SetTold(sets[c])
           /\ c \notin disturbed => Steady(q, records[c], sets[c])
<1>1. request[r].candidate \in Candidates BY InFlight
<1> QED BY <1>1 DEF Truth, RowsTold, RequestsTold, RequestsSteady

LEMMA SaveCandidateTells ==
    ASSUME IInv, Truth, NEW r \in Slots, SaveCandidate(r)
    PROVE  Truth'
<1>1. PICK q, c : q = request[r] /\ c = q.candidate OBVIOUS
<1>2. request[r] # None /\ q.at = "saveCandidate" BY <1>1 DEF SaveCandidate, At
<1>3. records[c] = None BY <1>1, <1>2 DEF IInv, ImportAlone, At
<1>4. /\ q \in Request /\ RequestOK(q) /\ sets[c] = None
      /\ sets = [sets EXCEPT ![c] = sets[c]]
  BY <1>1, <1>2, <1>3, InFlight
<1>5. PICK original : original = q.command.original OBVIOUS
<1>6. original \in [Fields -> Values] BY <1>2, <1>4, <1>5 DEF RequestOK, ImportCommand
<1>7. PICK record : record = FromImport(original) OBVIOUS
<1>8. RecordTold(record)
  <2>1. 0 \in Percent BY DEF Percent
  <2>2. PICK set : set = [objects |-> [f \in Fields |-> CreateFromImport(original[f], 0)],
                          signals |-> 0]
    OBVIOUS
  <2> QED BY <1>6, <1>7, <2>1, <2>2, ImportTold
<1>9. PICK new : new = [q EXCEPT !.at = "seed"] OBVIOUS
<1>10. /\ new.candidate = c /\ new.at = "seed" /\ new.command = q.command
  BY <1>1, <1>4, <1>9 DEF Request
<1>11. RequestTold(new) /\ Steady(new, record, sets[c])
  BY <1>5, <1>7, <1>10 DEF RequestTold, Steady
<1>12. new # None
  <2>1. new \in Request BY <1>4, <1>9 DEF Request
  <2> QED BY <2>1, RequestFacts
<1>13. request' = [request EXCEPT ![r] = new] BY <1>1, <1>9 DEF SaveCandidate
<1>14. records' = [records EXCEPT ![c] = record] BY <1>1, <1>5, <1>7 DEF SaveCandidate
<1>15. sets' = [sets EXCEPT ![c] = sets[c]] /\ disturbed' = disturbed
  BY <1>4 DEF SaveCandidate
<1> QED BY <1>1, <1>2, <1>4, <1>8, <1>10, <1>11, <1>12, <1>13, <1>14, <1>15, ContinuingTold

LEMMA SeedTells ==
    ASSUME IInv, Truth, NEW r \in Slots, Seed(r)
    PROVE  Truth'
<1>1. PICK q, c : q = request[r] /\ c = q.candidate OBVIOUS
<1>2. request[r] # None /\ q.at = "seed" BY <1>1 DEF Seed, At
<1>3. /\ q \in Request /\ RequestOK(q) /\ records[c] # None
      /\ records = [records EXCEPT ![c] = records[c]]
  BY <1>1, <1>2, InFlight
<1>4. q.command \in ImportCommand BY <1>2, <1>3 DEF RequestOK
<1>5. PICK original, confidence : original = q.command.original /\ confidence = q.command.confidence
  OBVIOUS
<1>6. original \in [Fields -> Values] /\ confidence \in Percent
  BY <1>4, <1>5, KnowledgeAssumption DEF ImportCommand
<1>7. PICK set : set = [objects |-> [f \in Fields |-> CreateFromImport(original[f], confidence)],
                        signals |-> 0]
  OBVIOUS
<1>8. SetTold(set) /\ Agrees(FromImport(original), set, {}) BY <1>6, <1>7, ImportTold
<1>9. RecordTold(records[c]) /\ (c \notin disturbed => Steady(q, records[c], sets[c]))
  BY <1>1, <1>2, <1>3, InFlightTold
<1>10. c \notin disturbed => Agrees(records[c], set, {})
  BY <1>2, <1>5, <1>8, <1>9 DEF Steady
<1>11. request' = [request EXCEPT ![r] = None] BY DEF Seed, Done
<1>12. records' = [records EXCEPT ![c] = records[c]] /\ disturbed' = disturbed
  BY <1>3 DEF Seed
<1>13. sets' = [sets EXCEPT ![c] = set] BY <1>1, <1>5, <1>7 DEF Seed
<1>14. PICK new : new = None OBVIOUS
<1>15. request' = [request EXCEPT ![r] = new] BY <1>11, <1>14
<1> QED BY <1>1, <1>2, <1>8, <1>9, <1>10, <1>12, <1>13, <1>14, <1>15, ContinuingTold

(* The request a handler goes on with, and what it has still to record.    *)
LEMMA GoingTold ==
    ASSUME NEW q \in Request, NEW record \in Record, NEW todo \in SUBSET Fields,
           NEW new, new = Going(q, record, todo), NEW set,
           set # None => Agrees(record, set, todo)
    PROVE  /\ new # None => RequestTold(new) /\ new.candidate = q.candidate
           /\ IF new = None THEN set # None => Agrees(record, set, {}) ELSE Steady(new, record, set)
<1>1. CASE todo = {} BY <1>1 DEF Going
<1>2. CASE todo # {}
  <2>1. PICK n : n = None OBVIOUS
  <2>2. new = [q EXCEPT !.at = "readSet", !.record = record, !.set = n, !.todo = todo]
    BY <1>2, <2>1 DEF Going
  <2>3. /\ new \in Request /\ new.candidate = q.candidate /\ new.at = "readSet"
        /\ new.record = record /\ new.todo = todo
    BY <2>1, <2>2 DEF Request
  <2>4. new # None BY <2>3, RequestFacts
  <2>5. RequestTold(new) BY <2>3 DEF RequestTold
  <2>6. Steady(new, record, set) BY <2>3 DEF Steady
  <2> QED BY <2>3, <2>4, <2>5, <2>6
<1> QED BY <1>1, <1>2

(* So the next request is right whatever set there is.                     *)
LEMMA GoingAloneTold ==
    ASSUME NEW q \in Request, NEW record \in Record, NEW todo \in SUBSET Fields,
           NEW new, new = Going(q, record, todo)
    PROVE  new # None => RequestTold(new) /\ new.candidate = q.candidate
<1>1. PICK none : none = None OBVIOUS
<1>2. none # None => Agrees(record, none, todo) BY <1>1
<1> QED BY <1>2, GoingTold

LEMMA SaveRecordTells ==
    ASSUME IInv, Truth, NEW r \in Slots, SaveRecord(r)
    PROVE  Truth'
<1>1. PICK q, c : q = request[r] /\ c = q.candidate OBVIOUS
<1>2. request[r] # None /\ q.at = "saveRecord" BY <1>1 DEF SaveRecord, At
<1>3. /\ q \in Request /\ RequestOK(q) /\ records[c] # None
      /\ sets[c] \in Set \cup {None}
      /\ sets = [sets EXCEPT ![c] = sets[c]]
  BY <1>1, <1>2, InFlight
<1>4. /\ RequestTold(q) /\ (sets[c] # None => SetTold(sets[c]))
      /\ c \notin disturbed => Steady(q, records[c], sets[c])
  BY <1>1, <1>2, InFlightTold
<1>5. q.command \in RecordCommand /\ Held(q.record) /\ RecordTold(q.record)
  BY <1>2, <1>3, <1>4 DEF RequestOK, RequestTold
<1>6. PICK record, todo : /\ record = Updated(q.record, q.command)
                          /\ todo = Evolving(q.record, q.command)
  OBVIOUS
<1>7. record \in Record /\ todo \in SUBSET Fields
  BY <1>5, <1>6, UpdatedGrows DEF Pending, Held
<1>8. /\ RecordTold(record)
      /\ \A set \in Set : Agrees(q.record, set, {}) => Agrees(record, set, todo)
  BY <1>5, <1>6, UpdatedAgrees
<1>9. PICK new : new = Going(q, record, todo) OBVIOUS
<1>10. request' = [request EXCEPT ![r] = new]
  BY <1>1, <1>6, <1>9 DEF SaveRecord, GoOn, Going
<1>11. records' = [records EXCEPT ![c] = record] BY <1>1, <1>6 DEF SaveRecord
<1>12. sets' = [sets EXCEPT ![c] = sets[c]] /\ disturbed' = disturbed BY <1>3 DEF SaveRecord
<1>13. c \notin disturbed => (sets[c] # None => Agrees(record, sets[c], todo))
  <2>1. c \notin disturbed /\ sets[c] # None => Agrees(q.record, sets[c], {})
    BY <1>2, <1>4 DEF Steady
  <2> QED BY <1>3, <1>8, <2>1
<1>14. new # None => RequestTold(new) /\ new.candidate = c
  <2>1. PICK none : none = None OBVIOUS
  <2>2. none # None => Agrees(record, none, todo) BY <2>1
  <2>3. q \in Request BY <1>3
  <2>4. new # None => RequestTold(new) /\ new.candidate = q.candidate
    BY <1>7, <1>9, <2>2, <2>3, GoingTold
  <2> QED BY <1>1, <2>4
<1>15. c \notin disturbed =>
         IF new = None THEN sets[c] # None => Agrees(record, sets[c], {})
                       ELSE Steady(new, record, sets[c])
  BY <1>3, <1>7, <1>9, <1>13, GoingTold
<1> QED BY <1>1, <1>2, <1>4, <1>8, <1>10, <1>11, <1>12, <1>14, <1>15, ContinuingTold

LEMMA ReadSetTells ==
    ASSUME IInv, Truth, NEW r \in Slots, ReadSet(r)
    PROVE  Truth'
<1>1. PICK q, c : q = request[r] /\ c = q.candidate OBVIOUS
<1>2. request[r] # None /\ q.at = "readSet" BY <1>1 DEF ReadSet, At
<1>3. /\ q \in Request /\ RequestOK(q) /\ q.todo \in SUBSET Fields
      /\ records[c] # None /\ sets[c] \in Set \cup {None}
      /\ records = [records EXCEPT ![c] = records[c]]
      /\ sets = [sets EXCEPT ![c] = sets[c]]
  BY <1>1, <1>2, InFlight
<1>4. q.todo # {} /\ q.record \in Record BY <1>2, <1>3 DEF RequestOK, Pending, Held
<1>5. /\ RecordTold(records[c]) /\ (sets[c] # None => SetTold(sets[c]))
      /\ c \notin disturbed => Steady(q, records[c], sets[c])
  BY <1>1, <1>2, <1>3, InFlightTold
<1>6. /\ records' = [records EXCEPT ![c] = records[c]]
      /\ sets' = [sets EXCEPT ![c] = sets[c]]
      /\ disturbed' = disturbed
  BY <1>3 DEF ReadSet
<1>7. \E new : /\ request' = [request EXCEPT ![r] = new]
               /\ new # None => RequestTold(new) /\ new.candidate = c
               /\ c \notin disturbed =>
                     IF new = None THEN sets[c] # None => Agrees(records[c], sets[c], {})
                                   ELSE Steady(new, records[c], sets[c])
  <2>1. CASE sets[c] = None
    <3>1. PICK todo : todo = Others(q.todo) OBVIOUS
    <3>2. todo \in SUBSET Fields BY <1>3, <3>1 DEF Others
    <3>3. PICK new : new = Going(q, q.record, todo) OBVIOUS
    <3>4. sets[c] # None => Agrees(q.record, sets[c], todo) BY <2>1
    <3>5. /\ new # None => RequestTold(new) /\ new.candidate = q.candidate
          /\ IF new = None THEN sets[c] # None => Agrees(q.record, sets[c], {})
                           ELSE Steady(new, q.record, sets[c])
      BY <1>3, <1>4, <3>2, <3>3, <3>4, GoingTold
    <3>6. c \notin disturbed => q.record = records[c] BY <1>2, <1>5 DEF Steady
    <3>7. request' = [request EXCEPT ![r] = new]
      BY <1>1, <2>1, <3>1, <3>3 DEF ReadSet, GoOn, Going
    <3> QED BY <1>1, <3>5, <3>6, <3>7
  <2>2. CASE sets[c] # None
    <3>1. PICK set : set = sets[c] OBVIOUS
    <3>2. PICK new : new = [q EXCEPT !.at = "saveSet", !.set = set] OBVIOUS
    <3>3. request' = [request EXCEPT ![r].at = "saveSet", ![r].set = set]
      BY <1>1, <2>2, <3>1 DEF ReadSet
    <3>4. request' = [request EXCEPT ![r] = new]
      BY <1>1, <3>2, <3>3 DEF IInv, TypeOK
    <3>5. /\ new \in Request /\ new.candidate = c /\ new.at = "saveSet" /\ new.set = set
          /\ new.todo = q.todo /\ new.record = q.record
      BY <1>1, <1>3, <2>2, <3>1, <3>2 DEF Request
    <3>6. RequestTold(new) BY <1>5, <2>2, <3>1, <3>5 DEF RequestTold
    <3>7. c \notin disturbed => Steady(new, records[c], sets[c])
      BY <1>2, <1>4, <1>5, <2>2, <3>1, <3>5 DEF Steady
    <3>8. new # None BY <3>5, RequestFacts
    <3> QED BY <3>4, <3>5, <3>6, <3>7, <3>8
  <2> QED BY <2>1, <2>2
<1> QED BY <1>1, <1>2, <1>5, <1>6, <1>7, ContinuingTold

LEMMA SaveSetTells ==
    ASSUME IInv, Truth, NEW r \in Slots, SaveSet(r)
    PROVE  Truth'
<1>1. PICK q, c : q = request[r] /\ c = q.candidate OBVIOUS
<1>2. request[r] # None /\ q.at = "saveSet" BY <1>1 DEF SaveSet, At
<1>3. /\ q \in Request /\ RequestOK(q) /\ q.todo \in SUBSET Fields /\ records[c] # None
      /\ records = [records EXCEPT ![c] = records[c]]
  BY <1>1, <1>2, InFlight
<1>4. /\ q.set \in Set
      /\ IF q.todo = {} THEN q.command \in SetCommand ELSE Pending(q.record, q.todo)
  BY <1>2, <1>3 DEF RequestOK
<1>5. /\ RequestTold(q) /\ RecordTold(records[c])
      /\ c \notin disturbed => Steady(q, records[c], sets[c])
  BY <1>1, <1>2, <1>3, InFlightTold
<1>6. SetTold(q.set) BY <1>2, <1>5 DEF RequestTold
<1>7. PICK set : set = SetToSave(q) OBVIOUS
<1>8. /\ SetTold(set)
      /\ q.todo = {} /\ q.command.op # "patch" =>
            \A record : Agrees(record, q.set, {}) => Agrees(record, set, {})
      /\ q.todo # {} /\ Agrees(q.record, q.set, q.todo) => Agrees(q.record, set, Others(q.todo))
  BY <1>3, <1>4, <1>6, <1>7, SavedTold
<1>9. /\ records' = [records EXCEPT ![c] = records[c]]
      /\ sets' = [sets EXCEPT ![c] = set]
      /\ disturbed' = disturbed
  BY <1>1, <1>3, <1>7 DEF SaveSet
<1>10. \E new : /\ request' = [request EXCEPT ![r] = new]
                /\ new # None => RequestTold(new) /\ new.candidate = c
                /\ c \notin disturbed =>
                      IF new = None THEN set # None => Agrees(records[c], set, {})
                                    ELSE Steady(new, records[c], set)
  <2>1. CASE q.todo = {}
    <3>1. PICK new : new = None OBVIOUS
    <3>2. request' = [request EXCEPT ![r] = new] BY <1>1, <2>1, <3>1 DEF SaveSet, Done
    <3>3. c \notin disturbed => Agrees(records[c], set, {})
      BY <1>2, <1>5, <1>8, <2>1 DEF Steady
    <3> QED BY <3>1, <3>2, <3>3
  <2>2. CASE q.todo # {}
    <3>1. PICK todo : todo = Others(q.todo) OBVIOUS
    <3>2. todo \in SUBSET Fields /\ q.record \in Record
      BY <1>3, <1>4, <2>2, <3>1 DEF Others, Pending, Held
    <3>3. PICK new : new = Going(q, q.record, todo) OBVIOUS
    <3>4. request' = [request EXCEPT ![r] = new]
      BY <1>1, <2>2, <3>1, <3>3 DEF SaveSet, GoOn, Going
    <3>5. new # None => RequestTold(new) /\ new.candidate = c
      <4>1. q \in Request BY <1>3
      <4>2. new # None => RequestTold(new) /\ new.candidate = q.candidate
        BY <3>2, <3>3, <4>1, GoingAloneTold
      <4> QED BY <1>1, <4>2
    <3>6. c \notin disturbed => q.record = records[c] /\ Agrees(q.record, set, todo)
      BY <1>2, <1>5, <1>8, <2>2, <3>1 DEF Steady
    <3>7. c \notin disturbed =>
            IF new = None THEN set # None => Agrees(q.record, set, {})
                          ELSE Steady(new, q.record, set)
      BY <1>3, <3>2, <3>3, <3>6, GoingTold
    <3> QED BY <3>4, <3>5, <3>6, <3>7
  <2> QED BY <2>1, <2>2
<1> QED BY <1>1, <1>2, <1>5, <1>8, <1>9, <1>10, ContinuingTold

LEMMA EvolutionFailsTells ==
    ASSUME IInv, Truth, NEW r \in Slots, EvolutionFails(r)
    PROVE  Truth'
<1>1. PICK q, c : q = request[r] /\ c = q.candidate OBVIOUS
<1>2. request[r] # None /\ q.at \in {"readSet", "saveSet"} /\ q.todo # {}
  BY <1>1 DEF EvolutionFails, At
<1>3. /\ q \in Request /\ RequestOK(q) /\ q.todo \in SUBSET Fields /\ records[c] # None
      /\ records = [records EXCEPT ![c] = records[c]]
      /\ sets = [sets EXCEPT ![c] = sets[c]]
  BY <1>1, <1>2, InFlight
<1>4. q.record \in Record BY <1>2, <1>3 DEF RequestOK, Pending, Held
<1>5. RecordTold(records[c]) /\ (sets[c] # None => SetTold(sets[c]))
  BY <1>1, <1>2, <1>3, InFlightTold
<1>6. /\ records' = [records EXCEPT ![c] = records[c]]
      /\ sets' = [sets EXCEPT ![c] = sets[c]]
      /\ disturbed' = disturbed \cup {c}
  BY <1>1, <1>3 DEF EvolutionFails, Fail
<1>7. PICK todo : todo = Others(q.todo) OBVIOUS
<1>8. PICK new : new = Going(q, q.record, todo) OBVIOUS
<1>9. todo \in SUBSET Fields BY <1>3, <1>7 DEF Others
<1>10. new # None => RequestTold(new) /\ new.candidate = c
  <2>1. q \in Request BY <1>3
  <2>2. new # None => RequestTold(new) /\ new.candidate = q.candidate
    BY <1>4, <1>8, <1>9, <2>1, GoingAloneTold
  <2> QED BY <1>1, <2>2
<1>11. request' = [request EXCEPT ![r] = new]
  BY <1>1, <1>7, <1>8 DEF EvolutionFails, GoOn, Going
<1> QED BY <1>1, <1>2, <1>5, <1>6, <1>10, <1>11, ContinuingTold

LEMMA AbortTells ==
    ASSUME IInv, Truth, NEW r \in Slots, Abort(r)
    PROVE  Truth'
<1>1. PICK q, c : q = request[r] /\ c = q.candidate OBVIOUS
<1>2. request[r] # None BY DEF Abort
<1>3. /\ records = [records EXCEPT ![c] = records[c]]
      /\ sets = [sets EXCEPT ![c] = sets[c]]
  BY <1>1, <1>2, InFlight
<1>4. /\ records[c] # None => RecordTold(records[c])
      /\ sets[c] # None => SetTold(sets[c])
  BY <1>1, <1>2, InFlightTold
<1>5. /\ records' = [records EXCEPT ![c] = records[c]]
      /\ sets' = [sets EXCEPT ![c] = sets[c]]
      /\ disturbed' = disturbed \cup {c}
  BY <1>1, <1>3 DEF Abort, Fail
<1>6. PICK new : new = None OBVIOUS
<1>7. request' = [request EXCEPT ![r] = new] BY <1>6 DEF Abort, Done
<1> QED BY <1>1, <1>2, <1>4, <1>5, <1>6, <1>7, ContinuingTold

(* A restart takes the requests away, and disturbs every candidate that    *)
(* had one.                                                                *)
LEMMA RestartTells ==
    ASSUME IInv, Truth, Restart
    PROVE  Truth'
<1>1. /\ records' = records /\ sets' = sets
      /\ request' = [r \in Slots |-> None]
      /\ disturbed' = disturbed \cup {c \in Candidates : Busy(c)}
  BY DEF Restart
<1>2. \A r \in Slots : request'[r] = None BY <1>1
<1>3. RowsTold' BY <1>1 DEF Truth, RowsTold
<1>4. RequestsTold' /\ RequestsSteady' BY <1>2 DEF RequestsTold, RequestsSteady
<1>5. RowsAgree' BY <1>1 DEF Truth, RowsAgree
<1> QED BY <1>3, <1>4, <1>5 DEF Truth

LEMMA StutterTells ==
    ASSUME Truth, UNCHANGED vars
    PROVE  Truth'
BY DEF vars, Truth, RowsTold, RequestsTold, RequestsSteady, Alone, RowsAgree, Busy

LEMMA StepTells ==
    ASSUME IInv, Truth, Next
    PROVE  Truth'
<1>1. PICK r \in Slots : Arrival(r) \/ Continue(r) BY DEF Next
<1>2. CASE Arrival(r)
  BY <1>2, ImportTells, ReadRecordTells, FindSetTells DEF Arrival
<1>3. CASE Continue(r)
  BY <1>3, SaveCandidateTells, SeedTells, SaveRecordTells, ReadSetTells, SaveSetTells,
     EvolutionFailsTells, AbortTells DEF Continue
<1> QED BY <1>1, <1>2, <1>3

LEMMA InitTruth == Init => Truth
BY DEF Init, Truth, RowsTold, RequestsTold, RequestsSteady, RowsAgree

(* The second invariant is inductive next to the first.                    *)
THEOREM TruthStays == Spec => []Truth
<1>1. IInv /\ Truth /\ [Next]_vars => Truth' BY StepTells, StutterTells
<1> QED BY InitTruth, Invariance, <1>1, PTL DEF Spec

LEMMA MeasuredTells ==
    ASSUME IInv, Truth, [MeasuredNext]_allVars
    PROVE  Truth'
<1>1. CASE UNCHANGED allVars BY <1>1, StutterTells DEF allVars
<1>2. CASE \E r \in Slots : Arrival(r) \/ Abort(r) BY <1>2, StepTells DEF Next, Continue
<1>3. CASE \E r \in Slots : Proceed(r)
  BY <1>3, StepTells DEF Proceed, Returns, Next, Continue
<1>4. CASE \E c \in Candidates : getReview(c) \/ abandon(c)
  BY <1>4, StutterTells DEF getReview, abandon, Beacon
<1>5. CASE Restart BY <1>5, RestartTells
<1> QED BY <1>1, <1>2, <1>3, <1>4, <1>5 DEF MeasuredNext

(* Also for the measured handlers.                                         *)
THEOREM MeasuredTruth == MeasuredSpec => []Truth
<1>1. MeasuredInit => Truth BY InitTruth DEF MeasuredInit
<1> QED BY <1>1, MeasuredTells, MeasuredInvariance, PTL DEF MeasuredSpec

LEMMA TruthAgrees ==
    ASSUME Truth
    PROVE  Agreement
BY DEF Truth, RowsAgree, Agreement, Agrees, Follows

(* The objects follow the record (recordReviewEvolution,                   *)
(* evolveFromRecruiterReview): when handlers of a candidate neither        *)
(* overlapped nor failed, and nobody patched an object, both rows show the *)
(* same value and the same verification of every field, however many       *)
(* reviews, signals and pieces of evidence came.                           *)
THEOREM ObjectsFollow == Spec => []Agreement
<1>1. Truth => Agreement BY TruthAgrees
<1> QED BY TruthStays, <1>1, PTL

(* So they do with review sessions, beacons and restarts of the process.   *)
THEOREM MeasuredObjectsFollow == MeasuredSpec => []Agreement
<1>1. Truth => Agreement BY TruthAgrees
<1> QED BY MeasuredTruth, <1>1, PTL

-----------------------------------------------------------------------------
(* What a recruiter is shown.                                              *)

(* The human's value is the value, if a human gave it.                     *)
LEMMA HumanIs ==
    ASSUME NEW k \in FieldKnowledge, FieldSound(k), FieldTold(k)
    PROVE  /\ k.current = IF Human(k) = None THEN k.original ELSE Human(k)
           /\ k.edited => k.verified
<1> DEFINE edits == {n \in DOMAIN k.revisions : k.revisions[n].action = "edit"}
<1>1. k.current \in Values /\ k.revisions \in Seq(FieldRevision) BY DEF FieldKnowledge
<1>2. k.current # None BY <1>1, KnowledgeAssumption
<1>3. k.edited <=> k.current # k.original BY DEF FieldSound
<1>4. CASE \A n \in DOMAIN k.revisions : k.revisions[n].action # "edit"
  <2>1. edits = {} BY <1>4
  <2>2. Human(k) = None BY <2>1 DEF Human
  <2>3. k.current = k.original
    BY <1>4 DEF FieldTold
  <2> QED BY <1>3, <2>2, <2>3
<1>5. CASE ~ \A n \in DOMAIN k.revisions : k.revisions[n].action # "edit"
  <2>1. PICK n \in DOMAIN k.revisions :
           /\ k.revisions[n].action = "edit" /\ k.revisions[n].value = k.current
           /\ \A m \in DOMAIN k.revisions : m > n => k.revisions[m].action # "edit"
    BY <1>5 DEF FieldTold
  <2>2. DOMAIN k.revisions = 1..Len(k.revisions) /\ Len(k.revisions) \in Nat BY <1>1
  <2>3. n \in edits /\ \A m \in edits : m <= n BY <2>1, <2>2
  <2>4. PICK last : last = CHOOSE n_1 \in edits : \A m \in edits : m <= n_1 OBVIOUS
  <2>5. last \in edits /\ \A m \in edits : m <= last BY <2>3, <2>4
  <2>6. last = n BY <2>2, <2>3, <2>5
  <2>7. Human(k) = IF k.edited THEN k.current ELSE None
    BY <2>1, <2>3, <2>4, <2>6 DEF Human
  <2>8. k.verified BY <2>1, <2>2 DEF FieldSound
  <2> QED BY <1>2, <1>3, <2>7, <2>8
<1> QED BY <1>4, <1>5

LEMMA ViewIsTrue ==
    ASSUME NEW record, Held(record), RecordTold(record)
    PROVE  ViewTrue(View(record))
<1>1. PICK v : v = View(record) OBVIOUS
<1>2. \A f \in Fields : /\ record.fields[f] \in FieldKnowledge
                        /\ FieldSound(record.fields[f]) /\ FieldTold(record.fields[f])
  BY DEF Held, Record, RecordSound, RecordTold
<1>3. ASSUME NEW f \in Fields
      PROVE  v.diff[f].current = IF v.diff[f].human = None THEN v.diff[f].originalAi
                                                           ELSE v.diff[f].human
  <2>1. PICK k : k = record.fields[f] OBVIOUS
  <2>2. v.diff[f] = [originalAi |-> k.original, current |-> k.current, human |-> Human(k),
                     edited |-> k.edited, rejected |-> k.rejected]
    BY <1>1, <2>1 DEF View
  <2>3. k.current = IF Human(k) = None THEN k.original ELSE Human(k) BY <1>2, <2>1, HumanIs
  <2> QED BY <2>2, <2>3
<1>4. edited(record) \subseteq verified(record) BY <1>2, HumanIs DEF edited, verified
<1>5. reviewed(record) \subseteq verified(record) BY <1>2 DEF FieldSound, reviewed, verified
<1>6. IsFiniteSet(verified(record)) BY ViewAssumption, FS_Subset DEF verified
<1>7. /\ Cardinality(edited(record)) <= Cardinality(verified(record))
      /\ Cardinality(reviewed(record)) <= Cardinality(verified(record))
  BY <1>4, <1>5, <1>6, FS_Subset
<1>8. /\ v.overridden = Cardinality(edited(record)) /\ v.verified = Cardinality(verified(record))
      /\ v.reviewed = Cardinality(reviewed(record))
  BY <1>1 DEF View
<1> QED BY <1>1, <1>3, <1>7, <1>8 DEF ViewTrue

LEMMA ReadyIsListed ==
    ASSUME IInv
    PROVE  ListedReady
<1>1. SUFFICES ASSUME NEW c \in Listed(TRUE)
               PROVE  /\ View(records[c]).verified = Cardinality(Fields)
                      /\ \A f \in View(records[c]).queue :
                            View(records[c]).diff[f].current \in Missing
  BY DEF ListedReady
<1>2. PICK record, v : record = records[c] /\ v = View(record) OBVIOUS
<1>3. Held(record) /\ record.ready
  BY <1>1, <1>2 DEF Listed, IInv, TypeOK, RecordsSound, Held
<1>4. \A f \in Fields : record.fields[f].verified BY <1>3 DEF Held, RecordSound
<1>5. v.verified = Cardinality(Fields)
  <2>1. verified(record) = Fields BY <1>4 DEF verified
  <2> QED BY <1>2, <2>1 DEF View
<1>6. ASSUME NEW f \in v.queue PROVE v.diff[f].current \in Missing
  <2>1. v.queue = Queued(record) BY <1>2 DEF View
  <2>2. PICK k : k = record.fields[f] OBVIOUS
  <2>3. f \in Fields /\ Priority(f, k) # "LOW" BY <1>6, <2>1, <2>2 DEF Queued
  <2>4. Claim(f, k) = 100 BY <1>4, <2>2, <2>3 DEF Claim
  <2>5. k.current \notin Missing => Priority(f, k) = "LOW"
    <3>1. PICK n : n = Claim(f, k) OBVIOUS
    <3>2. ~(n < 60) /\ n \notin 60..84 /\ n >= 85 BY <2>4, <3>1
    <3> QED BY <3>1, <3>2 DEF Priority
  <2>6. v.diff[f].current = k.current BY <1>2, <2>2, <2>3 DEF View
  <2> QED BY <2>3, <2>5, <2>6
<1> QED BY <1>2, <1>5, <1>6

LEMMA InsightsAreTrue ==
    ASSUME IInv, Truth
    PROVE  InsightsTrue
<1>1. SUFFICES ASSUME NEW c \in Candidates, sets[c] # None, NEW f \in Fields
               PROVE  LET shown == Timeline(sets[c])[f]
                          insight == Insight(sets[c].objects[f]) IN
                      /\ insight = None => shown.currentTruth = shown.originalAi
                      /\ insight = "correction" => shown.currentTruth # shown.originalAi
  BY DEF InsightsTrue
<1>2. PICK o, shown : o = sets[c].objects[f] /\ shown = Timeline(sets[c])[f] OBVIOUS
<1>3. o \in Object /\ ObjectTold(o)
  <2>1. sets[c] \in Set /\ SetTold(sets[c]) BY <1>1 DEF IInv, TypeOK, Truth, RowsTold
  <2> QED BY <1>2, <2>1 DEF Set, SetTold
<1>4. shown.currentTruth = o.current /\ shown.originalAi = o.original
  BY <1>2 DEF Timeline
<1>5. PICK n : n = Cardinality(Corrections(o)) OBVIOUS
<1>6. n \in Nat
  <2>1. o.current \in Values BY <1>3 DEF Object
  <2> QED BY <1>3, <1>5, <2>1, CorrectionsCount
<1>7. Insight(o) = IF n >= 2 THEN "volatility" ELSE IF n = 1 THEN "correction" ELSE None
  BY <1>5 DEF Insight
<1>8. (Insight(o) = None => n = 0) /\ (Insight(o) = "correction" => n = 1)
  BY <1>6, <1>7, ViewAssumption
<1> QED BY <1>2, <1>3, <1>4, <1>5, <1>8 DEF ObjectTold

LEMMA TimelineIsFollowed ==
    ASSUME IInv, Truth
    PROVE  TimelineFollows
<1>1. SUFFICES ASSUME NEW c \in Candidates \ disturbed, sets[c] # None, ~Busy(c), NEW f \in Fields
               PROVE  LET k == records[c].fields[f] object == sets[c].objects[f] IN
                      /\ Len(k.revisions) <= Len(Timeline(sets[c])[f].recruiterEdits)
                      /\ Cardinality(Corrections(object)) = Cardinality(Changes(k))
  BY DEF TimelineFollows
<1>2. PICK k, o, edits : /\ k = records[c].fields[f] /\ o = sets[c].objects[f]
                         /\ edits = Timeline(sets[c])[f].recruiterEdits
  OBVIOUS
<1>3. Follows(k, o) BY <1>1, <1>2 DEF Truth, RowsAgree, Agrees
<1>4. o.revisions \in Seq(ObjectRevision)
  <2>1. sets[c] \in Set BY <1>1 DEF IInv, TypeOK
  <2> QED BY <1>2, <2>1 DEF Set, Object
<1>5. edits = [n \in DOMAIN o.revisions |-> o.revisions[n].new] BY <1>2 DEF Timeline
<1>6. Len(edits) = Len(o.revisions)
  <2>1. Len(o.revisions) \in Nat /\ DOMAIN o.revisions = 1..Len(o.revisions) BY <1>4
  <2>2. \A n \in 1..Len(o.revisions) : o.revisions[n].new \in Values
    <3>1. \A n \in 1..Len(o.revisions) : o.revisions[n] \in ObjectRevision BY <1>4
    <3> QED BY <3>1 DEF ObjectRevision
  <2>3. edits \in [1..Len(o.revisions) -> Values] BY <1>5, <2>1, <2>2
  <2> QED BY <2>1, <2>3, LenProperties, SeqDef
<1> QED BY <1>2, <1>3, <1>6 DEF Follows

LEMMA WarningsAreMutual == WarnedOfBothWays
<1>1. ASSUME NEW l \in Identity, NEW r \in Identity
      PROVE  scoreDuplicate(l, r) = scoreDuplicate(r, l)
  BY DEF scoreDuplicate, SameFingerprint, Both
<1>2. ASSUME NEW l \in Identity, NEW r \in Identity
      PROVE  r \in findDuplicates(l, Identity) <=> l \in findDuplicates(r, Identity)
  BY <1>1 DEF findDuplicates
<1> QED BY <1>1, <1>2 DEF WarnedOfBothWays

LEMMA TruthShown ==
    ASSUME IInv, Truth
    PROVE  ShownTruly
<1>1. ASSUME NEW c \in Candidates, records[c] # None PROVE ViewTrue(View(records[c]))
  <2>1. Held(records[c]) /\ RecordTold(records[c])
    BY <1>1 DEF IInv, TypeOK, RecordsSound, Held, Truth, RowsTold
  <2> QED BY <2>1, ViewIsTrue
<1> QED BY <1>1, ReadyIsListed, InsightsAreTrue, TimelineIsFollowed, WarningsAreMutual DEF ShownTruly

(* Whatever handlers raced, a review shows as the human's value what the   *)
(* last edit gave, and rates in order; who is listed as ready has nothing  *)
(* left to review but missing values; an insight tells a corrected field   *)
(* from one that says what the AI said; without races the timeline keeps   *)
(* up with the record; and duplicates are warned of both ways              *)
(* (toCandidateReviewView, filterCandidateList, KnowledgeInsightProvider,  *)
(* buildTimeline, scoreDuplicate).                                         *)
THEOREM ShownStaysTrue == Spec => []ShownTruly
<1>1. IInv /\ Truth => ShownTruly BY TruthShown
<1> QED BY Invariance, TruthStays, <1>1, PTL

(* Also with review sessions, beacons and restarts of the process.         *)
THEOREM MeasuredShownTrue == MeasuredSpec => []ShownTruly
<1>1. IInv /\ Truth => ShownTruly BY TruthShown
<1> QED BY MeasuredInvariance, MeasuredTruth, <1>1, PTL

-----------------------------------------------------------------------------
(* The log of the telemetry: the n-th event of a kind e is the entry        *)
(* <<e, n>>, so that an event told adds one entry and takes none away.     *)

IsLog(log) == \A e \in DOMAIN log : log[e] \in Nat \ {0}

(* The entries of the events of a set. *)
Of(log, events) == {p \in Entries(log) : p[1] \in events}

LEMMA EntryIs ==
    ASSUME NEW log, NEW p
    PROVE  p \in Entries(log) <=> \E e \in DOMAIN log : \E n \in 1..log[e] : p = <<e, n>>
BY DEF Entries

LEMMA TellIsLog ==
    ASSUME NEW log, IsLog(log), NEW events
    PROVE  /\ IsLog(Tell(log, events))
           /\ DOMAIN Tell(log, events) = DOMAIN log \cup events
           /\ \A e \in DOMAIN log \cup events :
                 Tell(log, events)[e] = Count(log, e) + (IF e \in events THEN 1 ELSE 0)
           /\ \A e : Count(log, e) \in Nat
<1>1. \A e : Count(log, e) \in Nat /\ (e \in DOMAIN log => Count(log, e) # 0)
  BY DEF IsLog, Count
<1> QED BY <1>1 DEF Tell, IsLog

(* What is told adds to the entries one of each event, and only those.     *)
LEMMA TellAdds ==
    ASSUME NEW log, IsLog(log), NEW events, NEW p
    PROVE  /\ p \in Entries(Tell(log, events)) <=>
                  p \in Entries(log) \/ \E e \in events : p = <<e, Count(log, e) + 1>>
           /\ \A e : <<e, Count(log, e) + 1>> \notin Entries(log)
<1> DEFINE new == Tell(log, events)
<1>1. /\ DOMAIN new = DOMAIN log \cup events
      /\ \A e \in DOMAIN log \cup events :
            new[e] = Count(log, e) + (IF e \in events THEN 1 ELSE 0)
      /\ \A e : Count(log, e) \in Nat
  BY TellIsLog
<1> HIDE DEF new
<1>2. \A e \in DOMAIN log : Count(log, e) = log[e]
  BY DEF Count
<1>3. \A e : e \notin DOMAIN log => Count(log, e) = 0
  BY DEF Count
<1>4. \A e : <<e, Count(log, e) + 1>> \notin Entries(log)
  <2> SUFFICES ASSUME NEW e, <<e, Count(log, e) + 1>> \in Entries(log)
               PROVE  FALSE
    OBVIOUS
  <2>1. PICK d \in DOMAIN log : \E n \in 1..log[d] : <<e, Count(log, e) + 1>> = <<d, n>>
    BY EntryIs
  <2>2. e = d /\ Count(log, e) + 1 \in 1..log[d]
    BY <2>1
  <2> QED BY <1>1, <1>2, <2>2
<1>5. ASSUME p \in Entries(new)
      PROVE  p \in Entries(log) \/ \E e \in events : p = <<e, Count(log, e) + 1>>
  <2>1. PICK e \in DOMAIN new : \E n \in 1..new[e] : p = <<e, n>>
    BY <1>5, EntryIs
  <2>2. PICK n \in 1..new[e] : p = <<e, n>>
    BY <2>1
  <2>3. Count(log, e) \in Nat /\ new[e] = Count(log, e) + (IF e \in events THEN 1 ELSE 0)
    BY <1>1
  <2>4. CASE e \in events /\ n = Count(log, e) + 1
    BY <2>2, <2>4
  <2>5. CASE ~(e \in events /\ n = Count(log, e) + 1)
    <3>1. n \in 1..Count(log, e)
      BY <2>3, <2>5
    <3>2. e \in DOMAIN log
      BY <1>3, <3>1
    <3> QED BY <1>2, <2>2, <3>1, <3>2, EntryIs
  <2> QED BY <2>4, <2>5
<1>6. ASSUME p \in Entries(log)
      PROVE  p \in Entries(new)
  <2>1. PICK e \in DOMAIN log : \E n \in 1..log[e] : p = <<e, n>>
    BY <1>6, EntryIs
  <2>2. PICK n \in 1..log[e] : p = <<e, n>>
    BY <2>1
  <2>3. e \in DOMAIN new /\ n \in 1..new[e]
    BY <1>1, <1>2
  <2> QED BY <2>2, <2>3, EntryIs
<1>7. ASSUME NEW e \in events, p = <<e, Count(log, e) + 1>>
      PROVE  p \in Entries(new)
  <2>1. e \in DOMAIN new /\ Count(log, e) + 1 \in 1..new[e]
    BY <1>1
  <2> QED BY <1>7, <2>1, EntryIs
<1> QED BY <1>4, <1>5, <1>6, <1>7 DEF new

LEMMA TellNothing ==
    ASSUME NEW log, NEW S, log \in [S -> Nat]
    PROVE  Tell(log, {}) = log
BY DEF Tell, Count

(* How the entries of some events are counted. *)
LEMMA TellCounts ==
    ASSUME NEW log, IsLog(log), IsFiniteSet(Entries(log)),
           NEW events, IsFiniteSet(events), NEW S,
           NEW old, old = Of(log, S), NEW new, new = Of(Tell(log, events), S)
    PROVE  /\ IsFiniteSet(Entries(Tell(log, events)))
           /\ IsFiniteSet(old) /\ IsFiniteSet(new)
           /\ Cardinality(old) \in Nat /\ Cardinality(new) \in Nat
           /\ Cardinality(old) <= Cardinality(new)
           /\ events \cap S = {} => new = old
           /\ \A e : events \cap S = {e} => /\ new = old \cup {<<e, Count(log, e) + 1>>}
                                           /\ Cardinality(new) = Cardinality(old) + 1
<1> DEFINE entry == [e \in events |-> <<e, Count(log, e) + 1>>]
           added == {entry[e] : e \in events}
<1>1. IsFiniteSet(added)
  <2>1. entry \in Surjection(events, added)
    BY DEF Surjection
  <2> QED BY <2>1, FS_Surjection
<1>2. Entries(Tell(log, events)) = Entries(log) \cup added
  <2>1. \A p : p \in added <=> \E e \in events : p = <<e, Count(log, e) + 1>>
    OBVIOUS
  <2>2. \A p : p \in Entries(Tell(log, events)) <=> p \in Entries(log) \/ p \in added
    BY <2>1, TellAdds
  <2> QED BY <2>2
<1>3. \A e : <<e, Count(log, e) + 1>> \notin Entries(log)
  BY TellAdds
<1>4. \A p \in added : p[1] \in events
  OBVIOUS
<1>5. new = old \cup {p \in added : p[1] \in S}
  BY <1>2 DEF Of
<1>6. IsFiniteSet(Entries(Tell(log, events)))
  BY <1>1, <1>2, FS_Union
<1>7. old \in SUBSET Entries(log) /\ new \in SUBSET Entries(Tell(log, events)) /\ old \in SUBSET new
  BY <1>5 DEF Of
<1>8. /\ IsFiniteSet(old) /\ IsFiniteSet(new)
      /\ Cardinality(old) \in Nat /\ Cardinality(new) \in Nat
      /\ Cardinality(old) <= Cardinality(new)
  <2>1. IsFiniteSet(old) /\ IsFiniteSet(new)
    BY <1>6, <1>7, FS_Subset
  <2>2. Cardinality(old) <= Cardinality(new)
    BY <1>7, <2>1, FS_Subset
  <2> QED BY <2>1, <2>2, FS_CardinalityType
<1>9. events \cap S = {} => new = old
  BY <1>4, <1>5
<1>10. ASSUME NEW e, events \cap S = {e}
       PROVE  /\ new = old \cup {<<e, Count(log, e) + 1>>}
              /\ Cardinality(new) = Cardinality(old) + 1
  <2>1. \A p : p \in added /\ p[1] \in S <=> p = <<e, Count(log, e) + 1>>
    <3>1. e \in events /\ e \in S /\ \A d \in events : d \in S => d = e
      BY <1>10
    <3>2. entry[e] = <<e, Count(log, e) + 1>> /\ entry[e] \in added
      BY <3>1
    <3>3. ASSUME NEW p, p \in added, p[1] \in S
          PROVE  p = <<e, Count(log, e) + 1>>
      <4>1. PICK d \in events : p = <<d, Count(log, d) + 1>>
        BY <3>3
      <4> QED BY <3>1, <3>3, <4>1
    <3> HIDE DEF added, entry
    <3> QED BY <3>1, <3>2, <3>3
  <2>2. {p \in added : p[1] \in S} = {<<e, Count(log, e) + 1>>}
    BY <2>1
  <2>3. <<e, Count(log, e) + 1>> \notin old
    BY <1>3 DEF Of
  <2> HIDE DEF added
  <2>4. new = old \cup {<<e, Count(log, e) + 1>>}
    BY <1>5, <2>2
  <2> QED BY <1>8, <2>3, <2>4, FS_AddElement
<1> QED BY <1>6, <1>8, <1>9, <1>10

-----------------------------------------------------------------------------
(* What the sessions count: a session that has counted n is n pairs, and   *)
(* so is what a finished one has reported.                                 *)

Parts == {"overridden", "reviewed"}

Amount(session, part) ==
    IF session = None THEN 0
    ELSE IF part = "overridden" THEN session.corrected
    ELSE session.accepted + session.rejected + session.corrected

(* All that the open sessions hold of a part. *)
Open(sessions, part) == UNION {{c} \X (1..Amount(sessions[c], part)) : c \in Candidates}

LEMMA AmountIsNat ==
    ASSUME NEW session \in Session \cup {None}, NEW part
    PROVE  Amount(session, part) \in Nat
BY MetricsAssumption DEF Amount, Session

LEMMA RowCounts ==
    ASSUME NEW x, NEW n \in Nat
    PROVE  IsFiniteSet({x} \X (1..n)) /\ Cardinality({x} \X (1..n)) = n
<1>1. IsFiniteSet({x}) /\ Cardinality({x}) = 1
  BY FS_Singleton
<1>2. IsFiniteSet(1..n) /\ Cardinality(1..n) = n
  <2>1. 1 \in Int /\ n \in Int
    OBVIOUS
  <2>2. IsFiniteSet(1..n) /\ Cardinality(1..n) = IF 1 > n THEN 0 ELSE n - 1 + 1
    BY ONLY <2>1, FS_Interval
  <2> QED BY <2>2
<1>3. /\ IsFiniteSet({x} \X (1..n))
      /\ Cardinality({x} \X (1..n)) = Cardinality({x}) * Cardinality(1..n)
  BY <1>1, <1>2, FS_Product
<1> QED BY <1>1, <1>2, <1>3

(* Two finite sets without a common member. *)
LEMMA ApartCounts ==
    ASSUME NEW S, NEW T, IsFiniteSet(S), IsFiniteSet(T), S \cap T = {}
    PROVE  /\ IsFiniteSet(S \cup T) /\ Cardinality(S) \in Nat /\ Cardinality(T) \in Nat
           /\ Cardinality(S \cup T) = Cardinality(S) + Cardinality(T)
<1>1. Cardinality(S) \in Nat /\ Cardinality(T) \in Nat
  BY FS_CardinalityType
<1>2. /\ IsFiniteSet(S \cup T)
      /\ Cardinality(S \cup T) = Cardinality(S) + Cardinality(T) - Cardinality(S \cap T)
  BY FS_Union
<1>3. Cardinality(S \cap T) = 0
  BY FS_EmptySet
<1> QED BY <1>1, <1>2, <1>3

LEMMA RowAdds ==
    ASSUME NEW S, IsFiniteSet(S), NEW x, NEW n \in Nat, S \cap ({x} \X (1..n)) = {},
           NEW new, new = S \cup ({x} \X (1..n))
    PROVE  /\ IsFiniteSet(new) /\ Cardinality(S) \in Nat
           /\ Cardinality(new) = Cardinality(S) + n
<1>1. PICK T : T = {x} \X (1..n)
  OBVIOUS
<1>2. IsFiniteSet(T) /\ Cardinality(T) = n
  BY <1>1, RowCounts
<1>3. S \cap T = {} /\ new = S \cup T
  BY <1>1
<1>4. IsFiniteSet(S \cup T) /\ Cardinality(S) \in Nat /\ Cardinality(S \cup T) = Cardinality(S) + Cardinality(T)
  BY ONLY IsFiniteSet(S), <1>2, <1>3, ApartCounts
<1> QED BY <1>2, <1>3, <1>4

(* The session of one candidate changes. *)
Replaced(sessions, c, session) == [sessions EXCEPT ![c] = session]

LEMMA OpenChanges ==
    ASSUME NEW old \in [Candidates -> Session \cup {None}], NEW part,
           NEW c \in Candidates, NEW session \in Session \cup {None},
           IsFiniteSet(Open(old, part)),
           NEW new, new = Replaced(old, c, session)
    PROVE  /\ IsFiniteSet(Open(new, part))
           /\ Cardinality(Open(old, part)) \in Nat /\ Cardinality(Open(new, part)) \in Nat
           /\ Cardinality(Open(new, part)) + Amount(old[c], part)
                = Cardinality(Open(old, part)) + Amount(session, part)
<1> DEFINE others == {p \in Open(old, part) : p[1] # c}
<1>1. Amount(old[c], part) \in Nat /\ Amount(session, part) \in Nat
  BY AmountIsNat
<1>2. \A f, p : p \in Open(f, part) <=>
                   \E d \in Candidates : p \in {d} \X (1..Amount(f[d], part))
  BY DEF Open
<1>3. \A d, n, p : p \in {d} \X (1..n) => p[1] = d
  OBVIOUS
<1>4. \A f, p : p \in Open(f, part) /\ p[1] = c => p \in {c} \X (1..Amount(f[c], part))
  BY <1>2, <1>3
<1>5. new[c] = session /\ \A d \in Candidates : d # c => new[d] = old[d]
  BY DEF Replaced
<1> HIDE DEF others
<1>6. Open(old, part) = others \cup ({c} \X (1..Amount(old[c], part)))
  <2>1. \A p : p \in others <=> p \in Open(old, part) /\ p[1] # c
    BY DEF others
  <2> QED BY <1>2, <1>4, <2>1
<1>7. Open(new, part) = others \cup ({c} \X (1..Amount(session, part)))
  <2>1. \A p : p \in others <=> p \in Open(old, part) /\ p[1] # c
    BY DEF others
  <2>2. ASSUME NEW p \in Open(new, part), p[1] # c
        PROVE  p \in others
    <3>1. PICK d \in Candidates : p \in {d} \X (1..Amount(new[d], part))
      BY <1>2
    <3>2. d # c
      BY <1>3, <2>2, <3>1
    <3>3. p \in {d} \X (1..Amount(old[d], part))
      BY <1>5, <3>1, <3>2
    <3> QED BY <1>2, <2>1, <2>2, <3>3
  <2>3. ASSUME NEW p \in others
        PROVE  p \in Open(new, part)
    <3>1. p \in Open(old, part) /\ p[1] # c
      BY <2>1
    <3>2. PICK d \in Candidates : p \in {d} \X (1..Amount(old[d], part))
      BY <1>2, <3>1
    <3>3. d # c
      BY <1>3, <3>1, <3>2
    <3>4. p \in {d} \X (1..Amount(new[d], part))
      BY <1>5, <3>2, <3>3
    <3> QED BY <1>2, <3>4
  <2> QED BY <1>2, <1>4, <1>5, <2>2, <2>3
<1>8. /\ others \cap ({c} \X (1..Amount(old[c], part))) = {}
      /\ others \cap ({c} \X (1..Amount(session, part))) = {}
  BY <1>3 DEF others
<1>9. IsFiniteSet(others)
  BY FS_Subset DEF others
<1>10. /\ IsFiniteSet(Open(new, part))
       /\ Cardinality(others) \in Nat
       /\ Cardinality(Open(old, part)) = Cardinality(others) + Amount(old[c], part)
       /\ Cardinality(Open(new, part)) = Cardinality(others) + Amount(session, part)
  <2>1. /\ Cardinality(others) \in Nat
        /\ Cardinality(Open(old, part)) = Cardinality(others) + Amount(old[c], part)
    BY <1>1, <1>6, <1>8, <1>9, RowAdds
  <2>2. /\ IsFiniteSet(Open(new, part))
        /\ Cardinality(Open(new, part)) = Cardinality(others) + Amount(session, part)
    BY <1>1, <1>7, <1>8, <1>9, RowAdds
  <2> QED BY <2>1, <2>2
<1> QED BY <1>1, <1>10

(* A finished session reports what it counted. *)
LEMMA ReportedGrows ==
    ASSUME NEW entries, NEW part, IsFiniteSet(Reported(entries, part)),
           NEW p, p \notin entries, p[1][part] \in Nat,
           NEW new, new = Reported(entries \cup {p}, part)
    PROVE  /\ IsFiniteSet(new)
           /\ Cardinality(Reported(entries, part)) \in Nat
           /\ Cardinality(new) = Cardinality(Reported(entries, part)) + p[1][part]
<1>1. new = Reported(entries, part) \cup ({p} \X (1..p[1][part]))
  BY DEF Reported
<1>2. Reported(entries, part) \cap ({p} \X (1..p[1][part])) = {}
  <2>1. \A d, n, x : x \in {d} \X (1..n) => x[1] = d
    OBVIOUS
  <2>2. \A x : x \in Reported(entries, part) => \E d \in entries : x \in {d} \X (1..d[1][part])
    BY DEF Reported
  <2> QED BY <2>1, <2>2
<1>3. PICK n \in Nat : n = p[1][part]
  OBVIOUS
<1>4. PICK S : S = Reported(entries, part)
  OBVIOUS
<1>5. IsFiniteSet(S) /\ S \cap ({p} \X (1..n)) = {} /\ new = S \cup ({p} \X (1..n))
  BY <1>1, <1>2, <1>3, <1>4
<1>6. IsFiniteSet(new) /\ Cardinality(S) \in Nat /\ Cardinality(new) = Cardinality(S) + n
  BY ONLY <1>5, RowAdds
<1> QED BY <1>3, <1>4, <1>6

-----------------------------------------------------------------------------
(* The events of a step.                                                   *)

ReviewOf(c, field, action) ==
    [type |-> "knowledge_reviewed", candidate |-> c, field |-> field, action |-> action]
QualifiedOf(c) == [type |-> "candidate_qualified", candidate |-> c]
RevisionOf(c, field) == [type |-> "knowledge_revision_created", candidate |-> c, field |-> field]
SignalOf(c) == [type |-> "knowledge_signal_recorded", candidate |-> c]

(* The kinds are apart. *)
LEMMA KindsApart ==
    /\ \A e \in FieldReviewed : e.type = "knowledge_reviewed"
    /\ \A e \in Qualified : e.type = "candidate_qualified"
    /\ \A e \in Completed : e.type = "review_session_completed"
    /\ \A e \in Revision : e.type = "knowledge_revision_created"
    /\ \A e \in Signal : e.type = "knowledge_signal_recorded"
BY DEF FieldReviewed, Qualified, Completed, Revision, Signal

LEMMA EventsTyped ==
    ASSUME NEW c \in Candidates
    PROVE  /\ \A f \in Fields, a \in Actions : ReviewOf(c, f, a) \in FieldReviewed
           /\ QualifiedOf(c) \in Qualified
           /\ \A f \in Fields : RevisionOf(c, f) \in Revision
           /\ SignalOf(c) \in Signal
BY DEF FieldReviewed, Qualified, Revision, Signal, ReviewOf, QualifiedOf, RevisionOf, SignalOf

LEMMA PairIsFinite ==
    ASSUME NEW a, NEW b
    PROVE  IsFiniteSet({}) /\ IsFiniteSet({a}) /\ IsFiniteSet({a, b})
<1>1. IsFiniteSet({}) /\ IsFiniteSet({a}) /\ IsFiniteSet({b})
  BY FS_EmptySet, FS_Singleton
<1>2. {a, b} = {a} \cup {b}
  OBVIOUS
<1> QED BY <1>1, <1>2, FS_Union

(* What the commands ask for. *)
LEMMA CommandOps ==
    /\ \A m \in ImportCommand : m.op = "import"
    /\ \A m \in RecordCommand :
          /\ m.op \in {"review", "workspace", "ready"}
          /\ m.op = "review" => m.field \in Fields /\ m.action \in Actions
    /\ \A m \in SetCommand :
          /\ m.op \in {"patch", "evidence", "signal"}
          /\ m.op = "patch" => m.field \in Fields /\ m.value \in Values
<1>1. \A m \in ImportCommand : m.op = "import"
  BY DEF ImportCommand
<1>2. \A m \in RecordCommand :
          /\ m.op \in {"review", "workspace", "ready"}
          /\ m.op = "review" => m.field \in Fields /\ m.action \in Actions
  BY DEF RecordCommand, Actions
<1>3. \A m \in SetCommand :
          /\ m.op \in {"patch", "evidence", "signal"}
          /\ m.op = "patch" => m.field \in Fields /\ m.value \in Values
  BY DEF SetCommand
<1> QED BY <1>1, <1>2, <1>3

(* A session that ends leaves one event, that reports what it counted. *)
LEMMA FinishIs ==
    ASSUME active \in [Candidates -> Session \cup {None}], NEW c \in Candidates,
           NEW ready \in BOOLEAN
    PROVE  /\ active[c] = None => Finish(c, ready) = {}
           /\ active[c] # None =>
                 \E e \in Completed :
                    /\ Finish(c, ready) = {e} /\ e.ready = ready
                    /\ \A part \in Parts : e[part] = Amount(active[c], part)
           /\ IsFiniteSet(Finish(c, ready)) /\ Finish(c, ready) \subseteq Completed
<1>1. CASE active[c] = None
  <2>1. Finish(c, ready) = {}
    BY <1>1 DEF Finish
  <2> QED BY <1>1, <2>1, PairIsFinite
<1>2. CASE active[c] # None
  <2>1. PICK s \in Session : s = active[c]
    BY <1>2
  <2>2. s.corrected \in Nat /\ s.accepted + s.rejected + s.corrected \in Nat
    BY DEF Session
  <2>3. PICK e : e = [type |-> "review_session_completed", candidate |-> c, ready |-> ready,
                      overridden |-> s.corrected,
                      reviewed |-> s.accepted + s.rejected + s.corrected]
    OBVIOUS
  <2>4. Finish(c, ready) = {e}
    BY <1>2, <2>1, <2>3 DEF Finish
  <2>5. e \in Completed /\ e.ready = ready
    BY <2>2, <2>3 DEF Completed
  <2>6. ASSUME NEW part \in Parts
        PROVE  e[part] = Amount(active[c], part)
    <3>1. CASE part = "overridden"
      BY <1>2, <2>1, <2>3, <3>1 DEF Amount
    <3>2. CASE part = "reviewed"
      BY <1>2, <2>1, <2>3, <3>2 DEF Amount
    <3> QED BY <3>1, <3>2 DEF Parts
  <2>7. IsFiniteSet({e})
    BY PairIsFinite
  <2> QED BY <1>2, <2>4, <2>5, <2>6, <2>7
<1> QED BY <1>1, <1>2

(* A request that still has fields to record reviews them. *)
Working ==
    \A r \in Slots : request[r] # None /\ request[r].todo # {} =>
        request[r].command.op \in {"review", "ready"}

(* What a saved set tells: nothing of evidence, and otherwise one signal,  *)
(* and one revision for a set that was revised.                            *)
LEMMA EvolutionIs ==
    ASSUME NEW q \in Request, RequestOK(q), q.at = "saveSet",
           q.todo # {} => q.command.op \in {"review", "ready"}
    PROVE  \/ q.todo = {} /\ q.command.op = "evidence" /\ Evolution(q) = {}
           \/ q.todo = {} /\ q.command.op = "signal" /\ Evolution(q) = {SignalOf(q.candidate)}
           \/ /\ q.todo = {} /\ q.command.op = "patch" /\ q.command.field \in Fields
              /\ Evolution(q) = {RevisionOf(q.candidate, q.command.field), SignalOf(q.candidate)}
           \/ /\ q.todo # {} /\ Field(q.todo) \in Fields
              /\ Evolution(q) = {RevisionOf(q.candidate, Field(q.todo)), SignalOf(q.candidate)}
<1>1. CASE q.todo # {}
  <2>1. Field(q.todo) \in q.todo
    BY <1>1 DEF Field
  <2>2. Field(q.todo) \in Fields
    BY <2>1, RequestFacts
  <2>3. q.command.op # "evidence"
    BY <1>1
  <2>4. Evolution(q) = {RevisionOf(q.candidate, Field(q.todo)), SignalOf(q.candidate)}
    BY <1>1, <2>3 DEF Evolution, RevisionOf, SignalOf
  <2> QED BY <1>1, <2>2, <2>4
<1>2. CASE q.todo = {}
  <2>1. q.command \in SetCommand
    BY <1>2 DEF RequestOK
  <2>2. q.command.op \in {"patch", "evidence", "signal"}
    BY <2>1, CommandOps
  <2>3. CASE q.command.op = "patch"
    <3>1. q.command.field \in Fields
      BY <2>1, <2>3, CommandOps
    <3>2. Evolution(q) = {RevisionOf(q.candidate, q.command.field), SignalOf(q.candidate)}
      BY <1>2, <2>3 DEF Evolution, RevisionOf, SignalOf
    <3> QED BY <1>2, <2>3, <3>1, <3>2
  <2>4. CASE q.command.op = "evidence"
    BY <1>2, <2>4 DEF Evolution
  <2>5. CASE q.command.op = "signal"
    BY <1>2, <2>5 DEF Evolution, SignalOf
  <2> QED BY <2>2, <2>3, <2>4, <2>5
<1> QED BY <1>1, <1>2

(* What a handler tells in a step: of the set it has saved, and at its end. *)
SavedEvents(r) ==
    IF At(r, "saveSet") /\ failures' = failures THEN Evolution(request[r]) ELSE {}
EndedEvents(r) ==
    IF request'[r] = None THEN Ending(request[r].candidate, request[r].command) ELSE {}
StepEvents(r) == SavedEvents(r) \cup EndedEvents(r)

LEMMA EndingIs ==
    ASSUME MeasuresTyped, NEW c \in Candidates, NEW command \in Command
    PROVE  /\ \/ /\ command.op = "review"
                 /\ command.field \in Fields /\ command.action \in Actions
                 /\ Ending(c, command) = {ReviewOf(c, command.field, command.action)}
              \/ /\ command.op = "ready"
                 /\ Ending(c, command) = Finish(c, TRUE) \cup {QualifiedOf(c)}
              \/ command.op \notin {"review", "ready"} /\ Ending(c, command) = {}
           /\ IsFiniteSet(Ending(c, command))
           /\ Ending(c, command) \subseteq FieldReviewed \cup Completed \cup Qualified
<1>1. CASE command.op = "review"
  <2>1. command \in RecordCommand
    BY <1>1, CommandOps DEF Command
  <2>2. command.field \in Fields /\ command.action \in Actions
    BY <1>1, <2>1, CommandOps
  <2>3. Ending(c, command) = {ReviewOf(c, command.field, command.action)}
    BY <1>1 DEF Ending, ReviewOf
  <2>4. ReviewOf(c, command.field, command.action) \in FieldReviewed
    BY <2>2, EventsTyped
  <2> QED BY <1>1, <2>2, <2>3, <2>4, PairIsFinite
<1>2. CASE command.op = "ready"
  <2>1. Ending(c, command) = Finish(c, TRUE) \cup {QualifiedOf(c)}
    BY <1>2 DEF Ending, QualifiedOf
  <2>2. IsFiniteSet(Finish(c, TRUE)) /\ Finish(c, TRUE) \subseteq Completed
    BY FinishIs DEF MeasuresTyped
  <2>3. IsFiniteSet({QualifiedOf(c)}) /\ QualifiedOf(c) \in Qualified
    BY PairIsFinite, EventsTyped
  <2>4. IsFiniteSet(Finish(c, TRUE) \cup {QualifiedOf(c)})
    BY <2>2, <2>3, FS_Union
  <2> QED BY <1>2, <2>1, <2>2, <2>3, <2>4
<1>3. CASE command.op \notin {"review", "ready"}
  <2>1. Ending(c, command) = {}
    BY <1>3 DEF Ending
  <2> QED BY <1>3, <2>1, PairIsFinite
<1> QED BY <1>1, <1>2, <1>3

LEMMA ProceedTells ==
    ASSUME IInv, Working, MeasuresTyped, NEW r \in Slots, Proceed(r)
    PROVE  /\ request[r] # None /\ request[r] \in Request /\ RequestOK(request[r])
           /\ request[r].candidate \in Candidates /\ request[r].command \in Command
           /\ told' = Tell(told, StepEvents(r))
           /\ IsFiniteSet(StepEvents(r))
           /\ SavedEvents(r) \subseteq Revision \cup Signal
           /\ EndedEvents(r) \subseteq FieldReviewed \cup Completed \cup Qualified
<1>1. request[r] # None
  BY DEF Proceed, Returns, SaveCandidate, Seed, SaveRecord, ReadSet, SaveSet, EvolutionFails, At
<1> DEFINE q == request[r]
<1>2. /\ q \in Request /\ RequestOK(q) /\ q.candidate \in Candidates /\ q.command \in Command
  BY <1>1, InFlight
<1>3. told' = Tell(told, StepEvents(r))
  BY DEF Proceed, StepEvents, SavedEvents, EndedEvents
<1>4. IsFiniteSet(SavedEvents(r)) /\ SavedEvents(r) \subseteq Revision \cup Signal
  <2>1. CASE At(r, "saveSet") /\ failures' = failures
    <3>1. SavedEvents(r) = Evolution(q)
      BY <2>1 DEF SavedEvents
    <3>2. q.at = "saveSet"
      BY <2>1 DEF At
    <3>3. q.todo # {} => q.command.op \in {"review", "ready"}
      BY <1>1 DEF Working
    <3>4. \/ Evolution(q) = {}
          \/ Evolution(q) = {SignalOf(q.candidate)}
          \/ \E f \in Fields : Evolution(q) = {RevisionOf(q.candidate, f), SignalOf(q.candidate)}
      BY <1>2, <3>2, <3>3, EvolutionIs
    <3>5. SignalOf(q.candidate) \in Signal /\ \A f \in Fields : RevisionOf(q.candidate, f) \in Revision
      BY <1>2, EventsTyped
    <3>6. IsFiniteSet(Evolution(q)) /\ Evolution(q) \subseteq Revision \cup Signal
      BY <3>4, <3>5, PairIsFinite
    <3> QED BY <3>1, <3>6
  <2>2. CASE ~(At(r, "saveSet") /\ failures' = failures)
    BY <2>2, PairIsFinite DEF SavedEvents
  <2> QED BY <2>1, <2>2
<1>5. /\ IsFiniteSet(EndedEvents(r))
      /\ EndedEvents(r) \subseteq FieldReviewed \cup Completed \cup Qualified
  <2>1. CASE request'[r] = None
    BY <1>2, <2>1, EndingIs DEF EndedEvents
  <2>2. CASE request'[r] # None
    BY <2>2, PairIsFinite DEF EndedEvents
  <2> QED BY <2>1, <2>2
<1>6. IsFiniteSet(StepEvents(r))
  BY <1>4, <1>5, FS_Union DEF StepEvents
<1> QED BY <1>1, <1>2, <1>3, <1>4, <1>5, <1>6

(* What a review adds to an open session. *)
LEMMA ActionCounts ==
    ASSUME NEW s \in Session, NEW action \in Actions,
           NEW new, new = Counted(s, action)
    PROVE  /\ new \in Session
           /\ Amount(new, "overridden")
                = Amount(s, "overridden") + (IF action = "edit" THEN 1 ELSE 0)
           /\ Amount(new, "reviewed") = Amount(s, "reviewed") + 1
<1>1. s.accepted \in Nat /\ s.rejected \in Nat /\ s.corrected \in Nat
  BY DEF Session
<1>2. /\ new \in Session
      /\ new.corrected = s.corrected + (IF action = "edit" THEN 1 ELSE 0)
      /\ new.accepted + new.rejected + new.corrected = s.accepted + s.rejected + s.corrected + 1
  <2>1. CASE action \in {"accept", "verify"}
    <3>1. new = [s EXCEPT !.accepted = @ + 1]
      BY <2>1 DEF Counted
    <3> QED BY <1>1, <2>1, <3>1 DEF Session
  <2>2. CASE action = "reject"
    <3>1. new = [s EXCEPT !.rejected = @ + 1]
      BY <2>2 DEF Counted
    <3> QED BY <1>1, <2>2, <3>1 DEF Session
  <2>3. CASE action = "edit"
    <3>1. new = [s EXCEPT !.corrected = @ + 1]
      BY <2>3 DEF Counted
    <3> QED BY <1>1, <2>3, <3>1 DEF Session
  <2> QED BY <2>1, <2>2, <2>3 DEF Actions
<1>3. new # None /\ s # None
  BY <1>2, MetricsAssumption
<1> QED BY <1>2, <1>3 DEF Amount

(* What a handler does to the session of its candidate. *)
LEMMA ProceedMeasures ==
    ASSUME IInv, Working, MeasuresTyped, NEW r \in Slots, Proceed(r)
    PROVE  LET c == request[r].candidate command == request[r].command IN
           \E session \in Session \cup {None} :
              /\ active' = [active EXCEPT ![c] = session]
              /\ request'[r] # None \/ command.op \notin {"review", "ready"} => session = active[c]
              /\ request'[r] = None /\ command.op = "ready" => session = None
              /\ request'[r] = None /\ command.op = "review" =>
                    /\ Amount(session, "overridden")
                         <= Amount(active[c], "overridden") + (IF command.action = "edit" THEN 1 ELSE 0)
                    /\ Amount(session, "reviewed") <= Amount(active[c], "reviewed") + 1
<1> DEFINE c == request[r].candidate command == request[r].command
<1>1. c \in Candidates /\ command \in Command
  BY ProceedTells
<1>2. active \in [Candidates -> Session \cup {None}] /\ active[c] \in Session \cup {None}
  BY <1>1 DEF MeasuresTyped
<1>3. active = [active EXCEPT ![c] = active[c]]
  BY <1>2
<1> HIDE DEF c, command
<1>4. CASE request'[r] # None \/ command.op \notin {"review", "ready"}
  <2>1. active' = active
    BY <1>4 DEF Proceed, Measure, c, command
  <2>2. active' = [active EXCEPT ![c] = active[c]]
    BY <1>3, <2>1
  <2>3. request'[r] = None => command.op # "ready" /\ command.op # "review"
    BY <1>4
  <2> QED BY <1>2, <2>2, <2>3 DEF c, command
<1>5. CASE request'[r] = None /\ command.op = "ready"
  <2>1. active' = [active EXCEPT ![c] = None]
    BY <1>5 DEF Proceed, Measure, Closed, c, command
  <2> QED BY <1>5, <2>1 DEF c, command
<1>6. CASE request'[r] = None /\ command.op = "review"
  <2>1. command.action \in Actions
    BY <1>1, <1>6, EndingIs DEF c, command
  <2>2. recordKnowledgeAction(c, command.action)
    BY <1>6 DEF Proceed, Measure, c, command
  <2>3. CASE active[c] = None
    <3>1. active' = [active EXCEPT ![c] = None]
      BY <1>2, <2>2, <2>3 DEF recordKnowledgeAction
    <3>2. Amount(None, "overridden") = 0 /\ Amount(None, "reviewed") = 0
      BY DEF Amount
    <3>3. /\ Amount(None, "overridden")
                <= Amount(active[c], "overridden") + (IF command.action = "edit" THEN 1 ELSE 0)
          /\ Amount(None, "reviewed") <= Amount(active[c], "reviewed") + 1
      BY <2>3, <3>2
    <3> QED BY <1>6, <3>1, <3>3 DEF c, command
  <2>4. CASE active[c] # None
    <3>1. PICK s \in Session : s = active[c]
      BY <1>2, <2>4
    <3>2. PICK a \in Actions : a = command.action
      BY <2>1
    <3>3. PICK new : new = Counted(s, a)
      OBVIOUS
    <3>4. active' = [active EXCEPT ![c] = new]
      BY <1>2, <2>2, <2>4, <3>1, <3>2, <3>3 DEF recordKnowledgeAction
    <3>5. /\ new \in Session
          /\ Amount(new, "overridden")
                = Amount(s, "overridden") + (IF a = "edit" THEN 1 ELSE 0)
          /\ Amount(new, "reviewed") = Amount(s, "reviewed") + 1
      BY <3>3, ActionCounts
    <3>6. /\ Amount(new, "overridden") \in Nat /\ Amount(new, "reviewed") \in Nat
          /\ Amount(s, "overridden") \in Nat /\ Amount(s, "reviewed") \in Nat
      BY <3>5, AmountIsNat
    <3>7. /\ Amount(new, "overridden")
                <= Amount(active[c], "overridden") + (IF command.action = "edit" THEN 1 ELSE 0)
          /\ Amount(new, "reviewed") <= Amount(active[c], "reviewed") + 1
      BY <3>1, <3>2, <3>5, <3>6
    <3> QED BY <1>6, <3>4, <3>5, <3>7 DEF c, command
  <2> QED BY <2>3, <2>4
<1> QED BY <1>4, <1>5, <1>6

-----------------------------------------------------------------------------
(* The dashboard adds up: what the open sessions hold, with what finished   *)
(* ones have reported, is not more than was told.                          *)

Reviews(part) == IF part = "overridden" THEN {e \in FieldReviewed : e.action = "edit"} ELSE FieldReviewed
EndedReady == {e \in Completed : e.ready}

Balanced(log, sessions, part) ==
    LET open == Open(sessions, part) reported == Reported(Of(log, Completed), part) IN
    /\ IsFiniteSet(open) /\ IsFiniteSet(reported)
    /\ Cardinality(open) + Cardinality(reported) <= Cardinality(Of(log, Reviews(part)))

(* The events do not report a session, and count for one that is open. *)
LEMMA BalanceOpen ==
    ASSUME NEW log, IsLog(log), IsFiniteSet(Entries(log)), NEW events, IsFiniteSet(events),
           NEW old \in [Candidates -> Session \cup {None}], NEW part \in Parts,
           NEW c \in Candidates, NEW session \in Session \cup {None},
           NEW new, new = [old EXCEPT ![c] = session],
           Balanced(log, old, part), events \cap Completed = {},
           \/ events \cap Reviews(part) = {} /\ Amount(session, part) <= Amount(old[c], part)
           \/ \E e : events \cap Reviews(part) = {e} /\ Amount(session, part) <= Amount(old[c], part) + 1
    PROVE  Balanced(Tell(log, events), new, part)
<1> DEFINE before == Of(log, Reviews(part))
           after == Of(Tell(log, events), Reviews(part))
           reported == Reported(Of(log, Completed), part)
<1>1. Of(Tell(log, events), Completed) = Of(log, Completed)
  BY TellCounts
<1>2. /\ Cardinality(before) \in Nat /\ Cardinality(after) \in Nat
      /\ events \cap Reviews(part) = {} => Cardinality(after) = Cardinality(before)
      /\ \A e : events \cap Reviews(part) = {e} => Cardinality(after) = Cardinality(before) + 1
  BY TellCounts
<1>3. /\ IsFiniteSet(Open(old, part)) /\ IsFiniteSet(reported)
      /\ Cardinality(Open(old, part)) + Cardinality(reported) <= Cardinality(before)
  BY DEF Balanced
<1>4. /\ IsFiniteSet(Open(new, part))
      /\ Cardinality(Open(old, part)) \in Nat /\ Cardinality(Open(new, part)) \in Nat
      /\ Cardinality(Open(new, part)) + Amount(old[c], part)
           = Cardinality(Open(old, part)) + Amount(session, part)
  <2>1. IsFiniteSet(Open(old, part)) /\ old \in [Candidates -> Session \cup {None}]
    BY <1>3
  <2>2. new = Replaced(old, c, session) /\ c \in Candidates /\ session \in Session \cup {None}
    BY DEF Replaced
  <2> QED BY ONLY <2>1, <2>2, OpenChanges
<1>5. Cardinality(reported) \in Nat
  BY <1>3, FS_CardinalityType
<1>6. old[c] \in Session \cup {None}
  OBVIOUS
<1>7. Amount(old[c], part) \in Nat /\ Amount(session, part) \in Nat
  BY <1>6, AmountIsNat
<1> HIDE DEF before, after, reported
<1>8. Cardinality(Open(new, part)) + Cardinality(reported) <= Cardinality(after)
  <2>1. CASE events \cap Reviews(part) = {} /\ Amount(session, part) <= Amount(old[c], part)
    BY <1>2, <1>3, <1>4, <1>5, <1>7, <2>1
  <2>2. CASE \E e : events \cap Reviews(part) = {e} /\ Amount(session, part) <= Amount(old[c], part) + 1
    <3>1. Cardinality(after) = Cardinality(before) + 1
      BY <1>2, <2>2
    <3>2. Amount(session, part) <= Amount(old[c], part) + 1
      BY <2>2
    <3> QED BY <1>2, <1>3, <1>4, <1>5, <1>7, <3>1, <3>2
  <2> QED BY <2>1, <2>2
<1> QED BY <1>1, <1>3, <1>4, <1>8 DEF Balanced, after, reported

(* A session ends and reports what it held, if it was open. *)
LEMMA BalanceFinish ==
    ASSUME NEW log, IsLog(log), IsFiniteSet(Entries(log)), NEW events, IsFiniteSet(events),
           NEW old \in [Candidates -> Session \cup {None}], NEW part \in Parts,
           NEW c \in Candidates, NEW new, new = [old EXCEPT ![c] = None],
           Balanced(log, old, part), events \cap Reviews(part) = {},
           \/ events \cap Completed = {}
           \/ \E e : events \cap Completed = {e} /\ e[part] = Amount(old[c], part)
    PROVE  Balanced(Tell(log, events), new, part)
<1>1. CASE events \cap Completed = {}
  <2>1. Amount(None, part) <= Amount(old[c], part)
    <3>1. old[c] \in Session \cup {None}
      OBVIOUS
    <3>2. Amount(old[c], part) \in Nat
      BY <3>1, AmountIsNat
    <3> QED BY <3>2 DEF Amount
  <2> QED BY <1>1, <2>1, BalanceOpen
<1>2. CASE \E e : events \cap Completed = {e} /\ e[part] = Amount(old[c], part)
  <2>1. PICK e : events \cap Completed = {e} /\ e[part] = Amount(old[c], part)
    BY <1>2
  <2> DEFINE sessions == Of(log, Completed)
             p == <<e, Count(log, e) + 1>>
  <2>2. Of(Tell(log, events), Reviews(part)) = Of(log, Reviews(part))
    BY TellCounts
  <2>3. Of(Tell(log, events), Completed) = sessions \cup {p}
    BY <2>1, TellCounts
  <2>4. p \notin sessions
    BY TellAdds DEF Of
  <2>5. /\ IsFiniteSet(Open(old, part)) /\ IsFiniteSet(Reported(sessions, part))
        /\ Cardinality(Open(old, part)) + Cardinality(Reported(sessions, part))
              <= Cardinality(Of(log, Reviews(part)))
    BY DEF Balanced
  <2>6. old[c] \in Session \cup {None}
    OBVIOUS
  <2>7. p[1][part] = Amount(old[c], part) /\ Amount(old[c], part) \in Nat /\ Amount(None, part) = 0
    BY <2>1, <2>6, AmountIsNat DEF Amount
  <2>8. /\ IsFiniteSet(Open(new, part))
        /\ Cardinality(Open(old, part)) \in Nat /\ Cardinality(Open(new, part)) \in Nat
        /\ Cardinality(Open(new, part)) + Amount(old[c], part)
             = Cardinality(Open(old, part)) + Amount(None, part)
    <3>1. IsFiniteSet(Open(old, part)) /\ old \in [Candidates -> Session \cup {None}]
      BY <2>5
    <3>2. new = Replaced(old, c, None) /\ c \in Candidates /\ None \in Session \cup {None}
      BY DEF Replaced
    <3> QED BY ONLY <3>1, <3>2, OpenChanges
  <2> HIDE DEF sessions, p
  <2>9. /\ IsFiniteSet(Reported(sessions \cup {p}, part))
        /\ Cardinality(Reported(sessions, part)) \in Nat
        /\ Cardinality(Reported(sessions \cup {p}, part))
             = Cardinality(Reported(sessions, part)) + p[1][part]
    BY <2>4, <2>5, <2>7, ReportedGrows
  <2>10. Cardinality(Of(log, Reviews(part))) \in Nat
    BY TellCounts
  <2>11. Cardinality(Open(new, part)) + Cardinality(Reported(sessions \cup {p}, part))
           <= Cardinality(Of(log, Reviews(part)))
    BY <2>5, <2>7, <2>8, <2>9, <2>10
  <2> QED BY <2>2, <2>3, <2>8, <2>9, <2>11 DEF Balanced
<1> QED BY <1>1, <1>2

EndedWell(log) == Cardinality(Of(log, EndedReady)) <= Cardinality(Of(log, Qualified))

Adding ==
    /\ IsFiniteSet(Entries(told))
    /\ \A part \in Parts : Balanced(told, active, part)
    /\ EndedWell(told)

LEMMA ToldIsLog ==
    ASSUME MeasuresTyped
    PROVE  IsLog(told)
BY DEF MeasuresTyped, IsLog

LEMMA LogTyped ==
    ASSUME MeasuresTyped, NEW events, events \subseteq Event, told' = Tell(told, events)
    PROVE  DOMAIN told' \subseteq Event /\ \A e \in DOMAIN told' : told'[e] \in Nat \ {0}
<1>1. IsLog(Tell(told, events)) /\ DOMAIN Tell(told, events) = DOMAIN told \cup events
  BY ToldIsLog, TellIsLog
<1> QED BY <1>1 DEF MeasuresTyped, IsLog

(* No more sessions end ready than candidates are qualified. *)
LEMMA EndedWellKept ==
    ASSUME NEW log, IsLog(log), IsFiniteSet(Entries(log)), NEW events, IsFiniteSet(events),
           EndedWell(log),
           \/ events \cap EndedReady = {}
           \/ (\E e : events \cap EndedReady = {e}) /\ (\E e : events \cap Qualified = {e})
    PROVE  IsFiniteSet(Entries(Tell(log, events))) /\ EndedWell(Tell(log, events))
<1> DEFINE ended == Of(log, EndedReady)
           endedNew == Of(Tell(log, events), EndedReady)
           made == Of(log, Qualified)
           madeNew == Of(Tell(log, events), Qualified)
<1>1. /\ IsFiniteSet(Entries(Tell(log, events)))
      /\ Cardinality(ended) \in Nat /\ Cardinality(endedNew) \in Nat
      /\ events \cap EndedReady = {} => endedNew = ended
      /\ \A e : events \cap EndedReady = {e} => Cardinality(endedNew) = Cardinality(ended) + 1
  BY TellCounts
<1>2. /\ Cardinality(made) \in Nat /\ Cardinality(madeNew) \in Nat
      /\ Cardinality(made) <= Cardinality(madeNew)
      /\ \A e : events \cap Qualified = {e} => Cardinality(madeNew) = Cardinality(made) + 1
  BY TellCounts
<1>3. Cardinality(ended) <= Cardinality(made)
  BY DEF EndedWell
<1> HIDE DEF ended, endedNew, made, madeNew
<1>4. Cardinality(endedNew) <= Cardinality(madeNew)
  <2>1. CASE events \cap EndedReady = {}
    BY <1>1, <1>2, <1>3, <2>1
  <2>2. CASE (\E e : events \cap EndedReady = {e}) /\ (\E e : events \cap Qualified = {e})
    <3>1. Cardinality(endedNew) = Cardinality(ended) + 1
      BY <1>1, <2>2
    <3>2. Cardinality(madeNew) = Cardinality(made) + 1
      BY <1>2, <2>2
    <3> QED BY <1>1, <1>2, <1>3, <3>1, <3>2
  <2> QED BY <2>1, <2>2
<1> QED BY <1>1, <1>4 DEF EndedWell, endedNew, madeNew

LEMMA AddingProceeds ==
    ASSUME IInv, Working, MeasuresTyped, Adding, NEW r \in Slots, Proceed(r)
    PROVE  Adding' /\ MeasuresTyped'
<1> DEFINE q == request[r] c == q.candidate command == q.command E == StepEvents(r)
<1>1. /\ c \in Candidates /\ command \in Command
      /\ told' = Tell(told, E) /\ IsFiniteSet(E)
      /\ SavedEvents(r) \subseteq Revision \cup Signal
      /\ EndedEvents(r) \subseteq FieldReviewed \cup Completed \cup Qualified
  BY ProceedTells
<1>2. PICK session \in Session \cup {None} :
         /\ active' = [active EXCEPT ![c] = session]
         /\ request'[r] # None \/ command.op \notin {"review", "ready"} => session = active[c]
         /\ request'[r] = None /\ command.op = "ready" => session = None
         /\ request'[r] = None /\ command.op = "review" =>
               /\ Amount(session, "overridden")
                    <= Amount(active[c], "overridden") + (IF command.action = "edit" THEN 1 ELSE 0)
               /\ Amount(session, "reviewed") <= Amount(active[c], "reviewed") + 1
  BY ProceedMeasures
<1>3. active \in [Candidates -> Session \cup {None}] /\ active[c] \in Session \cup {None}
  BY <1>1 DEF MeasuresTyped
<1>4. IsLog(told) /\ IsFiniteSet(Entries(told)) /\ EndedWell(told)
  BY ToldIsLog DEF Adding
<1>5. /\ SavedEvents(r) \cap FieldReviewed = {} /\ SavedEvents(r) \cap Completed = {}
      /\ SavedEvents(r) \cap Qualified = {}
  BY <1>1, KindsApart
<1>6. /\ E \cap FieldReviewed = EndedEvents(r) \cap FieldReviewed
      /\ E \cap Completed = EndedEvents(r) \cap Completed
      /\ E \cap Qualified = EndedEvents(r) \cap Qualified
  BY <1>5 DEF StepEvents
<1>7. /\ \A part : Reviews(part) \subseteq FieldReviewed
      /\ EndedReady \subseteq Completed
  BY DEF Reviews, EndedReady
<1>8. MeasuresTyped'
  <2>1. E \subseteq Event
    BY <1>1 DEF StepEvents, Event
  <2>2. active' \in [Candidates -> Session \cup {None}]
    BY <1>2, <1>3
  <2>3. beacons' \in 0..MaxBeacons
    BY DEF Proceed, MeasuresTyped
  <2>4. DOMAIN told' \subseteq Event /\ \A e \in DOMAIN told' : told'[e] \in Nat \ {0}
    BY <1>1, <2>1, LogTyped
  <2> QED BY <2>2, <2>3, <2>4 DEF MeasuresTyped
<1>9. /\ \A part \in Parts : Balanced(Tell(told, E), active', part)
      /\ IsFiniteSet(Entries(Tell(told, E))) /\ EndedWell(Tell(told, E))
  <2>1. CASE request'[r] = None /\ command.op = "review"
    <3>1. /\ command.field \in Fields /\ command.action \in Actions
          /\ EndedEvents(r) = {ReviewOf(c, command.field, command.action)}
      BY <1>1, <2>1, EndingIs DEF EndedEvents
    <3> DEFINE e == ReviewOf(c, command.field, command.action)
    <3>2. e \in FieldReviewed /\ e.action = command.action
      BY <1>1, <3>1, EventsTyped DEF ReviewOf
    <3>3. E \cap Completed = {} /\ E \cap FieldReviewed = {e}
      BY <1>6, <3>1, <3>2, KindsApart
    <3>4. E \cap EndedReady = {}
      BY <1>7, <3>3
    <3>5. ASSUME NEW part \in Parts
          PROVE  Balanced(Tell(told, E), active', part)
      <4>1. Balanced(told, active, part)
        BY DEF Adding
      <4>2. \/ E \cap Reviews(part) = {} /\ Amount(session, part) <= Amount(active[c], part)
            \/ \E d : E \cap Reviews(part) = {d} /\ Amount(session, part) <= Amount(active[c], part) + 1
        <5>1. CASE part = "reviewed"
          <6>1. Reviews(part) = FieldReviewed
            BY <5>1 DEF Reviews
          <6> QED BY <1>2, <2>1, <3>3, <5>1, <6>1
        <5>2. CASE part = "overridden" /\ command.action = "edit"
          <6>1. Reviews(part) = {d \in FieldReviewed : d.action = "edit"}
            BY <5>2 DEF Reviews
          <6>2. E \cap Reviews(part) = {e}
            BY <3>2, <3>3, <5>2, <6>1
          <6> QED BY <1>2, <2>1, <5>2, <6>2
        <5>3. CASE part = "overridden" /\ command.action # "edit"
          <6>1. Reviews(part) = {d \in FieldReviewed : d.action = "edit"}
            BY <5>3 DEF Reviews
          <6>2. E \cap Reviews(part) = {}
            BY <3>2, <3>3, <5>3, <6>1
          <6>3. Amount(session, part) <= Amount(active[c], part) + 0
            BY <1>2, <2>1, <5>3
          <6>4. Amount(active[c], part) \in Nat
            BY <1>3, AmountIsNat
          <6> QED BY <6>2, <6>3, <6>4
        <5> QED BY <5>1, <5>2, <5>3 DEF Parts
      <4> HIDE DEF e
      <4> QED BY <1>1, <1>2, <1>3, <1>4, <3>3, <4>1, <4>2, BalanceOpen
    <3> QED BY <1>1, <1>4, <3>4, <3>5, EndedWellKept
  <2>2. CASE request'[r] = None /\ command.op = "ready"
    <3>1. EndedEvents(r) = Finish(c, TRUE) \cup {QualifiedOf(c)}
      BY <1>1, <2>2, EndingIs DEF EndedEvents
    <3>2. Finish(c, TRUE) \subseteq Completed /\ QualifiedOf(c) \in Qualified
      BY <1>1, <1>3, FinishIs, EventsTyped
    <3>3. /\ E \cap FieldReviewed = {} /\ E \cap Completed = Finish(c, TRUE)
          /\ E \cap Qualified = {QualifiedOf(c)}
      BY <1>6, <3>1, <3>2, KindsApart
    <3>4. \/ Finish(c, TRUE) = {}
          \/ \E e \in Completed :
                /\ Finish(c, TRUE) = {e} /\ e.ready
                /\ \A part \in Parts : e[part] = Amount(active[c], part)
      BY <1>1, <1>3, FinishIs
    <3>5. \/ E \cap EndedReady = {}
          \/ (\E e : E \cap EndedReady = {e}) /\ (\E e : E \cap Qualified = {e})
      BY <3>3, <3>4 DEF EndedReady
    <3>6. ASSUME NEW part \in Parts
          PROVE  Balanced(Tell(told, E), active', part)
      <4>1. Balanced(told, active, part)
        BY DEF Adding
      <4>2. active' = [active EXCEPT ![c] = None]
        BY <1>2, <2>2
      <4>3. E \cap Reviews(part) = {}
        BY <1>7, <3>3
      <4>4. \/ E \cap Completed = {}
            \/ \E e : E \cap Completed = {e} /\ e[part] = Amount(active[c], part)
        BY <3>3, <3>4
      <4> QED BY <1>1, <1>3, <1>4, <4>1, <4>2, <4>3, <4>4, BalanceFinish
    <3> QED BY <1>1, <1>4, <3>5, <3>6, EndedWellKept
  <2>3. CASE request'[r] # None \/ command.op \notin {"review", "ready"}
    <3>1. EndedEvents(r) = {}
      BY <1>1, <2>3, EndingIs DEF EndedEvents
    <3>2. E \cap FieldReviewed = {} /\ E \cap Completed = {}
      BY <1>6, <3>1
    <3>3. E \cap EndedReady = {}
      BY <1>7, <3>2
    <3>4. ASSUME NEW part \in Parts
          PROVE  Balanced(Tell(told, E), active', part)
      <4>1. Balanced(told, active, part)
        BY DEF Adding
      <4>2. E \cap Reviews(part) = {} /\ Amount(session, part) <= Amount(active[c], part)
        <5>1. session = active[c]
          BY <1>2, <2>3
        <5>2. Amount(session, part) \in Nat
          BY AmountIsNat
        <5> QED BY <1>7, <3>2, <5>1, <5>2
      <4> QED BY <1>1, <1>2, <1>3, <1>4, <3>2, <4>1, <4>2, BalanceOpen
    <3> QED BY <1>1, <1>4, <3>3, <3>4, EndedWellKept
  <2> QED BY <2>1, <2>2, <2>3
<1> QED BY <1>1, <1>8, <1>9 DEF Adding

LEMMA AddingRests ==
    ASSUME MeasuresTyped, Adding, UNCHANGED <<active, told>>, beacons' \in 0..MaxBeacons
    PROVE  Adding' /\ MeasuresTyped'
<1>1. active' = active /\ told' = told
  OBVIOUS
<1>2. MeasuresTyped'
  BY <1>1 DEF MeasuresTyped
<1>3. /\ IsFiniteSet(Entries(told')) /\ EndedWell(told')
      /\ \A part \in Parts : Balanced(told', active', part)
  BY <1>1 DEF Adding
<1> QED BY <1>2, <1>3 DEF Adding

LEMMA BeaconCounts ==
    ASSUME MeasuresTyped, Beacon
    PROVE  beacons' \in 0..MaxBeacons
BY MetricsAssumption DEF MeasuresTyped, Beacon

LEMMA AddingReview ==
    ASSUME MeasuresTyped, Adding, NEW c \in Candidates, getReview(c)
    PROVE  Adding' /\ MeasuresTyped'
<1>1. active \in [Candidates -> Session \cup {None}] /\ active[c] \in Session \cup {None}
  BY DEF MeasuresTyped
<1>2. Fresh \in Session
  BY DEF Fresh, Session
<1>3. PICK session \in Session \cup {None} : session = IF active[c] = None THEN Fresh ELSE active[c]
  BY <1>1, <1>2
<1>4. active' = Replaced(active, c, session) /\ told' = told
  BY <1>1, <1>3 DEF getReview, startSession, Replaced
<1>5. active' \in [Candidates -> Session \cup {None}]
  BY <1>1, <1>4 DEF Replaced
<1>6. beacons' \in 0..MaxBeacons
  BY BeaconCounts DEF getReview
<1>7. \A part : Amount(session, part) = Amount(active[c], part)
  <2>1. Fresh # None /\ Fresh.accepted = 0 /\ Fresh.rejected = 0 /\ Fresh.corrected = 0
    BY <1>2, MetricsAssumption DEF Fresh
  <2> QED BY <1>3, <2>1 DEF Amount
<1>8. ASSUME NEW part \in Parts
      PROVE  Balanced(told, active', part)
  <2>1. Balanced(told, active, part)
    BY DEF Adding
  <2>2. IsFiniteSet(Open(active, part))
    BY <2>1 DEF Balanced
  <2>3. /\ IsFiniteSet(Open(active', part))
        /\ Cardinality(Open(active, part)) \in Nat /\ Cardinality(Open(active', part)) \in Nat
        /\ Cardinality(Open(active', part)) + Amount(active[c], part)
             = Cardinality(Open(active, part)) + Amount(session, part)
    BY <1>1, <1>4, <2>2, OpenChanges
  <2>4. Amount(active[c], part) \in Nat
    BY <1>1, AmountIsNat
  <2>5. Cardinality(Open(active', part)) = Cardinality(Open(active, part))
    BY <1>7, <2>3, <2>4
  <2> QED BY <2>1, <2>3, <2>5 DEF Balanced
<1>9. MeasuresTyped'
  BY <1>4, <1>5, <1>6 DEF MeasuresTyped
<1>10. \A part \in Parts : Balanced(told', active', part)
  BY <1>4, <1>8
<1>11. IsFiniteSet(Entries(told')) /\ EndedWell(told')
  BY <1>4 DEF Adding
<1> QED BY <1>9, <1>10, <1>11 DEF Adding

LEMMA AddingAbandon ==
    ASSUME MeasuresTyped, Adding, NEW c \in Candidates, abandon(c)
    PROVE  Adding' /\ MeasuresTyped'
<1> DEFINE E == Finish(c, FALSE)
<1>1. active \in [Candidates -> Session \cup {None}] /\ active[c] \in Session \cup {None}
  BY DEF MeasuresTyped
<1>2. told' = Tell(told, E) /\ active' = [active EXCEPT ![c] = None]
  BY DEF abandon, Closed
<1>3. /\ E = {} \/ \E e \in Completed :
                      /\ E = {e} /\ e.ready = FALSE
                      /\ \A part \in Parts : e[part] = Amount(active[c], part)
      /\ IsFiniteSet(E) /\ E \subseteq Completed
  BY <1>1, FinishIs
<1> HIDE DEF E
<1>4. IsLog(told) /\ IsFiniteSet(Entries(told)) /\ EndedWell(told)
  BY ToldIsLog DEF Adding
<1>5. E \cap FieldReviewed = {} /\ E \cap EndedReady = {}
  BY <1>3, KindsApart DEF EndedReady
<1>6. beacons' \in 0..MaxBeacons
  BY BeaconCounts DEF abandon
<1>7. MeasuresTyped'
  <2>1. E \subseteq Event
    BY <1>3 DEF Event
  <2>2. active' \in [Candidates -> Session \cup {None}]
    BY <1>1, <1>2
  <2>3. DOMAIN told' \subseteq Event /\ \A e \in DOMAIN told' : told'[e] \in Nat \ {0}
    BY <1>2, <2>1, LogTyped
  <2> QED BY <1>6, <2>2, <2>3 DEF MeasuresTyped
<1>8. ASSUME NEW part \in Parts
      PROVE  Balanced(Tell(told, E), active', part)
  <2>1. Balanced(told, active, part)
    BY DEF Adding
  <2>2. E \cap Reviews(part) = {}
    BY <1>5 DEF Reviews
  <2>3. E \cap Completed = {} \/ \E e : E \cap Completed = {e} /\ e[part] = Amount(active[c], part)
    BY <1>3
  <2> QED BY <1>1, <1>2, <1>3, <1>4, <2>1, <2>2, <2>3, BalanceFinish
<1>9. IsFiniteSet(Entries(Tell(told, E))) /\ EndedWell(Tell(told, E))
  BY <1>3, <1>4, <1>5, EndedWellKept
<1> QED BY <1>2, <1>7, <1>8, <1>9 DEF Adding

LEMMA AddingRestart ==
    ASSUME MeasuresTyped, Adding, Restart
    PROVE  Adding' /\ MeasuresTyped'
<1>1. /\ active' = [c \in Candidates |-> None] /\ told' = told /\ beacons' = beacons
  BY DEF Restart
<1>2. MeasuresTyped'
  BY <1>1 DEF MeasuresTyped
<1>3. ASSUME NEW part \in Parts
      PROVE  Balanced(told, active', part)
  <2>1. IsFiniteSet(Open(active, part)) /\ Balanced(told, active, part)
    BY DEF Adding, Balanced
  <2>2. Open(active', part) = {}
    BY <1>1 DEF Open, Amount
  <2>3. IsFiniteSet(Open(active', part)) /\ Cardinality(Open(active', part)) = 0
    BY <2>2, FS_EmptySet
  <2>4. Cardinality(Open(active, part)) \in Nat
    BY <2>1, FS_CardinalityType
  <2>5. IsFiniteSet(Reported(Of(told, Completed), part))
    BY <2>1 DEF Balanced
  <2>6. Cardinality(Reported(Of(told, Completed), part)) \in Nat
    BY <2>5, FS_CardinalityType
  <2>7. IsFiniteSet(Of(told, Reviews(part)))
    <3>1. IsFiniteSet(Entries(told)) /\ Of(told, Reviews(part)) \in SUBSET Entries(told)
      BY DEF Adding, Of
    <3> QED BY <3>1, FS_Subset
  <2>8. Cardinality(Of(told, Reviews(part))) \in Nat
    BY <2>7, FS_CardinalityType
  <2> QED BY <2>1, <2>3, <2>4, <2>6, <2>8 DEF Balanced
<1>4. Adding'
  BY <1>1, <1>3 DEF Adding
<1> QED BY <1>2, <1>4

(* What becomes of a request in flight when its awaited call returns. *)
Moved(q, new) ==
    /\ new.candidate = q.candidate /\ new.command = q.command
    /\ new.at \in {"seed", "readSet", "saveSet"}
    /\ new.todo # {} => q.command.op \in {"review", "ready"}

(* What it has read by then. *)
Reads(r, new) ==
    /\ new.at = "seed" => SaveCandidate(r)
    /\ new.at = "saveSet" =>
          ReadSet(r) /\ sets[new.candidate] # None /\ new.set = sets[new.candidate]

LEMMA ReturnsMove ==
    ASSUME IInv, Working, NEW r \in Slots, Returns(r)
    PROVE  \E new : /\ request' = [request EXCEPT ![r] = new]
                    /\ new # None => Moved(request[r], new) /\ Reads(r, new)
<1> DEFINE q == request[r]
<1>1. q # None /\ q \in Request /\ RequestOK(q)
  BY InFlight DEF Returns, SaveCandidate, Seed, SaveRecord, ReadSet, SaveSet, EvolutionFails, At
<1>2. q.todo # {} => q.command.op \in {"review", "ready"}
  BY <1>1 DEF Working
<1>3. \A record, todo :
         /\ q.command.op \in {"review", "ready"} \/ todo = {}
         /\ Going(q, record, todo) # None
         => Moved(q, Going(q, record, todo)) /\ Reads(r, Going(q, record, todo))
  BY <1>1 DEF Going, Request, Moved, Reads
<1>4. \A record, todo :
         GoOn(r, record, todo) => request' = [request EXCEPT ![r] = Going(q, record, todo)]
  BY DEF GoOn, Going
<1>5. CASE SaveCandidate(r)
  <2>1. request' = [request EXCEPT ![r] = [q EXCEPT !.at = "seed"]]
    BY <1>5 DEF SaveCandidate
  <2>2. Moved(q, [q EXCEPT !.at = "seed"]) /\ Reads(r, [q EXCEPT !.at = "seed"])
    BY <1>1, <1>2, <1>5 DEF Request, Moved, Reads
  <2> QED BY <2>1, <2>2
<1>6. CASE Seed(r)
  BY <1>6 DEF Seed, Done
<1>7. CASE SaveRecord(r)
  <2>1. q.command \in RecordCommand
    BY <1>1, <1>7 DEF SaveRecord, At, RequestOK
  <2>2. GoOn(r, Updated(q.record, q.command), Evolving(q.record, q.command))
    BY <1>7 DEF SaveRecord
  <2>3. q.command.op = "workspace" => Evolving(q.record, q.command) = {}
    BY DEF Evolving
  <2>4. q.command.op \in {"review", "ready"} \/ Evolving(q.record, q.command) = {}
    BY <2>1, <2>3, CommandOps
  <2> QED BY <1>3, <1>4, <2>2, <2>4
<1>8. CASE ReadSet(r)
  <2>1. q.at = "readSet" /\ q.todo # {}
    BY <1>1, <1>8 DEF ReadSet, At, RequestOK
  <2>2. CASE sets[q.candidate] = None
    <3>1. GoOn(r, q.record, Others(q.todo))
      BY <1>8, <2>2 DEF ReadSet
    <3> QED BY <1>2, <1>3, <1>4, <2>1, <3>1
  <2>3. CASE sets[q.candidate] # None
    <3>1. request' = [request EXCEPT ![r] = [q EXCEPT !.at = "saveSet", !.set = sets[q.candidate]]]
      BY <1>1, <1>8, <2>3 DEF ReadSet, IInv, TypeOK, Request
    <3>2. PICK new : new = [q EXCEPT !.at = "saveSet", !.set = sets[q.candidate]]
      OBVIOUS
    <3>3. /\ new.at = "saveSet" /\ new.set = sets[q.candidate] /\ new.candidate = q.candidate
          /\ new.command = q.command /\ new.todo = q.todo
      BY <1>1, <3>2 DEF Request
    <3>4. Moved(q, new) /\ Reads(r, new)
      BY <1>2, <1>8, <2>3, <3>3 DEF Moved, Reads
    <3> QED BY <3>1, <3>2, <3>4
  <2> QED BY <2>2, <2>3
<1>9. CASE SaveSet(r)
  <2>1. CASE q.todo = {}
    BY <1>9, <2>1 DEF SaveSet, Done
  <2>2. CASE q.todo # {}
    <3>1. GoOn(r, q.record, Others(q.todo))
      BY <1>9, <2>2 DEF SaveSet
    <3> QED BY <1>2, <1>3, <1>4, <2>2, <3>1
  <2> QED BY <2>1, <2>2
<1>10. CASE EvolutionFails(r)
  <2>1. q.todo # {} /\ GoOn(r, q.record, Others(q.todo))
    BY <1>10 DEF EvolutionFails
  <2> QED BY <1>2, <1>3, <1>4, <2>1
<1> QED BY <1>5, <1>6, <1>7, <1>8, <1>9, <1>10 DEF Returns

LEMMA WorkingKept ==
    ASSUME IInv, Working, [MeasuredNext]_allVars
    PROVE  Working'
<1>1. CASE UNCHANGED allVars
  BY <1>1 DEF Working, allVars, vars
<1>2. CASE \E c \in Candidates : getReview(c) \/ abandon(c)
  BY <1>2 DEF Working, getReview, abandon, Beacon, vars
<1>3. CASE Restart
  BY <1>3 DEF Working, Restart
<1>4. ASSUME NEW r \in Slots, Arrival(r)
      PROVE  Working'
  <2>1. PICK q : q.todo = {} /\ request' = [request EXCEPT ![r] = q]
    BY <1>4 DEF Arrival, Import, ReadRecord, FindSet, Arrive
  <2> QED BY <2>1 DEF Working, IInv, TypeOK
<1>5. ASSUME NEW r \in Slots, Abort(r)
      PROVE  Working'
  <2>1. request' = [request EXCEPT ![r] = None]
    BY <1>5 DEF Abort, Done
  <2> QED BY <2>1 DEF Working, IInv, TypeOK
<1>6. ASSUME NEW r \in Slots, Returns(r)
      PROVE  Working'
  <2>1. PICK new : /\ request' = [request EXCEPT ![r] = new]
                   /\ new # None => Moved(request[r], new)
    <3>1. Returns(r)
      BY <1>6
    <3> QED BY <3>1, ReturnsMove
  <2> QED BY <2>1 DEF Working, Moved, IInv, TypeOK
<1> QED BY <1>1, <1>2, <1>3, <1>4, <1>5, <1>6 DEF MeasuredNext, Proceed

LEMMA AddingKept ==
    ASSUME IInv, Working, MeasuresTyped, Adding, [MeasuredNext]_allVars
    PROVE  Adding' /\ MeasuresTyped'
<1>1. beacons \in 0..MaxBeacons
  BY DEF MeasuresTyped
<1>2. CASE UNCHANGED measures
  BY <1>1, <1>2, AddingRests DEF measures
<1>3. ASSUME NEW r \in Slots, Proceed(r)
      PROVE  Adding' /\ MeasuresTyped'
  BY <1>3, AddingProceeds
<1>4. ASSUME NEW c \in Candidates, getReview(c) \/ abandon(c)
      PROVE  Adding' /\ MeasuresTyped'
  BY <1>4, AddingReview, AddingAbandon
<1>5. CASE Restart
  BY <1>5, AddingRestart
<1> QED BY <1>2, <1>3, <1>4, <1>5 DEF MeasuredNext, allVars

LEMMA NothingTold ==
    ASSUME told = << >>
    PROVE  /\ Entries(told) = {} /\ \A S : Of(told, S) = {}
           /\ IsFiniteSet({}) /\ Cardinality({}) = 0
<1>1. DOMAIN told = {}
  OBVIOUS
<1>2. Entries(told) = {}
  BY <1>1 DEF Entries
<1> QED BY <1>2, FS_EmptySet DEF Of

LEMMA AddingInit ==
    ASSUME MeasuresInit
    PROVE  MeasuresTyped /\ Adding
<1>1. /\ told = << >> /\ active = [c \in Candidates |-> None] /\ beacons = 0
  BY DEF MeasuresInit
<1>2. MeasuresTyped
  BY <1>1, MetricsAssumption DEF MeasuresTyped
<1>3. ASSUME NEW part \in Parts
      PROVE  Balanced(told, active, part)
  <2>1. Open(active, part) = {}
    BY <1>1 DEF Open, Amount
  <2>2. Reported(Of(told, Completed), part) = {}
    BY <1>1, NothingTold DEF Reported
  <2>3. Of(told, Reviews(part)) = {}
    BY <1>1, NothingTold
  <2>4. IsFiniteSet({}) /\ Cardinality({}) = 0
    BY FS_EmptySet
  <2> QED BY <2>1, <2>2, <2>3, <2>4 DEF Balanced
<1>4. EndedWell(told) /\ IsFiniteSet(Entries(told))
  <2>1. Of(told, EndedReady) = {} /\ Of(told, Qualified) = {} /\ Entries(told) = {}
    BY <1>1, NothingTold
  <2>2. IsFiniteSet({}) /\ Cardinality({}) = 0
    BY FS_EmptySet
  <2> QED BY <2>1, <2>2 DEF EndedWell
<1> QED BY <1>2, <1>3, <1>4 DEF Adding

(* What the dashboard shows of it. *)
LEMMA AddingShown ==
    ASSUME MeasuresTyped, Adding
    PROVE  DashboardAddsUp
<1>1. Told(Completed) = Of(told, Completed)
  BY DEF Told, Of
<1>2. ASSUME NEW part \in Parts
      PROVE  Cardinality(Reported(Of(told, Completed), part)) <= Cardinality(Of(told, Reviews(part)))
  <2>1. Balanced(told, active, part)
    BY DEF Adding
  <2>2. IsFiniteSet(Open(active, part)) /\ IsFiniteSet(Reported(Of(told, Completed), part))
    BY <2>1 DEF Balanced
  <2>3. /\ Cardinality(Open(active, part)) \in Nat
        /\ Cardinality(Reported(Of(told, Completed), part)) \in Nat
    BY <2>2, FS_CardinalityType
  <2>4. IsFiniteSet(Of(told, Reviews(part)))
    <3>1. IsFiniteSet(Entries(told)) /\ Of(told, Reviews(part)) \in SUBSET Entries(told)
      BY DEF Adding, Of
    <3> QED BY <3>1, FS_Subset
  <2>5. Cardinality(Of(told, Reviews(part))) \in Nat
    BY <2>4, FS_CardinalityType
  <2> QED BY <2>1, <2>3, <2>5 DEF Balanced
<1>3. \A e \in FieldReviewed : e.field \in Fields /\ e.action \in Actions
  BY DEF FieldReviewed
<1>4. Told(FieldReviewed) = Of(told, FieldReviewed)
  BY DEF Told, Of
<1>5. UNION {FieldReviewStats[f].overridden : f \in Fields} = Of(told, Reviews("overridden"))
  <2>1. \A f \in Fields : FieldReviewStats[f].overridden =
            {p \in Of(told, FieldReviewed) : p[1].field = f /\ p[1].action \in {"edit"}}
    BY <1>4 DEF FieldReviewStats
  <2>2. \A p : p \in Of(told, Reviews("overridden")) <=>
                  p \in Of(told, FieldReviewed) /\ p[1].action = "edit"
    BY DEF Of, Reviews
  <2>3. \A p \in Of(told, FieldReviewed) : p[1] \in FieldReviewed
    BY DEF Of
  <2> HIDE DEF FieldReviewStats
  <2> QED BY <1>3, <2>1, <2>2, <2>3
<1>6. UNION {FieldReviewStats[f].reviewed : f \in Fields} = Of(told, Reviews("reviewed"))
  <2>1. \A f \in Fields : FieldReviewStats[f].reviewed =
            {p \in Of(told, FieldReviewed) : p[1].field = f /\ p[1].action \in Actions}
    BY <1>4 DEF FieldReviewStats
  <2>2. Of(told, Reviews("reviewed")) = Of(told, FieldReviewed)
    BY DEF Reviews
  <2>3. \A p \in Of(told, FieldReviewed) : p[1] \in FieldReviewed
    BY DEF Of
  <2> QED BY <1>3, <2>1, <2>2, <2>3
<1>7. UNION {QualifiedCreated(c) : c \in Candidates} = Of(told, Qualified)
  <2>1. \A e \in Qualified : e.candidate \in Candidates
    BY DEF Qualified
  <2>2. \A p \in Of(told, Qualified) : p[1] \in Qualified
    BY DEF Of
  <2>3. \A c \in Candidates : QualifiedCreated(c) = {p \in Of(told, Qualified) : p[1].candidate = c}
    BY DEF QualifiedCreated, Told, Of
  <2> QED BY <2>1, <2>2, <2>3
<1>8. SessionKpis.ready = Of(told, EndedReady)
  BY DEF SessionKpis, Told, Of, EndedReady
<1>9. /\ SessionKpis.corrections = Reported(Of(told, Completed), "overridden")
      /\ SessionKpis.sessions = Of(told, Completed)
  BY <1>1 DEF SessionKpis
<1>10. Cardinality(Of(told, EndedReady)) <= Cardinality(Of(told, Qualified))
  BY DEF Adding, EndedWell
<1>11. "overridden" \in Parts /\ "reviewed" \in Parts
  BY DEF Parts
<1>12. Cardinality(SessionKpis.corrections)
          <= Cardinality(UNION {FieldReviewStats[f].overridden : f \in Fields})
  BY <1>2, <1>5, <1>9, <1>11
<1>13. Cardinality(Reported(SessionKpis.sessions, "reviewed"))
          <= Cardinality(UNION {FieldReviewStats[f].reviewed : f \in Fields})
  BY <1>2, <1>6, <1>9, <1>11
<1>14. Cardinality(SessionKpis.ready) <= Cardinality(UNION {QualifiedCreated(c) : c \in Candidates})
  BY <1>7, <1>8, <1>10
<1> QED BY <1>12, <1>13, <1>14 DEF DashboardAddsUp

-----------------------------------------------------------------------------
(* A candidate is qualified once: a request that is going to qualify it    *)
(* found it not ready, was alone, and has made it ready before it tells.   *)

Qualifications(log, c) == Of(log, {QualifiedOf(c)})

Qualifying(c) ==
    /\ Cardinality(Qualifications(told, c)) <= 1
    /\ Qualifications(told, c) # {} => records[c] # None /\ records[c].ready
    /\ \A r \in Slots :
          request[r] # None /\ request[r].candidate = c /\ request[r].command.op = "ready" =>
              /\ Qualifications(told, c) = {}
              /\ request[r].at # "saveRecord" => records[c].ready

QualifiedWell == \A c \in Candidates \ disturbed : Qualifying(c)

(* The record of c is, or stays, ready. *)
LEMMA ReadyStays ==
    ASSUME IInv, Truth, NEW r \in Slots, Returns(r),
           NEW c, c = request[r].candidate, c \notin disturbed
    PROVE  /\ Alone(r) /\ c \in Candidates
           /\ records' = [records EXCEPT ![c] = records'[c]]
           /\ records[c] # None => records'[c] # None /\ (records[c].ready => records'[c].ready)
           /\ LET q == request[r] IN
              q.command.op = "ready" /\ (q.at # "saveRecord" => records[c].ready) =>
                  records'[c] # None /\ records'[c].ready
<1> DEFINE q == request[r]
<1>1. q # None
  BY DEF Returns, SaveCandidate, Seed, SaveRecord, ReadSet, SaveSet, EvolutionFails, At
<1>2. /\ q \in Request /\ RequestOK(q) /\ c \in Candidates
      /\ q.at # "saveCandidate" => records[c] # None
  BY <1>1, InFlight
<1>3. Steady(q, records[c], sets[c]) /\ Alone(r)
  BY <1>1 DEF Truth, RequestsSteady
<1>4. records \in [Candidates -> Record \cup {None}]
  BY DEF IInv, TypeOK
<1>5. CASE SaveCandidate(r)
  <2>1. records[c] = None /\ q.at = "saveCandidate" /\ q.command \in ImportCommand
    BY <1>2, <1>5 DEF SaveCandidate, At, IInv, ImportAlone, RequestOK
  <2>2. q.command.op # "ready"
    BY <2>1, CommandOps
  <2>3. records' = [records EXCEPT ![c] = FromImport(q.command.original)]
    BY <1>5 DEF SaveCandidate
  <2> QED BY <1>2, <1>3, <1>4, <2>1, <2>2, <2>3
<1>6. CASE SaveRecord(r)
  <2>1. q.at = "saveRecord" /\ q.command \in RecordCommand /\ Held(q.record) /\ q.record = records[c]
    BY <1>2, <1>3, <1>6 DEF SaveRecord, At, RequestOK, Steady
  <2> DEFINE new == Updated(q.record, q.command)
  <2>2. records' = [records EXCEPT ![c] = new]
    BY <1>6 DEF SaveRecord
  <2>3. RecordGrows(q.record, new)
    BY <2>1, UpdatedGrows
  <2>4. new # None /\ (q.record.ready => new.ready)
    BY <2>3 DEF RecordGrows
  <2>5. q.command.op = "ready" => new.ready
    <3>1. q.command.op = "ready" => new = MarkReady(q.record)
      BY DEF Updated
    <3>2. MarkReady(q.record).ready
      BY <2>1 DEF MarkReady, Held, Record
    <3> QED BY <3>1, <3>2
  <2> HIDE DEF new
  <2>6. records'[c] = new
    BY <1>2, <1>4, <2>2
  <2> QED BY <1>2, <1>3, <2>1, <2>2, <2>4, <2>5, <2>6
<1>7. CASE Seed(r) \/ ReadSet(r) \/ SaveSet(r) \/ EvolutionFails(r)
  <2>1. records' = records /\ q.at \notin {"saveCandidate", "saveRecord"}
    BY <1>7 DEF Seed, ReadSet, SaveSet, EvolutionFails, Fail, At
  <2> QED BY <1>2, <1>3, <1>4, <2>1
<1> QED BY <1>5, <1>6, <1>7 DEF Returns

(* Nothing is told of other candidates. *)
LEMMA QualifiedTold ==
    ASSUME MeasuresTyped, Adding, NEW events, IsFiniteSet(events),
           told' = Tell(told, events), NEW c
    PROVE  /\ QualifiedOf(c) \notin events => Qualifications(told', c) = Qualifications(told, c)
           /\ QualifiedOf(c) \in events =>
                 Cardinality(Qualifications(told', c)) = Cardinality(Qualifications(told, c)) + 1
<1>1. IsLog(told) /\ IsFiniteSet(Entries(told))
  BY ToldIsLog DEF Adding
<1>2. events \cap {QualifiedOf(c)} = IF QualifiedOf(c) \in events THEN {QualifiedOf(c)} ELSE {}
  OBVIOUS
<1> QED BY <1>1, <1>2, TellCounts DEF Qualifications

LEMMA QualifiedOfOne ==
    ASSUME NEW c, NEW d
    PROVE  QualifiedOf(c) = QualifiedOf(d) => c = d
<1>1. QualifiedOf(c).candidate = c /\ QualifiedOf(d).candidate = d
  BY DEF QualifiedOf
<1> QED BY <1>1

LEMMA QualifiedProceeds ==
    ASSUME IInv, Truth, Working, MeasuresTyped, Adding, QualifiedWell,
           NEW r \in Slots, Proceed(r)
    PROVE  QualifiedWell'
<1> DEFINE q == request[r] c == q.candidate E == StepEvents(r)
<1>1. /\ q # None /\ c \in Candidates /\ q.command \in Command
      /\ told' = Tell(told, E) /\ IsFiniteSet(E)
      /\ SavedEvents(r) \subseteq Revision \cup Signal
  BY ProceedTells
<1>2. Returns(r)
  BY DEF Proceed
<1>3. disturbed \subseteq disturbed'
  BY <1>2 DEF Returns, SaveCandidate, Seed, SaveRecord, ReadSet, SaveSet, EvolutionFails, Fail
<1>4. PICK new : request' = [request EXCEPT ![r] = new] /\ (new # None => Moved(q, new))
  BY <1>2, ReturnsMove
<1>5. request'[r] = new /\ \A s \in Slots \ {r} : request'[s] = request[s]
  BY <1>4 DEF IInv, TypeOK
<1>6. \A d \in Candidates : QualifiedOf(d) \in E <=>
          d = c /\ new = None /\ q.command.op = "ready"
  <2> SUFFICES ASSUME NEW d \in Candidates
               PROVE  QualifiedOf(d) \in E <=> d = c /\ new = None /\ q.command.op = "ready"
    OBVIOUS
  <2>1. QualifiedOf(d) \in Qualified
    BY EventsTyped
  <2>2. QualifiedOf(d) \notin SavedEvents(r)
    BY <1>1, <2>1, KindsApart
  <2>3. QualifiedOf(d) \in EndedEvents(r) <=> d = c /\ new = None /\ q.command.op = "ready"
    <3>1. CASE new # None
      BY <1>5, <3>1 DEF EndedEvents
    <3>2. CASE new = None /\ q.command.op = "ready"
      <4>1. EndedEvents(r) = Finish(c, TRUE) \cup {QualifiedOf(c)}
        BY <1>1, <1>5, <3>2, EndingIs DEF EndedEvents
      <4>2. Finish(c, TRUE) \subseteq Completed
        BY <1>1, FinishIs DEF MeasuresTyped
      <4>3. QualifiedOf(d) \notin Finish(c, TRUE)
        BY <2>1, <4>2, KindsApart
      <4> HIDE DEF c
      <4> QED BY <3>2, <4>1, <4>3, QualifiedOfOne DEF c
    <3>3. CASE new = None /\ q.command.op = "review"
      <4>1. /\ q.command.field \in Fields /\ q.command.action \in Actions
            /\ EndedEvents(r) = {ReviewOf(c, q.command.field, q.command.action)}
        BY <1>1, <1>5, <3>3, EndingIs DEF EndedEvents
      <4>2. ReviewOf(c, q.command.field, q.command.action) \in FieldReviewed
        BY <1>1, <4>1, EventsTyped
      <4> QED BY <2>1, <3>3, <4>1, <4>2, KindsApart
    <3>4. CASE new = None /\ q.command.op \notin {"ready", "review"}
      <4>1. EndedEvents(r) = {}
        BY <1>1, <1>5, <3>4, EndingIs DEF EndedEvents
      <4> QED BY <3>4, <4>1
    <3> QED BY <3>1, <3>2, <3>3, <3>4
  <2> QED BY <2>2, <2>3 DEF StepEvents
<1> SUFFICES ASSUME NEW d \in Candidates, d \notin disturbed'
             PROVE  Qualifying(d)'
  BY DEF QualifiedWell
<1>7. Qualifying(d)
  BY <1>3 DEF QualifiedWell
<1>8. CASE d # c
  <2>1. Qualifications(told', d) = Qualifications(told, d)
    BY <1>1, <1>6, <1>8, QualifiedTold
  <2>2. records'[d] = records[d]
    <3>1. records \in [Candidates -> Record \cup {None}]
      BY DEF IInv, TypeOK
    <3> QED BY <1>2, <1>8, <3>1 DEF Returns, SaveCandidate, Seed, SaveRecord, ReadSet, SaveSet, EvolutionFails, Fail
  <2>3. \A s \in Slots : request'[s] # None /\ request'[s].candidate = d => request'[s] = request[s]
    BY <1>4, <1>5, <1>8 DEF Moved
  <2> HIDE DEF c, q, E
  <2> QED BY <1>7, <2>1, <2>2, <2>3 DEF Qualifying
<1>9. CASE d = c
  <2>1. c \notin disturbed
    BY <1>3, <1>9
  <2>2. /\ Alone(r)
        /\ records[c] # None => records'[c] # None /\ (records[c].ready => records'[c].ready)
        /\ q.command.op = "ready" /\ (q.at # "saveRecord" => records[c].ready) =>
              records'[c] # None /\ records'[c].ready
    BY <1>2, <2>1, ReadyStays
  <2>3. \A s \in Slots : request'[s] # None /\ request'[s].candidate = c =>
            s = r /\ request'[s] = new /\ new.command = q.command /\ new.at # "saveRecord"
    BY <1>4, <1>5, <2>2 DEF Alone, Moved
  <2>4. CASE q.command.op = "ready"
    <3>1. Qualifications(told, c) = {} /\ (q.at # "saveRecord" => records[c].ready)
      BY <1>1, <1>7, <1>9, <2>4 DEF Qualifying
    <3>2. records'[c] # None /\ records'[c].ready
      BY <2>2, <2>4, <3>1
    <3>3. CASE new = None
      <4>1. Cardinality(Qualifications(told', c)) = Cardinality(Qualifications(told, c)) + 1
        BY <1>1, <1>6, <2>4, <3>3, QualifiedTold
      <4>2. Cardinality(Qualifications(told', c)) = 1
        BY <3>1, <4>1, FS_EmptySet
      <4>3. \A s \in Slots : request'[s] = None \/ request'[s].candidate # c
        BY <2>3, <3>3
      <4> HIDE DEF c, q, E
      <4> QED BY <1>9, <3>2, <4>2, <4>3 DEF Qualifying
    <3>4. CASE new # None
      <4>1. Qualifications(told', c) = {}
        BY <1>1, <1>6, <3>1, <3>4, QualifiedTold
      <4>2. Cardinality(Qualifications(told', c)) = 0
        BY <4>1, FS_EmptySet
      <4> HIDE DEF c, q, E
      <4> QED BY <1>9, <3>2, <4>1, <4>2 DEF Qualifying
    <3> QED BY <3>3, <3>4
  <2>5. CASE q.command.op # "ready"
    <3>1. Qualifications(told', c) = Qualifications(told, c)
      BY <1>1, <1>6, <2>5, QualifiedTold
    <3>2. \A s \in Slots : request'[s] # None /\ request'[s].candidate = c =>
              request'[s].command.op # "ready"
      BY <2>3, <2>5
    <3> HIDE DEF c, q, E
    <3> QED BY <1>7, <1>9, <2>2, <3>1, <3>2 DEF Qualifying
  <2> QED BY <2>4, <2>5
<1> QED BY <1>8, <1>9

LEMMA QualifiedArrives ==
    ASSUME IInv, QualifiedWell, NEW r \in Slots, Arrival(r), UNCHANGED told
    PROVE  QualifiedWell'
<1>1. PICK c \in Candidates : \/ \E command \in ImportCommand : Import(r, c, command)
                              \/ \E command \in RecordCommand : ReadRecord(r, c, command)
                              \/ \E command \in SetCommand : FindSet(r, c, command)
  BY DEF Arrival
<1>2. PICK command, at, record, set :
         /\ Arrive(r, c, command, at, record, set) /\ UNCHANGED <<records, sets>>
         /\ command.op = "ready" => at = "saveRecord" /\ records[c] # None /\ ~records[c].ready
  <2>1. CASE \E command \in ImportCommand : Import(r, c, command)
    <3>1. PICK command \in ImportCommand : Import(r, c, command)
      BY <2>1
    <3>2. command.op # "ready"
      BY CommandOps
    <3> QED BY <3>1, <3>2 DEF Import
  <2>2. CASE \E command \in RecordCommand : ReadRecord(r, c, command)
    BY <2>2 DEF ReadRecord
  <2>3. CASE \E command \in SetCommand : FindSet(r, c, command)
    <3>1. PICK command \in SetCommand : FindSet(r, c, command)
      BY <2>3
    <3>2. command.op # "ready"
      BY CommandOps
    <3> QED BY <3>1, <3>2 DEF FindSet
  <2> QED BY <1>1, <2>1, <2>2, <2>3
<1>3. PICK q : /\ q.candidate = c /\ q.command = command /\ q.at = at
               /\ request' = [request EXCEPT ![r] = q]
  BY <1>2 DEF Arrive
<1>4. request'[r] = q /\ \A s \in Slots \ {r} : request'[s] = request[s]
  BY <1>3 DEF IInv, TypeOK
<1>5. disturbed \subseteq disturbed' /\ (c \notin disturbed' => ~Busy(c))
  BY <1>2 DEF Arrive
<1> SUFFICES ASSUME NEW d \in Candidates, d \notin disturbed'
             PROVE  Qualifying(d)'
  BY DEF QualifiedWell
<1>6. Qualifying(d)
  BY <1>5 DEF QualifiedWell
<1>7. records' = records
  BY <1>2
<1>8. ASSUME NEW s \in Slots, request'[s] # None, request'[s].candidate = d,
             request'[s].command.op = "ready"
      PROVE  /\ Qualifications(told, d) = {}
             /\ request'[s].at # "saveRecord" => records[d].ready
  <2>1. CASE s = r
    <3>1. d = c /\ command.op = "ready"
      BY <1>3, <1>4, <1>8, <2>1
    <3>2. at = "saveRecord" /\ ~records[c].ready
      BY <1>2, <3>1
    <3> QED BY <1>3, <1>4, <1>6, <2>1, <3>1, <3>2 DEF Qualifying
  <2>2. CASE s # r
    BY <1>4, <1>6, <1>8, <2>2 DEF Qualifying
  <2> QED BY <2>1, <2>2
<1> QED BY <1>6, <1>7, <1>8 DEF Qualifying

LEMMA QualifiedAborts ==
    ASSUME IInv, QualifiedWell, NEW r \in Slots, Abort(r), UNCHANGED told
    PROVE  QualifiedWell'
<1>1. /\ request' = [request EXCEPT ![r] = None] /\ records' = records
      /\ disturbed \subseteq disturbed'
  BY DEF Abort, Done, Fail
<1>2. \A s \in Slots : request'[s] = None \/ request'[s] = request[s]
  BY <1>1 DEF IInv, TypeOK
<1> QED BY <1>1, <1>2 DEF QualifiedWell, Qualifying

LEMMA QualifiedRestarts ==
    ASSUME QualifiedWell, Restart
    PROVE  QualifiedWell'
<1>1. /\ request' = [s \in Slots |-> None] /\ records' = records /\ told' = told
      /\ disturbed \subseteq disturbed'
  BY DEF Restart
<1> QED BY <1>1 DEF QualifiedWell, Qualifying

LEMMA QualifiedBeacons ==
    ASSUME IInv, MeasuresTyped, Adding, QualifiedWell, NEW c \in Candidates, getReview(c) \/ abandon(c)
    PROVE  QualifiedWell'
<1>1. request' = request /\ records' = records /\ disturbed' = disturbed
  BY DEF getReview, abandon, Beacon, vars
<1>2. ASSUME NEW d \in Candidates
      PROVE  Qualifications(told', d) = Qualifications(told, d)
  <2>1. CASE getReview(c)
    BY <2>1 DEF getReview
  <2>2. CASE abandon(c)
    <3>1. told' = Tell(told, Finish(c, FALSE))
      BY <2>2 DEF abandon
    <3>2. IsFiniteSet(Finish(c, FALSE)) /\ Finish(c, FALSE) \subseteq Completed
      BY FinishIs DEF MeasuresTyped
    <3>3. QualifiedOf(d) \notin Finish(c, FALSE)
      BY <3>2, EventsTyped, KindsApart
    <3> QED BY <3>1, <3>2, <3>3, QualifiedTold
  <2> QED BY <2>1, <2>2
<1> QED BY <1>1, <1>2 DEF QualifiedWell, Qualifying

LEMMA QualifiedKept ==
    ASSUME IInv, Truth, Working, MeasuresTyped, Adding, QualifiedWell, [MeasuredNext]_allVars
    PROVE  QualifiedWell'
<1>1. CASE UNCHANGED allVars
  BY <1>1 DEF QualifiedWell, Qualifying, allVars, vars, measures
<1>2. ASSUME NEW r \in Slots, Arrival(r) \/ Abort(r), UNCHANGED measures
      PROVE  QualifiedWell'
  BY <1>2, QualifiedArrives, QualifiedAborts DEF measures
<1>3. ASSUME NEW r \in Slots, Proceed(r)
      PROVE  QualifiedWell'
  BY <1>3, QualifiedProceeds
<1>4. ASSUME NEW c \in Candidates, getReview(c) \/ abandon(c)
      PROVE  QualifiedWell'
  BY <1>4, QualifiedBeacons
<1>5. CASE Restart
  BY <1>5, QualifiedRestarts
<1> QED BY <1>1, <1>2, <1>3, <1>4, <1>5 DEF MeasuredNext

LEMMA QualifiedInit ==
    ASSUME Init, MeasuresInit
    PROVE  Working /\ QualifiedWell
<1>1. told = << >> /\ request = [r \in Slots |-> None]
  BY DEF Init, MeasuresInit
<1>2. \A c : Qualifications(told, c) = {}
  BY <1>1, NothingTold DEF Qualifications
<1>3. Cardinality({}) = 0
  BY FS_EmptySet
<1>4. \A c : Cardinality(Qualifications(told, c)) <= 1
  BY <1>2, <1>3
<1> QED BY <1>1, <1>2, <1>4 DEF Working, QualifiedWell, Qualifying

LEMMA QualifiedShown ==
    ASSUME QualifiedWell
    PROVE  QualifiedOnce
<1> SUFFICES ASSUME NEW c \in Candidates, c \notin disturbed
             PROVE  /\ Cardinality(QualifiedCreated(c)) <= 1
                    /\ QualifiedCreated(c) # {} => records[c].ready
  BY DEF QualifiedOnce
<1>1. QualifiedCreated(c) = Qualifications(told, c)
  <2>1. \A e : e \in Qualified /\ e.candidate = c <=> e = QualifiedOf(c)
    BY DEF Qualified, QualifiedOf
  <2> QED BY <2>1 DEF QualifiedCreated, Told, Qualifications, Of
<1> QED BY <1>1 DEF QualifiedWell, Qualifying

-----------------------------------------------------------------------------
(* Every revision and every signal in a set was told, also in the sets that *)
(* requests hold, and nothing else was told of an undisturbed candidate.   *)

RevisionsOf(log, c, f) == Of(log, {RevisionOf(c, f)})
SignalsOf(log, c) == Of(log, {SignalOf(c)})

(* The revisions of a set, by field and place. *)
RevisionsIn(set) == UNION {{f} \X DOMAIN set.objects[f].revisions : f \in Fields}

LEMMA RevisionIs ==
    ASSUME NEW set, NEW p
    PROVE  p \in RevisionsIn(set) <=>
              \E f \in Fields : \E n \in DOMAIN set.objects[f].revisions : p = <<f, n>>
BY DEF RevisionsIn

LEMMA ObjectsTyped ==
    ASSUME NEW set \in Set, NEW f \in Fields
    PROVE  /\ set.signals \in Nat /\ set.objects[f] \in Object
           /\ set.objects[f].revisions \in Seq(ObjectRevision)
           /\ Len(set.objects[f].revisions) \in Nat
           /\ DOMAIN set.objects[f].revisions = 1..Len(set.objects[f].revisions)
<1>1. set.signals \in Nat /\ set.objects[f] \in Object
  BY DEF Set
<1>2. set.objects[f].revisions \in Seq(ObjectRevision)
  BY <1>1 DEF Object
<1> QED BY <1>1, <1>2

LEMMA HeldIsNat ==
    ASSUME NEW set \in Set
    PROVE  /\ IsFiniteSet(RevisionsIn(set)) /\ Cardinality(RevisionsIn(set)) \in Nat
           /\ HeldIn(set) = set.signals + Cardinality(RevisionsIn(set))
           /\ HeldIn(set) \in Nat /\ set.signals \in Nat
<1> DEFINE row == [f \in Fields |-> {f} \X DOMAIN set.objects[f].revisions]
           rows == {row[f] : f \in Fields}
<1>1. IsFiniteSet(rows)
  <2>1. row \in Surjection(Fields, rows)
    BY DEF Surjection
  <2>2. IsFiniteSet(Fields)
    BY ViewAssumption
  <2> QED BY <2>1, <2>2, FS_Surjection
<1>2. \A T \in rows : IsFiniteSet(T)
  <2> SUFFICES ASSUME NEW f \in Fields
               PROVE  IsFiniteSet(row[f])
    OBVIOUS
  <2>1. PICK n \in Nat : DOMAIN set.objects[f].revisions = 1..n
    BY ObjectsTyped
  <2>2. IsFiniteSet({f} \X (1..n))
    BY RowCounts
  <2> QED BY <2>1, <2>2
<1>3. RevisionsIn(set) = UNION rows
  BY DEF RevisionsIn
<1>4. IsFiniteSet(RevisionsIn(set))
  BY <1>1, <1>2, <1>3, FS_UNION
<1>5. Cardinality(RevisionsIn(set)) \in Nat
  BY <1>4, FS_CardinalityType
<1>6. set.signals \in Nat
  BY DEF Set
<1>7. HeldIn(set) = set.signals + Cardinality(RevisionsIn(set))
  BY DEF HeldIn, RevisionsIn
<1> QED BY <1>4, <1>5, <1>6, <1>7

(* A revision of a field adds one to what a set holds. *)
RevisedBy(set, field, new) ==
    /\ HeldIn(new) = HeldIn(set) + 1
    /\ \A f \in Fields : Len(new.objects[f].revisions) =
          Len(set.objects[f].revisions) + (IF f = field THEN 1 ELSE 0)

LEMMA RevisedHolds ==
    ASSUME NEW set \in Set, NEW field \in Fields, NEW value \in Values,
           NEW new, new = ReviseObject(set, field, value), new \in Set
    PROVE  RevisedBy(set, field, new)
<1>1. \A f \in Fields : new.objects[f] =
          IF f = field THEN ApplyRevision(set.objects[field], value) ELSE set.objects[f]
  BY ReviseIs
<1>2. new.signals = set.signals
  BY DEF ReviseObject, Set
<1> DEFINE n == Len(set.objects[field].revisions)
<1>3. n \in Nat /\ Len(ApplyRevision(set.objects[field], value).revisions) = n + 1
  BY ObjectsTyped, CorrectionsCount
<1>4. \A f \in Fields : Len(new.objects[f].revisions) =
          Len(set.objects[f].revisions) + (IF f = field THEN 1 ELSE 0)
  <2> SUFFICES ASSUME NEW f \in Fields
               PROVE  Len(new.objects[f].revisions) =
                         Len(set.objects[f].revisions) + (IF f = field THEN 1 ELSE 0)
    OBVIOUS
  <2>1. Len(set.objects[f].revisions) \in Nat
    BY ObjectsTyped
  <2>2. CASE f = field
    BY <1>1, <1>3, <2>2
  <2>3. CASE f # field
    <3>1. new.objects[f] = set.objects[f]
      BY <1>1, <2>3
    <3> QED BY <2>1, <2>3, <3>1
  <2> QED BY <2>2, <2>3
<1> HIDE DEF n
<1>5. \A f \in Fields : /\ DOMAIN new.objects[f].revisions =
                              IF f = field THEN 1..(n + 1) ELSE DOMAIN set.objects[f].revisions
                        /\ DOMAIN set.objects[field].revisions = 1..n
  BY <1>1, <1>3, <1>4, ObjectsTyped DEF n
<1>6. RevisionsIn(new) = RevisionsIn(set) \cup {<<field, n + 1>>}
  <2>1. ASSUME NEW p \in RevisionsIn(new)
        PROVE  p \in RevisionsIn(set) \/ p = <<field, n + 1>>
    <3>1. PICK f \in Fields : \E m \in DOMAIN new.objects[f].revisions : p = <<f, m>>
      BY RevisionIs
    <3>2. PICK m \in DOMAIN new.objects[f].revisions : p = <<f, m>>
      BY <3>1
    <3>3. m \in DOMAIN set.objects[f].revisions \/ (f = field /\ m = n + 1)
      BY <1>3, <1>5
    <3> QED BY <3>2, <3>3, RevisionIs
  <2>2. ASSUME NEW p \in RevisionsIn(set)
        PROVE  p \in RevisionsIn(new)
    <3>1. PICK f \in Fields : \E m \in DOMAIN set.objects[f].revisions : p = <<f, m>>
      BY RevisionIs
    <3>2. PICK m \in DOMAIN set.objects[f].revisions : p = <<f, m>>
      BY <3>1
    <3>3. m \in DOMAIN new.objects[f].revisions
      BY <1>3, <1>5
    <3> QED BY <3>2, <3>3, RevisionIs
  <2>3. <<field, n + 1>> \in RevisionsIn(new)
    <3>1. n + 1 \in DOMAIN new.objects[field].revisions
      BY <1>3, <1>5
    <3> QED BY <3>1, RevisionIs
  <2> QED BY <2>1, <2>2, <2>3
<1>7. <<field, n + 1>> \notin RevisionsIn(set)
  <2> SUFFICES ASSUME <<field, n + 1>> \in RevisionsIn(set)
               PROVE  FALSE
    OBVIOUS
  <2>1. PICK f \in Fields : \E m \in DOMAIN set.objects[f].revisions : <<field, n + 1>> = <<f, m>>
    BY RevisionIs
  <2>2. n + 1 \in DOMAIN set.objects[field].revisions
    BY <2>1
  <2> QED BY <1>3, <1>5, <2>2
<1>8. IsFiniteSet(RevisionsIn(set)) /\ Cardinality(RevisionsIn(set)) \in Nat
  BY HeldIsNat
<1>9. Cardinality(RevisionsIn(new)) = Cardinality(RevisionsIn(set)) + 1
  BY <1>6, <1>7, <1>8, FS_AddElement
<1>10. HeldIn(new) = HeldIn(set) + 1
  BY <1>2, <1>8, <1>9, HeldIsNat
<1> QED BY <1>4, <1>10 DEF RevisedBy

LEMMA EvolvedHolds ==
    ASSUME NEW set \in Set, NEW command \in SetCommand, command.op # "patch",
           NEW new, new = Evolved(set, command), new \in Set
    PROVE  /\ HeldIn(new) = HeldIn(set) + (IF command.op = "evidence" THEN 0 ELSE 1)
           /\ \A f \in Fields : Len(new.objects[f].revisions) = Len(set.objects[f].revisions)
<1>1. \A f \in Fields : new.objects[f].revisions = set.objects[f].revisions
  BY EvolvedTells DEF Tells
<1>2. RevisionsIn(new) = RevisionsIn(set)
  <2>1. \A p : p \in RevisionsIn(new) <=> \E f \in Fields : \E n \in DOMAIN new.objects[f].revisions : p = <<f, n>>
    BY RevisionIs
  <2>2. \A p : p \in RevisionsIn(set) <=> \E f \in Fields : \E n \in DOMAIN set.objects[f].revisions : p = <<f, n>>
    BY RevisionIs
  <2>3. \A p : p \in RevisionsIn(new) <=> p \in RevisionsIn(set)
    BY <1>1, <2>1, <2>2
  <2> QED BY <2>3
<1>3. command.op \in {"evidence", "signal"}
  BY CommandOps
<1>4. new.signals = set.signals + (IF command.op = "evidence" THEN 0 ELSE 1)
  <2>1. set.signals \in Nat
    BY HeldIsNat
  <2>2. CASE command.op = "evidence"
    BY <2>1, <2>2 DEF Evolved, Set
  <2>3. CASE command.op = "signal"
    BY <2>1, <2>3 DEF Evolved
  <2> QED BY <1>3, <2>2, <2>3
<1>5. /\ HeldIn(new) = new.signals + Cardinality(RevisionsIn(new))
      /\ HeldIn(set) = set.signals + Cardinality(RevisionsIn(set))
      /\ Cardinality(RevisionsIn(set)) \in Nat /\ set.signals \in Nat
  BY HeldIsNat
<1>6. HeldIn(new) = HeldIn(set) + (IF command.op = "evidence" THEN 0 ELSE 1)
  BY <1>2, <1>4, <1>5
<1>7. \A f \in Fields : Len(new.objects[f].revisions) = Len(set.objects[f].revisions)
  BY <1>1
<1> QED BY <1>6, <1>7

LEMMA SeededHolds ==
    ASSUME NEW original \in [Fields -> Values], NEW confidence \in Percent,
           NEW set, set = [objects |-> [f \in Fields |-> CreateFromImport(original[f], confidence)],
                           signals |-> 0]
    PROVE  /\ HeldIn(set) = 0
           /\ \A f \in Fields : Len(set.objects[f].revisions) = 0
<1>1. \A f \in Fields : set.objects[f].revisions = << >>
  BY DEF CreateFromImport
<1>2. RevisionsIn(set) = {}
  BY <1>1 DEF RevisionsIn
<1>3. Cardinality(RevisionsIn(set)) = 0
  BY <1>2, FS_EmptySet
<1>4. HeldIn(set) = set.signals + Cardinality(RevisionsIn(set))
  BY DEF HeldIn, RevisionsIn
<1>5. HeldIn(set) = 0
  BY <1>3, <1>4
<1>6. \A f \in Fields : Len(set.objects[f].revisions) = 0
  BY <1>1
<1> QED BY <1>5, <1>6

Covers(log, c, set) ==
    /\ \A f \in Fields : Len(set.objects[f].revisions) <= Cardinality(RevisionsOf(log, c, f))
    /\ HeldIn(set) <= Cardinality(SignalsOf(log, c))

Holding(set) == IF set = None THEN 0 ELSE HeldIn(set)

TrailWell ==
    /\ \A c \in Candidates : sets[c] # None => Covers(told, c, sets[c])
    /\ \A r \in Slots : At(r, "saveSet") => Covers(told, request[r].candidate, request[r].set)
    /\ \A c \in Candidates \ disturbed : Holding(sets[c]) = Cardinality(SignalsOf(told, c))
    /\ \A r \in Slots : At(r, "seed") /\ request[r].candidate \notin disturbed =>
          sets[request[r].candidate] = None

(* How a step adds to the trail of a candidate. *)
LEMMA TrailTells ==
    ASSUME MeasuresTyped, Adding, NEW events, IsFiniteSet(events),
           told' = Tell(told, events), NEW c
    PROVE  /\ Cardinality(SignalsOf(told, c)) \in Nat
           /\ Cardinality(SignalsOf(told', c)) =
                 Cardinality(SignalsOf(told, c)) + (IF SignalOf(c) \in events THEN 1 ELSE 0)
           /\ \A f : /\ Cardinality(RevisionsOf(told, c, f)) \in Nat
                     /\ Cardinality(RevisionsOf(told', c, f)) =
                           Cardinality(RevisionsOf(told, c, f))
                              + (IF RevisionOf(c, f) \in events THEN 1 ELSE 0)
<1>1. IsLog(told) /\ IsFiniteSet(Entries(told))
  BY ToldIsLog DEF Adding
<1>2. ASSUME NEW e
      PROVE  /\ Cardinality(Of(told, {e})) \in Nat
             /\ Cardinality(Of(told', {e})) =
                   Cardinality(Of(told, {e})) + (IF e \in events THEN 1 ELSE 0)
  <2>1. events \cap {e} = IF e \in events THEN {e} ELSE {}
    OBVIOUS
  <2>2. /\ Cardinality(Of(told, {e})) \in Nat
        /\ events \cap {e} = {} => Of(told', {e}) = Of(told, {e})
        /\ events \cap {e} = {e} => Cardinality(Of(told', {e})) = Cardinality(Of(told, {e})) + 1
    BY <1>1, TellCounts
  <2> QED BY <2>1, <2>2
<1> QED BY <1>2 DEF SignalsOf, RevisionsOf

LEMMA CoversStill ==
    ASSUME MeasuresTyped, Adding, NEW events, IsFiniteSet(events),
           told' = Tell(told, events), NEW c, NEW set \in Set, Covers(told, c, set)
    PROVE  Covers(told', c, set)
<1>1. Cardinality(SignalsOf(told, c)) \in Nat /\ HeldIn(set) \in Nat
  BY TrailTells, HeldIsNat
<1>2. HeldIn(set) <= Cardinality(SignalsOf(told', c))
  BY <1>1, TrailTells DEF Covers
<1>3. ASSUME NEW f \in Fields
      PROVE  Len(set.objects[f].revisions) <= Cardinality(RevisionsOf(told', c, f))
  <2>1. Cardinality(RevisionsOf(told, c, f)) \in Nat /\ Len(set.objects[f].revisions) \in Nat
    BY TrailTells, ObjectsTyped
  <2> QED BY <2>1, TrailTells DEF Covers
<1> QED BY <1>2, <1>3 DEF Covers

LEMMA TrailEventsApart ==
    ASSUME NEW c \in Candidates, NEW d \in Candidates
    PROVE  /\ SignalOf(c) = SignalOf(d) => c = d
           /\ \A f : SignalOf(c) # RevisionOf(d, f)
           /\ \A f, g : RevisionOf(c, f) = RevisionOf(d, g) => c = d /\ f = g
<1>1. /\ SignalOf(c).candidate = c /\ SignalOf(d).candidate = d
      /\ SignalOf(c).type = "knowledge_signal_recorded"
  BY DEF SignalOf
<1>2. \A e \in Candidates : \A f : /\ RevisionOf(e, f).candidate = e /\ RevisionOf(e, f).field = f
                               /\ RevisionOf(e, f).type = "knowledge_revision_created"
  BY DEF RevisionOf
<1> QED BY <1>1, <1>2

(* A saved set holds of revisions and signals what it adds to the trail. *)
LEMMA SavedHolds ==
    ASSUME NEW q \in Request, RequestOK(q), q.at = "saveSet",
           q.todo # {} => q.command.op \in {"review", "ready"}
    PROVE  LET c == q.candidate set == SetToSave(q) IN
           /\ set \in Set
           /\ HeldIn(set) = HeldIn(q.set) + (IF SignalOf(c) \in Evolution(q) THEN 1 ELSE 0)
           /\ \A f \in Fields : Len(set.objects[f].revisions) =
                 Len(q.set.objects[f].revisions) + (IF RevisionOf(c, f) \in Evolution(q) THEN 1 ELSE 0)
<1> DEFINE c == q.candidate
<1>1. /\ q.set \in Set /\ SetSound(q.set) /\ q.todo \in SUBSET Fields /\ c \in Candidates
      /\ IF q.todo = {} THEN q.command \in SetCommand ELSE Pending(q.record, q.todo)
  BY RequestFacts DEF RequestOK
<1>2. PICK set \in Set : set = SetToSave(q)
  BY <1>1, SaveGrows
<1>3. ASSUME NEW field \in Fields, NEW value \in Values,
             set = ReviseObject(q.set, field, value),
             Evolution(q) = {RevisionOf(c, field), SignalOf(c)}
      PROVE  /\ HeldIn(set) = HeldIn(q.set) + (IF SignalOf(c) \in Evolution(q) THEN 1 ELSE 0)
             /\ \A f \in Fields : Len(set.objects[f].revisions) =
                   Len(q.set.objects[f].revisions) + (IF RevisionOf(c, f) \in Evolution(q) THEN 1 ELSE 0)
  <2>1. RevisedBy(q.set, field, set)
    <3>1. q.set \in Set
      BY <1>1
    <3> QED BY <1>3, <3>1, RevisedHolds
  <2>2. SignalOf(c) \in Evolution(q)
    BY <1>3
  <2>3. \A f \in Fields : RevisionOf(c, f) \in Evolution(q) <=> f = field
    <3>1. \A f : RevisionOf(c, f) # SignalOf(c) /\ (RevisionOf(c, f) = RevisionOf(c, field) => f = field)
      BY <1>1, TrailEventsApart
    <3> HIDE DEF c
    <3> QED BY <1>3, <3>1
  <2>4. HeldIn(set) = HeldIn(q.set) + (IF SignalOf(c) \in Evolution(q) THEN 1 ELSE 0)
    BY <2>1, <2>2 DEF RevisedBy
  <2>5. \A f \in Fields : Len(set.objects[f].revisions) =
           Len(q.set.objects[f].revisions) + (IF RevisionOf(c, f) \in Evolution(q) THEN 1 ELSE 0)
    BY <2>1, <2>3 DEF RevisedBy
  <2> QED BY <2>4, <2>5
<1>4. CASE q.todo # {}
  <2>1. PICK f0 : f0 = Field(q.todo)
    OBVIOUS
  <2>2. f0 \in q.todo /\ f0 \in Fields
    BY <1>1, <1>4, <2>1 DEF Field
  <2>3. PICK k : k = q.record.fields[f0]
    OBVIOUS
  <2>4. k \in FieldKnowledge /\ FieldSound(k) /\ k.verified
    BY <1>1, <1>4, <2>2, <2>3 DEF Pending, Held, Record, RecordSound
  <2>5. PICK value : value = k.revisions[Len(k.revisions)].value
    OBVIOUS
  <2>6. value \in Values
    BY <2>4, <2>5 DEF FieldSound, FieldKnowledge
  <2>7. set = ReviseObject(q.set, f0, value)
    BY <1>2, <1>4, <2>1, <2>3, <2>5 DEF SetToSave
  <2>8. Evolution(q) = {RevisionOf(c, f0), SignalOf(c)}
    BY <1>4, <2>1, EvolutionIs
  <2> QED BY <1>2, <1>3, <2>2, <2>6, <2>7, <2>8
<1>5. CASE q.todo = {} /\ q.command.op = "patch"
  <2>1. q.command.field \in Fields /\ q.command.value \in Values
    BY <1>1, <1>5, CommandOps
  <2>2. set = ReviseObject(q.set, q.command.field, q.command.value)
    BY <1>2, <1>5 DEF SetToSave, Evolved
  <2>3. Evolution(q) = {RevisionOf(c, q.command.field), SignalOf(c)}
    BY <1>5, EvolutionIs
  <2> QED BY <1>2, <1>3, <2>1, <2>2, <2>3
<1>6. CASE q.todo = {} /\ q.command.op # "patch"
  <2>1. set = Evolved(q.set, q.command)
    BY <1>2, <1>6 DEF SetToSave
  <2>2. /\ HeldIn(set) = HeldIn(q.set) + (IF q.command.op = "evidence" THEN 0 ELSE 1)
        /\ \A f \in Fields : Len(set.objects[f].revisions) = Len(q.set.objects[f].revisions)
    BY <1>1, <1>6, <2>1, EvolvedHolds
  <2>3. Evolution(q) = IF q.command.op = "evidence" THEN {} ELSE {SignalOf(c)}
    BY <1>6, EvolutionIs
  <2>4. \A f : RevisionOf(c, f) # SignalOf(c)
    BY <1>1, TrailEventsApart
  <2>5. /\ SignalOf(c) \in Evolution(q) <=> q.command.op # "evidence"
        /\ \A f : RevisionOf(c, f) \notin Evolution(q)
    BY <2>3, <2>4
  <2>6. \A f \in Fields : Len(q.set.objects[f].revisions) \in Nat
    BY <1>1, ObjectsTyped
  <2>7. HeldIn(set) = HeldIn(q.set) + (IF SignalOf(c) \in Evolution(q) THEN 1 ELSE 0)
    <3>1. HeldIn(q.set) \in Nat
      BY <1>1, HeldIsNat
    <3> QED BY <2>2, <2>5, <3>1
  <2>8. \A f \in Fields : Len(set.objects[f].revisions) =
           Len(q.set.objects[f].revisions) + (IF RevisionOf(c, f) \in Evolution(q) THEN 1 ELSE 0)
    <3> SUFFICES ASSUME NEW f \in Fields
                 PROVE  Len(set.objects[f].revisions) = Len(q.set.objects[f].revisions)
                           + (IF RevisionOf(c, f) \in Evolution(q) THEN 1 ELSE 0)
      OBVIOUS
    <3>1. PICK n \in Nat : n = Len(q.set.objects[f].revisions)
      BY <2>6
    <3>2. Len(set.objects[f].revisions) = n /\ RevisionOf(c, f) \notin Evolution(q)
      BY <2>2, <2>5, <3>1
    <3> QED BY <3>1, <3>2
  <2> QED BY <1>2, <2>7, <2>8
<1> QED BY <1>4, <1>5, <1>6

LEMMA TrailProceeds ==
    ASSUME IInv, Truth, Working, MeasuresTyped, Adding, TrailWell,
           NEW r \in Slots, Proceed(r)
    PROVE  TrailWell'
<1> DEFINE q == request[r] c == q.candidate E == StepEvents(r)
<1>1. /\ q # None /\ q \in Request /\ RequestOK(q) /\ c \in Candidates /\ q.command \in Command
      /\ told' = Tell(told, E) /\ IsFiniteSet(E)
      /\ EndedEvents(r) \subseteq FieldReviewed \cup Completed \cup Qualified
  BY ProceedTells
<1>2. Returns(r)
  BY DEF Proceed
<1>3. disturbed \subseteq disturbed' /\ failures \in Nat
  BY <1>2 DEF Returns, SaveCandidate, Seed, SaveRecord, ReadSet, SaveSet, EvolutionFails, Fail,
              IInv, TypeOK
<1>4. PICK new : /\ request' = [request EXCEPT ![r] = new]
                 /\ new # None => Moved(q, new) /\ Reads(r, new)
  BY <1>2, ReturnsMove
<1>5. request'[r] = new /\ \A s \in Slots \ {r} : request'[s] = request[s]
  BY <1>4 DEF IInv, TypeOK
<1>6. sets \in [Candidates -> Set \cup {None}]
  BY DEF IInv, TypeOK
<1>7. c \notin disturbed => Steady(q, records[c], sets[c]) /\ Alone(r)
  BY <1>1 DEF Truth, RequestsSteady
<1>8. /\ \A d \in Candidates : SignalOf(d) \in E <=> SignalOf(d) \in SavedEvents(r)
      /\ \A d \in Candidates, f \in Fields : RevisionOf(d, f) \in E <=> RevisionOf(d, f) \in SavedEvents(r)
  <2>1. ASSUME NEW e \in Revision \cup Signal
        PROVE  e \notin EndedEvents(r)
    BY <1>1, <2>1, KindsApart
  <2> QED BY <2>1, EventsTyped DEF StepEvents
<1>9. SavedEvents(r) = IF SaveSet(r) THEN Evolution(q) ELSE {}
  <2>1. SaveSet(r) => At(r, "saveSet") /\ failures' = failures
    BY DEF SaveSet
  <2>2. At(r, "saveSet") /\ failures' = failures => SaveSet(r)
    BY <1>2, <1>3 DEF Returns, SaveCandidate, Seed, SaveRecord, ReadSet, EvolutionFails, Fail, At
  <2> QED BY <2>1, <2>2 DEF SavedEvents
<1>10. \A d \in Candidates : SignalOf(d) \in Evolution(q) /\ SaveSet(r) => d = c
  <2> SUFFICES ASSUME NEW d \in Candidates, SignalOf(d) \in Evolution(q), SaveSet(r)
               PROVE  d = c
    OBVIOUS
  <2>1. q.at = "saveSet" /\ (q.todo # {} => q.command.op \in {"review", "ready"})
    BY <1>1 DEF SaveSet, At, Working
  <2>2. SignalOf(d) = SignalOf(c) \/ \E f : SignalOf(d) = RevisionOf(c, f)
    BY <1>1, <2>1, EvolutionIs
  <2> HIDE DEF c
  <2> QED BY <1>1, <2>2, TrailEventsApart
<1>11. ASSUME NEW d \in Candidates, d # c
       PROVE  Cardinality(SignalsOf(told', d)) = Cardinality(SignalsOf(told, d))
  <2>1. SignalOf(d) \notin E
    BY <1>8, <1>9, <1>10, <1>11
  <2> QED BY <1>1, <2>1, TrailTells
<1>12. ~SaveSet(r) => Cardinality(SignalsOf(told', c)) = Cardinality(SignalsOf(told, c))
  <2>1. ~SaveSet(r) => SignalOf(c) \notin E
    BY <1>1, <1>8, <1>9
  <2> HIDE DEF c
  <2> QED BY <1>1, <2>1, TrailTells
<1>13. PICK set : /\ sets' = [sets EXCEPT ![c] = set]
                  /\ set # None => set \in Set /\ Covers(told', c, set)
                  /\ c \notin disturbed' => Holding(set) = Cardinality(SignalsOf(told', c))
                  /\ sets' # sets => ~SaveCandidate(r) /\ ~ReadSet(r)
  <2>1. CASE SaveSet(r)
    <3>1. q.at = "saveSet" /\ (q.todo # {} => q.command.op \in {"review", "ready"})
      BY <1>1, <2>1 DEF SaveSet, At, Working
    <3>2. sets' = [sets EXCEPT ![c] = SetToSave(q)]
      BY <2>1 DEF SaveSet
    <3>3. /\ SetToSave(q) \in Set
          /\ HeldIn(SetToSave(q)) = HeldIn(q.set) + (IF SignalOf(c) \in Evolution(q) THEN 1 ELSE 0)
          /\ \A f \in Fields : Len(SetToSave(q).objects[f].revisions) =
                Len(q.set.objects[f].revisions) + (IF RevisionOf(c, f) \in Evolution(q) THEN 1 ELSE 0)
      BY <1>1, <3>1, SavedHolds
    <3>4. Covers(told, c, q.set) /\ q.set \in Set
      BY <1>1, <3>1 DEF TrailWell, At, RequestOK
    <3>5. /\ Cardinality(SignalsOf(told, c)) \in Nat /\ HeldIn(q.set) \in Nat
          /\ Cardinality(SignalsOf(told', c)) =
                Cardinality(SignalsOf(told, c)) + (IF SignalOf(c) \in Evolution(q) THEN 1 ELSE 0)
      <4>1. SignalOf(c) \in E <=> SignalOf(c) \in Evolution(q)
        BY <1>1, <1>8, <1>9, <2>1
      <4>2. HeldIn(q.set) \in Nat
        BY <3>4, HeldIsNat
      <4> HIDE DEF c
      <4> QED BY <1>1, <4>1, <4>2, TrailTells
    <3>6. HeldIn(SetToSave(q)) <= Cardinality(SignalsOf(told', c))
      BY <3>3, <3>4, <3>5 DEF Covers
    <3>7. ASSUME NEW f \in Fields
          PROVE  Len(SetToSave(q).objects[f].revisions) <= Cardinality(RevisionsOf(told', c, f))
      <4>1. RevisionOf(c, f) \in E <=> RevisionOf(c, f) \in Evolution(q)
        BY <1>1, <1>8, <1>9, <2>1
      <4>2. /\ Cardinality(RevisionsOf(told, c, f)) \in Nat
            /\ Cardinality(RevisionsOf(told', c, f)) =
                  Cardinality(RevisionsOf(told, c, f)) + (IF RevisionOf(c, f) \in E THEN 1 ELSE 0)
        BY <1>1, TrailTells
      <4>3. Len(q.set.objects[f].revisions) <= Cardinality(RevisionsOf(told, c, f))
        BY <3>4 DEF Covers
      <4>4. Len(q.set.objects[f].revisions) \in Nat
        BY <3>4, ObjectsTyped
      <4>5. Len(SetToSave(q).objects[f].revisions) =
                Len(q.set.objects[f].revisions) + (IF RevisionOf(c, f) \in Evolution(q) THEN 1 ELSE 0)
        BY <3>3
      <4>6. PICK n \in Nat : n = Len(q.set.objects[f].revisions)
        BY <4>4
      <4>7. PICK m \in Nat : m = Cardinality(RevisionsOf(told, c, f))
        BY <4>2
      <4> HIDE DEF c, E
      <4>8. CASE RevisionOf(c, f) \in E
        <5>1. /\ Cardinality(RevisionsOf(told', c, f)) = m + 1
              /\ Len(SetToSave(q).objects[f].revisions) = n + 1
          BY <4>1, <4>2, <4>5, <4>6, <4>7, <4>8
        <5> QED BY <4>3, <4>6, <4>7, <5>1
      <4>9. CASE RevisionOf(c, f) \notin E
        <5>1. Cardinality(RevisionsOf(told', c, f)) = m + 0
          BY <4>2, <4>7, <4>9
        <5>2. Len(SetToSave(q).objects[f].revisions) = n + 0
          BY <4>1, <4>5, <4>6, <4>9
        <5> QED BY <4>3, <4>6, <4>7, <5>1, <5>2
      <4> QED BY <4>8, <4>9
    <3>8. Covers(told', c, SetToSave(q))
      BY <3>6, <3>7 DEF Covers
    <3>9. c \notin disturbed' => Holding(SetToSave(q)) = Cardinality(SignalsOf(told', c))
      <4> SUFFICES ASSUME c \notin disturbed'
                   PROVE  Holding(SetToSave(q)) = Cardinality(SignalsOf(told', c))
        OBVIOUS
      <4>1. sets[c] # None /\ q.set = sets[c]
        BY <1>3, <1>7, <3>1 DEF Steady
      <4>2. HeldIn(q.set) = Cardinality(SignalsOf(told, c))
        BY <1>1, <1>3, <4>1 DEF TrailWell, Holding
      <4>3. SetToSave(q) # None
        BY <3>3, KnowledgeAssumption
      <4> QED BY <3>3, <3>5, <4>2, <4>3 DEF Holding
    <3>10. ~SaveCandidate(r) /\ ~ReadSet(r)
      BY <3>1 DEF SaveCandidate, ReadSet, At
    <3> QED BY <3>2, <3>3, <3>8, <3>9, <3>10
  <2>2. CASE Seed(r)
    <3>1. q.at = "seed" /\ q.command \in ImportCommand
      BY <1>1, <2>2 DEF Seed, At, RequestOK
    <3>2. q.command.original \in [Fields -> Values] /\ q.command.confidence \in Percent
      BY <3>1, KnowledgeAssumption DEF ImportCommand
    <3>3. PICK set : set = [objects |-> [f \in Fields |-> CreateFromImport(q.command.original[f], q.command.confidence)],
                            signals |-> 0]
      OBVIOUS
    <3>4. sets' = [sets EXCEPT ![c] = set]
      BY <2>2, <3>3 DEF Seed
    <3>5. set \in Set
      BY <3>2, <3>3, SeedSound
    <3>6. HeldIn(set) = 0 /\ \A f \in Fields : Len(set.objects[f].revisions) = 0
      BY <3>2, <3>3, SeededHolds
    <3>7. /\ Cardinality(SignalsOf(told, c)) \in Nat /\ Cardinality(SignalsOf(told', c)) \in Nat
          /\ \A f \in Fields : Cardinality(RevisionsOf(told', c, f)) \in Nat
      BY <1>1, TrailTells
    <3>8. Covers(told', c, set)
      BY <3>6, <3>7 DEF Covers
    <3>9. c \notin disturbed' => Holding(set) = Cardinality(SignalsOf(told', c))
      <4> SUFFICES ASSUME c \notin disturbed'
                   PROVE  Holding(set) = Cardinality(SignalsOf(told', c))
        OBVIOUS
      <4>1. sets[c] = None
        BY <1>1, <1>3, <3>1 DEF TrailWell, At
      <4>2. Cardinality(SignalsOf(told, c)) = 0
        BY <1>1, <1>3, <4>1 DEF TrailWell, Holding
      <4>3. ~SaveSet(r)
        BY <3>1 DEF SaveSet, At
      <4>4. set # None
        BY <3>5, KnowledgeAssumption
      <4> QED BY <1>12, <3>6, <4>2, <4>3, <4>4 DEF Holding
    <3>10. ~SaveCandidate(r) /\ ~ReadSet(r)
      BY <3>1 DEF SaveCandidate, ReadSet, At
    <3> QED BY <3>4, <3>5, <3>8, <3>9, <3>10
  <2>3. CASE SaveCandidate(r) \/ SaveRecord(r) \/ ReadSet(r) \/ EvolutionFails(r)
    <3>1. sets' = sets
      BY <2>3 DEF SaveCandidate, SaveRecord, ReadSet, EvolutionFails, Fail
    <3>2. ~SaveSet(r)
      <4>1. CASE EvolutionFails(r)
        BY <1>3, <4>1 DEF EvolutionFails, Fail, SaveSet
      <4>2. CASE SaveCandidate(r) \/ SaveRecord(r) \/ ReadSet(r)
        BY <4>2 DEF SaveCandidate, SaveRecord, ReadSet, SaveSet, At
      <4> QED BY <2>3, <4>1, <4>2
    <3>3. PICK set : set = sets[c]
      OBVIOUS
    <3>4. sets' = [sets EXCEPT ![c] = set] /\ set \in Set \cup {None}
      BY <1>1, <1>6, <3>1, <3>3
    <3>5. set # None => Covers(told, c, set)
      BY <1>1, <3>3 DEF TrailWell
    <3>6. set # None => Covers(told', c, set)
      <4> SUFFICES ASSUME set # None
                   PROVE  Covers(told', c, set)
        OBVIOUS
      <4>1. set \in Set /\ Covers(told, c, set)
        BY <3>4, <3>5
      <4> HIDE DEF c, E
      <4> QED BY <1>1, <4>1, CoversStill
    <3>7. c \notin disturbed' => Holding(set) = Cardinality(SignalsOf(told', c))
      BY <1>1, <1>3, <1>12, <3>2, <3>3 DEF TrailWell
    <3> QED BY <3>1, <3>4, <3>6, <3>7
  <2> QED BY <1>2, <2>1, <2>2, <2>3 DEF Returns
<1>14. sets'[c] = set /\ \A d \in Candidates \ {c} : sets'[d] = sets[d]
  BY <1>1, <1>6, <1>13
<1>15. ASSUME NEW d \in Candidates, sets'[d] # None
       PROVE  Covers(told', d, sets'[d])
  <2>1. CASE d = c
    BY <1>13, <1>14, <1>15, <2>1
  <2>2. CASE d # c
    <3>1. sets[d] \in Set /\ Covers(told, d, sets[d]) /\ sets'[d] = sets[d]
      BY <1>6, <1>14, <1>15, <2>2 DEF TrailWell
    <3> HIDE DEF E
    <3> QED BY <1>1, <3>1, CoversStill
  <2> QED BY <2>1, <2>2
<1>16. ASSUME NEW s \in Slots, At(s, "saveSet")'
       PROVE  Covers(told', request'[s].candidate, request'[s].set)
  <2>1. CASE s # r
    <3>1. request'[s] = request[s] /\ At(s, "saveSet")
      BY <1>5, <1>16, <2>1 DEF At
    <3>2. Covers(told, request[s].candidate, request[s].set)
      BY <3>1 DEF TrailWell
    <3>3. request[s].set \in Set
      BY <3>1 DEF At, IInv, RequestsOK, RequestOK
    <3> HIDE DEF E
    <3> QED BY <1>1, <3>1, <3>2, <3>3, CoversStill
  <2>2. CASE s = r
    <3>1. new # None /\ new.at = "saveSet"
      BY <1>5, <1>16, <2>2 DEF At
    <3>2. new.candidate = c /\ ReadSet(r) /\ sets[c] # None /\ new.set = sets[c]
      BY <1>4, <3>1 DEF Moved, Reads
    <3>3. sets' = sets
      BY <1>13, <3>2
    <3> QED BY <1>1, <1>5, <1>15, <2>2, <3>2, <3>3
  <2> QED BY <2>1, <2>2
<1>17. ASSUME NEW d \in Candidates, d \notin disturbed'
       PROVE  Holding(sets'[d]) = Cardinality(SignalsOf(told', d))
  <2>1. CASE d = c
    BY <1>13, <1>14, <1>17, <2>1
  <2>2. CASE d # c
    <3>1. Holding(sets[d]) = Cardinality(SignalsOf(told, d)) /\ sets'[d] = sets[d]
      BY <1>3, <1>14, <1>17, <2>2 DEF TrailWell
    <3> QED BY <1>11, <2>2, <3>1
  <2> QED BY <2>1, <2>2
<1>18. ASSUME NEW s \in Slots, At(s, "seed")', request'[s].candidate \notin disturbed'
       PROVE  sets'[request'[s].candidate] = None
  <2>1. CASE s # r
    <3>1. request'[s] = request[s] /\ At(s, "seed") /\ request[s] # None
      BY <1>5, <1>18, <2>1 DEF At
    <3>2. request[s].candidate \in Candidates
      BY <3>1, InFlight
    <3>3. request[s].candidate \notin disturbed /\ sets[request[s].candidate] = None
      BY <1>3, <1>18, <3>1 DEF TrailWell
    <3>4. request[s].candidate # c
      BY <1>7, <2>1, <3>1, <3>3 DEF Alone
    <3> QED BY <1>14, <3>1, <3>2, <3>3, <3>4
  <2>2. CASE s = r
    <3>1. new # None /\ new.at = "seed"
      BY <1>5, <1>18, <2>2 DEF At
    <3>2. new.candidate = c /\ SaveCandidate(r)
      BY <1>4, <3>1 DEF Moved, Reads
    <3>3. records[c] = None
      BY <3>2 DEF SaveCandidate, IInv, ImportAlone
    <3>4. sets[c] = None
      BY <1>1, <3>3 DEF IInv, Recorded
    <3>5. sets' = sets
      BY <1>13, <3>2
    <3> QED BY <1>5, <2>2, <3>2, <3>4, <3>5
  <2> QED BY <2>1, <2>2
<1> QED BY <1>15, <1>16, <1>17, <1>18 DEF TrailWell

LEMMA TrailArrives ==
    ASSUME IInv, TrailWell, NEW r \in Slots, Arrival(r), UNCHANGED told
    PROVE  TrailWell'
<1>1. PICK c \in Candidates : \/ \E command \in ImportCommand : Import(r, c, command)
                              \/ \E command \in RecordCommand : ReadRecord(r, c, command)
                              \/ \E command \in SetCommand : FindSet(r, c, command)
  BY DEF Arrival
<1>2. PICK command, at, record, set :
         /\ Arrive(r, c, command, at, record, set) /\ UNCHANGED <<records, sets>>
         /\ at # "seed"
         /\ at = "saveSet" => sets[c] # None /\ set = sets[c]
  BY <1>1 DEF Import, ReadRecord, FindSet
<1>3. PICK q : /\ q.candidate = c /\ q.at = at /\ q.set = set
               /\ request' = [request EXCEPT ![r] = q]
  BY <1>2 DEF Arrive
<1>4. request'[r] = q /\ \A s \in Slots \ {r} : request'[s] = request[s]
  BY <1>3 DEF IInv, TypeOK
<1>5. disturbed \subseteq disturbed' /\ sets' = sets
  BY <1>2 DEF Arrive
<1>6. ASSUME NEW s \in Slots, At(s, "saveSet")'
      PROVE  Covers(told', request'[s].candidate, request'[s].set)
  <2>1. CASE s = r
    <3>1. sets[c] # None /\ request'[s].candidate = c /\ request'[s].set = sets[c]
      BY <1>2, <1>3, <1>4, <1>6, <2>1 DEF At
    <3> QED BY <3>1 DEF TrailWell
  <2>2. CASE s # r
    <3>1. request'[s] = request[s] /\ At(s, "saveSet")
      BY <1>4, <1>6, <2>2 DEF At
    <3> QED BY <3>1 DEF TrailWell
  <2> QED BY <2>1, <2>2
<1>7. ASSUME NEW s \in Slots, At(s, "seed")', request'[s].candidate \notin disturbed'
      PROVE  sets'[request'[s].candidate] = None
  <2>1. s # r
    BY <1>2, <1>3, <1>4, <1>7 DEF At
  <2>2. request'[s] = request[s] /\ At(s, "seed")
    BY <1>4, <1>7, <2>1 DEF At
  <2> QED BY <1>5, <1>7, <2>2 DEF TrailWell
<1>8. /\ \A d \in Candidates : sets'[d] # None => Covers(told', d, sets'[d])
      /\ \A d \in Candidates \ disturbed' : Holding(sets'[d]) = Cardinality(SignalsOf(told', d))
  BY <1>5 DEF TrailWell
<1> QED BY <1>6, <1>7, <1>8 DEF TrailWell

LEMMA TrailAborts ==
    ASSUME IInv, TrailWell, (\E r \in Slots : Abort(r)) \/ Restart, UNCHANGED told
    PROVE  TrailWell'
<1>1. /\ \A s \in Slots : request'[s] = None \/ request'[s] = request[s]
      /\ sets' = sets /\ disturbed \subseteq disturbed'
  <2>1. CASE \E r \in Slots : Abort(r)
    <3> PICK r \in Slots : Abort(r)
      BY <2>1
    <3>1. /\ request' = [request EXCEPT ![r] = None] /\ sets' = sets
          /\ disturbed \subseteq disturbed'
      BY DEF Abort, Done, Fail
    <3> QED BY <3>1 DEF IInv, TypeOK
  <2>2. CASE Restart
    BY <2>2 DEF Restart
  <2> QED BY <2>1, <2>2
<1>2. \A s \in Slots : \A at : At(s, at)' => At(s, at) /\ request'[s] = request[s]
  BY <1>1 DEF At
<1>3. ASSUME NEW s \in Slots, At(s, "saveSet")'
      PROVE  Covers(told', request'[s].candidate, request'[s].set)
  BY <1>2, <1>3 DEF TrailWell
<1>4. ASSUME NEW s \in Slots, At(s, "seed")', request'[s].candidate \notin disturbed'
      PROVE  sets'[request'[s].candidate] = None
  BY <1>1, <1>2, <1>4 DEF TrailWell
<1>5. /\ \A d \in Candidates : sets'[d] # None => Covers(told', d, sets'[d])
      /\ \A d \in Candidates \ disturbed' : Holding(sets'[d]) = Cardinality(SignalsOf(told', d))
  BY <1>1 DEF TrailWell
<1> QED BY <1>3, <1>4, <1>5 DEF TrailWell

LEMMA TrailBeacons ==
    ASSUME IInv, MeasuresTyped, Adding, TrailWell, NEW c \in Candidates, getReview(c) \/ abandon(c)
    PROVE  TrailWell'
<1>1. request' = request /\ sets' = sets /\ disturbed' = disturbed
  BY DEF getReview, abandon, Beacon, vars
<1>2. ASSUME NEW d \in Candidates
      PROVE  /\ SignalsOf(told', d) = SignalsOf(told, d)
             /\ \A f \in Fields : RevisionsOf(told', d, f) = RevisionsOf(told, d, f)
  <2>1. CASE getReview(c)
    BY <2>1 DEF getReview
  <2>2. CASE abandon(c)
    <3>1. told' = Tell(told, Finish(c, FALSE))
      BY <2>2 DEF abandon
    <3>2. IsFiniteSet(Finish(c, FALSE)) /\ Finish(c, FALSE) \subseteq Completed
      BY FinishIs DEF MeasuresTyped
    <3>3. /\ SignalOf(d) \notin Finish(c, FALSE)
          /\ \A f \in Fields : RevisionOf(d, f) \notin Finish(c, FALSE)
      BY <3>2, EventsTyped, KindsApart
    <3>4. IsLog(told) /\ IsFiniteSet(Entries(told))
      BY ToldIsLog DEF Adding
    <3>5. \A e : e \notin Finish(c, FALSE) => Of(told', {e}) = Of(told, {e})
      <4> SUFFICES ASSUME NEW e, e \notin Finish(c, FALSE)
                   PROVE  Of(told', {e}) = Of(told, {e})
        OBVIOUS
      <4>1. PICK events : events = Finish(c, FALSE)
        OBVIOUS
      <4>2. /\ IsLog(told) /\ IsFiniteSet(Entries(told)) /\ IsFiniteSet(events)
            /\ events \cap {e} = {}
        BY <3>2, <3>4, <4>1
      <4>3. Of(Tell(told, events), {e}) = Of(told, {e})
        BY <4>2, TellCounts
      <4> QED BY <3>1, <4>1, <4>3
    <3> QED BY <3>3, <3>5 DEF SignalsOf, RevisionsOf
  <2> QED BY <2>1, <2>2
<1>3. \A d \in Candidates : \A set : Covers(told, d, set) => Covers(told', d, set)
  BY <1>2 DEF Covers
<1>4. ASSUME NEW s \in Slots, At(s, "saveSet")'
      PROVE  Covers(told', request'[s].candidate, request'[s].set)
  <2>1. At(s, "saveSet") /\ request[s] # None
    BY <1>1, <1>4 DEF At
  <2>2. request[s].candidate \in Candidates
    BY <2>1, InFlight
  <2> QED BY <1>1, <1>3, <2>1, <2>2 DEF TrailWell
<1>5. ASSUME NEW s \in Slots, At(s, "seed")', request'[s].candidate \notin disturbed'
      PROVE  sets'[request'[s].candidate] = None
  BY <1>1, <1>5 DEF TrailWell, At
<1>6. /\ \A d \in Candidates : sets'[d] # None => Covers(told', d, sets'[d])
      /\ \A d \in Candidates \ disturbed' : Holding(sets'[d]) = Cardinality(SignalsOf(told', d))
  BY <1>1, <1>2, <1>3 DEF TrailWell
<1> QED BY <1>4, <1>5, <1>6 DEF TrailWell

LEMMA TrailKept ==
    ASSUME IInv, Truth, Working, MeasuresTyped, Adding, TrailWell, [MeasuredNext]_allVars
    PROVE  TrailWell'
<1>1. CASE UNCHANGED allVars
  BY <1>1 DEF TrailWell, At, allVars, vars, measures
<1>2. ASSUME NEW r \in Slots, Arrival(r) \/ Abort(r), UNCHANGED measures
      PROVE  TrailWell'
  BY <1>2, TrailArrives, TrailAborts DEF measures
<1>3. ASSUME NEW r \in Slots, Proceed(r)
      PROVE  TrailWell'
  BY <1>3, TrailProceeds
<1>4. ASSUME NEW c \in Candidates, getReview(c) \/ abandon(c)
      PROVE  TrailWell'
  BY <1>4, TrailBeacons
<1>5. CASE Restart
  <2>1. told' = told
    BY <1>5 DEF Restart
  <2> QED BY <1>5, <2>1, TrailAborts
<1> QED BY <1>1, <1>2, <1>3, <1>4, <1>5 DEF MeasuredNext

LEMMA TrailInit ==
    ASSUME Init, MeasuresInit
    PROVE  TrailWell
<1>1. told = << >> /\ request = [r \in Slots |-> None] /\ sets = [c \in Candidates |-> None]
  BY DEF Init, MeasuresInit
<1>2. \A c : SignalsOf(told, c) = {}
  BY <1>1, NothingTold DEF SignalsOf
<1>3. Cardinality({}) = 0
  BY FS_EmptySet
<1>4. \A c \in Candidates : Holding(sets[c]) = Cardinality(SignalsOf(told, c))
  BY <1>1, <1>2, <1>3 DEF Holding
<1>5. \A r \in Slots : \A at : ~At(r, at)
  BY <1>1 DEF At
<1> QED BY <1>1, <1>4, <1>5 DEF TrailWell

LEMMA TrailShown ==
    ASSUME TrailWell
    PROVE  TrailTold
<1> SUFFICES ASSUME NEW c \in Candidates, sets[c] # None
             PROVE  /\ \A f \in Fields :
                          Len(sets[c].objects[f].revisions) <= Cardinality(RevisionsTold(c, f))
                    /\ HeldIn(sets[c]) <= Cardinality(SignalsTold(c))
                    /\ c \notin disturbed => HeldIn(sets[c]) = Cardinality(SignalsTold(c))
  BY DEF TrailTold
<1>1. SignalsTold(c) = SignalsOf(told, c)
  <2>1. \A e : e \in Signal /\ e.candidate = c <=> e = SignalOf(c)
    BY DEF Signal, SignalOf
  <2> QED BY <2>1 DEF SignalsTold, Told, SignalsOf, Of
<1>2. \A f \in Fields : RevisionsTold(c, f) = RevisionsOf(told, c, f)
  <2> SUFFICES ASSUME NEW f \in Fields
               PROVE  RevisionsTold(c, f) = RevisionsOf(told, c, f)
    OBVIOUS
  <2>1. \A e : e \in Revision /\ e.candidate = c /\ e.field = f <=> e = RevisionOf(c, f)
    BY DEF Revision, RevisionOf
  <2> QED BY <2>1 DEF RevisionsTold, Told, RevisionsOf, Of
<1>3. Covers(told, c, sets[c]) /\ (c \notin disturbed => HeldIn(sets[c]) = Cardinality(SignalsOf(told, c)))
  BY DEF TrailWell, Holding
<1> QED BY <1>1, <1>2, <1>3 DEF Covers

-----------------------------------------------------------------------------
MeasuredWell == MeasuresTyped /\ Working /\ Adding /\ QualifiedWell /\ TrailWell

(* The reviews are measured once and truly, for every number of candidates, *)
(* fields and requests: the sessions report no review and no correction    *)
(* that was not told, a candidate is told qualified once and when it is     *)
(* ready, and every revision and signal in a knowledge set was told         *)
(* (ReviewSessionMetricsService, the handlers' telemetry and               *)
(* buildOperationsDashboard).                                              *)
THEOREM MeasuredStaysOnce == MeasuredSpec => []MeasuredOnce
<1>1. MeasuredInit => MeasuredWell
  BY AddingInit, QualifiedInit, TrailInit DEF MeasuredInit, MeasuredWell
<1>2. IInv /\ Truth /\ MeasuredWell /\ [MeasuredNext]_allVars => MeasuredWell'
  <2> SUFFICES ASSUME IInv, Truth, MeasuredWell, [MeasuredNext]_allVars
               PROVE  MeasuredWell'
    OBVIOUS
  <2>1. MeasuresTyped /\ Working /\ Adding /\ QualifiedWell /\ TrailWell
    BY DEF MeasuredWell
  <2>2. Working'
    BY <2>1, WorkingKept
  <2>3. Adding' /\ MeasuresTyped'
    BY <2>1, AddingKept
  <2>4. QualifiedWell'
    BY <2>1, QualifiedKept
  <2>5. TrailWell'
    BY <2>1, TrailKept
  <2> QED BY <2>2, <2>3, <2>4, <2>5 DEF MeasuredWell
<1>3. MeasuredWell => MeasuredOnce
  BY AddingShown, QualifiedShown, TrailShown DEF MeasuredWell, MeasuredOnce
<1> QED BY MeasuredInvariance, MeasuredTruth, <1>1, <1>2, <1>3, PTL DEF MeasuredSpec

=============================================================================
