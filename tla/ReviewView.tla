----------------------------- MODULE ReviewView -----------------------------
(***************************************************************************)
(* What a recruiter is shown of a candidate's record: the fields with      *)
(* their priority, the queue of fields to review, the rates, and the       *)
(* candidates that may be the same person.  All of it is computed from the *)
(* rows a handler has read.                                                *)
(*                                                                         *)
(* Abstracted: labels, dates, lists of the resume; identities are given in *)
(* the normal form in which the code compares them (case, accents and      *)
(* punctuation taken off), Null for one that has nothing left.             *)
(***************************************************************************)
EXTENDS CandidateKnowledge

CONSTANTS
    Missing,                \* values that say nothing: unknown, n/a
    Confidence,             \* by field, what the extraction claims, None where it claims nothing
    Names, Emails, Phones,  \* of candidates
    Null                    \* none of them

ASSUME ViewAssumption ==
    /\ IsFiniteSet(Fields) /\ Missing \subseteq Values
    /\ Confidence \in [Fields -> Percent \cup {None}]
    /\ Null \notin Names \cup Emails \cup Phones
    /\ None \notin {"volatility", "correction"}

-----------------------------------------------------------------------------
(* computeReviewPriority, of field f known as k. *)
Claim(f, k) == IF k.verified THEN 100 ELSE IF Confidence[f] = None THEN 0 ELSE Confidence[f]

Priority(f, k) ==
    CASE k.current \in Missing -> "CRITICAL"
      [] k.current \notin Missing /\ Claim(f, k) < 60 -> "HIGH"
      [] k.current \notin Missing /\ Claim(f, k) \in 60..84 -> "MEDIUM"
      [] k.current \notin Missing /\ Claim(f, k) >= 85 -> "LOW"

(* buildReviewQueue: the fields in it, the most urgent of them first. *)
Queued(record) ==
    {f \in Fields :
        ~record.fields[f].reviewed /\ Priority(f, record.fields[f]) # "LOW"}

(* Mutant of Human: the first edit counts, not the last.                   *)
HumanFirst(k) ==
    LET edits == {n \in DOMAIN k.revisions : k.revisions[n].action = "edit"}
    IN IF k.edited /\ edits # {}
         THEN k.revisions[CHOOSE n \in edits : \A m \in edits : n <= m].value
         ELSE None

(* lastHumanRevision of an edited field: the value of its last edit. *)
Human(k) ==
    LET edits == {n \in DOMAIN k.revisions : k.revisions[n].action = "edit"}
    IN IF k.edited /\ edits # {}
         THEN k.revisions[CHOOSE n \in edits : \A m \in edits : m <= n].value
         ELSE None

(* The counts behind acceptanceRate, verificationRate, reviewCompletionRate. *)
edited(record) == {f \in Fields : record.fields[f].edited}
verified(record) == {f \in Fields : record.fields[f].verified}
reviewed(record) == {f \in Fields : record.fields[f].reviewed}

(* toCandidateReviewView. *)
View(record) ==
    [ready |-> record.ready,
     queue |-> Queued(record),
     diff |-> [f \in Fields |->
        LET k == record.fields[f] IN
        [originalAi |-> k.original, current |-> k.current, human |-> Human(k),
         edited |-> k.edited, rejected |-> k.rejected]],
     overridden |-> Cardinality(edited(record)),
     verified |-> Cardinality(verified(record)),
     reviewed |-> Cardinality(reviewed(record))]

(* filterCandidateList, by readiness. *)
Listed(ready) == {c \in Candidates : records[c] # None /\ records[c].ready = ready}

-----------------------------------------------------------------------------
(* CandidateKnowledgeSet.buildTimeline, what it shows of each object: any  *)
(* revision by a recruiter is an edit there, whatever its action.          *)
Timeline(set) ==
    [f \in Fields |->
        LET object == set.objects[f] IN
        [originalAi |-> object.original,
         recruiterEdits |-> [n \in DOMAIN object.revisions |-> object.revisions[n].new],
         signals |-> object.signals + set.signals,
         currentTruth |-> object.current]]

(* KnowledgeInsightProvider: the revisions that changed a value, and what  *)
(* is said of a field with some.                                           *)
Corrections(object) ==
    {n \in DOMAIN object.revisions : object.revisions[n].old # object.revisions[n].new}

Insight(object) ==
    LET corrections == Cardinality(Corrections(object)) IN
    IF corrections >= 2 THEN "volatility" ELSE IF corrections = 1 THEN "correction" ELSE None

-----------------------------------------------------------------------------
(* CandidateIdentityService. *)
Identity == [name : Names \cup {Null}, email : Emails \cup {Null}, phone : Phones \cup {Null}]

(* buildFingerprint puts the three together. *)
SameFingerprint(l, r) == l = r

Both(a, b) == a # Null /\ a = b

(* scoreDuplicate, of two candidates; Null where there is nothing to warn of. *)
scoreDuplicate(l, r) ==
    CASE SameFingerprint(l, r) /\ (l.email # Null \/ l.phone # Null) -> 100
      [] ~SameFingerprint(l, r) /\ Both(l.name, r.name) /\ Both(l.email, r.email) -> 95
      [] /\ ~SameFingerprint(l, r) /\ Both(l.name, r.name)
         /\ ~Both(l.email, r.email) /\ Both(l.phone, r.phone) -> 92
      [] OTHER -> Null

(* findDuplicateMatches, with its minScore: the others to warn of. *)
findDuplicates(target, others) ==
    {o \in others : scoreDuplicate(target, o) # Null /\ scoreDuplicate(target, o) >= 90}

-----------------------------------------------------------------------------
(* Properties.                                                             *)

(* A review shows the value of the last edit, and only that, as the        *)
(* human's, and the rates are in order.                                    *)
ViewTrue(v) ==
    /\ \A f \in Fields :
          v.diff[f].current = IF v.diff[f].human = None THEN v.diff[f].originalAi
                                                        ELSE v.diff[f].human
    /\ v.overridden <= v.verified /\ v.reviewed <= v.verified

(* A candidate is listed as ready only when all its fields are verified    *)
(* and only fields whose value is missing are left in its queue.           *)
ListedReady ==
    \A c \in Listed(TRUE) :
        LET v == View(records[c]) IN
        /\ v.verified = Cardinality(Fields)
        /\ \A f \in v.queue : v.diff[f].current \in Missing

(* A field without an insight still says what the AI said, one that was    *)
(* corrected once says something else.                                     *)
InsightsTrue ==
    \A c \in Candidates : sets[c] # None =>
        \A f \in Fields :
            LET shown == Timeline(sets[c])[f] insight == Insight(sets[c].objects[f]) IN
            /\ insight = None => shown.currentTruth = shown.originalAi
            /\ insight = "correction" => shown.currentTruth # shown.originalAi

(* The revisions of k after which its value was another than before. *)
Changes(k) ==
    {n \in DOMAIN k.revisions :
        k.revisions[n].value # IF n = 1 THEN k.original ELSE k.revisions[n - 1].value}

(* The timeline leaves no revision of the record out and shows no change   *)
(* of a value that the record does not have: unless handlers of the        *)
(* candidate overlapped or failed, or an object was patched directly.  (A  *)
(* field that is verified again adds an edit to the timeline only.)        *)
TimelineFollows ==
    \A c \in Candidates \ disturbed :
        sets[c] # None /\ ~Busy(c) =>
            \A f \in Fields :
                LET k == records[c].fields[f] object == sets[c].objects[f] IN
                /\ Len(k.revisions) <= Len(Timeline(sets[c])[f].recruiterEdits)
                /\ Cardinality(Corrections(object)) = Cardinality(Changes(k))

(* Whoever is warned of as a duplicate warns back, with the same score, in *)
(* whatever order the two were imported (findDuplicatesFor).               *)
WarnedOfBothWays ==
    \A l, r \in Identity :
        /\ scoreDuplicate(l, r) = scoreDuplicate(r, l)
        /\ r \in findDuplicates(l, Identity) <=> l \in findDuplicates(r, Identity)

(* What every review shows, whichever handlers raced for the record.       *)
ShownTruly ==
    /\ \A c \in Candidates : records[c] # None => ViewTrue(View(records[c]))
    /\ ListedReady /\ InsightsTrue /\ TimelineFollows
    /\ WarnedOfBothWays

=============================================================================
