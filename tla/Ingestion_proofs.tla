-------------------------- MODULE Ingestion_proofs --------------------------
(***************************************************************************)
(* Reports add up, files stay staged, a fingerprint promises a candidate   *)
(* and its resume, and a file makes one candidate: for any number of jobs, *)
(* packages, contents, failures, faults and restarts.                      *)
(*                                                                         *)
(* Four invariants.  Kept: whoever is about to set a fingerprint runs in   *)
(* this turn and found its resume saved, and every import that is saving a *)
(* resume has a candidate of its own.  Reports: what a run has counted and *)
(* what it has left are the documents of its job.  StagedRows: what awaits *)
(* a confirmation, also on file, is staged.  OnceEach: as long as no       *)
(* import of a content has been completed, only imports in flight have     *)
(* made candidates of it; from then on no run starts another.              *)
(***************************************************************************)
EXTENDS Ingestion, FiniteSetTheorems, WellFoundedInduction, TLAPS

-----------------------------------------------------------------------------
(* Fingerprints.                                                           *)

TaskShape(t) ==
    t # None => t = [at |-> t.at, scope |-> t.scope, todo |-> t.todo, report |-> t.report]

Shapes ==
    /\ jobs = [j \in Jobs |-> jobs[j]] /\ jobFile = [j \in Jobs |-> jobFile[j]]
    /\ task = [j \in Jobs |-> task[j]]
    /\ \A j \in Jobs : TaskShape(task[j])
    /\ imports \in [Keys -> {"none", "candidate", "resume"}]
    /\ candidates \in [Contents -> Nat] /\ resumes \in [Contents -> Nat]

SavingResume(c) == {n \in Names : imports[<<c, n>>] = "resume"}

(* Every resume, saved or under way, has a candidate.                      *)
Accounted(c) ==
    /\ IsFiniteSet(SavingResume(c))
    /\ Cardinality(SavingResume(c)) + resumes[c] <= candidates[c]

HasResume(c) == c \in Contents /\ resumes[c] > 0

SettingFingerprint(j) == task[j] # None /\ task[j].at = "imported"

Kept ==
    /\ Shapes
    /\ \A c \in Contents : Accounted(c)
    /\ \A c \in known \cup knownFile : HasResume(c)
    /\ \A j \in Jobs : SettingFingerprint(j) => j \in turn /\ HasResume(Current(j).content)

(* Where neither rows nor tasks change, nobody moves.                      *)
LEMMA NobodyMoves ==
    ASSUME Kept, UNCHANGED <<jobs, task, turn>>, NEW j \in Jobs, SettingFingerprint(j)'
    PROVE  SettingFingerprint(j) /\ j \in turn' /\ Current(j)' = Current(j)
<1>1. SettingFingerprint(j) BY DEF SettingFingerprint
<1>3. Current(j)' = Current(j) BY DEF Current
<1> QED BY <1>1, <1>3 DEF Kept

LEMMA InitKept == Init => Kept
<1> SUFFICES ASSUME Init PROVE Kept OBVIOUS
<1>1. Shapes BY DEF Init, Shapes, TaskShape
<1>2. ASSUME NEW c \in Contents PROVE Accounted(c)
  <2>1. SavingResume(c) = {} BY DEF Init, SavingResume, Keys
  <2>2. resumes[c] = 0 /\ candidates[c] = 0 BY DEF Init
  <2> QED BY <2>1, <2>2, FS_EmptySet DEF Accounted
<1>3. \A j \in Jobs : ~SettingFingerprint(j) BY DEF Init, SettingFingerprint
<1> QED BY <1>1, <1>2, <1>3 DEF Kept, Init

(* What has no part in the saves keeps the accounts.                       *)
LEMMA AccountsKept ==
    ASSUME Kept, UNCHANGED <<candidates, resumes>>,
           \A c \in Contents : SavingResume(c)' = SavingResume(c)
    PROVE  /\ \A c \in Contents : Accounted(c)'
           /\ \A c : HasResume(c) => HasResume(c)'
  BY DEF Kept, Accounted, HasResume

(* The row of a job and its task are its own; another job that is about to *)
(* set its fingerprint is at the document it was at.                       *)
LEMMA OthersKept ==
    ASSUME Kept, NEW j \in Jobs, NEW row, NEW t,
           jobs' = [jobs EXCEPT ![j] = row], Continue(j, t),
           NEW k \in Jobs, k # j, SettingFingerprint(k)'
    PROVE  SettingFingerprint(k) /\ k \in turn' /\ Current(k)' = Current(k)
<1>1. jobs'[k] = jobs[k] /\ task'[k] = task[k] BY DEF Kept, Shapes, Continue
<1>2. SettingFingerprint(k) BY <1>1 DEF SettingFingerprint
<1>3. k \in turn BY <1>2 DEF Kept
<1>4. k \in turn' BY <1>3 DEF Continue
<1> QED BY <1>1, <1>2, <1>4 DEF Current

LEMMA SameRow == ASSUME Kept, NEW j \in Jobs, jobs' = jobs PROVE jobs' = [jobs EXCEPT ![j] = jobs[j]]
  BY DEF Kept, Shapes

(* A handler that goes on, with its row saved or not.                      *)
Advances(j, row, t) ==
    /\ TaskShape(t) /\ (t # None => t.at # "imported")
    /\ jobs' = [jobs EXCEPT ![j] = row]
    /\ jobFile' = jobs' \/ jobFile' = jobFile
    /\ Continue(j, t)

LEMMA AdvanceStep ==
    ASSUME Kept, NEW j \in Jobs, NEW row, NEW t, Advances(j, row, t),
           UNCHANGED <<known, knownFile, candidates, resumes>>,
           imports' \in [Keys -> {"none", "candidate", "resume"}],
           \A c \in Contents : SavingResume(c)' = SavingResume(c)
    PROVE  Kept'
<1>1. Shapes' BY DEF Kept, Shapes, Advances, Continue
<1>2. /\ \A c \in Contents : Accounted(c)'
      /\ \A c \in known' \cup knownFile' : HasResume(c)'
  BY AccountsKept DEF Kept
<1>3. ASSUME NEW k \in Jobs, SettingFingerprint(k)'
      PROVE  k \in turn' /\ HasResume(Current(k).content)'
  <2>1. k # j BY <1>3 DEF SettingFingerprint, Advances, Continue, Kept, Shapes
  <2>2. SettingFingerprint(k) /\ k \in turn' /\ Current(k)' = Current(k)
    BY <1>3, <2>1, OthersKept DEF Advances
  <2> QED BY <2>2, AccountsKept DEF Kept
<1> QED BY <1>1, <1>2, <1>3 DEF Kept

(* Handlers that write rows and nothing else.                              *)
LEMMA PersistAdvances ==
    ASSUME NEW j \in Jobs, NEW row, NEW t, NEW otherwise,
           TaskShape(t), t # None => t.at # "imported",
           TaskShape(otherwise), otherwise # None => otherwise.at # "imported",
           Persist(j, row, t, otherwise)
    PROVE  \E u : Advances(j, row, u)
  BY DEF Persist, Advances

LEMMA TaskShapes ==
    /\ TaskShape(None)
    /\ \A at, scope : TaskShape(NewTask(at, scope)) /\ NewTask(at, scope).at = at
    /\ TaskShape(Rejected) /\ Rejected.at = "failed"
  BY DEF TaskShape, NewTask, Rejected

LEMMA RowStep ==
    ASSUME Kept, NEW j \in Jobs, NEW row, NEW t, NEW otherwise,
           TaskShape(t), t # None => t.at # "imported",
           otherwise \in {None, Rejected},
           Persist(j, row, t, otherwise),
           UNCHANGED <<known, knownFile, importVars>>
    PROVE  Kept'
<1>1. TaskShape(otherwise) /\ (otherwise # None => otherwise.at # "imported")
  BY TaskShapes
<1>2. PICK u : Advances(j, row, u) BY <1>1, PersistAdvances
<1>3. /\ imports' \in [Keys -> {"none", "candidate", "resume"}]
      /\ \A c \in Contents : SavingResume(c)' = SavingResume(c)
  BY DEF importVars, SavingResume, Kept, Shapes
<1> QED BY <1>2, <1>3, AdvanceStep DEF importVars

-----------------------------------------------------------------------------
(* The handlers.                                                           *)

LEMMA UploadStep ==
    ASSUME Kept, NEW j \in Jobs, NEW k \in Jobs, NEW p \in Packages, NEW scope,
           UploadAgain(j, k, p) \/ Upload(j, p, scope)
    PROVE  Kept'
<1>1. CASE UploadAgain(j, k, p)
  <2>1. \E row : Persist(j, row, None, None) BY <1>1 DEF UploadAgain
  <2> QED BY <1>1, <2>1, TaskShapes, RowStep DEF UploadAgain
<1>2. CASE Upload(j, p, scope)
  <2>1. \E row, s : Persist(j, row, NewTask("stage", s), None) BY <1>2 DEF Upload
  <2>2. PICK row, s : Persist(j, row, NewTask("stage", s), None) BY <2>1
  <2>3. TaskShape(NewTask("stage", s)) /\ NewTask("stage", s).at # "imported" BY TaskShapes
  <2> QED BY <1>2, <2>2, <2>3, RowStep DEF Upload
<1> QED BY <1>1, <1>2

LEMMA ConfirmStep ==
    ASSUME Kept, NEW j \in Jobs, NEW scope, Confirm(j, scope) \/ EndUpload(j)
    PROVE  Kept'
<1>1. TaskShape(NewTask("start", None)) /\ NewTask("start", None).at # "imported" BY TaskShapes
<1>2. \E row : Persist(j, row, None, None) \/ Persist(j, row, NewTask("start", None), None)
  BY DEF Confirm, EndUpload
<1>3. UNCHANGED <<known, knownFile, importVars>> BY DEF Confirm, EndUpload
<1> QED BY <1>1, <1>2, <1>3, TaskShapes, RowStep

LEMMA StageStep == ASSUME Kept, NEW j \in Jobs, Stage(j) PROVE Kept'
<1>1. PICK t \in {[task[j] EXCEPT !.at = "staged"], None} : Continue(j, t) BY DEF Stage
<1>2. TaskShape(task[j]) /\ task[j] # None BY DEF Stage, At, Kept, Shapes
<1>3. TaskShape(t) /\ (t # None => t.at # "imported") BY <1>1, <1>2 DEF TaskShape
<1>4. Advances(j, jobs[j], t) BY <1>1, <1>3, SameRow DEF Stage, Advances
<1>5. /\ imports' \in [Keys -> {"none", "candidate", "resume"}]
      /\ \A c \in Contents : SavingResume(c)' = SavingResume(c)
  BY DEF Stage, importVars, SavingResume, Kept, Shapes
<1> QED BY <1>4, <1>5, AdvanceStep DEF Stage, importVars

LEMMA StartRunStep == ASSUME Kept, NEW j \in Jobs, StartRun(j) PROVE Kept'
<1>1. PICK row : Persist(j, row,
                         [NewTask("document", None) EXCEPT !.todo = Selected(jobs[j]),
                                                           !.report.skipped = OutOfScope(jobs[j])],
                         Rejected)
  BY DEF StartRun
<1> DEFINE t == [NewTask("document", None) EXCEPT !.todo = Selected(jobs[j]),
                                                  !.report.skipped = OutOfScope(jobs[j])]
<1>2. TaskShape(t) /\ t.at = "document"
  <2>1. PICK n, r : t = [NewTask("document", None) EXCEPT !.todo = n, !.report = r] OBVIOUS
  <2>2. t = [at |-> "document", scope |-> None, todo |-> n, report |-> r]
    <3> HIDE DEF t
    <3> QED BY <2>1 DEF NewTask
  <2> HIDE DEF t
  <2> QED BY <2>2 DEF TaskShape
<1>3. Persist(j, row, t, Rejected) BY <1>1
<1> HIDE DEF t
<1> QED BY <1>2, <1>3, RowStep DEF StartRun

LEMMA CountStep ==
    ASSUME Kept, NEW j \in Jobs, NEW report, Count(j, report), task[j] # None,
           UNCHANGED importVars
    PROVE  Kept'
<1> DEFINE t == [task[j] EXCEPT !.at = "document", !.todo = @ \ {Min(@)}, !.report = report]
<1>1. TaskShape(t) /\ t.at = "document"
  <2>1. PICK u :
           u = task[j] /\ u = [at |-> u.at, scope |-> u.scope, todo |-> u.todo, report |-> u.report]
    BY DEF TaskShape, Kept, Shapes
  <2>2. PICK n : t = [task[j] EXCEPT !.at = "document", !.todo = n, !.report = report] OBVIOUS
  <2> HIDE DEF t
  <2>3. t = [at |-> "document", scope |-> u.scope, todo |-> n, report |-> report]
    BY <2>1, <2>2
  <2> QED BY <2>3 DEF TaskShape
<1>2. PICK row : Persist(j, row, t, Rejected) BY DEF Count
<1> HIDE DEF t
<1> QED BY <1>1, <1>2, RowStep DEF Count

LEMMA CountsStep ==
    ASSUME Kept, NEW j \in Jobs,
           CountDuplicate(j) \/ CountSkipped(j) \/ CountFailed(j) \/ CountImported(j)
    PROVE  Kept'
<1>1. PICK report : Count(j, report)
  BY DEF CountDuplicate, CountSkipped, CountFailed, CountImported
<1>2. task[j] # None /\ UNCHANGED importVars
  BY DEF CountDuplicate, CountSkipped, CountFailed, CountImported, AtDocument, At
<1> QED BY <1>1, <1>2, CountStep

LEMMA EndsStep ==
    ASSUME Kept, NEW j \in Jobs, Finish(j) \/ MarkFailed(j) PROVE Kept'
<1>1. CASE Finish(j)
  <2>1. \E row : Persist(j, row, None, Rejected) BY <1>1 DEF Finish
  <2> QED BY <1>1, <2>1, TaskShapes, RowStep DEF Finish
<1>2. CASE MarkFailed(j) /\ jobs[j].status = "Running"
  <2>1. \E row : Persist(j, row, None, None) BY <1>2 DEF MarkFailed
  <2> QED BY <1>2, <2>1, TaskShapes, RowStep DEF MarkFailed
<1>3. CASE MarkFailed(j) /\ jobs[j].status # "Running"
  <2>1. Continue(j, None) /\ jobs' = jobs /\ jobFile' = jobFile BY <1>3 DEF MarkFailed
  <2>2. Advances(j, jobs[j], None) BY <2>1, SameRow, TaskShapes DEF Advances
  <2>3. /\ imports' \in [Keys -> {"none", "candidate", "resume"}]
        /\ \A c \in Contents : SavingResume(c)' = SavingResume(c)
        /\ UNCHANGED <<known, knownFile, candidates, resumes>>
    BY <1>3 DEF MarkFailed, importVars, SavingResume, Kept, Shapes
  <2> QED BY <2>2, <2>3, AdvanceStep
<1> QED BY <1>1, <1>2, <1>3

(* An import that starts saves a candidate first; one that is joined goes  *)
(* on as it was.                                                           *)
LEMMA ImportStarts == ASSUME Kept, NEW j \in Jobs, Import(j) PROVE Kept'
<1> DEFINE t == [task[j] EXCEPT !.at = "import"]
<1>1. Continue(j, t) /\ jobs' = jobs /\ jobFile' = jobFile /\ task[j] # None
  BY DEF Import, AtDocument, At, files
<1>2. TaskShape(t) /\ t.at = "import" BY <1>1 DEF TaskShape, Kept, Shapes
<1> HIDE DEF t
<1>3. Advances(j, jobs[j], t) BY <1>1, <1>2, SameRow DEF Advances
<1>4. /\ imports' = [imports EXCEPT ![KeyOf(j)] = JoinOrStart(KeyOf(j))]
      /\ UNCHANGED <<known, knownFile, candidates, resumes>>
  BY DEF Import, files
<1>5. imports' \in [Keys -> {"none", "candidate", "resume"}]
  BY <1>4 DEF JoinOrStart, Kept, Shapes
<1>6. \A key \in Keys : imports'[key] = "resume" <=> imports[key] = "resume"
  BY <1>4 DEF JoinOrStart, Kept, Shapes
<1>7. \A c \in Contents : SavingResume(c)' = SavingResume(c)
  <2>1. \A c \in Contents, n \in Names : <<c, n>> \in Keys BY DEF Keys
  <2> QED BY <1>6, <2>1 DEF SavingResume
<1> QED BY <1>3, <1>4, <1>5, <1>7, AdvanceStep

(* The fingerprint that is set is of a content whose resume was saved.     *)
LEMMA SetFingerprintStep == ASSUME Kept, NEW j \in Jobs, SetFingerprint(j) PROVE Kept'
<1>1. SettingFingerprint(j) /\ HasResume(Current(j).content)
  BY DEF SetFingerprint, At, SettingFingerprint, Kept
<1>2. PICK at \in {"known", "rejected"} : Continue(j, [task[j] EXCEPT !.at = at])
  BY DEF SetFingerprint
<1> DEFINE t == [task[j] EXCEPT !.at = at]
<1>3. TaskShape(t) /\ t.at # "imported" BY <1>1, <1>2 DEF TaskShape, Kept, Shapes, SettingFingerprint
<1>4. /\ Continue(j, t) /\ jobs' = [jobs EXCEPT ![j] = jobs[j]] /\ jobFile' = jobFile
      /\ UNCHANGED <<imports, candidates, resumes>>
  BY <1>2, SameRow DEF SetFingerprint, importVars
<1> HIDE DEF t
<1>5. Shapes' BY <1>3, <1>4 DEF Kept, Shapes, Continue
<1>6. known' \cup knownFile' \subseteq known \cup knownFile \cup {Current(j).content}
  BY DEF SetFingerprint
<1>7. \A c \in Contents : SavingResume(c)' = SavingResume(c) BY <1>4 DEF SavingResume
<1>8. \A c : HasResume(c) => HasResume(c)' BY <1>4 DEF HasResume
<1>9. ASSUME NEW k \in Jobs, SettingFingerprint(k)'
      PROVE  k \in turn' /\ HasResume(Current(k).content)'
  <2>1. k # j BY <1>3, <1>4, <1>9 DEF SettingFingerprint, Continue, Kept, Shapes
  <2>2. SettingFingerprint(k) /\ k \in turn' /\ Current(k)' = Current(k)
    BY <1>4, <1>9, <2>1, OthersKept
  <2> QED BY <1>8, <2>2 DEF Kept
<1>10. \A c \in known' \cup knownFile' : HasResume(c)' BY <1>1, <1>6, <1>8 DEF Kept
<1>11. \A c \in Contents : Accounted(c)' BY <1>4, <1>7, AccountsKept
<1> QED BY <1>5, <1>9, <1>10, <1>11 DEF Kept

-----------------------------------------------------------------------------
(* The imports.                                                            *)

(* Those that await an import go on at step, all others stay.              *)
LEMMA SettleShapes ==
    ASSUME Kept, NEW key \in Keys, NEW step, Settle(key, step), turn = {},
           UNCHANGED <<jobs, jobFile>>
    PROVE  /\ task' = [j \in Jobs |-> task'[j]] /\ \A j \in Jobs : TaskShape(task'[j])
           /\ imports' \in [Keys -> {"none", "candidate", "resume"}]
           /\ \A j \in Jobs : SettingFingerprint(j)' =>
                /\ step = "imported" /\ j \in turn'
                /\ Current(j)' = Current(j) /\ Current(j).content = key[1]
<1>1. \A j \in Jobs : ~SettingFingerprint(j) BY DEF Kept
<1>2. task' = [j \in Jobs |-> IF j \in Awaiting(key) THEN [task[j] EXCEPT !.at = step] ELSE task[j]]
  BY DEF Settle
<1>3. ASSUME NEW j \in Jobs PROVE TaskShape(task'[j])
  <2>1. TaskShape(task[j]) BY DEF Kept, Shapes
  <2>2. CASE j \in Awaiting(key)
    BY <1>2, <2>1, <2>2 DEF TaskShape, Awaiting
  <2>3. CASE j \notin Awaiting(key) BY <1>2, <2>1, <2>3
  <2> QED BY <2>2, <2>3
<1>4. ASSUME NEW j \in Jobs, SettingFingerprint(j)'
      PROVE  /\ step = "imported" /\ j \in turn'
             /\ Current(j)' = Current(j) /\ Current(j).content = key[1]
  <2>1. j \in Awaiting(key) BY <1>1, <1>2, <1>4 DEF SettingFingerprint
  <2>2. task[j] # None /\ KeyOf(j) = key BY <2>1 DEF Awaiting
  <2>3. task'[j] = [task[j] EXCEPT !.at = step] BY <1>2, <2>1
  <2>4. TaskShape(task[j]) BY DEF Kept, Shapes
  <2>5. task'[j].at = step /\ task'[j].todo = task[j].todo
    BY <2>2, <2>3, <2>4 DEF TaskShape
  <2>6. step = "imported" BY <1>4, <2>5 DEF SettingFingerprint
  <2>8. Current(j)' = Current(j) BY <2>5 DEF Current
  <2> QED BY <2>1, <2>2, <2>6, <2>8 DEF Settle, KeyOf
<1>5. imports' \in [Keys -> {"none", "candidate", "resume"}] BY DEF Settle, Kept, Shapes
<1>6. task' = [j \in Jobs |-> task'[j]] BY <1>2
<1> QED BY <1>3, <1>4, <1>5, <1>6

(* The import of one key over, or at its resume: its content's accounts.   *)
LEMMA SavingResumeOf ==
    ASSUME Kept, NEW key \in Keys, NEW to \in {"none", "resume"},
           imports' = [imports EXCEPT ![key] = to], NEW c \in Contents
    PROVE  SavingResume(c)' =
             IF c # key[1] THEN SavingResume(c)
             ELSE IF to = "resume" THEN SavingResume(c) \cup {key[2]}
             ELSE SavingResume(c) \ {key[2]}
<1>1. key = <<key[1], key[2]>> /\ key[1] \in Contents /\ key[2] \in Names BY DEF Keys
<1>2. ASSUME NEW n \in Names
      PROVE  imports'[<<c, n>>] = IF c = key[1] /\ n = key[2] THEN to ELSE imports[<<c, n>>]
  <2>1. <<c, n>> \in Keys BY DEF Keys
  <2>2. <<c, n>> = key <=> c = key[1] /\ n = key[2] BY <1>1
  <2> QED BY <2>1, <2>2 DEF Kept, Shapes
<1> QED BY <1>1, <1>2 DEF SavingResume

LEMMA SaveCandidateStep ==
    ASSUME Kept, NEW key \in Keys, SaveCandidate(key) PROVE Kept'
<1>1. key[1] \in Contents BY DEF Keys
<1>2. /\ candidates' = [candidates EXCEPT ![key[1]] = @ + 1]
      /\ imports' = [imports EXCEPT ![key] = "resume"]
      /\ UNCHANGED <<jobs, jobFile, known, knownFile, task, turn, resumes>>
  BY DEF SaveCandidate, files
<1>3. Shapes' BY <1>1, <1>2 DEF Kept, Shapes
<1>4. ASSUME NEW c \in Contents PROVE Accounted(c)'
  <2>1. /\ IsFiniteSet(SavingResume(c)) /\ Cardinality(SavingResume(c)) \in Nat
        /\ Cardinality(SavingResume(c)) + resumes[c] <= candidates[c]
        /\ resumes[c] \in Nat /\ candidates[c] \in Nat
    BY FS_CardinalityType DEF Kept, Accounted, Shapes
  <2>2. CASE c # key[1]
    <3>1. SavingResume(c)' = SavingResume(c) BY <1>2, <2>2, SavingResumeOf
    <3>2. candidates'[c] = candidates[c] BY <1>2, <2>2 DEF Kept, Shapes
    <3> QED BY <1>2, <2>1, <3>1, <3>2 DEF Accounted
  <2>3. CASE c = key[1]
    <3>1. SavingResume(c)' = SavingResume(c) \cup {key[2]} BY <1>2, <2>3, SavingResumeOf
    <3>2. candidates'[c] = candidates[c] + 1 BY <1>1, <1>2, <2>3 DEF Kept, Shapes
    <3>3. /\ IsFiniteSet(SavingResume(c)')
          /\ Cardinality(SavingResume(c)') =
                IF key[2] \in SavingResume(c) THEN Cardinality(SavingResume(c))
                ELSE Cardinality(SavingResume(c)) + 1
      <4>1. /\ IsFiniteSet(SavingResume(c) \cup {key[2]})
            /\ Cardinality(SavingResume(c) \cup {key[2]}) =
                  IF key[2] \in SavingResume(c) THEN Cardinality(SavingResume(c))
                  ELSE Cardinality(SavingResume(c)) + 1
        BY <2>1, FS_AddElement
      <4> QED BY <3>1, <4>1
    <3> QED BY <1>2, <2>1, <3>2, <3>3 DEF Accounted
  <2> QED BY <2>2, <2>3
<1>5. \A j \in Jobs : SettingFingerprint(j)' =>
        SettingFingerprint(j) /\ j \in turn' /\ Current(j)' = Current(j)
  BY <1>2, NobodyMoves
<1>6. \A c : HasResume(c)' <=> HasResume(c) BY <1>2 DEF HasResume
<1> QED BY <1>2, <1>3, <1>4, <1>5, <1>6 DEF Kept

LEMMA SaveResumeStep ==
    ASSUME Kept, NEW key \in Keys, SaveResume(key) PROVE Kept'
<1>1. key[1] \in Contents /\ key[2] \in Names /\ key = <<key[1], key[2]>> BY DEF Keys
<1>2. /\ resumes' = [resumes EXCEPT ![key[1]] = @ + 1]
      /\ imports' = [imports EXCEPT ![key] = "none"] /\ imports[key] = "resume"
      /\ Settle(key, "imported") /\ turn = {}
      /\ UNCHANGED <<jobs, jobFile, known, knownFile, candidates>>
  BY DEF SaveResume, files, Settle
<1>3. Shapes' BY <1>1, <1>2, SettleShapes DEF Kept, Shapes
<1>4. ASSUME NEW c \in Contents PROVE Accounted(c)'
  <2>1. /\ IsFiniteSet(SavingResume(c)) /\ Cardinality(SavingResume(c)) \in Nat
        /\ Cardinality(SavingResume(c)) + resumes[c] <= candidates[c]
        /\ resumes[c] \in Nat /\ candidates[c] \in Nat
    BY FS_CardinalityType DEF Kept, Accounted, Shapes
  <2>2. CASE c # key[1]
    <3>1. SavingResume(c)' = SavingResume(c) BY <1>2, <2>2, SavingResumeOf
    <3>2. resumes'[c] = resumes[c] BY <1>2, <2>2 DEF Kept, Shapes
    <3> QED BY <1>2, <2>1, <3>1, <3>2 DEF Accounted
  <2>3. CASE c = key[1]
    <3>1. SavingResume(c)' = SavingResume(c) \ {key[2]} BY <1>2, <2>3, SavingResumeOf
    <3>2. resumes'[c] = resumes[c] + 1 BY <1>1, <1>2, <2>3 DEF Kept, Shapes
    <3>3. key[2] \in SavingResume(c) BY <1>1, <1>2, <2>3 DEF SavingResume
    <3>4. /\ IsFiniteSet(SavingResume(c)')
          /\ Cardinality(SavingResume(c)') = Cardinality(SavingResume(c)) - 1
      BY <2>1, <3>1, <3>3, FS_RemoveElement
    <3> QED BY <1>2, <2>1, <3>2, <3>4 DEF Accounted
  <2> QED BY <2>2, <2>3
<1>5. \A c : HasResume(c) => HasResume(c)' BY <1>1, <1>2 DEF HasResume, Kept, Shapes
<1>6. HasResume(key[1])' BY <1>1, <1>2 DEF HasResume, Kept, Shapes
<1>7. ASSUME NEW j \in Jobs, SettingFingerprint(j)'
      PROVE  j \in turn' /\ HasResume(Current(j).content)'
  <2>1. j \in turn' /\ Current(j)' = Current(j) /\ Current(j).content = key[1]
    BY <1>2, <1>7, SettleShapes
  <2> QED BY <1>6, <2>1
<1> QED BY <1>2, <1>3, <1>4, <1>5, <1>7 DEF Kept

LEMMA ImportFailsStep ==
    ASSUME Kept, NEW key \in Keys, ImportFails(key) PROVE Kept'
<1>1. /\ imports' = [imports EXCEPT ![key] = "none"]
      /\ Settle(key, "rejected") /\ turn = {}
      /\ UNCHANGED <<jobs, jobFile, known, knownFile, candidates, resumes>>
  BY DEF ImportFails, files, Settle
<1>2. Shapes' BY <1>1, SettleShapes DEF Kept, Shapes
<1>3. ASSUME NEW c \in Contents PROVE Accounted(c)'
  <2>1. /\ IsFiniteSet(SavingResume(c)) /\ Cardinality(SavingResume(c)) \in Nat
        /\ Cardinality(SavingResume(c)) + resumes[c] <= candidates[c]
        /\ resumes[c] \in Nat /\ candidates[c] \in Nat
    BY FS_CardinalityType DEF Kept, Accounted, Shapes
  <2>2. SavingResume(c)' \in SUBSET SavingResume(c)
    <3>1. SavingResume(c)' = IF c # key[1] THEN SavingResume(c) ELSE SavingResume(c) \ {key[2]}
      BY <1>1, SavingResumeOf
    <3> QED BY <3>1
  <2>3. /\ IsFiniteSet(SavingResume(c)') /\ Cardinality(SavingResume(c)') \in Nat
        /\ Cardinality(SavingResume(c)') <= Cardinality(SavingResume(c))
    BY <2>1, <2>2, FS_Subset, FS_CardinalityType
  <2> QED BY <1>1, <2>1, <2>3 DEF Accounted
<1>4. \A c : HasResume(c)' <=> HasResume(c) BY <1>1 DEF HasResume
<1>5. \A j \in Jobs : ~SettingFingerprint(j)' BY <1>1, SettleShapes
<1> QED BY <1>1, <1>2, <1>3, <1>4, <1>5 DEF Kept

(* What a reload finds was on file before.                                 *)
LEMMA RestartStep == ASSUME Kept, Restart PROVE Kept'
<1>1. /\ jobs' = jobFile \/ jobs' = [j \in Jobs |-> None]
      /\ known' \subseteq knownFile
  BY DEF Restart, Reload
<1>2. /\ jobFile' = jobs' /\ knownFile' = known'
      /\ task' = [j \in Jobs |-> None] /\ imports' = [k \in Keys |-> "none"]
      /\ UNCHANGED <<candidates, resumes>>
  BY DEF Restart
<1>3. Shapes' BY <1>1, <1>2 DEF Kept, Shapes, TaskShape
<1>4. ASSUME NEW c \in Contents PROVE Accounted(c)'
  <2>1. SavingResume(c)' = {} BY <1>2 DEF SavingResume, Keys
  <2>2. /\ Cardinality(SavingResume(c)) \in Nat
        /\ Cardinality(SavingResume(c)) + resumes[c] <= candidates[c]
        /\ resumes[c] \in Nat /\ candidates[c] \in Nat
    BY FS_CardinalityType DEF Kept, Accounted, Shapes
  <2> QED BY <1>2, <2>1, <2>2, FS_EmptySet DEF Accounted
<1>5. \A j \in Jobs : ~SettingFingerprint(j)' BY <1>2 DEF SettingFingerprint
<1>6. \A c : HasResume(c)' <=> HasResume(c) BY <1>2 DEF HasResume
<1> QED BY <1>1, <1>2, <1>3, <1>4, <1>5, <1>6 DEF Kept

-----------------------------------------------------------------------------

LEMMA NextStep == ASSUME Kept, [Next]_vars PROVE Kept'
<1>1. ASSUME NEW j \in Jobs, Run(j) PROVE Kept'
  BY <1>1, StageStep, ConfirmStep, StartRunStep, CountsStep, ImportStarts, SetFingerprintStep,
     EndsStep DEF Run
<1>2. ASSUME NEW key \in Keys, ImportStep(key) PROVE Kept'
  BY <1>2, SaveCandidateStep, SaveResumeStep, ImportFailsStep DEF ImportStep
<1>3. CASE UNCHANGED vars
  <2>1. Shapes' BY <1>3 DEF vars, files, importVars, Kept, Shapes
  <2>2. \A c \in Contents : SavingResume(c)' = SavingResume(c)
    BY <1>3 DEF vars, importVars, SavingResume
  <2>3. /\ \A c \in Contents : Accounted(c)'
        /\ \A c \in known' \cup knownFile' : HasResume(c)'
    BY <1>3, <2>2, AccountsKept DEF vars, files, importVars, Kept
  <2>4. \A j \in Jobs : SettingFingerprint(j)' =>
          SettingFingerprint(j) /\ j \in turn' /\ Current(j)' = Current(j)
    BY <1>3, NobodyMoves DEF vars
  <2>5. \A c : HasResume(c) => HasResume(c)' BY <1>3, <2>2, AccountsKept DEF vars, importVars
  <2> QED BY <2>1, <2>3, <2>4, <2>5 DEF Kept
<1> QED BY <1>1, <1>2, <1>3, UploadStep, ConfirmStep, RestartStep DEF Next

THEOREM KeptAlways == Spec => []Kept
  BY InitKept, NextStep, PTL DEF Spec

(* A fingerprint promises a candidate and its resume: it is set after both *)
(* saves, also across a restart, since nothing is imported again after it  *)
(* (runJob, executeImport).                                                *)
THEOREM FingerprintsPromise == Spec => []KnownIsComplete
<1>1. ASSUME Kept PROVE KnownIsComplete
  <2>1. ASSUME NEW c \in Contents PROVE resumes[c] <= candidates[c]
    <3>1. /\ Cardinality(SavingResume(c)) \in Nat
          /\ Cardinality(SavingResume(c)) + resumes[c] <= candidates[c]
          /\ resumes[c] \in Nat /\ candidates[c] \in Nat
      BY <1>1, FS_CardinalityType DEF Kept, Accounted, Shapes
    <3> QED BY <3>1
  <2>2. \A c \in known \cup knownFile : resumes[c] > 0 BY <1>1 DEF Kept, HasResume
  <2> QED BY <2>1, <2>2 DEF KnownIsComplete
<1> QED BY <1>1, KeptAlways, PTL

-----------------------------------------------------------------------------
(* The invariants that follow the documents, the files and the candidates. *)

(* What a row's report says of its documents (ReportAddsUp), and that a    *)
(* completed row has one.                                                  *)
RowOK(row) ==
    row # None =>
        /\ row.status \in CompletedStatuses => row.report # None
        /\ row.report # None =>
              /\ Total(row.report) <= Len(row.documents)
              /\ row.report.imported > 0 \/ row.status = "CompletedWithWarnings" =>
                    Total(row.report) = Len(row.documents)

(* What a run has counted and what it has left are the row's documents.    *)
InRun == {"document", "import", "imported", "known", "rejected"}
TaskOK(t, row) ==
    t # None =>
        /\ row # None
        /\ t.at \in InRun =>
              /\ row.status = "Running"
              /\ t.todo \subseteq DOMAIN row.documents
              /\ Total(t.report) + Cardinality(t.todo) = Len(row.documents)
        /\ t.at \in InRun \ {"document"} => t.todo # {}

Reports ==
    /\ TypeOK
    /\ \A j \in Jobs : RowOK(jobs[j]) /\ RowOK(jobFile[j]) /\ TaskOK(task[j], jobs[j])

(* Whatever awaits a confirmation, in memory or on file, is staged.        *)
Awaits(row) == row # None /\ row.status = "AwaitingConfirmation"
StagedRows ==
    \A j \in Jobs :
        Awaits(jobs[j]) \/ Awaits(jobFile[j]) \/ (task[j] # None /\ task[j].at = "staged") =>
            j \in staged

(* The names of a content whose import saves its candidate.                *)
Starting(c) == {n \in Names : imports[<<c, n>>] = "candidate"}

(* An import of the content has been completed since the last restart.     *)
Done(c) == c \in known \/ \E j \in Jobs : SettingFingerprint(j) /\ Current(j).content = c

(* An import in flight is awaited by a run.                                *)
Awaited == \A key \in Keys : imports[key] # "none" => \E j \in Jobs : j \in Awaiting(key)

(* Runs that set the fingerprint of a new content are alone in their turn. *)
AloneInTurn ==
    \A k \in Jobs : SettingFingerprint(k) /\ Current(k).content \notin known =>
        \A j \in turn : SettingFingerprint(j) /\ Current(j).content = Current(k).content

(* The candidates that cost a failure or a restart.                        *)
Excused == failures + restarts * Cardinality(Names)

Once(c) ==
    IF Done(c) THEN candidates[c] + Cardinality(Starting(c)) <= Cardinality(NamesOf(c)) + Excused
               ELSE candidates[c] <= Cardinality(SavingResume(c)) + Excused


-----------------------------------------------------------------------------
(* Positions and packages.                                                 *)

(* There is a first position.                                              *)
LEMMA FirstPosition ==
    ASSUME NEW S \in SUBSET Nat, S # {}
    PROVE  Min(S) \in S
<1> DEFINE T == {0..n : n \in S}
<1>1. T \subseteq FiniteSubsetsOf(Nat)
  <2> SUFFICES ASSUME NEW n \in S PROVE 0..n \in FiniteSubsetsOf(Nat) OBVIOUS
  <2>1. IsFiniteSet(0..n) BY FS_Interval
  <2> QED BY <2>1 DEF FiniteSubsetsOf
<1>2. T # {} OBVIOUS
<1>3. PICK I \in T : \A J \in T : <<J, I>> \notin StrictSubsetOrdering(Nat)
  <2> HIDE DEF T
  <2>1. IsWellFoundedOn(StrictSubsetOrdering(Nat), FiniteSubsetsOf(Nat))
    BY FS_StrictSubsetOrderingWellFounded
  <2> QED BY <1>1, <1>2, <2>1, WFMin
<1>4. PICK m \in S : I = 0..m BY <1>3
<1>5. ASSUME NEW n \in S PROVE m <= n
  <2>1. <<0..n, 0..m>> \notin StrictSubsetOrdering(Nat) BY <1>3, <1>4
  <2>2. SUFFICES ASSUME n < m PROVE FALSE OBVIOUS
  <2>3. 0..n \subseteq 0..m /\ m \in 0..m /\ m \notin 0..n BY <2>2
  <2>4. 0..n \in SUBSET Nat /\ 0..m \in SUBSET Nat OBVIOUS
  <2> QED BY <2>1, <2>3, <2>4 DEF StrictSubsetOrdering
<1> HIDE DEF T
<1> QED BY <1>4, <1>5 DEF Min

(* What is left of the selected documents after the first.                 *)
LEMMA OneLess ==
    ASSUME NEW l \in Nat, NEW S, S \subseteq 1..l
    PROVE  /\ IsFiniteSet(S) /\ Cardinality(S) \in Nat /\ Cardinality(S) <= l
           /\ S # {} => /\ Min(S) \in S
                        /\ Cardinality(S) = Cardinality(S \ {Min(S)}) + 1
           /\ S = {} => Cardinality(S) = 0
<1>1. IsFiniteSet(1..l) /\ Cardinality(1..l) = l BY FS_Interval
<1>2. IsFiniteSet(S) /\ Cardinality(S) <= l /\ Cardinality(S) \in Nat
  BY <1>1, FS_Subset, FS_CardinalityType
<1>3. ASSUME S # {} PROVE Min(S) \in S /\ Cardinality(S) = Cardinality(S \ {Min(S)}) + 1
  <2>1. S \in SUBSET Nat OBVIOUS
  <2>2. Min(S) \in S BY <1>3, <2>1, FirstPosition
  <2>3. Cardinality(S \ {Min(S)}) = Cardinality(S) - 1 BY <1>2, <2>2, FS_RemoveElement
  <2> QED BY <1>2, <2>2, <2>3
<1> QED BY <1>2, <1>3, FS_EmptySet

(* The positions of a package.                                             *)
LEMMA PackagePositions ==
    ASSUME NEW p \in Seq(Document)
    PROVE  /\ DOMAIN p = 1..Len(p) /\ Len(p) \in Nat
           /\ \A n \in DOMAIN p : p[n] \in Document /\ p[n].content \in Contents /\ p[n].name \in Names
           /\ IsFiniteSet(DOMAIN p) /\ Cardinality(DOMAIN p) = Len(p)
<1>1. DOMAIN p = 1..Len(p) /\ Len(p) \in Nat OBVIOUS
<1>2. ASSUME NEW n \in DOMAIN p PROVE p[n] \in Document
  BY <1>1
<1>3. \A d \in Document : d.content \in Contents /\ d.name \in Names BY DEF Document
<1>4. IsFiniteSet(1..Len(p)) /\ Cardinality(1..Len(p)) = Len(p)
  <2>1. PICK l \in Nat : l = Len(p) BY <1>1
  <2>2. 1 \in Int /\ l \in Int /\ (1 > l => l = 0) BY <2>1
  <2>3. IsFiniteSet(1..l) /\ Cardinality(1..l) = l BY <2>2, FS_Interval
  <2> QED BY <2>1, <2>3
<1> QED BY <1>1, <1>2, <1>3, <1>4

(* Packages with the same fingerprint are equally long.                    *)
LEMMA SameLength ==
    ASSUME NEW p \in Seq(Document), NEW q \in Seq(Document), Fingerprint(p) = Fingerprint(q)
    PROVE  Len(p) = Len(q)
<1> DEFINE P(c) == {n \in DOMAIN p : p[n].content = c}
           Q(c) == {n \in DOMAIN q : q[n].content = c}
           F(c) == CHOOSE f : f \in Bijection(P(c), Q(c))
           G == [n \in DOMAIN p |-> F(p[n].content)[n]]
<1>1. /\ DOMAIN p = 1..Len(p) /\ DOMAIN q = 1..Len(q) /\ Len(p) \in Nat /\ Len(q) \in Nat
      /\ \A n \in DOMAIN p : p[n].content \in Contents
      /\ \A n \in DOMAIN q : q[n].content \in Contents
  BY PackagePositions
<1>2. /\ IsFiniteSet(DOMAIN p) /\ Cardinality(DOMAIN p) = Len(p)
      /\ IsFiniteSet(DOMAIN q) /\ Cardinality(DOMAIN q) = Len(q)
  BY <1>1, PackagePositions
<1>3. ASSUME NEW c \in Contents PROVE F(c) \in Bijection(P(c), Q(c))
  <2>1. Cardinality(P(c)) = Cardinality(Q(c))
    <3>1. Fingerprint(p)[c] = Cardinality(P(c)) BY DEF Fingerprint
    <3>2. Fingerprint(q)[c] = Cardinality(Q(c)) BY DEF Fingerprint
    <3> QED BY <3>1, <3>2
  <2>2. IsFiniteSet(P(c)) /\ IsFiniteSet(Q(c))
    <3>1. P(c) \in SUBSET DOMAIN p /\ Q(c) \in SUBSET DOMAIN q OBVIOUS
    <3> QED BY <1>2, <3>1, FS_Subset
  <2>3. ExistsBijection(P(c), Q(c))
    <3> HIDE DEF P, Q
    <3> QED BY <2>1, <2>2, FS_SameCardinalityBij
  <2> QED BY <2>3 DEF ExistsBijection
<1> HIDE DEF F
<1>4. ASSUME NEW n \in DOMAIN p
      PROVE  G[n] \in DOMAIN q /\ q[G[n]].content = p[n].content
  <2>1. p[n].content \in Contents BY <1>1
  <2>2. F(p[n].content) \in [P(p[n].content) -> Q(p[n].content)]
    BY <1>3, <2>1 DEF Bijection, Injection, Surjection
  <2>3. n \in P(p[n].content) OBVIOUS
  <2>4. G[n] \in Q(p[n].content) BY <2>2, <2>3
  <2> QED BY <2>4
<1>5. G \in [DOMAIN p -> DOMAIN q] BY <1>4
<1>6. ASSUME NEW m \in DOMAIN p, NEW n \in DOMAIN p, G[m] = G[n] PROVE m = n
  <2>1. p[m].content = p[n].content BY <1>4, <1>6
  <2>2. PICK c \in Contents : p[m].content = c /\ p[n].content = c BY <1>1, <2>1
  <2>3. m \in P(c) /\ n \in P(c) BY <2>2
  <2>4. F(c)[m] = F(c)[n] BY <1>6, <2>2
  <2> QED BY <1>3, <2>3, <2>4 DEF Bijection, Injection, IsInjective
<1>7. ASSUME NEW m \in DOMAIN q PROVE \E n \in DOMAIN p : G[n] = m
  <2>1. PICK c \in Contents : q[m].content = c BY <1>1
  <2>2. m \in Q(c) BY <2>1
  <2>3. PICK n \in P(c) : F(c)[n] = m BY <1>3, <2>2 DEF Bijection, Surjection
  <2>4. n \in DOMAIN p /\ p[n].content = c BY <2>3
  <2> QED BY <2>3, <2>4
<1>8. G \in Bijection(DOMAIN p, DOMAIN q)
  <2> HIDE DEF G
  <2> QED BY <1>5, <1>6, <1>7 DEF Bijection, Injection, Surjection, IsInjective
<1>9. ExistsBijection(DOMAIN p, DOMAIN q) BY <1>8 DEF ExistsBijection
<1>10. Cardinality(DOMAIN q) = Cardinality(DOMAIN p) BY <1>2, <1>9, FS_Bijection
<1> QED BY <1>2, <1>10

-----------------------------------------------------------------------------
(* Rows and tasks.                                                         *)

LEMMA RowFields ==
    ASSUME NEW row \in Job
    PROVE  /\ row # None
           /\ row.status \in Statuses /\ row.documents \in Packages
           /\ row.documents \in Seq(Document) /\ Len(row.documents) \in Nat
           /\ row.scope \in Scopes \cup {None} /\ row.processed \in Nat
           /\ row.report \in Report \cup {None}
<1>1. row.documents \in Packages /\ row # None BY IngestionAssumption DEF Job
<1>2. row.documents \in Seq(Document) BY <1>1, IngestionAssumption
<1> QED BY <1>1, <1>2 DEF Job

LEMMA TaskFields ==
    ASSUME NEW t \in Task
    PROVE  /\ t # None /\ t.at \in Steps /\ t.scope \in Scopes \cup {None}
           /\ t.todo \in SUBSET Nat /\ t.report \in Report
  BY IngestionAssumption DEF Task

LEMMA ReportFields ==
    ASSUME NEW r \in Report
    PROVE  /\ r.imported \in Nat /\ r.duplicate \in Nat /\ r.skipped \in Nat /\ r.failed \in Nat
           /\ Total(r) = r.imported + r.duplicate + r.skipped + r.failed /\ Total(r) \in Nat
           /\ r # None
  BY IngestionAssumption DEF Report, Total

(* A row with some fields changed.                                         *)
LEMMA RowIn ==
    ASSUME NEW s \in Statuses, NEW d \in Packages, NEW c \in Scopes \cup {None}, NEW p \in Nat,
           NEW r \in Report \cup {None}, NEW row,
           row = [status |-> s, documents |-> d, scope |-> c, processed |-> p, report |-> r]
    PROVE  /\ row \in Job /\ row # None /\ row.status = s /\ row.documents = d /\ row.scope = c
           /\ row.report = r
<1>1. row \in Job BY DEF Job
<1> QED BY <1>1, IngestionAssumption

LEMMA TaskIn ==
    ASSUME NEW a \in Steps, NEW c \in Scopes \cup {None}, NEW d \in SUBSET Nat, NEW r \in Report,
           NEW t, t = [at |-> a, scope |-> c, todo |-> d, report |-> r]
    PROVE  t \in Task /\ t # None /\ t.at = a /\ t.todo = d /\ t.report = r
<1>1. t \in Task BY DEF Task
<1> QED BY <1>1, IngestionAssumption

LEMMA NewTaskIn ==
    ASSUME NEW a \in Steps, NEW c \in Scopes \cup {None}
    PROVE  NewTask(a, c) \in Task /\ NewTask(a, c).at = a
<1> DEFINE r == [imported |-> 0, duplicate |-> 0, skipped |-> 0, failed |-> 0]
<1>1. r \in Report BY DEF Report
<1>2. NewTask(a, c) = [at |-> a, scope |-> c, todo |-> {}, report |-> r] BY DEF NewTask
<1> HIDE DEF r
<1> QED BY <1>1, <1>2, TaskIn

(* A row whose status is set to one that completes nothing.                *)
Restated(row, s, c, new) ==
    new = [row EXCEPT !.status = s] \/ new = [row EXCEPT !.status = s, !.scope = c]

LEMMA StatusRow ==
    ASSUME NEW row \in Job, RowOK(row), NEW s \in Statuses \ CompletedStatuses,
           NEW c \in Scopes \cup {None}, NEW new, Restated(row, s, c, new)
    PROVE  new \in Job /\ RowOK(new) /\ new.documents = row.documents /\ new.status = s /\ new # None
<1>1. /\ row.status \in Statuses /\ row.documents \in Packages
      /\ row.scope \in Scopes \cup {None} /\ row.processed \in Nat
      /\ row.report \in Report \cup {None} /\ row # None
  BY RowFields
<1>2. row = [status |-> row.status, documents |-> row.documents, scope |-> row.scope,
             processed |-> row.processed, report |-> row.report]
  BY DEF Job
<1>3. PICK sc \in Scopes \cup {None} :
         new = [status |-> s, documents |-> row.documents, scope |-> sc,
                processed |-> row.processed, report |-> row.report]
  BY <1>1, <1>2 DEF Restated
<1>4. /\ new \in Job /\ new # None /\ new.status = s /\ new.documents = row.documents
      /\ new.report = row.report
  <2>1. PICK d \in Packages, p \in Nat, r \in Report \cup {None} :
           d = row.documents /\ p = row.processed /\ r = row.report
    BY <1>1
  <2>2. new = [status |-> s, documents |-> d, scope |-> sc, processed |-> p, report |-> r]
    BY <1>3, <2>1
  <2>3. /\ new \in Job /\ new # None /\ new.status = s /\ new.documents = d
        /\ new.report = r
    BY <2>2, RowIn DEF CompletedStatuses
  <2> QED BY <2>1, <2>3
<1>5. RowOK(new) BY <1>1, <1>4 DEF RowOK, CompletedStatuses
<1> QED BY <1>4, <1>5

-----------------------------------------------------------------------------
(* Where a run is.                                                         *)

LEMMA RunFacts ==
    ASSUME Reports, NEW j \in Jobs, task[j] # None
    PROVE  /\ task[j] \in Task /\ jobs[j] \in Job /\ RowOK(jobs[j])
           /\ task[j].at \in InRun =>
                 /\ jobs[j].status = "Running"
                 /\ task[j].todo \subseteq 1..Len(jobs[j].documents)
                 /\ Total(task[j].report) + Cardinality(task[j].todo) = Len(jobs[j].documents)
                 /\ task[j].at # "document" => task[j].todo # {}
<1>1. task[j] \in Task /\ jobs[j] \in Job \cup {None} BY DEF Reports, TypeOK
<1>2. TaskOK(task[j], jobs[j]) /\ RowOK(jobs[j]) BY DEF Reports
<1>3. jobs[j] \in Job BY <1>1, <1>2 DEF TaskOK
<1>4. DOMAIN jobs[j].documents = 1..Len(jobs[j].documents) BY <1>3, RowFields, PackagePositions
<1> QED BY <1>1, <1>2, <1>3, <1>4 DEF TaskOK, InRun

(* The document a run is at, and what it leaves.                           *)
LEMMA AtCurrent ==
    ASSUME Reports, NEW j \in Jobs, task[j] # None, task[j].at \in InRun, task[j].todo # {}
    PROVE  /\ Current(j).content \in Contents /\ Current(j).name \in Names /\ KeyOf(j) \in Keys
           /\ Min(task[j].todo) \in DOMAIN jobs[j].documents
           /\ Cardinality(task[j].todo \ {Min(task[j].todo)}) \in Nat
           /\ Cardinality(task[j].todo) = Cardinality(task[j].todo \ {Min(task[j].todo)}) + 1
<1>1. task[j].todo \subseteq 1..Len(jobs[j].documents) /\ jobs[j] \in Job BY RunFacts
<1>2. PICK l \in Nat, d \in Seq(Document) : jobs[j].documents = d /\ l = Len(d)
  BY <1>1, RowFields
<1>3. PICK S : S = task[j].todo /\ S \subseteq 1..l /\ S # {} BY <1>1, <1>2
<1>4. Min(S) \in S /\ Cardinality(S) = Cardinality(S \ {Min(S)}) + 1 BY <1>3, OneLess
<1>5. S \ {Min(S)} \subseteq 1..l BY <1>3
<1>6. Cardinality(S \ {Min(S)}) \in Nat BY <1>5, OneLess
<1>7. DOMAIN d = 1..l BY <1>2, PackagePositions
<1>8. Min(S) \in DOMAIN d BY <1>3, <1>4, <1>7
<1>9. d[Min(S)].content \in Contents /\ d[Min(S)].name \in Names BY <1>8, PackagePositions
<1>10. Current(j) = d[Min(S)] BY <1>2, <1>3 DEF Current
<1> QED BY <1>2, <1>3, <1>4, <1>6, <1>8, <1>9, <1>10 DEF KeyOf, Keys
-----------------------------------------------------------------------------
(* Reports add up.                                                         *)

Stores ==
    /\ known \subseteq Contents /\ knownFile \subseteq Contents
    /\ staged \subseteq Jobs /\ buffers \subseteq Jobs
    /\ imports \in [Keys -> {"none", "candidate", "resume"}]
    /\ candidates \in [Contents -> Nat] /\ resumes \in [Contents -> Nat]
    /\ failures \in Nat /\ faults \in Nat /\ restarts \in Nat

(* A handler goes on, with its row saved or as it was.                     *)
Moves(j, row, t) ==
    /\ row \in Job /\ RowOK(row)
    /\ t \in Task \cup {None} /\ TaskOK(t, row)
    /\ jobs' = [jobs EXCEPT ![j] = row]
    /\ jobFile' = jobs' \/ jobFile' = jobFile
    /\ Continue(j, t)

LEMMA MovesStep ==
    ASSUME Reports, NEW j \in Jobs, NEW row, NEW t, Moves(j, row, t), Stores'
    PROVE  Reports'
<1>1. /\ jobs' \in [Jobs -> Job \cup {None}] /\ jobFile' \in [Jobs -> Job \cup {None}]
      /\ task' \in [Jobs -> Task \cup {None}]
      /\ turn' \subseteq {k \in Jobs : task'[k] # None}
  <2>1. jobs' \in [Jobs -> Job \cup {None}] BY DEF Moves, Reports, TypeOK
  <2>2. jobFile' \in [Jobs -> Job \cup {None}] BY <2>1 DEF Moves, Reports, TypeOK
  <2>3. task' = [task EXCEPT ![j] = t] BY DEF Moves, Continue
  <2>4. task \in [Jobs -> Task \cup {None}] /\ turn \subseteq {k \in Jobs : task[k] # None}
    BY DEF Reports, TypeOK
  <2>5. t \in Task \cup {None} BY DEF Moves
  <2>6. \/ t # None /\ turn' = turn \cup {j}
        \/ turn' = turn \ {j}
    BY DEF Moves, Continue
  <2>7. task' \in [Jobs -> Task \cup {None}] BY <2>3, <2>4, <2>5
  <2>8. turn' \subseteq {k \in Jobs : task'[k] # None} BY <2>3, <2>4, <2>6
  <2> QED BY <2>1, <2>2, <2>7, <2>8
<1>2. ASSUME NEW k \in Jobs
      PROVE  RowOK(jobs'[k]) /\ RowOK(jobFile'[k]) /\ TaskOK(task'[k], jobs'[k])
  <2>1. RowOK(jobs[k]) /\ RowOK(jobFile[k]) /\ TaskOK(task[k], jobs[k]) BY DEF Reports
  <2>2. jobs'[k] = IF k = j THEN row ELSE jobs[k] BY DEF Moves, Reports, TypeOK
  <2>3. task'[k] = IF k = j THEN t ELSE task[k] BY DEF Moves, Continue, Reports, TypeOK
  <2>4. RowOK(row) /\ TaskOK(t, row) BY DEF Moves
  <2>5. RowOK(jobs'[k]) /\ TaskOK(task'[k], jobs'[k])
    <3>1. CASE k = j BY <2>2, <2>3, <2>4, <3>1
    <3>2. CASE k # j BY <2>1, <2>2, <2>3, <3>2
    <3> QED BY <3>1, <3>2
  <2>6. jobFile'[k] = jobs'[k] \/ jobFile'[k] = jobFile[k] BY DEF Moves
  <2> QED BY <2>1, <2>5, <2>6
<1>3. TypeOK' BY <1>1 DEF TypeOK, Stores
<1> QED BY <1>2, <1>3 DEF Reports

LEMMA PersistMoves ==
    ASSUME NEW j \in Jobs, NEW row \in Job, RowOK(row),
           NEW t \in Task \cup {None}, TaskOK(t, row),
           NEW u \in {None, Rejected}, Persist(j, row, t, u)
    PROVE  \E w : Moves(j, row, w)
<1>1. Rejected \in Task /\ Rejected.at = "failed"
  BY NewTaskIn DEF Rejected, Steps
<1>2. u \in Task \cup {None} /\ TaskOK(u, row)
  <2>1. row # None BY RowFields
  <2> QED BY <1>1, <2>1 DEF TaskOK, InRun
<1> QED BY <1>2 DEF Persist, Moves
-----------------------------------------------------------------------------
(* What every handler does.                                                *)

CompletedRow(row) == row # None /\ row.status \in CompletedStatuses

(* It moves in its turn, on the documents of its job, and gives up what is *)
(* staged only with the end of the job on file.                            *)
Handled(j, row, t) ==
    /\ Moves(j, row, t)
    /\ j \in turn \/ turn = {}
    /\ jobs[j] # None => row.documents = jobs[j].documents
    /\ staged \ {j} \subseteq staged'
    /\ \/ j \in staged'
       \/ /\ ~Awaits(row) /\ (t # None => t.at # "staged")
          /\ j \notin staged \/ CompletedRow(jobFile'[j])

(* It has no part in the saves of an import.                               *)
Apart == {"import", "imported"}
Plain(j, t) ==
    /\ task[j] # None => task[j].at \notin Apart
    /\ t # None => t.at \notin Apart
    /\ UNCHANGED <<known, importVars, restarts>>

(* A row that a handler may save.                                          *)
MaySave(j, row) ==
    /\ row \in Job /\ RowOK(row)
    /\ jobs[j] # None => row.documents = jobs[j].documents
    /\ Awaits(row) => j \in staged

LEMMA PersistHandled ==
    ASSUME NEW j \in Jobs, NEW row, MaySave(j, row),
           NEW t \in Task \cup {None}, TaskOK(t, row), t # None => t.at \notin Apart \cup {"staged"},
           NEW u \in {None, Rejected}, Persist(j, row, t, u),
           j \in turn \/ turn = {}, task[j] # None => task[j].at \notin Apart,
           UNCHANGED <<known, importVars, restarts, staged>>
    PROVE  \E w : Handled(j, row, w) /\ Plain(j, w)
<1>1. Rejected \in Task /\ Rejected.at = "failed" BY NewTaskIn DEF Rejected, Steps
<1>2. row # None /\ row \in Job /\ RowOK(row) BY RowFields DEF MaySave
<1>3. u \in Task \cup {None} /\ TaskOK(u, row) /\ (u # None => u.at \notin Apart \cup {"staged"})
  BY <1>1, <1>2 DEF TaskOK, InRun, Apart
<1>4. PICK w \in {t, u} :
         /\ jobs' = [jobs EXCEPT ![j] = row] /\ (jobFile' = jobs' \/ jobFile' = jobFile)
         /\ Continue(j, w)
  BY DEF Persist
<1>5. /\ w \in Task \cup {None} /\ TaskOK(w, row)
      /\ w # None => w.at \notin Apart \cup {"staged"}
  BY <1>3, <1>4
<1>6. Moves(j, row, w) BY <1>2, <1>4, <1>5 DEF Moves
<1>7. Handled(j, row, w)
  <2>1. w # None => w.at # "staged" BY <1>5
  <2>2. j \in staged \/ ~Awaits(row) BY DEF MaySave
  <2>3. jobs[j] # None => row.documents = jobs[j].documents BY DEF MaySave
  <2> QED BY <1>6, <2>1, <2>2, <2>3 DEF Handled
<1>8. Plain(j, w) BY <1>5 DEF Plain
<1> QED BY <1>7, <1>8

(* Types of the stores when only rows and bytes change.                    *)
LEMMA StoresKept ==
    ASSUME TypeOK, UNCHANGED <<known, knownFile, importVars, restarts>>,
           staged' \subseteq Jobs, buffers' \subseteq Jobs,
           faults' = faults \/ faults' = faults + 1
    PROVE  Stores'
  BY DEF TypeOK, Stores, importVars

(* Whoever waits for a confirmation has no run under way.                  *)
LEMMA NoRun ==
    ASSUME Reports, NEW j \in Jobs, jobs[j] = None \/ jobs[j].status # "Running"
    PROVE  task[j] # None => task[j].at \notin InRun
  BY RunFacts, RowFields DEF Reports, TaskOK

-----------------------------------------------------------------------------
(* Uploads and confirmations.                                              *)

LEMMA UploadAgainHandled ==
    ASSUME Reports, NEW j \in Jobs, NEW k \in Jobs, NEW p \in Packages, UploadAgain(j, k, p)
    PROVE  \E row, w : Handled(j, row, w) /\ Plain(j, w)
<1>1. /\ jobs[j] = None /\ j \notin staged /\ turn = {}
      /\ jobs[k] # None /\ jobs[k].status \in CompletedStatuses
      /\ Fingerprint(jobs[k].documents) = Fingerprint(p)
  BY DEF UploadAgain, Fresh, Prior
<1>2. jobs[k] \in Job /\ RowOK(jobs[k]) BY <1>1 DEF Reports, TypeOK
<1>3. PICK r \in Report : r = jobs[k].report /\ Total(r) <= Len(jobs[k].documents)
  BY <1>1, <1>2, RowFields DEF RowOK
<1>4. /\ p \in Seq(Document) /\ Len(p) \in Nat /\ Len(p) = Len(jobs[k].documents)
  BY <1>1, <1>2, RowFields, SameLength, IngestionAssumption
<1> DEFINE copied == [imported |-> 0, duplicate |-> r.imported + r.duplicate,
                      skipped |-> r.skipped, failed |-> 0]
           scope == IF jobs[k].scope = None THEN "cv" ELSE jobs[k].scope
           row == [NewJob(p) EXCEPT !.status = "Completed", !.scope = scope,
                                    !.processed = Len(p), !.report = copied]
<1>5. copied \in Report /\ copied # None /\ copied.imported = 0 /\ Total(copied) <= Len(p)
  <2>1. copied \in Report BY <1>3, ReportFields DEF Report
  <2>2. Total(copied) = r.imported + r.duplicate + r.skipped BY <1>3, ReportFields DEF Total
  <2>3. Total(copied) <= Len(p)
    <3>0. /\ r.imported \in Nat /\ r.duplicate \in Nat /\ r.skipped \in Nat /\ r.failed \in Nat
          /\ Total(r) = r.imported + r.duplicate + r.skipped + r.failed
      BY <1>3, ReportFields
    <3>1. PICK i \in Nat, d \in Nat, s \in Nat, f \in Nat :
             /\ i = r.imported /\ d = r.duplicate /\ s = r.skipped
             /\ Total(r) = i + d + s + f
      <4> HIDE DEF copied
      <4> QED BY <3>0
    <3>2. Total(copied) = i + d + s BY <2>2, <3>1
    <3>3. PICK l \in Nat : l = Len(p) /\ i + d + s + f <= l BY <1>3, <1>4, <3>1
    <3>4. i + d + s <= l BY <3>3
    <3> HIDE DEF copied
    <3> QED BY <3>2, <3>3, <3>4
  <2> QED BY <2>1, <2>3, ReportFields
<1>6. scope \in Scopes \cup {None} BY <1>2, RowFields DEF Scopes
<1> HIDE DEF copied, scope
<1>7. row = [status |-> "Completed", documents |-> p, scope |-> scope, processed |-> Len(p),
             report |-> copied]
  <2>1. PICK n, sc, l, cr : n = NewJob(p) /\ sc = scope /\ l = Len(p) /\ cr = copied OBVIOUS
  <2>2. n = [status |-> "Created", documents |-> p, scope |-> None, processed |-> 0, report |-> None]
    BY <2>1 DEF NewJob
  <2>3. row = [n EXCEPT !.status = "Completed", !.scope = sc, !.processed = l, !.report = cr]
    BY <2>1
  <2> HIDE DEF row
  <2>4. row = [status |-> "Completed", documents |-> p, scope |-> sc, processed |-> l, report |-> cr]
    BY <2>2, <2>3
  <2> QED BY <2>1, <2>4
<1>8. Persist(j, row, None, None) BY <1>3 DEF UploadAgain, copied, scope
<1> HIDE DEF row
<1>9. "Completed" \in Statuses BY DEF Statuses
<1>10. row \in Job /\ row.status = "Completed" /\ row.documents = p /\ row.report = copied
  BY <1>4, <1>5, <1>6, <1>7, <1>9, RowIn
<1>11. MaySave(j, row) BY <1>1, <1>5, <1>10 DEF MaySave, RowOK, Awaits
<1>12. task[j] # None => task[j].at \notin Apart BY <1>1, NoRun DEF InRun, Apart
<1>13. UNCHANGED <<known, importVars, restarts, staged>> BY DEF UploadAgain
<1> QED BY <1>1, <1>8, <1>11, <1>12, <1>13, PersistHandled DEF TaskOK

LEMMA UploadHandled ==
    ASSUME Reports, NEW j \in Jobs, NEW p \in Packages, NEW scope \in Scopes \cup {None},
           Upload(j, p, scope)
    PROVE  \E row, w : Handled(j, row, w) /\ Plain(j, w)
<1>1. jobs[j] = None /\ turn = {} BY DEF Upload, Fresh
<1>2. PICK s \in Scopes \cup {None} : Persist(j, NewJob(p), NewTask("stage", s), None)
  BY DEF Upload, ScopeToConfirm, Scopes
<1>3. /\ NewJob(p) \in Job /\ NewJob(p).status = "Created" /\ NewJob(p).report = None
      /\ NewJob(p) # None
  BY RowIn DEF NewJob, Statuses
<1>4. MaySave(j, NewJob(p)) BY <1>1, <1>3 DEF MaySave, RowOK, Awaits, CompletedStatuses
<1>5. NewTask("stage", s) \in Task /\ NewTask("stage", s).at = "stage" BY <1>2, NewTaskIn DEF Steps
<1>6. TaskOK(NewTask("stage", s), NewJob(p)) BY <1>3, <1>5 DEF TaskOK, InRun
<1>7. task[j] # None => task[j].at \notin Apart BY <1>1, NoRun DEF InRun, Apart
<1>8. UNCHANGED <<known, importVars, restarts, staged>> BY DEF Upload
<1>9. NewTask("stage", s).at \notin Apart \cup {"staged"} BY <1>5 DEF Apart
<1> QED BY <1>1, <1>2, <1>4, <1>5, <1>6, <1>7, <1>8, <1>9, PersistHandled

(* A row that is queued, run or failed may be saved.                       *)
LEMMA StatusMaySave ==
    ASSUME NEW j \in Jobs, jobs[j] \in Job, RowOK(jobs[j]),
           NEW s \in Statuses \ CompletedStatuses, s = "AwaitingConfirmation" => j \in staged,
           NEW c \in Scopes \cup {None}, NEW new, Restated(jobs[j], s, c, new)
    PROVE  MaySave(j, new) /\ new.status = s /\ new # None
<1>1. PICK row : row = jobs[j] OBVIOUS
<1>2. /\ new \in Job /\ RowOK(new) /\ new.documents = row.documents /\ new.status = s
      /\ new # None
  BY <1>1, StatusRow
<1> QED BY <1>1, <1>2 DEF MaySave, Awaits

LEMMA StartTask ==
    ASSUME NEW row, row # None
    PROVE  /\ NewTask("start", None) \in Task /\ TaskOK(NewTask("start", None), row)
           /\ NewTask("start", None).at \notin Apart \cup {"staged"}
<1>1. NewTask("start", None) \in Task /\ NewTask("start", None).at = "start" BY NewTaskIn DEF Steps
<1> QED BY <1>1 DEF TaskOK, InRun, Apart

LEMMA ConfirmHandled ==
    ASSUME Reports, NEW j \in Jobs, NEW scope \in Scopes, Confirm(j, scope)
    PROVE  \E row, w : Handled(j, row, w) /\ Plain(j, w)
<1>1. turn = {} /\ jobs[j] # None /\ jobs[j].status \in {"AwaitingConfirmation", "Created"}
  BY DEF Confirm, Confirmable
<1>2. jobs[j] \in Job /\ RowOK(jobs[j]) BY <1>1 DEF Reports, TypeOK
<1>3. PICK row : row = [jobs[j] EXCEPT !.status = "Queued", !.scope = scope] OBVIOUS
<1>4. MaySave(j, row) /\ row # None
  <2>1. Restated(jobs[j], "Queued", scope, row) BY <1>3 DEF Restated
  <2>2. "Queued" \in Statuses \ CompletedStatuses BY DEF Statuses, CompletedStatuses
  <2> QED BY <1>2, <2>1, <2>2, StatusMaySave
<1>5. Persist(j, row, NewTask("start", None), None) BY <1>3 DEF Confirm
<1>6. task[j] # None => task[j].at \notin Apart BY <1>1, NoRun DEF InRun, Apart
<1>7. UNCHANGED <<known, importVars, restarts, staged>> BY DEF Confirm
<1> QED BY <1>1, <1>4, <1>5, <1>6, <1>7, StartTask, PersistHandled

LEMMA EndUploadHandled ==
    ASSUME Reports, StagedRows, NEW j \in Jobs, EndUpload(j)
    PROVE  \E row, w : Handled(j, row, w) /\ Plain(j, w)
<1>1. task[j] # None /\ task[j].at = "staged" /\ j \in turn BY DEF EndUpload, At
<1>2. jobs[j] \in Job /\ RowOK(jobs[j]) /\ task[j] \in Task BY <1>1, RunFacts
<1>3. j \in staged BY <1>1 DEF StagedRows
<1>4. task[j].at \notin Apart BY <1>1 DEF Apart
<1>5. UNCHANGED <<known, importVars, restarts, staged>> BY DEF EndUpload
<1>6. CASE task[j].scope = None
  <2>1. PICK row : row = [jobs[j] EXCEPT !.status = "AwaitingConfirmation"] OBVIOUS
  <2>2. MaySave(j, row)
    <3>1. Restated(jobs[j], "AwaitingConfirmation", None, row) BY <2>1 DEF Restated
    <3>2. "AwaitingConfirmation" \in Statuses \ CompletedStatuses BY DEF Statuses, CompletedStatuses
    <3> QED BY <1>2, <1>3, <3>1, <3>2, StatusMaySave
  <2>3. Persist(j, row, None, None) BY <1>6, <2>1 DEF EndUpload
  <2> QED BY <1>1, <1>4, <1>5, <2>2, <2>3, PersistHandled DEF TaskOK
<1>7. CASE task[j].scope # None
  <2>1. PICK sc \in Scopes \cup {None} : sc = task[j].scope BY <1>2, TaskFields
  <2>2. PICK row : row = [jobs[j] EXCEPT !.status = "Queued", !.scope = sc] OBVIOUS
  <2>3. MaySave(j, row) /\ row # None
    <3>1. Restated(jobs[j], "Queued", sc, row) BY <2>2 DEF Restated
    <3>2. "Queued" \in Statuses \ CompletedStatuses BY DEF Statuses, CompletedStatuses
    <3> QED BY <1>2, <2>1, <3>1, <3>2, StatusMaySave
  <2>4. Persist(j, row, NewTask("start", None), None) BY <1>7, <2>1, <2>2 DEF EndUpload
  <2> QED BY <1>1, <1>4, <1>5, <2>3, <2>4, StartTask, PersistHandled
<1> QED BY <1>6, <1>7
-----------------------------------------------------------------------------
(* The handlers of a job.                                                  *)

LEMMA StageHandled ==
    ASSUME Reports, StagedRows, NEW j \in Jobs, Stage(j)
    PROVE  \E row, w : Handled(j, row, w) /\ Plain(j, w)
<1>1. task[j] # None /\ task[j].at = "stage" /\ j \in turn BY DEF Stage, At
<1>2. task[j] \in Task /\ jobs[j] \in Job /\ RowOK(jobs[j]) /\ jobs[j] # None
  BY <1>1, RunFacts, RowFields
<1>3. PICK t \in {[task[j] EXCEPT !.at = "staged"], None} :
         Continue(j, t) /\ IF t = None THEN staged' = staged ELSE staged' = staged \cup {j}
  <2>1. PICK u \in Task : u = task[j] BY <1>2
  <2>2. [u EXCEPT !.at = "staged"] # None
    <3>1. [u EXCEPT !.at = "staged"] \in Task BY DEF Task, Steps
    <3> QED BY <3>1, IngestionAssumption
  <2> QED BY <2>1, <2>2 DEF Stage
<1>4. t \in Task \cup {None} /\ (t # None => t.at = "staged")
  <2>1. PICK u \in Task : u = task[j] BY <1>2
  <2>2. [u EXCEPT !.at = "staged"] \in Task /\ [u EXCEPT !.at = "staged"].at = "staged"
    BY DEF Task, Steps
  <2> QED BY <1>3, <2>1, <2>2
<1>5. jobs' = [jobs EXCEPT ![j] = jobs[j]] /\ jobFile' = jobFile
  BY DEF Stage, Reports, TypeOK
<1>6. Moves(j, jobs[j], t) BY <1>2, <1>3, <1>4, <1>5 DEF Moves, TaskOK, InRun
<1>7. Handled(j, jobs[j], t)
  <2>1. Awaits(jobs[j]) => j \in staged BY DEF StagedRows
  <2>2. CASE t = None BY <1>1, <1>3, <1>6, <2>1, <2>2 DEF Handled
  <2>3. CASE t # None BY <1>1, <1>3, <1>6, <2>3 DEF Handled
  <2> QED BY <2>2, <2>3
<1>8. UNCHANGED <<known, importVars, restarts>> BY DEF Stage
<1>9. Plain(j, t) BY <1>1, <1>4, <1>8 DEF Plain, Apart
<1> QED BY <1>7, <1>9

(* Which documents a run goes through, and how many it leaves out.         *)
LEMMA SelectedFacts ==
    ASSUME NEW row \in Job
    PROVE  /\ Selected(row) \subseteq 1..Len(row.documents)
           /\ Selected(row) \subseteq DOMAIN row.documents
           /\ OutOfScope(row) \in Nat /\ Cardinality(Selected(row)) \in Nat
           /\ OutOfScope(row) + Cardinality(Selected(row)) = Len(row.documents)
<1>1. PICK d \in Seq(Document), l \in Nat : d = row.documents /\ l = Len(d) BY RowFields
<1>2. DOMAIN d = 1..l BY <1>1, PackagePositions
<1>3. Selected(row) \subseteq DOMAIN row.documents BY DEF Selected
<1>4. PICK S : S = Selected(row) /\ S \subseteq 1..l BY <1>1, <1>2, <1>3
<1>5. Cardinality(S) \in Nat /\ Cardinality(S) <= l BY <1>4, OneLess
<1>6. OutOfScope(row) = l - Cardinality(S) BY <1>1, <1>4 DEF OutOfScope
<1> QED BY <1>1, <1>3, <1>4, <1>5, <1>6

LEMMA StartRunHandled ==
    ASSUME Reports, NEW j \in Jobs, StartRun(j)
    PROVE  \E row, w : Handled(j, row, w) /\ Plain(j, w)
<1>1. task[j] # None /\ task[j].at = "start" /\ j \in turn BY DEF StartRun, At
<1>2. jobs[j] \in Job /\ RowOK(jobs[j]) BY <1>1, RunFacts
<1>3. PICK row : row = [jobs[j] EXCEPT !.status = "Running"] OBVIOUS
<1>4. MaySave(j, row) /\ row # None /\ row.status = "Running" /\ row.documents = jobs[j].documents
  <2>1. Restated(jobs[j], "Running", None, row) BY <1>3 DEF Restated
  <2>2. "Running" \in Statuses \ CompletedStatuses BY DEF Statuses, CompletedStatuses
  <2>3. jobs[j] # None BY <1>2, RowFields
  <2>4. MaySave(j, row) /\ row # None /\ row.status = "Running" BY <1>2, <2>1, <2>2, StatusMaySave
  <2> QED BY <2>3, <2>4 DEF MaySave
<1>5. PICK o \in Nat, S \in SUBSET Nat :
         /\ o = OutOfScope(jobs[j]) /\ S = Selected(jobs[j])
         /\ S \subseteq DOMAIN jobs[j].documents
         /\ o + Cardinality(S) = Len(jobs[j].documents)
  <2>1. Selected(jobs[j]) \in SUBSET Nat BY <1>2, SelectedFacts, RowFields
  <2> QED BY <1>2, <2>1, SelectedFacts
<1>6. PICK t : t = [NewTask("document", None) EXCEPT !.todo = S, !.report.skipped = o] OBVIOUS
<1>7. PICK r : r = [imported |-> 0, duplicate |-> 0, skipped |-> o, failed |-> 0] OBVIOUS
<1>8. t = [at |-> "document", scope |-> None, todo |-> S, report |-> r]
  BY <1>6, <1>7 DEF NewTask
<1>9. r \in Report /\ Total(r) = o
  <2>1. r \in Report BY <1>7 DEF Report
  <2> QED BY <1>7, <2>1 DEF Total
<1>10. t \in Task /\ t.at = "document" /\ t.todo = S /\ t.report = r
  <2>1. "document" \in Steps BY DEF Steps
  <2> QED BY <1>8, <1>9, <2>1, TaskIn
<1>11. TaskOK(t, row) BY <1>4, <1>5, <1>9, <1>10 DEF TaskOK, InRun
<1>12. Persist(j, row, t, Rejected) BY <1>3, <1>5, <1>6 DEF StartRun
<1>13. UNCHANGED <<known, importVars, restarts, staged>> BY DEF StartRun
<1>14. task[j].at \notin Apart /\ t.at \notin Apart \cup {"staged"} BY <1>1, <1>10 DEF Apart
<1> QED BY <1>1, <1>4, <1>10, <1>11, <1>12, <1>13, <1>14, PersistHandled

(* A document counted in the report and taken off what is left.            *)
LEMMA CountHandled ==
    ASSUME Reports, NEW j \in Jobs, task[j] # None, task[j].at \in InRun \ Apart,
           task[j].todo # {}, j \in turn,
           NEW report \in Report, Total(report) = Total(task[j].report) + 1,
           Count(j, report), UNCHANGED importVars
    PROVE  \E row, w : Handled(j, row, w) /\ Plain(j, w)
<1>1. /\ jobs[j] \in Job /\ RowOK(jobs[j]) /\ task[j] \in Task
      /\ jobs[j].status = "Running"
      /\ task[j].todo \subseteq 1..Len(jobs[j].documents)
      /\ Total(task[j].report) + Cardinality(task[j].todo) = Len(jobs[j].documents)
  BY RunFacts
<1>2. PICK left : left = task[j].todo \ {Min(task[j].todo)} OBVIOUS
<1>3. PICK n : n = Cardinality(Selected(jobs[j]) \ left) OBVIOUS
<1>4. n \in Nat
  <2>1. PICK l \in Nat : l = Len(jobs[j].documents) BY <1>1, RowFields
  <2>2. PICK S : S = Selected(jobs[j]) \ left /\ S \subseteq 1..l BY <1>1, <2>1, SelectedFacts
  <2> QED BY <1>3, <2>2, OneLess
<1>5. PICK row : row = [jobs[j] EXCEPT !.processed = n] OBVIOUS
<1>6. PICK t : t = [task[j] EXCEPT !.at = "document", !.todo = left, !.report = report] OBVIOUS
<1>7. Persist(j, row, t, Rejected) BY <1>2, <1>3, <1>5, <1>6 DEF Count
<1>8. /\ row \in Job /\ row # None /\ row.status = "Running" /\ row.documents = jobs[j].documents
      /\ row.report = jobs[j].report
  <2>1. PICK u \in Job : u = jobs[j] BY <1>1
  <2>2. row \in Job BY <1>4, <1>5, <2>1 DEF Job
  <2>3. row.status = u.status /\ row.documents = u.documents /\ row.report = u.report
    BY <1>5, <2>1 DEF Job
  <2> QED BY <1>1, <2>1, <2>2, <2>3, RowFields
<1>9. MaySave(j, row)
  <2>1. jobs[j] # None BY <1>1, RowFields
  <2>2. RowOK(row) BY <1>1, <1>8, <2>1 DEF RowOK, CompletedStatuses
  <2> QED BY <1>8, <2>2 DEF MaySave, Awaits
<1>10. t \in Task /\ t.at = "document" /\ t.todo = left /\ t.report = report
  <2>1. PICK u \in Task : u = task[j] BY <1>1
  <2>2. PICK sc \in Scopes \cup {None} : sc = u.scope BY TaskFields
  <2>3. left \in SUBSET Nat BY <1>1, <1>2, TaskFields
  <2>4. t = [at |-> "document", scope |-> sc, todo |-> left, report |-> report]
    BY <1>6, <2>1, <2>2 DEF Task
  <2>5. "document" \in Steps BY DEF Steps
  <2> QED BY <2>3, <2>4, <2>5, TaskIn
<1>11. TaskOK(t, row)
  <2>1. /\ Cardinality(left) \in Nat /\ Cardinality(task[j].todo) = Cardinality(left) + 1
    BY <1>2, AtCurrent
  <2>2. PICK m \in Nat, a \in Nat, l \in Nat :
           m = Total(task[j].report) /\ a = Cardinality(left) /\ l = Len(jobs[j].documents)
    BY <1>1, <2>1, TaskFields, ReportFields, RowFields
  <2>3. m + (a + 1) = l BY <1>1, <2>1, <2>2
  <2>4. Total(report) + Cardinality(left) = l
    <3>1. Total(report) = m + 1 BY <2>2
    <3> QED BY <2>2, <2>3, <3>1
  <2>5. left \subseteq DOMAIN row.documents
    <3>1. DOMAIN jobs[j].documents = 1..Len(jobs[j].documents) BY <1>1, RowFields, PackagePositions
    <3> QED BY <1>1, <1>2, <1>8, <3>1
  <2> QED BY <1>8, <1>10, <2>2, <2>4, <2>5 DEF TaskOK, InRun
<1>12. UNCHANGED <<known, importVars, restarts, staged>> BY DEF Count
<1>13. task[j].at \notin Apart /\ t.at \notin Apart \cup {"staged"} BY <1>10 DEF Apart
<1> QED BY <1>7, <1>9, <1>10, <1>11, <1>12, <1>13, PersistHandled

(* One more of anything is one more in total.                              *)
LEMMA OneMore ==
    ASSUME NEW r \in Report, NEW new,
           \/ new = [r EXCEPT !.imported = @ + 1] \/ new = [r EXCEPT !.duplicate = @ + 1]
           \/ new = [r EXCEPT !.skipped = @ + 1]  \/ new = [r EXCEPT !.failed = @ + 1]
    PROVE  new \in Report /\ Total(new) = Total(r) + 1
<1>1. new \in Report BY DEF Report
<1> QED BY <1>1 DEF Report, Total

LEMMA CountsHandled ==
    ASSUME Reports, NEW j \in Jobs,
           CountDuplicate(j) \/ CountSkipped(j) \/ CountFailed(j) \/ CountImported(j)
    PROVE  \E row, w : Handled(j, row, w) /\ Plain(j, w)
<1>1. /\ task[j] # None /\ j \in turn /\ task[j].at \in InRun \ Apart
      /\ task[j].at = "document" => task[j].todo # {}
  BY DEF CountDuplicate, CountSkipped, CountFailed, CountImported, AtDocument, At, InRun, Apart
<1>2. task[j].todo # {} BY <1>1, RunFacts
<1>3. PICK r \in Report : r = task[j].report BY <1>1, RunFacts, TaskFields
<1>4. PICK report : /\ Count(j, report)
                    /\ \/ report = [r EXCEPT !.imported = @ + 1]
                       \/ report = [r EXCEPT !.duplicate = @ + 1]
                       \/ report = [r EXCEPT !.skipped = @ + 1]
                       \/ report = [r EXCEPT !.failed = @ + 1]
  BY <1>3 DEF CountDuplicate, CountSkipped, CountFailed, CountImported
<1>5. report \in Report /\ Total(report) = Total(task[j].report) + 1 BY <1>3, <1>4, OneMore
<1>6. UNCHANGED importVars BY DEF CountDuplicate, CountSkipped, CountFailed, CountImported
<1> QED BY <1>1, <1>2, <1>4, <1>5, <1>6, CountHandled

(* The end of a run: every document is counted, and the bytes go only when *)
(* it is on file.                                                          *)
LEMMA FinishHandled ==
    ASSUME Reports, NEW j \in Jobs, Finish(j)
    PROVE  \E row, w : Handled(j, row, w) /\ Plain(j, w)
<1>1. task[j] # None /\ task[j].at = "document" /\ j \in turn /\ task[j].todo = {}
  BY DEF Finish, At
<1>2. /\ jobs[j] \in Job /\ task[j] \in Task
      /\ Total(task[j].report) + Cardinality(task[j].todo) = Len(jobs[j].documents)
  BY <1>1, RunFacts DEF InRun
<1>3. PICK r \in Report, s \in CompletedStatuses : r = task[j].report /\ s = StatusOf(r)
  BY <1>2, TaskFields DEF StatusOf, CompletedStatuses
<1>4. PICK n \in Nat : n = Cardinality(Selected(jobs[j])) BY <1>2, SelectedFacts
<1>5. PICK row : row = [jobs[j] EXCEPT !.status = s, !.report = r, !.processed = n] OBVIOUS
<1>6. /\ row \in Job /\ row # None /\ row.status = s /\ row.documents = jobs[j].documents
      /\ row.report = r
  <2>1. PICK u \in Job : u = jobs[j] BY <1>2
  <2>2. s \in Statuses BY <1>3 DEF Statuses, CompletedStatuses
  <2>3. PICK d \in Packages, c \in Scopes \cup {None} : d = u.documents /\ c = u.scope
    BY RowFields
  <2>4. row = [status |-> s, documents |-> d, scope |-> c, processed |-> n, report |-> r]
    BY <1>5, <2>1, <2>3 DEF Job
  <2>5. /\ row \in Job /\ row # None /\ row.status = s /\ row.documents = d /\ row.report = r
    BY <2>2, <2>4, RowIn
  <2> QED BY <2>1, <2>3, <2>5
<1>7. RowOK(row)
  <2>1. Cardinality(task[j].todo) = 0 BY <1>1, FS_EmptySet
  <2>2. PICK m \in Nat, l \in Nat : m = Total(r) /\ l = Len(jobs[j].documents)
    BY <1>2, ReportFields, RowFields
  <2>3. m = l BY <1>2, <1>3, <2>1, <2>2
  <2> QED BY <1>3, <1>6, <2>2, <2>3, ReportFields DEF RowOK
<1>8. Rejected \in Task /\ Rejected.at = "failed" /\ Rejected # None
  BY NewTaskIn, IngestionAssumption DEF Rejected, Steps
<1>9. /\ jobs' = [jobs EXCEPT ![j] = row]
      /\ \/ jobFile' = jobs' /\ Continue(j, None)
         \/ jobFile' = jobFile /\ Continue(j, Rejected)
  BY <1>3, <1>4, <1>5 DEF Finish, Persist
<1>10. /\ task'[j] = None => staged' = staged \ {j}
       /\ task'[j] # None => staged' = staged
  BY DEF Finish
<1>11. jobs'[j] = row BY <1>9 DEF Reports, TypeOK
<1>12. ~Awaits(row) /\ CompletedRow(row)
  BY <1>3, <1>6 DEF Awaits, CompletedRow, CompletedStatuses
<1>13. UNCHANGED <<known, importVars, restarts>> BY DEF Finish
<1>14. CASE jobFile' = jobs' /\ Continue(j, None)
  <2>1. task'[j] = None BY <1>14 DEF Continue, Reports, TypeOK
  <2>2. Moves(j, row, None) BY <1>6, <1>7, <1>9, <1>14 DEF Moves, TaskOK
  <2>3. Handled(j, row, None) BY <1>1, <1>6, <1>10, <1>11, <1>12, <1>14, <2>1, <2>2 DEF Handled
  <2>4. Plain(j, None) BY <1>1, <1>13 DEF Plain, Apart
  <2> QED BY <2>3, <2>4
<1>15. CASE jobFile' = jobFile /\ Continue(j, Rejected)
  <2>1. task'[j] # None BY <1>8, <1>15 DEF Continue, Reports, TypeOK
  <2>2. TaskOK(Rejected, row) BY <1>6, <1>8 DEF TaskOK, InRun
  <2>3. Moves(j, row, Rejected) BY <1>6, <1>7, <1>8, <1>9, <1>15, <2>2 DEF Moves
  <2>4. Handled(j, row, Rejected) BY <1>1, <1>6, <1>8, <1>10, <1>12, <2>1, <2>3 DEF Handled
  <2>5. Plain(j, Rejected) BY <1>1, <1>8, <1>13 DEF Plain, Apart
  <2> QED BY <2>4, <2>5
<1> QED BY <1>9, <1>14, <1>15

LEMMA MarkFailedHandled ==
    ASSUME Reports, StagedRows, NEW j \in Jobs, MarkFailed(j)
    PROVE  \E row, w : Handled(j, row, w) /\ Plain(j, w)
<1>1. task[j] # None /\ task[j].at = "failed" /\ j \in turn BY DEF MarkFailed, At
<1>2. jobs[j] \in Job /\ RowOK(jobs[j]) /\ jobs[j] # None BY <1>1, RunFacts, RowFields
<1>3. task[j].at \notin Apart BY <1>1 DEF Apart
<1>4. UNCHANGED <<known, importVars, restarts, staged>> BY DEF MarkFailed
<1>5. CASE jobs[j].status = "Running"
  <2>1. PICK row : row = [jobs[j] EXCEPT !.status = "Failed"] OBVIOUS
  <2>2. MaySave(j, row)
    <3>1. Restated(jobs[j], "Failed", None, row) BY <2>1 DEF Restated
    <3>2. "Failed" \in Statuses \ CompletedStatuses BY DEF Statuses, CompletedStatuses
    <3> QED BY <1>2, <3>1, <3>2, StatusMaySave
  <2>3. Persist(j, row, None, None) BY <1>5, <2>1 DEF MarkFailed
  <2> QED BY <1>1, <1>3, <1>4, <2>2, <2>3, PersistHandled DEF TaskOK
<1>6. CASE jobs[j].status # "Running"
  <2>1. Continue(j, None) /\ jobs' = [jobs EXCEPT ![j] = jobs[j]] /\ jobFile' = jobFile
    BY <1>6 DEF MarkFailed, Reports, TypeOK
  <2>2. Moves(j, jobs[j], None) BY <1>2, <2>1 DEF Moves, TaskOK
  <2>3. Awaits(jobs[j]) => j \in staged BY DEF StagedRows
  <2>4. Handled(j, jobs[j], None) BY <1>1, <1>4, <2>2, <2>3 DEF Handled
  <2>5. Plain(j, None) BY <1>3, <1>4 DEF Plain
  <2> QED BY <2>4, <2>5
<1> QED BY <1>5, <1>6

(* A run goes on at another step of the same document.                     *)
LEMMA StepOf ==
    ASSUME Reports, NEW j \in Jobs, task[j] # None, task[j].at \in InRun, task[j].todo # {},
           NEW at \in InRun, NEW t, t = [task[j] EXCEPT !.at = at]
    PROVE  /\ t \in Task /\ t # None /\ t.at = at /\ t.todo = task[j].todo
           /\ TaskOK(t, jobs[j])
<1>1. PICK u \in Task : u = task[j] BY RunFacts
<1>2. PICK sc \in Scopes \cup {None}, d \in SUBSET Nat, r \in Report :
         sc = u.scope /\ d = u.todo /\ r = u.report
  BY TaskFields
<1>3. t = [at |-> at, scope |-> sc, todo |-> d, report |-> r] BY <1>1, <1>2 DEF Task
<1>4. at \in Steps BY DEF Steps, InRun
<1>5. t \in Task /\ t # None /\ t.at = at /\ t.todo = d /\ t.report = r BY <1>3, <1>4, TaskIn
<1>6. TaskOK(task[j], jobs[j]) BY DEF Reports
<1>7. TaskOK(t, jobs[j]) BY <1>1, <1>2, <1>5, <1>6 DEF TaskOK
<1> QED BY <1>1, <1>2, <1>5, <1>7

LEMMA ImportHandled ==
    ASSUME Reports, StagedRows, NEW j \in Jobs, Import(j)
    PROVE  /\ Handled(j, jobs[j], [task[j] EXCEPT !.at = "import"])
           /\ [task[j] EXCEPT !.at = "import"] # None
           /\ [task[j] EXCEPT !.at = "import"].at = "import"
           /\ [task[j] EXCEPT !.at = "import"].todo = task[j].todo
           /\ task[j] # None /\ task[j].at = "document" /\ task[j].todo # {} /\ j \in turn
           /\ jobs[j] # None
<1>1. task[j] # None /\ task[j].at = "document" /\ task[j].todo # {} /\ j \in turn
  BY DEF Import, AtDocument, At
<1>2. jobs[j] \in Job /\ RowOK(jobs[j]) /\ jobs[j] # None BY <1>1, RunFacts, RowFields
<1>3. PICK t : t = [task[j] EXCEPT !.at = "import"] OBVIOUS
<1>4. t \in Task /\ t # None /\ t.at = "import" /\ t.todo = task[j].todo /\ TaskOK(t, jobs[j])
  <2>1. task[j].at \in InRun /\ "import" \in InRun BY <1>1 DEF InRun
  <2> QED BY <1>1, <1>3, <2>1, StepOf
<1>5. Continue(j, t) /\ jobs' = [jobs EXCEPT ![j] = jobs[j]] /\ jobFile' = jobFile
  BY <1>3 DEF Import, files, Reports, TypeOK
<1>6. Moves(j, jobs[j], t) BY <1>2, <1>4, <1>5 DEF Moves
<1>7. Awaits(jobs[j]) => j \in staged BY DEF StagedRows
<1>8. staged' = staged BY DEF Import, files
<1>9. Handled(j, jobs[j], t) BY <1>1, <1>4, <1>6, <1>7, <1>8 DEF Handled
<1> QED BY <1>1, <1>2, <1>3, <1>4, <1>9

LEMMA SetFingerprintHandled ==
    ASSUME Reports, StagedRows, NEW j \in Jobs, SetFingerprint(j)
    PROVE  /\ task[j] # None /\ task[j].at = "imported" /\ task[j].todo # {} /\ j \in turn
           /\ \E t : Handled(j, jobs[j], t) /\ t.at \notin Apart /\ t # None
<1>1. task[j] # None /\ task[j].at = "imported" /\ j \in turn BY DEF SetFingerprint, At
<1>2. jobs[j] \in Job /\ RowOK(jobs[j]) /\ jobs[j] # None /\ task[j].todo # {}
  BY <1>1, RunFacts, RowFields DEF InRun
<1>3. PICK at \in {"known", "rejected"} : Continue(j, [task[j] EXCEPT !.at = at])
  BY DEF SetFingerprint
<1>4. PICK t : t = [task[j] EXCEPT !.at = at] OBVIOUS
<1>5. t \in Task /\ t # None /\ t.at = at /\ TaskOK(t, jobs[j])
  <2>1. task[j].at \in InRun /\ at \in InRun BY <1>1 DEF InRun
  <2> QED BY <1>1, <1>2, <1>4, <2>1, StepOf
<1>6. Continue(j, t) /\ jobs' = [jobs EXCEPT ![j] = jobs[j]] /\ jobFile' = jobFile
  BY <1>3, <1>4 DEF SetFingerprint, Reports, TypeOK
<1>7. Moves(j, jobs[j], t) BY <1>2, <1>5, <1>6 DEF Moves
<1>8. Awaits(jobs[j]) => j \in staged BY DEF StagedRows
<1>9. staged' = staged BY DEF SetFingerprint
<1>10. Handled(j, jobs[j], t) BY <1>1, <1>5, <1>7, <1>8, <1>9 DEF Handled
<1> QED BY <1>1, <1>2, <1>5, <1>10 DEF Apart

-----------------------------------------------------------------------------
(* Reports and what is staged, step by step.                               *)

LEMMA StagedRowsAfter ==
    ASSUME \A k \in Jobs :
              Awaits(jobs'[k]) \/ Awaits(jobFile'[k]) \/ (task'[k] # None /\ task'[k].at = "staged")
                 => k \in staged'
    PROVE  StagedRows'
  BY DEF StagedRows, Awaits

LEMMA HandledStep ==
    ASSUME Reports, StagedRows, NEW j \in Jobs, NEW row, NEW t, Handled(j, row, t), Stores'
    PROVE  Reports' /\ StagedRows' /\ GivenUpEnded
<1>1. Moves(j, row, t) BY DEF Handled
<1>2. Reports' BY <1>1, MovesStep
<1>3. /\ jobs' = [jobs EXCEPT ![j] = row] /\ (jobFile' = jobs' \/ jobFile' = jobFile)
      /\ task' = [task EXCEPT ![j] = t]
  BY <1>1 DEF Moves, Continue
<1>4. /\ \A k \in Jobs : jobs'[k] = IF k = j THEN row ELSE jobs[k]
      /\ \A k \in Jobs : task'[k] = IF k = j THEN t ELSE task[k]
  BY <1>3 DEF Reports, TypeOK
<1>5. ASSUME NEW k \in Jobs, k # j
      PROVE  /\ k \in staged => k \in staged'
             /\ Awaits(jobs'[k]) \/ Awaits(jobFile'[k]) \/ (task'[k] # None /\ task'[k].at = "staged")
                   => k \in staged'
  BY <1>3, <1>4, <1>5 DEF Handled, StagedRows
<1>6. j \in staged => j \in staged' \/ CompletedRow(jobFile'[j]) BY DEF Handled
<1> DEFINE Right(k) ==
             Awaits(jobs'[k]) \/ Awaits(jobFile'[k]) \/ (task'[k] # None /\ task'[k].at = "staged")
                => k \in staged'
<1>7. Right(j)
  <2> SUFFICES ASSUME j \notin staged' PROVE Right(j) OBVIOUS
  <2>1. ~Awaits(row) /\ (t # None => t.at # "staged") BY DEF Handled
  <2>2. ~Awaits(jobFile'[j])
    <3>1. CASE j \notin staged BY <1>3, <1>4, <2>1, <3>1 DEF StagedRows
    <3>2. CASE CompletedRow(jobFile'[j]) BY <3>2 DEF CompletedRow, Awaits, CompletedStatuses
    <3> QED BY <1>6, <3>1, <3>2
  <2> QED BY <1>4, <2>1, <2>2
<1>8. \A k \in Jobs : Right(k) BY <1>5, <1>7
<1>9. GivenUpEnded
  <2>1. staged \subseteq Jobs BY DEF Reports, TypeOK
  <2> QED BY <1>5, <1>6, <2>1 DEF GivenUpEnded, CompletedRow
<1> QED BY <1>2, <1>8, <1>9, StagedRowsAfter

(* The stores after a step of a handler.                                   *)
LEMMA HandlerStores ==
    ASSUME Reports, NEW j \in Jobs,
           \/ Run(j) \/ \E scope \in Scopes : Confirm(j, scope)
           \/ \E p \in Packages : \/ \E k \in Jobs : UploadAgain(j, k, p)
                                 \/ \E scope \in Scopes \cup {None} : Upload(j, p, scope)
    PROVE  Stores'
<1>1. ASSUME Import(j) PROVE Stores'
  <2>1. task[j] # None /\ task[j].at \in InRun /\ task[j].todo # {}
    BY <1>1 DEF Import, AtDocument, At, InRun
  <2>2. KeyOf(j) \in Keys BY <2>1, AtCurrent
  <2>3. PICK key \in Keys : imports' = [imports EXCEPT ![key] = JoinOrStart(key)]
    BY <1>1, <2>2 DEF Import
  <2>4. imports \in [Keys -> {"none", "candidate", "resume"}] BY DEF Reports, TypeOK
  <2>5. JoinOrStart(key) \in {"none", "candidate", "resume"} BY <2>4 DEF JoinOrStart
  <2>6. imports' \in [Keys -> {"none", "candidate", "resume"}] BY <2>3, <2>4, <2>5
  <2> QED BY <1>1, <2>6 DEF Import, files, Stores, Reports, TypeOK
<1>2. ASSUME SetFingerprint(j) PROVE Stores'
  <2>1. task[j] # None /\ task[j].at \in InRun /\ task[j].todo # {}
    BY <1>2, RunFacts DEF SetFingerprint, At, InRun
  <2>2. PICK c \in Contents : c = Current(j).content BY <2>1, AtCurrent
  <2>3. known' \subseteq Contents /\ knownFile' \subseteq Contents
    BY <1>2, <2>2 DEF SetFingerprint, Reports, TypeOK
  <2>4. faults' \in Nat BY <1>2 DEF SetFingerprint, FlushThrows, Reports, TypeOK
  <2> QED BY <1>2, <2>3, <2>4 DEF SetFingerprint, importVars, Stores, Reports, TypeOK
<1>3. ASSUME Stage(j) PROVE Stores'
  <2>1. staged' \subseteq Jobs /\ buffers' \subseteq Jobs /\ (faults' = faults \/ faults' = faults + 1)
    BY <1>3 DEF Stage, FlushThrows, Reports, TypeOK
  <2> QED BY <1>3, <2>1, StoresKept DEF Stage, Reports
<1>4. ASSUME ~Import(j), ~SetFingerprint(j), ~Stage(j) PROVE Stores'
  <2>1. faults' = faults \/ faults' = faults + 1
    BY <1>4 DEF Run, EndUpload, StartRun, CountDuplicate, CountSkipped, CountFailed, CountImported,
                Count, Finish, MarkFailed, Confirm, Upload, UploadAgain, Persist, FlushThrows
  <2>2. /\ UNCHANGED <<known, knownFile, importVars, restarts>>
        /\ staged' = staged \/ staged' = staged \ {j}
        /\ buffers' = buffers \/ buffers' = buffers \ {j} \/ buffers' = buffers \cup {j}
    BY <1>4 DEF Run, EndUpload, StartRun, CountDuplicate, CountSkipped, CountFailed, CountImported,
                Count, Finish, MarkFailed, Confirm, Upload, UploadAgain, Reattach
  <2>3. staged' \subseteq Jobs /\ buffers' \subseteq Jobs BY <2>2 DEF Reports, TypeOK
  <2> QED BY <2>1, <2>2, <2>3, StoresKept DEF Reports
<1> QED BY <1>1, <1>2, <1>3, <1>4

(* Those that await an import go on; nobody else moves.                    *)
LEMMA SettleReports ==
    ASSUME Reports, StagedRows, NEW key \in Keys, NEW step \in {"imported", "rejected"},
           Settle(key, step), UNCHANGED <<jobs, files>>, Stores'
    PROVE  Reports' /\ StagedRows' /\ GivenUpEnded
<1>1. task' = [j \in Jobs |-> IF j \in Awaiting(key) THEN [task[j] EXCEPT !.at = step] ELSE task[j]]
  BY DEF Settle
<1>2. ASSUME NEW j \in Jobs
      PROVE  /\ task'[j] \in Task \cup {None} /\ TaskOK(task'[j], jobs[j])
             /\ j \in Awaiting(key) => task'[j] # None
             /\ task'[j] # None /\ task'[j].at = "staged" => task'[j] = task[j]
  <2>1. task[j] \in Task \cup {None} /\ TaskOK(task[j], jobs[j]) BY DEF Reports, TypeOK
  <2>2. CASE j \notin Awaiting(key) BY <1>1, <2>1, <2>2
  <2>3. CASE j \in Awaiting(key)
    <3>1. task[j] # None /\ task[j].at = "import" BY <2>3 DEF Awaiting
    <3>2. task[j].todo # {} /\ task[j].at \in InRun /\ step \in InRun
      BY <3>1, RunFacts DEF InRun
    <3>3. PICK t : t = [task[j] EXCEPT !.at = step] OBVIOUS
    <3>4. t \in Task /\ t # None /\ t.at = step /\ TaskOK(t, jobs[j])
      BY <3>1, <3>2, <3>3, StepOf
    <3>5. task'[j] = t BY <1>1, <2>3, <3>3
    <3> QED BY <3>4, <3>5
  <2> QED BY <2>2, <2>3
<1>3. task' \in [Jobs -> Task \cup {None}]
  <2>1. task' = [j \in Jobs |-> task'[j]] BY <1>1
  <2> QED BY <1>2, <2>1
<1>4. turn' \subseteq {j \in Jobs : task'[j] # None} BY <1>2 DEF Settle, Awaiting
<1>5. TypeOK' BY <1>3, <1>4 DEF Reports, TypeOK, Stores, files
<1>6. Reports'
  <2>1. \A j \in Jobs : RowOK(jobs'[j]) /\ RowOK(jobFile'[j]) /\ TaskOK(task'[j], jobs'[j])
    BY <1>2 DEF Reports, files
  <2> QED BY <1>5, <2>1 DEF Reports
<1>7. StagedRows' /\ GivenUpEnded
  <2>1. GivenUpEnded BY DEF GivenUpEnded, files
  <2>2. \A k \in Jobs :
           Awaits(jobs'[k]) \/ Awaits(jobFile'[k]) \/ (task'[k] # None /\ task'[k].at = "staged")
              => k \in staged'
    BY <1>2 DEF StagedRows, files
  <2> QED BY <2>1, <2>2, StagedRowsAfter
<1> QED BY <1>6, <1>7

LEMMA UnchangedReports ==
    ASSUME Reports, StagedRows, UNCHANGED <<jobs, files, task, turn>>, Stores'
    PROVE  Reports' /\ StagedRows' /\ GivenUpEnded
<1>1. TypeOK' BY DEF Reports, TypeOK, Stores, files
<1>2. \A j \in Jobs : RowOK(jobs'[j]) /\ RowOK(jobFile'[j]) /\ TaskOK(task'[j], jobs'[j])
  BY DEF Reports, files
<1>3. GivenUpEnded BY DEF GivenUpEnded, files
<1>4. \A k \in Jobs :
         Awaits(jobs'[k]) \/ Awaits(jobFile'[k]) \/ (task'[k] # None /\ task'[k].at = "staged")
            => k \in staged'
  BY DEF StagedRows, files
<1> QED BY <1>1, <1>2, <1>3, <1>4, StagedRowsAfter DEF Reports

LEMMA ImportStepReports ==
    ASSUME Reports, StagedRows, NEW key \in Keys, ImportStep(key)
    PROVE  Reports' /\ StagedRows' /\ GivenUpEnded
<1>1. key[1] \in Contents BY DEF Keys
<1>2. Stores'
  <2>1. /\ \A to \in {"none", "resume"} :
              [imports EXCEPT ![key] = to] \in [Keys -> {"none", "candidate", "resume"}]
        /\ [candidates EXCEPT ![key[1]] = @ + 1] \in [Contents -> Nat]
        /\ [resumes EXCEPT ![key[1]] = @ + 1] \in [Contents -> Nat]
        /\ failures + 1 \in Nat
    BY <1>1 DEF Reports, TypeOK
  <2>2. CASE SaveCandidate(key)
    BY <2>1, <2>2 DEF SaveCandidate, files, Stores, Reports, TypeOK
  <2>3. CASE SaveResume(key)
    BY <2>1, <2>3 DEF SaveResume, Settle, files, Stores, Reports, TypeOK
  <2>4. CASE ImportFails(key)
    BY <2>1, <2>4 DEF ImportFails, Settle, files, Stores, Reports, TypeOK
  <2> QED BY <2>2, <2>3, <2>4 DEF ImportStep
<1>3. CASE SaveCandidate(key) BY <1>2, <1>3, UnchangedReports DEF SaveCandidate
<1>4. CASE SaveResume(key) BY <1>2, <1>4, SettleReports DEF SaveResume
<1>5. CASE ImportFails(key) BY <1>2, <1>5, SettleReports DEF ImportFails
<1> QED BY <1>3, <1>4, <1>5 DEF ImportStep

(* What a reload finds was a row on file, or is gone.                      *)
LEMMA RestartReports ==
    ASSUME Reports, StagedRows, Restart
    PROVE  Reports' /\ StagedRows' /\ GivenUpEnded
<1>1. /\ jobs' = jobFile \/ jobs' = [j \in Jobs |-> None]
      /\ known' = knownFile \/ known' = {}
      /\ jobFile' = jobs' /\ knownFile' = known' /\ staged' = staged /\ restarts' = restarts + 1
      /\ task' = [j \in Jobs |-> None] /\ turn' = {} /\ buffers' = {}
      /\ imports' = [k \in Keys |-> "none"]
      /\ UNCHANGED <<candidates, resumes, failures, faults>>
  BY DEF Restart, Reload
<1>2. TypeOK'
  <2>1. jobs' \in [Jobs -> Job \cup {None}] BY <1>1 DEF Reports, TypeOK
  <2> QED BY <1>1, <2>1 DEF Reports, TypeOK
<1>3. ASSUME NEW j \in Jobs
      PROVE  RowOK(jobs'[j]) /\ (Awaits(jobs'[j]) => j \in staged)
  <2>1. CASE jobs' = jobFile BY <2>1 DEF Reports, StagedRows
  <2>2. CASE jobs' = [k \in Jobs |-> None]
    <3>1. jobs'[j] = None BY <2>2
    <3> QED BY <3>1 DEF RowOK, Awaits
  <2> QED BY <1>1, <2>1, <2>2
<1>4. \A j \in Jobs : task'[j] = None BY <1>1
<1>5. \A j \in Jobs : RowOK(jobs'[j]) /\ RowOK(jobFile'[j]) /\ TaskOK(task'[j], jobs'[j])
  BY <1>1, <1>3, <1>4 DEF TaskOK
<1>6. \A k \in Jobs :
         Awaits(jobs'[k]) \/ Awaits(jobFile'[k]) \/ (task'[k] # None /\ task'[k].at = "staged")
            => k \in staged'
  BY <1>1, <1>3, <1>4
<1>7. GivenUpEnded BY <1>1 DEF GivenUpEnded
<1> QED BY <1>2, <1>5, <1>6, <1>7, StagedRowsAfter DEF Reports

LEMMA HandlersHandle ==
    ASSUME Reports, StagedRows, NEW j \in Jobs,
           \/ Run(j) \/ \E scope \in Scopes : Confirm(j, scope)
           \/ \E p \in Packages : \/ \E k \in Jobs : UploadAgain(j, k, p)
                                 \/ \E scope \in Scopes \cup {None} : Upload(j, p, scope)
    PROVE  \/ Import(j)
           \/ SetFingerprint(j)
           \/ \E row, w : Handled(j, row, w) /\ Plain(j, w)
  BY UploadAgainHandled, UploadHandled, ConfirmHandled, StageHandled, EndUploadHandled,
     StartRunHandled, CountsHandled, FinishHandled, MarkFailedHandled
     DEF Run

LEMMA ReportsStep ==
    ASSUME Reports, StagedRows, [Next]_vars
    PROVE  Reports' /\ StagedRows' /\ GivenUpEnded
<1>1. ASSUME NEW j \in Jobs,
             \/ Run(j) \/ \E scope \in Scopes : Confirm(j, scope)
             \/ \E p \in Packages : \/ \E k \in Jobs : UploadAgain(j, k, p)
                                   \/ \E scope \in Scopes \cup {None} : Upload(j, p, scope)
      PROVE  Reports' /\ StagedRows' /\ GivenUpEnded
  <2>1. Stores' BY <1>1, HandlerStores
  <2>2. \E row, w : Handled(j, row, w)
    BY <1>1, HandlersHandle, ImportHandled, SetFingerprintHandled
  <2> QED BY <2>1, <2>2, HandledStep
<1>2. CASE UNCHANGED vars
  <2>1. Stores' BY <1>2 DEF Reports, TypeOK, Stores, vars, files, importVars
  <2> QED BY <1>2, <2>1, UnchangedReports DEF vars
<1> QED BY <1>1, <1>2, ImportStepReports, RestartReports DEF Next

LEMMA InitReports == Init => Reports /\ StagedRows
<1> SUFFICES ASSUME Init PROVE Reports /\ StagedRows OBVIOUS
<1>1. /\ jobs = [j \in Jobs |-> None] /\ jobFile = jobs /\ task = [j \in Jobs |-> None]
  BY DEF Init
<1>2. \A j \in Jobs : jobs[j] = None /\ jobFile[j] = None /\ task[j] = None BY <1>1
<1>3. TypeOK BY DEF Init, TypeOK
<1> QED BY <1>2, <1>3 DEF Reports, StagedRows, RowOK, TaskOK, Awaits

THEOREM ReportsAlways == Spec => [](Reports /\ StagedRows)
  BY InitReports, ReportsStep, PTL DEF Spec

(* Every variable keeps its type (IngestionEngine).                        *)
THEOREM IngestTypes == Spec => []TypeOK
<1>1. Reports /\ StagedRows => TypeOK BY DEF Reports
<1> QED BY <1>1, ReportsAlways, PTL

(* Every document of a package is counted once in the report of its run,   *)
(* whatever is skipped, known already, joined with another run or failed   *)
(* (runJob); a report copied from a prior one counts no more than that.    *)
THEOREM ReportsAddUp == Spec => []ReportAddsUp
<1>1. Reports /\ StagedRows => ReportAddsUp BY DEF Reports, RowOK, ReportAddsUp, Reported
<1> QED BY <1>1, ReportsAlways, PTL

(* A job that awaits its confirmation has its files staged, also after a   *)
(* restart, and they go only when the end of the job is on disk            *)
(* (createJobFromUpload, runJob).                                          *)
THEOREM FilesStayStaged == Spec => StagedUntilEnded
<1>1. Reports /\ StagedRows => AwaitingStaged BY DEF StagedRows, Awaits, AwaitingStaged
<1>2. Reports /\ StagedRows /\ [Next]_vars => [GivenUpEnded]_vars
  BY ReportsStep
<1> QED BY <1>1, <1>2, ReportsAlways, PTL DEF Spec, StagedUntilEnded

-----------------------------------------------------------------------------
(* One candidate for a file.                                               *)

OnceEach == Awaited /\ AloneInTurn /\ \A c \in Contents : Once(c)

NamesHeld(f, c) ==
    {d.name : d \in {d \in UNION {Range(f[j].documents) : j \in {k \in Jobs : f[k] # None}} :
                        d.content = c}}

LEMMA Held ==
    ASSUME NEW f, NEW c, NEW n
    PROVE  n \in NamesHeld(f, c) <=>
             \E j \in Jobs : /\ f[j] # None
                             /\ \E i \in DOMAIN f[j].documents :
                                   f[j].documents[i].content = c /\ f[j].documents[i].name = n
<1>1. ASSUME NEW j \in Jobs, f[j] # None, NEW i \in DOMAIN f[j].documents,
             f[j].documents[i].content = c, f[j].documents[i].name = n
      PROVE  n \in NamesHeld(f, c)
  <2>1. f[j].documents[i] \in Range(f[j].documents) BY DEF Range
  <2>2. f[j].documents[i] \in UNION {Range(f[k].documents) : k \in {k \in Jobs : f[k] # None}}
    BY <1>1, <2>1
  <2> QED BY <1>1, <2>2 DEF NamesHeld
<1>2. ASSUME n \in NamesHeld(f, c)
      PROVE  \E j \in Jobs : /\ f[j] # None
                             /\ \E i \in DOMAIN f[j].documents :
                                   f[j].documents[i].content = c /\ f[j].documents[i].name = n
  <2>1. PICK d \in UNION {Range(f[j].documents) : j \in {k \in Jobs : f[k] # None}} :
           d.content = c /\ d.name = n
    BY <1>2 DEF NamesHeld
  <2>2. PICK j \in Jobs : f[j] # None /\ d \in Range(f[j].documents) OBVIOUS
  <2>3. PICK i \in DOMAIN f[j].documents : f[j].documents[i] = d BY <2>2 DEF Range
  <2> QED BY <2>1, <2>2, <2>3
<1> QED BY <1>1, <1>2

(* Jobs that keep their documents keep the names of a content.             *)
LEMMA HeldGrows ==
    ASSUME NEW f, NEW g, NEW c,
           \A k \in Jobs : f[k] # None => g[k] # None /\ g[k].documents = f[k].documents
    PROVE  NamesHeld(f, c) \subseteq NamesHeld(g, c)
<1> SUFFICES ASSUME NEW n \in NamesHeld(f, c) PROVE n \in NamesHeld(g, c) OBVIOUS
<1>1. PICK j \in Jobs :
         /\ f[j] # None
         /\ \E i \in DOMAIN f[j].documents :
               f[j].documents[i].content = c /\ f[j].documents[i].name = n
  BY Held
<1>2. g[j] # None /\ g[j].documents = f[j].documents BY <1>1
<1> QED BY <1>1, <1>2, Held

LEMMA HeldNames ==
    ASSUME NEW f, f \in [Jobs -> Job \cup {None}], NEW c, IsFiniteSet(Names)
    PROVE  /\ NamesHeld(f, c) \subseteq Names
           /\ IsFiniteSet(NamesHeld(f, c)) /\ Cardinality(NamesHeld(f, c)) \in Nat
           /\ Cardinality(NamesHeld(f, c)) <= Cardinality(Names)
<1>1. ASSUME NEW n \in NamesHeld(f, c) PROVE n \in Names
  <2>1. PICK j \in Jobs :
           /\ f[j] # None
           /\ \E i \in DOMAIN f[j].documents :
                 f[j].documents[i].content = c /\ f[j].documents[i].name = n
    BY Held
  <2>2. f[j] \in Job BY <2>1
  <2>3. PICK d \in Seq(Document) : d = f[j].documents BY <2>2, RowFields
  <2>4. PICK i \in DOMAIN d : d[i].name = n BY <2>1, <2>3
  <2> QED BY <2>4, PackagePositions
<1>2. NamesHeld(f, c) \subseteq Names BY <1>1
<1> QED BY <1>2, FS_Subset, FS_CardinalityType

(* The names of a content whose import is at step.                         *)
LEMMA AtStep ==
    ASSUME NEW S \in SUBSET Names, IsFiniteSet(Names)
    PROVE  IsFiniteSet(S) /\ Cardinality(S) \in Nat /\ Cardinality(S) <= Cardinality(Names)
           /\ Cardinality(Names) \in Nat
  BY FS_Subset, FS_CardinalityType

(* What the counts of a content are.                                       *)
LEMMA Counted ==
    ASSUME TypeOK, IsFiniteSet(Names), NEW c \in Contents
    PROVE  /\ IsFiniteSet(Starting(c)) /\ Cardinality(Starting(c)) \in Nat
           /\ IsFiniteSet(SavingResume(c)) /\ Cardinality(SavingResume(c)) \in Nat
           /\ Cardinality(SavingResume(c)) <= Cardinality(Names)
           /\ IsFiniteSet(NamesOf(c)) /\ Cardinality(NamesOf(c)) \in Nat
           /\ Cardinality(NamesOf(c)) <= Cardinality(Names)
           /\ candidates[c] \in Nat /\ Excused \in Nat /\ Cardinality(Names) \in Nat
           /\ NamesOf(c) = NamesHeld(jobs, c)
<1>1. Starting(c) \in SUBSET Names /\ SavingResume(c) \in SUBSET Names
  BY DEF Starting, SavingResume
<1>2. NamesOf(c) = NamesHeld(jobs, c) BY DEF NamesOf, NamesHeld
<1>3. jobs \in [Jobs -> Job \cup {None}] BY DEF TypeOK
<1>4. Cardinality(Names) \in Nat BY FS_CardinalityType
<1>5. Excused \in Nat
  <2>1. PICK a \in Nat, b \in Nat, m \in Nat : a = failures /\ b = restarts /\ m = Cardinality(Names)
    BY <1>4 DEF TypeOK
  <2>2. a + b * m \in Nat BY <2>1
  <2> QED BY <2>1, <2>2 DEF Excused
<1> QED BY <1>1, <1>2, <1>3, <1>4, <1>5, AtStep, HeldNames DEF TypeOK

(* A name in flight is a name some job holds.                              *)
LEMMA InFlightHeld ==
    ASSUME Reports, Awaited, NEW c \in Contents
    PROVE  Starting(c) \subseteq NamesOf(c) /\ SavingResume(c) \subseteq NamesOf(c)
<1> SUFFICES ASSUME NEW n \in Names, imports[<<c, n>>] # "none"
             PROVE  n \in NamesHeld(jobs, c)
  BY DEF Starting, SavingResume, NamesOf, NamesHeld
<1>1. <<c, n>> \in Keys BY DEF Keys
<1>2. PICK j \in Jobs : j \in Awaiting(<<c, n>>) BY <1>1 DEF Awaited
<1>3. task[j] # None /\ task[j].at = "import" /\ KeyOf(j) = <<c, n>> BY <1>2 DEF Awaiting
<1>4. task[j].todo # {} /\ jobs[j] \in Job /\ task[j].at \in InRun BY <1>3, RunFacts DEF InRun
<1>5. Min(task[j].todo) \in DOMAIN jobs[j].documents BY <1>3, <1>4, AtCurrent
<1>6. Current(j).content = c /\ Current(j).name = n BY <1>3 DEF KeyOf
<1>7. jobs[j] # None BY <1>4, RowFields
<1> QED BY <1>5, <1>6, <1>7, Held DEF Current

(* The counts of a content that a step leaves alone.                       *)
LEMMA OnceFrame ==
    ASSUME Reports, Reports', IsFiniteSet(Names), NEW c \in Contents, Once(c),
           Done(c)' <=> Done(c), candidates'[c] = candidates[c],
           Starting(c)' = Starting(c), SavingResume(c)' = SavingResume(c),
           NamesHeld(jobs, c) \subseteq NamesHeld(jobs', c), Excused' = Excused
    PROVE  Once(c)'
<1>1. jobs \in [Jobs -> Job \cup {None}] /\ jobs' \in [Jobs -> Job \cup {None}]
  BY DEF Reports, TypeOK
<1>2. NamesOf(c) = NamesHeld(jobs, c) /\ NamesOf(c)' = NamesHeld(jobs', c)
  BY DEF NamesOf, NamesHeld
<1>3. PICK h, g : h = NamesHeld(jobs, c) /\ g = NamesHeld(jobs', c) OBVIOUS
<1>4. /\ Cardinality(h) \in Nat /\ Cardinality(g) \in Nat /\ Cardinality(h) <= Cardinality(g)
  <2>1. IsFiniteSet(g) /\ Cardinality(h) \in Nat /\ Cardinality(g) \in Nat
    BY <1>1, <1>3, HeldNames
  <2> QED BY <1>3, <2>1, FS_Subset
<1>5. PICK n \in Nat, s \in Nat, r \in Nat, e \in Nat, a \in Nat, b \in Nat :
         /\ n = candidates[c] /\ s = Cardinality(Starting(c)) /\ r = Cardinality(SavingResume(c))
         /\ e = Excused /\ a = Cardinality(h) /\ b = Cardinality(g)
  <2>1. /\ candidates[c] \in Nat /\ Cardinality(Starting(c)) \in Nat
        /\ Cardinality(SavingResume(c)) \in Nat /\ Excused \in Nat
    BY Counted DEF Reports
  <2> QED BY <1>4, <2>1
<1>6. CASE Done(c)
  <2>1. n + s <= a + e BY <1>2, <1>3, <1>5, <1>6 DEF Once
  <2>2. n + s <= b + e BY <1>4, <1>5, <2>1
  <2> QED BY <1>2, <1>3, <1>5, <1>6, <2>2 DEF Once
<1>7. CASE ~Done(c)
  <2>1. n <= r + e BY <1>5, <1>7 DEF Once
  <2> QED BY <1>5, <1>7, <2>1 DEF Once
<1> QED BY <1>6, <1>7

(* Whoever does not move stays where it is.                                *)
LEMMA SameRun ==
    ASSUME NEW k \in Jobs, jobs'[k] = jobs[k], task'[k] = task[k]
    PROVE  /\ SettingFingerprint(k)' <=> SettingFingerprint(k)
           /\ Current(k)' = Current(k) /\ KeyOf(k)' = KeyOf(k)
           /\ \A key : k \in Awaiting(key)' <=> k \in Awaiting(key)
<1>1. Current(k)' = Current(k) BY DEF Current
<1>2. KeyOf(k)' = KeyOf(k) BY <1>1 DEF KeyOf
<1>3. SettingFingerprint(k)' <=> SettingFingerprint(k) BY DEF SettingFingerprint
<1> QED BY <1>1, <1>2, <1>3 DEF Awaiting

LEMMA HandledMoves ==
    ASSUME Reports, NEW j \in Jobs, NEW row, NEW t, Handled(j, row, t)
    PROVE  /\ task'[j] = t /\ jobs'[j] = row
           /\ \A k \in Jobs : k # j => jobs'[k] = jobs[k] /\ task'[k] = task[k]
           /\ \A c : NamesHeld(jobs, c) \subseteq NamesHeld(jobs', c)
           /\ turn' \subseteq turn \cup {j}
<1>1. /\ task'[j] = t /\ jobs'[j] = row
      /\ \A k \in Jobs : k # j => jobs'[k] = jobs[k] /\ task'[k] = task[k]
  BY DEF Handled, Moves, Continue, Reports, TypeOK
<1>2. row # None BY RowFields DEF Handled, Moves
<1>3. jobs[j] # None => row.documents = jobs[j].documents BY DEF Handled
<1>4. \A k \in Jobs : jobs[k] # None => jobs'[k] # None /\ jobs'[k].documents = jobs[k].documents
  BY <1>1, <1>2, <1>3
<1>5. \A c : NamesHeld(jobs, c) \subseteq NamesHeld(jobs', c) BY <1>4, HeldGrows
<1>6. turn' \subseteq turn \cup {j} BY DEF Handled, Moves, Continue
<1> QED BY <1>1, <1>5, <1>6

(* A run that sets a fingerprint leaves no other run of the turn out.      *)
LEMMA NotAlone ==
    ASSUME Kept, AloneInTurn, NEW j \in Jobs, ~SettingFingerprint(j), j \in turn \/ turn = {},
           NEW k \in Jobs, SettingFingerprint(k)
    PROVE  Current(k).content \in known
<1>1. k \in turn BY DEF Kept
<1> QED BY <1>1 DEF AloneInTurn

LEMMA PlainOnce ==
    ASSUME Reports, Kept, OnceEach, IsFiniteSet(Names),
           NEW j \in Jobs, NEW row, NEW t, Handled(j, row, t), Plain(j, t), Reports'
    PROVE  OnceEach'
<1>1. /\ task'[j] = t
      /\ \A k \in Jobs : k # j => jobs'[k] = jobs[k] /\ task'[k] = task[k]
      /\ \A c : NamesHeld(jobs, c) \subseteq NamesHeld(jobs', c)
  BY HandledMoves
<1>2. /\ ~SettingFingerprint(j) /\ ~SettingFingerprint(j)'
      /\ \A key : j \notin Awaiting(key) /\ j \notin Awaiting(key)'
  BY <1>1 DEF Plain, Apart, SettingFingerprint, Awaiting
<1>3. ASSUME NEW k \in Jobs
      PROVE  /\ SettingFingerprint(k)' <=> SettingFingerprint(k)
             /\ SettingFingerprint(k) => Current(k)' = Current(k)
             /\ \A key : k \in Awaiting(key)' <=> k \in Awaiting(key)
  BY <1>1, <1>2, SameRun
<1>4. /\ known' = known /\ imports' = imports /\ candidates' = candidates
      /\ failures' = failures /\ restarts' = restarts
  BY DEF Plain, importVars
<1>5. Awaited' BY <1>3, <1>4 DEF OnceEach, Awaited
<1>6. AloneInTurn'
  <2> SUFFICES ASSUME NEW k \in Jobs, SettingFingerprint(k)', Current(k)'.content \notin known'
               PROVE  FALSE
    BY DEF AloneInTurn
  <2>1. SettingFingerprint(k) /\ Current(k).content \notin known BY <1>3, <1>4
  <2> QED BY <1>2, <2>1, NotAlone DEF Handled, OnceEach
<1>7. ASSUME NEW c \in Contents PROVE Once(c)'
  <2>1. Done(c)' <=> Done(c) BY <1>3, <1>4 DEF Done
  <2>2. Starting(c)' = Starting(c) /\ SavingResume(c)' = SavingResume(c) /\ Excused' = Excused
    BY <1>4 DEF Starting, SavingResume, Excused
  <2> QED BY <1>1, <1>4, <2>1, <2>2, OnceFrame DEF OnceEach
<1> QED BY <1>5, <1>6, <1>7 DEF OnceEach

(* A run starts the import of a content of which none has been completed,  *)
(* or joins the one under way.                                             *)
LEMMA ImportOnce ==
    ASSUME Reports, StagedRows, Kept, OnceEach, IsFiniteSet(Names), NEW j \in Jobs, Import(j), Reports'
    PROVE  OnceEach'
<1> DEFINE t == [task[j] EXCEPT !.at = "import"]
<1>1. /\ Handled(j, jobs[j], t) /\ t # None /\ t.at = "import" /\ t.todo = task[j].todo
      /\ task[j] # None /\ task[j].at = "document" /\ task[j].todo # {} /\ j \in turn
  BY ImportHandled
<1> HIDE DEF t
<1>2. /\ task'[j] = t /\ jobs'[j] = jobs[j]
      /\ \A k \in Jobs : k # j => jobs'[k] = jobs[k] /\ task'[k] = task[k]
      /\ \A c : NamesHeld(jobs, c) \subseteq NamesHeld(jobs', c)
  BY <1>1, HandledMoves
<1>3. /\ ~SettingFingerprint(j) /\ ~SettingFingerprint(j)' /\ \A key : j \notin Awaiting(key)
      /\ \A key : key = KeyOf(j) => j \in Awaiting(key)'
  <2>1. Current(j)' = Current(j) BY <1>1, <1>2 DEF Current
  <2>2. KeyOf(j)' = KeyOf(j) BY <2>1 DEF KeyOf
  <2> QED BY <1>1, <1>2, <2>2 DEF SettingFingerprint, Awaiting
<1>4. ASSUME NEW k \in Jobs
      PROVE  /\ SettingFingerprint(k)' <=> SettingFingerprint(k)
             /\ SettingFingerprint(k) => Current(k)' = Current(k)
             /\ \A key : k \in Awaiting(key) => k \in Awaiting(key)'
  BY <1>2, <1>3, SameRun
<1>5. PICK key \in Keys : /\ key = KeyOf(j) /\ imports' = [imports EXCEPT ![key] = JoinOrStart(key)]
                          /\ key[1] = Current(j).content
  <2>1. KeyOf(j) \in Keys BY <1>1, AtCurrent DEF InRun
  <2> QED BY <2>1 DEF Import, KeyOf
<1>6. /\ known' = known /\ candidates' = candidates /\ failures' = failures /\ restarts' = restarts
      /\ key[1] \notin known /\ imports \in [Keys -> {"none", "candidate", "resume"}]
  BY <1>5 DEF Import, files, Reports, TypeOK
<1>7. Awaited'
  <2> SUFFICES ASSUME NEW k2 \in Keys, imports'[k2] # "none"
               PROVE  \E k \in Jobs : k \in Awaiting(k2)'
    BY DEF Awaited
  <2>1. CASE k2 = key BY <1>3, <1>5, <2>1
  <2>2. CASE k2 # key
    <3>1. imports[k2] # "none" BY <1>5, <1>6, <2>2
    <3> QED BY <1>4, <3>1 DEF OnceEach, Awaited
  <2> QED BY <2>1, <2>2
<1>8. \A k \in Jobs : SettingFingerprint(k) => Current(k).content \in known
  BY <1>1, <1>3, NotAlone DEF OnceEach
<1>9. AloneInTurn' BY <1>4, <1>6, <1>8 DEF AloneInTurn
<1>10. ASSUME NEW c \in Contents PROVE Once(c)'
  <2>1. Done(c)' <=> Done(c) BY <1>4, <1>6 DEF Done
  <2>2. SavingResume(c)' = SavingResume(c)
    <3>1. ASSUME NEW n \in Names PROVE imports'[<<c, n>>] = "resume" <=> imports[<<c, n>>] = "resume"
      <4>1. <<c, n>> \in Keys BY DEF Keys
      <4> QED BY <1>5, <1>6, <4>1 DEF JoinOrStart
    <3> QED BY <3>1 DEF SavingResume
  <2>3. Excused' = Excused BY <1>6 DEF Excused
  <2>4. CASE c = key[1]
    <3>1. ~Done(c) BY <1>6, <1>8, <2>4 DEF Done
    <3>2. candidates[c] <= Cardinality(SavingResume(c)) + Excused BY <3>1 DEF OnceEach, Once
    <3> QED BY <1>6, <2>1, <2>2, <2>3, <3>1, <3>2 DEF Once
  <2>5. CASE c # key[1]
    <3>1. ASSUME NEW n \in Names PROVE imports'[<<c, n>>] = imports[<<c, n>>]
      <4>1. <<c, n>> \in Keys /\ <<c, n>> # key BY <2>5 DEF Keys
      <4> QED BY <1>5, <1>6, <4>1
    <3>2. Starting(c)' = Starting(c) BY <3>1 DEF Starting
    <3> QED BY <1>2, <1>6, <2>1, <2>2, <2>3, <3>2, OnceFrame DEF OnceEach
  <2> QED BY <2>4, <2>5
<1> QED BY <1>7, <1>9, <1>10 DEF OnceEach

(* A content whose fingerprint is set was done before.                     *)
LEMMA SetFingerprintOnce ==
    ASSUME Reports, StagedRows, Kept, OnceEach, IsFiniteSet(Names), NEW j \in Jobs,
           SetFingerprint(j), Reports'
    PROVE  OnceEach'
<1>1. PICK t : Handled(j, jobs[j], t) /\ t.at \notin Apart /\ t # None BY SetFingerprintHandled
<1>2. task[j] # None /\ task[j].at = "imported" /\ j \in turn BY SetFingerprintHandled
<1>3. /\ task'[j] = t
      /\ \A k \in Jobs : k # j => jobs'[k] = jobs[k] /\ task'[k] = task[k]
      /\ \A c : NamesHeld(jobs, c) \subseteq NamesHeld(jobs', c)
  BY <1>1, HandledMoves
<1>4. /\ SettingFingerprint(j) /\ ~SettingFingerprint(j)'
      /\ \A key : j \notin Awaiting(key) /\ j \notin Awaiting(key)'
  BY <1>1, <1>2, <1>3 DEF Apart, SettingFingerprint, Awaiting
<1>5. ASSUME NEW k \in Jobs, k # j
      PROVE  /\ SettingFingerprint(k)' <=> SettingFingerprint(k)
             /\ Current(k)' = Current(k)
             /\ \A key : k \in Awaiting(key)' <=> k \in Awaiting(key)
  BY <1>3, <1>5, SameRun
<1>6. /\ known' = known \cup {Current(j).content}
      /\ imports' = imports /\ candidates' = candidates
      /\ failures' = failures /\ restarts' = restarts
  BY DEF SetFingerprint, importVars
<1>7. Awaited' BY <1>4, <1>5, <1>6 DEF OnceEach, Awaited
<1>8. AloneInTurn'
  <2> SUFFICES ASSUME NEW k \in Jobs, SettingFingerprint(k)', Current(k)'.content \notin known'
               PROVE  FALSE
    BY DEF AloneInTurn
  <2>1. k # j /\ SettingFingerprint(k) /\ Current(k).content \notin known
    BY <1>4, <1>5, <1>6
  <2>2. Current(j).content = Current(k).content BY <1>2, <2>1 DEF OnceEach, AloneInTurn
  <2> QED BY <1>5, <1>6, <2>1, <2>2
<1>9. ASSUME NEW c \in Contents PROVE Once(c)'
  <2>1. Done(c)' <=> Done(c)
    <3>1. Done(c)' => Done(c)
      <4>1. CASE c \in known' BY <1>4, <1>6, <4>1 DEF Done
      <4>2. CASE \E k \in Jobs : SettingFingerprint(k)' /\ Current(k)'.content = c
        BY <1>4, <1>5, <4>2 DEF Done
      <4> QED BY <4>1, <4>2 DEF Done
    <3>2. Done(c) => Done(c)'
      <4>1. CASE c \in known BY <1>6, <4>1 DEF Done
      <4>2. CASE \E k \in Jobs : SettingFingerprint(k) /\ Current(k).content = c
        <5>1. PICK k \in Jobs : SettingFingerprint(k) /\ Current(k).content = c BY <4>2
        <5>2. CASE k = j BY <1>6, <5>1, <5>2 DEF Done
        <5>3. CASE k # j BY <1>5, <5>1, <5>3 DEF Done
        <5> QED BY <5>2, <5>3
      <4> QED BY <4>1, <4>2 DEF Done
    <3> QED BY <3>1, <3>2
  <2>2. Starting(c)' = Starting(c) /\ SavingResume(c)' = SavingResume(c) /\ Excused' = Excused
    BY <1>6 DEF Starting, SavingResume, Excused
  <2> QED BY <1>3, <1>6, <2>1, <2>2, OnceFrame DEF OnceEach
<1> QED BY <1>7, <1>8, <1>9 DEF OnceEach

-----------------------------------------------------------------------------
(* The saves and the candidates.                                           *)

(* Between turns no run is about to set a fingerprint.                     *)
LEMMA BetweenTurns ==
    ASSUME Kept, turn = {}
    PROVE  /\ \A k \in Jobs : ~SettingFingerprint(k)
           /\ \A c : Done(c) <=> c \in known
  BY DEF Kept, Done

(* The names of a content after one import has gone on.                    *)
LEMMA StartingOf ==
    ASSUME TypeOK, NEW key \in Keys, NEW to \in {"none", "resume"},
           imports' = [imports EXCEPT ![key] = to], NEW c \in Contents
    PROVE  Starting(c)' = IF c = key[1] THEN Starting(c) \ {key[2]} ELSE Starting(c)
<1>1. key = <<key[1], key[2]>> /\ key[1] \in Contents /\ key[2] \in Names BY DEF Keys
<1>2. ASSUME NEW n \in Names
      PROVE  imports'[<<c, n>>] = IF c = key[1] /\ n = key[2] THEN to ELSE imports[<<c, n>>]
  <2>1. <<c, n>> \in Keys BY DEF Keys
  <2>2. <<c, n>> = key <=> c = key[1] /\ n = key[2] BY <1>1
  <2> QED BY <2>1, <2>2 DEF TypeOK
<1> QED BY <1>1, <1>2 DEF Starting

LEMMA SaveCandidateOnce ==
    ASSUME Reports, Kept, OnceEach, IsFiniteSet(Names), NEW key \in Keys, SaveCandidate(key), Reports'
    PROVE  OnceEach'
<1>1. /\ turn = {} /\ imports[key] = "candidate"
      /\ candidates' = [candidates EXCEPT ![key[1]] = @ + 1]
      /\ imports' = [imports EXCEPT ![key] = "resume"]
      /\ jobs' = jobs /\ task' = task /\ turn' = turn /\ known' = known
      /\ failures' = failures /\ restarts' = restarts
  BY DEF SaveCandidate
<1>2. key = <<key[1], key[2]>> /\ key[1] \in Contents /\ key[2] \in Names BY DEF Keys
<1>3. ASSUME NEW k \in Jobs
      PROVE  /\ SettingFingerprint(k)' <=> SettingFingerprint(k)
             /\ Current(k)' = Current(k)
             /\ \A k2 : k \in Awaiting(k2)' <=> k \in Awaiting(k2)
  BY <1>1, SameRun
<1>4. /\ imports \in [Keys -> {"none", "candidate", "resume"}]
      /\ candidates \in [Contents -> Nat]
  BY DEF Reports, TypeOK
<1>5. Awaited'
  <2> SUFFICES ASSUME NEW k2 \in Keys, imports'[k2] # "none"
               PROVE  \E k \in Jobs : k \in Awaiting(k2)'
    BY DEF Awaited
  <2>1. imports[k2] # "none" BY <1>1, <1>4
  <2> QED BY <1>3, <2>1 DEF OnceEach, Awaited
<1>6. \A k \in Jobs : ~SettingFingerprint(k)' BY <1>1, <1>3, BetweenTurns
<1>7. AloneInTurn' BY <1>6 DEF AloneInTurn
<1>8. ASSUME NEW c \in Contents PROVE Once(c)'
  <2>1. (Done(c)' <=> c \in known) /\ (Done(c) <=> c \in known)
    BY <1>1, <1>6, BetweenTurns DEF Done
  <2>2. Excused' = Excused BY <1>1 DEF Excused
  <2>3. Starting(c)' = IF c = key[1] THEN Starting(c) \ {key[2]} ELSE Starting(c)
    BY <1>1, StartingOf DEF Reports
  <2>4. SavingResume(c)' = IF c = key[1] THEN SavingResume(c) \cup {key[2]} ELSE SavingResume(c)
    BY <1>1, SavingResumeOf
  <2>5. NamesOf(c)' = NamesOf(c) BY <1>1 DEF NamesOf
  <2>6. CASE c # key[1]
    <3>1. candidates'[c] = candidates[c] BY <1>1, <1>4, <2>6
    <3>2. Starting(c)' = Starting(c) /\ SavingResume(c)' = SavingResume(c) BY <2>3, <2>4, <2>6
    <3>3. NamesHeld(jobs, c) \subseteq NamesHeld(jobs', c) BY <1>1
    <3> QED BY <2>1, <2>2, <3>1, <3>2, <3>3, OnceFrame DEF OnceEach
  <2>7. CASE c = key[1]
    <3>1. candidates'[c] = candidates[c] + 1 BY <1>1, <1>2, <1>4, <2>7
    <3>2. key[2] \in Starting(c) /\ key[2] \notin SavingResume(c)
      <4>1. imports[<<c, key[2]>>] = "candidate" BY <1>1, <1>2, <2>7
      <4> QED BY <1>2, <4>1 DEF Starting, SavingResume
    <3>3. PICK S, R : S = Starting(c) /\ R = SavingResume(c) OBVIOUS
    <3>4. IsFiniteSet(S) /\ Cardinality(S) \in Nat /\ IsFiniteSet(R) /\ Cardinality(R) \in Nat
      BY <3>3, Counted DEF Reports
    <3>5. /\ Cardinality(S \ {key[2]}) = Cardinality(S) - 1
          /\ Cardinality(R \cup {key[2]}) = Cardinality(R) + 1
      <4>1. PICK x : x = key[2] OBVIOUS
      <4>2. x \in S /\ x \notin R BY <3>2, <3>3, <4>1
      <4>3. Cardinality(S \ {x}) = Cardinality(S) - 1 BY <3>4, <4>2, FS_RemoveElement
      <4>4. Cardinality(R \cup {x}) = Cardinality(R) + 1 BY <3>4, <4>2, FS_AddElement
      <4> QED BY <4>1, <4>3, <4>4
    <3>6. PICK n \in Nat, s \in Nat, r \in Nat, e \in Nat, h \in Nat :
             /\ n = candidates[c] /\ s = Cardinality(S) /\ r = Cardinality(R)
             /\ e = Excused /\ h = Cardinality(NamesOf(c))
      <4>1. candidates[c] \in Nat /\ Excused \in Nat /\ Cardinality(NamesOf(c)) \in Nat
        BY Counted DEF Reports
      <4> QED BY <3>4, <4>1
    <3>7. Cardinality(Starting(c)') = s - 1 /\ Cardinality(SavingResume(c)') = r + 1
      BY <2>3, <2>4, <2>7, <3>3, <3>5, <3>6
    <3>8. CASE c \in known
      <4>1. n + s <= h + e BY <2>1, <3>3, <3>6, <3>8 DEF OnceEach, Once
      <4>2. (n + 1) + (s - 1) <= h + e BY <3>6, <4>1
      <4> QED BY <2>1, <2>2, <2>5, <3>1, <3>6, <3>7, <3>8, <4>2 DEF Once
    <3>9. CASE c \notin known
      <4>1. n <= r + e BY <2>1, <3>3, <3>6, <3>9 DEF OnceEach, Once
      <4>2. n + 1 <= (r + 1) + e BY <3>6, <4>1
      <4> QED BY <2>1, <2>2, <3>1, <3>6, <3>7, <3>9, <4>2 DEF Once
    <3> QED BY <3>8, <3>9
  <2> QED BY <2>6, <2>7
<1> QED BY <1>5, <1>7, <1>8 DEF OnceEach

(* Who goes on when an import is over.                                     *)
LEMMA SettledRuns ==
    ASSUME Reports, Kept, Awaited, NEW key \in Keys, NEW step \in {"imported", "rejected"},
           Settle(key, step), turn = {}, jobs' = jobs
    PROVE  /\ Awaited'
           /\ \A k \in Jobs : SettingFingerprint(k)' <=> step = "imported" /\ k \in Awaiting(key)
           /\ \A k \in Awaiting(key) : Current(k)' = Current(k) /\ Current(k).content = key[1]
<1>1. /\ imports' = [imports EXCEPT ![key] = "none"]
      /\ task' = [j \in Jobs |-> IF j \in Awaiting(key) THEN [task[j] EXCEPT !.at = step] ELSE task[j]]
  BY DEF Settle
<1>2. imports \in [Keys -> {"none", "candidate", "resume"}] BY DEF Reports, TypeOK
<1>3. ASSUME NEW k \in Awaiting(key)
      PROVE  /\ k \in Jobs /\ task'[k] # None /\ task'[k].at = step
             /\ Current(k)' = Current(k) /\ Current(k).content = key[1]
  <2>1. k \in Jobs /\ task[k] # None /\ task[k].at = "import" /\ KeyOf(k) = key BY DEF Awaiting
  <2>2. task[k].todo # {} /\ task[k].at \in InRun /\ step \in InRun BY <2>1, RunFacts DEF InRun
  <2>3. PICK t : t = [task[k] EXCEPT !.at = step] OBVIOUS
  <2>4. t # None /\ t.at = step /\ t.todo = task[k].todo BY <2>1, <2>2, <2>3, StepOf
  <2>5. task'[k] = t BY <1>1, <2>1, <2>3
  <2>6. Current(k)' = Current(k) BY <2>4, <2>5 DEF Current
  <2> QED BY <2>1, <2>4, <2>5, <2>6 DEF KeyOf
<1>4. ASSUME NEW k \in Jobs, k \notin Awaiting(key)
      PROVE  /\ ~SettingFingerprint(k)'
             /\ \A k2 : k \in Awaiting(k2)' <=> k \in Awaiting(k2)
  <2>1. task'[k] = task[k] /\ jobs'[k] = jobs[k] BY <1>1, <1>4
  <2> QED BY <2>1, SameRun, BetweenTurns
<1>5. Awaited'
  <2> SUFFICES ASSUME NEW k2 \in Keys, imports'[k2] # "none"
               PROVE  \E k \in Jobs : k \in Awaiting(k2)'
    BY DEF Awaited
  <2>1. k2 # key /\ imports[k2] # "none" BY <1>1, <1>2
  <2>2. PICK k \in Jobs : k \in Awaiting(k2) BY <2>1 DEF Awaited
  <2>3. k \notin Awaiting(key) BY <2>1, <2>2 DEF Awaiting
  <2> QED BY <1>4, <2>2, <2>3
<1>6. \A k \in Jobs : SettingFingerprint(k)' <=> step = "imported" /\ k \in Awaiting(key)
  BY <1>3, <1>4 DEF SettingFingerprint
<1> QED BY <1>3, <1>5, <1>6

(* The first import of a content that is completed: whatever made another  *)
(* candidate is saving its resume still, under a name of its own.          *)
LEMMA SaveResumeOnce ==
    ASSUME Reports, Kept, OnceEach, IsFiniteSet(Names), NEW key \in Keys, SaveResume(key), Reports'
    PROVE  OnceEach'
<1>1. /\ turn = {} /\ imports[key] = "resume" /\ Settle(key, "imported")
      /\ imports' = [imports EXCEPT ![key] = "none"] /\ turn' = Awaiting(key)
      /\ jobs' = jobs /\ known' = known /\ candidates' = candidates
      /\ failures' = failures /\ restarts' = restarts
  BY DEF SaveResume, Settle, files
<1>2. key = <<key[1], key[2]>> /\ key[1] \in Contents /\ key[2] \in Names BY DEF Keys
<1>3. /\ Awaited'
      /\ \A k \in Jobs : SettingFingerprint(k)' <=> k \in Awaiting(key)
      /\ \A k \in Awaiting(key) : Current(k)' = Current(k) /\ Current(k).content = key[1]
  BY <1>1, SettledRuns DEF OnceEach
<1>4. PICK j \in Jobs : j \in Awaiting(key) BY <1>1 DEF OnceEach, Awaited
<1>5. Awaiting(key) \subseteq Jobs BY DEF Awaiting
<1>6. AloneInTurn'
  <2> SUFFICES ASSUME NEW k \in Jobs, SettingFingerprint(k)', NEW i \in turn'
               PROVE  SettingFingerprint(i)' /\ Current(i)'.content = Current(k)'.content
    BY DEF AloneInTurn
  <2> QED BY <1>1, <1>3, <1>5
<1>7. ASSUME NEW c \in Contents PROVE Once(c)'
  <2>1. Done(c) <=> c \in known BY <1>1, BetweenTurns
  <2>2. Done(c)' <=> c \in known \/ c = key[1]
    <3>1. ASSUME NEW k \in Jobs, SettingFingerprint(k)', Current(k)'.content = c PROVE c = key[1]
      BY <1>3, <3>1
    <3>2. ASSUME c = key[1] PROVE SettingFingerprint(j)' /\ Current(j)'.content = c
      BY <1>3, <1>4, <3>2
    <3> QED BY <1>1, <3>1, <3>2 DEF Done
  <2>3. Excused' = Excused /\ candidates'[c] = candidates[c] BY <1>1 DEF Excused
  <2>4. Starting(c)' = Starting(c)
    <3>1. Starting(c)' = IF c = key[1] THEN Starting(c) \ {key[2]} ELSE Starting(c)
      BY <1>1, StartingOf DEF Reports
    <3>2. c = key[1] => key[2] \notin Starting(c) BY <1>1, <1>2 DEF Starting
    <3> QED BY <3>1, <3>2
  <2>5. NamesOf(c)' = NamesOf(c) BY <1>1 DEF NamesOf
  <2>6. CASE c # key[1]
    <3>1. SavingResume(c)' = SavingResume(c) BY <1>1, <2>6, SavingResumeOf
    <3>2. NamesHeld(jobs, c) \subseteq NamesHeld(jobs', c) BY <1>1
    <3> QED BY <2>1, <2>2, <2>3, <2>4, <2>6, <3>1, <3>2, OnceFrame DEF OnceEach
  <2>7. CASE c = key[1]
    <3>1. PICK S, R, H : S = Starting(c) /\ R = SavingResume(c) /\ H = NamesOf(c) OBVIOUS
    <3>2. PICK n \in Nat, s \in Nat, r \in Nat, e \in Nat, h \in Nat :
             /\ n = candidates[c] /\ s = Cardinality(S) /\ r = Cardinality(R)
             /\ e = Excused /\ h = Cardinality(H)
      <4>1. /\ candidates[c] \in Nat /\ Excused \in Nat /\ Cardinality(NamesOf(c)) \in Nat
            /\ Cardinality(Starting(c)) \in Nat /\ Cardinality(SavingResume(c)) \in Nat
        BY Counted DEF Reports
      <4> QED BY <3>1, <4>1
    <3>3. n + s <= h + e
      <4>1. CASE c \in known BY <2>1, <3>1, <3>2, <4>1 DEF OnceEach, Once
      <4>2. CASE c \notin known
        <5>1. n <= r + e BY <2>1, <3>1, <3>2, <4>2 DEF OnceEach, Once
        <5>2. S \cup R \subseteq H BY <3>1, InFlightHeld DEF OnceEach
        <5>3. S \cap R = {} BY <3>1 DEF Starting, SavingResume
        <5>4. IsFiniteSet(S) /\ IsFiniteSet(R) /\ IsFiniteSet(H) BY <3>1, Counted DEF Reports
        <5>5. Cardinality(S \cup R) = s + r
          <6>1. Cardinality(S \cup R) = Cardinality(S) + Cardinality(R) - Cardinality(S \cap R)
            BY <5>4, FS_Union
          <6>2. Cardinality(S \cap R) = 0 BY <5>3, FS_EmptySet
          <6> QED BY <3>2, <6>1, <6>2
        <5>6. s + r <= h BY <3>2, <5>2, <5>4, <5>5, FS_Subset
        <5> QED BY <3>2, <5>1, <5>6
      <4> QED BY <4>1, <4>2
    <3> QED BY <2>2, <2>3, <2>4, <2>5, <2>7, <3>1, <3>2, <3>3 DEF Once
  <2> QED BY <2>6, <2>7
<1> QED BY <1>3, <1>6, <1>7 DEF OnceEach

(* An import that fails may leave one candidate behind.                    *)
LEMMA ImportFailsOnce ==
    ASSUME Reports, Kept, OnceEach, IsFiniteSet(Names), NEW key \in Keys, ImportFails(key), Reports'
    PROVE  OnceEach'
<1>1. /\ turn = {} /\ Settle(key, "rejected")
      /\ imports' = [imports EXCEPT ![key] = "none"]
      /\ jobs' = jobs /\ known' = known /\ candidates' = candidates
      /\ failures' = failures + 1 /\ restarts' = restarts
  BY DEF ImportFails, Settle, files
<1>2. Awaited' /\ \A k \in Jobs : ~SettingFingerprint(k)' BY <1>1, SettledRuns DEF OnceEach
<1>3. AloneInTurn' BY <1>2 DEF AloneInTurn
<1>4. ASSUME NEW c \in Contents PROVE Once(c)'
  <2>1. (Done(c) <=> c \in known) /\ (Done(c)' <=> c \in known)
    BY <1>1, <1>2, BetweenTurns DEF Done
  <2>2. NamesOf(c)' = NamesOf(c) BY <1>1 DEF NamesOf
  <2>3. PICK S, R, S2, R2, x :
           /\ S = Starting(c) /\ R = SavingResume(c) /\ x = key[2]
           /\ S2 = Starting(c)' /\ R2 = SavingResume(c)'
    OBVIOUS
  <2>4. /\ IsFiniteSet(S) /\ IsFiniteSet(R) /\ Cardinality(S) \in Nat /\ Cardinality(R) \in Nat
    BY <2>3, Counted DEF Reports
  <2>5. S2 \subseteq S /\ R \ {x} \subseteq R2 /\ R2 \subseteq R
    <3>1. S2 = IF c = key[1] THEN S \ {x} ELSE S BY <1>1, <2>3, StartingOf DEF Reports
    <3>2. R2 = IF c # key[1] THEN R ELSE R \ {x} BY <1>1, <2>3, SavingResumeOf
    <3> QED BY <3>1, <3>2
  <2>6. /\ Cardinality(S2) \in Nat /\ Cardinality(S2) <= Cardinality(S)
        /\ Cardinality(R2) \in Nat /\ Cardinality(R) <= Cardinality(R2) + 1
    <3>1. Cardinality(S2) \in Nat /\ Cardinality(S2) <= Cardinality(S)
      BY <2>4, <2>5, FS_Subset, FS_CardinalityType
    <3>2. IsFiniteSet(R2) /\ Cardinality(R2) \in Nat BY <2>4, <2>5, FS_Subset, FS_CardinalityType
    <3>3. IsFiniteSet(R \ {x}) /\ Cardinality(R \ {x}) \in Nat
      BY <2>4, FS_RemoveElement, FS_CardinalityType
    <3>4. Cardinality(R) <= Cardinality(R \ {x}) + 1
      <4>1. Cardinality(R \ {x}) = IF x \in R THEN Cardinality(R) - 1 ELSE Cardinality(R)
        BY <2>4, FS_RemoveElement
      <4>2. PICK a \in Nat, b \in Nat : a = Cardinality(R) /\ b = Cardinality(R \ {x})
        BY <2>4, <3>3
      <4>3. b = a - 1 \/ b = a BY <4>1, <4>2
      <4>4. a <= b + 1 BY <4>2, <4>3
      <4> QED BY <4>2, <4>4
    <3>5. Cardinality(R \ {x}) <= Cardinality(R2) BY <2>5, <3>2, FS_Subset
    <3>6. PICK a \in Nat, b \in Nat, d \in Nat :
             a = Cardinality(R) /\ b = Cardinality(R \ {x}) /\ d = Cardinality(R2)
      BY <2>4, <3>2, <3>3
    <3>7. a <= b + 1 /\ b <= d BY <3>4, <3>5, <3>6
    <3>8. a <= d + 1 BY <3>6, <3>7
    <3> QED BY <3>1, <3>2, <3>6, <3>8
  <2>7. PICK n \in Nat, e \in Nat, h \in Nat, s \in Nat, r \in Nat, s2 \in Nat, r2 \in Nat :
           /\ n = candidates[c] /\ e = Excused /\ h = Cardinality(NamesOf(c))
           /\ s = Cardinality(S) /\ r = Cardinality(R)
           /\ s2 = Cardinality(S2) /\ r2 = Cardinality(R2)
    <3>1. candidates[c] \in Nat /\ Excused \in Nat /\ Cardinality(NamesOf(c)) \in Nat
      BY Counted DEF Reports
    <3> QED BY <2>4, <2>6, <3>1
  <2>8. Excused' = e + 1
    <3>1. PICK a \in Nat, b \in Nat, m \in Nat :
             a = failures /\ b = restarts /\ m = Cardinality(Names)
      BY FS_CardinalityType DEF Reports, TypeOK
    <3>2. e = a + b * m BY <2>7, <3>1 DEF Excused
    <3>3. Excused' = (a + 1) + b * m BY <1>1, <3>1 DEF Excused
    <3>4. PICK p \in Nat : p = b * m BY <3>1
    <3> QED BY <3>1, <3>2, <3>3, <3>4
  <2>9. CASE c \in known
    <3>1. n + s <= h + e BY <2>1, <2>3, <2>7, <2>9 DEF OnceEach, Once
    <3>2. s2 <= s BY <2>6, <2>7
    <3>3. n + s2 <= h + (e + 1) BY <2>7, <3>1, <3>2
    <3> QED BY <1>1, <2>1, <2>2, <2>3, <2>7, <2>8, <2>9, <3>3 DEF Once
  <2>10. CASE c \notin known
    <3>1. n <= r + e BY <2>1, <2>3, <2>7, <2>10 DEF OnceEach, Once
    <3>2. r <= r2 + 1 BY <2>6, <2>7
    <3>3. n <= r2 + (e + 1) BY <2>7, <3>1, <3>2
    <3> QED BY <1>1, <2>1, <2>3, <2>7, <2>8, <2>10, <3>3 DEF Once
  <2> QED BY <2>9, <2>10
<1> QED BY <1>2, <1>3, <1>4 DEF OnceEach

(* What was made of a content so far, whatever is under way.               *)
LEMMA AtMost ==
    ASSUME TypeOK, OnceEach, IsFiniteSet(Names), NEW c \in Contents
    PROVE  candidates[c] <= Cardinality(Names) + Excused
<1>1. PICK n \in Nat, e \in Nat, h \in Nat, s \in Nat, r \in Nat, m \in Nat :
         /\ n = candidates[c] /\ e = Excused /\ h = Cardinality(NamesOf(c))
         /\ s = Cardinality(Starting(c)) /\ r = Cardinality(SavingResume(c))
         /\ m = Cardinality(Names) /\ h <= m /\ r <= m
  <2>1. /\ candidates[c] \in Nat /\ Excused \in Nat /\ Cardinality(NamesOf(c)) \in Nat
        /\ Cardinality(Starting(c)) \in Nat /\ Cardinality(SavingResume(c)) \in Nat
        /\ Cardinality(Names) \in Nat /\ Cardinality(NamesOf(c)) <= Cardinality(Names)
        /\ Cardinality(SavingResume(c)) <= Cardinality(Names)
    BY Counted
  <2> QED BY <2>1
<1>2. n + s <= h + e \/ n <= r + e BY <1>1 DEF OnceEach, Once
<1>3. n <= m + e BY <1>1, <1>2
<1> QED BY <1>1, <1>3

LEMMA RestartOnce ==
    ASSUME Reports, OnceEach, IsFiniteSet(Names), Restart, Reports'
    PROVE  OnceEach'
<1>1. /\ task' = [j \in Jobs |-> None] /\ imports' = [k \in Keys |-> "none"]
      /\ candidates' = candidates /\ failures' = failures /\ restarts' = restarts + 1
  BY DEF Restart
<1>2. Awaited' BY <1>1 DEF Awaited
<1>3. \A k \in Jobs : ~SettingFingerprint(k)' BY <1>1 DEF SettingFingerprint
<1>4. AloneInTurn' BY <1>3 DEF AloneInTurn
<1>5. ASSUME NEW c \in Contents PROVE Once(c)'
  <2>1. Starting(c)' = {} /\ SavingResume(c)' = {}
    <3>1. \A n \in Names : imports'[<<c, n>>] = "none" BY <1>1 DEF Keys
    <3> QED BY <3>1 DEF Starting, SavingResume
  <2>2. Cardinality(Starting(c)') = 0 /\ Cardinality(SavingResume(c)') = 0
    BY <2>1, FS_EmptySet
  <2>3. PICK a \in Nat, b \in Nat, m \in Nat :
           a = failures /\ b = restarts /\ m = Cardinality(Names)
    BY FS_CardinalityType DEF Reports, TypeOK
  <2>4. Excused = a + b * m BY <2>3 DEF Excused
  <2>5. Excused' = a + (b + 1) * m BY <1>1, <2>3 DEF Excused
  <2>6. (b + 1) * m = b * m + m BY <2>3
  <2>7. PICK p \in Nat : p = b * m BY <2>3
  <2>8. PICK n \in Nat : n = candidates[c] BY DEF Reports, TypeOK
  <2>9. n <= m + (a + p)
    <3>1. candidates[c] <= Cardinality(Names) + Excused BY AtMost DEF Reports
    <3> QED BY <2>3, <2>4, <2>7, <2>8, <3>1
  <2>10. PICK e \in Nat : e = Excused' /\ n <= e
    <3>1. Excused' = a + (p + m) BY <2>5, <2>6, <2>7
    <3>2. a + (p + m) \in Nat /\ n <= a + (p + m) BY <2>3, <2>7, <2>8, <2>9
    <3> QED BY <3>1, <3>2
  <2>11. PICK h \in Nat : h = Cardinality(NamesOf(c)')
    <3>1. jobs' \in [Jobs -> Job \cup {None}] BY DEF Reports, TypeOK
    <3>2. NamesOf(c)' = NamesHeld(jobs', c) BY DEF NamesOf, NamesHeld
    <3> QED BY <3>1, <3>2, HeldNames
  <2>12. n + 0 <= h + e /\ n <= 0 + e BY <2>8, <2>10, <2>11
  <2>13. candidates'[c] = n BY <1>1, <2>8
  <2> QED BY <2>2, <2>10, <2>11, <2>12, <2>13 DEF Once
<1> QED BY <1>2, <1>4, <1>5 DEF OnceEach

LEMMA StutterOnce ==
    ASSUME OnceEach, UNCHANGED vars
    PROVE  OnceEach'
<1>1. UNCHANGED <<jobs, known, task, turn, imports, candidates, failures, restarts>>
  BY DEF vars, files, importVars
<1>2. ASSUME NEW k \in Jobs
      PROVE  /\ SettingFingerprint(k)' <=> SettingFingerprint(k)
             /\ Current(k)' = Current(k)
             /\ \A key : k \in Awaiting(key)' <=> k \in Awaiting(key)
  BY <1>1, SameRun
<1>3. Awaited' BY <1>1, <1>2 DEF OnceEach, Awaited
<1>4. AloneInTurn'
  <2>1. AloneInTurn BY DEF OnceEach
  <2> QED BY <1>1, <2>1 DEF AloneInTurn, SettingFingerprint, Current
<1>5. ASSUME NEW c \in Contents PROVE Once(c)'
  <2>1. Done(c)' <=> Done(c) BY <1>1, <1>2 DEF Done
  <2>2. Starting(c)' = Starting(c) /\ SavingResume(c)' = SavingResume(c) /\ Excused' = Excused
        /\ NamesOf(c)' = NamesOf(c)
    BY <1>1 DEF Starting, SavingResume, Excused, NamesOf
  <2> QED BY <1>1, <2>1, <2>2 DEF OnceEach, Once
<1> QED BY <1>3, <1>4, <1>5 DEF OnceEach

LEMMA OnceStep ==
    ASSUME Reports, StagedRows, Kept, OnceEach, IsFiniteSet(Names), [Next]_vars
    PROVE  OnceEach'
<1>1. Reports' BY ReportsStep
<1>2. ASSUME NEW j \in Jobs,
             \/ Run(j) \/ \E scope \in Scopes : Confirm(j, scope)
             \/ \E p \in Packages : \/ \E k \in Jobs : UploadAgain(j, k, p)
                                   \/ \E scope \in Scopes \cup {None} : Upload(j, p, scope)
      PROVE  OnceEach'
  <2>1. CASE Import(j) BY <1>1, <2>1, ImportOnce
  <2>2. CASE SetFingerprint(j) BY <1>1, <2>2, SetFingerprintOnce
  <2>3. CASE \E row, w : Handled(j, row, w) /\ Plain(j, w) BY <1>1, <2>3, PlainOnce
  <2> QED BY <1>2, <2>1, <2>2, <2>3, HandlersHandle
<1>3. ASSUME NEW key \in Keys, ImportStep(key) PROVE OnceEach'
  BY <1>1, <1>3, SaveCandidateOnce, SaveResumeOnce, ImportFailsOnce DEF ImportStep
<1> QED BY <1>1, <1>2, <1>3, RestartOnce, StutterOnce DEF Next

LEMMA InitOnce == Init /\ IsFiniteSet(Names) => OnceEach
<1> SUFFICES ASSUME Init, IsFiniteSet(Names) PROVE OnceEach OBVIOUS
<1>1. /\ \A j \in Jobs : ~SettingFingerprint(j)
      /\ \A key \in Keys : imports[key] = "none"
      /\ known = {} /\ \A c \in Contents : candidates[c] = 0
  BY DEF Init, SettingFingerprint
<1>2. Reports BY InitReports
<1>3. ASSUME NEW c \in Contents PROVE Once(c)
  <2>1. ~Done(c) BY <1>1 DEF Done
  <2>2. Cardinality(SavingResume(c)) \in Nat /\ Excused \in Nat BY <1>2, Counted DEF Reports
  <2> QED BY <1>1, <2>1, <2>2 DEF Once
<1> QED BY <1>1, <1>3 DEF OnceEach, Awaited, AloneInTurn

(* AC-IDEMPOTENT-1: a file makes one candidate, however runs that share it *)
(* interleave, but for what failures and restarts cost (runJob,            *)
(* importResume).                                                          *)
THEOREM OneCandidatePerFile ==
    ASSUME IsFiniteSet(Names)
    PROVE  Spec => []ImportedOnce
<1>1. Init => OnceEach BY InitOnce
<1>2. Reports /\ StagedRows /\ Kept /\ OnceEach /\ [Next]_vars => OnceEach' BY OnceStep
<1>3. Reports /\ OnceEach => ImportedOnce
  <2> SUFFICES ASSUME Reports, OnceEach, NEW c \in Contents
               PROVE  candidates[c] <= Cardinality(NamesOf(c)) + failures + restarts * Cardinality(Names)
    BY DEF ImportedOnce
  <2>1. PICK n \in Nat, h \in Nat, s \in Nat, r \in Nat, a \in Nat, p \in Nat :
           /\ n = candidates[c] /\ h = Cardinality(NamesOf(c))
           /\ s = Cardinality(Starting(c)) /\ r = Cardinality(SavingResume(c))
           /\ a = failures /\ p = restarts * Cardinality(Names)
    <3>1. /\ candidates[c] \in Nat /\ Cardinality(NamesOf(c)) \in Nat
          /\ Cardinality(Starting(c)) \in Nat /\ Cardinality(SavingResume(c)) \in Nat
      BY Counted DEF Reports
    <3>2. PICK b \in Nat, m \in Nat : b = restarts /\ m = Cardinality(Names)
      BY FS_CardinalityType DEF Reports, TypeOK
    <3>3. b * m \in Nat BY <3>2
    <3>4. failures \in Nat BY DEF Reports, TypeOK
    <3> QED BY <3>1, <3>2, <3>3, <3>4
  <2>2. n + s <= h + (a + p) \/ n <= r + (a + p) BY <2>1 DEF OnceEach, Once, Excused
  <2>3. r <= h
    <3>1. SavingResume(c) \subseteq NamesOf(c) BY InFlightHeld DEF OnceEach
    <3>2. IsFiniteSet(NamesOf(c)) BY Counted DEF Reports
    <3> QED BY <2>1, <3>1, <3>2, FS_Subset
  <2>4. n <= (h + a) + p BY <2>1, <2>2, <2>3
  <2> QED BY <2>1, <2>4
<1> QED BY <1>1, <1>2, <1>3, ReportsAlways, KeptAlways, PTL DEF Spec
=============================================================================
