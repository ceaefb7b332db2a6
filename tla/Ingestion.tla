----------------------------- MODULE Ingestion -----------------------------
(***************************************************************************)
(* Bulk ingestion: IngestionEngine with its job and fingerprint files, the *)
(* staged uploads, and the imports of CandidateImportService that its runs *)
(* await.                                                                  *)
(*                                                                         *)
(* The two files and the staging directory are written synchronously, so   *)
(* an upload, a confirmation and a run hold the event loop until the run   *)
(* awaits an import, which does real I/O.  turn is the set of jobs whose   *)
(* handler the current turn of the event loop has still to run; anything   *)
(* else waits until it is empty.  A crash may come between any two writes, *)
(* and in the middle of one.                                               *)
(*                                                                         *)
(* Abstracted: paths and bytes, percentages, times, candidate ids (only    *)
(* how many candidates and resumes a content has), what an import extracts.*)
(***************************************************************************)
EXTENDS Naturals, Sequences, FiniteSetsExt

CONSTANTS
    Jobs,            \* ids
    Contents,        \* file contents, by hash
    Names,           \* file names
    Packages,        \* what may be uploaded: sequences of documents
    MaxFailures,     \* bound: imports that reject
    MaxFaults,       \* bound: writes of a file that throw
    MaxRestarts,     \* bound: restarts of the process
    None             \* no job, no task

Classes == {"cv", "jd", "salary", "other", "unsupported"}
Scopes == {"cv", "cv_jd", "all"}
Statuses ==
    {"Created", "Queued", "Running", "AwaitingConfirmation", "Completed",
     "CompletedWithWarnings", "Failed"}
CompletedStatuses == {"Completed", "CompletedWithWarnings"}

Document == [content: Contents, name: Names, class: Classes]
Report == [imported: Nat, duplicate: Nat, skipped: Nat, failed: Nat]
Job ==
    [status: Statuses, documents: Packages, scope: Scopes \cup {None},
     processed: Nat, report: Report \cup {None}]

(* The handler of a job: where it is, the scope it will confirm with, the  *)
(* positions of the selected documents left, what it has counted.          *)
Steps ==
    {"stage", "staged", "start", "document", "import", "imported", "known", "rejected", "failed"}
Task == [at: Steps, scope: Scopes \cup {None}, todo: SUBSET Nat, report: Report]

(* CandidateImportService knows an import in flight by content and name.   *)
Keys == Contents \X Names

ASSUME IngestionAssumption ==
    /\ Packages \subseteq Seq(Document)
    /\ MaxFailures \in Nat /\ MaxFaults \in Nat /\ MaxRestarts \in Nat
    /\ None \notin Scopes /\ None \notin Report /\ None \notin Job /\ None \notin Task

VARIABLES
    jobs,         \* the job repository in memory, a job or None by id
    jobFile,      \* ingestion-jobs.json
    known,        \* contents with a fingerprint in memory
    knownFile,    \* ingestion-fingerprints.json
    staged,       \* jobs with a staging directory
    buffers,      \* jobs whose bytes are in memory
    task,         \* the handler of each job, None when it has none
    turn,         \* jobs whose handler this turn of the event loop still runs
    imports,      \* by key: the save an import in flight awaits, or "none"
    candidates,   \* candidates saved, by content
    resumes,      \* resumes saved, by content
    failures, faults, restarts

files == <<jobFile, knownFile, staged>>
importVars == <<imports, candidates, resumes, failures>>
vars == <<jobs, files, known, buffers, task, turn, importVars, faults, restarts>>

TypeOK ==
    /\ jobs \in [Jobs -> Job \cup {None}]
    /\ jobFile \in [Jobs -> Job \cup {None}]
    /\ known \subseteq Contents /\ knownFile \subseteq Contents
    /\ staged \subseteq Jobs /\ buffers \subseteq Jobs
    /\ task \in [Jobs -> Task \cup {None}]
    /\ turn \subseteq {j \in Jobs : task[j] # None}
    /\ imports \in [Keys -> {"none", "candidate", "resume"}]
    /\ candidates \in [Contents -> Nat] /\ resumes \in [Contents -> Nat]
    /\ failures \in Nat /\ faults \in Nat /\ restarts \in Nat

Init ==
    /\ jobs = [j \in Jobs |-> None] /\ jobFile = jobs
    /\ known = {} /\ knownFile = {}
    /\ staged = {} /\ buffers = {}
    /\ task = [j \in Jobs |-> None] /\ turn = {}
    /\ imports = [k \in Keys |-> "none"]
    /\ candidates = [c \in Contents |-> 0] /\ resumes = [c \in Contents |-> 0]
    /\ failures = 0 /\ faults = 0 /\ restarts = 0

-----------------------------------------------------------------------------
(* Packages.                                                               *)

ClassesIn(package) == {package[n].class : n \in DOMAIN package}

(* A package of one class, cv or jd, needs no confirmation.                *)
NeedsConfirmation(package) ==
    LET found == ClassesIn(package) \ {"unsupported"} IN
    Cardinality(found) > 1 \/ found \cap {"salary", "other"} # {}

(* Which classes a scope selects.                                          *)
InScope(class, scope) ==
    CASE scope = "all"   -> class # "unsupported"
      [] scope = "cv"    -> class = "cv"
      [] scope = "cv_jd" -> class \in {"cv", "jd"}

(* The positions of the documents a run goes through.                      *)
Selected(job) == {n \in DOMAIN job.documents : InScope(job.documents[n].class, job.scope)}

(* The fingerprint of a package is that of its contents in sorted order.   *)
Fingerprint(package) ==
    [c \in Contents |-> Cardinality({n \in DOMAIN package : package[n].content = c})]

(* A completed job of the same package.                                    *)
Prior(j, package) ==
    /\ jobs[j] # None /\ jobs[j].status \in CompletedStatuses
    /\ Fingerprint(jobs[j].documents) = Fingerprint(package)

Ended(j) == jobs[j] # None /\ jobs[j].status \in CompletedStatuses \cup {"Failed"}

-----------------------------------------------------------------------------
(* Tasks and the files they write.                                         *)

(* The handler of j goes on as t within this turn, or gives up the loop.   *)
Continue(j, t) ==
    /\ task' = [task EXCEPT ![j] = t]
    /\ turn' = IF t # None /\ t.at # "import" THEN turn \cup {j} ELSE turn \ {j}

FlushThrows == faults < MaxFaults /\ faults' = faults + 1

(* persistJob saves the row in memory and flushes the file; the handler    *)
(* goes on as t, or as otherwise when the flush throws.                    *)
Persist(j, row, t, otherwise) ==
    /\ jobs' = [jobs EXCEPT ![j] = row]
    /\ \/ /\ jobFile' = jobs'
          /\ Continue(j, t)
          /\ UNCHANGED faults
       \/ /\ FlushThrows
          /\ Continue(j, otherwise)
          /\ UNCHANGED jobFile

NewTask(at, scope) ==
    [at |-> at, scope |-> scope, todo |-> {},
     report |-> [imported |-> 0, duplicate |-> 0, skipped |-> 0, failed |-> 0]]

At(j, step) == task[j] # None /\ task[j].at = step /\ j \in turn

HasBytes(j) == j \in buffers \cup staged

(* requireJob attaches the bytes it finds, and saving them puts them back  *)
(* in memory.                                                              *)
Reattach(j) == buffers' = IF HasBytes(j) THEN buffers \cup {j} ELSE buffers

-----------------------------------------------------------------------------
(* createJobFromUpload and confirmJob.                                     *)

NewJob(package) ==
    [status |-> "Created", documents |-> package, scope |-> None, processed |-> 0,
     report |-> None]

(* generateId: no job and no staging directory has the id.                 *)
Fresh(j) == jobs[j] = None /\ j \notin staged

(* A package that was ingested before is completed from the prior report.  *)
UploadAgain(j, k, package) ==
    LET r == jobs[k].report IN
    /\ turn = {} /\ Fresh(j)
    /\ Prior(k, package)
    /\ Persist(j, [NewJob(package) EXCEPT
                      !.status = "Completed",
                      !.scope = IF jobs[k].scope = None THEN "cv" ELSE jobs[k].scope,
                      !.processed = Len(package),
                      !.report = [imported |-> 0, duplicate |-> r.imported + r.duplicate,
                                  skipped |-> r.skipped, failed |-> 0]],
               None, None)
    /\ buffers' = buffers \cup {j}
    /\ UNCHANGED <<known, knownFile, staged, importVars, restarts>>

(* autoConfirmScope as given, or "cv" when there is nothing to confirm.    *)
ScopeToConfirm(package, scope) ==
    IF scope # None THEN scope
    ELSE IF ~NeedsConfirmation(package) /\ "cv" \in ClassesIn(package) THEN "cv" ELSE None

Upload(j, package, scope) ==
    /\ turn = {} /\ Fresh(j)
    /\ ~\E k \in Jobs : Prior(k, package)
    /\ Persist(j, NewJob(package), NewTask("stage", ScopeToConfirm(package, scope)), None)
    /\ buffers' = buffers \cup {j}
    /\ UNCHANGED <<known, knownFile, staged, importVars, restarts>>

(* The files go to the staging directory.                                  *)
Stage(j) ==
    /\ At(j, "stage")
    /\ \/ /\ staged' = staged \cup {j}
          /\ Continue(j, [task[j] EXCEPT !.at = "staged"])
          /\ UNCHANGED faults
       \/ /\ FlushThrows
          /\ Continue(j, None)
          /\ UNCHANGED staged
    /\ UNCHANGED <<jobs, jobFile, known, knownFile, buffers, importVars, restarts>>

(* The upload ends with the job confirmed or awaiting its confirmation.    *)
EndUpload(j) ==
    /\ At(j, "staged")
    /\ IF task[j].scope = None
         THEN Persist(j, [jobs[j] EXCEPT !.status = "AwaitingConfirmation"], None, None)
         ELSE Persist(j, [jobs[j] EXCEPT !.status = "Queued", !.scope = task[j].scope],
                      NewTask("start", None), None)
    /\ UNCHANGED <<known, knownFile, staged, buffers, importVars, restarts>>

Confirmable(j) == jobs[j] # None /\ jobs[j].status \in {"AwaitingConfirmation", "Created"}

(* The recruiter confirms; any other status is returned as it is.          *)
Confirm(j, scope) ==
    /\ turn = {}
    /\ Confirmable(j)
    /\ Persist(j, [jobs[j] EXCEPT !.status = "Queued", !.scope = scope],
               NewTask("start", None), None)
    /\ UNCHANGED <<known, knownFile, staged, buffers, importVars, restarts>>

-----------------------------------------------------------------------------
(* runJob.                                                                 *)

Rejected == NewTask("failed", None)

(* Mutant of OutOfScope: documents left out are not reported as skipped.   *)
OutOfScopeUnreported(job) == 0

OutOfScope(job) == Len(job.documents) - Cardinality(Selected(job))

StartRun(j) ==
    /\ At(j, "start")
    /\ Persist(j, [jobs[j] EXCEPT !.status = "Running"],
               [NewTask("document", None) EXCEPT !.todo = Selected(jobs[j]),
                                                 !.report.skipped = OutOfScope(jobs[j])],
               Rejected)
    /\ Reattach(j)
    /\ UNCHANGED <<known, knownFile, staged, importVars, restarts>>

Current(j) == jobs[j].documents[Min(task[j].todo)]
KeyOf(j) == <<Current(j).content, Current(j).name>>
AtDocument(j) == At(j, "document") /\ task[j].todo # {}

(* A document is counted in the report, and touchProgress saves how far    *)
(* the run is.                                                             *)
Count(j, report) ==
    LET left == task[j].todo \ {Min(task[j].todo)} IN
    /\ Persist(j, [jobs[j] EXCEPT !.processed = Cardinality(Selected(jobs[j]) \ left)],
               [task[j] EXCEPT !.at = "document", !.todo = left, !.report = report], Rejected)
    /\ Reattach(j)
    /\ UNCHANGED <<known, knownFile, staged, restarts>>

CountDuplicate(j) ==
    /\ AtDocument(j)
    /\ Current(j).content \in known
    /\ Count(j, [task[j].report EXCEPT !.duplicate = @ + 1])
    /\ UNCHANGED importVars

CountSkipped(j) ==
    /\ AtDocument(j)
    /\ Current(j).content \notin known
    /\ Current(j).class # "cv"
    /\ Count(j, [task[j].report EXCEPT !.skipped = @ + 1])
    /\ UNCHANGED importVars

(* "Missing file buffer", or an import that rejected.                      *)
CountFailed(j) ==
    /\ \/ /\ AtDocument(j)
          /\ Current(j).content \notin known
          /\ Current(j).class = "cv"
          /\ ~HasBytes(j)
       \/ At(j, "rejected")
    /\ Count(j, [task[j].report EXCEPT !.failed = @ + 1])
    /\ UNCHANGED importVars

(* Mutant of JoinOrStart: imports in flight are not looked at.             *)
AlwaysStart(key) == "candidate"

(* importResume joins the import of the same file that is in flight.       *)
JoinOrStart(key) == IF imports[key] = "none" THEN "candidate" ELSE imports[key]

Import(j) ==
    /\ AtDocument(j)
    /\ Current(j).content \notin known
    /\ Current(j).class = "cv"
    /\ HasBytes(j)
    /\ imports' = [imports EXCEPT ![KeyOf(j)] = JoinOrStart(KeyOf(j))]
    /\ Continue(j, [task[j] EXCEPT !.at = "import"])
    /\ UNCHANGED <<jobs, files, known, buffers, candidates, resumes, failures, faults, restarts>>

(* The fingerprint is kept; when its flush throws the document is counted  *)
(* as failed, though it is imported and known.                             *)
SetFingerprint(j) ==
    /\ At(j, "imported")
    /\ known' = known \cup {Current(j).content}
    /\ \/ /\ knownFile' = known'
          /\ Continue(j, [task[j] EXCEPT !.at = "known"])
          /\ UNCHANGED faults
       \/ /\ FlushThrows
          /\ Continue(j, [task[j] EXCEPT !.at = "rejected"])
          /\ UNCHANGED knownFile
    /\ UNCHANGED <<jobs, jobFile, staged, buffers, importVars, restarts>>

CountImported(j) ==
    /\ At(j, "known")
    /\ Count(j, [task[j].report EXCEPT !.imported = @ + 1])
    /\ UNCHANGED importVars

StatusOf(report) ==
    IF report.failed > 0 \/ report.duplicate > 0 \/ report.skipped > 0
      THEN "CompletedWithWarnings" ELSE "Completed"

(* Mutant of Finish: the bytes are cleared whether the save went well.     *)
FinishAndClear(j) ==
    /\ At(j, "document")
    /\ task[j].todo = {}
    /\ Persist(j, [jobs[j] EXCEPT !.status = StatusOf(task[j].report),
                                  !.report = task[j].report,
                                  !.processed = Cardinality(Selected(jobs[j]))],
               None, Rejected)
    /\ buffers' = buffers \ {j} /\ staged' = staged \ {j}
    /\ UNCHANGED <<known, knownFile, importVars, restarts>>

Finish(j) ==
    /\ At(j, "document")
    /\ task[j].todo = {}
    /\ Persist(j, [jobs[j] EXCEPT !.status = StatusOf(task[j].report),
                                  !.report = task[j].report,
                                  !.processed = Cardinality(Selected(jobs[j]))],
               None, Rejected)
    /\ IF task'[j] = None
         THEN buffers' = buffers \ {j} /\ staged' = staged \ {j}
         ELSE UNCHANGED <<buffers, staged>>
    /\ UNCHANGED <<known, knownFile, importVars, restarts>>

(* The worker rejected: a job that is still Running becomes Failed.        *)
MarkFailed(j) ==
    /\ At(j, "failed")
    /\ IF jobs[j].status = "Running"
         THEN Persist(j, [jobs[j] EXCEPT !.status = "Failed"], None, None)
         ELSE Continue(j, None) /\ UNCHANGED <<jobs, jobFile, faults>>
    /\ UNCHANGED <<known, knownFile, staged, buffers, importVars, restarts>>

-----------------------------------------------------------------------------
(* CandidateImportService.executeImport: every save is I/O.                *)

(* Mutant of Awaiting: only one of the runs that joined is resumed.        *)
FirstAwaiting(key) ==
    LET all == {j \in Jobs : task[j] # None /\ task[j].at = "import" /\ KeyOf(j) = key} IN
    IF all = {} THEN {} ELSE {CHOOSE j \in all : TRUE}

(* The runs that await the import of key.                                  *)
Awaiting(key) == {j \in Jobs : task[j] # None /\ task[j].at = "import" /\ KeyOf(j) = key}

(* The import of key is over; all runs that await it continue at step.     *)
Settle(key, step) ==
    /\ imports' = [imports EXCEPT ![key] = "none"]
    /\ task' = [j \in Jobs |-> IF j \in Awaiting(key) THEN [task[j] EXCEPT !.at = step]
                                                      ELSE task[j]]
    /\ turn' = Awaiting(key)

(* Mutant of SaveCandidate: the save of the resume is not awaited.         *)
SaveCandidateOnly(key) ==
    /\ turn = {} /\ imports[key] = "candidate"
    /\ candidates' = [candidates EXCEPT ![key[1]] = @ + 1]
    /\ Settle(key, "imported")
    /\ UNCHANGED <<jobs, files, known, buffers, resumes, failures, faults, restarts>>

SaveCandidate(key) ==
    /\ turn = {} /\ imports[key] = "candidate"
    /\ candidates' = [candidates EXCEPT ![key[1]] = @ + 1]
    /\ imports' = [imports EXCEPT ![key] = "resume"]
    /\ UNCHANGED <<jobs, files, known, buffers, task, turn, resumes, failures, faults, restarts>>

SaveResume(key) ==
    /\ turn = {} /\ imports[key] = "resume"
    /\ resumes' = [resumes EXCEPT ![key[1]] = @ + 1]
    /\ Settle(key, "imported")
    /\ UNCHANGED <<jobs, files, known, buffers, candidates, failures, faults, restarts>>

(* A file that cannot be read, or a store or provider that rejects.        *)
ImportFails(key) ==
    /\ turn = {} /\ imports[key] # "none"
    /\ failures < MaxFailures
    /\ failures' = failures + 1
    /\ Settle(key, "rejected")
    /\ UNCHANGED <<jobs, files, known, buffers, candidates, resumes, faults, restarts>>

-----------------------------------------------------------------------------

(* What a reload finds: a file that was being written is truncated, fails  *)
(* to parse, and is taken for empty.                                       *)
Reload ==
    \/ jobs' = jobFile /\ known' = knownFile
    \/ /\ turn = {} \/ \E j \in turn : task[j].at \notin {"stage", "imported"}
       /\ jobs' = [j \in Jobs |-> None] /\ known' = knownFile
    \/ /\ \E j \in turn : task[j].at = "imported"
       /\ jobs' = jobFile /\ known' = {}

(* The process ends and is started again.  No run is resumed.              *)
Restart ==
    /\ restarts < MaxRestarts
    /\ restarts' = restarts + 1
    /\ Reload
    /\ jobFile' = jobs' /\ knownFile' = known'
    /\ buffers' = {}
    /\ task' = [j \in Jobs |-> None] /\ turn' = {}
    /\ imports' = [k \in Keys |-> "none"]
    /\ UNCHANGED <<staged, candidates, resumes, failures, faults>>

Run(j) ==
    \/ Stage(j) \/ EndUpload(j) \/ StartRun(j)
    \/ CountDuplicate(j) \/ CountSkipped(j) \/ CountFailed(j) \/ Import(j)
    \/ SetFingerprint(j) \/ CountImported(j)
    \/ Finish(j) \/ MarkFailed(j)

ImportStep(key) == SaveCandidate(key) \/ SaveResume(key) \/ ImportFails(key)

Next ==
    \/ \E j \in Jobs :
          \/ \E p \in Packages :
                \/ \E k \in Jobs : UploadAgain(j, k, p)
                \/ \E scope \in Scopes \cup {None} : Upload(j, p, scope)
          \/ \E scope \in Scopes : Confirm(j, scope)
          \/ Run(j)
    \/ \E key \in Keys : ImportStep(key)
    \/ Restart

(* The event loop runs what is ready, and an import settles.               *)
Fairness ==
    /\ \A j \in Jobs : WF_vars(Run(j))
    /\ \A key \in Keys : WF_vars(ImportStep(key))

Spec == Init /\ [][Next]_vars /\ Fairness

-----------------------------------------------------------------------------
(* Properties.                                                             *)

Total(r) == r.imported + r.duplicate + r.skipped + r.failed

Reported(j) == jobs[j] # None /\ jobs[j].report # None

(* Every document of a package is counted once in the report of its run    *)
(* (IngestionReport, AC-MVP-1), whatever is skipped, known already, joined *)
(* with another run or failed; a report copied from a prior one counts no  *)
(* more than that.                                                         *)
ReportAddsUp ==
    \A j \in Jobs : Reported(j) =>
        LET r == jobs[j].report IN
        /\ Total(r) <= Len(jobs[j].documents)
        /\ r.imported > 0 \/ jobs[j].status = "CompletedWithWarnings" =>
              Total(r) = Len(jobs[j].documents)

(* The names under which the jobs hold a content.                          *)
NamesOf(content) ==
    {d.name : d \in {d \in UNION {Range(jobs[j].documents) : j \in {k \in Jobs : jobs[k] # None}} :
                        d.content = content}}

(* AC-IDEMPOTENT-1: a file makes one candidate, however runs that share it *)
(* interleave.  The exceptions: the same content under another name at the *)
(* same time, an import that fails after its first save, and what a        *)
(* restart forgets.                                                        *)
ImportedOnce ==
    \A c \in Contents :
        candidates[c] <= Cardinality(NamesOf(c)) + failures + restarts * Cardinality(Names)

(* A fingerprint promises a candidate and its resume: it is set after both *)
(* saves, also across a restart, since nothing is imported again after it. *)
KnownIsComplete ==
    \A c \in Contents :
        /\ resumes[c] <= candidates[c]
        /\ c \in known \cup knownFile => resumes[c] > 0

AwaitingStaged ==
    \A j \in Jobs : jobs[j] # None /\ jobs[j].status = "AwaitingConfirmation" => j \in staged

GivenUpEnded ==
    \A j \in staged :
        \/ j \in staged'
        \/ jobFile'[j] # None /\ jobFile'[j].status \in CompletedStatuses

(* A job that awaits its confirmation has its files in the staging         *)
(* directory ("AwaitingConfirmation survives", ingest-staging-store.ts),   *)
(* also after a restart, and they go only when the end of the job is on    *)
(* disk, never when its last write throws.                                 *)
StagedUntilEnded == []AwaitingStaged /\ [][GivenUpEnded]_vars

(* A confirmed job ends, whatever its imports do, unless the process ends  *)
(* or cannot write.                                                        *)
ConfirmedEnds ==
    \A j \in Jobs :
        jobs[j] # None /\ jobs[j].status \in {"Queued", "Running"} ~>
            Ended(j) \/ faults > 0 \/ restarts > 0

=============================================================================
