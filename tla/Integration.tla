---------------------------- MODULE Integration ----------------------------
(***************************************************************************)
(* Data exchange: IntegrationService with its registry file, the jobs it   *)
(* creates through JobService, and the audit log it records every outcome  *)
(* in (AuditService, FileAuditRepository).                                 *)
(*                                                                         *)
(* A job is saved and announced in PostgreSQL, so imports interleave with  *)
(* each other and with recruiters who edit jobs.  Registry and audit log   *)
(* are files, written synchronously after the change in memory, so that a  *)
(* write that throws leaves memory and file apart.  A write that is cut    *)
(* by the end of the process is one that throws followed by Restart.       *)
(*                                                                         *)
(* Abstracted: providers, names and configurations; the rows parseImport   *)
(* drops, the others but for whether createManual refuses them; jobs but   *)
(* for whether they are deleted; requests that are refused for a missing   *)
(* permission or confirmation.                                             *)
(***************************************************************************)
EXTENDS Naturals, Sequences, FiniteSets, JsonlFile

CONSTANTS
    Integrations,    \* ids
    Imports,         \* import requests
    Exports,         \* export requests
    Payloads,        \* what may be imported, as parseImport leaves it: sequences of rows
    MaxFaults,       \* bound: calls of the database or the file system that fail
    MaxEdits,        \* bound: edits of imported jobs
    MaxRestarts,     \* bound: restarts of the process
    None             \* no integration, no edit

Rows == {"good", "unknownStatus"}
Statuses == {"Enabled", "Disabled"}

(* The steps of executeImport, and how it ends.                            *)
Steps == {"save", "announce", "record", "rollback"}
Ends == {"succeeded", "failed", "thrown", "lost"}

(* An import: the integration it is from, its rows, the length of          *)
(* createdIds, which are the jobs of its first rows.                       *)
Import ==
    [at : {"none"} \cup Steps \cup Ends, from : Integrations \cup {None}, rows : Seq(Rows),
     created : Nat]

Record == (Imports \cup Exports) \X {"success", "failure"}

ASSUME IntegrationAssumption ==
    /\ Payloads \subseteq Seq(Rows)
    /\ MaxFaults \in Nat /\ MaxEdits \in Nat /\ MaxRestarts \in Nat
    /\ Imports \cap Exports = {}
    /\ None \notin Integrations /\ None \notin Imports \X Nat

VARIABLES
    registry,         \* the integrations in memory, by id
    registryLoaded,   \* whether the registry file was read
    registryFile,     \* integrations.jsonl
    off,              \* history: disabled by an answered request, not enabled since
    imports,          \* the import requests
    jobs,             \* by import: the jobs of its rows
    editing,          \* the job an edit has read and not saved yet, or None
    exports,          \* the export requests
    audit,            \* the audit records in memory
    auditLoaded,      \* whether the audit file was read
    auditFile,        \* audit-log.jsonl
    faults, edits, restarts

registryVars == <<registry, registryLoaded, registryFile, off>>
auditVars == <<audit, auditLoaded, auditFile>>
jobVars == <<jobs, editing, edits>>
vars == <<registryVars, imports, jobVars, exports, auditVars, faults, restarts>>

TypeOK ==
    /\ registry \in [Integrations -> Statuses \cup {"none"}]
    /\ registryFile \in [Integrations -> Statuses \cup {"none"}]
    /\ registryLoaded \in BOOLEAN /\ auditLoaded \in BOOLEAN
    /\ off \subseteq Integrations
    /\ imports \in [Imports -> Import]
    /\ jobs \in [Imports -> Seq({"live", "deleted"})]
    /\ editing \in (Imports \X Nat) \cup {None}
    /\ exports \in [Exports -> {"none", "done", "thrown"}]
    /\ audit \subseteq Record
    /\ auditFile \in File(Record)
    /\ faults \in 0..MaxFaults /\ edits \in 0..MaxEdits /\ restarts \in 0..MaxRestarts

Init ==
    /\ registry = [g \in Integrations |-> "none"]
    /\ registryFile = registry
    /\ registryLoaded = FALSE /\ auditLoaded = FALSE
    /\ off = {}
    /\ imports = [i \in Imports |-> [at |-> "none", from |-> None, rows |-> <<>>, created |-> 0]]
    /\ jobs = [i \in Imports |-> <<>>]
    /\ editing = None
    /\ exports = [e \in Exports |-> "none"]
    /\ audit = {} /\ auditFile = EmptyFile
    /\ faults = 0 /\ edits = 0 /\ restarts = 0

Fault == faults < MaxFaults /\ faults' = faults + 1

-----------------------------------------------------------------------------
(* FileIntegrationRepository.                                              *)

(* ensureLoaded: the file is read at the first access.                     *)
Registered == IF registryLoaded THEN registry ELSE registryFile

LoadRegistry == registry' = Registered /\ registryLoaded' = TRUE

(* The file cannot be read: that request is rejected, and every later one  *)
(* finds a registry that counts as loaded and is empty.                    *)
RegistryReadFails ==
    /\ ~registryLoaded
    /\ Fault
    /\ registry' = [g \in Integrations |-> "none"]
    /\ registryLoaded' = TRUE
    /\ UNCHANGED <<registryFile, off, imports, jobVars, exports, auditVars, restarts>>

(* A rewrite that throws: before the file is opened, or after some lines.  *)
Truncated(items) ==
    {registryFile} \cup
    {[g \in Integrations |-> IF g \in written THEN items[g] ELSE "none"] :
        written \in SUBSET Integrations}

(* Mutant of Save: the file is rewritten before the change is made.        *)
SaveBefore(g, status) ==
    /\ registryLoaded' = TRUE
    /\ registry' = [Registered EXCEPT ![g] = status]
    /\ \/ registryFile' = Registered /\ UNCHANGED faults
       \/ Fault /\ registryFile' \in Truncated(Registered)

(* save: the change in memory, then all of memory to the file.             *)
Save(g, status) ==
    /\ registryLoaded' = TRUE
    /\ registry' = [Registered EXCEPT ![g] = status]
    /\ \/ registryFile' = registry' /\ UNCHANGED faults
       \/ Fault /\ registryFile' \in Truncated(registry')

(* What a recruiter may count on: an answered request to disable, until    *)
(* the next request to enable, whether that one is answered or not.        *)
NowOff(g, status) ==
    off' = IF status = "Enabled" THEN off \ {g}
           ELSE IF faults' = faults THEN off \cup {g} ELSE off

(* generateId: an id that was never used.                                  *)
Fresh(g) == Registered[g] = "none" /\ registryFile[g] = "none" /\ g \notin off

CreateIntegration(g, status) ==
    /\ Fresh(g)
    /\ Save(g, status)
    /\ NowOff(g, status)
    /\ UNCHANGED <<imports, jobVars, exports, auditVars, restarts>>

(* params.status ?? current.status                                         *)
NextStatus(current, given) == IF given = "undefined" THEN current ELSE given

UpdateIntegration(g, given) ==
    /\ Registered[g] # "none"
    /\ Save(g, NextStatus(Registered[g], given))
    /\ NowOff(g, NextStatus(Registered[g], given))
    /\ UNCHANGED <<imports, jobVars, exports, auditVars, restarts>>

-----------------------------------------------------------------------------
(* AuditService.record and FileAuditRepository.                            *)

AuditItems == IF auditLoaded THEN audit ELSE Parsed(auditFile)

(* The record is pushed, then its line is appended.                        *)
Audited(r) ==
    /\ audit' = AuditItems \cup {r}
    /\ auditLoaded' = TRUE
    /\ auditFile' = AddLine(auditFile, r)
    /\ UNCHANGED faults

(* The append throws, the record stays in memory; or the file has to be    *)
(* read first, and that throws.                                            *)
AuditThrows(r) ==
    /\ Fault
    /\ auditLoaded' = TRUE
    /\ \/ audit' = AuditItems \cup {r} /\ auditFile' \in CutLine(auditFile, r)
       \/ ~auditLoaded /\ audit' = {} /\ UNCHANGED auditFile

(* A reader of the log is the first to access it, and the read throws.     *)
AuditReadFails ==
    /\ ~auditLoaded
    /\ Fault
    /\ audit' = {} /\ auditLoaded' = TRUE
    /\ UNCHANGED <<registryVars, imports, jobVars, exports, auditFile, restarts>>

-----------------------------------------------------------------------------
(* executeImport.                                                          *)

(* The import is accepted: nothing is awaited before its first save.       *)
StartImport(i, g, payload) ==
    /\ imports[i].at = "none"
    /\ Registered[g] = "Enabled"
    /\ payload # <<>>
    /\ LoadRegistry
    /\ imports' = [imports EXCEPT ![i] =
                      [at |-> "save", from |-> g, rows |-> payload, created |-> 0]]
    /\ UNCHANGED <<registryFile, off, jobVars, exports, auditVars, faults, restarts>>

Saving(i, row) ==
    /\ imports[i].at = "save"
    /\ imports[i].created < Len(imports[i].rows)
    /\ imports[i].rows[imports[i].created + 1] = row

GoTo(i, step) == imports' = [imports EXCEPT ![i].at = step]

(* createManual saves the job of the next row,                             *)
SaveJob(i) ==
    /\ Saving(i, "good")
    /\ jobs' = [jobs EXCEPT ![i] = Append(@, "live")]
    /\ GoTo(i, "announce")
    /\ UNCHANGED <<registryVars, editing, edits, exports, auditVars, faults, restarts>>

(* or fails to, which may be known only after the row is written.          *)
SaveJobFails(i) ==
    /\ Saving(i, "good")
    /\ Fault
    /\ \/ jobs' = [jobs EXCEPT ![i] = Append(@, "live")]
       \/ UNCHANGED jobs
    /\ GoTo(i, "rollback")
    /\ UNCHANGED <<registryVars, editing, edits, exports, auditVars, restarts>>

(* Mutant of RefuseRow: the row is passed over.                            *)
SkipRow(i) ==
    /\ Saving(i, "unknownStatus")
    /\ imports' = [imports EXCEPT ![i].created = @ + 1,
                                  ![i].at = IF imports[i].created + 1 = Len(imports[i].rows)
                                              THEN "record" ELSE "save"]
    /\ UNCHANGED <<registryVars, jobVars, exports, auditVars, faults, restarts>>

(* INVALID_STATUS: only createManual looks at the status of a row.         *)
RefuseRow(i) ==
    /\ Saving(i, "unknownStatus")
    /\ GoTo(i, "rollback")
    /\ UNCHANGED <<registryVars, jobVars, exports, auditVars, faults, restarts>>

(* onJobCreated appends the activity, then the id is kept in createdIds.   *)
Announce(i) ==
    /\ imports[i].at = "announce"
    /\ imports' = [imports EXCEPT ![i].created = @ + 1,
                                  ![i].at = IF imports[i].created + 1 = Len(imports[i].rows)
                                              THEN "record" ELSE "save"]
    /\ UNCHANGED <<registryVars, jobVars, exports, auditVars, faults, restarts>>

AnnounceFails(i) ==
    /\ imports[i].at = "announce"
    /\ Fault
    /\ GoTo(i, "rollback")
    /\ UNCHANGED <<registryVars, jobVars, exports, auditVars, restarts>>

(* The success is recorded within the try: if that throws, roll back.      *)
RecordSuccess(i) ==
    /\ imports[i].at = "record"
    /\ \/ Audited(<<i, "success">>) /\ GoTo(i, "succeeded")
       \/ AuditThrows(<<i, "success">>) /\ GoTo(i, "rollback")
    /\ UNCHANGED <<registryVars, jobVars, exports, restarts>>

RollingBack(i) == imports[i].at = "rollback" /\ imports[i].created > 0

(* softDelete of the last of createdIds; NOT_FOUND when it is deleted.     *)
DeleteJob(i) ==
    /\ RollingBack(i)
    /\ jobs' = [jobs EXCEPT ![i][imports[i].created] = "deleted"]
    /\ imports' = [imports EXCEPT ![i].created = @ - 1]
    /\ UNCHANGED <<registryVars, editing, edits, exports, auditVars, faults, restarts>>

(* Mutant of DeleteFails: the rollback ends at the first that fails.       *)
DeleteFailsForAll(i) ==
    /\ RollingBack(i)
    /\ Fault
    /\ imports' = [imports EXCEPT ![i].created = 0]
    /\ UNCHANGED <<registryVars, jobVars, exports, auditVars, restarts>>

(* "best-effort rollback": the error is dropped.                           *)
DeleteFails(i) ==
    /\ RollingBack(i)
    /\ Fault
    /\ imports' = [imports EXCEPT ![i].created = @ - 1]
    /\ UNCHANGED <<registryVars, jobVars, exports, auditVars, restarts>>

RecordFailure(i) ==
    /\ imports[i].at = "rollback" /\ imports[i].created = 0
    /\ \/ Audited(<<i, "failure">>) /\ GoTo(i, "failed")
       \/ AuditThrows(<<i, "failure">>) /\ GoTo(i, "thrown")
    /\ UNCHANGED <<registryVars, jobVars, exports, restarts>>

-----------------------------------------------------------------------------
(* The others: exports, recruiters, the process.                           *)

(* executeExport reads the jobs and records its success.                   *)
ExecuteExport(e, g) ==
    /\ exports[e] = "none"
    /\ Registered[g] = "Enabled"
    /\ LoadRegistry
    /\ \/ Audited(<<e, "success">>) /\ exports' = [exports EXCEPT ![e] = "done"]
       \/ AuditThrows(<<e, "success">>) /\ exports' = [exports EXCEPT ![e] = "thrown"]
    /\ UNCHANGED <<registryFile, off, imports, jobVars, restarts>>

(* JobService.update reads a job that is not deleted                       *)
EditRead(i, n) ==
    /\ editing = None /\ edits < MaxEdits
    /\ n \in DOMAIN jobs[i] /\ jobs[i][n] = "live"
    /\ editing' = <<i, n>>
    /\ edits' = edits + 1
    /\ UNCHANGED <<registryVars, imports, jobs, exports, auditVars, faults, restarts>>

(* and saves the row it read, with its deletedAt.                          *)
EditSave ==
    /\ editing # None
    /\ jobs' = [jobs EXCEPT ![editing[1]][editing[2]] = "live"]
    /\ editing' = None
    /\ UNCHANGED <<registryVars, imports, edits, exports, auditVars, faults, restarts>>

(* The process ends and is started again; no import is taken up again.     *)
Restart ==
    /\ restarts < MaxRestarts
    /\ restarts' = restarts + 1
    /\ registryLoaded' = FALSE /\ auditLoaded' = FALSE
    /\ registry' = [g \in Integrations |-> "none"] /\ audit' = {}
    /\ imports' = [i \in Imports |-> IF imports[i].at \in Steps
                                       THEN [imports[i] EXCEPT !.at = "lost"] ELSE imports[i]]
    /\ editing' = None
    /\ UNCHANGED <<registryFile, off, jobs, edits, exports, auditFile, faults>>

ImportStep(i) ==
    \/ SaveJob(i) \/ SaveJobFails(i) \/ RefuseRow(i)
    \/ Announce(i) \/ AnnounceFails(i) \/ RecordSuccess(i)
    \/ DeleteJob(i) \/ DeleteFails(i) \/ RecordFailure(i)

Next ==
    \/ \E g \in Integrations :
          \/ \E s \in Statuses : CreateIntegration(g, s)
          \/ \E s \in Statuses \cup {"undefined"} : UpdateIntegration(g, s)
          \/ \E i \in Imports, p \in Payloads : StartImport(i, g, p)
          \/ \E e \in Exports : ExecuteExport(e, g)
    \/ \E i \in Imports :
          \/ ImportStep(i)
          \/ \E n \in DOMAIN jobs[i] : EditRead(i, n)
    \/ EditSave
    \/ RegistryReadFails \/ AuditReadFails
    \/ Restart

Spec == Init /\ [][Next]_vars

-----------------------------------------------------------------------------
(* Properties.                                                             *)

(* An import that was answered with success has a job for every row, none  *)
(* of them taken back: no rollback, of this or of another import, touches  *)
(* them once the success is recorded (integration-service.ts:174-190).     *)
(* Deletions of imported jobs by recruiters are not in the model.          *)
ImportWhole ==
    \A i \in Imports : imports[i].at = "succeeded" =>
        jobs[i] = [n \in DOMAIN imports[i].rows |-> "live"]

(* The jobs that are left of the imports that failed.                      *)
Leftovers ==
    {job \in UNION {{i} \X DOMAIN jobs[i] : i \in Imports} :
        imports[job[1]].at \in {"failed", "thrown"} /\ jobs[job[1]][job[2]] = "live"}

(* Import atomicity as far as the code has it: each job left of a failed   *)
(* import costs one failed call or one edit of that job which began before *)
(* the rollback; a call that fails never leaves a second one behind.       *)
LeftoversCostFaults == Cardinality(Leftovers) <= faults + edits

(* The records of the requests that were answered.                         *)
Answered ==
    {<<i, "success">> : i \in {k \in Imports : imports[k].at = "succeeded"}} \cup
    {<<i, "failure">> : i \in {k \in Imports : imports[k].at = "failed"}} \cup
    {<<e, "success">> : e \in {k \in Exports : exports[k] = "done"}}

(* The audit file keeps the outcome of every request that was answered,    *)
(* across restarts, but for one record per write that was cut short: the   *)
(* one which the next append put on its unfinished line.                   *)
AuditLossBounded == Cardinality(Answered \ Parsed(auditFile)) <= faults

(* EPIC-011, AC-3: no import starts from an integration which a request    *)
(* disabled and none enabled since, whatever writes of the registry were   *)
(* cut short and however often it was reloaded in between.                 *)
DisabledStaysOff ==
    [][\A i \in Imports :
          imports[i].at = "none" /\ imports'[i].at # "none" => imports'[i].from \notin off]_vars

=============================================================================
