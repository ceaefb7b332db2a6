-------------------------- MODULE Integration_proofs --------------------------
(***************************************************************************)
(* Invariants of Integration for every number of integrations, imports,    *)
(* exports and rows, and for every number of failures, edits and restarts. *)
(* The two that bound what a failure costs, LeftoversCostFaults and        *)
(* AuditLossBounded, are proved from stronger ones that also count what a  *)
(* failure may cost later: a job that a rollback will not reach, an edit   *)
(* still to be saved, a line of the audit file without its newline.        *)
(***************************************************************************)
EXTENDS Integration, FiniteSetTheorems, TLAPS

Running == {"save", "announce", "record", "succeeded"}

(* The jobs of an import, by where it is.                                  *)
ImportOK(i) ==
    LET m == imports[i] IN
    /\ m.at = "save" => Len(jobs[i]) = m.created /\ m.created < Len(m.rows)
    /\ m.at = "announce" => Len(jobs[i]) = m.created + 1 /\ m.created < Len(m.rows)
    /\ m.at = "record" => Len(jobs[i]) = m.created /\ m.created = Len(m.rows)
    /\ m.at = "succeeded" => Len(jobs[i]) = Len(m.rows)
    /\ m.at = "rollback" => m.created <= Len(jobs[i])
    /\ m.at = "none" => jobs[i] = <<>>
    /\ m.at \in Running => \A n \in DOMAIN jobs[i] : jobs[i][n] = "live"

ImportsOK == \A i \in Imports : ImportOK(i)

EditingOK == editing # None => editing[1] \in Imports /\ editing[2] \in DOMAIN jobs[editing[1]]

SInv == TypeOK /\ ImportsOK /\ EditingOK

(* An integration that is off is enabled neither in memory nor on file.    *)
OffStays == \A g \in off : registry[g] # "Enabled" /\ registryFile[g] # "Enabled"

(* The live jobs that no rollback will delete any more.                    *)
Abandoned ==
    {job \in Imports \X Nat :
        /\ imports[job[1]].at \in {"rollback", "failed", "thrown"}
        /\ job[2] \in DOMAIN jobs[job[1]] /\ jobs[job[1]][job[2]] = "live"
        /\ imports[job[1]].at = "rollback" => job[2] > imports[job[1]].created}

(* An edit that may still save a deleted job as it was read.               *)
Pending == IF editing = None THEN 0 ELSE 1

AbandonedBounded ==
    IsFiniteSet(Abandoned) /\ Cardinality(Abandoned) + Pending <= faults + edits

(* The answered outcomes the audit file does not have.                     *)
Lost == Answered \ Parsed(auditFile)

(* An unfinished line can cost one more; the record it may hold whole is   *)
(* of an outcome that was not answered and will not be.                    *)
TailUnanswered ==
    /\ \A i \in Imports :
          /\ <<i, "success">> \in auditFile.tail =>
                imports[i].at \in {"rollback", "failed", "thrown", "lost"}
          /\ <<i, "failure">> \in auditFile.tail => imports[i].at = "thrown"
    /\ \A e \in Exports : <<e, "success">> \in auditFile.tail => exports[e] = "thrown"

(* What the next append will lose.                                         *)
Owed == IF auditFile.open THEN 1 ELSE 0

LossBounded ==
    /\ IsFiniteSet(Lost) /\ Cardinality(Lost) + Owed <= faults
    /\ auditFile.tail # {} => auditFile.open

-----------------------------------------------------------------------------
(* Steps that several actions share.                                       *)

(* A failed call is one of at most MaxFaults.                              *)
LEMMA FaultType ==
    ASSUME TypeOK, Fault PROVE faults' \in 0..MaxFaults /\ faults' = faults + 1
  BY IntegrationAssumption DEF TypeOK, Fault

(* What an append and a cut append make of a file of records.              *)
LEMMA LineFacts ==
    ASSUME NEW R, NEW f \in File(R), NEW r \in R
    PROVE  /\ AddLine(f, r) \in File(R)
           /\ AddLine(f, r).open = FALSE /\ AddLine(f, r).tail = {}
           /\ AddLine(f, r).lines = IF f.open THEN f.lines ELSE f.lines \cup {r}
           /\ \A c \in CutLine(f, r) :
                 /\ c \in File(R) /\ c.lines = f.lines
                 /\ \/ c = f
                    \/ c.open /\ (c.tail = {} \/ (c.tail = {r} /\ ~f.open))
<1>1. /\ f.lines \subseteq R /\ f.open \in BOOLEAN BY DEF File
<1>2. SUFFICES ASSUME NEW c \in CutLine(f, r)
               PROVE  /\ c \in File(R) /\ c.lines = f.lines
                      /\ \/ c = f
                         \/ c.open /\ (c.tail = {} \/ (c.tail = {r} /\ ~f.open))
  BY <1>1 DEF File, AddLine
<1>3. CASE c = f BY <1>3
<1>4. CASE c # f
  <2>1. PICK t \in IF f.open THEN {{}} ELSE {{}, {r}} :
           c = [lines |-> f.lines, open |-> TRUE, tail |-> t]
    BY <1>4 DEF CutLine
  <2> QED BY <2>1, <1>1 DEF File
<1> QED BY <1>3, <1>4

(* The audit log keeps its type, whether the append throws or not.         *)
LEMMA AuditType ==
    ASSUME TypeOK, NEW r \in Record, Audited(r) \/ AuditThrows(r)
    PROVE  /\ audit' \subseteq Record /\ auditLoaded' \in BOOLEAN
           /\ auditFile' \in File(Record) /\ faults' \in 0..MaxFaults
<1>1. AuditItems \subseteq Record BY DEF TypeOK, AuditItems, Parsed, File
<1>2. CASE Audited(r) BY <1>1, <1>2, LineFacts DEF TypeOK, Audited
<1>3. CASE AuditThrows(r) BY <1>1, <1>3, LineFacts, FaultType DEF TypeOK, AuditThrows
<1> QED BY <1>2, <1>3

(* The registry keeps its type, whether the rewrite throws or not.         *)
LEMMA SaveType ==
    ASSUME TypeOK, NEW g \in Integrations, NEW status \in Statuses, Save(g, status)
    PROVE  /\ registry' \in [Integrations -> Statuses \cup {"none"}]
           /\ registryFile' \in [Integrations -> Statuses \cup {"none"}]
           /\ registryLoaded' \in BOOLEAN /\ faults' \in 0..MaxFaults
<1>1. Registered \in [Integrations -> Statuses \cup {"none"}] BY DEF TypeOK, Registered
<1>2. registry' \in [Integrations -> Statuses \cup {"none"}] BY <1>1 DEF Save
<1>3. Truncated(registry') \subseteq [Integrations -> Statuses \cup {"none"}]
  BY <1>2 DEF Truncated, TypeOK
<1> QED BY <1>2, <1>3, FaultType DEF Save, TypeOK

(* An import that moves to another step.                                   *)
LEMMA GoToFacts ==
    ASSUME TypeOK, NEW i \in Imports, NEW step \in Steps \cup Ends, GoTo(i, step)
    PROVE  /\ imports' \in [Imports -> Import]
           /\ imports'[i].at = step /\ imports'[i].created = imports[i].created
           /\ imports'[i].rows = imports[i].rows /\ imports'[i].from = imports[i].from
           /\ \A k \in Imports \ {i} : imports'[k] = imports[k]
<1>1. PICK m : m = [imports[i] EXCEPT !.at = step] OBVIOUS
<1>2. imports[i] \in Import BY DEF TypeOK
<1>3. /\ m \in Import /\ m.at = step /\ m.created = imports[i].created
      /\ m.rows = imports[i].rows /\ m.from = imports[i].from
  BY <1>1, <1>2 DEF Import
<1>4. imports' = [imports EXCEPT ![i] = m] BY <1>1 DEF GoTo
<1> QED BY <1>3, <1>4 DEF TypeOK

(* An import whose createdIds grow or shrink by one.                       *)
LEMMA CreatedFacts ==
    ASSUME TypeOK, NEW i \in Imports, NEW n \in Nat, NEW step \in Steps,
           imports' = [imports EXCEPT ![i].created = n, ![i].at = step]
    PROVE  /\ imports' \in [Imports -> Import]
           /\ imports'[i].at = step /\ imports'[i].created = n
           /\ imports'[i].rows = imports[i].rows /\ imports'[i].from = imports[i].from
           /\ \A k \in Imports \ {i} : imports'[k] = imports[k]
<1>1. PICK m : m = [imports[i] EXCEPT !.created = n, !.at = step] OBVIOUS
<1>2. imports[i] \in Import BY DEF TypeOK
<1>3. /\ m \in Import /\ m.at = step /\ m.created = n
      /\ m.rows = imports[i].rows /\ m.from = imports[i].from
  BY <1>1, <1>2 DEF Import
<1>4. imports'[i] = m /\ DOMAIN imports' = Imports /\ \A k \in Imports \ {i} : imports'[k] = imports[k]
  BY <1>1, <1>2 DEF TypeOK, Import
<1> QED BY <1>3, <1>4 DEF TypeOK

(* An import one of whose jobs was dealt with by the rollback.             *)
LEMMA RolledBackFacts ==
    ASSUME TypeOK, NEW i \in Imports, RollingBack(i),
           imports' = [imports EXCEPT ![i].created = @ - 1]
    PROVE  /\ imports' \in [Imports -> Import]
           /\ imports'[i].at = "rollback" /\ imports'[i].created = imports[i].created - 1
           /\ imports'[i].rows = imports[i].rows /\ imports'[i].from = imports[i].from
           /\ \A k \in Imports \ {i} : imports'[k] = imports[k]
<1>1. PICK m : m = [imports[i] EXCEPT !.created = @ - 1] OBVIOUS
<1>2. imports[i] \in Import BY DEF TypeOK
<1>3. /\ m \in Import /\ m.at = "rollback" /\ m.created = imports[i].created - 1
      /\ m.rows = imports[i].rows /\ m.from = imports[i].from
  BY <1>1, <1>2 DEF Import, RollingBack
<1>4. imports' = [imports EXCEPT ![i] = m] BY <1>1, <1>2 DEF TypeOK, Import
<1> QED BY <1>3, <1>4 DEF TypeOK

(* A job is added, or one is saved with or without its deletion.           *)
LEMMA JobFacts ==
    ASSUME TypeOK, NEW i \in Imports, NEW state \in {"live", "deleted"}
    PROVE  /\ Append(jobs[i], state) \in Seq({"live", "deleted"})
           /\ Len(Append(jobs[i], state)) = Len(jobs[i]) + 1
           /\ DOMAIN Append(jobs[i], state) = 1..Len(jobs[i]) + 1
           /\ DOMAIN jobs[i] = 1..Len(jobs[i]) /\ Len(jobs[i]) \in Nat
           /\ \A n \in 1..Len(jobs[i]) : Append(jobs[i], state)[n] = jobs[i][n]
           /\ Append(jobs[i], state)[Len(jobs[i]) + 1] = state
           /\ \A n \in DOMAIN jobs[i] :
                 LET changed == [jobs EXCEPT ![i][n] = state] IN
                 /\ changed \in [Imports -> Seq({"live", "deleted"})]
                 /\ Len(changed[i]) = Len(jobs[i]) /\ DOMAIN changed[i] = DOMAIN jobs[i]
                 /\ changed[i][n] = state
                 /\ \A k \in DOMAIN jobs[i] \ {n} : changed[i][k] = jobs[i][k]
                 /\ \A k \in Imports \ {i} : changed[k] = jobs[k]
<1>1. jobs[i] \in Seq({"live", "deleted"}) /\ jobs \in [Imports -> Seq({"live", "deleted"})]
  BY DEF TypeOK
<1>2. SUFFICES ASSUME NEW n \in DOMAIN jobs[i]
               PROVE  LET changed == [jobs EXCEPT ![i][n] = state] IN
                      /\ changed \in [Imports -> Seq({"live", "deleted"})]
                      /\ Len(changed[i]) = Len(jobs[i]) /\ DOMAIN changed[i] = DOMAIN jobs[i]
                      /\ changed[i][n] = state
                      /\ \A k \in DOMAIN jobs[i] \ {n} : changed[i][k] = jobs[i][k]
                      /\ \A k \in Imports \ {i} : changed[k] = jobs[k]
  BY <1>1
<1>3. PICK q : q = [jobs[i] EXCEPT ![n] = state] OBVIOUS
<1>4. /\ q \in Seq({"live", "deleted"}) /\ Len(q) = Len(jobs[i]) /\ DOMAIN q = DOMAIN jobs[i]
      /\ q[n] = state /\ \A k \in DOMAIN jobs[i] \ {n} : q[k] = jobs[i][k]
  BY <1>1, <1>3
<1>5. [jobs EXCEPT ![i][n] = state] = [jobs EXCEPT ![i] = q] BY <1>3
<1> QED BY <1>1, <1>4, <1>5

(* Only one import moves.                                                  *)
LEMMA OthersStayOK ==
    ASSUME ImportsOK, NEW i \in Imports, ImportOK(i)',
           \A k \in Imports \ {i} : imports'[k] = imports[k] /\ jobs'[k] = jobs[k]
    PROVE  ImportsOK'
  BY DEF ImportsOK, ImportOK

-----------------------------------------------------------------------------
(* Types, and the jobs of an import by where it is.                        *)

(* The inductive invariant of the first theorems.                          *)
LEMMA InitSInv == Init => SInv
<1>1. SUFFICES ASSUME Init PROVE SInv OBVIOUS
<1>2. [at |-> "none", from |-> None, rows |-> <<>>, created |-> 0] \in Import BY DEF Import
<1>3. <<>> \in Seq({"live", "deleted"}) OBVIOUS
<1>4. EmptyFile \in File(Record) BY DEF File, EmptyFile
<1>5. 0 \in 0..MaxFaults /\ 0 \in 0..MaxEdits /\ 0 \in 0..MaxRestarts
  BY IntegrationAssumption
<1>6. TypeOK BY <1>1, <1>2, <1>3, <1>4, <1>5 DEF Init, TypeOK
<1>7. ImportsOK BY <1>1 DEF Init, ImportsOK, ImportOK, Running
<1> QED BY <1>1, <1>6, <1>7 DEF Init, SInv, EditingOK

LEMMA NextSInv == SInv /\ [Next]_vars => SInv'
<1> SUFFICES ASSUME SInv, [Next]_vars PROVE SInv' OBVIOUS
<1> USE DEF SInv
<1>1. ASSUME UNCHANGED <<imports, jobs, editing>>, TypeOK' PROVE SInv'
  BY <1>1 DEF ImportsOK, ImportOK, EditingOK
<1>2. ASSUME NEW g \in Integrations, NEW s \in Statuses, CreateIntegration(g, s) PROVE SInv'
  <2>1. TypeOK'
    BY <1>2, SaveType DEF CreateIntegration, NowOff, TypeOK, jobVars, auditVars
  <2> QED BY <1>1, <1>2, <2>1 DEF CreateIntegration, jobVars
<1>3. ASSUME NEW g \in Integrations, NEW s \in Statuses \cup {"undefined"},
             UpdateIntegration(g, s)
      PROVE  SInv'
  <2>1. NextStatus(Registered[g], s) \in Statuses
    BY <1>3 DEF UpdateIntegration, NextStatus, Registered, TypeOK
  <2>2. TypeOK'
    BY <1>3, <2>1, SaveType DEF UpdateIntegration, NowOff, TypeOK, jobVars, auditVars
  <2> QED BY <1>1, <1>3, <2>2 DEF UpdateIntegration, jobVars
<1>4. ASSUME NEW g \in Integrations, NEW i \in Imports, NEW p \in Payloads,
             StartImport(i, g, p)
      PROVE  SInv'
  <2>1. PICK m : m = [at |-> "save", from |-> g, rows |-> p, created |-> 0] OBVIOUS
  <2>2. /\ m \in Import /\ m.at = "save" /\ m.created = 0 /\ m.rows = p
    BY <2>1, IntegrationAssumption DEF Import, Steps
  <2>3. imports' = [imports EXCEPT ![i] = m] BY <1>4, <2>1 DEF StartImport
  <2>4. TypeOK'
    BY <1>4, <2>2, <2>3
    DEF StartImport, LoadRegistry, Registered, TypeOK, jobVars, auditVars
  <2>5. p \in Seq(Rows) /\ p # <<>> /\ Len(p) > 0
    BY <1>4, IntegrationAssumption DEF StartImport
  <2>6. jobs[i] = <<>> /\ Len(jobs[i]) = 0 BY <1>4 DEF StartImport, ImportsOK, ImportOK
  <2>7. ImportOK(i)'
    BY <1>4, <2>2, <2>3, <2>5, <2>6 DEF StartImport, ImportOK, jobVars, Running, TypeOK
  <2>8. ImportsOK' BY <1>4, <2>3, <2>7, OthersStayOK DEF StartImport, jobVars, TypeOK
  <2> QED BY <1>4, <2>4, <2>8 DEF StartImport, jobVars, EditingOK
<1>5. ASSUME NEW g \in Integrations, NEW e \in Exports, ExecuteExport(e, g) PROVE SInv'
  <2>1. <<e, "success">> \in Record BY DEF Record
  <2>2. TypeOK'
    BY <1>5, <2>1, AuditType DEF ExecuteExport, LoadRegistry, Registered, TypeOK, jobVars
  <2> QED BY <1>1, <1>5, <2>2 DEF ExecuteExport, jobVars
<1>6. ASSUME NEW i \in Imports, SaveJob(i) PROVE SInv'
  <2>1. jobs'[i] = Append(jobs[i], "live") /\ \A k \in Imports \ {i} : jobs'[k] = jobs[k]
    BY <1>6 DEF SaveJob, TypeOK
  <2>2. TypeOK'
    BY <1>6, <2>1, GoToFacts, JobFacts
    DEF SaveJob, Steps, registryVars, auditVars, TypeOK
  <2>3. ImportOK(i)'
    BY <1>6, <2>1, GoToFacts, JobFacts
    DEF SaveJob, Saving, Steps, ImportsOK, ImportOK, Running
  <2>4. ImportsOK' BY <1>6, <2>1, <2>3, GoToFacts, OthersStayOK DEF SaveJob, Steps
  <2>5. EditingOK' BY <1>6, <2>1, JobFacts DEF SaveJob, EditingOK
  <2> QED BY <2>2, <2>4, <2>5
<1>7. ASSUME NEW i \in Imports, SaveJobFails(i) PROVE SInv'
  <2>1. /\ jobs'[i] = Append(jobs[i], "live") \/ jobs'[i] = jobs[i]
        /\ \A k \in Imports \ {i} : jobs'[k] = jobs[k]
    BY <1>7 DEF SaveJobFails, TypeOK
  <2>2. TypeOK'
    <3>1. jobs' \in [Imports -> Seq({"live", "deleted"})]
      <4>1. Append(jobs[i], "live") \in Seq({"live", "deleted"}) BY JobFacts
      <4>2. CASE jobs' = [jobs EXCEPT ![i] = Append(@, "live")] BY <4>1, <4>2 DEF TypeOK
      <4>3. CASE jobs' = jobs BY <4>3 DEF TypeOK
      <4> QED BY <1>7, <4>2, <4>3 DEF SaveJobFails
    <3>2. imports' \in [Imports -> Import] /\ faults' \in 0..MaxFaults
      BY <1>7, GoToFacts, FaultType DEF SaveJobFails, Steps
    <3> QED BY <1>7, <3>1, <3>2 DEF SaveJobFails, registryVars, auditVars, TypeOK
  <2>3. ImportOK(i)'
    BY <1>7, <2>1, GoToFacts, JobFacts
    DEF SaveJobFails, Saving, Steps, ImportsOK, ImportOK, Running, TypeOK, Import
  <2>4. ImportsOK' BY <1>7, <2>1, <2>3, GoToFacts, OthersStayOK DEF SaveJobFails, Steps
  <2>5. EditingOK' BY <1>7, <2>1, JobFacts DEF SaveJobFails, EditingOK
  <2> QED BY <2>2, <2>4, <2>5
<1>8. ASSUME NEW i \in Imports, RefuseRow(i) PROVE SInv'
  <2>1. TypeOK' BY <1>8, GoToFacts DEF RefuseRow, Steps, TypeOK, registryVars, jobVars, auditVars
  <2>2. ImportOK(i)'
    BY <1>8, GoToFacts, JobFacts
    DEF RefuseRow, Saving, Steps, ImportsOK, ImportOK, Running, jobVars
  <2>3. ImportsOK' BY <1>8, <2>2, GoToFacts, OthersStayOK DEF RefuseRow, Steps, jobVars
  <2> QED BY <1>8, <2>1, <2>3 DEF RefuseRow, jobVars, EditingOK
<1>9. ASSUME NEW i \in Imports, Announce(i) PROVE SInv'
  <2>1. PICK step \in {"record", "save"} :
           /\ step = IF imports[i].created + 1 = Len(imports[i].rows) THEN "record" ELSE "save"
           /\ imports' = [imports EXCEPT ![i].created = imports[i].created + 1, ![i].at = step]
    BY <1>9 DEF Announce, TypeOK
  <2>2. imports[i].created + 1 \in Nat /\ Len(imports[i].rows) \in Nat BY DEF TypeOK, Import
  <2>3. /\ imports' \in [Imports -> Import]
        /\ imports'[i].at = step /\ imports'[i].created = imports[i].created + 1
        /\ imports'[i].rows = imports[i].rows
        /\ \A k \in Imports \ {i} : imports'[k] = imports[k]
    BY <2>1, <2>2, CreatedFacts DEF Steps
  <2>4. TypeOK' BY <1>9, <2>3 DEF Announce, TypeOK, registryVars, jobVars, auditVars
  <2>5. ImportOK(i)'
    <3>1. /\ jobs' = jobs /\ Len(jobs[i]) = imports[i].created + 1
          /\ imports[i].created < Len(imports[i].rows)
          /\ \A n \in DOMAIN jobs[i] : jobs[i][n] = "live"
      BY <1>9 DEF Announce, ImportsOK, ImportOK, Running, jobVars
    <3>2. step = "save" => imports[i].created + 1 < Len(imports[i].rows)
      BY <2>1, <2>2, <3>1 DEF TypeOK, Import
    <3>3. step = "record" => imports[i].created + 1 = Len(imports[i].rows)
      BY <2>1
    <3> QED BY <2>1, <2>3, <3>1, <3>2, <3>3 DEF ImportOK
  <2>6. ImportsOK' BY <1>9, <2>3, <2>5, OthersStayOK DEF Announce, jobVars
  <2> QED BY <1>9, <2>4, <2>6 DEF Announce, jobVars, EditingOK
<1>10. ASSUME NEW i \in Imports, AnnounceFails(i) PROVE SInv'
  <2>1. TypeOK'
    BY <1>10, GoToFacts, FaultType
    DEF AnnounceFails, Steps, TypeOK, registryVars, jobVars, auditVars
  <2>2. ImportOK(i)'
    <3>1. imports[i].created \in Nat /\ Len(jobs[i]) = imports[i].created + 1
      BY <1>10 DEF AnnounceFails, ImportsOK, ImportOK, TypeOK, Import
    <3> QED BY <1>10, <3>1, GoToFacts DEF AnnounceFails, Steps, ImportOK, Running, jobVars
  <2>3. ImportsOK' BY <1>10, <2>2, GoToFacts, OthersStayOK DEF AnnounceFails, Steps, jobVars
  <2> QED BY <1>10, <2>1, <2>3 DEF AnnounceFails, jobVars, EditingOK
<1>11. ASSUME NEW i \in Imports, RecordSuccess(i) PROVE SInv'
  <2>1. PICK step \in {"succeeded", "rollback"} : GoTo(i, step) BY <1>11 DEF RecordSuccess
  <2>2. <<i, "success">> \in Record BY DEF Record
  <2>3. TypeOK'
    BY <1>11, <2>1, <2>2, GoToFacts, AuditType
    DEF RecordSuccess, Steps, Ends, TypeOK, registryVars, jobVars
  <2>4. ImportOK(i)'
    BY <1>11, <2>1, GoToFacts, JobFacts
    DEF RecordSuccess, Steps, Ends, ImportsOK, ImportOK, Running, jobVars, TypeOK, Import
  <2>5. ImportsOK'
    BY <1>11, <2>1, <2>4, GoToFacts, OthersStayOK DEF RecordSuccess, Steps, Ends, jobVars
  <2> QED BY <1>11, <2>3, <2>5 DEF RecordSuccess, jobVars, EditingOK
<1>12. ASSUME NEW i \in Imports, DeleteJob(i) PROVE SInv'
  <2>1. imports[i].created \in DOMAIN jobs[i]
    BY <1>12, JobFacts DEF DeleteJob, RollingBack, ImportsOK, ImportOK, TypeOK, Import
  <2>2. /\ jobs' \in [Imports -> Seq({"live", "deleted"})]
        /\ Len(jobs'[i]) = Len(jobs[i]) /\ DOMAIN jobs'[i] = DOMAIN jobs[i]
        /\ \A k \in Imports \ {i} : jobs'[k] = jobs[k]
    BY <1>12, <2>1, JobFacts DEF DeleteJob
  <2>3. TypeOK'
    BY <1>12, <2>2, RolledBackFacts DEF DeleteJob, TypeOK, registryVars, auditVars
  <2>4. ImportOK(i)'
    BY <1>12, <2>2, RolledBackFacts, JobFacts
    DEF DeleteJob, RollingBack, ImportsOK, ImportOK, Running, TypeOK, Import
  <2>5. ImportsOK' BY <1>12, <2>2, <2>4, RolledBackFacts, OthersStayOK DEF DeleteJob
  <2>6. EditingOK' BY <1>12, <2>2 DEF DeleteJob, EditingOK
  <2> QED BY <2>3, <2>5, <2>6
<1>13. ASSUME NEW i \in Imports, DeleteFails(i) PROVE SInv'
  <2>1. TypeOK'
    BY <1>13, RolledBackFacts, FaultType
    DEF DeleteFails, TypeOK, registryVars, jobVars, auditVars
  <2>2. ImportOK(i)'
    BY <1>13, RolledBackFacts, JobFacts
    DEF DeleteFails, RollingBack, ImportsOK, ImportOK, Running, jobVars, TypeOK, Import
  <2>3. ImportsOK' BY <1>13, <2>2, RolledBackFacts, OthersStayOK DEF DeleteFails, jobVars
  <2> QED BY <1>13, <2>1, <2>3 DEF DeleteFails, jobVars, EditingOK
<1>14. ASSUME NEW i \in Imports, RecordFailure(i) PROVE SInv'
  <2>1. PICK step \in {"failed", "thrown"} : GoTo(i, step) BY <1>14 DEF RecordFailure
  <2>2. <<i, "failure">> \in Record BY DEF Record
  <2>3. TypeOK'
    BY <1>14, <2>1, <2>2, GoToFacts, AuditType
    DEF RecordFailure, Steps, Ends, TypeOK, registryVars, jobVars
  <2>4. ImportOK(i)'
    BY <2>1, GoToFacts DEF Steps, Ends, ImportOK, Running
  <2>5. ImportsOK'
    BY <1>14, <2>1, <2>4, GoToFacts, OthersStayOK DEF RecordFailure, Steps, Ends, jobVars
  <2> QED BY <1>14, <2>3, <2>5 DEF RecordFailure, jobVars, EditingOK
<1>15. ASSUME NEW i \in Imports, NEW n \in DOMAIN jobs[i], EditRead(i, n) PROVE SInv'
  <2>1. n \in Nat BY JobFacts
  <2>2. edits + 1 \in 0..MaxEdits BY <1>15, IntegrationAssumption DEF EditRead, TypeOK
  <2>3. TypeOK' BY <1>15, <2>1, <2>2 DEF EditRead, TypeOK, registryVars, auditVars
  <2> QED BY <1>15, <2>3 DEF EditRead, EditingOK, ImportsOK, ImportOK
<1>16. ASSUME EditSave PROVE SInv'
  <2>1. PICK i \in Imports, n \in Nat : editing = <<i, n>> /\ n \in DOMAIN jobs[i]
    BY <1>16 DEF EditSave, EditingOK, TypeOK
  <2>2. jobs' = [jobs EXCEPT ![i][n] = "live"] BY <1>16, <2>1 DEF EditSave
  <2>3. /\ jobs' \in [Imports -> Seq({"live", "deleted"})]
        /\ Len(jobs'[i]) = Len(jobs[i]) /\ DOMAIN jobs'[i] = DOMAIN jobs[i]
        /\ jobs'[i][n] = "live" /\ \A k \in DOMAIN jobs[i] \ {n} : jobs'[i][k] = jobs[i][k]
        /\ \A k \in Imports \ {i} : jobs'[k] = jobs[k]
    <3>1. "live" \in {"live", "deleted"} /\ n \in DOMAIN jobs[i] BY <2>1
    <3> QED BY <2>2, <3>1, JobFacts
  <2>4. TypeOK' BY <1>16, <2>3 DEF EditSave, TypeOK, registryVars, auditVars
  <2>5. jobs[i] # <<>> BY <2>1
  <2>6. ImportOK(i)' BY <1>16, <2>3, <2>5 DEF EditSave, ImportsOK, ImportOK
  <2>7. ImportsOK' BY <1>16, <2>3, <2>6, OthersStayOK DEF EditSave
  <2> QED BY <1>16, <2>4, <2>7 DEF EditSave, EditingOK
<1>17. CASE RegistryReadFails
  <2>1. TypeOK' BY <1>17, FaultType DEF RegistryReadFails, TypeOK, jobVars, auditVars
  <2> QED BY <1>1, <1>17, <2>1 DEF RegistryReadFails, jobVars
<1>18. CASE AuditReadFails
  <2>1. TypeOK' BY <1>18, FaultType DEF AuditReadFails, TypeOK, registryVars, jobVars
  <2> QED BY <1>1, <1>18, <2>1 DEF AuditReadFails, jobVars
<1>19. CASE Restart
  <2>1. \A i \in Imports : /\ imports'[i] \in Import
                           /\ imports'[i] = imports[i] \/ imports'[i].at = "lost"
    BY <1>19 DEF Restart, TypeOK, Import, Steps, Ends
  <2>2. imports' \in [Imports -> Import] BY <1>19, <2>1 DEF Restart
  <2>3. restarts + 1 \in 0..MaxRestarts BY <1>19, IntegrationAssumption DEF Restart, TypeOK
  <2>4. TypeOK' BY <1>19, <2>2, <2>3 DEF Restart, TypeOK
  <2>5. ImportsOK' BY <1>19, <2>1 DEF Restart, ImportsOK, ImportOK, Running
  <2> QED BY <1>19, <2>4, <2>5 DEF Restart, EditingOK
<1>20. CASE UNCHANGED vars
  <2>1. TypeOK' BY <1>20 DEF vars, TypeOK, registryVars, jobVars, auditVars
  <2> QED BY <1>1, <1>20, <2>1 DEF vars, jobVars
<1> QED
  BY <1>2, <1>3, <1>4, <1>5, <1>6, <1>7, <1>8, <1>9, <1>10, <1>11, <1>12, <1>13, <1>14,
     <1>15, <1>16, <1>17, <1>18, <1>19, <1>20
  DEF Next, ImportStep

LEMMA SInvAlways == Spec => []SInv
  BY InitSInv, NextSInv, PTL DEF Spec

(* Rows, registry, audit log and requests keep their types, whatever calls *)
(* fail: in particular no job is deleted that was not created.             *)
THEOREM ExchangeTypeCorrect == Spec => []TypeOK
<1>1. SInv => TypeOK BY DEF SInv
<1> QED BY <1>1, SInvAlways, PTL

(* An import answered with success has a live job for every row, however   *)
(* imports, edits and failures interleave.                                 *)
THEOREM ImportsAreWhole == Spec => []ImportWhole
<1>1. SInv => ImportWhole
  <2> SUFFICES ASSUME SInv, NEW i \in Imports, imports[i].at = "succeeded"
               PROVE  jobs[i] = [n \in DOMAIN imports[i].rows |-> "live"]
    BY DEF ImportWhole
  <2>1. jobs[i] \in Seq({"live", "deleted"}) /\ imports[i].rows \in Seq(Rows)
    BY DEF SInv, TypeOK, Import
  <2>2. /\ Len(jobs[i]) = Len(imports[i].rows)
        /\ \A n \in DOMAIN jobs[i] : jobs[i][n] = "live"
    BY DEF SInv, ImportsOK, ImportOK, Running
  <2>3. DOMAIN jobs[i] = DOMAIN imports[i].rows BY <2>1, <2>2
  <2> QED BY <2>1, <2>2, <2>3
<1> QED BY <1>1, SInvAlways, PTL

-----------------------------------------------------------------------------
(* Integrations that are off.                                              *)

(* Only the import that moves changes, and it was accepted before.         *)
LEMMA MoverFacts ==
    ASSUME TypeOK, NEW i \in Imports, ImportStep(i)
    PROVE  /\ imports[i].at \in Steps /\ UNCHANGED registryVars
           /\ \A k \in Imports \ {i} : imports'[k] = imports[k]
<1>1. CASE Announce(i) BY <1>1 DEF Announce, Steps, TypeOK, registryVars
<1>2. CASE DeleteJob(i) \/ DeleteFails(i)
  BY <1>2 DEF DeleteJob, DeleteFails, RollingBack, Steps, TypeOK, registryVars
<1>3. CASE \/ SaveJob(i) \/ SaveJobFails(i) \/ RefuseRow(i) \/ AnnounceFails(i)
           \/ RecordSuccess(i) \/ RecordFailure(i)
  BY <1>3
  DEF SaveJob, SaveJobFails, RefuseRow, AnnounceFails, RecordSuccess, RecordFailure, Saving,
      GoTo, Steps, TypeOK, registryVars
<1> QED BY <1>1, <1>2, <1>3 DEF ImportStep

(* Every write of the registry, whole or cut, keeps what is off off.       *)
LEMMA OffStaysAlways == Spec => []OffStays
<1>1. Init => OffStays BY DEF Init, OffStays
<1>2. SInv /\ OffStays /\ [Next]_vars => OffStays'
  <2> SUFFICES ASSUME SInv, OffStays, [Next]_vars PROVE OffStays' OBVIOUS
  <2>1. TypeOK BY DEF SInv
  <2>2. ASSUME UNCHANGED registryVars PROVE OffStays' BY <2>2 DEF OffStays, registryVars
  <2>3. \A g \in off : Registered[g] # "Enabled" BY DEF OffStays, Registered
  <2>4. ASSUME NEW g \in Integrations, NEW status \in Statuses, Save(g, status), NowOff(g, status)
        PROVE  OffStays'
    <3>1. Registered \in [Integrations -> Statuses \cup {"none"}]
      BY <2>1 DEF TypeOK, Registered
    <3>2. \A h \in off' : h \in Integrations /\ registry'[h] # "Enabled"
      BY <2>1, <2>3, <2>4, <3>1 DEF Save, NowOff, TypeOK, Statuses
    <3>3. \A h \in off' : h \in off \/ faults' = faults
      BY <2>4 DEF NowOff
    <3>4. CASE registryFile' = registry' BY <3>2, <3>4 DEF OffStays
    <3>5. CASE Fault /\ registryFile' \in Truncated(registry')
      <4>1. faults' # faults BY <2>1, <3>5, FaultType DEF TypeOK
      <4>2. \A h \in off' : h \in off BY <3>3, <4>1
      <4>3. \A h \in off' : registryFile'[h] # "Enabled"
        BY <3>2, <3>5, <4>2 DEF Truncated, OffStays
      <4> QED BY <3>2, <4>3 DEF OffStays
    <3> QED BY <2>4, <3>4, <3>5 DEF Save
  <2>5. ASSUME NEW g \in Integrations, NEW s \in Statuses, CreateIntegration(g, s) PROVE OffStays'
    BY <2>4, <2>5 DEF CreateIntegration
  <2>6. ASSUME NEW g \in Integrations, NEW s \in Statuses \cup {"undefined"},
               UpdateIntegration(g, s)
        PROVE  OffStays'
    <3>1. NextStatus(Registered[g], s) \in Statuses
      BY <2>1, <2>6 DEF UpdateIntegration, NextStatus, Registered, TypeOK
    <3> QED BY <2>4, <2>6, <3>1 DEF UpdateIntegration
  <2>7. ASSUME LoadRegistry, UNCHANGED <<registryFile, off>> PROVE OffStays'
    BY <2>3, <2>7 DEF LoadRegistry, OffStays
  <2>8. ASSUME NEW g \in Integrations, NEW i \in Imports, NEW p \in Payloads, StartImport(i, g, p)
        PROVE  OffStays'
    BY <2>7, <2>8 DEF StartImport
  <2>9. ASSUME NEW g \in Integrations, NEW e \in Exports, ExecuteExport(e, g) PROVE OffStays'
    BY <2>7, <2>9 DEF ExecuteExport
  <2>10. ASSUME NEW i \in Imports, ImportStep(i) PROVE OffStays'
    BY <2>1, <2>2, <2>10, MoverFacts
  <2>11. CASE RegistryReadFails \/ Restart
    BY <2>1, <2>11 DEF RegistryReadFails, Restart, OffStays, TypeOK
  <2>12. CASE AuditReadFails \/ EditSave \/ UNCHANGED vars
    BY <2>2, <2>12 DEF AuditReadFails, EditSave, vars
  <2>13. ASSUME NEW i \in Imports, NEW n \in DOMAIN jobs[i], EditRead(i, n) PROVE OffStays'
    BY <2>2, <2>13 DEF EditRead
  <2> QED
    BY <2>5, <2>6, <2>8, <2>9, <2>10, <2>11, <2>12, <2>13 DEF Next
<1> QED BY <1>1, <1>2, SInvAlways, PTL DEF Spec

(* Once a request to disable an integration was answered, no import starts *)
(* from it before a request to enable it, through any failed or cut        *)
(* rewrites of the registry, failed reads and restarts.                    *)
THEOREM DisabledNeverStarts == Spec => DisabledStaysOff
<1>1. SInv /\ OffStays /\ [Next]_vars =>
         [\A i \in Imports :
             imports[i].at = "none" /\ imports'[i].at # "none" => imports'[i].from \notin off]_vars
  <2> SUFFICES ASSUME SInv, OffStays, Next, NEW i \in Imports,
                      imports[i].at = "none", imports'[i].at # "none"
               PROVE  imports'[i].from \notin off
    OBVIOUS
  <2>1. TypeOK BY DEF SInv
  <2>2. ASSUME NEW k \in Imports, ImportStep(k) PROVE FALSE
    BY <2>1, <2>2, MoverFacts DEF Steps
  <2>3. ~Restart BY <2>1 DEF Restart, Steps, TypeOK
  <2>4. imports' # imports OBVIOUS
  <2>5. PICK g \in Integrations, k \in Imports, p \in Payloads : StartImport(k, g, p)
    BY <2>2, <2>3, <2>4
    DEF Next, CreateIntegration, UpdateIntegration, ExecuteExport, EditRead, EditSave,
        RegistryReadFails, AuditReadFails
  <2>6. k = i /\ imports'[i].from = g BY <2>1, <2>5 DEF StartImport, TypeOK
  <2>7. g \notin off BY <2>5 DEF StartImport, Registered, OffStays
  <2> QED BY <2>6, <2>7
<1> QED BY <1>1, SInvAlways, OffStaysAlways, PTL DEF Spec, DisabledStaysOff

-----------------------------------------------------------------------------
(* What a failed import may leave.                                         *)

(* A set that loses elements and gains one at most.                        *)
LEMMA GrowByOne ==
    ASSUME NEW A, NEW B, NEW x, IsFiniteSet(A), B \subseteq A \cup {x}
    PROVE  /\ IsFiniteSet(B) /\ Cardinality(B) \in Nat /\ Cardinality(A) \in Nat
           /\ Cardinality(B) <= Cardinality(A) + 1
           /\ B \subseteq A => Cardinality(B) <= Cardinality(A)
<1>1. /\ IsFiniteSet(A \cup {x}) /\ Cardinality(A) \in Nat
      /\ Cardinality(A \cup {x}) = IF x \in A THEN Cardinality(A) ELSE Cardinality(A) + 1
  BY FS_AddElement, FS_CardinalityType
<1>2. IsFiniteSet(B) /\ Cardinality(B) <= Cardinality(A \cup {x}) BY <1>1, FS_Subset
<1>3. Cardinality(B) \in Nat BY <1>2, FS_CardinalityType
<1>4. B \subseteq A => Cardinality(B) <= Cardinality(A) BY FS_Subset
<1> QED BY <1>1, <1>2, <1>3, <1>4

(* Cited by name for sums of primed variables.                             *)
LEMMA SumType == ASSUME NEW m \in Nat, NEW n \in Nat PROVE m + n \in Nat
  OBVIOUS

(* A bound on a set and what else may be charged, p before and q after,    *)
(* holds on if what is added is paid for, s before and t after.            *)
LEMMA StillBounded ==
    ASSUME NEW A, NEW B, NEW x, IsFiniteSet(A),
           NEW p \in Nat, NEW q \in Nat, NEW s \in Nat, NEW t \in Nat,
           Cardinality(A) + p <= s,
           \/ B \subseteq A /\ q + s <= p + t
           \/ B \subseteq A \cup {x} /\ q + s + 1 <= p + t
    PROVE  IsFiniteSet(B) /\ Cardinality(B) + q <= t
<1>1. /\ IsFiniteSet(B) /\ Cardinality(B) \in Nat
      /\ Cardinality(A) \in Nat /\ Cardinality(B) <= Cardinality(A) + 1
      /\ B \subseteq A => Cardinality(B) <= Cardinality(A)
  BY GrowByOne
<1> QED BY <1>1

(* A job is abandoned by a step that fails, or by the save of an edit.     *)
LEMMA AbandonedStep ==
    ASSUME SInv, SInv', AbandonedBounded, [Next]_vars
    PROVE  AbandonedBounded'
<1> USE DEF SInv
<1>1. /\ faults \in Nat /\ edits \in Nat /\ Pending \in Nat /\ Pending' \in Nat
      /\ faults + edits \in Nat /\ faults' + edits' \in Nat
  <2>1. faults \in Nat /\ edits \in Nat /\ faults' \in Nat /\ edits' \in Nat
    BY IntegrationAssumption DEF TypeOK
  <2>2. faults + edits \in Nat /\ faults' + edits' \in Nat BY <2>1, SumType, Zenon
  <2> QED BY <2>1, <2>2 DEF Pending
<1>2. ASSUME Abandoned' \subseteq Abandoned,
             Pending' + (faults + edits) <= Pending + (faults' + edits')
      PROVE  AbandonedBounded'
  BY <1>1, <1>2, StillBounded, Zenon DEF AbandonedBounded
<1>3. ASSUME NEW x, Abandoned' \subseteq Abandoned \cup {x},
             Pending' + (faults + edits) + 1 <= Pending + (faults' + edits')
      PROVE  AbandonedBounded'
  BY <1>1, <1>3, StillBounded, Zenon DEF AbandonedBounded
<1>4. ASSUME UNCHANGED <<imports, jobs>> PROVE Abandoned' = Abandoned
  BY <1>4 DEF Abandoned
<1>5. ASSUME NEW i \in Imports, \A k \in Imports \ {i} : imports'[k] = imports[k] /\ jobs'[k] = jobs[k],
             NEW left,
             \A n \in Nat :
                <<i, n>> \in Abandoned' => <<i, n>> \in Abandoned \/ n \in left
      PROVE  Abandoned' \subseteq Abandoned \cup {<<i, n>> : n \in left}
  <2> SUFFICES ASSUME NEW job \in Abandoned', job \notin Abandoned
               PROVE  job \in {<<i, n>> : n \in left}
    OBVIOUS
  <2>1. PICK k \in Imports, n \in Nat : job = <<k, n>> BY DEF Abandoned
  <2>2. k = i BY <1>5, <2>1 DEF Abandoned
  <2> QED BY <1>5, <2>1, <2>2
<1>6. CASE \E g \in Integrations :
              \/ \E s \in Statuses : CreateIntegration(g, s)
              \/ \E s \in Statuses \cup {"undefined"} : UpdateIntegration(g, s)
              \/ \E e \in Exports : ExecuteExport(e, g)
  <2>1. UNCHANGED <<imports, jobs, editing, edits>>
    BY <1>6 DEF CreateIntegration, UpdateIntegration, ExecuteExport, jobVars
  <2>2. faults' = faults \/ faults' = faults + 1
    BY <1>6
    DEF CreateIntegration, UpdateIntegration, ExecuteExport, Save, Audited, AuditThrows, Fault
  <2>3. Pending' + (faults + edits) <= Pending + (faults' + edits')
    BY <1>1, <2>1, <2>2 DEF Pending
  <2> QED BY <1>2, <1>4, <2>1, <2>3
<1>7. CASE RegistryReadFails \/ AuditReadFails \/ UNCHANGED vars
  <2>1. UNCHANGED <<imports, jobs, editing, edits>>
    BY <1>7 DEF RegistryReadFails, AuditReadFails, vars, jobVars
  <2>2. faults' = faults \/ faults' = faults + 1
    BY <1>7 DEF RegistryReadFails, AuditReadFails, vars, Fault
  <2>3. Pending' + (faults + edits) <= Pending + (faults' + edits')
    BY <1>1, <2>1, <2>2 DEF Pending
  <2> QED BY <1>2, <1>4, <2>1, <2>3
<1>8. ASSUME NEW g \in Integrations, NEW i \in Imports, NEW p \in Payloads, StartImport(i, g, p)
      PROVE  AbandonedBounded'
  <2>1. imports'[i].at = "save" BY <1>8 DEF StartImport, TypeOK
  <2>2. \A n \in Nat : <<i, n>> \notin Abandoned' BY <2>1 DEF Abandoned
  <2>3. \A k \in Imports \ {i} : imports'[k] = imports[k] /\ jobs'[k] = jobs[k]
    BY <1>8 DEF StartImport, jobVars, TypeOK
  <2>4. Abandoned' \subseteq Abandoned \cup {<<i, n>> : n \in {}} BY <1>5, <2>2, <2>3
  <2>5. Abandoned' \subseteq Abandoned BY <2>4
  <2>6. Pending' + (faults + edits) <= Pending + (faults' + edits')
    BY <1>1, <1>8 DEF StartImport, jobVars, Pending
  <2> QED BY <1>2, <2>5, <2>6
<1>9. ASSUME NEW i \in Imports, ImportStep(i) PROVE Pending' = Pending /\ edits' = edits
  <2>1. UNCHANGED <<editing, edits>>
    BY <1>9
    DEF ImportStep, SaveJob, SaveJobFails, RefuseRow, Announce, AnnounceFails, RecordSuccess,
        DeleteJob, DeleteFails, RecordFailure, jobVars
  <2> QED BY <2>1 DEF Pending
<1>10. ASSUME NEW i \in Imports, ImportStep(i),
              \A k \in Imports \ {i} : jobs'[k] = jobs[k],
              \A n \in Nat : <<i, n>> \in Abandoned' => <<i, n>> \in Abandoned,
              faults' = faults \/ faults' = faults + 1
       PROVE  AbandonedBounded'
  <2>1. \A k \in Imports \ {i} : imports'[k] = imports[k] BY <1>10, MoverFacts
  <2>2. Abandoned' \subseteq Abandoned \cup {<<i, n>> : n \in {}} BY <1>5, <1>10, <2>1
  <2>3. Abandoned' \subseteq Abandoned BY <2>2
  <2>4. Pending' + (faults + edits) <= Pending + (faults' + edits') BY <1>1, <1>9, <1>10
  <2> QED BY <1>2, <2>3, <2>4
<1>11. ASSUME NEW i \in Imports, NEW x \in Nat, ImportStep(i),
              \A k \in Imports \ {i} : jobs'[k] = jobs[k],
              \A n \in Nat : <<i, n>> \in Abandoned' => <<i, n>> \in Abandoned \/ n \in {x},
              faults' = faults + 1
       PROVE  AbandonedBounded'
  <2>1. \A k \in Imports \ {i} : imports'[k] = imports[k] BY <1>11, MoverFacts
  <2>2. Abandoned' \subseteq Abandoned \cup {<<i, n>> : n \in {x}} BY <1>5, <1>11, <2>1
  <2>3. Abandoned' \subseteq Abandoned \cup {<<i, x>>} BY <2>2
  <2>4. Pending' + (faults + edits) + 1 <= Pending + (faults' + edits')
    BY <1>1, <1>9, <1>11
  <2> QED BY <1>3, <2>3, <2>4
<1>12. ASSUME NEW i \in Imports PROVE Len(jobs[i]) \in Nat /\ DOMAIN jobs[i] = 1..Len(jobs[i])
  BY DEF TypeOK
<1>13. ASSUME NEW i \in Imports PROVE imports[i].created \in Nat BY DEF TypeOK, Import
<1>14. ASSUME NEW i \in Imports, SaveJob(i) \/ Announce(i) PROVE AbandonedBounded'
  <2>1. imports'[i].at \in {"announce", "save", "record"}
    BY <1>14 DEF SaveJob, Announce, GoTo, TypeOK, Import
  <2>2. \A n \in Nat : <<i, n>> \notin Abandoned' BY <2>1 DEF Abandoned
  <2>3. faults' = faults /\ \A k \in Imports \ {i} : jobs'[k] = jobs[k]
    BY <1>14 DEF SaveJob, Announce, jobVars, TypeOK
  <2> QED BY <1>10, <1>14, <2>2, <2>3 DEF ImportStep
<1>15. ASSUME NEW i \in Imports, SaveJobFails(i) PROVE AbandonedBounded'
  <2>1. /\ imports'[i].created = Len(jobs[i]) /\ imports'[i].at = "rollback"
        /\ \A k \in Imports \ {i} : jobs'[k] = jobs[k]
        /\ jobs'[i] = jobs[i] \/ jobs'[i] = Append(jobs[i], "live")
    BY <1>15, GoToFacts DEF SaveJobFails, Saving, Steps, ImportsOK, ImportOK, TypeOK
  <2>2. DOMAIN jobs'[i] \subseteq 1..Len(jobs[i]) + 1 BY <1>12, <2>1, JobFacts
  <2>3. \A n \in Nat : <<i, n>> \in Abandoned' => n \in {Len(jobs[i]) + 1}
    BY <1>12, <2>1, <2>2 DEF Abandoned
  <2>4. Len(jobs[i]) + 1 \in Nat /\ faults' = faults + 1
    BY <1>12, <1>15 DEF SaveJobFails, Fault
  <2> QED BY <1>11, <1>15, <2>1, <2>3, <2>4 DEF ImportStep
<1>16. ASSUME NEW i \in Imports, RefuseRow(i) \/ RecordSuccess(i) PROVE AbandonedBounded'
  <2>1. PICK step \in {"rollback", "succeeded"} : GoTo(i, step)
    BY <1>16 DEF RefuseRow, RecordSuccess
  <2>2. /\ imports'[i].created = Len(jobs[i]) /\ imports'[i].at = step /\ jobs' = jobs
    BY <1>16, <2>1, GoToFacts
    DEF RefuseRow, RecordSuccess, Saving, Steps, Ends, ImportsOK, ImportOK, jobVars
  <2>3. \A n \in Nat : <<i, n>> \notin Abandoned' BY <1>12, <2>2 DEF Abandoned
  <2>4. faults' = faults \/ faults' = faults + 1
    BY <1>16 DEF RefuseRow, RecordSuccess, Audited, AuditThrows, Fault
  <2> QED BY <1>10, <1>16, <2>2, <2>3, <2>4 DEF ImportStep
<1>17. ASSUME NEW i \in Imports, AnnounceFails(i) PROVE AbandonedBounded'
  <2>1. /\ imports'[i].created = imports[i].created /\ imports'[i].at = "rollback"
        /\ jobs' = jobs /\ Len(jobs[i]) = imports[i].created + 1
    BY <1>17, GoToFacts DEF AnnounceFails, Steps, ImportsOK, ImportOK, jobVars
  <2>2. \A n \in Nat : <<i, n>> \in Abandoned' => n \in {imports[i].created + 1}
    BY <1>12, <1>13, <2>1 DEF Abandoned
  <2>3. imports[i].created + 1 \in Nat /\ faults' = faults + 1
    BY <1>13, <1>17 DEF AnnounceFails, Fault
  <2> QED BY <1>11, <1>17, <2>1, <2>2, <2>3 DEF ImportStep
<1>18. ASSUME NEW i \in Imports, DeleteJob(i) PROVE AbandonedBounded'
  <2>1. imports[i].at = "rollback" /\ imports[i].created \in DOMAIN jobs[i]
    BY <1>12, <1>13, <1>18 DEF DeleteJob, RollingBack, ImportsOK, ImportOK
  <2>2. /\ DOMAIN jobs'[i] = DOMAIN jobs[i] /\ jobs'[i][imports[i].created] = "deleted"
        /\ \A n \in DOMAIN jobs[i] \ {imports[i].created} : jobs'[i][n] = jobs[i][n]
        /\ \A k \in Imports \ {i} : jobs'[k] = jobs[k]
    BY <1>18, <2>1, JobFacts DEF DeleteJob
  <2>3. imports'[i].at = "rollback" /\ imports'[i].created = imports[i].created - 1
    BY <1>18, RolledBackFacts DEF DeleteJob
  <2>4. \A n \in Nat : <<i, n>> \in Abandoned' => <<i, n>> \in Abandoned
    BY <1>13, <2>1, <2>2, <2>3 DEF Abandoned
  <2>5. faults' = faults BY <1>18 DEF DeleteJob
  <2> QED BY <1>10, <1>18, <2>2, <2>4, <2>5 DEF ImportStep
<1>19. ASSUME NEW i \in Imports, DeleteFails(i) PROVE AbandonedBounded'
  <2>1. imports[i].at = "rollback" /\ jobs' = jobs
    BY <1>19 DEF DeleteFails, RollingBack, jobVars
  <2>2. imports'[i].at = "rollback" /\ imports'[i].created = imports[i].created - 1
    BY <1>19, RolledBackFacts DEF DeleteFails
  <2>3. \A n \in Nat :
           <<i, n>> \in Abandoned' => <<i, n>> \in Abandoned \/ n \in {imports[i].created}
    BY <1>13, <2>1, <2>2 DEF Abandoned
  <2>4. faults' = faults + 1 BY <1>19 DEF DeleteFails, Fault
  <2> QED BY <1>11, <1>13, <1>19, <2>1, <2>3, <2>4 DEF ImportStep
<1>20. ASSUME NEW i \in Imports, RecordFailure(i) PROVE AbandonedBounded'
  <2>1. imports[i].at = "rollback" /\ imports[i].created = 0 /\ jobs' = jobs
    BY <1>20 DEF RecordFailure, jobVars
  <2>2. \A n \in Nat : <<i, n>> \in Abandoned' => <<i, n>> \in Abandoned
    BY <1>12, <2>1 DEF Abandoned
  <2>3. faults' = faults \/ faults' = faults + 1
    BY <1>20 DEF RecordFailure, Audited, AuditThrows, Fault
  <2> QED BY <1>10, <1>20, <2>1, <2>2, <2>3 DEF ImportStep
<1>21. ASSUME NEW i \in Imports, NEW n \in DOMAIN jobs[i], EditRead(i, n) PROVE AbandonedBounded'
  <2>1. Pending' <= 1 /\ Pending = 0 BY <1>21 DEF EditRead, Pending
  <2>2. Pending' + (faults + edits) <= Pending + (faults' + edits')
    BY <1>1, <1>21, <2>1 DEF EditRead
  <2> QED BY <1>2, <1>21, <1>4, <2>2 DEF EditRead
<1>22. CASE EditSave
  <2>1. PICK i \in Imports, n \in Nat : editing = <<i, n>> /\ n \in DOMAIN jobs[i]
    BY <1>22 DEF EditSave, EditingOK, TypeOK
  <2>2. jobs' = [jobs EXCEPT ![i][n] = "live"] /\ imports' = imports
    BY <1>22, <2>1 DEF EditSave
  <2>3. /\ DOMAIN jobs'[i] = DOMAIN jobs[i]
        /\ \A k \in DOMAIN jobs[i] \ {n} : jobs'[i][k] = jobs[i][k]
        /\ \A k \in Imports \ {i} : jobs'[k] = jobs[k]
    <3>1. "live" \in {"live", "deleted"} OBVIOUS
    <3> QED BY <2>1, <2>2, <3>1, JobFacts
  <2>4. \A k \in Nat : <<i, k>> \in Abandoned' => <<i, k>> \in Abandoned \/ k \in {n}
    BY <2>2, <2>3 DEF Abandoned
  <2>5. Abandoned' \subseteq Abandoned \cup {<<i, k>> : k \in {n}} BY <1>5, <2>2, <2>3, <2>4
  <2>6. Abandoned' \subseteq Abandoned \cup {<<i, n>>} BY <2>5
  <2>7. Pending' + (faults + edits) + 1 <= Pending + (faults' + edits')
    BY <1>1, <1>22 DEF EditSave, Pending
  <2> QED BY <1>3, <2>6, <2>7
<1>23. CASE Restart
  <2>1. \A i \in Imports : imports'[i] = imports[i] \/ imports'[i].at = "lost"
    BY <1>23 DEF Restart, TypeOK, Import
  <2>2. Abandoned' \subseteq Abandoned BY <1>23, <2>1 DEF Restart, Abandoned
  <2>3. Pending' + (faults + edits) <= Pending + (faults' + edits')
    BY <1>1, <1>23 DEF Restart, Pending
  <2> QED BY <1>2, <2>2, <2>3
<1>24. ASSUME NEW i \in Imports, ImportStep(i) PROVE AbandonedBounded'
  BY <1>14, <1>15, <1>16, <1>17, <1>18, <1>19, <1>20, <1>24 DEF ImportStep
<1>25. AbandonedBounded'
  BY <1>6, <1>7, <1>8, <1>21, <1>22, <1>23, <1>24 DEF Next
<1> QED BY <1>25

(* A failed call, or an edit that overlaps the rollback, leaves at most    *)
(* one job of a failed import behind, whatever the number of imports.      *)
THEOREM LeftoversAreCounted == Spec => []LeftoversCostFaults
<1>1. Init => AbandonedBounded
  <2> SUFFICES ASSUME Init PROVE AbandonedBounded OBVIOUS
  <2>1. Abandoned = {} BY DEF Init, Abandoned
  <2>2. IsFiniteSet({}) /\ Cardinality({}) = 0 BY FS_EmptySet
  <2> QED BY <2>1, <2>2 DEF Init, AbandonedBounded, Pending
<1>2. SInv /\ SInv' /\ AbandonedBounded /\ [Next]_vars =>
         AbandonedBounded'
  BY AbandonedStep
<1>3. SInv /\ AbandonedBounded => LeftoversCostFaults
  <2> SUFFICES ASSUME SInv, AbandonedBounded PROVE LeftoversCostFaults OBVIOUS
  <2>1. Leftovers \subseteq Abandoned
    <3> SUFFICES ASSUME NEW job \in Leftovers PROVE job \in Abandoned OBVIOUS
    <3>1. PICK i \in Imports : job \in {i} \X DOMAIN jobs[i] BY DEF Leftovers
    <3>2. job[1] = i /\ job[2] \in DOMAIN jobs[i] /\ job = <<job[1], job[2]>> BY <3>1
    <3>3. job[2] \in Nat BY <3>2, JobFacts DEF SInv
    <3> QED BY <3>2, <3>3 DEF Leftovers, Abandoned
  <2>2. faults \in Nat /\ edits \in Nat BY IntegrationAssumption DEF SInv, TypeOK
  <2>3. Cardinality(Abandoned) \in Nat BY FS_CardinalityType DEF AbandonedBounded
  <2>4. IsFiniteSet(Leftovers) /\ Cardinality(Leftovers) <= Cardinality(Abandoned)
    BY <2>1, FS_Subset DEF AbandonedBounded
  <2>5. Cardinality(Leftovers) \in Nat BY <2>4, FS_CardinalityType
  <2> QED
    BY <2>2, <2>3, <2>4, <2>5 DEF AbandonedBounded, Pending, LeftoversCostFaults
<1> QED BY <1>1, <1>2, <1>3, SInvAlways, PTL DEF Spec

-----------------------------------------------------------------------------
(* What the audit file may lose.                                           *)

(* What is lost stays paid for, by a failed call or by the line it left    *)
(* open: r is recorded and answered, is not recorded, or neither.          *)
LEMMA LossStep ==
    ASSUME TypeOK, TypeOK', TailUnanswered, LossBounded, NEW r,
           \/ Audited(r) /\ Answered' \subseteq Answered \cup {r}
           \/ AuditThrows(r) /\ Answered' \subseteq Answered
           \/ /\ auditFile' = auditFile /\ Answered' \subseteq Answered
              /\ faults' = faults \/ faults' = faults + 1
    PROVE  LossBounded'
<1>1. /\ faults \in Nat /\ faults' \in Nat /\ Owed \in Nat /\ Owed' \in Nat
      /\ auditFile \in File(Record) /\ auditFile.open \in BOOLEAN
  BY IntegrationAssumption DEF TypeOK, Owed, File
<1>2. auditFile.tail \cap Answered = {} BY DEF TailUnanswered, Answered
<1>3. ASSUME Lost' \subseteq Lost, Owed' + faults <= Owed + faults'
      PROVE  IsFiniteSet(Lost') /\ Cardinality(Lost') + Owed' <= faults'
  BY <1>1, <1>3, StillBounded, Zenon DEF LossBounded
<1>4. ASSUME Lost' \subseteq Lost \cup {r}, Owed' + faults + 1 <= Owed + faults'
      PROVE  IsFiniteSet(Lost') /\ Cardinality(Lost') + Owed' <= faults'
  BY <1>1, <1>4, StillBounded, Zenon DEF LossBounded
<1>5. CASE Audited(r) /\ Answered' \subseteq Answered \cup {r}
  <2>1. /\ auditFile'.open = FALSE /\ auditFile'.tail = {} /\ faults' = faults
        /\ auditFile'.lines = IF auditFile.open THEN auditFile.lines
                                               ELSE auditFile.lines \cup {r}
    <3>1. /\ AddLine(auditFile, r).open = FALSE /\ AddLine(auditFile, r).tail = {}
          /\ AddLine(auditFile, r).lines = IF auditFile.open THEN auditFile.lines
                                                             ELSE auditFile.lines \cup {r}
      BY DEF AddLine
    <3> QED BY <1>5, <3>1 DEF Audited
  <2>2. CASE auditFile.open
    <3>1. Lost' \subseteq Lost \cup {r} BY <1>2, <1>5, <2>1, <2>2 DEF Lost, Parsed
    <3>2. Owed' + faults + 1 <= Owed + faults' BY <1>1, <2>1, <2>2 DEF Owed
    <3> QED BY <1>4, <2>1, <3>1, <3>2 DEF LossBounded
  <2>3. CASE ~auditFile.open
    <3>1. Lost' \subseteq Lost BY <1>2, <1>5, <2>1, <2>3 DEF Lost, Parsed, LossBounded
    <3>2. Owed' + faults <= Owed + faults' BY <1>1, <2>1, <2>3 DEF Owed
    <3> QED BY <1>3, <2>1, <3>1, <3>2 DEF LossBounded
  <2> QED BY <2>2, <2>3
<1>6. CASE AuditThrows(r) /\ Answered' \subseteq Answered
  <2>1. /\ auditFile'.lines = auditFile.lines
        /\ \/ auditFile' = auditFile
           \/ auditFile'.open /\ (auditFile'.tail = {} \/ ~auditFile.open)
    <3>1. \A c \in CutLine(auditFile, r) :
             /\ c.lines = auditFile.lines
             /\ \/ c = auditFile
                \/ c.open /\ (c.tail = {} \/ ~auditFile.open)
      <4>1. ASSUME NEW c \in CutLine(auditFile, r), c # auditFile
            PROVE  c.lines = auditFile.lines /\ c.open /\ (c.tail = {} \/ ~auditFile.open)
        <5>1. PICK t \in IF auditFile.open THEN {{}} ELSE {{}, {r}} :
                 c = [lines |-> auditFile.lines, open |-> TRUE, tail |-> t]
          BY <4>1 DEF CutLine
        <5> QED BY <1>1, <5>1
      <4> QED BY <4>1
    <3>2. auditFile' \in CutLine(auditFile, r) \/ auditFile' = auditFile
      BY <1>6 DEF AuditThrows
    <3> QED BY <3>1, <3>2
  <2>2. Lost' \subseteq Lost
    BY <1>2, <1>6, <2>1 DEF Lost, Parsed, LossBounded
  <2>3. Owed' + faults <= Owed + faults' BY <1>1, <1>6 DEF AuditThrows, Fault, Owed
  <2> QED BY <1>3, <2>1, <2>2, <2>3 DEF LossBounded
<1>7. CASE /\ auditFile' = auditFile /\ Answered' \subseteq Answered
           /\ faults' = faults \/ faults' = faults + 1
  <2>1. Lost' \subseteq Lost BY <1>7 DEF Lost, Parsed
  <2>2. Owed' = Owed BY <1>7 DEF Owed
  <2>3. Owed' + faults <= Owed + faults'
    <3>1. CASE faults' = faults BY <1>1, <2>2, <3>1
    <3>2. CASE faults' = faults + 1 BY <1>1, <2>2, <3>2
    <3> QED BY <1>7, <3>1, <3>2
  <2> QED BY <1>3, <1>7, <2>1, <2>3 DEF LossBounded
<1> QED BY <1>5, <1>6, <1>7

(* A step that records nothing answers no request.                         *)
LEMMA UnrecordedStep ==
    ASSUME TypeOK, TypeOK', TailUnanswered, LossBounded, UNCHANGED <<auditFile, exports>>,
           faults' = faults \/ faults' = faults + 1,
           \A i \in Imports :
              \/ imports'[i].at = imports[i].at
              \/ /\ imports[i].at \in {"none", "save", "announce"}
                 /\ imports'[i].at \notin {"succeeded", "failed"}
              \/ imports[i].at \in Steps /\ imports'[i].at = "lost"
    PROVE  TailUnanswered' /\ LossBounded'
<1>1. Answered' \subseteq Answered
  <2>1. \A i \in Imports :
           /\ imports'[i].at = "succeeded" => imports[i].at = "succeeded"
           /\ imports'[i].at = "failed" => imports[i].at = "failed"
    OBVIOUS
  <2> QED BY <2>1 DEF Answered
<1>2. TailUnanswered' BY DEF TailUnanswered, Steps
<1>3. LossBounded'
  <2>1. PICK r : r = None OBVIOUS
  <2> QED BY <1>1, <2>1, LossStep
<1> QED BY <1>2, <1>3

(* The three steps that record an outcome, and all others.                 *)
LEMMA TailStep ==
    ASSUME SInv, SInv', TailUnanswered, LossBounded, [Next]_vars
    PROVE  TailUnanswered' /\ LossBounded'
<1> USE DEF SInv
<1>1. CASE \/ \E g \in Integrations :
                 \/ \E s \in Statuses : CreateIntegration(g, s)
                 \/ \E s \in Statuses \cup {"undefined"} : UpdateIntegration(g, s)
           \/ \E i \in Imports : \E n \in DOMAIN jobs[i] : EditRead(i, n)
           \/ EditSave \/ RegistryReadFails \/ AuditReadFails \/ UNCHANGED vars
  <2>1. UNCHANGED <<auditFile, exports, imports>>
    BY <1>1
    DEF CreateIntegration, UpdateIntegration, EditRead, EditSave, RegistryReadFails,
        AuditReadFails, vars, auditVars
  <2>2. faults' = faults \/ faults' = faults + 1
    BY <1>1
    DEF CreateIntegration, UpdateIntegration, Save, EditRead, EditSave, RegistryReadFails,
        AuditReadFails, Fault, vars
  <2> QED BY <2>1, <2>2, UnrecordedStep
<1>2. CASE \/ \E g \in Integrations, i \in Imports, p \in Payloads : StartImport(i, g, p)
           \/ Restart
  <2>1. UNCHANGED <<auditFile, exports>> /\ faults' = faults
    BY <1>2 DEF StartImport, Restart, auditVars
  <2>2. \A i \in Imports :
           \/ imports'[i].at = imports[i].at
           \/ imports[i].at = "none" /\ imports'[i].at = "save"
           \/ imports[i].at \in Steps /\ imports'[i].at = "lost"
    <3>1. CASE Restart BY <3>1 DEF Restart, TypeOK, Import
    <3>2. ASSUME NEW g \in Integrations, NEW i \in Imports, NEW p \in Payloads,
                 StartImport(i, g, p)
          PROVE  /\ imports[i].at = "none" /\ imports'[i].at = "save"
                 /\ \A k \in Imports \ {i} : imports'[k] = imports[k]
      BY <3>2 DEF StartImport, TypeOK
    <3> QED BY <1>2, <3>1, <3>2
  <2> QED BY <2>1, <2>2, UnrecordedStep
<1>3. ASSUME NEW i \in Imports, ImportStep(i), ~RecordSuccess(i), ~RecordFailure(i)
      PROVE  TailUnanswered' /\ LossBounded'
  <2>1. UNCHANGED <<auditFile, exports>>
    BY <1>3
    DEF ImportStep, SaveJob, SaveJobFails, RefuseRow, Announce, AnnounceFails, DeleteJob,
        DeleteFails, auditVars
  <2>2. faults' = faults \/ faults' = faults + 1
    BY <1>3
    DEF ImportStep, SaveJob, SaveJobFails, RefuseRow, Announce, AnnounceFails, DeleteJob,
        DeleteFails, Fault
  <2>3. \A k \in Imports \ {i} : imports'[k] = imports[k] BY <1>3, MoverFacts
  <2>4. \/ imports'[i].at = imports[i].at
        \/ imports[i].at \in {"save", "announce"} /\ imports'[i].at \notin {"succeeded", "failed"}
    <3>1. CASE SaveJob(i) \/ SaveJobFails(i) \/ RefuseRow(i) \/ AnnounceFails(i)
      BY <3>1, GoToFacts
      DEF SaveJob, SaveJobFails, RefuseRow, AnnounceFails, Saving, Steps
    <3>2. CASE Announce(i) BY <3>2 DEF Announce, TypeOK, Import
    <3>3. CASE DeleteJob(i) \/ DeleteFails(i)
      BY <3>3, RolledBackFacts DEF DeleteJob, DeleteFails, RollingBack
    <3> QED BY <1>3, <3>1, <3>2, <3>3 DEF ImportStep
  <2> QED BY <2>1, <2>2, <2>3, <2>4, UnrecordedStep
<1>4. ASSUME NEW r, Audited(r) PROVE TailUnanswered'
  BY <1>4 DEF Audited, AddLine, TailUnanswered
<1>5. ASSUME NEW r, AuditThrows(r) PROVE auditFile'.tail \subseteq {r} \/ auditFile' = auditFile
  BY <1>5 DEF AuditThrows, CutLine
<1>6. \A i \in Imports, e \in Exports : i # e BY IntegrationAssumption
<1>7. ASSUME NEW i \in Imports, RecordSuccess(i) PROVE TailUnanswered' /\ LossBounded'
  <2>1. CASE Audited(<<i, "success">>) /\ GoTo(i, "succeeded")
    <3>1. Answered' \subseteq Answered \cup {<<i, "success">>}
      BY <1>7, <2>1, GoToFacts DEF RecordSuccess, Answered, Ends
    <3> QED BY <1>4, <2>1, <3>1, LossStep
  <2>2. CASE AuditThrows(<<i, "success">>) /\ GoTo(i, "rollback")
    <3>1. /\ imports'[i].at = "rollback" /\ imports[i].at = "record" /\ exports' = exports
          /\ \A k \in Imports \ {i} : imports'[k] = imports[k]
      BY <1>7, <2>2, GoToFacts DEF RecordSuccess, Steps
    <3>2. Answered' \subseteq Answered BY <3>1 DEF Answered
    <3>3. TailUnanswered' BY <1>5, <1>6, <2>2, <3>1 DEF TailUnanswered
    <3> QED BY <2>2, <3>2, <3>3, LossStep
  <2> QED BY <1>7, <2>1, <2>2 DEF RecordSuccess
<1>8. ASSUME NEW i \in Imports, RecordFailure(i) PROVE TailUnanswered' /\ LossBounded'
  <2>1. CASE Audited(<<i, "failure">>) /\ GoTo(i, "failed")
    <3>1. Answered' \subseteq Answered \cup {<<i, "failure">>}
      BY <1>8, <2>1, GoToFacts DEF RecordFailure, Answered, Ends
    <3> QED BY <1>4, <2>1, <3>1, LossStep
  <2>2. CASE AuditThrows(<<i, "failure">>) /\ GoTo(i, "thrown")
    <3>1. /\ imports'[i].at = "thrown" /\ imports[i].at = "rollback" /\ exports' = exports
          /\ \A k \in Imports \ {i} : imports'[k] = imports[k]
      BY <1>8, <2>2, GoToFacts DEF RecordFailure, Ends
    <3>2. Answered' \subseteq Answered BY <3>1 DEF Answered
    <3>3. TailUnanswered' BY <1>5, <1>6, <2>2, <3>1 DEF TailUnanswered
    <3> QED BY <2>2, <3>2, <3>3, LossStep
  <2> QED BY <1>8, <2>1, <2>2 DEF RecordFailure
<1>9. ASSUME NEW g \in Integrations, NEW e \in Exports, ExecuteExport(e, g)
      PROVE  TailUnanswered' /\ LossBounded'
  <2>1. CASE Audited(<<e, "success">>) /\ exports' = [exports EXCEPT ![e] = "done"]
    <3>1. Answered' \subseteq Answered \cup {<<e, "success">>}
      BY <1>9, <2>1 DEF ExecuteExport, Answered, TypeOK
    <3> QED BY <1>4, <2>1, <3>1, LossStep
  <2>2. CASE AuditThrows(<<e, "success">>) /\ exports' = [exports EXCEPT ![e] = "thrown"]
    <3>1. /\ exports'[e] = "thrown" /\ exports[e] = "none" /\ imports' = imports
          /\ \A k \in Exports \ {e} : exports'[k] = exports[k]
      BY <1>9, <2>2 DEF ExecuteExport, TypeOK
    <3>2. Answered' \subseteq Answered BY <3>1 DEF Answered
    <3>3. TailUnanswered' BY <1>5, <1>6, <2>2, <3>1 DEF TailUnanswered
    <3> QED BY <2>2, <3>2, <3>3, LossStep
  <2> QED BY <1>9, <2>1, <2>2 DEF ExecuteExport
<1> QED BY <1>1, <1>2, <1>3, <1>7, <1>8, <1>9 DEF Next, ImportStep

(* Of the outcomes that requests were answered with, the audit file has    *)
(* lost at most one for each call that failed, however many requests, and  *)
(* restarts, there were.                                                   *)
THEOREM AuditLossIsCounted == Spec => []AuditLossBounded
<1>1. Init => TailUnanswered /\ LossBounded
  <2> SUFFICES ASSUME Init PROVE TailUnanswered /\ LossBounded OBVIOUS
  <2>1. Answered = {} BY DEF Init, Answered
  <2>2. Lost = {} BY <2>1 DEF Lost
  <2>3. IsFiniteSet({}) /\ Cardinality({}) = 0 BY FS_EmptySet
  <2> QED BY <2>2, <2>3 DEF Init, EmptyFile, TailUnanswered, LossBounded, Owed
<1>2. SInv /\ SInv' /\ TailUnanswered /\ LossBounded /\ [Next]_vars =>
         TailUnanswered' /\ LossBounded'
  BY TailStep
<1>3. SInv /\ LossBounded => AuditLossBounded
  <2> SUFFICES ASSUME SInv, LossBounded PROVE AuditLossBounded OBVIOUS
  <2>1. faults \in Nat BY IntegrationAssumption DEF SInv, TypeOK
  <2>2. Cardinality(Lost) \in Nat BY FS_CardinalityType DEF LossBounded
  <2> QED BY <2>1, <2>2 DEF LossBounded, Owed, Lost, AuditLossBounded
<1> QED BY <1>1, <1>2, <1>3, SInvAlways, PTL DEF Spec

=============================================================================
