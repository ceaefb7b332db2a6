------------------------------- MODULE Copilot -------------------------------
(***************************************************************************)
(* CopilotService: a call reads its evidence from the stores, asks the     *)
(* reasoning provider, and answers with both.  Requests go on between the  *)
(* reads and while the provider thinks, and the answer shows the evidence  *)
(* as it was read; nothing is saved.                                       *)
(*                                                                         *)
(* Abstracted: the texts and the scores of the evidence, and what the      *)
(* provider suggests.  A candidate or a job that is not found ends a call  *)
(* before it leaves a trace, so the first reads are one step.              *)
(***************************************************************************)
EXTENDS Analytics

VARIABLES
    copilot,      \* the call in flight, None at rest
    response      \* the last response, None before the first

copilotVars == <<copilot, response>>
readersVars == <<allVars, copilotVars>>

(* CopilotAction. *)
CopilotAction ==
    {"explain-match", "summarize-candidate", "summarize-job", "draft-outreach",
     "suggest-interview-questions"}

(* relationship?.currentStage, of a pair. *)
StageOf(pair) ==
    LET of == {x \in Relationships : Exists(x) /\ relationships[x].pair = pair}
    IN IF of = {} THEN None ELSE relationships[CHOOSE x \in of : TRUE].currentStage

-----------------------------------------------------------------------------
Ask(action, pair, relationshipStage, at) ==
    /\ copilot = None
    /\ reads < MaxReads
    /\ copilot' = [action |-> action, pair |-> pair, at |-> at,
                   relationshipStage |-> relationshipStage]
    /\ reads' = reads + 1
    /\ UNCHANGED <<vars, snapshot, report, response>>

(* The evidence is read. *)
explainMatch(pair) == Ask("explain-match", pair, None, "reason")
summarizeCandidate(pair) == Ask("summarize-candidate", pair, None, "reason")
summarizeJob(pair) == Ask("summarize-job", pair, None, "reason")
draftOutreach(pair) == Ask("draft-outreach", pair, StageOf(pair), "reason")

(* The match has read the job; it is read again for its requirements. *)
suggestInterviewQuestions(pair) == Ask("suggest-interview-questions", pair, None, "job")

FindJob ==
    /\ copilot # None /\ copilot.at = "job"
    /\ copilot' = [copilot EXCEPT !.at = "reason"]
    /\ UNCHANGED <<allVars, response>>

(* JOB_NOT_FOUND: the job was deleted since the match. *)
LoseJob ==
    /\ copilot # None /\ copilot.at = "job"
    /\ copilot' = None
    /\ UNCHANGED <<allVars, response>>

(* askReasoning: the provider is not available, or rejects. *)
FailReasoning ==
    /\ copilot # None /\ copilot.at = "reason"
    /\ copilot' = None
    /\ UNCHANGED <<allVars, response>>

(* askReasoning and response: the evidence of the call, with a suggestion. *)
Respond ==
    /\ copilot # None /\ copilot.at = "reason"
    /\ response' = [action |-> copilot.action, pair |-> copilot.pair,
                    relationshipStage |-> copilot.relationshipStage]
    /\ copilot' = None
    /\ UNCHANGED allVars

ReadersInit == AnalyticsInit /\ copilot = None /\ response = None

ReadersNext ==
    \/ AnalyticsNext /\ UNCHANGED copilotVars
    \/ \E pair \in Pairs :
          \/ explainMatch(pair) \/ summarizeCandidate(pair) \/ summarizeJob(pair)
          \/ draftOutreach(pair) \/ suggestInterviewQuestions(pair)
    \/ FindJob \/ LoseJob \/ FailReasoning \/ Respond

ReadersSpec == ReadersInit /\ [][ReadersNext]_readersVars

-----------------------------------------------------------------------------
(* Properties.                                                             *)

(* Every stage that a draft was written for stays in the history of the    *)
(* relationship, while one handler at a time changes it, however many      *)
(* moves there were between the read and the answer.                       *)
DraftsTrue ==
    response # None /\ response.relationshipStage # None =>
        \E x \in Relationships :
            /\ Exists(x) /\ relationships[x].pair = response.pair
            /\ \E n \in DOMAIN relationships[x].stageHistory :
                  relationships[x].stageHistory[n].newStage = response.relationshipStage

(* What the readers of the stores say: the scores of candidates find their *)
(* place and order them, and a draft names a stage there was.              *)
ReadersSound == ScoresSound /\ DraftsTrue

=============================================================================
