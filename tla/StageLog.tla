------------------------------ MODULE StageLog ------------------------------
(***************************************************************************)
(* What the recruiter workflow promises of a candidate-job relationship    *)
(* (EPIC-004 and EPIC-008): its stages form a log that only grows, one     *)
(* entry for each move, and a move and an assignment do not disturb each   *)
(* other.                                                                  *)
(***************************************************************************)
EXTENDS Naturals, Sequences

CONSTANTS Relationships, Stages, Assignees, None

VARIABLES
    log,    \* the stages a relationship has been in, oldest first
    owner   \* the recruiter it is assigned to

Init ==
    /\ log = [x \in Relationships |-> <<>>]
    /\ owner = [x \in Relationships |-> None]

(* A relationship starts in some stage.                                    *)
Open(x, stage) ==
    /\ log[x] = <<>>
    /\ log' = [log EXCEPT ![x] = <<stage>>]
    /\ UNCHANGED owner

(* It moves to another stage.                                              *)
Move(x, stage) ==
    /\ log[x] # <<>> /\ log[x][Len(log[x])] # stage
    /\ log' = [log EXCEPT ![x] = Append(@, stage)]
    /\ UNCHANGED owner

(* Another recruiter takes it over.                                        *)
Assign(x, assignee) ==
    /\ log[x] # <<>> /\ owner[x] # assignee
    /\ owner' = [owner EXCEPT ![x] = assignee]
    /\ UNCHANGED log

Next ==
    \E x \in Relationships :
        \/ \E stage \in Stages : Open(x, stage) \/ Move(x, stage)
        \/ \E assignee \in Assignees : Assign(x, assignee)

Spec == Init /\ [][Next]_<<log, owner>>

=============================================================================
