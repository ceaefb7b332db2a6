----------------------- MODULE MCRecruitmentPipeline -----------------------
EXTENDS RecruitmentPipeline, TLC

(* Slots and rows of one kind are interchangeable: nothing compares ids.   *)
Symmetry ==
    Permutations(Requests) \cup Permutations(Submissions) \cup Permutations(Candidates)
        \cup Permutations(Interviews)

(* Two candidates for one job and two requests at a time: enough for two   *)
(* submits of one pair, for a job row written back stale between two       *)
(* counts, and for a second placement after a reopened one.                *)
=============================================================================
