-------------------------- MODULE MCPipelineViews ---------------------------
(* One report or view beside one request at a time: all that it depends on *)
(* is what is written between its reads.                                   *)
EXTENDS PipelineViews, TLC

(* Rows of one kind are interchangeable: nothing compares ids.             *)
Symmetry ==
    Permutations(Jobs) \cup Permutations(Submissions) \cup Permutations(Candidates)
=============================================================================
