-------------------------- MODULE MCReviewMetrics ---------------------------
EXTENDS ReviewMetrics, TLC

(* The extraction is sure of the first field and not of the second.        *)
MCConfidence == [summary |-> 90, skills |-> None]

(* The slots are interchangeable.                                          *)
Symmetry == Permutations(Slots)

=============================================================================
