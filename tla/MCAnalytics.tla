----------------------------- MODULE MCAnalytics -----------------------------
EXTENDS Copilot, TLC

(* Slots, relationships and pairs are interchangeable.                     *)
Symmetry ==
    Permutations(Requests) \cup Permutations(Relationships) \cup Permutations(Pairs)

(* Bound: who reads does so beside all requests but the last.              *)
ReadsEarlier == reads > 0 => calls < MaxCalls

=============================================================================
