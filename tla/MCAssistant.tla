---------------------------- MODULE MCAssistant ----------------------------
EXTENDS Assistant, TLC

MCSymmetry == Permutations(Calls) \cup Permutations(Tabs) \cup Permutations(Conversations)

=============================================================================
