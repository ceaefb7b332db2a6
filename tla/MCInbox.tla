------------------------------ MODULE MCInbox ------------------------------
EXTENDS Inbox, TLC

MCSymmetry == Permutations(Notifications) \cup Permutations(Notes) \cup Permutations(Actors)

=============================================================================
