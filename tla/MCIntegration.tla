--------------------------- MODULE MCIntegration ---------------------------
EXTENDS Integration, TLC

(* Two jobs and a row that is refused; two jobs; nothing.                  *)
MCPayloads == {<<"good", "good", "unknownStatus">>, <<"good", "good">>, <<>>}

MCSymmetry == Permutations(Imports)

=============================================================================
