-------------------------- MODULE MCSefazIssuance --------------------------
(* Instances of SefazIssuance for TLC; handlers are interchangeable. *)
EXTENDS SefazIssuance, TLC

CONSTANTS d1, d2, r1, r2

OneChild    == {d1}
TwoChildren == {d1, d2}
TwoRequests == {r1, r2}
Handlers2Symmetry == Permutations(TwoRequests)
=============================================================================
