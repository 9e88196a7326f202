-------------------------- MODULE MCDraftLifecycle --------------------------
(* Instances of DraftLifecycle for TLC; handlers are interchangeable. *)
EXTENDS DraftLifecycle, TLC

CONSTANTS r1, r2

OneRequest  == {r1}
TwoRequests == {r1, r2}
HandlersSymmetry == Permutations(TwoRequests)
=============================================================================
