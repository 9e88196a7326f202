--------------------------- MODULE MCDocumentPlan ---------------------------
(* Instances of DocumentPlan for TLC; handlers are interchangeable. *)
EXTENDS DocumentPlan, TLC

CONSTANTS r1, r2

TwoRequests == {r1, r2}
OneOrTwoExporters == {{1}, {1, 2}}
Symmetric == Permutations(TwoRequests)
=============================================================================
