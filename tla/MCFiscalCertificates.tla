------------------------ MODULE MCFiscalCertificates ------------------------
(* Instances of FiscalCertificates for TLC; handlers, made-up references and *)
(* files are interchangeable.                                               *)
EXTENDS FiscalCertificates, TLC

CONSTANTS r1, r2, u1, u2, s1, f1, f2

TwoRequests == {r1, r2}
TwoUploads  == {u1, u2}
OneListed   == {s1}
TwoFiles    == {f1, f2}
Symmetric ==
  Permutations(TwoRequests) \cup Permutations(TwoUploads) \cup Permutations(TwoFiles)
=============================================================================
