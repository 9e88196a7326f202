--------------------------- MODULE MCNfeNumbering ---------------------------
(* Instances of NfeNumbering for TLC; handlers are interchangeable. *)
EXTENDS NfeNumbering, TLC

CONSTANTS r1, r2

TwoRequests      == {r1, r2}
AroundTheCeiling == -1..(Ceiling + 1)
HandlersSymmetry == Permutations(TwoRequests)
=============================================================================
