-------------------------- MODULE MCDuimpSnapshots --------------------------
(* An instance of DuimpSnapshots for TLC: a DUIMP of one or three items. *)
EXTENDS DuimpSnapshots, TLC

CONSTANTS h1, h2

TwoHandlers == {h1, h2}
OneField == {"clearance_date"}
TwoValues == {"v", "w"}

\* One states how many items it has; the other has a date.
SomeDuimps ==
  {[items |-> 3, stated |-> 3, fields |-> [f \in OneField |-> None]],
   [items |-> 1, stated |-> 0, fields |-> [f \in OneField |-> "v"]]}

HandlerSymmetry == Permutations(TwoHandlers)
=============================================================================
