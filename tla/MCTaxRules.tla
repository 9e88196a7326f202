----------------------------- MODULE MCTaxRules -----------------------------
(* An instance of TaxRules for TLC.  Two digits stand for an NCM. *)
EXTENDS TaxRules, TLC

CONSTANTS a1, a2, o1, u1, u2, dated, sale

TwoAdmins == {a1, a2}
OneOperator == {o1}
TwoRules == {u1, u2}
OneItem == {dated}
OneTarget == {sale}

ItemFacts == [i \in OneItem |-> [ncm |-> <<1, 2>>, modality |-> 1, regime |-> 3, date |-> 2]]

Everything == [target |-> sale, ncms |-> {}, modality |-> 0, regime |-> 0,
        priority |-> 0, from |-> 0, until |-> 0]
\* By a prefix; by that prefix or a longer one of other goods; by
\* modality; until day 1; from day 2.
SomeScopes == {
  [Everything EXCEPT !.ncms = {<<1>>}],
  [Everything EXCEPT !.ncms = {<<1>>, <<3, 4>>}],
  [Everything EXCEPT !.modality = 1],
  [Everything EXCEPT !.until = 1],
  [Everything EXCEPT !.from = 2]}
AdminSymmetry == Permutations(TwoAdmins) \cup Permutations(TwoRules)
=============================================================================
