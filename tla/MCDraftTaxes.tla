---------------------------- MODULE MCDraftTaxes ----------------------------
(* An instance of DraftTaxes for TLC: a draft of two items. *)
EXTENDS DraftTaxes, TLC

CONSTANTS h1, h2

TwoItems == 1..2
OneHandler == {h1}
TwoHandlers == {h1, h2}

Item(product, net, other, by) ==
  [product |-> product, net |-> net, other |-> other, taxes |-> 7, rule |-> by]
\* The heavier item is the cheaper one.  One rule, and an item without; or two.
OneRule == {<<Item(30, 2, 0, 0), Item(90, 1, 4, 1)>>}
TwoRules == {<<Item(30, 2, 0, 1), Item(90, 1, 4, 2)>>}

SomeCosts ==
  {[afrmm |-> 10, siscomex_fee |-> 5], "afrmm" :> 0}

\* A reduced base with substitution, and a deferment.
SomeConfigs ==
  {[cst |-> "70", rate |-> 25, reduction |-> 20, deferment |-> 0, st |-> 25],
   [cst |-> "51", rate |-> 17, reduction |-> 0, deferment |-> 50, st |-> 0]}

SomeAmounts == {33}
\* A deferment and an exemption.
SomeTyped ==
  {[cst |-> "51", rate |-> 17, reduction |-> 0, deferment |-> 50, st |-> 0],
   [cst |-> "41", rate |-> 0, reduction |-> 0, deferment |-> 0, st |-> 0]}
HandlerSymmetry == Permutations(TwoHandlers)
=============================================================================
