---------------------------- MODULE ImportTaxes ----------------------------
(***************************************************************************)
(* The arithmetic of an import NF-e: how the expenses of the import are    *)
(* shared among its items and how the ICMS, which is part of its own base, *)
(* is computed (ImportTaxCalculator).                                      *)
(*                                                                         *)
(* Amounts are whole cents and rates whole percents.  MVA, the reduction   *)
(* of the ST base and the ST retained before (CST 60) are left out, and so *)
(* are the taxes that are copied from the DUIMP: they are one amount.      *)
(***************************************************************************)
EXTENDS Integers, FiniteSets, Functions

CONSTANT Items   \* item numbers of a draft, naturals
ASSUME ItemsAssumption == Items \subseteq Nat /\ Items # {} /\ IsFiniteSet(Items)

\* The expenses with a weight of their own: tum goes as afrmm, thc and other as
\* siscomex_fee.
Costs == {"afrmm", "siscomex_fee"}

Total(f) == FoldFunction(LAMBDA x, y : x + y, 0, f)

\* Decimal.quantize with ROUND_HALF_UP of n / d, away from zero.
HalfUp(n, d) == IF n >= 0 THEN (2 * n + d) \div (2 * d) ELSE 0 - ((d - 2 * n) \div (2 * d))

-----------------------------------------------------------------------------
(* Sharing an expense, if there is one: without it no weight is looked at. *)

Unshared(w) == [i \in DOMAIN w |-> 0]

Floors(total, w) ==
  LET whole == Total(w) IN [i \in DOMAIN w |-> (total * w[i]) \div whole]

\* What the cut to whole cents leaves of each share.
Fractions(total, w) ==
  LET whole == Total(w) IN [i \in DOMAIN w |-> (total * w[i]) % whole]

\* The items that have their cent before item i.
Before(rest, i) ==
  {j \in DOMAIN rest : rest[j] > rest[i] \/ (rest[j] = rest[i] /\ j < i)}

\* allocate: one more cent for the items with the largest fractions.
Allocate(total, w) ==
  LET floors == Floors(total, w)
      rest == Fractions(total, w)
      left == total - Total(floors)
  IN IF total = 0 THEN Unshared(w)
     ELSE [i \in DOMAIN w |-> floors[i] + IF Cardinality(Before(rest, i)) < left THEN 1 ELSE 0]

\* _allocate_shared_cost_to_items of a plan: the largest item has the whole rest.
AllocatePlanned(total, w) ==
  LET largest == CHOOSE i \in DOMAIN w : \A j \in DOMAIN w : w[i] > w[j] \/ (w[i] = w[j] /\ i <= j)
      floors == Floors(total, w)
  IN IF total = 0 THEN Unshared(w) ELSE [floors EXCEPT ![largest] = @ + total - Total(floors)]

-----------------------------------------------------------------------------
(* ICMS *)

ReducedBase == {"20", "70"}
Substitution == {"10", "30", "70"}
WithoutValue == {"30", "40", "41", "50", "60"}
Exempt == {"40", "41", "50"}

\* calculate raises on a configuration that lacks what its CST needs.
Accepted(conf) ==
  /\ conf.cst \notin WithoutValue \cup {"51"} => conf.rate \in 1..99
  /\ conf.cst \in WithoutValue => conf.rate = 0
  /\ conf.cst = "51" => conf.deferment + conf.reduction > 0
  /\ conf.cst \in ReducedBase => conf.reduction \in 1..100
  /\ conf.cst \in Substitution => conf.st \in 1..99

\* The effective rate, in parts of a million.
Effective(conf) ==
  CASE conf.cst \in ReducedBase -> conf.rate * (100 - conf.reduction) * 100
    [] conf.cst = "51" -> conf.rate * (100 - conf.reduction) * (100 - conf.deferment)
    [] OTHER -> conf.rate * 10000

\* Mutant: the tax is put on top of the amount.
BaseOnTop(conf, amount) == HalfUp(amount * (1000000 + Effective(conf)), 1000000)

\* The base that contains the tax on itself.
FullBase(conf, amount) == HalfUp(amount * 1000000, 1000000 - Effective(conf))

Monus(a, b) == IF a > b THEN a - b ELSE 0

\* What calculate stores of the ICMS of an item.  A base is given when that of
\* all items was shared out (CST 51).
Icms(conf, amount, base) ==
  LET full == FullBase(conf, amount)
      taxed == CASE conf.cst \in WithoutValue -> 0
                 [] conf.cst \in ReducedBase -> HalfUp(full * (100 - conf.reduction), 100)
                 [] OTHER -> base
      operation == HalfUp(taxed * conf.rate, 100)
      value == IF conf.cst = "51" THEN operation - HalfUp(operation * conf.deferment, 100)
               ELSE operation
      source == IF conf.cst \in WithoutValue THEN amount ELSE full
  IN [by |-> "rule", conf |-> conf, amount |-> amount, base |-> taxed, value |-> value,
      st |-> IF conf.cst \in Substitution THEN Monus(HalfUp(source * conf.st, 100), value) ELSE 0]

\* calculate for one item, as every recalculation does.
IcmsAlone(conf, amount) == Icms(conf, amount, FullBase(conf, amount))

\* calculate for all items of a draft.  The base of CST 51 is computed once and
\* shared by customs value.
IcmsTogether(conf, amounts, customs) ==
  LET bases == Allocate(FullBase(conf, Total(amounts)), customs) IN
  [i \in Items |-> IF conf.cst = "51" THEN Icms(conf, amounts[i], bases[i])
                   ELSE IcmsAlone(conf, amounts[i])]
=============================================================================
