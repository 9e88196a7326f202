----------------------------- MODULE DraftTaxes -----------------------------
(***************************************************************************)
(* The figures of an NF-e draft: the shares of the import expenses and the *)
(* ICMS of each item, computed when the draft is created and again by the  *)
(* requests that edit it (ImportNfeService).                               *)
(*                                                                         *)
(* They are stored twice, in the rows of the items and in fiscal_payload,  *)
(* a JSON column that each request reads, changes and writes as a whole.   *)
(* No request locks what it reads: of two that overlap, the second writes  *)
(* over the columns it changes.                                            *)
(***************************************************************************)
EXTENDS ImportTaxes

CONSTANTS
  Handlers,   \* requests that edit the draft
  Sources,    \* what a DUIMP may say of the items, and their tax rules
  CostSets,   \* additional_costs of a request: some of the Costs
  Configs,    \* configurations a tax rule may have
  Amounts,    \* amounts an operator may type for an item: those of an invoice
  Typed,      \* CST and rates that an operator may type for its ICMS
  MaxEdits    \* bound: requests that change figures, revisions of the rule included

ASSUME DraftTaxesAssumption ==
  /\ MaxEdits \in Nat /\ Amounts \subseteq Nat \ {0}
  /\ \A conf \in Configs : Accepted(conf)
  /\ \A conf \in Typed : IF conf.cst \in Exempt THEN conf.rate = 0 ELSE conf.rate \in 1..99
  /\ \A costs \in CostSets : \A k \in DOMAIN costs : costs[k] \in Nat

\* The values and weights of a DUIMP are not negative, and it is worth something.
ASSUME SourcesAssumption ==
  \A src \in Sources :
    /\ DOMAIN src = Items
    /\ \A i \in Items : /\ src[i].product \in Nat /\ src[i].net \in Nat
                        /\ src[i].taxes \in Int /\ src[i].other \in Int
                        /\ src[i].rule \in Int
    /\ \E i \in Items : src[i].product > 0

VARIABLES
  source,  \* items of the snapshot: their values, net weights and tax rules
  rule,    \* the present configuration of each of those tax rules; of rule 0 and
           \* below, which are no rules, the one that the simplified flow was given
  draft,   \* nfe_drafts: fiscal_payload and status, and the last unsigned XML
  rows,    \* nfe_draft_items
  req,     \* what each handler has read
  edits,   \* edits so far
  own,     \* history: the expenses of each item itself, without its shares
  raced    \* history: a handler wrote after it had missed a commit

vars == <<source, rule, draft, rows, req, edits, own, raced>>

-----------------------------------------------------------------------------
(* Figures *)

None == 0 - 1

SharedOut(k, rs) == Total([i \in Items |-> rs[i].shares[k]])

\* icms_base_numerator; freight, insurance and discount count with the taxes.
Amount(row) == row.product + row.taxes + row.other

\* The weights of an expense; the rows of a draft know no net weight, and their
\* product value is the one last typed.
Weights(k, rs, weighed) ==
  IF k = "afrmm" /\ weighed /\ \A i \in Items : source[i].net > 0
  THEN [i \in Items |-> source[i].net]
  ELSE [i \in Items |-> IF weighed THEN source[i].product ELSE rs[i].product]

\* reconcile: what was shared is what was informed, to the cent, and the ICMS is
\* the one the DUIMP declares, give or take a cent.
Balanced(payload, rs) ==
  /\ \A k \in Costs : SharedOut(k, rs) = payload.costs[k]
  /\ LET icms == Total([i \in Items |-> rs[i].icms.value]) IN
     payload.declared # None => icms - payload.declared \in -1..1

\* _refresh_draft_payload_from_items, and the validation that follows it.  The
\* items are copied from the rows, so their weights are not there any more.
Refreshed(payload, rs) ==
  [payload EXCEPT !.shares = [i \in Items |-> rs[i].shares], !.weighed = FALSE]
StatusOf(payload, rs) == IF Balanced(payload, rs) THEN "ready_for_xml" ELSE "validation_failed"

NoXml == [rows |-> << >>, costs |-> << >>]

\* The weights for a new draft; one item alone needs none, unless it is planned.
FirstWeights(k, src, planned) ==
  [i \in Items |-> IF k # "afrmm" THEN src[i].product
                   ELSE IF planned \/ Cardinality(Items) > 1 THEN src[i].net ELSE 1]

\* A share of an expense takes a positive weight of every item.
Weighed(src, costs, planned) ==
  /\ costs["siscomex_fee"] > 0 => \A i \in Items : src[i].product > 0
  /\ costs["afrmm"] > 0 => \A i \in Items : FirstWeights("afrmm", src, planned)[i] > 0

\* What each item bears of the expenses of a new draft.  The items of a planned
\* document bring their shares.
FirstShares(src, costs, planned) ==
  LET w(k) == FirstWeights(k, src, planned)
      shared == [k \in Costs |-> IF planned THEN AllocatePlanned(costs[k], w(k))
                                 ELSE Allocate(costs[k], w(k))]
  IN [i \in Items |-> [k \in Costs |-> shared[k][i]]]

RulesOf(src) == {src[i].rule : i \in Items}

\* The item has a tax rule, and not only a simplified configuration.
Ruled(u) == u > 0

\* _calculate_items_with_tax_rules.  With one rule all items have the configuration
\* of the first classification, that of item `lead`; with none or several each item
\* is computed by itself, once its shares are known.
FirstIcms(src, amounts, confs, lead) ==
  IF Cardinality({u \in RulesOf(src) : Ruled(u)}) = 1
  THEN IcmsTogether(confs[src[lead].rule], amounts,
                    [i \in Items |-> src[i].product])
  ELSE [i \in Items |-> IcmsAlone(confs[src[i].rule], amounts[i])]

\* map_duimp_items_to_nfe_items.
FirstRows(src, shares, confs, lead) ==
  LET other(i) == src[i].other + Total(shares[i])
      icms == FirstIcms(src, [i \in Items |-> src[i].product + src[i].taxes + other(i)],
                        confs, lead)
  IN [i \in Items |-> [product |-> src[i].product, taxes |-> src[i].taxes, other |-> other(i),
                       shares |-> shares[i], icms |-> icms[i]]]

\* map_duimp_to_nfe_payload.  The ICMS declared for the whole DUIMP is not that
\* of a planned document.
FirstPayload(rs, costs, planned, declares) ==
  [costs |-> costs, weighed |-> TRUE, shares |-> [i \in Items |-> rs[i].shares],
   declared |-> IF declares /\ ~planned THEN Total([i \in Items |-> rs[i].icms.value]) ELSE None]

\* create_nfe_draft_from_duimp.
Created(src, costs, confs, planned, declares, lead) ==
  LET rs == FirstRows(src, FirstShares(src, costs, planned), confs, lead)
      payload == FirstPayload(rs, costs, planned, declares)
  IN [rows |-> rs, payload |-> payload, status |-> StatusOf(payload, rs), xml |-> NoXml]

Idle == [busy |-> FALSE, draft |-> << >>, rows |-> << >>, late |-> FALSE]

Init ==
  /\ source \in Sources
  /\ rule \in [RulesOf(source) -> Configs]
  /\ \E costs \in {c \in CostSets : DOMAIN c = Costs}, planned, declares \in BOOLEAN,
        lead \in Items :
       /\ Weighed(source, costs, planned)
       /\ LET new == Created(source, costs, rule, planned, declares, lead) IN
          /\ rows = new.rows
          /\ draft = [payload |-> new.payload, status |-> new.status, xml |-> new.xml]
  /\ req = [h \in Handlers |-> Idle]
  /\ edits = 0
  /\ own = [i \in Items |-> source[i].other]
  /\ raced = FALSE

-----------------------------------------------------------------------------
(* Requests *)

\* The route reads the draft.
Load(h) ==
  /\ ~req[h].busy
  /\ req' = [req EXCEPT ![h] = [busy |-> TRUE, draft |-> draft, rows |-> rows, late |-> FALSE]]
  /\ UNCHANGED <<source, rule, draft, rows, edits, own, raced>>

\* The rows are read after the draft: a commit may come in between.
Seen(h) == {req[h].rows, rows}

\* Only the columns that the session changed are written.
Written(stored, read, new) ==
  [f \in DOMAIN stored |-> IF new[f] # read[f] THEN new[f] ELSE stored[f]]

\* The request of h ends: it has read `seen`, and stores payload p and rows rs.
Finish(h, seen, p, rs, status, xml) ==
  LET view == req[h].draft
      new == [payload |-> p, status |-> status, xml |-> xml]
  IN /\ draft' = Written(draft, view, new)
     /\ rows' = [i \in Items |-> Written(rows[i], seen[i], rs[i])]
     /\ req' = [g \in Handlers |-> IF g = h THEN Idle
                                   ELSE [req[g] EXCEPT !.late = req[g].busy]]
     /\ raced' = (raced \/ req[h].late)
     /\ UNCHANGED <<source, rule>>

Edit(h, seen, p, rs) ==
  LET after == Refreshed(p, rs) IN
  /\ edits < MaxEdits
  /\ edits' = edits + 1
  /\ Finish(h, seen, after, rs, StatusOf(after, rs), req[h].draft.xml)

\* The expenses of an item alone, taken from the shares in the payload.
OwnOther(row, shares) == row.other - Total(shares)

\* _manual_icms_values: the base and the rates are typed, the rest stays.
Manual(old, conf, typed) ==
  LET base == IF conf.cst \in Exempt THEN 0 ELSE typed
      operation == HalfUp(base * conf.rate, 100)
  IN [old EXCEPT !.by = "manual", !.conf = [conf EXCEPT !.st = old.conf.st], !.base = base,
                 !.value = operation - HalfUp(operation * conf.deferment, 100)]

\* Only a rule is revised; the simplified configuration is taken from the row.
Configuration(i, row) ==
  IF Ruled(source[i].rule) THEN rule[source[i].rule] ELSE row.icms.conf

\* Mutant: an adjustment is lost when the row is calculated again.
IcmsByRule(i, row, amount) == IcmsAlone(Configuration(i, row), amount)

\* An adjustment by hand stands.
RecalculatedIcms(i, row, amount) ==
  IF row.icms.by = "manual" THEN row.icms ELSE IcmsAlone(Configuration(i, row), amount)

\* Mutant: the new shares are added to the old ones.
RecalculatedOnTop(p, rs, costs) ==
  LET shared == [k \in Costs |-> Allocate(costs[k], Weights(k, rs, p.weighed))] IN
  [i \in Items |->
     LET shares == [k \in Costs |-> shared[k][i]] IN
     [rs[i] EXCEPT !.shares = shares, !.other = @ + Total(shares),
                   !.icms = RecalculatedIcms(i, rs[i], Amount(rs[i]) + Total(shares))]]

\* _recalculate_draft_rows, each row with its present configuration.
Recalculated(p, rs, costs) ==
  LET shared == [k \in Costs |-> Allocate(costs[k], Weights(k, rs, p.weighed))] IN
  [i \in Items |->
     LET shares == [k \in Costs |-> shared[k][i]]
         other == OwnOther(rs[i], p.shares[i]) + Total(shares)
     IN [rs[i] EXCEPT !.shares = shares, !.other = other,
                      !.icms = RecalculatedIcms(i, rs[i], rs[i].product + rs[i].taxes + other)]]

\* The expenses the request leaves out stay as they are.
Merged(costs, given) == [k \in Costs |-> IF k \in DOMAIN given THEN given[k] ELSE costs[k]]

\* update_draft_metadata with additional_costs.
UpdateCosts(h) ==
  LET p == req[h].draft.payload IN
  /\ req[h].busy
  /\ \E given \in CostSets, seen \in Seen(h) :
       LET costs == Merged(p.costs, given) IN
       Edit(h, seen, [p EXCEPT !.costs = costs], Recalculated(p, seen, costs))
  /\ UNCHANGED own

\* update_draft_item: no figure but the typed one changes.
UpdateItem(h) ==
  /\ req[h].busy
  /\ \E i \in Items, f \in {"product", "taxes", "other"}, amount \in Amounts, seen \in Seen(h) :
       /\ Edit(h, seen, req[h].draft.payload, [seen EXCEPT ![i][f] = amount])
       /\ own' = IF f = "other" THEN [own EXCEPT ![i] = amount - Total(seen[i].shares)] ELSE own

\* adjust_draft_item_tax, by hand or with the rule again.
Adjusted(i, row) ==
  {Manual(row.icms, conf, base) : conf \in Typed, base \in Amounts} \cup
    IF Ruled(source[i].rule) THEN {IcmsAlone(rule[source[i].rule], Amount(row))} ELSE {}

AdjustTax(h) ==
  /\ req[h].busy
  /\ \E i \in Items, seen \in Seen(h) : \E icms \in Adjusted(i, seen[i]) :
       Edit(h, seen, req[h].draft.payload, [seen EXCEPT ![i].icms = icms])
  /\ UNCHANGED own

\* validate_draft.
Validate(h) ==
  /\ req[h].busy
  /\ \E seen \in Seen(h) :
       LET after == Refreshed(req[h].draft.payload, seen) IN
       Finish(h, seen, after, seen, StatusOf(after, seen), req[h].draft.xml)
  /\ UNCHANGED <<edits, own>>

\* Mutant: the outcome of the last validation is trusted.
FitForXmlAsStored(d, payload, rs) == d.status # "validation_failed"

\* generate_unsigned_xml validates what it is about to print.
FitForXml(d, payload, rs) == Balanced(payload, rs)

GenerateXml(h) ==
  LET d == req[h].draft IN
  /\ req[h].busy
  /\ \E seen \in Seen(h) :
       LET after == Refreshed(d.payload, seen) IN
       /\ FitForXml(d, after, seen)
       /\ Finish(h, seen, after, seen, "xml_generated", [rows |-> seen, costs |-> after.costs])
  /\ UNCHANGED <<edits, own>>

\* The death of a handler, or an error.
GiveUp(h) ==
  /\ req[h].busy
  /\ req' = [req EXCEPT ![h] = Idle]
  /\ UNCHANGED <<source, rule, draft, rows, edits, own, raced>>

\* An administrator gives a rule another configuration.
ReviseRule ==
  /\ edits < MaxEdits
  /\ edits' = edits + 1
  /\ \E u \in {v \in DOMAIN rule : Ruled(v)} : \E conf \in Configs \ {rule[u]} : rule' = [rule EXCEPT ![u] = conf]
  /\ UNCHANGED <<source, draft, rows, req, own, raced>>

Next ==
  \/ \E h \in Handlers :
       \/ Load(h) \/ UpdateCosts(h) \/ UpdateItem(h) \/ AdjustTax(h)
       \/ Validate(h) \/ GenerateXml(h) \/ GiveUp(h)
  \/ ReviseRule

Spec == Init /\ [][Next]_vars

-----------------------------------------------------------------------------
(* Properties *)

\* An unsigned XML states expenses that add up to those of its items, and the
\* ICMS of the DUIMP, whatever requests overlapped before or while it was made:
\* an edit that wrote over half of another is found before the XML is built.
XmlIsBalanced ==
  draft.xml # NoXml =>
    /\ \A k \in Costs : SharedOut(k, draft.xml.rows) = draft.xml.costs[k]
    /\ LET icms == Total([i \in Items |-> draft.xml.rows[i].icms.value]) IN
       draft.payload.declared # None => icms - draft.payload.declared \in -1..1

\* As long as requests do not overlap, the shares add up to the expenses of the
\* draft, and the other expenses of an item are its own and its shares: nothing
\* is shared twice or lost over any number of edits.
SharesAreExact ==
  ~raced =>
    /\ \A k \in Costs : SharedOut(k, rows) = draft.payload.costs[k]
    /\ \A i \in Items : OwnOther(rows[i], rows[i].shares) = own[i]

\* An ICMS adjusted by hand changes only by another adjustment of that item,
\* whatever recalculates the draft.
AdjustmentsStand ==
  [][\A i \in Items :
       rows[i].icms.by = "manual" /\ rows'[i].icms # rows[i].icms =>
         \/ \E h \in Handlers : AdjustTax(h)
         \/ raced']_vars

\* The ICMS by rule is part of its own base: the amount and the tax make the
\* base before any reduction, give or take the cent of the two roundings.
IcmsIsInside ==
  \A i \in Items :
    LET icms == rows[i].icms
        full == FullBase(icms.conf, icms.amount)
    IN icms.by = "rule" /\ icms.conf.cst \notin WithoutValue \cup {"51"} =>
         icms.amount + icms.value - full \in -1..1

\* The AFRMM is shared by net weight (docs/NFE_IMPORT_TESTING.md:224-225), to
\* the cent.
AfrmmFollowsWeight ==
  LET weight == Total([i \in Items |-> source[i].net])
      afrmm == draft.payload.costs["afrmm"]
      off(i) == rows[i].shares["afrmm"] * weight - afrmm * source[i].net
  IN ~raced => \A i \in Items : off(i) \in (-weight)..weight
=============================================================================
