------------------------------ MODULE TaxRules ------------------------------
(***************************************************************************)
(* The import tax rules of a client, the resolution that picks one rule    *)
(* for an item of a DUIMP, and the classification that stores the choice   *)
(* with a snapshot of the rule (ImportNfeService).                         *)
(*                                                                         *)
(* A rule may not be stored if it is ambiguous with another active one, so *)
(* that a resolution never finds two best rules.  The check reads the      *)
(* committed rules, without a lock, and commits later: administrators who  *)
(* overlap do not see each other.  A classification is current while the   *)
(* revision in its snapshot is the revision of its rule.                   *)
(***************************************************************************)
EXTENDS Integers, Sequences, FiniteSets

CONSTANTS
  Admins,     \* request handlers of administrators
  Operators,  \* request handlers of operators who classify items
  Rules,      \* identities of rules
  Items,      \* items of the DUIMP snapshot
  Facts,      \* what the DUIMP and the fiscal profile say of each item
  Targets,    \* pairs of issuer state and import purpose
  Scopes,     \* what a rule may be restricted to
  MaxEdits    \* bound: contents given to rules

ASSUME TaxRulesAssumption ==
  MaxEdits \in Nat /\ DOMAIN Facts = Items /\ Admins \cap Operators = {}

\* NCMs are sequences of digits, and dates and priorities are numbers.
ASSUME ScopesAssumption ==
  /\ \A s \in Scopes : /\ s.ncms \subseteq Seq(Nat) /\ s.priority \in Int
                       /\ s.from \in Nat /\ s.until \in Nat
  /\ \A i \in Items : Facts[i].ncm \in Seq(Nat) /\ Facts[i].date \in Nat

VARIABLES
  rules,  \* client_import_tax_rules, NoRule where there is none
  rows,   \* nfe_item_classifications of the snapshot
  req,    \* what each handler is doing
  edits,  \* contents given to rules so far
  raced   \* history: rules and pairs of rules whose handlers overlapped

vars == <<rules, rows, req, edits, raced>>

-----------------------------------------------------------------------------
(* Which rules apply to an item, and which one wins *)

None == 0   \* an optional column that is NULL

\* str.startswith of an NCM, as a sequence of digits.
StartsWith(ncm, pattern) ==
  Len(pattern) <= Len(ncm) /\ SubSeq(ncm, 1, Len(pattern)) = pattern

\* _rule_ncm_patterns; a rule without patterns matches with the empty one.
Patterns(s) == IF s.ncms = {} THEN {<< >>} ELSE s.ncms

\* _tax_rule_mismatch_reasons is empty.  A query without a date skips the period.
Applies(s, q) ==
  /\ s.target = q.target
  /\ s.regime \in {None, q.regime}
  /\ s.modality \in {None, q.modality}
  /\ q.date # None => /\ s.from <= q.date
                      /\ s.until = None \/ q.date <= s.until
  /\ \E p \in Patterns(s) : StartsWith(q.ncm, p)

Flag(column) == IF column = None THEN 0 ELSE 1

\* The length of _matching_ncm_pattern.
Specificity(s, ncm) ==
  CHOOSE n \in 0..Len(ncm) :
    /\ \E p \in Patterns(s) : StartsWith(ncm, p) /\ Len(p) = n
    /\ \A p \in Patterns(s) : StartsWith(ncm, p) => Len(p) <= n

\* _tax_rule_score.
Score(s, ncm) == <<Specificity(s, ncm), s.priority, Flag(s.modality), Flag(s.regime)>>

\* Tuples compare left to right.
Outranks(s, t) ==
  \E i \in 1..4 : s[i] > t[i] /\ \A j \in 1..(i - 1) : s[j] = t[j]

\* The candidates that share the highest score.
Best(candidates, q) ==
  LET matches == {u \in candidates : Applies(rules[u].scope, q)} IN
  {u \in matches : \A w \in matches :
     ~Outranks(Score(rules[w].scope, q.ncm), Score(rules[u].scope, q.ncm))}

\* Mutant: only the longest patterns of the two rules are compared.
LongestTie(s, t) ==
  LET longest(z) == {p \in Patterns(z) : \A o \in Patterns(z) : Len(o) <= Len(p)}
  IN longest(s) \cap longest(t) # {}

\* _ncm_scopes_tie: the two rules have a pattern in common.
NcmScopesTie(s, t) == Patterns(s) \cap Patterns(t) # {}

\* _tax_rules_are_ambiguous.
Ambiguous(s, t) ==
  /\ s.priority = t.priority
  /\ Flag(s.modality) = Flag(t.modality) /\ Flag(s.regime) = Flag(t.regime)
  /\ s.target = t.target
  /\ s.modality = t.modality /\ s.regime = t.regime
  /\ NcmScopesTie(s, t)
  /\ ~(s.until # None /\ t.from # None /\ s.until < t.from)
  /\ ~(t.until # None /\ s.from # None /\ t.until < s.from)

-----------------------------------------------------------------------------
(* State *)

NoScope == [target |-> None, ncms |-> {}, modality |-> None, regime |-> None,
            priority |-> 0, from |-> None, until |-> None]
NoRule == [scope |-> NoScope, config |-> 0, revision |-> 0, active |-> FALSE]
Stored(u) == rules[u].revision > 0
Active == {u \in Rules : rules[u].active}

\* A classification keeps the revision and the configuration it was made with.
NoRow == [source |-> "none", target |-> None, rule |-> None, revision |-> 0, config |-> 0]

Idle == [phase |-> "idle", rule |-> None, view |-> NoRule, new |-> NoRule, missed |-> {}]
NoWork == [item |-> None, found |-> "none", row |-> NoRow]

\* The snapshot is stored with a row for each item that a template of a
\* simplified issuance matches (apply_simplified_classifications).
Init ==
  /\ rules = [u \in Rules |-> NoRule]
  /\ \E matched \in SUBSET Items, target \in Targets :
       rows = [i \in Items |-> IF i \in matched
                               THEN [NoRow EXCEPT !.source = "simplified", !.target = target]
                               ELSE NoRow]
  /\ req = [h \in Admins \cup Operators |-> IF h \in Admins THEN Idle ELSE NoWork]
  /\ edits = 0
  /\ raced = {}

-----------------------------------------------------------------------------
(* Administrators *)

\* Mutant: a rule that is changed or switched on again is not checked.
ConflictsOnCreation(u, r) ==
  IF r.active /\ ~Stored(u)
  THEN {w \in Active \ {u} : Ambiguous(r.scope, rules[w].scope)} ELSE {}

\* _find_import_tax_rule_conflicts.
Conflicts(u, r) ==
  IF r.active THEN {w \in Active \ {u} : Ambiguous(r.scope, rules[w].scope)} ELSE {}

\* The service method of handler a ends: the route commits later, or answers 409.
Proceed(a, u, r) ==
  req' = IF Conflicts(u, r) = {}
         THEN [req EXCEPT ![a].phase = "checked", ![a].rule = u, ![a].new = r]
         ELSE [req EXCEPT ![a] = Idle]

\* create_import_tax_rule.
Create(a, u) ==
  /\ req[a].phase = "idle"
  /\ ~Stored(u) /\ \A b \in Admins : req[b].rule # u
  /\ edits < MaxEdits
  /\ edits' = edits + 1
  /\ \E scope \in Scopes, active \in BOOLEAN :
       Proceed(a, u, [scope |-> scope, config |-> edits', revision |-> 1, active |-> active])
  /\ UNCHANGED <<rules, rows, raced>>

\* get_import_tax_rule.
Load(a, u) ==
  /\ req[a].phase = "idle"
  /\ Stored(u)
  /\ req' = [req EXCEPT ![a] = [Idle EXCEPT !.phase = "loaded", !.rule = u,
                                            !.view = rules[u]]]
  /\ UNCHANGED <<rules, rows, edits, raced>>

\* The flush of an UPDATE waits for the transaction that holds the row.
RowIsFree(u) ==
  \A b \in Admins : req[b].phase = "checked" => req[b].rule # u

\* Mutant: the configuration is not one of the revision_fields.
RevisedQuietly(r, scope, config) ==
  [r EXCEPT !.scope = scope, !.config = config,
            !.revision = IF scope = r.scope THEN @ ELSE @ + 1]

\* A payload with any of the revision_fields makes a new revision of the copy.
Revised(r, scope, config) ==
  [r EXCEPT !.scope = scope, !.config = config, !.revision = @ + 1]

\* update_import_tax_rule with new contents, or with `active` alone; to switch a
\* rule off with it is to Deactivate.
Update(a) ==
  LET r == req[a].view IN
  /\ req[a].phase = "loaded"
  /\ RowIsFree(req[a].rule)
  /\ \/ /\ edits < MaxEdits
        /\ edits' = edits + 1
        /\ \E scope \in Scopes : Proceed(a, req[a].rule, Revised(r, scope, edits'))
     \/ /\ ~r.active
        /\ Proceed(a, req[a].rule, [r EXCEPT !.active = TRUE])
        /\ UNCHANGED edits
  /\ UNCHANGED <<rules, rows, raced>>

\* deactivate_import_tax_rule.
Deactivate(a) ==
  /\ req[a].phase = "loaded"
  /\ RowIsFree(req[a].rule)
  /\ req' = [req EXCEPT ![a].phase = "checked", ![a].new = [req[a].view EXCEPT !.active = FALSE]]
  /\ UNCHANGED <<rules, rows, edits, raced>>

\* Only the columns that differ from the loaded copy are written.
Written(row, view, new) ==
  [f \in DOMAIN row |-> IF new[f] # view[f] THEN new[f] ELSE row[f]]

\* Handler b will have missed the commit of rule u: it has loaded that rule, or
\* has already compared its own with all others.
Misses(b, u) == req[b].phase = "checked" \/ (req[b].phase = "loaded" /\ req[b].rule = u)

Commit(a) ==
  LET u == req[a].rule IN
  /\ req[a].phase = "checked"
  /\ rules' = [rules EXCEPT ![u] = Written(@, req[a].view, req[a].new)]
  /\ raced' = raced \cup {{u, w} : w \in req[a].missed}
  /\ req' = [h \in DOMAIN req |->
               IF h = a THEN Idle
               ELSE IF h \in Admins /\ Misses(h, u) THEN [req[h] EXCEPT !.missed = @ \cup {u}]
               ELSE req[h]]
  /\ UNCHANGED <<rows, edits>>

-----------------------------------------------------------------------------
(* Operators *)

Query(i, target) ==
  [target |-> target, ncm |-> Facts[i].ncm, modality |-> Facts[i].modality,
   regime |-> Facts[i].regime, date |-> Facts[i].date]

\* The rules resolve_import_tax_rule may choose from; one may be named.
Candidates(named) == IF named = None THEN Active ELSE Active \cap {named}

\* The row save_item_classifications makes of the resolved rule, or of none.
Classified(target, chosen) ==
  LET row == [NoRow EXCEPT !.source = "manual", !.target = target]
      u == CHOOSE w \in chosen : TRUE
  IN IF chosen = {} THEN row
     ELSE [row EXCEPT !.rule = u, !.revision = rules[u].revision, !.config = rules[u].config]

\* save_item_classifications up to its commit.  Two best rules are an error, and
\* so is a named rule that does not apply; a simplified row of the same purpose
\* is left alone unless a rule is named.
Classify(o, i, target, named) ==
  LET best == Best(Candidates(named), Query(i, target)) IN
  /\ req[o] = NoWork
  /\ ~(rows[i].source = "simplified" /\ rows[i].target = target /\ named = None)
  /\ Cardinality(best) <= 1
  /\ named # None => best # {}
  /\ req' = [req EXCEPT ![o] = [item |-> i, found |-> rows[i].source,
                                 row |-> Classified(target, best)]]
  /\ UNCHANGED <<rules, rows, edits, raced>>

\* Two inserts for one item break uq_nfe_item_classification_snapshot_item.
CommitRow(o) ==
  /\ req[o] # NoWork
  /\ req[o].found = "none" => rows[req[o].item].source = "none"
  /\ rows' = [rows EXCEPT ![req[o].item] = req[o].row]
  /\ req' = [req EXCEPT ![o] = NoWork]
  /\ UNCHANGED <<rules, edits, raced>>

\* A conflict, an integrity error or the death of the handler.
Rollback(h) ==
  /\ IF h \in Admins THEN req[h].phase # "idle" ELSE req[h] # NoWork
  /\ req' = [req EXCEPT ![h] = IF h \in Admins THEN Idle ELSE NoWork]
  /\ UNCHANGED <<rules, rows, edits, raced>>

Next ==
  \/ \E a \in Admins :
       \/ \E u \in Rules : Create(a, u) \/ Load(a, u)
       \/ Update(a) \/ Deactivate(a) \/ Commit(a)
  \/ \E o \in Operators :
       \/ \E i \in Items, target \in Targets, named \in Rules \cup {None} :
            Classify(o, i, target, named)
       \/ CommitRow(o)
  \/ \E h \in Admins \cup Operators : Rollback(h)

Spec == Init /\ [][Next]_vars

-----------------------------------------------------------------------------
(* What get_item_classification_state shows, and what must be true of it *)

Status(row) ==
  CASE row.source = "none"       -> "unclassified"
    [] row.source = "simplified" -> "classified"
    [] row.rule = None           -> "missing_tax_rule"
    [] ~rules[row.rule].active   -> "inactive_tax_rule"
    [] row.revision # rules[row.rule].revision -> "stale_tax_rule"
    [] OTHER -> "classified"

\* An item shown as classified by a rule carries that rule's present
\* configuration, so a draft is not computed from one that was replaced, unless
\* two updates of the rule overlapped and made one revision of two contents.
ClassifiedIsCurrent ==
  \A i \in Items :
    LET row == rows[i] IN
    Status(row) = "classified" /\ row.rule # None =>
      row.config = rules[row.rule].config \/ {row.rule} \in raced

Excused(u, w) == {{u}, {w}, {u, w}} \cap raced # {}

\* Two best rules for an item with a date, the error that blocks every
\* classification of the item, come only from administrators who overlapped:
\* what one handler after another stores always resolves to one rule.
TiesAreRaces ==
  \A i \in Items, target \in Targets :
    LET best == Best(Active, Query(i, target)) IN
    Facts[i].date # None => \A u, w \in best : u = w \/ Excused(u, w)

\* Two rules that tie for an item are shown by import_tax_rule_diagnostics, which
\* compares them without the item; nothing else names the rules to correct.
TiesAreDiagnosed ==
  \A i \in Items, target \in Targets :
    LET best == Best(Active, Query(i, target)) IN
    Facts[i].date # None =>
      \A u, w \in best : u = w \/ Ambiguous(rules[u].scope, rules[w].scope)
=============================================================================
