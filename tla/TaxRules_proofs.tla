--------------------------- MODULE TaxRules_proofs ---------------------------
(***************************************************************************)
(* Proofs about TaxRules for any administrators, rules, items and scopes.  *)
(*                                                                         *)
(* The argument has two halves.  About the data: two rules that share the  *)
(* best score of an item match it with one and the same pattern, so the    *)
(* check for ambiguity, which never sees an item, finds them.  About the   *)
(* handlers: a rule that waits for its commit was compared with every      *)
(* other as it is now, or the handler is on record as having missed that   *)
(* rule's commit, and so will be the pair once it commits too.             *)
(***************************************************************************)
EXTENDS TaxRules, WellFoundedInduction, SequenceTheorems, TLAPS

\* A nonempty set of naturals has a least element.
LEMMA LeastNatural ==
  ASSUME NEW T \in SUBSET Nat, T # {}
  PROVE  \E m \in T : \A k \in T : m <= k
<1> DEFINE Less == {z \in Nat \X Nat : z[1] < z[2]}
<1>1. IsWellFoundedOn(Less, Nat)
  BY NatLessThanWellFounded DEF OpToRel
<1> HIDE DEF Less
<1>2. PICK m \in T : \A k \in T : <<k, m>> \notin Less
  BY <1>1, WFMin
<1>3. ASSUME NEW k \in T PROVE m <= k
  <2>1. k \in Nat /\ m \in Nat
    OBVIOUS
  <2>2. <<k, m>> \in Nat \X Nat /\ <<k, m>>[1] = k /\ <<k, m>>[2] = m
    BY <2>1
  <2>3. ~(k < m)
    BY <1>2, <2>2 DEF Less
  <2> QED
    BY <2>1, <2>3
<1> QED
  BY <1>3

\* A bounded nonempty set of naturals has a greatest element.
LEMMA GreatestNatural ==
  ASSUME NEW n \in Nat, NEW T \in SUBSET (0..n), T # {}
  PROVE  \E m \in T : \A k \in T : k <= m
<1> DEFINE U == {n - k : k \in T}
<1>1. U \in SUBSET Nat /\ U # {}
  <2>1. \A k \in T : n - k \in Nat
    OBVIOUS
  <2> QED
    BY <2>1
<1>2. PICK u \in U : \A v \in U : u <= v
  BY <1>1, LeastNatural
<1>3. PICK m \in T : u = n - m
  BY <1>2
<1>4. ASSUME NEW k \in T PROVE k <= m
  <2>1. n - k \in U
    OBVIOUS
  <2>2. n - m <= n - k
    BY <1>2, <1>3, <2>1
  <2> QED
    BY <2>2
<1> QED
  BY <1>3, <1>4

-----------------------------------------------------------------------------
(* Ties *)

\* A query with a date.
Dated(q) == q.ncm \in Seq(Nat) /\ q.date \in Nat \ {None}

\* The patterns, dates and priority of a rule have their types.
LEMMA ScopeTypes ==
  ASSUME NEW s \in Scopes \cup {NoScope}
  PROVE  /\ Patterns(s) \subseteq Seq(Nat) /\ s.priority \in Int
         /\ s.from \in Nat /\ s.until \in Nat
<1>1. << >> \in Seq(Nat)
  BY EmptySeq
<1>2. CASE s \in Scopes
  BY <1>1, <1>2, ScopesAssumption DEF Patterns
<1>3. CASE s = NoScope
  BY <1>1, <1>3 DEF NoScope, None, Patterns
<1> QED
  BY <1>2, <1>3

\* The specificity of a rule that applies is the length of a pattern of it that
\* the NCM starts with.
LEMMA SpecificityIsMatched ==
  ASSUME NEW s \in Scopes \cup {NoScope}, NEW ncm \in Seq(Nat),
         \E p \in Patterns(s) : StartsWith(ncm, p)
  PROVE  /\ Specificity(s, ncm) \in 0..Len(ncm)
         /\ \E p \in Patterns(s) : StartsWith(ncm, p) /\ Len(p) = Specificity(s, ncm)
<1> DEFINE T == {n \in 0..Len(ncm) : \E p \in Patterns(s) : StartsWith(ncm, p) /\ Len(p) = n}
<1>1. Len(ncm) \in Nat /\ \A p \in Patterns(s) : Len(p) \in Nat
  BY ScopeTypes, LenProperties
<1>2. \A p \in Patterns(s) : StartsWith(ncm, p) => Len(p) \in T
  BY <1>1 DEF StartsWith
<1>3. T # {} /\ T \in SUBSET (0..Len(ncm))
  BY <1>2
<1>4. PICK m \in T : \A k \in T : k <= m
  BY <1>1, <1>3, GreatestNatural
<1>5. /\ \E p \in Patterns(s) : StartsWith(ncm, p) /\ Len(p) = m
      /\ \A p \in Patterns(s) : StartsWith(ncm, p) => Len(p) <= m
  BY <1>2, <1>4
<1> HIDE DEF T
<1>6. m \in 0..Len(ncm)
  BY <1>4 DEF T
<1> QED
  BY <1>5, <1>6 DEF Specificity

\* Neither of two scores outranks the other only if they are equal.
LEMMA EqualRanks ==
  ASSUME NEW s1 \in Int, NEW s2 \in Int, NEW s3 \in Int, NEW s4 \in Int,
         NEW t1 \in Int, NEW t2 \in Int, NEW t3 \in Int, NEW t4 \in Int,
         ~Outranks(<<s1, s2, s3, s4>>, <<t1, t2, t3, t4>>),
         ~Outranks(<<t1, t2, t3, t4>>, <<s1, s2, s3, s4>>)
  PROVE  s1 = t1 /\ s2 = t2 /\ s3 = t3 /\ s4 = t4
<1> DEFINE s == <<s1, s2, s3, s4>>
           t == <<t1, t2, t3, t4>>
<1>1. /\ s[1] = s1 /\ s[2] = s2 /\ s[3] = s3 /\ s[4] = s4
      /\ t[1] = t1 /\ t[2] = t2 /\ t[3] = t3 /\ t[4] = t4
  OBVIOUS
<1> HIDE DEF s, t
<1>2. \A i \in 1..4 : (\A j \in 1..(i - 1) : s[j] = t[j]) => ~(s[i] > t[i]) /\ ~(t[i] > s[i])
  BY DEF Outranks, s, t
<1>3. s1 = t1
  BY <1>1, <1>2
<1>4. s2 = t2
  <2>1. \A j \in 1..(2 - 1) : s[j] = t[j]
    BY <1>1, <1>3
  <2> QED
    BY <1>1, <1>2, <2>1
<1>5. s3 = t3
  <2>1. \A j \in 1..(3 - 1) : s[j] = t[j]
    BY <1>1, <1>3, <1>4
  <2> QED
    BY <1>1, <1>2, <2>1
<1>6. s4 = t4
  <2>1. \A j \in 1..(4 - 1) : s[j] = t[j]
    BY <1>1, <1>3, <1>4, <1>5
  <2> QED
    BY <1>1, <1>2, <2>1
<1> QED
  BY <1>3, <1>4, <1>5, <1>6

\* Two patterns of one length that an NCM starts with are the same pattern.
LEMMA OnePrefix ==
  ASSUME NEW ncm \in Seq(Nat), NEW p, NEW o, StartsWith(ncm, p), StartsWith(ncm, o),
         Len(p) = Len(o)
  PROVE  p = o
BY DEF StartsWith

\* Two rules that apply to an item with a date, neither of which outranks the
\* other, are ambiguous: the check that sees only the rules is complete.
THEOREM TiedRulesAreAmbiguous ==
  ASSUME NEW s \in Scopes \cup {NoScope}, NEW t \in Scopes \cup {NoScope},
         NEW q, Dated(q), Applies(s, q), Applies(t, q),
         ~Outranks(Score(s, q.ncm), Score(t, q.ncm)),
         ~Outranks(Score(t, q.ncm), Score(s, q.ncm))
  PROVE  Ambiguous(s, t)
<1>1. q.ncm \in Seq(Nat) /\ q.date \in Nat /\ q.date # None
  BY DEF Dated
<1>2. /\ Specificity(s, q.ncm) \in 0..Len(q.ncm)
      /\ \E p \in Patterns(s) : StartsWith(q.ncm, p) /\ Len(p) = Specificity(s, q.ncm)
  BY <1>1, SpecificityIsMatched DEF Applies
<1>3. /\ Specificity(t, q.ncm) \in 0..Len(q.ncm)
      /\ \E p \in Patterns(t) : StartsWith(q.ncm, p) /\ Len(p) = Specificity(t, q.ncm)
  BY <1>1, SpecificityIsMatched DEF Applies
<1>4. /\ s.priority \in Int /\ t.priority \in Int
      /\ s.from \in Nat /\ s.until \in Nat /\ t.from \in Nat /\ t.until \in Nat
  BY ScopeTypes
<1>5. \A c : Flag(c) \in Int
  BY DEF Flag
<1>6. /\ Specificity(s, q.ncm) = Specificity(t, q.ncm) /\ s.priority = t.priority
      /\ Flag(s.modality) = Flag(t.modality) /\ Flag(s.regime) = Flag(t.regime)
  <2>1. Specificity(s, q.ncm) \in Int /\ Specificity(t, q.ncm) \in Int
    BY <1>2, <1>3
  <2> QED
    BY <1>4, <1>5, <2>1, EqualRanks DEF Score
<1>7. NcmScopesTie(s, t)
  <2>1. PICK p \in Patterns(s) : StartsWith(q.ncm, p) /\ Len(p) = Specificity(s, q.ncm)
    BY <1>2
  <2>2. PICK o \in Patterns(t) : StartsWith(q.ncm, o) /\ Len(o) = Specificity(t, q.ncm)
    BY <1>3
  <2>3. p = o
    BY <1>1, <1>6, <2>1, <2>2, OnePrefix
  <2> QED
    BY <2>3 DEF NcmScopesTie
<1>8. s.modality = t.modality /\ s.regime = t.regime /\ s.target = t.target
  BY <1>6 DEF Applies, Flag
<1>9. /\ ~(s.until # None /\ t.from # None /\ s.until < t.from)
      /\ ~(t.until # None /\ s.from # None /\ t.until < s.from)
  BY <1>1, <1>4 DEF Applies
<1> QED
  BY <1>6, <1>7, <1>8, <1>9 DEF Ambiguous

\* It does not matter which of two rules is looked at first.
LEMMA AmbiguousIsSymmetric ==
  ASSUME NEW s, NEW t, Ambiguous(s, t)
  PROVE  Ambiguous(t, s)
BY DEF Ambiguous, NcmScopesTie

-----------------------------------------------------------------------------
(* The invariant *)

RuleType == [scope : Scopes \cup {NoScope}, config : Nat, revision : Nat, active : BOOLEAN]
Sources == {"none", "manual", "simplified"}
RowType == [source : Sources, target : Targets \cup {None}, rule : Rules \cup {None},
            revision : Nat, config : Nat]
AdminWork == [phase : {"idle", "loaded", "checked"}, rule : Rules \cup {None},
              view : RuleType, new : RuleType, missed : SUBSET Rules]
OperatorWork == [item : Items \cup {None}, found : Sources, row : RowType]

Typed ==
  /\ rules \in [Rules -> RuleType] /\ \A u \in Rules : Stored(u) \/ rules[u] = NoRule
  /\ rows \in [Items -> RowType]
  /\ req \in [Admins \cup Operators -> AdminWork \cup OperatorWork]
  /\ \A a \in Admins : req[a] \in AdminWork
  /\ \A o \in Operators : req[o] \in OperatorWork
  /\ edits \in Nat

\* What administrator's work q knows: its rule as it is, unless it has missed a
\* commit of it, ...
Known(q) ==
  /\ q.phase = "idle" => q = Idle
  /\ q.phase = "loaded" => q.view.revision > 0
  /\ q.phase \in {"loaded", "checked"} =>
       /\ q.rule \in Rules
       /\ q.view = rules[q.rule] \/ q.rule \in q.missed
       /\ q.view.revision > 0 => Stored(q.rule)

\* ... and no rule that the new contents are ambiguous with, unless it has missed
\* the commit of that one.  Equal revisions have equal configurations.
Compared(q) ==
  q.phase = "checked" =>
    /\ q.new.revision > 0 /\ q.new.revision >= q.view.revision
    /\ q.new.revision = q.view.revision => q.new.config = q.view.config
    /\ \A w \in Active \ {q.rule} :
         q.new.active /\ Ambiguous(q.new.scope, rules[w].scope) => w \in q.missed

\* A classification by a rule is not a template's, and has an older revision than
\* the rule or the rule's configuration.
Follows(row) ==
  row.rule # None =>
    /\ row.source # "simplified"
    /\ \/ {row.rule} \in raced
       \/ row.revision < rules[row.rule].revision
       \/ row.revision = rules[row.rule].revision /\ row.config = rules[row.rule].config

\* Handlers that do not overlap store no ambiguous rules.
Unambiguous ==
  \A u, w \in Active : u # w /\ Ambiguous(rules[u].scope, rules[w].scope) => Excused(u, w)

Inv ==
  /\ Typed
  /\ \A a \in Admins : Known(req[a]) /\ Compared(req[a])
  /\ \A i \in Items : Follows(rows[i])
  /\ \A o \in Operators : Follows(req[o].row)
  /\ Unambiguous

\* The initial values have their types.
LEMMA InitialTypes ==
  /\ NoRule \in RuleType /\ NoRow \in RowType /\ NoRow.rule = None
  /\ NoRule.active = FALSE /\ NoRule.revision = 0
  /\ Idle \in AdminWork /\ Idle.phase = "idle" /\ NoWork \in OperatorWork /\ NoWork.row = NoRow
BY DEF NoRule, NoRow, Idle, NoWork, RuleType, RowType, AdminWork, OperatorWork, Sources, None

\* There are no rules yet, and what templates matched has no rule.
LEMMA InitInv == Init => Inv
<1> SUFFICES ASSUME Init PROVE Inv
  OBVIOUS
<1>1. PICK matched \in SUBSET Items, target \in Targets :
        rows = [i \in Items |-> IF i \in matched
                                THEN [NoRow EXCEPT !.source = "simplified", !.target = target]
                                ELSE NoRow]
  BY DEF Init
<1>2. /\ [NoRow EXCEPT !.source = "simplified", !.target = target] \in RowType
      /\ [NoRow EXCEPT !.source = "simplified", !.target = target].rule = None
  BY DEF NoRow, RowType, Sources, None
<1>3. rows \in [Items -> RowType] /\ \A i \in Items : rows[i].rule = None
  BY <1>1, <1>2, InitialTypes
<1>4. /\ \A a \in Admins : req[a] = Idle
      /\ \A o \in Operators : req[o] = NoWork
      /\ req \in [Admins \cup Operators -> AdminWork \cup OperatorWork]
  BY InitialTypes, TaxRulesAssumption DEF Init
<1>5. rules \in [Rules -> RuleType] /\ \A u \in Rules : rules[u] = NoRule
  BY InitialTypes DEF Init
<1>6. Typed
  BY <1>3, <1>4, <1>5, InitialTypes DEF Init, Typed
<1>7. \A a \in Admins : Known(req[a]) /\ Compared(req[a])
  BY <1>4, InitialTypes DEF Known, Compared
<1>8. (\A i \in Items : Follows(rows[i])) /\ \A o \in Operators : Follows(req[o].row)
  BY <1>3, <1>4, InitialTypes DEF Follows
<1>9. Unambiguous
  BY <1>5, InitialTypes DEF Unambiguous, Active
<1> QED
  BY <1>6, <1>7, <1>8, <1>9 DEF Inv

-----------------------------------------------------------------------------
(* Steps that leave the rules alone *)

\* A handler moves, and knows what it should.
LEMMA HandlerStep ==
  ASSUME Inv, NEW h \in Admins \cup Operators, NEW q, req' = [req EXCEPT ![h] = q],
         h \in Admins => q \in AdminWork /\ Known(q) /\ Compared(q),
         h \in Operators => q \in OperatorWork /\ Follows(q.row),
         rows' \in [Items -> RowType], \A i \in Items : Follows(rows'[i]),
         UNCHANGED <<rules, raced>>, edits' \in Nat
  PROVE  Inv'
<1>1. Typed
  BY DEF Inv
<1>2. /\ req'[h] = q /\ \A k \in (Admins \cup Operators) \ {h} : req'[k] = req[k]
      /\ q \in AdminWork \cup OperatorWork
  BY <1>1 DEF Typed
<1>3. \A a \in Admins : req'[a] \in AdminWork
  BY <1>1, <1>2 DEF Typed
<1>4. \A o \in Operators : req'[o] \in OperatorWork
  BY <1>1, <1>2 DEF Typed
<1>5. Typed'
  <2>1. req' \in [Admins \cup Operators -> AdminWork \cup OperatorWork]
    BY <1>1, <1>2 DEF Typed
  <2>2. rules' \in [Rules -> RuleType] /\ \A u \in Rules : Stored(u)' \/ rules'[u] = NoRule
    BY <1>1 DEF Typed, Stored
  <2> QED
    BY <1>3, <1>4, <2>1, <2>2 DEF Typed
<1>7. ASSUME NEW a \in Admins PROVE Known(req[a])' /\ Compared(req[a])'
  <2>1. Known(req'[a]) /\ Compared(req'[a])
    BY <1>2 DEF Inv
  <2> QED
    BY <2>1 DEF Known, Compared, Active, Stored
<1>8. ASSUME NEW o \in Operators PROVE Follows(req[o].row)'
  <2>1. Follows(req'[o].row)
    BY <1>2 DEF Inv
  <2> QED
    BY <2>1 DEF Follows
<1>9. \A i \in Items : Follows(rows[i])'
  BY DEF Follows
<1>10. Unambiguous'
  BY DEF Inv, Unambiguous, Active, Excused
<1> QED
  BY <1>5, <1>7, <1>8, <1>9, <1>10 DEF Inv

\* A handler that has nothing to do.
LEMMA IdleStep ==
  ASSUME Inv, NEW a \in Admins, req' = [req EXCEPT ![a] = Idle],
         UNCHANGED <<rules, rows, raced>>, edits' \in Nat
  PROVE  Inv'
<1>1. a \notin Operators
  BY TaxRulesAssumption
<1>2. Idle \in AdminWork /\ Known(Idle) /\ Compared(Idle)
  BY InitialTypes DEF Known, Compared
<1>3. rows' \in [Items -> RowType] /\ \A i \in Items : Follows(rows'[i])
  BY DEF Inv, Typed
<1> QED
  BY <1>1, <1>2, <1>3, HandlerStep

\* A rule is compared with the others and waits for its commit, or is refused.
LEMMA ProceedStep ==
  ASSUME Inv, NEW a \in Admins, NEW u \in Rules, NEW r \in RuleType, Proceed(a, u, r),
         req[a].view = rules[u] \/ u \in req[a].missed,
         req[a].view.revision > 0 => Stored(u),
         r.revision > 0, r.revision >= req[a].view.revision,
         r.revision = req[a].view.revision => r.config = req[a].view.config,
         UNCHANGED <<rules, rows, raced>>, edits' \in Nat
  PROVE  Inv'
<1>1. CASE Conflicts(u, r) # {}
  BY <1>1, IdleStep DEF Proceed
<1>2. CASE Conflicts(u, r) = {}
  <2> DEFINE q == [req[a] EXCEPT !.phase = "checked", !.rule = u, !.new = r]
  <2>1. req[a] \in AdminWork /\ a \notin Operators
    BY TaxRulesAssumption DEF Inv, Typed
  <2>2. /\ q \in AdminWork /\ q.phase = "checked" /\ q.rule = u /\ q.new = r
        /\ q.view = req[a].view /\ q.missed = req[a].missed
    BY <2>1 DEF AdminWork
  <2>3. req' = [req EXCEPT ![a] = q]
    BY <1>2 DEF Proceed
  <2> HIDE DEF q
  <2>4. Known(q)
    BY <2>2 DEF Known
  <2>5. \A w \in Active \ {u} : ~(r.active /\ Ambiguous(r.scope, rules[w].scope))
    BY <1>2 DEF Conflicts
  <2>6. Compared(q)
    BY <2>2, <2>5 DEF Compared
  <2>7. rows' \in [Items -> RowType] /\ \A i \in Items : Follows(rows'[i])
    BY DEF Inv, Typed
  <2> QED
    BY <2>1, <2>2, <2>3, <2>4, <2>6, <2>7, HandlerStep
<1> QED
  BY <1>1, <1>2

LEMMA CreateStep ==
  ASSUME Inv, NEW a \in Admins, NEW u \in Rules, Create(a, u)
  PROVE  Inv'
<1>1. PICK scope \in Scopes, active \in BOOLEAN :
        Proceed(a, u, [scope |-> scope, config |-> edits', revision |-> 1, active |-> active])
  BY DEF Create
<1> DEFINE r == [scope |-> scope, config |-> edits', revision |-> 1, active |-> active]
<1>2. /\ req[a].phase = "idle" /\ ~Stored(u) /\ edits' = edits + 1
      /\ UNCHANGED <<rules, rows, raced>>
  BY DEF Create
<1>3. edits' \in Nat /\ rules[u] = NoRule
  BY <1>2 DEF Inv, Typed
<1>4. r \in RuleType /\ r.revision = 1 /\ Proceed(a, u, r)
  BY <1>1, <1>3 DEF RuleType
<1> HIDE DEF r
<1>5. req[a].view = NoRule
  BY <1>2 DEF Inv, Known, Idle
<1>6. NoRule.revision = 0
  BY InitialTypes
<1>7. /\ r.revision > 0 /\ r.revision >= req[a].view.revision
      /\ r.revision # req[a].view.revision /\ ~(req[a].view.revision > 0)
  BY <1>4, <1>5, <1>6
<1> QED
  BY <1>2, <1>3, <1>4, <1>5, <1>7, ProceedStep

LEMMA LoadStep ==
  ASSUME Inv, NEW a \in Admins, NEW u \in Rules, Load(a, u)
  PROVE  Inv'
<1> DEFINE q == [Idle EXCEPT !.phase = "loaded", !.rule = u, !.view = rules[u]]
<1>1. /\ req' = [req EXCEPT ![a] = q] /\ Stored(u)
      /\ UNCHANGED <<rules, rows, edits, raced>>
  BY DEF Load
<1>2. rules[u] \in RuleType /\ a \notin Operators
  BY TaxRulesAssumption DEF Inv, Typed
<1>3. q \in AdminWork /\ q.phase = "loaded" /\ q.rule = u /\ q.view = rules[u]
  BY <1>2, InitialTypes DEF AdminWork
<1> HIDE DEF q
<1>4. Known(q) /\ Compared(q)
  BY <1>1, <1>3 DEF Known, Compared, Stored
<1>5. rows' \in [Items -> RowType] /\ (\A i \in Items : Follows(rows'[i])) /\ edits' \in Nat
  BY <1>1 DEF Inv, Typed
<1> QED
  BY <1>1, <1>2, <1>3, <1>4, <1>5, HandlerStep

\* What a revision and an activation make of a rule.
LEMMA RevisedType ==
  ASSUME NEW r \in RuleType, NEW scope \in Scopes, NEW config \in Nat
  PROVE  /\ Revised(r, scope, config) \in RuleType
         /\ Revised(r, scope, config).revision = r.revision + 1 /\ r.revision \in Nat
<1> DEFINE n == r.revision + 1
<1>1. r.revision \in Nat
  BY DEF RuleType
<1>2. n \in Nat
  BY <1>1
<1>3. Revised(r, scope, config) = [r EXCEPT !.scope = scope, !.config = config, !.revision = n]
  BY DEF Revised
<1> HIDE DEF n
<1>4. Revised(r, scope, config) \in RuleType /\ Revised(r, scope, config).revision = n
  BY <1>2, <1>3 DEF RuleType
<1> QED
  BY <1>1, <1>4 DEF n

LEMMA SwitchedType ==
  ASSUME NEW r \in RuleType, NEW active \in BOOLEAN
  PROVE  /\ [r EXCEPT !.active = active] \in RuleType
         /\ [r EXCEPT !.active = active].revision = r.revision /\ r.revision \in Nat
         /\ [r EXCEPT !.active = active].config = r.config
         /\ [r EXCEPT !.active = active].active = active
BY DEF RuleType

LEMMA UpdateStep ==
  ASSUME Inv, NEW a \in Admins, Update(a)
  PROVE  Inv'
<1> DEFINE r == req[a].view
           u == req[a].rule
<1>1. req[a].phase = "loaded" /\ UNCHANGED <<rules, rows, raced>>
  BY DEF Update
<1>2. r \in RuleType
  BY DEF Inv, Typed, AdminWork
<1>3. /\ u \in Rules /\ (r = rules[u] \/ u \in req[a].missed)
      /\ r.revision > 0 /\ (r.revision > 0 => Stored(u))
  BY <1>1 DEF Inv, Known
<1>4. ASSUME NEW scope \in Scopes, edits' = edits + 1, Proceed(a, u, Revised(r, scope, edits'))
      PROVE  Inv'
  <2>1. edits' \in Nat
    BY <1>4 DEF Inv, Typed
  <2> DEFINE new == Revised(r, scope, edits')
  <2>2. /\ new \in RuleType /\ new.revision > 0 /\ new.revision >= r.revision
        /\ new.revision # r.revision
    <3>1. new \in RuleType /\ new.revision = r.revision + 1 /\ r.revision \in Nat
      BY <1>2, <2>1, RevisedType
    <3> QED
      BY <3>1
  <2>3. Proceed(a, u, new)
    BY <1>4
  <2> HIDE DEF new
  <2> QED
    BY <1>1, <1>3, <2>1, <2>2, <2>3, ProceedStep
<1>5. ASSUME Proceed(a, u, [r EXCEPT !.active = TRUE]), UNCHANGED edits
      PROVE  Inv'
  <2> DEFINE new == [r EXCEPT !.active = TRUE]
  <2>1. edits' \in Nat
    BY <1>5 DEF Inv, Typed
  <2>2. /\ new \in RuleType /\ new.revision > 0 /\ new.revision >= r.revision
        /\ new.config = r.config
    <3>1. /\ new \in RuleType /\ new.revision = r.revision /\ r.revision \in Nat
          /\ new.config = r.config
      BY <1>2, SwitchedType
    <3> QED
      BY <1>3, <3>1
  <2>3. Proceed(a, u, new)
    BY <1>5
  <2> HIDE DEF new
  <2> QED
    BY <1>1, <1>3, <2>1, <2>2, <2>3, ProceedStep
<1> QED
  BY <1>4, <1>5 DEF Update

LEMMA DeactivateStep ==
  ASSUME Inv, NEW a \in Admins, Deactivate(a)
  PROVE  Inv'
<1> DEFINE r == req[a].view
           new == [r EXCEPT !.active = FALSE]
           q == [req[a] EXCEPT !.phase = "checked", !.new = new]
<1>1. /\ req[a].phase = "loaded" /\ req' = [req EXCEPT ![a] = q]
      /\ UNCHANGED <<rules, rows, edits, raced>>
  <2>1. req' = [req EXCEPT ![a].phase = "checked", ![a].new = [req[a].view EXCEPT !.active = FALSE]]
    BY DEF Deactivate
  <2> QED
    BY <2>1 DEF Deactivate
<1>2. req[a] \in AdminWork /\ r \in RuleType /\ a \notin Operators /\ Known(req[a])
  BY TaxRulesAssumption DEF Inv, Typed, AdminWork
<1>3. /\ new \in RuleType /\ new.active = FALSE /\ new.revision = r.revision
      /\ new.config = r.config /\ r.revision \in Nat
  BY <1>2, SwitchedType
<1> HIDE DEF new
<1>4. /\ q \in AdminWork /\ q.phase = "checked" /\ q.rule = req[a].rule /\ q.new = new
      /\ q.view = r /\ q.missed = req[a].missed
  BY <1>2, <1>3 DEF AdminWork
<1> HIDE DEF q
<1>5. Known(q)
  BY <1>1, <1>2, <1>4 DEF Known
<1>6. Compared(q)
  BY <1>1, <1>2, <1>3, <1>4 DEF Known, Compared
<1>7. rows' \in [Items -> RowType] /\ (\A i \in Items : Follows(rows'[i])) /\ edits' \in Nat
  BY <1>1 DEF Inv, Typed
<1> QED
  BY <1>1, <1>2, <1>4, <1>5, <1>6, <1>7, HandlerStep

-----------------------------------------------------------------------------
(* The commit of a rule *)

\* The row that is written: typed, and the new contents when nobody else has
\* committed the rule since it was loaded.
LEMMA WrittenRule ==
  ASSUME NEW row \in RuleType, NEW view \in RuleType, NEW new \in RuleType
  PROVE  /\ Written(row, view, new) \in RuleType
         /\ row = view => Written(row, view, new) = new
         /\ Written(row, view, new).revision =
              IF new.revision # view.revision THEN new.revision ELSE row.revision
<1>1. Written(row, view, new) \in RuleType
  BY DEF Written, RuleType
<1>2. row = view => Written(row, view, new) = new
  BY DEF Written, RuleType
<1>3. Written(row, view, new).revision =
        IF new.revision # view.revision THEN new.revision ELSE row.revision
  BY DEF Written, RuleType
<1> QED
  BY <1>1, <1>2, <1>3

LEMMA CommitStep ==
  ASSUME Inv, NEW a \in Admins, Commit(a)
  PROVE  Inv'
<1> DEFINE q == req[a]
           u == req[a].rule
           row == Written(rules[u], q.view, q.new)
<1>1. /\ q.phase = "checked" /\ rules' = [rules EXCEPT ![u] = row]
      /\ raced' = raced \cup {{u, w} : w \in q.missed}
      /\ req' = [h \in DOMAIN req |->
           IF h = a THEN Idle
           ELSE IF h \in Admins /\ Misses(h, u) THEN [req[h] EXCEPT !.missed = @ \cup {u}]
           ELSE req[h]]
      /\ UNCHANGED <<rows, edits>>
  BY DEF Commit
<1>2. Typed /\ Known(q) /\ Compared(q) /\ q \in AdminWork
  BY DEF Inv, Typed
<1>3. /\ u \in Rules /\ (q.view = rules[u] \/ u \in q.missed)
      /\ (q.view.revision > 0 => Stored(u))
  BY <1>1, <1>2 DEF Known
<1>4. /\ q.new.revision > 0 /\ q.new.revision >= q.view.revision
      /\ (q.new.revision = q.view.revision => q.new.config = q.view.config)
      /\ \A w \in Active \ {u} :
           q.new.active /\ Ambiguous(q.new.scope, rules[w].scope) => w \in q.missed
  BY <1>1, <1>2 DEF Compared
<1>5. rules[u] \in RuleType /\ q.view \in RuleType /\ q.new \in RuleType
  BY <1>2, <1>3 DEF Typed, AdminWork
<1>6. /\ row \in RuleType /\ (rules[u] = q.view => row = q.new)
      /\ row.revision = IF q.new.revision # q.view.revision THEN q.new.revision
                        ELSE rules[u].revision
  BY <1>5, WrittenRule
<1>7. row.revision > 0
  BY <1>3, <1>4, <1>6 DEF Stored
<1> HIDE DEF row
<1>8. rules'[u] = row /\ \A w \in Rules \ {u} : rules'[w] = rules[w]
  BY <1>1, <1>2, <1>3 DEF Typed
<1>9. /\ raced \subseteq raced' /\ \A w \in q.missed : {u, w} \in raced'
      /\ u \in q.missed => {u} \in raced'
  <2>1. {u, u} = {u}
    OBVIOUS
  <2> QED
    BY <1>1, <2>1
<1>10. /\ req'[a] = Idle
       /\ \A b \in Admins \ {a} :
            req'[b] = IF Misses(b, u) THEN [req[b] EXCEPT !.missed = @ \cup {u}] ELSE req[b]
       /\ \A o \in Operators : req'[o] = req[o]
  <2>1. DOMAIN req = Admins \cup Operators /\ Admins \cap Operators = {}
    BY <1>2, TaxRulesAssumption DEF Typed
  <2> QED
    BY <1>1, <2>1
<1>11. ASSUME NEW b \in Admins
       PROVE  req'[b] \in AdminWork /\ Known(req[b])' /\ Compared(req[b])'
  <2>1. CASE b = a
    BY <1>10, <2>1, InitialTypes DEF Known, Compared
  <2>2. CASE b # a
    <3>1. req[b] \in AdminWork /\ Known(req[b]) /\ Compared(req[b])
      BY <1>2 DEF Inv, Typed
    <3>2. CASE Misses(b, u)
      <4> DEFINE r == [req[b] EXCEPT !.missed = @ \cup {u}]
      <4>1. /\ r \in AdminWork /\ r.phase = req[b].phase /\ r.rule = req[b].rule
            /\ r.view = req[b].view /\ r.new = req[b].new /\ r.missed = req[b].missed \cup {u}
        BY <1>3, <3>1 DEF AdminWork
      <4>2. req'[b] = r /\ r.phase \in {"loaded", "checked"}
        BY <1>10, <2>2, <3>2, <4>1 DEF Misses
      <4> HIDE DEF r
      <4>3. Known(req[b])'
        <5>1. r.phase # "idle" /\ (r.phase = "loaded" => r.view.revision > 0)
          BY <3>1, <4>1, <4>2 DEF Known
        <5>2. /\ r.rule \in Rules /\ (r.view.revision > 0 => Stored(r.rule))
              /\ r.view = rules[r.rule] \/ r.rule \in r.missed
          BY <3>1, <4>1, <4>2 DEF Known
        <5>3. r.view = rules'[r.rule] \/ r.rule \in r.missed
          BY <1>8, <4>1, <5>2
        <5>4. r.view.revision > 0 => rules'[r.rule].revision > 0
          <6>1. CASE r.rule = u
            BY <1>7, <1>8, <6>1
          <6>2. CASE r.rule # u
            BY <1>8, <5>2, <6>2 DEF Stored
          <6> QED
            BY <6>1, <6>2
        <5> QED
          BY <4>2, <5>1, <5>2, <5>3, <5>4 DEF Known, Stored
      <4>4. Compared(req[b])'
        <5> SUFFICES ASSUME r.phase = "checked"
                     PROVE  /\ r.new.revision > 0 /\ r.new.revision >= r.view.revision
                            /\ r.new.revision = r.view.revision => r.new.config = r.view.config
                            /\ \A w \in Active' \ {r.rule} :
                                 r.new.active /\ Ambiguous(r.new.scope, rules'[w].scope) =>
                                   w \in r.missed
          BY <4>2 DEF Compared
        <5>1. /\ r.new.revision > 0 /\ r.new.revision >= r.view.revision
              /\ r.new.revision = r.view.revision => r.new.config = r.view.config
          BY <3>1, <4>1 DEF Compared
        <5>2. ASSUME NEW w \in Active' \ {r.rule}, r.new.active,
                     Ambiguous(r.new.scope, rules'[w].scope)
              PROVE  w \in r.missed
          <6>1. CASE w = u
            BY <4>1, <6>1
          <6>2. CASE w # u
            <7>1. w \in Active \ {r.rule} /\ rules'[w] = rules[w]
              BY <1>8, <5>2, <6>2 DEF Active
            <7> QED
              BY <3>1, <4>1, <5>2, <7>1 DEF Compared
          <6> QED
            BY <6>1, <6>2
        <5> QED
          BY <5>1, <5>2
      <4> QED
        BY <4>1, <4>2, <4>3, <4>4
    <3>3. CASE ~Misses(b, u)
      <4>1. req'[b] = req[b] /\ req[b].phase # "checked"
            /\ (req[b].phase = "loaded" => req[b].rule # u)
        BY <1>10, <2>2, <3>3 DEF Misses
      <4>2. Known(req[b])'
        BY <1>7, <1>8, <3>1, <4>1 DEF Known, Stored
      <4> QED
        BY <3>1, <4>1, <4>2 DEF Compared
    <3> QED
      BY <3>2, <3>3
  <2> QED
    BY <2>1, <2>2
<1>12. ASSUME NEW x \in RowType, Follows(x)
       PROVE  /\ x.rule # None =>
                   \/ {x.rule} \in raced'
                   \/ x.revision < rules'[x.rule].revision
                   \/ x.revision = rules'[x.rule].revision /\ x.config = rules'[x.rule].config
  <2>1. x.rule \in Rules \cup {None} /\ x.revision \in Nat
    BY DEF RowType
  <2>2. CASE x.rule # u
    BY <1>8, <1>9, <1>12, <2>1, <2>2 DEF Follows
  <2>3. CASE x.rule = u /\ u \notin q.missed
    <3>1. rules[u] = q.view /\ rules'[u] = q.new
      BY <1>3, <1>6, <1>8, <2>3
    <3>2. q.view.revision \in Nat /\ q.new.revision \in Nat
      BY <1>5 DEF RuleType
    <3> QED
      BY <1>4, <1>9, <1>12, <2>1, <2>3, <3>1, <3>2 DEF Follows
  <2>4. CASE x.rule = u /\ u \in q.missed
    BY <1>9, <2>4
  <2> QED
    BY <2>2, <2>3, <2>4
<1>13. (\A i \in Items : Follows(rows[i])') /\ \A o \in Operators : Follows(req[o].row)'
  <2>1. \A i \in Items : Follows(rows[i])'
    BY <1>1, <1>2, <1>12 DEF Inv, Typed, Follows
  <2>2. ASSUME NEW o \in Operators PROVE Follows(req[o].row)'
    <3>1. req[o].row \in RowType /\ Follows(req[o].row) /\ req'[o] = req[o]
      BY <1>2, <1>10 DEF Inv, Typed, OperatorWork
    <3> QED
      BY <1>12, <3>1 DEF Follows
  <2> QED
    BY <2>1, <2>2
<1>14. Unambiguous'
  <2> SUFFICES ASSUME NEW v \in Active', NEW w \in Active', v # w,
                      Ambiguous(rules'[v].scope, rules'[w].scope)
               PROVE  Excused(v, w)'
    BY DEF Unambiguous
  <2>1. ASSUME NEW z \in Active', z # u,
               Ambiguous(rules'[u].scope, rules'[z].scope), u \in Active'
        PROVE  {{u}, {u, z}} \cap raced' # {}
    <3>1. CASE u \in q.missed
      BY <1>9, <3>1
    <3>2. CASE u \notin q.missed
      <4>1. rules'[u] = q.new /\ q.new.active
        BY <1>3, <1>6, <1>8, <2>1, <3>2 DEF Active
      <4>2. z \in Active \ {u} /\ rules'[z] = rules[z]
        BY <1>8, <2>1 DEF Active
      <4>3. z \in q.missed
        BY <1>4, <2>1, <4>1, <4>2
      <4> QED
        BY <1>9, <4>3
    <3> QED
      BY <3>1, <3>2
  <2>2. CASE v = u
    BY <2>1, <2>2 DEF Excused
  <2>3. CASE w = u
    <3>1. Ambiguous(rules'[u].scope, rules'[v].scope)
      BY <2>3, AmbiguousIsSymmetric
    <3>2. {{u}, {u, v}} \cap raced' # {} /\ {u, v} = {v, u}
      BY <2>1, <2>3, <3>1
    <3> QED
      BY <2>3, <3>2 DEF Excused
  <2>4. CASE v # u /\ w # u
    <3>1. v \in Active /\ w \in Active /\ rules'[v] = rules[v] /\ rules'[w] = rules[w]
      BY <1>8, <2>4 DEF Active
    <3>2. Excused(v, w)
      BY <3>1 DEF Inv, Unambiguous
    <3> QED
      BY <1>9, <3>2 DEF Excused
  <2> QED
    BY <2>2, <2>3, <2>4
<1>15. Typed'
  <2>1. rules' \in [Rules -> RuleType]
    BY <1>1, <1>2, <1>6 DEF Typed
  <2>2. \A w \in Rules : Stored(w)' \/ rules'[w] = NoRule
    BY <1>2, <1>7, <1>8 DEF Typed, Stored
  <2>3. \A o \in Operators : req'[o] \in OperatorWork
    BY <1>2, <1>10 DEF Typed
  <2>4. req' \in [Admins \cup Operators -> AdminWork \cup OperatorWork]
    <3>1. DOMAIN req = Admins \cup Operators
      BY <1>2 DEF Typed
    <3>2. \A h \in Admins \cup Operators : req'[h] \in AdminWork \cup OperatorWork
      BY <1>11, <2>3
    <3> QED
      BY <1>1, <3>1, <3>2
  <2> QED
    BY <1>1, <1>2, <1>11, <2>1, <2>2, <2>3, <2>4 DEF Typed
<1> QED
  BY <1>11, <1>13, <1>14, <1>15 DEF Inv

-----------------------------------------------------------------------------
(* Operators *)

\* A classification takes the revision and configuration its rule has.
LEMMA ClassifiedRow ==
  ASSUME Typed, NEW target \in Targets, NEW chosen \in SUBSET Rules
  PROVE  Classified(target, chosen) \in RowType /\ Follows(Classified(target, chosen))
<1> DEFINE row == [NoRow EXCEPT !.source = "manual", !.target = target]
           u == CHOOSE w \in chosen : TRUE
<1>1. row \in RowType /\ row.rule = None /\ row.source = "manual"
  BY DEF NoRow, RowType, Sources, None
<1>2. CASE chosen = {}
  BY <1>1, <1>2 DEF Classified, Follows
<1>3. CASE chosen # {}
  <2> DEFINE new == [row EXCEPT !.rule = u, !.revision = rules[u].revision, !.config = rules[u].config]
  <2>1. u \in Rules
    BY <1>3
  <2>2. rules[u] \in RuleType
    BY <2>1 DEF Typed
  <2>3. rules[u].revision \in Nat /\ rules[u].config \in Nat
    BY <2>2 DEF RuleType
  <2>4. Classified(target, chosen) = new
    BY <1>3 DEF Classified
  <2> HIDE DEF row, u
  <2>5. /\ new \in RowType /\ new.rule = u /\ new.revision = rules[u].revision
        /\ new.config = rules[u].config /\ new.source = "manual"
    BY <1>1, <2>1, <2>3 DEF RowType
  <2> QED
    BY <2>4, <2>5 DEF Follows
<1> QED
  BY <1>2, <1>3

\* An operator moves, and the rows stay.
LEMMA OperatorStep ==
  ASSUME Inv, NEW o \in Operators, NEW q \in OperatorWork, Follows(q.row),
         req' = [req EXCEPT ![o] = q],
         rows' \in [Items -> RowType], \A i \in Items : Follows(rows'[i]),
         UNCHANGED <<rules, raced, edits>>
  PROVE  Inv'
<1>1. o \notin Admins /\ edits' \in Nat
  BY TaxRulesAssumption DEF Inv, Typed
<1> QED
  BY <1>1, HandlerStep

LEMMA ClassifyStep ==
  ASSUME Inv, NEW o \in Operators, NEW i \in Items, NEW target \in Targets, NEW named,
         Classify(o, i, target, named)
  PROVE  Inv'
<1> DEFINE best == Best(Candidates(named), Query(i, target))
           row == Classified(target, best)
           q == [item |-> i, found |-> rows[i].source, row |-> row]
<1>1. req' = [req EXCEPT ![o] = q] /\ UNCHANGED <<rules, rows, edits, raced>>
  BY DEF Classify
<1>2. best \in SUBSET Rules
  BY DEF Best, Candidates, Active
<1>3. row \in RowType /\ Follows(row)
  BY <1>2, ClassifiedRow DEF Inv
<1> HIDE DEF row
<1>4. rows[i].source \in Sources
  BY DEF Inv, Typed, RowType
<1>5. q \in OperatorWork /\ q.row = row
  BY <1>3, <1>4 DEF OperatorWork
<1> HIDE DEF q
<1>6. rows' \in [Items -> RowType] /\ \A j \in Items : Follows(rows'[j])
  BY <1>1 DEF Inv, Typed
<1> QED
  BY <1>1, <1>3, <1>5, <1>6, OperatorStep

LEMMA CommitRowStep ==
  ASSUME Inv, NEW o \in Operators, CommitRow(o)
  PROVE  Inv'
<1>1. /\ rows' = [rows EXCEPT ![req[o].item] = req[o].row]
      /\ req' = [req EXCEPT ![o] = NoWork] /\ UNCHANGED <<rules, edits, raced>>
  BY DEF CommitRow
<1>2. Typed /\ req[o].row \in RowType /\ Follows(req[o].row)
  BY DEF Inv, Typed, OperatorWork
<1>3. rows' \in [Items -> RowType] /\ \A i \in Items : Follows(rows'[i])
  BY <1>1, <1>2 DEF Inv, Typed
<1>4. NoWork \in OperatorWork /\ Follows(NoWork.row)
  BY InitialTypes DEF Follows
<1> QED
  BY <1>1, <1>3, <1>4, OperatorStep

LEMMA RollbackStep ==
  ASSUME Inv, NEW h \in Admins \cup Operators, Rollback(h)
  PROVE  Inv'
<1>1. UNCHANGED <<rules, rows, edits, raced>>
  BY DEF Rollback
<1>2. rows' \in [Items -> RowType] /\ (\A i \in Items : Follows(rows'[i])) /\ edits' \in Nat
  BY <1>1 DEF Inv, Typed
<1>3. CASE h \in Admins
  <2>1. req' = [req EXCEPT ![h] = Idle]
    BY <1>3 DEF Rollback
  <2> QED
    BY <1>1, <1>2, <1>3, <2>1, IdleStep
<1>4. CASE h \notin Admins
  <2>1. req' = [req EXCEPT ![h] = NoWork]
    BY <1>4 DEF Rollback
  <2>2. NoWork \in OperatorWork /\ Follows(NoWork.row)
    BY InitialTypes DEF Follows
  <2> QED
    BY <1>1, <1>2, <1>4, <2>1, <2>2, OperatorStep
<1> QED
  BY <1>3, <1>4

-----------------------------------------------------------------------------

LEMMA NextInv == Inv /\ [Next]_vars => Inv'
<1> SUFFICES ASSUME Inv, [Next]_vars PROVE Inv'
  OBVIOUS
<1>1. CASE UNCHANGED vars
  <2>1. UNCHANGED <<rules, rows, req, edits, raced>>
    BY <1>1 DEF vars
  <2>2. Typed'
    BY <2>1 DEF Inv, Typed, Stored
  <2>3. \A a \in Admins : Known(req[a])' /\ Compared(req[a])'
    BY <2>1 DEF Inv, Known, Compared, Active, Stored
  <2>4. (\A i \in Items : Follows(rows[i])') /\ \A o \in Operators : Follows(req[o].row)'
    BY <2>1 DEF Inv, Follows
  <2>5. Unambiguous'
    BY <2>1 DEF Inv, Unambiguous, Active, Excused
  <2> QED
    BY <2>2, <2>3, <2>4, <2>5 DEF Inv
<1>2. ASSUME NEW a \in Admins,
             \/ \E u \in Rules : Create(a, u) \/ Load(a, u)
             \/ Update(a) \/ Deactivate(a) \/ Commit(a)
      PROVE  Inv'
  BY <1>2, CreateStep, LoadStep, UpdateStep, DeactivateStep, CommitStep
<1>3. ASSUME NEW o \in Operators,
             \/ \E i \in Items, target \in Targets, named \in Rules \cup {None} :
                  Classify(o, i, target, named)
             \/ CommitRow(o)
      PROVE  Inv'
  BY <1>3, ClassifyStep, CommitRowStep
<1>4. ASSUME NEW h \in Admins \cup Operators, Rollback(h)
      PROVE  Inv'
  BY <1>4, RollbackStep
<1> QED
  BY <1>1, <1>2, <1>3, <1>4 DEF Next

LEMMA AlwaysInv == Spec => []Inv
BY InitInv, NextInv, PTL DEF Spec

\* Two best rules of an item with a date are ambiguous without the item.
LEMMA BestRulesAreAmbiguous ==
  ASSUME Typed, NEW i \in Items, NEW target \in Targets, Facts[i].date # None,
         NEW u \in Best(Active, Query(i, target)), NEW w \in Best(Active, Query(i, target))
  PROVE  u \in Active /\ w \in Active /\ Ambiguous(rules[u].scope, rules[w].scope)
<1> DEFINE q == Query(i, target)
           s == rules[u].scope
           t == rules[w].scope
<1>1. Dated(q)
  BY ScopesAssumption DEF Query, Dated, None
<1> HIDE DEF q
<1>2. /\ u \in Active /\ w \in Active /\ Applies(s, q) /\ Applies(t, q)
      /\ ~Outranks(Score(s, q.ncm), Score(t, q.ncm))
      /\ ~Outranks(Score(t, q.ncm), Score(s, q.ncm))
  BY DEF Best, q
<1>3. s \in Scopes \cup {NoScope} /\ t \in Scopes \cup {NoScope}
  BY <1>2 DEF Typed, Active, RuleType
<1> QED
  BY <1>1, <1>2, <1>3, TiedRulesAreAmbiguous

\* An item shown as classified carries the present configuration of its rule, whatever
\* administrators change and operators classify at the same time, unless two updates
\* of that rule overlapped.
THEOREM ClassificationsAreCurrent == Spec => []ClassifiedIsCurrent
<1>1. Inv => ClassifiedIsCurrent
  <2> SUFFICES ASSUME Inv, NEW i \in Items, Status(rows[i]) = "classified",
                      rows[i].rule # None
               PROVE  rows[i].config = rules[rows[i].rule].config \/ {rows[i].rule} \in raced
    BY DEF ClassifiedIsCurrent
  <2> DEFINE x == rows[i]
  <2>1. x \in RowType /\ x.rule \in Rules /\ Follows(x)
    BY DEF Inv, Typed, RowType
  <2>2. x.revision = rules[x.rule].revision
    BY <2>1 DEF Status, Follows
  <2>3. rules[x.rule].revision \in Nat
    BY <2>1 DEF Inv, Typed, RuleType
  <2> QED
    BY <2>1, <2>2, <2>3 DEF Follows
<1> QED
  BY <1>1, AlwaysInv, PTL

\* A tie that blocks the classification of an item comes only from administrators
\* who overlapped: the check before each commit is complete.
THEOREM TiesComeFromRaces == Spec => []TiesAreRaces
<1>1. Inv => TiesAreRaces
  BY BestRulesAreAmbiguous DEF Inv, Unambiguous, TiesAreRaces
<1> QED
  BY <1>1, AlwaysInv, PTL

\* The diagnostics, which see no item, name the rules of every tie.
THEOREM TiesAreShown == Spec => []TiesAreDiagnosed
<1>1. Inv => TiesAreDiagnosed
  BY BestRulesAreAmbiguous DEF Inv, TiesAreDiagnosed
<1> QED
  BY <1>1, AlwaysInv, PTL

=============================================================================
