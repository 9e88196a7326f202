---------------------- MODULE PortalCredentials_proofs ----------------------
(***************************************************************************)
(* Proofs about PortalCredentials for any handlers and bounds.             *)
(*                                                                         *)
(* The argument: a secret belongs to the request that stored it until its  *)
(* commit, then to the row, and, once replaced, to the request that        *)
(* replaced it (Owned, Distinct).  The row lock makes a rotation replace   *)
(* the very reference it read.  A request only deletes what it owns, so it *)
(* never takes a secret from a row, and every secret has an owner          *)
(* (Covered) until a fault takes the owner away.  Only references that     *)
(* create_provider_connection wrote may be in two rows (RefsDiffer), and   *)
(* those, with that of a lost answer, are the ones nobody guards (Exempt). *)
(***************************************************************************)
EXTENDS PortalCredentials, SequenceTheorems, TLAPS

Phases == {"idle", "stored", "flushed", "committed", "testing", "read", "found"}
Rows == [ref : Int, status : Statuses, checked : BOOLEAN, importer : BOOLEAN]
Requests == [phase : Phases, key : Int, row : Nat, previous : Int, status : Statuses,
             importer : BOOLEAN]

\* References that stand for no secret of the vault, or for one that nobody guards.
Exempt == {None, Env} \cup unguarded

Typed ==
  /\ store \in {"local", "managed"}
  /\ stored \in Nat /\ vault \subseteq 1..stored /\ unguarded \subseteq 1..stored
  /\ rows \in Seq(Rows) /\ \A r \in 1..Len(rows) : rows[r].ref <= stored
  /\ newest \in 0..Len(rows)
  /\ holder \in [Handlers -> Nat]
  /\ req \in [Handlers -> Requests]
  /\ typed \in Nat /\ bypassed \in BOOLEAN

\* Handler h has stored a secret and not committed it.
HoldsKey(h) == req[h].phase \in {"stored", "flushed"}

\* What handler h owns: its secret until the commit, the lock of its row and so
\* the reference in it, and what it replaced.
Owned(h) ==
  LET q == req[h] IN
  /\ HoldsKey(h) => q.key \in vault /\ q.key \notin Referred /\ q.key \notin unguarded
  /\ q.phase = "flushed" =>
       /\ q.row \in 0..Len(rows) /\ holder[h] = q.row
       /\ q.previous = IF q.row = 0 THEN None ELSE rows[q.row].ref
  /\ q.phase = "committed" => q.previous <= stored /\ (q.previous \notin Exempt => q.previous \notin Referred)
  /\ q.phase = "testing" =>
       q.row \in 1..Len(rows) /\ holder[h] = q.row /\ q.key = rows[q.row].ref
  /\ q.phase = "read" => q.row \in 0..Len(rows)

\* Nobody else owns it.
Distinct(h, k) ==
  h # k =>
    /\ HoldsKey(h) /\ HoldsKey(k) => req[h].key # req[k].key
    /\ HoldsKey(h) /\ req[k].phase = "committed" => req[k].previous # req[h].key
    /\ holder[h] # 0 => holder[k] # holder[h]

\* Two rows have different secrets.
RefsDiffer ==
  \A r, s \in 1..Len(rows) : r # s /\ rows[r].ref \notin Exempt => rows[s].ref # rows[r].ref

\* Every secret is a row's, or waits for its commit or its clean-up.
Covered ==
  store = "local" /\ ~faulty /\ ~bypassed =>
    \A k \in vault :
      \/ k \in Referred
      \/ \E h \in Handlers : HoldsKey(h) /\ req[h].key = k
      \/ \E h \in Handlers : req[h].phase = "committed" /\ req[h].previous = k

Inv ==
  /\ Typed
  /\ \A h \in Handlers : Owned(h)
  /\ \A h, k \in Handlers : Distinct(h, k)
  /\ RefsDiffer /\ Covered
  /\ SecretsAreThere /\ ConnectedIsTested

-----------------------------------------------------------------------------

\* The idle request and a new row are typed.
LEMMA IdleType ==
  /\ Idle \in Requests /\ Idle.phase = "idle"
  /\ \A ref \in Int, s \in Statuses, i \in BOOLEAN :
       Row(ref, s, i) \in Rows /\ Row(ref, s, i).ref = ref /\ Row(ref, s, i).checked = FALSE
BY DEF Idle, Requests, Phases, Statuses, None, Row, Rows

LEMMA NoneIsInt == None \in Int
BY DEF None

\* The fields of a request, and what replacing one preserves.
LEMMA RequestFields ==
  ASSUME NEW q \in Requests
  PROVE  /\ q.phase \in Phases /\ q.key \in Int /\ q.row \in Nat /\ q.previous \in Int
         /\ q.status \in Statuses
         /\ \A p \in Phases : /\ [q EXCEPT !.phase = p] \in Requests
                              /\ [q EXCEPT !.phase = p].phase = p
                              /\ [q EXCEPT !.phase = p].key = q.key
                              /\ [q EXCEPT !.phase = p].row = q.row
                              /\ [q EXCEPT !.phase = p].previous = q.previous
BY DEF Requests

\* The rows are a sequence of typed rows, and Referred is what they hold.
LEMMA RowTypes ==
  ASSUME Typed
  PROVE  /\ DOMAIN rows = 1..Len(rows) /\ Len(rows) \in Nat
         /\ \A r \in 1..Len(rows) : rows[r] \in Rows /\ rows[r].ref \in Int
         /\ \A k : k \in Referred <=> \E r \in 1..Len(rows) : k = rows[r].ref
         /\ \A k \in Referred : k \in Int /\ k <= stored
<1>1. DOMAIN rows = 1..Len(rows) /\ Len(rows) \in Nat
  BY DEF Typed
<1>2. \A r \in 1..Len(rows) : rows[r] \in Rows
  BY DEF Typed
<1>3. \A r \in 1..Len(rows) : rows[r].ref \in Int
  BY <1>2 DEF Rows
<1>4. \A k : k \in Referred <=> \E r \in 1..Len(rows) : k = rows[r].ref
  BY <1>1 DEF Referred
<1> QED
  BY <1>1, <1>2, <1>3, <1>4 DEF Typed

\* There are no secrets and no rows.
LEMMA InitInv == Init => Inv
<1> SUFFICES ASSUME Init PROVE Inv
  OBVIOUS
<1>1. Typed
  <2>1. rows \in Seq(Rows) /\ Len(rows) = 0
    BY EmptySeq DEF Init
  <2>2. newest \in 0..Len(rows) /\ \A r \in 1..Len(rows) : rows[r].ref <= stored
    BY <2>1 DEF Init
  <2>3. stored \in Nat /\ vault \subseteq 1..stored /\ unguarded \subseteq 1..stored
    BY DEF Init
  <2>4. holder \in [Handlers -> Nat] /\ req \in [Handlers -> Requests]
    BY IdleType DEF Init
  <2> QED
    BY <2>1, <2>2, <2>3, <2>4 DEF Init, Typed
<1>2. \A h \in Handlers : req[h].phase = "idle" /\ holder[h] = 0
  BY IdleType DEF Init
<1>3. (\A h \in Handlers : Owned(h)) /\ \A h, k \in Handlers : Distinct(h, k)
  BY <1>2 DEF Owned, Distinct, HoldsKey
<1>4. RefsDiffer /\ Covered /\ SecretsAreThere /\ ConnectedIsTested
  BY DEF Init, RefsDiffer, Covered, SecretsAreThere, ConnectedIsTested, Referred
<1> QED
  BY <1>1, <1>3, <1>4 DEF Inv

\* A step of handler h that leaves the rows alone keeps the invariant when h
\* owns what it says, deletes nothing another waits for, and forgets nothing.
LEMMA AsideStep ==
  ASSUME Inv, NEW h \in Handlers, NEW q \in Requests, req' = [req EXCEPT ![h] = q],
         NEW l \in Nat, holder' = [holder EXCEPT ![h] = l],
         UNCHANGED <<store, typed, rows, newest, passed, bypassed, unguarded>>,
         stored' \in Nat, stored <= stored', vault' \subseteq 1..stored',
         \A k \in Handlers \ {h} : HoldsKey(k) => req[k].key \in vault',
         Owned(h)',
         \A k \in Handlers \ {h} : Distinct(h, k)' /\ Distinct(k, h)',
         SecretsAreThere', Covered'
  PROVE  Inv'
<1>1. Typed
  BY DEF Inv
<1>2. /\ req'[h] = q /\ holder'[h] = l
      /\ \A k \in Handlers \ {h} : req'[k] = req[k] /\ holder'[k] = holder[k]
  BY <1>1 DEF Typed
<1>3. Typed'
  <2>1. \A r \in 1..Len(rows) : rows[r].ref <= stored'
    BY <1>1, RowTypes DEF Typed
  <2> QED
    BY <1>1, <2>1 DEF Typed
<1>4. ASSUME NEW k \in Handlers PROVE Owned(k)'
  <2>1. CASE k = h
    BY <2>1
  <2>2. CASE k # h
    <3>1. Owned(k) /\ req'[k] = req[k] /\ holder'[k] = holder[k] /\ req[k] \in Requests
      BY <1>1, <1>2, <2>2 DEF Inv, Typed
    <3>2. req[k].previous \in Int /\ req[k].previous <= stored => req[k].previous <= stored'
      BY <1>1, <3>1 DEF Typed, Requests
    <3>3. req[k].previous \in Int
      BY <3>1 DEF Requests
    <3> QED
      BY <2>2, <3>1, <3>2, <3>3 DEF Owned, HoldsKey, Referred, Exempt
  <2> QED
    BY <2>1, <2>2
<1>5. ASSUME NEW j \in Handlers, NEW k \in Handlers PROVE Distinct(j, k)'
  <2>1. CASE j # h /\ k # h
    BY <1>2, <2>1 DEF Inv, Distinct, HoldsKey
  <2>2. CASE j = h /\ k = h
    BY <2>2 DEF Distinct
  <2> QED
    BY <2>1, <2>2
<1>6. RefsDiffer' /\ ConnectedIsTested'
  BY DEF Inv, RefsDiffer, ConnectedIsTested, Exempt
<1> QED
  BY <1>3, <1>4, <1>5, <1>6 DEF Inv

-----------------------------------------------------------------------------
(* Steps that leave the rows alone *)

\* What a step that moves only handler h does to what the others wait for.
LEMMA CoveredByOthers ==
  ASSUME Inv, NEW h \in Handlers, UNCHANGED <<store, rows, bypassed>>, faulty => faulty',
         vault' \subseteq vault,
         \A k \in Handlers \ {h} : req'[k] = req[k],
         HoldsKey(h) => \/ req[h].key \notin vault'
                        \/ HoldsKey(h)' /\ req'[h].key = req[h].key
                        \/ faulty',
         req[h].phase = "committed" => req[h].previous \notin vault' \/ faulty'
                                         \/ store # "local"
  PROVE  Covered'
<1> SUFFICES ASSUME store = "local", ~faulty', ~bypassed, NEW k \in vault'
             PROVE  \/ k \in Referred
                    \/ \E j \in Handlers : HoldsKey(j)' /\ req'[j].key = k
                    \/ \E j \in Handlers : req'[j].phase = "committed" /\ req'[j].previous = k
  BY DEF Covered, Referred
<1>1. k \in vault /\ ~faulty
  OBVIOUS
<1>2. CASE \E j \in Handlers : HoldsKey(j) /\ req[j].key = k
  <2>1. PICK j \in Handlers : HoldsKey(j) /\ req[j].key = k
    BY <1>2
  <2>2. HoldsKey(j)' /\ req'[j].key = k
    BY <2>1 DEF HoldsKey
  <2> QED
    BY <2>2
<1>3. CASE \E j \in Handlers : req[j].phase = "committed" /\ req[j].previous = k
  <2>1. PICK j \in Handlers : req[j].phase = "committed" /\ req[j].previous = k
    BY <1>3
  <2>2. j # h
    BY <2>1
  <2> QED
    BY <2>1, <2>2
<1> QED
  BY <1>1, <1>2, <1>3 DEF Inv, Covered

\* configure stores a secret that nobody has seen.
LEMMA StoreStep ==
  ASSUME Inv, NEW h \in Handlers, Store(h)
  PROVE  Inv'
<1> DEFINE n == stored + 1
           q == [Idle EXCEPT !.phase = "stored", !.key = n]
<1>1. /\ Typed /\ stored' = n /\ vault' = vault \cup {n} /\ req' = [req EXCEPT ![h] = q]
      /\ req[h].phase = "idle" /\ stored \in Nat /\ vault \subseteq 1..stored
      /\ unguarded \subseteq 1..stored
      /\ UNCHANGED <<store, typed, rows, newest, holder, passed, faulty, bypassed, unguarded>>
  BY DEF Store, Become, Inv, Typed
<1>2. n \in Nat /\ n > stored /\ n # 0
  BY <1>1
<1>3. q \in Requests /\ q.phase = "stored" /\ q.key = n
  <2>1. n \in Int
    BY <1>2
  <2> QED
    BY <2>1, IdleType DEF Requests, Phases
<1> HIDE DEF q
<1>4. req'[h] = q /\ \A k \in Handlers \ {h} : req'[k] = req[k]
  BY <1>1 DEF Typed
<1>5. holder[h] \in Nat /\ holder' = [holder EXCEPT ![h] = holder[h]]
  BY <1>1 DEF Typed
<1>6. Referred' = Referred /\ n \notin Referred /\ n \notin unguarded
  BY <1>1, <1>2, RowTypes DEF Referred
<1>7. Owned(h)'
  BY <1>1, <1>3, <1>4, <1>6 DEF Owned, HoldsKey
<1>8. ASSUME NEW k \in Handlers, k # h PROVE Distinct(h, k)' /\ Distinct(k, h)'
  <2>1. HoldsKey(k) => req[k].key # n
    BY <1>1, <1>2 DEF Inv, Owned
  <2>2. req[k].phase = "committed" => req[k].previous # n
    BY <1>1, <1>2, RequestFields DEF Inv, Owned, Typed
  <2>3. holder[h] # 0 => holder[k] # holder[h]
    BY <1>8 DEF Inv, Distinct
  <2> QED
    BY <1>1, <1>3, <1>4, <1>8, <2>1, <2>2, <2>3 DEF Distinct, HoldsKey
<1>9. SecretsAreThere'
  BY <1>1, <1>6 DEF Inv, SecretsAreThere
<1>10. Covered'
  <2> SUFFICES ASSUME store = "local", ~faulty, ~bypassed, NEW k \in vault \cup {n}
               PROVE  \/ k \in Referred
                      \/ \E j \in Handlers : HoldsKey(j)' /\ req'[j].key = k
                      \/ \E j \in Handlers : req'[j].phase = "committed" /\ req'[j].previous = k
    BY <1>1, <1>6 DEF Covered
  <2>1. CASE k = n
    BY <1>3, <1>4, <2>1 DEF HoldsKey
  <2>2. CASE k \in vault
    <3>1. ~HoldsKey(h) /\ req[h].phase # "committed"
      BY <1>1 DEF HoldsKey
    <3>2. \A j \in Handlers : HoldsKey(j) => HoldsKey(j)' /\ req'[j] = req[j]
      BY <1>4, <3>1 DEF HoldsKey
    <3>3. \A j \in Handlers : req[j].phase = "committed" => req'[j] = req[j]
      BY <1>4, <3>1
    <3> QED
      BY <2>2, <3>2, <3>3 DEF Inv, Covered
  <2> QED
    BY <2>1, <2>2
<1>11. stored' \in Nat /\ stored <= stored' /\ vault' \subseteq 1..stored'
  BY <1>1, <1>2
<1>12. \A k \in Handlers \ {h} : HoldsKey(k) => req[k].key \in vault'
  BY <1>1 DEF Inv, Owned
<1>13. holder' = [holder EXCEPT ![h] = holder[h]] /\ stored' = n
  BY <1>1, <1>5
<1> QED
  BY <1>1, <1>3, <1>5, <1>7, <1>8, <1>9, <1>10, <1>11, <1>12, <1>13, AsideStep

\* A handler leaves, and takes with it at most the secret it stored or the one it
\* replaced.
LEMMA LeaveStep ==
  ASSUME Inv, NEW h \in Handlers, req' = [req EXCEPT ![h] = Idle],
         NEW l \in {0, holder[h]}, holder' = [holder EXCEPT ![h] = l],
         UNCHANGED <<store, typed, stored, rows, newest, passed, bypassed, unguarded>>,
         faulty => faulty', vault' \subseteq vault,
         \A k \in vault \ vault' :
            \/ HoldsKey(h) /\ k = req[h].key
            \/ req[h].phase = "committed" /\ k = req[h].previous,
         HoldsKey(h) => req[h].key \notin vault' \/ faulty' \/ store # "local",
         req[h].phase = "committed" =>
           req[h].previous \notin vault' \/ faulty' \/ store # "local"
  PROVE  Inv'
<1>1. Typed
  BY DEF Inv
<1>2. req'[h] = Idle /\ \A k \in Handlers \ {h} : req'[k] = req[k]
  BY <1>1 DEF Typed
<1>3. l \in Nat /\ (l # 0 => l = holder[h])
  BY <1>1 DEF Typed
<1>4. holder'[h] = l /\ \A k \in Handlers \ {h} : holder'[k] = holder[k]
  BY <1>1 DEF Typed
<1>5. Owned(h)'
  BY <1>2, IdleType DEF Owned, HoldsKey
<1>6. ASSUME NEW k \in Handlers, k # h PROVE Distinct(h, k)' /\ Distinct(k, h)'
  <2>1. Distinct(h, k) /\ Distinct(k, h)
    BY DEF Inv
  <2> QED
    BY <1>2, <1>3, <1>4, <1>6, <2>1, IdleType DEF Distinct, HoldsKey
<1>7. \A k \in Handlers \ {h} : HoldsKey(k) => req[k].key \in vault'
  BY DEF Inv, Owned, Distinct
<1>8. SecretsAreThere'
  <2>1. \A k \in vault \ vault' : k \in Exempt \/ k \notin Referred
    BY DEF Inv, Owned
  <2> QED
    BY <2>1 DEF Inv, SecretsAreThere, Referred, Exempt
<1>9. Covered'
  <2>1. CASE store = "local"
    BY <1>2, <2>1, CoveredByOthers
  <2>2. CASE store # "local"
    BY <2>2 DEF Covered
  <2> QED
    BY <2>1, <2>2
<1>10. stored' \in Nat /\ stored <= stored' /\ vault' \subseteq 1..stored'
  BY <1>1 DEF Typed
<1> QED
  BY <1>3, <1>5, <1>6, <1>7, <1>8, <1>9, <1>10, IdleType, AsideStep

LEMMA FailFlushStep ==
  ASSUME Inv, NEW h \in Handlers, FailFlush(h)
  PROVE  Inv'
<1>1. /\ HoldsKey(h) /\ req[h].phase = "stored" /\ vault' = vault \ {req[h].key}
      /\ req' = [req EXCEPT ![h] = Idle]
      /\ UNCHANGED <<store, typed, stored, rows, newest, holder, passed, faulty, bypassed, unguarded>>
  BY DEF FailFlush, HoldsKey, Become
<1>2. holder' = [holder EXCEPT ![h] = holder[h]]
  BY <1>1 DEF Inv, Typed
<1> QED
  BY <1>1, <1>2, LeaveStep

LEMMA FailCommitStep ==
  ASSUME Inv, NEW h \in Handlers, FailCommit(h)
  PROVE  Inv'
<1>1. /\ HoldsKey(h) /\ req[h].phase = "flushed" /\ vault' = vault \ Undone(h)
      /\ req' = [req EXCEPT ![h] = Idle] /\ holder' = [holder EXCEPT ![h] = 0]
      /\ UNCHANGED <<store, typed, stored, rows, newest, passed, faulty, bypassed, unguarded>>
  BY DEF FailCommit, HoldsKey, Become, Release
<1> QED
  BY <1>1, LeaveStep DEF Undone, Deleted

LEMMA CleanUpStep ==
  ASSUME Inv, NEW h \in Handlers, CleanUp(h)
  PROVE  Inv'
<1>1. /\ ~HoldsKey(h) /\ req[h].phase = "committed" /\ vault' = vault \ Replaced(h)
      /\ req' = [req EXCEPT ![h] = Idle]
      /\ UNCHANGED <<store, typed, stored, rows, newest, holder, passed, faulty, bypassed, unguarded>>
  BY DEF CleanUp, HoldsKey, Become
<1>2. holder' = [holder EXCEPT ![h] = holder[h]]
  BY <1>1 DEF Inv, Typed
<1> QED
  BY <1>1, <1>2, LeaveStep DEF Replaced, Deleted

LEMMA DieStep ==
  ASSUME Inv, NEW h \in Handlers, Die(h)
  PROVE  Inv'
<1>1. /\ req' = [req EXCEPT ![h] = Idle] /\ holder' = [holder EXCEPT ![h] = 0]
      /\ faulty' = TRUE
      /\ UNCHANGED <<store, typed, vault, stored, rows, newest, passed, bypassed, unguarded>>
  BY DEF Die, Become, Release
<1>2. faulty'
  BY <1>1
<1> QED
  BY <1>1, <1>2, LeaveStep

LEMMA ResolveStep ==
  ASSUME Inv, NEW h \in Handlers, Resolve(h)
  PROVE  Inv'
<1>1. /\ req[h].phase = "found" /\ req' = [req EXCEPT ![h] = Idle]
      /\ UNCHANGED <<store, typed, vault, stored, rows, newest, holder, passed, faulty, bypassed, unguarded>>
  BY DEF Resolve, Become
<1>2. holder' = [holder EXCEPT ![h] = holder[h]] /\ ~HoldsKey(h)
  BY <1>1 DEF Inv, Typed, HoldsKey
<1> QED
  BY <1>1, <1>2, LeaveStep

\* An idle handler reads a row, with its lock or without.
LEMMA EnterStep ==
  ASSUME Inv, NEW h \in Handlers, req[h].phase = "idle",
         NEW q \in Requests, req' = [req EXCEPT ![h] = q],
         q.phase \in {"testing", "read", "found"},
         NEW l \in Nat, holder' = [holder EXCEPT ![h] = l],
         l # 0 => l = holder[h] \/ IsFree(l),
         UNCHANGED <<store, typed, vault, stored, rows, newest, passed, faulty, bypassed, unguarded>>,
         q.phase = "testing" => q.row \in 1..Len(rows) /\ l = q.row /\ q.key = rows[q.row].ref,
         q.phase = "read" => q.row \in 0..Len(rows)
  PROVE  Inv'
<1>1. Typed /\ ~HoldsKey(h)
  BY DEF Inv, HoldsKey
<1>2. /\ req'[h] = q /\ holder'[h] = l
      /\ \A k \in Handlers \ {h} : req'[k] = req[k] /\ holder'[k] = holder[k]
  BY <1>1 DEF Typed
<1>3. Owned(h)'
  BY <1>2 DEF Owned, HoldsKey
<1>4. ASSUME NEW k \in Handlers, k # h PROVE Distinct(h, k)' /\ Distinct(k, h)'
  <2>1. Distinct(h, k) /\ Distinct(k, h)
    BY DEF Inv
  <2>2. l # 0 => holder[k] # l
    BY <1>4, <2>1 DEF IsFree, Distinct
  <2> QED
    BY <1>2, <1>4, <2>1, <2>2 DEF Distinct, HoldsKey
<1>5. \A k \in Handlers \ {h} : HoldsKey(k) => req[k].key \in vault'
  BY DEF Inv, Owned
<1>6. SecretsAreThere'
  BY DEF Inv, SecretsAreThere, Referred
<1>7. Covered'
  BY <1>1, <1>2, CoveredByOthers
<1>8. stored' \in Nat /\ stored <= stored' /\ vault' \subseteq 1..stored'
  BY <1>1 DEF Typed
<1> QED
  BY <1>3, <1>4, <1>5, <1>6, <1>7, <1>8, AsideStep

LEMMA LockToTestStep ==
  ASSUME Inv, NEW h \in Handlers, LockToTest(h)
  PROVE  Inv'
<1> DEFINE q == [Idle EXCEPT !.phase = "testing", !.row = newest, !.key = rows[newest].ref]
<1>1. /\ req[h].phase = "idle" /\ newest # 0 /\ IsFree(newest)
      /\ holder' = [holder EXCEPT ![h] = newest] /\ req' = [req EXCEPT ![h] = q]
      /\ UNCHANGED <<store, typed, vault, stored, rows, newest, passed, faulty, bypassed, unguarded>>
  BY DEF LockToTest, Become
<1>2. Typed /\ newest \in 1..Len(rows)
  BY <1>1 DEF Inv, Typed
<1>3. rows[newest].ref \in Int /\ newest \in Nat
  BY <1>2, RowTypes
<1>4. /\ q \in Requests /\ q.phase = "testing" /\ q.row = newest
      /\ q.key = rows[newest].ref
  BY <1>3, IdleType DEF Requests, Phases
<1> HIDE DEF q
<1> QED
  BY <1>1, <1>2, <1>3, <1>4, EnterStep

LEMMA ReadToReplaceStep ==
  ASSUME Inv, NEW h \in Handlers, ReadToReplace(h)
  PROVE  Inv'
<1> DEFINE loaded(i, r) == IF r = 0 THEN Row(None, "active", i) ELSE rows[r]
           reading(i, r) == [Idle EXCEPT !.phase = "read", !.row = r, !.importer = i,
                                         !.key = loaded(i, r).ref,
                                         !.status = loaded(i, r).status]
<1>1. PICK i \in BOOLEAN, r \in DOMAIN rows \cup {0} : req' = [req EXCEPT ![h] = reading(i, r)]
  BY DEF ReadToReplace, Become
<1>2. /\ req[h].phase = "idle" /\ Typed
      /\ UNCHANGED <<store, typed, vault, stored, rows, newest, holder, passed, faulty,
                     bypassed, unguarded>>
  BY DEF ReadToReplace, Inv
<1>3. r \in 0..Len(rows) /\ r \in Nat
  BY <1>1, <1>2, RowTypes
<1>4. loaded(i, r) \in Rows
  BY <1>1, <1>2, <1>3, IdleType, RowTypes DEF None, Statuses
<1> DEFINE x == loaded(i, r)
           q == [Idle EXCEPT !.phase = "read", !.row = r, !.importer = i,
                             !.key = x.ref, !.status = x.status]
<1>5. req' = [req EXCEPT ![h] = q] /\ x \in Rows
  BY <1>1, <1>4
<1> HIDE DEF x, loaded
<1>6. q \in Requests /\ q.phase = "read" /\ q.row = r
  BY <1>1, <1>3, <1>5, IdleType DEF Requests, Phases, Rows
<1> HIDE DEF q
<1>7. holder[h] \in Nat /\ holder' = [holder EXCEPT ![h] = holder[h]]
  BY <1>2 DEF Typed
<1> QED
  BY <1>2, <1>3, <1>5, <1>6, <1>7, EnterStep

LEMMA RefuseReplaceStep ==
  ASSUME Inv, NEW h \in Handlers, RefuseReplace(h)
  PROVE  Inv'
<1>1. /\ req[h].phase = "read" /\ req' = [req EXCEPT ![h] = Idle]
      /\ UNCHANGED <<store, typed, vault, stored, rows, newest, holder, passed, faulty,
                     bypassed, unguarded>>
  BY DEF RefuseReplace, Become
<1>2. holder' = [holder EXCEPT ![h] = holder[h]] /\ ~HoldsKey(h)
  BY <1>1 DEF Inv, Typed, HoldsKey
<1> QED
  BY <1>1, <1>2, LeaveStep

LEMMA FindStep ==
  ASSUME Inv, NEW h \in Handlers, Find(h)
  PROVE  Inv'
<1> DEFINE q == [Idle EXCEPT !.phase = "found"]
<1>1. /\ req[h].phase = "idle" /\ Typed /\ req' = [req EXCEPT ![h] = q]
      /\ UNCHANGED <<store, typed, vault, stored, rows, newest, holder, passed, faulty,
                     bypassed, unguarded>>
  BY DEF Find, Inv, Become
<1>2. q \in Requests /\ q.phase = "found"
  BY IdleType DEF Requests, Phases
<1> HIDE DEF q
<1>3. holder[h] \in Nat /\ holder' = [holder EXCEPT ![h] = holder[h]]
  BY <1>1 DEF Typed
<1> QED
  BY <1>1, <1>2, <1>3, EnterStep

\* configure locks the newest row and remembers the reference in it.
LEMMA LockToConfigureStep ==
  ASSUME Inv, NEW h \in Handlers, LockToConfigure(h)
  PROVE  Inv'
<1> DEFINE g == req[h]
           p == IF newest = 0 THEN None ELSE rows[newest].ref
           q == [g EXCEPT !.phase = "flushed", !.row = newest, !.previous = p]
<1>1. /\ g.phase = "stored" /\ (newest # 0 => IsFree(newest))
      /\ holder' = [holder EXCEPT ![h] = newest] /\ req' = [req EXCEPT ![h] = q]
      /\ UNCHANGED <<store, typed, vault, stored, rows, newest, passed, faulty, bypassed, unguarded>>
  BY DEF LockToConfigure, Become
<1>2. Typed /\ newest \in 0..Len(rows) /\ newest \in Nat /\ g \in Requests
  BY DEF Inv, Typed
<1>3. p \in Int
  BY <1>2, RowTypes DEF None
<1>4. /\ q \in Requests /\ q.phase = "flushed" /\ q.row = newest
      /\ q.key = g.key /\ q.previous = p
  BY <1>2, <1>3 DEF Requests, Phases
<1> HIDE DEF q
<1>5. /\ req'[h] = q /\ holder'[h] = newest
      /\ \A k \in Handlers \ {h} : req'[k] = req[k] /\ holder'[k] = holder[k]
  BY <1>1, <1>2 DEF Typed
<1>6. HoldsKey(h) /\ HoldsKey(h)' /\ Owned(h)
  BY <1>1, <1>4, <1>5 DEF HoldsKey, Inv
<1>7. Owned(h)'
  BY <1>1, <1>2, <1>4, <1>5, <1>6 DEF Owned, HoldsKey, Referred
<1>8. ASSUME NEW k \in Handlers, k # h PROVE Distinct(h, k)' /\ Distinct(k, h)'
  <2>1. Distinct(h, k) /\ Distinct(k, h)
    BY DEF Inv
  <2>2. newest # 0 => holder[k] # newest
    BY <1>1, <1>8 DEF IsFree
  <2> QED
    BY <1>4, <1>5, <1>6, <1>8, <2>1, <2>2 DEF Distinct, HoldsKey
<1>9. \A k \in Handlers \ {h} : HoldsKey(k) => req[k].key \in vault'
  BY <1>1 DEF Inv, Owned
<1>10. SecretsAreThere'
  BY <1>1 DEF Inv, SecretsAreThere, Referred
<1>11. Covered'
  BY <1>1, <1>4, <1>5, <1>6, CoveredByOthers
<1>12. stored' \in Nat /\ stored <= stored' /\ vault' \subseteq 1..stored'
  BY <1>1, <1>2 DEF Typed
<1>13. holder' = [holder EXCEPT ![h] = newest] /\ newest \in Nat
  BY <1>1, <1>2
<1> QED
  BY <1>1, <1>4, <1>7, <1>8, <1>9, <1>10, <1>11, <1>12, <1>13, AsideStep

-----------------------------------------------------------------------------
(* Steps that write a row *)

\* Row w is added or changed, and its reference is the one it had, or this one.
RowWritten(w, ref) ==
  /\ rows' \in Seq(Rows) /\ Len(rows) <= Len(rows') /\ w \in 1..Len(rows')
  /\ \A r \in 1..Len(rows') : r # w => r \in 1..Len(rows) /\ rows'[r] = rows[r]
  /\ rows'[w].ref = ref \/ (w \in 1..Len(rows) /\ rows'[w].ref = rows[w].ref)

\* What a written row changes in the references.
LEMMA WrittenRefs ==
  ASSUME Typed, NEW ref \in Int, NEW w, RowWritten(w, ref)
  PROVE  /\ DOMAIN rows' = 1..Len(rows') /\ DOMAIN rows = 1..Len(rows)
         /\ Len(rows) \in Nat /\ Len(rows') \in Nat
         /\ \A r \in 1..Len(rows) : r \in 1..Len(rows') /\ (r # w => rows'[r] = rows[r])
         /\ \A r \in 1..Len(rows') : rows'[r].ref = ref \/ rows'[r].ref \in Referred
         /\ \A k \in Referred' : k = ref \/ k \in Referred
         /\ \A r \in 1..Len(rows') : rows'[r].ref \in Referred'
<1>1. DOMAIN rows = 1..Len(rows) /\ Len(rows) \in Nat
  BY RowTypes
<1>2. DOMAIN rows' = 1..Len(rows') /\ Len(rows') \in Nat
  BY LenProperties DEF RowWritten
<1>3. \A r \in 1..Len(rows) : r \in 1..Len(rows') /\ (r # w => rows'[r] = rows[r])
  BY <1>1, <1>2 DEF RowWritten
<1>4. \A r \in 1..Len(rows) : rows[r].ref \in Referred
  BY <1>1 DEF Referred
<1>5. \A r \in 1..Len(rows') : rows'[r].ref = ref \/ rows'[r].ref \in Referred
  BY <1>4 DEF RowWritten
<1>6. \A k \in Referred' : k = ref \/ k \in Referred
  BY <1>2, <1>5 DEF Referred
<1>7. \A r \in 1..Len(rows') : rows'[r].ref \in Referred'
  BY <1>2 DEF Referred
<1> QED
  BY <1>1, <1>2, <1>3, <1>5, <1>6, <1>7

\* A new reference leaves the rows with different secrets.
LEMMA WrittenDiffer ==
  ASSUME Typed, RefsDiffer, unguarded \subseteq unguarded',
         NEW ref \in Int, ref \in Exempt' \/ ref \notin Referred,
         NEW w, RowWritten(w, ref)
  PROVE  RefsDiffer'
<1> SUFFICES ASSUME NEW r \in 1..Len(rows'), NEW s \in 1..Len(rows'), r # s,
                    rows'[r].ref \notin Exempt'
             PROVE  rows'[s].ref # rows'[r].ref
  BY DEF RefsDiffer
<1>1. (\A t \in 1..Len(rows) : rows[t].ref \in Referred) /\ Exempt \subseteq Exempt'
  BY RowTypes DEF Referred, Exempt
<1>2. CASE r # w /\ s # w
  BY <1>1, <1>2 DEF RowWritten, RefsDiffer
<1>3. CASE r = w
  <2>1. s \in 1..Len(rows) /\ rows'[s] = rows[s]
    BY <1>3 DEF RowWritten
  <2> QED
    BY <1>1, <1>3, <2>1 DEF RowWritten, RefsDiffer
<1>4. CASE s = w
  <2>1. r \in 1..Len(rows) /\ rows'[r] = rows[r]
    BY <1>4 DEF RowWritten
  <2> QED
    BY <1>1, <1>4, <2>1 DEF RowWritten, RefsDiffer
<1> QED
  BY <1>2, <1>3, <1>4

\* What h may write: the secret it holds, or a reference that is not another
\* handler's and that nobody guards.
Fits(h, ref) ==
  \/ HoldsKey(h) /\ ref = req[h].key
  \/ ref \in Exempt' /\ \A k \in Handlers : HoldsKey(k) => req[k].key # ref

\* The other handlers keep what they own: the row is not theirs, and neither is
\* the secret.
LEMMA OthersOwn ==
  ASSUME Inv, NEW h \in Handlers, NEW k \in Handlers, k # h,
         NEW ref \in Int, NEW w, RowWritten(w, ref), Fits(h, ref),
         unguarded \subseteq unguarded', HoldsKey(k) => req[k].key \notin unguarded',
         w \in 1..Len(rows) /\ holder[k] = w => rows'[w].ref = rows[w].ref,
         req'[k] = req[k], holder'[k] = holder[k], stored' = stored,
         HoldsKey(k) => req[k].key \in vault'
  PROVE  Owned(k)'
<1>1. Typed /\ Owned(k) /\ Distinct(h, k) /\ req[k] \in Requests
  BY DEF Inv, Typed
<1>2. \A r \in 1..Len(rows) : holder[k] = r => rows'[r].ref = rows[r].ref
  BY <1>1, WrittenRefs
<1>3. \A r \in 1..Len(rows) : r \in 1..Len(rows')
  BY <1>1, WrittenRefs
<1>4. Len(rows) \in Nat /\ Len(rows') \in Nat /\ req[k].row \in Nat
  BY <1>1, WrittenRefs, RequestFields
<1>5. HoldsKey(k) => req[k].key \notin Referred'
  <2> SUFFICES ASSUME HoldsKey(k) PROVE req[k].key \notin Referred'
    OBVIOUS
  <2>1. req[k].key \in vault /\ req[k].key \notin Referred
    BY <1>1 DEF Owned
  <2>2. req[k].key # ref
    BY <1>1 DEF Distinct, Fits
  <2> QED
    BY <1>1, <2>1, <2>2, WrittenRefs
<1>6. req[k].phase = "flushed" =>
        /\ req[k].row \in 0..Len(rows') /\ holder[k] = req[k].row
        /\ req[k].previous = IF req[k].row = 0 THEN None ELSE rows'[req[k].row].ref
  BY <1>1, <1>2, <1>3, <1>4 DEF Owned
<1>7. req[k].phase = "committed" =>
        /\ req[k].previous <= stored
        /\ (req[k].previous \notin Exempt' => req[k].previous \notin Referred')
  <2> SUFFICES ASSUME req[k].phase = "committed"
               PROVE  /\ req[k].previous <= stored
                      /\ (req[k].previous \notin Exempt' => req[k].previous \notin Referred')
    OBVIOUS
  <2>1. req[k].previous <= stored /\ (req[k].previous \notin Exempt => req[k].previous \notin Referred)
    BY <1>1 DEF Owned
  <2>2. req[k].previous \notin Exempt' => req[k].previous # ref
    BY <1>1 DEF Distinct, Fits
  <2>3. Exempt \subseteq Exempt'
    BY DEF Exempt
  <2> QED
    BY <1>1, <2>1, <2>2, <2>3, WrittenRefs
<1>8. req[k].phase = "testing" =>
        /\ req[k].row \in 1..Len(rows') /\ holder[k] = req[k].row
        /\ req[k].key = rows'[req[k].row].ref
  BY <1>1, <1>2, <1>3 DEF Owned
<1>9. req[k].phase = "read" => req[k].row \in 0..Len(rows')
  BY <1>1, <1>3, <1>4 DEF Owned
<1> QED
  BY <1>5, <1>6, <1>7, <1>8, <1>9 DEF Owned, HoldsKey

\* What the written row held is covered by the handler that replaced it.
LEMMA WrittenCovered ==
  ASSUME Inv, NEW h \in Handlers, NEW ref \in Int, NEW w, RowWritten(w, ref),
         \A k \in Handlers \ {h} : req'[k] = req[k],
         req[h].phase # "committed", HoldsKey(h) => req[h].key \in Referred',
         store = "local", ~faulty, ~bypassed, vault' \subseteq vault,
         w \in 1..Len(rows) /\ rows'[w].ref # rows[w].ref =>
           req'[h].phase = "committed" /\ req'[h].previous = rows[w].ref,
         NEW k \in vault'
  PROVE  \/ k \in Referred'
         \/ \E j \in Handlers : HoldsKey(j)' /\ req'[j].key = k
         \/ \E j \in Handlers : req'[j].phase = "committed" /\ req'[j].previous = k
<1>1. Typed /\ Covered /\ k \in vault
  BY DEF Inv
<1>2. CASE k \in Referred
  <2>1. PICK r \in 1..Len(rows) : k = rows[r].ref
    BY <1>1, <1>2, RowTypes
  <2>2. CASE rows'[r].ref = rows[r].ref
    BY <1>1, <2>1, <2>2, WrittenRefs
  <2>3. CASE rows'[r].ref # rows[r].ref
    BY <1>1, <2>1, <2>3, WrittenRefs
  <2> QED
    BY <2>2, <2>3
<1>3. CASE \E j \in Handlers : HoldsKey(j) /\ req[j].key = k
  <2>1. PICK j \in Handlers : HoldsKey(j) /\ req[j].key = k
    BY <1>3
  <2>2. CASE j = h
    BY <2>1, <2>2
  <2>3. CASE j # h
    BY <2>1, <2>3 DEF HoldsKey
  <2> QED
    BY <2>2, <2>3
<1>4. CASE \E j \in Handlers : req[j].phase = "committed" /\ req[j].previous = k
  BY <1>4
<1> QED
  BY <1>1, <1>2, <1>3, <1>4 DEF Covered

\* A row keeps the record of its last test.
LEMMA WrittenConnected ==
  ASSUME Inv, NEW ref \in Int, NEW w, RowWritten(w, ref), bypassed => bypassed',
         \A p \in passed : p[1] # w => p \in passed',
         rows'[w].status = "active" /\ rows'[w].checked =>
           <<w, rows'[w].ref>> \in passed' \/ bypassed'
  PROVE  ConnectedIsTested'
<1>1. Typed /\ ConnectedIsTested
  BY DEF Inv
<1> SUFFICES ASSUME NEW r \in 1..Len(rows'), rows'[r].status = "active", rows'[r].checked
             PROVE  <<r, rows'[r].ref>> \in passed' \/ bypassed'
  BY <1>1, WrittenRefs DEF ConnectedIsTested
<1>2. CASE r = w
  BY <1>2
<1>3. CASE r # w
  <2>1. r \in DOMAIN rows /\ rows'[r] = rows[r]
    BY <1>1, <1>3, WrittenRefs DEF RowWritten
  <2>2. <<r, rows[r].ref>> \in passed \/ bypassed
    BY <1>1, <2>1 DEF ConnectedIsTested
  <2> QED
    BY <1>3, <2>1, <2>2
<1> QED
  BY <1>2, <1>3

\* A handler that ends, or has just committed, wrote in row w no other reference
\* than the secret it held, and took no secret from anybody.
LEMMA WriteStep ==
  ASSUME Inv, NEW h \in Handlers, NEW q \in Requests, req' = [req EXCEPT ![h] = q],
         NEW l \in {0, holder[h]}, holder' = [holder EXCEPT ![h] = l],
         q.phase \in {"idle", "committed"}, Owned(h)',
         q.phase = "committed" => q.previous \in Referred \cup {None},
         NEW ref \in Int, ref <= stored, Fits(h, ref),
         unguarded \subseteq unguarded', unguarded' \subseteq 1..stored,
         \A k \in Handlers \ {h} : HoldsKey(k) => req[k].key \notin unguarded',
         NEW w, RowWritten(w, ref), newest' \in 0..Len(rows'),
         \A k \in Handlers \ {h} :
           w \in 1..Len(rows) /\ holder[k] = w => rows'[w].ref = rows[w].ref,
         UNCHANGED <<store, stored>>, vault' \subseteq vault,
         \A k \in Handlers \ {h} : HoldsKey(k) => req[k].key \in vault',
         bypassed' \in BOOLEAN, typed' \in Nat,
         SecretsAreThere', ConnectedIsTested', Covered'
  PROVE  Inv'
<1>1. Typed /\ RefsDiffer
  BY DEF Inv
<1>2. /\ req'[h] = q /\ holder'[h] = l
      /\ \A k \in Handlers \ {h} : req'[k] = req[k] /\ holder'[k] = holder[k]
  BY <1>1 DEF Typed
<1>3. \A k \in Referred : k <= stored
  BY <1>1, RowTypes
<1>4. Typed'
  <2>1. \A r \in 1..Len(rows') : rows'[r].ref <= stored'
    BY <1>1, <1>3, WrittenRefs
  <2>2. rows' \in Seq(Rows)
    BY DEF RowWritten
  <2>3. stored' \in Nat /\ vault' \subseteq 1..stored'
    BY <1>1 DEF Typed
  <2>4. holder' \in [Handlers -> Nat] /\ req' \in [Handlers -> Requests]
    BY <1>1 DEF Typed
  <2>5. store' \in {"local", "managed"}
    BY <1>1 DEF Typed
  <2> QED
    BY <2>1, <2>2, <2>3, <2>4, <2>5 DEF Typed
<1>5. \A k \in Handlers : Owned(k)'
  <2>1. ASSUME NEW k \in Handlers, k # h PROVE Owned(k)'
    BY <1>2, <2>1, OthersOwn
  <2> QED
    BY <2>1
<1>6. ASSUME NEW k \in Handlers, k # h PROVE Distinct(h, k)' /\ Distinct(k, h)'
  <2>1. Distinct(h, k) /\ Distinct(k, h) /\ Owned(k)
    BY DEF Inv
  <2>2. ~HoldsKey(h)'
    BY <1>2 DEF HoldsKey
  <2>3. HoldsKey(k) /\ q.phase = "committed" => q.previous # req[k].key
    <3>1. HoldsKey(k) => req[k].key # None /\ req[k].key \notin Referred
      BY <1>1, <2>1 DEF Owned, Typed, None
    <3> QED
      BY <3>1
  <2>4. l # 0 => holder[k] # l
    BY <1>6, <2>1 DEF Distinct
  <2> QED
    BY <1>2, <1>6, <2>1, <2>2, <2>3, <2>4 DEF Distinct, HoldsKey
<1>7. ASSUME NEW j \in Handlers, NEW k \in Handlers PROVE Distinct(j, k)'
  <2>1. CASE j # h /\ k # h
    BY <1>2, <2>1 DEF Inv, Distinct, HoldsKey
  <2>2. CASE j = h /\ k = h
    BY <2>2 DEF Distinct
  <2> QED
    BY <1>6, <2>1, <2>2
<1>8. RefsDiffer'
  <2>1. ref \in Exempt' \/ ref \notin Referred
    BY DEF Inv, Owned, Fits
  <2> QED
    BY <1>1, <2>1, WrittenDiffer
<1> QED
  BY <1>4, <1>5, <1>7, <1>8 DEF Inv

\* An added row.
LEMMA RowAdded ==
  ASSUME Typed, NEW x \in Rows, rows' = Append(rows, x)
  PROVE  /\ RowWritten(Len(rows'), x.ref) /\ Len(rows') = Len(rows) + 1
         /\ Len(rows) \in Nat /\ rows'[Len(rows')] = x
<1>1. Len(rows) \in Nat
  BY RowTypes
<1>2. rows' \in Seq(Rows) /\ Len(rows') = Len(rows) + 1
  BY AppendProperties DEF Typed
<1>3. rows'[Len(rows')] = x /\ \A r \in 1..Len(rows) : rows'[r] = rows[r]
  BY AppendProperties, <1>2 DEF Typed
<1> QED
  BY <1>1, <1>2, <1>3 DEF RowWritten

\* A changed row.
LEMMA RowChanged ==
  ASSUME Typed, NEW r \in 1..Len(rows), NEW x \in Rows, rows' = [rows EXCEPT ![r] = x],
         NEW ref \in Int, x.ref = ref \/ x.ref = rows[r].ref
  PROVE  /\ RowWritten(r, ref) /\ Len(rows') = Len(rows)
         /\ Len(rows) \in Nat /\ rows'[r] = x
<1>1. Len(rows) \in Nat
  BY RowTypes
<1>2. rows' \in Seq(Rows) /\ Len(rows') = Len(rows)
  BY ExceptSeq DEF Typed
<1>3. rows'[r] = x /\ \A s \in 1..Len(rows) : s # r => rows'[s] = rows[s]
  BY ExceptSeq DEF Typed
<1> QED
  BY <1>1, <1>2, <1>3 DEF RowWritten

\* A configured row.
LEMMA ConfiguredType ==
  ASSUME NEW row \in Rows, NEW key \in Int
  PROVE  /\ Configured(row, key) \in Rows
         /\ Configured(row, key).ref = key /\ Configured(row, key).checked = FALSE
BY DEF Configured, Rows, Statuses

\* A secret that waits for its commit is in the vault and in no row.
LEMMA HeldKey ==
  ASSUME Inv, NEW h \in Handlers, HoldsKey(h)
  PROVE  /\ req[h].key \in vault /\ req[h].key \notin Referred /\ req[h].key \notin unguarded
         /\ req[h].key \in Int /\ req[h].key <= stored
<1>1. req[h].key \in vault /\ req[h].key \notin Referred /\ req[h].key \notin unguarded
  BY DEF Inv, Owned
<1>2. stored \in Nat /\ vault \subseteq 1..stored
  BY DEF Inv, Typed
<1>3. req[h].key \in 1..stored
  BY <1>1, <1>2
<1> QED
  BY <1>1, <1>2, <1>3

\* What a commit writes: the secret of h, in the row h has locked or in a new one.
LEMMA SavedRow ==
  ASSUME Inv, NEW h \in Handlers, req[h].phase = "flushed", Saved(h)
  PROVE  \E w : /\ RowWritten(w, req[h].key) /\ newest' \in 0..Len(rows')
                /\ rows'[w].ref = req[h].key /\ ~rows'[w].checked
                /\ w \in 1..Len(rows) => holder[h] = w /\ req[h].previous = rows[w].ref
                /\ w \notin 1..Len(rows) => req[h].previous = None
<1> DEFINE key == req[h].key
           r == req[h].row
<1>1. Typed /\ req[h] \in Requests /\ Owned(h)
  BY DEF Inv, Typed
<1>2. key \in Int /\ r \in Nat /\ Len(rows) \in Nat
  BY <1>1, RequestFields, RowTypes
<1>3. /\ r \in 0..Len(rows) /\ holder[h] = r
      /\ req[h].previous = IF r = 0 THEN None ELSE rows[r].ref
  BY <1>1 DEF Owned
<1>4. CASE r = 0
  <2> DEFINE x == Row(key, "active", FALSE)
  <2>1. rows' = Append(rows, x) /\ newest' = Len(rows')
    BY <1>4 DEF Saved
  <2>2. x \in Rows /\ x.ref = key /\ x.checked = FALSE
    BY <1>2, IdleType DEF Statuses
  <2> HIDE DEF x
  <2>3. RowWritten(Len(rows'), key) /\ Len(rows') = Len(rows) + 1 /\ rows'[Len(rows')] = x
    BY <1>1, <2>1, <2>2, RowAdded
  <2>4. newest' \in 0..Len(rows') /\ Len(rows') \notin 1..Len(rows)
    BY <1>2, <2>1, <2>3
  <2> QED
    BY <1>3, <1>4, <2>2, <2>3, <2>4
<1>5. CASE r # 0
  <2> DEFINE x == Configured(rows[r], key)
  <2>1. r \in 1..Len(rows)
    BY <1>2, <1>3, <1>5
  <2>2. rows' = [rows EXCEPT ![r] = x] /\ newest' = r
    BY <1>5 DEF Saved
  <2>3. x \in Rows /\ x.ref = key /\ x.checked = FALSE
    BY <1>1, <1>2, <2>1, RowTypes, ConfiguredType
  <2> HIDE DEF x
  <2>4. RowWritten(r, key) /\ Len(rows') = Len(rows) /\ rows'[r] = x
    BY ZenonT(40), <1>1, <1>2, <2>1, <2>2, <2>3, RowChanged
  <2>5. newest' \in 0..Len(rows')
    BY <1>2, <2>1, <2>2, <2>4
  <2> QED
    BY <1>3, <1>5, <2>1, <2>3, <2>4, <2>5
<1> QED
  BY <1>4, <1>5

LEMMA CommitStep ==
  ASSUME Inv, NEW h \in Handlers, Commit(h)
  PROVE  Inv'
<1> DEFINE key == req[h].key
           q == [req[h] EXCEPT !.phase = "committed"]
<1>1. /\ req[h].phase = "flushed" /\ Saved(h) /\ req' = [req EXCEPT ![h] = q]
      /\ holder' = [holder EXCEPT ![h] = 0]
      /\ UNCHANGED <<store, typed, vault, stored, passed, faulty, bypassed, unguarded>>
  BY DEF Commit, Become, Saved, Release
<1>2. PICK w : /\ RowWritten(w, key) /\ newest' \in 0..Len(rows')
               /\ rows'[w].ref = key /\ ~rows'[w].checked
               /\ w \in 1..Len(rows) => holder[h] = w /\ req[h].previous = rows[w].ref
               /\ w \notin 1..Len(rows) => req[h].previous = None
  BY <1>1, SavedRow
<1>3. Typed /\ req[h] \in Requests /\ Owned(h) /\ HoldsKey(h)
  BY <1>1 DEF Inv, Typed, HoldsKey
<1>4. q \in Requests /\ q.phase = "committed" /\ q.previous = req[h].previous
  BY <1>3 DEF Requests, Phases
<1>5. key \in Int /\ key \in vault /\ key <= stored /\ key \notin Referred
  BY <1>3, HeldKey
<1> HIDE DEF q
<1>6. /\ req'[h] = q /\ holder'[h] = 0
      /\ \A k \in Handlers \ {h} : req'[k] = req[k] /\ holder'[k] = holder[k]
  BY <1>1, <1>3 DEF Typed
<1>7. /\ q.previous <= stored /\ q.previous \in Referred \cup {None}
      /\ q.previous \notin Exempt => q.previous \notin Referred'
  <2>1. CASE w \in 1..Len(rows)
    <3>1. q.previous = rows[w].ref /\ rows[w].ref \in Referred
      BY <1>2, <1>3, <1>4, <2>1, RowTypes
    <3>2. rows[w].ref <= stored
      BY <1>3, <2>1 DEF Typed
    <3>3. q.previous \notin Exempt => q.previous \notin Referred'
      <4> SUFFICES ASSUME q.previous \notin Exempt, q.previous \in Referred' PROVE FALSE
        OBVIOUS
      <4>1. PICK s \in 1..Len(rows') : rows'[s].ref = q.previous
        BY <1>2, <1>3, <1>5, WrittenRefs DEF Referred
      <4>2. s # w
        BY <1>2, <1>5, <3>1, <4>1
      <4>3. s \in 1..Len(rows) /\ rows'[s] = rows[s]
        BY <1>2, <4>1, <4>2 DEF RowWritten
      <4> QED
        BY <2>1, <3>1, <4>1, <4>2, <4>3 DEF Inv, RefsDiffer
    <3> QED
      BY <3>1, <3>2, <3>3
  <2>2. CASE w \notin 1..Len(rows)
    BY <1>2, <1>3, <1>4, <2>2 DEF Typed, None, Exempt
  <2> QED
    BY <2>1, <2>2
<1>8. Owned(h)'
  BY <1>1, <1>4, <1>6, <1>7 DEF Owned, HoldsKey, Exempt
<1>9. SecretsAreThere'
  <2>1. \A k \in Referred' : k = key \/ k \in Referred
    BY <1>2, <1>3, <1>5, WrittenRefs
  <2> QED
    BY <1>1, <1>5, <2>1 DEF Inv, SecretsAreThere
<1>10. ConnectedIsTested'
  BY <1>1, <1>2, <1>5, WrittenConnected
<1>11. key \in Referred'
  <2>1. w \in 1..Len(rows')
    BY <1>2 DEF RowWritten
  <2>2. RowWritten(w, key)
    BY <1>2
  <2>3. \A r \in 1..Len(rows') : rows'[r].ref \in Referred'
    BY <1>3, <1>5, <2>2, WrittenRefs
  <2> QED
    BY <1>2, <2>1, <2>3
<1>12. Covered'
  <2> SUFFICES ASSUME store = "local", ~faulty, ~bypassed, NEW k \in vault'
               PROVE  \/ k \in Referred'
                      \/ \E j \in Handlers : HoldsKey(j)' /\ req'[j].key = k
                      \/ \E j \in Handlers : req'[j].phase = "committed" /\ req'[j].previous = k
    BY <1>1 DEF Covered
  <2>1. w \in 1..Len(rows) =>
          req'[h].phase = "committed" /\ req'[h].previous = rows[w].ref
    BY <1>2, <1>4, <1>6
  <2> QED
    BY <1>1, <1>2, <1>5, <1>6, <1>11, <2>1, WrittenCovered
<1>13. \A k \in Handlers \ {h} : ~(w \in 1..Len(rows) /\ holder[k] = w)
  BY <1>2 DEF Inv, Distinct
<1>14. \A k \in Handlers \ {h} : HoldsKey(k) => req[k].key \in vault'
  BY <1>1 DEF Inv, Owned
<1>15. bypassed' \in BOOLEAN
  BY <1>1, <1>3 DEF Typed
<1>16. \A k \in Handlers \ {h} :
         w \in 1..Len(rows) /\ holder[k] = w => rows'[w].ref = rows[w].ref
  BY <1>13
<1>17. RowWritten(w, key) /\ newest' \in 0..Len(rows')
  BY <1>2
<1>18. UNCHANGED <<store, typed, stored>> /\ vault' \subseteq vault /\ holder' = [holder EXCEPT ![h] = 0]
  BY <1>1
<1>19. req' = [req EXCEPT ![h] = q]
  BY <1>1
<1>20. Fits(h, key) /\ \A k \in Handlers : HoldsKey(k) => req[k].key \notin unguarded'
  BY <1>1, <1>3, HeldKey DEF Fits
<1>21. unguarded' = unguarded /\ unguarded \subseteq 1..stored /\ typed' \in Nat
  BY <1>1, <1>3 DEF Typed
<1> QED
  BY <1>3, <1>4, <1>5, <1>7, <1>8, <1>9, <1>10, <1>12, <1>14, <1>15, <1>16, <1>17, <1>18, <1>19,
     <1>20, <1>21, WriteStep

\* The row refers to a secret that the route has removed, and nobody guards.
LEMMA LoseAnswerStep ==
  ASSUME Inv, NEW h \in Handlers, LoseAnswer(h)
  PROVE  Inv'
<1> DEFINE key == req[h].key
<1>1. /\ req[h].phase = "flushed" /\ Saved(h) /\ req' = [req EXCEPT ![h] = Idle]
      /\ holder' = [holder EXCEPT ![h] = 0] /\ vault' = vault \ Undone(h)
      /\ faulty' = TRUE /\ unguarded' = unguarded \cup {key}
      /\ UNCHANGED <<store, typed, stored, passed, bypassed>>
  BY DEF LoseAnswer, Become, Saved, Release
<1>2. PICK w : /\ RowWritten(w, key) /\ newest' \in 0..Len(rows')
               /\ rows'[w].ref = key /\ ~rows'[w].checked
               /\ w \in 1..Len(rows) => holder[h] = w
  BY <1>1, SavedRow
<1>3. Typed /\ Owned(h) /\ HoldsKey(h)
  BY <1>1 DEF Inv, HoldsKey
<1>4. key \in Int /\ key \in vault /\ key <= stored /\ key \in 1..stored
  BY <1>3, HeldKey DEF Typed
<1>5. req'[h] = Idle
  BY <1>1, <1>3 DEF Typed
<1>6. Owned(h)'
  BY <1>5, IdleType DEF Owned, HoldsKey
<1>7. SecretsAreThere' /\ Covered'
  <2>1. \A k \in Referred' : k = key \/ k \in Referred
    BY <1>2, <1>3, <1>4, WrittenRefs
  <2>2. \A k \in vault \ vault' : k = key
    BY <1>1 DEF Undone, Deleted
  <2>3. SecretsAreThere'
    BY <1>1, <2>1, <2>2 DEF Inv, SecretsAreThere
  <2> QED
    BY <1>1, <2>3 DEF Covered
<1>8. ConnectedIsTested'
  BY <1>1, <1>2, <1>4, WrittenConnected
<1>9. \A k \in Handlers \ {h} : ~(w \in 1..Len(rows) /\ holder[k] = w)
  BY <1>2 DEF Inv, Distinct
<1>10. \A k \in Handlers \ {h} :
         HoldsKey(k) => req[k].key \in vault' /\ req[k].key \notin unguarded'
  BY <1>1, <1>3, HeldKey DEF Inv, Distinct, Undone, Deleted
<1>11. bypassed' \in BOOLEAN /\ typed' \in Nat /\ vault' \subseteq vault
  BY <1>1, <1>3 DEF Typed
<1>12. \A k \in Handlers \ {h} :
         w \in 1..Len(rows) /\ holder[k] = w => rows'[w].ref = rows[w].ref
  BY <1>9
<1>13. RowWritten(w, key) /\ newest' \in 0..Len(rows')
  BY <1>2
<1>14. UNCHANGED <<store, stored>> /\ holder' = [holder EXCEPT ![h] = 0]
  BY <1>1
<1>15. req' = [req EXCEPT ![h] = Idle]
  BY <1>1
<1>16. Fits(h, key) /\ unguarded \subseteq unguarded' /\ unguarded' \subseteq 1..stored
  BY <1>1, <1>3, <1>4 DEF Fits, Typed
<1> QED
  BY <1>3, <1>4, <1>6, <1>7, <1>8, <1>10, <1>11, <1>12, <1>13, <1>14, <1>15, <1>16, IdleType,
     WriteStep

\* A request that holds no secret writes a row: a test keeps the reference of the
\* row it locks, and what create_provider_connection writes loses its guard.
LEMMA PlainWriteStep ==
  ASSUME Inv, NEW h \in Handlers, ~HoldsKey(h), req[h].phase # "committed",
         req' = [req EXCEPT ![h] = Idle],
         NEW l \in {0, holder[h]}, holder' = [holder EXCEPT ![h] = l],
         UNCHANGED <<store, vault, stored, faulty>>,
         NEW ref \in Int, ref <= stored, ref \in Exempt',
         \A k \in Handlers : HoldsKey(k) => req[k].key # ref,
         unguarded \subseteq unguarded', unguarded' \subseteq unguarded \cup {ref},
         unguarded' \subseteq 1..stored,
         NEW w, RowWritten(w, ref), newest' \in 0..Len(rows'),
         \A k \in Handlers \ {h} :
           w \in 1..Len(rows) /\ holder[k] = w => rows'[w].ref = rows[w].ref,
         typed' \in Nat, bypassed' \in BOOLEAN, bypassed => bypassed',
         w \in 1..Len(rows) /\ rows'[w].ref # rows[w].ref => bypassed',
         ConnectedIsTested'
  PROVE  Inv'
<1>1. Typed
  BY DEF Inv
<1>2. req'[h] = Idle /\ \A k \in Handlers \ {h} : req'[k] = req[k]
  BY <1>1 DEF Typed
<1>3. Owned(h)'
  BY <1>2, IdleType DEF Owned, HoldsKey
<1>4. SecretsAreThere'
  <2>1. \A k \in Referred' : k = ref \/ k \in Referred
    BY <1>1, WrittenRefs
  <2> QED
    BY <2>1 DEF Inv, SecretsAreThere, Exempt
<1>5. Covered'
  <2> SUFFICES ASSUME store = "local", ~faulty, ~bypassed', NEW k \in vault'
               PROVE  \/ k \in Referred'
                      \/ \E j \in Handlers : HoldsKey(j)' /\ req'[j].key = k
                      \/ \E j \in Handlers : req'[j].phase = "committed" /\ req'[j].previous = k
    BY DEF Covered
  <2>1. vault' \subseteq vault /\ ~bypassed
    OBVIOUS
  <2> QED
    BY <1>1, <1>2, <2>1, WrittenCovered
<1>6. \A k \in Handlers \ {h} : HoldsKey(k) => req[k].key \in vault' /\ req[k].key \notin unguarded'
  BY HeldKey
<1>7. Fits(h, ref)
  BY DEF Fits
<1> QED
  BY ZenonT(40), <1>1, <1>3, <1>4, <1>5, <1>6, <1>7, IdleType, WriteStep

LEMMA TestStep ==
  ASSUME Inv, NEW h \in Handlers, Test(h)
  PROVE  Inv'
<1> DEFINE r == req[h].row
           key == req[h].key
<1>1. PICK accepted \in BOOLEAN :
        /\ passed' = {p \in passed : p[1] # r} \cup (IF accepted THEN {<<r, key>>} ELSE {})
        /\ rows' = [rows EXCEPT ![r] =
             [@ EXCEPT !.status = IF accepted THEN "active" ELSE "error", !.checked = TRUE]]
  BY DEF Test
<1> DEFINE x == [rows[r] EXCEPT !.status = IF accepted THEN "active" ELSE "error",
                                !.checked = TRUE]
<1>2. /\ req[h].phase = "testing" /\ newest' = r
      /\ req' = [req EXCEPT ![h] = Idle] /\ holder' = [holder EXCEPT ![h] = 0]
      /\ UNCHANGED <<store, typed, vault, stored, faulty, bypassed, unguarded>>
  BY DEF Test, Become, Release
<1>3. Typed /\ Owned(h) /\ ~HoldsKey(h)
  BY <1>2 DEF Inv, HoldsKey
<1>4. r \in 1..Len(rows) /\ holder[h] = r /\ key = rows[r].ref
  BY <1>2, <1>3 DEF Owned
<1>5. rows[r] \in Rows
  BY <1>3, <1>4, RowTypes
<1>6. /\ x \in Rows /\ x.ref = rows[r].ref
      /\ x.status = IF accepted THEN "active" ELSE "error"
  BY <1>5 DEF Rows, Statuses
<1>7. rows' = [rows EXCEPT ![r] = x]
  BY <1>1
<1> HIDE DEF x
<1>8. RowWritten(r, None) /\ Len(rows') = Len(rows) /\ rows'[r] = x /\ Len(rows) \in Nat
  BY <1>3, <1>4, <1>6, <1>7, NoneIsInt, RowChanged
<1>9. newest' \in 0..Len(rows') /\ r \in Nat /\ r # 0
  BY <1>2, <1>4, <1>8
<1>10. \A p \in passed : p[1] # r => p \in passed'
  BY <1>1
<1>11. accepted => <<r, x.ref>> \in passed'
  BY <1>1, <1>4, <1>6
<1>12. ConnectedIsTested'
  BY <1>2, <1>6, <1>8, <1>10, <1>11, NoneIsInt, WrittenConnected
<1>13. rows'[r].ref = rows[r].ref
  BY <1>6, <1>8
<1>14. bypassed' \in BOOLEAN /\ (bypassed => bypassed')
  BY <1>2, <1>3 DEF Typed
<1>15. /\ None \in Int /\ None <= stored /\ None \in Exempt' /\ typed' \in Nat
       /\ unguarded' = unguarded /\ unguarded \subseteq 1..stored
  BY <1>2, <1>3 DEF Typed, Exempt, None
<1>16. \A k \in Handlers : HoldsKey(k) => req[k].key # None
  BY <1>3, HeldKey DEF Typed, None
<1> QED
  BY <1>2, <1>3, <1>8, <1>9, <1>12, <1>13, <1>14, <1>15, <1>16, PlainWriteStep

LEMMA ReplaceStep ==
  ASSUME Inv, NEW h \in Handlers, Replace(h)
  PROVE  Inv'
<1> DEFINE r == req[h].row
           i == req[h].importer
<1>1. /\ req[h].phase = "read" /\ req' = [req EXCEPT ![h] = Idle] /\ typed' = typed + 1
      /\ bypassed' = (bypassed \/ (r # 0 /\ rows' # rows))
      /\ UNCHANGED <<store, vault, stored, holder, passed, faulty>>
  BY DEF Replace, Become
<1>2. Typed /\ Owned(h) /\ ~HoldsKey(h) /\ req[h] \in Requests
  BY <1>1 DEF Inv, HoldsKey, Typed
<1>3. /\ r \in 0..Len(rows) /\ Len(rows) \in Nat /\ r \in Nat /\ newest \in 0..Len(rows)
      /\ i \in BOOLEAN /\ stored \in Nat
  BY <1>1, <1>2, RowTypes, RequestFields DEF Owned, Typed, Requests
<1>4. holder' = [holder EXCEPT ![h] = holder[h]]
  BY <1>1, <1>2 DEF Typed
<1>5. bypassed' \in BOOLEAN /\ (bypassed => bypassed') /\ typed' \in Nat
  BY <1>1, <1>2 DEF Typed
<1>6. PICK s \in Statuses, ref \in Typable :
        \/ /\ r = 0 /\ rows' = Append(rows, Row(ref, s, i))
           /\ newest' = IF i THEN newest ELSE Len(rows')
           /\ unguarded' = unguarded \cup ({ref} \cap 1..stored)
        \/ /\ r # 0 /\ IsFree(r)
           /\ rows' = [rows EXCEPT ![r].status = IF s = req[h].status THEN @ ELSE s,
                                   ![r].ref = IF ref = req[h].key THEN @ ELSE ref]
           /\ newest' = IF i THEN newest ELSE r
           /\ unguarded' = IF ref = req[h].key THEN unguarded
                           ELSE unguarded \cup ({ref} \cap 1..stored)
  BY DEF Replace
<1>7. ref \in {None, Env} \cup 1..stored
  BY <1>6 DEF Typable
<1>8. ref \in Int /\ ref <= stored
  BY <1>3, <1>7 DEF None, Env
<1>9. \A k \in Handlers : HoldsKey(k) => req[k].key # ref
  BY <1>2, <1>6, HeldKey DEF Typable, Typed, None, Env, HoldsKey
<1>10. /\ unguarded \subseteq unguarded' /\ unguarded' \subseteq unguarded \cup {ref}
       /\ unguarded' \subseteq 1..stored
  BY <1>2, <1>6 DEF Typed
<1>11. CASE r = 0
  <2> DEFINE x == Row(ref, s, i)
             w == Len(rows')
  <2>1. x \in Rows /\ x.ref = ref /\ x.checked = FALSE
    BY <1>3, <1>6, <1>8, IdleType
  <2>2. rows' = Append(rows, x)
    BY <1>6, <1>11
  <2> HIDE DEF x
  <2>3. RowWritten(w, ref) /\ w = Len(rows) + 1 /\ rows'[w] = x
    BY <1>2, <2>1, <2>2, RowAdded
  <2>4. newest' \in 0..Len(rows') /\ w \notin 1..Len(rows)
    BY <1>3, <1>6, <1>11, <2>3
  <2>5. ref \in Exempt'
    BY <1>6, <1>7, <1>11 DEF Exempt
  <2>6. ConnectedIsTested'
    BY <1>1, <1>5, <1>8, <2>1, <2>3, WrittenConnected
  <2> QED
    BY <1>1, <1>2, <1>4, <1>5, <1>8, <1>9, <1>10, <2>3, <2>4, <2>5, <2>6, PlainWriteStep
<1>12. CASE r # 0
  <2> DEFINE x == [rows[r] EXCEPT !.status = IF s = req[h].status THEN @ ELSE s,
                                  !.ref = IF ref = req[h].key THEN @ ELSE ref]
             y == IF ref = req[h].key THEN None ELSE ref
  <2>1. r \in 1..Len(rows)
    BY <1>3, <1>12
  <2>2. rows[r] \in Rows
    BY <1>2, <2>1, RowTypes
  <2>3. x \in Rows /\ (x.ref = y \/ x.ref = rows[r].ref) /\ y \in Int
    <3>1. PICK st : st = IF s = req[h].status THEN rows[r].status ELSE s
      OBVIOUS
    <3>2. PICK k : k = IF ref = req[h].key THEN rows[r].ref ELSE ref
      OBVIOUS
    <3>3. st \in Statuses /\ k \in Int
      BY <1>6, <1>8, <2>2, <3>1, <3>2 DEF Rows
    <3>4. x = [rows[r] EXCEPT !.status = st, !.ref = k]
      BY <3>1, <3>2
    <3>5. x \in Rows /\ x.ref = k
      BY <2>2, <3>3, <3>4 DEF Rows
    <3>6. y \in Int
      BY <1>8 DEF None
    <3>7. k = y \/ k = rows[r].ref
      BY <3>2
    <3> QED
      BY <3>5, <3>6, <3>7
  <2>4. rows' = [rows EXCEPT ![r] = x]
    BY <1>6, <1>12
  <2>5. y \in Exempt' /\ y <= stored /\ unguarded' \subseteq unguarded \cup {y}
    BY <1>3, <1>6, <1>7, <1>8, <1>12 DEF Exempt, None
  <2>6. \A k \in Handlers : HoldsKey(k) => req[k].key # y
    BY <1>2, <1>9, HeldKey DEF Typed, None
  <2> HIDE DEF x, y
  <2>7. RowWritten(r, y) /\ Len(rows') = Len(rows)
    BY <1>2, <2>1, <2>3, <2>4, RowChanged
  <2>8. newest' \in 0..Len(rows')
    BY <1>3, <1>6, <1>12, <2>1, <2>7
  <2>9. CASE rows' = rows
    <3>1. ConnectedIsTested'
      BY <1>1, <1>5, <2>9 DEF Inv, ConnectedIsTested
    <3> QED
      BY <1>1, <1>2, <1>4, <1>5, <1>10, <2>3, <2>5, <2>6, <2>7, <2>8, <2>9, <3>1, PlainWriteStep
  <2>10. CASE rows' # rows
    <3>1. bypassed' = TRUE
      BY <1>1, <1>12, <2>10
    <3>2. ConnectedIsTested'
      BY <3>1 DEF ConnectedIsTested
    <3>3. \A k \in Handlers : holder[k] # r
      BY <1>6, <1>12 DEF IsFree
    <3> QED
      BY ZenonT(40), <1>1, <1>2, <1>4, <1>5, <1>10, <2>3, <2>5, <2>6, <2>7, <2>8, <3>1, <3>2, <3>3, PlainWriteStep
  <2> QED
    BY <2>9, <2>10
<1> QED
  BY <1>11, <1>12

-----------------------------------------------------------------------------

LEMMA NextInv == Inv /\ [Next]_vars => Inv'
<1> SUFFICES ASSUME Inv, [Next]_vars PROVE Inv'
  OBVIOUS
<1>1. CASE UNCHANGED vars
  <2>1. UNCHANGED <<store, typed, vault, stored, rows, newest, holder, req, passed, faulty,
                  bypassed, unguarded>>
    BY <1>1 DEF vars
  <2>2. Typed'
    BY <2>1 DEF Inv, Typed
  <2>3. \A h \in Handlers : Owned(h)'
    BY <2>1 DEF Inv, Owned, HoldsKey, Referred, Exempt
  <2>4. \A h, k \in Handlers : Distinct(h, k)'
    BY <2>1 DEF Inv, Distinct, HoldsKey
  <2>5. RefsDiffer' /\ Covered'
    BY <2>1 DEF Inv, RefsDiffer, Covered, Referred, HoldsKey, Exempt
  <2>6. SecretsAreThere' /\ ConnectedIsTested'
    BY <2>1 DEF Inv, SecretsAreThere, ConnectedIsTested, Referred
  <2> QED
    BY <2>2, <2>3, <2>4, <2>5, <2>6 DEF Inv
<1>2. CASE Next
  <2>1. PICK h \in Handlers :
          \/ Store(h) \/ LockToConfigure(h) \/ FailFlush(h)
          \/ Commit(h) \/ FailCommit(h) \/ LoseAnswer(h) \/ CleanUp(h)
          \/ LockToTest(h) \/ Test(h)
          \/ ReadToReplace(h) \/ Replace(h) \/ RefuseReplace(h)
          \/ Find(h) \/ Resolve(h)
          \/ Die(h)
    BY <1>2 DEF Next
  <2> QED
    BY <2>1, StoreStep, LockToConfigureStep, FailFlushStep, CommitStep, FailCommitStep,
       LoseAnswerStep, CleanUpStep, LockToTestStep, TestStep, ReadToReplaceStep,
       ReplaceStep, RefuseReplaceStep, FindStep, ResolveStep, DieStep
<1> QED
  BY <1>1, <1>2

LEMMA AlwaysInv == Spec => []Inv
BY InitInv, NextInv, PTL DEF Spec

\* No rotation, failed commit, death or replacement deletes the secret a connection
\* uses, for any requests at once, unless create_provider_connection once wrote that
\* very reference into a row (it takes a deleted or a shared one), or the answer of
\* the commit that wrote it was lost.
THEOREM CredentialsExist == Spec => []SecretsAreThere
<1>1. Inv => SecretsAreThere
  BY DEF Inv
<1> QED
  BY <1>1, AlwaysInv, PTL

\* Without a fault or a bypassed rotation, the clean-up leaves no local secret behind.
THEOREM SecretsAreCleanedUp == Spec => []NoSecretIsForgotten
<1>1. Inv => NoSecretIsForgotten
  BY DEF Inv, Covered, NoSecretIsForgotten
<1> QED
  BY <1>1, AlwaysInv, PTL

\* A connection shown as connected passed its last test with the credentials it has
\* now: the row lock is held while the Portal answers.
THEOREM ConnectedMeansTested == Spec => []ConnectedIsTested
<1>1. Inv => ConnectedIsTested
  BY DEF Inv
<1> QED
  BY <1>1, AlwaysInv, PTL

=============================================================================
