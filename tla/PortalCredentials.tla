------------------------- MODULE PortalCredentials -------------------------
(***************************************************************************)
(* The credentials of an organization for the Portal Unico: the secrets in *)
(* the vault, the connection rows that refer to them, and the requests     *)
(* that rotate, test, replace and use them (PortalUnicoSettingsService,    *)
(* the credential stores, ImportNfeService).                               *)
(*                                                                         *)
(* Vault and database share no transaction: a rotation stores the new      *)
(* secret, commits the reference and only then deletes the old secret.     *)
(* updated_at is taken moments before a commit; the order of commits       *)
(* stands for it.  One importer stands for those with a row of their own,  *)
(* which only create_provider_connection writes.                           *)
(***************************************************************************)
EXTENDS Integers, Sequences

CONSTANTS
  Handlers,  \* requests
  MaxKeys,   \* bound: secrets ever stored
  MaxRows,   \* bound: connection rows
  MaxTyped   \* bound: writes of create_provider_connection

ASSUME PortalCredentialsAssumption ==
  MaxKeys \in Nat /\ MaxRows \in Nat /\ MaxTyped \in Nat

VARIABLES
  store,     \* the provider of the vault: local files or Secret Manager
  vault,     \* secrets that exist, by reference
  stored,    \* secrets stored so far
  rows,      \* external_provider_connections of the organization, committed
  typed,     \* writes of create_provider_connection so far
  newest,    \* the general row (no importer) with the last updated_at; 0 without
  holder,    \* handlers that lock a row
  req,       \* what each handler is doing
  passed,    \* history: rows and references whose last test the Portal accepted
  faulty,    \* history: a handler died, or lost the answer to its commit
  bypassed,  \* history: create_provider_connection changed a row
  unguarded  \* history: references of the vault that create_provider_connection
             \* wrote, or a commit whose answer was lost

vars == <<store, vault, stored, typed, rows, newest, holder, req, passed, faulty, bypassed, unguarded>>

-----------------------------------------------------------------------------

\* The references of the vault are 1, 2, ...; a row may also have none, or one
\* that an administrator made up (env:NAME), whose secret is not in the vault.
None == 0
Env == -1

Statuses == {"active", "inactive", "error"}

Row(ref, status, importer) ==
  [ref |-> ref, status |-> status, checked |-> FALSE, importer |-> importer]

Idle == [phase |-> "idle", key |-> None, row |-> 0, previous |-> None,
         status |-> "active", importer |-> FALSE]

Init ==
  /\ store \in {"local", "managed"}
  /\ vault = {} /\ stored = 0 /\ typed = 0
  /\ rows = << >> /\ newest = 0
  /\ holder = [h \in Handlers |-> 0]
  /\ req = [h \in Handlers |-> Idle]
  /\ passed = {} /\ faulty = FALSE /\ bypassed = FALSE /\ unguarded = {}

IsFree(r) == \A h \in Handlers : holder[h] # r

Become(h, fields) == req' = [req EXCEPT ![h] = fields]

\* The transaction of h ends.
Release(h) == holder' = [holder EXCEPT ![h] = 0]

-----------------------------------------------------------------------------
(* configure *)

\* The new secret is stored before the row is read.
Store(h) ==
  /\ req[h].phase = "idle" /\ stored < MaxKeys
  /\ stored' = stored + 1
  /\ vault' = vault \cup {stored'}
  /\ Become(h, [Idle EXCEPT !.phase = "stored", !.key = stored'])
  /\ UNCHANGED <<store, typed, rows, newest, holder, passed, faulty, bypassed, unguarded>>

\* _connection(lock=True): without a row nothing is locked, and each of two
\* requests adds its own; the unique constraint ignores a null importer.
LockToConfigure(h) ==
  /\ req[h].phase = "stored"
  /\ newest = 0 => Len(rows) < MaxRows
  /\ newest # 0 => IsFree(newest)
  /\ holder' = [holder EXCEPT ![h] = newest]
  /\ Become(h, [req[h] EXCEPT !.phase = "flushed", !.row = newest,
                  !.previous = IF newest = 0 THEN None ELSE rows[newest].ref])
  /\ UNCHANGED <<store, typed, vault, stored, rows, newest, passed, faulty, bypassed, unguarded>>

\* Mutant: the outcome of the last test is kept.
ConfiguredAsTested(row, key) == [row EXCEPT !.ref = key, !.status = "active"]

\* New credentials are active, and no test has been made of them.
Configured(row, key) ==
  [row EXCEPT !.ref = key, !.status = "active", !.checked = FALSE]

Saved(h) ==
  LET r == req[h].row IN
  /\ rows' = IF r = 0 THEN Append(rows, Row(req[h].key, "active", FALSE))
             ELSE [rows EXCEPT ![r] = Configured(@, req[h].key)]
  /\ newest' = IF r = 0 THEN Len(rows') ELSE r
  /\ Release(h)

\* Secrets that cleanup_reference deletes: local ones only.
Deleted(key) == IF store = "local" THEN {key} ELSE {}

\* Mutant: a failed rotation removes the secret it was to replace.
UndonePrevious(h) == Deleted(req[h].previous)

\* What the route removes when its commit raises.
Undone(h) == Deleted(req[h].key)

Commit(h) ==
  /\ req[h].phase = "flushed"
  /\ req[h].row = 0 => Len(rows) < MaxRows
  /\ Saved(h)
  /\ Become(h, [req[h] EXCEPT !.phase = "committed"])
  /\ UNCHANGED <<store, typed, vault, stored, passed, faulty, bypassed, unguarded>>

\* The row cannot be read or flushed: configure itself deletes the new secret,
\* wherever it is.
FailFlush(h) ==
  /\ req[h].phase = "stored"
  /\ vault' = vault \ {req[h].key}
  /\ Become(h, Idle)
  /\ UNCHANGED <<store, typed, stored, rows, newest, holder, passed, faulty, bypassed, unguarded>>

\* The commit raises and nothing was committed.
FailCommit(h) ==
  /\ req[h].phase = "flushed"
  /\ vault' = vault \ Undone(h)
  /\ Release(h)
  /\ Become(h, Idle)
  /\ UNCHANGED <<store, typed, stored, rows, newest, passed, faulty, bypassed, unguarded>>

\* The commit raises, its answer being lost, after the database made it.
LoseAnswer(h) ==
  /\ req[h].phase = "flushed"
  /\ req[h].row = 0 => Len(rows) < MaxRows
  /\ Saved(h)
  /\ vault' = vault \ Undone(h)
  /\ faulty' = TRUE
  /\ unguarded' = unguarded \cup {req[h].key}
  /\ Become(h, Idle)
  /\ UNCHANGED <<store, typed, stored, passed, bypassed>>

\* Mutant: nobody deletes what was replaced.
ReplacedIsKept(h) == {}

Replaced(h) == Deleted(req[h].previous)

CleanUp(h) ==
  /\ req[h].phase = "committed"
  /\ vault' = vault \ Replaced(h)
  /\ Become(h, Idle)
  /\ UNCHANGED <<store, typed, stored, rows, newest, holder, passed, faulty, bypassed, unguarded>>

-----------------------------------------------------------------------------
(* Other requests *)

\* The row stays locked while the Portal answers.
LockToTest(h) ==
  /\ req[h].phase = "idle" /\ newest # 0 /\ IsFree(newest)
  /\ rows[newest].ref # None
  /\ holder' = [holder EXCEPT ![h] = newest]
  /\ Become(h, [Idle EXCEPT !.phase = "testing", !.row = newest, !.key = rows[newest].ref])
  /\ UNCHANGED <<store, typed, vault, stored, rows, newest, passed, faulty, bypassed, unguarded>>

\* test_connection: a secret that is gone is an error like a refusal.
Test(h) ==
  LET key == req[h].key IN
  /\ req[h].phase = "testing"
  /\ \E accepted \in BOOLEAN :
       /\ accepted => key \in vault \cup {Env}
       /\ passed' = {p \in passed : p[1] # req[h].row}
                      \cup (IF accepted THEN {<<req[h].row, key>>} ELSE {})
       /\ rows' = [rows EXCEPT ![req[h].row] =
                     [@ EXCEPT !.status = IF accepted THEN "active" ELSE "error",
                               !.checked = TRUE]]
  /\ newest' = req[h].row
  /\ Release(h)
  /\ Become(h, Idle)
  /\ UNCHANGED <<store, typed, vault, stored, faulty, bypassed, unguarded>>

ImporterRows == {r \in DOMAIN rows : rows[r].importer}

\* create_provider_connection reads the row of its context without a lock: the
\* importer's, or the newest general one,
ReadToReplace(h) ==
  /\ req[h].phase = "idle"
  /\ \E importer \in BOOLEAN, r \in DOMAIN rows \cup {0} :
       /\ IF importer THEN IF ImporterRows = {} THEN r = 0 ELSE r \in ImporterRows
                      ELSE r = newest
       /\ LET loaded == IF r = 0 THEN Row(None, "active", importer) ELSE rows[r] IN
          Become(h, [Idle EXCEPT !.phase = "read", !.row = r, !.importer = importer,
                       !.key = loaded.ref, !.status = loaded.status])
  /\ UNCHANGED <<store, typed, vault, stored, rows, newest, holder, passed, faulty, bypassed, unguarded>>

\* The references a request may bring: none, one that is not of the vault, and
\* every one of the vault, whether its secret still exists or not, except those
\* that no committed row has shown yet.
Typable ==
  {None, Env} \cup {k \in 1..stored :
                     \A h \in Handlers : req[h].phase \in {"stored", "flushed"} => req[h].key # k}

\* and writes what differs from what it read; the test of the credentials it
\* replaces stays on record, and their secret in the vault.
Replace(h) ==
  LET r == req[h].row IN
  /\ req[h].phase = "read" /\ typed < MaxTyped
  /\ typed' = typed + 1
  /\ \E status \in Statuses, ref \in Typable :
       /\ status = "active" => ref # None
       /\ \/ /\ r = 0 /\ Len(rows) < MaxRows
             /\ req[h].importer => ImporterRows = {}
             /\ rows' = Append(rows, Row(ref, status, req[h].importer))
             /\ newest' = IF req[h].importer THEN newest ELSE Len(rows')
             /\ unguarded' = unguarded \cup ({ref} \cap 1..stored)
          \/ /\ r # 0 /\ IsFree(r)
             /\ rows' = [rows EXCEPT
                  ![r].status = IF status = req[h].status THEN @ ELSE status,
                  ![r].ref = IF ref = req[h].key THEN @ ELSE ref]
             /\ newest' = IF req[h].importer THEN newest ELSE r
             /\ unguarded' = IF ref = req[h].key THEN unguarded
                             ELSE unguarded \cup ({ref} \cap 1..stored)
  /\ bypassed' = (bypassed \/ (r # 0 /\ rows' # rows))
  /\ Become(h, Idle)
  /\ UNCHANGED <<store, vault, stored, holder, passed, faulty>>

\* Another request has added the importer's row: the unique constraint refuses
\* a second one.
RefuseReplace(h) ==
  /\ req[h].phase = "read" /\ req[h].row = 0
  /\ req[h].importer /\ ImporterRows # {}
  /\ Become(h, Idle)
  /\ UNCHANGED <<store, typed, vault, stored, rows, newest, holder, passed, faulty, bypassed, unguarded>>

\* A DUIMP query takes an active row, of its importer or a general one,
Find(h) ==
  /\ req[h].phase = "idle"
  /\ \E r \in DOMAIN rows :
       /\ rows[r].status = "active" /\ rows[r].ref # None
       /\ Become(h, [Idle EXCEPT !.phase = "found"])
  /\ UNCHANGED <<store, typed, vault, stored, rows, newest, holder, passed, faulty, bypassed, unguarded>>

\* and then its secret, which may be gone by then: an error.
Resolve(h) ==
  /\ req[h].phase = "found"
  /\ Become(h, Idle)
  /\ UNCHANGED <<store, typed, vault, stored, rows, newest, holder, passed, faulty, bypassed, unguarded>>

\* A handler dies; the database rolls its transaction back.
Die(h) ==
  /\ req[h].phase # "idle"
  /\ faulty' = TRUE
  /\ Release(h)
  /\ Become(h, Idle)
  /\ UNCHANGED <<store, typed, vault, stored, rows, newest, passed, bypassed, unguarded>>

Next ==
  \E h \in Handlers :
    \/ Store(h) \/ LockToConfigure(h) \/ FailFlush(h)
    \/ Commit(h) \/ FailCommit(h) \/ LoseAnswer(h) \/ CleanUp(h)
    \/ LockToTest(h) \/ Test(h)
    \/ ReadToReplace(h) \/ Replace(h) \/ RefuseReplace(h)
    \/ Find(h) \/ Resolve(h)
    \/ Die(h)

Spec == Init /\ [][Next]_vars

-----------------------------------------------------------------------------
(* Properties *)

Referred == {rows[r].ref : r \in DOMAIN rows}

\* The secret a connection refers to exists: however rotations, failed commits,
\* deaths and replacements interleave, no clean-up deletes what a committed row
\* uses.  Two kinds of references are excepted, by value: those that
\* create_provider_connection ever wrote (it takes any, a deleted one or one that
\* another row uses and whose rotation deletes it), and the one that a commit
\* wrote whose answer was lost (see LoseAnswer).
SecretsAreThere == Referred \subseteq vault \cup {None, Env} \cup unguarded

\* A local secret that no row and no running request refers to is left by a
\* death, a lost answer or create_provider_connection, and by nothing else.
NoSecretIsForgotten ==
  store = "local" /\ ~faulty /\ ~bypassed =>
    vault \subseteq Referred \cup {req[h].key : h \in Handlers}
                             \cup {req[h].previous : h \in Handlers}

\* A connection shown as connected, and so ready for the DUIMP, has credentials
\* that the Portal accepted in their last test (README.md:301, :306-308), unless
\* create_provider_connection gave the row other credentials, or made it active
\* after a refusal: it does not forget the date of the test.
ConnectedIsTested ==
  \A r \in DOMAIN rows :
    rows[r].status = "active" /\ rows[r].checked => <<r, rows[r].ref>> \in passed \/ bypassed
=============================================================================
