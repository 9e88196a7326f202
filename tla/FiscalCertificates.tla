------------------------- MODULE FiscalCertificates -------------------------
(***************************************************************************)
(* The A1 certificates of one importer in one environment                  *)
(* (FiscalCertificateRegistry): rows in PostgreSQL that point to material  *)
(* in a vault.  An upload writes the vault first, then the row; nothing    *)
(* covers both but the clean-up of the code.                               *)
(*                                                                         *)
(* A request reads a row, reads its material, and writes the attributes    *)
(* that differ from the copy it read.  activate locks its own row when its *)
(* query flushes the metadata, then the other rows it sees active.         *)
(***************************************************************************)
EXTENDS Integers, FiniteSets

CONSTANTS
  Requests,  \* request handlers
  Uploads,   \* references that the upload store makes up
  Listed,    \* references that an administrator may register
  Files,     \* A1 certificates, by their fingerprint
  None,      \* no fingerprint, no material, no reference
  MaxFaults  \* bound: dead handlers, failed commits and failed clean-ups

ASSUME ReferencesAssumption == Uploads \cap Listed = {}
ASSUME NoneAssumption == None \notin Files \cup Uploads \cup Listed
ASSUME FaultsAssumption == MaxFaults \in Nat

VARIABLES
  rows,    \* fiscal_certificates by certificate_ref, which is unique
  vault,   \* what each reference resolves to
  req,     \* what each handler is doing
  faults,  \* how much of MaxFaults is spent
  unsure   \* references whose commit was stored and reported as failed

vars == <<rows, vault, req, faults, unsure>>

-----------------------------------------------------------------------------
(* Values *)

Refs == Uploads \cup Listed
Statuses == {"absent", "pending_validation", "active", "disabled", "invalid"}
Rows == [status : Statuses, active : BOOLEAN, print : Files \cup {None}]
NoRow == [status |-> "absent", active |-> FALSE, print |-> None]
Stored == {c \in Refs : rows[c] # NoRow}

\* A unit of work writes the attributes that differ from the copy it loaded.
Written(stored, loaded, new) ==
  [f \in DOMAIN stored |-> IF new[f] = loaded[f] THEN stored[f] ELSE new[f]]

\* alone tells, for a property, that no other request overlapped so far.
Handlers == [phase : {"idle", "new", "loaded", "flushed", "chosen"},
             op    : {"upload", "register", "validate", "activate", "use"},
             ref   : Refs \cup {None}, view : Rows, read : Files \cup {None},
             found : SUBSET Refs, alone : BOOLEAN]
Idle == [phase |-> "idle", op |-> "use", ref |-> None,
         view |-> NoRow, read |-> None, found |-> {}, alone |-> FALSE]

\* Handler r begins a request, which overlaps every request in progress.
Begin(r, phase, op, ref, read) ==
  /\ req[r].phase = "idle"
  /\ req' = [q \in Requests |->
       IF q # r THEN [req[q] EXCEPT !.alone = FALSE]
       ELSE [phase |-> phase, op |-> op, ref |-> ref, view |-> rows[ref], read |-> read,
             found |-> {}, alone |-> \A p \in Requests : req[p].phase = "idle"]]

Advance(r, phase) == req' = [req EXCEPT ![r].phase = phase]
End(r) == req' = [req EXCEPT ![r] = Idle]

-----------------------------------------------------------------------------
\* The operator's own secrets exist or not; the registry has no row yet.
Init ==
  /\ rows = [c \in Refs |-> NoRow]
  /\ vault \in {v \in [Refs -> Files \cup {None}] : \A u \in Uploads : v[u] = None}
  /\ req = [r \in Requests |-> Idle]
  /\ faults = 0
  /\ unsure = {}

\* Mutant: references are numbered by the rows of the registry.
FreshInRegistry(u) == rows[u] = NoRow

\* store draws a token nobody else has: one no row, material or handler uses.
Fresh(u) ==
  /\ vault[u] = None /\ rows[u] = NoRow
  /\ \A q \in Requests : req[q].phase # "idle" => req[q].ref # u

\* upload up to the vault: the check for the fingerprint, then store.
Upload(r, u, f) ==
  /\ \A c \in Refs : rows[c].print # f
  /\ Fresh(u)
  /\ vault' = [vault EXCEPT ![u] = f]
  /\ Begin(r, "new", "upload", u, f)
  /\ UNCHANGED <<rows, faults, unsure>>

\* register, with references the administrator names: no material is read.
Register(r, c) ==
  /\ rows[c] = NoRow
  /\ Begin(r, "new", "register", c, None)
  /\ UNCHANGED <<rows, vault, faults, unsure>>

\* A unique index makes a writer wait for the transaction that is ahead of it.
Waits(r) ==
  \E q \in Requests \ {r} :
    /\ req[q].phase \in {"flushed", "chosen"}
    /\ req[q].ref = req[r].ref \/ (req[q].read # None /\ req[q].read = req[r].read)

\* Mutant: fingerprints are checked by the query of upload alone.
TakenAsReference(r) == req[r].phase = "new" /\ rows[req[r].ref] # NoRow

\* uq_fiscal_certificate_org_ref, uq_fiscal_certificate_client_fingerprint.
Taken(r) ==
  \/ req[r].phase = "new" /\ rows[req[r].ref] # NoRow
  \/ req[r].read # None /\ \E c \in Stored \ {req[r].ref} : rows[c].print = req[r].read

Flush(r) ==
  /\ req[r].phase = "new"
  /\ ~Waits(r) /\ ~Taken(r)
  /\ Advance(r, "flushed")
  /\ UNCHANGED <<rows, vault, faults, unsure>>

\* Mutant: a refused row leaves its material behind.
CleansUpNever(op) == FALSE

\* Material is deleted by the request that stored it.
CleansUp(op) == op = "upload"

\* What the clean-up makes of the vault; delete swallows its errors.
CleanedUp(r) == [vault EXCEPT ![req[r].ref] = IF CleansUp(req[r].op) THEN None ELSE @]

\* The IntegrityError of the flush.
InsertFails(r) ==
  /\ req[r].phase = "new"
  /\ ~Waits(r) /\ Taken(r)
  /\ \/ vault' = CleanedUp(r) /\ UNCHANGED faults
     \/ /\ req[r].op = "upload" /\ faults < MaxFaults
        /\ faults' = faults + 1
        /\ UNCHANGED vault
  /\ End(r)
  /\ UNCHANGED <<rows, unsure>>

NewRow(r) == [status |-> "pending_validation", active |-> FALSE, print |-> req[r].read]

Insert(r) ==
  /\ req[r].phase = "flushed" /\ req[r].op \in {"upload", "register"}
  /\ rows' = [rows EXCEPT ![req[r].ref] = NewRow(r)]
  /\ End(r)
  /\ UNCHANGED <<vault, faults, unsure>>

\* The commit of an upload raises, whether PostgreSQL stored the row or not, and
\* the route tries to delete the material.
CommitRaises(r) ==
  /\ req[r].phase = "flushed" /\ req[r].op = "upload"
  /\ faults < MaxFaults
  /\ \/ UNCHANGED <<rows, unsure>>
     \/ /\ rows' = [rows EXCEPT ![req[r].ref] = NewRow(r)]
        /\ unsure' = unsure \cup {req[r].ref}
  /\ faults' = faults + 1
  /\ vault' \in {vault, CleanedUp(r)}
  /\ End(r)

-----------------------------------------------------------------------------
(* Rows that exist *)

Usable(c) == rows[c].status = "active" /\ rows[c].active

\* get (active_for when a signature uses the certificate), then _load.  The
\* material may be unreadable, or expired; only validate goes on without it.
Load(r, op, c) ==
  /\ c \in Stored
  /\ op = "use" => Usable(c)
  /\ \E read \in {vault[c], None} :
       /\ op # "validate" => read # None
       /\ Begin(r, "loaded", op, c, read)
  /\ UNCHANGED <<rows, vault, faults, unsure>>

\* Handler r writes `new` over its copy of its own row.
Saved(r, new) == [rows EXCEPT ![req[r].ref] = Written(@, req[r].view, new)]

\* A statement of r fails on the fingerprint and the transaction rolls back.
UpdateFails(r) ==
  /\ req[r].phase = "loaded"
  /\ ~Waits(r) /\ Taken(r)
  /\ End(r)
  /\ UNCHANGED <<rows, vault, faults, unsure>>

Validated(r) ==
  IF req[r].read = None
  THEN [req[r].view EXCEPT !.status = "invalid", !.active = FALSE]
  ELSE [status |-> "pending_validation", active |-> FALSE, print |-> req[r].read]

\* validate; its failure is committed too.
Validate(r) ==
  /\ req[r].phase = "loaded" /\ req[r].op = "validate"
  /\ ~Waits(r) /\ ~Taken(r)
  /\ rows' = Saved(r, Validated(r))
  /\ End(r)
  /\ UNCHANGED <<vault, faults, unsure>>

\* apply_loaded_metadata, for a signature.
Use(r) ==
  /\ req[r].phase = "loaded" /\ req[r].op = "use"
  /\ ~Waits(r) /\ ~Taken(r)
  /\ rows' = Saved(r, [req[r].view EXCEPT !.print = req[r].read])
  /\ End(r)
  /\ UNCHANGED <<vault, faults, unsure>>

\* activate: its query first flushes the metadata, which locks the row.
FlushMetadata(r) ==
  /\ req[r].phase = "loaded" /\ req[r].op = "activate"
  /\ ~Waits(r) /\ ~Taken(r)
  /\ Advance(r, "flushed")
  /\ UNCHANGED <<rows, vault, faults, unsure>>

\* The other rows that the statement's snapshot shows active.
Others(r) == {c \in Refs \ {req[r].ref} : rows[c].active}

SelectOthers(r) ==
  /\ req[r].phase = "flushed" /\ req[r].op = "activate"
  /\ req' = [req EXCEPT ![r].phase = "chosen", ![r].found = Others(r)]
  /\ UNCHANGED <<rows, vault, faults, unsure>>

\* Mutant: the status changes and is_active is forgotten.
DisabledInStatus(row) == [row EXCEPT !.status = "disabled"]
Disabled(row) == [row EXCEPT !.status = "disabled", !.active = FALSE]

\* activate goes on when nobody else holds the rows it found; FOR UPDATE then
\* drops those that are no longer active.  Its own row is written by the copy.
Activate(r) ==
  LET own == Saved(r, [status |-> "active", active |-> TRUE, print |-> req[r].read]) IN
  /\ req[r].phase = "chosen"
  /\ \A q \in Requests \ {r} :
       req[q].phase \in {"flushed", "chosen"} => req[q].ref \notin req[r].found
  /\ rows' = [c \in Refs |-> IF c \in req[r].found /\ rows[c].active
                             THEN Disabled(rows[c]) ELSE own[c]]
  /\ End(r)
  /\ UNCHANGED <<vault, faults, unsure>>

\* Two activations that found each other's row: PostgreSQL ends one of them.
Deadlocked(r) ==
  /\ req[r].phase = "chosen"
  /\ \E q \in Requests \ {r} : /\ req[q].phase = "chosen"
                               /\ req[q].ref \in req[r].found /\ req[r].ref \in req[q].found
  /\ End(r)
  /\ UNCHANGED <<rows, vault, faults, unsure>>

Die(r) ==
  /\ req[r].phase # "idle"
  /\ faults < MaxFaults
  /\ faults' = faults + 1
  /\ End(r)
  /\ UNCHANGED <<rows, vault, unsure>>

Next ==
  \E r \in Requests :
    \/ \E u \in Uploads, f \in Files : Upload(r, u, f)
    \/ \E c \in Listed : Register(r, c)
    \/ Flush(r) \/ InsertFails(r) \/ Insert(r) \/ CommitRaises(r)
    \/ \E op \in {"validate", "activate", "use"}, c \in Refs : Load(r, op, c)
    \/ UpdateFails(r) \/ Validate(r) \/ Use(r)
    \/ FlushMetadata(r) \/ SelectOthers(r) \/ Activate(r) \/ Deadlocked(r)
    \/ Die(r)

Spec == Init /\ [][Next]_vars

-----------------------------------------------------------------------------
(* Types *)

\* Rows and requests keep their types; an activation never disables its own row.
TypeOK ==
  /\ rows \in [Refs -> Rows]
  /\ vault \in [Refs -> Files \cup {None}]
  /\ req \in [Requests -> Handlers]
  /\ \A r \in Requests : req[r].ref \notin req[r].found
  /\ faults \in 0..MaxFaults
  /\ unsure \subseteq Uploads

-----------------------------------------------------------------------------
(* Properties *)

\* A certificate is in the registry once, however uploads, registrations and
\* validations of the same file race: all may pass the query of upload.
OneRowPerCertificate ==
  \A c, e \in Stored : rows[c].print = rows[e].print /\ rows[c].print # None => c = e

\* The material of an uploaded row is never deleted by a request that failed,
\* except where a commit was stored and reported as failed.
RowsKeepTheirMaterial ==
  \A u \in Uploads \cap Stored : u \notin unsure => vault[u] # None

\* Private keys do not pile up in the vault: each one without a row is being
\* uploaded or is the fault of a dead handler or a failed clean-up.
Orphans == {u \in Uploads : /\ vault[u] # None /\ rows[u] = NoRow
                            /\ \A r \in Requests : req[r].phase = "idle" \/ req[r].ref # u}
OrphansAreFaults == Cardinality(Orphans) <= faults

\* An activation that overlaps no other request leaves its certificate the only
\* active one, and usable, whatever earlier races left behind.
ActivationAloneIsExclusive ==
  [][\A r \in Requests :
       req[r].phase = "chosen" /\ req[r].alone /\ req'[r].phase = "idle" /\ rows' # rows =>
         /\ {c \in Refs : rows'[c].active} = {req[r].ref}
         /\ rows'[req[r].ref].status = "active"]_vars
=============================================================================
