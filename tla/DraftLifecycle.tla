--------------------------- MODULE DraftLifecycle ---------------------------
(***************************************************************************)
(* One NF-e draft from its validation to its signature and transmission,   *)
(* handled by concurrent requests (ImportProcessService, nfe_draft_routes).*)
(*                                                                         *)
(* No handler locks the draft row.  A request loads the draft (Load), runs *)
(* its service method on that copy while it queries the other tables       *)
(* (GenerateKey ... SoftDelete), and commits an UPDATE of the attributes it *)
(* changed together with its INSERTs (Commit), or rolls everything back.   *)
(* Unique constraints make a commit fail; they are the only thing that     *)
(* stops two requests which both passed their checks.                      *)
(*                                                                         *)
(* import_processes.status is left out: every handler here overwrites it   *)
(* and none reads it.  Time is the number of service methods that have run.*)
(***************************************************************************)
EXTENDS Integers, Sequences, FiniteSets

CONSTANTS
  Requests,     \* request handlers
  MaxClock,     \* bound: service methods that run
  MaxVersions,  \* bound: XML versions of the draft
  StampLag      \* how far back the time of a key generation may be rounded

ASSUME BoundsAssumption ==
         MaxClock \in Nat /\ MaxVersions \in Nat /\ StampLag \in Nat

VARIABLES
  draft,      \* the nfe_drafts row
  unsigned,   \* its UNSIGNED nfe_xml_versions, by version_number
  signed,     \* its SIGNED nfe_xml_versions: version_number -> access_key column
  issuance,   \* its nfe_issuances rows, by the unsigned version they are bound to
  lastNumber, \* current_number of the number sequence of its series
  req,        \* what each handler is doing
  clock,      \* the time
  lapses      \* history: the kinds of overlap that handlers have not noticed

vars == <<draft, unsigned, signed, issuance, lastNumber, req, clock, lapses>>

-----------------------------------------------------------------------------
(* Values *)

Ops == {"key", "xml", "xsd", "sign", "validate", "edit", "delete"}
Times == 0..MaxClock
Versions == 1..MaxVersions
Numbers == 0..MaxClock                     \* 0: no number reserved yet

\* An access key is its nNF and what else is drawn for it (the time, cNF).
Keys == [number : Numbers, drawn : Times]
NoKey == [number |-> 0, drawn |-> 0]

\* fiscal_payload: the edit it reflects, whether validate_nfe_payload accepts
\* it, and the key whose parts (cNF, nNF, cDV, dhEmi) its document section holds.
Payloads == [rev : Times, sound : BOOLEAN, key : Keys]

DraftStatuses == {"ready_for_xml", "validation_failed", "xml_generated", "signed",
                  "authorized", "rejected"}
Modes == {"active", "deleted", "archived"}
Drafts == [status : DraftStatuses, number : Numbers, key : Keys, payload : Payloads,
           stamp : Times, mode : Modes]

\* An unsigned version: the key in its Id, the payload and the time of its build.
XmlRows == [key : Keys, payload : Payloads, stamp : Times,
            xsd : {"unchecked", "valid", "invalid"}]

IssuanceStatuses == {"absent", "xsd_validated", "signed", "submission_pending",
                     "authorized", "rejected"}
IssuanceRows == [status : IssuanceStatuses, number : Numbers, key : Keys, tries : Nat]
Absent == [status |-> "absent", number |-> 0, key |-> NoKey, tries |-> 0]

\* Mutant: every column is written.
UpdateWholeRow(loaded, computed) == computed

\* The UPDATE of a unit of work: only the attributes that differ from the copy.
Update(loaded, computed) ==
  [f \in {g \in DOMAIN loaded : computed[g] # loaded[g]} |-> computed[f]]
Written(row, update) ==
  [f \in DOMAIN row |-> IF f \in DOMAIN update THEN update[f] ELSE row[f]]

NoRow == [key |-> NoKey, payload |-> [rev |-> 0, sound |-> FALSE, key |-> NoKey],
          stamp |-> 0, xsd |-> "unchecked"]
Idle == [phase |-> "idle", op |-> "validate", version |-> 0, xsd |-> "unchecked",
         view |-> << >>, insert |-> "nothing", update |-> << >>, row |-> NoRow, tries |-> 0,
         built |-> 0, sealed |-> {}]

-----------------------------------------------------------------------------
\* create_nfe_draft_from_duimp has committed a draft without a number.
Init ==
  /\ \E sound \in BOOLEAN :
       draft = [status  |-> IF sound THEN "ready_for_xml" ELSE "validation_failed",
                number  |-> 0, key |-> NoKey,
                payload |-> [rev |-> 0, sound |-> sound, key |-> NoKey],
                stamp   |-> 0, mode |-> "active"]
  /\ unsigned = << >>
  /\ signed = [v \in Versions |-> NoKey]
  /\ issuance = [v \in Versions |-> Absent]
  /\ lastNumber = 0
  /\ req = [r \in Requests |-> Idle]
  /\ clock = 0
  /\ lapses = {}

\* The route loads a draft that is not removed, and the XML version named in the
\* URL where it has one.
Load(r, op, v) ==
  /\ req[r].phase = "idle"
  /\ draft.mode = "active"
  /\ IF op \in {"xsd", "sign"} THEN v \in DOMAIN unsigned ELSE v = 0
  /\ req' = [req EXCEPT ![r] = [Idle EXCEPT !.phase = "loaded", !.op = op, !.version = v,
                                  !.view = draft,
                                  !.xsd = IF v = 0 THEN @ ELSE unsigned[v].xsd]]
  /\ UNCHANGED <<draft, unsigned, signed, issuance, lastNumber, clock, lapses>>

\* A ValueError, an IntegrityError or the death of the handler.
Rollback(r) ==
  /\ req[r].phase # "idle"
  /\ req' = [req EXCEPT ![r] = Idle]
  /\ UNCHANGED <<draft, unsigned, signed, issuance, lastNumber, clock, lapses>>

-----------------------------------------------------------------------------
(* The service methods *)

Sealed == {v \in Versions : signed[v] # NoKey}

\* Handler r runs the method op: its copy of the draft becomes computed, and it
\* will insert `insert`.  built and sealed, the versions it finds, are history.
Runs(r, op, computed, insert) ==
  /\ req[r].phase = "loaded"
  /\ req[r].op = op
  /\ clock < MaxClock
  /\ clock' = clock + 1
  /\ req' = [req EXCEPT ![r].phase = "done", ![r].update = Update(req[r].view, computed),
                        ![r].insert = insert.what, ![r].row = insert.row,
                        ![r].tries = insert.tries,
                        ![r].built = Len(unsigned), ![r].sealed = Sealed]
  /\ UNCHANGED <<draft, unsigned, signed, issuance, lastNumber, lapses>>

Nothing == [what |-> "nothing", row |-> NoRow, tries |-> 0]
Now == clock + 1

\* reserve_next_number waits while another transaction holds the sequence row.
SequenceIsFree ==
  \A q \in Requests : req[q].phase = "done" => "number" \notin DOMAIN req[q].update

\* generate_access_key_for_draft on the copy d: reserves a number if d has none,
\* always draws a new key, and dates the draft with a rounded local time.
Keyed(d, stamp) ==
  LET number == IF d.number = 0 THEN lastNumber + 1 ELSE d.number
      key == [number |-> number, drawn |-> Now]
  IN [d EXCEPT !.status = "ready_for_xml", !.number = number, !.key = key,
               !.payload.key = key, !.stamp = stamp]

MayBeKeyed(d) ==
  /\ d.status \in {"ready_for_xml", "xml_generated", "validation_failed"}
  /\ d.payload.sound
  /\ d.number = 0 => SequenceIsFree

GenerateKey(r) ==
  LET d == req[r].view IN
  /\ req[r].op = "key" /\ req[r].phase = "loaded"
  /\ MayBeKeyed(d)
  /\ \E stamp \in {t \in Times : Now - StampLag <= t /\ t <= Now} :
       Runs(r, "key", Keyed(d, stamp), Nothing)

\* The status validate_draft gives.
Validated(d) == IF d.payload.sound THEN "ready_for_xml" ELSE "validation_failed"

ValidateDraft(r) ==
  LET d == req[r].view IN
  /\ req[r].op = "validate" /\ req[r].phase = "loaded"
  /\ Runs(r, "validate", [d EXCEPT !.status = Validated(d), !.stamp = Now], Nothing)

\* generate_unsigned_xml: a key only if there is none, then the next version
\* number.  No status is refused.
GenerateXml(r) ==
  LET loaded == req[r].view
      d == IF loaded.key = NoKey THEN Keyed(loaded, Now) ELSE loaded
      row == [key |-> d.key, payload |-> d.payload, stamp |-> Now, xsd |-> "unchecked"]
  IN
  /\ req[r].op = "xml" /\ req[r].phase = "loaded"
  /\ loaded.key = NoKey => MayBeKeyed(loaded)
  /\ loaded.payload.sound
  /\ Len(unsigned) < MaxVersions
  /\ Runs(r, "xml", [d EXCEPT !.status = "xml_generated", !.stamp = Now],
          [what |-> "xml", row |-> row, tries |-> Len(unsigned) + 1])

\* validate_xml_version: the content decides, so a second check agrees.
ValidateXml(r) ==
  /\ req[r].op = "xsd" /\ req[r].phase = "loaded"
  /\ \E verdict \in {"valid", "invalid"} :
       /\ unsigned[req[r].version].xsd \in {"unchecked", verdict}
       /\ Runs(r, "xsd", req[r].view, [Nothing EXCEPT !.what = verdict])

\* _assert_draft_editable.
Frozen == {"signed", "authorized"}
Editable(d) == d.mode = "active" /\ d.status \notin Frozen

\* Mutant: an edit does not touch updated_at.
StampOfEditKept(d) == d.stamp
StampOfEdit(d) == Now

\* update_draft_metadata, update_draft_item and adjust_draft_item_tax.
Edit(r) ==
  LET d == req[r].view IN
  /\ req[r].op = "edit" /\ req[r].phase = "loaded"
  /\ Editable(d)
  /\ \E sound \in BOOLEAN :
       LET payload == [d.payload EXCEPT !.rev = Now, !.sound = sound] IN
       Runs(r, "edit", [d EXCEPT !.payload = payload, !.stamp = StampOfEdit(d),
                                 !.status = Validated([d EXCEPT !.payload = payload])],
            Nothing)

\* Mutant: signed XML does not protect.
ProtectedByStatus(d) == d.status \in Frozen

DeletionMode(d) ==
  IF d.number # 0 \/ d.key # NoKey \/ unsigned # << >> THEN "archived" ELSE "deleted"
Protected(d) == d.status \in Frozen \/ Sealed # {}

\* soft_delete_draft; the audit event is a revision of the payload.
SoftDelete(r) ==
  LET d == req[r].view IN
  /\ req[r].op = "delete" /\ req[r].phase = "loaded"
  /\ ~Protected(d)
  /\ Runs(r, "delete", [d EXCEPT !.mode = DeletionMode(d), !.stamp = Now,
                                 !.payload.rev = Now], Nothing)

-----------------------------------------------------------------------------
(* Signature, commit and transmission *)

\* Mutant: the signer does not compare the two times.
CurrentAlways(d, v) == TRUE

\* The XML is not older than the copy of the draft.
Current(d, v) == d.stamp <= unsigned[v].stamp

\* _issuance_for_signature returns the row bound to this very version, or none.
Bindable(v) ==
  \/ \A u \in Versions : issuance[u].status = "absent"
  \/ issuance[v].status # "absent"

\* sign_xml_version.  When signing fails the route still commits the failed
\* attempt and, the first time, the issuance.
Sign(r) ==
  LET d == req[r].view
      v == req[r].version
      try == [Nothing EXCEPT !.tries = issuance[v].tries + 1]
  IN
  /\ req[r].op = "sign" /\ req[r].phase = "loaded"
  /\ v = Len(unsigned) /\ req[r].xsd = "valid"
  /\ signed[v] = NoKey
  /\ Current(d, v)
  /\ Bindable(v)
  /\ \/ Runs(r, "sign", [d EXCEPT !.status = "signed", !.stamp = Now],
             [try EXCEPT !.what = "signature"])
     \/ Runs(r, "sign", d, [try EXCEPT !.what = "failure"])

\* uq_nfe_xml_version for SIGNED rows, uq_nfe_attempt_operation_number.
SignatureTaken(r) ==
  LET v == req[r].version IN
  \/ req[r].insert = "signature" /\ signed[v] # NoKey
  \/ req[r].tries <= issuance[v].tries

\* uq_nfe_issuance_fiscal_number and the unique access_key, for a new issuance.
IdentityTaken(r) ==
  /\ req[r].tries = 1
  /\ \E u \in Versions : /\ issuance[u].status # "absent"
                         /\ \/ issuance[u].number = req[r].view.number
                            \/ issuance[u].key = req[r].view.key

\* Mutant: issuances, attempts and signed versions have no unique constraint.
ConflictOfXmlOnly(r) == req[r].insert = "xml" /\ req[r].tries <= Len(unsigned)

\* A unique constraint refuses what handler r inserts.
Conflict(r) ==
  \/ req[r].insert = "xml" /\ req[r].tries <= Len(unsigned)
  \/ req[r].insert \in {"signature", "failure"} /\ (SignatureTaken(r) \/ IdentityTaken(r))

\* Handler r writes the draft although the payload it has loaded was replaced.
Outdated(r) == req[r].update # << >> /\ draft.payload # req[r].view.payload

\* Handler r changes the payload, and an XML version was stored since it ran.
Overtaken(r) == "payload" \in DOMAIN req[r].update /\ Len(unsigned) # req[r].built

\* Handler r draws a key whose rounded time is not later than a stored version.
Backdated(r) ==
  /\ "key" \in DOMAIN req[r].update
  /\ LET stamp == Written(draft, req[r].update).stamp IN
       /\ stamp # req[r].update.key.drawn
       /\ \E v \in DOMAIN unsigned : stamp <= unsigned[v].stamp

\* The order of the writes is not the order of their times.
Disordered(r) == Outdated(r) \/ Overtaken(r) \/ Backdated(r)

\* Handler r signs a draft removed since it was loaded, or removes one that was
\* signed since its check.
Crossed(r) ==
  \/ req[r].insert = "signature" /\ draft.mode # req[r].view.mode
  \/ "mode" \in DOMAIN req[r].update /\ Sealed # req[r].sealed

CommitDraft(r) ==
  /\ draft' = Written(draft, req[r].update)
  /\ lastNumber' = IF "number" \in DOMAIN req[r].update THEN req[r].update.number
                   ELSE lastNumber

CommitVersions(r) ==
  LET v == req[r].version IN
  unsigned' = CASE req[r].insert = "xml" -> Append(unsigned, req[r].row)
                [] req[r].insert \in {"valid", "invalid"} ->
                     [unsigned EXCEPT ![v].xsd = req[r].insert]
                [] OTHER -> unsigned

\* A new issuance takes the number and the key of the signer's copy; an existing
\* one only becomes "signed".
CommitSignature(r) ==
  LET v == req[r].version
      old == IF req[r].tries > 1 THEN issuance[v]
             ELSE [status |-> "xsd_validated", number |-> req[r].view.number,
                   key |-> req[r].view.key, tries |-> 0]
      new == [old EXCEPT !.tries = req[r].tries]
  IN CASE req[r].insert = "signature" ->
            /\ issuance' = [issuance EXCEPT ![v] = [new EXCEPT !.status = "signed"]]
            /\ signed' = [signed EXCEPT ![v] = req[r].view.key]
       [] req[r].insert = "failure" ->
            issuance' = [issuance EXCEPT ![v] = new] /\ UNCHANGED signed
       [] OTHER -> UNCHANGED <<issuance, signed>>

Commit(r) ==
  /\ req[r].phase = "done"
  /\ ~Conflict(r)
  /\ CommitDraft(r)
  /\ CommitVersions(r)
  /\ CommitSignature(r)
  /\ req' = [req EXCEPT ![r] = Idle]
  /\ lapses' = lapses \cup {l \in {"order"} : Disordered(r)} \cup {l \in {"removal"} : Crossed(r)}
  /\ UNCHANGED clock

\* transmit commits its intent if the newest signed XML carries the issuance's
\* key (SefazIssuance has the steps).
Transmit(v) ==
  /\ draft.mode = "active"
  /\ issuance[v].status = "signed"
  /\ signed[v] = issuance[v].key /\ unsigned[v].key = issuance[v].key
  /\ \A u \in Versions : u > v => signed[u] = NoKey
  /\ issuance' = [issuance EXCEPT ![v].status = "submission_pending"]
  /\ UNCHANGED <<draft, unsigned, signed, lastNumber, req, clock, lapses>>

\* _finish stores the verdict; it fails when the draft was removed meanwhile.
Finish(v) ==
  /\ draft.mode = "active"
  /\ issuance[v].status = "submission_pending"
  /\ \E verdict \in {"authorized", "rejected"} :
       /\ issuance' = [issuance EXCEPT ![v].status = verdict]
       /\ draft' = [draft EXCEPT !.status = verdict]
  /\ UNCHANGED <<unsigned, signed, lastNumber, req, clock, lapses>>

Method(r) ==
  \/ GenerateKey(r) \/ GenerateXml(r) \/ ValidateXml(r) \/ Sign(r)
  \/ ValidateDraft(r) \/ Edit(r) \/ SoftDelete(r)

Next ==
  \/ \E r \in Requests :
       \/ \E op \in Ops, v \in {0} \cup Versions : Load(r, op, v)
       \/ Method(r)
       \/ Commit(r)
       \/ Rollback(r)
  \/ \E v \in Versions : Transmit(v) \/ Finish(v)

Spec == Init /\ [][Next]_vars

-----------------------------------------------------------------------------
(* Types *)

\* The rows keep their types; an in-flight update only names draft columns.
TypeOK ==
  /\ draft \in Drafts
  /\ unsigned \in Seq(XmlRows) /\ Len(unsigned) <= MaxVersions
  /\ signed \in [Versions -> Keys]
  /\ issuance \in [Versions -> IssuanceRows]
  /\ lastNumber \in Numbers
  /\ clock \in Times
  /\ lapses \subseteq {"order", "removal"}
  /\ \A r \in Requests :
       /\ req[r].phase \in {"idle", "loaded", "done"}
       /\ req[r].op \in Ops
       /\ req[r].phase # "idle" => req[r].view \in Drafts
       /\ req[r].phase = "done" => Written(req[r].view, req[r].update) \in Drafts

-----------------------------------------------------------------------------
(* Properties under concurrent handlers *)

\* How far the issuance of a version has come.
Stage(v) ==
  CASE issuance[v].status = "absent" -> "unbound"
    [] issuance[v].status = "xsd_validated" -> "bound"
    [] issuance[v].status = "submission_pending" -> "sent"
    [] OTHER -> issuance[v].status

Promise == INSTANCE OneSignature WITH
  stage  <- [v \in Versions |-> Stage(v)],
  number <- [v \in Versions |-> issuance[v].number],
  key    <- [v \in Versions |-> issuance[v].key],
  seal   <- signed

\* Signers that passed their checks on stale rows, with each other or with a
\* transmission between, keep what OneSignature promises: one identity and one
\* signature per issuance, and the gate of transmit is never opened again.
SignsAsPromised == Promise!Spec

\* No stale copy brings a removed draft back, or takes its number or key away:
\* a handler writes only the columns it changed.
GainsAreKept ==
  [][/\ draft.mode # "active" => draft'.mode # "active"
     /\ draft.number # 0 => draft'.number # 0
     /\ draft.key # NoKey => draft'.key # NoKey]_vars

-----------------------------------------------------------------------------
(* Properties that an unnoticed overlap can break, and nothing else *)

\* The signed XML has the key of the issuance it was signed for; transmission
\* refuses any other XML, and nothing can replace a signed one.  It fails only
\* after two requests have written the draft against the order of their times.
SignedXmlHasIssuanceKey ==
  "order" \notin lapses =>
    \A v \in Versions : signed[v] # NoKey => unsigned[v].key = issuance[v].key

\* What gets signed was built from the present payload of the draft, unless the
\* payload changed while it was being signed, or writes went out of order before.
SignedXmlIsCurrent ==
  [][\A v \in Versions : signed[v] = NoKey /\ signed'[v] # NoKey =>
       unsigned[v].payload = draft.payload \/ "order" \in lapses']_vars

\* Claim of the editor's documentation: a signed draft is never removed.  Only a
\* removal and a signature that cross each other can make it untrue.
RemovedIsUnsigned ==
  draft.mode # "active" /\ "removal" \notin lapses => Sealed = {}
=============================================================================
