# A TLA+ model of click-nfe-api

click-nfe-api is a Flask service that turns a Brazilian import declaration (DUIMP)
into import NF-es: it consults the customs portal, builds an NF-e draft, gives it a
number and an access key, builds, validates and signs its XML, sends it to SEFAZ and
learns SEFAZ's verdict. It runs under gunicorn with several processes of several
threads, on PostgreSQL at READ COMMITTED, with no queue, no scheduler and hardly any
row lock. Everything that is hard in it comes from there: requests that overlap, a
session that decides from rows it loaded before something else committed, calls to
SEFAZ whose outcome nobody knows, and a vault that no database transaction covers.

Paths below are relative to `src/`. `PROJECT.json` maps every definition to the lines
it models, every run to its configuration, and every hazard to its line.

## 1. Inventory

| Part | State it keeps | Operations | Where it is hard |
|---|---|---|---|
| SEFAZ transmission (`app/services/nfe_sefaz_issuance.py`, `nfe_sefaz.py`) | `nfe_issuances` (status, receipt, protocol), `nfe_issuance_attempts`, `nfe_issuance_events`, `nfe_protocols`, the authorized XML, and the status of draft and process | `transmit`, `reconcile`, `_finish`, `_uncertain` | a call between two commits; lost replies; dead workers; several requests; verdicts in any order |
| Issuance state machine (`nfe_issuance_state.py`) | a table of allowed steps | `transition` | no service calls it, so the table is a claim about the others |
| NF-e draft (`import_process.py` 250-323, 3889-4296, 4429-4790; `nfe_draft_routes.py`) | `nfe_drafts`, `nfe_xml_versions`, the issuance | access key, edits, validation, XML, XSD, signature, removal | nobody locks the draft; freshness by time stamps; unique constraints as the last defence |
| Number sequences (`nfe_number_service.py`) | `nfe_number_sequences` | `reserve_next_number`, `create_or_update_nfe_number_sequence` | row locks held to the end of a request; a row that does not exist cannot be locked; limits |
| Fiscal certificates (`fiscal_certificate_registry.py`, `fiscal_certificate.py`, `gcp_fiscal_storage.py`) | `fiscal_certificates` and a vault | `register`, `upload`, `validate`, `activate`, use | vault and database are not one transaction; activations that overlap |
| Import process (`import_process.py`, the rest) | processes, DUIMP snapshots, classifications, document plan with its children | some 40 service methods behind `import_process_routes.py` and `nfe_automation_routes.py` | a plan of children that is replaced while they are edited; a refresh that overlaps a fetch; batch operations |
| Tax rules (`nfe_tax_rule.py`, `import_process.py` 1243-1727, 2499-2794) | tax rules and item classifications | create, update, switch, resolve, classify | a conflict check that others' uncommitted rules escape; a revision made twice |
| Tax calculation (`import_tax_calculator.py`, `import_process.py` 3889-4427, 5205-5415, 5922-6048) | figures of a draft, in its item rows and again in `fiscal_payload` | sharing of expenses, ICMS, recalculation, adjustment by hand | sums that must close to the cent over any number of edits; two copies of each figure |
| Access key (`nfe_access_key_service.py`) | none | build, parse, check digit | arithmetic |
| Portal Unico settings (`portal_unico_settings.py`) | a row and a secret in the vault | rotate, validate, clean up | vault and database again |
| Portal Unico client (`integrations/portal_unico`) | the credential stores | authentication, versions and pages of a DUIMP, catalogue | pages that end early; a DUIMP rectified between two calls |
| Authentication (`auth.py`, `auth_routes.py`) | refresh tokens | login, refresh, logout | two refreshes of one token |
| Postal codes (`postal_code.py`) | a cache table | lookup | concurrent saves, freshness |
| DUIMP normalisation, XML building, signing, XSD, DANFE, fiscal reference tables, master data, configuration | little or none | transformations, plain CRUD | not concurrent behaviour |

How they interact: requests call the services in process; the services share rows in
PostgreSQL and nothing else. A draft reserves its number inside its own transaction; a
signature creates the issuance that transmission then owns; transmission writes back
to draft and process. The only network peers are SEFAZ, the customs portal, the postal
code providers and the vault.

What makes each modelled part correct:

* transmission: one POST per access key; no POST whose intent a crash could forget; a
  stored authorization is SEFAZ's, with its proof; a verdict is learnt in the end;
* draft: what is signed is the current XML, coherent, with the key of the issuance;
  what was signed or numbered does not silently disappear;
* numbers: unique, without unexplained holes, within nine digits, always forward;
* plan: one planned plan, one draft per document, drafts of a plan together;
* tax rules: one best rule per item, or a diagnosis; a classification shown as current is;
* figures: expenses shared to the cent and once, an XML whose totals are those of its
  items, adjustments by hand that stand;
* snapshots: complete, followed by the process, with what operators typed;
* Portal credentials: the secret in use exists, the replaced one is deleted, "connected"
  means tested;
* certificates: one row per certificate, material for each row, no private key left
  behind, one active certificate.

## 2. Modules

| Module | Models | Extends or instantiates |
|---|---|---|
| `NfeIssuanceState` | the table of allowed steps | |
| `OneShotTransmission` | the abstract promise: held, intended, posted, proved | |
| `SefazIssuance` | transmission and reconciliation of the children of one process, with SEFAZ and the network | `NfeIssuanceState`; `INSTANCE OneShotTransmission` |
| `SefazIssuance_proofs` | theorems about it | `SefazIssuance`, `TLAPS` |
| `OneSignature` | the abstract promise of the signature: an issuance bound, signed, sent, judged | |
| `DraftLifecycle`, `DraftLifecycle_proofs` | one draft from validation to signature, under concurrent requests, and its theorems | `INSTANCE OneSignature` |
| `NfeNumbering` | one number sequence in concurrent transactions | |
| `FiscalCertificates`, `FiscalCertificates_proofs` | the certificates of one importer, registry and vault, and its theorems | |
| `DocumentPlan`, `DocumentPlan_proofs` | the snapshots of one process, its document plans and the drafts of their documents, and its theorems | |
| `TaxRules`, `TaxRules_proofs` | tax rules, their conflict check and resolution, and classifications of items, and its theorems | |
| `ImportTaxes` | the arithmetic of shares and ICMS, in whole cents | |
| `DraftTaxes` | the figures of one draft from its creation through edits to an unsigned XML | `ImportTaxes` |
| `DraftFigures_proofs` | the theorems about `ImportTaxes`, `DraftTaxes` and `NfeNumbering` | `DraftTaxes`, `NfeNumbering`, `TLAPS` |
| `DuimpSnapshots`, `DuimpSnapshots_proofs` | the gateway's pages, snapshots, and the NF-e context of one process, and its theorems | |
| `PortalCredentials`, `PortalCredentials_proofs` | connection rows and vault of one organization, and its theorems | |
| `MC*` | values of the constants and symmetry sets for TLC | the module they are named after |

Each `*_proofs` module EXTENDS the module it is named after and `TLAPS`, and the
theorem modules of the library that it cites. `DraftFigures_proofs` holds the proofs of
two specifications, the taxes and the number of a draft; that is why the initial
predicate and the next-state relation of `NfeNumbering` are called `SequenceInit` and
`SequenceNext` and those of every other module `Init` and `Next`.

### How a request is modelled

Every module uses the same picture of a request, which is SQLAlchemy's unit of work
at READ COMMITTED. A handler has a *phase*. It reads rows (its `view`), computes what
it will write, and commits. An UPDATE names only the attributes whose new value
differs from the copy that was loaded (`Changed`/`Apply`, `Update`/`Written`): a value
that equals the stale copy is not written. This is the code's behaviour, not a
simplification, and it decides several properties: with whole-row writes `TypeOK` of
`SefazIssuance` and `GainsAreKept` of `DraftLifecycle` fail (two of the mutants).

A gunicorn worker may die at any point between commits; PostgreSQL then rolls back
what was not committed.

### SefazIssuance

`issuance`, `attempts`, `lastEvent`, `authorizedXml`, `draftStatus`, `processStatus`
are the rows; `req` the handlers; `sefaz`, `posts` what SEFAZ and the wire know.
`CommitIntent` is `transmit` up to its commit, with the conditional UPDATE as guard
(`Transmittable`); `SendPost` puts the XML on the wire; `CheckPending` and
`CommitQuery` are `reconcile` up to its commit, which reloads the issuance; `Answer`
and `LoseReply` end the call; `Decide` is the reading half of `_finish`/`_uncertain`
and `Commit`/`CommitFails` the writing half. `reconcile` decides from the row it
loaded before its query, `transmit` from a fresh one, as in the code. A reply is the
class its cStat falls into and whether it carries a receipt. SEFAZ answers a query by
receipt with the note's verdict and a query by key with a protocol or with "not found"
or any refusal, and it may refuse a receipt query itself (cStat 106, 656), which the code
takes for a rejection of the note; the history variable `misled` has the notes whose
query was so refused while SEFAZ had not rejected them. `NfeIssuanceState` is the table of
allowed steps; the audit trail (`lastEvent`) is compared with it in `VerdictsStand`.

`OneShotTransmission` states the promise without requests, rows or replies; the
mapping `Promise` derives its stage from the stored proof, the POSTs and the status.

### DraftLifecycle

`draft`, `unsigned`, `signed`, `issuance`, `lastNumber` are the rows of one draft. A
request is `Load`, one service method (`GenerateKey`, `ValidateDraft`, `GenerateXml`,
`ValidateXml`, `Edit`, `Sign`, `SoftDelete`) and `Commit` or `Rollback`. `Conflict` is
the unique constraints. `Transmit` and `Finish` stand for the steps that
`SefazIssuance` has in detail.

Time is a counter of service methods, for only comparisons matter (`Current`). A key
generation dates the draft with a time rounded to the second and the others do not, so
its stamp may lie up to `StampLag` methods back; it is 1 in both runs.

Nobody locks a draft, so writes may land in another order than the times they carry, and
a removal may cross a signature. The history variable `lapses` records when a commit
really does that, by the values that are written. "order" (`Disordered`): the handler
writes a draft whose payload was replaced since it loaded it (`Outdated`), or changes the
payload although an XML was stored after it computed (`Overtaken`), or draws a key whose
rounded stamp is not later than a stored version (`Backdated`). "removal" (`Crossed`): it
signs a draft removed since it was loaded, or removes one signed since its check. A mere
overlap is no lapse.

`import_processes.status` is left out: the handlers of this module all
overwrite it and none reads it. The content of a payload is the edit it reflects,
whether it would validate, and the key it names.

`OneSignature` states what a signature promises without drafts, copies or attempts: a
version is bound to a number and a key that no other has and that never change, it is
signed once, only what was signed with its own key is sent, and nothing that was sent is
signed again. The mapping `Promise` reads the stage from the status of the issuance.

### NfeNumbering

`row` is the sequence, `tx` the open transactions, `given` and `skipped` two history
variables. `Reserve` may happen several times in one transaction, as when several XMLs
are generated at once; it holds the row (`Free`) until `Commit` or `Rollback`.
`CreateOrUpdate` and `CreateOrUpdateAt` are the administrator's request without and
with a current number. An INSERT holds nothing that others can see. Only reserved numbers
are modelled: a draft whose payload names its number (`import_process.py:3762`, `:3819`)
reserves none and never touches the row (section 8).

### FiscalCertificates

`rows` are keyed by `certificate_ref`, which is unique per organization; `vault` says
what each reference resolves to. `Upload` is the fingerprint query and `store`;
`Flush`, `Insert`, `InsertFails`, `CommitRaises` are the outcomes of its database
half, with the clean-up of the vault. `CommitRaises` includes the commit that
PostgreSQL stored and the client saw fail. `Load` then `Validate` or `Use` are one
UPDATE; `activate` is `Load`, `FlushMetadata` (SQLAlchemy's autoflush, which locks the
own row), `SelectOthers` (the snapshot of its SELECT FOR UPDATE) and `Activate`.
`alone` is a history variable: no other request overlapped.

### DocumentPlan

`snapshots`, `plans` and `drafts` are the rows of one process in the order of their
commits; a document is a plan and an exporter. Making a plan is `SelectPlanned` (the
plans to supersede), `Supersede` (their UPDATE, flushed by the query of the version),
`InsertPlan` (plan, documents, and the UPDATE of the process) and `Commit`;
generate-drafts is `Draft`, then `Reuse` or `FindNone` and `Create` per document, then
`Commit`. simplified-prepare runs both in one transaction after a snapshot that it
commits first, and uses the drafts its session loaded when it showed the plan. Nobody
locks on purpose, but an UPDATE of the process or of a plan keeps its row until the
commit (`HoldsProcess`, `HeldPlans`): a fetch holds the process during its call to the
portal. `GiveUp` is every way to fail. `saw` and `checked` are history variables: how
many plans or drafts were committed when the request looked.

Left out: whether all items are classified (it can change at any time, so a request
that needs it goes on or gives up), the values of items and costs, the process status,
drafts made without a plan, and the XMLs, which `DraftLifecycle` has.

### TaxRules

`rules` and `rows` are the tax rules and the item classifications. `Applies`, `Score`
and `Best` are the resolution; `Ambiguous` is the conflict check of an administrator,
which compares two rules without an item. Administrators `Create`, or `Load` and then
`Update` or `Deactivate`, and `Commit`; the check runs before the commit and sees
committed rules only. Operators `Classify` and `CommitRow`. `raced` is a history
variable: which rules were stored by requests that missed each other's commit. An NCM is
a sequence of digits, a configuration the number of the edit that made it, a date a day.

### ImportTaxes and DraftTaxes

`ImportTaxes` has the two ways to share an expense (`Allocate` by largest fractions,
`AllocatePlanned` with the whole rest for the largest item) and the ICMS by CST, in
cents with ROUND_HALF_UP. An expense of zero is shared before any weight is looked at
(`Unshared`). `Before` is the order in which items get a missing cent: larger fraction
first, then the smaller number. The taxes that are copied from the DUIMP are one amount;
MVA, the reduction of the ST base and the ST retained before are left out.

`DraftTaxes` keeps the figures as the code does, in `rows` and in the payload of `draft`.
A draft is `Created` under one tax rule or several, if the items have the weights that
its expenses take (`Weighed`: the AFRMM goes by net weight, but an item alone in a draft
without a plan needs none); then requests `Load`, and
`UpdateCosts`, `UpdateItem`, `AdjustTax`, `Validate` or `GenerateXml`. An item without a
tax rule (`Ruled`) has the configuration of the simplified flow, and is calculated again
with the one its row remembers (`Configuration`); with exactly one rule all items share
the configuration of the first classification's item. `UpdateItem` changes the product
value, the amounts that count with the taxes (freight, insurance, discount) or the other
expenses, and recalculates nothing. `AdjustTax` takes an ICMS by rule or typed figures
(`Manual`): an exemption has no base, a deferment splits the amount, what was stored of
the substitution is kept. The item rows are
queried after the draft, so a commit may lie between the two reads (`Seen`). `own` and
`raced` are history variables.

### DuimpSnapshots

`portal` is the list of versions of the DUIMP, extended by rectifications at any time.
`Ask` and `ReadPage` are the gateway, used by a fetch (`LoadProcess`, the route's read;
`BeginFetch`, which locks the process row by writing it, perhaps after having waited with
that copy; `CommitFetch`) and by a context (`BeginContext`,
`Refresh`, `LockProcess`, `CommitContext`, or `Unanswered`). The fields that the NF-e
needs beside the items have a value and a source; operator overrides are carried over
by `Preserved`. `Manual` is a snapshot typed by hand or from a spreadsheet, committed from
such a copy too. `given`, `raced` and `backdated` are history variables.

### PortalCredentials

`configure` is `Store` (vault), `LockToConfigure` (SELECT FOR UPDATE), `Commit` or its
failures (`FailFlush`, `FailCommit`, `LoseAnswer`), and `CleanUp`. `LockToTest` and
`Test` hold the row while the Portal answers; `ReadToReplace`, `Replace` and
`RefuseReplace` are the older `create_provider_connection`, without a lock, which also
serves a row of an importer; `Find` and `Resolve` are the users. The reference that
`Replace` writes is anything that a request may name (`Typable`): none, one outside the
vault, the present one, that of another row, or one whose secret was deleted.
`passed`, `faulty`, `bypassed` and `unguarded` are history variables; `unguarded` has the
references of the vault that `create_provider_connection` wrote and those whose commit
lost its answer.

## 3. Runs

| Run | Instance | Shows |
|---|---|---|
| `verdict` | 1 note, 2 handlers, 6 attempts per operation, 1 fault, 2 inconclusive answers, with fairness | one POST, intent before POST, authorization backed, refinement of `OneShotTransmission`, final statuses agree with SEFAZ but for refused receipt queries, verdicts stand, and a verdict is learnt |
| `two_notes` | 2 notes, 2 handlers, 1 attempt, 1 fault | the process is never "authorized" before all its notes are |
| `draft_one_by_one` | 1 handler, 7 methods, 2 versions, stamps that lag | what is signed carries the issuance's key; a signed draft is not removed |
| `draft_two_handlers` | 2 handlers, 4 methods, 1 version, stamps that lag | refinement of `OneSignature`: nothing reopens a transmitted issuance; removal, number and key are never undone; what is signed is current unless writes went out of order |
| `numbering` | 2 handlers, limit 3 | unique, ordered, gapless, within the limit |
| `certificates` | 2 handlers, 2 uploads, 1 registered reference, 2 files, 1 fault | one row per certificate, material kept, no orphans, an undisturbed activation is exclusive |
| `plan_two_handlers` | 2 handlers, DUIMPs of 1 or 2 exporters, 2 snapshots, 2 plans, 3 drafts | one plan and one draft per document unless requests overlapped, drafts follow the newest plan, a plan is drafted whole |
| `tax_rules` | 2 administrators, 1 operator, 2 rules, 5 scopes, 2 edits | what is shown as classified is current; two best rules come only from requests that overlapped, and are always diagnosed |
| `draft_taxes` | 2 handlers, 2 items, CSTs 70 and 51, typed 51 and 41, one rule and an item without, 2 edits | an XML adds up whatever overlapped before it; shares are exact over edits; adjustments stand; the ICMS is inside its base |
| `portal` | 2 handlers, 2 secrets, 2 rows, 2 typed connections, both vaults | no secret in use is deleted but a typed one, none is forgotten without a fault, "connected" means tested |
| `duimp_snapshots` | 2 handlers, DUIMPs of 1 and 3 items, pages of 2, 2 versions, 2 snapshots, 2 contexts | snapshots are complete, overrides survive refreshes, process and snapshots agree unless requests overlap |
| `afrmm_by_weight` | 1 handler | a violation: see section 6 |

Why the bounds suffice. Two handlers give every overlap of two requests, and the
hazards found so far need no third (the exceptions are named in section 5). One note
is enough where notes do not interact; they interact only through the process status,
hence `two_notes`. Six attempts leave room for the transmission and for polling on both
kinds of query until the fairness, not the bound, ends it; one fault is a lost reply or
a dead worker. In `numbering` the limit 3 lets a sequence start, be re-based, run full
and overflow, and inputs range from -1 to one above the limit. Seven methods are
enough for a key, an XML, its check, an edit, a second XML, its check and a signature.
`draft_two_handlers` has one version, so that one issuance never takes the identity of
another is there by lack of a second; it also holds with two versions and four methods
(1.7 million states), and `SignatureKeepsPromise` proves it for any number of them.
In `tax_rules` the scopes are chosen so that two of them tie (a prefix they share among
others, which only a comparison of all patterns finds), rank (by modality) or are
separated by a period; two edits are a creation each, or a creation and a change.
In `draft_taxes` the heavier of two items is the cheaper one; one item has a tax rule and
the other the configuration of the simplified flow, so the creation computes both with one
configuration and a recalculation each with its own. (`afrmm_by_weight` has an item for
each of two rules.) The expenses do not divide
or are zero, a rectified expense may leave the other unmentioned, typed figures are a
deferment or an exemption, and one of the two edits
may be a revision of the rule; that makes 527,735 distinct states in about two minutes. In `duimp_snapshots` three items in pages of two make a full page,
a last short one and, when the Portal sends less, a premature one; two versions are one
rectification. Two secrets in `portal` are one in use and a rotation, and two typed
connections are enough to post a deleted reference back, or to give an importer's row the
secret of the general one before that is rotated: without its exceptions `SecretsAreThere`
fails in both ways. A second rotation in one behaviour is left to `CredentialsExist`.
Handlers are interchangeable and so are files, rules and made-up references (symmetry);
no symmetry is used in the run with liveness.

`CHECK_DEADLOCK FALSE` is set where the bounds on attempts, methods, edits or numbers
make the system stop; `certificates`, `portal` and `duimp_snapshots` check deadlock.

### Fairness

Only `verdict` assumes it (`FairSpec`). A handler that started goes on unless it dies,
SEFAZ decides what it queued and answers in the end (answers that teach nothing are
bounded by `MaxWaits`, faults by `MaxFaults`), and somebody polls a note that is
pending. The last is what `docs/SEFAZ_TRANSMISSION.md:19-22` describes: the panel
polls while it is open, and an operator can query at any time; the service itself has
no scheduler, so nothing weaker would do. Signing and transmitting have no fairness.

## 4. Proofs

TLAPS checks the theorems below for every value of the constants: any set of notes,
handlers, references, rules, items or DUIMPs, and any bounds.

| Module | Theorems |
|---|---|
| `SefazIssuance` | `TypeCorrect`, `OnePost`, `IntentFirst`, `AuthorizedBacked`, and `ServiceKeepsPromise`, the refinement of `OneShotTransmission`; `FinalStatusIsTrue`, `AggregateIsTrue`, `VerdictsAreKept` |
| `NfeNumbering` | `NumberingTypeCorrect`, `UniqueNumbers`, `Gapless`, `NumbersWithinLimit`, `ProgressKept` |
| `DraftLifecycle` | `TypeCorrect`, `GainsKept`, and `SignatureKeepsPromise`, the refinement of `OneSignature`; `SignedXmlIsBound`, `RemovedDraftsAreUnsigned`, `SignedXmlIsUpToDate` |
| `FiscalCertificates` | `TypeCorrect`, `CertificatesAreUnique`, `MaterialIsKept`, `OrphansAreBounded`, `ActivationIsExclusive` |
| `PortalCredentials` | `CredentialsExist`, `SecretsAreCleanedUp`, `ConnectedMeansTested` |
| `ImportTaxes` | `AllocationIsExact`, `PlannedAllocationIsExact` |
| `DraftTaxes` | `XmlBalanced`, `SharesExact`, `IcmsInside`, `AdjustmentsKept` |
| `TaxRules` | `TiedRulesAreAmbiguous`, `ClassificationsAreCurrent`, `TiesComeFromRaces`, `TiesAreShown` |
| `DuimpSnapshots` | `ReadsAreWhole`, `OverridesAreKept`, `ProcessIsCurrent`, `TwinsComeFromRaces` |
| `DocumentPlan` | `TypeCorrect`, `PlansComeFromRaces`, `TwinsComeFromRaces`, `DraftsAreOfTheNewest`, `PlansAreDraftedWhole` |

### Assumptions

Each module states as ASSUME what its proofs use of the constants, and TLC evaluates it
in every run: bounds are natural numbers; there is a child to transmit and a page holds
an item; the references that uploads make up are not among the registered ones, and
administrators of tax rules are other requests than operators; NCMs are sequences of
digits and dates are numbers; "none" is not a value; the items of a draft are finitely
many and at least one; the values, the weights and the informed expenses of a DUIMP are
not negative and some item is worth something; a tax rule has what its CST needs
(`Accepted`, which the calculator checks before it computes), and an operator types
positive amounts, and a rate between 1 and 99 unless the CST is exempt.

No theorem has a hypothesis of its own: handlers overlap, stamps lag and SEFAZ refuses as
they may. Where the code fails in some case, the property names the case by a history
variable of the module (`misled`, `lapses`, `unguarded`, `unsure`, `raced`, `backdated`),
which is set by the step that does the harm, and section 5 says what happens then.

### Why the properties hold

In every module a handler decides in one state and writes in another. So no property
below is inductive as it stands: the invariant has to say what each handler holds, and
why that is still true when it is written.

**One POST.** A state with one POST and the issuance still "signed" satisfies
`AtMostOnePost`. `PostInv` adds that a note still held has no POST and no handler
(`HeldIsUntouched`), that a committed intent belongs to one handler that has not sent yet
(`IntentIsExclusive`), that what was never sent is unknown to SEFAZ (`UnsentIsUnknown`),
that an intent has its attempt (`IntentIsRecorded`), and, the part that matters for stale
writers, that no handler is about to write "absent" or "signed" (`WritesMoveOn`).

**Authorization is backed.** `EvidenceInv` adds to it that replies, loaded views and
pending writes are true: a reply "authorized" is SEFAZ's (`RepliesAreTrue`), a protocol
seen before the query is still stored (`ViewsAreTrue`), and a pending write of
"authorized" either brings the proof or the proof is stored (`WritesAreTrue`). The
refinement then follows step by step: each action maps to Intend, Post, Judge, Prove or
a stutter.

**Verdicts.** `VerdictInv` adds the same for the other verdicts (`HandlerAgrees`): a
query by receipt is made only with a receipt, since nothing removes one, so its refusal
is the note's or the note is on record as `misled`; the row a handler loaded and the status it will write agree with SEFAZ,
which never takes a verdict back because the note is sent once; and the drafts that an
aggregate "authorized" counted stay authorized until it is stored. A handler that loaded a
verdict can therefore write none but "processing".

**Numbers.** The inductive invariant is that only one transaction holds the row
(`RowLocked`), that a pending reservation continues the committed row exactly
(`PendingRows`), that nothing was given before the row exists (`EmptyRow`), and `NoHoles`. Uniqueness follows
from lock and continuation; the bounds from the type invariant, which contains the
limits each written row satisfies (`InRange`).

**The draft.** With overlapping requests: an UPDATE names only the columns that its
method changed, and none of them to a loss (`InFlight`); an issuance past
"xsd_validated" has its signed version, so the unique constraint refuses a second
signature (`Bound`). Every attempt to sign is counted and the counts are unique, so a
commit that binds an issuance is of the first attempt, and one that finds it bound writes
neither number nor key (`Attempts`); each commit is then a step of `OneSignature` or a
failed attempt that it does not see.

That what is signed is current is an argument about time (`Chronicle`). A method computes
at a time later than all that it saw (`Timed`). As long as no write went out of order
(`Ordered`), an XML that does not reflect the draft is older than the draft's stamp and
than the last change of its payload (`Reflects`), and what a signer loaded reflects the
XML it was asked to sign, or is newer (`Seen`). So the signer's comparison of two times
tells whether the contents agree, although it was made from a stale copy. A signed version
has its issuance, and what was removed had no signature unless the two crossed (`Kept`).

**Certificates and credentials.** What is in the vault belongs to exactly one request or
row at a time. A request that has flushed holds its reference and its fingerprint
against every other (`Apart`, and `Distinct` for the credentials); an upload's reference
has no row before its commit (`Holds`), and a rotation replaces the very reference it
locked (`Owned`). So a clean-up deletes nothing that a row uses. Every secret has an owner
(`Covered`), or a fault has paid for it (`FewOrphans`). A reference that somebody typed
into `create_provider_connection` has no such owner and is `unguarded` from then on; of
two rows with the same reference it is always that one (`RefsDiffer`).

**Tax rules.** One half is about data: two rules with the best score of an item match it
with the same pattern, so a check that never sees an item finds them
(`TiedRulesAreAmbiguous`). The other is about handlers: contents that wait for their
commit were compared with every rule as it is now, or the handler is on record as having
missed that rule's commit (`Known`, `Compared`); a classification has an older revision
than its rule, or the configuration of it (`Follows`).

**Snapshots.** The items read are the first ones of the version that was announced,
whatever is registered meanwhile (`Reading`). While a handler has missed no commit, what
it remembers of process and snapshot is what they are (`Fresh`), so its commit continues
them; every other handler has then missed it.

**Plans.** Rows are only added, plans only lose "planned" and drafts only "active", so
what a request found stays true of the rows it could see. It supersedes every plan
still planned among them (`Looked`), hence plans stop being planned from the oldest on
(`Rows`); each document of its plan is to do, done by it, or had a draft before
(`Covers`). One request at a time has updated the process row, which keeps the bounds
(`Room`).

**Figures.** The arithmetic comes first. A total is a fold over a function, so what holds
of it goes by induction over the subsets of its domain; the induction is over sets, as a
well-founded relation, which the provers can instantiate where they cannot one over a
predicate. The cut of each share to whole cents loses less than a cent, so fewer cents
are missing than there are items (`CentsLeft`), and in a strict order exactly the first
so many items have fewer than that many before them (`FirstPlaces`): `Allocate` gives each
missing cent to one item, and the shares add up. The ICMS inside its own base is rounded
two or three times; each rounding is off by half a cent at most, and at any rate and
reduction the sum of the errors stays under two cents.

Then the draft. As long as no handler wrote after it had missed a commit, a handler that is
not late holds the draft and the rows as they are (`Holds`), so payload and rows agree
(`Exact`) and an edit keeps them so. After a first race they may disagree. What is left
is still enough: each row has an ICMS that was computed as a whole (`Rowed`), no request
changes the declared ICMS (`Paid`), and an XML is printed only of rows and a payload that
the request itself found balanced (`Printed`). So `XmlIsBalanced` and `IcmsIsInside` need
no hypothesis about overlaps, and `SharesAreExact` needs it.

TLC checked each of these invariants on the instance of a run before it was proved.

### Only model-checked

* `VerdictIsLearnt`: liveness, and with it ENABLED, is outside what the prover does.

Every other property of a passing run is a theorem.

## 5. Known limits of the properties

* When SEFAZ refuses a query by receipt itself (cStat 106, 656), the code stores a rejection
  of the note (`nfe_sefaz_issuance.py:267`), which may be wrong and ends the polling.
  `FinalStatusAgrees`, `ProcessAuthorizedIsSound`, `VerdictsStand` and `VerdictIsLearnt`
  except the notes to which that happened (`misled`) and no others.
* `VerdictIsLearnt` is about authorized and denied notes. A rejected note whose receipt
  was lost is queried by key, which never proves a rejection: it stays "processing".
* That all authorized children make the process authorized does not hold: two siblings
  may each count the other as missing, and nothing repairs it. The run proves the other
  direction.
* `VerdictsStand` lets an issuance go from a verdict back to "processing": a time-out, or
  any outcome that teaches nothing, may be stored after another request stored the
  verdict (`nfe_sefaz_issuance.py:206`). `VerdictIsLearnt` shows that polling repairs it.
* `SignedXmlHasIssuanceKey` and `SignedXmlIsCurrent` except drafts whose writes went out of
  the order of their times, `RemovedIsUnsigned` a removal and a signature that crossed
  (`lapses`); there they do fail. A key regenerated
  while an XML is built escapes the freshness check (`import_process.py:4608`), and a
  removal that overlaps a signature leaves a removed draft with a signed XML, against
  `docs/NFE_DRAFT_EDITOR.md:36`. In the same way a removal that overlaps the first key
  generation leaves a draft "deleted" with a number, and two overlapping first
  generations followed by a third request leave a key made of another number than the
  draft's. A key generation may also undo an edit that it overlaps.
* An issuance per draft is not enforced by a constraint; producing two takes three
  handlers and is not in the runs.
* A sequence's series is compared as text while an issuance pads it; `NfeNumbering` has
  one row, so two spellings of one series are outside it.
* `RowsKeepTheirMaterial` excepts uploads whose commit was stored and reported as failed
  (`unsure`): the route deletes the material of such a row.
* When an activation of an active certificate overlaps the activation of another, none
  may stay active, for the stale copy makes the first write nothing; a validation that
  overlaps an activation may leave `status` and `is_active` in disagreement. Neither
  survives the next undisturbed activation (`ActivationAloneIsExclusive`).
* `PlannedTogetherOverlapped` and `TwinDraftsOverlapped` say when two planned plans or two
  active drafts of one document are possible: requests that overlap do make them, no
  constraint refuses them, and nothing repairs them until the next plan or removal. A
  plan may also be replaced after its drafts were transmitted; no text of the repository
  says otherwise. With two plans the run has the overlap of two first plans; that of two
  plans that both supersede a third needs `MaxPlans = 3`, which holds too and takes
  too long to be part of the runs.
* `TaxRules`: without a date, as when the DUIMP has none, two rules of disjoint periods
  tie although nothing is wrong with them; the properties are about dated items, as in
  the run. Two overlapping updates of one rule make one revision of two contents; then a
  stale classification looks current, which `ClassifiedIsCurrent` excepts. The
  re-association of simplified items is left out.
* `DraftTaxes`: a recalculation uses the present configuration of a rule and the creation
  its snapshot, so an edit of the expenses may change the ICMS by itself; CST 51 shares
  one base at creation and computes a base per item afterwards, so the cents may move;
  `update_draft_item` changes a figure and recalculates nothing. None of these makes a
  total differ from its items. A full reduction under CST 51, which the calculator only
  diagnoses instead of blocking, is not among the configurations. Two requests that
  overlap may leave rows of one with totals of the other until the next validation;
  `XmlIsBalanced` shows that no XML is made of them.
* `PortalCredentials`: a commit that the database made and whose answer is lost makes the
  route delete the secret that the row now uses (`LoseAnswer`). `create_provider_connection`
  takes any reference (`import_process.py:1166`, `:1206`): one read before a rotation and
  posted back after it names a deleted secret, and a row of an importer that shares the
  general row's reference loses its secret in the next rotation. `SecretsAreThere` excepts
  these references (`unguarded`), by value. `create_provider_connection` also keeps the date of the last test, can make a row active
  after a refused test, and leaves the replaced secret in the vault; two first saves add
  two rows, for the unique constraint ignores a NULL importer. A managed vault keeps
  replaced secrets by design.
* `DuimpSnapshots`: a plain fetch starts without the operator's overrides; refreshing an
  older snapshot by name, when its answer is unchanged, sets the version of the process
  back (`backdated`); a catalogue that does not answer during a refresh makes a poorer
  snapshot of the same version; a refresh does not apply the simplified classifications
  again; values from other services may vanish in an unchanged refresh; and the failed
  status and log entry of a query are rolled back by the route
  (`import_process.py:1850`).

## 6. Where code and repository disagree

Shown by a run:

* `afrmm_by_weight`: the first edit of the additional costs replaces the items of the
  payload by copies of the rows, which have no net weight (`import_process.py:5922-5946`).
  From the second edit on the AFRMM is shared by product value (`:5993`), against
  `docs/NFE_IMPORT_TESTING.md:224-225`. In the run every item weighs something: the first
  edit clears the AFRMM, the second enters it again, and its shares, 7 to 3 by weight, become
  3 to 7 by value. Nothing needs to overlap.

Also found while modelling, the first four with counterexamples of TLC against what
the quoted lines say:

* A late outcome that teaches nothing moves an authorized issuance back to "processing"
  (`nfe_sefaz_issuance.py:206`), which `nfe_issuance_state.py` and its test
  (`tests/unit/test_nfe_issuance_state.py:52`) forbid. Later polling repairs it.
* `validate_draft` and `generate_unsigned_xml` accept a draft in any status, an
  authorized one too, and make it editable again (`import_process.py:4434`), against
  `docs/architecture/NFE_ISSUANCE_ARCHITECTURE.md:35`.
* A key regenerated while an XML is built is not seen by the freshness check
  (`import_process.py:4608-4611`): the signature is accepted, the note can never be
  transmitted (`nfe_sefaz_issuance.py:103`) and nothing replaces the signed XML.
* Two activations that overlap leave two active certificates, against
  `docs/NFE_IMPORT_TESTING.md:361`. The next activation alone repairs it.
* The documents of a plan give the whole rest of a shared expense to the largest item
  (`AllocatePlanned`), where `docs/NFE_IMPORT_TESTING.md:227-228` has the largest
  fractions; by cents, and the sum is exact in both.

## 7. Plan

Done, in this order: transmission with its abstract promise and proofs; the draft;
numbering with its proofs; certificates; the document plan; tax rules and
classifications; the figures of a draft; Portal credentials; DUIMP snapshots and the
NF-e context; the theorems about the draft, certificates, Portal credentials, tax rules,
snapshots, plans and the verdicts of SEFAZ; those about the figures of a draft, which need
the arithmetic of sums; the abstract specification of the signature. Left: that a later undisturbed request repairs what an overlap left, as
a classification, two planned plans or the figures of a draft; an operator decides
whether and when that request comes.

`TypeOK` of `DraftLifecycle`, `NfeNumbering`, `FiscalCertificates` and `DocumentPlan` is where their proofs
start; it is proved and no property of a run, for the runs check what can be wrong.

## 8. Not modelled

Refresh tokens: two refreshes of one token that overlap both succeed
(`auth_routes.py:116`). It is a small protocol of its own and touches nothing of the
issuance. The postal code cache: a missing or stale entry costs a query. The workflow
view with its `next_action`, the lists and the batch of XMLs: they read, or call per
child what `DraftLifecycle` has. Numbers that a payload names itself
(`import_process.py:3762`, `:3819`): such a draft keeps its number, `generate_access_key`
reserves none (`:274`), and neither the row nor `nfe_drafts` refuses a number that is, or
will be, reserved for another draft. `NumbersAreUnique` is about reserved numbers; what
refuses the second note of a number is the unique constraint of `nfe_issuances`, when it is
to be signed (`IdentityTaken`). `save_simplified_links` and the configuration of the
simplified issuance. The layout of the JSON that the DUIMP normaliser and the catalogue
client translate. The access key's check digit and widths.

SOAP, TLS, XML, XSD, PKCS#12 and PDF contents; HTTP routing, schemas and permissions;
configuration, migrations and one-off commands; plain create/read/update of
organizations, users, clients and carriers; the import of fiscal reference tables by an
operator. They keep little state or none that requests share, and the models use only
whether they succeed. `PROJECT.json` lists each with its reason.
