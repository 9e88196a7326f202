--------------------------- MODULE SefazIssuance ---------------------------
(***************************************************************************)
(* Transmission of the child NF-es of one import process to SEFAZ and the  *)
(* reconciliation of uncertain outcomes (SefazIssuanceService).            *)
(*                                                                         *)
(* The database is shared by gunicorn threads under READ COMMITTED.  A     *)
(* request commits its intent before the network call, and afterwards      *)
(* writes what it concluded from the reply and from the rows it has read.  *)
(* A request of this module is therefore a record with a phase: the reads  *)
(* and the writes of one handler are separate steps, and the issuance row  *)
(* a reconciliation decides from is the one it loaded BEFORE its query.    *)
(*                                                                         *)
(* SEFAZ and the network are external: a POST may be lost or arrive after  *)
(* the caller gave up, a reply may be lost or be overtaken by later ones.  *)
(***************************************************************************)
EXTENDS Integers, Sequences, NfeIssuanceState

CONSTANTS
  Children,    \* planned, not deleted drafts of the import process
  Requests,    \* request handlers (gunicorn threads)
  MaxAttempts, \* bound: attempts recorded per issuance and operation
  MaxFaults,   \* bound: lost calls and replies, dead handlers
  MaxWaits     \* bound: inconclusive answers about a note not lost or rejected

ASSUME ChildrenAssumption == Children # {}
ASSUME BoundsAssumption ==
         MaxAttempts \in Nat /\ MaxFaults \in Nat /\ MaxWaits \in Nat

VARIABLES
  issuance,      \* nfe_issuances row of each child: status, receipt, protocol
  attempts,      \* nfe_issuance_attempts: statuses in attempt_number order
  lastEvent,     \* newest nfe_issuance_events row of each child
  authorizedXml, \* AUTHORIZED nfe_xml_versions row and nfe_protocols row stored?
  draftStatus,   \* nfe_drafts.status of each child
  processStatus, \* import_processes.status
  req,           \* what each handler is doing
  sefaz,         \* what SEFAZ knows of each child's access key
  posts,         \* authorization POSTs put on the wire for each child
  faults, waits, \* how much of MaxFaults and MaxWaits is spent
  misled         \* history: children not rejected whose query by receipt was refused

dbVars  == <<issuance, attempts, lastEvent, authorizedXml, draftStatus, processStatus>>
envVars == <<sefaz, posts, faults, waits, misled>>
vars    == <<dbVars, req, envVars>>

-----------------------------------------------------------------------------
(* Values *)

Pending == {"submission_pending", "submitted", "processing"}
Statuses == {"absent", "signed", "authorized", "rejected", "denied"} \cup Pending
DraftStatuses == {"xml_generated", "signed", "authorized", "rejected"}
ProcessStatuses == {"xml_validated", "xml_signed", "transmission_pending",
                    "transmitted", "authorized", "rejected"}
Operations == {"authorization", "receipt_query", "protocol_query"}
AttemptStatuses == {"started", "succeeded", "unknown"}

\* A reply by what its cStat leads to; "lost" is every exception of the call.
\*   pending    103 104 105 204 217 108 109     denied   110 301 302 with protNFe
\*   authorized 100 150                         refused  any other code
ReplyKinds == {"pending", "authorized", "denied", "refused", "lost"}
Replies == [kind : ReplyKinds, receipt : BOOLEAN]
NoReply == [kind |-> "lost", receipt |-> FALSE]

\* unsent, on the wire, lost on the wire, in the lot queue, decided
Verdicts == {"authorized", "denied", "rejected"}
NoteStates == {"unsent", "transit", "lost", "queued"} \cup Verdicts

Issuances == [status : Statuses, receipt : BOOLEAN, protocol : BOOLEAN]
Absent == [status |-> "absent", receipt |-> FALSE, protocol |-> FALSE]

\* SQLAlchemy writes an attribute only when it differs from the loaded value.
Keep == "keep"
Changed(new, loaded) == IF new = loaded THEN Keep ELSE new
ApplyBlindly(write, stored) == write   \* mutant: an unset attribute is written too
Apply(write, stored) == IF write = Keep THEN stored ELSE write

Writes == [status    : Statuses \cup {Keep},
           receipt   : BOOLEAN,      \* set receipt_number?
           protocol  : BOOLEAN,      \* set protocol_number?
           insertXml : BOOLEAN,      \* insert the authorized XML and its protocol?
           draft     : DraftStatuses \cup {Keep},
           process   : ProcessStatuses \cup {Keep},
           attempt   : Nat,          \* the attempt that is marked ...
           mark      : AttemptStatuses]  \* ... and how
NoWrites == [status |-> Keep, receipt |-> FALSE, protocol |-> FALSE,
             insertXml |-> FALSE, draft |-> Keep, process |-> Keep,
             attempt |-> 0, mark |-> "started"]

Phases == {"idle", "checked", "intent", "waiting", "answered", "decided"}
Handlers == [phase : Phases, child : Children, op : Operations,
             view : Issuances, reply : Replies, writes : Writes]
Idle == [phase |-> "idle", child |-> CHOOSE d \in Children : TRUE,
         op |-> "authorization", view |-> Absent, reply |-> NoReply,
         writes |-> NoWrites]

-----------------------------------------------------------------------------
Init ==
  /\ issuance = [d \in Children |-> Absent]
  /\ attempts = [d \in Children |-> [op \in Operations |-> << >>]]
  /\ lastEvent = [d \in Children |-> <<"absent", "absent">>]
  /\ authorizedXml = [d \in Children |-> FALSE]
  /\ draftStatus = [d \in Children |-> "xml_generated"]
  /\ processStatus = "xml_validated"
  /\ req = [r \in Requests |-> Idle]
  /\ sefaz = [d \in Children |-> "unsent"]
  /\ posts = [d \in Children |-> 0]
  /\ faults = 0
  /\ waits = 0
  /\ misled = {}

\* The commit of sign_xml_version: one issuance per draft, created and signed.
Sign(d) ==
  /\ issuance[d].status = "absent"
  /\ issuance' = [issuance EXCEPT ![d].status = "signed"]
  /\ lastEvent' = [lastEvent EXCEPT ![d] = <<"xsd_validated", "signed">>]
  /\ draftStatus' = [draftStatus EXCEPT ![d] = "signed"]
  /\ processStatus' = "xml_signed"
  /\ UNCHANGED <<attempts, authorizedXml, req, envVars>>

\* Mutant: the attempt row is left for after the call.
OpenAttemptLater(d, op) == UNCHANGED attempts

\* _attempt: number = count + 1, status "started".
OpenAttempt(d, op) ==
  /\ Len(attempts[d][op]) < MaxAttempts
  /\ attempts' = [attempts EXCEPT ![d][op] = Append(@, "started")]

\* Mutants: transmit accepts a note whose first POST timed out, or is pending.
TransmittableAfterTimeout(d) == issuance[d].status \in {"signed", "processing"}
TransmittableUntilFinal(d) == issuance[d].status \in {"signed"} \cup Pending

\* The WHERE clause of the conditional UPDATE.
Transmittable(d) == issuance[d].status = "signed"

\* transmit up to its commit: the conditional UPDATE lets one request through.
CommitIntent(r, d) ==
  /\ req[r].phase = "idle"
  /\ Transmittable(d)
  /\ OpenAttempt(d, "authorization")
  /\ issuance' = [issuance EXCEPT ![d].status = "submission_pending"]
  /\ lastEvent' = [lastEvent EXCEPT ![d] = <<"signed", "submission_pending">>]
  /\ req' = [req EXCEPT ![r] = [Idle EXCEPT !.phase = "intent", !.child = d]]
  /\ UNCHANGED <<authorizedXml, draftStatus, processStatus, envVars>>

\* SefazClient.authorize puts the signed XML on the wire.
SendPost(r) ==
  /\ req[r].phase = "intent"
  /\ req' = [req EXCEPT ![r].phase = "waiting"]
  /\ sefaz' = [sefaz EXCEPT ![req[r].child] = "transit"]
  /\ posts' = [posts EXCEPT ![req[r].child] = @ + 1]
  /\ UNCHANGED <<dbVars, faults, waits, misled>>

\* Mutant: a note is pending only until the first uncertain outcome.
AwaitsOutcomeOnce(d) == issuance[d].status \in {"submission_pending", "submitted"}

\* The guard of reconcile.
AwaitsOutcome(d) == issuance[d].status \in Pending

\* reconcile up to _attempt: the guard, and the operation chosen by the receipt.
CheckPending(r, d) ==
  /\ req[r].phase = "idle"
  /\ AwaitsOutcome(d)
  /\ req' = [req EXCEPT ![r] = [Idle EXCEPT !.phase = "checked", !.child = d,
                 !.op = IF issuance[d].receipt THEN "receipt_query" ELSE "protocol_query"]]
  /\ UNCHANGED <<dbVars, envVars>>

\* reconcile commits its attempt; reading receipt_number reloads the issuance,
\* and this is the row _finish or _uncertain will find in the identity map.
CommitQuery(r) ==
  /\ req[r].phase = "checked"
  /\ OpenAttempt(req[r].child, req[r].op)
  /\ req' = [req EXCEPT ![r].phase = "waiting", ![r].view = issuance[req[r].child]]
  /\ UNCHANGED <<issuance, lastEvent, authorizedXml, draftStatus, processStatus, envVars>>

-----------------------------------------------------------------------------
(* SEFAZ and the network (external) *)

SefazAccept(d) ==
  /\ sefaz[d] = "transit"
  /\ sefaz' = [sefaz EXCEPT ![d] = "queued"]
  /\ UNCHANGED <<dbVars, req, posts, faults, waits, misled>>

SefazDecide(d) ==
  /\ sefaz[d] = "queued"
  /\ \E verdict \in Verdicts : sefaz' = [sefaz EXCEPT ![d] = verdict]
  /\ UNCHANGED <<dbVars, req, posts, faults, waits, misled>>

LosePost(d) ==
  /\ sefaz[d] = "transit"
  /\ faults < MaxFaults
  /\ sefaz' = [sefaz EXCEPT ![d] = "lost"]
  /\ faults' = faults + 1
  /\ UNCHANGED <<dbVars, req, posts, waits, misled>>

Reply(kind, receipt) == [kind |-> kind, receipt |-> receipt]

\* The verdict on the note, as a reply carries it.
VerdictReply(n, receipt) == Reply(IF n = "rejected" THEN "refused" ELSE n, receipt)

\* What SEFAZ may answer to each call while the note is in state n.  A receipt
\* exists once the lot is queued; a lost POST is never answered; a query by key
\* finds nothing but a protocol.
LotAnswers(n) ==
  {y \in {Reply("pending", TRUE)} : n = "queued"}
    \cup {y \in {VerdictReply(n, FALSE)} : n \in Verdicts}
    \cup {y \in {NoReply} : n = "lost"}

\* SEFAZ may also refuse the query itself (cStat 106, 656), whatever the note is.
ReceiptAnswers(n) ==
  {y \in {Reply("pending", TRUE)} : n = "queued"}
    \cup {y \in {VerdictReply(n, TRUE)} : n \in Verdicts}
    \cup {Reply("refused", FALSE)}

KeyAnswers(n) ==
  {Reply("refused", FALSE),
   Reply(IF n \in {"authorized", "denied"} THEN n ELSE "pending", FALSE)}

Answers(call, n) ==
  CASE call = "authorization" -> LotAnswers(n)
    [] call = "receipt_query" -> ReceiptAnswers(n)
    [] OTHER                  -> KeyAnswers(n)

\* transmit calls authorize; reconcile calls by the RELOADED receipt_number.
Call(r) ==
  CASE req[r].op = "authorization" -> "authorization"
    [] req[r].op # "authorization" /\ req[r].view.receipt -> "receipt_query"
    [] OTHER -> "protocol_query"

\* Mutants: "duplicate" (204) counts as authorized; any refusal as a rejection.
TargetOnDuplicate(op, kind) ==
  CASE kind \in {"authorized", "pending"} -> "authorized"
    [] kind = "denied"  -> "denied"
    [] kind = "refused" -> "rejected"
    [] OTHER            -> "processing"
TargetOnRefusal(op, kind) ==
  CASE kind \in {"authorized", "denied"} -> kind
    [] kind = "refused" -> "rejected"
    [] OTHER            -> "processing"

\* The status a reply leads to.  A refusal proves a rejection except in a query
\* by key; codes of the pending class and lost replies leave the note pending.
Target(op, kind) ==
  CASE kind = "authorized" -> "authorized"
    [] kind = "denied"     -> "denied"
    [] kind = "refused" /\ op # "protocol_query" -> "rejected"
    [] OTHER               -> "processing"

Answer(r) ==
  /\ req[r].phase = "waiting"
  /\ LET n == sefaz[req[r].child] IN
     \E reply \in Answers(Call(r), n) :
       LET inconclusive == /\ req[r].op # "authorization"
                           /\ reply.kind \in {"pending", "refused"}
                           /\ n \notin {"lost", "rejected"}
           misleading == /\ Call(r) = "receipt_query" /\ reply.kind = "refused"
                         /\ n # "rejected"
       IN /\ inconclusive => waits < MaxWaits
          /\ waits' = IF inconclusive THEN waits + 1 ELSE waits
          /\ misled' = misled \cup {d \in {req[r].child} : misleading}
          /\ req' = [req EXCEPT ![r].phase = "answered", ![r].reply = reply]
  /\ UNCHANGED <<dbVars, sefaz, posts, faults>>

\* The call raises: time out, connection error, HTTP or SOAP fault, a reply
\* that parse_reply refuses.
LoseReply(r) ==
  /\ req[r].phase = "waiting"
  /\ faults < MaxFaults
  /\ faults' = faults + 1
  /\ req' = [req EXCEPT ![r].phase = "answered", ![r].reply = NoReply]
  /\ UNCHANGED <<dbVars, sefaz, posts, waits, misled>>

\* The handler dies: what it has not committed is rolled back.
Die(r) ==
  /\ req[r].phase # "idle"
  /\ faults < MaxFaults
  /\ faults' = faults + 1
  /\ req' = [req EXCEPT ![r] = Idle]
  /\ UNCHANGED <<dbVars, sefaz, posts, waits, misled>>

-----------------------------------------------------------------------------
(* _finish and _uncertain *)

\* Mutant: an inconclusive outcome puts the draft back to "signed".
DraftTargetReset(d, target) ==
  CASE target = "authorized" -> "authorized"
    [] target = "processing" -> "signed"
    [] OTHER                 -> "rejected"

DraftTarget(d, target) ==
  CASE target = "authorized"             -> "authorized"
    [] target \in {"denied", "rejected"} -> "rejected"
    [] OTHER                             -> draftStatus[d]

\* Mutant: one authorized child makes the process authorized.
ProcessTargetEager(d, target, kind) ==
  CASE target = "authorized" -> "authorized"
    [] target = "rejected"   -> "rejected"
    [] OTHER                 -> "transmission_pending"

\* The process follows its children when one is authorized; it is left alone by
\* a denial and by an inconclusive key query.
ProcessTarget(d, target, kind) ==
  CASE target = "authorized" ->
         IF \A s \in Children \ {d} : draftStatus[s] = "authorized"
         THEN "authorized" ELSE "transmitted"
    [] target = "rejected"         -> "rejected"
    [] kind \in {"pending", "lost"} -> "transmission_pending"
    [] OTHER                       -> processStatus

\* What handler r will write, from the issuance row v it has loaded.
Outcome(r, v) ==
  LET d == req[r].child
      reply == req[r].reply
      target == Target(req[r].op, reply.kind)
  IN [status    |-> Changed(target, v.status),
      receipt   |-> reply.receipt /\ ~v.receipt,
      protocol  |-> target = "authorized" /\ ~v.protocol,
      insertXml |-> target = "authorized" /\ ~authorizedXml[d],
      draft     |-> Changed(DraftTarget(d, target), draftStatus[d]),
      process   |-> Changed(ProcessTarget(d, target, reply.kind), processStatus),
      attempt   |-> Len(attempts[d][req[r].op]),
      mark      |-> IF reply.kind = "lost" THEN "unknown" ELSE "succeeded"]

\* The reads of _finish and _uncertain.  transmit loads the issuance here;
\* reconcile has had it in its session since before the query.
Decide(r) ==
  /\ req[r].phase = "answered"
  /\ LET v == IF req[r].op = "authorization" THEN issuance[req[r].child] ELSE req[r].view
     IN req' = [req EXCEPT ![r].phase = "decided", ![r].view = v,
                           ![r].writes = Outcome(r, v)]
  /\ UNCHANGED <<dbVars, envVars>>

\* Two requests that both insert the authorized XML: a unique constraint makes
\* the second one's commit fail and rolls it back whole.
Duplicate(r) == req[r].writes.insertXml /\ authorizedXml[req[r].child]

Commit(r) ==
  LET d == req[r].child
      w == req[r].writes
  IN /\ req[r].phase = "decided"
     /\ ~Duplicate(r)
     /\ issuance' = [issuance EXCEPT ![d] =
                       [status   |-> Apply(w.status, @.status),
                        receipt  |-> @.receipt \/ w.receipt,
                        protocol |-> @.protocol \/ w.protocol]]
     /\ lastEvent' = IF w.status = Keep THEN lastEvent
                     ELSE [lastEvent EXCEPT ![d] = <<req[r].view.status, w.status>>]
     /\ authorizedXml' = [authorizedXml EXCEPT ![d] = @ \/ w.insertXml]
     /\ draftStatus' = [draftStatus EXCEPT ![d] = Apply(w.draft, @)]
     /\ processStatus' = Apply(w.process, processStatus)
     /\ attempts' = [attempts EXCEPT ![d][req[r].op][w.attempt] = w.mark]
     /\ req' = [req EXCEPT ![r] = Idle]
     /\ UNCHANGED envVars

CommitFails(r) ==
  /\ req[r].phase = "decided"
  /\ Duplicate(r)
  /\ req' = [req EXCEPT ![r] = Idle]
  /\ UNCHANGED <<dbVars, envVars>>

-----------------------------------------------------------------------------
Handle(r) ==
  \/ \E d \in Children : CommitIntent(r, d) \/ CheckPending(r, d)
  \/ SendPost(r) \/ CommitQuery(r) \/ Decide(r) \/ Commit(r) \/ CommitFails(r)

External ==
  \/ \E d \in Children : SefazAccept(d) \/ SefazDecide(d) \/ LosePost(d)
  \/ \E r \in Requests : Answer(r) \/ LoseReply(r) \/ Die(r)

Next ==
  \/ \E d \in Children : Sign(d)
  \/ \E r \in Requests : Handle(r)
  \/ External

Spec == Init /\ [][Next]_vars

\* A started handler goes on, SEFAZ decides what it queued and answers, and
\* somebody keeps polling a pending note: the panel does while it is open, and
\* an operator can at any time.  Nobody has to sign or to transmit.
Fairness ==
  /\ \A r \in Requests :
       /\ WF_vars(SendPost(r))
       /\ WF_vars(CommitQuery(r))
       /\ WF_vars(Answer(r))
       /\ WF_vars(Decide(r))
       /\ WF_vars(Commit(r) \/ CommitFails(r))
  /\ \A d \in Children :
       /\ WF_vars(SefazAccept(d) \/ LosePost(d))
       /\ WF_vars(SefazDecide(d))
       /\ WF_vars(\E r \in Requests : CheckPending(r, d))

FairSpec == Spec /\ Fairness

-----------------------------------------------------------------------------
(* Types *)

\* Every variable keeps its type; attempts and posts stay numbers and sequences.
TypeOK ==
  /\ issuance \in [Children -> Issuances]
  /\ attempts \in [Children -> [Operations -> Seq(AttemptStatuses)]]
  /\ lastEvent \in [Children -> (Statuses \cup {"xsd_validated"}) \X Statuses]
  /\ authorizedXml \in [Children -> BOOLEAN]
  /\ draftStatus \in [Children -> DraftStatuses]
  /\ processStatus \in ProcessStatuses
  /\ req \in [Requests -> Handlers]
  /\ sefaz \in [Children -> NoteStates]
  /\ posts \in [Children -> Nat]
  /\ faults \in Nat
  /\ waits \in Nat
  /\ misled \subseteq Children
-----------------------------------------------------------------------------
(* Properties *)

\* An access key is POSTed for authorization at most once, whatever requests
\* race, die or time out: the conditional UPDATE is the only gate, and no
\* later write may bring the issuance back to "signed".
AtMostOnePost == \A d \in Children : posts[d] <= 1

\* Nothing is on the wire whose intent a crash could forget: the committed
\* status already forbids transmit and the attempt row already exists.
IntentBeforePost ==
  \A d \in Children : posts[d] > 0 =>
    /\ issuance[d].status \notin {"absent", "signed"}
    /\ attempts[d]["authorization"] # << >>

\* Whoever reads "authorized" (issuance or draft, by transmit or reconcile, with
\* stale rows or fresh) finds SEFAZ's authorization of that very key, the
\* stored nfeProc and, for the issuance, the protocol number.
AuthorizedIsBacked ==
  \A d \in Children :
    /\ issuance[d].status = "authorized" =>
         sefaz[d] = "authorized" /\ authorizedXml[d] /\ issuance[d].protocol
    /\ draftStatus[d] = "authorized" => sefaz[d] = "authorized" /\ authorizedXml[d]

\* The verdict v is SEFAZ's on the note, or a rejection that was concluded from
\* the refusal of a query: the code takes one for the other.
Agrees(d, v) == sefaz[d] = v \/ (v = "rejected" /\ d \in misled)

\* A final status never contradicts SEFAZ, so a note it authorized stays
\* reachable by reconcile until the protocol is stored.  The one exception is a
\* rejection stored after SEFAZ refused a query by receipt itself.
FinalStatusAgrees ==
  \A d \in Children :
    /\ issuance[d].status \in Verdicts => Agrees(d, issuance[d].status)
    /\ draftStatus[d] = "rejected" => Agrees(d, "denied") \/ Agrees(d, "rejected")

\* The process is "authorized" only while every child draft is: the aggregate is
\* computed from siblings read without a lock.  A draft may have lost its status
\* only to the refusal of a query.
ProcessAuthorizedIsSound ==
  processStatus = "authorized" =>
    \A d \in Children \ misled : draftStatus[d] = "authorized"

\* No late reply or time-out takes the authorization away from a draft, but for
\* the refusal of a query.  The issuance itself leaves a verdict only as
\* NfeIssuanceStateMachine allows, or for "processing", because an outcome that
\* taught nothing was stored late.
VerdictsStand ==
  [][\A d \in Children \ misled :
       /\ draftStatus[d] = "authorized" => draftStatus'[d] = "authorized"
       /\ LET step == lastEvent'[d] IN
          step # lastEvent[d] /\ step[1] \in Verdicts =>
            Transition(step[1], step[2]) \/ step[2] = "processing"]_vars

\* Once SEFAZ has authorized or denied a note, polling ends with that status
\* stored for good, through lost replies, dead handlers and stale writers, unless
\* the refusal of a query has ended the polling.
VerdictIsLearnt ==
  \A d \in Children : \A verdict \in {"authorized", "denied"} :
    sefaz[d] = verdict ~> [](issuance[d].status = verdict \/ d \in misled)

\* What transmission promises, in terms of this module's state.
Stage(d) == IF authorizedXml[d] THEN "proved"
            ELSE IF posts[d] > 0 THEN "posted"
            ELSE IF issuance[d].status \in {"absent", "signed"} THEN "held"
            ELSE "intended"
Verdict(d) == IF sefaz[d] \in Verdicts THEN sefaz[d] ELSE "none"

Promise == INSTANCE OneShotTransmission WITH
  Notes   <- Children,
  stage   <- [d \in Children |-> Stage(d)],
  sent    <- posts,
  verdict <- [d \in Children |-> Verdict(d)]

\* The service keeps that promise: intent, one POST, SEFAZ's verdict, proof.
KeepsPromise == Promise!Spec

-----------------------------------------------------------------------------
(* The inductive invariants behind AtMostOnePost, IntentBeforePost,           *)
(* AuthorizedIsBacked, FinalStatusAgrees, ProcessAuthorizedIsSound and        *)
(* VerdictsStand; SefazIssuance_proofs proves them.                           *)

\* Not transmitted yet: no handler has the note and nothing was sent.
Held(d) == issuance[d].status \in {"absent", "signed"}
HeldIsUntouched ==
  \A d \in Children : Held(d) =>
    posts[d] = 0 /\ \A r \in Requests : req[r].phase # "idle" => req[r].child # d

\* The handler that committed the intent is the only one, and has not sent yet.
IntentIsExclusive ==
  \A r \in Requests : req[r].phase = "intent" =>
    /\ posts[req[r].child] = 0
    /\ \A q \in Requests \ {r} : req[q].phase = "intent" => req[q].child # req[r].child

UnsentIsUnknown == \A d \in Children : posts[d] = 0 => sefaz[d] = "unsent"

IntentIsRecorded ==
  \A d \in Children : ~Held(d) => attempts[d]["authorization"] # << >>

\* No handler is about to write a status from before the POST.
WritesMoveOn ==
  \A r \in Requests : req[r].phase = "decided" =>
    req[r].writes.status \notin {"absent", "signed"}

PostInv ==
  TypeOK /\ AtMostOnePost /\ HeldIsUntouched /\ IntentIsExclusive
         /\ UnsentIsUnknown /\ IntentIsRecorded /\ WritesMoveOn

\* What a handler knows or is about to write of an authorization is true.
RepliesAreTrue ==
  \A r \in Requests :
    req[r].phase = "answered" /\ req[r].reply.kind = "authorized" =>
      sefaz[req[r].child] = "authorized"
ViewsAreTrue ==
  \A r \in Requests :
    req[r].phase \in {"intent", "waiting", "answered"} /\ req[r].view.protocol =>
      issuance[req[r].child].protocol
WritesAreTrue ==
  \A r \in Requests : req[r].phase = "decided" =>
    LET w == req[r].writes
        d == req[r].child
    IN /\ w.insertXml => sefaz[d] = "authorized"
       /\ w.status = "authorized" \/ w.draft = "authorized" =>
            sefaz[d] = "authorized" /\ (w.insertXml \/ authorizedXml[d])
       /\ w.status = "authorized" => w.protocol \/ issuance[d].protocol
StoredIsTrue ==
  \A d \in Children : authorizedXml[d] => sefaz[d] = "authorized"

EvidenceInv ==
  PostInv /\ AuthorizedIsBacked /\ RepliesAreTrue /\ ViewsAreTrue
          /\ WritesAreTrue /\ StoredIsTrue

\* What handler h knows or is about to write of any verdict is true: it queries
\* by receipt only with a receipt, its reply, its row and its writes agree with
\* SEFAZ, and the aggregate it stores counts drafts that stay authorized.
HandlerAgrees(h) ==
  LET d == h.child
      w == h.writes
  IN /\ h.phase = "intent" => h.op = "authorization"
     /\ h.op = "receipt_query" /\ h.phase = "checked" => issuance[d].receipt
     /\ h.op = "receipt_query" /\ h.phase = "waiting" => h.view.receipt
     /\ h.phase = "answered" =>
          /\ h.reply.kind = "denied" => sefaz[d] = "denied"
          /\ h.reply.kind = "refused" /\ h.op # "protocol_query" => Agrees(d, "rejected")
     /\ h.view.status \in Verdicts => Agrees(d, h.view.status)
     /\ h.phase = "decided" =>
          /\ w.status \in Verdicts \cup {"processing", Keep}
          /\ w.status \in Verdicts => Agrees(d, w.status) /\ w.status # h.view.status
          /\ w.draft \in {"authorized", "rejected", Keep}
          /\ w.draft = "rejected" => Agrees(d, "denied") \/ Agrees(d, "rejected")
          /\ w.process = "authorized" =>
               \A s \in Children \ misled : \/ draftStatus[s] = "authorized"
                                            \/ s = d /\ w.draft = "authorized"

VerdictInv ==
  EvidenceInv /\ FinalStatusAgrees /\ ProcessAuthorizedIsSound
              /\ \A r \in Requests : HandlerAgrees(req[r])

=============================================================================
