---------------------------- MODULE DocumentPlan ----------------------------
(***************************************************************************)
(* The document plan of one import process (ImportProcessService): a DUIMP *)
(* snapshot is divided into one planned document per exporter, a new plan  *)
(* supersedes the planned ones, and each document gets a draft.            *)
(*                                                                         *)
(* A request is one transaction, except that simplified-prepare commits    *)
(* the snapshot it fetches.  Nobody locks on purpose: requests wait only   *)
(* for rows that others have updated, the process and the plans, and       *)
(* decide from what they read before they waited.  Whether all items are   *)
(* classified can change at any time: a request goes on, or gives up.      *)
(***************************************************************************)
EXTENDS Integers, Sequences, FiniteSetsExt, SequencesExt

CONSTANTS
  Requests,      \* request handlers
  Duimps,        \* what a DUIMP may hold: its exporters, numbered by their keys
  MaxSnapshots,  \* bound: snapshots of the process
  MaxPlans,      \* bound: plans of the process
  MaxDrafts      \* bound: drafts of its documents

ASSUME DuimpsAssumption ==
  \A duimp \in Duimps : IsFiniteSet(duimp) /\ duimp # {} /\ duimp \subseteq Nat
ASSUME BoundsAssumption == MaxSnapshots \in Nat /\ MaxPlans \in Nat /\ MaxDrafts \in Nat

VARIABLES
  snapshots,  \* duimp_snapshots in order: the exporters of each
  plans,      \* nfe_document_plans in the order of their commits
  drafts,     \* nfe_drafts of planned documents in the order of their commits
  req         \* what each handler is doing

vars == <<snapshots, plans, drafts, req>>

-----------------------------------------------------------------------------
(* Values *)

Exporters == UNION Duimps

\* A property looks at saw: how many plans its request could see.
Plans == [snapshot : 1..MaxSnapshots, version : 1..MaxPlans, planned : BOOLEAN,
          saw : 0..MaxPlans]

\* A document is a plan and an exporter.  checked: how many drafts its request
\* could see when it looked for one of the document.
Drafts == [plan : 1..MaxPlans, exporter : Exporters, active : BOOLEAN,
           saw : 0..MaxPlans, checked : 0..MaxDrafts]

\* plan is 0, and version is not, while the request's own plan is uncommitted.
Handlers == [phase    : {"idle", "fetching", "preparing", "planning", "selected",
                         "superseding", "planned", "drafting", "creating"},
             op       : {"fetch", "plan", "drafts", "prepare"},
             snapshot : 0..MaxSnapshots,
             plan     : 0..MaxPlans, version : 0..(MaxPlans + 1), saw : 0..MaxPlans,
             found    : SUBSET (1..MaxPlans),
             todo     : SUBSET Exporters,
             made     : Seq([exporter : Exporters, checked : 0..MaxDrafts]),
             checked  : 0..MaxDrafts]
Idle == [phase |-> "idle", op |-> "fetch", snapshot |-> 0, plan |-> 0, version |-> 0,
         saw |-> 0, found |-> {}, todo |-> {}, made |-> <<>>, checked |-> 0]

Begin(r, phase, op, s) ==
  /\ req[r].phase = "idle"
  /\ req' = [req EXCEPT ![r] = [Idle EXCEPT !.phase = phase, !.op = op, !.snapshot = s]]

End(r) == req' = [req EXCEPT ![r] = Idle]

\* Requests that have updated the process row and not committed.
HoldsProcess(q) ==
  \/ req[q].phase \in {"fetching", "planned"}
  \/ req[q].phase \in {"drafting", "creating"} /\ (req[q].version # 0 \/ req[q].made # <<>>)

ProcessIsFree(r) == \A q \in Requests \ {r} : ~HoldsProcess(q)

\* Plan rows that q has updated and not committed.
HeldPlans(q) ==
  IF req[q].phase \in {"superseding", "planned", "drafting", "creating"}
  THEN req[q].found ELSE {}

PlansAreFree(r, ps) == \A q \in Requests \ {r} : HeldPlans(q) \cap ps = {}

-----------------------------------------------------------------------------
Init ==
  /\ snapshots = <<>>
  /\ plans = <<>>
  /\ drafts = <<>>
  /\ req = [r \in Requests |-> Idle]

-----------------------------------------------------------------------------
(* Snapshots *)

\* fetch_duimp_for_process writes the process, then calls the portal.
Fetch(r) ==
  /\ Begin(r, "fetching", "fetch", 0)
  /\ ProcessIsFree(r)
  /\ Len(snapshots) < MaxSnapshots
  /\ UNCHANGED <<snapshots, plans, drafts>>

\* simplified-prepare fetches what it did not find, though another request
\* may store a snapshot while this one waits.
PrepareAnew(r) ==
  /\ snapshots = <<>>
  /\ Begin(r, "preparing", "prepare", 0)
  /\ UNCHANGED <<snapshots, plans, drafts>>

FetchToPrepare(r) ==
  /\ req[r].phase = "preparing" /\ req[r].snapshot = 0
  /\ ProcessIsFree(r)
  /\ Len(snapshots) < MaxSnapshots
  /\ req' = [req EXCEPT ![r].phase = "fetching"]
  /\ UNCHANGED <<snapshots, plans, drafts>>

Fetched(r) ==
  LET s == Len(snapshots) + 1 IN
  /\ req[r].phase = "fetching"
  /\ \E duimp \in Duimps : snapshots' = Append(snapshots, duimp)
  /\ IF req[r].op = "prepare"
     THEN req' = [req EXCEPT ![r].phase = "preparing", ![r].snapshot = s]
     ELSE End(r)
  /\ UNCHANGED <<plans, drafts>>

-----------------------------------------------------------------------------
(* Plans *)

Planned == {p \in DOMAIN plans : plans[p].planned}
PlansOf(s) == {p \in DOMAIN plans : plans[p].snapshot = s}

\* Mutant: the query forgets the status.
NewestOfAnyStatus(s) == Max({0} \cup PlansOf(s))

\* The planned plan of a snapshot with the highest version, or 0.  Versions
\* follow the order of commits, for the unique constraint makes inserts wait.
NewestPlan(s) == Max({0} \cup (PlansOf(s) \cap Planned))

\* Mutant: only plans of the snapshot are superseded.
SupersededInSnapshot(s) == Planned \cap PlansOf(s)

\* The plans that a new plan of snapshot s supersedes: those of the process.
Superseded(s) == Planned

\* create_document_plan goes from the query of the plans that it supersedes ...
SelectPlanned(r, op, s) ==
  /\ Len(plans) < MaxPlans
  /\ req' = [req EXCEPT ![r] =
       [Idle EXCEPT !.phase = "selected", !.op = op, !.snapshot = s,
                    !.saw = Len(plans), !.found = Superseded(s)]]
  /\ UNCHANGED <<snapshots, plans, drafts>>

Plan(r, s) == req[r].phase = "idle" /\ SelectPlanned(r, "plan", s)
PlanToPrepare(r) == req[r].phase = "planning" /\ SelectPlanned(r, "prepare", req[r].snapshot)

\* ... through their UPDATE, which the query of the version flushes, ...
Supersede(r) ==
  /\ req[r].phase = "selected"
  /\ PlansAreFree(r, req[r].found)
  /\ req' = [req EXCEPT ![r].phase = "superseding",
               ![r].version = 1 + Max({0} \cup {plans[p].version : p \in PlansOf(req[r].snapshot)})]
  /\ UNCHANGED <<snapshots, plans, drafts>>

\* ... to the plan and its documents, and the UPDATE of the process.  A version
\* that is taken fails the request (uq_nfe_document_plan_snapshot_version).
InsertPlan(r) ==
  /\ req[r].phase = "superseding"
  /\ ProcessIsFree(r)
  /\ \A p \in PlansOf(req[r].snapshot) : plans[p].version # req[r].version
  /\ Len(plans) < MaxPlans
  /\ IF req[r].op = "prepare"
     THEN req' = [req EXCEPT ![r].phase = "drafting", ![r].todo = snapshots[req[r].snapshot]]
     ELSE req' = [req EXCEPT ![r].phase = "planned"]
  /\ UNCHANGED <<snapshots, plans, drafts>>

-----------------------------------------------------------------------------
(* Drafts of the documents *)

\* generate_child_drafts up to the query of the plan.
Draft(r, s) ==
  /\ NewestPlan(s) # 0
  /\ req[r].phase = "idle"
  /\ req' = [req EXCEPT ![r] =
       [Idle EXCEPT !.phase = "drafting", !.op = "drafts", !.snapshot = s,
                    !.plan = NewestPlan(s), !.saw = Len(plans), !.todo = snapshots[s]]]
  /\ UNCHANGED <<snapshots, plans, drafts>>

\* simplified-prepare with the latest snapshot.
Prepare(r) ==
  /\ snapshots # <<>>
  /\ Begin(r, "preparing", "prepare", Len(snapshots))
  /\ UNCHANGED <<snapshots, plans, drafts>>

DraftsOf(p, e) == {d \in DOMAIN drafts : drafts[d].plan = p /\ drafts[d].exporter = e}

\* Mutant: only the latest draft of the document is looked at.
HasDraftLatest(p, e) == DraftsOf(p, e) # {} /\ drafts[Max(DraftsOf(p, e))].active

\* _latest_active_document_draft finds one.
HasDraft(p, e) == \E d \in DraftsOf(p, e) : drafts[d].active

\* simplified-prepare takes the plan there is, with the drafts that its session
\* then loads to show the plan, or makes one.
LookForPlan(r) ==
  LET s == req[r].snapshot  p == NewestPlan(s) IN
  /\ req[r].phase = "preparing" /\ s # 0
  /\ IF p = 0
     THEN req' = [req EXCEPT ![r].phase = "planning"]
     ELSE req' = [req EXCEPT ![r].phase = "drafting", ![r].plan = p, ![r].saw = Len(plans),
                             ![r].todo = {e \in snapshots[s] : ~HasDraft(p, e)},
                             ![r].checked = Len(drafts)]
  /\ UNCHANGED <<snapshots, plans, drafts>>

\* Documents are taken in the order of their ordinals, and generate-drafts loads
\* the drafts of each when it comes to it.
Reuse(r) ==
  /\ req[r].phase = "drafting" /\ req[r].op = "drafts" /\ req[r].todo # {}
  /\ HasDraft(req[r].plan, Min(req[r].todo))
  /\ req' = [req EXCEPT ![r].todo = @ \ {Min(@)}]
  /\ UNCHANGED <<snapshots, plans, drafts>>

FindNone(r) ==
  /\ req[r].phase = "drafting" /\ req[r].op = "drafts" /\ req[r].todo # {}
  /\ ~HasDraft(req[r].plan, Min(req[r].todo))
  /\ req' = [req EXCEPT ![r].phase = "creating", ![r].checked = Len(drafts)]
  /\ UNCHANGED <<snapshots, plans, drafts>>

\* create_nfe_draft_from_duimp for the document, which writes the process.  Its
\* check that the plan is planned sees the row that the session has loaded.
Create(r) ==
  /\ \/ req[r].phase = "creating"
     \/ req[r].phase = "drafting" /\ req[r].op = "prepare" /\ req[r].todo # {}
  /\ ProcessIsFree(r)
  /\ Len(drafts) + Len(req[r].made) < MaxDrafts
  /\ req' = [req EXCEPT ![r].phase = "drafting", ![r].todo = @ \ {Min(@)},
               ![r].made = Append(@, [exporter |-> Min(req[r].todo), checked |-> req[r].checked])]
  /\ UNCHANGED <<snapshots, plans, drafts>>

-----------------------------------------------------------------------------
(* Commits, failures and removals *)

\* Mutant: each draft is committed as it is made.
FinishedAtFirst(r) == req[r].phase = "planned" \/ req[r].made # <<>>

Finished(r) == req[r].phase = "planned" \/ (req[r].phase = "drafting" /\ req[r].todo = {})

\* The last flush dates the plan that was drafted, and waits for its row.
\* simplified-prepare builds the XMLs (DraftLifecycle), which writes the process.
Commit(r) ==
  LET new  == req[r].version # 0
      p    == IF new THEN Len(plans) + 1 ELSE req[r].plan
      made == req[r].made
  IN
  /\ Finished(r)
  /\ req[r].op = "prepare" => ProcessIsFree(r)
  /\ PlansAreFree(r, {req[r].plan})
  /\ plans' =
       IF ~new THEN plans
       ELSE Append([q \in DOMAIN plans |->
                      [plans[q] EXCEPT !.planned = @ /\ q \notin req[r].found]],
                   [snapshot |-> req[r].snapshot, version |-> req[r].version,
                    planned |-> TRUE, saw |-> req[r].saw])
  /\ drafts' = drafts \o
       [i \in DOMAIN made |-> [plan |-> p, exporter |-> made[i].exporter, active |-> TRUE,
                               saw |-> req[r].saw, checked |-> made[i].checked]]
  /\ End(r)
  /\ UNCHANGED snapshots

\* An item that is not classified, an error, a dead worker, a constraint or a
\* deadlock that PostgreSQL breaks: the transaction rolls back, and the failed
\* status of a fetch with it.
GiveUp(r) ==
  /\ req[r].phase # "idle"
  /\ End(r)
  /\ UNCHANGED <<snapshots, plans, drafts>>

\* soft_delete_draft of a draft that is not signed.
SoftDelete(d) ==
  /\ drafts[d].active
  /\ drafts' = [drafts EXCEPT ![d].active = FALSE]
  /\ UNCHANGED <<snapshots, plans, req>>

Next ==
  \/ \E r \in Requests :
       \/ Fetch(r) \/ PrepareAnew(r) \/ FetchToPrepare(r) \/ Fetched(r)
       \/ \E s \in DOMAIN snapshots : Plan(r, s) \/ Draft(r, s)
       \/ Prepare(r) \/ LookForPlan(r)
       \/ PlanToPrepare(r) \/ Supersede(r) \/ InsertPlan(r)
       \/ Reuse(r) \/ FindNone(r) \/ Create(r)
       \/ Commit(r) \/ GiveUp(r)
  \/ \E d \in DOMAIN drafts : SoftDelete(d)

Spec == Init /\ [][Next]_vars

-----------------------------------------------------------------------------
(* Types *)

\* Rows and requests keep their types, and one request at a time has an
\* uncommitted UPDATE of the process row.
TypeOK ==
  /\ snapshots \in Seq(Duimps) /\ Len(snapshots) <= MaxSnapshots
  /\ plans \in Seq(Plans) /\ Len(plans) <= MaxPlans
  /\ drafts \in Seq(Drafts) /\ Len(drafts) <= MaxDrafts
  /\ req \in [Requests -> Handlers]
  /\ \A q, r \in Requests : HoldsProcess(q) /\ HoldsProcess(r) => q = r

-----------------------------------------------------------------------------
(* Properties *)

\* Two plans of the process are planned at once only if the requests that made
\* them overlapped: the later one had looked before the other was committed.
PlannedTogetherOverlapped ==
  \A p, q \in Planned : p < q => plans[q].saw < p

\* A document has two active drafts only if the requests that made them
\* overlapped; repeating generate-drafts, after removals too, makes no twin.
TwinDraftsOverlapped ==
  \A c, d \in DOMAIN drafts :
    /\ c < d /\ drafts[c].active /\ drafts[d].active
    /\ drafts[c].plan = drafts[d].plan /\ drafts[c].exporter = drafts[d].exporter
    => drafts[d].checked < c

\* Drafts follow the newest plan: of the plans its request could see, a draft's
\* is the last of its snapshot, and one that could have superseded it overlapped it.
DraftsFollowThePlan ==
  \A d \in DOMAIN drafts :
    LET p == drafts[d].plan IN
    \A q \in (p + 1)..drafts[d].saw :
      plans[q].snapshot # plans[p].snapshot /\ plans[q].saw < p

\* A plan is drafted whole or not at all: where one of its documents has had a
\* draft, each has, whatever failed, died or deadlocked on the way.
DraftsComeTogether ==
  \A d \in DOMAIN drafts :
    \A e \in snapshots[plans[drafts[d].plan].snapshot] : DraftsOf(drafts[d].plan, e) # {}
=============================================================================
