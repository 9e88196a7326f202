------------------------- MODULE DocumentPlan_proofs -------------------------
(***************************************************************************)
(* Proofs about DocumentPlan for any requests and DUIMPs, and any bounds.  *)
(*                                                                         *)
(* The argument: what a request has found stays true of the rows it could  *)
(* see, for rows are only added, plans only lose "planned" and drafts only *)
(* "active" (Extends).  It will supersede every plan that is still planned *)
(* of those it saw (Looked); so plans stop being planned from the oldest   *)
(* on, and the newest planned one of a snapshot is its last (Rows).  The   *)
(* process row, which one request at a time has updated, keeps the bounds. *)
(***************************************************************************)
EXTENDS DocumentPlan, SequenceTheorems, WellFoundedInduction, TLAPS

\* Rows are only added, and lose at most their status.
Extends ==
  /\ Len(snapshots) <= Len(snapshots') /\ Len(plans) <= Len(plans')
  /\ Len(drafts) <= Len(drafts')
  /\ \A s \in 1..Len(snapshots) : snapshots'[s] = snapshots[s]
  /\ \A p \in 1..Len(plans) :
       /\ plans'[p].snapshot = plans[p].snapshot /\ plans'[p].version = plans[p].version
       /\ plans'[p].saw = plans[p].saw /\ (plans'[p].planned => plans[p].planned)
  /\ \A d \in 1..Len(drafts) :
       /\ drafts'[d].plan = drafts[d].plan /\ drafts'[d].exporter = drafts[d].exporter
       /\ drafts'[d].saw = drafts[d].saw /\ drafts'[d].checked = drafts[d].checked
       /\ drafts'[d].active => drafts[d].active

Drafting(w) == w.phase \in {"drafting", "creating"}

\* The work w of a request has its plan, either the one it found or its own.
Shape(w) ==
  /\ w.snapshot <= Len(snapshots) /\ w.saw <= Len(plans) /\ w.checked <= Len(drafts)
  /\ w.version <= Len(plans) + 1
  /\ w.made # <<>> => Drafting(w)
  /\ w.version # 0 => w.phase \in {"superseding", "planned", "drafting"}
  /\ w.phase \in {"superseding", "planned"} => w.version # 0
  /\ w.phase \in {"fetching", "preparing", "selected"} \/ w.version # 0 => w.plan = 0
  /\ Drafting(w) /\ w.version = 0 => w.plan # 0
  /\ Drafting(w) /\ w.op = "drafts" => w.version = 0
  /\ w.phase = "creating" => w.op = "drafts" /\ w.todo # {}
  /\ w.phase \in {"planning", "selected", "superseding", "planned", "drafting", "creating"} =>
       w.snapshot # 0
  /\ w.plan # 0 => w.plan \in 1..Len(plans) /\ plans[w.plan].snapshot = w.snapshot

\* A new plan will supersede all that are planned of those it could see.
Looked(w) ==
  w.phase = "selected" \/ w.version # 0 =>
    /\ w.found \subseteq 1..w.saw
    /\ \A p \in 1..Len(plans) : plans[p].planned /\ p <= w.saw => p \in w.found

\* The plan that was found is the last of its snapshot.
Follows(w) ==
  w.plan # 0 => \A p \in (w.plan + 1)..w.saw :
    plans[p].snapshot # plans[w.plan].snapshot /\ plans[p].saw < w.plan

\* Of the first n drafts, none of the document is active.
NoneActive(p, e, n) == \A c \in DraftsOf(p, e) : drafts[c].active => n < c

\* The request makes one draft of a document, of which it has seen none.
Unseen(w) ==
  /\ \A i, j \in 1..Len(w.made) : w.made[i].exporter = w.made[j].exporter => i = j
  /\ \A i \in 1..Len(w.made) : /\ w.made[i].exporter \notin w.todo
                               /\ w.made[i].checked <= Len(drafts)
  /\ w.plan # 0 =>
       /\ \A i \in 1..Len(w.made) :
            NoneActive(w.plan, w.made[i].exporter, w.made[i].checked)
       /\ w.phase = "creating" => NoneActive(w.plan, Min(w.todo), w.checked)
       /\ w.phase = "drafting" /\ w.op = "prepare" =>
            \A e \in w.todo : NoneActive(w.plan, e, w.checked)

\* A document of the plan is still to do, or done here, or had a draft before.
Covers(w) ==
  Drafting(w) => \A e \in snapshots[w.snapshot] :
    \/ e \in w.todo
    \/ \E i \in 1..Len(w.made) : w.made[i].exporter = e
    \/ w.plan # 0 /\ DraftsOf(w.plan, e) # {}

Request(w) == Shape(w) /\ Looked(w) /\ Follows(w) /\ Unseen(w) /\ Covers(w)

\* The work of a request that has updated the process row.
Holds(w) ==
  \/ w.phase \in {"fetching", "planned"}
  \/ Drafting(w) /\ (w.version # 0 \/ w.made # <<>>)

\* It has room for the rows it will add.
Room(w) ==
  /\ w.phase = "fetching" => Len(snapshots) < MaxSnapshots
  /\ w.phase = "planned" \/ (Drafting(w) /\ w.version # 0) => Len(plans) < MaxPlans
  /\ w.made # <<>> => Len(drafts) + Len(w.made) <= MaxDrafts

\* Plans are superseded from the oldest on; drafts are of plans that there are.
Rows ==
  /\ \A p \in 1..Len(plans) :
       plans[p].snapshot <= Len(snapshots) /\ plans[p].version <= p
  /\ \A p, q \in 1..Len(plans) : p < q /\ plans[p].planned => plans[q].planned
  /\ \A d \in 1..Len(drafts) : drafts[d].plan <= Len(plans) /\ drafts[d].saw <= Len(plans)

Inv ==
  /\ TypeOK /\ Rows
  /\ \A r \in Requests : Request(req[r]) /\ Room(req[r])
  /\ PlannedTogetherOverlapped /\ TwinDraftsOverlapped
  /\ DraftsFollowThePlan /\ DraftsComeTogether

-----------------------------------------------------------------------------
(* Operators *)

\* A nonempty set of naturals has a least element.
LEMMA MinIs ==
  ASSUME NEW T \in SUBSET Nat, T # {}
  PROVE  Min(T) \in T /\ \A k \in T : Min(T) <= k
<1> DEFINE Less == {z \in Nat \X Nat : z[1] < z[2]}
<1>1. IsWellFoundedOn(Less, Nat)
  BY NatLessThanWellFounded DEF OpToRel
<1> HIDE DEF Less
<1>2. PICK m \in T : \A k \in T : <<k, m>> \notin Less
  BY <1>1, WFMin
<1>3. ASSUME NEW k \in T PROVE m <= k
  <2>1. k \in Nat /\ m \in Nat
    OBVIOUS
  <2>2. <<k, m>> \in Nat \X Nat /\ <<k, m>>[1] = k /\ <<k, m>>[2] = m
    BY <2>1
  <2>3. ~(k < m)
    BY <1>2, <2>2 DEF Less
  <2> QED
    BY <2>1, <2>3
<1> QED
  BY <1>3 DEF Min

\* A bounded set of naturals has a greatest element.
LEMMA MaxIs ==
  ASSUME NEW n \in Nat, NEW T \in SUBSET (0..n), T # {}
  PROVE  Max(T) \in T /\ \A k \in T : k <= Max(T)
<1> DEFINE U == {n - k : k \in T}
<1>1. U \in SUBSET Nat /\ U # {}
  <2>1. \A k \in T : n - k \in Nat
    OBVIOUS
  <2> QED
    BY <2>1
<1>2. Min(U) \in U /\ \A v \in U : Min(U) <= v
  BY <1>1, MinIs
<1>3. PICK m \in T : Min(U) = n - m
  BY <1>2
<1>4. ASSUME NEW k \in T PROVE m >= k
  <2>1. n - k \in U
    OBVIOUS
  <2>2. n - m <= n - k
    BY <1>2, <1>3, <2>1
  <2> QED
    BY <2>2
<1>5. Max(T) \in T /\ \A k \in T : Max(T) >= k
  BY <1>4 DEF Max
<1> QED
  BY <1>5

\* The exporters of a snapshot.
LEMMA SnapshotIs ==
  ASSUME Inv, NEW s \in 1..Len(snapshots)
  PROVE  snapshots[s] \subseteq Nat /\ snapshots[s] # {} /\ snapshots[s] \subseteq Exporters
<1>1. snapshots[s] \in Duimps
  BY ElementOfSeq DEF Inv, TypeOK
<1> QED
  BY <1>1, DuimpsAssumption DEF Exporters

\* Documents of a DUIMP are natural numbers.
LEMMA ExportersAreNat == Exporters \subseteq Nat
BY DuimpsAssumption DEF Exporters

\* The plan that is found is planned, of the snapshot, and the last of those that
\* are planned; a later one of the snapshot is none, and one of another overlapped.
LEMMA NewestIs ==
  ASSUME Inv, NEW s \in Nat, NewestPlan(s) # 0
  PROVE  /\ NewestPlan(s) \in 1..Len(plans) /\ plans[NewestPlan(s)].snapshot = s
         /\ \A q \in (NewestPlan(s) + 1)..Len(plans) :
              plans[q].snapshot # s /\ plans[q].saw < NewestPlan(s)
<1>1. Len(plans) \in Nat /\ DOMAIN plans = 1..Len(plans) /\ plans \in Seq(Plans)
  BY LenProperties DEF Inv, TypeOK
<1> DEFINE T == {0} \cup (PlansOf(s) \cap Planned)
<1>2. T \in SUBSET (0..Len(plans)) /\ T # {}
  BY <1>1 DEF PlansOf, Planned
<1>3. Max(T) \in T /\ \A k \in T : k <= Max(T)
  BY <1>1, <1>2, MaxIs
<1>4. PICK p : p = NewestPlan(s)
  OBVIOUS
<1>5. p # 0 /\ p \in PlansOf(s) \cap Planned /\ \A k \in PlansOf(s) \cap Planned : k <= p
  BY <1>3, <1>4 DEF NewestPlan
<1>6. p \in 1..Len(plans) /\ plans[p].snapshot = s /\ plans[p].planned
  BY <1>1, <1>5 DEF PlansOf, Planned
<1>7. ASSUME NEW q \in (p + 1)..Len(plans)
      PROVE  plans[q].snapshot # s /\ plans[q].saw < p
  <2>1. q \in 1..Len(plans) /\ p < q
    BY <1>1, <1>6
  <2>2. plans[q].planned
    BY <1>6, <2>1 DEF Inv, Rows
  <2>3. q \in Planned /\ p \in Planned
    BY <1>1, <1>6, <2>1, <2>2 DEF Planned
  <2>4. plans[q].snapshot # s
    BY <1>1, <1>5, <1>6, <2>1, <2>3 DEF PlansOf
  <2>5. plans[q].saw < p
    BY <2>1, <2>3 DEF Inv, PlannedTogetherOverlapped
  <2> QED
    BY <2>4, <2>5
<1> QED
  BY <1>4, <1>6, <1>7

-----------------------------------------------------------------------------
(* Steps *)

\* The idle work is typed.
LEMMA IdleType == Idle \in Handlers
<1>1. 0 \in 0..MaxSnapshots /\ 0 \in 0..MaxPlans /\ 0 \in 0..(MaxPlans + 1) /\ 0 \in 0..MaxDrafts
  BY BoundsAssumption
<1>2. <<>> \in Seq([exporter : Exporters, checked : 0..MaxDrafts])
  OBVIOUS
<1> QED
  BY <1>1, <1>2 DEF Idle, Handlers

\* The idle work has found nothing.
LEMMA IdleIs ==
  ASSUME Inv
  PROVE  Idle \in Handlers /\ Request(Idle) /\ Room(Idle) /\ ~Holds(Idle)
<1>1. Idle \in Handlers
  BY IdleType
<1>2. Len(snapshots) \in Nat /\ Len(plans) \in Nat /\ Len(drafts) \in Nat
  BY LenProperties DEF Inv, TypeOK
<1>3. /\ Idle.phase = "idle" /\ Idle.snapshot = 0 /\ Idle.plan = 0 /\ Idle.version = 0
      /\ Idle.saw = 0 /\ Idle.checked = 0 /\ Idle.made = <<>> /\ Len(Idle.made) = 0
  BY DEF Idle
<1>4. Shape(Idle) /\ Looked(Idle) /\ Follows(Idle) /\ Covers(Idle) /\ Unseen(Idle)
  BY <1>2, <1>3 DEF Shape, Looked, Follows, Covers, Unseen, Drafting
<1> QED
  BY <1>1, <1>3, <1>4 DEF Request, Room, Holds, Drafting

\* There are no rows at first, and all are idle.
LEMMA InitInv == Init => Inv
<1> SUFFICES ASSUME Init PROVE Inv
  OBVIOUS
<1>1. /\ snapshots = <<>> /\ plans = <<>> /\ drafts = <<>>
      /\ Len(snapshots) = 0 /\ Len(plans) = 0 /\ Len(drafts) = 0
      /\ DOMAIN plans = {} /\ DOMAIN drafts = {}
  BY DEF Init
<1>2. \A r \in Requests : req[r] = Idle
  BY DEF Init
<1>3. Idle \in Handlers
  BY IdleType
<1>4. TypeOK
  <2>1. snapshots \in Seq(Duimps) /\ plans \in Seq(Plans) /\ drafts \in Seq(Drafts)
    BY <1>1
  <2>2. \A r \in Requests : ~HoldsProcess(r)
    BY <1>2 DEF HoldsProcess, Idle
  <2>3. req \in [Requests -> Handlers]
    BY <1>3 DEF Init
  <2> QED
    BY <1>1, <2>1, <2>2, <2>3, BoundsAssumption DEF TypeOK
<1>5. /\ Idle.phase = "idle" /\ Idle.snapshot = 0 /\ Idle.plan = 0 /\ Idle.version = 0
      /\ Idle.saw = 0 /\ Idle.checked = 0 /\ Idle.made = <<>> /\ Len(Idle.made) = 0
  BY DEF Idle
<1>6. Request(Idle) /\ Room(Idle)
  BY <1>1, <1>5 DEF Request, Shape, Looked, Follows, Covers, Unseen, Drafting, Room
<1>7. Rows
  BY <1>1 DEF Rows
<1>8. /\ PlannedTogetherOverlapped /\ TwinDraftsOverlapped
      /\ DraftsFollowThePlan /\ DraftsComeTogether
  BY <1>1 DEF PlannedTogetherOverlapped, TwinDraftsOverlapped, DraftsFollowThePlan,
     DraftsComeTogether, Planned
<1> QED
  BY <1>2, <1>4, <1>6, <1>7, <1>8 DEF Inv

\* A step of one request that changes no row.
LEMMA RequestStep ==
  ASSUME Inv, NEW r \in Requests, NEW w \in Handlers, req' = [req EXCEPT ![r] = w],
         Request(w), Room(w), Holds(w) => Holds(req[r]) \/ ProcessIsFree(r),
         UNCHANGED <<snapshots, plans, drafts>>
  PROVE  Inv'
<1>1. TypeOK /\ req \in [Requests -> Handlers]
  BY DEF Inv, TypeOK
<1>2. req'[r] = w /\ \A k \in Requests \ {r} : req'[k] = req[k]
  BY <1>1
<1>3. \A k \in Requests : (HoldsProcess(k) <=> Holds(req[k]))
                          /\ (HoldsProcess(k)' <=> Holds(req'[k]))
  BY DEF HoldsProcess, Holds, Drafting
<1>4. \A k, l \in Requests : HoldsProcess(k)' /\ HoldsProcess(l)' => k = l
  BY <1>1, <1>2, <1>3 DEF TypeOK, ProcessIsFree
<1>5. TypeOK'
  <2>1. req' \in [Requests -> Handlers]
    BY <1>1
  <2> QED
    BY <1>1, <1>4, <2>1 DEF TypeOK
<1>6. ASSUME NEW k \in Requests PROVE Request(req[k])' /\ Room(req[k])'
  <2>1. PICK v : v = req'[k]
    OBVIOUS
  <2>2. Request(v) /\ Room(v)
    BY <1>2, <2>1 DEF Inv
  <2>3. Request(v)' /\ Room(v)'
    BY <2>2 DEF Request, Shape, Looked, Follows, Unseen, NoneActive, Covers, DraftsOf, Room
  <2> QED
    BY <2>1, <2>3 DEF Request, Shape, Looked, Follows, Unseen, NoneActive, Covers, DraftsOf,
       Room, Drafting
<1>7. Rows'
  BY DEF Inv, Rows
<1>8. /\ PlannedTogetherOverlapped' /\ TwinDraftsOverlapped'
      /\ DraftsFollowThePlan' /\ DraftsComeTogether'
  BY DEF Inv, PlannedTogetherOverlapped, TwinDraftsOverlapped, DraftsFollowThePlan,
     DraftsComeTogether, Planned, DraftsOf
<1> QED
  BY <1>5, <1>6, <1>7, <1>8 DEF Inv

\* What a request has found stays true of more rows.
LEMMA RequestKept ==
  ASSUME Inv, NEW w \in Handlers, Request(w), Extends,
         snapshots' \in Seq(Duimps), plans' \in Seq(Plans), drafts' \in Seq(Drafts)
  PROVE  Request(w)'
<1>1. /\ Len(snapshots) \in Nat /\ Len(plans) \in Nat /\ Len(drafts) \in Nat
      /\ Len(snapshots') \in Nat /\ Len(plans') \in Nat /\ Len(drafts') \in Nat
  BY LenProperties DEF Inv, TypeOK
<1>2. /\ DOMAIN plans = 1..Len(plans) /\ DOMAIN drafts = 1..Len(drafts)
      /\ DOMAIN plans' = 1..Len(plans') /\ DOMAIN drafts' = 1..Len(drafts')
  BY LenProperties DEF Inv, TypeOK
<1>3. /\ w.snapshot \in Nat /\ w.saw \in Nat /\ w.checked \in Nat /\ w.plan \in Nat
      /\ w.version \in Nat /\ w.made \in Seq([exporter : Exporters, checked : 0..MaxDrafts])
  BY DEF Handlers
<1>4. Shape(w)'
  <2>1. Shape(w)
    BY DEF Request
  <2>2. Len(snapshots) <= Len(snapshots') /\ Len(plans) <= Len(plans')
        /\ Len(drafts) <= Len(drafts')
    BY DEF Extends
  <2>3. /\ w.snapshot <= Len(snapshots') /\ w.saw <= Len(plans') /\ w.checked <= Len(drafts')
        /\ w.version <= Len(plans') + 1
    BY <1>1, <1>3, <2>1, <2>2 DEF Shape
  <2>4. w.plan # 0 => w.plan \in 1..Len(plans') /\ plans'[w.plan].snapshot = w.snapshot
    <3>1. w.plan # 0 => w.plan \in 1..Len(plans) /\ plans[w.plan].snapshot = w.snapshot
      BY <2>1 DEF Shape
    <3>2. \A p \in 1..Len(plans) : plans'[p].snapshot = plans[p].snapshot
      BY DEF Extends
    <3> QED
      BY <1>1, <1>3, <2>2, <3>1, <3>2
  <2> QED
    BY <2>1, <2>3, <2>4 DEF Shape, Drafting
<1>5. Looked(w)'
  <2>1. Looked(w) /\ w.saw <= Len(plans)
    BY DEF Request, Shape
  <2>2. \A p \in 1..Len(plans) : plans'[p].planned => plans[p].planned
    BY DEF Extends
  <2> QED
    BY SMTT(30), <1>1, <1>3, <2>1, <2>2 DEF Looked
<1>6. Follows(w)'
  <2>1. w.plan # 0 => w.plan \in 1..Len(plans)
    BY DEF Request, Shape
  <2>2. w.saw <= Len(plans) /\ Follows(w)
    BY DEF Request, Shape
  <2>3. \A p \in 1..Len(plans) : /\ plans'[p].snapshot = plans[p].snapshot
                                 /\ plans'[p].saw = plans[p].saw
    BY DEF Extends
  <2>4. w.plan # 0 => \A p \in (w.plan + 1)..w.saw : p \in 1..Len(plans)
    BY <1>1, <1>3, <2>2
  <2> QED
    BY <2>1, <2>2, <2>3, <2>4 DEF Follows
<1>7. ASSUME NEW p \in 1..Len(plans), NEW e, NEW n \in Nat, n <= Len(drafts),
             NoneActive(p, e, n)
      PROVE  \A c \in 1..Len(drafts') :
               drafts'[c].plan = p /\ drafts'[c].exporter = e /\ drafts'[c].active => n < c
  <2> SUFFICES ASSUME NEW c \in 1..Len(drafts'), drafts'[c].plan = p,
                      drafts'[c].exporter = e, drafts'[c].active
               PROVE  n < c
    OBVIOUS
  <2>1. CASE c \in 1..Len(drafts)
    <3>1. drafts[c].plan = p /\ drafts[c].exporter = e /\ drafts[c].active
      BY <2>1 DEF Extends
    <3> QED
      BY <1>2, <1>7, <2>1, <3>1 DEF NoneActive, DraftsOf
  <2>2. CASE c \notin 1..Len(drafts)
    BY <1>1, <1>7, <2>2
  <2> QED
    BY <2>1, <2>2
<1>8. ASSUME NEW p, NEW e
      PROVE  DraftsOf(p, e) \subseteq DraftsOf(p, e)'
  BY <1>1, <1>2 DEF DraftsOf, Extends
<1>9. Covers(w)'
  <2>1. Drafting(w) => w.snapshot \in 1..Len(snapshots)
    BY <1>1, <1>3 DEF Request, Shape, Drafting
  <2>2. Drafting(w) => snapshots'[w.snapshot] = snapshots[w.snapshot]
    BY <2>1 DEF Extends
  <2> QED
    BY <1>8, <2>2 DEF Request, Covers, Drafting
<1>10. Unseen(w)'
  <2>1. \A i \in 1..Len(w.made) : w.made[i].checked \in Nat /\ w.made[i].checked <= Len(drafts)
    <3>1. \A i \in 1..Len(w.made) : w.made[i] \in [exporter : Exporters, checked : 0..MaxDrafts]
      BY <1>3, ElementOfSeq
    <3> QED
      BY <3>1 DEF Request, Unseen
  <2>2. w.checked <= Len(drafts) /\ (w.plan # 0 => w.plan \in 1..Len(plans))
    BY DEF Request, Shape
  <2>3. ASSUME NEW e, NEW n \in Nat, n <= Len(drafts), w.plan # 0, NoneActive(w.plan, e, n)
        PROVE  NoneActive(w.plan, e, n)'
    BY <1>2, <1>7, <2>2, <2>3 DEF NoneActive, DraftsOf
  <2>4. \A i \in 1..Len(w.made) : w.made[i].checked <= Len(drafts')
    BY <1>1, <2>1 DEF Extends
  <2>5. /\ \A i, j \in 1..Len(w.made) : w.made[i].exporter = w.made[j].exporter => i = j
        /\ \A i \in 1..Len(w.made) : w.made[i].exporter \notin w.todo
        /\ w.plan # 0 =>
             /\ \A i \in 1..Len(w.made) :
                  NoneActive(w.plan, w.made[i].exporter, w.made[i].checked)
             /\ w.phase = "creating" => NoneActive(w.plan, Min(w.todo), w.checked)
             /\ w.phase = "drafting" /\ w.op = "prepare" =>
                  \A e \in w.todo : NoneActive(w.plan, e, w.checked)
    BY DEF Request, Unseen
  <2> QED
    BY <1>3, <2>1, <2>2, <2>3, <2>4, <2>5 DEF Unseen
<1> QED
  BY <1>4, <1>5, <1>6, <1>9, <1>10 DEF Request

\* Numbers of rows.
LEMMA Lengths ==
  ASSUME Inv
  PROVE  /\ Len(snapshots) \in 0..MaxSnapshots /\ Len(plans) \in 0..MaxPlans
         /\ Len(drafts) \in 0..MaxDrafts
         /\ Len(snapshots) \in Nat /\ Len(plans) \in Nat /\ Len(drafts) \in Nat
         /\ DOMAIN snapshots = 1..Len(snapshots) /\ DOMAIN plans = 1..Len(plans)
         /\ DOMAIN drafts = 1..Len(drafts)
         /\ MaxSnapshots \in Nat /\ MaxPlans \in Nat /\ MaxDrafts \in Nat
BY LenProperties, BoundsAssumption DEF Inv, TypeOK

\* A request ends with nothing done.
LEMMA GiveUpStep ==
  ASSUME Inv, NEW r \in Requests, GiveUp(r)
  PROVE  Inv'
BY IdleIs, RequestStep DEF GiveUp, End

\* A request begins.
LEMMA BeginStep ==
  ASSUME Inv, NEW r \in Requests, NEW phase \in {"fetching", "preparing"},
         NEW op \in {"fetch", "prepare"}, NEW s \in 0..Len(snapshots), Begin(r, phase, op, s),
         phase = "fetching" => ProcessIsFree(r) /\ Len(snapshots) < MaxSnapshots,
         UNCHANGED <<snapshots, plans, drafts>>
  PROVE  Inv'
<1>1. PICK w : w = [Idle EXCEPT !.phase = phase, !.op = op, !.snapshot = s]
  OBVIOUS
<1>2. req' = [req EXCEPT ![r] = w]
  BY <1>1 DEF Begin
<1>3. s \in 0..MaxSnapshots
  BY Lengths
<1>4. w \in Handlers
  BY <1>1, <1>3, IdleIs DEF Handlers
<1>5. /\ w.phase = phase /\ w.op = op /\ w.snapshot = s /\ w.plan = 0 /\ w.version = 0
      /\ w.saw = 0 /\ w.checked = 0 /\ w.made = <<>> /\ Len(w.made) = 0
  BY <1>1 DEF Idle
<1>6. Shape(w)
  BY <1>5, Lengths DEF Shape, Drafting
<1>7. Looked(w) /\ Follows(w) /\ Covers(w) /\ Unseen(w)
  BY <1>5 DEF Looked, Follows, Covers, Unseen, Drafting
<1>8. Room(w) /\ (Holds(w) => ProcessIsFree(r))
  BY <1>5 DEF Room, Holds, Drafting
<1> QED
  BY <1>2, <1>4, <1>6, <1>7, <1>8, RequestStep DEF Request

\* fetch_duimp_for_process writes the process.
LEMMA FetchStep ==
  ASSUME Inv, NEW r \in Requests, Fetch(r)
  PROVE  Inv'
<1>1. 0 \in 0..Len(snapshots)
  BY Lengths
<1> QED
  BY <1>1, BeginStep DEF Fetch

\* simplified-prepare finds no snapshot, or the latest.
LEMMA PrepareStep ==
  ASSUME Inv, NEW r \in Requests, PrepareAnew(r) \/ Prepare(r)
  PROVE  Inv'
<1>1. 0 \in 0..Len(snapshots) /\ Len(snapshots) \in 0..Len(snapshots)
  BY Lengths
<1> QED
  BY <1>1, BeginStep DEF PrepareAnew, Prepare

\* simplified-prepare writes the process to fetch.
LEMMA FetchToPrepareStep ==
  ASSUME Inv, NEW r \in Requests, FetchToPrepare(r)
  PROVE  Inv'
<1>1. PICK v : v = req[r]
  OBVIOUS
<1>2. PICK w : w = [v EXCEPT !.phase = "fetching"]
  OBVIOUS
<1>3. /\ v.phase = "preparing" /\ ProcessIsFree(r) /\ Len(snapshots) < MaxSnapshots
      /\ UNCHANGED <<snapshots, plans, drafts>>
  BY <1>1 DEF FetchToPrepare
<1>4. v \in Handlers /\ Request(v)
  BY <1>1 DEF Inv, TypeOK
<1>5. req' = [req EXCEPT ![r] = w]
  <2>1. req' = [req EXCEPT ![r].phase = "fetching"]
    BY DEF FetchToPrepare
  <2> QED
    BY <1>1, <1>2, <2>1
<1>6. w \in Handlers
  BY <1>2, <1>4 DEF Handlers
<1>7. /\ w.phase = "fetching" /\ w.op = v.op /\ w.snapshot = v.snapshot /\ w.plan = v.plan
      /\ w.version = v.version /\ w.saw = v.saw /\ w.checked = v.checked
      /\ w.made = v.made /\ w.found = v.found /\ w.todo = v.todo
  BY <1>2, <1>4 DEF Handlers
<1>8. w.version = 0 /\ w.made = <<>> /\ Len(w.made) = 0
  BY <1>3, <1>4, <1>7 DEF Request, Shape, Drafting
<1>9. Shape(w)
  BY <1>3, <1>4, <1>7, <1>8 DEF Request, Shape, Drafting
<1>10. Looked(w) /\ Follows(w) /\ Covers(w)
  BY <1>4, <1>7, <1>8 DEF Request, Looked, Follows, Covers, Drafting
<1>11. Unseen(w)
  BY <1>7, <1>8 DEF Unseen
<1>12. Room(w)
  BY <1>3, <1>7, <1>8 DEF Room, Drafting
<1> QED
  BY <1>3, <1>5, <1>6, <1>9, <1>10, <1>11, <1>12, RequestStep DEF Request

\* A request looks at the plans that it will supersede.
LEMMA SelectStep ==
  ASSUME Inv, NEW r \in Requests, NEW op \in {"plan", "prepare"}, NEW s \in DOMAIN snapshots,
         SelectPlanned(r, op, s)
  PROVE  Inv'
<1>1. PICK n, found : n = Len(plans) /\ found = Planned
  OBVIOUS
<1>2. PICK w : w = [Idle EXCEPT !.phase = "selected", !.op = op, !.snapshot = s,
                                !.saw = n, !.found = found]
  OBVIOUS
<1>3. req' = [req EXCEPT ![r] = w] /\ UNCHANGED <<snapshots, plans, drafts>>
  BY <1>1, <1>2 DEF SelectPlanned, Superseded
<1>4. s \in 1..Len(snapshots) /\ s \in 0..MaxSnapshots /\ n \in 0..MaxPlans
  BY <1>1, Lengths
<1>5. found \subseteq 1..n /\ found \in SUBSET (1..MaxPlans)
  BY <1>1, Lengths DEF Planned
<1>6. w \in Handlers
  BY <1>2, <1>4, <1>5, IdleIs DEF Handlers
<1>7. /\ w.phase = "selected" /\ w.op = op /\ w.snapshot = s /\ w.plan = 0 /\ w.version = 0
      /\ w.saw = n /\ w.checked = 0 /\ w.made = <<>> /\ Len(w.made) = 0 /\ w.found = found
  BY <1>2 DEF Idle
<1>8. Shape(w)
  BY <1>1, <1>4, <1>7, Lengths DEF Shape, Drafting
<1>9. Looked(w)
  BY <1>1, <1>5, <1>7, Lengths DEF Looked, Planned
<1>10. Follows(w) /\ Covers(w) /\ Unseen(w)
  BY <1>7 DEF Follows, Covers, Unseen, Drafting
<1>11. Room(w) /\ ~Holds(w)
  BY <1>7 DEF Room, Holds, Drafting
<1> QED
  BY <1>3, <1>6, <1>8, <1>9, <1>10, <1>11, RequestStep DEF Request

\* A request computes the version of its plan.
LEMMA SupersedeStep ==
  ASSUME Inv, NEW r \in Requests, Supersede(r)
  PROVE  Inv'
<1>1. PICK v : v = req[r]
  OBVIOUS
<1>2. PICK n : n = 1 + Max({0} \cup {plans[p].version : p \in PlansOf(v.snapshot)})
  OBVIOUS
<1>3. PICK w : w = [v EXCEPT !.phase = "superseding", !.version = n]
  OBVIOUS
<1>4. v.phase = "selected" /\ UNCHANGED <<snapshots, plans, drafts>>
  BY <1>1 DEF Supersede
<1>5. v \in Handlers /\ Request(v)
  BY <1>1 DEF Inv, TypeOK
<1>6. req' = [req EXCEPT ![r] = w]
  <2>1. req' = [req EXCEPT ![r].phase = "superseding", ![r].version = n]
    BY <1>1, <1>2 DEF Supersede
  <2> QED
    BY <1>1, <1>3, <2>1
<1>7. n \in 1..(Len(plans) + 1)
  <2> DEFINE T == {0} \cup {plans[p].version : p \in PlansOf(v.snapshot)}
  <2>1. T \in SUBSET (0..Len(plans)) /\ T # {}
    <3>1. ASSUME NEW p \in PlansOf(v.snapshot) PROVE plans[p].version \in 0..Len(plans)
      <4>1. p \in 1..Len(plans)
        BY Lengths DEF PlansOf
      <4>2. plans[p] \in Plans
        BY <4>1, ElementOfSeq DEF Inv, TypeOK
      <4>3. plans[p].version \in Nat
        BY <4>2, Lengths DEF Plans
      <4>4. plans[p].version <= p
        BY <4>1 DEF Inv, Rows
      <4> QED
        BY <4>1, <4>3, <4>4, Lengths
    <3> QED
      BY <3>1, Lengths
  <2>2. Max(T) \in 0..Len(plans)
    BY <2>1, MaxIs, Lengths
  <2> QED
    BY <1>2, <2>2, Lengths
<1>8. w \in Handlers
  <2>1. n \in 0..(MaxPlans + 1)
    BY <1>7, Lengths
  <2> QED
    BY <1>3, <1>5, <2>1 DEF Handlers
<1>9. /\ w.phase = "superseding" /\ w.op = v.op /\ w.snapshot = v.snapshot /\ w.plan = v.plan
      /\ w.version = n /\ w.saw = v.saw /\ w.checked = v.checked
      /\ w.made = v.made /\ w.found = v.found /\ w.todo = v.todo
  BY <1>3, <1>5 DEF Handlers
<1>10. Shape(v) /\ Looked(v) /\ w.plan = 0 /\ w.made = <<>> /\ Len(w.made) = 0 /\ n # 0
  BY <1>4, <1>5, <1>7, <1>9 DEF Request, Shape, Drafting
<1>11. Shape(w)
  BY <1>4, <1>7, <1>9, <1>10, Lengths DEF Shape, Drafting
<1>12. Looked(w)
  BY <1>4, <1>9, <1>10 DEF Looked
<1>13. Follows(w) /\ Covers(w) /\ Unseen(w)
  BY <1>9, <1>10 DEF Follows, Covers, Unseen, Drafting
<1>14. Room(w) /\ ~Holds(w)
  BY <1>9, <1>10 DEF Room, Holds, Drafting
<1> QED
  BY <1>4, <1>6, <1>8, <1>11, <1>12, <1>13, <1>14, RequestStep DEF Request

\* The plan is inserted, and simplified-prepare goes on to all its documents.
LEMMA InsertPlanStep ==
  ASSUME Inv, NEW r \in Requests, InsertPlan(r)
  PROVE  Inv'
<1>1. PICK v : v = req[r]
  OBVIOUS
<1>2. /\ v.phase = "superseding" /\ ProcessIsFree(r) /\ Len(plans) < MaxPlans
      /\ UNCHANGED <<snapshots, plans, drafts>>
  BY <1>1 DEF InsertPlan
<1>3. v \in Handlers /\ Request(v) /\ Shape(v) /\ Looked(v)
  BY <1>1 DEF Inv, TypeOK, Request
<1>4. PICK todo : todo = snapshots[v.snapshot]
  OBVIOUS
<1>5. v.snapshot \in 1..Len(snapshots) /\ v.version # 0 /\ v.plan = 0 /\ v.made = <<>>
  BY <1>2, <1>3, Lengths DEF Shape, Drafting, Handlers
<1>6. todo \in SUBSET Exporters
  BY <1>4, <1>5, SnapshotIs
<1>7. PICK w : /\ req' = [req EXCEPT ![r] = w]
               /\ IF v.op = "prepare" THEN w = [v EXCEPT !.phase = "drafting", !.todo = todo]
                  ELSE w = [v EXCEPT !.phase = "planned"]
  <2>1. CASE v.op = "prepare"
    <3>1. req' = [req EXCEPT ![r].phase = "drafting", ![r].todo = todo]
      BY <1>1, <1>4, <2>1 DEF InsertPlan
    <3> QED
      BY <1>1, <2>1, <3>1
  <2>2. CASE v.op # "prepare"
    <3>1. req' = [req EXCEPT ![r].phase = "planned"]
      BY <1>1, <2>2 DEF InsertPlan
    <3> QED
      BY <1>1, <2>2, <3>1
  <2> QED
    BY <2>1, <2>2
<1>8. /\ w \in Handlers
      /\ \/ w.phase = "planned"
         \/ w.phase = "drafting" /\ w.op = "prepare" /\ w.todo = todo
      /\ w.snapshot = v.snapshot /\ w.plan = v.plan
      /\ w.version = v.version /\ w.saw = v.saw /\ w.checked = v.checked
      /\ w.made = v.made /\ w.found = v.found
  <2>1. CASE v.op = "prepare"
    BY <1>3, <1>6, <1>7, <2>1 DEF Handlers
  <2>2. CASE v.op # "prepare"
    BY <1>3, <1>7, <2>2 DEF Handlers
  <2> QED
    BY <2>1, <2>2
<1>9. Shape(w)
  BY <1>2, <1>3, <1>5, <1>8 DEF Shape, Drafting
<1>10. Looked(w)
  BY <1>3, <1>5, <1>8 DEF Looked
<1>11. Follows(w) /\ Unseen(w)
  BY <1>5, <1>8 DEF Follows, Unseen
<1>12. Covers(w)
  BY <1>4, <1>8 DEF Covers, Drafting
<1>13. Room(w)
  BY <1>2, <1>5, <1>8 DEF Room, Drafting
<1> QED
  BY <1>2, <1>7, <1>8, <1>9, <1>10, <1>11, <1>12, <1>13, RequestStep DEF Request

\* generate-drafts takes the newest plan, with all its documents.
LEMMA DraftStep ==
  ASSUME Inv, NEW r \in Requests, NEW s \in DOMAIN snapshots, Draft(r, s)
  PROVE  Inv'
<1>1. PICK p, n, todo : p = NewestPlan(s) /\ n = Len(plans) /\ todo = snapshots[s]
  OBVIOUS
<1>2. PICK w : w = [Idle EXCEPT !.phase = "drafting", !.op = "drafts", !.snapshot = s,
                                !.plan = p, !.saw = n, !.todo = todo]
  OBVIOUS
<1>3. p # 0 /\ req' = [req EXCEPT ![r] = w] /\ UNCHANGED <<snapshots, plans, drafts>>
  BY <1>1, <1>2 DEF Draft
<1>4. s \in 1..Len(snapshots) /\ s \in 0..MaxSnapshots /\ n \in 0..MaxPlans /\ s \in Nat
  BY <1>1, Lengths
<1>5. /\ p \in 1..Len(plans) /\ plans[p].snapshot = s
      /\ \A q \in (p + 1)..n : plans[q].snapshot # s /\ plans[q].saw < p
  BY <1>1, <1>3, <1>4, NewestIs
<1>6. todo \in SUBSET Exporters /\ todo # {}
  BY <1>1, <1>4, SnapshotIs
<1>7. w \in Handlers
  <2>1. p \in 0..MaxPlans
    BY <1>5, Lengths
  <2> QED
    BY <1>2, <1>4, <1>6, <2>1, IdleIs DEF Handlers
<1>8. /\ w.phase = "drafting" /\ w.op = "drafts" /\ w.snapshot = s /\ w.plan = p
      /\ w.version = 0 /\ w.saw = n /\ w.checked = 0 /\ w.made = <<>> /\ Len(w.made) = 0
      /\ w.todo = todo
  BY <1>2 DEF Idle
<1>9. Shape(w)
  BY <1>1, <1>3, <1>4, <1>5, <1>8, Lengths DEF Shape, Drafting
<1>10. Looked(w) /\ Follows(w)
  BY <1>5, <1>8 DEF Looked, Follows
<1>11. Unseen(w) /\ Covers(w)
  BY <1>1, <1>8 DEF Unseen, Covers
<1>12. Room(w) /\ ~Holds(w)
  BY <1>8 DEF Room, Holds, Drafting
<1> QED
  BY <1>3, <1>7, <1>9, <1>10, <1>11, <1>12, RequestStep DEF Request

\* simplified-prepare takes the newest plan with the documents that have no draft,
\* or goes on to make a plan.
LEMMA LookForPlanStep ==
  ASSUME Inv, NEW r \in Requests, LookForPlan(r)
  PROVE  Inv'
<1>1. PICK v : v = req[r]
  OBVIOUS
<1>2. v.phase = "preparing" /\ v.snapshot # 0 /\ UNCHANGED <<snapshots, plans, drafts>>
  BY <1>1 DEF LookForPlan
<1>3. v \in Handlers /\ Request(v) /\ Shape(v)
  BY <1>1 DEF Inv, TypeOK, Request
<1>4. /\ v.snapshot \in 1..Len(snapshots) /\ v.snapshot \in Nat /\ v.version = 0
      /\ v.made = <<>> /\ Len(v.made) = 0
  BY <1>2, <1>3, Lengths DEF Shape, Drafting, Handlers
<1>5. CASE NewestPlan(v.snapshot) = 0
  <2>1. PICK w : w = [v EXCEPT !.phase = "planning"]
    OBVIOUS
  <2>2. req' = [req EXCEPT ![r] = w]
    <3>1. req' = [req EXCEPT ![r].phase = "planning"]
      BY <1>1, <1>5 DEF LookForPlan
    <3> QED
      BY <1>1, <2>1, <3>1
  <2>3. w \in Handlers
    BY <1>3, <2>1 DEF Handlers
  <2>4. /\ w.phase = "planning" /\ w.op = v.op /\ w.snapshot = v.snapshot /\ w.plan = v.plan
        /\ w.version = 0 /\ w.saw = v.saw /\ w.checked = v.checked
        /\ w.made = v.made /\ w.found = v.found /\ w.todo = v.todo
    BY <1>3, <1>4, <2>1 DEF Handlers
  <2>5. Shape(w)
    BY <1>2, <1>3, <1>4, <2>4 DEF Shape, Drafting
  <2>6. Looked(w) /\ Follows(w) /\ Covers(w) /\ Unseen(w)
    BY <1>3, <1>4, <2>4 DEF Request, Looked, Follows, Covers, Unseen, Drafting
  <2>7. Room(w) /\ ~Holds(w)
    BY <1>4, <2>4 DEF Room, Holds, Drafting
  <2> QED
    BY <1>2, <2>2, <2>3, <2>5, <2>6, <2>7, RequestStep DEF Request
<1>6. CASE NewestPlan(v.snapshot) # 0
  <2>1. PICK p, n, todo, checked :
          /\ p = NewestPlan(v.snapshot) /\ n = Len(plans) /\ checked = Len(drafts)
          /\ todo = {e \in snapshots[v.snapshot] : ~HasDraft(p, e)}
    OBVIOUS
  <2>2. PICK w : w = [v EXCEPT !.phase = "drafting", !.plan = p, !.saw = n, !.todo = todo,
                               !.checked = checked]
    OBVIOUS
  <2>3. req' = [req EXCEPT ![r] = w]
    <3>1. req' = [req EXCEPT ![r].phase = "drafting", ![r].plan = p, ![r].saw = n,
                             ![r].todo = todo, ![r].checked = checked]
      BY <1>1, <1>6, <2>1 DEF LookForPlan
    <3> QED
      BY <1>1, <2>2, <3>1
  <2>4. /\ p \in 1..Len(plans) /\ plans[p].snapshot = v.snapshot
        /\ \A q \in (p + 1)..n : plans[q].snapshot # v.snapshot /\ plans[q].saw < p
    BY <1>4, <1>6, <2>1, NewestIs
  <2>5. todo \in SUBSET Exporters
    BY <1>4, <2>1, SnapshotIs
  <2>6. w \in Handlers
    <3>1. p \in 0..MaxPlans /\ n \in 0..MaxPlans /\ checked \in 0..MaxDrafts
      BY <2>1, <2>4, Lengths
    <3> QED
      BY <1>3, <2>2, <2>5, <3>1 DEF Handlers
  <2>7. /\ w.phase = "drafting" /\ w.op = v.op /\ w.snapshot = v.snapshot /\ w.plan = p
        /\ w.version = 0 /\ w.saw = n /\ w.checked = checked
        /\ w.made = <<>> /\ Len(w.made) = 0 /\ w.todo = todo
    BY <1>3, <1>4, <2>2 DEF Handlers
  <2>8. Shape(w)
    BY <1>4, <2>1, <2>4, <2>7, Lengths DEF Shape, Drafting
  <2>9. Looked(w) /\ Follows(w)
    BY <2>4, <2>7 DEF Looked, Follows
  <2>10. \A e \in todo : NoneActive(p, e, checked)
    BY <2>1 DEF NoneActive, HasDraft
  <2>11. Unseen(w)
    BY <2>7, <2>10 DEF Unseen
  <2>12. Covers(w)
    <3>1. ASSUME NEW e \in snapshots[v.snapshot], e \notin todo PROVE DraftsOf(p, e) # {}
      BY <2>1, <3>1 DEF HasDraft
    <3> QED
      BY <2>4, <2>7, <3>1 DEF Covers
  <2>13. Room(w) /\ ~Holds(w)
    BY <2>7 DEF Room, Holds, Drafting
  <2> QED
    BY <1>2, <2>3, <2>6, <2>8, <2>9, <2>11, <2>12, <2>13, RequestStep DEF Request
<1> QED
  BY <1>5, <1>6

\* generate-drafts leaves a document that has a draft.
LEMMA ReuseStep ==
  ASSUME Inv, NEW r \in Requests, Reuse(r)
  PROVE  Inv'
<1>1. PICK v : v = req[r]
  OBVIOUS
<1>2. PICK e : e = Min(v.todo)
  OBVIOUS
<1>3. PICK w : w = [v EXCEPT !.todo = v.todo \ {e}]
  OBVIOUS
<1>4. /\ v.phase = "drafting" /\ v.op = "drafts" /\ HasDraft(v.plan, e)
      /\ UNCHANGED <<snapshots, plans, drafts>>
  BY <1>1, <1>2 DEF Reuse
<1>5. v \in Handlers /\ Request(v) /\ Shape(v) /\ Room(v)
  BY <1>1 DEF Inv, TypeOK, Request
<1>6. req' = [req EXCEPT ![r] = w]
  <2>1. req' = [req EXCEPT ![r].todo = @ \ {Min(@)}]
    BY DEF Reuse
  <2> QED
    BY <1>1, <1>2, <1>3, <2>1
<1>7. w \in Handlers
  BY <1>3, <1>5 DEF Handlers
<1>8. /\ w.phase = v.phase /\ w.op = v.op /\ w.snapshot = v.snapshot /\ w.plan = v.plan
      /\ w.version = v.version /\ w.saw = v.saw /\ w.checked = v.checked
      /\ w.made = v.made /\ w.found = v.found /\ w.todo = v.todo \ {e}
  BY <1>3, <1>5 DEF Handlers
<1>9. Shape(w)
  BY <1>4, <1>5, <1>8 DEF Shape, Drafting
<1>10. Looked(w) /\ Follows(w)
  BY <1>5, <1>8 DEF Request, Looked, Follows
<1>11. Unseen(w)
  BY <1>4, <1>5, <1>8 DEF Request, Unseen
<1>12. Covers(w)
  <2>1. DraftsOf(v.plan, e) # {} /\ v.plan # 0
    BY <1>4, <1>5 DEF HasDraft, Shape, Drafting
  <2> QED
    BY <1>5, <1>8, <2>1 DEF Request, Covers, Drafting
<1>13. Room(w) /\ (Holds(w) => Holds(req[r]))
  BY <1>1, <1>5, <1>8 DEF Room, Holds, Drafting
<1> QED
  BY <1>4, <1>6, <1>7, <1>9, <1>10, <1>11, <1>12, <1>13, RequestStep DEF Request

\* generate-drafts finds no draft of a document.
LEMMA FindNoneStep ==
  ASSUME Inv, NEW r \in Requests, FindNone(r)
  PROVE  Inv'
<1>1. PICK v, n : v = req[r] /\ n = Len(drafts)
  OBVIOUS
<1>2. PICK w : w = [v EXCEPT !.phase = "creating", !.checked = n]
  OBVIOUS
<1>3. /\ v.phase = "drafting" /\ v.op = "drafts" /\ v.todo # {}
      /\ ~HasDraft(v.plan, Min(v.todo))
      /\ UNCHANGED <<snapshots, plans, drafts>>
  BY <1>1 DEF FindNone
<1>4. v \in Handlers /\ Request(v) /\ Shape(v) /\ Room(v)
  BY <1>1 DEF Inv, TypeOK, Request
<1>5. req' = [req EXCEPT ![r] = w]
  <2>1. req' = [req EXCEPT ![r].phase = "creating", ![r].checked = n]
    BY <1>1 DEF FindNone
  <2> QED
    BY <1>1, <1>2, <2>1
<1>6. n \in 0..MaxDrafts /\ n <= Len(drafts)
  BY <1>1, Lengths
<1>7. w \in Handlers
  BY <1>2, <1>4, <1>6 DEF Handlers
<1>8. /\ w.phase = "creating" /\ w.op = v.op /\ w.snapshot = v.snapshot /\ w.plan = v.plan
      /\ w.version = v.version /\ w.saw = v.saw /\ w.checked = n
      /\ w.made = v.made /\ w.found = v.found /\ w.todo = v.todo
  BY <1>2, <1>4 DEF Handlers
<1>9. Shape(w) /\ w.version = 0
  BY <1>3, <1>4, <1>6, <1>8 DEF Shape, Drafting
<1>10. Looked(w) /\ Follows(w) /\ Covers(w)
  BY <1>3, <1>4, <1>8, <1>9 DEF Request, Looked, Follows, Covers, Drafting
<1>11. Unseen(w)
  <2>1. NoneActive(v.plan, Min(v.todo), n)
    BY <1>3 DEF NoneActive, HasDraft
  <2> QED
    BY <1>4, <1>8, <2>1 DEF Request, Unseen
<1>12. Room(w) /\ (Holds(w) => Holds(req[r]))
  BY <1>1, <1>3, <1>4, <1>8, <1>9 DEF Room, Holds, Drafting
<1> QED
  BY <1>3, <1>5, <1>7, <1>9, <1>10, <1>11, <1>12, RequestStep DEF Request

\* A draft of the next document is made, of which none was found.
LEMMA CreateStep ==
  ASSUME Inv, NEW r \in Requests, Create(r)
  PROVE  Inv'
<1>1. PICK v : v = req[r]
  OBVIOUS
<1>2. PICK e, one : e = Min(v.todo) /\ one = [exporter |-> e, checked |-> v.checked]
  OBVIOUS
<1>3. PICK made : made = Append(v.made, one)
  OBVIOUS
<1>4. PICK w : w = [v EXCEPT !.phase = "drafting", !.todo = v.todo \ {e}, !.made = made]
  OBVIOUS
<1>5. /\ v.phase = "creating" \/ (v.phase = "drafting" /\ v.op = "prepare" /\ v.todo # {})
      /\ ProcessIsFree(r) /\ Len(drafts) + Len(v.made) < MaxDrafts
      /\ UNCHANGED <<snapshots, plans, drafts>>
  BY <1>1 DEF Create
<1>6. v \in Handlers /\ Request(v) /\ Shape(v) /\ Unseen(v) /\ Room(v)
  BY <1>1 DEF Inv, TypeOK, Request
<1>7. req' = [req EXCEPT ![r] = w]
  <2>1. req' = [req EXCEPT ![r].phase = "drafting", ![r].todo = @ \ {Min(@)},
          ![r].made = Append(@, [exporter |-> Min(req[r].todo), checked |-> req[r].checked])]
    BY DEF Create
  <2> QED
    BY <1>1, <1>2, <1>3, <1>4, <2>1
<1>8. v.todo # {} /\ e \in v.todo /\ e \in Exporters
  <2>1. v.todo # {} /\ v.todo \in SUBSET Exporters
    BY <1>5, <1>6 DEF Shape, Handlers
  <2>2. v.todo \in SUBSET Nat
    BY <2>1, ExportersAreNat
  <2> QED
    BY <1>2, <2>1, <2>2, MinIs
<1>9. /\ v.made \in Seq([exporter : Exporters, checked : 0..MaxDrafts])
      /\ one \in [exporter : Exporters, checked : 0..MaxDrafts]
      /\ v.checked \in Nat /\ Len(v.made) \in Nat
  BY <1>2, <1>6, <1>8, LenProperties DEF Handlers
<1>10. /\ made \in Seq([exporter : Exporters, checked : 0..MaxDrafts])
       /\ Len(made) = Len(v.made) + 1 /\ made # <<>> /\ made[Len(made)] = one
       /\ \A i \in 1..Len(v.made) : made[i] = v.made[i]
  <2>1. /\ made \in Seq([exporter : Exporters, checked : 0..MaxDrafts])
        /\ Len(made) = Len(v.made) + 1 /\ made[Len(v.made) + 1] = one
        /\ \A i \in 1..Len(v.made) : made[i] = v.made[i]
    BY <1>3, <1>9, AppendProperties
  <2>2. made # <<>>
    BY <1>9, <2>1
  <2> QED
    BY <2>1, <2>2
<1>11. w \in Handlers
  BY <1>4, <1>6, <1>10 DEF Handlers
<1>12. /\ w.phase = "drafting" /\ w.op = v.op /\ w.snapshot = v.snapshot /\ w.plan = v.plan
       /\ w.version = v.version /\ w.saw = v.saw /\ w.checked = v.checked
       /\ w.made = made /\ w.found = v.found /\ w.todo = v.todo \ {e}
  BY <1>4, <1>6 DEF Handlers
<1>13. Shape(w)
  BY <1>5, <1>6, <1>12 DEF Shape, Drafting
<1>14. Looked(w) /\ Follows(w)
  BY <1>5, <1>6, <1>12 DEF Request, Looked, Follows
<1>15. one.exporter = e /\ one.checked = v.checked /\ v.checked <= Len(drafts)
       /\ \A i \in 1..Len(v.made) : v.made[i].exporter # e
  BY <1>2, <1>6, <1>8 DEF Shape, Unseen
<1>16. Covers(w)
  <2>1. ASSUME NEW x \in snapshots[v.snapshot]
        PROVE  \/ x \in w.todo
               \/ \E i \in 1..Len(made) : made[i].exporter = x
               \/ v.plan # 0 /\ DraftsOf(v.plan, x) # {}
    <3>1. CASE x = e
      <4>1. Len(made) \in 1..Len(made) /\ made[Len(made)].exporter = x
        BY <1>9, <1>10, <1>15, <3>1
      <4> QED
        BY <4>1
    <3>2. CASE x # e
      <4>1. \/ x \in v.todo
            \/ \E i \in 1..Len(v.made) : v.made[i].exporter = x
            \/ v.plan # 0 /\ DraftsOf(v.plan, x) # {}
        BY <1>5, <1>6 DEF Request, Covers, Drafting
      <4>2. 1..Len(v.made) \subseteq 1..Len(made)
        BY <1>9, <1>10
      <4> QED
        BY <1>10, <1>12, <3>2, <4>1, <4>2
    <3> QED
      BY <3>1, <3>2
  <2> QED
    BY <1>12, <2>1 DEF Covers
<1>17. Unseen(w)
  <2>1. \A i \in 1..Len(made) : i \in 1..Len(v.made) \/ i = Len(made)
    BY <1>9, <1>10
  <2>2. \A i, j \in 1..Len(made) : made[i].exporter = made[j].exporter => i = j
    BY <1>6, <1>10, <1>15, <2>1 DEF Unseen
  <2>3. \A i \in 1..Len(made) : /\ made[i].exporter \notin w.todo
                                /\ made[i].checked <= Len(drafts)
    BY <1>6, <1>10, <1>12, <1>15, <2>1 DEF Unseen
  <2>4. ASSUME v.plan # 0, NEW i \in 1..Len(made)
        PROVE  NoneActive(v.plan, made[i].exporter, made[i].checked)
    <3>1. NoneActive(v.plan, e, v.checked)
      BY <1>2, <1>5, <1>6, <1>8, <2>4 DEF Unseen
    <3>2. CASE i \in 1..Len(v.made)
      BY <1>6, <1>10, <2>4, <3>2 DEF Unseen
    <3>3. CASE i = Len(made)
      BY <1>10, <1>15, <3>1, <3>3
    <3> QED
      BY <2>1, <3>2, <3>3
  <2>5. ASSUME v.plan # 0, v.op = "prepare", NEW x \in w.todo
        PROVE  NoneActive(v.plan, x, v.checked)
    BY <1>5, <1>6, <1>12, <2>5 DEF Unseen, Shape
  <2> QED
    BY <1>12, <2>2, <2>3, <2>4, <2>5 DEF Unseen
<1>18. Room(w)
  <2>1. w.version # 0 => Len(plans) < MaxPlans
    BY <1>5, <1>6, <1>12 DEF Shape, Room, Drafting
  <2>2. Len(drafts) + Len(made) <= MaxDrafts
    BY <1>5, <1>9, <1>10, Lengths
  <2> QED
    BY <1>12, <2>1, <2>2 DEF Room
<1> QED
  BY <1>5, <1>7, <1>11, <1>13, <1>14, <1>16, <1>17, <1>18, RequestStep DEF Request

-----------------------------------------------------------------------------
(* Steps that write rows *)

\* As many rows as before.
SameRows ==
  Len(snapshots') = Len(snapshots) /\ Len(plans') = Len(plans) /\ Len(drafts') = Len(drafts)

\* Idle work has found nothing in more rows either.
LEMMA IdleKept ==
  ASSUME Inv, Extends, snapshots' \in Seq(Duimps), plans' \in Seq(Plans), drafts' \in Seq(Drafts)
  PROVE  Request(Idle)' /\ Room(Idle)'
<1>1. Request(Idle)'
  BY IdleIs, RequestKept
<1>2. Idle.phase = "idle" /\ Idle.made = <<>>
  BY DEF Idle
<1>3. Room(Idle)'
  BY <1>2 DEF Room, Drafting
<1> QED
  BY <1>1, <1>3

\* A step that adds rows with the process row updated, or changes their status.
LEMMA WriteStep ==
  ASSUME Inv, Extends,
         snapshots' \in Seq(Duimps), plans' \in Seq(Plans), drafts' \in Seq(Drafts),
         Len(snapshots') <= MaxSnapshots, Len(plans') <= MaxPlans, Len(drafts') <= MaxDrafts,
         req' \in [Requests -> Handlers],
         \A k \in Requests :
           \/ req'[k] = req[k] /\ (SameRows \/ ~Holds(req[k]))
           \/ \E w \in Handlers : /\ req'[k] = w /\ Request(w)' /\ Room(w)'
                                  /\ Holds(w) => Holds(req[k]),
         Rows', PlannedTogetherOverlapped', TwinDraftsOverlapped',
         DraftsFollowThePlan', DraftsComeTogether'
  PROVE  Inv'
<1>1. \A k \in Requests : req[k] \in Handlers /\ Request(req[k]) /\ Room(req[k])
  BY DEF Inv, TypeOK
<1>2. \A k \in Requests : (HoldsProcess(k) <=> Holds(req[k]))
                          /\ (HoldsProcess(k)' <=> Holds(req'[k]))
  BY DEF HoldsProcess, Holds, Drafting
<1>3. \A k \in Requests : HoldsProcess(k)' => HoldsProcess(k)
  BY <1>2
<1>4. TypeOK'
  BY <1>3 DEF Inv, TypeOK
<1>5. ASSUME NEW k \in Requests PROVE \E w \in Handlers : req'[k] = w /\ Request(w)' /\ Room(w)'
  <2>1. CASE req'[k] = req[k] /\ (SameRows \/ ~Holds(req[k]))
    <3>1. PICK w \in Handlers : w = req[k] /\ Request(w) /\ Room(w)
      BY <1>1
    <3>2. Request(w)'
      BY <3>1, RequestKept
    <3>3. Room(w)'
      BY <2>1, <3>1 DEF Room, SameRows, Holds, Drafting, Request, Shape
    <3> QED
      BY <2>1, <3>1, <3>2, <3>3
  <2> QED
    BY <2>1
<1>6. ASSUME NEW k \in Requests PROVE Request(req[k])' /\ Room(req[k])'
  <2>1. PICK w \in Handlers : req'[k] = w /\ Request(w)' /\ Room(w)'
    BY <1>5
  <2> QED
    BY <2>1 DEF Request, Shape, Looked, Follows, Unseen, NoneActive, Covers, DraftsOf,
       Room, Drafting
<1> QED
  BY <1>4, <1>6 DEF Inv

\* A snapshot is stored.
LEMMA FetchedStep ==
  ASSUME Inv, NEW r \in Requests, Fetched(r)
  PROVE  Inv'
<1>1. PICK v, s : v = req[r] /\ s = Len(snapshots) + 1
  OBVIOUS
<1>2. v.phase = "fetching" /\ plans' = plans /\ drafts' = drafts
  BY <1>1 DEF Fetched
<1>3. PICK duimp \in Duimps : snapshots' = Append(snapshots, duimp)
  BY DEF Fetched
<1>4. v \in Handlers /\ Request(v) /\ Shape(v) /\ Room(v)
  BY <1>1 DEF Inv, TypeOK, Request
<1>5. /\ snapshots \in Seq(Duimps) /\ plans \in Seq(Plans) /\ drafts \in Seq(Drafts)
      /\ req \in [Requests -> Handlers]
  BY DEF Inv, TypeOK
<1>6. /\ snapshots' \in Seq(Duimps) /\ Len(snapshots') = s
      /\ \A k \in 1..Len(snapshots) : snapshots'[k] = snapshots[k]
  BY <1>1, <1>3, <1>5, AppendProperties
<1>7. s \in 1..MaxSnapshots /\ s \in Nat
  BY <1>1, <1>2, <1>4, Lengths DEF Room
<1>8. Extends
  BY <1>1, <1>2, <1>6, Lengths DEF Extends
<1>9. PICK w : /\ req' = [req EXCEPT ![r] = w]
               /\ IF v.op = "prepare" THEN w = [v EXCEPT !.phase = "preparing", !.snapshot = s]
                  ELSE w = Idle
  <2>1. CASE v.op = "prepare"
    <3>1. req' = [req EXCEPT ![r].phase = "preparing", ![r].snapshot = s]
      BY <1>1, <2>1 DEF Fetched
    <3> QED
      BY <1>1, <2>1, <3>1
  <2>2. CASE v.op # "prepare"
    BY <1>1, <2>2 DEF Fetched, End
  <2> QED
    BY <2>1, <2>2
<1>10. w \in Handlers /\ Request(w)' /\ Room(w)' /\ ~Holds(w)
  <2>1. CASE w = Idle
    BY <1>2, <1>5, <1>6, <1>8, <2>1, IdleIs, IdleKept
  <2>2. CASE w = [v EXCEPT !.phase = "preparing", !.snapshot = s]
    <3>1. w \in Handlers
      <4>1. s \in 0..MaxSnapshots
        BY <1>7
      <4> QED
        BY <1>4, <2>2, <4>1 DEF Handlers
    <3>2. /\ w.phase = "preparing" /\ w.op = v.op /\ w.snapshot = s /\ w.plan = v.plan
          /\ w.version = v.version /\ w.saw = v.saw /\ w.checked = v.checked
          /\ w.made = v.made /\ w.found = v.found /\ w.todo = v.todo
      BY <1>4, <2>2 DEF Handlers
    <3>3. w.plan = 0 /\ w.version = 0 /\ w.made = <<>> /\ Len(w.made) = 0
      BY <1>2, <1>4, <3>2 DEF Shape, Drafting
    <3>4. Shape(w)'
      BY <1>2, <1>4, <1>6, <1>7, <3>2, <3>3 DEF Shape, Drafting
    <3>5. Looked(w)' /\ Follows(w)' /\ Covers(w)' /\ Unseen(w)'
      BY <3>2, <3>3 DEF Looked, Follows, Covers, Unseen, Drafting
    <3>6. Room(w)' /\ ~Holds(w)
      BY <3>2, <3>3 DEF Room, Holds, Drafting
    <3> QED
      BY <3>1, <3>4, <3>5, <3>6 DEF Request
  <2> QED
    BY <1>9, <2>1, <2>2
<1>11. ASSUME NEW k \in Requests, k # r PROVE req'[k] = req[k] /\ ~Holds(req[k])
  <2>1. HoldsProcess(r)
    BY <1>1, <1>2 DEF HoldsProcess
  <2>2. ~HoldsProcess(k)
    BY <1>11, <2>1 DEF Inv, TypeOK
  <2> QED
    BY <1>5, <1>9, <1>11, <2>2 DEF HoldsProcess, Holds, Drafting
<1>12. req' \in [Requests -> Handlers] /\ req'[r] = w
  BY <1>5, <1>9, <1>10
<1>13. Rows'
  <2>1. \A p \in 1..Len(plans) : plans[p].snapshot <= Len(snapshots')
    <3>1. ASSUME NEW p \in 1..Len(plans) PROVE plans[p].snapshot <= Len(snapshots')
      <4>1. plans[p] \in Plans
        BY <1>5, ElementOfSeq
      <4>2. plans[p].snapshot \in Nat
        BY <4>1, Lengths DEF Plans
      <4>3. plans[p].snapshot <= Len(snapshots)
        BY DEF Inv, Rows
      <4> QED
        BY <1>1, <1>6, <4>2, <4>3, Lengths
    <3> QED
      BY <3>1
  <2> QED
    BY <1>2, <2>1 DEF Inv, Rows
<1>14. DraftsComeTogether'
  <2>1. ASSUME NEW d \in DOMAIN drafts
        PROVE  /\ plans[drafts[d].plan].snapshot \in 1..Len(snapshots)
               /\ snapshots'[plans[drafts[d].plan].snapshot]
                    = snapshots[plans[drafts[d].plan].snapshot]
    <3>1. d \in 1..Len(drafts)
      BY Lengths
    <3>2. drafts[d] \in Drafts /\ drafts[d].plan <= Len(plans)
      BY <1>5, <3>1, ElementOfSeq DEF Inv, Rows
    <3>3. drafts[d].plan \in 1..Len(plans)
      BY <3>2, Lengths DEF Drafts
    <3>4. plans[drafts[d].plan] \in Plans /\ plans[drafts[d].plan].snapshot <= Len(snapshots)
      BY <1>5, <3>3, ElementOfSeq DEF Inv, Rows
    <3>5. plans[drafts[d].plan].snapshot \in 1..Len(snapshots)
      BY <3>4, Lengths DEF Plans
    <3> QED
      BY <1>6, <3>5
  <2>2. \A p, e : DraftsOf(p, e)' = DraftsOf(p, e)
    BY <1>2 DEF DraftsOf
  <2>3. \A d \in DOMAIN drafts :
          \A e \in snapshots'[plans[drafts[d].plan].snapshot] : DraftsOf(drafts[d].plan, e) # {}
    BY <2>1 DEF Inv, DraftsComeTogether
  <2> QED
    BY <1>2, <2>2, <2>3 DEF DraftsComeTogether, DraftsOf
<1>15. PlannedTogetherOverlapped' /\ TwinDraftsOverlapped' /\ DraftsFollowThePlan'
  BY <1>2 DEF Inv, PlannedTogetherOverlapped, TwinDraftsOverlapped, DraftsFollowThePlan, Planned
<1>16. Len(plans') <= MaxPlans /\ Len(drafts') <= MaxDrafts /\ Len(snapshots') <= MaxSnapshots
  BY <1>2, <1>6, <1>7 DEF Inv, TypeOK
<1> QED
  BY <1>2, <1>5, <1>6, <1>8, <1>10, <1>11, <1>12, <1>13, <1>14, <1>15, <1>16, WriteStep

\* A draft is removed.
LEMMA SoftDeleteStep ==
  ASSUME Inv, NEW d \in DOMAIN drafts, SoftDelete(d)
  PROVE  Inv'
<1>1. /\ drafts' = [drafts EXCEPT ![d].active = FALSE]
      /\ snapshots' = snapshots /\ plans' = plans /\ req' = req
  BY DEF SoftDelete
<1>2. snapshots \in Seq(Duimps) /\ plans \in Seq(Plans) /\ drafts \in Seq(Drafts)
  BY DEF Inv, TypeOK
<1>3. d \in 1..Len(drafts) /\ drafts[d] \in Drafts
  BY <1>2, ElementOfSeq, Lengths
<1>4. PICK x : x = [drafts[d] EXCEPT !.active = FALSE]
  OBVIOUS
<1>5. /\ x \in Drafts /\ x.plan = drafts[d].plan /\ x.exporter = drafts[d].exporter
      /\ x.saw = drafts[d].saw /\ x.checked = drafts[d].checked /\ x.active = FALSE
  BY <1>3, <1>4 DEF Drafts
<1>6. drafts' = [drafts EXCEPT ![d] = x]
  BY <1>1, <1>3, <1>4
<1>7. /\ drafts' \in Seq(Drafts) /\ Len(drafts') = Len(drafts) /\ drafts'[d] = x
      /\ \A c \in 1..Len(drafts) : c # d => drafts'[c] = drafts[c]
  BY <1>2, <1>3, <1>5, <1>6, ExceptSeq
<1>8. \A c \in 1..Len(drafts) :
        /\ drafts'[c].plan = drafts[c].plan /\ drafts'[c].exporter = drafts[c].exporter
        /\ drafts'[c].saw = drafts[c].saw /\ drafts'[c].checked = drafts[c].checked
        /\ drafts'[c].active => drafts[c].active
  BY <1>5, <1>7
<1>9. Extends
  BY <1>1, <1>7, <1>8, Lengths DEF Extends
<1>10. DOMAIN drafts' = 1..Len(drafts) /\ DOMAIN drafts = 1..Len(drafts)
  BY <1>7, LenProperties, Lengths
<1>11. Rows' /\ PlannedTogetherOverlapped'
  BY <1>1, <1>7, <1>8 DEF Inv, Rows, PlannedTogetherOverlapped, Planned
<1>12. TwinDraftsOverlapped'
  BY <1>8, <1>10 DEF Inv, TwinDraftsOverlapped
<1>13. DraftsFollowThePlan'
  BY <1>1, <1>8, <1>10 DEF Inv, DraftsFollowThePlan
<1>14. DraftsComeTogether'
  BY <1>1, <1>8, <1>10 DEF Inv, DraftsComeTogether, DraftsOf
<1>15. SameRows /\ req' \in [Requests -> Handlers]
  BY <1>1, <1>7 DEF SameRows, Inv, TypeOK
<1>16. /\ Len(snapshots') <= MaxSnapshots /\ Len(plans') <= MaxPlans
       /\ Len(drafts') <= MaxDrafts
  BY <1>1, <1>7 DEF Inv, TypeOK
<1> QED
  BY <1>1, <1>2, <1>7, <1>9, <1>11, <1>12, <1>13, <1>14, <1>15, <1>16, WriteStep

\* The plan of a request that commits, and the plan row that it adds.
PlanOf(w) == IF w.version # 0 THEN Len(plans) + 1 ELSE w.plan

\* What a commit does to the plans.
LEMMA CommitPlans ==
  ASSUME Inv, NEW r \in Requests, NEW v, v = req[r], Commit(r)
  PROVE  /\ plans' \in Seq(Plans) /\ Len(plans') <= MaxPlans
         /\ Len(plans') = (IF v.version # 0 THEN Len(plans) + 1 ELSE Len(plans))
         /\ \A k \in 1..Len(plans) :
              /\ plans'[k].snapshot = plans[k].snapshot /\ plans'[k].version = plans[k].version
              /\ plans'[k].saw = plans[k].saw
              /\ plans'[k].planned <=> plans[k].planned /\ (v.version # 0 => k \notin v.found)
         /\ v.version # 0 =>
              LET row == plans'[Len(plans) + 1] IN
              /\ row.snapshot = v.snapshot /\ row.version = v.version
              /\ row.planned /\ row.saw = v.saw
<1>1. v \in Handlers /\ Request(v) /\ Shape(v) /\ Room(v) /\ plans \in Seq(Plans)
  BY DEF Inv, TypeOK, Request
<1>2. v.phase = "planned" \/ v.phase = "drafting"
  BY DEF Commit, Finished
<1>3. CASE v.version = 0
  <2>1. plans' = plans
    BY <1>3 DEF Commit
  <2> QED
    BY <1>1, <1>3, <2>1, Lengths
<1>4. CASE v.version # 0
  <2>1. PICK kept, row :
          /\ kept = [k \in 1..Len(plans) |->
                       [plans[k] EXCEPT !.planned = plans[k].planned /\ k \notin v.found]]
          /\ row = [snapshot |-> v.snapshot, version |-> v.version,
                    planned |-> TRUE, saw |-> v.saw]
    OBVIOUS
  <2>2. plans' = Append(kept, row)
    <3>1. plans' = Append([q \in DOMAIN plans |->
                             [plans[q] EXCEPT !.planned = @ /\ q \notin v.found]], row)
      BY <1>4, <2>1 DEF Commit
    <3>2. [q \in DOMAIN plans |-> [plans[q] EXCEPT !.planned = @ /\ q \notin v.found]] = kept
      BY <2>1, Lengths
    <3> QED
      BY <3>1, <3>2
  <2>3. ASSUME NEW k \in 1..Len(plans)
        PROVE  /\ kept[k] \in Plans
               /\ kept[k].snapshot = plans[k].snapshot /\ kept[k].version = plans[k].version
               /\ kept[k].saw = plans[k].saw
               /\ kept[k].planned <=> plans[k].planned /\ k \notin v.found
    <3>1. plans[k] \in Plans
      BY <1>1, ElementOfSeq
    <3>2. PICK b \in BOOLEAN : b = (plans[k].planned /\ k \notin v.found)
      OBVIOUS
    <3>3. kept[k] = [plans[k] EXCEPT !.planned = b]
      BY <2>1, <3>2
    <3>4. /\ kept[k] \in Plans
          /\ kept[k].snapshot = plans[k].snapshot /\ kept[k].version = plans[k].version
          /\ kept[k].saw = plans[k].saw /\ kept[k].planned = b
      BY <3>1, <3>3 DEF Plans
    <3> QED
      BY <3>2, <3>4
  <2>4. kept \in Seq(Plans) /\ Len(kept) = Len(plans)
    <3>1. kept \in [1..Len(plans) -> Plans]
      BY <2>1, <2>3
    <3> QED
      BY <3>1, Lengths
  <2>5. Len(plans) < MaxPlans
    BY <1>1, <1>2, <1>4 DEF Room, Drafting
  <2>6. row \in Plans
    <3>1. v.snapshot \in 1..MaxSnapshots /\ v.saw \in 0..MaxPlans
      BY SMTT(30), <1>1, <1>2, Lengths DEF Handlers, Shape
    <3>2. v.version \in 1..MaxPlans
      BY SMTT(30), <1>1, <1>4, <2>5, Lengths DEF Handlers, Shape
    <3> QED
      BY <2>1, <3>1, <3>2 DEF Plans
  <2>7. /\ plans' \in Seq(Plans) /\ Len(plans') = Len(plans) + 1
        /\ plans'[Len(plans) + 1] = row
        /\ \A k \in 1..Len(plans) : plans'[k] = kept[k]
    BY <2>2, <2>4, <2>6, AppendProperties
  <2>8. /\ row.snapshot = v.snapshot /\ row.version = v.version
        /\ row.planned = TRUE /\ row.saw = v.saw
    BY <2>1
  <2>9. Len(plans') <= MaxPlans
    BY <2>5, <2>7, Lengths
  <2> QED
    BY <1>4, <2>3, <2>7, <2>8, <2>9
<1> QED
  BY <1>3, <1>4

\* What a commit does to the drafts.
LEMMA CommitDrafts ==
  ASSUME Inv, NEW r \in Requests, NEW v, v = req[r], Commit(r)
  PROVE  /\ drafts' \in Seq(Drafts) /\ Len(drafts') <= MaxDrafts
         /\ Len(drafts') = Len(drafts) + Len(v.made)
         /\ \A c \in 1..Len(drafts) : drafts'[c] = drafts[c]
         /\ \A i \in 1..Len(v.made) :
              /\ drafts'[Len(drafts) + i].plan = PlanOf(v)
              /\ drafts'[Len(drafts) + i].exporter = v.made[i].exporter
              /\ drafts'[Len(drafts) + i].saw = v.saw
              /\ drafts'[Len(drafts) + i].checked = v.made[i].checked
<1>1. v \in Handlers /\ Request(v) /\ Shape(v) /\ Room(v) /\ drafts \in Seq(Drafts)
  BY DEF Inv, TypeOK, Request
<1>2. v.phase = "planned" \/ v.phase = "drafting"
  BY DEF Commit, Finished
<1>3. PICK p, made, rows :
        /\ p = PlanOf(v) /\ made = v.made
        /\ rows = [i \in 1..Len(made) |->
                     [plan |-> p, exporter |-> made[i].exporter, active |-> TRUE,
                      saw |-> v.saw, checked |-> made[i].checked]]
  OBVIOUS
<1>4. made \in Seq([exporter : Exporters, checked : 0..MaxDrafts]) /\ Len(made) \in Nat
      /\ DOMAIN made = 1..Len(made)
  BY <1>1, <1>3, LenProperties DEF Handlers
<1>5. drafts' = drafts \o rows
  <2>1. drafts' = drafts \o [i \in DOMAIN made |->
          [plan |-> p, exporter |-> made[i].exporter, active |-> TRUE,
           saw |-> v.saw, checked |-> made[i].checked]]
    BY <1>3 DEF Commit, PlanOf
  <2> QED
    BY <1>3, <1>4, <2>1
<1>6. p \in 1..MaxPlans
  <2>1. CASE v.version # 0
    <3>1. Len(plans) < MaxPlans
      BY <1>1, <1>2, <2>1 DEF Room, Drafting
    <3> QED
      BY <1>3, <2>1, <3>1, Lengths DEF PlanOf
  <2>2. CASE v.version = 0
    <3>1. v.plan \in 1..Len(plans)
      BY <1>1, <1>2, <2>2 DEF Shape, Drafting
    <3> QED
      BY <1>3, <2>2, <3>1, Lengths DEF PlanOf
  <2> QED
    BY <2>1, <2>2
<1>7. ASSUME NEW i \in 1..Len(made)
      PROVE  /\ rows[i] \in Drafts /\ rows[i].plan = p /\ rows[i].exporter = made[i].exporter
             /\ rows[i].saw = v.saw /\ rows[i].checked = made[i].checked
  <2>1. made[i] \in [exporter : Exporters, checked : 0..MaxDrafts]
    BY <1>4, ElementOfSeq
  <2>2. v.saw \in 0..MaxPlans
    BY <1>1 DEF Handlers
  <2>3. rows[i] = [plan |-> p, exporter |-> made[i].exporter, active |-> TRUE,
                   saw |-> v.saw, checked |-> made[i].checked]
    BY <1>3
  <2> QED
    BY <1>6, <2>1, <2>2, <2>3 DEF Drafts
<1>8. rows \in Seq(Drafts) /\ Len(rows) = Len(made)
  <2>1. rows \in [1..Len(made) -> Drafts]
    BY <1>3, <1>7
  <2> QED
    BY <1>4, <2>1
<1>9. /\ drafts' \in Seq(Drafts) /\ Len(drafts') = Len(drafts) + Len(made)
      /\ \A k \in 1..(Len(drafts) + Len(made)) :
           drafts'[k] = IF k <= Len(drafts) THEN drafts[k] ELSE rows[k - Len(drafts)]
  <2>1. /\ drafts \o rows \in Seq(Drafts) /\ Len(drafts \o rows) = Len(drafts) + Len(rows)
        /\ \A k \in 1..(Len(drafts) + Len(rows)) :
             (drafts \o rows)[k] = IF k <= Len(drafts) THEN drafts[k] ELSE rows[k - Len(drafts)]
    BY <1>1, <1>8, ConcatProperties
  <2> QED
    BY <1>5, <1>8, <2>1
<1>10. Len(drafts') <= MaxDrafts
  <2>1. CASE made = <<>>
    BY <1>9, <2>1, Lengths
  <2>2. CASE made # <<>>
    BY <1>1, <1>3, <1>9, <2>2 DEF Room
  <2> QED
    BY <2>1, <2>2
<1>11. \A c \in 1..Len(drafts) : drafts'[c] = drafts[c]
  BY <1>4, <1>9, Lengths
<1>12. ASSUME NEW i \in 1..Len(made) PROVE drafts'[Len(drafts) + i] = rows[i]
  <2>1. /\ Len(drafts) + i \in 1..(Len(drafts) + Len(made)) /\ ~(Len(drafts) + i <= Len(drafts))
        /\ (Len(drafts) + i) - Len(drafts) = i
    BY <1>4, Lengths
  <2> QED
    BY <1>9, <2>1
<1>13. \A i \in 1..Len(made) : /\ drafts'[Len(drafts) + i].plan = p
                               /\ drafts'[Len(drafts) + i].exporter = made[i].exporter
                               /\ drafts'[Len(drafts) + i].saw = v.saw
                               /\ drafts'[Len(drafts) + i].checked = made[i].checked
  BY <1>7, <1>12
<1> QED
  BY <1>3, <1>9, <1>10, <1>11, <1>13

\* Plans and drafts are committed, and the plans that were found are superseded.
LEMMA CommitStep ==
  ASSUME Inv, NEW r \in Requests, Commit(r)
  PROVE  Inv'
<1>1. PICK v, made, N, D, m, p :
        /\ v = req[r] /\ made = v.made /\ N = Len(plans) /\ D = Len(drafts)
        /\ m = Len(made) /\ p = PlanOf(v)
  OBVIOUS
<1>2. /\ v \in Handlers /\ Request(v) /\ Shape(v) /\ Room(v)
      /\ plans \in Seq(Plans) /\ drafts \in Seq(Drafts) /\ snapshots \in Seq(Duimps)
      /\ req \in [Requests -> Handlers]
  BY <1>1 DEF Inv, TypeOK, Request
<1>3. /\ v.phase = "planned" \/ (v.phase = "drafting" /\ v.todo = {})
      /\ snapshots' = snapshots /\ req' = [req EXCEPT ![r] = Idle]
  BY <1>1 DEF Commit, Finished, End
<1>4. /\ N \in Nat /\ D \in Nat /\ m \in Nat /\ v.saw \in Nat /\ v.saw <= N
      /\ made \in Seq([exporter : Exporters, checked : 0..MaxDrafts])
      /\ DOMAIN plans = 1..N /\ DOMAIN drafts = 1..D
      /\ v.version \in Nat /\ v.plan \in Nat /\ v.snapshot \in Nat
  BY <1>1, <1>2, Lengths, LenProperties DEF Handlers, Shape
<1>5. /\ plans' \in Seq(Plans) /\ Len(plans') <= MaxPlans
      /\ Len(plans') = (IF v.version # 0 THEN N + 1 ELSE N)
      /\ \A k \in 1..N :
           /\ plans'[k].snapshot = plans[k].snapshot /\ plans'[k].version = plans[k].version
           /\ plans'[k].saw = plans[k].saw
           /\ plans'[k].planned <=> plans[k].planned /\ (v.version # 0 => k \notin v.found)
      /\ v.version # 0 =>
           /\ plans'[N + 1].snapshot = v.snapshot /\ plans'[N + 1].version = v.version
           /\ plans'[N + 1].planned /\ plans'[N + 1].saw = v.saw
  BY <1>1, CommitPlans
<1>6. /\ drafts' \in Seq(Drafts) /\ Len(drafts') <= MaxDrafts /\ Len(drafts') = D + m
      /\ \A c \in 1..D : drafts'[c] = drafts[c]
      /\ \A i \in 1..m : /\ drafts'[D + i].plan = p
                         /\ drafts'[D + i].exporter = made[i].exporter
                         /\ drafts'[D + i].saw = v.saw
                         /\ drafts'[D + i].checked = made[i].checked
  <2>1. /\ drafts' \in Seq(Drafts) /\ Len(drafts') <= MaxDrafts
        /\ Len(drafts') = Len(drafts) + Len(v.made)
        /\ \A c \in 1..Len(drafts) : drafts'[c] = drafts[c]
    BY <1>1, CommitDrafts
  <2>2. \A i \in 1..Len(v.made) : /\ drafts'[Len(drafts) + i].plan = PlanOf(v)
                                  /\ drafts'[Len(drafts) + i].exporter = v.made[i].exporter
                                  /\ drafts'[Len(drafts) + i].saw = v.saw
                                  /\ drafts'[Len(drafts) + i].checked = v.made[i].checked
    BY SMTT(30), <1>1, CommitDrafts
  <2> QED
    BY <1>1, <2>1, <2>2
<1>7. Extends
  <2>1. Len(snapshots) <= Len(snapshots') /\ N <= Len(plans') /\ D <= Len(drafts')
    BY <1>3, <1>4, <1>5, <1>6, Lengths
  <2>2. \A k \in 1..N : plans'[k].planned => plans[k].planned
    BY <1>5
  <2> QED
    BY <1>1, <1>3, <1>5, <1>6, <2>1, <2>2 DEF Extends
<1>8. /\ DOMAIN plans' = 1..Len(plans') /\ DOMAIN drafts' = 1..(D + m)
      /\ \A k \in 1..Len(plans') : k \in 1..N \/ (k = N + 1 /\ v.version # 0)
      /\ \A c \in 1..(D + m) : c \in 1..D \/ (c \notin 1..D /\ \E i \in 1..m : c = D + i)
  <2>1. DOMAIN plans' = 1..Len(plans') /\ DOMAIN drafts' = 1..(D + m)
    BY <1>5, <1>6, LenProperties
  <2>2. \A k \in 1..Len(plans') : k \in 1..N \/ (k = N + 1 /\ v.version # 0)
    BY <1>4, <1>5
  <2>3. ASSUME NEW c \in 1..(D + m), c \notin 1..D PROVE \E i \in 1..m : c = D + i
    <3>1. c - D \in 1..m /\ c = D + (c - D)
      BY <1>4, <2>3
    <3> QED
      BY <3>1
  <2> QED
    BY <2>1, <2>2, <2>3
<1>9. /\ \A k \in 1..N : plans[k].snapshot \in 1..Len(snapshots) /\ plans[k].saw \in Nat
      /\ \A k \in 1..N : plans[k].version <= k
      /\ \A c \in 1..D : drafts[c].plan \in 1..N /\ drafts[c].saw \in Nat /\ drafts[c].saw <= N
  <2>1. \A k \in 1..N : plans[k] \in Plans /\ plans[k].snapshot <= Len(snapshots)
                        /\ plans[k].version <= k
    BY <1>1, <1>2, ElementOfSeq DEF Inv, Rows
  <2>2. \A c \in 1..D : drafts[c] \in Drafts /\ drafts[c].plan <= N /\ drafts[c].saw <= N
    BY <1>1, <1>2, ElementOfSeq DEF Inv, Rows
  <2>3. \A k \in 1..N : plans[k].snapshot \in 1..Len(snapshots) /\ plans[k].saw \in Nat
    BY <2>1, Lengths DEF Plans
  <2>4. \A c \in 1..D : drafts[c].plan \in 1..N /\ drafts[c].saw \in Nat
    BY SMTT(30), <1>4, <2>2, Lengths DEF Drafts
  <2> QED
    BY <2>1, <2>2, <2>3, <2>4
<1>10. /\ p \in 1..Len(plans') /\ plans'[p].snapshot = v.snapshot
       /\ v.version # 0 => p = N + 1
       /\ v.version = 0 => p = v.plan /\ v.plan # 0 /\ p \in 1..N
       /\ v.snapshot \in 1..Len(snapshots)
  <2>1. v.snapshot \in 1..Len(snapshots)
    BY <1>2, <1>3, <1>4, Lengths DEF Shape
  <2>2. CASE v.version # 0
    BY <1>1, <1>4, <1>5, <2>1, <2>2 DEF PlanOf
  <2>3. CASE v.version = 0
    <3>1. v.plan # 0 /\ v.plan \in 1..N /\ plans[v.plan].snapshot = v.snapshot
      BY <1>1, <1>2, <1>3, <2>3 DEF Shape, Drafting
    <3> QED
      BY <1>1, <1>5, <2>1, <2>3, <3>1 DEF PlanOf
  <2> QED
    BY <2>2, <2>3
<1>11. v.version # 0 => /\ v.found \subseteq 1..v.saw
                        /\ \A k \in 1..N : plans[k].planned /\ k <= v.saw => k \in v.found
  BY <1>1, <1>2 DEF Request, Looked
<1>12. Rows'
  <2>1. ASSUME NEW k \in 1..Len(plans')
        PROVE  plans'[k].snapshot <= Len(snapshots) /\ plans'[k].version <= k
    <3>1. CASE k \in 1..N
      BY <1>5, <1>9, <3>1, Lengths
    <3>2. CASE k = N + 1 /\ v.version # 0
      BY <1>1, <1>2, <1>5, <3>2 DEF Shape
    <3> QED
      BY <1>8, <3>1, <3>2
  <2>2. ASSUME NEW k \in 1..Len(plans'), NEW l \in 1..Len(plans'), k < l, plans'[k].planned
        PROVE  plans'[l].planned
    <3>1. CASE l = N + 1 /\ v.version # 0
      BY <1>5, <3>1
    <3>2. CASE l \in 1..N
      <4>1. k \in 1..N
        BY <1>4, <1>8, <2>2, <3>2
      <4>2. plans[k].planned /\ (v.version # 0 => k \notin v.found)
        BY <1>5, <2>2, <4>1
      <4>3. plans[l].planned
        BY <1>1, <2>2, <3>2, <4>1, <4>2 DEF Inv, Rows
      <4>4. v.version # 0 => l \notin v.found
        <5>1. v.version # 0 => ~(k <= v.saw)
          BY <1>11, <4>1, <4>2
        <5> QED
          BY <1>4, <1>11, <2>2, <3>2, <4>1, <5>1
      <4> QED
        BY <1>5, <3>2, <4>3, <4>4
    <3> QED
      BY <1>8, <3>1, <3>2
  <2>3. ASSUME NEW c \in 1..(D + m)
        PROVE  drafts'[c].plan <= Len(plans') /\ drafts'[c].saw <= Len(plans')
    <3>1. N <= Len(plans') /\ Len(plans') \in Nat
      BY <1>4, <1>5
    <3>2. CASE c \in 1..D
      BY <1>4, <1>6, <1>9, <3>1, <3>2
    <3>3. ASSUME NEW i \in 1..m, c = D + i
          PROVE  drafts'[c].plan <= Len(plans') /\ drafts'[c].saw <= Len(plans')
      <4>1. drafts'[c].plan = p /\ drafts'[c].saw = v.saw
        BY <1>6, <3>3
      <4>2. p <= Len(plans')
        BY <1>10, <3>1
      <4> QED
        BY <1>4, <3>1, <4>1, <4>2
    <3> QED
      BY <1>8, <3>2, <3>3
  <2> QED
    BY <1>3, <1>6, <2>1, <2>2, <2>3 DEF Rows
<1>13. PlannedTogetherOverlapped'
  <2>1. ASSUME NEW k \in 1..Len(plans'), NEW l \in 1..Len(plans'), k < l,
               plans'[k].planned, plans'[l].planned
        PROVE  plans'[l].saw < k
    <3>1. k \in 1..N
      BY <1>4, <1>8, <2>1
    <3>2. plans[k].planned /\ (v.version # 0 => k \notin v.found)
      BY <1>5, <2>1, <3>1
    <3>3. CASE l \in 1..N
      <4>1. plans[l].planned
        BY <1>5, <2>1, <3>3
      <4>2. plans[l].saw < k
        BY <1>4, <2>1, <3>1, <3>2, <3>3, <4>1 DEF Inv, PlannedTogetherOverlapped, Planned
      <4> QED
        BY <1>5, <3>3, <4>2
    <3>4. CASE l = N + 1 /\ v.version # 0
      <4>1. ~(k <= v.saw)
        BY <1>11, <3>1, <3>2, <3>4
      <4> QED
        BY <1>4, <1>5, <3>1, <3>4, <4>1
    <3> QED
      BY <1>8, <3>3, <3>4
  <2> QED
    BY <1>8, <2>1 DEF PlannedTogetherOverlapped, Planned
<1>14. TwinDraftsOverlapped'
  <2>1. ASSUME NEW c \in 1..(D + m), NEW d \in 1..(D + m), c < d,
               drafts'[c].active, drafts'[d].active,
               drafts'[c].plan = drafts'[d].plan, drafts'[c].exporter = drafts'[d].exporter
        PROVE  drafts'[d].checked < c
    <3>1. CASE d \in 1..D
      <4>1. c \in 1..D
        BY <1>4, <2>1, <3>1
      <4> QED
        BY <1>4, <1>6, <2>1, <3>1, <4>1 DEF Inv, TwinDraftsOverlapped
    <3>2. ASSUME NEW j \in 1..m, d = D + j PROVE drafts'[d].checked < c
      <4>1. CASE c \in 1..D
        <5>1. /\ drafts[c].active /\ drafts[c].plan = p
              /\ drafts[c].exporter = made[j].exporter
          BY <1>6, <2>1, <3>2, <4>1
        <5>2. v.version = 0 /\ p = v.plan /\ v.plan # 0
          BY SMTT(30), <1>4, <1>9, <1>10, <4>1, <5>1
        <5>3. NoneActive(v.plan, made[j].exporter, made[j].checked)
          BY <1>1, <1>2, <5>2 DEF Request, Unseen
        <5>4. made[j].checked < c
          BY <1>4, <4>1, <5>1, <5>2, <5>3 DEF NoneActive, DraftsOf
        <5> QED
          BY <1>6, <3>2, <5>4
      <4>2. ASSUME NEW i \in 1..m, c = D + i PROVE FALSE
        <5>1. made[i].exporter = made[j].exporter
          BY <1>6, <2>1, <3>2, <4>2
        <5>2. i = j
          BY <1>1, <1>2, <5>1 DEF Request, Unseen
        <5> QED
          BY <1>4, <2>1, <3>2, <4>2, <5>2
      <4> QED
        BY <1>8, <4>1, <4>2
    <3> QED
      BY <1>8, <3>1, <3>2
  <2> QED
    BY <1>8, <2>1 DEF TwinDraftsOverlapped
<1>15. DraftsFollowThePlan'
  <2>1. ASSUME NEW d \in 1..(D + m), NEW q \in (drafts'[d].plan + 1)..drafts'[d].saw
        PROVE  /\ plans'[q].snapshot # plans'[drafts'[d].plan].snapshot
               /\ plans'[q].saw < drafts'[d].plan
    <3>1. CASE d \in 1..D
      <4>1. drafts'[d] = drafts[d] /\ drafts[d].plan \in 1..N /\ drafts[d].saw \in Nat
            /\ drafts[d].saw <= N
        BY <1>6, <1>9, <3>1
      <4>2. q \in 1..N /\ q \in (drafts[d].plan + 1)..drafts[d].saw
        BY <1>4, <2>1, <4>1
      <4>3. plans[q].snapshot # plans[drafts[d].plan].snapshot /\ plans[q].saw < drafts[d].plan
        BY <1>4, <3>1, <4>2 DEF Inv, DraftsFollowThePlan
      <4> QED
        BY <1>5, <4>1, <4>2, <4>3
    <3>2. ASSUME NEW j \in 1..m, d = D + j
          PROVE  /\ plans'[q].snapshot # plans'[drafts'[d].plan].snapshot
                 /\ plans'[q].saw < drafts'[d].plan
      <4>1. drafts'[d].plan = p /\ drafts'[d].saw = v.saw /\ q \in (p + 1)..v.saw
        BY <1>6, <2>1, <3>2
      <4>2. v.version = 0 /\ p = v.plan /\ v.plan # 0 /\ p \in 1..N /\ q \in 1..N
        BY <1>4, <1>10, <4>1
      <4>3. plans[q].snapshot # plans[p].snapshot /\ plans[q].saw < p
        BY <1>2, <4>1, <4>2 DEF Request, Follows
      <4> QED
        BY <1>5, <4>1, <4>2, <4>3
    <3> QED
      BY <1>8, <3>1, <3>2
  <2> QED
    BY <1>8, <2>1 DEF DraftsFollowThePlan
<1>16. DraftsComeTogether'
  <2>1. ASSUME NEW d \in 1..(D + m),
               NEW e \in snapshots[plans'[drafts'[d].plan].snapshot]
        PROVE  \E c \in 1..(D + m) : /\ drafts'[c].plan = drafts'[d].plan
                                     /\ drafts'[c].exporter = e
    <3>1. CASE d \in 1..D
      <4>1. drafts'[d] = drafts[d] /\ drafts[d].plan \in 1..N
        BY <1>6, <1>9, <3>1
      <4>2. e \in snapshots[plans[drafts[d].plan].snapshot]
        BY <1>5, <2>1, <4>1
      <4>3. PICK c \in 1..D : drafts[c].plan = drafts[d].plan /\ drafts[c].exporter = e
        <5>1. DraftsOf(drafts[d].plan, e) # {}
          BY <1>4, <3>1, <4>2 DEF Inv, DraftsComeTogether
        <5> QED
          BY <1>4, <5>1 DEF DraftsOf
      <4> QED
        BY <1>4, <1>6, <4>1, <4>3
    <3>2. ASSUME NEW j \in 1..m, d = D + j
          PROVE  \E c \in 1..(D + m) : /\ drafts'[c].plan = drafts'[d].plan
                                       /\ drafts'[c].exporter = e
      <4>1. drafts'[d].plan = p /\ e \in snapshots[v.snapshot]
        BY <1>6, <1>10, <2>1, <3>2
      <4>2. made # <<>> /\ Drafting(v) /\ v.todo = {}
        <5>1. made # <<>>
          BY <1>1, <3>2
        <5> QED
          BY <1>1, <1>2, <1>3, <5>1 DEF Shape, Drafting
      <4>3. \/ \E i \in 1..m : made[i].exporter = e
            \/ v.plan # 0 /\ DraftsOf(v.plan, e) # {}
        BY <1>1, <1>2, <4>1, <4>2 DEF Request, Covers
      <4>4. ASSUME NEW i \in 1..m, made[i].exporter = e
            PROVE  \E c \in 1..(D + m) : drafts'[c].plan = p /\ drafts'[c].exporter = e
        <5>1. D + i \in 1..(D + m) /\ drafts'[D + i].plan = p /\ drafts'[D + i].exporter = e
          BY SMTT(30), <1>4, <1>6, <4>4
        <5> QED
          BY <5>1
      <4>5. ASSUME v.plan # 0, NEW c \in DraftsOf(v.plan, e)
            PROVE  \E k \in 1..(D + m) : drafts'[k].plan = p /\ drafts'[k].exporter = e
        <5>1. v.version = 0 /\ p = v.plan
          BY <1>2, <1>10, <4>5 DEF Shape
        <5>2. c \in 1..D /\ drafts[c].plan = p /\ drafts[c].exporter = e
          BY <1>4, <4>5, <5>1 DEF DraftsOf
        <5>3. c \in 1..(D + m) /\ drafts'[c] = drafts[c]
          BY <1>4, <1>6, <5>2
        <5> QED
          BY <5>2, <5>3
      <4> QED
        BY <4>1, <4>3, <4>4, <4>5
    <3> QED
      BY <1>8, <3>1, <3>2
  <2>2. ASSUME NEW d \in 1..(D + m), NEW e \in snapshots[plans'[drafts'[d].plan].snapshot]
        PROVE  {c \in 1..(D + m) : /\ drafts'[c].plan = drafts'[d].plan
                                   /\ drafts'[c].exporter = e} # {}
    BY <2>1
  <2> QED
    BY <1>3, <1>8, <2>2 DEF DraftsComeTogether, DraftsOf
<1>17. ASSUME NEW k \in Requests, k # r PROVE req'[k] = req[k] /\ (SameRows \/ ~Holds(req[k]))
  <2>1. req'[k] = req[k]
    BY <1>2, <1>3, <1>17
  <2>2. CASE v.version = 0 /\ made = <<>>
    <3>1. m = 0
      BY <1>1, <2>2
    <3>2. SameRows
      BY <1>1, <1>3, <1>4, <1>5, <1>6, <2>2, <3>1 DEF SameRows
    <3> QED
      BY <2>1, <3>2
  <2>3. CASE v.version # 0 \/ made # <<>>
    <3>1. HoldsProcess(r)
      BY <1>1, <1>3, <2>3 DEF HoldsProcess
    <3>2. ~HoldsProcess(k)
      BY <1>17, <3>1 DEF Inv, TypeOK
    <3> QED
      BY <2>1, <3>2 DEF HoldsProcess, Holds, Drafting
  <2> QED
    BY <2>2, <2>3
<1>18. Idle \in Handlers /\ Request(Idle)' /\ Room(Idle)' /\ ~Holds(Idle)
  BY <1>2, <1>3, <1>5, <1>6, <1>7, IdleIs, IdleKept
<1>19. req' \in [Requests -> Handlers] /\ req'[r] = Idle
  BY <1>2, <1>3, <1>18
<1>20. Len(snapshots') <= MaxSnapshots /\ snapshots' \in Seq(Duimps)
  BY <1>2, <1>3 DEF Inv, TypeOK
<1> QED
  BY <1>5, <1>6, <1>7, <1>12, <1>13, <1>14, <1>15, <1>16, <1>17, <1>18, <1>19, <1>20, WriteStep

-----------------------------------------------------------------------------
(* Theorems *)

\* Every step preserves the invariant.
LEMMA NextInv == Inv /\ [Next]_vars => Inv'
<1> SUFFICES ASSUME Inv, [Next]_vars PROVE Inv'
  OBVIOUS
<1>1. ASSUME NEW r \in Requests,
             \/ Fetch(r) \/ PrepareAnew(r) \/ FetchToPrepare(r) \/ Fetched(r)
             \/ Prepare(r) \/ LookForPlan(r) \/ Supersede(r) \/ InsertPlan(r)
             \/ Reuse(r) \/ FindNone(r) \/ Create(r) \/ Commit(r) \/ GiveUp(r)
      PROVE  Inv'
  BY <1>1, FetchStep, PrepareStep, FetchToPrepareStep, FetchedStep, LookForPlanStep,
     SupersedeStep, InsertPlanStep, ReuseStep, FindNoneStep, CreateStep, CommitStep, GiveUpStep
<1>2. ASSUME NEW r \in Requests, NEW s \in DOMAIN snapshots, Plan(r, s) \/ Draft(r, s)
      PROVE  Inv'
  BY <1>2, SelectStep, DraftStep DEF Plan
<1>3. ASSUME NEW r \in Requests, PlanToPrepare(r)
      PROVE  Inv'
  <2>1. req[r].phase = "planning" /\ SelectPlanned(r, "prepare", req[r].snapshot)
    BY <1>3 DEF PlanToPrepare
  <2>2. req[r] \in Handlers /\ Shape(req[r])
    BY DEF Inv, TypeOK, Request
  <2>3. req[r].snapshot \in DOMAIN snapshots
    BY SMTT(30), <2>1, <2>2, Lengths DEF Shape, Handlers
  <2> QED
    BY <2>1, <2>3, SelectStep
<1>4. ASSUME NEW d \in DOMAIN drafts, SoftDelete(d)
      PROVE  Inv'
  BY <1>4, SoftDeleteStep
<1>5. CASE UNCHANGED vars
  <2>1. UNCHANGED <<snapshots, plans, drafts, req>>
    BY <1>5 DEF vars
  <2>2. SameRows /\ Extends
    BY <2>1, Lengths DEF SameRows, Extends
  <2>3. Rows' /\ PlannedTogetherOverlapped' /\ TwinDraftsOverlapped'
        /\ DraftsFollowThePlan' /\ DraftsComeTogether'
    BY <2>1 DEF Inv, Rows, PlannedTogetherOverlapped, TwinDraftsOverlapped,
       DraftsFollowThePlan, DraftsComeTogether, Planned, DraftsOf
  <2> QED
    BY <2>1, <2>2, <2>3, WriteStep DEF Inv, TypeOK
<1> QED
  BY <1>1, <1>2, <1>3, <1>4, <1>5 DEF Next

\* The invariant holds in every state.
LEMMA AlwaysInv == Spec => []Inv
BY InitInv, NextInv, PTL DEF Spec

\* Rows and requests keep their types, and one request at a time has an uncommitted
\* UPDATE of the process row.
THEOREM TypeCorrect == Spec => []TypeOK
BY AlwaysInv, PTL DEF Inv

\* Two plans of the process are planned at once only if the requests that made them
\* overlapped (create_document_plan, which supersedes what it has found).
THEOREM PlansComeFromRaces == Spec => []PlannedTogetherOverlapped
BY AlwaysInv, PTL DEF Inv

\* A document has two active drafts only if the requests that made them overlapped
\* (_latest_active_document_draft).
THEOREM TwinsComeFromRaces == Spec => []TwinDraftsOverlapped
BY AlwaysInv, PTL DEF Inv

\* Drafts are of the last plan of their snapshot that their request could see, and
\* what could have superseded it overlapped it (generate_child_drafts).
THEOREM DraftsAreOfTheNewest == Spec => []DraftsFollowThePlan
BY AlwaysInv, PTL DEF Inv

\* A plan is drafted whole or not at all, whatever fails or dies on the way.
THEOREM PlansAreDraftedWhole == Spec => []DraftsComeTogether
BY AlwaysInv, PTL DEF Inv
=============================================================================
