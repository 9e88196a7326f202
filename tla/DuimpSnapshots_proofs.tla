------------------------ MODULE DuimpSnapshots_proofs ------------------------
(***************************************************************************)
(* Proofs about DuimpSnapshots for any requests, DUIMPs, fields and page   *)
(* sizes.                                                                  *)
(*                                                                         *)
(* The argument: the items a handler has read are the first ones of the    *)
(* version it was told, whatever is registered meanwhile (Reading).  As    *)
(* long as a handler has missed no commit, what it remembers of the        *)
(* process and of its snapshot is what they are (Fresh), so what it        *)
(* commits continues them; every other handler has then missed it.         *)
(***************************************************************************)
EXTENDS DuimpSnapshots, SequenceTheorems, WellFoundedInduction, TLAPS

Given == [Fields -> Values \cup {None}]
Entries == [Fields -> {None} \cup [value : Values, by : {"duimp", "external", "operator"}]]
Contents == [version : Nat, items : Seq(Nat), enriched : BOOLEAN]
Snapshots == [content : Contents, fields : Entries, kind : {"fetch", "refresh", "manual"}]
Phases == {"idle", "loaded", "ask", "items", "read", "refreshed", "resolve"}
Work == [phase : Phases, kind : {"none", "fetch", "manual", "context"}, base : Nat,
         fields : Entries, over : Given, loaded : Nat \cup {None}, version : Nat,
         stated : Nat, items : Seq(Nat), content : Contents \cup {None},
         snapshot : Nat, late : BOOLEAN]

Typed ==
  /\ portal \in Seq(Duimps) /\ Len(portal) > 0
  /\ process \in Nat \cup {None} /\ made \in Nat
  /\ DOMAIN snapshots \subseteq 1..made /\ DOMAIN given = DOMAIN snapshots
  /\ \A n \in DOMAIN snapshots : snapshots[n] \in Snapshots /\ given[n] \in Given
  /\ req \in [Handlers -> Work]

\* The first n items of a DUIMP.
FirstItems(n) == [i \in 1..n |-> i]

\* An answer with all the items of its version, if it states how many.
Complete(content) ==
  /\ content.version \in 1..Len(portal)
  /\ portal[content.version].stated > 0 =>
       content.items = FirstItems(portal[content.version].items)

\* A handler that reads has the first items of its version; only a context resolves.
Reading(q) ==
  /\ q.phase = "idle" => q = Idle
  /\ q.phase \in {"loaded", "ask"} => q.items = << >>
  /\ q.phase = "loaded" => q.kind \in {"fetch", "manual"}
  /\ q.phase \in {"refreshed", "resolve"} => q.kind = "context"
  /\ q.phase \in {"items", "read"} =>
       /\ q.version \in 1..Len(portal) /\ q.stated = portal[q.version].stated
       /\ q.items = FirstItems(Len(q.items)) /\ Len(q.items) <= portal[q.version].items
  /\ q.phase = "read" /\ q.stated > 0 => Len(q.items) = q.stated

\* A context makes a new snapshot only of a whole answer.
Refreshing(q) ==
  q.kind = "context" =>
    /\ q.base \in DOMAIN snapshots
    /\ q.phase \in {"ask", "items", "read"} => q.snapshot = q.base
    /\ q.version # 0 => q.version \in 1..Len(portal)
    /\ q.snapshot # q.base =>
         /\ q.version # 0 /\ q.snapshot \in 1..made
         /\ q.content \in Contents /\ q.content.version = q.version /\ Complete(q.content)

\* A handler that has missed no commit knows the process and its snapshot as they
\* are, and a snapshot it made is newer than all and differs from its base.
Fresh(q) ==
  q.phase # "idle" /\ ~q.late =>
    /\ q.loaded = process
    /\ q.kind = "context" =>
         /\ q.fields = snapshots[q.base].fields
         /\ q.phase \in {"refreshed", "resolve"} /\ q.version # 0 /\ q.snapshot = q.base =>
              snapshots[q.base].content.version = q.version
         /\ q.snapshot # q.base =>
              /\ q.content # snapshots[q.base].content
              /\ \A m \in DOMAIN snapshots : m < q.snapshot

\* The snapshots read from the Portal.
Whole ==
  \A n \in DOMAIN snapshots : snapshots[n].kind # "manual" => Complete(snapshots[n].content)

Inv ==
  /\ Typed /\ Whole
  /\ \A h \in Handlers : Reading(req[h]) /\ Refreshing(req[h]) /\ Fresh(req[h])
  /\ OverridesStand /\ ProcessFollowsSnapshot /\ TwinsAreRaces

-----------------------------------------------------------------------------
(* Operators *)

\* The idle request is typed.
LEMMA IdleType ==
  /\ Idle \in Work /\ Idle.phase = "idle" /\ Idle.kind = "none" /\ Idle.late = FALSE
  /\ Blank \in Entries /\ Blank \in Given
BY EmptySeq DEF Idle, Work, Phases, Blank, Entries, Given

\* A nonempty set of naturals has a least element.
LEMMA LeastNatural ==
  ASSUME NEW T \in SUBSET Nat, T # {}
  PROVE  \E m \in T : \A k \in T : m <= k
<1> DEFINE Less == {z \in Nat \X Nat : z[1] < z[2]}
<1>1. IsWellFoundedOn(Less, Nat)
  BY NatLessThanWellFounded DEF OpToRel
<1> HIDE DEF Less
<1>2. PICK m \in T : \A k \in T : <<k, m>> \notin Less
  BY <1>1, WFMin
<1>3. ASSUME NEW k \in T PROVE m <= k
  <2>1. k \in Nat /\ m \in Nat
    OBVIOUS
  <2>2. <<k, m>> \in Nat \X Nat /\ <<k, m>>[1] = k /\ <<k, m>>[2] = m
    BY <2>1
  <2>3. ~(k < m)
    BY <1>2, <2>2 DEF Less
  <2> QED
    BY <2>1, <2>3
<1> QED
  BY <1>3

\* Max returns the greatest element.
LEMMA MaxIs ==
  ASSUME NEW T \in SUBSET Nat, NEW m \in T, \A k \in T : k <= m
  PROVE  Max(T) = m
<1>1. m \in T /\ \A k \in T : m >= k
  OBVIOUS
<1>2. Max(T) \in T /\ \A k \in T : Max(T) >= k
  BY <1>1 DEF Max
<1>3. Max(T) >= m /\ m >= Max(T) /\ Max(T) \in Nat /\ m \in Nat
  BY <1>1, <1>2
<1> QED
  BY <1>3

\* A bounded set of naturals has a greatest element.
LEMMA MaxOfBounded ==
  ASSUME NEW n \in Nat, NEW T \in SUBSET (0..n), T # {}
  PROVE  Max(T) \in T /\ \A k \in T : k <= Max(T)
<1> DEFINE U == {n - k : k \in T}
<1>1. U \in SUBSET Nat /\ U # {}
  <2>1. \A k \in T : n - k \in Nat
    OBVIOUS
  <2> QED
    BY <2>1
<1>2. PICK u \in U : \A v \in U : u <= v
  BY <1>1, LeastNatural
<1>3. PICK m \in T : u = n - m
  BY <1>2
<1>4. ASSUME NEW k \in T PROVE k <= m
  <2>1. n - k \in U
    OBVIOUS
  <2>2. n - m <= n - k
    BY <1>2, <1>3, <2>1
  <2> QED
    BY <2>2
<1>5. T \in SUBSET Nat
  OBVIOUS
<1>6. Max(T) = m
  BY <1>4, <1>5, MaxIs
<1> QED
  BY <1>4, <1>6

\* The newest snapshot.
LEMMA NewestIs ==
  ASSUME DOMAIN snapshots \subseteq Nat, NEW n \in DOMAIN snapshots,
         \A m \in DOMAIN snapshots : m <= n
  PROVE  Newest = n
BY MaxIs DEF Newest

\* A page that follows the first items makes them the first items again.
LEMMA PageFollows ==
  ASSUME NEW items \in Seq(Nat), NEW page \in Seq(Nat), items = FirstItems(Len(items)),
         \A i \in 1..Len(page) : page[i] = Len(items) + i
  PROVE  /\ items \o page \in Seq(Nat) /\ Len(items \o page) = Len(items) + Len(page)
         /\ items \o page = FirstItems(Len(items) + Len(page))
<1>1. PICK l \in Nat, k \in Nat : l = Len(items) /\ k = Len(page)
  BY LenProperties
<1>2. /\ items \o page \in Seq(Nat) /\ Len(items \o page) = l + k
      /\ \A i \in 1..(l + k) : (items \o page)[i] = IF i <= l THEN items[i] ELSE page[i - l]
  BY <1>1, ConcatProperties
<1>3. ASSUME NEW i \in 1..(l + k) PROVE (items \o page)[i] = i
  <2>1. CASE i <= l
    <3>1. i \in 1..Len(items) /\ items[i] = i
      BY <1>1, <2>1 DEF FirstItems
    <3> QED
      BY <1>2, <2>1, <3>1
  <2>2. CASE ~(i <= l)
    <3>1. i - l \in 1..Len(page) /\ l + (i - l) = i
      BY <1>1, <2>2
    <3> QED
      BY <1>1, <1>2, <2>2, <3>1
  <2> QED
    BY <2>1, <2>2
<1>4. items \o page = [i \in 1..(l + k) |-> (items \o page)[i]]
  BY <1>2, LenProperties
<1> QED
  BY <1>1, <1>2, <1>3, <1>4 DEF FirstItems

-----------------------------------------------------------------------------

\* There are no snapshots, and nobody is at work.
LEMMA InitInv == Init => Inv
<1> SUFFICES ASSUME Init PROVE Inv
  OBVIOUS
<1>1. PICK d \in Duimps : portal = <<d>>
  BY DEF Init
<1>2. portal \in Seq(Duimps) /\ Len(portal) > 0
  BY <1>1
<1>3. DOMAIN snapshots = {} /\ DOMAIN given = {} /\ snapshots = << >>
  BY DEF Init
<1>4. \A h \in Handlers : req[h] = Idle
  BY DEF Init
<1>5. req \in [Handlers -> Work]
  BY IdleType DEF Init
<1>6. Typed
  BY <1>2, <1>3, <1>5 DEF Typed, Init
<1>7. \A h \in Handlers : Reading(req[h]) /\ Refreshing(req[h]) /\ Fresh(req[h])
  BY <1>4, IdleType DEF Reading, Refreshing, Fresh
<1>8. OverridesStand /\ ProcessFollowsSnapshot /\ TwinsAreRaces
  BY <1>3 DEF OverridesStand, ProcessFollowsSnapshot, TwinsAreRaces
<1> QED
  BY <1>3, <1>6, <1>7, <1>8 DEF Inv, Whole

\* A step of one handler that commits nothing.
LEMMA HandlerStep ==
  ASSUME Inv, NEW h \in Handlers, NEW q \in Work, req' = [req EXCEPT ![h] = q],
         Reading(q), Refreshing(q)', Fresh(q),
         UNCHANGED <<portal, process, snapshots, given, raced, backdated>>,
         made' \in Nat, made <= made'
  PROVE  Inv'
<1>1. Typed
  BY DEF Inv
<1>2. req'[h] = q /\ \A k \in Handlers \ {h} : req'[k] = req[k]
  BY <1>1 DEF Typed
<1>3. Typed'
  <2>1. DOMAIN snapshots' \subseteq 1..made'
    BY <1>1 DEF Typed
  <2>2. req' \in [Handlers -> Work]
    BY <1>1 DEF Typed
  <2> QED
    BY <1>1, <2>1, <2>2 DEF Typed
<1>4. ASSUME NEW k \in Handlers PROVE Reading(req[k])' /\ Refreshing(req[k])' /\ Fresh(req[k])'
  <2>1. CASE k = h
    BY <1>2, <2>1 DEF Reading, Refreshing, Fresh, Complete
  <2>2. CASE k # h
    <3>1. Reading(req[k]) /\ Refreshing(req[k]) /\ Fresh(req[k]) /\ req'[k] = req[k]
      BY <1>2, <2>2 DEF Inv
    <3>2. 1..made \subseteq 1..made'
      BY <1>1 DEF Typed
    <3> QED
      BY <3>1, <3>2 DEF Reading, Refreshing, Fresh, Complete
  <2> QED
    BY <2>1, <2>2
<1>5. Whole'
  BY DEF Inv, Whole, Complete
<1>6. OverridesStand' /\ ProcessFollowsSnapshot' /\ TwinsAreRaces'
  BY DEF Inv, OverridesStand, ProcessFollowsSnapshot, TwinsAreRaces, Newest
<1> QED
  BY <1>3, <1>4, <1>5, <1>6 DEF Inv

\* A handler ends with nothing done.
LEMMA GiveUpStep ==
  ASSUME Inv, NEW h \in Handlers, GiveUp(h)
  PROVE  Inv'
<1>1. /\ req' = [req EXCEPT ![h] = Idle]
      /\ UNCHANGED <<portal, process, snapshots, made, contexts, given, raced, backdated>>
  BY DEF GiveUp, Set
<1>2. Reading(Idle) /\ Refreshing(Idle)' /\ Fresh(Idle)
  BY IdleType DEF Reading, Refreshing, Fresh
<1>3. made' \in Nat /\ made <= made'
  BY <1>1 DEF Inv, Typed
<1> QED
  BY <1>1, <1>2, <1>3, IdleType, HandlerStep

\* The versions there are do not change.
LEMMA RegisterStep ==
  ASSUME Inv, Register
  PROVE  Inv'
<1>1. /\ \E d \in Duimps : portal' = Append(portal, d)
      /\ UNCHANGED <<process, snapshots, made, holder, req, contexts, given, raced, backdated>>
  BY DEF Register
<1>2. Typed
  BY DEF Inv
<1>3. /\ portal' \in Seq(Duimps) /\ Len(portal') > 0 /\ 1..Len(portal) \subseteq 1..Len(portal')
      /\ \A v \in 1..Len(portal) : portal'[v] = portal[v]
  <2>1. PICK d \in Duimps : portal' = Append(portal, d)
    BY <1>1
  <2>2. /\ portal' \in Seq(Duimps) /\ Len(portal') = Len(portal) + 1 /\ Len(portal) \in Nat
        /\ \A v \in 1..Len(portal) : portal'[v] = portal[v]
    BY <1>2, <2>1, AppendProperties DEF Typed
  <2> QED
    BY <2>2
<1>4. Typed'
  BY <1>1, <1>2, <1>3 DEF Typed
<1>5. ASSUME NEW x, Complete(x)
      PROVE  /\ x.version \in 1..Len(portal')
             /\ portal'[x.version].stated > 0 =>
                  x.items = FirstItems(portal'[x.version].items)
  BY <1>3, <1>5 DEF Complete
<1>6. ASSUME NEW h \in Handlers PROVE Reading(req[h])' /\ Refreshing(req[h])' /\ Fresh(req[h])'
  <2>1. Reading(req[h]) /\ Refreshing(req[h]) /\ Fresh(req[h])
    BY DEF Inv
  <2>2. Reading(req[h])'
    BY <1>1, <1>3, <2>1 DEF Reading
  <2>3. Refreshing(req[h])'
    BY <1>1, <1>3, <1>5, <2>1 DEF Refreshing, Complete
  <2>4. Fresh(req[h])'
    BY <1>1, <2>1 DEF Fresh
  <2> QED
    BY <2>2, <2>3, <2>4
<1>7. Whole'
  BY <1>1, <1>5 DEF Inv, Whole, Complete
<1>8. OverridesStand' /\ ProcessFollowsSnapshot' /\ TwinsAreRaces'
  BY <1>1 DEF Inv, OverridesStand, ProcessFollowsSnapshot, TwinsAreRaces, Newest
<1> QED
  BY <1>4, <1>6, <1>7, <1>8 DEF Inv

\* The version in force is told.
LEMMA AskStep ==
  ASSUME Inv, NEW h \in Handlers, Ask(h)
  PROVE  Inv'
<1>1. PICK r, c, st : r = req[h] /\ c = Current /\ st = portal[c].stated
  OBVIOUS
<1>2. PICK q : q = [r EXCEPT !.phase = "items", !.version = c, !.stated = st]
  OBVIOUS
<1>3. /\ r.phase = "ask" /\ req' = [req EXCEPT ![h] = q]
      /\ UNCHANGED <<portal, process, snapshots, made, contexts, given, raced, backdated>>
  BY <1>1, <1>2 DEF Ask, Set
<1>4. r \in Work /\ Reading(r) /\ Refreshing(r) /\ Fresh(r)
  BY <1>1 DEF Inv, Typed
<1>5. c \in 1..Len(portal) /\ c \in Nat /\ c # 0 /\ st \in Nat /\ portal[c].items \in Nat
  <2>1. portal \in Seq(Duimps) /\ Len(portal) > 0 /\ Len(portal) \in Nat
    BY LenProperties DEF Inv, Typed
  <2>2. c \in 1..Len(portal)
    BY <1>1, <2>1 DEF Current
  <2>3. portal[c] \in Duimps
    BY <2>1, <2>2, ElementOfSeq
  <2> QED
    BY <1>1, <2>1, <2>2, <2>3, DuimpSnapshotsAssumption
<1>6. q \in Work
  BY <1>2, <1>4, <1>5 DEF Work, Phases
<1>7. /\ q.phase = "items" /\ q.version = c /\ q.stated = st
      /\ q.kind = r.kind /\ q.base = r.base /\ q.snapshot = r.snapshot /\ q.items = r.items
      /\ q.loaded = r.loaded /\ q.late = r.late /\ q.fields = r.fields
  BY <1>2, <1>4 DEF Work
<1>8. Reading(q)
  BY <1>1, <1>3, <1>4, <1>5, <1>7 DEF Reading, FirstItems
<1>9. Refreshing(q)'
  BY <1>3, <1>4, <1>5, <1>7 DEF Refreshing
<1>10. Fresh(q)
  BY <1>3, <1>4, <1>7 DEF Fresh, Refreshing
<1>11. made' \in Nat /\ made <= made'
  BY <1>3 DEF Inv, Typed
<1> QED
  BY <1>3, <1>6, <1>8, <1>9, <1>10, <1>11, HandlerStep

\* The handler reads on from the items it has, in the version it was told.
LEMMA ReadPageStep ==
  ASSUME Inv, NEW h \in Handlers, ReadPage(h)
  PROVE  Inv'
<1>1. PICK r, d : r = req[h] /\ d = portal[r.version]
  OBVIOUS
<1>2. /\ r.phase = "items"
      /\ UNCHANGED <<portal, process, snapshots, made, contexts, given, raced, backdated>>
  BY <1>1 DEF ReadPage
<1>3. r \in Work /\ Reading(r) /\ Refreshing(r) /\ Fresh(r)
  BY <1>1 DEF Inv, Typed
<1>4. d.items \in Nat /\ d.stated \in {0, d.items} /\ r.stated = d.stated
      /\ r.version \in 1..Len(portal)
  <2>1. portal \in Seq(Duimps) /\ r.version \in 1..Len(portal)
    BY <1>2, <1>3 DEF Inv, Typed, Reading
  <2>2. d \in Duimps
    BY <1>1, <2>1, ElementOfSeq
  <2> QED
    BY <1>1, <1>2, <1>3, <2>1, <2>2, DuimpSnapshotsAssumption DEF Reading
<1>5. PICK l \in 0..d.items : Len(r.items) = l /\ r.items = FirstItems(l) /\ r.items \in Seq(Nat)
  <2>1. r.items \in Seq(Nat)
    BY <1>3 DEF Work
  <2>2. Len(r.items) \in Nat
    BY <2>1, LenProperties
  <2> QED
    BY <1>1, <1>2, <1>3, <1>4, <2>1, <2>2 DEF Reading
<1>6. PICK page \in Pages(r.version, Len(r.items) + 1) :
        LET items == r.items \o page IN
        IF IsLast(page, items, r.stated)
        THEN /\ IsComplete(items, r.stated)
             /\ req' = [req EXCEPT ![h] = [r EXCEPT !.phase = "read", !.items = items]]
        ELSE req' = [req EXCEPT ![h] = [r EXCEPT !.items = items]]
  BY <1>1 DEF ReadPage, Set
<1>7. PICK k \in 0..(d.items - l) : page = [i \in 1..k |-> (l + 1) + i - 1]
  <2>1. PICK n \in 0..PageSize :
          LET last == IF (l + 1) + n - 1 < d.items THEN (l + 1) + n - 1 ELSE d.items
          IN page = [i \in 1..(last + 1 - (l + 1)) |-> (l + 1) + i - 1]
    BY <1>1, <1>5, <1>6 DEF Pages
  <2>2. n \in Nat
    BY <2>1, DuimpSnapshotsAssumption
  <2>3. CASE l + n < d.items
    <3>1. (l + 1) + n - 1 = l + n /\ (l + n) + 1 - (l + 1) = n /\ n \in 0..(d.items - l)
      BY <1>4, <1>5, <2>2, <2>3
    <3> QED
      BY <2>1, <2>3, <3>1
  <2>4. CASE ~(l + n < d.items)
    <3>1. /\ (l + 1) + n - 1 = l + n /\ d.items + 1 - (l + 1) = d.items - l
          /\ d.items - l \in 0..(d.items - l)
      BY <1>4, <1>5, <2>2, <2>4
    <3> QED
      BY <2>1, <2>4, <3>1
  <2> QED
    BY <2>3, <2>4
<1>8. PICK items \in Seq(Nat) : /\ items = r.items \o page /\ Len(items) = l + k
                                /\ items = FirstItems(l + k)
  <2>1. l \in Nat /\ k \in Nat
    BY <1>4, <1>5, <1>7
  <2>2. /\ r.items \o page \in Seq(Nat) /\ Len(r.items \o page) = l + k
        /\ r.items \o page = FirstItems(l + k)
    <3>1. page \in [1..k -> Nat]
      BY <1>7, <2>1
    <3>2. page \in Seq(Nat) /\ Len(page) = k /\ \A i \in 1..k : page[i] = l + i
      BY <1>7, <2>1, <3>1
    <3>3. r.items \in Seq(Nat) /\ r.items = FirstItems(Len(r.items)) /\ Len(r.items) = l
      BY <1>5
    <3> QED
      BY <3>2, <3>3, PageFollows
  <2> QED
    BY <2>2
<1>9. PICK q : /\ req' = [req EXCEPT ![h] = q]
               /\ \/ q = [r EXCEPT !.items = items]
                  \/ /\ q = [r EXCEPT !.phase = "read", !.items = items]
                     /\ IsComplete(items, r.stated)
  BY <1>6, <1>8
<1>10. /\ q \in Work /\ q.items = items
       /\ (q.phase = "items" \/ (q.phase = "read" /\ IsComplete(items, r.stated)))
       /\ q.version = r.version /\ q.stated = r.stated
       /\ q.kind = r.kind /\ q.base = r.base /\ q.snapshot = r.snapshot
       /\ q.loaded = r.loaded /\ q.late = r.late /\ q.fields = r.fields
  <2>1. CASE q = [r EXCEPT !.items = items]
    BY <1>2, <1>3, <2>1 DEF Work, Phases
  <2>2. CASE q = [r EXCEPT !.phase = "read", !.items = items] /\ IsComplete(items, r.stated)
    BY <1>2, <1>3, <2>2 DEF Work, Phases
  <2> QED
    BY <1>9, <2>1, <2>2
<1>11. Len(items) <= d.items
  BY <1>4, <1>5, <1>7, <1>8
<1>12. Reading(q)
  BY <1>1, <1>2, <1>4, <1>8, <1>10, <1>11 DEF Reading, IsComplete
<1>13. Refreshing(q)'
  BY <1>2, <1>3, <1>10 DEF Refreshing
<1>14. Fresh(q)
  BY <1>2, <1>3, <1>10 DEF Fresh, Refreshing
<1>15. made' \in Nat /\ made <= made'
  BY <1>2 DEF Inv, Typed
<1> QED
  BY <1>2, <1>9, <1>10, <1>12, <1>13, <1>14, <1>15, HandlerStep

\* A request knows the process it has read.
LEMMA LoadProcessStep ==
  ASSUME Inv, NEW h \in Handlers, LoadProcess(h)
  PROVE  Inv'
<1>1. PICK kind \in {"fetch", "manual"} :
        req' = [req EXCEPT ![h] = [Idle EXCEPT !.phase = "loaded", !.kind = kind,
                                               !.loaded = process]]
  BY DEF LoadProcess, Set
<1>2. PICK q : q = [Idle EXCEPT !.phase = "loaded", !.kind = kind, !.loaded = process]
  OBVIOUS
<1>3. /\ req' = [req EXCEPT ![h] = q]
      /\ UNCHANGED <<portal, process, snapshots, made, contexts, given, raced, backdated>>
  BY <1>1, <1>2 DEF LoadProcess
<1>4. process \in Nat \cup {None}
  BY DEF Inv, Typed
<1>5. q \in Work
  BY <1>2, <1>4, IdleType DEF Work, Phases
<1>6. q.phase = "loaded" /\ q.kind = kind /\ q.loaded = process /\ q.items = << >>
  BY <1>2 DEF Idle
<1>7. Reading(q) /\ Refreshing(q)' /\ Fresh(q)
  BY <1>6 DEF Reading, Refreshing, Fresh
<1>8. made' \in Nat /\ made <= made'
  BY <1>3 DEF Inv, Typed
<1> QED
  BY <1>3, <1>5, <1>7, <1>8, HandlerStep

\* A lock changes nothing that the fetch knows.
LEMMA BeginFetchStep ==
  ASSUME Inv, NEW h \in Handlers, BeginFetch(h)
  PROVE  Inv'
<1>1. PICK r : r = req[h]
  OBVIOUS
<1>2. PICK q : q = [r EXCEPT !.phase = "ask"]
  OBVIOUS
<1>3. /\ r.phase = "loaded" /\ r.kind = "fetch" /\ req' = [req EXCEPT ![h] = q]
      /\ UNCHANGED <<portal, process, snapshots, made, contexts, given, raced, backdated>>
  BY <1>1, <1>2 DEF BeginFetch, Set
<1>4. r \in Work /\ Reading(r) /\ Fresh(r)
  BY <1>1 DEF Inv, Typed
<1>5. q \in Work
  BY <1>2, <1>4 DEF Work, Phases
<1>6. /\ q.phase = "ask" /\ q.kind = "fetch" /\ q.items = r.items
      /\ q.loaded = r.loaded /\ q.late = r.late
  BY <1>2, <1>3, <1>4 DEF Work
<1>7. Reading(q) /\ Refreshing(q)' /\ Fresh(q)
  BY <1>3, <1>4, <1>6 DEF Reading, Refreshing, Fresh
<1>8. made' \in Nat /\ made <= made'
  BY <1>3 DEF Inv, Typed
<1> QED
  BY <1>3, <1>5, <1>7, <1>8, HandlerStep

\* A context knows the process and the snapshot it reads.
LEMMA BeginContextStep ==
  ASSUME Inv, NEW h \in Handlers, BeginContext(h)
  PROVE  Inv'
<1>1. UNCHANGED <<portal, process, snapshots, made, given, raced, backdated>>
  BY DEF BeginContext
<1>2. PICK n \in DOMAIN snapshots, over \in Given, phase \in {"ask", "resolve"} :
        req' = [req EXCEPT ![h] =
          [Idle EXCEPT !.phase = phase, !.kind = "context", !.base = n,
             !.fields = snapshots[n].fields, !.over = over, !.loaded = process,
             !.snapshot = n]]
  BY DEF BeginContext, Set, Given
<1>3. PICK fields : fields = snapshots[n].fields
  OBVIOUS
<1>4. PICK q : q = [Idle EXCEPT !.phase = phase, !.kind = "context", !.base = n,
             !.fields = fields, !.over = over, !.loaded = process, !.snapshot = n]
  OBVIOUS
<1>5. req' = [req EXCEPT ![h] = q]
  BY <1>2, <1>3, <1>4
<1>6. process \in Nat \cup {None} /\ n \in Nat /\ fields \in Entries
  <2>1. snapshots[n] \in Snapshots /\ n \in 1..made /\ made \in Nat
    BY DEF Inv, Typed
  <2> QED
    BY <1>3, <2>1 DEF Inv, Typed, Snapshots
<1>7. q \in Work
  BY <1>4, <1>6, IdleType DEF Work, Phases
<1>8. /\ q.phase \in {"ask", "resolve"} /\ q.kind = "context" /\ q.loaded = process
      /\ q.items = << >> /\ q.base = n /\ q.snapshot = n /\ q.version = 0 /\ q.fields = fields
  BY <1>4 DEF Idle
<1>9. Reading(q) /\ Refreshing(q)' /\ Fresh(q)
  BY <1>1, <1>3, <1>8 DEF Reading, Refreshing, Fresh
<1>10. made' \in Nat /\ made <= made'
  BY <1>1 DEF Inv, Typed
<1> QED
  BY <1>1, <1>5, <1>7, <1>9, <1>10, HandlerStep

\* Without an answer a context keeps what it has read.
LEMMA UnansweredStep ==
  ASSUME Inv, NEW h \in Handlers, Unanswered(h)
  PROVE  Inv'
<1>1. PICK r : r = req[h]
  OBVIOUS
<1>2. PICK q : q = [r EXCEPT !.phase = "resolve", !.version = 0, !.items = << >>, !.stated = 0]
  OBVIOUS
<1>3. /\ r.kind = "context" /\ r.phase \in {"ask", "items"} /\ req' = [req EXCEPT ![h] = q]
      /\ UNCHANGED <<portal, process, snapshots, made, contexts, given, raced, backdated>>
  BY <1>1, <1>2 DEF Unanswered, Set
<1>4. r \in Work /\ Reading(r) /\ Refreshing(r) /\ Fresh(r)
  BY <1>1 DEF Inv, Typed
<1>5. q \in Work
  BY <1>2, <1>4, EmptySeq DEF Work, Phases
<1>6. /\ q.phase = "resolve" /\ q.version = 0
      /\ q.kind = r.kind /\ q.base = r.base /\ q.snapshot = r.snapshot
      /\ q.loaded = r.loaded /\ q.late = r.late /\ q.fields = r.fields
  BY <1>2, <1>4 DEF Work
<1>7. Reading(q)
  BY <1>3, <1>4, <1>6 DEF Reading
<1>8. Refreshing(q)'
  BY <1>3, <1>4, <1>6 DEF Refreshing
<1>9. Fresh(q)
  BY <1>3, <1>4, <1>6 DEF Fresh, Refreshing
<1>10. made' \in Nat /\ made <= made'
  BY <1>3 DEF Inv, Typed
<1> QED
  BY <1>3, <1>5, <1>7, <1>8, <1>9, <1>10, HandlerStep

\* The process is locked for what the handler has.
LEMMA LockProcessStep ==
  ASSUME Inv, NEW h \in Handlers, LockProcess(h)
  PROVE  Inv'
<1>1. PICK r : r = req[h]
  OBVIOUS
<1>2. PICK q : q = [r EXCEPT !.phase = "resolve"]
  OBVIOUS
<1>3. /\ r.phase = "refreshed" /\ req' = [req EXCEPT ![h] = q]
      /\ UNCHANGED <<portal, process, snapshots, made, contexts, given, raced, backdated>>
  BY <1>1, <1>2 DEF LockProcess, Set
<1>4. r \in Work /\ Reading(r) /\ Refreshing(r) /\ Fresh(r)
  BY <1>1 DEF Inv, Typed
<1>5. q \in Work
  BY <1>2, <1>4 DEF Work, Phases
<1>6. /\ q.phase = "resolve" /\ q.version = r.version /\ q.content = r.content
      /\ q.kind = r.kind /\ q.base = r.base /\ q.snapshot = r.snapshot
      /\ q.loaded = r.loaded /\ q.late = r.late /\ q.fields = r.fields
  BY <1>2, <1>4 DEF Work
<1>7. Reading(q)
  BY <1>3, <1>4, <1>6 DEF Reading
<1>8. Refreshing(q)'
  BY <1>3, <1>4, <1>6 DEF Refreshing, Complete
<1>9. Fresh(q)
  BY <1>3, <1>4, <1>6 DEF Fresh
<1>10. made' \in Nat /\ made <= made'
  BY <1>3 DEF Inv, Typed
<1> QED
  BY <1>3, <1>5, <1>7, <1>8, <1>9, <1>10, HandlerStep

\* A whole answer is a new snapshot if it differs from the one it refreshes.
LEMMA RefreshStep ==
  ASSUME Inv, NEW h \in Handlers, Refresh(h)
  PROVE  Inv'
<1>1. PICK r : r = req[h]
  OBVIOUS
<1>2. /\ r.phase = "read" /\ r.kind = "context"
      /\ UNCHANGED <<portal, process, snapshots, contexts, given, raced, backdated>>
  BY <1>1 DEF Refresh
<1>3. r \in Work /\ Reading(r) /\ Refreshing(r) /\ Fresh(r)
  BY <1>1 DEF Inv, Typed
<1>4. made \in Nat /\ DOMAIN snapshots \subseteq 1..made
  BY DEF Inv, Typed
<1>5. PICK enriched \in BOOLEAN :
        IF IsNew(Content(r.version, r.items, enriched), r.base)
        THEN /\ made' = made + 1
             /\ req' = [req EXCEPT ![h] =
                  [r EXCEPT !.phase = "refreshed", !.items = << >>, !.snapshot = made',
                            !.content = Content(r.version, r.items, enriched)]]
        ELSE /\ req' = [req EXCEPT ![h] =
                  [r EXCEPT !.phase = "refreshed", !.items = << >>,
                            !.content = snapshots[r.base].content]]
             /\ made' = made
  BY <1>1 DEF Refresh, Set
<1>6. PICK new, old, next : /\ new = Content(r.version, r.items, enriched)
                            /\ old = snapshots[r.base].content /\ next = made'
  OBVIOUS
<1>7. /\ r.base \in DOMAIN snapshots /\ r.base \in Nat /\ r.snapshot = r.base
      /\ r.version \in 1..Len(portal) /\ r.version # 0
      /\ new \in Contents /\ new.version = r.version /\ Complete(new) /\ old \in Contents
  <2>1. r.base \in DOMAIN snapshots /\ r.snapshot = r.base
    BY <1>2, <1>3 DEF Refreshing
  <2>2. snapshots[r.base] \in Snapshots
    BY <2>1 DEF Inv, Typed
  <2>3. r.version \in 1..Len(portal) /\ r.version \in Nat /\ r.items \in Seq(Nat)
    BY <1>2, <1>3 DEF Reading, Work
  <2>4. new \in Contents /\ new.version = r.version /\ new.items = r.items
    BY <1>6, <2>3 DEF Content, Contents
  <2>5. Complete(new)
    <3>1. portal[r.version] \in Duimps
      BY <2>3, ElementOfSeq DEF Inv, Typed
    <3>2. portal[r.version].stated > 0 => portal[r.version].stated = portal[r.version].items
      BY <3>1, DuimpSnapshotsAssumption
    <3> QED
      BY <1>2, <1>3, <2>3, <2>4, <3>2 DEF Complete, Reading
  <2> QED
    BY <1>4, <1>6, <2>1, <2>2, <2>3, <2>4, <2>5 DEF Snapshots
<1>8. CASE new # old
  <2>1. PICK q : q = [r EXCEPT !.phase = "refreshed", !.items = << >>, !.snapshot = next,
                               !.content = new]
    OBVIOUS
  <2>2. next = made + 1 /\ next = made' /\ req' = [req EXCEPT ![h] = q]
    BY <1>5, <1>6, <1>8, <2>1 DEF IsNew
  <2>3. next \in Nat /\ next \in 1..next /\ \A m \in DOMAIN snapshots : m < next
    BY <1>4, <2>2
  <2>4. q \in Work
    BY <1>3, <1>7, <2>1, <2>3, EmptySeq DEF Work, Phases
  <2>5. /\ q.phase = "refreshed" /\ q.version = r.version /\ q.content = new
        /\ q.kind = r.kind /\ q.base = r.base /\ q.snapshot = next
        /\ q.loaded = r.loaded /\ q.late = r.late /\ q.fields = r.fields
    BY <1>3, <2>1 DEF Work
  <2>6. Reading(q)
    BY <1>2, <2>5 DEF Reading
  <2>7. Refreshing(q)'
    BY <1>2, <1>7, <2>2, <2>3, <2>5 DEF Refreshing, Complete
  <2>8. Fresh(q)
    <3>1. q.snapshot # q.base
      BY <1>4, <1>7, <2>3, <2>5
    <3> QED
      BY <1>2, <1>3, <1>6, <1>8, <2>3, <2>5, <3>1 DEF Fresh
  <2>9. made' \in Nat /\ made <= made'
    BY <1>4, <2>2
  <2> QED
    BY <1>2, <2>2, <2>4, <2>6, <2>7, <2>8, <2>9, HandlerStep
<1>9. CASE new = old
  <2>1. PICK q : q = [r EXCEPT !.phase = "refreshed", !.items = << >>, !.content = old]
    OBVIOUS
  <2>2. made' = made /\ req' = [req EXCEPT ![h] = q]
    BY <1>5, <1>6, <1>9, <2>1 DEF IsNew
  <2>3. q \in Work
    BY <1>3, <1>7, <2>1, EmptySeq DEF Work, Phases
  <2>4. /\ q.phase = "refreshed" /\ q.version = r.version
        /\ q.kind = r.kind /\ q.base = r.base /\ q.snapshot = r.base
        /\ q.loaded = r.loaded /\ q.late = r.late /\ q.fields = r.fields
    BY <1>3, <1>7, <2>1 DEF Work
  <2>5. Reading(q)
    BY <1>2, <2>4 DEF Reading
  <2>6. Refreshing(q)'
    BY <1>2, <1>7, <2>4 DEF Refreshing
  <2>7. Fresh(q)
    BY <1>2, <1>3, <1>6, <1>7, <1>9, <2>4 DEF Fresh
  <2>8. made' \in Nat /\ made <= made'
    BY <1>4, <2>2
  <2> QED
    BY <1>2, <2>2, <2>3, <2>5, <2>6, <2>7, <2>8, HandlerStep
<1> QED
  BY <1>8, <1>9

-----------------------------------------------------------------------------
(* Commits *)

\* Snapshot n is written again with the same answer, and the process keeps its
\* version or gets that of the newest snapshot.
Rewrites(n, s) ==
  /\ n \in DOMAIN snapshots
  /\ s.content = snapshots[n].content /\ s.kind = snapshots[n].kind
  /\ process' = process \/ (n = Newest /\ process' = s.content.version)

\* Snapshot n is newer than all, and the process gets its version.
Adds(n, s) ==
  /\ \A m \in DOMAIN snapshots : m < n
  /\ process' = s.content.version
  /\ s.kind = "refresh" /\ n - 1 \in DOMAIN snapshots =>
       s.content # snapshots[n - 1].content

\* Commits that continue what is there keep the properties; the other handlers
\* have missed them.
LEMMA CommitStep ==
  ASSUME Inv, NEW h \in Handlers, NEW n \in 1..made', NEW s \in Snapshots, NEW g \in Given,
         snapshots' = [m \in DOMAIN snapshots \cup {n} |-> IF m = n THEN s ELSE snapshots[m]],
         given' = [m \in DOMAIN given \cup {n} |-> IF m = n THEN g ELSE given[m]],
         portal' = portal, process' \in Nat \cup {None}, made' \in Nat, made <= made',
         req' \in [Handlers -> Work],
         \A k \in Handlers : \/ req'[k] = Idle
                             \/ req'[k] = [req[k] EXCEPT !.late = req[k].phase # "idle"],
         s.kind # "manual" => Complete(s.content),
         ~raced' => ~raced /\ \A f \in Fields : g[f] # None =>
                                s.fields[f] = Sourced(g[f], "operator"),
         ~raced' /\ ~backdated' => /\ ~raced /\ ~backdated
                                   /\ Rewrites(n, s) \/ Adds(n, s)
  PROVE  Inv'
<1>1. Typed
  BY DEF Inv
<1>2. /\ DOMAIN snapshots' = DOMAIN snapshots \cup {n} /\ DOMAIN given' = DOMAIN snapshots'
      /\ snapshots'[n] = s /\ given'[n] = g
      /\ \A m \in DOMAIN snapshots : m # n => snapshots'[m] = snapshots[m]
      /\ \A m \in DOMAIN snapshots : m # n => given'[m] = given[m]
  BY <1>1 DEF Typed
<1>3. Typed'
  <2>1. DOMAIN snapshots' \subseteq 1..made' /\ n \in Nat
    BY <1>1, <1>2 DEF Typed
  <2>2. \A m \in DOMAIN snapshots' : snapshots'[m] \in Snapshots /\ given'[m] \in Given
    BY <1>1, <1>2 DEF Typed
  <2>3. portal' \in Seq(Duimps) /\ Len(portal') > 0
    BY <1>1 DEF Typed
  <2> QED
    BY <1>2, <2>1, <2>2, <2>3 DEF Typed
<1>4. \A x : Complete(x) => Complete(x)'
  BY DEF Complete
<1>5. ASSUME NEW k \in Handlers PROVE Reading(req[k])' /\ Refreshing(req[k])' /\ Fresh(req[k])'
  <2>1. Reading(req[k]) /\ Refreshing(req[k]) /\ req[k] \in Work
    BY <1>1 DEF Inv, Typed
  <2>2. CASE req'[k] = Idle
    BY <2>2, IdleType DEF Reading, Refreshing, Fresh
  <2>3. CASE req[k].phase = "idle" /\ req'[k] = [req[k] EXCEPT !.late = req[k].phase # "idle"]
    <3>1. req[k] = Idle /\ (req[k].phase # "idle") = FALSE
      BY <2>1, <2>3 DEF Reading
    <3>2. req'[k] = [Idle EXCEPT !.late = FALSE]
      BY <2>3, <3>1
    <3>3. req'[k] = Idle
      BY ZenonT(40), <3>2 DEF Idle
    <3> QED
      BY <2>2, <3>3
  <2>4. CASE req[k].phase # "idle" /\ req'[k] = [req[k] EXCEPT !.late = req[k].phase # "idle"]
    <3>1. PICK r, q : r = req[k] /\ q = req'[k]
      OBVIOUS
    <3>2. /\ q.phase = r.phase /\ q.version = r.version /\ q.content = r.content
          /\ q.kind = r.kind /\ q.base = r.base /\ q.snapshot = r.snapshot
          /\ q.items = r.items /\ q.stated = r.stated /\ q.late = TRUE /\ r.phase # "idle"
      BY <2>1, <2>4, <3>1 DEF Work
    <3>3. Reading(q)'
      BY <2>1, <3>1, <3>2 DEF Reading
    <3>4. Refreshing(q)'
      <4>1. 1..made \subseteq 1..made'
        BY <1>1 DEF Typed
      <4> QED
        BY <1>2, <2>1, <3>1, <3>2, <4>1 DEF Refreshing, Complete
    <3>5. Fresh(q)'
      BY <3>2 DEF Fresh
    <3> QED
      BY <3>1, <3>3, <3>4, <3>5 DEF Reading, Refreshing, Fresh, Complete
  <2> QED
    BY <2>2, <2>3, <2>4
<1>6. Whole'
  <2>1. ASSUME NEW m \in DOMAIN snapshots', snapshots'[m].kind # "manual"
        PROVE  Complete(snapshots'[m].content)
    BY <1>2, <2>1 DEF Inv, Whole
  <2> QED
    BY <2>1 DEF Whole, Complete
<1>7. OverridesStand'
  <2>1. ASSUME ~raced', NEW m \in DOMAIN snapshots', NEW f \in Fields, given'[m][f] # None
        PROVE  snapshots'[m].fields[f] = Sourced(given'[m][f], "operator")
    <3>1. CASE m = n
      BY <1>2, <2>1, <3>1
    <3>2. CASE m # n
      BY <1>2, <2>1, <3>2 DEF Inv, OverridesStand
    <3> QED
      BY <3>1, <3>2
  <2> QED
    BY <2>1 DEF OverridesStand, Sourced
<1>8. ASSUME ~raced', ~backdated'
      PROVE  /\ process' = snapshots'[Max(DOMAIN snapshots' \cup {0})].content.version
             /\ \A m \in DOMAIN snapshots' :
                  m > 1 /\ m - 1 \in DOMAIN snapshots' /\ snapshots'[m].kind = "refresh" =>
                    snapshots'[m].content # snapshots'[m - 1].content
  <2>1. ~raced /\ ~backdated /\ (Rewrites(n, s) \/ Adds(n, s))
    BY <1>8
  <2>2. /\ snapshots # << >> => process = snapshots[Newest].content.version
        /\ \A m \in DOMAIN snapshots :
             m > 1 /\ m - 1 \in DOMAIN snapshots /\ snapshots[m].kind = "refresh" =>
               snapshots[m].content # snapshots[m - 1].content
    BY <2>1 DEF Inv, ProcessFollowsSnapshot, TwinsAreRaces
  <2>3. DOMAIN snapshots \subseteq Nat /\ n \in Nat
    BY <1>1 DEF Typed
  <2>4. CASE Rewrites(n, s)
    <3>1. DOMAIN snapshots' = DOMAIN snapshots /\ snapshots # << >>
      <4>1. n \in DOMAIN snapshots
        BY <2>4 DEF Rewrites
      <4>2. DOMAIN << >> = {}
        OBVIOUS
      <4> QED
        BY <1>2, <4>1, <4>2
    <3>2. \A m \in DOMAIN snapshots : /\ snapshots'[m].content = snapshots[m].content
                                      /\ snapshots'[m].kind = snapshots[m].kind
      BY <1>2, <2>4 DEF Rewrites
    <3>3. Newest \in DOMAIN snapshots
      <4>1. DOMAIN snapshots \cup {0} \in SUBSET (0..made) /\ made \in Nat
        BY <1>1 DEF Typed
      <4>2. /\ Newest \in DOMAIN snapshots \cup {0}
            /\ \A k \in DOMAIN snapshots \cup {0} : k <= Newest
        BY <4>1, MaxOfBounded DEF Newest
      <4>3. n <= Newest /\ n \in 1..made
        BY <1>1, <2>4, <4>2 DEF Typed, Rewrites
      <4> QED
        BY <4>2, <4>3
    <3>4. process' = snapshots'[Newest].content.version
      BY <1>2, <2>2, <2>4, <3>1, <3>2, <3>3 DEF Rewrites
    <3>5. Max(DOMAIN snapshots' \cup {0}) = Newest
      BY <3>1 DEF Newest
    <3>6. \A m \in DOMAIN snapshots' :
            m > 1 /\ m - 1 \in DOMAIN snapshots' /\ snapshots'[m].kind = "refresh" =>
              snapshots'[m].content # snapshots'[m - 1].content
      BY <2>2, <3>1, <3>2
    <3> QED
      BY <3>4, <3>5, <3>6
  <2>5. CASE Adds(n, s)
    <3>1. \A m \in DOMAIN snapshots : m < n /\ m # n /\ m \in Nat
      BY <2>3, <2>5 DEF Adds
    <3>2. DOMAIN snapshots' \cup {0} \in SUBSET Nat /\ n \in DOMAIN snapshots' \cup {0}
          /\ \A m \in DOMAIN snapshots' \cup {0} : m <= n
      BY <1>2, <2>3, <3>1
    <3>3. Max(DOMAIN snapshots' \cup {0}) = n
      BY <3>2, MaxIs
    <3>4. process' = snapshots'[n].content.version
      BY <1>2, <2>5 DEF Adds
    <3>5. ASSUME NEW m \in DOMAIN snapshots', m > 1, m - 1 \in DOMAIN snapshots',
                 snapshots'[m].kind = "refresh"
          PROVE  snapshots'[m].content # snapshots'[m - 1].content
      <4>1. CASE m = n
        <5>1. m - 1 # n /\ m - 1 \in DOMAIN snapshots
          BY <1>2, <2>3, <3>5, <4>1
        <5> QED
          BY <1>2, <2>5, <3>5, <4>1, <5>1 DEF Adds
      <4>2. CASE m # n
        <5>1. m \in DOMAIN snapshots /\ m < n
          BY <1>2, <3>1, <3>5, <4>2
        <5>2. m - 1 # n /\ m - 1 \in DOMAIN snapshots
          BY <1>2, <2>3, <3>1, <3>5, <5>1
        <5> QED
          BY <1>2, <2>2, <3>5, <4>2, <5>1, <5>2
      <4> QED
        BY <4>1, <4>2
    <3> QED
      BY <3>3, <3>4, <3>5
  <2> QED
    BY <2>1, <2>4, <2>5
<1>9. ProcessFollowsSnapshot' /\ TwinsAreRaces'
  BY <1>8 DEF ProcessFollowsSnapshot, TwinsAreRaces, Newest
<1> QED
  BY <1>3, <1>5, <1>6, <1>7, <1>9 DEF Inv

\* Requests after a commit are typed.
LEMMA CommitWork ==
  ASSUME Inv, NEW h \in Handlers,
         req' = [k \in Handlers |-> IF k = h THEN Idle
                                    ELSE [req[k] EXCEPT !.late = req[k].phase # "idle"]]
  PROVE  /\ req' \in [Handlers -> Work]
         /\ \A k \in Handlers : \/ req'[k] = Idle
                                \/ req'[k] = [req[k] EXCEPT !.late = req[k].phase # "idle"]
<1>1. ASSUME NEW k \in Handlers
      PROVE  [req[k] EXCEPT !.late = req[k].phase # "idle"] \in Work
  <2>1. req[k] \in Work /\ (req[k].phase # "idle") \in BOOLEAN
    BY DEF Inv, Typed
  <2> QED
    BY <2>1 DEF Work
<1> QED
  BY <1>1, IdleType

\* The normalised fields of a version.
LEMMA NormalizedType ==
  ASSUME Inv, NEW v \in 1..Len(portal)
  PROVE  Normalized(v) \in Entries
<1>1. portal[v] \in Duimps
  BY ElementOfSeq DEF Inv, Typed
<1>2. portal[v].fields \in [Fields -> Values \cup {None}]
  BY <1>1, DuimpSnapshotsAssumption
<1> QED
  BY <1>2 DEF Normalized, Entries, Sourced

\* A fetch commits a new snapshot that no operator has touched.
LEMMA CommitFetchStep ==
  ASSUME Inv, NEW h \in Handlers, CommitFetch(h)
  PROVE  Inv'
<1>1. PICK r, n : r = req[h] /\ n = made + 1
  OBVIOUS
<1>2. /\ r.phase = "read" /\ r.kind = "fetch" /\ made' = n
      /\ given' = [m \in DOMAIN given \cup {n} |-> IF m = n THEN Blank ELSE given[m]]
      /\ portal' = portal /\ backdated' = backdated
  BY <1>1 DEF CommitFetch
<1>3. PICK enriched \in BOOLEAN :
        Commit(h, n, [content |-> Content(r.version, r.items, enriched),
                      fields |-> Normalized(r.version), kind |-> "fetch"], r.version)
  BY <1>1 DEF CommitFetch
<1>4. PICK s : s = [content |-> Content(r.version, r.items, enriched),
                    fields |-> Normalized(r.version), kind |-> "fetch"]
  OBVIOUS
<1>5. /\ snapshots' = [m \in DOMAIN snapshots \cup {n} |-> IF m = n THEN s ELSE snapshots[m]]
      /\ process' = IF r.version = r.loaded THEN process ELSE r.version
      /\ raced' = (raced \/ r.late)
      /\ req' = [k \in Handlers |-> IF k = h THEN Idle
                                    ELSE [req[k] EXCEPT !.late = req[k].phase # "idle"]]
  BY <1>1, <1>3, <1>4 DEF Commit
<1>6. r \in Work /\ Reading(r) /\ Fresh(r) /\ made \in Nat /\ DOMAIN snapshots \subseteq 1..made
  BY <1>1 DEF Inv, Typed
<1>7. r.version \in 1..Len(portal) /\ r.version \in Nat /\ r.items \in Seq(Nat)
  BY <1>2, <1>6 DEF Reading, Work
<1>8. Normalized(r.version) \in Entries
  BY <1>7, NormalizedType
<1>9. PICK c : c = Content(r.version, r.items, enriched)
  OBVIOUS
<1>10. c \in Contents /\ c.version = r.version /\ c.items = r.items
  BY <1>7, <1>9 DEF Content, Contents
<1>11. s \in Snapshots /\ s.content = c /\ s.kind = "fetch"
  BY <1>4, <1>8, <1>9, <1>10 DEF Snapshots
<1>12. Complete(s.content)
  <2>1. portal[r.version] \in Duimps
    BY <1>7, ElementOfSeq DEF Inv, Typed
  <2>2. portal[r.version].stated > 0 => portal[r.version].stated = portal[r.version].items
    BY <2>1, DuimpSnapshotsAssumption
  <2> QED
    BY <1>2, <1>6, <1>7, <1>10, <1>11, <2>2 DEF Complete, Reading
<1>13. n \in 1..made' /\ made' \in Nat /\ made <= made' /\ \A m \in DOMAIN snapshots : m < n
  BY <1>1, <1>2, <1>6
<1>14. process' \in Nat \cup {None}
  BY <1>5, <1>7 DEF Inv, Typed
<1>15. /\ req' \in [Handlers -> Work]
       /\ \A k \in Handlers : \/ req'[k] = Idle
                              \/ req'[k] = [req[k] EXCEPT !.late = req[k].phase # "idle"]
  BY <1>5, CommitWork
<1>16. ~raced' => ~raced /\ \A f \in Fields : Blank[f] # None =>
                              s.fields[f] = Sourced(Blank[f], "operator")
  BY <1>5 DEF Blank
<1>17. ASSUME ~raced', ~backdated' PROVE ~raced /\ ~backdated /\ Adds(n, s)
  <2>1. ~raced /\ ~r.late /\ ~backdated
    BY <1>2, <1>5, <1>17
  <2>2. process' = r.version
    BY <1>2, <1>5, <1>6, <2>1 DEF Fresh
  <2> QED
    BY <1>10, <1>11, <1>13, <2>1, <2>2 DEF Adds
<1> QED
  BY <1>2, <1>5, <1>11, <1>12, <1>13, <1>14, <1>15, <1>16, <1>17, IdleType, CommitStep

\* What is typed by hand is a new snapshot, and the process has no version then.
LEMMA ManualStep ==
  ASSUME Inv, NEW h \in Handlers, Manual(h)
  PROVE  Inv'
<1>1. PICK r, n : r = req[h] /\ n = made + 1
  OBVIOUS
<1>2. /\ r.phase = "loaded" /\ made' = n /\ portal' = portal /\ backdated' = backdated
      /\ given' = [m \in DOMAIN given \cup {n} |-> IF m = n THEN Blank ELSE given[m]]
  BY <1>1 DEF Manual
<1>3. PICK d \in Duimps :
        Commit(h, n, [content |-> Content(0, [i \in 1..d.items |-> i], FALSE), kind |-> "manual",
                      fields |-> [f \in Fields |-> Sourced(d.fields[f], "duimp")]], 0)
  BY <1>1 DEF Manual
<1>4. made \in Nat /\ DOMAIN snapshots \subseteq 1..made /\ r \in Work /\ Fresh(r)
  BY <1>1 DEF Inv, Typed
<1>5. d.items \in Nat /\ d.fields \in [Fields -> Values \cup {None}]
  BY DuimpSnapshotsAssumption
<1>6. PICK c, s :
        /\ c = Content(0, [i \in 1..d.items |-> i], FALSE)
        /\ s = [content |-> Content(0, [i \in 1..d.items |-> i], FALSE), kind |-> "manual",
                fields |-> [f \in Fields |-> Sourced(d.fields[f], "duimp")]]
  OBVIOUS
<1>7. c \in Contents /\ c.version = 0
  <2>1. [i \in 1..d.items |-> i] \in [1..d.items -> Nat]
    OBVIOUS
  <2>2. [i \in 1..d.items |-> i] \in Seq(Nat)
    BY <1>5, <2>1
  <2> QED
    BY <1>6, <2>2 DEF Content, Contents
<1>8. [f \in Fields |-> Sourced(d.fields[f], "duimp")] \in Entries
  BY <1>5 DEF Entries, Sourced
<1>9. s \in Snapshots /\ s.content = c /\ s.kind = "manual"
  BY <1>6, <1>7, <1>8 DEF Snapshots
<1>10. n \in 1..made' /\ made' \in Nat /\ made <= made' /\ \A m \in DOMAIN snapshots : m < n
  BY <1>1, <1>2, <1>4
<1>11. /\ snapshots' = [m \in DOMAIN snapshots \cup {n} |-> IF m = n THEN s ELSE snapshots[m]]
       /\ process' = IF 0 = r.loaded THEN process ELSE 0
       /\ raced' = (raced \/ r.late)
       /\ req' = [k \in Handlers |-> IF k = h THEN Idle
                                     ELSE [req[k] EXCEPT !.late = req[k].phase # "idle"]]
  BY <1>1, <1>3, <1>6 DEF Commit
<1>12. /\ req' \in [Handlers -> Work]
       /\ \A k \in Handlers : \/ req'[k] = Idle
                              \/ req'[k] = [req[k] EXCEPT !.late = req[k].phase # "idle"]
  BY <1>11, CommitWork
<1>13. ~raced' => ~raced /\ \A f \in Fields : Blank[f] # None =>
                              s.fields[f] = Sourced(Blank[f], "operator")
  BY <1>11 DEF Blank
<1>14. ASSUME ~raced', ~backdated' PROVE ~raced /\ ~backdated /\ Adds(n, s)
  <2>1. ~raced /\ ~r.late /\ ~backdated
    BY <1>2, <1>11, <1>14
  <2>2. process' = 0
    BY <1>2, <1>4, <1>11, <2>1 DEF Fresh
  <2> QED
    BY <1>7, <1>9, <1>10, <2>1, <2>2 DEF Adds
<1>15. process' \in Nat \cup {None}
  BY <1>11 DEF Inv, Typed
<1> QED
  BY <1>2, <1>9, <1>10, <1>11, <1>12, <1>13, <1>14, <1>15, IdleType, CommitStep

\* What a context resolves for a field is what an operator gives, if anything.
LEMMA ResolvedIs ==
  ASSUME NEW fields \in Entries, NEW external \in Given, NEW over \in Given
  PROVE  /\ Resolved(fields, external, over) \in Entries
         /\ \A f \in Fields : over[f] # None =>
              Resolved(fields, external, over)[f] = Sourced(over[f], "operator")
<1>1. ASSUME NEW f \in Fields
      PROVE  Resolved(fields, external, over)[f]
               \in {None} \cup [value : Values, by : {"duimp", "external", "operator"}]
  <2>1. over[f] \in Values \cup {None} /\ external[f] \in Values \cup {None}
    BY DEF Given
  <2>2. fields[f] \in {None} \cup [value : Values, by : {"duimp", "external", "operator"}]
    BY DEF Entries
  <2>3. Sourced(over[f], "operator")
          \in {None} \cup [value : Values, by : {"duimp", "external", "operator"}]
    BY <2>1 DEF Sourced
  <2>4. Sourced(external[f], "external")
          \in {None} \cup [value : Values, by : {"duimp", "external", "operator"}]
    BY <2>1 DEF Sourced
  <2> QED
    BY <2>2, <2>3, <2>4 DEF Resolved
<1>2. Resolved(fields, external, over) \in Entries
  BY <1>1 DEF Resolved, Entries
<1> QED
  BY <1>2 DEF Resolved

\* What an operator gave for a field is preserved.
LEMMA PreservedIs ==
  ASSUME NEW fields \in Entries
  PROVE  /\ Preserved(fields) \in Given
         /\ \A f \in Fields, v \in Values :
              fields[f] = Sourced(v, "operator") => Preserved(fields)[f] = v
<1>1. ASSUME NEW f \in Fields PROVE Preserved(fields)[f] \in Values \cup {None}
  BY DEF Preserved, Entries
<1>2. ASSUME NEW f \in Fields, NEW v \in Values, fields[f] = Sourced(v, "operator")
      PROVE  Preserved(fields)[f] = v
  <2>1. v # None
    BY DuimpSnapshotsAssumption
  <2>2. fields[f] = [value |-> v, by |-> "operator"]
    BY <1>2, <2>1 DEF Sourced
  <2>3. fields[f] # None /\ fields[f].by = "operator" /\ fields[f].value = v
    BY <2>2, NoneAssumption
  <2> QED
    BY <2>3 DEF Preserved
<1>3. Preserved(fields) \in Given
  BY <1>1 DEF Preserved, Given
<1> QED
  BY <1>2, <1>3

\* A context commits its snapshot with what operators gave for its fields: the one
\* it read again, or a newer one with another answer of the Portal.
LEMMA CommitContextStep ==
  ASSUME Inv, NEW h \in Handlers, CommitContext(h)
  PROVE  Inv'
<1>1. PICK r : r = req[h]
  OBVIOUS
<1>2. PICK n, old, preserved, over, fields :
        /\ n = r.snapshot /\ old = snapshots[r.base] /\ preserved = Preserved(r.fields)
        /\ over = [f \in Fields |-> IF r.over[f] # None THEN r.over[f] ELSE preserved[f]]
        /\ fields = IF r.version = 0 THEN r.fields ELSE Normalized(r.version)
  OBVIOUS
<1>3. /\ r.phase = "resolve" /\ portal' = portal /\ made' = made
      /\ given' = [m \in DOMAIN given \cup {n} |->
                     IF m = n
                     THEN [f \in Fields |-> IF r.over[f] # None THEN r.over[f]
                                            ELSE given[r.base][f]]
                     ELSE given[m]]
      /\ backdated' = (backdated \/ (r.version # 0 /\ r.base # Newest))
  BY <1>1, <1>2 DEF CommitContext
<1>4. PICK external \in {Blank} \cup {[f \in Fields |-> v] : v \in Values} :
        LET new == Resolved(fields, external, over) IN
        Commit(h, n, IF n # r.base
                     THEN [content |-> r.content, fields |-> new, kind |-> "refresh"]
                     ELSE [old EXCEPT !.fields = IF new = r.fields THEN @ ELSE new],
               VersionOf(r))
  BY <1>1, <1>2 DEF CommitContext
<1>5. PICK new : new = Resolved(fields, external, over)
  OBVIOUS
<1>6. PICK s : s = IF n # r.base
                   THEN [content |-> r.content, fields |-> new, kind |-> "refresh"]
                   ELSE [old EXCEPT !.fields = IF new = r.fields THEN @ ELSE new]
  OBVIOUS
<1>7. PICK g : g = [f \in Fields |-> IF r.over[f] # None THEN r.over[f]
                                     ELSE given[r.base][f]]
  OBVIOUS
<1>8. /\ snapshots' = [m \in DOMAIN snapshots \cup {n} |-> IF m = n THEN s ELSE snapshots[m]]
      /\ process' = IF VersionOf(r) = r.loaded THEN process ELSE VersionOf(r)
      /\ raced' = (raced \/ r.late)
      /\ req' = [k \in Handlers |-> IF k = h THEN Idle
                                    ELSE [req[k] EXCEPT !.late = req[k].phase # "idle"]]
  BY <1>1, <1>4, <1>5, <1>6 DEF Commit
<1>9. given' = [m \in DOMAIN given \cup {n} |-> IF m = n THEN g ELSE given[m]]
  BY <1>3, <1>7
<1>10. r \in Work /\ Reading(r) /\ Refreshing(r) /\ Fresh(r) /\ r.kind = "context"
  BY <1>1, <1>3 DEF Inv, Typed, Reading
<1>11. r.base \in DOMAIN snapshots /\ old \in Snapshots /\ given[r.base] \in Given
       /\ r.base \in 1..made /\ made \in Nat
  BY <1>2, <1>10 DEF Refreshing, Inv, Typed
<1>12. fields \in Entries /\ external \in Given
  <2>1. r.version # 0 => r.version \in 1..Len(portal)
    BY <1>10 DEF Refreshing
  <2>2. r.fields \in Entries
    BY <1>10 DEF Work
  <2>3. external \in Given
    BY IdleType DEF Given
  <2> QED
    BY <1>2, <2>1, <2>2, <2>3, NormalizedType
<1>13. r.fields \in Entries /\ r.over \in Given /\ preserved \in Given
  BY <1>2, <1>10, PreservedIs DEF Work
<1>14. /\ over \in Given /\ new \in Entries
       /\ \A f \in Fields : over[f] # None => new[f] = Sourced(over[f], "operator")
  <2>1. over \in Given
    BY <1>2, <1>13 DEF Given
  <2> QED
    BY <1>5, <1>12, <2>1, ResolvedIs
<1>15. ASSUME n # r.base
       PROVE  /\ n \in 1..made /\ s \in Snapshots /\ s.fields = new
              /\ s.kind # "manual" => Complete(s.content)
              /\ ~raced' /\ ~backdated' => ~raced /\ ~backdated /\ Adds(n, s)
  <2>1. s = [content |-> r.content, fields |-> new, kind |-> "refresh"]
    BY <1>6, <1>15
  <2>2. /\ r.version # 0 /\ n \in 1..made
        /\ r.content \in Contents /\ r.content.version = r.version /\ Complete(r.content)
    BY <1>2, <1>10, <1>15 DEF Refreshing
  <2>3. s.content = r.content /\ s.fields = new /\ s.kind = "refresh" /\ s \in Snapshots
    BY <1>14, <2>1, <2>2 DEF Snapshots
  <2>4. ASSUME ~raced', ~backdated' PROVE ~raced /\ ~backdated /\ Adds(n, s)
    <3>1. ~raced /\ ~r.late /\ ~backdated /\ r.base = Newest
      BY <1>3, <1>8, <2>2, <2>4
    <3>2. /\ r.loaded = process /\ r.content # snapshots[r.base].content
          /\ \A m \in DOMAIN snapshots : m < n
      BY <1>2, <1>3, <1>10, <1>15, <3>1 DEF Fresh
    <3>3. process' = r.version
      BY <1>8, <2>2, <3>2 DEF VersionOf
    <3>4. n - 1 \in DOMAIN snapshots => n - 1 = r.base
      <4>1. DOMAIN snapshots \cup {0} \in SUBSET (0..made)
        BY <1>11 DEF Inv, Typed
      <4>2. /\ Newest \in 0..made
            /\ \A k \in DOMAIN snapshots \cup {0} : k <= Newest
        BY <1>11, <4>1, MaxOfBounded DEF Newest
      <4>3. r.base < n /\ r.base \in Nat /\ n \in Nat
        BY <1>11, <2>2, <3>2
      <4> QED
        BY <3>1, <4>2, <4>3
    <3> QED
      BY <2>2, <2>3, <3>1, <3>2, <3>3, <3>4 DEF Adds
  <2> QED
    BY <2>2, <2>3, <2>4
<1>16. ASSUME n = r.base
       PROVE  /\ n \in 1..made /\ s \in Snapshots /\ (~raced' => s.fields = new)
              /\ s.kind # "manual" => Complete(s.content)
              /\ ~raced' /\ ~backdated' => ~raced /\ ~backdated /\ Rewrites(n, s)
  <2>1. PICK kept : kept = IF new = r.fields THEN old.fields ELSE new
    OBVIOUS
  <2>2. s = [old EXCEPT !.fields = kept]
    BY <1>6, <1>16, <2>1
  <2>3. kept \in Entries
    BY <1>11, <1>14, <2>1 DEF Snapshots
  <2>4. /\ s \in Snapshots /\ s.content = old.content /\ s.kind = old.kind /\ s.fields = kept
    BY <1>11, <2>2, <2>3 DEF Snapshots
  <2>5. s.kind # "manual" => Complete(s.content)
    BY <1>2, <1>11, <2>4 DEF Inv, Whole
  <2>6. ~raced' => r.fields = old.fields /\ r.loaded = process
    BY <1>2, <1>3, <1>8, <1>10 DEF Fresh
  <2>7. ASSUME ~raced', ~backdated' PROVE ~raced /\ ~backdated /\ Rewrites(n, s)
    <3>1. ~raced /\ ~r.late /\ ~backdated /\ (r.version # 0 => r.base = Newest)
      BY <1>3, <1>8, <2>7
    <3>2. CASE r.version = 0
      BY <1>2, <1>8, <1>11, <1>16, <2>4, <2>6, <2>7, <3>1, <3>2 DEF Rewrites, VersionOf
    <3>3. CASE r.version # 0
      <4>1. old.content.version = r.version
        BY <1>2, <1>3, <1>10, <1>16, <3>1, <3>3 DEF Fresh
      <4>2. process' = r.version
        BY <1>8, <2>6, <2>7, <3>3 DEF VersionOf
      <4> QED
        BY <1>2, <1>11, <1>16, <2>4, <3>1, <3>3, <4>1, <4>2 DEF Rewrites
    <3> QED
      BY <3>2, <3>3
  <2> QED
    BY <1>11, <1>16, <2>1, <2>4, <2>5, <2>6, <2>7
<1>17. /\ n \in 1..made /\ s \in Snapshots /\ (~raced' => s.fields = new)
       /\ s.kind # "manual" => Complete(s.content)
       /\ ~raced' /\ ~backdated' => ~raced /\ ~backdated /\ (Rewrites(n, s) \/ Adds(n, s))
  BY <1>15, <1>16
<1>18. g \in Given
  BY <1>7, <1>11, <1>13 DEF Given
<1>19. ASSUME ~raced'
       PROVE  ~raced /\ \A f \in Fields : g[f] # None =>
                          s.fields[f] = Sourced(g[f], "operator")
  <2>1. ~raced /\ r.fields = old.fields /\ s.fields = new
    BY <1>2, <1>3, <1>8, <1>10, <1>17, <1>19 DEF Fresh
  <2>2. ASSUME NEW f \in Fields, g[f] # None PROVE over[f] = g[f]
    <3>1. CASE r.over[f] # None
      BY <1>2, <1>7, <3>1
    <3>2. CASE r.over[f] = None
      <4>1. g[f] = given[r.base][f] /\ given[r.base][f] \in Values
        BY <1>7, <1>11, <2>2, <3>2 DEF Given
      <4>2. r.fields[f] = Sourced(given[r.base][f], "operator")
        BY <1>2, <1>11, <2>1, <2>2, <4>1 DEF Inv, OverridesStand
      <4>3. preserved[f] = g[f]
        BY <1>2, <1>13, <4>1, <4>2, PreservedIs
      <4> QED
        BY <1>2, <3>2, <4>3
    <3> QED
      BY <3>1, <3>2
  <2> QED
    BY <1>14, <2>1, <2>2
<1>20. process' \in Nat \cup {None}
  <2>1. r.version \in Nat /\ r.loaded \in Nat \cup {None} /\ process \in Nat \cup {None}
    BY <1>10 DEF Inv, Typed, Work
  <2> QED
    BY <1>8, <2>1 DEF VersionOf
<1>21. n \in 1..made' /\ made' \in Nat /\ made <= made'
  BY <1>3, <1>11, <1>17
<1>22. /\ req' \in [Handlers -> Work]
       /\ \A k \in Handlers : \/ req'[k] = Idle
                              \/ req'[k] = [req[k] EXCEPT !.late = req[k].phase # "idle"]
  BY <1>8, CommitWork
<1> QED
  BY <1>3, <1>8, <1>9, <1>17, <1>18, <1>19, <1>20, <1>21, <1>22, CommitStep

-----------------------------------------------------------------------------
(* Theorems *)

\* Every step preserves the invariant.
LEMMA NextInv == Inv /\ [Next]_vars => Inv'
<1> SUFFICES ASSUME Inv, [Next]_vars PROVE Inv'
  OBVIOUS
<1>1. CASE Register
  BY <1>1, RegisterStep
<1>2. ASSUME NEW h \in Handlers,
             \/ LoadProcess(h) \/ BeginFetch(h) \/ Ask(h) \/ ReadPage(h) \/ CommitFetch(h)
             \/ BeginContext(h) \/ Unanswered(h) \/ Refresh(h) \/ LockProcess(h)
             \/ CommitContext(h) \/ Manual(h) \/ GiveUp(h)
      PROVE  Inv'
  BY <1>2, LoadProcessStep, BeginFetchStep, AskStep, ReadPageStep, CommitFetchStep,
     BeginContextStep, UnansweredStep, RefreshStep, LockProcessStep, CommitContextStep,
     ManualStep, GiveUpStep
<1>3. CASE UNCHANGED vars
  BY <1>3 DEF vars, Inv, Typed, Whole, Complete, Reading, Refreshing, Fresh, OverridesStand,
     ProcessFollowsSnapshot, TwinsAreRaces, Newest
<1> QED
  BY <1>1, <1>2, <1>3 DEF Next

\* The invariant holds in every state.
LEMMA AlwaysInv == Spec => []Inv
BY InitInv, NextInv, PTL DEF Spec

\* A snapshot read from the Portal has every item once and in order, whatever pages
\* came and whatever was registered meanwhile (portal_unico/client.py, _fetch_items).
THEOREM ReadsAreWhole == Spec => []SnapshotsAreComplete
<1>1. Inv => SnapshotsAreComplete
  BY DEF Inv, Whole, Complete, FirstItems, SnapshotsAreComplete
<1> QED
  BY <1>1, AlwaysInv, PTL

\* What an operator gave for a field stays in its snapshot and in the refreshes of
\* it, as long as contexts do not overlap (_operator_overrides_from_normalized).
THEOREM OverridesAreKept == Spec => []OverridesStand
BY AlwaysInv, PTL DEF Inv

\* The version of the process is that of its newest snapshot, as long as requests
\* do not overlap and contexts are those of the newest snapshot.
THEOREM ProcessIsCurrent == Spec => []ProcessFollowsSnapshot
BY AlwaysInv, PTL DEF Inv

\* A refresh makes no second snapshot of one answer, as long as requests do not
\* overlap and contexts are those of the newest snapshot.
THEOREM TwinsComeFromRaces == Spec => []TwinsAreRaces
BY AlwaysInv, PTL DEF Inv
=============================================================================
