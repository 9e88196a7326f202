------------------------ MODULE DraftLifecycle_proofs ------------------------
(***************************************************************************)
(* Proofs about DraftLifecycle for any handlers and bounds.                *)
(*                                                                         *)
(* With concurrent handlers (part 1): an UPDATE names only the columns its *)
(* service method changed, and what it changed them to is never a loss, so *)
(* the committed draft keeps its gains (InFlight).  A signed version is    *)
(* unique, and every issuance past "xsd_validated" has one (Bound): that   *)
(* is the constraint a racing signer fails on.  Attempts to sign are       *)
(* counted without a gap (Attempts), so only the first of an issuance      *)
(* gives it a number and a key: DraftLifecycle implements OneSignature.    *)
(*                                                                         *)
(* While writes keep the order of their times (part 2): an XML that does   *)
(* not reflect the draft is older than it (Ordered), which is what the     *)
(* signer relies on.  What a handler computed knows its time (Timed), and  *)
(* the history variable lapses records every write that breaks the order.  *)
(***************************************************************************)
EXTENDS DraftLifecycle, SequenceTheorems, TLAPS

Columns == {"status", "number", "key", "payload", "stamp", "mode"}
Inserts == {"nothing", "xml", "valid", "invalid", "signature", "failure"}
Updates == {<< >>} \cup {Update(d, c) : d \in Drafts, c \in Drafts}
Handlers ==
  [phase : {"idle", "loaded", "done"}, op : Ops, version : {0} \cup Versions,
   xsd : {"unchecked", "valid", "invalid"}, view : Drafts \cup {<< >>},
   insert : Inserts, update : Updates, row : XmlRows, tries : Nat,
   built : Nat, sealed : SUBSET Versions]

Typed ==
  /\ draft \in Drafts
  /\ unsigned \in Seq(XmlRows) /\ Len(unsigned) <= MaxVersions
  /\ signed \in [Versions -> Keys]
  /\ issuance \in [Versions -> IssuanceRows]
  /\ lastNumber \in Numbers /\ lastNumber <= clock
  /\ clock \in Times
  /\ req \in [Requests -> Handlers]
  /\ lapses \subseteq {"order", "removal"}

\* Nothing in the draft d is later than the time t.
Past(d, t) ==
  /\ d.stamp <= t /\ d.key.drawn <= t
  /\ d.payload.rev <= t /\ d.payload.key.drawn <= t

\* The draft c that the service method of handler h computed from its copy: a
\* number or a key in it that the copy does not have is a new one.
Computed(h, c) ==
  /\ h.update = Update(h.view, c)
  /\ Past(c, clock)
  /\ c.number # h.view.number => c.number \in 1..clock
  /\ c.key # h.view.key => c.key # NoKey
  /\ c.mode # h.view.mode => c.mode # "active"
  /\ h.insert = "xml" => c.key # NoKey

\* What handler r holds, against the committed draft.
InFlight(r) ==
  LET h == req[r] IN
  /\ h.phase # "idle" =>
       /\ h.view \in Drafts /\ h.view.mode = "active" /\ Past(h.view, clock)
       /\ h.view.number # 0 => draft.number # 0
       /\ h.view.key # NoKey => draft.key # NoKey
       /\ h.op \in {"xsd", "sign"} => h.version \in 1..Len(unsigned) /\ h.view.key # NoKey
  /\ h.phase = "done" =>
       /\ \E c \in Drafts : Computed(h, c)
       /\ h.insert = "xml" => h.tries \in 1..MaxVersions /\ h.row.stamp <= clock
       /\ h.insert \notin {"nothing", "xml"} => h.op \in {"xsd", "sign"}

\* An XML has a key, and an issuance that was signed has its signed version.
Bound ==
  /\ unsigned # << >> => draft.key # NoKey
  /\ \A v \in Versions :
       issuance[v].status \notin {"absent", "xsd_validated"} => signed[v] # NoKey

\* Nothing stored is later than the clock.
Clocked ==
  Past(draft, clock) /\ \A v \in 1..Len(unsigned) : unsigned[v].stamp <= clock

Inv == Typed /\ (\A r \in Requests : InFlight(r)) /\ Bound /\ Clocked

\* What a service method computes from handler r's copy, and what it will insert.
Insertions == [what : Inserts, row : XmlRows, tries : Nat]
KeepsGains(r, c) ==
  LET view == req[r].view IN
  /\ Past(c, Now)
  /\ c.number # view.number => c.number \in 1..(clock + 1)
  /\ c.key # view.key => c.key # NoKey
  /\ c.mode # view.mode => c.mode # "active"
Inserted(r, op, c, insert) ==
  LET v == req[r].version IN
  /\ insert.what = "xml" => /\ c.key # NoKey /\ insert.tries \in 1..MaxVersions
                            /\ insert.row.payload = c.payload /\ insert.row.key = c.key
                            /\ insert.row.stamp = Now /\ c.stamp = Now
  /\ insert.what \notin {"nothing", "xml"} => op \in {"xsd", "sign"}
  /\ insert.what \in {"signature", "failure"} =>
       /\ op = "sign" /\ v = Len(unsigned) /\ signed[v] = NoKey /\ Current(req[r].view, v)
       /\ insert.tries = issuance[v].tries + 1

\* A method that ran at time n and inserts `what` left the copy view as it is, or
\* dated what it computed: c carries n in its stamp, or in a new key.
DatedAt(view, c, what, n) ==
  /\ \/ c = view /\ what \notin {"xml", "signature"}
     \/ c.stamp = n
     \/ c.key # view.key /\ what = "nothing"
  /\ c.payload # view.payload => c.payload.rev = n \/ c.payload.key.drawn = n
  /\ c.key = view.key => c.payload.key = view.payload.key
  /\ c.key # view.key => c.payload.key = c.key /\ c.key.drawn = n
Dated(r, c, insert) ==
  /\ DatedAt(req[r].view, c, insert.what, Now)
  /\ c.mode # req[r].view.mode => insert.what = "nothing" /\ Sealed = {}
Computes(r, op, c, insert) ==
  /\ Runs(r, op, c, insert)
  /\ KeepsGains(r, c) /\ Inserted(r, op, c, insert) /\ Dated(r, c, insert)

-----------------------------------------------------------------------------
(* Rows, updates and handlers *)

\* A draft is a function of its six columns.
LEMMA DraftColumns ==
  ASSUME NEW d \in Drafts
  PROVE  /\ DOMAIN d = Columns
         /\ d["status"] \in DraftStatuses /\ d["number"] \in Numbers
         /\ d["key"] \in Keys /\ d["payload"] \in Payloads
         /\ d["stamp"] \in Times /\ d["mode"] \in Modes
BY DEF Drafts, Columns

\* A function of the six columns with typed values is a draft.
LEMMA DraftOfColumns ==
  ASSUME NEW d, d = [f \in Columns |-> d[f]],
         d.status \in DraftStatuses, d.number \in Numbers, d.key \in Keys,
         d.payload \in Payloads, d.stamp \in Times, d.mode \in Modes
  PROVE  d \in Drafts
<1>1. d = [status |-> d.status, number |-> d.number, key |-> d.key,
           payload |-> d.payload, stamp |-> d.stamp, mode |-> d.mode]
  BY DEF Columns
<1> QED
  BY <1>1 DEF Drafts

\* An UPDATE names exactly the columns in which the computed draft differs from
\* the loaded one (update_columns of a unit of work).
LEMMA UpdateColumns ==
  ASSUME NEW view \in Drafts, NEW c \in Drafts, NEW f \in Columns
  PROVE  /\ f \in DOMAIN Update(view, c) <=> c[f] # view[f]
         /\ c[f] # view[f] => Update(view, c)[f] = c[f]
BY DraftColumns DEF Update

\* What an UPDATE leaves in the row: the computed value of a column that was
\* changed, the committed value of any other.
LEMMA WrittenColumns ==
  ASSUME NEW row \in Drafts, NEW view \in Drafts, NEW c \in Drafts
  PROVE  /\ Written(row, Update(view, c)) \in Drafts
         /\ \A f \in Columns : Written(row, Update(view, c))[f] =
              IF c[f] # view[f] THEN c[f] ELSE row[f]
<1> DEFINE w == Written(row, Update(view, c))
<1>1. w = [f \in Columns |-> w[f]]
  BY DraftColumns DEF Written
<1>2. \A f \in Columns : w[f] = IF c[f] # view[f] THEN c[f] ELSE row[f]
  BY DraftColumns, UpdateColumns DEF Written
<1>3. \A f \in Columns : w[f] \in {c[f], row[f]}
  BY <1>2
<1> HIDE DEF w
<1>4. w \in Drafts
  BY <1>1, <1>3, DraftColumns, DraftOfColumns DEF Columns
<1> QED
  BY <1>2, <1>4 DEF w

\* The fields of a handler.
LEMMA HandlerFields ==
  ASSUME NEW h \in Handlers
  PROVE  /\ h.phase \in {"idle", "loaded", "done"} /\ h.op \in Ops
         /\ h.version \in {0} \cup Versions
         /\ h.insert \in Inserts /\ h.update \in Updates
         /\ h.row \in XmlRows /\ h.tries \in Nat /\ h.built \in Nat
         /\ h.view \in Drafts \cup {<< >>}
         /\ h.xsd \in {"unchecked", "valid", "invalid"}
BY DEF Handlers

\* The times in a draft.
LEMMA DraftTimes ==
  ASSUME NEW d \in Drafts
  PROVE  /\ d.stamp \in Times /\ d.key.drawn \in Times
         /\ d.payload.rev \in Times /\ d.payload.key.drawn \in Times
         /\ d.key \in Keys /\ d.payload \in Payloads /\ d.payload.key \in Keys
BY DEF Drafts, Keys, Payloads

\* What is past stays past.
LEMMA PastStays ==
  ASSUME NEW d \in Drafts, NEW t \in Int, NEW u \in Int, t <= u, Past(d, t)
  PROVE  Past(d, u)
BY DraftTimes DEF Past, Times

\* The initial handler is typed.
LEMMA IdleType == Idle \in Handlers /\ Idle.phase = "idle"
<1>1. NoRow \in XmlRows
  BY BoundsAssumption DEF NoRow, XmlRows, Payloads, Keys, NoKey, Times, Numbers
<1> QED
  BY <1>1 DEF Idle, Handlers, Ops, Inserts, Updates

\* A newly drawn key is typed and is not the absent one.
LEMMA KeyedDraft ==
  ASSUME Typed, clock < MaxClock, NEW d \in Drafts, NEW s \in Times,
         NEW c, c = Keyed(d, s)
  PROVE  /\ c \in Drafts /\ c.key # NoKey /\ c.mode = d.mode
         /\ c.stamp = s /\ c.payload.rev = d.payload.rev
         /\ c.payload.sound = d.payload.sound
         /\ c.payload.key = c.key /\ c.key.drawn = Now
         /\ c.number # d.number => c.number \in 1..(clock + 1) /\ d.number = 0
         /\ Past(d, clock) => c.key # d.key
         /\ Past(d, clock) /\ s <= Now => Past(c, Now)
<1> DEFINE n == IF d.number = 0 THEN lastNumber + 1 ELSE d.number
           k == [number |-> n, drawn |-> Now]
<1>1. d.number \in Numbers /\ Now \in Times /\ Now # 0
  BY BoundsAssumption DEF Drafts, Numbers, Typed, Times, Now
<1>2. n \in Numbers /\ (n # d.number => n \in 1..(clock + 1))
  BY <1>1, BoundsAssumption DEF Numbers, Typed, Times, Now
<1>3. k \in Keys /\ k # NoKey /\ k.drawn = Now
  BY <1>1, <1>2 DEF Keys, NoKey
<1> HIDE DEF n, k
<1>4. [d.payload EXCEPT !.key = k] \in Payloads
  BY <1>3 DEF Drafts, Payloads
<1>5. c = [d EXCEPT !.status = "ready_for_xml", !.number = n, !.key = k,
                    !.payload.key = k, !.stamp = s]
  BY DEF Keyed, n, k
<1>6. c = [status |-> "ready_for_xml", number |-> n, key |-> k,
           payload |-> [d.payload EXCEPT !.key = k], stamp |-> s, mode |-> d.mode]
  BY <1>5 DEF Drafts
<1>7. d.mode \in Modes
  BY DEF Drafts
<1>8. c \in Drafts
  BY <1>2, <1>3, <1>4, <1>6, <1>7 DEF Drafts, DraftStatuses
<1>9. d.payload \in Payloads
  BY DEF Drafts
<1>10. /\ [d.payload EXCEPT !.key = k].rev = d.payload.rev
       /\ [d.payload EXCEPT !.key = k].sound = d.payload.sound
       /\ [d.payload EXCEPT !.key = k].key = k
  BY <1>9 DEF Payloads
<1>11. n # d.number => d.number = 0
  BY DEF n
<1> DEFINE p == [d.payload EXCEPT !.key = k]
<1> HIDE DEF p
<1>12. /\ c.number = n /\ c.key = k /\ c.payload = p /\ c.stamp = s /\ c.mode = d.mode
  BY <1>6 DEF p
<1>13. Past(d, clock) => c.key # d.key
  BY <1>3, <1>12, DraftTimes DEF Past, Typed, Times, Now
<1>14. Past(d, clock) /\ s <= Now => Past(c, Now)
  BY <1>3, <1>10, <1>12, DraftTimes DEF Past, Typed, Times, Now, p
<1> QED
  BY <1>2, <1>3, <1>8, <1>10, <1>11, <1>12, <1>13, <1>14 DEF p

-----------------------------------------------------------------------------
(* Part 1: the invariant under any number of handlers *)

\* The draft starts without a number and without handlers.
LEMMA InitInv == Init => Inv
<1> SUFFICES ASSUME Init PROVE Inv
  OBVIOUS
<1>1. 0 \in Times /\ 0 \in Numbers /\ NoKey \in Keys
  BY BoundsAssumption DEF Times, Numbers, Keys, NoKey
<1>2. draft \in Drafts
  BY <1>1 DEF Init, Drafts, DraftStatuses, Payloads, Modes
<1>3. Absent \in IssuanceRows
  BY <1>1 DEF Absent, IssuanceRows, IssuanceStatuses
<1>4. unsigned \in Seq(XmlRows) /\ Len(unsigned) = 0
  BY DEF Init
<1>5. Typed
  BY <1>1, <1>2, <1>3, <1>4, IdleType, BoundsAssumption DEF Init, Typed
<1>6. \A r \in Requests : InFlight(r)
  BY IdleType DEF Init, InFlight
<1>7. Bound
  BY DEF Init, Bound, Absent
<1>8. Clocked
  BY <1>4 DEF Init, Clocked, Past, NoKey
<1> QED
  BY <1>5, <1>6, <1>7, <1>8 DEF Inv

\* The times of the draft and of its XML are numbers.
LEMMA XmlStamps ==
  ASSUME Typed
  PROVE  /\ draft.stamp \in Int /\ Len(unsigned) \in Nat
         /\ \A v \in 1..Len(unsigned) : unsigned[v] \in XmlRows /\ unsigned[v].stamp \in Int
<1>1. \A x \in XmlRows : x.stamp \in Int
  BY DEF XmlRows, Times
<1>2. \A v \in 1..Len(unsigned) : unsigned[v] \in XmlRows
  BY DEF Typed
<1>3. draft.stamp \in Int /\ Len(unsigned) \in Nat
  BY DEF Typed, Drafts, Times
<1> QED
  BY <1>1, <1>2, <1>3

\* A step that leaves the committed rows alone and gives handler r a state h
\* keeps what the other handlers hold.
LEMMA HandlerStep ==
  ASSUME Inv, NEW r \in Requests, NEW h \in Handlers, req' = [req EXCEPT ![r] = h],
         UNCHANGED <<draft, unsigned, signed, issuance, lastNumber, lapses>>,
         clock' \in Times, clock <= clock', InFlight(r)'
  PROVE  Inv'
<1>1. Typed'
  BY DEF Inv, Typed, Times, Numbers
<1>2. Bound'
  BY DEF Inv, Bound
<1>3. ASSUME NEW q \in Requests PROVE InFlight(q)'
  <2>1. CASE q = r
    BY <2>1
  <2>2. CASE q # r
    <3>1. req'[q] = req[q] /\ InFlight(q)
      BY <2>2 DEF Inv, Typed
    <3>2. 1..clock \subseteq 1..clock' /\ clock \in Int /\ clock' \in Int
      BY DEF Inv, Typed, Times
    <3>3. \A d \in Drafts : Past(d, clock) => Past(d, clock')
      BY <3>2, PastStays
    <3>4. req[q] \in Handlers /\ req[q].row.stamp \in Int
      BY HandlerFields DEF Inv, Typed, XmlRows, Times
    <3>5. req[q].row.stamp <= clock => req[q].row.stamp <= clock'
      BY <3>2, <3>4
    <3> QED
      BY <3>1, <3>2, <3>3, <3>5 DEF InFlight, Computed
  <2> QED
    BY <2>1, <2>2
<1>4. Clocked'
  <2>1. clock \in Int /\ clock' \in Int
    BY DEF Inv, Typed, Times
  <2>2. \A v \in 1..Len(unsigned) : unsigned[v].stamp \in Int
    BY XmlStamps DEF Inv
  <2>3. Past(draft', clock')
    BY <2>1, PastStays DEF Inv, Typed, Clocked
  <2> QED
    BY <2>1, <2>2, <2>3 DEF Inv, Clocked
<1> QED
  BY <1>1, <1>2, <1>3, <1>4 DEF Inv

\* Loading the draft: the copy is the committed row.
LEMMA LoadStep ==
  ASSUME Inv, NEW r \in Requests, NEW op \in Ops, NEW v \in {0} \cup Versions,
         Load(r, op, v)
  PROVE  Inv'
<1> DEFINE x == IF v = 0 THEN Idle.xsd ELSE unsigned[v].xsd
           h == [Idle EXCEPT !.phase = "loaded", !.op = op, !.version = v,
                             !.view = draft, !.xsd = x]
<1>1. req' = [req EXCEPT ![r] = h]
  BY Zenon DEF Load
<1>2. v # 0 => v \in 1..Len(unsigned) /\ op \in {"xsd", "sign"}
  BY DEF Load, Inv, Typed, Versions
<1>3. op \in {"xsd", "sign"} => v \in 1..Len(unsigned)
  BY DEF Load, Inv, Typed
<1>4. x \in {"unchecked", "valid", "invalid"}
  <2>1. v # 0 => unsigned[v] \in XmlRows
    BY <1>2 DEF Inv, Typed
  <2> QED
    BY <2>1 DEF XmlRows, Idle
<1> HIDE DEF x
<1>5. h \in Handlers
  BY <1>4, IdleType DEF Handlers, Inv, Typed
<1>6. h.phase = "loaded" /\ h.op = op /\ h.version = v /\ h.view = draft
  BY DEF Idle
<1> HIDE DEF h
<1>7. req'[r] = h /\ UNCHANGED <<draft, unsigned, signed, issuance, lastNumber, clock, lapses>>
  BY <1>1 DEF Load, Inv, Typed
<1>8. InFlight(r)'
  <2>1. draft \in Drafts /\ draft.mode = "active"
    BY DEF Inv, Typed, Load
  <2>2. op \in {"xsd", "sign"} => draft.key # NoKey
    BY <1>3, EmptySeq DEF Inv, Bound, Typed
  <2> QED
    BY <1>3, <1>6, <1>7, <2>1, <2>2 DEF InFlight, Inv, Clocked
<1>9. clock' \in Times /\ clock <= clock'
  BY <1>7 DEF Inv, Typed, Times
<1> QED
  BY <1>1, <1>5, <1>7, <1>8, <1>9, HandlerStep

\* A rolled back handler holds nothing.
LEMMA RollbackStep ==
  ASSUME Inv, NEW r \in Requests, Rollback(r)
  PROVE  Inv'
<1>1. req'[r] = Idle /\ clock' = clock
  BY DEF Rollback, Inv, Typed
<1>2. InFlight(r)'
  BY <1>1, IdleType DEF InFlight
<1>3. clock' \in Times /\ clock <= clock'
  BY <1>1 DEF Inv, Typed, Times
<1> QED
  BY <1>2, <1>3, IdleType, HandlerStep DEF Rollback

\* What a method of handler r leaves in its request.
LEMMA RunsFields ==
  ASSUME Inv, NEW r \in Requests, NEW op \in Ops, NEW c \in Drafts,
         NEW insert \in Insertions, Runs(r, op, c, insert)
  PROVE  /\ req[r].phase = "loaded" /\ req[r].op = op
         /\ req' = [req EXCEPT ![r] = req'[r]] /\ req'[r] \in Handlers
         /\ req'[r].phase = "done" /\ req'[r].op = op
         /\ req'[r].version = req[r].version /\ req'[r].view = req[r].view
         /\ req'[r].update = Update(req[r].view, c)
         /\ req'[r].insert = insert.what /\ req'[r].row = insert.row
         /\ req'[r].tries = insert.tries
         /\ req'[r].built = Len(unsigned) /\ req'[r].sealed = Sealed
         /\ UNCHANGED <<draft, unsigned, signed, issuance, lastNumber, lapses>>
         /\ clock' = clock + 1 /\ clock' \in Times /\ clock <= clock' /\ clock \in Nat
<1>1. PICK g \in Handlers : g = req[r]
  BY DEF Inv, Typed
<1>2. g.phase = "loaded" /\ g.op = op /\ g.view \in Drafts
  BY <1>1 DEF Inv, Runs, InFlight
<1>3. PICK u \in Updates : u = Update(g.view, c)
  BY <1>2 DEF Updates
<1>4. PICK b \in Nat, z \in SUBSET Versions : b = Len(unsigned) /\ z = Sealed
  <2>1. Len(unsigned) \in Nat /\ Sealed \in SUBSET Versions
    BY DEF Inv, Typed, Sealed
  <2> QED
    BY <2>1
<1>5. PICK i \in Inserts, x \in XmlRows, t \in Nat :
        i = insert.what /\ x = insert.row /\ t = insert.tries
  BY DEF Insertions
<1>12. PICK h : h = [g EXCEPT !.phase = "done", !.update = u, !.insert = i, !.row = x,
                              !.tries = t, !.built = b, !.sealed = z]
  OBVIOUS
<1>6. req' = [req EXCEPT ![r] = h]
  BY <1>1, <1>3, <1>4, <1>5, <1>12, Zenon DEF Runs
<1>10. h = [phase |-> "done", op |-> g.op, version |-> g.version, xsd |-> g.xsd,
            view |-> g.view, insert |-> i, update |-> u, row |-> x, tries |-> t,
            built |-> b, sealed |-> z]
  BY <1>1, <1>3, <1>4, <1>5, <1>12 DEF Handlers
<1>11. h \in Handlers
  BY <1>1, <1>3, <1>4, <1>5, <1>10, HandlerFields DEF Handlers
<1>7. req'[r] = h
  BY <1>6 DEF Inv, Typed
<1>8. UNCHANGED <<draft, unsigned, signed, issuance, lastNumber, lapses>> /\ clock' = clock + 1
  BY DEF Runs
<1>9. clock' \in Times /\ clock <= clock' /\ clock \in Nat
  BY <1>8, BoundsAssumption DEF Runs, Inv, Typed, Times
<1> QED
  <2>1. /\ h.phase = "done" /\ h.op = g.op /\ h.version = g.version /\ h.view = g.view
        /\ h.update = u /\ h.insert = i /\ h.row = x /\ h.tries = t
        /\ h.built = b /\ h.sealed = z
    BY <1>10
  <2> QED
    BY <1>1, <1>2, <1>3, <1>4, <1>5, <1>6, <1>7, <1>8, <1>9, <1>11, <2>1

\* A service method keeps the invariant: what it computed lost nothing, and what
\* it will insert is typed.
LEMMA RunsStep ==
  ASSUME Inv, NEW r \in Requests, NEW op \in Ops, NEW c \in Drafts,
         NEW insert \in Insertions, Computes(r, op, c, insert)
  PROVE  Inv'
<1>1. Runs(r, op, c, insert) /\ InFlight(r)
  BY DEF Computes, Inv
<1> DEFINE h == req'[r]
<1>2. /\ h.update = Update(h.view, c)
      /\ Past(c, clock')
      /\ c.number # h.view.number => c.number \in 1..clock'
      /\ c.key # h.view.key => c.key # NoKey
      /\ c.mode # h.view.mode => c.mode # "active"
      /\ h.insert = "xml" => c.key # NoKey
  BY <1>1, RunsFields DEF Computes, KeepsGains, Inserted, Now
<1>3. /\ h.insert = "xml" => h.tries \in 1..MaxVersions /\ h.row.stamp <= clock'
      /\ h.insert \notin {"nothing", "xml"} => h.op \in {"xsd", "sign"}
  BY <1>1, RunsFields DEF Computes, Inserted, Now
<1>4. h.view \in Drafts /\ h.view.mode = "active" /\ Past(h.view, clock')
  <2>1. h.view \in Drafts /\ h.view.mode = "active" /\ Past(h.view, clock)
    BY <1>1, RunsFields DEF InFlight
  <2>2. clock \in Int /\ clock' \in Int /\ clock <= clock'
    BY <1>1, RunsFields DEF Times
  <2> QED
    BY <2>1, <2>2, PastStays
<1>5. InFlight(r)'
  BY <1>1, <1>2, <1>3, <1>4, RunsFields DEF InFlight, Computed
<1> QED
  BY <1>1, <1>5, RunsFields, HandlerStep

\* What a running method starts from.
LEMMA Running ==
  ASSUME Inv, NEW r \in Requests, req[r].phase = "loaded", clock < MaxClock
  PROVE  /\ req[r].view \in Drafts /\ req[r].view.mode = "active"
         /\ Past(req[r].view, clock) /\ Past(req[r].view, Now) /\ Now <= Now
         /\ req[r].view.payload \in Payloads
         /\ Now \in Times \ {0} /\ Now = clock + 1
         /\ Nothing.what = "nothing" /\ Nothing.row \in XmlRows /\ Nothing.tries = 0
         /\ Nothing \in Insertions
<1>1. NoRow \in XmlRows
  BY BoundsAssumption DEF NoRow, XmlRows, Payloads, Keys, NoKey, Times, Numbers
<1>2. req[r].view \in Drafts /\ req[r].view.mode = "active" /\ Past(req[r].view, clock)
  BY DEF Inv, InFlight
<1>3. Now \in Times \ {0}
  BY BoundsAssumption DEF Now, Inv, Typed, Times
<1>4. Past(req[r].view, Now) /\ Now <= Now
  <2>1. clock \in Int /\ Now \in Int /\ clock <= Now
    BY <1>3 DEF Inv, Typed, Times, Now
  <2> QED
    BY <1>2, <2>1, PastStays
<1> QED
  BY <1>1, <1>2, <1>3, <1>4 DEF Nothing, Now, Drafts, Insertions, Inserts

\* generate_access_key_for_draft.
LEMMA GenerateKeyComputes ==
  ASSUME Inv, NEW r \in Requests, GenerateKey(r)
  PROVE  \E op \in Ops, c \in Drafts, insert \in Insertions : Computes(r, op, c, insert)
<1> DEFINE d == req[r].view
<1>1. PICK stamp \in Times : /\ Runs(r, "key", Keyed(d, stamp), Nothing)
                             /\ Now - StampLag <= stamp /\ stamp <= Now
  BY DEF GenerateKey
<1>2. req[r].phase = "loaded" /\ clock < MaxClock
  BY <1>1 DEF Runs
<1> DEFINE c == Keyed(d, stamp)
<1> HIDE DEF c
<1>3. /\ c \in Drafts /\ c.key # NoKey /\ c.mode = d.mode /\ c.stamp = stamp
      /\ c.number # d.number => c.number \in 1..(clock + 1)
      /\ c.payload.rev = d.payload.rev /\ c.payload.key = c.key /\ c.key.drawn = Now
      /\ c.key # d.key /\ Past(c, Now)
  BY <1>1, <1>2, Running, KeyedDraft DEF Inv, c
<1>5. Computes(r, "key", c, Nothing)
  BY <1>1, <1>2, <1>3, Running DEF Computes, KeepsGains, Inserted, Dated, DatedAt, c
<1> QED
  BY <1>2, <1>3, <1>5, Running DEF Ops

\* generate_unsigned_xml.
LEMMA GenerateXmlComputes ==
  ASSUME Inv, NEW r \in Requests, GenerateXml(r)
  PROVE  \E op \in Ops, c \in Drafts, insert \in Insertions : Computes(r, op, c, insert)
<1> DEFINE loaded == req[r].view
           d == IF loaded.key = NoKey THEN Keyed(loaded, Now) ELSE loaded
           row == [key |-> d.key, payload |-> d.payload, stamp |-> Now,
                   xsd |-> "unchecked"]
           insert == [what |-> "xml", row |-> row, tries |-> Len(unsigned) + 1]
           c == [d EXCEPT !.status = "xml_generated", !.stamp = Now]
<1>1. Runs(r, "xml", c, insert) /\ Len(unsigned) < MaxVersions
  BY DEF GenerateXml
<1>2. req[r].phase = "loaded" /\ clock < MaxClock
  BY <1>1 DEF Runs
<1>3. loaded \in Drafts /\ loaded.mode = "active" /\ Now \in Times \ {0}
  BY <1>2, Running
<1>4. /\ d \in Drafts /\ d.key # NoKey /\ d.mode = "active" /\ Past(d, Now)
      /\ d.number # loaded.number => d.number \in 1..(clock + 1)
      /\ d.key = loaded.key => d.payload = loaded.payload
      /\ d.key # loaded.key => d.payload.key = d.key /\ d.key.drawn = Now
  BY <1>2, <1>3, Running, KeyedDraft DEF Inv
<1> HIDE DEF d
<1>5. /\ row \in XmlRows
      /\ row.key = d.key /\ row.payload = d.payload /\ row.stamp = Now
  BY <1>3, <1>4 DEF XmlRows, Drafts
<1>6. /\ c \in Drafts /\ c.number = d.number /\ c.key = d.key /\ c.mode = d.mode
      /\ c.payload = d.payload /\ c.stamp = Now
  BY <1>3, <1>4 DEF Drafts, DraftStatuses
<1>10. Past(c, Now)
  BY <1>2, <1>4, <1>6, Running DEF Past
<1> HIDE DEF c, row
<1>7. Len(unsigned) + 1 \in 1..MaxVersions
  BY <1>1, BoundsAssumption DEF Inv, Typed
<1>8. /\ insert.what = "xml" /\ insert.row = row /\ insert.tries = Len(unsigned) + 1
      /\ insert \in Insertions
  BY <1>5, <1>7 DEF Insertions, Inserts
<1> HIDE DEF insert
<1>9. Computes(r, "xml", c, insert)
  BY <1>1, <1>3, <1>4, <1>5, <1>6, <1>7, <1>8, <1>10
  DEF Computes, KeepsGains, Inserted, Dated, DatedAt
<1> QED
  BY <1>6, <1>8, <1>9 DEF Ops

\* validate_xml_version.
LEMMA ValidateXmlComputes ==
  ASSUME Inv, NEW r \in Requests, ValidateXml(r)
  PROVE  \E op \in Ops, c \in Drafts, insert \in Insertions : Computes(r, op, c, insert)
<1>1. PICK verdict \in {"valid", "invalid"} :
        Runs(r, "xsd", req[r].view, [Nothing EXCEPT !.what = verdict])
  BY DEF ValidateXml
<1> DEFINE insert == [Nothing EXCEPT !.what = verdict]
<1>2. req[r].phase = "loaded" /\ clock < MaxClock
  BY <1>1 DEF Runs
<1>3. insert.what = verdict /\ insert \in Insertions
  BY <1>2, Running DEF Insertions, Inserts
<1> HIDE DEF insert
<1>4. Runs(r, "xsd", req[r].view, insert)
  BY <1>1 DEF insert
<1>5. Computes(r, "xsd", req[r].view, insert)
  BY <1>2, <1>3, <1>4, Running DEF Computes, KeepsGains, Inserted, Dated, DatedAt
<1> QED
  BY <1>2, <1>3, <1>5, Running DEF Ops

\* sign_xml_version, whether signing succeeds or fails.
LEMMA SignComputes ==
  ASSUME Inv, NEW r \in Requests, Sign(r)
  PROVE  \E op \in Ops, c \in Drafts, insert \in Insertions : Computes(r, op, c, insert)
<1> DEFINE d == req[r].view
           v == req[r].version
           try == [Nothing EXCEPT !.tries = issuance[v].tries + 1]
           signs == [try EXCEPT !.what = "signature"]
           fails == [try EXCEPT !.what = "failure"]
           c == [d EXCEPT !.status = "signed", !.stamp = Now]
<1>1. /\ req[r].phase = "loaded" /\ clock < MaxClock /\ req[r].op = "sign"
      /\ v = Len(unsigned) /\ signed[v] = NoKey /\ Current(d, v)
      /\ Runs(r, "sign", c, signs) \/ Runs(r, "sign", d, fails)
  BY DEF Sign, Runs
<1>2. /\ d \in Drafts /\ d.mode = "active" /\ Now \in Times /\ Past(d, Now)
      /\ Nothing.row \in XmlRows /\ Now <= Now
  BY <1>1, Running
<1>3. issuance[v].tries \in Nat
  <2>1. v \in 1..Len(unsigned)
    BY <1>1 DEF Inv, InFlight
  <2>2. v \in Versions
    BY <2>1, BoundsAssumption, LenProperties DEF Inv, Typed, Versions
  <2> QED
    BY <2>2 DEF Inv, Typed, IssuanceRows
<1>4. /\ c \in Drafts /\ c.number = d.number /\ c.key = d.key /\ c.mode = d.mode
      /\ c.stamp = Now /\ c.payload = d.payload
  BY <1>2 DEF Drafts, DraftStatuses
<1>8. Past(c, Now)
  BY <1>2, <1>4 DEF Past
<1>5. /\ signs.what = "signature" /\ signs.tries = issuance[v].tries + 1
      /\ fails.what = "failure" /\ fails.tries = issuance[v].tries + 1
      /\ signs \in Insertions /\ fails \in Insertions
  <2> DEFINE n == issuance[v].tries + 1
  <2>1. n \in Nat
    BY <1>3
  <2> HIDE DEF n
  <2>2. Nothing \in Insertions
    BY <1>1, Running
  <2>3. try \in Insertions /\ try.tries = n
    BY <2>1, <2>2 DEF Insertions, n
  <2> HIDE DEF try
  <2> QED
    BY <2>1, <2>3 DEF Insertions, Inserts, n
<1> HIDE DEF c, signs, fails
<1>6. CASE Runs(r, "sign", c, signs)
  <2>1. Computes(r, "sign", c, signs)
    BY <1>1, <1>2, <1>4, <1>5, <1>6, <1>8
    DEF Computes, KeepsGains, Inserted, Dated, DatedAt
  <2> QED
    BY <1>4, <1>5, <2>1 DEF Ops
<1>7. CASE Runs(r, "sign", d, fails)
  <2>1. Computes(r, "sign", d, fails)
    BY <1>1, <1>2, <1>5, <1>7 DEF Computes, KeepsGains, Inserted, Dated, DatedAt
  <2> QED
    BY <1>2, <1>5, <2>1 DEF Ops
<1> QED
  BY <1>1, <1>6, <1>7

\* validate_draft.
LEMMA ValidateDraftComputes ==
  ASSUME Inv, NEW r \in Requests, ValidateDraft(r)
  PROVE  \E op \in Ops, c \in Drafts, insert \in Insertions : Computes(r, op, c, insert)
<1> DEFINE d == req[r].view
           c == [d EXCEPT !.status = Validated(d), !.stamp = Now]
<1>1. Runs(r, "validate", c, Nothing)
  BY DEF ValidateDraft
<1>2. req[r].phase = "loaded" /\ clock < MaxClock
  BY <1>1 DEF Runs
<1>3. Validated(d) \in DraftStatuses
  BY DEF Validated, DraftStatuses
<1>4. /\ c \in Drafts /\ c.number = d.number /\ c.key = d.key /\ c.mode = d.mode
      /\ c.stamp = Now /\ c.payload = d.payload
  BY <1>2, <1>3, Running DEF Drafts
<1>6. Past(c, Now)
  BY <1>2, <1>4, Running DEF Past
<1> HIDE DEF c
<1>5. Computes(r, "validate", c, Nothing)
  BY <1>1, <1>2, <1>4, <1>6, Running DEF Computes, KeepsGains, Inserted, Dated, DatedAt
<1> QED
  BY <1>2, <1>4, <1>5, Running DEF Ops

\* update_draft_metadata, update_draft_item and adjust_draft_item_tax.
LEMMA EditComputes ==
  ASSUME Inv, NEW r \in Requests, Edit(r)
  PROVE  \E op \in Ops, c \in Drafts, insert \in Insertions : Computes(r, op, c, insert)
<1> DEFINE d == req[r].view
           p(sound) == [d.payload EXCEPT !.rev = Now, !.sound = sound]
           s(sound) == Validated([d EXCEPT !.payload = p(sound)])
<1>1. PICK sound \in BOOLEAN :
        Runs(r, "edit", [d EXCEPT !.payload = p(sound), !.stamp = StampOfEdit(d),
                                  !.status = s(sound)], Nothing)
  BY Zenon DEF Edit
<1>2. req[r].phase = "loaded" /\ clock < MaxClock
  BY <1>1 DEF Runs
<1>3. /\ s(sound) \in DraftStatuses /\ p(sound) \in Payloads
      /\ p(sound).rev = Now /\ p(sound).key = d.payload.key
  <2>1. p(sound) \in Payloads /\ p(sound).rev = Now /\ p(sound).key = d.payload.key
    BY <1>2, Running DEF Payloads
  <2> QED
    BY <2>1 DEF Validated, DraftStatuses
<1> DEFINE c == [d EXCEPT !.payload = p(sound), !.stamp = StampOfEdit(d),
                          !.status = s(sound)]
<1> HIDE DEF p, s
<1>4. /\ c \in Drafts /\ c.number = d.number /\ c.key = d.key /\ c.mode = d.mode
      /\ c.stamp = Now /\ c.payload = p(sound)
  BY <1>2, <1>3, Running DEF Drafts, StampOfEdit
<1>7. Past(c, Now)
  BY <1>2, <1>3, <1>4, Running DEF Past
<1>5. Runs(r, "edit", c, Nothing)
  BY <1>1
<1> HIDE DEF c
<1>6. Computes(r, "edit", c, Nothing)
  BY <1>2, <1>3, <1>4, <1>5, <1>7, Running
  DEF Computes, KeepsGains, Inserted, Dated, DatedAt
<1> QED
  BY <1>2, <1>4, <1>6, Running DEF Ops

\* soft_delete_draft.
LEMMA SoftDeleteComputes ==
  ASSUME Inv, NEW r \in Requests, SoftDelete(r)
  PROVE  \E op \in Ops, c \in Drafts, insert \in Insertions : Computes(r, op, c, insert)
<1> DEFINE d == req[r].view
           p == [d.payload EXCEPT !.rev = Now]
           c == [d EXCEPT !.mode = DeletionMode(d), !.stamp = Now, !.payload.rev = Now]
<1>1. Runs(r, "delete", c, Nothing) /\ Sealed = {}
  BY DEF SoftDelete, Protected
<1>2. req[r].phase = "loaded" /\ clock < MaxClock
  BY <1>1 DEF Runs
<1>3. DeletionMode(d) \in Modes /\ DeletionMode(d) # "active"
  BY DEF DeletionMode, Modes
<1>4. /\ d \in Drafts /\ p \in Payloads /\ Now \in Times
      /\ p.rev = Now /\ p.key = d.payload.key
  BY <1>2, Running DEF Payloads
<1>5. c = [d EXCEPT !.mode = DeletionMode(d), !.stamp = Now, !.payload = p]
  BY <1>4 DEF Drafts
<1> HIDE DEF p, c
<1>6. /\ c \in Drafts /\ c.number = d.number /\ c.key = d.key
      /\ c.mode = DeletionMode(d) /\ c.stamp = Now /\ c.payload = p
  BY <1>3, <1>4, <1>5 DEF Drafts
<1>8. Past(c, Now)
  BY <1>2, <1>4, <1>6, Running DEF Past
<1>7. Computes(r, "delete", c, Nothing)
  BY <1>1, <1>2, <1>3, <1>4, <1>6, <1>8, Running
  DEF Computes, KeepsGains, Inserted, Dated, DatedAt
<1> QED
  BY <1>2, <1>6, <1>7, Running DEF Ops

\* What every service method does.
LEMMA MethodComputes ==
  ASSUME Inv, NEW r \in Requests, Method(r)
  PROVE  \E op \in Ops, c \in Drafts, insert \in Insertions : Computes(r, op, c, insert)
BY GenerateKeyComputes, GenerateXmlComputes, ValidateXmlComputes, SignComputes,
   ValidateDraftComputes, EditComputes, SoftDeleteComputes
DEF Method

\* Every service method keeps the invariant.
LEMMA MethodStep ==
  ASSUME Inv, NEW r \in Requests, Method(r)
  PROVE  Inv'
<1>1. PICK op \in Ops, c \in Drafts, insert \in Insertions : Computes(r, op, c, insert)
  BY MethodComputes
<1> QED
  BY <1>1, RunsStep

\* A commit writes a typed draft, and only adds to it: a removal, a number and
\* a key stay.
LEMMA CommittedDraft ==
  ASSUME Inv, NEW r \in Requests, Commit(r)
  PROVE  /\ draft' \in Drafts
         /\ lastNumber' \in Numbers /\ lastNumber' <= clock
         /\ draft.mode # "active" => draft'.mode # "active"
         /\ draft.number # 0 => draft'.number # 0
         /\ draft.key # NoKey => draft'.key # NoKey
         /\ req[r].insert = "xml" => draft'.key # NoKey
         /\ Past(draft', clock)
<1> DEFINE h == req[r]
<1>1. InFlight(r) /\ h.phase = "done" /\ draft \in Drafts /\ h.view \in Drafts
  BY DEF Inv, Typed, Commit, InFlight
<1>2. PICK c \in Drafts : Computed(h, c)
  BY <1>1 DEF InFlight
<1> DEFINE view == req[r].view
<1>3. /\ draft' \in Drafts
      /\ \A f \in Columns : draft'[f] = IF c[f] # view[f] THEN c[f] ELSE draft[f]
  BY <1>1, <1>2, WrittenColumns DEF Commit, CommitDraft, Computed
<1>4. /\ draft'.mode = IF c.mode # view.mode THEN c.mode ELSE draft.mode
      /\ draft'.number = IF c.number # view.number THEN c.number ELSE draft.number
      /\ draft'.key = IF c.key # view.key THEN c.key ELSE draft.key
      /\ draft'.stamp = IF c.stamp # view.stamp THEN c.stamp ELSE draft.stamp
      /\ draft'.payload = IF c.payload # view.payload THEN c.payload ELSE draft.payload
  BY <1>3 DEF Columns
<1>10. Past(draft', clock)
  BY <1>2, <1>4 DEF Inv, Clocked, Computed, Past
<1>5. lastNumber' = IF c.number # view.number THEN c.number ELSE lastNumber
  <2>1. "number" \in Columns
    BY DEF Columns
  <2>2. h.update = Update(view, c)
    BY <1>2 DEF Computed
  <2>3. /\ "number" \in DOMAIN Update(view, c) <=> c.number # view.number
        /\ c.number # view.number => Update(view, c).number = c.number
    BY <1>1, <2>1, UpdateColumns
  <2> QED
    BY <2>2, <2>3 DEF Commit, CommitDraft
<1>6. lastNumber \in Numbers /\ lastNumber <= clock /\ clock \in Times
  BY DEF Inv, Typed
<1>7. lastNumber' \in Numbers /\ lastNumber' <= clock
  BY <1>2, <1>5, <1>6, BoundsAssumption DEF Computed, Numbers, Times
<1>8. /\ draft.mode # "active" => draft'.mode # "active"
      /\ draft.number # 0 => draft'.number # 0
      /\ draft.key # NoKey => draft'.key # NoKey
  BY <1>1, <1>2, <1>4, <1>6 DEF Computed, InFlight, Times
<1>9. h.insert = "xml" => draft'.key # NoKey
  BY <1>1, <1>2, <1>4 DEF Computed, InFlight
<1> QED
  BY <1>3, <1>7, <1>8, <1>9, <1>10

\* A commit keeps the versions typed and never has fewer of them.
LEMMA CommittedVersions ==
  ASSUME Inv, NEW r \in Requests, Commit(r)
  PROVE  /\ unsigned' \in Seq(XmlRows)
         /\ Len(unsigned) <= Len(unsigned') /\ Len(unsigned') <= MaxVersions
         /\ unsigned' # << >> => unsigned # << >> \/ req[r].insert = "xml"
<1> DEFINE h == req[r]
<1>1. /\ InFlight(r) /\ h.phase = "done" /\ h \in Handlers
      /\ unsigned \in Seq(XmlRows) /\ Len(unsigned) <= MaxVersions /\ Len(unsigned) \in Nat
  BY DEF Inv, Typed, Commit
<1>2. h.insert \in Inserts /\ h.row \in XmlRows /\ h.tries \in Nat
  BY <1>1, HandlerFields
<1>3. CASE h.insert = "xml"
  <2>1. unsigned' = Append(unsigned, h.row)
    BY <1>3 DEF Commit, CommitVersions
  <2>2. h.tries \in 1..MaxVersions /\ ~(h.tries <= Len(unsigned))
    BY <1>1, <1>3 DEF InFlight, Commit, Conflict
  <2>3. unsigned' \in Seq(XmlRows) /\ Len(unsigned') = Len(unsigned) + 1
    BY <1>1, <1>2, <2>1, AppendProperties
  <2> QED
    BY <1>1, <1>2, <1>3, <2>2, <2>3, BoundsAssumption
<1>4. CASE h.insert \in {"valid", "invalid"}
  <2> DEFINE v == h.version
             x == [unsigned[v] EXCEPT !.xsd = h.insert]
  <2>1. unsigned' = [unsigned EXCEPT ![v].xsd = h.insert]
    BY <1>4 DEF Commit, CommitVersions
  <2>2. v \in 1..Len(unsigned)
    BY <1>1, <1>4 DEF InFlight
  <2>3. unsigned[v] \in XmlRows
    BY <1>1, <2>2
  <2>4. x \in XmlRows
    BY <1>4, <2>3 DEF XmlRows
  <2>5. unsigned' = [unsigned EXCEPT ![v] = x]
    BY <2>1
  <2> HIDE DEF x
  <2>6. unsigned' \in Seq(XmlRows) /\ Len(unsigned') = Len(unsigned)
    BY <1>1, <2>2, <2>4, <2>5, ExceptSeq
  <2>7. unsigned # << >>
    BY <2>2, EmptySeq
  <2> QED
    BY <1>1, <2>6, <2>7
<1>5. CASE h.insert \notin {"xml", "valid", "invalid"}
  <2>1. unsigned' = unsigned
    BY <1>5 DEF Commit, CommitVersions
  <2> QED
    BY <1>1, <2>1
<1> QED
  BY <1>3, <1>4, <1>5

\* A commit adds a row to the XML or changes nothing of it but a verdict.
LEMMA CommittedRows ==
  ASSUME Inv, NEW r \in Requests, Commit(r)
  PROVE  LET n == Len(unsigned) IN
         /\ \A v \in 1..n : /\ unsigned'[v].key = unsigned[v].key
                            /\ unsigned'[v].payload = unsigned[v].payload
                            /\ unsigned'[v].stamp = unsigned[v].stamp
         /\ req[r].insert = "xml" =>
              Len(unsigned') = n + 1 /\ unsigned'[n + 1] = req[r].row
         /\ req[r].insert # "xml" => Len(unsigned') = n
<1> DEFINE h == req[r]
           n == Len(unsigned)
<1>1. /\ InFlight(r) /\ h.phase = "done" /\ h \in Handlers /\ unsigned \in Seq(XmlRows)
      /\ h.row \in XmlRows
  BY HandlerFields DEF Inv, Typed, Commit
<1>2. CASE h.insert = "xml"
  <2>1. unsigned' = Append(unsigned, h.row)
    BY <1>2 DEF Commit, CommitVersions
  <2> QED
    BY <1>1, <1>2, <2>1, AppendProperties
<1>3. CASE h.insert \in {"valid", "invalid"}
  <2> DEFINE w == h.version
             x == [unsigned[w] EXCEPT !.xsd = h.insert]
  <2>1. unsigned' = [unsigned EXCEPT ![w] = x]
    BY <1>3 DEF Commit, CommitVersions
  <2>2. w \in 1..n /\ unsigned[w] \in XmlRows
    BY <1>1, <1>3 DEF InFlight
  <2>3. /\ x \in XmlRows /\ x.key = unsigned[w].key /\ x.payload = unsigned[w].payload
        /\ x.stamp = unsigned[w].stamp
    BY <1>3, <2>2 DEF XmlRows
  <2> HIDE DEF x
  <2>4. /\ Len(unsigned') = n
        /\ \A v \in 1..n : unsigned'[v] = IF v = w THEN x ELSE unsigned[v]
    BY <1>1, <2>1, <2>2, <2>3, ExceptSeq
  <2> QED
    BY <1>3, <2>2, <2>3, <2>4
<1>4. CASE h.insert \notin {"xml", "valid", "invalid"}
  <2>1. unsigned' = unsigned
    BY <1>4 DEF Commit, CommitVersions
  <2> QED
    BY <1>4, <2>1
<1> QED
  BY <1>2, <1>3, <1>4

\* A commit changes at most the issuance of the handler's version; it becomes
\* "signed" only with a signature, together with a first signed version.
LEMMA CommittedSignature ==
  ASSUME Inv, NEW r \in Requests, Commit(r)
  PROVE  /\ signed' \in [Versions -> Keys] /\ issuance' \in [Versions -> IssuanceRows]
         /\ \A v \in Versions :
              \/ issuance'[v] = issuance[v] /\ signed'[v] = signed[v]
              \/ /\ issuance'[v].status = "signed"
                 /\ signed[v] = NoKey /\ signed'[v] # NoKey
              \/ /\ signed'[v] = signed[v]
                 /\ issuance'[v].status \in {issuance[v].status, "xsd_validated"}
<1> DEFINE h == req[r]
           w == h.version
           old == IF h.tries > 1 THEN issuance[w]
                  ELSE [status |-> "xsd_validated", number |-> h.view.number,
                        key |-> h.view.key, tries |-> 0]
           new == [old EXCEPT !.tries = h.tries]
<1>1. /\ InFlight(r) /\ h.phase = "done" /\ h \in Handlers
      /\ signed \in [Versions -> Keys] /\ issuance \in [Versions -> IssuanceRows]
  BY DEF Inv, Typed, Commit
<1>2. CASE h.insert \notin {"signature", "failure"}
  <2>1. signed' = signed /\ issuance' = issuance
    BY <1>2 DEF Commit, CommitSignature
  <2> QED
    BY <1>1, <2>1
<1>3. ASSUME h.insert \in {"signature", "failure"}
      PROVE  /\ w \in Versions /\ h.view \in Drafts /\ h.view.key # NoKey /\ h.tries \in Nat
             /\ new \in IssuanceRows
             /\ new.status \in {issuance[w].status, "xsd_validated"}
  <2>1. /\ w \in 1..Len(unsigned) /\ h.view.key # NoKey
        /\ h.view \in Drafts /\ h.tries \in Nat
    BY <1>1, <1>3, HandlerFields DEF InFlight
  <2>2. w \in Versions
    BY <2>1, BoundsAssumption, LenProperties DEF Inv, Typed, Versions
  <2>3. issuance[w] \in IssuanceRows
    BY <1>1, <2>2
  <2>4. old \in IssuanceRows /\ old.status \in {issuance[w].status, "xsd_validated"}
    BY <2>1, <2>3 DEF IssuanceRows, IssuanceStatuses, Drafts
  <2> HIDE DEF old
  <2>5. new \in IssuanceRows /\ new.status = old.status
    BY <2>1, <2>4 DEF IssuanceRows
  <2> QED
    BY <2>1, <2>2, <2>4, <2>5
<1>4. CASE h.insert = "signature"
  <2> DEFINE s == [new EXCEPT !.status = "signed"]
  <2>1. /\ issuance' = [issuance EXCEPT ![w] = s]
        /\ signed' = [signed EXCEPT ![w] = h.view.key]
    BY <1>4, Zenon DEF Commit, CommitSignature
  <2>2. signed[w] = NoKey
    BY <1>4 DEF Commit, Conflict, SignatureTaken
  <2> HIDE DEF new
  <2>3. s \in IssuanceRows /\ s.status = "signed"
    BY <1>3, <1>4 DEF IssuanceRows, IssuanceStatuses
  <2>4. h.view.key \in Keys
    BY <1>3, <1>4 DEF Drafts
  <2> HIDE DEF s
  <2> QED
    BY <1>1, <1>3, <1>4, <2>1, <2>2, <2>3, <2>4
<1>5. CASE h.insert = "failure"
  <2>1. issuance' = [issuance EXCEPT ![w] = new] /\ signed' = signed
    BY <1>5, Zenon DEF Commit, CommitSignature
  <2> HIDE DEF new
  <2> QED
    BY <1>1, <1>3, <1>5, <2>1
<1> QED
  BY <1>2, <1>4, <1>5

\* The issuance that a signer's commit leaves: a first attempt binds it to the number
\* and the key of the signer's copy, a later one keeps both.
LEMMA CommittedIssuance ==
  ASSUME Inv, NEW r \in Requests, Commit(r)
  PROVE  LET h == req[r]  w == h.version IN
         /\ h.insert \notin {"signature", "failure"} => UNCHANGED <<issuance, signed>>
         /\ h.insert \in {"signature", "failure"} =>
              /\ w \in Versions
              /\ \A v \in Versions \ {w} :
                   issuance'[v] = issuance[v] /\ signed'[v] = signed[v]
              /\ issuance'[w].key = IF h.tries > 1 THEN issuance[w].key ELSE h.view.key
              /\ issuance'[w].number = IF h.tries > 1 THEN issuance[w].number ELSE h.view.number
              /\ issuance'[w].tries = h.tries
              /\ h.view \in Drafts /\ h.view.key # NoKey
              /\ issuance'[w].status = IF h.insert = "signature" THEN "signed"
                                       ELSE IF h.tries > 1 THEN issuance[w].status
                                       ELSE "xsd_validated"
         /\ h.insert = "failure" => signed' = signed
         /\ h.insert = "signature" => signed'[w] = h.view.key
<1> DEFINE h == req[r]
           w == h.version
           old == IF h.tries > 1 THEN issuance[w]
                  ELSE [status |-> "xsd_validated", number |-> h.view.number,
                        key |-> h.view.key, tries |-> 0]
           new == [old EXCEPT !.tries = h.tries]
           s == [new EXCEPT !.status = "signed"]
<1>1. h.insert \notin {"signature", "failure"} => UNCHANGED <<issuance, signed>>
  BY DEF Commit, CommitSignature
<1>2. ASSUME h.insert \in {"signature", "failure"}
      PROVE  /\ w \in Versions /\ h.view \in Drafts /\ h.view.key # NoKey
             /\ new.key = old.key /\ new.status = old.status
             /\ new.number = old.number /\ new.tries = h.tries
             /\ s.key = old.key /\ s.status = "signed"
             /\ s.number = old.number /\ s.tries = h.tries
             /\ old.key = IF h.tries > 1 THEN issuance[w].key ELSE h.view.key
             /\ old.number = IF h.tries > 1 THEN issuance[w].number ELSE h.view.number
             /\ old.status = IF h.tries > 1 THEN issuance[w].status ELSE "xsd_validated"
  <2>1. w \in 1..Len(unsigned) /\ h.view \in Drafts /\ h.view.key # NoKey /\ h.tries \in Nat
    BY <1>2, HandlerFields DEF Inv, Typed, InFlight, Commit
  <2>2. w \in Versions
    BY <2>1, BoundsAssumption, LenProperties DEF Inv, Typed, Versions
  <2>3. issuance[w] \in IssuanceRows
    BY <2>2 DEF Inv, Typed
  <2>4. old \in IssuanceRows
    BY <2>1, <2>3 DEF IssuanceRows, IssuanceStatuses, Drafts
  <2>5. /\ old.key = IF h.tries > 1 THEN issuance[w].key ELSE h.view.key
        /\ old.number = IF h.tries > 1 THEN issuance[w].number ELSE h.view.number
        /\ old.status = IF h.tries > 1 THEN issuance[w].status ELSE "xsd_validated"
    OBVIOUS
  <2> HIDE DEF old
  <2>6. /\ new.key = old.key /\ new.status = old.status
        /\ new.number = old.number /\ new.tries = h.tries
        /\ s.key = old.key /\ s.status = "signed"
        /\ s.number = old.number /\ s.tries = h.tries
    BY <2>1, <2>4 DEF IssuanceRows
  <2> QED
    BY <2>1, <2>2, <2>5, <2>6
<1>3. issuance \in [Versions -> IssuanceRows] /\ signed \in [Versions -> Keys]
  BY DEF Inv, Typed
<1>4. CASE h.insert = "signature"
  <2>1. issuance' = [issuance EXCEPT ![w] = s] /\ signed' = [signed EXCEPT ![w] = h.view.key]
    BY <1>4, Zenon DEF Commit, CommitSignature
  <2> HIDE DEF s, new, old
  <2> QED
    BY <1>2, <1>3, <1>4, <2>1
<1>5. CASE h.insert = "failure"
  <2>1. issuance' = [issuance EXCEPT ![w] = new] /\ signed' = signed
    BY <1>5, Zenon DEF Commit, CommitSignature
  <2> HIDE DEF s, new, old
  <2> QED
    BY <1>2, <1>3, <1>5, <2>1
<1> QED
  BY <1>1, <1>4, <1>5

\* What the other handlers hold survives a step that only adds to the draft and
\* to its versions.
LEMMA OthersStay ==
  ASSUME Inv, NEW q \in Requests, req'[q] = req[q], clock' = clock,
         draft.number # 0 => draft'.number # 0,
         draft.key # NoKey => draft'.key # NoKey,
         Len(unsigned') \in Nat, Len(unsigned) <= Len(unsigned')
  PROVE  InFlight(q)'
<1>1. InFlight(q) /\ Len(unsigned) \in Nat
  BY DEF Inv, Typed
<1>2. \A n \in 1..Len(unsigned) : n \in 1..Len(unsigned')
  BY <1>1
<1> QED
  BY <1>1, <1>2 DEF InFlight, Computed

\* A commit keeps the invariant.
LEMMA CommitStep ==
  ASSUME Inv, NEW r \in Requests, Commit(r)
  PROVE  Inv'
<1>1. /\ req' = [req EXCEPT ![r] = Idle] /\ clock' = clock
      /\ req \in [Requests -> Handlers]
  BY DEF Commit, Inv, Typed
<1>7. lapses' \subseteq {"order", "removal"}
  BY DEF Commit, Inv, Typed
<1>2. Typed'
  BY <1>1, <1>7, IdleType, CommittedDraft, CommittedVersions, CommittedSignature
  DEF Inv, Typed
<1>3. Len(unsigned') \in Nat
  BY <1>2 DEF Typed
<1>4. ASSUME NEW q \in Requests PROVE InFlight(q)'
  <2>1. CASE q = r
    <3>1. req'[q] = Idle
      BY <1>1, <2>1
    <3> QED
      BY <3>1, IdleType DEF InFlight
  <2>2. CASE q # r
    <3>1. req'[q] = req[q]
      BY <1>1, <2>2
    <3> QED
      BY <1>1, <1>3, <3>1, CommittedDraft, CommittedVersions, OthersStay
  <2> QED
    BY <2>1, <2>2
<1>6. Clocked'
  <2>1. Past(draft', clock')
    BY <1>1, CommittedDraft
  <2>2. \A v \in 1..Len(unsigned) : unsigned[v].stamp <= clock
    BY DEF Inv, Clocked
  <2>3. req[r].insert = "xml" => req[r].row.stamp <= clock
    BY DEF Inv, InFlight, Commit
  <2>4. Len(unsigned) \in Nat
    BY DEF Inv, Typed
  <2> QED
    BY <1>1, <2>1, <2>2, <2>3, <2>4, CommittedRows DEF Clocked
<1>5. Bound'
  <2>1. unsigned' # << >> => draft'.key # NoKey
    BY CommittedDraft, CommittedVersions DEF Inv, Bound
  <2>2. ASSUME NEW v \in Versions, issuance'[v].status \notin {"absent", "xsd_validated"}
        PROVE  signed'[v] # NoKey
    BY <2>2, CommittedSignature DEF Inv, Bound
  <2> QED
    BY <2>1, <2>2 DEF Bound
<1> QED
  BY <1>2, <1>4, <1>5, <1>6 DEF Inv

\* Sending a signed issuance keeps it.
LEMMA TransmitStep ==
  ASSUME Inv, NEW v \in Versions, Transmit(v)
  PROVE  Inv'
<1>1. /\ issuance' = [issuance EXCEPT ![v].status = "submission_pending"]
      /\ UNCHANGED <<draft, unsigned, signed, lastNumber, req, clock, lapses>>
      /\ issuance[v].status = "signed" /\ issuance \in [Versions -> IssuanceRows]
  BY DEF Transmit, Inv, Typed
<1> DEFINE i == [issuance[v] EXCEPT !.status = "submission_pending"]
<1>2. i \in IssuanceRows /\ i.status = "submission_pending"
  BY <1>1 DEF IssuanceRows, IssuanceStatuses
<1>3. issuance' = [issuance EXCEPT ![v] = i]
  BY <1>1
<1> HIDE DEF i
<1>4. Typed'
  BY <1>1, <1>2, <1>3 DEF Inv, Typed
<1>5. Bound'
  BY <1>1, <1>2, <1>3 DEF Inv, Bound
<1>6. \A q \in Requests : InFlight(q)'
  BY <1>1, OthersStay DEF Inv, Typed
<1>7. Clocked'
  BY <1>1 DEF Inv, Clocked
<1> QED
  BY <1>4, <1>5, <1>6, <1>7 DEF Inv

\* Storing the verdict keeps it.
LEMMA FinishStep ==
  ASSUME Inv, NEW v \in Versions, Finish(v)
  PROVE  Inv'
<1>1. PICK verdict \in {"authorized", "rejected"} :
        /\ issuance' = [issuance EXCEPT ![v].status = verdict]
        /\ draft' = [draft EXCEPT !.status = verdict]
  BY DEF Finish
<1>2. /\ UNCHANGED <<unsigned, signed, lastNumber, req, clock, lapses>>
      /\ issuance[v].status = "submission_pending"
      /\ issuance \in [Versions -> IssuanceRows] /\ draft \in Drafts
  BY DEF Finish, Inv, Typed
<1> DEFINE i == [issuance[v] EXCEPT !.status = verdict]
<1>3. i \in IssuanceRows /\ i.status = verdict
  BY <1>2 DEF IssuanceRows, IssuanceStatuses
<1>4. issuance' = [issuance EXCEPT ![v] = i]
  BY <1>1
<1> HIDE DEF i
<1>5. /\ draft' \in Drafts /\ draft'.key = draft.key /\ draft'.number = draft.number
      /\ draft'.stamp = draft.stamp /\ draft'.payload = draft.payload
  BY <1>1, <1>2 DEF Drafts, DraftStatuses
<1>6. Typed'
  BY <1>2, <1>3, <1>4, <1>5 DEF Inv, Typed
<1>7. Bound'
  BY <1>2, <1>3, <1>4, <1>5 DEF Inv, Bound
<1>8. \A q \in Requests : InFlight(q)'
  BY <1>2, <1>5, OthersStay DEF Inv, Typed
<1>9. Clocked'
  BY <1>2, <1>5 DEF Inv, Clocked, Past
<1> QED
  BY <1>6, <1>7, <1>8, <1>9 DEF Inv

\* The invariant is inductive.
LEMMA NextInv == Inv /\ [Next]_vars => Inv'
<1> SUFFICES ASSUME Inv, [Next]_vars PROVE Inv'
  OBVIOUS
<1>1. ASSUME NEW r \in Requests, NEW op \in Ops, NEW v \in {0} \cup Versions, Load(r, op, v)
      PROVE  Inv'
  BY <1>1, LoadStep
<1>2. ASSUME NEW r \in Requests, Method(r) \/ Commit(r) \/ Rollback(r)
      PROVE  Inv'
  BY <1>2, MethodStep, CommitStep, RollbackStep
<1>3. ASSUME NEW v \in Versions, Transmit(v) \/ Finish(v)
      PROVE  Inv'
  BY <1>3, TransmitStep, FinishStep
<1>4. CASE UNCHANGED vars
  BY <1>4 DEF vars, Inv, Typed, InFlight, Computed, Bound, Clocked
<1> QED
  BY <1>1, <1>2, <1>3, <1>4 DEF Next

\* The invariant holds throughout.
LEMMA AlwaysInv == Spec => []Inv
BY InitInv, NextInv, PTL DEF Spec

-----------------------------------------------------------------------------

\* The rows and what handlers hold are typed; numbers stay within the clock, so
\* the sequence never runs ahead of the keys that were generated.
THEOREM TypeCorrect == Spec => []TypeOK
<1>1. Inv => TypeOK
  <2> SUFFICES ASSUME Inv PROVE TypeOK
    OBVIOUS
  <2>1. ASSUME NEW r \in Requests
        PROVE  /\ req[r].phase \in {"idle", "loaded", "done"} /\ req[r].op \in Ops
               /\ req[r].phase # "idle" => req[r].view \in Drafts
               /\ req[r].phase = "done" => Written(req[r].view, req[r].update) \in Drafts
    <3>1. InFlight(r) /\ req[r] \in Handlers
      BY DEF Inv, Typed
    <3>2. ASSUME req[r].phase = "done"
          PROVE  Written(req[r].view, req[r].update) \in Drafts
      <4>1. PICK c \in Drafts : req[r].update = Update(req[r].view, c)
        BY <3>1, <3>2 DEF InFlight, Computed
      <4> QED
        BY <3>1, <3>2, <4>1, WrittenColumns DEF InFlight
    <3> QED
      BY <3>1, <3>2, HandlerFields DEF InFlight
  <2> QED
    BY <2>1 DEF Inv, Typed, TypeOK
<1> QED
  BY <1>1, AlwaysInv, PTL

\* Every attempt to sign is counted: an issuance exists from its first attempt on, and
\* an attempt that waits for its commit is the next one or was overtaken.
Attempts ==
  /\ \A v \in Versions : issuance[v].status = "absent" <=> issuance[v].tries = 0
  /\ \A r \in Requests :
       req[r].phase = "done" /\ req[r].insert \in {"signature", "failure"} =>
         req[r].tries \in 1..(issuance[req[r].version].tries + 1)

LEMMA AttemptsInit == Init => Attempts
BY IdleType DEF Init, Attempts, Absent

\* A commit of an attempt is that of the next one; it changes nothing else.
LEMMA CommittedAttempt ==
  ASSUME Inv, Attempts, NEW r \in Requests, Commit(r),
         req[r].insert \in {"signature", "failure"}
  PROVE  /\ req[r].version \in Versions
         /\ issuance[req[r].version].tries \in Nat
         /\ req[r].tries = issuance[req[r].version].tries + 1
<1> DEFINE h == req[r]
           w == h.version
<1>1. w \in Versions
  BY CommittedIssuance
<1>2. issuance[w].tries \in Nat
  BY <1>1 DEF Inv, Typed, IssuanceRows
<1>3. h.tries \in 1..(issuance[w].tries + 1)
  BY DEF Attempts, Commit
<1>4. ~(h.tries <= issuance[w].tries)
  BY DEF Commit, Conflict, SignatureTaken
<1> QED
  BY <1>1, <1>2, <1>3, <1>4

\* What a step that leaves handler q alone and counts no attempt back keeps of it.
LEMMA AttemptsStay ==
  ASSUME Inv, Attempts, NEW q \in Requests, req'[q] = req[q],
         \A v \in Versions : issuance'[v].tries \in Nat /\ issuance[v].tries <= issuance'[v].tries
  PROVE  req'[q].phase = "done" /\ req'[q].insert \in {"signature", "failure"} =>
           req'[q].tries \in 1..(issuance'[req'[q].version].tries + 1)
<1> SUFFICES ASSUME req[q].phase = "done", req[q].insert \in {"signature", "failure"}
             PROVE  req[q].tries \in 1..(issuance'[req[q].version].tries + 1)
  OBVIOUS
<1> DEFINE w == req[q].version
<1>1. w \in 1..Len(unsigned)
  BY DEF Inv, InFlight
<1>2. w \in Versions
  BY <1>1, BoundsAssumption, LenProperties DEF Inv, Typed, Versions
<1>3. /\ issuance[w].tries \in Nat /\ issuance'[w].tries \in Nat
      /\ issuance[w].tries <= issuance'[w].tries
  BY <1>2 DEF Inv, Typed, IssuanceRows
<1>4. req[q].tries \in 1..(issuance[w].tries + 1)
  BY DEF Attempts
<1> QED
  BY <1>3, <1>4

\* A method of handler r counts the attempts that are committed.
LEMMA AttemptsMethod ==
  ASSUME Inv, Attempts, NEW r \in Requests, Method(r)
  PROVE  Attempts'
<1>1. PICK op \in Ops, c \in Drafts, insert \in Insertions : Computes(r, op, c, insert)
  BY MethodComputes
<1>2. Runs(r, op, c, insert) /\ Inserted(r, op, c, insert)
  BY <1>1 DEF Computes
<1>3. /\ req' = [req EXCEPT ![r] = req'[r]] /\ UNCHANGED issuance
      /\ req'[r].insert = insert.what /\ req'[r].tries = insert.tries
      /\ req'[r].version = req[r].version /\ req'[r].op = op
      /\ req[r].phase = "loaded" /\ req[r].op = op
  BY <1>2, RunsFields
<1>4. \A v \in Versions : issuance[v].tries \in Nat
  BY DEF Inv, Typed, IssuanceRows
<1>5. ASSUME req'[r].insert \in {"signature", "failure"}
      PROVE  req'[r].tries \in 1..(issuance'[req'[r].version].tries + 1)
  <2>1. /\ op \in {"xsd", "sign"} /\ insert.tries = issuance[req[r].version].tries + 1
    BY <1>2, <1>3, <1>5 DEF Inserted
  <2>2. req[r].version \in 1..Len(unsigned)
    BY <1>3, <2>1 DEF Inv, InFlight
  <2>3. req[r].version \in Versions
    BY <2>2, BoundsAssumption, LenProperties DEF Inv, Typed, Versions
  <2> QED
    BY <1>3, <1>4, <2>1, <2>3
<1>6. ASSUME NEW q \in Requests
      PROVE  req'[q].phase = "done" /\ req'[q].insert \in {"signature", "failure"} =>
               req'[q].tries \in 1..(issuance'[req'[q].version].tries + 1)
  <2>1. CASE q = r
    BY <1>5, <2>1
  <2>2. CASE q # r
    <3>1. req'[q] = req[q]
      BY <1>3, <2>2 DEF Inv, Typed
    <3> QED
      BY <1>3, <1>4, <3>1, AttemptsStay
  <2> QED
    BY <2>1, <2>2
<1> QED
  BY <1>3, <1>6 DEF Attempts

\* A commit counts at most one attempt, its own.
LEMMA AttemptsCommit ==
  ASSUME Inv, Attempts, NEW r \in Requests, Commit(r)
  PROVE  Attempts'
<1> DEFINE h == req[r]
           w == h.version
<1>1. /\ req' = [req EXCEPT ![r] = Idle] /\ req \in [Requests -> Handlers]
      /\ \A v \in Versions : issuance[v].tries \in Nat
  BY DEF Commit, Inv, Typed, IssuanceRows
<1>2. \A v \in Versions :
        /\ issuance'[v].tries \in Nat /\ issuance[v].tries <= issuance'[v].tries
        /\ issuance'[v].status = "absent" <=> issuance'[v].tries = 0
  <2>1. CASE h.insert \notin {"signature", "failure"}
    <3>1. UNCHANGED issuance
      BY <2>1, CommittedIssuance
    <3> QED
      BY <1>1, <3>1 DEF Attempts
  <2>2. CASE h.insert \in {"signature", "failure"}
    <3>1. /\ w \in Versions /\ \A v \in Versions \ {w} : issuance'[v] = issuance[v]
          /\ issuance'[w].tries = h.tries
          /\ issuance'[w].status = IF h.insert = "signature" THEN "signed"
                                   ELSE IF h.tries > 1 THEN issuance[w].status
                                   ELSE "xsd_validated"
      BY <2>2, CommittedIssuance
    <3>2. issuance[w].tries \in Nat /\ h.tries = issuance[w].tries + 1
      BY <2>2, CommittedAttempt
    <3>3. h.tries > 1 => issuance[w].status # "absent"
      BY <3>1, <3>2 DEF Attempts
    <3> QED
      BY <1>1, <3>1, <3>2, <3>3 DEF Attempts
  <2> QED
    BY <2>1, <2>2
<1>3. ASSUME NEW q \in Requests
      PROVE  req'[q].phase = "done" /\ req'[q].insert \in {"signature", "failure"} =>
               req'[q].tries \in 1..(issuance'[req'[q].version].tries + 1)
  <2>1. CASE q = r
    BY <1>1, <2>1, IdleType
  <2>2. CASE q # r
    <3>1. req'[q] = req[q]
      BY <1>1, <2>2
    <3> QED
      BY <1>2, <3>1, AttemptsStay
  <2> QED
    BY <2>1, <2>2
<1> QED
  BY <1>2, <1>3 DEF Attempts

\* Transmission and verdict change a status and no attempt.
LEMMA Transmission ==
  ASSUME Inv, NEW v \in Versions, Transmit(v) \/ Finish(v)
  PROVE  /\ UNCHANGED <<signed, req>>
         /\ \A u \in Versions \ {v} : issuance'[u] = issuance[u]
         /\ issuance'[v].number = issuance[v].number /\ issuance'[v].key = issuance[v].key
         /\ issuance'[v].tries = issuance[v].tries
         /\ Transmit(v) => issuance'[v].status = "submission_pending"
         /\ Finish(v) => issuance'[v].status \in {"authorized", "rejected"}
         /\ issuance[v].status \in {"signed", "submission_pending"}
<1>1. issuance \in [Versions -> IssuanceRows]
  BY DEF Inv, Typed
<1>2. CASE Transmit(v)
  <2>1. /\ issuance' = [issuance EXCEPT ![v].status = "submission_pending"]
        /\ UNCHANGED <<signed, req>> /\ issuance[v].status = "signed"
    BY <1>2 DEF Transmit
  <2>2. ~Finish(v)
    BY <2>1 DEF Finish
  <2> QED
    BY <1>1, <1>2, <2>1, <2>2 DEF IssuanceRows
<1>3. CASE Finish(v)
  <2>1. PICK verdict \in {"authorized", "rejected"} :
          issuance' = [issuance EXCEPT ![v].status = verdict]
    BY <1>3 DEF Finish
  <2>2. UNCHANGED <<signed, req>> /\ issuance[v].status = "submission_pending"
    BY <1>3 DEF Finish
  <2>3. ~Transmit(v)
    BY <2>2 DEF Transmit
  <2> QED
    BY <1>1, <1>3, <2>1, <2>2, <2>3 DEF IssuanceRows
<1> QED
  BY <1>2, <1>3

LEMMA AttemptsNext == Inv /\ Attempts /\ [Next]_vars => Attempts'
<1> SUFFICES ASSUME Inv, Attempts, [Next]_vars PROVE Attempts'
  OBVIOUS
<1>1. \A v \in Versions : issuance[v].tries \in Nat
  BY DEF Inv, Typed, IssuanceRows
<1>2. ASSUME NEW r \in Requests, req'[r].phase # "done", UNCHANGED issuance,
             \A q \in Requests \ {r} : req'[q] = req[q]
      PROVE  Attempts'
  BY <1>1, <1>2, AttemptsStay DEF Attempts
<1>3. ASSUME NEW r \in Requests, NEW op \in Ops, NEW v \in {0} \cup Versions, Load(r, op, v)
      PROVE  Attempts'
  <2>1. /\ req'[r].phase = "loaded" /\ UNCHANGED issuance
        /\ \A q \in Requests \ {r} : req'[q] = req[q]
    BY <1>3 DEF Load, Inv, Typed, Idle
  <2> QED
    BY <1>2, <2>1
<1>4. ASSUME NEW r \in Requests, Rollback(r) PROVE Attempts'
  <2>1. /\ req'[r] = Idle /\ UNCHANGED issuance
        /\ \A q \in Requests \ {r} : req'[q] = req[q]
    BY <1>4 DEF Rollback, Inv, Typed
  <2> QED
    BY <1>2, <2>1, IdleType
<1>5. ASSUME NEW r \in Requests, Method(r) \/ Commit(r) PROVE Attempts'
  BY <1>5, AttemptsMethod, AttemptsCommit
<1>6. ASSUME NEW v \in Versions, Transmit(v) \/ Finish(v) PROVE Attempts'
  <2>1. \A u \in Versions : /\ issuance'[u].tries = issuance[u].tries
                            /\ issuance'[u].status = "absent" <=> issuance[u].status = "absent"
    BY <1>6, Transmission
  <2>2. UNCHANGED req
    BY <1>6, Transmission
  <2> QED
    BY <1>1, <2>1, <2>2, AttemptsStay DEF Attempts
<1>7. CASE UNCHANGED vars
  BY <1>7 DEF vars, Attempts
<1> QED
  BY <1>3, <1>4, <1>5, <1>6, <1>7 DEF Next

LEMMA AlwaysAttempts == Spec => [](Inv /\ Attempts)
BY InitInv, NextInv, AttemptsInit, AttemptsNext, PTL DEF Spec

\* Steps that leave the issuances and the signed versions alone are stutters.
LEMMA SignatureStutter ==
  ASSUME UNCHANGED <<issuance, signed>>
  PROVE  UNCHANGED Promise!vars
BY DEF Promise!vars, Stage

LEMMA SignatureInit == Init => Promise!Init
BY DEF Init, Promise!Init, Stage, Absent, NoKey

\* What a change of one issuance looks like to the promise.
LEMMA OneStage ==
  ASSUME NEW w \in Versions, NEW s, Stage(w)' = s,
         \A v \in Versions \ {w} : issuance'[v] = issuance[v]
  PROVE  [v \in Versions |-> Stage(v)]' = [[v \in Versions |-> Stage(v)] EXCEPT ![w] = s]
<1>1. \A v \in Versions \ {w} : Stage(v)' = Stage(v)
  BY DEF Stage
<1> QED
  BY <1>1

\* The commit of an attempt binds, signs, does both, or adds a failure that the
\* promise does not see.
LEMMA SignatureCommit ==
  ASSUME Inv, Attempts, NEW r \in Requests, Commit(r)
  PROVE  Promise!Next \/ UNCHANGED Promise!vars
<1> DEFINE h == req[r]
<1>1. CASE h.insert \notin {"signature", "failure"}
  BY <1>1, CommittedIssuance, SignatureStutter
<1>2. CASE h.insert \in {"signature", "failure"}
  <2>0. PICK w \in Versions, n \in Numbers, k \in Keys :
          w = h.version /\ n = h.view.number /\ k = h.view.key /\ k # NoKey
    BY <1>2, CommittedIssuance DEF Drafts
  <2>1. /\ \A v \in Versions \ {w} : issuance'[v] = issuance[v] /\ signed'[v] = signed[v]
        /\ issuance'[w].key = IF h.tries > 1 THEN issuance[w].key ELSE k
        /\ issuance'[w].number = IF h.tries > 1 THEN issuance[w].number ELSE n
        /\ issuance'[w].status = IF h.insert = "signature" THEN "signed"
                                 ELSE IF h.tries > 1 THEN issuance[w].status
                                 ELSE "xsd_validated"
        /\ h.insert = "failure" => signed' = signed
        /\ h.insert = "signature" => signed'[w] = k
    BY <1>2, <2>0, CommittedIssuance
  <2>2. issuance[w].tries \in Nat /\ h.tries = issuance[w].tries + 1
    BY <1>2, <2>0, CommittedAttempt
  <2>3. signed \in [Versions -> Keys] /\ signed' \in [Versions -> Keys]
    BY CommittedSignature DEF Inv, Typed
  <2>4. h.tries = 1 <=> issuance[w].status = "absent"
    BY <2>2 DEF Attempts
  <2>5. h.insert = "signature" =>
          /\ signed[w] = NoKey /\ issuance[w].status \in {"absent", "xsd_validated"}
          /\ signed' = [signed EXCEPT ![w] = k]
    <3>1. h.insert = "signature" => signed[w] = NoKey
      BY <2>0 DEF Commit, Conflict, SignatureTaken
    <3> QED
      BY <2>1, <2>3, <3>1 DEF Inv, Bound
  <2>6. ASSUME h.tries = 1 PROVE Promise!Identify(w) /\ issuance'[w].key = k
    <3>1. \A v \in Versions :
            issuance[v].status # "absent" => issuance[v].number # n /\ issuance[v].key # k
      BY <1>2, <2>0, <2>6 DEF Commit, Conflict, IdentityTaken
    <3>2. \A v \in Versions : Stage(v) # "unbound" => issuance[v].status # "absent"
      BY DEF Stage
    <3>3. issuance'[w].key = k /\ issuance'[w].number = n
      BY <2>1, <2>6
    <3>4. /\ [v \in Versions |-> issuance[v].number]' =
               [[v \in Versions |-> issuance[v].number] EXCEPT ![w] = n]
          /\ [v \in Versions |-> issuance[v].key]' =
               [[v \in Versions |-> issuance[v].key] EXCEPT ![w] = k]
      BY <2>1, <3>3
    <3>5. \A v \in Versions :
            [x \in Versions |-> Stage(x)][v] # "unbound" =>
              /\ [x \in Versions |-> issuance[x].number][v] # n
              /\ [x \in Versions |-> issuance[x].key][v] # k
      BY <3>1, <3>2
    <3>6. Promise!Identify(w)
      BY <3>4, <3>5, Zenon DEF Promise!Identify
    <3> QED
      BY <3>3, <3>6
  <2>7. CASE h.insert = "signature"
    <3>1. Stage(w)' = "signed"
      BY <2>1, <2>7 DEF Stage
    <3>2. Promise!Seal(w, k)
      <4>1. [v \in Versions |-> Stage(v)]' = [[v \in Versions |-> Stage(v)] EXCEPT ![w] = "signed"]
        BY <2>1, <3>1, OneStage
      <4> QED
        BY <2>0, <2>5, <2>7, <4>1 DEF Promise!Seal
    <3>3. CASE h.tries = 1
      <4>1. Stage(w) = "unbound"
        BY <2>4, <3>3 DEF Stage
      <4>2. [v \in Versions |-> issuance[v].key]'[w] = k
        BY <2>6, <3>3
      <4>3. Promise!Seal(w, [v \in Versions |-> issuance[v].key]'[w])
        BY <3>2, <4>2
      <4>4. Promise!BindAndSign(w)
        BY <2>6, <3>3, <4>1, <4>3 DEF Promise!BindAndSign
      <4> QED
        BY <4>4 DEF Promise!Next
    <3>4. CASE h.tries # 1
      <4>1. Stage(w) = "bound"
        BY <2>4, <2>5, <2>7, <3>4 DEF Stage
      <4>2. \A v \in Versions : /\ issuance'[v].number = issuance[v].number
                                /\ issuance'[v].key = issuance[v].key
        BY <2>1, <2>2, <3>4
      <4>3. Promise!Sign(w)
        BY <3>2, <4>1, <4>2 DEF Promise!Sign
      <4> QED
        BY <4>3 DEF Promise!Next
    <3> QED
      BY <3>3, <3>4
  <2>8. CASE h.insert = "failure"
    <3>1. CASE h.tries = 1
      <4>1. Stage(w) = "unbound" /\ Stage(w)' = "bound" /\ signed' = signed
        BY <2>1, <2>4, <2>8, <3>1 DEF Stage
      <4>2. [v \in Versions |-> Stage(v)]' = [[v \in Versions |-> Stage(v)] EXCEPT ![w] = "bound"]
        BY <2>1, <4>1, OneStage
      <4>3. Promise!Bind(w)
        BY <2>6, <3>1, <4>1, <4>2 DEF Promise!Bind
      <4> QED
        BY <4>3 DEF Promise!Next
    <3>2. CASE h.tries # 1
      <4>1. \A v \in Versions : /\ issuance'[v].number = issuance[v].number
                                /\ issuance'[v].key = issuance[v].key
                                /\ issuance'[v].status = issuance[v].status
        BY <2>1, <2>2, <2>8, <3>2
      <4>2. signed' = signed /\ \A v \in Versions : Stage(v)' = Stage(v)
        BY <2>1, <2>8, <4>1 DEF Stage
      <4> QED
        BY <4>1, <4>2 DEF Promise!vars
    <3> QED
      BY <3>1, <3>2
  <2> QED
    BY <1>2, <2>7, <2>8
<1> QED
  BY <1>1, <1>2

\* Transmission and verdict are steps of the promise.
LEMMA SignatureSent ==
  ASSUME Inv, NEW w \in Versions, Transmit(w) \/ Finish(w)
  PROVE  Promise!Next
<1>1. /\ UNCHANGED signed
      /\ \A u \in Versions \ {w} : issuance'[u] = issuance[u]
      /\ \A u \in Versions : /\ issuance'[u].number = issuance[u].number
                             /\ issuance'[u].key = issuance[u].key
  BY Transmission
<1>2. CASE Transmit(w)
  <2>1. /\ issuance[w].status = "signed" /\ signed[w] = issuance[w].key
        /\ \A u \in Versions : u > w => signed[u] = NoKey
    BY <1>2 DEF Transmit
  <2>2. issuance'[w].status = "submission_pending"
    BY <1>2, Transmission
  <2>3. Stage(w) = "signed" /\ Stage(w)' = "sent"
    BY <2>1, <2>2 DEF Stage
  <2>4. Promise!Send(w)
    BY <1>1, <2>1, <2>3, OneStage DEF Promise!Send
  <2> QED
    BY <2>4 DEF Promise!Next
<1>3. CASE Finish(w)
  <2>1. issuance[w].status = "submission_pending"
    BY <1>3 DEF Finish
  <2>2. issuance'[w].status \in {"authorized", "rejected"}
    BY <1>3, Transmission
  <2>3. Stage(w) = "sent" /\ Stage(w)' \in {"authorized", "rejected"}
    BY <2>1, <2>2 DEF Stage
  <2>4. Promise!Judge(w)
    BY <1>1, <2>3, OneStage DEF Promise!Judge
  <2> QED
    BY <2>4 DEF Promise!Next
<1> QED
  BY <1>2, <1>3

LEMMA SignatureNext == Inv /\ Attempts /\ [Next]_vars => [Promise!Next]_(Promise!vars)
<1> SUFFICES ASSUME Inv, Attempts, [Next]_vars PROVE Promise!Next \/ UNCHANGED Promise!vars
  OBVIOUS
<1>1. ASSUME NEW r \in Requests, Method(r) PROVE UNCHANGED <<issuance, signed>>
  BY <1>1 DEF Method, GenerateKey, GenerateXml, ValidateXml, Sign, ValidateDraft, Edit,
              SoftDelete, Runs
<1>2. ASSUME NEW r \in Requests, Commit(r) PROVE Promise!Next \/ UNCHANGED Promise!vars
  BY <1>2, SignatureCommit
<1>3. ASSUME NEW v \in Versions, Transmit(v) \/ Finish(v) PROVE Promise!Next
  BY <1>3, SignatureSent
<1> QED
  BY <1>1, <1>2, <1>3, SignatureStutter DEF Next, Load, Rollback, vars

\* Whatever signers overlap (sign_xml_version, the commit of sign_xml and transmit):
\* the unique constraints alone keep the promise of OneSignature.
THEOREM SignatureKeepsPromise == Spec => SignsAsPromised
BY SignatureInit, SignatureNext, AlwaysAttempts, PTL DEF Spec, SignsAsPromised, Promise!Spec

\* No commit of a stale copy brings a removed draft back or takes its number or
\* its key away: the UPDATE of a handler names only the columns its service
\* method changed, and none of them is changed to a loss.
THEOREM GainsKept == Spec => GainsAreKept
<1> DEFINE Kept == /\ draft.mode # "active" => draft'.mode # "active"
                   /\ draft.number # 0 => draft'.number # 0
                   /\ draft.key # NoKey => draft'.key # NoKey
<1>1. ASSUME Inv, [Next]_vars PROVE Kept
  <2>1. ASSUME NEW r \in Requests, Commit(r) PROVE Kept
    BY <1>1, <2>1, CommittedDraft
  <2>2. CASE UNCHANGED draft
    BY <2>2
  <2>3. ASSUME NEW r \in Requests, Method(r)
        PROVE  UNCHANGED draft
    BY <2>3 DEF Method, GenerateKey, GenerateXml, ValidateXml, Sign, ValidateDraft, Edit,
                SoftDelete, Runs
  <2>4. ASSUME NEW v \in Versions, Finish(v) PROVE Kept
    <3>1. PICK verdict \in {"authorized", "rejected"} :
            draft' = [draft EXCEPT !.status = verdict]
      BY <2>4 DEF Finish
    <3>2. draft \in Drafts
      BY <1>1 DEF Inv, Typed
    <3> QED
      BY <3>1, <3>2 DEF Drafts
  <2> QED
    BY <1>1, <2>1, <2>2, <2>3, <2>4 DEF Next, Load, Rollback, Transmit, vars
<1>2. Inv /\ [Next]_vars => [Kept]_vars
  BY <1>1
<1> QED
  BY <1>2, AlwaysInv, PTL DEF Spec, GainsAreKept

-----------------------------------------------------------------------------
(* Part 2: the order of the writes and of their times *)

\* The service method of handler h computed the draft c at time n: later than
\* all that it saw, which is its copy of the draft and the XML it found.
Ran(h, c, n) ==
  /\ h.update = Update(h.view, c)
  /\ n <= clock /\ Past(h.view, n - 1)
  /\ h.built \in 0..Len(unsigned)
  /\ \A v \in 1..h.built : unsigned[v].stamp < n
  /\ DatedAt(h.view, c, h.insert, n)
  /\ h.insert = "xml" =>
       h.row.key = c.key /\ h.row.payload = c.payload /\ h.row.stamp = n /\ c.stamp = n
  /\ c.mode # h.view.mode => h.insert = "nothing" /\ h.sealed = {}
Timed ==
  \A r \in Requests :
    req[r].phase = "done" => \E c \in Drafts, n \in Times : Ran(req[r], c, n)

\* A signed version has its issuance; what was removed was not signed.
Kept ==
  /\ \A v \in Versions : signed[v] # NoKey => issuance[v].status # "absent"
  /\ draft.mode # "active" /\ "removal" \notin lapses => Sealed = {}

\* The time t is earlier than the last change of the payload p.
Precedes(t, p) == t < p.rev \/ t < p.key.drawn

\* An XML that does not reflect the draft is older than the draft and than its
\* payload; the keys agree everywhere.
Reflects ==
  /\ draft.payload.key = draft.key
  /\ \A v \in 1..Len(unsigned) :
       /\ unsigned[v].key = unsigned[v].payload.key
       /\ \/ unsigned[v].payload = draft.payload
          \/ unsigned[v].stamp < draft.stamp /\ Precedes(unsigned[v].stamp, draft.payload)
  /\ \A v \in Versions : issuance[v].status # "absent" =>
       v \in 1..Len(unsigned) /\ issuance[v].key = unsigned[v].key

\* What a handler loaded reflects the XML it was asked to sign, or is newer; after
\* the check of the signer it reflects it.
Seen(r) ==
  LET h == req[r]  v == h.version IN
  /\ h.phase # "idle" => h.view.key = h.view.payload.key
  /\ h.phase # "idle" /\ h.op = "sign" =>
       unsigned[v].payload = h.view.payload \/ unsigned[v].stamp < h.view.stamp
  /\ h.phase = "done" /\ h.insert \in {"signature", "failure"} =>
       h.op = "sign" /\ unsigned[v].payload = h.view.payload

Ordered == "order" \notin lapses => Reflects /\ \A r \in Requests : Seen(r)

Chronicle == Timed /\ Kept /\ Ordered

LEMMA ChronicleInit == Init => Chronicle
<1> SUFFICES ASSUME Init PROVE Chronicle
  OBVIOUS
<1>1. Timed /\ \A r \in Requests : Seen(r)
  BY IdleType DEF Init, Timed, Seen
<1>2. Kept
  BY DEF Init, Kept, Sealed
<1>3. Reflects
  BY DEF Init, Reflects, Absent
<1> QED
  BY <1>1, <1>2, <1>3 DEF Chronicle, Ordered

\* What a handler that a step leaves alone holds, when the step only adds to the
\* XML and the clock.
LEMMA HeldStays ==
  ASSUME Inv, Timed, NEW q \in Requests, req'[q] = req[q],
         clock' \in Int, clock <= clock',
         Len(unsigned') \in Nat, Len(unsigned) <= Len(unsigned'),
         \A v \in 1..Len(unsigned) : /\ unsigned'[v].payload = unsigned[v].payload
                                     /\ unsigned'[v].stamp = unsigned[v].stamp
  PROVE  /\ req'[q].phase = "done" => \E c \in Drafts, n \in Times : Ran(req[q], c, n)'
         /\ Seen(q) => Seen(q)'
<1>1. clock \in Int /\ Len(unsigned) \in Nat /\ InFlight(q)
  BY DEF Inv, Typed, Times
<1>2. ASSUME req[q].phase = "done"
      PROVE  \E c \in Drafts, n \in Times : Ran(req[q], c, n)'
  <2>1. PICK c \in Drafts, n \in Times : Ran(req[q], c, n)
    BY <1>2 DEF Timed
  <2>2. n \in Int
    BY DEF Times
  <2>3. req[q].built \in 0..Len(unsigned) /\ req[q].built \in 0..Len(unsigned')
    BY <1>1, <2>1 DEF Ran
  <2>4. \A v \in 1..req[q].built : v \in 1..Len(unsigned)
    BY <1>1, <2>3
  <2>5. Ran(req[q], c, n)'
    BY SMTT(30), <1>1, <2>1, <2>2, <2>3, <2>4 DEF Ran
  <2> QED
    BY <2>5
<1>3. ASSUME Seen(q) PROVE Seen(q)'
  <2>1. /\ req[q].phase # "idle" /\ req[q].op = "sign" => req[q].version \in 1..Len(unsigned)
        /\ req[q].phase = "done" /\ req[q].insert \in {"signature", "failure"} =>
             req[q].version \in 1..Len(unsigned)
    BY <1>1 DEF InFlight
  <2> QED
    BY <1>3, <2>1 DEF Seen
<1> QED
  BY <1>2, <1>3

\* A step of handler r before its commit: the committed rows stay.
LEMMA ChronicleStep ==
  ASSUME Inv, Chronicle, NEW r \in Requests, req' = [req EXCEPT ![r] = req'[r]],
         UNCHANGED <<draft, unsigned, signed, issuance, lastNumber, lapses>>,
         clock' \in Times, clock <= clock',
         req'[r].phase = "done" => \E c \in Drafts, n \in Times : Ran(req[r], c, n)',
         "order" \notin lapses => Seen(r)'
  PROVE  Chronicle'
<1>1. \A q \in Requests \ {r} : req'[q] = req[q]
  BY DEF Inv, Typed
<1>2. clock' \in Int /\ Len(unsigned) \in Nat
  BY DEF Inv, Typed, Times
<1>3. ASSUME NEW q \in Requests \ {r}
      PROVE  /\ req'[q].phase = "done" => \E c \in Drafts, n \in Times : Ran(req[q], c, n)'
             /\ Seen(q) => Seen(q)'
  <2>1. Timed
    BY DEF Chronicle
  <2>2. q \in Requests /\ req'[q] = req[q]
    BY <1>1
  <2>3. /\ Len(unsigned') \in Nat /\ Len(unsigned) <= Len(unsigned')
        /\ \A v \in 1..Len(unsigned) : /\ unsigned'[v].payload = unsigned[v].payload
                                       /\ unsigned'[v].stamp = unsigned[v].stamp
    BY <1>2
  <2> QED
    BY <1>2, <2>1, <2>2, <2>3, HeldStays
<1>4. Timed'
  BY <1>3 DEF Timed
<1>5. Kept'
  BY DEF Chronicle, Kept, Sealed
<1>6. Ordered'
  BY <1>3 DEF Chronicle, Ordered, Reflects
<1> QED
  BY <1>4, <1>5, <1>6 DEF Chronicle

\* A handler loads the draft as it is, and may be asked to sign any XML of it.
LEMMA ChronicleLoad ==
  ASSUME Inv, Chronicle, NEW r \in Requests, NEW op \in Ops, NEW v \in {0} \cup Versions,
         Load(r, op, v)
  PROVE  Chronicle'
<1>1. /\ req'[r].phase = "loaded" /\ req'[r].op = op /\ req'[r].version = v
      /\ req'[r].view = draft /\ req' = [req EXCEPT ![r] = req'[r]]
  BY DEF Load, Inv, Typed, Idle
<1>2. UNCHANGED <<draft, unsigned, signed, issuance, lastNumber, clock, lapses>>
  BY DEF Load
<1>3. op = "sign" => v \in 1..Len(unsigned)
  BY DEF Load, Inv, Typed
<1>4. Seen(r)' \/ "order" \in lapses
  BY <1>1, <1>2, <1>3 DEF Chronicle, Ordered, Reflects, Seen
<1>5. clock' \in Times /\ clock <= clock'
  BY <1>2 DEF Inv, Typed, Times
<1> QED
  BY <1>1, <1>2, <1>4, <1>5, ChronicleStep

\* A rollback leaves nothing.
LEMMA ChronicleRollback ==
  ASSUME Inv, Chronicle, NEW r \in Requests, Rollback(r)
  PROVE  Chronicle'
<1>1. req'[r] = Idle /\ clock' = clock /\ req' = [req EXCEPT ![r] = req'[r]]
  BY DEF Rollback, Inv, Typed
<1>2. Seen(r)'
  BY <1>1, IdleType DEF Seen
<1>3. clock' \in Times /\ clock <= clock'
  BY <1>1 DEF Inv, Typed, Times
<1> QED
  BY <1>1, <1>2, <1>3, IdleType, ChronicleStep DEF Rollback

\* A method dates what it computes later than all it saw; the signer's check
\* (_assert_xml_current) tells whether the XML reflects its copy.
LEMMA ChronicleMethod ==
  ASSUME Inv, Chronicle, NEW r \in Requests, Method(r)
  PROVE  Chronicle'
<1>1. PICK op \in Ops, c \in Drafts, insert \in Insertions : Computes(r, op, c, insert)
  BY MethodComputes
<1>2. Runs(r, op, c, insert)
  BY <1>1 DEF Computes
<1> DEFINE h == req'[r]
<1>3. /\ req[r].phase = "loaded" /\ req[r].op = op
      /\ req' = [req EXCEPT ![r] = req'[r]]
      /\ h.phase = "done" /\ h.op = op /\ h.version = req[r].version
      /\ h.view = req[r].view /\ h.update = Update(h.view, c)
      /\ h.insert = insert.what /\ h.row = insert.row /\ h.tries = insert.tries
      /\ h.built = Len(unsigned) /\ h.sealed = Sealed
      /\ UNCHANGED <<draft, unsigned, signed, issuance, lastNumber, lapses>>
      /\ clock' = clock + 1 /\ clock' \in Times /\ clock <= clock' /\ clock \in Nat
  BY <1>2, RunsFields
<1>4. PICK n \in Times : n = clock' /\ n = Now /\ n = clock + 1 /\ n \in Int /\ n - 1 = clock
  BY <1>3 DEF Now, Times
<1>5. Ran(req[r], c, n)'
  <2>1. Past(h.view, n - 1)
    BY <1>3, <1>4 DEF Inv, InFlight
  <2>2. \A v \in 1..Len(unsigned) : unsigned[v].stamp < n
    BY <1>4, XmlStamps DEF Inv, Clocked
  <2>3. DatedAt(h.view, c, h.insert, n)
    BY <1>1, <1>3, <1>4 DEF Computes, Dated
  <2>4. /\ h.insert = "xml" => /\ h.row.key = c.key /\ h.row.payload = c.payload
                               /\ h.row.stamp = n /\ c.stamp = n
        /\ c.mode # h.view.mode => h.insert = "nothing" /\ h.sealed = {}
    BY <1>1, <1>3, <1>4 DEF Computes, Dated, Inserted
  <2>5. Len(unsigned) \in 0..Len(unsigned) /\ n <= clock'
    BY <1>4 DEF Inv, Typed
  <2> QED
    BY <1>3, <2>1, <2>2, <2>3, <2>4, <2>5 DEF Ran
<1>6. ASSUME "order" \notin lapses PROVE Seen(r)'
  <2>1. Seen(r)
    BY <1>6 DEF Chronicle, Ordered
  <2>2. ASSUME h.insert \in {"signature", "failure"}
        PROVE  h.op = "sign" /\ unsigned[h.version].payload = h.view.payload
    <3>1. op = "sign" /\ Current(req[r].view, req[r].version)
      BY <1>1, <1>3, <2>2 DEF Computes, Inserted
    <3>2. req[r].version \in 1..Len(unsigned) /\ req[r].view \in Drafts
      BY <1>3, <3>1 DEF Inv, InFlight
    <3>3. unsigned[req[r].version].stamp \in Int /\ req[r].view.stamp \in Int
      BY <3>2, XmlStamps, DraftTimes DEF Inv, Times
    <3>4. ~(unsigned[req[r].version].stamp < req[r].view.stamp)
      BY <3>1, <3>3 DEF Current
    <3> QED
      BY <1>3, <2>1, <3>1, <3>4 DEF Seen
  <2> QED
    BY <1>3, <2>1, <2>2 DEF Seen
<1> QED
  BY <1>3, <1>5, <1>6, ChronicleStep

\* What a commit writes to the draft, column by column.
LEMMA CommittedColumns ==
  ASSUME Inv, NEW r \in Requests, Commit(r), NEW c \in Drafts,
         req[r].update = Update(req[r].view, c)
  PROVE  LET view == req[r].view IN
         /\ draft'.payload = IF c.payload # view.payload THEN c.payload ELSE draft.payload
         /\ draft'.key = IF c.key # view.key THEN c.key ELSE draft.key
         /\ draft'.stamp = IF c.stamp # view.stamp THEN c.stamp ELSE draft.stamp
         /\ draft'.mode = IF c.mode # view.mode THEN c.mode ELSE draft.mode
         /\ view \in Drafts /\ draft \in Drafts
         /\ \A f \in Columns : f \in DOMAIN req[r].update <=> c[f] # view[f]
         /\ c.key # view.key => req[r].update.key = c.key
<1> DEFINE view == req[r].view
<1>1. view \in Drafts /\ draft \in Drafts
  BY DEF Inv, Typed, InFlight, Commit
<1>2. \A f \in Columns : draft'[f] = IF c[f] # view[f] THEN c[f] ELSE draft[f]
  BY <1>1, WrittenColumns DEF Commit, CommitDraft
<1>3. \A f \in Columns : f \in DOMAIN req[r].update <=> c[f] # view[f]
  BY <1>1, UpdateColumns
<1>4. c.key # view.key => req[r].update.key = c.key
  BY <1>1, UpdateColumns DEF Columns
<1> QED
  BY <1>1, <1>2, <1>3, <1>4 DEF Columns

\* A commit that is not out of order, of a method that changed something: the
\* draft takes the computed payload, and its key with it.
LEMMA OrderedDraft ==
  ASSUME Inv, NEW r \in Requests, Commit(r), ~Disordered(r), Reflects, Seen(r),
         NEW c \in Drafts, NEW n \in Times, Ran(req[r], c, n), c # req[r].view
  PROVE  /\ draft.payload = req[r].view.payload /\ draft'.payload = c.payload
         /\ draft'.payload.key = draft'.key /\ c.payload.key = c.key
<1> DEFINE h == req[r]
           view == h.view
<1>1. /\ draft'.payload = IF c.payload # view.payload THEN c.payload ELSE draft.payload
      /\ draft'.key = IF c.key # view.key THEN c.key ELSE draft.key
      /\ \A f \in Columns : f \in DOMAIN h.update <=> c[f] # view[f]
      /\ view \in Drafts
  BY CommittedColumns DEF Ran
<1>2. \E f \in Columns : c[f] # view[f]
  <2>1. DOMAIN c = Columns /\ DOMAIN view = Columns
    BY <1>1, DraftColumns
  <2>2. c = [f \in Columns |-> c[f]] /\ view = [f \in Columns |-> view[f]]
    BY <1>1, <2>1 DEF Drafts
  <2> QED
    BY <2>2
<1>3. h.update # << >>
  BY <1>1, <1>2
<1>4. draft.payload = view.payload
  BY <1>3 DEF Disordered, Outdated
<1>5. DatedAt(view, c, h.insert, n) /\ h.phase # "idle"
  BY DEF Ran, Commit
<1>6. view.key = view.payload.key
  BY <1>5 DEF Seen
<1> QED
  BY <1>1, <1>4, <1>5, <1>6 DEF DatedAt, Reflects

\* Such a commit leaves every XML that does not reflect the draft behind it.
LEMMA OrderedXml ==
  ASSUME Inv, NEW r \in Requests, Commit(r), ~Disordered(r), Reflects, Seen(r),
         NEW c \in Drafts, NEW n \in Times, Ran(req[r], c, n), c # req[r].view,
         NEW v \in 1..Len(unsigned)
  PROVE  \/ unsigned[v].payload = draft'.payload
         \/ unsigned[v].stamp < draft'.stamp /\ Precedes(unsigned[v].stamp, draft'.payload)
<1> DEFINE h == req[r]
           view == h.view
           t == unsigned[v].stamp
<1>1. /\ draft'.stamp = IF c.stamp # view.stamp THEN c.stamp ELSE draft.stamp
      /\ \A f \in Columns : f \in DOMAIN h.update <=> c[f] # view[f]
      /\ c.key # view.key => h.update.key = c.key
      /\ view \in Drafts /\ draft \in Drafts
  BY CommittedColumns DEF Ran
<1>2. draft.payload = view.payload /\ draft'.payload = c.payload
  BY OrderedDraft
<1>3. /\ t \in Int /\ n \in Int /\ view.stamp \in Int /\ draft.stamp \in Int /\ c.stamp \in Int
      /\ view.payload.rev \in Int /\ view.payload.key.drawn \in Int
      /\ c.payload.rev \in Int /\ c.payload.key.drawn \in Int
  BY SMTT(30), <1>1, XmlStamps, DraftTimes DEF Inv, Times
<1>4. DatedAt(view, c, h.insert, n) /\ Past(view, n - 1)
  BY DEF Ran
<1>5. /\ view.stamp < n /\ view.payload.rev < n /\ view.payload.key.drawn < n
  <2>1. view.stamp <= n - 1 /\ view.payload.rev <= n - 1 /\ view.payload.key.drawn <= n - 1
    BY <1>4 DEF Past
  <2> QED
    BY SMTT(30), <1>3, <2>1
<1>6. CASE c.payload = view.payload
  <2>1. \/ unsigned[v].payload = draft.payload
        \/ t < draft.stamp /\ Precedes(t, draft.payload)
    BY DEF Reflects
  <2>2. CASE unsigned[v].payload = draft.payload
    BY <1>2, <1>6, <2>2
  <2>3. CASE t < draft.stamp /\ Precedes(t, draft.payload)
    <3>1. t < n
      BY <1>2, <1>3, <1>5, <2>3 DEF Precedes
    <3>2. c.stamp = n \/ c.stamp = view.stamp
      <4>1. c.key # view.key => view.payload.key = c.key
        <5>1. c.key # view.key => c.payload.key = c.key
          BY <1>4 DEF DatedAt
        <5>2. view.payload.key = c.payload.key
          BY <1>6
        <5> QED
          BY <5>1, <5>2
      <4>2. Seen(r) /\ h.phase # "idle"
        BY DEF Commit
      <4> QED
        BY <1>4, <4>1, <4>2 DEF DatedAt, Seen
    <3>3. t < draft'.stamp
      BY <1>1, <1>3, <2>3, <3>1, <3>2
    <3> QED
      BY <1>2, <1>6, <2>3, <3>3
  <2> QED
    BY <2>1, <2>2, <2>3
<1>7. CASE c.payload # view.payload
  <2>1. h.built = Len(unsigned)
    BY <1>1, <1>7 DEF Disordered, Overtaken, Columns
  <2>2. t < n
    BY <2>1 DEF Ran
  <2>3. Precedes(t, draft'.payload)
    BY <1>2, <1>4, <1>7, <2>2 DEF DatedAt, Precedes
  <2>4. CASE c.stamp = n
    BY <1>1, <1>3, <1>5, <2>2, <2>3, <2>4
  <2>5. CASE c.key # view.key
    <3>1. "key" \in DOMAIN h.update /\ h.update.key.drawn = n
      BY <1>1, <1>4, <2>5 DEF DatedAt, Columns
    <3>2. Written(draft, h.update).stamp = draft'.stamp
      BY DEF Commit, CommitDraft
    <3>3. draft'.stamp = n \/ \A u \in DOMAIN unsigned : ~(draft'.stamp <= unsigned[u].stamp)
      BY <3>1, <3>2 DEF Disordered, Backdated
    <3>4. DOMAIN unsigned = 1..Len(unsigned)
      BY DEF Inv, Typed
    <3> QED
      BY <1>1, <1>3, <2>2, <2>3, <3>3, <3>4
  <2> QED
    BY <1>4, <1>7, <2>4, <2>5 DEF DatedAt
<1> QED
  BY <1>6, <1>7

\* A commit that is not out of order keeps the draft and its XML in order.
LEMMA OrderedCommit ==
  ASSUME Inv, Attempts, Chronicle, NEW r \in Requests, Commit(r),
         "order" \notin lapses, ~Disordered(r)
  PROVE  Reflects'
<1> DEFINE h == req[r]
           w == h.version
<1>1. h.phase = "done" /\ Reflects /\ Seen(r) /\ Len(unsigned) \in Nat /\ InFlight(r)
  BY DEF Commit, Chronicle, Ordered, Inv, Typed
<1>2. PICK c \in Drafts, n \in Times : Ran(h, c, n)
  BY <1>1 DEF Chronicle, Timed
<1>3. /\ \A v \in 1..Len(unsigned) : /\ unsigned'[v].key = unsigned[v].key
                                     /\ unsigned'[v].payload = unsigned[v].payload
                                     /\ unsigned'[v].stamp = unsigned[v].stamp
      /\ h.insert = "xml" =>
           /\ Len(unsigned') = Len(unsigned) + 1
           /\ unsigned'[Len(unsigned) + 1] = h.row
      /\ h.insert # "xml" => Len(unsigned') = Len(unsigned)
  BY CommittedRows
<1>4. /\ draft'.payload.key = draft'.key
      /\ \A v \in 1..Len(unsigned) :
           /\ unsigned[v].key = unsigned[v].payload.key
           /\ \/ unsigned[v].payload = draft'.payload
              \/ unsigned[v].stamp < draft'.stamp /\ Precedes(unsigned[v].stamp, draft'.payload)
      /\ h.insert = "xml" => h.row.payload = draft'.payload /\ h.row.key = h.row.payload.key
  <2>1. CASE c = h.view
    <3>1. draft'.payload = draft.payload /\ draft'.key = draft.key /\ draft'.stamp = draft.stamp
      BY <1>2, <2>1, CommittedColumns DEF Ran
    <3>2. h.insert # "xml"
      <4>1. h.insert = "xml" => c.stamp = n
        BY <1>2 DEF Ran
      <4>2. Past(c, n - 1) /\ c.stamp \in Int /\ n \in Int
        BY <1>2, <2>1, DraftTimes DEF Ran, Times
      <4> QED
        BY <4>1, <4>2 DEF Past
    <3> QED
      BY <1>1, <3>1, <3>2 DEF Reflects
  <2>2. CASE c # h.view
    BY <1>1, <1>2, <2>2, OrderedDraft, OrderedXml DEF Reflects, Ran
  <2> QED
    BY <2>1, <2>2
<1>5. ASSUME NEW v \in Versions, issuance'[v].status # "absent"
      PROVE  v \in 1..Len(unsigned) /\ issuance'[v].key = unsigned[v].key
  <2>1. CASE h.insert \notin {"signature", "failure"} \/ v # w
    <3>1. issuance'[v] = issuance[v]
      BY <2>1, CommittedIssuance
    <3> QED
      BY <1>1, <1>5, <3>1 DEF Reflects
  <2>2. CASE h.insert \in {"signature", "failure"} /\ v = w
    <3>1. /\ w \in 1..Len(unsigned)
          /\ unsigned[w].payload = h.view.payload /\ h.view.key = h.view.payload.key
      BY <1>1, <2>2 DEF Seen, InFlight
    <3>2. unsigned[w].key = h.view.key
      BY <1>1, <3>1 DEF Reflects
    <3>3. issuance[w].tries \in Nat /\ h.tries = issuance[w].tries + 1
      BY <2>2, CommittedAttempt
    <3>4. h.tries > 1 => issuance[w].status # "absent"
      BY <2>2, <3>3 DEF Attempts
    <3>5. h.tries > 1 => issuance[w].key = unsigned[w].key
      BY <1>1, <2>2, <3>4 DEF Reflects
    <3>6. issuance'[w].key = IF h.tries > 1 THEN issuance[w].key ELSE h.view.key
      BY <2>2, CommittedIssuance
    <3> QED
      BY <2>2, <3>1, <3>2, <3>5, <3>6
  <2> QED
    BY <2>1, <2>2
<1>6. /\ \A v \in 1..Len(unsigned) : v \in 1..Len(unsigned')
      /\ \A v \in 1..Len(unsigned') :
           v \in 1..Len(unsigned) \/ (h.insert = "xml" /\ v = Len(unsigned) + 1)
  <2>1. CASE h.insert = "xml"
    BY <1>1, <1>3, <2>1
  <2>2. CASE h.insert # "xml"
    BY <1>3, <2>2
  <2> QED
    BY <2>1, <2>2
<1>7. \A v \in 1..Len(unsigned') :
        /\ unsigned'[v].key = unsigned'[v].payload.key
        /\ \/ unsigned'[v].payload = draft'.payload
           \/ unsigned'[v].stamp < draft'.stamp /\ Precedes(unsigned'[v].stamp, draft'.payload)
  BY <1>3, <1>4, <1>6
<1>8. \A v \in Versions : issuance'[v].status # "absent" =>
        v \in 1..Len(unsigned') /\ issuance'[v].key = unsigned'[v].key
  BY <1>3, <1>5, <1>6
<1> QED
  BY <1>4, <1>7, <1>8 DEF Reflects, Precedes

\* A removal and a signature that do not cross each other stay apart.
LEMMA KeptCommit ==
  ASSUME Inv, Attempts, Chronicle, NEW r \in Requests, Commit(r)
  PROVE  Kept'
<1> DEFINE h == req[r]
           w == h.version
<1>1. h.phase = "done" /\ InFlight(r) /\ Kept /\ h.view.mode = "active"
  BY DEF Commit, Chronicle, Inv, InFlight
<1>2. PICK c \in Drafts, n \in Times : Ran(h, c, n)
  BY <1>1 DEF Chronicle, Timed
<1>3. /\ draft'.mode = IF c.mode # h.view.mode THEN c.mode ELSE draft.mode
      /\ "mode" \in DOMAIN h.update <=> c.mode # h.view.mode
  BY <1>2, CommittedColumns DEF Ran, Columns
<1>4. ASSUME NEW v \in Versions, signed'[v] # NoKey PROVE issuance'[v].status # "absent"
  <2>1. CASE h.insert \notin {"signature", "failure"} \/ v # w
    BY <1>1, <1>4, <2>1, CommittedIssuance DEF Kept
  <2>2. CASE h.insert \in {"signature", "failure"} /\ v = w
    <3>1. issuance[w].tries \in Nat /\ h.tries = issuance[w].tries + 1
      BY <2>2, CommittedAttempt
    <3>2. h.tries > 1 => issuance[w].status # "absent"
      BY <2>2, <3>1 DEF Attempts
    <3>3. issuance'[w].status = IF h.insert = "signature" THEN "signed"
                                ELSE IF h.tries > 1 THEN issuance[w].status
                                ELSE "xsd_validated"
      BY <2>2, CommittedIssuance
    <3> QED
      BY <2>2, <3>2, <3>3
  <2> QED
    BY <2>1, <2>2
<1>5. ASSUME draft'.mode # "active", "removal" \notin lapses' PROVE Sealed' = {}
  <2>1. "removal" \notin lapses /\ ~Crossed(r)
    BY <1>5 DEF Commit
  <2>2. CASE h.insert = "signature"
    <3>1. draft.mode = "active" /\ c.mode = h.view.mode
      BY <1>1, <1>2, <2>1, <2>2 DEF Crossed, Ran
    <3> QED
      BY <1>3, <1>5, <3>1
  <2>3. CASE h.insert # "signature"
    <3>1. Sealed' = Sealed
      BY <2>3, CommittedIssuance DEF Sealed
    <3>2. CASE c.mode # h.view.mode
      BY <1>2, <1>3, <2>1, <3>1, <3>2 DEF Crossed, Ran
    <3>3. CASE c.mode = h.view.mode
      BY <1>1, <1>3, <1>5, <2>1, <3>1, <3>3 DEF Kept
    <3> QED
      BY <3>2, <3>3
  <2> QED
    BY <2>2, <2>3
<1> QED
  BY <1>4, <1>5 DEF Kept

\* A commit.
LEMMA ChronicleCommit ==
  ASSUME Inv, Attempts, Chronicle, NEW r \in Requests, Commit(r)
  PROVE  Chronicle'
<1>1. /\ req' = [req EXCEPT ![r] = Idle] /\ req'[r] = Idle /\ clock' = clock
      /\ \A q \in Requests \ {r} : req'[q] = req[q]
  BY DEF Commit, Inv, Typed
<1>2. ASSUME NEW q \in Requests \ {r}
      PROVE  /\ req'[q].phase = "done" => \E c \in Drafts, n \in Times : Ran(req[q], c, n)'
             /\ Seen(q) => Seen(q)'
  <2>1. clock' \in Int /\ clock <= clock'
    BY <1>1 DEF Inv, Typed, Times
  <2>2. Len(unsigned) \in Nat /\ Len(unsigned') \in Nat /\ Len(unsigned) <= Len(unsigned')
    BY CommittedVersions DEF Inv, Typed
  <2>3. \A v \in 1..Len(unsigned) : /\ unsigned'[v].payload = unsigned[v].payload
                                    /\ unsigned'[v].stamp = unsigned[v].stamp
    BY CommittedRows
  <2> QED
    BY <1>1, <2>1, <2>2, <2>3, HeldStays DEF Chronicle
<1>3. Timed'
  BY <1>1, <1>2, IdleType DEF Timed
<1>4. Seen(r)'
  BY <1>1, IdleType DEF Seen
<1>5. "order" \notin lapses' => "order" \notin lapses /\ ~Disordered(r)
  BY DEF Commit
<1>6. Ordered'
  BY <1>2, <1>4, <1>5, OrderedCommit DEF Chronicle, Ordered
<1> QED
  BY <1>3, <1>6, KeptCommit DEF Chronicle

\* Transmission changes the status of an issuance and of the draft only.
LEMMA ChronicleTransmission ==
  ASSUME Inv, Chronicle, NEW v \in Versions, Transmit(v) \/ Finish(v)
  PROVE  Chronicle'
<1>1. UNCHANGED <<unsigned, signed, lastNumber, req, clock, lapses>>
  BY DEF Transmit, Finish
<1>2. /\ draft'.payload = draft.payload /\ draft'.key = draft.key /\ draft'.mode = draft.mode
      /\ draft'.stamp = draft.stamp
  BY DEF Transmit, Finish, Inv, Typed, Drafts
<1>3. \A u \in Versions : /\ issuance'[u].key = issuance[u].key
                          /\ issuance'[u].status = "absent" <=> issuance[u].status = "absent"
  BY Transmission
<1>4. Timed'
  BY <1>1 DEF Chronicle, Timed, Ran
<1>5. Kept'
  BY <1>1, <1>2, <1>3 DEF Chronicle, Kept, Sealed
<1>6. Ordered'
  BY <1>1, <1>2, <1>3 DEF Chronicle, Ordered, Reflects, Seen
<1> QED
  BY <1>4, <1>5, <1>6 DEF Chronicle

LEMMA ChronicleNext == Inv /\ Attempts /\ Chronicle /\ [Next]_vars => Chronicle'
<1> SUFFICES ASSUME Inv, Attempts, Chronicle, [Next]_vars PROVE Chronicle'
  OBVIOUS
<1>1. ASSUME NEW r \in Requests, NEW op \in Ops, NEW v \in {0} \cup Versions, Load(r, op, v)
      PROVE  Chronicle'
  BY <1>1, ChronicleLoad
<1>2. ASSUME NEW r \in Requests, Method(r) \/ Commit(r) \/ Rollback(r)
      PROVE  Chronicle'
  BY <1>2, ChronicleMethod, ChronicleCommit, ChronicleRollback
<1>3. ASSUME NEW v \in Versions, Transmit(v) \/ Finish(v)
      PROVE  Chronicle'
  BY <1>3, ChronicleTransmission
<1>4. CASE UNCHANGED vars
  BY <1>4 DEF vars, Chronicle, Timed, Ran, Kept, Sealed, Ordered, Reflects, Seen
<1> QED
  BY <1>1, <1>2, <1>3, <1>4 DEF Next

\* All three invariants hold throughout.
LEMMA AlwaysChronicle == Spec => [](Inv /\ Attempts /\ Chronicle)
<1>1. Init => Inv /\ Attempts /\ Chronicle
  BY InitInv, AttemptsInit, ChronicleInit
<1>2. Inv /\ Attempts /\ Chronicle /\ [Next]_vars => Inv' /\ Attempts' /\ Chronicle'
  BY NextInv, AttemptsNext, ChronicleNext
<1> QED
  BY <1>1, <1>2, PTL DEF Spec

\* Whatever requests overlap and however key times are rounded: as long as no
\* commit broke the order of the times, a signed XML carries the key of the
\* issuance it was signed for (sign_xml_version, _issuance_for_signature).
THEOREM SignedXmlIsBound == Spec => []SignedXmlHasIssuanceKey
<1>1. Inv /\ Chronicle => SignedXmlHasIssuanceKey
  BY DEF Chronicle, Kept, Ordered, Reflects, SignedXmlHasIssuanceKey
<1> QED
  BY <1>1, AlwaysChronicle, PTL

\* A draft with a signed XML is removed only by a removal and a signature that
\* crossed each other (soft_delete_draft, _assert_draft_deletable).
THEOREM RemovedDraftsAreUnsigned == Spec => []RemovedIsUnsigned
<1>1. Chronicle => RemovedIsUnsigned
  BY DEF Chronicle, Kept, RemovedIsUnsigned
<1> QED
  BY <1>1, AlwaysChronicle, PTL

\* What is signed is built from the payload that the draft has at the commit,
\* unless a commit, this one included, broke the order of the times: but for
\* that, comparing the two times is enough.
THEOREM SignedXmlIsUpToDate == Spec => SignedXmlIsCurrent
<1> DEFINE Signs(v) == signed[v] = NoKey /\ signed'[v] # NoKey =>
                         unsigned[v].payload = draft.payload \/ "order" \in lapses'
<1>1. ASSUME Inv, Chronicle, [Next]_vars, NEW v \in Versions PROVE Signs(v)
  <2>1. ASSUME NEW r \in Requests, Commit(r) PROVE Signs(v)
    <3> SUFFICES ASSUME signed[v] = NoKey, signed'[v] # NoKey, "order" \notin lapses'
                 PROVE  unsigned[v].payload = draft.payload
      OBVIOUS
    <3>1. req[r].insert = "signature" /\ v = req[r].version
      BY <1>1, <2>1, CommittedIssuance
    <3>2. "order" \notin lapses /\ ~Disordered(r) /\ req[r].phase = "done"
      BY <2>1 DEF Commit
    <3>3. Seen(r) /\ Reflects
      BY <1>1, <3>2 DEF Chronicle, Ordered
    <3>4. PICK c \in Drafts, n \in Times : Ran(req[r], c, n)
      BY <1>1, <3>2 DEF Chronicle, Timed
    <3>5. c # req[r].view
      <4>1. c.stamp = n /\ Past(req[r].view, n - 1) /\ n \in Int /\ c.stamp \in Int
        BY <3>1, <3>4, DraftTimes DEF Ran, DatedAt, Times
      <4> QED
        BY <4>1 DEF Past
    <3>6. draft.payload = req[r].view.payload
      BY <1>1, <2>1, <3>2, <3>3, <3>4, <3>5, OrderedDraft
    <3> QED
      BY <3>1, <3>2, <3>3, <3>6 DEF Seen
  <2>2. CASE UNCHANGED signed
    BY <2>2
  <2>3. ASSUME NEW r \in Requests, Method(r) PROVE UNCHANGED signed
    BY <2>3 DEF Method, GenerateKey, GenerateXml, ValidateXml, Sign, ValidateDraft, Edit,
                SoftDelete, Runs
  <2> QED
    BY <1>1, <2>1, <2>2, <2>3 DEF Next, Load, Rollback, Transmit, Finish, vars
<1>2. Inv /\ Chronicle /\ [Next]_vars => [\A v \in Versions : Signs(v)]_vars
  BY <1>1
<1> QED
  BY <1>2, AlwaysChronicle, PTL DEF Spec, SignedXmlIsCurrent

=============================================================================
