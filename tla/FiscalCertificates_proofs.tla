---------------------- MODULE FiscalCertificates_proofs ----------------------
(***************************************************************************)
(* Proofs about FiscalCertificates for any handlers, references, files and *)
(* faults.                                                                 *)
(*                                                                         *)
(* The argument: a request that has flushed holds its reference and its    *)
(* fingerprint against every other (Apart), and no other row has that      *)
(* fingerprint (Holds), so what it commits is unique.  The reference of an *)
(* upload belongs to that upload until it ends and has no row before, so a *)
(* clean-up never takes the material of a row; every clean-up that does    *)
(* not happen is paid for by a fault.  A request that overlapped no other  *)
(* has copies that are still true.                                         *)
(***************************************************************************)
EXTENDS FiscalCertificates, FiniteSetTheorems, TLAPS

RowOps == {"validate", "activate", "use"}
Busy(r) == req[r].phase \in {"flushed", "chosen"}

\* What handler r holds, against the rows and the vault.
Holds(r) ==
  LET h == req[r] IN
  h.phase # "idle" =>
    /\ h.ref \in Refs
    /\ h.phase = "new" => h.op \in {"upload", "register"}
    /\ h.phase = "loaded" => h.op \in RowOps
    /\ h.phase = "flushed" => h.op \in {"upload", "register", "activate"}
    /\ h.phase = "chosen" => h.op = "activate"
    /\ h.op \in RowOps => h.ref \in Stored /\ h.view.status # "absent"
    /\ h.op = "activate" => h.read # None
    /\ h.op = "use" => h.read # None
    /\ h.op = "upload" => h.ref \in Uploads /\ rows[h.ref] = NoRow /\ vault[h.ref] # None
    /\ h.op = "register" => h.ref \in Listed
    /\ Busy(r) /\ h.read # None => \A c \in Stored \ {h.ref} : rows[c].print # h.read
    /\ h.alone => /\ \A q \in Requests \ {r} : req[q].phase = "idle"
                  /\ h.view = rows[h.ref]
                  /\ h.phase = "chosen" => h.found = Others(r)

\* Two requests that have flushed hold different references and fingerprints,
\* and nobody else has the reference of an upload.
Apart(r, q) ==
  r # q /\ req[r].phase # "idle" /\ req[q].phase # "idle" =>
    /\ Busy(r) /\ Busy(q) => /\ req[r].ref # req[q].ref
                             /\ req[r].read # None => req[r].read # req[q].read
    /\ req[r].op = "upload" => req[q].ref # req[r].ref

AbsentRows == \A c \in Refs : rows[c].status = "absent" => rows[c] = NoRow
FewOrphans == IsFiniteSet(Orphans) /\ OrphansAreFaults

Inv ==
  /\ TypeOK
  /\ \A r \in Requests : Holds(r)
  /\ \A r, q \in Requests : Apart(r, q)
  /\ AbsentRows
  /\ OneRowPerCertificate /\ RowsKeepTheirMaterial /\ FewOrphans

-----------------------------------------------------------------------------
(* Rows and handlers *)

\* What a unit of work leaves of a row: the new value of a column that differs
\* from the copy, the stored value of any other.
LEMMA WrittenColumns ==
  ASSUME NEW stored \in Rows, NEW loaded \in Rows, NEW new \in Rows
  PROVE  LET w == Written(stored, loaded, new) IN
         /\ w \in Rows
         /\ w.status = IF new.status = loaded.status THEN stored.status ELSE new.status
         /\ w.active = IF new.active = loaded.active THEN stored.active ELSE new.active
         /\ w.print = IF new.print = loaded.print THEN stored.print ELSE new.print
<1> DEFINE Columns == {"status", "active", "print"}
           w == Written(stored, loaded, new)
<1>1. DOMAIN stored = Columns
  BY DEF Rows
<1>2. w = [f \in Columns |-> IF new[f] = loaded[f] THEN stored[f] ELSE new[f]]
  BY <1>1 DEF Written
<1>3. /\ w.status = IF new.status = loaded.status THEN stored.status ELSE new.status
      /\ w.active = IF new.active = loaded.active THEN stored.active ELSE new.active
      /\ w.print = IF new.print = loaded.print THEN stored.print ELSE new.print
  BY <1>2
<1>4. w = [status |-> w.status, active |-> w.active, print |-> w.print]
  BY <1>2
<1>5. /\ stored.status \in Statuses /\ stored.active \in BOOLEAN
      /\ stored.print \in Files \cup {None}
      /\ new.status \in Statuses /\ new.active \in BOOLEAN
      /\ new.print \in Files \cup {None}
  BY DEF Rows
<1> HIDE DEF w
<1>6. /\ w.status \in Statuses /\ w.active \in BOOLEAN /\ w.print \in Files \cup {None}
  BY <1>3, <1>5
<1>7. w \in Rows
  BY <1>4, <1>6 DEF Rows
<1> QED
  BY <1>3, <1>7 DEF w

\* The absent row and the idle handler are typed.
LEMMA IdleType == NoRow \in Rows /\ Idle \in Handlers /\ Idle.phase = "idle"
BY DEF NoRow, Rows, Statuses, Idle, Handlers

\* The fields of a handler.
LEMMA HandlerFields ==
  ASSUME NEW h \in Handlers
  PROVE  /\ h.phase \in {"idle", "new", "loaded", "flushed", "chosen"}
         /\ h.op \in {"upload", "register", "validate", "activate", "use"}
         /\ h.ref \in Refs \cup {None} /\ h.view \in Rows /\ h.read \in Files \cup {None}
         /\ h.found \in SUBSET Refs /\ h.alone \in BOOLEAN
BY DEF Handlers

\* An ended request is idle; the others are the same.
LEMMA EndFields ==
  ASSUME TypeOK, NEW r \in Requests, End(r)
  PROVE  /\ req' \in [Requests -> Handlers]
         /\ req'[r] = Idle
         /\ \A q \in Requests \ {r} : req'[q] = req[q]
BY IdleType DEF TypeOK, End

\* The registry starts without rows and without made-up material.
LEMMA InitInv == Init => Inv
<1> SUFFICES ASSUME Init PROVE Inv
  OBVIOUS
<1>1. TypeOK
  BY IdleType, FaultsAssumption DEF Init, TypeOK, Idle, NoRow
<1>2. Orphans = {}
  BY DEF Init, Orphans
<1>3. FewOrphans
  BY <1>2, FS_EmptySet DEF FewOrphans, OrphansAreFaults, Init
<1>4. \A c \in Refs : rows[c] = NoRow
  BY DEF Init
<1>5. AbsentRows /\ OneRowPerCertificate /\ RowsKeepTheirMaterial
  BY <1>4 DEF AbsentRows, OneRowPerCertificate, RowsKeepTheirMaterial, Stored
<1>6. \A r \in Requests : Holds(r)
  BY IdleType DEF Init, Holds
<1>7. \A r, q \in Requests : Apart(r, q)
  BY IdleType DEF Init, Apart
<1> QED
  BY <1>1, <1>3, <1>5, <1>6, <1>7 DEF Inv

\* The orphans stay few when none is added, or one is and a fault is spent.
LEMMA OrphansStayFew ==
  ASSUME FewOrphans, TypeOK, faults' \in Nat,
         \/ Orphans' \subseteq Orphans /\ faults <= faults'
         \/ faults' = faults + 1 /\ \E c : Orphans' \subseteq Orphans \cup {c}
  PROVE  FewOrphans'
<1> DEFINE T == Orphans'
<1>1. IsFiniteSet(Orphans) /\ Cardinality(Orphans) <= faults /\ faults \in Nat
  BY FaultsAssumption DEF FewOrphans, OrphansAreFaults, TypeOK
<1>2. Cardinality(Orphans) \in Nat
  BY <1>1, FS_CardinalityType
<1>3. CASE T \subseteq Orphans /\ faults <= faults'
  <2>1. IsFiniteSet(T) /\ Cardinality(T) <= Cardinality(Orphans)
    BY <1>1, <1>3, FS_Subset
  <2>2. Cardinality(T) \in Nat
    BY <2>1, FS_CardinalityType
  <2> QED
    BY <1>1, <1>2, <1>3, <2>1, <2>2 DEF FewOrphans, OrphansAreFaults
<1>4. CASE faults' = faults + 1 /\ \E c : T \subseteq Orphans \cup {c}
  <2>1. PICK c : T \subseteq Orphans \cup {c}
    BY <1>4
  <2>2. /\ IsFiniteSet(Orphans \cup {c})
        /\ Cardinality(Orphans \cup {c}) <= Cardinality(Orphans) + 1
    <3>1. /\ IsFiniteSet(Orphans \cup {c})
          /\ \/ Cardinality(Orphans \cup {c}) = Cardinality(Orphans)
             \/ Cardinality(Orphans \cup {c}) = Cardinality(Orphans) + 1
      BY <1>1, FS_AddElement, Zenon
    <3> QED
      BY <1>2, <3>1
  <2>3. Cardinality(Orphans \cup {c}) \in Nat
    BY <2>2, FS_CardinalityType
  <2>4. IsFiniteSet(T) /\ Cardinality(T) <= Cardinality(Orphans \cup {c})
    BY <2>1, <2>2, FS_Subset
  <2>5. Cardinality(T) \in Nat
    BY <2>4, FS_CardinalityType
  <2> QED
    BY <1>1, <1>2, <1>4, <2>2, <2>3, <2>4, <2>5 DEF FewOrphans, OrphansAreFaults
<1> QED
  BY <1>3, <1>4

-----------------------------------------------------------------------------
(* A request begins *)

\* A request begins with a reference that no upload holds; an upload, with one
\* that nobody holds.
LEMMA BeginStep ==
  ASSUME Inv, NEW r \in Requests, NEW phase \in {"new", "loaded"},
         NEW op \in {"upload", "register", "validate", "activate", "use"},
         NEW ref \in Refs, NEW read \in Files \cup {None}, Begin(r, phase, op, ref, read),
         UNCHANGED <<rows, faults, unsure>>, vault' \in [Refs -> Files \cup {None}],
         \A c \in Refs \ {ref} : vault'[c] = vault[c],
         vault'[ref] # None \/ vault'[ref] = vault[ref],
         phase = "new" => op \in {"upload", "register"},
         phase = "loaded" => op \in RowOps,
         op \in RowOps => ref \in Stored,
         op \in {"activate", "use"} => read # None,
         op = "register" => ref \in Listed,
         op = "upload" => ref \in Uploads /\ rows[ref] = NoRow /\ vault'[ref] # None,
         \A q \in Requests : req[q].phase # "idle" =>
           (op = "upload" \/ req[q].op = "upload" => req[q].ref # ref)
  PROVE  Inv'
<1>1. TypeOK
  BY DEF Inv
<1> DEFINE all == \A p \in Requests : req[p].phase = "idle"
           h == [phase |-> phase, op |-> op, ref |-> ref, view |-> rows[ref], read |-> read,
                 found |-> {}, alone |-> all]
           other(q) == [req[q] EXCEPT !.alone = FALSE]
<1>a. req' = [q \in Requests |-> IF q # r THEN other(q) ELSE h] /\ req[r].phase = "idle"
  BY Zenon DEF Begin
<1>b. h \in Handlers
  <2>1. all \in BOOLEAN /\ rows[ref] \in Rows
    BY <1>1 DEF TypeOK
  <2> HIDE DEF all
  <2> QED
    BY <2>1 DEF Handlers
<1>c. /\ h.phase = phase /\ h.op = op /\ h.ref = ref
      /\ h.view = rows[ref] /\ h.read = read /\ h.found = {}
  OBVIOUS
<1>d. h.alone => all
  BY Zenon
<1>e. \A q \in Requests :
        /\ other(q) \in Handlers
        /\ other(q).phase = req[q].phase /\ other(q).op = req[q].op
        /\ other(q).ref = req[q].ref /\ other(q).view = req[q].view
        /\ other(q).read = req[q].read /\ other(q).found = req[q].found
        /\ other(q).alone = FALSE
  BY ZenonT(40), <1>1 DEF TypeOK, Handlers
<1> HIDE DEF h, other
<1>f. req'[r] = h /\ \A q \in Requests \ {r} : req'[q] = other(q)
  BY <1>a
<1>2. /\ req' \in [Requests -> Handlers] /\ req[r].phase = "idle"
      /\ req'[r].phase = phase /\ req'[r].op = op /\ req'[r].ref = ref
      /\ req'[r].view = rows[ref] /\ req'[r].read = read /\ req'[r].found = {}
      /\ req'[r].alone => \A p \in Requests : req[p].phase = "idle"
  <2>1. req' \in [Requests -> Handlers]
    BY <1>a, <1>b, <1>e
  <2> QED
    BY <1>a, <1>c, <1>d, <1>f, <2>1
<1>3. \A q \in Requests \ {r} :
        /\ req'[q].phase = req[q].phase /\ req'[q].op = req[q].op
        /\ req'[q].ref = req[q].ref /\ req'[q].view = req[q].view
        /\ req'[q].read = req[q].read /\ req'[q].found = req[q].found
        /\ req'[q].alone = FALSE
  BY <1>e, <1>f
<1>4. TypeOK'
  BY <1>1, <1>2, <1>3 DEF TypeOK
<1>5. Holds(r)'
  <2>1. op \in RowOps => rows[ref].status # "absent"
    BY DEF Inv, AbsentRows, Stored
  <2> QED
    BY <1>2, <1>3, <2>1 DEF Holds, Busy, Stored
<1>6. ASSUME NEW q \in Requests, q # r PROVE Holds(q)'
  <2>1. Holds(q)
    BY DEF Inv
  <2>2. req[q].phase # "idle" /\ req[q].op = "upload" => vault'[req[q].ref] = vault[req[q].ref]
    BY <2>1 DEF Holds
  <2> QED
    BY <1>3, <1>6, <2>1, <2>2 DEF Holds, Busy, Stored
<1>7. ASSUME NEW a \in Requests, NEW b \in Requests PROVE Apart(a, b)'
  <2>1. Apart(a, b)
    BY DEF Inv
  <2>2. CASE a # r /\ b # r
    BY <1>3, <2>1, <2>2 DEF Apart, Busy
  <2>3. CASE a = r /\ b # r
    BY <1>2, <1>3, <2>3 DEF Apart, Busy
  <2>4. CASE a # r /\ b = r
    BY <1>2, <1>3, <2>4 DEF Apart, Busy
  <2>5. CASE a = r /\ b = r
    BY <2>5 DEF Apart
  <2> QED
    BY <2>2, <2>3, <2>4, <2>5
<1>8. AbsentRows' /\ OneRowPerCertificate' /\ RowsKeepTheirMaterial'
  BY DEF Inv, AbsentRows, OneRowPerCertificate, RowsKeepTheirMaterial, Stored, Refs
<1>9. Orphans' \subseteq Orphans
  <2> SUFFICES ASSUME NEW u \in Uploads, u \in Orphans' PROVE u \in Orphans
    BY DEF Orphans
  <2>1. \A q \in Requests : req'[q].phase = "idle" \/ req'[q].ref # u
    BY DEF Orphans
  <2>2. u # ref
    BY <1>2, <2>1
  <2>3. \A q \in Requests : req[q].phase = "idle" \/ req[q].ref # u
    BY <1>2, <1>3, <2>1
  <2> QED
    BY <2>2, <2>3 DEF Orphans, Refs
<1>10. FewOrphans'
  BY <1>1, <1>9, FaultsAssumption, OrphansStayFew DEF Inv, TypeOK
<1> QED
  BY <1>4, <1>5, <1>6, <1>7, <1>8, <1>10 DEF Inv

\* upload stores its material under a reference nobody has.
LEMMA UploadStep ==
  ASSUME Inv, NEW r \in Requests, NEW u \in Uploads, NEW f \in Files, Upload(r, u, f)
  PROVE  Inv'
<1>1. /\ vault' = [vault EXCEPT ![u] = f] /\ Fresh(u) /\ Begin(r, "new", "upload", u, f)
      /\ UNCHANGED <<rows, faults, unsure>>
      /\ u \in Refs /\ vault \in [Refs -> Files \cup {None}]
  BY DEF Upload, Inv, TypeOK, Refs
<1>2. vault' \in [Refs -> Files \cup {None}] /\ vault'[u] = f /\ f # None
      /\ \A c \in Refs \ {u} : vault'[c] = vault[c]
  BY <1>1, NoneAssumption
<1>3. /\ rows[u] = NoRow
      /\ \A q \in Requests : req[q].phase # "idle" => req[q].ref # u
  BY <1>1 DEF Fresh
<1> QED
  BY <1>1, <1>2, <1>3, BeginStep DEF RowOps

\* register names a listed reference, which no upload draws.
LEMMA RegisterStep ==
  ASSUME Inv, NEW r \in Requests, NEW c \in Listed, Register(r, c)
  PROVE  Inv'
<1>1. /\ Begin(r, "new", "register", c, None) /\ UNCHANGED <<rows, vault, faults, unsure>>
      /\ c \in Refs /\ c \notin Uploads
  BY ReferencesAssumption DEF Register, Refs
<1>2. \A q \in Requests : req[q].phase # "idle" /\ req[q].op = "upload" => req[q].ref # c
  BY <1>1 DEF Inv, Holds
<1>3. vault' \in [Refs -> Files \cup {None}]
  BY <1>1 DEF Inv, TypeOK
<1> QED
  BY <1>1, <1>2, <1>3, BeginStep DEF RowOps

\* validate, activate and use load a row, which the reference of an unfinished
\* upload does not have.
LEMMA LoadStep ==
  ASSUME Inv, NEW r \in Requests, NEW op \in RowOps, NEW c \in Refs, Load(r, op, c)
  PROVE  Inv'
<1>1. PICK read \in {vault[c], None} :
        (op # "validate" => read # None) /\ Begin(r, "loaded", op, c, read)
  BY DEF Load
<1>2. c \in Stored /\ UNCHANGED <<rows, vault, faults, unsure>>
  BY DEF Load
<1>3. \A q \in Requests : req[q].phase # "idle" /\ req[q].op = "upload" => req[q].ref # c
  BY <1>2 DEF Inv, Holds, Stored
<1>4. vault' \in [Refs -> Files \cup {None}] /\ read \in Files \cup {None}
  BY <1>2 DEF Inv, TypeOK
<1>5. op \in {"validate", "activate", "use"}
  BY DEF RowOps
<1> QED
  BY <1>1, <1>2, <1>3, <1>4, <1>5, BeginStep DEF RowOps

-----------------------------------------------------------------------------
(* A request flushes, or ends without a row *)

\* The first statement takes the reference and the fingerprint: nobody ahead
\* holds them, and no other row has the fingerprint.
LEMMA FlushedStep ==
  ASSUME Inv, NEW r \in Requests, ~Waits(r), ~Taken(r), Advance(r, "flushed"),
         \/ req[r].phase = "new"
         \/ req[r].phase = "loaded" /\ req[r].op = "activate",
         UNCHANGED <<rows, vault, faults, unsure>>
  PROVE  Inv'
<1> DEFINE g == req[r]
           h == [g EXCEPT !.phase = "flushed"]
<1>1. g \in Handlers /\ req \in [Requests -> Handlers] /\ Holds(r)
  BY DEF Inv, TypeOK
<1>2. /\ h \in Handlers /\ h.phase = "flushed" /\ h.op = g.op /\ h.ref = g.ref
      /\ h.view = g.view /\ h.read = g.read /\ h.found = g.found /\ h.alone = g.alone
  BY <1>1 DEF Handlers
<1>3. req' = [req EXCEPT ![r] = h]
  BY DEF Advance
<1> HIDE DEF h
<1>4. req'[r] = h /\ \A q \in Requests \ {r} : req'[q] = req[q]
  BY <1>1, <1>3
<1>5. TypeOK'
  BY <1>1, <1>2, <1>3, <1>4 DEF Inv, TypeOK
<1>6. Holds(r)'
  <2>1. g.read # None => \A c \in Stored \ {g.ref} : rows[c].print # g.read
    BY DEF Taken
  <2>2. g.phase # "idle" /\ g.phase \in {"new", "loaded"}
    OBVIOUS
  <2> QED
    BY <1>1, <1>2, <1>4, <2>1, <2>2 DEF Holds, Busy, Stored
<1>7. ASSUME NEW q \in Requests, q # r PROVE Holds(q)'
  <2>1. Holds(q) /\ req'[q] = req[q]
    BY <1>4, <1>7 DEF Inv
  <2>2. req[q].phase # "idle" => ~req[q].alone
    <3>1. req[r].phase # "idle"
      OBVIOUS
    <3> QED
      BY <1>7, <2>1, <3>1 DEF Holds
  <2> QED
    BY <2>1, <2>2 DEF Holds, Busy, Stored
<1>8. ASSUME NEW a \in Requests, NEW b \in Requests PROVE Apart(a, b)'
  <2>1. Apart(a, b)
    BY DEF Inv
  <2>2. \A q \in Requests \ {r} : Busy(q) =>
          req[q].ref # g.ref /\ (req[q].read # None => req[q].read # g.read)
    BY DEF Waits, Busy
  <2>3. g.phase # "idle"
    OBVIOUS
  <2>4. CASE a # r /\ b # r
    BY <1>4, <2>1, <2>4 DEF Apart, Busy
  <2>5. CASE a = r /\ b # r
    BY <1>2, <1>4, <2>1, <2>2, <2>3, <2>5 DEF Apart, Busy
  <2>6. CASE a # r /\ b = r
    BY <1>2, <1>4, <2>1, <2>2, <2>3, <2>6 DEF Apart, Busy
  <2>7. CASE a = r /\ b = r
    BY <2>7 DEF Apart
  <2> QED
    BY <2>4, <2>5, <2>6, <2>7
<1>9. AbsentRows' /\ OneRowPerCertificate' /\ RowsKeepTheirMaterial'
  BY DEF Inv, AbsentRows, OneRowPerCertificate, RowsKeepTheirMaterial, Stored
<1>10. Orphans' \subseteq Orphans
  <2>1. g.phase # "idle"
    OBVIOUS
  <2> QED
    BY <1>2, <1>4, <2>1 DEF Orphans
<1>11. FewOrphans'
  BY <1>10, FaultsAssumption, OrphansStayFew DEF Inv, TypeOK
<1> QED
  BY <1>5, <1>6, <1>7, <1>8, <1>9, <1>11 DEF Inv

LEMMA SelectOthersStep ==
  ASSUME Inv, NEW r \in Requests, SelectOthers(r)
  PROVE  Inv'
<1> DEFINE g == req[r]
           h == [g EXCEPT !.phase = "chosen", !.found = Others(r)]
<1>1. /\ g \in Handlers /\ req \in [Requests -> Handlers] /\ Holds(r)
      /\ g.phase = "flushed" /\ g.op = "activate"
      /\ UNCHANGED <<rows, vault, faults, unsure>>
  BY DEF Inv, TypeOK, SelectOthers
<1>2. Others(r) \in SUBSET Refs /\ g.ref \notin Others(r)
  BY DEF Others
<1>3. /\ h \in Handlers /\ h.phase = "chosen" /\ h.op = g.op /\ h.ref = g.ref
      /\ h.view = g.view /\ h.read = g.read /\ h.found = Others(r) /\ h.alone = g.alone
  BY <1>1, <1>2 DEF Handlers
<1>4. req' = [req EXCEPT ![r] = h]
  BY DEF SelectOthers
<1> HIDE DEF h
<1>5. req'[r] = h /\ \A q \in Requests \ {r} : req'[q] = req[q]
  BY <1>1, <1>4
<1>6. TypeOK'
  BY <1>1, <1>2, <1>3, <1>4, <1>5 DEF Inv, TypeOK
<1>7. Holds(r)'
  <2>1. Others(r)' = Others(r)
    BY <1>1, <1>3, <1>5 DEF Others
  <2> QED
    BY <1>1, <1>3, <1>5, <2>1 DEF Holds, Busy, Stored
<1>8. ASSUME NEW q \in Requests, q # r PROVE Holds(q)'
  <2>1. Holds(q) /\ req'[q] = req[q]
    BY <1>5, <1>8 DEF Inv
  <2>2. req[q].phase # "idle" => ~req[q].alone
    BY <1>1, <1>8, <2>1 DEF Holds
  <2> QED
    BY <1>1, <2>1, <2>2 DEF Holds, Busy, Stored
<1>9. ASSUME NEW a \in Requests, NEW b \in Requests PROVE Apart(a, b)'
  BY <1>1, <1>3, <1>5 DEF Inv, Apart, Busy
<1>10. AbsentRows' /\ OneRowPerCertificate' /\ RowsKeepTheirMaterial'
  BY <1>1 DEF Inv, AbsentRows, OneRowPerCertificate, RowsKeepTheirMaterial, Stored
<1>11. Orphans' \subseteq Orphans
  BY <1>1, <1>3, <1>5 DEF Orphans
<1>12. FewOrphans'
  BY <1>1, <1>11, FaultsAssumption, OrphansStayFew DEF Inv, TypeOK
<1> QED
  BY <1>6, <1>7, <1>8, <1>9, <1>10, <1>12 DEF Inv

\* A request ends and leaves the rows: an upload has cleaned up its material or
\* spent a fault, and any other request has none.
LEMMA EndStep ==
  ASSUME Inv, NEW r \in Requests, req[r].phase # "idle", End(r),
         UNCHANGED <<rows, unsure>>,
         \/ vault' = vault
         \/ req[r].op = "upload" /\ vault' = [vault EXCEPT ![req[r].ref] = None],
         faults' \in 0..MaxFaults,
         \/ faults' = faults + 1
         \/ faults' = faults /\ (req[r].op = "upload" => vault'[req[r].ref] = None)
  PROVE  Inv'
<1> DEFINE c == req[r].ref
<1>1. TypeOK /\ Holds(r) /\ c \in Refs
  BY DEF Inv, Holds
<1>2. /\ req' \in [Requests -> Handlers] /\ req'[r] = Idle
      /\ \A q \in Requests \ {r} : req'[q] = req[q]
  BY <1>1, EndFields
<1>3. /\ vault' \in [Refs -> Files \cup {None}]
      /\ \A e \in Refs : vault'[e] # vault[e] => req[r].op = "upload" /\ e = c
      /\ \A e \in Refs : vault'[e] # None => vault[e] # None
  BY <1>1 DEF TypeOK
<1>4. TypeOK'
  BY <1>1, <1>2, <1>3, NoneAssumption DEF TypeOK, Idle, Refs
<1>5. ASSUME NEW q \in Requests PROVE Holds(q)'
  <2>1. CASE q = r
    BY <1>2, <2>1, IdleType DEF Holds
  <2>2. CASE q # r
    <3>1. Holds(q) /\ req'[q] = req[q] /\ Apart(r, q)
      BY <1>2, <2>2 DEF Inv
    <3>2. req[q].phase # "idle" => ~req[q].alone
      BY <2>2, <3>1 DEF Holds
    <3>3. req[q].phase # "idle" => vault'[req[q].ref] = vault[req[q].ref]
      BY <1>3, <2>2, <3>1 DEF Apart, Holds
    <3> QED
      BY <3>1, <3>2, <3>3 DEF Holds, Busy, Stored
  <2> QED
    BY <2>1, <2>2
<1>6. ASSUME NEW a \in Requests, NEW b \in Requests PROVE Apart(a, b)'
  BY <1>2, IdleType DEF Inv, Apart, Busy
<1>7. AbsentRows' /\ OneRowPerCertificate'
  BY DEF Inv, AbsentRows, OneRowPerCertificate, Stored
<1>8. RowsKeepTheirMaterial'
  <2>1. req[r].op = "upload" => rows[c] = NoRow
    BY <1>1 DEF Holds
  <2> QED
    BY <1>3, <2>1 DEF Inv, RowsKeepTheirMaterial, Stored
<1>9. Orphans' \subseteq Orphans \cup {c}
  BY <1>2, <1>3 DEF Orphans, Refs
<1>10. ASSUME faults' # faults + 1 PROVE c \notin Orphans'
  <2>1. CASE req[r].op = "upload"
    BY <1>10, <2>1 DEF Orphans
  <2>2. CASE req[r].op = "register"
    BY <1>1, <2>2, ReferencesAssumption DEF Holds, Orphans
  <2>3. CASE req[r].op \in RowOps
    BY <1>1, <2>3 DEF Holds, Orphans, Stored
  <2> QED
    BY <1>1, <2>1, <2>2, <2>3, HandlerFields DEF TypeOK, RowOps
<1>11. FewOrphans'
  <2>1. faults' \in Nat /\ faults \in Nat
    BY <1>1, FaultsAssumption DEF TypeOK
  <2>2. CASE faults' = faults + 1
    BY <1>1, <1>9, <2>1, <2>2, OrphansStayFew DEF Inv
  <2>3. CASE faults' # faults + 1
    <3>1. Orphans' \subseteq Orphans /\ faults' = faults
      BY <1>9, <1>10, <2>3
    <3> QED
      BY <1>1, <2>1, <3>1, OrphansStayFew DEF Inv
  <2> QED
    BY <2>2, <2>3
<1> QED
  BY <1>4, <1>5, <1>6, <1>7, <1>8, <1>11 DEF Inv

-----------------------------------------------------------------------------
(* A request writes rows and ends *)

\* A request commits its own row with its fingerprint, which no other row and
\* nobody else holds; of other rows it changes neither existence nor fingerprint.
LEMMA WriteStep ==
  ASSUME Inv, NEW r \in Requests, req[r].phase # "idle", End(r),
         rows' \in [Refs -> Rows],
         \A c \in Refs \ {req[r].ref} :
           /\ rows'[c].print = rows[c].print
           /\ rows'[c].status = "absent" <=> rows[c].status = "absent"
           /\ rows'[c].status = "absent" => rows'[c] = rows[c],
         rows'[req[r].ref].status # "absent",
         rows'[req[r].ref].print \in {rows[req[r].ref].print, req[r].read},
         req[r].read # None => \A c \in Stored \ {req[r].ref} : rows[c].print # req[r].read,
         req[r].read # None => \A q \in Requests \ {r} : Busy(q) => req[q].read # req[r].read,
         \/ vault' = vault /\ unsure' = unsure /\ faults' = faults
         \/ /\ vault' \in {vault, [vault EXCEPT ![req[r].ref] = None]}
            /\ unsure' = unsure \cup {req[r].ref}
            /\ req[r].op = "upload" /\ faults' = faults + 1 /\ faults' \in 0..MaxFaults
  PROVE  Inv'
<1> DEFINE c == req[r].ref
<1>1. TypeOK /\ Holds(r) /\ c \in Refs /\ AbsentRows
  BY DEF Inv, Holds
<1>2. /\ req' \in [Requests -> Handlers] /\ req'[r] = Idle
      /\ \A q \in Requests \ {r} : req'[q] = req[q]
  BY <1>1, EndFields
<1>3. \A e \in Refs : rows[e] = NoRow <=> rows[e].status = "absent"
  <2>1. NoRow.status = "absent"
    BY DEF NoRow
  <2> QED
    BY <1>1, <2>1 DEF AbsentRows
<1>4. /\ \A e \in Refs \ {c} : rows'[e] = NoRow <=> rows[e] = NoRow
      /\ rows'[c] # NoRow /\ NoRow.print = None
  <2>1. NoRow.status = "absent" /\ NoRow.print = None
    BY DEF NoRow
  <2> QED
    BY <1>1, <1>3, <2>1
<1>5. TypeOK'
  BY <1>1, <1>2, NoneAssumption DEF TypeOK, Idle, Refs, Holds
<1>6. AbsentRows'
  BY <1>1 DEF AbsentRows
<1>7. Stored' = Stored \cup {c}
  BY <1>1, <1>4 DEF Stored
<1>8. OneRowPerCertificate'
  <2> SUFFICES ASSUME NEW a \in Stored', NEW b \in Stored', a # b,
                      rows'[a].print = rows'[b].print, rows'[a].print # None
               PROVE  FALSE
    BY DEF OneRowPerCertificate
  <2>1. ASSUME NEW e \in Stored', e # c PROVE e \in Stored /\ rows'[e].print = rows[e].print
    BY <1>7, <2>1 DEF Stored
  <2>2. ASSUME NEW e \in Stored', e # c, rows'[e].print # None
        PROVE  rows'[c].print # rows'[e].print
    <3>1. e \in Stored /\ rows'[e].print = rows[e].print
      BY <2>1, <2>2
    <3>2. rows[c].print # rows[e].print
      <4>1. CASE c \in Stored
        BY <2>2, <3>1, <4>1 DEF Inv, OneRowPerCertificate
      <4>2. CASE c \notin Stored
        BY <1>1, <1>4, <2>2, <3>1, <4>2 DEF Stored
      <4> QED
        BY <4>1, <4>2
    <3> QED
      BY <2>2, <3>1, <3>2
  <2>3. a # c /\ b # c
    BY <2>2
  <2> QED
    BY <2>1, <2>3 DEF Inv, OneRowPerCertificate
<1>9. ASSUME NEW q \in Requests PROVE Holds(q)'
  <2>1. CASE q = r
    BY <1>2, <2>1, IdleType DEF Holds
  <2>2. CASE q # r
    <3>1. Holds(q) /\ req'[q] = req[q] /\ Apart(r, q) /\ Apart(q, r)
      BY <1>2, <2>2 DEF Inv
    <3>2. req[q].phase # "idle" => ~req[q].alone
      BY <2>2, <3>1 DEF Holds
    <3>3. req[q].phase # "idle" /\ req[q].op = "upload" =>
            rows'[req[q].ref] = NoRow /\ vault'[req[q].ref] = vault[req[q].ref]
      <4>1. req[q].phase # "idle" /\ req[q].op = "upload" => req[q].ref # c
        BY <2>2, <3>1 DEF Apart
      <4> QED
        BY <1>1, <1>4, <3>1, <4>1 DEF Holds, TypeOK
    <3>4. Busy(q) /\ req[q].read # None =>
            \A e \in Stored' \ {req[q].ref} : rows'[e].print # req[q].read
      <4> SUFFICES ASSUME Busy(q), req[q].read # None, NEW e \in Stored', e # req[q].ref
                   PROVE  rows'[e].print # req[q].read
        OBVIOUS
      <4>1. \A d \in Stored \ {req[q].ref} : rows[d].print # req[q].read
        BY <3>1 DEF Holds, Busy
      <4>2. CASE e # c
        BY <1>7, <4>1, <4>2 DEF Stored
      <4>3. CASE e = c
        <5>1. req[r].read # req[q].read
          BY <2>2
        <5>2. rows[c].print # req[q].read
          BY <1>1, <1>4, <4>1, <4>3 DEF Stored
        <5> QED
          BY <4>3, <5>1, <5>2
      <4> QED
        BY <4>2, <4>3
    <3>5. req[q].phase # "idle" /\ req[q].op \in RowOps => req[q].ref \in Stored'
      BY <1>7, <3>1 DEF Holds
    <3> QED
      BY <3>1, <3>2, <3>3, <3>4, <3>5 DEF Holds, Busy
  <2> QED
    BY <2>1, <2>2
<1>10. ASSUME NEW a \in Requests, NEW b \in Requests PROVE Apart(a, b)'
  BY <1>2, IdleType DEF Inv, Apart, Busy
<1>11. RowsKeepTheirMaterial'
  <2> SUFFICES ASSUME NEW u \in Uploads, u \in Stored', u \notin unsure'
               PROVE  vault'[u] # None
    BY DEF RowsKeepTheirMaterial
  <2>1. u \notin unsure /\ vault'[u] = vault[u] /\ u \in Refs
    BY <1>1 DEF TypeOK, Refs
  <2>2. CASE u \in Stored
    BY <2>1, <2>2 DEF Inv, RowsKeepTheirMaterial
  <2>3. CASE u \notin Stored
    <3>1. u = c
      BY <1>7, <2>3
    <3>2. req[r].op = "upload"
      BY <1>1, <2>3, <3>1, ReferencesAssumption, HandlerFields DEF Holds, RowOps, TypeOK
    <3> QED
      BY <1>1, <2>1, <3>1, <3>2 DEF Holds
  <2> QED
    BY <2>2, <2>3
<1>12. Orphans' \subseteq Orphans
  <2> SUFFICES ASSUME NEW u \in Uploads, u \in Orphans' PROVE u \in Orphans
    BY DEF Orphans
  <2>1. rows'[u] = NoRow /\ vault'[u] # None /\ u \in Refs
    BY DEF Orphans, Refs
  <2>2. u # c
    BY <1>4, <2>1
  <2>3. rows[u] = NoRow /\ vault[u] # None
    BY <1>1, <1>4, <2>1, <2>2 DEF TypeOK
  <2>4. \A q \in Requests : req'[q].phase = "idle" \/ req'[q].ref # u
    BY DEF Orphans
  <2> QED
    BY <1>2, <2>2, <2>3, <2>4 DEF Orphans
<1>13. faults \in Nat /\ faults' \in Nat /\ faults <= faults'
  BY <1>1, FaultsAssumption DEF TypeOK
<1>14. FewOrphans'
  BY <1>1, <1>12, <1>13, OrphansStayFew DEF Inv
<1> QED
  BY <1>5, <1>6, <1>8, <1>9, <1>10, <1>11, <1>14 DEF Inv

-----------------------------------------------------------------------------
(* The actions *)

\* What the clean-up makes of the vault.
LEMMA CleanUp ==
  ASSUME Inv, NEW r \in Requests, req[r].phase # "idle"
  PROVE  /\ req[r].op = "upload" =>
              /\ CleanedUp(r) = [vault EXCEPT ![req[r].ref] = None]
              /\ CleanedUp(r)[req[r].ref] = None
         /\ req[r].op # "upload" => CleanedUp(r) = vault
BY DEF Inv, TypeOK, Holds, CleanedUp, CleansUp

LEMMA InsertFailsStep ==
  ASSUME Inv, NEW r \in Requests, InsertFails(r)
  PROVE  Inv'
<1>1. /\ req[r].phase = "new" /\ End(r) /\ UNCHANGED <<rows, unsure>>
      /\ \/ vault' = CleanedUp(r) /\ faults' = faults
         \/ req[r].op = "upload" /\ faults < MaxFaults /\ faults' = faults + 1 /\ vault' = vault
  BY DEF InsertFails
<1>2. faults' \in 0..MaxFaults
  BY <1>1, FaultsAssumption DEF Inv, TypeOK
<1> QED
  BY <1>1, <1>2, CleanUp, EndStep

\* An insert or a commit that may be stored keeps what the request flushed.
LEMMA NewRowStep ==
  ASSUME Inv, NEW r \in Requests, req[r].phase = "flushed",
         req[r].op \in {"upload", "register"}, End(r),
         rows' = [rows EXCEPT ![req[r].ref] = NewRow(r)],
         \/ vault' = vault /\ unsure' = unsure /\ faults' = faults
         \/ /\ vault' \in {vault, [vault EXCEPT ![req[r].ref] = None]}
            /\ unsure' = unsure \cup {req[r].ref}
            /\ req[r].op = "upload" /\ faults' = faults + 1 /\ faults' \in 0..MaxFaults
  PROVE  Inv'
<1> DEFINE c == req[r].ref
<1>1. /\ c \in Refs /\ rows \in [Refs -> Rows] /\ Holds(r)
      /\ req[r].read \in Files \cup {None}
  BY HandlerFields DEF Inv, TypeOK, Holds
<1>2. NewRow(r) \in Rows /\ NewRow(r).status = "pending_validation"
      /\ NewRow(r).print = req[r].read
  BY <1>1 DEF NewRow, Rows, Statuses
<1>3. rows' \in [Refs -> Rows] /\ rows'[c] = NewRow(r)
      /\ \A e \in Refs \ {c} : rows'[e] = rows[e]
  BY <1>1, <1>2
<1>4. req[r].read # None => \A e \in Stored \ {c} : rows[e].print # req[r].read
  BY <1>1 DEF Holds, Busy
<1>5. req[r].read # None => \A q \in Requests \ {r} : Busy(q) => req[q].read # req[r].read
  BY DEF Inv, Apart, Busy
<1> QED
  BY <1>1, <1>2, <1>3, <1>4, <1>5, WriteStep

LEMMA InsertStep ==
  ASSUME Inv, NEW r \in Requests, Insert(r)
  PROVE  Inv'
BY NewRowStep DEF Insert

LEMMA CommitRaisesStep ==
  ASSUME Inv, NEW r \in Requests, CommitRaises(r)
  PROVE  Inv'
<1>1. /\ req[r].phase = "flushed" /\ req[r].op = "upload" /\ End(r)
      /\ faults < MaxFaults /\ faults' = faults + 1
      /\ vault' \in {vault, CleanedUp(r)}
  BY DEF CommitRaises
<1>2. faults' \in 0..MaxFaults
  BY <1>1, FaultsAssumption DEF Inv, TypeOK
<1>3. CleanedUp(r) = [vault EXCEPT ![req[r].ref] = None]
  BY <1>1, CleanUp
<1>4. CASE UNCHANGED <<rows, unsure>>
  BY <1>1, <1>2, <1>3, <1>4, EndStep
<1>5. CASE /\ rows' = [rows EXCEPT ![req[r].ref] = NewRow(r)]
           /\ unsure' = unsure \cup {req[r].ref}
  BY <1>1, <1>2, <1>3, <1>5, NewRowStep
<1> QED
  BY <1>4, <1>5 DEF CommitRaises

\* A request that does not store a row ends without a change.
LEMMA QuitStep ==
  ASSUME Inv, NEW r \in Requests, UpdateFails(r) \/ Deadlocked(r) \/ Die(r)
  PROVE  Inv'
<1>1. /\ req[r].phase # "idle" /\ End(r) /\ UNCHANGED <<rows, vault, unsure>>
      /\ \/ faults' = faults /\ req[r].phase \in {"loaded", "chosen"}
         \/ faults' = faults + 1 /\ faults < MaxFaults
  BY DEF UpdateFails, Deadlocked, Die
<1>2. req[r].phase \in {"loaded", "chosen"} => req[r].op # "upload"
  BY DEF Inv, Holds, RowOps
<1>3. faults' \in 0..MaxFaults
  BY <1>1, FaultsAssumption DEF Inv, TypeOK
<1> QED
  BY <1>1, <1>2, <1>3, EndStep

\* A request that saves its own row over its copy, with its status and either
\* the fingerprint it read or that of its copy.
LEMMA SavedRow ==
  ASSUME Inv, NEW r \in Requests, req[r].phase # "idle", req[r].op \in RowOps,
         NEW new \in Rows, new.status # "absent",
         new.print \in {req[r].view.print, req[r].read}
  PROVE  LET c == req[r].ref IN
         /\ Saved(r, new) \in [Refs -> Rows]
         /\ \A e \in Refs \ {c} : Saved(r, new)[e] = rows[e]
         /\ Saved(r, new)[c].status # "absent"
         /\ Saved(r, new)[c].print \in {rows[c].print, req[r].read}
         /\ req[r].view = rows[c] =>
              /\ Saved(r, new)[c].status = new.status
              /\ Saved(r, new)[c].active = new.active
<1> DEFINE c == req[r].ref
           w == Written(rows[c], req[r].view, new)
<1>1. /\ c \in Refs /\ c \in Stored /\ req[r].view \in Rows /\ rows \in [Refs -> Rows]
      /\ rows[c] \in Rows
  BY HandlerFields DEF Inv, TypeOK, Holds
<1>2. rows[c].status # "absent"
  BY <1>1 DEF Inv, AbsentRows, Stored
<1>3. /\ w \in Rows
      /\ w.status = IF new.status = req[r].view.status THEN rows[c].status ELSE new.status
      /\ w.active = IF new.active = req[r].view.active THEN rows[c].active ELSE new.active
      /\ w.print = IF new.print = req[r].view.print THEN rows[c].print ELSE new.print
  BY <1>1, WrittenColumns
<1>4. Saved(r, new) = [rows EXCEPT ![c] = w]
  BY DEF Saved
<1> HIDE DEF w
<1> QED
  BY <1>1, <1>2, <1>3, <1>4

LEMMA ValidateOrUseStep ==
  ASSUME Inv, NEW r \in Requests, Validate(r) \/ Use(r)
  PROVE  Inv'
<1> DEFINE c == req[r].ref
<1>1. /\ req[r].phase = "loaded" /\ req[r].op \in RowOps /\ End(r)
      /\ ~Waits(r) /\ ~Taken(r) /\ UNCHANGED <<vault, faults, unsure>>
  BY DEF Validate, Use, RowOps
<1>2. /\ req[r].view \in Rows /\ req[r].view.status # "absent"
      /\ req[r].read \in Files \cup {None}
  BY <1>1, HandlerFields DEF Inv, TypeOK, Holds
<1>3. PICK new \in Rows : /\ rows' = Saved(r, new) /\ new.status # "absent"
                          /\ new.print \in {req[r].view.print, req[r].read}
  <2>1. CASE Validate(r)
    <3>1. /\ Validated(r) \in Rows /\ Validated(r).status # "absent"
          /\ Validated(r).print \in {req[r].view.print, req[r].read}
      BY <1>2 DEF Validated, Rows, Statuses
    <3> QED
      BY <2>1, <3>1 DEF Validate
  <2>2. CASE Use(r)
    <3> DEFINE new == [req[r].view EXCEPT !.print = req[r].read]
    <3>1. new \in Rows /\ new.status # "absent" /\ new.print = req[r].read
      BY <1>2 DEF Rows
    <3>2. rows' = Saved(r, new)
      BY <2>2 DEF Use
    <3> HIDE DEF new
    <3> QED
      BY <3>1, <3>2
  <2> QED
    BY <1>1, <2>1, <2>2
<1>4. /\ rows' \in [Refs -> Rows] /\ \A e \in Refs \ {c} : rows'[e] = rows[e]
      /\ rows'[c].status # "absent" /\ rows'[c].print \in {rows[c].print, req[r].read}
  BY <1>1, <1>3, SavedRow
<1>5. req[r].read # None => \A e \in Stored \ {c} : rows[e].print # req[r].read
  BY <1>1 DEF Taken
<1>6. req[r].read # None => \A q \in Requests \ {r} : Busy(q) => req[q].read # req[r].read
  BY <1>1 DEF Waits, Busy
<1> QED
  BY <1>1, <1>4, <1>5, <1>6, WriteStep

\* What an activation leaves: the rows it found active are disabled, its own is
\* saved, and no other row changes.
LEMMA ActivatedRows ==
  ASSUME Inv, NEW r \in Requests, Activate(r)
  PROVE  LET c == req[r].ref IN
         /\ rows' \in [Refs -> Rows]
         /\ \A e \in Refs \ {c} :
              \/ /\ e \in req[r].found /\ rows[e].active /\ rows'[e].status = "disabled"
                 /\ rows'[e].active = FALSE /\ rows'[e].print = rows[e].print
                 /\ rows[e].status # "absent"
              \/ ~(e \in req[r].found /\ rows[e].active) /\ rows'[e] = rows[e]
         /\ rows'[c].status # "absent"
         /\ rows'[c].print \in {rows[c].print, req[r].read}
         /\ req[r].view = rows[c] => rows'[c].status = "active" /\ rows'[c].active = TRUE
<1> DEFINE c == req[r].ref
           new == [status |-> "active", active |-> TRUE, print |-> req[r].read]
           own == Saved(r, new)
<1>1. /\ req[r].phase = "chosen" /\ End(r) /\ UNCHANGED <<vault, faults, unsure>>
      /\ rows' = [e \in Refs |-> IF e \in req[r].found /\ rows[e].active
                                 THEN Disabled(rows[e]) ELSE own[e]]
  BY Zenon DEF Activate
<1>2. /\ req[r].op \in RowOps /\ Holds(r) /\ c \in Refs /\ c \notin req[r].found
      /\ req[r].read \in Files \cup {None} /\ rows \in [Refs -> Rows]
  BY <1>1, HandlerFields DEF Inv, TypeOK, Holds, RowOps
<1>3. /\ new \in Rows /\ new.status = "active" /\ new.active = TRUE
      /\ new.print = req[r].read
  BY <1>2 DEF Rows, Statuses
<1> HIDE DEF new
<1>4. /\ own \in [Refs -> Rows] /\ \A e \in Refs \ {c} : own[e] = rows[e]
      /\ own[c].status # "absent" /\ own[c].print \in {rows[c].print, req[r].read}
      /\ req[r].view = rows[c] => own[c].status = "active" /\ own[c].active = TRUE
  BY <1>1, <1>2, <1>3, SavedRow
<1> HIDE DEF own
<1>5. ASSUME NEW e \in Refs
      PROVE  /\ Disabled(rows[e]) \in Rows /\ Disabled(rows[e]).status = "disabled"
             /\ Disabled(rows[e]).active = FALSE
             /\ Disabled(rows[e]).print = rows[e].print
  BY <1>2 DEF Disabled, Rows, Statuses
<1>6. \A e \in Refs : rows[e].active => rows[e].status # "absent"
  BY DEF Inv, AbsentRows, NoRow
<1>7. rows' \in [Refs -> Rows]
  BY <1>1, <1>4, <1>5
<1>8. rows'[c] = own[c]
  BY <1>1, <1>2
<1>9. ASSUME NEW e \in Refs \ {c}
      PROVE  \/ /\ e \in req[r].found /\ rows[e].active /\ rows'[e].status = "disabled"
                /\ rows'[e].active = FALSE /\ rows'[e].print = rows[e].print
                /\ rows[e].status # "absent"
             \/ ~(e \in req[r].found /\ rows[e].active) /\ rows'[e] = rows[e]
  BY <1>1, <1>4, <1>5, <1>6
<1> QED
  BY <1>4, <1>7, <1>8, <1>9

LEMMA ActivateStep ==
  ASSUME Inv, NEW r \in Requests, Activate(r)
  PROVE  Inv'
<1> DEFINE c == req[r].ref
<1>1. req[r].phase = "chosen" /\ End(r) /\ UNCHANGED <<vault, faults, unsure>> /\ Holds(r)
  BY DEF Activate, Inv
<1>2. /\ rows' \in [Refs -> Rows]
      /\ rows'[c].status # "absent" /\ rows'[c].print \in {rows[c].print, req[r].read}
  BY ActivatedRows
<1>3. \A e \in Refs \ {c} :
        /\ rows'[e].print = rows[e].print
        /\ rows'[e].status = "absent" <=> rows[e].status = "absent"
        /\ rows'[e].status = "absent" => rows'[e] = rows[e]
  BY ActivatedRows
<1>4. req[r].read # None => \A e \in Stored \ {c} : rows[e].print # req[r].read
  BY <1>1 DEF Holds, Busy
<1>5. req[r].read # None => \A q \in Requests \ {r} : Busy(q) => req[q].read # req[r].read
  BY <1>1 DEF Inv, Apart, Busy
<1> QED
  BY <1>1, <1>2, <1>3, <1>4, <1>5, WriteStep

\* The invariant is inductive.
LEMMA NextInv == Inv /\ [Next]_vars => Inv'
<1> SUFFICES ASSUME Inv, [Next]_vars PROVE Inv'
  OBVIOUS
<1>1. ASSUME NEW r \in Requests, NEW u \in Uploads, NEW f \in Files, Upload(r, u, f)
      PROVE  Inv'
  BY <1>1, UploadStep
<1>2. ASSUME NEW r \in Requests, NEW c \in Listed, Register(r, c)
      PROVE  Inv'
  BY <1>2, RegisterStep
<1>3. ASSUME NEW r \in Requests, NEW op \in RowOps, NEW c \in Refs, Load(r, op, c)
      PROVE  Inv'
  BY <1>3, LoadStep
<1>4. ASSUME NEW r \in Requests, Flush(r) \/ FlushMetadata(r)
      PROVE  Inv'
  BY <1>4, FlushedStep DEF Flush, FlushMetadata
<1>5. ASSUME NEW r \in Requests,
             InsertFails(r) \/ Insert(r) \/ CommitRaises(r) \/ Validate(r) \/ Use(r)
      PROVE  Inv'
  BY <1>5, InsertFailsStep, InsertStep, CommitRaisesStep, ValidateOrUseStep
<1>6. ASSUME NEW r \in Requests,
             SelectOthers(r) \/ Activate(r) \/ UpdateFails(r) \/ Deadlocked(r) \/ Die(r)
      PROVE  Inv'
  BY <1>6, SelectOthersStep, ActivateStep, QuitStep
<1>7. CASE UNCHANGED vars
  <2>1. UNCHANGED <<rows, vault, req, faults, unsure>>
    BY <1>7 DEF vars
  <2> QED
    BY <2>1 DEF Inv, TypeOK, Holds, Busy, Stored, Others, Apart, AbsentRows,
                OneRowPerCertificate, RowsKeepTheirMaterial, FewOrphans, Orphans,
                OrphansAreFaults
<1> QED
  BY <1>1, <1>2, <1>3, <1>4, <1>5, <1>6, <1>7 DEF Next, RowOps

LEMMA AlwaysInv == Spec => []Inv
BY InitInv, NextInv, PTL DEF Spec

-----------------------------------------------------------------------------

\* Rows, vault and requests keep their types, and an activation never finds its
\* own row.
THEOREM TypeCorrect == Spec => []TypeOK
BY AlwaysInv, PTL DEF Inv

\* However uploads, registrations, validations, uses and activations race, a
\* certificate is in the registry once: the query of upload can be stale, but a
\* flush takes the fingerprint before anything is written
\* (uq_fiscal_certificate_client_fingerprint).
THEOREM CertificatesAreUnique == Spec => []OneRowPerCertificate
BY AlwaysInv, PTL DEF Inv

\* A clean-up never deletes the material of a stored row, but for a commit that
\* was stored and reported as failed: the reference of an upload is its own.
THEOREM MaterialIsKept == Spec => []RowsKeepTheirMaterial
BY AlwaysInv, PTL DEF Inv

\* There are never more private keys without a row than faults: every upload
\* that ends without a row deletes its material, or died, or its clean-up failed.
THEOREM OrphansAreBounded == Spec => []OrphansAreFaults
<1>1. Inv => OrphansAreFaults
  BY DEF Inv, FewOrphans
<1> QED
  BY <1>1, AlwaysInv, PTL

\* An activation that overlapped no other request leaves its certificate active
\* and every other one inactive: what it found is still what is active.
THEOREM ActivationIsExclusive == Spec => ActivationAloneIsExclusive
<1> DEFINE Exclusive(r) ==
      req[r].phase = "chosen" /\ req[r].alone /\ req'[r].phase = "idle" /\ rows' # rows =>
        /\ {c \in Refs : rows'[c].active} = {req[r].ref}
        /\ rows'[req[r].ref].status = "active"
<1>1. ASSUME Inv, Next, NEW r \in Requests,
             req[r].phase = "chosen", req[r].alone, req'[r].phase = "idle", rows' # rows
      PROVE  /\ {c \in Refs : rows'[c].active} = {req[r].ref}
             /\ rows'[req[r].ref].status = "active"
  <2>1. /\ Holds(r) /\ req \in [Requests -> Handlers] /\ TypeOK
        /\ \A q \in Requests \ {r} : req[q].phase = "idle"
        /\ req[r].view = rows[req[r].ref] /\ req[r].found = Others(r)
    BY <1>1 DEF Inv, TypeOK, Holds
  <2>2. Activate(r)
    <3>1. ASSUME NEW q \in Requests, Insert(q) \/ CommitRaises(q) \/ Validate(q) \/ Use(q)
          PROVE  FALSE
      BY <1>1, <2>1, <3>1 DEF Insert, CommitRaises, Validate, Use, Holds
    <3>2. ASSUME NEW q \in Requests, Activate(q) PROVE q = r
      BY <2>1, <3>2 DEF Activate
    <3> QED
      BY <1>1, <3>1, <3>2
      DEF Next, Upload, Register, Flush, InsertFails, Load, UpdateFails, FlushMetadata,
          SelectOthers, Deadlocked, Die
  <2>3. rows'[req[r].ref].status = "active" /\ rows'[req[r].ref].active = TRUE
    BY <1>1, <2>1, <2>2, ActivatedRows
  <2>4. ASSUME NEW e \in Refs, e # req[r].ref PROVE rows'[e].active = FALSE
    <3>1. rows[e].active \in BOOLEAN
      BY <2>1 DEF TypeOK, Rows
    <3>2. rows[e].active => e \in req[r].found
      BY <2>1, <2>4 DEF Others
    <3> QED
      BY <1>1, <2>2, <2>4, <3>1, <3>2, ActivatedRows
  <2>5. req[r].ref \in Refs
    BY <1>1, <2>1 DEF Holds
  <2> QED
    BY <2>3, <2>4, <2>5
<1>2. Inv /\ [Next]_vars => [\A r \in Requests : Exclusive(r)]_vars
  BY <1>1
<1> QED
  BY <1>2, AlwaysInv, PTL DEF Spec, ActivationAloneIsExclusive

=============================================================================
