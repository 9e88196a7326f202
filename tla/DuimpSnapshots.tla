--------------------------- MODULE DuimpSnapshots ---------------------------
(***************************************************************************)
(* The snapshots of the DUIMP of one process: how PortalUnicoDuimpGateway  *)
(* reads a version of it page by page, and what a fetch and the NF-e       *)
(* context make of the answer (ImportNfeService, NfeContextResolver).      *)
(*                                                                         *)
(* A fetch locks the process before it asks the Portal, a context only     *)
(* after; both commit at their end.  The fields that the NF-e needs beside *)
(* the items are kept in normalized_payload of a snapshot, each with its   *)
(* source, and are written back as a whole.                                *)
(***************************************************************************)
EXTENDS Naturals, Sequences, SequencesExt, FiniteSetsExt

CONSTANTS
  Handlers,      \* requests
  Duimps,        \* what a version of the DUIMP may hold
  PageSize,      \* items in a page
  Fields,        \* fields that an operator may override
  Values,        \* values of the fields
  None,          \* no value
  MaxVersions,   \* bound: versions registered at the Portal
  MaxSnapshots,  \* bound: snapshots
  MaxContexts    \* bound: contexts resolved

ASSUME DuimpSnapshotsAssumption ==
  /\ PageSize \in Nat \ {0} /\ None \notin Values
  /\ \A d \in Duimps : /\ d.items \in Nat /\ d.stated \in {0, d.items}
                       /\ d.fields \in [Fields -> Values \cup {None}]

\* No value is not a value with a source.
ASSUME NoneAssumption ==
  \A v \in Values : None # [value |-> v, by |-> "operator"]

VARIABLES
  portal,     \* the versions of the DUIMP, oldest first
  process,    \* duimp_version of the process, as committed
  snapshots,  \* committed snapshots, by the order of their creation
  made,       \* snapshots created, committed or not
  holder,     \* the handler with an uncommitted update of the process, or None
  req,        \* what each handler is doing
  contexts,   \* contexts resolved
  given,      \* history: what operators gave for the fields of each snapshot
  raced,      \* history: a handler committed after it had missed a commit
  backdated   \* history: a context refreshed another snapshot than the newest

vars == <<portal, process, snapshots, made, holder, req, contexts, given, raced, backdated>>

-----------------------------------------------------------------------------
(* The Portal *)

\* A field comes from the DUIMP, from another service, or from an operator.
Sourced(value, by) == IF value = None THEN None ELSE [value |-> value, by |-> by]
Blank == [f \in Fields |-> None]

Current == Len(portal)

\* A rectification of the DUIMP.
Register ==
  /\ Current < MaxVersions
  /\ \E d \in Duimps : d # portal[Current] /\ portal' = Append(portal, d)
  /\ UNCHANGED <<process, snapshots, made, holder, req, contexts, given, raced, backdated>>

\* The items `from`.. of a version, at most a page of them; the Portal may send
\* fewer.
Pages(version, from) ==
  LET last(n) == IF from + n - 1 < portal[version].items
                 THEN from + n - 1 ELSE portal[version].items
  IN {[i \in 1..(last(n) + 1 - from) |-> from + i - 1] : n \in 0..PageSize}

-----------------------------------------------------------------------------
(* The gateway *)

Idle ==
  [phase |-> "idle", kind |-> "none", base |-> 0, fields |-> Blank, over |-> Blank,
   loaded |-> None, version |-> 0, stated |-> 0, items |-> << >>,
   content |-> None, snapshot |-> 0, late |-> FALSE]

Set(h, r) == req' = [req EXCEPT ![h] = r]
Unlock(h) == holder' = IF holder = h THEN None ELSE holder

\* authenticate, the version in force and its general data.
Ask(h) ==
  /\ req[h].phase = "ask"
  /\ Set(h, [req[h] EXCEPT !.phase = "items", !.version = Current,
                           !.stated = portal[Current].stated])
  /\ UNCHANGED <<portal, process, snapshots, made, holder, contexts, given, raced, backdated>>

\* _fetch_items ends with an empty page, a short one, or all that was stated.
IsLast(page, items, stated) ==
  \/ page = << >>
  \/ stated > 0 /\ Len(items) >= stated
  \/ Len(page) < PageSize

\* Mutant: nobody counts the items.
IsCompleteUncounted(items, stated) == TRUE

\* The items must be as many as the DUIMP states, if it states it.
IsComplete(items, stated) == stated > 0 => Len(items) = stated

\* The items come from the version the gateway was told at first.
ReadPage(h) ==
  LET r == req[h] IN
  /\ r.phase = "items"
  /\ \E page \in Pages(r.version, Len(r.items) + 1) :
       LET items == r.items \o page IN
       IF IsLast(page, items, r.stated)
       THEN /\ IsComplete(items, r.stated)
            /\ Set(h, [r EXCEPT !.phase = "read", !.items = items])
       ELSE Set(h, [r EXCEPT !.items = items])
  /\ UNCHANGED <<portal, process, snapshots, made, holder, contexts, given, raced, backdated>>

-----------------------------------------------------------------------------
(* Snapshots *)

\* What the checksum of a snapshot covers: the answer of the gateway, with what
\* the catalogue added to the items or not.
Content(version, items, enriched) ==
  [version |-> version, items |-> items, enriched |-> enriched]

\* normalize: the fields that the DUIMP itself has.
Normalized(version) == [f \in Fields |-> Sourced(portal[version].fields[f], "duimp")]

Newest == Max(DOMAIN snapshots \cup {0})

\* The end of the request of h, which puts snapshot s at n.
Commit(h, n, s, version) ==
  /\ snapshots' = [m \in DOMAIN snapshots \cup {n} |-> IF m = n THEN s ELSE snapshots[m]]
  /\ process' = IF version = req[h].loaded THEN process ELSE version
  /\ Unlock(h)
  /\ raced' = (raced \/ req[h].late)
  /\ req' = [g \in Handlers |-> IF g = h THEN Idle ELSE [req[g] EXCEPT !.late = req[g].phase # "idle"]]

\* The route reads the process, for a fetch or for data typed by hand.
LoadProcess(h) ==
  /\ req[h].phase = "idle"
  /\ \E kind \in {"fetch", "manual"} :
       /\ kind = "manual" => made < MaxSnapshots
       /\ Set(h, [Idle EXCEPT !.phase = "loaded", !.kind = kind, !.loaded = process])
  /\ UNCHANGED <<portal, process, snapshots, made, holder, contexts, given, raced, backdated>>

\* fetch_duimp_for_process writes DUIMP_FETCHING first, on the copy it has.
BeginFetch(h) ==
  /\ req[h].phase = "loaded" /\ req[h].kind = "fetch" /\ holder = None
  /\ holder' = h
  /\ Set(h, [req[h] EXCEPT !.phase = "ask"])
  /\ UNCHANGED <<portal, process, snapshots, made, contexts, given, raced, backdated>>

\* The new snapshot has nothing of the one before it.
CommitFetch(h) ==
  LET r == req[h]
      n == made + 1
  IN /\ r.phase = "read" /\ r.kind = "fetch" /\ made < MaxSnapshots
     /\ made' = n
     /\ \E enriched \in BOOLEAN :
          Commit(h, n, [content |-> Content(r.version, r.items, enriched),
                        fields |-> Normalized(r.version), kind |-> "fetch"], r.version)
     /\ given' = [m \in DOMAIN given \cup {n} |-> IF m = n THEN Blank ELSE given[m]]
     /\ UNCHANGED <<portal, contexts, backdated>>

-----------------------------------------------------------------------------
(* The NF-e context *)

\* Mutant: fields that an operator gave are asked for again.
PreservedNone(fields) == Blank

\* _operator_overrides_from_normalized.
Preserved(fields) ==
  [f \in Fields |-> IF fields[f] # None /\ fields[f].by = "operator"
                    THEN fields[f].value ELSE None]

\* The route reads the newest snapshot, or the one it is told.
BeginContext(h) ==
  /\ req[h].phase = "idle" /\ contexts < MaxContexts
  /\ contexts' = contexts + 1
  /\ \E n \in DOMAIN snapshots, over \in [Fields -> Values \cup {None}],
        phase \in {"ask", "resolve"} :
       Set(h, [Idle EXCEPT !.phase = phase, !.kind = "context", !.base = n,
                 !.fields = snapshots[n].fields, !.over = over, !.loaded = process,
                 !.snapshot = n])
  /\ UNCHANGED <<portal, process, snapshots, made, holder, given, raced, backdated>>

\* _read_external_context: without an answer the context goes on as it was.
Unanswered(h) ==
  /\ req[h].kind = "context" /\ req[h].phase \in {"ask", "items"}
  /\ Set(h, [req[h] EXCEPT !.phase = "resolve", !.version = 0, !.items = << >>, !.stated = 0])
  /\ UNCHANGED <<portal, process, snapshots, made, holder, contexts, given, raced, backdated>>

\* Mutant: whatever the Portal answers is a new snapshot.
IsNewAlways(content, base) == TRUE

IsNew(content, base) == content # snapshots[base].content

\* The refresh has its answer; only then does it write the process.
Refresh(h) ==
  LET r == req[h] IN
  /\ r.phase = "read" /\ r.kind = "context"
  /\ \E enriched \in BOOLEAN :
       IF IsNew(Content(r.version, r.items, enriched), r.base)
       THEN /\ made < MaxSnapshots
            /\ made' = made + 1
            /\ Set(h, [r EXCEPT !.phase = "refreshed", !.items = << >>, !.snapshot = made',
                         !.content = Content(r.version, r.items, enriched)])
       ELSE /\ Set(h, [r EXCEPT !.phase = "refreshed", !.items = << >>, !.content = snapshots[r.base].content])
            /\ UNCHANGED made
  /\ UNCHANGED <<portal, process, snapshots, holder, contexts, given, raced, backdated>>

LockProcess(h) ==
  /\ req[h].phase = "refreshed" /\ holder = None
  /\ holder' = h
  /\ Set(h, [req[h] EXCEPT !.phase = "resolve"])
  /\ UNCHANGED <<portal, process, snapshots, made, contexts, given, raced, backdated>>

\* NfeContextResolver.resolve: what the normalized payload misses is taken from
\* other services, and overrides are put over everything.
Resolved(fields, external, over) ==
  [f \in Fields |->
     IF over[f] # None THEN Sourced(over[f], "operator")
     ELSE IF fields[f] # None THEN fields[f] ELSE Sourced(external[f], "external")]

\* Mutant: a refresh leaves the process as it was.
VersionOfLoaded(r) == r.loaded

\* The version for the process.
VersionOf(r) == IF r.version = 0 THEN r.loaded ELSE r.version

\* get_nfe_context with persist: explicit overrides go before preserved ones.
CommitContext(h) ==
  LET r == req[h]
      preserved == Preserved(r.fields)
      over == [f \in Fields |-> IF r.over[f] # None THEN r.over[f] ELSE preserved[f]]
      fields == IF r.version = 0 THEN r.fields ELSE Normalized(r.version)
      old == snapshots[r.base]
      isNew == r.snapshot # r.base
  IN /\ r.phase = "resolve"
     /\ \E external \in {Blank} \cup {[f \in Fields |-> v] : v \in Values} :
          LET new == Resolved(fields, external, over) IN
          Commit(h, r.snapshot,
            IF isNew THEN [content |-> r.content, fields |-> new, kind |-> "refresh"]
            ELSE [old EXCEPT !.fields = IF new = r.fields THEN @ ELSE new],
            VersionOf(r))
     /\ given' = [m \in DOMAIN given \cup {r.snapshot} |->
                    IF m = r.snapshot
                    THEN [f \in Fields |-> IF r.over[f] # None THEN r.over[f]
                                           ELSE given[r.base][f]]
                    ELSE given[m]]
     /\ backdated' = (backdated \/ (r.version # 0 /\ r.base # Newest))
     /\ UNCHANGED <<portal, made, contexts>>

-----------------------------------------------------------------------------

\* create_manual_duimp_snapshot: data typed by hand or from a spreadsheet; like the
\* others it waits for the process.
Manual(h) ==
  LET n == made + 1 IN
  /\ req[h].phase = "loaded" /\ req[h].kind = "manual" /\ holder = None /\ made < MaxSnapshots
  /\ made' = n
  /\ \E d \in Duimps :
       Commit(h, n, [content |-> Content(0, [i \in 1..d.items |-> i], FALSE), kind |-> "manual",
                     fields |-> [f \in Fields |-> Sourced(d.fields[f], "duimp")]], 0)
  /\ given' = [m \in DOMAIN given \cup {n} |-> IF m = n THEN Blank ELSE given[m]]
  /\ UNCHANGED <<portal, contexts, backdated>>

\* An error, which the route rolls back, or the death of the handler.  A failed
\* query leaves no trace: its status and log entry are rolled back too.
GiveUp(h) ==
  /\ req[h].phase # "idle"
  /\ Unlock(h)
  /\ Set(h, Idle)
  /\ UNCHANGED <<portal, process, snapshots, made, contexts, given, raced, backdated>>

Init ==
  /\ \E d \in Duimps : portal = <<d>>
  /\ process = None /\ snapshots = << >> /\ made = 0
  /\ holder = None /\ req = [h \in Handlers |-> Idle]
  /\ contexts = 0 /\ given = << >>
  /\ raced = FALSE /\ backdated = FALSE

Next ==
  \/ Register
  \/ \E h \in Handlers :
       \/ LoadProcess(h) \/ BeginFetch(h) \/ Ask(h) \/ ReadPage(h) \/ CommitFetch(h)
       \/ BeginContext(h) \/ Unanswered(h) \/ Refresh(h) \/ LockProcess(h) \/ CommitContext(h)
       \/ Manual(h) \/ GiveUp(h)

Spec == Init /\ [][Next]_vars

-----------------------------------------------------------------------------
(* Properties *)

\* A snapshot read from the Portal has each item of one version of the DUIMP
\* once and in order, whatever pages came and whatever was registered meanwhile,
\* provided that the DUIMP states how many it has.
SnapshotsAreComplete ==
  \A n \in DOMAIN snapshots :
    LET s == snapshots[n]
        d == portal[s.content.version]
    IN s.kind # "manual" /\ d.stated > 0 => s.content.items = [i \in 1..d.items |-> i]

\* What an operator gave for a field is there in every later state of that
\* snapshot and of the snapshots that refreshes made of it, as long as contexts
\* do not overlap.  (A plain fetch starts without it.)
OverridesStand ==
  ~raced => \A n \in DOMAIN snapshots, f \in Fields :
    given[n][f] # None => snapshots[n].fields[f] = Sourced(given[n][f], "operator")

\* The version of the process is the one of its newest snapshot, as long as
\* requests do not overlap and contexts are those of the newest snapshot.
ProcessFollowsSnapshot ==
  ~raced /\ ~backdated /\ snapshots # << >> => process = snapshots[Newest].content.version

\* Two snapshots in a row hold one answer only if a fetch or a hand made the
\* second, or refreshes overlapped or were not of the newest snapshot.
TwinsAreRaces ==
  ~raced /\ ~backdated => \A n \in DOMAIN snapshots :
    n > 1 /\ n - 1 \in DOMAIN snapshots /\ snapshots[n].kind = "refresh" =>
      snapshots[n].content # snapshots[n - 1].content
=============================================================================
