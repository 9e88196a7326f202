---------------------------- MODULE NfeNumbering ----------------------------
(***************************************************************************)
(* The number sequence of one importer, model and series                   *)
(* (NfeNumberSequenceService): numbers are reserved for drafts inside the  *)
(* transactions of concurrent requests while an administrator creates or   *)
(* moves the sequence.                                                     *)
(*                                                                         *)
(* Both operations read the row FOR UPDATE, so the transaction holds it    *)
(* until it ends; a request that generates several XMLs reserves several   *)
(* numbers in one transaction.  A row that does not exist cannot be        *)
(* locked: two administrators may both try to insert it.                   *)
(*                                                                         *)
(* Only reserved numbers are modelled.  A draft whose payload names its    *)
(* number (create_nfe_draft, create_nfe_draft_from_duimp) reserves none:   *)
(* it neither reads nor moves the row, and nothing keeps that number apart *)
(* from a reserved one.                                                    *)
(***************************************************************************)
EXTENDS Integers

CONSTANTS
  Requests,  \* request handlers
  Ceiling,   \* 999999999, the greatest nNF
  Inputs     \* the numbers an administrator may send

ASSUME CeilingAssumption == Ceiling \in Nat
ASSUME InputsAssumption == Inputs \subseteq Int

VARIABLES
  row,      \* the nfe_number_sequences row, or NoRow
  tx,       \* the open transaction of each handler
  given,    \* numbers reserved by committed transactions
  skipped   \* numbers that committed settings of the administrator jumped over

sequenceVars == <<row, tx, given, skipped>>

-----------------------------------------------------------------------------
(* Values *)

Rows == [current : Nat, initial : Nat, max : Nat, last : Nat, active : BOOLEAN]

\* What every written row satisfies, the empty one included.
InRange(s) == /\ s.initial - 1 <= s.current /\ s.current <= s.max
              /\ s.last <= s.current /\ s.max <= Ceiling

\* last_reserved_number is null in a new row, and null counts as 0.
NoRow == [current |-> 0, initial |-> 0, max |-> 0, last |-> 0, active |-> FALSE]
Exists(s) == s.initial > 0

\* What a transaction will write, and what its commit will add to the ghosts.
Closed == [does |-> "nothing", row |-> NoRow, numbers |-> {}, skips |-> {}]
Transactions == [does : {"nothing", "reserve", "insert", "update"}, row : Rows,
                 numbers : SUBSET Nat, skips : SUBSET Nat]

-----------------------------------------------------------------------------
SequenceInit ==
  /\ row = NoRow
  /\ tx = [r \in Requests |-> Closed]
  /\ given = {}
  /\ skipped = {}

\* Mutant: the row is read without FOR UPDATE.
FreeAlways(r) == TRUE

\* No other transaction holds the row; a row still being inserted is not seen.
Free(r) == \A q \in Requests \ {r} : tx[q].does \notin {"reserve", "update"}

\* What a query of handler r sees: its own transaction first.
SeenRow(r) == IF tx[r].does = "reserve" THEN tx[r].row ELSE row

\* Mutant: the bump to the initial number skips it.
BaseAtInitial(s) == IF s.current < s.initial THEN s.initial ELSE s.current

\* The number after which reserve_next_number goes on.
Base(s) == IF s.current < s.initial - 1 THEN s.initial - 1 ELSE s.current

\* Mutant: the limit is compared with the number before.
FitsBefore(s, next) == next - 1 <= s.max
Fits(s, next) == next <= s.max

\* reserve_next_number; an inactive or absent sequence and a number above the
\* limit are ValueErrors.
Reserve(r) ==
  LET s == SeenRow(r)
      next == Base(s) + 1
  IN
  /\ tx[r].does \in {"nothing", "reserve"}
  /\ Exists(s) /\ s.active
  /\ Free(r)
  /\ Fits(s, next)
  /\ tx' = [tx EXCEPT ![r] =
              [tx[r] EXCEPT !.does = "reserve", !.numbers = @ \cup {next},
                            !.row = [s EXCEPT !.current = next, !.last = next]]]
  /\ UNCHANGED <<row, given, skipped>>

\* Mutant: only the new initial number protects what was reserved.
MinimumSafeOfInitial(s, initial) == initial - 1

\* minimum_safe: neither what is persisted nor what was reserved may come again.
MinimumSafe(s, initial) ==
  CHOOSE m \in {s.current, s.last, initial - 1} :
    \A n \in {s.current, s.last, initial - 1} : n <= m

\* create_or_update_nfe_number_sequence once the current number is chosen; one
\* below the minimum is an nfe_sequence_regression.
Configure(r, requested, initial, max, active) ==
  /\ tx[r].does = "nothing"
  /\ 1 <= initial /\ initial <= max /\ max <= Ceiling
  /\ Exists(row) => Free(r)
  /\ MinimumSafe(row, initial) <= requested /\ requested <= max
  /\ tx' = [tx EXCEPT ![r] =
              [does |-> IF Exists(row) THEN "update" ELSE "insert", numbers |-> {},
               skips |-> (row.current + 1)..requested,
               row |-> [current |-> requested, initial |-> initial, max |-> max,
                        last |-> row.last, active |-> active]]]
  /\ UNCHANGED <<row, given, skipped>>

\* Without a current_number the sequence stays where it is safe.
CreateOrUpdate(r, initial, max, active) ==
  Configure(r, MinimumSafe(row, initial), initial, max, active)

CreateOrUpdateAt(r, current, initial, max, active) ==
  0 <= current /\ Configure(r, current, initial, max, active)

\* An INSERT fails on the unique constraint if the row has appeared meanwhile.
Commit(r) ==
  /\ tx[r].does # "nothing"
  /\ tx[r].does = "insert" => ~Exists(row)
  /\ row' = tx[r].row
  /\ given' = given \cup tx[r].numbers
  /\ skipped' = skipped \cup tx[r].skips
  /\ tx' = [tx EXCEPT ![r] = Closed]

Rollback(r) ==
  /\ tx[r].does # "nothing"
  /\ tx' = [tx EXCEPT ![r] = Closed]
  /\ UNCHANGED <<row, given, skipped>>

SequenceNext ==
  \E r \in Requests :
    \/ Reserve(r)
    \/ \E initial, max \in Inputs, active \in BOOLEAN :
         \/ CreateOrUpdate(r, initial, max, active)
         \/ \E current \in Inputs : CreateOrUpdateAt(r, current, initial, max, active)
    \/ Commit(r)
    \/ Rollback(r)

SequenceSpec == SequenceInit /\ [][SequenceNext]_sequenceVars

-----------------------------------------------------------------------------
(* Types *)

\* The row and every uncommitted row hold natural numbers within the limits of
\* the sequence, so no query sees a current number below the initial one.
TypeOK ==
  /\ row \in Rows /\ InRange(row)
  /\ tx \in [Requests -> Transactions]
  /\ \A r \in Requests : InRange(tx[r].row)
  /\ given \subseteq Nat
  /\ skipped \subseteq Nat

-----------------------------------------------------------------------------
(* Properties *)

\* A number is reserved for one draft only: what a transaction holds was never
\* committed before, and no other transaction holds it.
NumbersAreUnique ==
  \A r \in Requests :
    /\ tx[r].numbers \cap given = {}
    /\ \A q \in Requests \ {r} : tx[r].numbers \cap tx[q].numbers = {}

\* Every number up to the current one was given to a draft or jumped over by a
\* setting: neither a rollback nor the initial number makes a hole, whatever
\* order transactions end in.
NoHoles == 1..row.current = given \cup skipped /\ given \cap skipped = {}

\* Numbers come in increasing order of commit, whatever is reserved or set.
ProgressIsKept ==
  [][/\ row'.current >= row.current /\ row'.last >= row.last
     /\ \A n \in given' \ given : \A m \in given : m < n]_sequenceVars

\* Only nNFs that SEFAZ accepts are given, however the sequence is set.
NumbersFit == given \subseteq 1..Ceiling
=============================================================================
