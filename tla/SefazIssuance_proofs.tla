----------------------- MODULE SefazIssuance_proofs -----------------------
(***************************************************************************)
(* Proofs about SefazIssuance: its types, at most one authorization POST   *)
(* per access key, a durable intent before it, evidence behind every       *)
(* "authorized", and stored verdicts that are SEFAZ's and stay - for any   *)
(* children, handlers, failures and bounds.                                *)
(***************************************************************************)
EXTENDS SefazIssuance, SequenceTheorems, TLAPS

LEMMA IdleType == Idle \in Handlers /\ Idle.phase = "idle" /\ Idle.child \in Children
BY ChildrenAssumption
DEF Idle, Handlers, Phases, Operations, Issuances, Absent, Statuses, Replies,
    ReplyKinds, NoReply, Writes, NoWrites, AttemptStatuses

\* The fields of a handler, and what replacing one of them preserves.
LEMMA HandlerFields ==
  ASSUME NEW h \in Handlers
  PROVE  /\ h.phase \in Phases /\ h.child \in Children /\ h.op \in Operations
         /\ h.view \in Issuances /\ h.reply \in Replies /\ h.writes \in Writes
         /\ \A p \in Phases    : [h EXCEPT !.phase = p] \in Handlers
         /\ \A d \in Children  : [h EXCEPT !.child = d] \in Handlers
         /\ \A o \in Operations : [h EXCEPT !.op = o] \in Handlers
         /\ \A v \in Issuances : [h EXCEPT !.view = v] \in Handlers
         /\ \A y \in Replies   : [h EXCEPT !.reply = y] \in Handlers
         /\ \A w \in Writes    : [h EXCEPT !.writes = w] \in Handlers
BY DEF Handlers

LEMMA IssuanceFields ==
  ASSUME NEW i \in Issuances
  PROVE  /\ i.status \in Statuses /\ i.receipt \in BOOLEAN /\ i.protocol \in BOOLEAN
         /\ \A s \in Statuses : [i EXCEPT !.status = s] \in Issuances
BY DEF Issuances

LEMMA WriteFields ==
  ASSUME NEW w \in Writes
  PROVE  /\ w.status \in Statuses \cup {Keep}
         /\ w.receipt \in BOOLEAN /\ w.protocol \in BOOLEAN /\ w.insertXml \in BOOLEAN
         /\ w.draft \in DraftStatuses \cup {Keep}
         /\ w.process \in ProcessStatuses \cup {Keep}
         /\ w.attempt \in Nat /\ w.mark \in AttemptStatuses
BY DEF Writes

\* The writes a handler prepares have their type.
LEMMA OutcomeType ==
  ASSUME TypeOK, NEW r \in Requests, NEW v \in Issuances
  PROVE  Outcome(r, v) \in Writes
<1> DEFINE d == req[r].child
           op == req[r].op
           k  == req[r].reply.kind
           t  == Target(op, k)
<1>1. d \in Children /\ op \in Operations /\ k \in ReplyKinds
  BY HandlerFields DEF TypeOK, Replies
<1>2. t \in {"authorized", "denied", "rejected", "processing"}
  BY DEF Target
<1>3. DraftTarget(d, t) \in DraftStatuses /\ draftStatus[d] \in DraftStatuses
  BY <1>1, <1>2 DEF DraftTarget, TypeOK, DraftStatuses
<1>4. ProcessTarget(d, t, k) \in ProcessStatuses /\ processStatus \in ProcessStatuses
  BY <1>1, <1>2 DEF ProcessTarget, TypeOK, ProcessStatuses
<1>5. Len(attempts[d][op]) \in Nat
  BY <1>1 DEF TypeOK
<1>6. /\ (req[r].reply.receipt /\ ~v.receipt) \in BOOLEAN
      /\ (t = "authorized" /\ ~v.protocol) \in BOOLEAN
      /\ (t = "authorized" /\ ~authorizedXml[d]) \in BOOLEAN
  OBVIOUS
<1>7. /\ Changed(t, v.status) \in Statuses \cup {Keep}
      /\ Changed(DraftTarget(d, t), draftStatus[d]) \in DraftStatuses \cup {Keep}
      /\ Changed(ProcessTarget(d, t, k), processStatus) \in ProcessStatuses \cup {Keep}
  BY <1>2, <1>3, <1>4 DEF Changed, Statuses, Pending
<1>8. (IF k = "lost" THEN "unknown" ELSE "succeeded") \in AttemptStatuses
  BY DEF AttemptStatuses
<1> QED
  BY <1>5, <1>6, <1>7, <1>8 DEF Outcome, Writes

\* What SEFAZ answers is a reply, and reports an authorization only of an
\* authorized note.
LEMMA AnswerType ==
  ASSUME NEW call, NEW n \in NoteStates, NEW y \in Answers(call, n)
  PROVE  /\ y \in Replies
         /\ y.kind = "authorized" => n = "authorized"
<1>1. Answers(call, n) \subseteq LotAnswers(n) \cup ReceiptAnswers(n) \cup KeyAnswers(n)
  BY DEF Answers
<1>2. \A k \in ReplyKinds, b \in BOOLEAN : Reply(k, b) \in Replies /\ Reply(k, b).kind = k
  BY DEF Reply, Replies
<1>3. NoReply = Reply("lost", FALSE)
  BY DEF NoReply, Reply
<1>4. {"pending", "refused", "lost", "authorized", "denied"} \subseteq ReplyKinds
  BY DEF ReplyKinds
<1>5. ASSUME n \in Verdicts, NEW b \in BOOLEAN
      PROVE  /\ VerdictReply(n, b) \in Replies
             /\ VerdictReply(n, b).kind = "authorized" => n = "authorized"
  BY <1>2, <1>4, <1>5 DEF VerdictReply, Verdicts
<1>6. CASE y \in LotAnswers(n)
  BY <1>2, <1>3, <1>4, <1>5, <1>6 DEF LotAnswers
<1>7. CASE y \in ReceiptAnswers(n)
  BY <1>2, <1>4, <1>5, <1>7 DEF ReceiptAnswers
<1>8. CASE y \in KeyAnswers(n)
  BY <1>2, <1>4, <1>8 DEF KeyAnswers
<1> QED
  BY <1>1, <1>6, <1>7, <1>8

\* Recording an attempt, and marking one, keep the attempt table typed.
LEMMA AttemptType ==
  ASSUME TypeOK, NEW d \in Children, NEW op \in Operations,
         NEW st \in AttemptStatuses, NEW n \in Nat
  PROVE  /\ [attempts EXCEPT ![d][op] = Append(@, st)]
              \in [Children -> [Operations -> Seq(AttemptStatuses)]]
         /\ [attempts EXCEPT ![d][op][n] = st]
              \in [Children -> [Operations -> Seq(AttemptStatuses)]]
<1>1. attempts \in [Children -> [Operations -> Seq(AttemptStatuses)]]
  BY DEF TypeOK
<1>2. attempts[d] \in [Operations -> Seq(AttemptStatuses)]
  BY <1>1
<1>3. attempts[d][op] \in Seq(AttemptStatuses)
  BY <1>2
<1>4. ASSUME NEW q \in Seq(AttemptStatuses)
      PROVE  [attempts EXCEPT ![d] = [@ EXCEPT ![op] = q]]
               \in [Children -> [Operations -> Seq(AttemptStatuses)]]
  <2>1. [attempts[d] EXCEPT ![op] = q] \in [Operations -> Seq(AttemptStatuses)]
    BY <1>2
  <2> QED
    BY <1>1, <2>1
<1>5. Append(attempts[d][op], st) \in Seq(AttemptStatuses)
  BY <1>3
<1>6. [attempts[d][op] EXCEPT ![n] = st] \in Seq(AttemptStatuses)
  <2> DEFINE q == attempts[d][op]
  <2>1. q \in Seq(AttemptStatuses) /\ DOMAIN q = 1..Len(q)
    BY <1>3
  <2>2. CASE n \in 1..Len(q)
    BY <2>1, <2>2, ExceptSeq
  <2>3. CASE n \notin 1..Len(q)
    <3>1. [q EXCEPT ![n] = st] = q
      BY <2>1, <2>3
    <3> QED
      BY <3>1, <2>1
  <2> QED
    BY <2>2, <2>3
<1> QED
  BY <1>4, <1>5, <1>6

LEMMA TypeInit == Init => TypeOK
<1>1. Absent \in Issuances
  BY DEF Absent, Issuances, Statuses
<1> QED
  BY <1>1, IdleType DEF Init, TypeOK, Statuses, DraftStatuses, ProcessStatuses, NoteStates

LEMMA TypeNext == TypeOK /\ [Next]_vars => TypeOK'
<1> SUFFICES ASSUME TypeOK, [Next]_vars PROVE TypeOK'
  OBVIOUS
<1>0. /\ \A d \in Children : issuance[d] \in Issuances
      /\ \A r \in Requests : req[r] \in Handlers
  BY DEF TypeOK
<1>1. ASSUME NEW d \in Children, Sign(d) PROVE TypeOK'
  <2>1. issuance' \in [Children -> Issuances]
    BY <1>0, <1>1, IssuanceFields DEF Sign, TypeOK, Statuses
  <2> QED
    BY <1>1, <2>1
    DEF Sign, TypeOK, envVars, Statuses, DraftStatuses, ProcessStatuses
<1>2. ASSUME NEW r \in Requests, NEW d \in Children, CommitIntent(r, d) PROVE TypeOK'
  <2>1. attempts' \in [Children -> [Operations -> Seq(AttemptStatuses)]]
    BY <1>2, AttemptType DEF CommitIntent, OpenAttempt, Operations, AttemptStatuses
  <2>2. req' \in [Requests -> Handlers]
    BY <1>2, IdleType, HandlerFields DEF CommitIntent, TypeOK, Phases
  <2>3. issuance' \in [Children -> Issuances]
    BY <1>0, <1>2, IssuanceFields DEF CommitIntent, TypeOK, Statuses, Pending
  <2>. QED
    BY <1>2, <2>1, <2>2, <2>3 DEF CommitIntent, TypeOK, envVars, Statuses, Pending
<1>3. ASSUME NEW r \in Requests, NEW d \in Children, CheckPending(r, d) PROVE TypeOK'
  <2> DEFINE op == IF issuance[d].receipt THEN "receipt_query" ELSE "protocol_query"
  <2>1. op \in Operations
    BY DEF Operations
  <2>2. req' = [req EXCEPT ![r] = [Idle EXCEPT !.phase = "checked", !.child = d, !.op = op]]
    BY <1>3 DEF CheckPending
  <2>. HIDE DEF op
  <2>3. req' \in [Requests -> Handlers]
    BY <2>1, <2>2, IdleType, HandlerFields DEF TypeOK, Phases
  <2>. QED
    BY <1>3, <2>3 DEF CheckPending, TypeOK, envVars, dbVars
<1>4. ASSUME NEW r \in Requests, SendPost(r) PROVE TypeOK'
  <2>1. req' \in [Requests -> Handlers]
    BY <1>0, <1>4, HandlerFields DEF SendPost, TypeOK, Phases
  <2>2. req[r].child \in Children
    BY <1>0, HandlerFields
  <2>. QED
    BY <1>4, <2>1, <2>2 DEF SendPost, TypeOK, dbVars, NoteStates
<1>5. ASSUME NEW r \in Requests, CommitQuery(r) PROVE TypeOK'
  <2>1. req[r].child \in Children /\ req[r].op \in Operations
    BY <1>0, HandlerFields
  <2>2. attempts' \in [Children -> [Operations -> Seq(AttemptStatuses)]]
    BY <1>5, <2>1, AttemptType DEF CommitQuery, OpenAttempt, AttemptStatuses
  <2>3. req' \in [Requests -> Handlers]
    BY <1>0, <1>5, <2>1, HandlerFields DEF CommitQuery, TypeOK, Phases
  <2>. QED
    BY <1>5, <2>2, <2>3 DEF CommitQuery, TypeOK, envVars
<1>6. ASSUME NEW r \in Requests, Decide(r) PROVE TypeOK'
  <2> DEFINE v == IF req[r].op = "authorization" THEN issuance[req[r].child] ELSE req[r].view
  <2>1. v \in Issuances
    BY <1>0, HandlerFields
  <2>2. Outcome(r, v) \in Writes
    BY <2>1, OutcomeType
  <2>3. req' = [req EXCEPT ![r].phase = "decided", ![r].view = v, ![r].writes = Outcome(r, v)]
    BY <1>6 DEF Decide
  <2> HIDE DEF v
  <2>4. req' \in [Requests -> Handlers]
    BY <1>0, <2>1, <2>2, <2>3, HandlerFields DEF TypeOK, Phases
  <2>. QED
    BY <1>6, <2>4 DEF Decide, TypeOK, envVars, dbVars
<1>7. ASSUME NEW r \in Requests, Commit(r) PROVE TypeOK'
  <2> DEFINE d == req[r].child
             w == req[r].writes
  <2>1. d \in Children /\ req[r].op \in Operations /\ w \in Writes /\ req[r].view \in Issuances
    BY <1>0, HandlerFields
  <2>2. attempts' \in [Children -> [Operations -> Seq(AttemptStatuses)]]
    BY <1>7, <2>1, AttemptType, WriteFields DEF Commit
  <2>3. req' \in [Requests -> Handlers]
    BY <1>7, IdleType DEF Commit, TypeOK
  <2>4. issuance' \in [Children -> Issuances]
    <3>1. [status   |-> Apply(w.status, issuance[d].status),
           receipt  |-> issuance[d].receipt \/ w.receipt,
           protocol |-> issuance[d].protocol \/ w.protocol] \in Issuances
      BY <1>0, <2>1, WriteFields, IssuanceFields DEF Apply, Issuances
    <3> QED
      BY <1>7, <3>1 DEF Commit, TypeOK
  <2>5. lastEvent' \in [Children -> (Statuses \cup {"xsd_validated"}) \X Statuses]
    <3>1. w.status # Keep => <<req[r].view.status, w.status>>
                               \in (Statuses \cup {"xsd_validated"}) \X Statuses
      BY <2>1, WriteFields, IssuanceFields
    <3> QED
      BY <1>7, <3>1 DEF Commit, TypeOK
  <2>6. /\ authorizedXml' \in [Children -> BOOLEAN]
        /\ draftStatus' \in [Children -> DraftStatuses]
        /\ processStatus' \in ProcessStatuses
    BY <1>7, <2>1, WriteFields DEF Commit, TypeOK, Apply
  <2>. QED
    BY <1>7, <2>2, <2>3, <2>4, <2>5, <2>6 DEF Commit, TypeOK, envVars
<1>8. ASSUME NEW r \in Requests, CommitFails(r) PROVE TypeOK'
  BY <1>8, IdleType DEF CommitFails, TypeOK, envVars, dbVars
<1>9. ASSUME NEW d \in Children, SefazAccept(d) \/ SefazDecide(d) \/ LosePost(d) PROVE TypeOK'
  <2>1. sefaz' \in [Children -> NoteStates]
    <3>1. \A n \in NoteStates : [sefaz EXCEPT ![d] = n] \in [Children -> NoteStates]
      BY DEF TypeOK
    <3> QED
      BY <1>9, <3>1 DEF SefazAccept, SefazDecide, LosePost, NoteStates
  <2>2. faults' \in Nat
    BY <1>9 DEF SefazAccept, SefazDecide, LosePost, TypeOK
  <2>. QED
    BY <1>9, <2>1, <2>2 DEF SefazAccept, SefazDecide, LosePost, TypeOK, dbVars
<1>10. ASSUME NEW r \in Requests, Answer(r) PROVE TypeOK'
  <2>0. sefaz[req[r].child] \in NoteStates
    BY <1>0, HandlerFields DEF TypeOK
  <2>1. PICK reply \in Answers(Call(r), sefaz[req[r].child]) :
          req' = [req EXCEPT ![r].phase = "answered", ![r].reply = reply]
    BY <1>10 DEF Answer
  <2>2. reply \in Replies
    BY <2>0, <2>1, AnswerType
  <2>3. req' \in [Requests -> Handlers]
    BY <1>0, <2>1, <2>2, HandlerFields DEF TypeOK, Phases
  <2>4. waits' \in Nat
    BY <1>10 DEF Answer, TypeOK
  <2>5. misled' \subseteq misled \cup {req[r].child}
    BY <1>10 DEF Answer
  <2>6. misled' \subseteq Children
    BY <1>0, <2>5, HandlerFields DEF TypeOK
  <2>. QED
    BY <1>10, <2>3, <2>4, <2>6 DEF Answer, TypeOK, dbVars
<1>11. ASSUME NEW r \in Requests, LoseReply(r) PROVE TypeOK'
  <2>1. NoReply \in Replies
    BY DEF NoReply, Replies, ReplyKinds
  <2>2. req' \in [Requests -> Handlers]
    BY <1>0, <1>11, <2>1, HandlerFields DEF LoseReply, TypeOK, Phases
  <2>. QED
    BY <1>11, <2>2 DEF LoseReply, TypeOK, dbVars
<1>12. ASSUME NEW r \in Requests, Die(r) PROVE TypeOK'
  BY <1>12, IdleType DEF Die, TypeOK, dbVars
<1>13. CASE UNCHANGED vars
  BY <1>13 DEF TypeOK, vars, dbVars, envVars
<1> QED
  BY <1>1, <1>2, <1>3, <1>4, <1>5, <1>6, <1>7, <1>8, <1>9, <1>10, <1>11, <1>12, <1>13
  DEF Next, Handle, External

\* Every reachable state is typed, whatever the constants.
THEOREM TypeCorrect == Spec => []TypeOK
<1> QED
  BY TypeInit, TypeNext, PTL DEF Spec

-----------------------------------------------------------------------------
(* At most one POST, and an intent before it *)

LEMMA PostInit == Init => PostInv
<1> SUFFICES ASSUME Init PROVE PostInv
  OBVIOUS
<1>1. TypeOK
  BY TypeInit
<1>2. \A d \in Children : Held(d) /\ posts[d] = 0 /\ sefaz[d] = "unsent"
  BY DEF Init, Held, Absent
<1>3. \A r \in Requests : req[r].phase = "idle"
  BY IdleType DEF Init
<1> QED
  BY <1>1, <1>2, <1>3
  DEF PostInv, AtMostOnePost, HeldIsUntouched, IntentIsExclusive, UnsentIsUnknown,
      IntentIsRecorded, WritesMoveOn

\* A new attempt makes its log non-empty, and empties no other.
LEMMA AttemptOpened ==
  ASSUME TypeOK, NEW d \in Children, NEW op \in Operations, OpenAttempt(d, op)
  PROVE  /\ attempts'[d][op] # << >>
         /\ \A e \in Children, o \in Operations :
              attempts[e][o] # << >> => attempts'[e][o] # << >>
<1> DEFINE q == Append(attempts[d][op], "started")
<1>1. attempts[d][op] \in Seq(AttemptStatuses)
  BY DEF TypeOK
<1>2. attempts' = [attempts EXCEPT ![d] = [@ EXCEPT ![op] = q]]
  BY DEF OpenAttempt
<1>3. q \in Seq(AttemptStatuses) /\ q # << >>
  BY <1>1 DEF AttemptStatuses
<1> HIDE DEF q
<1>4. attempts'[d] = [attempts[d] EXCEPT ![op] = q]
      /\ \A e \in Children \ {d} : attempts'[e] = attempts[e]
  BY <1>2 DEF TypeOK
<1>5. attempts'[d][op] = q /\ \A o \in Operations \ {op} : attempts'[d][o] = attempts[d][o]
  BY <1>4 DEF TypeOK
<1> QED
  BY <1>3, <1>4, <1>5

\* Marking an attempt empties no log.
LEMMA AttemptMarked ==
  ASSUME TypeOK, NEW d \in Children, NEW op \in Operations,
         NEW st \in AttemptStatuses, NEW n \in Nat,
         attempts' = [attempts EXCEPT ![d][op][n] = st]
  PROVE  \A e \in Children, o \in Operations :
           attempts[e][o] # << >> => attempts'[e][o] # << >>
<1> DEFINE s == attempts[d][op]
           q == [s EXCEPT ![n] = st]
<1>1. s \in Seq(AttemptStatuses)
  BY DEF TypeOK
<1>2. attempts' = [attempts EXCEPT ![d] = [@ EXCEPT ![op] = q]]
  OBVIOUS
<1>3. q \in Seq(AttemptStatuses)
  <2>1. [attempts EXCEPT ![d][op][n] = st] \in [Children -> [Operations -> Seq(AttemptStatuses)]]
    BY AttemptType
  <2> QED
    BY <1>2, <2>1 DEF TypeOK
<1>4. ASSUME s # << >> PROVE q # << >>
  <2>1. DOMAIN q = 1..Len(s) /\ Len(s) \in Nat \ {0}
    BY <1>1, <1>4, EmptySeq, LenProperties
  <2>2. 1 \in DOMAIN q /\ DOMAIN << >> = {}
    BY <2>1
  <2> QED
    BY <2>2
<1> HIDE DEF q
<1>5. attempts'[d] = [attempts[d] EXCEPT ![op] = q]
      /\ \A e \in Children \ {d} : attempts'[e] = attempts[e]
  BY <1>2 DEF TypeOK
<1>6. attempts'[d][op] = q /\ \A o \in Operations \ {op} : attempts'[d][o] = attempts[d][o]
  BY <1>5 DEF TypeOK
<1> QED
  BY <1>4, <1>5, <1>6

LEMMA PostNext == PostInv /\ [Next]_vars => PostInv'
<1> SUFFICES ASSUME PostInv, [Next]_vars PROVE PostInv'
  OBVIOUS
<1>t. TypeOK
  BY DEF PostInv
<1>i. /\ AtMostOnePost /\ HeldIsUntouched /\ IntentIsExclusive
      /\ UnsentIsUnknown /\ IntentIsRecorded /\ WritesMoveOn
  BY DEF PostInv
<1>f. /\ \A d \in Children : issuance[d] \in Issuances /\ posts[d] \in Nat
      /\ \A r \in Requests : req[r] \in Handlers /\ req[r].child \in Children
  BY <1>t, HandlerFields DEF TypeOK
<1> DEFINE Rest == /\ AtMostOnePost' /\ HeldIsUntouched' /\ IntentIsExclusive'
                   /\ UnsentIsUnknown' /\ IntentIsRecorded' /\ WritesMoveOn'
<1> SUFFICES Rest
  BY <1>t, TypeNext DEF PostInv
<1> USE DEF AtMostOnePost, HeldIsUntouched, IntentIsExclusive, UnsentIsUnknown,
            IntentIsRecorded, WritesMoveOn, Held
<1>1. ASSUME NEW d \in Children, Sign(d) PROVE Rest
  <2>1. \A e \in Children : Held(e)' <=> Held(e)
    BY <1>t, <1>f, <1>1 DEF Sign, TypeOK, Issuances
  <2> QED
    BY <1>i, <1>1, <2>1 DEF Sign, envVars
<1>2. ASSUME NEW r \in Requests, NEW d \in Children, CommitIntent(r, d) PROVE Rest
  <2>1. /\ req'[r].phase = "intent" /\ req'[r].child = d
        /\ \A q \in Requests \ {r} : req'[q] = req[q]
    BY <1>t, <1>2, IdleType DEF CommitIntent, TypeOK, Handlers
  <2>2. /\ Held(d) /\ ~Held(d)'
        /\ \A e \in Children \ {d} : Held(e)' <=> Held(e)
    BY <1>t, <1>f, <1>2 DEF CommitIntent, Transmittable, TypeOK, Issuances
  <2>3. /\ attempts'[d]["authorization"] # << >>
        /\ \A e \in Children : attempts[e]["authorization"] # << >> =>
                                  attempts'[e]["authorization"] # << >>
    BY <1>t, <1>2, AttemptOpened DEF CommitIntent, Operations
  <2>4. UNCHANGED <<posts, sefaz>>
    BY <1>2 DEF CommitIntent, envVars
  <2>5. HeldIsUntouched' /\ IntentIsExclusive'
    BY <1>i, <1>f, <2>1, <2>2, <2>4
  <2> QED
    BY <1>i, <1>f, <2>1, <2>2, <2>3, <2>4, <2>5
<1>3. ASSUME NEW r \in Requests, NEW d \in Children, CheckPending(r, d) PROVE Rest
  <2>1. /\ req'[r].phase = "checked" /\ req'[r].child = d
        /\ \A q \in Requests \ {r} : req'[q] = req[q]
    BY <1>t, <1>3, IdleType DEF CheckPending, TypeOK, Handlers
  <2>2. ~Held(d)
    BY <1>3 DEF CheckPending, AwaitsOutcome, Pending
  <2> QED
    BY <1>i, <1>3, <2>1, <2>2 DEF CheckPending, dbVars, envVars
<1>4. ASSUME NEW r \in Requests, SendPost(r) PROVE Rest
  <2> DEFINE c == req[r].child
  <2>1. /\ req[r].phase = "intent" /\ req'[r].phase = "waiting" /\ req'[r].child = c
        /\ \A q \in Requests \ {r} : req'[q] = req[q]
    BY <1>t, <1>4 DEF SendPost, TypeOK, Handlers
  <2>2. c \in Children /\ posts[c] = 0 /\ ~Held(c)
    BY <1>i, <1>f, <2>1
  <2>3. /\ posts'[c] = 1
        /\ \A e \in Children \ {c} : posts'[e] = posts[e] /\ sefaz'[e] = sefaz[e]
        /\ UNCHANGED <<issuance, attempts>>
    BY <1>t, <1>4, <2>2 DEF SendPost, dbVars, TypeOK
  <2>4. IntentIsExclusive'
    <3>1. \A q \in Requests : req'[q].phase = "intent" => q # r /\ req'[q] = req[q] /\ req[q].child # c
      BY <1>i, <2>1
    <3> QED
      BY <1>i, <1>f, <2>3, <3>1
  <2>5. AtMostOnePost' /\ UnsentIsUnknown'
    BY <1>i, <2>2, <2>3
  <2>6. HeldIsUntouched'
    BY <1>i, <2>1, <2>2, <2>3
  <2> QED
    BY <1>i, <2>1, <2>3, <2>4, <2>5, <2>6
<1>5. ASSUME NEW r \in Requests, CommitQuery(r) PROVE Rest
  <2>1. /\ req[r].phase # "idle" /\ req'[r].phase = "waiting"
        /\ req'[r].child = req[r].child
        /\ \A q \in Requests \ {r} : req'[q] = req[q]
    BY <1>t, <1>f, <1>5 DEF CommitQuery, TypeOK, Handlers
  <2>2. \A d \in Children : attempts[d]["authorization"] # << >> =>
                               attempts'[d]["authorization"] # << >>
    <3>1. req[r].op \in Operations
      BY <1>f, HandlerFields
    <3> QED
      BY <1>t, <1>f, <1>5, <3>1, AttemptOpened DEF CommitQuery, Operations
  <2>3. UNCHANGED <<issuance, posts, sefaz>>
    BY <1>5 DEF CommitQuery, envVars
  <2> QED
    BY <1>i, <1>f, <2>1, <2>2, <2>3
<1>6. ASSUME NEW r \in Requests, Decide(r) PROVE Rest
  <2> DEFINE v == IF req[r].op = "authorization" THEN issuance[req[r].child] ELSE req[r].view
  <2>1. req' = [req EXCEPT ![r].phase = "decided", ![r].view = v, ![r].writes = Outcome(r, v)]
    BY <1>6 DEF Decide
  <2>2. Outcome(r, v).status \notin {"absent", "signed"}
    BY DEF Outcome, Changed, Target, Keep
  <2> HIDE DEF v
  <2>3. /\ req[r].phase # "idle" /\ req'[r].phase = "decided"
        /\ req'[r].child = req[r].child /\ req'[r].writes = Outcome(r, v)
        /\ \A q \in Requests \ {r} : req'[q] = req[q]
    BY <1>t, <1>f, <1>6, <2>1 DEF Decide, TypeOK, Handlers
  <2>4. UNCHANGED <<issuance, attempts, posts, sefaz>>
    BY <1>6 DEF Decide, dbVars, envVars
  <2> QED
    BY <1>i, <1>f, <2>2, <2>3, <2>4
<1>7. ASSUME NEW r \in Requests, Commit(r) PROVE Rest
  <2> DEFINE d == req[r].child
             w == req[r].writes
  <2>1. /\ req[r].phase = "decided" /\ req'[r].phase = "idle"
        /\ \A q \in Requests \ {r} : req'[q] = req[q]
    BY <1>t, <1>7, IdleType DEF Commit, TypeOK
  <2>2. d \in Children /\ ~Held(d) /\ w.status \notin {"absent", "signed"}
    BY <1>i, <1>f, <2>1
  <2>3. /\ issuance'[d].status = Apply(w.status, issuance[d].status)
        /\ \A e \in Children \ {d} : issuance'[e] = issuance[e]
    BY <1>t, <1>7, <2>2 DEF Commit, TypeOK
  <2>4. \A e \in Children : Held(e)' <=> Held(e)
    BY <2>2, <2>3 DEF Apply
  <2>5. \A e \in Children : attempts[e]["authorization"] # << >> =>
                               attempts'[e]["authorization"] # << >>
    <3>1. /\ req[r].op \in Operations /\ w \in Writes
          /\ attempts' = [attempts EXCEPT ![d][req[r].op][w.attempt] = w.mark]
      BY <1>f, <1>7, HandlerFields DEF Commit
    <3> QED
      BY <1>t, <2>2, <3>1, WriteFields, AttemptMarked DEF Operations
  <2>6. UNCHANGED <<posts, sefaz>>
    BY <1>7 DEF Commit, envVars
  <2> QED
    BY <1>i, <1>f, <2>1, <2>4, <2>5, <2>6
<1>8. ASSUME NEW r \in Requests, CommitFails(r) \/ Die(r) PROVE Rest
  <2>1. /\ req'[r].phase = "idle"
        /\ \A q \in Requests \ {r} : req'[q] = req[q]
    BY <1>t, <1>8, IdleType DEF CommitFails, Die, TypeOK
  <2>2. UNCHANGED <<issuance, attempts, posts, sefaz>>
    BY <1>8 DEF CommitFails, Die, dbVars, envVars
  <2> QED
    BY <1>i, <1>f, <2>1, <2>2
<1>9. ASSUME NEW d \in Children, SefazAccept(d) \/ SefazDecide(d) \/ LosePost(d) PROVE Rest
  <2>1. sefaz[d] # "unsent" /\ \A e \in Children \ {d} : sefaz'[e] = sefaz[e]
    BY <1>t, <1>9 DEF SefazAccept, SefazDecide, LosePost, TypeOK
  <2>2. UNCHANGED <<issuance, attempts, posts, req>>
    BY <1>9 DEF SefazAccept, SefazDecide, LosePost, dbVars
  <2> QED
    BY <1>i, <2>1, <2>2
<1>10. ASSUME NEW r \in Requests, Answer(r) \/ LoseReply(r) PROVE Rest
  <2>1. PICK y : req' = [req EXCEPT ![r].phase = "answered", ![r].reply = y]
    BY <1>10 DEF Answer, LoseReply
  <2>2. /\ req[r].phase = "waiting" /\ req'[r].phase = "answered"
        /\ req'[r].child = req[r].child
        /\ \A q \in Requests \ {r} : req'[q] = req[q]
    BY <1>t, <1>f, <1>10, <2>1 DEF Answer, LoseReply, TypeOK, Handlers
  <2>3. UNCHANGED <<issuance, attempts, posts, sefaz>>
    BY <1>10 DEF Answer, LoseReply, dbVars
  <2> QED
    BY <1>i, <1>f, <2>2, <2>3
<1>11. CASE UNCHANGED vars
  BY <1>i, <1>11 DEF vars, dbVars, envVars
<1> QED
  BY <1>1, <1>2, <1>3, <1>4, <1>5, <1>6, <1>7, <1>8, <1>9, <1>10, <1>11
  DEF Next, Handle, External

\* The inductive invariant of the one-shot rule holds in every behaviour.
THEOREM PostCorrect == Spec => []PostInv
BY PostInit, PostNext, PTL DEF Spec

\* At most one POST per access key, whatever requests race, die or time out.
THEOREM OnePost == Spec => []AtMostOnePost
<1>1. PostInv => AtMostOnePost
  BY DEF PostInv
<1> QED
  BY <1>1, PostCorrect, PTL

\* A POST is preceded by its committed status and its attempt row.
THEOREM IntentFirst == Spec => []IntentBeforePost
<1>1. PostInv => IntentBeforePost
  BY DEF PostInv, TypeOK, HeldIsUntouched, IntentIsRecorded, IntentBeforePost, Held
<1> QED
  BY <1>1, PostCorrect, PTL

-----------------------------------------------------------------------------
(* A stored authorization is SEFAZ's *)

LEMMA EvidenceInit == Init => EvidenceInv
<1> SUFFICES ASSUME Init PROVE EvidenceInv
  OBVIOUS
<1>1. \A d \in Children : /\ issuance[d].status = "absent" /\ ~authorizedXml[d]
                          /\ draftStatus[d] = "xml_generated"
  BY DEF Init, Absent
<1>2. \A r \in Requests : req[r].phase = "idle"
  BY IdleType DEF Init
<1> QED
  BY <1>1, <1>2, PostInit
  DEF EvidenceInv, AuthorizedIsBacked, RepliesAreTrue, ViewsAreTrue, WritesAreTrue, StoredIsTrue

\* Only the verdict "authorized" makes a reply that says so.
LEMMA AuthorizedReply ==
  ASSUME NEW call, NEW n \in NoteStates, NEW y \in Answers(call, n),
         y.kind = "authorized"
  PROVE  n = "authorized"
BY DEF Answers, LotAnswers, ReceiptAnswers, KeyAnswers, VerdictReply, Reply, NoReply,
       Verdicts, NoteStates

\* SEFAZ never takes a verdict back, because a note is sent only once.
LEMMA VerdictIsKept ==
  ASSUME PostInv, Next, NEW d \in Children, sefaz[d] \in Verdicts
  PROVE  sefaz'[d] = sefaz[d]
<1>t. sefaz \in [Children -> NoteStates] /\ \A r \in Requests : req[r].child \in Children
  BY HandlerFields DEF PostInv, TypeOK
<1>1. ASSUME NEW r \in Requests, SendPost(r) PROVE sefaz'[d] = sefaz[d]
  <2>1. sefaz[req[r].child] = "unsent"
    BY <1>1, <1>t DEF SendPost, PostInv, IntentIsExclusive, UnsentIsUnknown
  <2> QED
    BY <1>1, <1>t, <2>1 DEF SendPost, Verdicts
<1>2. ASSUME NEW e \in Children, SefazAccept(e) \/ SefazDecide(e) \/ LosePost(e)
      PROVE sefaz'[d] = sefaz[d]
  BY <1>2, <1>t DEF SefazAccept, SefazDecide, LosePost, Verdicts
<1>3. ASSUME NEW r \in Requests,
             \/ \E e \in Children : CommitIntent(r, e) \/ CheckPending(r, e)
             \/ CommitQuery(r) \/ Decide(r) \/ Commit(r) \/ CommitFails(r)
             \/ Answer(r) \/ LoseReply(r) \/ Die(r)
      PROVE sefaz'[d] = sefaz[d]
  BY <1>3 DEF CommitIntent, CheckPending, CommitQuery, Decide, Commit, CommitFails,
              Answer, LoseReply, Die, envVars
<1>4. ASSUME NEW e \in Children, Sign(e) PROVE sefaz'[d] = sefaz[d]
  BY <1>4 DEF Sign, envVars
<1> QED
  BY <1>1, <1>2, <1>3, <1>4 DEF Next, Handle, External

LEMMA EvidenceNext == EvidenceInv /\ [Next]_vars => EvidenceInv'
<1> SUFFICES ASSUME EvidenceInv, [Next]_vars PROVE EvidenceInv'
  OBVIOUS
<1>p. PostInv /\ TypeOK
  BY DEF EvidenceInv, PostInv
<1>i. AuthorizedIsBacked /\ RepliesAreTrue /\ ViewsAreTrue /\ WritesAreTrue /\ StoredIsTrue
  BY DEF EvidenceInv
<1>f. /\ \A d \in Children : issuance[d] \in Issuances
      /\ \A r \in Requests : req[r] \in Handlers /\ req[r].child \in Children
  BY <1>p, HandlerFields DEF TypeOK
<1>k. Next => \A d \in Children : sefaz[d] = "authorized" => sefaz'[d] = "authorized"
  BY <1>p, VerdictIsKept DEF Verdicts
<1> DEFINE Rest == /\ AuthorizedIsBacked' /\ RepliesAreTrue' /\ ViewsAreTrue'
                   /\ WritesAreTrue' /\ StoredIsTrue'
<1> SUFFICES Rest
  BY <1>p, PostNext DEF EvidenceInv
<1> USE DEF AuthorizedIsBacked, RepliesAreTrue, ViewsAreTrue, WritesAreTrue, StoredIsTrue
<1>1. ASSUME NEW d \in Children, Sign(d) PROVE Rest
  <2>1. \A e \in Children : /\ issuance'[e].protocol = issuance[e].protocol
                            /\ issuance'[e].status = "authorized" => issuance[e].status = "authorized"
                            /\ draftStatus'[e] = "authorized" => draftStatus[e] = "authorized"
    BY <1>p, <1>f, <1>1 DEF Sign, TypeOK, Issuances
  <2> QED
    BY <1>i, <1>f, <1>1, <2>1 DEF Sign, envVars
<1>2. ASSUME NEW r \in Requests, NEW d \in Children, CommitIntent(r, d) PROVE Rest
  <2>1. \A e \in Children : /\ issuance'[e].protocol = issuance[e].protocol
                            /\ issuance'[e].status = "authorized" => issuance[e].status = "authorized"
    BY <1>p, <1>f, <1>2 DEF CommitIntent, TypeOK, Issuances
  <2>2. /\ req'[r].phase = "intent" /\ ~req'[r].view.protocol
        /\ \A q \in Requests \ {r} : req'[q] = req[q]
    BY <1>p, <1>2, IdleType DEF CommitIntent, TypeOK, Handlers, Idle, Absent
  <2>3. UNCHANGED <<authorizedXml, draftStatus, sefaz>>
    BY <1>2 DEF CommitIntent, envVars
  <2> QED
    BY <1>i, <1>f, <2>1, <2>2, <2>3
<1>3. ASSUME NEW r \in Requests, NEW d \in Children, CheckPending(r, d) PROVE Rest
  <2>1. /\ req'[r].phase = "checked"
        /\ \A q \in Requests \ {r} : req'[q] = req[q]
    BY <1>p, <1>3, IdleType DEF CheckPending, TypeOK, Handlers
  <2> QED
    BY <1>i, <1>f, <1>3, <2>1 DEF CheckPending, dbVars, envVars
<1>4. ASSUME NEW r \in Requests, SendPost(r) PROVE Rest
  <2>1. /\ req[r].phase = "intent" /\ req'[r].phase = "waiting"
        /\ req'[r].child = req[r].child /\ req'[r].view = req[r].view
        /\ \A q \in Requests \ {r} : req'[q] = req[q]
    BY <1>p, <1>f, <1>4 DEF SendPost, TypeOK, Handlers
  <2>2. Next
    BY <1>4 DEF Next, Handle
  <2>3. UNCHANGED <<issuance, authorizedXml, draftStatus>>
    BY <1>4 DEF SendPost, dbVars
  <2> QED
    BY <1>i, <1>f, <1>k, <2>1, <2>2, <2>3
<1>5. ASSUME NEW r \in Requests, CommitQuery(r) PROVE Rest
  <2>1. /\ req'[r].phase = "waiting" /\ req'[r].child = req[r].child
        /\ req'[r].view = issuance[req[r].child]
        /\ \A q \in Requests \ {r} : req'[q] = req[q]
    BY <1>p, <1>f, <1>5 DEF CommitQuery, TypeOK, Handlers
  <2>2. UNCHANGED <<issuance, authorizedXml, draftStatus, sefaz>>
    BY <1>5 DEF CommitQuery, envVars
  <2> QED
    BY <1>i, <1>f, <2>1, <2>2
<1>6. ASSUME NEW r \in Requests, Decide(r) PROVE Rest
  <2> DEFINE d == req[r].child
             v == IF req[r].op = "authorization" THEN issuance[d] ELSE req[r].view
             w == Outcome(r, v)
  <2>1. /\ req[r].phase = "answered"
        /\ req' = [req EXCEPT ![r].phase = "decided", ![r].view = v, ![r].writes = w]
    BY <1>6 DEF Decide
  <2>2. v.protocol => issuance[d].protocol
    BY <1>i, <2>1
  <2>3. Target(req[r].op, req[r].reply.kind) = "authorized" => sefaz[d] = "authorized"
    BY <1>i, <2>1 DEF Target
  <2>4. /\ w.insertXml => sefaz[d] = "authorized"
        /\ w.status = "authorized" \/ w.draft = "authorized" =>
             sefaz[d] = "authorized" /\ (w.insertXml \/ authorizedXml[d])
        /\ w.status = "authorized" => w.protocol \/ issuance[d].protocol
    <3>1. w.draft = "authorized" =>
            Target(req[r].op, req[r].reply.kind) = "authorized" \/ draftStatus[d] = "authorized"
      BY DEF Outcome, DraftTarget, Changed, Keep
    <3> QED
      BY <1>i, <1>f, <2>2, <2>3, <3>1 DEF Outcome, Changed, Keep
  <2> HIDE DEF v, w
  <2>5. /\ req'[r].phase = "decided" /\ req'[r].child = d /\ req'[r].writes = w
        /\ \A q \in Requests \ {r} : req'[q] = req[q]
    BY <1>p, <1>f, <2>1 DEF TypeOK, Handlers
  <2>6. UNCHANGED <<issuance, authorizedXml, draftStatus, sefaz>>
    BY <1>6 DEF Decide, dbVars, envVars
  <2> QED
    BY <1>i, <1>f, <2>4, <2>5, <2>6
<1>7. ASSUME NEW r \in Requests, Commit(r) PROVE Rest
  <2> DEFINE d == req[r].child
             w == req[r].writes
  <2>1. /\ req[r].phase = "decided" /\ req'[r].phase = "idle"
        /\ \A q \in Requests \ {r} : req'[q] = req[q]
    BY <1>p, <1>7, IdleType DEF Commit, TypeOK
  <2>2. d \in Children
    BY <1>f
  <2>3. /\ issuance'[d].status = Apply(w.status, issuance[d].status)
        /\ issuance'[d].protocol = (issuance[d].protocol \/ w.protocol)
        /\ authorizedXml'[d] = (authorizedXml[d] \/ w.insertXml)
        /\ draftStatus'[d] = Apply(w.draft, draftStatus[d])
    BY <1>p, <1>7, <2>2 DEF Commit, TypeOK
  <2>4. \A e \in Children \ {d} : /\ issuance'[e] = issuance[e]
                                  /\ authorizedXml'[e] = authorizedXml[e]
                                  /\ draftStatus'[e] = draftStatus[e]
    BY <1>p, <1>7, <2>2 DEF Commit, TypeOK
  <2>5. sefaz' = sefaz
    BY <1>7 DEF Commit, envVars
  <2>6. /\ w.insertXml => sefaz[d] = "authorized"
        /\ w.status = "authorized" \/ w.draft = "authorized" =>
             sefaz[d] = "authorized" /\ (w.insertXml \/ authorizedXml[d])
        /\ w.status = "authorized" => w.protocol \/ issuance[d].protocol
    BY <1>i, <2>1
  <2>7. AuthorizedIsBacked' /\ StoredIsTrue'
    <3>1. authorizedXml'[d] => sefaz'[d] = "authorized"
      BY <1>i, <2>2, <2>3, <2>5, <2>6
    <3>2. issuance'[d].status = "authorized" =>
            sefaz'[d] = "authorized" /\ authorizedXml'[d] /\ issuance'[d].protocol
      BY <1>i, <2>2, <2>3, <2>5, <2>6 DEF Apply
    <3>3. draftStatus'[d] = "authorized" => sefaz'[d] = "authorized" /\ authorizedXml'[d]
      BY <1>i, <2>2, <2>3, <2>5, <2>6 DEF Apply
    <3> HIDE DEF w
    <3> QED
      BY <1>i, <2>2, <2>4, <2>5, <3>1, <3>2, <3>3
  <2>8. \A e \in Children : /\ authorizedXml[e] => authorizedXml'[e]
                            /\ issuance[e].protocol => issuance'[e].protocol
    BY <2>3, <2>4
  <2>9. RepliesAreTrue' /\ ViewsAreTrue' /\ WritesAreTrue'
    BY <1>i, <1>f, <2>1, <2>5, <2>8
  <2> QED
    BY <2>7, <2>9
<1>8. ASSUME NEW r \in Requests, CommitFails(r) \/ Die(r) PROVE Rest
  <2>1. /\ req'[r].phase = "idle"
        /\ \A q \in Requests \ {r} : req'[q] = req[q]
    BY <1>p, <1>8, IdleType DEF CommitFails, Die, TypeOK
  <2>2. UNCHANGED <<issuance, authorizedXml, draftStatus, sefaz>>
    BY <1>8 DEF CommitFails, Die, dbVars, envVars
  <2> QED
    BY <1>i, <1>f, <2>1, <2>2
<1>9. ASSUME NEW d \in Children, SefazAccept(d) \/ SefazDecide(d) \/ LosePost(d) PROVE Rest
  <2>1. Next
    BY <1>9 DEF Next, External
  <2>2. UNCHANGED <<issuance, authorizedXml, draftStatus, req>>
    BY <1>9 DEF SefazAccept, SefazDecide, LosePost, dbVars
  <2> QED
    BY <1>i, <1>f, <1>k, <2>1, <2>2
<1>10. ASSUME NEW r \in Requests, Answer(r) \/ LoseReply(r) PROVE Rest
  <2>1. PICK y : /\ req[r].phase = "waiting"
                 /\ req' = [req EXCEPT ![r].phase = "answered", ![r].reply = y]
                 /\ y.kind = "authorized" => sefaz[req[r].child] = "authorized"
    <3>1. CASE Answer(r)
      <4>1. PICK y \in Answers(Call(r), sefaz[req[r].child]) :
              req' = [req EXCEPT ![r].phase = "answered", ![r].reply = y]
        BY <3>1 DEF Answer
      <4>2. sefaz[req[r].child] \in NoteStates
        BY <1>p, <1>f DEF TypeOK
      <4> QED
        BY <3>1, <4>1, <4>2, AuthorizedReply DEF Answer
    <3>2. CASE LoseReply(r)
      <4>1. NoReply.kind # "authorized"
        BY DEF NoReply
      <4> QED
        BY <3>2, <4>1 DEF LoseReply
    <3> QED
      BY <1>10, <3>1, <3>2
  <2>2. /\ req'[r].phase = "answered" /\ req'[r].child = req[r].child
        /\ req'[r].view = req[r].view /\ req'[r].reply = y
        /\ \A q \in Requests \ {r} : req'[q] = req[q]
    BY <1>p, <1>f, <2>1 DEF TypeOK, Handlers
  <2>3. UNCHANGED <<issuance, authorizedXml, draftStatus, sefaz>>
    BY <1>10 DEF Answer, LoseReply, dbVars
  <2>4. RepliesAreTrue'
    <3>1. req'[r].reply.kind = "authorized" => sefaz'[req'[r].child] = "authorized"
      <4>1. req'[r].reply = y /\ req'[r].child = req[r].child /\ sefaz' = sefaz
        BY <2>2, <2>3
      <4> QED
        BY <2>1, <4>1
    <3> QED
      BY <1>i, <2>2, <2>3, <3>1
  <2>5. ViewsAreTrue'
    BY ZenonT(40), <1>i, <2>1, <2>2, <2>3
  <2>6. WritesAreTrue'
    BY <1>i, <2>2, <2>3
  <2> QED
    BY <1>i, <2>3, <2>4, <2>5, <2>6
<1>11. CASE UNCHANGED vars
  BY <1>i, <1>11 DEF vars, dbVars, envVars
<1> QED
  BY <1>1, <1>2, <1>3, <1>4, <1>5, <1>6, <1>7, <1>8, <1>9, <1>10, <1>11
  DEF Next, Handle, External

\* The inductive invariant of the evidence rule holds in every behaviour.
THEOREM EvidenceCorrect == Spec => []EvidenceInv
BY EvidenceInit, EvidenceNext, PTL DEF Spec

\* Whoever reads "authorized" finds SEFAZ's authorization and the stored nfeProc.
THEOREM AuthorizedBacked == Spec => []AuthorizedIsBacked
<1>1. EvidenceInv => AuthorizedIsBacked
  BY DEF EvidenceInv
<1> QED
  BY <1>1, EvidenceCorrect, PTL

-----------------------------------------------------------------------------
(* A stored verdict is SEFAZ's, and stays; misled records the notes of which  *)
(* a query by receipt was refused itself, and nothing else is excepted.       *)

LEMMA VerdictInit == Init => VerdictInv
<1> SUFFICES ASSUME Init PROVE VerdictInv
  OBVIOUS
<1>1. \A r \in Requests : /\ req[r].phase = "idle" /\ req[r].op = "authorization"
                          /\ req[r].view.status = "absent"
  BY DEF Init, Idle, Absent
<1>2. /\ \A d \in Children : issuance[d].status = "absent" /\ draftStatus[d] = "xml_generated"
      /\ processStatus = "xml_validated"
  BY DEF Init, Absent
<1> QED
  BY <1>1, <1>2, EvidenceInit
  DEF VerdictInv, FinalStatusAgrees, ProcessAuthorizedIsSound, HandlerAgrees, Verdicts

\* The history only grows.
LEMMA MisledGrows == ASSUME Next PROVE misled \subseteq misled'
BY DEF Next, Handle, External, Sign, CommitIntent, CheckPending, SendPost, CommitQuery,
   Decide, Commit, CommitFails, SefazAccept, SefazDecide, LosePost, Answer, LoseReply,
   Die, envVars

\* What agrees with SEFAZ goes on doing so: a verdict is final, the history grows.
LEMMA AgreementStays ==
  ASSUME EvidenceInv, Next, NEW d \in Children, NEW v \in Verdicts, Agrees(d, v)
  PROVE  Agrees(d, v)'
<1>1. sefaz[d] \in Verdicts => sefaz'[d] = sefaz[d]
  BY VerdictIsKept DEF EvidenceInv
<1>2. d \in misled => d \in misled'
  BY MisledGrows
<1> QED
  BY <1>1, <1>2 DEF Agrees

\* SEFAZ refuses a POST only to reject the note.
LEMMA RefusedLot ==
  ASSUME NEW n \in NoteStates, NEW y \in LotAnswers(n), y.kind = "refused"
  PROVE  n = "rejected"
BY DEF LotAnswers, VerdictReply, Reply, NoReply, NoteStates, Verdicts

\* Only the verdict "denied" makes a reply that says so.
LEMMA DeniedReply ==
  ASSUME NEW call, NEW n \in NoteStates, NEW y \in Answers(call, n)
  PROVE  y.kind = "denied" => n = "denied"
BY DEF Answers, LotAnswers, ReceiptAnswers, KeyAnswers, VerdictReply, Reply, NoReply,
       Verdicts, NoteStates

\* What a handler concludes from a true reply and a true row is true.
LEMMA OutcomeAgrees ==
  ASSUME VerdictInv, NEW r \in Requests, req[r].phase = "answered",
         NEW v \in Issuances,
         NEW w, w = Outcome(r, v)
  PROVE  /\ w.status \in Verdicts \cup {"processing", Keep}
         /\ w.status \in Verdicts => Agrees(req[r].child, w.status) /\ w.status # v.status
         /\ w.draft \in {"authorized", "rejected", Keep}
         /\ w.draft = "rejected" =>
              Agrees(req[r].child, "denied") \/ Agrees(req[r].child, "rejected")
         /\ w.process = "authorized" =>
              \A d \in Children : \/ draftStatus[d] = "authorized"
                                  \/ d = req[r].child /\ w.draft = "authorized"
<1> DEFINE dr == DraftTarget(req[r].child, Target(req[r].op, req[r].reply.kind))
           pr == ProcessTarget(req[r].child, Target(req[r].op, req[r].reply.kind), req[r].reply.kind)
<1>c. PICK c \in Children : c = req[r].child
  BY HandlerFields DEF VerdictInv, EvidenceInv, PostInv, TypeOK
<1>t. PICK t : t = Target(req[r].op, req[r].reply.kind)
  OBVIOUS
<1>1. t \in Verdicts \cup {"processing"}
  BY <1>t DEF Target, Verdicts
<1>2. t \in Verdicts => Agrees(c, t)
  BY <1>c, <1>t DEF Target, Verdicts, VerdictInv, HandlerAgrees, EvidenceInv, RepliesAreTrue, Agrees
<1>3. w.status = Changed(t, v.status)
  BY <1>t DEF Outcome
<1>4. w.draft = Changed(DraftTarget(c, t), draftStatus[c])
  BY <1>c, <1>t DEF Outcome
<1>5. w.process = Changed(ProcessTarget(c, t, req[r].reply.kind), processStatus)
  BY <1>c, <1>t DEF Outcome
<1>6. /\ w.status \in Verdicts \cup {"processing", Keep}
      /\ w.status \in Verdicts => Agrees(c, w.status) /\ w.status # v.status
  BY <1>1, <1>2, <1>3 DEF Changed, Verdicts, Keep
<1>7. /\ w.draft \in {"authorized", "rejected", Keep}
      /\ w.draft = "rejected" => Agrees(c, "denied") \/ Agrees(c, "rejected")
      /\ t = "authorized" => w.draft = "authorized" \/ draftStatus[c] = "authorized"
  BY <1>1, <1>2, <1>4 DEF Changed, DraftTarget, Verdicts, Keep
<1>8. ASSUME w.process = "authorized" PROVE t = "authorized" /\ \A s \in Children \ {c} : draftStatus[s] = "authorized"
  BY <1>5, <1>8 DEF Changed, ProcessTarget, Keep
<1> QED
  BY <1>c, <1>6, <1>7, <1>8

\* No step takes the authorization away from a draft no query misled about.
LEMMA AuthorizedDraftStays ==
  ASSUME VerdictInv, Next, NEW d \in Children \ misled, draftStatus[d] = "authorized"
  PROVE  draftStatus'[d] = "authorized"
<1>t. TypeOK
  BY DEF VerdictInv, EvidenceInv, PostInv
<1>1. sefaz[d] = "authorized" /\ ~Held(d)
  <2>1. sefaz[d] = "authorized"
    BY DEF VerdictInv, EvidenceInv, AuthorizedIsBacked
  <2> QED
    BY <2>1 DEF VerdictInv, EvidenceInv, PostInv, HeldIsUntouched, UnsentIsUnknown
<1>2. ASSUME NEW e \in Children, Sign(e) PROVE draftStatus'[d] = "authorized"
  <2>1. e # d
    BY <1>1, <1>2 DEF Sign, Held
  <2> QED
    BY <1>t, <1>2, <2>1 DEF Sign, TypeOK
<1>3. ASSUME NEW r \in Requests, Commit(r) PROVE draftStatus'[d] = "authorized"
  <2>1. PICK c, w : c = req[r].child /\ w = req[r].writes
    OBVIOUS
  <2>2. draftStatus' = [draftStatus EXCEPT ![c] = Apply(w.draft, @)] /\ req[r].phase = "decided"
    BY <1>3, <2>1 DEF Commit
  <2>3. c = d => w.draft \in {"authorized", Keep}
    BY <1>1, <2>1, <2>2 DEF VerdictInv, HandlerAgrees, Agrees
  <2> QED
    BY <1>t, <2>2, <2>3 DEF TypeOK, Apply
<1>4. ASSUME UNCHANGED draftStatus PROVE draftStatus'[d] = "authorized"
  BY <1>4
<1> QED
  BY <1>2, <1>3, <1>4 DEF Next, Handle, External, CommitIntent, CheckPending, SendPost,
     CommitQuery, Decide, CommitFails, SefazAccept, SefazDecide, LosePost, Answer,
     LoseReply, Die, dbVars

\* What a handler knows stays true while it does not move.
LEMMA HandlerStillAgrees ==
  ASSUME VerdictInv, Next, NEW r \in Requests, req'[r] = req[r],
         \A d \in Children : issuance[d].receipt => issuance'[d].receipt
  PROVE  HandlerAgrees(req[r])'
<1>1. PICK h : h = req[r]
  OBVIOUS
<1>2. h.child \in Children /\ HandlerAgrees(h)
  BY <1>1, HandlerFields DEF VerdictInv, EvidenceInv, PostInv, TypeOK
<1>3. /\ \A d \in Children, v \in Verdicts : Agrees(d, v) => Agrees(d, v)'
      /\ \A d \in Children \ misled : draftStatus[d] = "authorized" => draftStatus'[d] = "authorized"
      /\ misled \subseteq misled'
      /\ \A d \in Children : sefaz[d] \in Verdicts => sefaz'[d] = sefaz[d]
  BY AgreementStays, VerdictIsKept, AuthorizedDraftStays, MisledGrows DEF VerdictInv, EvidenceInv
<1>4. HandlerAgrees(h)'
  BY <1>2, <1>3 DEF HandlerAgrees, Verdicts
<1> QED
  BY <1>1, <1>4 DEF HandlerAgrees

LEMMA VerdictNext ==
  ASSUME VerdictInv, [Next]_vars
  PROVE  VerdictInv'
<1>v. EvidenceInv /\ TypeOK
  BY DEF VerdictInv, EvidenceInv, PostInv
<1>i. /\ FinalStatusAgrees /\ ProcessAuthorizedIsSound
      /\ \A r \in Requests : HandlerAgrees(req[r])
  BY DEF VerdictInv
<1>f. /\ \A d \in Children : issuance[d] \in Issuances
      /\ \A r \in Requests : req[r] \in Handlers /\ req[r].child \in Children
  BY <1>v, HandlerFields DEF TypeOK
<1>h. \A d \in Children : Held(d) => sefaz[d] = "unsent"
  BY <1>v DEF EvidenceInv, PostInv, HeldIsUntouched, UnsentIsUnknown
<1>k. Next => /\ \A d \in Children, v \in Verdicts : Agrees(d, v) => Agrees(d, v)'
              /\ \A d \in Children : sefaz[d] \in Verdicts => sefaz'[d] = sefaz[d]
              /\ misled \subseteq misled'
  BY <1>v, AgreementStays, VerdictIsKept, MisledGrows DEF EvidenceInv
<1>e. EvidenceInv'
  BY <1>v, EvidenceNext
<1> DEFINE Stored == FinalStatusAgrees' /\ ProcessAuthorizedIsSound'
           Agreed == \A r \in Requests : HandlerAgrees(req[r])'
<1> SUFFICES Stored /\ Agreed
  BY <1>e DEF VerdictInv
\* The rows a step leaves alone stay in agreement.
<1>s. ASSUME Next, UNCHANGED <<issuance, draftStatus, processStatus>> PROVE Stored
  BY <1>i, <1>k, <1>s DEF FinalStatusAgrees, ProcessAuthorizedIsSound, Verdicts
\* A step of handler r alone has to be looked at for r alone.
<1>a. ASSUME NEW r \in Requests, Next, HandlerAgrees(req[r])',
             \A q \in Requests \ {r} : req'[q] = req[q],
             \A d \in Children : issuance[d].receipt => issuance'[d].receipt
      PROVE  Agreed
  BY <1>a, HandlerStillAgrees
<1>1. ASSUME NEW d \in Children, Sign(d) PROVE Stored /\ Agreed
  <2>1. Next
    BY <1>1 DEF Next
  <2>2. /\ issuance'[d].status = "signed" /\ issuance'[d].receipt = issuance[d].receipt
        /\ draftStatus'[d] = "signed"
        /\ \A e \in Children \ {d} : issuance'[e] = issuance[e] /\ draftStatus'[e] = draftStatus[e]
        /\ processStatus' = "xml_signed" /\ UNCHANGED <<req, sefaz, misled>>
    BY <1>v, <1>f, <1>1 DEF Sign, TypeOK, Issuances, envVars
  <2>3. Stored
    BY <1>i, <2>2 DEF FinalStatusAgrees, ProcessAuthorizedIsSound, Verdicts, Agrees
  <2>4. Agreed
    BY <2>1, <2>2, HandlerStillAgrees
  <2> QED
    BY <2>3, <2>4
<1>2. ASSUME NEW r \in Requests, NEW d \in Children, CommitIntent(r, d) PROVE Stored /\ Agreed
  <2>1. Next
    BY <1>2 DEF Next, Handle
  <2>2. /\ issuance'[d].status = "submission_pending" /\ issuance'[d].receipt = issuance[d].receipt
        /\ \A e \in Children \ {d} : issuance'[e] = issuance[e]
        /\ UNCHANGED <<draftStatus, processStatus, sefaz, misled>>
    BY <1>v, <1>f, <1>2 DEF CommitIntent, TypeOK, Issuances, envVars
  <2>3. /\ req'[r].phase = "intent" /\ req'[r].op = "authorization"
        /\ req'[r].view.status = "absent"
        /\ \A q \in Requests \ {r} : req'[q] = req[q]
    BY <1>v, <1>2, IdleType DEF CommitIntent, TypeOK, Handlers, Idle, Absent
  <2>4. Stored
    BY <1>i, <2>2 DEF FinalStatusAgrees, ProcessAuthorizedIsSound, Verdicts, Agrees
  <2>5. HandlerAgrees(req[r])'
    BY <2>3 DEF HandlerAgrees, Verdicts
  <2> QED
    BY <1>a, <2>1, <2>2, <2>3, <2>4, <2>5
<1>3. ASSUME NEW r \in Requests, NEW d \in Children, CheckPending(r, d) PROVE Stored /\ Agreed
  <2>1. Next /\ UNCHANGED <<issuance, draftStatus, processStatus, sefaz, misled>>
    BY <1>3 DEF Next, Handle, CheckPending, dbVars, envVars
  <2>2. /\ req'[r].phase = "checked" /\ req'[r].child = d
        /\ req'[r].op = "receipt_query" => issuance[d].receipt
        /\ req'[r].view.status = "absent"
        /\ \A q \in Requests \ {r} : req'[q] = req[q]
    BY <1>v, <1>3, IdleType DEF CheckPending, TypeOK, Handlers, Idle, Absent
  <2>3. HandlerAgrees(req[r])'
    BY <2>1, <2>2 DEF HandlerAgrees, Verdicts
  <2> QED
    BY <1>a, <1>s, <2>1, <2>2, <2>3
<1>4. ASSUME NEW r \in Requests, SendPost(r) PROVE Stored /\ Agreed
  <2>1. Next /\ UNCHANGED <<issuance, draftStatus, processStatus>>
    BY <1>4 DEF Next, Handle, SendPost, dbVars
  <2>2. /\ req'[r].phase = "waiting" /\ req'[r].op = req[r].op
        /\ req'[r].child = req[r].child /\ req'[r].view = req[r].view
        /\ \A q \in Requests \ {r} : req'[q] = req[q]
    BY <1>v, <1>f, <1>4 DEF SendPost, TypeOK, Handlers
  <2>3. req[r].op = "authorization"
    BY <1>i, <1>4 DEF SendPost, HandlerAgrees
  <2>4. HandlerAgrees(req[r])'
    BY <1>i, <1>f, <1>k, <2>1, <2>2, <2>3 DEF HandlerAgrees
  <2> QED
    BY <1>a, <1>s, <2>1, <2>2, <2>4
<1>5. ASSUME NEW r \in Requests, CommitQuery(r) PROVE Stored /\ Agreed
  <2>1. /\ Next /\ UNCHANGED <<issuance, draftStatus, processStatus, sefaz, misled>>
        /\ req[r].phase = "checked"
    BY <1>5 DEF Next, Handle, CommitQuery, envVars
  <2>2. /\ req'[r].phase = "waiting" /\ req'[r].op = req[r].op
        /\ req'[r].child = req[r].child /\ req'[r].view = issuance[req[r].child]
        /\ \A q \in Requests \ {r} : req'[q] = req[q]
    BY <1>v, <1>f, <1>5 DEF CommitQuery, TypeOK, Handlers
  <2>3. req[r].op = "receipt_query" => issuance[req[r].child].receipt
    BY <1>i, <2>1 DEF HandlerAgrees
  <2>4. HandlerAgrees(req[r])'
    BY <1>i, <1>f, <2>1, <2>2, <2>3 DEF HandlerAgrees, FinalStatusAgrees, Agrees
  <2> QED
    BY <1>a, <1>s, <2>1, <2>2, <2>4
<1>6. ASSUME NEW r \in Requests, Decide(r) PROVE Stored /\ Agreed
  <2>1. /\ Next /\ UNCHANGED <<issuance, draftStatus, processStatus, sefaz, misled>>
        /\ req[r].phase = "answered"
    BY <1>6 DEF Next, Handle, Decide, dbVars, envVars
  <2>2. PICK v, w : /\ v = IF req[r].op = "authorization" THEN issuance[req[r].child] ELSE req[r].view
                    /\ w = Outcome(r, v)
    OBVIOUS
  <2>3. v \in Issuances
    BY <1>f, <2>2, HandlerFields
  <2>4. v.status \in Verdicts => Agrees(req[r].child, v.status)
    BY <1>i, <1>f, <2>2 DEF HandlerAgrees, FinalStatusAgrees
  <2>5. req' = [req EXCEPT ![r].phase = "decided", ![r].view = v, ![r].writes = w]
    BY <1>6, <2>2 DEF Decide
  <2>6. /\ req'[r].phase = "decided" /\ req'[r].child = req[r].child
        /\ req'[r].view = v /\ req'[r].writes = w
        /\ \A q \in Requests \ {r} : req'[q] = req[q]
    BY <1>v, <1>f, <2>5 DEF TypeOK, Handlers
  <2>7. HandlerAgrees(req[r])'
    BY <2>1, <2>2, <2>3, <2>4, <2>6, OutcomeAgrees DEF HandlerAgrees, Agrees
  <2> QED
    BY <1>a, <1>s, <2>1, <2>6, <2>7
<1>7. ASSUME NEW r \in Requests, Commit(r) PROVE Stored /\ Agreed
  <2>1. PICK d \in Children, w \in {req[r].writes} : d = req[r].child /\ w = req[r].writes
    BY <1>f
  <2>2. Next /\ req[r].phase = "decided" /\ UNCHANGED <<sefaz, misled>>
    BY <1>7 DEF Next, Handle, Commit, envVars
  <2>3. /\ issuance'[d].status = Apply(w.status, issuance[d].status)
        /\ issuance[d].receipt => issuance'[d].receipt
        /\ draftStatus'[d] = Apply(w.draft, draftStatus[d])
        /\ processStatus' = Apply(w.process, processStatus)
        /\ \A e \in Children \ {d} : issuance'[e] = issuance[e] /\ draftStatus'[e] = draftStatus[e]
    BY <1>v, <1>f, <1>7, <2>1 DEF Commit, TypeOK
  <2>4. /\ w.status \in Verdicts => Agrees(d, w.status)
        /\ w.draft = "rejected" => Agrees(d, "denied") \/ Agrees(d, "rejected")
        /\ w.process = "authorized" =>
             \A s \in Children \ misled : draftStatus[s] = "authorized" \/ (s = d /\ w.draft = "authorized")
    BY <1>i, <2>1, <2>2 DEF HandlerAgrees
  <2>5. FinalStatusAgrees'
    <3>1. ASSUME NEW e \in Children
          PROVE  /\ issuance'[e].status \in Verdicts => Agrees(e, issuance'[e].status)
                 /\ draftStatus'[e] = "rejected" => Agrees(e, "denied") \/ Agrees(e, "rejected")
      <4>1. CASE e = d
        BY <1>i, <2>3, <2>4, <4>1 DEF FinalStatusAgrees, Apply, Keep
      <4>2. CASE e # d
        BY <1>i, <2>3, <4>2 DEF FinalStatusAgrees
      <4> QED
        BY <4>1, <4>2
    <3> QED
      BY <2>2, <3>1 DEF FinalStatusAgrees, Agrees
  <2>6. ProcessAuthorizedIsSound'
    <3>1. \A s \in Children \ misled : draftStatus[s] = "authorized" => draftStatus'[s] = "authorized"
      BY <2>2, AuthorizedDraftStays
    <3>2. w.draft = "authorized" => draftStatus'[d] = "authorized"
      BY <2>3 DEF Apply, Keep
    <3> QED
      BY <1>i, <2>2, <2>3, <2>4, <3>1, <3>2 DEF ProcessAuthorizedIsSound, Apply
  <2>7. /\ req'[r].phase = "idle" /\ req'[r].op = "authorization" /\ req'[r].view.status = "absent"
        /\ \A q \in Requests \ {r} : req'[q] = req[q]
    BY <1>v, <1>7 DEF Commit, TypeOK, Idle, Absent
  <2>8. HandlerAgrees(req[r])'
    BY <2>7 DEF HandlerAgrees, Verdicts
  <2> QED
    BY <1>a, <2>2, <2>3, <2>5, <2>6, <2>7, <2>8
<1>8. ASSUME NEW r \in Requests, CommitFails(r) \/ Die(r) PROVE Stored /\ Agreed
  <2>1. Next /\ UNCHANGED <<issuance, draftStatus, processStatus>>
    BY <1>8 DEF Next, Handle, External, CommitFails, Die, dbVars
  <2>2. /\ req'[r].phase = "idle" /\ req'[r].op = "authorization" /\ req'[r].view.status = "absent"
        /\ \A q \in Requests \ {r} : req'[q] = req[q]
    BY <1>v, <1>8 DEF CommitFails, Die, TypeOK, Idle, Absent
  <2>3. HandlerAgrees(req[r])'
    BY <2>2 DEF HandlerAgrees, Verdicts
  <2> QED
    BY <1>a, <1>s, <2>1, <2>2, <2>3
<1>9. ASSUME NEW d \in Children, SefazAccept(d) \/ SefazDecide(d) \/ LosePost(d) PROVE Stored /\ Agreed
  <2>1. Next /\ UNCHANGED <<issuance, draftStatus, processStatus, req>>
    BY <1>9 DEF Next, External, SefazAccept, SefazDecide, LosePost, dbVars
  <2> QED
    BY <1>s, <2>1, HandlerStillAgrees
<1>10. ASSUME NEW r \in Requests, Answer(r) \/ LoseReply(r) PROVE Stored /\ Agreed
  <2>1. /\ Next /\ UNCHANGED <<issuance, draftStatus, processStatus, sefaz>>
        /\ req[r].phase = "waiting"
    BY <1>10 DEF Next, External, Answer, LoseReply, dbVars
  <2>2. PICK y : /\ req' = [req EXCEPT ![r].phase = "answered", ![r].reply = y]
                 /\ y.kind = "denied" => sefaz[req[r].child] = "denied"
                 /\ y.kind = "refused" /\ req[r].op # "protocol_query" =>
                      sefaz[req[r].child] = "rejected" \/ req[r].child \in misled'
    <3>1. CASE Answer(r)
      <4> DEFINE n == sefaz[req[r].child]
                 Misleading(y) == /\ Call(r) = "receipt_query" /\ y.kind = "refused"
                                  /\ n # "rejected"
      <4>1. PICK y \in Answers(Call(r), n) :
              /\ req' = [req EXCEPT ![r].phase = "answered", ![r].reply = y]
              /\ misled' = misled \cup {d \in {req[r].child} : Misleading(y)}
        BY <3>1 DEF Answer
      <4>2. n \in NoteStates
        BY <1>v, <1>f DEF TypeOK
      <4>3. y.kind = "denied" => n = "denied"
        BY <4>2, DeniedReply
      <4>4. req[r].op \in Operations /\ HandlerAgrees(req[r])
        BY <1>i, <1>k, <1>f, <1>v DEF TypeOK, Handlers
      <4>5. ASSUME y.kind = "refused", req[r].op = "authorization"
            PROVE  n = "rejected"
        <5>1. Call(r) = "authorization"
          BY <4>5 DEF Call
        <5>2. y \in LotAnswers(n)
          BY <4>1, <5>1 DEF Answers
        <5> QED
          BY <4>2, <4>5, <5>2, RefusedLot
      <4>6. req[r].op = "receipt_query" => Call(r) = "receipt_query"
        BY <2>1, <4>4 DEF HandlerAgrees, Call
      <4>7. y.kind = "refused" /\ req[r].op # "protocol_query" =>
              n = "rejected" \/ req[r].child \in misled'
        BY <4>1, <4>4, <4>5, <4>6 DEF Operations
      <4> QED
        BY <4>1, <4>3, <4>7
    <3>2. CASE LoseReply(r)
      <4>1. NoReply.kind = "lost"
        BY DEF NoReply
      <4> QED
        BY <3>2, <4>1 DEF LoseReply
    <3> QED
      BY <1>10, <3>1, <3>2
  <2>3. /\ req'[r].phase = "answered" /\ req'[r].child = req[r].child /\ req'[r].op = req[r].op
        /\ req'[r].view = req[r].view /\ req'[r].reply = y
        /\ \A q \in Requests \ {r} : req'[q] = req[q]
    BY <1>v, <1>f, <2>2 DEF TypeOK, Handlers
  <2>4. req'[r].view.status \in Verdicts => Agrees(req[r].child, req[r].view.status)'
    <3>1. PICK c \in Children, w \in {req[r].view.status} : c = req[r].child
      BY <1>f
    <3>2. w \in Verdicts => Agrees(c, w)'
      BY <1>i, <1>k, <2>1, <3>1 DEF HandlerAgrees
    <3> QED
      BY <2>3, <3>1, <3>2 DEF Agrees
  <2>5. HandlerAgrees(req[r])'
    BY <1>f, <2>1, <2>2, <2>3, <2>4 DEF HandlerAgrees, Agrees
  <2> QED
    BY <1>a, <1>s, <2>1, <2>3, <2>5
<1>11. CASE UNCHANGED vars
  <2>1. UNCHANGED <<issuance, draftStatus, processStatus, req, sefaz, misled>>
    BY <1>11 DEF vars, dbVars, envVars
  <2> QED
    BY <1>i, <2>1 DEF FinalStatusAgrees, ProcessAuthorizedIsSound, HandlerAgrees, Agrees
<1> QED
  BY <1>1, <1>2, <1>3, <1>4, <1>5, <1>6, <1>7, <1>8, <1>9, <1>10, <1>11
  DEF Next, Handle, External

\* The inductive invariant of the verdicts holds in every behaviour.
THEOREM VerdictCorrect == Spec => []VerdictInv
<1>1. VerdictInv /\ [Next]_vars => VerdictInv'
  BY VerdictNext
<1> QED
  BY <1>1, VerdictInit, PTL DEF Spec

\* A final status never contradicts SEFAZ, whatever replies come late or twice,
\* except for a rejection concluded from the refusal of a query by receipt.
THEOREM FinalStatusIsTrue == Spec => []FinalStatusAgrees
<1>1. VerdictInv => FinalStatusAgrees
  BY DEF VerdictInv
<1> QED
  BY <1>1, VerdictCorrect, PTL

\* The aggregate computed without a lock never says "authorized" too early.
THEOREM AggregateIsTrue == Spec => []ProcessAuthorizedIsSound
<1>1. VerdictInv => ProcessAuthorizedIsSound
  BY DEF VerdictInv
<1> QED
  BY <1>1, VerdictCorrect, PTL

\* No late outcome takes a verdict away, but for "processing".
LEMMA VerdictStep ==
  ASSUME VerdictInv, [Next]_vars, NEW d \in Children \ misled
  PROVE  /\ draftStatus[d] = "authorized" => draftStatus'[d] = "authorized"
         /\ LET step == lastEvent'[d] IN
            step # lastEvent[d] /\ step[1] \in Verdicts =>
              Transition(step[1], step[2]) \/ step[2] = "processing"
<1>t. TypeOK
  BY DEF VerdictInv, EvidenceInv, PostInv
<1>1. draftStatus[d] = "authorized" => draftStatus'[d] = "authorized"
  BY AuthorizedDraftStays DEF vars, dbVars
<1>2. ASSUME lastEvent'[d] # lastEvent[d], lastEvent'[d][1] \in Verdicts
      PROVE  lastEvent'[d][2] = "processing"
  <2>1. ASSUME NEW e \in Children, Sign(e) PROVE FALSE
    BY <1>t, <1>2, <2>1 DEF Sign, TypeOK, Verdicts
  <2>2. ASSUME NEW r \in Requests, NEW e \in Children, CommitIntent(r, e) PROVE FALSE
    BY <1>t, <1>2, <2>2 DEF CommitIntent, TypeOK, Verdicts
  <2>3. ASSUME NEW r \in Requests, Commit(r) PROVE lastEvent'[d][2] = "processing"
    <3>1. PICK v, w : v = req[r].view /\ w = req[r].writes
      OBVIOUS
    <3>2. /\ req[r].phase = "decided" /\ w.status # Keep /\ lastEvent'[d] = <<v.status, w.status>>
          /\ req[r].child = d
      BY <1>t, <1>2, <2>3, <3>1 DEF Commit, TypeOK
    <3>3. /\ v.status \in Verdicts => sefaz[d] = v.status
          /\ w.status \in Verdicts \cup {"processing", Keep}
          /\ w.status \in Verdicts => sefaz[d] = w.status /\ w.status # v.status
      BY <3>1, <3>2 DEF VerdictInv, HandlerAgrees, Agrees
    <3> QED
      BY <1>2, <3>2, <3>3
  <2>4. ASSUME UNCHANGED lastEvent PROVE FALSE
    BY <1>2, <2>4
  <2> QED
    BY <2>1, <2>2, <2>3, <2>4 DEF Next, Handle, External, CheckPending, SendPost,
       CommitQuery, Decide, CommitFails, SefazAccept, SefazDecide, LosePost, Answer,
       LoseReply, Die, vars, dbVars
<1> QED
  BY <1>1, <1>2

\* No late reply or time-out takes a stored verdict away.
THEOREM VerdictsAreKept == Spec => VerdictsStand
<1>1. VerdictInv /\ [Next]_vars =>
        [\A d \in Children \ misled :
           /\ draftStatus[d] = "authorized" => draftStatus'[d] = "authorized"
           /\ LET step == lastEvent'[d] IN
              step # lastEvent[d] /\ step[1] \in Verdicts =>
                Transition(step[1], step[2]) \/ step[2] = "processing"]_vars
  BY VerdictStep
<1> QED
  BY <1>1, VerdictCorrect, PTL DEF Spec, VerdictsStand

-----------------------------------------------------------------------------
(* The service implements OneShotTransmission *)

LEMMA PromiseInit == Init => Promise!Init
<1> SUFFICES ASSUME Init PROVE Promise!Init
  OBVIOUS
<1>1. \A d \in Children : Stage(d) = "held" /\ Verdict(d) = "none"
  BY DEF Init, Absent, Stage, Verdict, Verdicts
<1> QED
  BY <1>1 DEF Init, Promise!Init

\* A step that leaves Stage, Verdict and posts alone is a stutter of Promise.
LEMMA PromiseStutter ==
  ASSUME \A d \in Children : Stage(d)' = Stage(d) /\ Verdict(d)' = Verdict(d),
         posts' = posts
  PROVE  UNCHANGED Promise!vars
BY DEF Promise!vars

LEMMA PromiseNext == EvidenceInv /\ [Next]_vars => [Promise!Next]_(Promise!vars)
<1> SUFFICES ASSUME EvidenceInv, [Next]_vars PROVE Promise!Next \/ UNCHANGED Promise!vars
  OBVIOUS
<1>t. TypeOK
  BY DEF EvidenceInv, PostInv
<1>f. /\ \A d \in Children : /\ issuance[d] \in Issuances /\ posts[d] \in Nat
                             /\ authorizedXml[d] \in BOOLEAN
      /\ \A r \in Requests : req[r].child \in Children
  BY <1>t, HandlerFields DEF TypeOK
<1>i. \A d \in Children :
        /\ posts[d] = 0 => sefaz[d] = "unsent" /\ ~authorizedXml[d]
        /\ authorizedXml[d] => sefaz[d] = "authorized"
        /\ Held(d) => posts[d] = 0
  BY DEF EvidenceInv, PostInv, UnsentIsUnknown, StoredIsTrue, HeldIsUntouched
<1> DEFINE Kept == \A d \in Children : Stage(d)' = Stage(d) /\ Verdict(d)' = Verdict(d)
<1>1. ASSUME NEW d \in Children, Sign(d) PROVE UNCHANGED Promise!vars
  <2>1. \A e \in Children : Held(e)' <=> Held(e)
    BY <1>t, <1>f, <1>1 DEF Sign, TypeOK, Issuances, Held
  <2>2. UNCHANGED <<authorizedXml, posts, sefaz>>
    BY <1>1 DEF Sign, envVars
  <2> QED
    BY <2>1, <2>2, PromiseStutter DEF Stage, Verdict, Held
<1>2. ASSUME NEW r \in Requests, NEW d \in Children, CommitIntent(r, d) PROVE Promise!Intend(d)
  <2>1. Held(d) /\ posts[d] = 0 /\ ~authorizedXml[d]
    BY <1>i, <1>2 DEF CommitIntent, Transmittable, Held
  <2>2. /\ UNCHANGED <<authorizedXml, posts, sefaz>>
        /\ issuance'[d].status = "submission_pending"
        /\ \A e \in Children \ {d} : issuance'[e] = issuance[e]
    BY <1>t, <1>f, <1>2 DEF CommitIntent, envVars, TypeOK, Issuances
  <2>3. /\ Stage(d) = "held" /\ Stage(d)' = "intended"
        /\ \A e \in Children \ {d} : Stage(e)' = Stage(e)
        /\ \A e \in Children : Verdict(e)' = Verdict(e)
    BY <2>1, <2>2 DEF Stage, Verdict, Held
  <2> QED
    BY <2>2, <2>3 DEF Promise!Intend
<1>3. ASSUME NEW r \in Requests, SendPost(r) PROVE Promise!Next
  <2>c. PICK c \in Children : c = req[r].child
    BY <1>f
  <2>1. c \in Children /\ posts[c] = 0 /\ ~Held(c)
    BY <1>f, <1>3, <2>c DEF SendPost, EvidenceInv, PostInv, IntentIsExclusive, HeldIsUntouched
  <2>2. sefaz[c] = "unsent" /\ ~authorizedXml[c]
    BY <1>i, <2>1
  <2>3. /\ posts' = [posts EXCEPT ![c] = @ + 1] /\ posts'[c] = 1
        /\ sefaz'[c] = "transit"
        /\ \A e \in Children \ {c} : posts'[e] = posts[e] /\ sefaz'[e] = sefaz[e]
        /\ UNCHANGED <<issuance, authorizedXml>>
    <3>1. /\ posts' = [posts EXCEPT ![c] = @ + 1]
          /\ sefaz' = [sefaz EXCEPT ![c] = "transit"]
          /\ UNCHANGED <<issuance, authorizedXml>>
      BY <1>3, <2>c DEF SendPost, dbVars
    <3>2. posts \in [Children -> Nat] /\ sefaz \in [Children -> NoteStates]
      BY <1>t DEF TypeOK
    <3> QED
      BY <2>1, <3>1, <3>2
  <2>4. /\ Stage(c) = "intended" /\ Stage(c)' = "posted"
        /\ \A e \in Children \ {c} : Stage(e)' = Stage(e)
        /\ \A e \in Children : Verdict(e)' = Verdict(e)
    BY <2>1, <2>2, <2>3 DEF Stage, Verdict, Held, Verdicts
  <2> QED
    BY <2>1, <2>3, <2>4 DEF Promise!Next, Promise!Post
<1>4. ASSUME NEW d \in Children, SefazDecide(d) PROVE Promise!Judge(d)
  <2>1. PICK v \in Verdicts : sefaz' = [sefaz EXCEPT ![d] = v]
    BY <1>4 DEF SefazDecide
  <2>2. /\ sefaz[d] = "queued" /\ sefaz'[d] = v
        /\ \A e \in Children \ {d} : sefaz'[e] = sefaz[e]
        /\ UNCHANGED <<issuance, authorizedXml, posts>>
    BY <1>t, <1>4, <2>1 DEF SefazDecide, TypeOK, dbVars
  <2>3. posts[d] > 0 /\ ~authorizedXml[d]
    BY <1>f, <1>i, <2>2
  <2>4. /\ Stage(d) = "posted" /\ Verdict(d) = "none" /\ Verdict(d)' = v
        /\ \A e \in Children : Stage(e)' = Stage(e)
        /\ \A e \in Children \ {d} : Verdict(e)' = Verdict(e)
    BY <2>2, <2>3 DEF Stage, Verdict, Verdicts
  <2>5. v \in Promise!Verdicts
    BY DEF Verdicts, Promise!Verdicts
  <2> QED
    BY <2>2, <2>4, <2>5 DEF Promise!Judge
<1>5. ASSUME NEW d \in Children, SefazAccept(d) \/ LosePost(d) PROVE UNCHANGED Promise!vars
  <2>1. /\ sefaz[d] \notin Verdicts /\ sefaz'[d] \notin Verdicts
        /\ \A e \in Children \ {d} : sefaz'[e] = sefaz[e]
        /\ UNCHANGED <<issuance, authorizedXml, posts>>
    BY <1>t, <1>5 DEF SefazAccept, LosePost, TypeOK, dbVars, Verdicts
  <2> QED
    BY <2>1, PromiseStutter DEF Stage, Verdict
<1>6. ASSUME NEW r \in Requests, Commit(r) PROVE Promise!Next \/ UNCHANGED Promise!vars
  <2>c. PICK d \in Children, w \in {req[r].writes} : d = req[r].child /\ w = req[r].writes
    BY <1>f
  <2>1. /\ d \in Children /\ ~Held(d) /\ w.status \notin {"absent", "signed"}
        /\ w.insertXml => sefaz[d] = "authorized"
    BY <1>f, <1>6, <2>c
    DEF Commit, EvidenceInv, PostInv, HeldIsUntouched, WritesMoveOn, WritesAreTrue
  <2>2. /\ issuance'[d].status = Apply(w.status, issuance[d].status)
        /\ authorizedXml'[d] = (authorizedXml[d] \/ w.insertXml)
        /\ ~(w.insertXml /\ authorizedXml[d])
    BY <1>t, <1>6, <2>c, <2>1 DEF Commit, Duplicate, TypeOK
  <2>3. /\ \A e \in Children \ {d} : issuance'[e] = issuance[e] /\ authorizedXml'[e] = authorizedXml[e]
        /\ UNCHANGED <<posts, sefaz>>
    BY <1>t, <1>6, <2>c, <2>1 DEF Commit, TypeOK, envVars
  <2>4. ~Held(d)'
    BY <2>1, <2>2 DEF Held, Apply
  <2>5. /\ \A e \in Children \ {d} : Stage(e)' = Stage(e)
        /\ \A e \in Children : Verdict(e)' = Verdict(e)
    BY <2>3 DEF Stage, Verdict
  <2>6. CASE ~w.insertXml
    <3>1. Stage(d)' = Stage(d)
      BY <2>1, <2>2, <2>3, <2>4, <2>6 DEF Stage, Held
    <3> QED
      BY <2>3, <2>5, <3>1, PromiseStutter
  <2>7. CASE w.insertXml
    <3>0. ~authorizedXml[d] /\ authorizedXml'[d]
      BY <1>f, <2>2, <2>7
    <3>1. posts[d] > 0 /\ ~authorizedXml[d] /\ authorizedXml'[d]
      <4>1. sefaz[d] # "unsent"
        BY <2>1, <2>7
      <4> QED
        BY <1>f, <1>i, <3>0, <4>1
    <3>2. Stage(d) = "posted" /\ Stage(d)' = "proved" /\ Verdict(d) = "authorized"
      BY <2>1, <2>7, <3>1 DEF Stage, Verdict, Verdicts
    <3> QED
      BY <2>1, <2>3, <2>5, <3>2 DEF Promise!Next, Promise!Prove
  <2> QED
    BY <2>6, <2>7
<1>7. ASSUME NEW r \in Requests,
             \/ \E d \in Children : CheckPending(r, d)
             \/ CommitQuery(r) \/ Decide(r) \/ CommitFails(r)
             \/ Answer(r) \/ LoseReply(r) \/ Die(r)
      PROVE UNCHANGED Promise!vars
  <2>1. UNCHANGED <<issuance, authorizedXml, posts, sefaz>>
    BY <1>7 DEF CheckPending, CommitQuery, Decide, CommitFails, Answer, LoseReply, Die,
                dbVars, envVars
  <2> QED
    BY <2>1, PromiseStutter DEF Stage, Verdict
<1>8. CASE UNCHANGED vars
  <2>1. UNCHANGED <<issuance, authorizedXml, posts, sefaz>>
    BY <1>8 DEF vars, dbVars, envVars
  <2> QED
    BY <2>1, PromiseStutter DEF Stage, Verdict
<1> QED
  BY <1>1, <1>2, <1>3, <1>4, <1>5, <1>6, <1>7, <1>8
  DEF Next, Handle, External, Promise!Next

\* The issuance service implements the one-shot promise for every set of
\* children and handlers and every bound.
THEOREM ServiceKeepsPromise == Spec => KeepsPromise
BY PromiseInit, PromiseNext, EvidenceCorrect, PTL DEF Spec, KeepsPromise, Promise!Spec
=============================================================================
