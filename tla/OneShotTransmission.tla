------------------------ MODULE OneShotTransmission ------------------------
(***************************************************************************)
(* What the transmission of an NF-e promises, whatever fails: the intent   *)
(* is durable before anything is sent, the note is sent at most once, and  *)
(* a stored authorization is the verdict SEFAZ really gave to that note.   *)
(***************************************************************************)
EXTENDS Naturals

CONSTANT Notes

VARIABLES stage,   \* how far the sender has committed itself to the note
          sent,    \* how many times the note was sent
          verdict  \* what the authority decided about it

vars == <<stage, sent, verdict>>

Verdicts == {"authorized", "denied", "rejected"}

Init ==
  /\ stage = [n \in Notes |-> "held"]
  /\ sent = [n \in Notes |-> 0]
  /\ verdict = [n \in Notes |-> "none"]

Intend(n) ==
  /\ stage[n] = "held"
  /\ stage' = [stage EXCEPT ![n] = "intended"]
  /\ UNCHANGED <<sent, verdict>>

Post(n) ==
  /\ stage[n] = "intended"
  /\ stage' = [stage EXCEPT ![n] = "posted"]
  /\ sent' = [sent EXCEPT ![n] = @ + 1]
  /\ UNCHANGED verdict

Judge(n) ==
  /\ stage[n] = "posted"
  /\ verdict[n] = "none"
  /\ \E v \in Verdicts : verdict' = [verdict EXCEPT ![n] = v]
  /\ UNCHANGED <<stage, sent>>

Prove(n) ==
  /\ stage[n] = "posted"
  /\ verdict[n] = "authorized"
  /\ stage' = [stage EXCEPT ![n] = "proved"]
  /\ UNCHANGED <<sent, verdict>>

Next == \E n \in Notes : Intend(n) \/ Post(n) \/ Judge(n) \/ Prove(n)

Spec == Init /\ [][Next]_vars
=============================================================================
