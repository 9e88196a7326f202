---------------------------- MODULE OneSignature ----------------------------
(***************************************************************************)
(* What the signature of an NF-e promises, whoever asks for it at the same *)
(* time: a version is bound to a number and a key of its own, once and for *)
(* good; it is signed once; only what was signed with that very key is     *)
(* sent, once; and what was sent is never signed again.                    *)
(***************************************************************************)
EXTENDS Integers

CONSTANTS Versions, Numbers, Keys, NoKey

VARIABLES stage,   \* how far the issuance of a version has come
          number,  \* the number it is bound to
          key,     \* the key it is bound to
          seal     \* the key its XML was signed with

vars == <<stage, number, key, seal>>

Init ==
  /\ stage = [v \in Versions |-> "unbound"]
  /\ number = [v \in Versions |-> 0]
  /\ key = [v \in Versions |-> NoKey]
  /\ seal = [v \in Versions |-> NoKey]

\* The identity of version v, which no other version has.
Identify(v) ==
  \E n \in Numbers, k \in Keys :
    /\ \A u \in Versions : stage[u] # "unbound" => number[u] # n /\ key[u] # k
    /\ number' = [number EXCEPT ![v] = n]
    /\ key' = [key EXCEPT ![v] = k]

Seal(v, k) ==
  /\ seal[v] = NoKey /\ k # NoKey
  /\ stage' = [stage EXCEPT ![v] = "signed"]
  /\ seal' = [seal EXCEPT ![v] = k]

Bind(v) ==
  /\ stage[v] = "unbound"
  /\ Identify(v)
  /\ stage' = [stage EXCEPT ![v] = "bound"]
  /\ UNCHANGED seal

BindAndSign(v) ==
  /\ stage[v] = "unbound"
  /\ Identify(v)
  /\ Seal(v, key'[v])

Sign(v) ==
  /\ stage[v] = "bound"
  /\ \E k \in Keys : Seal(v, k)
  /\ UNCHANGED <<number, key>>

Send(v) ==
  /\ stage[v] = "signed"
  /\ seal[v] = key[v]
  /\ \A u \in Versions : u > v => seal[u] = NoKey
  /\ stage' = [stage EXCEPT ![v] = "sent"]
  /\ UNCHANGED <<number, key, seal>>

Judge(v) ==
  /\ stage[v] = "sent"
  /\ \E verdict \in {"authorized", "rejected"} : stage' = [stage EXCEPT ![v] = verdict]
  /\ UNCHANGED <<number, key, seal>>

Next == \E v \in Versions : Bind(v) \/ BindAndSign(v) \/ Sign(v) \/ Send(v) \/ Judge(v)

Spec == Init /\ [][Next]_vars
=============================================================================
