-------------------------- MODULE CredentialRegister --------------------------
(***************************************************************************)
(* What the operator commands promise of one TRADE_EXECUTION credential,   *)
(* as if each were a single step: the payload is provided once, each later *)
(* one brings another key than the one it replaces and must be judged      *)
(* anew, no payload changes once stored, VALID is said only of a key that  *)
(* passed a probe, and only an existing credential is held                 *)
(* (src/account_provisioning/).                                            *)
(***************************************************************************)
EXTENDS Naturals

CONSTANTS Keys, NoKey, Executors, MaxEnvelopes

VARIABLES
  payload,   \* number of the payload, 0 for none
  keyOf,     \* the api key of each payload
  standing,  \* the verdict on it
  passed,    \* payloads that passed a probe
  holders    \* the executors bound to the credential

vars == <<payload, keyOf, standing, passed, holders>>

Init ==
  /\ payload = 0
  /\ keyOf = [e \in 1..MaxEnvelopes |-> NoKey]
  /\ standing = "UNVALIDATED"
  /\ passed = {}
  /\ holders = {}

\* A new payload, on which nothing has been said.
Put(k) ==
  /\ payload' = payload + 1
  /\ keyOf' = [keyOf EXCEPT ![payload + 1] = k]
  /\ standing' = "UNVALIDATED"
  /\ UNCHANGED passed

Provide(k, x) ==
  /\ payload = 0
  /\ Put(k)
  /\ holders' = holders \cup {x}

Replace(k) ==
  /\ payload # 0
  /\ keyOf[payload] # k
  /\ Put(k)
  /\ UNCHANGED holders

\* Any stored payload may be probed, also one that was replaced meanwhile.
Pass(e) ==
  /\ passed' = passed \cup {e}
  /\ UNCHANGED <<payload, keyOf, standing, holders>>

Judge(s) ==
  /\ payload # 0
  /\ s = "VALID" => \E e \in passed : keyOf[e] = keyOf[payload]
  /\ standing' = s
  /\ UNCHANGED <<payload, keyOf, passed, holders>>

Hold(x) ==
  /\ payload # 0
  /\ holders' = holders \cup {x}
  /\ UNCHANGED <<payload, keyOf, standing, passed>>

Next ==
  \/ \E k \in Keys : (\E x \in Executors : Provide(k, x)) \/ Replace(k)
  \/ \E e \in 1..payload : Pass(e)
  \/ \E s \in {"VALID", "INVALID"} : Judge(s)
  \/ \E x \in Executors : Hold(x)

Spec == Init /\ [][Next]_vars
=============================================================================
