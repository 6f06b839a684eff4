--------------------------- MODULE TradeCredential ---------------------------
(***************************************************************************)
(* The TRADE_EXECUTION credential of one account at one venue.  Operators  *)
(* provision it, bind executors to it, rotate its payload in place and     *)
(* have the venue validate it, each command with a connection of its own   *)
(* (src/account_provisioning/trade_execution_provisioning_v1.py,           *)
(* existing_trade_execution_credential_binding_v1.py,                      *)
(* trade_execution_credential_rotation_v1.py and                           *)
(* trade_execution_credential_revalidation_v1.py), while the two executors *)
(* resolve their binding on one connection and load the payload through    *)
(* another (src/executor/execution_credential_scope_v1.py,                 *)
(* bitvavo_order_adapter_v1.py, manual_execution_bitvavo_order_adapter_    *)
(* v1.py).                                                                 *)
(*                                                                         *)
(* The database reads are those of REPEATABLE READ: a transaction sees the *)
(* rows of its first read, an UPDATE the latest committed ones.  No code   *)
(* ends a credential or a binding, and the account stays enabled.  An      *)
(* envelope is encrypted with a fresh nonce, so no two are equal; they are *)
(* numbered in the order in which they are stored.  The fingerprint of a   *)
(* payload depends on its api key only, not on its secret.                 *)
(***************************************************************************)
EXTENDS Naturals

CONSTANTS
  Operators,   \* invocations of the operator commands
  Keys,        \* api keys
  NoKey,       \* an envelope that does not exist
  MaxEnvelopes \* bound: payloads stored

\* SUPPORTED_EXECUTOR_BINDING_TUPLES.
Executors == {"manual", "shared"}

Envelopes == 1..MaxEnvelopes

\* UNVALIDATED, VALID_TRADE_EXECUTION and INVALID_CREDENTIALS.
Verdicts == {"VALID", "INVALID"}
States == {"UNVALIDATED"} \cup Verdicts

ASSUME BoundAssumption == MaxEnvelopes \in Nat
ASSUME KeysAssumption == NoKey \notin Keys

VARIABLES
  current,   \* encrypted_envelope of the ACTIVE row, 0 if there is no row
  state,     \* its validation_state
  key,       \* the api key in each envelope
  bound,     \* executors with an ACTIVE executor_credential_binding
  base,      \* history: the envelope an operator had read to replace it
  accepted,  \* history: envelopes whose payload passed a probe
  pc,        \* the next step of each operator
  seen,      \* the envelope in the view of its transaction
  offered,   \* the api key it entered
  grantee,   \* the executor it binds
  verdict,   \* the result of its probe
  run,       \* the next step of a cycle of each executor
  viewed,    \* the envelope in the view of its connection, 0 before a read
  checked,   \* the envelope of the row that its scope check has read
  used,      \* the envelope its client was built from, 0 if none
  rotated    \* history: the payload was replaced during the cycle

row == <<current, state, key, bound, base, accepted>>
operator == <<pc, seen, offered, grantee, verdict>>
cycle == <<run, viewed, checked, used, rotated>>
vars == <<row, operator, cycle>>

OperatorSteps == {"idle", "insert", "rotate", "probe", "record"}
RunSteps == {"idle", "open", "load", "done"}

\* Every variable has its type, and a bound executor has a credential.
TypeOK ==
  /\ current \in 0..MaxEnvelopes
  /\ state \in States
  /\ key \in [Envelopes -> Keys \cup {NoKey}]
  /\ bound \in SUBSET Executors
  /\ base \in [Envelopes -> 0..MaxEnvelopes]
  /\ accepted \in SUBSET Envelopes
  /\ pc \in [Operators -> OperatorSteps]
  /\ seen \in [Operators -> 0..MaxEnvelopes]
  /\ offered \in [Operators -> Keys \cup {NoKey}]
  /\ grantee \in [Operators -> Executors]
  /\ verdict \in [Operators -> Verdicts]
  /\ run \in [Executors -> RunSteps]
  /\ viewed \in [Executors -> 0..MaxEnvelopes]
  /\ checked \in [Executors -> 0..MaxEnvelopes]
  /\ used \in [Executors -> 0..MaxEnvelopes]
  /\ rotated \in [Executors -> BOOLEAN]
  /\ bound # {} => current # 0

Init ==
  /\ current = 0 /\ state = "UNVALIDATED"
  /\ key = [e \in Envelopes |-> NoKey]
  /\ bound = {}
  /\ base = [e \in Envelopes |-> 0]
  /\ accepted = {}
  /\ pc = [p \in Operators |-> "idle"]
  /\ seen = [p \in Operators |-> 0]
  /\ offered = [p \in Operators |-> NoKey]
  /\ grantee = [p \in Operators |-> "manual"]
  /\ verdict = [p \in Operators |-> "INVALID"]
  /\ run = [x \in Executors |-> "idle"]
  /\ viewed = [x \in Executors |-> 0]
  /\ checked = [x \in Executors |-> 0]
  /\ used = [x \in Executors |-> 0]
  /\ rotated = [x \in Executors |-> FALSE]

-----------------------------------------------------------------------------
(* The operator commands.  A command whose checks fail, or that finds all  *)
(* in place, rolls back what it read and is no step.                       *)

\* The first read fixes the view; the command goes on to step s.
Begin(p, s) ==
  /\ pc[p] = "idle"
  /\ pc' = [pc EXCEPT ![p] = s]
  /\ seen' = [seen EXCEPT ![p] = current]
  /\ UNCHANGED <<verdict, row, cycle>>

\* The transaction is committed or rolled back.
End(p) ==
  /\ pc' = [pc EXCEPT ![p] = "idle"]
  /\ seen' = [seen EXCEPT ![p] = 0]
  /\ offered' = [offered EXCEPT ![p] = NoKey]
  /\ grantee' = [grantee EXCEPT ![p] = "manual"]
  /\ verdict' = [verdict EXCEPT ![p] = "INVALID"]

\* A payload with the operator's key becomes that of the row.
Store(p) ==
  /\ current < MaxEnvelopes
  /\ current' = current + 1
  /\ state' = "UNVALIDATED"
  /\ key' = [key EXCEPT ![current'] = offered[p]]
  /\ base' = [base EXCEPT ![current'] = seen[p]]
  /\ rotated' = [x \in Executors |-> run[x] # "idle"]
  /\ UNCHANGED <<accepted, run, viewed, checked, used>>

\* provision_trade_execution_credential: no credential yet, or one with the
\* same key; the executor is not bound.
Provision(p, k, x) ==
  /\ current # 0 => key[current] = k
  /\ x \notin bound
  /\ Begin(p, "insert")
  /\ offered' = [offered EXCEPT ![p] = k]
  /\ grantee' = [grantee EXCEPT ![p] = x]

\* bind_existing_trade_execution_credential.
Bind(p, x) ==
  /\ current # 0 /\ state = "VALID"
  /\ x \notin bound
  /\ Begin(p, "insert")
  /\ grantee' = [grantee EXCEPT ![p] = x]
  /\ UNCHANGED offered

\* The inserts and the commit.  Where the view shows no credential and there
\* is one by now, the unique index aborts the transaction; where there is the
\* binding by now, it is aborted or asks for what is there.
Insert(p) ==
  /\ pc[p] = "insert"
  /\ \/ /\ seen[p] = 0 /\ current = 0
        /\ Store(p)
        /\ bound' = bound \cup {grantee[p]}
     \/ /\ seen[p] = 0 /\ current # 0
        /\ UNCHANGED <<row, cycle>>
     \/ /\ seen[p] # 0
        /\ bound' = bound \cup {grantee[p]}
        /\ UNCHANGED <<current, state, key, base, accepted, cycle>>
  /\ End(p)

\* rotate_trade_execution_credential_v1: another key than the current one.
Rotate(p, k) ==
  /\ current # 0 /\ key[current] # k
  /\ Begin(p, "rotate")
  /\ offered' = [offered EXCEPT ![p] = k]
  /\ UNCHANGED grantee

\* Mutant: the UPDATE compares nothing.
RotateAnything(p) ==
  /\ pc[p] = "rotate"
  /\ Store(p) /\ UNCHANGED bound
  /\ End(p)

\* Mutant: the UPDATE compares the fingerprint and not the envelope.
RotateExactByFingerprint(p) ==
  /\ pc[p] = "rotate"
  /\ IF key[current] = key[seen[p]]
     THEN Store(p) /\ UNCHANGED bound
     ELSE UNCHANGED <<row, cycle>>
  /\ End(p)

\* rotate_exact, whose UPDATE compares the envelope, and the commit.
RotateExact(p) ==
  /\ pc[p] = "rotate"
  /\ IF current = seen[p]
     THEN Store(p) /\ UNCHANGED bound
     ELSE UNCHANGED <<row, cycle>>
  /\ End(p)

\* revalidate: a VALID credential is not probed again.
Revalidate(p) ==
  /\ current # 0 /\ state # "VALID"
  /\ Begin(p, "probe")
  /\ UNCHANGED <<offered, grantee>>

\* Mutant: an outage of the venue is a result.
ProbeOutage(p) ==
  /\ pc[p] = "probe"
  /\ pc' = [pc EXCEPT ![p] = "record"]
  /\ \E v \in Verdicts \cup {"UNAVAILABLE"} : verdict' = [verdict EXCEPT ![p] = v]
  /\ accepted' = IF verdict'[p] = "VALID" THEN accepted \cup {seen[p]} ELSE accepted
  /\ UNCHANGED <<seen, offered, grantee, current, state, key, bound, base, cycle>>

\* get_balance and get_open_orders with the payload in view.  No row is
\* locked meanwhile; an outage ends the command (GiveUp).
Probe(p) ==
  /\ pc[p] = "probe"
  /\ pc' = [pc EXCEPT ![p] = "record"]
  /\ \E v \in Verdicts : verdict' = [verdict EXCEPT ![p] = v]
  /\ accepted' = IF verdict'[p] = "VALID" THEN accepted \cup {seen[p]} ELSE accepted
  /\ UNCHANGED <<seen, offered, grantee, current, state, key, bound, base, cycle>>

\* Mutant: the UPDATE compares the credential's id only.
RecordById(p) ==
  /\ pc[p] = "record"
  /\ state' = verdict[p]
  /\ UNCHANGED <<current, key, bound, base, accepted, cycle>>
  /\ End(p)

\* update_validation_state, whose UPDATE compares the fingerprint, and the
\* commit.  (Writing what is there already counts as no row and is blocked.)
Record(p) ==
  /\ pc[p] = "record"
  /\ state' = IF key[current] = key[seen[p]] THEN verdict[p] ELSE state
  /\ UNCHANGED <<current, key, bound, base, accepted, cycle>>
  /\ End(p)

\* The command is killed, its connection breaks, or the probe is unavailable.
GiveUp(p) ==
  /\ pc[p] # "idle"
  /\ End(p)
  /\ UNCHANGED <<row, cycle>>

-----------------------------------------------------------------------------
(* One cycle of an executor, working on handoffs of its binding.           *)

\* The shared executor reads the first handoff's legs through the connection
\* of its adapters, which fixes what that connection sees; the manual one
\* has opened its connection and read nothing.
Open(x) ==
  /\ run[x] = "idle"
  /\ x \in bound
  /\ run' = [run EXCEPT ![x] = "open"]
  /\ viewed' = [viewed EXCEPT ![x] = IF x = "shared" THEN current ELSE 0]
  /\ rotated' = [rotated EXCEPT ![x] = FALSE]
  /\ UNCHANGED <<checked, used, row, operator>>

\* Mutant: the scope resolver does not ask for the validation state.
ResolveActive(x) ==
  /\ run[x] = "open"
  /\ run' = [run EXCEPT ![x] = "load"]
  /\ checked' = [checked EXCEPT ![x] = current]
  /\ used' = [used EXCEPT ![x] = 0]
  /\ UNCHANGED <<viewed, rotated, row, operator>>

\* ExecutorCredentialScopeRepository.resolve, on a connection of its own: the
\* shared executor before each order or lookup, the manual one once.
Resolve(x) ==
  /\ run[x] = "open"
  /\ state = "VALID"
  /\ run' = [run EXCEPT ![x] = "load"]
  /\ checked' = [checked EXCEPT ![x] = current]
  /\ used' = [used EXCEPT ![x] = 0]
  /\ UNCHANGED <<viewed, rotated, row, operator>>

\* load_account_credential_by_id and the client that is built from it: by the
\* shared executor for one operation, by the manual one for the whole ladder.
Load(x) ==
  /\ run[x] = "load"
  /\ run' = [run EXCEPT ![x] = IF x = "shared" THEN "open" ELSE "done"]
  /\ viewed' = [viewed EXCEPT ![x] = IF @ = 0 THEN current ELSE @]
  /\ used' = [used EXCEPT ![x] = viewed'[x]]
  /\ UNCHANGED <<checked, rotated, row, operator>>

\* The cycle ends or dies, and its connection with it.
Close(x) ==
  /\ run[x] # "idle"
  /\ run' = [run EXCEPT ![x] = "idle"]
  /\ viewed' = [viewed EXCEPT ![x] = 0]
  /\ checked' = [checked EXCEPT ![x] = 0]
  /\ used' = [used EXCEPT ![x] = 0]
  /\ rotated' = [rotated EXCEPT ![x] = FALSE]
  /\ UNCHANGED <<row, operator>>

Next ==
  \/ \E p \in Operators :
       \/ \E k \in Keys, x \in Executors : Provision(p, k, x)
       \/ \E x \in Executors : Bind(p, x)
       \/ \E k \in Keys : Rotate(p, k)
       \/ Insert(p) \/ RotateExact(p)
       \/ Revalidate(p) \/ Probe(p) \/ Record(p) \/ GiveUp(p)
  \/ \E x \in Executors : Open(x) \/ Resolve(x) \/ Load(x) \/ Close(x)

Spec == Init /\ [][Next]_vars

-----------------------------------------------------------------------------
(* What holds.                                                             *)

\* The venue accepted a payload with the api key of envelope e; the very
\* payload, if its key was entered once.
Probed(e) == \E a \in accepted : key[a] = key[e]

\* A credential says VALID_TRADE_EXECUTION only of a key that the venue has
\* accepted, whatever rotations were committed while a probe was under way
\* (the fingerprint in update_validation_state).
ValidWasProbed == state = "VALID" => Probed(current)

\* Every stored payload replaced the one its operator had seen: of two
\* rotations of the same payload one is blocked, also where a third has put
\* the old key back (the envelope in rotate_exact), and no two first
\* provisions both succeed.
NoRotationLost == \A e \in 1..current : base[e] = e - 1

\* A cycle during which nobody rotates builds its clients from the payload
\* that its scope check has vouched for, and that the venue had accepted.
\* (Where somebody does, the shared executor goes on with the old payload
\* although it checks the new one, and the manual one may load a payload
\* that nobody has validated.)
ClientIsVouched ==
  \A x \in Executors :
    used[x] # 0 /\ ~rotated[x] => used[x] = checked[x] /\ Probed(used[x])

Register == INSTANCE CredentialRegister WITH
  payload <- current, keyOf <- key, standing <- state, passed <- accepted,
  holders <- bound

\* Whatever other commands are committed between the first read of a command
\* and its commit, and wherever it dies: it is as if provisioning, binding,
\* rotating and validating were single steps.  A payload that is stored is
\* never changed, and a rotation brings another key than the one it replaces.
ImplementsRegister == Register!Spec
=============================================================================
