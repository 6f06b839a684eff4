------------------------ MODULE TradeCredentialProofs ------------------------
(***************************************************************************)
(* Proofs about the TRADE_EXECUTION credential, for any operators, any     *)
(* api keys and any number of payloads: type correctness, that VALID is    *)
(* said of a key the venue accepted, that no rotation is lost, and that a  *)
(* cycle without a rotation uses the payload that was vouched for.         *)
(***************************************************************************)
EXTENDS TradeCredential, TLAPS

-----------------------------------------------------------------------------
(* The inductive invariant.                                                *)

\* Payloads have keys, and what was accepted was stored.
RowInv ==
  /\ \A e \in 1..current : key[e] \in Keys
  /\ accepted \subseteq 1..current
  /\ ValidWasProbed
  /\ NoRotationLost

\* What an operator in the middle of its command has seen and entered.
OperatorInv ==
  \A p \in Operators :
    /\ seen[p] <= current
    /\ pc[p] \in {"rotate", "probe", "record"} => seen[p] # 0
    /\ pc[p] = "rotate" \/ (pc[p] = "insert" /\ seen[p] = 0) => offered[p] \in Keys
    /\ pc[p] = "record" /\ verdict[p] = "VALID" => seen[p] \in accepted

\* What a cycle that saw no rotation has read.
Quiet(x) ==
  /\ viewed[x] \in {0, current}
  /\ x = "shared" /\ run[x] # "idle" => viewed[x] = current
  /\ run[x] = "load" => checked[x] = current /\ Probed(current)
  /\ used[x] # 0 => used[x] = current /\ checked[x] = current /\ Probed(current)

CycleInv ==
  \A x \in Executors :
    /\ run[x] # "idle" => current # 0
    /\ run[x] = "idle" => viewed[x] = 0 /\ used[x] = 0
    /\ ~rotated[x] => Quiet(x)

IInv == TypeOK /\ RowInv /\ OperatorInv /\ CycleInv

LEMMA InitInv == Init => IInv
<1> SUFFICES ASSUME Init PROVE IInv
  OBVIOUS
<1> USE BoundAssumption
<1>1. TypeOK
  <2>1. /\ current \in 0..MaxEnvelopes /\ state \in States
        /\ key \in [Envelopes -> Keys \cup {NoKey}]
        /\ base \in [Envelopes -> 0..MaxEnvelopes]
        /\ bound = {} /\ bound \in SUBSET Executors /\ accepted \in SUBSET Envelopes
    BY DEF Init, States
  <2>2. /\ pc \in [Operators -> OperatorSteps]
        /\ seen \in [Operators -> 0..MaxEnvelopes]
        /\ offered \in [Operators -> Keys \cup {NoKey}]
        /\ grantee \in [Operators -> Executors]
        /\ verdict \in [Operators -> Verdicts]
    BY DEF Init, OperatorSteps, Executors, Verdicts
  <2>3. /\ run \in [Executors -> RunSteps]
        /\ viewed \in [Executors -> 0..MaxEnvelopes]
        /\ checked \in [Executors -> 0..MaxEnvelopes]
        /\ used \in [Executors -> 0..MaxEnvelopes]
        /\ rotated \in [Executors -> BOOLEAN]
    BY DEF Init, RunSteps
  <2> QED
    BY <2>1, <2>2, <2>3 DEF TypeOK
<1>2. RowInv
  BY DEF Init, RowInv, ValidWasProbed, NoRotationLost
<1>3. OperatorInv
  <2>1. ASSUME NEW p \in Operators PROVE seen[p] = 0 /\ current = 0 /\ pc[p] = "idle"
    BY DEF Init
  <2>2. 0 <= 0
    OBVIOUS
  <2> QED
    BY <2>1, <2>2, Zenon DEF OperatorInv
<1>4. CycleInv
  <2> SUFFICES ASSUME NEW x \in Executors
               PROVE  run[x] = "idle" /\ viewed[x] = 0 /\ used[x] = 0 /\ current = 0
    BY DEF CycleInv, Quiet
  <2> QED
    BY DEF Init
<1> QED
  BY <1>1, <1>2, <1>3, <1>4 DEF IInv

-----------------------------------------------------------------------------
(* Parts of a step.                                                        *)

\* An operator of which only the local state is reset.
LEMMA EndTypes ==
  ASSUME TypeOK, NEW p \in Operators, End(p)
  PROVE  /\ pc' \in [Operators -> OperatorSteps]
         /\ seen' \in [Operators -> 0..MaxEnvelopes]
         /\ offered' \in [Operators -> Keys \cup {NoKey}]
         /\ grantee' \in [Operators -> Executors]
         /\ verdict' \in [Operators -> Verdicts]
BY BoundAssumption DEF TypeOK, End, OperatorSteps, Executors, Verdicts

\* The end of a command leaves the others as they are; more may be stored and
\* accepted meanwhile.
LEMMA EndOperators ==
  ASSUME TypeOK, OperatorInv, NEW p \in Operators, End(p),
         current' \in Nat, current <= current', accepted \subseteq accepted'
  PROVE  OperatorInv'
<1> SUFFICES ASSUME NEW q \in Operators
             PROVE  (/\ seen[q] <= current
                     /\ pc[q] \in {"rotate", "probe", "record"} => seen[q] # 0
                     /\ pc[q] = "rotate" \/ (pc[q] = "insert" /\ seen[q] = 0)
                          => offered[q] \in Keys
                     /\ pc[q] = "record" /\ verdict[q] = "VALID" => seen[q] \in accepted)'
  BY DEF OperatorInv
<1>1. CASE q = p
  BY <1>1, BoundAssumption DEF TypeOK, End
<1>2. CASE q # p
  <2>1. /\ pc'[q] = pc[q] /\ seen'[q] = seen[q]
        /\ offered'[q] = offered[q] /\ verdict'[q] = verdict[q]
    BY <1>2 DEF TypeOK, End
  <2>2. seen[q] \in Nat /\ current \in Nat
    BY BoundAssumption DEF TypeOK
  <2> QED
    BY <2>1, <2>2 DEF OperatorInv
<1> QED
  BY <1>1, <1>2

\* What was probed remains probed while keys stay and acceptances accumulate.
LEMMA ProbedStays ==
  ASSUME NEW e, Probed(e), key' = key, accepted \subseteq accepted'
  PROVE  (\E a \in accepted' : key'[a] = key'[e])
BY DEF Probed

\* A cycle does not notice an acceptance or a binding.
LEMMA CyclesStay ==
  ASSUME CycleInv, UNCHANGED cycle, current' = current, key' = key,
         accepted \subseteq accepted'
  PROVE  CycleInv'
<1>1. Probed(current) => Probed(current)'
  BY ProbedStays DEF Probed
<1>2. UNCHANGED <<run, viewed, checked, used, rotated>>
  BY DEF cycle
<1>3. ASSUME NEW x \in Executors PROVE Quiet(x) => Quiet(x)'
  BY <1>1, <1>2 DEF Quiet
<1> QED
  BY <1>2, <1>3 DEF CycleInv

\* The start of a command.
LEMMA Begins ==
  ASSUME IInv, NEW p \in Operators, NEW s \in OperatorSteps, Begin(p, s),
         offered' \in [Operators -> Keys \cup {NoKey}],
         grantee' \in [Operators -> Executors],
         \A q \in Operators : q # p => offered'[q] = offered[q],
         s # "record",
         s # "insert" => current # 0,
         s = "rotate" \/ (s = "insert" /\ current = 0) => offered'[p] \in Keys
  PROVE  IInv'
<1> USE DEF IInv
<1>1. UNCHANGED <<current, state, key, bound, base, accepted, run, viewed, checked,
                  used, rotated, verdict>>
  BY DEF Begin, row, cycle
<1>2. TypeOK'
  <2>1. pc' \in [Operators -> OperatorSteps] /\ seen' \in [Operators -> 0..MaxEnvelopes]
    BY DEF TypeOK, Begin
  <2> QED
    BY <1>1, <2>1 DEF TypeOK
<1>3. RowInv'
  BY <1>1 DEF RowInv, ValidWasProbed, NoRotationLost, Probed
<1>4. OperatorInv'
  <2> SUFFICES ASSUME NEW q \in Operators
               PROVE  (/\ seen[q] <= current
                       /\ pc[q] \in {"rotate", "probe", "record"} => seen[q] # 0
                       /\ pc[q] = "rotate" \/ (pc[q] = "insert" /\ seen[q] = 0)
                            => offered[q] \in Keys
                       /\ pc[q] = "record" /\ verdict[q] = "VALID" => seen[q] \in accepted)'
    BY DEF OperatorInv
  <2>1. CASE q = p
    <3>1. pc'[q] = s /\ seen'[q] = current /\ current \in Nat
      BY <2>1, BoundAssumption DEF TypeOK, Begin
    <3> QED
      BY <1>1, <2>1, <3>1 DEF OperatorSteps
  <2>2. CASE q # p
    <3>1. pc'[q] = pc[q] /\ seen'[q] = seen[q] /\ offered'[q] = offered[q]
      BY <2>2 DEF TypeOK, Begin
    <3> QED
      BY <1>1, <3>1 DEF OperatorInv
  <2> QED
    BY <2>1, <2>2
<1>5. CycleInv'
  BY <1>1, CyclesStay DEF cycle
<1> QED
  BY <1>2, <1>3, <1>4, <1>5

\* A payload that replaces the one in view is stored.
LEMMA Stores ==
  ASSUME IInv, NEW p \in Operators, Store(p), End(p), seen[p] = current,
         offered[p] \in Keys, bound' \in SUBSET Executors
  PROVE  IInv'
<1> USE DEF IInv
<1>1. /\ current \in Nat /\ current' = current + 1 /\ current' \in 1..MaxEnvelopes
      /\ current' \in Nat /\ current' # 0
  BY BoundAssumption DEF TypeOK, Store
<1>2. /\ key' \in [Envelopes -> Keys \cup {NoKey}]
      /\ base' \in [Envelopes -> 0..MaxEnvelopes]
      /\ key'[current'] = offered[p] /\ base'[current'] = current
      /\ \A e \in 1..current : key'[e] = key[e] /\ base'[e] = base[e]
  BY <1>1, BoundAssumption DEF TypeOK, Store, Envelopes
<1>3. TypeOK'
  <2>1. /\ pc' \in [Operators -> OperatorSteps]
        /\ seen' \in [Operators -> 0..MaxEnvelopes]
        /\ offered' \in [Operators -> Keys \cup {NoKey}]
        /\ grantee' \in [Operators -> Executors]
        /\ verdict' \in [Operators -> Verdicts]
    BY EndTypes
  <2>2. state' \in States /\ accepted' \in SUBSET Envelopes
    BY DEF TypeOK, Store, States
  <2>3. /\ run' \in [Executors -> RunSteps]
        /\ viewed' \in [Executors -> 0..MaxEnvelopes]
        /\ checked' \in [Executors -> 0..MaxEnvelopes]
        /\ used' \in [Executors -> 0..MaxEnvelopes]
        /\ rotated' \in [Executors -> BOOLEAN]
    BY DEF TypeOK, Store
  <2>4. current' \in 0..MaxEnvelopes
    BY <1>1
  <2> QED
    BY <1>1, <1>2, <2>1, <2>2, <2>3, <2>4 DEF TypeOK
<1>4. RowInv'
  <2>1. 1..current' = 1..current \cup {current'}
    BY <1>1
  <2>2. \A e \in 1..current' : key'[e] \in Keys
    BY <1>2, <2>1 DEF RowInv
  <2>3. accepted' \subseteq 1..current'
    BY <2>1 DEF RowInv, Store
  <2>4. ValidWasProbed'
    BY DEF Store, ValidWasProbed
  <2>5. \A e \in 1..current' : base'[e] = e - 1
    BY <1>1, <1>2, <2>1 DEF RowInv, NoRotationLost
  <2> QED
    BY <2>2, <2>3, <2>4, <2>5 DEF RowInv, NoRotationLost
<1>5. OperatorInv'
  <2>1. accepted \subseteq accepted' /\ current <= current'
    BY <1>1 DEF Store
  <2> QED
    BY <1>1, <2>1, EndOperators
<1>6. CycleInv'
  <2> SUFFICES ASSUME NEW x \in Executors
               PROVE  (/\ run[x] # "idle" => current # 0
                       /\ run[x] = "idle" => viewed[x] = 0 /\ used[x] = 0
                       /\ ~rotated[x] => Quiet(x))'
    BY DEF CycleInv
  <2>1. UNCHANGED <<run, viewed, checked, used>> /\ rotated'[x] = (run[x] # "idle")
    BY DEF Store
  <2>2. run[x] = "idle" => viewed[x] = 0 /\ used[x] = 0
    BY DEF CycleInv
  <2>3. CASE run[x] = "idle"
    BY <2>1, <2>2, <2>3 DEF Quiet
  <2>4. CASE run[x] # "idle"
    BY <1>1, <2>1, <2>4
  <2> QED
    BY <2>3, <2>4
<1> QED
  BY <1>3, <1>4, <1>5, <1>6

\* A command that ends and leaves payloads and cycles alone.
LEMMA Ends ==
  ASSUME IInv, NEW p \in Operators, End(p),
         UNCHANGED <<current, key, base, accepted, cycle>>,
         state' \in States, state' = "VALID" => Probed(current),
         bound' \in SUBSET Executors, bound' # {} => current # 0
  PROVE  IInv'
<1> USE DEF IInv
<1>1. UNCHANGED <<run, viewed, checked, used, rotated>>
  BY DEF cycle
<1>2. TypeOK'
  <2>1. /\ pc' \in [Operators -> OperatorSteps]
        /\ seen' \in [Operators -> 0..MaxEnvelopes]
        /\ offered' \in [Operators -> Keys \cup {NoKey}]
        /\ grantee' \in [Operators -> Executors]
        /\ verdict' \in [Operators -> Verdicts]
    BY EndTypes
  <2> QED
    BY <1>1, <2>1 DEF TypeOK
<1>3. RowInv'
  BY DEF RowInv, ValidWasProbed, NoRotationLost, Probed
<1>4. OperatorInv'
  BY EndOperators, BoundAssumption DEF TypeOK
<1>5. CycleInv'
  BY CyclesStay
<1> QED
  BY <1>2, <1>3, <1>4, <1>5

\* A step of one executor's cycle.
LEMMA Cycles ==
  ASSUME IInv, NEW x \in Executors, UNCHANGED <<row, operator>>,
         run' \in [Executors -> RunSteps],
         viewed' \in [Executors -> 0..MaxEnvelopes],
         checked' \in [Executors -> 0..MaxEnvelopes],
         used' \in [Executors -> 0..MaxEnvelopes],
         rotated' \in [Executors -> BOOLEAN],
         \A y \in Executors : y # x =>
           /\ run'[y] = run[y] /\ viewed'[y] = viewed[y] /\ checked'[y] = checked[y]
           /\ used'[y] = used[y] /\ rotated'[y] = rotated[y],
         run'[x] # "idle" => current # 0,
         run'[x] = "idle" => viewed'[x] = 0 /\ used'[x] = 0,
         ~rotated'[x] => Quiet(x)'
  PROVE  IInv'
<1> USE DEF IInv
<1>1. UNCHANGED <<current, state, key, bound, base, accepted, pc, seen, offered,
                  grantee, verdict>>
  BY DEF row, operator
<1>2. TypeOK'
  BY <1>1 DEF TypeOK
<1>3. RowInv'
  BY <1>1 DEF RowInv, ValidWasProbed, NoRotationLost, Probed
<1>4. OperatorInv'
  BY <1>1 DEF OperatorInv
<1>5. CycleInv'
  <2> SUFFICES ASSUME NEW y \in Executors
               PROVE  (/\ run[y] # "idle" => current # 0
                       /\ run[y] = "idle" => viewed[y] = 0 /\ used[y] = 0
                       /\ ~rotated[y] => Quiet(y))'
    BY DEF CycleInv
  <2>1. CASE y = x
    BY <1>1, <2>1
  <2>2. CASE y # x
    <3>1. /\ run'[y] = run[y] /\ viewed'[y] = viewed[y] /\ checked'[y] = checked[y]
          /\ used'[y] = used[y] /\ rotated'[y] = rotated[y]
      BY <2>2
    <3>2. Quiet(y) => Quiet(y)'
      BY <1>1, <3>1 DEF Quiet, Probed
    <3> QED
      BY <1>1, <3>1, <3>2 DEF CycleInv
  <2> QED
    BY <2>1, <2>2
<1> QED
  BY <1>2, <1>3, <1>4, <1>5

-----------------------------------------------------------------------------
(* Every step preserves the invariant.                                     *)

LEMMA StepInv == IInv /\ [Next]_vars => IInv'
<1> SUFFICES ASSUME IInv, [Next]_vars PROVE IInv'
  OBVIOUS
<1>1. ASSUME NEW p \in Operators, NEW k \in Keys, NEW x \in Executors, Provision(p, k, x)
      PROVE  IInv'
  <2>1. /\ offered' \in [Operators -> Keys \cup {NoKey}]
        /\ grantee' \in [Operators -> Executors]
        /\ \A q \in Operators : q # p => offered'[q] = offered[q]
        /\ offered'[p] \in Keys
    BY <1>1 DEF IInv, TypeOK, Provision
  <2> QED
    BY <1>1, <2>1, Begins DEF Provision, OperatorSteps
<1>2. ASSUME NEW p \in Operators, NEW x \in Executors, Bind(p, x)
      PROVE  IInv'
  <2>1. /\ offered' \in [Operators -> Keys \cup {NoKey}]
        /\ grantee' \in [Operators -> Executors]
        /\ \A q \in Operators : q # p => offered'[q] = offered[q]
    BY <1>2 DEF IInv, TypeOK, Bind
  <2> QED
    BY <1>2, <2>1, Begins DEF Bind, OperatorSteps
<1>3. ASSUME NEW p \in Operators, NEW k \in Keys, Rotate(p, k)
      PROVE  IInv'
  <2>1. /\ offered' \in [Operators -> Keys \cup {NoKey}]
        /\ grantee' \in [Operators -> Executors]
        /\ \A q \in Operators : q # p => offered'[q] = offered[q]
        /\ offered'[p] \in Keys
    BY <1>3 DEF IInv, TypeOK, Rotate
  <2> QED
    BY <1>3, <2>1, Begins DEF Rotate, OperatorSteps
<1>4. ASSUME NEW p \in Operators, Revalidate(p)
      PROVE  IInv'
  <2>1. /\ offered' \in [Operators -> Keys \cup {NoKey}]
        /\ grantee' \in [Operators -> Executors]
        /\ \A q \in Operators : q # p => offered'[q] = offered[q]
    BY <1>4 DEF IInv, TypeOK, Revalidate
  <2> QED
    BY <1>4, <2>1, Begins DEF Revalidate, OperatorSteps
<1>5. ASSUME NEW p \in Operators, Insert(p)
      PROVE  IInv'
  <2>0. bound \cup {grantee[p]} \in SUBSET Executors
    BY DEF IInv, TypeOK
  <2>1. CASE seen[p] = 0 /\ current = 0
    <3>1. offered[p] \in Keys
      BY <1>5, <2>1 DEF IInv, OperatorInv, Insert
    <3> QED
      BY <1>5, <2>0, <2>1, <3>1, Stores DEF Insert
  <2>2. CASE ~(seen[p] = 0 /\ current = 0)
    <3>1. /\ UNCHANGED <<current, state, key, base, accepted, cycle>> /\ End(p)
          /\ \/ bound' = bound
             \/ seen[p] # 0 /\ bound' = bound \cup {grantee[p]}
      BY <1>5, <2>2 DEF Insert, row
    <3>2. seen[p] \in Nat /\ current \in Nat /\ seen[p] <= current
      BY BoundAssumption DEF IInv, TypeOK, OperatorInv
    <3>3. bound' \in SUBSET Executors /\ (bound' # {} => current # 0)
      BY <2>0, <3>1, <3>2 DEF IInv, TypeOK
    <3>4. state' \in States /\ (state' = "VALID" => Probed(current))
      BY <3>1 DEF IInv, TypeOK, RowInv, ValidWasProbed
    <3> QED
      BY <3>1, <3>3, <3>4, Ends
  <2> QED
    BY <2>1, <2>2
<1>6. ASSUME NEW p \in Operators, RotateExact(p)
      PROVE  IInv'
  <2>1. CASE current = seen[p]
    <3>1. offered[p] \in Keys
      BY <1>6 DEF IInv, OperatorInv, RotateExact
    <3>2. Store(p) /\ End(p) /\ bound' \in SUBSET Executors
      BY <1>6, <2>1 DEF IInv, TypeOK, RotateExact
    <3> QED
      BY <2>1, <3>1, <3>2, Stores
  <2>2. CASE current # seen[p]
    <3>1. UNCHANGED <<row, cycle>> /\ End(p)
      BY <1>6, <2>2 DEF RotateExact
    <3> QED
      BY <3>1, Ends DEF row, IInv, TypeOK, RowInv, ValidWasProbed
  <2> QED
    BY <2>1, <2>2
<1>7. ASSUME NEW p \in Operators, Probe(p)
      PROVE  IInv'
  <2>1. UNCHANGED <<seen, offered, grantee, current, state, key, bound, base, cycle>>
    BY <1>7 DEF Probe
  <2>2. seen[p] \in 1..current
    BY <1>7, BoundAssumption DEF IInv, TypeOK, OperatorInv, Probe
  <2>3. accepted \subseteq accepted' /\ accepted' \subseteq 1..current
    BY <1>7, <2>2 DEF IInv, RowInv, Probe
  <2>4. TypeOK'
    <3>1. pc' \in [Operators -> OperatorSteps] /\ verdict' \in [Operators -> Verdicts]
      BY <1>7 DEF IInv, TypeOK, Probe, OperatorSteps
    <3>2. accepted' \in SUBSET Envelopes
      BY <2>3, BoundAssumption DEF IInv, TypeOK, Envelopes
    <3> QED
      BY <2>1, <3>1, <3>2 DEF IInv, TypeOK, cycle
  <2>5. RowInv'
    <3>1. Probed(current) => Probed(current)'
      BY <2>1, <2>3, ProbedStays DEF Probed
    <3> QED
      BY <2>1, <2>3, <3>1 DEF IInv, RowInv, ValidWasProbed, NoRotationLost
  <2>6. OperatorInv'
    <3> SUFFICES ASSUME NEW q \in Operators
                 PROVE  (/\ seen[q] <= current
                         /\ pc[q] \in {"rotate", "probe", "record"} => seen[q] # 0
                         /\ pc[q] = "rotate" \/ (pc[q] = "insert" /\ seen[q] = 0)
                              => offered[q] \in Keys
                         /\ pc[q] = "record" /\ verdict[q] = "VALID"
                              => seen[q] \in accepted)'
      BY DEF OperatorInv
    <3>1. CASE q = p
      <4>1. pc'[q] = "record" /\ (verdict'[q] = "VALID" => seen[q] \in accepted')
        BY <1>7, <3>1 DEF IInv, TypeOK, Probe
      <4> QED
        BY <2>1, <2>2, <3>1, <4>1 DEF IInv, OperatorInv
    <3>2. CASE q # p
      <4>1. pc'[q] = pc[q] /\ verdict'[q] = verdict[q]
        BY <1>7, <3>2 DEF IInv, TypeOK, Probe
      <4> QED
        BY <2>1, <2>3, <4>1 DEF IInv, OperatorInv
    <3> QED
      BY <3>1, <3>2
  <2>7. CycleInv'
    BY <2>1, <2>3, CyclesStay DEF IInv
  <2> QED
    BY <2>4, <2>5, <2>6, <2>7 DEF IInv
<1>8. ASSUME NEW p \in Operators, Record(p)
      PROVE  IInv'
  <2>1. state' \in States
    BY <1>8 DEF IInv, TypeOK, Record, States
  <2>2. state' = "VALID" => Probed(current)
    <3>1. CASE key[current] = key[seen[p]]
      BY <1>8, <3>1 DEF IInv, OperatorInv, Record, Probed
    <3>2. CASE key[current] # key[seen[p]]
      BY <1>8, <3>2 DEF IInv, RowInv, ValidWasProbed, Record
    <3> QED
      BY <3>1, <3>2
  <2> QED
    BY <1>8, <2>1, <2>2, Ends DEF IInv, TypeOK, Record
<1>9. ASSUME NEW p \in Operators, GiveUp(p)
      PROVE  IInv'
  BY <1>9, Ends DEF GiveUp, row, IInv, TypeOK, RowInv, ValidWasProbed
<1>10. ASSUME NEW x \in Executors, Open(x)
       PROVE  IInv'
  <2>1. /\ run[x] = "idle" /\ run'[x] = "open" /\ rotated'[x] = FALSE
        /\ viewed'[x] = (IF x = "shared" THEN current ELSE 0)
        /\ UNCHANGED <<checked, used, row, operator>>
        /\ current # 0
    BY <1>10 DEF Open, IInv, TypeOK
  <2>2. Quiet(x)'
    <3>1. used'[x] = 0 /\ current' = current
      BY <2>1 DEF IInv, CycleInv, row
    <3> QED
      BY <2>1, <3>1 DEF Quiet
  <2>3. /\ run' \in [Executors -> RunSteps]
        /\ viewed' \in [Executors -> 0..MaxEnvelopes]
        /\ rotated' \in [Executors -> BOOLEAN]
        /\ \A y \in Executors : y # x =>
             run'[y] = run[y] /\ viewed'[y] = viewed[y] /\ rotated'[y] = rotated[y]
    BY <1>10, BoundAssumption DEF Open, IInv, TypeOK, RunSteps
  <2>4. checked' \in [Executors -> 0..MaxEnvelopes] /\ used' \in [Executors -> 0..MaxEnvelopes]
    BY <2>1 DEF IInv, TypeOK
  <2> QED
    BY <2>1, <2>2, <2>3, <2>4, Cycles
<1>11. ASSUME NEW x \in Executors, Resolve(x)
       PROVE  IInv'
  <2>1. /\ run[x] = "open" /\ run'[x] = "load" /\ state = "VALID"
        /\ checked'[x] = current /\ used'[x] = 0
        /\ UNCHANGED <<viewed, rotated, row, operator>>
    BY <1>11 DEF Resolve, IInv, TypeOK
  <2>2. current # 0 /\ Probed(current) /\ (~rotated[x] => Quiet(x))
    BY <2>1 DEF IInv, CycleInv, RowInv, ValidWasProbed
  <2>3. current' = current /\ (Probed(current) => Probed(current)')
    BY <2>1 DEF row, Probed
  <2>4. ~rotated'[x] => Quiet(x)'
    BY <2>1, <2>2, <2>3 DEF Quiet
  <2>5. /\ run' \in [Executors -> RunSteps]
        /\ checked' \in [Executors -> 0..MaxEnvelopes]
        /\ used' \in [Executors -> 0..MaxEnvelopes]
        /\ \A y \in Executors : y # x =>
             run'[y] = run[y] /\ checked'[y] = checked[y] /\ used'[y] = used[y]
    BY <1>11, BoundAssumption DEF Resolve, IInv, TypeOK, RunSteps
  <2>6. viewed' \in [Executors -> 0..MaxEnvelopes] /\ rotated' \in [Executors -> BOOLEAN]
    BY <2>1 DEF IInv, TypeOK
  <2> QED
    BY <2>1, <2>2, <2>4, <2>5, <2>6, Cycles
<1>12. ASSUME NEW x \in Executors, Load(x)
       PROVE  IInv'
  <2>1. /\ run[x] = "load" /\ run'[x] = (IF x = "shared" THEN "open" ELSE "done")
        /\ viewed'[x] = (IF viewed[x] = 0 THEN current ELSE viewed[x])
        /\ used'[x] = viewed'[x]
        /\ UNCHANGED <<checked, rotated, row, operator>>
    BY <1>12 DEF Load, IInv, TypeOK
  <2>2. current # 0 /\ (~rotated[x] => Quiet(x))
    BY <2>1 DEF IInv, CycleInv
  <2>3. current' = current /\ (Probed(current) => Probed(current)')
    BY <2>1 DEF row, Probed
  <2>4. ~rotated'[x] => Quiet(x)'
    BY <2>1, <2>2, <2>3 DEF Quiet
  <2>5. /\ run' \in [Executors -> RunSteps]
        /\ viewed' \in [Executors -> 0..MaxEnvelopes]
        /\ used' \in [Executors -> 0..MaxEnvelopes]
        /\ \A y \in Executors : y # x =>
             run'[y] = run[y] /\ viewed'[y] = viewed[y] /\ used'[y] = used[y]
    BY <1>12, <2>1 DEF Load, IInv, TypeOK, RunSteps
  <2>6. checked' \in [Executors -> 0..MaxEnvelopes] /\ rotated' \in [Executors -> BOOLEAN]
    BY <2>1 DEF IInv, TypeOK
  <2> QED
    BY <2>1, <2>2, <2>4, <2>5, <2>6, Cycles
<1>13. ASSUME NEW x \in Executors, Close(x)
       PROVE  IInv'
  <2>1. /\ run'[x] = "idle" /\ viewed'[x] = 0 /\ used'[x] = 0
        /\ UNCHANGED <<row, operator>>
    BY <1>13 DEF Close, IInv, TypeOK
  <2>2. Quiet(x)'
    BY <2>1 DEF Quiet
  <2>3. /\ run' \in [Executors -> RunSteps]
        /\ viewed' \in [Executors -> 0..MaxEnvelopes]
        /\ checked' \in [Executors -> 0..MaxEnvelopes]
        /\ used' \in [Executors -> 0..MaxEnvelopes]
        /\ rotated' \in [Executors -> BOOLEAN]
        /\ \A y \in Executors : y # x =>
             /\ run'[y] = run[y] /\ viewed'[y] = viewed[y] /\ checked'[y] = checked[y]
             /\ used'[y] = used[y] /\ rotated'[y] = rotated[y]
    BY <1>13, BoundAssumption DEF Close, IInv, TypeOK, RunSteps
  <2> QED
    BY <2>1, <2>2, <2>3, Cycles
<1>14. CASE UNCHANGED vars
  BY <1>14 DEF vars, row, operator, cycle, IInv, TypeOK, RowInv, ValidWasProbed,
     NoRotationLost, OperatorInv, CycleInv, Quiet, Probed
<1> QED
  BY <1>1, <1>2, <1>3, <1>4, <1>5, <1>6, <1>7, <1>8, <1>9, <1>10, <1>11, <1>12,
     <1>13, <1>14 DEF Next

LEMMA Always == Spec => []IInv
BY InitInv, StepInv, PTL DEF Spec

-----------------------------------------------------------------------------
(* The properties.                                                         *)

\* Every variable has its type, and a bound executor has a credential.
THEOREM TypeCorrect == Spec => []TypeOK
<1>1. IInv => TypeOK
  BY DEF IInv
<1> QED
  BY <1>1, Always, PTL

\* VALID_TRADE_EXECUTION is said of a key that the venue has accepted.
THEOREM ValidityIsEarned == Spec => []ValidWasProbed
<1>1. IInv => ValidWasProbed
  BY DEF IInv, RowInv
<1> QED
  BY <1>1, Always, PTL

\* Every stored payload replaced the one its operator had seen.
THEOREM RotationsAreExact == Spec => []NoRotationLost
<1>1. IInv => NoRotationLost
  BY DEF IInv, RowInv
<1> QED
  BY <1>1, Always, PTL

\* A cycle that saw no rotation uses the payload that its scope check vouched
\* for.
THEOREM ClientsAreVouched == Spec => []ClientIsVouched
<1>1. ASSUME IInv PROVE ClientIsVouched
  BY <1>1 DEF IInv, CycleInv, Quiet, ClientIsVouched
<1> QED
  BY <1>1, Always, PTL

-----------------------------------------------------------------------------
(* The abstract register.                                                  *)

\* A rotation in the middle was asked to bring another key than it saw.
RotatesAway ==
  \A p \in Operators : pc[p] = "rotate" => offered[p] # key[seen[p]]

LEMMA RotatesInit == Init => RotatesAway
  BY DEF Init, RotatesAway

\* What has been seen is stored, and what is stored keeps its key.
LEMMA SeenKeysStay ==
  ASSUME IInv, [Next]_vars
  PROVE  \A e \in 1..current : key'[e] = key[e]
<1>1. CASE \E p \in Operators : Store(p)
  BY <1>1, BoundAssumption DEF IInv, TypeOK, Store, Envelopes
<1>2. CASE ~ \E p \in Operators : Store(p)
  <2>1. key' = key
    <3>1. ASSUME NEW p \in Operators, Insert(p) \/ RotateExact(p) PROVE key' = key
      BY <1>2, <3>1 DEF Insert, RotateExact, row
    <3>2. ASSUME NEW p \in Operators,
                 \/ \E k \in Keys, x \in Executors : Provision(p, k, x)
                 \/ \E x \in Executors : Bind(p, x)
                 \/ \E k \in Keys : Rotate(p, k)
                 \/ Revalidate(p) \/ Probe(p) \/ Record(p) \/ GiveUp(p)
          PROVE  key' = key
      BY <3>2 DEF Provision, Bind, Rotate, Revalidate, Probe, Record, GiveUp, Begin, row
    <3>3. ASSUME NEW x \in Executors, Open(x) \/ Resolve(x) \/ Load(x) \/ Close(x)
          PROVE  key' = key
      BY <3>3 DEF Open, Resolve, Load, Close, row
    <3>4. UNCHANGED vars => key' = key
      BY DEF vars, row
    <3> QED
      BY <3>1, <3>2, <3>3, <3>4 DEF Next
  <2> QED
    BY <2>1
<1> QED
  BY <1>1, <1>2

LEMMA RotatesStep ==
  ASSUME IInv, RotatesAway, [Next]_vars
  PROVE  RotatesAway'
<1> SUFFICES ASSUME NEW q \in Operators, pc'[q] = "rotate"
             PROVE  offered'[q] # key'[seen'[q]]
  BY DEF RotatesAway
\* A rotation that was under way already.
<1>1. ASSUME pc[q] = "rotate", seen'[q] = seen[q], offered'[q] = offered[q]
      PROVE  offered'[q] # key'[seen'[q]]
  <2>1. seen[q] \in 1..current
    BY <1>1, BoundAssumption DEF IInv, TypeOK, OperatorInv
  <2>2. key'[seen[q]] = key[seen[q]]
    BY <2>1, SeenKeysStay
  <2> QED
    BY <1>1, <2>2 DEF RotatesAway
<1>2. ASSUME NEW p \in Operators, NEW k \in Keys, Rotate(p, k)
      PROVE  offered'[q] # key'[seen'[q]]
  <2>1. CASE q = p
    BY <1>2, <2>1 DEF IInv, TypeOK, Rotate, Begin, row
  <2>2. CASE q # p
    BY <1>1, <1>2, <2>2 DEF IInv, TypeOK, Rotate, Begin
  <2> QED
    BY <2>1, <2>2
<1>3. ASSUME NEW p \in Operators,
             \/ \E k \in Keys, x \in Executors : Provision(p, k, x)
             \/ \E x \in Executors : Bind(p, x)
             \/ Insert(p) \/ RotateExact(p) \/ Revalidate(p) \/ Probe(p) \/ Record(p)
             \/ GiveUp(p)
      PROVE  offered'[q] # key'[seen'[q]]
  <2>1. CASE q = p
    BY <1>3, <2>1
       DEF IInv, TypeOK, Provision, Bind, Insert, RotateExact, Revalidate, Probe, Record,
           GiveUp, Begin, End
  <2>2. CASE q # p
    <3>1. /\ pc'[q] = pc[q] /\ seen'[q] = seen[q] /\ offered'[q] = offered[q]
      BY <1>3, <2>2
         DEF IInv, TypeOK, Provision, Bind, Insert, RotateExact, Revalidate, Probe, Record,
             GiveUp, Begin, End
    <3> QED
      BY <1>1, <3>1
  <2> QED
    BY <2>1, <2>2
<1>4. CASE (\E x \in Executors : Open(x) \/ Resolve(x) \/ Load(x) \/ Close(x))
           \/ UNCHANGED vars
  <2>1. UNCHANGED operator
    BY <1>4 DEF Open, Resolve, Load, Close, vars
  <2> QED
    BY <1>1, <2>1 DEF operator
<1> QED
  BY <1>2, <1>3, <1>4 DEF Next

LEMMA RegisterInit == Init => Register!Init
  BY DEF Init, Register!Init, Envelopes

\* A command that stores a payload is the abstract step.
LEMMA RegisterPut ==
  ASSUME IInv, NEW p \in Operators, Store(p)
  PROVE  Register!Put(offered[p])
BY BoundAssumption DEF IInv, TypeOK, Store, Register!Put

LEMMA RegisterStep ==
  ASSUME IInv, RotatesAway, [Next]_vars
  PROVE  [Register!Next]_(Register!vars)
<1>1. ASSUME NEW p \in Operators, Insert(p) PROVE [Register!Next]_(Register!vars)
  <2>1. PICK x \in Executors : x = grantee[p]
    BY DEF IInv, TypeOK
  <2>2. CASE seen[p] = 0 /\ current = 0
    <3>1. PICK k \in Keys : k = offered[p]
      BY <1>1, <2>2 DEF IInv, OperatorInv, Insert
    <3>2. Register!Put(k)
      BY <1>1, <2>2, <3>1, RegisterPut DEF Insert
    <3>3. Register!Provide(k, x)
      BY <1>1, <2>1, <2>2, <3>2 DEF Insert, Register!Provide
    <3> QED
      BY <3>3 DEF Register!Next
  <2>3. CASE seen[p] # 0
    <3>1. current # 0
      BY <2>3, BoundAssumption DEF IInv, TypeOK, OperatorInv
    <3>2. Register!Hold(x)
      BY <1>1, <2>1, <2>3, <3>1 DEF Insert, Register!Hold
    <3> QED
      BY <3>2 DEF Register!Next
  <2>4. CASE seen[p] = 0 /\ current # 0
    BY <1>1, <2>4 DEF Insert, row, Register!vars
  <2> QED
    BY <2>2, <2>3, <2>4
<1>2. ASSUME NEW p \in Operators, RotateExact(p) PROVE [Register!Next]_(Register!vars)
  <2>1. CASE current = seen[p]
    <3>1. PICK k \in Keys : k = offered[p]
      BY <1>2 DEF IInv, OperatorInv, RotateExact
    <3>2. current # 0 /\ key[current] # k
      BY <1>2, <2>1, <3>1 DEF IInv, OperatorInv, RotatesAway, RotateExact
    <3>3. Register!Put(k) /\ bound' = bound
      BY <1>2, <2>1, <3>1, RegisterPut DEF RotateExact
    <3>4. Register!Replace(k)
      BY <3>2, <3>3 DEF Register!Replace
    <3> QED
      BY <3>4 DEF Register!Next
  <2>2. CASE current # seen[p]
    BY <1>2, <2>2 DEF RotateExact, row, Register!vars
  <2> QED
    BY <2>1, <2>2
<1>3. ASSUME NEW p \in Operators, Probe(p) PROVE [Register!Next]_(Register!vars)
  <2>1. UNCHANGED <<current, state, key, bound>>
    BY <1>3 DEF Probe
  <2>2. PICK e \in 1..current : e = seen[p]
    BY <1>3, BoundAssumption DEF IInv, TypeOK, OperatorInv, Probe
  <2>3. accepted' = accepted \/ accepted' = accepted \cup {e}
    BY <1>3, <2>2 DEF Probe
  <2>4. accepted' = accepted \/ Register!Pass(e)
    BY <2>1, <2>3 DEF Register!Pass
  <2> QED
    BY <2>1, <2>4 DEF Register!Next, Register!vars
<1>4. ASSUME NEW p \in Operators, Record(p) PROVE [Register!Next]_(Register!vars)
  <2>1. UNCHANGED <<current, key, bound, accepted>>
    BY <1>4 DEF Record
  <2>2. CASE key[current] = key[seen[p]]
    <3>1. PICK s \in {"VALID", "INVALID"} : s = verdict[p]
      BY DEF IInv, TypeOK, Verdicts
    <3>2. current # 0
      BY <1>4, BoundAssumption DEF IInv, TypeOK, OperatorInv, Record
    <3>3. s = "VALID" => \E e \in accepted : key[e] = key[current]
      BY <1>4, <2>2, <3>1 DEF IInv, OperatorInv, Record
    <3>4. Register!Judge(s)
      BY <1>4, <2>1, <2>2, <3>1, <3>2, <3>3 DEF Record, Register!Judge
    <3> QED
      BY <3>4 DEF Register!Next
  <2>3. CASE key[current] # key[seen[p]]
    BY <1>4, <2>1, <2>3 DEF Record, Register!vars
  <2> QED
    BY <2>2, <2>3
<1>5. ASSUME \/ \E p \in Operators :
                  \/ \E k \in Keys, x \in Executors : Provision(p, k, x)
                  \/ \E x \in Executors : Bind(p, x)
                  \/ \E k \in Keys : Rotate(p, k)
                  \/ Revalidate(p) \/ GiveUp(p)
             \/ \E x \in Executors : Open(x) \/ Resolve(x) \/ Load(x) \/ Close(x)
             \/ UNCHANGED vars
      PROVE  UNCHANGED Register!vars
  BY <1>5 DEF Provision, Bind, Rotate, Revalidate, GiveUp, Begin, Open, Resolve, Load,
              Close, vars, row, Register!vars
<1> QED
  BY <1>1, <1>2, <1>3, <1>4, <1>5 DEF Next

\* Every behaviour of the commands is one of the abstract register: what they
\* do in several steps has the effect of one.
THEOREM CommandsAreAtomic == Spec => ImplementsRegister
<1>1. IInv /\ RotatesAway /\ [Next]_vars => (IInv /\ RotatesAway)'
  BY StepInv, RotatesStep
<1>2. IInv /\ RotatesAway /\ [Next]_vars => [Register!Next]_(Register!vars)
  BY RegisterStep
<1> QED
  BY <1>1, <1>2, InitInv, RotatesInit, RegisterInit, PTL
     DEF Spec, ImplementsRegister, Register!Spec
=============================================================================
