----------------------- MODULE SharedExecutorProgress -----------------------
(***************************************************************************)
(* What the shared executor's timer, leases and lookups eventually achieve.*)
(* The faults of SharedExecutor happen freely until the environment        *)
(* settles; from then on processes and the network work, and leases are    *)
(* long enough for the work they cover.                                    *)
(***************************************************************************)
EXTENDS SharedExecutor

VARIABLE calm   \* the environment has settled

progressVars == <<vars, calm>>

\* The holder of a lease that is about to run out has stopped working on it.
OnlyAbandonedExpire ==
  \A h \in Handoffs : lease[h] = 1 =>
    \A w \in Workers : claimToken[h] = w => hd[w] # h

\* The HTTP timeout of a POST whose request or answer was lost.
TimesOut(w) ==
  /\ pc[w] = "await"
  /\ Cur(w) \notin wire
  /\ reply[Cur(w)] = "ABSENT"
  /\ PostUncertain(w)

Proceeds(w) == Works(w) \/ TimesOut(w)

ProgressInit == Init /\ calm = FALSE

Settle == ~calm /\ calm' = TRUE /\ UNCHANGED vars

Passes == (calm => OnlyAbandonedExpire) /\ Tick

ProgressNext ==
  \/ \E h \in Handoffs : Intake(h) /\ UNCHANGED calm
  \/ \E w \in Workers :
       \/ Proceeds(w) /\ UNCHANGED calm
       \/ ~calm /\ Fails(w) /\ UNCHANGED calm
  \/ Broker /\ UNCHANGED calm
  \/ Passes /\ UNCHANGED calm
  \/ ~calm /\ AuthorityWithdrawn /\ UNCHANGED calm
  \/ AuthorityRestored /\ UNCHANGED calm
  \/ Settle

\* The timer starts the workers again and again and none is suspended for
\* ever, plans are handed off, a request in flight ends somehow, an operator
\* restores the authority, time goes on, and the faults stop.
ProgressSpec ==
  /\ ProgressInit /\ [][ProgressNext]_progressVars
  /\ WF_progressVars(Settle)
  /\ \A h \in Handoffs : WF_progressVars(Intake(h) /\ UNCHANGED calm)
  /\ \A w \in Workers : WF_progressVars(Proceeds(w) /\ UNCHANGED calm)
  /\ \A l \in Legs : WF_progressVars(
       (BrokerAccepts(l) \/ BrokerRefuses(l) \/ PostLost(l)) /\ UNCHANGED calm)
  /\ SF_progressVars(Passes /\ UNCHANGED calm)
  /\ WF_progressVars(AuthorityRestored /\ UNCHANGED calm)

-----------------------------------------------------------------------------
\* An unresolved leg that no lookup will ever resolve: the durable dead end
\* that waits for an operator.
DeadEnd(h) ==
  \E i \in LegIndexes :
    leg[<<h, i>>] = "RECONCILIATION_REQUIRED" /\ NotResolvable(<<h, i>>)

\* Once the faults stop, every handoff that was taken in is completed or rests
\* in the dead end, whatever crashes, lost claims and lost answers came first.
EventuallyResolved ==
  \A h \in Handoffs :
    consumption[h] = "PENDING" ~> (consumption[h] = "COMPLETED" \/ DeadEnd(h))
=============================================================================
