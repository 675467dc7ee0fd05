----------------------------- MODULE GatewaySpend -----------------------------
(***************************************************************************)
(* The gateway with its budget gauge, and with a memory of its concurrency *)
(* to say what a budget is worth when it is checked before a request and   *)
(* billed after it.                                                        *)
(*                                                                         *)
(* Nothing in the gateway depends on the gauge, so it is added around its  *)
(* steps: a handler that has just billed an embedding or an answer updates *)
(* the gauge before it goes on (updateBudgetGauge), in two steps, because  *)
(* the tracker's lock is released between the read and the Set.            *)
(***************************************************************************)
EXTENDS Gateway

VARIABLES
  gauge,    \* gauge[k]: the exported budget_remaining_cents of key k, or Unset
  refresh,  \* refresh[r]: "no", or the half of updateBudgetGauge r makes next
  reading,  \* reading[r]: the value r read and has yet to set
  peak      \* peak[k]: the most requests of key k that were unsettled at once

gaugeVars == <<gauge, refresh, reading>>
spendVars == <<gatewayVars, gaugeVars, peak>>

Unset == -1

\* Admitted requests of key k that may still add to its spend or set its gauge.
Unsettled(k) ==
  {r \in Requests : Ask[r].key = k /\ \/ pc[r] \in {"embed", "lookup", "fetch", "account"}
                                      \/ refresh[r] # "no"}

SpendInit ==
  /\ GatewayInit
  /\ gauge = [k \in Keys |-> Unset]
  /\ refresh = [r \in Requests |-> "no"]
  /\ reading = [r \in Requests |-> 0]
  /\ peak = [k \in Keys |-> 0]

Remember == peak' = [k \in Keys |-> Max({peak[k], Cardinality(Unsettled(k)')})]

\* Mutant: the gauge is refreshed after embeddings only.
BugBills(r) == Enabled /\ pc[r] = "embed" /\ pc'[r] = "lookup"

\* recordEmbedUsage and recordBackendUsage end in updateBudgetGauge, which does
\* nothing when budgets are disabled.
Bills(r) ==
  Enabled /\ \/ pc[r] = "embed" /\ pc'[r] = "lookup"
             \/ pc[r] = "account"

HandlerStep(r) ==
  /\ refresh[r] = "no"
  /\ Arrive(r) \/ Handle(r)
  /\ refresh' = [refresh EXCEPT ![r] = IF Bills(r) THEN "read" ELSE "no"]
  /\ UNCHANGED <<gauge, reading>>
  /\ Remember

\* RemainingCents, under the tracker's lock ...
ReadRemaining(r) ==
  /\ refresh[r] = "read"
  /\ reading' = [reading EXCEPT ![r] = Remaining(Ask[r].key)]
  /\ refresh' = [refresh EXCEPT ![r] = "set"]
  /\ UNCHANGED <<gatewayVars, gauge, peak>>

\* ... and the gauge's Set, without it.
SetGauge(r) ==
  /\ refresh[r] = "set"
  /\ gauge' = [gauge EXCEPT ![Ask[r].key] = reading[r]]
  /\ reading' = [reading EXCEPT ![r] = 0]
  /\ refresh' = [refresh EXCEPT ![r] = "no"]
  /\ UNCHANGED <<gatewayVars, peak>>

WorkerStepBeside(w) == Work(w) /\ UNCHANGED <<gaugeVars, peak>>

SpendNext ==
  \/ \E r \in Requests : HandlerStep(r) \/ ReadRemaining(r) \/ SetGauge(r)
  \/ \E w \in Workers : WorkerStepBeside(w)

\* A handler that has begun keeps running, through its updates of the gauge too.
SpendFairness ==
  \A r \in Requests : WF_spendVars(ReadRemaining(r) \/ SetGauge(r) \/ (pc[r] # "new" /\ HandlerStep(r)))

SpendSpec == SpendInit /\ [][SpendNext]_spendVars /\ SpendFairness

MaxCost == Max({ChatPrice[m] + EmbedPrice[m] : m \in Models})

-----------------------------------------------------------------------------
\* The ceiling is soft: a request is checked against what is billed so far and is
\* billed after its answer (budgetMiddleware, recordBackendUsage).  A key can
\* overshoot by what its concurrent requests cost, and by no more: sequential
\* requests stop within one request's cost of the ceiling.
OverspendBounded ==
  Enabled => \A k \in Keys : spent[k] <= Ceiling - 1 + peak[k] * MaxCost

\* The exported budget_remaining_cents: read under the lock and set after it, it
\* may lag behind what concurrent requests have spent, but never shows less than
\* remains, and is exact whenever the key's requests came one after the other
\* (updateBudgetGauge).
GaugeTracksBudget ==
  \A k \in Keys : gauge[k] # Unset =>
     /\ gauge[k] >= Remaining(k)
     /\ peak[k] <= 1 /\ Unsettled(k) = {} => gauge[k] = Remaining(k)
=============================================================================
