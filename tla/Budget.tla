-------------------------------- MODULE Budget --------------------------------
(***************************************************************************)
(* The spend tracker (internal/budget/budget.go): cents spent per API key  *)
(* against one ceiling shared by all keys.  Every method holds the mutex   *)
(* for its whole body, so each is one atomic operation.                    *)
(***************************************************************************)
EXTENDS Integers

CONSTANTS
  Keys,     \* API keys
  Ceiling   \* cents per key; not positive: budgets are disabled

ASSUME BudgetAssumption == Ceiling \in Int

VARIABLE spent  \* spent[k]: cents billed to key k; an absent map entry reads 0

BudgetInit == spent = [k \in Keys |-> 0]

Enabled == Ceiling > 0

\* Mutant: only a key beyond the ceiling is over budget.
BugOverBudget(k) == Enabled /\ spent[k] > Ceiling

OverBudget(k) == Enabled /\ spent[k] >= Ceiling

Add(k, cents) ==
  spent' = IF Enabled THEN [spent EXCEPT ![k] = @ + cents] ELSE spent

\* RemainingCents, which reads 0 when budgets are disabled.
Remaining(k) == IF Enabled /\ spent[k] < Ceiling THEN Ceiling - spent[k] ELSE 0
=============================================================================
