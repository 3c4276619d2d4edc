--------------------------- MODULE ApprovalBudget ---------------------------
(***************************************************************************)
(* The budget of auto-approval (yolo mode) of a session: a batch of tool     *)
(* calls is classified against what is left of the cap, each approved call   *)
(* against what the calls before it have reserved; the spend is recorded     *)
(* when the calls start, or when the user has approved them; the policy may  *)
(* be changed at any await, and it is stored with the session's snapshots.   *)
(*                                                                         *)
(* Amounts are multiples of the smallest price.  The only budgeted tool is   *)
(* sandbox_create, whose price is that of its hardware for an hour, nothing  *)
(* when the session has a sandbox already.                                  *)
(***************************************************************************)
EXTENDS Integers, Sequences, Functions

CONSTANTS
  Prices,   \* SPACE_PRICE_USD_PER_HOUR, of the hardware that is asked for
  Caps,     \* the caps that are asked for
  Default,  \* DEFAULT_YOLO_COST_CAP_USD
  MaxBatch, \* bound: calls in one batch
  MaxSpent  \* bound: no new batch beyond this spend

ASSUME BudgetAssumption ==
  /\ Prices \subseteq Nat /\ Caps \subseteq Nat /\ Default \in Nat
  /\ MaxBatch \in Nat /\ MaxSpent \in Nat

Unknown == -1 \* the price of hardware that is not in the table
NoCap == -1   \* auto_approval_cost_cap_usd is None

VARIABLES
  policy,  \* auto_approval_enabled and auto_approval_cost_cap_usd
  spent,   \* auto_approval_estimated_spend_usd
  boxed,   \* the session has a sandbox
  batch,   \* the calls of the turn, by their number: price asked for, state
  stored,  \* policy and spend in the store
  \* for properties only
  changed  \* the policy has changed since the batch was classified

budgetVars == <<policy, spent, boxed, batch, stored, changed>>

Policies == [enabled : BOOLEAN, cap : Caps \cup {Default, NoCap}]

BudgetTypeOK ==
  /\ policy \in Policies /\ spent \in Nat /\ boxed \in BOOLEAN
  /\ DOMAIN batch \subseteq 1 .. MaxBatch
  /\ batch \in [DOMAIN batch -> [price : Prices \cup {Unknown}, estimate : Nat,
                                state : {"approved", "asked", "allowed"}]]
  /\ stored \in [policy : Policies, spent : Nat]
  /\ changed \in BOOLEAN

BudgetInit ==
  /\ policy = [enabled |-> FALSE, cap |-> NoCap] /\ spent = 0
  /\ boxed = FALSE /\ batch = <<>>
  /\ stored = [policy |-> policy, spent |-> spent]
  /\ changed = FALSE

\* estimate_sandbox_cost
Estimate(price) == IF boxed THEN 0 ELSE price

\* _remaining_budget_after_reservations
Remaining(reserved) ==
  LET left == policy.cap - spent - reserved IN IF left > 0 THEN left ELSE 0

\* _budget_block_reason
Blocked(price, reserved) ==
  \/ Estimate(price) = Unknown
  \/ policy.cap # NoCap /\ Estimate(price) > Remaining(reserved)

\* _approval_decision, with the amount the calls before have reserved
Approves(price, reserved) == policy.enabled /\ ~Blocked(price, reserved)

\* mutant: every call is weighed against the whole remaining budget
Decisions_NoReservation(prices) ==
  [k \in DOMAIN prices |->
     [price |-> prices[k],
      estimate |-> IF Approves(prices[k], 0) THEN Estimate(prices[k]) ELSE 0,
      state |-> IF Approves(prices[k], 0) THEN "approved" ELSE "asked"]]

\* what the first k calls reserve, for each k
Reservations(prices) ==
  LET sum[k \in {0} \cup DOMAIN prices] ==
        IF k = 0 THEN 0
        ELSE sum[k - 1] + IF Approves(prices[k], sum[k - 1])
                          THEN Estimate(prices[k]) ELSE 0
  IN sum

\* the batch, classified call by call
Decisions(prices) ==
  LET before == Reservations(prices)
  IN [k \in DOMAIN prices |->
       [price |-> prices[k],
        estimate |-> before[k] - before[k - 1],
        state |-> IF Approves(prices[k], before[k - 1]) THEN "approved" ELSE "asked"]]

\* run_agent has parsed the calls of a reply
Classify(prices) ==
  /\ DOMAIN batch = {} /\ spent <= MaxSpent
  /\ batch' = Decisions(prices)
  /\ changed' = FALSE
  /\ UNCHANGED <<policy, spent, boxed, stored>>

In(state) == {k \in DOMAIN batch : batch[k].state = state}

\* what the approved ones of the first k calls are estimated to cost, for each k
Totals(calls) ==
  LET sum[k \in 0 .. MaxBatch] ==
        IF k = 0 THEN 0
        ELSE sum[k - 1] + IF k \in DOMAIN calls /\ calls[k].state = "approved"
                          THEN calls[k].estimate ELSE 0
  IN sum

\* the approved calls start together: _record_estimated_spend
StartApproved ==
  /\ In("approved") # {}
  /\ spent' = spent + Totals(batch)[MaxBatch]
  /\ batch' = Restrict(batch, In("asked"))
  /\ UNCHANGED <<policy, boxed, stored, changed>>

\* an interrupt before that, a rejection, or a message that abandons what waits
Drop ==
  /\ DOMAIN batch # {} /\ batch' = <<>>
  /\ UNCHANGED <<policy, spent, boxed, stored, changed>>

\* the user says yes to the calls that wait
Allow ==
  /\ DOMAIN batch # {} /\ In("asked") = DOMAIN batch
  /\ batch' = [k \in DOMAIN batch |-> [batch[k] EXCEPT !.state = "allowed"]]
  /\ UNCHANGED <<policy, spent, boxed, stored, changed>>

\* _record_manual_approved_spend_if_needed, of each call in its own task
RecordAllowed(k) ==
  /\ batch[k].state = "allowed"
  /\ spent' = IF policy.enabled /\ Estimate(batch[k].price) > 0
              THEN spent + Estimate(batch[k].price) ELSE spent
  /\ batch' = Restrict(batch, DOMAIN batch \ {k})
  /\ UNCHANGED <<policy, boxed, stored, changed>>

\* a sandbox has been created, or torn down
Boxed ==
  /\ boxed' = ~boxed
  /\ UNCHANGED <<policy, spent, batch, stored, changed>>

\* update_session_auto_approval: an enabled policy always has a cap
Patch(enabled, provided, cap) ==
  LET kept == IF provided THEN cap ELSE policy.cap
  IN /\ policy' = [enabled |-> enabled,
                   cap |-> IF enabled /\ kept = NoCap THEN Default ELSE kept]
     /\ stored' = [policy |-> policy', spent |-> spent]
     /\ changed' = TRUE
     /\ UNCHANGED <<spent, boxed, batch>>

\* the snapshot at the end of a turn
Snapshot ==
  /\ stored' = [policy |-> policy, spent |-> spent]
  /\ UNCHANGED <<policy, spent, boxed, batch, changed>>

\* the backend ends and the session is restored
Restored ==
  /\ policy' = stored.policy /\ spent' = stored.spent
  /\ batch' = <<>> /\ boxed' = FALSE /\ changed' = TRUE
  /\ UNCHANGED stored

BudgetNext ==
  \/ \E n \in 1 .. MaxBatch : \E prices \in [1 .. n -> Prices \cup {Unknown}] :
       Classify(prices)
  \/ StartApproved \/ Drop \/ Allow \/ Boxed \/ Snapshot \/ Restored
  \/ \E k \in DOMAIN batch : RecordAllowed(k)
  \/ \E enabled, provided \in BOOLEAN, cap \in Caps \cup {NoCap} :
       Patch(enabled, provided, cap)

BudgetSpec == BudgetInit /\ [][BudgetNext]_budgetVars

---------------------------------------------------------------------------
\* "so two auto-approved jobs in one model response cannot jointly exceed the
\* remaining session cap": what auto-approved calls add to the spend stays within
\* the cap they were classified under, wherever sandboxes come and go meanwhile.
CapHolds ==
  [][In("approved") # {} /\ spent' > spent /\ ~changed /\ policy.cap # NoCap
     => spent' <= policy.cap]_budgetVars

(* Promises of comments that the code does not keep (README, section 3).    *)

\* A restart does not refill the budget.
SpendSurvives == [][spent' >= spent]_budgetVars

\* A cap that is lowered binds the calls that have not started.
LoweredCapHolds ==
  [][In("approved") # {} /\ spent' > spent /\ policy.cap # NoCap
     => policy.enabled /\ spent' <= policy.cap]_budgetVars
=============================================================================
