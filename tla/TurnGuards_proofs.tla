------------------------- MODULE TurnGuards_proofs -------------------------
(***************************************************************************)
(* Theorems about what bounds a session that works on its own, the budget of *)
(* auto-approval and the guards of the turn, for any calls, prices, windows *)
(* and limits; and about the search of the edit tools, for any texts.       *)
(*                                                                         *)
(* All three models compute along a sequence: what a batch has reserved so far,  *)
(* the calls of the messages in a window, the lines of a text.  The            *)
(* first part is the induction that this takes: a non-empty set of numbers has *)
(* a least element (Least, from the well-foundedness of <), so a set that is *)
(* closed under successor holds an interval (Climb), and a function that is *)
(* defined step by step exists (Recursion).                                *)
(***************************************************************************)
EXTENDS ApprovalBudget, TurnGuards, EditMatch, FiniteSetTheorems, SequenceTheorems,
        WellFoundedInduction, TLAPS

---------------------------------------------------------------------------
(* Induction.  A set of numbers that holds 0 and with each its successor, up   *)
(* to a bound, holds all of them.                                          *)

LEMMA Least ==
  ASSUME NEW S, S \subseteq Nat, S # {}
  PROVE  \E x \in S : \A y \in S : x <= y
<1>1. IsWellFoundedOn({ss \in Nat \X Nat : ss[1] < ss[2]}, Nat)
  BY NatLessThanWellFounded DEF OpToRel
<1>2. PICK x \in S : \A y \in S : <<y, x>> \notin {ss \in Nat \X Nat : ss[1] < ss[2]}
  BY <1>1, WFMin, Zenon
<1>3. ASSUME NEW y \in S PROVE x <= y
  <2>1. SUFFICES ASSUME y < x PROVE FALSE
    OBVIOUS
  <2>2. <<y, x>> \in Nat \X Nat /\ <<y, x>>[1] < <<y, x>>[2]
    BY <2>1
  <2>3. <<y, x>> \in {ss \in Nat \X Nat : ss[1] < ss[2]}
    BY <2>2, Zenon
  <2> QED BY <1>2, <2>3, Zenon
<1> QED BY <1>3

LEMMA Climb ==
  ASSUME NEW n \in Nat, NEW S, 0 \in S, \A k \in 1 .. n : k - 1 \in S => k \in S
  PROVE  0 .. n \subseteq S
<1> DEFINE Left == (0 .. n) \ S
<1>1. SUFFICES ASSUME Left # {} PROVE FALSE
  OBVIOUS
<1>2. Left \subseteq Nat
  OBVIOUS
<1>3. \E x \in Left : \A y \in Left : x <= y
  <2> HIDE DEF Left
  <2> QED BY <1>1, <1>2, Least
<1>4. PICK x \in (0 .. n) \ S : \A y \in (0 .. n) \ S : x <= y
  BY <1>3
<1>5. x \in 1 .. n /\ x - 1 \in 0 .. n
  BY <1>4
<1>6. x - 1 \in S
  BY <1>4, <1>5
<1> QED BY <1>4, <1>5, <1>6

\* What is computed step by step exists.
Computes(f, n, A, base, next) ==
  /\ f \in [0 .. n -> A] /\ f[0] = base
  /\ \A k \in 1 .. n : f[k] = next[k][f[k - 1]]

LEMMA Recursion ==
  ASSUME NEW n \in Nat, NEW A, NEW base \in A, NEW next \in [1 .. n -> [A -> A]]
  PROVE  \E f : Computes(f, n, A, base, next)
<1> DEFINE Good(f, m) == /\ f \in [0 .. m -> A] /\ f[0] = base
                         /\ \A k \in 1 .. m : f[k] = next[k][f[k - 1]]
           S == {m \in 0 .. n : \E f : Good(f, m)}
<1>1. 0 \in S
  <2> DEFINE f == [k \in 0 .. 0 |-> base]
  <2>1. Good(f, 0)
    OBVIOUS
  <2> HIDE DEF f, Good
  <2> QED BY <2>1
<1>2. ASSUME NEW k \in 1 .. n, k - 1 \in S PROVE k \in S
  <2>1. PICK f : Good(f, k - 1)
    BY <1>2
  <2> DEFINE g == [i \in 0 .. k |-> IF i = k THEN next[k][f[k - 1]] ELSE f[i]]
  <2>2. f[k - 1] \in A
    BY <2>1
  <2>3. next[k][f[k - 1]] \in A
    BY <2>2
  <2>4. g \in [0 .. k -> A] /\ g[0] = base
    BY <2>1, <2>3
  <2>5. ASSUME NEW i \in 1 .. k PROVE g[i] = next[i][g[i - 1]]
    <3>1. i - 1 \in 0 .. k /\ i - 1 # k /\ g[i - 1] = f[i - 1]
      OBVIOUS
    <3>2. CASE i = k
      BY <3>1, <3>2
    <3>3. CASE i # k
      BY <2>1, <3>1, <3>3
    <3> QED BY <3>2, <3>3
  <2> HIDE DEF g
  <2>6. Good(g, k)
    BY <2>4, <2>5
  <2> HIDE DEF Good
  <2> QED BY <2>6
<1>3. 0 .. n \subseteq S
  <2> HIDE DEF S
  <2> QED BY <1>1, <1>2, Climb
<1>4. n \in S
  BY <1>3
<1>5. PICK f : Good(f, n)
  BY <1>4, Zenon
<1> QED BY <1>5 DEF Computes

---------------------------------------------------------------------------
(***************************************************************************)
(* The budget of auto-approval                                             *)
(***************************************************************************)

\* What the calls of a batch reserve, and what its approved calls amount to.
LEMMA ReservationsAre ==
  ASSUME BudgetAssumption, NEW n \in Nat, NEW prices \in [1 .. n -> Prices \cup {Unknown}],
         boxed \in BOOLEAN, NEW sum, sum = Reservations(prices)
  PROVE  /\ sum \in [0 .. n -> Int] /\ sum[0] = 0
         /\ \A k \in 1 .. n :
              sum[k] = sum[k - 1] + IF Approves(prices[k], sum[k - 1])
                                    THEN Estimate(prices[k]) ELSE 0
<1> DEFINE next == [k \in 1 .. n |-> [a \in Int |->
                     a + IF Approves(prices[k], a) THEN Estimate(prices[k]) ELSE 0]]
<1>1. ASSUME NEW k \in 1 .. n PROVE Estimate(prices[k]) \in Int
  <2>1. Unknown \in Int /\ Prices \subseteq Int
    BY DEF Unknown, BudgetAssumption
  <2>2. prices[k] \in Int
    BY <2>1
  <2> QED BY <2>2 DEF Estimate
<1>2. next \in [1 .. n -> [Int -> Int]]
  BY <1>1
<1>3. \E f : Computes(f, n, Int, 0, next)
  <2> HIDE DEF next
  <2>1. 0 \in Int
    OBVIOUS
  <2> QED BY <1>2, <2>1, Recursion, Zenon
<1>4. PICK f \in [0 .. n -> Int] : f[0] = 0 /\ \A k \in 1 .. n : f[k] = next[k][f[k - 1]]
  BY <1>3 DEF Computes
<1> DEFINE Is(g) ==
       [k \in {0} \cup DOMAIN prices |->
             IF k = 0 THEN 0
             ELSE g[k - 1] + IF Approves(prices[k], g[k - 1]) THEN Estimate(prices[k]) ELSE 0]
<1>5. {0} \cup DOMAIN prices = 0 .. n
  OBVIOUS
<1>6. f = Is(f)
  <2>1. ASSUME NEW k \in 1 .. n
        PROVE  f[k] = f[k - 1] + IF Approves(prices[k], f[k - 1])
                                 THEN Estimate(prices[k]) ELSE 0
    <3>1. f[k - 1] \in Int
      OBVIOUS
    <3> QED BY <1>4, <3>1
  <2> QED BY <1>4, <1>5, <2>1
<1>7. sum = Is(sum)
  BY <1>6 DEF Reservations
<1>8. /\ DOMAIN sum = 0 .. n /\ sum[0] = 0
      /\ \A k \in 1 .. n :
           sum[k] = sum[k - 1] + IF Approves(prices[k], sum[k - 1])
                                 THEN Estimate(prices[k]) ELSE 0
  BY <1>5, <1>7
<1>9. 0 .. n \subseteq {k \in 0 .. n : sum[k] \in Int}
  <2> DEFINE S == {k \in 0 .. n : sum[k] \in Int}
  <2>1. 0 \in S /\ \A k \in 1 .. n : k - 1 \in S => k \in S
    <3>1. 0 \in S
      BY <1>8
    <3>2. ASSUME NEW k \in 1 .. n, k - 1 \in S PROVE k \in S
      <4>1. sum[k - 1] \in Int /\ k \in 0 .. n
        BY <3>2
      <4>2. (IF Approves(prices[k], sum[k - 1]) THEN Estimate(prices[k]) ELSE 0) \in Int
        BY <1>1
      <4>3. sum[k] \in Int
        BY <1>8, <4>1, <4>2
      <4> QED BY <4>1, <4>3
    <3> QED BY <3>1, <3>2
  <2> HIDE DEF S
  <2>2. 0 .. n \subseteq S
    BY <2>1, Climb
  <2> QED BY <2>2 DEF S
<1>10. sum \in [0 .. n -> Int]
  BY <1>7, <1>8, <1>9
<1> QED BY <1>8, <1>10

Calls == [price : Prices \cup {Unknown}, estimate : Nat,
          state : {"approved", "asked", "allowed"}]
IsBatch(calls) == DOMAIN calls \subseteq 1 .. MaxBatch /\ calls \in [DOMAIN calls -> Calls]

LEMMA TotalsAre ==
  ASSUME BudgetAssumption, NEW calls, IsBatch(calls), NEW sum, sum = Totals(calls)
  PROVE  /\ sum \in [0 .. MaxBatch -> Nat] /\ sum[0] = 0
         /\ \A k \in 1 .. MaxBatch :
              sum[k] = sum[k - 1] + IF k \in DOMAIN calls /\ calls[k].state = "approved"
                                    THEN calls[k].estimate ELSE 0
<1> DEFINE cost(k) == IF k \in DOMAIN calls /\ calls[k].state = "approved"
                      THEN calls[k].estimate ELSE 0
           next == [k \in 1 .. MaxBatch |-> [a \in Nat |-> a + cost(k)]]
           Is(g) == [k \in 0 .. MaxBatch |-> IF k = 0 THEN 0 ELSE g[k - 1] + cost(k)]
<1>1. ASSUME NEW k \in 1 .. MaxBatch PROVE cost(k) \in Nat
  BY DEF IsBatch, Calls
<1>2. MaxBatch \in Nat
  BY DEF BudgetAssumption
<1>3. sum = CHOOSE g : g = Is(g)
  BY DEF Totals
<1> HIDE DEF cost
<1>4. next \in [1 .. MaxBatch -> [Nat -> Nat]]
  BY <1>1
<1>5. \E f : Computes(f, MaxBatch, Nat, 0, next)
  <2> HIDE DEF next
  <2>1. 0 \in Nat
    OBVIOUS
  <2> QED BY <1>2, <1>4, <2>1, Recursion, Zenon
<1>6. PICK f \in [0 .. MaxBatch -> Nat] :
        f[0] = 0 /\ \A k \in 1 .. MaxBatch : f[k] = next[k][f[k - 1]]
  BY <1>5 DEF Computes
<1>7. f = Is(f)
  <2>1. ASSUME NEW k \in 1 .. MaxBatch PROVE f[k] = f[k - 1] + cost(k)
    <3>1. f[k - 1] \in Nat
      OBVIOUS
    <3> QED BY <1>6, <3>1
  <2> QED BY <1>6, <2>1
<1>8. sum = Is(sum)
  <2> HIDE DEF Is
  <2> QED BY <1>3, <1>7, Zenon
<1>9. /\ DOMAIN sum = 0 .. MaxBatch /\ sum[0] = 0
      /\ \A k \in 1 .. MaxBatch : sum[k] = sum[k - 1] + cost(k)
  BY <1>2, <1>8
<1>10. 0 .. MaxBatch \subseteq {k \in 0 .. MaxBatch : sum[k] \in Nat}
  <2> DEFINE S == {k \in 0 .. MaxBatch : sum[k] \in Nat}
  <2>1. 0 \in S /\ \A k \in 1 .. MaxBatch : k - 1 \in S => k \in S
    <3>1. 0 \in S
      BY <1>2, <1>9
    <3>2. ASSUME NEW k \in 1 .. MaxBatch, k - 1 \in S PROVE k \in S
      BY <1>1, <1>2, <1>9, <3>2
    <3> QED BY <3>1, <3>2
  <2> HIDE DEF S
  <2>2. 0 .. MaxBatch \subseteq S
    BY <1>2, <2>1, Climb
  <2> QED BY <2>2 DEF S
<1>11. sum \in [0 .. MaxBatch -> Nat]
  <2>1. sum = [k \in 0 .. MaxBatch |-> sum[k]]
    BY <1>8
  <2> QED BY <2>1, <1>10
<1> QED BY <1>9, <1>11 DEF cost

\* The calls of a classified batch are within the cap together, or cost nothing.
LEMMA DecisionsFit ==
  ASSUME BudgetAssumption, BudgetTypeOK, NEW n \in 1 .. MaxBatch,
         NEW prices \in [1 .. n -> Prices \cup {Unknown}]
  PROVE  /\ IsBatch(Decisions(prices))
         /\ \A k \in DOMAIN Decisions(prices) : Decisions(prices)[k].state # "allowed"
         /\ policy.cap # NoCap =>
              LET total == Totals(Decisions(prices))[MaxBatch]
              IN total = 0 \/ spent + total <= policy.cap
<1> DEFINE before == Reservations(prices)
           calls == Decisions(prices)
           sum == Totals(calls)
           yes(k) == Approves(prices[k], before[k - 1])
           cost(k) == IF yes(k) THEN Estimate(prices[k]) ELSE 0
<1>0. MaxBatch \in Nat /\ n \in Nat /\ spent \in Nat /\ boxed \in BOOLEAN
  BY DEF BudgetAssumption, BudgetTypeOK
<1>1. /\ before \in [0 .. n -> Int] /\ before[0] = 0
      /\ \A k \in 1 .. n : before[k] = before[k - 1] + cost(k)
  BY <1>0, ReservationsAre
<1>2. calls = [k \in 1 .. n |->
                 [price |-> prices[k], estimate |-> before[k] - before[k - 1],
                  state |-> IF yes(k) THEN "approved" ELSE "asked"]]
  BY DEF Decisions
<1>3. ASSUME NEW k \in 1 .. n PROVE cost(k) \in Nat
  <2>1. prices[k] \in Prices \cup {Unknown} /\ Prices \subseteq Nat
    BY DEF BudgetAssumption
  <2> QED BY <2>1 DEF Approves, Blocked, Estimate
<1> HIDE DEF before, cost, yes
<1>4. ASSUME NEW k \in 1 .. n
      PROVE  k - 1 \in 0 .. n /\ before[k - 1] \in Int /\ before[k] - before[k - 1] = cost(k)
  <2>1. k - 1 \in 0 .. n /\ before[k - 1] \in Int /\ cost(k) \in Int
    BY <1>0, <1>1, <1>3
  <2> QED BY <1>1, <2>1
<1>5. IsBatch(calls)
  <2>1. DOMAIN calls = 1 .. n /\ 1 .. n \subseteq 1 .. MaxBatch
    BY <1>0, <1>2
  <2>2. ASSUME NEW k \in 1 .. n PROVE calls[k] \in Calls
    BY <1>2, <1>3, <1>4 DEF Calls
  <2>3. calls \in [DOMAIN calls -> Calls]
    BY <1>2, <2>1, <2>2
  <2> QED BY <2>1, <2>3 DEF IsBatch
<1>6. \A k \in DOMAIN calls : calls[k].state # "allowed"
  BY <1>2
<1>7. ASSUME policy.cap # NoCap
      PROVE  \A k \in 0 .. n : before[k] = 0 \/ spent + before[k] <= policy.cap
  <2> DEFINE S == {k \in 0 .. n : before[k] = 0 \/ spent + before[k] <= policy.cap}
  <2>0. policy.cap \in Int
    BY DEF BudgetTypeOK, Policies, BudgetAssumption, NoCap
  <2>1. 0 \in S
    BY <1>0, <1>1
  <2>2. ASSUME NEW k \in 1 .. n, k - 1 \in S PROVE k \in S
    <3>1. before[k] = before[k - 1] + cost(k) /\ before[k - 1] \in Int /\ cost(k) \in Nat
      BY <1>1, <1>3, <1>4
    <3>2. CASE cost(k) = 0
      BY <2>2, <3>1, <3>2
    <3>3. CASE cost(k) # 0
      <4>1. cost(k) = Estimate(prices[k]) /\ Estimate(prices[k]) <= Remaining(before[k - 1])
        <5>1. yes(k) /\ cost(k) = Estimate(prices[k])
          BY <3>3 DEF cost
        <5>2. ~(Estimate(prices[k]) > Remaining(before[k - 1]))
          BY <1>7, <5>1 DEF yes, Approves, Blocked
        <5>3. Remaining(before[k - 1]) \in Int
          BY <1>0, <2>0, <3>1 DEF Remaining
        <5> QED BY <3>1, <5>1, <5>2, <5>3
      <4>2. cost(k) <= policy.cap - spent - before[k - 1]
        BY <1>0, <2>0, <3>1, <3>3, <4>1 DEF Remaining
      <4> QED BY <1>0, <2>0, <3>1, <4>2
    <3> QED BY <3>2, <3>3
  <2>3. 0 .. n \subseteq S
    <3> HIDE DEF S
    <3> QED BY <1>0, <2>1, <2>2, Climb
  <2> QED BY <2>3
<1>8. sum[MaxBatch] = before[n]
  <2> DEFINE upto(k) == IF k <= n THEN k ELSE n
             S == {k \in 0 .. MaxBatch : sum[k] = before[upto(k)]}
  <2>1. /\ sum \in [0 .. MaxBatch -> Nat] /\ sum[0] = 0
        /\ \A k \in 1 .. MaxBatch :
             sum[k] = sum[k - 1] + IF k \in DOMAIN calls /\ calls[k].state = "approved"
                                   THEN calls[k].estimate ELSE 0
    <3> HIDE DEF calls
    <3> QED BY <1>5, TotalsAre
  <2> HIDE DEF sum
  <2>2. 0 \in S
    BY <1>0, <1>1, <2>1
  <2>3. ASSUME NEW k \in 1 .. MaxBatch, k - 1 \in S PROVE k \in S
    <3>1. sum[k - 1] \in Nat /\ sum[k - 1] = before[upto(k - 1)]
      BY <1>0, <2>1, <2>3
    <3>2. CASE k <= n
      <4>1. k \in 1 .. n /\ upto(k) = k /\ upto(k - 1) = k - 1
        BY <1>0, <3>2
      <4>2. calls[k].estimate = cost(k) /\ k \in DOMAIN calls
            /\ (calls[k].state = "approved" <=> yes(k))
        BY <1>2, <1>4, <4>1
      <4>3. sum[k] = sum[k - 1] + cost(k)
        BY <2>1, <4>2 DEF cost
      <4> QED BY <1>1, <3>1, <4>1, <4>3
    <3>3. CASE ~ (k <= n)
      <4>1. k \notin DOMAIN calls /\ upto(k) = n /\ upto(k - 1) = n
        BY <1>0, <1>2, <3>3
      <4>2. sum[k] = sum[k - 1]
        BY <2>1, <3>1, <4>1
      <4> QED BY <3>1, <4>1, <4>2
    <3> QED BY <3>2, <3>3
  <2>4. 0 .. MaxBatch \subseteq S
    <3> HIDE DEF S
    <3> QED BY <1>0, <2>2, <2>3, Climb
  <2>5. MaxBatch \in S
    BY <1>0, <2>4
  <2> QED BY <1>0, <2>5
<1>9. n \in 0 .. n
  BY <1>0
<1> HIDE DEF sum, calls
<1>10. policy.cap # NoCap => sum[MaxBatch] = 0 \/ spent + sum[MaxBatch] <= policy.cap
  BY <1>7, <1>8, <1>9
<1> QED BY <1>5, <1>6, <1>10 DEF sum, calls

\* What CapHolds needs beyond the types: a restart restores no more than was spent, and
\* while approved calls wait to be started none waits for the user's answer, and they fit
\* into the cap together, whatever has been created, torn down or saved meanwhile.
BudgetInv ==
  /\ BudgetTypeOK
  /\ stored.spent <= spent
  /\ In("approved") # {} =>
       /\ In("allowed") = {}
       /\ ~changed /\ policy.cap # NoCap =>
            LET total == Totals(batch)[MaxBatch]
            IN total = 0 \/ spent + total <= policy.cap

LEMMA BatchIs ==
  ASSUME BudgetTypeOK, BudgetAssumption
  PROVE  /\ IsBatch(batch) /\ Totals(batch)[MaxBatch] \in Nat
         /\ spent \in Nat /\ MaxBatch \in Nat
<1>1. IsBatch(batch) /\ MaxBatch \in Nat /\ spent \in Nat
  BY DEF BudgetTypeOK, IsBatch, Calls, BudgetAssumption
<1>2. Totals(batch) \in [0 .. MaxBatch -> Nat]
  BY <1>1, TotalsAre
<1>3. MaxBatch \in 0 .. MaxBatch
  BY <1>1
<1> QED BY <1>1, <1>2, <1>3

\* A batch without approved calls, whatever the rest.
LEMMA NoneApproved ==
  ASSUME BudgetTypeOK', stored'.spent <= spent', In("approved")' = {}
  PROVE  BudgetInv'
BY DEF BudgetInv

LEMMA NoBatch ==
  ASSUME NEW calls, calls = <<>>
  PROVE  DOMAIN calls = {} /\ IsBatch(calls)
BY DEF IsBatch

LEMMA CapIs ==
  ASSUME BudgetAssumption, policy \in Policies
  PROVE  policy.cap \in Int
<1>1. policy.cap \in Caps \cup {Default, NoCap}
  BY DEF Policies
<1>2. Caps \subseteq Int /\ Default \in Int /\ NoCap \in Int
  BY DEF BudgetAssumption, NoCap
<1> QED BY <1>1, <1>2

LEMMA BudgetStep ==
  ASSUME BudgetAssumption, BudgetInv, [BudgetNext]_budgetVars
  PROVE  /\ BudgetInv'
         /\ In("approved") # {} /\ spent' > spent /\ ~changed /\ policy.cap # NoCap
              => spent' <= policy.cap
<1> USE DEF BudgetInv
<1>0. /\ IsBatch(batch) /\ Totals(batch)[MaxBatch] \in Nat /\ spent \in Nat
      /\ MaxBatch \in Nat /\ stored.spent \in Nat /\ policy \in Policies
  BY BatchIs DEF BudgetTypeOK
<1>1. ASSUME NEW n \in 1 .. MaxBatch, NEW prices \in [1 .. n -> Prices \cup {Unknown}],
             Classify(prices)
      PROVE  BudgetInv' /\ spent' = spent
  <2>1. /\ batch' = Decisions(prices) /\ changed' = FALSE
        /\ UNCHANGED <<policy, spent, boxed, stored>>
    BY <1>1 DEF Classify
  <2>2. /\ IsBatch(Decisions(prices))
        /\ \A k \in DOMAIN Decisions(prices) : Decisions(prices)[k].state # "allowed"
        /\ policy.cap # NoCap =>
             LET total == Totals(Decisions(prices))[MaxBatch]
             IN total = 0 \/ spent + total <= policy.cap
    BY DecisionsFit
  <2>3. BudgetTypeOK'
    BY <2>1, <2>2 DEF BudgetTypeOK, IsBatch, Calls
  <2>4. In("allowed")' = {}
    BY <2>1, <2>2 DEF In
  <2> QED BY <2>1, <2>2, <2>3, <2>4
<1>2. ASSUME StartApproved
      PROVE  /\ BudgetInv'
             /\ In("approved") # {} /\ spent' > spent /\ ~changed /\ policy.cap # NoCap
                  => spent' <= policy.cap
  <2>1. /\ In("approved") # {} /\ spent' = spent + Totals(batch)[MaxBatch]
        /\ batch' = [k \in In("asked") |-> batch[k]]
        /\ UNCHANGED <<policy, boxed, stored, changed>>
    BY <1>2 DEF StartApproved, Restrict
  <2>2. BudgetTypeOK'
    <3>1. DOMAIN batch' = In("asked") /\ In("asked") \subseteq DOMAIN batch
      BY <2>1 DEF In
    <3>2. batch' \in [DOMAIN batch' -> Calls]
      BY <1>0, <2>1, <3>1 DEF IsBatch
    <3>3. spent' \in Nat
      BY <1>0, <2>1
    <3> QED BY <2>1, <3>1, <3>2, <3>3 DEF BudgetTypeOK, Calls
  <2>3. In("approved")' = {}
    BY <2>1 DEF In
  <2>4. stored'.spent <= spent'
    BY <1>0, <2>1
  <2>5. policy.cap \in Int
    BY <1>0, CapIs
  <2>6. In("approved") # {} /\ spent' > spent /\ ~changed /\ policy.cap # NoCap
          => spent' <= policy.cap
    BY <1>0, <2>1, <2>5
  <2> QED BY <2>2, <2>3, <2>4, <2>6, NoneApproved
<1>3. ASSUME Drop PROVE BudgetInv' /\ spent' = spent
  <2>1. DOMAIN batch' = {} /\ UNCHANGED <<policy, spent, boxed, stored, changed>>
    BY <1>3 DEF Drop
  <2>2. BudgetTypeOK'
    BY <1>3, <2>1 DEF BudgetTypeOK, Drop
  <2> QED BY <2>1, <2>2, NoneApproved DEF In
<1>4. ASSUME Allow PROVE BudgetInv' /\ spent' = spent
  <2>1. /\ batch' = [k \in DOMAIN batch |-> [batch[k] EXCEPT !.state = "allowed"]]
        /\ UNCHANGED <<policy, spent, boxed, stored, changed>>
    BY <1>4 DEF Allow
  <2>2. \A k \in DOMAIN batch : [batch[k] EXCEPT !.state = "allowed"] \in Calls
    BY <1>0 DEF IsBatch, Calls
  <2>3. BudgetTypeOK'
    BY <1>0, <2>1, <2>2 DEF BudgetTypeOK, IsBatch, Calls
  <2>4. In("approved")' = {}
    <3>1. \A k \in DOMAIN batch' : batch'[k].state = "allowed"
      BY <1>0, <2>1 DEF IsBatch, Calls
    <3> QED BY <3>1 DEF In
  <2> QED BY <2>1, <2>3, <2>4, NoneApproved
<1>5. ASSUME NEW k \in DOMAIN batch, RecordAllowed(k)
      PROVE  BudgetInv' /\ In("approved") = {}
  <2>1. /\ k \in In("allowed") /\ batch' = [i \in DOMAIN batch \ {k} |-> batch[i]]
        /\ UNCHANGED <<policy, boxed, stored, changed>>
    BY <1>5 DEF RecordAllowed, Restrict, In
  <2>2. In("approved") = {}
    BY <2>1
  <2>3. spent' \in Nat /\ spent' >= spent
    <3>1. batch[k].price \in Int
      BY <1>0 DEF IsBatch, Calls, BudgetAssumption, Unknown
    <3>2. Estimate(batch[k].price) \in Int
      BY <3>1 DEF Estimate
    <3> QED BY <1>0, <1>5, <3>2 DEF RecordAllowed
  <2>4. BudgetTypeOK'
    <3>1. batch' \in [DOMAIN batch' -> Calls] /\ DOMAIN batch' \subseteq 1 .. MaxBatch
      BY <1>0, <2>1 DEF IsBatch
    <3> QED BY <2>1, <2>3, <3>1 DEF BudgetTypeOK, Calls
  <2>5. In("approved")' = {}
    BY <2>1, <2>2 DEF In
  <2>6. stored'.spent <= spent'
    BY <1>0, <2>1, <2>3
  <2> QED BY <2>2, <2>4, <2>5, <2>6, NoneApproved
<1>6. ASSUME Boxed PROVE BudgetInv' /\ spent' = spent
  <2>1. /\ boxed' \in BOOLEAN /\ UNCHANGED <<policy, spent, batch, stored, changed>>
    BY <1>6 DEF Boxed
  <2> QED BY <2>1 DEF BudgetTypeOK, In
<1>7. ASSUME Snapshot PROVE BudgetInv' /\ spent' = spent
  <2>1. /\ stored' = [policy |-> policy, spent |-> spent]
        /\ UNCHANGED <<policy, spent, boxed, batch, changed>>
    BY <1>7 DEF Snapshot
  <2>2. stored' \in [policy : Policies, spent : Nat] /\ stored'.spent <= spent'
    BY <1>0, <2>1
  <2> QED BY <2>1, <2>2 DEF BudgetTypeOK, In
<1>8. ASSUME Restored PROVE BudgetInv' /\ spent' <= spent
  <2>1. /\ policy' = stored.policy /\ spent' = stored.spent /\ DOMAIN batch' = {}
        /\ boxed' = FALSE /\ changed' = TRUE /\ stored' = stored
    BY <1>8 DEF Restored
  <2>2. BudgetTypeOK'
    <3>1. IsBatch(batch')
      BY <1>8, NoBatch DEF Restored
    <3>2. stored.policy \in Policies /\ stored \in [policy : Policies, spent : Nat]
      BY DEF BudgetTypeOK
    <3> QED BY <1>0, <2>1, <3>1, <3>2 DEF BudgetTypeOK, IsBatch, Calls
  <2> QED BY <1>0, <2>1, <2>2, NoneApproved DEF In
<1>9. ASSUME NEW enabled \in BOOLEAN, NEW provided \in BOOLEAN, NEW cap \in Caps \cup {NoCap},
             Patch(enabled, provided, cap)
      PROVE  BudgetInv' /\ spent' = spent
  <2>1. /\ policy' \in Policies /\ stored' = [policy |-> policy', spent |-> spent]
        /\ changed' = TRUE /\ UNCHANGED <<spent, boxed, batch>>
    BY <1>0, <1>9 DEF Patch, Policies
  <2>2. stored' \in [policy : Policies, spent : Nat] /\ stored'.spent <= spent'
    BY <1>0, <2>1
  <2> QED BY <2>1, <2>2 DEF BudgetTypeOK, In
<1>10. ASSUME UNCHANGED budgetVars PROVE BudgetInv' /\ spent' = spent
  <2> QED BY <1>0, <1>10 DEF budgetVars, BudgetTypeOK, In
<1>11. ASSUME BudgetInv' /\ (spent' = spent \/ spent' <= spent \/ In("approved") = {})
       PROVE  /\ BudgetInv'
              /\ In("approved") # {} /\ spent' > spent /\ ~changed /\ policy.cap # NoCap
                   => spent' <= policy.cap
  <2>1. spent' \in Nat
    BY <1>11 DEF BudgetTypeOK
  <2> QED BY <1>0, <1>11, <2>1
<1> HIDE DEF BudgetInv
<1> QED
  BY <1>1, <1>2, <1>3, <1>4, <1>5, <1>6, <1>7, <1>8, <1>9, <1>10, <1>11 DEF BudgetNext

\* What auto-approved calls add to the spend stays within the cap under which they were
\* classified, for any batch of calls, any prices and any caps.
THEOREM CapIsNeverExceeded == BudgetSpec => []BudgetTypeOK /\ CapHolds
<1>1. BudgetInit => BudgetInv
  <2> SUFFICES ASSUME BudgetInit PROVE BudgetInv
    OBVIOUS
  <2>1. /\ DOMAIN batch = {} /\ IsBatch(batch)
        /\ policy \in Policies /\ stored = [policy |-> policy, spent |-> 0]
        /\ spent = 0 /\ boxed = FALSE /\ changed = FALSE
    BY NoBatch DEF BudgetInit, Policies
  <2>2. BudgetTypeOK /\ stored.spent <= spent
    <3>1. stored \in [policy : Policies, spent : Nat] /\ stored.spent <= spent
      BY <2>1
    <3> QED BY <2>1, <3>1 DEF BudgetTypeOK, IsBatch, Calls
  <2> QED BY <2>1, <2>2 DEF BudgetInv, In
<1>2. BudgetInv /\ [BudgetNext]_budgetVars
        => BudgetInv' /\ [In("approved") # {} /\ spent' > spent /\ ~changed /\ policy.cap # NoCap
                            => spent' <= policy.cap]_budgetVars
  BY BudgetAssumption, BudgetStep
<1>3. BudgetInv => BudgetTypeOK
  BY DEF BudgetInv
<1> QED BY <1>1, <1>2, <1>3, PTL DEF BudgetSpec, CapHolds

---------------------------------------------------------------------------
(***************************************************************************)
(* The guards of an autonomous turn                                        *)
(***************************************************************************)

\* Members picked from a sequence, one step per position.
PicksUp(up, A, s, S) ==
  /\ up \in [0 .. Len(s) -> Seq(A)] /\ up[0] = <<>> /\ Picked(s, S) = up[Len(s)]
  /\ \A k \in 1 .. Len(s) :
       up[k] = IF k \in S THEN Append(up[k - 1], s[k]) ELSE up[k - 1]

LEMMA PickedSteps ==
  ASSUME NEW A, NEW s \in Seq(A), NEW S
  PROVE  \E up : PicksUp(up, A, s, S)
<1> DEFINE n == Len(s)
           step(k, p) == IF k \in S THEN Append(p, s[k]) ELSE p
           next == [k \in 1 .. n |-> [p \in Seq(A) |-> step(k, p)]]
           Is(g) == [k \in 0 .. n |-> IF k = 0 THEN <<>> ELSE step(k, g[k - 1])]
           up == CHOOSE g : g = Is(g)
<1>1. n \in Nat /\ <<>> \in Seq(A)
  OBVIOUS
<1>2. \A k \in 1 .. n : \A p \in Seq(A) : step(k, p) \in Seq(A)
  OBVIOUS
<1>3. Picked(s, S) = up[n]
  BY DEF Picked
<1> HIDE DEF n, step
<1>4. next \in [1 .. n -> [Seq(A) -> Seq(A)]]
  BY <1>2
<1>5. \E f : Computes(f, n, Seq(A), <<>>, next)
  <2> HIDE DEF next
  <2> QED BY <1>1, <1>4, Recursion, Zenon
<1>6. PICK f \in [0 .. n -> Seq(A)] : f[0] = <<>> /\ \A k \in 1 .. n : f[k] = next[k][f[k - 1]]
  BY <1>5 DEF Computes
<1>7. f = Is(f)
  <2>1. ASSUME NEW k \in 1 .. n PROVE f[k] = step(k, f[k - 1])
    <3>1. f[k - 1] \in Seq(A)
      BY <1>1
    <3> QED BY <1>6, <3>1
  <2> QED BY <1>6, <2>1
<1>8. up = Is(up)
  <2> HIDE DEF Is
  <2> QED BY <1>7, Zenon
<1> HIDE DEF up
<1>9. up[0] = <<>> /\ \A k \in 1 .. n : up[k] = step(k, up[k - 1])
  <2>1. \A k \in 0 .. n : up[k] = IF k = 0 THEN <<>> ELSE step(k, up[k - 1])
    BY <1>8
  <2> QED BY <1>1, <2>1
<1>10. 0 .. n \subseteq {k \in 0 .. n : up[k] \in Seq(A)}
  <2> DEFINE T == {k \in 0 .. n : up[k] \in Seq(A)}
  <2>1. 0 \in T
    <3>1. 0 \in 0 .. n
      BY <1>1
    <3>2. up[0] \in Seq(A)
      BY <1>1, <1>9
    <3> QED BY <3>1, <3>2
  <2>2. ASSUME NEW k \in 1 .. n, k - 1 \in T PROVE k \in T
    <3>1. step(k, up[k - 1]) \in Seq(A)
      BY <1>2, <2>2
    <3>2. k \in 0 .. n
      BY <1>1
    <3> QED BY <1>9, <3>1, <3>2
  <2> HIDE DEF T
  <2>3. 0 .. n \subseteq T
    BY <1>1, <2>1, <2>2, Climb
  <2> QED BY <2>3 DEF T
<1>11. up \in [0 .. n -> Seq(A)]
  <2>1. up = [k \in 0 .. n |-> up[k]]
    BY <1>8
  <2> QED BY <1>10, <2>1
<1> QED BY <1>3, <1>9, <1>11 DEF n, step, PicksUp

\* The positions that were picked, in their order.
Embeds(e, p, s, S, k) ==
  /\ e \in [1 .. Len(p) -> S \cap (1 .. k)]
  /\ \A i, j \in 1 .. Len(p) : i < j => e[i] < e[j]
  /\ \A i \in 1 .. Len(p) : p[i] = s[e[i]]
  /\ \A m \in S \cap (1 .. k) : \E i \in 1 .. Len(p) : e[i] = m

LEMMA PickedIs ==
  ASSUME NEW A, NEW s \in Seq(A), NEW S
  PROVE  Picked(s, S) \in Seq(A) /\ \E e : Embeds(e, Picked(s, S), s, S, Len(s))
<1>0. Len(s) \in Nat
  OBVIOUS
<1>1. PICK up \in [0 .. Len(s) -> Seq(A)] :
        /\ up[0] = <<>> /\ Picked(s, S) = up[Len(s)]
        /\ \A k \in 1 .. Len(s) :
             up[k] = IF k \in S THEN Append(up[k - 1], s[k]) ELSE up[k - 1]
  BY PickedSteps DEF PicksUp
<1> DEFINE T == {k \in 0 .. Len(s) : \E e : Embeds(e, up[k], s, S, k)}
<1>2. 0 \in T
  <2> DEFINE e == [i \in {} |-> 0]
  <2>1. Embeds(e, up[0], s, S, 0)
    BY <1>1 DEF Embeds
  <2> HIDE DEF e
  <2> QED BY <2>1
<1>3. ASSUME NEW k \in 1 .. Len(s), k - 1 \in T PROVE k \in T
  <2>1. PICK d : Embeds(d, up[k - 1], s, S, k - 1)
    BY <1>3
  <2> DEFINE p == up[k - 1]
  <2>2. p \in Seq(A) /\ k \in Nat /\ k >= 1
    OBVIOUS
  <2>3. /\ d \in [1 .. Len(p) -> S \cap (1 .. k - 1)]
        /\ \A i, j \in 1 .. Len(p) : i < j => d[i] < d[j]
        /\ \A i \in 1 .. Len(p) : p[i] = s[d[i]]
        /\ \A m \in S \cap (1 .. k - 1) : \E i \in 1 .. Len(p) : d[i] = m
    BY <2>1 DEF Embeds
  <2> HIDE DEF p
  <2>4. CASE k \notin S
    <3>1. up[k] = p /\ S \cap (1 .. k) = S \cap (1 .. k - 1)
      BY <1>1, <2>2, <2>4 DEF p
    <3>2. Embeds(d, up[k], s, S, k)
      BY <2>3, <3>1 DEF Embeds
    <3> QED BY <3>2
  <2>5. CASE k \in S
    <3> DEFINE e == [i \in 1 .. Len(p) + 1 |-> IF i = Len(p) + 1 THEN k ELSE d[i]]
    <3>1. /\ Len(up[k]) = Len(p) + 1 /\ Len(p) \in Nat
          /\ \A i \in 1 .. Len(p) : up[k][i] = p[i]
          /\ up[k][Len(p) + 1] = s[k]
      <4>1. up[k] = Append(p, s[k])
        BY <1>1, <2>5 DEF p
      <4>2. s[k] \in A
        OBVIOUS
      <4> QED BY <2>2, <4>1, <4>2
    <3>2. /\ \A i \in 1 .. Len(p) : e[i] = d[i] /\ d[i] \in S \cap (1 .. k - 1)
          /\ e[Len(p) + 1] = k
      <4>1. \A i \in 1 .. Len(p) : i \in 1 .. Len(p) + 1 /\ i # Len(p) + 1
        BY <3>1
      <4>2. Len(p) + 1 \in 1 .. Len(p) + 1
        BY <3>1
      <4> QED BY <2>3, <4>1, <4>2
    <3>3. e \in [1 .. Len(p) + 1 -> S \cap (1 .. k)]
      <4>1. ASSUME NEW i \in 1 .. Len(p) + 1 PROVE e[i] \in S \cap (1 .. k)
        <5>1. CASE i = Len(p) + 1
          BY <2>2, <2>5, <3>2, <5>1
        <5>2. CASE i # Len(p) + 1
          <6>1. i \in 1 .. Len(p)
            BY <3>1, <5>2
          <6>2. e[i] \in S \cap (1 .. k - 1)
            BY <3>2, <6>1
          <6> QED BY <2>2, <6>2
        <5> QED BY <5>1, <5>2
      <4>2. e = [i \in 1 .. Len(p) + 1 |-> e[i]]
        OBVIOUS
      <4> HIDE DEF e
      <4> QED BY <4>1, <4>2
    <3> HIDE DEF e
    <3>4. \A i, j \in 1 .. Len(p) + 1 : i < j => e[i] < e[j]
      <4> TAKE i, j \in 1 .. Len(p) + 1
      <4> HAVE i < j
      <4>1. CASE j = Len(p) + 1
        <5>1. i \in 1 .. Len(p)
          BY <3>1, <4>1
        <5>2. e[i] \in 1 .. k - 1 /\ e[j] = k
          BY <3>2, <4>1, <5>1
        <5> QED BY <2>2, <5>2
      <4>2. CASE j # Len(p) + 1
        <5>1. i \in 1 .. Len(p) /\ j \in 1 .. Len(p)
          BY <3>1, <4>2
        <5> QED BY <2>3, <3>2, <5>1
      <4> QED BY <4>1, <4>2
    <3>5. ASSUME NEW i \in 1 .. Len(p) + 1 PROVE up[k][i] = s[e[i]]
      <4>1. CASE i = Len(p) + 1
        BY <3>1, <3>2, <4>1
      <4>2. CASE i # Len(p) + 1
        <5>1. i \in 1 .. Len(p)
          BY <3>1, <4>2
        <5> QED BY <2>3, <3>1, <3>2, <5>1
      <4> QED BY <4>1, <4>2
    <3>6. \A m \in S \cap (1 .. k) : \E i \in 1 .. Len(p) + 1 : e[i] = m
      <4> TAKE m \in S \cap (1 .. k)
      <4>1. CASE m = k
        BY <3>1, <3>2, <4>1
      <4>2. CASE m # k
        <5>1. PICK i \in 1 .. Len(p) : d[i] = m
          BY <2>2, <2>3, <4>2
        <5>2. i \in 1 .. Len(p) + 1 /\ e[i] = m
          BY <3>1, <3>2, <5>1
        <5> QED BY <5>2
      <4> QED BY <4>1, <4>2
    <3>7. Embeds(e, up[k], s, S, k)
      BY <3>1, <3>3, <3>4, <3>5, <3>6 DEF Embeds
    <3> QED BY <3>7
  <2> QED BY <2>4, <2>5
<1>4. Len(s) \in T
  <2> HIDE DEF T
  <2>1. 0 .. Len(s) \subseteq T
    BY <1>0, <1>2, <1>3, Climb
  <2> QED BY <1>0, <2>1
<1> QED BY <1>1, <1>4

\* A sequence is split by what is picked from it and what is left.
LEMMA PickedParts ==
  ASSUME NEW A, NEW s \in Seq(A), NEW S
  PROVE  Len(Picked(s, S)) + Len(Picked(s, DOMAIN s \ S)) = Len(s)
<1>0. Len(s) \in Nat
  OBVIOUS
<1>1. PICK up \in [0 .. Len(s) -> Seq(A)] :
        /\ up[0] = <<>> /\ Picked(s, S) = up[Len(s)]
        /\ \A k \in 1 .. Len(s) :
             up[k] = IF k \in S THEN Append(up[k - 1], s[k]) ELSE up[k - 1]
  BY PickedSteps DEF PicksUp
<1> DEFINE R == DOMAIN s \ S
<1> HIDE DEF R
<1>6. PICK uq : PicksUp(uq, A, s, R)
  BY PickedSteps
<1>2. /\ uq \in [0 .. Len(s) -> Seq(A)] /\ uq[0] = <<>> /\ Picked(s, R) = uq[Len(s)]
      /\ \A k \in 1 .. Len(s) :
           uq[k] = IF k \in R THEN Append(uq[k - 1], s[k]) ELSE uq[k - 1]
  BY <1>6 DEF PicksUp
<1> DEFINE T == {k \in 0 .. Len(s) : Len(up[k]) + Len(uq[k]) = k}
<1>3. 0 \in T
  BY <1>0, <1>1, <1>2
<1>4. ASSUME NEW k \in 1 .. Len(s), k - 1 \in T PROVE k \in T
  <2>1. /\ k - 1 \in 0 .. Len(s) /\ s[k] \in A /\ (k \in R <=> k \notin S)
        /\ up[k - 1] \in Seq(A) /\ uq[k - 1] \in Seq(A)
        /\ Len(up[k - 1]) \in Nat /\ Len(uq[k - 1]) \in Nat /\ k \in 0 .. Len(s)
    <3>1. k - 1 \in 0 .. Len(s) /\ k \in 0 .. Len(s)
      BY <1>0
    <3>2. up[k - 1] \in Seq(A) /\ uq[k - 1] \in Seq(A)
      BY <1>2, <3>1
    <3>3. s[k] \in A /\ (k \in R <=> k \notin S)
      BY DEF R
    <3>4. Len(up[k - 1]) \in Nat /\ Len(uq[k - 1]) \in Nat
      BY <3>2
    <3> QED BY <3>1, <3>2, <3>3, <3>4
  <2>2. Len(up[k - 1]) + Len(uq[k - 1]) = k - 1
    BY <1>4
  <2>3. CASE k \in S
    <3>1. Len(up[k]) = Len(up[k - 1]) + 1 /\ Len(uq[k]) = Len(uq[k - 1])
      <4>1. up[k] = Append(up[k - 1], s[k])
        BY <1>1, <2>3
      <4>2. uq[k] = uq[k - 1]
        BY <1>2, <2>1, <2>3
      <4>3. Len(Append(up[k - 1], s[k])) = Len(up[k - 1]) + 1
        BY <2>1
      <4> QED BY <4>1, <4>2, <4>3
    <3>2. Len(up[k]) + Len(uq[k]) = k
      <4> DEFINE x == Len(up[k - 1])
                 y == Len(uq[k - 1])
      <4>1. x \in Nat /\ y \in Nat /\ x + y = k - 1 /\ k \in Int
        <5>1. k \in Int
          BY <1>0
        <5>2. x \in Nat /\ y \in Nat
          BY <2>1, Zenon
        <5> QED BY <2>2, <5>1, <5>2, Zenon
      <4>2. Len(up[k]) = x + 1 /\ Len(uq[k]) = y
        BY <3>1
      <4> HIDE DEF x, y
      <4> QED BY <4>1, <4>2
    <3> QED BY <2>1, <3>2
  <2>4. CASE k \notin S
    <3>1. Len(up[k]) = Len(up[k - 1]) /\ Len(uq[k]) = Len(uq[k - 1]) + 1
      <4>1. uq[k] = Append(uq[k - 1], s[k])
        BY <1>2, <2>1, <2>4
      <4>2. up[k] = up[k - 1]
        BY <1>1, <2>4
      <4>3. Len(Append(uq[k - 1], s[k])) = Len(uq[k - 1]) + 1
        BY <2>1
      <4> QED BY <4>1, <4>2, <4>3
    <3>2. Len(up[k]) + Len(uq[k]) = k
      <4> DEFINE x == Len(up[k - 1])
                 y == Len(uq[k - 1])
      <4>1. x \in Nat /\ y \in Nat /\ x + y = k - 1 /\ k \in Int
        <5>1. k \in Int
          BY <1>0
        <5>2. x \in Nat /\ y \in Nat
          BY <2>1, Zenon
        <5> QED BY <2>2, <5>1, <5>2, Zenon
      <4>2. Len(up[k]) = x /\ Len(uq[k]) = y + 1
        BY <3>1
      <4> HIDE DEF x, y
      <4> QED BY <4>1, <4>2
    <3> QED BY <2>1, <3>2
  <2> QED BY <2>3, <2>4
<1>5. Len(s) \in T
  <2> HIDE DEF T
  <2>1. 0 .. Len(s) \subseteq T
    BY <1>0, <1>3, <1>4, Climb
  <2> QED BY <1>0, <2>1
<1> QED BY <1>1, <1>2, <1>5 DEF R

---------------------------------------------------------------------------
(* The calls of some messages                                              *)

HaveCalls(msgs, C) ==
  Len(msgs) \in Nat /\ \A k \in 1 .. Len(msgs) : msgs[k].calls \in Seq(C)
CallsUp(up, C, msgs) ==
  /\ up \in [0 .. Len(msgs) -> Seq(C)] /\ up[0] = <<>> /\ CallsOf(msgs) = up[Len(msgs)]
  /\ \A k \in 1 .. Len(msgs) : up[k] = up[k - 1] \o msgs[k].calls

LEMMA CallsSteps ==
  ASSUME NEW C, NEW msgs, HaveCalls(msgs, C)
  PROVE  \E up : CallsUp(up, C, msgs)
<1> DEFINE n == Len(msgs)
           next == [k \in 1 .. n |-> [p \in Seq(C) |-> p \o msgs[k].calls]]
           Is(g) == [k \in 0 .. n |-> IF k = 0 THEN <<>> ELSE g[k - 1] \o msgs[k].calls]
           up == CHOOSE g : g = Is(g)
<1>1. n \in Nat /\ <<>> \in Seq(C) /\ \A k \in 1 .. n : msgs[k].calls \in Seq(C)
  BY DEF HaveCalls
<1>2. CallsOf(msgs) = up[n]
  BY DEF CallsOf
<1> HIDE DEF n
<1>3. \A k \in 1 .. n : \A p \in Seq(C) : p \o msgs[k].calls \in Seq(C)
  BY <1>1, ConcatProperties
<1>4. next \in [1 .. n -> [Seq(C) -> Seq(C)]]
  BY <1>3
<1>5. \E f : Computes(f, n, Seq(C), <<>>, next)
  <2> HIDE DEF next
  <2> QED BY <1>1, <1>4, Recursion, Zenon
<1>6. PICK f \in [0 .. n -> Seq(C)] : f[0] = <<>> /\ \A k \in 1 .. n : f[k] = next[k][f[k - 1]]
  BY <1>5 DEF Computes
<1>7. f = Is(f)
  <2>1. ASSUME NEW k \in 1 .. n PROVE f[k] = f[k - 1] \o msgs[k].calls
    <3>1. f[k - 1] \in Seq(C)
      BY <1>1
    <3> QED BY <1>6, <3>1
  <2>2. f = [k \in 0 .. n |-> f[k]]
    BY <1>6
  <2>3. \A k \in 0 .. n : f[k] = IF k = 0 THEN <<>> ELSE f[k - 1] \o msgs[k].calls
    <3> TAKE k \in 0 .. n
    <3>1. CASE k = 0
      BY <1>6, <3>1
    <3>2. CASE k # 0
      <4>1. k \in 1 .. n
        BY <1>1, <3>2
      <4> QED BY <2>1, <3>2, <4>1
    <3> QED BY <3>1, <3>2
  <2>4. Is(f) = [k \in 0 .. n |-> f[k]]
    BY <2>3, Zenon
  <2> QED BY <2>2, <2>4, Zenon
<1>8. up = Is(up)
  <2> HIDE DEF Is
  <2> QED BY <1>7, Zenon
<1> HIDE DEF up
<1>9. up[0] = <<>> /\ \A k \in 1 .. n : up[k] = up[k - 1] \o msgs[k].calls
  <2>1. \A k \in 0 .. n : up[k] = IF k = 0 THEN <<>> ELSE up[k - 1] \o msgs[k].calls
    BY <1>8
  <2>2. 0 \in 0 .. n
    BY <1>1
  <2>3. up[0] = <<>>
    BY <2>1, <2>2, Zenon
  <2>4. ASSUME NEW k \in 1 .. n PROVE up[k] = up[k - 1] \o msgs[k].calls
    <3>1. k \in 0 .. n /\ k # 0
      BY <1>1
    <3> QED BY <2>1, <3>1, Zenon
  <2> QED BY <2>3, <2>4
<1>10. 0 .. n \subseteq {k \in 0 .. n : up[k] \in Seq(C)}
  <2> DEFINE T == {k \in 0 .. n : up[k] \in Seq(C)}
  <2>1. 0 \in T
    <3>1. 0 \in 0 .. n
      BY <1>1
    <3>2. up[0] \in Seq(C)
      BY <1>1, <1>9
    <3> QED BY <3>1, <3>2
  <2>2. ASSUME NEW k \in 1 .. n, k - 1 \in T PROVE k \in T
    <3>1. up[k - 1] \o msgs[k].calls \in Seq(C)
      BY <1>3, <2>2
    <3>2. k \in 0 .. n
      BY <1>1
    <3> QED BY <1>9, <3>1, <3>2
  <2> HIDE DEF T
  <2>3. 0 .. n \subseteq T
    BY <1>1, <2>1, <2>2, Climb
  <2> QED BY <2>3 DEF T
<1>11. up \in [0 .. n -> Seq(C)]
  <2>1. up = [k \in 0 .. n |-> up[k]]
    BY <1>8
  <2> QED BY <1>10, <2>1
<1> QED BY <1>2, <1>9, <1>11 DEF n, CallsUp

LEMMA CallsTyped ==
  ASSUME NEW C, NEW msgs, HaveCalls(msgs, C)
  PROVE  CallsOf(msgs) \in Seq(C)
<1>1. PICK up : CallsUp(up, C, msgs)
  BY CallsSteps
<1> QED BY <1>1 DEF CallsUp, HaveCalls

\* Messages without calls have none.
LEMMA NoCalls ==
  ASSUME NEW C, NEW msgs, HaveCalls(msgs, C), \A k \in 1 .. Len(msgs) : msgs[k].calls = <<>>
  PROVE  CallsOf(msgs) = <<>>
<1>1. PICK up : CallsUp(up, C, msgs)
  BY CallsSteps
<1>2. /\ up \in [0 .. Len(msgs) -> Seq(C)] /\ up[0] = <<>> /\ CallsOf(msgs) = up[Len(msgs)]
      /\ \A k \in 1 .. Len(msgs) : up[k] = up[k - 1] \o <<>>
      /\ Len(msgs) \in Nat
  BY <1>1 DEF CallsUp, HaveCalls
<1> DEFINE T == {k \in 0 .. Len(msgs) : up[k] = <<>>}
<1>3. 0 \in T
  BY <1>2
<1>4. ASSUME NEW k \in 1 .. Len(msgs), k - 1 \in T PROVE k \in T
  <2>1. up[k] = <<>> \o <<>> /\ k \in 0 .. Len(msgs)
    BY <1>2, <1>4
  <2>2. <<>> \in Seq(C)
    OBVIOUS
  <2>3. <<>> \o <<>> = <<>>
    BY <2>2, ConcatEmptySeq
  <2> QED BY <2>1, <2>3
<1>5. Len(msgs) \in T
  <2> HIDE DEF T
  <2>1. 0 .. Len(msgs) \subseteq T
    BY <1>2, <1>3, <1>4, Climb
  <2> QED BY <1>2, <2>1
<1> QED BY <1>2, <1>5

\* The calls of two parts follow one another.
WithCalls(M, C) == \A m \in M : m.calls \in Seq(C)
LEMMA CallsJoin ==
  ASSUME NEW C, NEW M, WithCalls(M, C), NEW s \in Seq(M), NEW t \in Seq(M)
  PROVE  CallsOf(s \o t) = CallsOf(s) \o CallsOf(t)
<1>1. /\ s \o t \in Seq(M) /\ Len(s \o t) = Len(s) + Len(t)
      /\ Len(s) \in Nat /\ Len(t) \in Nat
      /\ \A k \in 1 .. Len(s) : (s \o t)[k] = s[k]
      /\ \A k \in 1 .. Len(t) : (s \o t)[Len(s) + k] = t[k]
  <2>1. Len(s) \in Nat /\ Len(t) \in Nat
    OBVIOUS
  <2>2. /\ s \o t \in Seq(M) /\ Len(s \o t) = Len(s) + Len(t)
        /\ \A i \in 1 .. Len(s) + Len(t) : (s \o t)[i] =
                     IF i <= Len(s) THEN s[i] ELSE t[i - Len(s)]
    BY ConcatProperties
  <2> QED BY <2>1, <2>2
<1>2. HaveCalls(s, C) /\ HaveCalls(t, C) /\ HaveCalls(s \o t, C)
  <2>1. \A u \in Seq(M) : HaveCalls(u, C)
    BY ElementOfSeq DEF HaveCalls, WithCalls
  <2> QED BY <1>1, <2>1
<1>3. PICK us : CallsUp(us, C, s)
  BY <1>2, CallsSteps
<1>4. PICK ut : CallsUp(ut, C, t)
  BY <1>2, CallsSteps
<1>5. PICK ub : CallsUp(ub, C, s \o t)
  BY <1>2, CallsSteps
<1>6. /\ us[0] = <<>> /\ ut[0] = <<>> /\ ub[0] = <<>>
      /\ CallsOf(s) = us[Len(s)] /\ CallsOf(t) = ut[Len(t)]
      /\ CallsOf(s \o t) = ub[Len(s) + Len(t)]
      /\ us \in [0 .. Len(s) -> Seq(C)] /\ ut \in [0 .. Len(t) -> Seq(C)]
      /\ \A k \in 1 .. Len(s) : us[k] = us[k - 1] \o s[k].calls
      /\ \A k \in 1 .. Len(t) : ut[k] = ut[k - 1] \o t[k].calls
      /\ \A k \in 1 .. Len(s) + Len(t) : ub[k] = ub[k - 1] \o (s \o t)[k].calls
  BY <1>1, <1>3, <1>4, <1>5 DEF CallsUp
<1>7. ub[Len(s)] = us[Len(s)]
  <2> DEFINE T == {k \in 0 .. Len(s) : ub[k] = us[k]}
  <2>1. 0 \in T
    BY <1>1, <1>6
  <2>2. ASSUME NEW k \in 1 .. Len(s), k - 1 \in T PROVE k \in T
    <3>1. k \in 1 .. Len(s) + Len(t) /\ k \in 0 .. Len(s)
      BY <1>1
    <3>2. ub[k] = ub[k - 1] \o s[k].calls
      BY <1>1, <1>6, <3>1
    <3> QED BY <1>6, <2>2, <3>1, <3>2
  <2>3. Len(s) \in T
    <3> HIDE DEF T
    <3>1. 0 .. Len(s) \subseteq T
      BY <1>1, <2>1, <2>2, Climb
    <3> QED BY <1>1, <3>1
  <2> QED BY <2>3
<1>8. ub[Len(s) + Len(t)] = us[Len(s)] \o ut[Len(t)]
  <2> DEFINE S == us[Len(s)]
             T == {k \in 0 .. Len(t) : ub[Len(s) + k] = S \o ut[k]}
  <2>0. S \in Seq(C)
    BY <1>1, <1>6
  <2>1. 0 \in T
    <3>1. S \o ut[0] = S
      BY <1>6, <2>0, ConcatEmptySeq
    <3>2. ub[Len(s) + 0] = S /\ 0 \in 0 .. Len(t)
      BY <1>1, <1>7
    <3> HIDE DEF S
    <3> QED BY <3>1, <3>2
  <2> HIDE DEF S
  <2>2. ASSUME NEW k \in 1 .. Len(t), k - 1 \in T PROVE k \in T
    <3>1. /\ Len(s) + k \in 1 .. Len(s) + Len(t) /\ k \in 0 .. Len(t) /\ k - 1 \in 0 .. Len(t)
          /\ (Len(s) + k) - 1 = Len(s) + (k - 1)
      BY <1>1
    <3>2. ub[Len(s) + k] = ub[Len(s) + (k - 1)] \o t[k].calls
      <4>1. (s \o t)[Len(s) + k] = t[k]
        BY <1>1
      <4>2. ub[Len(s) + k] = ub[(Len(s) + k) - 1] \o (s \o t)[Len(s) + k].calls
        BY <1>6, <3>1, Zenon
      <4> QED BY <3>1, <4>1, <4>2
    <3>3. ub[Len(s) + (k - 1)] = S \o ut[k - 1]
      BY <2>2
    <3>4. ut[k - 1] \in Seq(C) /\ t[k].calls \in Seq(C)
      BY <1>2, <1>6, <3>1 DEF HaveCalls
    <3>7. \A x, y, z \in Seq(C) : (x \o y) \o z = x \o (y \o z)
      BY ConcatAssociative
    <3>5. (S \o ut[k - 1]) \o t[k].calls = S \o (ut[k - 1] \o t[k].calls)
      BY <2>0, <3>4, <3>7, Zenon
    <3>6. ub[Len(s) + k] = S \o ut[k]
      BY <1>6, <3>2, <3>3, <3>5
    <3> QED BY <3>1, <3>6
  <2>3. Len(t) \in T
    <3> HIDE DEF T
    <3>1. 0 .. Len(t) \subseteq T
      BY <1>1, <2>1, <2>2, Climb
    <3> QED BY <1>1, <3>1
  <2> QED BY <2>3 DEF S
<1> QED BY <1>6, <1>8

\* The newest messages once messages without calls have been appended: the calls are a
\* tail of what they were.
LEMMA Window ==
  ASSUME NEW C, NEW M, WithCalls(M, C), NEW s \in Seq(M), NEW t \in Seq(M),
         \A k \in 1 .. Len(t) : t[k].calls = <<>>, NEW n \in Nat
  PROVE  \E front \in Seq(C) :
           /\ CallsOf(Newest(s, n)) = front \o CallsOf(Newest(s \o t, n))
           /\ CallsOf(Newest(s \o t, n)) \in Seq(C)
<1> DEFINE st == s \o t
<1>1. /\ st \in Seq(M) /\ Len(st) = Len(s) + Len(t)
      /\ Len(s) \in Nat /\ Len(t) \in Nat
      /\ \A k \in 1 .. Len(s) : st[k] = s[k]
      /\ \A k \in 1 .. Len(t) : st[Len(s) + k] = t[k]
  <2>1. Len(s) \in Nat /\ Len(t) \in Nat
    OBVIOUS
  <2>2. /\ s \o t \in Seq(M) /\ Len(s \o t) = Len(s) + Len(t)
        /\ \A i \in 1 .. Len(s) + Len(t) : (s \o t)[i] =
                     IF i <= Len(s) THEN s[i] ELSE t[i - Len(s)]
    BY ConcatProperties
  <2> QED BY <2>1, <2>2
<1> HIDE DEF st
<1>2. \A u \in Seq(M) : HaveCalls(u, C)
  BY ElementOfSeq DEF HaveCalls, WithCalls
<1> DEFINE a == IF Len(s) > n THEN Len(s) - n ELSE 0
           b == IF Len(st) > n THEN Len(st) - n ELSE 0
<1>3. /\ a \in 0 .. Len(s) /\ b \in 0 .. Len(st) /\ a <= b /\ b \in Nat /\ a \in Nat
  BY <1>1
<1>4. Newest(s, n) = SubSeq(s, a + 1, Len(s)) /\ Newest(st, n) = SubSeq(st, b + 1, Len(st))
  BY <1>1 DEF Newest
<1> HIDE DEF a, b
<1>5. /\ Newest(s, n) \in Seq(M) /\ Len(Newest(s, n)) = Len(s) - a
      /\ \A i \in 1 .. Len(s) - a : Newest(s, n)[i] = s[a + i]
  <2>1. \A i \in a + 1 .. Len(s) : s[i] \in M
    BY <1>3
  <2>2. /\ SubSeq(s, a + 1, Len(s)) \in Seq(M)
        /\ Len(SubSeq(s, a + 1, Len(s)))
             = IF a + 1 <= Len(s) THEN Len(s) - (a + 1) + 1 ELSE 0
        /\ \A i \in 1 .. Len(s) - (a + 1) + 1 :
             SubSeq(s, a + 1, Len(s))[i] = s[a + 1 + i - 1]
    BY <1>1, <1>3, <2>1, SubSeqProperties
  <2> QED BY <1>1, <1>3, <1>4, <2>2
<1>6. /\ Newest(st, n) \in Seq(M) /\ Len(Newest(st, n)) = Len(st) - b
      /\ \A i \in 1 .. Len(st) - b : Newest(st, n)[i] = st[b + i]
  <2>1. \A i \in b + 1 .. Len(st) : st[i] \in M
    BY <1>1, <1>3
  <2>2. /\ SubSeq(st, b + 1, Len(st)) \in Seq(M)
        /\ Len(SubSeq(st, b + 1, Len(st)))
             = IF b + 1 <= Len(st) THEN Len(st) - (b + 1) + 1 ELSE 0
        /\ \A i \in 1 .. Len(st) - (b + 1) + 1 :
             SubSeq(st, b + 1, Len(st))[i] = st[b + 1 + i - 1]
    BY <1>1, <1>3, <2>1, SubSeqProperties
  <2> QED BY <1>1, <1>3, <1>4, <2>2
<1>7. CallsOf(Newest(s, n)) \in Seq(C) /\ CallsOf(Newest(st, n)) \in Seq(C)
  BY <1>2, <1>5, <1>6, CallsTyped
<1>8. CASE b > Len(s)
  <2>1. \A k \in 1 .. Len(Newest(st, n)) : Newest(st, n)[k].calls = <<>>
    <3> TAKE k \in 1 .. Len(Newest(st, n))
    <3>1. Newest(st, n)[k] = st[Len(s) + (b + k - Len(s))] /\ b + k - Len(s) \in 1 .. Len(t)
      BY <1>1, <1>3, <1>6, <1>8
    <3> QED BY <1>1, <3>1
  <2>2. CallsOf(Newest(st, n)) = <<>>
    BY <1>2, <1>6, <2>1, NoCalls
  <2>3. CallsOf(Newest(s, n)) = CallsOf(Newest(s, n)) \o CallsOf(Newest(st, n))
    BY <1>7, <2>2, ConcatEmptySeq
  <2> QED BY <1>7, <2>3 DEF st
<1>9. CASE b <= Len(s)
  <2> DEFINE P == SubSeq(s, a + 1, b)
             Q == SubSeq(s, b + 1, Len(s))
  <2>1. /\ P \in Seq(M) /\ Len(P) = b - a
        /\ \A i \in 1 .. b - a : P[i] = s[a + i]
    <3>1. \A i \in a + 1 .. b : s[i] \in M
      BY <1>3, <1>9
    <3>2. /\ P \in Seq(M) /\ Len(P) = IF a + 1 <= b THEN b - (a + 1) + 1 ELSE 0
          /\ \A i \in 1 .. b - (a + 1) + 1 : P[i] = s[a + 1 + i - 1]
      BY <1>1, <1>3, <3>1, SubSeqProperties
    <3> HIDE DEF P
    <3> QED BY <1>1, <1>3, <3>2
  <2>2. /\ Q \in Seq(M) /\ Len(Q) = Len(s) - b
        /\ \A i \in 1 .. Len(s) - b : Q[i] = s[b + i]
    <3>1. \A i \in b + 1 .. Len(s) : s[i] \in M
      BY <1>3, <1>9
    <3>2. /\ Q \in Seq(M) /\ Len(Q) = IF b + 1 <= Len(s) THEN Len(s) - (b + 1) + 1 ELSE 0
          /\ \A i \in 1 .. Len(s) - (b + 1) + 1 : Q[i] = s[b + 1 + i - 1]
      BY <1>1, <1>3, <3>1, SubSeqProperties
    <3> HIDE DEF Q
    <3>3. /\ Len(s) - (b + 1) + 1 = Len(s) - b
          /\ b + 1 <= Len(s) \/ Len(s) - b = 0
          /\ \A i \in 1 .. Len(s) - b : b + 1 + i - 1 = b + i
      BY <1>1, <1>3, <1>9
    <3> QED BY <3>2, <3>3
  <2> HIDE DEF P, Q
  <2>3. Newest(s, n) = P \o Q
    <3>1. a + 1 \in 1 .. Len(s) + 1 /\ b \in (a + 1) - 1 .. Len(s) /\ Len(s) \in b .. Len(s)
      BY <1>1, <1>3, <1>9
    <3>2. SubSeq(s, a + 1, b) \o SubSeq(s, b + 1, Len(s)) = SubSeq(s, a + 1, Len(s))
      BY <3>1, ConcatAdjacentSubSeq
    <3> QED BY <1>4, <3>2 DEF P, Q
  <2>4. Newest(st, n) = Q \o t
    <3>1. /\ Q \o t \in Seq(M) /\ Len(Q \o t) = Len(st) - b
          /\ \A i \in 1 .. Len(st) - b :
               (Q \o t)[i] = IF i <= Len(s) - b THEN Q[i] ELSE t[i - (Len(s) - b)]
      <4>1. /\ Q \o t \in Seq(M) /\ Len(Q \o t) = Len(Q) + Len(t)
            /\ \A i \in 1 .. Len(Q) + Len(t) :
                 (Q \o t)[i] = IF i <= Len(Q) THEN Q[i] ELSE t[i - Len(Q)]
        BY <2>2, ConcatProperties
      <4>2. Len(Q) + Len(t) = Len(st) - b
        BY <1>1, <1>3, <2>2
      <4> QED BY <2>2, <4>1, <4>2
    <3>2. ASSUME NEW i \in 1 .. Len(st) - b PROVE (Q \o t)[i] = st[b + i]
      <4>1. CASE i <= Len(s) - b
        <5>1. i \in 1 .. Len(s) - b /\ b + i \in 1 .. Len(s)
          BY <1>1, <1>3, <4>1
        <5> QED BY <1>1, <2>2, <3>1, <4>1, <5>1
      <4>2. CASE ~(i <= Len(s) - b)
        <5>1. i - (Len(s) - b) \in 1 .. Len(t) /\ Len(s) + (i - (Len(s) - b)) = b + i
          BY <1>1, <1>3, <4>2
        <5>2. st[Len(s) + (i - (Len(s) - b))] = t[i - (Len(s) - b)]
          BY <1>1, <5>1
        <5> QED BY <3>1, <4>2, <5>1, <5>2
      <4> QED BY <4>1, <4>2
    <3>3. /\ Newest(st, n) \in Seq(M) /\ Q \o t \in Seq(M)
          /\ Len(Newest(st, n)) = Len(Q \o t)
          /\ \A i \in 1 .. Len(Newest(st, n)) : Newest(st, n)[i] = (Q \o t)[i]
      BY <1>6, <3>1, <3>2
    <3> QED BY <3>3, SeqEqual, Zenon
  <2>9. \A x, y \in Seq(M) : CallsOf(x \o y) = CallsOf(x) \o CallsOf(y)
    <3>1. ASSUME NEW x \in Seq(M), NEW y \in Seq(M)
          PROVE  CallsOf(x \o y) = CallsOf(x) \o CallsOf(y)
      BY CallsJoin
    <3> QED BY <3>1, Zenon
  <2>5. CallsOf(P \o Q) = CallsOf(P) \o CallsOf(Q) /\ CallsOf(Q \o t) = CallsOf(Q) \o CallsOf(t)
    BY <2>1, <2>2, <2>9, Zenon
  <2>6. CallsOf(P) \in Seq(C) /\ CallsOf(Q) \in Seq(C) /\ CallsOf(t) = <<>>
    BY <1>2, <2>1, <2>2, CallsTyped, NoCalls
  <2>7. CallsOf(Q \o t) = CallsOf(Q)
    BY <2>5, <2>6, ConcatEmptySeq
  <2>8. CallsOf(Newest(s, n)) = CallsOf(P) \o CallsOf(Newest(st, n))
    BY <2>3, <2>4, <2>5, <2>7
  <2> QED BY <1>7, <2>6, <2>8 DEF st
<1>10. b > Len(s) \/ b <= Len(s)
  BY <1>1, <1>3
<1> QED BY <1>8, <1>9, <1>10, Zenon

---------------------------------------------------------------------------
(* Types                                                                   *)

Kinds == {"prompt", "wrap_up", "repetition", "malformed", "truncated", "completion",
          "reply", "result"}
GMessages == [role : {"user", "assistant", "tool"}, kind : Kinds,
              calls : Seq(GuardedCalls), of : GuardedCalls \cup {NoCall}]
ContextOK ==
  /\ at \in {"idle", "top", "reply"} /\ turns \in 0 .. MaxTurns
  /\ iteration \in 0 .. MaxIterations /\ (at = "reply" => iteration < MaxIterations)
  /\ warned \in BOOLEAN /\ challenged \in 0 .. Challenges /\ planOpen \in BOOLEAN
  /\ context \in Seq(GMessages)

LEMMA MessagesAre ==
  /\ \A kind \in Kinds : Says(kind) \in GMessages
  /\ \A cs \in Seq(GuardedCalls) : Replies(cs) \in GMessages
  /\ \A c \in GuardedCalls : Result(c) \in GMessages
  /\ WithCalls(GMessages, GuardedCalls)
  /\ <<>> \in Seq(GuardedCalls)
<1>1. <<>> \in Seq(GuardedCalls)
  OBVIOUS
<1>2. \A kind \in Kinds : Says(kind) \in GMessages
  BY <1>1 DEF Says, GMessages, Kinds
<1>3. \A cs \in Seq(GuardedCalls) : Replies(cs) \in GMessages
  BY DEF Replies, GMessages, Kinds
<1>4. \A c \in GuardedCalls : Result(c) \in GMessages
  BY <1>1 DEF Result, GMessages, Kinds
<1> QED BY <1>1, <1>2, <1>3, <1>4 DEF WithCalls, GMessages

\* The results of a reply are as many as its calls.
LEMMA ResultsAre ==
  ASSUME NEW n \in Nat, NEW calls \in [1 .. n -> GuardedCalls]
  PROVE  /\ calls \in Seq(GuardedCalls)
         /\ [k \in DOMAIN calls |-> Result(ResultOrder(calls)[k])] \in Seq(GMessages)
<1> DEFINE M == Malformed(calls)
           p == Picked(calls, M)
           q == Picked(calls, DOMAIN calls \ M)
<1>1. calls \in Seq(GuardedCalls) /\ Len(calls) = n /\ DOMAIN calls = 1 .. n
  OBVIOUS
<1> HIDE DEF M
<1>2. p \in Seq(GuardedCalls) /\ q \in Seq(GuardedCalls) /\ Len(p) + Len(q) = n
  BY <1>1, PickedIs, PickedParts
<1>3. ResultOrder(calls) = p \o q
  BY DEF ResultOrder, M
<1> HIDE DEF p, q
<1>4. p \o q \in Seq(GuardedCalls) /\ Len(p \o q) = n
  BY <1>2, ConcatProperties
<1>5. \A k \in 1 .. n : (p \o q)[k] \in GuardedCalls
  BY <1>4, ElementOfSeq
<1> DEFINE r == [k \in 1 .. n |-> Result(ResultOrder(calls)[k])]
<1>6. r \in [1 .. n -> GMessages]
  BY <1>3, <1>5, MessagesAre
<1>7. r \in Seq(GMessages)
  <2> HIDE DEF r
  <2> QED BY <1>6
<1> QED BY <1>1, <1>7

LEMMA ContextStep ==
  ASSUME GuardsAssumption, ContextOK, [GuardsNext]_guardVars
  PROVE  ContextOK'
<1> USE DEF ContextOK
<1>1. /\ MaxTurns \in Nat /\ MaxIterations \in Nat /\ Challenges \in Nat
      /\ \A s, t \in Seq(GMessages) : s \o t \in Seq(GMessages)
      /\ \A s \in Seq(GMessages) : \A m \in GMessages : Append(s, m) \in Seq(GMessages)
      /\ <<>> \in Seq(GMessages)
  BY ConcatProperties DEF GuardsAssumption
<1>2. CASE NewTurn
  <2>1. "prompt" \in Kinds
    BY DEF Kinds
  <2>2. Says("prompt") \in GMessages
    BY <2>1, MessagesAre, Zenon
  <2>3. context' \in Seq(GMessages)
    BY <1>1, <1>2, <2>2 DEF NewTurn
  <2>4. turns' \in 0 .. MaxTurns /\ iteration' \in 0 .. MaxIterations /\ challenged' \in 0 .. Challenges
    BY <1>1, <1>2 DEF NewTurn
  <2>5. at' = "top" /\ warned' \in BOOLEAN /\ planOpen' \in BOOLEAN
    BY <1>2 DEF NewTurn
  <2> QED BY <2>3, <2>4, <2>5
<1>3. CASE Guards
  <2>2. context' \in Seq(GMessages)
    <3>1. \A yes, kind : kind \in Kinds => Notice(yes, kind) \in Seq(GMessages)
      BY <1>1, MessagesAre DEF Notice
    <3>2. /\ "wrap_up" \in Kinds /\ "repetition" \in Kinds /\ "malformed" \in Kinds
      BY DEF Kinds
    <3> QED BY <1>1, <1>3, <3>1, <3>2, Zenon DEF Guards
  <2>3. warned' \in BOOLEAN
    BY <1>3, Zenon DEF Guards, ShouldWarn
  <2> QED BY <1>3, <2>2, <2>3 DEF Guards
<1>4. CASE BudgetEnds
  BY <1>4 DEF BudgetEnds
<1>5. CASE ReplyTruncated
  BY <1>1, <1>5, MessagesAre DEF ReplyTruncated, Kinds
<1>6. CASE ReplyText
  <2>1. Replies(<<>>) \in GMessages /\ Says("completion") \in GMessages
    <3>1. "completion" \in Kinds
      BY DEF Kinds
    <3> QED BY <3>1, MessagesAre, Zenon
  <2>2. <<Replies(<<>>), Says("completion")>> \in Seq(GMessages)
    BY <2>1
  <2>3. context' \in Seq(GMessages)
    BY <1>1, <1>6, <2>1, <2>2 DEF ReplyText
  <2>4. /\ at' \in {"top", "idle"} /\ iteration' \in 0 .. MaxIterations
        /\ challenged' \in 0 .. Challenges
    <3>1. CASE Unfinished /\ challenged < Challenges
      BY <1>1, <1>6, <3>1 DEF ReplyText
    <3>2. CASE ~(Unfinished /\ challenged < Challenges)
      BY <1>1, <1>6, <3>2 DEF ReplyText
    <3> QED BY <3>1, <3>2
  <2> QED BY <1>6, <2>3, <2>4 DEF ReplyText
<1>7. CASE ReplyFails
  BY <1>7 DEF ReplyFails
<1>8. CASE NewConversation
  BY <1>1, <1>8 DEF NewConversation
<1>9. ASSUME NEW k \in DOMAIN context, CompactContext(k) PROVE ContextOK'
  <2>1. k \in 1 .. Len(context) /\ Len(context) \in Nat
    OBVIOUS
  <2>2. SubSeq(context, k, Len(context)) \in Seq(GMessages)
    BY <2>1, SubSeqProperties
  <2>3. context[1] \in GMessages /\ Replies(<<>>) \in GMessages
    <3>1. context[1] \in GMessages
      BY <2>1
    <3> QED BY <3>1, MessagesAre, Zenon
  <2>4. <<context[1], Replies(<<>>)>> \in Seq(GMessages)
    BY <2>3
  <2> QED BY <1>1, <1>9, <2>2, <2>4 DEF CompactContext
<1>10. ASSUME NEW n \in 1 .. MaxParallel, NEW calls \in [1 .. n -> GuardedCalls], ReplyCalls(calls)
       PROVE  ContextOK'
  <2>1. n \in Nat
    BY DEF GuardsAssumption
  <2>2. Replies(calls) \in GMessages
        /\ [k \in DOMAIN calls |-> Result(ResultOrder(calls)[k])] \in Seq(GMessages)
    BY <2>1, ResultsAre, MessagesAre
  <2>3. context' \in Seq(GMessages)
    BY <1>1, <1>10, <2>2 DEF ReplyCalls
  <2>4. planOpen' \in BOOLEAN
    BY <1>10 DEF ReplyCalls, PlanAfter
  <2> QED BY <1>1, <1>10, <2>3, <2>4 DEF ReplyCalls
<1>11. CASE UNCHANGED guardVars
  BY <1>11 DEF guardVars
<1> QED BY <1>2, <1>3, <1>4, <1>5, <1>6, <1>7, <1>8, <1>9, <1>10, <1>11 DEF GuardsNext

---------------------------------------------------------------------------
(* Repetitions are told                                                    *)

\* Equal newest calls trip the detector.
LEMMA SameAreStuck ==
  ASSUME NEW C, NEW sigs \in Seq(C), Threshold \in Nat, Len(sigs) >= Threshold,
         Threshold >= 1,
         \A j \in Len(sigs) - Threshold + 1 .. Len(sigs) : sigs[j] = sigs[Len(sigs)]
  PROVE  Identical(sigs)
<1> DEFINE i == Len(sigs) - Threshold + 1
<1>1. /\ i \in 1 .. Len(sigs) - Threshold + 1 /\ i + Threshold - 1 = Len(sigs)
      /\ i \in Len(sigs) - Threshold + 1 .. Len(sigs)
  OBVIOUS
<1>2. \A j \in i .. i + Threshold - 1 : sigs[j] = sigs[i]
  BY <1>1
<1> QED BY <1>1, <1>2 DEF Identical

Together(s, a, b, c, d) == s = ((a \o b) \o c) \o d
Followed(s, a, b, c, d) == s = a \o ((b \o c) \o d)
LEMMA Associates ==
  ASSUME NEW S, NEW a \in Seq(S), NEW b \in Seq(S), NEW c \in Seq(S), NEW d \in Seq(S),
         NEW s, Together(s, a, b, c, d)
  PROVE  Followed(s, a, b, c, d)
<1>1. a \o b \in Seq(S) /\ c \o d \in Seq(S)
  BY ConcatProperties
<1>2. ((a \o b) \o c) \o d = (a \o b) \o (c \o d)
  <2> DEFINE ab == a \o b
  <2>1. ab \in Seq(S)
    BY <1>1
  <2> HIDE DEF ab
  <2>2. (ab \o c) \o d = ab \o (c \o d)
    BY <2>1, ConcatAssociative
  <2> QED BY <2>2 DEF ab
<1>3. (a \o b) \o (c \o d) = a \o (b \o (c \o d))
  <2> DEFINE cd == c \o d
  <2>1. cd \in Seq(S)
    BY <1>1
  <2> HIDE DEF cd
  <2>2. (a \o b) \o cd = a \o (b \o cd)
    BY <2>1, ConcatAssociative
  <2> QED BY <2>2 DEF cd
<1>4. (b \o c) \o d = b \o (c \o d)
  BY ConcatAssociative
<1> QED BY <1>2, <1>3, <1>4 DEF Together, Followed

LEMMA GuardsTell ==
  ASSUME GuardsAssumption, ContextOK, Guards
  PROVE  RepeatersAreTold'
<1>1. /\ context \in Seq(GMessages) /\ Lookback \in Nat /\ Threshold \in Nat /\ Threshold >= 3
  BY DEF ContextOK, GuardsAssumption
<1> DEFINE IsNotice(m) == m \in GMessages /\ m.role = "user" /\ m.calls = <<>>
           Notices == {m \in GMessages : IsNotice(m)}
<1>2. \A yes, kind : kind \in Kinds => Notice(yes, kind) \in Seq(Notices)
  <2>1. \A kind \in Kinds : Says(kind) \in Notices
    BY MessagesAre DEF Says
  <2> HIDE DEF Notices
  <2> QED BY <2>1 DEF Notice
<1>3. PICK w \in Seq(Notices), r \in Seq(Notices), f \in Seq(Notices) :
        /\ context' = ((context \o w) \o r) \o f
        /\ Stuck => r = <<Says("repetition")>>
  <2> HIDE DEF Notices
  <2> DEFINE ww == Notice(ShouldWarn /\ ~warned, "wrap_up")
             rr == Notice(Stuck, "repetition")
             ff == Notice(MalformedAgain(context), "malformed")
  <2>1. "wrap_up" \in Kinds /\ "repetition" \in Kinds /\ "malformed" \in Kinds
    BY DEF Kinds
  <2>2. ww \in Seq(Notices) /\ rr \in Seq(Notices) /\ ff \in Seq(Notices)
    BY <1>2, <2>1, Zenon
  <2>3. context' = ((context \o ww) \o rr) \o ff /\ (Stuck => rr = <<Says("repetition")>>)
    BY DEF Guards, Notice
  <2> HIDE DEF ww, rr, ff
  <2> QED BY <2>2, <2>3, Zenon
<1>4. context' = ((context \o w) \o r) \o f
  BY <1>3
<1>5. Stuck => r = <<Says("repetition")>>
  BY <1>3
<1>6. SUFFICES ASSUME at' = "reply", Len(Signatures') >= Threshold,
                      \A j \in Len(Signatures') - Threshold + 1 .. Len(Signatures') :
                        Signatures'[j] = Signatures'[Len(Signatures')]
               PROVE  \E k \in DOMAIN context' :
                        /\ context'[k].kind = "repetition"
                        /\ \A j \in k .. Len(context') : context'[j].role = "user"
  BY Zenon DEF RepeatersAreTold
<1> DEFINE t == (w \o r) \o f
<1>7. /\ w \in Seq(GMessages) /\ r \in Seq(GMessages) /\ f \in Seq(GMessages)
  <2>1. Notices \subseteq GMessages
    OBVIOUS
  <2> HIDE DEF Notices
  <2> QED BY <1>3, <2>1, SeqMonotonic
<1>8. context' = context \o t
  <2>1. Together(context', context, w, r, f)
    BY <1>4, Zenon DEF Together
  <2>2. Followed(context', context, w, r, f)
    BY <1>1, <1>7, <2>1, Associates
  <2> QED BY <2>2, Zenon DEF Followed
<1>9. t \in Seq(Notices)
  <2> HIDE DEF Notices
  <2>1. \A x, y \in Seq(Notices) : x \o y \in Seq(Notices)
    BY ConcatProperties
  <2> QED BY <1>3, <2>1, Zenon
<1>10. t \in Seq(GMessages) /\ Len(t) \in Nat
       /\ \A k \in 1 .. Len(t) : t[k].calls = <<>> /\ t[k].role = "user"
  <2> HIDE DEF t
  <2>1. \A k \in 1 .. Len(t) : t[k] \in Notices
    BY <1>9, ElementOfSeq
  <2>2. Notices \subseteq GMessages
    OBVIOUS
  <2>3. t \in Seq(GMessages) /\ Len(t) \in Nat
    <3> HIDE DEF Notices
    <3> QED BY <1>9, <2>2, SeqMonotonic
  <2> QED BY <2>1, <2>3
<1>11. PICK front \in Seq(GuardedCalls) : Signatures = front \o Signatures' /\ Signatures' \in Seq(GuardedCalls)
  <2>1. \A k \in 1 .. Len(t) : t[k].calls = <<>>
    BY <1>10
  <2>2. WithCalls(GMessages, GuardedCalls)
    BY MessagesAre
  <2> DEFINE tt == t
  <2>3. tt = t
    OBVIOUS
  <2> HIDE DEF tt
  <2>4. \E front \in Seq(GuardedCalls) :
           /\ CallsOf(Newest(context, Lookback)) = front \o CallsOf(Newest(context \o tt, Lookback))
           /\ CallsOf(Newest(context \o tt, Lookback)) \in Seq(GuardedCalls)
    <3>1. /\ context \in Seq(GMessages) /\ tt \in Seq(GMessages) /\ Lookback \in Nat
          /\ \A k \in 1 .. Len(tt) : tt[k].calls = <<>>
      BY <1>1, <1>10, <2>1, <2>3
    <3> QED BY <2>2, <3>1, Window, Zenon
  <2>5. Signatures' = CallsOf(Newest(context \o tt, Lookback))
    BY <1>8, <2>3 DEF Signatures
  <2> QED BY <2>4, <2>5 DEF Signatures
<1>12. Stuck
  <2> DEFINE sig == Signatures
             new == Signatures'
  <2>1. sig = front \o new /\ new \in Seq(GuardedCalls)
    BY <1>11
  <2>2. /\ Len(new) >= Threshold
        /\ \A j \in Len(new) - Threshold + 1 .. Len(new) : new[j] = new[Len(new)]
    BY <1>6
  <2> HIDE DEF sig, new
  <2>3. /\ sig \in Seq(GuardedCalls) /\ Len(sig) = Len(front) + Len(new)
        /\ \A i \in 1 .. Len(front) + Len(new) :
             sig[i] = IF i <= Len(front) THEN front[i] ELSE new[i - Len(front)]
        /\ Len(front) \in Nat /\ Len(new) \in Nat
    BY <2>1, ConcatProperties
  <2>4. \A j \in 1 .. Len(new) : sig[Len(front) + j] = new[j]
    <3> TAKE j \in 1 .. Len(new)
    <3>1. /\ Len(front) + j \in 1 .. Len(front) + Len(new) /\ ~(Len(front) + j <= Len(front))
          /\ (Len(front) + j) - Len(front) = j
      BY <2>3
    <3> QED BY <2>3, <3>1
  <2>5. \A j \in Len(sig) - Threshold + 1 .. Len(sig) : sig[j] = sig[Len(sig)]
    <3> TAKE j \in Len(sig) - Threshold + 1 .. Len(sig)
    <3>1. /\ j - Len(front) \in Len(new) - Threshold + 1 .. Len(new)
          /\ j - Len(front) \in 1 .. Len(new) /\ Len(new) \in 1 .. Len(new)
          /\ Len(front) + (j - Len(front)) = j
      <4>1. j \in Int /\ j >= Len(sig) - Threshold + 1 /\ j <= Len(sig)
        BY <1>1, <2>3
      <4>2. Len(sig) = Len(front) + Len(new) /\ Len(front) \in Nat /\ Len(new) \in Nat
            /\ Len(new) >= Threshold
        BY <2>2, <2>3
      <4> DEFINE lf == Len(front)
                 ln == Len(new)
                 ls == Len(sig)
      <4>3. /\ Threshold \in Nat /\ Threshold >= 3 /\ ls = lf + ln /\ lf \in Nat /\ ln \in Nat
            /\ ln >= Threshold /\ j \in Int /\ j >= ls - Threshold + 1 /\ j <= ls
        BY <1>1, <4>1, <4>2
      <4> HIDE DEF lf, ln, ls
      <4>4. /\ j - lf \in ln - Threshold + 1 .. ln /\ j - lf \in 1 .. ln /\ ln \in 1 .. ln
            /\ lf + (j - lf) = j
        BY <4>3
      <4> QED BY <4>4 DEF lf, ln
    <3> QED BY <2>2, <2>3, <2>4, <3>1
  <2>6. Identical(sig) /\ Len(sig) >= 3
    <3>1. Len(sig) >= Threshold /\ Threshold >= 1 /\ Len(sig) >= 3
      BY <1>1, <2>2, <2>3
    <3> QED BY <1>1, <2>3, <2>5, <3>1, SameAreStuck
  <2> QED BY <2>6 DEF Stuck, sig
<1>13. r = <<Says("repetition")>>
  BY <1>5, <1>12
<1> DEFINE k == Len(context) + Len(w) + 1
<1>14. /\ Len(context) \in Nat /\ Len(w) \in Nat /\ Len(f) \in Nat /\ Len(r) = 1
       /\ r[1] = Says("repetition")
  BY <1>1, <1>3, <1>13
<1>15. context' \in Seq(GMessages) /\ Len(context') = Len(context) + Len(w) + 1 + Len(f)
       /\ context'[k] = Says("repetition")
  <2> DEFINE cw == context \o w
             cr == cw \o r
  <2>1. cw \in Seq(GMessages) /\ Len(cw) = Len(context) + Len(w)
    BY <1>1, <1>7, ConcatProperties
  <2>2. cr \in Seq(GMessages) /\ Len(cr) = Len(cw) + 1 /\ cr[Len(cw) + 1] = r[1]
    <3> HIDE DEF cw
    <3>1. /\ cr \in Seq(GMessages) /\ Len(cr) = Len(cw) + Len(r)
          /\ \A i \in 1 .. Len(cw) + Len(r) :
               cr[i] = IF i <= Len(cw) THEN cw[i] ELSE r[i - Len(cw)]
      <4>1. cw \in Seq(GMessages) /\ r \in Seq(GMessages)
        BY <1>7, <2>1
      <4> QED BY <4>1, ConcatProperties, Zenon
    <3>2. Len(cw) + 1 \in 1 .. Len(cw) + Len(r) /\ ~(Len(cw) + 1 <= Len(cw)) /\ (Len(cw) + 1) - Len(cw) = 1
      BY <1>14, <2>1
    <3> QED BY <1>14, <3>1, <3>2
  <2> HIDE DEF cr
  <2>3. /\ context' = cr \o f /\ cr \o f \in Seq(GMessages) /\ Len(cr \o f) = Len(cr) + Len(f)
        /\ \A i \in 1 .. Len(cr) + Len(f) :
             (cr \o f)[i] = IF i <= Len(cr) THEN cr[i] ELSE f[i - Len(cr)]
    BY <1>4, <1>7, <2>2, ConcatProperties DEF cr
  <2>4. k = Len(cw) + 1 /\ k \in 1 .. Len(cr) + Len(f) /\ k <= Len(cr)
    BY <1>14, <2>1, <2>2
  <2> QED BY <1>14, <2>1, <2>2, <2>3, <2>4
<1>16. \A j \in k .. Len(context') : context'[j].role = "user"
  <2> TAKE j \in k .. Len(context')
  <2> HIDE DEF t
  <2>1. /\ context' = context \o t /\ Len(context') = Len(context) + Len(t)
        /\ \A i \in 1 .. Len(context) + Len(t) :
             (context \o t)[i] = IF i <= Len(context) THEN context[i] ELSE t[i - Len(context)]
    BY <1>1, <1>8, <1>10, ConcatProperties
  <2>2. /\ j \in 1 .. Len(context) + Len(t) /\ ~(j <= Len(context))
        /\ j - Len(context) \in 1 .. Len(t)
    BY <1>10, <1>14, <2>1
  <2> QED BY <1>10, <2>1, <2>2
<1>17. k \in DOMAIN context'
  BY <1>14, <1>15
<1>18. context'[k].kind = "repetition"
  BY <1>15 DEF Says
<1> HIDE DEF k
<1> QED BY <1>16, <1>17, <1>18

\* Every other step leaves no reply awaited, or everything as it was.
LEMMA RepetitionStep ==
  ASSUME GuardsAssumption, ContextOK, RepeatersAreTold, [GuardsNext]_guardVars
  PROVE  RepeatersAreTold'
<1>1. CASE Guards
  BY <1>1, GuardsTell
<1>2. CASE UNCHANGED guardVars
  <2>1. at' = at /\ context' = context
    BY <1>2 DEF guardVars
  <2>2. Signatures' = Signatures
    BY <2>1 DEF Signatures
  <2> QED BY <2>1, <2>2 DEF RepeatersAreTold
<1>3. CASE at' # "reply"
  BY <1>3, Zenon DEF RepeatersAreTold
<1>4. Guards \/ UNCHANGED guardVars \/ at' # "reply"
  <2>1. CASE ReplyText
    BY <2>1 DEF ReplyText
  <2>2. CASE CompactContext(1) \/ NewConversation \/ NewTurn \/ BudgetEnds \/ ReplyTruncated \/ ReplyFails
    BY <2>2 DEF CompactContext, NewConversation, NewTurn, BudgetEnds, ReplyTruncated, ReplyFails
  <2>3. ASSUME NEW k \in DOMAIN context, CompactContext(k) PROVE at' # "reply"
    BY <2>3 DEF CompactContext
  <2>4. ASSUME NEW n \in 1 .. MaxParallel, NEW calls \in [1 .. n -> GuardedCalls], ReplyCalls(calls)
        PROVE  at' # "reply"
    BY <2>4 DEF ReplyCalls
  <2> QED BY <2>1, <2>2, <2>3, <2>4 DEF GuardsNext
<1> QED BY <1>1, <1>2, <1>3, <1>4

---------------------------------------------------------------------------
(* The ledger                                                              *)

Tools == {c.tool : c \in GuardedCalls}
Records == [n : Nat, tool : Tools, resolved : BOOLEAN]
\* the positions of unresolved records
Open(records) == {k \in DOMAIN records : ~records[k].resolved}
\* an unresolved failure is listed once with nothing but later ones after it
Rising(log) ==
  \A k \in Open(log) : \E p \in DOMAIN log :
    /\ log[p].n = log[k].n
    /\ \A i, j \in p .. Len(log) : i < j => log[i].n < log[j].n
Copies(log) == \A i, j \in DOMAIN log : log[i].n = log[j].n => log[i] = log[j]
\* as many newer unresolved records as the ledger holds
Overtaken(log, k) ==
  \E f \in [1 .. MaxRecords -> Open(log)] :
    /\ \A i \in 1 .. MaxRecords : log[f[i]].n > log[k].n
    /\ \A i, j \in 1 .. MaxRecords : i < j => log[f[i]].n < log[f[j]].n
\* what a trim leaves of the records
Trims(out, records) ==
  /\ out \in Seq(Records) /\ Len(out) <= MaxRecords /\ Rising(out)
  /\ \A i \in DOMAIN out : \E j \in DOMAIN records : out[i] = records[j]
  /\ \A k \in Open(records) :
       (\E j \in DOMAIN out : out[j].n = records[k].n) \/ Overtaken(records, k)

LEMMA SeqParts ==
  ASSUME NEW A, NEW s \in Seq(A)
  PROVE  Len(s) \in Nat /\ DOMAIN s = 1 .. Len(s) /\ \A k \in 1 .. Len(s) : s[k] \in A
OBVIOUS

LEMMA TrimIs ==
  ASSUME MaxRecords \in Nat, NEW records \in Seq(Records), Rising(records), Copies(records),
         Len(records) <= MaxRecords + 1
  PROVE  Trims(Trim(records), records)
<1> DEFINE out == Trim(records)
           S == Open(records)
           keep == Picked(records, S)
           L == Len(records)
           K == Len(keep)
<1>1. L \in Nat /\ DOMAIN records = 1 .. L /\ \A k \in 1 .. L : records[k] \in Records
  BY SeqParts
<1>2. S \subseteq 1 .. L /\ S \cap (1 .. L) = S /\ \A k \in 1 .. L : k \in S <=> ~records[k].resolved
  BY <1>1 DEF Open
<1>3. keep = Unresolved(records)
  BY DEF Unresolved, Open
<1> HIDE DEF S
<1>4. CASE L <= MaxRecords
  <2>1. out = records
    BY <1>1, <1>4 DEF Trim
  <2>2. \A k \in DOMAIN records : \E j \in DOMAIN records : records[j].n = records[k].n
    OBVIOUS
  <2> QED BY <1>4, <2>1, <2>2 DEF Trims, Open
<1>5. CASE L = MaxRecords + 1
  <2>1. keep \in Seq(Records) /\ \E e : Embeds(e, keep, records, S, L)
    BY PickedIs
  <2>2. K \in Nat /\ K <= L
    <3>1. K + Len(Picked(records, DOMAIN records \ S)) = L
      BY PickedParts
    <3>2. Picked(records, DOMAIN records \ S) \in Seq(Records)
      BY PickedIs
    <3> DEFINE y == Len(Picked(records, DOMAIN records \ S))
    <3>3. y \in Nat
      BY <3>2, SeqParts
    <3>4. K \in Nat
      BY <2>1, SeqParts
    <3>5. K + y = L
      BY <3>1
    <3> HIDE DEF K, L, y
    <3> QED BY <1>1, <3>3, <3>4, <3>5
  <2>3. PICK e : Embeds(e, keep, records, S, L)
    BY <2>1
  <2> DEFINE F == L - K
             front == SubSeq(records, 1, F)
             x == front \o keep
  <2> HIDE DEF keep
  <2>4. /\ e \in [1 .. K -> S]
        /\ \A i, j \in 1 .. K : i < j => e[i] < e[j]
        /\ \A i \in 1 .. K : keep[i] = records[e[i]]
        /\ \A m \in S : \E i \in 1 .. K : e[i] = m
    BY <1>2, <2>3 DEF Embeds
  <2> HIDE DEF K, L
  <2>5. F \in Nat /\ F <= L /\ F + K = L
    BY <1>1, <2>2
  <2> HIDE DEF F
  <2>6. front \in Seq(Records) /\ Len(front) = F /\ \A i \in 1 .. F : front[i] = records[i]
    <3>1. \A i \in 1 .. F : records[i] \in Records
      BY <1>1, <2>5
    <3>2. /\ front \in Seq(Records) /\ Len(front) = IF 1 <= F THEN F - 1 + 1 ELSE 0
          /\ \A i \in 1 .. F - 1 + 1 : front[i] = records[1 + i - 1]
      BY <2>5, <3>1, SubSeqProperties
    <3> HIDE DEF front
    <3>3. F - 1 + 1 = F /\ (1 <= F \/ F = 0) /\ \A i \in 1 .. F : 1 + i - 1 = i
      BY <2>5
    <3> QED BY <3>2, <3>3
  <2> HIDE DEF front
  <2>7. /\ x \in Seq(Records) /\ Len(x) = L
        /\ \A i \in 1 .. F : x[i] = records[i]
        /\ \A i \in 1 .. K : x[F + i] = records[e[i]]
    <3>1. /\ x \in Seq(Records) /\ Len(x) = Len(front) + Len(keep)
          /\ \A i \in 1 .. Len(front) + Len(keep) :
               x[i] = IF i <= Len(front) THEN front[i] ELSE keep[i - Len(front)]
      BY <2>1, <2>6, ConcatProperties
    <3> HIDE DEF x
    <3>2. /\ x \in Seq(Records) /\ Len(x) = L
          /\ \A i \in 1 .. L : x[i] = IF i <= F THEN front[i] ELSE keep[i - F]
      BY <2>5, <2>6, <3>1 DEF K
    <3>3. ASSUME NEW i \in 1 .. F PROVE x[i] = records[i]
      <4>1. i \in 1 .. L /\ i <= F
        BY <1>1, <2>5
      <4> QED BY <2>6, <3>2, <4>1
    <3>4. ASSUME NEW i \in 1 .. K PROVE x[F + i] = records[e[i]]
      <4>1. F + i \in 1 .. L /\ ~(F + i <= F) /\ (F + i) - F = i
        BY <2>2, <2>5
      <4> QED BY <2>4, <3>2, <4>1
    <3> QED BY <3>2, <3>3, <3>4
  <2> HIDE DEF x
  <2>8. /\ out \in Seq(Records) /\ Len(out) = MaxRecords
        /\ \A i \in 1 .. MaxRecords : out[i] = x[i + 1]
    <3>1. out = Newest(x, MaxRecords)
      <4>1. Len(records) > MaxRecords
        BY <1>5 DEF L
      <4> QED BY <1>3, <4>1 DEF Trim, x, front, F, K, L
    <3>2. Newest(x, MaxRecords) = SubSeq(x, 2, L)
      BY <1>5, <2>7 DEF Newest
    <3>3. \A i \in 2 .. L : x[i] \in Records
      BY <2>7, SeqParts
    <3>4. /\ SubSeq(x, 2, L) \in Seq(Records) /\ Len(SubSeq(x, 2, L)) = IF 2 <= L THEN L - 2 + 1 ELSE 0
          /\ \A i \in 1 .. L - 2 + 1 : SubSeq(x, 2, L)[i] = x[2 + i - 1]
      BY <1>1, <3>3, SubSeqProperties
    <3> DEFINE o == SubSeq(x, 2, L)
    <3>5. o = out
      BY <3>1, <3>2
    <3> HIDE DEF o, out
    <3>6. /\ L - 2 + 1 = MaxRecords /\ (2 <= L \/ MaxRecords = 0)
          /\ \A i \in 1 .. MaxRecords : 2 + i - 1 = i + 1
      BY <1>1, <1>5
    <3> QED BY <3>4, <3>5, <3>6 DEF o
  <2> HIDE DEF out
  <2>9. DOMAIN out = 1 .. MaxRecords
    BY <2>8
  <2>10. ASSUME NEW i \in 1 .. L PROVE \E j \in 1 .. L : x[i] = records[j]
    <3>1. CASE i <= F
      <4>1. i \in 1 .. F
        BY <2>5, <3>1
      <4> QED BY <2>7, <4>1
    <3>2. CASE ~(i <= F)
      <4>1. i - F \in 1 .. K /\ F + (i - F) = i
        BY <2>2, <2>5, <3>2
      <4>2. e[i - F] \in 1 .. L
        BY <1>2, <2>4, <4>1
      <4> QED BY <2>7, <4>1, <4>2
    <3> QED BY <3>1, <3>2
  <2>11. ASSUME NEW i \in DOMAIN out PROVE \E j \in DOMAIN records : out[i] = records[j]
    <3>1. i \in 1 .. MaxRecords /\ i + 1 \in 1 .. L
      BY <1>5, <2>9
    <3>2. PICK j \in 1 .. L : x[i + 1] = records[j]
      BY <2>10, <3>1
    <3> QED BY <1>1, <2>8, <3>1, <3>2
  \* where an unresolved failure stands once and for all
  <2>12. ASSUME NEW k \in S
         PROVE  \E i \in 1 .. K : /\ records[e[i]].n = records[k].n
                  /\ \A a, b \in e[i] .. L : a < b => records[a].n < records[b].n
    <3>1. PICK p \in 1 .. L : /\ records[p].n = records[k].n
                 /\ \A a, b \in p .. L : a < b => records[a].n < records[b].n
      BY <1>1 DEF Rising, S, L
    <3>2. p \in S
      <4>1. k \in 1 .. L
        BY <1>2
      <4>2. records[p] = records[k]
        BY <1>1, <3>1, <4>1 DEF Copies
      <4> QED BY <1>2, <4>1, <4>2
    <3>3. PICK i \in 1 .. K : e[i] = p
      BY <2>4, <3>2
    <3> QED BY <3>1, <3>3
  <2>13. ASSUME NEW k \in S, NEW i \in 1 .. K, records[e[i]].n = records[k].n,
                \A a, b \in e[i] .. L : a < b => records[a].n < records[b].n,
                F + i - 1 >= 1
         PROVE  \E q \in DOMAIN out : /\ out[q].n = records[k].n
                  /\ \A a, b \in q .. Len(out) : a < b => out[a].n < out[b].n
    <3> DEFINE q == F + i - 1
    <3>1. q \in 1 .. MaxRecords
      BY <1>5, <2>2, <2>5, <2>13
    <3>2. ASSUME NEW a \in q .. MaxRecords
          PROVE  /\ a + 1 - F \in i .. K /\ a + 1 - F \in 1 .. K
                 /\ out[a] = records[e[a + 1 - F]]
                 /\ e[a + 1 - F] \in e[i] .. L
      <4>1. a + 1 - F \in i .. K /\ F + (a + 1 - F) = a + 1 /\ a \in 1 .. MaxRecords /\ a + 1 - F \in 1 .. K
        BY <1>5, <2>2, <2>5, <3>1
      <4> DEFINE c == a + 1 - F
      <4>2. c \in 1 .. K /\ F + c = a + 1 /\ (c = i \/ i < c)
        BY <4>1
      <4> HIDE DEF c
      <4>3. out[a] = records[e[c]]
        BY <2>7, <2>8, <4>1, <4>2
      <4>4. e[c] \in e[i] .. L
        <5>1. e[c] \in 1 .. L /\ e[i] \in 1 .. L
          BY <1>2, <2>4, <4>2
        <5>2. e[i] <= e[c]
          BY <2>4, <4>2, <5>1
        <5> QED BY <5>1, <5>2
      <4> QED BY <4>1, <4>3, <4>4 DEF c
    <3>3. out[q].n = records[k].n
      <4>1. q \in q .. MaxRecords /\ q + 1 - F = i
        BY <2>2, <2>5, <3>1
      <4> QED BY <2>13, <3>2, <4>1
    <3>4. ASSUME NEW a \in q .. Len(out), NEW b \in q .. Len(out), a < b PROVE out[a].n < out[b].n
      <4> DEFINE c == a + 1 - F
                 d == b + 1 - F
      <4>1. a \in q .. MaxRecords /\ b \in q .. MaxRecords
        BY <2>8
      <4>2. /\ c \in 1 .. K /\ d \in 1 .. K /\ out[a] = records[e[c]] /\ out[b] = records[e[d]]
            /\ e[c] \in e[i] .. L /\ e[d] \in e[i] .. L
        BY <3>2, <4>1
      <4>3. c < d
        BY <2>5, <3>1, <3>4, <4>1
      <4> HIDE DEF c, d
      <4>4. e[c] < e[d]
        BY <2>4, <4>2, <4>3
      <4> QED BY <2>13, <4>2, <4>4
    <3> HIDE DEF q
    <3> QED BY <2>9, <3>1, <3>3, <3>4
  \* all records are unresolved and the oldest is dropped
  <2>14. ASSUME NEW i \in 1 .. K, ~(F + i - 1 >= 1)
         PROVE  F = 0 /\ i = 1 /\ K = L
    BY <2>2, <2>5, <2>14
  <2>15. ASSUME NEW k \in S, NEW i \in 1 .. K, records[e[i]].n = records[k].n,
                \A a, b \in e[i] .. L : a < b => records[a].n < records[b].n,
                ~(F + i - 1 >= 1)
         PROVE  Overtaken(records, k)
    <3>1. F = 0 /\ i = 1 /\ K = L
      BY <2>14, <2>15
    <3> DEFINE f == [j \in 1 .. MaxRecords |-> e[j + 1]]
    <3>2. ASSUME NEW j \in 1 .. MaxRecords
          PROVE  j + 1 \in 1 .. K /\ 1 < j + 1 /\ f[j] = e[j + 1] /\ f[j] \in S /\ f[j] \in e[1] .. L
                 /\ e[1] < f[j] /\ e[1] \in e[1] .. L
      <4>1. j + 1 \in 1 .. K /\ 1 < j + 1 /\ 1 \in 1 .. K
        BY <1>5, <3>1
      <4>2. e[j + 1] \in S /\ e[1] \in S /\ e[1] < e[j + 1]
        BY <2>4, <4>1
      <4>3. e[j + 1] \in 1 .. L /\ e[1] \in 1 .. L
        BY <1>2, <4>2
      <4>4. e[j + 1] \in e[1] .. L /\ e[1] \in e[1] .. L
        BY <4>2, <4>3
      <4> QED BY <4>1, <4>2, <4>4
    <3>3. f \in [1 .. MaxRecords -> S]
      BY <3>2
    <3>4. \A j \in 1 .. MaxRecords : records[f[j]].n > records[k].n
      <4> TAKE j \in 1 .. MaxRecords
      <4> HIDE DEF f
      <4>0. e[i] = e[1]
        BY <3>1
      <4>1. records[e[1]].n < records[f[j]].n
        BY <2>15, <3>2, <4>0
      <4>2. f[j] \in 1 .. L /\ k \in 1 .. L
        BY <1>2, <3>2
      <4>3. records[f[j]].n \in Nat /\ records[k].n \in Nat
        BY <1>1, <4>2 DEF Records
      <4> QED BY <2>15, <4>0, <4>1, <4>3
    <3>5. \A a, b \in 1 .. MaxRecords : a < b => records[f[a]].n < records[f[b]].n
      <4> TAKE a, b \in 1 .. MaxRecords
      <4> HAVE a < b
      <4>1. f[a] < f[b]
        <5>1. a + 1 \in 1 .. K /\ b + 1 \in 1 .. K /\ a + 1 < b + 1
          BY <3>2
        <5> QED BY <2>4, <3>2, <5>1
      <4> HIDE DEF f
      <4> QED BY <2>15, <3>1, <3>2, <4>1
    <3> HIDE DEF f
    <3> QED BY <3>3, <3>4, <3>5 DEF Overtaken, S
  <2>16. ASSUME NEW k \in S
         PROVE  (\E j \in DOMAIN out : out[j].n = records[k].n) \/ Overtaken(records, k)
    <3>1. PICK i \in 1 .. K : /\ records[e[i]].n = records[k].n
                  /\ \A a, b \in e[i] .. L : a < b => records[a].n < records[b].n
      BY <2>12
    <3>2. CASE F + i - 1 >= 1
      BY <2>13, <3>1, <3>2
    <3>3. CASE ~(F + i - 1 >= 1)
      BY <2>15, <3>1, <3>3
    <3> QED BY <3>2, <3>3
  <2>17. Rising(out)
    <3> SUFFICES ASSUME NEW j \in Open(out)
                 PROVE  \E q \in DOMAIN out : /\ out[q].n = out[j].n
                          /\ \A a, b \in q .. Len(out) : a < b => out[a].n < out[b].n
      BY DEF Rising
    <3>1. j \in 1 .. MaxRecords /\ ~out[j].resolved /\ j + 1 \in 1 .. L /\ out[j] = x[j + 1]
      BY <1>5, <2>8, <2>9 DEF Open
    <3>2. PICK k \in 1 .. L : out[j] = records[k] /\ (F = 0 => k = e[j + 1])
      <4>1. CASE F = 0
        <5>1. j + 1 \in 1 .. K /\ F + (j + 1) = j + 1
          BY <1>1, <2>2, <2>5, <3>1, <4>1
        <5>2. out[j] = records[e[j + 1]] /\ e[j + 1] \in 1 .. L
          BY <1>2, <2>4, <2>7, <3>1, <5>1
        <5> QED BY <5>2
      <4>2. CASE F # 0
        BY <2>10, <3>1, <4>2
      <4> QED BY <4>1, <4>2
    <3>3. k \in S
      BY <1>2, <3>1, <3>2
    <3>4. PICK i \in 1 .. K : /\ records[e[i]].n = records[k].n
                  /\ \A a, b \in e[i] .. L : a < b => records[a].n < records[b].n
      BY <2>12, <3>3
    <3>5. CASE F + i - 1 >= 1
      BY <2>13, <3>2, <3>3, <3>4, <3>5
    <3>6. CASE ~(F + i - 1 >= 1)
      <4>1. F = 0 /\ i = 1 /\ K = L
        BY <2>14, <3>6
      <4>2. k = e[j + 1] /\ j + 1 \in 1 .. K /\ 1 \in 1 .. K /\ 1 < j + 1
        BY <3>1, <3>2, <4>1
      <4>3. e[1] < k /\ e[1] \in 1 .. L
        BY <1>2, <2>4, <4>2
      <4>4. records[e[1]].n < records[k].n
        <5>1. e[1] \in e[1] .. L /\ k \in e[1] .. L
          BY <4>3
        <5> QED BY <3>4, <4>1, <4>3, <5>1
      <4>5. records[k].n \in Nat
        BY <1>1 DEF Records
      <4> QED BY <3>4, <4>1, <4>4, <4>5
    <3> QED BY <3>5, <3>6
  <2>18. Len(out) <= MaxRecords
    BY <2>8
  <2> HIDE DEF S
  <2>19. Trims(out, records)
    <3>1. \A k \in Open(records) : k \in S
      BY DEF S
    <3> QED BY <2>8, <2>11, <2>16, <2>17, <2>18, <3>1 DEF Trims
  <2> QED BY <2>19 DEF out
<1>6. L <= MaxRecords \/ L = MaxRecords + 1
  <2>1. L \in Nat /\ L <= MaxRecords + 1
    BY <1>1
  <2> HIDE DEF L
  <2> QED BY <2>1
<1> QED BY <1>4, <1>5, <1>6

\* all records the ledger was given, and those it keeps
Accs == [all : Seq(Records), log : Seq(Records)]
Fits(a) ==
  /\ \A k \in DOMAIN a.all : a.all[k].n = k
  /\ \A k \in DOMAIN a.log : a.log[k].n \in DOMAIN a.all /\ a.log[k] = a.all[a.log[k].n]
  /\ Len(a.log) <= MaxRecords /\ Rising(a.log)
\* the failures after the m-th that were unresolved at the base, and the new ones
Newer(base, m, hi) ==
  {x \in m + 1 .. hi : x \in DOMAIN base.all => ~base.all[x].resolved}
Outnumbered(base, m, hi) ==
  \E f \in [1 .. MaxRecords -> Newer(base, m, hi)] :
    \A i, j \in 1 .. MaxRecords : i < j => f[i] < f[j]
\* what became of the base: an unresolved failure was resolved, or is listed, or was
\* dropped for newer ones
Since(base, a) ==
  /\ Len(base.all) <= Len(a.all)
  /\ \A k \in DOMAIN base.all : base.all[k].resolved => a.all[k].resolved
  /\ \A i \in Open(base.log) :
       \/ a.all[base.log[i].n].resolved
       \/ \E j \in DOMAIN a.log : a.log[j].n = base.log[i].n
       \/ Outnumbered(base, base.log[i].n, Len(a.all))

LEMMA MoreOutnumber ==
  ASSUME MaxRecords \in Nat, NEW base, NEW m \in Nat, NEW lo \in Nat, NEW hi \in Nat, lo <= hi,
         Outnumbered(base, m, lo)
  PROVE  Outnumbered(base, m, hi)
<1>1. Newer(base, m, lo) \subseteq Newer(base, m, hi)
  BY DEF Newer
<1>2. PICK f \in [1 .. MaxRecords -> Newer(base, m, lo)] :
        \A i, j \in 1 .. MaxRecords : i < j => f[i] < f[j]
  BY DEF Outnumbered
<1>3. f \in [1 .. MaxRecords -> Newer(base, m, hi)]
  BY <1>1, <1>2
<1> QED BY <1>2, <1>3 DEF Outnumbered

LEMMA ResolveIs ==
  ASSUME NEW records \in Seq(Records), NEW tool
  PROVE  /\ Resolve(records, tool) \in Seq(Records)
         /\ Len(Resolve(records, tool)) = Len(records)
         /\ \A k \in 1 .. Len(records) :
              /\ Resolve(records, tool)[k] = [records[k] EXCEPT !.resolved = @ \/ records[k].tool = tool]
              /\ Resolve(records, tool)[k].n = records[k].n
              /\ records[k].resolved => Resolve(records, tool)[k].resolved
<1> DEFINE R(r) == [r EXCEPT !.resolved = @ \/ r.tool = tool]
           s == [k \in 1 .. Len(records) |-> R(records[k])]
<1>1. Len(records) \in Nat /\ DOMAIN records = 1 .. Len(records)
      /\ \A k \in 1 .. Len(records) : records[k] \in Records
  BY SeqParts
<1>2. Resolve(records, tool) = s
  BY <1>1 DEF Resolve
<1>3. ASSUME NEW r \in Records PROVE R(r) \in Records /\ R(r).n = r.n /\ (r.resolved => R(r).resolved)
  <2>1. (r.resolved \/ r.tool = tool) \in BOOLEAN
    BY Zenon
  <2>2. R(r) = [r EXCEPT !.resolved = r.resolved \/ r.tool = tool]
    OBVIOUS
  <2> QED BY <2>1, <2>2 DEF Records
<1> HIDE DEF R
<1>4. s \in [1 .. Len(records) -> Records] /\ \A k \in 1 .. Len(records) : s[k] = R(records[k])
  BY <1>1, <1>3
<1> HIDE DEF s
<1>5. s \in Seq(Records) /\ Len(s) = Len(records)
  BY <1>1, <1>4
<1>6. \A k \in 1 .. Len(records) :
        /\ s[k] = R(records[k]) /\ s[k].n = records[k].n
        /\ records[k].resolved => s[k].resolved
  <2> TAKE k \in 1 .. Len(records)
  <2>1. records[k] \in Records /\ s[k] = R(records[k])
    BY <1>1, <1>4
  <2> QED BY <1>3, <2>1
<1> QED BY <1>2, <1>5, <1>6 DEF R

\* one failure more
LEMMA FailureKeeps ==
  ASSUME GuardsAssumption, NEW base \in Accs, Fits(base), NEW a \in Accs, Fits(a), Since(base, a),
         NEW r \in Records, r.n = Len(a.all) + 1, ~r.resolved,
         NEW b, b = [all |-> Append(a.all, r), log |-> Trim(Append(a.log, r))]
  PROVE  b \in Accs /\ Fits(b) /\ Since(base, b)
<1> DEFINE all == a.all
           log == a.log
           records == Append(log, r)
           all2 == Append(all, r)
           log2 == Trim(records)
           N == Len(all)
           L == Len(log)
<1>1. /\ all \in Seq(Records) /\ log \in Seq(Records) /\ N \in Nat /\ L \in Nat
      /\ DOMAIN all = 1 .. N /\ DOMAIN log = 1 .. L /\ MaxRecords \in Nat
      /\ \A k \in 1 .. N : all[k] \in Records
      /\ \A k \in 1 .. L : log[k] \in Records
  BY SeqParts DEF Accs, GuardsAssumption
<1>2. /\ \A k \in 1 .. N : all[k].n = k
      /\ \A k \in 1 .. L : log[k].n \in 1 .. N /\ log[k] = all[log[k].n]
      /\ L <= MaxRecords /\ Rising(log)
  BY <1>1 DEF Fits
<1>3. /\ Len(base.all) \in Nat /\ Len(base.all) <= N /\ DOMAIN base.all = 1 .. Len(base.all)
      /\ DOMAIN base.log = 1 .. Len(base.log)
      /\ \A k \in DOMAIN base.all : base.all[k].resolved => all[k].resolved
      /\ \A i \in Open(base.log) : base.log[i].n \in 1 .. Len(base.all)
  <2>1. base.all \in Seq(Records) /\ base.log \in Seq(Records)
    BY DEF Accs
  <2> QED BY <2>1, SeqParts DEF Since, Fits, Open
<1> HIDE DEF all, log, N, L
<1>4. /\ records \in Seq(Records) /\ Len(records) = L + 1 /\ DOMAIN records = 1 .. L + 1
      /\ \A k \in 1 .. L : records[k] = log[k]
      /\ records[L + 1] = r
  BY <1>1 DEF L
<1>5. /\ all2 \in Seq(Records) /\ Len(all2) = N + 1 /\ DOMAIN all2 = 1 .. N + 1
      /\ \A k \in 1 .. N : all2[k] = all[k]
      /\ all2[N + 1] = r /\ r.n = N + 1
  BY <1>1 DEF N, all
<1>6. b.all = all2 /\ b.log = log2
  BY DEF all, log
<1> HIDE DEF records, all2
<1>7. \A k \in 1 .. N + 1 : all2[k].n = k
  <2> TAKE k \in 1 .. N + 1
  <2>1. k = N + 1 \/ k \in 1 .. N
    BY <1>1
  <2> QED BY <1>2, <1>5, <2>1
<1>8. \A k \in 1 .. L + 1 : records[k].n \in 1 .. N + 1 /\ records[k] = all2[records[k].n]
  <2> TAKE k \in 1 .. L + 1
  <2>1. CASE k = L + 1
    BY <1>1, <1>4, <1>5, <2>1
  <2>2. CASE k # L + 1
    <3>1. k \in 1 .. L
      BY <1>1, <2>2
    <3>2. log[k].n \in 1 .. N /\ log[k].n \in 1 .. N + 1
      BY <1>1, <1>2, <3>1
    <3>3. records[k] = log[k] /\ log[k] = all[log[k].n] /\ all2[log[k].n] = all[log[k].n]
      BY <1>2, <1>4, <1>5, <3>1, <3>2
    <3> QED BY <3>2, <3>3
  <2> QED BY <2>1, <2>2
<1>9. Copies(records)
  BY <1>4, <1>8 DEF Copies
<1>10. Rising(records)
  <2> SUFFICES ASSUME NEW k \in Open(records)
               PROVE  \E p \in DOMAIN records : /\ records[p].n = records[k].n
                        /\ \A i, j \in p .. Len(records) : i < j => records[i].n < records[j].n
    BY DEF Rising
  <2>1. k \in 1 .. L + 1 /\ ~records[k].resolved
    BY <1>4 DEF Open
  <2>2. CASE k = L + 1
    <3>1. \A i, j \in k .. Len(records) : ~(i < j)
      BY <1>1, <1>4, <2>2
    <3> QED BY <1>4, <2>1, <3>1
  <2>3. CASE k # L + 1
    <3>1. k \in 1 .. L
      BY <1>1, <2>1, <2>3
    <3>2. k \in Open(log)
      BY <1>1, <1>4, <2>1, <3>1 DEF Open
    <3>3. PICK p \in 1 .. L : /\ log[p].n = log[k].n
             /\ \A i, j \in p .. L : i < j => log[i].n < log[j].n
      <4>1. \E p \in DOMAIN log : /\ log[p].n = log[k].n
              /\ \A i, j \in p .. Len(log) : i < j => log[i].n < log[j].n
        BY <1>2, <3>2, Zenon DEF Rising
      <4> QED BY <1>1, <4>1 DEF L
    <3>4. ASSUME NEW i \in p .. L + 1, NEW j \in p .. L + 1, i < j
          PROVE  records[i].n < records[j].n
      <4>1. i \in p .. L /\ i \in 1 .. L
        BY <1>1, <3>4
      <4>2. CASE j = L + 1
        <5>1. records[i].n \in 1 .. N
          BY <1>2, <1>4, <4>1
        <5>2. records[j].n = N + 1
          BY <1>4, <1>5, <4>2
        <5> QED BY <1>1, <5>1, <5>2
      <4>3. CASE j # L + 1
        <5>1. j \in p .. L /\ j \in 1 .. L
          <6>1. j \in Int /\ p <= j /\ j <= L + 1 /\ p \in Int /\ 1 <= p
            BY <1>1
          <6>2. L \in Nat
            BY <1>1
          <6> QED BY <4>3, <6>1, <6>2
        <5> QED BY <1>4, <3>3, <3>4, <4>1, <5>1
      <4> QED BY <4>2, <4>3
    <3>5. p \in 1 .. L + 1
      BY <1>1
    <3> QED BY <1>4, <3>1, <3>3, <3>4, <3>5
  <2> QED BY <2>2, <2>3
<1>11. Trims(log2, records)
  <2>1. Len(records) <= MaxRecords + 1
    BY <1>1, <1>2, <1>4
  <2> QED BY <1>1, <1>4, <1>9, <1>10, <2>1, TrimIs
<1> HIDE DEF log2
<1>12. /\ log2 \in Seq(Records) /\ Len(log2) <= MaxRecords /\ Rising(log2)
       /\ \A i \in DOMAIN log2 : \E j \in 1 .. L + 1 : log2[i] = records[j]
       /\ \A k \in Open(records) :
            (\E j \in DOMAIN log2 : log2[j].n = records[k].n) \/ Overtaken(records, k)
  BY <1>4, <1>11 DEF Trims
<1>13. b \in Accs
  <2>1. b = [all |-> all2, log |-> log2]
    BY DEF all2, log2, records, all, log
  <2> QED BY <1>5, <1>12, <2>1 DEF Accs
<1>14. Fits(b)
  <2>1. \A k \in DOMAIN log2 : log2[k].n \in DOMAIN all2 /\ log2[k] = all2[log2[k].n]
    BY <1>5, <1>8, <1>12
  <2>2. \A k \in DOMAIN all2 : all2[k].n = k
    BY <1>5, <1>7
  <2> QED BY <1>6, <1>12, <2>1, <2>2 DEF Fits
<1>15. Since(base, b)
  <2>1. Len(base.all) <= Len(all2)
    BY <1>1, <1>3, <1>5
  <2>2. \A k \in DOMAIN base.all : k \in 1 .. N /\ all2[k] = all[k]
    BY <1>1, <1>3, <1>5
  <2>3. \A k \in DOMAIN base.all : base.all[k].resolved => all2[k].resolved
    BY <1>3, <2>2
  <2>4. ASSUME NEW i \in Open(base.log)
        PROVE  \/ all2[base.log[i].n].resolved
               \/ \E j \in DOMAIN log2 : log2[j].n = base.log[i].n
               \/ Outnumbered(base, base.log[i].n, Len(all2))
    <3> DEFINE m == base.log[i].n
    <3>1. m \in 1 .. N /\ m \in DOMAIN base.all /\ all2[m] = all[m]
      BY <1>1, <1>3, <2>2
    <3>2. all[m].resolved \/ (\E j \in 1 .. L : log[j].n = m) \/ Outnumbered(base, m, N)
      BY <1>1 DEF Since, all, log, N
    <3> HIDE DEF m
    <3>3. CASE all[m].resolved
      BY <3>1, <3>3 DEF m
    <3>4. CASE Outnumbered(base, m, N)
      <4>1. Outnumbered(base, m, N + 1)
        BY <1>1, <3>1, <3>4, MoreOutnumber
      <4> QED BY <1>5, <4>1 DEF m
    <3>5. CASE (\E j \in 1 .. L : log[j].n = m) /\ ~all[m].resolved
      <4>1. PICK j \in 1 .. L : log[j].n = m
        BY <3>5
      <4>2. j \in Open(records) /\ records[j].n = m
        <5>1. j \in 1 .. L + 1 /\ records[j] = log[j] /\ log[j] = all[m]
          BY <1>1, <1>2, <1>4, <4>1
        <5> QED BY <1>4, <3>5, <4>1, <5>1 DEF Open
      <4>3. CASE \E q \in DOMAIN log2 : log2[q].n = records[j].n
        BY <4>2, <4>3 DEF m
      <4>4. CASE Overtaken(records, j)
        <5>1. PICK f \in [1 .. MaxRecords -> Open(records)] :
                /\ \A x \in 1 .. MaxRecords : records[f[x]].n > records[j].n
                /\ \A x, y \in 1 .. MaxRecords : x < y => records[f[x]].n < records[f[y]].n
          BY <4>4 DEF Overtaken
        <5> DEFINE g == [x \in 1 .. MaxRecords |-> records[f[x]].n]
        <5>2. ASSUME NEW x \in 1 .. MaxRecords PROVE records[f[x]].n \in Newer(base, m, N + 1)
          <6> DEFINE z == records[f[x]].n
          <6>1. f[x] \in 1 .. L + 1 /\ ~records[f[x]].resolved
            BY <1>4, <5>1 DEF Open
          <6>2. z \in 1 .. N + 1 /\ ~all2[z].resolved /\ z > m
            BY <1>8, <4>2, <5>1, <6>1
          <6> HIDE DEF z
          <6>3. z \in m + 1 .. N + 1
            BY <1>1, <3>1, <6>2
          <6>4. z \in DOMAIN base.all => ~base.all[z].resolved
            BY <2>3, <6>2
          <6> QED BY <6>3, <6>4 DEF Newer, z
        <5>3. g \in [1 .. MaxRecords -> Newer(base, m, N + 1)]
          BY <5>2
        <5>4. \A x, y \in 1 .. MaxRecords : x < y => g[x] < g[y]
          BY <5>1
        <5> HIDE DEF g
        <5>5. Outnumbered(base, m, N + 1)
          BY <5>3, <5>4 DEF Outnumbered
        <5> QED BY <1>5, <5>5 DEF m
      <4> QED BY <1>12, <4>2, <4>3, <4>4
    <3> QED BY <3>2, <3>3, <3>4, <3>5
  <2> QED BY <1>6, <2>1, <2>3, <2>4 DEF Since
<1> QED BY <1>13, <1>14, <1>15

\* a tool has succeeded
LEMMA SuccessKeeps ==
  ASSUME NEW base \in Accs, Fits(base), NEW a \in Accs, Fits(a), Since(base, a), NEW tool,
         NEW b, b = [all |-> Resolve(a.all, tool), log |-> Resolve(a.log, tool)]
  PROVE  b \in Accs /\ Fits(b) /\ Since(base, b)
<1> DEFINE all == a.all
           log == a.log
           all2 == Resolve(all, tool)
           log2 == Resolve(log, tool)
           N == Len(all)
           L == Len(log)
           R(r) == [r EXCEPT !.resolved = @ \/ r.tool = tool]
<1>1. /\ all \in Seq(Records) /\ log \in Seq(Records) /\ N \in Nat /\ L \in Nat
      /\ DOMAIN all = 1 .. N /\ DOMAIN log = 1 .. L
  BY SeqParts DEF Accs
<1>2. /\ \A k \in 1 .. N : all[k].n = k
      /\ \A k \in 1 .. L : log[k].n \in 1 .. N /\ log[k] = all[log[k].n]
      /\ L <= MaxRecords /\ Rising(log)
  BY <1>1 DEF Fits
<1>3. /\ Len(base.all) \in Nat /\ Len(base.all) <= N /\ DOMAIN base.all = 1 .. Len(base.all)
      /\ \A k \in DOMAIN base.all : base.all[k].resolved => all[k].resolved
      /\ \A i \in Open(base.log) : base.log[i].n \in 1 .. Len(base.all)
  <2>1. base.all \in Seq(Records) /\ base.log \in Seq(Records)
    BY DEF Accs
  <2> QED BY <2>1, SeqParts DEF Since, Fits, Open
<1> HIDE DEF all, log
<1>4. /\ all2 \in Seq(Records) /\ Len(all2) = N /\ DOMAIN all2 = 1 .. N
      /\ \A k \in 1 .. N : all2[k] = R(all[k]) /\ all2[k].n = all[k].n
                           /\ (all[k].resolved => all2[k].resolved)
  <2>1. /\ all2 \in Seq(Records) /\ Len(all2) = Len(all)
        /\ \A k \in 1 .. Len(all) :
             /\ all2[k] = R(all[k]) /\ all2[k].n = all[k].n
             /\ all[k].resolved => all2[k].resolved
    BY <1>1, ResolveIs
  <2> HIDE DEF all2, R
  <2>2. DOMAIN all2 = 1 .. Len(all2)
    BY <2>1, SeqParts
  <2> QED BY <2>1, <2>2
<1>5. /\ log2 \in Seq(Records) /\ Len(log2) = L /\ DOMAIN log2 = 1 .. L
      /\ \A k \in 1 .. L : log2[k] = R(log[k]) /\ log2[k].n = log[k].n
                           /\ (log[k].resolved => log2[k].resolved)
  <2>1. /\ log2 \in Seq(Records) /\ Len(log2) = Len(log)
        /\ \A k \in 1 .. Len(log) :
             /\ log2[k] = R(log[k]) /\ log2[k].n = log[k].n
             /\ log[k].resolved => log2[k].resolved
    BY <1>1, ResolveIs
  <2> HIDE DEF log2, R
  <2>2. DOMAIN log2 = 1 .. Len(log2)
    BY <2>1, SeqParts
  <2> QED BY <2>1, <2>2
<1>6. b.all = all2 /\ b.log = log2 /\ b = [all |-> all2, log |-> log2]
  BY DEF all, log
<1> HIDE DEF all2, log2, N, L, R
<1>7. b \in Accs
  BY <1>4, <1>5, <1>6 DEF Accs
<1>8. Fits(b)
  <2>1. \A k \in DOMAIN all2 : all2[k].n = k
    BY <1>2, <1>4
  <2>2. \A k \in DOMAIN log2 : log2[k].n \in DOMAIN all2 /\ log2[k] = all2[log2[k].n]
    <3> TAKE k \in DOMAIN log2
    <3>1. k \in 1 .. L /\ log[k].n \in 1 .. N /\ log[k] = all[log[k].n]
      BY <1>2, <1>5
    <3>2. log2[k] = R(all[log[k].n]) /\ all2[log[k].n] = R(all[log[k].n]) /\ log2[k].n = log[k].n
      BY <1>4, <1>5, <3>1
    <3> QED BY <1>4, <3>1, <3>2
  <2>3. Rising(log2)
    <3> SUFFICES ASSUME NEW k \in Open(log2)
                 PROVE  \E p \in DOMAIN log2 : /\ log2[p].n = log2[k].n
                          /\ \A i, j \in p .. Len(log2) : i < j => log2[i].n < log2[j].n
      BY DEF Rising
    <3>1. k \in 1 .. L /\ k \in Open(log)
      BY <1>1, <1>5 DEF Open
    <3>2. PICK p \in 1 .. L : /\ log[p].n = log[k].n
             /\ \A i, j \in p .. L : i < j => log[i].n < log[j].n
      BY <1>1, <1>2, <3>1 DEF Rising, L
    <3>3. \A i \in p .. L : i \in 1 .. L
      BY <1>1
    <3> QED BY <1>5, <3>1, <3>2, <3>3
  <2> QED BY <1>2, <1>5, <1>6, <2>1, <2>2, <2>3 DEF Fits
<1>9. Since(base, b)
  <2>1. \A k \in DOMAIN base.all : k \in 1 .. N
    BY <1>1, <1>3
  <2>2. \A k \in DOMAIN base.all : base.all[k].resolved => all2[k].resolved
    BY <1>3, <1>4, <2>1
  <2>3. ASSUME NEW i \in Open(base.log)
        PROVE  \/ all2[base.log[i].n].resolved
               \/ \E j \in DOMAIN log2 : log2[j].n = base.log[i].n
               \/ Outnumbered(base, base.log[i].n, Len(all2))
    <3> DEFINE m == base.log[i].n
    <3>1. m \in 1 .. N
      BY <1>1, <1>3
    <3>2. all[m].resolved \/ (\E j \in 1 .. L : log[j].n = m) \/ Outnumbered(base, m, N)
      BY <1>1 DEF Since, all, log, N
    <3> HIDE DEF m
    <3> QED BY <1>4, <1>5, <3>1, <3>2 DEF m
  <2> QED BY <1>3, <1>4, <1>6, <2>2, <2>3 DEF Since
<1> QED BY <1>7, <1>8, <1>9

\* What a sequence of results may make of the ledger.
Reached(base) == {a \in Accs : Fits(a) /\ Since(base, a)}

LEMMA NotedIs ==
  ASSUME GuardsAssumption, NEW base \in Accs, Fits(base), NEW a \in Reached(base),
         NEW c \in GuardedCalls
  PROVE  Noted(a, c) \in Reached(base)
<1> DEFINE r == [n |-> Len(a.all) + 1, tool |-> c.tool, resolved |-> FALSE]
           failed == [all |-> Append(a.all, r), log |-> Trim(Append(a.log, r))]
           success == [all |-> Resolve(a.all, c.tool), log |-> Resolve(a.log, c.tool)]
<1>1. a \in Accs /\ Fits(a) /\ Since(base, a)
  BY DEF Reached
<1>2. r \in Records /\ r.n = Len(a.all) + 1 /\ ~r.resolved
  <2>1. Len(a.all) \in Nat /\ c.tool \in Tools
    BY <1>1, SeqParts DEF Accs, Tools
  <2> QED BY <2>1 DEF Records
<1> HIDE DEF r
<1>3. failed \in Reached(base)
  <2> DEFINE b == failed
  <2>1. b = [all |-> Append(a.all, r), log |-> Trim(Append(a.log, r))]
    OBVIOUS
  <2> HIDE DEF b
  <2>2. b \in Accs /\ Fits(b) /\ Since(base, b)
    BY <1>1, <1>2, <2>1, FailureKeeps
  <2>3. b \in Reached(base)
    BY <2>2 DEF Reached
  <2> QED BY <2>3 DEF b
<1>4. success \in Reached(base)
  <2> DEFINE b == success
  <2>1. b = [all |-> Resolve(a.all, c.tool), log |-> Resolve(a.log, c.tool)]
    OBVIOUS
  <2> HIDE DEF b
  <2>2. b \in Accs /\ Fits(b) /\ Since(base, b)
    BY <1>1, <2>1, SuccessKeeps
  <2>3. b \in Reached(base)
    BY <2>2 DEF Reached
  <2> QED BY <2>3 DEF b
<1>5. Noted(a, c) \in {failed, a, success}
  BY DEF Noted, r
<1> QED BY <1>3, <1>4, <1>5

LEMMA RecordedIs ==
  ASSUME GuardsAssumption, NEW n \in Nat, NEW calls \in [1 .. n -> GuardedCalls],
         NEW base, base = [all |-> failures, log |-> ledger], base \in Accs, Fits(base)
  PROVE  Recorded(calls) \in Reached(base)
<1> DEFINE A == Reached(base)
           next == [k \in 1 .. n |-> [a \in A |-> Noted(a, calls[k])]]
           Is(g) == [k \in 0 .. n |-> IF k = 0 THEN base ELSE Noted(g[k - 1], calls[k])]
           up == CHOOSE g : g = Is(g)
<1>1. Len(calls) = n
  OBVIOUS
<1>2. Recorded(calls) = up[n]
  BY <1>1 DEF Recorded
<1>3. base \in A
  <2>1. /\ base.all \in Seq(Records) /\ base.log \in Seq(Records)
    BY DEF Accs
  <2>2. Len(base.all) \in Nat /\ \A i \in Open(base.log) : i \in DOMAIN base.log
    BY <2>1, SeqParts DEF Open
  <2>3. Since(base, base)
    BY <2>2 DEF Since
  <2> QED BY <2>3 DEF Reached
<1>4. \A k \in 1 .. n : \A a \in A : Noted(a, calls[k]) \in A
  BY NotedIs
<1> HIDE DEF A
<1>5. next \in [1 .. n -> [A -> A]]
  BY <1>4
<1>6. \E f : Computes(f, n, A, base, next)
  <2> HIDE DEF next
  <2> QED BY <1>3, <1>5, Recursion, Zenon
<1>7. PICK f \in [0 .. n -> A] : f[0] = base /\ \A k \in 1 .. n : f[k] = next[k][f[k - 1]]
  BY <1>6 DEF Computes
<1>8. f = Is(f)
  <2>1. ASSUME NEW k \in 1 .. n PROVE f[k] = Noted(f[k - 1], calls[k])
    <3>1. f[k - 1] \in A
      OBVIOUS
    <3> QED BY <1>7, <3>1
  <2>2. f = [k \in 0 .. n |-> f[k]]
    BY <1>7
  <2>3. \A k \in 0 .. n : f[k] = IF k = 0 THEN base ELSE Noted(f[k - 1], calls[k])
    <3> TAKE k \in 0 .. n
    <3>1. CASE k = 0
      BY <1>7, <3>1
    <3>2. CASE k # 0
      <4>1. k \in 1 .. n
        BY <3>2
      <4> QED BY <2>1, <3>2, <4>1
    <3> QED BY <3>1, <3>2
  <2>4. Is(f) = [k \in 0 .. n |-> f[k]]
    BY <2>3, Zenon
  <2> QED BY <2>2, <2>4, Zenon
<1>9. up = Is(up)
  <2> HIDE DEF Is
  <2> QED BY <1>8, Zenon
<1> HIDE DEF up
<1>10. up[0] = base /\ \A k \in 1 .. n : up[k] = Noted(up[k - 1], calls[k])
  <2>1. \A k \in 0 .. n : up[k] = IF k = 0 THEN base ELSE Noted(up[k - 1], calls[k])
    BY <1>9
  <2>2. 0 \in 0 .. n
    OBVIOUS
  <2>3. up[0] = base
    BY <2>1, <2>2, Zenon
  <2>4. ASSUME NEW k \in 1 .. n PROVE up[k] = Noted(up[k - 1], calls[k])
    <3>1. k \in 0 .. n /\ k # 0
      OBVIOUS
    <3> QED BY <2>1, <3>1, Zenon
  <2> QED BY <2>3, <2>4
<1> DEFINE T == {k \in 0 .. n : up[k] \in A}
<1>11. 0 \in T
  BY <1>3, <1>10
<1>12. ASSUME NEW k \in 1 .. n, k - 1 \in T PROVE k \in T
  <2>1. Noted(up[k - 1], calls[k]) \in A
    BY <1>4, <1>12
  <2>2. k \in 0 .. n
    OBVIOUS
  <2> QED BY <1>10, <2>1, <2>2
<1>13. n \in T
  <2> HIDE DEF T
  <2>1. 0 .. n \subseteq T
    BY <1>11, <1>12, Climb
  <2> QED BY <2>1
<1> QED BY <1>2, <1>13 DEF A

---------------------------------------------------------------------------
(* The records stay consistent                                             *)

LedgerOK == LET a == [all |-> failures, log |-> ledger] IN a \in Accs /\ Fits(a)

\* Only a reply with calls and a new conversation change the records.
LEMMA RecordsMove ==
  ASSUME [GuardsNext]_guardVars
  PROVE  \/ UNCHANGED <<ledger, failures>>
         \/ ledger' = <<>> /\ failures' = <<>>
         \/ \E n \in 1 .. MaxParallel : \E calls \in [1 .. n -> GuardedCalls] :
              ledger' = Recorded(calls).log /\ failures' = Recorded(calls).all
<1>1. CASE NewTurn \/ Guards \/ BudgetEnds \/ ReplyTruncated \/ ReplyText \/ ReplyFails
  BY <1>1 DEF NewTurn, Guards, BudgetEnds, ReplyTruncated, ReplyText, ReplyFails
<1>2. CASE NewConversation
  BY <1>2 DEF NewConversation
<1>3. ASSUME NEW k \in DOMAIN context, CompactContext(k) PROVE UNCHANGED <<ledger, failures>>
  BY <1>3 DEF CompactContext
<1>4. ASSUME NEW n \in 1 .. MaxParallel, NEW calls \in [1 .. n -> GuardedCalls], ReplyCalls(calls)
      PROVE  ledger' = Recorded(calls).log /\ failures' = Recorded(calls).all
  BY <1>4 DEF ReplyCalls
<1>5. CASE UNCHANGED guardVars
  BY <1>5 DEF guardVars
<1> QED BY <1>1, <1>2, <1>3, <1>4, <1>5, Zenon DEF GuardsNext

LEMMA EmptyFits ==
  ASSUME MaxRecords \in Nat
  PROVE  LET a == [all |-> <<>>, log |-> <<>>] IN a \in Accs /\ Fits(a)
BY DEF Accs, Fits, Rising, Open

LEMMA LedgerStep ==
  ASSUME GuardsAssumption, LedgerOK, [GuardsNext]_guardVars
  PROVE  LedgerOK'
<1>1. MaxRecords \in Nat /\ MaxParallel \in Nat
  BY DEF GuardsAssumption
<1>2. CASE UNCHANGED <<ledger, failures>>
  BY <1>2 DEF LedgerOK
<1>3. CASE ledger' = <<>> /\ failures' = <<>>
  BY <1>1, <1>3, EmptyFits DEF LedgerOK
<1>4. ASSUME NEW n \in 1 .. MaxParallel, NEW calls \in [1 .. n -> GuardedCalls],
             ledger' = Recorded(calls).log, failures' = Recorded(calls).all
      PROVE  LedgerOK'
  <2> DEFINE base == [all |-> failures, log |-> ledger]
             b == Recorded(calls)
  <2>1. base = [all |-> failures, log |-> ledger] /\ base \in Accs /\ Fits(base)
    BY DEF LedgerOK
  <2> HIDE DEF base
  <2>2. b \in Reached(base)
    BY <1>1, <2>1, RecordedIs
  <2> HIDE DEF b
  <2>3. b \in Accs /\ Fits(b)
    BY <2>2 DEF Reached
  <2>4. b = [all |-> b.all, log |-> b.log]
    BY <2>3 DEF Accs
  <2>5. b = [all |-> failures', log |-> ledger']
    BY <1>4, <2>4 DEF b
  <2> QED BY <2>3, <2>5 DEF LedgerOK
<1> QED BY <1>2, <1>3, <1>4, RecordsMove

LEMMA UnresolvedAre ==
  ASSUME NEW records \in Seq(Records)
  PROVE  Numbers(Unresolved(records)) = {records[k].n : k \in Open(records)}
<1> DEFINE S == Open(records)
           p == Picked(records, S)
<1>1. Unresolved(records) = p
  BY DEF Unresolved, Open
<1>2. S \subseteq 1 .. Len(records) /\ S \cap (1 .. Len(records)) = S
  BY SeqParts DEF Open
<1> HIDE DEF S
<1>3. p \in Seq(Records) /\ \E e : Embeds(e, p, records, S, Len(records))
  BY PickedIs
<1> HIDE DEF p
<1>4. DOMAIN p = 1 .. Len(p)
  BY <1>3, SeqParts
<1>5. PICK e : Embeds(e, p, records, S, Len(records))
  BY <1>3
<1>6. /\ \A i \in DOMAIN p : e[i] \in S /\ p[i] = records[e[i]]
      /\ \A m \in S : \E i \in DOMAIN p : e[i] = m
  BY <1>2, <1>4, <1>5 DEF Embeds
<1>7. Numbers(p) = {records[k].n : k \in S}
  BY <1>6 DEF Numbers
<1> QED BY <1>1, <1>7 DEF S

\* A step drops an unresolved failure only for newer ones.
DropsOldest ==
  \A n \in Numbers(Unresolved(ledger)) :
       (/\ n \in Numbers(Unresolved(failures'))
        /\ n \notin Numbers(Unresolved(ledger')))
       => Cardinality((Numbers(Unresolved(failures))
                         \cup (Len(failures) + 1 .. Len(failures'))) \ (1 .. n))
          >= MaxRecords

LEMMA DropsStep ==
  ASSUME GuardsAssumption, LedgerOK, [GuardsNext]_guardVars
  PROVE  DropsOldest
<1> DEFINE base == [all |-> failures, log |-> ledger]
<1>0. MaxRecords \in Nat /\ MaxParallel \in Nat
  BY DEF GuardsAssumption
<1>1. base = [all |-> failures, log |-> ledger] /\ base \in Accs /\ Fits(base)
      /\ base.all = failures /\ base.log = ledger
  BY DEF LedgerOK
<1> HIDE DEF base
<1>2. /\ failures \in Seq(Records) /\ ledger \in Seq(Records)
      /\ Len(failures) \in Nat /\ DOMAIN failures = 1 .. Len(failures)
      /\ \A k \in DOMAIN failures : failures[k].n = k
      /\ \A k \in DOMAIN ledger : ledger[k].n \in DOMAIN failures
  BY <1>1, SeqParts DEF Accs, Fits
<1>3. /\ failures' \in Seq(Records) /\ ledger' \in Seq(Records)
      /\ Len(failures') \in Nat /\ DOMAIN failures' = 1 .. Len(failures')
      /\ \A k \in DOMAIN failures' : failures'[k].n = k
      /\ \A k \in DOMAIN ledger' : ledger'[k].n \in DOMAIN failures' /\ ledger'[k] = failures'[ledger'[k].n]
  <2> DEFINE fa == failures'
             le == ledger'
             b == [all |-> fa, log |-> le]
  <2>1. b \in Accs /\ Fits(b)
    BY LedgerStep DEF LedgerOK
  <2> HIDE DEF fa, le
  <2>2. fa \in Seq(Records) /\ le \in Seq(Records)
    BY <2>1 DEF Accs
  <2>3. /\ \A k \in DOMAIN fa : fa[k].n = k
        /\ \A k \in DOMAIN le : le[k].n \in DOMAIN fa /\ le[k] = fa[le[k].n]
    BY <2>1 DEF Fits
  <2>4. Len(fa) \in Nat /\ DOMAIN fa = 1 .. Len(fa)
    BY <2>2, SeqParts
  <2> QED BY <2>2, <2>3, <2>4 DEF fa, le
<1>4. SUFFICES ASSUME NEW m \in Numbers(Unresolved(ledger)), m \in Numbers(Unresolved(failures')),
                      m \notin Numbers(Unresolved(ledger'))
               PROVE  Cardinality((Numbers(Unresolved(failures))
                         \cup (Len(failures) + 1 .. Len(failures'))) \ (1 .. m)) >= MaxRecords
  BY DEF DropsOldest
<1>5. PICK i \in Open(ledger) : ledger[i].n = m
  BY <1>2, UnresolvedAre
<1>6. m \in DOMAIN failures' /\ ~failures'[m].resolved
  <2>1. Numbers(Unresolved(failures')) = {failures'[k].n : k \in Open(failures')}
    BY <1>3, UnresolvedAre
  <2>2. PICK k \in Open(failures') : failures'[k].n = m
    BY <1>4, <2>1
  <2> QED BY <1>3, <2>2 DEF Open
<1>7. \A j \in DOMAIN ledger' : ledger'[j].n # m
  <2>1. Numbers(Unresolved(ledger')) = {ledger'[k].n : k \in Open(ledger')}
    BY <1>3, UnresolvedAre
  <2>2. SUFFICES ASSUME NEW j \in DOMAIN ledger', ledger'[j].n = m PROVE FALSE
    OBVIOUS
  <2>3. ~ledger'[j].resolved
    BY <1>3, <1>6, <2>2
  <2>4. j \in Open(ledger')
    BY <2>3 DEF Open
  <2> QED BY <1>4, <2>1, <2>2, <2>4
<1>8. m \in DOMAIN failures /\ i \in DOMAIN ledger /\ ~ledger[i].resolved
  BY <1>2, <1>5 DEF Open
<1>9. CASE UNCHANGED <<ledger, failures>>
  BY <1>5, <1>7, <1>8, <1>9
<1>10. CASE ledger' = <<>> /\ failures' = <<>>
  BY <1>6, <1>10
<1>11. ASSUME NEW n \in 1 .. MaxParallel, NEW calls \in [1 .. n -> GuardedCalls],
              ledger' = Recorded(calls).log, failures' = Recorded(calls).all
       PROVE  Cardinality((Numbers(Unresolved(failures))
                         \cup (Len(failures) + 1 .. Len(failures'))) \ (1 .. m)) >= MaxRecords
  <2> DEFINE b == Recorded(calls)
  <2>1. b \in Reached(base)
    BY <1>0, <1>1, RecordedIs
  <2>2. b.log = ledger' /\ b.all = failures'
    BY <1>11
  <2> HIDE DEF b
  <2>3. Since(base, b)
    BY <2>1 DEF Reached
  <2> DEFINE hi == Len(failures')
             lo == Len(failures)
  <2>4. Outnumbered(base, m, hi) /\ lo <= hi
    <3>1. i \in Open(base.log) /\ base.log[i].n = m
      BY <1>1, <1>5
    <3>2. \/ b.all[m].resolved
          \/ \E j \in DOMAIN b.log : b.log[j].n = m
          \/ Outnumbered(base, m, Len(b.all))
      BY <2>3, <3>1 DEF Since
    <3>3. Len(base.all) <= Len(b.all)
      BY <2>3 DEF Since
    <3> QED BY <1>1, <1>6, <1>7, <2>2, <3>2, <3>3
  <2>5. PICK f \in [1 .. MaxRecords -> Newer(base, m, hi)] :
          \A x, y \in 1 .. MaxRecords : x < y => f[x] < f[y]
    BY <2>4 DEF Outnumbered
  <2> DEFINE U == Numbers(Unresolved(failures))
             T == (U \cup (lo + 1 .. hi)) \ (1 .. m)
  <2>6. U = Open(failures) /\ U \subseteq 1 .. lo
    <3>1. U = {failures[k].n : k \in Open(failures)}
      BY <1>2, UnresolvedAre
    <3> HIDE DEF U
    <3>2. \A k \in Open(failures) : k \in 1 .. lo /\ failures[k].n = k
      BY <1>2 DEF Open
    <3> QED BY <3>1, <3>2
  <2> HIDE DEF U
  <2>7. Newer(base, m, hi) \subseteq T
    <3> SUFFICES ASSUME NEW x \in Newer(base, m, hi) PROVE x \in T
      BY Zenon
    <3>1. x \in m + 1 .. hi /\ (x \in DOMAIN failures => ~failures[x].resolved)
      <4>1. /\ x \in m + 1 .. hi
            /\ x \in DOMAIN base.all => ~base.all[x].resolved
        BY DEF Newer
      <4> QED BY <1>1, <4>1, Zenon
    <3>2. m \in Nat /\ m >= 1
      BY <1>2, <1>8
    <3>3. x \notin 1 .. m /\ x \in Nat
      BY <3>1, <3>2
    <3>4. CASE x <= lo
      <4>1. x \in DOMAIN failures
        BY <1>2, <3>1, <3>2, <3>4
      <4>2. x \in Open(failures)
        BY <3>1, <4>1 DEF Open
      <4> HIDE DEF lo, hi
      <4> QED BY <2>6, <3>3, <4>2
    <3>5. CASE ~(x <= lo)
      <4>1. x \in lo + 1 .. hi
        BY <1>2, <1>3, <3>1, <3>2, <3>3, <3>5
      <4> HIDE DEF lo, hi
      <4> QED BY <3>3, <4>1
    <3> QED BY <3>4, <3>5
  <2>8. f \in Injection(1 .. MaxRecords, T)
    <3> HIDE DEF T
    <3>1. f \in [1 .. MaxRecords -> T]
      BY <2>5, <2>7
    <3>2. ASSUME NEW x \in 1 .. MaxRecords, NEW y \in 1 .. MaxRecords, f[x] = f[y] PROVE x = y
      <4>1. f[x] \in Int /\ f[y] \in Int
        BY <1>3, <2>5 DEF Newer
      <4>2. ~(x < y) /\ ~(y < x)
        BY <2>5, <3>2, <4>1
      <4> QED BY <4>2
    <3> QED BY <3>1, <3>2 DEF Injection, IsInjective
  <2>9. IsFiniteSet(T)
    <3>1. T \subseteq 1 .. hi
      BY <1>2, <1>3, <2>4, <2>6
    <3>2. IsFiniteSet(1 .. hi)
      BY <1>3, FS_Interval
    <3> HIDE DEF T, hi
    <3> QED BY <3>1, <3>2, FS_Subset
  <2> HIDE DEF T
  <2>10. Cardinality(1 .. MaxRecords) <= Cardinality(T)
    BY <2>8, <2>9, FS_Injection
  <2>11. Cardinality(1 .. MaxRecords) = MaxRecords
    <3>1. Cardinality(1 .. MaxRecords) = IF 1 > MaxRecords THEN 0 ELSE MaxRecords - 1 + 1
      BY <1>0, FS_Interval
    <3> DEFINE c == Cardinality(1 .. MaxRecords)
    <3>2. c = IF 1 > MaxRecords THEN 0 ELSE MaxRecords - 1 + 1
      BY <3>1
    <3> HIDE DEF c
    <3>3. c = MaxRecords
      BY <1>0, <3>2
    <3> QED BY <3>3 DEF c
  <2>12. Cardinality(T) \in Nat
    BY <2>9, FS_CardinalityType
  <2>13. Cardinality(T) >= MaxRecords
    BY <1>0, <2>10, <2>11, <2>12
  <2> QED BY <2>13 DEF T, U
<1> QED BY <1>9, <1>10, <1>11, RecordsMove

---------------------------------------------------------------------------
GuardsInv == ContextOK /\ LedgerOK /\ RepeatersAreTold

LEMMA GuardsStart ==
  ASSUME GuardsAssumption, GuardsInit
  PROVE  GuardsInv
<1>1. MaxTurns \in Nat /\ MaxIterations \in Nat /\ Challenges \in Nat /\ MaxRecords \in Nat
  BY DEF GuardsAssumption
<1>2. ContextOK
  <2>1. context \in Seq(GMessages)
    BY DEF GuardsInit
  <2>2. turns \in 0 .. MaxTurns /\ iteration \in 0 .. MaxIterations /\ challenged \in 0 .. Challenges
    BY <1>1 DEF GuardsInit
  <2> QED BY <2>1, <2>2 DEF GuardsInit, ContextOK
<1>3. LedgerOK
  BY <1>1, EmptyFits DEF GuardsInit, LedgerOK
<1>4. RepeatersAreTold
  BY DEF GuardsInit, RepeatersAreTold
<1> QED BY <1>2, <1>3, <1>4 DEF GuardsInv

LEMMA GuardsTyped ==
  ASSUME GuardsInv
  PROVE  GuardsTypeOK
<1>1. ContextOK /\ LedgerOK
  BY DEF GuardsInv
<1>2. \A k \in DOMAIN context : context[k].role \in {"user", "assistant", "tool"}
  <2>1. \A k \in DOMAIN context : context[k] \in GMessages
    BY <1>1, SeqParts DEF ContextOK
  <2> QED BY <2>1 DEF GMessages
<1>3. Len(ledger) <= MaxRecords /\ \A k \in DOMAIN ledger : ledger[k].n \in 1 .. Len(failures)
  <2>1. /\ failures \in Seq(Records) /\ Len(ledger) <= MaxRecords
        /\ \A k \in DOMAIN ledger : ledger[k].n \in DOMAIN failures
    BY <1>1 DEF LedgerOK, Accs, Fits
  <2> QED BY <2>1, SeqParts
<1> QED BY <1>1, <1>2, <1>3 DEF ContextOK, GuardsTypeOK

\* The guards of an autonomous turn: a model whose newest calls are all the same is
\* told so before it is asked again (run_agent and the doom-loop detector), for every
\* window and threshold.
THEOREM RepetitionIsTold == GuardsSpec => [](GuardsTypeOK /\ RepeatersAreTold)
<1>1. GuardsInit => GuardsInv
  BY GuardsAssumption, GuardsStart
<1>2. GuardsInv /\ [GuardsNext]_guardVars => GuardsInv'
  BY GuardsAssumption, ContextStep, LedgerStep, RepetitionStep DEF GuardsInv
<1>3. GuardsInv => GuardsTypeOK /\ RepeatersAreTold
  BY GuardsTyped DEF GuardsInv
<1> QED BY <1>1, <1>2, <1>3, PTL DEF GuardsSpec

\* The ledger of failed attempts: AttemptLog drops a failure whose tool has not
\* succeeded since only for as many newer ones as it holds, however its trims, its
\* successes and the compactions of the context alternate.
THEOREM OldestIsDroppedFirst == GuardsSpec => LedgerDropsOldest
<1>1. GuardsInit => GuardsInv
  BY GuardsAssumption, GuardsStart
<1>2. GuardsInv /\ [GuardsNext]_guardVars => GuardsInv'
  BY GuardsAssumption, ContextStep, LedgerStep, RepetitionStep DEF GuardsInv
<1>3. GuardsInv /\ [GuardsNext]_guardVars => DropsOldest
  BY GuardsAssumption, DropsStep DEF GuardsInv
<1> QED BY <1>1, <1>2, <1>3, PTL DEF GuardsSpec, LedgerDropsOldest, DropsOldest

---------------------------------------------------------------------------
(***************************************************************************)
(* The search of the edit tool                                             *)
(* A text is taken apart into lines and put together again.  What holds such *)
(* a text together is where its lines start, 0 and the positions of the line *)
(* breaks: the starts of a text are the only increasing sequence of these    *)
(* (Unique), and the i-th of them has i - 1 line breaks up to it (RankOf).   *)
(***************************************************************************)

Splits(st, t) ==
  /\ st \in Seq(Nat) /\ Len(st) \in Nat /\ Len(st) >= 1 /\ st[1] = 0
  /\ \A i, j \in 1 .. Len(st) : i < j => st[i] < st[j]
  /\ \A i \in 2 .. Len(st) : st[i] \in 1 .. Len(t) /\ t[st[i]] = Break
  /\ \A k \in 1 .. Len(t) : t[k] = Break => \E i \in 2 .. Len(st) : st[i] = k

LEMMA StartsSplit ==
  ASSUME NEW A, NEW t \in Seq(A)
  PROVE  Splits(Starts(t), t)
<1> DEFINE pos == [k \in DOMAIN t |-> k]
           B == {k \in DOMAIN t : t[k] = Break}
           p == Picked(pos, B)
           st == Starts(t)
<1>1. Len(t) \in Nat /\ DOMAIN t = 1 .. Len(t)
  OBVIOUS
<1>2. pos \in Seq(Nat) /\ Len(pos) = Len(t) /\ \A k \in 1 .. Len(t) : pos[k] = k
  BY <1>1
<1>3. st = <<0>> \o p
  BY DEF Starts
<1>4. B \cap (1 .. Len(t)) = B
  BY <1>1
<1> HIDE DEF pos, st, p
<1>5. p \in Seq(Nat) /\ \E e : Embeds(e, p, pos, B, Len(pos))
  BY <1>2, PickedIs DEF p
<1>6. PICK e : Embeds(e, p, pos, B, Len(t))
  BY <1>2, <1>5
<1>7. /\ e \in [1 .. Len(p) -> B] /\ \A i, j \in 1 .. Len(p) : i < j => e[i] < e[j]
      /\ \A i \in 1 .. Len(p) : p[i] = pos[e[i]]
      /\ \A m \in B : \E i \in 1 .. Len(p) : e[i] = m
  BY <1>4, <1>6, Zenon DEF Embeds
<1>8. \A i \in 1 .. Len(p) : p[i] = e[i] /\ p[i] \in 1 .. Len(t) /\ t[p[i]] = Break
  BY <1>1, <1>2, <1>7
<1>9. /\ st \in Seq(Nat) /\ Len(st) = Len(p) + 1 /\ Len(p) \in Nat /\ st[1] = 0
      /\ \A i \in 2 .. Len(st) : i - 1 \in 1 .. Len(p) /\ st[i] = p[i - 1]
      /\ \A i \in 1 .. Len(p) : i + 1 \in 2 .. Len(st) /\ st[i + 1] = p[i]
  <2>1. <<0>> \in Seq(Nat) /\ Len(<<0>>) = 1 /\ <<0>>[1] = 0 /\ Len(p) \in Nat
    BY <1>5
  <2>2. /\ <<0>> \o p \in Seq(Nat) /\ Len(<<0>> \o p) = Len(<<0>>) + Len(p)
        /\ \A i \in 1 .. Len(<<0>>) + Len(p) :
             (<<0>> \o p)[i] = IF i <= Len(<<0>>) THEN <<0>>[i] ELSE p[i - Len(<<0>>)]
    BY <1>5, <2>1, ConcatProperties, Zenon
  <2> QED BY <1>3, <2>1, <2>2
<1>10. \A i, j \in 1 .. Len(st) : i < j => st[i] < st[j]
  <2> TAKE i, j \in 1 .. Len(st)
  <2> HAVE i < j
  <2>1. j - 1 \in 1 .. Len(p) /\ st[j] = p[j - 1] /\ p[j - 1] \in 1 .. Len(t)
    BY <1>8, <1>9
  <2>2. CASE i = 1
    BY <1>9, <2>1, <2>2
  <2>3. CASE i # 1
    <3>1. i - 1 \in 1 .. Len(p) /\ st[i] = p[i - 1] /\ i - 1 < j - 1
      BY <1>9, <2>3
    <3> QED BY <1>7, <1>8, <2>1, <3>1
  <2> QED BY <2>2, <2>3
<1>11. \A i \in 2 .. Len(st) : st[i] \in 1 .. Len(t) /\ t[st[i]] = Break
  <2> TAKE i \in 2 .. Len(st)
  <2>1. i - 1 \in 1 .. Len(p) /\ st[i] = p[i - 1]
    BY <1>9
  <2> QED BY <1>8, <2>1
<1>12. ASSUME NEW k \in 1 .. Len(t), t[k] = Break
       PROVE  \E i \in 2 .. Len(st) : st[i] = k
  <2>1. k \in B
    BY <1>1, <1>12
  <2>2. PICK i \in 1 .. Len(p) : e[i] = k
    BY <1>7, <2>1
  <2> QED BY <1>8, <1>9, <2>2
<1>13. Len(st) \in Nat /\ Len(st) >= 1
  BY <1>9
<1> QED BY <1>9, <1>10, <1>11, <1>12, <1>13 DEF st, Splits

\* The i-th line starts behind i - 1 line breaks.
BreaksTo(t, k) == {j \in 1 .. k : t[j] = Break}

LEMMA RankOf ==
  ASSUME NEW t, Len(t) \in Nat, NEW st, Splits(st, t), NEW i \in 1 .. Len(st)
  PROVE  LineAt(t, st[i]) = i
<1>1. /\ Len(st) \in Nat /\ Len(st) >= 1 /\ st[1] = 0
      /\ \A x \in 1 .. Len(st) : st[x] \in Nat
      /\ \A x, y \in 1 .. Len(st) : x < y => st[x] < st[y]
      /\ \A x \in 2 .. Len(st) : st[x] \in 1 .. Len(t) /\ t[st[x]] = Break
      /\ \A k \in 1 .. Len(t) : t[k] = Break => \E x \in 2 .. Len(st) : st[x] = k
  BY DEF Splits
<1> DEFINE n == Len(st) - 1
           T == {k \in 0 .. n : /\ IsFiniteSet(BreaksTo(t, st[k + 1]))
                                /\ Cardinality(BreaksTo(t, st[k + 1])) = k}
<1>2. n \in Nat
  BY <1>1
<1>3. 0 \in T
  <2>1. BreaksTo(t, st[0 + 1]) = {}
    BY <1>1 DEF BreaksTo
  <2> QED BY <1>2, <2>1, FS_EmptySet
<1>4. ASSUME NEW k \in 1 .. n, k - 1 \in T PROVE k \in T
  <2> DEFINE lo == BreaksTo(t, st[k])
             hi == BreaksTo(t, st[k + 1])
  <2>1. /\ k \in 1 .. Len(st) /\ k + 1 \in 2 .. Len(st) /\ (k - 1) + 1 = k /\ k \in 0 .. n
        /\ k \in Nat
    BY <1>1
  <2>2. IsFiniteSet(lo) /\ Cardinality(lo) = k - 1
    BY <1>4, <2>1
  <2>3. /\ st[k] < st[k + 1] /\ st[k] \in Nat /\ st[k + 1] \in 1 .. Len(t) /\ t[st[k + 1]] = Break
    BY <1>1, <2>1
  <2>4. ASSUME NEW j \in hi PROVE j \in lo \/ j = st[k + 1]
    <3>1. j \in 1 .. Len(t) /\ t[j] = Break /\ j <= st[k + 1]
      BY <2>3 DEF BreaksTo
    <3>2. PICK x \in 2 .. Len(st) : st[x] = j
      BY <1>1, <3>1
    <3>3. CASE x <= k
      <4>1. st[x] <= st[k]
        BY <1>1, <2>1, <3>3
      <4> QED BY <2>3, <3>1, <3>2, <4>1 DEF BreaksTo
    <3>4. CASE x = k + 1
      BY <3>2, <3>4
    <3>5. CASE x > k + 1
      <4>1. st[k + 1] < st[x]
        BY <1>1, <2>1, <3>5
      <4> QED BY <2>3, <3>1, <3>2, <4>1
    <3> QED BY <2>1, <3>3, <3>4, <3>5
  <2>5. hi = lo \cup {st[k + 1]}
    <3>1. lo \cup {st[k + 1]} \subseteq hi
      BY <2>3 DEF BreaksTo
    <3> QED BY <2>4, <3>1
  <2>6. st[k + 1] \notin lo
    BY <2>3 DEF BreaksTo
  <2> HIDE DEF lo, hi
  <2>7. IsFiniteSet(hi) /\ Cardinality(hi) = (k - 1) + 1
    BY <2>2, <2>5, <2>6, FS_AddElement
  <2> QED BY <2>1, <2>7 DEF hi
<1>5. i - 1 \in T
  <2> HIDE DEF T
  <2>1. 0 .. n \subseteq T
    <3> HIDE DEF n
    <3> QED BY <1>2, <1>3, <1>4, Climb
  <2>2. i - 1 \in 0 .. n
    BY <1>1
  <2> QED BY <2>1, <2>2
<1>6. Cardinality(BreaksTo(t, st[i])) = i - 1
  <2>1. (i - 1) + 1 = i
    BY <1>1
  <2> QED BY <1>5, <2>1
<1> QED BY <1>1, <1>6 DEF LineAt, BreaksTo

\* Any position of the text is in one of its lines.
LEMMA LineIs ==
  ASSUME NEW t, Len(t) \in Nat, NEW st, Splits(st, t), NEW k \in 0 .. Len(t)
  PROVE  LineAt(t, k) \in 1 .. Len(st) /\ LineAt(t, Len(t)) = Len(st)
<1> DEFINE m == Len(st)
<1>1. m \in Nat /\ m >= 1 /\ st[m] \in Nat
  BY DEF Splits
<1>2. BreaksTo(t, Len(t)) = BreaksTo(t, st[m])
  <2>1. ASSUME NEW j \in 1 .. Len(t), t[j] = Break PROVE j \in 1 .. st[m]
    <3>1. PICK x \in 2 .. m : st[x] = j
      BY <2>1 DEF Splits
    <3>2. x = m \/ st[x] < st[m]
      BY <1>1 DEF Splits
    <3> QED BY <1>1, <3>1, <3>2
  <2>2. st[m] <= Len(t)
    BY <1>1 DEF Splits
  <2> QED BY <1>1, <2>1, <2>2 DEF BreaksTo
<1>3. LineAt(t, st[m]) = m
  BY <1>1, RankOf
<1> HIDE DEF m
<1>4. IsFiniteSet(BreaksTo(t, Len(t)))
  <2>1. IsFiniteSet(1 .. Len(t))
    BY FS_Interval
  <2>2. BreaksTo(t, Len(t)) \in SUBSET (1 .. Len(t))
    BY DEF BreaksTo
  <2> QED BY <2>1, <2>2, FS_Subset
<1>5. LineAt(t, Len(t)) = m
  BY <1>2, <1>3 DEF LineAt, BreaksTo
<1>6. BreaksTo(t, k) \in SUBSET BreaksTo(t, Len(t))
  BY DEF BreaksTo
<1>7. /\ Cardinality(BreaksTo(t, k)) \in Nat /\ Cardinality(BreaksTo(t, Len(t))) \in Nat
      /\ Cardinality(BreaksTo(t, k)) <= Cardinality(BreaksTo(t, Len(t)))
  BY <1>4, <1>6, FS_Subset, FS_CardinalityType
<1> QED BY <1>1, <1>5, <1>7 DEF LineAt, BreaksTo, m

LEMMA Unique ==
  ASSUME NEW t, Len(t) \in Nat, NEW st, Splits(st, t), NEW su, Splits(su, t)
  PROVE  st = su
<1>1. /\ st \in Seq(Nat) /\ su \in Seq(Nat) /\ Len(st) \in Nat /\ Len(su) \in Nat
      /\ Len(st) >= 1 /\ Len(su) >= 1
  BY DEF Splits
<1>2. Len(st) = Len(su)
  <2>1. Len(t) \in 0 .. Len(t)
    OBVIOUS
  <2> QED BY <2>1, LineIs
<1>3. ASSUME NEW i \in 1 .. Len(st) PROVE st[i] = su[i]
  <2>1. CASE i = 1
    BY <2>1 DEF Splits
  <2>2. CASE i # 1
    <3>1. st[i] \in 1 .. Len(t) /\ t[st[i]] = Break
      BY <2>2 DEF Splits
    <3>2. PICK j \in 1 .. Len(su) : su[j] = st[i]
      <4>1. \E j \in 2 .. Len(su) : su[j] = st[i]
        BY <3>1, Zenon DEF Splits
      <4> QED BY <1>1, <4>1
    <3>3. LineAt(t, st[i]) = i /\ LineAt(t, su[j]) = j
      BY RankOf
    <3> QED BY <3>2, <3>3
  <2> QED BY <2>1, <2>2
<1> QED BY <1>1, <1>2, <1>3, SeqEqual

\* A piece of a text, by its length and its characters.
LEMMA Cut ==
  ASSUME NEW A, NEW t \in Seq(A), NEW a \in Nat, NEW b \in a .. Len(t)
  PROVE  /\ SubSeq(t, a + 1, b) \in Seq(A)
         /\ Len(SubSeq(t, a + 1, b)) = b - a /\ b - a \in Nat /\ b \in Nat
         /\ \A i \in 1 .. b - a : /\ SubSeq(t, a + 1, b)[i] = t[a + i]
                                  /\ a + i \in 1 .. Len(t) /\ t[a + i] \in A
<1>1. Len(t) \in Nat /\ b \in Nat /\ b - a \in Nat /\ a <= b /\ b <= Len(t)
  BY LenProperties
<1>2. \A i \in a + 1 .. b : t[i] \in A
  <2> TAKE i \in a + 1 .. b
  <2>1. i \in 1 .. Len(t)
    BY <1>1
  <2> QED BY <2>1, ElementOfSeq
<1>3. a + 1 \in Int /\ b \in Int /\ b - (a + 1) + 1 = b - a
  BY <1>1
<1>4. /\ SubSeq(t, a + 1, b) \in Seq(A)
      /\ Len(SubSeq(t, a + 1, b)) = IF a + 1 <= b THEN b - (a + 1) + 1 ELSE 0
      /\ \A i \in 1 .. b - (a + 1) + 1 : SubSeq(t, a + 1, b)[i] = t[(a + 1) + i - 1]
  BY <1>2, <1>3, SubSeqProperties
<1>5. \A i \in 1 .. b - a : (a + 1) + i - 1 = a + i /\ a + i \in a + 1 .. b /\ a + i \in 1 .. Len(t)
  BY <1>1
<1>6. Len(SubSeq(t, a + 1, b)) = b - a
  BY <1>1, <1>4
<1>7. \A i \in 1 .. b - a : SubSeq(t, a + 1, b)[i] = t[a + i]
  BY <1>3, <1>4, <1>5
<1> QED BY <1>1, <1>2, <1>4, <1>5, <1>6, <1>7

LEMMA CutIs ==
  ASSUME NEW A, NEW t \in Seq(A), NEW a \in Nat, NEW b \in a .. Len(t),
         NEW l \in Seq(A), Len(l) = b - a, \A i \in 1 .. Len(l) : l[i] = t[a + i]
  PROVE  SubSeq(t, a + 1, b) = l
<1>1. /\ SubSeq(t, a + 1, b) \in Seq(A) /\ Len(SubSeq(t, a + 1, b)) = b - a
      /\ \A i \in 1 .. b - a : SubSeq(t, a + 1, b)[i] = t[a + i]
  BY Cut
<1> QED BY <1>1, SeqEqual

\* A line ends at the end of the text, or before the break that the next line
\* starts behind, and has no break.
EndOf(t, st, i) == IF i = Len(st) THEN Len(t) ELSE st[i + 1] - 1
OneLine(l) == \A k \in 1 .. Len(l) : l[k] # Break

LEMMA LinesEnd ==
  ASSUME NEW t, Len(t) \in Nat, NEW st, Splits(st, t), NEW i \in 1 .. Len(st)
  PROVE  /\ st[i] \in 0 .. Len(t) /\ st[i] \in Nat
         /\ EndOf(t, st, i) \in st[i] .. Len(t) /\ EndOf(t, st, i) \in Nat
         /\ \A k \in st[i] + 1 .. EndOf(t, st, i) : k \in 1 .. Len(t) /\ t[k] # Break
         /\ i < Len(st) => /\ i + 1 \in 2 .. Len(st)
                           /\ st[i + 1] = EndOf(t, st, i) + 1 /\ st[i + 1] \in 1 .. Len(t)
                           /\ t[st[i + 1]] = Break
<1>1. /\ st \in Seq(Nat) /\ Len(st) \in Nat /\ Len(st) >= 1 /\ st[1] = 0
      /\ \A x, y \in 1 .. Len(st) : x < y => st[x] < st[y]
      /\ \A x \in 2 .. Len(st) : st[x] \in 1 .. Len(t) /\ t[st[x]] = Break
      /\ \A k \in 1 .. Len(t) : t[k] = Break => \E x \in 2 .. Len(st) : st[x] = k
  BY DEF Splits
<1>2. \A x \in 1 .. Len(st) : st[x] \in 0 .. Len(t) /\ st[x] \in Nat
  <2> TAKE x \in 1 .. Len(st)
  <2>1. x = 1 \/ x \in 2 .. Len(st)
    BY <1>1
  <2> QED BY <1>1, <2>1
<1>3. CASE i = Len(st)
  <2>1. EndOf(t, st, i) = Len(t)
    BY <1>3 DEF EndOf
  <2>2. ASSUME NEW k \in st[i] + 1 .. Len(t), t[k] = Break PROVE FALSE
    <3>1. k \in 1 .. Len(t)
      BY <1>2
    <3>2. PICK x \in 2 .. Len(st) : st[x] = k
      BY <1>1, <2>2, <3>1
    <3>3. x = i \/ st[x] < st[i]
      BY <1>1, <1>3
    <3> QED BY <1>2, <3>1, <3>2, <3>3
  <2>3. \A k \in st[i] + 1 .. Len(t) : k \in 1 .. Len(t)
    BY <1>2
  <2> QED BY <1>2, <1>3, <2>1, <2>2, <2>3
<1>4. CASE i # Len(st)
  <2>1. i \in Nat /\ i < Len(st) /\ i + 1 \in 2 .. Len(st) /\ i + 1 \in 1 .. Len(st) /\ i < i + 1
    BY <1>1, <1>4
  <2>2. /\ EndOf(t, st, i) = st[i + 1] - 1 /\ st[i] < st[i + 1] /\ st[i + 1] \in 1 .. Len(t)
        /\ t[st[i + 1]] = Break
    BY <1>1, <1>4, <2>1 DEF EndOf
  <2>3. ASSUME NEW k \in st[i] + 1 .. st[i + 1] - 1, t[k] = Break PROVE FALSE
    <3>1. k \in 1 .. Len(t)
      BY <1>2, <2>2
    <3>2. PICK x \in 2 .. Len(st) : st[x] = k
      BY <1>1, <2>3, <3>1
    <3>3. CASE x <= i
      <4>1. x = i \/ st[x] < st[i]
        BY <1>1, <2>1, <3>3
      <4> QED BY <1>1, <1>2, <3>2, <4>1
    <3>4. CASE x = i + 1
      BY <1>2, <2>2, <3>2, <3>4
    <3>5. CASE x > i + 1
      <4>1. st[i + 1] < st[x]
        BY <1>1, <2>1, <3>5
      <4> QED BY <2>2, <3>1, <3>2, <4>1
    <3> QED BY <2>1, <3>3, <3>4, <3>5
  <2>4. \A k \in st[i] + 1 .. st[i + 1] - 1 : k \in 1 .. Len(t)
    BY <1>2, <2>2
  <2> QED BY <1>2, <2>1, <2>2, <2>3, <2>4
<1> QED BY <1>3, <1>4

LEMMA LinesAre ==
  ASSUME NEW A, NEW t \in Seq(A)
  PROVE  /\ Splits(Starts(t), t) /\ Len(t) \in Nat
         /\ Lines(t) \in Seq(Seq(A)) /\ Len(Lines(t)) = Len(Starts(t))
         /\ Len(Lines(t)) \in Nat /\ Len(Lines(t)) >= 1
         /\ DOMAIN Lines(t) = 1 .. Len(Starts(t))
         /\ \A i \in 1 .. Len(Starts(t)) :
              /\ Lines(t)[i] = SubSeq(t, Starts(t)[i] + 1, EndOf(t, Starts(t), i))
              /\ Lines(t)[i] \in Seq(A) /\ OneLine(Lines(t)[i])
              /\ Len(Lines(t)[i]) = EndOf(t, Starts(t), i) - Starts(t)[i]
<1> DEFINE st == Starts(t)
           line(i) == SubSeq(t, st[i] + 1, EndOf(t, st, i))
<1>1. Len(t) \in Nat /\ Splits(st, t)
  BY LenProperties, StartsSplit
<1>2. st \in Seq(Nat) /\ Len(st) \in Nat /\ Len(st) >= 1 /\ DOMAIN st = 1 .. Len(st)
  BY <1>1 DEF Splits
<1>3. Lines(t) = [i \in 1 .. Len(st) |-> line(i)]
  BY <1>2 DEF Lines, EndOf
<1> HIDE DEF st
<1>4. ASSUME NEW i \in 1 .. Len(st)
      PROVE  line(i) \in Seq(A) /\ OneLine(line(i)) /\ Len(line(i)) = EndOf(t, st, i) - st[i]
  <2>1. /\ st[i] \in Nat /\ EndOf(t, st, i) \in st[i] .. Len(t)
        /\ \A k \in st[i] + 1 .. EndOf(t, st, i) : t[k] # Break
    BY <1>1, LinesEnd
  <2> DEFINE a == st[i]
             b == EndOf(t, st, i)
  <2>2. /\ line(i) \in Seq(A) /\ Len(line(i)) = b - a
        /\ \A k \in 1 .. b - a : line(i)[k] = t[a + k]
    BY <2>1, Cut
  <2>3. \A k \in 1 .. b - a : a + k \in a + 1 .. b
    BY <2>1
  <2> HIDE DEF a, b, line
  <2> QED BY <2>1, <2>2, <2>3 DEF OneLine, a, b
<1>5. Lines(t) \in Seq(Seq(A)) /\ Len(Lines(t)) = Len(st) /\ DOMAIN Lines(t) = 1 .. Len(st)
  <2> HIDE DEF line
  <2> QED BY <1>2, <1>3, <1>4
<1>6. \A i \in 1 .. Len(st) : Lines(t)[i] = line(i)
  BY <1>3
<1> QED BY <1>1, <1>2, <1>4, <1>5, <1>6 DEF st

\* The lines a .. b of a text are the lines of what goes from the start of the
\* first of them to the end of the last.
Piece(t, a, b) == SubSeq(t, Starts(t)[a] + 1, EndOf(t, Starts(t), b))

LEMMA Increasing ==
  ASSUME NEW t, Len(t) \in Nat, NEW st, Splits(st, t), NEW a \in 1 .. Len(st), NEW b \in a .. Len(st)
  PROVE  /\ st[a] \in Nat /\ st[b] \in Nat /\ st[a] <= st[b] /\ b \in 1 .. Len(st)
         /\ EndOf(t, st, b) \in st[a] .. Len(t) /\ EndOf(t, st, b) \in Nat
<1>1. b \in 1 .. Len(st) /\ (a = b \/ a < b)
  BY DEF Splits
<1>2. st[a] <= st[b] /\ st[a] \in Nat /\ st[b] \in Nat
  BY <1>1 DEF Splits
<1> QED BY <1>1, <1>2, LinesEnd

PieceOf(u, su, t, st, a, b) ==
  /\ u = SubSeq(t, st[a] + 1, EndOf(t, st, b))
  /\ su = [i \in 1 .. b - a + 1 |-> st[a + i - 1] - st[a]]

LEMMA PieceSplits ==
  ASSUME NEW A, NEW t \in Seq(A), NEW st, Splits(st, t),
         NEW a \in 1 .. Len(st), NEW b \in a .. Len(st),
         NEW u, NEW su, PieceOf(u, su, t, st, a, b)
  PROVE  /\ u \in Seq(A) /\ Splits(su, u)
         /\ Len(su) = b - a + 1 /\ Len(u) = EndOf(t, st, b) - st[a]
<1> DEFINE e == EndOf(t, st, b)
<1>1. /\ st \in Seq(Nat) /\ Len(st) \in Nat /\ Len(st) >= 1 /\ st[1] = 0
      /\ \A x, y \in 1 .. Len(st) : x < y => st[x] < st[y]
      /\ \A x \in 2 .. Len(st) : st[x] \in 1 .. Len(t) /\ t[st[x]] = Break
      /\ \A k \in 1 .. Len(t) : t[k] = Break => \E x \in 2 .. Len(st) : st[x] = k
      /\ Len(t) \in Nat
  BY LenProperties DEF Splits
<1>2. /\ st[a] \in Nat /\ b \in 1 .. Len(st) /\ e \in st[a] .. Len(t) /\ e \in Nat
      /\ e \in st[b] .. Len(t) /\ st[b] \in Nat
      /\ b < Len(st) => b + 1 \in 2 .. Len(st) /\ st[b + 1] = e + 1
  BY <1>1, Increasing, LinesEnd
<1>0. u = SubSeq(t, st[a] + 1, e) /\ su = [i \in 1 .. b - a + 1 |-> st[a + i - 1] - st[a]]
  BY DEF PieceOf
<1> HIDE DEF e
<1>3. /\ u \in Seq(A) /\ Len(u) = e - st[a] /\ Len(u) \in Nat
      /\ \A i \in 1 .. e - st[a] : u[i] = t[st[a] + i]
  <2>1. LET v == SubSeq(t, st[a] + 1, e)
        IN v \in Seq(A) /\ Len(v) = e - st[a] /\ \A i \in 1 .. e - st[a] : v[i] = t[st[a] + i]
    BY <1>2, Cut
  <2>2. e - st[a] \in Nat
    BY <1>2
  <2> QED BY <1>0, <2>1, <2>2, Zenon
<1>4. \A i \in 1 .. b - a + 1 : /\ a + i - 1 \in 1 .. Len(st) /\ a <= a + i - 1 /\ a + i - 1 <= b
                                /\ st[a + i - 1] \in Nat /\ st[a] <= st[a + i - 1]
                                /\ st[a + i - 1] <= e
  <2> TAKE i \in 1 .. b - a + 1
  <2>1. a + i - 1 \in 1 .. Len(st) /\ a <= a + i - 1 /\ a + i - 1 <= b
    BY <1>1, <1>2
  <2> DEFINE x == a + i - 1
  <2> HIDE DEF x
  <2>2. x \in 1 .. Len(st) /\ a <= x /\ x <= b
    BY <2>1 DEF x
  <2>3. (x = a \/ st[a] < st[x]) /\ (x = b \/ st[x] < st[b]) /\ st[x] \in Nat
    BY <1>1, <1>2, <2>2
  <2>4. st[a] <= st[x] /\ st[x] <= e
    BY <1>2, <2>3
  <2> QED BY <2>2, <2>3, <2>4 DEF x
<1>5. /\ su \in Seq(Nat) /\ Len(su) = b - a + 1 /\ Len(su) \in Nat /\ Len(su) >= 1
      /\ \A i \in 1 .. b - a + 1 : su[i] = st[a + i - 1] - st[a] /\ su[i] \in Nat
  <2>1. b - a + 1 \in Nat /\ b - a + 1 >= 1
    BY <1>1
  <2>2. \A i \in 1 .. b - a + 1 : st[a + i - 1] - st[a] \in Nat
    <3> TAKE i \in 1 .. b - a + 1
    <3> DEFINE y == st[a + i - 1]
    <3>1. y \in Nat /\ st[a] <= y
      BY <1>4
    <3> HIDE DEF y
    <3>2. y - st[a] \in Nat
      BY <1>2, <3>1
    <3> QED BY <3>2 DEF y
  <2> QED BY <1>0, <2>1, <2>2
<1>6. su[1] = 0
  <2>1. 1 \in 1 .. b - a + 1 /\ a + 1 - 1 = a
    BY <1>1
  <2>2. su[1] = st[a] - st[a]
    BY <1>5, <2>1
  <2> QED BY <1>2, <2>2
<1>7. \A i, j \in 1 .. Len(su) : i < j => su[i] < su[j]
  <2> TAKE i, j \in 1 .. Len(su)
  <2> HAVE i < j
  <2>1. st[a + i - 1] < st[a + j - 1] /\ st[a + i - 1] \in Nat /\ st[a + j - 1] \in Nat
    <3>1. a + i - 1 \in 1 .. Len(st) /\ a + j - 1 \in 1 .. Len(st) /\ a + i - 1 < a + j - 1
      BY <1>4, <1>5
    <3> QED BY <1>1, <1>4, <1>5, <3>1
  <2> DEFINE y == st[a + i - 1]
             z == st[a + j - 1]
  <2>2. su[i] = y - st[a] /\ su[j] = z - st[a] /\ y < z /\ y \in Nat /\ z \in Nat
    BY <1>5, <2>1
  <2> HIDE DEF y, z
  <2> QED BY <1>2, <2>2
<1>8. ASSUME NEW i \in 2 .. Len(su) PROVE su[i] \in 1 .. Len(u) /\ u[su[i]] = Break
  <2>1. i \in 1 .. b - a + 1 /\ 1 \in 1 .. Len(su) /\ i \in 1 .. Len(su)
    BY <1>5
  <2>2. a + i - 1 \in 2 .. Len(st)
    BY <1>4, <1>5, <2>1
  <2>3. t[st[a + i - 1]] = Break /\ st[a + i - 1] <= e /\ st[a + i - 1] \in Nat
    BY <1>1, <1>4, <2>1, <2>2
  <2>4. su[i] > 0 /\ su[i] = st[a + i - 1] - st[a] /\ su[i] \in Nat
    BY <1>5, <1>6, <1>7, <2>1
  <2>5. su[i] \in 1 .. e - st[a] /\ st[a] + su[i] = st[a + i - 1]
    <3> DEFINE y == st[a + i - 1]
    <3>1. y <= e /\ y \in Nat /\ su[i] = y - st[a] /\ su[i] > 0 /\ su[i] \in Nat
      BY <2>3, <2>4
    <3> HIDE DEF y
    <3>2. su[i] \in 1 .. e - st[a] /\ st[a] + su[i] = y
      BY <1>2, <3>1
    <3> QED BY <3>2 DEF y
  <2> QED BY <1>3, <2>3, <2>5
<1>9. ASSUME NEW k \in 1 .. Len(u), u[k] = Break PROVE \E i \in 2 .. Len(su) : su[i] = k
  <2>1. t[st[a] + k] = Break /\ st[a] + k \in 1 .. Len(t) /\ k <= e - st[a] /\ k >= 1 /\ k \in Nat
    BY <1>2, <1>3, <1>9
  <2>2. PICK x \in 2 .. Len(st) : st[x] = st[a] + k
    BY <1>1, <2>1
  <2>3. x > a
    <3>1. x <= a => x = a \/ st[x] < st[a]
      BY <1>1
    <3> QED BY <1>1, <1>2, <2>1, <2>2, <3>1
  <2>4. x <= b
    <3>1. SUFFICES ASSUME x > b PROVE FALSE
      BY <1>2
    <3>2. b < Len(st) /\ (x = b + 1 \/ st[b + 1] < st[x])
      BY <1>1, <1>2, <3>1
    <3> QED BY <1>2, <2>1, <2>2, <3>2
  <2> DEFINE i == x - a + 1
  <2>5. i \in 2 .. b - a + 1 /\ a + i - 1 = x /\ i \in 1 .. b - a + 1
    BY <1>1, <1>2, <2>3, <2>4
  <2> HIDE DEF i
  <2>6. su[i] = k
    <3>1. su[i] = st[x] - st[a]
      BY <1>5, <2>5
    <3> QED BY <1>2, <2>1, <2>2, <3>1
  <2> QED BY <1>5, <2>5, <2>6
<1>10. Splits(su, u)
  BY <1>5, <1>6, <1>7, <1>8, <1>9 DEF Splits
<1> QED BY <1>3, <1>5, <1>10 DEF e

LEMMA PieceLines ==
  ASSUME NEW A, NEW t \in Seq(A),
         NEW a \in 1 .. Len(Starts(t)), NEW b \in a .. Len(Starts(t))
  PROVE  /\ Piece(t, a, b) \in Seq(A) /\ Lines(Piece(t, a, b)) = SubSeq(Lines(t), a, b)
         /\ Len(Starts(Piece(t, a, b))) = b - a + 1
<1> DEFINE st == Starts(t)
           u == SubSeq(t, st[a] + 1, EndOf(t, st, b))
           su == [i \in 1 .. b - a + 1 |-> st[a + i - 1] - st[a]]
           L == Lines(t)
           K == Lines(u)
<1>1. /\ Splits(st, t) /\ Len(t) \in Nat /\ L \in Seq(Seq(A)) /\ Len(L) = Len(st)
      /\ \A i \in 1 .. Len(st) : /\ L[i] = SubSeq(t, st[i] + 1, EndOf(t, st, i)) /\ L[i] \in Seq(A)
                                 /\ Len(L[i]) = EndOf(t, st, i) - st[i]
  BY LinesAre
<1>2. Len(st) \in Nat /\ b \in Nat /\ a \in Nat /\ 1 <= a /\ a <= b /\ b <= Len(st)
  BY <1>1 DEF Splits
<1>0. a \in 1 .. Len(st) /\ b \in a .. Len(st)
  OBVIOUS
<1> HIDE DEF st, L
<1>3. u \in Seq(A) /\ Splits(su, u) /\ Len(su) = b - a + 1 /\ Len(u) = EndOf(t, st, b) - st[a]
  <2>1. PieceOf(u, su, t, st, a, b)
    BY DEF PieceOf
  <2> HIDE DEF u, su
  <2> QED BY <1>0, <1>1, <2>1, PieceSplits
<1> HIDE DEF u, su
<1>4. /\ Splits(Starts(u), u) /\ Len(u) \in Nat /\ K \in Seq(Seq(A)) /\ Len(K) = Len(Starts(u))
      /\ \A i \in 1 .. Len(Starts(u)) :
           /\ K[i] = SubSeq(u, Starts(u)[i] + 1, EndOf(u, Starts(u), i)) /\ K[i] \in Seq(A)
           /\ Len(K[i]) = EndOf(u, Starts(u), i) - Starts(u)[i]
  BY <1>3, LinesAre
<1>5. Starts(u) = su
  BY <1>3, <1>4, Unique
<1>6. Len(K) = b - a + 1
  BY <1>3, <1>4, <1>5
<1>7. ASSUME NEW i \in 1 .. b - a + 1 PROVE K[i] = L[a + i - 1]
  <2> DEFINE x == a + i - 1
  <2>1. x \in 1 .. Len(st) /\ x \in a .. b /\ (i = b - a + 1 <=> x = b) /\ (x = b => i = b - a + 1)
    BY <1>2
  <2>2. i \in 1 .. Len(su) /\ i \in Nat
    BY <1>2, <1>3
  <2>3. su[i] = st[x] - st[a]
    BY DEF su
  <2>4. EndOf(u, su, i) = EndOf(t, st, x) - st[a]
    <3>1. CASE x = b
      BY <1>3, <2>1, <3>1 DEF EndOf
    <3>2. CASE x # b
      <4>1. x < Len(st) /\ i # Len(su) /\ a + (i + 1) - 1 = x + 1 /\ i + 1 \in 1 .. b - a + 1
        BY <1>2, <1>3, <2>1, <3>2
      <4>2. su[i + 1] = st[x + 1] - st[a]
        BY <4>1 DEF su
      <4>3. st[x + 1] \in Int /\ st[a] \in Int
        <5>1. x + 1 \in 1 .. Len(st) /\ a \in 1 .. Len(st)
          BY <1>2, <2>1, <4>1
        <5> QED BY <1>1, <5>1, LinesEnd
      <4> HIDE DEF x
      <4>4. EndOf(u, su, i) = su[i + 1] - 1 /\ EndOf(t, st, x) = st[x + 1] - 1
        BY <2>1, <4>1 DEF EndOf
      <4> QED BY <4>2, <4>3, <4>4
    <3> QED BY <3>1, <3>2
  <2> HIDE DEF x
  <2>5. /\ st[x] \in Nat /\ st[a] \in Nat /\ st[a] <= st[x] /\ EndOf(t, st, x) \in st[x] .. Len(t)
        /\ EndOf(t, st, x) \in Nat
    <3>1. x \in a .. Len(st) /\ a \in 1 .. Len(st)
      BY <1>2, <2>1
    <3> QED BY <1>1, <3>1, Increasing, LinesEnd
  <2>6. /\ K[i] \in Seq(A) /\ Len(K[i]) = EndOf(t, st, x) - st[x]
        /\ K[i] = SubSeq(u, su[i] + 1, EndOf(u, su, i))
        /\ su[i] \in Nat /\ EndOf(u, su, i) \in su[i] .. Len(u)
    <3>1. su[i] \in Nat /\ EndOf(u, su, i) \in su[i] .. Len(u)
      BY <1>3, <1>4, <2>2, LinesEnd
    <3>2. /\ K[i] \in Seq(A) /\ Len(K[i]) = EndOf(u, su, i) - su[i]
          /\ K[i] = SubSeq(u, su[i] + 1, EndOf(u, su, i))
      BY <1>4, <1>5, <2>2
    <3> DEFINE f == EndOf(t, st, x)
               g == EndOf(u, su, i)
               y == st[x]
               z == st[a]
    <3>3. su[i] = y - z /\ g = f - z /\ y \in Nat /\ z \in Nat /\ f \in Nat
      BY <2>3, <2>4, <2>5
    <3> HIDE DEF f, g, y, z
    <3>4. g - su[i] = f - y
      BY <3>3
    <3> QED BY <3>1, <3>2, <3>4 DEF f, g, y
  <2> DEFINE f == EndOf(t, st, x)
             g == EndOf(u, su, i)
             y == st[x]
             z == st[a]
             d == EndOf(t, st, b)
  <2>9. /\ su[i] = y - z /\ g = f - z /\ y \in Nat /\ z \in Nat /\ f \in Nat /\ z <= y
        /\ Len(K[i]) = f - y /\ g \in su[i] .. Len(u) /\ Len(u) = d - z /\ su[i] \in Nat
        /\ d \in z .. Len(t) /\ K[i] = SubSeq(u, su[i] + 1, g)
        /\ \A k \in 1 .. d - z : u[k] = t[z + k]
    <3>1. EndOf(t, st, b) \in st[a] .. Len(t) /\ st[a] \in Nat
      BY <1>0, <1>1, Increasing
    <3>2. \A k \in 1 .. d - z : u[k] = t[z + k]
      <4>1. z \in Nat /\ d \in z .. Len(t)
        BY <3>1
      <4>2. u = SubSeq(t, z + 1, d)
        BY Zenon DEF u
      <4> HIDE DEF f, g, y, z, d
      <4>3. \A k \in 1 .. d - z : SubSeq(t, z + 1, d)[k] = t[z + k]
        BY <4>1, Cut
      <4> QED BY <4>2, <4>3, Zenon
    <3> QED BY <1>3, <2>3, <2>4, <2>5, <2>6, <3>1, <3>2
  <2> HIDE DEF f, g, y, z, d, K
  <2>7. \A k \in 1 .. Len(K[i]) : K[i][k] = t[y + k]
    <3> TAKE k \in 1 .. Len(K[i])
    <3>1. k \in 1 .. g - su[i]
      BY <2>9
    <3>2. K[i][k] = u[su[i] + k]
      BY <1>3, <2>9, <3>1, Cut
    <3>3. su[i] + k \in 1 .. d - z /\ z + (su[i] + k) = y + k
      <4>1. d \in Nat /\ Len(u) \in Nat /\ k \in Nat /\ k >= 1 /\ k <= g - su[i]
        BY <1>1, <1>4, <2>9, <3>1
      <4>2. g <= d - z /\ g \in Int /\ su[i] \in Int
        BY <2>9, <4>1
      <4> QED BY <2>9, <4>1, <4>2
    <3>4. u[su[i] + k] = t[z + (su[i] + k)]
      BY <2>9, <3>3
    <3> QED BY <3>2, <3>3, <3>4
  <2>8. SubSeq(t, st[x] + 1, EndOf(t, st, x)) = K[i]
    BY <2>5, <2>6, <2>7, CutIs DEF y
  <2> QED BY <1>1, <2>1, <2>8 DEF x
<1>8. SubSeq(L, (a - 1) + 1, b) = K
  <2>1. a - 1 \in Nat /\ b \in a - 1 .. Len(L) /\ b - (a - 1) = b - a + 1
    BY <1>1, <1>2
  <2>2. \A i \in 1 .. Len(K) : (a - 1) + i = a + i - 1
    BY <1>2, <1>6
  <2>3. Len(K) = b - (a - 1) /\ \A i \in 1 .. Len(K) : K[i] = L[(a - 1) + i]
    BY <1>6, <1>7, <2>1, <2>2
  <2> QED BY <1>1, <1>4, <2>1, <2>3, CutIs
<1>9. (a - 1) + 1 = a
  BY <1>2
<1> QED BY <1>3, <1>4, <1>5, <1>6, <1>8, <1>9 DEF Piece, u, st, L

\* Lines joined, one step per line.
Lead(p, k) == IF k = 1 THEN <<>> ELSE Append(p, Break)
JoinsUp(up, A, ls) ==
  /\ up \in [0 .. Len(ls) -> Seq(A)] /\ up[0] = <<>> /\ Joined(ls) = up[Len(ls)]
  /\ \A k \in 1 .. Len(ls) : up[k] = Lead(up[k - 1], k) \o ls[k]

LEMMA JoinedSteps ==
  ASSUME NEW A, Break \in A, NEW ls \in Seq(Seq(A))
  PROVE  \E up : JoinsUp(up, A, ls)
<1> DEFINE n == Len(ls)
           step(k, p) == Lead(p, k) \o ls[k]
           next == [k \in 1 .. n |-> [p \in Seq(A) |-> step(k, p)]]
           Is(g) == [k \in 0 .. n |-> IF k = 0 THEN <<>> ELSE step(k, g[k - 1])]
           up == CHOOSE g : g = Is(g)
<1>1. n \in Nat /\ <<>> \in Seq(A)
  OBVIOUS
<1>2. \A k \in 1 .. n : \A p \in Seq(A) : step(k, p) \in Seq(A)
  <2> TAKE k \in 1 .. n
  <2> TAKE p \in Seq(A)
  <2>1. ls[k] \in Seq(A)
    BY ElementOfSeq
  <2>2. Lead(p, k) \in Seq(A)
    BY DEF Lead
  <2> QED BY <2>1, <2>2, ConcatProperties
<1>3. Joined(ls) = up[n]
  BY DEF Joined, Lead
<1> HIDE DEF n, step
<1>4. next \in [1 .. n -> [Seq(A) -> Seq(A)]]
  BY <1>2
<1>5. \E f : Computes(f, n, Seq(A), <<>>, next)
  <2> HIDE DEF next
  <2> QED BY <1>1, <1>4, Recursion, Zenon
<1>6. PICK f \in [0 .. n -> Seq(A)] : f[0] = <<>> /\ \A k \in 1 .. n : f[k] = next[k][f[k - 1]]
  BY <1>5 DEF Computes
<1>7. f = Is(f)
  <2>1. ASSUME NEW k \in 1 .. n PROVE f[k] = step(k, f[k - 1])
    <3>1. f[k - 1] \in Seq(A)
      BY <1>1
    <3> QED BY <1>6, <3>1
  <2> QED BY <1>6, <2>1
<1>8. up = Is(up)
  <2> HIDE DEF Is
  <2> QED BY <1>7, Zenon
<1> HIDE DEF up
<1>9. up[0] = <<>> /\ \A k \in 1 .. n : up[k] = step(k, up[k - 1])
  <2>1. \A k \in 0 .. n : up[k] = IF k = 0 THEN <<>> ELSE step(k, up[k - 1])
    BY <1>8
  <2> QED BY <1>1, <2>1
<1>10. 0 .. n \subseteq {k \in 0 .. n : up[k] \in Seq(A)}
  <2> DEFINE T == {k \in 0 .. n : up[k] \in Seq(A)}
  <2>1. 0 \in T
    <3>1. 0 \in 0 .. n
      BY <1>1
    <3>2. up[0] \in Seq(A)
      BY <1>1, <1>9
    <3> QED BY <3>1, <3>2
  <2>2. ASSUME NEW k \in 1 .. n, k - 1 \in T PROVE k \in T
    <3>1. step(k, up[k - 1]) \in Seq(A)
      BY <1>2, <2>2
    <3>2. k \in 0 .. n
      BY <1>1
    <3> QED BY <1>9, <3>1, <3>2
  <2> HIDE DEF T
  <2>3. 0 .. n \subseteq T
    BY <1>1, <2>1, <2>2, Climb
  <2> QED BY <2>3 DEF T
<1>11. up \in [0 .. n -> Seq(A)]
  <2>1. up = [k \in 0 .. n |-> up[k]]
    BY <1>8
  <2> QED BY <1>10, <2>1
<1> QED BY <1>3, <1>9, <1>11 DEF n, step, JoinsUp

\* The lines of joined lines are these lines.
Glued(u, st, ls, m) ==
  /\ Splits(st, u) /\ Len(st) = m
  /\ \A i \in 1 .. m : SubSeq(u, st[i] + 1, EndOf(u, st, i)) = ls[i]

LEMMA GlueOne ==
  ASSUME NEW A, NEW ls, NEW u \in Seq(A), u = ls[1], OneLine(u)
  PROVE  Glued(u, <<0>>, ls, 1)
<1>1. Len(u) \in Nat /\ u = SubSeq(u, 1, Len(u))
  BY LenProperties, SubSeqFull
<1>2. Splits(<<0>>, u)
  <2>1. <<0>> \in Seq(Nat) /\ Len(<<0>>) = 1 /\ <<0>>[1] = 0
    OBVIOUS
  <2>2. \A k \in 1 .. Len(u) : u[k] # Break
    BY DEF OneLine
  <2> QED BY <2>1, <2>2 DEF Splits
<1>3. SubSeq(u, <<0>>[1] + 1, EndOf(u, <<0>>, 1)) = ls[1]
  <2>1. <<0>>[1] + 1 = 1 /\ EndOf(u, <<0>>, 1) = Len(u)
    BY DEF EndOf
  <2> QED BY <1>1, <2>1, Zenon
<1> QED BY <1>2, <1>3 DEF Glued

LEMMA GlueNext ==
  ASSUME NEW A, Break \in A, NEW u \in Seq(A), NEW st, NEW ls, NEW m \in Nat, m >= 1,
         Glued(u, st, ls, m), ls[m + 1] \in Seq(A), OneLine(ls[m + 1])
  PROVE  LET w == Append(u, Break) \o ls[m + 1]
         IN w \in Seq(A) /\ Glued(w, Append(st, Len(u) + 1), ls, m + 1)
<1> DEFINE n == Len(u)
           l == ls[m + 1]
           v == Append(u, Break)
           w == v \o l
           su == Append(st, n + 1)
<1>0. l \in Seq(A) /\ OneLine(l) /\ l = ls[m + 1]
  OBVIOUS
<1> HIDE DEF l
<1>1. n \in Nat /\ Len(l) \in Nat
  BY <1>0, LenProperties
<1>2. /\ st \in Seq(Nat) /\ Len(st) = m /\ st[1] = 0
      /\ \A x, y \in 1 .. m : x < y => st[x] < st[y]
      /\ \A x \in 2 .. m : st[x] \in 1 .. n /\ u[st[x]] = Break
      /\ \A k \in 1 .. n : u[k] = Break => \E x \in 2 .. m : st[x] = k
      /\ Splits(st, u)
      /\ \A i \in 1 .. m : SubSeq(u, st[i] + 1, EndOf(u, st, i)) = ls[i]
  BY DEF Glued, Splits
<1>3. /\ v \in Seq(A) /\ Len(v) = n + 1 /\ v[n + 1] = Break
      /\ \A k \in 1 .. n : v[k] = u[k]
  BY <1>1, AppendProperties
<1> HIDE DEF n, v
<1>4. /\ w \in Seq(A) /\ Len(w) = n + 1 + Len(l)
      /\ \A k \in 1 .. n : w[k] = u[k]
      /\ w[n + 1] = Break
      /\ \A k \in 1 .. Len(l) : w[n + 1 + k] = l[k]
  <2>1. /\ w \in Seq(A) /\ Len(w) = Len(v) + Len(l)
        /\ \A k \in 1 .. Len(v) + Len(l) : w[k] = IF k <= Len(v) THEN v[k] ELSE l[k - Len(v)]
    BY <1>0, <1>3, ConcatProperties
  <2> HIDE DEF w
  <2>2. ASSUME NEW k \in 1 .. Len(l) PROVE w[n + 1 + k] = l[k]
    <3>1. n + 1 + k \in 1 .. Len(v) + Len(l) /\ ~(n + 1 + k <= Len(v)) /\ (n + 1 + k) - Len(v) = k
      BY <1>1, <1>3
    <3> DEFINE j == n + 1 + k
    <3>2. j \in 1 .. Len(v) + Len(l) /\ ~(j <= Len(v)) /\ j - Len(v) = k
      BY <3>1, Zenon
    <3> HIDE DEF j
    <3>3. w[j] = l[j - Len(v)]
      BY <2>1, <3>2
    <3> QED BY <3>2, <3>3, Zenon DEF j
  <2>3. \A k \in 1 .. n + 1 : w[k] = v[k]
    BY <1>1, <1>3, <2>1
  <2> QED BY <1>1, <1>3, <2>1, <2>2, <2>3
<1>5. /\ su \in Seq(Nat) /\ Len(su) = m + 1 /\ su[m + 1] = n + 1
      /\ \A i \in 1 .. m : su[i] = st[i]
  <2>1. n + 1 \in Nat
    BY <1>1
  <2> QED BY <1>2, <2>1, AppendProperties
<1> HIDE DEF su, w
<1>11. Len(w) = n + 1 + Len(l) /\ Len(w) \in Nat /\ n < Len(w) /\ n + 1 <= Len(w)
  <2>1. Len(w) = n + 1 + Len(l)
    BY <1>4
  <2> QED BY <1>1, <2>1
<1>6. \A i \in 1 .. m : st[i] \in 0 .. n
  BY <1>1, <1>2, LinesEnd DEF n
<1>7. Splits(su, w)
  <2>1. \A i, j \in 1 .. m + 1 : i < j => su[i] < su[j]
    <3> TAKE i, j \in 1 .. m + 1
    <3> HAVE i < j
    <3>1. i \in 1 .. m /\ (j = m + 1 \/ j \in 1 .. m)
      OBVIOUS
    <3>2. CASE j = m + 1
      <4>1. su[i] \in 0 .. n /\ su[j] = n + 1
        BY <1>5, <1>6, <3>1, <3>2
      <4> QED BY <1>1, <4>1
    <3>3. CASE j \in 1 .. m
      BY <1>2, <1>5, <3>1, <3>3
    <3> QED BY <3>1, <3>2, <3>3
  <2>2. \A i \in 2 .. m + 1 : su[i] \in 1 .. Len(w) /\ w[su[i]] = Break
    <3> TAKE i \in 2 .. m + 1
    <3>1. i = m + 1 \/ (i \in 2 .. m /\ i \in 1 .. m)
      OBVIOUS
    <3>2. CASE i = m + 1
      <4>1. su[i] = n + 1
        BY <1>5, <3>2
      <4> QED BY <1>1, <1>4, <1>11, <4>1
    <3>3. CASE i \in 2 .. m
      <4>1. su[i] = st[i] /\ st[i] \in 1 .. n /\ u[st[i]] = Break
        BY <1>2, <1>5, <3>1, <3>3
      <4>2. w[su[i]] = Break
        BY <1>4, <4>1
      <4> QED BY <1>1, <1>11, <4>1, <4>2
    <3> QED BY <3>1, <3>2, <3>3
  <2>3. ASSUME NEW k \in 1 .. Len(w), w[k] = Break PROVE \E i \in 2 .. m + 1 : su[i] = k
    <3>1. CASE k <= n
      <4>1. k \in 1 .. n /\ u[k] = Break
        BY <1>1, <1>4, <2>3, <3>1
      <4>2. PICK x \in 2 .. m : st[x] = k
        BY <1>2, <4>1
      <4>3. x \in 2 .. m + 1 /\ x \in 1 .. m
        OBVIOUS
      <4> QED BY <1>5, <4>2, <4>3
    <3>2. CASE k = n + 1
      <4>1. m + 1 \in 2 .. m + 1
        OBVIOUS
      <4> QED BY <1>5, <3>2, <4>1
    <3>3. CASE k > n + 1
      <4> DEFINE j == k - (n + 1)
      <4>1. j \in 1 .. Len(l) /\ n + 1 + j = k
        BY <1>1, <1>4, <3>3
      <4> HIDE DEF j
      <4>2. l[j] = Break
        BY <1>4, <2>3, <4>1
      <4> QED BY <1>0, <4>1, <4>2 DEF OneLine
    <3> QED BY <1>1, <1>4, <3>1, <3>2, <3>3
  <2>4. su[1] = 0
    BY <1>2, <1>5
  <2> QED BY <1>5, <2>1, <2>2, <2>3, <2>4 DEF Splits
<1>8. ASSUME NEW i \in 1 .. m PROVE SubSeq(w, su[i] + 1, EndOf(w, su, i)) = ls[i]
  <2> DEFINE a == st[i]
             b == EndOf(u, st, i)
             k == SubSeq(u, a + 1, b)
  <2>1. a \in Nat /\ b \in a .. n /\ b \in Nat
    BY <1>1, <1>2, LinesEnd DEF n
  <2>2. su[i] = a /\ EndOf(w, su, i) = b
    <3>1. i + 1 \in 1 .. m + 1 /\ i # m + 1
      OBVIOUS
    <3>2. EndOf(w, su, i) = su[i + 1] - 1
      BY <1>5, <3>1 DEF EndOf
    <3>3. CASE i = m
      <4>1. b = n
        BY <1>2, <3>3 DEF EndOf, n
      <4> QED BY <1>1, <1>5, <3>2, <3>3, <4>1
    <3>4. CASE i # m
      <4>1. i + 1 \in 1 .. m /\ b = st[i + 1] - 1
        BY <1>2, <3>4 DEF EndOf
      <4> QED BY <1>5, <3>2, <4>1
    <3> QED BY <3>3, <3>4
  <2> HIDE DEF a, b
  <2>3. k \in Seq(A) /\ Len(k) = b - a /\ \A j \in 1 .. b - a : k[j] = u[a + j]
    BY <2>1, Cut DEF n
  <2> HIDE DEF k
  <2>4. \A j \in 1 .. Len(k) : k[j] = w[a + j]
    <3> TAKE j \in 1 .. Len(k)
    <3>1. a + j \in 1 .. n /\ j \in 1 .. b - a
      BY <1>1, <2>1, <2>3
    <3> QED BY <1>4, <2>3, <3>1
  <2>5. b \in a .. Len(w)
    BY <1>1, <1>11, <2>1
  <2>6. SubSeq(w, a + 1, b) = k
    BY <1>4, <2>1, <2>3, <2>4, <2>5, CutIs
  <2> QED BY <1>2, <2>2, <2>6 DEF a, b, k
<1>9. SubSeq(w, su[m + 1] + 1, EndOf(w, su, m + 1)) = ls[m + 1]
  <2>1. EndOf(w, su, m + 1) = Len(w)
    BY <1>5 DEF EndOf
  <2>2. n + 1 \in Nat /\ Len(w) \in n + 1 .. Len(w) /\ Len(l) = Len(w) - (n + 1)
    BY <1>1, <1>4
  <2>3. SubSeq(w, (n + 1) + 1, Len(w)) = l
    BY <1>0, <1>4, <2>2, CutIs
  <2> QED BY <1>0, <1>5, <2>1, <2>3
<1>10. Glued(w, su, ls, m + 1)
  <2>1. \A i \in 1 .. m + 1 : i = m + 1 \/ i \in 1 .. m
    OBVIOUS
  <2> QED BY <1>5, <1>7, <1>8, <1>9, <2>1 DEF Glued
<1> QED BY <1>4, <1>10 DEF w, su, v, n, l

LEMMA Relined ==
  ASSUME NEW A, Break \in A, NEW ls \in Seq(Seq(A)), Len(ls) >= 1,
         \A i \in 1 .. Len(ls) : OneLine(ls[i])
  PROVE  /\ Joined(ls) \in Seq(A) /\ Lines(Joined(ls)) = ls
         /\ Len(Starts(Joined(ls))) = Len(ls)
<1> DEFINE n == Len(ls)
<1>1. n \in Nat /\ n >= 1 /\ \A i \in 1 .. n : ls[i] \in Seq(A)
  BY LenProperties, ElementOfSeq
<1>2. PICK up : JoinsUp(up, A, ls)
  BY JoinedSteps
<1>3. /\ up \in [0 .. n -> Seq(A)] /\ Joined(ls) = up[n]
      /\ \A k \in 1 .. n : up[k] = Lead(up[k - 1], k) \o ls[k]
  BY <1>2 DEF JoinsUp
<1> HIDE DEF n
<1> DEFINE T == {k \in 0 .. n : k = 0 \/ \E st : Glued(up[k], st, ls, k)}
<1>4. 0 \in T
  BY <1>1
<1>5. ASSUME NEW k \in 1 .. n, k - 1 \in T PROVE k \in T
  <2>1. /\ k - 1 \in 0 .. n /\ k \in 0 .. n /\ up[k - 1] \in Seq(A)
        /\ ls[k] \in Seq(A) /\ OneLine(ls[k]) /\ up[k] = Lead(up[k - 1], k) \o ls[k]
    <3>1. k - 1 \in 0 .. n /\ k \in 0 .. n
      BY <1>1
    <3>2. up[k - 1] \in Seq(A)
      BY <1>3, <3>1
    <3>3. OneLine(ls[k])
      BY DEF n
    <3> QED BY <1>1, <1>3, <3>1, <3>2, <3>3
  <2>2. CASE k = 1
    <3>1. Lead(up[k - 1], k) = <<>> /\ <<>> \o ls[k] = ls[k]
      BY <2>1, <2>2, ConcatEmptySeq DEF Lead
    <3>2. up[k] = ls[1] /\ ls[1] \in Seq(A) /\ OneLine(ls[1])
      BY <2>1, <2>2, <3>1
    <3>3. Glued(ls[1], <<0>>, ls, 1)
      BY <3>2, GlueOne
    <3>4. \E st : Glued(up[k], st, ls, k)
      BY <2>2, <3>2, <3>3, Zenon
    <3> QED BY <2>1, <3>4
  <2>3. CASE k # 1
    <3> DEFINE m == k - 1
    <3>1. m \in Nat /\ m >= 1 /\ m + 1 = k /\ m # 0
      BY <1>1, <2>3
    <3>2. PICK st : Glued(up[m], st, ls, m)
      BY <1>5, <3>1
    <3>3. up[k] = Append(up[m], Break) \o ls[m + 1]
      BY <2>1, <2>3, <3>1 DEF Lead
    <3> HIDE DEF m
    <3>4. up[m] \in Seq(A) /\ ls[m + 1] \in Seq(A) /\ OneLine(ls[m + 1])
      BY <2>1, <3>1 DEF m
    <3>5. Glued(up[k], Append(st, Len(up[m]) + 1), ls, m + 1)
      BY <3>1, <3>2, <3>3, <3>4, GlueNext
    <3>6. \E su : Glued(up[k], su, ls, k)
      BY <3>1, <3>5, Zenon
    <3> QED BY <2>1, <3>6
  <2> QED BY <2>2, <2>3
<1>6. n \in T
  <2> HIDE DEF T
  <2>1. 0 .. n \subseteq T
    BY <1>1, <1>4, <1>5, Climb
  <2> QED BY <1>1, <2>1
<1> DEFINE J == Joined(ls)
           K == Lines(J)
<1>7. PICK st : Glued(J, st, ls, n)
  BY <1>1, <1>3, <1>6
<1>8. J \in Seq(A)
  BY <1>1, <1>3
<1> HIDE DEF J
<1>9. /\ Splits(Starts(J), J) /\ Len(J) \in Nat
      /\ K \in Seq(Seq(A)) /\ Len(K) = Len(Starts(J))
      /\ \A i \in 1 .. Len(Starts(J)) : K[i] = SubSeq(J, Starts(J)[i] + 1, EndOf(J, Starts(J), i))
  BY <1>8, LinesAre
<1> HIDE DEF K
<1>10. Starts(J) = st /\ Len(st) = n
  <2>1. Splits(st, J) /\ Len(st) = n
    BY <1>7 DEF Glued
  <2> QED BY <1>9, <2>1, Unique
<1>11. \A i \in 1 .. n : K[i] = ls[i]
  BY <1>7, <1>9, <1>10 DEF Glued
<1>12. K = ls
  <2>1. ls \in Seq(Seq(A)) /\ Len(K) = Len(ls) /\ \A i \in 1 .. Len(K) : K[i] = ls[i]
    BY <1>9, <1>10, <1>11 DEF n
  <2> QED BY <1>9, <2>1, SeqEqual
<1> QED BY <1>8, <1>10, <1>12 DEF J, K, n

LEMMA Rejoined ==
  ASSUME NEW A, Break \in A, NEW t \in Seq(A)
  PROVE  Joined(Lines(t)) = t
<1> DEFINE st == Starts(t)
           L == Lines(t)
           n == Len(L)
<1>1. /\ Splits(st, t) /\ Len(t) \in Nat /\ L \in Seq(Seq(A)) /\ n = Len(st) /\ n \in Nat /\ n >= 1
      /\ \A i \in 1 .. n : /\ L[i] = SubSeq(t, st[i] + 1, EndOf(t, st, i)) /\ L[i] \in Seq(A)
                           /\ Len(L[i]) = EndOf(t, st, i) - st[i]
  BY LinesAre
<1>2. PICK up : JoinsUp(up, A, L)
  BY <1>1, JoinedSteps
<1>3. /\ up \in [0 .. n -> Seq(A)] /\ Joined(L) = up[n]
      /\ \A k \in 1 .. n : up[k] = Lead(up[k - 1], k) \o L[k]
  BY <1>2 DEF JoinsUp
<1> HIDE DEF n, st, L
<1> DEFINE T == {k \in 0 .. n : k = 0 \/ up[k] = SubSeq(t, 1, EndOf(t, st, k))}
<1>4. 0 \in T
  BY <1>1
<1>5. ASSUME NEW k \in 1 .. n, k - 1 \in T PROVE k \in T
  <2> DEFINE a == st[k]
             b == EndOf(t, st, k)
             w == up[k]
  <2>1. /\ k - 1 \in 0 .. n /\ k \in 0 .. n /\ up[k - 1] \in Seq(A) /\ k \in 1 .. Len(st)
        /\ L[k] \in Seq(A) /\ w = Lead(up[k - 1], k) \o L[k] /\ w \in Seq(A) /\ Len(L[k]) = b - a
        /\ L[k] = SubSeq(t, a + 1, b)
    <3>1. k - 1 \in 0 .. n /\ k \in 0 .. n /\ k \in 1 .. Len(st)
      BY <1>1
    <3>2. up[k - 1] \in Seq(A) /\ w \in Seq(A)
      BY <1>3, <3>1
    <3>3. L[k] \in Seq(A) /\ Len(L[k]) = b - a /\ L[k] = SubSeq(t, a + 1, b)
      BY <1>1
    <3>4. w = Lead(up[k - 1], k) \o L[k]
      BY <1>3
    <3> QED BY <3>1, <3>2, <3>3, <3>4
  <2>2. a \in Nat /\ b \in a .. Len(t) /\ b \in Nat
    BY <1>1, <2>1, LinesEnd
  <2>3. \A j \in 1 .. b - a : L[k][j] = t[a + j]
    <3>1. LET v == SubSeq(t, a + 1, b) IN \A j \in 1 .. b - a : v[j] = t[a + j]
      BY <2>2, Cut
    <3> QED BY <2>1, <3>1, Zenon
  <2>4. /\ Lead(up[k - 1], k) \in Seq(A) /\ Len(Lead(up[k - 1], k)) = a
        /\ \A j \in 1 .. a : Lead(up[k - 1], k)[j] = t[j]
    <3>1. CASE k = 1
      <4>1. a = 0
        BY <1>1, <3>1 DEF Splits
      <4> QED BY <3>1, <4>1 DEF Lead
    <3>2. CASE k # 1
      <4> DEFINE m == k - 1
                 e == EndOf(t, st, m)
                 v == up[m]
      <4>1. m \in 1 .. Len(st) /\ m < Len(st) /\ m # 0 /\ m + 1 = k
        BY <1>1, <2>1, <3>2
      <4>2. v = SubSeq(t, 0 + 1, e)
        BY <1>5, <4>1
      <4>3. Lead(up[k - 1], k) = Append(v, Break)
        BY <3>2 DEF Lead
      <4>4. e \in 0 .. Len(t) /\ e \in Nat /\ a = e + 1 /\ t[a] = Break
        BY <1>1, <4>1, LinesEnd
      <4> HIDE DEF m, e, a
      <4>5. v \in Seq(A) /\ Len(v) = e /\ \A j \in 1 .. e : v[j] = t[j]
        <5>1. LET x == SubSeq(t, 0 + 1, e)
              IN x \in Seq(A) /\ Len(x) = e - 0 /\ \A j \in 1 .. e - 0 : x[j] = t[0 + j]
          BY <4>4, Cut
        <5>2. e - 0 = e /\ \A j \in 1 .. e : 0 + j = j
          BY <4>4
        <5> HIDE DEF v
        <5> QED BY <4>2, <5>1, <5>2, Zenon
      <4> HIDE DEF v
      <4>6. /\ Append(v, Break) \in Seq(A) /\ Len(Append(v, Break)) = e + 1
            /\ \A j \in 1 .. e : Append(v, Break)[j] = v[j]
            /\ Append(v, Break)[e + 1] = Break
        BY <4>5, AppendProperties
      <4>7. \A j \in 1 .. e + 1 : j \in 1 .. e \/ j = e + 1
        BY <4>4
      <4> QED BY <4>3, <4>4, <4>5, <4>6, <4>7
    <3> QED BY <3>1, <3>2
  <2> DEFINE p == Lead(up[k - 1], k)
  <2> HIDE DEF p, a, b
  <2>5. /\ p \in Seq(A) /\ Len(p) = a /\ \A j \in 1 .. a : p[j] = t[j]
        /\ w = p \o L[k]
    BY <2>1, <2>4 DEF p
  <2>6. /\ Len(w) = a + (b - a)
        /\ \A j \in 1 .. a + (b - a) : w[j] = IF j <= a THEN p[j] ELSE L[k][j - a]
    <3>1. /\ Len(p \o L[k]) = Len(p) + Len(L[k])
          /\ \A j \in 1 .. Len(p) + Len(L[k]) :
               (p \o L[k])[j] = IF j <= Len(p) THEN p[j] ELSE L[k][j - Len(p)]
      BY <2>1, <2>5, ConcatProperties
    <3> HIDE DEF w
    <3> QED BY <2>1, <2>5, <3>1, Zenon
  <2> HIDE DEF w
  <2>7. a + (b - a) = b /\ b - 0 = b
    BY <2>2
  <2>8. \A j \in 1 .. Len(w) : w[j] = t[0 + j]
    <3> TAKE j \in 1 .. Len(w)
    <3>1. j \in 1 .. a + (b - a) /\ j \in 1 .. b /\ 0 + j = j
      BY <2>2, <2>6, <2>7
    <3>2. CASE j <= a
      <4>1. j \in 1 .. a
        BY <2>2, <3>1, <3>2
      <4> QED BY <2>5, <2>6, <3>1, <3>2, <4>1
    <3>3. CASE ~(j <= a)
      <4> DEFINE i == j - a
      <4>1. i \in 1 .. b - a /\ a + i = j
        BY <2>2, <3>1, <3>3
      <4>2. w[j] = L[k][i]
        BY <2>6, <3>1, <3>3
      <4> HIDE DEF i
      <4> QED BY <2>3, <3>1, <4>1, <4>2
    <3> QED BY <3>2, <3>3
  <2>9. SubSeq(t, 0 + 1, b) = w
    <3>1. 0 \in Nat /\ b \in 0 .. Len(t) /\ Len(w) = b - 0
      BY <1>1, <2>2, <2>6, <2>7
    <3> QED BY <2>1, <2>8, <3>1, CutIs
  <2>10. up[k] = SubSeq(t, 1, EndOf(t, st, k))
    BY <2>9 DEF w, b
  <2> QED BY <2>1, <2>10
<1>6. n \in T
  <2> HIDE DEF T
  <2>1. 0 .. n \subseteq T
    BY <1>1, <1>4, <1>5, Climb
  <2> QED BY <1>1, <2>1
<1>7. up[n] = SubSeq(t, 1, Len(t))
  BY <1>1, <1>6 DEF EndOf
<1> QED BY <1>3, <1>7, SubSeqFull DEF L

LEMMA MinIs ==
  ASSUME NEW S, S \subseteq Nat, S # {}
  PROVE  Min(S) \in S /\ Min(S) \in Nat /\ \A y \in S : Min(S) <= y
<1>1. \E x \in S : \A y \in S : x <= y
  BY Least
<1> QED BY <1>1 DEF Min

LEMMA MaxIs ==
  ASSUME NEW n \in Nat, NEW S, S \subseteq 0 .. n, S # {}
  PROVE  Max(S) \in S /\ Max(S) \in 0 .. n /\ \A y \in S : y <= Max(S)
<1> DEFINE R == {n - y : y \in S}
<1>1. R \subseteq Nat /\ R # {}
  <2>1. \A y \in S : y \in 0 .. n /\ n - y \in Nat
    OBVIOUS
  <2>2. PICK y \in S : TRUE
    OBVIOUS
  <2>3. n - y \in R
    OBVIOUS
  <2> QED BY <2>1, <2>3
<1>2. \E r \in R : \A q \in R : r <= q
  <2> HIDE DEF R
  <2> QED BY <1>1, Least
<1>3. PICK x \in S : \A y \in S : n - x <= n - y
  BY <1>2
<1>4. \A y \in S : x >= y
  <2> TAKE y \in S
  <2>1. x \in 0 .. n /\ y \in 0 .. n /\ n - x <= n - y
    BY <1>3
  <2> QED BY <2>1
<1>5. Max(S) \in S /\ \A y \in S : Max(S) >= y
  BY <1>4 DEF Max
<1>6. \A y \in S : y \in Int
  OBVIOUS
<1> QED BY <1>5, <1>6

\* A line without the blanks at its ends is a line, and its indent is in it.
Trimming(l, pass) == IF pass = "right" THEN RightTrim(l) ELSE Trimmed(l)

LEMMA TrimsAre ==
  ASSUME NEW A, NEW l \in Seq(A), OneLine(l), NEW pass
  PROVE  /\ Trimming(l, pass) \in Seq(A) /\ OneLine(Trimming(l, pass))
         /\ Indent(l) \in 0 .. Len(l)
<1>1. Len(l) \in Nat /\ DOMAIN l = 1 .. Len(l)
  BY LenProperties
<1>2. ASSUME NEW a \in Nat, NEW b \in a .. Len(l)
      PROVE  SubSeq(l, a + 1, b) \in Seq(A) /\ OneLine(SubSeq(l, a + 1, b))
  <2> DEFINE u == SubSeq(l, a + 1, b)
  <2>1. /\ u \in Seq(A) /\ Len(u) = b - a
        /\ \A i \in 1 .. b - a : u[i] = l[a + i] /\ a + i \in 1 .. Len(l)
    BY Cut
  <2> HIDE DEF u
  <2>2. OneLine(u)
    BY <2>1 DEF OneLine
  <2> QED BY <2>1, <2>2 DEF u
<1>3. CASE Ink(l) = {}
  <2>1. RightTrim(l) = <<>> /\ Trimmed(l) = <<>> /\ Indent(l) = Len(l)
    BY <1>3 DEF RightTrim, Trimmed, Indent
  <2>2. <<>> \in Seq(A) /\ OneLine(<<>>)
    BY DEF OneLine
  <2> QED BY <1>1, <2>1, <2>2 DEF Trimming
<1>4. CASE Ink(l) # {}
  <2> DEFINE lo == Min(Ink(l))
             hi == Max(Ink(l))
  <2>1. Ink(l) \subseteq 1 .. Len(l) /\ Ink(l) \subseteq Nat /\ Ink(l) \subseteq 0 .. Len(l)
    BY <1>1 DEF Ink
  <2>2. lo \in Ink(l) /\ \A y \in Ink(l) : lo <= y
    BY <1>4, <2>1, MinIs
  <2>3. hi \in Ink(l)
    BY <1>1, <1>4, <2>1, MaxIs
  <2>4. RightTrim(l) = SubSeq(l, 1, hi) /\ Trimmed(l) = SubSeq(l, lo, hi) /\ Indent(l) = lo - 1
    BY <1>4 DEF RightTrim, Trimmed, Indent
  <2> HIDE DEF lo, hi
  <2>5. lo \in 1 .. Len(l) /\ hi \in 1 .. Len(l) /\ lo <= hi
    BY <2>1, <2>2, <2>3
  <2>6. lo - 1 \in Nat /\ hi \in lo - 1 .. Len(l) /\ (lo - 1) + 1 = lo /\ 0 + 1 = 1
        /\ 0 \in Nat /\ hi \in 0 .. Len(l) /\ lo - 1 \in 0 .. Len(l)
    BY <1>1, <2>5
  <2>7. SubSeq(l, (lo - 1) + 1, hi) \in Seq(A) /\ OneLine(SubSeq(l, (lo - 1) + 1, hi))
    BY <1>2, <2>6
  <2>8. SubSeq(l, 0 + 1, hi) \in Seq(A) /\ OneLine(SubSeq(l, 0 + 1, hi))
    BY <1>2, <2>6
  <2> QED BY <2>4, <2>6, <2>7, <2>8 DEF Trimming
<1> QED BY <1>3, <1>4

LEMMA StrippedAre ==
  ASSUME NEW A, Break \in A, NEW t \in Seq(A), NEW pass
  PROVE  /\ Stripped(t, pass) \in Seq(Seq(A)) /\ Len(Stripped(t, pass)) = Len(Starts(t))
         /\ \A i \in 1 .. Len(Starts(t)) : Stripped(t, pass)[i] = Trimming(Lines(t)[i], pass)
         /\ Joined(Stripped(t, pass)) \in Seq(A)
         /\ Lines(Joined(Stripped(t, pass))) = Stripped(t, pass)
         /\ Len(Starts(Joined(Stripped(t, pass)))) = Len(Starts(t))
<1> DEFINE L == Lines(t)
           S == Stripped(t, pass)
           n == Len(Starts(t))
<1>1. /\ DOMAIN L = 1 .. n /\ n \in Nat /\ n >= 1
      /\ \A i \in 1 .. n : L[i] \in Seq(A) /\ OneLine(L[i])
  BY LinesAre
<1>2. S = [i \in 1 .. n |-> Trimming(L[i], pass)]
  BY <1>1 DEF Stripped, Trimming
<1> HIDE DEF L, S, n
<1>3. \A i \in 1 .. n : S[i] = Trimming(L[i], pass) /\ S[i] \in Seq(A) /\ OneLine(S[i])
  BY <1>1, <1>2, TrimsAre
<1>4. S \in Seq(Seq(A)) /\ Len(S) = n
  <2>1. \A i \in 1 .. n : Trimming(L[i], pass) \in Seq(A)
    BY <1>2, <1>3
  <2> QED BY <1>1, <1>2, <2>1
<1>5. /\ Joined(S) \in Seq(A) /\ Lines(Joined(S)) = S /\ Len(Starts(Joined(S))) = n
  BY <1>1, <1>3, <1>4, Relined
<1> QED BY <1>3, <1>4, <1>5 DEF L, S, n

\* The pass on some lines of a text gives these lines of what it gives for the
\* whole text.
LEMMA StrippedPiece ==
  ASSUME NEW A, Break \in A, NEW t \in Seq(A), NEW pass,
         NEW a \in 1 .. Len(Starts(t)), NEW b \in a .. Len(Starts(t))
  PROVE  Joined(Stripped(Piece(t, a, b), pass)) = Piece(Joined(Stripped(t, pass)), a, b)
<1> DEFINE n == Len(Starts(t))
           u == Piece(t, a, b)
           S == Stripped(t, pass)
           J == Joined(S)
           w == Piece(J, a, b)
           L == Lines(t)
<1>1. n \in Nat /\ a - 1 \in Nat /\ b \in a - 1 .. n /\ (a - 1) + 1 = a /\ b - (a - 1) = b - a + 1
      /\ \A i \in 1 .. b - a + 1 : (a - 1) + i \in 1 .. n
  <2>1. n \in Nat
    BY LinesAre
  <2> QED BY <2>1
<1>2. u \in Seq(A) /\ Lines(u) = SubSeq(L, a, b) /\ Len(Starts(u)) = b - a + 1
  BY PieceLines
<1>3. /\ S \in Seq(Seq(A)) /\ Len(S) = n /\ \A i \in 1 .. n : S[i] = Trimming(L[i], pass)
      /\ J \in Seq(A) /\ Lines(J) = S /\ Len(Starts(J)) = n
  BY StrippedAre
<1>4. L \in Seq(Seq(A)) /\ Len(L) = n
  BY LinesAre
<1>5. w \in Seq(A) /\ Lines(w) = SubSeq(S, a, b)
  <2>1. a \in 1 .. Len(Starts(J)) /\ b \in a .. Len(Starts(J))
    BY <1>3
  <2> QED BY <1>3, <2>1, PieceLines
<1> DEFINE R == Stripped(u, pass)
<1> HIDE DEF u
<1>6. /\ R \in Seq(Seq(A)) /\ Len(R) = b - a + 1
      /\ \A i \in 1 .. b - a + 1 : R[i] = Trimming(Lines(u)[i], pass)
  BY <1>2, StrippedAre
<1> HIDE DEF n, S, J, w, L, R
<1>7. \A i \in 1 .. b - a + 1 : Lines(u)[i] = L[(a - 1) + i]
  <2>1. LET v == SubSeq(L, (a - 1) + 1, b) IN \A i \in 1 .. b - (a - 1) : v[i] = L[(a - 1) + i]
    BY <1>1, <1>4, Cut
  <2> QED BY <1>1, <1>2, <2>1, Zenon
<1>8. \A i \in 1 .. b - a + 1 : R[i] = S[(a - 1) + i]
  BY <1>1, <1>3, <1>6, <1>7
<1>9. SubSeq(S, (a - 1) + 1, b) = R
  <2>1. Len(R) = b - (a - 1) /\ \A i \in 1 .. Len(R) : R[i] = S[(a - 1) + i]
    BY <1>1, <1>6, <1>8
  <2> QED BY <1>1, <1>3, <1>6, <2>1, CutIs
<1>10. Lines(w) = R
  BY <1>1, <1>5, <1>9, Zenon
<1>11. Joined(Lines(w)) = w
  BY <1>5, Rejoined
<1> QED BY <1>10, <1>11, Zenon DEF w, R, J, S, u

LEMMA PickedAll ==
  ASSUME NEW A, NEW s \in Seq(A), NEW S, \A k \in 1 .. Len(s) : k \in S
  PROVE  Picked(s, S) = s
<1>1. PICK up : PicksUp(up, A, s, S)
  BY PickedSteps
<1>2. /\ up \in [0 .. Len(s) -> Seq(A)] /\ up[0] = <<>> /\ Picked(s, S) = up[Len(s)]
      /\ \A k \in 1 .. Len(s) : up[k] = Append(up[k - 1], s[k])
      /\ Len(s) \in Nat /\ \A k \in 1 .. Len(s) : s[k] \in A
  BY <1>1, LenProperties, ElementOfSeq DEF PicksUp
<1> DEFINE T == {k \in 0 .. Len(s) : Len(up[k]) = k /\ \A j \in 1 .. k : up[k][j] = s[j]}
<1>3. 0 \in T
  BY <1>2
<1>4. ASSUME NEW k \in 1 .. Len(s), k - 1 \in T PROVE k \in T
  <2> DEFINE v == up[k - 1]
  <2>1. k - 1 \in 0 .. Len(s) /\ k \in 0 .. Len(s) /\ (k - 1) + 1 = k
    BY <1>2
  <2>2. v \in Seq(A) /\ Len(v) = k - 1 /\ \A j \in 1 .. k - 1 : v[j] = s[j]
    BY <1>2, <1>4, <2>1
  <2>3. up[k] = Append(v, s[k])
    BY <1>2
  <2> HIDE DEF v
  <2>4. /\ Len(Append(v, s[k])) = (k - 1) + 1
        /\ \A j \in 1 .. k - 1 : Append(v, s[k])[j] = v[j]
        /\ Append(v, s[k])[(k - 1) + 1] = s[k]
    <3>1. s[k] \in A
      BY <1>2
    <3> QED BY <2>2, <3>1, AppendProperties
  <2>5. \A j \in 1 .. k : j \in 1 .. k - 1 \/ j = k
    BY <2>1
  <2> QED BY <2>1, <2>2, <2>3, <2>4, <2>5
<1>5. Len(s) \in T
  <2> HIDE DEF T
  <2>1. 0 .. Len(s) \subseteq T
    BY <1>2, <1>3, <1>4, Climb
  <2> QED BY <1>2, <2>1
<1> QED BY <1>2, <1>5, SeqEqual

Plain(c) == IF c = LongDash THEN Dash ELSE c

LEMMA PlainBreak == ASSUME NEW c PROVE Plain(c) = Break <=> c = Break
BY DEF Plain, LongDash, Dash, Break

\* A normalization leaves as many lines as there were.
LEMMA NormalAre ==
  ASSUME NEW A, Dash \in A, NEW t \in Seq(A)
  PROVE  Normal(t) \in Seq(A) /\ Len(Starts(Normal(t))) = Len(Starts(t))
<1> DEFINE S == {k \in DOMAIN t : t[k] # Nothing}
           p == Picked(t, S)
           u == Normal(t)
           st == Starts(t)
           n == Len(st)
<1>1. p \in Seq(A) /\ \E e : Embeds(e, p, t, S, Len(t))
  BY PickedIs
<1>2. u = [k \in DOMAIN p |-> Plain(p[k])]
  BY DEF Normal, Plain
<1>3. Len(t) \in Nat /\ DOMAIN t = 1 .. Len(t) /\ DOMAIN p = 1 .. Len(p) /\ Len(p) \in Nat
  BY <1>1, LenProperties
<1>4. S \cap (1 .. Len(t)) = S /\ S = {k \in 1 .. Len(t) : t[k] # Nothing}
  BY <1>3
<1> HIDE DEF S, p, u
<1>5. PICK e : Embeds(e, p, t, S, Len(t))
  BY <1>1
<1>6. /\ e \in [1 .. Len(p) -> S] /\ \A i, j \in 1 .. Len(p) : i < j => e[i] < e[j]
      /\ \A i \in 1 .. Len(p) : p[i] = t[e[i]]
      /\ \A m \in S : \E i \in 1 .. Len(p) : e[i] = m
  BY <1>4, <1>5, Zenon DEF Embeds
<1>7. /\ u \in Seq(A) /\ Len(u) = Len(p)
      /\ \A i \in 1 .. Len(p) : u[i] = Plain(t[e[i]]) /\ e[i] \in 1 .. Len(t)
  <2>1. \A i \in 1 .. Len(p) : Plain(p[i]) \in A
    BY <1>1, ElementOfSeq DEF Plain
  <2>2. u \in Seq(A) /\ Len(u) = Len(p) /\ \A i \in 1 .. Len(p) : u[i] = Plain(p[i])
    BY <1>2, <1>3, <2>1
  <2> QED BY <1>4, <1>6, <2>2
<1>8. /\ Splits(st, t) /\ st \in Seq(Nat) /\ n \in Nat /\ n >= 1 /\ st[1] = 0
      /\ \A i, j \in 1 .. n : i < j => st[i] < st[j]
      /\ \A i \in 2 .. n : st[i] \in 1 .. Len(t) /\ t[st[i]] = Break
      /\ \A k \in 1 .. Len(t) : t[k] = Break => \E i \in 2 .. n : st[i] = k
  BY LinesAre DEF Splits
<1> HIDE DEF st, n
<1> DEFINE su == [i \in 1 .. n |-> IF i = 1 THEN 0 ELSE CHOOSE x \in 1 .. Len(p) : e[x] = st[i]]
<1>9. ASSUME NEW i \in 2 .. n PROVE su[i] \in 1 .. Len(p) /\ e[su[i]] = st[i]
  <2>1. i \in 1 .. n /\ i # 1
    BY <1>8
  <2>2. st[i] \in S
    BY <1>4, <1>8 DEF Break, Nothing
  <2>3. \E x \in 1 .. Len(p) : e[x] = st[i]
    BY <1>6, <2>2
  <2>4. su[i] = CHOOSE x \in 1 .. Len(p) : e[x] = st[i]
    BY <2>1
  <2> HIDE DEF su
  <2> QED BY <2>3, <2>4
<1>10. su[1] = 0 /\ su \in Seq(Nat) /\ Len(su) = n
  <2>1. su[1] = 0
    BY <1>8
  <2>2. \A i \in 1 .. n : su[i] \in Nat
    <3> TAKE i \in 1 .. n
    <3>1. i = 1 \/ i \in 2 .. n
      BY <1>8
    <3> HIDE DEF su
    <3> QED BY <1>3, <1>9, <2>1, <3>1
  <2>3. su = [i \in 1 .. n |-> su[i]]
    OBVIOUS
  <2>4. Len(su) = n
    BY <1>8
  <2> HIDE DEF su
  <2>5. su \in [1 .. n -> Nat] /\ n \in Nat
    BY <1>8, <2>2, <2>3
  <2>6. su \in Seq(Nat)
    BY <2>5
  <2> QED BY <2>1, <2>4, <2>6
<1> HIDE DEF su
<1>11. \A i, j \in 1 .. n : i < j => su[i] < su[j]
  <2> TAKE i, j \in 1 .. n
  <2> HAVE i < j
  <2>1. j \in 2 .. n /\ su[j] \in 1 .. Len(p) /\ e[su[j]] = st[j]
    <3>1. j \in 2 .. n
      BY <1>8
    <3> QED BY <1>9, <3>1
  <2>2. CASE i = 1
    BY <1>10, <2>1, <2>2
  <2>3. CASE i # 1
    <3>1. i \in 2 .. n
      BY <1>8, <2>3
    <3>2. su[i] \in 1 .. Len(p) /\ e[su[i]] = st[i] /\ st[i] < st[j] /\ st[i] \in Nat /\ st[j] \in Nat
      BY <1>8, <1>9, <2>1, <3>1
    <3>3. su[j] = su[i] => st[i] = st[j]
      BY <2>1, <3>2
    <3>4. su[j] < su[i] => st[j] < st[i]
      BY <1>6, <2>1, <3>2
    <3> QED BY <1>3, <2>1, <3>2, <3>3, <3>4
  <2> QED BY <2>2, <2>3
<1>12. ASSUME NEW i \in 2 .. n PROVE su[i] \in 1 .. Len(u) /\ u[su[i]] = Break
  <2>1. su[i] \in 1 .. Len(p) /\ e[su[i]] = st[i]
    BY <1>9
  <2>2. u[su[i]] = Plain(t[st[i]])
    BY <1>7, <2>1
  <2> QED BY <1>7, <1>8, <2>1, <2>2, PlainBreak
<1>13. ASSUME NEW k \in 1 .. Len(u), u[k] = Break PROVE \E i \in 2 .. n : su[i] = k
  <2>1. k \in 1 .. Len(p) /\ e[k] \in 1 .. Len(t) /\ t[e[k]] = Break
    BY <1>7, <1>13, PlainBreak
  <2>2. PICK i \in 2 .. n : st[i] = e[k]
    BY <1>8, <2>1
  <2>3. su[i] \in 1 .. Len(p) /\ e[su[i]] = e[k]
    BY <1>9, <2>2
  <2>4. su[i] = k
    <3>1. su[i] < k => e[su[i]] < e[k]
      BY <1>6, <2>1, <2>3
    <3>2. k < su[i] => e[k] < e[su[i]]
      BY <1>6, <2>1, <2>3
    <3> QED BY <1>3, <2>1, <2>3, <3>1, <3>2
  <2> QED BY <2>4
<1>14. Splits(su, u)
  BY <1>8, <1>10, <1>11, <1>12, <1>13 DEF Splits
<1>15. Len(u) \in Nat /\ Splits(Starts(u), u)
  BY <1>7, LinesAre
<1>16. Starts(u) = su
  BY <1>14, <1>15, Unique
<1> QED BY <1>7, <1>10, <1>16 DEF u, n, st

\* Without characters that vanish, it changes some in their places.
LEMMA NormalMaps ==
  ASSUME NEW A, Nothing \notin A, Dash \in A, NEW t \in Seq(A)
  PROVE  /\ Normal(t) \in Seq(A) /\ Len(Normal(t)) = Len(t)
         /\ \A k \in 1 .. Len(t) : Normal(t)[k] = Plain(t[k])
         /\ Starts(Normal(t)) = Starts(t)
<1> DEFINE u == Normal(t)
           st == Starts(t)
           S == {k \in DOMAIN t : t[k] # Nothing}
<1>1. Len(t) \in Nat /\ DOMAIN t = 1 .. Len(t) /\ \A k \in 1 .. Len(t) : t[k] \in A
  BY LenProperties, ElementOfSeq
<1>2. Picked(t, S) = t
  <2>1. \A k \in 1 .. Len(t) : k \in S
    BY <1>1
  <2> HIDE DEF S
  <2> QED BY <2>1, PickedAll
<1>3. u = [k \in 1 .. Len(t) |-> Plain(t[k])]
  BY <1>1, <1>2 DEF Normal, Plain
<1> HIDE DEF u
<1>4. u \in Seq(A) /\ Len(u) = Len(t) /\ \A k \in 1 .. Len(t) : u[k] = Plain(t[k])
  <2>1. \A k \in 1 .. Len(t) : Plain(t[k]) \in A
    BY <1>1 DEF Plain
  <2> QED BY <1>1, <1>3, <2>1
<1>5. Splits(st, t)
  BY LinesAre
<1>6. \A k \in 1 .. Len(t) : u[k] = Break <=> t[k] = Break
  BY <1>4, PlainBreak
<1>7. Splits(st, u)
  <2>1. \A i \in 2 .. Len(st) : st[i] \in 1 .. Len(u) /\ u[st[i]] = Break
    BY <1>4, <1>5, <1>6 DEF Splits
  <2>2. \A k \in 1 .. Len(u) : u[k] = Break => \E i \in 2 .. Len(st) : st[i] = k
    BY <1>4, <1>5, <1>6 DEF Splits
  <2> HIDE DEF st
  <2> QED BY <1>5, <2>1, <2>2 DEF Splits
<1>8. Splits(Starts(u), u) /\ Len(u) \in Nat
  BY <1>4, LinesAre
<1>9. Starts(u) = st
  BY <1>7, <1>8, Unique
<1> QED BY <1>4, <1>9 DEF u

LEMMA LooseAre ==
  ASSUME NEW A, Break \in A, Dash \in A, NEW t \in Seq(A), NEW pass
  PROVE  Loose(t, pass) \in Seq(A) /\ Len(Starts(Loose(t, pass))) = Len(Starts(t))
<1> DEFINE J == Joined(Stripped(t, pass))
<1>1. J \in Seq(A) /\ Len(Starts(J)) = Len(Starts(t))
  BY StrippedAre
<1>2. Loose(t, pass) = IF pass = "unicode" THEN Normal(J) ELSE J
  BY DEF Loose
<1> HIDE DEF J
<1>3. Normal(J) \in Seq(A) /\ Len(Starts(Normal(J))) = Len(Starts(J))
  BY <1>1, NormalAre
<1> QED BY <1>1, <1>2, <1>3

\* A pass that lets no character vanish, or on a text without such characters
Steady(pass, A) == pass # "unicode" \/ Nothing \notin A

LEMMA LoosePiece ==
  ASSUME NEW A, Break \in A, Dash \in A, NEW t \in Seq(A), NEW pass, Steady(pass, A),
         NEW a \in 1 .. Len(Starts(t)), NEW b \in a .. Len(Starts(t))
  PROVE  /\ Loose(Piece(t, a, b), pass) = Piece(Loose(t, pass), a, b)
         /\ Starts(Loose(t, pass)) = Starts(Joined(Stripped(t, pass)))
<1> DEFINE J == Joined(Stripped(t, pass))
           K == Joined(Stripped(Piece(t, a, b), pass))
<1>1. J \in Seq(A) /\ Len(Starts(J)) = Len(Starts(t))
  BY StrippedAre
<1>2. K = Piece(J, a, b)
  BY StrippedPiece
<1>3. Loose(t, pass) = IF pass = "unicode" THEN Normal(J) ELSE J
  BY DEF Loose
<1>4. Loose(Piece(t, a, b), pass) = IF pass = "unicode" THEN Normal(K) ELSE K
  BY DEF Loose
<1> HIDE DEF J, K
<1>5. CASE pass # "unicode"
  BY <1>2, <1>3, <1>4, <1>5 DEF J
<1>6. CASE pass = "unicode"
  <2> DEFINE N == Normal(J)
             sJ == Starts(J)
             x == sJ[a]
             y == EndOf(J, sJ, b)
             w == SubSeq(J, x + 1, y)
  <2>1. Nothing \notin A
    BY <1>6 DEF Steady
  <2>2. /\ N \in Seq(A) /\ Len(N) = Len(J) /\ Starts(N) = sJ
        /\ \A k \in 1 .. Len(J) : N[k] = Plain(J[k])
    BY <1>1, <2>1, NormalMaps
  <2>3. Splits(sJ, J) /\ Len(J) \in Nat
    BY <1>1, LinesAre
  <2>4. x \in Nat /\ y \in x .. Len(J) /\ y \in Nat
    <3>1. a \in 1 .. Len(sJ) /\ b \in a .. Len(sJ)
      BY <1>1
    <3> HIDE DEF sJ
    <3> QED BY <2>3, <3>1, Increasing
  <2>5. Piece(N, a, b) = SubSeq(N, x + 1, y)
    BY <2>2 DEF Piece, EndOf
  <2>6. K = w
    BY <1>2 DEF Piece
  <2> HIDE DEF x, y, N, sJ
  <2>7. w \in Seq(A) /\ Len(w) = y - x /\ \A k \in 1 .. y - x : w[k] = J[x + k] /\ x + k \in 1 .. Len(J)
    BY <1>1, <2>4, Cut
  <2> HIDE DEF w
  <2>8. /\ Normal(w) \in Seq(A) /\ Len(Normal(w)) = Len(w)
        /\ \A k \in 1 .. Len(w) : Normal(w)[k] = Plain(w[k])
    BY <2>1, <2>7, NormalMaps
  <2>9. \A k \in 1 .. Len(Normal(w)) : Normal(w)[k] = N[x + k]
    BY <2>2, <2>7, <2>8
  <2>10. SubSeq(N, x + 1, y) = Normal(w)
    <3>1. y \in x .. Len(N) /\ Len(Normal(w)) = y - x
      BY <2>2, <2>4, <2>7, <2>8
    <3> QED BY <2>2, <2>4, <2>8, <2>9, <3>1, CutIs
  <2> QED BY <1>3, <1>4, <1>6, <2>2, <2>5, <2>6, <2>10, Zenon DEF N, sJ, J
<1> QED BY <1>5, <1>6

\* The host's way back from a line start of the stripped text leads to the line.
LEMMA HostLineIs ==
  ASSUME NEW A, Break \in A, NEW t \in Seq(A), NEW pass, NEW i \in 1 .. Len(Starts(t))
  PROVE  HostLine(t, pass, Starts(Joined(Stripped(t, pass)))[i]) = i
<1> DEFINE J == Joined(Stripped(t, pass))
           sJ == Starts(J)
           st == Starts(t)
           L == Lines(t)
           k == sJ[i]
           ends == [x \in DOMAIN L |-> st[x] + Len(L[x])]
           idx == MapBack(t, pass, k)
           reach == {x \in DOMAIN ends : ends[x] >= idx}
<1>1. J \in Seq(A) /\ Len(sJ) = Len(st)
  BY StrippedAre
<1>2. /\ Splits(st, t) /\ Len(t) \in Nat /\ DOMAIN L = 1 .. Len(st)
      /\ \A x \in 1 .. Len(st) : L[x] \in Seq(A) /\ OneLine(L[x]) /\ Len(L[x]) = EndOf(t, st, x) - st[x]
  BY LinesAre
<1>3. Splits(sJ, J) /\ Len(J) \in Nat
  BY <1>1, LinesAre
<1>4. LineAt(J, k) = i /\ k \in Nat
  <2>1. i \in 1 .. Len(sJ)
    BY <1>1
  <2> HIDE DEF J
  <2> HIDE DEF sJ
  <2> QED BY <1>3, <2>1, RankOf, LinesEnd
<1>5. idx = st[i] + Indent(L[i]) + (k - k)
  BY <1>4 DEF MapBack
<1>6. HostLine(t, pass, k) = IF reach = {} THEN 1 ELSE Min(reach)
  BY DEF HostLine
<1>7. \A x \in 1 .. Len(st) : st[x] \in Nat /\ EndOf(t, st, x) \in Nat /\ st[x] <= EndOf(t, st, x)
  <2> HIDE DEF st
  <2> QED BY <1>2, LinesEnd
<1> HIDE DEF idx, k, J, sJ, st, L
<1>8. \A x \in 1 .. Len(st) : ends[x] = EndOf(t, st, x)
  <2> TAKE x \in 1 .. Len(st)
  <2>1. ends[x] = st[x] + Len(L[x])
    BY <1>2
  <2> DEFINE f == EndOf(t, st, x)
             g == st[x]
  <2>2. ends[x] = g + (f - g) /\ f \in Nat /\ g \in Nat
    BY <1>2, <1>7, <2>1
  <2> HIDE DEF f, g, ends
  <2>3. ends[x] = f
    BY <2>2
  <2> QED BY <2>3 DEF f
<1>9. DOMAIN ends = 1 .. Len(st)
  BY <1>2
<1> HIDE DEF ends
<1>0. i \in 1 .. Len(st)
  BY DEF st
<1>10. idx \in st[i] .. EndOf(t, st, i)
  <2>1. Indent(L[i]) \in 0 .. Len(L[i]) /\ Len(L[i]) = EndOf(t, st, i) - st[i]
    BY <1>0, <1>2, TrimsAre
  <2> DEFINE f == EndOf(t, st, i)
             g == st[i]
             h == Indent(L[i])
  <2>2. f \in Nat /\ g \in Nat /\ g <= f /\ h \in 0 .. f - g /\ idx = g + h + (k - k)
    BY <1>0, <1>5, <1>7, <2>1
  <2>3. k - k = 0
    BY <1>4
  <2> HIDE DEF f, g, h
  <2>4. idx \in g .. f
    BY <2>2, <2>3
  <2> QED BY <2>4 DEF f, g
<1>11. i \in reach /\ reach \subseteq Nat
  <2>1. EndOf(t, st, i) >= idx
    BY <1>0, <1>7, <1>10
  <2>2. Len(st) \in Nat
    BY <1>2 DEF Splits
  <2> QED BY <1>0, <1>8, <1>9, <2>1, <2>2
<1>12. ASSUME NEW x \in reach, x < i PROVE FALSE
  <2>1. x \in 1 .. Len(st) /\ EndOf(t, st, x) >= idx
    BY <1>8, <1>9
  <2>2. x < Len(st) /\ x + 1 \in x + 1 .. i /\ i \in x + 1 .. Len(st)
    BY <1>0, <1>12, <2>1
  <2>3. st[x + 1] = EndOf(t, st, x) + 1 /\ x + 1 \in 1 .. Len(st)
    BY <1>2, <2>1, <2>2, LinesEnd
  <2>4. st[x + 1] <= st[i]
    BY <1>2, <2>2, <2>3, Increasing
  <2> QED BY <1>0, <1>7, <1>10, <2>1, <2>3, <2>4
<1> HIDE DEF reach
<1>13. Min(reach) = i
  <2>1. Min(reach) \in reach /\ Min(reach) \in Nat /\ \A y \in reach : Min(reach) <= y
    BY <1>11, MinIs
  <2>2. Min(reach) <= i /\ ~(Min(reach) < i) /\ i \in Nat
    BY <1>11, <1>12, <2>1
  <2> QED BY <2>1, <2>2
<1> QED BY <1>6, <1>11, <1>13 DEF k, sJ, J

LEMMA HostLineIn ==
  ASSUME NEW A, NEW t \in Seq(A), NEW pass, NEW k
  PROVE  HostLine(t, pass, k) \in 1 .. Len(Starts(t))
<1> DEFINE ends == [x \in DOMAIN Lines(t) |-> Starts(t)[x] + Len(Lines(t)[x])]
           idx == MapBack(t, pass, k)
           reach == {x \in DOMAIN ends : ends[x] >= idx}
           n == Len(Starts(t))
<1>1. DOMAIN Lines(t) = 1 .. n /\ n \in Nat /\ n >= 1
  BY LinesAre
<1>2. HostLine(t, pass, k) = IF reach = {} THEN 1 ELSE Min(reach)
  BY DEF HostLine
<1>3. reach \subseteq 1 .. n /\ reach \subseteq Nat
  BY <1>1
<1> HIDE DEF reach, n
<1>4. reach # {} => Min(reach) \in reach
  BY <1>3, MinIs
<1>5. HostLine(t, pass, k) \in 1 .. n
  <2> HIDE DEF ends
  <2>1. CASE reach = {}
    BY <1>1, <1>2, <2>1
  <2>2. CASE reach # {}
    BY <1>2, <1>3, <1>4, <2>2
  <2> QED BY <2>1, <2>2
<1> QED BY <1>5 DEF n

\* A place in a text, and the text that a span of lines is.
InText(m, t) == m.from \in 1 .. Len(t) + 1 /\ m.to \in m.from - 1 .. Len(t)

LEMMA SpanIs ==
  ASSUME NEW A, NEW t \in Seq(A), NEW a \in 1 .. Len(Starts(t)), NEW n \in Nat, n >= 1
  PROVE  /\ InText(Span(t, a, n), t)
         /\ a + n - 1 <= Len(Starts(t)) => Text(t, Span(t, a, n)) = Piece(t, a, a + n - 1)
<1> DEFINE st == Starts(t)
           N == Len(st)
           two == {a + n - 1, N}
           last == Min(two)
           m == Span(t, a, n)
<1>1. Splits(st, t) /\ Len(t) \in Nat /\ N \in Nat
  BY LinesAre DEF Splits
<1>2. m = [from |-> st[a] + 1, to |-> EndOf(t, st, last)]
  BY DEF Span, EndOf
<1>0. a \in 1 .. N
  OBVIOUS
<1> HIDE DEF m, st, N
<1>3. a + n - 1 \in Nat /\ a + n - 1 >= a
  BY <1>0, <1>1
<1>4. last \in two /\ \A y \in two : last <= y
  <2>1. two \subseteq Nat /\ two # {}
    BY <1>1, <1>3
  <2> HIDE DEF two
  <2> QED BY <2>1, MinIs
<1>5. last \in a .. N /\ (a + n - 1 <= N => last = a + n - 1)
  <2>1. last = a + n - 1 \/ last = N
    BY <1>4
  <2>2. last <= a + n - 1 /\ last <= N
    BY <1>4
  <2> HIDE DEF last
  <2> QED BY <1>0, <1>1, <1>3, <2>1, <2>2
<1> HIDE DEF last, two
<1>6. st[a] \in Nat /\ EndOf(t, st, last) \in st[a] .. Len(t)
  <2>1. a \in 1 .. Len(st) /\ last \in a .. Len(st)
    BY <1>0, <1>5 DEF N
  <2> QED BY <1>1, <2>1, Increasing
<1>7. m.from = st[a] + 1 /\ m.to = EndOf(t, st, last)
  BY <1>2
<1>8. InText(m, t)
  <2> DEFINE x == st[a]
             y == EndOf(t, st, last)
  <2>1. x \in Nat /\ y \in x .. Len(t) /\ m.from = x + 1 /\ m.to = y
    BY <1>6, <1>7
  <2> HIDE DEF x, y
  <2> QED BY <1>1, <2>1 DEF InText
<1>9. Text(t, m) = SubSeq(t, st[a] + 1, EndOf(t, st, last))
  BY <1>7 DEF Text
<1> QED BY <1>5, <1>8, <1>9, Zenon DEF Piece, m, N, st

\* The search for a text: where it is found it occurs, and it is found if it
\* occurs anywhere.
LEMMA FindIs ==
  ASSUME NEW A, NEW p \in Seq(A), NEW t \in Seq(A)
  PROVE  /\ Find(p, t) # -1 => Find(p, t) \in 0 .. Len(t) - Len(p) /\ Occurs(p, t, Find(p, t))
         /\ (\E k \in 0 .. Len(t) - Len(p) : Occurs(p, t, k)) => Find(p, t) # -1
<1> DEFINE ks == {k \in 0 .. Len(t) - Len(p) : Occurs(p, t, k)}
<1>1. Find(p, t) = IF ks = {} THEN -1 ELSE Min(ks)
  BY DEF Find
<1>2. Len(t) \in Nat /\ Len(p) \in Nat
  BY LenProperties
<1>3. ks \subseteq Nat
  BY <1>2
<1>4. ks # {} => Min(ks) \in ks /\ Min(ks) \in Nat
  <2> HIDE DEF ks
  <2> QED BY <1>3, MinIs
<1> QED BY <1>1, <1>2, <1>4

LEMMA EditedIs ==
  ASSUME NEW A, NEW t \in Seq(A), NEW m, m = Nowhere \/ InText(m, t), NEW mode, NEW all,
         Edited(t, m, mode, all) # Nowhere
  PROVE  /\ m # Nowhere
         /\ Edited(t, m, mode, all).from \in 1 .. Len(t) + 1
         /\ Edited(t, m, mode, all).to \in 0 .. Len(t)
         /\ Text(t, Edited(t, m, mode, all)) = Text(t, m)
<1> DEFINE old == Text(t, m)
           f == Find(old, t)
           x == Edited(t, m, mode, all)
<1>1. m # Nowhere /\ x = [from |-> f + 1, to |-> f + Len(old)]
  BY DEF Edited
<1>2. Len(t) \in Nat
  BY LenProperties
<1> DEFINE a == m.from - 1
           b == m.to
<1>3. a \in Nat /\ b \in a .. Len(t) /\ m.from = a + 1 /\ b \in Nat
  <2>1. m.from \in 1 .. Len(t) + 1 /\ m.to \in m.from - 1 .. Len(t)
    BY <1>1 DEF InText
  <2> QED BY <1>2, <2>1
<1>4. old = SubSeq(t, a + 1, b)
  BY <1>3 DEF Text
<1> HIDE DEF a, b, old, x
<1>5. old \in Seq(A) /\ Len(old) = b - a
  BY <1>3, <1>4, Cut
<1>6. a \in 0 .. Len(t) - Len(old) /\ Occurs(old, t, a)
  <2>1. a + Len(old) = b /\ a \in 0 .. Len(t) - Len(old)
    BY <1>2, <1>3, <1>5
  <2> QED BY <1>4, <2>1 DEF Occurs
<1>7. f \in 0 .. Len(t) - Len(old) /\ Occurs(old, t, f)
  BY <1>5, <1>6, FindIs
<1> HIDE DEF f
<1>8. Len(old) \in Nat /\ f \in Nat /\ f + Len(old) \in 0 .. Len(t) /\ f + 1 \in 1 .. Len(t) + 1
  BY <1>2, <1>3, <1>5, <1>7
<1>9. Text(t, x) = old
  BY <1>1, <1>7 DEF Text, Occurs
<1> QED BY <1>1, <1>8, <1>9 DEF x, old

\* A pattern that is found as whole lines is found at lines a .. b: both ways back
\* lead to the line a, and these lines pass for the pattern.
LEMMA WholeIs ==
  ASSUME NEW A, Break \in A, Dash \in A, NEW t \in Seq(A),
         NEW B, Break \in B, Dash \in B, NEW p \in Seq(B), NEW pass, Steady(pass, A),
         NEW k \in 0 .. Len(Loose(t, pass)) - Len(Loose(p, pass)),
         Occurs(Loose(p, pass), Loose(t, pass), k),
         k = 0 \/ Loose(t, pass)[k] = Break,
         \/ k + Len(Loose(p, pass)) = Len(Loose(t, pass))
         \/ Loose(t, pass)[k + Len(Loose(p, pass)) + 1] = Break
  PROVE  \E a \in 1 .. Len(Starts(t)) : \E b \in a .. Len(Starts(t)) :
           /\ HostLine(t, pass, k) = a /\ LineAt(Loose(t, pass), k) = a
           /\ Len(Lines(p)) = b - a + 1 /\ Len(Lines(Loose(p, pass))) = b - a + 1
           /\ Loose(Piece(t, a, b), pass) = Loose(p, pass)
<1> DEFINE T == Loose(t, pass)
           P == Loose(p, pass)
           sT == Starts(T)
           n == Len(Starts(t))
           e == k + Len(P)
<1>1. T \in Seq(A) /\ Len(sT) = n /\ P \in Seq(B) /\ Len(Starts(P)) = Len(Starts(p))
  BY LooseAre
<1>2. Len(P) \in Nat /\ Len(T) \in Nat /\ k \in Nat /\ e \in k .. Len(T) /\ e \in Nat
  <2>1. Len(P) \in Nat /\ Len(T) \in Nat
    BY <1>1, LenProperties
  <2> HIDE DEF P, T
  <2>2. k \in 0 .. Len(T) - Len(P)
    BY DEF P, T
  <2> QED BY <2>1, <2>2
<1>3. /\ SubSeq(T, k + 1, e) = P
      /\ k = 0 \/ T[k] = Break
      /\ e = Len(T) \/ T[e + 1] = Break
  BY DEF Occurs
<1>4. sT = Starts(Joined(Stripped(t, pass)))
  <2>1. n \in Nat /\ n >= 1
    BY LinesAre
  <2>2. 1 \in 1 .. n /\ 1 \in 1 .. n
    BY <2>1
  <2> QED BY <2>1, <2>2, LoosePiece
<1> HIDE DEF T, P, e, n
<1>5. /\ Splits(sT, T) /\ n \in Nat /\ n >= 1 /\ sT[1] = 0
      /\ \A x, y \in 1 .. n : x < y => sT[x] < sT[y]
      /\ \A x \in 1 .. n : sT[x] \in Nat
      /\ \A j \in 1 .. Len(T) : T[j] = Break => \E x \in 2 .. n : sT[x] = j
  <2>1. Splits(sT, T)
    BY <1>1, LinesAre
  <2> HIDE DEF sT
  <2> QED BY <1>1, <2>1 DEF Splits
<1> HIDE DEF sT
<1>6. PICK a \in 1 .. n : sT[a] = k
  <2>1. CASE k = 0
    <3>1. 1 \in 1 .. n
      BY <1>5
    <3> QED BY <1>5, <2>1, <3>1
  <2>2. CASE k # 0
    <3>1. T[k] = Break /\ k \in 1 .. Len(T)
      BY <1>2, <1>3, <2>2
    <3>2. PICK x \in 2 .. n : sT[x] = k
      BY <1>5, <3>1
    <3>3. x \in 1 .. n
      OBVIOUS
    <3> QED BY <3>2, <3>3
  <2> QED BY <2>1, <2>2
<1>7. PICK b \in a .. n : EndOf(T, sT, b) = e
  <2>1. CASE e = Len(T)
    <3>1. EndOf(T, sT, n) = e /\ n \in a .. n
      BY <1>1, <1>5, <2>1 DEF EndOf
    <3> QED BY <3>1
  <2>2. CASE e # Len(T)
    <3>1. T[e + 1] = Break /\ e + 1 \in 1 .. Len(T)
      BY <1>2, <1>3, <2>2
    <3>2. PICK x \in 2 .. n : sT[x] = e + 1
      BY <1>5, <3>1
    <3>3. x > a
      <4>1. x \in 1 .. n /\ sT[a] < sT[x]
        BY <1>2, <1>6, <3>2
      <4>2. x < a => sT[x] < sT[a]
        BY <1>5, <4>1
      <4> QED BY <1>5, <4>1, <4>2
    <3> DEFINE y == x - 1
    <3>4. y \in a .. n /\ y # n /\ y + 1 = x
      BY <1>5, <3>3
    <3> HIDE DEF y
    <3>5. EndOf(T, sT, y) = sT[x] - 1
      BY <1>1, <3>4 DEF EndOf
    <3>6. EndOf(T, sT, y) = e
      BY <1>2, <3>2, <3>5
    <3> QED BY <3>4, <3>6
  <2> QED BY <2>1, <2>2
<1>8. P = Piece(T, a, b)
  BY <1>3, <1>6, <1>7, Zenon DEF Piece, sT
<1>9. Len(Starts(P)) = b - a + 1
  <2>1. a \in 1 .. Len(Starts(T)) /\ b \in a .. Len(Starts(T))
    BY <1>1 DEF sT
  <2> QED BY <1>1, <1>8, <2>1, PieceLines
<1>10. Loose(Piece(t, a, b), pass) = P
  <2>1. a \in 1 .. Len(Starts(t)) /\ b \in a .. Len(Starts(t))
    BY DEF n
  <2>2. Loose(Piece(t, a, b), pass) = Piece(Loose(t, pass), a, b)
    BY <2>1, LoosePiece
  <2> QED BY <1>8, <2>2 DEF T
<1>11. HostLine(t, pass, k) = a
  <2>1. a \in 1 .. Len(Starts(t)) /\ k = Starts(Joined(Stripped(t, pass)))[a]
    BY <1>4, <1>6 DEF n
  <2> QED BY <2>1, HostLineIs, Zenon
<1>12. LineAt(T, k) = a
  <2>1. a \in 1 .. Len(sT)
    BY <1>1
  <2> QED BY <1>2, <1>5, <1>6, <2>1, RankOf
<1>13. Len(Lines(p)) = Len(Starts(p)) /\ Len(Lines(P)) = Len(Starts(P))
  BY <1>1, LinesAre
<1>14. Len(Lines(p)) = b - a + 1 /\ Len(Lines(P)) = b - a + 1
  BY <1>1, <1>9, <1>13
<1> QED BY <1>10, <1>11, <1>12, <1>14 DEF T, P, n

Chars == Alphabet \cup {Break, Dash}
EditOf(mode, all) ==
  [mode |-> mode, all |-> all,
   host |-> Edited(content, HostMatch(content, pattern), mode, all),
   server |-> Edited(content, ServerMatch(content, pattern), mode, all)]
EditInv ==
  /\ content \in Seq(Alphabet) /\ pattern \in Seq(Alphabet)
  /\ edit = NoEdit \/ \E mode \in Modes, all \in BOOLEAN : edit = EditOf(mode, all)

LEMMA BoundedAre == ASSUME NEW S, NEW n, NEW s \in BoundedSeq(S, n) PROVE s \in Seq(S)
<1>1. PICK m \in 0 .. n : s \in [1 .. m -> S]
  BY DEF BoundedSeq, SeqOf
<1>2. m \in Nat
  OBVIOUS
<1> QED BY <1>1, <1>2

LEMMA EditStart == EditInit => EditInv
BY BoundedAre DEF EditInit, EditInv

LEMMA EditMove == EditInv /\ [EditNext]_editVars => EditInv'
<1> SUFFICES ASSUME EditInv, [EditNext]_editVars PROVE EditInv'
  OBVIOUS
<1>1. CASE UNCHANGED editVars
  BY <1>1 DEF EditInv, EditOf, editVars
<1>2. ASSUME NEW mode \in Modes, NEW all \in BOOLEAN, Apply(mode, all) PROVE EditInv'
  <2>1. content' = content /\ pattern' = pattern /\ edit' = EditOf(mode, all)
    BY <1>2 DEF Apply, EditOf
  <2>2. EditOf(mode, all)' = EditOf(mode, all)
    BY <2>1 DEF EditOf
  <2> QED BY <2>1, <2>2 DEF EditInv
<1> QED BY <1>1, <1>2 DEF EditNext

\* Passes that find the pattern.
LEMMA PassIs ==
  ASSUME NEW t, NEW p
  PROVE  /\ PassOf(t, p) \in 0 .. 3
         /\ PassOf(t, p) # 0 => Find(Loose(p, Passes[PassOf(t, p)]), Loose(t, Passes[PassOf(t, p)])) # -1
         /\ Passes[1] = "right" /\ Passes[2] = "both" /\ Passes[3] = "unicode"
<1> DEFINE found == {n \in DOMAIN Passes : Find(Loose(p, Passes[n]), Loose(t, Passes[n])) # -1}
<1>1. PassOf(t, p) = IF found = {} THEN 0 ELSE Min(found)
  BY DEF PassOf
<1>2. DOMAIN Passes = 1 .. 3 /\ Passes[1] = "right" /\ Passes[2] = "both" /\ Passes[3] = "unicode"
  BY DEF Passes
<1>3. found \subseteq Nat /\ found \subseteq 1 .. 3
  BY <1>2
<1>4. found # {} => Min(found) \in found
  <2> HIDE DEF found
  <2> QED BY <1>3, MinIs
<1>5. CASE found = {}
  BY <1>1, <1>2, <1>5
<1>6. CASE found # {}
  <2>1. PassOf(t, p) \in found
    BY <1>1, <1>4, <1>6
  <2> QED BY <1>2, <1>3, <2>1
<1> QED BY <1>5, <1>6

LEMMA MatchIn ==
  ASSUME NEW A, Break \in A, Dash \in A, NEW t \in Seq(A), NEW p \in Seq(A)
  PROVE  /\ HostMatch(t, p) = Nowhere \/ InText(HostMatch(t, p), t)
         /\ ServerMatch(t, p) = Nowhere \/ InText(ServerMatch(t, p), t)
<1> DEFINE n == PassOf(t, p)
           T == Loose(t, Passes[n])
           P == Loose(p, Passes[n])
           k == Find(P, T)
           exact == [from |-> Find(p, t) + 1, to |-> Find(p, t) + Len(p)]
<1>1. Len(t) \in Nat /\ Len(p) \in Nat
  BY LenProperties
<1>2. Find(p, t) # -1 => InText(exact, t)
  <2> SUFFICES ASSUME Find(p, t) # -1 PROVE InText(exact, t)
    OBVIOUS
  <2> DEFINE f == Find(p, t)
  <2>1. f \in 0 .. Len(t) - Len(p)
    BY FindIs
  <2>2. exact.from = f + 1 /\ exact.to = f + Len(p)
    OBVIOUS
  <2> HIDE DEF f, exact
  <2> QED BY <1>1, <2>1, <2>2 DEF InText
<1>3. /\ T \in Seq(A) /\ Len(Starts(T)) = Len(Starts(t))
      /\ P \in Seq(A) /\ Len(Lines(P)) \in Nat /\ Len(Lines(P)) >= 1
      /\ Len(Lines(p)) \in Nat /\ Len(Lines(p)) >= 1
  <2>1. T \in Seq(A) /\ Len(Starts(T)) = Len(Starts(t)) /\ P \in Seq(A)
    BY LooseAre
  <2> QED BY <2>1, LinesAre
<1>4. HostMatch(t, p) = IF Find(p, t) # -1 THEN exact ELSE IF n = 0 THEN Nowhere
                        ELSE Span(t, HostLine(t, Passes[n], k), Len(Lines(p)))
  BY DEF HostMatch
<1>5. ServerMatch(t, p) = IF Find(p, t) # -1 THEN exact ELSE IF n = 0 THEN Nowhere
                          ELSE Span(t, LineAt(T, k), Len(Lines(P)))
  BY DEF ServerMatch
<1>6. n # 0 => k \in 0 .. Len(T)
  <2> SUFFICES ASSUME n # 0 PROVE k \in 0 .. Len(T)
    OBVIOUS
  <2>1. k # -1
    BY PassIs
  <2> HIDE DEF T, P
  <2>2. k \in 0 .. Len(T) - Len(P)
    BY <1>3, <2>1, FindIs
  <2>3. Len(T) \in Nat /\ Len(P) \in Nat
    BY <1>3, LenProperties
  <2> HIDE DEF k
  <2> QED BY <2>2, <2>3
<1> HIDE DEF exact, n, T, P, k
<1>7. InText(Span(t, HostLine(t, Passes[n], k), Len(Lines(p))), t)
  <2>1. HostLine(t, Passes[n], k) \in 1 .. Len(Starts(t))
    BY HostLineIn
  <2> QED BY <1>3, <2>1, SpanIs
<1>8. n # 0 => InText(Span(t, LineAt(T, k), Len(Lines(P))), t)
  <2> SUFFICES ASSUME n # 0 PROVE InText(Span(t, LineAt(T, k), Len(Lines(P))), t)
    OBVIOUS
  <2>1. Splits(Starts(T), T) /\ Len(T) \in Nat
    BY <1>3, LinesAre
  <2>2. LineAt(T, k) \in 1 .. Len(Starts(T))
    BY <1>6, <2>1, LineIs
  <2>3. LineAt(T, k) \in 1 .. Len(Starts(t))
    BY <1>3, <2>2
  <2> QED BY <1>3, <2>3, SpanIs
<1> QED BY <1>2, <1>4, <1>5, <1>7, <1>8

LEMMA TypeFollows == EditInv => EditTypeOK
<1> SUFFICES ASSUME EditInv PROVE EditTypeOK
  OBVIOUS
<1>1. CASE edit = NoEdit
  BY <1>1 DEF EditTypeOK, NoEdit
<1>2. ASSUME NEW mode \in Modes, NEW all \in BOOLEAN, edit = EditOf(mode, all) PROVE EditTypeOK
  <2> DEFINE h == HostMatch(content, pattern)
             s == ServerMatch(content, pattern)
  <2>1. content \in Seq(Chars) /\ pattern \in Seq(Chars) /\ Break \in Chars /\ Dash \in Chars
    BY DEF EditInv, Chars
  <2>2. (h = Nowhere \/ InText(h, content)) /\ (s = Nowhere \/ InText(s, content))
    BY <2>1, MatchIn
  <2>3. /\ edit.mode = mode /\ edit["host"] = Edited(content, h, mode, all)
        /\ edit["server"] = Edited(content, s, mode, all)
    BY <1>2 DEF EditOf
  <2> HIDE DEF h, s
  <2>4. \A m : (m = Nowhere \/ InText(m, content)) /\ Edited(content, m, mode, all) # Nowhere
           => /\ Edited(content, m, mode, all).from \in 1 .. Len(content) + 1
              /\ Edited(content, m, mode, all).to \in 0 .. Len(content)
    BY <2>1, EditedIs
  <2> QED BY <2>2, <2>3, <2>4 DEF EditTypeOK
<1> QED BY <1>1, <1>2 DEF EditInv

LEMMA AgreementFollows == EditInv => WholeLinesAgree
<1> SUFFICES ASSUME EditInv, Made, WholeLines, ~Moves PROVE Agree
  BY DEF WholeLinesAgree
<1> DEFINE t == content
           p == pattern
           n == PassOf(t, p)
           pass == Passes[n]
           T == Loose(t, pass)
           P == Loose(p, pass)
           k == Find(P, T)
           A == IF Nothing \in Range(t) THEN Chars ELSE Chars \ {Nothing}
<1>1. PICK mode \in Modes, all \in BOOLEAN : edit = EditOf(mode, all)
  BY DEF EditInv, Made, NoEdit
<1>2. p \in Seq(Chars) /\ t \in Seq(Chars) /\ Break \in Chars /\ Dash \in Chars
  BY DEF EditInv, Chars
<1>3. t \in Seq(A) /\ Break \in A /\ Dash \in A
  <2>1. Break # Nothing /\ Dash # Nothing
    BY DEF Break, Nothing, Dash
  <2>2. CASE Nothing \in Range(t)
    BY <1>2, <2>2
  <2>3. CASE Nothing \notin Range(t)
    <3>1. Len(t) \in Nat /\ DOMAIN t = 1 .. Len(t) /\ t \in [1 .. Len(t) -> Chars]
      BY <1>2, LenProperties
    <3>2. \A j \in 1 .. Len(t) : t[j] # Nothing
      BY <2>3, <3>1 DEF Range
    <3>3. t \in [1 .. Len(t) -> Chars \ {Nothing}]
      BY <3>1, <3>2
    <3>4. t \in Seq(Chars \ {Nothing})
      BY <3>1, <3>3
    <3> QED BY <1>2, <2>1, <2>3, <3>4
  <2> QED BY <2>2, <2>3
<1>4. /\ Find(p, t) = -1 /\ n # 0
      /\ k = 0 \/ T[k] = Break
      /\ k + Len(P) = Len(T) \/ T[k + Len(P) + 1] = Break
  BY DEF WholeLines
<1>5. n \in 0 .. 3 /\ k # -1 /\ Passes[1] = "right" /\ Passes[2] = "both" /\ Passes[3] = "unicode"
  BY <1>4, PassIs
<1>6. Steady(pass, A)
  <2>1. n \in {1, 2, 3}
    BY <1>4, <1>5
  <2>2. n = 3 => Nothing \notin Range(t)
    BY DEF Moves
  <2> HIDE DEF n
  <2> QED BY <1>5, <2>1, <2>2 DEF Steady
<1>7. HostMatch(t, p) = Span(t, HostLine(t, pass, k), Len(Lines(p)))
  BY <1>4 DEF HostMatch
<1>8. ServerMatch(t, p) = Span(t, LineAt(T, k), Len(Lines(P)))
  BY <1>4 DEF ServerMatch
<1> HIDE DEF n, pass, A
<1>9. k \in 0 .. Len(T) - Len(P) /\ Occurs(P, T, k)
  <2>1. T \in Seq(Chars) /\ P \in Seq(Chars)
    BY <1>2, LooseAre
  <2> HIDE DEF T, P
  <2> QED BY <1>5, <2>1, FindIs
<1> HIDE DEF k
<1>10. PICK a \in 1 .. Len(Starts(t)) : \E b \in a .. Len(Starts(t)) :
          /\ HostLine(t, pass, k) = a /\ LineAt(T, k) = a
          /\ Len(Lines(p)) = b - a + 1 /\ Len(Lines(P)) = b - a + 1
          /\ Loose(Piece(t, a, b), pass) = P
  BY <1>2, <1>3, <1>4, <1>6, <1>9, WholeIs
<1>11. PICK b \in a .. Len(Starts(t)) :
          /\ HostLine(t, pass, k) = a /\ LineAt(T, k) = a
          /\ Len(Lines(p)) = b - a + 1 /\ Len(Lines(P)) = b - a + 1
          /\ Loose(Piece(t, a, b), pass) = P
  BY <1>10
<1> DEFINE m == Span(t, a, b - a + 1)
<1>12. HostMatch(t, p) = m /\ ServerMatch(t, p) = m
  BY <1>7, <1>8, <1>11
<1>13. InText(m, t) /\ Text(t, m) = Piece(t, a, b)
  <2>1. Len(Starts(t)) \in Nat
    BY <1>2, LinesAre
  <2>2. b - a + 1 \in Nat /\ b - a + 1 >= 1 /\ a + (b - a + 1) - 1 = b /\ b <= Len(Starts(t))
    BY <2>1
  <2> HIDE DEF m
  <2>3. /\ InText(Span(t, a, b - a + 1), t)
        /\ a + (b - a + 1) - 1 <= Len(Starts(t)) =>
             Text(t, Span(t, a, b - a + 1)) = Piece(t, a, a + (b - a + 1) - 1)
    BY <1>2, <2>2, SpanIs
  <2> QED BY <2>2, <2>3 DEF m
<1> DEFINE x == Edited(t, m, mode, all)
<1>14. edit.host = x /\ edit.server = x
  BY <1>1, <1>12 DEF EditOf
<1> HIDE DEF m, x
<1>15. x # Nowhere => Text(t, x) = Piece(t, a, b)
  BY <1>2, <1>13, EditedIs DEF x
<1>16. Loose(Piece(t, a, b), Passes[n]) = Loose(p, Passes[n]) /\ n \in DOMAIN Passes
  <2>1. DOMAIN Passes = 1 .. 3
    BY DEF Passes
  <2> QED BY <1>4, <1>5, <1>11, <2>1 DEF pass
<1>17. x # Nowhere => Like(Text(t, x), p)
  BY <1>15, <1>16 DEF Like
<1> QED BY <1>14, <1>17 DEF Agree

\* What apply_edit and the embedded server's _apply_edit replace lies within the
\* file, however the text was found: for every content, pattern and mode.
THEOREM EditsAreTyped == EditSpec => []EditTypeOK
BY EditStart, EditMove, TypeFollows, PTL DEF EditSpec

\* The host's fuzzy_find_original_match, which maps an index of the stripped text
\* back and looks for the line that ends behind it, and the server's
\* _fuzzy_find_original, which counts the breaks before the index, edit the same
\* place, and what stands there is the pattern up to blanks and look-alikes:
\* whenever the pattern is found as whole lines and no character has vanished.
THEOREM EditorsAgree == EditSpec => []WholeLinesAgree
BY EditStart, EditMove, AgreementFollows, PTL DEF EditSpec
=============================================================================
