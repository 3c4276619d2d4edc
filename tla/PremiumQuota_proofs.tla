------------------------ MODULE PremiumQuota_proofs ------------------------
(***************************************************************************)
(* The two-step MongoDB counter and the in-process one both implement       *)
(* QuotaPromise as soon as the cap is at least one, and a turn that calls a   *)
(* premium model belongs to a session that was charged.                      *)
(***************************************************************************)
EXTENDS PremiumQuota, TLAPS

\* The days the counter keys name are days that come to pass.
KeysOK ==
  /\ day \in Days
  /\ rday \in [Reqs -> Days]
  /\ count \in [Days -> Nat]

\* Every step keeps the counter keys in range.
LEMMA KeysStep == KeysOK /\ [Next]_vars => KeysOK'
<1> SUFFICES ASSUME KeysOK, [Next]_vars PROVE KeysOK'
  OBVIOUS
<1> USE DEF KeysOK
<1>1. ASSUME NEW r \in Reqs, NEW d \in Days, Grant(r, d), UNCHANGED <<day, rday>>
      PROVE  KeysOK'
  BY <1>1 DEF Grant
<1>2. ASSUME NEW r \in Reqs, NEW s \in Sessions, Gate(r, s)
      PROVE  KeysOK'
  BY <1>2 DEF Gate, counterVars
<1>3. ASSUME UNCHANGED <<day, count, rday>>
      PROVE  KeysOK'
  BY <1>3
<1>4. ASSUME NEW r \in Reqs, InsertQuota(r) \/ BumpQuota(r) \/ MemoryQuota(r)
      PROVE  KeysOK'
  <2>1. UNCHANGED <<day, rday>>
    BY <1>4 DEF InsertQuota, BumpQuota, MemoryQuota
  <2>2. Grant(r, rday[r]) \/ Grant(r, day) \/ UNCHANGED count
    BY <1>4 DEF InsertQuota, BumpQuota, MemoryQuota, Deny
  <2> QED
    BY <1>1, <1>3, <2>1, <2>2
<1>5. ASSUME NEW r \in Reqs, MarkCounted(r) \/ Persist(r) \/ Submit(r)
      PROVE  KeysOK'
  BY <1>3, <1>5 DEF MarkCounted, Persist, Submit, counterVars
<1>6. ASSUME NEW s \in Sessions,
             StartTurn(s) \/ LLMCall(s) \/ EndTurn(s) \/ Approve(s) \/ SetModel(s)
      PROVE  KeysOK'
  BY <1>3, <1>6 DEF StartTurn, LLMCall, EndTurn, Approve, SetModel, counterVars,
     reqVars
<1>7. CASE Midnight
  BY <1>7 DEF Midnight, reqVars
<1>8. CASE Restart
  BY <1>3, <1>8 DEF Restart, counterVars
<1>9. CASE UNCHANGED vars
  BY <1>3, <1>9 DEF vars
<1> QED
  BY <1>2, <1>4, <1>5, <1>6, <1>7, <1>8, <1>9 DEF Next

\* A granted point is one atomic, guarded bump; nothing else moves a counter.
LEMMA CounterStep ==
  ASSUME Cap # 0, KeysOK, [Next]_vars
  PROVE  [Promise!Next]_count
<1> USE DEF KeysOK
<1>1. ASSUME NEW r \in Reqs, NEW d \in Days, Grant(r, d), count[d] < Cap
      PROVE  Promise!Next
  BY <1>1 DEF Grant, Promise!Next, Promise!TryIncrement
<1>2. ASSUME NEW r \in Reqs, InsertQuota(r) \/ BumpQuota(r) \/ MemoryQuota(r)
      PROVE  Promise!Next \/ UNCHANGED count
  <2>1. CASE InsertQuota(r)
    BY <1>1, <2>1, QuotaAssumption DEF InsertQuota
  <2>2. CASE BumpQuota(r)
    BY <1>1, <2>2 DEF BumpQuota, Deny
  <2>3. CASE MemoryQuota(r)
    BY <1>1, <2>3 DEF MemoryQuota, Deny
  <2> QED
    BY <1>2, <2>1, <2>2, <2>3
<1>3. ASSUME NEW r \in Reqs, NEW s \in Sessions, Gate(r, s)
      PROVE  UNCHANGED count
  BY <1>3 DEF Gate, counterVars
<1>4. ASSUME NEW r \in Reqs, MarkCounted(r) \/ Persist(r) \/ Submit(r)
      PROVE  UNCHANGED count
  BY <1>4 DEF MarkCounted, Persist, Submit, counterVars
<1>5. ASSUME NEW s \in Sessions,
             StartTurn(s) \/ LLMCall(s) \/ EndTurn(s) \/ Approve(s) \/ SetModel(s)
      PROVE  UNCHANGED count
  BY <1>5 DEF StartTurn, LLMCall, EndTurn, Approve, SetModel, counterVars
<1>6. CASE Midnight \/ Restart \/ UNCHANGED vars
  BY <1>6 DEF Midnight, Restart, counterVars, vars
<1> QED
  BY <1>2, <1>3, <1>4, <1>5, <1>6 DEF Next

(* For every cap of at least one, every number of sessions, requests and    *)
(* days, and both stores, try_increment_claude keeps its promise: the       *)
(* detailed counter implements QuotaPromise.                                *)
THEOREM CapKept ==
  ASSUME Cap # 0
  PROVE  Spec => CapIsKept
<1>1. Init => Promise!Init
  BY DEF Init, Promise!Init
<1>2. Init => KeysOK
  BY QuotaAssumption DEF Init, KeysOK, Days
<1>3. KeysOK /\ [Next]_vars => [Promise!Next]_count
  BY CounterStep
<1> QED
  BY <1>1, <1>2, <1>3, KeysStep, PTL DEF Spec, CapIsKept, Promise!Spec

---------------------------------------------------------------------------
(* Why a premium turn is a charged one in a session that keeps its model:   *)
(* the fact travels with the request through the gate, into the flag and    *)
(* its saved copy, and with the message into the turn.                      *)

FlagIsCharged == \A s \in Sessions : counted[s] \/ saved[s] => charged[s] > 0

TurnIsCharged ==
  \A s \in Sessions \ switched :
    /\ premium[s] /\ turn[s] # "idle" => charged[s] > 0
    /\ spent[s] => premium[s] /\ turn[s] # "idle"

RequestIsCharged ==
  \A r \in Reqs :
    /\ rpc[r] # "idle" => req[r] \in Sessions
    /\ rpc[r] \in {"granted", "persist"} => charged[req[r]] > 0
    /\ rpc[r] = "submit" /\ premium[req[r]] /\ req[r] \notin switched
         => charged[req[r]] > 0

ChargeInv == TypeOK /\ FlagIsCharged /\ TurnIsCharged /\ RequestIsCharged

\* Charging: the request's session gets a point, no other loses one.
LEMMA GrantInv ==
  ASSUME ChargeInv, NEW r \in Reqs, NEW d \in Days, rpc[r] # "idle",
         Grant(r, d), UNCHANGED <<durable, day, flagVars, sessionVars, rday>>
  PROVE  ChargeInv'
<1>1. req[r] \in Sessions
  BY DEF ChargeInv, RequestIsCharged
<1>2. TypeOK'
  BY <1>1 DEF ChargeInv, TypeOK, Grant, Goto, flagVars, sessionVars
<1>3. charged'[req[r]] > 0 /\ \A s \in Sessions : charged[s] > 0 => charged'[s] > 0
  BY <1>1 DEF ChargeInv, TypeOK, Grant
<1>4. FlagIsCharged' /\ TurnIsCharged'
  BY <1>3 DEF ChargeInv, FlagIsCharged, TurnIsCharged, flagVars, sessionVars
<1>5. RequestIsCharged'
  BY <1>1, <1>3 DEF ChargeInv, TypeOK, RequestIsCharged, Grant, Goto,
     sessionVars
<1> QED
  BY <1>2, <1>4, <1>5 DEF ChargeInv

\* A refused request is forgotten.
LEMMA DenyInv ==
  ASSUME ChargeInv, NEW r \in Reqs, Deny(r),
         UNCHANGED <<durable, day, flagVars, sessionVars, rday>>
  PROVE  ChargeInv'
BY DEF ChargeInv, TypeOK, FlagIsCharged, TurnIsCharged, RequestIsCharged, Deny,
   Finish, Goto, flagVars, sessionVars

\* The gate lets a counted session or a free model through.
LEMMA GateInv ==
  ASSUME ChargeInv, NEW r \in Reqs, NEW s \in Sessions, Gate(r, s)
  PROVE  ChargeInv'
<1>1. TypeOK'
  BY DEF ChargeInv, TypeOK, Gate, Goto, counterVars, flagVars, sessionVars
<1>2. FlagIsCharged' /\ TurnIsCharged'
  BY DEF ChargeInv, FlagIsCharged, TurnIsCharged, Gate, counterVars, flagVars,
     sessionVars
<1>3. RequestIsCharged'
  BY DEF ChargeInv, TypeOK, FlagIsCharged, RequestIsCharged, Gate, Goto,
     counterVars, sessionVars
<1> QED
  BY <1>1, <1>2, <1>3 DEF ChargeInv

\* The counter's answer.
LEMMA CounterInv ==
  ASSUME ChargeInv, NEW r \in Reqs,
         InsertQuota(r) \/ BumpQuota(r) \/ MemoryQuota(r)
  PROVE  ChargeInv'
<1>1. rpc[r] # "idle" /\ UNCHANGED <<durable, day, flagVars, sessionVars, rday>>
  BY DEF InsertQuota, BumpQuota, MemoryQuota
<1>2. rday[r] \in Days /\ day \in Days
  BY DEF ChargeInv, TypeOK
<1>3. CASE Grant(r, rday[r]) \/ Grant(r, day)
  BY <1>1, <1>2, <1>3, GrantInv
<1>4. CASE Deny(r)
  BY <1>1, <1>4, DenyInv
<1>5. CASE Goto(r, "bump") /\ UNCHANGED <<count, charged, req>>
  <2>1. rpc' = [rpc EXCEPT ![r] = "bump"]
    BY <1>5 DEF Goto
  <2>2. TypeOK'
    BY <1>1, <1>5, <2>1 DEF ChargeInv, TypeOK, flagVars, sessionVars
  <2>3. FlagIsCharged' /\ TurnIsCharged' /\ RequestIsCharged'
    BY <1>1, <1>5, <2>1 DEF ChargeInv, TypeOK, FlagIsCharged, TurnIsCharged,
       RequestIsCharged, flagVars, sessionVars
  <2> QED
    BY <2>2, <2>3 DEF ChargeInv
<1> QED
  BY <1>3, <1>4, <1>5 DEF InsertQuota, BumpQuota, MemoryQuota

\* Marking, saving and submitting pass the charge on.
LEMMA PassOnInv ==
  ASSUME ChargeInv, NEW r \in Reqs, MarkCounted(r) \/ Persist(r) \/ Submit(r)
  PROVE  ChargeInv'
<1>1. req[r] \in Sessions
  BY DEF ChargeInv, RequestIsCharged, MarkCounted, Persist, Submit
<1>2. CASE MarkCounted(r)
  BY <1>1, <1>2 DEF ChargeInv, TypeOK, FlagIsCharged, TurnIsCharged,
     RequestIsCharged, MarkCounted, Goto, counterVars, sessionVars
<1>3. CASE Persist(r)
  BY <1>1, <1>3 DEF ChargeInv, TypeOK, FlagIsCharged, TurnIsCharged,
     RequestIsCharged, Persist, Goto, counterVars, sessionVars
<1>4. CASE Submit(r)
  <2>1. TypeOK'
    BY <1>1, <1>4 DEF ChargeInv, TypeOK, Submit, Finish, Goto, counterVars, flagVars,
       modelVars
  <2>2. FlagIsCharged' /\ RequestIsCharged'
    BY <1>1, <1>4 DEF ChargeInv, TypeOK, FlagIsCharged, RequestIsCharged, Submit,
       Finish, Goto, counterVars, flagVars, modelVars
  <2>3. TurnIsCharged'
    BY <1>1, <1>4 DEF ChargeInv, TypeOK, TurnIsCharged, RequestIsCharged, Submit,
       Finish, Goto, counterVars, flagVars, modelVars
  <2> QED
    BY <2>1, <2>2, <2>3 DEF ChargeInv
<1> QED
  BY <1>2, <1>3, <1>4

\* The session's own steps: the model of a running turn is the gated one.
LEMMA SessionInv ==
  ASSUME ChargeInv, NEW s \in Sessions,
         StartTurn(s) \/ LLMCall(s) \/ EndTurn(s) \/ Approve(s)
  PROVE  ChargeInv'
<1>1. TypeOK'
  BY DEF ChargeInv, TypeOK, StartTurn, LLMCall, EndTurn, Approve, counterVars, modelVars,
     flagVars, reqVars
<1>2. FlagIsCharged' /\ RequestIsCharged'
  BY DEF ChargeInv, FlagIsCharged, RequestIsCharged, StartTurn, LLMCall, EndTurn,
     Approve, counterVars, flagVars, modelVars, reqVars
<1>3. TurnIsCharged'
  BY DEF ChargeInv, TypeOK, TurnIsCharged, StartTurn, LLMCall, EndTurn, Approve,
     counterVars, modelVars
<1> QED
  BY <1>1, <1>2, <1>3 DEF ChargeInv

\* A switch concerns only the session that is switched.
LEMMA SwitchInv ==
  ASSUME ChargeInv, NEW s \in Sessions, SetModel(s)
  PROVE  ChargeInv'
<1>1. TypeOK'
  BY DEF ChargeInv, TypeOK, SetModel, counterVars, reqVars
<1>2. FlagIsCharged'
  BY DEF ChargeInv, TypeOK, FlagIsCharged, SetModel, counterVars
<1>3. TurnIsCharged' /\ RequestIsCharged'
  BY DEF ChargeInv, TypeOK, TurnIsCharged, RequestIsCharged, SetModel,
     counterVars, reqVars
<1> QED
  BY <1>1, <1>2, <1>3 DEF ChargeInv

\* A restart takes the flags from the saved copies and forgets the requests.
LEMMA RestartInv ==
  ASSUME ChargeInv, Restart
  PROVE  ChargeInv'
<1>1. TypeOK'
  BY DEF ChargeInv, TypeOK, Restart, counterVars, modelVars
<1>2. FlagIsCharged' /\ TurnIsCharged' /\ RequestIsCharged'
  BY DEF ChargeInv, TypeOK, FlagIsCharged, TurnIsCharged, RequestIsCharged,
     Restart, counterVars, modelVars
<1> QED
  BY <1>1, <1>2 DEF ChargeInv

\* Steps that change neither sessions nor requests.
LEMMA QuietInv ==
  ASSUME ChargeInv, Midnight \/ UNCHANGED vars
  PROVE  ChargeInv'
BY DEF ChargeInv, TypeOK, FlagIsCharged, TurnIsCharged, RequestIsCharged,
   Midnight, vars, flagVars, sessionVars, reqVars

\* The invariant holds of the quota.
THEOREM ChargeInvariant == Spec => []ChargeInv
<1>1. Init => ChargeInv
  BY QuotaAssumption DEF Init, ChargeInv, TypeOK, FlagIsCharged, TurnIsCharged,
     RequestIsCharged, Days
<1>2. ChargeInv /\ [Next]_vars => ChargeInv'
  <2> SUFFICES ASSUME ChargeInv, [Next]_vars PROVE ChargeInv'
    OBVIOUS
  <2> QED
    BY GateInv, CounterInv, PassOnInv, SessionInv, SwitchInv, RestartInv, QuietInv
       DEF Next
<1> QED
  BY <1>1, <1>2, PTL DEF Spec

(* Counters, flags and requests keep their types: a flag is set only with its *)
(* day, and what a request carries between two awaits is a state of the code. *)
THEOREM QuotaTypeCorrect == Spec => []TypeOK
<1>1. ChargeInv => TypeOK
  BY DEF ChargeInv
<1> QED
  BY <1>1, ChargeInvariant, PTL

(* In a session that keeps its model, a turn that calls a premium model     *)
(* belongs to a charged session, for any number of concurrent requests,     *)
(* whatever the other sessions do, and across restarts.                     *)
THEOREM PremiumTurnsAreCharged == Spec => []PremiumUseIsCharged
<1>1. ChargeInv => PremiumUseIsCharged
  BY DEF ChargeInv, TurnIsCharged, PremiumUseIsCharged
<1> QED
  BY <1>1, ChargeInvariant, PTL
=============================================================================
