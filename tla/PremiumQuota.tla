---------------------------- MODULE PremiumQuota ----------------------------
(***************************************************************************)
(* The daily premium-model quota of one user: backend/user_quotas.py, the   *)
(* quota counters of agent/core/session_persistence.py, and the gate that    *)
(* backend/routes/agent.py runs before it submits a user message.           *)
(*                                                                         *)
(* Several requests are in flight at once.  Each looks at the session,       *)
(* awaits the counter, marks the session as counted, awaits a snapshot and  *)
(* submits.  The counter lives in MongoDB (an insert and, when the day's     *)
(* document exists already, a guarded update: two awaits) or in a dictionary *)
(* under an asyncio lock (one step).                                        *)
(***************************************************************************)
EXTENDS Naturals

CONSTANTS
  Sessions,  \* sessions of the user
  Reqs,      \* HTTP requests in flight
  NoSession, \* of a request that is not under way
  NDays,     \* bound: how many days pass
  Cap        \* daily_cap_for(plan)

ASSUME QuotaAssumption ==
  /\ NoSession \notin Sessions
  /\ NDays \in Nat \ {0}
  /\ Cap \in Nat

Days == 1 .. NDays

VARIABLES
  durable,   \* the counter is in MongoDB, not in the in-process dictionary
  day,       \* _today()
  count,     \* the counter of each day, 0 when there is none
  counted,   \* AgentSession.claude_counted
  saved,     \* claude_counted in the session document
  charged,   \* how often each session has been charged
  premium,   \* the session's current model is a premium one
  switched,  \* history: the sessions whose model was ever switched
  turn,      \* the session's loop
  spent,     \* the running turn has called a premium model
  req,       \* the session of each request
  rpc,       \* where the request stands
  rday       \* the day in its counter key

vars == <<durable, day, count, counted, saved, charged, premium, switched,
          turn, spent, req, rpc, rday>>
counterVars == <<durable, day, count, charged>>
flagVars == <<counted, saved>>
modelVars == <<premium, switched>>
sessionVars == <<premium, switched, turn, spent>>
reqVars == <<req, rpc, rday>>

TypeOK ==
  /\ durable \in BOOLEAN
  /\ day \in Days
  /\ count \in [Days -> Nat]
  /\ counted \in [Sessions -> BOOLEAN]
  /\ saved \in [Sessions -> BOOLEAN]
  /\ charged \in [Sessions -> Nat]
  /\ premium \in [Sessions -> BOOLEAN]
  /\ switched \subseteq Sessions
  /\ turn \in [Sessions -> {"idle", "queued", "running", "approval"}]
  /\ spent \in [Sessions -> BOOLEAN]
  /\ req \in [Reqs -> Sessions \cup {NoSession}]
  /\ rpc \in [Reqs -> {"idle", "insert", "bump", "granted", "persist",
                       "submit"}]
  /\ rday \in [Reqs -> Days]

Init ==
  /\ durable \in BOOLEAN
  /\ day = 1
  /\ count = [d \in Days |-> 0]
  /\ counted = [s \in Sessions |-> FALSE]
  /\ saved = [s \in Sessions |-> FALSE]
  /\ charged = [s \in Sessions |-> 0]
  /\ premium \in [Sessions -> BOOLEAN]
  /\ switched = {}
  /\ turn = [s \in Sessions |-> "idle"]
  /\ spent = [s \in Sessions |-> FALSE]
  /\ req = [r \in Reqs |-> NoSession]
  /\ rpc = [r \in Reqs |-> "idle"]
  /\ rday = [r \in Reqs |-> 1]

Goto(r, p) == rpc' = [rpc EXCEPT ![r] = p]
Finish(r) == Goto(r, "idle") /\ req' = [req EXCEPT ![r] = NoSession]

---------------------------------------------------------------------------
(* The request: a user message                                             *)

\* mutant: the flag is set before the counter is asked, to close the window
\* in which a second message is charged again
Gate_MarksFirst(r, s) ==
  /\ rpc[r] = "idle"
  /\ req' = [req EXCEPT ![r] = s]
  /\ Goto(r, IF counted[s] \/ ~premium[s] THEN "submit" ELSE "insert")
  /\ counted' = [counted EXCEPT ![s] = @ \/ premium[s]]
  /\ rday' = [rday EXCEPT ![r] = day]
  /\ UNCHANGED <<counterVars, saved, sessionVars>>

\* _enforce_premium_model_quota up to its first await
Gate(r, s) ==
  /\ rpc[r] = "idle"
  /\ req' = [req EXCEPT ![r] = s]
  /\ Goto(r, IF counted[s] \/ ~premium[s] THEN "submit" ELSE "insert")
  /\ rday' = [rday EXCEPT ![r] = day]
  /\ UNCHANGED <<counterVars, flagVars, sessionVars>>

\* one more point for day d
Grant(r, d) ==
  /\ count' = [count EXCEPT ![d] = @ + 1]
  /\ charged' = [charged EXCEPT ![req[r]] = @ + 1]
  /\ Goto(r, "granted")
  /\ UNCHANGED req

\* 429: the request is refused
Deny(r) == Finish(r) /\ UNCHANGED <<count, charged>>

\* MongoDB, first call: insert the day's document, or learn that it exists
InsertQuota(r) ==
  /\ durable
  /\ rpc[r] = "insert"
  /\ IF count[rday[r]] = 0 THEN Grant(r, rday[r])
     ELSE Goto(r, "bump") /\ UNCHANGED <<count, charged, req>>
  /\ UNCHANGED <<durable, day, flagVars, sessionVars, rday>>

\* mutant: the filter of the update compares with <= instead of <
BumpQuota_OffByOne(r) ==
  /\ rpc[r] = "bump"
  /\ IF count[rday[r]] <= Cap THEN Grant(r, rday[r]) ELSE Deny(r)
  /\ UNCHANGED <<durable, day, flagVars, sessionVars, rday>>

\* MongoDB, second call: find_one_and_update guarded by count < cap
BumpQuota(r) ==
  /\ rpc[r] = "bump"
  /\ IF count[rday[r]] < Cap THEN Grant(r, rday[r]) ELSE Deny(r)
  /\ UNCHANGED <<durable, day, flagVars, sessionVars, rday>>

\* the dictionary: under the lock, with today's date; the entry of an
\* earlier day counts as zero
MemoryQuota(r) ==
  /\ ~durable
  /\ rpc[r] = "insert"
  /\ IF count[day] < Cap THEN Grant(r, day) ELSE Deny(r)
  /\ UNCHANGED <<durable, day, flagVars, sessionVars, rday>>

\* back in the gate: claude_counted is set and a snapshot begins
MarkCounted(r) ==
  /\ rpc[r] = "granted"
  /\ counted' = [counted EXCEPT ![req[r]] = TRUE]
  /\ Goto(r, "persist")
  /\ UNCHANGED <<counterVars, saved, sessionVars, req, rday>>

\* the snapshot is best effort
Persist(r) ==
  /\ rpc[r] = "persist"
  /\ \/ saved' = [saved EXCEPT ![req[r]] = counted[req[r]]]
     \/ UNCHANGED saved
  /\ Goto(r, "submit")
  /\ UNCHANGED <<counterVars, counted, sessionVars, req, rday>>

\* submit_user_input: accepted (a message waits for the turns before it), or
\* the session is inactive or being reaped
Submit(r) ==
  /\ rpc[r] = "submit"
  /\ \/ turn[req[r]] = "idle" /\ turn' = [turn EXCEPT ![req[r]] = "queued"]
     \/ UNCHANGED turn
  /\ Finish(r)
  /\ UNCHANGED <<counterVars, flagVars, modelVars, spent, rday>>

---------------------------------------------------------------------------
(* The session                                                             *)

StartTurn(s) ==
  /\ turn[s] = "queued"
  /\ turn' = [turn EXCEPT ![s] = "running"]
  /\ UNCHANGED <<counterVars, flagVars, modelVars, spent, reqVars>>

\* an LLM call of the turn, with the model the session has now
LLMCall(s) ==
  /\ turn[s] = "running"
  /\ spent' = [spent EXCEPT ![s] = premium[s]]
  /\ UNCHANGED <<counterVars, flagVars, modelVars, turn, reqVars>>

EndTurn(s) ==
  /\ turn[s] = "running"
  /\ \E t \in {"idle", "approval"} : turn' = [turn EXCEPT ![s] = t]
  /\ spent' = [spent EXCEPT ![s] = FALSE]
  /\ UNCHANGED <<counterVars, flagVars, modelVars, reqVars>>

\* an approval goes round the gate
Approve(s) ==
  /\ turn[s] = "approval"
  /\ turn' = [turn EXCEPT ![s] = "queued"]
  /\ UNCHANGED <<counterVars, flagVars, modelVars, spent, reqVars>>

\* set_session_model, at any time; its snapshot is best effort
SetModel(s) ==
  /\ premium' = [premium EXCEPT ![s] = ~@]
  /\ switched' = switched \cup {s}
  /\ \/ saved' = [saved EXCEPT ![s] = counted[s]]
     \/ UNCHANGED saved
  /\ UNCHANGED <<counterVars, counted, turn, spent, reqVars>>

Midnight ==
  /\ day + 1 \in Days
  /\ day' = day + 1
  /\ UNCHANGED <<durable, count, charged, flagVars, sessionVars, reqVars>>

\* the process restarts; the sessions are restored from their documents
Restart ==
  /\ durable
  /\ counted' = saved
  /\ turn' = [s \in Sessions |->
                IF turn[s] = "approval" THEN "approval" ELSE "idle"]
  /\ spent' = [s \in Sessions |-> FALSE]
  /\ req' = [r \in Reqs |-> NoSession]
  /\ rpc' = [r \in Reqs |-> "idle"]
  /\ UNCHANGED <<counterVars, saved, modelVars, rday>>

Next ==
  \/ \E r \in Reqs, s \in Sessions : Gate(r, s)
  \/ \E r \in Reqs : InsertQuota(r) \/ BumpQuota(r) \/ MemoryQuota(r)
                     \/ MarkCounted(r) \/ Persist(r) \/ Submit(r)
  \/ \E s \in Sessions : StartTurn(s) \/ LLMCall(s) \/ EndTurn(s)
                         \/ Approve(s) \/ SetModel(s)
  \/ Midnight \/ Restart

Spec == Init /\ [][Next]_vars

---------------------------------------------------------------------------
(* Properties                                                              *)

\* user_quotas.py:82-86: whatever the requests of a user do at the same time,
\* a day's counter is bumped one by one and never beyond the cap.
Promise == INSTANCE QuotaPromise WITH Days <- Days, Cap <- Cap, count <- count
CapIsKept == Promise!Spec

\* A turn on a premium model, in a session that kept its model, belongs to a
\* session that has been charged, even when another message of the session is
\* refused, is still waiting for the counter, or was waiting for it when the
\* process restarted.
PremiumUseIsCharged ==
  \A s \in Sessions \ switched : spent[s] => charged[s] > 0

(* Promises of comments that the code does not keep (README, section 3).    *)

\* user_quotas.py:10-12 and the comment on claude_counted: a session consumes
\* one quota point.
ChargedOnce == \A s \in Sessions : charged[s] <= 1

\* routes/agent.py:931-933: an approval skips the gate because the session was
\* already charged on its first message, so the turn an approval continues on a
\* premium model is one of a charged session.
ApprovedIsCharged ==
  [][\A s \in Sessions : turn[s] = "approval" /\ turn'[s] = "queued"
                           /\ premium[s] => charged[s] > 0]_vars
=============================================================================
