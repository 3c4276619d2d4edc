---------------------------- MODULE AgentTurn_proofs ----------------------------
(***************************************************************************)
(* The agent loop for any number of calls, submissions and iterations: a      *)
(* call starts only when policy or the user allowed it, and only once; a      *)
(* turn ends with its terminal event; a request to the model answers each    *)
(* call once and behind the message that makes it; the types.                *)
(***************************************************************************)
EXTENDS AgentTurn, TLAPS, FiniteSetTheorems

Statuses == {"none", "held", "asked", "running", "finished", "stopped",
             "raised", "closed"}

\* The invariant that carries the approvals from the client through the queue:
\* a queued decision names only calls the user said yes to.  Without it
\* RunsOnlyAllowed says nothing about the calls exec_approval is about to start.
GateInv ==
  /\ status \in [Calls -> Statuses]
  /\ queue \in Seq(Submissions)
  /\ \A i \in 1 .. Len(queue) : queue[i].yes \subseteq allowed
  /\ RunsOnlyAllowed

gateVars == <<status, queue, allowed>>

\* A step that leaves the three variables alone keeps the gate.
LEMMA GateUntouched == GateInv /\ UNCHANGED gateVars => GateInv'
  BY DEF GateInv, gateVars, RunsOnlyAllowed, Started, Having

\* Changing the status of calls that may run, or to a status that is not a
\* start, keeps the gate, whatever is dequeued.
LEMMA GateStatus ==
  ASSUME GateInv, NEW S, NEW st \in Statuses,
         status' = With(S, st),
         \/ queue' = queue
         \/ queue # <<>> /\ queue' = Tail(queue),
         allowed' = allowed,
         S \subseteq allowed \/ st \in {"none", "held", "asked", "closed"}
  PROVE  GateInv'
<1>1. status' \in [Calls -> Statuses]
  BY DEF GateInv, With
<1>2. queue' \in Seq(Submissions)
      /\ \A i \in 1 .. Len(queue') : queue'[i].yes \subseteq allowed'
  BY DEF GateInv
<1>3. RunsOnlyAllowed'
  BY DEF GateInv, RunsOnlyAllowed, Started, Having, With
<1> QED
  BY <1>1, <1>2, <1>3 DEF GateInv

\* A submission taken off the queue, and nothing else of the gate.
LEMMA GateDequeue ==
  ASSUME GateInv, queue # <<>>, queue' = Tail(queue),
         UNCHANGED <<status, allowed>>
  PROVE  GateInv'
  BY DEF GateInv, RunsOnlyAllowed, Started, Having

---------------------------------------------------------------------------
(* One lemma per group of actions                                          *)

\* A client's request: a decision makes its calls allowed and is queued.
LEMMA GateSubmit ==
  ASSUME GateInv, NEW op \in Submissions, Submit(op)
  PROVE  GateInv'
<1>1. /\ queue' = Append(queue, op) /\ allowed' = allowed \cup op.yes
      /\ status' = status
  BY DEF Submit, callVars
<1>2. queue' \in Seq(Submissions)
      /\ \A i \in 1 .. Len(queue') : queue'[i].yes \subseteq allowed'
  BY <1>1 DEF GateInv
<1>3. RunsOnlyAllowed'
  BY <1>1 DEF GateInv, RunsOnlyAllowed, Started, Having
<1> QED
  BY <1>1, <1>2, <1>3 DEF GateInv

\* Submissions that start no tool.
LEMMA GateStart ==
  ASSUME GateInv,
         \/ UserInput \/ EmptyInput \/ Undo \/ NothingToApprove \/ CompactOp
  PROVE  GateInv'
<1>1. CASE UserInput
  <2>1. /\ queue # <<>> /\ queue' = Tail(queue) /\ allowed' = allowed
        /\ status' = With(pending, "closed")
    BY <1>1 DEF UserInput, Dequeue
  <2> QED
    BY <2>1, GateStatus DEF Statuses
<1>2. CASE EmptyInput \/ Undo \/ NothingToApprove \/ CompactOp
  <2>1. /\ queue # <<>> /\ queue' = Tail(queue) /\ allowed' = allowed
        /\ status' = status
    BY <1>2 DEF EmptyInput, Undo, NothingToApprove, CompactOp, Dequeue, callVars
  <2> QED
    BY <2>1, GateDequeue
<1> QED
  BY <1>1, <1>2

\* exec_approval starts calls of the decision it takes off the queue.
LEMMA GateApproval ==
  ASSUME GateInv, ExecApproval
  PROVE  GateInv'
<1> DEFINE yes == Head(queue).yes \cap pending
<1>1. /\ queue # <<>> /\ queue' = Tail(queue) /\ allowed' = allowed
      /\ Decide(yes)
  BY DEF ExecApproval, Dequeue
<1>2. yes \subseteq allowed
  <2>1. Len(queue) >= 1 /\ Head(queue) = queue[1]
    BY <1>1 DEF GateInv
  <2> QED
    BY <2>1 DEF GateInv
<1>3. CASE yes # {}
  <2>1. status' = With(yes, "running")
    BY <1>1, <1>3 DEF Decide
  <2> QED
    BY <1>1, <1>2, <2>1, GateStatus DEF Statuses
<1>4. CASE yes = {}
  <2>1. status' = With(pending, "closed")
    BY <1>1, <1>4 DEF Decide
  <2> QED
    BY <1>1, <2>1, GateStatus DEF Statuses
<1> QED
  BY <1>3, <1>4

\* The model's calls: those that run at once are allowed by policy.
LEMMA GateCalls ==
  ASSUME GateInv, NEW new \in NewCalls,
         NEW kind \in [new -> {"bad", "auto", "ask"}], LLMCalls(new, kind)
  PROVE  GateInv'
<1> DEFINE auto == {c \in new : kind[c] = "auto"}
           ask  == {c \in new : kind[c] = "ask"}
<1>1. queue' = queue
  BY DEF LLMCalls, clientVars
<1>2. CASE cancelled
  <2>1. status' = With(new, "closed") /\ allowed' = allowed
    BY <1>2 DEF LLMCalls
  <2> QED
    BY <1>1, <2>1, GateStatus DEF Statuses
<1>3. CASE ~cancelled
  <2>1. allowed' = allowed \cup auto
    BY <1>3 DEF LLMCalls
  <2>2. status' = [c \in Calls |->
                     CASE c \in auto -> "running"
                       [] c \in ask -> IF auto = {} THEN "asked" ELSE "held"
                       [] c \in new \ (auto \cup ask) -> "closed"
                       [] OTHER -> status[c]]
    BY <1>3 DEF LLMCalls
  <2>3. \A c \in Calls :
          \/ c \in auto /\ status'[c] = "running"
          \/ status'[c] \in {"asked", "held", "closed"}
          \/ status'[c] = status[c]
    BY <2>2
  <2>4. status' \in [Calls -> Statuses]
    BY <2>2 DEF GateInv, Statuses
  <2>5. RunsOnlyAllowed'
    BY <2>1, <2>3, <2>4 DEF GateInv, RunsOnlyAllowed, Started, Having
  <2> QED
    BY <1>1, <2>1, <2>4, <2>5 DEF GateInv
<1> QED
  BY <1>2, <1>3

\* A tool that returns, raises or stops was running before.
LEMMA GateTool ==
  ASSUME GateInv, NEW c \in Calls, ToolReturns(c) \/ ToolStops(c)
  PROVE  GateInv'
<1>1. PICK st \in {"finished", "raised", "stopped"} : ToolStep(c, st)
  BY DEF ToolReturns, ToolStops
<1>2. /\ status[c] = "running" /\ status' = With({c}, st)
      /\ queue' = queue /\ allowed' = allowed
  BY <1>1 DEF ToolStep, clientVars
<1>3. {c} \subseteq allowed
  BY <1>2 DEF GateInv, RunsOnlyAllowed, Started, Having
<1> QED
  BY <1>2, <1>3, GateStatus DEF Statuses

\* What ends a batch only closes calls or hands them to the user.
LEMMA GateBatchEnds ==
  ASSUME GateInv, CancelDone \/ ToolsFail \/ RecordResults \/ Resume
  PROVE  GateInv'
<1>1. queue' = queue /\ allowed' = allowed
  BY DEF CancelDone, ToolsFail, GiveUp, RecordResults, Resume, clientVars
<1>2. CASE CancelDone \/ ToolsFail
  <2>1. status' = With(Having("held") \cup rejected, "closed")
    BY <1>2 DEF CancelDone, ToolsFail, GiveUp
  <2> QED
    BY <1>1, <2>1, GateStatus DEF Statuses
<1>3. CASE RecordResults
  <2>1. status' = With(Having("held"), "asked")
    BY <1>3 DEF RecordResults
  <2> QED
    BY <1>1, <2>1, GateStatus DEF Statuses
<1>4. CASE Resume
  <2>1. status' = With(rejected, "closed")
    BY <1>4 DEF Resume
  <2> QED
    BY <1>1, <2>1, GateStatus DEF Statuses
<1> QED
  BY <1>2, <1>3, <1>4

\* Everything else leaves the gate alone.
LEMMA GateOthers ==
  ASSUME GateInv,
         \/ Interrupt \/ UploadStart \/ UploadEnd
         \/ \E i \in Users(items) : Truncate(i)
         \/ CompactEnd \/ SummaryFails \/ SummaryTimesOut \/ LoopTop \/ LLMText
         \/ LLMRetry \/ LLMOverflow
         \/ LLMError \/ CancelTools
         \/ UNCHANGED vars
  PROVE  GateInv'
<1>1. UNCHANGED gateVars
  BY DEF Interrupt, UploadStart, UploadEnd, Truncate, CompactEnd, SummaryOver,
         SummaryFails, SummaryTimesOut, LoopTop,
         LLMText, LLMRetry, LLMOverflow, LLMError, CancelTools, gateVars,
         callVars, clientVars, vars
<1> QED
  BY <1>1, GateUntouched

---------------------------------------------------------------------------
(* The theorems of the gate                                                *)

\* The gate invariant holds of the agent loop with any number of calls,
\* submissions, iterations and queued messages.
THEOREM GateInvariant == Spec => []GateInv
<1>1. Init => GateInv
  BY DEF Init, GateInv, Statuses, RunsOnlyAllowed, Started, Having
<1>2. GateInv /\ [Next]_vars => GateInv'
  <2> SUFFICES ASSUME GateInv, [Next]_vars PROVE GateInv'
    OBVIOUS
  <2>1. CASE \E op \in Submissions : Submit(op)
    BY <2>1, GateSubmit
  <2>2. CASE Serve
    <3>1. CASE \/ UserInput \/ EmptyInput \/ Undo \/ NothingToApprove
               \/ CompactOp
      BY <3>1, GateStart
    <3>2. CASE ExecApproval
      BY <3>2, GateApproval
    <3>3. CASE \E new \in NewCalls :
                 \E kind \in [new -> {"bad", "auto", "ask"}] :
                   LLMCalls(new, kind)
      BY <3>3, GateCalls
    <3>4. CASE CancelDone \/ ToolsFail \/ RecordResults \/ Resume
      BY <3>4, GateBatchEnds
    <3>5. CASE \/ CompactEnd \/ SummaryFails \/ SummaryTimesOut \/ LoopTop \/ LLMText
               \/ LLMRetry \/ LLMOverflow
               \/ LLMError \/ CancelTools
      BY <3>5, GateOthers
    <3> QED
      BY <2>2, <3>1, <3>2, <3>3, <3>4, <3>5 DEF Serve
  <2>3. CASE \E c \in Calls : ToolReturns(c) \/ ToolStops(c)
    BY <2>3, GateTool
  <2>4. CASE \/ Interrupt \/ UploadStart \/ UploadEnd
             \/ \E i \in Users(items) : Truncate(i)
             \/ UNCHANGED vars
    BY <2>4, GateOthers
  <2> QED
    BY <2>1, <2>2, <2>3, <2>4 DEF Next
<1> QED
  BY <1>1, <1>2, PTL DEF Spec

\* A tool that needs approval never starts without a decision of the user on
\* that call, whatever is interrupted, queued, undone or compacted.
THEOREM ApprovalGate == Spec => []RunsOnlyAllowed
<1>1. GateInv => RunsOnlyAllowed
  BY DEF GateInv
<1> QED
  BY <1>1, GateInvariant, PTL

---------------------------------------------------------------------------
(* Calls are started once                                                  *)

\* New calls are none that was used; calls that wait for the user, and those a
\* decision rejected, have not started and are answered in different places.
Numbered == \E k \in 0 .. MaxCalls : \A c \in Calls : status[c] = "none" <=> c > k
Approving == pc \in {"atools", "acancelling"}

CallsInv ==
  /\ status \in [Calls -> Statuses] /\ Numbered
  /\ pending \subseteq Having("asked") /\ rejected \subseteq Having("asked")
  /\ IF Approving THEN pending = {} ELSE rejected = {}
  /\ then \in {"none", "llm", "loop", "idle"}

Settled == {"finished", "stopped", "raised", "closed"}
OnceStep == \A c \in Calls : status[c] \in Settled => status'[c] = status[c]

\* What becomes of calls that have not started or run, and how the loop moves.
LEMMA CallsStatus ==
  ASSUME CallsInv, NEW S \in SUBSET Calls, NEW st \in Statuses \ {"none"},
         \A c \in S : status[c] \notin Settled \cup {"none"},
         status' = With(S, st),
         pending' \subseteq Having("asked")', rejected' \subseteq Having("asked")',
         IF Approving' THEN pending' = {} ELSE rejected' = {},
         then' \in {"none", "llm", "loop", "idle"}
  PROVE  CallsInv' /\ OnceStep
<1>1. /\ status' \in [Calls -> Statuses]
      /\ \A c \in Calls : status'[c] = IF c \in S THEN st ELSE status[c]
  BY DEF CallsInv, With
<1>2. Numbered'
  <2>1. \A c \in Calls : status'[c] = "none" <=> status[c] = "none"
    BY <1>1
  <2> QED BY <2>1 DEF CallsInv, Numbered
<1>3. OnceStep
  BY <1>1 DEF OnceStep
<1> QED BY <1>1, <1>2, <1>3 DEF CallsInv

\* A step that leaves the calls alone.
LEMMA CallsUntouched ==
  ASSUME CallsInv, UNCHANGED <<status, pending, rejected>>,
         Approving' <=> Approving,
         then' \in {"none", "llm", "loop", "idle"}
  PROVE  CallsInv' /\ OnceStep
BY DEF CallsInv, OnceStep, Numbered, Having

\* The numbers of new calls follow those that are used.
LEMMA NewCallsUnused ==
  ASSUME CallsInv, NEW new \in NewCalls
  PROVE  /\ new \subseteq Calls /\ \A c \in new : status[c] = "none"
         /\ \E k \in 0 .. MaxCalls : \A c \in Calls :
              (status[c] = "none" /\ c \notin new) <=> c > k
<1> USE TurnAssumption
<1>1. PICK k \in 0 .. MaxCalls : \A c \in Calls : status[c] = "none" <=> c > k
  BY DEF CallsInv, Numbered
<1>2. Calls \ Having("none") = 1 .. k
  BY <1>1 DEF Calls, Having
<1>3. Cardinality(1 .. k) = k
  BY <1>1, FS_Interval
<1>4. PICK n \in k + 1 .. MaxCalls : new = k + 1 .. n
  BY <1>2, <1>3 DEF NewCalls
<1>5. \A c \in Calls : (status[c] = "none" /\ c \notin new) <=> c > n
  BY <1>1, <1>4 DEF Calls
<1> QED BY <1>1, <1>4, <1>5 DEF Calls

\* A message closes the calls that wait for approval; others start no call.
LEMMA OnceStart ==
  ASSUME CallsInv,
         \/ UserInput \/ EmptyInput \/ Undo \/ NothingToApprove \/ CompactOp
  PROVE  CallsInv' /\ OnceStep
<1>1. CASE UserInput
  <2>1. /\ pc = "idle" /\ pc' = "loop" /\ then' = "none" /\ pending' = {}
        /\ status' = With(pending, "closed") /\ rejected' = rejected
    BY <1>1 DEF UserInput, Dequeue, StartRun
  <2>2. rejected = {} /\ pending \subseteq Having("asked")
    BY <2>1 DEF CallsInv, Approving
  <2>3. /\ pending \in SUBSET Calls /\ "closed" \in Statuses \ {"none"}
        /\ \A c \in pending : status[c] \notin Settled \cup {"none"}
    BY <2>2 DEF Having, Statuses, Settled
  <2> QED BY <2>1, <2>2, <2>3, CallsStatus DEF Approving
<1>2. CASE EmptyInput \/ Undo \/ NothingToApprove \/ CompactOp
  <2>1. /\ pc = "idle" /\ pc' \in {"idle", "loop", "compact"}
        /\ then' \in {"none", "llm", "loop", "idle"}
        /\ UNCHANGED <<status, pending, rejected>>
    BY <1>2 DEF EmptyInput, Undo, NothingToApprove, CompactOp, Dequeue, StartRun,
       Compact, Continue, CompactionFailed, callVars, loopVars, CallsInv
  <2> QED BY <2>1, CallsUntouched DEF Approving
<1> QED BY <1>1, <1>2

\* A decision starts calls that were asked for, or rejects them all.
LEMMA OnceApproval ==
  ASSUME CallsInv, ExecApproval
  PROVE  CallsInv' /\ OnceStep
<1> DEFINE yes == Head(queue).yes \cap pending
<1>1. /\ pc = "idle" /\ pending' = {} /\ Decide(yes)
  BY DEF ExecApproval, Dequeue
<1>2. /\ rejected = {} /\ pending \subseteq Having("asked")
      /\ \A c \in pending : c \in Calls /\ status[c] = "asked"
      /\ status \in [Calls -> Statuses]
  BY <1>1 DEF CallsInv, Approving, Having
<1> HIDE DEF yes
<1>3. yes \subseteq pending
  BY DEF yes
<1>4. CASE yes # {}
  <2>1. /\ status' = With(yes, "running") /\ rejected' = pending \ yes
        /\ pc' = "atools" /\ then' = then
    BY <1>1, <1>4 DEF Decide
  <2>2. rejected' \subseteq Having("asked")'
    BY <1>2, <2>1 DEF With, Having
  <2>3. /\ yes \in SUBSET Calls /\ "running" \in Statuses \ {"none"}
        /\ \A c \in yes : status[c] \notin Settled \cup {"none"}
    BY <1>2, <1>3 DEF Statuses, Settled
  <2> QED BY <1>1, <2>1, <2>2, <2>3, CallsStatus DEF Approving, CallsInv
<1>5. CASE yes = {}
  <2>1. /\ status' = With(pending, "closed") /\ rejected' = rejected
        /\ pc' = "loop" /\ then' = "none"
    BY <1>1, <1>5 DEF Decide, StartRun
  <2>2. /\ pending \in SUBSET Calls /\ "closed" \in Statuses \ {"none"}
        /\ \A c \in pending : status[c] \notin Settled \cup {"none"}
    BY <1>2 DEF Statuses, Settled
  <2> QED BY <1>1, <1>2, <2>1, <2>2, CallsStatus DEF Approving
<1> QED BY <1>4, <1>5

\* The model's calls take numbers that nobody has used.
LEMMA OnceCalls ==
  ASSUME CallsInv, NEW new \in NewCalls,
         NEW kind \in [new -> {"bad", "auto", "ask"}], LLMCalls(new, kind)
  PROVE  CallsInv' /\ OnceStep
<1> DEFINE auto == {c \in new : kind[c] = "auto"}
           ask  == {c \in new : kind[c] = "ask"}
<1>1. /\ pc = "llm" /\ rejected' = rejected /\ then' = then /\ rejected = {}
  BY DEF LLMCalls, CallsInv, Approving
<1>2. /\ new \subseteq Calls /\ \A c \in new : status[c] = "none"
      /\ \E k \in 0 .. MaxCalls : \A c \in Calls :
           (status[c] = "none" /\ c \notin new) <=> c > k
  BY NewCallsUnused
<1>3. /\ status' \in [Calls -> Statuses]
      /\ \A c \in Calls : IF c \in new THEN status'[c] # "none"
                                       ELSE status'[c] = status[c]
  <2>1. CASE cancelled
    <3>1. status' = With(new, "closed")
      BY <2>1 DEF LLMCalls
    <3> QED BY <3>1, <1>2 DEF With, CallsInv, Statuses
  <2>2. CASE ~cancelled
    <3>1. status' = [c \in Calls |->
                     CASE c \in auto -> "running"
                       [] c \in ask -> IF auto = {} THEN "asked" ELSE "held"
                       [] c \in new \ (auto \cup ask) -> "closed"
                       [] OTHER -> status[c]]
      BY <2>2 DEF LLMCalls
    <3> QED BY <3>1, <1>2 DEF CallsInv, Statuses
  <2> QED BY <2>1, <2>2
<1>4. Numbered'
  BY <1>2, <1>3 DEF Numbered
<1>5. OnceStep
  BY <1>2, <1>3 DEF OnceStep, Settled
<1>6. /\ pending' \subseteq Having("asked")'
      /\ pc' \in {"idle", "loop", "tools"}
  <2>1. pending \subseteq Having("asked")'
    BY <1>2, <1>3 DEF CallsInv, Having
  <2>2. CASE cancelled \/ auto # {}
    <3>1. pending' = pending /\ pc' \in {"idle", "tools"}
      BY <2>2 DEF LLMCalls, EndTurn
    <3> QED BY <2>1, <3>1
  <2>3. CASE ~cancelled /\ auto = {}
    <3>1. /\ pending' \in {pending, ask} /\ pc' \in {"idle", "loop"}
      BY <2>3 DEF LLMCalls, AskOrGoOn
    <3>2. status' = [c \in Calls |->
                     CASE c \in auto -> "running"
                       [] c \in ask -> IF auto = {} THEN "asked" ELSE "held"
                       [] c \in new \ (auto \cup ask) -> "closed"
                       [] OTHER -> status[c]]
      BY <2>3 DEF LLMCalls
    <3>3. ask \subseteq Having("asked")'
      BY <1>2, <2>3, <3>2 DEF Having
    <3> QED BY <2>1, <3>1, <3>3
  <2> QED BY <2>2, <2>3
<1> QED BY <1>1, <1>3, <1>4, <1>5, <1>6 DEF CallsInv, Approving

\* A tool leaves the state it runs in.
LEMMA OnceTool ==
  ASSUME CallsInv, NEW c \in Calls, ToolReturns(c) \/ ToolStops(c)
  PROVE  CallsInv' /\ OnceStep
<1>1. PICK st \in {"finished", "raised", "stopped"} : ToolStep(c, st)
  BY DEF ToolReturns, ToolStops
<1>2. /\ status[c] = "running" /\ status' = With({c}, st)
      /\ UNCHANGED <<pending, rejected, pc, then>>
  BY <1>1 DEF ToolStep, ctxVars, loopVars
<1>3. pending' \subseteq Having("asked")' /\ rejected' \subseteq Having("asked")'
  BY <1>2 DEF CallsInv, With, Having
<1>4. /\ {c} \in SUBSET Calls /\ st \in Statuses \ {"none"}
      /\ \A d \in {c} : status[d] \notin Settled \cup {"none"}
  BY <1>2 DEF Statuses, Settled
<1> QED BY <1>2, <1>3, <1>4, CallsStatus DEF CallsInv, Approving

\* The end of a batch closes calls that were held back or rejected.
LEMMA OnceBatchEnds ==
  ASSUME CallsInv, CancelDone \/ ToolsFail \/ RecordResults \/ Resume
  PROVE  CallsInv' /\ OnceStep
<1>1. CASE CancelDone \/ ToolsFail
  <2> DEFINE closes == Having("held") \cup rejected
  <2>1. /\ status' = With(closes, "closed") /\ rejected' = {}
        /\ pc' = "idle" /\ UNCHANGED <<pending, then>>
    BY <1>1 DEF CancelDone, ToolsFail, GiveUp, EndTurn, ctxVars
  <2>2. /\ closes \in SUBSET Calls /\ "closed" \in Statuses \ {"none"}
        /\ \A c \in closes : status[c] \in {"held", "asked"}
    BY DEF CallsInv, Having, Statuses
  <2>3. pending \cap closes = {}
    <3>1. pending = {} \/ rejected = {}
      BY DEF CallsInv
    <3> QED BY <3>1 DEF CallsInv, Having
  <2>4. pending' \subseteq Having("asked")'
    BY <2>1, <2>3 DEF CallsInv, Having, With
  <2>5. \A c \in closes : status[c] \notin Settled \cup {"none"}
    BY <2>2 DEF Settled
  <2> HIDE DEF closes
  <2> QED BY <2>1, <2>2, <2>4, <2>5, CallsStatus DEF CallsInv, Approving
<1>2. CASE RecordResults
  <2>1. /\ status' = With(Having("held"), "asked") /\ pc = "tools"
        /\ rejected' = rejected /\ then' = then
        /\ pending' \in {pending, Having("held")} /\ pc' \in {"idle", "loop"}
    BY <1>2 DEF RecordResults, AskOrGoOn
  <2>2. rejected = {}
    BY <2>1 DEF CallsInv, Approving
  <2>3. pending' \subseteq Having("asked")'
    BY <2>1 DEF CallsInv, Having, With
  <2>4. /\ Having("held") \in SUBSET Calls /\ "asked" \in Statuses \ {"none"}
        /\ \A c \in Having("held") : status[c] \notin Settled \cup {"none"}
    BY DEF Having, Statuses, Settled
  <2> QED BY <2>1, <2>2, <2>3, <2>4, CallsStatus DEF CallsInv, Approving
<1>3. CASE Resume
  <2>1. /\ status' = With(rejected, "closed") /\ rejected' = {} /\ pc = "atools"
        /\ pending' = pending /\ pc' = "loop" /\ then' = "none"
    BY <1>3 DEF Resume, StartRun
  <2>2. pending = {}
    BY <2>1 DEF CallsInv, Approving
  <2>3. /\ rejected \in SUBSET Calls /\ "closed" \in Statuses \ {"none"}
        /\ \A c \in rejected : status[c] \notin Settled \cup {"none"}
    BY DEF CallsInv, Having, Statuses, Settled
  <2> QED BY <2>1, <2>2, <2>3, CallsStatus DEF Approving
<1> QED BY <1>1, <1>2, <1>3

\* The rest moves the loop only.
LEMMA OnceOthers ==
  ASSUME CallsInv,
         \/ \E op \in Submissions : Submit(op)
         \/ Interrupt \/ UploadStart \/ UploadEnd
         \/ \E i \in Users(items) : Truncate(i)
         \/ CompactEnd \/ SummaryFails \/ SummaryTimesOut \/ LoopTop \/ LLMText
         \/ LLMRetry \/ LLMOverflow
         \/ LLMError \/ CancelTools
         \/ UNCHANGED vars
  PROVE  CallsInv' /\ OnceStep
<1>1. UNCHANGED <<status, pending, rejected>>
  BY DEF Submit, Interrupt, UploadStart, UploadEnd, Truncate, CompactEnd, SummaryOver,
         SummaryFails, SummaryTimesOut, LoopTop,
         LLMText, LLMRetry, LLMOverflow, LLMError, CancelTools, callVars, vars
<1>2. then' \in {"none", "llm", "loop", "idle"} /\ (Approving' <=> Approving)
  <2>1. CASE \/ \E op \in Submissions : Submit(op)
             \/ Interrupt \/ UploadStart \/ UploadEnd
             \/ \E i \in Users(items) : Truncate(i)
             \/ UNCHANGED vars
    BY <2>1 DEF Submit, Interrupt, UploadStart, UploadEnd, Truncate, vars, ctxVars,
                loopVars, CallsInv, Approving
  <2>2. CASE CompactEnd \/ SummaryFails \/ SummaryTimesOut \/ LoopTop \/ LLMOverflow
    BY <2>2 DEF CompactEnd, SummaryOver, SummaryFails, SummaryTimesOut, LoopTop,
         LLMOverflow, Compact, Continue, CompactionFailed,
                EndTurn, CallsInv, Approving
  <2>3. CASE LLMText \/ LLMRetry \/ LLMError \/ CancelTools
    BY <2>3 DEF LLMText, LLMRetry, LLMError, CancelTools, EndTurn, ctxVars, CallsInv,
                Approving
  <2> QED BY <2>1, <2>2, <2>3
<1> QED BY <1>1, <1>2, CallsUntouched

\* Every step keeps the invariant and restarts no call.
LEMMA CallsStep == CallsInv /\ [Next]_vars => CallsInv' /\ OnceStep
<1> SUFFICES ASSUME CallsInv, [Next]_vars PROVE CallsInv' /\ OnceStep
  OBVIOUS
<1>1. CASE Serve
  <2>1. CASE UserInput \/ EmptyInput \/ Undo \/ NothingToApprove \/ CompactOp
    BY <2>1, OnceStart
  <2>2. CASE ExecApproval
    BY <2>2, OnceApproval
  <2>3. CASE \E new \in NewCalls : \E kind \in [new -> {"bad", "auto", "ask"}] :
               LLMCalls(new, kind)
    BY <2>3, OnceCalls
  <2>4. CASE CancelDone \/ ToolsFail \/ RecordResults \/ Resume
    BY <2>4, OnceBatchEnds
  <2>5. CASE \/ CompactEnd \/ SummaryFails \/ SummaryTimesOut \/ LoopTop \/ LLMText
             \/ LLMRetry \/ LLMOverflow
             \/ LLMError \/ CancelTools
    BY <2>5, OnceOthers
  <2> QED BY <1>1, <2>1, <2>2, <2>3, <2>4, <2>5 DEF Serve
<1>2. CASE \E c \in Calls : ToolReturns(c) \/ ToolStops(c)
  BY <1>2, OnceTool
<1>3. CASE \/ \E op \in Submissions : Submit(op)
           \/ Interrupt \/ UploadStart \/ UploadEnd
           \/ \E i \in Users(items) : Truncate(i)
           \/ UNCHANGED vars
  BY <1>3, OnceOthers
<1> QED BY <1>1, <1>2, <1>3 DEF Next

---------------------------------------------------------------------------
(* A turn ends with its terminal event                                     *)

\* No terminal event has been sent while a turn is served; the compaction that
\* the user asked for belongs to no turn.
EndsInv ==
  /\ then = "idle" => pc = "compact"
  /\ pc # "idle" /\ then # "idle" => ended = 0

EndsStep ==
  pc # "idle" /\ pc' = "idle" /\ then # "idle" =>
    ended' = 1 \/ (ended' = 2 /\ cancelled) \/ SummaryTimesOut

\* How turns begin, go on and end.
LEMMA EndsStarts ==
  ASSUME EndsInv,
         \/ UserInput \/ EmptyInput \/ Undo \/ NothingToApprove \/ ExecApproval
         \/ CompactOp
  PROVE  EndsInv' /\ EndsStep
<1>1. pc = "idle" /\ then # "idle"
  BY DEF EndsInv, UserInput, EmptyInput, Undo, NothingToApprove, ExecApproval, CompactOp,
         Dequeue
<1>2. EndsInv'
  BY <1>1 DEF EndsInv, UserInput, EmptyInput, Undo, NothingToApprove, ExecApproval,
     CompactOp, Decide, StartRun, Compact, Continue, CompactionFailed, loopVars
<1> QED BY <1>1, <1>2 DEF EndsStep

\* Each way out of a turn sends its event.
LEMMA EndsServes ==
  ASSUME EndsInv,
         \/ CompactEnd \/ SummaryFails \/ SummaryTimesOut \/ LoopTop \/ LLMText
         \/ LLMRetry \/ LLMOverflow \/ LLMError
         \/ \E new \in NewCalls : \E kind \in [new -> {"bad", "auto", "ask"}] :
              LLMCalls(new, kind)
         \/ CancelTools \/ CancelDone \/ ToolsFail \/ RecordResults \/ Resume
  PROVE  EndsInv' /\ EndsStep
<1>1. CASE CompactEnd \/ SummaryFails \/ SummaryTimesOut
  BY <1>1 DEF CompactEnd, SummaryOver, SummaryFails, SummaryTimesOut, Continue,
     CompactionFailed, EndTurn, EndsInv, EndsStep
<1>2. CASE LoopTop \/ LLMOverflow
  BY <1>2 DEF LoopTop, LLMOverflow, Compact, Continue, CompactionFailed, EndTurn, EndsInv,
     EndsStep
<1>3. CASE LLMText \/ LLMRetry \/ LLMError \/ CancelTools
  BY <1>3 DEF LLMText, LLMRetry, LLMError, CancelTools, EndTurn, ctxVars, EndsInv, EndsStep
<1>4. CASE \E new \in NewCalls : \E kind \in [new -> {"bad", "auto", "ask"}] :
             LLMCalls(new, kind)
  <2>1. /\ pc = "llm" /\ then' = then
        /\ EndTurn(0) \/ AskOrGoOn(pending') \/ (pc' = "tools" /\ ended' = ended)
                      \/ (pc' = "loop" /\ ended' = ended)
    BY <1>4 DEF LLMCalls, AskOrGoOn
  <2> QED BY <2>1 DEF AskOrGoOn, EndTurn, EndsInv, EndsStep
<1>5. CASE CancelDone \/ ToolsFail \/ RecordResults \/ Resume
  BY <1>5 DEF CancelDone, ToolsFail, RecordResults, Resume, GiveUp, AskOrGoOn, EndTurn,
     StartRun, ctxVars, EndsInv, EndsStep
<1> QED BY <1>1, <1>2, <1>3, <1>4, <1>5

\* Requests and tools leave the loop alone.
LEMMA EndsOthers ==
  ASSUME EndsInv,
         \/ \E op \in Submissions : Submit(op)
         \/ Interrupt \/ UploadStart \/ UploadEnd
         \/ \E i \in Users(items) : Truncate(i)
         \/ \E c \in Calls : ToolReturns(c) \/ ToolStops(c)
         \/ UNCHANGED vars
  PROVE  EndsInv' /\ EndsStep
<1>1. UNCHANGED <<pc, then, ended>>
  BY DEF Submit, Interrupt, UploadStart, UploadEnd, Truncate, ToolReturns, ToolStops,
         ToolStep, vars, ctxVars, loopVars
<1> QED BY <1>1 DEF EndsInv, EndsStep

\* Every step keeps the invariant and ends turns as promised.
LEMMA EndsKept == EndsInv /\ [Next]_vars => EndsInv' /\ EndsStep
<1> SUFFICES ASSUME EndsInv, [Next]_vars PROVE EndsInv' /\ EndsStep
  OBVIOUS
<1>1. CASE Serve
  BY <1>1, EndsStarts, EndsServes DEF Serve
<1>2. CASE ~Serve
  BY <1>2, EndsOthers DEF Next
<1> QED BY <1>1, <1>2

---------------------------------------------------------------------------
(* The theorems of calls and turns                                         *)

\* The invariant of the calls: new ones take unused numbers, and those that wait
\* for the user or were rejected have not started, for any number of them.
THEOREM CallsInvariant == Spec => []CallsInv
<1>1. Init => CallsInv
  <2> SUFFICES ASSUME Init PROVE CallsInv
    OBVIOUS
  <2>1. 0 \in 0 .. MaxCalls /\ \A c \in Calls : status[c] = "none" /\ c > 0
    BY TurnAssumption DEF Init, Calls
  <2>2. Numbered
    BY <2>1 DEF Numbered
  <2> QED BY <2>2 DEF Init, CallsInv, Statuses, Approving
<1> QED BY <1>1, CallsStep, PTL DEF Spec

\* Batches, decisions sent twice, interrupts and tools that raise: a call that
\* has started is never started again by the agent loop.
THEOREM StartsOnce == Spec => RunsOnce
<1>1. CallsInv /\ [Next]_vars =>
        [\A c \in Calls : status[c] \in {"finished", "stopped", "raised", "closed"}
                            => status'[c] = status[c]]_vars
  BY CallsStep DEF OnceStep, Settled
<1> QED BY <1>1, CallsInvariant, PTL DEF Spec, RunsOnce

\* While a turn is served no terminal event has been sent for it.
THEOREM EndsInvariant == Spec => []EndsInv
<1>1. Init => EndsInv
  BY DEF Init, EndsInv
<1> QED BY <1>1, EndsKept, PTL DEF Spec

\* However a turn of run_agent ends, its streams get one terminal event, and two
\* only when it was interrupted; none only when a compaction's call of the model
\* raises a TimeoutError.
THEOREM EachTurnEnds == Spec => EndsOnce
<1>1. EndsInv /\ [Next]_vars =>
        [pc # "idle" /\ pc' = "idle" /\ then # "idle" =>
           ended' = 1 \/ (ended' = 2 /\ cancelled) \/ SummaryTimesOut]_vars
  BY EndsKept DEF EndsStep
<1> QED BY <1>1, EndsInvariant, PTL DEF Spec, EndsOnce

---------------------------------------------------------------------------
(* Ranks.  The members of a finite set that is ordered have ranks: how many   *)
(* come up to them.  D gives for each member those up to it.                  *)
Ordered(S, D) ==
  /\ IsFiniteSet(S) /\ D \in [S -> SUBSET S]
  /\ \A s \in S : s \in D[s]
  /\ \A s, t \in S : D[s] \subseteq D[t] \/ D[t] \subseteq D[s]
  /\ \A s, t \in S : s \in D[t] /\ t \in D[s] => s = t

\* Who comes later has the higher rank.
LEMMA RankGrows ==
  ASSUME NEW S, NEW D, Ordered(S, D), NEW s \in S, NEW t \in S, t \notin D[s]
  PROVE  Cardinality(D[s]) < Cardinality(D[t])
<1> DEFINE low == D[s]
           high == D[t]
<1>1. /\ low \subseteq S /\ high \subseteq S /\ IsFiniteSet(S) /\ t \in high
      /\ low \subseteq high /\ t \notin low
  BY DEF Ordered
<1> HIDE DEF low, high
<1>2. IsFiniteSet(low) /\ IsFiniteSet(high)
  BY <1>1, FS_Subset
<1>3. /\ low \subseteq high \ {t} /\ IsFiniteSet(high \ {t})
      /\ Cardinality(high \ {t}) = Cardinality(high) - 1
  BY <1>1, <1>2, FS_RemoveElement
<1>4. /\ Cardinality(low) <= Cardinality(high \ {t})
      /\ Cardinality(low) \in Nat /\ Cardinality(high) \in Nat
  BY <1>2, <1>3, FS_Subset, FS_CardinalityType
<1>5. Cardinality(low) < Cardinality(high)
  BY <1>3, <1>4
<1> QED BY <1>5 DEF low, high

LEMMA RankRange ==
  ASSUME NEW S, NEW D, Ordered(S, D)
  PROVE  /\ Cardinality(S) \in Nat
         /\ \A s \in S : Cardinality(D[s]) \in 1 .. Cardinality(S)
<1>1. IsFiniteSet(S) /\ Cardinality(S) \in Nat
  BY FS_CardinalityType DEF Ordered
<1> SUFFICES ASSUME NEW s \in S PROVE Cardinality(D[s]) \in 1 .. Cardinality(S)
  BY <1>1
<1> DEFINE low == D[s]
<1>2. low \subseteq S /\ s \in low
  BY DEF Ordered
<1> HIDE DEF low
<1>3. /\ IsFiniteSet(low) /\ Cardinality(low) \in Nat
      /\ Cardinality(low) <= Cardinality(S)
  BY <1>1, <1>2, FS_Subset, FS_CardinalityType
<1>4. Cardinality(low) # 0
  BY <1>2, <1>3, FS_EmptySet
<1>5. Cardinality(low) \in 1 .. Cardinality(S)
  BY <1>1, <1>3, <1>4
<1> QED BY <1>5 DEF low

LEMMA RankOrder ==
  ASSUME NEW S, NEW D, Ordered(S, D), NEW s \in S, NEW t \in S
  PROVE  /\ Cardinality(D[s]) <= Cardinality(D[t]) <=> s \in D[t]
         /\ Cardinality(D[s]) = Cardinality(D[t]) => s = t
<1>1. Cardinality(D[s]) \in Nat /\ Cardinality(D[t]) \in Nat
  BY RankRange
<1>2. ASSUME s \in D[t], s # t PROVE Cardinality(D[s]) < Cardinality(D[t])
  <2>1. t \notin D[s]
    BY <1>2 DEF Ordered
  <2> QED BY <2>1, RankGrows
<1>3. ASSUME s \notin D[t] PROVE Cardinality(D[t]) < Cardinality(D[s])
  BY <1>3, RankGrows
<1>4. s = t => s \in D[t]
  BY DEF Ordered
<1> QED BY <1>1, <1>2, <1>3, <1>4

\* Cardinalities of intervals.
LEMMA IntervalSize == ASSUME NEW n \in Nat PROVE IsFiniteSet(1 .. n) /\ Cardinality(1 .. n) = n
<1>1. 1 \in Int /\ n \in Int
  OBVIOUS
<1>2. IsFiniteSet(1 .. n) /\ Cardinality(1 .. n) = IF 1 > n THEN 0 ELSE n - 1 + 1
  BY <1>1, FS_Interval
<1> QED BY <1>2

\* Every rank is some member's: there are as many ranks as members.
LEMMA RankExists ==
  ASSUME NEW S, NEW D, Ordered(S, D)
  PROVE  \A n \in 1 .. Cardinality(S) : \E s \in S : Cardinality(D[s]) = n
<1> SUFFICES ASSUME NEW n \in 1 .. Cardinality(S), \A s \in S : Cardinality(D[s]) # n
             PROVE  FALSE
  OBVIOUS
<1> DEFINE c == Cardinality(S)
           T == (1 .. c) \ {n}
           f == [s \in S |-> Cardinality(D[s])]
<1>1. IsFiniteSet(S) /\ c \in Nat
  BY FS_CardinalityType DEF Ordered
<1>2. IsFiniteSet(T) /\ Cardinality(T) = c - 1
  <2>1. n \in 1 .. c
    OBVIOUS
  <2> HIDE DEF c
  <2>2. IsFiniteSet(1 .. c) /\ Cardinality(1 .. c) = c
    BY <1>1, IntervalSize
  <2> QED BY <2>1, <2>2, FS_RemoveElement
<1>3. f \in [S -> T]
  BY RankRange
<1>4. Cardinality(T) < Cardinality(S)
  BY <1>1, <1>2
<1> HIDE DEF f, T
<1>5. PICK s, t \in S : s # t /\ f[s] = f[t]
  BY <1>1, <1>2, <1>3, <1>4, FS_PigeonHole
<1>6. Cardinality(D[s]) = Cardinality(D[t])
  BY <1>5 DEF f
<1> QED BY <1>5, <1>6, RankOrder

\* There is a first and a last member.
LEMMA RankEnds ==
  ASSUME NEW S, NEW D, Ordered(S, D), S # {}
  PROVE  /\ \E s \in S : \A t \in S : t \in D[s]
         /\ \E s \in S : \A t \in S : s \in D[t]
<1>1. IsFiniteSet(S) /\ Cardinality(S) \in Nat /\ Cardinality(S) # 0
  <2>1. IsFiniteSet(S)
    BY DEF Ordered
  <2> QED BY <2>1, FS_CardinalityType, FS_EmptySet
<1>2. \A n \in 1 .. Cardinality(S) : \E s \in S : Cardinality(D[s]) = n
  BY RankExists
<1>3. \A s \in S : Cardinality(D[s]) \in 1 .. Cardinality(S)
  BY RankRange
<1>4. \A s, t \in S : Cardinality(D[s]) <= Cardinality(D[t]) => s \in D[t]
  BY RankOrder
<1>5. PICK low \in S : Cardinality(D[low]) = 1
  <2>1. 1 \in 1 .. Cardinality(S)
    BY <1>1
  <2> QED BY <1>2, <2>1
<1>6. PICK high \in S : Cardinality(D[high]) = Cardinality(S)
  <2>1. Cardinality(S) \in 1 .. Cardinality(S)
    BY <1>1
  <2> QED BY <1>2, <2>1
<1>7. \A t \in S : t \in D[high]
  BY <1>3, <1>4, <1>6
<1>8. \A t \in S : low \in D[t]
  BY <1>3, <1>4, <1>5
<1> QED BY <1>7, <1>8

\* A finite set of numbers is ordered, so it has a least and a greatest member.
Below(S) == [s \in S |-> {t \in S : t <= s}]

LEMMA NumbersOrdered ==
  ASSUME NEW S, S \subseteq Nat, IsFiniteSet(S)
  PROVE  Ordered(S, Below(S))
<1>1. \A s \in S : s \in Nat /\ Below(S)[s] = {t \in S : t <= s}
  BY DEF Below
<1>2. Below(S) \in [S -> SUBSET S]
  BY DEF Below
<1>3. ASSUME NEW s \in S, NEW t \in S
      PROVE  Below(S)[s] \subseteq Below(S)[t] \/ Below(S)[t] \subseteq Below(S)[s]
  <2>1. s \in Nat /\ t \in Nat /\ \A r \in S : r \in Nat
    OBVIOUS
  <2>2. \A r \in S : s <= t /\ r <= s => r <= t
    BY <2>1
  <2>3. \A r \in S : t <= s /\ r <= t => r <= s
    BY <2>1
  <2>4. CASE s <= t
    <3>1. \A r \in Below(S)[s] : r \in Below(S)[t]
      BY <1>1, <2>2, <2>4
    <3> QED BY <3>1
  <2>5. CASE t <= s
    <3>1. \A r \in Below(S)[t] : r \in Below(S)[s]
      BY <1>1, <2>3, <2>5
    <3> QED BY <3>1
  <2> QED BY <2>1, <2>4, <2>5
<1>4. ASSUME NEW s \in S, NEW t \in S, s \in Below(S)[t], t \in Below(S)[s] PROVE s = t
  <2>1. s \in Nat /\ t \in Nat /\ s <= t /\ t <= s
    BY <1>1, <1>4
  <2> QED BY <2>1
<1>5. \A s \in S : s \in Below(S)[s]
  BY <1>1
<1> QED BY <1>2, <1>3, <1>4, <1>5 DEF Ordered

LEMMA Bounded ==
  ASSUME NEW n \in Nat, NEW S, S \subseteq 0 .. n
  PROVE  S \subseteq Nat /\ IsFiniteSet(S)
<1>1. IsFiniteSet(1 .. n)
  BY IntervalSize
<1> DEFINE T == (1 .. n) \cup {0}
<1>2. IsFiniteSet(T)
  BY <1>1, FS_AddElement
<1>3. S \subseteq T
  OBVIOUS
<1> HIDE DEF T
<1>4. IsFiniteSet(S)
  BY <1>2, <1>3, FS_Subset
<1> QED BY <1>4

LEMMA MaxIs ==
  ASSUME NEW top \in Nat, NEW S, S \subseteq 0 .. top, S # {}
  PROVE  Max(S) \in S /\ \A y \in S : y <= Max(S)
<1>1. S \subseteq Nat /\ Ordered(S, Below(S))
  BY Bounded, NumbersOrdered
<1>2. \E x \in S : \A y \in S : y \in Below(S)[x]
  BY <1>1, RankEnds
<1>3. \E x \in S : \A y \in S : x >= y
  BY <1>1, <1>2 DEF Below
<1> QED BY <1>1, <1>3 DEF Max

LEMMA MinIs ==
  ASSUME NEW top \in Nat, NEW S, S \subseteq 0 .. top, S # {}
  PROVE  Min(S) \in S /\ \A y \in S : Min(S) <= y
<1>1. S \subseteq Nat /\ Ordered(S, Below(S))
  BY Bounded, NumbersOrdered
<1>2. \E x \in S : \A y \in S : x \in Below(S)[y]
  BY <1>1, RankEnds
<1>3. \E x \in S : \A y \in S : x <= y
  BY <1>1, <1>2 DEF Below
<1> QED BY <1>3 DEF Min

---------------------------------------------------------------------------
(* Contexts.  Tool messages form runs behind the message that makes their     *)
(* calls.                                                                     *)
Run(h, k, l) == \A j \in k .. l : h[j].role = "tool"
Follows(h, k, i) == i \in 1 .. k /\ h[i].role # "tool" /\ Run(h, i + 1, k)

\* Each tool message answers one call of the message that its run follows, no two of a
\* run answer the same, and users make no calls.
Answers(h) ==
  \A k \in 1 .. Len(h) : h[k].role = "tool" =>
    \E i \in 1 .. k : Follows(h, k, i) /\ \E c \in h[i].calls : h[k].calls = {c}
Once(h) == \A k, l \in 1 .. Len(h) : k < l /\ Run(h, k, l) => h[k].calls # h[l].calls
UsersOnlyTalk(h) == \A k \in 1 .. Len(h) : h[k].role = "user" => h[k].calls = {}
Sound(h) == h \in Seq(Messages) /\ Answers(h) /\ Once(h) /\ UsersOnlyTalk(h)

\* Every call is answered in the run behind it.
Complete(h) ==
  \A i \in 1 .. Len(h) : h[i].role = "assistant" =>
    \A c \in h[i].calls : \E k \in i + 1 .. Len(h) : Run(h, i + 1, k) /\ h[k].calls = {c}

\* The results of the calls S, none of which has one, may be appended.
Awaits(h, S) ==
  S # {} => \E a \in 1 .. Len(h) :
    /\ h[a].role # "tool" /\ Run(h, a + 1, Len(h)) /\ S \subseteq h[a].calls
    /\ \A j \in a + 1 .. Len(h) : h[j].calls \cap S = {}

Fits(h, S) == Sound(h) /\ Awaits(h, S)

\* What concatenation and a part of a sequence are.
LEMMA Joined ==
  ASSUME NEW S, NEW h \in Seq(S), NEW g \in Seq(S)
  PROVE  /\ h \o g \in Seq(S) /\ Len(h \o g) = Len(h) + Len(g)
         /\ Len(h) \in Nat /\ Len(g) \in Nat
         /\ \A k \in 1 .. Len(h) : (h \o g)[k] = h[k]
         /\ \A k \in Len(h) + 1 .. Len(h) + Len(g) : (h \o g)[k] = g[k - Len(h)]
OBVIOUS

LEMMA Cut ==
  ASSUME NEW S, NEW h \in Seq(S), NEW p \in Int, NEW q \in Int,
         1 <= p, p <= q + 1, q <= Len(h)
  PROVE  /\ SubSeq(h, p, q) \in Seq(S) /\ Len(SubSeq(h, p, q)) = q - p + 1
         /\ Len(h) \in Nat
         /\ \A k \in 1 .. q - p + 1 : SubSeq(h, p, q)[k] = h[p + k - 1]
OBVIOUS

\* The owner of a position is the message that its run follows.
LEMMA OwnerIs ==
  ASSUME NEW h \in Seq(Messages), NEW k \in 1 .. Len(h)
  PROVE  \A i \in Nat : Follows(h, k, i) <=> i # 0 /\ Owner(h, k) = i
<1> DEFINE T == {0} \cup {j \in 1 .. k : h[j].role # "tool"}
<1>1. k \in Nat /\ T \subseteq 0 .. k /\ T # {}
  OBVIOUS
<1>2. Max(T) \in T /\ \A y \in T : y <= Max(T)
  BY <1>1, MaxIs
<1>3. Owner(h, k) = Max(T)
  BY DEF Owner
<1> SUFFICES ASSUME NEW i \in Nat PROVE Follows(h, k, i) <=> i # 0 /\ Max(T) = i
  BY <1>3
<1>4. ASSUME Follows(h, k, i) PROVE i # 0 /\ Max(T) = i
  <2>1. i \in T /\ i \in 1 .. k /\ \A j \in i + 1 .. k : h[j].role = "tool"
    BY <1>4 DEF Follows, Run
  <2>2. \A j \in T : j <= i
    BY <2>1
  <2>3. Max(T) \in Nat /\ i <= Max(T) /\ Max(T) <= i /\ i # 0
    BY <1>1, <1>2, <2>1, <2>2
  <2> QED BY <2>3
<1>5. ASSUME i # 0, Max(T) = i PROVE Follows(h, k, i)
  <2>1. i \in T /\ \A j \in T : j <= i
    BY <1>2, <1>5
  <2>2. i \in 1 .. k /\ h[i].role # "tool"
    BY <1>5, <2>1
  <2>3. \A j \in i + 1 .. k : h[j].role = "tool"
    BY <2>1, <2>2
  <2> QED BY <2>2, <2>3 DEF Follows, Run
<1> QED BY <1>4, <1>5

\* What the provider accepts: sound and complete contexts are paired.
LEMMA PairedIs ==
  ASSUME NEW h, Sound(h), Complete(h)
  PROVE  Paired(h)
<1>1. h \in Seq(Messages) /\ DOMAIN h = 1 .. Len(h) /\ Len(h) \in Nat
  BY DEF Sound
<1>2. ASSUME NEW k \in DOMAIN h, h[k].role = "tool"
      PROVE  Owner(h, k) # 0 /\ h[k].calls \subseteq h[Owner(h, k)].calls
  <2>1. PICK i \in 1 .. k : Follows(h, k, i) /\ \E c \in h[i].calls : h[k].calls = {c}
    BY <1>1, <1>2 DEF Sound, Answers
  <2>2. i \in Nat /\ k \in 1 .. Len(h)
    BY <1>1
  <2>3. Owner(h, k) = i /\ i # 0
    BY <1>1, <2>1, <2>2, OwnerIs
  <2> QED BY <2>1, <2>3
<1>3. ASSUME NEW i \in DOMAIN h, h[i].role = "assistant", NEW c \in h[i].calls
      PROVE  Cardinality({k \in Block(h, i) : h[k].calls = {c}}) = 1
  <2>1. PICK k \in i + 1 .. Len(h) : Run(h, i + 1, k) /\ h[k].calls = {c}
    BY <1>1, <1>3 DEF Complete
  <2>2. i \in 1 .. Len(h) /\ k \in 1 .. Len(h) /\ i \in Nat /\ i # 0 /\ i < k
    BY <1>1, <2>1
  <2>3. Follows(h, k, i)
    BY <1>3, <2>1, <2>2 DEF Follows
  <2>4. k \in Block(h, i)
    BY <1>1, <2>2, <2>3, OwnerIs DEF Block
  <2>5. ASSUME NEW l \in Block(h, i), h[l].calls = {c} PROVE l = k
    <3>1. l \in 1 .. Len(h) /\ Owner(h, l) = i
      BY <1>1 DEF Block
    <3>2. Follows(h, l, i)
      BY <1>1, <2>2, <3>1, OwnerIs
    <3>3. Run(h, i + 1, l) /\ l > i
      <4>1. l > i
        BY <1>1, <2>2 DEF Block
      <4> QED BY <3>2, <4>1 DEF Follows
    <3>4. \A x \in k .. l : x \in i + 1 .. l
      BY <2>2, <3>1
    <3>5. \A x \in l .. k : x \in i + 1 .. k
      BY <2>2, <3>1, <3>3
    <3>6. Run(h, k, l) /\ Run(h, l, k)
      BY <2>1, <3>3, <3>4, <3>5 DEF Run
    <3>7. CASE k < l
      BY <2>1, <2>2, <2>5, <3>1, <3>6, <3>7 DEF Sound, Once
    <3>8. CASE l < k
      BY <2>1, <2>2, <2>5, <3>1, <3>6, <3>8 DEF Sound, Once
    <3> QED BY <2>2, <3>1, <3>7, <3>8
  <2>6. {l \in Block(h, i) : h[l].calls = {c}} = {k}
    BY <2>1, <2>4, <2>5
  <2> QED BY <2>6, FS_Singleton
<1> QED BY <1>2, <1>3 DEF Paired

\* The first message is no result.
LEMMA SoundBegins ==
  ASSUME NEW h, Sound(h), Len(h) > 0
  PROVE  h[1].role # "tool"
<1>1. Answers(h) /\ 1 \in 1 .. Len(h)
  BY DEF Sound
<1>2. ASSUME h[1].role = "tool" PROVE FALSE
  <2>1. PICK i \in 1 .. 1 : Follows(h, 1, i)
    BY <1>1, <1>2 DEF Answers
  <2> QED BY <1>2, <2>1 DEF Follows
<1> QED BY <1>2

\* A sound context may follow another one.
LEMMA SoundJoined ==
  ASSUME NEW h, NEW g, Sound(h), Sound(g)
  PROVE  Sound(h \o g)
<1> DEFINE f == h \o g
           m == Len(h)
           n == Len(g)
<1>1. h \in Seq(Messages) /\ g \in Seq(Messages)
  BY DEF Sound
<1>2. /\ f \in Seq(Messages) /\ Len(f) = m + n /\ m \in Nat /\ n \in Nat
      /\ \A k \in 1 .. m : f[k] = h[k]
      /\ \A k \in m + 1 .. m + n : f[k] = g[k - m]
      /\ m = Len(h) /\ n = Len(g)
  BY <1>1, Joined
<1> HIDE DEF f, m, n
<1>3. n > 0 => f[m + 1].role # "tool"
  <2>1. ASSUME n > 0 PROVE g[1].role # "tool"
    BY <1>2, <2>1, SoundBegins
  <2> QED BY <1>2, <2>1
<1>4. ASSUME NEW k \in 1 .. Len(f), f[k].role = "tool"
      PROVE  \E i \in 1 .. k : Follows(f, k, i) /\ \E c \in f[i].calls : f[k].calls = {c}
  <2>1. CASE k <= m
    <3>1. PICK i \in 1 .. k : Follows(h, k, i) /\ \E c \in h[i].calls : h[k].calls = {c}
      <4>1. Answers(h) /\ k \in 1 .. Len(h) /\ h[k].role = "tool"
        BY <1>2, <1>4, <2>1 DEF Sound
      <4> QED BY <4>1 DEF Answers
    <3>2. \A j \in 1 .. k : f[j] = h[j]
      BY <1>2, <2>1
    <3>3. Follows(f, k, i)
      BY <1>2, <3>1, <3>2 DEF Follows, Run
    <3> QED BY <3>1, <3>2, <3>3
  <2>2. CASE k > m
    <3>1. k - m \in 1 .. n /\ f[k] = g[k - m]
      BY <1>2, <2>2
    <3>2. PICK i \in 1 .. k - m :
            Follows(g, k - m, i) /\ \E c \in g[i].calls : g[k - m].calls = {c}
      <4>1. Answers(g) /\ k - m \in 1 .. Len(g) /\ g[k - m].role = "tool"
        BY <1>2, <1>4, <3>1 DEF Sound
      <4> QED BY <4>1 DEF Answers
    <3>3. i + m \in 1 .. k /\ f[i + m] = g[i]
      <4>1. i \in Nat /\ i >= 1 /\ i <= k - m /\ k \in Nat /\ k <= m + n
        BY <1>2, <3>1
      <4>2. i + m \in m + 1 .. m + n /\ i + m \in 1 .. k /\ i + m - m = i
        BY <1>2, <4>1
      <4> QED BY <1>2, <4>2
    <3>4. \A j \in i + m + 1 .. k : f[j] = g[j - m] /\ j - m \in i + 1 .. k - m
      BY <1>2, <3>1, <3>3
    <3>5. Follows(f, k, i + m)
      BY <3>2, <3>3, <3>4 DEF Follows, Run
    <3> QED BY <3>1, <3>2, <3>3, <3>5
  <2>3. k \in Nat
    BY <1>2
  <2> QED BY <1>2, <2>1, <2>2, <2>3
<1>5. ASSUME NEW k \in 1 .. Len(f), NEW l \in 1 .. Len(f), k < l, Run(f, k, l)
      PROVE  f[k].calls # f[l].calls
  <2>1. CASE l <= m
    <3>1. Run(h, k, l) /\ k \in 1 .. m /\ l \in 1 .. m
      BY <1>2, <1>5, <2>1 DEF Run
    <3> QED BY <1>2, <1>5, <3>1 DEF Sound, Once
  <2>2. CASE k > m
    <3>1. k - m \in 1 .. n /\ l - m \in 1 .. n /\ k - m < l - m
      BY <1>2, <1>5, <2>2
    <3>2. \A j \in k - m .. l - m : j + m \in k .. l /\ f[j + m] = g[j]
      BY <1>2, <2>2, <3>1
    <3>3. Run(g, k - m, l - m)
      BY <1>5, <3>2 DEF Run
    <3>4. f[k] = g[k - m] /\ f[l] = g[l - m]
      BY <1>2, <1>5, <2>2
    <3>5. Once(g) /\ k - m \in 1 .. Len(g) /\ l - m \in 1 .. Len(g)
      BY <1>2, <3>1 DEF Sound
    <3> QED BY <3>1, <3>3, <3>4, <3>5 DEF Once
  <2>3. CASE k <= m /\ m < l
    <3>1. m + 1 \in k .. l /\ n > 0
      BY <1>2, <1>5, <2>3
    <3> QED BY <1>3, <1>5, <3>1 DEF Run
  <2> QED BY <1>2, <2>1, <2>2, <2>3
<1>6. ASSUME NEW k \in 1 .. Len(f), f[k].role = "user" PROVE f[k].calls = {}
  <2>1. \/ k \in 1 .. m /\ f[k] = h[k]
        \/ k - m \in 1 .. n /\ f[k] = g[k - m]
    BY <1>2
  <2>2. /\ \A l \in 1 .. m : h[l].role = "user" => h[l].calls = {}
        /\ \A l \in 1 .. n : g[l].role = "user" => g[l].calls = {}
    BY <1>2 DEF Sound, UsersOnlyTalk
  <2> QED BY <1>6, <2>1, <2>2
<1>7. Sound(f)
  <2>1. f \in Seq(Messages)
    BY <1>2
  <2>2. Answers(f)
    BY <1>4 DEF Answers
  <2>3. Once(f)
    BY <1>5 DEF Once
  <2>4. UsersOnlyTalk(f)
    BY <1>6 DEF UsersOnlyTalk
  <2> QED BY <2>1, <2>2, <2>3, <2>4 DEF Sound
<1> QED BY <1>7 DEF f

\* A part of a sound context, from a message that is no result on.
LEMMA SoundPart ==
  ASSUME NEW h, Sound(h), NEW p \in Int, NEW q \in Int, 1 <= p, p <= q + 1, q <= Len(h),
         p <= q => h[p].role # "tool"
  PROVE  Sound(SubSeq(h, p, q))
<1> DEFINE f == SubSeq(h, p, q)
           n == q - p + 1
<1>1. h \in Seq(Messages)
  BY DEF Sound
<1>2. /\ f \in Seq(Messages) /\ Len(f) = n /\ Len(h) \in Nat /\ n \in Nat
      /\ \A k \in 1 .. n : f[k] = h[p + k - 1]
      /\ n = q - p + 1
  BY <1>1, Cut
<1> HIDE DEF f, n
<1>3. ASSUME NEW k \in 1 .. Len(f), f[k].role = "tool"
      PROVE  \E i \in 1 .. k : Follows(f, k, i) /\ \E c \in f[i].calls : f[k].calls = {c}
  <2>1. k \in 1 .. n /\ p + k - 1 \in 1 .. Len(h) /\ f[k] = h[p + k - 1]
    BY <1>2
  <2>2. PICK i \in 1 .. p + k - 1 :
          Follows(h, p + k - 1, i) /\ \E c \in h[i].calls : h[p + k - 1].calls = {c}
    BY <1>3, <2>1 DEF Sound, Answers
  <2>3. i >= p
    <3>1. p \in 1 .. p + k - 1 /\ h[p].role # "tool"
      <4>1. k \in Int /\ 1 <= k /\ k <= n
        BY <1>2
      <4> QED BY <1>2, <4>1
    <3> QED BY <2>2, <3>1 DEF Follows, Run
  <2>4. i - p + 1 \in 1 .. k /\ f[i - p + 1] = h[i]
    BY <1>2, <2>1, <2>2, <2>3
  <2>5. ASSUME NEW j \in i - p + 1 + 1 .. k PROVE f[j].role = "tool"
    <3>0. /\ j \in Int /\ i - p + 1 + 1 <= j /\ j <= k /\ k \in Int /\ i \in Int
          /\ 1 <= i - p + 1 /\ k <= n
      BY <1>2, <2>1, <2>2, <2>4
    <3>1. j \in 1 .. n /\ p + j - 1 \in i + 1 .. p + k - 1
      BY <1>2, <3>0
    <3> QED BY <1>2, <2>2, <3>1 DEF Follows, Run
  <2>6. Follows(f, k, i - p + 1)
    BY <2>2, <2>4, <2>5 DEF Follows, Run
  <2> QED BY <2>1, <2>2, <2>4, <2>6
<1>4. ASSUME NEW k \in 1 .. Len(f), NEW l \in 1 .. Len(f), k < l, Run(f, k, l)
      PROVE  f[k].calls # f[l].calls
  <2>0. k \in 1 .. n /\ l \in 1 .. n
    BY <1>2
  <2>1. /\ p + k - 1 \in 1 .. Len(h) /\ p + l - 1 \in 1 .. Len(h) /\ p + k - 1 < p + l - 1
        /\ f[k] = h[p + k - 1] /\ f[l] = h[p + l - 1]
    <3>1. f[k] = h[p + k - 1] /\ f[l] = h[p + l - 1]
      BY <1>2, <2>0
    <3>2. k \in Int /\ 1 <= k /\ k <= n /\ l \in Int /\ 1 <= l /\ l <= n
      BY <1>2, <2>0
    <3>3. p + k - 1 \in 1 .. Len(h) /\ p + l - 1 \in 1 .. Len(h) /\ p + k - 1 < p + l - 1
      BY <1>2, <1>4, <3>2
    <3> QED BY <3>1, <3>3
  <2>2. \A j \in p + k - 1 .. p + l - 1 : j - p + 1 \in k .. l /\ f[j - p + 1] = h[j]
    <3> SUFFICES ASSUME NEW j \in p + k - 1 .. p + l - 1
                 PROVE  j - p + 1 \in k .. l /\ f[j - p + 1] = h[j]
      OBVIOUS
    <3>1. k \in Int /\ l \in Int /\ 1 <= k /\ l <= n
      BY <1>2, <2>0
    <3>2. j \in Int /\ p + k - 1 <= j /\ j <= p + l - 1
      BY <3>1
    <3>3. k <= j - p + 1 /\ j - p + 1 <= l /\ j - p + 1 \in Int
      BY <3>1, <3>2
    <3>4. j - p + 1 \in k .. l /\ j - p + 1 \in 1 .. n /\ p + (j - p + 1) - 1 = j
      BY <1>2, <3>1, <3>3
    <3> QED BY <1>2, <3>4
  <2>3. Run(h, p + k - 1, p + l - 1)
    BY <1>4, <2>2 DEF Run
  <2> QED BY <2>1, <2>3 DEF Sound, Once
<1>5. ASSUME NEW k \in 1 .. Len(f), f[k].role = "user" PROVE f[k].calls = {}
  <2>1. p + k - 1 \in 1 .. Len(h) /\ f[k] = h[p + k - 1]
    BY <1>2
  <2> QED BY <1>5, <2>1 DEF Sound, UsersOnlyTalk
<1>6. Sound(f)
  <2>1. f \in Seq(Messages)
    BY <1>2
  <2>2. Answers(f)
    BY <1>3 DEF Answers
  <2>3. Once(f)
    BY <1>4 DEF Once
  <2>4. UsersOnlyTalk(f)
    BY <1>5 DEF UsersOnlyTalk
  <2> QED BY <2>1, <2>2, <2>3, <2>4 DEF Sound
<1> QED BY <1>6 DEF f

---------------------------------------------------------------------------
(* What the loop appends                                                      *)

LEMMA SoundEmpty == Sound(<<>>) /\ Fits(<<>>, {})
<1>1. <<>> \in Seq(Messages) /\ Len(<<>>) = 0
  OBVIOUS
<1>2. Answers(<<>>) /\ Once(<<>>) /\ UsersOnlyTalk(<<>>)
  BY <1>1 DEF Answers, Once, UsersOnlyTalk
<1> QED BY <1>1, <1>2 DEF Sound, Fits, Awaits

\* A message of its own that is no result.
LEMMA SoundSingle ==
  ASSUME NEW m \in Messages, m.role # "tool", m.role = "user" => m.calls = {}
  PROVE  Sound(<<m>>)
<1> DEFINE f == <<m>>
<1>1. f \in Seq(Messages) /\ Len(f) = 1 /\ f[1] = m
  OBVIOUS
<1> HIDE DEF f
<1>2. Answers(f)
  BY <1>1 DEF Answers
<1>3. Once(f)
  BY <1>1 DEF Once
<1>4. UsersOnlyTalk(f)
  BY <1>1 DEF UsersOnlyTalk
<1>5. Sound(f)
  BY <1>1, <1>2, <1>3, <1>4 DEF Sound
<1> QED BY <1>5 DEF f

\* The messages of users and of the model.
LEMMA NewMessages ==
  ASSUME NEW S \in SUBSET Calls
  PROVE  /\ User \in Messages /\ User.role = "user" /\ User.calls = {}
         /\ Assistant(S) \in Messages /\ Assistant(S).role = "assistant"
         /\ Assistant(S).calls = S
BY DEF User, Assistant, Messages

LEMMA SayUser ==
  ASSUME NEW h, Sound(h)
  PROVE  /\ Sound(h \o <<User>>) /\ Append(h, User) = h \o <<User>>
<1>1. User \in Messages /\ User.role = "user" /\ User.calls = {}
  BY NewMessages
<1>2. Sound(<<User>>)
  BY <1>1, SoundSingle
<1>3. h \in Seq(Messages)
  BY DEF Sound
<1>4. Append(h, User) = h \o <<User>>
  BY <1>1, <1>3
<1> QED BY <1>2, <1>4, SoundJoined

\* The model's message: its calls may now be answered.
LEMMA SayCalls ==
  ASSUME NEW h, Sound(h), NEW S \in SUBSET Calls
  PROVE  /\ Fits(h \o <<Assistant(S)>>, S)
         /\ Append(h, Assistant(S)) = h \o <<Assistant(S)>>
<1> DEFINE m == Assistant(S)
           f == h \o <<m>>
<1>1. m \in Messages /\ m.role = "assistant" /\ m.calls = S
  BY NewMessages
<1>2. h \in Seq(Messages) /\ Len(h) \in Nat
  BY DEF Sound
<1> HIDE DEF m
<1>3. Append(h, m) = h \o <<m>>
  BY <1>1, <1>2
<1>4. Len(f) = Len(h) + 1 /\ f[Len(f)] = m
  BY <1>1, <1>2
<1>5. Sound(<<m>>)
  BY <1>1, SoundSingle
<1>6. Sound(f)
  BY <1>5, SoundJoined
<1> HIDE DEF f
<1>7. Awaits(f, S)
  <2>1. Len(f) \in 1 .. Len(f) /\ \A j \in Len(f) + 1 .. Len(f) : FALSE
    BY <1>2, <1>4
  <2>2. f[Len(f)].role # "tool" /\ Run(f, Len(f) + 1, Len(f)) /\ S \subseteq f[Len(f)].calls
    BY <1>1, <1>4, <2>1 DEF Run
  <2> QED BY <2>1, <2>2 DEF Awaits
<1>8. Fits(f, S)
  BY <1>6, <1>7 DEF Fits
<1> QED BY <1>3, <1>8 DEF f, m

\* Fewer calls fit as well.
LEMMA FitsLess ==
  ASSUME NEW h, NEW S, NEW T, Fits(h, S), T \subseteq S
  PROVE  Fits(h, T)
<1> SUFFICES ASSUME T # {} PROVE Awaits(h, T)
  BY DEF Fits, Awaits
<1>1. PICK a \in 1 .. Len(h) :
        /\ h[a].role # "tool" /\ Run(h, a + 1, Len(h)) /\ S \subseteq h[a].calls
        /\ \A j \in a + 1 .. Len(h) : h[j].calls \cap S = {}
  BY DEF Fits, Awaits
<1>2. \A j \in a + 1 .. Len(h) : h[j].calls \cap T = {}
  BY <1>1
<1> QED BY <1>1, <1>2 DEF Awaits

\* Results: one for each call.
LEMMA ResultsAre ==
  ASSUME NEW S \in SUBSET Calls
  PROVE  /\ Results(S) \in Seq(Messages) /\ Len(Results(S)) \in Nat
         /\ \A n \in 1 .. Len(Results(S)) : \E c \in S : Results(S)[n] = Result(c)
         /\ \A k, n \in 1 .. Len(Results(S)) : k # n => Results(S)[k] # Results(S)[n]
<1> USE TurnAssumption
<1>1. MaxCalls \in Nat /\ S \subseteq 0 .. MaxCalls
  BY DEF Calls
<1>2. S \subseteq Nat /\ IsFiniteSet(S)
  BY <1>1, Bounded
<1>3. Ordered(S, Below(S))
  BY <1>2, NumbersOrdered
<1>4. Cardinality(S) \in Nat
  BY <1>2, FS_CardinalityType
<1> DEFINE call(n) == CHOOSE c \in S : Cardinality({d \in S : d <= c}) = n
<1>5. ASSUME NEW n \in 1 .. Cardinality(S)
      PROVE  call(n) \in S /\ Cardinality({d \in S : d <= call(n)}) = n
  <2>1. \E c \in S : Cardinality(Below(S)[c]) = n
    BY <1>3, RankExists
  <2>2. \E c \in S : Cardinality({d \in S : d <= c}) = n
    BY <2>1 DEF Below
  <2> QED BY <2>2
<1>6. \A c \in S : Result(c) \in Messages
  BY DEF Result, Messages
<1>7. Results(S) = [n \in 1 .. Cardinality(S) |-> Result(call(n))]
  BY DEF Results
<1> HIDE DEF call
<1>8. Results(S) \in Seq(Messages) /\ Len(Results(S)) = Cardinality(S)
  <2>1. \A n \in 1 .. Cardinality(S) : Result(call(n)) \in Messages
    BY <1>5, <1>6
  <2> QED BY <1>4, <1>7, <2>1
<1>9. \A n \in 1 .. Cardinality(S) : Results(S)[n] = Result(call(n))
  BY <1>7
<1>10. ASSUME NEW k \in 1 .. Cardinality(S), NEW n \in 1 .. Cardinality(S), k # n
       PROVE  Results(S)[k] # Results(S)[n]
  <2>1. call(k) # call(n)
    BY <1>5, <1>10
  <2>2. /\ Result(call(k)).calls = {call(k)} /\ Result(call(n)).calls = {call(n)}
        /\ Results(S)[k] = Result(call(k)) /\ Results(S)[n] = Result(call(n))
    BY <1>9 DEF Result
  <2> QED BY <2>1, <2>2
<1> QED BY <1>4, <1>5, <1>8, <1>9, <1>10

\* The results of open calls are appended, and the others are still open.
LEMMA SayResults ==
  ASSUME NEW h, NEW S \in SUBSET Calls, NEW T \in SUBSET S, Fits(h, S)
  PROVE  Fits(h \o Results(T), S \ T)
<1> DEFINE r == Results(T)
           f == h \o r
<1>1. /\ r \in Seq(Messages) /\ Len(r) \in Nat
      /\ \A n \in 1 .. Len(r) : \E c \in T : r[n] = Result(c)
      /\ \A k, n \in 1 .. Len(r) : k # n => r[k] # r[n]
  <2>1. T \in SUBSET Calls
    OBVIOUS
  <2> QED BY <2>1, ResultsAre
<1> HIDE DEF r
<1>2. Sound(h) /\ h \in Seq(Messages) /\ Len(h) \in Nat
  BY DEF Fits, Sound
<1>3. /\ f \in Seq(Messages) /\ Len(f) = Len(h) + Len(r)
      /\ \A k \in 1 .. Len(h) : f[k] = h[k]
      /\ \A k \in Len(h) + 1 .. Len(f) : f[k] = r[k - Len(h)] /\ k - Len(h) \in 1 .. Len(r)
  BY <1>1, <1>2, Joined
<1> HIDE DEF f
<1>4. CASE S = {}
  <2>1. T = {} /\ S \ T = {}
    BY <1>4
  <2>2. Len(r) = 0
    BY <1>1, <2>1
  <2>3. f = h
    BY <1>1, <1>2, <2>2 DEF f
  <2>4. Fits(f, {})
    BY <1>2, <2>3 DEF Fits, Awaits
  <2> QED BY <2>1, <2>4 DEF f, r
<1>5. CASE S # {}
  <2>1. PICK a \in 1 .. Len(h) :
          /\ h[a].role # "tool" /\ Run(h, a + 1, Len(h)) /\ S \subseteq h[a].calls
          /\ \A j \in a + 1 .. Len(h) : h[j].calls \cap S = {}
    BY <1>5 DEF Fits, Awaits
  <2>2. \A k \in Len(h) + 1 .. Len(f) :
          f[k].role = "tool" /\ \E c \in T : f[k].calls = {c} /\ f[k] = Result(c)
    <3> SUFFICES ASSUME NEW k \in Len(h) + 1 .. Len(f)
                 PROVE  f[k].role = "tool" /\ \E c \in T : f[k].calls = {c} /\ f[k] = Result(c)
      OBVIOUS
    <3>1. PICK c \in T : r[k - Len(h)] = Result(c)
      BY <1>1, <1>3
    <3>2. f[k] = Result(c)
      BY <1>3, <3>1
    <3>3. Result(c).role = "tool" /\ Result(c).calls = {c}
      BY DEF Result
    <3> QED BY <3>2, <3>3
  <2>3. Run(f, a + 1, Len(f)) /\ f[a] = h[a] /\ a \in 1 .. Len(f)
    <3>1. ASSUME NEW j \in a + 1 .. Len(f) PROVE f[j].role = "tool"
      <4>1. j \in Nat /\ (j \in 1 .. Len(h) \/ j \in Len(h) + 1 .. Len(f))
        BY <1>1, <1>2, <1>3
      <4> QED BY <1>2, <1>3, <2>1, <2>2, <4>1 DEF Run
    <3> QED BY <1>1, <1>2, <1>3, <3>1 DEF Run
  <2>4. Answers(f)
    <3> SUFFICES ASSUME NEW k \in 1 .. Len(f), f[k].role = "tool"
                 PROVE  \E i \in 1 .. k :
                          Follows(f, k, i) /\ \E c \in f[i].calls : f[k].calls = {c}
      BY DEF Answers
    <3>1. CASE k <= Len(h)
      <4>1. k \in 1 .. Len(h) /\ h[k].role = "tool" /\ f[k] = h[k] /\ k \in Nat
        BY <1>2, <1>3, <3>1
      <4>2. PICK i \in 1 .. k : Follows(h, k, i) /\ \E c \in h[i].calls : h[k].calls = {c}
        BY <1>2, <4>1 DEF Sound, Answers
      <4>3. \A j \in 1 .. k : f[j] = h[j]
        BY <1>2, <1>3, <4>1
      <4>4. Follows(f, k, i)
        BY <4>1, <4>2, <4>3 DEF Follows, Run
      <4> QED BY <4>1, <4>2, <4>3, <4>4
    <3>2. CASE k > Len(h)
      <4>1. k \in Len(h) + 1 .. Len(f) /\ a \in 1 .. k /\ k \in Nat
        BY <1>1, <1>2, <1>3, <3>2
      <4>2. PICK c \in T : f[k].calls = {c}
        BY <2>2, <4>1
      <4>3. c \in f[a].calls
        BY <2>1, <2>3
      <4>4. Follows(f, k, a)
        BY <1>3, <2>1, <2>3, <4>1 DEF Follows, Run
      <4> QED BY <4>1, <4>2, <4>3, <4>4
    <3>3. k \in Nat
      BY <1>3
    <3> QED BY <1>2, <3>1, <3>2, <3>3
  <2>5. Once(f)
    <3> SUFFICES ASSUME NEW k \in 1 .. Len(f), NEW l \in 1 .. Len(f), k < l, Run(f, k, l)
                 PROVE  f[k].calls # f[l].calls
      BY DEF Once
    <3>0. k \in Nat /\ l \in Nat /\ Len(f) \in Nat
      BY <1>1, <1>2, <1>3
    <3>1. CASE l <= Len(h)
      <4>1. Run(h, k, l) /\ k \in 1 .. Len(h) /\ l \in 1 .. Len(h)
        BY <1>2, <1>3, <3>0, <3>1 DEF Run
      <4> QED BY <1>2, <1>3, <4>1 DEF Sound, Once
    <3>2. CASE k > Len(h)
      <4>1. k \in Len(h) + 1 .. Len(f) /\ l \in Len(h) + 1 .. Len(f)
        BY <1>2, <3>0, <3>2
      <4>2. f[k] # f[l]
        <5>1. /\ k - Len(h) \in 1 .. Len(r) /\ l - Len(h) \in 1 .. Len(r)
              /\ f[k] = r[k - Len(h)] /\ f[l] = r[l - Len(h)]
          BY <1>3, <4>1
        <5>2. k - Len(h) # l - Len(h)
          BY <1>2, <3>0
        <5> QED BY <1>1, <5>1, <5>2
      <4>3. PICK c \in T : f[k].calls = {c} /\ f[k] = Result(c)
        BY <2>2, <4>1
      <4>4. PICK d \in T : f[l].calls = {d} /\ f[l] = Result(d)
        BY <2>2, <4>1
      <4> QED BY <4>2, <4>3, <4>4
    <3>3. CASE k <= Len(h) /\ Len(h) < l
      <4>1. PICK c \in T : f[l].calls = {c}
        BY <1>2, <2>2, <3>0, <3>3
      <4>2. k > a
        <5>1. ASSUME k <= a PROVE FALSE
          <6>1. a \in k .. l
            BY <1>2, <3>0, <3>3, <5>1
          <6> QED BY <2>1, <2>3, <6>1 DEF Run
        <5> QED BY <1>2, <3>0, <5>1
      <4>3. k \in a + 1 .. Len(h) /\ f[k] = h[k]
        BY <1>2, <1>3, <3>0, <3>3, <4>2
      <4>4. h[k].calls \cap S = {}
        BY <2>1, <4>3
      <4> QED BY <4>1, <4>3, <4>4
    <3> QED BY <1>2, <3>0, <3>1, <3>2, <3>3
  <2>6. UsersOnlyTalk(f)
    <3> SUFFICES ASSUME NEW k \in 1 .. Len(f), f[k].role = "user" PROVE f[k].calls = {}
      BY DEF UsersOnlyTalk
    <3>1. k \in 1 .. Len(h) /\ f[k] = h[k]
      <4>1. k \notin Len(h) + 1 .. Len(f)
        BY <2>2
      <4> QED BY <1>1, <1>2, <1>3, <4>1
    <3> QED BY <1>2, <3>1 DEF Sound, UsersOnlyTalk
  <2>7. Awaits(f, S \ T)
    <3>1. ASSUME NEW j \in a + 1 .. Len(f) PROVE f[j].calls \cap (S \ T) = {}
      <4>1. j \in Nat /\ (j \in a + 1 .. Len(h) \/ j \in Len(h) + 1 .. Len(f))
        BY <1>1, <1>2, <1>3
      <4>2. CASE j \in a + 1 .. Len(h)
        <5>1. f[j] = h[j] /\ h[j].calls \cap S = {}
          BY <1>2, <1>3, <2>1, <4>2
        <5> QED BY <5>1
      <4>3. CASE j \in Len(h) + 1 .. Len(f)
        BY <2>2, <4>3
      <4> QED BY <4>1, <4>2, <4>3
    <3>2. f[a].role # "tool" /\ S \ T \subseteq f[a].calls
      BY <2>1, <2>3
    <3> QED BY <2>3, <3>1, <3>2 DEF Awaits
  <2>8. Fits(f, S \ T)
    BY <1>3, <2>4, <2>5, <2>6, <2>7 DEF Fits, Sound
  <2> QED BY <2>8 DEF f, r
<1> QED BY <1>4, <1>5

---------------------------------------------------------------------------
(* What routes, undo and compaction leave                                     *)

LEMMA CompleteUser ==
  ASSUME NEW h \in Seq(Messages), Complete(h)
  PROVE  Complete(h \o <<User>>)
<1> DEFINE f == h \o <<User>>
<1>1. /\ Len(h) \in Nat /\ Len(f) = Len(h) + 1 /\ f[Len(f)] = User
      /\ \A k \in 1 .. Len(h) : f[k] = h[k]
  OBVIOUS
<1> HIDE DEF f
<1>2. ASSUME NEW i \in 1 .. Len(f), f[i].role = "assistant", NEW c \in f[i].calls
      PROVE  \E k \in i + 1 .. Len(f) : Run(f, i + 1, k) /\ f[k].calls = {c}
  <2>1. i \in 1 .. Len(h) /\ f[i] = h[i] /\ i \in Nat
    BY <1>1, <1>2 DEF User
  <2>2. PICK k \in i + 1 .. Len(h) : Run(h, i + 1, k) /\ h[k].calls = {c}
    BY <1>2, <2>1 DEF Complete
  <2>3. \A j \in i + 1 .. k : f[j] = h[j]
    BY <1>1, <2>1
  <2>4. k \in i + 1 .. k /\ k \in i + 1 .. Len(f)
    BY <1>1, <2>1
  <2> QED BY <2>2, <2>3, <2>4 DEF Run
<1>3. Complete(f)
  BY <1>2 DEF Complete
<1> QED BY <1>3 DEF f

\* What comes before a message that is no result.
LEMMA BeforeKeeps ==
  ASSUME NEW h, Sound(h), NEW i \in 1 .. Len(h), h[i].role # "tool"
  PROVE  /\ Sound(Before(h, i))
         /\ Complete(h) => Complete(Before(h, i))
<1> DEFINE f == SubSeq(h, 1, i - 1)
<1>1. h \in Seq(Messages) /\ Len(h) \in Nat /\ i \in Nat
  BY DEF Sound
<1>2. /\ Len(f) = i - 1
      /\ \A k \in 1 .. i - 1 : f[k] = h[k]
  BY <1>1, Cut
<1>3. Sound(f)
  <2>1. h[1].role # "tool"
    BY <1>1, SoundBegins
  <2> QED BY <1>1, <2>1, SoundPart
<1> HIDE DEF f
<1>4. ASSUME Complete(h), NEW j \in 1 .. Len(f), f[j].role = "assistant", NEW c \in f[j].calls
      PROVE  \E k \in j + 1 .. Len(f) : Run(f, j + 1, k) /\ f[k].calls = {c}
  <2>1. j \in 1 .. Len(h) /\ f[j] = h[j] /\ j \in Nat /\ j < i
    BY <1>1, <1>2
  <2>2. PICK k \in j + 1 .. Len(h) : Run(h, j + 1, k) /\ h[k].calls = {c}
    BY <1>4, <2>1 DEF Complete
  <2>3. k < i
    <3>1. ASSUME k >= i PROVE FALSE
      <4>1. i \in j + 1 .. k
        BY <1>1, <2>1, <3>1
      <4> QED BY <2>2, <4>1 DEF Run
    <3> QED BY <1>1, <2>1, <3>1
  <2>4. \A x \in j + 1 .. k : f[x] = h[x]
    BY <1>1, <1>2, <2>1, <2>3
  <2>5. k \in j + 1 .. k /\ k \in j + 1 .. Len(f)
    BY <1>1, <1>2, <2>1, <2>3
  <2> QED BY <2>2, <2>4, <2>5 DEF Run
<1>5. Complete(h) => Complete(f)
  BY <1>4 DEF Complete
<1> QED BY <1>3, <1>5 DEF f, Before

LEMMA UndoneKeeps ==
  ASSUME NEW h, Sound(h)
  PROVE  Sound(Undone(h))
<1>1. CASE Users(h) = {}
  BY <1>1, SoundEmpty DEF Undone
<1>2. CASE Users(h) # {}
  <2>1. h \in Seq(Messages) /\ Len(h) \in Nat /\ Users(h) \subseteq 0 .. Len(h)
    BY DEF Sound, Users
  <2>2. Max(Users(h)) \in Users(h)
    BY <1>2, <2>1, MaxIs
  <2>3. Max(Users(h)) \in 1 .. Len(h) /\ h[Max(Users(h))].role # "tool"
    BY <2>1, <2>2 DEF Users
  <2> QED BY <1>2, <2>3, BeforeKeeps DEF Undone
<1> QED BY <1>1, <1>2

\* A context that calls are open in may follow another one.
LEMMA FitsJoined ==
  ASSUME NEW h, NEW g, NEW S, Sound(h), Fits(g, S)
  PROVE  Fits(h \o g, S)
<1> DEFINE f == h \o g
<1>1. Sound(g) /\ h \in Seq(Messages) /\ g \in Seq(Messages)
  BY DEF Fits, Sound
<1>2. Sound(f)
  BY <1>1, SoundJoined
<1>3. /\ Len(f) = Len(h) + Len(g) /\ Len(h) \in Nat /\ Len(g) \in Nat
      /\ \A k \in Len(h) + 1 .. Len(h) + Len(g) : f[k] = g[k - Len(h)]
  BY <1>1, Joined
<1> HIDE DEF f
<1>4. ASSUME S # {} PROVE Awaits(f, S)
  <2>1. PICK a \in 1 .. Len(g) :
          /\ g[a].role # "tool" /\ Run(g, a + 1, Len(g)) /\ S \subseteq g[a].calls
          /\ \A j \in a + 1 .. Len(g) : g[j].calls \cap S = {}
    BY <1>4 DEF Fits, Awaits
  <2> DEFINE b == Len(h) + a
  <2>2. /\ b \in 1 .. Len(f) /\ b \in Len(h) + 1 .. Len(h) + Len(g) /\ b - Len(h) = a
        /\ a \in Nat /\ b \in Nat
    BY <1>3
  <2>3. f[b] = g[a]
    BY <1>3, <2>2
  <2>4. ASSUME NEW j \in b + 1 .. Len(f)
        PROVE  /\ f[j] = g[j - Len(h)] /\ j - Len(h) \in a + 1 .. Len(g)
    <3>1. j \in Nat /\ b + 1 <= j /\ j <= Len(f)
      BY <1>3, <2>2
    <3>2. j \in Len(h) + 1 .. Len(h) + Len(g) /\ j - Len(h) \in a + 1 .. Len(g)
      BY <1>3, <2>2, <3>1
    <3> QED BY <1>3, <3>2
  <2> HIDE DEF b
  <2>5. Run(f, b + 1, Len(f)) /\ \A j \in b + 1 .. Len(f) : f[j].calls \cap S = {}
    BY <2>1, <2>4 DEF Run
  <2>6. f[b].role # "tool" /\ S \subseteq f[b].calls
    BY <2>1, <2>3
  <2> QED BY <2>2, <2>5, <2>6 DEF Awaits
<1>5. Fits(f, S)
  BY <1>2, <1>4 DEF Fits, Awaits
<1> QED BY <1>5 DEF f

\* The tail from a message that is no result, if the calls are made in it.
LEMMA FitsTail ==
  ASSUME NEW h, NEW S, Fits(h, S), NEW p \in 1 .. Len(h) + 1,
         p <= Len(h) => h[p].role # "tool",
         \A a \in 1 .. Len(h) :
           /\ S # {} /\ S \subseteq h[a].calls
           /\ h[a].role # "tool" /\ Run(h, a + 1, Len(h))
           => p <= a
  PROVE  Fits(SubSeq(h, p, Len(h)), S)
<1> DEFINE f == SubSeq(h, p, Len(h))
           n == Len(h) - p + 1
<1>1. Sound(h) /\ h \in Seq(Messages) /\ Len(h) \in Nat /\ p \in Nat /\ 1 <= p
      /\ p <= Len(h) + 1
  BY DEF Fits, Sound
<1>2. Sound(f)
  BY <1>1, SoundPart
<1>3. /\ Len(f) = n /\ n \in Nat
      /\ \A k \in 1 .. n : f[k] = h[p + k - 1]
  BY <1>1, Cut
<1> HIDE DEF f
<1>4. ASSUME S # {} PROVE Awaits(f, S)
  <2>1. PICK a \in 1 .. Len(h) :
          /\ h[a].role # "tool" /\ Run(h, a + 1, Len(h)) /\ S \subseteq h[a].calls
          /\ \A j \in a + 1 .. Len(h) : h[j].calls \cap S = {}
    BY <1>4 DEF Fits, Awaits
  <2>2. p <= a
    BY <1>4, <2>1
  <2> DEFINE b == a - p + 1
  <2>3. b \in 1 .. n /\ p + b - 1 = a /\ a \in Nat
    BY <1>1, <2>2
  <2>4. f[b] = h[a]
    BY <1>3, <2>3
  <2>5. ASSUME NEW j \in b + 1 .. Len(f)
        PROVE  f[j] = h[p + j - 1] /\ p + j - 1 \in a + 1 .. Len(h)
    <3>1. j \in Nat /\ b + 1 <= j /\ j <= n
      BY <1>3, <2>3
    <3>2. j \in 1 .. n /\ p + j - 1 \in a + 1 .. Len(h)
      BY <1>1, <2>3, <3>1
    <3> QED BY <1>3, <3>2
  <2> HIDE DEF b
  <2>6. Run(f, b + 1, Len(f)) /\ \A j \in b + 1 .. Len(f) : f[j].calls \cap S = {}
    BY <2>1, <2>5 DEF Run
  <2>7. f[b].role # "tool" /\ S \subseteq f[b].calls
    BY <2>1, <2>4
  <2> QED BY <1>3, <2>3, <2>6, <2>7 DEF Awaits
<1>5. Fits(f, S)
  BY <1>2, <1>4 DEF Fits, Awaits
<1> QED BY <1>5 DEF f

\* Where the tail of a compaction begins.
LEMMA TailIs ==
  ASSUME NEW h \in Seq(Messages)
  PROVE  /\ FirstUser(h) \in 1 .. Len(h) + 1
         /\ Users(h) # {} => FirstUser(h) \in Users(h)
         /\ TailFrom(h) \in Nat /\ TailFrom(h) > FirstUser(h)
         /\ TailFrom(h) = FirstUser(h) + 1 \/ TailFrom(h) \in Users(h)
<1>1. Users(h) \subseteq 0 .. Len(h) /\ Len(h) \in Nat /\ Users(h) \subseteq 1 .. Len(h)
  BY DEF Users
<1>2. FirstUser(h) \in 1 .. Len(h) + 1 /\ (Users(h) # {} => FirstUser(h) \in Users(h))
  <2>1. CASE Users(h) = {}
    BY <1>1, <2>1 DEF FirstUser
  <2>2. CASE Users(h) # {}
    <3>1. Min(Users(h)) \in Users(h)
      BY <1>1, <2>2, MinIs
    <3> QED BY <1>1, <2>2, <3>1 DEF FirstUser
  <2> QED BY <2>1, <2>2
<1> DEFINE u == FirstUser(h)
           T == {u + 1} \cup {i \in Users(h) : u < i /\ i <= Len(h) + 1 - Untouched}
<1>3. T \subseteq 0 .. Len(h) + 2 /\ T # {} /\ Len(h) + 2 \in Nat
  BY <1>1, <1>2
<1>4. Max(T) \in T
  BY <1>3, MaxIs
<1>5. TailFrom(h) = Max(T)
  BY DEF TailFrom
<1>6. Max(T) \in Nat /\ Max(T) > u /\ (Max(T) = u + 1 \/ Max(T) \in Users(h))
  BY <1>1, <1>2, <1>4
<1> QED BY <1>2, <1>5, <1>6

\* Where the tail begins after a message without calls, the open calls are in it.
LEMMA TailFits ==
  ASSUME NEW h, NEW S, Fits(h, S), NEW u \in 1 .. Len(h), NEW t \in Nat,
         h[u].role # "tool", h[u].calls = {}, t > u, t = u + 1 \/ t \in Users(h)
  PROVE  Fits(SubSeq(h, t, Len(h)), S)
<1>1. Sound(h) /\ h \in Seq(Messages) /\ Len(h) \in Nat
  BY DEF Fits, Sound
<1>2. t \in 1 .. Len(h) + 1 /\ (t \in Users(h) => t \in 1 .. Len(h) /\ h[t].role = "user")
  BY <1>1 DEF Users
<1>3. ASSUME t <= Len(h) PROVE h[t].role # "tool"
  <2>1. CASE t \in Users(h)
    BY <1>2, <2>1
  <2>2. CASE t = u + 1
    <3>1. ASSUME h[t].role = "tool" PROVE FALSE
      <4>1. t \in 1 .. Len(h) /\ Answers(h)
        BY <1>1, <1>2, <1>3 DEF Sound
      <4>2. PICK i \in 1 .. t : Follows(h, t, i) /\ \E c \in h[i].calls : h[t].calls = {c}
        BY <3>1, <4>1 DEF Answers
      <4>3. h[i].role # "tool" /\ i # t /\ i # u
        BY <3>1, <4>2 DEF Follows
      <4>4. i \in Nat /\ u \in Nat /\ i < u
        BY <2>2, <4>1, <4>3
      <4>5. u \in i + 1 .. t
        BY <2>2, <4>4
      <4> QED BY <4>2, <4>5 DEF Follows, Run
    <3> QED BY <3>1
  <2> QED BY <2>1, <2>2
<1>4. ASSUME NEW a \in 1 .. Len(h), S # {}, S \subseteq h[a].calls,
             h[a].role # "tool", Run(h, a + 1, Len(h))
      PROVE  t <= a
  <2>1. ASSUME NEW v \in 1 .. Len(h), h[v].role # "tool", h[v].calls = {} PROVE v < a
    <3>1. v # a
      BY <1>4, <2>1
    <3>2. v \notin a + 1 .. Len(h)
      BY <1>4, <2>1 DEF Run
    <3> QED BY <1>1, <3>1, <3>2
  <2>2. u < a
    BY <2>1
  <2>3. CASE t \in Users(h)
    <3>1. h[t].role # "tool" /\ h[t].calls = {}
      BY <1>1, <1>2, <2>3 DEF Sound, UsersOnlyTalk
    <3> QED BY <1>1, <1>2, <2>1, <2>3, <3>1
  <2>4. CASE t = u + 1
    BY <1>1, <2>2, <2>4
  <2> QED BY <2>3, <2>4
<1>5. \A a \in 1 .. Len(h) :
        /\ S # {} /\ S \subseteq h[a].calls
        /\ h[a].role # "tool" /\ Run(h, a + 1, Len(h))
        => t <= a
  BY <1>4
<1> QED BY <1>2, <1>3, <1>5, FitsTail

LEMMA PromptedKeeps ==
  ASSUME NEW h, NEW S, Sound(Prompt(h)), Fits(Recent(h), S)
  PROVE  /\ Fits(Shortened(h), S)
         /\ Fits(Summarised(h), S)
<1>1. Fits(Shortened(h), S)
  BY FitsJoined DEF Shortened
<1>2. Fits(Summarised(h), S)
  <2>1. Sound(Prompt(h) \o <<Assistant({})>>)
    <3>1. {} \in SUBSET Calls
      OBVIOUS
    <3> QED BY <3>1, SayCalls DEF Fits
  <2> QED BY <2>1, FitsJoined DEF Summarised
<1> QED BY <1>1, <1>2

\* A compaction keeps the first user message and a tail, in which the open calls are made,
\* unless it drops a first message that makes calls.
LEMMA CompactionKeeps ==
  ASSUME NEW h, NEW S, Fits(h, S), ~DropsCalls(h)
  PROVE  /\ Fits(Shortened(h), S)
         /\ Fits(Summarised(h), S)
<1> DEFINE u == FirstUser(h)
           t == TailFrom(h)
<1>1. Sound(h) /\ h \in Seq(Messages) /\ Len(h) \in Nat
  BY DEF Fits, Sound
<1>2. Users(h) = {} \/ h # <<>>
  BY DEF Users
<1>3. CASE h = <<>>
  <2>1. Users(h) = {} /\ t \in Nat /\ t > 1
    <3>1. Users(h) = {}
      BY <1>2, <1>3 DEF Users
    <3> QED BY <1>1, <3>1, TailIs DEF FirstUser
  <2>2. Prompt(h) = <<>> /\ Recent(h) = <<>>
    BY <1>3, <2>1 DEF Prompt, Recent
  <2>3. Fits(Recent(h), S) /\ Sound(Prompt(h))
    BY <1>1, <1>3, <2>2
  <2> QED BY <2>3, PromptedKeeps
<1>4. CASE h # <<>>
  <2>1. /\ u \in 1 .. Len(h) /\ h[u].role # "tool" /\ h[u].calls = {}
        /\ t \in Nat /\ t > u /\ (t = u + 1 \/ t \in Users(h))
    <3>1. CASE Users(h) # {}
      <4>1. u \in Users(h) /\ t \in Nat /\ t > u /\ (t = u + 1 \/ t \in Users(h))
        BY <1>1, <3>1, TailIs
      <4>2. u \in 1 .. Len(h) /\ h[u].role = "user"
        BY <1>1, <4>1 DEF Users
      <4> QED BY <1>1, <4>1, <4>2 DEF Sound, UsersOnlyTalk
    <3>2. CASE Users(h) = {}
      <4>1. u = 1 /\ h[1].calls = {} /\ Len(h) > 0
        BY <1>1, <1>4, <3>2 DEF FirstUser, DropsCalls
      <4>2. h[1].role # "tool"
        BY <1>1, <4>1, SoundBegins
      <4>3. t \in Nat /\ t > u /\ (t = u + 1 \/ t \in Users(h))
        BY <1>1, TailIs
      <4> QED BY <1>1, <4>1, <4>2, <4>3
    <3> QED BY <3>1, <3>2
  <2>2. Sound(Prompt(h))
    <3>1. CASE Users(h) # {}
      <4>1. h[u] \in Messages /\ h[u].role # "tool" /\ h[u].calls = {}
        BY <1>1, <2>1
      <4>2. u \in Users(h) /\ h[u].role = "user"
        BY <1>1, <3>1, TailIs DEF Users
      <4>3. Sound(<<h[u]>>)
        BY <4>1, <4>2, SoundSingle
      <4> QED BY <3>1, <4>3 DEF Prompt
    <3>2. CASE Users(h) = {}
      BY <3>2, SoundEmpty DEF Prompt
    <3> QED BY <3>1, <3>2
  <2>3. Fits(Recent(h), S)
    BY <2>1, TailFits DEF Recent
  <2> QED BY <2>2, <2>3, PromptedKeeps
<1> QED BY <1>3, <1>4

---------------------------------------------------------------------------
(* The repair of dangling calls                                               *)

\* The stub of call c stands behind message k, the last of the run of results
\* behind message i.
StubOf(h, k, c, i) ==
  /\ i \in 1 .. Len(h) /\ h[i].role = "assistant" /\ c \in Unanswered(h, i)
  /\ i <= k /\ Run(h, i + 1, k)
  /\ \A l \in 1 .. Len(h) : l > i /\ Run(h, i + 1, l) => l <= k

LEMMA BlockIs ==
  ASSUME NEW h \in Seq(Messages), NEW i \in 1 .. Len(h), h[i].role # "tool", NEW k \in Nat
  PROVE  k \in Block(h, i) <=> k \in 1 .. Len(h) /\ k > i /\ Run(h, i + 1, k)
<1>1. DOMAIN h = 1 .. Len(h) /\ i \in Nat /\ i # 0 /\ Len(h) \in Nat
  OBVIOUS
<1>2. ASSUME k \in 1 .. Len(h), k > i
      PROVE  Owner(h, k) = i <=> Run(h, i + 1, k)
  <2>1. Follows(h, k, i) <=> Owner(h, k) = i
    BY <1>1, <1>2, OwnerIs
  <2>2. i \in 1 .. k
    BY <1>1, <1>2
  <2> QED BY <2>1, <2>2 DEF Follows
<1> QED BY <1>1, <1>2 DEF Block

\* Where the stubs of message i go.
LEMMA StubsAre ==
  ASSUME NEW h \in Seq(Messages), NEW i \in 1 .. Len(h), h[i].role = "assistant"
  PROVE  \E k \in 1 .. Len(h) :
           /\ Stubbed(h, i) = {k} \X Unanswered(h, i)
           /\ \A c \in Unanswered(h, i) : StubOf(h, k, c, i)
<1> DEFINE T == {i} \cup Block(h, i)
           k == Max(T)
<1>1. i \in Nat /\ Len(h) \in Nat /\ T # {} /\ i \in T /\ T \subseteq 0 .. Len(h) /\ T \subseteq 1 .. Len(h)
  BY DEF Block
<1>2. k \in T /\ \A y \in T : y <= k
  BY <1>1, MaxIs
<1>3. Stubbed(h, i) = {k} \X Unanswered(h, i)
  BY DEF Stubbed
<1>4. \A x \in T : x = i \/ x \in Block(h, i)
  OBVIOUS
<1>5. \A x \in Block(h, i) : x \in T
  OBVIOUS
<1> HIDE DEF k, T
<1>6. k \in 1 .. Len(h) /\ k \in Nat /\ i <= k
  BY <1>1, <1>2
<1>7. Run(h, i + 1, k)
  <2>1. CASE k = i
    BY <1>1, <2>1 DEF Run
  <2>2. CASE k \in Block(h, i)
    BY <1>6, <2>2, BlockIs
  <2> QED BY <1>2, <1>4, <2>1, <2>2
<1>8. ASSUME NEW l \in 1 .. Len(h), l > i, Run(h, i + 1, l) PROVE l <= k
  <2>1. l \in Nat
    BY <1>1
  <2>2. l \in Block(h, i)
    BY <1>8, <2>1, BlockIs
  <2> QED BY <1>2, <1>5, <2>2
<1>9. \A c \in Unanswered(h, i) : StubOf(h, k, c, i)
  BY <1>6, <1>7, <1>8 DEF StubOf
<1> QED BY <1>6, <1>3, <1>9

\* The slots, which are finitely many pairs of numbers.
LEMMA SlotsAre ==
  ASSUME NEW h \in Seq(Messages)
  PROVE  /\ Slots(h) \subseteq (1 .. Len(h)) \X (0 .. MaxCalls)
         /\ \A k \in 1 .. Len(h) : <<k, 0>> \in Slots(h)
         /\ \A k, c : <<k, c>> \in Slots(h) /\ c # 0 => \E i \in 1 .. Len(h) : StubOf(h, k, c, i)
         /\ \A i \in 1 .. Len(h) : h[i].role = "assistant" =>
              \A c \in Unanswered(h, i) :
                \E k \in 1 .. Len(h) : <<k, c>> \in Slots(h) /\ StubOf(h, k, c, i)
<1> USE TurnAssumption
<1>1. /\ DOMAIN h = 1 .. Len(h) /\ MaxCalls \in Nat
      /\ \A i \in 1 .. Len(h) : Unanswered(h, i) \subseteq 1 .. MaxCalls
  <2>1. \A i \in 1 .. Len(h) : h[i] \in Messages
    OBVIOUS
  <2>2. \A m \in Messages : m.calls \subseteq Calls
    BY DEF Messages
  <2>3. \A i \in 1 .. Len(h) : Unanswered(h, i) \subseteq Calls
    BY <2>1, <2>2 DEF Unanswered
  <2>4. MaxCalls \in Nat
    OBVIOUS
  <2> QED BY <2>3, <2>4 DEF Calls
<1> DEFINE A == {j \in DOMAIN h : h[j].role = "assistant"}
<1>2. \A i \in A : /\ i \in 1 .. Len(h) /\ h[i].role = "assistant"
                   /\ \E k \in 1 .. Len(h) :
                        /\ Stubbed(h, i) = {k} \X Unanswered(h, i)
                        /\ \A c \in Unanswered(h, i) : StubOf(h, k, c, i)
  BY <1>1, StubsAre
<1>3. Slots(h) = {<<k, 0>> : k \in 1 .. Len(h)} \cup UNION {Stubbed(h, i) : i \in A}
  BY <1>1 DEF Slots
<1> HIDE DEF A
<1>4. ASSUME NEW s \in UNION {Stubbed(h, i) : i \in A}
      PROVE  /\ s \in (1 .. Len(h)) \X (1 .. MaxCalls)
             /\ \E i \in 1 .. Len(h) : StubOf(h, s[1], s[2], i)
  <2>1. PICK i \in A : s \in Stubbed(h, i)
    OBVIOUS
  <2>2. i \in 1 .. Len(h)
    BY <1>2
  <2>3. PICK k \in 1 .. Len(h) :
          /\ Stubbed(h, i) = {k} \X Unanswered(h, i)
          /\ \A c \in Unanswered(h, i) : StubOf(h, k, c, i)
    BY <1>2
  <2>4. PICK c \in Unanswered(h, i) : s = <<k, c>>
    BY <2>1, <2>3
  <2>5. c \in 1 .. MaxCalls
    BY <1>1, <2>2
  <2>6. s[1] = k /\ s[2] = c
    BY <2>4
  <2> QED BY <2>2, <2>3, <2>4, <2>5, <2>6
<1>5. ASSUME NEW s \in {<<k, 0>> : k \in 1 .. Len(h)}
      PROVE  s \in (1 .. Len(h)) \X (0 .. MaxCalls) /\ s[2] = 0
  BY <1>1
<1>6. Slots(h) \subseteq (1 .. Len(h)) \X (0 .. MaxCalls)
  BY <1>1, <1>3, <1>4, <1>5
<1>7. \A k \in 1 .. Len(h) : <<k, 0>> \in Slots(h)
  BY <1>3
<1>8. ASSUME NEW k, NEW c, <<k, c>> \in Slots(h), c # 0
      PROVE  \E i \in 1 .. Len(h) : StubOf(h, k, c, i)
  <2> DEFINE s == <<k, c>>
  <2>1. s[1] = k /\ s[2] = c
    OBVIOUS
  <2>2. s \in Slots(h)
    BY <1>8
  <2> HIDE DEF s
  <2>3. s \in UNION {Stubbed(h, i) : i \in A}
    BY <1>3, <1>5, <1>8, <2>1, <2>2
  <2>4. \E i \in 1 .. Len(h) : StubOf(h, s[1], s[2], i)
    BY <1>4, <2>3
  <2> QED BY <2>1, <2>4
<1>9. ASSUME NEW i \in 1 .. Len(h), h[i].role = "assistant", NEW c \in Unanswered(h, i)
      PROVE  \E k \in 1 .. Len(h) : <<k, c>> \in Slots(h) /\ StubOf(h, k, c, i)
  <2>1. i \in A
    BY <1>1, <1>9 DEF A
  <2>2. PICK k \in 1 .. Len(h) :
          /\ Stubbed(h, i) = {k} \X Unanswered(h, i)
          /\ \A d \in Unanswered(h, i) : StubOf(h, k, d, i)
    BY <1>2, <2>1
  <2>3. <<k, c>> \in Stubbed(h, i)
    BY <1>9, <2>2
  <2>4. <<k, c>> \in Slots(h)
    BY <1>3, <2>1, <2>3
  <2>5. StubOf(h, k, c, i)
    BY <2>2
  <2> QED BY <2>4, <2>5
<1> QED BY <1>6, <1>7, <1>8, <1>9

\* The order of pairs.
NotLater(s, t) == s[1] < t[1] \/ (s[1] = t[1] /\ s[2] <= t[2])

LEMMA PairsOrdered ==
  ASSUME NEW m \in Nat, NEW n \in Nat, NEW S \in SUBSET ((1 .. m) \X (0 .. n))
  PROVE  Ordered(S, [s \in S |-> UpTo(S, s)])
<1> DEFINE D == [s \in S |-> UpTo(S, s)]
<1>1. IsFiniteSet(S)
  <2>1. IsFiniteSet(1 .. m)
    BY IntervalSize
  <2>2. IsFiniteSet(0 .. n)
    BY Bounded
  <2>3. IsFiniteSet((1 .. m) \X (0 .. n))
    BY <2>1, <2>2, FS_Product
  <2> QED BY <2>3, FS_Subset
<1>2. \A s \in S : s[1] \in Int /\ s[2] \in Int /\ s = <<s[1], s[2]>>
  OBVIOUS
<1>3. \A s, t \in S : s \in D[t] <=> NotLater(s, t)
  BY DEF UpTo, NotLater
<1>4. D \in [S -> SUBSET S]
  BY DEF UpTo
<1> HIDE DEF D
<1>5. \A s \in S : s \in D[s]
  BY <1>2, <1>3 DEF NotLater
<1>6. \A s, t, r \in S : NotLater(r, s) /\ NotLater(s, t) => NotLater(r, t)
  BY <1>2 DEF NotLater
<1>7. \A s, t \in S : NotLater(s, t) \/ NotLater(t, s)
  BY <1>2 DEF NotLater
<1>8. ASSUME NEW s \in S, NEW t \in S PROVE D[s] \subseteq D[t] \/ D[t] \subseteq D[s]
  <2>1. D[s] \subseteq S /\ D[t] \subseteq S
    BY <1>4
  <2>2. CASE NotLater(s, t)
    BY <1>3, <1>6, <2>1, <2>2
  <2>3. CASE NotLater(t, s)
    BY <1>3, <1>6, <2>1, <2>3
  <2> QED BY <1>7, <2>2, <2>3
<1>9. ASSUME NEW s \in S, NEW t \in S, s \in D[t], t \in D[s] PROVE s = t
  <2>1. NotLater(s, t) /\ NotLater(t, s)
    BY <1>3, <1>9
  <2>2. s[1] = t[1] /\ s[2] = t[2]
    BY <1>2, <2>1 DEF NotLater
  <2> QED BY <1>2, <2>2
<1>10. Ordered(S, D)
  BY <1>1, <1>4, <1>5, <1>8, <1>9 DEF Ordered
<1> QED BY <1>10 DEF D

\* The repaired context holds what the slots are for, in their order.
Place(h, s) == Cardinality(UpTo(Slots(h), s))

LEMMA PatchedIs ==
  ASSUME NEW h \in Seq(Messages), Dangling(h) # {}
  PROVE  /\ Patched(h) \in Seq(Messages) /\ Len(Patched(h)) = Cardinality(Slots(h))
         /\ \A s \in Slots(h) : Place(h, s) \in 1 .. Len(Patched(h))
                                /\ Patched(h)[Place(h, s)] = Filled(h, s)
         /\ \A n \in 1 .. Len(Patched(h)) : \E s \in Slots(h) : Place(h, s) = n
         /\ \A s, t \in Slots(h) : Place(h, s) <= Place(h, t) <=> NotLater(s, t)
<1> USE TurnAssumption
<1> DEFINE S == Slots(h)
           D == [s \in S |-> UpTo(S, s)]
           N == Cardinality(S)
<1>1. S \in SUBSET ((1 .. Len(h)) \X (0 .. MaxCalls)) /\ Len(h) \in Nat /\ MaxCalls \in Nat
  BY SlotsAre
<1>2. Ordered(S, D)
  BY <1>1, PairsOrdered
<1>3. /\ N \in Nat
      /\ \A s \in S : Cardinality(D[s]) \in 1 .. N
      /\ \A n \in 1 .. N : \E s \in S : Cardinality(D[s]) = n
      /\ \A s, t \in S : (Cardinality(D[s]) <= Cardinality(D[t]) <=> s \in D[t])
                         /\ (Cardinality(D[s]) = Cardinality(D[t]) => s = t)
  <2>1. N \in Nat /\ \A s \in S : Cardinality(D[s]) \in 1 .. N
    BY <1>2, RankRange
  <2>2. \A n \in 1 .. N : \E s \in S : Cardinality(D[s]) = n
    BY <1>2, RankExists
  <2>3. \A s, t \in S : (Cardinality(D[s]) <= Cardinality(D[t]) <=> s \in D[t])
                        /\ (Cardinality(D[s]) = Cardinality(D[t]) => s = t)
    BY <1>2, RankOrder
  <2> QED BY <2>1, <2>2, <2>3
<1>4. /\ \A s \in S : Cardinality(D[s]) = Place(h, s) /\ Cardinality(UpTo(S, s)) = Place(h, s)
      /\ \A s, t \in S : s \in D[t] <=> NotLater(s, t)
  BY DEF Place, UpTo, NotLater
<1>5. Patched(h) = [n \in 1 .. N |-> Filled(h, Slot(S, n))]
  BY DEF Patched
<1> HIDE DEF D, N, S
<1>6. ASSUME NEW n \in 1 .. N PROVE Slot(S, n) \in S /\ Place(h, Slot(S, n)) = n
  <2>1. \E s \in S : Cardinality(UpTo(S, s)) = n
    BY <1>3, <1>4
  <2>2. Slot(S, n) \in S /\ Cardinality(UpTo(S, Slot(S, n))) = n
    BY <2>1 DEF Slot
  <2> QED BY <1>4, <2>2
<1>7. \A s \in S : Filled(h, s) \in Messages
  <2> SUFFICES ASSUME NEW s \in S PROVE Filled(h, s) \in Messages
    OBVIOUS
  <2>1. s[1] \in 1 .. Len(h) /\ s[2] \in 0 .. MaxCalls
    BY <1>1
  <2>2. CASE s[2] = 0
    BY <2>1, <2>2 DEF Filled
  <2>3. CASE s[2] # 0
    <3>1. s[2] \in Calls
      BY <1>1, <2>1, <2>3 DEF Calls
    <3> QED BY <2>3, <3>1 DEF Filled, Result, Messages
  <2> QED BY <2>2, <2>3
<1>8. Patched(h) \in Seq(Messages) /\ Len(Patched(h)) = N
  <2>1. \A n \in 1 .. N : Filled(h, Slot(S, n)) \in Messages
    BY <1>6, <1>7
  <2> QED BY <1>3, <1>5, <2>1
<1>9. ASSUME NEW s \in S PROVE Place(h, s) \in 1 .. N /\ Patched(h)[Place(h, s)] = Filled(h, s)
  <2>1. Place(h, s) \in 1 .. N
    BY <1>3, <1>4
  <2>2. Slot(S, Place(h, s)) \in S /\ Place(h, Slot(S, Place(h, s))) = Place(h, s)
    BY <1>6, <2>1
  <2>3. Slot(S, Place(h, s)) = s
    BY <1>3, <1>4, <2>2
  <2> QED BY <1>5, <2>1, <2>3
<1>10. \A n \in 1 .. N : \E s \in S : Place(h, s) = n
  BY <1>3, <1>4
<1>11. \A s, t \in S : Place(h, s) <= Place(h, t) <=> NotLater(s, t)
  BY <1>3, <1>4
<1>12. N = Cardinality(S)
  BY DEF N
<1> QED BY <1>8, <1>9, <1>10, <1>11, <1>12 DEF S

\* What a slot is for keeps its place in the run behind a message.
LEMMA FollowsPatched ==
  ASSUME NEW h \in Seq(Messages), Dangling(h) # {}, NEW k \in 1 .. Len(h), NEW c,
         <<k, c>> \in Slots(h), NEW i \in 1 .. Len(h), Follows(h, k, i)
  PROVE  Follows(Patched(h), Place(h, <<k, c>>), Place(h, <<i, 0>>))
<1> USE TurnAssumption
<1> DEFINE g == Patched(h)
           s == <<k, c>>
           o == <<i, 0>>
           p == Place(h, o)
           q == Place(h, s)
<1>1. /\ \A u \in Slots(h) : Place(h, u) \in 1 .. Len(g) /\ g[Place(h, u)] = Filled(h, u)
      /\ \A n \in 1 .. Len(g) : \E u \in Slots(h) : Place(h, u) = n
      /\ \A u, t \in Slots(h) : Place(h, u) <= Place(h, t) <=> NotLater(u, t)
      /\ Len(g) \in Nat
  BY PatchedIs
<1>2. /\ \A u \in Slots(h) : u[1] \in 1 .. Len(h) /\ u[2] \in 0 .. MaxCalls
      /\ o \in Slots(h) /\ s \in Slots(h) /\ MaxCalls \in Nat /\ Len(h) \in Nat
  BY SlotsAre
<1>3. s[1] = k /\ s[2] = c /\ o[1] = i /\ o[2] = 0
  OBVIOUS
<1> HIDE DEF g, s, o
<1>4. i \in Nat /\ k \in Nat /\ i <= k /\ h[i].role # "tool" /\ Run(h, i + 1, k) /\ c \in Nat
  BY <1>2, <1>3 DEF Follows
<1>5. p \in 1 .. Len(g) /\ q \in 1 .. Len(g) /\ p <= q
  <2>1. NotLater(o, s)
    BY <1>3, <1>4 DEF NotLater
  <2> QED BY <1>1, <1>2, <2>1
<1>6. g[p].role # "tool"
  BY <1>1, <1>2, <1>3, <1>4 DEF Filled
<1>7. ASSUME NEW n \in p + 1 .. q PROVE g[n].role = "tool"
  <2>1. n \in 1 .. Len(g) /\ n \in Nat /\ ~(n <= p) /\ n <= q
    BY <1>1, <1>5
  <2>2. PICK u \in Slots(h) : Place(h, u) = n
    BY <1>1, <2>1
  <2>3. ~NotLater(u, o) /\ NotLater(u, s) /\ g[n] = Filled(h, u)
    BY <1>1, <1>2, <2>1, <2>2
  <2>4. u[1] \in Nat /\ u[2] \in Nat
    BY <1>2
  <2>5. CASE u[2] # 0
    BY <2>3, <2>5 DEF Filled, Result
  <2>6. CASE u[2] = 0
    <3>1. i < u[1] /\ u[1] <= k
      BY <1>3, <1>4, <2>3, <2>4, <2>6 DEF NotLater
    <3>2. u[1] \in i + 1 .. k
      BY <1>4, <2>4, <3>1
    <3> QED BY <1>4, <2>3, <2>6, <3>2 DEF Filled, Run
  <2> QED BY <2>5, <2>6
<1>8. Follows(g, q, p)
  BY <1>1, <1>5, <1>6, <1>7 DEF Follows, Run
<1> QED BY <1>8 DEF g, s, o

\* A call that is not dangling has its result in the run behind its message.
LEMMA AnsweredIs ==
  ASSUME NEW h, Sound(h), NEW i \in 1 .. Len(h), h[i].role = "assistant",
         NEW c \in h[i].calls, c \notin Unanswered(h, i)
  PROVE  \E k \in i + 1 .. Len(h) : Run(h, i + 1, k) /\ h[k].calls = {c}
<1>1. h \in Seq(Messages) /\ Answers(h) /\ DOMAIN h = 1 .. Len(h) /\ Len(h) \in Nat
  BY DEF Sound
<1>2. PICK k \in Block(h, i) : c \in h[k].calls
  BY DEF Unanswered
<1>3. k \in Nat
  BY <1>1 DEF Block
<1>4. k \in 1 .. Len(h) /\ k > i /\ Run(h, i + 1, k)
  BY <1>1, <1>2, <1>3, BlockIs
<1>5. k \in i + 1 .. k /\ k \in i + 1 .. Len(h) /\ i \in Nat
  BY <1>1, <1>3, <1>4
<1>6. h[k].role = "tool"
  BY <1>4, <1>5 DEF Run
<1>7. PICK j \in 1 .. k : \E d \in h[j].calls : h[k].calls = {d}
  BY <1>1, <1>4, <1>6 DEF Answers
<1>8. h[k].calls = {c}
  BY <1>2, <1>7
<1> QED BY <1>4, <1>5, <1>8

\* Nothing to repair.
LEMMA NothingDangles ==
  ASSUME NEW h, Sound(h), Dangling(h) = {}
  PROVE  Complete(h)
<1> SUFFICES ASSUME NEW i \in 1 .. Len(h), h[i].role = "assistant", NEW c \in h[i].calls
             PROVE  \E k \in i + 1 .. Len(h) : Run(h, i + 1, k) /\ h[k].calls = {c}
  BY DEF Complete
<1>1. DOMAIN h = 1 .. Len(h)
  BY DEF Sound
<1>2. c \notin Unanswered(h, i)
  BY <1>1 DEF Dangling
<1> QED BY <1>2, AnsweredIs

\* What a slot with a result is for answers one call of the message before its run.
LEMMA SlotAnswers ==
  ASSUME NEW h, Sound(h), NEW k \in 1 .. Len(h), NEW c, <<k, c>> \in Slots(h),
         Filled(h, <<k, c>>).role = "tool"
  PROVE  \E i \in 1 .. Len(h) :
           /\ Follows(h, k, i)
           /\ \E d \in h[i].calls : Filled(h, <<k, c>>).calls = {d}
           /\ c = 0 => h[k].role = "tool"
           /\ c # 0 => StubOf(h, k, c, i)
<1>1. h \in Seq(Messages) /\ Answers(h) /\ Len(h) \in Nat /\ k \in Nat
  BY DEF Sound
<1>2. CASE c = 0
  <2>1. Filled(h, <<k, c>>) = h[k]
    BY <1>2 DEF Filled
  <2>2. PICK i \in 1 .. k : Follows(h, k, i) /\ \E d \in h[i].calls : h[k].calls = {d}
    BY <1>1, <2>1 DEF Answers
  <2>3. i \in 1 .. Len(h)
    BY <1>1
  <2> QED BY <1>2, <2>1, <2>2, <2>3
<1>3. CASE c # 0
  <2>1. Filled(h, <<k, c>>).calls = {c}
    BY <1>3 DEF Filled, Result
  <2>2. PICK i \in 1 .. Len(h) : StubOf(h, k, c, i)
    BY <1>1, <1>3, SlotsAre
  <2>3. Follows(h, k, i)
    <3>1. i \in 1 .. k /\ h[i].role # "tool" /\ Run(h, i + 1, k)
      BY <1>1, <2>2 DEF StubOf
    <3> QED BY <3>1 DEF Follows
  <2>4. c \in h[i].calls
    BY <2>2 DEF StubOf, Unanswered
  <2> QED BY <1>3, <2>1, <2>2, <2>3, <2>4
<1> QED BY <1>2, <1>3

\* A run follows one message.
LEMMA OneOwner ==
  ASSUME NEW h \in Seq(Messages), NEW k \in 1 .. Len(h), NEW i \in 1 .. Len(h),
         NEW j \in 1 .. Len(h), Follows(h, k, i), Follows(h, k, j)
  PROVE  i = j
<1>1. i \in Nat /\ j \in Nat
  OBVIOUS
<1> QED BY <1>1, OwnerIs

\* Results of two slots in one run answer different calls.
LEMMA SlotsDiffer ==
  ASSUME NEW h, Sound(h), NEW k \in 1 .. Len(h), NEW c, NEW l \in 1 .. Len(h), NEW d,
         <<k, c>> \in Slots(h), <<l, d>> \in Slots(h),
         Filled(h, <<k, c>>).role = "tool", Filled(h, <<l, d>>).role = "tool",
         k < l \/ (k = l /\ c < d), Run(h, k + 1, l)
  PROVE  Filled(h, <<k, c>>).calls # Filled(h, <<l, d>>).calls
<1> USE TurnAssumption
<1>1. h \in Seq(Messages) /\ Once(h) /\ Len(h) \in Nat /\ k \in Nat /\ l \in Nat
  BY DEF Sound
<1>2. c \in Nat /\ d \in Nat
  <2>1. <<k, c>> \in (1 .. Len(h)) \X (0 .. MaxCalls) /\ <<l, d>> \in (1 .. Len(h)) \X (0 .. MaxCalls)
    BY <1>1, SlotsAre
  <2> QED BY <2>1
<1>3. PICK i \in 1 .. Len(h) :
        /\ Follows(h, k, i) /\ (c = 0 => h[k].role = "tool") /\ (c # 0 => StubOf(h, k, c, i))
  BY SlotAnswers
<1>4. PICK j \in 1 .. Len(h) :
        /\ Follows(h, l, j) /\ (d = 0 => h[l].role = "tool") /\ (d # 0 => StubOf(h, l, d, j))
  BY SlotAnswers
<1>5. i \in 1 .. k /\ h[i].role # "tool" /\ Run(h, i + 1, k) /\ i \in Nat
  BY <1>3 DEF Follows
<1>6. Run(h, i + 1, l)
  <2>1. \A x \in i + 1 .. l : x \in i + 1 .. k \/ x \in k + 1 .. l
    BY <1>1, <1>5
  <2> QED BY <1>5, <2>1 DEF Run
<1>7. Follows(h, l, i)
  <2>1. i \in 1 .. l
    BY <1>1, <1>5
  <2> QED BY <1>5, <1>6, <2>1 DEF Follows
<1>8. i = j
  BY <1>1, <1>4, <1>7, OneOwner
<1>9. /\ c = 0 => Filled(h, <<k, c>>) = h[k]
      /\ c # 0 => Filled(h, <<k, c>>).calls = {c}
      /\ d = 0 => Filled(h, <<l, d>>) = h[l]
      /\ d # 0 => Filled(h, <<l, d>>).calls = {d}
  BY DEF Filled, Result
<1>10. CASE c = 0 /\ d = 0
  <2>1. k < l
    BY <1>10
  <2>2. Run(h, k, l)
    <3>1. \A x \in k .. l : x = k \/ x \in k + 1 .. l
      BY <1>1
    <3> QED BY <1>3, <1>10, <3>1 DEF Run
  <2> QED BY <1>1, <1>9, <1>10, <2>1, <2>2 DEF Once
<1>11. CASE c = 0 /\ d # 0
  <2>1. k > i
    <3>1. k # i
      BY <1>3, <1>5, <1>11
    <3> QED BY <1>5, <3>1
  <2>2. k \in Block(h, i)
    BY <1>1, <1>5, <2>1, BlockIs
  <2>3. d \notin h[k].calls
    BY <1>4, <1>8, <1>11, <2>2 DEF StubOf, Unanswered
  <2> QED BY <1>9, <1>11, <2>3
<1>12. CASE c # 0
  <2>1. \A x \in 1 .. Len(h) : x > i /\ Run(h, i + 1, x) => x <= k
    BY <1>3, <1>12 DEF StubOf
  <2>2. l <= k
    <3>1. ASSUME k < l PROVE FALSE
      <4>1. l > i
        BY <1>1, <1>5, <3>1
      <4>2. l <= k
        BY <1>6, <2>1, <4>1
      <4> QED BY <1>1, <3>1, <4>2
    <3> QED BY <1>1, <3>1
  <2>3. c < d
    BY <1>1, <2>2
  <2>4. c # d /\ d # 0
    BY <1>2, <2>3
  <2> QED BY <1>9, <1>12, <2>4
<1> QED BY <1>10, <1>11, <1>12

\* The repair leaves a sound context, in which every call is answered.
LEMMA PatchedKeeps ==
  ASSUME NEW h, Sound(h)
  PROVE  Sound(Patched(h)) /\ Complete(Patched(h))
<1> USE TurnAssumption
<1>1. CASE Dangling(h) = {}
  <2>1. Patched(h) = h
    BY <1>1 DEF Patched
  <2> QED BY <1>1, <2>1, NothingDangles
<1>2. CASE Dangling(h) # {}
  <2> DEFINE g == Patched(h)
             m == Len(h)
             n == Len(g)
  <2>1. h \in Seq(Messages) /\ m \in Nat
    BY DEF Sound
  <2>2. /\ g \in Seq(Messages) /\ n \in Nat
        /\ \A s \in Slots(h) : Place(h, s) \in 1 .. n /\ g[Place(h, s)] = Filled(h, s)
        /\ \A x \in 1 .. n : \E s \in Slots(h) : Place(h, s) = x
        /\ \A s, t \in Slots(h) : Place(h, s) <= Place(h, t) <=> NotLater(s, t)
    BY <1>2, <2>1, PatchedIs
  <2>3. /\ \A x \in 1 .. m : <<x, 0>> \in Slots(h)
        /\ \A s \in Slots(h) : s[1] \in 1 .. m /\ s[2] \in Nat /\ s = <<s[1], s[2]>>
    <3>1. /\ \A x \in 1 .. m : <<x, 0>> \in Slots(h)
          /\ Slots(h) \subseteq (1 .. Len(h)) \X (0 .. MaxCalls)
      BY <2>1, SlotsAre
    <3> QED BY <3>1
  <2>4. m = Len(h) /\ n = Len(g)
    OBVIOUS
  <2>5. \A i, k \in 1 .. m : \A c : <<k, c>> \in Slots(h) /\ Follows(h, k, i) =>
          Follows(g, Place(h, <<k, c>>), Place(h, <<i, 0>>))
    BY <1>2, <2>1, FollowsPatched
  <2>6. \A i \in 1 .. m : g[Place(h, <<i, 0>>)] = h[i]
    BY <2>2, <2>3 DEF Filled
  <2> HIDE DEF g, m, n
  <2>7. \A x \in 1 .. n : \E k \in 1 .. m : \E c \in Nat :
          <<k, c>> \in Slots(h) /\ Place(h, <<k, c>>) = x /\ g[x] = Filled(h, <<k, c>>)
    <3> SUFFICES ASSUME NEW x \in 1 .. n
                 PROVE  \E k \in 1 .. m : \E c \in Nat :
                          <<k, c>> \in Slots(h) /\ Place(h, <<k, c>>) = x
                          /\ g[x] = Filled(h, <<k, c>>)
      OBVIOUS
    <3>1. PICK s \in Slots(h) : Place(h, s) = x
      BY <2>2
    <3>2. g[x] = Filled(h, s) /\ s = <<s[1], s[2]>> /\ s[1] \in 1 .. m /\ s[2] \in Nat
      BY <2>2, <2>3, <3>1
    <3> QED BY <3>1, <3>2
  <2>8. Answers(g)
    <3> SUFFICES ASSUME NEW x \in 1 .. n, g[x].role = "tool"
                 PROVE  \E p \in 1 .. x :
                          Follows(g, x, p) /\ \E d \in g[p].calls : g[x].calls = {d}
      BY <2>4 DEF Answers
    <3>1. PICK k \in 1 .. m : \E c \in Nat :
            <<k, c>> \in Slots(h) /\ Place(h, <<k, c>>) = x /\ g[x] = Filled(h, <<k, c>>)
      BY <2>7
    <3>2. PICK c \in Nat :
            <<k, c>> \in Slots(h) /\ Place(h, <<k, c>>) = x /\ g[x] = Filled(h, <<k, c>>)
      BY <3>1
    <3>3. PICK i \in 1 .. m :
            Follows(h, k, i) /\ \E d \in h[i].calls : Filled(h, <<k, c>>).calls = {d}
      BY <2>4, <3>2, SlotAnswers
    <3>4. Follows(g, x, Place(h, <<i, 0>>))
      BY <2>5, <3>2, <3>3
    <3>5. Place(h, <<i, 0>>) \in 1 .. x
      BY <3>4 DEF Follows
    <3> QED BY <2>6, <3>2, <3>3, <3>4, <3>5
  <2>9. Once(g)
    <3> SUFFICES ASSUME NEW x \in 1 .. n, NEW y \in 1 .. n, x < y, Run(g, x, y)
                 PROVE  g[x].calls # g[y].calls
      BY <2>4 DEF Once
    <3>1. PICK k \in 1 .. m : \E c \in Nat :
            <<k, c>> \in Slots(h) /\ Place(h, <<k, c>>) = x /\ g[x] = Filled(h, <<k, c>>)
      BY <2>7
    <3>2. PICK c \in Nat :
            <<k, c>> \in Slots(h) /\ Place(h, <<k, c>>) = x /\ g[x] = Filled(h, <<k, c>>)
      BY <3>1
    <3>3. PICK l \in 1 .. m : \E d \in Nat :
            <<l, d>> \in Slots(h) /\ Place(h, <<l, d>>) = y /\ g[y] = Filled(h, <<l, d>>)
      BY <2>7
    <3>4. PICK d \in Nat :
            <<l, d>> \in Slots(h) /\ Place(h, <<l, d>>) = y /\ g[y] = Filled(h, <<l, d>>)
      BY <3>3
    <3>5. x \in Nat /\ y \in Nat /\ k \in Nat /\ l \in Nat
      BY <2>1, <2>2
    <3>6. k < l \/ (k = l /\ c < d)
      <4>1. ~(Place(h, <<l, d>>) <= Place(h, <<k, c>>))
        BY <3>2, <3>4, <3>5
      <4>2. ~NotLater(<<l, d>>, <<k, c>>)
        BY <2>2, <3>2, <3>4, <4>1
      <4> QED BY <3>5, <4>2 DEF NotLater
    <3>7. Run(h, k + 1, l)
      <4> SUFFICES ASSUME NEW z \in k + 1 .. l PROVE h[z].role = "tool"
        BY DEF Run
      <4>1. z \in 1 .. m /\ z \in Nat /\ k < z /\ z <= l
        BY <2>1, <3>5
      <4>2. <<z, 0>> \in Slots(h) /\ g[Place(h, <<z, 0>>)] = h[z]
        BY <2>3, <2>6, <4>1
      <4>3. NotLater(<<k, c>>, <<z, 0>>) /\ NotLater(<<z, 0>>, <<l, d>>)
        BY <3>5, <4>1 DEF NotLater
      <4>4. x <= Place(h, <<z, 0>>) /\ Place(h, <<z, 0>>) <= y
        BY <2>2, <3>2, <3>4, <4>2, <4>3
      <4>5. Place(h, <<z, 0>>) \in x .. y
        BY <2>2, <3>5, <4>2, <4>4
      <4> QED BY <4>2, <4>5 DEF Run
    <3>8. g[x].role = "tool" /\ g[y].role = "tool"
      BY <3>5 DEF Run
    <3>9. Filled(h, <<k, c>>).role = "tool" /\ Filled(h, <<l, d>>).role = "tool"
      BY <3>2, <3>4, <3>8
    <3>10. <<k, c>> \in Slots(h) /\ <<l, d>> \in Slots(h) /\ k \in 1 .. Len(h) /\ l \in 1 .. Len(h)
      BY <2>4, <3>2, <3>4
    <3>11. Filled(h, <<k, c>>).calls # Filled(h, <<l, d>>).calls
      BY <3>6, <3>7, <3>9, <3>10, SlotsDiffer
    <3> QED BY <3>2, <3>4, <3>11
  <2>10. UsersOnlyTalk(g)
    <3> SUFFICES ASSUME NEW x \in 1 .. n, g[x].role = "user" PROVE g[x].calls = {}
      BY <2>4 DEF UsersOnlyTalk
    <3>1. PICK k \in 1 .. m : \E c \in Nat : g[x] = Filled(h, <<k, c>>)
      BY <2>7
    <3>2. PICK c \in Nat : g[x] = Filled(h, <<k, c>>)
      BY <3>1
    <3>3. g[x] = h[k]
      BY <3>2 DEF Filled, Result
    <3> QED BY <2>4, <3>3 DEF Sound, UsersOnlyTalk
  <2>11. Complete(g)
    <3> SUFFICES ASSUME NEW x \in 1 .. n, g[x].role = "assistant", NEW e \in g[x].calls
                 PROVE  \E y \in x + 1 .. n : Run(g, x + 1, y) /\ g[y].calls = {e}
      BY <2>4 DEF Complete
    <3>1. PICK i \in 1 .. m : \E c \in Nat :
            <<i, c>> \in Slots(h) /\ Place(h, <<i, c>>) = x /\ g[x] = Filled(h, <<i, c>>)
      BY <2>7
    <3>2. PICK c \in Nat :
            <<i, c>> \in Slots(h) /\ Place(h, <<i, c>>) = x /\ g[x] = Filled(h, <<i, c>>)
      BY <3>1
    <3>3. c = 0 /\ g[x] = h[i]
      BY <3>2 DEF Filled, Result
    <3>4. Place(h, <<i, 0>>) = x /\ h[i].role = "assistant" /\ e \in h[i].calls
      BY <3>2, <3>3
    <3>5. ASSUME NEW k \in 1 .. m, NEW d \in Nat, <<k, d>> \in Slots(h), Follows(h, k, i),
                 Filled(h, <<k, d>>).calls = {e}, <<k, d>> # <<i, 0>>
          PROVE  \E y \in x + 1 .. n : Run(g, x + 1, y) /\ g[y].calls = {e}
      <4> DEFINE y == Place(h, <<k, d>>)
      <4>1. Follows(g, y, x)
        BY <2>5, <3>4, <3>5
      <4>2. g[y].calls = {e} /\ y \in 1 .. n /\ y \in Nat /\ x \in Nat
        <5>1. y \in 1 .. n /\ g[y] = Filled(h, <<k, d>>)
          BY <2>2, <3>5
        <5> HIDE DEF y
        <5>2. g[y].calls = {e}
          BY <3>5, <5>1
        <5>3. y \in Nat /\ x \in Nat
          BY <2>2, <5>1
        <5> QED BY <5>1, <5>2, <5>3
      <4>3. ~(y <= x)
        <5>1. ASSUME NotLater(<<k, d>>, <<i, 0>>) PROVE FALSE
          <6>1. i <= k /\ i \in Nat /\ k \in Nat
            BY <2>1, <3>5 DEF Follows
          <6>2. k = i /\ d = 0
            BY <3>5, <5>1, <6>1 DEF NotLater
          <6> QED BY <3>5, <6>2
        <5>2. <<i, 0>> \in Slots(h)
          BY <2>3
        <5>3. y <= x <=> NotLater(<<k, d>>, <<i, 0>>)
          BY <2>2, <3>4, <3>5, <5>2
        <5> QED BY <5>1, <5>3
      <4> HIDE DEF y
      <4>4. y \in x + 1 .. n
        BY <2>2, <4>2, <4>3
      <4> QED BY <4>1, <4>2, <4>4 DEF Follows
    <3>6. CASE e \in Unanswered(h, i)
      <4>1. PICK k \in 1 .. m : <<k, e>> \in Slots(h) /\ StubOf(h, k, e, i)
        BY <2>1, <2>4, <3>4, <3>6, SlotsAre
      <4>2. Follows(h, k, i)
        <5>1. i \in 1 .. k /\ h[i].role # "tool" /\ Run(h, i + 1, k)
          BY <2>1, <4>1 DEF StubOf
        <5> QED BY <5>1 DEF Follows
      <4>3. e \in Nat /\ e # 0
        <5>1. h[i].calls \subseteq 1 .. MaxCalls
          <6>1. h[i] \in Messages
            BY <2>1, <2>4
          <6> QED BY <6>1 DEF Messages, Calls
        <5> QED BY <3>4, <5>1
      <4>4. Filled(h, <<k, e>>).calls = {e} /\ <<k, e>> # <<i, 0>>
        BY <4>3 DEF Filled, Result
      <4> QED BY <3>5, <4>1, <4>2, <4>3, <4>4
    <3>7. CASE e \notin Unanswered(h, i)
      <4>1. PICK k \in i + 1 .. m : Run(h, i + 1, k) /\ h[k].calls = {e}
        BY <2>4, <3>4, <3>7, AnsweredIs
      <4>2. k \in 1 .. m /\ i \in 1 .. k /\ k # i
        BY <2>1
      <4>3. Follows(h, k, i)
        BY <3>4, <4>1, <4>2 DEF Follows
      <4>4. Filled(h, <<k, 0>>).calls = {e} /\ <<k, 0>> # <<i, 0>> /\ <<k, 0>> \in Slots(h)
        BY <2>3, <4>1, <4>2 DEF Filled
      <4> QED BY <3>5, <4>2, <4>3, <4>4
    <3> QED BY <3>6, <3>7
  <2>12. Sound(g) /\ Complete(g)
    BY <2>2, <2>8, <2>9, <2>10, <2>11 DEF Sound
  <2> QED BY <2>12 DEF g
<1> QED BY <1>1, <1>2

---------------------------------------------------------------------------
(* Requests are paired                                                        *)

\* The open calls whose results belong at the end of the context.
Placed == OpenCalls \ displaced

\* Calls are held back and awaited only while tools run, and wait for approval only
\* between turns, unless they are displaced; a compaction knows where the loop goes on.
LoopInv ==
  /\ batch \subseteq Started
  /\ Having("held") # {} => batch # {} /\ pc \in {"tools", "cancelling"}
  /\ batch # {} => pc \in {"tools", "cancelling", "atools", "acancelling"}
  /\ ~(pending \subseteq displaced) => pc = "idle" \/ then = "idle"
  /\ pc = "compact" <=> then # "none"

\* A model call and its tools belong to an iteration that is allowed.
IterInv == pc \in {"llm", "tools"} \/ then = "llm" => iter < MaxIter

\* The context and what a compaction will replace it by are sound, and the results of
\* the open calls may be appended to both, but for those that are displaced; a request
\* leaves no call unanswered.
ContextInv ==
  ~orphaned =>
    /\ Fits(items, Placed)
    /\ pc = "compact" => Fits(kept, Placed)
    /\ pc = "llm" => Complete(items)

LEMMA Quiet ==
  ASSUME CallsInv, LoopInv, pc \notin {"tools", "cancelling", "atools", "acancelling"}
  PROVE  /\ batch = {} /\ rejected = {} /\ Having("held") = {} /\ OpenCalls = pending
         /\ pc # "idle" /\ then # "idle" => pending \subseteq displaced
BY DEF CallsInv, LoopInv, Approving, OpenCalls

LEMMA HeldIs ==
  ASSUME status \in [Calls -> Statuses], NEW S, NEW st, st # "held", status' = With(S, st)
  PROVE  Having("held")' = Having("held") \ S
BY DEF With, Having

\* Nothing is open any more that was not asked for between turns.
LEMMA LoopCloses ==
  ASSUME batch' = {}, Having("held")' = {},
         ~(pending' \subseteq displaced') => pc' = "idle" \/ then' = "idle",
         pc' = "compact" <=> then' # "none"
  PROVE  LoopInv'
BY DEF LoopInv

\* Steps that leave the context and the open calls alone.
LEMMA ContextUntouched ==
  ASSUME CallsInv, LoopInv, ContextInv,
         \/ \E op \in Submissions : Submit(op)
         \/ Interrupt \/ UploadStart \/ NothingToApprove \/ CancelTools \/ LLMError
         \/ \E c \in Calls : ToolReturns(c) \/ ToolStops(c)
         \/ UNCHANGED vars
  PROVE  LoopInv' /\ ContextInv'
<1>1. /\ UNCHANGED <<items, kept, then, pending, batch, rejected, displaced, orphaned>>
      /\ \/ pc' = pc
         \/ pc = "tools" /\ pc' = "cancelling"
         \/ pc = "atools" /\ pc' = "acancelling"
         \/ pc = "llm" /\ pc' = "idle"
  BY DEF Submit, Interrupt, UploadStart, NothingToApprove, Dequeue, CancelTools, LLMError,
         EndTurn, ToolReturns, ToolStops, ToolStep, ctxVars, loopVars, callVars, vars
<1>2. Having("held")' = Having("held") /\ Started' = Started
  <2>1. CASE UNCHANGED status
    BY <2>1 DEF Having, Started
  <2>2. CASE \E c \in Calls : ToolReturns(c) \/ ToolStops(c)
    <3>1. PICK c \in Calls : \E st \in {"finished", "raised", "stopped"} : ToolStep(c, st)
      BY <2>2 DEF ToolReturns, ToolStops
    <3>2. PICK st \in {"finished", "raised", "stopped"} :
            status[c] = "running" /\ status' = With({c}, st)
      BY <3>1 DEF ToolStep
    <3> QED BY <3>2 DEF With, Having, Started
  <2> QED BY <2>1, <2>2 DEF Submit, Interrupt, UploadStart, NothingToApprove, CancelTools,
             LLMError, callVars, vars
<1>3. Placed' = Placed
  BY <1>1, <1>2 DEF OpenCalls, Placed
<1>4. LoopInv'
  BY <1>1, <1>2, Quiet DEF LoopInv
<1>5. ContextInv'
  BY <1>1, <1>3 DEF ContextInv
<1> QED BY <1>4, <1>5

\* A message or a decision without a yes: the calls that wait get results, and no more
\* is open.
LEMMA ContextStarts ==
  ASSUME CallsInv, LoopInv, ContextInv, UserInput \/ EmptyInput \/ Undo
  PROVE  LoopInv' /\ ContextInv'
<1>1. /\ pc = "idle" /\ batch' = {} /\ rejected' = {} /\ rejected = {}
      /\ OpenCalls = pending /\ Having("held") = {} /\ then = "none"
  <2>1. pc = "idle" /\ batch' = batch /\ rejected' = rejected
    BY DEF UserInput, EmptyInput, Undo, Dequeue, callVars
  <2>2. then = "none"
    BY <2>1 DEF LoopInv
  <2> QED BY <2>1, <2>2, Quiet
<1>2. CASE UserInput
  <2>1. /\ items' = items \o Results(pending) \o <<User>> /\ pending' = {}
        /\ status' = With(pending, "closed") /\ pc' = "loop" /\ then' = "none"
        /\ orphaned' = (orphaned \/ pending \cap displaced # {})
    BY <1>2 DEF UserInput, StartRun, Answer
  <2>2. Having("held")' = {}
    BY <1>1, <2>1, HeldIs DEF CallsInv
  <2>3. LoopInv'
    BY <1>1, <2>1, <2>2, LoopCloses
  <2>4. Placed' = {}
    BY <1>1, <2>1, <2>2 DEF OpenCalls, Placed
  <2>5. ASSUME ~orphaned' PROVE Fits(items', {})
    <3>1. Fits(items, pending) /\ pending \in SUBSET Calls
      <4>1. pending \ displaced = pending /\ ~orphaned
        BY <2>1, <2>5
      <4> QED BY <1>1, <4>1 DEF ContextInv, Placed, CallsInv, Having
    <3>2. Fits(items \o Results(pending), pending \ pending)
      BY <3>1, SayResults
    <3>3. Sound(items \o Results(pending) \o <<User>>)
      BY <3>2, SayUser DEF Fits
    <3> QED BY <2>1, <3>3 DEF Fits, Awaits
  <2>6. ContextInv'
    BY <2>1, <2>4, <2>5 DEF ContextInv
  <2> QED BY <2>3, <2>6
<1>3. CASE EmptyInput \/ Undo
  <2>1. /\ pending' = pending /\ status' = status
        /\ displaced' = displaced \cup pending /\ orphaned' = orphaned
        /\ items' = items \/ items' = Undone(items)
        /\ pc' \in {"idle", "loop"} /\ then' = "none"
    BY <1>1, <1>3 DEF EmptyInput, Undo, StartRun, Displace, callVars, loopVars
  <2>2. Having("held")' = {}
    BY <1>1, <2>1 DEF Having
  <2>3. LoopInv'
    BY <1>1, <2>1, <2>2, LoopCloses
  <2>4. Placed' = {}
    BY <1>1, <2>1, <2>2 DEF OpenCalls, Placed
  <2>5. ASSUME ~orphaned' PROVE Fits(items', {})
    <3>1. Sound(items)
      BY <2>1, <2>5 DEF ContextInv, Fits
    <3>2. Sound(items')
      BY <2>1, <3>1, UndoneKeeps
    <3> QED BY <3>1, <3>2 DEF Fits, Awaits
  <2>6. ContextInv'
    BY <2>1, <2>4, <2>5 DEF ContextInv
  <2> QED BY <2>3, <2>6
<1> QED BY <1>2, <1>3

\* A decision: the calls it starts and those it rejects stay open until the tools are
\* done; with none to start the rejections are answered at once.
LEMMA ContextDecided ==
  ASSUME CallsInv, LoopInv, ContextInv, ExecApproval
  PROVE  LoopInv' /\ ContextInv'
<1> DEFINE yes == Head(queue).yes \cap pending
<1>1. pc = "idle" /\ pending' = {} /\ displaced' = displaced /\ Decide(yes) /\ kept' = kept
  BY DEF ExecApproval, Decide, Dequeue
<1>2. /\ batch = {} /\ rejected = {} /\ Having("held") = {} /\ OpenCalls = pending
      /\ then = "none" /\ status \in [Calls -> Statuses]
      /\ pending \in SUBSET Calls /\ yes \in SUBSET Calls /\ yes \subseteq pending
  <2>1. then = "none"
    BY <1>1 DEF LoopInv
  <2> QED BY <1>1, <2>1, Quiet DEF CallsInv, Having
<1> HIDE DEF yes
<1>3. CASE yes # {}
  <2>1. /\ batch' = yes /\ rejected' = pending \ yes /\ status' = With(yes, "running")
        /\ pc' = "atools" /\ then' = then /\ items' = items /\ orphaned' = orphaned
    BY <1>1, <1>3 DEF Decide
  <2>2. Having("held")' = {}
    BY <1>2, <2>1, HeldIs
  <2>3. batch' \subseteq Started'
    BY <1>2, <2>1 DEF Started, Having, With
  <2>4. Placed' = Placed
    <3>1. OpenCalls' = pending
      BY <1>1, <1>2, <2>1, <2>2 DEF OpenCalls
    <3> QED BY <1>1, <1>2, <3>1 DEF Placed
  <2>5. LoopInv'
    BY <1>1, <1>2, <2>1, <2>2, <2>3 DEF LoopInv
  <2>6. ContextInv'
    BY <1>1, <1>2, <2>1, <2>4 DEF ContextInv
  <2> QED BY <2>5, <2>6
<1>4. CASE yes = {}
  <2>1. /\ batch' = {} /\ rejected' = {} /\ status' = With(pending, "closed")
        /\ pc' = "loop" /\ then' = "none" /\ items' = items \o Results(pending)
        /\ orphaned' = (orphaned \/ pending \cap displaced # {})
    BY <1>1, <1>2, <1>4 DEF Decide, StartRun, Answer
  <2>2. Having("held")' = {}
    BY <1>2, <2>1, HeldIs
  <2>3. LoopInv'
    BY <1>1, <2>1, <2>2, LoopCloses
  <2>4. Placed' = {}
    BY <1>1, <2>1, <2>2 DEF OpenCalls, Placed
  <2>5. ASSUME ~orphaned' PROVE Fits(items', {})
    <3>1. Fits(items, pending)
      <4>1. pending \ displaced = pending /\ ~orphaned
        BY <2>1, <2>5
      <4> QED BY <1>2, <4>1 DEF ContextInv, Placed
    <3>2. Fits(items \o Results(pending), pending \ pending)
      BY <1>2, <3>1, SayResults
    <3>3. pending \ pending = {}
      OBVIOUS
    <3> QED BY <2>1, <3>2, <3>3
  <2>6. ContextInv'
    BY <1>1, <2>1, <2>4, <2>5 DEF ContextInv
  <2> QED BY <2>3, <2>6
<1> QED BY <1>3, <1>4

\* What a compaction leaves or will install takes the results of the open calls; one that
\* goes on with a request has none open.
LEMMA ContextContinues ==
  ASSUME NEW next, NEW h, NEW S, Continue(next, h), Fits(h, S), next = "llm" => S = {}
  PROVE  Fits(items', S) /\ (pc' = "llm" => Complete(items'))
<1>1. CASE next = "llm"
  <2>1. PICK hint \in Hints(h) : items' = Patched(h \o hint)
    BY <1>1 DEF Continue
  <2>2. hint = <<>> \/ hint = <<User>>
    BY DEF Hints
  <2>3. Sound(h) /\ h \in Seq(Messages)
    BY DEF Fits, Sound
  <2>4. Sound(h \o hint)
    <3>1. CASE hint = <<>>
      <4>1. h \o hint = h
        BY <2>3, <3>1
      <4> QED BY <2>3, <4>1
    <3>2. CASE hint = <<User>>
      BY <2>3, <3>2, SayUser
    <3> QED BY <2>2, <3>1, <3>2
  <2>5. Sound(items') /\ Complete(items')
    BY <2>1, <2>4, PatchedKeeps
  <2> QED BY <1>1, <2>5 DEF Fits, Awaits
<1>2. CASE next # "llm"
  BY <1>2 DEF Continue
<1> QED BY <1>1, <1>2

\* A compaction, as the user's operation, before a request or because the model refused
\* the context.
LEMMA ContextCompacts ==
  ASSUME CallsInv, LoopInv, ContextInv, NEW next \in {"idle", "llm", "loop"},
         Compact(next), pc \in {"idle", "loop", "llm"}, next = "idle" <=> pc = "idle",
         UNCHANGED <<pending, batch, rejected, status>>
  PROVE  LoopInv' /\ ContextInv'
<1>1. /\ batch = {} /\ rejected = {} /\ Having("held") = {} /\ OpenCalls = pending
      /\ then = "none" /\ (next # "idle" => pending \subseteq displaced)
  <2>1. then = "none"
    BY DEF LoopInv
  <2> QED BY <2>1, Quiet
<1>2. /\ Having("held")' = {} /\ OpenCalls' = pending /\ batch' = {}
      /\ Placed = pending \ displaced /\ Placed' = Placed
  <2>1. Having("held")' = {}
    BY <1>1 DEF Having
  <2>2. OpenCalls' = pending /\ displaced' = displaced
    BY <1>1, <2>1 DEF OpenCalls, Compact
  <2> QED BY <1>1, <2>1, <2>2 DEF Placed
<1>3. orphaned' = (orphaned \/ DropsCalls(items)) /\ displaced' = displaced
  BY DEF Compact
<1>4. \/ /\ Continue(next, Shortened(items)) /\ pc' = next /\ then' = "none"
      \/ /\ items' = Shortened(items) /\ pc' = "idle" /\ then' = "none"
      \/ /\ kept' = Summarised(items) /\ then' = next /\ pc' = "compact" /\ items' = items
  BY <1>1 DEF Compact, Continue, CompactionFailed, EndTurn
<1>5. LoopInv'
  BY <1>1, <1>2, <1>3, <1>4, LoopCloses
<1>6. ASSUME ~orphaned'
      PROVE  /\ Fits(items', Placed)
             /\ pc' = "compact" => Fits(kept', Placed)
             /\ pc' = "llm" => Complete(items')
  <2>1. Fits(items, Placed) /\ ~DropsCalls(items) /\ (next # "idle" => Placed = {})
    BY <1>1, <1>2, <1>3, <1>6 DEF ContextInv
  <2>2. Fits(Shortened(items), Placed) /\ Fits(Summarised(items), Placed)
    BY <2>1, CompactionKeeps
  <2>3. CASE Continue(next, Shortened(items)) /\ pc' = next
    BY <2>1, <2>2, <2>3, ContextContinues
  <2>4. CASE items' = Shortened(items) /\ pc' = "idle"
    BY <2>2, <2>4
  <2>5. CASE kept' = Summarised(items) /\ pc' = "compact" /\ items' = items
    BY <2>1, <2>2, <2>5
  <2> QED BY <1>4, <2>3, <2>4, <2>5
<1>7. ContextInv'
  BY <1>2, <1>6 DEF ContextInv
<1> QED BY <1>5, <1>7

\* The steps that compact or check the context before a request.
LEMMA ContextLoops ==
  ASSUME CallsInv, LoopInv, ContextInv, \/ CompactOp \/ CompactEnd \/ SummaryFails
                                        \/ SummaryTimesOut \/ LoopTop \/ LLMOverflow
  PROVE  LoopInv' /\ ContextInv'
<1>1. CASE CompactOp
  <2>1. pc = "idle" /\ UNCHANGED <<pending, batch, rejected, status>>
    BY <1>1 DEF CompactOp, Dequeue, callVars
  <2>2. CASE Compact("idle")
    BY <2>1, <2>2, ContextCompacts
  <2>3. CASE UNCHANGED <<items, kept, then, pc, ended, alive, displaced, orphaned>>
    <3>1. Having("held")' = Having("held") /\ Started' = Started
      BY <2>1 DEF Having, Started
    <3>2. Placed' = Placed
      BY <2>1, <2>3, <3>1 DEF OpenCalls, Placed
    <3>3. LoopInv'
      BY <2>1, <2>3, <3>1 DEF LoopInv
    <3>4. ContextInv'
      BY <2>3, <3>2 DEF ContextInv
    <3> QED BY <3>3, <3>4
  <2> QED BY <1>1, <2>2, <2>3 DEF CompactOp
<1>2. CASE LLMOverflow
  <2>1. pc = "llm" /\ Compact("loop") /\ UNCHANGED <<pending, batch, rejected, status>>
    BY <1>2 DEF LLMOverflow, callVars
  <2> QED BY <2>1, ContextCompacts
<1>3. CASE LoopTop
  <2>1. pc = "loop" /\ UNCHANGED <<pending, batch, rejected, status>>
    BY <1>3 DEF LoopTop, callVars
  <2>2. CASE Compact("llm")
    BY <2>1, <2>2, ContextCompacts
  <2>3. CASE /\ UNCHANGED <<kept, then, displaced, orphaned>>
             /\ \/ EndTurn(0) /\ items' = items
                \/ Continue("llm", items)
    <3>1. /\ batch = {} /\ rejected = {} /\ Having("held") = {} /\ OpenCalls = pending
          /\ then = "none" /\ pending \subseteq displaced
      <4>1. then = "none"
        BY <2>1 DEF LoopInv
      <4> QED BY <2>1, <4>1, Quiet
    <3>2. Having("held")' = {} /\ Placed = {} /\ Placed' = {} /\ batch' = {}
      <4>1. Having("held")' = {}
        BY <2>1, <3>1 DEF Having
      <4> QED BY <2>1, <2>3, <3>1, <4>1 DEF OpenCalls, Placed
    <3>3. /\ pc' \in {"idle", "llm"}
          /\ pc' = "idle" => items' = items
          /\ pc' = "llm" => Continue("llm", items)
      BY <2>3 DEF EndTurn, Continue
    <3>4. LoopInv'
      BY <2>1, <2>3, <3>1, <3>2, <3>3, LoopCloses
    <3>5. ASSUME ~orphaned
          PROVE  Fits(items', {}) /\ (pc' = "llm" => Complete(items'))
      <4>1. Fits(items, {})
        BY <3>2, <3>5 DEF ContextInv
      <4> QED BY <3>3, <4>1, ContextContinues
    <3>6. ContextInv'
      BY <2>3, <3>2, <3>3, <3>5 DEF ContextInv
    <3> QED BY <3>4, <3>6
  <2> QED BY <1>3, <2>2, <2>3 DEF LoopTop
<1>4. CASE CompactEnd \/ SummaryFails \/ SummaryTimesOut
  <2>1. /\ pc = "compact" /\ then' = "none" /\ UNCHANGED <<displaced, orphaned>>
        /\ UNCHANGED <<pending, batch, rejected, status>>
        /\ \/ Continue(then, kept) /\ pc' = then
           \/ items' \in {items, kept} /\ pc' = "idle"
    BY <1>4 DEF CompactEnd, SummaryOver, SummaryFails, SummaryTimesOut, callVars, Continue,
                CompactionFailed, EndTurn
  <2>2. /\ batch = {} /\ rejected = {} /\ Having("held") = {} /\ OpenCalls = pending
        /\ (then # "idle" => pending \subseteq displaced)
        /\ then \in {"llm", "loop", "idle"}
    <3>1. then \in {"llm", "loop", "idle"}
      BY <2>1 DEF LoopInv, CallsInv
    <3> QED BY <2>1, <3>1, Quiet
  <2>3. Having("held")' = {} /\ Placed' = Placed /\ batch' = {}
    <3>1. Having("held")' = {}
      BY <2>1, <2>2 DEF Having
    <3> QED BY <2>1, <2>2, <3>1 DEF OpenCalls, Placed
  <2>4. LoopInv'
    BY <2>1, <2>2, <2>3, LoopCloses
  <2>5. ASSUME ~orphaned
        PROVE  Fits(items', Placed) /\ (pc' = "llm" => Complete(items'))
    <3>1. /\ Fits(items, Placed) /\ Fits(kept, Placed)
          /\ then # "idle" => Placed = {}
      BY <2>1, <2>2, <2>5 DEF ContextInv, Placed
    <3>2. CASE Continue(then, kept)
      BY <3>1, <3>2, ContextContinues
    <3>3. CASE items' \in {items, kept} /\ pc' = "idle"
      BY <3>1, <3>3
    <3> QED BY <2>1, <3>2, <3>3
  <2>6. ContextInv'
    BY <2>1, <2>2, <2>3, <2>5 DEF ContextInv
  <2> QED BY <2>4, <2>6
<1> QED BY <1>1, <1>2, <1>3, <1>4

\* The model's answer without calls.
LEMMA ContextAnswered ==
  ASSUME CallsInv, LoopInv, ContextInv, LLMText \/ LLMRetry
  PROVE  LoopInv' /\ ContextInv'
<1>1. /\ pc = "llm"
      /\ UNCHANGED <<pending, batch, rejected, status, then, displaced, orphaned>>
      /\ pc' \in {"idle", "loop"}
      /\ \/ items' = Append(items, Assistant({}))
         \/ items' = items \o <<Assistant({}), User>>
  BY DEF LLMText, LLMRetry, EndTurn, callVars
<1>2. /\ batch = {} /\ rejected = {} /\ Having("held") = {} /\ OpenCalls = pending
      /\ then = "none" /\ pending \subseteq displaced
  <2>1. then = "none"
    BY <1>1 DEF LoopInv
  <2> QED BY <1>1, <2>1, Quiet
<1>3. Having("held")' = {} /\ Placed' = {} /\ batch' = {}
  <2>1. Having("held")' = {}
    BY <1>1, <1>2 DEF Having
  <2> QED BY <1>1, <1>2, <2>1 DEF OpenCalls, Placed
<1>4. LoopInv'
  BY <1>1, <1>2, <1>3, LoopCloses
<1>5. ASSUME ~orphaned PROVE Fits(items', {})
  <2>1. Sound(items) /\ items \in Seq(Messages)
    BY <1>5 DEF ContextInv, Fits, Sound
  <2>2. {} \in SUBSET Calls
    OBVIOUS
  <2>3. /\ Fits(items \o <<Assistant({})>>, {})
        /\ Append(items, Assistant({})) = items \o <<Assistant({})>>
    BY <2>1, <2>2, SayCalls
  <2>4. Sound(items \o <<Assistant({})>> \o <<User>>)
    BY <2>3, SayUser DEF Fits
  <2>5. items \o <<Assistant({}), User>> = items \o <<Assistant({})>> \o <<User>>
    <3>1. Assistant({}) \in Messages /\ User \in Messages
      BY <2>2, NewMessages
    <3> QED BY <2>1, <3>1
  <2> QED BY <1>1, <2>3, <2>4, <2>5 DEF Fits, Awaits
<1>6. ContextInv'
  BY <1>1, <1>2, <1>3, <1>5 DEF ContextInv
<1> QED BY <1>4, <1>6

\* The model's calls: malformed ones are answered, those that run, are held back or wait
\* for the user are open.
LEMMA ContextCalls ==
  ASSUME CallsInv, LoopInv, ContextInv, NEW new \in NewCalls,
         NEW kind \in [new -> {"bad", "auto", "ask"}], LLMCalls(new, kind)
  PROVE  LoopInv' /\ ContextInv'
<1> DEFINE auto == {c \in new : kind[c] = "auto"}
           ask  == {c \in new : kind[c] = "ask"}
           bad  == new \ (auto \cup ask)
<1>1. /\ pc = "llm" /\ UNCHANGED <<rejected, then, displaced, orphaned>>
      /\ items' = items \o <<Assistant(new)>> \o Results(bad)
  BY DEF LLMCalls
<1>2. /\ batch = {} /\ rejected = {} /\ Having("held") = {} /\ OpenCalls = pending
      /\ then = "none" /\ pending \subseteq displaced
      /\ status \in [Calls -> Statuses]
  <2>1. then = "none"
    BY <1>1 DEF LoopInv
  <2> QED BY <1>1, <2>1, Quiet DEF CallsInv
<1>3. new \in SUBSET Calls
  BY NewCallsUnused
<1>4. ASSUME ~orphaned PROVE Fits(items', new \ bad)
  <2>1. Sound(items)
    BY <1>4 DEF ContextInv, Fits
  <2>2. Fits(items \o <<Assistant(new)>>, new)
    BY <1>3, <2>1, SayCalls
  <2>3. bad \in SUBSET new
    OBVIOUS
  <2> HIDE DEF bad
  <2> QED BY <1>1, <1>3, <2>2, <2>3, SayResults
<1>5. CASE cancelled
  <2>1. /\ status' = With(new, "closed") /\ pc' = "idle" /\ batch' = {} /\ pending' = pending
    BY <1>2, <1>5 DEF LLMCalls, EndTurn
  <2>2. Having("held")' = {}
    BY <1>2, <2>1, HeldIs
  <2>3. LoopInv'
    BY <1>1, <1>2, <2>1, <2>2, LoopCloses
  <2>4. Placed' = {}
    BY <1>1, <1>2, <2>1, <2>2 DEF OpenCalls, Placed
  <2>5. ASSUME ~orphaned PROVE Fits(items', {})
    BY <1>4, <2>5, FitsLess
  <2>6. ContextInv'
    BY <1>1, <1>2, <2>1, <2>4, <2>5 DEF ContextInv
  <2> QED BY <2>3, <2>6
<1>6. CASE ~cancelled /\ auto = {}
  <2>1. /\ batch' = {} /\ pc' \in {"idle", "loop"}
        /\ ask # {} => pending' = ask /\ pc' = "idle"
        /\ ask = {} => pending' = pending
    BY <1>6 DEF LLMCalls, AskOrGoOn
  <2>2. status' = [c \in Calls |-> CASE c \in auto -> "running"
                                     [] c \in ask -> IF auto = {} THEN "asked" ELSE "held"
                                     [] c \in new \ (auto \cup ask) -> "closed"
                                     [] OTHER -> status[c]]
    BY <1>6 DEF LLMCalls
  <2>3. \A c \in Calls : status'[c] = "held" => status[c] = "held"
    BY <1>6, <2>2
  <2>4. Having("held")' = {}
    BY <1>2, <2>3 DEF Having
  <2>5. ask \subseteq new \ bad
    OBVIOUS
  <2> HIDE DEF auto, ask, bad
  <2>6. LoopInv'
    BY <1>1, <1>2, <2>1, <2>4, LoopCloses
  <2>7. Placed' = pending' \ displaced
    BY <1>1, <1>2, <2>1, <2>4 DEF OpenCalls, Placed
  <2>8. ASSUME ~orphaned PROVE Fits(items', Placed')
    <3>1. Placed' \subseteq new \ bad
      BY <1>2, <2>1, <2>5, <2>7
    <3> QED BY <1>4, <2>8, <3>1, FitsLess
  <2>9. ContextInv'
    BY <1>1, <2>1, <2>7, <2>8 DEF ContextInv
  <2> QED BY <2>6, <2>9
<1>7. CASE ~cancelled /\ auto # {}
  <2>1. batch' = auto /\ pc' = "tools" /\ pending' = pending
    BY <1>7 DEF LLMCalls
  <2>2. status' = [c \in Calls |-> CASE c \in auto -> "running"
                                     [] c \in ask -> IF auto = {} THEN "asked" ELSE "held"
                                     [] c \in new \ (auto \cup ask) -> "closed"
                                     [] OTHER -> status[c]]
    BY <1>7 DEF LLMCalls
  <2>3. \A c \in Calls : /\ status'[c] = "held" => c \in ask \/ status[c] = "held"
                         /\ c \in auto => status'[c] = "running"
    BY <1>7, <2>2
  <2>4. Having("held")' \subseteq ask
    BY <1>2, <2>3 DEF Having
  <2>5. auto \subseteq Started'
    BY <1>3, <2>3 DEF Started, Having
  <2>6. ask \cup auto \subseteq new \ bad
    OBVIOUS
  <2> HIDE DEF auto, ask, bad
  <2>7. LoopInv'
    BY <1>1, <1>2, <1>7, <2>1, <2>4, <2>5 DEF LoopInv
  <2>8. OpenCalls' \subseteq pending \cup ask \cup auto
    BY <1>1, <1>2, <2>1, <2>4 DEF OpenCalls
  <2>9. ASSUME ~orphaned PROVE Fits(items', Placed')
    <3>1. Placed' \subseteq new \ bad
      BY <1>1, <1>2, <2>6, <2>8 DEF Placed
    <3> QED BY <1>4, <2>9, <3>1, FitsLess
  <2>10. ContextInv'
    BY <1>1, <2>1, <2>9 DEF ContextInv
  <2> QED BY <2>7, <2>10
<1> QED BY <1>5, <1>6, <1>7

\* The end of a batch: results for the calls that finished, and for the others when the
\* decision rejected them; a call that is given up stays without one.
LEMMA ContextBatchEnds ==
  ASSUME CallsInv, LoopInv, ContextInv, CancelDone \/ ToolsFail \/ RecordResults \/ Resume
  PROVE  LoopInv' /\ ContextInv'
<1>1. status \in [Calls -> Statuses] /\ rejected \subseteq Having("asked")
      /\ batch \subseteq Started /\ pending \subseteq Having("asked")
  BY DEF CallsInv, LoopInv
<1>2. Placed \in SUBSET Calls
  BY <1>1 DEF OpenCalls, Placed, Started, Having
<1>3. CASE CancelDone \/ ToolsFail
  <2>1. /\ status' = With(Having("held") \cup rejected, "closed")
        /\ batch' = {} /\ rejected' = {}
        /\ UNCHANGED <<items, kept, then, pending, displaced, orphaned>>
        /\ pc' = "idle" /\ pc # "compact"
    BY <1>3 DEF CancelDone, ToolsFail, GiveUp, EndTurn, ctxVars
  <2>2. Having("held")' = {}
    BY <1>1, <2>1, HeldIs
  <2>3. then' = "none"
    BY <2>1 DEF LoopInv
  <2>4. LoopInv'
    BY <2>1, <2>2, <2>3, LoopCloses
  <2>5. Placed' \subseteq Placed
    BY <2>1, <2>2 DEF OpenCalls, Placed
  <2>6. ASSUME ~orphaned PROVE Fits(items', Placed')
    BY <2>1, <2>5, <2>6, FitsLess DEF ContextInv
  <2>7. ContextInv'
    BY <2>1, <2>5, <2>6 DEF ContextInv
  <2> QED BY <2>4, <2>7
<1>4. CASE RecordResults
  <2> DEFINE held == Having("held")
  <2>1. /\ pc = "tools" /\ batch \subseteq Having("finished")
        /\ items' = items \o Results(batch) /\ batch' = {}
        /\ status' = With(held, "asked") /\ UNCHANGED <<then, rejected, displaced>>
        /\ orphaned' = (orphaned \/ batch \cap displaced # {})
        /\ held # {} => pending' = held /\ pc' = "idle"
        /\ held = {} => pending' = pending /\ pc' = "loop"
    BY <1>4 DEF RecordResults, AskOrGoOn, Answer
  <2>2. then = "none" /\ rejected = {} /\ pending \subseteq displaced
    BY <2>1 DEF LoopInv, CallsInv, Approving
  <2>3. Having("held")' = {}
    BY <1>1, <2>1, HeldIs
  <2>4. OpenCalls = pending \cup batch \cup held /\ batch \cap held = {}
    BY <1>1, <2>1, <2>2 DEF OpenCalls, Having
  <2> HIDE DEF held
  <2>5. Placed' = pending' \ displaced
    BY <2>1, <2>2, <2>3 DEF OpenCalls, Placed
  <2>6. LoopInv'
    BY <2>1, <2>2, <2>3, LoopCloses
  <2>7. ASSUME ~orphaned' PROVE Fits(items', Placed')
    <3>1. Fits(items, Placed) /\ batch \in SUBSET Placed
      BY <2>1, <2>4, <2>7 DEF ContextInv, Placed
    <3>2. Fits(items', Placed \ batch)
      BY <1>2, <2>1, <3>1, SayResults
    <3>3. Placed' \subseteq Placed \ batch
      BY <2>1, <2>2, <2>4, <2>5 DEF Placed
    <3> QED BY <3>2, <3>3, FitsLess
  <2>8. ContextInv'
    BY <2>1, <2>5, <2>7 DEF ContextInv
  <2> QED BY <2>6, <2>8
<1>5. CASE Resume
  <2> DEFINE done == batch \cap Having("finished")
  <2>1. /\ pc = "atools" /\ items' = items \o Results(done) \o Results(rejected)
        /\ status' = With(rejected, "closed") /\ batch' = {} /\ rejected' = {}
        /\ pc' = "loop" /\ then' = "none" /\ UNCHANGED <<pending, displaced>>
        /\ orphaned' = (orphaned \/ (done \cup rejected) \cap displaced # {})
    BY <1>5 DEF Resume, StartRun, Answer
  <2>2. pending = {}
    BY <2>1 DEF CallsInv, Approving
  <2>3. Having("held")' = {}
    <3>1. Having("held") = {}
      BY <2>1 DEF LoopInv
    <3> QED BY <1>1, <2>1, <3>1, HeldIs
  <2>4. LoopInv'
    BY <2>1, <2>2, <2>3, LoopCloses
  <2>5. Placed' = {}
    BY <2>1, <2>2, <2>3 DEF OpenCalls, Placed
  <2>6. done \in SUBSET OpenCalls /\ rejected \in SUBSET (OpenCalls \ done)
    <3>1. rejected \cap Having("finished") = {}
      BY <1>1 DEF Having
    <3> QED BY <3>1 DEF OpenCalls
  <2> HIDE DEF done
  <2>7. ASSUME ~orphaned' PROVE Fits(items', {})
    <3>1. /\ Fits(items, Placed) /\ done \in SUBSET Placed
          /\ rejected \in SUBSET (Placed \ done)
      BY <2>1, <2>6, <2>7 DEF ContextInv, Placed
    <3>2. Fits(items \o Results(done), Placed \ done)
      BY <1>2, <3>1, SayResults
    <3>3. Placed \ done \in SUBSET Calls
      BY <1>2
    <3>4. Fits(items', (Placed \ done) \ rejected)
      BY <2>1, <3>1, <3>2, <3>3, SayResults
    <3> QED BY <3>4, FitsLess
  <2>8. ContextInv'
    BY <2>1, <2>5, <2>7 DEF ContextInv
  <2> QED BY <2>4, <2>8
<1> QED BY <1>3, <1>4, <1>5

\* The routes edit the context beside the loop, which displaces the open calls.
LEMMA ContextEdited ==
  ASSUME CallsInv, LoopInv, ContextInv, UploadEnd \/ \E i \in Users(items) : Truncate(i)
  PROVE  LoopInv' /\ ContextInv'
<1>1. /\ UNCHANGED <<kept, then, pc, pending, batch, rejected, status>>
      /\ orphaned' = orphaned
      /\ \/ items' = items /\ displaced' = displaced
         \/ /\ items' = Append(items, User) \/ \E i \in Users(items) : items' = Before(items, i)
            /\ displaced' = displaced \cup OpenCalls
  BY DEF UploadEnd, Truncate, Displace, loopVars, callVars
<1>2. Having("held")' = Having("held") /\ Started' = Started
  BY <1>1 DEF Having, Started
<1>3. /\ Placed' \subseteq Placed
      /\ items' # items => Placed' = {}
  BY <1>1, <1>2 DEF OpenCalls, Placed
<1>4. LoopInv'
  BY <1>1, <1>2 DEF LoopInv
<1>5. ASSUME ~orphaned
      PROVE  /\ Fits(items', Placed')
             /\ pc = "llm" => Complete(items')
             /\ pc = "compact" => Fits(kept, Placed')
  <2>1. /\ Fits(items, Placed) /\ Sound(items) /\ items \in Seq(Messages)
        /\ pc = "llm" => Complete(items)
        /\ pc = "compact" => Fits(kept, Placed)
    BY <1>5 DEF ContextInv, Fits, Sound
  <2>2. CASE items' = items
    BY <1>3, <2>1, <2>2, FitsLess
  <2>3. CASE items' # items /\ items' = Append(items, User)
    <3>1. Sound(items \o <<User>>) /\ items' = items \o <<User>>
      BY <2>1, <2>3, SayUser
    <3>2. pc = "llm" => Complete(items \o <<User>>)
      BY <2>1, CompleteUser
    <3> QED BY <1>3, <2>1, <2>3, <3>1, <3>2, FitsLess DEF Fits, Awaits
  <2>4. CASE items' # items /\ \E i \in Users(items) : items' = Before(items, i)
    <3>1. PICK i \in Users(items) : items' = Before(items, i)
      BY <2>4
    <3>2. i \in 1 .. Len(items) /\ items[i].role # "tool"
      BY <2>1 DEF Users
    <3>3. Sound(items') /\ (pc = "llm" => Complete(items'))
      BY <2>1, <3>1, <3>2, BeforeKeeps
    <3> QED BY <1>3, <2>1, <2>4, <3>3, FitsLess DEF Fits, Awaits
  <2> QED BY <1>1, <2>2, <2>3, <2>4
<1>6. ContextInv'
  BY <1>1, <1>5 DEF ContextInv
<1> QED BY <1>4, <1>6

\* Every step keeps the context sound.
LEMMA ContextStep == CallsInv /\ LoopInv /\ ContextInv /\ [Next]_vars => LoopInv' /\ ContextInv'
<1> SUFFICES ASSUME CallsInv, LoopInv, ContextInv, [Next]_vars
             PROVE  LoopInv' /\ ContextInv'
  OBVIOUS
<1>1. CASE Serve
  <2>1. CASE UserInput \/ EmptyInput \/ Undo
    BY <2>1, ContextStarts
  <2>2. CASE ExecApproval
    BY <2>2, ContextDecided
  <2>3. CASE \/ CompactOp \/ CompactEnd \/ SummaryFails \/ SummaryTimesOut \/ LoopTop
             \/ LLMOverflow
    BY <2>3, ContextLoops
  <2>4. CASE LLMText \/ LLMRetry
    BY <2>4, ContextAnswered
  <2>5. CASE \E new \in NewCalls : \E kind \in [new -> {"bad", "auto", "ask"}] :
               LLMCalls(new, kind)
    BY <2>5, ContextCalls
  <2>6. CASE CancelDone \/ ToolsFail \/ RecordResults \/ Resume
    BY <2>6, ContextBatchEnds
  <2>7. CASE NothingToApprove \/ LLMError \/ CancelTools
    BY <2>7, ContextUntouched
  <2> QED BY <1>1, <2>1, <2>2, <2>3, <2>4, <2>5, <2>6, <2>7 DEF Serve
<1>2. CASE UploadEnd \/ \E i \in Users(items) : Truncate(i)
  BY <1>2, ContextEdited
<1>3. CASE \/ \E op \in Submissions : Submit(op)
           \/ Interrupt \/ UploadStart
           \/ \E c \in Calls : ToolReturns(c) \/ ToolStops(c)
           \/ UNCHANGED vars
  BY <1>3, ContextUntouched
<1> QED BY <1>1, <1>2, <1>3 DEF Next

\* The context stays sound, whatever is asked, decided, interrupted, compacted or undone,
\* for any number of calls, submissions and iterations.
THEOREM ContextInvariant == Spec => [](LoopInv /\ ContextInv)
<1>1. Init => LoopInv /\ ContextInv
  <2> SUFFICES ASSUME Init PROVE LoopInv /\ ContextInv
    OBVIOUS
  <2>1. /\ items = <<>> /\ pc = "idle" /\ then = "none" /\ Having("held") = {}
        /\ pending = {} /\ batch = {} /\ rejected = {}
    BY DEF Init, Having
  <2>2. Placed = {}
    BY <2>1 DEF OpenCalls, Placed
  <2>3. Fits(items, Placed)
    BY <2>1, <2>2, SoundEmpty
  <2> QED BY <2>1, <2>3 DEF LoopInv, ContextInv
<1> QED BY <1>1, CallsInvariant, ContextStep, PTL DEF Spec

\* A request to the model answers each call exactly once and right behind the message
\* that makes it, until results of displaced calls are appended or a compaction drops
\* the calls that a context without user messages begins with.
THEOREM RequestsArePaired == Spec => []RequestIsPaired
<1>1. ContextInv => RequestIsPaired
  <2> SUFFICES ASSUME ContextInv, pc = "llm", ~orphaned PROVE Paired(items)
    BY DEF RequestIsPaired
  <2>1. Sound(items) /\ Complete(items)
    BY DEF ContextInv, Fits
  <2> QED BY <2>1, PairedIs
<1> QED BY <1>1, ContextInvariant, PTL

---------------------------------------------------------------------------
(* Types                                                                      *)

LEMMA PartTyped ==
  ASSUME NEW h \in Seq(Messages), NEW p \in Nat \ {0}, NEW q \in Int, q <= Len(h)
  PROVE  SubSeq(h, p, q) \in Seq(Messages)
<1>1. CASE p <= q + 1
  BY <1>1, Cut
<1>2. CASE p > q + 1
  <2>1. SubSeq(h, p, q) = <<>>
    BY <1>2
  <2> QED BY <2>1
<1> QED BY <1>1, <1>2

\* What the edits make of messages are messages, sound or not.
LEMMA EditsTyped ==
  ASSUME NEW h \in Seq(Messages)
  PROVE  /\ \A i \in Users(h) : Before(h, i) \in Seq(Messages)
         /\ Undone(h) \in Seq(Messages) /\ Patched(h) \in Seq(Messages)
         /\ Shortened(h) \in Seq(Messages) /\ Summarised(h) \in Seq(Messages)
<1>1. Len(h) \in Nat /\ Users(h) \subseteq 1 .. Len(h) /\ Users(h) \subseteq 0 .. Len(h)
  BY DEF Users
<1>2. ASSUME NEW i \in Users(h) PROVE Before(h, i) \in Seq(Messages)
  <2>1. i - 1 \in Int /\ i - 1 <= Len(h)
    BY <1>1
  <2> QED BY <2>1, PartTyped DEF Before
<1>3. Undone(h) \in Seq(Messages)
  <2>1. CASE Users(h) = {}
    BY <2>1 DEF Undone
  <2>2. CASE Users(h) # {}
    <3>1. Max(Users(h)) \in Users(h)
      BY <1>1, <2>2, MaxIs
    <3> QED BY <1>2, <2>2, <3>1 DEF Undone
  <2> QED BY <2>1, <2>2
<1>4. Patched(h) \in Seq(Messages)
  <2>1. CASE Dangling(h) = {}
    BY <2>1 DEF Patched
  <2>2. CASE Dangling(h) # {}
    BY <2>2, PatchedIs
  <2> QED BY <2>1, <2>2
<1>5. Prompt(h) \in Seq(Messages) /\ Recent(h) \in Seq(Messages)
  <2>1. /\ FirstUser(h) \in 1 .. Len(h) + 1 /\ TailFrom(h) \in Nat /\ TailFrom(h) > FirstUser(h)
        /\ Users(h) # {} => FirstUser(h) \in Users(h)
    BY TailIs
  <2>2. Prompt(h) \in Seq(Messages)
    <3>1. CASE Users(h) = {}
      BY <3>1 DEF Prompt
    <3>2. CASE Users(h) # {}
      <4>1. h[FirstUser(h)] \in Messages
        BY <1>1, <2>1, <3>2
      <4>2. <<h[FirstUser(h)]>> \in Seq(Messages)
        BY <4>1
      <4> QED BY <3>2, <4>2 DEF Prompt
    <3> QED BY <3>1, <3>2
  <2>3. Recent(h) \in Seq(Messages)
    <3>1. TailFrom(h) \in Nat \ {0} /\ Len(h) \in Int
      BY <1>1, <2>1
    <3> QED BY <1>1, <3>1, PartTyped DEF Recent
  <2> QED BY <2>2, <2>3
<1>6. <<Assistant({})>> \in Seq(Messages)
  <2>1. {} \in SUBSET Calls
    OBVIOUS
  <2>2. Assistant({}) \in Messages
    BY <2>1, NewMessages
  <2> QED BY <2>2
<1>7. Shortened(h) \in Seq(Messages)
  BY <1>5 DEF Shortened
<1>8. Summarised(h) \in Seq(Messages)
  BY <1>5, <1>6 DEF Summarised
<1> QED BY <1>2, <1>3, <1>4, <1>7, <1>8

Contexts == items \in Seq(Messages) /\ kept \in Seq(Messages)

\* A compaction or the start of a request.
LEMMA ContinueTyped ==
  ASSUME NEW next, NEW h \in Seq(Messages), Continue(next, h) \/ CompactionFailed(next, h)
  PROVE  items' \in Seq(Messages)
<1>1. CASE next = "llm" /\ Continue(next, h)
  <2>1. PICK hint \in Hints(h) : items' = Patched(h \o hint)
    BY <1>1 DEF Continue
  <2>2. User \in Messages
    BY NewMessages
  <2>3. hint \in Seq(Messages)
    <3>1. hint = <<>> \/ hint = <<User>>
      BY DEF Hints
    <3>2. <<>> \in Seq(Messages) /\ <<User>> \in Seq(Messages)
      BY <2>2
    <3> QED BY <3>1, <3>2
  <2>4. h \o hint \in Seq(Messages)
    BY <2>3
  <2> QED BY <2>1, <2>4, EditsTyped
<1>2. CASE items' = h
  BY <1>2
<1> QED BY <1>1, <1>2 DEF Continue, CompactionFailed

LEMMA CompactTyped ==
  ASSUME Contexts, NEW next, Compact(next)
  PROVE  Contexts'
<1>1. Shortened(items) \in Seq(Messages) /\ Summarised(items) \in Seq(Messages)
  BY EditsTyped DEF Contexts
<1>2. CASE /\ Continue(next, Shortened(items)) \/ CompactionFailed(next, Shortened(items))
           /\ kept' = kept
  BY <1>1, <1>2, ContinueTyped DEF Contexts
<1>3. CASE kept' = Summarised(items) /\ items' = items
  BY <1>1, <1>3 DEF Contexts
<1> QED BY <1>2, <1>3 DEF Compact

\* Contexts are sequences of messages.
LEMMA ContextsTyped ==
  ASSUME CallsInv, LoopInv, Contexts, [Next]_vars
  PROVE  Contexts'
<1>1. /\ pending \in SUBSET Calls /\ batch \in SUBSET Calls /\ rejected \in SUBSET Calls
      /\ batch \cap Having("finished") \in SUBSET Calls
  BY DEF CallsInv, LoopInv, Having, Started
<1>2. \A S \in SUBSET Calls : Results(S) \in Seq(Messages)
  BY ResultsAre
<1>3. /\ User \in Messages
      /\ \A S \in SUBSET Calls : Assistant(S) \in Messages /\ <<Assistant(S)>> \in Seq(Messages)
  <2>1. \A S \in SUBSET Calls : Assistant(S) \in Messages
    BY NewMessages
  <2>2. User \in Messages
    BY NewMessages
  <2> QED BY <2>1, <2>2
<1>4. <<User>> \in Seq(Messages) /\ <<Assistant({}), User>> \in Seq(Messages)
  <2>1. {} \in SUBSET Calls
    OBVIOUS
  <2> QED BY <1>3, <2>1
<1>5. items \in Seq(Messages) /\ kept \in Seq(Messages)
  BY DEF Contexts
<1>6. /\ Append(items, User) \in Seq(Messages) /\ Append(items, Assistant({})) \in Seq(Messages)
      /\ items \o <<Assistant({}), User>> \in Seq(Messages)
  <2>1. {} \in SUBSET Calls
    OBVIOUS
  <2> QED BY <1>3, <1>4, <1>5, <2>1
<1>7. ASSUME NEW S \in SUBSET Calls
      PROVE  /\ items \o Results(S) \in Seq(Messages)
             /\ items \o Results(S) \o <<User>> \in Seq(Messages)
             /\ \A T \in SUBSET Calls :
                  /\ items \o Results(S) \o Results(T) \in Seq(Messages)
                  /\ items \o <<Assistant(S)>> \o Results(T) \in Seq(Messages)
  BY <1>2, <1>3, <1>4, <1>5
<1>8. CASE CompactOp \/ LLMOverflow \/ LoopTop \/ CompactEnd \/ SummaryFails
                     \/ SummaryTimesOut
  <2>1. CASE \E next \in {"idle", "loop", "llm"} : Compact(next)
    BY <2>1, CompactTyped
  <2>2. CASE UNCHANGED <<items, kept>>
    BY <2>2 DEF Contexts
  <2>3. CASE Continue("llm", items) /\ kept' = kept
    BY <1>5, <2>3, ContinueTyped DEF Contexts
  <2>4. CASE (Continue(then, kept) \/ CompactionFailed(then, kept)) /\ kept' = <<>>
    <3>1. items' \in Seq(Messages)
      BY <1>5, <2>4, ContinueTyped
    <3>2. <<>> \in Seq(Messages)
      OBVIOUS
    <3> QED BY <2>4, <3>1, <3>2 DEF Contexts
  <2>5. CASE items' = items /\ kept' = <<>>
    <3>1. <<>> \in Seq(Messages)
      OBVIOUS
    <3> QED BY <1>5, <2>5, <3>1 DEF Contexts
  <2> QED BY <1>8, <2>1, <2>2, <2>3, <2>4, <2>5
          DEF CompactOp, LLMOverflow, LoopTop, CompactEnd, SummaryOver, SummaryFails,
              SummaryTimesOut
<1>9. CASE UserInput \/ EmptyInput \/ Undo \/ ExecApproval
  <2>1. kept' = kept
    BY <1>9 DEF UserInput, EmptyInput, Undo, ExecApproval, Dequeue
  <2>2. \/ items' = items \/ items' = Undone(items) \/ items' = items \o Results(pending)
        \/ items' = items \o Results(pending) \o <<User>>
    BY <1>9 DEF UserInput, EmptyInput, Undo, ExecApproval, Decide
  <2> QED BY <1>1, <1>5, <1>7, <2>1, <2>2, EditsTyped DEF Contexts
<1>10. CASE \/ NothingToApprove \/ LLMError \/ CancelTools \/ CancelDone \/ ToolsFail
            \/ Interrupt \/ UploadStart \/ \E op \in Submissions : Submit(op)
            \/ \E c \in Calls : ToolReturns(c) \/ ToolStops(c)
            \/ UNCHANGED vars
  <2>1. UNCHANGED <<items, kept>>
    BY <1>10 DEF NothingToApprove, Dequeue, LLMError, CancelTools, CancelDone, ToolsFail,
         GiveUp, Interrupt, UploadStart, Submit, ToolReturns, ToolStops, ToolStep, ctxVars, vars
  <2> QED BY <2>1 DEF Contexts
<1>11. CASE LLMText \/ LLMRetry \/ UploadEnd
  BY <1>5, <1>6, <1>11 DEF LLMText, LLMRetry, UploadEnd, Contexts
<1>12. CASE \E i \in Users(items) : Truncate(i)
  BY <1>5, <1>12, EditsTyped DEF Truncate, Contexts
<1>13. CASE \E new \in NewCalls : \E kind \in [new -> {"bad", "auto", "ask"}] :
              LLMCalls(new, kind)
  <2>1. PICK new \in NewCalls : \E kind \in [new -> {"bad", "auto", "ask"}] :
         LLMCalls(new, kind)
    BY <1>13
  <2>2. PICK kind \in [new -> {"bad", "auto", "ask"}] : LLMCalls(new, kind)
    BY <2>1
  <2> DEFINE bad == new \ ({c \in new : kind[c] = "auto"} \cup {c \in new : kind[c] = "ask"})
  <2>3. items' = items \o <<Assistant(new)>> \o Results(bad) /\ kept' = kept
    BY <2>2 DEF LLMCalls
  <2>4. new \in SUBSET Calls /\ bad \in SUBSET Calls
    BY NewCallsUnused
  <2> HIDE DEF bad
  <2> QED BY <1>5, <1>7, <2>3, <2>4 DEF Contexts
<1>14. CASE RecordResults \/ Resume
  <2>1. /\ kept' = kept
        /\ \/ items' = items \o Results(batch)
           \/ items' = items \o Results(batch \cap Having("finished")) \o Results(rejected)
    BY <1>14 DEF RecordResults, Resume
  <2> QED BY <1>1, <1>5, <1>7, <2>1 DEF Contexts
<1> QED BY <1>8, <1>9, <1>10, <1>11, <1>12, <1>13, <1>14 DEF Next, Serve

\* What else the types say: of the requests, and of the loop.
Clients ==
  /\ cancelled \in BOOLEAN /\ alive \in BOOLEAN
  /\ uploading \in BOOLEAN /\ orphaned \in BOOLEAN
  /\ queue \in Seq(Submissions) /\ Len(queue) <= MaxQueue
  /\ subs \in 0 .. MaxSubs /\ edits \in 0 .. MaxEdits
  /\ allowed \subseteq Calls /\ displaced \subseteq Calls

Turns ==
  /\ pc \in PCs
  /\ iter \in 0 .. MaxIter
  /\ ended \in 0 .. 2
  /\ IterInv

TypeInv == Contexts /\ Clients /\ Turns

LEMMA TypesAre == CallsInv /\ LoopInv /\ TypeInv => TypeOK
BY DEF CallsInv, LoopInv, TypeInv, Contexts, Clients, Turns, TypeOK, Statuses

\* Who asks, and what that leaves in the queue.
LEMMA ClientsTyped ==
  ASSUME CallsInv, LoopInv, Clients, [Next]_vars
  PROVE  Clients'
<1> USE TurnAssumption
<1>7. OpenCalls \subseteq Calls /\ pending \subseteq Calls
  BY DEF CallsInv, LoopInv, OpenCalls, Having, Started
<1>8. ASSUME displaced' \in {displaced, displaced \cup OpenCalls, displaced \cup pending}
      PROVE  displaced' \subseteq Calls
  BY <1>7, <1>8 DEF Clients
<1>1. CASE \E op \in Submissions : Submit(op)
  <2>1. PICK op \in Submissions : Submit(op)
    BY <1>1
  <2>2. /\ Request(op.kind \notin {"user", "approve"}) /\ Len(queue) < MaxQueue
        /\ queue' = Append(queue, op) /\ allowed' = allowed \cup op.yes
        /\ UNCHANGED <<cancelled, alive, uploading, displaced, orphaned>>
    BY <2>1 DEF Submit
  <2>3. subs' \in 0 .. MaxSubs /\ edits' \in 0 .. MaxEdits
    BY <2>2 DEF Request, Clients
  <2>4. queue' \in Seq(Submissions) /\ Len(queue') <= MaxQueue
    BY <2>2 DEF Clients
  <2>5. op.yes \subseteq Calls
    BY DEF Submissions
  <2> QED BY <2>2, <2>3, <2>4, <2>5 DEF Clients
<1>2. CASE UploadStart \/ \E i \in Users(items) : Truncate(i)
  <2>1. /\ Request(TRUE) /\ UNCHANGED <<queue, cancelled, alive, allowed, orphaned>>
        /\ uploading' \in {TRUE, uploading}
        /\ displaced' \in {displaced, displaced \cup OpenCalls}
    BY <1>2 DEF UploadStart, Truncate, Displace
  <2>2. subs' \in 0 .. MaxSubs /\ edits' \in 0 .. MaxEdits
    BY <2>1 DEF Request, Clients
  <2>3. uploading' \in BOOLEAN /\ displaced' \subseteq Calls
    BY <1>8, <2>1 DEF Clients
  <2> QED BY <2>1, <2>2, <2>3 DEF Clients
<1>3. CASE Interrupt \/ UploadEnd
  <2>1. /\ UNCHANGED <<queue, subs, edits, alive, allowed, orphaned>>
        /\ cancelled' \in {TRUE, cancelled} /\ uploading' \in {FALSE, uploading}
        /\ displaced' \in {displaced, displaced \cup OpenCalls}
    BY <1>3 DEF Interrupt, UploadEnd, Displace, clientVars
  <2>2. cancelled' \in BOOLEAN /\ uploading' \in BOOLEAN /\ displaced' \subseteq Calls
    BY <1>8, <2>1 DEF Clients
  <2> QED BY <2>1, <2>2 DEF Clients
<1>4. CASE UserInput \/ EmptyInput \/ Undo \/ NothingToApprove \/ ExecApproval \/ CompactOp
  <2>1. /\ queue # <<>> /\ queue' = Tail(queue) /\ UNCHANGED <<subs, edits, uploading, allowed>>
    BY <1>4 DEF UserInput, EmptyInput, Undo, NothingToApprove, ExecApproval, CompactOp,
         Dequeue
  <2>2. /\ cancelled' \in {FALSE, cancelled} /\ alive' \in {FALSE, alive}
        /\ displaced' \in {displaced, displaced \cup pending}
        /\ orphaned' \in {orphaned, orphaned \/ pending \cap displaced # {},
                         orphaned \/ DropsCalls(items)}
    BY <1>4 DEF Displace, Answer, UserInput, EmptyInput, Undo, NothingToApprove,
         ExecApproval, CompactOp,
       Decide, StartRun, Compact, Continue, CompactionFailed
  <2>3. /\ cancelled' \in BOOLEAN /\ alive' \in BOOLEAN /\ orphaned' \in BOOLEAN
        /\ displaced' \subseteq Calls
    BY <1>8, <2>2 DEF Clients
  <2>4. queue' \in Seq(Submissions) /\ Len(queue') <= MaxQueue
    BY <2>1 DEF Clients
  <2> QED BY <2>1, <2>3, <2>4 DEF Clients
<1>5. CASE \/ CompactEnd \/ SummaryFails \/ SummaryTimesOut \/ LoopTop \/ LLMText
           \/ LLMRetry \/ LLMOverflow \/ LLMError
           \/ CancelTools \/ CancelDone \/ ToolsFail \/ RecordResults \/ Resume
           \/ \E c \in Calls : ToolReturns(c) \/ ToolStops(c)
           \/ UNCHANGED vars
  <2>1. UNCHANGED <<queue, subs, edits, uploading, allowed>>
    BY <1>5 DEF CompactEnd, SummaryOver, SummaryFails, SummaryTimesOut, LoopTop, LLMText,
         LLMRetry, LLMOverflow, LLMError,
         CancelTools, CancelDone, ToolsFail, GiveUp, RecordResults, Resume, ToolReturns,
         ToolStops, ToolStep, clientVars, vars
  <2>2. /\ cancelled' \in {FALSE, cancelled} /\ alive' \in {FALSE, alive}
        /\ displaced' = displaced
        /\ \/ orphaned' \in {orphaned, orphaned \/ DropsCalls(items)}
           \/ \E S \in SUBSET Calls : Answer(S)
    <3>1. CASE CompactEnd \/ SummaryFails \/ SummaryTimesOut \/ LoopTop \/ LLMOverflow
      BY <3>1 DEF CompactEnd, SummaryOver, SummaryFails, SummaryTimesOut, LoopTop,
           LLMOverflow, Compact, Continue, CompactionFailed
    <3>2. CASE RecordResults \/ Resume
      <4>1. \/ Answer(batch)
            \/ Answer((batch \cap Having("finished")) \cup rejected)
        BY <3>2 DEF RecordResults, Resume
      <4>2. batch \subseteq Calls /\ rejected \subseteq Calls
        BY <1>7 DEF OpenCalls
      <4>3. \E S \in SUBSET Calls : Answer(S)
        BY <4>1, <4>2
      <4> QED BY <3>2, <4>3 DEF RecordResults, Resume, StartRun
    <3>3. CASE ~(\/ CompactEnd \/ SummaryFails \/ SummaryTimesOut \/ LoopTop \/ LLMOverflow
                \/ RecordResults \/ Resume)
      BY <1>5, <3>3 DEF LLMText, LLMRetry, LLMError, CancelTools, CancelDone, ToolsFail,
           GiveUp, ToolReturns, ToolStops, ToolStep, vars
    <3> QED BY <3>1, <3>2, <3>3
  <2>3. cancelled' \in BOOLEAN /\ alive' \in BOOLEAN /\ orphaned' \in BOOLEAN
    BY <2>2 DEF Clients, Answer
  <2> QED BY <2>1, <2>2, <2>3 DEF Clients
<1>6. CASE \E new \in NewCalls : \E kind \in [new -> {"bad", "auto", "ask"}] :
             LLMCalls(new, kind)
  <2>1. PICK new \in NewCalls : \E kind \in [new -> {"bad", "auto", "ask"}] :
         LLMCalls(new, kind)
    BY <1>6
  <2>2. PICK kind \in [new -> {"bad", "auto", "ask"}] : LLMCalls(new, kind)
    BY <2>1
  <2>3. /\ UNCHANGED <<queue, subs, edits, uploading, cancelled, alive,
                      displaced, orphaned>>
        /\ allowed' \in {allowed, allowed \cup {c \in new : kind[c] = "auto"}}
    BY <2>2 DEF LLMCalls, clientVars
  <2>4. new \subseteq Calls
    BY NewCallsUnused
  <2> QED BY <2>3, <2>4 DEF Clients
<1> QED BY <1>1, <1>2, <1>3, <1>4, <1>5, <1>6 DEF Next, Serve

\* How the loop moves: an iteration is counted when there may be one more, and at most
\* two terminal events are sent for a submission.
LEMMA TurnsTyped ==
  ASSUME CallsInv, EndsInv, LoopInv, Turns, [Next]_vars
  PROVE  Turns'
<1> USE TurnAssumption
<1>1. /\ MaxIter \in Nat /\ iter \in 0 .. MaxIter /\ ended \in 0 .. 2 /\ pc \in PCs
      /\ pc \in {"llm", "tools"} \/ then = "llm" => iter < MaxIter
      /\ pc # "idle" /\ then # "idle" => ended = 0
      /\ pc # "compact" => then = "none"
      /\ then \in {"none", "llm", "loop", "idle"}
  BY DEF Turns, IterInv, EndsInv, LoopInv, CallsInv
<1>2. ASSUME pc' \in PCs, iter' \in 0 .. MaxIter, ended' \in 0 .. 2,
             pc' \in {"llm", "tools"} \/ then' = "llm" => iter' < MaxIter
      PROVE  Turns'
  BY <1>2 DEF Turns, IterInv
<1>3. CASE /\ UNCHANGED <<iter, ended, then>>
           /\ \/ pc' = pc
              \/ pc' \in {"cancelling", "acancelling"}
  BY <1>1, <1>2, <1>3 DEF PCs
<1>4. CASE /\ pc' \in {"loop", "idle", "atools"} /\ iter' \in {0, iter} /\ ended' \in {0, 1, ended}
           /\ then' \in {"none", then} /\ pc = "idle"
  BY <1>1, <1>2, <1>4 DEF PCs
<1>5. CASE UserInput \/ EmptyInput \/ Undo \/ NothingToApprove \/ ExecApproval
  BY <1>1, <1>3, <1>4, <1>5 DEF UserInput, EmptyInput, Undo, NothingToApprove, ExecApproval,
     Dequeue, Decide, StartRun, loopVars
<1>6. ASSUME NEW errs \in {0, 1}, EndTurn(errs), pc # "idle", then # "idle", iter' = iter,
             then' = then \/ then' = "none", then # "llm" \/ then' = "none"
      PROVE  Turns'
  <2>1. pc' = "idle" /\ ended' \in 0 .. 2
    BY <1>1, <1>6 DEF EndTurn
  <2> QED BY <1>1, <1>2, <1>6, <2>1 DEF PCs
<1>7. CASE LLMText \/ LLMError \/ CancelDone \/ ToolsFail
  <2>1. /\ \E errs \in {0, 1} : EndTurn(errs)
        /\ pc # "idle" /\ pc # "compact" /\ iter' = iter /\ then' = then
    BY <1>7 DEF LLMText, LLMError, CancelDone, ToolsFail, GiveUp, ctxVars
  <2> QED BY <1>1, <1>6, <2>1
<1>8. ASSUME NEW held, AskOrGoOn(held), pc \in {"llm", "tools"}, then' = then
      PROVE  Turns'
  <2>1. then = "none" /\ ended = 0 /\ iter < MaxIter
    BY <1>1, <1>8
  <2>2. /\ pc' \in {"idle", "loop"} /\ iter' \in {iter, iter + 1} /\ ended' \in {0, 1}
    BY <1>8, <2>1 DEF AskOrGoOn
  <2> QED BY <1>1, <1>2, <1>8, <2>1, <2>2 DEF PCs
<1>9. CASE LLMRetry
  <2>1. pc = "llm" /\ pc' = "loop" /\ iter' = iter + 1 /\ ended' = ended /\ then' = then
    BY <1>9 DEF LLMRetry
  <2> QED BY <1>1, <1>2, <2>1 DEF PCs
<1>10. CASE RecordResults
  BY <1>8, <1>10 DEF RecordResults
<1>11. CASE Resume
  <2>1. pc' = "loop" /\ iter' = 0 /\ ended' = ended /\ then' = "none"
    BY <1>11 DEF Resume, StartRun
  <2> QED BY <1>1, <1>2, <2>1 DEF PCs
<1>12. CASE \E new \in NewCalls : \E kind \in [new -> {"bad", "auto", "ask"}] :
              LLMCalls(new, kind)
  <2>1. PICK new \in NewCalls : \E kind \in [new -> {"bad", "auto", "ask"}] :
         LLMCalls(new, kind)
    BY <1>12
  <2>2. PICK kind \in [new -> {"bad", "auto", "ask"}] : LLMCalls(new, kind)
    BY <2>1
  <2> DEFINE ask == {c \in new : kind[c] = "ask"}
  <2>3. /\ pc = "llm" /\ then' = then
        /\ \/ EndTurn(0) /\ iter' = iter
           \/ AskOrGoOn(ask)
           \/ pc' = "tools" /\ UNCHANGED <<iter, ended>>
    BY <2>2 DEF LLMCalls
  <2> HIDE DEF ask
  <2>4. CASE EndTurn(0) /\ iter' = iter
    BY <1>1, <1>6, <2>3, <2>4
  <2>5. CASE AskOrGoOn(ask)
    BY <1>8, <2>3, <2>5
  <2>6. CASE pc' = "tools" /\ UNCHANGED <<iter, ended>>
    BY <1>1, <1>2, <2>3, <2>6 DEF PCs
  <2> QED BY <2>3, <2>4, <2>5, <2>6
<1>13. ASSUME NEW next \in {"idle", "llm", "loop"}, Compact(next), iter' = iter,
              pc \in {"idle", "loop", "llm"}, next = "idle" <=> pc = "idle",
              next = "llm" => iter < MaxIter
       PROVE  Turns'
  <2>1. then = "none"
    BY <1>1, <1>13
  <2>2. CASE pc' = next /\ ended' = ended /\ then' = then
    BY <1>1, <1>2, <1>13, <2>1, <2>2 DEF PCs
  <2>3. CASE pc' = "compact" /\ ended' = ended /\ then' = next
    BY <1>1, <1>2, <1>13, <2>1, <2>3 DEF PCs
  <2>4. CASE EndTurn(0) /\ next # "idle" /\ then' = then
    BY <1>1, <1>6, <1>13, <2>1, <2>4
  <2>5. CASE pc' = "idle" /\ ended' = ended /\ then' = then
    BY <1>1, <1>2, <1>13, <2>1, <2>5 DEF PCs
  <2> QED BY <1>13, <2>2, <2>3, <2>4, <2>5 DEF Compact, Continue, CompactionFailed
<1>14. CASE CompactOp
  <2>1. pc = "idle" /\ iter' = iter
    BY <1>14 DEF CompactOp, Dequeue
  <2>2. CASE Compact("idle")
    BY <1>13, <2>1, <2>2
  <2>3. CASE UNCHANGED <<items, kept, then, pc, ended, alive, displaced, orphaned>>
    BY <1>3, <2>1, <2>3
  <2> QED BY <1>14, <2>2, <2>3 DEF CompactOp
<1>15. CASE LLMOverflow
  BY <1>1, <1>13, <1>15 DEF LLMOverflow
<1>16. CASE LoopTop
  <2>1. pc = "loop" /\ iter' = iter /\ then = "none"
    BY <1>1, <1>16 DEF LoopTop
  <2>2. CASE EndTurn(0) /\ then' = then
    BY <1>6, <2>1, <2>2
  <2>3. CASE iter # MaxIter /\ Compact("llm")
    BY <1>1, <1>13, <2>1, <2>3
  <2>4. CASE iter # MaxIter /\ Continue("llm", items) /\ then' = then
    <3>1. pc' = "llm" /\ ended' = ended
      BY <2>4 DEF Continue
    <3> QED BY <1>1, <1>2, <2>1, <2>4, <3>1 DEF PCs
  <2> QED BY <1>16, <2>2, <2>3, <2>4 DEF LoopTop
<1>17. CASE CompactEnd
  <2>1. pc = "compact" /\ iter' = iter /\ then' = "none"
    BY <1>17 DEF CompactEnd, SummaryOver
  <2>2. then \in {"llm", "loop", "idle"}
    BY <1>1, <2>1 DEF LoopInv
  <2>3. CASE Continue(then, kept)
    <3>1. pc' = then /\ ended' = ended
      BY <2>3 DEF Continue
    <3> QED BY <1>1, <1>2, <2>1, <2>2, <3>1 DEF PCs
  <2>4. CASE CompactionFailed(then, kept) /\ then = "idle"
    <3>1. pc' = "idle" /\ ended' = ended
      BY <2>4 DEF CompactionFailed
    <3> QED BY <1>1, <1>2, <2>1, <3>1 DEF PCs
  <2>5. CASE CompactionFailed(then, kept) /\ then # "idle"
    <3>1. EndTurn(0)
      BY <2>5 DEF CompactionFailed
    <3> QED BY <1>6, <2>1, <2>5, <3>1
  <2> QED BY <1>17, <2>3, <2>4, <2>5 DEF CompactEnd
<1>19. CASE SummaryFails \/ SummaryTimesOut
  <2>1. /\ pc = "compact" /\ pc' = "idle" /\ iter' = iter /\ then' = "none"
        /\ ended' = ended \/ (then # "idle" /\ ended' = ended + 1)
    BY <1>19 DEF SummaryFails, SummaryTimesOut, SummaryOver
  <2>2. ended' \in 0 .. 2
    BY <1>1, <2>1
  <2> QED BY <1>1, <1>2, <2>1, <2>2 DEF PCs
<1>18. CASE \/ CancelTools \/ Interrupt \/ UploadStart \/ UploadEnd
            \/ \E i \in Users(items) : Truncate(i)
            \/ \E op \in Submissions : Submit(op)
            \/ \E c \in Calls : ToolReturns(c) \/ ToolStops(c)
            \/ UNCHANGED vars
  <2>1. /\ UNCHANGED <<iter, ended, then>>
        /\ pc' = pc \/ pc' \in {"cancelling", "acancelling"}
    BY <1>18 DEF CancelTools, Interrupt, UploadStart, UploadEnd, Truncate, Submit,
         ToolReturns, ToolStops, ToolStep, ctxVars, loopVars, vars
  <2> QED BY <1>3, <2>1
<1> QED BY <1>5, <1>7, <1>9, <1>10, <1>11, <1>12, <1>14, <1>15, <1>16, <1>17, <1>18, <1>19
        DEF Next, Serve

\* Every variable of the agent loop keeps its type, however the routes edit the context.
THEOREM TurnIsTyped == Spec => []TypeOK
<1>1. Init => TypeInv
  <2> SUFFICES ASSUME Init PROVE TypeInv
    OBVIOUS
  <2>1. <<>> \in Seq(Messages) /\ <<>> \in Seq(Submissions) /\ Len(<<>>) = 0
    OBVIOUS
  <2>2. Contexts
    BY <2>1 DEF Init, Contexts
  <2>3. Clients
    <3>1. 0 \in 0 .. MaxSubs /\ 0 \in 0 .. MaxEdits /\ 0 <= MaxQueue
      BY TurnAssumption
    <3> QED BY <2>1, <3>1 DEF Init, Clients
  <2>4. Turns
    BY TurnAssumption DEF Init, Turns, IterInv, PCs
  <2> QED BY <2>2, <2>3, <2>4 DEF TypeInv
<1>2. CallsInv /\ EndsInv /\ LoopInv /\ TypeInv /\ [Next]_vars => TypeInv'
  BY ContextsTyped, ClientsTyped, TurnsTyped DEF TypeInv
<1> QED BY <1>1, <1>2, CallsInvariant, EndsInvariant, ContextInvariant, TypesAre, PTL DEF Spec
=============================================================================
