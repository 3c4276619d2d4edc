------------------------------- MODULE AgentTurn -------------------------------
(***************************************************************************)
(* One session's agent loop, agent/core/agent_loop.py: a turn of LLM calls    *)
(* and parallel tools, tools that wait for the user's approval, interrupts,  *)
(* compaction and undo, together with the routes that edit the context       *)
(* beside the loop's queue.                                                  *)
(*                                                                         *)
(* The loop is one coroutine (pc); tools run in parallel with it.  What      *)
(* lies between two awaits that can take long (the model, the tools, the     *)
(* summary of a compaction) is one step; awaiting send_event is not taken    *)
(* as a point where others run.  Calls are numbered in the order in which    *)
(* the model makes them.                                                     *)
(***************************************************************************)
EXTENDS ContextHistory

CONSTANTS
  MaxCalls,  \* bound: tool calls the model ever makes
  MaxSubs,   \* bound: submissions, uploads and truncations
  MaxEdits,  \* bound: those that are neither a message nor a decision
  MaxQueue,  \* bound: submissions waiting
  MaxIter    \* config.max_iterations

ASSUME TurnAssumption ==
  {MaxCalls, MaxSubs, MaxEdits, MaxQueue, MaxIter} \subseteq Nat

Calls == 1 .. MaxCalls

VARIABLES
  items,      \* the context, without the system message
  pending,    \* session.pending_approval
  cancelled,  \* session._cancelled
  alive,      \* session.is_running
  queue,      \* the submission queue
  subs,       \* how many requests there were
  edits,      \* how many of them count for MaxEdits
  pc,         \* where the loop stands
  iter,       \* iterations of this turn
  kept,       \* the context a compaction will install
  then,       \* where the loop goes on after it
  status,     \* of each call
  batch,      \* the calls being awaited
  rejected,   \* the calls a decision rejected, not answered yet
  ended,      \* terminal events sent for this submission
  uploading,  \* a dataset upload has passed its checks
  allowed,    \* history: calls that may run, by policy or by the user
  displaced,  \* history: calls that were open when a route truncated the context
              \* or appended a note, when the last turn was undone, or when an
              \* empty input started a turn
  orphaned    \* history: results of such calls were appended, or a compaction
              \* dropped the calls that a context without user messages begins with

ctxVars == <<items, kept, then>>
loopVars == <<pc, iter, ended>>
callVars == <<status, batch, rejected>>
clientVars == <<queue, subs, edits, uploading>>
vars == <<items, pending, cancelled, alive, queue, subs, edits, pc, iter, kept,
          then, status, batch, rejected, ended, uploading, allowed, displaced, orphaned>>

PCs == {"idle", "loop", "compact", "llm", "tools", "cancelling", "atools",
        "acancelling"}
Submissions == [kind : {"user", "empty", "approve", "undo", "compact"},
                yes : SUBSET Calls]
Messages == [role : {"user", "assistant", "tool"}, calls : SUBSET Calls]

With(S, st) == [c \in Calls |-> IF c \in S THEN st ELSE status[c]]
Having(st) == {c \in Calls : status[c] = st}
Started == Having("running") \cup Having("finished") \cup Having("stopped")
           \cup Having("raised")

\* calls whose results the loop will still append
OpenCalls == pending \cup batch \cup rejected \cup Having("held")

\* the message that makes the open calls is gone, or no longer the last but for
\* their results
Displace(S) == displaced' = displaced \cup S

\* the results of S are appended
Answer(S) == orphaned' = (orphaned \/ S \cap displaced # {})

TypeOK ==
  /\ items \in Seq(Messages) /\ kept \in Seq(Messages)
  /\ pending \subseteq Having("asked")
  /\ cancelled \in BOOLEAN /\ alive \in BOOLEAN
  /\ uploading \in BOOLEAN /\ orphaned \in BOOLEAN
  /\ queue \in Seq(Submissions) /\ Len(queue) <= MaxQueue
  /\ subs \in 0 .. MaxSubs /\ edits \in 0 .. MaxEdits
  /\ pc \in PCs
  /\ iter \in 0 .. MaxIter
  /\ then \in {"none", "llm", "loop", "idle"}
  /\ status \in [Calls -> {"none", "held", "asked", "running", "finished",
                           "stopped", "raised", "closed"}]
  /\ batch \subseteq Started
  /\ rejected \subseteq Having("asked")
  /\ ended \in 0 .. 2
  /\ allowed \subseteq Calls /\ displaced \subseteq Calls

Init ==
  /\ items = <<>> /\ kept = <<>> /\ then = "none"
  /\ pending = {} /\ batch = {} /\ rejected = {} /\ allowed = {}
  /\ cancelled = FALSE /\ alive = TRUE
  /\ uploading = FALSE /\ displaced = {} /\ orphaned = FALSE
  /\ queue = <<>> /\ subs = 0 /\ edits = 0
  /\ pc = "idle" /\ iter = 0 /\ ended = 0
  /\ status = [c \in Calls |-> "none"]

---------------------------------------------------------------------------
(* Requests                                                                *)

Request(edit) ==
  /\ alive
  /\ subs < MaxSubs /\ subs' = subs + 1
  /\ IF edit THEN edits < MaxEdits /\ edits' = edits + 1 ELSE UNCHANGED edits

\* submit: user input, an empty input (only /api/chat lets it through), an
\* undo, a compaction, or the decision on the calls the client sees
Submit(op) ==
  /\ Request(op.kind \notin {"user", "approve"})
  /\ Len(queue) < MaxQueue
  /\ op.kind = "approve" => pending # {} /\ op.yes \subseteq pending
  /\ op.kind # "approve" => op.yes = {}
  /\ queue' = Append(queue, op)
  /\ allowed' = allowed \cup op.yes
  /\ UNCHANGED <<ctxVars, loopVars, callVars, pending, cancelled, alive,
                 uploading, displaced, orphaned>>

\* SessionManager.interrupt: beside the queue
Interrupt ==
  /\ alive
  /\ cancelled' = TRUE
  /\ UNCHANGED <<ctxVars, loopVars, callVars, clientVars, pending, alive,
                 allowed, displaced, orphaned>>

\* upload_session_dataset: checks, awaits the Hub, appends a note
UploadStart ==
  /\ Request(TRUE)
  /\ pc = "idle" /\ pending = {} /\ ~uploading
  /\ uploading' = TRUE
  /\ UNCHANGED <<ctxVars, loopVars, callVars, queue, pending, cancelled, alive,
                 allowed, displaced, orphaned>>

UploadEnd ==
  /\ uploading
  /\ uploading' = FALSE
  /\ \/ items' = Append(items, User) /\ Displace(OpenCalls)
     \/ UNCHANGED <<items, displaced>>
  /\ UNCHANGED <<kept, then, loopVars, callVars, queue, subs, edits, pending,
                 cancelled, alive, allowed, orphaned>>

\* truncate_to_user_message, by its route
Truncate(i) ==
  /\ Request(TRUE)
  /\ items' = Before(items, i)
  /\ Displace(OpenCalls)
  /\ UNCHANGED <<kept, then, loopVars, callVars, queue, uploading, pending,
                 cancelled, alive, allowed, orphaned>>

---------------------------------------------------------------------------
(* Starting a submission                                                   *)

Dequeue(kind) ==
  /\ pc = "idle" /\ alive
  /\ queue # <<>> /\ Head(queue).kind = kind
  /\ queue' = Tail(queue)
  /\ UNCHANGED <<kept, subs, edits, uploading, allowed>>

\* the beginning of run_agent
StartRun ==
  /\ cancelled' = FALSE
  /\ pc' = "loop" /\ iter' = 0
  /\ then' = "none"

\* a user message abandons the calls that wait for approval
UserInput ==
  /\ Dequeue("user")
  /\ items' = items \o Results(pending) \o <<User>>
  /\ pending' = {}
  /\ status' = With(pending, "closed")
  /\ StartRun /\ ended' = 0
  /\ Answer(pending)
  /\ UNCHANGED <<batch, rejected, alive, displaced>>

\* an empty one leaves them pending; the next request gives them stubs
EmptyInput ==
  /\ Dequeue("empty")
  /\ StartRun /\ ended' = 0
  /\ Displace(pending)
  /\ UNCHANGED <<items, pending, alive, callVars, orphaned>>

\* the messages go, the calls stay pending
Undo ==
  /\ Dequeue("undo")
  /\ items' = Undone(items)
  /\ Displace(pending)
  /\ UNCHANGED <<then, pending, cancelled, alive, callVars, loopVars, orphaned>>

\* exec_approval with nothing pending sends an error
NothingToApprove ==
  /\ Dequeue("approve")
  /\ pending = {}
  /\ ended' = 1
  /\ UNCHANGED <<items, then, pending, cancelled, alive, callVars, pc, iter,
                 displaced, orphaned>>

\* the approved calls start; with none of them the rejections are recorded
\* and the turn goes on
Decide(yes) ==
  /\ IF yes # {}
     THEN /\ batch' = yes /\ rejected' = pending \ yes
          /\ status' = With(yes, "running")
          /\ pc' = "atools"
          /\ UNCHANGED <<items, iter, then, cancelled, orphaned>>
     ELSE /\ items' = items \o Results(pending) /\ Answer(pending)
          /\ status' = With(pending, "closed")
          /\ StartRun
          /\ UNCHANGED <<batch, rejected>>
  /\ ended' = 0
  /\ UNCHANGED <<alive, displaced>>

\* mutant: a call that the decision does not mention is approved
ExecApproval_MissingIsYes ==
  /\ Dequeue("approve")
  /\ pending # {}
  /\ Decide(IF Head(queue).yes \subseteq pending THEN Head(queue).yes
            ELSE pending)
  /\ pending' = {}

\* mutant: pending_approval is cleared with the results
ExecApproval_ClearsLate ==
  /\ Dequeue("approve")
  /\ pending # {}
  /\ Decide(Head(queue).yes \cap pending)
  /\ pending' = IF Head(queue).yes \cap pending = {} THEN {} ELSE pending

\* exec_approval: calls the decision does not mention count as rejected
ExecApproval ==
  /\ Dequeue("approve")
  /\ pending # {}
  /\ Decide(Head(queue).yes \cap pending)
  /\ pending' = {}

---------------------------------------------------------------------------
(* The end of run_agent, after errs errors                                 *)

\* mutant: _run_session only logs what a submission raises
EndTurn_OnlyLogs(errs) ==
  /\ pc' = "idle"
  /\ ended' = ended + errs + (IF ~cancelled /\ errs = 0 THEN 1 ELSE 0)

\* interrupted: the clean-up raises and _run_session sends an error;
\* otherwise turn_complete, unless an error was sent already
EndTurn(errs) ==
  /\ pc' = "idle"
  /\ ended' = ended + errs + (IF cancelled \/ errs = 0 THEN 1 ELSE 0)

---------------------------------------------------------------------------
(* Compaction                                                              *)

\* hints the loop may add before a request: wrap up late in a turn, a doom
\* loop or malformed arguments when there were calls
Hints(h) ==
  {<<>>} \cup (IF iter > 0 \/ \E i \in DOMAIN h : h[i].role = "tool"
              THEN {<<User>>} ELSE {})

\* where the loop goes on: next is "llm" before a request, "loop" when the
\* context was too long for the model, "idle" for the COMPACT operation.  A
\* request starts with a hint and the stubs for what is unanswered
Continue(next, h) ==
  /\ pc' = next
  /\ IF next = "llm" THEN \E hint \in Hints(h) : items' = Patched(h \o hint)
     ELSE items' = h
  /\ UNCHANGED <<ended, alive>>

\* CompactionFailedError: the loop is over
CompactionFailed(next, h) ==
  /\ items' = h
  /\ alive' = FALSE
  /\ IF next = "idle" THEN pc' = "idle" /\ UNCHANGED ended ELSE EndTurn(0)

\* without a user message the first message counts as the prompt and is dropped
DropsCalls(h) == Users(h) = {} /\ h # <<>> /\ h[1].calls # {}

\* compact up to its await; without anything to summarise there is none
Compact(next) ==
  /\ IF ToSummarise(items) = <<>>
     THEN /\ \/ Continue(next, Shortened(items))
             \/ CompactionFailed(next, Shortened(items))
          /\ UNCHANGED <<kept, then>>
     ELSE /\ kept' = Summarised(items) /\ then' = next
          /\ pc' = "compact"
          /\ UNCHANGED <<items, alive, ended>>
  /\ orphaned' = (orphaned \/ DropsCalls(items))
  /\ UNCHANGED displaced

SummaryOver ==
  /\ pc = "compact"
  /\ kept' = <<>> /\ then' = "none"
  /\ UNCHANGED <<iter, callVars, clientVars, pending, cancelled, allowed,
                 displaced, orphaned>>

\* the summary is there: the context is replaced, and is small enough or not
CompactEnd ==
  /\ SummaryOver
  /\ Continue(then, kept) \/ CompactionFailed(then, kept)

\* the model call for the summary raises, out of run_agent and into _run_session,
\* which sends an error (to no turn when it was the COMPACT operation), ...
SummaryFails ==
  /\ SummaryOver
  /\ pc' = "idle" /\ ended' = IF then = "idle" THEN ended ELSE ended + 1
  /\ UNCHANGED <<items, alive>>

\* ... unless it takes a TimeoutError for the one of its queue
SummaryTimesOut ==
  /\ SummaryOver
  /\ pc' = "idle"
  /\ UNCHANGED <<items, alive, ended>>

\* the COMPACT operation: nothing to do below the threshold
CompactOp ==
  /\ Dequeue("compact")
  /\ \/ Compact("idle")
     \/ UNCHANGED <<items, kept, then, pc, ended, alive, displaced, orphaned>>
  /\ UNCHANGED <<iter, callVars, pending, cancelled>>

---------------------------------------------------------------------------
(* The loop                                                                *)

\* the checks at the top, then the compaction when the context is too large
LoopTop ==
  /\ pc = "loop"
  /\ IF iter = MaxIter \/ cancelled
     THEN EndTurn(0) /\ UNCHANGED <<items, kept, then, alive, displaced, orphaned>>
     ELSE \/ Continue("llm", items) /\ UNCHANGED <<kept, then, displaced, orphaned>>
          \/ Compact("llm")
  /\ UNCHANGED <<iter, callVars, clientVars, pending, cancelled, allowed>>

\* text only: the end of the turn
LLMText ==
  /\ pc = "llm"
  /\ items' = Append(items, Assistant({}))
  /\ EndTurn(0)
  /\ UNCHANGED <<kept, then, iter, callVars, clientVars, pending, cancelled,
                 alive, allowed, displaced, orphaned>>

\* the completion guard objects to the text, or the answer was truncated and
\* its calls are dropped
LLMRetry ==
  /\ pc = "llm"
  /\ items' = items \o <<Assistant({}), User>>
  /\ pc' = "loop" /\ iter' = iter + 1
  /\ UNCHANGED <<kept, then, ended, callVars, clientVars, pending, cancelled,
                 alive, allowed, displaced, orphaned>>

\* the end of an iteration: ask the user about the calls held back, or go on
AskOrGoOn(held) ==
  IF held # {}
  THEN /\ pending' = held /\ ended' = ended + 1
       /\ pc' = "idle"
       /\ UNCHANGED iter
  ELSE /\ pc' = "loop" /\ iter' = iter + 1
       /\ UNCHANGED <<pending, ended>>

\* tool calls: malformed ones are answered at once, one part runs, the other
\* waits for approval; nothing of it when the turn was interrupted
LLMCalls(new, kind) ==
  LET auto == {c \in new : kind[c] = "auto"}
      ask  == {c \in new : kind[c] = "ask"} IN
  /\ pc = "llm"
  /\ items' = items \o <<Assistant(new)>> \o Results(new \ (auto \cup ask))
  /\ IF cancelled
     THEN /\ status' = With(new, "closed")
          /\ EndTurn(0)
          /\ UNCHANGED <<batch, allowed, pending, iter>>
     ELSE /\ status' = [c \in Calls |-> CASE c \in auto -> "running"
                                          [] c \in ask -> IF auto = {} THEN "asked"
                                                         ELSE "held"
                                          [] c \in new \ (auto \cup ask) -> "closed"
                                          [] OTHER -> status[c]]
          /\ allowed' = allowed \cup auto
          /\ batch' = auto
          /\ IF auto = {} THEN AskOrGoOn(ask)
             ELSE pc' = "tools" /\ UNCHANGED <<pending, iter, ended>>
  /\ UNCHANGED <<kept, then, rejected, clientVars, cancelled, alive, displaced,
                 orphaned>>

NewCalls == LET used == Calls \ Having("none") IN
            {Cardinality(used) + 1 .. n : n \in Cardinality(used) + 1 .. MaxCalls}

\* the context is too long for the model: compact and repeat the iteration
LLMOverflow ==
  /\ pc = "llm"
  /\ Compact("loop")
  /\ UNCHANGED <<iter, callVars, clientVars, pending, cancelled,
                 allowed>>

\* any other exception
LLMError ==
  /\ pc = "llm"
  /\ EndTurn(1)
  /\ UNCHANGED <<ctxVars, iter, callVars, clientVars, pending, cancelled, alive,
                 allowed, displaced, orphaned>>

---------------------------------------------------------------------------
(* Tools                                                                   *)

ToolStep(c, st) ==
  /\ status[c] = "running"
  /\ status' = With({c}, st)
  /\ UNCHANGED <<ctxVars, loopVars, batch, rejected, clientVars, pending,
                 cancelled, alive, allowed, displaced, orphaned>>

\* by itself, though it may have been cancelled or left behind
ToolReturns(c) == ToolStep(c, "finished") \/ ToolStep(c, "raised")

\* cancelled with the gather that awaits it
ToolStops(c) ==
  /\ c \in batch /\ pc \in {"cancelling", "acancelling"}
  /\ ToolStep(c, "stopped")

\* mutant: the loop looks at the interrupt when the tools have returned
CancelTools_Late ==
  /\ pc \in {"tools", "atools"} /\ cancelled
  /\ batch \cap Having("running") = {}
  /\ pc' = IF pc = "tools" THEN "cancelling" ELSE "acancelling"
  /\ UNCHANGED <<ctxVars, iter, ended, callVars, clientVars, pending,
                 cancelled, alive, allowed, displaced, orphaned>>

\* the cancel task is done first
CancelTools ==
  /\ pc \in {"tools", "atools"} /\ cancelled
  /\ pc' = IF pc = "tools" THEN "cancelling" ELSE "acancelling"
  /\ UNCHANGED <<ctxVars, iter, ended, callVars, clientVars, pending,
                 cancelled, alive, allowed, displaced, orphaned>>

\* the calls of an iteration or an approval are given up
GiveUp ==
  /\ status' = With(Having("held") \cup rejected, "closed")
  /\ batch' = {} /\ rejected' = {}
  /\ UNCHANGED <<ctxVars, iter, clientVars, pending, cancelled, alive, allowed,
                 displaced, orphaned>>

\* the cancelled gather has returned: that of the loop at the first tool that
\* stops or raises, the others are left to unwind; that of an approval, which
\* collects exceptions, with the last one.  Then _cleanup_on_cancel raises: an
\* error in the loop, which ends; out of an approval one of _run_session
CancelDone ==
  /\ pc \in {"cancelling", "acancelling"}
  /\ \/ batch \cap Having("running") = {}
     \/ /\ pc = "cancelling"
        /\ batch \cap (Having("stopped") \cup Having("raised")) # {}
  /\ EndTurn(IF pc = "cancelling" THEN 1 ELSE 0)
  /\ GiveUp

\* a tool raises: the gather does so at once, the other tools run on
ToolsFail ==
  /\ pc = "tools"
  /\ batch \cap Having("raised") # {}
  /\ EndTurn(1)
  /\ GiveUp

RecordResults ==
  /\ pc = "tools"
  /\ batch \subseteq Having("finished")
  /\ items' = items \o Results(batch)
  /\ batch' = {}
  /\ status' = With(Having("held"), "asked")
  /\ AskOrGoOn(Having("held"))
  /\ Answer(batch)
  /\ UNCHANGED <<kept, then, rejected, clientVars, cancelled, alive,
                 allowed, displaced>>

\* the end of exec_approval; a call that raised has no result
Resume ==
  /\ pc = "atools"
  /\ batch \cap Having("running") = {}
  /\ items' = items \o Results(batch \cap Having("finished"))
                    \o Results(rejected)
  /\ status' = With(rejected, "closed")
  /\ batch' = {} /\ rejected' = {}
  /\ StartRun
  /\ Answer((batch \cap Having("finished")) \cup rejected)
  /\ UNCHANGED <<kept, ended, clientVars, pending, alive, allowed, displaced>>

---------------------------------------------------------------------------
Serve ==
  \/ UserInput \/ EmptyInput \/ Undo \/ NothingToApprove \/ ExecApproval
  \/ CompactOp \/ CompactEnd \/ SummaryFails \/ SummaryTimesOut \/ LoopTop
  \/ LLMText \/ LLMRetry \/ LLMOverflow \/ LLMError
  \/ \E new \in NewCalls : \E kind \in [new -> {"bad", "auto", "ask"}] :
       LLMCalls(new, kind)
  \/ CancelTools \/ CancelDone \/ ToolsFail \/ RecordResults \/ Resume

Next ==
  \/ \E op \in Submissions : Submit(op)
  \/ Interrupt \/ UploadStart \/ UploadEnd
  \/ \E i \in Users(items) : Truncate(i)
  \/ Serve
  \/ \E c \in Calls : ToolReturns(c) \/ ToolStops(c)

Spec == Init /\ [][Next]_vars

\* the event loop runs the agent loop, the model answers (its calls time out)
\* and a cancelled tool stops; that a tool returns by itself is not assumed
FairSpec ==
  /\ Spec
  /\ WF_vars(Serve)
  /\ \A c \in Calls : WF_vars(ToolStops(c))

---------------------------------------------------------------------------
(* Properties                                                              *)

\* manager.py:398-405: whatever was interrupted, abandoned, rejected or raised,
\* a request to the model answers each call exactly once and right behind the
\* message that makes it.  Two things break it, and only from then on: results are
\* appended for calls which a truncation, an undo, an upload note or an empty input
\* has displaced while they were open; and a compaction drops the first message of
\* a context without user messages, where it makes calls.
RequestIsPaired == pc = "llm" /\ ~orphaned => Paired(items)

\* A call that needs the user's approval starts only when a decision on that
\* very call said yes, whatever decisions are queued for which batch.
RunsOnlyAllowed == Started \subseteq allowed

\* A call that has started is never started again, although decisions may be
\* sent twice and interrupts may leave a call without a result.
RunsOnce ==
  [][\A c \in Calls : status[c] \in {"finished", "stopped", "raised", "closed"}
                        => status'[c] = status[c]]_vars

\* routes/agent.py:1001-1007: whichever way a turn ends, its streams get a
\* terminal event, and a second one only when it was interrupted.  The one end
\* without any is a TimeoutError of the call for a compaction's summary.
EndsOnce ==
  [][pc # "idle" /\ pc' = "idle" /\ then # "idle" =>
       ended' = 1 \/ (ended' = 2 /\ cancelled) \/ SummaryTimesOut]_vars

\* An interrupt ends the turn even when no tool ever returns, unless the flag
\* is reset by the turn an approval goes on with.
InterruptEndsTurn == cancelled /\ pc # "idle" ~> pc = "idle" \/ ~cancelled

(* Promises of comments that the code does not keep (README, section 3).    *)

\* agent_loop.py:1469-1473: the calls that wait for approval get results so
\* that the history stays valid: with stubs for what else is unanswered, the
\* context that an abandoned or rejected approval leaves is well formed.
AbandonKeepsHistory ==
  [][pending # {} /\ pending' = {} => Paired(Patched(items'))]_vars

\* routes/agent.py:1001-1007: a stream stays open until an event of
\* _TERMINAL_EVENTS, so every turn sends one.
EveryTurnEnds ==
  [][pc # "idle" /\ pc' = "idle" /\ then # "idle" => ended' > 0]_vars

\* agent_loop.py:1941: the tools are cancellable: an interrupt during a turn is
\* in force until that turn has ended.
InterruptIsKept ==
  [][cancelled /\ pc # "idle" => cancelled']_vars

\* manager.py:438: a stub says that its call was not executed, so the tool is
\* not running.
StubsAreTrue ==
  [][pc # "llm" /\ pc' = "llm" =>
       Dangling(items) \cap Having("running") = {}]_vars

\* manager.py:586: compaction removes old messages.  The newest message, which
\* a route may have appended while the summary was awaited, is not one.
CompactionKeepsNewest ==
  [][pc = "compact" /\ pc' \in {"loop", "idle"} /\ items # <<>> =>
       Last(items') = Last(items)]_vars
=============================================================================
