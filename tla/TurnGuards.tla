----------------------------- MODULE TurnGuards -----------------------------
(***************************************************************************)
(* What keeps an autonomous turn on course: the notices that run_agent puts  *)
(* into the context before an LLM call (the iteration budget nears its end,  *)
(* the same calls repeat, arguments are malformed again and again), the      *)
(* completion guard at a reply without calls, and the ledger of failed       *)
(* attempts, which outlives compaction and is read by that guard.            *)
(*                                                                         *)
(* A call is its tool, its arguments and what came of it, each a value that   *)
(* stands for its hash; the texts of notices are their kinds.  Approvals and *)
(* interrupts are AgentTurn's.                                              *)
(***************************************************************************)
EXTENDS Integers, Sequences, FiniteSets, Selections

CONSTANTS
  GuardedCalls,       \* the calls a model may make: records [tool, args, out]
  MaxParallel, \* bound: calls of one reply
  MaxTurns,    \* bound: turns
  MaxIterations, \* max_iterations, no more than 300 in the code's configuration
  MinBudget,   \* _WRAP_UP_MIN_BUDGET, 20
  Challenges,  \* _NO_TOOL_INCOMPLETE_PLAN_RETRY_LIMIT, 2
  Threshold,   \* identical calls in a row that trip the detector, 3; it needs 3 calls
  Lookback,    \* messages the detector looks at, 30
  MaxRecords   \* MAX_RECORDS of the ledger, 40

ASSUME GuardsAssumption ==
  /\ \A c \in GuardedCalls : c.out \in {"done", "changed", "failed", "malformed"}
  /\ {MaxParallel, MaxTurns, MaxIterations, MinBudget, Challenges, Threshold,
      Lookback, MaxRecords} \subseteq Nat
  /\ Threshold >= 3

VARIABLES
  at,         \* "idle", "top" of the loop, "reply" awaited
  turns, iteration, warned,
  challenged, \* no_tool_incomplete_plan_retries
  planOpen,   \* the plan has an item that is pending or in progress
  context,    \* the messages since the task prompt
  ledger,     \* attempt_log.records: the number of the failure, tool, resolved
  \* for properties only
  failures    \* all records the ledger was ever given

guardVars == <<at, turns, iteration, warned, challenged, planOpen, context,
               ledger, failures>>

NoCall == [tool |-> "none", args |-> "none", out |-> "none"]
\* a message: a user's or a notice, the assistant's with its calls, a result
Says(kind) == [role |-> "user", kind |-> kind, calls |-> <<>>, of |-> NoCall]
Replies(cs) == [role |-> "assistant", kind |-> "reply", calls |-> cs, of |-> NoCall]
Result(c) == [role |-> "tool", kind |-> "result", calls |-> <<>>, of |-> c]

GuardsTypeOK ==
  /\ at \in {"idle", "top", "reply"} /\ turns \in 0 .. MaxTurns
  /\ iteration \in 0 .. MaxIterations /\ warned \in BOOLEAN
  /\ challenged \in 0 .. Challenges /\ planOpen \in BOOLEAN
  /\ \A k \in DOMAIN context :
       context[k].role \in {"user", "assistant", "tool"}
  /\ Len(ledger) <= MaxRecords
  /\ \A k \in DOMAIN ledger : ledger[k].n \in 1 .. Len(failures)

GuardsInit ==
  /\ at = "idle" /\ turns = 0 /\ iteration = 0 /\ warned = FALSE
  /\ challenged = 0 /\ planOpen = FALSE
  /\ context = <<>> /\ ledger = <<>> /\ failures = <<>>

---------------------------------------------------------------------------
(* The detectors                                                           *)

Newest(s, n) == SubSeq(s, IF Len(s) > n THEN Len(s) - n + 1 ELSE 1, Len(s))

\* the calls of some messages, one message after the other
CallsOf(msgs) ==
  LET upto[k \in 0 .. Len(msgs)] ==
        IF k = 0 THEN <<>> ELSE upto[k - 1] \o msgs[k].calls
  IN upto[Len(msgs)]

\* extract_recent_tool_signatures: each result follows its call
Signatures == CallsOf(Newest(context, Lookback))

\* mutant: only the newest calls count, and one more of them is needed
Identical_Late(sigs) ==
  /\ Len(sigs) > Threshold
  /\ \A j \in Len(sigs) - Threshold .. Len(sigs) : sigs[j] = sigs[Len(sigs)]

\* detect_identical_consecutive, anywhere in the window
Identical(sigs) ==
  \E i \in 1 .. Len(sigs) - Threshold + 1 :
    \A j \in i .. i + Threshold - 1 : sigs[j] = sigs[i]

\* detect_repeating_sequence: the newest calls repeat those before them
Repeating(sigs) ==
  \E n \in 2 .. 5 :
    /\ Len(sigs) >= 2 * n
    /\ \A j \in Len(sigs) - n + 1 .. Len(sigs) : sigs[j] = sigs[j - n]

Stuck == Len(Signatures) >= 3 /\ (Identical(Signatures) \/ Repeating(Signatures))

\* _detect_repeated_malformed: the two newest results are of the same tool
MalformedAgain(msgs) ==
  LET results == Picked(msgs, {k \in DOMAIN msgs : msgs[k].role = "tool"})
      n == Len(results)
  IN n >= 2 /\ \A k \in {n - 1, n} : /\ results[k].of.out = "malformed"
                                     /\ results[k].of.tool = results[n].of.tool

\* _should_warn_wrap_up: 85 % of the budget
WarnFrom == (85 * MaxIterations) \div 100
ShouldWarn == MaxIterations >= MinBudget /\ iteration >= WarnFrom

---------------------------------------------------------------------------
(* The ledger                                                              *)

Unresolved(records) == Picked(records, {k \in DOMAIN records : ~records[k].resolved})

\* mutant: the newest records survive, whether resolved or not
Trim_Plain(records) == Newest(records, MaxRecords)

\* record_failure makes room: the unresolved records, after as many of all
\* records from the front as are resolved (which may repeat unresolved ones)
Trim(records) ==
  LET keep == Unresolved(records)
      front == SubSeq(records, 1, Len(records) - Len(keep))
  IN IF Len(records) > MaxRecords THEN Newest(front \o keep, MaxRecords)
     ELSE records

\* record_success, record_failure
Resolve(records, tool) ==
  [k \in DOMAIN records |->
     [records[k] EXCEPT !.resolved = @ \/ records[k].tool = tool]]

\* what one call adds to the ledger; a malformed one is not recorded
Noted(acc, c) ==
  LET r == [n |-> Len(acc.all) + 1, tool |-> c.tool, resolved |-> FALSE]
  IN CASE c.out = "failed" ->
            [all |-> Append(acc.all, r), log |-> Trim(Append(acc.log, r))]
       [] c.out = "malformed" -> acc
       [] OTHER -> [all |-> Resolve(acc.all, c.tool), log |-> Resolve(acc.log, c.tool)]

\* the results of a reply in their order
Recorded(calls) ==
  LET upto[k \in 0 .. Len(calls)] ==
        IF k = 0 THEN [all |-> failures, log |-> ledger] ELSE Noted(upto[k - 1], calls[k])
  IN upto[Len(calls)]

---------------------------------------------------------------------------
(* The turn                                                                *)

NewTurn ==
  /\ at = "idle" /\ turns < MaxTurns /\ turns' = turns + 1
  /\ at' = "top" /\ iteration' = 0 /\ warned' = FALSE /\ challenged' = 0
  /\ context' = Append(context, Says("prompt"))
  /\ UNCHANGED <<planOpen, ledger, failures>>

Notice(yes, kind) == IF yes THEN <<Says(kind)>> ELSE <<>>

\* before the LLM call, without compaction
Guards ==
  /\ at = "top" /\ iteration < MaxIterations
  /\ warned' = (warned \/ ShouldWarn)
  /\ context' = context \o Notice(ShouldWarn /\ ~warned, "wrap_up")
                \o Notice(Stuck, "repetition")
                \o Notice(MalformedAgain(context), "malformed")
  /\ at' = "reply"
  /\ UNCHANGED <<turns, iteration, challenged, planOpen, ledger, failures>>

\* the older messages are folded into a summary, up to one from a user
CompactContext(k) ==
  /\ at = "top" /\ k > 2 /\ context[k].role = "user"
  /\ context' = <<context[1], Replies(<<>>)>> \o SubSeq(context, k, Len(context))
  /\ UNCHANGED <<at, turns, iteration, warned, challenged, planOpen, ledger,
                 failures>>

\* the budget is used up
BudgetEnds ==
  /\ at = "top" /\ iteration = MaxIterations /\ at' = "idle"
  /\ UNCHANGED <<turns, iteration, warned, challenged, planOpen, context,
                 ledger, failures>>

\* the model calls tools: results of malformed calls come first
Malformed(calls) == {k \in DOMAIN calls : calls[k].out = "malformed"}
ResultOrder(calls) ==
  Picked(calls, Malformed(calls)) \o Picked(calls, DOMAIN calls \ Malformed(calls))
\* PlanTool.execute replaces the plan as a whole, or refuses the new one
PlanAfter(calls) ==
  IF \E k \in DOMAIN calls : /\ calls[k].tool = "plan_tool"
                             /\ calls[k].out \in {"done", "changed"}
  THEN BOOLEAN ELSE {}

ReplyCalls(calls) ==
  /\ at = "reply"
  /\ context' = Append(context, Replies(calls))
                \o [k \in DOMAIN calls |-> Result(ResultOrder(calls)[k])]
  /\ ledger' = Recorded(calls).log /\ failures' = Recorded(calls).all
  /\ planOpen' \in {planOpen} \cup PlanAfter(calls)
  /\ at' = "top" /\ iteration' = iteration + 1 /\ challenged' = 0
  /\ UNCHANGED <<turns, warned>>

\* the reply ran into its token limit and lost its calls
ReplyTruncated ==
  /\ at = "reply"
  /\ context' = Append(context, Says("truncated"))
  /\ at' = "top" /\ iteration' = iteration + 1
  /\ UNCHANGED <<turns, warned, challenged, planOpen, ledger, failures>>

\* _completion_guard_prompt
Unfinished == planOpen \/ Unresolved(ledger) # <<>>

\* a reply without calls, challenged while something is unfinished
ReplyText ==
  /\ at = "reply"
  /\ IF Unfinished /\ challenged < Challenges
     THEN /\ context' = context \o <<Replies(<<>>), Says("completion")>>
          /\ at' = "top" /\ iteration' = iteration + 1
          /\ challenged' = challenged + 1
     ELSE /\ context' = Append(context, Replies(<<>>))
          /\ at' = "idle" /\ UNCHANGED <<iteration, challenged>>
  /\ UNCHANGED <<turns, warned, planOpen, ledger, failures>>

\* an error of the LLM call
ReplyFails ==
  /\ at = "reply" /\ at' = "idle"
  /\ UNCHANGED <<turns, iteration, warned, challenged, planOpen, context,
                 ledger, failures>>

\* start_new_conversation
NewConversation ==
  /\ at = "idle" /\ context # <<>>
  /\ planOpen' = FALSE /\ ledger' = <<>> /\ failures' = <<>> /\ context' = <<>>
  /\ UNCHANGED <<at, turns, iteration, warned, challenged>>

GuardsNext ==
  \/ NewTurn \/ Guards \/ BudgetEnds \/ ReplyTruncated \/ ReplyText \/ ReplyFails
  \/ NewConversation
  \/ \E k \in DOMAIN context : CompactContext(k)
  \/ \E n \in 1 .. MaxParallel : \E calls \in [1 .. n -> GuardedCalls] : ReplyCalls(calls)

GuardsSpec == GuardsInit /\ [][GuardsNext]_guardVars

---------------------------------------------------------------------------
Numbers(records) == {records[k].n : k \in DOMAIN records}

\* "A compacted agent then retries a command that failed four times": a failure
\* whose tool has not succeeded since is dropped only for MaxRecords newer ones,
\* however compactions, successes and trims alternate.
LedgerDropsOldest ==
  [][\A n \in Numbers(Unresolved(ledger)) :
       (/\ n \in Numbers(Unresolved(failures'))
        /\ n \notin Numbers(Unresolved(ledger')))
       => Cardinality((Numbers(Unresolved(failures))
                         \cup (Len(failures) + 1 .. Len(failures'))) \ (1 .. n))
          >= MaxRecords]_guardVars

\* A model whose newest calls are all the same, results included, is told so
\* before it is asked again, and after those calls.
RepeatersAreTold ==
  LET n == Len(Signatures)
  IN (/\ at = "reply" /\ n >= Threshold
      /\ \A j \in n - Threshold + 1 .. n : Signatures[j] = Signatures[n])
     => \E k \in DOMAIN context :
          /\ context[k].kind = "repetition"
          /\ \A j \in k .. Len(context) : context[j].role = "user"

(* Promises of comments that the code does not keep (README, section 3).    *)

\* doom_loop "Detects when the agent is stuck": a notice is about the newest
\* calls.
RepetitionIsCurrent ==
  LET n == Len(Signatures)
  IN at = "reply" /\ context[Len(context)].kind = "repetition" =>
       \/ n >= Threshold /\ \A j \in n - Threshold + 1 .. n :
                              Signatures[j] = Signatures[n]
       \/ Repeating(Signatures)

\* "Drop resolved records first": no failure is listed twice.
ListedOnce == Cardinality(Numbers(ledger)) = Len(ledger)
=============================================================================
