---------------------------- MODULE ContextHistory ----------------------------
(***************************************************************************)
(* The message list of agent/context_manager/manager.py as operators on      *)
(* sequences.  A message is a role and the tool calls it is about: those an  *)
(* assistant message makes, or the one a tool message answers.  The system   *)
(* message is always there, never moves and is left out, so h[i] is          *)
(* items[i] of the code.  Calls are numbered from 1 on.                      *)
(***************************************************************************)
EXTENDS Integers, SequencesExt

CONSTANT Untouched  \* ContextManager.untouched_messages

ASSUME UntouchedAssumption == Untouched \in Nat \ {0}

User == [role |-> "user", calls |-> {}]
Assistant(S) == [role |-> "assistant", calls |-> S]
Result(c) == [role |-> "tool", calls |-> {c}]

\* one result per call, in the order of the calls
Results(S) ==
  [n \in 1 .. Cardinality(S) |->
     Result(CHOOSE c \in S : Cardinality({d \in S : d <= c}) = n)]

Users(h) == {i \in DOMAIN h : h[i].role = "user"}
Before(h, i) == SubSeq(h, 1, i - 1)

\* the message that a run of tool messages follows, 0 when there is none
Owner(h, i) == Max({0} \cup {j \in 1 .. i : h[j].role # "tool"})
Block(h, i) == {k \in DOMAIN h : k > i /\ Owner(h, k) = i}

\* the calls of message i that no result in the block after it answers
Unanswered(h, i) == h[i].calls \ UNION {h[k].calls : k \in Block(h, i)}
Dangling(h) == UNION {Unanswered(h, i) :
                        i \in {j \in DOMAIN h : h[j].role = "assistant"}}

---------------------------------------------------------------------------
(* The edits                                                               *)

\* mutant: the stubs go to the end of the list
Patched_AtEnd(h) == h \o Results(Dangling(h))

\* _patch_dangling_tool_calls: stubs for the unanswered calls, right behind
\* the block of results that follows the assistant message.  Slot <<k, 0>> is
\* for message k, slot <<k, c>> for the stub of call c behind it
Stubbed(h, i) == {Max({i} \cup Block(h, i))} \X Unanswered(h, i)
Slots(h) ==
  {<<k, 0>> : k \in DOMAIN h}
    \cup UNION {Stubbed(h, i) : i \in {j \in DOMAIN h : h[j].role = "assistant"}}
UpTo(S, s) == {t \in S : t[1] < s[1] \/ (t[1] = s[1] /\ t[2] <= s[2])}
Slot(S, n) == CHOOSE s \in S : Cardinality(UpTo(S, s)) = n
Filled(h, s) == IF s[2] = 0 THEN h[s[1]] ELSE Result(s[2])
Patched(h) ==
  IF Dangling(h) = {} THEN h
  ELSE LET all == Slots(h) IN
       [n \in 1 .. Cardinality(all) |-> Filled(h, Slot(all, n))]

\* undo_last_turn: pop up to and including the last user message
Undone(h) == IF Users(h) = {} THEN <<>> ELSE Before(h, Max(Users(h)))

\* compact: the first user message, then what it would summarise, then the
\* tail from a user message on
FirstUser(h) == IF Users(h) = {} THEN 1 ELSE Min(Users(h))
Prompt(h) == IF Users(h) = {} THEN <<>> ELSE <<h[FirstUser(h)]>>
TailFrom(h) ==
  Max({FirstUser(h) + 1}
      \cup {i \in Users(h) : FirstUser(h) < i /\ i <= Len(h) + 1 - Untouched})
Recent(h) == SubSeq(h, TailFrom(h), Len(h))
ToSummarise(h) == SubSeq(h, FirstUser(h) + 1, TailFrom(h) - 1)
Shortened(h) == Prompt(h) \o Recent(h)
Summarised(h) == Prompt(h) \o <<Assistant({})>> \o Recent(h)

---------------------------------------------------------------------------
(* What the provider accepts                                               *)

\* every tool message answers a call of the assistant message whose block it
\* is in, and every call is answered exactly once
Paired(h) ==
  /\ \A k \in DOMAIN h : h[k].role = "tool" =>
       LET i == Owner(h, k) IN i # 0 /\ h[k].calls \subseteq h[i].calls
  /\ \A i \in DOMAIN h : h[i].role = "assistant" =>
       \A c \in h[i].calls :
         Cardinality({k \in Block(h, i) : h[k].calls = {c}}) = 1
=============================================================================
