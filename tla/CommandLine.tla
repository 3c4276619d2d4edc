---------------------------- MODULE CommandLine ----------------------------
(***************************************************************************)
(* The command line client: the main loop that prompts and submits, the      *)
(* listener that shows events and asks for approvals, the submission loop     *)
(* with the agent, and Ctrl-C, whose handler each prompt of prompt_toolkit    *)
(* takes away.  Headless, one prompt is run and its events are read by the    *)
(* main task itself.                                                        *)
(*                                                                         *)
(* All of them share one event loop; they meet in two queues and in the       *)
(* asyncio.Event turn_complete_event.  Of the events only those are modelled  *)
(* that change more than the screen; of a turn only how it ends.             *)
(***************************************************************************)
EXTENDS Naturals, Sequences

CONSTANTS
  Commands,  \* what the user may type: "input", "undo", "compact", "local"
  MaxTyped   \* bound: things the user types

ASSUME CommandAssumption ==
  /\ Commands \subseteq {"input", "undo", "compact", "local"}
  /\ MaxTyped \in Nat

VARIABLES
  headless,
  console,     \* the main task: "starting", "waiting", "prompt", "shutting", "gone"
  listener,    \* "on", "asking", "off"
  agent,       \* "starting", "idle", "turn", "tools", "gone"
  running,     \* session.is_running
  cancelled,   \* session._cancelled
  pending,     \* session.pending_approval
  submissions, \* submission_queue
  events,      \* event_queue
  done,        \* turn_complete_event
  handler,     \* who gets SIGINT: "ours", "prompt", "default"
  armed,       \* a Ctrl-C within CTRL_C_QUIT_WINDOW
  quit,        \* interrupt_state["exit"]
  yolo,        \* config.yolo_mode
  typed,       \* number of things typed
  twice        \* (history) a turn has put two of the events that end one

cliVars == <<headless, console, listener, agent, running, cancelled, pending,
             submissions, events, done, handler, armed, quit, yolo, typed, twice>>

Endings == {"complete", "error", "undone"}
EventTypes == Endings \cup {"ready", "approval", "compacted", "shutdown"}
Operations == (Commands \ {"local"}) \cup {"input", "yes", "no", "shutdown"}

CliTypeOK ==
  /\ headless \in BOOLEAN /\ yolo \in BOOLEAN
  /\ console \in {"starting", "waiting", "prompt", "shutting", "gone"}
  /\ listener \in {"on", "asking", "off"}
  /\ agent \in {"starting", "idle", "turn", "tools", "gone"}
  /\ {running, cancelled, done, armed, quit} \subseteq BOOLEAN
  /\ pending \in BOOLEAN /\ handler \in {"ours", "prompt", "default"}
  /\ submissions \in Seq(Operations) /\ events \in Seq(EventTypes)
  /\ typed \in 0 .. MaxTyped /\ twice \in BOOLEAN

CliInit ==
  /\ headless \in BOOLEAN /\ yolo = headless
  /\ console = "starting" /\ agent = "starting" /\ running = TRUE
  /\ listener = IF headless THEN "off" ELSE "on"
  /\ cancelled = FALSE /\ pending = FALSE
  /\ submissions = <<>> /\ events = <<>>
  /\ done = TRUE /\ handler = "default" /\ armed = FALSE /\ quit = FALSE
  /\ typed = 0 /\ twice = FALSE

---------------------------------------------------------------------------
(* The agent: submission_loop                                              *)

Emit(e) == events' = Append(events, e)
AgentOnly ==
  /\ UNCHANGED <<headless, console, listener, done, handler, armed, quit, yolo, typed>>
  /\ twice' = (twice \/ Len(events') > Len(events) + 1)

\* the tool router is entered; an MCP server that fails ends the task
AgentStarts ==
  /\ agent = "starting"
  /\ \/ agent' = "idle" /\ Emit("ready")
     \/ agent' = "gone" /\ UNCHANGED events
  /\ UNCHANGED <<running, cancelled, pending, submissions>> /\ AgentOnly

Next1 == Head(submissions)
Taken(op) ==
  /\ agent = "idle" /\ submissions # <<>> /\ Next1 = op
  /\ submissions' = Tail(submissions)

\* run_agent: the flag of an earlier turn is cleared, approvals are abandoned
TakeInput ==
  /\ Taken("input") /\ agent' = "turn" /\ cancelled' = FALSE /\ pending' = FALSE
  /\ UNCHANGED <<running, events>> /\ AgentOnly

\* exec_approval
TakeApproval ==
  /\ Taken("yes") \/ Taken("no")
  /\ IF ~pending THEN Emit("error") /\ UNCHANGED <<agent, pending, cancelled>>
     ELSE /\ pending' = FALSE /\ UNCHANGED events
          /\ IF Next1 = "yes" THEN agent' = "tools" /\ UNCHANGED cancelled
             ELSE agent' = "turn" /\ cancelled' = FALSE
  /\ UNCHANGED running /\ AgentOnly

\* the approved tools have run: run_agent goes on, unless Ctrl-C came first and
\* the clean-up raises
ToolsEnd ==
  /\ agent = "tools"
  /\ IF cancelled THEN agent' = "idle" /\ Emit("error") /\ UNCHANGED cancelled
     ELSE agent' = "turn" /\ cancelled' = FALSE /\ UNCHANGED events
  /\ UNCHANGED <<running, pending, submissions>> /\ AgentOnly

\* undo, new and resume
TakeUndo ==
  /\ Taken("undo") /\ \E e \in {"undone", "error"} : Emit(e)
  /\ UNCHANGED <<agent, running, cancelled, pending>> /\ AgentOnly

\* compaction may find nothing to do, end the loop, or raise out of its summary
\* call into the handler of submission_loop, which reports the error
TakeCompact ==
  /\ Taken("compact")
  /\ \/ /\ (\E e \in {"compacted", "error"} : Emit(e)) \/ UNCHANGED events
        /\ UNCHANGED <<running, agent>>
     \/ running' = FALSE /\ agent' = "gone" /\ UNCHANGED events
  /\ UNCHANGED <<cancelled, pending>> /\ AgentOnly

TakeShutdown ==
  /\ Taken("shutdown") /\ Emit("shutdown") /\ running' = FALSE /\ agent' = "gone"
  /\ UNCHANGED <<cancelled, pending>> /\ AgentOnly

\* the turn asks for approvals and returns; a Ctrl-C may have come too late
TurnAsks ==
  /\ agent = "turn" /\ agent' = "idle" /\ pending' = TRUE /\ Emit("approval")
  /\ UNCHANGED <<running, cancelled, submissions>> /\ AgentOnly

\* a turn that fails ends with "error"; in one that was stopped the clean-up
\* raises, which is an error of submission_loop, the second one when the tools
\* were cancelled or the model call failed
TurnEnds ==
  /\ agent = "turn" /\ agent' = "idle"
  /\ \/ ~cancelled /\ Emit("complete")
     \/ Emit("error")
     \/ cancelled /\ events' = events \o <<"error", "error">>
  /\ UNCHANGED <<running, cancelled, pending, submissions>> /\ AgentOnly

\* compaction failed: the turn still completes, and so does the loop
TurnTerminates ==
  /\ agent = "turn" /\ agent' = "gone" /\ running' = FALSE
  /\ Emit(IF cancelled THEN "error" ELSE "complete")
  /\ UNCHANGED <<cancelled, pending, submissions>> /\ AgentOnly

---------------------------------------------------------------------------
(* The listener                                                            *)

Event(e) ==
  /\ listener = "on" /\ events # <<>> /\ Head(events) = e
  /\ events' = Tail(events)
AgentUntouched == UNCHANGED <<headless, twice, agent, running, cancelled, pending>>

\* the terminal events of a turn, an undo, a new chat or a resume
EndingShown ==
  /\ \E e \in Endings : Event(e)
  /\ done' = TRUE
  /\ AgentUntouched /\ UNCHANGED <<console, listener, submissions, handler, armed,
                              quit, yolo, typed>>

CompactedShown ==
  /\ Event("compacted")
  /\ AgentUntouched /\ UNCHANGED <<console, listener, submissions, done, handler,
                              armed, quit, yolo, typed>>

ShutdownShown ==
  /\ Event("shutdown") /\ listener' = "off"
  /\ AgentUntouched /\ UNCHANGED <<console, submissions, done, handler, armed, quit,
                              yolo, typed>>

\* in yolo mode the answer is submitted at once, else the user is prompted
ApprovalShown ==
  /\ Event("approval")
  /\ IF yolo
     THEN submissions' = Append(submissions, "yes") /\ UNCHANGED <<listener, handler>>
     ELSE listener' = "asking" /\ handler' = "prompt" /\ UNCHANGED submissions
  /\ AgentUntouched /\ UNCHANGED <<console, done, armed, quit, yolo, typed>>

\* the answers, Ctrl-C and end of file included; the prompt takes its SIGINT
\* handler with it, and ours is not installed again
Answered(answer, forever) ==
  /\ listener = "asking" /\ listener' = "on"
  /\ submissions' = Append(submissions, answer)
  /\ yolo' = (yolo \/ forever) /\ handler' = "default"
  /\ AgentUntouched /\ UNCHANGED <<console, events, done, armed, quit, typed>>

---------------------------------------------------------------------------
(* The main loop                                                           *)

MainSame == UNCHANGED <<headless, twice, listener, agent, running, pending, yolo>>

\* ready_event, which the listener sets
Ready ==
  /\ console = "starting" /\ ~headless /\ Event("ready")
  /\ console' = "waiting" /\ handler' = "ours"
  /\ MainSame /\ UNCHANGED <<cancelled, submissions, done, armed, quit, typed>>

\* turn_complete_event
Wake ==
  /\ console = "waiting" /\ ~headless /\ done /\ done' = FALSE
  /\ IF quit THEN console' = "shutting" /\ submissions' = Append(submissions, "shutdown")
                  /\ UNCHANGED handler
     ELSE console' = "prompt" /\ handler' = "prompt" /\ UNCHANGED submissions
  /\ MainSame /\ UNCHANGED <<events, cancelled, armed, quit, typed>>

\* a message or a slash command is submitted; a local command, /yolo among
\* them, prompts again
Type(c) ==
  /\ console = "prompt" /\ typed < MaxTyped /\ typed' = typed + 1
  /\ console' = "waiting" /\ handler' = "ours" /\ armed' = FALSE
  /\ IF c = "local" THEN done' = TRUE /\ yolo' \in BOOLEAN /\ UNCHANGED submissions
     ELSE submissions' = Append(submissions, c) /\ UNCHANGED <<done, yolo>>
  /\ UNCHANGED <<headless, twice, listener, agent, running, pending, events,
                 cancelled, quit>>

\* exit, quit or end of file
Leave ==
  /\ console = "prompt" /\ console' = "shutting" /\ handler' = "default"
  /\ submissions' = Append(submissions, "shutdown")
  /\ MainSame /\ UNCHANGED <<events, cancelled, done, armed, quit, typed>>

\* Ctrl-C at the prompt
PromptInterrupted ==
  /\ console = "prompt"
  /\ IF armed
     THEN /\ console' = "shutting" /\ submissions' = Append(submissions, "shutdown")
          /\ handler' = "default" /\ UNCHANGED <<armed, done>>
     ELSE /\ console' = "waiting" /\ armed' = TRUE /\ done' = TRUE
          /\ handler' = "ours" /\ UNCHANGED submissions
  /\ MainSame /\ UNCHANGED <<events, cancelled, quit, typed>>

\* mutant: the first press wakes the main loop, too
Interrupt_Wakes ==
  /\ console = "waiting" /\ handler = "ours"
  /\ armed' = TRUE /\ quit' = (quit \/ armed) /\ done' = TRUE /\ cancelled' = TRUE
  /\ MainSame /\ UNCHANGED <<console, submissions, events, handler, typed>>

\* _on_sigint while the agent works
Interrupt ==
  /\ console = "waiting" /\ handler = "ours"
  /\ armed' = TRUE /\ quit' = (quit \/ armed) /\ done' = (done \/ armed)
  /\ cancelled' = TRUE
  /\ MainSame /\ UNCHANGED <<console, submissions, events, handler, typed>>

\* Ctrl-C when the handler is gone: it is lost, or it ends the program
InterruptUnhandled ==
  /\ console \in {"starting", "waiting"} /\ handler = "default" /\ ~headless
  /\ console' = "gone" /\ agent' = "gone" /\ listener' = "off"
  /\ UNCHANGED <<headless, twice, running, pending, yolo, cancelled, submissions, events,
                 done, armed, quit, typed, handler>>

\* the window of the double press is over
Disarm ==
  /\ armed /\ armed' = FALSE
  /\ MainSame /\ UNCHANGED <<console, submissions, events, cancelled, done, handler,
                             quit, typed>>

---------------------------------------------------------------------------
(* Headless                                                                *)

HeadlessReady ==
  /\ headless /\ console = "starting" /\ events # <<>> /\ Head(events) = "ready"
  /\ console' = "waiting" /\ events' = Tail(events)
  /\ submissions' = Append(submissions, "input")
  /\ MainSame /\ UNCHANGED <<cancelled, done, handler, armed, quit, typed>>

\* approvals are answered; the turn's end or an error ends the loop
HeadlessEvent ==
  /\ headless /\ console = "waiting" /\ events # <<>> /\ events' = Tail(events)
  /\ CASE Head(events) = "approval" ->
            submissions' = Append(submissions, "yes") /\ UNCHANGED console
       [] Head(events) \in Endings ->
            submissions' = Append(submissions, "shutdown") /\ console' = "shutting"
       [] OTHER -> UNCHANGED <<submissions, console>>
  /\ MainSame /\ UNCHANGED <<cancelled, done, handler, armed, quit, typed>>

---------------------------------------------------------------------------
(* Leaving                                                                 *)

\* mutant: the agent's end is awaited without a limit
AgentAwaited_NoLimit ==
  /\ console = "shutting" /\ agent = "gone" /\ console' = "gone" /\ listener' = "off"
  /\ UNCHANGED <<headless, twice, agent, running, cancelled, pending, submissions, events,
                 done, handler, armed, quit, yolo, typed>>

\* the agent's end is awaited for ten seconds, then it is cancelled
AgentAwaited ==
  /\ console = "shutting" /\ console' = "gone" /\ agent' = "gone" /\ listener' = "off"
  /\ UNCHANGED <<headless, twice, running, cancelled, pending, submissions, events, done,
                 handler, armed, quit, yolo, typed>>

Submissions == TakeInput \/ TakeApproval \/ TakeUndo \/ TakeCompact \/ TakeShutdown
AgentStep == AgentStarts \/ Submissions \/ ToolsEnd \/ TurnAsks \/ TurnEnds
             \/ TurnTerminates
ListenerStep == EndingShown \/ CompactedShown \/ ShutdownShown \/ ApprovalShown
Answering ==
  \E answer \in {"yes", "no"}, forever \in BOOLEAN :
    (forever => answer = "yes") /\ Answered(answer, forever)
MainStep == Ready \/ Wake \/ HeadlessReady \/ HeadlessEvent \/ AgentAwaited

CliNext ==
  \/ AgentStep \/ ListenerStep \/ Answering \/ MainStep
  \/ \E c \in Commands : Type(c)
  \/ Leave \/ PromptInterrupted \/ Interrupt \/ InterruptUnhandled \/ Disarm

CliSpec == CliInit /\ [][CliNext]_cliVars

\* the tasks run whenever they can; what the user does is the user's, and a turn
\* may take for ever
CliFairness ==
  /\ WF_cliVars(MainStep) /\ WF_cliVars(ListenerStep)
  /\ WF_cliVars(AgentStarts) /\ WF_cliVars(Submissions)
CliFairSpec == CliSpec /\ CliFairness

---------------------------------------------------------------------------
\* The user is prompted for input only when the agent has nothing to do and the
\* listener asks nothing: a turn wakes the main loop once, at its end.  Only a
\* turn that Ctrl-C stops with tools or a failing model call under way ends twice.
PromptMeansIdle ==
  console = "prompt" /\ ~twice =>
    /\ agent \in {"idle", "gone"} /\ listener # "asking"
    /\ \A k \in DOMAIN submissions : submissions[k] = "shutdown"
    /\ \A k \in DOMAIN events : events[k] = "shutdown"

\* "Two Ctrl+C presses within this window quit": once the user has quit, or the
\* headless prompt is over, the program ends, whatever the agent does.
QuitEnds == quit \/ console = "shutting" ~> console = "gone"

(* Promises of comments that the code does not keep (README, section 3).    *)

\* Whatever was submitted, the user is prompted again once the agent is idle:
\* "the main loop deadlocks waiting for turn_complete" is to be prevented.
PromptReturns ==
  (console = "waiting" /\ agent = "idle" /\ ~headless) ~>
    (console # "waiting" \/ listener = "asking" \/ agent \in {"turn", "tools"})

\* "a single press cancels the in-flight turn": while a turn is in flight,
\* Ctrl-C reaches our handler.
PressCancels ==
  agent \in {"turn", "tools"} /\ console \in {"waiting", "prompt"} /\ ~headless
    => handler = "ours"

\* the program starts or ends
StartEnds == console = "starting" ~> console # "starting"
=============================================================================
