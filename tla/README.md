# A verification project for ml-intern

ml-intern is an agent service: a FastAPI backend keeps one agent session per
chat, each with an asyncio task that drains a queue of submissions through an
LLM-and-tools loop, stores conversations and events in MongoDB, and streams
events to browsers. This directory holds TLA+ models of the parts in which
several of those actors meet, the TLC runs that check them and the TLAPS proofs
about them. Paths below are relative to the repository (`src/`).

Everything runs on one event loop, so throughout *the code between two awaits is
one step*, and an `async with self._lock` body without an await is a step that
needs the lock to be free. What happens between two awaits of one coroutine is
where the interesting behaviour is.

## 1. Inventory

| component | state | operations | hard behaviour | correct means |
|---|---|---|---|---|
| **session pool** `backend/session_manager.py` | `sessions`, `_lock`, per object `is_active`, `is_processing`, `is_reaping`, queue, task | create, restore, submit, run a session, reap idle ones, shut down, delete | every operation awaits in the middle; an id can have several incarnations; tasks are cancelled at any await | accepted work is done, one incarnation serves, evicted sessions come back, deleted ones do not, nobody waits for ever |
| **session store** `agent/core/session_persistence.py` | session documents, message rows, events, counters | snapshot (two writes), load (two reads), soft delete, event append | unordered bulk writes, failing writes, concurrent savers, restarts | what was acknowledged is what is loaded |
| **context history** `agent/context_manager/manager.py` | the message list, token usage | append, undo, truncate, compact | HTTP routes edit beside the queue; compaction awaits | no orphaned tool results, no lost message |
| **premium quota** `backend/user_quotas.py`, `routes/agent.py` | a counter per user and day, `claude_counted` | gate, insert, guarded bump, mark, refund | concurrent first messages, midnight, restart, model switches | never beyond the cap; a premium turn is a charged one; a session is charged once |
| **event streaming** `EventBroadcaster`, `send_event`, `/api/chat`, `/api/events`, `sse-chat-transport.ts` | event queue, subscriber queues, stored events, last event id | number, store, put, broadcast, replay, re-attach | parallel tools, failing inserts, dropped connections, several tabs | a stream delivers its turn up to the event that ends it, and ends; re-attaching loses nothing |
| **agent loop** `agent/core/agent_loop.py` | iteration, pending approval, cancel event | turn, approval, interrupt, undo, compaction | parallel tools against cancellation; approval state against events | every call gets a result; an interrupt ends the turn |
| **auto-approval budget** (same file, `cost_estimation.py`) | policy, spend | classify a batch, record, change the policy, restore | the calls of a batch share one budget; policy and sandbox change meanwhile | what is approved automatically stays within the cap |
| **LLM retry and healing** (same file, `effort_probe.py`, `llm_params.py`, `model_switcher.py`) | attempt, repaired parameters, cached efforts, a key of the process | call, retry, repair, probe, switch | retry against interrupt, against a shown stream, against a switch | shown text is replayed for a repair only; one repair is enough |
| **turn guards** `doom_loop.py`, `attempt_log.py`, `plan_tool.py` | notices in the context, the ledger of failures, open plan items | record, resolve, trim, detect, warn, challenge | a window over messages, bounds off by one | a model that repeats itself is told; unresolved failures stay listed |
| **notification gateway** `agent/messaging/`, `notify_tool.py` | queue, worker, deferred events | enqueue, send with retries, flush, close | close against worker, retries and late requests | accepted notifications are settled in order, and before close returns |
| **sandbox lifecycle** `sandbox_tool.py`, `sandbox_client.py` | handle, preload task, creation thread, cancel event, stored record | preload, create, tear down, sweep, restore | a thread nobody can cancel, teardown during creation, crash, restore during teardown | no paid Space that nobody knows of |
| **trajectory upload** `session_uploader.py`, `telemetry.py` | local file and its statuses | save, upload, retry, rescan | detached processes and two savers on one file | what is marked as uploaded is uploaded |
| **skills** `agent/core/skills.py`, `skills_tool.py` | skill files, the index in each prompt | create, patch, toggle, delete, use, move | threads against the event loop, sessions being created | no update is lost; disabled skills leave the prompts |
| **session resume** `session_resume.py`, `session.py` | logs, path, counters, ledger, plan | turn, save, `/undo`, `/new`, `/resume` | reflections of the previous chat still running | no saved event is lost |
| **file and edit tools** `local_tools.py`, `edit_utils.py`, the sandbox's server | the file, `_files_read` | bash, read, write, edit | parallel calls, requests posted again | edits hit the text they name and stay |
| **Hub artifacts** `hub_artifacts.py` | repository card, collection, known set | operate, register | tool threads and a hooked script at once | what a session makes is marked |
| **command line client** `agent/main.py` | two queues, `turn_complete_event`, the SIGINT handler | prompt, submit, show, approve, interrupt, quit | prompts, listener and agent share one event and one handler | a prompt means an idle agent; quitting quits |

Tools that only talk to remote services, authentication, KPI roll-ups, scripts
and the frontend's presentation keep no shared state the properties could be
about; `PROJECT.json` lists each with its reason.

How they interact: routes call the session manager, which shares the pool and
its lock with the tasks and the reaper; tasks call the agent loop, which calls
the context history, `send_event` and the tools; `send_event` and the snapshots
call the store; the broadcaster and the SSE routes share subscriber queues; the
quota gate sits between a route and `submit`. The budget, the guards and the
model's calls are parts of `run_agent`; tools reach the file, the sandbox, the
Hub and the skills; `send_event` feeds the notification queue and the trajectory
that savers write and uploaders send. The command line client has the agent loop
without routes, pool and store. The list of hazards, each at its line and with
the properties aimed at it, is in `PROJECT.json`.

## 2. Modules

| module | models | kind |
|---|---|---|
| `SessionLife` | what the pool promises about the life of a session | abstract specification |
| `SessionPool` | the session pool; implements `SessionLife` | specification |
| `SessionPoolMC` | its small instances | TLC |
| `SessionPool_proofs` | its invariant, the reaper, single server, ended sessions refuse, the refinement | TLAPS |
| `SnapshotStore` | saving and loading one conversation | specification, run as it is |
| `QuotaPromise` | what `try_increment_claude` promises | abstract specification |
| `PremiumQuota` | gate, counters and turns of one user; implements `QuotaPromise` | specification |
| `PremiumQuotaMC` | its small instances | TLC |
| `PremiumQuota_proofs` | the refinement and the charge invariant | TLAPS |
| `ContextHistory` | the message list's operations, no state | operators |
| `AgentTurn` | the agent loop of one session | specification, run as it is |
| `AgentTurn_proofs` | the approval gate, calls start once, turns end, requests are paired; types | TLAPS |
| `EventStream` | from `send_event` to the browser | specification |
| `EventStreamMC` | three scenes of it | TLC |
| `EventStream_proofs` | chat streams and re-attached ones are complete; types | TLAPS |
| `ApprovalBudget`, `LlmCall`, `TurnGuards` | budget, model calls and guards of a turn | specifications |
| `Selections` | filtering a sequence by position, used by the guards and the edit tool | operators |
| `EditMatch`, `FileTools` | the search of the edit tool; the file tools under parallel calls | specifications |
| `Skills`, `Conversation`, `HubArtifacts` | what turns leave on disk and on the Hub | specifications |
| `SessionPartsMC` | those eight and `SnapshotStore`, side by side | TLC |
| `TurnGuards_proofs` | the cap of auto-approval; repetitions are told; what the ledger drops; the two edit tools agree | TLAPS |
| `SessionParts_proofs` | model calls, Hub artifacts, local tools, conversation, snapshots, skills | TLAPS |
| `NotificationPromise` | what the gateway promises | abstract specification |
| `NotificationGateway` | queue, worker, notify tool, close; implements `NotificationPromise` | specification |
| `NotificationGateway_proofs` | its invariant and the refinement | TLAPS |
| `SandboxLifecycle`, `TrajectoryUpload`, `CommandLine` | sandbox, uploads, client | specifications |
| `ServicePartsMC` | these and the gateway, side by side | TLC |
| `ServiceParts_proofs` | uploads, sandbox, client, and the four side by side | TLAPS |

Definitions named after a real one with a suffix (`Submit_WhileReaping`, ...) and
commented `mutant:` are wrong on purpose: each is the bug that a property would
catch in place of the definition it is named after.

### SessionPool

An `AgentSession` is an *object* (`Objs`) with an identity of its own; an id
(`Ids`) that is evicted and restored has several, one after another. `pc[o]`
follows an object through its construction (`loading`, `loaded`, `building`,
`restoring`) and then through its task: `new`, `wait` (in `queue.get`), `busy`
(a submission is processed), `save` (the snapshot after it), `cleanup`
(broadcaster, sandbox, final flush), `lock` (waiting for the manager's lock) and
`marking` (holding it while the "ended" snapshot is written), `done`. `stopping`
and `savestop` are `busy` and `save` of a loop that will end. The reaper, each
delete call and the shutdown wait have program counters of their own.
`is_processing` is `pc \in {"busy", "stopping"}`.

`AfterCancel` says where a task stands when `task.cancel()` has surfaced: the
loop's own `except CancelledError: break` leads to the clean-up, a cancellation
during the clean-up may be swallowed (`except CancelledError: pass` around the
broadcaster, or the tool router's exit) and one in an interrupted turn too
(`agent_loop.py:1944-1948`), one that hits the wait for the lock or the "ended"
snapshot ends the task.

Abstracted: who may access a session (always its owner), the `dev` user who is
not capped, what a submission does (any turn, with or without an approval left
pending), sandboxes, titles and budgets. The lock is taken by anybody who waits
for it. A created task takes its first step before a later installation of the
same id (the loop runs ready tasks in FIFO order). The first snapshot of
`create_session` is merged with the installation: nobody knows the id yet. The
time at which sessions become idle is left to the clock: a sweep picks any set
of eligible objects. Python 3.12's `asyncio.wait_for` (`.python-version`) runs
`queue.get()` in the caller's task; on 3.11 an inner task leaves a short window
in which the queue is empty and `is_processing` still false, which the model
does not have. The store is MongoDB: without one the reaper does nothing.

`SessionLife` forgets locks, tasks and the reaper. Its state is computed from the
pool's: which object is in memory for each session (`sessions`), which session an
object has been installed for (`Hosts`: its task exists) or is being built from
a document of (`Found`), the objects with work queued or executed (`Working`), the
sessions with a document (`Stored`), a deleted one (`Hidden`) and a delete call
(`Deleting`). A session is created once; it returns to memory only through a
document that was found visible; work enters only through the object in memory;
an object leaves memory by a delete, or by an eviction that finds no work and
a document; documents are never lost nor hidden ones shown. It allows what the
code does allow: a restore that found its document before a delete still installs
its object after it, an object that has left memory goes on working and saving,
and a document is hidden only if it exists when the delete call gets to it.

`Events` switches the rarer events on: shutdown and delete calls, loops that die
on their own (`die`: the tool router fails to start, or a failed compaction stops
the loop), and turns being interrupted.

### SnapshotStore

One session: its live list of messages (numbers, in the order written), and the
three kinds of savers of `persist_session_snapshot`: the task after a
submission, an HTTP route at any time, the reaper before it evicts. A save
captures the list, updates the document, then executes its bulk write one
operation at a time in any order (`ordered=False`): an upsert per message and
the delete of everything past the end (operation 0). A failure of the bulk write
ends it anywhere and is swallowed, as in the code. A restart loses everything in
memory. Loading reads the document, then the rows in order. The system prompt is
never restored and is left out. Two facts come from SessionPool: no turn runs
while the reaper has claimed the session, and the reaper starts when no turn, no turn's
save and no save of an older conversation is under way (the session has been
idle for fifteen minutes). `acked` and `last` are history variables: what the
saves that completed acknowledged, cut back to what every later save repeats,
and whether the newest bulk write had the rows to itself.

### PremiumQuota and QuotaPromise

One user, several sessions and requests. A request goes `insert` (and `bump`,
when the day's document exists) -> `granted` -> `persist` -> `submit`; with the
dictionary the first two are one step. Any request may also be refused or lose
its snapshot. `spent[s]` is true while the running turn has called a premium
model, the one the session has at that moment: `SetModel` changes it at any
time. Whether the counter is in MongoDB (`durable`) is chosen once. `charged` and
`switched` are history variables: how often a session was charged, and which
sessions ever switched their model, for which the property promises nothing. A
message waits in `submit` until the session is idle, which stands for the queue.
A MongoDB error in the counter fails the request without a charge and is not a
step. `QuotaPromise` is the one-line promise of the docstring, a counter bumped
atomically while it is below the cap, and `CapIsKept` is
`QuotaPromise!Spec` under the identity mapping of `count`.

### AgentTurn and ContextHistory

`ContextHistory` has the list operations of `ContextManager` as functions from
sequence to sequence: `Patched` (stubs for dangling calls), `Undone`, `Before`
(truncation), `Shortened` and `Summarised` (the two outcomes of a compaction).
A message is its role and the calls it makes or answers. `Paired` is what
providers demand of a context.

`AgentTurn` is one session's loop and everything that edits its context. `pc` is
where the coroutine stands: `idle`, `loop` (top of an iteration), `compact`
(awaiting a summary, with the new context already cut out in `kept`), `llm`,
`tools` and `cancelling` (a batch of the loop), `atools` and `acancelling` (a
batch of `exec_approval`). Tools are actors of their own: a call's `status` goes
from `none` over `held` (this response's calls that need approval, until the
others are done), `asked`, `running` to `finished`, `stopped`, `raised`, or
`closed` when it never runs. A tool that was left behind runs on: by a failing
sibling, or by the gather of the loop, which a cancellation ends at the first
tool that stops (the gather of an approval waits for all). `ended` counts the
terminal events of a submission. A request that the
client sends may wait in the queue while `Interrupt`, `Truncate` and the end of
an upload change the session directly. `_cleanup_on_cancel` raises always (it
reads an attribute nothing sets), so an interrupted end is an error event of
`_run_session`; the model says what the code does. The summary of a compaction is a call of the model:
it may fail (`SummaryFails`), which nothing in `run_agent` catches, so the turn ends
with the error of `_run_session`; or with no event at all when what it raises is a
`TimeoutError`, which `_run_session` takes for that of its queue
(`SummaryTimesOut`). `allowed`, `displaced` and `orphaned` are history variables.
`allowed` are the calls that policy or a decision of the user let run. `displaced`
are the calls that were open when a route truncated the context or appended a note,
when `undo` removed the last turn, or when an empty input started a turn with a
batch still pending: the message that makes them is gone, or no longer the last but
for their results. That alone is harmless, since a request gives missing results
stubs. `orphaned` is true from the step on in which the results of such calls are
appended after all, or in which a compaction of a context without any user message
drops its first message and that one makes calls.

Abstracted: the awaits of `send_event` are no interleaving points; the model's
retries and stream are one step that ends in text, calls, a retry (completion
guard, truncated answer), an overflow or an error; whether the context is over
the threshold is open; an answer is never empty; approvals are of well-formed
calls. Which calls wait is open here; the budget that decides it is in
`ApprovalBudget`, the model's retries are in `LlmCall`, and the guards that turn
a reply into a retry in `TurnGuards`.

### EventStream

Events are records: a number, its stored number `seq` (0 when storing failed),
its turn, and whether it ends the turn. `sending[e]` is one overlapping call of
`send_event` between its numbering and its put. A tab (`client[c]`) holds its
request, its subscriber queue, what the stream delivered and its last event id.
`chat_sse` is `ChatSubscribe`, `ChatSubmit` (or `ChatRefused`), then `Receive`;
`subscribe_events` is `Load`, `Resubscribe`, `Replay`, then `Receive`; the
browser only re-attaches after it saw `is_processing`.

A turn that nothing disturbs ends with one event of `_TERMINAL_EVENTS` when every
tool in it has returned (`Close`). A call that raises ends it with an error while
its siblings run on (`Fail`), and go on sending events of a turn that is over; such
turns are in `astray`. An interrupt cancels tools in the middle of a send or leaves
them behind, and gives two errors: the one of `run_agent` for the clean-up that
raised (`Interrupted`), and the one of `_run_session` for the clean-up at the end,
which raises again (`Escape`, then `Report`, when the session no longer looks busy
and before the loop takes the next submission). `owed` is the turn whose exception
has still to be reported. An interrupted call of the model and a failing summary
give the second error only. A `TimeoutError` is reported to no one (`Vanish`,
`silent`). Left out: keep-alives (they change nothing), tool-log and telemetry
events put by background tasks, the events of undo and compaction, which end no
stream, and the browser's polling of messages.

### ApprovalBudget

A session's policy and spend against one batch of calls. `Classify` is the loop
over a response: `Decisions` applies `_approval_decision` to the calls, each
against what the ones before it reserved (`Reservations`). `StartApproved` and `Allow` record the
spend as the calls start, `Patch` is the route that changes the policy at any
await, `Snapshot` and `Restored` store it. Amounts are multiples of the smallest
price; only `sandbox_create` is priced, nothing when there is a sandbox already.
`changed` is a history variable (the policy changed since the classification).

### LlmCall

One call of `_call_llm_streaming` or `_call_llm_non_streaming` per session:
`ready`, `sent`, `stream`, `probing` (inside `_heal_effort_and_rebuild_params`),
`backoff`. An answer that streams may be refused at the request or while it is read
(`Failing`): the repairs come first in the handler and ask no one what the client
has seen, so they replay; a timeout or a lost connection is retried only when
nothing was shown. `healed` and `resigned` are the attempts that the two repairs
answered. A model's API knows some efforts, which are the ones sent
(`OnWire`), and accepts some of those. `Heal` and `SignatureInvalid` are the two
one-shot repairs, `Retry` the next attempt, `ProbeEnds` what the probe caches.
`key` is `OPENAI_API_KEY` of the process, which calls to a custom endpoint set
and put back. Not-streaming calls that are interrupted in the backoff end with
an `AttributeError` in the code: they break out of the attempts without a
response.

### TurnGuards

`run_agent` as a sequence of guards (`Guards`: budget nearly used, repetition,
malformed arguments), a reply (`ReplyCalls`, `ReplyText`, `ReplyTruncated`,
`ReplyFails`) and what it adds to the context. `Stuck` is `check_for_doom_loop`
over the newest `Lookback` messages, `Trim` the bound of the ledger,
`Unfinished` the completion guard. `failures` is a history variable: everything
the ledger was given.

### EditMatch and FileTools

`EditMatch` has one step: for every file and pattern over a small alphabet, the
place that the host (`fuzzy_find`, `_map_back`, `fuzzy_find_original_match`,
`apply_edit`) and the server in the sandbox (`_fuzzy_find_original`,
`_apply_edit`) would edit. Characters are the line break, blanks, a character
with an ASCII look-alike, one that vanishes, and letters. `Lines` and `Joined` take a
text apart and put it together, `Loose` is a pass of the search, `MapBack` and
`HostLine` the host's way back from a place in the stripped text to a line.

`FileTools` is one file under parallel calls; its content is the set of calls
whose text it holds. Locally the handlers are steps of the event loop, and only
`bash` has a thread. In the sandbox a call posts requests (`Ask`, `PostAgain`,
`Answer`) and the server handles each in a thread (`ServeRead`, `Staged`,
`Replace`). `_files_read` of the local tools is one set for all sessions of the
process; the model has one session.

### Skills, Conversation and HubArtifacts

`Skills`: `work` says where each request thread, and the event loop, stands in
its operation: `lock`, `read`, `write`, `refresh`. Every change reads under
the lock what it then writes, changed. `RefreshAll` and `RefreshOwn` rebuild the index in the prompts;
sessions are created meanwhile (`Build`, then `Registered`), and `Login` moves the
files of the user `dev`. A compaction keeps the prompt it found at its start and
puts it back when its summary is there (`CompactBegins`, `CompactEnds`), which
undoes a refresh made in between; `undone` (history) has the sessions whose newest
index was replaced so, until their next refresh. Files left in the folders of an earlier naming scheme
are not modelled.

`Conversation`: a command line session over several chats; messages, logged
events, the ledger and the plan are sets of turn numbers, and `logs` the files.

`HubArtifacts`: one repository and who registers it: `Check`, `ReadCard`,
`PutCard`, `Collect`. `hooking` is the flag by which the hooks in a script keep
themselves from registering their own upload.

### NotificationGateway

Requests are numbered as `enqueue` accepts them. `Take`, `Sending` (`Delivered`,
`Refused`, `Transient`, then `RetrySend`) is the worker and, past the queue, the
notify tool; `Close`, `Join`, `CancelWorker`, `WorkerGone` is `close`.
`DeferComplete` and `ShowComplete` are the client's deferred `turn_complete`
notifications. `Promise` is `NotificationPromise` under the mapping of `closing`
to its phases; `KeepsPromise` is `Promise!Spec`.

### SandboxLifecycle

Spaces on the Hub outlive whoever made them, so they are state of their own.
Each maker (the preload, a `sandbox_create` call) has a coroutine and a thread in
`Sandbox.create`; a cancelled coroutine leaves its thread to run on, and only
`flag`, the cancel event, reaches it, at the points where the code checks
(`CheckCancel`). `Teardown` is `teardown_session_sandbox` with its attempts,
`Restore*` the deletion of the recorded sandbox when a session is loaded, `Sweep`
the script for orphans, `Crash` the end of the backend. A teardown that is itself
cancelled, within an attempt or between two, makes no further attempt and clears the
record all the same (`CancelTeardown`).

### TrajectoryUpload

`Stage` and `Land` are a save through the `.tmp` file; an uploader process goes
`read`, `post`, `open`, `write`: it writes its status into the inode it opened,
which a save may have replaced. `raced` and `clashed` are history variables.

### CommandLine

`console` is the main task, `listener` the task that shows events and asks for
approvals, `agent` the submission loop. They meet in `submissions`, `events` and
`done` (`turn_complete_event`). `handler` is who gets SIGINT: prompt_toolkit
takes the handler at each prompt and leaves the default one behind. Where Ctrl-C
has stopped a turn, the clean-up raises into `submission_loop`, which reports an
error; so does a `/compact` whose summary call fails. `twice` records that a turn
ended twice: with an error of its own (`agent_loop.py:2078`), of the cancelled
tools' clean-up or of a failing model call, and with that of the clean-up at its
end. In yolo mode, and
headless, every call is approved in the model as in the code, where the
comments (`main.py:497-498`, `1517-1518`) except scheduled jobs and the
expression `not False` (`main.py:1523`) does not.

## 3. Runs

Passing runs. Bounds are named in each module. `session_parts` and
`service_parts` check components that share no state together: each behaviour
is one of one component, chosen at the start.

| run | instance | shows |
|---|---|---|
| `pool_safety` | 1 id, 2 objects, queue 1, all events; 1.2M states | `TypeOK`, `ReaperSparesWork`, `KeepsLife` (the refinement of `SessionLife`), `DeletedStaysHidden` |
| `pool_progress` | 1 id, 2 objects, queue 1, deletes and dying loops, fairness; 345k states | `EndedIsRefused`, `WaitsEnd` |
| `pool_reaper` | 1 id, 3 objects, queue 2, no rare events, fairness; 43k states | `SingleServer`, `AcceptedIsProcessed` |
| `quota` | 2 sessions, 2 requests, cap 2, 2 days, both kinds of counter, switches, restart; 1.5M states | `PremiumUseIsCharged`, `CapIsKept` |
| `stream` | failing inserts, time-outs; 2 turns and two tabs that stay connected; or 1 turn, two emitters and a tab that may lose its connection; or 2 turns and two emitters, where tools of the first send into the second; fairness; 669k states | `TypeOK`, `EndsCompletely`, `CatchesUp`, `ChatStreamEnds` |
| `turn` | 2 calls, 3 requests of which 2 may be edits, queue 2, 1 iteration, fairness; 328k states | `TypeOK`, `RequestIsPaired`, `RunsOnlyAllowed`, `RunsOnce`, `EndsOnce`, `InterruptEndsTurn` |
| `session_parts` | below; 1.60M states | `PartsTypeOK` and the properties below |
| `service_parts` | below, fairness; 858k states | `PartsTypeOK` and the properties below |

| part of `session_parts` | instance | property |
|---|---|---|
| `SnapshotStore` | turn, route and reaper saving, all edits, failing writes, restarts; contexts of 2 out of 3 messages | `AckedPrefixSurvives`, `SettledIsSaved` |
| `ApprovalBudget` | batches of 2, prices 0 to 2, caps 0, 1, 3 and the default 2 | `CapHolds` |
| `LlmCall` | 1 session, 3 attempts, a model behind the custom endpoint, one that cannot think, one behind the router, efforts of 3 levels | `ReplaysForRepairs`, `HealSuffices` |
| `TurnGuards` | 5 calls (working, planning, failing, malformed), 2 in parallel, 3 iterations, ledger of 2 | `RepeatersAreTold`, `LedgerDropsOldest` |
| `EditMatch` | all texts of up to 3 and patterns of up to 2 of 5 characters: an ordinary one, its look-alike, one that vanishes, blank and line break | `WholeLinesAgree` |
| `FileTools` | 2 callers, 3 calls, 2 posts | `LocalEditsStay` |
| `Skills` | 1 name, 3 sessions of which 2 run, 2 requests and the loop, 2 changes | `DisabledIsHidden` |
| `Conversation` | 2 turns, 3 chats, 2 logs, a save every 2 turns | `EventsSurvive` |
| `HubArtifacts` | 2 tool calls, 1 script thread, 2 texts | `KnownIsMarked` |

| part of `service_parts` | instance | property |
|---|---|---|
| `NotificationGateway` | 2 destinations, 4 requests, 1 retry, fairness | `KeepsPromise`, `CloseReturns` |
| `SandboxLifecycle` | preload, 1 call, 1 teardown, 1 restorer, 2 Spaces, crash | `NoSpaceIsLost` |
| `TrajectoryUpload` | 2 savers, 2 versions, 2 saves, two uploaders of one format and one of the other, death of the agent | `SuccessIsCurrent` |
| `CommandLine` | 3 things typed, interactive and headless, fairness | `PromptMeansIdle`, `QuitEnds` |

Why these bounds are enough to be interesting: the pool's sessions share only
the lock, the reaper and the capacity, so one id with two or three incarnations
has every race of an id with itself (evict against restore, delete against
restore, the end of one incarnation against the next), and the proofs below
cover any number of ids. Contexts of up to two messages let a delete that is one
row off show, in either direction, and three messages ever written let a compacted
or truncated conversation grow again.
Two requests over two sessions let two first messages of one session, or of two,
meet at the counter, and with the requests after them a cap of two is reached. Two turns and two tabs are what a queued
message needs, and there one event besides the ends is enough; overtaking needs the
second emitter, which the second scene has for one turn with `MaxChunks` events
besides its ends; and the third scene has what a turn that failed or was
interrupted leaves to its successor. Two calls in one response or in two, and three requests, allow a
decision that is sent twice to meet the next batch. One iteration per run suffices
because a decision or a message starts the next one from any state that a
second iteration would start from; with `MaxIter = MaxSubs = 2` and `MaxQueue = 1`
the same properties hold, too (508k states, but four minutes).

In the parts, two callers, savers or threads show what any pair can do to one
file, card, skill or Space; two of three ledger entries force a trim with and
without resolved records; three characters are the shortest text in which a
pattern of one line can match two lines or be off by one; three attempts contain
each order of the two repairs and a transient failure; and one retry of a
notification contains a success and a refusal after it.

Deadlock is checked in the pool runs, except `pool_safety`: with shutdown the
system really stops (see `bug_shutdown_lock`). The other systems stop when the
bounded inputs are used up.

Runs that show a disagreement between the code and what its comments say (each
is a finding in `PROJECT.json`, with the quotation):

| run | what happens |
|---|---|
| `bug_shutdown_lock` | `shutdown_session` holds the lock while awaiting a task that needs it (`ShutdownReturns`) |
| `bug_snapshot_race` | a truncation during the reaper's save is undone by the reaper's bulk write, and the session is evicted with the truncated messages back (`EvictedSnapshotLanded`) |
| `bug_abandoned_orphan` | truncation or undo removes a message whose calls wait for approval; the next user message answers them all the same (`AbandonKeepsHistory`) |
| `bug_replay_gap` | an event between the read of the stored events and the subscription is lost (`NothingMissed`) |

The same modules refute these further promises. No run is kept for them; each is
the run in the second column with the changes given there and the named property
alone. `WaitsEnd`, `PromptReturns` and `StartEnds` need fairness; the last two
are checked of `CommandLine` alone, with `CliFairSpec`.

| property | instance | what happens |
|---|---|---|
| `CapacityRespected` | `pool_safety`, `Ids = {i1, i2}`, `MaxSessions = MaxPerUser = 1`, `Events = {}` | two creations pass the check for one place |
| `ServingIsActive` | `pool_safety`, `Events = {}` | an evicted object's task deactivates its successor, although `session_manager.py:306-308` says its end does nothing |
| `EndedIsRefused` | `pool_safety`, `Objs = {o1}`, `Events = {"shutdown"}` | a task cancelled before its end mark leaves an active session nobody serves |
| `RefusedInTeardown` | the same, also with `Events = {"die"}` | until the end mark a stopped loop's queue still accepts work, which nobody reads |
| `DeletedStaysStopped` | `pool_safety`, `Events = {"delete"}` | a restore in flight undoes a delete in memory |
| `WaitsEnd` | `pool_progress`, `Events = {"delete", "interrupt"}` | an interrupted turn swallows delete's cancellation |
| `EvictedSnapshotLanded` | `bug_snapshot_race`, `Writers = {"turn", "reaper"}`, `Faults = {"write"}` | a failed bulk write is reported as success; without faults and routes the property holds |
| `CapIsKept` | `quota`, `Cap = 0` | a cap of zero grants one point a day |
| `ChargedOnce` | `quota`, nothing changed | two first messages of one session are both charged |
| `ApprovedIsCharged` | `quota`, nothing changed | an approval continues on a premium model that was never charged |
| `StreamsOwnTurn` | `stream`, nothing changed | a queued message's stream ends with another tab's turn, or with the second error of an interrupted one |
| `DeliversWholeTurn` | the same | the siblings of a tool that raised, and the clean-up of an interrupted turn, send events of a turn whose stream an error has ended |
| `EveryTurnEnds` | `turn`, nothing changed | a `TimeoutError` of the summary call ends the turn with no event, and its stream stays open |
| `InterruptIsKept` | `turn`, nothing changed | the turn that an approval goes on with clears an interrupt that came as its tools returned |
| `StubsAreTrue` | `turn`, nothing changed | after a sibling raised, a tool still runs when the model is told it was not executed |
| `CompactionKeepsNewest` | `turn`, nothing changed | what a route appends or truncates while the summary is awaited is undone |
| `AttachesWhileProcessing` | `stream`, nothing changed | the event stream of an idle session is served |
| `SpendSurvives` | `session_parts`, nothing changed | spend recorded after the last snapshot is forgotten by a restart |
| `LoweredCapHolds` | the same | a cap lowered during the batch does not bind its calls |
| `RepetitionIsCurrent` | the same | the detector answers a repetition that newer calls have ended |
| `ListedOnce` | the same, `MaxRecords = 4` | the trim keeps a prefix of all records and lists failures twice |
| `EditsThePattern` | the same | a pattern of blanks alone matches the first line, which is replaced as a whole |
| `IndexIsOriginal` | the same | characters that vanish in the last pass shift the index, and the host edits an earlier line than the server |
| `EditsAreUnique` | the same | append and prepend take the first of several matches |
| `SandboxEditsStay` | the same | two edits in the sandbox read the file before either replaces it |
| `UnreadIsKept` | the same | a write in the sandbox checks that the file is absent in an earlier request |
| `PostedOnce` | the same | a request that was answered with no JSON is posted again although the server works on the first |
| `SeenOnce` | the same | a refusal that arrives in the middle of a stream is repaired, and the next attempt replays what the client has seen |
| `NeverEmpty` | the same | an attempt that repairs the signatures last ends the loop without an answer |
| `CacheIsBest` | the same | one failed probe caches "off" for a model that accepts an effort |
| `KeyIsPutBack`, `KeyIsMirrored` | the same, `LlmSessions = {"s1", "s2"}` | overlapping calls put each other's key back |
| `DisabledStaysHidden` | the same | a compaction that awaits its summary puts back the prompt from before the refresh |
| `NewSessionsHideIt` | the same | a session that is being created keeps the index from before the change |
| `SavedIsListed` | the same | a skill that a tool or a reflection saves is listed in its own session only |
| `NothingStaysBehind` | the same | a session that was built as `dev` goes on writing there after the login |
| `LogsAreOneChat`, `LedgerIsOfTheChat` | the same | a reflection of the previous chat is logged in the next one; `/resume` keeps the ledger and the plan |
| `NothingUnsavedIsDropped` | the same | `/resume` drops the turns since the last save |
| `NewerTextStays` | the same | a registration writes the card it has read over a newer one |
| `RegisteredIsMarked` | the same | a merged pull request replaces the card and nothing registers again |
| `KnownIsMarked` | the same, `ScriptThreads = {"x", "y"}` | a thread that finds the flag set leaves its card unmarked |
| `AllFlushed` | `service_parts`, nothing changed | what is enqueued while `close` cancels the worker is never sent |
| `NewestUploaded` | the same | a save replaces the file under an uploader, whose status marks the new version |
| `AlwaysWhole` | the same | two savers share the `.tmp` file |
| `EndLeavesNothing` | the same | a call that waits for the preload makes a sandbox after the teardown |
| `DestroyedIsGone` | the same | a slow teardown clears the record of the restored session's sandbox |
| `PromptReturns` | `CommandLine`, its constants from `service_parts` | `/compact` is answered by nothing or by "compacted", unless its summary call raises, and neither wakes the main loop |
| `PressCancels` | `service_parts`, nothing changed | after an approval prompt nobody has put the handler back |
| `StartEnds` | as `PromptReturns` | a loop that fails before "ready" leaves the client waiting |

### Fairness

`SessionPool!FairSpec`: the event loop runs every ready coroutine, and store and
sandbox calls and turns end (they have time-outs), so tasks, loads, deletes, the
shutdown wait and the reaper's sweep are weakly fair. `asyncio.Lock` is FIFO,
which would justify strong fairness; weak is enough. Clients owe nothing and
when the reaper wakes up is open. `EventStream!FairSpec`: the same for turns,
emitters, the broadcaster and open streams; nobody has to send or to re-attach.
`AgentTurn!FairSpec`: the loop's own steps (the model's calls have time-outs) and
the end of a cancelled tool; a tool that is not cancelled may run for ever. `GatewayStep` (in
`service_parts`): the worker and close are tasks of the event loop, and every
post has a time-out. `CliFairness`: the main task, the listener and the submission
loop run whenever they can; nobody has to type, and a turn may take for ever.

## 4. Proofs

`SessionPool_proofs`: `PoolInv` is inductive, for all ids, objects, users,
capacities and events. `ReaperSparesWork` alone is not: to keep it over
`ReapEvict` and `Dequeue` one needs to know that a registered object is bound to
its id and has a task (`Registered`), that objects under construction are bound
(`Bound`) so that no step touches an unbound one, who holds the lock while the
"ended" snapshot is written (`MarkerHoldsLock`, `HolderExists`), and that the
reaper and the delete calls hold started objects (`ReaperHoldsObject`, which
also carries "a document exists", and `DeleterHoldsObject`). There is one lemma
per action. From `PoolInv` follow `PoolTypeCorrect`, `ReaperNeverDropsWork` and
`EvictionResumable`, and with it the action property `DeletedHidden`.
`OneServerPerSession` assumes `"delete" \notin Events` and needs one more
invariant, `ServedIsRegistered`: work sits only in the object that is registered
under its id. With deletes it is false of the code: a popped session finishes
its turn while a new one may be restored (`DeletedStaysStopped`).

`EndedSessionsRefuse` assumes `"shutdown" \notin Events` and proves `EndedIsRefused`:
a registered session whose task is over looks inactive, so that `submit` refuses its
work. It says nothing of the window before the mark, in which the loop has ended and
saves and cleans up: there the code accepts work that is never read
(`RefusedInTeardown`, section 3). `ZombieInv` adds to `PoolInv` that a task which is about
to mark its session, or is done, has deactivated the object registered under its id
(`EndedIsInactive`), and that what the reaper or a delete call cancels and cleans
up is registered no more (`ReapedIsGone`, `DeletedIsGone`), so that a cancelled
task never leaves an entry behind. With `shutdown_session` the statement is false
of the code (section 3): its cancellation reaches a task that waits for the lock
and has not deactivated anything yet.

`SessionsLiveAsPromised` proves that `SessionPool` implements `SessionLife`, for any
number of sessions and objects and all events: one lemma per action, or per kind of
action (`TaskLives` for a task that moves, `SnapshotLives` for a save, `CancelLives`
for a cancellation), says which step of a life it takes, most of them none. Three
parts of the argument are not visible in the actions. A creation must be the first
installation of its session, which takes the invariant `BuiltIsUnknown`: from the
admission to the installation no document and no other object has the id, but
for objects that have still to find out that there is nothing to load. An eviction
must find a document, which is `ReaperHoldsObject` across the two lock sections. A
save must belong to a session that was installed, and so cannot store one
which is being created. `SessionsAreNotLost` is derived from the refinement alone:
a session that was once in memory, and that nobody has asked to delete, is in memory
or has a document (`NoSessionIsLost`); a run as `pool_safety` confirms it.
The pool has no restart of the process, which would lose what no snapshot has stored.

`PremiumQuota_proofs`: `CapKept` proves the refinement of `QuotaPromise` for
every cap but zero (the assumption the code needs, see section 3): every
step bumps one day's counter by one below the cap or leaves it.
`PremiumTurnsAreCharged` proves `PremiumUseIsCharged` from `ChargeInvariant`,
which follows the charge along request, flag, document and turn, and
`QuotaTypeCorrect` the types.

`AgentTurn_proofs`: `ApprovalGate` proves `RunsOnlyAllowed` for any number of calls,
requests and iterations. By itself it is not inductive: `exec_approval` starts
the calls of a decision that has waited in the queue, so `GateInv` adds that
every queued decision names allowed calls only. `StartsOnce` proves `RunsOnce`
from `CallsInv`: the numbers in use are an initial segment, so a new call takes
an unused one; the calls that wait for the user and those a decision rejected
have not started; and while an approval is executed nothing waits, so that both
ends of it answer different calls. `EachTurnEnds` proves `EndsOnce` from
`EndsInv`: while a turn is served no terminal event has been sent, except that a
compaction the user asked for belongs to no turn. The one step that ends a turn
without any is named in the property, `SummaryTimesOut`.

`RequestsArePaired` proves `RequestIsPaired`: the context that the model is sent
answers each call exactly once, in the run of results right behind the message that
makes it. This is a statement about `pc = "llm"` and far from inductive, because
between two requests calls stand open for many steps: they wait for the user
(`pending`, over any number of submissions, undos and compactions), run (`batch`),
are about to be refused (`rejected`) or held back with a batch (`"held"`).
As long as nothing is `orphaned`, `ContextInv` says of the context at every moment
that it is `Sound` (each result
answers one call of the message its run follows, and no call is answered twice) and
that it `Awaits` the open calls that are not displaced, `Placed` (the message that
makes them is the last before the closing run, and none of them has a result). Three
steps carry the proof:

- the repair before a request, `_patch_dangling_tool_calls`, turns any sound context
  into one that is also `Complete` (`PatchedKeeps`). The model places the stubs by
  rank (the n-th message of the patched context is the one in the n-th slot), and the
  lemmas on ranks at the head of that part say that they land in the run of their call;
- a compaction replaces the context after an await, in which nothing is answered:
  `ContextInv` says of the replacement, `kept`, that it fits the open calls as well,
  and `CompactionKeeps` that cutting at the first user message of the tail splits no
  call from its results;
- the edits that displace open calls keep the context sound: a truncation or an undo
  cuts at a user message, a note or an empty input's turn puts messages behind the
  open calls, which later requests give stubs. Only results that are appended for them
  afterwards break it, which is the step that sets `orphaned`.

`TurnIsTyped` proves `TypeOK`, which holds when the context is orphaned, too.

`EventStream_proofs`: `ChatMissesNothing` proves `EndsCompletely` for any number
of tabs, turns, events and overlapping senders. What was put since a chat stream
subscribed has been delivered or waits, in order, in its queue and the broadcaster's
(`Waiting`, `Fanned`), and what is of its own turn was put after it subscribed
(`Fresh`): the request is submitted later. So when the stream receives a last event it
has all that precedes it. That nothing of that turn follows is true only of turns that are not
`astray`: their last event is numbered when nothing else of them is being sent, and
nothing is sent of them behind it (`Sends`, `InOrder`). Of the others `Turns` says why
there may be two last events: the turn that raises is one of them while it runs. A
stream ends with the first last event it receives, whosever turn it is of.

`ReplayMissesNothing` proves `CatchesUp` of the streams that re-attach
(`CatchInv`). A number is handed out once and stored under itself (`Numbers`,
`Rows`), and what is put with a number has been stored. So what was put when the
stored events were read is delivered, or in the replay that is left, or has a greater
number than the last event with which the replay ended the stream (`ToCome`). Nothing
is assumed about what follows such an event: tools that run on may have stored more
behind it, which this stream is not promised.
The replay is the stored events in the order of their numbers, which the model
defines by rank (the n-th is the one with n numbers up to its own), so that
its properties follow from facts about cardinalities instead of from induction.
`StreamIsTyped` proves the types.

`NotificationGateway_proofs`: `GatewayKeepsPromise` proves `KeepsPromise` for any
destinations, retries and number of requests. The step that needs an invariant
is the end of the flush: `queue.join` counts unfinished items, the promise
counts requests in order. `GatewayInv` says that the queue is numbered (what
the worker has taken is what was accepted less what still waits, and it settles
before it takes again), that the requests accepted before `close` are all
settled once the join has returned (`Flushed`), and that a sender that sleeps
has an attempt left (`Working`). `DeliveryIsOrdered` proves `ArrivesInOrder`,
that nothing still waiting is older than what has arrived, from the same
invariant.

`TurnGuards_proofs` is about what is computed along a sequence: what the first
calls of a batch reserve, the calls of the messages in a window, the ledger after each
result, the lines of a text. The induction that this takes is its first part. A non-empty set of numbers has
a least element (`Least`, from the well-foundedness of <), so a set that holds 0 and with each
number the next one, up to a bound, holds them all (`Climb`), and a function defined step by
step exists and has the values of its definition (`Recursion`). The models write these
computations as recursive functions over the positions.

- `CapIsNeverExceeded` proves `CapHolds` and the types of `ApprovalBudget`, for any
  prices, caps and size of a batch. `DecisionsFit`: what the approved calls of a batch
  are estimated to cost is what was reserved last, which is nothing or fits into the cap. `BudgetInv` keeps
  this until they start, whatever the sandbox, the snapshots and a restart do, and says
  that meanwhile no call is recorded on behalf of the user and that a restart
  restores no more than was spent.
- `RepetitionIsTold` proves `RepeatersAreTold` and the types of `TurnGuards`. Only `Guards`
  leads to a request, but it looks at the context before it appends its notices, which move the window.
  `Window`: messages without calls only push older ones out, so the calls in the new
  window are the last of those in the old one; if the newest are all the same, they
  were when the detector looked (`SameAreStuck`), and the notice stands behind them. The
  assumption `Threshold >= 3` is the detector's own minimum of three calls.
- `OldestIsDroppedFirst` proves `LedgerDropsOldest`. The records in the ledger agree with all that it
  was ever given (`Fits`), and however trims repeat some of them, each unresolved
  failure is listed once with nothing but later ones after it (`Rising`). Therefore a trim loses an
  unresolved failure only if as many later ones that are unresolved as the ledger
  holds are listed behind it (`TrimIs`). `Since` carries that through the results of one
  reply, of which some may resolve what an earlier one has listed.
- `EditorsAgree` proves `WholeLinesAgree` for texts of any length, and `EditsAreTyped`
  that an edit lies within its file. `EditInv` says that the edit is the one computed
  from file and pattern, so the work is about texts. What holds a text together is where its lines
  start: the starts are the only increasing sequence of 0 and the positions of its breaks
  (`Unique`). Hence a text joined from lines has these lines (`Relined`), joining the lines of a
  text gives the text (`Rejoined`), and a pass over the lines a to b of a text is what the pass makes of the
  text, from line a to line b (`LoosePiece`). The two normalisations that shift characters
  are those by which blanks go (a line keeps its number) and by which characters vanish (`Moves`, the
  exception that the property names). When the pattern is found as whole lines of the loosened text, the place starts
  at the start of a line, and the host's detour over the indent (`HostLineIs`) ends at that line, as the server's count
  of breaks does; then both take the same lines, and the pass takes these for the
  pattern (`WholeIs`). The second look for the text by `apply_edit` may find an earlier copy, the same
  one on both sides and with the same text (`EditedIs`).

`SessionParts_proofs`, the calls of the model: `ReplayedForRepairsOnly` and `OneRepairSuffices`
prove `ReplaysForRepairs` and `HealSuffices` for any cascade of efforts, models and number of attempts. Each
step changes the phase and the record of a call together, so the invariant
`LlmInv` is one condition on the pair, `Sound`: what was shown of a call that will
be sent or sent again is of attempts whose errors were repaired, a stream may show
its current attempt besides, and after a repair the effort is one that the model
accepts. That the probe finds
such an effort, the first accepted one at or below the preference, is the lemma
`ProbedAccepted`.

Its other parts:

- `MadeIsMarked` proves `KnownIsMarked` for any number of tool calls. `HubInv` says
  that a known repository has a marked card, or none, or there is a registration
  that will mark it (`KnownIsFixed`, `Fixes`): one that forces, or has read the card
  or will read it before it writes. The assumption `OneThread` is that a script makes its
  repositories from one thread; with two the statement is false of the code, because the
  flag by which a hook keeps out of its own upload belongs to the process (section 3).
- `LocalEditsAreSafe` proves `LocalEditsStay` and the types of `FileTools`. What
  `LocalOK` adds is where the difference to the sandbox lies: locally there is no server
  and no caller stands between its read and its write.
- `SavedEventsSurvive` proves the action property `EventsSurvive`. Saves overwrite the
  log, so what a log holds must be in the chat that writes it (`OwnLog`): the path
  leaves the session in the same step as the events do.
- `AckedSurvives` and `SettledSnapshotIsSaved` prove the two invariants of
  `SnapshotStore` for any number of writers and any bounds. Messages that were
  acknowledged and that every running bulk write repeats (`Repeats`) stay in their rows
  (`AckedIsStored`), whichever operations of whichever write come next; a write that is
  alone has written the rows it has done with (`AloneWrites`). A load returns the rows
  that exist in the order of their index, defined by rank like the replay above, and
  the lemmas on ranks say that it begins with the acknowledged messages when these
  fill the first rows.
- `NoLostUpdate` proves `UpdatesAreNotLost`, the sentence of the
  lock's docstring, for any number of sessions and requests. It rests on
  `ReadIsCurrent`: whoever has read a skill under its lock still sees what is in
  the file, because only the holder writes it, and on `NotYetKnown`: the move of
  the files at login, which takes no lock, happens before anybody writes as the
  account.
- `DisabledSkillsAreHidden` proves `DisabledIsHidden` from `HiddenInv`:
  as long as a session that was running lists a skill of its account that is disabled or
  gone, some request has still to rebuild the indexes (`Listed`, `Refreshing`), and
  tools neither disable nor delete (`Roles`); a session whose prompt a compaction has
  put back is excepted until its next refresh.
- `SkillsAreTyped`: only an edit makes a skill where there is none, because what a
  thread writes was a skill when it was read (`Pending`).
- `SessionPartsAreTyped` composes the nine parts of `SessionPartsMC`, with those proved in
  `TurnGuards_proofs`: a step of one part changes no variable of another, so the types of
  all hold side by side. The types of the Hub's artifacts need no `OneThread` (`HubIsTyped`).

`ServiceParts_proofs`, the uploads: `MarkedIsUploaded` proves `SuccessIsCurrent` for any
number of savers, uploaders, attempts and versions. An uploader holds what it
has read for several steps, so `UploadInv` says of each that it is about to
write a true status: what it will post is the file's version (`Current`), and
once it reports success the dataset has it (`Posted`). Savers that take turns
write whole files (`TakingTurns`), and an uploader that may fail has an attempt
left (`AttemptsLeft`).

Its other parts:

- `SandboxLosesNoSpace` proves `NoSpaceIsLost` for any number of makers, teardowns,
  restorers and attempts. The property speaks of quiet moments; `NoneLost` is the
  version that holds always: a Space that is up is the session's, or in the hands of a
  thread or a teardown, or was given up (`Held`), or, when the process is gone, on record for
  whoever restores the session (`OnlyRecorded`). It needs that creations exclude each
  other (`Locks`), where threads and coroutines can be relative to one another
  (`Threads`: a cancelled coroutine's thread runs on), and what a teardown and a
  restore hold (`Tears`). With several restorers one exception shows, which the property
  excuses: a creation that ends on an object torn down and replaced meanwhile has its
  record overwritten, and whoever restores the session later does not know the Space. `OneCreationAtATime` is the exclusion by itself.
- `PromptIsIdle` proves `PromptMeansIdle`. The main loop and the three queues and
  events around it pass one token: what is `Owed` to the main loop, submissions, events
  not shown, a running turn, a question to the user and the wake that is set, is at
  most one while it waits and none while it prompts (`OneOwed`).
- `ServicePartsAreTyped` composes the four parts of `ServicePartsMC`: each keeps its own
  invariant and no step of one changes a variable of another, so `PartsTypeOK` holds of
  all of them side by side.

Assumptions on constants are the named ASSUMEs of the modules, and the
hypotheses of `OneServerPerSession`, `EndedSessionsRefuse`, `MadeIsMarked` and `CapKept`
named above.

Only model-checked, and why:

- liveness (`WaitsEnd`, `AcceptedIsProcessed`, `ChatStreamEnds`,
  `InterruptEndsTurn`, `CloseReturns`, `QuitEnds`): they rest on fairness, which the
  prover does not treat.

No run checks `ArrivesInOrder`, `UpdatesAreNotLost`, `OneCreation` and
`NoSessionIsLost`: they are proved.

## 5. Not modelled

The research sub-agent, tools that only query remote services, the tool router,
authentication, KPI scripts and the application's wiring: sequential code
without state that outlives a call, or input and output alone (`PROJECT.json`,
components). Within the modelled components: telemetry events, keep-alives, the
browser's polling of messages, seeding from a summary, token counts, output
truncation and redaction.

Hazards of the code that are known and have no model yet: a restored session is
registered before its task has created the broadcaster, and a request in
between finds `None` (`session_manager.py:1179`); a response whose generator
never starts never unsubscribes, and its queue grows (`routes/agent.py:1039`:
the HTTP server decides whether it starts); `load_session` reads the document and the
rows in two queries, and a save in between pairs a turn count with other messages
(`session_persistence.py:289`).

## 6. Plan

Done: the modules of section 2, their runs and proofs.

What would add most next:

1. The broadcaster of a restored session in `EventStream`, with the pool's
   registration.
