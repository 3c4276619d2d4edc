-------------------------- MODULE SandboxLifecycle --------------------------
(***************************************************************************)
(* The remote sandbox of one session: its preload in the background, the     *)
(* agent's sandbox_create calls, interrupts, the teardown when the session   *)
(* is evicted or asks for other hardware, a crash of the backend, and the    *)
(* restore that deletes the sandbox on record.  A creation is a coroutine that *)
(* waits for a thread (asyncio.to_thread(Sandbox.create)); when the          *)
(* coroutine is cancelled the thread runs on, and only the cancel event      *)
(* reaches it.  Spaces exist on the Hub, whoever still knows of them.        *)
(***************************************************************************)
EXTENDS Naturals, FiniteSets

CONSTANTS
  CreateCalls,     \* sandbox_create calls of the agent, which may run in parallel
  Enders,    \* the reaper, _run_session.finally: both tear down
  Restorers, \* requests that find the session in the store only
  MaxSpaces, \* bound: Spaces created
  SandboxTries   \* deletion attempts of a teardown: 3

ASSUME SandboxAssumption ==
  /\ IsFiniteSet(CreateCalls) /\ IsFiniteSet(Enders) /\ CreateCalls \cap Enders = {}
  /\ IsFiniteSet(Restorers)
  /\ "preload" \notin CreateCalls \cup Enders /\ "nobody" \notin CreateCalls
  /\ MaxSpaces \in Nat /\ SandboxTries \in Nat \ {0}

\* who may create, and who may tear down
Makers == CreateCalls \cup {"preload"}
Tearers == CreateCalls \cup Enders

VARIABLES
  present,     \* the session is in the pool: "no", "new" (before its preload), "yes"
  sandbox,     \* session.sandbox: the number of its Space, or 0
  spaces,      \* each Space: "none", "up" or "gone"
  wants,       \* the hardware each maker asks for
  tier,        \* the hardware of each Space
  coroutine,   \* each maker's coroutine
  thread,      \* the state of its creation thread and the thread's Space
  flag,        \* the cancel event the thread looks at
  lock,        \* who holds the owner's creation lock, or "nobody"
  interrupted, \* session._cancelled
  teardown,    \* each teardown: its state, the sandbox it took, its attempts
  record,      \* sandbox_space_id in the session's document, or 0
  restore,     \* each restorer: its state and the record it has read
  \* for properties only
  given_up     \* Spaces whose creation failed, whose caller was cancelled,
               \* whose deletion failed for good or was cancelled before it
               \* succeeded, that a crash left unrecorded,
               \* or that were left on an object which a restore replaced

sandboxVars == <<present, sandbox, spaces, wants, tier, coroutine, thread, flag,
                 lock, interrupted, teardown, record, restore, given_up>>

pool == <<present, restore>>
Ids == 1 .. MaxSpaces
NoThread == [pc |-> "none", space |-> 0]
NoTeardown == [pc |-> "off", took |-> 0, tries |-> 0]
Called == [pc |-> "waits", took |-> 0, tries |-> 0]

CoroutineStates ==
  {"off", "awaits", "tears", "locks", "creates", "persists", "deletes"}
ThreadStates ==
  [pc : {"none", "begins", "builds", "starts", "probes", "returned", "cancelled",
         "raised"}, space : 0 .. MaxSpaces]
TeardownStates ==
  [pc : {"off", "waits", "takes", "deletes", "over"}, took : 0 .. MaxSpaces,
   tries : 0 .. SandboxTries]
RestoreStates == [pc : {"off", "deletes", "loads"}, seen : 0 .. MaxSpaces]

SandboxTypeOK ==
  /\ sandbox \in 0 .. MaxSpaces /\ record \in 0 .. MaxSpaces
  /\ spaces \in [Ids -> {"none", "up", "gone"}]
  /\ wants \in [Makers -> {"cpu", "gpu"}] /\ tier \in [Ids -> {"cpu", "gpu"}]
  /\ coroutine \in [Makers -> CoroutineStates]
  /\ thread \in [Makers -> ThreadStates]
  /\ flag \in [Makers -> BOOLEAN] /\ interrupted \in BOOLEAN
  /\ lock \in Makers \cup {"nobody"}
  /\ teardown \in [Tearers -> TeardownStates]
  /\ present \in {"no", "new", "yes"} /\ given_up \subseteq Ids
  /\ restore \in [Restorers -> RestoreStates]

\* the session has just been created, its preload not yet started
SandboxInit ==
  /\ present = "new" /\ restore = [r \in Restorers |-> [pc |-> "off", seen |-> 0]]
  /\ sandbox = 0 /\ record = 0
  /\ spaces = [i \in Ids |-> "none"] /\ tier = [i \in Ids |-> "cpu"]
  /\ wants = [m \in Makers |-> "cpu"]
  /\ coroutine = [m \in Makers |-> "off"]
  /\ thread = [m \in Makers |-> NoThread]
  /\ flag = [m \in Makers |-> FALSE] /\ interrupted = FALSE
  /\ lock = "nobody"
  /\ teardown = [t \in Tearers |-> NoTeardown]
  /\ given_up = {}

Ending == \E t \in Enders : teardown[t].pc \in {"waits", "takes", "deletes"}
Preloading == coroutine["preload"] # "off"

Goes(m, pc) == coroutine' = [coroutine EXCEPT ![m] = pc]
Leaves(m) == /\ Goes(m, "off")
             /\ lock' = IF lock = m THEN "nobody" ELSE lock

---------------------------------------------------------------------------
(* Creation: the coroutine                                                 *)

\* start_cpu_sandbox_preload: a fresh cancel event
StartPreload ==
  /\ present = "new" /\ present' = "yes"
  /\ Goes("preload", "locks") /\ flag' = [flag EXCEPT !["preload"] = FALSE]
  /\ UNCHANGED <<sandbox, spaces, wants, tier, thread, lock, interrupted,
                 teardown, record, restore, given_up>>

\* sandbox_create_handler: a preload in flight is awaited, or cancelled for
\* other hardware; a CPU sandbox is torn down for a GPU one; any other sandbox
\* is reported as it is
CreateCall(c, hardware) ==
  /\ present = "yes" /\ coroutine[c] = "off" /\ thread[c].pc = "none"
  /\ wants' = [wants EXCEPT ![c] = hardware]
  /\ flag' = [flag EXCEPT ![c] = FALSE,
                          !["preload"] = @ \/ (hardware = "gpu" /\ sandbox = 0
                                               /\ Preloading)]
  /\ IF sandbox # 0
     THEN /\ tier[sandbox] = "cpu" /\ hardware = "gpu"
          /\ Goes(c, "tears")
          /\ teardown' = [teardown EXCEPT ![c] = Called]
     ELSE /\ Goes(c, IF Preloading THEN "awaits" ELSE "locks")
          /\ UNCHANGED teardown
  /\ UNCHANGED <<pool, sandbox, spaces, tier, thread, lock, interrupted,
                 record, given_up>>

\* the preload is over, or (GPU) has had its 30 seconds and is cancelled; the
\* CPU call returns, the GPU call creates its own or tears the preload's down
CreateAwaited(c) ==
  /\ coroutine[c] = "awaits" /\ ~Preloading
  /\ IF wants[c] = "cpu"
     THEN Goes(c, "off") /\ UNCHANGED teardown
     ELSE IF sandbox = 0 THEN Goes(c, "locks") /\ UNCHANGED teardown
     ELSE IF tier[sandbox] = "gpu" THEN Goes(c, "off") /\ UNCHANGED teardown
     ELSE /\ Goes(c, "tears")
          /\ teardown' = [teardown EXCEPT ![c] = Called]
  /\ UNCHANGED <<pool, sandbox, spaces, wants, tier, thread, flag, lock, interrupted,
                 record, given_up>>

\* the teardown of the CPU sandbox has returned
CreateTornDown(c) ==
  /\ coroutine[c] = "tears" /\ teardown[c].pc = "over"
  /\ Goes(c, "locks")
  /\ teardown' = [teardown EXCEPT ![c] = NoTeardown]
  /\ UNCHANGED <<pool, sandbox, spaces, wants, tier, thread, flag, lock, interrupted,
                 record, given_up>>

\* _create_sandbox_locked: the thread starts, the watcher mirrors _cancelled
Begin(m) ==
  /\ lock' = m /\ Goes(m, "creates")
  /\ thread' = [thread EXCEPT ![m] = [pc |-> "begins", space |-> 0]]
  /\ flag' = [flag EXCEPT ![m] = @ \/ interrupted]

\* _ensure_sandbox has the lock: another maker may have been faster
Locked(m) ==
  /\ coroutine[m] = "locks" /\ lock = "nobody"
  /\ IF sandbox # 0 THEN Goes(m, "off") /\ UNCHANGED <<thread, flag, lock>>
     ELSE Begin(m)
  /\ UNCHANGED <<pool, sandbox, spaces, wants, tier, interrupted, teardown, record,
                 given_up>>

\* the thread has returned a sandbox: install it, unless the event is set
Install(m) ==
  /\ coroutine[m] = "creates" /\ thread[m].pc = "returned"
  /\ IF flag[m]
     THEN Goes(m, "deletes") /\ UNCHANGED <<sandbox, thread>>
     ELSE /\ sandbox' = thread[m].space
          /\ Goes(m, "persists")
          /\ thread' = [thread EXCEPT ![m].pc = "none"]
  /\ UNCHANGED <<pool, spaces, wants, tier, flag, lock, interrupted, teardown, record,
                 given_up>>

\* _persist_active_sandbox, best effort; the lock is released
Persist(m) ==
  /\ coroutine[m] = "persists"
  /\ record' \in {record, thread[m].space}
  /\ thread' = [thread EXCEPT ![m] = NoThread]
  /\ Leaves(m)
  /\ UNCHANGED <<pool, sandbox, spaces, wants, tier, flag, interrupted, teardown,
                 given_up>>

\* the deletion of a sandbox that was cancelled too late for the thread
DeleteCancelled(m) ==
  /\ coroutine[m] = "deletes"
  /\ \/ /\ spaces' = [spaces EXCEPT ![thread[m].space] = "gone"]
        /\ UNCHANGED given_up
     \/ /\ given_up' = given_up \cup {thread[m].space} /\ UNCHANGED spaces
  /\ thread' = [thread EXCEPT ![m] = NoThread]
  /\ Leaves(m)
  /\ UNCHANGED <<pool, sandbox, wants, tier, flag, interrupted, teardown, record>>

\* Cancelled, or an error, which reaches the caller
CreateFails(m) ==
  /\ coroutine[m] = "creates" /\ thread[m].pc \in {"cancelled", "raised"}
  /\ thread' = [thread EXCEPT ![m] = NoThread]
  /\ Leaves(m)
  /\ UNCHANGED <<pool, sandbox, spaces, wants, tier, flag, interrupted, teardown,
                 record, given_up>>

\* the caller's task is cancelled; a thread runs on without it
CancelCoroutine(m) ==
  /\ coroutine[m] # "off"
  /\ Leaves(m)
  /\ thread' = IF coroutine[m] = "persists"
               THEN [thread EXCEPT ![m] = NoThread] ELSE thread
  /\ teardown' = IF m \in CreateCalls THEN [teardown EXCEPT ![m] = NoTeardown]
                 ELSE teardown

\* the session's task ends in the middle of a call, but for a running deletion,
\* whose thread goes on (DeleteCancelled and CancelTeardown have its outcomes)
CancelCall(c) ==
  /\ coroutine[c] # "deletes" /\ teardown[c].pc # "deletes"
  /\ CancelCoroutine(c)
  /\ UNCHANGED <<pool, sandbox, spaces, wants, tier, flag, interrupted, record,
                 given_up>>

---------------------------------------------------------------------------
(* Creation: the thread, Sandbox.create                                    *)

Thread(m, pc) == thread' = [thread EXCEPT ![m].pc = pc]
ThreadSame == UNCHANGED <<pool, sandbox, wants, coroutine, flag, lock, interrupted,
                          teardown, record>>

\* mutant: a cancelled creation leaves its Space behind
CheckCancel_KeepsSpace(m) ==
  /\ thread[m].pc \in {"builds", "starts"} /\ flag[m]
  /\ Thread(m, "cancelled")
  /\ UNCHANGED <<spaces, tier, given_up>> /\ ThreadSame

\* _check_cancel: the Space is deleted, or stays when that fails
CheckCancel(m) ==
  /\ thread[m].pc \in {"builds", "starts"} /\ flag[m]
  /\ Thread(m, "cancelled")
  /\ \/ /\ spaces' = [spaces EXCEPT ![thread[m].space] = "gone"]
        /\ UNCHANGED given_up
     \/ given_up' = given_up \cup {thread[m].space} /\ UNCHANGED spaces
  /\ UNCHANGED tier /\ ThreadSame

\* duplicate_repo
Duplicate(m) ==
  /\ thread[m].pc = "begins"
  /\ \E i \in Ids :
       /\ spaces[i] = "none" /\ \A j \in Ids : j < i => spaces[j] # "none"
       /\ spaces' = [spaces EXCEPT ![i] = "up"]
       /\ tier' = [tier EXCEPT ![i] = wants[m]]
       /\ thread' = [thread EXCEPT ![m] = [pc |-> "builds", space |-> i]]
  /\ UNCHANGED given_up /\ ThreadSame

\* after a check, the secrets and the server's commit, which starts the build
Uploaded(m) ==
  /\ thread[m].pc = "builds" /\ ~flag[m] /\ Thread(m, "starts")
  /\ UNCHANGED <<spaces, tier, given_up>> /\ ThreadSame

\* it runs, on the hardware asked for; every look at it starts with a check
SpaceRunning(m) ==
  /\ thread[m].pc = "starts" /\ ~flag[m] /\ Thread(m, "probes")
  /\ UNCHANGED <<spaces, tier, given_up>> /\ ThreadSame

\* _wait_for_api: a timeout is not fatal, and the event is not looked at
ProbeAnswered(m) ==
  /\ thread[m].pc = "probes" /\ Thread(m, "returned")
  /\ UNCHANGED <<spaces, tier, given_up>> /\ ThreadSame

\* an error of the Hub, a build error or a timeout: the Space stays
ThreadRaises(m) ==
  /\ thread[m].pc \in {"begins", "builds", "starts"}
  /\ Thread(m, "raised")
  /\ given_up' = given_up \cup ({thread[m].space} \ {0})
  /\ UNCHANGED <<spaces, tier>> /\ ThreadSame

\* nobody waits for the thread any more: what it returns is lost
ThreadUnheard(m) ==
  /\ coroutine[m] = "off" /\ thread[m].pc \in {"returned", "cancelled", "raised"}
  /\ thread' = [thread EXCEPT ![m] = NoThread]
  /\ given_up' = IF thread[m].pc = "returned"
                 THEN given_up \cup {thread[m].space} ELSE given_up
  /\ UNCHANGED <<spaces, tier>> /\ ThreadSame

---------------------------------------------------------------------------
(* Interrupts and teardown                                                 *)

\* session.cancel: the watchers set the events of what is being created
StopCall ==
  /\ ~interrupted /\ interrupted' = TRUE
  /\ flag' = [m \in Makers |-> flag[m] \/ coroutine[m] = "creates"]
  /\ UNCHANGED <<pool, sandbox, spaces, wants, tier, coroutine, thread, lock, teardown,
                 record, given_up>>

\* the next turn
ResetCancel ==
  /\ interrupted /\ interrupted' = FALSE
  /\ UNCHANGED <<pool, sandbox, spaces, wants, tier, coroutine, thread, flag, lock,
                 teardown, record, given_up>>

Steps(t, r) == teardown' = [teardown EXCEPT ![t] = r]

\* the session leaves the pool, teardown_session_sandbox starts
EndSession(t) ==
  /\ teardown[t].pc = "off" /\ (present = "yes" \/ Ending)
  /\ present' = "no"
  /\ Steps(t, Called)
  /\ UNCHANGED <<restore, sandbox, spaces, wants, tier, coroutine, thread, flag,
                 lock, interrupted, record, given_up>>

\* cancel_sandbox_preload sets the event
TearFlag(t) ==
  /\ teardown[t].pc = "waits"
  /\ flag' = [flag EXCEPT !["preload"] = TRUE]
  /\ Steps(t, [teardown[t] EXCEPT !.pc = "takes"])
  /\ UNCHANGED <<pool, sandbox, spaces, wants, tier, coroutine, thread, lock,
                 interrupted, record, given_up>>

Waiting(t) == IF t \in Enders THEN teardown[t].pc = "takes"
              ELSE teardown[t].pc = "takes" \/ coroutine[t] = "awaits"

\* 30 seconds are over: the preload's coroutine is cancelled (and a coroutine
\* that deletes leaves the deletion to its thread)
PreloadTimeout ==
  /\ Preloading /\ coroutine["preload"] # "deletes"
  /\ \E t \in Tearers : Waiting(t) /\ (t \in CreateCalls => wants[t] = "gpu")
  /\ CancelCoroutine("preload")
  /\ UNCHANGED <<pool, sandbox, spaces, wants, tier, flag, interrupted, record,
                 given_up>>

\* the sandbox leaves the session before it is deleted
TakeSandbox(t) ==
  /\ teardown[t].pc = "takes" /\ ~Preloading
  /\ sandbox' = 0
  /\ Steps(t, [pc |-> IF sandbox = 0 THEN "over" ELSE "deletes",
                took |-> sandbox, tries |-> teardown[t].tries])
  /\ UNCHANGED <<pool, spaces, wants, tier, coroutine, thread, flag, lock, interrupted,
                 record, given_up>>

\* Sandbox.delete succeeds; the document is cleared
Deleted(t) ==
  /\ teardown[t].pc = "deletes"
  /\ spaces' = [spaces EXCEPT ![teardown[t].took] = "gone"]
  /\ record' \in {record, 0}
  /\ Steps(t, [teardown[t] EXCEPT !.pc = "over"])
  /\ UNCHANGED <<pool, sandbox, wants, tier, coroutine, thread, flag, lock,
                 interrupted, given_up>>

\* it raises: another attempt, or "Orphan - sweep script will pick it up"
DeleteFails(t) ==
  LET n == teardown[t].tries + 1
      last == n = SandboxTries
  IN /\ teardown[t].pc = "deletes"
     /\ Steps(t, [pc |-> IF last THEN "over" ELSE "deletes",
                   took |-> teardown[t].took, tries |-> n])
     /\ record' \in IF last THEN {record, 0} ELSE {record}
     /\ given_up' = IF last THEN given_up \cup {teardown[t].took} ELSE given_up
     /\ UNCHANGED <<pool, sandbox, spaces, wants, tier, coroutine, thread, flag, lock,
                    interrupted>>

\* the task is cancelled in an attempt, whose thread runs on, or between two: no
\* other follows, and the document is cleared all the same
CancelTeardown(t) ==
  /\ teardown[t].pc = "deletes"
  /\ IF t \in CreateCalls
     THEN Leaves(t) /\ Steps(t, NoTeardown)
     ELSE UNCHANGED <<coroutine, lock>> /\ Steps(t, [teardown[t] EXCEPT !.pc = "over"])
  /\ record' \in {record, 0}
  /\ \/ /\ spaces' = [spaces EXCEPT ![teardown[t].took] = "gone"]
        /\ UNCHANGED given_up
     \/ given_up' = given_up \cup {teardown[t].took} /\ UNCHANGED spaces
  /\ UNCHANGED <<pool, sandbox, wants, tier, thread, flag, interrupted>>

\* sweep_orphan_sandboxes.py --apply, days later
Sweep(i) ==
  /\ i \in given_up /\ spaces[i] = "up"
  /\ spaces' = [spaces EXCEPT ![i] = "gone"]
  /\ UNCHANGED <<pool, sandbox, wants, tier, coroutine, thread, flag, lock, interrupted,
                 teardown, record, given_up>>

---------------------------------------------------------------------------
(* The backend process and its restart                                     *)

\* everything in memory is gone; only what is on record can still be found
Crash ==
  LET held == {sandbox} \cup {thread[m].space : m \in Makers}
              \cup {teardown[t].took : t \in {x \in Tearers :
                                            teardown[x].pc = "deletes"}}
  IN /\ present # "no" /\ present' = "no"
     /\ sandbox' = 0 /\ interrupted' = FALSE /\ lock' = "nobody"
     /\ coroutine' = [m \in Makers |-> "off"]
     /\ thread' = [m \in Makers |-> NoThread]
     /\ flag' = [m \in Makers |-> FALSE]
     /\ teardown' = [t \in Tearers |->
           IF t \in Enders /\ teardown[t].pc # "off"
           THEN [pc |-> "over", took |-> 0, tries |-> 0] ELSE NoTeardown]
     /\ restore' = [r \in Restorers |-> [pc |-> "off", seen |-> 0]]
     /\ given_up' = given_up \cup {i \in held \ {0, record} : spaces[i] = "up"}
     /\ UNCHANGED <<spaces, wants, tier, record>>

RestoreSame ==
  UNCHANGED <<wants, tier, coroutine, thread, flag, lock, teardown>>

\* bound: a session is read and registered again once its old creations and the
\* first half of its teardown are over
OldIsOver ==
  /\ \A m \in Makers : coroutine[m] = "off" /\ thread[m].pc = "none"
  /\ \A t \in Tearers : teardown[t].pc \notin {"waits", "takes"}

\* ensure_session_loaded finds no session and reads the document
RestoreRead(r) ==
  /\ present = "no" /\ restore[r].pc = "off" /\ OldIsOver
  /\ restore' = [restore EXCEPT ![r] =
        [pc |-> IF record = 0 THEN "loads" ELSE "deletes", seen |-> record]]
  /\ UNCHANGED <<present, sandbox, spaces, interrupted, record, given_up>>
  /\ RestoreSame

\* _cleanup_persisted_sandbox: deleted or already gone, the record is cleared,
\* whatever it says by now; or the Hub refuses
RestoreDelete(r) ==
  /\ restore[r].pc = "deletes"
  /\ restore' = [restore EXCEPT ![r].pc = "loads"]
  /\ \/ /\ spaces' = [spaces EXCEPT ![restore[r].seen] = "gone"]
        /\ record' \in {record, 0}
        /\ UNCHANGED given_up
     \/ /\ given_up' = given_up \cup {restore[r].seen}
        /\ UNCHANGED <<spaces, record>>
  /\ UNCHANGED <<present, sandbox, interrupted>> /\ RestoreSame

\* a new session object is registered, unless another restorer was faster; a
\* creation that came to its end after the teardown has left a sandbox on the old
\* one, which nobody has any more, whatever is on record
RestoreLoad(r) ==
  /\ restore[r].pc = "loads" /\ (present = "no" => OldIsOver)
  /\ restore' = [restore EXCEPT ![r] = [pc |-> "off", seen |-> 0]]
  /\ IF present # "no" THEN UNCHANGED <<present, interrupted, sandbox, given_up>>
     ELSE /\ present' = "new" /\ interrupted' = FALSE /\ sandbox' = 0
          /\ given_up' = given_up \cup ({sandbox} \ {0})
  /\ UNCHANGED <<spaces, record>> /\ RestoreSame

---------------------------------------------------------------------------
Creation(m) == Locked(m) \/ Install(m) \/ Persist(m) \/ DeleteCancelled(m)
               \/ CreateFails(m)
CreationThread(m) == CheckCancel(m) \/ Duplicate(m) \/ Uploaded(m) \/ SpaceRunning(m)
                     \/ ProbeAnswered(m) \/ ThreadRaises(m) \/ ThreadUnheard(m)
Teardown(t) == TearFlag(t) \/ TakeSandbox(t) \/ Deleted(t) \/ DeleteFails(t)
               \/ CancelTeardown(t)
CallStep(c) == CreateAwaited(c) \/ CreateTornDown(c)

SandboxNext ==
  \/ StartPreload \/ StopCall \/ ResetCancel \/ PreloadTimeout
  \/ \E m \in Makers : Creation(m) \/ CreationThread(m)
  \/ \E c \in CreateCalls :
       \/ CreateCall(c, "cpu") \/ CreateCall(c, "gpu")
       \/ CallStep(c) \/ CancelCall(c)
  \/ \E t \in Enders : EndSession(t)
  \/ \E t \in Tearers : Teardown(t)
  \/ \E i \in Ids : Sweep(i)
  \/ Crash
  \/ \E r \in Restorers : RestoreRead(r) \/ RestoreDelete(r) \/ RestoreLoad(r)

SandboxSpec == SandboxInit /\ [][SandboxNext]_sandboxVars

---------------------------------------------------------------------------
Quiet ==
  /\ \A m \in Makers : coroutine[m] = "off" /\ thread[m].pc = "none"
  /\ \A t \in Tearers : teardown[t].pc \in {"off", "over"}
  /\ \A r \in Restorers : restore[r].pc = "off"

\* Spaces cost money for as long as they exist: when nothing is under way, each
\* Space is the session's sandbox or on record for the restore to delete, unless
\* its creation failed, its caller was cancelled, the Hub refused to delete it, its
\* teardown was cancelled before an attempt succeeded, a crash came before it was
\* recorded, or its creation ended on an object that had been torn down and then
\* replaced.
NoSpaceIsLost ==
  Quiet => \A i \in Ids :
    spaces[i] = "up" => i \in {sandbox, record} \cup given_up

(* Promises of comments that the code does not keep (README, section 3).    *)

\* "Cancel sandbox preload and delete the active owned sandbox": a session that
\* has left the pool has no sandbox.
EndLeavesNothing == Quiet /\ present = "no" => sandbox = 0

\* A document says "destroyed" only of a Space that is gone or given up: neither
\* a teardown nor a restore clears the record of a newer sandbox.
DestroyedIsGone ==
  [][record # 0 /\ record' = 0 =>
       spaces'[record] = "gone" \/ record \in given_up']_sandboxVars
=============================================================================
