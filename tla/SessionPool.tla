---------------------------- MODULE SessionPool ----------------------------
(***************************************************************************)
(* The pool of live sessions of backend/session_manager.py: the dictionary *)
(* `sessions`, the manager's asyncio lock, one task per AgentSession that   *)
(* drains the session's submission queue, the idle reaper, and the client   *)
(* calls create_session, ensure_session_loaded, submit, shutdown_session    *)
(* and delete_session.                                                      *)
(*                                                                         *)
(* Everything runs on one event loop, so code between two awaits is one     *)
(* step.  `async with self._lock` bodies without an await are one step      *)
(* taken while the lock is free; the two bodies that do await (the end of   *)
(* _run_session and the wait of shutdown_session) hold the lock between     *)
(* steps.  An AgentSession is an object with an identity of its own: a      *)
(* session id that is evicted and restored has several, one after another.  *)
(***************************************************************************)
EXTENDS Naturals, Sequences, FiniteSets

CONSTANTS
  Ids,             \* session ids
  Objs,            \* AgentSession objects (bounds how many are ever built)
  NoObj,           \* no AgentSession
  NoId,            \* an object not bound to a session id
  Users,           \* owners of sessions
  Owner,           \* Owner[i]: the user that owns session i
  MaxSessions,     \* MAX_SESSIONS
  MaxPerUser,      \* MAX_SESSIONS_PER_USER
  MaxQueue,        \* bound: submissions waiting in one queue
  Events           \* which rare events the environment produces

ASSUME PoolAssumption ==
  /\ NoObj \notin Objs
  /\ NoId \notin Ids
  /\ Owner \in [Ids -> Users]
  /\ MaxSessions \in Nat /\ MaxPerUser \in Nat /\ MaxQueue \in Nat
  /\ Events \subseteq {"shutdown", "delete", "die", "interrupt"}

VARIABLES
  sessions,   \* SessionManager.sessions: id -> AgentSession or NoObj
  lock,       \* SessionManager._lock: "free", or what its holder does
  holder,     \* the object whose end is being marked, or is waited for
  sid,        \* AgentSession.session_id
  pc,         \* where the object's construction, then its task, stands
  active,     \* AgentSession.is_active
  reaping,    \* AgentSession.is_reaping
  queue,      \* AgentSession.submission_queue
  approval,   \* session.pending_approval is not empty
  idle,       \* objects with last_active_at <= the current sweep's cutoff
  store,      \* the sessions collection: id -> document
  shutReq,    \* shutdown_session calls that have submitted, not yet waited
  reapPc,     \* where the reaper task stands
  reapObj,    \* the object it is releasing
  cands,      \* candidate ids of the sweep still to be visited
  delPc,      \* delete_session(i): where the call stands
  delObj      \* delete_session(i): the object it popped

poolVars == <<sessions, lock, holder>>
objVars  == <<sid, pc, active, reaping, queue, approval, idle>>
reapVars == <<reapPc, reapObj, cands>>
delVars  == <<delPc, delObj>>
vars == <<poolVars, objVars, store, shutReq, reapVars, delVars>>

BuildPcs == {"free", "loading", "loaded", "building", "restoring"}
TaskPcs  == {"new", "wait", "busy", "stopping", "save", "savestop",
             "cleanup", "lock", "marking", "done"}
SessionDoc == [exists: BOOLEAN, visible: BOOLEAN,
               status: {"active", "ended"}, approval: BOOLEAN]
NoDoc == [exists |-> FALSE, visible |-> TRUE, status |-> "active",
          approval |-> FALSE]

TypeOK ==
  /\ sessions \in [Ids -> Objs \cup {NoObj}]
  /\ lock \in {"free", "marking", "shutdown", "expired"}
  /\ holder \in Objs \cup {NoObj}
  /\ sid \in [Objs -> Ids \cup {NoId}]
  /\ pc \in [Objs -> BuildPcs \cup TaskPcs]
  /\ active \in [Objs -> BOOLEAN]
  /\ reaping \in [Objs -> BOOLEAN]
  /\ queue \in [Objs -> Seq({"work", "shutdown"})]
  /\ approval \in [Objs -> BOOLEAN]
  /\ idle \in SUBSET Objs
  /\ store \in [Ids -> SessionDoc]
  /\ shutReq \in SUBSET Ids
  /\ reapPc \in {"sleep", "sweep", "saving", "evict", "cleanup", "joining"}
  /\ reapObj \in Objs \cup {NoObj}
  /\ cands \in SUBSET Ids
  /\ delPc \in [Ids -> {"no", "soft", "cleanup", "joining", "deleted"}]
  /\ delObj \in [Ids -> Objs \cup {NoObj}]

Init ==
  /\ sessions = [i \in Ids |-> NoObj]
  /\ lock = "free" /\ holder = NoObj
  /\ sid = [o \in Objs |-> NoId]
  /\ pc = [o \in Objs |-> "free"]
  /\ active = [o \in Objs |-> TRUE]
  /\ reaping = [o \in Objs |-> FALSE]
  /\ queue = [o \in Objs |-> <<>>]
  /\ approval = [o \in Objs |-> FALSE]
  /\ idle = {}
  /\ store = [i \in Ids |-> NoDoc]
  /\ shutReq = {}
  /\ reapPc = "sleep" /\ reapObj = NoObj /\ cands = {}
  /\ delPc = [i \in Ids |-> "no"]
  /\ delObj = [i \in Ids |-> NoObj]

---------------------------------------------------------------------------
(* State predicates the code computes.                                     *)

Live(i) == sessions[i] # NoObj

\* is_processing: set right after the dequeue, cleared when the turn returns
Processing(o) == pc[o] \in {"busy", "stopping"}

\* the queue is empty and no submission is being executed
Quiet(o) == queue[o] = <<>> /\ ~Processing(o)

ActiveSessions == {i \in Ids : Live(i) /\ active[sessions[i]]}
ActiveOf(u) == {i \in ActiveSessions : Owner[i] = u}

---------------------------------------------------------------------------
(* The document store.  $setOnInsert writes the visibility once; an update  *)
(* leaves it alone.  Best-effort callers log a Mongo error and go on.       *)

\* mutant: the upsert writes visibility with $set
Upsert_SetsLive(i, st, appr) ==
  store' = [store EXCEPT ![i] = [exists |-> TRUE, visible |-> TRUE,
                                 status |-> st, approval |-> appr]]

Upsert(i, st, appr) ==
  store' = [store EXCEPT ![i] =
    [exists |-> TRUE, visible |-> @.exists => @.visible,
     status |-> st, approval |-> appr]]

PersistBestEffort(i, st, appr) ==
  Upsert(i, st, appr) \/ UNCHANGED store

---------------------------------------------------------------------------
(* create_session                                                          *)

\* capacity checks under the lock, then the constructors start in a thread
CreateAdmit(i, o) ==
  /\ lock = "free"
  /\ pc[o] = "free"
  /\ \A p \in Objs : sid[p] # i              \* uuid4: a fresh id
  /\ ~store[i].exists
  /\ Cardinality(ActiveSessions) < MaxSessions
  /\ Cardinality(ActiveOf(Owner[i])) < MaxPerUser
  /\ pc' = [pc EXCEPT ![o] = "building"]
  /\ sid' = [sid EXCEPT ![o] = i]
  /\ UNCHANGED <<poolVars, active, reaping, queue, approval, idle, store,
                 shutReq, reapVars, delVars>>

---------------------------------------------------------------------------
(* ensure_session_loaded                                                   *)

\* first lookup misses: the store is about to be read
LoadBegin(i, o) ==
  /\ lock = "free"
  /\ pc[o] = "free"
  /\ ~Live(i)
  /\ pc' = [pc EXCEPT ![o] = "loading"]
  /\ sid' = [sid EXCEPT ![o] = i]
  /\ UNCHANGED <<poolVars, active, reaping, queue, approval, idle, store,
                 shutReq, reapVars, delVars>>

\* load_session: nothing to load (or soft-deleted), or the stored state
LoadRead(o) ==
  LET doc == store[sid[o]] IN
  /\ pc[o] = "loading"
  /\ \/ /\ ~(doc.exists /\ doc.visible)
        /\ pc' = [pc EXCEPT ![o] = "free"]
        /\ sid' = [sid EXCEPT ![o] = NoId]
        /\ UNCHANGED approval
     \/ /\ doc.exists /\ doc.visible
        /\ pc' = [pc EXCEPT ![o] = "loaded"]
        /\ approval' = [approval EXCEPT ![o] = doc.approval]
        /\ UNCHANGED sid
  /\ UNCHANGED <<poolVars, active, reaping, queue, idle, store, shutReq,
                 reapVars, delVars>>

Discard(o) ==
  /\ pc' = [pc EXCEPT ![o] = "free"]
  /\ sid' = [sid EXCEPT ![o] = NoId]
  /\ approval' = [approval EXCEPT ![o] = FALSE]

\* second lookup: somebody else restored it meanwhile, or build the object
LoadRecheck(o) ==
  /\ pc[o] = "loaded"
  /\ lock = "free"
  /\ \/ /\ Live(sid[o])
        /\ Discard(o)
     \/ /\ ~Live(sid[o])
        /\ pc' = [pc EXCEPT ![o] = "restoring"]
        /\ UNCHANGED <<sid, approval>>
  /\ UNCHANGED <<poolVars, active, reaping, queue, idle, store, shutReq,
                 reapVars, delVars>>

\* mutant: the restored object overwrites one installed meanwhile
StartAgentSession_Overwrites(o) ==
  LET i == sid[o] IN
  /\ pc[o] \in {"building", "restoring"}
  /\ lock = "free"
  /\ sessions' = [sessions EXCEPT ![i] = o]
  /\ pc' = [pc EXCEPT ![o] = "new"]
  /\ IF pc[o] = "building" THEN PersistBestEffort(i, "active", FALSE)
                           ELSE UNCHANGED store
  /\ UNCHANGED <<lock, holder, sid, active, reaping, queue, approval, idle,
                 shutReq, reapVars, delVars>>

\* _start_agent_session: an existing object wins; otherwise install this one
\* and create its task.  The event loop runs ready tasks in FIFO order, so a
\* created task takes its first step before a later install of the same id.
\* create_session then persists the new document (nobody knows the id yet).
StartAgentSession(o) ==
  LET i == sid[o] IN
  /\ pc[o] \in {"building", "restoring"}
  /\ lock = "free"
  /\ \A p \in Objs : sid[p] = i => pc[p] # "new"
  /\ \/ /\ Live(i)
        /\ Discard(o)
        /\ UNCHANGED <<sessions, store>>
     \/ /\ ~Live(i)
        /\ sessions' = [sessions EXCEPT ![i] = o]
        /\ pc' = [pc EXCEPT ![o] = "new"]
        /\ IF pc[o] = "building" THEN PersistBestEffort(i, "active", FALSE)
                                 ELSE UNCHANGED store
        /\ UNCHANGED <<sid, approval>>
  /\ UNCHANGED <<lock, holder, active, reaping, queue, idle, shutReq,
                 reapVars, delVars>>

---------------------------------------------------------------------------
(* submit and shutdown_session                                             *)

\* enqueue under the lock if the session is live, active and not reaped
Enqueue(i, op, accepts) ==
  LET o == sessions[i] IN
  /\ lock = "free"
  /\ Live(i)
  /\ active[o]
  /\ accepts
  /\ Len(queue[o]) < MaxQueue
  /\ queue' = [queue EXCEPT ![o] = Append(@, op)]
  /\ idle' = idle \ {o}
  /\ UNCHANGED <<poolVars, sid, pc, active, reaping, approval, store,
                 reapVars, delVars>>

\* mutant: submit forgets to look at is_reaping
Submit_WhileReaping(i) == Enqueue(i, "work", TRUE) /\ UNCHANGED shutReq

Submit(i) == Enqueue(i, "work", ~reaping[sessions[i]]) /\ UNCHANGED shutReq

ShutdownSubmit(i) ==
  /\ "shutdown" \in Events
  /\ i \notin shutReq
  /\ Enqueue(i, "shutdown", ~reaping[sessions[i]])
  /\ shutReq' = shutReq \cup {i}

\* the lock is taken and kept for the whole wait
ShutdownWait(i) ==
  /\ i \in shutReq
  /\ lock = "free"
  /\ shutReq' = shutReq \ {i}
  /\ IF Live(i) THEN lock' = "shutdown" /\ holder' = sessions[i]
                ELSE UNCHANGED <<lock, holder>>
  /\ UNCHANGED <<sessions, objVars, store, reapVars, delVars>>

\* the awaited task is over, in time or after the cancellation
ShutdownReturn ==
  /\ lock \in {"shutdown", "expired"}
  /\ pc[holder] = "done"
  /\ lock' = "free" /\ holder' = NoObj
  /\ UNCHANGED <<sessions, objVars, store, shutReq, reapVars, delVars>>

---------------------------------------------------------------------------
(* task.cancel(): where the task stands once the CancelledError has         *)
(* surfaced.  It is swallowed while the tool router closes or the           *)
(* broadcaster is awaited (cleanup), and while an interrupted turn waits    *)
(* for its cancelled tools (busy).                                          *)

AfterCancel(p) ==
  CASE p \in {"wait", "save", "savestop"}     -> {"cleanup"}
    [] p = "busy" /\ "interrupt" \in Events   -> {"savestop", "busy"}
    [] p = "busy" /\ "interrupt" \notin Events -> {"savestop"}
    [] p = "stopping"                         -> {"savestop"}
    [] p = "cleanup"                          -> {"cleanup", "done"}
    [] p \in {"new", "lock", "marking"}       -> {"done"}
    [] OTHER                                  -> {p}

Cancel(o) ==
  /\ \E p \in AfterCancel(pc[o]) : pc' = [pc EXCEPT ![o] = p]
  /\ IF pc[o] = "marking" THEN lock' = "free" /\ holder' = NoObj
                          ELSE UNCHANGED <<lock, holder>>

\* five seconds are over: wait_for cancels the task it awaits, once
ShutdownExpire ==
  /\ lock = "shutdown"
  /\ pc[holder] # "done"
  /\ \E p \in AfterCancel(pc[holder]) : pc' = [pc EXCEPT ![holder] = p]
  /\ lock' = "expired"
  /\ UNCHANGED <<sessions, holder, sid, active, reaping, queue, approval,
                 idle, store, shutReq, reapVars, delVars>>

---------------------------------------------------------------------------
(* _run_session: the task of object o                                      *)

\* the first step finds the session gone, or enters the tool router, which
\* may fail to start
RunStart(o) ==
  /\ pc[o] = "new"
  /\ \/ /\ ~Live(sid[o])
        /\ pc' = [pc EXCEPT ![o] = "done"]
     \/ /\ Live(sid[o])
        /\ pc' = [pc EXCEPT ![o] = "wait"]
     \/ /\ Live(sid[o]) /\ "die" \in Events
        /\ pc' = [pc EXCEPT ![o] = "cleanup"]
  /\ UNCHANGED <<poolVars, sid, active, reaping, queue, approval, idle, store,
                 shutReq, reapVars, delVars>>

\* mutant: the loop looks at is_active instead of session.is_running
Dequeue_IfActive(o) ==
  /\ pc[o] = "wait"
  /\ queue[o] # <<>>
  /\ active[o]
  /\ queue' = [queue EXCEPT ![o] = Tail(@)]
  /\ pc' = [pc EXCEPT ![o] =
               IF Head(queue[o]) = "shutdown" THEN "stopping" ELSE "busy"]
  /\ UNCHANGED <<poolVars, sid, active, reaping, approval, idle, store,
                 shutReq, reapVars, delVars>>

Dequeue(o) ==
  /\ pc[o] = "wait"
  /\ queue[o] # <<>>
  /\ queue' = [queue EXCEPT ![o] = Tail(@)]
  /\ pc' = [pc EXCEPT ![o] =
               IF Head(queue[o]) = "shutdown" THEN "stopping" ELSE "busy"]
  /\ UNCHANGED <<poolVars, sid, active, reaping, approval, idle, store,
                 shutReq, reapVars, delVars>>

\* process_submission returns (or raises): the turn may leave an approval
\* pending; a failed compaction also ends the loop
TurnEnd(o) ==
  /\ pc[o] = "busy"
  /\ \E p \in BOOLEAN : approval' = [approval EXCEPT ![o] = p]
  /\ \/ pc' = [pc EXCEPT ![o] = "save"]
     \/ "die" \in Events /\ pc' = [pc EXCEPT ![o] = "savestop"]
  /\ idle' = idle \ {o}
  /\ UNCHANGED <<poolVars, sid, active, reaping, queue, store, shutReq,
                 reapVars, delVars>>

\* Handlers.shutdown: is_running becomes False, the loop will stop
StopEnd(o) ==
  /\ pc[o] = "stopping"
  /\ pc' = [pc EXCEPT ![o] = "savestop"]
  /\ idle' = idle \ {o}
  /\ UNCHANGED <<poolVars, sid, active, reaping, queue, approval, store,
                 shutReq, reapVars, delVars>>

\* the snapshot after every submission, then the next round or the exit
TurnSaved(o) ==
  /\ pc[o] \in {"save", "savestop"}
  /\ PersistBestEffort(sid[o], "active", approval[o])
  /\ pc' = [pc EXCEPT ![o] = IF @ = "save" THEN "wait" ELSE "cleanup"]
  /\ UNCHANGED <<poolVars, sid, active, reaping, queue, approval, idle,
                 shutReq, reapVars, delVars>>

\* broadcaster stopped, sandbox deleted, final trajectory flush
CleanedUp(o) ==
  /\ pc[o] = "cleanup"
  /\ pc' = [pc EXCEPT ![o] = "lock"]
  /\ UNCHANGED <<poolVars, sid, active, reaping, queue, approval, idle, store,
                 shutReq, reapVars, delVars>>

\* mutant: the end of the loop forgets to deactivate the session
EndMark_NotMarked(o) ==
  /\ pc[o] = "lock"
  /\ lock = "free"
  /\ pc' = [pc EXCEPT ![o] = "done"]
  /\ UNCHANGED <<poolVars, sid, active, reaping, queue, approval, idle, store,
                 shutReq, reapVars, delVars>>

\* under the lock: whatever object is registered under the id is deactivated
EndMark(o) ==
  LET cur == sessions[sid[o]] IN
  /\ pc[o] = "lock"
  /\ lock = "free"
  /\ \/ /\ ~Live(sid[o])
        /\ pc' = [pc EXCEPT ![o] = "done"]
        /\ UNCHANGED <<active, lock, holder>>
     \/ /\ Live(sid[o])
        /\ active' = [active EXCEPT ![cur] = FALSE]
        /\ pc' = [pc EXCEPT ![o] = "marking"]
        /\ lock' = "marking" /\ holder' = o
  /\ UNCHANGED <<sessions, sid, reaping, queue, approval, idle, store, shutReq,
                 reapVars, delVars>>

\* mutant: a failed write leaves the lock taken
EndMarked_KeepsLock(o) ==
  /\ pc[o] = "marking"
  /\ PersistBestEffort(sid[o], "ended", approval[sessions[sid[o]]])
  /\ pc' = [pc EXCEPT ![o] = "done"]
  /\ UNCHANGED <<poolVars, sid, active, reaping, queue, approval, idle, shutReq,
                 reapVars, delVars>>

\* the "ended" snapshot of that object is written; the lock is released
EndMarked(o) ==
  /\ pc[o] = "marking"
  /\ PersistBestEffort(sid[o], "ended", approval[sessions[sid[o]]])
  /\ pc' = [pc EXCEPT ![o] = "done"]
  /\ lock' = "free" /\ holder' = NoObj
  /\ UNCHANGED <<sessions, sid, active, reaping, queue, approval, idle, shutReq,
                 reapVars, delVars>>

TaskStep(o) ==
  \/ RunStart(o) \/ Dequeue(o) \/ TurnEnd(o) \/ StopEnd(o) \/ TurnSaved(o)
  \/ CleanedUp(o) \/ EndMark(o) \/ EndMarked(o)

---------------------------------------------------------------------------
(* The idle reaper                                                         *)

\* an object a sweep may release: live, active, neither working nor
\* waiting for an approval, not already being released
Reapable(o) ==
  active[o] /\ ~Processing(o) /\ ~reaping[o] /\ ~approval[o]

\* mutant: the sweep collects AgentSession objects where _reap_one wants ids
ReaperSelect_Objects ==
  /\ reapPc = "sleep"
  /\ lock = "free"
  /\ \E I \in SUBSET {o \in Objs : Reapable(o) /\ \E i \in Ids : sessions[i] = o} :
       /\ idle' = I
       /\ cands' = I
       /\ reapPc' = IF I = {} THEN "sleep" ELSE "sweep"
  /\ UNCHANGED <<poolVars, sid, pc, active, reaping, queue, approval, store,
                 shutReq, reapObj, delVars>>

\* the sweep computes its cutoff and collects candidate ids under the lock;
\* which sessions have been untouched for long enough is up to the clock
ReaperSelect ==
  /\ reapPc = "sleep"
  /\ lock = "free"
  /\ \E I \in SUBSET {o \in Objs : Reapable(o) /\ \E i \in Ids : sessions[i] = o} :
       /\ idle' = I
       /\ cands' = {i \in Ids : sessions[i] \in I}
       /\ reapPc' = IF I = {} THEN "sleep" ELSE "sweep"
  /\ UNCHANGED <<poolVars, sid, pc, active, reaping, queue, approval, store,
                 shutReq, reapObj, delVars>>

\* _reap_one re-checks everything under the lock, then sets is_reaping
ReapClaim(i) ==
  LET o == sessions[i] IN
  /\ reapPc = "sweep"
  /\ i \in cands
  /\ lock = "free"
  /\ cands' = cands \ {i}
  /\ IF Live(i) /\ Reapable(o) /\ o \in idle /\ queue[o] = <<>>
     THEN /\ reaping' = [reaping EXCEPT ![o] = TRUE]
          /\ reapPc' = "saving"
          /\ reapObj' = o
     ELSE UNCHANGED <<reaping, reapPc, reapObj>>
  /\ UNCHANGED <<poolVars, sid, pc, active, queue, approval, idle, store,
                 shutReq, delVars>>

\* every candidate has been visited
SweepEnd ==
  /\ reapPc = "sweep"
  /\ cands = {}
  /\ reapPc' = "sleep"
  /\ reapObj' = NoObj
  /\ idle' = {}
  /\ UNCHANGED <<poolVars, sid, pc, active, reaping, queue, approval, store,
                 shutReq, cands, delVars>>

\* the resumable snapshot (raise_on_error) is written
ReapSaved ==
  /\ reapPc = "saving"
  /\ Upsert(sid[reapObj], "active", approval[reapObj])
  /\ reapPc' = "evict"
  /\ UNCHANGED <<poolVars, objVars, shutReq, reapObj, cands, delVars>>

\* the object keeps running and can be reaped by a later sweep
Unreap ==
  /\ reaping' = [reaping EXCEPT ![reapObj] = FALSE]
  /\ reapPc' = "sweep"

\* mutant: the failed write is only logged and the eviction goes on
ReapSaveFailed_Ignored ==
  /\ reapPc = "saving"
  /\ lock = "free"
  /\ reapPc' = "evict"
  /\ UNCHANGED <<poolVars, objVars, store, shutReq, reapObj, cands, delVars>>

\* the write failed: the claim is dropped if the object is still registered
ReapSaveFailed ==
  /\ reapPc = "saving"
  /\ lock = "free"
  /\ IF sessions[sid[reapObj]] = reapObj THEN Unreap
     ELSE reapPc' = "sweep" /\ UNCHANGED reaping
  /\ UNCHANGED <<poolVars, sid, pc, active, queue, approval, idle, store,
                 shutReq, reapObj, cands, delVars>>

\* under the lock: identity check, last re-check, pop
ReapEvict ==
  LET o == reapObj  i == sid[reapObj] IN
  /\ reapPc = "evict"
  /\ lock = "free"
  /\ \/ /\ sessions[i] # o
        /\ reapPc' = "sweep"
        /\ UNCHANGED <<sessions, active, reaping>>
     \/ /\ sessions[i] = o
        /\ ~Quiet(o) \/ approval[o]
        /\ Unreap
        /\ UNCHANGED <<sessions, active>>
     \/ /\ sessions[i] = o
        /\ Quiet(o) /\ ~approval[o]
        /\ sessions' = [sessions EXCEPT ![i] = NoObj]
        /\ active' = [active EXCEPT ![o] = FALSE]
        /\ reapPc' = "cleanup"
        /\ UNCHANGED reaping
  /\ UNCHANGED <<lock, holder, sid, pc, queue, approval, idle, store, shutReq,
                 reapObj, cands, delVars>>

\* the sandbox is gone: cancel the evicted object's task and await it
ReapCancel ==
  /\ reapPc = "cleanup"
  /\ Cancel(reapObj)
  /\ reapPc' = "joining"
  /\ UNCHANGED <<sessions, sid, active, reaping, queue, approval, idle, store,
                 shutReq, reapObj, cands, delVars>>

ReapJoin ==
  /\ reapPc = "joining"
  /\ pc[reapObj] = "done"
  /\ reapPc' = "sweep"
  /\ UNCHANGED <<poolVars, objVars, store, shutReq, reapObj, cands, delVars>>

SweepStep ==
  \/ \E i \in Ids : ReapClaim(i)
  \/ SweepEnd \/ ReapSaved \/ ReapSaveFailed \/ ReapEvict
  \/ ReapCancel \/ ReapJoin

---------------------------------------------------------------------------
(* delete_session (one call per id)                                        *)

DeletePop(i) ==
  /\ "delete" \in Events
  /\ delPc[i] = "no"
  /\ lock = "free"
  /\ \E p \in Objs : sid[p] = i \/ store[i].exists
  /\ delObj' = [delObj EXCEPT ![i] = sessions[i]]
  /\ sessions' = [sessions EXCEPT ![i] = NoObj]
  /\ delPc' = [delPc EXCEPT ![i] = "soft"]
  /\ UNCHANGED <<lock, holder, objVars, store, shutReq, reapVars>>

\* soft_delete_session: updates the document if there is one
DeleteSoft(i) ==
  /\ delPc[i] = "soft"
  /\ store' = [store EXCEPT ![i].visible = ~store[i].exists]
  /\ delPc' = [delPc EXCEPT ![i] =
                  IF delObj[i] = NoObj THEN "deleted" ELSE "cleanup"]
  /\ UNCHANGED <<poolVars, objVars, shutReq, reapVars, delObj>>

DeleteCancel(i) ==
  /\ delPc[i] = "cleanup"
  /\ Cancel(delObj[i])
  /\ delPc' = [delPc EXCEPT ![i] = "joining"]
  /\ UNCHANGED <<sessions, sid, active, reaping, queue, approval, idle, store,
                 shutReq, reapVars, delObj>>

DeleteJoin(i) ==
  /\ delPc[i] = "joining"
  /\ pc[delObj[i]] = "done"
  /\ delPc' = [delPc EXCEPT ![i] = "deleted"]
  /\ UNCHANGED <<poolVars, objVars, store, shutReq, reapVars, delObj>>

DeleteStep(i) == DeleteSoft(i) \/ DeleteCancel(i) \/ DeleteJoin(i)

---------------------------------------------------------------------------
LoadStep(o) == LoadRead(o) \/ LoadRecheck(o) \/ StartAgentSession(o)

Next ==
  \/ \E i \in Ids, o \in Objs : CreateAdmit(i, o) \/ LoadBegin(i, o)
  \/ \E o \in Objs : LoadStep(o) \/ TaskStep(o)
  \/ \E i \in Ids : Submit(i) \/ ShutdownSubmit(i) \/ ShutdownWait(i)
                    \/ DeletePop(i) \/ DeleteStep(i)
  \/ ShutdownReturn \/ ShutdownExpire
  \/ ReaperSelect \/ SweepStep

Spec == Init /\ [][Next]_vars

(***************************************************************************)
(* Fairness: the event loop runs every ready coroutine, store and sandbox   *)
(* calls return or time out, and a turn ends (its LLM and tool calls time   *)
(* out).  asyncio.Lock serves its waiters in FIFO order, which would allow  *)
(* strong fairness for the steps that take it; weak fairness is enough, as  *)
(* a task holds the lock at most once.  Clients owe nothing, and when the   *)
(* reaper wakes up is left open.                                            *)
(***************************************************************************)
FairSpec ==
  /\ Spec
  /\ \A o \in Objs : WF_vars(LoadStep(o) \/ TaskStep(o))
  /\ \A i \in Ids : WF_vars(DeleteStep(i)) /\ WF_vars(ShutdownWait(i))
  /\ WF_vars(ShutdownReturn \/ ShutdownExpire)
  /\ WF_vars(SweepStep)

---------------------------------------------------------------------------
(* Properties                                                              *)

\* An object the reaper has claimed, evicted or not, has no queued and no
\* running submission: a message submit accepted is never thrown away by an
\* eviction (the snapshot is written outside the lock, between two checks).
ReaperSparesWork == \A o \in Objs : reaping[o] => Quiet(o)

\* Once the reaper has popped a session, the store holds a document for it:
\* the conversation it drops from memory can be restored.
EvictedIsResumable ==
  reapPc \in {"cleanup", "joining"} => store[sid[reapObj]].exists

\* A soft-deleted session stays deleted in the store, whatever snapshots of
\* turns, evictions and ends are still in flight.
DeletedStaysHidden ==
  [][\A i \in Ids : store[i].exists /\ ~store[i].visible
                      => ~store'[i].visible]_store

\* A registered session whose task is over looks inactive, whatever evictions,
\* restores and deletes ran while the task was ending: from then on submit
\* refuses its work.  It promises nothing for the time between the end of the
\* loop and the mark (session_manager.py:1189-1243), in which submit still
\* accepts work that nobody reads (RefusedInTeardown, below, fails).
EndedIsRefused ==
  \A i \in Ids : Live(i) /\ active[sessions[i]] => pc[sessions[i]] # "done"

\* Only one object of a session id ever executes or queues submissions, so
\* two incarnations never write the same conversation.
SingleServer ==
  \A o, p \in Objs : o # p /\ sid[o] = sid[p] /\ ~Quiet(o) => Quiet(p)

\* A submission accepted on an idle session is taken up, whatever the reaper
\* does in between.
AcceptedIsProcessed ==
  \A o \in Objs : (queue[o] # <<>> /\ ~Processing(o)) ~> Processing(o)

\* A sweep of the reaper ends: no session it visits can stop it for good.
SweepFinishes == (reapPc # "sleep") ~> (reapPc = "sleep")

\* A delete call returns, even when it meets a running turn, the reaper or a
\* task that is waiting for the lock.
DeleteCompletes == \A i \in Ids : (delPc[i] = "soft") ~> (delPc[i] = "deleted")

\* A session whose loop has ended does not go on looking active: the mark comes,
\* or the session leaves the pool, though the lock is held over whole waits.
DeadLoopIsMarked ==
  \A i \in Ids :
    (Live(i) /\ pc[sessions[i]] \in {"savestop", "cleanup", "lock"})
      ~> (~Live(i) \/ ~active[sessions[i]])

\* All three wait for the lock or for tasks that want it; none waits for ever.
WaitsEnd == SweepFinishes /\ DeleteCompletes /\ DeadLoopIsMarked

\* The state of SessionLife: an object hosts its session from its installation
\* on, and is built from a document between the read and the installation.
Hosts == [o \in Objs |-> IF pc[o] \in TaskPcs THEN sid[o] ELSE NoId]
Found == [o \in Objs |-> IF pc[o] \in {"loaded", "restoring"} THEN sid[o] ELSE NoId]
Working == {o \in Objs : ~Quiet(o)}
Stored == {i \in Ids : store[i].exists}
Hidden == {i \in Ids : store[i].exists /\ ~store[i].visible}
Deleting == {i \in Ids : delPc[i] # "no"}

Life == INSTANCE SessionLife WITH
  serving <- sessions, hosts <- Hosts, found <- Found, working <- Working,
  stored <- Stored, hidden <- Hidden, deleting <- Deleting

\* However creations, restores, turns, snapshots, evictions, shutdowns and deletes
\* interleave around the manager's lock, a session lives as SessionLife says: one
\* object at a time, out of memory only when it is saved and idle, or deleted.
KeepsLife == Life!Spec

\* A session that has been in memory and that the user has not asked to delete is in
\* memory or has a document: no eviction, restore or end of a task loses it.
NoSessionIsLost ==
  \A i \in Ids : (\E o \in Objs : Hosts[o] = i) /\ delPc[i] = "no"
                   => Live(i) \/ store[i].exists

(* What comments and docstrings promise and the code does not keep: the      *)
(* README gives, for each, an instance on which TLC finds it violated.       *)

\* session_manager.py:124-129 and the docstring of create_session promise
\* that the number of active sessions stays within MAX_SESSIONS.
CapacityRespected == Cardinality(ActiveSessions) <= MaxSessions

\* session_manager.py:306-308: the task of a reaped object finds the session
\* popped and marks nothing, so a serving session is never deactivated by it.
ServingIsActive ==
  \A i \in Ids : Live(i) /\ pc[sessions[i]] \in {"wait", "busy", "save"}
                   => active[sessions[i]]

\* session_manager.py:1327-1331: shutdown_session waits for the task for at
\* most five seconds and then gives the lock back.
ShutdownReturns == (lock = "shutdown") ~> (lock = "free")

\* session_manager.py:1255-1257: submit refuses a session already being torn
\* down, because its queue is about to be discarded.
RefusedInTeardown ==
  [][\A o \in Objs : Len(queue'[o]) > Len(queue[o])
       => pc[o] \notin {"savestop", "cleanup", "lock", "marking", "done"}]_queue

\* session_manager.py:1336: when delete_session has returned, the session's
\* runtime resources are stopped.
DeletedStaysStopped ==
  \A i \in Ids : delPc[i] = "deleted" => ~Live(i)
---------------------------------------------------------------------------
(* The inductive invariant the proofs use (SessionPool_proofs).             *)

\* A registered object is bound to the id it is registered under, and its
\* task has been created.
Registered ==
  \A i \in Ids : Live(i) => /\ sid[sessions[i]] = i
                            /\ pc[sessions[i]] \in TaskPcs

\* Every object under construction or running is bound to an id.
Bound == \A o \in Objs : pc[o] # "free" => sid[o] \in Ids

\* The task that writes the "ended" snapshot holds the lock, so the object it
\* deactivated stays registered until the snapshot is written.
MarkerHoldsLock ==
  \A o \in Objs : pc[o] = "marking" =>
     lock = "marking" /\ holder = o /\ Live(sid[o])

\* A lock holder names a task that exists.
HolderExists == lock # "free" => holder \in Objs

\* What the reaper releases is a started object; after the save it can be
\* restored from the store.
ReaperHoldsObject ==
  /\ reapPc \notin {"sleep", "sweep"} =>
        reapObj \in Objs /\ pc[reapObj] \in TaskPcs
  /\ reapPc \in {"evict", "cleanup", "joining"} => store[sid[reapObj]].exists

\* A delete call past the store update has an object to stop.
DeleterHoldsObject ==
  \A i \in Ids : delPc[i] \in {"cleanup", "joining"} => delObj[i] \in Objs

\* As long as nothing is deleted, work is queued and executed by the object
\* that is registered under its id (the invariant behind SingleServer).
ServedIsRegistered ==
  \A o \in Objs : ~Quiet(o) => sid[o] \in Ids /\ sessions[sid[o]] = o

\* Nobody knows the id of a session that create_session is building: it has no
\* document, and who asks for it has still to find that out.
BuiltIsUnknown ==
  \A o \in Objs : pc[o] = "building" =>
    /\ ~store[sid[o]].exists
    /\ \A p \in Objs \ {o} : sid[p] = sid[o] => pc[p] = "loading"

PoolInv ==
  /\ TypeOK
  /\ Registered
  /\ Bound
  /\ MarkerHoldsLock
  /\ HolderExists
  /\ ReaperSparesWork
  /\ ReaperHoldsObject
  /\ DeleterHoldsObject
=============================================================================
