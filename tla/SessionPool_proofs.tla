------------------------ MODULE SessionPool_proofs ------------------------
(***************************************************************************)
(* Proofs about SessionPool.  PoolInv is inductive: one lemma per action     *)
(* says that the action keeps it, StepInv collects them, and the theorems   *)
(* at the end follow.  The lemmas about one object's move through its       *)
(* construction (ConstructionMove) and its task (TaskMove), about giving    *)
(* up the lock (MarkerLeaves) and about a cancellation (CancelInv) carry    *)
(* the arguments several actions share.  OneServerPerSession and            *)
(* EndedSessionsRefuse need further invariants, which follow PoolInv with    *)
(* the same layout; the first assumes that nothing is deleted, the second    *)
(* that nothing is shut down: without that both are false of the code.      *)
(* The last part proves that SessionPool implements SessionLife: one lemma   *)
(* per action (or kind of action) says which step of a life it takes.       *)
(***************************************************************************)
EXTENDS SessionPool, TLAPS

\* An upsert keeps the store well typed, loses no document and reveals none.
LEMMA UpsertKeeps ==
  ASSUME store \in [Ids -> SessionDoc], NEW i \in Ids,
         NEW st \in {"active", "ended"}, NEW appr \in BOOLEAN,
         PersistBestEffort(i, st, appr)
  PROVE  /\ store' \in [Ids -> SessionDoc]
         /\ \A j \in Ids : store[j].exists => store'[j].exists
         /\ \A j \in Ids : store[j].exists /\ ~store[j].visible
                             => ~store'[j].visible
<1>1. CASE UNCHANGED store
  BY <1>1
<1>2. CASE Upsert(i, st, appr)
  <2> DEFINE doc == [exists |-> TRUE, visible |-> store[i].exists => store[i].visible,
                     status |-> st, approval |-> appr]
  <2>1. store' = [store EXCEPT ![i] = doc]
    BY <1>2 DEF Upsert
  <2>2. store[i] \in SessionDoc
    OBVIOUS
  <2>3. doc \in SessionDoc
    BY <2>2 DEF SessionDoc
  <2>4. doc.exists /\ (store[i].exists /\ ~store[i].visible => ~doc.visible)
    BY <2>2 DEF SessionDoc
  <2> HIDE DEF doc
  <2> QED
    BY <2>1, <2>3, <2>4
<1> QED
  BY <1>1, <1>2 DEF PersistBestEffort


(***************************************************************************)
(* An object whose constructors or restore are still running is bound to an *)
(* id, is not registered and is not what the reaper releases.               *)
(***************************************************************************)
LEMMA UnderConstruction ==
  ASSUME PoolInv, NEW o \in Objs,
         pc[o] \in {"loading", "loaded", "building", "restoring"}
  PROVE  /\ sid[o] \in Ids
         /\ \A i \in Ids : sessions[i] # o
         /\ reapPc \notin {"sleep", "sweep"} => reapObj # o
<1>1. pc[o] \notin TaskPcs
  BY DEF TaskPcs
<1>2. ASSUME NEW i \in Ids, sessions[i] = o PROVE FALSE
  <2>1. Live(i)
    BY <1>2, PoolAssumption DEF Live
  <2> QED
    BY <1>1, <1>2, <2>1 DEF PoolInv, Registered
<1> QED
  BY <1>1, <1>2 DEF PoolInv, Bound, ReaperHoldsObject

(***************************************************************************)
(* A step that moves one object between the phases before its registration  *)
(* (create_session, ensure_session_loaded) keeps the invariant.             *)
(***************************************************************************)
LEMMA ConstructionMove ==
  ASSUME PoolInv, NEW o \in Objs, pc[o] \in BuildPcs,
         \A i \in Ids : sessions[i] # o,
         reapPc \notin {"sleep", "sweep"} => reapObj # o,
         NEW p \in BuildPcs, NEW s \in Ids \cup {NoId}, NEW a \in BOOLEAN,
         p # "free" => s \in Ids,
         pc' = [pc EXCEPT ![o] = p],
         sid' = [sid EXCEPT ![o] = s],
         approval' = [approval EXCEPT ![o] = a],
         UNCHANGED <<poolVars, active, reaping, queue, idle, store, shutReq,
                     reapVars, delVars>>
  PROVE  PoolInv'
<1>4. TypeOK'
  BY DEF PoolInv, TypeOK, poolVars, reapVars, delVars
<1>5. Registered'
  BY DEF PoolInv, TypeOK, Registered, Live, poolVars
<1>6. Bound'
  BY DEF PoolInv, TypeOK, Bound
<1>7. MarkerHoldsLock'
  BY DEF PoolInv, TypeOK, MarkerHoldsLock, Live, poolVars, BuildPcs
<1>8. HolderExists'
  BY DEF PoolInv, HolderExists, poolVars
<1>9. ReaperSparesWork'
  BY DEF PoolInv, TypeOK, ReaperSparesWork, Quiet, Processing, BuildPcs
<1>10. ReaperHoldsObject' /\ DeleterHoldsObject'
  BY DEF PoolInv, TypeOK, ReaperHoldsObject, DeleterHoldsObject, reapVars,
     delVars
<1> QED
  BY <1>4, <1>5, <1>6, <1>7, <1>8, <1>9, <1>10 DEF PoolInv

\* An object that is not allocated is not registered and not being released.
LEMMA Unallocated ==
  ASSUME PoolInv, NEW o \in Objs, pc[o] = "free"
  PROVE  /\ \A i \in Ids : sessions[i] # o
         /\ reapPc \notin {"sleep", "sweep"} => reapObj # o
<1>1. pc[o] \notin TaskPcs
  BY DEF TaskPcs
<1>2. ASSUME NEW i \in Ids, sessions[i] = o PROVE FALSE
  <2>1. Live(i)
    BY <1>2, PoolAssumption DEF Live
  <2> QED
    BY <1>1, <1>2, <2>1 DEF PoolInv, Registered
<1> QED
  BY <1>1, <1>2 DEF PoolInv, ReaperHoldsObject

\* create_session reserves a fresh object for a fresh id.
LEMMA CreateAdmitInv ==
  ASSUME PoolInv, NEW i \in Ids, NEW o \in Objs, CreateAdmit(i, o)
  PROVE  PoolInv'
<1>1. pc[o] = "free" /\ approval[o] \in BOOLEAN
  BY DEF CreateAdmit, PoolInv, TypeOK
<1>2. approval' = [approval EXCEPT ![o] = approval[o]]
  BY DEF CreateAdmit, PoolInv, TypeOK
<1> QED
  BY <1>1, <1>2, Unallocated, ConstructionMove DEF CreateAdmit, BuildPcs

\* The first lookup of ensure_session_loaded binds a fresh object.
LEMMA LoadBeginInv ==
  ASSUME PoolInv, NEW i \in Ids, NEW o \in Objs, LoadBegin(i, o)
  PROVE  PoolInv'
<1>1. pc[o] = "free" /\ approval[o] \in BOOLEAN
  BY DEF LoadBegin, PoolInv, TypeOK
<1>2. approval' = [approval EXCEPT ![o] = approval[o]]
  BY DEF LoadBegin, PoolInv, TypeOK
<1> QED
  BY <1>1, <1>2, Unallocated, ConstructionMove DEF LoadBegin, BuildPcs

\* The read either gives the object back or fills it from the document.
LEMMA LoadReadInv ==
  ASSUME PoolInv, NEW o \in Objs, LoadRead(o)
  PROVE  PoolInv'
<1>0. pc[o] = "loading" /\ pc[o] \in BuildPcs /\ approval[o] \in BOOLEAN
  BY DEF LoadRead, PoolInv, TypeOK, BuildPcs
<1>1. /\ sid[o] \in Ids
      /\ \A i \in Ids : sessions[i] # o
      /\ reapPc \notin {"sleep", "sweep"} => reapObj # o
  BY <1>0, UnderConstruction
<1>2. UNCHANGED <<poolVars, active, reaping, queue, idle, store, shutReq,
                  reapVars, delVars>>
  BY DEF LoadRead
<1>3. CASE ~(store[sid[o]].exists /\ store[sid[o]].visible)
  <2>1. /\ pc' = [pc EXCEPT ![o] = "free"]
        /\ sid' = [sid EXCEPT ![o] = NoId]
        /\ approval' = [approval EXCEPT ![o] = approval[o]]
    BY <1>3 DEF LoadRead, PoolInv, TypeOK
  <2> QED
    BY <1>0, <1>1, <1>2, <2>1, ConstructionMove DEF BuildPcs
<1>4. CASE store[sid[o]].exists /\ store[sid[o]].visible
  <2>1. /\ pc' = [pc EXCEPT ![o] = "loaded"]
        /\ sid' = [sid EXCEPT ![o] = sid[o]]
        /\ approval' = [approval EXCEPT ![o] = store[sid[o]].approval]
    BY <1>4 DEF LoadRead, PoolInv, TypeOK
  <2>2. store[sid[o]].approval \in BOOLEAN
    BY <1>1 DEF PoolInv, TypeOK, SessionDoc
  <2> QED
    BY <1>0, <1>1, <1>2, <2>1, <2>2, ConstructionMove DEF BuildPcs
<1> QED
  BY <1>3, <1>4

\* The second lookup gives the object back or goes on building it.
LEMMA LoadRecheckInv ==
  ASSUME PoolInv, NEW o \in Objs, LoadRecheck(o)
  PROVE  PoolInv'
<1>0. pc[o] = "loaded" /\ pc[o] \in BuildPcs /\ approval[o] \in BOOLEAN
  BY DEF LoadRecheck, PoolInv, TypeOK, BuildPcs
<1>1. /\ sid[o] \in Ids
      /\ \A i \in Ids : sessions[i] # o
      /\ reapPc \notin {"sleep", "sweep"} => reapObj # o
  BY <1>0, UnderConstruction
<1>2. UNCHANGED <<poolVars, active, reaping, queue, idle, store, shutReq,
                  reapVars, delVars>>
  BY DEF LoadRecheck
<1>3. CASE Discard(o)
  BY <1>0, <1>1, <1>2, <1>3, ConstructionMove DEF Discard, BuildPcs
<1>4. CASE pc' = [pc EXCEPT ![o] = "restoring"] /\ UNCHANGED <<sid, approval>>
  <2>1. /\ sid' = [sid EXCEPT ![o] = sid[o]]
        /\ approval' = [approval EXCEPT ![o] = approval[o]]
    BY <1>4 DEF PoolInv, TypeOK
  <2> QED
    BY <1>0, <1>1, <1>2, <1>4, <2>1, ConstructionMove DEF BuildPcs
<1> QED
  BY <1>3, <1>4 DEF LoadRecheck

\* Installing an object: its id was free, so nobody else was registered.
LEMMA StartAgentSessionInv ==
  ASSUME PoolInv, NEW o \in Objs, StartAgentSession(o)
  PROVE  PoolInv'
<1>0. pc[o] \in {"building", "restoring"} /\ pc[o] \in BuildPcs /\ lock = "free"
  BY DEF StartAgentSession, BuildPcs
<1>1. /\ sid[o] \in Ids
      /\ \A i \in Ids : sessions[i] # o
      /\ reapPc \notin {"sleep", "sweep"} => reapObj # o
  BY <1>0, UnderConstruction
<1>2. UNCHANGED <<lock, holder, active, reaping, queue, idle, shutReq,
                  reapVars, delVars>>
  BY DEF StartAgentSession
<1>3. CASE Discard(o) /\ UNCHANGED <<sessions, store>>
  BY <1>0, <1>1, <1>2, <1>3, ConstructionMove DEF Discard, BuildPcs, poolVars
<1>4. CASE /\ ~Live(sid[o])
           /\ sessions' = [sessions EXCEPT ![sid[o]] = o]
           /\ pc' = [pc EXCEPT ![o] = "new"]
           /\ UNCHANGED <<sid, approval>>
           /\ IF pc[o] = "building"
              THEN PersistBestEffort(sid[o], "active", FALSE)
              ELSE UNCHANGED store
  <2>1. /\ store' \in [Ids -> SessionDoc]
        /\ \A j \in Ids : store[j].exists => store'[j].exists
    BY <1>1, <1>4, UpsertKeeps DEF PoolInv, TypeOK
  <2>2. TypeOK'
    BY <1>1, <1>2, <1>4, <2>1 DEF PoolInv, TypeOK, TaskPcs, reapVars, delVars
  <2>3. Registered'
    <3> SUFFICES ASSUME NEW i \in Ids, Live(i)'
                 PROVE  sid'[sessions'[i]] = i /\ pc'[sessions'[i]] \in TaskPcs
      BY DEF Registered
    <3>1. CASE i = sid[o]
      BY <1>1, <1>4, <3>1 DEF PoolInv, TypeOK, TaskPcs
    <3>2. CASE i # sid[o]
      <4>1. sessions'[i] = sessions[i] /\ Live(i) /\ sessions[i] # o
        BY <1>1, <1>4, <3>2 DEF PoolInv, TypeOK, Live
      <4> QED
        BY <1>4, <4>1 DEF PoolInv, TypeOK, Registered, Live
    <3> QED
      BY <3>1, <3>2
  <2>4. Bound'
    BY <1>1, <1>4 DEF PoolInv, TypeOK, Bound
  <2>5. MarkerHoldsLock'
    BY <1>0, <1>4 DEF PoolInv, TypeOK, MarkerHoldsLock
  <2>6. HolderExists'
    BY <1>2 DEF PoolInv, HolderExists
  <2>7. ReaperSparesWork'
    BY <1>0, <1>2, <1>4 DEF PoolInv, TypeOK, ReaperSparesWork, Quiet, Processing
  <2>8. ReaperHoldsObject'
    <3> SUFFICES ASSUME reapPc \notin {"sleep", "sweep"}
                 PROVE  ReaperHoldsObject'
      BY <1>2 DEF ReaperHoldsObject, reapVars
    <3>1. reapObj \in Objs /\ pc'[reapObj] = pc[reapObj] /\ reapObj # o
      BY <1>1, <1>4 DEF PoolInv, TypeOK, ReaperHoldsObject
    <3>2. sid[reapObj] \in Ids
      BY <3>1 DEF PoolInv, Bound, ReaperHoldsObject, TaskPcs
    <3> QED
      BY <1>2, <1>4, <2>1, <3>1, <3>2 DEF PoolInv, ReaperHoldsObject, reapVars
  <2>9. DeleterHoldsObject'
    BY <1>2 DEF PoolInv, DeleterHoldsObject, delVars
  <2> QED
    BY <2>2, <2>3, <2>4, <2>5, <2>6, <2>7, <2>8, <2>9 DEF PoolInv
<1> QED
  BY <1>3, <1>4 DEF StartAgentSession

(***************************************************************************)
(* A step of the task of o that neither takes nor gives back the lock: it   *)
(* moves the task, may write the store, and may take submissions off the    *)
(* queue or record the approval a turn leaves behind.                       *)
(***************************************************************************)
LEMMA TaskMove ==
  ASSUME PoolInv, NEW o \in Objs,
         pc[o] \in TaskPcs \ {"marking"},
         NEW p \in TaskPcs \ {"marking"},
         pc' = [pc EXCEPT ![o] = p],
         queue' \in [Objs -> Seq({"work", "shutdown"})],
         \A q \in Objs : reaping[q] => queue'[q] = <<>>,
         p \in {"busy", "stopping"} => ~reaping[o],
         approval' \in [Objs -> BOOLEAN],
         idle' \in SUBSET Objs,
         store' \in [Ids -> SessionDoc],
         \A j \in Ids : store[j].exists => store'[j].exists,
         UNCHANGED <<poolVars, sid, active, reaping, shutReq, reapVars, delVars>>
  PROVE  PoolInv'
<1>1. pc' \in [Objs -> BuildPcs \cup TaskPcs]
  BY DEF PoolInv, TypeOK
<1>2. TypeOK'
  BY <1>1 DEF PoolInv, TypeOK, poolVars, reapVars, delVars
<1>3. \A q \in Objs : pc[q] \in TaskPcs <=> pc'[q] \in TaskPcs
  BY DEF PoolInv, TypeOK
<1>4. Registered'
  <2> SUFFICES ASSUME NEW i \in Ids, Live(i)
               PROVE  sid[sessions[i]] = i /\ pc'[sessions[i]] \in TaskPcs
    BY DEF Registered, Live, poolVars
  <2>1. sessions[i] \in Objs
    BY DEF Live, PoolInv, TypeOK
  <2> QED
    BY <1>3, <2>1 DEF PoolInv, Registered
<1>5. Bound'
  BY DEF PoolInv, TypeOK, Bound, TaskPcs
<1>6. MarkerHoldsLock'
  BY DEF PoolInv, TypeOK, MarkerHoldsLock, Live, poolVars
<1>7. HolderExists'
  BY DEF PoolInv, HolderExists, poolVars
<1>8. ReaperSparesWork'
  BY DEF PoolInv, TypeOK, ReaperSparesWork, Quiet, Processing
<1>9. ReaperHoldsObject'
  <2> SUFFICES ASSUME reapPc \notin {"sleep", "sweep"}
               PROVE  ReaperHoldsObject'
    BY DEF ReaperHoldsObject, reapVars
  <2>1. reapObj \in Objs /\ pc[reapObj] \in TaskPcs
    BY DEF PoolInv, ReaperHoldsObject
  <2>2. sid[reapObj] \in Ids
    BY <2>1 DEF PoolInv, Bound, TaskPcs
  <2> QED
    BY <1>3, <2>1, <2>2 DEF PoolInv, ReaperHoldsObject, reapVars
<1>10. DeleterHoldsObject'
  BY DEF PoolInv, DeleterHoldsObject, delVars
<1> QED
  BY <1>2, <1>4, <1>5, <1>6, <1>7, <1>8, <1>9, <1>10 DEF PoolInv

\* What every step of a task starts from.
LEMMA TaskFacts ==
  ASSUME PoolInv, NEW o \in Objs, pc[o] \in TaskPcs
  PROVE  /\ sid[o] \in Ids
         /\ queue \in [Objs -> Seq({"work", "shutdown"})]
         /\ \A q \in Objs : reaping[q] => queue[q] = <<>>
         /\ approval \in [Objs -> BOOLEAN]
         /\ idle \in SUBSET Objs
         /\ store \in [Ids -> SessionDoc]
BY DEF PoolInv, TypeOK, Bound, TaskPcs, ReaperSparesWork, Quiet

\* The first step of a task.
LEMMA RunStartInv ==
  ASSUME PoolInv, NEW o \in Objs, RunStart(o)
  PROVE  PoolInv'
<1>1. PICK p \in {"done", "wait", "cleanup"} : pc' = [pc EXCEPT ![o] = p]
  BY DEF RunStart
<1>2. pc[o] = "new"
  BY DEF RunStart
<1> QED
  BY <1>1, <1>2, TaskFacts, TaskMove DEF RunStart, TaskPcs

\* A dequeue needs a queued submission, so the object is not being reaped.
LEMMA DequeueInv ==
  ASSUME PoolInv, NEW o \in Objs, Dequeue(o)
  PROVE  PoolInv'
<1>1. PICK p \in {"busy", "stopping"} : pc' = [pc EXCEPT ![o] = p]
  BY DEF Dequeue
<1>2. pc[o] = "wait" /\ queue[o] # <<>>
  BY DEF Dequeue
<1>3. queue \in [Objs -> Seq({"work", "shutdown"})]
  BY <1>2, TaskFacts DEF TaskPcs
<1>4. ~reaping[o]
  BY <1>2, TaskFacts DEF TaskPcs
<1>5. Tail(queue[o]) \in Seq({"work", "shutdown"})
  BY <1>2, <1>3
<1>6. queue' \in [Objs -> Seq({"work", "shutdown"})]
  BY <1>3, <1>5 DEF Dequeue
<1>7. \A q \in Objs : reaping[q] => queue'[q] = <<>>
  BY <1>2, <1>3, <1>4, TaskFacts DEF Dequeue, TaskPcs
<1> QED
  BY <1>1, <1>2, <1>4, <1>6, <1>7, TaskFacts, TaskMove DEF Dequeue, TaskPcs

\* The end of a turn.
LEMMA TurnEndInv ==
  ASSUME PoolInv, NEW o \in Objs, TurnEnd(o)
  PROVE  PoolInv'
<1>1. PICK p \in {"save", "savestop"} : pc' = [pc EXCEPT ![o] = p]
  BY DEF TurnEnd
<1>2. pc[o] = "busy"
  BY DEF TurnEnd
<1>3. approval' \in [Objs -> BOOLEAN] /\ idle' \in SUBSET Objs
  BY <1>2, TaskFacts DEF TurnEnd, TaskPcs
<1> QED
  BY <1>1, <1>2, <1>3, TaskFacts, TaskMove DEF TurnEnd, TaskPcs

\* The end of a shutdown submission.
LEMMA StopEndInv ==
  ASSUME PoolInv, NEW o \in Objs, StopEnd(o)
  PROVE  PoolInv'
<1>1. pc' = [pc EXCEPT ![o] = "savestop"] /\ pc[o] = "stopping"
  BY DEF StopEnd
<1>2. idle' \in SUBSET Objs
  BY <1>1, TaskFacts DEF StopEnd, TaskPcs
<1> QED
  BY <1>1, <1>2, TaskFacts, TaskMove DEF StopEnd, TaskPcs

\* The snapshot after a submission.
LEMMA TurnSavedInv ==
  ASSUME PoolInv, NEW o \in Objs, TurnSaved(o)
  PROVE  PoolInv'
<1>1. PICK p \in {"wait", "cleanup"} : pc' = [pc EXCEPT ![o] = p]
  BY DEF TurnSaved
<1>2. pc[o] \in {"save", "savestop"}
  BY DEF TurnSaved
<1>3. approval[o] \in BOOLEAN
  BY <1>2, TaskFacts DEF TaskPcs
<1>4. PersistBestEffort(sid[o], "active", approval[o])
  BY DEF TurnSaved
<1>5. /\ store' \in [Ids -> SessionDoc]
      /\ \A j \in Ids : store[j].exists => store'[j].exists
  BY <1>2, <1>3, <1>4, TaskFacts, UpsertKeeps DEF TaskPcs
<1> QED
  BY <1>1, <1>2, <1>5, TaskFacts, TaskMove DEF TurnSaved, TaskPcs

\* The cleanup after the loop.
LEMMA CleanedUpInv ==
  ASSUME PoolInv, NEW o \in Objs, CleanedUp(o)
  PROVE  PoolInv'
<1>1. pc' = [pc EXCEPT ![o] = "lock"] /\ pc[o] = "cleanup"
  BY DEF CleanedUp
<1> QED
  BY <1>1, TaskFacts, TaskMove DEF CleanedUp, TaskPcs

\* Taking the lock to deactivate the registered object.
LEMMA EndMarkInv ==
  ASSUME PoolInv, NEW o \in Objs, EndMark(o)
  PROVE  PoolInv'
<1>0. pc[o] = "lock" /\ lock = "free"
  BY DEF EndMark
<1>1. UNCHANGED <<sessions, sid, reaping, queue, approval, idle, store, shutReq,
                  reapVars, delVars>>
  BY DEF EndMark
<1>2. CASE pc' = [pc EXCEPT ![o] = "done"] /\ UNCHANGED <<active, lock, holder>>
  BY <1>0, <1>1, <1>2, TaskFacts, TaskMove DEF poolVars, TaskPcs
<1>3. CASE /\ Live(sid[o])
           /\ active' = [active EXCEPT ![sessions[sid[o]]] = FALSE]
           /\ pc' = [pc EXCEPT ![o] = "marking"]
           /\ lock' = "marking" /\ holder' = o
  <2>1. TypeOK'
    BY <1>1, <1>3 DEF PoolInv, TypeOK, TaskPcs, reapVars, delVars
  <2>2. \A q \in Objs : pc[q] \in TaskPcs <=> pc'[q] \in TaskPcs
    BY <1>0, <1>3 DEF PoolInv, TypeOK, TaskPcs
  <2>3. Registered'
    <3> SUFFICES ASSUME NEW i \in Ids, Live(i)
                 PROVE  sid[sessions[i]] = i /\ pc'[sessions[i]] \in TaskPcs
      BY <1>1 DEF Registered, Live
    <3>1. sessions[i] \in Objs
      BY DEF Live, PoolInv, TypeOK
    <3> QED
      BY <2>2, <3>1 DEF PoolInv, Registered
  <2>4. Bound'
    BY <1>0, <1>1, <1>3 DEF PoolInv, TypeOK, Bound
  <2>5. MarkerHoldsLock'
    BY <1>0, <1>1, <1>3 DEF PoolInv, TypeOK, MarkerHoldsLock, Live
  <2>6. HolderExists'
    BY <1>3 DEF HolderExists
  <2>7. ReaperSparesWork'
    BY <1>1, <1>3 DEF PoolInv, TypeOK, ReaperSparesWork, Quiet, Processing
  <2>8. ReaperHoldsObject' /\ DeleterHoldsObject'
    BY <1>1, <2>2 DEF PoolInv, ReaperHoldsObject, DeleterHoldsObject, reapVars,
       delVars
  <2> QED
    BY <2>1, <2>3, <2>4, <2>5, <2>6, <2>7, <2>8 DEF PoolInv
<1> QED
  BY <1>2, <1>3 DEF EndMark

(***************************************************************************)
(* A step that ends the critical section of a marking task: the task is     *)
(* done, the lock is free.                                                  *)
(***************************************************************************)
LEMMA MarkerLeaves ==
  ASSUME PoolInv, NEW o \in Objs, pc[o] = "marking",
         pc' = [pc EXCEPT ![o] = "done"],
         lock' = "free", holder' = NoObj,
         store' \in [Ids -> SessionDoc],
         \A j \in Ids : store[j].exists => store'[j].exists,
         UNCHANGED <<sessions, sid, active, reaping, queue, approval, idle,
                     shutReq>>,
         reapPc' \in {reapPc, "joining"},
         reapPc' # reapPc => reapPc = "cleanup",
         UNCHANGED <<reapObj, cands, delObj>>,
         delPc' \in [Ids -> {"no", "soft", "cleanup", "joining", "deleted"}],
         \A i \in Ids : delPc'[i] \in {delPc[i], "joining"}
                        /\ (delPc'[i] # delPc[i] => delPc[i] = "cleanup")
  PROVE  PoolInv'
<1>1. TypeOK'
  BY DEF PoolInv, TypeOK, TaskPcs
<1>2. \A q \in Objs : pc[q] \in TaskPcs <=> pc'[q] \in TaskPcs
  BY DEF PoolInv, TypeOK, TaskPcs
<1>3. Registered'
  <2> SUFFICES ASSUME NEW i \in Ids, Live(i)
               PROVE  sid[sessions[i]] = i /\ pc'[sessions[i]] \in TaskPcs
    BY DEF Registered, Live
  <2>1. sessions[i] \in Objs
    BY DEF Live, PoolInv, TypeOK
  <2> QED
    BY <1>2, <2>1 DEF PoolInv, Registered
<1>4. Bound'
  BY DEF PoolInv, TypeOK, Bound
<1>5. MarkerHoldsLock'
  BY DEF PoolInv, TypeOK, MarkerHoldsLock
<1>6. HolderExists'
  BY DEF HolderExists
<1>7. ReaperSparesWork'
  BY DEF PoolInv, TypeOK, ReaperSparesWork, Quiet, Processing
<1>8. ReaperHoldsObject'
  <2> SUFFICES ASSUME reapPc \notin {"sleep", "sweep"}
               PROVE  ReaperHoldsObject'
    BY DEF ReaperHoldsObject
  <2>1. reapObj \in Objs /\ pc[reapObj] \in TaskPcs
    BY DEF PoolInv, ReaperHoldsObject
  <2>2. sid[reapObj] \in Ids
    BY <2>1 DEF PoolInv, Bound, TaskPcs
  <2> QED
    BY <1>2, <2>1, <2>2 DEF PoolInv, ReaperHoldsObject
<1>9. DeleterHoldsObject'
  BY DEF PoolInv, DeleterHoldsObject
<1> QED
  BY <1>1, <1>3, <1>4, <1>5, <1>6, <1>7, <1>8, <1>9 DEF PoolInv

\* The "ended" snapshot is written and the lock given back.
LEMMA EndMarkedInv ==
  ASSUME PoolInv, NEW o \in Objs, EndMarked(o)
  PROVE  PoolInv'
<1>1. pc[o] = "marking" /\ pc' = [pc EXCEPT ![o] = "done"]
  BY DEF EndMarked
<1>2. sid[o] \in Ids /\ Live(sid[o])
  BY <1>1, TaskFacts DEF PoolInv, MarkerHoldsLock, TaskPcs
<1>3. approval[sessions[sid[o]]] \in BOOLEAN
  BY <1>2 DEF PoolInv, TypeOK, Live
<1>4. /\ store' \in [Ids -> SessionDoc]
      /\ \A j \in Ids : store[j].exists => store'[j].exists
  <2>1. PersistBestEffort(sid[o], "ended", approval[sessions[sid[o]]])
    BY DEF EndMarked
  <2>2. store \in [Ids -> SessionDoc]
    BY DEF PoolInv, TypeOK
  <2> QED
    BY <1>2, <1>3, <2>1, <2>2, UpsertKeeps
<1>5. delPc \in [Ids -> {"no", "soft", "cleanup", "joining", "deleted"}]
  BY DEF PoolInv, TypeOK
<1> QED
  BY <1>1, <1>4, <1>5, MarkerLeaves DEF EndMarked, reapVars, delVars

\* shutdown_session takes the lock and names a registered object.
LEMMA ShutdownWaitInv ==
  ASSUME PoolInv, NEW i \in Ids, ShutdownWait(i)
  PROVE  PoolInv'
<1>1. TypeOK'
  BY DEF ShutdownWait, objVars, PoolInv, TypeOK, reapVars, delVars
<1>2. Registered' /\ Bound' /\ MarkerHoldsLock' /\ HolderExists'
  BY DEF ShutdownWait, objVars, PoolInv, Registered, Bound,
     MarkerHoldsLock, HolderExists, TypeOK, Live, reapVars, delVars
<1>3. ReaperSparesWork'
  BY DEF ShutdownWait, objVars, PoolInv, ReaperSparesWork, TypeOK, Quiet,
     Processing, reapVars, delVars
<1>4. ReaperHoldsObject' /\ DeleterHoldsObject'
  BY DEF ShutdownWait, objVars, PoolInv, ReaperHoldsObject,
     DeleterHoldsObject, TypeOK, reapVars, delVars
<1> QED
  BY <1>1, <1>2, <1>3, <1>4 DEF PoolInv

\* shutdown_session gives the lock back.
LEMMA ShutdownReturnInv ==
  ASSUME PoolInv, ShutdownReturn
  PROVE  PoolInv'
<1>1. TypeOK'
  BY DEF ShutdownReturn, objVars, PoolInv, TypeOK, reapVars, delVars
<1>2. Registered' /\ Bound' /\ MarkerHoldsLock' /\ HolderExists'
  BY DEF ShutdownReturn, objVars, PoolInv, Registered, Bound,
     MarkerHoldsLock, HolderExists, TypeOK, Live, reapVars, delVars
<1>3. ReaperSparesWork'
  BY DEF ShutdownReturn, objVars, PoolInv, ReaperSparesWork, TypeOK,
     Quiet, Processing, reapVars, delVars
<1>4. ReaperHoldsObject' /\ DeleterHoldsObject'
  BY DEF ShutdownReturn, objVars, PoolInv, ReaperHoldsObject,
     DeleterHoldsObject, TypeOK, reapVars, delVars
<1> QED
  BY <1>1, <1>2, <1>3, <1>4 DEF PoolInv

\* The wait expires; the cancelled task cannot be the marker, which would
\* hold the lock itself.
LEMMA ShutdownExpireInv ==
  ASSUME PoolInv, ShutdownExpire
  PROVE  PoolInv'
<1>1. TypeOK'
  BY ZenonT(40) DEF ShutdownExpire, AfterCancel, PoolInv, TypeOK, TaskPcs, reapVars,
     delVars
<1>2. Registered' /\ Bound' /\ MarkerHoldsLock' /\ HolderExists'
  BY DEF ShutdownExpire, AfterCancel, PoolInv, Registered, Bound,
     MarkerHoldsLock, HolderExists, TypeOK, Live, TaskPcs, reapVars,
     delVars
<1>3. ReaperSparesWork'
  BY DEF ShutdownExpire, AfterCancel, PoolInv, ReaperSparesWork, TypeOK,
     Quiet, Processing, reapVars, delVars
<1>4. ReaperHoldsObject' /\ DeleterHoldsObject'
  BY DEF ShutdownExpire, AfterCancel, PoolInv, ReaperHoldsObject,
     DeleterHoldsObject, TypeOK, TaskPcs, reapVars, delVars
<1> QED
  BY <1>1, <1>2, <1>3, <1>4 DEF PoolInv

\* A sweep begins.
LEMMA ReaperSelectInv ==
  ASSUME PoolInv, ReaperSelect
  PROVE  PoolInv'
<1>1. TypeOK'
  BY DEF ReaperSelect, poolVars, PoolInv, TypeOK, reapVars, delVars
<1>2. Registered' /\ Bound' /\ MarkerHoldsLock' /\ HolderExists'
  BY DEF ReaperSelect, poolVars, PoolInv, Registered, Bound,
     MarkerHoldsLock, HolderExists, TypeOK, Live, reapVars, delVars
<1>3. ReaperSparesWork'
  BY DEF ReaperSelect, poolVars, PoolInv, ReaperSparesWork, TypeOK, Quiet,
     Processing, reapVars, delVars
<1>4. ReaperHoldsObject' /\ DeleterHoldsObject'
  BY DEF ReaperSelect, poolVars, PoolInv, ReaperHoldsObject,
     DeleterHoldsObject, TypeOK, reapVars, delVars
<1> QED
  BY <1>1, <1>2, <1>3, <1>4 DEF PoolInv

\* The claim: the queue is empty and nothing runs when is_reaping is set.
LEMMA ReapClaimInv ==
  ASSUME PoolInv, NEW i \in Ids, ReapClaim(i)
  PROVE  PoolInv'
<1>1. TypeOK'
  BY DEF ReapClaim, Reapable, poolVars, PoolInv, TypeOK, reapVars, delVars
<1>2. Registered' /\ Bound' /\ MarkerHoldsLock' /\ HolderExists'
  BY DEF ReapClaim, Reapable, poolVars, PoolInv, Registered, Bound,
     MarkerHoldsLock, HolderExists, TypeOK, Live, reapVars, delVars
<1>3. ReaperSparesWork'
  BY DEF ReapClaim, Reapable, poolVars, PoolInv, ReaperSparesWork, TypeOK,
     Quiet, Processing, Live, reapVars, delVars
<1>4. ReaperHoldsObject' /\ DeleterHoldsObject'
  BY DEF ReapClaim, Reapable, poolVars, PoolInv, ReaperHoldsObject,
     DeleterHoldsObject, TypeOK, Registered, Live, TaskPcs, reapVars,
     delVars
<1> QED
  BY <1>1, <1>2, <1>3, <1>4 DEF PoolInv

\* A sweep ends.
LEMMA SweepEndInv ==
  ASSUME PoolInv, SweepEnd
  PROVE  PoolInv'
<1>1. TypeOK'
  BY DEF SweepEnd, poolVars, PoolInv, TypeOK, reapVars, delVars
<1>2. Registered' /\ Bound' /\ MarkerHoldsLock' /\ HolderExists'
  BY DEF SweepEnd, poolVars, PoolInv, Registered, Bound, MarkerHoldsLock,
     HolderExists, TypeOK, Live, reapVars, delVars
<1>3. ReaperSparesWork'
  BY DEF SweepEnd, poolVars, PoolInv, ReaperSparesWork, TypeOK, Quiet,
     Processing, reapVars, delVars
<1>4. ReaperHoldsObject' /\ DeleterHoldsObject'
  BY DEF SweepEnd, poolVars, PoolInv, ReaperHoldsObject,
     DeleterHoldsObject, TypeOK, reapVars, delVars
<1> QED
  BY <1>1, <1>2, <1>3, <1>4 DEF PoolInv

\* A failed save drops the claim.
LEMMA ReapSaveFailedInv ==
  ASSUME PoolInv, ReapSaveFailed
  PROVE  PoolInv'
<1>1. TypeOK'
  BY DEF ReapSaveFailed, Unreap, poolVars, PoolInv, TypeOK, reapVars,
     delVars
<1>2. Registered' /\ Bound' /\ MarkerHoldsLock' /\ HolderExists'
  BY DEF ReapSaveFailed, Unreap, poolVars, PoolInv, Registered, Bound,
     MarkerHoldsLock, HolderExists, TypeOK, Live, reapVars, delVars
<1>3. ReaperSparesWork'
  BY DEF ReapSaveFailed, Unreap, poolVars, PoolInv, ReaperSparesWork,
     TypeOK, Quiet, Processing, reapVars, delVars
<1>4. ReaperHoldsObject' /\ DeleterHoldsObject'
  BY DEF ReapSaveFailed, Unreap, poolVars, PoolInv, ReaperHoldsObject,
     DeleterHoldsObject, TypeOK, reapVars, delVars
<1> QED
  BY <1>1, <1>2, <1>3, <1>4 DEF PoolInv

\* The evicted object's task is over.
LEMMA ReapJoinInv ==
  ASSUME PoolInv, ReapJoin
  PROVE  PoolInv'
<1>1. TypeOK'
  BY DEF ReapJoin, poolVars, objVars, PoolInv, TypeOK, reapVars, delVars
<1>2. Registered' /\ Bound' /\ MarkerHoldsLock' /\ HolderExists'
  BY DEF ReapJoin, poolVars, objVars, PoolInv, Registered, Bound,
     MarkerHoldsLock, HolderExists, TypeOK, Live, reapVars, delVars
<1>3. ReaperSparesWork'
  BY DEF ReapJoin, poolVars, objVars, PoolInv, ReaperSparesWork, TypeOK,
     Quiet, Processing, reapVars, delVars
<1>4. ReaperHoldsObject' /\ DeleterHoldsObject'
  BY DEF ReapJoin, poolVars, objVars, PoolInv, ReaperHoldsObject,
     DeleterHoldsObject, TypeOK, reapVars, delVars
<1> QED
  BY <1>1, <1>2, <1>3, <1>4 DEF PoolInv

\* delete_session pops what is registered, under the lock.
LEMMA DeletePopInv ==
  ASSUME PoolInv, NEW i \in Ids, DeletePop(i)
  PROVE  PoolInv'
<1>1. TypeOK'
  BY DEF DeletePop, objVars, PoolInv, TypeOK, reapVars, delVars
<1>2. Registered' /\ Bound' /\ MarkerHoldsLock' /\ HolderExists'
  BY DEF DeletePop, objVars, PoolInv, Registered, Bound, MarkerHoldsLock,
     HolderExists, TypeOK, Live, reapVars, delVars
<1>3. ReaperSparesWork'
  BY DEF DeletePop, objVars, PoolInv, ReaperSparesWork, TypeOK, Quiet,
     Processing, reapVars, delVars
<1>4. ReaperHoldsObject' /\ DeleterHoldsObject'
  BY DEF DeletePop, objVars, PoolInv, ReaperHoldsObject,
     DeleterHoldsObject, TypeOK, reapVars, delVars
<1> QED
  BY <1>1, <1>2, <1>3, <1>4 DEF PoolInv

\* The soft delete keeps the document.
LEMMA DeleteSoftInv ==
  ASSUME PoolInv, NEW i \in Ids, DeleteSoft(i)
  PROVE  PoolInv'
<1>1. TypeOK'
  BY ZenonT(40) DEF DeleteSoft, poolVars, objVars, PoolInv, TypeOK, SessionDoc,
     reapVars, delVars
<1>2. Registered' /\ Bound' /\ MarkerHoldsLock' /\ HolderExists'
  BY DEF DeleteSoft, poolVars, objVars, PoolInv, Registered, Bound,
     MarkerHoldsLock, HolderExists, TypeOK, Live, reapVars, delVars
<1>3. ReaperSparesWork'
  BY DEF DeleteSoft, poolVars, objVars, PoolInv, ReaperSparesWork, TypeOK,
     Quiet, Processing, reapVars, delVars
<1>4. ReaperHoldsObject' /\ DeleterHoldsObject'
  BY DEF DeleteSoft, poolVars, objVars, PoolInv, ReaperHoldsObject,
     DeleterHoldsObject, TypeOK, SessionDoc, reapVars, delVars
<1> QED
  BY <1>1, <1>2, <1>3, <1>4 DEF PoolInv

\* The deleted object's task is over.
LEMMA DeleteJoinInv ==
  ASSUME PoolInv, NEW i \in Ids, DeleteJoin(i)
  PROVE  PoolInv'
<1>1. TypeOK'
  BY DEF DeleteJoin, poolVars, objVars, PoolInv, TypeOK, reapVars, delVars
<1>2. Registered' /\ Bound' /\ MarkerHoldsLock' /\ HolderExists'
  BY DEF DeleteJoin, poolVars, objVars, PoolInv, Registered, Bound,
     MarkerHoldsLock, HolderExists, TypeOK, Live, reapVars, delVars
<1>3. ReaperSparesWork'
  BY DEF DeleteJoin, poolVars, objVars, PoolInv, ReaperSparesWork, TypeOK,
     Quiet, Processing, reapVars, delVars
<1>4. ReaperHoldsObject' /\ DeleterHoldsObject'
  BY DEF DeleteJoin, poolVars, objVars, PoolInv, ReaperHoldsObject,
     DeleterHoldsObject, TypeOK, reapVars, delVars
<1> QED
  BY <1>1, <1>2, <1>3, <1>4 DEF PoolInv

(***************************************************************************)
(* Accepting a submission: the object is not being reaped, so growing its   *)
(* queue cannot disturb what the reaper has claimed.                        *)
(***************************************************************************)
LEMMA EnqueueInv ==
  ASSUME PoolInv, NEW i \in Ids, NEW op \in {"work", "shutdown"},
         Enqueue(i, op, ~reaping[sessions[i]]), shutReq' \in SUBSET Ids
  PROVE  PoolInv'
<1>1. sessions[i] \in Objs /\ ~reaping[sessions[i]]
  BY DEF Enqueue, Live, PoolInv, TypeOK
<1>2. queue \in [Objs -> Seq({"work", "shutdown"})]
  BY DEF PoolInv, TypeOK
<1>3. queue' = [queue EXCEPT ![sessions[i]] = Append(queue[sessions[i]], op)]
  BY DEF Enqueue
<1>4. queue' \in [Objs -> Seq({"work", "shutdown"})]
  BY <1>1, <1>2, <1>3
<1>5. UNCHANGED <<poolVars, sid, pc, active, reaping, approval, store,
                  reapVars, delVars>>
  BY DEF Enqueue
<1>6. idle' \in SUBSET Objs
  BY DEF Enqueue, PoolInv, TypeOK
<1>7. TypeOK'
  BY <1>4, <1>5, <1>6 DEF PoolInv, TypeOK, poolVars, reapVars, delVars
<1>8. Registered' /\ Bound' /\ MarkerHoldsLock' /\ HolderExists'
  BY <1>5 DEF PoolInv, Registered, Bound, MarkerHoldsLock, HolderExists, Live,
     poolVars
<1>9. ReaperSparesWork'
  BY <1>1, <1>2, <1>3, <1>5 DEF PoolInv, ReaperSparesWork, Quiet, Processing
<1>10. ReaperHoldsObject' /\ DeleterHoldsObject'
  BY <1>5 DEF PoolInv, ReaperHoldsObject, DeleterHoldsObject, reapVars, delVars
<1> QED
  BY <1>7, <1>8, <1>9, <1>10 DEF PoolInv

\* submit_user_input and the other submissions.
LEMMA SubmitInv ==
  ASSUME PoolInv, NEW i \in Ids, Submit(i)
  PROVE  PoolInv'
<1>1. Enqueue(i, "work", ~reaping[sessions[i]])
  BY DEF Submit
<1>2. shutReq' \in SUBSET Ids
  BY DEF Submit, PoolInv, TypeOK
<1> QED
  BY <1>1, <1>2, EnqueueInv

\* The shutdown submission of shutdown_session.
LEMMA ShutdownSubmitInv ==
  ASSUME PoolInv, NEW i \in Ids, ShutdownSubmit(i)
  PROVE  PoolInv'
<1>1. Enqueue(i, "shutdown", ~reaping[sessions[i]])
  BY DEF ShutdownSubmit
<1>2. shutReq' \in SUBSET Ids
  BY DEF ShutdownSubmit, PoolInv, TypeOK
<1> QED
  BY <1>1, <1>2, EnqueueInv

\* After its save the reaper holds an object whose document exists.
LEMMA ReapSavedInv ==
  ASSUME PoolInv, ReapSaved
  PROVE  PoolInv'
<1>1. reapObj \in Objs /\ pc[reapObj] \in TaskPcs /\ sid[reapObj] \in Ids
  BY DEF ReapSaved, PoolInv, ReaperHoldsObject, Bound, TaskPcs
<1>2. store \in [Ids -> SessionDoc] /\ approval[reapObj] \in BOOLEAN
  BY <1>1 DEF PoolInv, TypeOK
<1>3. /\ store' \in [Ids -> SessionDoc]
      /\ store'[sid[reapObj]].exists
  <2>1. store' \in [Ids -> SessionDoc]
    BY <1>1, <1>2, UpsertKeeps DEF ReapSaved, PersistBestEffort
  <2>2. store'[sid[reapObj]].exists
    BY <1>1, <1>2 DEF ReapSaved, Upsert
  <2> QED
    BY <2>1, <2>2
<1>4. UNCHANGED <<poolVars, objVars, shutReq, reapObj, cands, delVars>>
      /\ reapPc' = "evict"
  BY DEF ReapSaved
<1>5. TypeOK'
  BY <1>3, <1>4 DEF PoolInv, TypeOK, poolVars, objVars, delVars
<1>6. Registered' /\ Bound' /\ MarkerHoldsLock' /\ HolderExists'
  BY <1>4 DEF PoolInv, Registered, Bound, MarkerHoldsLock, HolderExists, Live,
     poolVars, objVars
<1>7. ReaperSparesWork'
  BY <1>4 DEF PoolInv, ReaperSparesWork, Quiet, Processing, objVars
<1>8. ReaperHoldsObject' /\ DeleterHoldsObject'
  BY <1>1, <1>3, <1>4 DEF PoolInv, ReaperHoldsObject, DeleterHoldsObject,
     objVars, delVars
<1> QED
  BY <1>5, <1>6, <1>7, <1>8 DEF PoolInv

\* The pop under the lock drops a registration, nothing else.
LEMMA ReapEvictInv ==
  ASSUME PoolInv, ReapEvict
  PROVE  PoolInv'
<1>1. reapObj \in Objs /\ reapPc = "evict" /\ lock = "free"
  BY DEF ReapEvict, PoolInv, ReaperHoldsObject
<1>2. TypeOK'
  BY <1>1 DEF ReapEvict, Unreap, PoolInv, TypeOK, delVars
<1>3. \A i \in Ids : sessions'[i] \in {sessions[i], NoObj}
  BY DEF ReapEvict, Unreap, PoolInv, TypeOK
<1>4. UNCHANGED <<lock, holder, sid, pc, queue, store, reapObj, delVars>>
  BY DEF ReapEvict
<1>5. Registered' /\ Bound' /\ HolderExists'
  BY <1>3, <1>4 DEF PoolInv, Registered, Bound, HolderExists, Live
<1>6. MarkerHoldsLock'
  BY <1>1, <1>4 DEF PoolInv, MarkerHoldsLock
<1>7. ReaperSparesWork'
  BY <1>1, <1>4 DEF ReapEvict, Unreap, PoolInv, TypeOK, ReaperSparesWork,
     Quiet, Processing
<1>8. ReaperHoldsObject' /\ DeleterHoldsObject'
  BY <1>1, <1>4 DEF ReapEvict, Unreap, PoolInv, ReaperHoldsObject,
     DeleterHoldsObject, delVars
<1> QED
  BY <1>2, <1>5, <1>6, <1>7, <1>8 DEF PoolInv

(***************************************************************************)
(* task.cancel() by the reaper or by a delete, which do not hold the lock:   *)
(* a cancelled marker gives the lock back, any other task leaves it alone.  *)
(***************************************************************************)
LEMMA CancelInv ==
  ASSUME PoolInv, NEW o \in Objs, pc[o] \in TaskPcs, Cancel(o),
         UNCHANGED <<sessions, sid, active, reaping, queue, approval, idle,
                     store, shutReq, reapObj, cands, delObj>>,
         reapPc' \in {reapPc, "joining"},
         reapPc' # reapPc => reapPc = "cleanup",
         delPc' \in [Ids -> {"no", "soft", "cleanup", "joining", "deleted"}],
         \A i \in Ids : delPc'[i] \in {delPc[i], "joining"}
                        /\ (delPc'[i] # delPc[i] => delPc[i] = "cleanup")
  PROVE  PoolInv'
<1>1. CASE pc[o] = "marking"
  <2>1. pc' = [pc EXCEPT ![o] = "done"] /\ lock' = "free" /\ holder' = NoObj
    BY <1>1 DEF Cancel, AfterCancel
  <2>2. store \in [Ids -> SessionDoc]
    BY DEF PoolInv, TypeOK
  <2> QED
    BY <1>1, <2>1, <2>2, MarkerLeaves
<1>2. CASE pc[o] # "marking"
  <2>1. PICK p \in AfterCancel(pc[o]) : pc' = [pc EXCEPT ![o] = p]
    BY DEF Cancel
  <2>p. /\ p \in TaskPcs \ {"marking"}
        /\ p \in {"busy", "stopping"} => p = pc[o]
    BY <1>2 DEF AfterCancel, TaskPcs
  <2>2. UNCHANGED poolVars
    BY <1>2 DEF Cancel, poolVars
  <2>3. TypeOK'
    BY <2>p, <2>1, <2>2 DEF PoolInv, TypeOK, poolVars
  <2>4. Registered' /\ Bound'
    BY <2>p, <2>1, <2>2 DEF PoolInv, TypeOK, Registered, Bound, Live, TaskPcs,
       poolVars
  <2>5. MarkerHoldsLock' /\ HolderExists'
    BY <2>p, <2>1, <2>2 DEF PoolInv, TypeOK, MarkerHoldsLock, HolderExists, Live,
       poolVars
  <2>6. ReaperSparesWork'
    BY <2>p, <2>1 DEF PoolInv, TypeOK, ReaperSparesWork, Quiet, Processing
  <2>7. ReaperHoldsObject' /\ DeleterHoldsObject'
    BY <2>p, <2>1 DEF PoolInv, TypeOK, ReaperHoldsObject, DeleterHoldsObject
  <2> QED
    BY <2>3, <2>4, <2>5, <2>6, <2>7 DEF PoolInv
<1> QED
  BY <1>1, <1>2

\* The reaper cancels the evicted object's task.
LEMMA ReapCancelInv ==
  ASSUME PoolInv, ReapCancel
  PROVE  PoolInv'
<1>1. reapObj \in Objs /\ pc[reapObj] \in TaskPcs
  BY DEF ReapCancel, PoolInv, ReaperHoldsObject
<1> QED
  BY <1>1, CancelInv DEF ReapCancel, delVars, PoolInv, TypeOK

\* delete_session cancels the task of the object it popped.
LEMMA DeleteCancelInv ==
  ASSUME PoolInv, NEW i \in Ids, DeleteCancel(i)
  PROVE  PoolInv'
<1>1. delObj[i] \in Objs
  BY DEF DeleteCancel, PoolInv, DeleterHoldsObject
<1>2. CASE pc[delObj[i]] \in TaskPcs
  BY <1>1, <1>2, CancelInv DEF DeleteCancel, reapVars, PoolInv, TypeOK
<1>3. CASE pc[delObj[i]] \notin TaskPcs
  <2>1. pc' = pc /\ UNCHANGED poolVars
    BY <1>1, <1>3 DEF DeleteCancel, Cancel, AfterCancel, TaskPcs, PoolInv, TypeOK,
       poolVars
  <2>2. UNCHANGED <<objVars, store, shutReq, reapVars, delObj>>
    BY <2>1 DEF DeleteCancel, objVars
  <2>3. delPc' = [delPc EXCEPT ![i] = "joining"] /\ delPc[i] = "cleanup"
    BY DEF DeleteCancel
  <2>4. TypeOK'
    BY <2>1, <2>2, <2>3 DEF PoolInv, TypeOK, poolVars, objVars, reapVars
  <2>5. Registered' /\ Bound' /\ MarkerHoldsLock' /\ HolderExists'
    BY <2>1, <2>2 DEF PoolInv, Registered, Bound, MarkerHoldsLock,
       HolderExists, Live, poolVars, objVars
  <2>6. ReaperSparesWork' /\ ReaperHoldsObject'
    BY <2>2 DEF PoolInv, ReaperSparesWork, ReaperHoldsObject, Quiet,
       Processing, objVars, reapVars
  <2>7. DeleterHoldsObject'
    BY <2>2, <2>3 DEF PoolInv, TypeOK, DeleterHoldsObject
  <2> QED
    BY <2>4, <2>5, <2>6, <2>7 DEF PoolInv
<1> QED
  BY <1>2, <1>3

---------------------------------------------------------------------------
(* The initial state satisfies the invariant: no session, no task, a free   *)
(* lock.                                                                    *)
LEMMA InitInv == Init => PoolInv
<1> SUFFICES ASSUME Init PROVE PoolInv
  OBVIOUS
<1>1. TypeOK
  BY PoolAssumption DEF Init, TypeOK, BuildPcs, SessionDoc, NoDoc
<1>2. Registered /\ Bound /\ MarkerHoldsLock /\ HolderExists
  BY DEF Init, Registered, Bound, MarkerHoldsLock, HolderExists, Live
<1>3. ReaperSparesWork /\ ReaperHoldsObject /\ DeleterHoldsObject
  BY DEF Init, ReaperSparesWork, ReaperHoldsObject, DeleterHoldsObject
<1> QED
  BY <1>1, <1>2, <1>3 DEF PoolInv

(* A step that changes nothing keeps the invariant.                         *)
LEMMA StutterInv ==
  ASSUME PoolInv, UNCHANGED vars
  PROVE  PoolInv'
<1>1. TypeOK'
  BY DEF vars, poolVars, objVars, reapVars, delVars, PoolInv, TypeOK
<1>2. Registered' /\ Bound' /\ MarkerHoldsLock' /\ HolderExists'
  BY DEF vars, poolVars, objVars, PoolInv, Registered, Bound, MarkerHoldsLock,
     HolderExists, Live
<1>3. ReaperSparesWork' /\ ReaperHoldsObject' /\ DeleterHoldsObject'
  BY DEF vars, objVars, reapVars, delVars, PoolInv, ReaperSparesWork, Quiet,
     Processing, ReaperHoldsObject, DeleterHoldsObject
<1> QED
  BY <1>1, <1>2, <1>3 DEF PoolInv

(* Every step of the pool keeps the invariant.                              *)
LEMMA StepInv == PoolInv /\ [Next]_vars => PoolInv'
<1> SUFFICES ASSUME PoolInv, [Next]_vars PROVE PoolInv'
  OBVIOUS
<1>1. ASSUME NEW i \in Ids, NEW o \in Objs, CreateAdmit(i, o) \/ LoadBegin(i, o)
      PROVE  PoolInv'
  BY <1>1, CreateAdmitInv, LoadBeginInv
<1>2. ASSUME NEW o \in Objs, LoadStep(o)
      PROVE  PoolInv'
  BY <1>2, LoadReadInv, LoadRecheckInv, StartAgentSessionInv DEF LoadStep
<1>3. ASSUME NEW o \in Objs, TaskStep(o)
      PROVE  PoolInv'
  BY <1>3, RunStartInv, DequeueInv, TurnEndInv, StopEndInv, TurnSavedInv,
     CleanedUpInv, EndMarkInv, EndMarkedInv DEF TaskStep
<1>4. ASSUME NEW i \in Ids,
             Submit(i) \/ ShutdownSubmit(i) \/ ShutdownWait(i) \/ DeletePop(i)
      PROVE  PoolInv'
  BY <1>4, SubmitInv, ShutdownSubmitInv, ShutdownWaitInv, DeletePopInv
<1>5. ASSUME NEW i \in Ids, DeleteStep(i)
      PROVE  PoolInv'
  BY <1>5, DeleteSoftInv, DeleteCancelInv, DeleteJoinInv DEF DeleteStep
<1>6. CASE ShutdownReturn \/ ShutdownExpire \/ ReaperSelect
  BY <1>6, ShutdownReturnInv, ShutdownExpireInv, ReaperSelectInv
<1>7. CASE SweepStep
  BY <1>7, ReapClaimInv, SweepEndInv, ReapSavedInv, ReapSaveFailedInv,
     ReapEvictInv, ReapCancelInv, ReapJoinInv DEF SweepStep
<1>8. CASE UNCHANGED vars
  BY <1>8, StutterInv
<1> QED
  BY <1>1, <1>2, <1>3, <1>4, <1>5, <1>6, <1>7, <1>8 DEF Next

(* PoolInv holds in every reachable state, whatever the constants.          *)
THEOREM PoolInvariant == Spec => []PoolInv
BY InitInv, StepInv, PTL DEF Spec

(* Every variable of the session pool keeps its type: in particular no       *)
(* session id is ever bound to something that is not an AgentSession.       *)
THEOREM PoolTypeCorrect == Spec => []TypeOK
<1>1. PoolInv => TypeOK
  BY DEF PoolInv
<1> QED
  BY <1>1, PoolInvariant, PTL

(* For any number of sessions, objects and queue slots, an AgentSession the  *)
(* reaper has claimed has no queued and no running submission.              *)
THEOREM ReaperNeverDropsWork == Spec => []ReaperSparesWork
<1>1. PoolInv => ReaperSparesWork
  BY DEF PoolInv
<1> QED
  BY <1>1, PoolInvariant, PTL

(* When the reaper has popped a session, its document is in the store.      *)
THEOREM EvictionResumable == Spec => []EvictedIsResumable
<1>1. PoolInv => EvictedIsResumable
  BY DEF PoolInv, ReaperHoldsObject, EvictedIsResumable
<1> QED
  BY <1>1, PoolInvariant, PTL

(* No step makes a soft-deleted document visible again: the only writers    *)
(* are the upserts, which keep the visibility, and the soft delete.         *)
LEMMA HiddenStep ==
  ASSUME PoolInv, Next
  PROVE  \A j \in Ids : store[j].exists /\ ~store[j].visible
                          => ~store'[j].visible
<1> DEFINE StaysHidden == \A j \in Ids : store[j].exists /\ ~store[j].visible
                                      => ~store'[j].visible
<1> SUFFICES StaysHidden
  OBVIOUS
<1>0. store \in [Ids -> SessionDoc]
  BY DEF PoolInv, TypeOK
<1>1. ASSUME NEW o \in Objs, pc[o] # "free", NEW st \in {"active", "ended"},
             NEW a \in BOOLEAN, PersistBestEffort(sid[o], st, a)
      PROVE  StaysHidden
  <2>1. sid[o] \in Ids
    BY <1>1 DEF PoolInv, Bound
  <2> QED
    BY <1>0, <1>1, <2>1, UpsertKeeps
<1>2. CASE UNCHANGED store
  BY <1>2
<1>3. ASSUME NEW o \in Objs, StartAgentSession(o)
      PROVE  StaysHidden
  <2>1. CASE PersistBestEffort(sid[o], "active", FALSE)
    BY <1>1, <1>3, <2>1 DEF StartAgentSession
  <2> QED
    BY <1>2, <1>3, <2>1 DEF StartAgentSession
<1>4. ASSUME NEW o \in Objs, TurnSaved(o)
      PROVE  StaysHidden
  BY <1>1, <1>4 DEF TurnSaved, PoolInv, TypeOK
<1>5. ASSUME NEW o \in Objs, EndMarked(o)
      PROVE  StaysHidden
  <2>1. sessions[sid[o]] \in Objs
    BY <1>5 DEF EndMarked, PoolInv, MarkerHoldsLock, Bound, Live, TypeOK
  <2> QED
    BY <1>1, <1>5, <2>1 DEF EndMarked, PoolInv, TypeOK
<1>6. CASE ReapSaved
  <2>1. reapObj \in Objs /\ pc[reapObj] # "free"
    BY <1>6 DEF ReapSaved, PoolInv, ReaperHoldsObject, TaskPcs
  <2> QED
    BY <1>1, <1>6, <2>1 DEF ReapSaved, PersistBestEffort, PoolInv, TypeOK
<1>7. ASSUME NEW i \in Ids, DeleteSoft(i)
      PROVE  StaysHidden
  BY <1>0, <1>7 DEF DeleteSoft, SessionDoc
<1>8. ASSUME NEW o \in Objs, LoadStep(o)
      PROVE  StaysHidden
  BY <1>2, <1>3, <1>8 DEF LoadStep, LoadRead, LoadRecheck
<1>9. ASSUME NEW o \in Objs, TaskStep(o)
      PROVE  StaysHidden
  BY <1>2, <1>4, <1>5, <1>9 DEF TaskStep, RunStart, Dequeue, TurnEnd, StopEnd,
     CleanedUp, EndMark
<1>10. CASE SweepStep
  BY <1>2, <1>6, <1>10 DEF SweepStep, ReapClaim, SweepEnd, ReapSaveFailed,
     ReapEvict, ReapCancel, ReapJoin
<1>11. ASSUME NEW i \in Ids, DeleteStep(i)
       PROVE  StaysHidden
  BY <1>2, <1>7, <1>11 DEF DeleteStep, DeleteCancel, DeleteJoin
<1>12. ASSUME NEW i \in Ids,
              Submit(i) \/ ShutdownSubmit(i) \/ ShutdownWait(i) \/ DeletePop(i)
       PROVE  StaysHidden
  BY <1>2, <1>12 DEF Submit, ShutdownSubmit, Enqueue, ShutdownWait, DeletePop
<1>13. ASSUME NEW i \in Ids, NEW o \in Objs,
              CreateAdmit(i, o) \/ LoadBegin(i, o)
       PROVE  StaysHidden
  BY <1>2, <1>13 DEF CreateAdmit, LoadBegin
<1>14. CASE ShutdownReturn \/ ShutdownExpire \/ ReaperSelect
  BY <1>2, <1>14 DEF ShutdownReturn, ShutdownExpire, ReaperSelect
<1> HIDE DEF StaysHidden
<1> QED
  BY <1>8, <1>9, <1>10, <1>11, <1>12, <1>13, <1>14 DEF Next

(* A soft-deleted session stays deleted in the store, whatever snapshots    *)
(* are still in flight.                                                     *)
THEOREM DeletedHidden == Spec => DeletedStaysHidden
<1>1. PoolInv /\ [Next]_vars =>
        [\A i \in Ids : store[i].exists /\ ~store[i].visible
                          => ~store'[i].visible]_store
  BY HiddenStep DEF vars
<1> QED
  BY <1>1, PoolInvariant, PTL DEF Spec, DeletedStaysHidden

---------------------------------------------------------------------------
(* A step on an object still under construction leaves alone who works.     *)
LEMMA ServedConstruction ==
  ASSUME PoolInv, ServedIsRegistered, NEW o \in Objs, pc[o] \in BuildPcs,
         NEW p \in BuildPcs \cup {"new"}, pc' = [pc EXCEPT ![o] = p],
         NEW s \in Ids \cup {NoId}, sid' = [sid EXCEPT ![o] = s],
         UNCHANGED queue,
         \A i \in Ids : sessions[i] # NoObj => sessions'[i] = sessions[i]
  PROVE  ServedIsRegistered'
<1>0. /\ sessions \in [Ids -> Objs \cup {NoObj}]
      /\ sid \in [Objs -> Ids \cup {NoId}]
      /\ pc \in [Objs -> BuildPcs \cup TaskPcs]
  BY DEF PoolInv, TypeOK
<1>1. \A i \in Ids : sessions[i] # o
  BY PoolAssumption DEF PoolInv, Registered, Live, BuildPcs, TaskPcs
<1>2. queue[o] = <<>>
  BY <1>1 DEF ServedIsRegistered, Quiet
<1>3. ASSUME NEW q \in Objs, ~Quiet(q)'
      PROVE  q # o /\ ~Quiet(q)
  BY <1>0, <1>2, <1>3 DEF Quiet, Processing, BuildPcs
<1>4. ASSUME NEW q \in Objs, ~Quiet(q)'
      PROVE  sid'[q] \in Ids /\ sessions'[sid'[q]] = q
  <2>1. q # o /\ sid[q] \in Ids /\ sessions[sid[q]] = q
    BY <1>3, <1>4 DEF ServedIsRegistered
  <2>2. sid'[q] = sid[q] /\ q # NoObj
    BY <1>0, <2>1, PoolAssumption
  <2> QED
    BY <2>1, <2>2
<1> QED
  BY <1>4 DEF ServedIsRegistered

(* A step that gives no quiet object work and moves no registration keeps   *)
(* who works.                                                               *)
LEMMA ServedQuiet ==
  ASSUME ServedIsRegistered, UNCHANGED <<sessions, sid>>,
         \A q \in Objs : Quiet(q) => Quiet(q)'
  PROVE  ServedIsRegistered'
BY DEF ServedIsRegistered

(* A task that moves anywhere but into a turn does not start to work.       *)
LEMMA QuietMove ==
  ASSUME PoolInv, NEW o \in Objs, NEW p \in BuildPcs \cup TaskPcs,
         p \in {"busy", "stopping"} => p = pc[o], pc' = [pc EXCEPT ![o] = p], UNCHANGED queue
  PROVE  \A q \in Objs : Quiet(q) => Quiet(q)'
BY DEF PoolInv, TypeOK, Quiet, Processing

(* While nothing is deleted, every step keeps work with the registered      *)
(* object: only the reaper pops sessions, and it pops quiet ones.           *)
LEMMA ServedStep ==
  ASSUME "delete" \notin Events, PoolInv, ServedIsRegistered, [Next]_vars
  PROVE  ServedIsRegistered'
<1>0. /\ sessions \in [Ids -> Objs \cup {NoObj}]
      /\ sid \in [Objs -> Ids \cup {NoId}]
      /\ pc \in [Objs -> BuildPcs \cup TaskPcs]
      /\ queue \in [Objs -> Seq({"work", "shutdown"})]
  BY DEF PoolInv, TypeOK
<1>1. ASSUME UNCHANGED <<pc, queue, sessions, sid>>
      PROVE  ServedIsRegistered'
  BY <1>1 DEF ServedIsRegistered, Quiet, Processing
<1>2. ASSUME NEW i \in Ids, NEW o \in Objs, CreateAdmit(i, o) \/ LoadBegin(i, o)
      PROVE  ServedIsRegistered'
  BY <1>2, ServedConstruction DEF CreateAdmit, LoadBegin, objVars, poolVars,
     BuildPcs
<1>3. ASSUME NEW o \in Objs, LoadRead(o) \/ LoadRecheck(o)
      PROVE  ServedIsRegistered'
  <2>1. /\ pc[o] \in BuildPcs
        /\ \E p \in BuildPcs : pc' = [pc EXCEPT ![o] = p]
        /\ UNCHANGED <<queue, sessions>>
    BY <1>3 DEF LoadRead, LoadRecheck, Discard, poolVars, BuildPcs
  <2>2. \E s \in Ids \cup {NoId} : sid' = [sid EXCEPT ![o] = s]
    <3>1. sid = [sid EXCEPT ![o] = sid[o]] /\ sid[o] \in Ids \cup {NoId}
      BY <1>0
    <3> QED
      BY <1>3, <3>1 DEF LoadRead, LoadRecheck, Discard
  <2> QED
    BY <2>1, <2>2, ServedConstruction
<1>4. ASSUME NEW o \in Objs, StartAgentSession(o)
      PROVE  ServedIsRegistered'
  <2>1. pc[o] \in BuildPcs /\ sid[o] \in Ids
    BY <1>4 DEF StartAgentSession, BuildPcs, PoolInv, Bound
  <2>2. \E p \in BuildPcs \cup {"new"} : pc' = [pc EXCEPT ![o] = p]
    BY <1>4 DEF StartAgentSession, Discard, BuildPcs
  <2>3. \E s \in Ids \cup {NoId} : sid' = [sid EXCEPT ![o] = s]
    <3>1. sid = [sid EXCEPT ![o] = sid[o]]
      BY <1>0
    <3> QED
      BY <1>4, <2>1, <3>1 DEF StartAgentSession, Discard
  <2>4. \A i \in Ids : sessions[i] # NoObj => sessions'[i] = sessions[i]
    BY <1>0, <1>4, <2>1 DEF StartAgentSession, Live
  <2>5. UNCHANGED queue
    BY <1>4 DEF StartAgentSession
  <2> QED
    BY <2>1, <2>2, <2>3, <2>4, <2>5, ServedConstruction
<1>5. ASSUME NEW o \in Objs, Dequeue(o)
      PROVE  ServedIsRegistered'
  <2>1. ~Quiet(o)
    BY <1>5 DEF Dequeue, Quiet
  <2>2. UNCHANGED <<sessions, sid>>
    BY <1>5 DEF Dequeue, poolVars
  <2>3. \A q \in Objs : q # o => (Quiet(q) => Quiet(q)')
    BY <1>0, <1>5 DEF Dequeue, Quiet, Processing
  <2> QED
    BY <2>1, <2>2, <2>3 DEF ServedIsRegistered
<1>6. ASSUME NEW o \in Objs, TaskStep(o), ~Dequeue(o)
      PROVE  ServedIsRegistered'
  <2>1. \E p \in TaskPcs \ {"busy", "stopping"} : pc' = [pc EXCEPT ![o] = p]
    BY <1>6 DEF TaskStep, RunStart, TurnEnd, StopEnd, TurnSaved, CleanedUp,
       EndMark, EndMarked, TaskPcs
  <2>2. UNCHANGED <<queue, sessions, sid>>
    BY <1>6 DEF TaskStep, RunStart, TurnEnd, StopEnd, TurnSaved, CleanedUp,
       EndMark, EndMarked, poolVars
  <2> QED
    BY <2>1, <2>2, QuietMove, ServedQuiet
<1>7. ASSUME NEW i \in Ids, Submit(i) \/ ShutdownSubmit(i)
      PROVE  ServedIsRegistered'
  <2>1. PICK op \in {"work", "shutdown"} :
           Enqueue(i, op, ~reaping[sessions[i]])
    BY <1>7 DEF Submit, ShutdownSubmit
  <2> DEFINE o == sessions[i]
  <2>2. o \in Objs /\ sid[o] = i
    BY <2>1, <1>0 DEF Enqueue, Live, PoolInv, Registered
  <2>3. UNCHANGED <<sessions, sid, pc>>
    BY <2>1 DEF Enqueue, poolVars
  <2>4. \A q \in Objs : q # o => (Quiet(q) => Quiet(q)')
    BY <1>0, <2>1, <2>3 DEF Enqueue, Quiet, Processing
  <2> QED
    BY <2>2, <2>3, <2>4 DEF ServedIsRegistered
<1>8. CASE ReapEvict
  <2>1. UNCHANGED <<pc, queue, sid>>
    BY <1>8 DEF ReapEvict
  <2>2. \/ UNCHANGED sessions
        \/ /\ sessions[sid[reapObj]] = reapObj /\ Quiet(reapObj)
           /\ sessions' = [sessions EXCEPT ![sid[reapObj]] = NoObj]
    BY <1>8 DEF ReapEvict
  <2>3. ASSUME NEW q \in Objs, ~Quiet(q)
        PROVE  sessions'[sid[q]] = sessions[sid[q]]
    BY <1>0, <2>2, <2>3 DEF ServedIsRegistered
  <2> QED
    BY <2>1, <2>3 DEF ServedIsRegistered, Quiet, Processing
<1>9. ASSUME NEW o \in Objs, Cancel(o), UNCHANGED <<sessions, sid, queue>>
      PROVE  ServedIsRegistered'
  <2>2. PICK p \in AfterCancel(pc[o]) : pc' = [pc EXCEPT ![o] = p]
    BY <1>9 DEF Cancel
  <2>1. /\ p \in BuildPcs \cup TaskPcs
        /\ p \in {"busy", "stopping"} => p = pc[o]
    BY <1>0 DEF AfterCancel, BuildPcs, TaskPcs
  <2> QED
    BY <1>9, <2>1, <2>2, QuietMove, ServedQuiet
<1>10. CASE ReapCancel
  <2>1. reapObj \in Objs
    BY <1>10 DEF ReapCancel, PoolInv, ReaperHoldsObject
  <2> QED
    BY <1>9, <1>10, <2>1 DEF ReapCancel
<1>11. ASSUME NEW i \in Ids, DeleteCancel(i)
       PROVE  ServedIsRegistered'
  <2>1. delObj[i] \in Objs
    BY <1>11 DEF DeleteCancel, PoolInv, DeleterHoldsObject
  <2> QED
    BY <1>9, <1>11, <2>1 DEF DeleteCancel
<1>12. CASE ShutdownExpire
  <2>1. holder \in Objs
    BY <1>12 DEF ShutdownExpire, PoolInv, HolderExists
  <2>3. PICK p \in AfterCancel(pc[holder]) : pc' = [pc EXCEPT ![holder] = p]
    BY <1>12 DEF ShutdownExpire
  <2>2. /\ p \in BuildPcs \cup TaskPcs
        /\ p \in {"busy", "stopping"} => p = pc[holder]
    BY <1>0, <2>1 DEF AfterCancel, BuildPcs, TaskPcs
  <2> QED
    BY <1>12, <2>1, <2>2, <2>3, QuietMove, ServedQuiet DEF ShutdownExpire
<1>13. CASE ShutdownReturn \/ ReaperSelect
  BY <1>1, <1>13 DEF ShutdownReturn, ReaperSelect, objVars, poolVars
<1>14. CASE SweepStep /\ ~ReapEvict /\ ~ReapCancel
  BY <1>1, <1>14 DEF SweepStep, ReapClaim, SweepEnd, ReapSaved, ReapSaveFailed,
     ReapJoin, poolVars, objVars
<1>15. ASSUME NEW i \in Ids, ShutdownWait(i) \/ DeletePop(i)
       PROVE  ServedIsRegistered'
  BY <1>1, <1>15 DEF ShutdownWait, DeletePop, objVars
<1>16. ASSUME NEW i \in Ids, DeleteStep(i)
       PROVE  ServedIsRegistered'
  BY <1>1, <1>11, <1>16 DEF DeleteStep, DeleteSoft, DeleteJoin, poolVars,
     objVars
<1>17. CASE UNCHANGED vars
  BY <1>1, <1>17 DEF vars, poolVars, objVars
<1> QED
  BY <1>2, <1>3, <1>4, <1>5, <1>6, <1>7, <1>8, <1>10, <1>12, <1>13, <1>14,
     <1>15, <1>16, <1>17 DEF Next, LoadStep, SweepStep

(* As long as no session is deleted, no two AgentSessions of one id ever    *)
(* hold or execute submissions at the same time, for any number of ids and  *)
(* restorations.                                                            *)
THEOREM OneServerPerSession ==
  ASSUME "delete" \notin Events
  PROVE  Spec => []SingleServer
<1>1. Init => ServedIsRegistered
  BY DEF Init, ServedIsRegistered, Quiet, Processing
<1>2. PoolInv /\ ServedIsRegistered /\ [Next]_vars => ServedIsRegistered'
  BY ServedStep
<1>3. ServedIsRegistered => SingleServer
  BY DEF ServedIsRegistered, SingleServer
<1> QED
  BY <1>1, <1>2, <1>3, PoolInvariant, PTL DEF Spec

---------------------------------------------------------------------------
(***************************************************************************)
(* No zombie, as long as shutdown_session is not called (its cancellation    *)
(* of a task that waits for the lock leaves a registered object which looks   *)
(* alive): a task ends only after it has deactivated the object that is        *)
(* registered under its id, and what the reaper and delete_session cancel is   *)
(* no longer registered.                                                    *)
(***************************************************************************)
NoShutdown == shutReq = {} /\ lock \notin {"shutdown", "expired"}

EndedIsInactive ==
  \A i \in Ids : Live(i) /\ pc[sessions[i]] \in {"marking", "done"} => ~active[sessions[i]]

ReapedIsGone == reapPc = "cleanup" => \A i \in Ids : sessions[i] # reapObj

DeletedIsGone ==
  \A i \in Ids : delPc[i] \in {"soft", "cleanup"} /\ delObj[i] # NoObj =>
    pc[delObj[i]] \in TaskPcs /\ \A j \in Ids : sessions[j] # delObj[i]

ZombieInv == NoShutdown /\ EndedIsInactive /\ ReapedIsGone /\ DeletedIsGone

\* A step of one object, of which it has no say in the registry: it moves to a place
\* other than the end, or is not registered, or has been deactivated.
LEMMA OneMoves ==
  ASSUME PoolInv, ZombieInv, NEW o \in Objs, NEW p \in BuildPcs \cup TaskPcs,
         pc' = [pc EXCEPT ![o] = p],
         pc[o] \in TaskPcs => p \in TaskPcs,
         \/ p \notin {"marking", "done"}
         \/ \A i \in Ids : sessions[i] # o
         \/ ~active'[o],
         \A q \in Objs : active'[q] => active[q],
         shutReq' = shutReq, lock' \in {lock, "free", "marking"},
         UNCHANGED <<sessions, delObj>>,
         reapPc' = "cleanup" => reapPc = "cleanup" /\ reapObj' = reapObj,
         \A i \in Ids : delPc'[i] \in {"soft", "cleanup"} => delPc[i] \in {"soft", "cleanup"}
  PROVE  ZombieInv'
<1>1. NoShutdown'
  BY DEF ZombieInv, NoShutdown
<1>2. EndedIsInactive'
  <2> SUFFICES ASSUME NEW i \in Ids, sessions[i] # NoObj, pc'[sessions[i]] \in {"marking", "done"}
               PROVE  ~active'[sessions[i]]
    BY DEF EndedIsInactive, Live
  <2>1. sessions[i] \in Objs
    BY DEF PoolInv, TypeOK
  <2>2. CASE sessions[i] = o
    BY <2>2 DEF PoolInv, TypeOK
  <2>3. CASE sessions[i] # o
    <3>1. pc'[sessions[i]] = pc[sessions[i]]
      BY <2>1, <2>3 DEF PoolInv, TypeOK
    <3>2. ~active[sessions[i]]
      BY <3>1 DEF ZombieInv, EndedIsInactive, Live
    <3> QED
      BY <2>1, <3>2
  <2> QED
    BY <2>2, <2>3
<1>3. ReapedIsGone'
  BY DEF ZombieInv, ReapedIsGone
<1>4. DeletedIsGone'
  BY DEF ZombieInv, DeletedIsGone, PoolInv, TypeOK
<1> QED
  BY <1>1, <1>2, <1>3, <1>4 DEF ZombieInv

\* A registered object is registered under its own id, once.
LEMMA RegisteredOnce ==
  ASSUME PoolInv, NEW i \in Ids, NEW o \in Objs, sessions[i] = o
  PROVE  sid[o] = i /\ pc[o] \in TaskPcs /\ Live(i)
BY PoolAssumption DEF PoolInv, Registered, Live

LEMMA TaskZombie ==
  ASSUME PoolInv, ZombieInv, NEW o \in Objs, TaskStep(o)
  PROVE  ZombieInv'
<1>1. /\ shutReq' = shutReq /\ lock' \in {lock, "free", "marking"}
      /\ UNCHANGED <<sessions, delObj, delPc, reapPc, reapObj>>
  BY DEF TaskStep, RunStart, Dequeue, TurnEnd, StopEnd, TurnSaved, CleanedUp, EndMark, EndMarked,
         poolVars, reapVars, delVars
<1>2. \A q \in Objs : active'[q] => active[q]
  BY DEF TaskStep, RunStart, Dequeue, TurnEnd, StopEnd, TurnSaved, CleanedUp, EndMark, EndMarked,
         PoolInv, TypeOK
<1>3. pc[o] \in TaskPcs /\ sid[o] \in Ids
  <2>1. pc[o] \in TaskPcs /\ pc[o] # "free"
    BY DEF TaskStep, RunStart, Dequeue, TurnEnd, StopEnd, TurnSaved, CleanedUp, EndMark, EndMarked,
           TaskPcs
  <2> QED
    BY <2>1 DEF PoolInv, Bound
<1>4. CASE \/ Dequeue(o) \/ TurnEnd(o) \/ StopEnd(o) \/ TurnSaved(o) \/ CleanedUp(o)
  <2>1. \E p \in TaskPcs \ {"marking", "done"} : pc' = [pc EXCEPT ![o] = p]
    BY <1>4 DEF Dequeue, TurnEnd, StopEnd, TurnSaved, CleanedUp, TaskPcs
  <2> QED
    BY <1>1, <1>2, <2>1, OneMoves
<1>5. CASE RunStart(o)
  <2>1. PICK p \in {"done", "wait", "cleanup"} : /\ pc' = [pc EXCEPT ![o] = p]
                                                 /\ p = "done" => ~Live(sid[o])
    BY <1>5 DEF RunStart
  <2>2. p \in TaskPcs
    BY DEF TaskPcs
  <2>3. p # "done" \/ \A i \in Ids : sessions[i] # o
    BY <2>1, RegisteredOnce
  <2> QED
    BY <1>1, <1>2, <2>1, <2>2, <2>3, OneMoves
<1>6. CASE EndMark(o)
  <2>1. CASE ~Live(sid[o])
    <3>1. pc' = [pc EXCEPT ![o] = "done"] /\ "done" \in TaskPcs
      BY <1>6, <2>1 DEF EndMark, TaskPcs
    <3>2. \A i \in Ids : sessions[i] # o
      BY <2>1, RegisteredOnce
    <3> QED
      BY <1>1, <1>2, <3>1, <3>2, OneMoves
  <2>2. CASE Live(sid[o])
    <3>1. pc' = [pc EXCEPT ![o] = "marking"] /\ "marking" \in TaskPcs
      BY <1>6, <2>2 DEF EndMark, TaskPcs
    <3>2. active' = [active EXCEPT ![sessions[sid[o]]] = FALSE]
      BY <1>6, <2>2 DEF EndMark
    <3>3. (\A i \in Ids : sessions[i] # o) \/ ~active'[o]
      <4> SUFFICES ASSUME NEW i \in Ids, sessions[i] = o PROVE ~active'[o]
        OBVIOUS
      <4>1. sessions[sid[o]] = o
        BY RegisteredOnce
      <4> QED
        BY <3>2, <4>1 DEF PoolInv, TypeOK
    <3> QED
      BY <1>1, <1>2, <3>1, <3>3, OneMoves
  <2> QED
    BY <2>1, <2>2
<1>7. CASE EndMarked(o)
  <2>1. pc' = [pc EXCEPT ![o] = "done"] /\ pc[o] = "marking" /\ "done" \in TaskPcs /\ UNCHANGED active
    BY <1>7 DEF EndMarked, TaskPcs
  <2>2. (\A i \in Ids : sessions[i] # o) \/ ~active'[o]
    BY <2>1, RegisteredOnce DEF ZombieInv, EndedIsInactive
  <2> QED
    BY <1>1, <1>2, <2>1, <2>2, OneMoves
<1> QED
  BY <1>4, <1>5, <1>6, <1>7 DEF TaskStep

\* An object that is built: until it is registered it has no task.
LEMMA BuildZombie ==
  ASSUME PoolInv, ZombieInv, NEW o \in Objs,
         (\E i \in Ids : CreateAdmit(i, o) \/ LoadBegin(i, o)) \/ LoadRead(o) \/ LoadRecheck(o)
  PROVE  ZombieInv'
<1>1. pc[o] \notin TaskPcs
  BY DEF CreateAdmit, LoadBegin, LoadRead, LoadRecheck, TaskPcs
<1>2. \E p \in BuildPcs : pc' = [pc EXCEPT ![o] = p] /\ p \notin {"marking", "done"}
  BY DEF CreateAdmit, LoadBegin, LoadRead, LoadRecheck, Discard, BuildPcs
<1>3. UNCHANGED <<sessions, lock, active, shutReq, reapPc, reapObj, delPc, delObj>>
  BY DEF CreateAdmit, LoadBegin, LoadRead, LoadRecheck, poolVars, reapVars, delVars
<1> QED
  BY <1>1, <1>2, <1>3, OneMoves

LEMMA StartZombie ==
  ASSUME PoolInv, ZombieInv, NEW o \in Objs, StartAgentSession(o)
  PROVE  ZombieInv'
<1> DEFINE i == sid[o]
<1>1. /\ pc[o] \in {"building", "restoring"} /\ pc[o] \notin TaskPcs
      /\ UNCHANGED <<lock, active, shutReq, reapPc, reapObj, delPc, delObj>>
  BY DEF StartAgentSession, TaskPcs, reapVars, delVars
<1>2. CASE Discard(o) /\ UNCHANGED sessions
  <2>1. pc' = [pc EXCEPT ![o] = "free"] /\ "free" \in BuildPcs
    BY <1>2 DEF Discard, BuildPcs
  <2> QED
    BY <1>1, <1>2, <2>1, OneMoves
<1>3. CASE ~Live(i) /\ sessions' = [sessions EXCEPT ![i] = o] /\ pc' = [pc EXCEPT ![o] = "new"]
  <2>1. i \in Ids /\ (\A j \in Ids : sessions[j] # o)
        /\ (reapPc \notin {"sleep", "sweep"} => reapObj # o)
    BY <1>1, UnderConstruction
  <2>2. NoShutdown'
    BY <1>1 DEF ZombieInv, NoShutdown
  <2>3. EndedIsInactive'
    BY <1>1, <1>3, <2>1 DEF ZombieInv, EndedIsInactive, Live, PoolInv, TypeOK
  <2>4. ReapedIsGone'
    BY <1>1, <1>3, <2>1 DEF ZombieInv, ReapedIsGone, PoolInv, TypeOK
  <2>5. DeletedIsGone'
    <3> SUFFICES ASSUME NEW j \in Ids, delPc[j] \in {"soft", "cleanup"}, delObj[j] # NoObj
                 PROVE  pc'[delObj[j]] \in TaskPcs /\ \A k \in Ids : sessions'[k] # delObj[j]
      BY <1>1 DEF DeletedIsGone
    <3>1. pc[delObj[j]] \in TaskPcs /\ \A k \in Ids : sessions[k] # delObj[j]
      BY DEF ZombieInv, DeletedIsGone
    <3>2. delObj[j] # o /\ delObj[j] \in Objs
      BY <1>1, <3>1 DEF PoolInv, TypeOK
    <3> QED
      BY <1>3, <2>1, <3>1, <3>2 DEF PoolInv, TypeOK
  <2> QED
    BY <2>2, <2>3, <2>4, <2>5 DEF ZombieInv
<1> QED
  BY <1>1, <1>2, <1>3 DEF StartAgentSession

\* An object is popped, by the reaper or by delete_session.
LEMMA PopZombie ==
  ASSUME PoolInv, ZombieInv, NEW i \in Ids, sessions' = [sessions EXCEPT ![i] = NoObj],
         \A q \in Objs : active'[q] => active[q],
         UNCHANGED <<lock, shutReq, pc>>
  PROVE  /\ NoShutdown' /\ EndedIsInactive'
         /\ \A j \in Ids : sessions'[j] # NoObj => sessions'[j] = sessions[j]
         /\ sessions[i] # NoObj => \A j \in Ids : sessions'[j] # sessions[i]
<1>1. \A j \in Ids : sessions'[j] # NoObj => sessions'[j] = sessions[j] /\ sessions[j] \in Objs
  BY DEF PoolInv, TypeOK
<1>2. NoShutdown'
  BY DEF ZombieInv, NoShutdown
<1>3. EndedIsInactive'
  BY <1>1 DEF ZombieInv, EndedIsInactive, Live
<1>4. ASSUME sessions[i] # NoObj, NEW j \in Ids PROVE sessions'[j] # sessions[i]
  <2>1. sessions[i] \in Objs
    BY <1>4 DEF PoolInv, TypeOK
  <2>2. sessions[j] = sessions[i] => j = i
    BY <2>1, RegisteredOnce
  <2> QED
    BY <1>4, <2>2 DEF PoolInv, TypeOK
<1> QED
  BY <1>1, <1>2, <1>3, <1>4

LEMMA ReapEvictZombie ==
  ASSUME PoolInv, ZombieInv, ReapEvict
  PROVE  ZombieInv'
<1>1. UNCHANGED <<lock, pc, shutReq, reapObj, delPc, delObj>>
  BY DEF ReapEvict, delVars
<1>2. reapObj \in Objs /\ sid[reapObj] \in Ids
  <2>1. reapObj \in Objs /\ pc[reapObj] \in TaskPcs
    BY DEF ReapEvict, PoolInv, ReaperHoldsObject
  <2> QED
    BY <2>1 DEF PoolInv, Bound, TaskPcs
<1>3. CASE UNCHANGED <<sessions, active>> /\ reapPc' = "sweep"
  BY <1>1, <1>3 DEF ZombieInv, NoShutdown, EndedIsInactive, ReapedIsGone, DeletedIsGone, Live
<1>4. CASE /\ sessions[sid[reapObj]] = reapObj
           /\ sessions' = [sessions EXCEPT ![sid[reapObj]] = NoObj]
           /\ active' = [active EXCEPT ![reapObj] = FALSE]
  <2>1. \A q \in Objs : active'[q] => active[q]
    BY <1>4 DEF PoolInv, TypeOK
  <2>2. /\ NoShutdown' /\ EndedIsInactive'
        /\ \A j \in Ids : sessions'[j] # NoObj => sessions'[j] = sessions[j]
        /\ \A j \in Ids : sessions'[j] # reapObj
    BY <1>1, <1>2, <1>4, <2>1, PopZombie, PoolAssumption
  <2>3. ReapedIsGone'
    BY <1>1, <2>2 DEF ReapedIsGone
  <2>4. DeletedIsGone'
    BY <1>1, <2>2 DEF ZombieInv, DeletedIsGone
  <2> QED
    BY <2>2, <2>3, <2>4 DEF ZombieInv
<1> QED
  BY <1>3, <1>4 DEF ReapEvict, Unreap

LEMMA DeletePopZombie ==
  ASSUME PoolInv, ZombieInv, NEW i \in Ids, DeletePop(i)
  PROVE  ZombieInv'
<1>1. /\ sessions' = [sessions EXCEPT ![i] = NoObj]
      /\ delObj' = [delObj EXCEPT ![i] = sessions[i]]
      /\ delPc' = [delPc EXCEPT ![i] = "soft"]
      /\ UNCHANGED <<lock, pc, active, shutReq, reapPc, reapObj>>
  BY DEF DeletePop, objVars, reapVars
<1>2. /\ NoShutdown' /\ EndedIsInactive'
      /\ \A j \in Ids : sessions'[j] # NoObj => sessions'[j] = sessions[j]
      /\ sessions[i] # NoObj => \A j \in Ids : sessions'[j] # sessions[i]
  BY <1>1, PopZombie
<1>3. ReapedIsGone'
  <2>1. reapPc = "cleanup" => reapObj # NoObj
    BY PoolAssumption DEF PoolInv, ReaperHoldsObject
  <2> QED
    BY <1>1, <1>2, <2>1 DEF ZombieInv, ReapedIsGone
<1>4. DeletedIsGone'
  <2> SUFFICES ASSUME NEW j \in Ids, delPc'[j] \in {"soft", "cleanup"}, delObj'[j] # NoObj
               PROVE  pc[delObj'[j]] \in TaskPcs /\ \A k \in Ids : sessions'[k] # delObj'[j]
    BY <1>1 DEF DeletedIsGone
  <2>1. CASE j = i
    <3>1. delObj'[j] = sessions[i] /\ sessions[i] \in Objs
      BY <1>1, <2>1 DEF PoolInv, TypeOK
    <3> QED
      BY <1>2, <3>1, RegisteredOnce
  <2>2. CASE j # i
    <3>1. delPc'[j] = delPc[j] /\ delObj'[j] = delObj[j]
      BY <1>1, <2>2 DEF PoolInv, TypeOK
    <3> QED
      BY <1>2, <3>1 DEF ZombieInv, DeletedIsGone
  <2> QED
    BY <2>1, <2>2
<1> QED
  BY <1>2, <1>3, <1>4 DEF ZombieInv

\* What is cancelled is not registered any more.
LEMMA CancelZombie ==
  ASSUME PoolInv, ZombieInv, NEW o \in Objs, Cancel(o), pc[o] \in TaskPcs,
         \A i \in Ids : sessions[i] # o,
         UNCHANGED <<sessions, active, shutReq, delObj>>,
         reapPc' = "cleanup" => reapPc = "cleanup" /\ reapObj' = reapObj,
         \A i \in Ids : delPc'[i] \in {"soft", "cleanup"} => delPc[i] \in {"soft", "cleanup"}
  PROVE  ZombieInv'
<1>1. PICK p \in AfterCancel(pc[o]) : pc' = [pc EXCEPT ![o] = p]
  BY DEF Cancel
<1>2. p \in TaskPcs
  BY DEF AfterCancel, TaskPcs
<1>3. lock' \in {lock, "free"}
  BY DEF Cancel
<1> QED
  BY <1>1, <1>2, <1>3, OneMoves

LEMMA DeleteZombie ==
  ASSUME PoolInv, ZombieInv, NEW i \in Ids, DeleteStep(i)
  PROVE  ZombieInv'
<1>1. CASE DeleteSoft(i) \/ DeleteJoin(i)
  <2>1. UNCHANGED <<sessions, lock, pc, active, shutReq, reapPc, reapObj, delObj>>
    BY <1>1 DEF DeleteSoft, DeleteJoin, poolVars, objVars, reapVars
  <2>2. \A j \in Ids : delPc'[j] \in {"soft", "cleanup"} => delPc[j] \in {"soft", "cleanup"}
    BY <1>1 DEF DeleteSoft, DeleteJoin, PoolInv, TypeOK
  <2> QED
    BY <2>1, <2>2 DEF ZombieInv, NoShutdown, EndedIsInactive, ReapedIsGone, DeletedIsGone, Live
<1>2. CASE DeleteCancel(i)
  <2>1. /\ delPc[i] = "cleanup" /\ Cancel(delObj[i])
        /\ delPc' = [delPc EXCEPT ![i] = "joining"]
        /\ UNCHANGED <<sessions, active, shutReq, reapPc, reapObj, delObj>>
    BY <1>2 DEF DeleteCancel, reapVars
  <2>2. delObj[i] \in Objs /\ delObj[i] # NoObj
    BY <2>1, PoolAssumption DEF PoolInv, DeleterHoldsObject
  <2>3. pc[delObj[i]] \in TaskPcs /\ \A j \in Ids : sessions[j] # delObj[i]
    BY <2>1, <2>2 DEF ZombieInv, DeletedIsGone
  <2>4. \A j \in Ids : delPc'[j] \in {"soft", "cleanup"} => delPc[j] \in {"soft", "cleanup"}
    BY <2>1 DEF PoolInv, TypeOK
  <2> QED
    BY <2>1, <2>2, <2>3, <2>4, CancelZombie
<1> QED
  BY <1>1, <1>2 DEF DeleteStep

LEMMA ReapZombie ==
  ASSUME PoolInv, ZombieInv, ReaperSelect \/ (SweepStep /\ ~ReapEvict)
  PROVE  ZombieInv'
<1>1. CASE ~ReapCancel
  <2>1. UNCHANGED <<sessions, lock, pc, active, shutReq, delPc, delObj>> /\ reapPc' # "cleanup"
    BY <1>1 DEF ReaperSelect, SweepStep, ReapClaim, SweepEnd, ReapSaved, ReapSaveFailed, Unreap,
                ReapJoin, poolVars, objVars, delVars
  <2> QED
    BY <2>1 DEF ZombieInv, NoShutdown, EndedIsInactive, ReapedIsGone, DeletedIsGone, Live
<1>2. CASE ReapCancel
  <2>1. /\ reapPc = "cleanup" /\ Cancel(reapObj) /\ reapPc' = "joining"
        /\ UNCHANGED <<sessions, active, shutReq, delPc, delObj>>
    BY <1>2 DEF ReapCancel, delVars
  <2>2. reapObj \in Objs /\ pc[reapObj] \in TaskPcs
    BY <2>1 DEF PoolInv, ReaperHoldsObject
  <2>3. \A i \in Ids : sessions[i] # reapObj
    BY <2>1 DEF ZombieInv, ReapedIsGone
  <2> QED
    BY <2>1, <2>2, <2>3, CancelZombie
<1> QED
  BY <1>1, <1>2

LEMMA ZombieStep ==
  ASSUME "shutdown" \notin Events, PoolInv, ZombieInv, [Next]_vars
  PROVE  ZombieInv'
<1>1. ASSUME NEW i \in Ids, Submit(i) \/ ShutdownSubmit(i) \/ ShutdownWait(i) PROVE ZombieInv'
  <2>1. Submit(i)
    BY <1>1 DEF ShutdownSubmit, ShutdownWait, ZombieInv, NoShutdown
  <2>2. UNCHANGED <<sessions, lock, pc, active, shutReq, reapPc, reapObj, delPc, delObj>>
    BY <2>1 DEF Submit, Enqueue, poolVars, reapVars, delVars
  <2> QED
    BY <2>2 DEF ZombieInv, NoShutdown, EndedIsInactive, ReapedIsGone, DeletedIsGone, Live
<1>2. ~ShutdownReturn /\ ~ShutdownExpire
  BY DEF ShutdownReturn, ShutdownExpire, ZombieInv, NoShutdown
<1>3. CASE UNCHANGED vars
  BY <1>3 DEF vars, poolVars, objVars, reapVars, delVars, ZombieInv, NoShutdown, EndedIsInactive,
              ReapedIsGone, DeletedIsGone, Live
<1> QED
  BY <1>1, <1>2, <1>3, BuildZombie, StartZombie, TaskZombie, ReapEvictZombie, ReapZombie,
     DeletePopZombie, DeleteZombie DEF Next, LoadStep

(* As long as shutdown_session is not called, a registered session whose     *)
(* task is over looks inactive, so that submit refuses it.  Nothing is said   *)
(* of the steps between the end of the loop and its mark, in which a          *)
(* submission is accepted and never read.                                    *)
THEOREM EndedSessionsRefuse ==
  ASSUME "shutdown" \notin Events
  PROVE  Spec => []EndedIsRefused
<1>1. Init => ZombieInv
  BY DEF Init, ZombieInv, NoShutdown, EndedIsInactive, ReapedIsGone, DeletedIsGone, Live
<1>2. PoolInv /\ ZombieInv /\ [Next]_vars => ZombieInv'
  BY ZombieStep
<1>3. ZombieInv => EndedIsRefused
  BY DEF ZombieInv, EndedIsInactive, EndedIsRefused
<1> QED
  BY <1>1, <1>2, <1>3, PoolInvariant, PTL DEF Spec

---------------------------------------------------------------------------
(***************************************************************************)
(* The life of a session                                                   *)
(* SessionPool implements SessionLife: every step of the pool is a step of a   *)
(* session's life or none.  Besides PoolInv this takes that nobody knows a  *)
(* session which is being created (BuiltIsUnknown), so that its installation *)
(* is the first that the session has.                                      *)
(***************************************************************************)

\* the parts of a session's life that a step leaves alone
LEMMA HostsSame ==
  ASSUME \A p \in Objs : /\ pc'[p] \in TaskPcs <=> pc[p] \in TaskPcs
                         /\ pc[p] \in TaskPcs => sid'[p] = sid[p]
  PROVE  Hosts' = Hosts
BY DEF Hosts

LEMMA FoundSame ==
  ASSUME \A p \in Objs :
           /\ pc'[p] \in {"loaded", "restoring"} <=> pc[p] \in {"loaded", "restoring"}
           /\ pc[p] \in {"loaded", "restoring"} => sid'[p] = sid[p]
  PROVE  Found' = Found
BY DEF Found

LEMMA WorkingSame ==
  ASSUME \A p \in Objs : queue'[p] = queue[p] /\ (Processing(p)' <=> Processing(p))
  PROVE  Working' = Working
<1>1. \A p \in Objs : Quiet(p)' <=> Quiet(p)
  BY DEF Quiet
<1> QED BY <1>1 DEF Working

LEMMA StoreSame == ASSUME UNCHANGED store PROVE Stored' = Stored /\ Hidden' = Hidden
BY DEF Stored, Hidden

LEMMA DeletingSame == ASSUME UNCHANGED delPc PROVE Deleting' = Deleting
BY DEF Deleting

\* a snapshot stores its session, and hides or reveals none
LEMMA SavedIs ==
  ASSUME store \in [Ids -> SessionDoc], NEW i \in Ids,
         NEW st \in {"active", "ended"}, NEW appr \in BOOLEAN,
         PersistBestEffort(i, st, appr)
  PROVE  /\ Stored' = Stored \/ Stored' = Stored \cup {i}
         /\ Hidden' = Hidden
         /\ \A j \in Ids \ {i} : store'[j] = store[j]
<1>1. CASE UNCHANGED store
  BY <1>1, StoreSame
<1>2. CASE Upsert(i, st, appr)
  <2> DEFINE doc == [exists |-> TRUE, visible |-> store[i].exists => store[i].visible,
                     status |-> st, approval |-> appr]
  <2>1. store' = [store EXCEPT ![i] = doc]
    BY <1>2 DEF Upsert
  <2>2. store[i] \in SessionDoc
    OBVIOUS
  <2>3. doc.exists /\ (doc.visible <=> (store[i].exists => store[i].visible))
    BY <2>2 DEF SessionDoc
  <2> HIDE DEF doc
  <2>4. store'[i] = doc /\ \A j \in Ids \ {i} : store'[j] = store[j]
    BY <2>1
  <2>5. Stored' = Stored \cup {i}
    BY <2>3, <2>4 DEF Stored
  <2>6. Hidden' = Hidden
    BY <2>3, <2>4 DEF Hidden
  <2> QED BY <2>4, <2>5, <2>6
<1> QED BY <1>1, <1>2 DEF PersistBestEffort

\* a task moves
LEMMA TaskMoves ==
  ASSUME TypeOK, NEW o \in Objs, pc[o] \in TaskPcs, NEW p \in TaskPcs,
         pc' = [pc EXCEPT ![o] = p], UNCHANGED sid
  PROVE  /\ Hosts' = Hosts /\ Found' = Found
         /\ \A q \in Objs \ {o} : pc'[q] = pc[q]
         /\ pc'[o] = p
<1>1. pc'[o] = p /\ \A q \in Objs \ {o} : pc'[q] = pc[q]
  BY DEF TypeOK
<1>2. \A q \in Objs : pc'[q] \in TaskPcs <=> pc[q] \in TaskPcs
  BY <1>1
<1>3. \A q \in Objs :
        pc'[q] \in {"loaded", "restoring"} <=> pc[q] \in {"loaded", "restoring"}
  BY <1>1 DEF TaskPcs
<1> QED BY <1>1, <1>2, <1>3, HostsSame, FoundSame

\* an object under construction moves
LEMMA BuildMoves ==
  ASSUME TypeOK, NEW o \in Objs, pc[o] \in BuildPcs, NEW p \in BuildPcs,
         NEW s \in Ids \cup {NoId},
         pc' = [pc EXCEPT ![o] = p], sid' = [sid EXCEPT ![o] = s]
  PROVE  /\ Hosts' = Hosts
         /\ Found' = [Found EXCEPT ![o] = IF p \in {"loaded", "restoring"} THEN s ELSE NoId]
         /\ \A q \in Objs : Processing(q)' <=> Processing(q)
<1>1. /\ pc'[o] = p /\ sid'[o] = s
      /\ \A q \in Objs \ {o} : pc'[q] = pc[q] /\ sid'[q] = sid[q]
  BY DEF TypeOK
<1>2. pc[o] \notin TaskPcs /\ p \notin TaskPcs
  BY DEF BuildPcs, TaskPcs
<1>3. Hosts' = Hosts
  BY <1>1, <1>2, HostsSame
<1>4. Found' = [Found EXCEPT ![o] = IF p \in {"loaded", "restoring"} THEN s ELSE NoId]
  BY <1>1 DEF Found
<1>5. \A q \in Objs : Processing(q)' <=> Processing(q)
  BY <1>1, <1>2 DEF Processing, TaskPcs, BuildPcs
<1> QED BY <1>3, <1>4, <1>5

\* a session that some task was created for is not being created
LEMMA HostIsKnown ==
  ASSUME BuiltIsUnknown, NEW o \in Objs, pc[o] \in TaskPcs, NEW b \in Objs, pc[b] = "building"
  PROVE  sid[b] # sid[o]
BY DEF BuiltIsUnknown, TaskPcs

\* no step of a task or of the reaper makes a session known that is being created
LEMMA UnknownStays ==
  ASSUME BuiltIsUnknown, UNCHANGED sid,
         \A p \in Objs : pc'[p] = pc[p] \/ {pc[p], pc'[p]} \subseteq TaskPcs,
         \A b \in Objs : pc[b] = "building" =>
           (store'[sid[b]].exists => store[sid[b]].exists)
  PROVE  BuiltIsUnknown'
<1> SUFFICES ASSUME NEW o \in Objs, pc'[o] = "building"
             PROVE  /\ ~store'[sid[o]].exists
                    /\ \A p \in Objs \ {o} : sid[p] = sid[o] => pc'[p] = "loading"
  BY DEF BuiltIsUnknown
<1>1. pc[o] = "building"
  BY DEF TaskPcs
<1>2. \A p \in Objs \ {o} : sid[p] = sid[o] => pc'[p] = "loading"
  BY <1>1 DEF BuiltIsUnknown, TaskPcs
<1> QED BY <1>1, <1>2 DEF BuiltIsUnknown

LifeInv == PoolInv /\ BuiltIsUnknown
LifeSame == UNCHANGED <<sessions, Hosts, Found, Working, Stored, Hidden, Deleting>>

\* create_session picks an id that no object and no document has
LEMMA CreateAdmitLives ==
  ASSUME LifeInv, NEW i \in Ids, NEW o \in Objs, CreateAdmit(i, o)
  PROVE  BuiltIsUnknown' /\ LifeSame
<1>1. /\ TypeOK /\ pc[o] = "free" /\ pc[o] \in BuildPcs /\ "building" \in BuildPcs
      /\ pc' = [pc EXCEPT ![o] = "building"] /\ sid' = [sid EXCEPT ![o] = i]
      /\ ~store[i].exists /\ \A p \in Objs : sid[p] # i
      /\ UNCHANGED <<sessions, queue, store, delPc>>
  BY DEF CreateAdmit, LifeInv, PoolInv, BuildPcs, poolVars, delVars
<1>2. /\ pc'[o] = "building" /\ sid'[o] = i
      /\ \A p \in Objs \ {o} : pc'[p] = pc[p] /\ sid'[p] = sid[p]
  BY <1>1 DEF TypeOK
<1>3. /\ Hosts' = Hosts /\ \A q \in Objs : Processing(q)' <=> Processing(q)
      /\ Found' = [Found EXCEPT ![o] = NoId]
  BY <1>1, BuildMoves
<1>4. Found[o] = NoId
  BY <1>1 DEF Found
<1>5. Found' = Found
  BY <1>3, <1>4 DEF Found
<1>6. Working' = Working
  BY <1>1, <1>3, WorkingSame
<1>7. BuiltIsUnknown'
  BY <1>1, <1>2 DEF BuiltIsUnknown, LifeInv
<1> QED BY <1>1, <1>3, <1>5, <1>6, <1>7, StoreSame, DeletingSame DEF LifeSame

LEMMA LoadBeginLives ==
  ASSUME LifeInv, NEW i \in Ids, NEW o \in Objs, LoadBegin(i, o)
  PROVE  BuiltIsUnknown' /\ LifeSame
<1>1. /\ TypeOK /\ pc[o] = "free" /\ pc[o] \in BuildPcs /\ "loading" \in BuildPcs
      /\ pc' = [pc EXCEPT ![o] = "loading"] /\ sid' = [sid EXCEPT ![o] = i]
      /\ UNCHANGED <<sessions, queue, store, delPc>>
  BY DEF LoadBegin, LifeInv, PoolInv, BuildPcs, poolVars, delVars
<1>2. /\ pc'[o] = "loading" /\ sid'[o] = i
      /\ \A p \in Objs \ {o} : pc'[p] = pc[p] /\ sid'[p] = sid[p]
  BY <1>1 DEF TypeOK
<1>3. /\ Hosts' = Hosts /\ \A q \in Objs : Processing(q)' <=> Processing(q)
      /\ Found' = [Found EXCEPT ![o] = NoId]
  BY <1>1, BuildMoves
<1>4. Found[o] = NoId
  BY <1>1 DEF Found
<1>5. Found' = Found
  BY <1>3, <1>4 DEF Found
<1>6. Working' = Working
  BY <1>1, <1>3, WorkingSame
<1>7. BuiltIsUnknown'
  BY <1>1, <1>2 DEF BuiltIsUnknown, LifeInv
<1> QED BY <1>1, <1>3, <1>5, <1>6, <1>7, StoreSame, DeletingSame DEF LifeSame

\* an object that is given back
LEMMA DiscardLives ==
  ASSUME LifeInv, NEW o \in Objs, pc[o] \in BuildPcs,
         pc' = [pc EXCEPT ![o] = "free"], sid' = [sid EXCEPT ![o] = NoId],
         UNCHANGED <<sessions, queue, store, delPc>>
  PROVE  /\ BuiltIsUnknown'
         /\ Found' = [Found EXCEPT ![o] = NoId]
         /\ UNCHANGED <<sessions, Hosts, Working, Stored, Hidden, Deleting>>
<1>1. TypeOK /\ "free" \in BuildPcs /\ NoId \in Ids \cup {NoId}
  BY DEF LifeInv, PoolInv, BuildPcs
<1>2. /\ pc'[o] = "free" /\ sid'[o] = NoId
      /\ \A p \in Objs \ {o} : pc'[p] = pc[p] /\ sid'[p] = sid[p]
  BY <1>1 DEF TypeOK
<1>3. /\ Hosts' = Hosts /\ \A q \in Objs : Processing(q)' <=> Processing(q)
      /\ Found' = [Found EXCEPT ![o] = NoId]
  BY <1>1, BuildMoves
<1>4. Working' = Working
  BY <1>3, WorkingSame
<1>5. \A b \in Objs : pc[b] = "building" => sid[b] \in Ids
  BY DEF LifeInv, PoolInv, Bound
<1>6. BuiltIsUnknown'
  <2> SUFFICES ASSUME NEW b \in Objs, pc'[b] = "building"
               PROVE  /\ ~store'[sid'[b]].exists
                      /\ \A p \in Objs \ {b} : sid'[p] = sid'[b] => pc'[p] = "loading"
    BY DEF BuiltIsUnknown
  <2>1. b # o /\ pc[b] = "building" /\ sid'[b] = sid[b] /\ sid[b] # NoId
    BY <1>2, <1>5, PoolAssumption
  <2> QED BY <1>2, <2>1 DEF LifeInv, BuiltIsUnknown
<1> QED BY <1>3, <1>4, <1>6, StoreSame, DeletingSame

LEMMA LoadReadLives ==
  ASSUME LifeInv, NEW o \in Objs, LoadRead(o)
  PROVE  BuiltIsUnknown' /\ (LifeSame \/ Life!Find(sid[o], o))
<1>1. /\ TypeOK /\ pc[o] = "loading" /\ pc[o] \in BuildPcs /\ sid[o] \in Ids
      /\ "loaded" \in BuildPcs /\ UNCHANGED <<sessions, queue, store, delPc>>
  BY DEF LoadRead, LifeInv, PoolInv, Bound, BuildPcs, poolVars, delVars
<1>2. Found[o] = NoId /\ Hosts[o] = NoId
  BY <1>1 DEF Found, Hosts, TaskPcs
<1>3. CASE pc' = [pc EXCEPT ![o] = "free"] /\ sid' = [sid EXCEPT ![o] = NoId]
  <2>1. /\ BuiltIsUnknown' /\ Found' = [Found EXCEPT ![o] = NoId]
        /\ UNCHANGED <<sessions, Hosts, Working, Stored, Hidden, Deleting>>
    BY <1>1, <1>3, DiscardLives
  <2>2. Found' = Found
    BY <1>2, <2>1 DEF Found
  <2> QED BY <2>1, <2>2 DEF LifeSame
<1>4. CASE /\ store[sid[o]].exists /\ store[sid[o]].visible
           /\ pc' = [pc EXCEPT ![o] = "loaded"] /\ UNCHANGED sid
  <2>1. /\ pc'[o] = "loaded" /\ \A p \in Objs \ {o} : pc'[p] = pc[p]
        /\ sid' = [sid EXCEPT ![o] = sid[o]]
    BY <1>1, <1>4 DEF TypeOK
  <2>2. /\ Hosts' = Hosts /\ \A q \in Objs : Processing(q)' <=> Processing(q)
        /\ Found' = [Found EXCEPT ![o] = sid[o]]
    BY <1>1, <1>4, <2>1, BuildMoves
  <2>3. Working' = Working
    BY <1>1, <2>2, WorkingSame
  <2>4. sid[o] \in Stored \ Hidden
    BY <1>1, <1>4 DEF Stored, Hidden
  <2>5. Life!Find(sid[o], o)
    BY <1>1, <1>2, <2>2, <2>3, <2>4, StoreSame, DeletingSame DEF Life!Find
  <2>6. BuiltIsUnknown'
    BY <1>1, <1>4, <2>1 DEF BuiltIsUnknown, LifeInv
  <2> QED BY <2>5, <2>6
<1> QED BY <1>3, <1>4 DEF LoadRead

LEMMA LoadRecheckLives ==
  ASSUME LifeInv, NEW o \in Objs, LoadRecheck(o)
  PROVE  BuiltIsUnknown' /\ (LifeSame \/ Life!Forget(o))
<1>1. /\ TypeOK /\ pc[o] = "loaded" /\ pc[o] \in BuildPcs /\ sid[o] \in Ids
      /\ "restoring" \in BuildPcs /\ UNCHANGED <<sessions, queue, store, delPc>>
  BY DEF LoadRecheck, LifeInv, PoolInv, Bound, BuildPcs, poolVars, delVars
<1>2. Found[o] = sid[o] /\ sid[o] # NoId
  BY <1>1, PoolAssumption DEF Found
<1>3. CASE Live(sid[o]) /\ Discard(o)
  <2>1. /\ BuiltIsUnknown' /\ Found' = [Found EXCEPT ![o] = NoId]
        /\ UNCHANGED <<sessions, Hosts, Working, Stored, Hidden, Deleting>>
    BY <1>1, <1>3, DiscardLives DEF Discard
  <2>2. Life!Forget(o)
    BY <1>2, <1>3, <2>1 DEF Life!Forget, Live
  <2> QED BY <2>1, <2>2
<1>4. CASE pc' = [pc EXCEPT ![o] = "restoring"] /\ UNCHANGED sid
  <2>1. /\ pc'[o] = "restoring" /\ \A p \in Objs \ {o} : pc'[p] = pc[p]
        /\ sid' = [sid EXCEPT ![o] = sid[o]]
    BY <1>1, <1>4 DEF TypeOK
  <2>2. /\ Hosts' = Hosts /\ \A q \in Objs : Processing(q)' <=> Processing(q)
        /\ Found' = [Found EXCEPT ![o] = sid[o]]
    BY <1>1, <1>4, <2>1, BuildMoves
  <2>3. Working' = Working /\ Found' = Found
    BY <1>1, <1>2, <2>2, WorkingSame DEF Found
  <2>4. BuiltIsUnknown'
    BY <1>1, <1>4, <2>1 DEF BuiltIsUnknown, LifeInv
  <2> QED BY <1>1, <2>2, <2>3, <2>4, StoreSame, DeletingSame DEF LifeSame
<1> QED BY <1>3, <1>4 DEF LoadRecheck

\* the installation is the first of a created session, or a restore
LEMMA StartAgentSessionLives ==
  ASSUME LifeInv, NEW o \in Objs, StartAgentSession(o)
  PROVE  /\ BuiltIsUnknown'
         /\ LifeSame \/ Life!Forget(o) \/ Life!Create(sid[o], o) \/ Life!Restore(o)
<1>1. /\ TypeOK /\ pc[o] \in {"building", "restoring"} /\ pc[o] \in BuildPcs /\ sid[o] \in Ids
      /\ UNCHANGED <<queue, delPc>>
  BY DEF StartAgentSession, LifeInv, PoolInv, Bound, BuildPcs, delVars
<1>2. /\ Found[o] = IF pc[o] = "restoring" THEN sid[o] ELSE NoId
      /\ Hosts[o] = NoId /\ sid[o] # NoId
  BY <1>1, PoolAssumption DEF Found, Hosts, TaskPcs
<1>3. CASE Live(sid[o]) /\ Discard(o) /\ UNCHANGED <<sessions, store>>
  <2>1. /\ BuiltIsUnknown' /\ Found' = [Found EXCEPT ![o] = NoId]
        /\ UNCHANGED <<sessions, Hosts, Working, Stored, Hidden, Deleting>>
    BY <1>1, <1>3, DiscardLives DEF Discard
  <2>2. CASE pc[o] = "restoring"
    BY <1>2, <1>3, <2>1, <2>2 DEF Life!Forget, Live
  <2>3. CASE pc[o] = "building"
    <3>1. Found' = Found
      BY <1>2, <2>1, <2>3 DEF Found
    <3> QED BY <2>1, <3>1 DEF LifeSame
  <2> QED BY <1>1, <2>1, <2>2, <2>3
<1>4. CASE /\ ~Live(sid[o]) /\ sessions' = [sessions EXCEPT ![sid[o]] = o]
           /\ pc' = [pc EXCEPT ![o] = "new"] /\ UNCHANGED sid
           /\ IF pc[o] = "building" THEN PersistBestEffort(sid[o], "active", FALSE)
                                    ELSE UNCHANGED store
  <2>1. pc'[o] = "new" /\ \A p \in Objs \ {o} : pc'[p] = pc[p]
    BY <1>1, <1>4 DEF TypeOK
  <2>2. Hosts' = [Hosts EXCEPT ![o] = sid[o]] /\ Found' = [Found EXCEPT ![o] = NoId]
    BY <1>4, <2>1 DEF Hosts, Found, TaskPcs
  <2>3. Working' = Working
    BY <1>1, <2>1, WorkingSame DEF Processing
  <2>4. /\ Stored' = Stored \/ (pc[o] = "building" /\ Stored' = Stored \cup {sid[o]})
        /\ Hidden' = Hidden /\ \A j \in Ids \ {sid[o]} : store'[j] = store[j]
    BY <1>1, <1>4, SavedIs, StoreSame DEF TypeOK
  <2>5. /\ sessions[sid[o]] = NoObj /\ Deleting' = Deleting
        /\ sessions' = [sessions EXCEPT ![sid[o]] = o]
    BY <1>1, <1>4, DeletingSame DEF Live
  <2>6. pc[o] = "restoring" => Life!Restore(o)
    <3> HAVE pc[o] = "restoring"
    <3>1. Found[o] = sid[o] /\ Stored' = Stored
      BY <1>2, <2>4
    <3> QED BY <1>2, <2>2, <2>3, <2>4, <2>5, <3>1 DEF Life!Restore, Life!Install
  <2>7. pc[o] = "building" => Life!Create(sid[o], o)
    <3> HAVE pc[o] = "building"
    <3>1. sid[o] \notin Stored
      BY DEF Stored, BuiltIsUnknown, LifeInv
    <3>2. \A p \in Objs : Hosts[p] # sid[o]
      BY <1>1, <1>2, PoolAssumption DEF Hosts, BuiltIsUnknown, LifeInv, TaskPcs
    <3>3. Found' = Found
      BY <1>2, <2>2 DEF Found
    <3>4. Stored' \in {Stored, Stored \cup {sid[o]}}
      BY <2>4
    <3> QED BY <1>2, <2>2, <2>3, <2>4, <2>5, <3>1, <3>2, <3>3, <3>4
        DEF Life!Create, Life!Install
  <2>8. BuiltIsUnknown'
    <3> SUFFICES ASSUME NEW b \in Objs, pc'[b] = "building"
                 PROVE  /\ ~store'[sid[b]].exists
                        /\ \A p \in Objs \ {b} : sid[p] = sid[b] => pc'[p] = "loading"
      BY <1>4 DEF BuiltIsUnknown
    <3>1. b # o /\ pc[b] = "building"
      BY <2>1
    <3>2. sid[o] # sid[b] /\ sid[b] \in Ids
      BY <1>1, <3>1 DEF LifeInv, BuiltIsUnknown, PoolInv, Bound
    <3>3. store'[sid[b]] = store[sid[b]]
      BY <2>4, <3>2
    <3> QED BY <2>1, <3>1, <3>2, <3>3 DEF LifeInv, BuiltIsUnknown
  <2> QED BY <1>1, <2>6, <2>7, <2>8
<1> QED BY <1>3, <1>4 DEF StartAgentSession
\* what does not touch an object, a document or a delete is no part of a life
LEMMA RestLives ==
  ASSUME LifeInv, UNCHANGED <<sessions, sid, pc, queue, store, Deleting>>
  PROVE  BuiltIsUnknown' /\ LifeSame
<1>1. BuiltIsUnknown'
  BY DEF LifeInv, BuiltIsUnknown
<1>2. Hosts' = Hosts /\ Found' = Found /\ Working' = Working
  BY HostsSame, FoundSame, WorkingSame DEF Processing
<1> QED BY <1>1, <1>2, StoreSame DEF LifeSame

\* a task that moves on, or is moved by a cancellation, may finish its work
LEMMA TaskLives ==
  ASSUME LifeInv, NEW o \in Objs, pc[o] \in TaskPcs, NEW p \in TaskPcs,
         p \in {"busy", "stopping"} => Processing(o),
         pc' = [pc EXCEPT ![o] = p],
         UNCHANGED <<sessions, sid, queue, store, Deleting>>
  PROVE  BuiltIsUnknown' /\ (LifeSame \/ Life!Finish(o))
<1>1. /\ Hosts' = Hosts /\ Found' = Found
      /\ pc'[o] = p /\ \A q \in Objs \ {o} : pc'[q] = pc[q]
  BY TaskMoves DEF LifeInv, PoolInv
<1>2. BuiltIsUnknown'
  BY <1>1, UnknownStays DEF LifeInv
<1>3. /\ Stored' = Stored /\ Hidden' = Hidden
  BY StoreSame
<1>4. CASE Processing(o)' <=> Processing(o)
  <2>1. \A q \in Objs : Processing(q)' <=> Processing(q)
    BY <1>1, <1>4 DEF Processing
  <2>2. Working' = Working
    BY <2>1, WorkingSame
  <2> QED BY <1>1, <1>2, <1>3, <2>2 DEF LifeSame
<1>5. CASE Processing(o) /\ ~Processing(o)'
  <2>1. \A q \in Objs \ {o} : Quiet(q)' <=> Quiet(q)
    BY <1>1 DEF Quiet, Processing
  <2>2. o \in Working /\ (Quiet(o)' <=> queue[o] = <<>>)
    BY <1>5 DEF Working, Quiet
  <2>3. Working' = Working \/ Working' = Working \ {o}
    BY <2>1, <2>2 DEF Working
  <2> QED BY <1>1, <1>2, <1>3, <2>2, <2>3 DEF LifeSame, Life!Finish
<1>6. Processing(o)' => Processing(o)
  BY <1>1 DEF Processing
<1> QED BY <1>4, <1>5, <1>6

\* a snapshot of an object's session, at the end of a turn, of an eviction or of
\* the task
LEMMA SnapshotLives ==
  ASSUME LifeInv, NEW o \in Objs, pc[o] \in TaskPcs, NEW p \in TaskPcs,
         p \in {"busy", "stopping"} <=> Processing(o),
         pc' = [pc EXCEPT ![o] = p],
         NEW st \in {"active", "ended"}, NEW appr \in BOOLEAN,
         PersistBestEffort(sid[o], st, appr),
         UNCHANGED <<sessions, sid, queue, delPc>>
  PROVE  sid[o] \in Ids /\ BuiltIsUnknown' /\ (LifeSame \/ Life!Save(sid[o]))
<1>1. /\ Hosts' = Hosts /\ Found' = Found
      /\ pc'[o] = p /\ \A q \in Objs \ {o} : pc'[q] = pc[q]
  BY TaskMoves DEF LifeInv, PoolInv
<1>2. sid[o] \in Ids /\ store \in [Ids -> SessionDoc]
  BY TaskFacts DEF LifeInv
<1>3. /\ Stored' = Stored \/ Stored' = Stored \cup {sid[o]}
      /\ Hidden' = Hidden /\ \A j \in Ids \ {sid[o]} : store'[j] = store[j]
  BY <1>2, SavedIs
<1>4. BuiltIsUnknown'
  <2>1. ASSUME NEW b \in Objs, pc[b] = "building" PROVE store'[sid[b]] = store[sid[b]]
    <3>1. sid[b] # sid[o] /\ sid[b] \in Ids
      BY <2>1, HostIsKnown DEF LifeInv, PoolInv, Bound
    <3> QED BY <1>3, <3>1
  <2> QED BY <1>1, <2>1, UnknownStays DEF LifeInv
<1>5. Working' = Working /\ Deleting' = Deleting
  BY <1>1, WorkingSame, DeletingSame DEF Processing
<1>6. Hosts[o] = sid[o]
  BY DEF Hosts
<1> QED BY <1>1, <1>2, <1>3, <1>4, <1>5, <1>6 DEF LifeSame, Life!Save

LEMMA EnqueueLives ==
  ASSUME LifeInv, NEW i \in Ids, NEW op \in {"work", "shutdown"},
         Enqueue(i, op, ~reaping[sessions[i]])
  PROVE  BuiltIsUnknown' /\ Life!Accept(i)
<1> DEFINE o == sessions[i]
<1>1. /\ o \in Objs /\ o # NoObj /\ queue \in [Objs -> Seq({"work", "shutdown"})]
      /\ queue' = [queue EXCEPT ![o] = Append(queue[o], op)]
      /\ UNCHANGED <<sessions, sid, pc, store, delPc>>
  BY DEF Enqueue, Live, LifeInv, PoolInv, TypeOK, poolVars, delVars
<1>2. BuiltIsUnknown'
  BY <1>1 DEF LifeInv, BuiltIsUnknown
<1>3. Hosts' = Hosts /\ Found' = Found
  BY <1>1, HostsSame, FoundSame
<1>4. queue'[o] # <<>> /\ \A q \in Objs \ {o} : queue'[q] = queue[q]
  <2>1. /\ queue'[o] = Append(queue[o], op)
        /\ \A q \in Objs \ {o} : queue'[q] = queue[q]
    BY <1>1
  <2>2. queue[o] \in Seq({"work", "shutdown"})
    BY <1>1
  <2> HIDE DEF o
  <2>3. Append(queue[o], op) # <<>>
    BY <2>2
  <2> QED BY <2>1, <2>3
<1>5. ~Quiet(o)' /\ \A q \in Objs \ {o} : Quiet(q)' <=> Quiet(q)
  BY <1>1, <1>4 DEF Quiet, Processing
<1>6. Working' = Working \cup {o}
  BY <1>1, <1>5 DEF Working
<1> QED BY <1>1, <1>2, <1>3, <1>6, StoreSame, DeletingSame DEF Life!Accept

\* what a queue loses the turn takes over
LEMMA DequeueLives ==
  ASSUME LifeInv, NEW o \in Objs, Dequeue(o)
  PROVE  BuiltIsUnknown' /\ LifeSame
<1>1. PICK p \in {"busy", "stopping"} : pc' = [pc EXCEPT ![o] = p]
  BY DEF Dequeue
<1>2. /\ pc[o] = "wait" /\ pc[o] \in TaskPcs /\ p \in TaskPcs /\ queue[o] # <<>>
      /\ queue' = [queue EXCEPT ![o] = Tail(queue[o])]
      /\ UNCHANGED <<sessions, sid, store, delPc>>
  BY DEF Dequeue, TaskPcs, poolVars, delVars
<1>3. /\ Hosts' = Hosts /\ Found' = Found
      /\ pc'[o] = p /\ \A q \in Objs \ {o} : pc'[q] = pc[q]
  BY <1>1, <1>2, TaskMoves DEF LifeInv, PoolInv
<1>4. BuiltIsUnknown'
  BY <1>2, <1>3, UnknownStays DEF LifeInv
<1>5. \A q \in Objs \ {o} : queue'[q] = queue[q]
  BY <1>2 DEF LifeInv, PoolInv, TypeOK
<1>6. ~Quiet(o) /\ ~Quiet(o)' /\ \A q \in Objs \ {o} : Quiet(q)' <=> Quiet(q)
  BY <1>2, <1>3, <1>5 DEF Quiet, Processing
<1>7. Working' = Working
  BY <1>6 DEF Working
<1> QED BY <1>2, <1>3, <1>4, <1>7, StoreSame, DeletingSame DEF LifeSame

\* the reaper pops what has no work and a document
LEMMA ReapEvictLives ==
  ASSUME LifeInv, ReapEvict
  PROVE  BuiltIsUnknown' /\ (LifeSame \/ \E i \in Ids : Life!Evict(i))
<1>1. /\ reapObj \in Objs /\ sid[reapObj] \in Ids /\ reapObj # NoObj
      /\ store[sid[reapObj]].exists
      /\ UNCHANGED <<sid, pc, queue, store, delPc>>
  BY PoolAssumption DEF ReapEvict, LifeInv, PoolInv, ReaperHoldsObject, Bound, TaskPcs,
     delVars
<1>2. CASE UNCHANGED sessions
  BY <1>1, <1>2, RestLives, DeletingSame
<1>3. CASE /\ sessions[sid[reapObj]] = reapObj /\ Quiet(reapObj)
           /\ sessions' = [sessions EXCEPT ![sid[reapObj]] = NoObj]
  <2>1. /\ Hosts' = Hosts /\ Found' = Found /\ Working' = Working
    BY <1>1, HostsSame, FoundSame, WorkingSame DEF Processing
  <2>2. reapObj \notin Working /\ sid[reapObj] \in Stored
    BY <1>1, <1>3 DEF Working, Stored
  <2>3. BuiltIsUnknown'
    BY <1>1 DEF LifeInv, BuiltIsUnknown
  <2>4. Life!Evict(sid[reapObj])
    BY <1>1, <1>3, <2>1, <2>2, StoreSame, DeletingSame DEF Life!Evict
  <2> QED BY <1>1, <2>3, <2>4
<1> QED BY <1>2, <1>3 DEF ReapEvict

LEMMA DeletePopLives ==
  ASSUME LifeInv, NEW i \in Ids, DeletePop(i)
  PROVE  BuiltIsUnknown' /\ Life!Delete(i)
<1>1. /\ delPc[i] = "no" /\ delPc' = [delPc EXCEPT ![i] = "soft"]
      /\ sessions' = [sessions EXCEPT ![i] = NoObj]
      /\ delPc \in [Ids -> {"no", "soft", "cleanup", "joining", "deleted"}]
      /\ UNCHANGED <<sid, pc, queue, store>>
  BY DEF DeletePop, objVars, LifeInv, PoolInv, TypeOK
<1>2. i \notin Deleting /\ Deleting' = Deleting \cup {i}
  BY <1>1 DEF Deleting
<1>3. /\ Hosts' = Hosts /\ Found' = Found /\ Working' = Working
  BY <1>1, HostsSame, FoundSame, WorkingSame DEF Processing
<1>4. BuiltIsUnknown'
  BY <1>1 DEF LifeInv, BuiltIsUnknown
<1> QED BY <1>1, <1>2, <1>3, <1>4, StoreSame DEF Life!Delete

\* the later steps of a delete leave it a delete
LEMMA DeleteGoesOn ==
  ASSUME TypeOK, NEW i \in Ids, delPc[i] # "no",
         NEW p \in {"soft", "cleanup", "joining", "deleted"},
         delPc' = [delPc EXCEPT ![i] = p]
  PROVE  Deleting' = Deleting
<1>1. delPc \in [Ids -> {"no", "soft", "cleanup", "joining", "deleted"}]
  BY DEF TypeOK
<1> QED BY <1>1 DEF Deleting

LEMMA DeleteSoftLives ==
  ASSUME LifeInv, NEW i \in Ids, DeleteSoft(i)
  PROVE  BuiltIsUnknown' /\ (LifeSame \/ Life!Hide(i))
<1>1. PICK p \in {"soft", "cleanup", "joining", "deleted"} : delPc' = [delPc EXCEPT ![i] = p]
  BY DEF DeleteSoft
<1>2. /\ delPc[i] = "soft" /\ TypeOK /\ UNCHANGED <<sessions, sid, pc, queue>>
      /\ store \in [Ids -> SessionDoc]
      /\ store' = [store EXCEPT ![i].visible = ~store[i].exists]
  BY DEF DeleteSoft, LifeInv, PoolInv, TypeOK, poolVars, objVars
<1>3. Deleting' = Deleting /\ i \in Deleting
  BY <1>1, <1>2, DeleteGoesOn DEF Deleting
<1>4. /\ Hosts' = Hosts /\ Found' = Found /\ Working' = Working
  BY <1>2, HostsSame, FoundSame, WorkingSame DEF Processing
<1>5. /\ store'[i].exists = store[i].exists /\ store'[i].visible = ~store[i].exists
      /\ \A j \in Ids \ {i} : store'[j] = store[j]
  BY <1>2 DEF SessionDoc
<1>6. Stored' = Stored
  BY <1>5 DEF Stored
<1>7. Hidden' = Hidden \/ (i \in Stored /\ Hidden' = Hidden \cup {i})
  BY <1>2, <1>5 DEF Stored, Hidden, SessionDoc
<1>8. BuiltIsUnknown'
  BY <1>2, <1>5, UnknownStays DEF LifeInv, PoolInv, Bound
<1> QED BY <1>2, <1>3, <1>4, <1>6, <1>7, <1>8 DEF LifeSame, Life!Hide


\* the steps of a task
LEMMA TaskStepLives ==
  ASSUME LifeInv, NEW o \in Objs, TaskStep(o)
  PROVE  /\ BuiltIsUnknown'
         /\ LifeSame \/ Life!Finish(o) \/ \E i \in Ids : Life!Save(i)
<1>0. /\ pc[o] \in TaskPcs /\ approval \in [Objs -> BOOLEAN]
      /\ sessions \in [Ids -> Objs \cup {NoObj}]
  BY DEF TaskStep, RunStart, Dequeue, TurnEnd, StopEnd, TurnSaved, CleanedUp, EndMark,
     EndMarked, TaskPcs, LifeInv, PoolInv, TypeOK
<1>1. CASE RunStart(o) \/ TurnEnd(o) \/ StopEnd(o) \/ CleanedUp(o) \/ EndMark(o)
  <2>1. PICK p \in TaskPcs \ {"busy", "stopping"} : pc' = [pc EXCEPT ![o] = p]
    BY <1>1 DEF RunStart, TurnEnd, StopEnd, CleanedUp, EndMark, TaskPcs
  <2>2. UNCHANGED <<sessions, sid, queue, store, delPc>>
    BY <1>1 DEF RunStart, TurnEnd, StopEnd, CleanedUp, EndMark, poolVars, delVars
  <2> QED BY <1>0, <2>1, <2>2, TaskLives, DeletingSame
<1>2. CASE Dequeue(o)
  BY <1>2, DequeueLives
<1>3. CASE TurnSaved(o)
  <2>1. PICK p \in TaskPcs \ {"busy", "stopping"} : pc' = [pc EXCEPT ![o] = p]
    BY <1>3 DEF TurnSaved, TaskPcs
  <2>2. /\ ~Processing(o) /\ PersistBestEffort(sid[o], "active", approval[o])
        /\ UNCHANGED <<sessions, sid, queue, delPc>>
    BY <1>3 DEF TurnSaved, Processing, poolVars, delVars
  <2> QED BY <1>0, <2>1, <2>2, SnapshotLives
<1>4. CASE EndMarked(o)
  <2>1. /\ pc' = [pc EXCEPT ![o] = "done"] /\ "done" \in TaskPcs \ {"busy", "stopping"}
        /\ ~Processing(o) /\ UNCHANGED <<sessions, sid, queue, delPc>>
        /\ PersistBestEffort(sid[o], "ended", approval[sessions[sid[o]]])
    BY <1>4 DEF EndMarked, TaskPcs, Processing, poolVars, delVars
  <2>2. approval[sessions[sid[o]]] \in BOOLEAN
    <3>1. sessions[sid[o]] \in Objs
      BY <1>0, <1>4 DEF EndMarked, LifeInv, PoolInv, MarkerHoldsLock, Live, Bound
    <3> QED BY <1>0, <3>1
  <2> QED BY <1>0, <2>1, <2>2, SnapshotLives
<1> QED BY <1>1, <1>2, <1>3, <1>4 DEF TaskStep

\* a cancellation ends the work of its task, whose queue is not read any more
LEMMA CancelLives ==
  ASSUME LifeInv, NEW o \in Objs, NEW p \in AfterCancel(pc[o]),
         pc' = [pc EXCEPT ![o] = p],
         UNCHANGED <<sessions, sid, queue, store, Deleting>>
  PROVE  BuiltIsUnknown' /\ (LifeSame \/ Life!Finish(o))
<1>1. CASE pc[o] \in TaskPcs
  <2>1. p \in TaskPcs /\ (p \in {"busy", "stopping"} => Processing(o))
    BY <1>1 DEF AfterCancel, TaskPcs, Processing
  <2> QED BY <1>1, <2>1, TaskLives
<1>2. CASE pc[o] \notin TaskPcs
  <2>1. p = pc[o]
    BY <1>2 DEF AfterCancel, TaskPcs
  <2>2. UNCHANGED pc
    BY <2>1 DEF LifeInv, PoolInv, TypeOK
  <2> QED BY <2>2, RestLives
<1> QED BY <1>1, <1>2

\* the later steps of delete_session
LEMMA DeleteStepLives ==
  ASSUME LifeInv, NEW i \in Ids, DeleteStep(i)
  PROVE  /\ BuiltIsUnknown'
         /\ LifeSame \/ Life!Hide(i) \/ \E o \in Objs : Life!Finish(o)
<1>1. CASE DeleteSoft(i)
  BY <1>1, DeleteSoftLives
<1>2. CASE DeleteCancel(i)
  <2>1. PICK p \in AfterCancel(pc[delObj[i]]) : pc' = [pc EXCEPT ![delObj[i]] = p]
    BY <1>2 DEF DeleteCancel, Cancel
  <2>2. delObj[i] \in Objs /\ UNCHANGED <<sessions, sid, queue, store>>
    BY <1>2 DEF DeleteCancel, LifeInv, PoolInv, DeleterHoldsObject
  <2>3. Deleting' = Deleting
    BY <1>2, DeleteGoesOn DEF DeleteCancel, LifeInv, PoolInv
  <2> QED BY <2>1, <2>2, <2>3, CancelLives
<1>3. CASE DeleteJoin(i)
  <2>1. UNCHANGED <<sessions, sid, pc, queue, store>>
    BY <1>3 DEF DeleteJoin, poolVars, objVars
  <2>2. Deleting' = Deleting
    BY <1>3, DeleteGoesOn DEF DeleteJoin, LifeInv, PoolInv
  <2> QED BY <2>1, <2>2, RestLives
<1> QED BY <1>1, <1>2, <1>3 DEF DeleteStep

\* the steps of the reaper
LEMMA ReaperLives ==
  ASSUME LifeInv, ReaperSelect \/ SweepStep
  PROVE  /\ BuiltIsUnknown'
         /\ \/ LifeSame
            \/ \E i \in Ids : Life!Save(i) \/ Life!Evict(i)
            \/ \E o \in Objs : Life!Finish(o)
<1>1. CASE \/ ReaperSelect \/ SweepEnd \/ ReapSaveFailed \/ ReapJoin
           \/ \E i \in Ids : ReapClaim(i)
  <2>1. UNCHANGED <<sessions, sid, pc, queue, store, delPc>>
    BY <1>1 DEF ReaperSelect, SweepEnd, ReapSaveFailed, ReapJoin, ReapClaim, poolVars,
       objVars, delVars
  <2> QED BY <2>1, RestLives, DeletingSame
<1>2. CASE ReapSaved
  <2>1. reapObj \in Objs /\ pc[reapObj] \in TaskPcs /\ approval[reapObj] \in BOOLEAN
    BY <1>2 DEF ReapSaved, LifeInv, PoolInv, ReaperHoldsObject, TypeOK
  <2>2. /\ PersistBestEffort(sid[reapObj], "active", approval[reapObj])
        /\ UNCHANGED <<sessions, sid, queue, delPc>>
        /\ pc' = [pc EXCEPT ![reapObj] = pc[reapObj]]
    BY <1>2 DEF ReapSaved, PersistBestEffort, poolVars, objVars, delVars, LifeInv, PoolInv,
       TypeOK
  <2>3. pc[reapObj] \in {"busy", "stopping"} <=> Processing(reapObj)
    BY DEF Processing
  <2> QED BY <2>1, <2>2, <2>3, SnapshotLives
<1>3. CASE ReapEvict
  BY <1>3, ReapEvictLives
<1>4. CASE ReapCancel
  <2>1. PICK p \in AfterCancel(pc[reapObj]) : pc' = [pc EXCEPT ![reapObj] = p]
    BY <1>4 DEF ReapCancel, Cancel
  <2>2. reapObj \in Objs /\ UNCHANGED <<sessions, sid, queue, store, delPc>>
    BY <1>4 DEF ReapCancel, delVars, LifeInv, PoolInv, ReaperHoldsObject
  <2> QED BY <2>1, <2>2, CancelLives, DeletingSame
<1> QED BY <1>1, <1>2, <1>3, <1>4 DEF SweepStep

\* shutdown_session keeps the lock while it waits, and cancels the task at last
LEMMA ShutdownLives ==
  ASSUME LifeInv,
         ShutdownReturn \/ ShutdownExpire \/ \E i \in Ids : ShutdownWait(i)
  PROVE  BuiltIsUnknown' /\ (LifeSame \/ \E o \in Objs : Life!Finish(o))
<1>1. CASE ShutdownReturn \/ \E i \in Ids : ShutdownWait(i)
  <2>1. UNCHANGED <<sessions, sid, pc, queue, store, delPc>>
    BY <1>1 DEF ShutdownReturn, ShutdownWait, objVars, delVars
  <2> QED BY <2>1, RestLives, DeletingSame
<1>2. CASE ShutdownExpire
  <2>1. PICK p \in AfterCancel(pc[holder]) : pc' = [pc EXCEPT ![holder] = p]
    BY <1>2 DEF ShutdownExpire
  <2>2. holder \in Objs /\ UNCHANGED <<sessions, sid, queue, store, delPc>>
    BY <1>2 DEF ShutdownExpire, delVars, LifeInv, PoolInv, HolderExists
  <2> QED BY <2>1, <2>2, CancelLives, DeletingSame
<1> QED BY <1>1, <1>2

\* every step of the pool is a step of a session's life, or none
LEMMA StepLives ==
  ASSUME LifeInv, [Next]_vars
  PROVE  BuiltIsUnknown' /\ [Life!Next]_(Life!lifeVars)
<1> USE DEF Life!Next
<1>1. LifeSame => UNCHANGED Life!lifeVars
  BY DEF LifeSame, Life!lifeVars
<1>2. ASSUME NEW i \in Ids, NEW o \in Objs, CreateAdmit(i, o) \/ LoadBegin(i, o)
      PROVE  BuiltIsUnknown' /\ LifeSame
  BY <1>2, CreateAdmitLives, LoadBeginLives
<1>3. ASSUME NEW o \in Objs, LoadStep(o)
      PROVE  BuiltIsUnknown' /\ (LifeSame \/ Life!Next)
  <2>1. pc[o] # "free" /\ sid[o] \in Ids
    BY <1>3 DEF LoadStep, LoadRead, LoadRecheck, StartAgentSession, LifeInv, PoolInv, Bound
  <2> QED
    BY <1>3, <2>1, LoadReadLives, LoadRecheckLives, StartAgentSessionLives DEF LoadStep
<1>4. ASSUME NEW o \in Objs, TaskStep(o)
      PROVE  BuiltIsUnknown' /\ (LifeSame \/ Life!Next)
  BY <1>4, TaskStepLives
<1>5. ASSUME NEW i \in Ids, Submit(i) \/ ShutdownSubmit(i)
      PROVE  BuiltIsUnknown' /\ Life!Next
  BY <1>5, EnqueueLives DEF Submit, ShutdownSubmit
<1>6. ASSUME NEW i \in Ids, DeletePop(i) \/ DeleteStep(i)
      PROVE  BuiltIsUnknown' /\ (LifeSame \/ Life!Next)
  BY <1>6, DeletePopLives, DeleteStepLives
<1>7. CASE ShutdownReturn \/ ShutdownExpire \/ \E i \in Ids : ShutdownWait(i)
  BY <1>1, <1>7, ShutdownLives
<1>8. CASE ReaperSelect \/ SweepStep
  BY <1>1, <1>8, ReaperLives
<1>9. CASE UNCHANGED vars
  <2>1. UNCHANGED <<sessions, sid, pc, queue, store, delPc>>
    BY <1>9 DEF vars, poolVars, objVars, delVars
  <2> QED BY <1>1, <2>1, RestLives, DeletingSame
<1> QED BY <1>1, <1>2, <1>3, <1>4, <1>5, <1>6, <1>7, <1>8, <1>9 DEF Next

(* The session manager implements SessionLife, for any number of sessions,   *)
(* objects, users and events: however its calls interleave, a session is one *)
(* object at a time, leaves memory only saved and idle or deleted, and is    *)
(* created once; its document is never lost and, once hidden, stays hidden. *)
THEOREM SessionsLiveAsPromised == Spec => KeepsLife
<1>1. Init => LifeInv /\ Life!Init
  <2> SUFFICES ASSUME Init PROVE LifeInv /\ Life!Init
    OBVIOUS
  <2>1. BuiltIsUnknown
    BY DEF Init, BuiltIsUnknown
  <2>2. Hosts = [o \in Objs |-> NoId] /\ Found = [o \in Objs |-> NoId]
    BY DEF Init, Hosts, Found, TaskPcs
  <2>3. Working = {} /\ Stored = {} /\ Hidden = {} /\ Deleting = {}
    BY DEF Init, Working, Quiet, Processing, Stored, Hidden, Deleting, NoDoc
  <2> QED BY <2>1, <2>2, <2>3, InitInv DEF Init, LifeInv, Life!Init
<1>2. LifeInv /\ [Next]_vars => LifeInv' /\ [Life!Next]_(Life!lifeVars)
  BY StepInv, StepLives DEF LifeInv
<1> QED BY <1>1, <1>2, PTL DEF Spec, KeepsLife, Life!Spec

(***************************************************************************)
(* A consequence of the refinement: no step of a session's life loses it.    *)
(***************************************************************************)
LEMMA LifeLosesNone ==
  ASSUME TypeOK, NoSessionIsLost, [Life!Next]_(Life!lifeVars)
  PROVE  NoSessionIsLost'
<1> DEFINE Kept == \A i \in Ids : (\E o \in Objs : Hosts[o] = i) /\ i \notin Deleting
                                    => sessions[i] # NoObj \/ i \in Stored
<1>1. (NoSessionIsLost <=> Kept) /\ (NoSessionIsLost' <=> Kept')
  BY DEF NoSessionIsLost, Live, Stored, Deleting
<1>2. /\ sessions \in [Ids -> Objs \cup {NoObj}] /\ NoObj \notin Objs
      /\ Hosts \in [Objs -> Ids \cup {NoId}]
  BY PoolAssumption DEF TypeOK, Hosts
<1>3. Kept
  BY <1>1
<1>4. ASSUME NEW i \in Ids, NEW o \in Objs, Life!Install(i, o),
             Stored \subseteq Stored', Deleting' = Deleting
      PROVE  Kept'
  BY <1>2, <1>3, <1>4 DEF Life!Install
<1>5. ASSUME NEW i \in Ids, NEW o \in Objs, Life!Create(i, o) PROVE Kept'
  BY <1>4, <1>5 DEF Life!Create
<1>6. ASSUME NEW o \in Objs, Life!Restore(o) PROVE Kept'
  <2>1. Found[o] \in Ids
    BY <1>6 DEF Life!Restore, Found, TypeOK
  <2> QED BY <1>4, <1>6, <2>1 DEF Life!Restore
<1>7. ASSUME NEW i \in Ids, Life!Evict(i) \/ Life!Delete(i) PROVE Kept'
  BY <1>2, <1>3, <1>7 DEF Life!Evict, Life!Delete
<1>8. ASSUME UNCHANGED <<sessions, Hosts, Deleting>>, Stored \subseteq Stored' PROVE Kept'
  BY <1>3, <1>8
<1>9. CASE \/ \E i \in Ids, o \in Objs : Life!Find(i, o)
           \/ \E o \in Objs : Life!Forget(o) \/ Life!Finish(o)
           \/ \E i \in Ids : Life!Accept(i) \/ Life!Save(i) \/ Life!Hide(i)
  <2> HIDE DEF Kept
  <2> QED BY <1>1, <1>8, <1>9 DEF Life!Find, Life!Forget, Life!Finish, Life!Accept,
        Life!Save, Life!Hide
<1>10. CASE UNCHANGED Life!lifeVars
  BY <1>1, <1>8, <1>10 DEF Life!lifeVars
<1> HIDE DEF Kept
<1> QED BY <1>1, <1>5, <1>6, <1>7, <1>9, <1>10 DEF Life!Next

(* No session is lost: one that was once in memory, and that nobody has asked  *)
(* to delete, is in memory or has a document, whatever its reaper, restores   *)
(* and tasks do.                                                           *)
THEOREM SessionsAreNotLost == Spec => []NoSessionIsLost
<1>1. Init => NoSessionIsLost
  BY PoolAssumption DEF Init, NoSessionIsLost, Hosts, TaskPcs
<1>2. TypeOK /\ NoSessionIsLost /\ [Life!Next]_(Life!lifeVars) => NoSessionIsLost'
  BY LifeLosesNone
<1> QED BY <1>1, <1>2, PoolTypeCorrect, SessionsLiveAsPromised, PTL
        DEF KeepsLife, Life!Spec, Spec
=============================================================================
