---------------------------- MODULE SessionLife -----------------------------
(***************************************************************************)
(* What the session manager promises about the life of a session, whatever  *)
(* its reaper, its tasks, its locks and the store do.  A session is in       *)
(* memory as one object at a time.  It gets there by being created, once, or *)
(* by a restore that has found its document while the user had not deleted  *)
(* it; it leaves because the user deletes it, or by an eviction, when its     *)
(* document is stored and it has no work.  Work comes in only through the    *)
(* object in memory.  A document is never lost, and a deleted one is never   *)
(* shown again.                                                            *)
(***************************************************************************)

CONSTANTS
  Ids,   \* sessions
  Objs,  \* the objects that can stand for one in memory
  NoObj, \* none of them
  NoId   \* no session

VARIABLES
  serving,  \* the object in memory of each session
  hosts,    \* the session each object has been put into memory for
  found,    \* the session whose document an object is being built from
  working,  \* objects that have a submission, queued or executed
  stored,   \* sessions with a document
  hidden,   \* those whose document is marked as deleted
  deleting  \* sessions that the user has asked to delete

lifeVars == <<serving, hosts, found, working, stored, hidden, deleting>>

Init ==
  /\ serving = [i \in Ids |-> NoObj]
  /\ hosts = [o \in Objs |-> NoId] /\ found = [o \in Objs |-> NoId]
  /\ working = {} /\ stored = {} /\ hidden = {} /\ deleting = {}

\* a session without object gets one that has not been used
Install(i, o) ==
  /\ serving[i] = NoObj /\ serving' = [serving EXCEPT ![i] = o]
  /\ hosts[o] = NoId /\ hosts' = [hosts EXCEPT ![o] = i]

\* of a session that nobody has heard of; its document may fail to be written
Create(i, o) ==
  /\ i \notin stored /\ \A p \in Objs : hosts[p] # i
  /\ Install(i, o)
  /\ stored' \in {stored, stored \cup {i}}
  /\ UNCHANGED <<found, working, hidden, deleting>>

Find(i, o) ==
  /\ i \in stored \ hidden
  /\ found[o] = NoId /\ hosts[o] = NoId /\ found' = [found EXCEPT ![o] = i]
  /\ UNCHANGED <<serving, hosts, working, stored, hidden, deleting>>

\* somebody else has restored the session meanwhile
Forget(o) ==
  /\ found[o] # NoId /\ serving[found[o]] # NoObj
  /\ found' = [found EXCEPT ![o] = NoId]
  /\ UNCHANGED <<serving, hosts, working, stored, hidden, deleting>>

Restore(o) ==
  /\ found[o] # NoId /\ found' = [found EXCEPT ![o] = NoId]
  /\ Install(found[o], o)
  /\ UNCHANGED <<working, stored, hidden, deleting>>

Accept(i) ==
  /\ serving[i] # NoObj /\ working' = working \cup {serving[i]}
  /\ UNCHANGED <<serving, hosts, found, stored, hidden, deleting>>

Finish(o) ==
  /\ o \in working /\ working' = working \ {o}
  /\ UNCHANGED <<serving, hosts, found, stored, hidden, deleting>>

\* by an object of the session, in memory or not any more
Save(i) ==
  /\ \E o \in Objs : hosts[o] = i
  /\ stored' = stored \cup {i}
  /\ UNCHANGED <<serving, hosts, found, working, hidden, deleting>>

Evict(i) ==
  /\ serving[i] # NoObj /\ serving[i] \notin working /\ i \in stored
  /\ serving' = [serving EXCEPT ![i] = NoObj]
  /\ UNCHANGED <<hosts, found, working, stored, hidden, deleting>>

\* the object goes at once, the document is marked later, if there is one
Delete(i) ==
  /\ i \notin deleting /\ deleting' = deleting \cup {i}
  /\ serving' = [serving EXCEPT ![i] = NoObj]
  /\ UNCHANGED <<hosts, found, working, stored, hidden>>

Hide(i) ==
  /\ i \in deleting \cap stored /\ hidden' = hidden \cup {i}
  /\ UNCHANGED <<serving, hosts, found, working, stored, deleting>>

Next ==
  \/ \E i \in Ids, o \in Objs : Create(i, o) \/ Find(i, o)
  \/ \E o \in Objs : Forget(o) \/ Restore(o) \/ Finish(o)
  \/ \E i \in Ids : Accept(i) \/ Save(i) \/ Evict(i) \/ Delete(i) \/ Hide(i)

Spec == Init /\ [][Next]_lifeVars
=============================================================================
