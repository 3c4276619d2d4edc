------------------------------ MODULE FileTools ------------------------------
(***************************************************************************)
(* The tools bash, read, write and edit on one file: in local mode, where    *)
(* the handlers run on the event loop and only a command gets a thread; and  *)
(* in the sandbox, where each call is a thread that posts requests to the    *)
(* embedded server, again when the answer is not JSON, and the server        *)
(* handles them in parallel.                                                *)
(*                                                                         *)
(* The content of the file is the set of calls whose text it holds: a write  *)
(* leaves only its own, an edit adds its own to what it has read.  Which     *)
(* text an edit finds is EditMatch's.                                       *)
(***************************************************************************)
EXTENDS Naturals, FiniteSets

CONSTANTS
  Callers,  \* tool calls that may run at the same time
  HttpAttempts, \* posts of one request, 3
  MaxCalls  \* bound: calls made

ASSUME FileAssumption ==
  /\ IsFiniteSet(Callers) /\ HttpAttempts \in Nat \ {0} /\ MaxCalls \in Nat

Ops == {"bash", "read", "write", "edit"}
Absent == {"absent"}

VARIABLES
  where,     \* "local" or "sandbox"
  fileText,      \* its content, or Absent
  filesRead, \* the path is in _files_read
  caller,    \* each caller: its operation, where it stands, posts made
  served,    \* requests the server works on: caller, operation, content read
  callsMade,
  \* for properties only
  confirmed      \* edits that were reported since the file was last written

fileVars == <<where, fileText, filesRead, caller, served, callsMade, confirmed>>

Idle == [op |-> "none", pc |-> "idle", posts |-> 0]
Contents == (SUBSET Callers) \cup {Absent}
FileRequests == [by : Callers, op : Ops, n : 1 .. HttpAttempts,
             base : Contents, at : {"come", "staged"}]

FileTypeOK ==
  /\ where \in {"local", "sandbox"} /\ fileText \in Contents
  /\ filesRead \in BOOLEAN
  /\ caller \in [Callers -> [op : Ops \cup {"none"}, posts : 0 .. HttpAttempts,
                             pc : {"idle", "check", "post", "wait", "thread"}]]
  /\ served \subseteq FileRequests /\ callsMade \in 0 .. MaxCalls
  /\ confirmed \subseteq Callers

FileInit ==
  /\ where \in {"local", "sandbox"} /\ fileText \in {Absent, {}}
  /\ filesRead = FALSE
  /\ caller = [c \in Callers |-> Idle] /\ served = {}
  /\ callsMade = 0 /\ confirmed = {}

Become(c, r) == caller' = [caller EXCEPT ![c] = r]
Call(c) == caller[c].pc = "idle" /\ callsMade < MaxCalls /\ callsMade' = callsMade + 1
Reports(op, c) ==
  confirmed' = CASE op = "edit" -> confirmed \cup {c}
             [] op \in {"write", "bash"} -> {}
             [] OTHER -> confirmed

\* what a command may do to the file
AfterBash == {fileText, Absent, {}}

---------------------------------------------------------------------------
(* Local mode: _read_handler, _write_handler and _edit_handler do not await  *)

LocalRead(c) ==
  /\ where = "local" /\ Call(c)
  /\ filesRead' = (filesRead \/ fileText # Absent)
  /\ UNCHANGED <<where, fileText, caller, served, confirmed>>

\* an existing file has to be read first
LocalWrite(c) ==
  /\ where = "local" /\ Call(c)
  /\ IF fileText # Absent /\ ~filesRead
     THEN UNCHANGED <<fileText, filesRead, confirmed>>
     ELSE fileText' = {c} /\ filesRead' = TRUE /\ confirmed' = {}
  /\ UNCHANGED <<where, caller, served>>

\* mutant: the file is read and written in a thread, beside other calls
LocalEdit_Thread(c) ==
  /\ where = "local" /\ fileText # Absent /\ filesRead
  /\ \/ /\ Call(c) /\ Become(c, [Idle EXCEPT !.op = "edit", !.pc = "thread"])
        /\ served' = served \cup
             {[by |-> c, op |-> "edit", n |-> 1, base |-> fileText, at |-> "come"]}
        /\ UNCHANGED <<fileText, confirmed>>
     \/ /\ caller[c].op = "edit" /\ Become(c, Idle)
        /\ \E r \in served : /\ r.by = c /\ fileText' = r.base \cup {c}
                             /\ served' = served \ {r}
        /\ Reports("edit", c) /\ UNCHANGED callsMade
  /\ UNCHANGED <<where, filesRead>>

\* refused without a file that was read, or when the text is not found
LocalEdit(c) ==
  /\ where = "local" /\ Call(c)
  /\ \/ /\ fileText # Absent /\ filesRead
        /\ fileText' = fileText \cup {c} /\ Reports("edit", c)
     \/ UNCHANGED <<fileText, confirmed>>
  /\ UNCHANGED <<where, filesRead, caller, served>>

\* _bash_handler: the command runs in a thread, which no interrupt stops
LocalBash(c) ==
  /\ where = "local"
  /\ \/ /\ Call(c) /\ Become(c, [Idle EXCEPT !.op = "bash", !.pc = "thread"])
        /\ UNCHANGED <<fileText, confirmed>>
     \/ /\ caller[c].op = "bash" /\ Become(c, Idle)
        /\ fileText' \in AfterBash /\ confirmed' = {} /\ UNCHANGED callsMade
  /\ UNCHANGED <<where, filesRead, served>>

---------------------------------------------------------------------------
(* The sandbox's client: Sandbox.bash, read, write, edit and _call           *)

\* a file counts as read from the moment it is asked for
Ask(c, op) ==
  /\ where = "sandbox" /\ Call(c)
  /\ filesRead' = (filesRead \/ op = "read")
  /\ \/ op = "edit" /\ ~filesRead /\ UNCHANGED caller
     \/ /\ op = "edit" => filesRead
        /\ Become(c, [op |-> op, posts |-> 0,
             pc |-> IF op = "write" /\ ~filesRead THEN "check" ELSE "post"])
  /\ UNCHANGED <<where, fileText, served, confirmed>>

\* a write of an unread path asks whether it exists, and goes on without answer
CheckExists(c) ==
  /\ caller[c].pc = "check"
  /\ \/ fileText # Absent /\ Become(c, Idle)
     \/ Become(c, [caller[c] EXCEPT !.pc = "post"])
  /\ UNCHANGED <<where, fileText, filesRead, served, callsMade, confirmed>>

\* the request is posted, and may not come through
PostRequest(c) ==
  LET n == caller[c].posts + 1
  IN /\ caller[c].pc = "post"
     /\ Become(c, [caller[c] EXCEPT !.pc = "wait", !.posts = n])
     /\ \/ served' = served \cup {[by |-> c, op |-> caller[c].op, n |-> n,
                                   base |-> Absent, at |-> "come"]}
        \/ UNCHANGED served
  /\ UNCHANGED <<where, fileText, filesRead, callsMade, confirmed>>

\* no JSON, or no connection: again, although the server may be at work
PostAgain(c) ==
  /\ caller[c].pc = "wait"
  /\ Become(c, IF caller[c].posts < HttpAttempts
               THEN [caller[c] EXCEPT !.pc = "post"] ELSE Idle)
  /\ UNCHANGED <<where, fileText, filesRead, served, callsMade, confirmed>>

\* a timeout is final
PostTimeout(c) ==
  /\ caller[c].pc = "wait" /\ Become(c, Idle)
  /\ UNCHANGED <<where, fileText, filesRead, served, callsMade, confirmed>>

---------------------------------------------------------------------------
(* The embedded server                                                     *)

\* the answer reaches the caller if it still waits for this post
Answer(r, success) ==
  /\ served' = served \ {r}
  /\ IF caller[r.by].pc = "wait" /\ caller[r.by].posts = r.n
     THEN /\ Become(r.by, Idle)
          /\ IF success THEN Reports(r.op, r.by) ELSE UNCHANGED confirmed
          /\ filesRead' = (filesRead \/ (success /\ r.op = "write"))
     ELSE UNCHANGED <<caller, confirmed, filesRead>>

ServeRead(r) ==
  /\ r.op = "read" /\ Answer(r, fileText # Absent)
  /\ UNCHANGED <<where, fileText, callsMade>>

\* _atomic_write has filled a file of its own
Staged(r, base) ==
  /\ served' = (served \ {r}) \cup {[r EXCEPT !.at = "staged", !.base = base]}
  /\ UNCHANGED fileText

ServeWrite(r) ==
  /\ r.op = "write" /\ r.at = "come" /\ Staged(r, {})
  /\ UNCHANGED <<where, filesRead, caller, callsMade, confirmed>>

ServeEdit(r) ==
  /\ r.op = "edit" /\ r.at = "come"
  /\ \/ Answer(r, FALSE) /\ UNCHANGED fileText
     \/ /\ fileText # Absent /\ Staged(r, fileText)
        /\ UNCHANGED <<caller, confirmed, filesRead>>
  /\ UNCHANGED <<where, callsMade>>

\* os.replace, and the answer
Replace(r) ==
  /\ r.at = "staged" /\ fileText' = r.base \cup {r.by}
  /\ Answer(r, TRUE)
  /\ UNCHANGED <<where, callsMade>>

\* the command has run, or was killed by its timeout
ServeBash(r) ==
  /\ r.op = "bash" /\ fileText' \in AfterBash
  /\ \E success \in BOOLEAN : Answer(r, success)
  /\ UNCHANGED <<where, callsMade>>

\* an interrupt: kill_all ends the commands that run
KillAll ==
  /\ where = "sandbox" /\ \E r \in served : r.op = "bash"
  /\ served' = {r \in served : r.op # "bash"}
  /\ UNCHANGED <<where, fileText, filesRead, caller, callsMade, confirmed>>

\* the sandbox restarts, perhaps with an empty disk
ServerRestart ==
  /\ served # {} /\ where = "sandbox" /\ served' = {}
  /\ fileText' \in {fileText, Absent}
  /\ UNCHANGED <<where, filesRead, caller, callsMade, confirmed>>

---------------------------------------------------------------------------
FileNext ==
  \/ \E c \in Callers : \/ LocalRead(c) \/ LocalWrite(c) \/ LocalEdit(c)
                        \/ LocalBash(c) \/ CheckExists(c) \/ PostRequest(c)
                        \/ PostAgain(c) \/ PostTimeout(c)
                        \/ \E op \in Ops : Ask(c, op)
  \/ \E r \in served : \/ ServeRead(r) \/ ServeWrite(r) \/ ServeEdit(r)
                       \/ Replace(r) \/ ServeBash(r)
  \/ KillAll \/ ServerRestart

FileSpec == FileInit /\ [][FileNext]_fileVars

---------------------------------------------------------------------------
\* In local mode, where calls of one reply edit the same file in parallel,
\* every edit that was reported is in the file until a write or a command.
LocalEditsStay == where = "local" /\ fileText # Absent => confirmed \subseteq fileText

(* Promises of comments that the code does not keep (README, section 3).    *)

\* The same in the sandbox: two edits read the file before either replaces it.
SandboxEditsStay == fileText # Absent => confirmed \subseteq fileText

\* "The edit and write tools will reject operations on files you haven't
\* read": a file that was there when the write began was read before.
UnreadIsKept ==
  [][\A r \in served : (r.op = "write" /\ fileText # Absent /\ fileText' = {r.by})
                         => filesRead]_fileVars

\* A call has one request at work at a time: what is posted again has failed.
PostedOnce ==
  \A r, s \in served : r.by = s.by /\ r.op \in {"edit", "bash"} => r = s
=============================================================================
