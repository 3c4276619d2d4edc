-------------------------- MODULE TrajectoryUpload --------------------------
(***************************************************************************)
(* The trajectory of a session on its way to the datasets: saves to one      *)
(* local file (heartbeats in a thread, everything else on the event loop),   *)
(* the detached session_uploader processes that each save starts, one per    *)
(* format, and the rescan of old files when an agent starts.                 *)
(*                                                                         *)
(* The content of a trajectory is a version, the number of events logged.    *)
(* Processes outlive the agent and meet only in the file: a save replaces it *)
(* (a new inode), an uploader writes its status into the one it has opened.  *)
(***************************************************************************)
EXTENDS Naturals, FiniteSets

CONSTANTS
  Savers,     \* who may save at the same time: the loop, the heartbeat thread
  Formats,    \* "row" and, when traces are shared, "personal"
  Procs,      \* bound: for each format, uploader processes at a time
  UploadTries,   \* max_retries
  MaxVersion, \* bound: versions of the trajectory
  MaxSaves    \* bound: saves

ASSUME UploadAssumption ==
  /\ Formats \subseteq {"row", "personal"} /\ "row" \in Formats
  /\ Procs \in [Formats -> Nat \ {0}]
  /\ UploadTries \in Nat \ {0} /\ MaxVersion \in Nat /\ MaxSaves \in Nat

VARIABLES
  version, \* of the trajectory in memory
  alive,   \* the agent process runs
  saving,  \* each saver: the version it has staged in the .tmp file, or 0
  staged,  \* the .tmp file exists
  file,    \* the local file: its inode, version (0: torn) and statuses
  saves,   \* number of saves that reached the file
  upload,  \* each uploader process
  dataset, \* the version each dataset has of the session
  \* for properties only
  raced,   \* a save replaced the file under an uploader that had read it
  clashed  \* two savers have shared the .tmp file

uploadVars ==
  <<version, alive, saving, staged, file, saves, upload, dataset, raced,
    clashed>>

Status == {"absent", "pending", "failed", "success"}
\* an uploader process: its format and its place among those
Uploaders == UNION {{f} \X (1 .. Procs[f]) : f \in Formats}

NoUpload == [pc |-> "off", seen |-> 0, tries |-> 0,
             inode |-> 0, verdict |-> "pending", rescan |-> FALSE]

UploadTypeOK ==
  /\ version \in 0 .. MaxVersion /\ alive \in BOOLEAN
  /\ saving \in [Savers -> 0 .. MaxVersion] /\ staged \in BOOLEAN
  /\ file \in [inode : 0 .. MaxSaves, version : 0 .. MaxVersion,
               status : [Formats -> Status]]
  /\ saves \in 0 .. MaxSaves
  /\ upload \in [Uploaders ->
       [pc : {"off", "read", "post", "open", "write"},
        seen : 0 .. MaxVersion, tries : 0 .. UploadTries, inode : 0 .. MaxSaves,
        verdict : Status, rescan : BOOLEAN]]
  /\ dataset \in [Formats -> 0 .. MaxVersion]
  /\ raced \in BOOLEAN /\ clashed \in BOOLEAN

UploadInit ==
  /\ version = 0 /\ alive = TRUE
  /\ saving = [s \in Savers |-> 0] /\ staged = FALSE
  /\ file = [inode |-> 0, version |-> 0, status |-> [f \in Formats |-> "absent"]]
  /\ saves = 0
  /\ upload = [u \in Uploaders |-> NoUpload]
  /\ dataset = [f \in Formats |-> 0]
  /\ raced = FALSE /\ clashed = FALSE

Staging == {s \in Savers : saving[s] # 0}
Uploading == {u \in Uploaders : upload[u].pc # "off"}
Torn == file.inode # 0 /\ file.version = 0

---------------------------------------------------------------------------
(* The agent                                                               *)

\* send_event
LogEvent ==
  /\ alive /\ version < MaxVersion
  /\ version' = version + 1
  /\ UNCHANGED <<alive, saving, staged, file, saves, upload, dataset, raced,
                 clashed>>

\* save_trajectory_local up to the rename: the trajectory is in the .tmp file,
\* which a second saver truncates and shares
Stage(s) ==
  /\ alive /\ saving[s] = 0 /\ version > 0 /\ saves < MaxSaves
  /\ saving' = [saving EXCEPT ![s] = version]
  /\ staged' = TRUE
  /\ clashed' = (clashed \/ Staging # {})
  /\ UNCHANGED <<version, alive, file, saves, upload, dataset, raced>>

\* an uploader process for each format starts: _spawn_uploader
Free(f) == {n \in 1 .. Procs[f] : upload[f, n].pc = "off"}
Spawn(rescan) ==
  /\ \A f \in Formats : Free(f) # {}
  /\ upload' = [u \in Uploaders |->
        IF u[2] = CHOOSE n \in Free(u[1]) : TRUE
        THEN [NoUpload EXCEPT !.pc = "read", !.rescan = rescan]
        ELSE upload[u]]

\* the rename: torn while another saver still writes to the same inode
Land(s, status) ==
  /\ alive /\ saving[s] # 0 /\ staged /\ saves < MaxSaves
  /\ saving' = [saving EXCEPT ![s] = 0]
  /\ staged' = FALSE
  /\ saves' = saves + 1
  /\ file' = [inode |-> saves', status |-> status,
              version |-> IF Staging = {s} THEN saving[s] ELSE 0]
  /\ Spawn(FALSE)
  /\ raced' = (raced \/ \E u \in Uploading : upload[u].pc # "read")
  /\ UNCHANGED <<version, alive, dataset, clashed>>

\* mutant: a save keeps the statuses of the file it replaces
Save_KeepsStatus(s) ==
  Land(s, [file.status EXCEPT !["row"] = IF @ = "absent" THEN "pending" ELSE @])

\* save_and_upload_detached; there is no personal status in a fresh file
Save(s) ==
  Land(s, [f \in Formats |-> IF f = "row" THEN "pending" ELSE "absent"])

\* the other saver has renamed the .tmp file away: the save fails, and the
\* shared inode ends up with whatever the two wrote
SaveFails(s) ==
  /\ alive /\ saving[s] # 0 /\ ~staged
  /\ saving' = [saving EXCEPT ![s] = 0]
  /\ file' \in {file} \cup (IF Torn THEN {[file EXCEPT !.version = saving[s]]} ELSE {})
  /\ UNCHANGED <<version, alive, staged, saves, upload, dataset, raced, clashed>>

\* the agent process ends anywhere; its uploaders go on
AgentDies ==
  /\ alive /\ alive' = FALSE
  /\ saving' = [s \in Savers |-> 0]
  /\ UNCHANGED <<version, staged, file, saves, upload, dataset, raced, clashed>>

\* another agent starts: retry_failed_uploads_detached
Rescan ==
  /\ ~alive /\ file.inode # 0
  /\ Spawn(TRUE)
  /\ UNCHANGED <<version, alive, saving, staged, file, saves, dataset, raced,
                 clashed>>

---------------------------------------------------------------------------
(* session_uploader                                                        *)

Becomes(u, r) == upload' = [upload EXCEPT ![u] = r]
AgentSame == UNCHANGED <<version, alive, saving, staged, saves, raced, clashed>>

\* retry_failed_uploads leaves a file alone that has no personal status
Wanted(u) ==
  /\ ~Torn /\ file.status[u[1]] # "success"
  /\ upload[u].rescan /\ u[1] = "personal" => file.status[u[1]] # "absent"

\* _read_session_file, then the payload, unless there is no token
ReadFile(u) ==
  /\ upload[u].pc = "read"
  /\ IF Wanted(u)
     THEN \/ Becomes(u, [upload[u] EXCEPT !.pc = "post", !.seen = file.version])
          \/ Becomes(u, [upload[u] EXCEPT !.pc = "open", !.verdict = "failed"])
     ELSE Becomes(u, NoUpload)
  /\ AgentSame /\ UNCHANGED <<file, dataset>>

\* upload_file has put the payload into the dataset
Post(u) ==
  /\ upload[u].pc = "post"
  /\ dataset' = [dataset EXCEPT ![u[1]] = upload[u].seen]
  /\ Becomes(u, [upload[u] EXCEPT !.pc = "open", !.verdict = "success"])
  /\ AgentSame /\ UNCHANGED file

\* another attempt after a delay, or the status "failed" after the last
TryAgain(u) ==
  LET n == upload[u].tries + 1
  IN Becomes(u, IF n < UploadTries
                THEN [upload[u] EXCEPT !.tries = n, !.pc = "post"]
                ELSE [upload[u] EXCEPT !.tries = n, !.pc = "open",
                                       !.verdict = "failed"])

\* an exception, perhaps after the dataset has taken the file
PostFails(u) ==
  /\ upload[u].pc = "post"
  /\ dataset' \in {dataset, [dataset EXCEPT ![u[1]] = upload[u].seen]}
  /\ TryAgain(u)
  /\ AgentSame /\ UNCHANGED file

\* _update_upload_status opens the file, whichever is there by now
OpenFile(u) ==
  /\ upload[u].pc = "open"
  /\ Becomes(u, [upload[u] EXCEPT !.pc = "write", !.inode = file.inode])
  /\ AgentSame /\ UNCHANGED <<file, dataset>>

\* under the lock: read the record again and change one field.  A save may
\* have replaced the file, then the write is lost; a torn one is an exception,
\* which fails the attempt
WriteStatus(u) ==
  /\ upload[u].pc = "write"
  /\ IF upload[u].inode = file.inode /\ Torn
     THEN /\ IF upload[u].verdict = "success" THEN TryAgain(u)
             ELSE Becomes(u, NoUpload)
          /\ UNCHANGED file
     ELSE /\ Becomes(u, NoUpload)
          /\ file' = IF upload[u].inode = file.inode
                     THEN [file EXCEPT !.status[u[1]] =
                                          upload[u].verdict]
                     ELSE file
  /\ AgentSame /\ UNCHANGED dataset

---------------------------------------------------------------------------
Upload(u) ==
  ReadFile(u) \/ Post(u) \/ PostFails(u) \/ OpenFile(u) \/ WriteStatus(u)

UploadNext ==
  \/ LogEvent \/ AgentDies \/ Rescan
  \/ \E s \in Savers : Stage(s) \/ Save(s) \/ SaveFails(s)
  \/ \E u \in Uploaders : Upload(u)

UploadSpec == UploadInit /\ [][UploadNext]_uploadVars

---------------------------------------------------------------------------
\* A file marked as uploaded is uploaded in this version, as long as no save
\* has replaced it under a running uploader: the next save has to be uploaded
\* again, and a rescan may skip the file.
SuccessIsCurrent ==
  ~raced /\ ~clashed => \A f \in Formats :
    file.status[f] = "success" => dataset[f] = file.version

(* Promises of comments that the code does not keep (README, section 3).    *)

\* "Upload a single session as an individual JSONL file (no race conditions)":
\* when no uploader runs, a file marked as uploaded is uploaded.
NewestUploaded ==
  Uploading = {} /\ ~clashed => \A f \in Formats :
    file.status[f] = "success" => dataset[f] = file.version

\* "stage to .tmp then rename": the file is whole, whoever saves.
AlwaysWhole == Staging = {} => ~Torn
=============================================================================
