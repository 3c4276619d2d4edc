------------------------ MODULE ServiceParts_proofs -------------------------
(***************************************************************************)
(* Theorems about three of the parts that ServicePartsMC runs side by side: *)
(* the upload of trajectories, the sandbox and the command line client.  Each *)
(* has an inductive invariant, one lemma for each of its actions, and its  *)
(* theorems.  The gateway's are in a module of their own; what all four    *)
(* together keep is the last theorem.                                      *)
(***************************************************************************)
EXTENDS ServicePartsMC, NotificationGateway_proofs, TLAPS

---------------------------------------------------------------------------
(***************************************************************************)
(* Uploads of trajectories                                                 *)
(* A file marked as uploaded is uploaded in its present version, for any   *)
(* number of savers, uploaders, versions and attempts, unless two savers have *)
(* shared the staged file or a save has replaced the file under an uploader *)
(* that had read it.  Uploaders hold what they have read for several steps, so *)
(* the invariant says of each of them that it is about to write a true status: *)
(* what it will post is the version of the file (Current), and once it reports *)
(* success the dataset has that version (Posted).  A save that finds nobody *)
(* beyond the read changes the version under no one.                       *)
(***************************************************************************)

Records ==
  [pc : {"off", "read", "post", "open", "write"}, seen : 0 .. MaxVersion,
   tries : 0 .. UploadTries, inode : 0 .. MaxSaves, verdict : Status,
   rescan : BOOLEAN]

\* who may fail has an attempt left
AttemptsLeft ==
  \A u \in Uploaders :
    \/ upload[u].pc \in {"read", "post"}
    \/ upload[u].pc \in {"open", "write"} /\ upload[u].verdict = "success"
    => upload[u].tries < UploadTries

\* savers that take turns write whole files
TakingTurns ==
  ~clashed => /\ \A s, t \in Savers : saving[s] # 0 /\ saving[t] # 0 => s = t
              /\ ~Torn

Current == \A u \in Uploaders : upload[u].pc = "post" => upload[u].seen = file.version

Posted ==
  \A u \in Uploaders :
    upload[u].pc \in {"open", "write"} /\ upload[u].verdict = "success"
    => dataset[u[1]] = file.version

Marked == \A f \in Formats : file.status[f] = "success" => dataset[f] = file.version

Truthful == ~raced /\ ~clashed => Current /\ Posted /\ Marked

UploadInv == UploadTypeOK /\ AttemptsLeft /\ TakingTurns /\ Truthful

---------------------------------------------------------------------------
\* An uploader is one of its format's.
LEMMA UploaderFormat ==
  /\ \A u \in Uploaders : u[1] \in Formats /\ u[2] \in 1 .. Procs[u[1]]
  /\ \A f \in Formats : \A n \in 1 .. Procs[f] : <<f, n>> \in Uploaders
BY DEF Uploaders

LEMMA NoUploadRecord == NoUpload \in Records
BY UploadAssumption DEF NoUpload, Records, Status

LEMMA UploadStarts == UploadInit => UploadInv
<1> SUFFICES ASSUME UploadInit PROVE UploadInv
  OBVIOUS
<1> USE UploadAssumption DEF UploadInit
<1>1. UploadTypeOK
  <2>1. upload \in [Uploaders -> Records]
    BY NoUploadRecord
  <2>2. file \in [inode : 0 .. MaxSaves, version : 0 .. MaxVersion,
                 status : [Formats -> Status]]
    BY DEF Status
  <2> QED BY <2>1, <2>2 DEF UploadTypeOK, Records
<1>2. \A u \in Uploaders : upload[u].pc = "off"
  BY DEF NoUpload
<1> QED BY <1>1, <1>2 DEF UploadInv, AttemptsLeft, TakingTurns, Torn, Truthful, Current,
                          Posted, Marked

---------------------------------------------------------------------------
(* The agent                                                               *)

NewOrSame(u) ==
  (upload'[u].pc = "read" /\ upload'[u].tries = 0) \/ upload'[u] = upload[u]

\* New uploaders have read nothing, the others are left alone.
LEMMA SpawnKeeps ==
  ASSUME UploadTypeOK, NEW rescan \in BOOLEAN, Spawn(rescan)
  PROVE  /\ upload' \in [Uploaders -> Records]
         /\ \A u \in Uploaders : NewOrSame(u)
<1>1. [NoUpload EXCEPT !.pc = "read", !.rescan = rescan] \in Records
  BY NoUploadRecord DEF Records
<1>2. /\ [NoUpload EXCEPT !.pc = "read", !.rescan = rescan].pc = "read"
      /\ [NoUpload EXCEPT !.pc = "read", !.rescan = rescan].tries = 0
  BY DEF NoUpload
<1>3. upload \in [Uploaders -> Records]
  BY DEF UploadTypeOK, Records
<1> QED BY <1>1, <1>2, <1>3, Zenon DEF Spawn, NewOrSame

LEMMA SaveKeeps ==
  ASSUME UploadInv, NEW s \in Savers, Save(s)
  PROVE  UploadInv'
<1> DEFINE status == [f \in Formats |-> IF f = "row" THEN "pending" ELSE "absent"]
<1>1. Land(s, status)
  BY DEF Save
<1>2. /\ upload' \in [Uploaders -> Records]
      /\ \A u \in Uploaders : NewOrSame(u)
  BY <1>1, SpawnKeeps DEF Land, UploadInv
<1>3. file' = [inode |-> saves + 1, status |-> status,
               version |-> IF Staging = {s} THEN saving[s] ELSE 0]
  BY <1>1 DEF Land
<1>4. UploadTypeOK'
  <2>1. file' \in [inode : 0 .. MaxSaves, version : 0 .. MaxVersion,
                   status : [Formats -> Status]]
    BY <1>1, <1>3, UploadAssumption DEF Land, UploadInv, UploadTypeOK, Status
  <2>2. saves' \in 0 .. MaxSaves /\ saving' \in [Savers -> 0 .. MaxVersion]
    BY <1>1, UploadAssumption DEF Land, UploadInv, UploadTypeOK
  <2>3. upload' \in [Uploaders ->
       [pc : {"off", "read", "post", "open", "write"},
        seen : 0 .. MaxVersion, tries : 0 .. UploadTries, inode : 0 .. MaxSaves,
        verdict : Status, rescan : BOOLEAN]]
    BY <1>2 DEF Records
  <2>4. /\ version' = version /\ alive' = alive /\ dataset' = dataset /\ clashed' = clashed
        /\ staged' = FALSE /\ raced' \in BOOLEAN
    BY <1>1 DEF Land, UploadInv, UploadTypeOK
  <2> QED BY <2>1, <2>2, <2>3, <2>4 DEF UploadInv, UploadTypeOK
<1>5. AttemptsLeft'
  BY <1>2, UploadAssumption DEF UploadInv, AttemptsLeft, NewOrSame
<1>6. TakingTurns'
  <2> SUFFICES ASSUME ~clashed
               PROVE  /\ \A r, t \in Savers : saving'[r] # 0 /\ saving'[t] # 0 => r = t
                      /\ ~Torn'
    BY <1>1 DEF Land, TakingTurns
  <2>1. \A r, t \in Savers : saving[r] # 0 /\ saving[t] # 0 => r = t
    BY DEF UploadInv, TakingTurns
  <2>2. saving[s] # 0 /\ Staging = {s}
    BY <1>1, <2>1 DEF Land, Staging
  <2>3. file'.version = saving[s]
    BY <1>3, <2>2
  <2>4. \A r \in Savers : saving'[r] # 0 => saving[r] # 0
    BY <1>1 DEF Land, UploadInv, UploadTypeOK
  <2> QED BY <2>1, <2>2, <2>3, <2>4 DEF Torn
<1>7. Truthful'
  <2> SUFFICES ASSUME ~raced', ~clashed' PROVE Current' /\ Posted' /\ Marked'
    BY DEF Truthful
  <2>1. \A u \in Uploaders : upload[u].pc \in {"off", "read"}
    BY <1>1 DEF Land, Uploading
  <2>2. \A u \in Uploaders : upload'[u].pc \in {"off", "read"}
    BY <1>2, <2>1 DEF NewOrSame
  <2>3. Marked'
    BY <1>3 DEF Marked
  <2> QED BY <2>2, <2>3 DEF Current, Posted
<1> QED BY <1>4, <1>5, <1>6, <1>7 DEF UploadInv

LEMMA AgentKeeps ==
  ASSUME UploadInv,
         \/ LogEvent \/ AgentDies \/ Rescan
         \/ \E s \in Savers : Stage(s) \/ SaveFails(s)
  PROVE  UploadInv'
<1> USE UploadAssumption
<1>1. CASE LogEvent
  BY <1>1 DEF LogEvent, UploadInv, UploadTypeOK, AttemptsLeft, TakingTurns, Torn, Truthful,
              Current, Posted, Marked
<1>2. CASE AgentDies
  <2>1. UploadTypeOK'
    <3> DEFINE versions == 0 .. MaxVersion
    <3>0. 0 \in versions
      OBVIOUS
    <3> HIDE DEF versions
    <3>1. saving' \in [Savers -> versions] /\ alive' \in BOOLEAN
      BY <1>2, <3>0 DEF AgentDies
    <3> USE DEF versions
    <3> QED BY <1>2, <3>1 DEF AgentDies, UploadInv, UploadTypeOK
  <2>2. \A s \in Savers : saving'[s] = 0
    BY <1>2 DEF AgentDies
  <2>3. TakingTurns'
    BY <1>2, <2>2 DEF AgentDies, UploadInv, TakingTurns, Torn
  <2>4. AttemptsLeft' /\ Truthful'
    BY <1>2 DEF AgentDies, UploadInv, AttemptsLeft, Truthful, Current, Posted, Marked
  <2> QED BY <2>1, <2>3, <2>4 DEF UploadInv
<1>3. CASE Rescan
  <2>1. /\ upload' \in [Uploaders -> Records]
        /\ \A u \in Uploaders : NewOrSame(u)
    BY <1>3, SpawnKeeps DEF Rescan, UploadInv
  <2>2. UploadTypeOK'
    BY <1>3, <2>1 DEF Rescan, UploadInv, UploadTypeOK, Records
  <2>3. AttemptsLeft' /\ TakingTurns'
    BY <1>3, <2>1 DEF Rescan, UploadInv, AttemptsLeft, TakingTurns, Torn, NewOrSame
  <2>4. Truthful'
    BY <1>3, <2>1 DEF Rescan, UploadInv, Truthful, Current, Posted, Marked, NewOrSame
  <2> QED BY <2>2, <2>3, <2>4 DEF UploadInv
<1>4. ASSUME NEW s \in Savers, Stage(s) PROVE UploadInv'
  <2>1. UploadTypeOK'
    BY <1>4 DEF Stage, UploadInv, UploadTypeOK
  <2>2. TakingTurns'
    <3> SUFFICES ASSUME ~clashed'
                 PROVE  /\ \A r, t \in Savers : saving'[r] # 0 /\ saving'[t] # 0 => r = t
                        /\ ~Torn'
      BY DEF TakingTurns
    <3>1. ~clashed /\ \A r \in Savers : saving[r] = 0
      BY <1>4 DEF Stage, Staging
    <3> QED BY <1>4, <3>1 DEF Stage, UploadInv, UploadTypeOK, TakingTurns, Torn
  <2>3. AttemptsLeft' /\ Truthful'
    BY <1>4 DEF Stage, UploadInv, UploadTypeOK, AttemptsLeft, Truthful, Current, Posted,
                Marked
  <2> QED BY <2>1, <2>2, <2>3 DEF UploadInv
<1>5. ASSUME NEW s \in Savers, SaveFails(s) PROVE UploadInv'
  <2>1. UploadTypeOK'
    BY <1>5 DEF SaveFails, UploadInv, UploadTypeOK
  <2>2. ~clashed => file' = file
    BY <1>5 DEF SaveFails, UploadInv, TakingTurns
  <2>3. AttemptsLeft' /\ TakingTurns'
    BY <1>5, <2>2 DEF SaveFails, UploadInv, UploadTypeOK, AttemptsLeft, TakingTurns, Torn
  <2>4. Truthful'
    BY <1>5, <2>2 DEF SaveFails, UploadInv, Truthful, Current, Posted, Marked
  <2> QED BY <2>1, <2>3, <2>4 DEF UploadInv
<1> QED BY <1>1, <1>2, <1>3, <1>4, <1>5

---------------------------------------------------------------------------
(* session_uploader                                                        *)

\* What all steps of an uploader have in common.
LEMMA BecomesKeeps ==
  ASSUME UploadInv, AgentSame, NEW u \in Uploaders, NEW r \in Records, Becomes(u, r),
         file'.inode = file.inode, file'.version = file.version,
         file' \in [inode : 0 .. MaxSaves, version : 0 .. MaxVersion,
                   status : [Formats -> Status]],
         dataset' \in [Formats -> 0 .. MaxVersion],
         r.pc \in {"read", "post"} \/ (r.pc \in {"open", "write"} /\ r.verdict = "success")
           => r.tries < UploadTries
  PROVE  UploadTypeOK' /\ AttemptsLeft' /\ TakingTurns'
<1>1. UploadTypeOK'
  BY DEF AgentSame, Becomes, UploadInv, UploadTypeOK, Records
<1>2. \A v \in Uploaders : upload'[v] = IF v = u THEN r ELSE upload[v]
  BY DEF Becomes, UploadInv, UploadTypeOK
<1>3. AttemptsLeft'
  BY <1>2 DEF UploadInv, AttemptsLeft
<1>4. TakingTurns'
  BY DEF AgentSame, UploadInv, TakingTurns, Torn
<1> QED BY <1>1, <1>3, <1>4

\* An attempt that is made again, or given up.
LEMMA TryAgainRecord ==
  ASSUME UploadInv, NEW u \in Uploaders, upload[u].tries < UploadTries, TryAgain(u)
  PROVE  \E r \in Records :
           /\ Becomes(u, r) /\ r.seen = upload[u].seen
           /\ \/ r.pc = "post" /\ r.tries < UploadTries
              \/ r.pc = "open" /\ r.verdict = "failed"
<1> DEFINE n == upload[u].tries + 1
           again == [upload[u] EXCEPT !.tries = n, !.pc = "post"]
           over == [upload[u] EXCEPT !.tries = n, !.pc = "open", !.verdict = "failed"]
<1>1. upload[u] \in Records
  BY DEF UploadInv, UploadTypeOK, Records
<1>2. n \in 0 .. UploadTries
  BY <1>1, UploadAssumption DEF Records
<1>3. CASE n < UploadTries
  <2>1. again \in Records /\ again.seen = upload[u].seen /\ again.pc = "post"
        /\ again.tries = n
    BY <1>1, <1>2 DEF Records
  <2>2. Becomes(u, again)
    BY <1>3 DEF TryAgain
  <2> QED BY <1>3, <2>1, <2>2
<1>4. CASE ~(n < UploadTries)
  <2>1. over \in Records /\ over.seen = upload[u].seen /\ over.pc = "open"
        /\ over.verdict = "failed"
    BY <1>1, <1>2 DEF Records, Status
  <2>2. Becomes(u, over)
    BY <1>4 DEF TryAgain
  <2> QED BY <2>1, <2>2
<1> QED BY <1>3, <1>4

LEMMA UploadKeeps ==
  ASSUME UploadInv, NEW u \in Uploaders, Upload(u)
  PROVE  UploadInv'
<1> USE UploadAssumption
<1>1. upload[u] \in Records /\ u[1] \in Formats
  BY UploaderFormat DEF UploadInv, UploadTypeOK, Records
<1>2. file \in [inode : 0 .. MaxSaves, version : 0 .. MaxVersion,
               status : [Formats -> Status]]
      /\ dataset \in [Formats -> 0 .. MaxVersion]
  BY DEF UploadInv, UploadTypeOK
<1>3. ASSUME NEW r \in Records, Becomes(u, r)
      PROVE  \A v \in Uploaders : upload'[v] = IF v = u THEN r ELSE upload[v]
  BY <1>3 DEF Becomes, UploadInv, UploadTypeOK
<1>4. NoUpload \in Records /\ NoUpload.pc = "off"
  BY NoUploadRecord DEF NoUpload
<1>5. CASE ReadFile(u)
  <2>1. AgentSame /\ UNCHANGED <<file, dataset>>
    BY <1>5 DEF ReadFile
  <2>2. \E r \in Records :
          /\ Becomes(u, r)
          /\ \/ r.pc = "post" /\ r.seen = file.version /\ r.tries = upload[u].tries
                /\ ~Torn
             \/ r.pc = "open" /\ r.verdict = "failed"
             \/ r.pc = "off"
    <3> DEFINE reads == [upload[u] EXCEPT !.pc = "post", !.seen = file.version]
               fails == [upload[u] EXCEPT !.pc = "open", !.verdict = "failed"]
    <3>1. /\ reads \in Records /\ reads.pc = "post" /\ reads.seen = file.version
          /\ reads.tries = upload[u].tries
          /\ fails \in Records /\ fails.pc = "open" /\ fails.verdict = "failed"
      BY <1>1, <1>2 DEF Records, Status
    <3> QED BY <1>4, <1>5, <3>1 DEF ReadFile, Wanted
  <2>3. PICK r \in Records :
          /\ Becomes(u, r)
          /\ \/ r.pc = "post" /\ r.seen = file.version /\ r.tries = upload[u].tries
                /\ ~Torn
             \/ r.pc = "open" /\ r.verdict = "failed"
             \/ r.pc = "off"
    BY <2>2
  <2>4. upload[u].tries < UploadTries
    BY <1>5 DEF ReadFile, UploadInv, AttemptsLeft
  <2>5. UploadTypeOK' /\ AttemptsLeft' /\ TakingTurns'
    BY <1>2, <2>1, <2>3, <2>4, BecomesKeeps
  <2>6. Truthful'
    BY <1>3, <2>1, <2>3 DEF AgentSame, UploadInv, Truthful, Current, Posted, Marked
  <2> QED BY <2>5, <2>6 DEF UploadInv
<1>6. CASE Post(u)
  <2> DEFINE r == [upload[u] EXCEPT !.pc = "open", !.verdict = "success"]
  <2>1. /\ r \in Records /\ r.pc = "open" /\ r.verdict = "success"
        /\ r.tries = upload[u].tries
    BY <1>1 DEF Records, Status
  <2>2. AgentSame /\ UNCHANGED file /\ Becomes(u, r)
        /\ dataset' = [dataset EXCEPT ![u[1]] = upload[u].seen]
    BY <1>6 DEF Post
  <2>3. dataset' \in [Formats -> 0 .. MaxVersion] /\ upload[u].tries < UploadTries
    BY <1>1, <1>2, <1>6, <2>2 DEF Post, UploadInv, AttemptsLeft, Records
  <2>4. UploadTypeOK' /\ AttemptsLeft' /\ TakingTurns'
    BY <1>2, <2>1, <2>2, <2>3, BecomesKeeps
  <2>5. ASSUME ~raced', ~clashed' PROVE Current' /\ Posted' /\ Marked'
    <3>1. Current /\ Posted /\ Marked
      BY <2>2, <2>5 DEF AgentSame, UploadInv, Truthful
    <3>2. dataset'[u[1]] = file.version
          /\ \A f \in Formats \ {u[1]} : dataset'[f] = dataset[f]
      BY <1>1, <1>2, <1>6, <2>2, <3>1 DEF Post, Current
    <3>3. Posted' /\ Marked'
      BY <1>3, <2>1, <2>2, <3>1, <3>2, UploaderFormat DEF Posted, Marked
    <3>4. Current'
      BY <1>3, <2>1, <2>2, <3>1 DEF Current
    <3> QED BY <3>3, <3>4
  <2> QED BY <2>4, <2>5 DEF UploadInv, Truthful
<1>7. CASE PostFails(u)
  <2>1. /\ AgentSame /\ UNCHANGED file /\ TryAgain(u) /\ upload[u].pc = "post"
        /\ dataset' \in {dataset, [dataset EXCEPT ![u[1]] = upload[u].seen]}
    BY <1>7 DEF PostFails
  <2>2. dataset' \in [Formats -> 0 .. MaxVersion] /\ upload[u].tries < UploadTries
    BY <1>1, <1>2, <2>1 DEF UploadInv, AttemptsLeft, Records
  <2>3. PICK r \in Records :
          /\ Becomes(u, r) /\ r.seen = upload[u].seen
          /\ \/ r.pc = "post" /\ r.tries < UploadTries
             \/ r.pc = "open" /\ r.verdict = "failed"
    BY <2>1, <2>2, TryAgainRecord
  <2>4. UploadTypeOK' /\ AttemptsLeft' /\ TakingTurns'
    BY <1>2, <2>1, <2>2, <2>3, BecomesKeeps
  <2>5. ASSUME ~raced', ~clashed' PROVE Current' /\ Posted' /\ Marked'
    <3>1. Current /\ Posted /\ Marked
      BY <2>1, <2>5 DEF AgentSame, UploadInv, Truthful
    <3>2. \A f \in Formats : dataset'[f] = dataset[f] \/ dataset'[f] = file.version
      BY <1>1, <1>2, <2>1, <3>1 DEF Current
    <3>3. Posted' /\ Marked'
      BY ZenonT(40), <1>3, <2>1, <2>3, <3>1, <3>2, UploaderFormat DEF Posted, Marked
    <3>4. Current'
      BY <1>3, <2>1, <2>3, <3>1 DEF Current
    <3> QED BY <3>3, <3>4
  <2> QED BY <2>4, <2>5 DEF UploadInv, Truthful
<1>8. CASE OpenFile(u)
  <2> DEFINE r == [upload[u] EXCEPT !.pc = "write", !.inode = file.inode]
  <2>1. /\ r \in Records /\ r.pc = "write" /\ r.verdict = upload[u].verdict
        /\ r.tries = upload[u].tries
    BY <1>1, <1>2 DEF Records
  <2>2. AgentSame /\ UNCHANGED <<file, dataset>> /\ Becomes(u, r) /\ upload[u].pc = "open"
    BY <1>8 DEF OpenFile
  <2>3. r.verdict = "success" => r.tries < UploadTries
    BY <2>1, <2>2 DEF UploadInv, AttemptsLeft
  <2>4. UploadTypeOK' /\ AttemptsLeft' /\ TakingTurns'
    BY <1>2, <2>1, <2>2, <2>3, BecomesKeeps
  <2>5. ASSUME ~raced', ~clashed' PROVE Current' /\ Posted' /\ Marked'
    <3>1. Current /\ Posted /\ Marked
      BY <2>2, <2>5 DEF AgentSame, UploadInv, Truthful
    <3> HIDE DEF r
    <3>2. \A v \in Uploaders : upload'[v] = IF v = u THEN r ELSE upload[v]
      BY <1>3, <2>1, <2>2
    <3>3. Current'
      BY <2>1, <2>2, <3>1, <3>2 DEF Current
    <3>4. Posted' /\ Marked'
      BY <2>1, <2>2, <3>1, <3>2 DEF Posted, Marked
    <3> QED BY <3>3, <3>4
  <2> QED BY <2>4, <2>5 DEF UploadInv, Truthful
<1>9. CASE WriteStatus(u)
  <2>1. AgentSame /\ UNCHANGED dataset /\ upload[u].pc = "write"
    BY <1>9 DEF WriteStatus
  <2>2. CASE upload[u].verdict = "success" /\ TryAgain(u) /\ Torn /\ UNCHANGED file
    <3>1. upload[u].tries < UploadTries
      BY <2>1, <2>2 DEF UploadInv, AttemptsLeft
    <3>2. PICK r \in Records :
            /\ Becomes(u, r)
            /\ \/ r.pc = "post" /\ r.tries < UploadTries
               \/ r.pc = "open" /\ r.verdict = "failed"
      BY <2>2, <3>1, TryAgainRecord
    <3>3. UploadTypeOK' /\ AttemptsLeft' /\ TakingTurns'
      BY <1>2, <2>1, <2>2, <3>2, BecomesKeeps
    <3>4. clashed'
      BY <2>1, <2>2 DEF AgentSame, UploadInv, TakingTurns
    <3> QED BY <3>3, <3>4 DEF UploadInv, Truthful
  <2>3. CASE Becomes(u, NoUpload) /\ UNCHANGED file
    <3>1. UploadTypeOK' /\ AttemptsLeft' /\ TakingTurns'
      BY <1>2, <1>4, <2>1, <2>3, BecomesKeeps
    <3>2. Truthful'
      BY <1>3, <1>4, <2>1, <2>3 DEF AgentSame, UploadInv, Truthful, Current, Posted, Marked
    <3> QED BY <3>1, <3>2 DEF UploadInv
  <2>4. CASE /\ Becomes(u, NoUpload)
             /\ file' = [file EXCEPT !.status[u[1]] = upload[u].verdict]
    <3>1. /\ file'.inode = file.inode /\ file'.version = file.version
          /\ file' \in [inode : 0 .. MaxSaves, version : 0 .. MaxVersion,
                        status : [Formats -> Status]]
          /\ file'.status = [file.status EXCEPT ![u[1]] = upload[u].verdict]
      BY <1>1, <1>2, <2>4 DEF Records
    <3>2. UploadTypeOK' /\ AttemptsLeft' /\ TakingTurns'
      BY <1>2, <1>4, <2>1, <2>4, <3>1, BecomesKeeps
    <3>3. ASSUME ~raced', ~clashed' PROVE Current' /\ Posted' /\ Marked'
      <4>1. Current /\ Posted /\ Marked
        BY <2>1, <3>3 DEF AgentSame, UploadInv, Truthful
      <4>2. Current' /\ Posted'
        BY <1>3, <1>4, <2>1, <2>4, <3>1, <4>1 DEF Current, Posted
      <4>3. \A f \in Formats : file'.status[f] = file.status[f]
              \/ (f = u[1] /\ file'.status[f] = upload[u].verdict)
        BY <1>1, <1>2, <3>1
      <4>4. Marked'
        BY <2>1, <3>1, <4>1, <4>3 DEF Marked, Posted
      <4> QED BY <4>2, <4>4
    <3> QED BY <3>2, <3>3 DEF UploadInv, Truthful
  <2> QED BY <1>9, <2>2, <2>3, <2>4 DEF WriteStatus
<1> QED BY <1>5, <1>6, <1>7, <1>8, <1>9 DEF Upload

LEMMA UploadStep == UploadInv /\ [UploadNext]_uploadVars => UploadInv'
<1> SUFFICES ASSUME UploadInv, [UploadNext]_uploadVars PROVE UploadInv'
  OBVIOUS
<1>1. CASE UNCHANGED uploadVars
  BY <1>1 DEF uploadVars, UploadInv, UploadTypeOK, AttemptsLeft, TakingTurns, Torn,
              Truthful, Current, Posted, Marked
<1>2. CASE UploadNext
  BY <1>2, AgentKeeps, SaveKeeps, UploadKeeps DEF UploadNext
<1> QED BY <1>1, <1>2

---------------------------------------------------------------------------
(* The theorems                                                            *)

\* The invariant of the local file and its uploaders, for any numbers of them.
THEOREM UploadInvariant == UploadSpec => []UploadInv
BY UploadStarts, UploadStep, PTL DEF UploadSpec

\* Every variable of the uploads keeps its type.
THEOREM UploadTypeCorrect == UploadSpec => []UploadTypeOK
<1>1. UploadInv => UploadTypeOK
  BY DEF UploadInv
<1> QED BY <1>1, UploadInvariant, PTL

\* _update_upload_status tells the truth: a file marked "success" is in the
\* dataset in its present version, so retry_failed_uploads may leave it alone.
THEOREM MarkedIsUploaded == UploadSpec => []SuccessIsCurrent
<1>1. UploadInv => SuccessIsCurrent
  BY DEF UploadInv, Truthful, Marked, SuccessIsCurrent
<1> QED BY <1>1, UploadInvariant, PTL

---------------------------------------------------------------------------
(***************************************************************************)
(* The sandbox                                                             *)
(* Sandboxes are created one at a time, and every Space that was made and not *)
(* deleted is still somebody's to delete, for any number of turns, jobs,   *)
(* restorers, Spaces and attempts, interrupts, teardowns and restarts.     *)
(***************************************************************************)

\* A creation whose thread has a Space, and has not yet given it up.
Occupied == {"builds", "starts", "probes", "returned"}

\* A creation that is past the lock holds it, and nothing is installed meanwhile.
Locks ==
  \A m \in Makers :
    /\ coroutine[m] \in {"creates", "persists", "deletes"} => lock = m
    /\ coroutine[m] = "creates" => sandbox = 0

\* A coroutine deletes what its thread returned, a busy thread has a Space, and a
\* coroutine that has not started its thread, or is done with it, has none; nothing
\* is created before the session is.
Threads ==
  /\ \A m \in Makers :
       /\ coroutine[m] = "deletes" => thread[m].pc = "returned"
       /\ thread[m].pc \in Occupied => thread[m].space # 0
       /\ coroutine[m] \in {"awaits", "tears", "locks", "persists"}
          => thread[m].pc = "none"
  /\ present = "new" => \A m \in Makers : coroutine[m] = "off" /\ thread[m].pc = "none"

\* A create call tears down only while it is in that step; a teardown and a restore
\* that delete have something to delete, and an attempt left to do it.
Tears ==
  /\ \A c \in CreateCalls : teardown[c].pc # "off" => coroutine[c] = "tears"
  /\ \A t \in Tearers :
       /\ teardown[t].pc \in {"waits", "takes", "deletes"}
          => teardown[t].tries < SandboxTries
       /\ teardown[t].pc = "deletes" => teardown[t].took # 0
  /\ \A r \in Restorers : restore[r].pc = "deletes" => restore[r].seen # 0

\* Somebody in the running process still has the Space to use or to delete, or its
\* loss was reported.
Held(i) ==
  \/ i = sandbox \/ i \in given_up
  \/ \E m \in Makers : thread[m].pc \in Occupied /\ thread[m].space = i
  \/ \E t \in Tearers : teardown[t].pc = "deletes" /\ teardown[t].took = i

\* The process is gone and the Space is on record: whoever restores the session is
\* to delete it.
OnlyRecorded(i) ==
  /\ record = i /\ present = "no"
  /\ \A m \in Makers : coroutine[m] = "off" /\ thread[m].pc = "none"
  /\ \A t \in Tearers : teardown[t].pc \in {"off", "over"}
  /\ \A r \in Restorers :
       restore[r].pc # "loads" /\ (restore[r].pc = "deletes" => restore[r].seen = i)

\* The strengthening that NoSpaceIsLost needs: at every moment, a Space that is up
\* has somebody to see to it.
NoneLost == \A i \in Ids : spaces[i] = "up" => Held(i) \/ OnlyRecorded(i)

---------------------------------------------------------------------------
\* What an assignment to one field of a thread or of a teardown leaves of it.
LEMMA ThreadEdit ==
  ASSUME NEW P, NEW S, NEW x \in [pc : P, space : S], NEW p \in P
  PROVE  /\ [x EXCEPT !.pc = p] = [pc |-> p, space |-> x.space]
         /\ [x EXCEPT !.pc = p] \in [pc : P, space : S]
OBVIOUS

LEMMA TeardownEdit ==
  ASSUME NEW P, NEW S, NEW T, NEW x \in [pc : P, took : S, tries : T], NEW p \in P
  PROVE  [x EXCEPT !.pc = p] = [pc |-> p, took |-> x.took, tries |-> x.tries]
OBVIOUS

\* The teardowns that a call begins with.
LEMMA FreshTeardowns == Called \in TeardownStates /\ NoTeardown \in TeardownStates
BY SandboxAssumption DEF Called, NoTeardown, TeardownStates

SandboxInv == SandboxTypeOK /\ Locks /\ Threads /\ Tears /\ NoneLost


LEMMA StartPreloadKeeps ==
  ASSUME SandboxInv, StartPreload
  PROVE  SandboxInv'
<1> USE DEF StartPreload, Goes, pool, Makers, Tearers, SandboxInv,
           CoroutineStates, ThreadStates, TeardownStates, RestoreStates
<1>1. SandboxTypeOK'
  BY SandboxAssumption DEF SandboxTypeOK, Threads, Tears, Occupied, Ids
<1>2. Locks'
  BY SandboxAssumption DEF SandboxTypeOK, Locks, Threads
<1>3. Threads'
  BY SandboxAssumption DEF SandboxTypeOK, Threads, Tears, Occupied, Ids
<1>4. Tears'
  BY SandboxAssumption DEF SandboxTypeOK, Tears
<1>5. NoneLost'
  BY SandboxAssumption DEF SandboxTypeOK, NoneLost, Held, OnlyRecorded, Threads, Locks, Occupied
<1> QED BY <1>1, <1>2, <1>3, <1>4, <1>5

LEMMA CreateCallKeeps ==
  ASSUME SandboxInv, NEW c \in CreateCalls, NEW hardware \in {"cpu", "gpu"}, CreateCall(c, hardware)
  PROVE  SandboxInv'
<1> USE DEF CreateCall, Goes, Preloading, pool, Makers, Tearers, SandboxInv,
           CoroutineStates, ThreadStates, TeardownStates, RestoreStates
<1>1. SandboxTypeOK'
  <2>1. flag' \in [Makers -> BOOLEAN]
    BY DEF SandboxTypeOK
  <2>2. coroutine' \in [Makers -> CoroutineStates]
    BY DEF SandboxTypeOK
  <2>3. teardown' \in [Tearers -> TeardownStates]
    <3> HIDE DEF TeardownStates
    <3>1. /\ teardown \in [Tearers -> TeardownStates]
          /\ \/ teardown' = [teardown EXCEPT ![c] = Called]
             \/ teardown' = teardown
      BY DEF SandboxTypeOK
    <3> QED BY <3>1, FreshTeardowns
  <2>4. wants' \in [Makers -> {"cpu", "gpu"}]
    BY DEF SandboxTypeOK
  <2> QED BY <2>1, <2>2, <2>3, <2>4 DEF SandboxTypeOK
<1>2. Locks'
  BY SandboxAssumption DEF SandboxTypeOK, Locks, Threads
<1>3. Threads'
  BY SandboxAssumption DEF SandboxTypeOK, Threads, Tears, Occupied, Ids
<1>4. Tears'
  BY SandboxAssumption DEF SandboxTypeOK, Tears, Called
<1>5. NoneLost'
  <2> SUFFICES ASSUME NEW i \in Ids, spaces[i] = "up" PROVE Held(i)'
    BY DEF NoneLost
  <2>1. Held(i)
    BY DEF NoneLost, OnlyRecorded
  <2>2. \A t \in Tearers : teardown[t].pc = "deletes" => teardown'[t] = teardown[t]
    BY SandboxAssumption DEF SandboxTypeOK, Tears
  <2> QED BY <2>1, <2>2 DEF Held
<1> QED BY <1>1, <1>2, <1>3, <1>4, <1>5

LEMMA CreateAwaitedKeeps ==
  ASSUME SandboxInv, NEW c \in CreateCalls, CreateAwaited(c)
  PROVE  SandboxInv'
<1> USE DEF CreateAwaited, Goes, pool, Makers, Tearers, SandboxInv,
           CoroutineStates, ThreadStates, TeardownStates, RestoreStates
<1>1. SandboxTypeOK'
  <2>1. coroutine' \in [Makers -> CoroutineStates]
    BY DEF SandboxTypeOK
  <2>2. teardown' \in [Tearers -> TeardownStates]
    <3> HIDE DEF TeardownStates
    <3>1. /\ teardown \in [Tearers -> TeardownStates]
          /\ \/ teardown' = [teardown EXCEPT ![c] = Called]
             \/ teardown' = teardown
      BY DEF SandboxTypeOK
    <3> QED BY <3>1, FreshTeardowns
  <2> QED BY <2>1, <2>2 DEF SandboxTypeOK
<1>2. Locks'
  BY SandboxAssumption DEF SandboxTypeOK, Locks, Threads
<1>3. Threads'
  BY SandboxAssumption DEF SandboxTypeOK, Threads, Tears, Occupied, Ids
<1>4. Tears'
  BY SandboxAssumption DEF SandboxTypeOK, Tears, Called
<1>5. NoneLost'
  <2> SUFFICES ASSUME NEW i \in Ids, spaces[i] = "up" PROVE Held(i)'
    BY DEF NoneLost
  <2>1. Held(i)
    BY DEF NoneLost, OnlyRecorded, SandboxTypeOK
  <2>2. \A t \in Tearers : teardown[t].pc = "deletes" => teardown'[t] = teardown[t]
    BY SandboxAssumption DEF SandboxTypeOK, Tears
  <2> QED BY <2>1, <2>2 DEF Held
<1> QED BY <1>1, <1>2, <1>3, <1>4, <1>5

LEMMA CreateTornDownKeeps ==
  ASSUME SandboxInv, NEW c \in CreateCalls, CreateTornDown(c)
  PROVE  SandboxInv'
<1> USE DEF CreateTornDown, Goes, NoTeardown, pool, Makers, Tearers, SandboxInv,
           CoroutineStates, ThreadStates, TeardownStates, RestoreStates
<1>1. SandboxTypeOK'
  BY SandboxAssumption DEF SandboxTypeOK, Threads, Tears, Occupied, Ids
<1>2. Locks'
  BY SandboxAssumption DEF SandboxTypeOK, Locks, Threads
<1>3. Threads'
  BY SandboxAssumption DEF SandboxTypeOK, Threads, Tears, Occupied, Ids
<1>4. Tears'
  BY SandboxAssumption DEF SandboxTypeOK, Tears
<1>5. NoneLost'
  BY SandboxAssumption DEF SandboxTypeOK, NoneLost, Held, OnlyRecorded, Threads, Locks, Occupied
<1> QED BY <1>1, <1>2, <1>3, <1>4, <1>5

LEMMA CancelCallKeeps ==
  ASSUME SandboxInv, NEW c \in CreateCalls, CancelCall(c)
  PROVE  SandboxInv'
<1> USE DEF CancelCall, CancelCoroutine, Leaves, Goes, NoTeardown, NoThread, pool, Makers, Tearers, SandboxInv,
           CoroutineStates, ThreadStates, TeardownStates, RestoreStates
<1>1. SandboxTypeOK'
  BY SandboxAssumption DEF SandboxTypeOK, Threads, Tears, Occupied, Ids
<1>2. Locks'
  BY SandboxAssumption DEF SandboxTypeOK, Locks, Threads
<1>3. Threads'
  BY SandboxAssumption DEF SandboxTypeOK, Threads, Tears, Occupied, Ids
<1>4. Tears'
  BY SandboxAssumption DEF SandboxTypeOK, Tears
<1>5. NoneLost'
  BY SandboxAssumption DEF SandboxTypeOK, NoneLost, Held, OnlyRecorded, Threads, Locks, Occupied
<1> QED BY <1>1, <1>2, <1>3, <1>4, <1>5

LEMMA LockedKeeps ==
  ASSUME SandboxInv, NEW m \in Makers, Locked(m)
  PROVE  SandboxInv'
<1> USE DEF Locked, Begin, Goes, pool, Makers, Tearers, SandboxInv,
           CoroutineStates, ThreadStates, TeardownStates, RestoreStates
<1>1. SandboxTypeOK'
  <2>1. coroutine' \in [Makers -> CoroutineStates]
    BY DEF SandboxTypeOK
  <2>2. thread' \in [Makers -> ThreadStates]
    BY SandboxAssumption DEF SandboxTypeOK
  <2>3. flag' \in [Makers -> BOOLEAN]
    BY DEF SandboxTypeOK
  <2>4. lock' \in Makers \cup {"nobody"}
    BY DEF SandboxTypeOK
  <2> QED BY <2>1, <2>2, <2>3, <2>4 DEF SandboxTypeOK
<1>2. Locks'
  BY SandboxAssumption DEF SandboxTypeOK, Locks, Threads
<1>3. Threads'
  <2>1. CASE sandbox # 0
    BY <2>1 DEF SandboxTypeOK, Threads, Occupied
  <2>2. CASE sandbox = 0
    <3>1. /\ thread'[m].pc = "begins" /\ coroutine'[m] = "creates"
          /\ \A n \in Makers \ {m} : thread'[n] = thread[n] /\ coroutine'[n] = coroutine[n]
      BY <2>2 DEF SandboxTypeOK
    <3> QED BY <3>1 DEF Threads, Occupied
  <2> QED BY <2>1, <2>2
<1>4. Tears'
  BY SandboxAssumption DEF SandboxTypeOK, Tears
<1>5. NoneLost'
  <2> SUFFICES ASSUME NEW i \in Ids, spaces[i] = "up" PROVE Held(i)'
    BY DEF NoneLost
  <2>1. Held(i)
    BY DEF NoneLost, OnlyRecorded
  <2>2. \A n \in Makers : thread[n].pc \in Occupied => thread'[n] = thread[n]
    BY DEF SandboxTypeOK, Threads, Occupied
  <2> QED BY <2>1, <2>2 DEF Held
<1> QED BY <1>1, <1>2, <1>3, <1>4, <1>5

LEMMA InstallKeeps ==
  ASSUME SandboxInv, NEW m \in Makers, Install(m)
  PROVE  SandboxInv'
<1> USE DEF Install, Goes, pool, Makers, Tearers, SandboxInv,
           CoroutineStates, ThreadStates, TeardownStates, RestoreStates
<1>1. SandboxTypeOK'
  <2>1. coroutine' \in [Makers -> CoroutineStates]
    BY DEF SandboxTypeOK
  <2>2. thread' \in [Makers -> ThreadStates]
    BY ThreadEdit DEF SandboxTypeOK
  <2>3. sandbox' \in 0 .. MaxSpaces
    BY DEF SandboxTypeOK
  <2> QED BY <2>1, <2>2, <2>3 DEF SandboxTypeOK
<1>2. Locks'
  BY SandboxAssumption DEF SandboxTypeOK, Locks, Threads
<1>3. Threads'
  <2>1. CASE flag[m]
    BY <2>1 DEF SandboxTypeOK, Threads, Occupied
  <2>2. CASE ~flag[m]
    <3>1. /\ thread'[m].pc = "none" /\ coroutine'[m] = "persists"
          /\ \A n \in Makers \ {m} : thread'[n] = thread[n] /\ coroutine'[n] = coroutine[n]
      BY <2>2 DEF SandboxTypeOK
    <3> QED BY <3>1 DEF Threads, Occupied
  <2> QED BY <2>1, <2>2
<1>4. Tears'
  BY SandboxAssumption DEF SandboxTypeOK, Tears
<1>5. NoneLost'
  <2> SUFFICES ASSUME NEW i \in Ids, spaces[i] = "up" PROVE Held(i)'
    BY DEF NoneLost
  <2>1. Held(i)
    BY DEF NoneLost, OnlyRecorded
  <2>2. CASE flag[m]
    BY <2>1, <2>2 DEF Held
  <2>3. CASE ~flag[m]
    <3>1. sandbox = 0 /\ sandbox' = thread[m].space
      BY <2>3 DEF Locks
    <3>2. \A n \in Makers \ {m} : thread'[n] = thread[n]
      BY <2>3 DEF SandboxTypeOK
    <3> QED BY <2>1, <2>3, <3>1, <3>2 DEF Held, Ids
  <2> QED BY <2>2, <2>3
<1> QED BY <1>1, <1>2, <1>3, <1>4, <1>5

LEMMA PersistKeeps ==
  ASSUME SandboxInv, NEW m \in Makers, Persist(m)
  PROVE  SandboxInv'
<1> USE DEF Persist, Leaves, Goes, NoThread, pool, Makers, Tearers, SandboxInv,
           CoroutineStates, ThreadStates, TeardownStates, RestoreStates
<1>1. SandboxTypeOK'
  BY SandboxAssumption DEF SandboxTypeOK, Threads, Tears, Occupied, Ids
<1>2. Locks'
  BY SandboxAssumption DEF SandboxTypeOK, Locks, Threads
<1>3. Threads'
  BY SandboxAssumption DEF SandboxTypeOK, Threads, Tears, Occupied, Ids
<1>4. Tears'
  BY SandboxAssumption DEF SandboxTypeOK, Tears
<1>5. NoneLost'
  BY SandboxAssumption DEF SandboxTypeOK, NoneLost, Held, OnlyRecorded, Threads, Locks, Occupied
<1> QED BY <1>1, <1>2, <1>3, <1>4, <1>5

LEMMA DeleteCancelledKeeps ==
  ASSUME SandboxInv, NEW m \in Makers, DeleteCancelled(m)
  PROVE  SandboxInv'
<1> USE DEF DeleteCancelled, Leaves, Goes, NoThread, pool, Makers, Tearers, SandboxInv,
           CoroutineStates, ThreadStates, TeardownStates, RestoreStates
<1>1. SandboxTypeOK'
  <2>1. coroutine' \in [Makers -> CoroutineStates]
    BY DEF SandboxTypeOK
  <2>2. thread' \in [Makers -> ThreadStates]
    BY SandboxAssumption DEF SandboxTypeOK
  <2>3. thread[m].space \in Ids
    BY SandboxAssumption DEF SandboxTypeOK, Threads, Tears, Occupied, Ids
  <2>4. spaces' \in [Ids -> {"none", "up", "gone"}] /\ given_up' \subseteq Ids
    BY <2>3 DEF SandboxTypeOK
  <2> QED BY <2>1, <2>2, <2>3, <2>4 DEF SandboxTypeOK
<1>2. Locks'
  BY SandboxAssumption DEF SandboxTypeOK, Locks, Threads
<1>3. Threads'
  BY SandboxAssumption DEF SandboxTypeOK, Threads, Tears, Occupied, Ids
<1>4. Tears'
  BY SandboxAssumption DEF SandboxTypeOK, Tears
<1>5. NoneLost'
  BY SandboxAssumption DEF SandboxTypeOK, NoneLost, Held, OnlyRecorded, Threads, Locks, Occupied
<1> QED BY <1>1, <1>2, <1>3, <1>4, <1>5

LEMMA CreateFailsKeeps ==
  ASSUME SandboxInv, NEW m \in Makers, CreateFails(m)
  PROVE  SandboxInv'
<1> USE DEF CreateFails, Leaves, Goes, NoThread, pool, Makers, Tearers, SandboxInv,
           CoroutineStates, ThreadStates, TeardownStates, RestoreStates
<1>1. SandboxTypeOK'
  BY SandboxAssumption DEF SandboxTypeOK, Threads, Tears, Occupied, Ids
<1>2. Locks'
  BY SandboxAssumption DEF SandboxTypeOK, Locks, Threads
<1>3. Threads'
  BY SandboxAssumption DEF SandboxTypeOK, Threads, Tears, Occupied, Ids
<1>4. Tears'
  BY SandboxAssumption DEF SandboxTypeOK, Tears
<1>5. NoneLost'
  BY SandboxAssumption DEF SandboxTypeOK, NoneLost, Held, OnlyRecorded, Threads, Locks, Occupied
<1> QED BY <1>1, <1>2, <1>3, <1>4, <1>5

LEMMA CheckCancelKeeps ==
  ASSUME SandboxInv, NEW m \in Makers, CheckCancel(m)
  PROVE  SandboxInv'
<1> USE DEF CheckCancel, Thread, ThreadSame, pool, Makers, Tearers, SandboxInv,
           CoroutineStates, ThreadStates, TeardownStates, RestoreStates
<1>1. SandboxTypeOK'
  <2>1. thread' \in [Makers -> ThreadStates]
    BY ThreadEdit DEF SandboxTypeOK
  <2>2. thread[m].space \in Ids
    BY SandboxAssumption DEF SandboxTypeOK, Threads, Tears, Occupied, Ids
  <2>3. spaces' \in [Ids -> {"none", "up", "gone"}] /\ given_up' \subseteq Ids
    BY <2>2 DEF SandboxTypeOK
  <2> QED BY <2>1, <2>2, <2>3 DEF SandboxTypeOK
<1>2. Locks'
  BY SandboxAssumption DEF SandboxTypeOK, Locks, Threads
<1>3. Threads'
  BY SandboxAssumption DEF SandboxTypeOK, Threads, Tears, Occupied, Ids
<1>4. Tears'
  BY SandboxAssumption DEF SandboxTypeOK, Tears
<1>5. NoneLost'
  BY SandboxAssumption DEF SandboxTypeOK, NoneLost, Held, OnlyRecorded, Threads, Locks, Occupied
<1> QED BY <1>1, <1>2, <1>3, <1>4, <1>5

LEMMA DuplicateKeeps ==
  ASSUME SandboxInv, NEW m \in Makers, Duplicate(m)
  PROVE  SandboxInv'
<1> USE DEF Duplicate, ThreadSame, pool, Makers, Tearers, SandboxInv,
           CoroutineStates, ThreadStates, TeardownStates, RestoreStates
<1>1. SandboxTypeOK'
  BY SandboxAssumption DEF SandboxTypeOK, Threads, Tears, Occupied, Ids
<1>2. Locks'
  BY SandboxAssumption DEF SandboxTypeOK, Locks, Threads
<1>3. Threads'
  BY SandboxAssumption DEF SandboxTypeOK, Threads, Tears, Occupied, Ids
<1>4. Tears'
  BY SandboxAssumption DEF SandboxTypeOK, Tears
<1>5. NoneLost'
  BY SandboxAssumption DEF SandboxTypeOK, NoneLost, Held, OnlyRecorded, Threads, Locks, Occupied
<1> QED BY <1>1, <1>2, <1>3, <1>4, <1>5

LEMMA UploadedKeeps ==
  ASSUME SandboxInv, NEW m \in Makers, Uploaded(m)
  PROVE  SandboxInv'
<1> USE DEF Uploaded, Thread, ThreadSame, pool, Makers, Tearers, SandboxInv,
           CoroutineStates, ThreadStates, TeardownStates, RestoreStates
<1>1. SandboxTypeOK'
  BY SandboxAssumption DEF SandboxTypeOK, Threads, Tears, Occupied, Ids
<1>2. Locks'
  BY SandboxAssumption DEF SandboxTypeOK, Locks, Threads
<1>3. Threads'
  BY SandboxAssumption DEF SandboxTypeOK, Threads, Tears, Occupied, Ids
<1>4. Tears'
  BY SandboxAssumption DEF SandboxTypeOK, Tears
<1>5. NoneLost'
  BY SandboxAssumption DEF SandboxTypeOK, NoneLost, Held, OnlyRecorded, Threads, Locks, Occupied
<1> QED BY <1>1, <1>2, <1>3, <1>4, <1>5

LEMMA SpaceRunningKeeps ==
  ASSUME SandboxInv, NEW m \in Makers, SpaceRunning(m)
  PROVE  SandboxInv'
<1> USE DEF SpaceRunning, Thread, ThreadSame, pool, Makers, Tearers, SandboxInv,
           CoroutineStates, ThreadStates, TeardownStates, RestoreStates
<1>1. SandboxTypeOK'
  BY SandboxAssumption DEF SandboxTypeOK, Threads, Tears, Occupied, Ids
<1>2. Locks'
  BY SandboxAssumption DEF SandboxTypeOK, Locks, Threads
<1>3. Threads'
  BY SandboxAssumption DEF SandboxTypeOK, Threads, Tears, Occupied, Ids
<1>4. Tears'
  BY SandboxAssumption DEF SandboxTypeOK, Tears
<1>5. NoneLost'
  BY SandboxAssumption DEF SandboxTypeOK, NoneLost, Held, OnlyRecorded, Threads, Locks, Occupied
<1> QED BY <1>1, <1>2, <1>3, <1>4, <1>5

LEMMA ProbeAnsweredKeeps ==
  ASSUME SandboxInv, NEW m \in Makers, ProbeAnswered(m)
  PROVE  SandboxInv'
<1> USE DEF ProbeAnswered, Thread, ThreadSame, pool, Makers, Tearers, SandboxInv,
           CoroutineStates, ThreadStates, TeardownStates, RestoreStates
<1>1. SandboxTypeOK'
  BY SandboxAssumption DEF SandboxTypeOK, Threads, Tears, Occupied, Ids
<1>2. Locks'
  BY SandboxAssumption DEF SandboxTypeOK, Locks, Threads
<1>3. Threads'
  BY SandboxAssumption DEF SandboxTypeOK, Threads, Tears, Occupied, Ids
<1>4. Tears'
  BY SandboxAssumption DEF SandboxTypeOK, Tears
<1>5. NoneLost'
  BY SandboxAssumption DEF SandboxTypeOK, NoneLost, Held, OnlyRecorded, Threads, Locks, Occupied
<1> QED BY <1>1, <1>2, <1>3, <1>4, <1>5

LEMMA ThreadRaisesKeeps ==
  ASSUME SandboxInv, NEW m \in Makers, ThreadRaises(m)
  PROVE  SandboxInv'
<1> USE DEF ThreadRaises, Thread, ThreadSame, pool, Makers, Tearers, SandboxInv,
           CoroutineStates, ThreadStates, TeardownStates, RestoreStates
<1>1. SandboxTypeOK'
  BY SandboxAssumption DEF SandboxTypeOK, Threads, Tears, Occupied, Ids
<1>2. Locks'
  BY SandboxAssumption DEF SandboxTypeOK, Locks, Threads
<1>3. Threads'
  BY SandboxAssumption DEF SandboxTypeOK, Threads, Tears, Occupied, Ids
<1>4. Tears'
  BY SandboxAssumption DEF SandboxTypeOK, Tears
<1>5. NoneLost'
  BY SandboxAssumption DEF SandboxTypeOK, NoneLost, Held, OnlyRecorded, Threads, Locks, Occupied
<1> QED BY <1>1, <1>2, <1>3, <1>4, <1>5

LEMMA ThreadUnheardKeeps ==
  ASSUME SandboxInv, NEW m \in Makers, ThreadUnheard(m)
  PROVE  SandboxInv'
<1> USE DEF ThreadUnheard, ThreadSame, NoThread, pool, Makers, Tearers, SandboxInv,
           CoroutineStates, ThreadStates, TeardownStates, RestoreStates
<1>1. SandboxTypeOK'
  <2>1. thread' \in [Makers -> ThreadStates]
    BY SandboxAssumption DEF SandboxTypeOK
  <2>2. thread[m].pc = "returned" => thread[m].space \in Ids
    BY SandboxAssumption DEF SandboxTypeOK, Threads, Occupied, Ids
  <2>3. given_up' \subseteq Ids
    BY <2>2 DEF SandboxTypeOK
  <2> QED BY <2>1, <2>3 DEF SandboxTypeOK
<1>2. Locks'
  BY SandboxAssumption DEF SandboxTypeOK, Locks, Threads
<1>3. Threads'
  BY SandboxAssumption DEF SandboxTypeOK, Threads, Tears, Occupied, Ids
<1>4. Tears'
  BY SandboxAssumption DEF SandboxTypeOK, Tears
<1>5. NoneLost'
  BY SandboxAssumption DEF SandboxTypeOK, NoneLost, Held, OnlyRecorded, Threads, Locks, Occupied
<1> QED BY <1>1, <1>2, <1>3, <1>4, <1>5

LEMMA StopCallKeeps ==
  ASSUME SandboxInv, StopCall
  PROVE  SandboxInv'
<1> USE DEF StopCall, pool, Makers, Tearers, SandboxInv,
           CoroutineStates, ThreadStates, TeardownStates, RestoreStates
<1>1. SandboxTypeOK'
  BY SandboxAssumption DEF SandboxTypeOK, Threads, Tears, Occupied, Ids
<1>2. Locks'
  BY SandboxAssumption DEF SandboxTypeOK, Locks, Threads
<1>3. Threads'
  BY SandboxAssumption DEF SandboxTypeOK, Threads, Tears, Occupied, Ids
<1>4. Tears'
  BY SandboxAssumption DEF SandboxTypeOK, Tears
<1>5. NoneLost'
  BY SandboxAssumption DEF SandboxTypeOK, NoneLost, Held, OnlyRecorded, Threads, Locks, Occupied
<1> QED BY <1>1, <1>2, <1>3, <1>4, <1>5

LEMMA ResetCancelKeeps ==
  ASSUME SandboxInv, ResetCancel
  PROVE  SandboxInv'
<1> USE DEF ResetCancel, pool, Makers, Tearers, SandboxInv,
           CoroutineStates, ThreadStates, TeardownStates, RestoreStates
<1>1. SandboxTypeOK'
  BY SandboxAssumption DEF SandboxTypeOK, Threads, Tears, Occupied, Ids
<1>2. Locks'
  BY SandboxAssumption DEF SandboxTypeOK, Locks, Threads
<1>3. Threads'
  BY SandboxAssumption DEF SandboxTypeOK, Threads, Tears, Occupied, Ids
<1>4. Tears'
  BY SandboxAssumption DEF SandboxTypeOK, Tears
<1>5. NoneLost'
  BY SandboxAssumption DEF SandboxTypeOK, NoneLost, Held, OnlyRecorded, Threads, Locks, Occupied
<1> QED BY <1>1, <1>2, <1>3, <1>4, <1>5

LEMMA PreloadTimeoutKeeps ==
  ASSUME SandboxInv, PreloadTimeout
  PROVE  SandboxInv'
<1> USE DEF PreloadTimeout, Preloading, CancelCoroutine, Leaves, Goes, NoThread, NoTeardown, pool, Makers, Tearers, SandboxInv,
           CoroutineStates, ThreadStates, TeardownStates, RestoreStates
<1>1. SandboxTypeOK'
  BY SandboxAssumption DEF SandboxTypeOK, Threads, Tears, Occupied, Ids
<1>2. Locks'
  BY SandboxAssumption DEF SandboxTypeOK, Locks, Threads
<1>3. Threads'
  BY SandboxAssumption DEF SandboxTypeOK, Threads, Tears, Occupied, Ids
<1>4. Tears'
  BY SandboxAssumption DEF SandboxTypeOK, Tears
<1>5. NoneLost'
  BY SandboxAssumption DEF SandboxTypeOK, NoneLost, Held, OnlyRecorded, Threads, Locks, Occupied
<1> QED BY <1>1, <1>2, <1>3, <1>4, <1>5

LEMMA EndSessionKeeps ==
  ASSUME SandboxInv, NEW t \in Enders, EndSession(t)
  PROVE  SandboxInv'
<1> USE DEF EndSession, Steps, Called, Ending, pool, Makers, Tearers, SandboxInv,
           CoroutineStates, ThreadStates, TeardownStates, RestoreStates
<1>1. SandboxTypeOK'
  BY SandboxAssumption DEF SandboxTypeOK, Threads, Tears, Occupied, Ids
<1>2. Locks'
  BY SandboxAssumption DEF SandboxTypeOK, Locks, Threads
<1>3. Threads'
  BY SandboxAssumption DEF SandboxTypeOK, Threads, Tears, Occupied, Ids
<1>4. Tears'
  BY SandboxAssumption DEF SandboxTypeOK, Tears
<1>5. NoneLost'
  BY SandboxAssumption DEF SandboxTypeOK, NoneLost, Held, OnlyRecorded, Threads, Locks, Occupied
<1> QED BY <1>1, <1>2, <1>3, <1>4, <1>5

LEMMA TearFlagKeeps ==
  ASSUME SandboxInv, NEW t \in Tearers, TearFlag(t)
  PROVE  SandboxInv'
<1> USE DEF TearFlag, Steps, pool, Makers, Tearers, SandboxInv,
           CoroutineStates, ThreadStates, TeardownStates, RestoreStates
<1>1. SandboxTypeOK'
  <2>1. flag' \in [Makers -> BOOLEAN]
    BY DEF SandboxTypeOK
  <2>2. teardown' \in [Tearers -> TeardownStates]
    BY TeardownEdit, SandboxAssumption DEF SandboxTypeOK
  <2> QED BY <2>1, <2>2 DEF SandboxTypeOK
<1>2. Locks'
  BY SandboxAssumption DEF SandboxTypeOK, Locks, Threads
<1>3. Threads'
  BY SandboxAssumption DEF SandboxTypeOK, Threads, Tears, Occupied, Ids
<1>4. Tears'
  BY SandboxAssumption DEF SandboxTypeOK, Tears
<1>5. NoneLost'
  BY SandboxAssumption DEF SandboxTypeOK, NoneLost, Held, OnlyRecorded, Threads, Locks, Occupied
<1> QED BY <1>1, <1>2, <1>3, <1>4, <1>5

LEMMA TakeSandboxKeeps ==
  ASSUME SandboxInv, NEW t \in Tearers, TakeSandbox(t)
  PROVE  SandboxInv'
<1> USE DEF TakeSandbox, Steps, Preloading, pool, Makers, Tearers, SandboxInv,
           CoroutineStates, ThreadStates, TeardownStates, RestoreStates
<1>1. SandboxTypeOK'
  BY SandboxAssumption DEF SandboxTypeOK, Threads, Tears, Occupied, Ids
<1>2. Locks'
  BY SandboxAssumption DEF SandboxTypeOK, Locks, Threads
<1>3. Threads'
  BY SandboxAssumption DEF SandboxTypeOK, Threads, Tears, Occupied, Ids
<1>4. Tears'
  BY SandboxAssumption DEF SandboxTypeOK, Tears
<1>5. NoneLost'
  BY SandboxAssumption DEF SandboxTypeOK, NoneLost, Held, OnlyRecorded, Threads, Locks, Occupied
<1> QED BY <1>1, <1>2, <1>3, <1>4, <1>5

LEMMA DeletedKeeps ==
  ASSUME SandboxInv, NEW t \in Tearers, Deleted(t)
  PROVE  SandboxInv'
<1> USE DEF Deleted, Steps, pool, Makers, Tearers, SandboxInv,
           CoroutineStates, ThreadStates, TeardownStates, RestoreStates
<1>1. SandboxTypeOK'
  BY SandboxAssumption DEF SandboxTypeOK, Threads, Tears, Occupied, Ids
<1>2. Locks'
  BY SandboxAssumption DEF SandboxTypeOK, Locks, Threads
<1>3. Threads'
  BY SandboxAssumption DEF SandboxTypeOK, Threads, Tears, Occupied, Ids
<1>4. Tears'
  BY SandboxAssumption DEF SandboxTypeOK, Tears
<1>5. NoneLost'
  BY SandboxAssumption DEF SandboxTypeOK, NoneLost, Held, OnlyRecorded, Threads, Locks, Occupied
<1> QED BY <1>1, <1>2, <1>3, <1>4, <1>5

LEMMA DeleteFailsKeeps ==
  ASSUME SandboxInv, NEW t \in Tearers, DeleteFails(t)
  PROVE  SandboxInv'
<1> USE DEF DeleteFails, Steps, pool, Makers, Tearers, SandboxInv,
           CoroutineStates, ThreadStates, TeardownStates, RestoreStates
<1>1. SandboxTypeOK'
  <2>1. teardown[t].tries + 1 \in 0 .. SandboxTries
    BY SandboxAssumption DEF SandboxTypeOK, Threads, Tears, Occupied, Ids
  <2>2. teardown[t].took \in Ids
    BY SandboxAssumption DEF SandboxTypeOK, Threads, Tears, Occupied, Ids
  <2>3. teardown' \in [Tearers -> TeardownStates]
    BY <2>1 DEF SandboxTypeOK
  <2>4. given_up' \subseteq Ids /\ record' \in 0 .. MaxSpaces
    BY <2>2, SandboxAssumption DEF SandboxTypeOK
  <2> QED BY <2>1, <2>2, <2>3, <2>4 DEF SandboxTypeOK
<1>2. Locks'
  BY SandboxAssumption DEF SandboxTypeOK, Locks, Threads
<1>3. Threads'
  BY SandboxAssumption DEF SandboxTypeOK, Threads, Tears, Occupied, Ids
<1>4. Tears'
  <2>1. /\ teardown'[t].tries = teardown[t].tries + 1
        /\ teardown'[t].took = teardown[t].took
        /\ teardown'[t].pc = IF teardown[t].tries + 1 = SandboxTries THEN "over" ELSE "deletes"
        /\ \A u \in Tearers \ {t} : teardown'[u] = teardown[u]
    BY DEF SandboxTypeOK
  <2>2. teardown[t].tries \in Nat /\ teardown[t].tries < SandboxTries
    BY DEF SandboxTypeOK, Tears
  <2> QED BY <2>1, <2>2, SandboxAssumption DEF Tears
<1>5. NoneLost'
  BY SandboxAssumption DEF SandboxTypeOK, NoneLost, Held, OnlyRecorded, Threads, Locks, Occupied
<1> QED BY <1>1, <1>2, <1>3, <1>4, <1>5

LEMMA CancelTeardownKeeps ==
  ASSUME SandboxInv, NEW t \in Tearers, CancelTeardown(t)
  PROVE  SandboxInv'
<1> USE DEF CancelTeardown, Leaves, Goes, Steps, NoTeardown, pool, Makers, Tearers, SandboxInv,
           CoroutineStates, ThreadStates, TeardownStates, RestoreStates
<1>1. SandboxTypeOK'
  <2>1. teardown[t].took \in Ids
    BY SandboxAssumption DEF SandboxTypeOK, Threads, Tears, Occupied, Ids
  <2>2. teardown' \in [Tearers -> TeardownStates]
    BY SandboxAssumption DEF SandboxTypeOK
  <2>3. coroutine' \in [Makers -> CoroutineStates]
    BY DEF SandboxTypeOK
  <2>4. given_up' \subseteq Ids /\ record' \in 0 .. MaxSpaces
    BY <2>1, SandboxAssumption DEF SandboxTypeOK
  <2>5. spaces' \in [Ids -> {"none", "up", "gone"}] /\ lock' \in Makers \cup {"nobody"}
    BY DEF SandboxTypeOK
  <2> QED BY <2>2, <2>3, <2>4, <2>5 DEF SandboxTypeOK
<1>2. Locks'
  BY SandboxAssumption DEF SandboxTypeOK, Locks, Threads
<1>3. Threads'
  BY SandboxAssumption DEF SandboxTypeOK, Threads, Tears, Occupied, Ids
<1>4. Tears'
  BY SandboxAssumption DEF SandboxTypeOK, Tears
<1>5. NoneLost'
  <2>1. \A u \in Tearers \ {t} : teardown'[u] = teardown[u]
    BY DEF SandboxTypeOK
  <2>2. teardown[t].took \in given_up' \/ spaces'[teardown[t].took] = "gone"
    BY SandboxAssumption DEF SandboxTypeOK, Threads, Tears, Occupied, Ids
  <2>3. /\ given_up \subseteq given_up'
        /\ \A i \in Ids : spaces'[i] = "up" => spaces[i] = "up"
    BY DEF SandboxTypeOK
  <2>4. ASSUME NEW i \in Ids, spaces'[i] = "up" PROVE Held(i)'
    <3>1. Held(i)
      BY <2>3, <2>4 DEF NoneLost, OnlyRecorded
    <3>2. sandbox' = sandbox /\ thread' = thread
      OBVIOUS
    <3>3. CASE i = sandbox \/ i \in given_up
      BY <3>2, <3>3, <2>3 DEF Held
    <3>4. CASE \E m \in Makers : thread[m].pc \in Occupied /\ thread[m].space = i
      BY <3>2, <3>4 DEF Held
    <3>5. ASSUME NEW u \in Tearers, teardown[u].pc = "deletes", teardown[u].took = i
          PROVE  Held(i)'
      BY <3>5, <2>1, <2>2, <2>4 DEF Held
    <3> QED BY <3>1, <3>3, <3>4, <3>5 DEF Held
  <2> QED BY <2>4 DEF NoneLost
<1> QED BY <1>1, <1>2, <1>3, <1>4, <1>5

LEMMA SweepKeeps ==
  ASSUME SandboxInv, NEW i \in Ids, Sweep(i)
  PROVE  SandboxInv'
<1> USE DEF Sweep, pool, Makers, Tearers, SandboxInv,
           CoroutineStates, ThreadStates, TeardownStates, RestoreStates
<1>1. SandboxTypeOK'
  BY SandboxAssumption DEF SandboxTypeOK, Threads, Tears, Occupied, Ids
<1>2. Locks'
  BY SandboxAssumption DEF SandboxTypeOK, Locks, Threads
<1>3. Threads'
  BY SandboxAssumption DEF SandboxTypeOK, Threads, Tears, Occupied, Ids
<1>4. Tears'
  BY SandboxAssumption DEF SandboxTypeOK, Tears
<1>5. NoneLost'
  BY SandboxAssumption DEF SandboxTypeOK, NoneLost, Held, OnlyRecorded, Threads, Locks, Occupied
<1> QED BY <1>1, <1>2, <1>3, <1>4, <1>5

LEMMA CrashKeeps ==
  ASSUME SandboxInv, Crash
  PROVE  SandboxInv'
<1> USE DEF Crash, NoTeardown, NoThread, pool, Makers, Tearers, SandboxInv,
           CoroutineStates, ThreadStates, TeardownStates, RestoreStates
<1>1. SandboxTypeOK'
  <2>1. teardown' \in [Tearers -> TeardownStates]
    BY SandboxAssumption DEF SandboxTypeOK
  <2>2. thread' \in [Makers -> ThreadStates]
    BY SandboxAssumption DEF SandboxTypeOK
  <2>3. coroutine' \in [Makers -> CoroutineStates] /\ flag' \in [Makers -> BOOLEAN]
    OBVIOUS
  <2>4. restore' \in [Restorers -> RestoreStates]
    BY SandboxAssumption DEF SandboxTypeOK
  <2>5. given_up' \subseteq Ids
    <3>1. /\ \A m \in Makers : thread[m].space \in 0 .. MaxSpaces
          /\ \A t \in Tearers : teardown[t].took \in 0 .. MaxSpaces
      BY DEF SandboxTypeOK
    <3>2. \A i \in 0 .. MaxSpaces : i # 0 => i \in Ids
      BY SandboxAssumption DEF Ids
    <3> QED BY <3>1, <3>2 DEF SandboxTypeOK
  <2> QED BY <2>1, <2>2, <2>3, <2>4, <2>5 DEF SandboxTypeOK
<1>2. Locks'
  BY SandboxAssumption DEF SandboxTypeOK, Locks, Threads
<1>3. Threads'
  BY SandboxAssumption DEF SandboxTypeOK, Threads, Tears, Occupied, Ids
<1>4. Tears'
  BY SandboxAssumption DEF SandboxTypeOK, Tears
<1>5. NoneLost'
  BY SandboxAssumption DEF SandboxTypeOK, NoneLost, Held, OnlyRecorded, Threads, Locks, Occupied
<1> QED BY <1>1, <1>2, <1>3, <1>4, <1>5

LEMMA RestoreReadKeeps ==
  ASSUME SandboxInv, NEW r \in Restorers, RestoreRead(r)
  PROVE  SandboxInv'
<1> USE DEF RestoreRead, RestoreSame, OldIsOver, pool, Makers, Tearers, SandboxInv,
           CoroutineStates, ThreadStates, TeardownStates, RestoreStates
<1>1. SandboxTypeOK'
  BY SandboxAssumption DEF SandboxTypeOK, Threads, Tears, Occupied, Ids
<1>2. Locks'
  BY SandboxAssumption DEF SandboxTypeOK, Locks, Threads
<1>3. Threads'
  BY SandboxAssumption DEF SandboxTypeOK, Threads, Tears, Occupied, Ids
<1>4. Tears'
  BY SandboxAssumption DEF SandboxTypeOK, Tears
<1>5. NoneLost'
  <2> SUFFICES ASSUME NEW i \in Ids, spaces[i] = "up" PROVE Held(i)' \/ OnlyRecorded(i)'
    BY DEF NoneLost
  <2>1. CASE Held(i)
    BY <2>1 DEF Held
  <2>2. CASE OnlyRecorded(i)
    <3>1. record # 0 /\ record = i
      BY <2>2 DEF OnlyRecorded, Ids
    <3>2. /\ restore'[r].pc = "deletes" /\ restore'[r].seen = i
          /\ \A s \in Restorers \ {r} : restore'[s] = restore[s]
      BY <3>1 DEF SandboxTypeOK
    <3> QED BY <2>2, <3>2 DEF OnlyRecorded
  <2> QED BY <2>1, <2>2 DEF NoneLost
<1> QED BY <1>1, <1>2, <1>3, <1>4, <1>5

LEMMA RestoreDeleteKeeps ==
  ASSUME SandboxInv, NEW r \in Restorers, RestoreDelete(r)
  PROVE  SandboxInv'
<1> USE DEF RestoreDelete, RestoreSame, pool, Makers, Tearers, SandboxInv,
           CoroutineStates, ThreadStates, TeardownStates, RestoreStates
<1>1. SandboxTypeOK'
  <2>1. restore[r].seen \in Ids
    BY SandboxAssumption DEF SandboxTypeOK, Threads, Tears, Occupied, Ids
  <2>2. restore' \in [Restorers -> RestoreStates]
    BY DEF SandboxTypeOK
  <2>3. /\ spaces' \in [Ids -> {"none", "up", "gone"}] /\ given_up' \subseteq Ids
        /\ record' \in 0 .. MaxSpaces
    BY <2>1, SandboxAssumption DEF SandboxTypeOK
  <2> QED BY <2>1, <2>2, <2>3 DEF SandboxTypeOK
<1>2. Locks'
  BY SandboxAssumption DEF SandboxTypeOK, Locks, Threads
<1>3. Threads'
  BY SandboxAssumption DEF SandboxTypeOK, Threads, Tears, Occupied, Ids
<1>4. Tears'
  BY SandboxAssumption DEF SandboxTypeOK, Tears
<1>5. NoneLost'
  BY SandboxAssumption DEF SandboxTypeOK, NoneLost, Held, OnlyRecorded, Threads, Locks, Occupied
<1> QED BY <1>1, <1>2, <1>3, <1>4, <1>5

LEMMA RestoreLoadKeeps ==
  ASSUME SandboxInv, NEW r \in Restorers, RestoreLoad(r)
  PROVE  SandboxInv'
<1> USE DEF RestoreLoad, RestoreSame, OldIsOver, pool, Makers, Tearers, SandboxInv,
           CoroutineStates, ThreadStates, TeardownStates, RestoreStates
<1>1. SandboxTypeOK'
  <2>1. restore' \in [Restorers -> RestoreStates]
    BY SandboxAssumption DEF SandboxTypeOK
  <2>2. /\ sandbox' \in 0 .. MaxSpaces /\ interrupted' \in BOOLEAN
        /\ present' \in {"no", "new", "yes"}
    <3>1. 0 \in 0 .. MaxSpaces
      BY SandboxAssumption
    <3> QED BY <3>1 DEF SandboxTypeOK
  <2>3. given_up' \subseteq Ids
    <3>1. sandbox # 0 => sandbox \in Ids
      BY SandboxAssumption DEF SandboxTypeOK, Ids
    <3> QED BY <3>1 DEF SandboxTypeOK
  <2> QED BY <2>1, <2>2, <2>3 DEF SandboxTypeOK
<1>2. Locks'
  BY SandboxAssumption DEF SandboxTypeOK, Locks, Threads
<1>3. Threads'
  BY SandboxAssumption DEF SandboxTypeOK, Threads, Tears, Occupied, Ids
<1>4. Tears'
  BY SandboxAssumption DEF SandboxTypeOK, Tears
<1>5. NoneLost'
  BY SandboxAssumption DEF SandboxTypeOK, NoneLost, Held, OnlyRecorded, Threads, Locks, Occupied
<1> QED BY <1>1, <1>2, <1>3, <1>4, <1>5

---------------------------------------------------------------------------
LEMMA SandboxInitially == SandboxInit => SandboxInv
<1> SUFFICES ASSUME SandboxInit PROVE SandboxInv
  OBVIOUS
<1> USE SandboxAssumption DEF SandboxInit, NoThread, NoTeardown
<1>1. SandboxTypeOK
  <2>1. 0 \in 0 .. MaxSpaces /\ 0 \in 0 .. SandboxTries
    OBVIOUS
  <2> QED
    BY <2>1 DEF SandboxTypeOK, CoroutineStates, ThreadStates, TeardownStates,
                RestoreStates
<1>2. Locks /\ Threads /\ Tears
  BY DEF Locks, Threads, Tears, Occupied, Makers, Tearers
<1>3. NoneLost
  BY DEF NoneLost
<1> QED BY <1>1, <1>2, <1>3 DEF SandboxInv

LEMMA SandboxStep == SandboxInv /\ [SandboxNext]_sandboxVars => SandboxInv'
<1> SUFFICES ASSUME SandboxInv, [SandboxNext]_sandboxVars PROVE SandboxInv'
  OBVIOUS
<1>1. ASSUME NEW m \in Makers, Creation(m) PROVE SandboxInv'
  BY <1>1, LockedKeeps, InstallKeeps, PersistKeeps, DeleteCancelledKeeps,
     CreateFailsKeeps DEF Creation
<1>2. ASSUME NEW m \in Makers, CreationThread(m) PROVE SandboxInv'
  BY <1>2, CheckCancelKeeps, DuplicateKeeps, UploadedKeeps, SpaceRunningKeeps,
     ProbeAnsweredKeeps, ThreadRaisesKeeps, ThreadUnheardKeeps DEF CreationThread
<1>3. ASSUME NEW c \in CreateCalls,
             \/ CreateCall(c, "cpu") \/ CreateCall(c, "gpu")
             \/ CallStep(c) \/ CancelCall(c)
      PROVE  SandboxInv'
  BY <1>3, CreateCallKeeps, CreateAwaitedKeeps, CreateTornDownKeeps, CancelCallKeeps
  DEF CallStep
<1>4. ASSUME NEW t \in Tearers, Teardown(t) PROVE SandboxInv'
  BY <1>4, TearFlagKeeps, TakeSandboxKeeps, DeletedKeeps, DeleteFailsKeeps,
     CancelTeardownKeeps DEF Teardown
<1>5. ASSUME NEW r \in Restorers, RestoreRead(r) \/ RestoreDelete(r) \/ RestoreLoad(r)
      PROVE  SandboxInv'
  BY <1>5, RestoreReadKeeps, RestoreDeleteKeeps, RestoreLoadKeeps
<1>6. CASE UNCHANGED sandboxVars
  BY <1>6 DEF SandboxInv, SandboxTypeOK, Locks, Threads, Tears, NoneLost, Held,
              OnlyRecorded, sandboxVars
<1> QED
  BY <1>1, <1>2, <1>3, <1>4, <1>5, <1>6, StartPreloadKeeps, StopCallKeeps,
     ResetCancelKeeps, PreloadTimeoutKeeps, EndSessionKeeps, SweepKeeps, CrashKeeps
  DEF SandboxNext

LEMMA SandboxInvariant == SandboxSpec => []SandboxInv
BY SandboxInitially, SandboxStep, PTL DEF SandboxSpec

\* The state of creations, teardowns and restores is well formed: no step of one
\* finds another in a state it cannot be in.
THEOREM SandboxIsTyped == SandboxSpec => []SandboxTypeOK
<1>1. SandboxInv => SandboxTypeOK
  BY DEF SandboxInv
<1> QED BY <1>1, SandboxInvariant, PTL

\* One creation at a time is past the session's lock, and no sandbox is installed
\* over another: while it creates, the session has none.
OneCreation ==
  \A m, n \in Makers :
    coroutine[m] \in {"creates", "persists", "deletes"} =>
      /\ coroutine[n] \in {"creates", "persists", "deletes"} => m = n
      /\ coroutine[m] = "creates" => sandbox = 0

THEOREM OneCreationAtATime == SandboxSpec => []OneCreation
<1>1. SandboxInv => OneCreation
  BY DEF SandboxInv, Locks, OneCreation
<1> QED BY <1>1, SandboxInvariant, PTL

\* When nothing is under way, each Space is the session's sandbox, on record, or
\* given up by a failure that is known.
THEOREM SandboxLosesNoSpace == SandboxSpec => []NoSpaceIsLost
<1>1. SandboxInv => NoSpaceIsLost
  <2> SUFFICES ASSUME SandboxInv, Quiet, NEW i \in Ids, spaces[i] = "up"
               PROVE  i \in {sandbox, record} \cup given_up
    BY DEF NoSpaceIsLost
  <2>1. CASE Held(i)
    BY <2>1 DEF Held, Quiet, Occupied
  <2>2. CASE OnlyRecorded(i)
    BY <2>2 DEF OnlyRecorded
  <2> QED BY <2>1, <2>2 DEF SandboxInv, NoneLost
<1> QED BY <1>1, SandboxInvariant, PTL

---------------------------------------------------------------------------
(***************************************************************************)
(* The command line client                                                 *)
(* When the user is asked for a line nothing is running: every event and every *)
(* submission has been dealt with.  The invariant counts what is owed, one *)
(* token that the main loop, the queues, the agent and the listener hand on. *)
(***************************************************************************)

\* A condition as a number.
B(p) == IF p THEN 1 ELSE 0

\* What the main loop has still to hear of: submissions that nobody took, events that
\* nobody showed, a turn that runs, a question to the user, and the wake that is set.
Owed ==
  Len(submissions) + Len(events) + B(agent \in {"turn", "tools"})
  + B(listener = "asking") + B(done)

\* Before the agent is ready nothing was submitted.
Starting ==
  ~headless /\ console = "starting" =>
    /\ submissions = <<>> /\ listener = "on" /\ ~quit
    /\ \/ agent \in {"starting", "gone"} /\ events = <<>>
       \/ agent = "idle" /\ events = <<"ready">>

\* The main loop submits one thing at a time and waits until it is woken for it, so at
\* most one token is under way while it waits, and none while it prompts; a turn that
\* ended twice left a second token, which PromptMeansIdle excuses.
OneOwed ==
  ~headless /\ console \in {"waiting", "prompt"} =>
    /\ agent # "starting" /\ (console = "prompt" => ~quit)
    /\ ~twice /\ ~quit => Owed <= IF console = "prompt" THEN 0 ELSE 1

CliInv == CliTypeOK /\ Starting /\ OneOwed /\ (headless => console # "prompt")

---------------------------------------------------------------------------
\* Sequences of one element.
LEMMA Sequences1 ==
  ASSUME NEW S, NEW q \in Seq(S)
  PROVE  /\ \A e \in S : Append(q, e) \in Seq(S) /\ Len(Append(q, e)) = Len(q) + 1
         /\ q # <<>> => /\ Tail(q) \in Seq(S) /\ Len(Tail(q)) = Len(q) - 1
                        /\ Len(q) >= 1 /\ Head(q) \in S
         /\ Len(q) \in Nat
OBVIOUS


LEMMA AgentStartsKeeps ==
  ASSUME CliInv, AgentStarts
  PROVE  CliInv'
<1> USE DEF AgentStarts, Emit, AgentOnly, CliInv
<1>1. CliTypeOK'
  BY SMTT(30), Sequences1, CommandAssumption DEF CliTypeOK, Endings, EventTypes, Operations
<1>2. Starting'
  BY DEF CliTypeOK, Starting
<1>3. OneOwed'
  BY Sequences1, CommandAssumption DEF CliTypeOK, Starting, OneOwed, Owed, B, Endings, EventTypes, Operations
<1>4. (headless => console # "prompt")'
  OBVIOUS
<1> QED BY <1>1, <1>2, <1>3, <1>4

LEMMA TakeInputKeeps ==
  ASSUME CliInv, TakeInput
  PROVE  CliInv'
<1> USE DEF TakeInput, Taken, Next1, AgentOnly, CliInv
<1>1. CliTypeOK'
  BY Sequences1, CommandAssumption DEF CliTypeOK, Endings, EventTypes, Operations
<1>2. Starting'
  BY DEF CliTypeOK, Starting
<1>3. OneOwed'
  BY Sequences1, CommandAssumption DEF CliTypeOK, Starting, OneOwed, Owed, B, Endings, EventTypes, Operations
<1>4. (headless => console # "prompt")'
  OBVIOUS
<1> QED BY <1>1, <1>2, <1>3, <1>4

LEMMA TakeApprovalKeeps ==
  ASSUME CliInv, TakeApproval
  PROVE  CliInv'
<1> USE DEF TakeApproval, Taken, Next1, Emit, AgentOnly, CliInv
<1>1. CliTypeOK'
  <2>1. submissions' \in Seq(Operations)
    BY Sequences1 DEF CliTypeOK, Endings, EventTypes, Operations
  <2>2. events' \in Seq(EventTypes)
    <3>1. Append(events, "error") \in Seq(EventTypes)
      BY Sequences1 DEF CliTypeOK, Endings, EventTypes, Operations
    <3> QED BY <3>1 DEF CliTypeOK
  <2>3. agent' \in {"starting", "idle", "turn", "tools", "gone"}
    BY DEF CliTypeOK
  <2>4. cancelled' \in BOOLEAN /\ pending' \in BOOLEAN /\ twice' \in BOOLEAN
    BY DEF CliTypeOK
  <2> QED BY <2>1, <2>2, <2>3, <2>4 DEF CliTypeOK
<1>2. Starting'
  BY DEF CliTypeOK, Starting
<1>3. OneOwed'
  BY Sequences1, CommandAssumption DEF CliTypeOK, Starting, OneOwed, Owed, B, Endings, EventTypes, Operations
<1>4. (headless => console # "prompt")'
  OBVIOUS
<1> QED BY <1>1, <1>2, <1>3, <1>4

LEMMA ToolsEndKeeps ==
  ASSUME CliInv, ToolsEnd
  PROVE  CliInv'
<1> USE DEF ToolsEnd, Emit, AgentOnly, CliInv
<1>1. CliTypeOK'
  <2>1. events' \in Seq(EventTypes)
    BY Sequences1 DEF CliTypeOK, Endings, EventTypes, Operations
  <2>2. agent' \in {"starting", "idle", "turn", "tools", "gone"}
    BY DEF CliTypeOK
  <2>3. cancelled' \in BOOLEAN /\ twice' \in BOOLEAN
    BY DEF CliTypeOK
  <2> QED BY <2>1, <2>2, <2>3 DEF CliTypeOK
<1>2. Starting'
  BY DEF CliTypeOK, Starting
<1>3. OneOwed'
  BY Sequences1, CommandAssumption DEF CliTypeOK, Starting, OneOwed, Owed, B, Endings, EventTypes, Operations
<1>4. (headless => console # "prompt")'
  OBVIOUS
<1> QED BY <1>1, <1>2, <1>3, <1>4

LEMMA TakeUndoKeeps ==
  ASSUME CliInv, TakeUndo
  PROVE  CliInv'
<1> USE DEF TakeUndo, Taken, Next1, Emit, AgentOnly, CliInv
<1>1. CliTypeOK'
  BY Sequences1, CommandAssumption DEF CliTypeOK, Endings, EventTypes, Operations
<1>2. Starting'
  BY DEF CliTypeOK, Starting
<1>3. OneOwed'
  BY Sequences1, CommandAssumption DEF CliTypeOK, Starting, OneOwed, Owed, B, Endings, EventTypes, Operations
<1>4. (headless => console # "prompt")'
  OBVIOUS
<1> QED BY <1>1, <1>2, <1>3, <1>4

LEMMA TakeCompactKeeps ==
  ASSUME CliInv, TakeCompact
  PROVE  CliInv'
<1> USE DEF TakeCompact, Taken, Next1, Emit, AgentOnly, CliInv
<1>1. CliTypeOK'
  <2>1. submissions' \in Seq(Operations)
    BY Sequences1 DEF CliTypeOK, Endings, EventTypes, Operations
  <2>2. events' \in Seq(EventTypes)
    <3>1. \A e \in {"compacted", "error"} : Append(events, e) \in Seq(EventTypes)
      BY Sequences1 DEF CliTypeOK, Endings, EventTypes, Operations
    <3> QED BY <3>1 DEF CliTypeOK
  <2>3. agent' \in {"starting", "idle", "turn", "tools", "gone"}
    BY DEF CliTypeOK
  <2>4. running' \in BOOLEAN /\ twice' \in BOOLEAN
    BY DEF CliTypeOK
  <2> QED BY <2>1, <2>2, <2>3, <2>4 DEF CliTypeOK
<1>2. Starting'
  BY DEF CliTypeOK, Starting
<1>3. OneOwed'
  BY Sequences1, CommandAssumption DEF CliTypeOK, Starting, OneOwed, Owed, B, Endings, EventTypes, Operations
<1>4. (headless => console # "prompt")'
  OBVIOUS
<1> QED BY <1>1, <1>2, <1>3, <1>4

LEMMA TakeShutdownKeeps ==
  ASSUME CliInv, TakeShutdown
  PROVE  CliInv'
<1> USE DEF TakeShutdown, Taken, Next1, Emit, AgentOnly, CliInv
<1>1. CliTypeOK'
  BY Sequences1, CommandAssumption DEF CliTypeOK, Endings, EventTypes, Operations
<1>2. Starting'
  BY DEF CliTypeOK, Starting
<1>3. OneOwed'
  BY Sequences1, CommandAssumption DEF CliTypeOK, Starting, OneOwed, Owed, B, Endings, EventTypes, Operations
<1>4. (headless => console # "prompt")'
  OBVIOUS
<1> QED BY <1>1, <1>2, <1>3, <1>4

LEMMA TurnAsksKeeps ==
  ASSUME CliInv, TurnAsks
  PROVE  CliInv'
<1> USE DEF TurnAsks, Emit, AgentOnly, CliInv
<1>1. CliTypeOK'
  BY Sequences1, CommandAssumption DEF CliTypeOK, Endings, EventTypes, Operations
<1>2. Starting'
  BY DEF CliTypeOK, Starting
<1>3. OneOwed'
  BY Sequences1, CommandAssumption DEF CliTypeOK, Starting, OneOwed, Owed, B, Endings, EventTypes, Operations
<1>4. (headless => console # "prompt")'
  OBVIOUS
<1> QED BY <1>1, <1>2, <1>3, <1>4

LEMMA TurnEndsKeeps ==
  ASSUME CliInv, TurnEnds
  PROVE  CliInv'
<1> USE DEF TurnEnds, Emit, AgentOnly, CliInv
<1>1. CliTypeOK'
  <2>1. events \o <<"error", "error">> \in Seq(EventTypes)
    BY Sequences1 DEF CliTypeOK, Endings, EventTypes, Operations
  <2>2. events' \in Seq(EventTypes)
    <3>1. \A e \in EventTypes : Append(events, e) \in Seq(EventTypes)
      BY Sequences1 DEF CliTypeOK, Endings, EventTypes, Operations
    <3> QED BY <2>1, <3>1 DEF CliTypeOK, Endings, EventTypes
  <2> QED BY <2>1, <2>2 DEF CliTypeOK
<1>2. Starting'
  BY DEF CliTypeOK, Starting
<1>3. OneOwed'
  BY Sequences1, CommandAssumption DEF CliTypeOK, Starting, OneOwed, Owed, B, Endings, EventTypes, Operations
<1>4. (headless => console # "prompt")'
  OBVIOUS
<1> QED BY <1>1, <1>2, <1>3, <1>4

LEMMA TurnTerminatesKeeps ==
  ASSUME CliInv, TurnTerminates
  PROVE  CliInv'
<1> USE DEF TurnTerminates, Emit, AgentOnly, CliInv
<1>1. CliTypeOK'
  BY Sequences1, CommandAssumption DEF CliTypeOK, Endings, EventTypes, Operations
<1>2. Starting'
  BY DEF CliTypeOK, Starting
<1>3. OneOwed'
  BY Sequences1, CommandAssumption DEF CliTypeOK, Starting, OneOwed, Owed, B, Endings, EventTypes, Operations
<1>4. (headless => console # "prompt")'
  OBVIOUS
<1> QED BY <1>1, <1>2, <1>3, <1>4

LEMMA EndingShownKeeps ==
  ASSUME CliInv, EndingShown
  PROVE  CliInv'
<1> USE DEF EndingShown, Event, AgentUntouched, CliInv
<1>1. CliTypeOK'
  BY Sequences1, CommandAssumption DEF CliTypeOK, Endings, EventTypes, Operations
<1>2. Starting'
  <2>1. events # <<"ready">>
    BY DEF Endings
  <2> QED BY <2>1 DEF CliTypeOK, Starting
<1>3. OneOwed'
  BY Sequences1, CommandAssumption DEF CliTypeOK, Starting, OneOwed, Owed, B, Endings, EventTypes, Operations
<1>4. (headless => console # "prompt")'
  OBVIOUS
<1> QED BY <1>1, <1>2, <1>3, <1>4

LEMMA CompactedShownKeeps ==
  ASSUME CliInv, CompactedShown
  PROVE  CliInv'
<1> USE DEF CompactedShown, Event, AgentUntouched, CliInv
<1>1. CliTypeOK'
  BY Sequences1, CommandAssumption DEF CliTypeOK, Endings, EventTypes, Operations
<1>2. Starting'
  BY DEF CliTypeOK, Starting
<1>3. OneOwed'
  BY Sequences1, CommandAssumption DEF CliTypeOK, Starting, OneOwed, Owed, B, Endings, EventTypes, Operations
<1>4. (headless => console # "prompt")'
  OBVIOUS
<1> QED BY <1>1, <1>2, <1>3, <1>4

LEMMA ShutdownShownKeeps ==
  ASSUME CliInv, ShutdownShown
  PROVE  CliInv'
<1> USE DEF ShutdownShown, Event, AgentUntouched, CliInv
<1>1. CliTypeOK'
  BY Sequences1, CommandAssumption DEF CliTypeOK, Endings, EventTypes, Operations
<1>2. Starting'
  BY DEF CliTypeOK, Starting
<1>3. OneOwed'
  BY Sequences1, CommandAssumption DEF CliTypeOK, Starting, OneOwed, Owed, B, Endings, EventTypes, Operations
<1>4. (headless => console # "prompt")'
  OBVIOUS
<1> QED BY <1>1, <1>2, <1>3, <1>4

LEMMA ApprovalShownKeeps ==
  ASSUME CliInv, ApprovalShown
  PROVE  CliInv'
<1> USE DEF ApprovalShown, Event, AgentUntouched, CliInv
<1>1. CliTypeOK'
  <2>1. submissions' \in Seq(Operations)
    <3>1. Append(submissions, "yes") \in Seq(Operations)
      BY Sequences1 DEF CliTypeOK, Endings, EventTypes, Operations
    <3> QED BY <3>1 DEF CliTypeOK
  <2>2. events' \in Seq(EventTypes)
    BY Sequences1 DEF CliTypeOK, Endings, EventTypes, Operations
  <2>3. listener' \in {"on", "asking", "off"} /\ handler' \in {"ours", "prompt", "default"}
    BY DEF CliTypeOK
  <2> QED BY <2>1, <2>2, <2>3 DEF CliTypeOK
<1>2. Starting'
  BY DEF CliTypeOK, Starting
<1>3. OneOwed'
  BY Sequences1, CommandAssumption DEF CliTypeOK, Starting, OneOwed, Owed, B, Endings, EventTypes, Operations
<1>4. (headless => console # "prompt")'
  OBVIOUS
<1> QED BY <1>1, <1>2, <1>3, <1>4

LEMMA AnsweredKeeps ==
  ASSUME CliInv, NEW answer \in {"yes", "no"}, NEW forever \in BOOLEAN, Answered(answer, forever)
  PROVE  CliInv'
<1> USE DEF Answered, AgentUntouched, CliInv
<1>1. CliTypeOK'
  BY Sequences1, CommandAssumption DEF CliTypeOK, Endings, EventTypes, Operations
<1>2. Starting'
  BY DEF CliTypeOK, Starting
<1>3. OneOwed'
  BY Sequences1, CommandAssumption DEF CliTypeOK, Starting, OneOwed, Owed, B, Endings, EventTypes, Operations
<1>4. (headless => console # "prompt")'
  OBVIOUS
<1> QED BY <1>1, <1>2, <1>3, <1>4

LEMMA ReadyKeeps ==
  ASSUME CliInv, Ready
  PROVE  CliInv'
<1> USE DEF Ready, Event, MainSame, CliInv
<1>1. CliTypeOK'
  BY Sequences1, CommandAssumption DEF CliTypeOK, Endings, EventTypes, Operations
<1>2. Starting'
  BY DEF CliTypeOK, Starting
<1>3. OneOwed'
  <2>1. events = <<"ready">> /\ events' = <<>> /\ submissions' = <<>> /\ agent' = "idle"
    BY DEF Starting
  <2>2. Len(events') = 0 /\ Len(submissions') = 0
    BY <2>1
  <2> QED BY <2>1, <2>2 DEF CliTypeOK, Starting, OneOwed, Owed, B
<1>4. (headless => console # "prompt")'
  OBVIOUS
<1> QED BY <1>1, <1>2, <1>3, <1>4

LEMMA WakeKeeps ==
  ASSUME CliInv, Wake
  PROVE  CliInv'
<1> USE DEF Wake, MainSame, CliInv
<1>1. CliTypeOK'
  <2>1. submissions' \in Seq(Operations)
    BY SMTT(30), Sequences1 DEF CliTypeOK, Endings, EventTypes, Operations
  <2>2. console' \in {"starting", "waiting", "prompt", "shutting", "gone"}
    BY DEF CliTypeOK
  <2>3. handler' \in {"ours", "prompt", "default"}
    BY DEF CliTypeOK
  <2> QED BY <2>1, <2>2, <2>3 DEF CliTypeOK
<1>2. Starting'
  BY DEF CliTypeOK, Starting
<1>3. OneOwed'
  BY Sequences1, CommandAssumption DEF CliTypeOK, Starting, OneOwed, Owed, B, Endings, EventTypes, Operations
<1>4. (headless => console # "prompt")'
  OBVIOUS
<1> QED BY <1>1, <1>2, <1>3, <1>4

LEMMA TypeKeeps ==
  ASSUME CliInv, NEW c \in Commands, Type(c)
  PROVE  CliInv'
<1> USE DEF Type, CliInv
<1>1. CliTypeOK'
  <2>1. c # "local" => c \in Operations
    BY DEF Operations
  <2>2. submissions' \in Seq(Operations)
    BY <2>1, Sequences1 DEF CliTypeOK
  <2>3. yolo' \in BOOLEAN /\ done' \in BOOLEAN
    BY DEF CliTypeOK
  <2>4. typed' \in 0 .. MaxTyped
    BY CommandAssumption DEF CliTypeOK
  <2> QED BY <2>1, <2>2, <2>3, <2>4 DEF CliTypeOK
<1>2. Starting'
  BY DEF CliTypeOK, Starting
<1>3. OneOwed'
  BY Sequences1, CommandAssumption DEF CliTypeOK, Starting, OneOwed, Owed, B, Endings, EventTypes, Operations
<1>4. (headless => console # "prompt")'
  OBVIOUS
<1> QED BY <1>1, <1>2, <1>3, <1>4

LEMMA LeaveKeeps ==
  ASSUME CliInv, Leave
  PROVE  CliInv'
<1> USE DEF Leave, MainSame, CliInv
<1>1. CliTypeOK'
  BY Sequences1, CommandAssumption DEF CliTypeOK, Endings, EventTypes, Operations
<1>2. Starting'
  BY DEF CliTypeOK, Starting
<1>3. OneOwed'
  BY Sequences1, CommandAssumption DEF CliTypeOK, Starting, OneOwed, Owed, B, Endings, EventTypes, Operations
<1>4. (headless => console # "prompt")'
  OBVIOUS
<1> QED BY <1>1, <1>2, <1>3, <1>4

LEMMA PromptInterruptedKeeps ==
  ASSUME CliInv, PromptInterrupted
  PROVE  CliInv'
<1> USE DEF PromptInterrupted, MainSame, CliInv
<1>1. CliTypeOK'
  <2>1. submissions' \in Seq(Operations)
    <3>1. submissions \in Seq(Operations) /\ "shutdown" \in Operations
      BY DEF CliTypeOK, Operations
    <3>2. submissions' = Append(submissions, "shutdown") \/ submissions' = submissions
      OBVIOUS
    <3>3. Append(submissions, "shutdown") \in Seq(Operations)
      BY <3>1
    <3> QED BY <3>1, <3>2, <3>3
  <2>2. console' \in {"starting", "waiting", "prompt", "shutting", "gone"}
    BY DEF CliTypeOK
  <2>3. handler' \in {"ours", "prompt", "default"}
    BY DEF CliTypeOK
  <2>4. armed' \in BOOLEAN /\ done' \in BOOLEAN
    BY DEF CliTypeOK
  <2> QED BY <2>1, <2>2, <2>3, <2>4 DEF CliTypeOK
<1>2. Starting'
  BY DEF CliTypeOK, Starting
<1>3. OneOwed'
  BY Sequences1, CommandAssumption DEF CliTypeOK, Starting, OneOwed, Owed, B, Endings, EventTypes, Operations
<1>4. (headless => console # "prompt")'
  OBVIOUS
<1> QED BY <1>1, <1>2, <1>3, <1>4

LEMMA InterruptKeeps ==
  ASSUME CliInv, Interrupt
  PROVE  CliInv'
<1> USE DEF Interrupt, MainSame, CliInv
<1>1. CliTypeOK'
  BY Sequences1, CommandAssumption DEF CliTypeOK, Endings, EventTypes, Operations
<1>2. Starting'
  BY DEF CliTypeOK, Starting
<1>3. OneOwed'
  BY Sequences1, CommandAssumption DEF CliTypeOK, Starting, OneOwed, Owed, B, Endings, EventTypes, Operations
<1>4. (headless => console # "prompt")'
  OBVIOUS
<1> QED BY <1>1, <1>2, <1>3, <1>4

LEMMA InterruptUnhandledKeeps ==
  ASSUME CliInv, InterruptUnhandled
  PROVE  CliInv'
<1> USE DEF InterruptUnhandled, CliInv
<1>1. CliTypeOK'
  BY Sequences1, CommandAssumption DEF CliTypeOK, Endings, EventTypes, Operations
<1>2. Starting'
  BY DEF CliTypeOK, Starting
<1>3. OneOwed'
  BY Sequences1, CommandAssumption DEF CliTypeOK, Starting, OneOwed, Owed, B, Endings, EventTypes, Operations
<1>4. (headless => console # "prompt")'
  OBVIOUS
<1> QED BY <1>1, <1>2, <1>3, <1>4

LEMMA DisarmKeeps ==
  ASSUME CliInv, Disarm
  PROVE  CliInv'
<1> USE DEF Disarm, MainSame, CliInv
<1>1. CliTypeOK'
  BY ZenonT(40), Sequences1, CommandAssumption DEF CliTypeOK, Endings, EventTypes, Operations
<1>2. Starting'
  BY DEF CliTypeOK, Starting
<1>3. OneOwed'
  BY Sequences1, CommandAssumption DEF CliTypeOK, Starting, OneOwed, Owed, B, Endings, EventTypes, Operations
<1>4. (headless => console # "prompt")'
  OBVIOUS
<1> QED BY <1>1, <1>2, <1>3, <1>4

LEMMA HeadlessReadyKeeps ==
  ASSUME CliInv, HeadlessReady
  PROVE  CliInv'
<1> USE DEF HeadlessReady, MainSame, CliInv
<1>1. CliTypeOK'
  BY Sequences1, CommandAssumption DEF CliTypeOK, Endings, EventTypes, Operations
<1>2. Starting'
  BY DEF CliTypeOK, Starting
<1>3. OneOwed'
  BY Sequences1, CommandAssumption DEF CliTypeOK, Starting, OneOwed, Owed, B, Endings, EventTypes, Operations
<1>4. (headless => console # "prompt")'
  OBVIOUS
<1> QED BY <1>1, <1>2, <1>3, <1>4

LEMMA HeadlessEventKeeps ==
  ASSUME CliInv, HeadlessEvent
  PROVE  CliInv'
<1> USE DEF HeadlessEvent, MainSame, CliInv
<1>1. CliTypeOK'
  <2>1. Head(events) \in EventTypes /\ events' \in Seq(EventTypes)
    BY Sequences1 DEF CliTypeOK, Endings, EventTypes, Operations
  <2>2. submissions' \in Seq(Operations)
    <3>1. /\ Append(submissions, "yes") \in Seq(Operations)
          /\ Append(submissions, "shutdown") \in Seq(Operations)
      BY Sequences1 DEF CliTypeOK, Endings, EventTypes, Operations
    <3> QED BY <3>1 DEF CliTypeOK
  <2>3. console' \in {"starting", "waiting", "prompt", "shutting", "gone"}
    BY DEF CliTypeOK
  <2> QED BY <2>1, <2>2, <2>3 DEF CliTypeOK
<1>2. Starting'
  BY DEF CliTypeOK, Starting
<1>3. OneOwed'
  BY Sequences1, CommandAssumption DEF CliTypeOK, Starting, OneOwed, Owed, B, Endings, EventTypes, Operations
<1>4. (headless => console # "prompt")'
  OBVIOUS
<1> QED BY <1>1, <1>2, <1>3, <1>4

LEMMA AgentAwaitedKeeps ==
  ASSUME CliInv, AgentAwaited
  PROVE  CliInv'
<1> USE DEF AgentAwaited, CliInv
<1>1. CliTypeOK'
  BY Sequences1, CommandAssumption DEF CliTypeOK, Endings, EventTypes, Operations
<1>2. Starting'
  BY DEF CliTypeOK, Starting
<1>3. OneOwed'
  BY Sequences1, CommandAssumption DEF CliTypeOK, Starting, OneOwed, Owed, B, Endings, EventTypes, Operations
<1>4. (headless => console # "prompt")'
  OBVIOUS
<1> QED BY <1>1, <1>2, <1>3, <1>4

---------------------------------------------------------------------------
LEMMA CliInitially == CliInit => CliInv
<1> SUFFICES ASSUME CliInit PROVE CliInv
  OBVIOUS
<1>1. CliTypeOK
  <2>1. /\ <<>> \in Seq(Operations) /\ <<>> \in Seq(EventTypes) /\ 0 \in 0 .. MaxTyped
    BY CommandAssumption
  <2> QED BY <2>1 DEF CliInit, CliTypeOK
<1>2. Starting /\ OneOwed /\ (headless => console # "prompt")
  BY DEF CliInit, Starting, OneOwed
<1> QED BY <1>1, <1>2 DEF CliInv

LEMMA CliStep == CliInv /\ [CliNext]_cliVars => CliInv'
<1> SUFFICES ASSUME CliInv, [CliNext]_cliVars PROVE CliInv'
  OBVIOUS
<1>1. CASE AgentStep
  BY <1>1, AgentStartsKeeps, TakeInputKeeps, TakeApprovalKeeps, TakeUndoKeeps,
     TakeCompactKeeps, TakeShutdownKeeps, ToolsEndKeeps, TurnAsksKeeps, TurnEndsKeeps,
     TurnTerminatesKeeps DEF AgentStep, Submissions
<1>2. CASE ListenerStep \/ Answering
  BY <1>2, EndingShownKeeps, CompactedShownKeeps, ShutdownShownKeeps,
     ApprovalShownKeeps, AnsweredKeeps DEF ListenerStep, Answering
<1>3. CASE MainStep
  BY <1>3, ReadyKeeps, WakeKeeps, HeadlessReadyKeeps, HeadlessEventKeeps,
     AgentAwaitedKeeps DEF MainStep
<1>4. CASE UNCHANGED cliVars
  BY <1>4 DEF CliInv, CliTypeOK, Starting, OneOwed, Owed, cliVars
<1> QED
  BY <1>1, <1>2, <1>3, <1>4, TypeKeeps, LeaveKeeps, PromptInterruptedKeeps,
     InterruptKeeps, InterruptUnhandledKeeps, DisarmKeeps DEF CliNext

LEMMA CliInvariant == CliSpec => []CliInv
BY CliInitially, CliStep, PTL DEF CliSpec

\* The queues carry what their readers know, and every task is in a state it knows.
THEOREM CliIsTyped == CliSpec => []CliTypeOK
<1>1. CliInv => CliTypeOK
  BY DEF CliInv
<1> QED BY <1>1, CliInvariant, PTL

\* The prompt of the client means an idle agent, however the tasks, the user and
\* Ctrl-C interleave and whatever is typed.
THEOREM PromptIsIdle == CliSpec => []PromptMeansIdle
<1>1. CliInv => PromptMeansIdle
  <2> SUFFICES ASSUME CliInv, console = "prompt", ~twice
               PROVE  /\ agent \in {"idle", "gone"} /\ listener # "asking"
                      /\ submissions = <<>> /\ events = <<>>
    BY DEF PromptMeansIdle
  <2>1. Owed <= 0 /\ agent # "starting"
    BY DEF CliInv, OneOwed
  <2>2. /\ Len(submissions) \in Nat /\ Len(events) \in Nat
        /\ submissions \in Seq(Operations) /\ events \in Seq(EventTypes)
    BY DEF CliInv, CliTypeOK
  <2>3. /\ Len(submissions) = 0 /\ Len(events) = 0
        /\ ~(agent \in {"turn", "tools"}) /\ listener # "asking"
    BY <2>1, <2>2 DEF Owed, B
  <2> QED BY <2>1, <2>2, <2>3 DEF CliInv, CliTypeOK
<1> QED BY <1>1, CliInvariant, PTL

---------------------------------------------------------------------------
(***************************************************************************)
(* The parts side by side                                                  *)
(***************************************************************************)

(* Each part keeps its own types, and a step of one part changes no variable   *)
(* of another, so the types of all hold side by side.                         *)
THEOREM ServicePartsAreTyped == PartsSpec => []PartsTypeOK
<1> USE DEF partVars, gatewayVars, sandboxVars, uploadVars, cliVars
<1>1. PartsInit => GatewayInit /\ SandboxInit /\ UploadInit /\ CliInit
  BY DEF PartsInit
<1>2. [PartsNext]_partVars => [GatewayNext]_gatewayVars
  BY DEF PartsNext
<1>3. [PartsNext]_partVars => [SandboxNext]_sandboxVars
  BY DEF PartsNext
<1>4. [PartsNext]_partVars => [UploadNext]_uploadVars
  BY DEF PartsNext
<1>5. [PartsNext]_partVars => [CliNext]_cliVars
  BY DEF PartsNext
<1>6. PartsTypeOK <=> GatewayTypeOK /\ SandboxTypeOK /\ UploadTypeOK /\ CliTypeOK
  BY DEF PartsTypeOK
<1> HIDE DEF partVars, gatewayVars, sandboxVars, uploadVars, cliVars
<1> QED
  BY <1>1, <1>2, <1>3, <1>4, <1>5, <1>6, GatewayTypeCorrect, SandboxIsTyped,
     UploadTypeCorrect, CliIsTyped, PTL
     DEF PartsSpec, GatewaySpec, SandboxSpec, UploadSpec, CliSpec

=============================================================================
