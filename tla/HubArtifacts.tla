---------------------------- MODULE HubArtifacts ----------------------------
(***************************************************************************)
(* The mark that the agent leaves on a repository it made: its tool calls, in  *)
(* threads, and the scripts it runs, through hooks in HfApi, change the         *)
(* repository and then register it: the card, README.md, is read, completed      *)
(* and written back, and the repository is put into the session's collection.     *)
(*                                                                         *)
(* One repository that is not a sandbox.  Of a card only which text it holds       *)
(* and whether it is marked is kept; text 0 is no card.                       *)
(***************************************************************************)
EXTENDS Naturals

CONSTANTS
  ToolCalls,     \* calls of hf_repo_git and hf_repo_files under way
  ScriptThreads, \* threads of a Python script in the sandbox
  MaxTexts,      \* bound: texts written to the card
  MaxHubOps      \* bound: operations on the repository

ASSUME HubAssumption ==
  /\ ToolCalls \cap ScriptThreads = {} /\ {MaxTexts, MaxHubOps} \subseteq Nat

VARIABLES
  exists,    \* the repository is there
  card,      \* its README.md
  prs,       \* texts proposed in pull requests
  collected, \* it is in the collection
  known,     \* _ml_intern_known_hub_artifacts of the session holds it
  marked,    \* who has registered it: "tool" (the session), "script" (the hooks)
  hooking,   \* the hooks' flag "registering"
  registration,       \* what each actor is doing
  texts, hubOps,  \* counters
  excused    \* (history) a request failed or a pull request was merged
hubVars == <<exists, card, prs, collected, known, marked, hooking, registration, texts, hubOps,
             excused>>

Actors == ToolCalls \cup ScriptThreads
Side(a) == IF a \in ToolCalls THEN "tool" ELSE "script"
Cards == [text : 0 .. MaxTexts, marked : BOOLEAN]
NoCard == [text |-> 0, marked |-> FALSE]
Registrations ==
  [at : {"rest", "check", "read", "put", "collect"}, made : BOOLEAN, force : BOOLEAN,
   read : Cards, carded : BOOLEAN]
Registration(at, made, force) ==
  [at |-> at, made |-> made, force |-> force, read |-> NoCard, carded |-> FALSE]
NoRegistration == Registration("rest", FALSE, FALSE)

HubTypeOK ==
  /\ {exists, collected, known, hooking, excused} \subseteq BOOLEAN
  /\ card \in Cards /\ prs \subseteq 1 .. MaxTexts
  /\ marked \subseteq {"tool", "script"} /\ texts \in 0 .. MaxTexts /\ hubOps \in 0 .. MaxHubOps
  /\ registration \in [Actors -> Registrations]

HubInit ==
  /\ exists \in BOOLEAN /\ card = NoCard /\ prs = {} /\ collected = FALSE /\ known = FALSE
  /\ marked = {} /\ hooking = FALSE /\ registration = [a \in Actors |-> NoRegistration]
  /\ texts = 0 /\ hubOps = 0 /\ excused = FALSE

---------------------------------------------------------------------------
(* Operations on the repository                                            *)

Operates(a, at, made, force) ==
  /\ registration[a].at = "rest" /\ hubOps < MaxHubOps /\ hubOps' = hubOps + 1
  /\ registration' = [registration EXCEPT ![a] = Registration(at, made, force)]
  /\ UNCHANGED <<collected, known, marked, hooking, excused>>
NewText(t) == t = texts + 1 /\ t <= MaxTexts /\ texts' = t

\* create_repo, exist_ok included
CreateRepo(a) ==
  /\ Operates(a, "check", TRUE, FALSE) /\ exists' = TRUE /\ UNCHANGED <<card, prs, texts>>

\* README.md is uploaded; scripts also upload folders and commits
UploadCard(a) ==
  \E t \in 1 .. MaxTexts :
    /\ exists /\ NewText(t) /\ Operates(a, "check", FALSE, TRUE)
    /\ card' = [text |-> t, marked |-> FALSE] /\ UNCHANGED <<exists, prs>>

UploadOther(a) ==
  /\ exists /\ Operates(a, "check", FALSE, FALSE) /\ UNCHANGED <<exists, card, prs, texts>>

\* an upload as a pull request, which is not registered
ProposeCard(a) ==
  \E t \in 1 .. MaxTexts :
    /\ exists /\ NewText(t) /\ Operates(a, "rest", FALSE, FALSE) /\ prs' = prs \cup {t}
    /\ UNCHANGED <<exists, card>>

\* merge_pr does not register either
MergeCard(a) ==
  \E t \in prs :
    /\ registration[a].at = "rest" /\ card' = [text |-> t, marked |-> FALSE]
    /\ prs' = prs \ {t} /\ excused' = TRUE
    /\ UNCHANGED <<exists, collected, known, marked, hooking, registration, texts, hubOps>>

DeleteCard(a) ==
  /\ card # NoCard /\ Operates(a, "rest", FALSE, FALSE) /\ card' = NoCard
  /\ UNCHANGED <<exists, prs, texts>>

---------------------------------------------------------------------------
(* Registration                                                            *)

RepoSame == UNCHANGED <<exists, prs, texts, hubOps>>

Registers(a) == IF a \in ToolCalls THEN known \/ registration[a].made ELSE ~hooking
Checks(a, goesOn) ==
  /\ registration[a].at = "check"
  /\ registration' = [registration EXCEPT ![a] = IF goesOn THEN [@ EXCEPT !.at = "read"] ELSE NoRegistration]
  /\ known' = (known \/ (a \in ToolCalls /\ Registers(a)))
  /\ hooking' = (hooking \/ (a \in ScriptThreads /\ goesOn))
  /\ RepoSame /\ UNCHANGED <<card, collected, marked, excused>>

\* mutant: an upload of the card does not force the registration
Check_Unforced(a) == Checks(a, Registers(a) /\ Side(a) \notin marked)

\* A call registers what it created, and later uploads if the repository is known;
\* the hooks register everything, but one thread at a time.  Once registered, a
\* repository is done unless the registration is forced.
Check(a) == Checks(a, Registers(a) /\ (registration[a].force \/ Side(a) \notin marked))

\* augment_repo_card_content adds the mark, and a title if there is no text
Completed(c) == [c EXCEPT !.marked = TRUE]

ReadCard(a) ==
  /\ registration[a].at = "read"
  /\ \/ /\ registration' = [registration EXCEPT ![a].at = "put", ![a].read = card] /\ UNCHANGED excused
     \/ /\ registration' = [registration EXCEPT ![a].at = "collect"] /\ excused' = TRUE
  /\ RepoSame /\ UNCHANGED <<card, collected, known, marked, hooking>>

\* the completed card replaces whatever is there by now, if it differs
PutCard(a) ==
  /\ registration[a].at = "put"
  /\ \/ /\ card' = IF Completed(registration[a].read) = registration[a].read THEN card ELSE Completed(registration[a].read)
        /\ registration' = [registration EXCEPT ![a].at = "collect", ![a].carded = TRUE]
        /\ UNCHANGED excused
     \/ /\ registration' = [registration EXCEPT ![a].at = "collect"] /\ excused' = TRUE /\ UNCHANGED card
  /\ RepoSame /\ UNCHANGED <<collected, known, marked, hooking>>

Collect(a) ==
  /\ registration[a].at = "collect" /\ registration' = [registration EXCEPT ![a] = NoRegistration]
  /\ \/ /\ collected' = TRUE /\ UNCHANGED excused
        /\ marked' = IF registration[a].carded THEN marked \cup {Side(a)} ELSE marked
     \/ excused' = TRUE /\ UNCHANGED <<collected, marked>>
  /\ hooking' = (hooking /\ a \in ToolCalls)
  /\ RepoSame /\ UNCHANGED <<card, known>>

HubNext ==
  \E a \in Actors :
    \/ CreateRepo(a) \/ UploadCard(a) \/ UploadOther(a)
    \/ a \in ToolCalls /\ (ProposeCard(a) \/ MergeCard(a) \/ DeleteCard(a))
    \/ Check(a) \/ ReadCard(a) \/ PutCard(a) \/ Collect(a)

HubSpec == HubInit /\ [][HubNext]_hubVars

---------------------------------------------------------------------------
\* "Tag, card, and collection-register a Hub artifact": while nothing is under
\* way, the card of a repository that the session made is marked, whatever was
\* uploaded by calls and a script at once, unless a request failed or a pull
\* request was merged.  With two threads of a script it does not hold: a thread
\* that finds the flag "registering" set leaves its card as it is.
KnownIsMarked ==
  known /\ ~excused /\ (\A a \in Actors : registration[a].at = "rest") =>
    card.text = 0 \/ card.marked

(* Not kept by the code (README, section 3).                               *)

\* A registration does not undo a newer text of the card.
NewerTextStays ==
  [][excused' \/ card'.text >= card.text \/ card' = NoCard]_hubVars

\* What is registered is marked, even if a later registration failed.
RegisteredIsMarked ==
  "tool" \in marked /\ (\A a \in Actors : registration[a].at = "rest") =>
    card.text = 0 \/ card.marked
=============================================================================
