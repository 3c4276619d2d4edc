------------------------------- MODULE Skills -------------------------------
(***************************************************************************)
(* The procedural skills: one file per user and skill, changed by requests    *)
(* in threads and by the agents' tools and reflections on the event loop; a    *)
(* lock per file; the index of the enabled skills in the system prompt of      *)
(* every session; and the move of the files of the fallback user "dev" when    *)
(* the account becomes known.  A compaction holds on to the prompt it found     *)
(* while it awaits its summary, and puts it back.                              *)
(*                                                                         *)
(* A skill is its switch, its count of uses and its body, of which only two     *)
(* texts are told apart.  The tools and the reflection differ in what they       *)
(* say to the model, not in what they do to a file.  The cap on the index is     *)
(* left out, and the reads of one index are one step.                         *)
(***************************************************************************)
EXTENDS Naturals

CONSTANTS
  SkillNames,
  SkillSessions,
  RunningSessions,       \* the sessions there are at the start; the rest are created
  SkillRequests, \* requests under way at once
  Docker,        \* whether the account is remembered in .last-user-id
  MaxChanges     \* bound: operations started

ASSUME SkillsAssumption ==
  /\ RunningSessions \subseteq SkillSessions /\ SkillRequests \cap {"loop", "nobody"} = {}
  /\ "no compaction" \notin SkillNames
  /\ Docker \in BOOLEAN /\ MaxChanges \in Nat

VARIABLES
  skill,      \* SKILL.md of each user and name
  lockedBy,   \* _LOCKS
  work,       \* what each thread is doing; "loop" is the event loop
  owner,      \* user_id of each session, "none" before it is built
  registered, \* SessionManager.sessions
  index,      \* the skills that the system prompt lists
  held,       \* the prompt that a compaction has taken note of, and will put back
  undone,     \* history: the sessions whose newest index a compaction replaced
  accountKnown,      \* .last-user-id exists
  changes     \* number of operations started

skillVars == <<skill, lockedBy, work, owner, registered, index, held, undone,
               accountKnown, changes>>

Users == {"dev", "hub"}
SkillKeys == Users \X SkillNames
Threads == {"loop"} \cup SkillRequests
Bodies == {"old", "new"}
NoSkill == [on |-> FALSE, uses |-> 0, body |-> "none"]
Skill == [on : BOOLEAN, uses : Nat, body : Bodies]
AtRest == [op |-> "none", at |-> "rest"]
Toggles == {"enable", "disable"}
NoPrompt == {"no compaction"}  \* the name of no skill

SkillsTypeOK ==
  /\ skill \in [SkillKeys -> Skill \cup {NoSkill}]
  /\ lockedBy \in [SkillKeys -> Threads \cup {"nobody"}]
  /\ \A t \in Threads : work[t].at \in {"rest", "look", "lock", "read", "write", "refresh"}
  /\ owner \in [SkillSessions -> Users \cup {"none"}]
  /\ registered \subseteq SkillSessions
  /\ index \in [SkillSessions -> SUBSET SkillNames]
  /\ held \in [SkillSessions -> (SUBSET SkillNames) \cup {NoPrompt}]
  /\ undone \subseteq SkillSessions
  /\ accountKnown \in BOOLEAN /\ changes \in 0 .. MaxChanges

\* enabled_skill_summaries
Enabled(u) == {n \in SkillNames : skill[<<u, n>>].on}

\* a request's user: the account if it is known, else what whoami said
Someone == IF Docker THEN IF accountKnown THEN {"hub"} ELSE {"dev"} ELSE Users

SkillsInit ==
  /\ accountKnown \in IF Docker THEN BOOLEAN ELSE {FALSE}
  /\ skill \in [SkillKeys -> {NoSkill, [on |-> TRUE, uses |-> 0, body |-> "old"]}]
  /\ Docker => \A n \in SkillNames : skill[<<IF accountKnown THEN "dev" ELSE "hub", n>>] = NoSkill
  /\ lockedBy = [k \in SkillKeys |-> "nobody"]
  /\ work = [t \in Threads |-> AtRest]
  /\ registered = RunningSessions
  /\ owner \in [SkillSessions -> Users \cup {"none"}]
  /\ \A s \in SkillSessions :
       IF s \in RunningSessions THEN owner[s] \in Someone ELSE owner[s] = "none"
  /\ index = [s \in SkillSessions |->
                IF s \in RunningSessions THEN Enabled(owner[s]) ELSE {}]
  /\ held = [s \in SkillSessions |-> NoPrompt] /\ undone = {}
  /\ changes = 0

---------------------------------------------------------------------------
(* One operation on one file                                               *)

SessionsSame == UNCHANGED <<owner, registered, held, accountKnown>>
IndexSame == UNCHANGED <<index, undone>>

Begins(t, op, u, n, s) ==
  /\ work[t] = AtRest /\ changes < MaxChanges /\ changes' = changes + 1
  /\ work' = [work EXCEPT ![t] =
       [op |-> op, at |-> IF op = "view" THEN "look" ELSE "lock",
        key |-> <<u, n>>, session |-> s, seen |-> NoSkill]]
  /\ SessionsSame /\ IndexSame /\ UNCHANGED <<skill, lockedBy>>

\* toggle_skill and delete_skill
RequestChange(t, n) ==
  \E op \in Toggles \cup {"delete"}, u \in Someone : Begins(t, op, u, n, "none")

\* skill_view, skill_manage and the reflection of a session
ToolChange(s, n) ==
  /\ s \in registered
  /\ \E op \in {"view", "edit", "patch"} : Begins("loop", op, owner[s], n, s)

To(t, at) == work' = [work EXCEPT ![t].at = at]
Ends(t) == work' = [work EXCEPT ![t] = AtRest]

\* skill_view: a skill that is missing or disabled is not found
Look(t) ==
  /\ work[t].at = "look"
  /\ IF skill[work[t].key].on THEN To(t, "lock") ELSE Ends(t)
  /\ SessionsSame /\ IndexSame /\ UNCHANGED <<skill, lockedBy, changes>>

Lock(t) ==
  /\ work[t].at = "lock" /\ lockedBy[work[t].key] = "nobody"
  /\ lockedBy' = [lockedBy EXCEPT ![work[t].key] = t]
  /\ To(t, "read")
  /\ SessionsSame /\ IndexSame /\ UNCHANGED <<skill, changes>>

\* get_skill; only an edit may create, and a patch must match
Read(t) ==
  LET k == work[t].key
      usable == CASE work[t].op = "edit" -> TRUE
                  [] work[t].op = "patch" -> skill[k].body = "old"
                  [] OTHER -> skill[k] # NoSkill
  IN /\ work[t].at = "read"
     /\ IF usable
        THEN /\ work' = [work EXCEPT ![t].at = "write", ![t].seen = skill[k]]
             /\ UNCHANGED lockedBy
        ELSE Ends(t) /\ lockedBy' = [lockedBy EXCEPT ![k] = "nobody"]
     /\ SessionsSame /\ IndexSame /\ UNCHANGED <<skill, changes>>

\* what is written, from what was read
Written(op, seen) ==
  CASE op = "view" -> {[seen EXCEPT !.uses = @ + 1]}
    [] op = "enable" -> {[seen EXCEPT !.on = TRUE]}
    [] op = "disable" -> {[seen EXCEPT !.on = FALSE]}
    [] op = "delete" -> {NoSkill}
    [] op = "patch" -> {[seen EXCEPT !.body = "new"]}
    [] op = "edit" /\ seen = NoSkill -> {[on |-> TRUE, uses |-> 0, body |-> b] : b \in Bodies}
    [] OTHER -> {[seen EXCEPT !.body = b] : b \in Bodies}

\* the file is replaced or unlinked, and the lock released
Write(t) ==
  LET k == work[t].key IN
  /\ work[t].at = "write"
  /\ \E new \in Written(work[t].op, work[t].seen) : skill' = [skill EXCEPT ![k] = new]
  /\ lockedBy' = [lockedBy EXCEPT ![k] = "nobody"]
  /\ IF work[t].op = "view" THEN Ends(t) ELSE To(t, "refresh")
  /\ SessionsSame /\ IndexSame /\ UNCHANGED changes

---------------------------------------------------------------------------
(* The system prompts                                                      *)

\* a tool refreshes the prompt of its own session
RefreshOwn ==
  /\ work["loop"].at = "refresh" /\ Ends("loop")
  /\ LET s == work["loop"].session
     IN index' = [index EXCEPT ![s] = Enabled(owner[s])] /\ undone' = undone \ {s}
  /\ SessionsSame /\ UNCHANGED <<skill, lockedBy, changes>>

\* mutant: refresh_user_skill_prompts returns from within its loop
RefreshAll_First(t) ==
  /\ work[t].at = "refresh" /\ work["loop"] = AtRest /\ Ends(t)
  /\ \E s \in registered :
       /\ owner[s] = work[t].key[1]
       /\ index' = [index EXCEPT ![s] = Enabled(owner[s])] /\ undone' = undone \ {s}
  /\ SessionsSame /\ UNCHANGED <<skill, lockedBy, changes>>

\* a request refreshes the prompts of all sessions of its user
RefreshAll(t) ==
  /\ work[t].at = "refresh" /\ work["loop"] = AtRest /\ Ends(t)
  /\ LET refreshed == {s \in registered : owner[s] = work[t].key[1]}
     IN /\ index' = [s \in SkillSessions |->
                       IF s \in refreshed THEN Enabled(owner[s]) ELSE index[s]]
        /\ undone' = undone \ refreshed
  /\ SessionsSame /\ UNCHANGED <<skill, lockedBy, changes>>

\* compact: items[0] is kept before the summary is awaited ...
CompactBegins(s) ==
  /\ s \in registered /\ held[s] = NoPrompt /\ work["loop"] = AtRest
  /\ changes < MaxChanges /\ changes' = changes + 1
  /\ held' = [held EXCEPT ![s] = index[s]]
  /\ UNCHANGED <<skill, lockedBy, work, owner, registered, index, undone, accountKnown>>

\* ... and heads the new items, whatever was refreshed meanwhile; a summary that
\* fails leaves the items alone
CompactEnds(s) ==
  /\ held[s] # NoPrompt /\ work["loop"] = AtRest
  /\ held' = [held EXCEPT ![s] = NoPrompt]
  /\ \/ /\ index' = [index EXCEPT ![s] = held[s]]
        /\ undone' = IF held[s] = index[s] THEN undone ELSE undone \cup {s}
     \/ IndexSame
  /\ UNCHANGED <<skill, lockedBy, work, owner, registered, accountKnown, changes>>

\* a session is built in a thread, with the index of that moment ...
Build(s) ==
  /\ owner[s] = "none"
  /\ \E u \in Someone : /\ owner' = [owner EXCEPT ![s] = u]
                        /\ index' = [index EXCEPT ![s] = Enabled(u)]
  /\ UNCHANGED <<skill, lockedBy, work, registered, held, undone, accountKnown, changes>>

\* ... and registered afterwards
Registered(s) ==
  /\ owner[s] # "none" /\ s \notin registered /\ registered' = registered \cup {s}
  /\ UNCHANGED <<skill, lockedBy, work, owner, index, held, undone, accountKnown, changes>>

\* the account is known: the directories of "dev" that "hub" lacks are renamed
Login ==
  /\ Docker /\ ~accountKnown /\ accountKnown' = TRUE /\ work["loop"] = AtRest
  /\ LET moved == {n \in SkillNames : skill[<<"dev", n>>] # NoSkill /\ skill[<<"hub", n>>] = NoSkill}
     IN skill' = [k \in SkillKeys |->
          IF k[2] \notin moved THEN skill[k]
          ELSE IF k[1] = "hub" THEN skill[<<"dev", k[2]>>] ELSE NoSkill]
  /\ UNCHANGED <<lockedBy, work, owner, registered, index, held, undone, changes>>

SkillsNext ==
  \/ \E n \in SkillNames : \/ \E t \in SkillRequests : RequestChange(t, n)
                           \/ \E s \in SkillSessions : ToolChange(s, n)
  \/ \E t \in Threads : Look(t) \/ Lock(t) \/ Read(t) \/ Write(t)
  \/ RefreshOwn \/ \E t \in SkillRequests : RefreshAll(t)
  \/ \E s \in SkillSessions : Build(s) \/ Registered(s) \/ CompactBegins(s) \/ CompactEnds(s)
  \/ Login

SkillsSpec == SkillsInit /\ [][SkillsNext]_skillVars

---------------------------------------------------------------------------
\* what one operation, or the move, may make of a skill of the account
Updated(old, new, moved) ==
  \/ new \in {old, NoSkill}
  \/ old = NoSkill /\ (new.uses = 0 \/ new = moved)
  \/ new = [old EXCEPT !.on = new.on]
  \/ new = [old EXCEPT !.uses = new.uses]
  \/ new = [old EXCEPT !.body = new.body]

\* "it does not stop two concurrent updates from both reading the old state and
\* the second write discarding the first": with the lock, a step that changes a
\* skill of the account changes one part of it, and a skill that was deleted
\* comes back only as a new one, or with the move.
UpdatesAreNotLost ==
  [][\A n \in SkillNames :
       Updated(skill[<<"hub", n>>], skill'[<<"hub", n>>], skill[<<"dev", n>>])]_skillVars

\* Once every request is answered, no session that was running lists a skill of
\* its account that is disabled or deleted, except a session whose refresh fell
\* within a compaction that has put the older prompt back; the next refresh of
\* that session, whatever it is for, ends the exception.
DisabledIsHidden ==
  (\A t \in SkillRequests : work[t] = AtRest) =>
    \A s \in RunningSessions \ undone :
      owner[s] = "hub" => index[s] \subseteq Enabled("hub")

(* Not kept by the code (README, section 3).                               *)

\* The same without the exception: a refresh lasts.
DisabledStaysHidden ==
  (\A t \in SkillRequests : work[t] = AtRest) =>
    \A s \in RunningSessions : owner[s] = "hub" => index[s] \subseteq Enabled("hub")

\* The same of the sessions that were being created meanwhile.
NewSessionsHideIt ==
  (\A t \in SkillRequests : work[t] = AtRest) =>
    \A s \in registered \ undone :
      owner[s] = "hub" => index[s] \subseteq Enabled("hub")

\* Every session knows the skills that another session of its user saved.
SavedIsListed ==
  (\A t \in Threads : work[t] = AtRest) =>
    \A s \in RunningSessions : owner[s] = "hub" => Enabled("hub") \subseteq index[s]

\* Once the account is known, nothing is written where nobody looks again.
NothingStaysBehind ==
  accountKnown /\ (\A t \in Threads : work[t] = AtRest) =>
    \A n \in SkillNames : skill[<<"dev", n>>] = NoSkill
=============================================================================
