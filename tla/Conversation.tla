---------------------------- MODULE Conversation ----------------------------
(***************************************************************************)
(* The conversations of one command line session: turns, their reflections   *)
(* in the background, saved logs, /undo, /new and /resume.                    *)
(*                                                                         *)
(* What a turn leaves, its messages, events, failed attempts and plan, is the  *)
(* number of the turn; turn 0 was taken by an earlier run of the program.  A    *)
(* log is a file of session_logs/; its upload is in TrajectoryUpload.  The save  *)
(* at shutdown is one more of the heartbeat's.                                *)
(***************************************************************************)
EXTENDS Naturals, Sequences, FiniteSets

CONSTANTS
  SaveInterval, \* config.auto_save_interval, 0 without it
  Reflects,     \* config.skill_reflection
  MaxTurnsTaken, MaxChats, MaxLogs  \* bounds

ASSUME ConversationAssumption ==
  /\ {SaveInterval, MaxTurnsTaken, MaxLogs} \subseteq Nat
  /\ MaxChats \in Nat \ {0} /\ Reflects \in BOOLEAN

VARIABLES
  id,          \* session_id; a fresh one is the number of the chat
  messages,    \* turns in context_manager.items
  logged,      \* turns in logged_events
  tried,      \* turns in the attempt log
  plan,        \* the turn that wrote current_plan, if any
  asking,      \* pending_approval
  turnCount, lastSave,  \* turn_count, last_auto_save_turn
  path,        \* _local_save_path: the number of a log, or 0
  logs,        \* session_logs/
  reflecting,  \* turns whose reflection is under way
  turnsTaken,  \* turns so far, in all chats
  chats,       \* number of the chat, which /new and /resume begin
  chatOf       \* (history) the chat in which each turn was taken
chatVars == <<id, messages, logged, tried, plan, asking, turnCount, lastSave, path,
              logs, reflecting, turnsTaken, chats, chatOf>>

Turns == 0 .. MaxTurnsTaken
LogOf(i, m, msgs, evts) == [id |-> i, mine |-> m, messages |-> msgs, logged |-> evts]

ChatTypeOK ==
  /\ id \in 0 .. MaxChats /\ chats \in 1 .. MaxChats /\ turnsTaken \in Turns
  /\ {messages, logged, tried, plan, reflecting} \subseteq SUBSET Turns
  /\ asking \in BOOLEAN /\ {turnCount, lastSave} \subseteq 0 .. MaxTurnsTaken + 1
  /\ path \in 0 .. Len(logs)
  /\ \A f \in DOMAIN logs : /\ logs[f].id \in 0 .. MaxChats /\ logs[f].mine \in BOOLEAN
                            /\ {logs[f].messages, logs[f].logged} \subseteq SUBSET Turns

ChatInit ==
  /\ id = 1 /\ chats = 1 /\ messages = {} /\ logged = {} /\ tried = {} /\ plan = {}
  /\ asking = FALSE /\ turnCount = 0 /\ lastSave = 0 /\ path = 0
  /\ \E mine \in BOOLEAN : logs = <<LogOf(0, mine, {0}, {0})>>
  /\ reflecting = {} /\ turnsTaken = 0 /\ chatOf = [t \in Turns |-> 0]

\* save_trajectory_local writes the file of this chat, or begins one
SavedPath == IF path = 0 THEN Len(logs) + 1 ELSE path
WithSave(msgs, evts) ==
  LET log == LogOf(id, TRUE, msgs, evts) IN
  IF path = 0 THEN Append(logs, log) ELSE [logs EXCEPT ![path] = log]
Room == path # 0 \/ Len(logs) < MaxLogs

\* the turn ends: it is reflected upon, counted, and perhaps saved
TurnDone(t) ==
  /\ asking' = FALSE
  /\ reflecting' = IF Reflects THEN reflecting \cup {t} ELSE reflecting
  /\ turnCount' = turnCount + 1
  /\ IF SaveInterval > 0 /\ turnCount + 1 - lastSave >= SaveInterval
     THEN logs' = WithSave(messages', logged') /\ path' = SavedPath /\ lastSave' = turnCount'
     ELSE UNCHANGED <<logs, path, lastSave>>

\* a turn may fail in part, write a plan, or stop for an approval
TakeTurn ==
  LET t == turnsTaken + 1 IN
  /\ turnsTaken < MaxTurnsTaken /\ Room /\ turnsTaken' = t
  /\ chatOf' = [chatOf EXCEPT ![t] = chats]
  /\ messages' = messages \cup {t} /\ logged' = logged \cup {t}
  /\ tried' \in {tried, tried \cup {t}} /\ plan' \in {plan, {t}}
  /\ \/ TurnDone(t)
     \/ asking' = TRUE /\ UNCHANGED <<reflecting, turnCount, logs, path, lastSave>>
  /\ UNCHANGED <<id, chats>>

Heartbeat ==
  /\ logged # {} /\ Room
  /\ logs' = WithSave(messages, logged) /\ path' = SavedPath
  /\ UNCHANGED <<id, messages, logged, tried, plan, asking, turnCount, lastSave,
                 reflecting, turnsTaken, chats, chatOf>>

\* the model call of a reflection is an event of the session; it may also fail
Reflected(t) ==
  /\ t \in reflecting /\ reflecting' = reflecting \ {t}
  /\ logged' \in {logged, logged \cup {t}}
  /\ UNCHANGED <<id, messages, tried, plan, asking, turnCount, lastSave, path, logs,
                 turnsTaken, chats, chatOf>>

\* /undo
UndoTurn ==
  /\ messages # {}
  /\ messages' = {m \in messages : \E k \in messages : k > m}
  /\ UNCHANGED <<id, logged, tried, plan, asking, turnCount, lastSave, path, logs,
                 reflecting, turnsTaken, chats, chatOf>>

ChatBegins == chats < MaxChats /\ chats' = chats + 1 /\ UNCHANGED <<reflecting, turnsTaken, chatOf>>

\* /new and /clear: what there is is saved, then the state of the chat is reset
NewChat ==
  /\ ChatBegins /\ Room /\ id' = chats'
  /\ logs' = IF messages # {} THEN WithSave(messages, logged) ELSE logs
  /\ path' = 0 /\ messages' = {} /\ logged' = {} /\ tried' = {} /\ plan' = {}
  /\ asking' = FALSE /\ turnCount' = 0 /\ lastSave' = 0

\* /resume picks one of the listed logs; one without messages cannot be restored
Restorable == {f \in DOMAIN logs : logs[f].messages # {}}

\* mutant: the resumed chat goes on in the file that it came from
Resume_KeepsSource(f) ==
  /\ ChatBegins
  /\ messages' = logs[f].messages /\ logged' = {}
  /\ id' = IF logs[f].mine THEN logs[f].id ELSE id
  /\ turnCount' = Cardinality(logs[f].messages) /\ lastSave' = turnCount'
  /\ path' = f /\ asking' = FALSE /\ UNCHANGED <<logs, tried, plan>>

\* /resume: the messages of a log replace those of the chat; the id is the log's
\* if the user is, and the log is left as it is
Resume(f) ==
  /\ ChatBegins
  /\ messages' = logs[f].messages /\ logged' = {}
  /\ id' = IF logs[f].mine THEN logs[f].id ELSE id
  /\ turnCount' = Cardinality(logs[f].messages) /\ lastSave' = turnCount'
  /\ path' = 0 /\ asking' = FALSE /\ UNCHANGED <<logs, tried, plan>>

ChatNext ==
  \/ TakeTurn \/ Heartbeat \/ UndoTurn \/ NewChat
  \/ \E t \in Turns : Reflected(t)
  \/ \E f \in Restorable : Resume(f)

ChatSpec == ChatInit /\ [][ChatNext]_chatVars

---------------------------------------------------------------------------
\* "reusing the source path would let the next heartbeat save destroy the
\* original event history on disk": no event that was saved is ever lost from
\* its log.
EventsSurvive ==
  [][\A f \in DOMAIN logs : logs[f].logged \subseteq logs'[f].logged]_chatVars

(* Not kept by the code (README, section 3).                               *)

\* "so later saves do not merge with the prior chat": the events of a log were
\* all caused in one chat.
LogsAreOneChat ==
  \A f \in DOMAIN logs : \A s, t \in logs[f].logged : chatOf[s] = chatOf[t]

\* The ledger and the plan, which the model is shown, are about this chat.
LedgerIsOfTheChat == tried \cup plan \subseteq messages \cup logged

\* Nothing that was said is dropped before it is saved.
NothingUnsavedIsDropped ==
  [][chats' # chats =>
       \A t \in messages : \E f \in DOMAIN logs' : t \in logs'[f].messages]_chatVars
=============================================================================
