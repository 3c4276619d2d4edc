------------------------ MODULE SessionParts_proofs -------------------------
(***************************************************************************)
(* Theorems about the parts that SessionPartsMC runs side by side: the calls   *)
(* of the model, the artifacts on the Hub, the local tools, the conversation *)
(* of a chat, its snapshots in the store, and the skills.  The budget, the  *)
(* guards and the edit tool are in TurnGuards_proofs; at the end the types  *)
(* of all are put together.                                                *)
(***************************************************************************)
EXTENDS SessionPartsMC, TurnGuards_proofs, FiniteSetTheorems, WellFoundedInduction, TLAPS

---------------------------------------------------------------------------
(***************************************************************************)
(* Calls of the model                                                      *)
(* Whatever fails, is repaired or retried, and however sessions, switches of *)
(* the model and interrupts interleave: the client is shown text of an earlier *)
(* attempt only if one of the two repairs cut that attempt short, and one    *)
(* repair of the effort is enough.  Each step of a call changes its record and *)
(* its phase together, so the invariant is one condition on the pair, Sound, and *)
(* each action leaves a sound pair behind.                                 *)
(***************************************************************************)

Phases == {"idle", "ready", "sent", "stream", "probing", "backoff"}
CallRecords ==
  [streams : BOOLEAN, model : LlmModels, effort : Levels \cup {"off"},
   n : 1 .. LlmAttempts, healed : 0 .. LlmAttempts, resigned : 0 .. LlmAttempts,
   stale : BOOLEAN,
   healing : LlmModels, shown : SUBSET (1 .. LlmAttempts),
   end : {"none", "reply", "stopped", "empty", "error"}]

\* what was shown of a call that will be sent or sent again is of repaired attempts;
\* its stream shows the current attempt, too; once repaired, its effort is one that
\* the model accepts
Sound(p, c) ==
  /\ p \in Phases /\ c \in CallRecords
  /\ c.shown \subseteq {c.n, c.healed, c.resigned}
  /\ p \in {"ready", "sent", "backoff"} => c.shown \subseteq {c.healed, c.resigned}
  /\ (p = "probing" => c.healed = 0) /\ (c.stale => c.resigned = 0)
  /\ p \in {"ready", "sent", "stream", "backoff"} /\ c.healed # 0 => ~Rejected(c)

Settings ==
  /\ model \in [LlmSessions -> LlmModels] /\ pref \in [LlmSessions -> Levels \cup {"off"}]
  /\ cache \in [LlmSessions -> [LlmModels -> Levels \cup {"off", "unset"}]]
  /\ stop \in [LlmSessions -> BOOLEAN] /\ calls \in [LlmSessions -> 0 .. MaxLlmCalls]

AllSound ==
  /\ phase \in [LlmSessions -> Phases] /\ call \in [LlmSessions -> CallRecords]
  /\ \A s \in LlmSessions : Sound(phase[s], call[s])

LlmInv == Settings /\ AllSound

---------------------------------------------------------------------------
(* Efforts                                                                 *)

\* What probe_effort finds is a level that the model accepts, or none.
LEMMA ProbedAccepted ==
  ASSUME NEW p, NEW m \in LlmModels
  PROVE  /\ Probed(p, m) \in Levels \cup {"off"}
         /\ Probed(p, m) \in Accepts[m] \cup {"off"}
<1> DEFINE from == {i \in DOMAIN Cascade : p \in Levels /\ i >= CHOOSE j \in DOMAIN Cascade :
                                                           Cascade[j] = p}
           good == {i \in from : Cascade[i] \in Accepts[m]}
<1>1. CASE good = {}
  BY <1>1, Zenon DEF Probed
<1>2. CASE good # {}
  <2>1. good \subseteq Nat
    BY LlmAssumption
  <2> DEFINE below == {ij \in Nat \X Nat : ij[1] < ij[2]}
  <2>2. IsWellFoundedOn(below, Nat)
    BY NatLessThanWellFounded, Zenon DEF OpToRel
  <2>3. \E i \in good : \A j \in good : ~(<<j, i>> \in below)
    <3> HIDE DEF below, good
    <3> QED BY <1>2, <2>1, <2>2, WFMin, Zenon
  <2>4. \E i \in good : \A j \in good : i <= j
    <3> HIDE DEF good
    <3>1. ASSUME NEW i \in Nat, NEW j \in Nat, j < i PROVE <<j, i>> \in below
      BY <3>1
    <3> HIDE DEF below
    <3>2. ASSUME NEW i \in Nat, NEW j \in Nat, <<j, i>> \notin below PROVE i <= j
      BY <3>1, <3>2
    <3> QED BY <2>1, <2>3, <3>2
  <2> DEFINE least == CHOOSE i \in good : \A j \in good : i <= j
  <2>5. least \in good
    BY <2>4
  <2>6. Probed(p, m) = Cascade[least]
    BY <1>2, Zenon DEF Probed
  <2>7. Cascade[least] \in Accepts[m] /\ Cascade[least] \in Levels
    BY <2>5 DEF Levels, Range
  <2> QED BY <2>6, <2>7
<1> QED BY <1>1, <1>2

\* What the session would ask of a model is a level, or "off".
LEMMA EffectiveLevel ==
  ASSUME Settings, NEW s \in LlmSessions, NEW m \in LlmModels
  PROVE  Effective(s, cache[s], m) \in Levels \cup {"off"}
BY DEF Settings, Effective

\* A level that the model accepts is not rejected, and neither is none.
LEMMA AcceptedIsFine ==
  ASSUME NEW c, c.effort \in Accepts[c.model] \cup {"off"}
  PROVE  ~Rejected(c)
BY DEF Rejected, OnWire

---------------------------------------------------------------------------
(* The steps of a call                                                     *)

\* A step that leaves a sound pair behind keeps all of them sound.
LEMMA SetKeeps ==
  ASSUME AllSound, NEW s \in LlmSessions, NEW p, NEW c, Set(s, p, c), Sound(p, c)
  PROVE  AllSound'
<1>1. phase' \in [LlmSessions -> Phases] /\ call' \in [LlmSessions -> CallRecords]
  BY DEF AllSound, Set, Sound
<1>2. ASSUME NEW t \in LlmSessions PROVE Sound(phase'[t], call'[t])
  <2>1. CASE t = s
    BY <2>1, Zenon DEF AllSound, Set
  <2>2. CASE t # s
    BY <2>2, Zenon DEF AllSound, Set
  <2> QED BY <2>1, <2>2
<1>3. \A t \in LlmSessions : Sound(phase'[t], call'[t])
  BY <1>2
<1> QED BY <1>1, <1>3 DEF AllSound, Sound, Rejected, OnWire, Phases, CallRecords, Levels

\* A call may end at any time.
LEMMA EndKeeps ==
  ASSUME AllSound, NEW s \in LlmSessions,
         NEW how \in {"reply", "stopped", "empty", "error"}, End(s, how)
  PROVE  AllSound'
<1>1. Sound("idle", [call[s] EXCEPT !.end = how])
  BY DEF AllSound, Sound, Phases, CallRecords
<1> QED BY <1>1, SetKeeps DEF End

\* The next attempt of a call of which only repaired attempts were shown.
LEMMA AgainKeeps ==
  ASSUME AllSound, NEW s \in LlmSessions, NEW c \in CallRecords,
         c.shown \subseteq {c.healed, c.resigned}, c.stale => c.resigned = 0,
         c.healed # 0 => ~Rejected(c), Again(s, c)
  PROVE  AllSound'
<1>1. CASE c.n < LlmAttempts
  <2> DEFINE d == [c EXCEPT !.n = @ + 1]
  <2>1. d \in CallRecords /\ d.shown = c.shown /\ d.healed = c.healed
        /\ d.resigned = c.resigned /\ d.stale = c.stale /\ d.model = c.model /\ d.effort = c.effort
    BY <1>1, LlmAssumption DEF CallRecords
  <2>2. Rejected(d) = Rejected(c)
    BY <2>1 DEF Rejected
  <2>3. Sound("ready", d)
    BY <2>1, <2>2, LlmAssumption DEF Sound, Phases
  <2>4. Set(s, "ready", d)
    BY <1>1 DEF Again
  <2> QED BY <2>3, <2>4, SetKeeps
<1>2. CASE ~(c.n < LlmAttempts)
  <2> DEFINE d == [c EXCEPT !.end = IF c.streams THEN "empty" ELSE "error"]
  <2>1. Sound("idle", d)
    <3>1. /\ d \in CallRecords /\ d.shown = c.shown /\ d.healed = c.healed
          /\ d.resigned = c.resigned /\ d.stale = c.stale
      BY DEF CallRecords
    <3> QED BY <3>1 DEF Sound, Phases
  <2>2. Set(s, "idle", d)
    BY <1>2 DEF Again
  <2> QED BY <2>1, <2>2, SetKeeps
<1> QED BY <1>1, <1>2

\* A retry, of a call that has shown nothing of this attempt.
LEMMA RetryKeeps ==
  ASSUME AllSound, NEW s \in LlmSessions, phase[s] \in {"sent", "stream"}, Retry(s)
  PROVE  AllSound'
<1>1. CASE call[s].n < LlmAttempts /\ call[s].n \notin call[s].shown
  <2>1. Sound("backoff", call[s])
    BY <1>1 DEF AllSound, Sound, Phases
  <2> QED BY <1>1, <2>1, SetKeeps DEF Retry
<1>2. CASE ~(call[s].n < LlmAttempts /\ call[s].n \notin call[s].shown)
  BY <1>2, EndKeeps DEF Retry
<1> QED BY <1>1, <1>2

---------------------------------------------------------------------------
(* The invariant                                                           *)

LEMMA LlmStarts == LlmInit => LlmInv
<1> SUFFICES ASSUME LlmInit PROVE LlmInv
  OBVIOUS
<1>1. Cascade[1] \in Levels
  BY LlmAssumption DEF Levels, Range
<1>2. Settings
  BY <1>1, LlmAssumption DEF LlmInit, Settings
<1>3. PICK streams \in [LlmSessions -> BOOLEAN] :
        call = [s \in LlmSessions |-> NewCall(streams[s], model[s], "off", FALSE)]
  BY DEF LlmInit
<1>4. ASSUME NEW s \in LlmSessions
      PROVE  /\ phase[s] = "idle" /\ call[s] \in CallRecords /\ call[s].shown = {}
             /\ call[s].resigned = 0
  BY <1>3, LlmAssumption DEF LlmInit, NewCall, CallRecords
<1>5. ASSUME NEW s \in LlmSessions PROVE Sound(phase[s], call[s])
  BY <1>4, LlmAssumption DEF Sound, Phases
<1>6. phase \in [LlmSessions -> Phases] /\ call \in [LlmSessions -> CallRecords]
  BY <1>3, <1>4 DEF LlmInit, Phases
<1> QED BY <1>2, <1>5, <1>6 DEF LlmInv, AllSound

LEMMA LlmStep == LlmInv /\ [LlmNext]_llmVars => LlmInv'
<1> SUFFICES ASSUME LlmInv, [LlmNext]_llmVars PROVE LlmInv'
  OBVIOUS
<1> USE DEF LlmInv
<1>1. CASE UNCHANGED llmVars
  BY <1>1 DEF llmVars, Settings, AllSound, Sound, Rejected, OnWire, Phases, CallRecords, Levels
<1>2. ASSUME NEW s \in LlmSessions, NEW stale \in BOOLEAN, StartCall(s, stale)
      PROVE  LlmInv'
  <2> DEFINE c == NewCall(call[s].streams, model[s], Effective(s, cache[s], model[s]), stale)
  <2>1. model[s] \in LlmModels /\ call[s].streams \in BOOLEAN
    BY DEF Settings, AllSound, CallRecords
  <2>2. Effective(s, cache[s], model[s]) \in Levels \cup {"off"}
    BY <2>1, EffectiveLevel
  <2>3. c \in CallRecords /\ c.shown = {} /\ c.healed = 0 /\ c.resigned = 0
    BY <2>1, <2>2, LlmAssumption DEF NewCall, CallRecords
  <2>4. Sound("ready", c)
    BY <2>3, LlmAssumption DEF Sound, Phases
  <2>5. AllSound'
    BY <1>2, <2>4, SetKeeps, Zenon DEF StartCall
  <2>6. Settings'
    BY <1>2, LlmAssumption DEF StartCall, Settings, Levels
  <2> QED BY <2>5, <2>6
<1>3. ASSUME NEW s \in LlmSessions, Send(s) PROVE LlmInv'
  <2>1. Sound("sent", call[s])
    BY <1>3 DEF Send, AllSound, Sound, Phases
  <2> QED BY <1>3, <2>1, SetKeeps DEF Send, Settings, Levels
<1>4. ASSUME NEW s \in LlmSessions, Opens(s) PROVE LlmInv'
  <2>1. Sound("stream", call[s])
    BY <1>4 DEF Opens, AllSound, Sound, Phases
  <2>2. AllSound'
    BY <1>4, <2>1, SetKeeps, EndKeeps DEF Opens
  <2> QED BY <1>4, <2>2 DEF Opens, Settings, Levels
<1>5. ASSUME NEW s \in LlmSessions, EffortInvalid(s) PROVE LlmInv'
  <2> DEFINE c == [call[s] EXCEPT !.healing = model[s]]
  <2>0. call[s].healed = 0
    BY <1>5 DEF EffortInvalid, Failing, AllSound, Sound
  <2>1. Sound("probing", c)
    <3>1. /\ model[s] \in LlmModels /\ call[s] \in CallRecords
          /\ call[s].shown \subseteq {call[s].n, call[s].healed, call[s].resigned}
          /\ (call[s].stale => call[s].resigned = 0)
      BY <1>5 DEF EffortInvalid, AllSound, Settings, Sound
    <3>2. /\ c \in CallRecords /\ c.shown = call[s].shown /\ c.n = call[s].n
          /\ c.healed = call[s].healed /\ c.resigned = call[s].resigned
          /\ c.stale = call[s].stale
      BY <3>1 DEF CallRecords
    <3> QED BY <2>0, <3>1, <3>2, LlmAssumption DEF Sound, Phases
  <2>2. AllSound'
    BY <1>5, <2>0, <2>1, SetKeeps DEF EffortInvalid
  <2> QED BY <1>5, <2>2 DEF EffortInvalid, Settings, Levels
<1>6. ASSUME NEW s \in LlmSessions, ThinkingUnsupported(s) PROVE LlmInv'
  <2> DEFINE c == [call[s] EXCEPT !.healed = call[s].n, !.model = model[s], !.effort = "off"]
  <2>0. call[s].healed = 0
    BY <1>6 DEF ThinkingUnsupported, Failing, AllSound, Sound
  <2>1. /\ c \in CallRecords /\ c.shown \subseteq {c.healed, c.resigned} /\ ~Rejected(c)
        /\ (c.stale => c.resigned = 0)
    <3>1. /\ model[s] \in LlmModels /\ call[s] \in CallRecords
          /\ call[s].shown \subseteq {call[s].n, 0, call[s].resigned}
          /\ call[s].n \in 0 .. LlmAttempts /\ (call[s].stale => call[s].resigned = 0)
      BY <1>6, <2>0 DEF ThinkingUnsupported, AllSound, Settings, Sound, CallRecords
    <3>2. /\ c \in CallRecords /\ c.shown = call[s].shown /\ c.effort = "off"
          /\ c.healed = call[s].n /\ c.resigned = call[s].resigned
          /\ c.stale = call[s].stale
      BY <3>1, Zenon DEF CallRecords
    <3>3. 0 \notin call[s].shown
      BY <3>1 DEF CallRecords
    <3> QED BY <3>1, <3>2, <3>3, AcceptedIsFine
  <2>2. AllSound'
    BY <1>6, <2>0, <2>1, AgainKeeps DEF ThinkingUnsupported
  <2>3. Settings'
    <3>1. CASE UNCHANGED cache
      BY <1>6, <3>1 DEF ThinkingUnsupported, Settings, Levels
    <3>2. CASE cache' = [cache EXCEPT ![s] = [cache[s] EXCEPT ![model[s]] = "off"]]
      BY <1>6, <3>2 DEF ThinkingUnsupported, Settings, Levels
    <3> QED BY <1>6, <3>1, <3>2 DEF ThinkingUnsupported
  <2> QED BY <2>2, <2>3
<1>7. ASSUME NEW s \in LlmSessions, ProbeEnds(s) PROVE LlmInv'
  <2>1. CASE End(s, "error") /\ UNCHANGED cache
    <3>1. AllSound'
      BY <2>1, EndKeeps
    <3> QED BY <1>7, <2>1, <3>1 DEF ProbeEnds, Settings, Levels
  <2>2. ASSUME NEW level \in {Probed(pref[s], call[s].healing), "off"}, Heal(s, level)
        PROVE  LlmInv'
    <3> DEFINE m == call[s].healing
               after == [cache[s] EXCEPT ![m] = level]
               c == [call[s] EXCEPT !.healed = call[s].n, !.model = m,
                                    !.effort = Effective(s, after, m)]
    <3>1. /\ m \in LlmModels /\ 0 \notin call[s].shown
          /\ call[s].shown \subseteq {call[s].n, 0, call[s].resigned}
          /\ call[s] \in CallRecords /\ call[s].n \in 0 .. LlmAttempts
          /\ (call[s].stale => call[s].resigned = 0)
      BY <1>7 DEF ProbeEnds, AllSound, Sound, CallRecords
    <3>2. level \in Levels \cup {"off"} /\ level \in Accepts[m] \cup {"off"}
      BY <2>2, <3>1, ProbedAccepted
    <3>3. after[m] = level /\ level # "unset"
      BY <3>1, <3>2, LlmAssumption DEF Settings, Levels
    <3>4. Effective(s, after, m) = level
      BY <3>3 DEF Effective
    <3>5. /\ c \in CallRecords /\ c.shown \subseteq {c.healed, c.resigned}
          /\ c.effort = level /\ c.model = m /\ (c.stale => c.resigned = 0)
      <4>1. /\ c \in CallRecords /\ c.shown = call[s].shown /\ c.healed = call[s].n
            /\ c.resigned = call[s].resigned /\ c.stale = call[s].stale
            /\ c.effort = level /\ c.model = m
        BY <3>1, <3>2, <3>4, Zenon DEF CallRecords
      <4> QED BY <3>1, <4>1
    <3>6. ~Rejected(c)
      BY <3>2, <3>5, AcceptedIsFine
    <3>7. AllSound'
      BY <2>2, <3>5, <3>6, AgainKeeps DEF Heal
    <3>8. Settings'
      <4>1. after \in [LlmModels -> Levels \cup {"off", "unset"}]
        BY <3>2 DEF Settings
      <4> QED BY <1>7, <2>2, <4>1 DEF ProbeEnds, Heal, Settings, Levels
    <3> QED BY <3>7, <3>8
  <2> QED BY <1>7, <2>1, <2>2 DEF ProbeEnds
<1>8. ASSUME NEW s \in LlmSessions, SignatureInvalid(s) PROVE LlmInv'
  <2> DEFINE c == [call[s] EXCEPT !.resigned = call[s].n, !.stale = FALSE]
  <2>0. /\ call[s] \in CallRecords /\ 0 \notin call[s].shown
        /\ call[s].shown \subseteq {call[s].n, call[s].healed, 0}
        /\ call[s].n \in 0 .. LlmAttempts /\ (call[s].healed # 0 => ~Rejected(call[s]))
    BY <1>8 DEF SignatureInvalid, AllSound, Sound, CallRecords
  <2>1. /\ c \in CallRecords /\ c.shown = call[s].shown /\ c.model = call[s].model
        /\ c.effort = call[s].effort /\ c.healed = call[s].healed /\ c.resigned = call[s].n
        /\ c.stale = FALSE
    BY <2>0, ZenonT(40) DEF CallRecords
  <2>2. ~Rejected(c)
    BY <1>8, <2>1 DEF SignatureInvalid, Rejected
  <2>3. c.shown \subseteq {c.healed, c.resigned}
    BY <2>0, <2>1
  <2>4. AllSound'
    BY <1>8, <2>1, <2>2, <2>3, AgainKeeps DEF SignatureInvalid
  <2> QED BY <1>8, <2>4 DEF SignatureInvalid, Settings, Levels
<1>9. ASSUME NEW s \in LlmSessions, RequestFails(s) \/ StreamFails(s) PROVE LlmInv'
  <2>1. AllSound'
    BY <1>9, RetryKeeps, EndKeeps DEF RequestFails, StreamFails
  <2> QED BY <1>9, <2>1 DEF RequestFails, StreamFails, Settings, Levels
<1>10. ASSUME NEW s \in LlmSessions, Chunk(s) PROVE LlmInv'
  <2> DEFINE c == [call[s] EXCEPT !.shown = @ \cup {call[s].n}]
  <2>1. /\ c \in CallRecords /\ c.shown = call[s].shown \cup {call[s].n}
        /\ c.n = call[s].n /\ c.resigned = call[s].resigned /\ c.stale = call[s].stale
        /\ c.model = call[s].model /\ c.effort = call[s].effort /\ c.healed = call[s].healed
    BY <1>10 DEF Chunk, AllSound, Sound, CallRecords
  <2>2. Rejected(c) = Rejected(call[s])
    BY <2>1 DEF Rejected
  <2>3. Sound("stream", c)
    BY <1>10, <2>1, <2>2 DEF Chunk, AllSound, Sound, Phases, CallRecords
  <2>4. AllSound'
    BY <1>10, <2>3, SetKeeps, EndKeeps DEF Chunk
  <2> QED BY <1>10, <2>4 DEF Chunk, Settings, Levels
<1>11. ASSUME NEW s \in LlmSessions, StreamEnds(s) \/ BackoffStopped(s) PROVE LlmInv'
  <2>1. AllSound'
    BY <1>11, EndKeeps DEF StreamEnds, BackoffStopped
  <2> QED BY <1>11, <2>1 DEF StreamEnds, BackoffStopped, Settings, Levels
<1>12. ASSUME NEW s \in LlmSessions, BackoffOver(s) PROVE LlmInv'
  <2>1. call[s] \in CallRecords /\ call[s].shown \subseteq {call[s].healed, call[s].resigned}
        /\ (call[s].stale => call[s].resigned = 0)
        /\ (call[s].healed # 0 => ~Rejected(call[s]))
    BY <1>12 DEF BackoffOver, AllSound, Sound
  <2>2. AllSound'
    BY <1>12, <2>1, AgainKeeps DEF BackoffOver
  <2> QED BY <1>12, <2>2 DEF BackoffOver, Settings, Levels
<1>13. ASSUME NEW s \in LlmSessions,
              \/ Stop(s)
              \/ \E m \in LlmModels : SwitchModel(s, m) \/ ProbeAndSwitch(s, m)
              \/ \E e \in Levels \cup {"off"} : SetEffort(s, e)
       PROVE  LlmInv'
  <2>1. UNCHANGED <<phase, call>>
    BY <1>13 DEF Stop, SwitchModel, ProbeAndSwitch, SetEffort
  <2>2. AllSound'
    BY <2>1 DEF AllSound, Sound, Rejected, OnWire, Phases, CallRecords, Levels
  <2>3. Settings'
    <3>1. CASE Stop(s)
      BY <3>1 DEF Stop, Settings, Levels
    <3>2. ASSUME NEW m \in LlmModels, SwitchModel(s, m) PROVE Settings'
      BY <3>2 DEF SwitchModel, Settings, Levels
    <3>3. ASSUME NEW m \in LlmModels, ProbeAndSwitch(s, m) PROVE Settings'
      <4>1. PICK level \in {"unset", Probed(pref[s], m)} : cache' = [cache EXCEPT ![s][m] = level]
        BY <3>3 DEF ProbeAndSwitch
      <4>2. level \in Levels \cup {"off", "unset"}
        BY <4>1, ProbedAccepted
      <4> QED BY <3>3, <4>1, <4>2 DEF ProbeAndSwitch, Settings, Levels
    <3>4. ASSUME NEW e \in Levels \cup {"off"}, SetEffort(s, e) PROVE Settings'
      BY <3>4 DEF SetEffort, Settings, Levels
    <3> QED BY <1>13, <3>1, <3>2, <3>3, <3>4
  <2> QED BY <2>2, <2>3
<1> QED BY <1>1, <1>2, <1>3, <1>4, <1>5, <1>6, <1>7, <1>8, <1>9, <1>10, <1>11, <1>12, <1>13
        DEF LlmNext

---------------------------------------------------------------------------
(* The theorems                                                            *)

\* The invariant of the calls, for any number of sessions, models and attempts.
THEOREM CallInvariant == LlmSpec => []LlmInv
BY LlmStarts, LlmStep, PTL DEF LlmSpec

\* Every variable of the calls keeps its type.
THEOREM LlmTypeCorrect == LlmSpec => []LlmTypeOK
<1>1. LlmInv => LlmTypeOK
  BY DEF LlmInv, Settings, AllSound, LlmTypeOK, Phases, CallRecords
<1> QED BY <1>1, CallInvariant, PTL

\* "A fresh attempt would replay text the user can already see": the client of
\* _call_llm_streaming is shown text of the attempt in progress and, besides, only
\* of the at most two attempts whose errors were repaired; a transient failure is
\* never followed by another attempt once text was shown of the one it cut short.
THEOREM ReplayedForRepairsOnly == LlmSpec => []ReplaysForRepairs
<1>1. LlmInv => ReplaysForRepairs
  BY DEF LlmInv, AllSound, Sound, ReplaysForRepairs
<1> QED BY <1>1, CallInvariant, PTL

\* After its one repair (_heal_effort_and_rebuild_params, or thinking switched
\* off) a call is not rejected for its effort again.
THEOREM OneRepairSuffices == LlmSpec => []HealSuffices
<1>1. LlmInv => HealSuffices
  BY DEF LlmInv, AllSound, Sound, HealSuffices
<1> QED BY <1>1, CallInvariant, PTL

---------------------------------------------------------------------------
(***************************************************************************)
(* Artifacts on the Hub                                                    *)
(* A repository that the session made has a marked card once nothing is under *)
(* way.  Between the steps of a registration there is one that is still to mark *)
(* the card (KnownIsFixed); a second thread of the same script would be kept out *)
(* by the guard of the hook that the first has put up, hence OneThread.    *)
(***************************************************************************)

\* A registration past its check: the repository is new to the session.
Working == {"read", "put", "collect"}

\* A registration that will still mark the card it finds.
Fixes(a) ==
  \/ registration[a].at = "check" /\ registration[a].force
  \/ registration[a].at = "read"
  \/ registration[a].at = "put" /\ ~registration[a].read.marked

\* The card of a repository that the session knows is marked, or missing, or there is
\* a registration to mark it.
KnownIsFixed ==
  known /\ ~excused => card.text = 0 \/ card.marked \/ \E a \in Actors : Fixes(a)

\* The tool notes a repository as known before it marks it as registered.
KnownFirst ==
  /\ "tool" \in marked => known
  /\ \A a \in ToolCalls : registration[a].at \in Working => known

\* The guard against a hook inside a hook is up only while a script registers.
HookingWorks == hooking => \E x \in ScriptThreads : registration[x].at \in Working

HubInv == HubTypeOK /\ KnownIsFixed /\ KnownFirst /\ HookingWorks

\* A script makes its repositories from one thread.
OneThread == \A x, y \in ScriptThreads : x = y

\* what the assignments of a registration's fields leave of it
LEMMA RegistrationMoves ==
  ASSUME NEW r \in Registrations, NEW stage \in {"rest", "check", "read", "put", "collect"}
  PROVE  [r EXCEPT !.at = stage] \in Registrations /\ [r EXCEPT !.at = stage].at = stage
BY DEF Registrations

LEMMA RegistrationReads ==
  ASSUME NEW r \in Registrations, NEW c \in Cards
  PROVE  /\ [r EXCEPT !.read = c] \in Registrations
         /\ [r EXCEPT !.read = c].read = c /\ [r EXCEPT !.read = c].at = r.at
BY DEF Registrations

LEMMA RegistrationCards ==
  ASSUME NEW r \in Registrations
  PROVE  /\ [r EXCEPT !.carded = TRUE] \in Registrations
         /\ [r EXCEPT !.carded = TRUE].at = r.at
BY DEF Registrations

LEMMA NewRegistration ==
  ASSUME NEW stage \in {"rest", "check"}, NEW made \in BOOLEAN, NEW force \in BOOLEAN
  PROVE  /\ Registration(stage, made, force) \in Registrations
         /\ Registration(stage, made, force).at = stage
         /\ Registration(stage, made, force).made = made
         /\ Registration(stage, made, force).force = force
         /\ NoRegistration \in Registrations /\ NoRegistration.at = "rest"
BY HubAssumption DEF Registration, NoRegistration, Registrations, NoCard, Cards

\* an operation on the repository; what it leaves of the card is marked, missing or
\* an upload that will be registered
LEMMA OperationKeeps ==
  ASSUME HubInv, NEW a \in Actors, NEW stage \in {"rest", "check"}, NEW made \in BOOLEAN,
         NEW force \in BOOLEAN, Operates(a, stage, made, force),
         exists' \in BOOLEAN, card' \in Cards, prs' \subseteq 1 .. MaxTexts,
         texts' \in 0 .. MaxTexts,
         card' = card \/ card' = NoCard \/ (stage = "check" /\ force)
  PROVE  HubInv'
<1> DEFINE r == Registration(stage, made, force)
<1>1. r \in Registrations /\ r.at = stage /\ r.made = made /\ r.force = force
  BY NewRegistration
<1> HIDE DEF r
<1>2. /\ registration \in [Actors -> Registrations] /\ registration[a].at = "rest"
      /\ registration' = [registration EXCEPT ![a] = r]
  BY DEF HubInv, HubTypeOK, Operates, r
<1>3. /\ registration'[a] = r
      /\ \A b \in Actors \ {a} : registration'[b] = registration[b]
  BY <1>2
<1>4. HubTypeOK'
  BY <1>1, <1>2, HubAssumption DEF HubInv, HubTypeOK, Operates
<1>5. KnownIsFixed'
  <2> SUFFICES ASSUME known', ~excused' PROVE card'.text = 0 \/ card'.marked \/ \E b \in Actors : Fixes(b)'
    BY DEF KnownIsFixed
  <2>1. known /\ ~excused
    BY DEF Operates
  <2>2. CASE stage = "check" /\ force
    BY <1>1, <1>3, <2>2 DEF Fixes
  <2>3. CASE card' = NoCard
    BY <2>3 DEF NoCard
  <2>4. CASE card' = card
    BY <1>2, <1>3, <2>1, <2>4 DEF HubInv, KnownIsFixed, Fixes
  <2> QED BY <2>2, <2>3, <2>4
<1>6. KnownFirst' /\ HookingWorks'
  BY <1>1, <1>2, <1>3 DEF HubInv, KnownFirst, HookingWorks, Operates, Working, Actors
<1> QED BY <1>4, <1>5, <1>6 DEF HubInv

LEMMA OperationsKeep ==
  ASSUME HubInv, NEW a \in Actors,
         \/ CreateRepo(a) \/ UploadCard(a) \/ UploadOther(a) \/ ProposeCard(a)
         \/ DeleteCard(a)
  PROVE  HubInv'
<1> USE DEF HubInv, HubTypeOK
<1>0. NoCard \in Cards
  BY HubAssumption DEF NoCard, Cards
<1>1. CASE CreateRepo(a)
  BY <1>1, OperationKeeps DEF CreateRepo
<1>2. CASE UploadCard(a)
  <2>1. PICK t \in 1 .. MaxTexts :
          /\ NewText(t) /\ Operates(a, "check", FALSE, TRUE) /\ UNCHANGED <<exists, prs>>
          /\ card' = [text |-> t, marked |-> FALSE]
    BY <1>2 DEF UploadCard
  <2>2. card' \in Cards /\ texts' \in 0 .. MaxTexts
    BY <2>1, HubAssumption DEF Cards, NewText
  <2> QED BY <2>1, <2>2, OperationKeeps
<1>3. CASE UploadOther(a)
  BY <1>3, OperationKeeps DEF UploadOther
<1>4. CASE ProposeCard(a)
  <2>1. PICK t \in 1 .. MaxTexts :
          /\ NewText(t) /\ Operates(a, "rest", FALSE, FALSE) /\ UNCHANGED <<exists, card>>
          /\ prs' = prs \cup {t}
    BY <1>4 DEF ProposeCard
  <2>2. texts' \in 0 .. MaxTexts
    BY <2>1, HubAssumption DEF NewText
  <2> QED BY <2>1, <2>2, OperationKeeps
<1>5. CASE DeleteCard(a)
  BY <1>0, <1>5, OperationKeeps DEF DeleteCard
<1> QED BY <1>1, <1>2, <1>3, <1>4, <1>5

LEMMA MergeKeeps ==
  ASSUME HubInv, NEW a \in Actors, MergeCard(a)
  PROVE  HubInv'
<1>1. PICK t \in prs :
        /\ card' = [text |-> t, marked |-> FALSE] /\ prs' = prs \ {t} /\ excused' = TRUE
        /\ UNCHANGED <<exists, collected, known, marked, hooking, registration, texts,
                       hubOps>>
  BY DEF MergeCard
<1>2. HubTypeOK'
  BY <1>1, HubAssumption DEF HubInv, HubTypeOK, Cards
<1>3. KnownIsFixed' /\ KnownFirst' /\ HookingWorks'
  BY <1>1 DEF HubInv, KnownIsFixed, KnownFirst, HookingWorks
<1> QED BY <1>2, <1>3 DEF HubInv

LEMMA CheckKeeps ==
  ASSUME HubInv, OneThread, NEW a \in Actors, Check(a)
  PROVE  HubInv'
<1> DEFINE goesOn == Registers(a) /\ (registration[a].force \/ Side(a) \notin marked)
           r == IF goesOn THEN [registration[a] EXCEPT !.at = "read"] ELSE NoRegistration
<1>1. /\ registration \in [Actors -> Registrations] /\ registration[a] \in Registrations
      /\ registration[a].at = "check" /\ registration' = [registration EXCEPT ![a] = r]
  BY DEF HubInv, HubTypeOK, Check, Checks
<1>2. r \in Registrations /\ r.at = IF goesOn THEN "read" ELSE "rest"
  BY <1>1, RegistrationMoves, NewRegistration DEF Registrations
<1> HIDE DEF r
<1>3. /\ registration'[a] = r
      /\ \A b \in Actors \ {a} : registration'[b] = registration[b]
  BY <1>1
<1>4. /\ known' = (known \/ (a \in ToolCalls /\ Registers(a)))
      /\ hooking' = (hooking \/ (a \in ScriptThreads /\ goesOn))
      /\ UNCHANGED <<exists, prs, texts, hubOps, card, collected, marked, excused>>
  BY DEF Check, Checks, RepoSame
<1>5. HubTypeOK'
  BY <1>1, <1>2, <1>4 DEF HubInv, HubTypeOK
<1>6. a \in ScriptThreads => ~hooking /\ Registers(a)
  <2>1. a \in ScriptThreads /\ hooking => registration[a].at \in Working
    BY DEF HubInv, HookingWorks, OneThread
  <2> QED BY <1>1, <2>1, HubAssumption DEF Registers, Working
<1>7. KnownIsFixed'
  <2> SUFFICES ASSUME known', ~excused'
               PROVE  card.text = 0 \/ card.marked \/ \E b \in Actors : Fixes(b)'
    BY <1>4 DEF KnownIsFixed
  <2>1. CASE goesOn
    BY <1>2, <1>3, <2>1 DEF Fixes
  <2>2. CASE ~goesOn
    <3>1. known
      BY <1>4, <2>2 DEF HubInv, KnownFirst, Side
    <3>2. Registers(a)
      BY <1>6, <3>1 DEF Registers, Actors
    <3>3. ~Fixes(a)
      BY <1>1, <2>2, <3>2 DEF Fixes
    <3> QED BY <1>3, <1>4, <3>1, <3>3 DEF HubInv, KnownIsFixed, Fixes
  <2> QED BY <2>1, <2>2
<1>8. KnownFirst'
  BY <1>1, <1>2, <1>3, <1>4 DEF HubInv, KnownFirst, Working, Actors
<1>9. HookingWorks'
  <2>1. CASE a \in ScriptThreads /\ goesOn
    BY <1>2, <1>3, <2>1 DEF HookingWorks, Working
  <2>2. CASE ~(a \in ScriptThreads /\ goesOn)
    BY <1>1, <1>3, <1>4, <2>2 DEF HubInv, HookingWorks, Working, Actors
  <2> QED BY <2>1, <2>2
<1> QED BY <1>5, <1>7, <1>8, <1>9 DEF HubInv

LEMMA ReadCardKeeps ==
  ASSUME HubInv, NEW a \in Actors, ReadCard(a)
  PROVE  HubInv'
<1>1. /\ registration \in [Actors -> Registrations] /\ registration[a] \in Registrations
      /\ registration[a].at = "read" /\ card \in Cards
  BY DEF HubInv, HubTypeOK, ReadCard
<1>2. PICK r \in Registrations :
        /\ registration' = [registration EXCEPT ![a] = r]
        /\ \/ r.at = "put" /\ r.read = card /\ excused' = excused
           \/ r.at = "collect" /\ excused' = TRUE
  <2>1. CASE /\ registration' = [registration EXCEPT ![a].at = "put", ![a].read = card]
             /\ UNCHANGED excused
    <3> DEFINE q == [registration[a] EXCEPT !.at = "put"]
               r == [q EXCEPT !.read = card]
    <3>1. r \in Registrations /\ r.at = "put" /\ r.read = card
      <4>1. q \in Registrations /\ q.at = "put"
        BY <1>1, RegistrationMoves
      <4> HIDE DEF q
      <4> QED BY <1>1, <4>1, RegistrationReads
    <3>2. registration' = [registration EXCEPT ![a] = r]
      BY <1>1, <2>1
    <3> QED BY <2>1, <3>1, <3>2
  <2>2. CASE registration' = [registration EXCEPT ![a].at = "collect"] /\ excused' = TRUE
    <3> DEFINE r == [registration[a] EXCEPT !.at = "collect"]
    <3>1. r \in Registrations /\ r.at = "collect"
      BY <1>1, RegistrationMoves
    <3> QED BY <2>2, <3>1
  <2> QED BY <2>1, <2>2 DEF ReadCard
<1>3. /\ registration'[a] = r
      /\ \A b \in Actors \ {a} : registration'[b] = registration[b]
  BY <1>1, <1>2
<1>4. UNCHANGED <<exists, prs, texts, hubOps, card, collected, known, marked, hooking>>
  BY DEF ReadCard, RepoSame
<1>5. HubTypeOK'
  BY <1>1, <1>2, <1>4 DEF HubInv, HubTypeOK
<1>6. KnownIsFixed'
  BY <1>2, <1>3, <1>4 DEF HubInv, KnownIsFixed, Fixes
<1>7. KnownFirst' /\ HookingWorks'
  BY <1>1, <1>2, <1>3, <1>4 DEF HubInv, KnownFirst, HookingWorks, Working, Actors
<1> QED BY <1>5, <1>6, <1>7 DEF HubInv

LEMMA PutCardKeeps ==
  ASSUME HubInv, NEW a \in Actors, PutCard(a)
  PROVE  HubInv'
<1> DEFINE read == registration[a].read
           written == IF Completed(read) = read THEN card ELSE Completed(read)
<1>1. /\ registration \in [Actors -> Registrations] /\ registration[a] \in Registrations
      /\ registration[a].at = "put" /\ card \in Cards /\ read \in Cards
  BY DEF HubInv, HubTypeOK, PutCard, Registrations
<1>2. Completed(read) \in Cards /\ Completed(read).marked
  BY <1>1 DEF Completed, Cards
<1>3. ~read.marked => Completed(read) # read
  BY <1>2
<1> HIDE DEF read
<1>4. PICK r \in Registrations :
        /\ registration' = [registration EXCEPT ![a] = r] /\ r.at = "collect"
        /\ \/ card' = written /\ excused' = excused
           \/ card' = card /\ excused' = TRUE
  <2>1. CASE /\ registration' = [registration EXCEPT ![a].at = "collect", ![a].carded = TRUE]
             /\ card' = written /\ UNCHANGED excused
    <3> DEFINE q == [registration[a] EXCEPT !.at = "collect"]
               r == [q EXCEPT !.carded = TRUE]
    <3>1. r \in Registrations /\ r.at = "collect"
      <4>1. q \in Registrations /\ q.at = "collect"
        BY <1>1, RegistrationMoves
      <4> HIDE DEF q
      <4> QED BY <4>1, RegistrationCards
    <3>2. registration' = [registration EXCEPT ![a] = r]
      BY <1>1, <2>1
    <3> HIDE DEF written, r
    <3> QED BY <2>1, <3>1, <3>2
  <2>2. CASE registration' = [registration EXCEPT ![a].at = "collect"] /\ excused' = TRUE
             /\ UNCHANGED card
    <3> DEFINE r == [registration[a] EXCEPT !.at = "collect"]
    <3>1. r \in Registrations /\ r.at = "collect"
      BY <1>1, RegistrationMoves
    <3> HIDE DEF written
    <3> QED BY <2>2, <3>1
  <2> QED BY <2>1, <2>2 DEF PutCard, read
<1>5. /\ registration'[a] = r
      /\ \A b \in Actors \ {a} : registration'[b] = registration[b]
  BY <1>1, <1>4
<1>6. UNCHANGED <<exists, prs, texts, hubOps, collected, known, marked, hooking>>
  BY DEF PutCard, RepoSame
<1>7. HubTypeOK'
  BY <1>1, <1>2, <1>4, <1>6 DEF HubInv, HubTypeOK
<1>8. KnownIsFixed'
  <2> SUFFICES ASSUME known, ~excused'
               PROVE  card'.text = 0 \/ card'.marked \/ \E b \in Actors : Fixes(b)'
    BY <1>6 DEF KnownIsFixed
  <2>1. card' = written /\ excused' = excused
    BY <1>4
  <2>2. CASE Completed(read) # read
    BY <1>2, <2>1, <2>2
  <2>3. CASE Completed(read) = read
    <3>1. card' = card /\ ~Fixes(a)
      BY <1>1, <1>3, <2>1, <2>3 DEF Fixes, read
    <3> QED BY <1>5, <2>1, <3>1 DEF HubInv, KnownIsFixed, Fixes
  <2> QED BY <2>2, <2>3
<1>9. KnownFirst' /\ HookingWorks'
  BY <1>1, <1>4, <1>5, <1>6 DEF HubInv, KnownFirst, HookingWorks, Working, Actors
<1> QED BY <1>7, <1>8, <1>9 DEF HubInv

LEMMA CollectKeeps ==
  ASSUME HubInv, OneThread, NEW a \in Actors, Collect(a)
  PROVE  HubInv'
<1>1. /\ registration \in [Actors -> Registrations] /\ registration[a].at = "collect"
      /\ registration' = [registration EXCEPT ![a] = NoRegistration]
      /\ NoRegistration \in Registrations /\ NoRegistration.at = "rest"
  BY NewRegistration DEF HubInv, HubTypeOK, Collect
<1>2. /\ registration'[a] = NoRegistration
      /\ \A b \in Actors \ {a} : registration'[b] = registration[b]
  BY <1>1
<1>3. /\ marked' \in {marked, marked \cup {Side(a)}} /\ hooking' = (hooking /\ a \in ToolCalls)
      /\ collected' = TRUE \/ collected' = collected
      /\ excused' = TRUE \/ excused' = excused
      /\ UNCHANGED <<exists, prs, texts, hubOps, card, known>>
  BY DEF Collect, RepoSame
<1>4. HubTypeOK'
  BY <1>1, <1>3 DEF HubInv, HubTypeOK, Side
<1>5. KnownIsFixed'
  <2>1. ~Fixes(a)
    BY <1>1 DEF Fixes
  <2> QED BY <1>2, <1>3, <2>1 DEF HubInv, KnownIsFixed, Fixes
<1>6. KnownFirst'
  BY <1>1, <1>2, <1>3 DEF HubInv, KnownFirst, Side, Working, Actors
<1>7. HookingWorks'
  BY <1>1, <1>2, <1>3, HubAssumption DEF HubInv, HookingWorks, Working, Actors
<1> QED BY <1>4, <1>5, <1>6, <1>7 DEF HubInv

LEMMA HubInitially == HubInit => HubInv
<1> SUFFICES ASSUME HubInit PROVE HubInv
  OBVIOUS
<1>1. HubTypeOK
  <2>1. NoRegistration \in Registrations
    BY NewRegistration
  <2>2. NoCard \in Cards /\ 0 \in 0 .. MaxTexts /\ 0 \in 0 .. MaxHubOps
    BY HubAssumption DEF NoCard, Cards
  <2> QED BY <2>1, <2>2 DEF HubInit, HubTypeOK
<1>2. KnownIsFixed /\ KnownFirst /\ HookingWorks
  BY NewRegistration DEF HubInit, KnownIsFixed, KnownFirst, HookingWorks, Working, Actors
<1> QED BY <1>1, <1>2 DEF HubInv

LEMMA HubStep == OneThread /\ HubInv /\ [HubNext]_hubVars => HubInv'
<1> SUFFICES ASSUME OneThread, HubInv, [HubNext]_hubVars PROVE HubInv'
  OBVIOUS
<1>1. CASE UNCHANGED hubVars
  BY <1>1 DEF HubInv, HubTypeOK, KnownIsFixed, KnownFirst, HookingWorks, Fixes, hubVars
<1>2. CASE HubNext
  BY <1>2, OperationsKeep, MergeKeeps, CheckKeeps, ReadCardKeeps, PutCardKeeps,
     CollectKeeps DEF HubNext
<1> QED BY <1>1, <1>2

\* A repository that the session made has a marked card whenever nothing is under
\* way, for any number of calls beside one thread of a script.
THEOREM MadeIsMarked ==
  ASSUME OneThread
  PROVE  HubSpec => []KnownIsMarked
<1>1. HubSpec => []HubInv
  BY OneThread, HubInitially, HubStep, PTL DEF HubSpec
<1>2. HubInv => KnownIsMarked
  BY DEF HubInv, KnownIsFixed, KnownIsMarked, Fixes
<1> QED BY <1>1, <1>2, PTL

\* Types need no such assumption: whatever an actor does, it replaces its own
\* registration by another one.
LEMMA HubTypesKeep == HubTypeOK /\ [HubNext]_hubVars => HubTypeOK'
<1> SUFFICES ASSUME HubTypeOK, [HubNext]_hubVars PROVE HubTypeOK'
  OBVIOUS
<1>1. CASE UNCHANGED hubVars
  BY <1>1 DEF HubTypeOK, hubVars
<1>2. CASE HubNext
  <2>1. PICK a \in Actors :
          \/ CreateRepo(a) \/ UploadCard(a) \/ UploadOther(a)
          \/ ProposeCard(a) \/ MergeCard(a) \/ DeleteCard(a)
          \/ Check(a) \/ ReadCard(a) \/ PutCard(a) \/ Collect(a)
    BY <1>2 DEF HubNext
  <2>2. /\ registration \in [Actors -> Registrations] /\ registration[a] \in Registrations
        /\ card \in Cards /\ registration[a].read \in Cards /\ NoCard \in Cards
        /\ NoRegistration \in Registrations
    <3>1. NoRegistration \in Registrations
      BY NewRegistration
    <3>2. NoCard \in Cards
      BY HubAssumption DEF NoCard, Cards
    <3>3. registration \in [Actors -> Registrations] /\ card \in Cards
      BY DEF HubTypeOK
    <3>4. registration[a] \in Registrations
      BY <3>3
    <3>5. registration[a].read \in Cards
      BY <3>4 DEF Registrations
    <3> QED BY <3>1, <3>2, <3>3, <3>4, <3>5
  <2>3. ASSUME NEW r \in Registrations, registration' = [registration EXCEPT ![a] = r]
        PROVE  registration' \in [Actors -> Registrations]
    BY <2>2, <2>3
  <2>4. ASSUME NEW stage \in {"rest", "check"}, NEW made \in BOOLEAN, NEW force \in BOOLEAN,
               Operates(a, stage, made, force),
               exists' \in BOOLEAN, card' \in Cards, prs' \subseteq 1 .. MaxTexts,
               texts' \in 0 .. MaxTexts
        PROVE  HubTypeOK'
    <3>1. Registration(stage, made, force) \in Registrations
      BY NewRegistration
    <3>2. registration' \in [Actors -> Registrations]
      BY <2>3, <2>4, <3>1 DEF Operates
    <3> QED BY <2>4, <3>2, HubAssumption DEF HubTypeOK, Operates
  <2>5. CASE CreateRepo(a) \/ UploadOther(a) \/ DeleteCard(a)
    BY <2>2, <2>4, <2>5 DEF CreateRepo, UploadOther, DeleteCard, HubTypeOK
  <2>6. CASE UploadCard(a) \/ ProposeCard(a)
    <3>1. PICK t \in 1 .. MaxTexts :
            \/ exists /\ NewText(t) /\ Operates(a, "check", FALSE, TRUE)
               /\ card' = [text |-> t, marked |-> FALSE] /\ UNCHANGED <<exists, prs>>
            \/ exists /\ NewText(t) /\ Operates(a, "rest", FALSE, FALSE)
               /\ prs' = prs \cup {t} /\ UNCHANGED <<exists, card>>
      BY <2>6 DEF UploadCard, ProposeCard
    <3>2. texts' \in 0 .. MaxTexts /\ [text |-> t, marked |-> FALSE] \in Cards
      <4>1. t \in 0 .. MaxTexts /\ texts' = t
        <5>1. MaxTexts \in Nat
          BY HubAssumption
        <5>2. texts' = t
          BY <3>1 DEF NewText
        <5> QED BY <5>1, <5>2
      <4>2. [text |-> t, marked |-> FALSE] \in Cards
        BY <4>1, HubAssumption DEF Cards
      <4> QED BY <4>1, <4>2
    <3> QED BY <2>2, <2>4, <3>1, <3>2 DEF HubTypeOK
  <2>7. CASE MergeCard(a)
    BY <2>7, HubAssumption DEF HubTypeOK, MergeCard, Cards
  <2>8. CASE Check(a)
    <3> DEFINE on == Registers(a) /\ (registration[a].force \/ Side(a) \notin marked)
               r == IF on THEN [registration[a] EXCEPT !.at = "read"] ELSE NoRegistration
    <3>1. r \in Registrations
      BY <2>2, RegistrationMoves
    <3>2. registration' = [registration EXCEPT ![a] = r]
      BY <2>2, <2>8 DEF Check, Checks
    <3> HIDE DEF r
    <3>3. registration' \in [Actors -> Registrations]
      BY <2>3, <3>1, <3>2
    <3> QED BY <2>8, <3>3 DEF HubTypeOK, Check, Checks, RepoSame
  <2>9. CASE ReadCard(a) \/ PutCard(a)
    <3> DEFINE put == [registration[a] EXCEPT !.at = "put"]
               collect == [registration[a] EXCEPT !.at = "collect"]
               readCard == [put EXCEPT !.read = card]
               carded == [collect EXCEPT !.carded = TRUE]
    <3>1. put \in Registrations /\ collect \in Registrations
      BY <2>2, RegistrationMoves
    <3>2. readCard \in Registrations /\ carded \in Registrations
      <4> HIDE DEF put, collect
      <4> QED BY <2>2, <3>1, RegistrationReads, RegistrationCards
    <3>3. \/ registration' = [registration EXCEPT ![a] = readCard]
          \/ registration' = [registration EXCEPT ![a] = collect]
          \/ registration' = [registration EXCEPT ![a] = carded]
      BY <2>2, <2>9 DEF ReadCard, PutCard
    <3> HIDE DEF put, collect, readCard, carded
    <3>4. registration' \in [Actors -> Registrations]
      BY <2>3, <3>1, <3>2, <3>3
    <3>5. card' \in Cards /\ excused' \in BOOLEAN
      BY <2>2, <2>9 DEF ReadCard, PutCard, Completed, Cards, HubTypeOK
    <3> QED BY <2>9, <3>4, <3>5 DEF HubTypeOK, ReadCard, PutCard, RepoSame
  <2>10. CASE Collect(a)
    <3>1. registration' \in [Actors -> Registrations]
      BY <2>2, <2>3, <2>10 DEF Collect
    <3> QED BY <2>10, <3>1 DEF HubTypeOK, Collect, RepoSame, Side
  <2> QED BY <2>1, <2>5, <2>6, <2>7, <2>8, <2>9, <2>10
<1> QED BY <1>1, <1>2

\* Every variable of the artifacts keeps its type, with any number of threads.
THEOREM HubIsTyped == HubSpec => []HubTypeOK
<1>1. HubInit => HubTypeOK
  BY HubInitially DEF HubInv
<1> QED BY <1>1, HubTypesKeep, PTL DEF HubSpec

---------------------------------------------------------------------------
(***************************************************************************)
(* Local files and edits                                                   *)
(* In local mode no confirmed edit is lost.  The handlers of the agent read and *)
(* write without awaiting, so that the invariant has only to say where callers *)
(* can be and that there is no server (LocalOK).                           *)
(***************************************************************************)

\* What a caller is at: only a posting that is left to it is made, for an operation.
CallsOK ==
  \A c \in Callers :
    /\ caller[c].pc # "idle" => caller[c].op \in Ops
    /\ caller[c].pc \in {"check", "post"} => caller[c].posts < HttpAttempts

\* A staged file was made from a text, not from the absence of one.
StagedOK == \A r \in served : r.at = "staged" => r.base \subseteq Callers

\* In local mode there is no server, and the only thread is that of a command.
LocalOK ==
  where = "local" =>
    /\ served = {}
    /\ \A c \in Callers : caller[c].pc \in {"idle", "thread"}

FileInv == FileTypeOK /\ CallsOK /\ StagedOK /\ LocalOK /\ LocalEditsStay

CallerStates ==
  [op : Ops \cup {"none"}, posts : 0 .. HttpAttempts,
   pc : {"idle", "check", "post", "wait", "thread"}]

LEMMA IdleIs == Idle \in CallerStates /\ Idle.pc = "idle"
BY FileAssumption DEF Idle, CallerStates

LEMMA FileInitInv == FileInit => FileInv
<1> SUFFICES ASSUME FileInit PROVE FileInv
  OBVIOUS
<1>1. FileTypeOK
  <2>1. fileText \in Contents
    BY DEF FileInit, Contents
  <2>2. caller \in [Callers -> CallerStates] /\ callsMade \in 0 .. MaxCalls
    BY FileAssumption, IdleIs DEF FileInit
  <2> QED
    BY <2>1, <2>2 DEF FileInit, FileTypeOK, CallerStates
<1>2. CallsOK /\ StagedOK /\ LocalOK /\ LocalEditsStay
  BY IdleIs DEF FileInit, CallsOK, StagedOK, LocalOK, LocalEditsStay
<1> QED
  BY <1>1, <1>2 DEF FileInv

\* One caller goes to another state that it may be in; nothing else of the callers changes.
LEMMA BecomeKeeps ==
  ASSUME FileInv, NEW c \in Callers, NEW s \in CallerStates, Become(c, s),
         s.pc # "idle" => s.op \in Ops,
         s.pc \in {"check", "post"} => s.posts < HttpAttempts
  PROVE  /\ caller' \in [Callers -> CallerStates]
         /\ CallsOK'
         /\ caller'[c] = s /\ \A d \in Callers \ {c} : caller'[d] = caller[d]
BY DEF FileInv, FileTypeOK, CallsOK, Become, CallerStates

\* The text after a command.
LEMMA AfterBashIs == ASSUME FileInv PROVE AfterBash \subseteq Contents
BY DEF FileInv, FileTypeOK, AfterBash, Contents

\* What a report makes of the edits that were confirmed.
LEMMA ReportsKeeps ==
  ASSUME FileInv, NEW c \in Callers, NEW op, Reports(op, c)
  PROVE  confirmed' \subseteq Callers
BY DEF FileInv, FileTypeOK, Reports

---------------------------------------------------------------------------
LEMMA LocalReadKeeps ==
  ASSUME FileInv, NEW c \in Callers, LocalRead(c)
  PROVE  FileInv'
<1>1. UNCHANGED <<where, fileText, caller, served, confirmed>>
  BY DEF LocalRead
<1>2. FileTypeOK'
  BY <1>1, FileAssumption DEF FileInv, FileTypeOK, LocalRead, Call
<1>3. CallsOK' /\ StagedOK' /\ LocalOK' /\ LocalEditsStay'
  BY <1>1 DEF FileInv, CallsOK, StagedOK, LocalOK, LocalEditsStay
<1> QED
  BY <1>2, <1>3 DEF FileInv

LEMMA LocalWriteKeeps ==
  ASSUME FileInv, NEW c \in Callers, LocalWrite(c)
  PROVE  FileInv'
<1>1. UNCHANGED <<where, caller, served>>
  BY DEF LocalWrite
<1>2. FileTypeOK'
  <2>1. {c} \in Contents
    BY DEF Contents
  <2>2. fileText' \in Contents /\ filesRead' \in BOOLEAN /\ confirmed' \subseteq Callers
    BY <2>1 DEF FileInv, FileTypeOK, LocalWrite
  <2>3. callsMade' \in 0 .. MaxCalls
    BY FileAssumption DEF FileInv, FileTypeOK, LocalWrite, Call
  <2> QED
    BY <1>1, <2>2, <2>3 DEF FileInv, FileTypeOK
<1>3. CallsOK' /\ StagedOK' /\ LocalOK'
  BY <1>1 DEF FileInv, CallsOK, StagedOK, LocalOK
<1>4. LocalEditsStay'
  BY DEF FileInv, LocalWrite, LocalEditsStay
<1> QED
  BY <1>2, <1>3, <1>4 DEF FileInv

\* The edit reads and writes the file in one step, so that it loses no other.
LEMMA LocalEditKeeps ==
  ASSUME FileInv, NEW c \in Callers, LocalEdit(c)
  PROVE  FileInv'
<1>1. UNCHANGED <<where, filesRead, caller, served>>
  BY DEF LocalEdit
<1>2. \/ fileText # Absent /\ fileText' = fileText \cup {c} /\ confirmed' = confirmed \cup {c}
      \/ UNCHANGED <<fileText, confirmed>>
  BY DEF LocalEdit, Reports
<1>3. FileTypeOK'
  BY <1>1, <1>2, FileAssumption DEF FileInv, FileTypeOK, LocalEdit, Call, Contents
<1>4. CallsOK' /\ StagedOK' /\ LocalOK'
  BY <1>1 DEF FileInv, CallsOK, StagedOK, LocalOK
<1>5. LocalEditsStay'
  BY <1>1, <1>2 DEF FileInv, LocalEditsStay
<1> QED
  BY <1>3, <1>4, <1>5 DEF FileInv

LEMMA LocalBashKeeps ==
  ASSUME FileInv, NEW c \in Callers, LocalBash(c)
  PROVE  FileInv'
<1>1. UNCHANGED <<where, filesRead, served>>
  BY DEF LocalBash
<1>2. callsMade' \in 0 .. MaxCalls
  BY FileAssumption DEF FileInv, FileTypeOK, LocalBash, Call
<1>3. fileText' \in Contents /\ confirmed' \subseteq Callers /\ LocalEditsStay'
  BY <1>1, AfterBashIs DEF FileInv, FileTypeOK, LocalBash, LocalEditsStay
<1>4. PICK s \in CallerStates : /\ Become(c, s) /\ s.pc \in {"idle", "thread"}
                                /\ s.pc # "idle" => s.op \in Ops
  <2> DEFINE b == [Idle EXCEPT !.op = "bash", !.pc = "thread"]
  <2>1. b \in CallerStates /\ b.pc = "thread" /\ b.op \in Ops
    BY IdleIs DEF CallerStates, Ops
  <2>2. Become(c, b) \/ Become(c, Idle)
    BY DEF LocalBash
  <2> HIDE DEF b
  <2> QED
    BY <2>1, <2>2, IdleIs
<1>5. caller' \in [Callers -> CallerStates] /\ CallsOK' /\ LocalOK'
  BY <1>1, <1>4, BecomeKeeps DEF FileInv, LocalOK
<1>6. FileTypeOK' /\ StagedOK'
  BY <1>1, <1>2, <1>3, <1>5 DEF FileInv, FileTypeOK, StagedOK, CallerStates
<1> QED
  BY <1>3, <1>5, <1>6 DEF FileInv

---------------------------------------------------------------------------
\* In the sandbox: the rest of the invariant is about the local mode.
LEMMA SandboxKeeps ==
  ASSUME FileInv, where # "local", UNCHANGED where
  PROVE  LocalOK' /\ LocalEditsStay'
BY DEF LocalOK, LocalEditsStay

LEMMA AskKeeps ==
  ASSUME FileInv, NEW c \in Callers, NEW op \in Ops, Ask(c, op)
  PROVE  FileInv'
<1>1. where = "sandbox" /\ UNCHANGED <<where, fileText, served, confirmed>>
  BY DEF Ask
<1>2. callsMade' \in 0 .. MaxCalls /\ filesRead' \in BOOLEAN
  BY FileAssumption DEF FileInv, FileTypeOK, Ask, Call
<1>3. caller' \in [Callers -> CallerStates] /\ CallsOK'
  <2>1. CASE UNCHANGED caller
    BY <2>1 DEF FileInv, FileTypeOK, CallerStates, CallsOK
  <2>2. CASE ~UNCHANGED caller
    <3> DEFINE s == [op |-> op, posts |-> 0,
                     pc |-> IF op = "write" /\ ~filesRead THEN "check" ELSE "post"]
    <3>1. s \in CallerStates /\ s.op = op /\ s.posts = 0
      BY FileAssumption DEF CallerStates
    <3>2. Become(c, s)
      BY <2>2 DEF Ask
    <3>3. 0 < HttpAttempts
      BY FileAssumption
    <3> HIDE DEF s
    <3> QED
      BY <3>1, <3>2, <3>3, BecomeKeeps
  <2> QED
    BY <2>1, <2>2
<1>4. FileTypeOK' /\ StagedOK'
  BY <1>1, <1>2, <1>3 DEF FileInv, FileTypeOK, StagedOK, CallerStates
<1> QED
  BY <1>1, <1>3, <1>4, SandboxKeeps DEF FileInv

\* A caller that is neither idle nor in a thread is in the sandbox.
LEMMA InSandbox ==
  ASSUME FileInv, NEW c \in Callers, caller[c].pc \in {"check", "post", "wait"}
  PROVE  where # "local" /\ caller[c] \in CallerStates /\ caller[c].op \in Ops
BY DEF FileInv, LocalOK, FileTypeOK, CallerStates, CallsOK

LEMMA CheckExistsKeeps ==
  ASSUME FileInv, NEW c \in Callers, CheckExists(c)
  PROVE  FileInv'
<1>1. caller[c].pc = "check"
      /\ UNCHANGED <<where, fileText, filesRead, served, callsMade, confirmed>>
  BY DEF CheckExists
<1>2. caller[c] \in CallerStates /\ caller[c].op \in Ops /\ where # "local"
      /\ caller[c].posts < HttpAttempts
  BY <1>1, InSandbox DEF FileInv, CallsOK
<1>3. caller' \in [Callers -> CallerStates] /\ CallsOK'
  <2> DEFINE s == [caller[c] EXCEPT !.pc = "post"]
  <2>1. s \in CallerStates /\ s.op \in Ops /\ s.posts < HttpAttempts
    BY <1>2 DEF CallerStates
  <2>2. Become(c, Idle) \/ Become(c, s)
    BY DEF CheckExists
  <2> HIDE DEF s
  <2> QED
    BY <2>1, <2>2, IdleIs, BecomeKeeps
<1>4. FileTypeOK' /\ StagedOK'
  BY <1>1, <1>3 DEF FileInv, FileTypeOK, StagedOK, CallerStates
<1> QED
  BY <1>1, <1>2, <1>3, <1>4, SandboxKeeps DEF FileInv

LEMMA PostRequestKeeps ==
  ASSUME FileInv, NEW c \in Callers, PostRequest(c)
  PROVE  FileInv'
<1> DEFINE n == caller[c].posts + 1
           q == [by |-> c, op |-> caller[c].op, n |-> n, base |-> Absent, at |-> "come"]
<1>1. caller[c].pc = "post" /\ UNCHANGED <<where, fileText, filesRead, callsMade, confirmed>>
  BY DEF PostRequest
<1>2. caller[c] \in CallerStates /\ caller[c].op \in Ops /\ where # "local"
      /\ caller[c].posts < HttpAttempts
  BY <1>1, InSandbox DEF FileInv, CallsOK
<1>3. n \in 1 .. HttpAttempts /\ n \in 0 .. HttpAttempts
  BY <1>2, FileAssumption DEF CallerStates
<1>4. caller' \in [Callers -> CallerStates] /\ CallsOK'
  <2> DEFINE s == [caller[c] EXCEPT !.pc = "wait", !.posts = n]
  <2> HIDE DEF n
  <2>1. s \in CallerStates /\ s.op \in Ops /\ s.pc = "wait"
    BY <1>2, <1>3 DEF CallerStates
  <2>2. Become(c, s)
    BY DEF PostRequest, n
  <2> HIDE DEF s
  <2> QED
    BY <2>1, <2>2, BecomeKeeps
<1>5. q \in FileRequests /\ q.at = "come"
  BY <1>2, <1>3 DEF FileRequests, Contents
<1>6. served' \subseteq served \cup {q}
  BY DEF PostRequest
<1> HIDE DEF q
<1>7. FileTypeOK' /\ StagedOK'
  BY <1>1, <1>4, <1>5, <1>6 DEF FileInv, FileTypeOK, StagedOK, CallerStates
<1> QED
  BY <1>1, <1>2, <1>4, <1>7, SandboxKeeps DEF FileInv

LEMMA GivesUpKeeps ==
  ASSUME FileInv, NEW c \in Callers, PostAgain(c) \/ PostTimeout(c)
  PROVE  FileInv'
<1>1. caller[c].pc = "wait"
      /\ UNCHANGED <<where, fileText, filesRead, served, callsMade, confirmed>>
  BY DEF PostAgain, PostTimeout
<1>2. caller[c] \in CallerStates /\ caller[c].op \in Ops /\ where # "local"
  BY <1>1, InSandbox
<1>3. caller' \in [Callers -> CallerStates] /\ CallsOK'
  <2> DEFINE s == [caller[c] EXCEPT !.pc = "post"]
  <2>1. s \in CallerStates /\ s.op \in Ops /\ s.posts = caller[c].posts
    BY <1>2 DEF CallerStates
  <2>2. Become(c, Idle) \/ (Become(c, s) /\ caller[c].posts < HttpAttempts)
    BY DEF PostAgain, PostTimeout
  <2> HIDE DEF s
  <2> QED
    BY <2>1, <2>2, IdleIs, BecomeKeeps
<1>4. FileTypeOK' /\ StagedOK'
  BY <1>1, <1>3 DEF FileInv, FileTypeOK, StagedOK, CallerStates
<1> QED
  BY <1>1, <1>2, <1>3, <1>4, SandboxKeeps DEF FileInv

---------------------------------------------------------------------------
\* A request is at work in the sandbox only.
LEMMA ServedIs ==
  ASSUME FileInv, NEW r \in served
  PROVE  /\ r \in FileRequests /\ r.by \in Callers /\ r.op \in Ops /\ where # "local"
         /\ r.at = "staged" => r.base \subseteq Callers
BY DEF FileInv, FileTypeOK, LocalOK, StagedOK, FileRequests

LEMMA AnswerKeeps ==
  ASSUME FileInv, NEW r \in served, NEW success \in BOOLEAN, Answer(r, success),
         fileText' \in Contents, UNCHANGED <<where, callsMade>>
  PROVE  FileInv'
<1>1. r.by \in Callers /\ where # "local"
  BY ServedIs
<1>2. served' = served \ {r}
  BY DEF Answer
<1>3. confirmed' \subseteq Callers
  BY <1>1, ReportsKeeps DEF Answer, FileInv, FileTypeOK
<1>4. caller' \in [Callers -> CallerStates] /\ CallsOK'
  <2>1. CASE UNCHANGED caller
    BY <2>1 DEF FileInv, FileTypeOK, CallerStates, CallsOK
  <2>2. CASE Become(r.by, Idle)
    BY <1>1, <2>2, IdleIs, BecomeKeeps
  <2> QED
    BY <2>1, <2>2 DEF Answer
<1>5. filesRead' \in BOOLEAN
  BY DEF Answer, FileInv, FileTypeOK
<1>6. FileTypeOK' /\ StagedOK'
  BY <1>2, <1>3, <1>4, <1>5 DEF FileInv, FileTypeOK, StagedOK, CallerStates
<1> QED
  BY <1>1, <1>4, <1>6, SandboxKeeps DEF FileInv

LEMMA StagedKeeps ==
  ASSUME FileInv, NEW r \in served, NEW base \in SUBSET Callers, Staged(r, base),
         UNCHANGED <<where, filesRead, caller, callsMade, confirmed>>
  PROVE  FileInv'
<1> DEFINE q == [r EXCEPT !.at = "staged", !.base = base]
<1>1. r \in FileRequests /\ where # "local"
  BY ServedIs
<1>2. q \in FileRequests /\ q.base = base
  BY <1>1 DEF FileRequests, Contents
<1>3. served' = (served \ {r}) \cup {q} /\ UNCHANGED fileText
  BY DEF Staged
<1> HIDE DEF q
<1>4. FileTypeOK' /\ StagedOK'
  BY <1>2, <1>3 DEF FileInv, FileTypeOK, StagedOK
<1>5. CallsOK'
  BY DEF FileInv, CallsOK
<1> QED
  BY <1>1, <1>4, <1>5, SandboxKeeps DEF FileInv

\* What the server does with one request.
LEMMA ServesKeeps ==
  ASSUME FileInv, NEW r \in served,
         ServeRead(r) \/ ServeWrite(r) \/ ServeEdit(r) \/ Replace(r) \/ ServeBash(r)
  PROVE  FileInv'
<1>0. fileText \in Contents /\ {} \in SUBSET Callers
      /\ (fileText # Absent => fileText \in SUBSET Callers)
  BY DEF FileInv, FileTypeOK, Contents
<1>1. CASE ServeRead(r)
  BY <1>0, <1>1, AnswerKeeps DEF ServeRead
<1>2. CASE ServeWrite(r)
  BY <1>0, <1>2, StagedKeeps DEF ServeWrite
<1>3. CASE ServeEdit(r)
  BY <1>0, <1>3, AnswerKeeps, StagedKeeps DEF ServeEdit
<1>4. CASE Replace(r)
  <2>1. fileText' \in Contents
    BY <1>4, ServedIs DEF Replace, Contents
  <2> QED
    BY <1>4, <2>1, AnswerKeeps DEF Replace
<1>5. CASE ServeBash(r)
  BY <1>5, AfterBashIs, AnswerKeeps DEF ServeBash
<1> QED
  BY <1>1, <1>2, <1>3, <1>4, <1>5

LEMMA ServerStopsKeeps ==
  ASSUME FileInv, KillAll \/ ServerRestart
  PROVE  FileInv'
<1>1. where # "local" /\ served' \subseteq served
      /\ UNCHANGED <<where, filesRead, caller, callsMade, confirmed>>
  BY DEF KillAll, ServerRestart
<1>2. fileText' \in {fileText, Absent}
  BY DEF KillAll, ServerRestart
<1>3. FileTypeOK' /\ StagedOK' /\ CallsOK'
  BY <1>1, <1>2 DEF FileInv, FileTypeOK, StagedOK, CallsOK, Contents
<1> QED
  BY <1>1, <1>3, SandboxKeeps DEF FileInv

LEMMA FileNextInv == FileInv /\ [FileNext]_fileVars => FileInv'
<1> SUFFICES ASSUME FileInv, [FileNext]_fileVars PROVE FileInv'
  OBVIOUS
<1>1. CASE UNCHANGED fileVars
  <2>1. FileTypeOK' /\ CallsOK'
    BY <1>1 DEF FileInv, FileTypeOK, CallsOK, fileVars
  <2>2. StagedOK' /\ LocalOK' /\ LocalEditsStay'
    BY <1>1 DEF FileInv, StagedOK, LocalOK, LocalEditsStay, fileVars
  <2> QED
    BY <2>1, <2>2 DEF FileInv
<1> QED
  BY <1>1, LocalReadKeeps, LocalWriteKeeps, LocalEditKeeps, LocalBashKeeps, AskKeeps,
     CheckExistsKeeps, PostRequestKeeps, GivesUpKeeps, ServesKeeps, ServerStopsKeeps
     DEF FileNext

(* Local edits are safe: in local mode the handlers read and write a file in   *)
(* one step of the event loop, and so no edit that was reported is dropped by   *)
(* another, whatever calls of a reply run beside it.                          *)
THEOREM LocalEditsAreSafe == FileSpec => [](FileTypeOK /\ LocalEditsStay)
<1>1. FileInit => FileInv
  BY FileInitInv
<1>2. FileInv /\ [FileNext]_fileVars => FileInv'
  BY FileNextInv
<1>3. FileInv => FileTypeOK /\ LocalEditsStay
  BY DEF FileInv
<1> QED
  BY <1>1, <1>2, <1>3, PTL DEF FileSpec

---------------------------------------------------------------------------
(***************************************************************************)
(* Resumed conversations and their logs                                    *)
(* No saved event is lost from its log.  A save replaces the log of the chat by *)
(* what the chat holds, so the invariant is that the chat holds at least what *)
(* its log does (OwnLog): /resume and /new drop the path with the events.  *)
(***************************************************************************)

Logs == [id : 0 .. MaxChats, mine : BOOLEAN, messages : SUBSET Turns, logged : SUBSET Turns]

\* What a chat or a log holds was said in a turn that was taken.
Past ==
  /\ messages \subseteq 0 .. turnsTaken
  /\ \A f \in DOMAIN logs : logs[f].messages \subseteq 0 .. turnsTaken
  /\ turnCount <= turnsTaken + 1

\* The log that the chat writes holds no event which the chat does not hold itself:
\* it was begun with the events of this chat, and these leave it only with the path.
OwnLog == path # 0 => logs[path].logged \subseteq logged

ChatInv == ChatTypeOK /\ logs \in Seq(Logs) /\ Past /\ OwnLog

LEMMA ChatInitInv == ChatInit => ChatInv
<1> SUFFICES ASSUME ChatInit PROVE ChatInv
  OBVIOUS
<1>1. PICK mine \in BOOLEAN : logs = <<LogOf(0, mine, {0}, {0})>>
  BY DEF ChatInit
<1>2. 0 \in Turns /\ 0 \in 0 .. MaxChats /\ 0 \in 0 .. MaxTurnsTaken + 1 /\ 1 \in 1 .. MaxChats
  BY ConversationAssumption DEF Turns
<1>3. LogOf(0, mine, {0}, {0}) \in Logs
  BY <1>2 DEF LogOf, Logs
<1>4. logs \in Seq(Logs) /\ Len(logs) = 1 /\ logs[1] = LogOf(0, mine, {0}, {0})
  BY <1>1, <1>3
<1>5. ChatTypeOK
  <2>1. \A f \in DOMAIN logs : /\ logs[f].id \in 0 .. MaxChats /\ logs[f].mine \in BOOLEAN
                               /\ {logs[f].messages, logs[f].logged} \subseteq SUBSET Turns
    BY <1>2, <1>4 DEF LogOf
  <2>2. path \in 0 .. Len(logs)
    BY <1>4 DEF ChatInit
  <2>3. {messages, logged, tried, plan, reflecting} \subseteq SUBSET Turns
    BY DEF ChatInit
  <2>4. id \in 0 .. MaxChats
    BY ConversationAssumption DEF ChatInit
  <2> QED
    BY <1>2, <2>1, <2>2, <2>3, <2>4 DEF ChatInit, ChatTypeOK
<1>6. Past /\ OwnLog
  BY <1>4 DEF ChatInit, Past, OwnLog, LogOf
<1> QED
  BY <1>4, <1>5, <1>6 DEF ChatInv

\* The logs, as records.
LEMMA LogsAre ==
  ASSUME NEW ls \in Seq(Logs)
  PROVE  \A f \in DOMAIN ls : /\ ls[f].id \in 0 .. MaxChats /\ ls[f].mine \in BOOLEAN
                              /\ {ls[f].messages, ls[f].logged} \subseteq SUBSET Turns
<1> SUFFICES ASSUME NEW f \in DOMAIN ls PROVE ls[f] \in Logs
  BY DEF Logs
<1> QED
  OBVIOUS

\* A save writes the log of the chat, and no other; it keeps the events of that log
\* if what it writes includes those which the chat holds.
Saves(ls, p, msgs, evts) ==
  /\ ls \in Seq(Logs)
  /\ p \in 1 .. Len(ls) /\ ls[p].logged = evts
  /\ \A f \in DOMAIN ls :
       ls[f].messages = msgs \/ (f \in DOMAIN logs /\ ls[f].messages = logs[f].messages)
  /\ \A f \in DOMAIN logs : logs[f].logged \subseteq ls[f].logged

LEMMA SaveKeeps ==
  ASSUME ChatInv, NEW msgs \in SUBSET Turns, NEW evts \in SUBSET Turns, logged \subseteq evts
  PROVE  Saves(WithSave(msgs, evts), SavedPath, msgs, evts)
<1> DEFINE log == LogOf(id, TRUE, msgs, evts)
<1>1. log \in Logs /\ log.messages = msgs /\ log.logged = evts
  BY DEF ChatInv, ChatTypeOK, LogOf, Logs
<1>2. logs \in Seq(Logs) /\ path \in 0 .. Len(logs)
  BY DEF ChatInv, ChatTypeOK
<1>3. WithSave(msgs, evts) = IF path = 0 THEN Append(logs, log) ELSE [logs EXCEPT ![path] = log]
  BY DEF WithSave
<1> HIDE DEF log
<1>4. CASE path = 0
  <2> DEFINE ls == Append(logs, log)
  <2>1. ls \in Seq(Logs) /\ Len(ls) = Len(logs) + 1 /\ Len(logs) \in Nat
    BY <1>1, <1>2
  <2>2. \A f \in DOMAIN ls : ls[f] = IF f = Len(logs) + 1 THEN log ELSE logs[f]
    BY <1>2
  <2>3. DOMAIN ls = 1 .. Len(logs) + 1 /\ DOMAIN logs = 1 .. Len(logs)
    BY <1>2, <2>1
  <2> HIDE DEF ls
  <2>5. Len(logs) + 1 \in 1 .. Len(ls) /\ ls[Len(logs) + 1].logged = evts
    BY <1>1, <2>1, <2>2, <2>3
  <2>6. ASSUME NEW f \in DOMAIN ls
        PROVE  ls[f].messages = msgs \/ (f \in DOMAIN logs /\ ls[f].messages = logs[f].messages)
    <3>1. CASE f = Len(logs) + 1
      <4>1. ls[f] = log
        BY <2>2, <3>1
      <4> QED
        BY <1>1, <4>1
    <3>2. CASE f # Len(logs) + 1
      <4>1. f \in DOMAIN logs /\ ls[f] = logs[f]
        BY <2>1, <2>2, <2>3, <3>2
      <4> QED
        BY <4>1
    <3> QED
      BY <3>1, <3>2
  <2>7. ASSUME NEW f \in DOMAIN logs PROVE logs[f].logged \subseteq ls[f].logged
    <3>1. f \in DOMAIN ls /\ f # Len(logs) + 1
      BY <2>1, <2>3, <2>7
    <3> QED
      BY <2>2, <3>1
  <2>4. Saves(ls, Len(logs) + 1, msgs, evts)
    BY <2>1, <2>5, <2>6, <2>7 DEF Saves
  <2> QED
    BY <1>3, <1>4, <2>4 DEF SavedPath, ls
<1>5. CASE path # 0
  <2> DEFINE ls == [logs EXCEPT ![path] = log]
  <2>1. path \in DOMAIN logs /\ path \in 1 .. Len(logs)
    BY <1>2, <1>5
  <2>2. ls \in Seq(Logs) /\ Len(ls) = Len(logs)
    BY <1>1, <1>2, <2>1
  <2>3. \A f \in DOMAIN logs : ls[f] = IF f = path THEN log ELSE logs[f]
    BY <1>2
  <2>4. logs[path].logged \subseteq evts
    BY <1>5 DEF ChatInv, OwnLog
  <2>5. DOMAIN ls = DOMAIN logs
    OBVIOUS
  <2> HIDE DEF ls
  <2>7. path \in 1 .. Len(ls) /\ ls[path].logged = evts
    BY <1>1, <2>1, <2>2, <2>3
  <2>8. \A f \in DOMAIN ls :
          ls[f].messages = msgs \/ (f \in DOMAIN logs /\ ls[f].messages = logs[f].messages)
    <3> SUFFICES ASSUME NEW f \in DOMAIN ls
                 PROVE  \/ ls[f].messages = msgs
                        \/ f \in DOMAIN logs /\ ls[f].messages = logs[f].messages
      OBVIOUS
    <3>1. ls[f] = log \/ ls[f] = logs[f]
      BY <2>3, <2>5
    <3> QED
      BY <1>1, <2>5, <3>1
  <2>9. \A f \in DOMAIN logs : logs[f].logged \subseteq ls[f].logged
    BY <1>1, <2>3, <2>4
  <2>6. Saves(ls, path, msgs, evts)
    BY <2>2, <2>7, <2>8, <2>9 DEF Saves
  <2> QED
    BY <1>3, <1>5, <2>6 DEF SavedPath, ls
<1> QED
  BY <1>4, <1>5

---------------------------------------------------------------------------
LEMMA TakeTurnKeeps ==
  ASSUME ChatInv, TakeTurn
  PROVE  ChatInv' /\ \A f \in DOMAIN logs : logs[f].logged \subseteq logs'[f].logged
<1> DEFINE t == turnsTaken + 1
<1>1. turnsTaken \in Turns /\ t \in Turns /\ turnsTaken' = t
  BY ConversationAssumption DEF TakeTurn, ChatInv, ChatTypeOK, Turns
<1>2. messages' = messages \cup {t} /\ logged' = logged \cup {t} /\ UNCHANGED <<id, chats>>
  BY DEF TakeTurn
<1>3. messages' \in SUBSET Turns /\ logged' \in SUBSET Turns /\ logged \subseteq logged'
  BY <1>1, <1>2 DEF ChatInv, ChatTypeOK
<1>4. tried' \in SUBSET Turns /\ plan' \in SUBSET Turns /\ reflecting' \in SUBSET Turns
      /\ asking' \in BOOLEAN
  BY <1>1 DEF TakeTurn, TurnDone, ChatInv, ChatTypeOK
<1>5. /\ turnCount' \in 0 .. MaxTurnsTaken + 1 /\ lastSave' \in 0 .. MaxTurnsTaken + 1
      /\ turnCount' <= turnsTaken' + 1
  BY SMTT(30), <1>1, ConversationAssumption DEF TakeTurn, TurnDone, ChatInv, ChatTypeOK, Past, Turns
<1>6. CASE UNCHANGED <<logs, path>>
  <2>1. ChatTypeOK' /\ OwnLog'
    BY <1>1, <1>2, <1>3, <1>4, <1>5, <1>6 DEF ChatInv, ChatTypeOK, OwnLog
  <2>2. Past'
    BY <1>1, <1>2, <1>5, <1>6 DEF ChatInv, Past, Turns
  <2> QED
    BY <1>6, <2>1, <2>2 DEF ChatInv
<1>7. CASE logs' = WithSave(messages', logged') /\ path' = SavedPath
  <2>1. /\ logs' \in Seq(Logs) /\ path' \in 1 .. Len(logs') /\ logs'[path'].logged = logged'
        /\ \A f \in DOMAIN logs' :
             logs'[f].messages = messages' \/ (f \in DOMAIN logs /\ logs'[f].messages = logs[f].messages)
        /\ \A f \in DOMAIN logs : logs[f].logged \subseteq logs'[f].logged
    <3>1. Saves(WithSave(messages', logged'), SavedPath, messages', logged')
      BY <1>3, SaveKeeps
    <3>2. Saves(logs', path', messages', logged')
      BY <1>7, <3>1
    <3> QED
      BY <3>2 DEF Saves
  <2>2. ChatTypeOK'
    BY <1>1, <1>2, <1>3, <1>4, <1>5, <2>1, LogsAre DEF ChatInv, ChatTypeOK
  <2>3. Past'
    <3>1. messages' \subseteq 0 .. turnsTaken'
      <4>1. messages \subseteq 0 .. turnsTaken
        BY DEF ChatInv, Past
      <4>2. 0 .. turnsTaken \subseteq 0 .. t /\ t \in 0 .. t
        BY <1>1 DEF Turns
      <4> QED
        BY <4>1, <4>2, <1>1, <1>2
    <3>2. \A f \in DOMAIN logs : logs[f].messages \subseteq 0 .. turnsTaken'
      BY <1>1 DEF ChatInv, Past, Turns
    <3> QED
      BY <1>5, <2>1, <3>1, <3>2 DEF Past
  <2>4. OwnLog'
    BY <2>1 DEF OwnLog
  <2> QED
    BY <2>1, <2>2, <2>3, <2>4 DEF ChatInv
<1> QED
  BY <1>6, <1>7 DEF TakeTurn, TurnDone

LEMMA HeartbeatKeeps ==
  ASSUME ChatInv, Heartbeat
  PROVE  ChatInv' /\ \A f \in DOMAIN logs : logs[f].logged \subseteq logs'[f].logged
<1>1. messages \in SUBSET Turns /\ logged \in SUBSET Turns
  BY DEF ChatInv, ChatTypeOK
<1>2. UNCHANGED <<id, messages, logged, tried, plan, asking, turnCount, lastSave,
                  reflecting, turnsTaken, chats>>
  BY DEF Heartbeat
<1>3. /\ logs' \in Seq(Logs) /\ path' \in 1 .. Len(logs') /\ logs'[path'].logged = logged
      /\ \A f \in DOMAIN logs' :
           logs'[f].messages = messages
             \/ (f \in DOMAIN logs /\ logs'[f].messages = logs[f].messages)
      /\ \A f \in DOMAIN logs : logs[f].logged \subseteq logs'[f].logged
  <2>1. Saves(WithSave(messages, logged), SavedPath, messages, logged)
    BY <1>1, SaveKeeps
  <2>2. Saves(logs', path', messages, logged)
    BY <2>1 DEF Heartbeat
  <2> QED
    BY <2>2 DEF Saves
<1>4. ChatTypeOK'
  BY <1>2, <1>3, LogsAre DEF ChatInv, ChatTypeOK
<1>5. Past' /\ OwnLog'
  BY <1>2, <1>3 DEF ChatInv, Past, OwnLog
<1> QED
  BY <1>3, <1>4, <1>5 DEF ChatInv

\* A step that leaves the logs alone and drops no event of the chat.
LEMMA ReflectedKeeps ==
  ASSUME ChatInv, NEW t \in Turns, Reflected(t)
  PROVE  ChatInv' /\ UNCHANGED logs
<1>1. UNCHANGED <<id, messages, tried, plan, asking, turnCount, lastSave, path, logs,
                  turnsTaken, chats>> /\ logged \subseteq logged' /\ logged' \subseteq logged \cup {t}
      /\ reflecting' \subseteq reflecting
  BY DEF Reflected
<1>2. ChatTypeOK'
  BY <1>1 DEF ChatInv, ChatTypeOK
<1>3. Past' /\ OwnLog'
  BY <1>1 DEF ChatInv, Past, OwnLog
<1> QED
  BY <1>1, <1>2, <1>3 DEF ChatInv

LEMMA UndoKeeps ==
  ASSUME ChatInv, UndoTurn
  PROVE  ChatInv' /\ UNCHANGED logs
<1>1. UNCHANGED <<id, logged, tried, plan, asking, turnCount, lastSave, path, logs,
                  reflecting, turnsTaken, chats>> /\ messages' \subseteq messages
  BY DEF UndoTurn
<1>2. ChatTypeOK'
  BY <1>1 DEF ChatInv, ChatTypeOK
<1>3. Past' /\ OwnLog'
  BY <1>1 DEF ChatInv, Past, OwnLog
<1> QED
  BY <1>1, <1>2, <1>3 DEF ChatInv

\* The number of the next chat.
LEMMA ChatBeginsKeeps ==
  ASSUME ChatInv, ChatBegins
  PROVE  /\ chats' \in 1 .. MaxChats /\ chats' \in 0 .. MaxChats
         /\ UNCHANGED <<reflecting, turnsTaken>>
BY ConversationAssumption DEF ChatInv, ChatTypeOK, ChatBegins

LEMMA NewChatKeeps ==
  ASSUME ChatInv, NewChat
  PROVE  ChatInv' /\ \A f \in DOMAIN logs : logs[f].logged \subseteq logs'[f].logged
<1>1. messages \in SUBSET Turns /\ logged \in SUBSET Turns /\ turnsTaken \in Turns
  BY DEF ChatInv, ChatTypeOK
<1>2. chats' \in 1 .. MaxChats /\ id' \in 0 .. MaxChats /\ UNCHANGED <<reflecting, turnsTaken>>
  BY ChatBeginsKeeps DEF NewChat
<1>3. /\ path' = 0 /\ messages' = {} /\ logged' = {} /\ tried' = {} /\ plan' = {}
      /\ asking' = FALSE /\ turnCount' = 0 /\ lastSave' = 0
  BY DEF NewChat
<1>4. /\ logs' \in Seq(Logs)
      /\ \A f \in DOMAIN logs' : logs'[f].messages \subseteq 0 .. turnsTaken
      /\ \A f \in DOMAIN logs : logs[f].logged \subseteq logs'[f].logged
  <2>1. CASE logs' = WithSave(messages, logged)
    <3>1. Saves(WithSave(messages, logged), SavedPath, messages, logged)
      BY <1>1, SaveKeeps
    <3>2. Saves(logs', SavedPath, messages, logged)
      BY <2>1, <3>1
    <3> QED
      BY <3>2 DEF Saves, ChatInv, Past
  <2>2. CASE UNCHANGED logs
    BY <2>2 DEF ChatInv, Past
  <2> QED
    BY <2>1, <2>2 DEF NewChat
<1>5. 0 \in 0 .. MaxTurnsTaken + 1 /\ 0 \in 0 .. Len(logs')
  BY <1>4, ConversationAssumption
<1>6. ChatTypeOK'
  BY <1>1, <1>2, <1>3, <1>4, <1>5, LogsAre DEF ChatInv, ChatTypeOK
<1>7. Past' /\ OwnLog'
  BY <1>1, <1>2, <1>3, <1>4 DEF Past, OwnLog, Turns
<1> QED
  BY <1>4, <1>6, <1>7 DEF ChatInv

\* The resumed log is left alone: the chat has no path until it is saved anew.
LEMMA ResumeKeeps ==
  ASSUME ChatInv, NEW f \in Restorable, Resume(f)
  PROVE  ChatInv' /\ UNCHANGED logs
<1>1. f \in DOMAIN logs /\ logs[f] \in Logs /\ UNCHANGED <<logs, tried, plan>>
  BY DEF Restorable, ChatInv, Resume
<1>2. chats' \in 1 .. MaxChats /\ UNCHANGED <<reflecting, turnsTaken>>
  BY ChatBeginsKeeps DEF Resume
<1>3. turnsTaken \in 0 .. MaxTurnsTaken
  BY DEF ChatInv, ChatTypeOK, Turns
<1>4. logs[f].messages \subseteq 0 .. turnsTaken
  BY <1>1 DEF ChatInv, Past
<1>5. Cardinality(logs[f].messages) \in 0 .. turnsTaken + 1
  <2>1. IsFiniteSet(0 .. turnsTaken) /\ Cardinality(0 .. turnsTaken) = turnsTaken + 1
    BY <1>3, FS_Interval
  <2>2. IsFiniteSet(logs[f].messages)
        /\ Cardinality(logs[f].messages) <= Cardinality(0 .. turnsTaken)
    BY <1>4, <2>1, FS_Subset
  <2>3. Cardinality(logs[f].messages) \in Nat
    BY <2>2, FS_CardinalityType
  <2> QED
    BY <1>3, <2>1, <2>2, <2>3
<1>6. /\ turnCount' = lastSave' /\ turnCount' \in 0 .. turnsTaken + 1
      /\ turnCount' \in 0 .. MaxTurnsTaken + 1
  BY <1>3, <1>5, ConversationAssumption DEF Resume
<1>7. /\ messages' = logs[f].messages /\ logged' = {} /\ path' = 0 /\ asking' = FALSE
      /\ id' \in {id, logs[f].id}
  BY DEF Resume
<1>8. messages' \in SUBSET Turns /\ id' \in 0 .. MaxChats
  BY <1>1, <1>7 DEF Logs, ChatInv, ChatTypeOK
<1>9. 0 \in 0 .. Len(logs)
  BY DEF ChatInv
<1>10. ChatTypeOK'
  BY <1>1, <1>2, <1>3, <1>6, <1>7, <1>8, <1>9 DEF ChatInv, ChatTypeOK
<1>11. Past' /\ OwnLog'
  BY <1>1, <1>2, <1>3, <1>4, <1>6, <1>7 DEF ChatInv, Past, OwnLog
<1> QED
  BY <1>1, <1>10, <1>11 DEF ChatInv

LEMMA ChatNextInv ==
  ASSUME ChatInv, [ChatNext]_chatVars
  PROVE  ChatInv' /\ \A f \in DOMAIN logs : logs[f].logged \subseteq logs'[f].logged
<1>1. CASE UNCHANGED chatVars
  <2>1. ChatTypeOK' /\ Past' /\ OwnLog' /\ UNCHANGED logs
    BY <1>1 DEF ChatInv, ChatTypeOK, Past, OwnLog, chatVars
  <2> QED
    BY <2>1 DEF ChatInv
<1> QED
  BY <1>1, TakeTurnKeeps, HeartbeatKeeps, ReflectedKeeps, UndoKeeps, NewChatKeeps, ResumeKeeps
     DEF ChatNext

(* The history on disk survives: "reusing the source path would let the next   *)
(* heartbeat save destroy the original event history on disk", and so /resume   *)
(* drops the path; whatever turns, saves, undos and chats follow, the events     *)
(* that a log holds stay in it.                                              *)
THEOREM SavedEventsSurvive == ChatSpec => []ChatTypeOK /\ EventsSurvive
<1>1. ChatInit => ChatInv
  BY ChatInitInv
<1>2. ChatInv /\ [ChatNext]_chatVars => ChatInv'
  BY ChatNextInv
<1>3. ChatInv /\ [ChatNext]_chatVars =>
     [\A f \in DOMAIN logs : logs[f].logged \subseteq logs'[f].logged]_chatVars
  BY ChatNextInv
<1>4. ChatInv => ChatTypeOK
  BY DEF ChatInv
<1> QED
  BY <1>1, <1>2, <1>3, <1>4, PTL DEF ChatSpec, EventsSurvive

---------------------------------------------------------------------------
(***************************************************************************)
(* Snapshots of a session in the store                                     *)
(* What was acknowledged stays in the rows.  A load returns the rows that are *)
(* there in their order, whatever is missing between them, so the first lemmas *)
(* are about ranks: the member of a set of numbers with a given rank exists and *)
(* is one, which follows from cardinalities without induction.             *)
(***************************************************************************)

Messages == 1 .. MaxMsg

---------------------------------------------------------------------------
(* Ranks: the members of a finite set of numbers, counted from below.       *)

Below(S, k) == Cardinality(S \cap (1 .. k))

LEMMA UpTo == ASSUME NEW n \in Nat PROVE IsFiniteSet(1 .. n) /\ Cardinality(1 .. n) = n
<1>1. 1 \in Int /\ n \in Int
  OBVIOUS
<1>2. IsFiniteSet(1 .. n) /\ Cardinality(1 .. n) = IF 1 > n THEN 0 ELSE n - 1 + 1
  BY <1>1, FS_Interval
<1> QED
  BY <1>2

LEMMA BelowIs ==
  ASSUME NEW N \in Nat, NEW S \in SUBSET (1 .. N), NEW k \in Nat
  PROVE  /\ IsFiniteSet(S) /\ Cardinality(S) \in Nat
         /\ Below(S, k) \in 0 .. Cardinality(S)
         /\ k >= 1 => Below(S, k) = IF k \in S THEN Below(S, k - 1) + 1 ELSE Below(S, k - 1)
<1>1. IsFiniteSet(1 .. N)
  BY FS_Interval
<1>2. IsFiniteSet(S) /\ Cardinality(S) \in Nat
  BY <1>1, FS_Subset, FS_CardinalityType
<1>3. ASSUME NEW j \in Nat PROVE IsFiniteSet(S \cap (1 .. j)) /\ Below(S, j) \in 0 .. Cardinality(S)
  <2>1. S \cap (1 .. j) \subseteq S
    OBVIOUS
  <2> QED
    BY <1>2, <2>1, FS_Subset, FS_CardinalityType DEF Below
<1>4. ASSUME k >= 1
      PROVE  Below(S, k) = IF k \in S THEN Below(S, k - 1) + 1 ELSE Below(S, k - 1)
  <2>1. k - 1 \in Nat /\ k \notin S \cap (1 .. k - 1)
    BY <1>4
  <2>2. IsFiniteSet(S \cap (1 .. k - 1))
    BY <1>3, <2>1
  <2>3. CASE k \in S
    <3>1. S \cap (1 .. k) = (S \cap (1 .. k - 1)) \cup {k}
      BY <1>4, <2>3
    <3> QED
      BY <2>1, <2>2, <2>3, <3>1, FS_AddElement DEF Below
  <2>4. CASE k \notin S
    <3>1. S \cap (1 .. k) = S \cap (1 .. k - 1)
      BY <1>4, <2>4
    <3> QED
      BY <2>4, <3>1 DEF Below
  <2> QED
    BY <2>3, <2>4
<1> QED
  BY <1>2, <1>3, <1>4

LEMMA BelowNat ==
  ASSUME NEW N \in Nat, NEW S \in SUBSET (1 .. N)
  PROVE  \A k \in Nat : Below(S, k) \in Nat
<1>1. \A k \in Nat : Below(S, k) \in 0 .. Cardinality(S) /\ Cardinality(S) \in Nat
  BY BelowIs
<1> QED
  BY <1>1

LEMMA BelowGrows ==
  ASSUME NEW N \in Nat, NEW S \in SUBSET (1 .. N), NEW j \in S, NEW k \in S, j < k
  PROVE  Below(S, j) < Below(S, k)
<1>1. j \in Nat /\ k \in Nat /\ k >= 1 /\ k - 1 \in Nat
  OBVIOUS
<1>2. Below(S, k) = Below(S, k - 1) + 1
  BY <1>1, BelowIs
<1>3. S \cap (1 .. j) \subseteq S \cap (1 .. k - 1)
  BY <1>1
<1>4. IsFiniteSet(S \cap (1 .. k - 1))
  <2>1. IsFiniteSet(S) /\ S \cap (1 .. k - 1) \subseteq S
    BY BelowIs
  <2> QED
    BY <2>1, FS_Subset
<1>5. Below(S, j) <= Below(S, k - 1)
  BY <1>3, <1>4, FS_Subset DEF Below
<1>6. Below(S, j) \in Nat /\ Below(S, k - 1) \in Nat
  BY <1>1, BelowNat
<1> QED
  BY <1>2, <1>5, <1>6

\* Every rank is some member's: there are as many ranks as members.
LEMMA RankExists ==
  ASSUME NEW N \in Nat, NEW S \in SUBSET (1 .. N), NEW n \in 1 .. Cardinality(S)
  PROVE  \E k \in S : Below(S, k) = n
<1> SUFFICES ASSUME \A k \in S : Below(S, k) # n PROVE FALSE
  OBVIOUS
<1> DEFINE c == Cardinality(S)
           T == (1 .. c) \ {n}
           f == [k \in S |-> Below(S, k)]
<1>1. IsFiniteSet(S) /\ c \in Nat
  BY BelowIs
<1>2. IsFiniteSet(T) /\ Cardinality(T) = c - 1
  <2>1. IsFiniteSet(1 .. c) /\ Cardinality(1 .. c) = c /\ n \in 1 .. c
    BY <1>1, UpTo
  <2> QED
    BY <2>1, FS_RemoveElement
<1>3. ASSUME NEW k \in S PROVE Below(S, k) \in T
  <2>1. k \in Nat /\ k >= 1 /\ k - 1 \in Nat
    OBVIOUS
  <2>2. Below(S, k) \in 0 .. c /\ Below(S, k) = Below(S, k - 1) + 1 /\ Below(S, k - 1) \in 0 .. c
    BY <2>1, BelowIs
  <2> QED
    BY <1>1, <2>2
<1>4. f \in [S -> T]
  BY <1>3
<1>5. Cardinality(T) < Cardinality(S)
  BY <1>1, <1>2
<1> HIDE DEF f, T
<1>6. PICK j, k \in S : j # k /\ f[j] = f[k]
  BY <1>1, <1>2, <1>4, <1>5, FS_PigeonHole
<1>7. Below(S, j) = Below(S, k)
  BY <1>6 DEF f
<1>8. j \in Nat /\ k \in Nat /\ Below(S, j) \in Nat
  BY BelowNat
<1>9. j < k \/ k < j
  BY <1>6, <1>8
<1>10. j < k => Below(S, j) < Below(S, k)
  BY BelowGrows
<1>11. k < j => Below(S, k) < Below(S, j)
  BY BelowGrows
<1> QED
  BY <1>7, <1>8, <1>9, <1>10, <1>11

\* And only one member's.
LEMMA RankIsOne ==
  ASSUME NEW N \in Nat, NEW S \in SUBSET (1 .. N), NEW j \in S, NEW k \in S,
         Below(S, j) = Below(S, k)
  PROVE  j = k
<1>1. j \in Nat /\ k \in Nat
  OBVIOUS
<1>4. Below(S, j) \in Nat
  BY <1>1, BelowNat
<1>2. j < k => Below(S, j) < Below(S, k)
  BY BelowGrows
<1>3. k < j => Below(S, k) < Below(S, j)
  BY BelowGrows
<1> QED
  BY <1>1, <1>2, <1>3, <1>4

\* In a set that begins with 1, ..., m the rank of each of these is itself.
LEMMA RankOfPrefix ==
  ASSUME NEW N \in Nat, NEW S \in SUBSET (1 .. N), NEW m \in Nat, 1 .. m \subseteq S,
         NEW k \in 1 .. m
  PROVE  k \in S /\ Below(S, k) = k /\ k <= Cardinality(S)
<1>1. S \cap (1 .. k) = 1 .. k /\ k \in Nat
  OBVIOUS
<1>2. Below(S, k) = k
  BY <1>1, UpTo DEF Below
<1>3. Below(S, k) \in 0 .. Cardinality(S)
  BY <1>1, BelowIs
<1> QED
  BY <1>1, <1>2, <1>3

---------------------------------------------------------------------------
(* What is stored, and what two conversations have in common.               *)

LEMMA ContextsAre == ASSUME NEW s PROVE s \in Contexts <=> s \in Seq(Messages) /\ Len(s) <= MaxLen
<1>1. Contexts = UNION {[1 .. m -> Messages] : m \in 0 .. MaxLen}
  BY DEF Contexts, BoundedSeq, SeqOf, Messages
<1>2. ASSUME s \in Contexts PROVE s \in Seq(Messages) /\ Len(s) <= MaxLen
  <2>1. PICK m \in 0 .. MaxLen : s \in [1 .. m -> Messages]
    BY <1>1, <1>2
  <2>2. s \in Seq(Messages) /\ Len(s) = m
    BY <2>1
  <2> QED
    BY <2>2, StoreAssumption
<1>3. ASSUME s \in Seq(Messages), Len(s) <= MaxLen PROVE s \in Contexts
  <2>1. s \in [1 .. Len(s) -> Messages] /\ Len(s) \in Nat
    BY <1>3
  <2>2. Len(s) \in 0 .. MaxLen
    BY <1>3, <2>1, StoreAssumption
  <2> QED
    BY <1>1, <2>1, <2>2
<1> QED
  BY <1>2, <1>3

LEMMA HeldIs ==
  ASSUME TypeOK
  PROVE  /\ MaxLen \in Nat /\ Held \in SUBSET (1 .. MaxLen)
         /\ IsFiniteSet(Held) /\ Cardinality(Held) \in 0 .. MaxLen
<1>1. MaxLen \in Nat /\ Held \in SUBSET (1 .. MaxLen)
  BY StoreAssumption DEF Held, Idxs
<1>2. IsFiniteSet(Held) /\ Cardinality(Held) \in Nat
  BY <1>1, BelowIs
<1>3. Cardinality(Held) <= MaxLen
  <2>1. IsFiniteSet(1 .. MaxLen) /\ Cardinality(1 .. MaxLen) = MaxLen
    BY <1>1, UpTo
  <2> QED
    BY <1>1, <2>1, FS_Subset
<1> QED
  BY <1>1, <1>2, <1>3

\* What a load returns is a conversation.
LEMMA StoredIs ==
  ASSUME TypeOK
  PROVE  Stored \in Contexts /\ Stored \in Seq(Messages) /\ Len(Stored) = Cardinality(Held)
<1> DEFINE c == Cardinality(Held)
           At(n) == CHOOSE k \in Held : Below(Held, k) = n
<1>1. Stored = [n \in 1 .. c |-> rows[At(n)]]
  BY DEF Stored, Below
<1>2. c \in 0 .. MaxLen /\ MaxLen \in Nat
  BY HeldIs
<1>3. ASSUME NEW n \in 1 .. c PROVE rows[At(n)] \in Messages
  <2>1. \E k \in Held : Below(Held, k) = n
    BY HeldIs, RankExists
  <2>2. At(n) \in Held
    BY <2>1
  <2> HIDE DEF At
  <2> QED
    BY <2>2, StoreAssumption DEF TypeOK, Held, Messages
<1> HIDE DEF At
<1>4. Stored \in [1 .. c -> Messages]
  BY <1>1, <1>3
<1> HIDE DEF c
<1>5. Stored \in Seq(Messages) /\ Len(Stored) = c
  BY <1>2, <1>4
<1>6. Stored \in Contexts
  BY <1>2, <1>5, ContextsAre
<1> QED
  BY <1>5, <1>6 DEF c

\* A conversation whose messages are in the rows heads what is stored.
LEMMA StoredHead ==
  ASSUME TypeOK, NEW s \in Contexts, \A k \in 1 .. Len(s) : rows[k] = s[k]
  PROVE  /\ Len(s) <= Len(Stored)
         /\ \A k \in 1 .. Len(s) : Stored[k] = s[k]
<1>1. s \in Seq(Messages) /\ Len(s) <= MaxLen /\ Len(s) \in Nat
  BY ContextsAre
<1>2. 1 .. Len(s) \subseteq Held
  <2> SUFFICES ASSUME NEW k \in 1 .. Len(s) PROVE k \in Held
    OBVIOUS
  <2>1. k \in 1 .. MaxLen
    BY <1>1, StoreAssumption
  <2>2. s[k] \in Messages
    BY <1>1
  <2> QED
    BY <2>1, <2>2 DEF Held, Idxs, Messages
<1>3. ASSUME NEW k \in 1 .. Len(s) PROVE k <= Cardinality(Held) /\ Stored[k] = rows[k]
  <2>1. k \in Held /\ Below(Held, k) = k /\ k <= Cardinality(Held)
    BY <1>1, <1>2, HeldIs, RankOfPrefix
  <2> DEFINE row == CHOOSE j \in Held : Below(Held, j) = k
  <2>2. row \in Held /\ Below(Held, row) = k
    BY <2>1
  <2> HIDE DEF row
  <2>3. row = k
    BY <2>1, <2>2, HeldIs, RankIsOne
  <2>4. Stored[k] = rows[row]
    BY <2>1, HeldIs DEF Stored, Below, row
  <2> QED
    BY <2>1, <2>3, <2>4
<1>4. Len(s) <= Cardinality(Held)
  <2>1. CASE Len(s) = 0
    BY <2>1, HeldIs
  <2>2. CASE Len(s) # 0
    BY <1>1, <1>3, <2>2
  <2> QED
    BY <2>1, <2>2
<1> QED
  BY <1>3, <1>4, StoredIs

\* And it is all that is stored, when there is no row past its end.
LEMMA StoredAll ==
  ASSUME TypeOK, NEW s \in Contexts, \A k \in 1 .. Len(s) : rows[k] = s[k],
         \A k \in Idxs : k > Len(s) => rows[k] = 0
  PROVE  Stored = s
<1>1. s \in Seq(Messages) /\ Len(s) \in Nat
  BY ContextsAre
<1>2. Held \subseteq 1 .. Len(s)
  BY <1>1, StoreAssumption DEF Held, Idxs
<1>3. Cardinality(Held) <= Len(s)
  <2>1. IsFiniteSet(1 .. Len(s)) /\ Cardinality(1 .. Len(s)) = Len(s)
    BY <1>1, UpTo
  <2> QED
    BY <1>2, <2>1, FS_Subset
<1>4. Len(Stored) = Len(s)
  BY <1>1, <1>3, StoredHead, StoredIs, HeldIs
<1>5. Stored \in Seq(Messages) /\ \A k \in 1 .. Len(s) : Stored[k] = s[k]
  BY StoredIs, StoredHead
<1> QED
  BY <1>1, <1>4, <1>5

\* Two conversations agree as far as their agreement says.
LEMMA AgreementIs ==
  ASSUME NEW s \in Contexts, NEW t \in Contexts
  PROVE  /\ Agreement(s, t) \in 0 .. Len(s) /\ Agreement(s, t) <= Len(t)
         /\ \A k \in 1 .. Agreement(s, t) : s[k] = t[k]
<1> DEFINE A == {n \in 1 .. Len(s) : n <= Len(t) /\ \A k \in 1 .. n : s[k] = t[k]}
           c == Cardinality(A)
<1>1. Len(s) \in Nat /\ Len(t) \in Nat
  BY ContextsAre
<1>2. IsFiniteSet(1 .. Len(s)) /\ Cardinality(1 .. Len(s)) = Len(s)
  BY <1>1, UpTo
<1>3. A \subseteq 1 .. Len(s)
  OBVIOUS
<1>4. c \in 0 .. Len(s)
  <2>1. IsFiniteSet(A) /\ c <= Len(s)
    BY <1>2, <1>3, FS_Subset
  <2>2. c \in Nat
    BY <2>1, FS_CardinalityType
  <2> QED
    BY <1>1, <2>1, <2>2
<1>5. ASSUME NEW k \in 1 .. c PROVE k \in A
  <2> SUFFICES ASSUME k \notin A PROVE FALSE
    OBVIOUS
  <2>1. k \in Nat /\ k >= 1 /\ k - 1 \in Nat /\ k \in 1 .. Len(s)
    BY <1>1, <1>4
  <2>2. A \subseteq 1 .. k - 1
    <3> SUFFICES ASSUME NEW n \in A, n >= k PROVE FALSE
      BY <1>1, <2>1
    <3> QED
      BY <1>1, <2>1
  <2>3. c <= k - 1
    <3>1. IsFiniteSet(1 .. k - 1) /\ Cardinality(1 .. k - 1) = k - 1
      BY <2>1, UpTo
    <3> QED
      BY <2>2, <3>1, FS_Subset
  <2> QED
    BY <1>4, <2>1, <2>3
<1>6. c <= Len(t) /\ \A k \in 1 .. c : s[k] = t[k]
  <2>1. ASSUME c = 0 PROVE c <= Len(t) /\ 1 .. c = {}
    <3> HIDE DEF c
    <3> QED
      BY <1>1, <2>1
  <2>2. CASE c # 0
    <3>1. c \in A
      BY <1>4, <1>5, <2>2
    <3> QED
      BY <3>1
  <2> QED
    BY <2>1, <2>2
<1>7. Agreement(s, t) = c
  BY DEF Agreement
<1> HIDE DEF c
<1> QED
  BY <1>4, <1>6, <1>7

---------------------------------------------------------------------------
(* The state.  A save that is writing repeats what was acknowledged, and does *)
(* not write past its end; so what was acknowledged is in the rows.  The       *)
(* newest save, while no other writes beside it, finds in the store what it     *)
(* has written; and when it was over without company, there is nothing else.   *)
Writing(w) == wpc[w] = "bulk"

Repeats ==
  \A w \in Writers : Writing(w) =>
    /\ Len(acked) <= Len(snap[w]) /\ \A k \in 1 .. Len(acked) : acked[k] = snap[w][k]
    /\ todo[w] \subseteq 0 .. Len(snap[w])

AckedIsStored == \A k \in 1 .. Len(acked) : rows[k] = acked[k]

Wrote(w) ==
  /\ count = Len(snap[w])
  /\ \A k \in 1 .. Len(snap[w]) : k \notin todo[w] => rows[k] = snap[w][k]
  /\ 0 \notin todo[w] => \A k \in Idxs : k > Len(snap[w]) => rows[k] = 0

AloneWrites ==
  last = "alone" =>
    /\ \A v, w \in Writers : Writing(v) /\ Writing(w) => v = w
    /\ \A w \in Writers : Writing(w) => Wrote(w)

Settled ==
  last = "settled" =>
    /\ \A w \in Writers : ~Writing(w)
    /\ count = Len(acked) /\ \A k \in Idxs : k > Len(acked) => rows[k] = 0

StoreInv == TypeOK /\ Repeats /\ AckedIsStored /\ AloneWrites /\ Settled

LEMMA StoreInitInv == Init => StoreInv
<1> SUFFICES ASSUME Init PROVE StoreInv
  OBVIOUS
<1>1. <<>> \in Contexts /\ Len(<<>>) = 0
  <2>1. <<>> \in Seq(Messages) /\ Len(<<>>) = 0 /\ 0 <= MaxLen
    BY StoreAssumption
  <2> QED
    BY <2>1, ContextsAre
<1>2. TypeOK
  <2>1. rows \in [Idxs -> 0 .. MaxMsg] /\ count \in 0 .. MaxLen /\ fresh \in 0 .. MaxMsg
    BY StoreAssumption DEF Init
  <2> QED
    BY <1>1, <2>1 DEF Init, TypeOK
<1>3. Repeats /\ AckedIsStored /\ AloneWrites /\ Settled
  BY <1>1 DEF Init, Repeats, AckedIsStored, AloneWrites, Settled, Writing, Idxs
<1> QED
  BY <1>2, <1>3 DEF StoreInv

\* A step that leaves the store alone, after which no save writes that did not
\* write, the same, before.
LEMMA NoWriteKeeps ==
  ASSUME StoreInv, TypeOK', UNCHANGED <<rows, count, last, acked>>,
         \A w \in Writers : wpc'[w] = "bulk" =>
           wpc[w] = "bulk" /\ snap'[w] = snap[w] /\ todo'[w] = todo[w]
  PROVE  StoreInv'
<1>1. \A w \in Writers : Writing(w)' => Writing(w) /\ (Wrote(w) => Wrote(w)')
  BY DEF Writing, Wrote
<1>2. Repeats'
  BY DEF StoreInv, Repeats, Writing
<1>3. AckedIsStored'
  BY DEF StoreInv, AckedIsStored
<1>4. AloneWrites'
  BY <1>1 DEF StoreInv, AloneWrites
<1>5. Settled'
  BY <1>1 DEF StoreInv, Settled
<1> QED
  BY <1>2, <1>3, <1>4, <1>5 DEF StoreInv

\* Heads of a conversation, and what grows from one, are conversations.
LEMMA SubSeqIs ==
  ASSUME NEW s \in Contexts, NEW n \in 0 .. Len(s)
  PROVE  SubSeq(s, 1, n) \in Contexts /\ Len(SubSeq(s, 1, n)) = n
<1>1. s \in Seq(Messages) /\ Len(s) <= MaxLen /\ Len(s) \in Nat
  BY ContextsAre
<1>2. SubSeq(s, 1, n) \in Seq(Messages) /\ Len(SubSeq(s, 1, n)) = n
  BY <1>1
<1>3. n <= MaxLen
  BY <1>1, StoreAssumption
<1> QED
  BY <1>2, <1>3, ContextsAre

---------------------------------------------------------------------------
LEMMA TurnKeeps ==
  ASSUME StoreInv, Turn
  PROVE  StoreInv'
<1>1. UNCHANGED <<live, wpc, snap, todo, count, rows, loader, last, acked>>
      /\ turning' = TRUE /\ fresh' = fresh + 1 /\ fresh < MaxMsg
  BY DEF Turn, writer, store, history
<1>2. fresh' \in 0 .. MaxMsg /\ fresh + 1 \in Messages
  BY <1>1, StoreAssumption DEF StoreInv, TypeOK, Messages
<1>3. items \in Contexts /\ items \in Seq(Messages) /\ Len(items) \in Nat /\ Len(items) <= MaxLen
  BY ContextsAre DEF StoreInv, TypeOK
<1>4. items' \in Contexts
  <2>1. CASE Append1
    <3>1. items' \in Seq(Messages) /\ Len(items') = Len(items) + 1
      BY <1>2, <1>3, <2>1 DEF Append1
    <3>2. Len(items') <= MaxLen
      BY <1>3, <2>1, <3>1, StoreAssumption DEF Append1
    <3> QED
      BY <3>1, <3>2, ContextsAre
  <2>2. CASE Undo
    <3>1. PICK n \in 0 .. Len(items) - 1 : items' = SubSeq(items, 1, n)
      BY <2>2 DEF Undo
    <3>2. n \in 0 .. Len(items)
      BY <1>3, <3>1
    <3> QED
      BY <1>3, <3>1, <3>2, SubSeqIs
  <2>3. CASE Compact
    <3>1. PICK n \in 2 .. Len(items) :
            items' = <<fresh + 1>> \o SubSeq(items, n + 1, Len(items))
      BY <2>3 DEF Compact
    <3>2. /\ SubSeq(items, n + 1, Len(items)) \in Seq(Messages)
          /\ Len(SubSeq(items, n + 1, Len(items))) = Len(items) - n
      BY <1>3
    <3>3. <<fresh + 1>> \in Seq(Messages) /\ Len(<<fresh + 1>>) = 1
      BY <1>2
    <3>4. items' \in Seq(Messages) /\ Len(items') = 1 + (Len(items) - n)
      BY <3>1, <3>2, <3>3
    <3>5. Len(items') <= MaxLen
      BY <1>3, <3>4, StoreAssumption
    <3> QED
      BY <3>4, <3>5, ContextsAre
  <2> QED
    BY <2>1, <2>2, <2>3 DEF Turn
<1>5. TypeOK'
  BY <1>1, <1>2, <1>4 DEF StoreInv, TypeOK
<1> QED
  BY <1>1, <1>5, NoWriteKeeps

LEMMA CaptureKeeps ==
  ASSUME StoreInv, NEW w \in Writers, NEW taken \in Contexts, Capture(w, taken),
         items' \in Contexts, turning' \in BOOLEAN,
         UNCHANGED <<live, fresh, count, rows, loader, last, acked>>
  PROVE  StoreInv'
<1>1. /\ wpc' = [wpc EXCEPT ![w] = "meta"] /\ snap' = [snap EXCEPT ![w] = taken]
      /\ wpc[w] = "idle" /\ UNCHANGED todo
  BY DEF Capture
<1>2. TypeOK'
  BY <1>1 DEF StoreInv, TypeOK
<1>3. \A v \in Writers : wpc'[v] = "bulk" => wpc[v] = "bulk" /\ snap'[v] = snap[v]
  BY <1>1 DEF StoreInv, TypeOK
<1> QED
  BY <1>1, <1>2, <1>3, NoWriteKeeps

LEMMA SaveBeginKeeps ==
  ASSUME StoreInv, NEW w \in Writers, SaveBegin(w)
  PROVE  StoreInv'
<1>1. Capture(w, items) /\ UNCHANGED <<items, live, fresh, count, rows, loader, last, acked>>
  BY DEF SaveBegin, store, history
<1>2. turning' \in BOOLEAN
  BY DEF SaveBegin, StoreInv, TypeOK
<1>3. items \in Contexts
  BY DEF StoreInv, TypeOK
<1> QED
  BY <1>1, <1>2, <1>3, CaptureKeeps

LEMMA TruncateKeeps ==
  ASSUME StoreInv, Truncate
  PROVE  StoreInv'
<1>1. PICK n \in 0 .. Len(items) - 1 : /\ items' = SubSeq(items, 1, n)
                                       /\ Capture("route", SubSeq(items, 1, n))
  BY DEF Truncate
<1>2. items \in Contexts /\ Len(items) \in Nat
  BY ContextsAre DEF StoreInv, TypeOK
<1>3. SubSeq(items, 1, n) \in Contexts
  <2>1. n \in 0 .. Len(items)
    BY <1>2
  <2> QED
    BY <1>2, <2>1, SubSeqIs
<1>4. UNCHANGED <<live, turning, fresh, count, rows, loader, last, acked>>
  BY DEF Truncate, store, history
<1>5. "route" \in Writers /\ turning' \in BOOLEAN
  BY <1>1, <1>4 DEF Capture, StoreInv, TypeOK
<1> QED
  BY <1>1, <1>3, <1>4, <1>5, CaptureKeeps

\* A save begins to write: what it does not repeat is in doubt from now on.
LEMMA SaveMetaKeeps ==
  ASSUME StoreInv, NEW w \in Writers, SaveMeta(w)
  PROVE  StoreInv'
<1> DEFINE s == snap[w]
<1>1. /\ wpc[w] = "meta" /\ count' = Len(s)
      /\ todo' = [todo EXCEPT ![w] = 0 .. Len(s)]
      /\ wpc' = [wpc EXCEPT ![w] = "bulk"]
      /\ UNCHANGED <<items, live, turning, fresh, snap, rows, loader>>
  BY DEF SaveMeta
<1>2. /\ last' = IF \E v \in Writers \ {w} : wpc[v] = "bulk" THEN "mixed" ELSE "alone"
      /\ acked' = SubSeq(acked, 1, Agreement(acked, s))
  BY DEF SaveMeta, StartsWriting
<1>3. s \in Contexts /\ acked \in Contexts /\ Len(s) \in 0 .. MaxLen /\ 0 .. Len(s) \subseteq 0 .. MaxLen
  <2>1. s \in Contexts /\ acked \in Contexts
    BY DEF StoreInv, TypeOK
  <2>2. Len(s) \in Nat /\ Len(s) <= MaxLen
    BY <2>1, ContextsAre
  <2> HIDE DEF s
  <2> QED
    BY <2>1, <2>2, StoreAssumption
<1> DEFINE a == Agreement(acked, s)
<1>4. a \in 0 .. Len(acked) /\ a <= Len(s) /\ \A k \in 1 .. a : acked[k] = s[k]
  BY <1>3, AgreementIs
<1>5. Len(acked) \in Nat /\ acked \in Seq(Messages)
  BY <1>3, ContextsAre
<1>6. acked' \in Contexts /\ Len(acked') = a
  BY <1>2, <1>3, <1>4, SubSeqIs
<1>7. \A k \in 1 .. a : acked'[k] = acked[k]
  <2> HIDE DEF a, s
  <2> QED
    BY <1>2, <1>4, <1>5 DEF a
<1> HIDE DEF a
<1>8. TypeOK'
  <2>1. todo' \in [Writers -> SUBSET (0 .. MaxLen)] /\ wpc' \in [Writers -> {"idle", "meta", "bulk", "saved"}]
    BY <1>1, <1>3 DEF StoreInv, TypeOK
  <2> HIDE DEF s
  <2> QED
    BY <1>1, <1>2, <1>3, <1>6, <2>1 DEF StoreInv, TypeOK
<1>9. \A v \in Writers \ {w} : wpc'[v] = wpc[v] /\ todo'[v] = todo[v]
  BY <1>1 DEF StoreInv, TypeOK
<1>10. wpc'[w] = "bulk" /\ todo'[w] = 0 .. Len(s)
  BY <1>1 DEF StoreInv, TypeOK
<1>11. Repeats'
  <2> SUFFICES ASSUME NEW v \in Writers, wpc'[v] = "bulk"
               PROVE  /\ a <= Len(snap[v]) /\ \A k \in 1 .. a : acked'[k] = snap[v][k]
                      /\ todo'[v] \subseteq 0 .. Len(snap[v])
    BY <1>1, <1>6 DEF Repeats, Writing
  <2>1. CASE v = w
    BY <1>4, <1>7, <1>10, <2>1
  <2>2. CASE v # w
    <3>1. /\ Len(acked) <= Len(snap[v]) /\ \A k \in 1 .. Len(acked) : acked[k] = snap[v][k]
          /\ todo'[v] \subseteq 0 .. Len(snap[v])
      BY <1>9, <2>2 DEF StoreInv, Repeats, Writing
    <3>2. snap[v] \in Contexts
      BY DEF StoreInv, TypeOK
    <3>3. Len(snap[v]) \in Nat
      BY <3>2, ContextsAre
    <3> HIDE DEF s
    <3> QED
      BY <1>4, <1>5, <1>7, <3>1, <3>3
  <2> QED
    BY <2>1, <2>2
<1>12. AckedIsStored'
  <2>1. \A k \in 1 .. Len(acked) : rows[k] = acked[k]
    BY DEF StoreInv, AckedIsStored
  <2> QED
    BY <1>1, <1>4, <1>5, <1>6, <1>7, <2>1 DEF AckedIsStored
<1>13. AloneWrites'
  <2> SUFFICES ASSUME last' = "alone"
               PROVE  /\ \A v \in Writers : Writing(v)' => v = w
                      /\ Wrote(w)'
    BY DEF AloneWrites
  <2>1. \A v \in Writers \ {w} : wpc[v] # "bulk"
    BY <1>2
  <2>2. Wrote(w)'
    <3>1. \A k \in 1 .. Len(s) : k \in todo'[w]
      BY <1>3, <1>10
    <3>2. 0 \in todo'[w]
      BY <1>3, <1>10
    <3> QED
      BY <1>1, <3>1, <3>2 DEF Wrote
  <2> QED
    BY <1>9, <2>1, <2>2 DEF Writing
<1>14. Settled'
  BY <1>2 DEF Settled
<1> QED
  BY <1>8, <1>11, <1>12, <1>13, <1>14 DEF StoreInv

\* One operation of a bulk write.
LEMMA BulkOpKeeps ==
  ASSUME StoreInv, NEW w \in Writers, NEW k \in 0 .. MaxLen, BulkOp(w, k)
  PROVE  StoreInv'
<1> DEFINE s == snap[w]
           n == Len(snap[w])
<1>1. /\ wpc[w] = "bulk" /\ k \in todo[w]
      /\ rows' = IF k = 0 THEN [j \in Idxs |-> IF j > n THEN 0 ELSE rows[j]]
                          ELSE [rows EXCEPT ![k] = s[k]]
      /\ todo' = [todo EXCEPT ![w] = @ \ {k}]
      /\ UNCHANGED <<items, live, turning, fresh, wpc, snap, count, loader, last, acked>>
  BY DEF BulkOp, history
<1>2. s \in Contexts /\ s \in Seq(Messages) /\ n \in Nat /\ n <= MaxLen /\ MaxLen \in Nat
  BY ContextsAre, StoreAssumption DEF StoreInv, TypeOK
<1>3. /\ Len(acked) <= n /\ \A j \in 1 .. Len(acked) : acked[j] = s[j]
      /\ k \in 0 .. n
  BY <1>1 DEF StoreInv, Repeats, Writing
<1>4. k # 0 => k \in 1 .. n /\ s[k] \in Messages /\ k \in Idxs
  BY <1>2, <1>3 DEF Idxs
<1>5. acked \in Contexts /\ Len(acked) \in Nat
  BY ContextsAre DEF StoreInv, TypeOK
<1> HIDE DEF s, n
<1>6. rows \in [Idxs -> 0 .. MaxMsg] /\ rows' \in [Idxs -> 0 .. MaxMsg]
  <2>1. rows \in [Idxs -> 0 .. MaxMsg]
    BY DEF StoreInv, TypeOK
  <2>2. 0 \in 0 .. MaxMsg /\ Messages \subseteq 0 .. MaxMsg
    BY StoreAssumption DEF Messages
  <2>3. CASE k = 0
    BY <1>1, <2>1, <2>2, <2>3
  <2>4. CASE k # 0
    <3>1. s[k] \in 0 .. MaxMsg
      BY <1>4, <2>2, <2>4
    <3> QED
      BY <1>1, <2>1, <2>4, <3>1
  <2> QED
    BY <2>1, <2>3, <2>4
<1>7. \A j \in Idxs : rows'[j] = IF k = 0 /\ j > n THEN 0 ELSE IF j = k /\ k # 0 THEN s[k] ELSE rows[j]
  BY <1>1, <1>4, <1>6
<1>8. todo' \in [Writers -> SUBSET (0 .. MaxLen)]
      /\ \A v \in Writers : todo'[v] = IF v = w THEN todo[v] \ {k} ELSE todo[v]
  BY <1>1 DEF StoreInv, TypeOK
<1>9. TypeOK'
  BY <1>1, <1>6, <1>8 DEF StoreInv, TypeOK
<1>10. Repeats'
  BY <1>1, <1>8 DEF StoreInv, Repeats, Writing
<1>11. AckedIsStored'
  <2> SUFFICES ASSUME NEW j \in 1 .. Len(acked) PROVE rows'[j] = acked[j]
    BY <1>1 DEF AckedIsStored
  <2>1. j \in Idxs /\ j \in Nat /\ j # 0 /\ ~(j > n)
    BY <1>2, <1>3, <1>5 DEF Idxs
  <2>2. rows[j] = acked[j] /\ acked[j] = s[j]
    BY <1>3 DEF StoreInv, AckedIsStored
  <2> QED
    BY <1>7, <2>1, <2>2
<1>12. AloneWrites'
  <2> SUFFICES ASSUME last = "alone"
               PROVE  /\ \A u, v \in Writers : Writing(u)' /\ Writing(v)' => u = v
                      /\ \A v \in Writers : Writing(v)' => Wrote(v)'
    BY <1>1 DEF AloneWrites
  <2>1. \A u, v \in Writers : Writing(u) /\ Writing(v) => u = v
    BY DEF StoreInv, AloneWrites
  <2>2. \A v \in Writers : Writing(v)' => v = w
    BY <1>1, <2>1 DEF Writing
  <2>3. Wrote(w)
    BY <1>1 DEF StoreInv, AloneWrites, Writing
  <2>4. Wrote(w)'
    <3>1. count' = Len(snap'[w])
      BY <1>1, <2>3 DEF Wrote
    <3>2. ASSUME NEW j \in 1 .. n, j \notin todo'[w] PROVE rows'[j] = s[j]
      <4>1. j \in Idxs /\ ~(j > n)
        BY <1>2 DEF Idxs
      <4>2. CASE j = k
        BY <1>7, <4>1, <4>2
      <4>3. CASE j # k
        <5>1. rows[j] = s[j]
          BY <1>8, <2>3, <3>2, <4>3 DEF Wrote, s, n
        <5> QED
          BY <1>7, <4>1, <4>3, <5>1
      <4> QED
        BY <4>2, <4>3
    <3>3. ASSUME 0 \notin todo'[w], NEW j \in Idxs, j > n PROVE rows'[j] = 0
      <4>1. CASE k = 0
        BY <1>7, <3>3, <4>1
      <4>2. CASE k # 0
        <5>1. rows[j] = 0
          BY <1>8, <2>3, <3>3, <4>2 DEF Wrote, n
        <5>2. j # k
          BY <1>2, <1>4, <3>3, <4>2 DEF Idxs
        <5> QED
          BY <1>7, <4>2, <5>1, <5>2
      <4> QED
        BY <4>1, <4>2
    <3> QED
      BY <1>1, <3>1, <3>2, <3>3 DEF Wrote, s, n
  <2> QED
    BY <2>1, <2>2, <2>4
<1>13. Settled'
  BY <1>1 DEF StoreInv, Settled, Writing
<1> QED
  BY <1>9, <1>10, <1>11, <1>12, <1>13 DEF StoreInv

\* The save of a writer ends, well or not, or the document could not be written.
LEMMA WriterStops ==
  ASSUME StoreInv, NEW w \in Writers, NEW to \in {"idle", "saved"},
         wpc' = [wpc EXCEPT ![w] = to], todo' \in [Writers -> SUBSET (0 .. MaxLen)],
         \A v \in Writers \ {w} : todo'[v] = todo[v],
         UNCHANGED <<items, live, turning, fresh, snap, count, rows, loader>>
  PROVE  /\ last' \in {"alone", "mixed", "settled"} /\ acked' \in Contexts => TypeOK'
         /\ wpc'[w] # "bulk" /\ \A v \in Writers \ {w} : wpc'[v] = wpc[v]
         /\ UNCHANGED <<last, acked>> => StoreInv'
<1>1. last' \in {"alone", "mixed", "settled"} /\ acked' \in Contexts => TypeOK'
  BY DEF StoreInv, TypeOK
<1>2. wpc'[w] # "bulk" /\ \A v \in Writers \ {w} : wpc'[v] = wpc[v]
  BY DEF StoreInv, TypeOK
<1>3. ASSUME UNCHANGED <<last, acked>> PROVE StoreInv'
  <2>1. TypeOK'
    BY <1>1, <1>3 DEF StoreInv, TypeOK
  <2> QED
    BY <1>2, <1>3, <2>1, NoWriteKeeps
<1> QED
  BY <1>1, <1>2, <1>3

LEMMA SaveFailsKeeps ==
  ASSUME StoreInv, NEW w \in Writers, SaveMetaFails(w) \/ BulkFails(w)
  PROVE  StoreInv'
<1>1. PICK to \in {"idle", "saved"} : wpc' = [wpc EXCEPT ![w] = to]
  BY DEF SaveMetaFails, BulkFails, SaveReturns
<1>2. UNCHANGED <<items, live, turning, fresh, snap, count, rows, loader, last, acked>>
  BY DEF SaveMetaFails, BulkFails, SaveReturns, store, history
<1>3. todo' \in [Writers -> SUBSET (0 .. MaxLen)] /\ \A v \in Writers \ {w} : todo'[v] = todo[v]
  BY DEF SaveMetaFails, BulkFails, StoreInv, TypeOK
<1> QED
  BY <1>1, <1>2, <1>3, WriterStops

\* A save that nobody wrote beside has landed as a whole.
LEMMA SaveDoneKeeps ==
  ASSUME StoreInv, NEW w \in Writers, SaveDone(w)
  PROVE  StoreInv'
<1>1. PICK to \in {"idle", "saved"} : wpc' = [wpc EXCEPT ![w] = to]
  BY DEF SaveDone, SaveReturns
<1>2. /\ wpc[w] = "bulk" /\ todo[w] = {}
      /\ UNCHANGED <<items, live, turning, fresh, snap, count, rows, loader, todo>>
  BY DEF SaveDone, SaveReturns, store
<1>3. todo' \in [Writers -> SUBSET (0 .. MaxLen)] /\ \A v \in Writers \ {w} : todo'[v] = todo[v]
  BY <1>2 DEF StoreInv, TypeOK
<1>4. CASE last # "alone"
  <2>1. UNCHANGED <<last, acked>>
    BY <1>4 DEF SaveDone, history
  <2> QED
    BY <1>1, <1>2, <1>3, <2>1, WriterStops
<1>5. CASE last = "alone"
  <2>1. last' = "settled" /\ acked' = snap[w]
    BY <1>5 DEF SaveDone
  <2>2. snap[w] \in Contexts
    BY DEF StoreInv, TypeOK
  <2>3. TypeOK' /\ wpc'[w] # "bulk" /\ \A v \in Writers \ {w} : wpc'[v] = wpc[v]
    BY <1>1, <1>2, <1>3, <2>1, <2>2, WriterStops
  <2>4. Wrote(w) /\ \A v \in Writers : Writing(v) => v = w
    BY <1>2, <1>5 DEF StoreInv, AloneWrites, Writing
  <2>5. \A v \in Writers : ~Writing(v)'
    BY <2>3, <2>4 DEF Writing
  <2>6. Repeats' /\ AloneWrites'
    BY <2>1, <2>5 DEF Repeats, AloneWrites
  <2>7. AckedIsStored' /\ Settled'
    BY <1>2, <2>1, <2>4, <2>5 DEF AckedIsStored, Settled, Wrote
  <2> QED
    BY <2>3, <2>6, <2>7 DEF StoreInv
<1> QED
  BY <1>4, <1>5

LEMMA EvictKeeps ==
  ASSUME StoreInv, Evict
  PROVE  StoreInv'
<1>1. wpc' = [wpc EXCEPT !["reaper"] = "idle"] /\ live' = FALSE
      /\ UNCHANGED <<items, turning, fresh, snap, todo, count, rows, loader, last, acked>>
  BY DEF Evict, store, history
<1>2. TypeOK'
  BY <1>1 DEF StoreInv, TypeOK
<1>3. \A w \in Writers : wpc'[w] = "bulk" => wpc[w] = "bulk"
  BY <1>1 DEF StoreInv, TypeOK
<1> QED
  BY <1>1, <1>2, <1>3, NoWriteKeeps

LEMMA CrashKeeps ==
  ASSUME StoreInv, Crash
  PROVE  StoreInv'
<1>1. /\ wpc' = [w \in Writers |-> "idle"] /\ todo' = [w \in Writers |-> {}]
      /\ live' = FALSE /\ turning' = FALSE /\ loader' = "idle"
      /\ UNCHANGED <<items, fresh, snap, count, rows, last, acked>>
  BY DEF Crash, store, history
<1>2. TypeOK'
  BY <1>1 DEF StoreInv, TypeOK
<1> QED
  BY <1>1, <1>2, NoWriteKeeps

LEMMA LoadKeeps ==
  ASSUME StoreInv, LoadMeta \/ LoadRows
  PROVE  StoreInv'
<1>1. UNCHANGED <<turning, fresh, wpc, snap, todo, count, rows, last, acked>>
  BY DEF LoadMeta, LoadRows, writer, store, history
<1>2. items' \in Contexts /\ live' \in BOOLEAN /\ loader' \in {"idle", "reading"}
  BY StoredIs DEF LoadMeta, LoadRows, StoreInv, TypeOK
<1>3. TypeOK'
  BY <1>1, <1>2 DEF StoreInv, TypeOK
<1> QED
  BY <1>1, <1>3, NoWriteKeeps

LEMMA StoreNextInv == StoreInv /\ [Next]_vars => StoreInv'
<1> SUFFICES ASSUME StoreInv, [Next]_vars PROVE StoreInv'
  OBVIOUS
<1>1. CASE UNCHANGED vars
  <2>1. TypeOK' /\ UNCHANGED <<wpc, snap, todo, count, rows, last, acked>>
    BY <1>1 DEF StoreInv, TypeOK, vars
  <2> QED
    BY <2>1, NoWriteKeeps
<1>2. ASSUME NEW w \in Writers, WriterStep(w) PROVE StoreInv'
  BY <1>2, SaveBeginKeeps, SaveMetaKeeps, BulkOpKeeps, SaveFailsKeeps, SaveDoneKeeps
     DEF WriterStep
<1> QED
  BY <1>1, <1>2, TurnKeeps, TruncateKeeps, EvictKeeps, CrashKeeps, LoadKeeps DEF Next

---------------------------------------------------------------------------
(* What was acknowledged survives, as far as every save begun since repeats it, *)
(* at every moment: whatever overlapping saves of a turn, a route and the        *)
(* reaper, bulk writes that fail halfway, restarts, undos and compactions do.    *)
THEOREM AckedSurvives == Spec => [](TypeOK /\ AckedPrefixSurvives)
<1>1. Init => StoreInv
  BY StoreInitInv
<1>2. StoreInv /\ [Next]_vars => StoreInv'
  BY StoreNextInv
<1>3. StoreInv => TypeOK /\ AckedPrefixSurvives
  <2> SUFFICES ASSUME StoreInv PROVE AckedPrefixSurvives
    BY DEF StoreInv
  <2>1. acked \in Contexts /\ TypeOK
    BY DEF StoreInv, TypeOK
  <2>2. Len(acked) <= Len(Stored) /\ \A k \in 1 .. Len(acked) : Stored[k] = acked[k]
    BY <2>1, StoredHead DEF StoreInv, AckedIsStored
  <2>3. acked \in Seq(Messages) /\ Stored \in Seq(Messages)
    BY <2>1, ContextsAre, StoredIs
  <2>4. SubSeq(acked, 1, Len(acked)) = SubSeq(Stored, 1, Len(acked))
    BY <2>2, <2>3
  <2> QED
    BY <2>2, <2>4 DEF AckedPrefixSurvives, IsPrefix
<1> QED
  BY <1>1, <1>2, <1>3, PTL DEF Spec

(* And what no other save overlapped is exactly what is stored: the delete of    *)
(* what is past the end leaves no message of an older conversation behind.       *)
THEOREM SettledSnapshotIsSaved == Spec => []SettledIsSaved
<1>1. Init => StoreInv
  BY StoreInitInv
<1>2. StoreInv /\ [Next]_vars => StoreInv'
  BY StoreNextInv
<1>3. StoreInv => SettledIsSaved
  <2> SUFFICES ASSUME StoreInv, last = "settled" PROVE Stored = acked /\ count = Len(acked)
    BY DEF SettledIsSaved
  <2>1. acked \in Contexts /\ TypeOK
    BY DEF StoreInv, TypeOK
  <2> QED
    BY <2>1, StoredAll DEF StoreInv, AckedIsStored, Settled
<1> QED
  BY <1>1, <1>2, <1>3, PTL DEF Spec

---------------------------------------------------------------------------
(***************************************************************************)
(* Skills                                                                  *)
(* For any number of requests, sessions, skills and operations: no update   *)
(* of a skill discards another, and once every request is answered no       *)
(* running session lists a skill of its account that is disabled or gone.   *)
(***************************************************************************)

Values == [on : BOOLEAN, uses : Nat, body : Bodies \cup {"none"}]
Operations ==
  [op : Toggles \cup {"delete", "view", "edit", "patch"},
   at : {"look", "lock", "read", "write", "refresh"},
   key : SkillKeys, session : SkillSessions \cup {"none"}, seen : Values]

\* What the state holds, as far as the argument needs it.
Shapes ==
  /\ skill \in [SkillKeys -> Values]
  /\ lockedBy \in [SkillKeys -> Threads \cup {"nobody"}]
  /\ work \in [Threads -> {AtRest} \cup Operations]
  /\ owner \in [SkillSessions -> Users \cup {"none"}]
  /\ registered \subseteq SkillSessions
  /\ \A s \in registered : owner[s] \in Users

\* Before the account is known nobody works on its files, and no session is its.
NotYetKnown ==
  Docker /\ ~accountKnown =>
    /\ \A t \in Threads : work[t] # AtRest => work[t].key[1] = "dev"
    /\ \A s \in SkillSessions : owner[s] # "hub"

\* A thread between its read and its write holds the lock, and what it has read
\* of the account's files is what is there: no other thread writes, and the move
\* of "dev" leaves alone what the account has or works on.
ReadIsCurrent ==
  \A t \in Threads :
    /\ work[t].at \in {"read", "write"} => lockedBy[work[t].key] = t
    /\ work[t].at = "write" /\ work[t].key[1] = "hub" =>
         work[t].seen = skill[work[t].key]

SkillsInv == Shapes /\ NotYetKnown /\ ReadIsCurrent

---------------------------------------------------------------------------
\* The initial states.
LEMMA SkillsInitInv == SkillsInit => SkillsInv
<1> SUFFICES ASSUME SkillsInit PROVE SkillsInv
  OBVIOUS
<1>1. Shapes
  <2>1. skill \in [SkillKeys -> Values]
    <3>1. NoSkill \in Values /\ [on |-> TRUE, uses |-> 0, body |-> "old"] \in Values
      BY DEF Values, NoSkill, Bodies
    <3> QED
      BY <3>1 DEF SkillsInit
  <2>2. work \in [Threads -> {AtRest} \cup Operations]
    BY DEF SkillsInit
  <2>3. lockedBy \in [SkillKeys -> Threads \cup {"nobody"}]
    BY DEF SkillsInit
  <2>4. /\ owner \in [SkillSessions -> Users \cup {"none"}]
        /\ registered \subseteq SkillSessions
        /\ \A s \in registered : owner[s] \in Users
    BY SkillsAssumption DEF SkillsInit, Someone, Users
  <2> QED
    BY <2>1, <2>2, <2>3, <2>4 DEF Shapes
<1>2. NotYetKnown
  BY SkillsAssumption DEF SkillsInit, NotYetKnown, Someone, Users
<1>3. ReadIsCurrent
  BY DEF SkillsInit, ReadIsCurrent, AtRest
<1> QED
  BY <1>1, <1>2, <1>3 DEF SkillsInv

\* The user of a request is one of the two.
LEMMA SomeoneIs == Someone \subseteq Users /\ (Docker /\ ~accountKnown => Someone = {"dev"})
BY DEF Someone, Users

\* An operation begins, without lock and before its read.
LEMMA BeginsInv ==
  ASSUME SkillsInv, NEW t \in Threads, NEW u \in Users, NEW n \in SkillNames,
         NEW op \in Toggles \cup {"delete", "view", "edit", "patch"},
         NEW s \in SkillSessions \cup {"none"},
         Docker /\ ~accountKnown => u = "dev",
         Begins(t, op, u, n, s)
  PROVE  SkillsInv'
<1> DEFINE o == [op |-> op, at |-> IF op = "view" THEN "look" ELSE "lock",
                 key |-> <<u, n>>, session |-> s, seen |-> NoSkill]
<1>1. work' = [work EXCEPT ![t] = o]
  BY DEF Begins
<1>2. o \in Operations
  BY DEF Operations, SkillKeys, Values, NoSkill
<1>3. UNCHANGED <<skill, lockedBy, owner, registered, accountKnown>>
  BY DEF Begins, SessionsSame, IndexSame
<1>4. o.at \notin {"read", "write"} /\ o.key[1] = u
  OBVIOUS
<1> HIDE DEF o
<1>5. Shapes'
  BY <1>1, <1>2, <1>3 DEF SkillsInv, Shapes
<1>6. NotYetKnown' /\ ReadIsCurrent'
  BY <1>1, <1>3, <1>4 DEF SkillsInv, Shapes, NotYetKnown, ReadIsCurrent
<1> QED
  BY <1>5, <1>6 DEF SkillsInv

\* A thread goes on to another place, or comes to rest, and touches no file; at a
\* place between its read and its write it has the lock and knows the file.
LEMMA MovesInv ==
  ASSUME SkillsInv, NEW t \in Threads, NEW o \in {AtRest} \cup Operations,
         work[t] # AtRest, work' = [work EXCEPT ![t] = o],
         o # AtRest => o.key = work[t].key,
         o.at \in {"read", "write"} => lockedBy'[o.key] = t,
         o.at = "write" => o.seen = skill[o.key],
         lockedBy' \in [SkillKeys -> Threads \cup {"nobody"}],
         \A r \in Threads \ {t} :
            work[r].at \in {"read", "write"} => lockedBy'[work[r].key] = r,
         UNCHANGED <<skill, owner, registered, accountKnown>>
  PROVE  SkillsInv'
<1>1. Shapes'
  BY DEF SkillsInv, Shapes
<1>2. NotYetKnown'
  BY DEF SkillsInv, Shapes, NotYetKnown
<1>3. ReadIsCurrent'
  BY DEF SkillsInv, Shapes, ReadIsCurrent, AtRest
<1> QED
  BY <1>1, <1>2, <1>3 DEF SkillsInv

\* The place of an operation changes and nothing else of it.
LEMMA PlaceOf ==
  ASSUME SkillsInv, NEW t \in Threads, work[t].at # "rest",
         NEW stage \in {"look", "lock", "read", "write", "refresh"}
  PROVE  /\ work[t] \in Operations /\ work[t] # AtRest
         /\ [work[t] EXCEPT !.at = stage] \in Operations
         /\ [work[t] EXCEPT !.at = stage].at = stage
         /\ [work[t] EXCEPT !.at = stage].key = work[t].key
         /\ [work EXCEPT ![t].at = stage] = [work EXCEPT ![t] = [work[t] EXCEPT !.at = stage]]
         /\ [work[t] EXCEPT !.at = stage] # AtRest
<1>1. work[t] \in Operations /\ work[t] # AtRest
  BY DEF SkillsInv, Shapes, AtRest
<1>2. [work[t] EXCEPT !.at = stage] \in Operations /\ [work[t] EXCEPT !.at = stage].at = stage
      /\ [work[t] EXCEPT !.at = stage].key = work[t].key
  BY <1>1 DEF Operations
<1>3. [work[t] EXCEPT !.at = stage] # AtRest
  BY <1>2 DEF AtRest
<1>4. [work EXCEPT ![t].at = stage] = [work EXCEPT ![t] = [work[t] EXCEPT !.at = stage]]
  BY DEF SkillsInv, Shapes
<1> QED
  BY <1>1, <1>2, <1>3, <1>4

\* A skill that is missing or disabled is not found.
LEMMA LookInv ==
  ASSUME SkillsInv, NEW t \in Threads, Look(t)
  PROVE  SkillsInv'
<1>1. work[t].at # "rest"
  BY DEF Look
<1>2. UNCHANGED <<skill, lockedBy, owner, registered, accountKnown>>
  BY DEF Look, SessionsSame, IndexSame
<1>3. /\ lockedBy' \in [SkillKeys -> Threads \cup {"nobody"}]
      /\ \A r \in Threads \ {t} :
            work[r].at \in {"read", "write"} => lockedBy'[work[r].key] = r
  BY <1>2 DEF SkillsInv, Shapes, ReadIsCurrent
<1>4. CASE work' = [work EXCEPT ![t].at = "lock"]
  BY <1>1, <1>2, <1>3, <1>4, PlaceOf, MovesInv
<1>5. CASE work' = [work EXCEPT ![t] = AtRest]
  BY <1>1, <1>2, <1>3, <1>5, PlaceOf, MovesInv DEF AtRest
<1> QED
  BY <1>4, <1>5 DEF Look, To, Ends

\* The lock is taken from nobody.
LEMMA LockInv ==
  ASSUME SkillsInv, NEW t \in Threads, Lock(t)
  PROVE  SkillsInv'
<1> DEFINE k == work[t].key
<1>1. work[t].at = "lock" /\ lockedBy[k] = "nobody" /\ work[t] \in Operations
  BY PlaceOf DEF Lock
<1>2. UNCHANGED <<skill, owner, registered, accountKnown>>
  BY DEF Lock, SessionsSame, IndexSame
<1>3. /\ lockedBy' = [lockedBy EXCEPT ![k] = t]
      /\ work' = [work EXCEPT ![t].at = "read"]
  BY DEF Lock, To
<1>4. k \in SkillKeys
  BY <1>1 DEF Operations
<1>5. lockedBy' \in [SkillKeys -> Threads \cup {"nobody"}] /\ lockedBy'[k] = t
  BY <1>3, <1>4 DEF SkillsInv, Shapes
<1>6. \A r \in Threads \ {t} :
         work[r].at \in {"read", "write"} => lockedBy'[work[r].key] = r
  <2> SUFFICES ASSUME NEW r \in Threads \ {t}, work[r].at \in {"read", "write"}
               PROVE  lockedBy'[work[r].key] = r
    OBVIOUS
  <2>1. lockedBy[work[r].key] = r /\ work[r].key \in SkillKeys
    BY PlaceOf DEF SkillsInv, ReadIsCurrent, Operations
  <2>2. CASE work[r].key # k
    BY <1>3, <2>1, <2>2 DEF SkillsInv, Shapes
  <2>3. CASE work[r].key = k
    BY <1>1, <2>1, <2>3, SkillsAssumption DEF Threads
  <2> QED
    BY <2>2, <2>3
<1> DEFINE o == [work[t] EXCEPT !.at = "read"]
<1>7. o \in Operations /\ o.at = "read" /\ o.key = k /\ work' = [work EXCEPT ![t] = o]
  BY <1>1, <1>3, PlaceOf
<1>8. work[t] # AtRest /\ o.at # "write"
  BY <1>1, <1>7 DEF AtRest
<1> HIDE DEF o
<1> QED
  BY <1>2, <1>5, <1>6, <1>7, <1>8, MovesInv

\* Giving the lock back takes it from nobody else.
LEMMA ReleaseOf ==
  ASSUME SkillsInv, NEW t \in Threads, work[t].at \in {"read", "write"},
         lockedBy' = [lockedBy EXCEPT ![work[t].key] = "nobody"]
  PROVE  /\ lockedBy' \in [SkillKeys -> Threads \cup {"nobody"}]
         /\ \A r \in Threads \ {t} :
               work[r].at \in {"read", "write"} =>
                 /\ lockedBy'[work[r].key] = r
                 /\ work[r].key # work[t].key
<1>1. work[t].key \in SkillKeys /\ lockedBy[work[t].key] = t
  BY PlaceOf DEF SkillsInv, ReadIsCurrent, Operations
<1>2. ASSUME NEW r \in Threads \ {t}, work[r].at \in {"read", "write"}
      PROVE  lockedBy'[work[r].key] = r /\ work[r].key # work[t].key
  <2>1. lockedBy[work[r].key] = r /\ work[r].key \in SkillKeys
    BY <1>2, PlaceOf DEF SkillsInv, ReadIsCurrent, Operations
  <2> QED
    BY <1>1, <2>1 DEF SkillsInv, Shapes
<1> QED
  BY <1>1, <1>2 DEF SkillsInv, Shapes

\* The file is read under the lock, or found unusable.
LEMMA ReadInv ==
  ASSUME SkillsInv, NEW t \in Threads, Read(t)
  PROVE  SkillsInv'
<1> DEFINE k == work[t].key
<1>1. work[t].at = "read" /\ work[t] \in Operations /\ work[t] # AtRest
  BY PlaceOf DEF Read
<1>2. k \in SkillKeys /\ skill[k] \in Values
  BY <1>1 DEF Operations, SkillsInv, Shapes
<1>3. UNCHANGED <<skill, owner, registered, accountKnown>>
  BY DEF Read, SessionsSame, IndexSame
<1>4. CASE /\ work' = [work EXCEPT ![t].at = "write", ![t].seen = skill[k]]
           /\ UNCHANGED lockedBy
  <2> DEFINE o == [work[t] EXCEPT !.at = "write", !.seen = skill[k]]
  <2>1. o \in Operations /\ o.at = "write" /\ o.key = k /\ o.seen = skill[k]
    BY <1>1, <1>2 DEF Operations
  <2>2. work' = [work EXCEPT ![t] = o]
    BY <1>4 DEF SkillsInv, Shapes
  <2>3. /\ lockedBy' \in [SkillKeys -> Threads \cup {"nobody"}]
        /\ lockedBy'[k] = t
        /\ \A r \in Threads \ {t} :
              work[r].at \in {"read", "write"} => lockedBy'[work[r].key] = r
    BY <1>1, <1>4 DEF SkillsInv, Shapes, ReadIsCurrent
  <2> HIDE DEF o
  <2> QED
    BY <1>1, <1>3, <2>1, <2>2, <2>3, MovesInv
<1>5. CASE /\ work' = [work EXCEPT ![t] = AtRest]
           /\ lockedBy' = [lockedBy EXCEPT ![k] = "nobody"]
  <2>1. AtRest.at = "rest"
    BY DEF AtRest
  <2>2. /\ lockedBy' \in [SkillKeys -> Threads \cup {"nobody"}]
        /\ \A r \in Threads \ {t} :
              work[r].at \in {"read", "write"} => lockedBy'[work[r].key] = r
    BY <1>1, <1>5, ReleaseOf
  <2> QED
    BY <1>1, <1>3, <1>5, <2>1, <2>2, MovesInv
<1> QED
  BY <1>4, <1>5 DEF Read, Ends

\* What is written differs from what was read in one part, or is new.
LEMMA WrittenIs ==
  ASSUME NEW op \in Toggles \cup {"delete", "view", "edit", "patch"}, NEW seen \in Values,
         NEW new \in Written(op, seen), NEW moved
  PROVE  new \in Values /\ Updated(seen, new, moved)
<1>1. CASE op = "view"
  <2>1. new = [seen EXCEPT !.uses = @ + 1]
    BY <1>1 DEF Written
  <2> QED
    BY <2>1 DEF Values, Updated
<1>2. CASE op \in {"enable", "disable"}
  <2>1. \E b \in BOOLEAN : new = [seen EXCEPT !.on = b]
    BY <1>2 DEF Written
  <2> QED
    BY <2>1 DEF Values, Updated
<1>3. CASE op = "delete"
  <2>1. new = NoSkill
    BY <1>3 DEF Written
  <2> QED
    BY <2>1 DEF Values, NoSkill, Updated
<1>4. CASE op = "edit" /\ seen = NoSkill
  <2>1. \E b \in Bodies : new = [on |-> TRUE, uses |-> 0, body |-> b]
    BY <1>4 DEF Written
  <2> QED
    BY <1>4, <2>1 DEF Values, Updated
<1>5. CASE op = "patch" \/ (op = "edit" /\ seen # NoSkill)
  <2>1. \E b \in Bodies : new = [seen EXCEPT !.body = b]
    BY <1>5 DEF Written, Bodies
  <2> QED
    BY <2>1 DEF Values, Updated
<1>6. CASE op = "edit"
  BY <1>4, <1>5, <1>6
<1>7. CASE op = "patch"
  BY <1>5, <1>7
<1>8. \/ op = "view" \/ op \in {"enable", "disable"} \/ op = "delete"
      \/ op = "edit" \/ op = "patch"
  BY DEF Toggles
<1> QED
  BY <1>1, <1>2, <1>3, <1>6, <1>7, <1>8

\* The file is written and the lock given back.
LEMMA WriteInv ==
  ASSUME SkillsInv, NEW t \in Threads, Write(t)
  PROVE  SkillsInv'
<1> DEFINE k == work[t].key
<1>1. work[t].at = "write" /\ work[t] \in Operations /\ work[t] # AtRest
  BY PlaceOf DEF Write
<1>2. PICK new \in Written(work[t].op, work[t].seen) : skill' = [skill EXCEPT ![k] = new]
  BY DEF Write
<1>3. new \in Values /\ k \in SkillKeys
  BY <1>1, WrittenIs DEF Operations
<1>4. UNCHANGED <<owner, registered, accountKnown>>
  BY DEF Write, SessionsSame, IndexSame
<1>5. lockedBy' = [lockedBy EXCEPT ![k] = "nobody"]
  BY DEF Write
<1>6. PICK o \in {AtRest} \cup Operations :
        /\ work' = [work EXCEPT ![t] = o]
        /\ o.at \notin {"read", "write"}
        /\ o # AtRest => o.key = k
  <2>1. CASE work' = [work EXCEPT ![t] = AtRest]
    BY <2>1 DEF AtRest
  <2>2. CASE work' = [work EXCEPT ![t].at = "refresh"]
    BY <1>1, <2>2, PlaceOf
  <2> QED
    BY <2>1, <2>2 DEF Write, Ends, To
<1>7. /\ lockedBy' \in [SkillKeys -> Threads \cup {"nobody"}]
      /\ \A r \in Threads \ {t} : work[r].at \in {"read", "write"} =>
           lockedBy'[work[r].key] = r /\ work[r].key # k
  BY <1>1, <1>5, ReleaseOf
<1>8. Shapes'
  BY <1>2, <1>3, <1>4, <1>6, <1>7 DEF SkillsInv, Shapes
<1>9. NotYetKnown'
  BY <1>1, <1>4, <1>6 DEF SkillsInv, Shapes, NotYetKnown
<1>10. ReadIsCurrent'
  <2> SUFFICES ASSUME NEW r \in Threads, work'[r].at \in {"read", "write"}
               PROVE  /\ lockedBy'[work'[r].key] = r
                      /\ work'[r].at = "write" /\ work'[r].key[1] = "hub" =>
                           work'[r].seen = skill'[work'[r].key]
    BY DEF ReadIsCurrent
  <2>1. r # t /\ work'[r] = work[r]
    BY <1>6 DEF SkillsInv, Shapes
  <2>2. skill'[work[r].key] = skill[work[r].key]
    BY <1>2, <1>7, <2>1, PlaceOf DEF SkillsInv, Shapes, Operations
  <2> QED
    BY <1>7, <2>1, <2>2 DEF SkillsInv, ReadIsCurrent
<1> QED
  BY <1>8, <1>9, <1>10 DEF SkillsInv

---------------------------------------------------------------------------
\* The prompts: a thread comes to rest, or nothing of the files changes.
LEMMA RefreshInv ==
  ASSUME SkillsInv, RefreshOwn \/ \E t \in SkillRequests : RefreshAll(t)
  PROVE  SkillsInv'
<1>1. PICK t \in Threads : /\ work[t].at = "refresh"
                           /\ work' = [work EXCEPT ![t] = AtRest]
  BY DEF RefreshOwn, RefreshAll, Ends, Threads
<1>2. UNCHANGED <<skill, lockedBy, owner, registered, accountKnown>>
  BY DEF RefreshOwn, RefreshAll, SessionsSame, IndexSame
<1>3. /\ lockedBy' \in [SkillKeys -> Threads \cup {"nobody"}]
      /\ \A r \in Threads \ {t} :
            work[r].at \in {"read", "write"} => lockedBy'[work[r].key] = r
  BY <1>2 DEF SkillsInv, Shapes, ReadIsCurrent
<1>4. work[t] # AtRest /\ AtRest.at = "rest"
  BY <1>1 DEF AtRest
<1> QED
  BY <1>1, <1>2, <1>3, <1>4, MovesInv

\* A session is built for a user there is, and registered when it has one.
LEMMA SessionInv ==
  ASSUME SkillsInv, NEW s \in SkillSessions, Build(s) \/ Registered(s)
  PROVE  SkillsInv'
<1>1. CASE Build(s)
  <2>1. PICK u \in Someone : owner' = [owner EXCEPT ![s] = u]
    BY <1>1 DEF Build
  <2>2. u \in Users /\ (Docker /\ ~accountKnown => u = "dev")
    BY <2>1, SomeoneIs
  <2>3. UNCHANGED <<skill, lockedBy, work, registered, accountKnown>>
    BY <1>1 DEF Build
  <2>4. Shapes'
    BY <2>1, <2>2, <2>3 DEF SkillsInv, Shapes
  <2>5. NotYetKnown' /\ ReadIsCurrent'
    BY <2>1, <2>2, <2>3 DEF SkillsInv, Shapes, NotYetKnown, ReadIsCurrent
  <2> QED
    BY <2>4, <2>5 DEF SkillsInv
<1>2. CASE Registered(s)
  <2>1. Shapes'
    BY <1>2 DEF Registered, SkillsInv, Shapes
  <2>2. NotYetKnown' /\ ReadIsCurrent'
    BY <1>2 DEF Registered, SkillsInv, NotYetKnown, ReadIsCurrent
  <2> QED
    BY <2>1, <2>2 DEF SkillsInv
<1> QED
  BY <1>1, <1>2

\* The move: nobody is at work on the account's files when they come.
LEMMA LoginInv ==
  ASSUME SkillsInv, Login
  PROVE  SkillsInv'
<1>1. Docker /\ ~accountKnown /\ accountKnown'
  BY DEF Login
<1>2. UNCHANGED <<lockedBy, work, owner, registered>>
  BY DEF Login
<1>3. skill' \in [SkillKeys -> Values]
  <2>1. NoSkill \in Values
    BY DEF Values, NoSkill
  <2>2. \A k \in SkillKeys : skill[k] \in Values /\ <<"dev", k[2]>> \in SkillKeys
    BY DEF SkillsInv, Shapes, SkillKeys, Users
  <2> QED
    BY <2>1, <2>2 DEF Login
<1>4. Shapes'
  BY <1>2, <1>3 DEF SkillsInv, Shapes
<1>5. \A t \in Threads : work[t].at = "write" => work[t].key[1] # "hub"
  BY <1>1 DEF SkillsInv, NotYetKnown, AtRest
<1>6. NotYetKnown' /\ ReadIsCurrent'
  BY <1>1, <1>2, <1>5 DEF SkillsInv, NotYetKnown, ReadIsCurrent
<1> QED
  BY <1>4, <1>6 DEF SkillsInv

\* Every step keeps the invariant.
LEMMA SkillsNextInv == SkillsInv /\ [SkillsNext]_skillVars => SkillsInv'
<1> SUFFICES ASSUME SkillsInv, [SkillsNext]_skillVars PROVE SkillsInv'
  OBVIOUS
<1>1. CASE \E n \in SkillNames, t \in SkillRequests : RequestChange(t, n)
  <2> PICK n \in SkillNames, t \in SkillRequests : RequestChange(t, n)
    BY <1>1
  <2>1. PICK op \in Toggles \cup {"delete"}, u \in Someone : Begins(t, op, u, n, "none")
    BY DEF RequestChange
  <2>2. u \in Users /\ (Docker /\ ~accountKnown => u = "dev") /\ t \in Threads
    BY SomeoneIs DEF Threads
  <2> QED
    BY <2>1, <2>2, BeginsInv
<1>2. CASE \E n \in SkillNames, s \in SkillSessions : ToolChange(s, n)
  <2> PICK n \in SkillNames, s \in SkillSessions : ToolChange(s, n)
    BY <1>2
  <2>1. s \in registered
    BY DEF ToolChange
  <2>2. PICK op \in {"view", "edit", "patch"} : Begins("loop", op, owner[s], n, s)
    BY DEF ToolChange
  <2>3. owner[s] \in Users /\ (Docker /\ ~accountKnown => owner[s] = "dev")
    BY <2>1 DEF SkillsInv, Shapes, NotYetKnown, Users
  <2>4. "loop" \in Threads
    BY DEF Threads
  <2> QED
    BY <2>2, <2>3, <2>4, BeginsInv
<1>3. CASE \E t \in Threads : Look(t) \/ Lock(t) \/ Read(t) \/ Write(t)
  BY <1>3, LookInv, LockInv, ReadInv, WriteInv
<1>4. CASE RefreshOwn \/ \E t \in SkillRequests : RefreshAll(t)
  BY <1>4, RefreshInv
<1>5. CASE \E s \in SkillSessions : Build(s) \/ Registered(s)
  BY <1>5, SessionInv
<1>6. CASE Login
  BY <1>6, LoginInv
<1>8. CASE \E s \in SkillSessions : CompactBegins(s) \/ CompactEnds(s)
  <2>1. UNCHANGED <<skill, lockedBy, work, owner, registered, accountKnown>>
    BY <1>8 DEF CompactBegins, CompactEnds
  <2>2. Shapes' /\ NotYetKnown' /\ ReadIsCurrent'
    BY <2>1 DEF SkillsInv, Shapes, NotYetKnown, ReadIsCurrent
  <2> QED
    BY <2>2 DEF SkillsInv
<1>7. CASE UNCHANGED skillVars
  <2>1. Shapes' /\ NotYetKnown' /\ ReadIsCurrent'
    BY <1>7 DEF skillVars, SkillsInv, Shapes, NotYetKnown, ReadIsCurrent
  <2> QED
    BY <2>1 DEF SkillsInv
<1> QED
  BY <1>1, <1>2, <1>3, <1>4, <1>5, <1>6, <1>7, <1>8 DEF SkillsNext

\* What a step may make of one skill of the account.
LEMMA OneUpdate ==
  ASSUME SkillsInv, SkillsNext, NEW n \in SkillNames
  PROVE  Updated(skill[<<"hub", n>>], skill'[<<"hub", n>>], skill[<<"dev", n>>])
<1> DEFINE mine == <<"hub", n>>
<1>0. mine \in SkillKeys /\ mine[1] = "hub" /\ mine[2] = n
  BY DEF SkillKeys, Users
<1>1. CASE UNCHANGED skill
  BY <1>1 DEF Updated
<1>2. CASE \E t \in Threads : Write(t)
  <2> PICK t \in Threads : Write(t)
    BY <1>2
  <2> DEFINE k == work[t].key
  <2>1. work[t].at = "write" /\ work[t] \in Operations
    BY PlaceOf DEF Write
  <2>2. PICK new \in Written(work[t].op, work[t].seen) : skill' = [skill EXCEPT ![k] = new]
    BY DEF Write
  <2>3. CASE k = mine
    <3>1. skill[mine] = work[t].seen
      BY <1>0, <2>1, <2>3 DEF SkillsInv, ReadIsCurrent
    <3>2. skill'[mine] = new
      BY <1>0, <2>2, <2>3 DEF SkillsInv, Shapes
    <3>3. Updated(work[t].seen, new, skill[<<"dev", n>>])
      BY <2>1, WrittenIs DEF Operations
    <3> QED
      BY <3>1, <3>2, <3>3
  <2>4. CASE k # mine
    <3>1. skill'[mine] = skill[mine]
      BY <1>0, <2>2, <2>4 DEF SkillsInv, Shapes
    <3> QED
      BY <3>1 DEF Updated
  <2> QED
    BY <2>3, <2>4
<1>3. CASE Login
  <2>1. \/ skill'[mine] = skill[mine]
        \/ skill[mine] = NoSkill /\ skill'[mine] = skill[<<"dev", n>>]
    <3> HIDE DEF mine
    <3>1. \/ skill'[mine] = skill[mine]
          \/ skill[<<"hub", mine[2]>>] = NoSkill /\ skill'[mine] = skill[<<"dev", mine[2]>>]
      BY <1>0, <1>3 DEF Login
    <3>2. mine = <<"hub", mine[2]>>
      BY <1>0 DEF mine
    <3> QED
      BY <1>0, <3>1, <3>2
  <2> QED
    BY <2>1 DEF Updated
<1> QED
  BY <1>1, <1>2, <1>3 DEF SkillsNext, RequestChange, ToolChange, Begins, Look, Lock,
     Read, RefreshOwn, RefreshAll, Build, Registered, CompactBegins, CompactEnds

(* The lock per file does what its comment says: a step that changes a skill *)
(* of the account changes one part of it, so that no update writes back a    *)
(* part that another has changed since it was read, and a deleted skill stays *)
(* deleted unless it is created anew or moved in.                           *)
THEOREM NoLostUpdate == SkillsSpec => UpdatesAreNotLost
<1>1. SkillsInit => SkillsInv
  BY SkillsInitInv
<1>2. SkillsInv /\ [SkillsNext]_skillVars => SkillsInv'
  BY SkillsNextInv
<1>3. SkillsInv /\ [SkillsNext]_skillVars =>
     [\A n \in SkillNames :
        Updated(skill[<<"hub", n>>], skill'[<<"hub", n>>], skill[<<"dev", n>>])]_skillVars
  BY OneUpdate
<1> QED
  BY <1>1, <1>2, <1>3, PTL DEF SkillsSpec, UpdatesAreNotLost

---------------------------------------------------------------------------
(* The hidden skills.  Requests toggle and delete, tools do neither; and as  *)
(* long as a session that was running lists a skill of the account that is   *)
(* not enabled, some request has yet to refresh the prompts of the account, or *)
(* a compaction has undone the session's newest refresh.                   *)
Roles ==
  /\ \A t \in SkillRequests : work[t] = AtRest \/ work[t].op \in Toggles \cup {"delete"}
  /\ work["loop"] = AtRest \/ work["loop"].op \in {"view", "edit", "patch"}

Refreshing(t) == work[t].at = "refresh" /\ work[t].key[1] = "hub"

Listed == \A s \in RunningSessions \ undone : owner[s] = "hub" => index[s] \subseteq Enabled("hub")

PromptTypes ==
  /\ index \in [SkillSessions -> SUBSET SkillNames]
  /\ held \in [SkillSessions -> (SUBSET SkillNames) \cup {NoPrompt}]

HiddenInv ==
  /\ SkillsInv
  /\ Roles
  /\ RunningSessions \subseteq registered
  /\ PromptTypes
  /\ Listed \/ \E t \in SkillRequests : Refreshing(t)

LEMMA HiddenInitially == SkillsInit => HiddenInv
<1> SUFFICES ASSUME SkillsInit PROVE HiddenInv
  OBVIOUS
<1>1. SkillsInv
  BY SkillsInitInv
<1>2. Roles
  BY DEF SkillsInit, Roles, Threads
<1>3. RunningSessions \subseteq registered
  BY DEF SkillsInit
<1>4. Listed
  BY SkillsAssumption DEF SkillsInit, Listed
<1>5. PromptTypes
  BY DEF SkillsInit, Enabled, PromptTypes
<1> QED
  BY <1>1, <1>2, <1>3, <1>4, <1>5 DEF HiddenInv

\* A request is not the event loop.
LEMMA RequestsAreThreads ==
  SkillRequests \subseteq Threads /\ "loop" \in Threads /\ "loop" \notin SkillRequests
BY SkillsAssumption DEF Threads

\* An operation keeps its kind until it comes to rest, and one that begins has the
\* kind of its thread.
LEMMA RolesKept ==
  ASSUME SkillsInv, Roles, NEW t \in Threads, NEW o \in {AtRest} \cup Operations,
         work' = [work EXCEPT ![t] = o],
         \/ o = AtRest
         \/ work[t] # AtRest /\ o.op = work[t].op
         \/ t = "loop" /\ o.op \in {"view", "edit", "patch"}
         \/ t # "loop" /\ o.op \in Toggles \cup {"delete"}
  PROVE  Roles'
BY RequestsAreThreads DEF SkillsInv, Shapes, Roles

\* A step that leaves alone the prompts, the owners and what is enabled, and takes no
\* request from its refresh, keeps the prompts as they should be.
LEMMA ListedKept ==
  ASSUME HiddenInv, SkillsInv', Roles', UNCHANGED <<owner, index, undone>>, PromptTypes',
         registered \subseteq registered',
         Enabled("hub") \subseteq Enabled("hub")',
         \A t \in SkillRequests : Refreshing(t) => work'[t] = work[t]
  PROVE  HiddenInv'
<1>1. RunningSessions \subseteq registered'
  BY DEF HiddenInv
<1>2. Listed => Listed'
  BY DEF Listed
<1>3. \A t \in SkillRequests : Refreshing(t) => Refreshing(t)'
  BY DEF Refreshing
<1> QED
  BY <1>1, <1>2, <1>3 DEF HiddenInv

\* The enabled skills are skills.
LEMMA EnabledAre == ASSUME NEW u PROVE Enabled(u) \in SUBSET SkillNames
BY DEF Enabled

\* What is enabled, when no file changes.
LEMMA EnabledSame == UNCHANGED skill => Enabled("hub") \subseteq Enabled("hub")'
BY DEF Enabled

LEMMA BeginsHides ==
  ASSUME HiddenInv, NEW t \in Threads, NEW u \in Users, NEW n \in SkillNames,
         NEW op \in Toggles \cup {"delete", "view", "edit", "patch"},
         NEW s \in SkillSessions \cup {"none"},
         Docker /\ ~accountKnown => u = "dev",
         IF t = "loop" THEN op \in {"view", "edit", "patch"} ELSE op \in Toggles \cup {"delete"},
         Begins(t, op, u, n, s)
  PROVE  HiddenInv'
<1> DEFINE o == [op |-> op, at |-> IF op = "view" THEN "look" ELSE "lock",
                 key |-> <<u, n>>, session |-> s, seen |-> NoSkill]
<1>1. work' = [work EXCEPT ![t] = o] /\ work[t] = AtRest
  BY DEF Begins
<1>2. o \in Operations
  BY DEF Operations, SkillKeys, Values, NoSkill
<1>3. UNCHANGED <<skill, owner, registered, index, held, undone>> /\ PromptTypes'
  BY DEF HiddenInv, PromptTypes, Begins, SessionsSame, IndexSame
<1>4. SkillsInv'
  BY BeginsInv DEF HiddenInv
<1>5. o.op = op
  OBVIOUS
<1> HIDE DEF o
<1>6. Roles'
  BY <1>1, <1>2, <1>5, RolesKept DEF HiddenInv
<1>7. \A r \in SkillRequests : Refreshing(r) => work'[r] = work[r]
  BY <1>1, RequestsAreThreads DEF Refreshing, AtRest, HiddenInv, SkillsInv, Shapes
<1> QED
  BY <1>3, <1>4, <1>6, <1>7, ListedKept, EnabledSame

\* An operation goes on, or ends before it has written: no file changes.
LEMMA GoesOnHides ==
  ASSUME HiddenInv, NEW t \in Threads, Look(t) \/ Lock(t) \/ Read(t)
  PROVE  HiddenInv'
<1>1. SkillsInv'
  BY LookInv, LockInv, ReadInv DEF HiddenInv
<1>2. work[t].at \in {"look", "lock", "read"}
  BY DEF Look, Lock, Read
<1>3. UNCHANGED <<skill, owner, registered, index, held, undone>> /\ PromptTypes'
  BY DEF HiddenInv, PromptTypes, Look, Lock, Read, SessionsSame, IndexSame
<1>4. work[t] \in Operations /\ work[t] # AtRest
  BY <1>2, PlaceOf DEF HiddenInv
<1>5. PICK o \in {AtRest} \cup Operations :
        work' = [work EXCEPT ![t] = o] /\ (o = AtRest \/ o.op = work[t].op)
  <2>1. CASE Ends(t)
    BY <2>1 DEF Ends
  <2>2. CASE To(t, "lock") \/ To(t, "read")
    <3>1. PICK stage \in {"lock", "read"} : work' = [work EXCEPT ![t].at = stage]
      BY <2>2 DEF To
    <3>2. [work[t] EXCEPT !.at = stage].op = work[t].op
      BY <1>4 DEF Operations
    <3> QED
      BY <1>2, <3>1, <3>2, PlaceOf DEF HiddenInv
  <2>3. CASE work' = [work EXCEPT ![t].at = "write", ![t].seen = skill[work[t].key]]
    <3> DEFINE q == [work[t] EXCEPT !.at = "write", !.seen = skill[work[t].key]]
    <3>1. skill[work[t].key] \in Values
      BY <1>4 DEF Operations, HiddenInv, SkillsInv, Shapes
    <3>2. q \in Operations /\ q.op = work[t].op
      BY <1>4, <3>1 DEF Operations
    <3>3. work' = [work EXCEPT ![t] = q]
      BY <2>3 DEF HiddenInv, SkillsInv, Shapes
    <3> HIDE DEF q
    <3> QED
      BY <3>2, <3>3
  <2> QED
    BY <2>1, <2>2, <2>3 DEF Look, Lock, Read
<1>6. Roles'
  BY <1>4, <1>5, RolesKept DEF HiddenInv
<1>7. \A r \in SkillRequests : Refreshing(r) => work'[r] = work[r]
  BY <1>2, <1>5, RequestsAreThreads DEF Refreshing, HiddenInv, SkillsInv, Shapes
<1> QED
  BY <1>1, <1>3, <1>6, <1>7, ListedKept, EnabledSame

\* What a tool writes is enabled if what it read was.
LEMMA ToolsKeepOn ==
  ASSUME NEW op \in {"view", "edit", "patch"}, NEW seen \in Values,
         NEW new \in Written(op, seen), seen.on
  PROVE  new.on
<1>1. seen # NoSkill
  BY DEF NoSkill
<1>2. CASE op = "view"
  <2>1. new = [seen EXCEPT !.uses = @ + 1]
    BY <1>2 DEF Written
  <2> QED
    BY <2>1 DEF Values
<1>3. CASE op \in {"edit", "patch"}
  <2>1. \E b \in Bodies : new = [seen EXCEPT !.body = b]
    BY <1>1, <1>3 DEF Written, Bodies
  <2> QED
    BY <2>1 DEF Values
<1> QED
  BY <1>2, <1>3

\* A write: of a tool it hides nothing, of a request a refresh is owed for it.
LEMMA WriteHides ==
  ASSUME HiddenInv, NEW t \in Threads, Write(t)
  PROVE  HiddenInv'
<1> DEFINE k == work[t].key
<1>0. SkillsInv /\ SkillsInv'
  BY WriteInv DEF HiddenInv
<1>1. work[t].at = "write" /\ work[t] \in Operations /\ work[t] # AtRest
  BY <1>0, PlaceOf DEF Write
<1>2. PICK new \in Written(work[t].op, work[t].seen) : skill' = [skill EXCEPT ![k] = new]
  BY DEF Write
<1>3. UNCHANGED <<owner, registered, index, held, undone>> /\ PromptTypes'
  BY DEF HiddenInv, PromptTypes, Write, SessionsSame, IndexSame
<1>4. PICK o \in {AtRest} \cup Operations :
        /\ work' = [work EXCEPT ![t] = o]
        /\ o = AtRest \/ o.op = work[t].op
        /\ work[t].op # "view" => o.at = "refresh" /\ o.key = k
  <2>1. CASE work' = [work EXCEPT ![t] = AtRest] /\ work[t].op = "view"
    BY <2>1
  <2>2. CASE work' = [work EXCEPT ![t].at = "refresh"]
    <3>1. [work[t] EXCEPT !.at = "refresh"].op = work[t].op
      BY <1>1 DEF Operations
    <3> QED
      BY ZenonT(40), <1>0, <1>1, <2>2, <3>1, PlaceOf
  <2> QED
    BY <2>1, <2>2 DEF Write, Ends, To
<1>5. Roles'
  BY <1>1, <1>4, RolesKept DEF HiddenInv
<1>6. \A r \in SkillRequests : Refreshing(r) => work'[r] = work[r]
  BY <1>0, <1>1, <1>4, RequestsAreThreads DEF Refreshing, SkillsInv, Shapes
<1>7. CASE k[1] = "hub" /\ t # "loop"
  <2>1. t \in SkillRequests /\ work[t].op # "view"
    BY <1>1, <1>7 DEF HiddenInv, Roles, Threads, Toggles
  <2>2. Refreshing(t)'
    BY <1>0, <1>4, <1>7, <2>1 DEF Refreshing, SkillsInv, Shapes
  <2> QED
    BY <1>0, <1>3, <1>5, <2>1, <2>2 DEF HiddenInv
<1>8. CASE k[1] # "hub" \/ t = "loop"
  <2>1. ASSUME NEW n \in SkillNames, skill[<<"hub", n>>].on PROVE skill'[<<"hub", n>>].on
    <3>1. <<"hub", n>> \in SkillKeys
      BY DEF SkillKeys, Users
    <3>2. CASE k # <<"hub", n>>
      BY <1>0, <1>2, <2>1, <3>1, <3>2 DEF SkillsInv, Shapes
    <3>3. CASE k = <<"hub", n>>
      <4>1. k[1] = "hub" /\ t = "loop"
        BY <1>8, <3>3
      <4>2. work[t].op \in {"view", "edit", "patch"} /\ work[t].seen \in Values
        BY <1>1, <4>1 DEF HiddenInv, Roles, Operations
      <4>3. work[t].seen = skill[k]
        BY <1>0, <1>1, <4>1 DEF SkillsInv, ReadIsCurrent
      <4>4. new.on
        BY <1>2, <2>1, <3>3, <4>2, <4>3, ToolsKeepOn
      <4> QED
        BY <1>0, <1>2, <3>1, <3>3, <4>4 DEF SkillsInv, Shapes
    <3> QED
      BY <3>2, <3>3
  <2>2. Enabled("hub") \subseteq Enabled("hub")'
    BY <2>1 DEF Enabled
  <2> QED
    BY <1>0, <1>3, <1>5, <1>6, <2>2, ListedKept
<1> QED
  BY <1>7, <1>8

\* A tool refreshes one prompt: it then lists what is enabled.
LEMMA RefreshOwnHides ==
  ASSUME HiddenInv, RefreshOwn
  PROVE  HiddenInv'
<1>0. SkillsInv /\ SkillsInv'
  BY RefreshInv DEF HiddenInv
<1>1. work' = [work EXCEPT !["loop"] = AtRest]
  BY DEF RefreshOwn, Ends
<1>2. UNCHANGED <<skill, owner, registered, held>>
  BY DEF RefreshOwn, SessionsSame, IndexSame
<1>3. Roles'
  BY <1>1, RequestsAreThreads, RolesKept DEF HiddenInv
<1>4. \A r \in SkillRequests : Refreshing(r) => Refreshing(r)'
  BY <1>0, <1>1, RequestsAreThreads DEF Refreshing, SkillsInv, Shapes
<1>5. Enabled("hub")' = Enabled("hub")
  BY <1>2 DEF Enabled
<1>6. Listed => Listed'
  <2> DEFINE w == work["loop"].session
  <2>1. index' = [index EXCEPT ![w] = Enabled(owner[w])] /\ undone' = undone \ {w}
    BY DEF RefreshOwn
  <2> HIDE DEF w
  <2> SUFFICES ASSUME Listed, NEW s \in RunningSessions, s \notin undone', owner[s] = "hub"
               PROVE  index'[s] \subseteq Enabled("hub")
    BY <1>2, <1>5 DEF Listed
  <2>2. CASE s = w
    BY <2>1, <2>2, SkillsAssumption DEF HiddenInv, PromptTypes
  <2>3. CASE s # w
    BY <2>1, <2>3 DEF HiddenInv, PromptTypes, Listed
  <2> QED
    BY <2>2, <2>3
<1>7. PromptTypes'
  BY <1>2, EnabledAre DEF RefreshOwn, HiddenInv, PromptTypes
<1> QED
  BY <1>0, <1>2, <1>3, <1>4, <1>6, <1>7 DEF HiddenInv

\* A request refreshes the prompts of its user, all of them.
LEMMA RefreshAllHides ==
  ASSUME HiddenInv, NEW t \in SkillRequests, RefreshAll(t)
  PROVE  HiddenInv'
<1>0. SkillsInv /\ SkillsInv'
  BY RefreshInv DEF HiddenInv
<1>1. work' = [work EXCEPT ![t] = AtRest]
  BY DEF RefreshAll, Ends
<1>2. UNCHANGED <<skill, owner, registered, held>>
  BY DEF RefreshAll, SessionsSame, IndexSame
<1>3. Roles'
  BY <1>1, RequestsAreThreads, RolesKept DEF HiddenInv
<1>4. Enabled("hub")' = Enabled("hub")
  BY <1>2 DEF Enabled
<1>5. \A s \in RunningSessions : s \in registered /\ s \in SkillSessions
  BY SkillsAssumption DEF HiddenInv
<1>8. PromptTypes'
  BY <1>2, EnabledAre DEF RefreshAll, HiddenInv, PromptTypes
<1>6. CASE work[t].key[1] = "hub"
  <2>1. \A s \in RunningSessions : owner[s] = "hub" => index'[s] = Enabled("hub")
    BY <1>5, <1>6 DEF RefreshAll
  <2>2. Listed'
    BY <1>2, <1>4, <2>1 DEF Listed
  <2> QED
    BY <1>0, <1>2, <1>3, <2>2, <1>8 DEF HiddenInv
<1>7. CASE work[t].key[1] # "hub"
  <2>1. \A s \in RunningSessions :
          owner[s] = "hub" => index'[s] = index[s] /\ (s \in undone => s \in undone')
    BY <1>5, <1>7 DEF RefreshAll
  <2>2. Listed => Listed'
    BY <1>2, <1>4, <2>1 DEF Listed
  <2>3. \A r \in SkillRequests : Refreshing(r) => Refreshing(r)'
    BY <1>0, <1>1, <1>7, RequestsAreThreads DEF Refreshing, SkillsInv, Shapes
  <2> QED
    BY <1>0, <1>2, <1>3, <2>2, <2>3, <1>8 DEF HiddenInv
<1> QED
  BY <1>6, <1>7

\* A session that was running is neither built nor registered again.
LEMMA SessionHides ==
  ASSUME HiddenInv, NEW s \in SkillSessions, Build(s) \/ Registered(s)
  PROVE  HiddenInv'
<1>0. SkillsInv /\ SkillsInv'
  BY SessionInv DEF HiddenInv
<1>1. UNCHANGED <<skill, work>>
  BY DEF Build, Registered
<1>2. Roles'
  BY <1>1 DEF HiddenInv, Roles
<1>3. CASE Build(s)
  <2>1. s \notin RunningSessions
    BY <1>0, <1>3 DEF Build, HiddenInv, SkillsInv, Shapes, Users
  <2>2. \A r \in RunningSessions : owner'[r] = owner[r] /\ index'[r] = index[r]
    BY <1>0, <1>3, <2>1 DEF Build, HiddenInv, PromptTypes, SkillsInv, Shapes
  <2>7. PromptTypes'
    BY <1>3, EnabledAre DEF Build, HiddenInv, PromptTypes
  <2>3. UNCHANGED <<registered, undone>>
    BY <1>3 DEF Build
  <2>4. Enabled("hub")' = Enabled("hub")
    BY <1>1 DEF Enabled
  <2>5. Listed => Listed'
    BY <2>2, <2>3, <2>4 DEF Listed
  <2>6. \A r \in SkillRequests : Refreshing(r) => Refreshing(r)'
    BY <1>1 DEF Refreshing
  <2> QED
    BY <1>0, <1>2, <2>3, <2>5, <2>6, <2>7 DEF HiddenInv
<1>4. CASE Registered(s)
  <2>1. UNCHANGED <<owner, index, undone>> /\ registered \subseteq registered' /\ PromptTypes'
    BY <1>4 DEF Registered, HiddenInv, PromptTypes
  <2> QED
    BY <1>0, <1>1, <1>2, <2>1, ListedKept, EnabledSame
<1> QED
  BY <1>3, <1>4

\* The move gives the account skills and takes none from it.
LEMMA LoginHides ==
  ASSUME HiddenInv, Login
  PROVE  HiddenInv'
<1>0. SkillsInv /\ SkillsInv'
  BY LoginInv DEF HiddenInv
<1>1. UNCHANGED <<work, owner, registered, index, undone>> /\ PromptTypes'
  BY DEF Login, HiddenInv, PromptTypes
<1>2. Roles'
  BY <1>1 DEF HiddenInv, Roles
<1>3. ASSUME NEW n \in SkillNames, skill[<<"hub", n>>].on PROVE skill'[<<"hub", n>>].on
  <2> DEFINE mine == <<"hub", n>>
  <2>1. mine \in SkillKeys /\ mine[1] = "hub" /\ mine[2] = n
    BY DEF SkillKeys, Users
  <2>2. skill[mine] # NoSkill
    BY <1>3 DEF NoSkill
  <2>3. mine = <<"hub", mine[2]>>
    BY <2>1
  <2>4. skill[mine].on
    BY <1>3
  <2> HIDE DEF mine
  <2>5. skill'[mine] = skill[mine]
    BY <2>1, <2>2, <2>3 DEF Login
  <2> QED
    BY <2>4, <2>5 DEF mine
<1>4. Enabled("hub") \subseteq Enabled("hub")'
  BY <1>3 DEF Enabled
<1> QED
  BY <1>0, <1>1, <1>2, <1>4, ListedKept

\* A compaction that puts back another prompt than there is has undone a refresh.
LEMMA CompactHides ==
  ASSUME HiddenInv, NEW s \in SkillSessions, CompactBegins(s) \/ CompactEnds(s)
  PROVE  HiddenInv'
<1>1. UNCHANGED <<skill, lockedBy, work, owner, registered, accountKnown>>
  BY DEF CompactBegins, CompactEnds
<1>2. SkillsInv' /\ Roles'
  BY <1>1 DEF HiddenInv, SkillsInv, Shapes, NotYetKnown, ReadIsCurrent, Roles
<1>3. PromptTypes'
  <2>1. CASE CompactBegins(s)
    BY <2>1 DEF CompactBegins, HiddenInv, PromptTypes
  <2>2. CASE CompactEnds(s)
    BY <2>2 DEF CompactEnds, IndexSame, HiddenInv, PromptTypes
  <2> QED
    BY <2>1, <2>2
<1>4. \A r \in SkillSessions \ undone' : r \notin undone /\ index'[r] = index[r]
  <2>1. CASE UNCHANGED <<index, undone>>
    BY <2>1
  <2>2. CASE /\ index' = [index EXCEPT ![s] = held[s]]
             /\ undone' = IF held[s] = index[s] THEN undone ELSE undone \cup {s}
    BY <2>2 DEF HiddenInv, PromptTypes
  <2> QED
    BY <2>1, <2>2 DEF CompactBegins, CompactEnds, IndexSame
<1>5. Enabled("hub")' = Enabled("hub")
  BY <1>1 DEF Enabled
<1>6. Listed => Listed'
  BY <1>1, <1>4, <1>5, SkillsAssumption DEF Listed
<1>7. \A r \in SkillRequests : Refreshing(r) => Refreshing(r)'
  BY <1>1 DEF Refreshing
<1> QED
  BY <1>1, <1>2, <1>3, <1>6, <1>7 DEF HiddenInv

LEMMA HiddenNextInv == HiddenInv /\ [SkillsNext]_skillVars => HiddenInv'
<1> SUFFICES ASSUME HiddenInv, [SkillsNext]_skillVars PROVE HiddenInv'
  OBVIOUS
<1>0. SkillsInv
  BY DEF HiddenInv
<1>1. ASSUME NEW n \in SkillNames, NEW t \in SkillRequests, RequestChange(t, n)
      PROVE  HiddenInv'
  <2>1. PICK op \in Toggles \cup {"delete"}, u \in Someone : Begins(t, op, u, n, "none")
    BY <1>1 DEF RequestChange
  <2>2. u \in Users /\ (Docker /\ ~accountKnown => u = "dev")
    BY SomeoneIs
  <2>3. t \in Threads /\ t # "loop"
    BY RequestsAreThreads
  <2> QED
    BY <2>1, <2>2, <2>3, BeginsHides
<1>2. ASSUME NEW n \in SkillNames, NEW s \in SkillSessions, ToolChange(s, n)
      PROVE  HiddenInv'
  <2>1. s \in registered
    BY <1>2 DEF ToolChange
  <2>2. PICK op \in {"view", "edit", "patch"} : Begins("loop", op, owner[s], n, s)
    BY <1>2 DEF ToolChange
  <2>3. owner[s] \in Users /\ (Docker /\ ~accountKnown => owner[s] = "dev")
    BY <1>0, <2>1 DEF SkillsInv, Shapes, NotYetKnown, Users
  <2>4. "loop" \in Threads
    BY DEF Threads
  <2> QED
    BY <2>2, <2>3, <2>4, BeginsHides
<1>3. CASE UNCHANGED skillVars
  <2>1. SkillsInv' /\ Roles'
    BY <1>0, <1>3, SkillsNextInv DEF HiddenInv, Roles, skillVars
  <2>2. UNCHANGED <<skill, work, owner, registered, index, undone>> /\ PromptTypes'
    BY <1>3 DEF skillVars, HiddenInv, PromptTypes
  <2> QED
    BY <2>1, <2>2, ListedKept, EnabledSame
<1> QED
  BY <1>1, <1>2, <1>3, GoesOnHides, WriteHides, RefreshOwnHides, RefreshAllHides,
     SessionHides, CompactHides, LoginHides DEF SkillsNext

(* Disabling and deleting take effect on the prompts: once every request is     *)
(* answered, no session that was running lists a skill of its account which is   *)
(* disabled or gone, however requests, tools, new sessions and the move of the   *)
(* files were interleaved, but for the sessions where a compaction that awaited  *)
(* its summary during the refresh has put the older prompt back (undone).     *)
THEOREM DisabledSkillsAreHidden == SkillsSpec => []DisabledIsHidden
<1>1. SkillsInit => HiddenInv
  BY HiddenInitially
<1>2. HiddenInv /\ [SkillsNext]_skillVars => HiddenInv'
  BY HiddenNextInv
<1>3. HiddenInv => DisabledIsHidden
  BY DEF HiddenInv, Listed, Refreshing, DisabledIsHidden, AtRest
<1> QED
  BY <1>1, <1>2, <1>3, PTL DEF SkillsSpec

---------------------------------------------------------------------------
(* The types of the skills.  What is about to be written was a skill when it *)
(* was read, or an edit creates it.                                        *)
Pending ==
  \A t \in Threads : work[t].at = "write" =>
    /\ work[t].seen \in Skill \cup {NoSkill}
    /\ work[t].op = "edit" \/ work[t].seen # NoSkill

SkillsTyped == SkillsInv /\ SkillsTypeOK /\ Pending

LEMMA WritesSkills ==
  ASSUME NEW op \in Toggles \cup {"delete", "view", "edit", "patch"},
         NEW seen \in Skill \cup {NoSkill}, op = "edit" \/ seen # NoSkill,
         NEW new \in Written(op, seen)
  PROVE  new \in Skill \cup {NoSkill}
<1>1. CASE op = "delete"
  BY <1>1 DEF Written
<1>2. CASE op = "edit" /\ seen = NoSkill
  <2>1. PICK b \in Bodies : new = [on |-> TRUE, uses |-> 0, body |-> b]
    BY <1>2 DEF Written
  <2> QED BY <2>1 DEF Skill
<1>3. CASE op # "delete" /\ ~(op = "edit" /\ seen = NoSkill)
  <2>1. seen \in Skill
    BY <1>3
  <2>2. CASE op = "view"
    <3>1. new = [seen EXCEPT !.uses = @ + 1]
      BY <2>2 DEF Written
    <3> QED BY <2>1, <3>1 DEF Skill
  <2>3. CASE op \in {"enable", "disable"}
    <3>1. \E b \in BOOLEAN : new = [seen EXCEPT !.on = b]
      BY <2>3 DEF Written
    <3> QED BY <2>1, <3>1 DEF Skill
  <2>4. CASE op \in {"patch", "edit"}
    <3>1. \E b \in Bodies : new = [seen EXCEPT !.body = b]
      BY <1>3, <2>4 DEF Written, Bodies
    <3> QED BY <2>1, <3>1 DEF Skill
  <2> QED BY <1>3, <2>2, <2>3, <2>4 DEF Toggles
<1> QED BY <1>1, <1>2, <1>3

LEMMA SkillsTypedInitially == SkillsInit => SkillsTyped
<1> SUFFICES ASSUME SkillsInit PROVE SkillsTyped
  OBVIOUS
<1>1. SkillsInv
  BY SkillsInitInv
<1>2. Pending
  BY DEF SkillsInit, Pending, AtRest
<1>3. skill \in [SkillKeys -> Skill \cup {NoSkill}]
  <2>1. [on |-> TRUE, uses |-> 0, body |-> "old"] \in Skill
    BY DEF Skill, Bodies
  <2>2. skill \in [SkillKeys -> {NoSkill, [on |-> TRUE, uses |-> 0, body |-> "old"]}]
    BY DEF SkillsInit
  <2> QED BY <2>1, <2>2
<1>4. /\ index \in [SkillSessions -> SUBSET SkillNames] /\ undone \subseteq SkillSessions
      /\ held \in [SkillSessions -> (SUBSET SkillNames) \cup {NoPrompt}]
  <2>1. \A s \in SkillSessions : Enabled(owner[s]) \subseteq SkillNames
    BY DEF Enabled
  <2> QED BY <2>1 DEF SkillsInit
<1>5. /\ \A t \in Threads : work[t].at = "rest"
      /\ accountKnown \in BOOLEAN /\ changes \in 0 .. MaxChanges
  <2>1. \A t \in Threads : work[t] = AtRest
    BY DEF SkillsInit
  <2>2. accountKnown \in BOOLEAN
    BY DEF SkillsInit
  <2>3. changes = 0
    BY DEF SkillsInit
  <2>4. AtRest.at = "rest"
    BY DEF AtRest
  <2>5. changes \in 0 .. MaxChanges
    <3>1. MaxChanges \in Nat
      BY SkillsAssumption, Zenon
    <3> QED BY <2>3, <3>1
  <2> QED BY <2>1, <2>2, <2>4, <2>5, Zenon
<1> QED BY <1>1, <1>2, <1>3, <1>4, <1>5 DEF SkillsTyped, SkillsTypeOK, SkillsInv, Shapes

\* Beginnings are counted; only building and refreshing set the index.
LEMMA CountersTyped ==
  ASSUME SkillsTyped, [SkillsNext]_skillVars
  PROVE  /\ PromptTypes' /\ undone' \subseteq SkillSessions
         /\ changes' \in 0 .. MaxChanges
         /\ accountKnown' \in BOOLEAN
<1>0. /\ PromptTypes /\ undone \subseteq SkillSessions /\ changes \in 0 .. MaxChanges
      /\ accountKnown \in BOOLEAN /\ MaxChanges \in Nat
      /\ \A u : Enabled(u) \in SUBSET SkillNames
  BY SkillsAssumption DEF SkillsTyped, SkillsTypeOK, PromptTypes, Enabled
<1> DEFINE Prompts == PromptTypes' /\ undone' \subseteq SkillSessions
<1>s. UNCHANGED <<index, held, undone>> => Prompts
  BY <1>0 DEF PromptTypes
<1> HIDE DEF Prompts
<1>1. ASSUME NEW n \in SkillNames, (\E t \in SkillRequests : RequestChange(t, n))
                                   \/ \E s \in SkillSessions : ToolChange(s, n)
      PROVE  /\ UNCHANGED <<index, held, undone, accountKnown>>
             /\ changes < MaxChanges /\ changes' = changes + 1
  BY <1>1 DEF RequestChange, ToolChange, Begins, SessionsSame, IndexSame
<1>2. ASSUME NEW t \in Threads, Look(t) \/ Lock(t) \/ Read(t) \/ Write(t)
      PROVE  UNCHANGED <<index, held, undone, accountKnown, changes>>
  BY <1>2 DEF Look, Lock, Read, Write, SessionsSame, IndexSame
<1>3. CASE RefreshOwn
  <2>1. Prompts
    BY <1>0, <1>3 DEF RefreshOwn, SessionsSame, PromptTypes, Prompts
  <2> QED BY <1>0, <1>3, <2>1 DEF RefreshOwn, SessionsSame, Prompts
<1>4. ASSUME NEW t \in SkillRequests, RefreshAll(t)
      PROVE  Prompts /\ UNCHANGED <<accountKnown, changes>>
  BY <1>0, <1>4 DEF RefreshAll, SessionsSame, PromptTypes, Prompts
<1>5. ASSUME NEW s \in SkillSessions, Build(s) \/ Registered(s)
      PROVE  Prompts /\ UNCHANGED <<accountKnown, changes>>
  BY <1>0, <1>5 DEF Build, Registered, PromptTypes, Prompts
<1>6. CASE Login
  BY <1>0, <1>s, <1>6 DEF Login, Prompts
<1>7. CASE UNCHANGED skillVars
  BY <1>0, <1>s, <1>7 DEF skillVars, Prompts
<1>8. ASSUME NEW s \in SkillSessions, CompactBegins(s)
      PROVE  Prompts /\ UNCHANGED accountKnown /\ changes' \in 0 .. MaxChanges
  BY <1>0, <1>8 DEF CompactBegins, PromptTypes, Prompts
<1>9. ASSUME NEW s \in SkillSessions, CompactEnds(s)
      PROVE  Prompts /\ UNCHANGED <<accountKnown, changes>>
  BY <1>0, <1>9 DEF CompactEnds, IndexSame, PromptTypes, Prompts
<1> QED BY <1>0, <1>s, <1>1, <1>2, <1>3, <1>4, <1>5, <1>6, <1>7, <1>8, <1>9
        DEF SkillsNext, Prompts

\* A thread reads what is a skill, and writes one.
LEMMA FilesTyped ==
  ASSUME SkillsTyped, SkillsInv', [SkillsNext]_skillVars
  PROVE  skill' \in [SkillKeys -> Skill \cup {NoSkill}] /\ Pending'
<1>0. /\ skill \in [SkillKeys -> Skill \cup {NoSkill}] /\ Pending /\ SkillsInv
      /\ work \in [Threads -> {AtRest} \cup Operations]
      /\ AtRest.at = "rest" /\ "loop" \in Threads /\ SkillRequests \subseteq Threads
  BY DEF SkillsTyped, SkillsTypeOK, SkillsInv, Shapes, AtRest, Threads
\* a thread that is not about to write afterwards
<1>1. ASSUME NEW t \in Threads, UNCHANGED skill,
             \E o : work' = [work EXCEPT ![t] = o] /\ o.at # "write"
      PROVE  skill' \in [SkillKeys -> Skill \cup {NoSkill}] /\ Pending'
  BY <1>0, <1>1 DEF Pending
<1>2. ASSUME NEW t \in Threads, NEW op, NEW u, NEW n, NEW s, Begins(t, op, u, n, s)
      PROVE  skill' \in [SkillKeys -> Skill \cup {NoSkill}] /\ Pending'
  <2> DEFINE o == [op |-> op, at |-> IF op = "view" THEN "look" ELSE "lock",
                   key |-> <<u, n>>, session |-> s, seen |-> NoSkill]
  <2>1. work' = [work EXCEPT ![t] = o] /\ o.at # "write" /\ UNCHANGED skill
    BY <1>2 DEF Begins
  <2> HIDE DEF o
  <2> QED BY <1>1, <2>1
<1>3. ASSUME NEW t \in Threads, Look(t) \/ Lock(t)
      PROVE  skill' \in [SkillKeys -> Skill \cup {NoSkill}] /\ Pending'
  <2>1. work[t].at # "rest" /\ UNCHANGED skill
    BY <1>3 DEF Look, Lock
  <2>2. \/ work' = [work EXCEPT ![t] = AtRest]
        \/ \E stage \in {"lock", "read"} : work' = [work EXCEPT ![t].at = stage]
    BY <1>3 DEF Look, Lock, To, Ends
  <2>3. CASE work' = [work EXCEPT ![t] = AtRest]
    BY <1>0, <1>1, <2>1, <2>3
  <2>4. ASSUME NEW stage \in {"lock", "read"}, work' = [work EXCEPT ![t].at = stage]
        PROVE  skill' \in [SkillKeys -> Skill \cup {NoSkill}] /\ Pending'
    <3> DEFINE o == [work[t] EXCEPT !.at = stage]
    <3>1. work' = [work EXCEPT ![t] = o] /\ o.at = stage
      BY <1>0, <2>1, <2>4, PlaceOf
    <3> HIDE DEF o
    <3> QED BY <1>1, <2>1, <3>1
  <2> QED BY <2>2, <2>3, <2>4
<1>4. ASSUME NEW t \in Threads, Read(t)
      PROVE  skill' \in [SkillKeys -> Skill \cup {NoSkill}] /\ Pending'
  <2> DEFINE k == work[t].key
             o == [work[t] EXCEPT !.at = "write", !.seen = skill[k]]
  <2>1. UNCHANGED skill /\ work[t].at = "read"
    BY <1>4 DEF Read
  <2>2. work[t] \in Operations /\ k \in SkillKeys
    BY <1>0, <2>1, PlaceOf DEF Operations
  <2>3. CASE work' = [work EXCEPT ![t] = AtRest]
    BY <1>0, <1>1, <2>1, <2>3
  <2>4. CASE /\ work' = [work EXCEPT ![t].at = "write", ![t].seen = skill[k]]
             /\ CASE work[t].op = "edit" -> TRUE
                  [] work[t].op = "patch" -> skill[k].body = "old"
                  [] OTHER -> skill[k] # NoSkill
    <3>1. o.at = "write" /\ o.seen = skill[k] /\ o.op = work[t].op
      BY <2>2 DEF Operations
    <3>2. work' = [work EXCEPT ![t] = o]
      BY <1>0, <2>4
    <3>3. o.op = "edit" \/ o.seen # NoSkill
      BY <2>4, <3>1 DEF NoSkill
    <3>4. o.seen \in Skill \cup {NoSkill}
      BY <1>0, <2>2, <3>1
    <3> HIDE DEF o
    <3> QED BY <1>0, <2>1, <3>2, <3>3, <3>4 DEF Pending
  <2> QED BY <1>4, <2>3, <2>4 DEF Read, Ends
<1>5. ASSUME NEW t \in Threads, Write(t)
      PROVE  skill' \in [SkillKeys -> Skill \cup {NoSkill}] /\ Pending'
  <2> DEFINE k == work[t].key
  <2>1. work[t].at = "write" /\ work[t] \in Operations
    BY <1>0, <1>5, PlaceOf DEF Write
  <2>2. PICK new \in Written(work[t].op, work[t].seen) : skill' = [skill EXCEPT ![k] = new]
    BY <1>5 DEF Write
  <2>3. new \in Skill \cup {NoSkill}
    BY <1>0, <2>1, WritesSkills DEF Operations, Pending
  <2>4. skill' \in [SkillKeys -> Skill \cup {NoSkill}]
    BY <1>0, <2>2, <2>3
  <2>5. \/ work' = [work EXCEPT ![t] = AtRest]
        \/ work' = [work EXCEPT ![t].at = "refresh"]
    BY <1>5 DEF Write, Ends, To
  <2>6. \E o : work' = [work EXCEPT ![t] = o] /\ o.at # "write"
    BY <1>0, <2>1, <2>5, PlaceOf
  <2> QED BY <1>0, <2>4, <2>6 DEF Pending
<1>6. ASSUME NEW t \in Threads, UNCHANGED skill, Ends(t)
      PROVE  skill' \in [SkillKeys -> Skill \cup {NoSkill}] /\ Pending'
  BY <1>0, <1>1, <1>6 DEF Ends
<1>7. CASE RefreshOwn \/ \E t \in SkillRequests : RefreshAll(t)
  BY <1>0, <1>6, <1>7 DEF RefreshOwn, RefreshAll
<1>8. CASE \/ \E s \in SkillSessions : \/ Build(s) \/ Registered(s)
                                       \/ CompactBegins(s) \/ CompactEnds(s)
           \/ UNCHANGED skillVars
  BY <1>0, <1>8 DEF Build, Registered, CompactBegins, CompactEnds, skillVars, Pending
<1>9. CASE Login
  <2>1. UNCHANGED work
    BY <1>9 DEF Login
  <2>2. \A k \in SkillKeys : skill[k] \in Skill \cup {NoSkill} /\ <<"dev", k[2]>> \in SkillKeys
    BY <1>0 DEF SkillKeys, Users
  <2>3. skill' \in [SkillKeys -> Skill \cup {NoSkill}]
    BY <1>9, <2>2 DEF Login
  <2> QED BY <1>0, <2>1, <2>3 DEF Pending
<1>10. CASE \E n \in SkillNames : \/ \E t \in SkillRequests : RequestChange(t, n)
                                  \/ \E s \in SkillSessions : ToolChange(s, n)
  BY <1>0, <1>2, <1>10 DEF RequestChange, ToolChange
<1> QED BY <1>3, <1>4, <1>5, <1>7, <1>8, <1>9, <1>10 DEF SkillsNext

\* The skills keep their types: only an edit makes a skill where there is none, and
\* what a thread writes was a skill when it was read.
THEOREM SkillsAreTyped == SkillsSpec => []SkillsTypeOK
<1>1. SkillsInit => SkillsTyped
  BY SkillsTypedInitially
<1>2. SkillsTyped /\ [SkillsNext]_skillVars => SkillsTyped'
  <2> SUFFICES ASSUME SkillsTyped, [SkillsNext]_skillVars PROVE SkillsTyped'
    OBVIOUS
  <2>1. SkillsInv'
    BY SkillsNextInv DEF SkillsTyped
  <2>2. \A t \in Threads :
          work'[t].at \in {"rest", "look", "lock", "read", "write", "refresh"}
    BY <2>1 DEF SkillsInv, Shapes, AtRest, Operations
  <2> QED BY <2>1, <2>2, CountersTyped, FilesTyped
          DEF SkillsTyped, SkillsTypeOK, PromptTypes, SkillsInv, Shapes
<1>3. SkillsTyped => SkillsTypeOK
  BY DEF SkillsTyped
<1> QED BY <1>1, <1>2, <1>3, PTL DEF SkillsSpec

---------------------------------------------------------------------------
(***************************************************************************)
(* The parts side by side                                                  *)
(***************************************************************************)

(* The parts of SessionPartsMC share no variable: a step of one leaves those   *)
(* of the others alone, and each keeps its own types, so the types of all     *)
(* hold side by side.                                                      *)
THEOREM SessionPartsAreTyped == PartsSpec => []PartsTypeOK
<1> USE DEF partVars, TurnVars, ToolVars, StoreVars
<1>1. PartsInit =>
        /\ BudgetInit /\ GuardsInit /\ LlmInit /\ EditInit /\ FileInit
        /\ Init /\ SkillsInit /\ ChatInit /\ HubInit
  BY DEF PartsInit
<1>2. [PartsNext]_partVars =>
        [BudgetNext]_budgetVars /\ [GuardsNext]_guardVars /\ [LlmNext]_llmVars
  BY DEF PartsNext
<1>3. [PartsNext]_partVars => [EditNext]_editVars /\ [FileNext]_fileVars
  BY DEF PartsNext
<1>4. [PartsNext]_partVars =>
        [Next]_vars /\ [SkillsNext]_skillVars /\ [ChatNext]_chatVars /\ [HubNext]_hubVars
  BY DEF PartsNext
<1>5. PartsTypeOK <=>
        /\ BudgetTypeOK /\ GuardsTypeOK /\ LlmTypeOK /\ EditTypeOK /\ FileTypeOK
        /\ TypeOK /\ SkillsTypeOK /\ ChatTypeOK /\ HubTypeOK
  BY DEF PartsTypeOK
<1> HIDE DEF partVars, TurnVars, ToolVars, StoreVars
<1>6. PartsSpec =>
        /\ BudgetSpec /\ GuardsSpec /\ LlmSpec /\ EditSpec /\ FileSpec
        /\ Spec /\ SkillsSpec /\ ChatSpec /\ HubSpec
  BY <1>1, <1>2, <1>3, <1>4, PTL
     DEF PartsSpec, BudgetSpec, GuardsSpec, LlmSpec, EditSpec, FileSpec, Spec, SkillsSpec,
         ChatSpec, HubSpec
<1> QED
  BY <1>5, <1>6, CapIsNeverExceeded, RepetitionIsTold, LlmTypeCorrect, EditsAreTyped,
     LocalEditsAreSafe, AckedSurvives, SkillsAreTyped, SavedEventsSurvive, HubIsTyped, PTL
=============================================================================
