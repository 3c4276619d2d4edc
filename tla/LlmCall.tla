------------------------------- MODULE LlmCall -------------------------------
(***************************************************************************)
(* One LLM call of a session: its attempts, the backoff between them, the    *)
(* one-shot repairs of a rejected reasoning effort and of stale thinking      *)
(* signatures, the cache of efforts the session's models accept, and the      *)
(* process-wide key that calls to a custom endpoint borrow.                   *)
(*                                                                         *)
(* Sessions run concurrently in one process and share only that key.  A model *)
(* takes the efforts of its Surface on the wire (others are dropped unsent)   *)
(* and accepts some of them.  What the text says is left out: the client sees  *)
(* of which attempts it was shown some.                                      *)
(***************************************************************************)
EXTENDS Integers, Sequences, FiniteSets, SequencesExt

CONSTANTS
  LlmSessions,
  LlmModels,
  Cascade,   \* the efforts from the highest to the lowest
  Surface,   \* Models -> the efforts the provider's API knows
  Accepts,   \* Models -> the efforts the model accepts; none: it cannot think
  Custom,    \* the models behind the custom endpoint
  ApiKey,    \* Models -> the api_key of its parameters, or "none"
  LlmAttempts,  \* _MAX_LLM_RETRIES, 3
  MaxLlmCalls  \* bound: calls of a session

ASSUME LlmAssumption ==
  /\ Cascade \in Seq(Range(Cascade)) /\ Cascade # <<>>
  /\ {"off", "unset"} \cap Range(Cascade) = {}
  /\ Custom \subseteq LlmModels
  /\ \A m \in LlmModels : Accepts[m] \subseteq Surface[m]
  /\ LlmAttempts \in Nat \ {0} /\ MaxLlmCalls \in Nat

VARIABLES
  model, pref,  \* config.model_name, config.reasoning_effort
  cache,        \* model_effective_effort: "unset", "off" or an effort
  phase,        \* "idle", "ready", "sent", "stream", "probing", "backoff"
  call,         \* the call in progress, or the last one
  stop,         \* the session's cancel event
  key,          \* OPENAI_API_KEY of the process
  saved,        \* the key a call will put back
  calls

llmVars == <<model, pref, cache, phase, call, stop, key, saved, calls>>

Levels == Range(Cascade)

\* a call: whether its session streams, its parameters, the attempt, the attempts
\* whose errors the two one-shot repairs answered (0: not yet), whether its
\* messages hold stale signatures, the attempts that showed text, and how it ended
NewCall(streams, m, e, stale) ==
  [streams |-> streams, model |-> m, effort |-> e, n |-> 1, healed |-> 0,
   resigned |-> 0, stale |-> stale, healing |-> m, shown |-> {}, end |-> "none"]

LlmTypeOK ==
  /\ model \in [LlmSessions -> LlmModels] /\ pref \in [LlmSessions -> Levels \cup {"off"}]
  /\ cache \in [LlmSessions -> [LlmModels -> Levels \cup {"off", "unset"}]]
  /\ \A s \in LlmSessions :
       /\ phase[s] \in {"idle", "ready", "sent", "stream", "probing", "backoff"}
       /\ call[s].n \in 1 .. LlmAttempts
       /\ {call[s].healed, call[s].resigned} \subseteq 0 .. LlmAttempts
       /\ call[s].shown \subseteq 1 .. LlmAttempts
       /\ call[s].end \in {"none", "reply", "stopped", "empty", "error"}
  /\ stop \in [LlmSessions -> BOOLEAN] /\ calls \in [LlmSessions -> 0 .. MaxLlmCalls]

LlmInit ==
  /\ model \in [LlmSessions -> LlmModels] /\ pref = [s \in LlmSessions |-> Cascade[1]]
  /\ cache = [s \in LlmSessions |-> [m \in LlmModels |-> "unset"]]
  /\ phase = [s \in LlmSessions |-> "idle"]
  /\ \E streams \in [LlmSessions -> BOOLEAN] :
       call = [s \in LlmSessions |-> NewCall(streams[s], model[s], "off", FALSE)]
  /\ stop = [s \in LlmSessions |-> FALSE]
  /\ key = "own" /\ saved = [s \in LlmSessions |-> "own"]
  /\ calls = [s \in LlmSessions |-> 0]

---------------------------------------------------------------------------
(* Efforts                                                                 *)

\* effective_effort_for
Effective(s, c, m) == IF c[m] # "unset" THEN c[m] ELSE pref[s]

\* _resolve_llm_params, not strict: what goes on the wire
OnWire(m, e) == IF e \in Surface[m] THEN e ELSE "off"

Rejected(c) == OnWire(c.model, c.effort) \notin Accepts[c.model] \cup {"off"}

\* probe_effort: the first level from the preference down that is accepted
Probed(p, m) ==
  LET from == {i \in DOMAIN Cascade : p \in Levels /\ i >= CHOOSE j \in DOMAIN Cascade :
                                                           Cascade[j] = p}
      good == {i \in from : Cascade[i] \in Accepts[m]}
  IN IF good = {} THEN "off" ELSE Cascade[CHOOSE i \in good : \A j \in good : i <= j]

---------------------------------------------------------------------------
(* The steps of a call                                                     *)

Set(s, p, c) == phase' = [phase EXCEPT ![s] = p] /\ call' = [call EXCEPT ![s] = c]
End(s, how) == Set(s, "idle", [call[s] EXCEPT !.end = how])

\* `continue`: the next attempt, or the loop is used up without a response;
\* streaming then returns an empty result, the other dereferences it
Again(s, c) ==
  IF c.n < LlmAttempts THEN Set(s, "ready", [c EXCEPT !.n = @ + 1])
  ELSE Set(s, "idle", [c EXCEPT !.end = IF c.streams THEN "empty" ELSE "error"])

StartCall(s, stale) ==
  /\ phase[s] = "idle" /\ calls[s] < MaxLlmCalls
  /\ calls' = [calls EXCEPT ![s] = @ + 1]
  /\ Set(s, "ready", NewCall(call[s].streams, model[s],
                             Effective(s, cache[s], model[s]), stale))
  /\ stop' = [stop EXCEPT ![s] = FALSE]
  /\ UNCHANGED <<model, pref, cache, key, saved>>

\* use_custom_inference_openai_key_env goes by the session's model, its key by
\* the call's parameters
Borrows(s) == model[s] \in Custom /\ ApiKey[call[s].model] # "none"

Send(s) ==
  /\ phase[s] = "ready" /\ Set(s, "sent", call[s])
  /\ IF Borrows(s)
     THEN saved' = [saved EXCEPT ![s] = key] /\ key' = ApiKey[call[s].model]
     ELSE saved' = [saved EXCEPT ![s] = "untouched"] /\ UNCHANGED key
  /\ UNCHANGED <<model, pref, cache, stop, calls>>

\* leaving the context manager, on an answer or an exception
PutKeyBack(s) ==
  /\ key' = IF saved[s] # "untouched" THEN saved[s] ELSE key
  /\ saved' = [saved EXCEPT ![s] = "untouched"]

\* nothing in the request is refused
Fine(c) == ~Rejected(c) /\ ~c.stale

\* a refusal may come with the stream, which is then read up to it
Opens(s) ==
  /\ phase[s] = "sent"
  /\ \/ call[s].streams /\ Set(s, "stream", call[s])
     \/ ~call[s].streams /\ Fine(call[s]) /\ End(s, "reply")
  /\ PutKeyBack(s) /\ UNCHANGED <<model, pref, cache, stop, calls>>

\* mutant: the model's name is read again after the probe
Heal_CurrentModel(s, level) ==
  LET m == model[s]
      c == [cache[s] EXCEPT ![call[s].healing] = level]
  IN /\ cache' = [cache EXCEPT ![s] = c]
     /\ Again(s, [call[s] EXCEPT !.healed = call[s].n, !.model = m,
                                 !.effort = Effective(s, c, m)])

\* the end of _heal_effort_and_rebuild_params, for the model it began with
Heal(s, level) ==
  LET m == call[s].healing
      c == [cache[s] EXCEPT ![m] = level]
  IN /\ cache' = [cache EXCEPT ![s] = c]
     /\ Again(s, [call[s] EXCEPT !.healed = call[s].n, !.model = m,
                                 !.effort = Effective(s, c, m)])

\* the exception of a refusal, at the request or while the stream is read: what
\* the client was shown of the attempt is not asked before a repair
Failing(s) == phase[s] \in {"sent", "stream"}

\* an invalid effort is probed for the session's model of this moment
EffortInvalid(s) ==
  /\ Failing(s) /\ Rejected(call[s]) /\ Accepts[call[s].model] # {}
  /\ IF call[s].healed # 0 THEN End(s, "error")
     ELSE Set(s, "probing", [call[s] EXCEPT !.healing = model[s]])
  /\ PutKeyBack(s) /\ UNCHANGED <<model, pref, cache, stop, calls>>

\* a model that cannot think is called without from then on
ThinkingUnsupported(s) ==
  /\ Failing(s) /\ Rejected(call[s]) /\ Accepts[call[s].model] = {}
  /\ IF call[s].healed # 0 THEN End(s, "error") /\ UNCHANGED cache
     ELSE LET c == [cache[s] EXCEPT ![model[s]] = "off"]
          IN /\ cache' = [cache EXCEPT ![s] = c]
             /\ Again(s, [call[s] EXCEPT !.healed = call[s].n, !.model = model[s],
                                         !.effort = "off"])
  /\ PutKeyBack(s) /\ UNCHANGED <<model, pref, stop, calls>>

\* the probe finds the level, is inconclusive, or fails for good
ProbeEnds(s) ==
  /\ phase[s] = "probing"
  /\ \/ \E level \in {Probed(pref[s], call[s].healing), "off"} : Heal(s, level)
     \/ End(s, "error") /\ UNCHANGED cache
  /\ UNCHANGED <<model, pref, stop, key, saved, calls>>

\* the signatures are stripped from this call's messages
SignatureInvalid(s) ==
  /\ Failing(s) /\ ~Rejected(call[s]) /\ call[s].stale
  /\ Again(s, [call[s] EXCEPT !.resigned = call[s].n, !.stale = FALSE])
  /\ PutKeyBack(s) /\ UNCHANGED <<model, pref, cache, stop, calls>>

\* mutant: the client's view does not matter
Retry_Replays(s) ==
  IF call[s].n < LlmAttempts THEN Set(s, "backoff", call[s]) ELSE End(s, "error")

\* a timeout, a lost connection or a rate limit, before or within the answer; an
\* answer that the client has seen some of is not asked for again
Retry(s) ==
  IF call[s].n < LlmAttempts /\ call[s].n \notin call[s].shown
  THEN Set(s, "backoff", call[s]) ELSE End(s, "error")

RequestFails(s) ==
  /\ phase[s] = "sent" /\ PutKeyBack(s)
  /\ Retry(s) \/ End(s, "error")
  /\ UNCHANGED <<model, pref, cache, stop, calls>>

StreamFails(s) ==
  /\ phase[s] = "stream"
  /\ Retry(s) \/ End(s, "error")
  /\ UNCHANGED <<model, pref, cache, stop, key, saved, calls>>

Chunk(s) ==
  /\ phase[s] = "stream"
  /\ IF stop[s] THEN End(s, "stopped")
     ELSE Set(s, "stream", [call[s] EXCEPT !.shown = @ \cup {call[s].n}])
  /\ UNCHANGED <<model, pref, cache, stop, key, saved, calls>>

StreamEnds(s) ==
  /\ phase[s] = "stream" /\ Fine(call[s]) /\ End(s, "reply")
  /\ UNCHANGED <<model, pref, cache, stop, key, saved, calls>>

BackoffOver(s) ==
  /\ phase[s] = "backoff" /\ ~stop[s] /\ Again(s, call[s])
  /\ UNCHANGED <<model, pref, cache, stop, key, saved, calls>>

\* _sleep_or_cancel; `break` with no response, which only streaming survives
BackoffStopped(s) ==
  /\ phase[s] = "backoff" /\ stop[s]
  /\ End(s, IF call[s].streams THEN "stopped" ELSE "error")
  /\ UNCHANGED <<model, pref, cache, stop, key, saved, calls>>

---------------------------------------------------------------------------
(* The user                                                                *)

Stop(s) ==
  /\ phase[s] # "idle" /\ ~stop[s] /\ stop' = [stop EXCEPT ![s] = TRUE]
  /\ UNCHANGED <<model, pref, cache, phase, call, key, saved, calls>>

\* the server's route: at any time
SwitchModel(s, m) ==
  /\ m # model[s] /\ model' = [model EXCEPT ![s] = m]
  /\ UNCHANGED <<pref, cache, phase, call, stop, key, saved, calls>>

\* the command line's /model probes first; /effort forgets what was probed
ProbeAndSwitch(s, m) ==
  /\ phase[s] = "idle" /\ model' = [model EXCEPT ![s] = m]
  /\ \E level \in {"unset", Probed(pref[s], m)} :
       cache' = [cache EXCEPT ![s][m] = level]
  /\ UNCHANGED <<pref, phase, call, stop, key, saved, calls>>

SetEffort(s, e) ==
  /\ phase[s] = "idle" /\ e # pref[s] /\ pref' = [pref EXCEPT ![s] = e]
  /\ cache' = [cache EXCEPT ![s] = [m \in LlmModels |-> "unset"]]
  /\ UNCHANGED <<model, phase, call, stop, key, saved, calls>>

LlmNext ==
  \E s \in LlmSessions :
    \/ \E stale \in BOOLEAN : StartCall(s, stale)
    \/ Send(s) \/ Opens(s) \/ EffortInvalid(s) \/ ThinkingUnsupported(s)
    \/ ProbeEnds(s) \/ SignatureInvalid(s) \/ RequestFails(s) \/ StreamFails(s)
    \/ Chunk(s) \/ StreamEnds(s) \/ BackoffOver(s) \/ BackoffStopped(s) \/ Stop(s)
    \/ \E m \in LlmModels : SwitchModel(s, m) \/ ProbeAndSwitch(s, m)
    \/ \E e \in Levels \cup {"off"} : SetEffort(s, e)

LlmSpec == LlmInit /\ [][LlmNext]_llmVars

---------------------------------------------------------------------------
\* "A fresh attempt would replay text the user can already see": what the client
\* was shown is of the attempt in progress, or of one that a repair cut short (the
\* effort's and the signatures', once each).  A timeout, a lost connection or a
\* rate limit never replays, whatever else failed or was repaired before.
ReplaysForRepairs ==
  \A s \in LlmSessions :
    call[s].shown \subseteq {call[s].n, call[s].healed, call[s].resigned}

\* The one repair of the effort is enough: what is sent after it is not rejected
\* for its effort, although the probe awaits while models are switched.
HealSuffices ==
  \A s \in LlmSessions : phase[s] \in {"ready", "sent", "stream"}
                        /\ call[s].healed # 0 => ~Rejected(call[s])

(* Promises of comments that the code does not keep (README, section 3).    *)

\* "Once a chunk has been forwarded to the client we stop retrying": text of one
\* attempt only is shown.
SeenOnce == \A s \in LlmSessions : Cardinality(call[s].shown) <= 1

\* "Set OPENAI_API_KEY for the duration of a LiteLLM call": between calls the
\* process has its own key.
KeyIsPutBack == (\A s \in LlmSessions : phase[s] # "sent") => key = "own"

\* "Mirroring the key ... for the await": a call to the endpoint runs with it.
KeyIsMirrored ==
  \A s \in LlmSessions : phase[s] = "sent" /\ saved[s] # "untouched"
                        => key = ApiKey[call[s].model]

\* a call that ends well has an answer
NeverEmpty == \A s \in LlmSessions : call[s].end # "empty"

\* a cached effort is the best the model accepts
CacheIsBest ==
  \A s \in LlmSessions : \A m \in LlmModels :
    cache[s][m] \in {"unset", Probed(pref[s], m)}
=============================================================================
