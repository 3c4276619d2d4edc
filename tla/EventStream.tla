---------------------------- MODULE EventStream ----------------------------
(***************************************************************************)
(* How the events of a session's turns reach its browsers: Session.send_     *)
(* event and append_event (number, store and queue an event), the            *)
(* EventBroadcaster (fan-out to subscribers), and the two SSE endpoints of   *)
(* backend/routes/agent.py, chat_sse (subscribe, submit, stream) and         *)
(* subscribe_events (replay what was missed, then stream).                   *)
(*                                                                         *)
(* Tools run in parallel, so several send_event calls of a turn overlap.     *)
(* Events are records: n tells them apart, seq is the stored number (0 when  *)
(* storing it failed), turn the submission it belongs to, and last marks     *)
(* those of _TERMINAL_EVENTS.  A turn, a message or a decision, ends with    *)
(* one of them; or with two, when tools were interrupted; or with none, when *)
(* a TimeoutError comes out of it.  Tools that run on after the end of their *)
(* turn go on sending.  The telemetry and tool-log events that background    *)
(* tasks put on their own are left out, and so are undo and compaction,      *)
(* whose events end no stream.                                               *)
(***************************************************************************)
EXTENDS Naturals, Sequences, FiniteSets, SequencesExt

CONSTANTS
  Emitters,  \* send_event calls of a turn that may overlap
  Clients,   \* browser tabs
  NoEvent,   \* of an emitter that is not sending
  MaxTurns,  \* bound: submissions
  MaxChunks, \* bound: events of the turns besides those that end them
  Faults     \* of {"store", "drop", "timeout"}: failing inserts, lost
             \* connections, turns that end with a TimeoutError

ASSUME StreamAssumption ==
  /\ Emitters # {}
  /\ MaxTurns \in Nat /\ MaxChunks \in Nat
  /\ Faults \subseteq {"store", "drop", "timeout"}

VARIABLES
  submitted, \* number of submissions so far
  begun,     \* how many of them the loop has taken
  turn,      \* the submission being executed, 0 if none
  owed,      \* the one that raises, for _run_session to report it, or 0
  astray,    \* those that end with an error and may send more: tools that run
             \* on, or one more error
  silent,    \* history: those that ended without a terminal event
  counter,   \* counters: the last number handed out
  sending,   \* the event of each emitter between its numbering and its put
  rows,      \* session_events: the stored events
  source,    \* session.event_queue
  sent,      \* every event put into it so far, in order
  client     \* each tab: its request, its subscriber queue, what it received

turnVars == <<begun, turn, owed, astray, silent>>
sessionVars == <<submitted, turnVars, counter, sending, rows, source, sent>>
vars == <<sessionVars, client>>

MaxEvents == 2 * MaxTurns + MaxChunks
Event == [n : 1 .. MaxEvents, seq : 0 .. MaxEvents, turn : 1 .. MaxTurns,
          last : BOOLEAN]

\* pc: where the request stands; queue: of its subscription; replay: the
\* replay_events still to be sent; seen: what this stream has delivered; newest:
\* the event it delivered last; after: the last event id (localStorage); since:
\* after as it was in the request; own: the submission a chat stream belongs
\* to, 0 for a re-attached one; known: how many events had been put when it
\* subscribed (chat) or read the stored ones (re-attached)
NewClient == [pc |-> "off", queue |-> <<>>, replay |-> <<>>, seen |-> {},
              newest |-> NoEvent, after |-> 0, since |-> 0, own |-> 0,
              known |-> 0]
Requests == {"off", "subscribed", "streaming", "loading", "loaded", "replaying",
             "ended", "replayed"}
ClientStates ==
  [pc : Requests, queue : Seq(Event), replay : Seq(Event), seen : SUBSET Event,
   newest : Event \cup {NoEvent}, after : 0 .. MaxEvents, since : 0 .. MaxEvents,
   own : 0 .. MaxTurns, known : 0 .. MaxEvents]
\* of a tab between two streams, what stays
Kept(r) == [NewClient EXCEPT !.after = r.after]

TypeOK ==
  /\ submitted \in 0 .. MaxTurns /\ begun \in 0 .. submitted
  /\ turn \in {0, begun} /\ owed \in {0, begun}
  /\ astray \subseteq 1 .. begun /\ silent \subseteq 1 .. begun
  /\ counter \in 0 .. MaxEvents
  /\ sending \in [Emitters -> Event \cup {NoEvent}]
  /\ rows \in SUBSET Event
  /\ source \in Seq(Event) /\ sent \in Seq(Event)
  /\ client \in [Clients -> ClientStates]

Init ==
  /\ submitted = 0 /\ begun = 0 /\ turn = 0 /\ owed = 0 /\ counter = 0
  /\ astray = {} /\ silent = {}
  /\ sending = [e \in Emitters |-> NoEvent]
  /\ rows = {} /\ source = <<>> /\ sent = <<>>
  /\ client = [c \in Clients |-> NewClient]

Subscribed(c) == client[c].pc \in {"subscribed", "streaming", "replaying"}
Sending == {e \in Emitters : sending[e] # NoEvent}
Of(t) == {e \in Sending : sending[e].turn = t}
Ending == \E e \in Sending : sending[e].last
Stored(e) == sending[e] \in rows
\* (bound) what is left of MaxEvents is for the ends of the turns
Room == counter < MaxChunks + 2 * (begun - 1)

---------------------------------------------------------------------------
(* The session: turns and their events                                     *)

\* mutant: the loop runs a turn nobody submitted
TurnStart_Unasked ==
  /\ turn = 0 /\ owed = 0 /\ begun < MaxTurns
  /\ begun' = begun + 1 /\ turn' = begun'
  /\ UNCHANGED <<owed, astray, silent, submitted, counter, sending, rows, source,
                 sent, client>>

\* the loop takes the next submission, in order
TurnStart ==
  /\ turn = 0 /\ owed = 0 /\ begun < submitted
  /\ begun' = begun + 1 /\ turn' = begun'
  /\ UNCHANGED <<owed, astray, silent, submitted, counter, sending, rows, source,
                 sent, client>>

\* _next_seq: send_event has awaited a number for its event of turn t, when the
\* sends of S were cancelled
Number(e, t, last, S) ==
  /\ e \notin Sending /\ counter < MaxEvents
  /\ counter' = counter + 1
  /\ sending' = [f \in Emitters |->
        IF f = e THEN [n |-> counter', seq |-> counter', turn |-> t, last |-> last]
        ELSE IF f \in S THEN NoEvent ELSE sending[f]]
  /\ UNCHANGED <<submitted, begun, turn, silent, rows, source, sent, client>>

\* an event of the running turn, or of tools that an earlier one left behind
Chunk(e) ==
  /\ Room
  /\ \E t \in (astray \cup {turn}) \ {0} :
       /\ t \notin astray => ~Ending
       /\ Number(e, t, FALSE, {})
  /\ UNCHANGED <<owed, astray>>

\* the turn is over when everything in it has returned
Close(e) ==
  /\ turn # 0 /\ owed = 0 /\ Of(turn) = {}
  /\ Number(e, turn, TRUE, {})
  /\ UNCHANGED <<owed, astray>>

\* a call raises: run_agent sends an error, while tools run on.  When the turn is
\* interrupted meanwhile, the clean-up at its end raises, too
Fail(e) ==
  /\ turn # 0 /\ owed = 0 /\ ~Ending
  /\ Number(e, turn, TRUE, {})
  /\ astray' = astray \cup {turn} /\ owed' \in {0, turn}

\* the turn is interrupted while tools run: some are cancelled as they send.  The
\* clean-up raises, for which run_agent sends an error, and once more at its end
Interrupted(e) ==
  /\ turn # 0 /\ owed = 0 /\ ~Ending
  /\ \E S \in SUBSET Of(turn) : Number(e, turn, TRUE, S)
  /\ astray' = astray \cup {turn} /\ owed' = turn

\* an exception comes out of the turn: the clean-up of an interrupted one, after the
\* error of run_agent or, for an interrupted call of the model, without one; or a
\* failing summary
Escape ==
  /\ turn # 0 /\ ~Ending /\ (owed # 0 \/ Of(turn) = {})
  /\ turn' = 0 /\ owed' = turn
  /\ UNCHANGED <<submitted, begun, astray, silent, counter, sending, rows, source,
                 sent, client>>

\* a TimeoutError, which _run_session takes for the one of its queue
Vanish ==
  /\ "timeout" \in Faults
  /\ turn # 0 /\ owed = 0 /\ Of(turn) = {}
  /\ turn' = 0 /\ silent' = silent \cup {turn}
  /\ UNCHANGED <<submitted, begun, owed, astray, counter, sending, rows, source,
                 sent, client>>

\* _run_session sends an error for the exception, when is_processing is reset
Report(e) ==
  /\ owed # 0 /\ turn = 0 /\ ~Ending
  /\ Number(e, owed, TRUE, {})
  /\ UNCHANGED <<owed, astray>>

\* insert_one
Store(e) ==
  /\ e \in Sending /\ sending[e].seq # 0 /\ ~Stored(e)
  /\ rows' = rows \cup {sending[e]}
  /\ UNCHANGED <<submitted, turnVars, counter, sending, source, sent, client>>

\* the send is over; the terminal event of the running turn ends it unless an
\* exception is still to come out of it, the one of _run_session settles that
Sent(e) ==
  /\ sending' = [sending EXCEPT ![e] = NoEvent]
  /\ turn' = IF sending[e].last /\ owed = 0 THEN 0 ELSE turn
  /\ owed' = IF sending[e].last /\ turn = 0 THEN 0 ELSE owed
  /\ UNCHANGED <<submitted, begun, astray, silent, counter, rows, client>>

\* mutant: an event that cannot be stored is not sent either
StoreFails_Returns(e) ==
  /\ "store" \in Faults
  /\ e \in Sending /\ sending[e].seq # 0 /\ ~Stored(e)
  /\ Sent(e)
  /\ UNCHANGED <<source, sent>>

\* append_event returns None: the event goes out without a number
StoreFails(e) ==
  /\ "store" \in Faults
  /\ e \in Sending /\ sending[e].seq # 0 /\ ~Stored(e)
  /\ sending' = [sending EXCEPT ![e].seq = 0]
  /\ UNCHANGED <<submitted, turnVars, counter, rows, source, sent, client>>

\* event_queue.put
Put(e) ==
  /\ e \in Sending /\ (Stored(e) \/ sending[e].seq = 0)
  /\ source' = Append(source, sending[e])
  /\ sent' = Append(sent, sending[e])
  /\ Sent(e)

\* EventBroadcaster.run: one event to every subscriber there is
Broadcast ==
  /\ source # <<>>
  /\ source' = Tail(source)
  /\ client' = [c \in Clients |->
        IF Subscribed(c) THEN [client[c] EXCEPT !.queue = Append(@, Head(source))]
                         ELSE client[c]]
  /\ UNCHANGED <<submitted, turnVars, counter, sending, rows, sent>>

---------------------------------------------------------------------------
(* The browsers                                                            *)

\* what a client does when an event arrives: dispatch in sse-chat-transport
Took(r, ev) == [r EXCEPT !.seen = @ \cup {ev}, !.newest = ev,
                         !.after = IF ev.seq = 0 THEN @ ELSE ev.seq]

\* mutant: the request is submitted first and subscribes afterwards
ChatSubscribe_SubmitsFirst(c) ==
  /\ client[c].pc \in {"off", "ended", "replayed"} /\ submitted < MaxTurns
  /\ submitted' = submitted + 1
  /\ client' = [client EXCEPT ![c] =
        [Kept(client[c]) EXCEPT !.pc = "loaded", !.own = submitted',
                                !.known = Len(sent)]]
  /\ UNCHANGED <<turnVars, counter, sending, rows, source, sent>>

\* chat_sse: subscribe before submitting
ChatSubscribe(c) ==
  /\ client[c].pc \in {"off", "ended", "replayed"}
  /\ client' = [client EXCEPT ![c] =
        [Kept(client[c]) EXCEPT !.pc = "subscribed", !.known = Len(sent)]]
  /\ UNCHANGED sessionVars

\* the quota gate is passed and the message is in the queue
ChatSubmit(c) ==
  /\ client[c].pc = "subscribed" /\ submitted < MaxTurns
  /\ submitted' = submitted + 1
  /\ client' = [client EXCEPT ![c].pc = "streaming", ![c].own = submitted']
  /\ UNCHANGED <<turnVars, counter, sending, rows, source, sent>>

\* the gate or submit refuses: unsubscribe
ChatRefused(c) ==
  /\ client[c].pc = "subscribed"
  /\ client' = [client EXCEPT ![c].pc = "off", ![c].queue = <<>>]
  /\ UNCHANGED sessionVars

\* event_generator: the next event, and the end of the stream after a terminal
Receive(c) ==
  /\ client[c].pc = "streaming" /\ client[c].queue # <<>>
  /\ LET ev == Head(client[c].queue)
         r == [Took(client[c], ev) EXCEPT !.queue = Tail(@)]
     IN client' = [client EXCEPT ![c] =
           IF ev.last THEN [r EXCEPT !.pc = "ended", !.queue = <<>>] ELSE r]
  /\ UNCHANGED sessionVars

\* the connection is lost; the generator's finally unsubscribes
Drop(c) ==
  /\ "drop" \in Faults
  /\ client[c].pc \in {"streaming", "replaying"}
  /\ client' = [client EXCEPT ![c] = Kept(@)]
  /\ UNCHANGED sessionVars

\* the browser is back: GET /session says is_processing, so it re-attaches
Reattach(c) ==
  /\ client[c].pc = "off" /\ turn # 0
  /\ client' = [client EXCEPT ![c].pc = "loading", ![c].since = client[c].after]
  /\ UNCHANGED sessionVars

LaterRows(seq) == {ev \in rows : ev.seq > seq}
\* sorted by number: an event stands where its rank says
Rank(evs, ev) == Cardinality({x \in evs : x.seq <= ev.seq})
BySeq(evs) == [k \in 1 .. Cardinality(evs) |-> CHOOSE ev \in evs : Rank(evs, ev) = k]

Loads(c, evs) ==
  /\ client[c].pc = "loading"
  /\ client' = [client EXCEPT ![c].pc = "loaded", ![c].replay = BySeq(evs),
                              ![c].known = Len(sent)]
  /\ UNCHANGED sessionVars

\* mutant: "after" taken as the first event the client still needs
Load_SkipsOne(c) == Loads(c, LaterRows(client[c].since + 1))

\* subscribe_events: load_events_after
Load(c) == Loads(c, LaterRows(client[c].since))

\* the query has returned: subscribe
Resubscribe(c) ==
  /\ client[c].pc = "loaded"
  /\ client' = [client EXCEPT ![c].pc = "replaying"]
  /\ UNCHANGED sessionVars

\* the stored events first; a terminal one ends the stream
Replay(c) ==
  /\ client[c].pc = "replaying" /\ client[c].replay # <<>>
  /\ LET ev == Head(client[c].replay)
         r == [Took(client[c], ev) EXCEPT !.replay = Tail(@)]
     IN client' = [client EXCEPT ![c] =
           IF ev.last THEN [r EXCEPT !.pc = "replayed", !.queue = <<>>,
                                     !.replay = <<>>]
                      ELSE r]
  /\ UNCHANGED sessionVars

ReplayOver(c) ==
  /\ client[c].pc = "replaying" /\ client[c].replay = <<>>
  /\ client' = [client EXCEPT ![c].pc = "streaming"]
  /\ UNCHANGED sessionVars

---------------------------------------------------------------------------
End(e) == Close(e) \/ Fail(e) \/ Interrupted(e) \/ Escape \/ Vanish
Emit(e) == Chunk(e) \/ End(e) \/ Report(e) \/ Store(e) \/ StoreFails(e) \/ Put(e)
Stream(c) ==
  Receive(c) \/ Load(c) \/ Resubscribe(c) \/ Replay(c) \/ ReplayOver(c)
Browse(c) ==
  ChatSubscribe(c) \/ ChatSubmit(c) \/ ChatRefused(c) \/ Drop(c) \/ Reattach(c)

Next ==
  \/ TurnStart \/ Broadcast
  \/ \E e \in Emitters : Emit(e)
  \/ \E c \in Clients : Stream(c) \/ Browse(c)

Spec == Init /\ [][Next]_vars

\* the event loop runs every ready coroutine: turns end, events are put,
\* broadcast and delivered.  Nobody has to send a message or to come back.
Fairness ==
  /\ WF_vars(TurnStart) /\ WF_vars(Broadcast)
  /\ WF_vars(\E e \in Emitters : End(e)) /\ WF_vars(\E e \in Emitters : Report(e))
  /\ \A e \in Emitters : WF_vars(Store(e) \/ StoreFails(e)) /\ WF_vars(Put(e))
  /\ \A c \in Clients : WF_vars(Stream(c))
FairSpec == Spec /\ Fairness

---------------------------------------------------------------------------
Upto(c) == SelectInSeq(sent, LAMBDA ev : ev = client[c].newest)
Closed(c) == client[c].pc \in {"ended", "replayed"}

\* A chat stream that has ended delivered, up to the event that ended it, all that
\* was put since it subscribed and all of its own turn: nothing is missed while the
\* request is on its way to the loop, whose turn begins after the subscription.  It
\* has delivered the whole of the turn that ended it, too, unless run_agent ended
\* that turn with an error: tools may run on, and an interrupt gives a second error.
EndsCompletely ==
  \A c \in Clients : client[c].own # 0 /\ Closed(c) =>
    LET r == client[c] IN
    \A k \in DOMAIN sent :
      /\ k > r.known \/ sent[k].turn = r.own
      /\ \/ k <= Upto(c)
         \/ sent[k].turn = r.newest.turn /\ r.newest.turn \notin astray
      => sent[k] \in r.seen

\* A stream opened by POST /chat ends ("stream events until turn ends"), also
\* when events cannot be stored, unless the connection is lost; the turn may end
\* with a TimeoutError, which is reported to no one.
ChatStreamEnds ==
  \A c \in Clients :
    client[c].pc = "streaming" /\ client[c].own # 0 ~>
      client[c].pc # "streaming" \/ client[c].own \in silent

\* the events of ks a re-attached stream that has ended should have delivered: those
\* after the client's last event id, up to the one that ended it in the replay
Missed(c, ks) ==
  LET r == client[c] IN
  {k \in ks : /\ sent[k].seq > r.since
              /\ r.pc = "replayed" => sent[k].seq <= r.newest.seq
              /\ sent[k] \notin r.seen}

\* Replay: a re-attached stream that has ended delivered every stored event
\* after the client's last event id that was put before load_events_after read
\* them, in the order of the numbers up to a terminal event among them.
CatchesUp ==
  \A c \in Clients : client[c].own = 0 /\ Closed(c) =>
    Missed(c, 1 .. client[c].known) = {}

(* Promises of comments that the code does not keep (README, section 3).    *)

\* "Durable replay is handled by session_persistence": a re-attached stream
\* that has ended delivered every stored event after the client's last event
\* id, up to the event that ended the stream.
NothingMissed ==
  \A c \in Clients : client[c].own = 0 /\ Closed(c) =>
    Missed(c, 1 .. Upto(c)) = {}

\* chat_sse: "submit input or approval, then stream events until turn ends",
\* the turn being the one submitted.
StreamsOwnTurn ==
  \A c \in Clients : client[c].own # 0 /\ Closed(c) =>
    client[c].newest.turn >= client[c].own

\* chat_sse: "stream events until turn ends": the terminal event that ends the
\* stream of a turn is the last event of that turn.
DeliversWholeTurn ==
  \A c \in Clients : client[c].own # 0 /\ Closed(c) =>
    \A k \in DOMAIN sent :
      sent[k].turn = client[c].own /\ client[c].newest.turn = client[c].own
        => sent[k] \in client[c].seen

\* subscribe_events: "Returns 404 if the session isn't active or isn't
\* processing": the request succeeds only while a turn is running.
AttachesWhileProcessing ==
  [][\A c \in Clients : client[c].pc = "loading" /\ client'[c].pc = "loaded"
                          => turn # 0]_vars
=============================================================================
