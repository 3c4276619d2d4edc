--------------------------- MODULE EventStream_proofs ---------------------------
(***************************************************************************)
(* A chat stream that has ended delivered its turn, and a re-attached stream *)
(* what was stored before it, for any number of tabs, turns, events and tools *)
(* that send at the same time.                                             *)
(*                                                                         *)
(* Three facts meet when a chat stream ends.  The session's: the last event of a *)
(* turn whose tools have all returned is put when nothing else of it is being    *)
(* sent, and nothing of it follows (InOrder).  The stream's: what has been put and *)
(* is neither delivered nor older than the subscription waits, in order, in the  *)
(* tab's queue and the broadcaster's (Waiting).  The request's: what is older is  *)
(* of the turns before its own (Fresh).                                    *)
(*                                                                         *)
(* Of a re-attached stream the second fact is another (CatchTab): what was put *)
(* when the stored events were read is delivered, in the replay that is left, or *)
(* has a greater number than the event that ended the stream in the replay.      *)
(***************************************************************************)
EXTENDS EventStream, TLAPS, FiniteSetTheorems

Events == [n : Nat, seq : Nat, turn : Nat, last : BOOLEAN]

\* a tab has the fields of NewClient
Tab(r) ==
  r = [pc |-> r.pc, queue |-> r.queue, replay |-> r.replay, seen |-> r.seen,
       newest |-> r.newest, after |-> r.after, since |-> r.since, own |-> r.own,
       known |-> r.known]

StreamTypes ==
  /\ submitted \in Nat /\ begun \in Nat /\ turn \in Nat /\ owed \in Nat
  /\ counter \in Nat
  /\ sending \in [Emitters -> Events \cup {NoEvent}]
  /\ source \in Seq(Events) /\ sent \in Seq(Events)
  /\ DOMAIN client = Clients /\ client = [c \in Clients |-> client[c]]
  /\ \A c \in Clients :
       /\ Tab(client[c]) /\ client[c].queue \in Seq(Events)
       /\ client[c].known \in Nat /\ client[c].own \in Nat

\* the turn that runs, and the one that raises, is the newest; only turns whose
\* tools run on send besides it.  A last event is the turn's or the report's, there is
\* one at a time, and it is alone in its turn when no tools run on there.
Turns ==
  /\ begun <= submitted /\ turn \in {0, begun} /\ owed \in {0, begun}
  /\ astray \subseteq 1 .. begun
  /\ turn # 0 /\ owed # 0 => turn \in astray
Sends ==
  /\ \A e \in Sending :
       /\ sending[e].turn \in 1 .. begun
       /\ sending[e].turn \in astray \/ sending[e].turn = turn \/ sending[e].last
       /\ sending[e].last => sending[e].turn = IF turn # 0 THEN turn ELSE owed
  /\ \A e, f \in Sending :
       /\ sending[e].last /\ sending[f].last => e = f
       /\ /\ sending[e].last /\ sending[e].turn \notin astray
          /\ sending[f].turn = sending[e].turn
          => e = f

\* what follows the last event of a turn where no tools run on is of other turns,
\* and the turn is over
InOrder ==
  \A i \in DOMAIN sent :
    /\ sent[i].turn \in 1 .. begun
    /\ sent[i].last /\ sent[i].turn \notin astray =>
         /\ sent[i].turn # turn /\ sent[i].turn # owed
         /\ \A j \in DOMAIN sent : i < j => sent[j].turn # sent[i].turn

\* what the broadcaster has not taken yet is the end of what was put
Taken == Len(sent) - Len(source)
Fanned ==
  /\ Taken >= 0
  /\ \A i \in 1 .. Len(source) : source[i] = sent[Taken + i]

\* a stream opened by POST /chat; only those belong to a submission
Chat(r) == r.pc = "subscribed" \/ (r.pc = "streaming" /\ r.own # 0)
OwnStream(r) == r.own # 0 => r.pc \in {"streaming", "ended"}

\* its queue is what comes before that, and what comes before the queue has been
\* delivered, or is older than the subscription
Delivered(r) == Taken - Len(r.queue)
Waiting(r) ==
  /\ Delivered(r) >= 0
  /\ \A i \in 1 .. Len(r.queue) : r.queue[i] = sent[Delivered(r) + i]
  /\ \A k \in r.known + 1 .. Delivered(r) : sent[k] \in r.seen

\* what was put before the subscription is of the turns before its own
Fresh(r) ==
  /\ r.known <= Len(sent)
  /\ r.own # 0 => \A k \in 1 .. r.known : sent[k].turn < r.own

\* a chat stream that has ended stopped at the end of a turn, and has all that was
\* put before it and what is of that turn
Complete(r) ==
  /\ \E i \in DOMAIN sent :
       /\ sent[i] = r.newest /\ sent[i].last
       /\ \A k \in r.known + 1 .. i : sent[k] \in r.seen
  /\ r.newest.turn \notin astray =>
       \A k \in r.known + 1 .. Len(sent) :
         sent[k].turn = r.newest.turn => sent[k] \in r.seen

TabInv(r) ==
  /\ OwnStream(r) /\ Fresh(r)
  /\ Chat(r) => Waiting(r)
  /\ r.own # 0 /\ r.pc = "ended" => Complete(r)

StreamInv ==
  /\ StreamTypes /\ Turns /\ Sends /\ InOrder /\ Fanned
  /\ \A c \in Clients : TabInv(client[c])

---------------------------------------------------------------------------
TabTypes(r) == Tab(r) /\ r.queue \in Seq(Events) /\ r.known \in Nat /\ r.own \in Nat

\* What a tab keeps when its request moves on, or in what replays need.
Same(q, r) == q.queue = r.queue /\ q.own = r.own /\ q.known = r.known /\ q.seen = r.seen

\* The request of a tab moves on.
LEMMA TabMoves ==
  ASSUME NEW r, TabTypes(r), NEW v
  PROVE  LET q == [r EXCEPT !.pc = v] IN
           TabTypes(q) /\ Same(q, r) /\ q.pc = v /\ q.newest = r.newest
<1> DEFINE q == [r EXCEPT !.pc = v]
<1>1. Tab(q)
  BY DEF Tab, TabTypes
<1>2. Same(q, r) /\ q.pc = v /\ q.newest = r.newest
  BY DEF Tab, TabTypes, Same
<1> QED BY <1>1, <1>2 DEF TabTypes, Same

\* What only re-attached streams use, and the newest event.
LEMMA TabAttached ==
  ASSUME NEW r, TabTypes(r), NEW v, NEW q,
         \/ q = [r EXCEPT !.replay = v] \/ q = [r EXCEPT !.newest = v]
         \/ q = [r EXCEPT !.after = v] \/ q = [r EXCEPT !.since = v]
  PROVE  TabTypes(q) /\ Same(q, r) /\ q.pc = r.pc
<1>1. Tab(q)
  <2>1. CASE q = [r EXCEPT !.replay = v]
    BY <2>1 DEF Tab, TabTypes
  <2>2. CASE q = [r EXCEPT !.newest = v]
    BY <2>2 DEF Tab, TabTypes
  <2>3. CASE q = [r EXCEPT !.after = v]
    BY <2>3 DEF Tab, TabTypes
  <2>4. CASE q = [r EXCEPT !.since = v]
    BY <2>4 DEF Tab, TabTypes
  <2> QED BY <2>1, <2>2, <2>3, <2>4
<1>2. Same(q, r) /\ q.pc = r.pc
  BY DEF Tab, TabTypes, Same
<1> QED BY <1>1, <1>2 DEF TabTypes, Same

\* The subscription's queue.
LEMMA TabQueue ==
  ASSUME NEW r, TabTypes(r), NEW v \in Seq(Events)
  PROVE  LET q == [r EXCEPT !.queue = v] IN
           /\ TabTypes(q) /\ q.queue = v /\ q.pc = r.pc /\ q.own = r.own
           /\ q.known = r.known /\ q.seen = r.seen /\ q.newest = r.newest
<1> DEFINE q == [r EXCEPT !.queue = v]
<1>1. Tab(q)
  BY DEF Tab, TabTypes
<1>2. /\ q.queue = v /\ q.pc = r.pc /\ q.own = r.own
      /\ q.known = r.known /\ q.seen = r.seen /\ q.newest = r.newest
  BY DEF Tab, TabTypes
<1> QED BY <1>1, <1>2 DEF TabTypes

\* The numbers of a chat stream.
LEMMA TabNumbers ==
  ASSUME NEW r, TabTypes(r), NEW v \in Nat
  PROVE  /\ LET q == [r EXCEPT !.known = v] IN
              /\ TabTypes(q) /\ q.known = v /\ q.pc = r.pc /\ q.own = r.own
              /\ q.queue = r.queue
         /\ LET q == [r EXCEPT !.own = v] IN
              /\ TabTypes(q) /\ q.own = v /\ q.pc = r.pc /\ q.known = r.known
              /\ q.queue = r.queue /\ q.seen = r.seen
<1> DEFINE k == [r EXCEPT !.known = v]
           o == [r EXCEPT !.own = v]
<1>1. Tab(k)
  BY DEF Tab, TabTypes
<1>2. Tab(o)
  BY DEF Tab, TabTypes
<1>3. k.known = v /\ k.pc = r.pc /\ k.own = r.own /\ k.queue = r.queue
  BY DEF Tab, TabTypes
<1>4. o.own = v /\ o.pc = r.pc /\ o.known = r.known /\ o.queue = r.queue /\ o.seen = r.seen
  BY DEF Tab, TabTypes
<1> QED BY <1>1, <1>2, <1>3, <1>4 DEF TabTypes

\* What it has delivered.
LEMMA TabSeen ==
  ASSUME NEW r, TabTypes(r), NEW v
  PROVE  LET q == [r EXCEPT !.seen = v] IN
           /\ TabTypes(q) /\ q.seen = v /\ q.pc = r.pc /\ q.own = r.own
           /\ q.known = r.known /\ q.queue = r.queue
<1> DEFINE q == [r EXCEPT !.seen = v]
<1>1. Tab(q)
  BY DEF Tab, TabTypes
<1>2. /\ q.seen = v /\ q.pc = r.pc /\ q.own = r.own
      /\ q.known = r.known /\ q.queue = r.queue
  BY DEF Tab, TabTypes
<1> QED BY <1>1, <1>2 DEF TabTypes

\* What a tab does with an event that arrives.
LEMMA TabTook ==
  ASSUME NEW r, TabTypes(r), NEW ev
  PROVE  LET t == Took(r, ev) IN
           /\ TabTypes(t) /\ t.seen = r.seen \cup {ev} /\ t.newest = ev /\ t.pc = r.pc
           /\ t.queue = r.queue /\ t.own = r.own /\ t.known = r.known
           /\ t.replay = r.replay
<1> DEFINE seen == r.seen \cup {ev}
           after == IF ev.seq = 0 THEN r.after ELSE ev.seq
           heard == [r EXCEPT !.seen = seen]
           latest == [heard EXCEPT !.newest = ev]
           t == [latest EXCEPT !.after = after]
<1>1. Took(r, ev) = t
  BY DEF Took
<1> HIDE DEF after
<1>2. /\ TabTypes(heard) /\ heard.seen = seen /\ heard.pc = r.pc /\ heard.own = r.own
      /\ heard.known = r.known /\ heard.queue = r.queue
  BY TabSeen
<1>3. heard.replay = r.replay
  BY DEF TabTypes, Tab
<1> HIDE DEF heard
<1>4. TabTypes(latest) /\ Same(latest, heard) /\ latest.pc = heard.pc
  BY <1>2, TabAttached
<1>5. latest.newest = ev /\ latest.replay = heard.replay
  BY <1>2 DEF TabTypes, Tab
<1> HIDE DEF latest
<1>6. TabTypes(t) /\ Same(t, latest) /\ t.pc = latest.pc
  BY <1>4, TabAttached
<1>7. t.newest = ev /\ t.replay = latest.replay
  BY <1>4, <1>5 DEF TabTypes, Tab
<1> HIDE DEF t
<1> QED BY <1>1, <1>2, <1>3, <1>4, <1>5, <1>6, <1>7 DEF Same

\* No tab has a stream in the beginning.
LEMMA StreamStarts == Init => StreamInv
<1> SUFFICES ASSUME Init PROVE StreamInv
  OBVIOUS
<1>1. \A c \in Clients : client[c] = NewClient
  BY DEF Init
<1>2. /\ Tab(NewClient) /\ NewClient.queue = <<>> /\ NewClient.known = 0
      /\ NewClient.own = 0 /\ NewClient.pc = "off"
  BY DEF Tab, NewClient
<1>3. StreamTypes
  <2>1. DOMAIN client = Clients /\ client = [c \in Clients |-> client[c]]
    BY DEF Init
  <2>2. sending \in [Emitters -> Events \cup {NoEvent}]
    BY DEF Init
  <2>3. \A c \in Clients :
          /\ Tab(client[c]) /\ client[c].queue \in Seq(Events)
          /\ client[c].known \in Nat /\ client[c].own \in Nat
    <3>1. <<>> \in Seq(Events) /\ 0 \in Nat
      OBVIOUS
    <3> QED BY <1>1, <1>2, <3>1, Zenon
  <2>4. /\ submitted \in Nat /\ begun \in Nat /\ turn \in Nat /\ owed \in Nat
        /\ counter \in Nat /\ source \in Seq(Events) /\ sent \in Seq(Events)
    BY DEF Init
  <2> QED BY <2>1, <2>2, <2>3, <2>4 DEF StreamTypes
<1>4. Sending = {}
  BY DEF Init, Sending
<1>5. Turns /\ Sends /\ InOrder /\ Fanned
  BY <1>4 DEF Init, Turns, Sends, InOrder, Fanned, Taken
<1>6. \A c \in Clients : TabInv(client[c])
  BY <1>1, <1>2 DEF TabInv, OwnStream, Fresh, Chat, Init
<1> QED BY <1>3, <1>5, <1>6 DEF StreamInv

---------------------------------------------------------------------------
(* The session                                                             *)

\* What the tabs have is all right when turns only become astray.
LEMMA TabsAlone ==
  ASSUME StreamInv, UNCHANGED <<source, sent, submitted, client>>, astray \subseteq astray'
  PROVE  Fanned' /\ \A c \in Clients : TabInv(client[c])'
BY DEF StreamInv, Fanned, Taken, TabInv, OwnStream, Fresh, Chat, Waiting, Delivered,
   Complete

\* An event is numbered: of a turn whose tools run on, or of the running one, or the
\* report; and a last one when there is no other, alone in its turn if need be.
LEMMA NumberStep ==
  ASSUME StreamInv, NEW e \in Emitters, NEW t \in 1 .. begun, NEW last \in BOOLEAN, NEW S,
         Number(e, t, last, S),
         astray' = astray \/ (turn # 0 /\ astray' = astray \cup {turn}),
         owed' = owed \/ (turn # 0 /\ turn \in astray' /\ owed' \in {0, turn}),
         t \in astray' \/ t = turn \/ last,
         ~last => t \in astray \/ ~Ending,
         last => ~Ending /\ (t = IF turn # 0 THEN turn ELSE owed'),
         last => t \in astray' \/ Of(t) = {}
  PROVE  StreamInv'
<1> DEFINE ev == [n |-> counter + 1, seq |-> counter + 1, turn |-> t, last |-> last]
<1>1. /\ e \notin Sending /\ counter' = counter + 1
      /\ sending' = [f \in Emitters |-> IF f = e THEN ev
                                        ELSE IF f \in S THEN NoEvent ELSE sending[f]]
      /\ UNCHANGED <<submitted, begun, turn, source, sent, client>>
  BY DEF Number
<1>2. ev \in Events /\ ev.turn = t /\ ev.last = last
  BY DEF StreamInv, StreamTypes, Events
<1> HIDE DEF ev
<1>3. /\ \A f \in Sending' : f = e \/ (f # e /\ f \in Sending /\ sending'[f] = sending[f])
      /\ sending'[e] = ev /\ Sending \subseteq Emitters /\ Sending' \subseteq Emitters
  BY <1>1 DEF Sending
<1>4. StreamTypes'
  <2>1. sending' \in [Emitters -> Events \cup {NoEvent}] /\ counter' \in Nat
    BY <1>1, <1>2 DEF StreamInv, StreamTypes
  <2>2. owed' \in Nat /\ begun' \in Nat /\ turn' \in Nat
    BY <1>1 DEF StreamInv, StreamTypes
  <2> QED BY <1>1, <2>1, <2>2 DEF StreamInv, StreamTypes
<1>5. Turns'
  BY <1>1 DEF StreamInv, StreamTypes, Turns
<1>6. astray \subseteq astray'
  OBVIOUS
<1>7. Sends'
  <2>1. ASSUME NEW f \in Sending'
        PROVE  /\ sending'[f].turn \in 1 .. begun
               /\ sending'[f].turn \in astray' \/ sending'[f].turn = turn \/ sending'[f].last
               /\ sending'[f].last => sending'[f].turn = IF turn # 0 THEN turn ELSE owed'
    <3>1. CASE f = e
      BY <1>2, <1>3, <3>1
    <3>2. CASE f # e
      BY <1>3, <1>6, <3>2 DEF StreamInv, Sends
    <3> QED BY <3>1, <3>2
  <2>2. ASSUME NEW f \in Sending', NEW g \in Sending', sending'[f].last
        PROVE  /\ sending'[g].last => f = g
               /\ sending'[f].turn \notin astray' /\ sending'[g].turn = sending'[f].turn
                  => f = g
    <3>1. CASE f = e /\ g # e
      <4>1. last /\ g \in Sending /\ sending'[g] = sending[g]
        BY <1>2, <1>3, <2>2, <3>1
      <4>2. ~sending[g].last
        BY <4>1 DEF Ending
      <4>3. t \notin astray' => sending[g].turn # t
        BY <4>1 DEF Of
      <4> QED BY <1>2, <1>3, <3>1, <4>1, <4>2, <4>3
    <3>2. CASE f # e /\ g = e
      <4>1. f \in Sending /\ sending'[f] = sending[f] /\ sending[f].last /\ Ending
        BY <1>3, <2>2, <3>2 DEF Ending
      <4>2. ~last /\ t \in astray
        BY <4>1
      <4> QED BY <1>2, <1>3, <1>6, <3>2, <4>2
    <3>3. CASE f # e /\ g # e
      BY <1>3, <1>6, <2>2, <3>3 DEF StreamInv, Sends
    <3> QED BY <3>1, <3>2, <3>3
  <2> QED BY <1>1, <2>1, <2>2 DEF Sends
<1>8. InOrder'
  <2>1. ASSUME NEW i \in DOMAIN sent, sent[i].last, sent[i].turn \notin astray'
        PROVE  /\ sent[i].turn # turn /\ sent[i].turn # owed'
               /\ \A j \in DOMAIN sent : i < j => sent[j].turn # sent[i].turn
    <3>1. /\ sent[i].turn \in 1 .. begun /\ sent[i].turn # turn /\ sent[i].turn # owed
          /\ \A j \in DOMAIN sent : i < j => sent[j].turn # sent[i].turn
      BY <1>6, <2>1 DEF StreamInv, InOrder
    <3>2. sent[i].turn # 0
      BY <3>1
    <3> QED BY <3>1, <3>2
  <2> QED BY <1>1, <2>1 DEF StreamInv, InOrder
<1> QED BY <1>1, <1>4, <1>5, <1>6, <1>7, <1>8, TabsAlone DEF StreamInv

\* Events of the turns are numbered.
LEMMA NumberSteps ==
  ASSUME StreamInv, NEW e \in Emitters,
         Chunk(e) \/ Close(e) \/ Fail(e) \/ Interrupted(e) \/ Report(e)
  PROVE  StreamInv'
<1>1. /\ turn \in {0, begun} /\ owed \in {0, begun} /\ begun \in Nat
      /\ astray \subseteq 1 .. begun
  BY DEF StreamInv, StreamTypes, Turns
<1>2. (turn # 0 => turn \in 1 .. begun) /\ (owed # 0 => owed \in 1 .. begun)
  BY <1>1
<1>3. CASE Chunk(e)
  <2>1. PICK t \in (astray \cup {turn}) \ {0} :
          (t \notin astray => ~Ending) /\ Number(e, t, FALSE, {})
    BY <1>3 DEF Chunk
  <2>2. t \in 1 .. begun
    BY <1>1, <1>2, <2>1
  <2>3. UNCHANGED <<owed, astray>>
    BY <1>3 DEF Chunk
  <2> QED BY <2>1, <2>2, <2>3, NumberStep
<1>4. CASE Close(e)
  <2>1. /\ turn # 0 /\ Of(turn) = {} /\ Number(e, turn, TRUE, {})
        /\ UNCHANGED <<owed, astray>>
    BY <1>4 DEF Close
  <2>2. ~Ending
    BY <2>1 DEF Ending, Of, StreamInv, Sends
  <2> QED BY <1>2, <2>1, <2>2, NumberStep
<1>5. CASE Fail(e) \/ Interrupted(e)
  <2>1. /\ turn # 0 /\ ~Ending /\ \E S : Number(e, turn, TRUE, S)
        /\ astray' = astray \cup {turn} /\ owed' \in {0, turn}
    BY <1>5 DEF Fail, Interrupted
  <2>2. turn \in astray'
    BY <2>1
  <2> QED BY <1>2, <2>1, <2>2, NumberStep
<1>6. CASE Report(e)
  <2>1. /\ owed # 0 /\ turn = 0 /\ ~Ending /\ Number(e, owed, TRUE, {})
        /\ UNCHANGED <<owed, astray>>
    BY <1>6 DEF Report
  <2>2. owed \in astray \/ Of(owed) = {}
    BY <2>1 DEF Of, Ending, StreamInv, Sends
  <2> QED BY <1>2, <2>1, <2>2, NumberStep
<1> QED BY <1>3, <1>4, <1>5, <1>6

\* Turns begin, raise or vanish; events are stored or fail to be.
LEMMA SessionSteps ==
  ASSUME StreamInv,
         \/ TurnStart \/ Escape \/ Vanish
         \/ \E e \in Emitters : Store(e) \/ StoreFails(e)
  PROVE  StreamInv'
<1>1. UNCHANGED <<source, sent, submitted, client, astray, counter>>
  BY DEF TurnStart, Escape, Vanish, Store, StoreFails, turnVars
<1>2. Fanned' /\ \A c \in Clients : TabInv(client[c])'
  BY <1>1, TabsAlone
<1>3. /\ turn \in {0, begun} /\ owed \in {0, begun} /\ begun \in Nat /\ submitted \in Nat
      /\ astray \subseteq 1 .. begun
  BY DEF StreamInv, StreamTypes, Turns
<1>4. CASE TurnStart
  <2>1. /\ turn = 0 /\ owed = 0 /\ begun < submitted /\ begun' = begun + 1
        /\ turn' = begun + 1 /\ UNCHANGED <<owed, sending>>
    BY <1>4 DEF TurnStart
  <2>2. Turns' /\ StreamTypes'
    BY <1>1, <1>3, <2>1 DEF StreamInv, StreamTypes, Turns
  <2>3. \A x \in 1 .. begun : x \in 1 .. begun' /\ x # turn' /\ x # 0
    BY <1>3, <2>1
  <2>4. Sending' = Sending
    BY <2>1 DEF Sending
  <2>5. \A e \in Sending : sending[e].turn \in astray /\ ~sending[e].last
    BY <1>3, <2>1, <2>3 DEF StreamInv, Sends
  <2>6. Sends'
    BY <1>1, <2>1, <2>3, <2>4, <2>5 DEF StreamInv, Sends
  <2>7. InOrder'
    BY <1>1, <2>1, <2>3 DEF StreamInv, InOrder
  <2> QED BY <1>2, <2>2, <2>6, <2>7 DEF StreamInv
<1>5. CASE Escape \/ Vanish
  <2>1. /\ turn # 0 /\ turn' = 0 /\ owed' \in {owed, turn} /\ UNCHANGED <<begun, sending>>
        /\ owed # 0 \/ Of(turn) = {}
    BY <1>5 DEF Escape, Vanish
  <2>2. Turns' /\ StreamTypes'
    BY <1>1, <1>3, <2>1 DEF StreamInv, StreamTypes, Turns
  <2>3. Sending' = Sending
    BY <2>1 DEF Sending
  <2>4. ~Ending
    BY <1>5, <2>1 DEF Escape, Vanish, Ending, Of, StreamInv, Sends
  <2>5. \A e \in Sending : sending[e].turn \in astray /\ ~sending[e].last
    BY <2>1, <2>4 DEF Ending, Of, StreamInv, Sends, Turns
  <2>6. Sends'
    BY <1>1, <2>1, <2>3, <2>5 DEF StreamInv, Sends
  <2>7. \A i \in DOMAIN sent : sent[i].turn # 0
    BY <1>3 DEF StreamInv, InOrder
  <2>8. InOrder'
    BY <1>1, <2>1, <2>7 DEF StreamInv, InOrder
  <2> QED BY <1>2, <2>2, <2>6, <2>8 DEF StreamInv
<1>6. CASE \E e \in Emitters : Store(e)
  BY <1>1, <1>2, <1>6 DEF Store, StreamInv, StreamTypes, Turns, Sends, InOrder, Sending,
     turnVars
<1>7. ASSUME NEW e \in Emitters, StoreFails(e) PROVE StreamInv'
  <2>1. /\ e \in Sending /\ sending' = [sending EXCEPT ![e].seq = 0]
        /\ UNCHANGED turnVars
    BY <1>7 DEF StoreFails
  <2>2. /\ sending[e] \in Events
        /\ sending' \in [Emitters -> Events \cup {NoEvent}]
        /\ sending'[e].turn = sending[e].turn /\ sending'[e].last = sending[e].last
        /\ \A f \in Emitters \ {e} : sending'[f] = sending[f]
    BY <2>1 DEF StreamInv, StreamTypes, Sending, Events
  <2>3. Sending' \subseteq Sending /\ Sending \subseteq Emitters
    BY <2>1, <2>2 DEF Sending
  <2>4. \A f \in Sending' : /\ f \in Sending /\ sending'[f].turn = sending[f].turn
                            /\ sending'[f].last = sending[f].last
    BY <2>2, <2>3
  <2>5. Sends'
    BY <2>1, <2>4 DEF StreamInv, Sends, turnVars
  <2>6. StreamTypes' /\ Turns' /\ InOrder'
    BY <1>1, <2>1, <2>2 DEF StreamInv, StreamTypes, Turns, InOrder, turnVars
  <2> QED BY <1>2, <2>5, <2>6 DEF StreamInv
<1> QED BY <1>4, <1>5, <1>6, <1>7

\* The end of what was put is new to every tab; nothing after the end of a turn
\* belongs to it, unless tools of it run on.
LEMMA PutStep ==
  ASSUME StreamInv, NEW e \in Emitters, Put(e)
  PROVE  StreamInv'
<1> DEFINE ev == sending[e]
<1>1. /\ e \in Sending /\ sent' = Append(sent, ev) /\ source' = Append(source, ev)
      /\ sending' = [sending EXCEPT ![e] = NoEvent]
      /\ turn' = IF ev.last /\ owed = 0 THEN 0 ELSE turn
      /\ owed' = IF ev.last /\ turn = 0 THEN 0 ELSE owed
      /\ UNCHANGED <<submitted, begun, astray, counter, client>>
  BY DEF Put, Sent
<1>2. /\ ev \in Events /\ ev.turn \in 1 .. begun /\ begun \in Nat
      /\ sending' \in [Emitters -> Events \cup {NoEvent}]
      /\ \A f \in Emitters : sending'[f] = IF f = e THEN NoEvent ELSE sending[f]
  BY <1>1 DEF StreamInv, StreamTypes, Sends, Sending
<1>3. /\ ev.turn \in astray \/ ev.turn = turn \/ ev.last
      /\ ev.last => ev.turn = IF turn # 0 THEN turn ELSE owed
      /\ ev.last => \A f \in Sending : ~sending[f].last \/ f = e
      /\ ev.last /\ ev.turn \notin astray =>
           \A f \in Sending : sending[f].turn # ev.turn \/ f = e
      /\ turn # 0 /\ owed # 0 => turn \in astray
      /\ turn \in {0, begun} /\ owed \in {0, begun}
  BY <1>1 DEF StreamInv, Sends, Turns
<1> HIDE DEF ev
<1>4. /\ sent \in Seq(Events) /\ source \in Seq(Events)
      /\ Len(sent') = Len(sent) + 1 /\ Len(source') = Len(source) + 1
      /\ \A i \in 1 .. Len(sent) : sent'[i] = sent[i]
      /\ sent'[Len(sent) + 1] = ev
      /\ \A i \in 1 .. Len(source) : source'[i] = source[i]
      /\ source'[Len(source) + 1] = ev
      /\ DOMAIN sent = 1 .. Len(sent) /\ DOMAIN sent' = 1 .. Len(sent) + 1
  BY <1>1, <1>2 DEF StreamInv, StreamTypes
<1>5. StreamTypes' /\ Turns'
  <2>1. turn' \in Nat /\ owed' \in Nat
    BY <1>1 DEF StreamInv, StreamTypes
  <2> QED BY <1>1, <1>2, <1>3, <2>1 DEF StreamInv, StreamTypes, Turns
<1>6. Sends'
  <2>1. Sending' = Sending \ {e}
    BY <1>2 DEF Sending
  <2>2. \A f \in Sending' : sending'[f] = sending[f] /\ f \in Sending /\ f # e
    BY <1>2, <2>1 DEF Sending
  <2>3. ASSUME NEW f \in Sending'
        PROVE  /\ sending[f].turn \in 1 .. begun
               /\ sending[f].turn \in astray \/ sending[f].turn = turn' \/ sending[f].last
               /\ sending[f].last => sending[f].turn = IF turn' # 0 THEN turn' ELSE owed'
    <3>1. /\ sending[f].turn \in 1 .. begun
          /\ sending[f].turn \in astray \/ sending[f].turn = turn \/ sending[f].last
          /\ sending[f].last => sending[f].turn = IF turn # 0 THEN turn ELSE owed
      BY <2>2 DEF StreamInv, Sends
    <3>2. CASE ~ev.last
      BY <1>1, <3>1, <3>2
    <3>3. CASE ev.last
      <4>1. ~sending[f].last
        BY <1>3, <2>2, <3>3
      <4>2. sending[f].turn \in astray
        BY <1>3, <2>2, <3>1, <3>3, <4>1
      <4> QED BY <3>1, <4>1, <4>2
    <3> QED BY <3>2, <3>3
  <2>4. \A f, g \in Sending' :
          /\ sending[f].last /\ sending[g].last => f = g
          /\ sending[f].last /\ sending[f].turn \notin astray
             /\ sending[g].turn = sending[f].turn => f = g
    BY <2>2 DEF StreamInv, Sends
  <2> QED BY <1>1, <2>2, <2>3, <2>4 DEF Sends
\* the turns that are over have no more events
<1>10. ASSUME NEW i \in 1 .. Len(sent), sent[i].last, sent[i].turn \notin astray
       PROVE  /\ sent[i].turn # turn /\ sent[i].turn # owed /\ sent[i].turn # 0
              /\ ev.turn # sent[i].turn
  <2>1. /\ sent[i].turn # turn /\ sent[i].turn # owed /\ sent[i].turn \in 1 .. begun
    BY <1>4, <1>10 DEF StreamInv, InOrder
  <2> QED BY <1>3, <1>10, <2>1
<1>7. InOrder'
  <2>1. ASSUME NEW i \in 1 .. Len(sent) + 1, sent'[i].last, sent'[i].turn \notin astray
        PROVE  /\ sent'[i].turn # turn' /\ sent'[i].turn # owed'
               /\ \A j \in 1 .. Len(sent) + 1 : i < j => sent'[j].turn # sent'[i].turn
    <3>1. CASE i \in 1 .. Len(sent)
      <4>1. /\ sent'[i] = sent[i]
            /\ \A j \in 1 .. Len(sent) : i < j => sent[j].turn # sent[i].turn
        BY <1>4, <2>1, <3>1 DEF StreamInv, InOrder
      <4>2. /\ sent[i].turn # turn /\ sent[i].turn # owed /\ sent[i].turn # 0
            /\ ev.turn # sent[i].turn
        BY <1>10, <2>1, <3>1, <4>1
      <4>3. ASSUME NEW j \in 1 .. Len(sent) + 1, i < j PROVE sent'[j].turn # sent'[i].turn
        <5>1. CASE j \in 1 .. Len(sent)
          BY <1>4, <4>1, <4>3, <5>1
        <5>2. CASE j = Len(sent) + 1
          BY <1>4, <4>1, <4>2, <5>2
        <5> QED BY <1>4, <5>1, <5>2
      <4> QED BY <1>1, <4>1, <4>2, <4>3
    <3>2. CASE i = Len(sent) + 1
      <4>1. sent'[i] = ev /\ ev.last /\ ev.turn \notin astray /\ ev.turn # 0
        BY <1>2, <1>4, <2>1, <3>2
      <4>2. ev.turn # turn' /\ ev.turn # owed'
        BY <1>1, <1>3, <4>1
      <4>3. \A j \in 1 .. Len(sent) + 1 : ~(i < j)
        BY <1>4, <3>2
      <4> QED BY <4>1, <4>2, <4>3
    <3> QED BY <1>4, <3>1, <3>2
  <2>2. ASSUME NEW i \in 1 .. Len(sent) + 1 PROVE sent'[i].turn \in 1 .. begun
    <3>1. CASE i \in 1 .. Len(sent)
      BY <1>4, <3>1 DEF StreamInv, InOrder
    <3>2. CASE i = Len(sent) + 1
      BY <1>2, <1>4, <3>2
    <3> QED BY <1>4, <3>1, <3>2
  <2> QED BY <1>1, <1>4, <2>1, <2>2 DEF InOrder
<1>8. Taken' = Taken /\ Fanned'
  <2>1. Taken' = Taken /\ Taken >= 0
    BY <1>4 DEF StreamInv, Fanned, Taken
  <2>2. ASSUME NEW i \in 1 .. Len(source) PROVE source'[i] = sent'[Taken + i]
    BY <1>4, <2>1, <2>2 DEF StreamInv, Fanned, Taken
  <2>3. source'[Len(source) + 1] = sent'[Taken + Len(source) + 1]
    BY <1>4 DEF Taken
  <2>4. ASSUME NEW i \in 1 .. Len(source') PROVE source'[i] = sent'[Taken + i]
    <3>1. CASE i \in 1 .. Len(source)
      BY <2>2, <3>1
    <3>2. CASE i = Len(source) + 1
      BY <1>4, <2>3, <3>2 DEF Taken
    <3> QED BY <1>4, <3>1, <3>2
  <2> QED BY <2>1, <2>4 DEF Fanned
<1>9. ASSUME NEW c \in Clients PROVE TabInv(client[c])'
  <2> DEFINE r == client[c]
  <2>1. r' = r /\ TabInv(r) /\ r.queue \in Seq(Events) /\ r.known \in Nat
    BY <1>1 DEF StreamInv, StreamTypes
  <2> HIDE DEF r
  <2>2. Waiting(r) => Waiting(r)'
    <3>1. Delivered(r)' = Delivered(r) /\ Taken <= Len(sent)
      BY <1>4, <1>8, <2>1 DEF Delivered, Taken
    <3>2. /\ Len(r.queue) \in Nat /\ Taken \in Int /\ Delivered(r) \in Int
          /\ Delivered(r) + Len(r.queue) = Taken
      BY <1>4, <2>1 DEF Delivered, Taken
    <3>3. ASSUME Waiting(r), NEW i \in 1 .. Len(r.queue)
          PROVE  r.queue[i] = sent'[Delivered(r) + i]
      <4>1. Delivered(r) + i \in 1 .. Len(sent) /\ r.queue[i] = sent[Delivered(r) + i]
        BY <1>4, <3>1, <3>2, <3>3 DEF Waiting
      <4> QED BY <1>4, <4>1
    <3>4. ASSUME Waiting(r), NEW k \in r.known + 1 .. Delivered(r)
          PROVE  sent'[k] \in r.seen
      <4>1. k \in 1 .. Len(sent) /\ sent[k] \in r.seen
        BY <1>4, <2>1, <3>1, <3>2, <3>4 DEF Waiting
      <4> QED BY <1>4, <4>1
    <3> QED BY <2>1, <3>1, <3>3, <3>4 DEF Waiting
  <2>3. Complete(r) => Complete(r)'
    <3> SUFFICES ASSUME Complete(r) PROVE Complete(r)'
      OBVIOUS
    <3>1. PICK i \in 1 .. Len(sent) : /\ sent[i] = r.newest /\ sent[i].last
                                      /\ \A k \in r.known + 1 .. i : sent[k] \in r.seen
      BY <1>4 DEF Complete
    <3>2. r.newest.turn \notin astray => r.newest.turn # ev.turn
      BY <1>10, <3>1
    <3>3. i \in DOMAIN sent' /\ sent'[i] = r'.newest /\ sent'[i].last
      BY <1>4, <2>1, <3>1
    <3>4. ASSUME NEW k \in r.known + 1 .. i PROVE sent'[k] \in r.seen
      <4>1. k \in 1 .. Len(sent)
        BY <1>4, <2>1
      <4> QED BY <1>4, <3>1, <4>1
    <3>5. ASSUME NEW k \in r.known + 1 .. Len(sent) + 1, sent'[k].turn = r.newest.turn,
                 r.newest.turn \notin astray
          PROVE  sent'[k] \in r.seen
      <4>1. k # Len(sent) + 1
        BY <1>4, <3>2, <3>5
      <4>2. k \in 1 .. Len(sent) /\ k \in r.known + 1 .. Len(sent) /\ sent'[k] = sent[k]
        BY SMTT(30), <1>4, <2>1, <4>1
      <4> QED BY <3>5, <4>2 DEF Complete
    <3> QED BY <1>1, <1>4, <2>1, <3>3, <3>4, <3>5 DEF Complete
  <2>4. Fresh(r) => Fresh(r)'
    <3>1. ASSUME Fresh(r), NEW k \in 1 .. r.known PROVE sent'[k] = sent[k]
      <4>1. k \in 1 .. Len(sent)
        BY <1>4, <2>1, <3>1 DEF Fresh
      <4> QED BY <1>4, <4>1
    <3> QED BY <1>4, <2>1, <3>1 DEF Fresh
  <2> QED BY <2>1, <2>2, <2>3, <2>4 DEF TabInv, OwnStream, Chat, r
<1> QED BY <1>5, <1>6, <1>7, <1>8, <1>9 DEF StreamInv

\* An event moves from the broadcaster to the end of every queue.
LEMMA BroadcastStep ==
  ASSUME StreamInv, Broadcast
  PROVE  StreamInv'
<1> DEFINE ev == Head(source)
<1>1. /\ source # <<>> /\ source' = Tail(source)
      /\ UNCHANGED <<submitted, turnVars, counter, sending, sent>>
      /\ client' = [c \in Clients |->
           IF Subscribed(c) THEN [client[c] EXCEPT !.queue = Append(@, Head(source))]
                            ELSE client[c]]
  BY DEF Broadcast
<1>2. /\ source \in Seq(Events) /\ sent \in Seq(Events)
      /\ Len(source) >= 1 /\ Len(source') = Len(source) - 1
      /\ ev = source[1] /\ ev \in Events
      /\ \A i \in 1 .. Len(source') : source'[i] = source[i + 1]
      /\ source' \in Seq(Events) /\ DOMAIN sent = 1 .. Len(sent)
  BY <1>1 DEF StreamInv, StreamTypes
<1> HIDE DEF ev
<1>3. Turns' /\ Sends' /\ InOrder'
  BY <1>1 DEF StreamInv, Turns, Sends, Sending, InOrder, turnVars
<1>4. /\ Taken' = Taken + 1 /\ Taken \in Nat /\ ev = sent[Taken + 1]
      /\ Taken + Len(source) = Len(sent)
  <2>1. Taken' = Taken + 1 /\ Taken \in Nat /\ Taken + Len(source) = Len(sent)
    <3>1. Len(sent) \in Nat /\ Len(source) \in Nat /\ sent' = sent /\ Taken >= 0
      BY <1>1, <1>2 DEF StreamInv, Fanned
    <3>2. Taken = Len(sent) - Len(source) /\ Taken' = Len(sent) - Len(source')
      BY <3>1 DEF Taken
    <3> QED BY <1>2, <3>1, <3>2
  <2>2. 1 \in 1 .. Len(source)
    BY <1>2
  <2>3. ev = sent[Taken + 1]
    BY <1>2, <2>2 DEF StreamInv, Fanned
  <2> QED BY <2>1, <2>3
<1>5. Fanned'
  <2>1. ASSUME NEW i \in 1 .. Len(source') PROVE source'[i] = sent[Taken + 1 + i]
    <3>1. i + 1 \in 1 .. Len(source) /\ source'[i] = source[i + 1]
      BY <1>2
    <3>2. source[i + 1] = sent[Taken + (i + 1)]
      BY <3>1 DEF StreamInv, Fanned
    <3> QED BY <1>4, <3>1, <3>2
  <2> QED BY <1>1, <1>4, <2>1 DEF Fanned
<1>6. ASSUME NEW c \in Clients
      PROVE  /\ Tab(client'[c]) /\ client'[c].queue \in Seq(Events)
             /\ client'[c].known \in Nat /\ client'[c].own \in Nat
             /\ TabInv(client[c])'
  <2> DEFINE r == client[c]
  <2>1. /\ Tab(r) /\ r.queue \in Seq(Events) /\ r.known \in Nat /\ r.own \in Nat
        /\ TabInv(r)
    BY DEF StreamInv, StreamTypes
  <2>2. CASE ~Subscribed(c)
    <3>1. client'[c] = r /\ ~Chat(r)
      BY <1>1, <2>2 DEF Subscribed, Chat
    <3> HIDE DEF r
    <3>2. /\ Complete(r) => Complete(client[c])'
          /\ Fresh(r) => Fresh(client[c])'
      BY <1>1, <3>1 DEF Complete, Fresh, turnVars
    <3> QED BY <2>1, <3>1, <3>2 DEF TabInv, OwnStream, Chat
  <2>3. CASE Subscribed(c)
    <3> DEFINE q == [r EXCEPT !.queue = Append(@, ev)]
    <3>1. client'[c] = q
      BY <1>1, <2>3 DEF ev
    <3>0. r.pc # "ended"
      BY <2>3 DEF Subscribed
    <3> HIDE DEF r
    <3>2. /\ Tab(q) /\ q.queue = Append(r.queue, ev)
          /\ q.pc = r.pc /\ q.own = r.own /\ q.known = r.known /\ q.seen = r.seen
      <4> DEFINE longer == Append(r.queue, ev)
      <4>1. q = [r EXCEPT !.queue = longer]
        OBVIOUS
      <4> HIDE DEF longer, q
      <4>2. Tab(q) /\ q.queue = longer
        BY <2>1, <4>1 DEF Tab
      <4>3. q.pc = r.pc /\ q.own = r.own /\ q.known = r.known /\ q.seen = r.seen
        BY <2>1, <4>1 DEF Tab
      <4> QED BY <4>2, <4>3 DEF longer
    <3> HIDE DEF q
    <3>3. /\ q.queue \in Seq(Events) /\ Len(q.queue) = Len(r.queue) + 1
          /\ \A i \in 1 .. Len(r.queue) : q.queue[i] = r.queue[i]
          /\ q.queue[Len(r.queue) + 1] = ev /\ Len(r.queue) \in Nat
      BY <1>2, <2>1, <3>2
    <3>4. Delivered(client[c])' = Delivered(r) /\ Delivered(r) + Len(r.queue) = Taken
      BY <1>4, <3>1, <3>3 DEF Delivered
    <3>5. ASSUME Waiting(r) PROVE Waiting(client[c])'
      <4>1. ASSUME NEW i \in 1 .. Len(q.queue) PROVE q.queue[i] = sent[Delivered(r) + i]
        <5>1. CASE i \in 1 .. Len(r.queue)
          BY <3>3, <3>5, <5>1 DEF Waiting
        <5>2. CASE i = Len(r.queue) + 1
          <6>1. Delivered(r) \in Int
            BY <1>2, <1>4, <3>3 DEF Delivered
          <6>2. Delivered(r) + i = Taken + 1
            BY SMTT(30), <1>4, <3>3, <3>4, <5>2, <6>1
          <6> QED BY <1>4, <3>3, <5>2, <6>2
        <5> QED BY <3>3, <5>1, <5>2
      <4> QED BY <1>1, <3>1, <3>2, <3>4, <3>5, <4>1 DEF Waiting
    <3>6. Fresh(client[c])'
      BY <1>1, <2>1, <3>1, <3>2 DEF TabInv, Fresh
    <3> QED BY <2>1, <3>0, <3>1, <3>2, <3>3, <3>5, <3>6 DEF TabInv, OwnStream, Chat
  <2> QED BY <2>2, <2>3
<1>7. StreamTypes'
  <2>1. DOMAIN client' = Clients /\ client' = [c \in Clients |-> client'[c]]
    BY <1>1
  <2> QED BY <1>1, <1>2, <1>6, <2>1 DEF StreamInv, StreamTypes, turnVars
<1> QED BY <1>3, <1>5, <1>6, <1>7 DEF StreamInv

---------------------------------------------------------------------------
(* The tabs                                                                *)

\* A step of one tab that leaves it in order keeps everything else.
LEMMA TabStep ==
  ASSUME StreamInv, UNCHANGED <<turnVars, counter, sending, source, sent>>,
         submitted' \in Nat, submitted <= submitted', NEW c \in Clients, NEW r,
         TabTypes(r), TabInv(r), client' = [client EXCEPT ![c] = r]
  PROVE  StreamInv'
<1>1. /\ \A d \in Clients : client'[d] = IF d = c THEN r ELSE client[d]
      /\ DOMAIN client' = Clients /\ client' = [d \in Clients |-> client'[d]]
  BY DEF StreamInv, StreamTypes
<1>2. StreamTypes'
  BY <1>1 DEF StreamInv, StreamTypes, TabTypes, turnVars
<1>3. Turns' /\ Sends' /\ InOrder' /\ Fanned'
  BY DEF StreamInv, StreamTypes, Turns, Sends, Sending, InOrder, Fanned, Taken, turnVars
<1>4. ASSUME NEW d \in Clients PROVE TabInv(client[d])'
  <2>1. TabInv(client'[d])
    BY <1>1 DEF StreamInv
  <2> QED BY <2>1 DEF TabInv, OwnStream, Fresh, Chat, Waiting, Delivered, Taken, Complete,
                     turnVars
<1> QED BY <1>2, <1>3, <1>4 DEF StreamInv

\* A tab between two streams.
LEMMA KeptTab ==
  ASSUME NEW r
  PROVE  /\ TabTypes(Kept(r)) /\ Kept(r).queue = <<>> /\ Kept(r).own = 0
         /\ Kept(r).pc = "off" /\ Kept(r).known = 0
<1> DEFINE after == r.after
<1> DEFINE q == [pc |-> "off", queue |-> <<>>, replay |-> <<>>, seen |-> {},
                 newest |-> NoEvent, after |-> after, since |-> 0, own |-> 0,
                 known |-> 0]
<1>1. Kept(r) = q
  <2>1. Kept(r) = [NewClient EXCEPT !.after = after]
    BY DEF Kept
  <2> HIDE DEF after
  <2> QED BY <2>1 DEF NewClient
<1>2. Tab(q) /\ q.queue \in Seq(Events) /\ q.known \in Nat /\ q.own \in Nat
  BY DEF Tab
<1> QED BY <1>1, <1>2 DEF TabTypes

\* Queues may be empty.
LEMMA EmptyQueue == <<>> \in Seq(Events)
OBVIOUS

\* A chat stream begins with an empty queue, before anything of its turn is put.
LEMMA ChatStep ==
  ASSUME StreamInv, NEW c \in Clients,
         ChatSubscribe(c) \/ ChatSubmit(c) \/ ChatRefused(c) \/ Drop(c)
  PROVE  StreamInv'
<1> DEFINE r == client[c]
<1>1. TabTypes(r) /\ TabInv(r) /\ submitted \in Nat /\ Len(sent) \in Nat
      /\ Taken >= 0 /\ Taken <= Len(sent) /\ Len(sent) - Len(source) = Taken
  BY DEF StreamInv, StreamTypes, TabTypes, Fanned, Taken
<1>0. submitted <= submitted
  BY <1>1
<1>2. CASE ChatSubscribe(c)
  <2> DEFINE opened == [Kept(r) EXCEPT !.pc = "subscribed"]
             q == [opened EXCEPT !.known = Len(sent)]
  <2>1. client' = [client EXCEPT ![c] = q] /\ UNCHANGED sessionVars
    BY <1>2 DEF ChatSubscribe
  <2>2. TabTypes(opened) /\ opened.queue = <<>> /\ opened.own = 0
    <3> DEFINE kept == Kept(r)
    <3>1. TabTypes(kept) /\ kept.queue = <<>> /\ kept.own = 0
      BY KeptTab
    <3> HIDE DEF kept
    <3>2. TabTypes([kept EXCEPT !.pc = "subscribed"])
          /\ Same([kept EXCEPT !.pc = "subscribed"], kept)
      BY <3>1, TabMoves
    <3> QED BY <3>1, <3>2 DEF Same, kept
  <2> HIDE DEF opened
  <2>3. TabTypes(q) /\ q.queue = <<>> /\ q.own = 0 /\ q.known = Len(sent)
    BY <1>1, <2>2, TabNumbers
  <2> HIDE DEF q
  <2>4. Waiting(q)
    BY <1>1, <2>3 DEF Waiting, Delivered, Taken
  <2>5. TabInv(q)
    BY <1>1, <2>3, <2>4 DEF TabInv, OwnStream, Fresh
  <2> QED BY <1>0, <1>1, <2>1, <2>3, <2>5, TabStep DEF sessionVars
<1>3. CASE ChatSubmit(c)
  <2> DEFINE own == submitted + 1
             opened == [r EXCEPT !.pc = "streaming"]
             q == [opened EXCEPT !.own = own]
  <2>1. /\ client' = [client EXCEPT ![c] = q] /\ submitted' = own /\ r.pc = "subscribed"
        /\ UNCHANGED <<turnVars, counter, sending, source, sent>>
    BY <1>3 DEF ChatSubmit
  <2>2. own \in Nat /\ submitted <= own
    BY <1>1
  <2>7. \A k \in DOMAIN sent : sent[k].turn < own
    BY <1>1 DEF StreamInv, StreamTypes, Turns, InOrder
  <2> HIDE DEF own, r
  <2>3. TabTypes(opened) /\ Same(opened, r) /\ opened.pc = "streaming"
    BY <1>1, TabMoves
  <2> HIDE DEF opened
  <2>4. /\ TabTypes(q) /\ q.queue = r.queue /\ q.known = r.known /\ q.seen = r.seen
        /\ q.pc = "streaming" /\ q.own = own
    BY <2>2, <2>3, TabNumbers DEF Same
  <2> HIDE DEF q
  <2>5. Waiting(q)
    BY <1>1, <2>1, <2>4 DEF TabInv, Chat, Waiting, Delivered
  <2>8. Fresh(q)
    <3>1. r.known \in Nat /\ r.known <= Len(sent) /\ DOMAIN sent = 1 .. Len(sent)
      BY <1>1 DEF TabTypes, TabInv, Fresh, StreamInv, StreamTypes
    <3>2. 1 .. r.known \subseteq DOMAIN sent
      BY <1>1, <3>1
    <3> QED BY <2>4, <2>7, <3>1, <3>2 DEF Fresh
  <2>6. TabInv(q)
    BY <2>4, <2>5, <2>8 DEF TabInv, OwnStream
  <2> QED BY <2>1, <2>2, <2>4, <2>6, TabStep DEF r
<1>4. CASE ChatRefused(c)
  <2> DEFINE left == [r EXCEPT !.pc = "off"]
             q == [left EXCEPT !.queue = <<>>]
  <2>1. client' = [client EXCEPT ![c] = q] /\ UNCHANGED sessionVars /\ r.pc = "subscribed"
    BY <1>4 DEF ChatRefused
  <2> HIDE DEF r
  <2>2. TabTypes(left) /\ left.own = r.own /\ left.pc = "off" /\ left.known = r.known
    BY <1>1, TabMoves DEF Same
  <2> HIDE DEF left
  <2>3. TabTypes(q) /\ q.own = r.own /\ q.pc = "off" /\ q.known = r.known
    BY <2>2, TabQueue, EmptyQueue
  <2> HIDE DEF q
  <2>4. TabInv(q)
    BY <1>1, <2>1, <2>3 DEF TabInv, OwnStream, Fresh, Chat
  <2> QED BY <1>0, <1>1, <2>1, <2>3, <2>4, TabStep DEF sessionVars, r
<1>5. CASE Drop(c)
  <2>1. client' = [client EXCEPT ![c] = Kept(r)] /\ UNCHANGED sessionVars
    BY <1>5 DEF Drop
  <2>2. TabInv(Kept(r))
    BY <1>1, KeptTab DEF TabInv, OwnStream, Fresh, Chat
  <2> QED BY <1>0, <1>1, <2>1, <2>2, KeptTab, TabStep DEF sessionVars
<1> QED BY <1>2, <1>3, <1>4, <1>5

\* Re-attached streams belong to no submission.
LEMMA AttachStep ==
  ASSUME StreamInv, NEW c \in Clients,
         Reattach(c) \/ Load(c) \/ Resubscribe(c) \/ Replay(c) \/ ReplayOver(c)
  PROVE  StreamInv'
<1> DEFINE r == client[c]
<1>1. TabTypes(r) /\ TabInv(r) /\ submitted \in Nat /\ Len(sent) \in Nat
      /\ submitted <= submitted
  BY DEF StreamInv, StreamTypes, TabTypes
<1>2. /\ r.pc \in {"off", "loading", "loaded", "replaying"} /\ UNCHANGED sessionVars
  BY DEF Reattach, Load, Loads, Resubscribe, Replay, ReplayOver
<1>3. r.own = 0 /\ r.known <= Len(sent)
  BY <1>1, <1>2 DEF TabInv, OwnStream, Fresh
<1>4. ASSUME NEW q, client' = [client EXCEPT ![c] = q], TabTypes(q), q.own = 0,
             q.pc # "subscribed", q.known <= Len(sent)
      PROVE  StreamInv'
  <2>1. TabInv(q)
    BY <1>4 DEF TabInv, OwnStream, Fresh, Chat
  <2> QED BY <1>1, <1>2, <1>4, <2>1, TabStep DEF sessionVars
<1>5. CASE Reattach(c)
  <2> DEFINE asked == [r EXCEPT !.pc = "loading"]
             q == [asked EXCEPT !.since = r.after]
  <2>1. client' = [client EXCEPT ![c] = q]
    BY <1>5 DEF Reattach
  <2> HIDE DEF r
  <2>2. TabTypes(asked) /\ asked.own = 0 /\ asked.known = r.known /\ asked.pc = "loading"
    BY <1>1, <1>3, TabMoves DEF Same
  <2> HIDE DEF asked
  <2>3. TabTypes(q) /\ q.own = 0 /\ q.known = r.known /\ q.pc = "loading"
    BY <2>2, TabAttached DEF Same
  <2> HIDE DEF q
  <2> QED BY <1>3, <1>4, <2>1, <2>3 DEF r
<1>6. CASE Load(c)
  <2> DEFINE stored == BySeq(LaterRows(r.since))
             read == [r EXCEPT !.pc = "loaded"]
             told == [read EXCEPT !.replay = stored]
             q == [told EXCEPT !.known = Len(sent)]
  <2>1. client' = [client EXCEPT ![c] = q]
    BY <1>6 DEF Load, Loads
  <2> HIDE DEF stored, r
  <2>2. TabTypes(read) /\ read.own = 0 /\ read.pc = "loaded"
    BY <1>1, <1>3, TabMoves DEF Same
  <2> HIDE DEF read
  <2>3. TabTypes(told) /\ told.own = 0 /\ told.pc = "loaded"
    BY <2>2, TabAttached DEF Same
  <2> HIDE DEF told
  <2>4. TabTypes(q) /\ q.own = 0 /\ q.known = Len(sent) /\ q.pc = "loaded"
    BY <1>1, <2>3, TabNumbers
  <2> HIDE DEF q
  <2>5. q.known <= Len(sent)
    BY <1>1, <2>4
  <2> QED BY <1>3, <1>4, <2>1, <2>4, <2>5 DEF r
<1>7. CASE Resubscribe(c) \/ ReplayOver(c)
  <2>1. PICK pc \in {"replaying", "streaming"} :
          client' = [client EXCEPT ![c] = [r EXCEPT !.pc = pc]]
    BY <1>7 DEF Resubscribe, ReplayOver
  <2> DEFINE q == [r EXCEPT !.pc = pc]
  <2> HIDE DEF r
  <2>2. TabTypes(q) /\ q.own = 0 /\ q.known = r.known /\ q.pc = pc
    BY ZenonT(40), <1>1, <1>3, TabMoves DEF Same
  <2>3. client' = [client EXCEPT ![c] = q]
    BY <2>1
  <2> HIDE DEF q
  <2> QED BY <1>3, <1>4, <2>2, <2>3 DEF r
<1>8. CASE Replay(c)
  <2> DEFINE ev == Head(r.replay)
             heard == Took(r, ev)
             took == [heard EXCEPT !.replay = Tail(r.replay)]
             shut == [took EXCEPT !.pc = "replayed"]
             empty == [shut EXCEPT !.queue = <<>>]
             done == [empty EXCEPT !.replay = <<>>]
  <2>1. /\ TabTypes(heard) /\ heard.own = 0 /\ heard.known = r.known /\ heard.pc = r.pc
        /\ heard.replay = r.replay
    BY <1>1, <1>3, TabTook
  <2>2. /\ r.pc = "replaying"
        /\ client' = [client EXCEPT ![c] = done] \/ client' = [client EXCEPT ![c] = took]
    BY <1>8, <2>1 DEF Replay
  <2> HIDE DEF heard, r
  <2>3. TabTypes(took) /\ took.own = 0 /\ took.known = r.known /\ took.pc = r.pc
    <3> DEFINE left == Tail(r.replay)
    <3>1. took = [heard EXCEPT !.replay = left]
      OBVIOUS
    <3> HIDE DEF took, left
    <3> QED BY <2>1, <3>1, TabAttached DEF Same
  <2>4. TabTypes(done) /\ done.own = 0 /\ done.known = r.known /\ done.pc = "replayed"
    <3> HIDE DEF took
    <3>1. TabTypes(shut) /\ shut.own = 0 /\ shut.known = r.known /\ shut.pc = "replayed"
      BY <2>3, TabMoves DEF Same
    <3> HIDE DEF shut
    <3>2. TabTypes(empty) /\ empty.own = 0 /\ empty.known = r.known /\ empty.pc = "replayed"
      BY <3>1, TabQueue, EmptyQueue
    <3> HIDE DEF empty
    <3>3. done = [empty EXCEPT !.replay = <<>>]
      OBVIOUS
    <3> HIDE DEF done
    <3>4. TabTypes(done) /\ Same(done, empty) /\ done.pc = empty.pc
      BY <3>2, <3>3, TabAttached
    <3> QED BY <3>2, <3>4 DEF Same
  <2> HIDE DEF done, took
  <2> QED BY <1>3, <1>4, <2>2, <2>3, <2>4 DEF r
<1> QED BY <1>5, <1>6, <1>7, <1>8

\* The event that a tab receives is the next one that was put; the one that ends
\* a turn has all the others of that turn before it.
LEMMA ReceiveStep ==
  ASSUME StreamInv, NEW c \in Clients, Receive(c)
  PROVE  StreamInv'
<1> DEFINE r == client[c]
           ev == Head(r.queue)
           rest == Tail(r.queue)
           heard == Took(r, ev)
           took == [heard EXCEPT !.queue = rest]
           shut == [took EXCEPT !.pc = "ended"]
           done == [shut EXCEPT !.queue = <<>>]
<1>1. /\ TabTypes(r) /\ TabInv(r) /\ submitted \in Nat
      /\ sent \in Seq(Events) /\ DOMAIN sent = 1 .. Len(sent)
      /\ Taken \in Int /\ Taken <= Len(sent) /\ submitted <= submitted
  BY DEF StreamInv, StreamTypes, TabTypes, Taken
<1>2. /\ TabTypes(heard)
      /\ heard.seen = r.seen \cup {ev} /\ heard.newest = ev /\ heard.pc = r.pc
      /\ heard.queue = r.queue /\ heard.own = r.own /\ heard.known = r.known
  BY <1>1, TabTook
<1>3. /\ r.pc = "streaming" /\ r.queue # <<>> /\ UNCHANGED sessionVars
      /\ client' = [client EXCEPT ![c] = IF ev.last THEN done ELSE took]
  BY <1>2 DEF Receive
<1>4. /\ Len(r.queue) >= 1 /\ ev = r.queue[1] /\ ev \in Events /\ rest \in Seq(Events)
      /\ Len(rest) = Len(r.queue) - 1 /\ Len(r.queue) \in Nat
      /\ \A i \in 1 .. Len(rest) : rest[i] = r.queue[i + 1]
  <2> HIDE DEF r
  <2> QED BY <1>1, <1>3 DEF TabTypes
<1> HIDE DEF r, ev, rest, heard
<1>5. /\ TabTypes(took) /\ took.queue = rest /\ took.pc = "streaming" /\ took.own = r.own
      /\ took.known = r.known /\ took.seen = r.seen \cup {ev} /\ took.newest = ev
  BY <1>2, <1>3, <1>4, TabQueue
<1> HIDE DEF took
<1>6. /\ TabTypes(done) /\ done.pc = "ended" /\ done.own = r.own
      /\ done.known = r.known /\ done.seen = r.seen \cup {ev} /\ done.newest = ev
  <2>1. /\ TabTypes(shut) /\ Same(shut, took) /\ shut.pc = "ended" /\ shut.newest = ev
    BY <1>5, TabMoves
  <2> HIDE DEF shut
  <2> QED BY <1>5, <2>1, TabQueue, EmptyQueue DEF Same
<1> HIDE DEF done
<1>7. ASSUME r.own # 0
      PROVE  /\ Waiting(r) /\ Delivered(r) \in Nat /\ Delivered(r) + Len(r.queue) = Taken
             /\ Delivered(r) + 1 \in 1 .. Len(sent) /\ ev = sent[Delivered(r) + 1]
             /\ \A k \in r.known + 1 .. Delivered(r) + 1 : sent[k] \in r.seen \cup {ev}
             /\ r.known \in Nat
  <2>1. Waiting(r)
    BY <1>1, <1>3, <1>7 DEF TabInv, Chat
  <2>2. Delivered(r) \in Nat /\ Delivered(r) + Len(r.queue) = Taken
    BY <1>1, <1>4, <2>1 DEF Waiting, Delivered
  <2>3. Delivered(r) + 1 \in 1 .. Len(sent) /\ ev = sent[Delivered(r) + 1]
    BY <1>1, <1>4, <2>1, <2>2 DEF Waiting
  <2>4. r.known \in Nat
    BY <1>1 DEF TabTypes
  <2>5. ASSUME NEW k \in r.known + 1 .. Delivered(r) + 1 PROVE sent[k] \in r.seen \cup {ev}
    <3>1. CASE k = Delivered(r) + 1
      BY <2>3, <3>1
    <3>2. CASE k # Delivered(r) + 1
      <4>1. k \in r.known + 1 .. Delivered(r)
        BY <2>2, <2>4, <3>2
      <4> QED BY <2>1, <4>1 DEF Waiting
    <3> QED BY <3>1, <3>2
  <2> QED BY <2>1, <2>2, <2>3, <2>4, <2>5
<1>8. CASE ~ev.last
  <2>1. ASSUME r.own # 0 PROVE Waiting(took)
    <3>1. Delivered(took) = Delivered(r) + 1
      BY SMTT(30), <1>4, <1>5, <1>7, <1>1, <2>1 DEF Delivered
    <3>2. ASSUME NEW i \in 1 .. Len(rest) PROVE rest[i] = sent[Delivered(r) + 1 + i]
      <4>1. i + 1 \in 1 .. Len(r.queue) /\ rest[i] = r.queue[i + 1]
        BY <1>4
      <4>2. r.queue[i + 1] = sent[Delivered(r) + (i + 1)]
        BY <1>7, <2>1, <4>1 DEF Waiting
      <4> QED BY <1>7, <2>1, <4>1, <4>2
    <3> QED BY <1>5, <1>7, <2>1, <3>1, <3>2 DEF Waiting
  <2>2. TabInv(took)
    BY <1>1, <1>5, <2>1 DEF TabInv, OwnStream, Fresh, Chat
  <2> QED BY <1>1, <1>3, <1>5, <1>8, <2>2, TabStep DEF sessionVars, r
<1>9. CASE ev.last
  <2>1. ASSUME r.own # 0 PROVE Complete(done)
    <3> DEFINE n == Delivered(r) + 1
    <3>1. n \in 1 .. Len(sent) /\ sent[n] = ev /\ n \in Nat
      BY <1>7, <2>1
    <3>2. ASSUME NEW k \in r.known + 1 .. Len(sent), sent[k].turn = ev.turn,
                 ev.turn \notin astray
          PROVE  sent[k] \in r.seen \cup {ev}
      <4>1. CASE k <= n
        BY <1>7, <2>1, <3>1, <4>1
      <4>2. CASE n < k
        <5>1. k \in 1 .. Len(sent)
          BY <1>1, <1>7, <2>1, <4>2
        <5>2. sent[n].last /\ sent[n].turn \notin astray /\ n < k
          BY <1>9, <3>1, <3>2, <4>2
        <5> QED BY <1>1, <3>1, <3>2, <5>1, <5>2 DEF StreamInv, InOrder
      <4> QED BY <1>7, <2>1, <3>1, <4>1, <4>2
    <3>3. \A k \in r.known + 1 .. n : sent[k] \in r.seen \cup {ev}
      BY <1>7, <2>1
    <3> QED BY <1>1, <1>6, <1>9, <3>1, <3>2, <3>3 DEF Complete
  <2>2. TabInv(done)
    BY <1>1, <1>6, <2>1 DEF TabInv, OwnStream, Fresh, Chat
  <2> QED BY <1>1, <1>3, <1>6, <1>9, <2>2, TabStep DEF sessionVars, r
<1> QED BY <1>8, <1>9

---------------------------------------------------------------------------
\* Every step keeps the invariant.
LEMMA StreamStep == StreamInv /\ [Next]_vars => StreamInv'
<1> SUFFICES ASSUME StreamInv, [Next]_vars PROVE StreamInv'
  OBVIOUS
<1>1. CASE UNCHANGED vars
  <2>1. /\ UNCHANGED <<submitted, begun, turn, owed, astray, counter, sending, source, sent>>
        /\ client' = client
    BY <1>1 DEF vars, sessionVars, turnVars
  <2>2. StreamTypes' /\ Turns' /\ InOrder'
    BY <2>1 DEF StreamInv, StreamTypes, Turns, InOrder
  <2>3. Sends'
    BY <2>1 DEF StreamInv, Sends, Sending
  <2> QED BY <2>1, <2>2, <2>3, TabsAlone DEF StreamInv
<1>2. CASE TurnStart \/ Escape \/ Vanish \/ \E e \in Emitters : Store(e) \/ StoreFails(e)
  BY <1>2, SessionSteps
<1>6. CASE \E e \in Emitters :
             Chunk(e) \/ Close(e) \/ Fail(e) \/ Interrupted(e) \/ Report(e)
  BY <1>6, NumberSteps
<1>3. CASE Broadcast
  BY <1>3, BroadcastStep
<1>4. CASE \E e \in Emitters : Put(e)
  BY <1>4, PutStep
<1>5. CASE \E c \in Clients : Stream(c) \/ Browse(c)
  BY <1>5, ChatStep, AttachStep, ReceiveStep DEF Stream, Browse
<1> QED BY <1>1, <1>2, <1>3, <1>4, <1>5, <1>6 DEF Next, Emit, End

\* What has been put and was not delivered waits in order for every chat stream,
\* for any number of tabs, turns and events.
THEOREM StreamInvariant == Spec => []StreamInv
BY StreamStarts, StreamStep, PTL DEF Spec

---------------------------------------------------------------------------
(* Ranks: stored events have numbers of their own, and so a rank each.        *)
Distinct(evs) ==
  /\ IsFiniteSet(evs) /\ evs \subseteq Events
  /\ \A x, y \in evs : x.seq = y.seq => x = y

\* Cardinalities of intervals.
LEMMA UpTo == ASSUME NEW n \in Nat PROVE IsFiniteSet(1 .. n) /\ Cardinality(1 .. n) = n
<1>1. 1 \in Int /\ n \in Int
  OBVIOUS
<1>2. IsFiniteSet(1 .. n) /\ Cardinality(1 .. n) = IF 1 > n THEN 0 ELSE n - 1 + 1
  BY <1>1, FS_Interval
<1> QED BY <1>2

LEMMA RankIs ==
  ASSUME NEW evs, Distinct(evs), NEW ev \in evs
  PROVE  /\ Cardinality(evs) \in Nat /\ Rank(evs, ev) \in 1 .. Cardinality(evs)
         /\ IsFiniteSet({x \in evs : x.seq <= ev.seq})
<1> DEFINE below == {x \in evs : x.seq <= ev.seq}
<1>1. below \subseteq evs /\ IsFiniteSet(evs) /\ ev \in below
  BY DEF Distinct, Events
<1> HIDE DEF below
<1>2. /\ IsFiniteSet(below) /\ Cardinality(below) \in Nat /\ Cardinality(evs) \in Nat
      /\ Cardinality(below) <= Cardinality(evs)
  BY <1>1, FS_Subset, FS_CardinalityType
<1>3. Cardinality(below) # 0
  BY <1>1, <1>2, FS_EmptySet
<1>4. Cardinality(below) \in 1 .. Cardinality(evs)
  BY <1>2, <1>3
<1> QED BY <1>2, <1>4 DEF below, Rank

LEMMA RankGrows ==
  ASSUME NEW evs, Distinct(evs), NEW x \in evs, NEW y \in evs, x.seq < y.seq
  PROVE  Rank(evs, x) < Rank(evs, y)
<1> DEFINE low == {z \in evs : z.seq <= x.seq}
           high == {z \in evs : z.seq <= y.seq}
<1>1. /\ y \in high /\ y \notin low /\ low \subseteq high
  BY DEF Distinct, Events
<1>2. /\ IsFiniteSet(low) /\ IsFiniteSet(high)
      /\ Rank(evs, x) = Cardinality(low) /\ Rank(evs, y) = Cardinality(high)
  BY RankIs DEF Rank
<1> HIDE DEF low, high
<1>3. low \subseteq high \ {y} /\ IsFiniteSet(high \ {y})
      /\ Cardinality(high \ {y}) = Cardinality(high) - 1
  BY <1>1, <1>2, FS_RemoveElement
<1>4. /\ Cardinality(low) <= Cardinality(high \ {y})
      /\ Cardinality(low) \in Nat /\ Cardinality(high) \in Nat
  BY <1>2, <1>3, FS_Subset, FS_CardinalityType
<1>5. /\ Cardinality(high \ {y}) < Cardinality(high)
      /\ Cardinality(low) < Cardinality(high)
  BY <1>3, <1>4
<1> QED BY <1>2, <1>5

LEMMA RankIsOne ==
  ASSUME NEW evs, Distinct(evs), NEW x \in evs, NEW y \in evs,
         Rank(evs, x) = Rank(evs, y)
  PROVE  x = y
<1>1. /\ x.seq \in Nat /\ y.seq \in Nat
      /\ Rank(evs, x) \in Nat /\ Rank(evs, y) \in Nat
  <2>1. x \in Events /\ y \in Events
    BY DEF Distinct
  <2>2. /\ Cardinality(evs) \in Nat /\ Rank(evs, x) \in 1 .. Cardinality(evs)
        /\ Rank(evs, y) \in 1 .. Cardinality(evs)
    BY RankIs
  <2> QED BY <2>1, <2>2 DEF Events
<1>2. ~(x.seq < y.seq) /\ ~(y.seq < x.seq)
  <2>1. ASSUME x.seq < y.seq PROVE FALSE
    BY <1>1, <2>1, RankGrows
  <2>2. ASSUME y.seq < x.seq PROVE FALSE
    BY <1>1, <2>2, RankGrows
  <2> QED BY <2>1, <2>2
<1>3. x.seq = y.seq
  BY <1>1, <1>2
<1> QED BY <1>3 DEF Distinct

\* Every rank is some event's: there are as many ranks as events.
LEMMA RankExists ==
  ASSUME NEW evs, Distinct(evs), NEW k \in 1 .. Cardinality(evs)
  PROVE  \E ev \in evs : Rank(evs, ev) = k
<1> SUFFICES ASSUME \A ev \in evs : Rank(evs, ev) # k PROVE FALSE
  OBVIOUS
<1> DEFINE c == Cardinality(evs)
           T == (1 .. c) \ {k}
           f == [ev \in evs |-> Rank(evs, ev)]
<1>1. IsFiniteSet(evs) /\ c \in Nat
  BY FS_CardinalityType DEF Distinct
<1>2. IsFiniteSet(T) /\ Cardinality(T) = c - 1
  <2>1. k \in 1 .. c
    OBVIOUS
  <2> HIDE DEF c
  <2>2. IsFiniteSet(1 .. c) /\ Cardinality(1 .. c) = c
    BY <1>1, UpTo
  <2> QED BY <2>1, <2>2, FS_RemoveElement
<1>3. f \in [evs -> T]
  BY RankIs
<1>4. Cardinality(T) < Cardinality(evs)
  BY <1>1, <1>2
<1> HIDE DEF f, T
<1>5. PICK x, y \in evs : x # y /\ f[x] = f[y]
  BY <1>1, <1>2, <1>3, <1>4, FS_PigeonHole
<1>6. Rank(evs, x) = Rank(evs, y)
  BY <1>5 DEF f
<1> QED BY <1>5, <1>6, RankIsOne

\* What load_events_after returns: each of the events, in the order of their numbers.
Sorted(s) == \A i, j \in 1 .. Len(s) : i < j => s[i].seq < s[j].seq

LEMMA BySeqIs ==
  ASSUME NEW evs, Distinct(evs)
  PROVE  /\ BySeq(evs) \in Seq(evs)
         /\ \A ev \in evs : \E i \in 1 .. Len(BySeq(evs)) : BySeq(evs)[i] = ev
         /\ Sorted(BySeq(evs))
<1> DEFINE c == Cardinality(evs)
           s == BySeq(evs)
<1>1. c \in Nat /\ s = [k \in 1 .. c |-> CHOOSE ev \in evs : Rank(evs, ev) = k]
  BY FS_CardinalityType DEF Distinct, BySeq
<1> HIDE DEF s
<1>2. ASSUME NEW k \in 1 .. c PROVE s[k] \in evs /\ Rank(evs, s[k]) = k
  BY <1>1, <1>2, RankExists
<1> HIDE DEF c
<1>3. s \in Seq(evs) /\ Len(s) = c
  <2>1. s \in [1 .. c -> evs]
    BY <1>1, <1>2
  <2> QED BY <1>1, <2>1
<1>4. ASSUME NEW ev \in evs PROVE \E i \in 1 .. Len(s) : s[i] = ev
  <2>1. Rank(evs, ev) \in 1 .. c
    BY RankIs DEF c
  <2>2. s[Rank(evs, ev)] = ev
    BY <1>2, <2>1, RankIsOne
  <2> QED BY <1>3, <2>1, <2>2
<1>5. ASSUME NEW i \in 1 .. c, NEW j \in 1 .. c, i < j PROVE s[i].seq < s[j].seq
  <2>1. /\ s[i] \in evs /\ s[j] \in evs /\ Rank(evs, s[i]) = i /\ Rank(evs, s[j]) = j
        /\ i \in Nat /\ j \in Nat
    BY <1>2
  <2>2. s[i].seq \in Nat /\ s[j].seq \in Nat
    BY <2>1 DEF Distinct, Events
  <2>3. ~(s[j].seq < s[i].seq)
    <3>1. ASSUME s[j].seq < s[i].seq PROVE FALSE
      <4>1. Rank(evs, s[j]) < Rank(evs, s[i])
        BY <2>1, <3>1, RankGrows
      <4> QED BY <1>5, <2>1, <4>1
    <3> QED BY <3>1
  <2>4. s[i].seq # s[j].seq
    BY <1>5, <2>1 DEF Distinct
  <2> QED BY <2>2, <2>3, <2>4
<1> QED BY <1>3, <1>4, <1>5 DEF Sorted, s

---------------------------------------------------------------------------
(* The numbers of events: each event has its own, and an event that was stored *)
(* keeps it.                                                               *)

\* An event has a number that was handed out, and no other.
Own(ev, c) == ev.n \in 1 .. c /\ ev.seq \in {0, ev.n}

Numbers ==
  /\ \A e \in Sending : Own(sending[e], counter)
  /\ \A k \in DOMAIN sent : Own(sent[k], counter)
  /\ \A e, f \in Sending : sending[e].n = sending[f].n => e = f
  /\ \A e \in Sending : \A k \in DOMAIN sent : sent[k].n # sending[e].n
  /\ \A j, k \in DOMAIN sent : sent[j].n = sent[k].n => j = k

\* What is stored are events, each under its number; a numbered event is put when it
\* is stored.
Rows ==
  /\ Distinct(rows)
  /\ \A ev \in rows : Own(ev, counter) /\ ev.seq # 0
  /\ \A e \in Sending : \A ev \in rows : ev.n = sending[e].n => ev = sending[e]
  /\ \A e \in Sending : sending[e].seq = 0 => sending[e] \notin rows
  /\ \A k \in DOMAIN sent : sent[k].seq # 0 => sent[k] \in rows

\* What a re-attached stream has still to deliver of the events that were put when it
\* read the stored ones: nothing but what is in its replay, or came after the event
\* that ended it there.
Attached(r) ==
  r.own = 0 /\ r.pc \in {"loaded", "replaying", "streaming", "ended", "replayed"}

ToCome(r, ev, rs) ==
  \/ ev \in r.seen
  \/ /\ r.pc \in {"loaded", "replaying"}
     /\ \E i \in 1 .. Len(r.replay) : r.replay[i] = ev
  \/ /\ r.pc = "replayed" /\ r.newest \in rs /\ r.newest.last
     /\ r.newest.seq < ev.seq

\* A tab, when s are the events put and rs those stored.
CatchTab(r, s, rs) ==
  /\ r.known \in 0 .. Len(s) /\ r.since \in Nat /\ r.after \in Nat
  /\ r.pc \in {"loaded", "replaying"} => r.replay \in Seq(rs) /\ Sorted(r.replay)
  /\ Attached(r) => \A k \in 1 .. r.known : s[k].seq > r.since => ToCome(r, s[k], rs)

CatchInv ==
  /\ Numbers /\ Rows
  /\ \A c \in Clients : CatchTab(client[c], sent, rows)

\* The events that are put and stored only become more.
LEMMA CatchTabGrows ==
  ASSUME NEW r, NEW s, NEW t, NEW rs, NEW rt, CatchTab(r, s, rs),
         Len(s) \in Nat, Len(t) \in Nat, Len(s) <= Len(t), rs \subseteq rt,
         \A k \in 1 .. Len(s) : t[k] = s[k]
  PROVE  CatchTab(r, t, rt)
<1>1. r.known \in 0 .. Len(t) /\ r.since \in Nat /\ r.after \in Nat
  BY DEF CatchTab
<1>2. Seq(rs) \subseteq Seq(rt)
  OBVIOUS
<1>3. r.pc \in {"loaded", "replaying"} => r.replay \in Seq(rt) /\ Sorted(r.replay)
  BY <1>2 DEF CatchTab
<1>4. ASSUME Attached(r), NEW k \in 1 .. r.known, t[k].seq > r.since
      PROVE  ToCome(r, t[k], rt)
  <2>1. k \in 1 .. Len(s) /\ t[k] = s[k]
    BY DEF CatchTab
  <2>2. ToCome(r, s[k], rs)
    BY <1>4, <2>1 DEF CatchTab
  <2> QED BY <2>1, <2>2 DEF ToCome
<1> QED BY <1>1, <1>3, <1>4 DEF CatchTab

\* Nothing is put in the beginning.
LEMMA CatchStarts == Init => CatchInv
<1> SUFFICES ASSUME Init PROVE CatchInv
  OBVIOUS
<1>1. \A c \in Clients : client[c] = NewClient
  BY DEF Init
<1>2. sent = <<>> /\ rows = {} /\ Sending = {} /\ Len(sent) = 0 /\ DOMAIN sent = {}
  BY DEF Init, Sending
<1>3. Numbers
  BY <1>2 DEF Numbers
<1>4. Rows
  BY <1>2, FS_EmptySet DEF Rows, Distinct
<1>5. /\ NewClient.known = 0 /\ NewClient.since = 0 /\ NewClient.after = 0
      /\ NewClient.pc = "off"
  BY DEF NewClient
<1>6. CatchTab(NewClient, sent, rows)
  BY <1>2, <1>5 DEF CatchTab, Attached
<1> QED BY <1>1, <1>3, <1>4, <1>6 DEF CatchInv

\* A step that leaves the tabs alone.
LEMMA CatchSession ==
  ASSUME StreamInv, CatchInv, Numbers', Rows', UNCHANGED client,
         Len(sent') \in Nat, Len(sent) <= Len(sent'), rows \subseteq rows',
         \A k \in 1 .. Len(sent) : sent'[k] = sent[k]
  PROVE  CatchInv'
<1>1. ASSUME NEW c \in Clients PROVE CatchTab(client[c], sent', rows')
  <2>1. CatchTab(client[c], sent, rows) /\ Len(sent) \in Nat
    BY DEF CatchInv, StreamInv, StreamTypes
  <2> QED BY <2>1, CatchTabGrows
<1> QED BY <1>1 DEF CatchInv

\* The session: a turn begins, raises or vanishes.
LEMMA CatchTurns ==
  ASSUME StreamInv, CatchInv, TurnStart \/ Escape \/ Vanish
  PROVE  CatchInv'
BY DEF CatchInv, Numbers, Own, Rows, Sending, TurnStart, Escape, Vanish

\* An event that is numbered.
LEMMA NumberIs ==
  ASSUME NEW e \in Emitters,
         Chunk(e) \/ Close(e) \/ Fail(e) \/ Interrupted(e) \/ Report(e)
  PROVE  \E t, last, S : Number(e, t, last, S)
BY DEF Chunk, Close, Fail, Interrupted, Report

\* A new number is greater than all there are.
LEMMA CatchNumber ==
  ASSUME StreamInv, CatchInv, NEW e \in Emitters,
         Chunk(e) \/ Close(e) \/ Fail(e) \/ Interrupted(e) \/ Report(e)
  PROVE  CatchInv'
<1> DEFINE n == counter + 1
<1>1. PICK t, last, S : Number(e, t, last, S)
  BY NumberIs
<1> DEFINE ev == [n |-> n, seq |-> n, turn |-> t, last |-> last]
<1>2. /\ counter \in Nat /\ counter' = n /\ e \notin Sending
      /\ sending' = [f \in Emitters |-> IF f = e THEN ev
                                        ELSE IF f \in S THEN NoEvent ELSE sending[f]]
      /\ UNCHANGED <<rows, sent, client>>
  BY <1>1 DEF Number, StreamInv, StreamTypes
<1>3. ev.n = n /\ ev.seq = n
  OBVIOUS
<1> HIDE DEF ev
<1>4. /\ \A f \in Sending' :
           (f = e /\ sending'[f] = ev)
           \/ (f # e /\ f \in Sending /\ sending'[f] = sending[f])
      /\ Sending \subseteq Emitters /\ Sending' \subseteq Emitters
  BY <1>2 DEF Sending
<1>5. /\ \A f \in Sending : Own(sending[f], counter)
      /\ \A k \in DOMAIN sent : Own(sent[k], counter)
      /\ \A x \in rows : Own(x, counter)
  BY DEF CatchInv, Numbers, Rows
<1>6. \A x : Own(x, counter) => x.n \in Nat /\ x.n < n /\ Own(x, counter')
  BY <1>2 DEF Own
<1>7. Own(ev, counter')
  BY <1>2, <1>3 DEF Own
<1>8. Numbers'
  <2>1. \A f \in Sending' : Own(sending'[f], counter')
    BY <1>4, <1>5, <1>6, <1>7
  <2>2. \A k \in DOMAIN sent' : Own(sent'[k], counter')
    BY <1>2, <1>5, <1>6
  <2>3. /\ \A f, g \in Sending' : sending'[f].n = sending'[g].n => f = g
        /\ \A f \in Sending' : \A k \in DOMAIN sent : sent[k].n # sending'[f].n
    BY <1>3, <1>4, <1>5, <1>6 DEF CatchInv, Numbers
  <2> QED BY <1>2, <2>1, <2>2, <2>3 DEF CatchInv, Numbers
<1>9. Rows'
  <2>1. /\ \A x \in rows : Own(x, counter') /\ x.n # n
        /\ \A f \in Sending' : \A x \in rows : x.n = sending'[f].n => x = sending'[f]
        /\ \A f \in Sending' : sending'[f].seq = 0 => sending'[f] \notin rows
    BY <1>2, <1>3, <1>4, <1>5, <1>6 DEF CatchInv, Rows
  <2> QED BY <1>2, <2>1 DEF CatchInv, Rows
<1> QED BY <1>2, <1>8, <1>9, CatchSession DEF StreamInv, StreamTypes

\* An event that is stored has a number that no stored event has.
LEMMA CatchStore ==
  ASSUME StreamInv, CatchInv, NEW e \in Emitters, Store(e)
  PROVE  CatchInv'
<1> DEFINE ev == sending[e]
<1>1. /\ e \in Sending /\ ev.seq # 0 /\ ev \notin rows /\ rows' = rows \cup {ev}
      /\ UNCHANGED <<counter, sending, sent, client>>
  BY DEF Store, Stored
<1>2. ev \in Events /\ Own(ev, counter) /\ Sending' = Sending
  BY <1>1 DEF StreamInv, StreamTypes, CatchInv, Numbers, Sending
<1>3. Numbers'
  BY <1>1, <1>2 DEF CatchInv, Numbers, Own
<1>4. \A x \in rows : x.seq # ev.seq /\ Own(x, counter) /\ x.seq = x.n
  BY <1>1, <1>2 DEF CatchInv, Rows, Own
<1>5. Distinct(rows')
  <2>1. IsFiniteSet(rows')
    BY <1>1, FS_AddElement DEF CatchInv, Rows, Distinct
  <2> QED BY <1>1, <1>2, <1>4, <2>1 DEF CatchInv, Rows, Distinct
<1>6. Rows'
  <2>1. \A x \in rows' : Own(x, counter') /\ x.seq # 0
    BY <1>1, <1>2 DEF CatchInv, Rows, Own
  <2>2. /\ \A f \in Sending' : \A x \in rows' : x.n = sending[f].n => x = sending[f]
        /\ \A f \in Sending' : sending[f].seq = 0 => sending[f] \notin rows'
    BY <1>1, <1>2 DEF CatchInv, Rows, Numbers
  <2>3. \A k \in DOMAIN sent : sent[k].seq # 0 => sent[k] \in rows'
    BY <1>1 DEF CatchInv, Rows
  <2> QED BY <1>1, <1>2, <1>5, <2>1, <2>2, <2>3 DEF Rows
<1> QED BY <1>1, <1>3, <1>6, CatchSession DEF StreamInv, StreamTypes

\* An event that was not stored loses its number.
LEMMA CatchStoreFails ==
  ASSUME StreamInv, CatchInv, NEW e \in Emitters, StoreFails(e)
  PROVE  CatchInv'
<1>1. /\ e \in Sending /\ sending[e].seq # 0 /\ sending[e] \notin rows
      /\ sending' = [sending EXCEPT ![e].seq = 0]
      /\ UNCHANGED <<counter, rows, sent, client>>
  BY DEF StoreFails, Stored
<1>2. /\ sending[e] \in Events
      /\ sending'[e].n = sending[e].n /\ sending'[e].last = sending[e].last
      /\ sending'[e].seq = 0
      /\ \A f \in Emitters \ {e} : sending'[f] = sending[f]
  BY <1>1 DEF StreamInv, StreamTypes, Sending, Events
<1>3. Sending' \subseteq Sending
  BY <1>1, <1>2 DEF Sending
<1>4. Sending \subseteq Emitters
  BY DEF Sending
<1>5. Numbers'
  BY <1>1, <1>2, <1>3, <1>4 DEF CatchInv, Numbers, Own
<1>7. Rows'
  <2>1. \A x \in rows : x.seq # 0 /\ x.n # sending[e].n
    BY <1>1 DEF CatchInv, Rows
  <2>2. \A f \in Sending' : \A x \in rows : x.n = sending'[f].n => x = sending'[f]
    BY <1>2, <1>3, <1>4, <2>1 DEF CatchInv, Rows
  <2>3. \A f \in Sending' : sending'[f].seq = 0 => sending'[f] \notin rows
    BY <2>1
  <2> QED BY <1>1, <2>2, <2>3 DEF CatchInv, Rows
<1> QED BY <1>1, <1>5, <1>7, CatchSession DEF StreamInv, StreamTypes

\* An event is put under its number.
LEMMA CatchPut ==
  ASSUME StreamInv, CatchInv, NEW e \in Emitters, Put(e)
  PROVE  CatchInv'
<1> DEFINE ev == sending[e]
           m == Len(sent) + 1
<1>1. /\ e \in Sending /\ sent' = Append(sent, ev)
      /\ sending' = [sending EXCEPT ![e] = NoEvent]
      /\ ev \in rows \/ ev.seq = 0
      /\ UNCHANGED <<counter, rows, client>>
  BY DEF Put, Sent, Stored
<1>2. /\ ev \in Events
      /\ \A f \in Emitters : sending'[f] = IF f = e THEN NoEvent ELSE sending[f]
  BY <1>1 DEF StreamInv, StreamTypes, Sending
<1>3. /\ Sending' = Sending \ {e} /\ \A f \in Sending' : sending'[f] = sending[f]
  BY <1>2 DEF Sending
<1> HIDE DEF ev
<1>4. /\ sent \in Seq(Events) /\ Len(sent) \in Nat /\ Len(sent') = m
      /\ \A i \in 1 .. Len(sent) : sent'[i] = sent[i]
      /\ sent'[m] = ev
      /\ DOMAIN sent = 1 .. Len(sent) /\ DOMAIN sent' = 1 .. m
  BY <1>1, <1>2 DEF StreamInv, StreamTypes
<1>5. \A i \in DOMAIN sent' : (i \in DOMAIN sent /\ sent'[i] = sent[i]) \/ (i = m /\ sent'[i] = ev)
  BY <1>4
<1>7. Own(ev, counter) /\ \A k \in DOMAIN sent : Own(sent[k], counter)
  BY <1>1 DEF CatchInv, Numbers, ev
<1>8. Numbers'
  <2>1. \A i \in DOMAIN sent' : Own(sent'[i], counter')
    BY <1>1, <1>5, <1>7 DEF Own
  <2>2. /\ \A f \in Sending' : \A k \in DOMAIN sent : sent[k].n # sending[f].n
        /\ \A f \in Sending' : ev.n # sending[f].n
        /\ \A k \in DOMAIN sent : sent[k].n # ev.n
    BY <1>1, <1>3 DEF CatchInv, Numbers, ev
  <2>3. \A i, j \in DOMAIN sent' : sent'[i].n = sent'[j].n => i = j
    BY <1>5, <2>2 DEF CatchInv, Numbers
  <2>4. \A f \in Sending' : Own(sending'[f], counter')
    BY <1>1, <1>3 DEF CatchInv, Numbers, Own
  <2>5. \A f, g \in Sending' : sending'[f].n = sending'[g].n => f = g
    BY <1>3 DEF CatchInv, Numbers
  <2>6. \A f \in Sending' : \A i \in DOMAIN sent' : sent'[i].n # sending'[f].n
    BY <1>3, <1>5, <2>2
  <2> QED BY <2>1, <2>3, <2>4, <2>5, <2>6 DEF Numbers
<1>9. Rows'
  <2>1. \A i \in DOMAIN sent' : sent'[i].seq # 0 => sent'[i] \in rows
    BY <1>1, <1>5 DEF CatchInv, Rows
  <2>2. \A x \in rows : Own(x, counter')
    BY <1>1 DEF CatchInv, Rows, Own
  <2> QED BY <1>1, <1>3, <2>1, <2>2 DEF CatchInv, Rows
<1> QED BY <1>1, <1>4, <1>8, <1>9, CatchSession

---------------------------------------------------------------------------
(* What an assignment to one field of a tab leaves of the others.           *)
Texts(q, r) == q.replay = r.replay /\ q.seen = r.seen /\ q.newest = r.newest
Marks(q, r) == q.after = r.after /\ q.since = r.since

LEMMA PcIs ==
  ASSUME NEW r, Tab(r), NEW v
  PROVE  LET q == [r EXCEPT !.pc = v] IN
           /\ Tab(q) /\ q.pc = v /\ Texts(q, r) /\ Marks(q, r)
           /\ q.own = r.own /\ q.known = r.known
<1> DEFINE q == [r EXCEPT !.pc = v]
<1>1. Tab(q)
  BY DEF Tab
<1>2. Texts(q, r) /\ Marks(q, r) /\ q.pc = v /\ q.own = r.own /\ q.known = r.known
  BY DEF Tab, Texts, Marks
<1> QED BY <1>1, <1>2

LEMMA QueueIs ==
  ASSUME NEW r, Tab(r), NEW v
  PROVE  LET q == [r EXCEPT !.queue = v] IN
           /\ Tab(q) /\ q.pc = r.pc /\ Texts(q, r) /\ Marks(q, r)
           /\ q.own = r.own /\ q.known = r.known
<1> DEFINE q == [r EXCEPT !.queue = v]
<1>1. Tab(q)
  BY DEF Tab
<1>2. Texts(q, r) /\ Marks(q, r) /\ q.pc = r.pc /\ q.own = r.own /\ q.known = r.known
  BY DEF Tab, Texts, Marks
<1> QED BY <1>1, <1>2

LEMMA ReplayIs ==
  ASSUME NEW r, Tab(r), NEW v
  PROVE  LET q == [r EXCEPT !.replay = v] IN
           /\ Tab(q) /\ q.replay = v /\ q.pc = r.pc /\ Marks(q, r)
           /\ q.seen = r.seen /\ q.newest = r.newest
           /\ q.own = r.own /\ q.known = r.known
<1> DEFINE q == [r EXCEPT !.replay = v]
<1>1. Tab(q)
  BY DEF Tab
<1>2. /\ q.replay = v /\ q.pc = r.pc /\ Marks(q, r)
      /\ q.seen = r.seen /\ q.newest = r.newest
      /\ q.own = r.own /\ q.known = r.known
  BY DEF Tab, Marks
<1> QED BY <1>1, <1>2

LEMMA NumbersAre ==
  ASSUME NEW r, Tab(r), NEW v
  PROVE  /\ LET q == [r EXCEPT !.own = v] IN
              /\ Tab(q) /\ q.pc = r.pc /\ Texts(q, r) /\ Marks(q, r)
              /\ q.own = v /\ q.known = r.known
         /\ LET q == [r EXCEPT !.known = v] IN
              /\ Tab(q) /\ q.pc = r.pc /\ Texts(q, r) /\ Marks(q, r)
              /\ q.own = r.own /\ q.known = v
         /\ LET q == [r EXCEPT !.since = v] IN
              /\ Tab(q) /\ q.pc = r.pc /\ Texts(q, r) /\ q.after = r.after
              /\ q.since = v /\ q.own = r.own /\ q.known = r.known
<1> DEFINE o == [r EXCEPT !.own = v]
           k == [r EXCEPT !.known = v]
           s == [r EXCEPT !.since = v]
<1>1. Tab(o)
  BY DEF Tab
<1>2. Tab(k)
  BY DEF Tab
<1>3. Tab(s)
  BY DEF Tab
<1>4. Texts(o, r) /\ Marks(o, r) /\ o.pc = r.pc /\ o.own = v /\ o.known = r.known
  BY DEF Tab, Texts, Marks
<1>5. Texts(k, r) /\ Marks(k, r) /\ k.pc = r.pc /\ k.own = r.own /\ k.known = v
  BY DEF Tab, Texts, Marks
<1>6. /\ Texts(s, r) /\ s.after = r.after /\ s.since = v /\ s.pc = r.pc
      /\ s.own = r.own /\ s.known = r.known
  BY DEF Tab, Texts
<1> QED BY <1>1, <1>2, <1>3, <1>4, <1>5, <1>6

LEMMA TookIs ==
  ASSUME NEW r, Tab(r), NEW ev
  PROVE  LET q == Took(r, ev) IN
           /\ Tab(q) /\ q.pc = r.pc /\ q.replay = r.replay
           /\ q.seen = r.seen \cup {ev} /\ q.newest = ev
           /\ q.after = (IF ev.seq = 0 THEN r.after ELSE ev.seq) /\ q.since = r.since
           /\ q.own = r.own /\ q.known = r.known
<1> DEFINE seen == r.seen \cup {ev}
           after == IF ev.seq = 0 THEN r.after ELSE ev.seq
           heard == [r EXCEPT !.seen = seen]
           latest == [heard EXCEPT !.newest = ev]
           t == [latest EXCEPT !.after = after]
<1>1. Took(r, ev) = t
  BY DEF Took
<1> HIDE DEF after, seen
<1>2. Tab(heard)
  BY DEF Tab
<1>3. /\ heard.seen = seen /\ heard.pc = r.pc /\ heard.replay = r.replay
      /\ Marks(heard, r) /\ heard.own = r.own /\ heard.known = r.known
  BY DEF Tab, Marks
<1> HIDE DEF heard
<1>4. Tab(latest)
  BY <1>2 DEF Tab
<1>5. /\ latest.seen = heard.seen /\ latest.pc = heard.pc /\ latest.replay = heard.replay
      /\ latest.newest = ev
      /\ Marks(latest, heard) /\ latest.own = heard.own /\ latest.known = heard.known
  BY <1>2 DEF Tab, Marks
<1> HIDE DEF latest
<1>6. Tab(t)
  BY <1>4 DEF Tab
<1>7. /\ t.seen = latest.seen /\ t.pc = latest.pc /\ t.replay = latest.replay
      /\ t.newest = latest.newest /\ t.after = after /\ t.since = latest.since
      /\ t.own = latest.own /\ t.known = latest.known
  BY <1>4 DEF Tab
<1> HIDE DEF t
<1> QED BY <1>1, <1>3, <1>5, <1>6, <1>7 DEF Marks, seen, after

---------------------------------------------------------------------------
\* A step of one tab.
LEMMA CatchStep ==
  ASSUME StreamInv, CatchInv, UNCHANGED <<counter, sending, rows, sent>>,
         NEW c \in Clients, NEW r, CatchTab(r, sent, rows),
         client' = [client EXCEPT ![c] = r]
  PROVE  CatchInv'
<1>1. \A d \in Clients : client'[d] = IF d = c THEN r ELSE client[d]
  BY DEF StreamInv, StreamTypes
<1>2. Numbers' /\ Rows'
  BY DEF CatchInv, Numbers, Own, Rows, Sending
<1> QED BY <1>1, <1>2 DEF CatchInv

\* Queues are no part of what is to come.
LEMMA CatchBroadcast ==
  ASSUME StreamInv, CatchInv, Broadcast
  PROVE  CatchInv'
<1>1. UNCHANGED <<counter, sending, rows, sent>>
  BY DEF Broadcast
<1>2. Numbers' /\ Rows'
  BY <1>1 DEF CatchInv, Numbers, Own, Rows, Sending
<1>3. ASSUME NEW c \in Clients PROVE CatchTab(client'[c], sent, rows)
  <2> DEFINE r == client[c]
             longer == Append(r.queue, Head(source))
             q == [r EXCEPT !.queue = longer]
  <2>1. Tab(r) /\ CatchTab(r, sent, rows)
    BY DEF StreamInv, StreamTypes, CatchInv
  <2>2. client'[c] = r \/ client'[c] = q
    BY DEF Broadcast
  <2> HIDE DEF r, longer
  <2>3. /\ q.pc = r.pc /\ Texts(q, r) /\ Marks(q, r)
        /\ q.own = r.own /\ q.known = r.known
    BY <2>1, QueueIs
  <2> HIDE DEF q
  <2>4. CatchTab(q, sent, rows)
    BY <2>1, <2>3 DEF CatchTab, Attached, ToCome, Texts, Marks
  <2> QED BY <2>1, <2>2, <2>4
<1> QED BY <1>1, <1>2, <1>3 DEF CatchInv

LEMMA KeptIs ==
  ASSUME NEW r
  PROVE  /\ Tab(Kept(r)) /\ Kept(r).pc = "off" /\ Kept(r).after = r.after
         /\ Kept(r).since = 0 /\ Kept(r).own = 0 /\ Kept(r).known = 0
<1> DEFINE after == r.after
           q == [pc |-> "off", queue |-> <<>>, replay |-> <<>>, seen |-> {},
                 newest |-> NoEvent, after |-> after, since |-> 0, own |-> 0,
                 known |-> 0]
<1>1. Kept(r) = q
  <2>1. Kept(r) = [NewClient EXCEPT !.after = after]
    BY DEF Kept
  <2> HIDE DEF after
  <2> QED BY <2>1 DEF NewClient
<1>2. Tab(q)
  BY DEF Tab
<1> QED BY <1>1, <1>2

\* Chat streams replay nothing.
LEMMA CatchChat ==
  ASSUME StreamInv, CatchInv, NEW c \in Clients,
         ChatSubscribe(c) \/ ChatSubmit(c) \/ ChatRefused(c) \/ Drop(c)
  PROVE  CatchInv'
<1> DEFINE r == client[c]
<1>1. /\ Tab(r) /\ CatchTab(r, sent, rows) /\ submitted \in Nat /\ Len(sent) \in Nat
  BY DEF StreamInv, StreamTypes, CatchInv
<1>2. CASE ChatSubscribe(c)
  <2> DEFINE opened == [Kept(r) EXCEPT !.pc = "subscribed"]
             q == [opened EXCEPT !.known = Len(sent)]
  <2>1. client' = [client EXCEPT ![c] = q] /\ UNCHANGED sessionVars
    BY <1>2 DEF ChatSubscribe
  <2> HIDE DEF r
  <2>2. Tab(opened) /\ opened.pc = "subscribed" /\ opened.after = r.after /\ opened.since = 0
    BY KeptIs, PcIs DEF Marks
  <2> HIDE DEF opened
  <2>3. q.pc = "subscribed" /\ q.after = r.after /\ q.since = 0 /\ q.known = Len(sent)
    BY <2>2, NumbersAre DEF Marks
  <2> HIDE DEF q
  <2>4. CatchTab(q, sent, rows)
    BY <1>1, <2>3 DEF CatchTab, Attached
  <2> QED BY <2>1, <2>4, CatchStep DEF sessionVars
<1>3. CASE ChatSubmit(c)
  <2> DEFINE own == submitted + 1
             opened == [r EXCEPT !.pc = "streaming"]
             q == [opened EXCEPT !.own = own]
  <2>1. client' = [client EXCEPT ![c] = q] /\ UNCHANGED <<counter, sending, rows, sent>>
    BY <1>3 DEF ChatSubmit
  <2>2. own # 0
    BY <1>1
  <2> HIDE DEF r, own
  <2>3. Tab(opened) /\ opened.pc = "streaming" /\ Marks(opened, r) /\ opened.known = r.known
    BY <1>1, PcIs
  <2> HIDE DEF opened
  <2>4. q.pc = opened.pc /\ Marks(q, opened) /\ q.known = opened.known /\ q.own = own
    BY ZenonT(40), <2>3, NumbersAre
  <2> HIDE DEF q
  <2>5. CatchTab(q, sent, rows)
    BY <1>1, <2>2, <2>3, <2>4 DEF CatchTab, Attached, Marks
  <2> QED BY <2>1, <2>5, CatchStep
<1>4. CASE ChatRefused(c)
  <2> DEFINE left == [r EXCEPT !.pc = "off"]
             q == [left EXCEPT !.queue = <<>>]
  <2>1. client' = [client EXCEPT ![c] = q] /\ UNCHANGED sessionVars
    BY <1>4 DEF ChatRefused
  <2> HIDE DEF r
  <2>2. Tab(left) /\ left.pc = "off" /\ Marks(left, r) /\ left.known = r.known
    BY <1>1, PcIs
  <2> HIDE DEF left
  <2>3. q.pc = "off" /\ Marks(q, left) /\ q.known = r.known
    BY <2>2, QueueIs
  <2> HIDE DEF q
  <2>4. CatchTab(q, sent, rows)
    BY <1>1, <2>2, <2>3 DEF CatchTab, Attached, Marks
  <2> QED BY <2>1, <2>4, CatchStep DEF sessionVars
<1>5. CASE Drop(c)
  <2>1. client' = [client EXCEPT ![c] = Kept(r)] /\ UNCHANGED sessionVars
    BY <1>5 DEF Drop
  <2>2. CatchTab(Kept(r), sent, rows)
    BY <1>1, KeptIs DEF CatchTab, Attached
  <2> QED BY <2>1, <2>2, CatchStep DEF sessionVars
<1> QED BY <1>2, <1>3, <1>4, <1>5

\* A stream re-attaches; the stored events after its last event id are its replay.
LEMMA CatchAttach ==
  ASSUME StreamInv, CatchInv, NEW c \in Clients,
         Reattach(c) \/ Load(c) \/ Resubscribe(c) \/ ReplayOver(c)
  PROVE  CatchInv'
<1> DEFINE r == client[c]
<1>1. /\ Tab(r) /\ CatchTab(r, sent, rows) /\ Len(sent) \in Nat
      /\ UNCHANGED sessionVars /\ OwnStream(r)
  BY DEF StreamInv, StreamTypes, TabInv, CatchInv, Reattach, Load, Loads, Resubscribe,
     ReplayOver
<1>2. CASE Reattach(c)
  <2> DEFINE asked == [r EXCEPT !.pc = "loading"]
             q == [asked EXCEPT !.since = r.after]
  <2>1. client' = [client EXCEPT ![c] = q]
    BY <1>2 DEF Reattach
  <2> HIDE DEF r
  <2>2. Tab(asked) /\ asked.pc = "loading" /\ Marks(asked, r) /\ asked.known = r.known
    BY <1>1, PcIs
  <2> HIDE DEF asked
  <2>3. q.pc = "loading" /\ q.after = asked.after /\ q.since = r.after /\ q.known = r.known
    BY <2>2, NumbersAre
  <2> HIDE DEF q
  <2>4. CatchTab(q, sent, rows)
    BY <1>1, <2>2, <2>3 DEF CatchTab, Attached, Marks
  <2> QED BY <1>1, <2>1, <2>4, CatchStep DEF sessionVars
<1>3. CASE Load(c)
  <2> DEFINE later == LaterRows(r.since)
             stored == BySeq(later)
             read == [r EXCEPT !.pc = "loaded"]
             told == [read EXCEPT !.replay = stored]
             q == [told EXCEPT !.known = Len(sent)]
  <2>1. client' = [client EXCEPT ![c] = q]
    BY <1>3 DEF Load, Loads
  <2>2. /\ later \subseteq rows /\ Distinct(later)
        /\ \A k \in DOMAIN sent : sent[k].seq > r.since => sent[k] \in later
    <3>1. later \subseteq rows /\ \A ev \in rows : ev.seq > r.since => ev \in later
      BY DEF LaterRows
    <3>2. Distinct(later)
      BY <3>1, FS_Subset DEF CatchInv, Rows, Distinct
    <3>3. \A k \in DOMAIN sent : sent[k].seq > r.since => sent[k].seq # 0
      BY <1>1 DEF CatchTab
    <3> QED BY <3>1, <3>2, <3>3 DEF CatchInv, Rows
  <2> HIDE DEF later
  <2>3. /\ stored \in Seq(later) /\ Sorted(stored)
        /\ \A ev \in later : \E i \in 1 .. Len(stored) : stored[i] = ev
    BY <2>2, BySeqIs
  <2>4. stored \in Seq(rows)
    BY <2>2, <2>3
  <2> HIDE DEF stored, r
  <2>5. Tab(read) /\ read.pc = "loaded" /\ Marks(read, r)
    BY <1>1, PcIs
  <2> HIDE DEF read
  <2>6. Tab(told) /\ told.pc = "loaded" /\ Marks(told, read) /\ told.replay = stored
    BY <2>5, ReplayIs
  <2> HIDE DEF told
  <2>7. /\ q.pc = "loaded" /\ Marks(q, told) /\ q.replay = stored /\ q.known = Len(sent)
    BY ZenonT(40), <2>6, NumbersAre DEF Texts
  <2> HIDE DEF q
  <2>8. q.since = r.since /\ q.after = r.after
    BY <2>5, <2>6, <2>7 DEF Marks
  <2>9. ASSUME NEW k \in 1 .. q.known, sent[k].seq > q.since PROVE ToCome(q, sent[k], rows)
    <3>1. k \in DOMAIN sent
      BY <2>7 DEF StreamInv, StreamTypes
    <3>2. sent[k] \in later
      BY <2>2, <2>8, <2>9, <3>1 DEF r
    <3> QED BY <2>3, <2>7, <3>2 DEF ToCome
  <2>10. CatchTab(q, sent, rows)
    BY <1>1, <2>3, <2>4, <2>7, <2>8, <2>9 DEF CatchTab
  <2> QED BY <1>1, <2>1, <2>10, CatchStep DEF sessionVars
<1>4. CASE Resubscribe(c) \/ ReplayOver(c)
  <2>1. PICK pc \in {"replaying", "streaming"} :
          /\ client' = [client EXCEPT ![c] = [r EXCEPT !.pc = pc]]
          /\ \/ pc = "replaying" /\ r.pc = "loaded"
             \/ pc = "streaming" /\ r.pc = "replaying" /\ r.replay = <<>>
    BY <1>4 DEF Resubscribe, ReplayOver
  <2> DEFINE q == [r EXCEPT !.pc = pc]
  <2> HIDE DEF r
  <2>2. /\ q.pc = pc /\ Texts(q, r) /\ Marks(q, r) /\ q.own = r.own /\ q.known = r.known
    BY <1>1, PcIs
  <2>3. client' = [client EXCEPT ![c] = q]
    BY <2>1
  <2> HIDE DEF q
  <2>4. Attached(r)
    BY <1>1, <2>1 DEF OwnStream, Attached
  <2>5. \A ev : ToCome(r, ev, rows) => ToCome(q, ev, rows)
    BY <2>1, <2>2 DEF ToCome, Texts
  <2>6. CatchTab(q, sent, rows)
    BY <1>1, <2>1, <2>2, <2>4, <2>5 DEF CatchTab, Texts, Marks
  <2> QED BY <1>1, <2>3, <2>6, CatchStep DEF sessionVars, r
<1> QED BY <1>2, <1>3, <1>4

\* A chat stream delivers; a re-attached one has by now delivered what was stored.
LEMMA CatchReceive ==
  ASSUME StreamInv, CatchInv, NEW c \in Clients, Receive(c)
  PROVE  CatchInv'
<1> DEFINE r == client[c]
           ev == Head(r.queue)
           rest == Tail(r.queue)
           heard == Took(r, ev)
           took == [heard EXCEPT !.queue = rest]
           shut == [took EXCEPT !.pc = "ended"]
           done == [shut EXCEPT !.queue = <<>>]
<1>1. /\ Tab(r) /\ CatchTab(r, sent, rows) /\ r.pc = "streaming" /\ UNCHANGED sessionVars
      /\ r.queue \in Seq(Events) /\ r.queue # <<>>
  BY DEF StreamInv, StreamTypes, CatchInv, Receive
<1>2. /\ Tab(heard) /\ heard.pc = r.pc /\ heard.replay = r.replay
      /\ heard.seen = r.seen \cup {ev} /\ heard.newest = ev
      /\ heard.after = (IF ev.seq = 0 THEN r.after ELSE ev.seq) /\ heard.since = r.since
      /\ heard.own = r.own /\ heard.known = r.known
  <2> HIDE DEF r, ev
  <2>1. Tab(r)
    BY <1>1
  <2> QED BY <2>1, TookIs
<1>3. client' = [client EXCEPT ![c] = IF ev.last THEN done ELSE took]
  <2>1. heard.queue = r.queue
    <3>1. TabTypes(r)
      BY DEF StreamInv, StreamTypes, TabTypes
    <3> HIDE DEF r, ev
    <3> QED BY <3>1, TabTook
  <2> QED BY <2>1 DEF Receive
<1>4. ev \in Events
  <2> HIDE DEF r
  <2> QED BY <1>1
<1> HIDE DEF r, ev, rest, heard
<1>5. heard.after \in Nat
  BY <1>1, <1>2, <1>4 DEF CatchTab, Events
<1>6. /\ Tab(took) /\ took.pc = r.pc /\ Texts(took, heard) /\ Marks(took, heard)
      /\ took.own = r.own /\ took.known = r.known
  BY <1>2, QueueIs
<1> HIDE DEF took
<1>7. /\ done.pc = "ended" /\ Texts(done, heard) /\ Marks(done, heard)
      /\ done.own = r.own /\ done.known = r.known
  <2>1. /\ Tab(shut) /\ shut.pc = "ended" /\ Texts(shut, took) /\ Marks(shut, took)
        /\ shut.own = took.own /\ shut.known = took.known
    BY <1>6, PcIs
  <2> HIDE DEF shut
  <2>2. /\ done.pc = shut.pc /\ Texts(done, shut) /\ Marks(done, shut)
        /\ done.own = shut.own /\ done.known = shut.known
    BY <2>1, QueueIs
  <2> HIDE DEF done
  <2> QED BY <1>6, <2>1, <2>2 DEF Texts, Marks
<1> HIDE DEF done
<1>8. ASSUME NEW q, q \in {took, done} PROVE CatchTab(q, sent, rows)
  <2>1. /\ q.pc \in {"streaming", "ended"} /\ q.seen = r.seen \cup {ev}
        /\ q.own = r.own /\ q.known = r.known /\ q.since = r.since /\ q.after \in Nat
    BY <1>1, <1>2, <1>5, <1>6, <1>7, <1>8 DEF Texts, Marks
  <2>2. \A x : ToCome(r, x, rows) => ToCome(q, x, rows)
    BY <1>1, <2>1 DEF ToCome
  <2>3. Attached(q) => Attached(r)
    BY <1>1, <2>1 DEF Attached
  <2> QED BY <1>1, <2>1, <2>2, <2>3 DEF CatchTab
<1> QED BY <1>1, <1>3, <1>8, CatchStep DEF sessionVars, r

\* The next of the stored events: those in the replay behind it have greater numbers.
LEMMA CatchReplay ==
  ASSUME StreamInv, CatchInv, NEW c \in Clients, Replay(c)
  PROVE  CatchInv'
<1> DEFINE r == client[c]
           ev == Head(r.replay)
           rest == Tail(r.replay)
           heard == Took(r, ev)
           took == [heard EXCEPT !.replay = rest]
           shut == [took EXCEPT !.pc = "replayed"]
           empty == [shut EXCEPT !.queue = <<>>]
           done == [empty EXCEPT !.replay = <<>>]
<1>1. /\ Tab(r) /\ CatchTab(r, sent, rows) /\ r.pc = "replaying" /\ UNCHANGED sessionVars
      /\ r.replay # <<>> /\ OwnStream(r)
  BY DEF StreamInv, StreamTypes, TabInv, CatchInv, Replay
<1>2. /\ Tab(heard) /\ heard.pc = r.pc /\ heard.replay = r.replay
      /\ heard.seen = r.seen \cup {ev} /\ heard.newest = ev
      /\ heard.after = (IF ev.seq = 0 THEN r.after ELSE ev.seq) /\ heard.since = r.since
      /\ heard.own = r.own /\ heard.known = r.known
  BY <1>1, TookIs
<1>3. client' = [client EXCEPT ![c] = IF ev.last THEN done ELSE took]
  BY <1>2 DEF Replay
<1> HIDE DEF r
<1>4. /\ r.replay \in Seq(rows) /\ Sorted(r.replay) /\ Attached(r)
  BY <1>1 DEF CatchTab, OwnStream, Attached
<1>5. /\ ev = r.replay[1] /\ ev \in rows /\ rest \in Seq(rows)
      /\ Len(r.replay) \in Nat /\ Len(r.replay) >= 1 /\ Len(rest) = Len(r.replay) - 1
      /\ \A i \in 1 .. Len(rest) : rest[i] = r.replay[i + 1]
  BY <1>1, <1>4
<1> HIDE DEF ev, rest, heard
<1>6. ev \in Events
  BY <1>5 DEF CatchInv, Rows, Distinct
<1>7. heard.after \in Nat
  BY <1>1, <1>2, <1>6 DEF CatchTab, Events
<1>8. /\ Tab(took) /\ took.pc = r.pc /\ took.replay = rest /\ Marks(took, heard)
      /\ took.seen = heard.seen /\ took.newest = ev
      /\ took.own = r.own /\ took.known = r.known
  BY <1>2, ReplayIs
<1> HIDE DEF took
<1>9. /\ done.pc = "replayed" /\ Marks(done, heard)
      /\ done.seen = heard.seen /\ done.newest = ev
      /\ done.own = r.own /\ done.known = r.known
  <2>1. /\ Tab(shut) /\ shut.pc = "replayed" /\ Texts(shut, took) /\ Marks(shut, took)
        /\ shut.own = took.own /\ shut.known = took.known
    BY <1>8, PcIs
  <2> HIDE DEF shut
  <2>2. /\ Tab(empty) /\ empty.pc = shut.pc /\ Texts(empty, shut) /\ Marks(empty, shut)
        /\ empty.own = shut.own /\ empty.known = shut.known
    BY <2>1, QueueIs
  <2> HIDE DEF empty
  <2>3. /\ done.pc = empty.pc /\ Marks(done, empty)
        /\ done.seen = empty.seen /\ done.newest = empty.newest
        /\ done.own = empty.own /\ done.known = empty.known
    BY <2>2, ReplayIs
  <2> HIDE DEF done
  <2> QED BY <1>8, <2>1, <2>2, <2>3 DEF Texts, Marks
<1> HIDE DEF done
\* what is not delivered yet is in the rest of the replay, with a greater number
<1>10. ASSUME NEW k \in 1 .. r.known, sent[k].seq > r.since
       PROVE  \/ sent[k] \in heard.seen
              \/ (\E i \in 1 .. Len(rest) : rest[i] = sent[k]) /\ ev.seq < sent[k].seq
  <2>1. ToCome(r, sent[k], rows)
    BY <1>1, <1>4, <1>10 DEF CatchTab
  <2>2. CASE sent[k] \in r.seen
    BY <1>2, <2>2
  <2>3. CASE \E i \in 1 .. Len(r.replay) : r.replay[i] = sent[k]
    <3>1. PICK i \in 1 .. Len(r.replay) : r.replay[i] = sent[k]
      BY <2>3
    <3>2. CASE i = 1
      BY <1>2, <1>5, <3>1, <3>2
    <3>3. CASE i # 1
      <4>1. i - 1 \in 1 .. Len(rest) /\ rest[i - 1] = r.replay[i]
        BY <1>5, <3>3
      <4>2. 1 \in 1 .. Len(r.replay) /\ 1 < i
        BY <1>5, <3>3
      <4>3. ev.seq < sent[k].seq
        BY <1>4, <1>5, <3>1, <4>2 DEF Sorted
      <4> QED BY <3>1, <4>1, <4>3
    <3> QED BY <3>2, <3>3
  <2> QED BY <1>1, <2>1, <2>2, <2>3 DEF ToCome
<1>11. ASSUME ~ev.last PROVE CatchTab(took, sent, rows)
  <2>1. Sorted(rest)
    <3>1. ASSUME NEW i \in 1 .. Len(rest), NEW j \in 1 .. Len(rest), i < j
          PROVE  rest[i].seq < rest[j].seq
      <4>1. /\ i + 1 \in 1 .. Len(r.replay) /\ j + 1 \in 1 .. Len(r.replay) /\ i + 1 < j + 1
            /\ rest[i] = r.replay[i + 1] /\ rest[j] = r.replay[j + 1]
        BY <1>5, <3>1
      <4> QED BY <1>4, <4>1 DEF Sorted
    <3> QED BY <3>1 DEF Sorted
  <2>2. took.pc = "replaying" /\ took.since = r.since /\ took.after \in Nat
        /\ took.seen = heard.seen /\ took.replay = rest /\ took.known = r.known
    BY <1>1, <1>2, <1>7, <1>8 DEF Marks
  <2>3. ASSUME NEW k \in 1 .. took.known, sent[k].seq > took.since
        PROVE  ToCome(took, sent[k], rows)
    BY <1>10, <2>2, <2>3 DEF ToCome
  <2> QED BY <1>1, <1>5, <2>1, <2>2, <2>3 DEF CatchTab
<1>12. ASSUME ev.last PROVE CatchTab(done, sent, rows)
  <2>1. done.pc = "replayed" /\ done.since = r.since /\ done.after \in Nat
        /\ done.seen = heard.seen /\ done.newest = ev /\ done.known = r.known
    BY <1>1, <1>2, <1>7, <1>9 DEF Marks
  <2>2. ASSUME NEW k \in 1 .. done.known, sent[k].seq > done.since
        PROVE  ToCome(done, sent[k], rows)
    BY <1>5, <1>10, <1>12, <2>1, <2>2 DEF ToCome
  <2> QED BY <1>1, <2>1, <2>2 DEF CatchTab
<1> QED BY <1>1, <1>3, <1>11, <1>12, CatchStep DEF sessionVars, r

LEMMA CatchKept == StreamInv /\ CatchInv /\ [Next]_vars => CatchInv'
<1> SUFFICES ASSUME StreamInv, CatchInv, [Next]_vars PROVE CatchInv'
  OBVIOUS
<1>1. CASE UNCHANGED vars
  BY <1>1 DEF vars, sessionVars, turnVars, CatchInv, Numbers, Own, Rows, Sending
<1>2. CASE \E e \in Emitters : Emit(e)
  BY <1>2, CatchNumber, CatchStore, CatchStoreFails, CatchPut, CatchTurns DEF Emit, End
<1>3. CASE \E c \in Clients : Stream(c) \/ Browse(c)
  BY <1>3, CatchChat, CatchAttach, CatchReceive, CatchReplay DEF Stream, Browse
<1> QED BY <1>1, <1>2, <1>3, CatchTurns, CatchBroadcast DEF Next

\* The events that a re-attached stream has delivered, ended or not.
LEMMA CatchInvariant == Spec => []CatchInv
<1>1. Init => CatchInv
  BY CatchStarts
<1> QED BY <1>1, StreamInvariant, CatchKept, PTL DEF Spec

\* Where the newest event of a tab stands in what was put.
LEMMA UptoIs ==
  ASSUME StreamInv, CatchInv, NEW c \in Clients, NEW i \in DOMAIN sent,
         sent[i] = client[c].newest
  PROVE  Upto(c) = i
<1> DEFINE I == {j \in 1 .. Len(sent) : sent[j] = client[c].newest}
<1>1. Upto(c) = IF I # {} THEN Min(I) ELSE 0
  BY DEF Upto, SelectInSeq
<1>2. DOMAIN sent = 1 .. Len(sent)
  BY DEF StreamInv, StreamTypes
<1>3. I = {i}
  BY <1>2 DEF CatchInv, Numbers
<1>4. i \in Nat
  BY <1>2
<1>5. Min({i}) = i
  BY <1>4 DEF Min
<1> QED BY <1>1, <1>3, <1>5

\* chat_sse, "Subscribe BEFORE submitting so we never miss events": a chat stream
\* that has ended delivered, up to the event that ended it, all that was put since it
\* subscribed and all of its own turn; and the whole of the turn that ended it, unless
\* that turn ended with an error of run_agent, behind which tools may run on.
THEOREM ChatMissesNothing == Spec => []EndsCompletely
<1>1. StreamInv /\ CatchInv => EndsCompletely
  <2> SUFFICES ASSUME StreamInv, CatchInv, NEW c \in Clients, client[c].own # 0, Closed(c),
                      NEW k \in DOMAIN sent,
                      k > client[c].known \/ sent[k].turn = client[c].own,
                      \/ k <= Upto(c)
                      \/ /\ sent[k].turn = client[c].newest.turn
                         /\ client[c].newest.turn \notin astray
               PROVE  sent[k] \in client[c].seen
    BY DEF EndsCompletely
  <2> DEFINE r == client[c]
  <2>1. /\ Fresh(r) /\ Complete(r) /\ r.known \in Nat /\ r.own \in Nat
        /\ DOMAIN sent = 1 .. Len(sent) /\ Len(sent) \in Nat
    BY DEF StreamInv, StreamTypes, TabInv, OwnStream, Closed
  <2>2. PICK i \in 1 .. Len(sent) : /\ sent[i] = r.newest
                                    /\ \A j \in r.known + 1 .. i : sent[j] \in r.seen
    BY <2>1 DEF Complete
  <2>3. Upto(c) = i
    BY <2>1, <2>2, UptoIs
  <2> HIDE DEF r
  <2>4. k > r.known
    <3>1. CASE k <= r.known
      <4>1. k \in 1 .. r.known /\ sent[k].turn < r.own
        BY <2>1, <3>1 DEF Fresh, r
      <4>2. sent[k].turn \in Nat
        <5>1. sent[k] \in Events
          BY <2>1 DEF StreamInv, StreamTypes
        <5> QED BY <5>1 DEF Events
      <4> QED BY <2>1, <3>1, <4>1, <4>2 DEF r
    <3> QED BY <2>1, <3>1
  <2>5. CASE k <= Upto(c)
    <3>1. k \in r.known + 1 .. i
      BY <2>1, <2>2, <2>3, <2>4, <2>5
    <3> QED BY <2>2, <3>1 DEF r
  <2>6. CASE sent[k].turn = r.newest.turn /\ r.newest.turn \notin astray
    <3>1. k \in r.known + 1 .. Len(sent)
      BY <2>1, <2>4
    <3> QED BY <2>1, <2>6, <3>1 DEF Complete, r
  <2> QED BY <2>5, <2>6 DEF r
<1> QED BY <1>1, StreamInvariant, CatchInvariant, PTL

\* subscribe_events, "Replay missed events": a re-attached stream that has ended
\* delivered every stored event after the client's last event id that was put before
\* the stored ones were read, up to the number of the event that ended it in the
\* replay, for any number of tabs, turns, tools that send in parallel, inserts that
\* fail and connections that drop.
THEOREM ReplayMissesNothing == Spec => []CatchesUp
<1>1. StreamInv /\ CatchInv => CatchesUp
  <2> SUFFICES ASSUME StreamInv, CatchInv, NEW c \in Clients, client[c].own = 0, Closed(c),
                      NEW k \in Missed(c, 1 .. client[c].known)
               PROVE  FALSE
    BY DEF CatchesUp
  <2> DEFINE r == client[c]
  <2>1. /\ k \in 1 .. r.known /\ sent[k].seq > r.since /\ sent[k] \notin r.seen
        /\ r.pc = "replayed" => sent[k].seq <= r.newest.seq
    BY DEF Missed
  <2>2. CatchTab(r, sent, rows) /\ DOMAIN sent = 1 .. Len(sent) /\ Len(sent) \in Nat
    BY DEF CatchInv, StreamInv, StreamTypes
  <2>3. Attached(r) /\ r.pc \in {"ended", "replayed"}
    BY DEF Attached, Closed
  <2> HIDE DEF r
  <2>4. k \in DOMAIN sent
    BY <2>1, <2>2 DEF CatchTab
  <2>5. r.pc = "replayed" /\ r.newest \in rows /\ r.newest.seq < sent[k].seq
    BY <2>1, <2>2, <2>3 DEF CatchTab, ToCome
  <2>6. sent[k].seq \in Nat /\ r.newest.seq \in Nat
    BY <2>4, <2>5 DEF CatchInv, Rows, Distinct, StreamInv, StreamTypes, Events
  <2> QED BY <2>1, <2>5, <2>6
<1> QED BY <1>1, StreamInvariant, CatchInvariant, PTL

---------------------------------------------------------------------------
(* Types: the bounds on turns and events hold in every part of the state.     *)

\* Events have different numbers, so there are no more of them than numbers.
LEMMA SentIsBounded ==
  ASSUME StreamInv, CatchInv
  PROVE  Len(sent) \in Nat /\ Len(sent) <= counter
<1> SUFFICES ASSUME counter < Len(sent) PROVE FALSE
  BY DEF StreamInv, StreamTypes
<1> DEFINE m == Len(sent)
           f == [k \in 1 .. m |-> sent[k].n]
<1>1. m \in Nat /\ counter \in Nat /\ DOMAIN sent = 1 .. m
  BY DEF StreamInv, StreamTypes
<1>2. f \in [1 .. m -> 1 .. counter]
  BY <1>1 DEF CatchInv, Numbers, Own
<1> HIDE DEF f, m
<1>3. /\ IsFiniteSet(1 .. m) /\ Cardinality(1 .. m) = m
      /\ IsFiniteSet(1 .. counter) /\ Cardinality(1 .. counter) = counter
  BY <1>1, UpTo
<1>4. counter < m
  BY DEF m
<1>5. PICK j, k \in 1 .. m : j # k /\ f[j] = f[k]
  BY <1>2, <1>3, <1>4, FS_PigeonHole
<1> QED BY <1>1, <1>5 DEF f, CatchInv, Numbers

\* What an assignment to one field leaves of a tab.
LEMMA StatesEdit ==
  ASSUME NEW r \in ClientStates
  PROVE  /\ \A v \in Requests : [r EXCEPT !.pc = v] \in ClientStates
         /\ \A v \in Seq(Event) : [r EXCEPT !.queue = v] \in ClientStates
         /\ \A v \in Seq(Event) : [r EXCEPT !.replay = v] \in ClientStates
         /\ \A v \in SUBSET Event : [r EXCEPT !.seen = v] \in ClientStates
         /\ \A v \in Event : [r EXCEPT !.newest = v] \in ClientStates
         /\ \A v \in 0 .. MaxEvents : /\ [r EXCEPT !.after = v] \in ClientStates
                                      /\ [r EXCEPT !.since = v] \in ClientStates
                                      /\ [r EXCEPT !.known = v] \in ClientStates
         /\ \A v \in 0 .. MaxTurns : [r EXCEPT !.own = v] \in ClientStates
<1>1. \A v \in Requests : [r EXCEPT !.pc = v] \in ClientStates
  BY DEF ClientStates
<1>2. \A v \in Seq(Event) : [r EXCEPT !.queue = v] \in ClientStates
  BY DEF ClientStates
<1>3. \A v \in Seq(Event) : [r EXCEPT !.replay = v] \in ClientStates
  BY DEF ClientStates
<1>4. \A v \in SUBSET Event : [r EXCEPT !.seen = v] \in ClientStates
  BY DEF ClientStates
<1>5. \A v \in Event : [r EXCEPT !.newest = v] \in ClientStates
  BY DEF ClientStates
<1>6. \A v \in 0 .. MaxEvents : /\ [r EXCEPT !.after = v] \in ClientStates
                                /\ [r EXCEPT !.since = v] \in ClientStates
                                /\ [r EXCEPT !.known = v] \in ClientStates
  BY DEF ClientStates
<1>7. \A v \in 0 .. MaxTurns : [r EXCEPT !.own = v] \in ClientStates
  BY DEF ClientStates
<1> QED BY <1>1, <1>2, <1>3, <1>4, <1>5, <1>6, <1>7

\* An event and what a tab does with it.
LEMMA TookStates ==
  ASSUME NEW r \in ClientStates, NEW ev \in Event
  PROVE  Took(r, ev) \in ClientStates
<1> DEFINE seen == r.seen \cup {ev}
           after == IF ev.seq = 0 THEN r.after ELSE ev.seq
           heard == [r EXCEPT !.seen = seen]
           latest == [heard EXCEPT !.newest = ev]
           t == [latest EXCEPT !.after = after]
<1>1. Took(r, ev) = t
  BY DEF Took
<1>2. seen \in SUBSET Event
  BY DEF ClientStates
<1>3. after \in 0 .. MaxEvents
  BY DEF ClientStates, Event
<1> HIDE DEF seen, after
<1>4. heard \in ClientStates
  BY <1>2, StatesEdit
<1> HIDE DEF heard
<1>5. latest \in ClientStates
  BY <1>4, StatesEdit
<1> HIDE DEF latest
<1> QED BY <1>1, <1>3, <1>5, StatesEdit

LEMMA MaxEventsIs == MaxEvents \in Nat /\ 0 \in 0 .. MaxEvents /\ 0 \in 0 .. MaxTurns
BY StreamAssumption DEF MaxEvents

LEMMA KeptStates ==
  ASSUME NEW r \in ClientStates
  PROVE  Kept(r) \in ClientStates
<1> DEFINE after == r.after
           q == [pc |-> "off", queue |-> <<>>, replay |-> <<>>, seen |-> {},
                 newest |-> NoEvent, after |-> after, since |-> 0, own |-> 0,
                 known |-> 0]
<1>1. Kept(r) = q
  <2>1. Kept(r) = [NewClient EXCEPT !.after = after]
    BY DEF Kept
  <2> HIDE DEF after
  <2> QED BY <2>1 DEF NewClient
<1>2. after \in 0 .. MaxEvents
  BY DEF ClientStates
<1> HIDE DEF after
<1>3. <<>> \in Seq(Event) /\ {} \in SUBSET Event /\ "off" \in Requests
  BY DEF Requests
<1>4. q \in ClientStates
  BY <1>2, <1>3, MaxEventsIs DEF ClientStates
<1> QED BY <1>1, <1>4

LEMMA TypesStart == Init => TypeOK
<1> SUFFICES ASSUME Init PROVE TypeOK
  OBVIOUS
<1>1. <<>> \in Seq(Event) /\ {} \in SUBSET Event /\ "off" \in Requests
  BY DEF Requests
<1>2. NewClient \in ClientStates
  BY <1>1, MaxEventsIs DEF NewClient, ClientStates
<1>3. client \in [Clients -> ClientStates]
  BY <1>2 DEF Init
<1>4. sending \in [Emitters -> Event \cup {NoEvent}]
  BY DEF Init
<1> QED BY <1>1, <1>3, <1>4, MaxEventsIs DEF Init, TypeOK

\* Turns begin, and their events are numbered, stored and put.
LEMMA TypesSession ==
  ASSUME StreamInv, TypeOK,
         \/ TurnStart \/ Escape \/ Vanish
         \/ \E e \in Emitters :
              \/ Chunk(e) \/ Close(e) \/ Fail(e) \/ Interrupted(e) \/ Report(e)
              \/ Store(e) \/ StoreFails(e) \/ Put(e)
  PROVE  TypeOK'
<1>1. /\ MaxTurns \in Nat /\ MaxEvents \in Nat /\ submitted \in 0 .. MaxTurns
      /\ begun \in 0 .. submitted /\ begun \in Nat /\ counter \in Nat
      /\ turn \in {0, begun} /\ owed \in {0, begun}
      /\ astray \subseteq 1 .. begun /\ silent \subseteq 1 .. begun
  BY StreamAssumption, MaxEventsIs DEF StreamInv, StreamTypes, TypeOK
<1>2. CASE TurnStart
  <2>1. /\ turn = 0 /\ owed = 0 /\ begun < submitted /\ begun' = begun + 1
        /\ turn' = begun + 1 /\ UNCHANGED <<owed, astray, silent, submitted>>
        /\ UNCHANGED <<counter, sending, rows, source, sent, client>>
    BY <1>2 DEF TurnStart
  <2>2. begun' \in 0 .. submitted' /\ 1 .. begun \subseteq 1 .. begun'
    BY <1>1, <2>1
  <2> QED BY <1>1, <2>1, <2>2 DEF TypeOK
<1>6. CASE Escape \/ Vanish
  <2>1. /\ turn # 0 /\ turn' = 0 /\ owed' \in {owed, turn}
        /\ silent' \in {silent, silent \cup {turn}} /\ UNCHANGED <<begun, astray, submitted>>
        /\ UNCHANGED <<counter, sending, rows, source, sent, client>>
    BY <1>6 DEF Escape, Vanish
  <2>2. turn \in 1 .. begun
    BY <1>1, <2>1
  <2> QED BY <1>1, <2>1, <2>2 DEF TypeOK
<1>3. ASSUME NEW e \in Emitters,
             Chunk(e) \/ Close(e) \/ Fail(e) \/ Interrupted(e) \/ Report(e)
      PROVE  TypeOK'
  <2>1. PICK t \in 1 .. begun, last \in BOOLEAN : \E S : Number(e, t, last, S)
    <3>1. (turn # 0 => turn \in 1 .. begun) /\ (owed # 0 => owed \in 1 .. begun)
      BY <1>1
    <3>2. (astray \cup {turn}) \ {0} \subseteq 1 .. begun
      BY <1>1, <3>1
    <3> QED BY <1>3, <3>1, <3>2 DEF Chunk, Close, Fail, Interrupted, Report
  <2>2. PICK S : Number(e, t, last, S)
    BY <2>1
  <2> DEFINE ev == [n |-> counter + 1, seq |-> counter + 1, turn |-> t, last |-> last]
  <2>3. /\ counter < MaxEvents /\ counter' = counter + 1
        /\ sending' = [f \in Emitters |-> IF f = e THEN ev
                                          ELSE IF f \in S THEN NoEvent ELSE sending[f]]
        /\ UNCHANGED <<submitted, begun, turn, silent, rows, source, sent, client>>
    BY <2>2 DEF Number
  <2>4. ev \in Event
    BY <1>1, <2>3 DEF Event
  <2> HIDE DEF ev
  <2>5. sending' \in [Emitters -> Event \cup {NoEvent}] /\ counter' \in 0 .. MaxEvents
    BY <1>1, <2>3, <2>4 DEF TypeOK
  <2>6. \/ owed' = owed /\ astray' = astray
        \/ turn # 0 /\ owed' \in {0, turn} /\ astray' = astray \cup {turn}
    <3>1. CASE Chunk(e) \/ Close(e) \/ Report(e)
      BY <3>1 DEF Chunk, Close, Report
    <3>2. CASE Fail(e) \/ Interrupted(e)
      BY <3>2 DEF Fail, Interrupted
    <3> QED BY <1>3, <3>1, <3>2
  <2>7. owed' \in {0, begun} /\ astray' \subseteq 1 .. begun
    <3>1. CASE owed' = owed /\ astray' = astray
      BY <1>1, <3>1
    <3>2. CASE turn # 0 /\ owed' \in {0, turn} /\ astray' = astray \cup {turn}
      <4>1. turn = begun /\ begun \in 1 .. begun
        BY <1>1, <3>2
      <4> QED BY <1>1, <3>2, <4>1
    <3> QED BY <2>6, <3>1, <3>2
  <2> QED BY <2>3, <2>5, <2>7 DEF TypeOK
<1>4. ASSUME NEW e \in Emitters, Store(e) \/ StoreFails(e) PROVE TypeOK'
  <2>1. /\ sending[e] \in Event
        /\ UNCHANGED <<submitted, turnVars, counter, source, sent, client>>
    BY <1>4 DEF Store, StoreFails, Sending, TypeOK
  <2>2. [sending[e] EXCEPT !.seq = 0] \in Event
    BY <2>1, MaxEventsIs DEF Event
  <2>3. \/ rows' = rows \cup {sending[e]} /\ sending' = sending
        \/ rows' = rows /\ sending' = [sending EXCEPT ![e] = [sending[e] EXCEPT !.seq = 0]]
    BY <1>4 DEF Store, StoreFails
  <2>4. rows' \in SUBSET Event /\ sending' \in [Emitters -> Event \cup {NoEvent}]
    BY <2>1, <2>2, <2>3 DEF TypeOK
  <2> QED BY <2>1, <2>4 DEF TypeOK, turnVars
<1>5. ASSUME NEW e \in Emitters, Put(e) PROVE TypeOK'
  <2>1. /\ sending[e] \in Event
        /\ source' = Append(source, sending[e]) /\ sent' = Append(sent, sending[e])
        /\ sending' = [sending EXCEPT ![e] = NoEvent]
        /\ turn' \in {0, turn} /\ owed' \in {0, owed}
        /\ UNCHANGED <<submitted, begun, astray, silent, counter, rows, client>>
    BY <1>5 DEF Put, Sent, Sending, TypeOK
  <2>2. source' \in Seq(Event) /\ sent' \in Seq(Event)
    BY <2>1 DEF TypeOK
  <2>3. sending' \in [Emitters -> Event \cup {NoEvent}] /\ turn' \in {0, begun}
        /\ owed' \in {0, begun}
    BY <1>1, <2>1 DEF TypeOK
  <2> QED BY <2>1, <2>2, <2>3 DEF TypeOK
<1> QED BY <1>2, <1>3, <1>4, <1>5, <1>6

LEMMA TypesBroadcast ==
  ASSUME StreamInv, TypeOK, Broadcast
  PROVE  TypeOK'
<1> DEFINE ev == Head(source)
<1>1. /\ source # <<>> /\ source' = Tail(source)
      /\ UNCHANGED <<submitted, turnVars, counter, sending, rows, sent>>
  BY DEF Broadcast
<1>2. source' \in Seq(Event) /\ ev \in Event
  BY <1>1 DEF TypeOK
<1>3. ASSUME NEW c \in Clients PROVE client'[c] \in ClientStates
  <2> DEFINE r == client[c]
             longer == Append(r.queue, ev)
  <2>1. r \in ClientStates
    BY DEF TypeOK
  <2>2. client'[c] = r \/ client'[c] = [r EXCEPT !.queue = longer]
    BY DEF Broadcast
  <2> HIDE DEF r, ev
  <2>3. longer \in Seq(Event)
    BY <1>2, <2>1 DEF ClientStates
  <2> HIDE DEF longer
  <2> QED BY <2>1, <2>2, <2>3, StatesEdit
<1>4. client' \in [Clients -> ClientStates]
  <2>1. DOMAIN client' = Clients /\ client' = [c \in Clients |-> client'[c]]
    BY DEF Broadcast
  <2> QED BY <1>3, <2>1
<1> QED BY <1>1, <1>2, <1>4 DEF TypeOK, turnVars

\* A step of one tab.
LEMMA TypesTab ==
  ASSUME TypeOK, UNCHANGED <<turnVars, counter, sending, rows, source, sent>>,
         submitted' \in submitted .. MaxTurns,
         NEW c \in Clients, NEW r \in ClientStates, client' = [client EXCEPT ![c] = r]
  PROVE  TypeOK'
<1>1. client' \in [Clients -> ClientStates]
  BY DEF TypeOK
<1>2. submitted' \in 0 .. MaxTurns /\ begun \in 0 .. submitted'
  BY StreamAssumption DEF TypeOK
<1> QED BY <1>1, <1>2 DEF TypeOK, turnVars

LEMMA TypesChat ==
  ASSUME StreamInv, CatchInv, TypeOK, NEW c \in Clients,
         ChatSubscribe(c) \/ ChatSubmit(c) \/ ChatRefused(c) \/ Drop(c)
  PROVE  TypeOK'
<1> DEFINE r == client[c]
<1>1. /\ r \in ClientStates /\ submitted \in submitted .. MaxTurns /\ submitted \in Nat
      /\ MaxTurns \in Nat /\ Len(sent) \in 0 .. MaxEvents
      /\ UNCHANGED <<turnVars, counter, sending, rows, source, sent>>
  <2>1. Len(sent) \in Nat /\ Len(sent) <= counter /\ counter \in 0 .. MaxEvents
    BY SentIsBounded DEF TypeOK
  <2>2. Len(sent) \in 0 .. MaxEvents
    BY <2>1, MaxEventsIs
  <2> QED BY <2>2, StreamAssumption DEF TypeOK, ChatSubscribe, ChatSubmit, ChatRefused, Drop,
         sessionVars
<1>2. CASE ChatSubscribe(c)
  <2> DEFINE opened == [Kept(r) EXCEPT !.pc = "subscribed"]
             q == [opened EXCEPT !.known = Len(sent)]
  <2>1. client' = [client EXCEPT ![c] = q] /\ submitted' = submitted
    BY <1>2 DEF ChatSubscribe, sessionVars
  <2> HIDE DEF r
  <2>2. opened \in ClientStates
    BY <1>1, KeptStates, StatesEdit DEF Requests
  <2> HIDE DEF opened
  <2>3. q \in ClientStates
    BY <1>1, <2>2, StatesEdit
  <2> HIDE DEF q
  <2> QED BY <1>1, <2>1, <2>3, TypesTab
<1>3. CASE ChatSubmit(c)
  <2> DEFINE own == submitted + 1
             opened == [r EXCEPT !.pc = "streaming"]
             q == [opened EXCEPT !.own = own]
  <2>1. client' = [client EXCEPT ![c] = q] /\ submitted' = own /\ submitted < MaxTurns
    BY <1>3 DEF ChatSubmit
  <2>2. own \in submitted .. MaxTurns /\ own \in 0 .. MaxTurns
    BY <1>1, <2>1
  <2> HIDE DEF r, own
  <2>3. opened \in ClientStates
    BY <1>1, StatesEdit DEF Requests
  <2> HIDE DEF opened
  <2>4. q \in ClientStates
    BY <2>2, <2>3, StatesEdit
  <2> HIDE DEF q
  <2> QED BY <1>1, <2>1, <2>2, <2>4, TypesTab
<1>4. CASE ChatRefused(c)
  <2> DEFINE left == [r EXCEPT !.pc = "off"]
             q == [left EXCEPT !.queue = <<>>]
  <2>1. client' = [client EXCEPT ![c] = q] /\ submitted' = submitted
    BY <1>4 DEF ChatRefused, sessionVars
  <2> HIDE DEF r
  <2>2. left \in ClientStates
    BY <1>1, StatesEdit DEF Requests
  <2> HIDE DEF left
  <2>3. <<>> \in Seq(Event)
    OBVIOUS
  <2>4. q \in ClientStates
    BY <2>2, <2>3, StatesEdit
  <2> HIDE DEF q
  <2> QED BY <1>1, <2>1, <2>4, TypesTab
<1>5. CASE Drop(c)
  <2>1. client' = [client EXCEPT ![c] = Kept(r)] /\ submitted' = submitted
    BY <1>5 DEF Drop, sessionVars
  <2> HIDE DEF r
  <2> QED BY <1>1, <2>1, KeptStates, TypesTab
<1> QED BY <1>2, <1>3, <1>4, <1>5

LEMMA TypesStream ==
  ASSUME StreamInv, CatchInv, TypeOK, NEW c \in Clients, Reattach(c) \/ Stream(c)
  PROVE  TypeOK'
<1> DEFINE r == client[c]
<1>1. /\ r \in ClientStates /\ UNCHANGED <<turnVars, counter, sending, rows, source, sent>>
      /\ submitted' \in submitted .. MaxTurns
  <2>1. UNCHANGED sessionVars
    BY DEF Reattach, Stream, Receive, Load, Loads, Resubscribe, Replay, ReplayOver
  <2> QED BY <2>1, StreamAssumption DEF TypeOK, sessionVars
<1>2. CASE Reattach(c)
  <2> DEFINE after == r.after
             asked == [r EXCEPT !.pc = "loading"]
             q == [asked EXCEPT !.since = after]
  <2>1. client' = [client EXCEPT ![c] = q]
    BY <1>2 DEF Reattach
  <2> HIDE DEF r
  <2>2. asked \in ClientStates /\ after \in 0 .. MaxEvents
    BY ZenonT(40), <1>1, StatesEdit DEF Requests, ClientStates
  <2> HIDE DEF asked, after
  <2>3. q \in ClientStates
    BY <2>2, StatesEdit
  <2> HIDE DEF q
  <2> QED BY <1>1, <2>1, <2>3, TypesTab
<1>3. CASE Load(c)
  <2> DEFINE stored == BySeq(LaterRows(r.since))
             n == Len(sent)
             read == [r EXCEPT !.pc = "loaded"]
             told == [read EXCEPT !.replay = stored]
             q == [told EXCEPT !.known = n]
  <2>1. client' = [client EXCEPT ![c] = q]
    BY <1>3 DEF Load, Loads
  <2>2. stored \in Seq(Event)
    <3>1. LaterRows(r.since) \subseteq rows
      BY DEF LaterRows
    <3>2. Distinct(LaterRows(r.since))
      BY <3>1, FS_Subset DEF CatchInv, Rows, Distinct
    <3>3. LaterRows(r.since) \subseteq Event
      BY <3>1 DEF TypeOK
    <3>4. stored \in Seq(LaterRows(r.since))
      BY <3>2, BySeqIs
    <3> HIDE DEF stored
    <3> QED BY <3>3, <3>4
  <2>3. n \in 0 .. MaxEvents
    <3>1. n \in Nat /\ n <= counter /\ counter \in 0 .. MaxEvents
      BY SentIsBounded DEF TypeOK
    <3> QED BY <3>1, MaxEventsIs
  <2> HIDE DEF r, stored, n
  <2>4. read \in ClientStates
    BY <1>1, StatesEdit DEF Requests
  <2> HIDE DEF read
  <2>5. told \in ClientStates
    BY <2>2, <2>4, StatesEdit
  <2> HIDE DEF told
  <2>6. q \in ClientStates
    BY <2>3, <2>5, StatesEdit
  <2> HIDE DEF q
  <2> QED BY <1>1, <2>1, <2>6, TypesTab
<1>4. CASE Resubscribe(c) \/ ReplayOver(c)
  <2>1. PICK pc \in {"replaying", "streaming"} :
          client' = [client EXCEPT ![c] = [r EXCEPT !.pc = pc]]
    BY <1>4 DEF Resubscribe, ReplayOver
  <2> HIDE DEF r
  <2>2. [r EXCEPT !.pc = pc] \in ClientStates
    BY <1>1, StatesEdit DEF Requests
  <2> QED BY <1>1, <2>1, <2>2, TypesTab
<1>5. CASE Receive(c)
  <2> DEFINE ev == Head(r.queue)
             rest == Tail(r.queue)
             heard == Took(r, ev)
             took == [heard EXCEPT !.queue = rest]
             shut == [took EXCEPT !.pc = "ended"]
             done == [shut EXCEPT !.queue = <<>>]
  <2>1. heard.queue = r.queue
    <3>1. TabTypes(r)
      BY DEF StreamInv, StreamTypes, TabTypes
    <3> HIDE DEF r, ev
    <3> QED BY <3>1, TabTook
  <2>2. /\ client' = [client EXCEPT ![c] = IF ev.last THEN done ELSE took]
        /\ r.queue # <<>>
    BY <1>5, <2>1 DEF Receive
  <2> HIDE DEF r
  <2>3. ev \in Event /\ rest \in Seq(Event) /\ <<>> \in Seq(Event)
    BY <1>1, <2>2 DEF ClientStates
  <2> HIDE DEF ev, rest
  <2>4. heard \in ClientStates
    BY <1>1, <2>3, TookStates
  <2> HIDE DEF heard
  <2>5. took \in ClientStates
    BY <2>3, <2>4, StatesEdit
  <2> HIDE DEF took
  <2>6. shut \in ClientStates
    BY <2>5, StatesEdit DEF Requests
  <2> HIDE DEF shut
  <2>7. done \in ClientStates
    BY <2>3, <2>6, StatesEdit
  <2> HIDE DEF done
  <2>8. (IF ev.last THEN done ELSE took) \in ClientStates
    BY <2>5, <2>7
  <2> QED BY <1>1, <2>2, <2>8, TypesTab
<1>6. CASE Replay(c)
  <2> DEFINE ev == Head(r.replay)
             rest == Tail(r.replay)
             heard == Took(r, ev)
             took == [heard EXCEPT !.replay = rest]
             shut == [took EXCEPT !.pc = "replayed"]
             empty == [shut EXCEPT !.queue = <<>>]
             done == [empty EXCEPT !.replay = <<>>]
  <2>1. heard.replay = r.replay
    <3>1. TabTypes(r)
      BY DEF StreamInv, StreamTypes, TabTypes
    <3> HIDE DEF r, ev
    <3> QED BY <3>1, TabTook
  <2>2. /\ client' = [client EXCEPT ![c] = IF ev.last THEN done ELSE took]
        /\ r.replay # <<>>
    BY <1>6, <2>1 DEF Replay
  <2> HIDE DEF r
  <2>3. ev \in Event /\ rest \in Seq(Event) /\ <<>> \in Seq(Event)
    BY <1>1, <2>2 DEF ClientStates
  <2> HIDE DEF ev, rest
  <2>4. heard \in ClientStates
    BY <1>1, <2>3, TookStates
  <2> HIDE DEF heard
  <2>5. took \in ClientStates
    BY <2>3, <2>4, StatesEdit
  <2> HIDE DEF took
  <2>6. shut \in ClientStates
    BY <2>5, StatesEdit DEF Requests
  <2> HIDE DEF shut
  <2>7. empty \in ClientStates
    BY <2>3, <2>6, StatesEdit
  <2> HIDE DEF empty
  <2>8. done \in ClientStates
    BY <2>3, <2>7, StatesEdit
  <2> HIDE DEF done
  <2>9. (IF ev.last THEN done ELSE took) \in ClientStates
    BY <2>5, <2>8
  <2> QED BY <1>1, <2>2, <2>9, TypesTab
<1> QED BY <1>2, <1>3, <1>4, <1>5, <1>6 DEF Stream

LEMMA TypesKept == StreamInv /\ CatchInv /\ TypeOK /\ [Next]_vars => TypeOK'
<1> SUFFICES ASSUME StreamInv, CatchInv, TypeOK, [Next]_vars PROVE TypeOK'
  OBVIOUS
<1>1. CASE UNCHANGED vars
  BY <1>1 DEF vars, sessionVars, turnVars, TypeOK
<1>2. CASE TurnStart \/ \E e \in Emitters : Emit(e)
  BY <1>2, TypesSession DEF Emit, End
<1>3. CASE \E c \in Clients : Stream(c) \/ Browse(c)
  BY <1>3, TypesChat, TypesStream DEF Browse
<1> QED BY <1>1, <1>2, <1>3, TypesBroadcast DEF Next

\* The events of the queues, the stored rows and the tabs are events of submitted
\* turns, and no tab counts past what was put.
THEOREM StreamIsTyped == Spec => []TypeOK
<1>1. Init => TypeOK
  BY TypesStart
<1> QED BY <1>1, TypesKept, StreamInvariant, CatchInvariant, PTL DEF Spec
=============================================================================
