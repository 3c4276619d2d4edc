---------------------- MODULE NotificationGateway_proofs ----------------------
(***************************************************************************)
(* The gateway for any set of destinations, any number of retries and of     *)
(* requests: its state has its types, it implements its promise, and         *)
(* requests reach their destinations in the order of their events.           *)
(***************************************************************************)
EXTENDS NotificationGateway, FiniteSetTheorems, SequenceTheorems, TLAPS

\* the worker has a request that has left the queue and is not settled
Busy == IF job["worker"].pc \in {"posting", "sleeping"} THEN 1 ELSE 0
\* the requests that have left the queue
Consumed == accepted - Len(notices)

\* How the queue is numbered: each request that waits has the number at which it
\* was accepted, the request at hand is the last that was taken, and nothing
\* later than it has arrived.
Numbered ==
  /\ \A k \in DOMAIN notices : notices[k].n = Consumed + k
  /\ Busy = 1 => /\ Len(job["worker"].todo) = 1
                 /\ job["worker"].todo[1].n = Consumed
  /\ Busy = 0 => job["worker"].todo = <<>>
  /\ newest <= Consumed

\* What close relies on.  Until the worker is cancelled everything that was
\* taken and is not at hand has settled; after it, what was due has.
Flushed ==
  /\ closing \in {"no", "joining", "joined"} =>
       settled + Busy = Consumed /\ job["worker"].pc # "off"
  /\ closing \in {"joined", "cancelling", "closed"} => due <= settled
  /\ closing \in {"cancelling", "closed"} => job["worker"].pc = "off"
  /\ settled + Busy <= Consumed /\ due <= accepted

\* A sender at work has something to send, and sleeps only before an attempt that
\* it still has.
Working ==
  \A s \in Senders : /\ job[s].pc \in {"posting", "sleeping"} <=> job[s].todo # <<>>
                     /\ job[s].pc = "sleeping" => job[s].attempt < Retries

GatewayInv ==
  GatewayTypeOK /\ accepted <= made /\ Numbered /\ Flushed /\ Working

---------------------------------------------------------------------------
\* The destinations of an event in some order: what SetToSeq chooses exists.
LEMMA OrderOfSet ==
  ASSUME NEW S, IsFiniteSet(S)
  PROVE  /\ Cardinality(S) \in Nat
         /\ SetToSeq(S) \in [1 .. Cardinality(S) -> S]
<1>1. Cardinality(S) \in Nat /\ ExistsBijection(1 .. Cardinality(S), S)
  BY FS_CardinalityType
<1>2. \E f \in [1 .. Cardinality(S) -> S] : IsInjective(f)
  BY <1>1 DEF ExistsBijection, Bijection, Injection
<1> QED
  BY <1>1, <1>2 DEF SetToSeq

\* Sets of destinations are finite.
LEMMA DestsFinite ==
  ASSUME NEW ds \in SUBSET Dests
  PROVE  IsFiniteSet(ds)
BY FS_Subset, GatewayAssumption

\* The requests of one event are numbered on from those accepted.
LEMMA RequestsOf ==
  ASSUME NEW ds \in SUBSET Dests, accepted \in Nat,
         accepted + Cardinality(ds) <= MaxRequests
  PROVE  /\ Requests(ds) \in Seq(Request)
         /\ Len(Requests(ds)) = Cardinality(ds)
         /\ \A k \in 1 .. Cardinality(ds) : Requests(ds)[k].n = accepted + k
<1>1. Cardinality(ds) \in Nat /\ SetToSeq(ds) \in [1 .. Cardinality(ds) -> ds]
  BY OrderOfSet, DestsFinite
<1>2. \A k \in 1 .. Cardinality(ds) :
        [n |-> accepted + k, dest |-> SetToSeq(ds)[k]] \in Request
  BY <1>1, GatewayAssumption DEF Request
<1>3. Requests(ds) \in [1 .. Cardinality(ds) -> Request]
  BY <1>1, <1>2 DEF Requests
<1>4. Requests(ds) \in Seq(Request) /\ Len(Requests(ds)) = Cardinality(ds)
  BY <1>1, <1>3
<1>5. \A k \in 1 .. Cardinality(ds) : Requests(ds)[k].n = accepted + k
  BY DEF Requests
<1> QED
  BY <1>4, <1>5

\* Init
LEMMA GatewayInitInv == GatewayInit => GatewayInv
<1> SUFFICES ASSUME GatewayInit PROVE GatewayInv
  OBVIOUS
<1>1. GatewayTypeOK
  BY GatewayAssumption DEF GatewayInit, GatewayTypeOK, NoJob
<1>2. \A s \in Senders : job[s].pc = "idle" /\ job[s].todo = <<>>
  BY DEF GatewayInit, NoJob
<1>3. accepted <= made /\ Numbered /\ Flushed /\ Working
  <2>1. Busy = 0 /\ Consumed = 0 /\ job["worker"].pc = "idle" /\ job["worker"].todo = <<>>
    <3>1. job["worker"].pc = "idle" /\ job["worker"].todo = <<>>
      BY <1>2 DEF Senders
    <3>2. Consumed = 0
      <4>1. accepted = 0 /\ notices = <<>>
        BY DEF GatewayInit
      <4>2. Len(<<>>) = 0
        BY EmptySeq
      <4>3. Len(notices) = 0
        BY <4>1, <4>2
      <4>4. accepted = 0
        BY <4>1
      <4> QED
        BY <4>3, <4>4 DEF Consumed
    <3> QED
      BY <3>1, <3>2 DEF Busy
  <2> QED
    BY <1>2, <2>1 DEF GatewayInit, Numbered, Flushed, Working
<1> QED
  BY <1>1, <1>3 DEF GatewayInv

\* An event that is announced, whichever sender is at work.
LEMMA EnqueueInv ==
  ASSUME GatewayInv, NEW ds \in SUBSET Dests, Announce(ds),
         UNCHANGED <<job, closing, settled, due, newest>>, unshown' \in Nat
  PROVE  GatewayInv'
<1> DEFINE to == ds \cap AutoDests
           count == Cardinality(to)
           new == Requests(to)
<1>1. count \in Nat /\ to \in SUBSET Dests
  BY DestsFinite, OrderOfSet, to \in SUBSET Dests
<1>2. /\ made' = made + count /\ made' <= MaxRequests
      /\ IF closing = "closed" THEN UNCHANGED <<notices, accepted>>
         ELSE notices' = notices \o new /\ accepted' = accepted + count
  BY DEF Announce, Enqueue, Make
<1>3. /\ accepted \in Nat /\ made \in Nat /\ accepted <= made /\ MaxRequests \in Nat
      /\ notices \in Seq(Request)
  BY GatewayAssumption DEF GatewayInv, GatewayTypeOK
<1>4. accepted + count <= MaxRequests
  BY <1>1, <1>2, <1>3
<1>5. /\ new \in Seq(Request) /\ Len(new) = count
      /\ \A k \in 1 .. count : new[k].n = accepted + k
  BY <1>1, <1>3, <1>4, RequestsOf
<1> HIDE DEF to, count, new
<1>6. CASE closing = "closed"
  BY <1>1, <1>2, <1>3, <1>6 DEF GatewayInv, GatewayTypeOK, Numbered, Flushed,
     Working, Busy, Consumed
<1>7. CASE closing # "closed"
  <2>1. notices' = notices \o new /\ accepted' = accepted + count
    BY <1>2, <1>7
  <2>2. notices' \in Seq(Request) /\ Len(notices') = Len(notices) + count
    BY <2>1, <1>3, <1>5, ConcatProperties
  <2>3. Consumed' = Consumed /\ Consumed \in Int
    BY <1>1, <1>3, <2>1, <2>2 DEF Consumed
  <2>4. \A k \in DOMAIN notices' : notices'[k].n = Consumed' + k
    <3> SUFFICES ASSUME NEW k \in 1 .. Len(notices') PROVE notices'[k].n = Consumed + k
      BY <2>2, <2>3
    <3>1. CASE k <= Len(notices)
      <4>1. notices'[k] = notices[k] /\ k \in DOMAIN notices
        BY <3>1, <2>1, <1>3, <1>5
      <4> QED
        BY <4>1 DEF GatewayInv, Numbered
    <3>2. CASE k > Len(notices)
      <4> DEFINE j == k - Len(notices)
      <4>1. j \in 1 .. count /\ notices'[k] = new[j]
        BY <3>2, <2>1, <2>2, <1>1, <1>3, <1>5
      <4>2. new[j].n = accepted + j
        BY <4>1, <1>5
      <4> QED
        BY <4>1, <4>2, <1>3 DEF Consumed
    <3> QED
      BY <3>1, <3>2, <1>3
  <2>5. GatewayTypeOK'
    BY <1>1, <1>2, <1>3, <2>1, <2>2 DEF GatewayInv, GatewayTypeOK
  <2>6. (accepted <= made)'
    BY <1>1, <1>2, <1>3, <2>1
  <2>7. Busy' = Busy /\ job' = job
    BY DEF Busy
  <2>8. Numbered' /\ Working'
    BY <2>3, <2>4, <2>7 DEF GatewayInv, Numbered, Working
  <2>9. Flushed'
    BY <1>1, <1>3, <2>1, <2>3, <2>7 DEF GatewayInv, GatewayTypeOK, Flushed
  <2> QED
    BY <2>5, <2>6, <2>8, <2>9 DEF GatewayInv
<1> QED
  BY <1>6, <1>7

\* Steps of the notify tool, which has a task of its own.
LEMMA ToolInv ==
  ASSUME GatewayInv, NEW d \in [todo : Seq(Request), attempt : 0 .. Retries,
                                pc : {"idle", "posting", "sleeping", "off"}],
         d.pc \in {"posting", "sleeping"} <=> d.todo # <<>>,
         d.pc = "sleeping" => d.attempt < Retries,
         job' = [job EXCEPT !["tool"] = d],
         made' \in made .. MaxRequests,
         UNCHANGED <<notices, unshown, closing, accepted, settled, due, newest>>
  PROVE  GatewayInv'
<1>1. job'["worker"] = job["worker"] /\ job'["tool"] = d
  BY DEF GatewayInv, GatewayTypeOK, Senders
<1>2. Busy' = Busy /\ Consumed' = Consumed
  BY <1>1 DEF Busy, Consumed
<1>3. GatewayTypeOK' /\ (accepted <= made)'
  <2>1. job' \in [Senders -> [todo : Seq(Request), attempt : 0 .. Retries,
                             pc : {"idle", "posting", "sleeping", "off"}]]
    BY DEF GatewayInv, GatewayTypeOK
  <2>2. made' \in 0 .. MaxRequests /\ accepted <= made'
    BY GatewayAssumption DEF GatewayInv, GatewayTypeOK
  <2> QED
    BY <2>1, <2>2 DEF GatewayInv, GatewayTypeOK
<1>4. Working'
  BY <1>1 DEF GatewayInv, Working, Senders
<1>5. Numbered' /\ Flushed'
  BY <1>1, <1>2 DEF GatewayInv, Numbered, Flushed
<1> QED
  BY <1>3, <1>4, <1>5 DEF GatewayInv

\* The tool's call, for each of its destinations.
LEMMA NotifyInv ==
  ASSUME GatewayInv, NEW ds \in SUBSET Dests, Notify(ds)
  PROVE  GatewayInv'
<1> DEFINE posts == [k \in 1 .. Cardinality(ds) |-> [n |-> 0, dest |-> SetToSeq(ds)[k]]]
           d == [todo |-> posts, pc |-> "posting", attempt |-> 0]
<1>1. Cardinality(ds) \in Nat /\ SetToSeq(ds) \in [1 .. Cardinality(ds) -> ds]
  BY OrderOfSet, DestsFinite
<1>2. \A k \in 1 .. Cardinality(ds) : [n |-> 0, dest |-> SetToSeq(ds)[k]] \in Request
  BY <1>1, GatewayAssumption DEF Request
<1>3. posts \in Seq(Request) /\ Len(posts) = Cardinality(ds)
  BY <1>1, <1>2
<1>4. Cardinality(ds) # 0
  BY FS_EmptySet, DestsFinite DEF Notify
<1>5. posts # <<>>
  BY <1>1, <1>3, <1>4
<1>6. /\ job' = [job EXCEPT !["tool"] = d] /\ made' \in made .. MaxRequests
      /\ UNCHANGED <<notices, unshown, closing, accepted, settled, due, newest>>
  BY <1>1, GatewayAssumption DEF Notify, Make, GatewayInv, GatewayTypeOK
<1>7. d \in [todo : Seq(Request), attempt : 0 .. Retries,
             pc : {"idle", "posting", "sleeping", "off"}]
  BY <1>3, GatewayAssumption
<1>8. d.pc = "posting" /\ d.todo = posts
  OBVIOUS
<1> HIDE DEF posts, d
<1> QED
  BY <1>5, <1>6, <1>7, <1>8, ToolInv

\* The worker takes the request with the next number.
LEMMA TakeInv ==
  ASSUME GatewayInv, Take
  PROVE  GatewayInv'
<1>1. /\ notices \in Seq(Request) /\ notices # <<>> /\ notices' = Tail(notices)
      /\ job["worker"].pc = "idle" /\ accepted \in Nat
  BY DEF GatewayInv, GatewayTypeOK, Take
<1>2. /\ Head(notices) \in Request /\ Head(notices) = notices[1]
      /\ notices' \in Seq(Request) /\ Len(notices') = Len(notices) - 1
      /\ \A k \in 1 .. Len(notices') : notices'[k] = notices[k + 1]
      /\ 1 \in DOMAIN notices
  BY <1>1, HeadTailProperties
<1> DEFINE d == [todo |-> <<Head(notices)>>, pc |-> "posting", attempt |-> 0]
<1>3. job' = [job EXCEPT !["worker"] = d]
  BY DEF Take
<1>4. job'["worker"] = d /\ job'["tool"] = job["tool"] /\ Busy' = 1 /\ Busy = 0
  BY <1>1, <1>3 DEF GatewayInv, GatewayTypeOK, Senders, Busy
<1>5. Consumed' = Consumed + 1 /\ Consumed \in Int
  BY <1>1, <1>2 DEF Take, Consumed
<1>6. GatewayTypeOK'
  <2>1. d \in [todo : Seq(Request), attempt : 0 .. Retries,
               pc : {"idle", "posting", "sleeping", "off"}]
    BY <1>2, GatewayAssumption
  <2> QED
    BY ZenonT(40), <1>2, <1>3, <2>1 DEF GatewayInv, GatewayTypeOK, Take
<1>7. Numbered'
  <2>1. d.todo[1].n = Consumed + 1 /\ Len(d.todo) = 1
    BY <1>2 DEF GatewayInv, Numbered
  <2>2. \A k \in DOMAIN notices' : notices'[k].n = Consumed' + k
    BY <1>1, <1>2, <1>5 DEF GatewayInv, Numbered
  <2>3. newest' <= Consumed'
    BY <1>5 DEF GatewayInv, GatewayTypeOK, Numbered, Take
  <2> QED
    BY <1>4, <1>5, <2>1, <2>2, <2>3 DEF Numbered
<1>8. Flushed'
  BY <1>4, <1>5 DEF GatewayInv, GatewayTypeOK, Flushed, Take
<1>9. Working' /\ (accepted <= made)'
  BY <1>4 DEF GatewayInv, Working, Senders, Take
<1> QED
  BY <1>6, <1>7, <1>8, <1>9 DEF GatewayInv

\* The request at hand is over.
LEMMA OverInv ==
  ASSUME GatewayInv, NEW s \in Senders, job[s].pc = "posting", Over(s),
         newest' \in {newest, Arrival(s)},
         UNCHANGED <<made, notices, unshown, closing, accepted, due>>
  PROVE  GatewayInv'
<1> DEFINE rest == Tail(job[s].todo)
           d == IF rest = <<>> THEN NoJob
                ELSE [todo |-> rest, pc |-> "posting", attempt |-> 0]
<1>1. job[s].todo \in Seq(Request) /\ job[s].todo # <<>>
  BY DEF GatewayInv, GatewayTypeOK, Working
<1>2. rest \in Seq(Request) /\ Len(rest) = Len(job[s].todo) - 1
  BY <1>1, HeadTailProperties
<1>3. d \in [todo : Seq(Request), attempt : 0 .. Retries,
             pc : {"idle", "posting", "sleeping", "off"}]
  BY <1>2, GatewayAssumption DEF NoJob
<1>4. (d.pc \in {"posting", "sleeping"} <=> d.todo # <<>>) /\ d.pc # "sleeping"
  BY DEF NoJob
<1>5. job' = [job EXCEPT ![s] = d]
  BY DEF Over
<1>6. CASE s = "tool"
  <2>1. made' \in made .. MaxRequests
    BY GatewayAssumption DEF GatewayInv, GatewayTypeOK
  <2>2. UNCHANGED <<notices, unshown, closing, accepted, settled, due, newest>>
    BY <1>6 DEF Over, Arrival
  <2> HIDE DEF d
  <2> QED
    BY <1>3, <1>4, <1>5, <1>6, <2>1, <2>2, ToolInv
<1>7. CASE s = "worker"
  <2>1. Busy = 1 /\ Len(job[s].todo) = 1 /\ job[s].todo[1].n = Consumed
    BY <1>7 DEF Busy, GatewayInv, Numbered
  <2>2. rest = <<>>
    <3>1. Len(rest) = 0
      BY <1>2, <2>1
    <3> HIDE DEF rest
    <3> QED
      BY <1>2, <3>1, EmptySeq
  <2>3. d = NoJob
    BY <2>2
  <2>4. job'["worker"] = NoJob /\ job'["tool"] = job["tool"] /\ Busy' = 0
    BY <1>5, <1>7, <2>3 DEF GatewayInv, GatewayTypeOK, Senders, NoJob, Busy
  <2>5. Consumed' = Consumed /\ settled' = settled + 1 /\ Consumed \in Int
    BY <1>7 DEF Consumed, Over, GatewayInv, GatewayTypeOK
  <2>6. newest' \in {newest, Consumed} /\ newest' \in 0 .. MaxRequests
    <3>1. Arrival(s) = Consumed /\ Head(job[s].todo) \in Request
      BY <1>1, <1>7, <2>1, HeadTailProperties DEF Arrival
    <3> QED
      BY <3>1, <1>7 DEF Arrival, Request, GatewayInv, GatewayTypeOK
  <2>7. GatewayTypeOK'
    <3> HIDE DEF d
    <3> QED
      BY <1>3, <1>5, <2>5, <2>6 DEF GatewayInv, GatewayTypeOK
  <2>8. Numbered'
    BY <2>4, <2>5, <2>6 DEF GatewayInv, GatewayTypeOK, Numbered, NoJob
  <2>9. Flushed'
    BY <1>7, <2>1, <2>4, <2>5 DEF GatewayInv, GatewayTypeOK, Flushed, NoJob
  <2>10. Working' /\ (accepted <= made)'
    BY <2>4 DEF GatewayInv, Working, Senders, NoJob
  <2> QED
    BY <2>7, <2>8, <2>9, <2>10 DEF GatewayInv
<1> QED
  BY <1>6, <1>7 DEF Senders

\* The request at hand stays: the delay before another attempt, and its end.
LEMMA AgainInv ==
  ASSUME GatewayInv, NEW s \in Senders, job[s].pc \in {"posting", "sleeping"},
         NEW pc \in {"posting", "sleeping"}, NEW attempt \in 0 .. Retries,
         pc = "sleeping" => attempt < Retries,
         job' = [job EXCEPT ![s].pc = pc, ![s].attempt = attempt],
         newest' \in {newest, Arrival(s)},
         UNCHANGED <<made, notices, unshown, closing, accepted, settled, due>>
  PROVE  GatewayInv'
<1>1. job[s].todo \in Seq(Request) /\ job[s].todo # <<>>
  BY DEF GatewayInv, GatewayTypeOK, Working
<1>2. /\ job'[s].pc = pc /\ job'[s].todo = job[s].todo /\ job'[s].attempt = attempt
      /\ \A t \in Senders \ {s} : job'[t] = job[t]
  BY DEF GatewayInv, GatewayTypeOK
<1>3. Busy' = Busy /\ Consumed' = Consumed
  BY <1>2 DEF Busy, Consumed, Senders
<1>4. job'["worker"].todo = job["worker"].todo
  BY <1>2 DEF Senders
<1>5. newest' \in {newest, Consumed} /\ newest' \in 0 .. MaxRequests
  <2>1. CASE s = "worker"
    <3>1. Arrival(s) = Consumed /\ Head(job[s].todo) \in Request
      BY <1>1, <2>1, HeadTailProperties DEF Arrival, GatewayInv, Numbered, Busy
    <3> QED
      BY <3>1, <2>1 DEF Arrival, Request, GatewayInv, GatewayTypeOK
  <2>2. CASE s = "tool"
    BY <2>2 DEF Arrival, GatewayInv, GatewayTypeOK
  <2> QED
    BY <2>1, <2>2 DEF Senders
<1>6. GatewayTypeOK'
  BY <1>5 DEF GatewayInv, GatewayTypeOK
<1>7. Numbered'
  BY SMTT(30), <1>3, <1>4, <1>5 DEF GatewayInv, GatewayTypeOK, Numbered, Consumed
<1>8. Flushed'
  BY <1>2, <1>3 DEF GatewayInv, Flushed, Senders
<1>9. Working' /\ (accepted <= made)'
  BY <1>1, <1>2 DEF GatewayInv, Working
<1> QED
  BY <1>6, <1>7, <1>8, <1>9 DEF GatewayInv

\* A sender's step.
LEMMA SendingInv ==
  ASSUME GatewayInv, NEW s \in Senders, Sending(s)
  PROVE  GatewayInv'
<1>1. job[s].attempt \in 0 .. Retries /\ Retries \in Nat
  BY GatewayAssumption DEF GatewayInv, GatewayTypeOK
<1>2. CASE Delivered(s) \/ Refused(s)
  BY <1>2, OverInv DEF Delivered, Refused
<1>3. CASE Transient(s) /\ job[s].attempt = Retries
  BY <1>3, OverInv DEF Transient
<1>4. CASE Transient(s) /\ job[s].attempt # Retries
  <2>1. job' = [job EXCEPT ![s].pc = "sleeping", ![s].attempt = job[s].attempt]
    BY <1>4 DEF Transient, GatewayInv, GatewayTypeOK
  <2>2. job[s].attempt < Retries
    BY <1>1, <1>4
  <2> QED
    BY <1>1, <1>4, <2>1, <2>2, AgainInv DEF Transient
<1>5. CASE RetrySend(s)
  <2>1. /\ job[s].attempt + 1 \in 0 .. Retries
        /\ job' = [job EXCEPT ![s].pc = "posting", ![s].attempt = job[s].attempt + 1]
    BY <1>1, <1>5 DEF RetrySend, GatewayInv, Working
  <2> QED
    BY <1>5, <2>1, AgainInv DEF RetrySend
<1> QED
  BY <1>2, <1>3, <1>4, <1>5 DEF Sending

\* The steps of close.
LEMMA CloseInv ==
  ASSUME GatewayInv, Close \/ Join \/ CancelWorker \/ WorkerGone
  PROVE  GatewayInv'
<1>1. CASE Close
  <2>1. Busy' = Busy /\ Consumed' = Consumed
    BY <1>1 DEF Close, Busy, Consumed
  <2> QED
    BY <1>1, <2>1 DEF Close, GatewayInv, GatewayTypeOK, Numbered, Flushed, Working
<1>2. CASE Join
  <2>1. Busy' = Busy /\ Consumed' = Consumed
    BY <1>2 DEF Join, Busy, Consumed
  <2>2. Len(<<>>) = 0
    BY EmptySeq
  <2>3. due <= settled
    BY <1>2, <2>2 DEF Join, Busy, Consumed, GatewayInv, GatewayTypeOK, Flushed
  <2> QED
    BY <1>2, <2>1, <2>3 DEF Join, GatewayInv, GatewayTypeOK, Numbered, Flushed, Working
<1>3. CASE CancelWorker
  <2> DEFINE off == [NoJob EXCEPT !.pc = "off"]
  <2>1. off = [todo |-> <<>>, pc |-> "off", attempt |-> 0]
    BY DEF NoJob
  <2>2. /\ job'["worker"] = off /\ job'["tool"] = job["tool"]
        /\ Busy' = 0 /\ Busy \in {0, 1} /\ Consumed' = Consumed /\ Consumed \in Int
    BY <1>3, <2>1 DEF CancelWorker, GatewayInv, GatewayTypeOK, Senders, Busy, Consumed
  <2>3. GatewayTypeOK'
    <3>1. job' = [job EXCEPT !["worker"] = off]
      BY <1>3 DEF CancelWorker
    <3>2. /\ closing' = "cancelling"
          /\ UNCHANGED <<made, notices, unshown, accepted, settled, due, newest>>
      BY <1>3 DEF CancelWorker
    <3> HIDE DEF off
    <3>3. off \in [todo : Seq(Request), attempt : 0 .. Retries,
                   pc : {"idle", "posting", "sleeping", "off"}]
      BY <2>1, EmptySeq, GatewayAssumption
    <3> QED
      BY <3>1, <3>2, <3>3 DEF GatewayInv, GatewayTypeOK
  <2>4. Numbered' /\ Working' /\ (accepted <= made)'
    BY <1>3, <2>1, <2>2 DEF CancelWorker, GatewayInv, Numbered, Working, Senders
  <2>5. Flushed'
    BY <1>3, <2>1, <2>2 DEF CancelWorker, GatewayInv, GatewayTypeOK, Flushed
  <2> QED
    BY <2>3, <2>4, <2>5 DEF GatewayInv
<1>4. CASE WorkerGone
  <2>1. Busy' = Busy /\ Consumed' = Consumed
    BY <1>4 DEF WorkerGone, Busy, Consumed
  <2> QED
    BY <1>4, <2>1 DEF WorkerGone, GatewayInv, GatewayTypeOK, Numbered, Flushed, Working
<1> QED
  BY <1>1, <1>2, <1>3, <1>4

\* An event that the listener has yet to print.
LEMMA DeferInv ==
  ASSUME GatewayInv, DeferComplete \/ UNCHANGED gatewayVars
  PROVE  GatewayInv'
<1>1. Busy' = Busy /\ Consumed' = Consumed
  BY DEF DeferComplete, gatewayVars, Busy, Consumed
<1>2. CASE DeferComplete
  <2>1. GatewayTypeOK' /\ accepted' <= made'
    BY <1>2 DEF DeferComplete, GatewayInv, GatewayTypeOK
  <2>2. Numbered' /\ Flushed' /\ Working'
    BY <1>1, <1>2 DEF DeferComplete, GatewayInv, Numbered, Flushed, Working
  <2> QED
    BY <2>1, <2>2 DEF GatewayInv
<1>3. CASE UNCHANGED gatewayVars
  <2>1. GatewayTypeOK' /\ accepted' <= made'
    BY <1>3 DEF gatewayVars, GatewayInv, GatewayTypeOK
  <2>2. Numbered' /\ Flushed' /\ Working'
    BY <1>1, <1>3 DEF gatewayVars, GatewayInv, Numbered, Flushed, Working
  <2> QED
    BY <2>1, <2>2 DEF GatewayInv
<1> QED
  BY <1>2, <1>3

\* Every step keeps the invariant.
LEMMA GatewayNextInv == GatewayInv /\ [GatewayNext]_gatewayVars => GatewayInv'
<1> SUFFICES ASSUME GatewayInv, [GatewayNext]_gatewayVars PROVE GatewayInv'
  OBVIOUS
<1>1. CASE \E s \in Senders : Sending(s)
  BY <1>1, SendingInv
<1>2. CASE Take
  BY <1>2, TakeInv
<1>3. CASE Close \/ Join \/ CancelWorker \/ WorkerGone
  BY <1>3, CloseInv
<1>4. CASE DeferComplete \/ UNCHANGED gatewayVars
  BY <1>4, DeferInv
<1>5. CASE \E ds \in SUBSET Dests : SendEvent(ds) \/ ShowComplete(ds)
  <2>1. unshown' \in Nat
    BY <1>5 DEF SendEvent, ShowComplete, GatewayInv, GatewayTypeOK
  <2> QED
    BY <1>5, <2>1, EnqueueInv DEF SendEvent, ShowComplete
<1>6. CASE \E ds \in SUBSET Dests : Notify(ds)
  BY <1>6, NotifyInv
<1> QED
  BY <1>1, <1>2, <1>3, <1>4, <1>5, <1>6 DEF GatewayNext, GatewayStep, Senders

\* The invariant holds of the gateway.
THEOREM GatewayInvariant == GatewaySpec => []GatewayInv
  BY GatewayInitInv, GatewayNextInv, PTL DEF GatewaySpec

(* The queue holds requests, and a sender makes at most Retries + 1 attempts. *)
THEOREM GatewayTypeCorrect == GatewaySpec => []GatewayTypeOK
<1>1. GatewayInv => GatewayTypeOK
  BY DEF GatewayInv
<1> QED
  BY <1>1, GatewayInvariant, PTL

(* For any retries, destinations and interleaving with the tool's posts, the *)
(* worker delivers in the order of the events: no request that waits is older *)
(* than one that has arrived.                                              *)
THEOREM DeliveryIsOrdered == GatewaySpec => []ArrivesInOrder
<1>1. GatewayInv => ArrivesInOrder
  <2> SUFFICES ASSUME GatewayInv PROVE ArrivesInOrder
    OBVIOUS
  <2>1. Consumed \in Int /\ newest \in Int /\ newest <= Consumed
    BY DEF GatewayInv, GatewayTypeOK, Numbered, Consumed
  <2>2. \A k \in DOMAIN notices : notices[k].n > newest
    BY <2>1 DEF GatewayInv, GatewayTypeOK, Numbered
  <2>3. ASSUME job["worker"].todo # <<>> PROVE Head(job["worker"].todo).n >= newest
    <3>1. Busy = 1 /\ job["worker"].todo[1].n = Consumed
      BY <2>3 DEF GatewayInv, Numbered, Busy
    <3>2. Head(job["worker"].todo) = job["worker"].todo[1]
      BY <2>3 DEF GatewayInv, GatewayTypeOK, Senders
    <3> QED
      BY <2>1, <3>1, <3>2
  <2> QED
    BY <2>2, <2>3 DEF ArrivesInOrder
<1> QED
  BY <1>1, GatewayInvariant, PTL

---------------------------------------------------------------------------
(* The promise.                                                            *)

\* A step of the gateway is a step of the promise, or changes nothing of it.
LEMMA StepIsPromised ==
  ASSUME GatewayInv, [GatewayNext]_gatewayVars
  PROVE  [Promise!Next]_(Promise!promiseVars)
<1> USE DEF Promise!Next, Promise!Accept, Promise!Settle, Promise!BeginClose,
            Promise!FinishClose, Promise!promiseVars
<1>1. CASE \E s \in Senders : Sending(s)
  <2> PICK s \in Senders : Sending(s)
    BY <1>1
  <2>1. UNCHANGED <<accepted, due, closing>>
    BY DEF Sending, Delivered, Refused, Transient, RetrySend
  <2>2. CASE UNCHANGED settled
    BY <2>1, <2>2
  <2>3. CASE ~UNCHANGED settled
    <3>1. settled' = settled + 1 /\ s = "worker" /\ job[s].pc = "posting"
      BY <2>3 DEF Sending, Delivered, Refused, Transient, RetrySend, Over
    <3>2. settled < accepted
      BY <3>1 DEF GatewayInv, GatewayTypeOK, Flushed, Busy, Consumed
    <3> QED
      BY <2>1, <3>1, <3>2
  <2> QED
    BY <2>2, <2>3
<1>2. CASE \E ds \in SUBSET Dests : SendEvent(ds) \/ ShowComplete(ds)
  <2> PICK ds \in SUBSET Dests : SendEvent(ds) \/ ShowComplete(ds)
    BY <1>2
  <2>1. UNCHANGED <<settled, due, closing>> /\ Announce(ds)
    BY DEF SendEvent, ShowComplete
  <2>2. Cardinality(ds \cap AutoDests) \in Nat /\ accepted \in Nat
    BY DestsFinite, OrderOfSet, ds \cap AutoDests \in SUBSET Dests
       DEF GatewayInv, GatewayTypeOK
  <2>3. \/ UNCHANGED accepted
        \/ closing # "closed" /\ accepted' \in Nat /\ accepted' > accepted
    BY <2>1, <2>2 DEF Announce, Enqueue
  <2> QED
    BY <2>1, <2>3
<1>3. CASE Close
  BY <1>3 DEF Close
<1>4. CASE WorkerGone
  BY <1>4 DEF WorkerGone, GatewayInv, Flushed
<1>5. CASE Join \/ CancelWorker
  BY <1>5 DEF Join, CancelWorker
<1>6. CASE Take \/ DeferComplete \/ (\E ds \in SUBSET Dests : Notify(ds))
  BY <1>6 DEF Take, DeferComplete, Notify
<1>7. CASE UNCHANGED gatewayVars
  BY <1>7 DEF gatewayVars
<1> QED
  BY <1>1, <1>2, <1>3, <1>4, <1>5, <1>6, <1>7 DEF GatewayNext, GatewayStep, Senders

(* The gateway implements its promise: the requests that enqueue accepted    *)
(* settle one by one, and close returns only when those accepted before it   *)
(* was called have settled.                                                *)
THEOREM GatewayKeepsPromise == GatewaySpec => KeepsPromise
<1>1. GatewayInit => Promise!Init
  BY DEF GatewayInit, Promise!Init
<1> QED
  BY <1>1, GatewayInvariant, StepIsPromised, PTL
     DEF GatewaySpec, KeepsPromise, Promise!Spec
=============================================================================
