------------------------ MODULE NotificationGateway ------------------------
(***************************************************************************)
(* Notifications to Slack and Zulip: the events of a session that become     *)
(* requests in the gateway's queue (Session.send_event), the worker that     *)
(* sends them with retries, the agent's notify tool, which sends past the    *)
(* queue, and close, which flushes the queue and stops the worker.           *)
(*                                                                         *)
(* A request is its number among those enqueue accepted, 0 for the tool's,   *)
(* and its destination.  Messaging is enabled; when it is not, every         *)
(* operation returns at once.                                               *)
(***************************************************************************)
EXTENDS Naturals, Sequences, FiniteSets, SequencesExt

CONSTANTS
  Dests,      \* the configured destinations
  ToolDests,  \* those with allow_agent_tool
  AutoDests,  \* those with allow_auto_events
  Defer,      \* whether turn_complete is announced by the CLI's event listener
  Retries,    \* Len(_RETRY_DELAYS)
  MaxRequests \* bound: requests made

ASSUME GatewayAssumption ==
  /\ ToolDests \subseteq Dests /\ AutoDests \subseteq Dests
  /\ IsFiniteSet(Dests)
  /\ Defer \in BOOLEAN
  /\ Retries \in Nat /\ MaxRequests \in Nat

\* the two callers of send: the worker task and the notify tool
Senders == {"worker", "tool"}

VARIABLES
  made,      \* number of requests made so far
  notices,   \* the gateway's queue
  unshown,   \* turn_complete events that the listener has not printed yet
  job,       \* each sender: the requests it still has to send, and its state
  closing,   \* close: "no", "joining", "joined", "cancelling", "closed"
  \* for properties only
  accepted,  \* how many requests enqueue took
  settled,   \* how many the worker has dealt with
  due,       \* accepted when close was called
  newest     \* the last of them that has reached its destination

gatewayVars ==
  <<made, notices, unshown, job, closing, accepted, settled, due, newest>>

Request == [n : 0 .. MaxRequests, dest : Dests]
NoJob == [todo |-> <<>>, pc |-> "idle", attempt |-> 0]

GatewayTypeOK ==
  /\ made \in 0 .. MaxRequests /\ unshown \in Nat
  /\ notices \in Seq(Request)
  /\ job \in [Senders -> [todo : Seq(Request), attempt : 0 .. Retries,
                          pc : {"idle", "posting", "sleeping", "off"}]]
  /\ closing \in {"no", "joining", "joined", "cancelling", "closed"}
  /\ accepted \in Nat /\ settled \in Nat /\ due \in Nat
  /\ newest \in 0 .. MaxRequests

\* start
GatewayInit ==
  /\ made = 0 /\ notices = <<>> /\ unshown = 0
  /\ job = [s \in Senders |-> NoJob]
  /\ closing = "no"
  /\ accepted = 0 /\ settled = 0 /\ due = 0 /\ newest = 0

\* a request for each of the destinations
Requests(ds) ==
  LET order == SetToSeq(ds)
  IN [k \in 1 .. Cardinality(ds) |-> [n |-> accepted + k, dest |-> order[k]]]
Make(ds) ==
  /\ made + Cardinality(ds) <= MaxRequests
  /\ made' = made + Cardinality(ds)

\* enqueue, for the requests of one event: refused when there is no worker
Enqueue(ds) ==
  /\ Make(ds)
  /\ IF closing = "closed"
     THEN UNCHANGED <<notices, accepted>>
     ELSE /\ notices' = notices \o Requests(ds)
          /\ accepted' = accepted + Cardinality(ds)

\* send_event with an event of auto_event_types, in a session that has opted in
\* for the destinations ds
Announce(ds) == Enqueue(ds \cap AutoDests)

SendEvent(ds) ==
  /\ Announce(ds)
  /\ UNCHANGED <<unshown, job, closing, settled, due, newest>>

\* send_event with turn_complete when the session defers it
DeferComplete ==
  /\ Defer /\ made + unshown < MaxRequests
  /\ unshown' = unshown + 1
  /\ UNCHANGED <<made, notices, job, closing, accepted, settled, due, newest>>

\* the listener has printed the event: send_deferred_turn_complete_notification
ShowComplete(ds) ==
  /\ unshown > 0 /\ unshown' = unshown - 1
  /\ Announce(ds)
  /\ UNCHANGED <<job, closing, settled, due, newest>>

\* notify_handler: all of the destinations must allow it, or nothing is sent
Notify(ds) ==
  /\ job["tool"].pc = "idle" /\ ds # {} /\ ds \subseteq ToolDests
  /\ Make(ds)
  /\ job' = [job EXCEPT !["tool"] =
        [todo |-> [k \in 1 .. Cardinality(ds) |->
                     [n |-> 0, dest |-> SetToSeq(ds)[k]]],
         pc |-> "posting", attempt |-> 0]]
  /\ UNCHANGED <<notices, unshown, closing, accepted, settled, due, newest>>

---------------------------------------------------------------------------
(* Sending                                                                 *)

\* the worker takes the next request
Take ==
  /\ job["worker"].pc = "idle" /\ notices # <<>>
  /\ job' = [job EXCEPT !["worker"] =
        [todo |-> <<Head(notices)>>, pc |-> "posting", attempt |-> 0]]
  /\ notices' = Tail(notices)
  /\ UNCHANGED <<made, unshown, closing, accepted, settled, due, newest>>

\* the request is over, delivered or given up: the next one, or task_done
Over(s) ==
  LET rest == Tail(job[s].todo)
  IN /\ job' = [job EXCEPT ![s] =
           IF rest = <<>> THEN NoJob
           ELSE [todo |-> rest, pc |-> "posting", attempt |-> 0]]
     /\ settled' = IF s = "worker" THEN settled + 1 ELSE settled

\* newest, if the request at hand arrives
Arrival(s) == IF s = "worker" THEN Head(job[s].todo).n ELSE newest

\* provider.send returns
Delivered(s) ==
  /\ job[s].pc = "posting"
  /\ newest' = Arrival(s)
  /\ Over(s)
  /\ UNCHANGED <<made, notices, unshown, closing, accepted, due>>

\* mutant: the error ends the sender's task before task_done
Refused_Escapes(s) ==
  /\ job[s].pc = "posting"
  /\ job' = [job EXCEPT ![s] = [NoJob EXCEPT !.pc = "off"]]
  /\ UNCHANGED <<made, notices, unshown, closing, accepted, settled, due, newest>>

\* a NotificationError
Refused(s) ==
  /\ job[s].pc = "posting"
  /\ Over(s)
  /\ UNCHANGED <<made, notices, unshown, closing, accepted, due, newest>>

\* mutant: one attempt too many
Transient_OneMore(s) ==
  /\ job[s].pc = "posting"
  /\ newest' \in {newest, Arrival(s)}
  /\ IF job[s].attempt > Retries
     THEN Over(s)
     ELSE job' = [job EXCEPT ![s].pc = "sleeping"] /\ UNCHANGED settled
  /\ UNCHANGED <<made, notices, unshown, closing, accepted, due>>

\* a timeout (the request may have arrived), a 429 or a 5xx
Transient(s) ==
  /\ job[s].pc = "posting"
  /\ newest' \in {newest, Arrival(s)}
  /\ IF job[s].attempt = Retries
     THEN Over(s)
     ELSE job' = [job EXCEPT ![s].pc = "sleeping"] /\ UNCHANGED settled
  /\ UNCHANGED <<made, notices, unshown, closing, accepted, due>>

\* the delay is over
RetrySend(s) ==
  /\ job[s].pc = "sleeping"
  /\ job' = [job EXCEPT ![s].pc = "posting", ![s].attempt = @ + 1]
  /\ UNCHANGED <<made, notices, unshown, closing, accepted, settled, due,
                 newest>>

---------------------------------------------------------------------------
(* close                                                                   *)

Close ==
  /\ closing = "no" /\ closing' = "joining" /\ due' = accepted
  /\ UNCHANGED <<made, notices, unshown, job, accepted, settled, newest>>

\* mutant: waits for an empty queue only
Join_QueueEmpty ==
  /\ closing = "joining" /\ notices = <<>>
  /\ closing' = "joined"
  /\ UNCHANGED <<made, notices, unshown, job, accepted, settled, due, newest>>

\* flush: Queue.join returns when no task is unfinished
Join ==
  /\ closing = "joining" /\ notices = <<>> /\ job["worker"].pc = "idle"
  /\ closing' = "joined"
  /\ UNCHANGED <<made, notices, unshown, job, accepted, settled, due, newest>>

\* close goes on: what was accepted since then is lost
CancelWorker ==
  /\ closing = "joined" /\ closing' = "cancelling"
  /\ job' = [job EXCEPT !["worker"] = [NoJob EXCEPT !.pc = "off"]]
  /\ UNCHANGED <<made, notices, unshown, accepted, settled, due, newest>>

WorkerGone ==
  /\ closing = "cancelling" /\ closing' = "closed"
  /\ UNCHANGED <<made, notices, unshown, job, accepted, settled, due, newest>>

---------------------------------------------------------------------------
Sending(s) == Delivered(s) \/ Refused(s) \/ Transient(s) \/ RetrySend(s)
GatewayStep == Take \/ Join \/ CancelWorker \/ WorkerGone \/ Sending("worker")

GatewayNext ==
  \/ GatewayStep \/ Sending("tool") \/ Close \/ DeferComplete
  \/ \E ds \in SUBSET Dests : SendEvent(ds) \/ ShowComplete(ds) \/ Notify(ds)

GatewaySpec == GatewayInit /\ [][GatewayNext]_gatewayVars

\* the worker and close run whenever they can; every post is answered or times out
GatewayFairness == WF_gatewayVars(GatewayStep)
GatewayFairSpec == GatewaySpec /\ GatewayFairness

---------------------------------------------------------------------------
Promise == INSTANCE NotificationPromise WITH
  accepted <- accepted, settled <- settled, due <- due,
  phase <- CASE closing = "no" -> "open"
             [] closing = "closed" -> "closed"
             [] OTHER -> "closing"

\* The gateway implements its promise: requests settle one by one in the order
\* in which they were accepted, and close returns only when those accepted
\* before it was called have settled, whatever is enqueued while it flushes.
KeepsPromise == Promise!Spec

\* Notifications arrive in the order of their events although a request that
\* fails is tried again after a delay: nothing that waits is older than what
\* has arrived.
ArrivesInOrder ==
  /\ \A k \in DOMAIN notices : notices[k].n > newest
  /\ job["worker"].todo # <<>> => Head(job["worker"].todo).n >= newest

\* close returns, whatever the providers answer.
CloseReturns == closing = "joining" ~> closing = "closed"

(* Promises of comments that the code does not keep (README, section 3).    *)

\* close: "Flush and close shared background resources": everything that
\* enqueue accepted has been dealt with when close returns.
AllFlushed == closing = "closed" => settled = accepted
=============================================================================
