------------------------ MODULE NotificationPromise ------------------------
(***************************************************************************)
(* What NotificationGateway promises of the requests that enqueue accepted:  *)
(* they are dealt with one after another, in the order in which they were    *)
(* accepted, and close returns ("Flush and close") only when those accepted  *)
(* before it was called have been dealt with.                                *)
(***************************************************************************)
EXTENDS Naturals

VARIABLES
  accepted, \* how many requests enqueue has answered True for
  settled,  \* how many of them were delivered or given up
  due,      \* how many must be settled before close returns
  phase     \* of close: "open", "closing", "closed"

promiseVars == <<accepted, settled, due, phase>>

Init == accepted = 0 /\ settled = 0 /\ due = 0 /\ phase = "open"

\* one event is a request for each of its destinations
Accept ==
  /\ phase # "closed"
  /\ accepted' \in Nat /\ accepted' > accepted
  /\ UNCHANGED <<settled, due, phase>>

Settle ==
  /\ settled < accepted /\ settled' = settled + 1
  /\ UNCHANGED <<accepted, due, phase>>

BeginClose ==
  /\ phase = "open" /\ phase' = "closing" /\ due' = accepted
  /\ UNCHANGED <<accepted, settled>>

FinishClose ==
  /\ phase = "closing" /\ due <= settled /\ phase' = "closed"
  /\ UNCHANGED <<accepted, settled, due>>

Next == Accept \/ Settle \/ BeginClose \/ FinishClose

Spec == Init /\ [][Next]_promiseVars
=============================================================================
