--------------------------- MODULE SnapshotStore ---------------------------
(***************************************************************************)
(* How the conversation of one session reaches MongoDB and comes back:      *)
(* persist_session_snapshot (backend/session_manager.py) and save_snapshot,  *)
(* load_session of agent/core/session_persistence.py.                       *)
(*                                                                         *)
(* A save captures the live context, awaits the update of the session       *)
(* document and then awaits one unordered bulk write with an upsert per     *)
(* message and a delete of everything past the end.  The task of the        *)
(* session saves after every submission, HTTP routes (truncate, model and   *)
(* title changes, the quota gate) save when they please, and the idle       *)
(* reaper saves before it evicts.  Message 0, the system prompt, is never   *)
(* restored and is left out.                                                *)
(***************************************************************************)
EXTENDS Naturals, Sequences, FiniteSets, SequencesExt

CONSTANTS
  Writers,   \* who saves: a subset of {"turn", "route", "reaper"}
  Edits,     \* what turns do to the context: of {"append", "undo", "compact"}
  Faults,    \* of {"write", "crash"}: writes that fail, process restarts
  MaxLen,    \* bound: messages in a context
  MaxMsg     \* bound: messages ever written

ASSUME StoreAssumption ==
  /\ Writers \subseteq {"turn", "route", "reaper"}
  /\ Edits \subseteq {"append", "undo", "compact"}
  /\ Faults \subseteq {"write", "crash"}
  /\ MaxLen \in Nat /\ MaxMsg \in Nat

VARIABLES
  items,     \* context_manager.items of the live session, without the prompt
  live,      \* the session is in SessionManager.sessions
  turning,   \* a submission is being executed (is_processing)
  fresh,     \* number of messages written so far; the next one is fresh + 1
  wpc,       \* where the save of each writer stands
  snap,      \* the messages each writer captured
  todo,      \* operations left of its bulk write: indices, and 0 for DeleteMany
  count,     \* message_count of the session document
  rows,      \* session_messages: index -> message, 0 where there is no row
  loader,    \* ensure_session_loaded: between its two reads or not
  last,      \* history: how far the newest bulk write got, and whether alone
  acked      \* history: the messages no save since has put in doubt

vars == <<items, live, turning, fresh, wpc, snap, todo, count, rows, loader,
          last, acked>>
writer == <<wpc, snap, todo>>
store == <<count, rows>>
history == <<last, acked>>

Idxs == 1 .. MaxLen
Contexts == BoundedSeq(1 .. MaxMsg, MaxLen)

TypeOK ==
  /\ items \in Contexts
  /\ live \in BOOLEAN
  /\ turning \in BOOLEAN
  /\ fresh \in 0 .. MaxMsg
  /\ wpc \in [Writers -> {"idle", "meta", "bulk", "saved"}]
  /\ snap \in [Writers -> Contexts]
  /\ todo \in [Writers -> SUBSET (0 .. MaxLen)]
  /\ count \in 0 .. MaxLen
  /\ rows \in [Idxs -> 0 .. MaxMsg]
  /\ loader \in {"idle", "reading"}
  /\ last \in {"alone", "mixed", "settled"}
  /\ acked \in Contexts

Init ==
  /\ items = <<>> /\ live = TRUE /\ turning = FALSE /\ fresh = 0
  /\ wpc = [w \in Writers |-> "idle"]
  /\ snap = [w \in Writers |-> <<>>]
  /\ todo = [w \in Writers |-> {}]
  /\ count = 0
  /\ rows = [k \in Idxs |-> 0]
  /\ loader = "idle"
  /\ last = "settled" /\ acked = <<>>

\* the conversation a load would return: the rows, in the order of their index
Held == {k \in Idxs : rows[k] # 0}
Stored == [n \in 1 .. Cardinality(Held) |->
             rows[CHOOSE k \in Held : Cardinality(Held \cap (1 .. k)) = n]]

\* how many messages two conversations have in common before they part
Agreement(s, t) ==
  Cardinality({n \in 1 .. Len(s) : n <= Len(t) /\ \A k \in 1 .. n : s[k] = t[k]})

Busy(w) == w \in Writers /\ wpc[w] # "idle"

---------------------------------------------------------------------------
(* The live context, edited by submissions.  A submission starts when the   *)
(* save after the previous one is over, and none runs while the reaper has   *)
(* claimed the session (SessionPool, ReaperSparesWork).                     *)

Append1 ==
  /\ "append" \in Edits
  /\ Len(items) < MaxLen
  /\ items' = Append(items, fresh + 1)

\* undo_last_turn: the tail from the last user message on
Undo ==
  /\ "undo" \in Edits
  /\ \E n \in 0 .. Len(items) - 1 : items' = SubSeq(items, 1, n)

\* compact: a summary takes the place of everything but a tail
Compact ==
  /\ "compact" \in Edits
  /\ \E n \in 2 .. Len(items) :
        items' = <<fresh + 1>> \o SubSeq(items, n + 1, Len(items))

Turn ==
  /\ live
  /\ ~Busy("turn") /\ ~Busy("reaper")
  /\ fresh < MaxMsg
  /\ fresh' = fresh + 1
  /\ Append1 \/ Undo \/ Compact
  /\ turning' = TRUE
  /\ UNCHANGED <<live, writer, store, loader, history>>

---------------------------------------------------------------------------
(* Saves                                                                   *)

Capture(w, context) ==
  /\ w \in Writers
  /\ wpc[w] = "idle"
  /\ wpc' = [wpc EXCEPT ![w] = "meta"]
  /\ snap' = [snap EXCEPT ![w] = context]
  /\ UNCHANGED todo

\* persist_session_snapshot, by _run_session when a submission is over, by a
\* route, or by the reaper: after fifteen idle minutes, when no submission runs
\* and the saves that captured an older conversation are over
SaveBegin(w) ==
  /\ live
  /\ w = "turn" => turning
  /\ w = "reaper" => ~turning /\ ~Busy("turn") /\ \A v \in Writers : Busy(v) => snap[v] = items
  /\ Capture(w, items)
  /\ turning' = (turning /\ w # "turn")
  /\ UNCHANGED <<items, live, fresh, store, loader, history>>

\* truncate: neither the queue nor is_reaping holds the route back
Truncate ==
  /\ live
  /\ \E n \in 0 .. Len(items) - 1 :
       /\ items' = SubSeq(items, 1, n)
       /\ Capture("route", SubSeq(items, 1, n))
  /\ UNCHANGED <<live, turning, fresh, store, loader, history>>

\* what was acknowledged so far is now in doubt, but for what the save repeats
StartsWriting(w) ==
  /\ last' = IF \E v \in Writers \ {w} : wpc[v] = "bulk" THEN "mixed" ELSE "alone"
  /\ acked' = SubSeq(acked, 1, Agreement(acked, snap[w]))

\* mutant: the system prompt, which is not stored, is counted
SaveMeta_CountsPrompt(w) ==
  /\ wpc[w] = "meta"
  /\ count' = Len(snap[w]) + 1
  /\ todo' = [todo EXCEPT ![w] = 0 .. Len(snap[w])]
  /\ wpc' = [wpc EXCEPT ![w] = "bulk"]
  /\ StartsWriting(w)
  /\ UNCHANGED <<items, live, turning, fresh, snap, rows, loader>>

\* upsert_session
SaveMeta(w) ==
  /\ wpc[w] = "meta"
  /\ count' = Len(snap[w])
  /\ todo' = [todo EXCEPT ![w] = 0 .. Len(snap[w])]
  /\ wpc' = [wpc EXCEPT ![w] = "bulk"]
  /\ StartsWriting(w)
  /\ UNCHANGED <<items, live, turning, fresh, snap, rows, loader>>

\* the upsert raises: a best-effort save logs it, the reaper gives up
SaveMetaFails(w) ==
  /\ "write" \in Faults
  /\ wpc[w] = "meta"
  /\ wpc' = [wpc EXCEPT ![w] = "idle"]
  /\ UNCHANGED <<items, live, turning, fresh, snap, todo, store, loader, history>>

\* mutant: the delete starts one row too late
BulkOp_DeletesLate(w, k) ==
  LET n == Len(snap[w]) IN
  /\ wpc[w] = "bulk"
  /\ k \in todo[w]
  /\ rows' = IF k = 0 THEN [j \in Idxs |-> IF j > n + 1 THEN 0 ELSE rows[j]]
                      ELSE [rows EXCEPT ![k] = snap[w][k]]
  /\ todo' = [todo EXCEPT ![w] = @ \ {k}]
  /\ UNCHANGED <<items, live, turning, fresh, wpc, snap, count, loader, history>>

\* mutant: the delete starts one row too early
BulkOp_DeletesEarly(w, k) ==
  LET n == Len(snap[w]) IN
  /\ wpc[w] = "bulk"
  /\ k \in todo[w]
  /\ rows' = IF k = 0 THEN [j \in Idxs |-> IF j >= n THEN 0 ELSE rows[j]]
                      ELSE [rows EXCEPT ![k] = snap[w][k]]
  /\ todo' = [todo EXCEPT ![w] = @ \ {k}]
  /\ UNCHANGED <<items, live, turning, fresh, wpc, snap, count, loader, history>>

\* bulk_write(ordered=False): the server executes its operations in any
\* order, and other writes and reads come in between
BulkOp(w, k) ==
  LET n == Len(snap[w]) IN
  /\ wpc[w] = "bulk"
  /\ k \in todo[w]
  /\ rows' = IF k = 0 THEN [j \in Idxs |-> IF j > n THEN 0 ELSE rows[j]]
                      ELSE [rows EXCEPT ![k] = snap[w][k]]
  /\ todo' = [todo EXCEPT ![w] = @ \ {k}]
  /\ UNCHANGED <<items, live, turning, fresh, wpc, snap, count, loader, history>>

SaveReturns(w) ==
  /\ wpc' = [wpc EXCEPT ![w] = IF w = "reaper" THEN "saved" ELSE "idle"]
  /\ UNCHANGED <<items, live, turning, fresh, snap, store, loader>>

\* the bulk write raises PyMongoError: save_snapshot logs and returns
\* normally, for the reaper (raise_on_error) too
BulkFails(w) ==
  /\ "write" \in Faults
  /\ wpc[w] = "bulk" /\ todo[w] # {}
  /\ todo' = [todo EXCEPT ![w] = {}]
  /\ SaveReturns(w)
  /\ UNCHANGED history

SaveDone(w) ==
  /\ wpc[w] = "bulk" /\ todo[w] = {}
  /\ IF last = "alone" THEN last' = "settled" /\ acked' = snap[w]
                       ELSE UNCHANGED history
  /\ SaveReturns(w)
  /\ UNCHANGED todo

---------------------------------------------------------------------------
(* Leaving memory and coming back                                          *)

\* the reaper pops the session
Evict ==
  /\ Busy("reaper") /\ wpc["reaper"] = "saved"
  /\ live' = FALSE
  /\ wpc' = [wpc EXCEPT !["reaper"] = "idle"]
  /\ UNCHANGED <<items, turning, fresh, snap, todo, store, loader, history>>

\* the process restarts: nothing in memory survives
Crash ==
  /\ "crash" \in Faults
  /\ live \/ loader = "reading"
  /\ live' = FALSE
  /\ turning' = FALSE
  /\ loader' = "idle"
  /\ wpc' = [w \in Writers |-> "idle"]
  /\ todo' = [w \in Writers |-> {}]
  /\ UNCHANGED <<items, fresh, snap, store, history>>

\* load_session: the document, then the rows in index order
LoadMeta ==
  /\ ~live
  /\ loader = "idle"
  /\ loader' = "reading"
  /\ UNCHANGED <<items, live, turning, fresh, writer, store, history>>

LoadRows ==
  /\ loader = "reading"
  /\ items' = Stored
  /\ live' = TRUE
  /\ loader' = "idle"
  /\ UNCHANGED <<turning, fresh, writer, store, history>>

WriterStep(w) ==
  \/ SaveBegin(w) \/ SaveMeta(w) \/ SaveMetaFails(w)
  \/ \E k \in 0 .. MaxLen : BulkOp(w, k)
  \/ BulkFails(w) \/ SaveDone(w)

Next ==
  \/ Turn
  \/ Truncate
  \/ \E w \in Writers : WriterStep(w)
  \/ Evict \/ Crash
  \/ LoadMeta \/ LoadRows

Spec == Init /\ [][Next]_vars

---------------------------------------------------------------------------
(* Properties                                                              *)

\* What was acknowledged survives: the messages of a save that completed, as
\* far as every save begun since repeats them, head the stored conversation at
\* every moment, whatever failing writes, restarts, overlapping saves of a turn,
\* a route and the reaper, undos and compactions leave behind them.
AckedPrefixSurvives == IsPrefix(acked, Stored)

\* Once a save has completed that no other save overlapped, the store holds
\* exactly its conversation, whatever mixture earlier saves had left there: no
\* message of a longer, older conversation comes back.
SettledIsSaved == last = "settled" => Stored = acked /\ count = Len(acked)

\* session_manager.py:725-727: the caller that throws the session away knows
\* that the snapshot landed.  When the reaper pops the session, and no other save
\* of it is under way, the document and the rows in the store are the
\* conversation it drops from memory.
EvictedSnapshotLanded ==
  [][Evict /\ (\A w \in Writers : Busy(w) => w = "reaper")
       => count = Len(items) /\ Stored = items]_vars
=============================================================================
