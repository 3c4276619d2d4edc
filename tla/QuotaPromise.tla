---------------------------- MODULE QuotaPromise ----------------------------
(***************************************************************************)
(* What try_increment_claude promises (backend/user_quotas.py:82-86): each   *)
(* day's counter is bumped atomically, one point at a time, and only while  *)
(* it is below the cap.                                                     *)
(***************************************************************************)
EXTENDS Naturals

CONSTANTS Days, Cap
VARIABLE count

Init == count = [d \in Days |-> 0]

TryIncrement(d) ==
  /\ count[d] < Cap
  /\ count' = [count EXCEPT ![d] = @ + 1]

Next == \E d \in Days : TryIncrement(d)

Spec == Init /\ [][Next]_count
=============================================================================
