----------------------------- MODULE Selections -----------------------------
(***************************************************************************)
(* Filtering a sequence by position: the comprehensions and joins of the     *)
(* ledger, of message lists and of texts.                                   *)
(***************************************************************************)
EXTENDS Integers, Sequences

\* the members of s at the positions S, in their order
Picked(s, S) ==
  LET upto[k \in 0 .. Len(s)] ==
        IF k = 0 THEN <<>>
        ELSE IF k \in S THEN Append(upto[k - 1], s[k]) ELSE upto[k - 1]
  IN upto[Len(s)]
=============================================================================
