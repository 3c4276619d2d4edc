--------------------------- MODULE PremiumQuotaMC ---------------------------
(* Small instances of PremiumQuota for TLC.                                 *)
EXTENDS PremiumQuota, TLC

CONSTANTS s1, s2, r1, r2, r3

Symmetric == Permutations(Sessions) \cup Permutations(Reqs)
=============================================================================
