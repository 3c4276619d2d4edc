--------------------------- MODULE SessionPoolMC ---------------------------
(* Instances of SessionPool for TLC: all sessions belong to one user unless  *)
(* a run gives the ids different owners.                                     *)
EXTENDS SessionPool, TLC

CONSTANTS u1

OneOwner == [i \in Ids |-> u1]

\* Objects are interchangeable: nothing orders or names them.  Only for runs
\* without liveness properties.
ObjSymmetry == Permutations(Objs)
=============================================================================
