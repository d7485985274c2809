------------------------ MODULE IdentityProjectionMC ------------------------
(***************************************************************************)
(* One person with a number and two LIDs, whose links become known in any   *)
(* order.                                                                   *)
(***************************************************************************)
EXTENDS IdentityProjection, TLC

OnePerson == [l \in Lids |-> 1]
Alike == Permutations(Adapters)

\* Bound: two adapters at once are not combined with refused writes, awaited numbers or a
\* third start.
OverlapBound == calm \/ (starts < MaxStarts /\ faults = 0 /\ \A a \in Adapters : asking[a] = 0)
=============================================================================
