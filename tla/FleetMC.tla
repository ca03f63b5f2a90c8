------------------------------- MODULE FleetMC -------------------------------
(***************************************************************************)
(* Instances of Fleet small enough for TLC: two daemons, of which the      *)
(* first may come back with another key.                                   *)
(***************************************************************************)
EXTENDS Fleet, TLC

CONSTANTS n1, n2, k1, k1b, k2

OwnerOfTwoKeys == k1 :> n1 @@ k1b :> n1 @@ k2 :> n2
OwnerOfOneEach == k1 :> n1 @@ k2 :> n2
OwnerOfOne     == k1 :> n1

\* Goroutines are interchangeable.
SlotSymmetry == Permutations(Slots)
=============================================================================
