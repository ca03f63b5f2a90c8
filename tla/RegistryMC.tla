----------------------------- MODULE RegistryMC -----------------------------
(***************************************************************************)
(* Instances of Registry small enough for TLC.  Two nodes of which the     *)
(* first has two keys (a configured key may change between two starts of   *)
(* an agent), or one key each where the key does not matter.               *)
(***************************************************************************)
EXTENDS Registry, TLC

CONSTANTS n1, n2, n3, k1, k1b, k2, k3

OwnerOfTwoKeys == k1 :> n1 @@ k1b :> n1 @@ k2 :> n2
OwnerOfThree   == k1 :> n1 @@ k2 :> n2 @@ k3 :> n3
OwnerOfOneEach == k1 :> n1 @@ k2 :> n2

\* Goroutines are interchangeable.
SlotSymmetry == Permutations(Slots)

\* So are nodes with one key each, when each takes its key along.
KeyOf(n) == CHOOSE k \in Keys : KeyOwner[k] = n

NodeSymmetry ==
    {p @@ [k \in Keys |-> KeyOf(p[KeyOwner[k]])] @@ q :
        p \in Permutations(Nodes), q \in SlotSymmetry}
=============================================================================
