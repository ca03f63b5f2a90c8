---------------------------- MODULE ResourcePool ----------------------------
(***************************************************************************)
(* What a pool of exclusive resources promises its users, whichever way it *)
(* picks the resource: a resource has at most one owner, it is only ever   *)
(* handed out when free, and only its owner's release takes it back.  A    *)
(* resource never passes from one owner to another in one step.            *)
(*                                                                         *)
(* WGIPAllocator implements PoolSpec, where a node also owns at most one   *)
(* resource; SubnetAllocator implements ClaimablePoolSpec.                 *)
(***************************************************************************)
EXTENDS NodeIDs

CONSTANT Resources

VARIABLE owner      \* owner[r]: the node r is assigned to, or None

PoolInit == owner = [r \in Resources |-> None]

\* A node that owns nothing is given some free resource.
Acquire(n) ==
    /\ \A r \in Resources : owner[r] # n
    /\ \E r \in Resources :
         /\ owner[r] = None
         /\ owner' = [owner EXCEPT ![r] = n]

\* A node is given the resource it names, provided nobody else owns it.
Claim(n, r) ==
    /\ owner[r] \in {None, n}
    /\ owner' = [owner EXCEPT ![r] = n]

\* A node gives one of its resources back.
GiveBack(n) ==
    \E r \in Resources :
      /\ owner[r] = n
      /\ owner' = [owner EXCEPT ![r] = None]

PoolNext == \E n \in Nodes : Acquire(n) \/ GiveBack(n)

PoolSpec == PoolInit /\ [][PoolNext]_owner

\* The same pool when an operator may also pick resources by name.
ClaimablePoolNext == PoolNext \/ \E n \in Nodes, r \in Resources : Claim(n, r)

ClaimablePoolSpec == PoolInit /\ [][ClaimablePoolNext]_owner
=============================================================================
