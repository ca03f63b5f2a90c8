--------------------------- MODULE SubnetAllocator ---------------------------
(***************************************************************************)
(* internal/subnet/allocator.go: the sub-prefixes carved from the          *)
(* operator's aggregate and the node each one is assigned to.              *)
(*                                                                         *)
(* A sub-prefix is its index in Allocator.subnets, in address order.  Its  *)
(* InUse flag and NodeID change together, so one value says both:          *)
(* subnets[s] = None stands for InUse = false.  Every method holds         *)
(* Allocator.mu from its first to its last statement, so each is one step. *)
(***************************************************************************)
EXTENDS NodeIDs, Naturals

CONSTANT NumSubnets         \* how many sub-prefixes carve() produced

ASSUME NumSubnetsIsNat == NumSubnets \in Nat \ {0}

VARIABLE subnets            \* Allocator.subnets

SubnetIDs == 1 .. NumSubnets

SubnetTypeOK == subnets \in [SubnetIDs -> Nodes \cup {None}]

\* Faulty variant for a mutant: carve() loops to `i <= count`.
SubnetInitOneTooMany == subnets = [s \in SubnetIDs \cup {NumSubnets + 1} |-> None]

\* NewAllocator: every carved sub-prefix starts free.
SubnetInit == subnets = [s \in SubnetIDs |-> None]

SubnetsOf(n) == {s \in SubnetIDs : subnets[s] = n}

FreeSubnets == SubnetsOf(None)

\* The loops over a.subnets stop at the first match: the lowest index.
FirstOf(s, S) == s \in S /\ \A t \in S : s <= t

-----------------------------------------------------------------------------
\* Faulty variants, each a slip the code could have made; they show that the
\* properties can fail (PROJECT.json, "mutants").

\* Allocate takes the first sub-prefix without looking at InUse.
AllocateSubnetIgnoringInUse(n, s) ==
    \/ FirstOf(s, SubnetsOf(n)) /\ UNCHANGED subnets
    \/ /\ SubnetsOf(n) = {}
       /\ FirstOf(s, SubnetIDs)
       /\ subnets' = [subnets EXCEPT ![s] = n]
-----------------------------------------------------------------------------
(***************************************************************************)
(* Allocate(n) returns s: the sub-prefix the node holds already, otherwise *)
(* the first free one.                                                     *)
(***************************************************************************)
AllocateSubnet(n, s) ==
    \/ FirstOf(s, SubnetsOf(n)) /\ UNCHANGED subnets
    \/ /\ SubnetsOf(n) = {}
       /\ FirstOf(s, FreeSubnets)
       /\ subnets' = [subnets EXCEPT ![s] = n]

\* Allocate(n) returns "no free subnets available" and changes nothing.
SubnetsExhausted(n) == SubnetsOf(n) = {} /\ FreeSubnets = {}

\* AssignSpecific(s, n), when it does not return an error.
AssignSpecific(n, s) ==
    /\ subnets[s] \in {None, n}
    /\ subnets' = [subnets EXCEPT ![s] = n]

\* Release(n) frees the first sub-prefix the node holds; without one it
\* returns an error and changes nothing.
ReleaseSubnet(n) ==
    \/ \E s \in SubnetIDs :
         /\ FirstOf(s, SubnetsOf(n))
         /\ subnets' = [subnets EXCEPT ![s] = None]
    \/ SubnetsOf(n) = {} /\ UNCHANGED subnets

SubnetNext ==
    \E n \in Nodes :
      \/ \E s \in SubnetIDs : AllocateSubnet(n, s)
      \/ \E s \in SubnetIDs : AssignSpecific(n, s)
      \/ ReleaseSubnet(n)

SubnetSpec == SubnetInit /\ [][SubnetNext]_subnets

-----------------------------------------------------------------------------
(***************************************************************************)
(* The allocator implements the pool: no sub-prefix is ever handed to a    *)
(* second node while the first one holds it, by Allocate or by             *)
(* AssignSpecific (allocator.go:75, 92).                                   *)
(***************************************************************************)
SubnetPool == INSTANCE ResourcePool WITH Resources <- SubnetIDs, owner <- subnets

SubnetsAreAPool == SubnetPool!ClaimablePoolSpec
=============================================================================
