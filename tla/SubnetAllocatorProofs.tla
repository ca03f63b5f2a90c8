------------------------ MODULE SubnetAllocatorProofs ------------------------
(***************************************************************************)
(* SubnetAllocator is type correct and implements ResourcePool, for every  *)
(* number of sub-prefixes and every set of nodes.                          *)
(***************************************************************************)
EXTENDS SubnetAllocator, TLAPS

\* One call of the allocator keeps the table a table of nodes
\* (allocator.go:63-116).
LEMMA SubnetStepKeepsType ==
    ASSUME SubnetTypeOK, SubnetNext
    PROVE  SubnetTypeOK'
<1> USE DEF SubnetTypeOK
<1>1. PICK n \in Nodes :
        \/ \E s \in SubnetIDs : AllocateSubnet(n, s)
        \/ \E s \in SubnetIDs : AssignSpecific(n, s)
        \/ ReleaseSubnet(n)
  BY DEF SubnetNext
<1>2. CASE \E s \in SubnetIDs : AllocateSubnet(n, s)
  BY <1>2 DEF AllocateSubnet, FirstOf
<1>3. CASE \E s \in SubnetIDs : AssignSpecific(n, s)
  BY <1>3 DEF AssignSpecific
<1>4. CASE ReleaseSubnet(n)
  BY <1>4 DEF ReleaseSubnet, FirstOf
<1> QED
  BY <1>1, <1>2, <1>3, <1>4

\* The allocator's table always maps sub-prefixes to nodes or to nobody.
THEOREM SubnetTypeCorrect == SubnetSpec => []SubnetTypeOK
<1>1. SubnetInit => SubnetTypeOK
  BY DEF SubnetInit, SubnetTypeOK
<1>2. SubnetTypeOK /\ [SubnetNext]_subnets => SubnetTypeOK'
  BY SubnetStepKeepsType DEF SubnetTypeOK
<1> QED
  BY <1>1, <1>2, PTL DEF SubnetSpec

\* Each call is a step of the pool or leaves the table alone: Allocate only
\* takes a free sub-prefix, AssignSpecific a free one or the node's own, and
\* Release frees one of the node's own (allocator.go:68-80, 92-96, 109-112).
LEMMA SubnetStepIsPoolStep ==
    ASSUME SubnetTypeOK, SubnetNext
    PROVE  SubnetPool!ClaimablePoolNext \/ UNCHANGED subnets
<1> USE DEF SubnetPool!ClaimablePoolNext, SubnetPool!PoolNext
<1>1. PICK n \in Nodes :
        \/ \E s \in SubnetIDs : AllocateSubnet(n, s)
        \/ \E s \in SubnetIDs : AssignSpecific(n, s)
        \/ ReleaseSubnet(n)
  BY DEF SubnetNext
<1>2. ASSUME NEW s \in SubnetIDs, AllocateSubnet(n, s)
      PROVE  SubnetPool!Acquire(n) \/ UNCHANGED subnets
  <2>1. CASE SubnetsOf(n) = {} /\ FirstOf(s, FreeSubnets)
               /\ subnets' = [subnets EXCEPT ![s] = n]
    <3>1. subnets[s] = None
      BY <2>1 DEF FirstOf, FreeSubnets, SubnetsOf
    <3>2. \A r \in SubnetIDs : subnets[r] # n
      BY <2>1 DEF SubnetsOf
    <3> QED
      BY <2>1, <3>1, <3>2 DEF SubnetPool!Acquire
  <2> QED
    BY <1>2, <2>1 DEF AllocateSubnet
<1>3. ASSUME NEW s \in SubnetIDs, AssignSpecific(n, s)
      PROVE  SubnetPool!Claim(n, s)
  BY <1>3 DEF AssignSpecific, SubnetPool!Claim
<1>4. CASE ReleaseSubnet(n)
  BY <1>4 DEF ReleaseSubnet, FirstOf, SubnetsOf, SubnetPool!GiveBack
<1> QED
  BY <1>1, <1>2, <1>3, <1>4

\* The allocator implements the pool of exclusive resources: whatever calls
\* are made, a sub-prefix passes from one node to another only through Free.
THEOREM SubnetAllocatorImplementsPool == SubnetSpec => SubnetsAreAPool
<1>1. SubnetInit => SubnetPool!PoolInit
  BY DEF SubnetInit, SubnetPool!PoolInit
<1>2. SubnetTypeOK /\ [SubnetNext]_subnets => [SubnetPool!ClaimablePoolNext]_subnets
  BY SubnetStepIsPoolStep
<1> QED
  BY <1>1, <1>2, SubnetTypeCorrect, PTL
     DEF SubnetSpec, SubnetsAreAPool, SubnetPool!ClaimablePoolSpec
=============================================================================
