------------------------- MODULE WGIPAllocatorProofs -------------------------
(***************************************************************************)
(* The tunnel-address allocator is type correct and conserves addresses,   *)
(* for every pool size and every set of nodes.                             *)
(***************************************************************************)
EXTENDS WGIPAllocator, SequenceTheorems, TLAPS

\* The inductive invariant.
WGIPInv == WGIPTypeOK /\ AddressesConserved

\* newWGIPAllocator establishes it (registry.go:507-520).
LEMMA WGIPInitInv == WGIPInit => WGIPInv
<1> SUFFICES ASSUME WGIPInit PROVE WGIPInv
  OBVIOUS
<1>1. NumIPs \in Nat
  BY NumIPsIsNat
<1>2. pool \in [1 .. NumIPs -> IPs]
  BY DEF WGIPInit, IPs
<1>3. pool \in Seq(IPs) /\ Len(pool) = NumIPs
  BY <1>1, <1>2
<1>4. WGIPTypeOK
  BY <1>3 DEF WGIPInit, WGIPTypeOK
<1>5. AddressesConserved
  BY <1>3, NoneIsNoIP
     DEF WGIPInit, AddressesConserved, PoolHasNoDuplicates, PooledIsUnassigned,
         AssignedOnce, NoAddressLost, IPs
<1> QED
  BY <1>4, <1>5 DEF WGIPInv

\* Allocate keeps it: the head leaves the pool for the node's entry
\* (registry.go:532-534).
LEMMA AllocateKeepsInv ==
    ASSUME WGIPInv, NEW n \in Nodes, NEW ip \in IPs, AllocateWGIP(n, ip)
    PROVE  WGIPInv'
<1> USE DEF WGIPInv, WGIPTypeOK
<1>1. CASE UNCHANGED wgipVars
  BY <1>1 DEF wgipVars, AddressesConserved, PoolHasNoDuplicates, PooledIsUnassigned,
              AssignedOnce, NoAddressLost
<1>2. CASE /\ assigned[n] = None
           /\ pool # <<>>
           /\ ip = Head(pool)
           /\ pool' = Tail(pool)
           /\ assigned' = [assigned EXCEPT ![n] = ip]
  <2>1. /\ pool' \in Seq(IPs)
        /\ Len(pool) \in Nat \ {0}
        /\ Len(pool') = Len(pool) - 1
        /\ ip = pool[1]
        /\ \A i \in 1 .. Len(pool') : pool'[i] = pool[i + 1]
    BY <1>2, HeadTailProperties, EmptySeq
  <2>2. ip # None
    BY NoneIsNoIP
  <2>3. \A m \in Nodes : assigned'[m] = IF m = n THEN ip ELSE assigned[m]
    BY <1>2
  <2>4. WGIPTypeOK'
    BY <1>2, <2>1
  <2>5. PoolHasNoDuplicates'
    <3> SUFFICES ASSUME NEW i \in 1 .. Len(pool'), NEW j \in 1 .. Len(pool'),
                        pool'[i] = pool'[j]
                 PROVE  i = j
      BY DEF PoolHasNoDuplicates
    <3>1. i + 1 \in 1 .. Len(pool) /\ j + 1 \in 1 .. Len(pool)
      BY <2>1
    <3>2. pool[i + 1] = pool[j + 1]
      BY <2>1
    <3> QED
      BY <3>1, <3>2 DEF AddressesConserved, PoolHasNoDuplicates
  <2>6. PooledIsUnassigned'
    <3> SUFFICES ASSUME NEW i \in 1 .. Len(pool'), NEW m \in Nodes
                 PROVE  pool'[i] # assigned'[m]
      BY DEF PooledIsUnassigned
    <3>1. i + 1 \in 1 .. Len(pool) /\ 1 \in 1 .. Len(pool) /\ i + 1 # 1
      BY <2>1
    <3>2. pool'[i] # ip
      BY <2>1, <3>1 DEF AddressesConserved, PoolHasNoDuplicates
    <3>3. pool'[i] # assigned[m]
      BY <2>1, <3>1 DEF AddressesConserved, PooledIsUnassigned
    <3> QED
      BY <2>3, <3>2, <3>3
  <2>7. AssignedOnce'
    <3>1. \A m \in Nodes : assigned[m] # ip
      BY <2>1 DEF AddressesConserved, PooledIsUnassigned
    <3> QED
      BY <2>3, <3>1 DEF AddressesConserved, AssignedOnce
  <2>8. NoAddressLost'
    <3> SUFFICES ASSUME NEW a \in IPs
                 PROVE  \/ \E i \in 1 .. Len(pool') : pool'[i] = a
                        \/ \E m \in Nodes : assigned'[m] = a
      BY DEF NoAddressLost
    <3>1. CASE a = ip
      BY <2>3, <3>1
    <3>2. CASE a # ip /\ \E i \in 1 .. Len(pool) : pool[i] = a
      <4>1. PICK i \in 1 .. Len(pool) : pool[i] = a
        BY <3>2
      <4>2. i # 1
        BY <3>2, <4>1, <2>1
      <4>3. i - 1 \in 1 .. Len(pool') /\ pool'[i - 1] = a
        BY <4>1, <4>2, <2>1
      <4> QED
        BY <4>3
    <3>3. CASE \E m \in Nodes : assigned[m] = a
      <4>1. PICK m \in Nodes : assigned[m] = a
        BY <3>3
      <4>2. m # n
        BY <4>1, <1>2, NoneIsNoIP
      <4> QED
        BY <4>1, <4>2, <2>3
    <3> QED
      BY <3>1, <3>2, <3>3 DEF AddressesConserved, NoAddressLost
  <2> QED
    BY <2>4, <2>5, <2>6, <2>7, <2>8 DEF AddressesConserved
<1> QED
  BY <1>1, <1>2 DEF AllocateWGIP

\* Release keeps it: the node's address moves to the pool's tail
\* (registry.go:541-543).
LEMMA ReleaseKeepsInv ==
    ASSUME WGIPInv, NEW n \in Nodes, ReleaseWGIP(n)
    PROVE  WGIPInv'
<1> USE DEF WGIPInv, WGIPTypeOK
<1>1. CASE UNCHANGED wgipVars
  BY <1>1 DEF wgipVars, AddressesConserved, PoolHasNoDuplicates, PooledIsUnassigned,
              AssignedOnce, NoAddressLost
<1>2. CASE /\ assigned[n] # None
           /\ pool' = Append(pool, assigned[n])
           /\ assigned' = [assigned EXCEPT ![n] = None]
  <2> DEFINE ip == assigned[n]
  <2>0. ip \in IPs
    BY <1>2
  <2>1. /\ pool' \in Seq(IPs)
        /\ Len(pool) \in Nat
        /\ Len(pool') = Len(pool) + 1
        /\ pool'[Len(pool) + 1] = ip
        /\ \A i \in 1 .. Len(pool) : pool'[i] = pool[i]
    BY <1>2, <2>0, AppendProperties, LenProperties
  <2>2. \A m \in Nodes : assigned'[m] = IF m = n THEN None ELSE assigned[m]
    BY <1>2
  <2>3. \A i \in 1 .. Len(pool) : pool[i] # ip
    BY DEF AddressesConserved, PooledIsUnassigned
  <2>4. WGIPTypeOK'
    BY <1>2, <2>1
  <2>5. PoolHasNoDuplicates'
    BY <2>1, <2>3 DEF AddressesConserved, PoolHasNoDuplicates
  <2>6. PooledIsUnassigned'
    <3> SUFFICES ASSUME NEW i \in 1 .. Len(pool'), NEW m \in Nodes
                 PROVE  pool'[i] # assigned'[m]
      BY DEF PooledIsUnassigned
    <3>1. pool'[i] \in IPs
      BY <2>1, ElementOfSeq
    <3>2. CASE m = n
      BY <3>1, <3>2, <2>2, NoneIsNoIP
    <3>3. CASE m # n /\ i = Len(pool) + 1
      BY <3>3, <2>0, <2>1, <2>2, <1>2 DEF AddressesConserved, AssignedOnce
    <3>4. CASE m # n /\ i # Len(pool) + 1
      BY <3>4, <2>1, <2>2 DEF AddressesConserved, PooledIsUnassigned
    <3> QED
      BY <3>2, <3>3, <3>4
  <2>7. AssignedOnce'
    BY <2>2 DEF AddressesConserved, AssignedOnce
  <2>8. NoAddressLost'
    <3> SUFFICES ASSUME NEW a \in IPs
                 PROVE  \/ \E i \in 1 .. Len(pool') : pool'[i] = a
                        \/ \E m \in Nodes : assigned'[m] = a
      BY DEF NoAddressLost
    <3>1. CASE a = ip
      BY <3>1, <2>1
    <3>2. CASE a # ip /\ \E i \in 1 .. Len(pool) : pool[i] = a
      BY <3>2, <2>1
    <3>3. CASE a # ip /\ \E m \in Nodes : assigned[m] = a
      BY <3>3, <2>2
    <3> QED
      BY <3>1, <3>2, <3>3 DEF AddressesConserved, NoAddressLost
  <2> QED
    BY <2>4, <2>5, <2>6, <2>7, <2>8 DEF AddressesConserved
<1> QED
  BY <1>1, <1>2 DEF ReleaseWGIP

\* Type correctness and conservation together are inductive.
THEOREM WGIPInvariant == WGIPSpec => []WGIPInv
<1>1. WGIPInv /\ [WGIPNext]_wgipVars => WGIPInv'
  <2> SUFFICES ASSUME WGIPInv, [WGIPNext]_wgipVars PROVE WGIPInv'
    OBVIOUS
  <2>1. CASE WGIPNext
    BY <2>1, AllocateKeepsInv, ReleaseKeepsInv DEF WGIPNext
  <2>2. CASE UNCHANGED wgipVars
    BY <2>2 DEF wgipVars, WGIPInv, WGIPTypeOK, AddressesConserved, PoolHasNoDuplicates,
                PooledIsUnassigned, AssignedOnce, NoAddressLost
  <2> QED
    BY <2>1, <2>2
<1> QED
  BY WGIPInitInv, <1>1, PTL DEF WGIPSpec

\* The queue and the table of assigned addresses keep their types: None is
\* never queued and no address is assigned that is not one (registry.go:523-545).
THEOREM WGIPTypeCorrect == WGIPSpec => []WGIPTypeOK
<1>1. WGIPInv => WGIPTypeOK
  BY DEF WGIPInv
<1> QED
  BY WGIPInvariant, <1>1, PTL

\* Every tunnel address is always in exactly one place, for every pool size
\* and every set of nodes (registry.go:523-545).
THEOREM AddressesAreConserved == WGIPSpec => []AddressesConserved
<1>1. WGIPInv => AddressesConserved
  BY DEF WGIPInv
<1> QED
  BY WGIPInvariant, <1>1, PTL

-----------------------------------------------------------------------------
\* The owner the refinement computes is the node the map assigns to.
OwnersAreAssignees ==
    \A ip \in IPs :
      /\ \A n \in Nodes : OwnerOf(ip) = n <=> assigned[n] = ip
      /\ OwnerOf(ip) = None <=> \A n \in Nodes : assigned[n] # ip

LEMMA OwnerIsAssignee == WGIPInv => OwnersAreAssignees
<1> SUFFICES ASSUME WGIPInv, NEW ip \in IPs
             PROVE  /\ \A n \in Nodes : OwnerOf(ip) = n <=> assigned[n] = ip
                    /\ OwnerOf(ip) = None <=> \A n \in Nodes : assigned[n] # ip
  BY DEF OwnersAreAssignees
<1>1. ip # None
  BY NoneIsNoIP
<1>2. CASE \E n \in Nodes : assigned[n] = ip
  <2>1. OwnerOf(ip) \in Nodes /\ assigned[OwnerOf(ip)] = ip
    BY <1>2 DEF OwnerOf
  <2>2. \A n \in Nodes : assigned[n] = ip => n = OwnerOf(ip)
    BY <1>1, <2>1 DEF WGIPInv, AddressesConserved, AssignedOnce
  <2> QED
    BY <2>1, <2>2, NoneIsNoNode
<1>3. CASE ~ \E n \in Nodes : assigned[n] = ip
  BY <1>3, NoneIsNoNode DEF OwnerOf
<1> QED
  BY <1>2, <1>3

LEMMA OwnerIsAssigneeNext == WGIPInv' => OwnersAreAssignees'
BY OwnerIsAssignee, PTL

\* Allocate takes an address nobody owns for a node that owns none, or
\* changes nothing (registry.go:526-535).
LEMMA AllocateIsAcquire ==
    ASSUME WGIPInv, WGIPInv', NEW n \in Nodes, NEW new \in IPs, AllocateWGIP(n, new)
    PROVE  \/ WGIPPool!Acquire(n)
           \/ UNCHANGED owners
<1>1. CASE UNCHANGED wgipVars
  BY <1>1 DEF wgipVars, owners, OwnerOf
<1>2. CASE /\ assigned[n] = None
           /\ pool # <<>>
           /\ new = Head(pool)
           /\ assigned' = [assigned EXCEPT ![n] = new]
  <2>1. \A m \in Nodes : assigned'[m] = IF m = n THEN new ELSE assigned[m]
    BY <1>2 DEF WGIPInv, WGIPTypeOK
  <2>2. \A a \in IPs : OwnerOf(a) # n
    BY <1>2, OwnerIsAssignee, NoneIsNoIP DEF OwnersAreAssignees
  <2>3. OwnerOf(new) = None
    <3>1. Len(pool) \in Nat \ {0} /\ new = pool[1]
      BY <1>2, EmptySeq DEF WGIPInv, WGIPTypeOK
    <3> QED
      BY <3>1, OwnerIsAssignee DEF OwnersAreAssignees, WGIPInv, AddressesConserved, PooledIsUnassigned
  <2>4. \A a \in IPs : OwnerOf(a)' = IF a = new THEN n ELSE OwnerOf(a)
    <3> SUFFICES ASSUME NEW a \in IPs
                 PROVE  OwnerOf(a)' = IF a = new THEN n ELSE OwnerOf(a)
      OBVIOUS
    <3>1. /\ \A m \in Nodes : OwnerOf(a)' = m <=> assigned'[m] = a
          /\ OwnerOf(a)' = None <=> \A m \in Nodes : assigned'[m] # a
      BY OwnerIsAssigneeNext DEF OwnersAreAssignees
    <3>2. CASE a = new
      BY <3>1, <3>2, <2>1
    <3>3. CASE a # new /\ OwnerOf(a) = None
      BY <3>1, <3>3, <2>1, OwnerIsAssignee DEF OwnersAreAssignees
    <3>4. CASE a # new /\ OwnerOf(a) # None
      <4>1. PICK m \in Nodes : assigned[m] = a
        BY <3>4, OwnerIsAssignee DEF OwnersAreAssignees
      <4>2. m # n
        BY <4>1, <1>2, NoneIsNoIP
      <4>3. OwnerOf(a)' = m
        BY <4>1, <4>2, <3>1, <2>1
      <4> QED
        BY <4>1, <4>3, <3>4, OwnerIsAssignee DEF OwnersAreAssignees
    <3> QED
      BY <3>2, <3>3, <3>4
  <2> QED
    BY <2>2, <2>3, <2>4 DEF WGIPPool!Acquire, owners
<1> QED
  BY <1>1, <1>2 DEF AllocateWGIP

\* Release gives back the one address the node owns, or changes nothing
\* (registry.go:541-544).
LEMMA ReleaseIsGiveBack ==
    ASSUME WGIPInv, WGIPInv', NEW n \in Nodes, ReleaseWGIP(n)
    PROVE  \/ WGIPPool!GiveBack(n)
           \/ UNCHANGED owners
<1>1. CASE UNCHANGED wgipVars
  BY <1>1 DEF wgipVars, owners, OwnerOf
<1>2. CASE /\ assigned[n] # None
           /\ assigned' = [assigned EXCEPT ![n] = None]
  <2> DEFINE ip == assigned[n]
  <2>0. ip \in IPs
    BY <1>2 DEF WGIPInv, WGIPTypeOK
  <2>1. \A m \in Nodes : assigned'[m] = IF m = n THEN None ELSE assigned[m]
    BY <1>2 DEF WGIPInv, WGIPTypeOK
  <2>2. OwnerOf(ip) = n
    BY <2>0, OwnerIsAssignee DEF OwnersAreAssignees
  <2>3. \A a \in IPs : OwnerOf(a)' = IF a = ip THEN None ELSE OwnerOf(a)
    <3> SUFFICES ASSUME NEW a \in IPs
                 PROVE  OwnerOf(a)' = IF a = ip THEN None ELSE OwnerOf(a)
      OBVIOUS
    <3>1. /\ \A m \in Nodes : OwnerOf(a)' = m <=> assigned'[m] = a
          /\ OwnerOf(a)' = None <=> \A m \in Nodes : assigned'[m] # a
      BY OwnerIsAssigneeNext DEF OwnersAreAssignees
    <3>2. CASE a = ip
      <4>1. \A m \in Nodes : m # n => assigned[m] # ip
        BY <1>2 DEF WGIPInv, AddressesConserved, AssignedOnce
      <4> QED
        BY <3>1, <3>2, <4>1, <2>1, NoneIsNoIP
    <3>3. CASE a # ip /\ OwnerOf(a) = None
      BY <3>1, <3>3, <2>1, OwnerIsAssignee, NoneIsNoIP DEF OwnersAreAssignees
    <3>4. CASE a # ip /\ OwnerOf(a) # None
      <4>1. PICK m \in Nodes : assigned[m] = a
        BY <3>4, OwnerIsAssignee DEF OwnersAreAssignees
      <4>2. m # n
        BY <4>1, <3>4
      <4>3. OwnerOf(a)' = m
        BY <4>1, <4>2, <3>1, <2>1
      <4> QED
        BY <4>1, <4>3, <3>4, OwnerIsAssignee DEF OwnersAreAssignees
    <3> QED
      BY <3>2, <3>3, <3>4
  <2> QED
    BY <2>0, <2>2, <2>3 DEF WGIPPool!GiveBack, owners
<1> QED
  BY <1>1, <1>2 DEF ReleaseWGIP

\* The queue implements the pool of exclusive resources: an address is given
\* only to a node without one, and only when nobody has it
\* (registry.go:523-545).
THEOREM WGIPAllocatorImplementsPool == WGIPSpec => WGIPsAreAPool
<1>1. WGIPInit => WGIPPool!PoolInit
  <2> SUFFICES ASSUME WGIPInit, NEW a \in IPs PROVE OwnerOf(a) = None
    BY DEF WGIPPool!PoolInit, owners
  <2> QED
    BY NoneIsNoIP DEF WGIPInit, OwnerOf
<1>2. /\ WGIPInv /\ WGIPInv' /\ [WGIPNext]_wgipVars
      => [WGIPPool!PoolNext]_owners
  <2> SUFFICES ASSUME WGIPInv, WGIPInv', [WGIPNext]_wgipVars
               PROVE  [WGIPPool!PoolNext]_owners
    OBVIOUS
  <2>1. CASE WGIPNext
    BY <2>1, AllocateIsAcquire, ReleaseIsGiveBack DEF WGIPNext, WGIPPool!PoolNext
  <2>2. CASE UNCHANGED wgipVars
    BY <2>2 DEF wgipVars, owners, OwnerOf
  <2> QED
    BY <2>1, <2>2
<1> QED
  BY <1>1, <1>2, WGIPInvariant, PTL
     DEF WGIPSpec, WGIPsAreAPool, WGIPPool!PoolSpec
=============================================================================
