---------------------------- MODULE WGIPAllocator ----------------------------
(***************************************************************************)
(* wgIPAllocator of internal/registry/registry.go: the tunnel addresses    *)
(* handed to the nodes.  The pool is a slice used as a queue: Allocate     *)
(* takes its head, Release appends.                                        *)
(*                                                                         *)
(* An address is its rank in the peer range.  assigned[n] = None stands    *)
(* for a missing key of the Go map.  Both methods hold wgIPAllocator.mu    *)
(* from first to last statement, so each is one step.                      *)
(***************************************************************************)
EXTENDS NodeIDs, Naturals, Sequences

CONSTANT NumIPs             \* how many addresses newWGIPAllocator kept

ASSUME NumIPsIsNat == NumIPs \in Nat

IPs == 1 .. NumIPs

ASSUME NoneIsNoIP == None \notin IPs

VARIABLES
    pool,                   \* wgIPAllocator.pool
    assigned                \* wgIPAllocator.assigned

wgipVars == <<pool, assigned>>

WGIPTypeOK ==
    /\ pool \in Seq(IPs)
    /\ assigned \in [Nodes -> IPs \cup {None}]

\* newWGIPAllocator: every address of the range is in the pool, in order.
WGIPInit ==
    /\ pool = [i \in IPs |-> i]
    /\ assigned = [n \in Nodes |-> None]

-----------------------------------------------------------------------------
\* Faulty variants for the mutants.

\* Allocate forgets `a.pool = a.pool[1:]`.
AllocateWGIPWithoutPop(n, ip) ==
    /\ assigned[n] = None
    /\ pool # <<>>
    /\ ip = Head(pool)
    /\ assigned' = [assigned EXCEPT ![n] = ip]
    /\ UNCHANGED pool

\* Allocate without the `if ip, ok := a.assigned[nodeID]` of line 526.
AllocateWGIPAgain(n, ip) ==
    /\ pool # <<>>
    /\ ip = Head(pool)
    /\ pool' = Tail(pool)
    /\ assigned' = [assigned EXCEPT ![n] = ip]

\* Release without the `if ip, ok := a.assigned[nodeID]` of line 541.
ReleaseWGIPUnchecked(n) ==
    /\ pool' = Append(pool, assigned[n])
    /\ assigned' = [assigned EXCEPT ![n] = None]
-----------------------------------------------------------------------------
\* Allocate(n) returns ip: the address the node has, or the pool's head.
AllocateWGIP(n, ip) ==
    \/ /\ assigned[n] # None
       /\ ip = assigned[n]
       /\ UNCHANGED wgipVars
    \/ /\ assigned[n] = None
       /\ pool # <<>>
       /\ ip = Head(pool)
       /\ pool' = Tail(pool)
       /\ assigned' = [assigned EXCEPT ![n] = ip]

\* Allocate(n) returns "WireGuard IP pool exhausted" and changes nothing.
WGIPsExhausted(n) == assigned[n] = None /\ pool = <<>>

\* Release(n) puts the node's address at the tail, if it has one.
ReleaseWGIP(n) ==
    \/ /\ assigned[n] # None
       /\ pool' = Append(pool, assigned[n])
       /\ assigned' = [assigned EXCEPT ![n] = None]
    \/ assigned[n] = None /\ UNCHANGED wgipVars

WGIPNext ==
    \E n \in Nodes :
      \/ \E ip \in IPs : AllocateWGIP(n, ip)
      \/ ReleaseWGIP(n)

WGIPSpec == WGIPInit /\ [][WGIPNext]_wgipVars

-----------------------------------------------------------------------------
\* The pool's slots hold distinct addresses.
PoolHasNoDuplicates ==
    \A i, j \in 1 .. Len(pool) : pool[i] = pool[j] => i = j

\* A pooled address is assigned to nobody.
PooledIsUnassigned ==
    \A i \in 1 .. Len(pool), n \in Nodes : pool[i] # assigned[n]

\* An address is assigned to one node at most.
AssignedOnce ==
    \A m, n \in Nodes : assigned[m] # None /\ assigned[m] = assigned[n] => m = n

\* An address is in the pool or assigned: none is lost.
NoAddressLost ==
    \A ip \in IPs : \/ \E i \in 1 .. Len(pool) : pool[i] = ip
                    \/ \E n \in Nodes : assigned[n] = ip

(***************************************************************************)
(* Every tunnel address is at any time in exactly one place: once in the   *)
(* pool or with exactly one node, through any sequence of registrations,   *)
(* rollbacks and removals (registry.go:532-534, 542-543).                  *)
(***************************************************************************)
AddressesConserved ==
    /\ PoolHasNoDuplicates
    /\ PooledIsUnassigned
    /\ AssignedOnce
    /\ NoAddressLost

-----------------------------------------------------------------------------
(***************************************************************************)
(* The queue implements the pool of exclusive resources, the owner of an   *)
(* address being the node `assigned` maps to it.                           *)
(***************************************************************************)
OwnerOf(ip) ==
    IF \E n \in Nodes : assigned[n] = ip
    THEN CHOOSE n \in Nodes : assigned[n] = ip
    ELSE None

owners == [ip \in IPs |-> OwnerOf(ip)]

WGIPPool == INSTANCE ResourcePool WITH Resources <- IPs, owner <- owners

WGIPsAreAPool == WGIPPool!PoolSpec
=============================================================================
