----------------------------- MODULE LeaseProofs -----------------------------
(***************************************************************************)
(* What the registry promises about leases, neighbours and tunnels, for    *)
(* every set of nodes, keys and goroutines and every pool size.            *)
(*                                                                         *)
(* First what holds however requests overlap: nothing leaks and no lease   *)
(* changes under its node.  Then, when requests are calm, that the records *)
(* and the allocators' books agree, from which the leases are exclusive,   *)
(* the neighbours follow the records and the tunnels lead to the lessees.  *)
(***************************************************************************)
EXTENDS RegistryProofs, FiniteSetTheorems, FunctionTheorems

\* A registration before its insertion; a goroutine that will give an address
\* back or insert it; one that is busy with a registration or a removal.
PendingSteps == {"reg_subnet", "reg_rollback"}
HolderSteps  == PendingSteps \cup {"del_subnet", "del_ip"}
BusySteps    == RegisterSteps \cup DeleteSteps

\* A record is filled in when it is inserted and blank otherwise.
RecordsComplete ==
    \A n \in Nodes :
        /\ Registered(n) => /\ nodes[n].key \in Keys
                            /\ KeyOwner[nodes[n].key] = n
                            /\ nodes[n].wgIP \in IPs
                            /\ nodes[n].subnet \in SubnetIDs
        /\ ~ Registered(n) => nodes[n] = NoNode

\* Registrations and removals carry their own node's key.
ThreadsOwnTheirKeys ==
    \A s \in Slots : th[s].pc \in BusySteps =>
        /\ th[s].node \in Nodes
        /\ th[s].key \in Keys
        /\ KeyOwner[th[s].key] = th[s].node

\* Nobody else inserts a record between a registration's look-up and its own
\* insertion.
NewcomersAreUnregistered ==
    \A s \in Slots : th[s].pc \in PendingSteps => ~ Registered(th[s].node)

\* handleRegister never takes a second sub-prefix for a node.
OneSubnetEach ==
    \A x, y \in SubnetIDs : subnets[x] # None /\ subnets[x] = subnets[y] => x = y

\* What an unregistered node holds, a goroutine is about to insert or release.
HeldAddressesAreInUse ==
    \A n \in Nodes : assigned[n] # None => Registered(n) \/ InFlight(n, HolderSteps)

HeldSubnetsAreInUse ==
    \A n \in Nodes, x \in SubnetIDs :
        subnets[x] = n => Registered(n) \/ InFlight(n, {"del_subnet"})

BookInv ==
    /\ RecordsComplete
    /\ ThreadsOwnTheirKeys
    /\ NewcomersAreUnregistered
    /\ OneSubnetEach
    /\ HeldAddressesAreInUse
    /\ HeldSubnetsAreInUse

-----------------------------------------------------------------------------
(***************************************************************************)
(* What the allocators' operations do to their books.                      *)
(***************************************************************************)
LEMMA AllocateWGIPEffect ==
    ASSUME WGIPTypeOK, NEW n \in Nodes, NEW ip \in IPs, AllocateWGIP(n, ip)
    PROVE  /\ \A m \in Nodes : assigned'[m] = IF m = n THEN ip ELSE assigned[m]
           /\ assigned[n] \in {None, ip}
BY DEF AllocateWGIP, WGIPTypeOK, wgipVars

LEMMA ReleaseWGIPEffect ==
    ASSUME WGIPTypeOK, NEW n \in Nodes, ReleaseWGIP(n)
    PROVE  \A m \in Nodes : assigned'[m] = IF m = n THEN None ELSE assigned[m]
BY DEF ReleaseWGIP, WGIPTypeOK, wgipVars

LEMMA AllocateSubnetEffect ==
    ASSUME SubnetTypeOK, OneSubnetEach,
           NEW n \in Nodes, NEW s \in SubnetIDs, AllocateSubnet(n, s)
    PROVE  /\ \A x \in SubnetIDs : subnets'[x] = IF x = s THEN n ELSE subnets[x]
           /\ subnets[s] \in {n, None}
           /\ \A x \in SubnetIDs : subnets[x] = n => x = s
<1>1. n # None
  BY NoneIsNoNode
<1>2. CASE FirstOf(s, SubnetsOf(n)) /\ UNCHANGED subnets
  BY <1>1, <1>2 DEF FirstOf, SubnetsOf, OneSubnetEach
<1>3. CASE /\ SubnetsOf(n) = {}
           /\ FirstOf(s, FreeSubnets)
           /\ subnets' = [subnets EXCEPT ![s] = n]
  BY <1>3 DEF FirstOf, SubnetsOf, FreeSubnets, SubnetTypeOK
<1> QED
  BY <1>2, <1>3 DEF AllocateSubnet

LEMMA ReleaseSubnetEffect ==
    ASSUME SubnetTypeOK, OneSubnetEach, NEW n \in Nodes, ReleaseSubnet(n)
    PROVE  \A x \in SubnetIDs :
             subnets'[x] = IF subnets[x] = n THEN None ELSE subnets[x]
<1>1. n # None
  BY NoneIsNoNode
<1>2. ASSUME NEW s \in SubnetIDs, FirstOf(s, SubnetsOf(n)),
             subnets' = [subnets EXCEPT ![s] = None]
      PROVE  \A x \in SubnetIDs :
               subnets'[x] = IF subnets[x] = n THEN None ELSE subnets[x]
  BY <1>1, <1>2 DEF FirstOf, SubnetsOf, OneSubnetEach, SubnetTypeOK
<1>3. CASE SubnetsOf(n) = {} /\ UNCHANGED subnets
  BY <1>3 DEF SubnetsOf
<1> QED
  BY <1>2, <1>3 DEF ReleaseSubnet

-----------------------------------------------------------------------------
(***************************************************************************)
(* Any interleaving.                                                       *)
(***************************************************************************)

\* The facts about types that the steps need.
LEMMA Types ==
    ASSUME RegistryInv
    PROVE  /\ nodes \in [Nodes -> NodeRecord]
           /\ th \in [Slots -> Thread]
           /\ WGIPTypeOK
           /\ SubnetTypeOK
           /\ checker \in CheckerState
           /\ \A s \in Slots : th[s].pc \in RegisterSteps \cup DeleteSteps \cup {"up"}
                => th[s].node \in Nodes
BY DEF RegistryInv, TypeOK, ThreadsEquipped, RegisterSteps, DeleteSteps

\* No lease is granted, changed or taken away.
LeasesKept ==
    \A n \in Nodes :
        /\ Registered(n)' <=> Registered(n)
        /\ ~ Registered(n) => nodes'[n] = nodes[n]
        /\ nodes'[n].key = nodes[n].key
        /\ nodes'[n].wgIP = nodes[n].wgIP
        /\ nodes'[n].subnet = nodes[n].subnet

\* The steps that neither take nor give anything back.
GoesOn ==
    \/ \E s \in Slots : \/ RegisterNoSubnet(s)
                        \/ RegisterAddWGPeer(s)
                        \/ RegisterAddBGPPeer(s)
                        \/ NodeUpCallback(s)
                        \/ DeleteRemoveWGPeer(s)
                        \/ DeleteRemoveBGPPeer(s)
                        \/ DeleteNodeDownCallback(s)
    \/ \E s \in Slots, n \in Nodes : HeartbeatRecovery(s, n)
    \/ \E n \in Nodes : Heartbeat(n) \/ Lapse(n)
    \/ CheckerStep
    \/ UNCHANGED vars

\* Every step, by what it does to the books.
LEMMA StepsOfTheBooks ==
    ASSUME [Next]_vars
    PROVE  \/ GoesOn
           \/ \E s \in Slots, k \in Keys : RegisterAllocateIP(s, KeyOwner[k], k)
           \/ \E s \in Slots : RegisterInsert(s)
           \/ \E s \in Slots : RegisterRollback(s) \/ DeleteReleaseIP(s)
           \/ \E s \in Slots : DeleteReleaseSubnet(s)
           \/ \E s \in Slots, n \in Nodes : DeleteRecord(s, n)
           \/ RestartCore
<1>1. ASSUME NEW s \in Slots, ThreadStep(s) \/ Request(s)
      PROVE  \/ GoesOn
             \/ \E k \in Keys : RegisterAllocateIP(s, KeyOwner[k], k)
             \/ RegisterInsert(s)
             \/ RegisterRollback(s) \/ DeleteReleaseIP(s)
             \/ DeleteReleaseSubnet(s)
             \/ \E n \in Nodes : DeleteRecord(s, n)
  BY <1>1 DEF ThreadStep, Request, RegisterExisting, RegisterNoIP, GoesOn
<1> QED
  BY <1>1 DEF Next, GoesOn

\* They leave every lease alone.
LEMMA LeasesGoOn ==
    ASSUME RegistryInv, GoesOn \/ UNCHANGED nodes
    PROVE  LeasesKept
<1>0. nodes \in [Nodes -> NodeRecord]
  BY Types
<1>1. ASSUME UNCHANGED nodes PROVE LeasesKept
  BY <1>1 DEF LeasesKept, Registered
<1>2. ASSUME NEW n \in Nodes, Registered(n), nodes' = Refreshed(n)
      PROVE  LeasesKept
  <2>1. /\ \A m \in Nodes : m # n => nodes'[m] = nodes[m]
        /\ nodes'[n] = [nodes[n] EXCEPT !.fresh = TRUE, !.state = "active"]
    BY <1>0, <1>2 DEF Refreshed
  <2>2. /\ nodes'[n].key = nodes[n].key
        /\ nodes'[n].wgIP = nodes[n].wgIP
        /\ nodes'[n].subnet = nodes[n].subnet
        /\ nodes'[n].state = "active"
    <3>1. nodes[n] \in NodeRecord
      BY <1>0
    <3> QED
      BY <2>1, <3>1 DEF NodeRecord
  <2> QED
    BY <1>2, <2>1, <2>2 DEF LeasesKept, Registered
<1>3. ASSUME NEW n \in Nodes, Lapse(n) PROVE LeasesKept
  <2>1. /\ \A m \in Nodes : m # n => nodes'[m] = nodes[m]
        /\ nodes'[n] = [nodes[n] EXCEPT !.fresh = FALSE]
    BY <1>0, <1>3 DEF Lapse
  <2>2. nodes[n] \in NodeRecord
    BY <1>0
  <2> QED
    BY <1>3, <2>1, <2>2 DEF Lapse, LeasesKept, Registered, NodeRecord
<1>4. ASSUME NEW n \in Nodes, MarkDown(n) PROVE LeasesKept
  <2>1. CASE UNCHANGED nodes
    BY <1>1, <2>1
  <2>2. CASE /\ nodes[n].state \in {"pending", "active"}
             /\ nodes' = [nodes EXCEPT ![n].state = "down"]
    <3>1. /\ \A m \in Nodes : m # n => nodes'[m] = nodes[m]
          /\ nodes'[n] = [nodes[n] EXCEPT !.state = "down"]
      BY <1>0, <2>2
    <3>2. nodes[n] \in NodeRecord
      BY <1>0
    <3> QED
      BY <2>2, <3>1, <3>2 DEF LeasesKept, Registered, NodeRecord
  <2> QED
    BY <1>4, <2>1, <2>2 DEF MarkDown
<1>5. GoesOn => \/ UNCHANGED nodes
                \/ \E n \in Nodes : Registered(n) /\ nodes' = Refreshed(n)
                \/ \E n \in Nodes : Lapse(n) \/ MarkDown(n)
  BY DEF GoesOn, RegisterNoSubnet, RegisterAddWGPeer, RegisterAddBGPPeer,
         NodeUpCallback, DeleteRemoveWGPeer, DeleteRemoveBGPPeer,
         DeleteNodeDownCallback, HeartbeatRecovery, Heartbeat, Registered,
         CheckerStep, Sweep, MarkDownCallback, vars
<1> QED
  BY <1>1, <1>2, <1>3, <1>4, <1>5

\* Only insertions, removals and restarts touch leases.
LEMMA LeasesChange ==
    ASSUME RegistryInv, [Next]_vars
    PROVE  \/ LeasesKept
           \/ \E s \in Slots : RegisterInsert(s)
           \/ \E s \in Slots, n \in Nodes : DeleteRecord(s, n)
           \/ RestartCore
BY StepsOfTheBooks, LeasesGoOn
   DEF RegisterAllocateIP, RegisterRollback, DeleteReleaseIP, DeleteReleaseSubnet

\* No goroutine starts or ends a registration or a removal, or lets go of
\* what it holds.
ThreadsGoOn ==
    \A t \in Slots :
        /\ th'[t].pc \in BusySteps => /\ th[t].pc \in BusySteps
                                      /\ th'[t].node = th[t].node
                                      /\ th'[t].key = th[t].key
        /\ th'[t].pc \in PendingSteps => th[t].pc \in PendingSteps
        /\ th[t].pc \in HolderSteps => /\ th'[t].pc \in HolderSteps
                                       /\ th'[t].node = th[t].node
        /\ th[t].pc = "del_subnet" => th'[t].pc = "del_subnet"

LEMMA GoOnStep ==
    ASSUME BookInv, LeasesKept, ThreadsGoOn, UNCHANGED <<assigned, subnets>>
    PROVE  BookInv'
<1> USE DEF BookInv
<1>1. RecordsComplete'
  <2>1. ASSUME NEW n \in Nodes
        PROVE  /\ Registered(n)' => /\ nodes'[n].key \in Keys
                                    /\ KeyOwner[nodes'[n].key] = n
                                    /\ nodes'[n].wgIP \in IPs
                                    /\ nodes'[n].subnet \in SubnetIDs
               /\ ~ Registered(n)' => nodes'[n] = NoNode
    BY DEF RecordsComplete, LeasesKept
  <2> QED
    BY <2>1 DEF RecordsComplete
<1>2. ThreadsOwnTheirKeys'
  BY DEF ThreadsOwnTheirKeys, ThreadsGoOn
<1>3. NewcomersAreUnregistered'
  BY DEF NewcomersAreUnregistered, ThreadsOwnTheirKeys, ThreadsGoOn, LeasesKept, PendingSteps,
         BusySteps, RegisterSteps
<1>4. OneSubnetEach'
  BY DEF OneSubnetEach
<1>5. HeldAddressesAreInUse'
  BY DEF HeldAddressesAreInUse, ThreadsGoOn, LeasesKept, InFlight
<1>6. HeldSubnetsAreInUse'
  <2>1. "del_subnet" \in HolderSteps
    BY DEF HolderSteps
  <2> QED
    BY <2>1 DEF HeldSubnetsAreInUse, ThreadsGoOn, LeasesKept, InFlight
<1> QED
  BY <1>1, <1>2, <1>3, <1>4, <1>5, <1>6

\* handleRegister takes an address and keeps the lock.
LEMMA BookAllocate ==
    ASSUME RegistryInv, BookInv,
           NEW s \in Slots, NEW k \in Keys, RegisterAllocateIP(s, KeyOwner[k], k)
    PROVE  BookInv'
<1> DEFINE n == KeyOwner[k]
<1> USE DEF BookInv
<1>1. n \in Nodes
  BY KeyOwnerIsFunction
<1>2. PICK ip \in IPs :
        /\ AllocateWGIP(n, ip)
        /\ th' = [th EXCEPT ![s] = [pc |-> "reg_subnet", node |-> n, key |-> k,
                                    ip |-> ip, subnet |-> None]]
  BY DEF RegisterAllocateIP
<1>3. UNCHANGED <<nodes, subnets>> /\ ~ Registered(n) /\ th[s].pc = "idle"
  BY DEF RegisterAllocateIP, Idle
<1>4. /\ th'[s].pc = "reg_subnet" /\ th'[s].node = n /\ th'[s].key = k
      /\ \A t \in Slots : t # s => th'[t] = th[t]
  BY <1>2, Types
<1>5. RecordsComplete'
  BY <1>3 DEF RecordsComplete, Registered
<1>6. ThreadsOwnTheirKeys'
  BY <1>1, <1>4 DEF ThreadsOwnTheirKeys
<1>7. NewcomersAreUnregistered'
  BY <1>3, <1>4 DEF NewcomersAreUnregistered, Registered
<1>8. OneSubnetEach'
  BY <1>3 DEF OneSubnetEach
<1>9. HeldAddressesAreInUse'
  <2>1. \A m \in Nodes : m # n => assigned'[m] = assigned[m]
    BY <1>1, <1>2, AllocateWGIPEffect, Types
  <2>2. InFlight(n, HolderSteps)'
    BY <1>4 DEF InFlight, HolderSteps, PendingSteps
  <2>3. \A m \in Nodes : InFlight(m, HolderSteps) => InFlight(m, HolderSteps)'
    BY <1>3, <1>4 DEF InFlight, HolderSteps, PendingSteps
  <2> QED
    BY <1>3, <2>1, <2>2, <2>3 DEF HeldAddressesAreInUse, Registered
<1>10. HeldSubnetsAreInUse'
  BY <1>3, <1>4 DEF HeldSubnetsAreInUse, InFlight, Registered
<1> QED
  BY <1>5, <1>6, <1>7, <1>8, <1>9, <1>10

\* What an insertion does, field by field.
Inserted(s, sub) ==
    /\ th[s].pc = "reg_subnet"
    /\ th'[s].pc = "reg_wg"
    /\ th'[s].node = th[s].node
    /\ th'[s].key = th[s].key
    /\ th'[s].ip = th[s].ip
    /\ th'[s].subnet = sub
    /\ \A t \in Slots : t # s => th'[t] = th[t]
    /\ nodes'[th[s].node] = [state |-> "pending", key |-> th[s].key,
                             wgIP |-> th[s].ip, subnet |-> sub, fresh |-> TRUE]
    /\ \A m \in Nodes : m # th[s].node => nodes'[m] = nodes[m]
    /\ \A x \in SubnetIDs : subnets'[x] = IF x = sub THEN th[s].node ELSE subnets[x]
    /\ subnets[sub] \in {th[s].node, None}
    /\ \A x \in SubnetIDs : subnets[x] = th[s].node => x = sub
    /\ UNCHANGED <<wgipVars, wgVars, bgpPeers, checker, wgErr>>

LEMMA InsertEffect ==
    ASSUME RegistryInv, BookInv, NEW s \in Slots, RegisterInsert(s)
    PROVE  /\ mu = s
           /\ th[s].node \in Nodes /\ th[s].key \in Keys /\ th[s].ip \in IPs
           /\ KeyOwner[th[s].key] = th[s].node
           /\ ~ Registered(th[s].node)
           /\ \E sub \in SubnetIDs : Inserted(s, sub)
<1>1. th[s].pc = "reg_subnet" /\ UNCHANGED <<wgipVars, wgVars, bgpPeers, checker, wgErr>>
  BY DEF RegisterInsert
<1>2. mu = s /\ th[s].node \in Nodes /\ th[s].key \in Keys /\ th[s].ip \in IPs
  BY <1>1 DEF RegistryInv, CriticalSectionOwnsLock, ThreadsEquipped, RegisterSteps
<1>3. ~ Registered(th[s].node) /\ KeyOwner[th[s].key] = th[s].node
  BY <1>1 DEF BookInv, NewcomersAreUnregistered, PendingSteps, ThreadsOwnTheirKeys,
              BusySteps, RegisterSteps
<1>4. PICK sub \in SubnetIDs :
        /\ AllocateSubnet(th[s].node, sub)
        /\ nodes' = [nodes EXCEPT ![th[s].node] =
                       [state |-> "pending", key |-> th[s].key, wgIP |-> th[s].ip,
                        subnet |-> sub, fresh |-> TRUE]]
        /\ th' = [th EXCEPT ![s] = [@ EXCEPT !.pc = "reg_wg", !.subnet = sub]]
  BY DEF RegisterInsert
<1>5. /\ \A x \in SubnetIDs : subnets'[x] = IF x = sub THEN th[s].node ELSE subnets[x]
      /\ subnets[sub] \in {th[s].node, None}
      /\ \A x \in SubnetIDs : subnets[x] = th[s].node => x = sub
  BY <1>2, <1>4, AllocateSubnetEffect, Types DEF BookInv
<1>6. /\ nodes'[th[s].node] = [state |-> "pending", key |-> th[s].key,
                               wgIP |-> th[s].ip, subnet |-> sub, fresh |-> TRUE]
      /\ \A m \in Nodes : m # th[s].node => nodes'[m] = nodes[m]
  BY <1>2, <1>4, Types
<1>7. /\ th'[s].pc = "reg_wg" /\ th'[s].node = th[s].node /\ th'[s].key = th[s].key
      /\ th'[s].ip = th[s].ip /\ th'[s].subnet = sub
      /\ \A t \in Slots : t # s => th'[t] = th[t]
  <2>1. th[s] \in Thread
    BY Types
  <2>2. th'[s] = [th[s] EXCEPT !.pc = "reg_wg", !.subnet = sub]
    BY <1>4, Types
  <2>3. \A t \in Slots : t # s => th'[t] = th[t]
    BY <1>4, Types
  <2> QED
    BY <2>1, <2>2, <2>3 DEF Thread
<1>8. Inserted(s, sub)
  BY <1>1, <1>5, <1>6, <1>7 DEF Inserted
<1> QED
  BY <1>2, <1>3, <1>8

\* handleRegister inserts the record and unlocks.
LEMMA BookInsert ==
    ASSUME RegistryInv, BookInv, NEW s \in Slots, RegisterInsert(s)
    PROVE  BookInv'
<1> DEFINE n == th[s].node
<1> USE DEF BookInv
<1>1. /\ mu = s /\ n \in Nodes /\ th[s].key \in Keys /\ th[s].ip \in IPs
      /\ KeyOwner[th[s].key] = n
  BY InsertEffect
<1>2. PICK sub \in SubnetIDs : Inserted(s, sub)
  BY InsertEffect
<1>3. Registered(n)' /\ \A m \in Nodes : m # n => (Registered(m)' <=> Registered(m))
  BY <1>1, <1>2 DEF Inserted, Registered
<1>4. \A t \in Slots : t # s => th[t].pc \notin PendingSteps
  BY <1>1 DEF RegistryInv, CriticalSectionOwnsLock, PendingSteps
<1>5. RecordsComplete'
  <2>1. ASSUME NEW m \in Nodes
        PROVE  /\ Registered(m)' => /\ nodes'[m].key \in Keys
                                    /\ KeyOwner[nodes'[m].key] = m
                                    /\ nodes'[m].wgIP \in IPs
                                    /\ nodes'[m].subnet \in SubnetIDs
               /\ ~ Registered(m)' => nodes'[m] = NoNode
    BY <1>1, <1>2, <1>3 DEF Inserted, RecordsComplete
  <2> QED
    BY <2>1 DEF RecordsComplete
<1>6. ThreadsOwnTheirKeys'
  BY <1>1, <1>2 DEF Inserted, ThreadsOwnTheirKeys
<1>7. NewcomersAreUnregistered'
  BY <1>2, <1>4 DEF Inserted, NewcomersAreUnregistered, PendingSteps
<1>8. OneSubnetEach'
  BY <1>1, <1>2 DEF Inserted, OneSubnetEach
<1>9. HeldAddressesAreInUse'
  BY <1>1, <1>2, <1>3 DEF Inserted, HeldAddressesAreInUse, InFlight, wgipVars
<1>10. HeldSubnetsAreInUse'
  BY <1>1, <1>2, <1>3 DEF Inserted, HeldSubnetsAreInUse, InFlight
<1> QED
  BY <1>5, <1>6, <1>7, <1>8, <1>9, <1>10

\* handleRegister gives the address back; handleDeleteNode releases it.
LEMMA BookReleaseAddress ==
    ASSUME RegistryInv, BookInv,
           NEW s \in Slots, RegisterRollback(s) \/ DeleteReleaseIP(s)
    PROVE  BookInv'
<1> DEFINE n == th[s].node
<1> USE DEF BookInv
<1>1. /\ th[s].pc \in {"reg_rollback", "del_ip"} /\ ReleaseWGIP(n)
      /\ UNCHANGED <<nodes, subnets>>
  BY DEF RegisterRollback, DeleteReleaseIP
<1>2. n \in Nodes
  BY <1>1, Types DEF RegisterSteps, DeleteSteps
<1>3. /\ th'[s].pc \in {"idle", "del_wg"}
      /\ th'[s].pc = "del_wg" => /\ th[s].pc = "del_ip"
                                 /\ th'[s].node = n /\ th'[s].key = th[s].key
      /\ \A t \in Slots : t # s => th'[t] = th[t]
  <2>1. CASE RegisterRollback(s)
    BY <2>1, Types DEF RegisterRollback, IdleThread
  <2>2. CASE DeleteReleaseIP(s)
    BY <2>2, Types DEF DeleteReleaseIP, Thread
  <2> QED
    BY <2>1, <2>2
<1>4. \A m \in Nodes : assigned'[m] = IF m = n THEN None ELSE assigned[m]
  BY <1>1, <1>2, ReleaseWGIPEffect, Types
<1>5. RecordsComplete'
  BY <1>1 DEF RecordsComplete, Registered
<1>6. ThreadsOwnTheirKeys'
  BY <1>3 DEF ThreadsOwnTheirKeys, BusySteps, RegisterSteps, DeleteSteps
<1>7. NewcomersAreUnregistered'
  BY <1>1, <1>3 DEF NewcomersAreUnregistered, Registered, PendingSteps
<1>8. OneSubnetEach'
  BY <1>1 DEF OneSubnetEach
<1>9. HeldAddressesAreInUse'
  BY <1>1, <1>3, <1>4 DEF HeldAddressesAreInUse, InFlight, Registered
<1>10. HeldSubnetsAreInUse'
  BY <1>1, <1>3 DEF HeldSubnetsAreInUse, InFlight, Registered
<1> QED
  BY <1>5, <1>6, <1>7, <1>8, <1>9, <1>10

\* handleDeleteNode releases the sub-prefix, of which there is only one.
LEMMA BookReleaseSubnet ==
    ASSUME RegistryInv, BookInv, NEW s \in Slots, DeleteReleaseSubnet(s)
    PROVE  BookInv'
<1> DEFINE n == th[s].node
<1> USE DEF BookInv
<1>1. /\ th[s].pc = "del_subnet" /\ ReleaseSubnet(n)
      /\ UNCHANGED <<nodes, assigned>>
  BY DEF DeleteReleaseSubnet, wgipVars
<1>2. n \in Nodes
  BY <1>1, Types DEF DeleteSteps
<1>3. /\ th'[s].pc = "del_ip" /\ th'[s].node = n /\ th'[s].key = th[s].key
      /\ \A t \in Slots : t # s => th'[t] = th[t]
  BY Types DEF DeleteReleaseSubnet, Thread
<1>4. \A x \in SubnetIDs : subnets'[x] = IF subnets[x] = n THEN None ELSE subnets[x]
  BY <1>1, <1>2, ReleaseSubnetEffect, Types
<1>5. RecordsComplete'
  BY <1>1 DEF RecordsComplete, Registered
<1>6. ThreadsOwnTheirKeys'
  BY <1>1, <1>3 DEF ThreadsOwnTheirKeys, BusySteps, DeleteSteps
<1>7. NewcomersAreUnregistered'
  BY <1>1, <1>3 DEF NewcomersAreUnregistered, Registered, PendingSteps
<1>8. OneSubnetEach'
  BY <1>4 DEF OneSubnetEach
<1>9. HeldAddressesAreInUse'
  BY <1>1, <1>3 DEF HeldAddressesAreInUse, InFlight, Registered, HolderSteps
<1>10. HeldSubnetsAreInUse'
  BY <1>1, <1>2, <1>3, <1>4, NoneIsNoNode
     DEF HeldSubnetsAreInUse, InFlight, Registered
<1> QED
  BY <1>5, <1>6, <1>7, <1>8, <1>9, <1>10

\* What a removal's first step does, field by field.
LEMMA DeleteEffect ==
    ASSUME RegistryInv, BookInv, NEW s \in Slots, NEW n \in Nodes, DeleteRecord(s, n)
    PROVE  /\ mu = None /\ th[s].pc = "idle" /\ Registered(n) /\ DeleteAllowed(n)
           /\ nodes'[n] = NoNode /\ ~ Registered(n)'
           /\ \A m \in Nodes : m # n => nodes'[m] = nodes[m]
           /\ th'[s] = [pc |-> "del_subnet", node |-> n, key |-> nodes[n].key,
                        ip |-> nodes[n].wgIP, subnet |-> None]
           /\ \A t \in Slots : t # s => th'[t] = th[t]
           /\ wgErr' = wgErr \ {n}
           /\ UNCHANGED <<mu, allocVars, wgVars, bgpPeers, checker>>
BY Types DEF DeleteRecord, Idle, Registered, NoNode

LEMMA BookDelete ==
    ASSUME RegistryInv, BookInv, NEW s \in Slots, NEW n \in Nodes, DeleteRecord(s, n)
    PROVE  BookInv'
<1> USE DEF BookInv
<1>1. /\ th[s].pc = "idle" /\ Registered(n)
      /\ nodes'[n] = NoNode /\ ~ Registered(n)'
      /\ th'[s].pc = "del_subnet" /\ th'[s].node = n /\ th'[s].key = nodes[n].key
      /\ UNCHANGED <<assigned, subnets>>
  <2>1. UNCHANGED <<assigned, subnets>>
    BY DEF DeleteRecord, allocVars
  <2>2. /\ th[s].pc = "idle" /\ Registered(n)
        /\ nodes'[n] = NoNode /\ ~ Registered(n)'
    BY DeleteEffect
  <2>3. th'[s] = [pc |-> "del_subnet", node |-> n, key |-> nodes[n].key,
                  ip |-> nodes[n].wgIP, subnet |-> None]
    BY DeleteEffect
  <2> QED
    BY <2>1, <2>2, <2>3
<1>2. \A t \in Slots : t # s => th'[t] = th[t]
  BY DeleteEffect
<1>3. \A m \in Nodes : m # n => nodes'[m] = nodes[m] /\ (Registered(m)' <=> Registered(m))
  BY DeleteEffect DEF Registered
<1>4. RecordsComplete'
  <2>1. ASSUME NEW m \in Nodes
        PROVE  /\ Registered(m)' => /\ nodes'[m].key \in Keys
                                    /\ KeyOwner[nodes'[m].key] = m
                                    /\ nodes'[m].wgIP \in IPs
                                    /\ nodes'[m].subnet \in SubnetIDs
               /\ ~ Registered(m)' => nodes'[m] = NoNode
    BY <1>1, <1>3 DEF RecordsComplete
  <2> QED
    BY <2>1 DEF RecordsComplete
<1>5. ThreadsOwnTheirKeys'
  BY <1>1, <1>2 DEF ThreadsOwnTheirKeys, RecordsComplete
<1>6. NewcomersAreUnregistered'
  <2>1. ASSUME NEW t \in Slots, th'[t].pc \in PendingSteps
        PROVE  ~ Registered(th[t].node)'
    <3>1. t # s /\ th'[t] = th[t]
      BY <1>1, <1>2, <2>1 DEF PendingSteps
    <3>2. th[t].node \in Nodes /\ ~ Registered(th[t].node)
      BY <2>1, <3>1 DEF NewcomersAreUnregistered, ThreadsOwnTheirKeys, BusySteps,
                        RegisterSteps, PendingSteps
    <3> QED
      BY <1>1, <1>3, <3>1, <3>2 DEF Registered
  <2> QED
    BY <2>1 DEF NewcomersAreUnregistered
<1>7. OneSubnetEach'
  BY <1>1 DEF OneSubnetEach
<1>8. \A m \in Nodes, steps \in {HolderSteps, {"del_subnet"}} :
        InFlight(m, steps) => InFlight(m, steps)'
  BY <1>1, <1>2 DEF InFlight, HolderSteps, PendingSteps
<1>9. InFlight(n, HolderSteps)' /\ InFlight(n, {"del_subnet"})'
  BY <1>1 DEF InFlight, HolderSteps
<1>10. HeldAddressesAreInUse'
  BY <1>1, <1>3, <1>8, <1>9 DEF HeldAddressesAreInUse
<1>11. HeldSubnetsAreInUse'
  BY <1>1, <1>3, <1>8, <1>9 DEF HeldSubnetsAreInUse
<1> QED
  BY <1>4, <1>5, <1>6, <1>7, <1>10, <1>11

LEMMA BookRestart ==
    ASSUME RestartCore
    PROVE  BookInv'
<1>1. /\ \A n \in Nodes : nodes'[n] = NoNode /\ assigned'[n] = None
      /\ \A s \in Slots : th'[s].pc = "idle"
      /\ \A x \in SubnetIDs : subnets'[x] = None
  BY DEF RestartCore, IdleThread
<1>2. RecordsComplete'
  <2>1. \A n \in Nodes : ~ Registered(n)'
    BY <1>1 DEF Registered, NoNode
  <2> QED
    BY <1>1, <2>1 DEF RecordsComplete
<1>3. ThreadsOwnTheirKeys' /\ NewcomersAreUnregistered'
  BY <1>1 DEF ThreadsOwnTheirKeys, BusySteps, RegisterSteps, DeleteSteps,
              NewcomersAreUnregistered, PendingSteps
<1>4. OneSubnetEach' /\ HeldAddressesAreInUse' /\ HeldSubnetsAreInUse'
  BY <1>1, NoneIsNoNode DEF OneSubnetEach, HeldAddressesAreInUse, HeldSubnetsAreInUse
<1> QED
  BY <1>2, <1>3, <1>4 DEF BookInv

LEMMA BookInit == Init => BookInv
BY NoneIsNoNode
   DEF Init, WGIPInit, SubnetInit, BookInv, RecordsComplete, Registered, NoNode,
       ThreadsOwnTheirKeys, BusySteps, RegisterSteps, DeleteSteps, IdleThread,
       NewcomersAreUnregistered, PendingSteps, OneSubnetEach,
       HeldAddressesAreInUse, HeldSubnetsAreInUse

\* The steps that go on with what they hold.
LEMMA BookGoesOn ==
    ASSUME RegistryInv, BookInv, GoesOn
    PROVE  BookInv'
<1>1. UNCHANGED <<assigned, subnets>>
  BY DEF GoesOn, RegisterNoSubnet, RegisterAddWGPeer, RegisterAddBGPPeer,
         NodeUpCallback, DeleteRemoveWGPeer, DeleteRemoveBGPPeer,
         DeleteNodeDownCallback, HeartbeatRecovery, Heartbeat, Lapse, CheckerStep,
         Sweep, MarkDown, MarkDownCallback, vars, allocVars
<1>2. LeasesKept
  BY LeasesGoOn
<1>3. ThreadsGoOn
  <2>0. \A t \in Slots : th[t] \in Thread
    BY Types
  <2>1. CASE UNCHANGED th
    BY <2>1 DEF ThreadsGoOn, PendingSteps, HolderSteps
  <2>2. ASSUME NEW s \in Slots,
               \A t \in Slots : t # s => th'[t] = th[t],
               \/ th'[s].pc \in {"idle", "up"} /\ th[s].pc \notin HolderSteps
               \/ /\ th[s].pc \in {"reg_wg", "del_wg", "del_bgp"}
                  /\ th'[s].pc \in {"reg_bgp", "del_bgp", "del_down"}
                  /\ th'[s].node = th[s].node /\ th'[s].key = th[s].key
               \/ /\ th[s].pc = "reg_subnet" /\ th'[s].pc = "reg_rollback"
                  /\ th'[s].node = th[s].node /\ th'[s].key = th[s].key
        PROVE  ThreadsGoOn
    BY <2>2 DEF ThreadsGoOn, PendingSteps, HolderSteps, BusySteps, RegisterSteps,
                DeleteSteps
  <2>3. ASSUME NEW s \in Slots,
               \/ RegisterAddBGPPeer(s)
               \/ NodeUpCallback(s)
               \/ DeleteNodeDownCallback(s)
               \/ \E n \in Nodes : HeartbeatRecovery(s, n)
        PROVE  ThreadsGoOn
    <3>1. /\ \A t \in Slots : t # s => th'[t] = th[t]
          /\ th'[s].pc \in {"idle", "up"} /\ th[s].pc \notin HolderSteps
      <4>1. CASE RegisterAddBGPPeer(s)
        BY <2>0, <4>1, Types DEF RegisterAddBGPPeer, Thread, HolderSteps, PendingSteps
      <4>2. CASE NodeUpCallback(s) \/ DeleteNodeDownCallback(s)
        BY <4>2, Types DEF NodeUpCallback, DeleteNodeDownCallback, IdleThread,
                           HolderSteps, PendingSteps
      <4>3. ASSUME NEW n \in Nodes, HeartbeatRecovery(s, n)
            PROVE  /\ \A t \in Slots : t # s => th'[t] = th[t]
                   /\ th'[s].pc = "up" /\ th[s].pc = "idle"
        BY <4>3, Types DEF HeartbeatRecovery, Idle, IdleThread
      <4> QED
        BY <2>3, <4>1, <4>2, <4>3 DEF HolderSteps, PendingSteps
    <3> QED
      BY <2>2, <3>1
  <2>4. ASSUME NEW s \in Slots,
               \/ RegisterNoSubnet(s)
               \/ RegisterAddWGPeer(s)
               \/ DeleteRemoveWGPeer(s)
               \/ DeleteRemoveBGPPeer(s)
        PROVE  ThreadsGoOn
    <3>1. /\ \A t \in Slots : t # s => th'[t] = th[t]
          /\ th'[s].node = th[s].node /\ th'[s].key = th[s].key
      BY <2>0, <2>4, Types
         DEF RegisterNoSubnet, RegisterAddWGPeer, DeleteRemoveWGPeer, DeleteRemoveBGPPeer,
             Thread
    <3>2. \/ /\ th[s].pc \in {"reg_wg", "del_wg", "del_bgp"}
             /\ th'[s].pc \in {"reg_bgp", "del_bgp", "del_down"}
          \/ /\ th[s].pc = "reg_subnet" /\ th'[s].pc = "reg_rollback"
      BY <2>0, <2>4, Types
         DEF RegisterNoSubnet, RegisterAddWGPeer, DeleteRemoveWGPeer, DeleteRemoveBGPPeer,
             Thread
    <3> QED
      BY <2>2, <3>1, <3>2
  <2> QED
    BY <2>1, <2>3, <2>4 DEF GoesOn, Heartbeat, Lapse, CheckerStep, Sweep, MarkDown,
                            MarkDownCallback, vars
<1> QED
  BY <1>1, <1>2, <1>3, GoOnStep

LEMMA BookStep ==
    ASSUME RegistryInv, BookInv, [Next]_vars
    PROVE  BookInv'
BY StepsOfTheBooks, BookGoesOn, BookAllocate, BookInsert, BookReleaseAddress,
   BookReleaseSubnet, BookDelete, BookRestart

\* The books are in order in every reachable state.
THEOREM BooksInOrder == Spec => []BookInv
<1>1. RegistryInv /\ BookInv /\ [Next]_vars => BookInv'
  BY BookStep
<1> QED
  BY BookInit, RegistryInvariant, <1>1, PTL DEF Spec

\* Whatever requests overlap, a node that is not registered and that nobody
\* is busy with holds nothing (registry.go:273, 391-394).
THEOREM NothingLeaks == Spec => []NoLeakedAddresses
<1>1. BookInv => NoLeakedAddresses
  <2> SUFFICES ASSUME BookInv, NEW n \in Nodes,
                      ~ Registered(n),
                      ~ InFlight(n, RegisterSteps \cup DeleteSteps)
               PROVE  assigned[n] = None /\ SubnetsOf(n) = {}
    BY DEF NoLeakedAddresses
  <2>1. ~ InFlight(n, HolderSteps) /\ ~ InFlight(n, {"del_subnet"})
    BY DEF InFlight, HolderSteps, PendingSteps, RegisterSteps, DeleteSteps
  <2> QED
    BY <2>1 DEF BookInv, HeldAddressesAreInUse, HeldSubnetsAreInUse, SubnetsOf
<1> QED
  BY BooksInOrder, <1>1, PTL

\* As many nodes as there are resources, when every resource is one of theirs
\* and no node has two.
LEMMA OccupiedInFull ==
    ASSUME NEW N \in Nat, NEW S, IsFiniteSet(S), NEW holder \in [1 .. N -> S],
           \A x, y \in 1 .. N : holder[x] = holder[y] => x = y
    PROVE  N <= Cardinality(S)
<1>1. IsFiniteSet(1 .. N) /\ Cardinality(1 .. N) = N
  BY FS_Interval
<1>2. holder \in Injection(1 .. N, S)
  BY Fun_IsInj
<1> QED
  BY <1>1, <1>2, FS_Injection

\* The pools run dry only when they are in use: a 503 of handleRegister is never
\* the work of a leak (registry.go:266, 275).
THEOREM RefusalsAreAlwaysJustified ==
    ASSUME IsFiniteSet(Nodes)
    PROVE  Spec => []RefusalsAreJustified
<1>1. \A steps : IsFiniteSet(Occupants(steps))
  BY FS_Subset DEF Occupants
<1>2. ASSUME RegistryInv, BookInv, pool = <<>>
      PROVE  NumIPs <= Cardinality(
               Occupants({"reg_subnet", "reg_rollback", "del_subnet", "del_ip"}))
  <2> DEFINE O == Occupants({"reg_subnet", "reg_rollback", "del_subnet", "del_ip"})
             holder == [ip \in IPs |-> CHOOSE n \in Nodes : assigned[n] = ip]
  <2>1. Len(pool) = 0
    BY <1>2
  <2>2. \A ip \in IPs : \E n \in Nodes : assigned[n] = ip
    BY <1>2, <2>1 DEF RegistryInv, AddressesConserved, NoAddressLost
  <2>3. \A ip \in IPs : holder[ip] \in Nodes /\ assigned[holder[ip]] = ip
    BY <2>2
  <2>4. \A n \in Nodes : assigned[n] # None => n \in O
    BY <1>2 DEF BookInv, HeldAddressesAreInUse, HolderSteps, PendingSteps, Occupants, InFlight
  <2>5. holder \in [IPs -> O]
    <3>1. \A ip \in IPs : ip # None
      BY NoneIsNoIP
    <3> HIDE DEF O
    <3>2. \A ip \in IPs : holder[ip] \in O
      BY <2>3, <2>4, <3>1, Zenon
    <3> QED
      BY <3>2, Zenon
  <2>6. \A x, y \in IPs : holder[x] = holder[y] => x = y
    BY <2>3, Zenon
  <2> HIDE DEF O, holder
  <2>7. NumIPs <= Cardinality(O)
    BY <1>1, <2>5, <2>6, NumIPsIsNat, OccupiedInFull DEF IPs, O
  <2> QED
    BY <2>7 DEF O
<1>3. ASSUME RegistryInv, BookInv, FreeSubnets = {}
      PROVE  NumSubnets <= Cardinality(Occupants({"del_subnet"}))
  <2>1. \A x \in SubnetIDs : subnets[x] \in Nodes
    BY <1>3 DEF RegistryInv, TypeOK, SubnetTypeOK, FreeSubnets, SubnetsOf
  <2>2. \A x \in SubnetIDs : subnets[x] \in Occupants({"del_subnet"})
    BY <1>3, <2>1 DEF BookInv, HeldSubnetsAreInUse, Occupants
  <2>3. subnets \in [SubnetIDs -> Occupants({"del_subnet"})]
    BY <1>3, <2>2 DEF RegistryInv, TypeOK, SubnetTypeOK
  <2>4. \A x, y \in SubnetIDs : subnets[x] = subnets[y] => x = y
    BY <1>3, <2>1, NoneIsNoNode DEF BookInv, OneSubnetEach
  <2> QED
    BY <1>1, <2>3, <2>4, NumSubnetsIsNat, OccupiedInFull DEF SubnetIDs
<1>4. RegistryInv /\ BookInv => RefusalsAreJustified
  BY <1>2, <1>3 DEF RefusalsAreJustified
<1> QED
  BY <1>4, RegistryInvariant, BooksInOrder, PTL

\* Whatever requests overlap, a node keeps its key, address and sub-prefix for
\* as long as it stays registered (registry.go:255-260).
THEOREM LeasesAreStable == Spec => LeaseStable
<1> DEFINE Stable == \A n \in Nodes :
                       Registered(n) /\ Registered(n)' =>
                          /\ nodes'[n].key = nodes[n].key
                          /\ nodes'[n].wgIP = nodes[n].wgIP
                          /\ nodes'[n].subnet = nodes[n].subnet
<1>1. RegistryInv /\ BookInv /\ [Next]_vars => [Stable]_vars
  <2> SUFFICES ASSUME RegistryInv, BookInv, [Next]_vars,
                      NEW n \in Nodes, Registered(n), Registered(n)'
               PROVE  /\ nodes'[n].key = nodes[n].key
                      /\ nodes'[n].wgIP = nodes[n].wgIP
                      /\ nodes'[n].subnet = nodes[n].subnet
    OBVIOUS
  <2>1. CASE LeasesKept
    BY <2>1 DEF LeasesKept
  <2>2. ASSUME NEW s \in Slots, RegisterInsert(s)
        PROVE  nodes'[n] = nodes[n]
    BY <2>2, InsertEffect DEF Inserted
  <2>3. ASSUME NEW s \in Slots, NEW m \in Nodes, DeleteRecord(s, m)
        PROVE  nodes'[n] = nodes[n]
    BY <2>3, DeleteEffect
  <2>4. ~ RestartCore
    BY DEF RestartCore, Registered, NoNode
  <2> QED
    BY <2>1, <2>2, <2>3, <2>4, LeasesChange
<1> QED
  BY RegistryInvariant, BooksInOrder, <1>1, PTL DEF Spec, LeaseStable

-----------------------------------------------------------------------------
(***************************************************************************)
(* Calm requests: the records and the books agree.                         *)
(***************************************************************************)

\* A removal is done by the time its node can register again.
RemovedAreGone ==
    \A s \in Slots : th[s].pc \in DeleteSteps => ~ Registered(th[s].node)

\* Nor does its node begin to; other nodes do, and may get its address.
NewcomersAreNotRemoved ==
    \A s, t \in Slots :
        /\ th[s].pc \in DeleteSteps
        /\ th[t].pc \in PendingSteps
        => th[s].node # th[t].node

\* A registration that is about to insert has the address it will insert.
NewcomersAreBooked ==
    \A s \in Slots : th[s].pc \in PendingSteps => assigned[th[s].node] = th[s].ip

\* One that has inserted, and has peers yet to configure, knows the record.
SettlingSteps == {"reg_wg", "reg_bgp"}

SettlersMatch ==
    \A s \in Slots : th[s].pc \in SettlingSteps =>
        /\ Registered(th[s].node)
        /\ nodes[th[s].node].key = th[s].key
        /\ nodes[th[s].node].wgIP = th[s].ip
        /\ nodes[th[s].node].subnet = th[s].subnet

OneRegistrationEach ==
    \A s, t \in Slots :
        /\ th[s].pc \in RegisterSteps
        /\ th[t].pc \in RegisterSteps
        /\ th[s].node = th[t].node
        => s = t

CalmInv ==
    /\ RemovedAreGone
    /\ NewcomersAreNotRemoved
    /\ NewcomersAreBooked
    /\ SettlersMatch
    /\ OneRegistrationEach
    /\ LeaseIsBooked

\* No registration or removal starts, and none changes what it works with.
ThreadsMoveOn ==
    \A t \in Slots :
        /\ th'[t].pc \in DeleteSteps => /\ th[t].pc \in DeleteSteps
                                        /\ th'[t].node = th[t].node
                                        /\ th'[t].ip = th[t].ip
        /\ th'[t].pc \in PendingSteps => /\ th[t].pc \in PendingSteps
                                         /\ th'[t].node = th[t].node
                                         /\ th'[t].ip = th[t].ip
        /\ th'[t].pc \in SettlingSteps => /\ th[t].pc \in SettlingSteps
                                          /\ th'[t].node = th[t].node
                                          /\ th'[t].key = th[t].key
                                          /\ th'[t].ip = th[t].ip
                                          /\ th'[t].subnet = th[t].subnet

LEMMA PendingOrSettling ==
    /\ RegisterSteps = PendingSteps \cup SettlingSteps
    /\ PendingSteps \cap SettlingSteps = {}
    /\ RegisterSteps \cap DeleteSteps = {}
    /\ {"idle", "up"} \cap (RegisterSteps \cup DeleteSteps) = {}
BY DEF RegisterSteps, PendingSteps, SettlingSteps, DeleteSteps

\* Which steps those are.
LEMMA MoveOn ==
    ASSUME RegistryInv,
           \/ GoesOn
           \/ \E s \in Slots : \/ RegisterRollback(s)
                               \/ DeleteReleaseIP(s)
                               \/ DeleteReleaseSubnet(s)
    PROVE  ThreadsMoveOn
<1>0. \A t \in Slots : th[t] \in Thread
  BY Types
<1>1. CASE UNCHANGED th
  BY <1>1 DEF ThreadsMoveOn
<1>2. ASSUME NEW s \in Slots,
             \A t \in Slots : t # s => th'[t] = th[t],
             th'[s].pc \in {"idle", "up"}
      PROVE  ThreadsMoveOn
  BY <1>2 DEF ThreadsMoveOn, DeleteSteps, PendingSteps, SettlingSteps
<1>3. ASSUME NEW s \in Slots,
             \A t \in Slots : t # s => th'[t] = th[t],
             th'[s].node = th[s].node, th'[s].key = th[s].key,
             th'[s].ip = th[s].ip, th'[s].subnet = th[s].subnet,
             \/ th[s].pc \in DeleteSteps /\ th'[s].pc \in DeleteSteps
             \/ th[s].pc \in PendingSteps /\ th'[s].pc \in PendingSteps
             \/ th[s].pc \in SettlingSteps /\ th'[s].pc \in SettlingSteps
      PROVE  ThreadsMoveOn
  BY <1>3 DEF ThreadsMoveOn, DeleteSteps, PendingSteps, SettlingSteps
<1>4. ASSUME NEW s \in Slots,
             \/ RegisterAddBGPPeer(s)
             \/ NodeUpCallback(s)
             \/ DeleteNodeDownCallback(s)
             \/ RegisterRollback(s)
      PROVE  ThreadsMoveOn
  <2>1. /\ \A t \in Slots : t # s => th'[t] = th[t]
        /\ th'[s].pc \in {"idle", "up"}
    <3>1. CASE RegisterAddBGPPeer(s)
      BY <1>0, <3>1, Types DEF RegisterAddBGPPeer, Thread
    <3>2. CASE NodeUpCallback(s) \/ DeleteNodeDownCallback(s) \/ RegisterRollback(s)
      BY <3>2, Types DEF NodeUpCallback, DeleteNodeDownCallback, RegisterRollback, IdleThread
    <3> QED
      BY <1>4, <3>1, <3>2
  <2> QED
    BY <1>2, <2>1
<1>5. ASSUME NEW s \in Slots, NEW n \in Nodes, HeartbeatRecovery(s, n)
      PROVE  ThreadsMoveOn
  <2>1. /\ \A t \in Slots : t # s => th'[t] = th[t]
        /\ th'[s].pc = "up"
    BY <1>5, Types DEF HeartbeatRecovery, IdleThread
  <2> QED
    BY <1>2, <2>1
<1>6. ASSUME NEW s \in Slots,
             \/ RegisterNoSubnet(s)
             \/ RegisterAddWGPeer(s)
             \/ DeleteReleaseSubnet(s)
             \/ DeleteReleaseIP(s)
             \/ DeleteRemoveWGPeer(s)
             \/ DeleteRemoveBGPPeer(s)
      PROVE  ThreadsMoveOn
  <2>1. \/ /\ th[s].pc \in DeleteSteps
           /\ \E p \in DeleteSteps : th' = [th EXCEPT ![s].pc = p]
        \/ /\ th[s].pc \in PendingSteps
           /\ \E p \in PendingSteps : th' = [th EXCEPT ![s].pc = p]
        \/ /\ th[s].pc \in SettlingSteps
           /\ \E p \in SettlingSteps : th' = [th EXCEPT ![s].pc = p]
    BY <1>6 DEF RegisterNoSubnet, RegisterAddWGPeer, DeleteReleaseSubnet,
                DeleteReleaseIP, DeleteRemoveWGPeer, DeleteRemoveBGPPeer,
                DeleteSteps, PendingSteps, SettlingSteps
  <2>2. PICK p \in DeleteSteps \cup PendingSteps \cup SettlingSteps :
          /\ th' = [th EXCEPT ![s].pc = p]
          /\ \/ th[s].pc \in DeleteSteps /\ p \in DeleteSteps
             \/ th[s].pc \in PendingSteps /\ p \in PendingSteps
             \/ th[s].pc \in SettlingSteps /\ p \in SettlingSteps
    BY <2>1
  <2>3. /\ \A t \in Slots : t # s => th'[t] = th[t]
        /\ th'[s].pc = p
        /\ th'[s].node = th[s].node /\ th'[s].key = th[s].key
        /\ th'[s].ip = th[s].ip /\ th'[s].subnet = th[s].subnet
    BY <1>0, <2>2, Types DEF Thread
  <2> QED
    BY <1>3, <2>2, <2>3
<1> QED
  BY <1>1, <1>4, <1>5, <1>6
     DEF GoesOn, Heartbeat, Lapse, CheckerStep, Sweep, MarkDown, MarkDownCallback, vars

\* A step that only goes on, or gives back what an unregistered node holds.
LEMMA CalmMovesOn ==
    ASSUME RegistryInv, BookInv, CalmInv, LeasesKept, ThreadsMoveOn,
           \A n \in Nodes : Registered(n) => /\ assigned'[n] = assigned[n]
                                             /\ SubnetsOf(n)' = SubnetsOf(n),
           \A t \in Slots : th'[t].pc \in PendingSteps =>
                               assigned'[th[t].node] = assigned[th[t].node]
    PROVE  CalmInv'
<1> USE DEF CalmInv
<1>0. \A t \in Slots : th[t].pc \in RegisterSteps \cup DeleteSteps => th[t].node \in Nodes
  BY Types
<1>1. NewcomersAreNotRemoved'
  BY DEF NewcomersAreNotRemoved, ThreadsMoveOn
<1>2. RemovedAreGone'
  <2>1. ASSUME NEW t \in Slots, th'[t].pc \in DeleteSteps
        PROVE  ~ Registered(th[t].node)' /\ th'[t].node = th[t].node
    BY <1>0, <2>1 DEF RemovedAreGone, ThreadsMoveOn, LeasesKept
  <2> QED
    BY <2>1 DEF RemovedAreGone, Registered
<1>3. NewcomersAreBooked'
  BY DEF NewcomersAreBooked, ThreadsMoveOn
<1>4. SettlersMatch'
  <2>1. ASSUME NEW t \in Slots, th'[t].pc \in SettlingSteps
        PROVE  /\ Registered(th[t].node)' /\ th'[t].node = th[t].node
               /\ nodes'[th[t].node].key = th'[t].key
               /\ nodes'[th[t].node].wgIP = th'[t].ip
               /\ nodes'[th[t].node].subnet = th'[t].subnet
    <3>1. th[t].node \in Nodes
      BY <1>0, <2>1, PendingOrSettling DEF ThreadsMoveOn
    <3> QED
      BY <2>1, <3>1 DEF SettlersMatch, ThreadsMoveOn, LeasesKept
  <2> QED
    BY <2>1 DEF SettlersMatch, Registered
<1>5. OneRegistrationEach'
  BY PendingOrSettling DEF OneRegistrationEach, ThreadsMoveOn
<1>6. LeaseIsBooked'
  BY DEF LeaseIsBooked, LeasesKept
<1> QED
  BY <1>1, <1>2, <1>3, <1>4, <1>5, <1>6

LEMMA CalmGoesOn ==
    ASSUME RegistryInv, BookInv, CalmInv, GoesOn
    PROVE  CalmInv'
<1>1. UNCHANGED <<assigned, subnets>>
  BY DEF GoesOn, RegisterNoSubnet, RegisterAddWGPeer, RegisterAddBGPPeer,
         NodeUpCallback, DeleteRemoveWGPeer, DeleteRemoveBGPPeer,
         DeleteNodeDownCallback, HeartbeatRecovery, Heartbeat, Lapse, CheckerStep,
         Sweep, MarkDown, MarkDownCallback, vars, allocVars
<1>2. LeasesKept
  BY LeasesGoOn
<1>3. ThreadsMoveOn
  BY MoveOn
<1> QED
  BY <1>1, <1>2, <1>3, CalmMovesOn DEF SubnetsOf

\* Only an unregistered node's resources are given back.
LEMMA CalmGivesBack ==
    ASSUME RegistryInv, BookInv, CalmInv, NEW s \in Slots,
           \/ RegisterRollback(s)
           \/ DeleteReleaseIP(s)
           \/ DeleteReleaseSubnet(s)
    PROVE  CalmInv'
<1> DEFINE n == th[s].node
<1>1. /\ th[s].pc \in PendingSteps \cup DeleteSteps
      /\ UNCHANGED nodes
  BY DEF RegisterRollback, DeleteReleaseIP, DeleteReleaseSubnet, PendingSteps, DeleteSteps
<1>2. n \in Nodes /\ ~ Registered(n)
  BY <1>1, Types DEF PendingSteps, RegisterSteps, BookInv, NewcomersAreUnregistered,
                     CalmInv, RemovedAreGone
<1>3. LeasesKept
  BY <1>1, LeasesGoOn
<1>4. ThreadsMoveOn
  BY MoveOn
<1>5. \A m \in Nodes : m # n => assigned'[m] = assigned[m]
  <2>1. CASE ReleaseWGIP(n)
    BY <1>2, <2>1, ReleaseWGIPEffect, Types
  <2>2. CASE UNCHANGED wgipVars
    BY <2>2 DEF wgipVars
  <2> QED
    BY <2>1, <2>2 DEF RegisterRollback, DeleteReleaseIP, DeleteReleaseSubnet
<1>6. \A m \in Nodes : m # n => SubnetsOf(m)' = SubnetsOf(m)
  <2>1. CASE ReleaseSubnet(n)
    <3>1. \A x \in SubnetIDs :
            subnets'[x] = IF subnets[x] = n THEN None ELSE subnets[x]
      BY <1>2, <2>1, ReleaseSubnetEffect, Types DEF BookInv
    <3> QED
      BY <3>1, NoneIsNoNode DEF SubnetsOf
  <2>2. CASE UNCHANGED subnets
    BY <2>2 DEF SubnetsOf
  <2> QED
    BY <2>1, <2>2 DEF RegisterRollback, DeleteReleaseIP, DeleteReleaseSubnet
<1>7. \A t \in Slots : th'[t].pc \in PendingSteps => th[t].node \in Nodes \ {n}
  <2>1. CASE RegisterRollback(s)
    <3>1. mu = s /\ th'[s].pc = "idle" /\ \A t \in Slots : t # s => th'[t] = th[t]
      BY <2>1, Types
         DEF RegisterRollback, IdleThread, RegistryInv, CriticalSectionOwnsLock
    <3> QED
      BY <3>1 DEF RegistryInv, CriticalSectionOwnsLock, PendingSteps
  <2>2. CASE DeleteReleaseIP(s) \/ DeleteReleaseSubnet(s)
    <3>1. th[s].pc \in DeleteSteps
      BY <2>2 DEF DeleteReleaseIP, DeleteReleaseSubnet, DeleteSteps
    <3>2. ASSUME NEW t \in Slots, th'[t].pc \in PendingSteps
          PROVE  th[t].node \in Nodes \ {n}
      <4>1. th[t].pc \in PendingSteps
        BY <1>4, <3>2 DEF ThreadsMoveOn
      <4>2. th[t].node \in Nodes
        BY <4>1, Types, PendingOrSettling
      <4> QED
        BY <3>1, <4>1, <4>2 DEF CalmInv, NewcomersAreNotRemoved
    <3> QED
      BY <3>2
  <2> QED
    BY <2>1, <2>2
<1> QED
  BY <1>1, <1>2, <1>3, <1>4, <1>5, <1>6, <1>7, CalmMovesOn

\* handleRegister starts for a node nobody is busy with.
LEMMA CalmAllocates ==
    ASSUME RequestsOverlap = FALSE, RegistryInv, BookInv, CalmInv,
           NEW s \in Slots, NEW k \in Keys, RegisterAllocateIP(s, KeyOwner[k], k)
    PROVE  CalmInv'
<1> DEFINE n == KeyOwner[k]
<1> USE DEF CalmInv
<1>1. n \in Nodes
  BY KeyOwnerIsFunction
<1>2. PICK ip \in IPs :
        /\ AllocateWGIP(n, ip)
        /\ th' = [th EXCEPT ![s] = [pc |-> "reg_subnet", node |-> n, key |-> k,
                                    ip |-> ip, subnet |-> None]]
  BY DEF RegisterAllocateIP
<1>3. /\ UNCHANGED <<nodes, subnets>> /\ ~ Registered(n)
      /\ mu = None /\ th[s].pc = "idle"
      /\ ~ InFlight(n, DeleteSteps)
  BY DEF RegisterAllocateIP, RegisterAllowed, Idle
<1>4. /\ th'[s].pc = "reg_subnet" /\ th'[s].node = n /\ th'[s].ip = ip
      /\ \A t \in Slots : t # s => th'[t] = th[t]
  BY <1>2, Types
<1>5. \A t \in Slots : th[t].pc \notin PendingSteps
  BY <1>3, NoneIsNothing DEF RegistryInv, CriticalSectionOwnsLock, PendingSteps
<1>6. \A t \in Slots : th'[t].pc \in DeleteSteps => th'[t] = th[t] /\ th[t].node # n
  BY <1>3, <1>4 DEF InFlight, DeleteSteps
<1>7. /\ \A m \in Nodes : m # n => assigned'[m] = assigned[m]
      /\ assigned'[n] = ip
  BY <1>1, <1>2, AllocateWGIPEffect, Types
<1>8. RemovedAreGone' /\ NewcomersAreNotRemoved'
  <2>1. RemovedAreGone'
    BY <1>3, <1>6 DEF RemovedAreGone, Registered
  <2>2. NewcomersAreNotRemoved'
    BY <1>4, <1>5, <1>6 DEF NewcomersAreNotRemoved
  <2> QED
    BY <2>1, <2>2
<1>9. NewcomersAreBooked'
  BY <1>4, <1>5, <1>7 DEF NewcomersAreBooked
<1>10. SettlersMatch'
  BY <1>3, <1>4 DEF SettlersMatch, Registered, SettlingSteps
<1>11. OneRegistrationEach'
  <2>1. \A t \in Slots : t # s /\ th[t].pc \in RegisterSteps => th[t].node # n
    BY <1>3, <1>5, PendingOrSettling DEF SettlersMatch
  <2> QED
    BY <1>4, <2>1 DEF OneRegistrationEach
<1>12. LeaseIsBooked'
  BY <1>3, <1>7 DEF LeaseIsBooked, Registered, SubnetsOf
<1> QED
  BY <1>8, <1>9, <1>10, <1>11, <1>12

\* It inserts what the books say.
LEMMA CalmInserts ==
    ASSUME RegistryInv, BookInv, CalmInv, NEW s \in Slots, RegisterInsert(s)
    PROVE  CalmInv'
<1> DEFINE n == th[s].node
<1> USE DEF CalmInv
<1>1. mu = s /\ n \in Nodes /\ ~ Registered(n) /\ th[s].ip \in IPs
  BY InsertEffect
<1>2. PICK sub \in SubnetIDs : Inserted(s, sub)
  BY InsertEffect
<1>3. Registered(n)' /\ \A m \in Nodes : m # n => nodes'[m] = nodes[m]
  BY <1>2 DEF Inserted, Registered
<1>4. \A t \in Slots : th'[t].pc \in DeleteSteps => th'[t] = th[t] /\ th[t].node \in Nodes \ {n}
  <2>1. ASSUME NEW t \in Slots, th'[t].pc \in DeleteSteps
        PROVE  th'[t] = th[t] /\ th[t].node \in Nodes \ {n}
    <3>1. th'[t] = th[t]
      BY <1>2, <2>1 DEF Inserted, DeleteSteps
    <3>2. th[s].pc \in PendingSteps
      BY <1>2 DEF Inserted, PendingSteps
    <3> QED
      BY <2>1, <3>1, <3>2, Types DEF NewcomersAreNotRemoved
  <2> QED
    BY <2>1
<1>5. RemovedAreGone'
  BY <1>3, <1>4 DEF RemovedAreGone, Registered
<1>6. \A t \in Slots : t # s => th[t].pc \notin PendingSteps
  BY <1>1 DEF RegistryInv, CriticalSectionOwnsLock, PendingSteps
<1>7. NewcomersAreNotRemoved'
  BY <1>2, <1>6 DEF Inserted, NewcomersAreNotRemoved, PendingSteps
<1>8. NewcomersAreBooked'
  BY <1>2, <1>6 DEF Inserted, NewcomersAreBooked, PendingSteps
<1>9. SettlersMatch'
  <2>1. ASSUME NEW t \in Slots, th'[t].pc \in SettlingSteps
        PROVE  /\ nodes'[th'[t].node].state # "absent"
               /\ nodes'[th'[t].node].key = th'[t].key
               /\ nodes'[th'[t].node].wgIP = th'[t].ip
               /\ nodes'[th'[t].node].subnet = th'[t].subnet
    <3>1. CASE t = s
      BY <1>2, <1>3, <3>1 DEF Inserted, Registered
    <3>2. CASE t # s
      <4>1. th'[t] = th[t]
        BY <1>2, <3>2 DEF Inserted
      <4>2. th[t].node # n /\ th[t].node \in Nodes
        BY <1>1, <2>1, <4>1, Types, PendingOrSettling DEF SettlersMatch
      <4> QED
        BY <1>3, <2>1, <4>1, <4>2 DEF SettlersMatch, Registered
    <3> QED
      BY <3>1, <3>2
  <2> QED
    BY <2>1 DEF SettlersMatch, Registered
<1>10. OneRegistrationEach'
  BY <1>2 DEF Inserted, OneRegistrationEach, RegisterSteps
<1>11. LeaseIsBooked'
  <2>1. assigned' = assigned /\ assigned[n] = th[s].ip
    BY <1>2 DEF Inserted, wgipVars, NewcomersAreBooked, PendingSteps
  <2>2. SubnetsOf(n)' = {sub}
    BY <1>2 DEF Inserted, SubnetsOf
  <2>3. \A m \in Nodes : m # n => SubnetsOf(m)' = SubnetsOf(m)
    BY <1>2, NoneIsNoNode DEF Inserted, SubnetsOf
  <2>4. nodes'[n].wgIP = th[s].ip /\ nodes'[n].subnet = sub
    BY <1>2 DEF Inserted
  <2> QED
    <3>1. ASSUME NEW m \in Nodes, Registered(m)'
          PROVE  assigned'[m] = nodes'[m].wgIP /\ SubnetsOf(m)' = {nodes'[m].subnet}
      <4>1. CASE m = n
        BY <1>2, <2>1, <2>2, <2>4, <4>1 DEF Inserted, SubnetsOf
      <4>2. CASE m # n
        <5>1. nodes'[m] = nodes[m] /\ Registered(m)
          BY <1>3, <3>1, <4>2 DEF Registered
        <5> QED
          BY <2>1, <2>3, <4>2, <5>1 DEF LeaseIsBooked
      <4> QED
        BY <4>1, <4>2
    <3> QED
      BY <3>1 DEF LeaseIsBooked
<1> QED
  BY <1>5, <1>7, <1>8, <1>9, <1>10, <1>11

\* Two registered nodes share neither an address nor a sub-prefix.
LEMMA LeasesAreDistinct ==
    ASSUME RegistryInv, BookInv, LeaseIsBooked,
           NEW m \in Nodes, NEW n \in Nodes, Registered(m), Registered(n),
           \/ nodes[m].wgIP = nodes[n].wgIP
           \/ nodes[m].subnet = nodes[n].subnet
    PROVE  m = n
<1>1. CASE nodes[m].wgIP = nodes[n].wgIP
  <2>1. assigned[m] = assigned[n] /\ assigned[m] \in IPs
    BY <1>1 DEF LeaseIsBooked, BookInv, RecordsComplete
  <2> QED
    BY <2>1, NoneIsNoIP DEF RegistryInv, AddressesConserved, AssignedOnce
<1>2. CASE nodes[m].subnet = nodes[n].subnet
  BY <1>2 DEF LeaseIsBooked, SubnetsOf
<1> QED
  BY <1>1, <1>2

\* A removal takes a record nobody else is busy with.
LEMMA CalmDeletes ==
    ASSUME RequestsOverlap = FALSE, RegistryInv, BookInv, CalmInv,
           NEW s \in Slots, NEW n \in Nodes, DeleteRecord(s, n)
    PROVE  CalmInv'
<1> USE DEF CalmInv
<1>1. /\ mu = None /\ mu' = None /\ th[s].pc = "idle" /\ Registered(n)
      /\ ~ InFlight(n, RegisterSteps)
      /\ nodes'[n] = NoNode /\ ~ Registered(n)'
      /\ UNCHANGED <<assigned, subnets>>
  <2>1. UNCHANGED <<mu, assigned, subnets>>
    BY DEF DeleteRecord, allocVars
  <2> QED
    BY <2>1, DeleteEffect DEF DeleteAllowed
<1>2. \A m \in Nodes : m # n => nodes'[m] = nodes[m]
  BY DeleteEffect
<1>3. /\ th'[s].pc = "del_subnet" /\ th'[s].node = n /\ th'[s].ip = nodes[n].wgIP
      /\ \A t \in Slots : t # s => th'[t] = th[t]
  <2>1. th'[s] = [pc |-> "del_subnet", node |-> n, key |-> nodes[n].key,
                  ip |-> nodes[n].wgIP, subnet |-> None]
    BY DeleteEffect
  <2>2. \A t \in Slots : t # s => th'[t] = th[t]
    BY DeleteEffect
  <2> QED
    BY <2>1, <2>2
<1>4. \A t \in Slots : th'[t].pc \in RegisterSteps => /\ th'[t] = th[t]
                                                      /\ th[t].node \in Nodes
                                                      /\ th[t].node # n
  BY <1>1, <1>3, Types DEF InFlight, RegisterSteps
<1>5. RemovedAreGone'
  <2>1. ASSUME NEW t \in Slots, th'[t].pc \in DeleteSteps
        PROVE  nodes'[th'[t].node].state = "absent"
    <3>1. CASE t = s
      BY <1>1, <1>3, <3>1 DEF Registered
    <3>2. CASE t # s
      <4>1. th'[t] = th[t] /\ th[t].node \in Nodes
        BY <1>3, <2>1, <3>2, Types
      <4> QED
        BY <1>1, <1>2, <2>1, <4>1 DEF RemovedAreGone, Registered
    <3> QED
      BY <3>1, <3>2
  <2> QED
    BY <2>1 DEF RemovedAreGone, Registered
<1>6. NewcomersAreNotRemoved'
  BY <1>3, <1>4, PendingOrSettling DEF NewcomersAreNotRemoved
<1>7. NewcomersAreBooked'
  BY <1>1, <1>4, PendingOrSettling DEF NewcomersAreBooked
<1>8. SettlersMatch'
  BY <1>2, <1>4, PendingOrSettling DEF SettlersMatch, Registered
<1>9. OneRegistrationEach'
  BY <1>4 DEF OneRegistrationEach
<1>10. LeaseIsBooked'
  BY <1>1, <1>2 DEF LeaseIsBooked, Registered, SubnetsOf
<1> QED
  BY <1>5, <1>6, <1>7, <1>8, <1>9, <1>10

\* A core, freshly started or restarted, has no goroutine and no record.
Blank == /\ mu = None
         /\ \A n \in Nodes : ~ Registered(n)
         /\ \A s \in Slots : th[s].pc = "idle"

LEMMA CalmWhenBlank == Blank => CalmInv
BY PendingOrSettling DEF Blank, CalmInv, RemovedAreGone, NewcomersAreNotRemoved,
       NewcomersAreBooked, SettlersMatch, OneRegistrationEach, LeaseIsBooked

LEMMA InitIsBlank == Init => Blank
BY DEF Init, Blank, Registered, NoNode, IdleThread

LEMMA RestartIsBlank == RestartCore => Blank'
BY DEF RestartCore, Blank, Registered, NoNode, IdleThread

LEMMA CalmStep ==
    ASSUME RequestsOverlap = FALSE, RegistryInv, BookInv, CalmInv, [Next]_vars
    PROVE  CalmInv'
<1>1. Blank' => CalmInv'
  BY CalmWhenBlank, PTL
<1> QED
  BY <1>1, StepsOfTheBooks, CalmGoesOn, CalmAllocates, CalmInserts, CalmGivesBack,
     CalmDeletes, RestartIsBlank

THEOREM CalmInvariant ==
    ASSUME RequestsOverlap = FALSE
    PROVE  Spec => []CalmInv
<1>1. RegistryInv /\ BookInv /\ CalmInv /\ [Next]_vars => CalmInv'
  BY CalmStep
<1>2. Init => CalmInv
  BY InitIsBlank, CalmWhenBlank
<1> QED
  BY <1>1, <1>2, RegistryInvariant, BooksInOrder, PTL DEF Spec

\* With calm requests the allocators' books are the records
\* (allocator.go:27-28).
THEOREM LeasesAreBooked ==
    ASSUME RequestsOverlap = FALSE
    PROVE  Spec => []LeaseIsBooked
<1>1. CalmInv => LeaseIsBooked
  BY DEF CalmInv
<1> QED
  BY CalmInvariant, <1>1, PTL

-----------------------------------------------------------------------------
(***************************************************************************)
(* The refinement of LeaseTable.                                           *)
(***************************************************************************)
LeaseOf(n) == [ip |-> nodes[n].wgIP, subnet |-> nodes[n].subnet]

LeaseMap == [n \in Nodes |-> LeaseOf(n)]

\* A record without a lease is that of an unregistered node.
LEMMA NoLeaseOfUnregistered ==
    ASSUME BookInv, NEW n \in Nodes, ~ Registered(n)
    PROVE  LeaseOf(n) = Leases!NoLease
BY DEF BookInv, RecordsComplete, LeaseOf, Leases!NoLease, NoNode

\* An insertion grants what nobody leases.
LEMMA InsertIsGrant ==
    ASSUME RegistryInv, BookInv, CalmInv, NEW s \in Slots, RegisterInsert(s)
    PROVE  \E n \in Nodes : Leases!Grant(n)
<1>0. PICK n \in Nodes : n = th[s].node
  BY InsertEffect
<1>1. n \in Nodes /\ ~ Registered(n) /\ th[s].ip \in IPs
  BY <1>0, InsertEffect DEF Registered
<1>2. PICK sub \in SubnetIDs : Inserted(s, sub)
  BY InsertEffect
<1>3. LeaseMap[n] = Leases!NoLease
  BY <1>1, NoLeaseOfUnregistered DEF LeaseMap
<1>4. assigned[n] = th[s].ip /\ subnets[sub] \in {n, None}
  BY <1>0, <1>2 DEF Inserted, CalmInv, NewcomersAreBooked, PendingSteps
<1>5. ASSUME NEW m \in Nodes
      PROVE  LeaseMap[m].ip # th[s].ip /\ LeaseMap[m].subnet # sub
  <2>1. LeaseMap[m].ip = nodes[m].wgIP /\ LeaseMap[m].subnet = nodes[m].subnet
    BY DEF LeaseMap, LeaseOf
  <2>2. CASE Registered(m)
    <3>1. m # n /\ assigned[m] = nodes[m].wgIP /\ SubnetsOf(m) = {nodes[m].subnet}
      BY <1>1, <2>2 DEF CalmInv, LeaseIsBooked
    <3>2. assigned[m] # assigned[n]
      BY <1>1, <1>4, <3>1, NoneIsNoIP DEF RegistryInv, AddressesConserved, AssignedOnce
    <3>3. subnets[nodes[m].subnet] = m
      BY <3>1 DEF SubnetsOf
    <3> QED
      BY <1>4, <2>1, <3>1, <3>2, <3>3, NoneIsNoNode
  <2>3. CASE ~ Registered(m)
    <3>1. nodes[m].wgIP = None /\ nodes[m].subnet = None
      BY <2>3 DEF BookInv, RecordsComplete, NoNode
    <3> QED
      BY <1>1, <2>1, <3>1, NoneIsNoIP, NoneIsNothing
  <2> QED
    BY <2>2, <2>3
<1>6. LeaseMap' = [LeaseMap EXCEPT ![n] = [ip |-> th[s].ip, subnet |-> sub]]
  <2>1. ASSUME NEW m \in Nodes
        PROVE  LeaseMap'[m] = IF m = n THEN [ip |-> th[s].ip, subnet |-> sub] ELSE LeaseMap[m]
    BY <1>0, <1>2, <2>1 DEF Inserted, LeaseMap, LeaseOf
  <2> QED
    BY <2>1 DEF LeaseMap
<1>7. \E a \in IPs, p \in SubnetIDs :
        /\ \A m \in Nodes : LeaseMap[m].ip # a /\ LeaseMap[m].subnet # p
        /\ LeaseMap' = [LeaseMap EXCEPT ![n] = [ip |-> a, subnet |-> p]]
  BY <1>1, <1>5, <1>6
<1>8. Leases!Grant(n)
  BY <1>3, <1>7 DEF Leases!Grant, LeaseMap, LeaseOf
<1> QED
  BY <1>8

\* With calm requests the registry keeps the promise of LeaseTable: an address
\* and a sub-prefix have one lessee at a time (registry.go:263-290).
THEOREM RegistryImplementsLeases ==
    ASSUME RequestsOverlap = FALSE
    PROVE  Spec => RegistryLeases
<1>1. Init => Leases!LeaseInit
  BY DEF Init, NoNode, Leases!LeaseInit, Leases!NoLease
<1>2. /\ RegistryInv /\ BookInv /\ CalmInv /\ [Next]_vars
      => [Leases!LeaseNext]_LeaseMap
  <2> SUFFICES ASSUME RegistryInv, BookInv, CalmInv, [Next]_vars
               PROVE  [Leases!LeaseNext]_LeaseMap
    OBVIOUS
  <2>1. CASE LeasesKept
    BY <2>1 DEF LeasesKept, LeaseMap, LeaseOf
  <2>2. ASSUME NEW s \in Slots, RegisterInsert(s)
        PROVE  Leases!LeaseNext
    BY <2>2, InsertIsGrant DEF Leases!LeaseNext
  <2>3. ASSUME NEW s \in Slots, NEW n \in Nodes, DeleteRecord(s, n)
        PROVE  Leases!LeaseNext
    <3>1. nodes'[n] = NoNode /\ \A m \in Nodes : m # n => nodes'[m] = nodes[m]
      BY <2>3, DeleteEffect
    <3>2. ASSUME NEW m \in Nodes
          PROVE  LeaseMap'[m] = IF m = n THEN Leases!NoLease ELSE LeaseMap[m]
      BY <3>1 DEF LeaseMap, LeaseOf, NoNode, Leases!NoLease
    <3>3. LeaseMap' = [LeaseMap EXCEPT ![n] = Leases!NoLease]
      BY <3>2 DEF LeaseMap
    <3>4. Leases!Revoke(n)
      BY <3>3 DEF Leases!Revoke, LeaseMap, LeaseOf
    <3> QED
      BY <3>4 DEF Leases!LeaseNext
  <2>4. CASE RestartCore
    <3>1. Leases!RevokeAll
      BY <2>4 DEF RestartCore, NoNode, Leases!RevokeAll, Leases!NoLease
    <3> QED
      BY <3>1 DEF Leases!LeaseNext
  <2> QED
    BY <2>1, <2>2, <2>3, <2>4, LeasesChange
<1> QED
  BY <1>1, <1>2, RegistryInvariant, BooksInOrder, CalmInvariant, PTL
     DEF Spec, RegistryLeases, Leases!LeaseSpec, LeaseMap, LeaseOf

-----------------------------------------------------------------------------
(***************************************************************************)
(* Calm requests: the checker and the registrations keep apart.            *)
(***************************************************************************)

\* If the node whose callback the checker owes is still registered, then with
\* the address the checker has copied.
VerdictsStand ==
    /\ checker.pc = "callback" =>
         /\ checker.node \in Nodes
         /\ Registered(checker.node) => checker.ip = nodes[checker.node].wgIP
    /\ checker.pc = "sweeping" => checker.node = None

\* The checker has no verdict on a node that is about to be inserted.
NewcomersAreUnjudged ==
    \A s \in Slots : th[s].pc \in PendingSteps =>
        th[s].node \notin checker.todo /\ th[s].node # checker.node

\* No node is marked down before its registration has configured the peers.
SettlersAreWell ==
    \A s \in Slots : th[s].pc \in SettlingSteps =>
        /\ nodes[th[s].node].state # "down"
        /\ nodes[th[s].node].fresh
        /\ th[s].node \notin checker.todo
        /\ th[s].node # checker.node

HealthInv == VerdictsStand /\ NewcomersAreUnjudged /\ SettlersAreWell

\* No registration starts, and none starts to configure its peers.
RegistrationsStay ==
    \A t \in Slots :
        /\ th'[t].pc \in PendingSteps =>
             th[t].pc \in PendingSteps /\ th'[t].node = th[t].node
        /\ th'[t].pc \in SettlingSteps =>
             th[t].pc \in SettlingSteps /\ th'[t].node = th[t].node

LEMMA SettlersAreNodes ==
    ASSUME RegistryInv, NEW s \in Slots, th[s].pc \in SettlingSteps
    PROVE  th[s].node \in Nodes
BY Types, PendingOrSettling

\* Goroutines go on; records and checker stay.
LEMMA HealthOfThreads ==
    ASSUME RegistryInv, HealthInv, RegistrationsStay, UNCHANGED <<nodes, checker>>
    PROVE  HealthInv'
BY DEF HealthInv, VerdictsStand, NewcomersAreUnjudged, SettlersAreWell,
       RegistrationsStay, Registered

LEMMA HealthAllocates ==
    ASSUME RequestsOverlap = FALSE, RegistryInv, HealthInv,
           NEW s \in Slots, NEW k \in Keys, RegisterAllocateIP(s, KeyOwner[k], k)
    PROVE  HealthInv'
<1>1. /\ UNCHANGED <<nodes, checker>>
      /\ KeyOwner[k] \notin checker.todo /\ checker.node # KeyOwner[k]
  BY DEF RegisterAllocateIP, RegisterAllowed
<1>2. /\ th'[s].pc = "reg_subnet" /\ th'[s].node = KeyOwner[k]
      /\ \A t \in Slots : t # s => th'[t] = th[t]
  BY Types DEF RegisterAllocateIP
<1>3. VerdictsStand'
  BY <1>1 DEF HealthInv, VerdictsStand, Registered
<1>4. NewcomersAreUnjudged'
  BY <1>1, <1>2 DEF HealthInv, NewcomersAreUnjudged
<1>5. SettlersAreWell'
  BY <1>1, <1>2 DEF HealthInv, SettlersAreWell, SettlingSteps
<1> QED
  BY <1>3, <1>4, <1>5 DEF HealthInv

LEMMA HealthInserts ==
    ASSUME RegistryInv, BookInv, HealthInv, NEW s \in Slots, RegisterInsert(s)
    PROVE  HealthInv'
<1>0. PICK n \in Nodes : n = th[s].node
  BY InsertEffect
<1>2. PICK sub \in SubnetIDs : Inserted(s, sub)
  BY InsertEffect
<1>3. /\ UNCHANGED checker
      /\ nodes'[n].state = "pending" /\ nodes'[n].fresh
      /\ \A m \in Nodes : m # n => nodes'[m] = nodes[m]
      /\ th'[s].node = n /\ th[s].pc = "reg_subnet" /\ th'[s].pc = "reg_wg"
      /\ \A t \in Slots : t # s => th'[t] = th[t]
  BY <1>0, <1>2 DEF Inserted
<1>4. checker.todo \in SUBSET Nodes /\ checker.pc \in {"sweeping", "callback"}
  BY Types DEF CheckerState
<1>5. n \notin checker.todo /\ n # checker.node
  BY <1>0, <1>3 DEF HealthInv, NewcomersAreUnjudged, PendingSteps
<1>6. VerdictsStand'
  BY <1>3, <1>4, <1>5 DEF HealthInv, VerdictsStand, Registered
<1>7. SettlersAreWell'
  <2>1. ASSUME NEW t \in Slots, t # s, th[t].pc \in SettlingSteps
        PROVE  /\ nodes'[th[t].node].state # "down"
               /\ nodes'[th[t].node].fresh
    BY <1>3, <2>1, SettlersAreNodes DEF HealthInv, SettlersAreWell
  <2> QED
    BY <1>3, <1>5, <2>1 DEF HealthInv, SettlersAreWell
<1>8. NewcomersAreUnjudged'
  BY <1>3 DEF HealthInv, NewcomersAreUnjudged, PendingSteps
<1> QED
  BY <1>6, <1>7, <1>8 DEF HealthInv

LEMMA HealthDeletes ==
    ASSUME RequestsOverlap = FALSE, RegistryInv, BookInv, HealthInv,
           NEW s \in Slots, NEW n \in Nodes, DeleteRecord(s, n)
    PROVE  HealthInv'
<1>1. UNCHANGED checker
  BY DEF DeleteRecord
<1>2. ~ InFlight(n, RegisterSteps)
  BY DeleteEffect DEF DeleteAllowed
<1>3. \A m \in Nodes : m # n => nodes'[m] = nodes[m]
  BY DeleteEffect
<1>4. th'[s].pc = "del_subnet" /\ \A t \in Slots : t # s => th'[t] = th[t]
  <2>1. th'[s] = [pc |-> "del_subnet", node |-> n, key |-> nodes[n].key,
                  ip |-> nodes[n].wgIP, subnet |-> None]
    BY DeleteEffect
  <2>2. \A t \in Slots : t # s => th'[t] = th[t]
    BY DeleteEffect
  <2> QED
    BY <2>1, <2>2
<1>5. ~ Registered(n)'
  BY DeleteEffect
<1>6. VerdictsStand'
  BY <1>1, <1>3, <1>5 DEF HealthInv, VerdictsStand, Registered
<1>7. SettlersAreWell'
  <2>1. ASSUME NEW t \in Slots, th'[t].pc \in SettlingSteps
        PROVE  /\ th'[t] = th[t] /\ th[t].pc \in SettlingSteps
               /\ nodes'[th[t].node] = nodes[th[t].node]
    <3>1. th'[t] = th[t] /\ th[t].pc \in SettlingSteps
      BY <1>4, <2>1 DEF SettlingSteps
    <3>2. th[t].node \in Nodes /\ th[t].node # n
      BY <1>2, <3>1, SettlersAreNodes, PendingOrSettling DEF InFlight
    <3> QED
      BY <1>3, <3>1, <3>2
  <2> QED
    BY <1>1, <2>1 DEF HealthInv, SettlersAreWell
<1>8. NewcomersAreUnjudged'
  BY <1>1, <1>4 DEF HealthInv, NewcomersAreUnjudged, PendingSteps
<1> QED
  BY <1>6, <1>7, <1>8 DEF HealthInv

LEMMA HealthWhenBlank == Blank /\ checker = IdleChecker => HealthInv
BY PendingOrSettling
   DEF Blank, IdleChecker, HealthInv, VerdictsStand, NewcomersAreUnjudged, SettlersAreWell

\* Heartbeats, the passing of time, and the checker itself.
LEMMA HealthOfRecords ==
    ASSUME RequestsOverlap = FALSE, RegistryInv, BookInv, HealthInv,
           \/ \E s \in Slots, n \in Nodes : HeartbeatRecovery(s, n)
           \/ \E n \in Nodes : Heartbeat(n) \/ Lapse(n)
           \/ CheckerStep
    PROVE  HealthInv'
<1>0. /\ nodes \in [Nodes -> NodeRecord]
      /\ checker.todo \in SUBSET Nodes
      /\ checker.pc \in {"sweeping", "callback"}
  BY Types DEF CheckerState
<1>1. GoesOn
  BY DEF GoesOn
<1>2. LeasesKept /\ RegistrationsStay
  BY <1>1, LeasesGoOn, MoveOn DEF ThreadsMoveOn, RegistrationsStay
<1>3. ASSUME NEW t \in Slots, th'[t].pc \in SettlingSteps
      PROVE  /\ th[t].pc \in SettlingSteps /\ th'[t].node = th[t].node
             /\ th[t].node \in Nodes
  BY <1>2, <1>3, SettlersAreNodes DEF RegistrationsStay
<1>9. ASSUME NEW t \in Slots, th'[t].pc \in PendingSteps
      PROVE  /\ th'[t].node = th[t].node
             /\ th[t].node \in Nodes /\ ~ Registered(th[t].node)
             /\ th[t].node \notin checker.todo /\ th[t].node # checker.node
  BY <1>2, <1>9, Types, PendingOrSettling
     DEF RegistrationsStay, HealthInv, NewcomersAreUnjudged, BookInv, NewcomersAreUnregistered
<1>4. ASSUME NEW n \in Nodes, nodes' = Refreshed(n), UNCHANGED checker
      PROVE  HealthInv'
  <2>1. VerdictsStand'
    BY <1>0, <1>2, <1>4 DEF HealthInv, VerdictsStand, LeasesKept
  <2>2. \A m \in Nodes :
          /\ nodes[m].state # "down" => nodes'[m].state # "down"
          /\ nodes[m].fresh => nodes'[m].fresh
    <3>1. nodes[n] \in NodeRecord
      BY <1>0
    <3>2. /\ \A m \in Nodes : m # n => nodes'[m] = nodes[m]
          /\ nodes'[n] = [nodes[n] EXCEPT !.fresh = TRUE, !.state = "active"]
      BY <1>0, <1>4 DEF Refreshed
    <3> QED
      BY <3>1, <3>2 DEF NodeRecord
  <2>3. SettlersAreWell'
    BY <1>3, <1>4, <2>2 DEF HealthInv, SettlersAreWell
  <2>4. NewcomersAreUnjudged'
    BY <1>4, <1>9 DEF NewcomersAreUnjudged
  <2> QED
    BY <2>1, <2>3, <2>4 DEF HealthInv
<1>5. ASSUME NEW n \in Nodes, Lapse(n)
      PROVE  HealthInv'
  <2>1. /\ UNCHANGED <<checker, th>> /\ ~ InFlight(n, RegisterSteps)
        /\ \A m \in Nodes : m # n => nodes'[m] = nodes[m]
    BY <1>0, <1>5 DEF Lapse, LapseAllowed
  <2>2. VerdictsStand'
    BY <1>0, <1>2, <2>1 DEF HealthInv, VerdictsStand, LeasesKept
  <2>3. SettlersAreWell'
    BY <1>3, <2>1, PendingOrSettling DEF HealthInv, SettlersAreWell, InFlight
  <2>4. NewcomersAreUnjudged'
    BY <1>9, <2>1 DEF NewcomersAreUnjudged
  <2> QED
    BY <2>2, <2>3, <2>4 DEF HealthInv
<1>6. CASE Sweep
  <2>1. /\ UNCHANGED <<nodes, th>> /\ checker.pc = "sweeping"
        /\ checker' = [checker EXCEPT !.todo =
             {n \in Nodes : nodes[n].state \in {"pending", "active"} /\ ~ nodes[n].fresh}]
    BY <1>6 DEF Sweep
  <2>2. /\ checker'.todo =
             {n \in Nodes : nodes[n].state \in {"pending", "active"} /\ ~ nodes[n].fresh}
        /\ checker'.pc = "sweeping" /\ checker'.node = checker.node
    BY <2>1, Types DEF CheckerState
  <2>3. VerdictsStand'
    BY <2>1, <2>2 DEF HealthInv, VerdictsStand, Registered
  <2>4. SettlersAreWell'
    BY <2>1, <2>2 DEF HealthInv, SettlersAreWell
  <2>5. NewcomersAreUnjudged'
    BY <1>9, <2>2 DEF NewcomersAreUnjudged, Registered
  <2> QED
    BY <2>3, <2>4, <2>5 DEF HealthInv
<1>7. ASSUME NEW n \in Nodes, MarkDown(n)
      PROVE  HealthInv'
  <2>1. /\ UNCHANGED th /\ n \in checker.todo /\ checker.pc = "sweeping"
        /\ checker.node = None
    BY <1>7 DEF MarkDown, HealthInv, VerdictsStand
  <2>2. \A t \in Slots : th[t].pc \in SettlingSteps =>
                            th[t].node # n /\ th[t].node \in Nodes
    BY <2>1, SettlersAreNodes DEF HealthInv, SettlersAreWell
  <2>3. /\ \A m \in Nodes : m # n => nodes'[m] = nodes[m]
        /\ nodes'[n].wgIP = nodes[n].wgIP
    BY <1>0, <1>2, <1>7 DEF MarkDown, LeasesKept
  <2>4. /\ checker'.todo = checker.todo \ {n}
        /\ \/ checker'.pc = "callback" /\ checker'.node = n /\ checker'.ip = nodes[n].wgIP
           \/ checker'.pc = "sweeping" /\ checker'.node = None
    BY <1>7, <2>1, Types DEF MarkDown, CheckerState
  <2>5. VerdictsStand'
    BY <2>3, <2>4 DEF VerdictsStand
  <2>6. SettlersAreWell'
    BY <2>1, <2>2, <2>3, <2>4, NoneIsNoNode DEF HealthInv, SettlersAreWell
  <2>7. NewcomersAreUnjudged'
    BY <1>9, <2>1, <2>4, NoneIsNoNode DEF NewcomersAreUnjudged
  <2> QED
    BY <2>5, <2>6, <2>7 DEF HealthInv
<1>8. CASE MarkDownCallback
  <2>1. /\ UNCHANGED <<nodes, th>>
        /\ checker'.todo = checker.todo /\ checker'.pc = "sweeping" /\ checker'.node = None
    BY <1>8, Types DEF MarkDownCallback, CheckerState
  <2>2. VerdictsStand'
    BY <2>1 DEF HealthInv, VerdictsStand, Registered
  <2>3. SettlersAreWell'
    BY <1>3, <2>1, NoneIsNoNode DEF HealthInv, SettlersAreWell
  <2>4. NewcomersAreUnjudged'
    BY <1>9, <2>1, NoneIsNoNode DEF NewcomersAreUnjudged
  <2> QED
    BY <2>2, <2>3, <2>4 DEF HealthInv
<1> QED
  BY <1>4, <1>5, <1>6, <1>7, <1>8 DEF HeartbeatRecovery, Heartbeat, CheckerStep

LEMMA HealthStep ==
    ASSUME RequestsOverlap = FALSE, RegistryInv, BookInv, HealthInv, [Next]_vars
    PROVE  HealthInv'
<1>1. ASSUME \/ GoesOn
             \/ \E s \in Slots : \/ RegisterRollback(s)
                                 \/ DeleteReleaseIP(s)
                                 \/ DeleteReleaseSubnet(s),
             UNCHANGED <<nodes, checker>>
      PROVE  HealthInv'
  <2>1. RegistrationsStay
    BY <1>1, MoveOn DEF ThreadsMoveOn, RegistrationsStay
  <2> QED
    BY <1>1, <2>1, HealthOfThreads
<1>2. ASSUME GoesOn
      PROVE  HealthInv'
  BY <1>1, <1>2, HealthOfRecords
     DEF GoesOn, RegisterNoSubnet, RegisterAddWGPeer, RegisterAddBGPPeer, NodeUpCallback,
         DeleteRemoveWGPeer, DeleteRemoveBGPPeer, DeleteNodeDownCallback, vars
<1>3. ASSUME NEW s \in Slots,
             \/ RegisterRollback(s)
             \/ DeleteReleaseIP(s)
             \/ DeleteReleaseSubnet(s)
      PROVE  HealthInv'
  BY <1>1, <1>3 DEF RegisterRollback, DeleteReleaseIP, DeleteReleaseSubnet
<1>4. RestartCore => HealthInv'
  <2>1. (Blank /\ checker = IdleChecker)' => HealthInv'
    BY HealthWhenBlank, PTL
  <2> QED
    BY <2>1, RestartIsBlank DEF RestartCore
<1> QED
  BY <1>2, <1>3, <1>4, StepsOfTheBooks, HealthAllocates, HealthInserts, HealthDeletes

-----------------------------------------------------------------------------
(***************************************************************************)
(* Calm requests: the neighbours and the tunnels follow the records.       *)
(***************************************************************************)

\* The interface keeps a prefix with one peer.
OnePeerPerPrefix ==
    \A j, k \in Keys, p \in Prefixes :
        p \in allowedIPs[j] /\ p \in allowedIPs[k] => j = k

\* Once configured, unless the kernel refused, a node's tunnel is its own.
TunnelsStand ==
    \A n \in Nodes :
        Registered(n) /\ n \notin wgErr /\ ~ InFlight(n, {"reg_wg"})
            => /\ nodes[n].key \in wgPeers
               /\ allowedIPs[nodes[n].key] = {Host(nodes[n].wgIP), Net(nodes[n].subnet)}

TunnelInv == OnePeerPerPrefix /\ TunnelsStand

\* All that is true of calm requests, step by step.
LeaseTableInv == RegistryInv /\ BookInv /\ CalmInv /\ HealthInv

\* No removal starts or ends, and no registration configures its peer.
PeersPending ==
    \A t \in Slots :
        /\ th'[t].pc \in DeleteSteps <=> th[t].pc \in DeleteSteps
        /\ th[t].pc \in DeleteSteps => th'[t].ip = th[t].ip
        /\ th[t].pc = "reg_wg" => th'[t].pc = "reg_wg" /\ th'[t].node = th[t].node

\* The steps that configure nothing.
ConfiguresNothing ==
    \/ \E s \in Slots : \/ RegisterNoSubnet(s)
                        \/ NodeUpCallback(s)
                        \/ RegisterRollback(s)
                        \/ DeleteReleaseIP(s)
                        \/ DeleteReleaseSubnet(s)
                        \/ \E k \in Keys : RegisterAllocateIP(s, KeyOwner[k], k)
                        \/ \E n \in Nodes : HeartbeatRecovery(s, n)
    \/ \E n \in Nodes : Heartbeat(n) \/ Lapse(n) \/ MarkDown(n)
    \/ Sweep
    \/ UNCHANGED vars

LEMMA ConfiguresNothingEffect ==
    ASSUME RegistryInv, ConfiguresNothing
    PROVE  /\ UNCHANGED <<wgPeers, allowedIPs, bgpPeers, wgErr>>
           /\ LeasesKept
           /\ PeersPending
<1>0. \A t \in Slots : th[t] \in Thread
  BY Types
<1>1. UNCHANGED <<wgPeers, allowedIPs, bgpPeers, wgErr>>
  BY DEF ConfiguresNothing, RegisterNoSubnet, NodeUpCallback, OnNodeUp, RegisterRollback,
         DeleteReleaseIP, DeleteReleaseSubnet, RegisterAllocateIP, HeartbeatRecovery,
         Heartbeat, Lapse, MarkDown, Sweep, vars, wgVars
<1>2. LeasesKept
  <2>1. GoesOn \/ UNCHANGED nodes
    BY DEF ConfiguresNothing, GoesOn, CheckerStep, RegisterRollback, DeleteReleaseIP,
           DeleteReleaseSubnet, RegisterAllocateIP
  <2> QED
    BY <2>1, LeasesGoOn
<1>3. PeersPending
  <2>1. CASE UNCHANGED th
    BY <2>1 DEF PeersPending
  <2>2. ASSUME NEW s \in Slots,
               \A t \in Slots : t # s => th'[t] = th[t],
               th[s].pc \notin DeleteSteps, th'[s].pc \notin DeleteSteps,
               th[s].pc # "reg_wg"
        PROVE  PeersPending
    BY <2>2 DEF PeersPending
  <2>3. ASSUME NEW s \in Slots,
               \A t \in Slots : t # s => th'[t] = th[t],
               th[s].pc \in DeleteSteps, th'[s].pc \in DeleteSteps, th'[s].ip = th[s].ip
        PROVE  PeersPending
    BY <2>3 DEF PeersPending, DeleteSteps
  <2>4. ASSUME NEW s \in Slots,
               \/ RegisterNoSubnet(s)
               \/ NodeUpCallback(s)
               \/ RegisterRollback(s)
        PROVE  PeersPending
    <3>1. /\ \A t \in Slots : t # s => th'[t] = th[t]
          /\ th'[s].pc \in {"reg_rollback", "idle"}
          /\ th[s].pc \in {"reg_subnet", "reg_rollback", "up"}
      BY <1>0, <2>4, Types DEF RegisterNoSubnet, NodeUpCallback, RegisterRollback,
                               IdleThread, Thread
    <3> QED
      BY <2>2, <3>1 DEF DeleteSteps
  <2>5. ASSUME NEW s \in Slots, NEW k \in Keys, RegisterAllocateIP(s, KeyOwner[k], k)
        PROVE  PeersPending
    <3>1. /\ \A t \in Slots : t # s => th'[t] = th[t]
          /\ th'[s].pc = "reg_subnet" /\ th[s].pc = "idle"
      BY <2>5, Types DEF RegisterAllocateIP, Idle
    <3> QED
      BY <2>2, <3>1 DEF DeleteSteps
  <2>6. ASSUME NEW s \in Slots, NEW n \in Nodes, HeartbeatRecovery(s, n)
        PROVE  PeersPending
    <3>1. /\ \A t \in Slots : t # s => th'[t] = th[t]
          /\ th'[s].pc = "up" /\ th[s].pc = "idle"
      BY <2>6, Types DEF HeartbeatRecovery, Idle, IdleThread
    <3> QED
      BY <2>2, <3>1 DEF DeleteSteps
  <2>7. ASSUME NEW s \in Slots, DeleteReleaseIP(s) \/ DeleteReleaseSubnet(s)
        PROVE  PeersPending
    <3>1. /\ \A t \in Slots : t # s => th'[t] = th[t]
          /\ th[s].pc \in {"del_subnet", "del_ip"} /\ th'[s].pc \in {"del_ip", "del_wg"}
          /\ th'[s].ip = th[s].ip
      BY <1>0, <2>7, Types DEF DeleteReleaseIP, DeleteReleaseSubnet, Thread
    <3> QED
      BY <2>3, <3>1 DEF DeleteSteps
  <2> QED
    BY <2>1, <2>4, <2>5, <2>6, <2>7
       DEF ConfiguresNothing, Heartbeat, Lapse, MarkDown, Sweep, vars
<1> QED
  BY <1>1, <1>2, <1>3

\* Every step, by what it configures.
LEMMA StepsOfThePeers ==
    ASSUME [Next]_vars
    PROVE  \/ ConfiguresNothing
           \/ \E s \in Slots : \/ RegisterInsert(s)
                               \/ RegisterAddWGPeer(s)
                               \/ RegisterAddBGPPeer(s)
                               \/ DeleteRemoveWGPeer(s)
                               \/ DeleteRemoveBGPPeer(s)
                               \/ DeleteNodeDownCallback(s)
                               \/ \E n \in Nodes : DeleteRecord(s, n)
           \/ MarkDownCallback
           \/ RestartCore
<1>1. ASSUME NEW s \in Slots, ThreadStep(s) \/ Request(s)
      PROVE  \/ ConfiguresNothing
             \/ RegisterInsert(s)
             \/ RegisterAddWGPeer(s)
             \/ RegisterAddBGPPeer(s)
             \/ DeleteRemoveWGPeer(s)
             \/ DeleteRemoveBGPPeer(s)
             \/ DeleteNodeDownCallback(s)
             \/ \E n \in Nodes : DeleteRecord(s, n)
  BY <1>1 DEF ThreadStep, Request, RegisterExisting, RegisterNoIP, ConfiguresNothing
<1> QED
  BY <1>1 DEF Next, CheckerStep, ConfiguresNothing

-----------------------------------------------------------------------------
(***************************************************************************)
(* The neighbours of nodes that are down, step by step.                    *)
(***************************************************************************)
LEMMA WithdrawnStay ==
    ASSUME LeaseTableInv, DownMeansWithdrawn, ConfiguresNothing
    PROVE  DownMeansWithdrawn'
<1> USE DEF LeaseTableInv
<1>1. UNCHANGED bgpPeers /\ LeasesKept
  BY ConfiguresNothingEffect
<1>2. DownMeansWithdrawn'
  <2>1. ASSUME NEW n \in Nodes, nodes'[n].state = "down", checker'.node # n
        PROVE  nodes[n].state = "down" /\ checker.node # n
    <3>0. nodes \in [Nodes -> NodeRecord] /\ checker \in CheckerState
      BY Types
    <3>1. CASE UNCHANGED <<nodes, checker>>
      BY <2>1, <3>1
    <3>2. ASSUME NEW m \in Nodes, nodes' = Refreshed(m), UNCHANGED checker
          PROVE  nodes[n].state = "down"
      <4>1. nodes[m] \in NodeRecord
        BY <3>0
      <4>2. /\ n # m => nodes'[n] = nodes[n]
            /\ nodes'[m] = [nodes[m] EXCEPT !.fresh = TRUE, !.state = "active"]
        BY <3>0, <3>2 DEF Refreshed
      <4> QED
        BY <2>1, <4>1, <4>2 DEF NodeRecord
    <3>3. ASSUME NEW m \in Nodes, Lapse(m)
          PROVE  nodes[n].state = "down" /\ UNCHANGED checker
      <4>1. nodes[m] \in NodeRecord
        BY <3>0
      <4>2. /\ n # m => nodes'[n] = nodes[n]
            /\ nodes'[m] = [nodes[m] EXCEPT !.fresh = FALSE]
            /\ UNCHANGED checker
        BY <3>0, <3>3 DEF Lapse
      <4> QED
        BY <2>1, <4>1, <4>2 DEF NodeRecord
    <3>4. ASSUME NEW m \in Nodes, MarkDown(m)
          PROVE  nodes[n].state = "down" /\ checker.node # n
      <4>1. checker.node = None
        BY <3>4 DEF MarkDown, HealthInv, VerdictsStand
      <4>2. CASE UNCHANGED nodes
        BY <2>1, <4>1, <4>2, NoneIsNoNode
      <4>3. CASE /\ nodes' = [nodes EXCEPT ![m].state = "down"]
                 /\ checker'.node = m
        BY <2>1, <3>0, <4>1, <4>3, NoneIsNoNode
      <4> QED
        BY <3>4, <4>2, <4>3 DEF MarkDown
    <3>5. CASE Sweep
      BY <2>1, <3>0, <3>5 DEF Sweep, CheckerState
    <3> QED
      BY <2>1, <3>1, <3>2, <3>3, <3>4, <3>5
         DEF ConfiguresNothing, RegisterNoSubnet, NodeUpCallback, RegisterRollback,
             DeleteReleaseIP, DeleteReleaseSubnet, RegisterAllocateIP, HeartbeatRecovery,
             Heartbeat, vars
  <2> QED
    BY <1>1, <2>1 DEF DownMeansWithdrawn, LeasesKept
<1> QED
  BY <1>2

\* The goroutine of a registration adds its neighbour, or GoBGP refuses it.
LEMMA WithdrawnWhenAdded ==
    ASSUME LeaseTableInv, DownMeansWithdrawn, NEW s \in Slots, RegisterAddBGPPeer(s)
    PROVE  DownMeansWithdrawn'
<1> USE DEF LeaseTableInv
<1>0. PICK n \in Nodes : n = th[s].node
  BY Types DEF RegisterAddBGPPeer, RegisterSteps
<1>1. /\ th[s].pc = "reg_bgp" /\ UNCHANGED <<nodes, checker>>
      /\ bgpPeers' \subseteq bgpPeers \cup {th[s].ip}
  BY DEF RegisterAddBGPPeer, AddBGPPeer
<1>2. /\ Registered(n) /\ nodes[n].wgIP = th[s].ip
      /\ nodes[n].state # "down"
  BY <1>0, <1>1 DEF CalmInv, SettlersMatch, SettlingSteps, HealthInv, SettlersAreWell,
                    Registered
<1>3. ASSUME NEW m \in Nodes, nodes[m].state = "down"
      PROVE  nodes[m].wgIP # th[s].ip
  <2>1. Registered(m) /\ m # n
    BY <1>2, <1>3 DEF Registered
  <2> QED
    BY <1>2, <2>1, LeasesAreDistinct DEF CalmInv
<1> QED
  BY <1>1, <1>3 DEF DownMeansWithdrawn

LEMMA WithdrawnStep ==
    ASSUME LeaseTableInv, DownMeansWithdrawn, [Next]_vars
    PROVE  DownMeansWithdrawn'
<1> USE DEF LeaseTableInv
<1>1. ASSUME NEW s \in Slots,
             \/ RegisterAddWGPeer(s)
             \/ DeleteRemoveWGPeer(s)
             \/ DeleteRemoveBGPPeer(s)
             \/ DeleteNodeDownCallback(s)
      PROVE  DownMeansWithdrawn'
  <2>1. UNCHANGED <<nodes, checker>> /\ bgpPeers' \subseteq bgpPeers
    BY <1>1 DEF RegisterAddWGPeer, DeleteRemoveWGPeer, DeleteRemoveBGPPeer,
                DeleteNodeDownCallback, RemoveBGPPeer, OnNodeDown
  <2> QED
    BY <2>1 DEF DownMeansWithdrawn
<1>2. ASSUME NEW s \in Slots, RegisterInsert(s)
      PROVE  DownMeansWithdrawn'
  <2>1. PICK n \in Nodes : n = th[s].node
    BY <1>2, InsertEffect
  <2>2. PICK sub \in SubnetIDs : Inserted(s, sub)
    BY <1>2, InsertEffect
  <2>3. /\ UNCHANGED <<bgpPeers, checker>> /\ nodes'[n].state = "pending"
        /\ \A m \in Nodes : m # n => nodes'[m] = nodes[m]
    BY <2>1, <2>2 DEF Inserted
  <2> QED
    BY <2>3 DEF DownMeansWithdrawn
<1>3. ASSUME NEW s \in Slots, NEW n \in Nodes, DeleteRecord(s, n)
      PROVE  DownMeansWithdrawn'
  <2>1. UNCHANGED <<bgpPeers, checker>>
    BY <1>3 DEF DeleteRecord
  <2>2. nodes'[n] = NoNode /\ \A m \in Nodes : m # n => nodes'[m] = nodes[m]
    BY <1>3, DeleteEffect
  <2> QED
    BY <2>1, <2>2 DEF DownMeansWithdrawn, NoNode
<1>4. CASE MarkDownCallback
  <2>1. /\ UNCHANGED nodes /\ bgpPeers' = bgpPeers \ {checker.ip}
        /\ Registered(checker.node) => checker.ip = nodes[checker.node].wgIP
    BY <1>4 DEF MarkDownCallback, RemoveBGPPeer, OnNodeDown, HealthInv, VerdictsStand
  <2> QED
    BY <2>1 DEF DownMeansWithdrawn, Registered
<1>5. CASE RestartCore
  BY <1>5 DEF RestartCore, DownMeansWithdrawn, NoNode
<1> QED
  BY <1>1, <1>2, <1>3, <1>4, <1>5, StepsOfThePeers, WithdrawnStay, WithdrawnWhenAdded

-----------------------------------------------------------------------------
(***************************************************************************)
(* The tunnels, step by step.                                              *)
(***************************************************************************)

\* Neither the interface nor the verdicts about it change, and no lease.
LEMMA TunnelsLeftAlone ==
    ASSUME TunnelInv, LeasesKept,
           UNCHANGED <<wgPeers, allowedIPs, wgErr>>,
           \A t \in Slots : th[t].pc = "reg_wg" => /\ th'[t].pc = "reg_wg"
                                                   /\ th'[t].node = th[t].node
    PROVE  TunnelInv'
<1>1. OnePeerPerPrefix'
  BY DEF TunnelInv, OnePeerPerPrefix
<1>2. \A n \in Nodes : InFlight(n, {"reg_wg"}) => InFlight(n, {"reg_wg"})'
  BY DEF InFlight
<1>3. TunnelsStand'
  BY <1>2 DEF TunnelInv, TunnelsStand, LeasesKept
<1> QED
  BY <1>1, <1>3 DEF TunnelInv

LEMMA TunnelsOfTheOthers ==
    ASSUME LeaseTableInv, TunnelInv,
           \/ ConfiguresNothing
           \/ \E s \in Slots : \/ RegisterAddBGPPeer(s)
                               \/ DeleteRemoveBGPPeer(s)
                               \/ DeleteNodeDownCallback(s)
           \/ MarkDownCallback
    PROVE  TunnelInv'
<1> USE DEF LeaseTableInv
<1>1. CASE ConfiguresNothing
  BY <1>1, ConfiguresNothingEffect, TunnelsLeftAlone DEF PeersPending
<1>2. ASSUME NEW s \in Slots,
             \/ RegisterAddBGPPeer(s)
             \/ DeleteRemoveBGPPeer(s)
             \/ DeleteNodeDownCallback(s)
      PROVE  TunnelInv'
  <2>1. UNCHANGED <<nodes, wgPeers, allowedIPs, wgErr>> /\ th[s].pc # "reg_wg"
    BY <1>2 DEF RegisterAddBGPPeer, DeleteRemoveBGPPeer, DeleteNodeDownCallback, wgVars
  <2>2. \A t \in Slots : t # s => th'[t] = th[t]
    BY <1>2, Types DEF RegisterAddBGPPeer, DeleteRemoveBGPPeer, DeleteNodeDownCallback
  <2>3. LeasesKept
    BY <2>1, LeasesGoOn
  <2> QED
    BY <2>1, <2>2, <2>3, TunnelsLeftAlone
<1>3. CASE MarkDownCallback
  <2>1. UNCHANGED <<nodes, th, wgPeers, allowedIPs, wgErr>>
    BY <1>3 DEF MarkDownCallback, wgVars
  <2>2. LeasesKept
    BY <2>1, LeasesGoOn
  <2> QED
    BY <2>1, <2>2, TunnelsLeftAlone
<1> QED
  BY <1>1, <1>2, <1>3

\* A registration configures its own tunnel and takes no prefix of another's.
LEMMA TunnelsGrow ==
    ASSUME LeaseTableInv, TunnelInv, NEW s \in Slots, RegisterAddWGPeer(s)
    PROVE  TunnelInv'
<1> USE DEF LeaseTableInv
<1>0. PICK n \in Nodes : n = th[s].node
  BY Types DEF RegisterAddWGPeer, RegisterSteps
<1>1. th[s].pc = "reg_wg" /\ UNCHANGED nodes
  BY DEF RegisterAddWGPeer
<1>2. th'[s].pc = "reg_bgp" /\ \A t \in Slots : t # s => th'[t] = th[t]
  BY Types DEF RegisterAddWGPeer, Thread
<1>3. /\ Registered(n) /\ nodes[n].key = th[s].key
      /\ nodes[n].wgIP = th[s].ip /\ nodes[n].subnet = th[s].subnet
      /\ th[s].key \in Keys
  BY <1>0, <1>1 DEF CalmInv, SettlersMatch, SettlingSteps, Registered, BookInv,
                    ThreadsOwnTheirKeys, BusySteps, RegisterSteps
<1>4. \A m \in Nodes : m # n /\ InFlight(m, {"reg_wg"}) => InFlight(m, {"reg_wg"})'
  BY <1>0, <1>2 DEF InFlight
<1>5. CASE UNCHANGED <<wgPeers, allowedIPs>> /\ wgErr' = wgErr \cup {n}
  <2>1. OnePeerPerPrefix'
    BY <1>5 DEF TunnelInv, OnePeerPerPrefix
  <2>2. TunnelsStand'
    BY <1>1, <1>4, <1>5 DEF TunnelInv, TunnelsStand, Registered
  <2> QED
    BY <2>1, <2>2 DEF TunnelInv
<1>6. CASE AddWGPeer(th[s].key, {Host(th[s].ip), Net(th[s].subnet)}) /\ UNCHANGED wgErr
  <2> DEFINE own == {Host(nodes[n].wgIP), Net(nodes[n].subnet)}
  <2>1. /\ wgPeers' = wgPeers \cup {nodes[n].key}
        /\ \A j \in Keys : allowedIPs'[j] = IF j = nodes[n].key THEN own
                                                               ELSE allowedIPs[j] \ own
    BY <1>3, <1>6 DEF AddWGPeer
  <2>2. OnePeerPerPrefix'
    <3>1. \A j, k \in Keys, p \in Prefixes :
            p \in allowedIPs'[j] /\ p \in allowedIPs'[k] => j = k
      <4> SUFFICES ASSUME NEW j \in Keys, NEW k \in Keys, NEW p \in Prefixes,
                          p \in allowedIPs'[j], p \in allowedIPs'[k]
                   PROVE  j = k
        OBVIOUS
      <4>1. CASE p \in own
        BY <2>1, <4>1
      <4>2. CASE p \notin own
        <5>1. p \in allowedIPs[j] /\ p \in allowedIPs[k]
          BY <2>1, <4>2
        <5> QED
          BY <5>1 DEF TunnelInv, OnePeerPerPrefix
      <4> QED
        BY <4>1, <4>2
    <3> QED
      BY <3>1 DEF OnePeerPerPrefix
  <2>3. ASSUME NEW m \in Nodes, Registered(m), m \notin wgErr,
               ~ InFlight(m, {"reg_wg"})'
        PROVE  /\ nodes[m].key \in wgPeers'
               /\ allowedIPs'[nodes[m].key] = {Host(nodes[m].wgIP), Net(nodes[m].subnet)}
    <3>1. CASE m = n
      BY <1>3, <2>1, <3>1
    <3>2. CASE m # n
      <4>1. /\ nodes[m].key \in wgPeers
            /\ allowedIPs[nodes[m].key] = {Host(nodes[m].wgIP), Net(nodes[m].subnet)}
        BY <1>4, <2>3, <3>2 DEF TunnelInv, TunnelsStand
      <4>2. nodes[m].key \in Keys /\ nodes[m].key # nodes[n].key
        BY <1>3, <2>3, <3>2 DEF BookInv, RecordsComplete
      <4>3. nodes[m].wgIP # nodes[n].wgIP /\ nodes[m].subnet # nodes[n].subnet
        BY <1>3, <2>3, <3>2, LeasesAreDistinct DEF CalmInv
      <4>4. Host(nodes[m].wgIP) \notin own /\ Net(nodes[m].subnet) \notin own
        BY <4>3 DEF Host, Net
      <4>5. allowedIPs'[nodes[m].key] = allowedIPs[nodes[m].key]
        BY <2>1, <4>1, <4>2, <4>4
      <4> QED
        BY <2>1, <4>1, <4>5
    <3> QED
      BY <3>1, <3>2
  <2>4. TunnelsStand'
    BY <1>1, <1>6, <2>3 DEF TunnelsStand, Registered
  <2> QED
    BY <2>2, <2>4 DEF TunnelInv
<1> QED
  BY <1>0, <1>5, <1>6 DEF RegisterAddWGPeer, wgVars

\* A removal takes only the peer of a node that is registered no more.
LEMMA TunnelsRemoved ==
    ASSUME LeaseTableInv, TunnelInv, NEW s \in Slots, DeleteRemoveWGPeer(s)
    PROVE  TunnelInv'
<1> USE DEF LeaseTableInv
<1>1. th[s].pc = "del_wg" /\ UNCHANGED <<nodes, wgErr>>
  BY DEF DeleteRemoveWGPeer
<1>2. \A t \in Slots : t # s => th'[t] = th[t]
  BY Types DEF DeleteRemoveWGPeer
<1>3. LeasesKept
  BY <1>1, LeasesGoOn
<1>4. CASE UNCHANGED <<wgPeers, allowedIPs>>
  BY <1>1, <1>2, <1>3, <1>4, TunnelsLeftAlone
<1>5. CASE RemoveWGPeer(th[s].key)
  <2>0. allowedIPs \in [Keys -> SUBSET Prefixes]
    BY DEF RegistryInv, TypeOK
  <2>1. /\ wgPeers' = wgPeers \ {th[s].key}
        /\ \A j \in Keys : /\ j # th[s].key => allowedIPs'[j] = allowedIPs[j]
                           /\ j = th[s].key => allowedIPs'[j] = {}
    BY <1>5, <2>0 DEF RemoveWGPeer
  <2>2. OnePeerPerPrefix'
    BY <2>1 DEF TunnelInv, OnePeerPerPrefix
  <2>3. \A m \in Nodes : Registered(m) => nodes[m].key \in Keys /\ nodes[m].key # th[s].key
    BY <1>1 DEF BookInv, RecordsComplete, ThreadsOwnTheirKeys, BusySteps, DeleteSteps,
                CalmInv, RemovedAreGone
  <2>4. \A m \in Nodes : InFlight(m, {"reg_wg"}) => InFlight(m, {"reg_wg"})'
    BY <1>1, <1>2 DEF InFlight
  <2>5. TunnelsStand'
    BY <1>1, <2>1, <2>3, <2>4 DEF TunnelInv, TunnelsStand, Registered
  <2> QED
    BY <2>2, <2>5 DEF TunnelInv
<1> QED
  BY <1>4, <1>5 DEF DeleteRemoveWGPeer, wgVars

\* A new record has yet to have its tunnel configured.
LEMMA TunnelsOfInsertion ==
    ASSUME LeaseTableInv, TunnelInv, NEW s \in Slots, RegisterInsert(s)
    PROVE  TunnelInv'
<1> USE DEF LeaseTableInv
<1>0. PICK n \in Nodes : n = th[s].node
  BY InsertEffect
<1>1. PICK sub \in SubnetIDs : Inserted(s, sub)
  BY InsertEffect
<1>2. /\ UNCHANGED <<wgPeers, allowedIPs, wgErr>> /\ th[s].pc = "reg_subnet"
      /\ \A m \in Nodes : m # n => nodes'[m] = nodes[m]
      /\ th'[s].pc = "reg_wg" /\ th'[s].node = n
      /\ \A t \in Slots : t # s => th'[t] = th[t]
  BY <1>0, <1>1 DEF Inserted, wgVars
<1>3. OnePeerPerPrefix'
  BY <1>2 DEF TunnelInv, OnePeerPerPrefix
<1>4. /\ InFlight(n, {"reg_wg"})'
      /\ \A m \in Nodes : InFlight(m, {"reg_wg"}) => InFlight(m, {"reg_wg"})'
  BY <1>2 DEF InFlight
<1>5. TunnelsStand'
  BY <1>2, <1>4 DEF TunnelInv, TunnelsStand, Registered
<1> QED
  BY <1>3, <1>5 DEF TunnelInv

LEMMA TunnelsOfRemoval ==
    ASSUME LeaseTableInv, TunnelInv,
           NEW s \in Slots, NEW n \in Nodes, DeleteRecord(s, n)
    PROVE  TunnelInv'
<1> USE DEF LeaseTableInv
<1>1. UNCHANGED <<wgPeers, allowedIPs>> /\ wgErr' = wgErr \ {n}
  BY DEF DeleteRecord, wgVars
<1>2. th[s].pc = "idle" /\ ~ Registered(n)'
  BY DeleteEffect
<1>3. \A m \in Nodes : m # n => nodes'[m] = nodes[m]
  BY DeleteEffect
<1>4. \A t \in Slots : t # s => th'[t] = th[t]
  BY DeleteEffect
<1>5. OnePeerPerPrefix'
  BY <1>1 DEF TunnelInv, OnePeerPerPrefix
<1>6. \A m \in Nodes : InFlight(m, {"reg_wg"}) => InFlight(m, {"reg_wg"})'
  BY <1>2, <1>4 DEF InFlight
<1>7. TunnelsStand'
  BY <1>1, <1>2, <1>3, <1>6 DEF TunnelInv, TunnelsStand, Registered
<1> QED
  BY <1>5, <1>7 DEF TunnelInv

\* A restarted core finds its old peers on the interface, and no record.
LEMMA TunnelsWhenBlank ==
    /\ Init => TunnelInv
    /\ TunnelInv /\ RestartCore => TunnelInv'
<1>1. Init => TunnelInv
  BY DEF Init, WGInit, TunnelInv, OnePeerPerPrefix, TunnelsStand, Registered, NoNode
<1>2. TunnelInv /\ RestartCore => TunnelInv'
  BY DEF RestartCore, wgVars, TunnelInv, OnePeerPerPrefix, TunnelsStand, Registered, NoNode
<1> QED
  BY <1>1, <1>2

LEMMA TunnelStep ==
    ASSUME LeaseTableInv, TunnelInv, [Next]_vars
    PROVE  TunnelInv'
BY StepsOfThePeers, TunnelsOfTheOthers, TunnelsGrow, TunnelsRemoved, TunnelsOfInsertion,
   TunnelsOfRemoval, TunnelsWhenBlank

-----------------------------------------------------------------------------
\* With calm requests the records, the books, the checker's verdicts, the
\* neighbours and the tunnels agree in every reachable state.
PeerInv == LeaseTableInv /\ DownMeansWithdrawn /\ TunnelInv

THEOREM PeersFollowTheRecords ==
    ASSUME RequestsOverlap = FALSE
    PROVE  Spec => []PeerInv
<1>1. /\ RegistryInv /\ BookInv /\ CalmInv /\ HealthInv /\ [Next]_vars => HealthInv'
      /\ Init => HealthInv
  BY HealthStep, InitIsBlank, HealthWhenBlank DEF Init
<1>2. Spec => []LeaseTableInv
  <2>1. RegistryInv /\ BookInv /\ CalmInv /\ HealthInv => LeaseTableInv
    BY DEF LeaseTableInv
  <2> QED
    BY <1>1, <2>1, RegistryInvariant, BooksInOrder, CalmInvariant, PTL DEF Spec
<1>3. /\ LeaseTableInv /\ DownMeansWithdrawn /\ [Next]_vars => DownMeansWithdrawn'
      /\ LeaseTableInv /\ TunnelInv /\ [Next]_vars => TunnelInv'
  BY WithdrawnStep, TunnelStep
<1>4. Init => DownMeansWithdrawn /\ TunnelInv
  BY TunnelsWhenBlank DEF Init, DownMeansWithdrawn, NoNode
<1>5. LeaseTableInv /\ DownMeansWithdrawn /\ TunnelInv => PeerInv
  BY DEF PeerInv
<1> QED
  BY <1>2, <1>3, <1>4, <1>5, PTL DEF Spec

\* Once the checker's callback has run, a down node has no BGP neighbour
\* (types.go, NodeStateDown: "routes withdrawn").
THEOREM DownNodesAreWithdrawn ==
    ASSUME RequestsOverlap = FALSE
    PROVE  Spec => []DownMeansWithdrawn
<1>1. PeerInv => DownMeansWithdrawn
  BY DEF PeerInv
<1> QED
  BY <1>1, PeersFollowTheRecords, PTL

\* The tunnel of a registered node leads to that node, unless the kernel
\* refused its peer (registry.go:295-309).
THEOREM TunnelsLeadToLessees ==
    ASSUME RequestsOverlap = FALSE
    PROVE  Spec => []TunnelLeadsToLessee
<1>1. PeerInv => TunnelLeadsToLessee
  <2>1. \A n \in Nodes : InFlight(n, {"reg_wg"}) => InFlight(n, RegisterSteps)
    BY DEF InFlight, RegisterSteps
  <2> QED
    BY <2>1 DEF PeerInv, TunnelInv, TunnelsStand, TunnelLeadsToLessee
<1> QED
  BY <1>1, PeersFollowTheRecords, PTL

\* A neighbour is lost to a removal, to the checker or with the core.
LEMMA LostNeighbours ==
    ASSUME RegistryInv, [Next]_vars, NEW ip, ip \in bgpPeers, ip \notin bgpPeers'
    PROVE  \/ \E s \in Slots : th[s].pc \in DeleteSteps /\ th[s].ip = ip
           \/ checker.pc = "callback" /\ checker.ip = ip
           \/ RestartCore
<1>1. ~ ConfiguresNothing
  BY ConfiguresNothingEffect
<1>2. ASSUME NEW s \in Slots,
             \/ RegisterInsert(s)
             \/ RegisterAddWGPeer(s)
             \/ RegisterAddBGPPeer(s)
             \/ DeleteRemoveWGPeer(s)
             \/ \E m \in Nodes : DeleteRecord(s, m)
      PROVE  FALSE
  BY <1>2 DEF RegisterInsert, RegisterAddWGPeer, RegisterAddBGPPeer, AddBGPPeer,
              DeleteRemoveWGPeer, DeleteRecord
<1>3. ASSUME NEW s \in Slots, DeleteRemoveBGPPeer(s) \/ DeleteNodeDownCallback(s)
      PROVE  th[s].pc \in DeleteSteps /\ th[s].ip = ip
  BY <1>3 DEF DeleteRemoveBGPPeer, DeleteNodeDownCallback, RemoveBGPPeer, OnNodeDown,
              DeleteSteps
<1>4. MarkDownCallback => checker.pc = "callback" /\ checker.ip = ip
  BY DEF MarkDownCallback, RemoveBGPPeer, OnNodeDown
<1> QED
  BY <1>1, <1>2, <1>3, <1>4, StepsOfThePeers

\* A withdrawal begins with a removal or with a verdict of the checker.
LEMMA WithdrawalsBegin ==
    ASSUME RegistryInv, BookInv, [Next]_vars, ~ RestartCore,
           NEW ip, ip \notin Withdrawing, ip \in Withdrawing'
    PROVE  \/ \E s \in Slots, m \in Nodes : DeleteRecord(s, m) /\ nodes[m].wgIP = ip
           \/ \E m \in Nodes : /\ Registered(m) /\ nodes[m].wgIP = ip
                              /\ checker'.node = m
<1>1. CASE checker'.pc = "callback" /\ checker'.ip = ip
  <2>1. ~ (UNCHANGED checker)
    BY <1>1 DEF Withdrawing
  <2>2. CheckerStep
    BY <2>1 DEF Next, ThreadStep, Request, RegisterInsert, RegisterNoSubnet,
                RegisterRollback, RegisterAddWGPeer, RegisterAddBGPPeer, NodeUpCallback,
                DeleteReleaseSubnet, DeleteReleaseIP, DeleteRemoveWGPeer,
                DeleteRemoveBGPPeer, DeleteNodeDownCallback, RegisterExisting,
                RegisterAllocateIP, RegisterNoIP, HeartbeatRecovery, DeleteRecord,
                Heartbeat, Lapse, vars
  <2>3. checker \in CheckerState
    BY Types
  <2>4. ~ Sweep /\ ~ MarkDownCallback
    BY <1>1, <2>3 DEF Sweep, MarkDownCallback, CheckerState
  <2>5. PICK m \in Nodes : MarkDown(m)
    BY <2>2, <2>4 DEF CheckerStep
  <2>6. /\ nodes[m].state \in {"pending", "active"}
        /\ checker'.node = m /\ nodes[m].wgIP = ip
    BY <1>1, <2>3, <2>5 DEF MarkDown, CheckerState
  <2> QED
    BY <2>6 DEF Registered
<1>2. CASE \E t \in Slots : th'[t].pc \in DeleteSteps /\ th'[t].ip = ip
  <2>1. PICK t \in Slots : th'[t].pc \in DeleteSteps /\ th'[t].ip = ip
    BY <1>2
  <2>2. ~ (th[t].pc \in DeleteSteps /\ th[t].ip = ip)
    BY DEF Withdrawing, Removing
  <2>3. ~ ThreadsMoveOn
    BY <2>1, <2>2 DEF ThreadsMoveOn
  <2>4. ASSUME NEW s \in Slots, NEW k \in Keys, RegisterAllocateIP(s, KeyOwner[k], k)
        PROVE  FALSE
    <3>1. th'[s].pc = "reg_subnet" /\ \A x \in Slots : x # s => th'[x] = th[x]
      BY <2>4, Types DEF RegisterAllocateIP
    <3> QED
      BY <2>1, <2>2, <3>1 DEF DeleteSteps
  <2>5. ASSUME NEW s \in Slots, RegisterInsert(s)
        PROVE  FALSE
    <3>1. th'[s].pc = "reg_wg" /\ \A x \in Slots : x # s => th'[x] = th[x]
      BY <2>5, InsertEffect DEF Inserted
    <3> QED
      BY <2>1, <2>2, <3>1 DEF DeleteSteps
  <2>6. PICK s \in Slots, m \in Nodes : DeleteRecord(s, m)
    BY <2>3, <2>4, <2>5, StepsOfTheBooks, MoveOn
  <2>7. /\ th'[s] = [pc |-> "del_subnet", node |-> m, key |-> nodes[m].key,
                     ip |-> nodes[m].wgIP, subnet |-> None]
        /\ \A x \in Slots : x # s => th'[x] = th[x]
    BY <2>6, DeleteEffect
  <2> QED
    BY <2>1, <2>2, <2>6, <2>7
<1> QED
  BY <1>1, <1>2 DEF Withdrawing, Removing

\* Whatever removals of an address's former lessee and callbacks of the checker
\* are under way, a node keeps its neighbour from the moment they are through,
\* until the checker's verdict on itself (registry.go:163, 394, 402, 407).
THEOREM NeighboursAreNotStolen ==
    ASSUME RequestsOverlap = FALSE
    PROVE  Spec => NeighbourNotStolen
<1> DEFINE Stays == \A n \in Nodes :
                      Registered(n) /\ Registered(n)' /\ nodes[n].wgIP \notin Withdrawing =>
                        /\ nodes[n].wgIP \in bgpPeers => nodes[n].wgIP \in bgpPeers'
                        /\ nodes[n].wgIP \in Withdrawing' => checker'.node = n
<1>1. RegistryInv /\ BookInv /\ CalmInv /\ [Next]_vars => [Stays]_vars
  <2> SUFFICES ASSUME RegistryInv, BookInv, CalmInv, [Next]_vars,
                      NEW n \in Nodes, Registered(n), Registered(n)',
                      nodes[n].wgIP \notin Withdrawing
               PROVE  /\ nodes[n].wgIP \in bgpPeers => nodes[n].wgIP \in bgpPeers'
                      /\ nodes[n].wgIP \in Withdrawing' => checker'.node = n
    OBVIOUS
  <2>0. PICK ip : ip = nodes[n].wgIP
    OBVIOUS
  <2>1. ~ RestartCore
    BY DEF RestartCore, Registered, NoNode
  <2>2. ip \in bgpPeers => ip \in bgpPeers'
    BY <2>0, <2>1, LostNeighbours DEF Withdrawing, Removing
  <2>3. ASSUME ip \in Withdrawing'
        PROVE  checker'.node = n
    <3>1. ASSUME NEW s \in Slots, NEW m \in Nodes, DeleteRecord(s, m), nodes[m].wgIP = ip
          PROVE  FALSE
      <4>1. Registered(m) /\ ~ Registered(m)'
        BY <3>1, DeleteEffect
      <4> QED
        BY <2>0, <3>1, <4>1, LeasesAreDistinct DEF CalmInv
    <3>2. PICK m \in Nodes : Registered(m) /\ nodes[m].wgIP = ip /\ checker'.node = m
      BY <2>0, <2>1, <2>3, <3>1, WithdrawalsBegin
    <3> QED
      BY <2>0, <3>2, LeasesAreDistinct DEF CalmInv
  <2> QED
    BY <2>0, <2>2, <2>3
<1> QED
  BY <1>1, RegistryInvariant, BooksInOrder, CalmInvariant, PTL
     DEF Spec, NeighbourNotStolen

\* Nothing but a refusal by the kernel costs a node its tunnel: where every
\* WireGuard change succeeds, an active node has its peer, so the promise of
\* registry.go:308 needs no heartbeat to re-add it, restarts included.
THEOREM OnlyTheKernelCostsATunnel ==
    ASSUME RequestsOverlap = FALSE, NetlinkFaults = FALSE
    PROVE  Spec => []HeartbeatRestoresTunnel
<1> DEFINE NoPeerFailed == wgErr = {}
<1>1. Init => NoPeerFailed
  BY DEF Init
<1>2. NoPeerFailed /\ [Next]_vars => NoPeerFailed'
  <2> SUFFICES ASSUME NoPeerFailed, [Next]_vars PROVE NoPeerFailed'
    OBVIOUS
  <2>1. ASSUME NEW s \in Slots, ThreadStep(s) PROVE NoPeerFailed'
    BY <2>1 DEF ThreadStep, RegisterInsert, RegisterNoSubnet, RegisterRollback,
                RegisterAddWGPeer, RegisterAddBGPPeer, NodeUpCallback, DeleteReleaseSubnet,
                DeleteReleaseIP, DeleteRemoveWGPeer, DeleteRemoveBGPPeer,
                DeleteNodeDownCallback
  <2>2. ASSUME NEW s \in Slots, Request(s) PROVE NoPeerFailed'
    BY <2>2 DEF Request, RegisterExisting, RegisterAllocateIP, RegisterNoIP,
                HeartbeatRecovery, DeleteRecord, vars
  <2>3. ASSUME NEW n \in Nodes, Heartbeat(n) \/ Lapse(n) PROVE NoPeerFailed'
    BY <2>3 DEF Heartbeat, Lapse
  <2>4. CASE CheckerStep
    BY <2>4 DEF CheckerStep, Sweep, MarkDown, MarkDownCallback
  <2>5. CASE RestartCore
    BY <2>5 DEF RestartCore
  <2>6. CASE UNCHANGED vars
    BY <2>6 DEF vars
  <2> QED
    BY <2>1, <2>2, <2>3, <2>4, <2>5, <2>6 DEF Next
<1>3. PeerInv /\ NoPeerFailed => HeartbeatRestoresTunnel
  <2> SUFFICES ASSUME PeerInv, NoPeerFailed, NEW n \in Nodes,
                      nodes[n].state = "active", ~ InFlight(n, RegisterSteps)
               PROVE  nodes[n].key \in wgPeers
    BY DEF HeartbeatRestoresTunnel
  <2>1. Registered(n)
    BY DEF Registered
  <2>2. ~ InFlight(n, {"reg_wg"})
    BY DEF InFlight, RegisterSteps
  <2> QED
    BY <2>1, <2>2 DEF PeerInv, TunnelInv, TunnelsStand
<1> QED
  BY <1>1, <1>2, <1>3, PeersFollowTheRecords, PTL DEF Spec

-----------------------------------------------------------------------------
(***************************************************************************)
(* Any interleaving: where a neighbour that belongs to no node comes from. *)
(***************************************************************************)

\* An address that is leased, or that a removal is about to withdraw.
Claimed(ip) ==
    \/ \E n \in Nodes : Registered(n) /\ nodes[n].wgIP = ip
    \/ \E t \in Slots : th[t].pc \in DeleteSteps /\ th[t].ip = ip

LEMMA GhostStep ==
    ASSUME RegistryInv, BookInv, [Next]_vars, NEW ip, ip \notin Ghosts, ip \in Ghosts'
    PROVE  \E s \in Slots : th[s].pc = "reg_bgp" /\ th'[s].pc = "up" /\ th[s].ip = ip
<1>1. ip \in bgpPeers => Claimed(ip)
  BY DEF Ghosts, Leased, Removing, Claimed
<1>2. /\ ip \in bgpPeers'
      /\ \A n \in Nodes : Registered(n)' => nodes'[n].wgIP # ip
      /\ \A t \in Slots : th'[t].pc \in DeleteSteps => th'[t].ip # ip
  BY DEF Ghosts, Leased, Removing, Registered
<1>3. ASSUME NEW s \in Slots, \A t \in Slots : t # s => th'[t] = th[t],
             ip \in bgpPeers, LeasesKept,
             th[s].pc \in DeleteSteps => th[s].ip # ip
      PROVE  FALSE
  BY <1>1, <1>2, <1>3 DEF Claimed, LeasesKept
<1>4. CASE ConfiguresNothing
  BY <1>1, <1>2, <1>4, ConfiguresNothingEffect DEF Claimed, LeasesKept, PeersPending
<1>5. ASSUME NEW s \in Slots, RegisterInsert(s)
      PROVE  FALSE
  <2>1. PICK n \in Nodes : n = th[s].node
    BY <1>5, InsertEffect
  <2>2. PICK sub \in SubnetIDs : Inserted(s, sub)
    BY <1>5, InsertEffect
  <2>3. ~ Registered(n)
    BY <1>5, <2>1, InsertEffect DEF Registered
  <2>4. /\ UNCHANGED bgpPeers /\ th[s].pc = "reg_subnet"
        /\ \A m \in Nodes : m # n => nodes'[m] = nodes[m]
        /\ \A t \in Slots : t # s => th'[t] = th[t]
    BY <2>1, <2>2 DEF Inserted
  <2> QED
    BY <1>1, <1>2, <2>3, <2>4 DEF Claimed, Registered, DeleteSteps
<1>6. ASSUME NEW s \in Slots, RegisterAddWGPeer(s) \/ DeleteRemoveWGPeer(s)
      PROVE  FALSE
  <2>1. UNCHANGED <<nodes, bgpPeers>>
    BY <1>6 DEF RegisterAddWGPeer, DeleteRemoveWGPeer
  <2>2. /\ \A t \in Slots : t # s => th'[t] = th[t]
        /\ th[s].pc \in DeleteSteps => th'[s].pc \in DeleteSteps /\ th'[s].ip = th[s].ip
    BY <1>6, Types DEF RegisterAddWGPeer, DeleteRemoveWGPeer, Thread, DeleteSteps
  <2> QED
    BY <1>1, <1>2, <2>1, <2>2 DEF Claimed, Registered
<1>7. ASSUME NEW s \in Slots, RegisterAddBGPPeer(s)
      PROVE  th[s].pc = "reg_bgp" /\ th'[s].pc = "up" /\ th[s].ip = ip
  <2>1. /\ UNCHANGED nodes /\ bgpPeers' \subseteq bgpPeers \cup {th[s].ip}
        /\ th[s].pc = "reg_bgp"
    BY <1>7 DEF RegisterAddBGPPeer, AddBGPPeer
  <2>2. th'[s].pc = "up" /\ \A t \in Slots : t # s => th'[t] = th[t]
    BY <1>7, Types DEF RegisterAddBGPPeer, Thread
  <2>3. LeasesKept
    BY <2>1, LeasesGoOn
  <2>4. ip \notin bgpPeers
    BY <1>3, <2>1, <2>2, <2>3 DEF DeleteSteps
  <2> QED
    BY <1>2, <2>1, <2>2, <2>4
<1>8. ASSUME NEW s \in Slots, DeleteRemoveBGPPeer(s) \/ DeleteNodeDownCallback(s)
      PROVE  FALSE
  <2>1. UNCHANGED nodes /\ bgpPeers' = bgpPeers \ {th[s].ip}
    BY <1>8 DEF DeleteRemoveBGPPeer, DeleteNodeDownCallback, RemoveBGPPeer, OnNodeDown
  <2>2. \A t \in Slots : t # s => th'[t] = th[t]
    BY <1>8, Types DEF DeleteRemoveBGPPeer, DeleteNodeDownCallback
  <2>3. LeasesKept
    BY <2>1, LeasesGoOn
  <2> QED
    BY <1>2, <1>3, <2>1, <2>2, <2>3
<1>9. ASSUME NEW s \in Slots, NEW n \in Nodes, DeleteRecord(s, n)
      PROVE  FALSE
  <2>1. UNCHANGED bgpPeers
    BY <1>9 DEF DeleteRecord
  <2>2. th[s].pc = "idle"
    BY <1>9, DeleteEffect
  <2>3. \A m \in Nodes : m # n => nodes'[m] = nodes[m]
    BY <1>9, DeleteEffect
  <2>4. th'[s] = [pc |-> "del_subnet", node |-> n, key |-> nodes[n].key,
                  ip |-> nodes[n].wgIP, subnet |-> None]
    BY <1>9, DeleteEffect
  <2>5. \A t \in Slots : t # s => th'[t] = th[t]
    BY <1>9, DeleteEffect
  <2>6. nodes[n].wgIP # ip
    BY <1>2, <2>4 DEF DeleteSteps
  <2> QED
    BY <1>1, <1>2, <2>1, <2>2, <2>3, <2>5, <2>6 DEF Claimed, Registered, DeleteSteps
<1>10. ~ MarkDownCallback
  <2> SUFFICES ASSUME MarkDownCallback PROVE FALSE
    OBVIOUS
  <2>1. UNCHANGED <<nodes, th>> /\ bgpPeers' \subseteq bgpPeers
    BY DEF MarkDownCallback, RemoveBGPPeer, OnNodeDown
  <2> QED
    BY <1>1, <1>2, <2>1 DEF Claimed, Registered
<1>11. ~ RestartCore
  BY <1>2 DEF RestartCore
<1> QED
  BY <1>4, <1>5, <1>6, <1>7, <1>8, <1>9, <1>10, <1>11, StepsOfThePeers

\* However requests overlap, a neighbour that belongs to no node comes from the
\* goroutine of a registration that adds it after the node was removed
\* (registry.go:312), and from nowhere else: no removal and no restart leaves
\* one behind (registry.go:402-407).
THEOREM GhostsComeFromLateAdds == Spec => GhostsAreLateAdds
<1> DEFINE Late == \A ip \in Ghosts' \ Ghosts :
         \E s \in Slots : th[s].pc = "reg_bgp" /\ th'[s].pc = "up" /\ th[s].ip = ip
<1>1. RegistryInv /\ BookInv /\ [Next]_vars => [Late]_vars
  BY GhostStep
<1> QED
  BY <1>1, RegistryInvariant, BooksInOrder, PTL DEF Spec, GhostsAreLateAdds
-----------------------------------------------------------------------------
(***************************************************************************)
(* Calm requests: every neighbour is leased, or on its way out.            *)
(***************************************************************************)

\* The address of a registration that has yet to add its neighbour is a
\* neighbour only as long as its former lessee is being removed.
SettlersAreUnknown ==
    \A s \in Slots : th[s].pc \in SettlingSteps =>
        th[s].ip \notin bgpPeers \/ th[s].ip \in Removing

NeighbourInv == NoGhostNeighbour /\ SettlersAreUnknown

\* A late addition is one after a removal, and no registration's node is
\* removed meanwhile.
LEMMA NoGhostStep ==
    ASSUME RegistryInv, BookInv, CalmInv, NoGhostNeighbour, [Next]_vars
    PROVE  NoGhostNeighbour'
<1> SUFFICES ASSUME NEW ip \in Ghosts' PROVE FALSE
  BY DEF NoGhostNeighbour
<1>1. PICK s \in Slots : th[s].pc = "reg_bgp" /\ th'[s].pc = "up" /\ th[s].ip = ip
  BY GhostStep DEF NoGhostNeighbour
<1>2. PICK n \in Nodes : Registered(n) /\ nodes[n].wgIP = ip
  BY <1>1, Types DEF RegisterSteps, CalmInv, SettlersMatch, SettlingSteps, Registered
<1>3. ASSUME NEW t \in Slots, RegisterInsert(t) PROVE FALSE
  <2>1. th'[t].pc = "reg_wg" /\ \A x \in Slots : x # t => th'[x] = th[x]
    BY <1>3, InsertEffect DEF Inserted
  <2> QED
    BY <1>1, <2>1
<1>4. ASSUME NEW t \in Slots, NEW m \in Nodes, DeleteRecord(t, m) PROVE FALSE
  <2>1. th'[t] = [pc |-> "del_subnet", node |-> m, key |-> nodes[m].key,
                  ip |-> nodes[m].wgIP, subnet |-> None]
    BY <1>4, DeleteEffect
  <2>2. \A x \in Slots : x # t => th'[x] = th[x]
    BY <1>4, DeleteEffect
  <2> QED
    BY <1>1, <2>1, <2>2
<1>5. ~ RestartCore
  BY <1>1 DEF RestartCore, IdleThread
<1>6. LeasesKept
  BY <1>3, <1>4, <1>5, LeasesChange
<1>7. Registered(n)' /\ nodes'[n].wgIP = ip
  BY <1>2, <1>6 DEF LeasesKept
<1> QED
  BY <1>7 DEF Ghosts, Leased, Registered

\* What a removal is about to withdraw stays so until it is withdrawn.
LEMMA RemovalsLast ==
    ASSUME RegistryInv, BookInv, [Next]_vars, NEW ip, ip \in Removing
    PROVE  ip \in Removing' \/ ip \notin bgpPeers'
<1>1. PICK t \in Slots : th[t].pc \in DeleteSteps /\ th[t].ip = ip
  BY DEF Removing
<1>2. ASSUME th'[t].pc \in DeleteSteps, th'[t].ip = ip
      PROVE  ip \in Removing'
  BY <1>2 DEF Removing
<1>3. CASE ConfiguresNothing
  BY <1>1, <1>2, <1>3, ConfiguresNothingEffect DEF PeersPending
<1>4. ASSUME NEW s \in Slots, RegisterInsert(s) PROVE ip \in Removing'
  <2>1. th[s].pc = "reg_subnet" /\ \A x \in Slots : x # s => th'[x] = th[x]
    BY <1>4, InsertEffect DEF Inserted
  <2> QED
    BY <1>1, <1>2, <2>1 DEF DeleteSteps
<1>5. ASSUME NEW s \in Slots, RegisterAddWGPeer(s) \/ RegisterAddBGPPeer(s)
      PROVE  ip \in Removing'
  <2>1. /\ th[s].pc \in {"reg_wg", "reg_bgp"}
        /\ \A x \in Slots : x # s => th'[x] = th[x]
    BY <1>5, Types DEF RegisterAddWGPeer, RegisterAddBGPPeer
  <2> QED
    BY <1>1, <1>2, <2>1 DEF DeleteSteps
<1>6. ASSUME NEW s \in Slots, DeleteRemoveWGPeer(s) \/ DeleteRemoveBGPPeer(s)
      PROVE  ip \in Removing'
  <2>1. /\ \A x \in Slots : x # s => th'[x] = th[x]
        /\ th'[s].pc \in DeleteSteps /\ th'[s].ip = th[s].ip
    BY <1>6, Types DEF DeleteRemoveWGPeer, DeleteRemoveBGPPeer, Thread, DeleteSteps
  <2> QED
    BY <1>1, <1>2, <2>1
<1>7. ASSUME NEW s \in Slots, DeleteNodeDownCallback(s)
      PROVE  ip \in Removing' \/ ip \notin bgpPeers'
  <2>1. /\ \A x \in Slots : x # s => th'[x] = th[x]
        /\ bgpPeers' = bgpPeers \ {th[s].ip}
    BY <1>7, Types DEF DeleteNodeDownCallback, OnNodeDown, RemoveBGPPeer
  <2> QED
    BY <1>1, <1>2, <2>1
<1>8. ASSUME NEW s \in Slots, NEW n \in Nodes, DeleteRecord(s, n)
      PROVE  ip \in Removing'
  <2>1. th[s].pc = "idle"
    BY <1>8, DeleteEffect
  <2>2. \A x \in Slots : x # s => th'[x] = th[x]
    BY <1>8, DeleteEffect
  <2> QED
    BY <1>1, <1>2, <2>1, <2>2 DEF DeleteSteps
<1>9. MarkDownCallback => ip \in Removing'
  BY <1>1, <1>2 DEF MarkDownCallback
<1>10. RestartCore => ip \notin bgpPeers'
  BY DEF RestartCore
<1> QED
  BY <1>3, <1>4, <1>5, <1>6, <1>7, <1>8, <1>9, <1>10, StepsOfThePeers

\* Only a registration adds a neighbour.
LEMMA NewNeighbours ==
    ASSUME RegistryInv, [Next]_vars, NEW ip, ip \notin bgpPeers, ip \in bgpPeers'
    PROVE  \E s \in Slots : RegisterAddBGPPeer(s) /\ th[s].ip = ip
<1>1. ~ ConfiguresNothing /\ ~ RestartCore /\ ~ MarkDownCallback
  BY ConfiguresNothingEffect DEF RestartCore, MarkDownCallback, OnNodeDown, RemoveBGPPeer
<1>2. ASSUME NEW s \in Slots,
             \/ RegisterInsert(s)
             \/ RegisterAddWGPeer(s)
             \/ DeleteRemoveWGPeer(s)
             \/ DeleteRemoveBGPPeer(s)
             \/ DeleteNodeDownCallback(s)
             \/ \E n \in Nodes : DeleteRecord(s, n)
      PROVE  FALSE
  BY <1>2 DEF RegisterInsert, RegisterAddWGPeer, DeleteRemoveWGPeer, DeleteRecord,
              DeleteRemoveBGPPeer, DeleteNodeDownCallback, OnNodeDown, RemoveBGPPeer
<1>3. \A s \in Slots : RegisterAddBGPPeer(s) => th[s].ip = ip
  BY DEF RegisterAddBGPPeer, AddBGPPeer
<1> QED
  BY <1>1, <1>2, <1>3, StepsOfThePeers

\* The address of a registration after its insertion is the record's.
LEMMA SettlersLease ==
    ASSUME RegistryInv, CalmInv, NEW t \in Slots, th[t].pc \in SettlingSteps
    PROVE  /\ th[t].node \in Nodes
           /\ Registered(th[t].node)
           /\ nodes[th[t].node].wgIP = th[t].ip
BY SettlersAreNodes DEF CalmInv, SettlersMatch

LEMMA SettlersAreUnknownStep ==
    ASSUME RegistryInv, BookInv, CalmInv, NeighbourInv, [Next]_vars
    PROVE  SettlersAreUnknown'
<1> SUFFICES ASSUME NEW t \in Slots, th'[t].pc \in SettlingSteps, th'[t].ip \in bgpPeers'
             PROVE  th'[t].ip \in Removing'
  BY DEF SettlersAreUnknown
<1>0. PICK ip : ip = th'[t].ip
  OBVIOUS
<1>1. CASE RegisterInsert(t)
  <2>1. PICK n \in Nodes : n = th[t].node
    BY <1>1, InsertEffect
  <2>2. /\ UNCHANGED bgpPeers /\ th[t].ip = ip /\ th[t].pc = "reg_subnet"
        /\ ip \in IPs /\ ~ Registered(n)
    BY <1>0, <1>1, <2>1, InsertEffect DEF Inserted, Registered
  <2>3. ASSUME NEW m \in Nodes, Registered(m), nodes[m].wgIP = ip
        PROVE  FALSE
    <3>1. assigned[m] = ip /\ assigned[n] = ip /\ m # n
      BY <2>1, <2>2, <2>3 DEF CalmInv, LeaseIsBooked, NewcomersAreBooked, PendingSteps
    <3> QED
      BY <2>2, <3>1, NoneIsNoIP DEF RegistryInv, AddressesConserved, AssignedOnce
  <2>4. ip \in Removing
    BY <1>0, <2>2, <2>3 DEF NeighbourInv, NoGhostNeighbour, Ghosts, Leased
  <2> QED
    BY <1>0, <2>4, RemovalsLast
<1>2. ASSUME th[t].pc \in SettlingSteps, th[t].ip = ip
      PROVE  ip \in Removing'
  <2>1. CASE ip \in Removing
    BY <1>0, <2>1, RemovalsLast
  <2>2. CASE ip \notin bgpPeers
    <3>1. PICK s \in Slots : RegisterAddBGPPeer(s) /\ th[s].ip = ip
      BY <1>0, <2>2, NewNeighbours
    <3>2. th[s].pc = "reg_bgp" /\ th'[s].pc = "up"
      BY <3>1, Types DEF RegisterAddBGPPeer, Thread
    <3>3. s # t
      BY <3>2 DEF SettlingSteps
    <3>4. th[s].node # th[t].node
      BY <1>2, <3>2, <3>3, PendingOrSettling
         DEF CalmInv, OneRegistrationEach, SettlingSteps
    <3>5. th[s].pc \in SettlingSteps
      BY <3>2 DEF SettlingSteps
    <3>6. /\ th[s].node \in Nodes /\ Registered(th[s].node)
          /\ nodes[th[s].node].wgIP = ip
      BY <3>1, <3>5, SettlersLease
    <3>7. /\ th[t].node \in Nodes /\ Registered(th[t].node)
          /\ nodes[th[t].node].wgIP = ip
      BY <1>2, SettlersLease
    <3> QED
      BY <3>4, <3>6, <3>7, LeasesAreDistinct DEF CalmInv
  <2> QED
    BY <1>2, <2>1, <2>2 DEF NeighbourInv, SettlersAreUnknown
<1>3. ASSUME NEW s \in Slots, s # t, \A x \in Slots : x # s => th'[x] = th[x]
      PROVE  ip \in Removing'
  BY <1>0, <1>2, <1>3
<1>4. CASE ThreadsMoveOn
  BY <1>0, <1>2, <1>4 DEF ThreadsMoveOn
<1>5. ASSUME NEW s \in Slots, NEW k \in Keys, RegisterAllocateIP(s, KeyOwner[k], k)
      PROVE  ip \in Removing'
  <2>1. th'[s].pc = "reg_subnet" /\ \A x \in Slots : x # s => th'[x] = th[x]
    BY <1>5, Types DEF RegisterAllocateIP
  <2> QED
    BY <1>3, <2>1 DEF SettlingSteps
<1>6. ASSUME NEW s \in Slots, s # t, RegisterInsert(s)
      PROVE  ip \in Removing'
  <2>1. \A x \in Slots : x # s => th'[x] = th[x]
    BY <1>6, InsertEffect DEF Inserted
  <2> QED
    BY <1>3, <1>6, <2>1
<1>7. ASSUME NEW s \in Slots, NEW n \in Nodes, DeleteRecord(s, n)
      PROVE  ip \in Removing'
  <2>1. th'[s] = [pc |-> "del_subnet", node |-> n, key |-> nodes[n].key,
                  ip |-> nodes[n].wgIP, subnet |-> None]
    BY <1>7, DeleteEffect
  <2>2. \A x \in Slots : x # s => th'[x] = th[x]
    BY <1>7, DeleteEffect
  <2> QED
    BY <1>3, <2>1, <2>2 DEF SettlingSteps
<1>8. ~ RestartCore
  BY DEF RestartCore
<1> QED
  BY <1>0, <1>1, <1>4, <1>5, <1>6, <1>7, <1>8, StepsOfTheBooks, MoveOn

\* With calm requests every BGP neighbour is leased or being removed.
THEOREM NeighboursAreLeased ==
    ASSUME RequestsOverlap = FALSE
    PROVE  Spec => []NeighbourInv
<1>1. Init => NeighbourInv
  BY DEF Init, IdleThread, SettlingSteps, NeighbourInv, NoGhostNeighbour,
         SettlersAreUnknown, Ghosts
<1>2. RegistryInv /\ BookInv /\ CalmInv /\ NeighbourInv /\ [Next]_vars => NeighbourInv'
  BY NoGhostStep, SettlersAreUnknownStep DEF NeighbourInv
<1> QED
  BY <1>1, <1>2, RegistryInvariant, BooksInOrder, CalmInvariant, PTL DEF Spec
=============================================================================
