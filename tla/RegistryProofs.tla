--------------------------- MODULE RegistryProofs ---------------------------
(***************************************************************************)
(* What holds of the registry for every set of nodes, keys and goroutines, *)
(* every pool size, and every interleaving of requests, checker and        *)
(* restarts: type correctness, ownership of the lock, and conservation of  *)
(* the tunnel addresses.                                                   *)
(***************************************************************************)
EXTENDS Registry, SubnetAllocatorProofs, WGIPAllocatorProofs

\* A goroutine in the middle of a handler carries what its next steps use.
ThreadsEquipped ==
    \A s \in Slots :
        /\ th[s].pc # "idle" => th[s].node \in Nodes
        /\ th[s].pc \in RegisterSteps => th[s].key \in Keys /\ th[s].ip \in IPs
        /\ th[s].pc = "reg_wg" => th[s].subnet \in SubnetIDs

\* The inductive invariant.
RegistryInv ==
    /\ TypeOK
    /\ ThreadsEquipped
    /\ CriticalSectionOwnsLock
    /\ AddressesConserved

\* The core starts in it.
LEMMA RegistryInit == Init => RegistryInv
<1> SUFFICES ASSUME Init PROVE RegistryInv
  OBVIOUS
<1>1. WGIPInv
  BY WGIPInitInv DEF Init
<1>2. TypeOK
  <2>1. IdleThread \in Thread
    BY DEF IdleThread, Thread
  <2>2. NoNode \in NodeRecord
    BY DEF NoNode, NodeRecord, NodeStates
  <2>3. IdleChecker \in CheckerState
    BY DEF IdleChecker, CheckerState
  <2>4. SubnetTypeOK
    BY DEF Init, SubnetInit, SubnetTypeOK
  <2> QED
    BY <1>1, <2>1, <2>2, <2>3, <2>4 DEF Init, TypeOK, WGInit, WGIPInv
<1>3. ThreadsEquipped
  BY DEF Init, ThreadsEquipped, IdleThread, RegisterSteps
<1>4. CriticalSectionOwnsLock
  BY NoneIsNothing DEF Init, CriticalSectionOwnsLock, IdleThread
<1> QED
  BY <1>1, <1>2, <1>3, <1>4 DEF RegistryInv, WGIPInv

\* The allocators' part of the invariant, step by step.
AllocatorsInv == WGIPInv /\ SubnetTypeOK

LEMMA RegistryInvGivesAllocators == RegistryInv => AllocatorsInv
BY DEF RegistryInv, AllocatorsInv, WGIPInv, TypeOK

LEMMA AllocatorsUnchanged ==
    ASSUME AllocatorsInv, UNCHANGED allocVars
    PROVE  AllocatorsInv'
BY DEF AllocatorsInv, allocVars, WGIPInv, WGIPTypeOK, AddressesConserved,
       PoolHasNoDuplicates, PooledIsUnassigned, AssignedOnce, NoAddressLost,
       SubnetTypeOK

LEMMA WGIPUnchanged ==
    ASSUME WGIPInv, UNCHANGED wgipVars
    PROVE  WGIPInv'
BY DEF wgipVars, WGIPInv, WGIPTypeOK, AddressesConserved,
       PoolHasNoDuplicates, PooledIsUnassigned, AssignedOnce, NoAddressLost

\* The registry uses the allocators only through their operations, so what
\* they guarantee holds of the whole system.
LEMMA AllocatorsStep ==
    ASSUME RegistryInv, Next
    PROVE  AllocatorsInv'
<1>0. AllocatorsInv
  BY RegistryInvGivesAllocators
<1>1. ASSUME NEW s \in Slots, ThreadStep(s)
      PROVE  AllocatorsInv'
  <2>0. th[s].pc # "idle" => th[s].node \in Nodes
    BY DEF RegistryInv, ThreadsEquipped
  <2>1. CASE RegisterInsert(s)
    <3>1. PICK sub \in SubnetIDs : AllocateSubnet(th[s].node, sub)
      BY <2>1 DEF RegisterInsert
    <3>2. th[s].node \in Nodes
      BY <2>0, <2>1 DEF RegisterInsert
    <3>3. SubnetNext
      BY <3>1, <3>2 DEF SubnetNext
    <3>4. SubnetTypeOK'
      BY <1>0, <3>3, SubnetStepKeepsType DEF AllocatorsInv
    <3>5. WGIPInv'
      BY <1>0, <2>1, WGIPUnchanged DEF RegisterInsert, AllocatorsInv
    <3> QED
      BY <3>4, <3>5 DEF AllocatorsInv
  <2>2. CASE RegisterRollback(s) \/ DeleteReleaseIP(s)
    <3>1. th[s].node \in Nodes
      BY <2>0, <2>2 DEF RegisterRollback, DeleteReleaseIP
    <3>2. ReleaseWGIP(th[s].node) /\ UNCHANGED subnets
      BY <2>2 DEF RegisterRollback, DeleteReleaseIP
    <3>3. WGIPInv'
      BY <1>0, <3>1, <3>2, ReleaseKeepsInv DEF AllocatorsInv
    <3> QED
      BY <1>0, <3>2, <3>3 DEF AllocatorsInv, SubnetTypeOK
  <2>3. CASE DeleteReleaseSubnet(s)
    <3>1. th[s].node \in Nodes
      BY <2>0, <2>3 DEF DeleteReleaseSubnet
    <3>2. SubnetNext
      BY <2>3, <3>1 DEF DeleteReleaseSubnet, SubnetNext
    <3>3. SubnetTypeOK'
      BY <1>0, <3>2, SubnetStepKeepsType DEF AllocatorsInv
    <3>4. WGIPInv'
      BY <1>0, <2>3, WGIPUnchanged DEF DeleteReleaseSubnet, AllocatorsInv
    <3> QED
      BY <3>3, <3>4 DEF AllocatorsInv
  <2>4. CASE UNCHANGED allocVars
    BY <1>0, <2>4, AllocatorsUnchanged
  <2> QED
    BY <1>1, <2>1, <2>2, <2>3, <2>4
       DEF ThreadStep, RegisterNoSubnet, RegisterAddWGPeer, RegisterAddBGPPeer,
           NodeUpCallback, DeleteRemoveWGPeer, DeleteRemoveBGPPeer,
           DeleteNodeDownCallback
<1>2. ASSUME NEW s \in Slots, Request(s)
      PROVE  AllocatorsInv'
  <2>1. ASSUME NEW k \in Keys, RegisterAllocateIP(s, KeyOwner[k], k)
        PROVE  AllocatorsInv'
    <3>1. KeyOwner[k] \in Nodes
      BY KeyOwnerIsFunction
    <3>2. PICK ip \in IPs : AllocateWGIP(KeyOwner[k], ip)
      BY <2>1 DEF RegisterAllocateIP
    <3>3. WGIPInv'
      BY <1>0, <3>1, <3>2, AllocateKeepsInv DEF AllocatorsInv
    <3> QED
      BY <1>0, <2>1, <3>3 DEF AllocatorsInv, RegisterAllocateIP, SubnetTypeOK
  <2>2. CASE UNCHANGED allocVars
    BY <1>0, <2>2, AllocatorsUnchanged
  <2> QED
    BY <1>2, <2>1, <2>2
       DEF Request, RegisterExisting, RegisterNoIP, HeartbeatRecovery, DeleteRecord,
           vars, allocVars
<1>3. CASE RestartCore
  <2>1. WGIPInit'
    BY <1>3 DEF RestartCore, WGIPInit
  <2>2. WGIPInit' => WGIPInv'
    BY WGIPInitInv, PTL
  <2>3. SubnetTypeOK'
    BY <1>3 DEF RestartCore, SubnetTypeOK
  <2> QED
    BY <2>1, <2>2, <2>3 DEF AllocatorsInv
<1>4. CASE UNCHANGED allocVars
  BY <1>0, <1>4, AllocatorsUnchanged
<1> QED
  BY <1>1, <1>2, <1>3, <1>4
     DEF Next, Heartbeat, Lapse, CheckerStep, Sweep, MarkDown, MarkDownCallback

-----------------------------------------------------------------------------
\* The variables that are not the allocators'.
OtherTypesOK ==
    /\ nodes \in [Nodes -> NodeRecord]
    /\ mu \in Slots \cup {None}
    /\ th \in [Slots -> Thread]
    /\ wgPeers \in SUBSET Keys
    /\ allowedIPs \in [Keys -> SUBSET Prefixes]
    /\ bgpPeers \in SUBSET IPs
    /\ checker \in CheckerState
    /\ wgErr \in SUBSET Nodes

\* What a step of the handlers must re-establish besides the allocators.
HandlersInv == OtherTypesOK /\ ThreadsEquipped /\ CriticalSectionOwnsLock

LEMMA HandlersUnchanged ==
    ASSUME HandlersInv,
           UNCHANGED <<nodes, mu, th, wgVars, bgpPeers, checker, wgErr>>
    PROVE  HandlersInv'
BY DEF HandlersInv, OtherTypesOK, ThreadsEquipped, CriticalSectionOwnsLock, wgVars

\* The steps of handleRegister and of the goroutine it leaves behind.
LEMMA RegisterStep ==
    ASSUME HandlersInv, NEW s \in Slots,
           \/ RegisterInsert(s)
           \/ RegisterNoSubnet(s)
           \/ RegisterRollback(s)
           \/ RegisterAddWGPeer(s)
           \/ RegisterAddBGPPeer(s)
           \/ NodeUpCallback(s)
    PROVE  HandlersInv'
<1> USE DEF HandlersInv
<1>0. th[s].pc # "idle" => th[s].node \in Nodes
  BY DEF ThreadsEquipped
<1>1. CASE RegisterInsert(s)
  <2>1. PICK sub \in SubnetIDs :
          /\ nodes' = [nodes EXCEPT ![th[s].node] =
                [state |-> "pending", key |-> th[s].key, wgIP |-> th[s].ip,
                 subnet |-> sub, fresh |-> TRUE]]
          /\ th' = [th EXCEPT ![s] = [@ EXCEPT !.pc = "reg_wg", !.subnet = sub]]
    BY <1>1 DEF RegisterInsert
  <2>2. th[s].key \in Keys /\ th[s].ip \in IPs
    BY <1>1 DEF RegisterInsert, ThreadsEquipped, RegisterSteps
  <2> DEFINE next == [th[s] EXCEPT !.pc = "reg_wg", !.subnet = sub]
             record == [state |-> "pending", key |-> th[s].key, wgIP |-> th[s].ip,
                        subnet |-> sub, fresh |-> TRUE]
  <2>3. /\ th[s].pc = "reg_subnet" /\ mu' = None
        /\ UNCHANGED <<wgVars, bgpPeers, checker, wgErr>>
    BY <1>1 DEF RegisterInsert
  <2>4. th[s] \in Thread /\ th[s].node \in Nodes
    BY <1>0, <2>3 DEF OtherTypesOK
  <2>5. /\ next \in Thread /\ next.pc = "reg_wg" /\ next.subnet = sub
        /\ next.node = th[s].node /\ next.key = th[s].key /\ next.ip = th[s].ip
    BY <2>4 DEF Thread, RegisterSteps
  <2>6. /\ th' \in [Slots -> Thread]
        /\ \A t \in Slots : th'[t] = IF t = s THEN next ELSE th[t]
    BY <2>1, <2>5 DEF OtherTypesOK
  <2>7. record \in NodeRecord
    BY <2>2 DEF NodeRecord, NodeStates
  <2>8. OtherTypesOK'
    <3>1. nodes' \in [Nodes -> NodeRecord]
      BY <2>1, <2>7 DEF OtherTypesOK
    <3> QED
      BY <2>3, <2>6, <3>1 DEF OtherTypesOK, wgVars
  <2>9. ThreadsEquipped'
    BY <2>2, <2>4, <2>5, <2>6 DEF ThreadsEquipped
  <2>10. CriticalSectionOwnsLock'
    <3>1. \A t \in Slots : t # s => th[t].pc \notin {"reg_subnet", "reg_rollback"}
      BY <2>3 DEF CriticalSectionOwnsLock
    <3> QED
      BY <2>3, <2>5, <2>6, <3>1, NoneIsNothing DEF CriticalSectionOwnsLock
  <2> QED
    BY <2>8, <2>9, <2>10
<1>2. CASE RegisterNoSubnet(s)
  <2>1. OtherTypesOK'
    BY <1>2 DEF RegisterNoSubnet, OtherTypesOK, Thread, RegisterSteps, wgVars
  <2>2. ThreadsEquipped'
    BY <1>2 DEF RegisterNoSubnet, ThreadsEquipped, OtherTypesOK, Thread, RegisterSteps
  <2>3. CriticalSectionOwnsLock'
    BY <1>2 DEF RegisterNoSubnet, CriticalSectionOwnsLock, OtherTypesOK, Thread
  <2> QED
    BY <2>1, <2>2, <2>3
<1>3. CASE RegisterRollback(s)
  <2>1. OtherTypesOK'
    BY <1>3 DEF RegisterRollback, OtherTypesOK, Thread, IdleThread, wgVars
  <2>2. ThreadsEquipped'
    BY <1>3 DEF RegisterRollback, ThreadsEquipped, OtherTypesOK, IdleThread, RegisterSteps
  <2>3. CriticalSectionOwnsLock'
    BY <1>3, NoneIsNothing
       DEF RegisterRollback, CriticalSectionOwnsLock, OtherTypesOK, IdleThread
  <2> QED
    BY <2>1, <2>2, <2>3
<1>4. CASE RegisterAddWGPeer(s)
  <2>1. th[s].key \in Keys /\ th[s].ip \in IPs /\ th[s].subnet \in SubnetIDs
    BY <1>4 DEF RegisterAddWGPeer, ThreadsEquipped, RegisterSteps
  <2>2. {Host(th[s].ip), Net(th[s].subnet)} \in SUBSET Prefixes
    BY <2>1 DEF Prefixes
  <2>3. wgPeers' \in SUBSET Keys /\ allowedIPs' \in [Keys -> SUBSET Prefixes]
    <3>1. CASE AddWGPeer(th[s].key, {Host(th[s].ip), Net(th[s].subnet)})
      BY <3>1, <2>1, <2>2 DEF AddWGPeer, OtherTypesOK
    <3>2. CASE UNCHANGED wgVars
      BY <3>2 DEF wgVars, OtherTypesOK
    <3> QED
      BY <3>1, <3>2, <1>4 DEF RegisterAddWGPeer
  <2>4. OtherTypesOK'
    BY <1>4, <2>3, <1>0
       DEF RegisterAddWGPeer, OtherTypesOK, Thread, RegisterSteps, ThreadsEquipped
  <2>5. ThreadsEquipped'
    BY <1>4 DEF RegisterAddWGPeer, ThreadsEquipped, OtherTypesOK, Thread, RegisterSteps
  <2>6. CriticalSectionOwnsLock'
    BY <1>4 DEF RegisterAddWGPeer, CriticalSectionOwnsLock, OtherTypesOK, Thread
  <2> QED
    BY <2>4, <2>5, <2>6
<1>5. CASE RegisterAddBGPPeer(s)
  <2>1. th[s].ip \in IPs
    BY <1>5 DEF RegisterAddBGPPeer, ThreadsEquipped, RegisterSteps
  <2>2. OtherTypesOK'
    BY <1>5, <2>1 DEF RegisterAddBGPPeer, AddBGPPeer, OtherTypesOK, Thread, wgVars
  <2>3. ThreadsEquipped'
    BY <1>5 DEF RegisterAddBGPPeer, ThreadsEquipped, OtherTypesOK, Thread, RegisterSteps
  <2>4. CriticalSectionOwnsLock'
    BY <1>5 DEF RegisterAddBGPPeer, CriticalSectionOwnsLock, OtherTypesOK, Thread
  <2> QED
    BY <2>2, <2>3, <2>4
<1>6. CASE NodeUpCallback(s)
  <2>1. OtherTypesOK'
    BY <1>6 DEF NodeUpCallback, OnNodeUp, OtherTypesOK, Thread, IdleThread, wgVars
  <2>2. ThreadsEquipped'
    BY <1>6 DEF NodeUpCallback, ThreadsEquipped, OtherTypesOK, IdleThread, RegisterSteps
  <2>3. CriticalSectionOwnsLock'
    BY <1>6 DEF NodeUpCallback, CriticalSectionOwnsLock, OtherTypesOK, IdleThread
  <2> QED
    BY <2>1, <2>2, <2>3
<1> QED
  BY <1>1, <1>2, <1>3, <1>4, <1>5, <1>6

\* The steps of handleDeleteNode after its unlock.
LEMMA DeleteStep ==
    ASSUME HandlersInv, NEW s \in Slots,
           \/ DeleteReleaseSubnet(s)
           \/ DeleteReleaseIP(s)
           \/ DeleteRemoveWGPeer(s)
           \/ DeleteRemoveBGPPeer(s)
           \/ DeleteNodeDownCallback(s)
    PROVE  HandlersInv'
<1> USE DEF HandlersInv
<1>1. \/ th' = [th EXCEPT ![s].pc = "del_ip"]
      \/ th' = [th EXCEPT ![s].pc = "del_wg"]
      \/ th' = [th EXCEPT ![s].pc = "del_bgp"]
      \/ th' = [th EXCEPT ![s].pc = "del_down"]
      \/ th' = [th EXCEPT ![s] = IdleThread]
  BY DEF DeleteReleaseSubnet, DeleteReleaseIP, DeleteRemoveWGPeer,
         DeleteRemoveBGPPeer, DeleteNodeDownCallback
<1>2. th[s].pc \in DeleteSteps /\ UNCHANGED <<nodes, mu, checker, wgErr>>
  BY DEF DeleteReleaseSubnet, DeleteReleaseIP, DeleteRemoveWGPeer,
         DeleteRemoveBGPPeer, DeleteNodeDownCallback, DeleteSteps
<1>3. /\ wgPeers' \in SUBSET Keys
      /\ allowedIPs' \in [Keys -> SUBSET Prefixes]
      /\ bgpPeers' \in SUBSET IPs
  BY DEF DeleteReleaseSubnet, DeleteReleaseIP, DeleteRemoveWGPeer, RemoveWGPeer,
         DeleteRemoveBGPPeer, DeleteNodeDownCallback, OnNodeDown, RemoveBGPPeer,
         wgVars, OtherTypesOK
<1>4. th' \in [Slots -> Thread]
  BY <1>1 DEF OtherTypesOK, Thread, DeleteSteps, IdleThread
<1>5. OtherTypesOK'
  BY <1>2, <1>3, <1>4 DEF OtherTypesOK
<1>6. ThreadsEquipped'
  BY <1>1, <1>2
     DEF ThreadsEquipped, OtherTypesOK, Thread, DeleteSteps, RegisterSteps, IdleThread
<1>7. CriticalSectionOwnsLock'
  BY <1>1, <1>2
     DEF CriticalSectionOwnsLock, OtherTypesOK, Thread, DeleteSteps, IdleThread
<1> QED
  BY <1>5, <1>6, <1>7

\* The first step of a request.
LEMMA RequestStep ==
    ASSUME HandlersInv, NEW s \in Slots, Request(s)
    PROVE  HandlersInv'
<1> USE DEF HandlersInv
<1>1. ASSUME NEW k \in Keys, RegisterAllocateIP(s, KeyOwner[k], k)
      PROVE  HandlersInv'
  <2>1. KeyOwner[k] \in Nodes
    BY KeyOwnerIsFunction
  <2>2. PICK ip \in IPs :
          th' = [th EXCEPT ![s] = [pc |-> "reg_subnet", node |-> KeyOwner[k], key |-> k,
                                   ip |-> ip, subnet |-> None]]
    BY <1>1 DEF RegisterAllocateIP
  <2>3. OtherTypesOK'
    BY <1>1, <2>1, <2>2
       DEF RegisterAllocateIP, OtherTypesOK, Thread, RegisterSteps, wgVars
  <2>4. ThreadsEquipped'
    BY <2>1, <2>2 DEF ThreadsEquipped, OtherTypesOK, RegisterSteps
  <2>5. CriticalSectionOwnsLock'
    BY <1>1, <2>2, NoneIsNothing
       DEF RegisterAllocateIP, CriticalSectionOwnsLock, OtherTypesOK
  <2> QED
    BY <2>3, <2>4, <2>5
<1>2. ASSUME NEW n \in Nodes, HeartbeatRecovery(s, n)
      PROVE  HandlersInv'
  <2>1. OtherTypesOK'
    <3>1. nodes[n] \in NodeRecord
      BY DEF OtherTypesOK
    <3>2. [nodes[n] EXCEPT !.fresh = TRUE, !.state = "active"] \in NodeRecord
      BY <3>1 DEF NodeRecord, NodeStates
    <3>3. nodes' \in [Nodes -> NodeRecord]
      <4>1. nodes' = [nodes EXCEPT ![n] = [nodes[n] EXCEPT !.fresh = TRUE, !.state = "active"]]
        BY <1>2 DEF HeartbeatRecovery, Refreshed, OtherTypesOK
      <4> QED
        BY <3>2, <4>1 DEF OtherTypesOK
    <3>4. nodes[n].wgIP \in IPs \cup {None}
      BY <3>1 DEF NodeRecord
    <3>5. [IdleThread EXCEPT !.pc = "up", !.node = n, !.ip = nodes[n].wgIP] \in Thread
      BY <3>4 DEF Thread, IdleThread
    <3>6. th' \in [Slots -> Thread]
      BY <1>2, <3>5 DEF HeartbeatRecovery, OtherTypesOK
    <3>7. UNCHANGED <<mu, wgPeers, allowedIPs, bgpPeers, checker, wgErr>>
      BY <1>2 DEF HeartbeatRecovery, wgVars
    <3> QED
      BY <3>3, <3>6, <3>7 DEF OtherTypesOK
  <2>2. ThreadsEquipped'
    BY <1>2 DEF HeartbeatRecovery, ThreadsEquipped, OtherTypesOK, IdleThread, RegisterSteps
  <2>3. CriticalSectionOwnsLock'
    BY <1>2
       DEF HeartbeatRecovery, Idle, CriticalSectionOwnsLock, OtherTypesOK, IdleThread
  <2> QED
    BY <2>1, <2>2, <2>3
<1>3. ASSUME NEW n \in Nodes, DeleteRecord(s, n)
      PROVE  HandlersInv'
  <2>1. OtherTypesOK'
    <3>1. /\ nodes[n].key \in Keys \cup {None}
          /\ nodes[n].wgIP \in IPs \cup {None}
      BY DEF OtherTypesOK, NodeRecord
    <3>2. NoNode \in NodeRecord
      BY DEF NoNode, NodeRecord, NodeStates
    <3>3. nodes' \in [Nodes -> NodeRecord]
      BY <1>3, <3>2 DEF DeleteRecord, OtherTypesOK
    <3>4. [pc |-> "del_subnet", node |-> n, key |-> nodes[n].key, ip |-> nodes[n].wgIP,
           subnet |-> None] \in Thread
      BY <3>1 DEF Thread, DeleteSteps
    <3>5. th' \in [Slots -> Thread]
      BY <1>3, <3>4 DEF DeleteRecord, OtherTypesOK
    <3>6. wgErr' \in SUBSET Nodes /\ UNCHANGED <<mu, wgPeers, allowedIPs, bgpPeers, checker>>
      BY <1>3 DEF DeleteRecord, OtherTypesOK, wgVars
    <3> QED
      BY <3>3, <3>5, <3>6 DEF OtherTypesOK
  <2>2. ThreadsEquipped'
    BY <1>3 DEF DeleteRecord, ThreadsEquipped, OtherTypesOK, RegisterSteps
  <2>3. CriticalSectionOwnsLock'
    BY <1>3 DEF DeleteRecord, Idle, CriticalSectionOwnsLock, OtherTypesOK
  <2> QED
    BY <2>1, <2>2, <2>3
<1>4. CASE UNCHANGED vars
  BY <1>4, HandlersUnchanged DEF vars, wgVars
<1> QED
  BY <1>1, <1>2, <1>3, <1>4 DEF Request, RegisterExisting, RegisterNoIP

\* Heartbeats of nodes that are up, the passing of time, and the checker.
LEMMA OtherStep ==
    ASSUME HandlersInv,
           (\E n \in Nodes : Heartbeat(n) \/ Lapse(n)) \/ CheckerStep
    PROVE  HandlersInv'
<1> USE DEF HandlersInv
<1>1. UNCHANGED <<mu, th, wgVars, wgErr>>
  BY DEF Heartbeat, Lapse, CheckerStep, Sweep, MarkDown, MarkDownCallback
<1>2. nodes' \in [Nodes -> NodeRecord]
  <2>1. CASE \E n \in Nodes : Heartbeat(n) \/ Lapse(n)
    <3>1. ASSUME NEW r \in NodeRecord
          PROVE  /\ [r EXCEPT !.fresh = TRUE, !.state = "active"] \in NodeRecord
                 /\ [r EXCEPT !.fresh = FALSE] \in NodeRecord
      BY DEF NodeRecord, NodeStates
    <3>2. PICK n \in Nodes : Heartbeat(n) \/ Lapse(n)
      BY <2>1
    <3>3. nodes[n] \in NodeRecord
      BY DEF OtherTypesOK
    <3>4. \/ nodes' = [nodes EXCEPT ![n] = [nodes[n] EXCEPT !.fresh = TRUE, !.state = "active"]]
          \/ nodes' = [nodes EXCEPT ![n] = [nodes[n] EXCEPT !.fresh = FALSE]]
      BY <3>2 DEF Heartbeat, Lapse, Refreshed, OtherTypesOK
    <3> QED
      BY <3>1, <3>3, <3>4 DEF OtherTypesOK
  <2>2. CASE \E n \in Nodes : MarkDown(n)
    BY <2>2 DEF MarkDown, OtherTypesOK, NodeRecord, NodeStates
  <2>3. CASE Sweep \/ MarkDownCallback
    BY <2>3 DEF Sweep, MarkDownCallback, OtherTypesOK
  <2> QED
    BY <2>1, <2>2, <2>3 DEF CheckerStep
<1>3. checker' \in CheckerState
  <2>1. ASSUME NEW n \in Nodes, MarkDown(n)
        PROVE  checker' \in CheckerState
    <3>1. nodes[n].wgIP \in IPs \cup {None}
      BY DEF OtherTypesOK, NodeRecord
    <3> QED
      BY <2>1, <3>1 DEF MarkDown, OtherTypesOK, CheckerState
  <2>2. CASE Sweep
    BY <2>2 DEF Sweep, OtherTypesOK, CheckerState
  <2>3. CASE MarkDownCallback
    BY <2>3 DEF MarkDownCallback, OtherTypesOK, CheckerState
  <2>4. CASE \E n \in Nodes : Heartbeat(n) \/ Lapse(n)
    BY <2>4 DEF Heartbeat, Lapse, OtherTypesOK
  <2> QED
    BY <2>1, <2>2, <2>3, <2>4 DEF CheckerStep
<1>4. bgpPeers' \in SUBSET IPs
  BY DEF Heartbeat, Lapse, CheckerStep, Sweep, MarkDown, MarkDownCallback, OnNodeDown,
         RemoveBGPPeer, OtherTypesOK
<1> QED
  BY <1>1, <1>2, <1>3, <1>4
     DEF OtherTypesOK, ThreadsEquipped, CriticalSectionOwnsLock, wgVars

LEMMA RestartStep ==
    ASSUME HandlersInv, RestartCore
    PROVE  HandlersInv'
<1>1. OtherTypesOK'
  BY DEF HandlersInv, RestartCore, OtherTypesOK, NodeRecord, NodeStates, NoNode, Thread,
         IdleThread, CheckerState, IdleChecker, wgVars
<1>2. ThreadsEquipped'
  BY DEF RestartCore, ThreadsEquipped, IdleThread, RegisterSteps
<1>3. CriticalSectionOwnsLock'
  BY NoneIsNothing DEF RestartCore, CriticalSectionOwnsLock, IdleThread
<1> QED
  BY <1>1, <1>2, <1>3 DEF HandlersInv

-----------------------------------------------------------------------------
\* Every step keeps the invariant.
LEMMA RegistryStep ==
    ASSUME RegistryInv, [Next]_vars
    PROVE  RegistryInv'
<1>1. RegistryInv <=> AllocatorsInv /\ HandlersInv
  BY DEF RegistryInv, AllocatorsInv, HandlersInv, WGIPInv, OtherTypesOK, TypeOK
<1>2. (AllocatorsInv /\ HandlersInv => RegistryInv)'
  BY DEF RegistryInv, AllocatorsInv, HandlersInv, WGIPInv, OtherTypesOK, TypeOK
<1>3. CASE Next
  <2>1. HandlersInv'
    BY <1>1, <1>3, RegisterStep, DeleteStep, RequestStep, OtherStep, RestartStep
       DEF Next, ThreadStep
  <2>2. AllocatorsInv'
    BY <1>3, AllocatorsStep
  <2> QED
    BY <2>1, <2>2, <1>2
<1>4. CASE UNCHANGED vars
  <2>1. HandlersInv'
    BY <1>1, <1>4, HandlersUnchanged DEF vars, wgVars
  <2>2. AllocatorsInv'
    BY <1>1, <1>4, AllocatorsUnchanged DEF vars, allocVars
  <2> QED
    BY <2>1, <2>2, <1>2
<1> QED
  BY <1>3, <1>4

\* Every reachable state of the registry satisfies the invariant.
THEOREM RegistryInvariant == Spec => []RegistryInv
<1>1. RegistryInv /\ [Next]_vars => RegistryInv'
  BY RegistryStep
<1> QED
  BY RegistryInit, <1>1, PTL DEF Spec

\* The registry's state is type correct.
THEOREM RegistryTypeCorrect == Spec => []TypeOK
<1>1. RegistryInv => TypeOK
  BY DEF RegistryInv
<1> QED
  BY RegistryInvariant, <1>1, PTL

\* A goroutine between Lock and Unlock of handleRegister owns Registry.mu,
\* on the error path too (registry.go:252-292).
THEOREM LockIsOwned == Spec => []CriticalSectionOwnsLock
<1>1. RegistryInv => CriticalSectionOwnsLock
  BY DEF RegistryInv
<1> QED
  BY RegistryInvariant, <1>1, PTL

\* Therefore two registrations are never both between the allocation of
\* their address and the insertion of their record.
THEOREM RegistrationsExclude ==
    Spec => [] \A s, t \in Slots :
                 /\ th[s].pc \in {"reg_subnet", "reg_rollback"}
                 /\ th[t].pc \in {"reg_subnet", "reg_rollback"}
                 => s = t
<1>1. CriticalSectionOwnsLock =>
        \A s, t \in Slots :
          /\ th[s].pc \in {"reg_subnet", "reg_rollback"}
          /\ th[t].pc \in {"reg_subnet", "reg_rollback"}
          => s = t
  BY DEF CriticalSectionOwnsLock
<1> QED
  BY LockIsOwned, <1>1, PTL

\* Tunnel addresses are conserved by the whole system, whatever requests
\* overlap (registry.go:263, 273, 394).
THEOREM RegistryConservesAddresses == Spec => []AddressesConserved
<1>1. RegistryInv => AddressesConserved
  BY DEF RegistryInv
<1> QED
  BY RegistryInvariant, <1>1, PTL
=============================================================================
